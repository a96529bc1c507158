---------------------------- MODULE UberPiProofs ----------------------------
(***************************************************************************)
(* uber-pi for any number of passengers, Ubers and rides, and whatever an  *)
(* uninitialised uber_id holds: mutual exclusion of the two mutexed        *)
(* passengers, and the count that the third one sleeps on.                 *)
(***************************************************************************)
EXTENDS UberPi, SumTheorems

(***************************************************************************)
(* OnePassengerPerUber is not inductive: that a passenger in an Uber holds *)
(* the mutex of the very Uber in uber_id is what excludes the others, and  *)
(* no passenger of these modes may come from the scan of the other one.    *)
(***************************************************************************)
RidesUnderMutex ==
    mode # "1" =>
        \A p \in Passengers :
            /\ pc[p] \notin {"sleep", "scan"}
            /\ pc[p] = "lock" => uber_id[p] \in Ubers
            /\ InUber(p) => uber_id[p] \in Ubers /\ uber_locks[uber_id[p]] = p

\* StartRide has found one more ride to do, so rides stays in range.
RideToDo ==
    \A p \in Passengers :
        pc[p] \notin {"start", "done"} => rides[p] < RIDES_PER_PASSENGER

IInv ==
    /\ TypeOK
    /\ FreeUbersNotLow
    /\ RidesUnderMutex
    /\ RideToDo

(***************************************************************************)
(* The sums of MutexedRides need more: what a passenger has loaded is      *)
(* still the count of its Uber when it stores.                             *)
(***************************************************************************)
LoadedFresh ==
    mode # "1" =>
        \A p \in Passengers : pc[p] = "store" => loaded[p] = samples[uber_id[p]]

SamplesCounted ==
    mode # "1" => SumFunctionOnSet(samples, Ubers) = RidesDriven

CountInv == LoadedFresh /\ SamplesCounted

FreeUbers == {u \in Ubers : status[u] = "not_in_use"}

(* UberFacts: Uber 0 exists, and the Ubers can be counted.                 *)
LEMMA UberFacts ==
    /\ NUM_UBERS \in Nat \ {0} /\ RIDES_PER_PASSENGER \in Nat
    /\ 0 \in Ubers /\ Ubers \subseteq Nat
    /\ IsFiniteSet(Ubers) /\ Cardinality(Ubers) = NUM_UBERS
    /\ Wild \notin Ubers /\ Nobody \notin Passengers
    /\ UninitIds \subseteq Ubers \cup {Wild}
  BY UberPiAssumption, FS_Interval DEF Ubers

(* FreeUbersCount: the free Ubers can be counted in every state.           *)
LEMMA FreeUbersCount ==
    /\ IsFiniteSet(FreeUbers) /\ Cardinality(FreeUbers) \in Nat
    /\ FreeUbers # {} => Cardinality(FreeUbers) > 0
  BY UberFacts, FS_Subset, FS_CardinalityType, FS_EmptySet DEF FreeUbers

(* OneMoreAtMost: how far one Uber moves a count of Ubers.                 *)
LEMMA OneMoreAtMost ==
    ASSUME NEW S, IsFiniteSet(S), NEW u
    PROVE  /\ IsFiniteSet(S \cup {u})
           /\ Cardinality(S \cup {u}) \in Nat
           /\ Cardinality(S \cup {u}) <= Cardinality(S) + 1
  <1>1. Cardinality(S) \in Nat
    BY FS_CardinalityType
  <1>2. CASE u \in S
    <2>1. S \cup {u} = S
      BY <1>2
    <2>2. IsFiniteSet(S \cup {u}) /\ Cardinality(S \cup {u}) = Cardinality(S)
      BY <2>1, Zenon
    <2> QED BY <1>1, <2>2
  <1>3. CASE u \notin S
    <2>1. IsFiniteSet(S \cup {u}) /\ Cardinality(S \cup {u}) = Cardinality(S) + 1
      BY <1>3, FS_AddElement
    <2> QED BY <1>1, <2>1
  <1> QED BY <1>2, <1>3

(* InitIInv: main() establishes the invariant before the first thread.     *)
LEMMA InitIInv == Init => IInv
  <1> SUFFICES ASSUME Init PROVE IInv
    OBVIOUS
  <1> USE UberFacts DEF Init
  <1>1. TypeOK
    <2>1. uber_id \in [Passengers -> Ubers \cup {Wild}]
      OBVIOUS
    <2>2. 0 \in 0 .. RIDES_PER_PASSENGER
      OBVIOUS
    <2> QED BY <2>1, <2>2 DEF TypeOK
  <1>2. FreeUbersNotLow
    <2>1. {u \in Ubers : status[u] = "not_in_use"} = Ubers
      OBVIOUS
    <2> QED BY <2>1 DEF FreeUbersNotLow
  <1>3. RidesUnderMutex
    BY DEF RidesUnderMutex, InUber
  <1>4. RideToDo
    BY DEF RideToDo
  <1> QED BY <1>1, <1>2, <1>3, <1>4 DEF IInv

(* ScanKeepsCount: the first critical section of passenger_better_init     *)
(* takes one Uber and counts one down, or neither.                         *)
LEMMA ScanKeepsCount ==
    ASSUME TypeOK, FreeUbersNotLow, NEW p \in Passengers, ScanStatus(p)
    PROVE  free_ubers' \in Nat /\ FreeUbersNotLow'
  <1>1. ASSUME NEW u \in Ubers, status[u] = "not_in_use",
               free_ubers' = free_ubers - 1,
               status' = [status EXCEPT ![u] = "in_use"]
        PROVE  free_ubers' \in Nat /\ FreeUbersNotLow'
    <2>1. u \in FreeUbers
      BY <1>1 DEF FreeUbers
    <2>2. FreeUbers' = FreeUbers \ {u}
      BY <1>1 DEF FreeUbers, TypeOK
    <2>3. Cardinality(FreeUbers') = Cardinality(FreeUbers) - 1
      BY <2>1, <2>2, FreeUbersCount, FS_RemoveElement
    <2>4. Cardinality(FreeUbers) > 0 /\ Cardinality(FreeUbers) <= free_ubers
      BY <2>1, FreeUbersCount DEF FreeUbersNotLow, FreeUbers
    <2> QED BY <1>1, <2>3, <2>4, FreeUbersCount DEF FreeUbersNotLow, FreeUbers, TypeOK
  <1>2. ASSUME UNCHANGED <<free_ubers, status>>
        PROVE  free_ubers' \in Nat /\ FreeUbersNotLow'
    BY <1>2 DEF TypeOK, FreeUbersNotLow
  <1> QED BY <1>1, <1>2 DEF ScanStatus

(* ReturnKeepsCount: the second one counts one up and frees at most one.   *)
LEMMA ReturnKeepsCount ==
    ASSUME TypeOK, FreeUbersNotLow, NEW p \in Passengers, ReturnUber(p)
    PROVE  free_ubers' \in Nat /\ FreeUbersNotLow'
  <1>1. FreeUbers' \subseteq FreeUbers \cup {uber_id[p]}
    BY DEF ReturnUber, FreeUbers, TypeOK
  <1>2. /\ IsFiniteSet(FreeUbers \cup {uber_id[p]})
        /\ Cardinality(FreeUbers \cup {uber_id[p]}) <= Cardinality(FreeUbers) + 1
    BY FreeUbersCount, OneMoreAtMost
  <1>3. /\ Cardinality(FreeUbers') <= Cardinality(FreeUbers \cup {uber_id[p]})
        /\ Cardinality(FreeUbers') \in Nat
    BY <1>1, <1>2, FS_Subset, FS_CardinalityType
  <1>4. Cardinality(FreeUbers \cup {uber_id[p]}) \in Nat
    BY <1>2, FS_CardinalityType
  <1>5. Cardinality(FreeUbers') <= free_ubers + 1 /\ free_ubers' = free_ubers + 1
    BY <1>2, <1>3, <1>4, FreeUbersCount DEF FreeUbersNotLow, FreeUbers, TypeOK, ReturnUber
  <1> QED BY <1>5 DEF FreeUbersNotLow, FreeUbers, TypeOK

(* StepIInv: no step of a passenger breaks the invariant.                  *)
LEMMA StepIInv == IInv /\ [Next]_vars => IInv'
  <1> SUFFICES ASSUME IInv, [Next]_vars PROVE IInv'
    OBVIOUS
  <1> USE UberFacts DEF IInv, Goto
  <1>1. ASSUME NEW p \in Passengers, StartRide(p), UNCHANGED undefined PROVE IInv'
    <2>1. TypeOK'
      BY <1>1 DEF StartRide, TypeOK
    <2>2. FreeUbersNotLow'
      BY <1>1 DEF StartRide, FreeUbersNotLow
    <2>3. RidesUnderMutex'
      BY <1>1 DEF StartRide, RidesUnderMutex, InUber, TypeOK
    <2>4. RideToDo'
      BY <1>1 DEF StartRide, RideToDo, TypeOK
    <2> QED BY <2>1, <2>2, <2>3, <2>4
  <1>2. ASSUME NEW p \in Passengers, LockUber(p), UNCHANGED undefined PROVE IInv'
    <2>1. TypeOK'
      BY <1>2 DEF LockUber, TypeOK
    <2>2. FreeUbersNotLow'
      BY <1>2 DEF LockUber, FreeUbersNotLow
    <2>3. RidesUnderMutex'
      BY <1>2 DEF LockUber, RidesUnderMutex, InUber, TypeOK
    <2>4. RideToDo'
      BY <1>2 DEF LockUber, RideToDo, TypeOK
    <2> QED BY <2>1, <2>2, <2>3, <2>4
  <1>3. ASSUME NEW p \in Passengers, TryNext(p), UNCHANGED undefined PROVE IInv'
    <2>1. (uber_id[p] + 1) % NUM_UBERS \in Ubers
      <3>1. uber_id[p] \in Ubers
        BY <1>3 DEF TryNext, RidesUnderMutex
      <3> QED BY <3>1 DEF Ubers
    <2>2. TypeOK'
      BY <1>3, <2>1 DEF TryNext, TypeOK
    <2>3. FreeUbersNotLow'
      BY <1>3 DEF TryNext, FreeUbersNotLow
    <2>4. RidesUnderMutex'
      BY <1>3, <2>1 DEF TryNext, RidesUnderMutex, InUber, TypeOK
    <2>5. RideToDo'
      BY <1>3 DEF TryNext, RideToDo, TypeOK
    <2> QED BY <2>2, <2>3, <2>4, <2>5
  <1>4. ASSUME NEW p \in Passengers, SeeFreeUber(p), UNCHANGED undefined PROVE IInv'
    <2>1. TypeOK'
      BY <1>4 DEF SeeFreeUber, TypeOK
    <2>2. FreeUbersNotLow'
      BY <1>4 DEF SeeFreeUber, FreeUbersNotLow
    <2>3. RidesUnderMutex'
      BY <1>4 DEF SeeFreeUber, RidesUnderMutex, InUber, TypeOK
    <2>4. RideToDo'
      BY <1>4 DEF SeeFreeUber, RideToDo, TypeOK
    <2> QED BY <2>1, <2>2, <2>3, <2>4
  <1>5. ASSUME NEW p \in Passengers, ScanStatus(p), UNCHANGED undefined PROVE IInv'
    <2>1. free_ubers' \in Nat /\ FreeUbersNotLow'
      BY <1>5, ScanKeepsCount
    <2>2. TypeOK'
      BY <1>5, <2>1 DEF ScanStatus, TypeOK
    <2>3. RidesUnderMutex'
      BY <1>5 DEF ScanStatus, RidesUnderMutex, InUber, TypeOK
    <2>4. RideToDo'
      BY <1>5 DEF ScanStatus, RideToDo, TypeOK
    <2> QED BY <2>1, <2>2, <2>3, <2>4
  <1>6. ASSUME NEW p \in Passengers, LoadSample(p), UNCHANGED undefined PROVE IInv'
    <2>1. TypeOK'
      BY <1>6 DEF LoadSample, TypeOK
    <2>2. FreeUbersNotLow'
      BY <1>6 DEF LoadSample, FreeUbersNotLow
    <2>3. RidesUnderMutex'
      BY <1>6 DEF LoadSample, RidesUnderMutex, InUber, TypeOK
    <2>4. RideToDo'
      BY <1>6 DEF LoadSample, RideToDo, TypeOK
    <2> QED BY <2>1, <2>2, <2>3, <2>4
  <1>7. ASSUME NEW p \in Passengers, StoreSample(p), UNCHANGED undefined PROVE IInv'
    <2> USE DEF StoreSample, TypeOK
    <2>0. samples' \in [Ubers -> Nat]
      <3>1. samples \in [Ubers -> Nat] /\ loaded[p] + 1 \in Nat
        BY <1>7
      <3>2. samples' = [samples EXCEPT ![uber_id[p]] = loaded[p] + 1]
        BY <1>7
      <3> HIDE DEF IInv, TypeOK, StoreSample
      <3> QED BY <3>1, <3>2, Zenon
    <2>1. TypeOK'
      BY <1>7, <2>0
    <2>2. FreeUbersNotLow'
      BY <1>7 DEF StoreSample, FreeUbersNotLow
    <2>3. RidesUnderMutex'
      BY <1>7 DEF StoreSample, RidesUnderMutex, InUber, TypeOK
    <2>4. RideToDo'
      BY <1>7 DEF StoreSample, RideToDo, TypeOK
    <2> QED BY <2>1, <2>2, <2>3, <2>4
  <1>8. ASSUME NEW p \in Passengers, LeaveUber(p), UNCHANGED undefined PROVE IInv'
    <2>1. uber_id[p] \in Ubers /\ uber_locks[uber_id[p]] = p
      BY <1>8 DEF LeaveUber, RidesUnderMutex, InUber
    <2>2. rides[p] + 1 \in 0 .. RIDES_PER_PASSENGER
      BY <1>8 DEF LeaveUber, TypeOK, RideToDo
    <2>3. TypeOK'
      BY <1>8, <2>2 DEF LeaveUber, TypeOK
    <2>4. FreeUbersNotLow'
      BY <1>8 DEF LeaveUber, FreeUbersNotLow
    <2>5. RidesUnderMutex'
      BY <1>8, <2>1 DEF LeaveUber, RidesUnderMutex, InUber, TypeOK
    <2>6. RideToDo'
      BY <1>8 DEF LeaveUber, RideToDo, TypeOK
    <2> QED BY <2>3, <2>4, <2>5, <2>6
  <1>9. ASSUME NEW p \in Passengers, ReturnUber(p), UNCHANGED undefined PROVE IInv'
    <2>1. free_ubers' \in Nat /\ FreeUbersNotLow'
      BY <1>9, ReturnKeepsCount
    <2>2. rides[p] + 1 \in 0 .. RIDES_PER_PASSENGER
      BY <1>9 DEF ReturnUber, TypeOK, RideToDo
    <2>3. TypeOK'
      BY <1>9, <2>1, <2>2 DEF ReturnUber, TypeOK
    <2>4. RidesUnderMutex'
      BY <1>9 DEF ReturnUber, RidesUnderMutex
    <2>5. RideToDo'
      BY <1>9 DEF ReturnUber, RideToDo, TypeOK
    <2> QED BY <2>1, <2>3, <2>4, <2>5
  <1>10. ASSUME NEW p \in Passengers, DriveOutside(p) PROVE IInv'
    <2>1. TypeOK'
      BY <1>10 DEF DriveOutside, locals, TypeOK
    <2>2. FreeUbersNotLow'
      BY <1>10 DEF DriveOutside, FreeUbersNotLow
    <2>3. RidesUnderMutex'
      BY <1>10 DEF DriveOutside, locals, RidesUnderMutex, InUber
    <2>4. RideToDo'
      BY <1>10 DEF DriveOutside, locals, RideToDo
    <2> QED BY <2>1, <2>2, <2>3, <2>4
  <1>11. ASSUME UNCHANGED vars PROVE IInv'
    <2> USE <1>11 DEF vars, locals
    <2>1. TypeOK'
      BY DEF TypeOK
    <2>2. FreeUbersNotLow'
      BY DEF FreeUbersNotLow
    <2>3. RidesUnderMutex'
      BY DEF RidesUnderMutex, InUber
    <2>4. RideToDo'
      BY DEF RideToDo
    <2> QED BY <2>1, <2>2, <2>3, <2>4
  <1> QED
    BY <1>1, <1>2, <1>3, <1>4, <1>5, <1>6, <1>7, <1>8, <1>9, <1>10, <1>11
       DEF Next, PassengerStep, Joined

Leaving == {p \in Passengers : pc[p] = "leave"}

(* LeavingCount: the passengers that are about to leave can be counted.    *)
LEMMA LeavingCount == IsFiniteSet(Leaving) /\ Cardinality(Leaving) \in Nat
  BY UberPiAssumption, FS_Subset, FS_CardinalityType DEF Leaving

(* CountsUnchanged: a step that drives and ends no ride.                   *)
LEMMA CountsUnchanged ==
    ASSUME SamplesCounted,
           UNCHANGED <<mode, rides, samples>>, Leaving' = Leaving
    PROVE  SamplesCounted'
  BY DEF SamplesCounted, RidesDriven, Leaving

(* StoreCounts: in the mutexed modes a store adds one to the sum of the    *)
(* samples, and its passenger joins those about to leave.                  *)
LEMMA StoreCounts ==
    ASSUME IInv, CountInv, NEW p \in Passengers, StoreSample(p)
    PROVE  CountInv'
  <1> USE UberFacts DEF IInv
  <1> SUFFICES ASSUME mode # "1" PROVE CountInv'
    BY DEF StoreSample, CountInv, LoadedFresh, SamplesCounted
  <1> DEFINE u == uber_id[p]
  <1>1. u \in Ubers /\ loaded[p] = samples[u] /\ pc[p] = "store"
    BY DEF StoreSample, RidesUnderMutex, InUber, CountInv, LoadedFresh
  <1>2. /\ \A v \in Ubers : samples[v] \in Nat /\ samples'[v] \in Nat
        /\ \A v \in Ubers \ {u} : samples[v] = samples'[v]
        /\ samples'[u] = samples[u] + 1
    <2>1. samples' = [samples EXCEPT ![u] = loaded[p] + 1]
      BY DEF StoreSample
    <2>2. samples \in [Ubers -> Nat]
      BY DEF TypeOK
    <2> QED BY <1>1, <2>1, <2>2
  <1>3. SumFunctionOnSet(samples', Ubers) = SumFunctionOnSet(samples, Ubers) + 1
    <2>1. SumFunctionOnSet(samples, Ubers) \in Nat
      BY <1>2, SumType
    <2>2. SumFunctionOnSet(samples', Ubers) =
              SumFunctionOnSet(samples, Ubers) - samples[u] + samples'[u]
      <3>1. u \in Ubers /\ IsFiniteSet(Ubers)
        BY <1>1
      <3>2. \A v \in Ubers : samples[v] \in Nat
        BY <1>2
      <3>3. \A v \in Ubers : samples'[v] \in Nat
        BY <1>2
      <3>4. \A v \in Ubers \ {u} : samples[v] = samples'[v]
        BY <1>2
      <3> HIDE UberFacts DEF u, IInv
      <3> QED BY <3>1, <3>2, <3>3, <3>4, SumUpdate
    <2>3. samples[u] \in Nat /\ samples'[u] = samples[u] + 1
      BY <1>1, <1>2
    <2> HIDE UberFacts DEF u, IInv
    <2> QED BY <2>1, <2>2, <2>3
  <1>4. Cardinality(Leaving') = Cardinality(Leaving) + 1
    <2>1. Leaving' = Leaving \cup {p} /\ p \notin Leaving
      BY <1>1 DEF StoreSample, Goto, Leaving, TypeOK
    <2> QED BY <2>1, LeavingCount, FS_AddElement
  <1>5. SamplesCounted'
    <2>1. SumFunctionOnSet(rides, Passengers) \in Nat /\ rides' = rides
      BY UberPiAssumption, SumType DEF TypeOK, StoreSample
    <2>2. SumFunctionOnSet(samples, Ubers) =
              SumFunctionOnSet(rides, Passengers) + Cardinality(Leaving)
      BY DEF CountInv, SamplesCounted, RidesDriven, Leaving
    <2>3. SumFunctionOnSet(samples', Ubers) =
              SumFunctionOnSet(rides', Passengers) + Cardinality(Leaving')
      BY <1>3, <1>4, <2>1, <2>2, LeavingCount
    <2> QED BY <2>3 DEF SamplesCounted, RidesDriven, Leaving
  <1>6. LoadedFresh'
    <2> SUFFICES ASSUME NEW r \in Passengers, pc'[r] = "store"
                 PROVE  loaded'[r] = samples'[uber_id'[r]]
      BY DEF LoadedFresh
    <2>1. r # p /\ pc[r] = "store" /\ loaded'[r] = loaded[r] /\ uber_id' = uber_id
      BY DEF StoreSample, Goto, TypeOK
    <2>2. uber_id[r] \in Ubers /\ uber_id[r] # u
      BY <1>1, <2>1 DEF RidesUnderMutex, InUber
    <2>3. loaded[r] = samples[uber_id[r]]
      BY <2>1 DEF CountInv, LoadedFresh
    <2> QED BY <1>2, <2>1, <2>2, <2>3
  <1> QED BY <1>5, <1>6 DEF CountInv

(* LeaveCounts: a passenger that leaves its Uber moves its ride from those *)
(* under way to those finished.                                            *)
LEMMA LeaveCounts ==
    ASSUME IInv, CountInv, NEW p \in Passengers, LeaveUber(p)
    PROVE  CountInv'
  <1> USE UberFacts DEF IInv
  <1>1. /\ \A r \in Passengers : rides[r] \in Nat /\ rides'[r] \in Nat
        /\ \A r \in Passengers \ {p} : rides[r] = rides'[r]
        /\ rides'[p] = rides[p] + 1 /\ mode # "1"
    BY DEF LeaveUber, TypeOK
  <1>2. SumFunctionOnSet(rides', Passengers) = SumFunctionOnSet(rides, Passengers) + 1
    <2>1. SumFunctionOnSet(rides, Passengers) \in Nat
      BY <1>1, UberPiAssumption, SumType
    <2>2. SumFunctionOnSet(rides', Passengers) =
              SumFunctionOnSet(rides, Passengers) - rides[p] + rides'[p]
      BY <1>1, UberPiAssumption, SumUpdate
    <2> QED BY <1>1, <2>1, <2>2
  <1>3. Cardinality(Leaving') = Cardinality(Leaving) - 1
    <2>1. Leaving' = Leaving \ {p} /\ p \in Leaving
      BY DEF LeaveUber, Goto, Leaving, TypeOK
    <2> QED BY <2>1, LeavingCount, FS_RemoveElement
  <1>4. SamplesCounted'
    <2>1. SumFunctionOnSet(rides, Passengers) \in Nat
      BY <1>1, UberPiAssumption, SumType
    <2>2. SumFunctionOnSet(samples, Ubers) =
              SumFunctionOnSet(rides, Passengers) + Cardinality(Leaving)
      BY <1>1 DEF CountInv, SamplesCounted, RidesDriven, Leaving
    <2>3. SumFunctionOnSet(samples', Ubers) =
              SumFunctionOnSet(rides', Passengers) + Cardinality(Leaving')
      BY <1>2, <1>3, <2>1, <2>2, LeavingCount DEF LeaveUber
    <2> QED BY <2>3 DEF SamplesCounted, RidesDriven, Leaving
  <1>5. LoadedFresh'
    BY DEF LeaveUber, Goto, CountInv, LoadedFresh, TypeOK
  <1> QED BY <1>4, <1>5 DEF CountInv

(* InitCounted: no ride has been driven and no sample taken.               *)
LEMMA InitCounted == Init => CountInv
  <1> SUFFICES ASSUME Init PROVE CountInv
    OBVIOUS
  <1> USE UberFacts DEF Init
  <1>1. LoadedFresh
    BY DEF LoadedFresh
  <1>2. /\ SumFunctionOnSet(samples, Ubers) = 0
        /\ SumFunctionOnSet(rides, Passengers) = 0
    <2>1. /\ \A u \in Ubers : samples[u] = 0
          /\ \A p \in Passengers : rides[p] = 0
      OBVIOUS
    <2> QED BY <2>1, UberPiAssumption, SumOfZeros
  <1>3. Cardinality(Leaving) = 0
    <2>1. Leaving = {}
      BY DEF Leaving
    <2> QED BY <2>1, FS_EmptySet
  <1>4. SamplesCounted
    BY <1>2, <1>3 DEF SamplesCounted, RidesDriven, Leaving
  <1> QED BY <1>1, <1>4 DEF CountInv

(* StepCounted: with mutexes no step loses a sample.                       *)
LEMMA StepCounted == IInv /\ CountInv /\ [Next]_vars => CountInv'
  <1> SUFFICES ASSUME IInv, CountInv, [Next]_vars PROVE CountInv'
    OBVIOUS
  <1> USE DEF IInv, CountInv
  <1>1. ASSUME NEW p \in Passengers,
               \/ StartRide(p) \/ LockUber(p) \/ TryNext(p)
               \/ SeeFreeUber(p) \/ ScanStatus(p) \/ LoadSample(p)
        PROVE  CountInv'
    <2> USE <1>1
            DEF StartRide, LockUber, TryNext, SeeFreeUber, ScanStatus, LoadSample
    <2>1. LoadedFresh'
      <3> SUFFICES ASSUME mode # "1", NEW r \in Passengers, pc'[r] = "store"
                   PROVE  loaded'[r] = samples'[uber_id'[r]]
        BY DEF LoadedFresh
      <3>1. CASE r = p
        <4>1. LoadSample(p)
          BY <3>1 DEF Goto, TypeOK
        <4>2. uber_id[p] \in Ubers
          BY <4>1 DEF RidesUnderMutex, InUber
        <4> QED BY <3>1, <4>1, <4>2 DEF TypeOK
      <3>2. CASE r # p
        <4>1. /\ pc[r] = "store" /\ loaded'[r] = loaded[r]
              /\ uber_id'[r] = uber_id[r] /\ samples' = samples
          BY <3>2 DEF Goto, TypeOK
        <4> QED BY <4>1 DEF LoadedFresh
      <3> QED BY <3>1, <3>2
    <2>2. Leaving' = Leaving
      BY DEF Goto, Leaving, TypeOK
    <2>3. UNCHANGED <<mode, rides, samples>>
      OBVIOUS
    <2>4. SamplesCounted'
      BY <2>2, <2>3, CountsUnchanged
    <2> QED BY <2>1, <2>4
  <1>2. ASSUME NEW p \in Passengers, ReturnUber(p) PROVE CountInv'
    BY <1>2 DEF ReturnUber, LoadedFresh, SamplesCounted
  <1>3. ASSUME UNCHANGED <<mode, locals, samples>> PROVE CountInv'
    <2>1. LoadedFresh'
      BY <1>3 DEF LoadedFresh, locals
    <2>2. SamplesCounted'
      BY <1>3, CountsUnchanged DEF locals, Leaving
    <2> QED BY <2>1, <2>2
  <1> HIDE DEF IInv, CountInv
  <1>4. ASSUME NEW p \in Passengers, StoreSample(p) \/ LeaveUber(p) PROVE CountInv'
    BY <1>4, StoreCounts, LeaveCounts
  <1> QED BY <1>1, <1>2, <1>3, <1>4 DEF Next, PassengerStep, Joined, DriveOutside, vars

LEMMA SpecIInv == Spec => []IInv
  BY InitIInv, StepIInv, PTL DEF Spec

(* UberPiType: the state of uber-pi.c keeps its types; in particular the   *)
(* unlocked look never sees a negative free_ubers, which it would take for *)
(* a free Uber for ever.                                                   *)
THEOREM UberPiType == Spec => []TypeOK
  BY SpecIInv, PTL DEF IInv

(* UberPiFreeUbers: passenger_better_init never sleeps because free_ubers  *)
(* is 0 while an Uber is free.                                             *)
THEOREM UberPiFreeUbers == Spec => []FreeUbersNotLow
  BY SpecIInv, PTL DEF IInv

(* UberPiMutexedRides: two passengers with a mutex per Uber, that of mode  *)
(* "0" and the one that polls with trylock, are never in one Uber, and     *)
(* main() estimates pi from every sample that was driven.                  *)
THEOREM UberPiMutexedRides == Spec => []MutexedRides
  <1>1. IInv /\ CountInv => MutexedRides
    <2>1. IInv => (mode # "1" => OnePassengerPerUber)
      BY DEF IInv, RidesUnderMutex, OnePassengerPerUber
    <2>2. CountInv => (mode # "1" => SumFunctionOnSet(samples, Ubers) = RidesDriven)
      BY DEF CountInv, SamplesCounted
    <2> QED BY <2>1, <2>2 DEF MutexedRides
  <1> QED BY <1>1, SpecIInv, InitCounted, StepCounted, PTL DEF Spec
=============================================================================
