------------------------------- MODULE UberPi -------------------------------
(***************************************************************************)
(* pset5/uber-pi/uber-pi.c: passenger threads share a few Ubers.  Three    *)
(* implementations of a passenger, chosen by the command line (mode):      *)
(*   "0" passenger              a mutex per Uber, always Uber 0            *)
(*   "1" passenger_better_init  a status table under status_lock, and an   *)
(*                              unlocked look at the counter free_ubers    *)
(*   "2" passenger_trylock      pthread_mutex_trylock on Uber after Uber   *)
(*                                                                         *)
(* A stretch of code under status_lock is one step.  drive() adds samples  *)
(* to the counters of the Uber without a lock of its own: one sample is a  *)
(* load and a store, two steps.                                            *)
(*                                                                         *)
(* A passenger of mode "1" may call drive() with an uber_id that was never *)
(* set.  It then indexes inside[], outside[], uber_times[] and status[]    *)
(* outside their bounds: it may crash the process or overwrite any global, *)
(* free_ubers and the mutexes included.  The model stops at that access    *)
(* (undefined) and says nothing of what comes after it.                    *)
(***************************************************************************)
EXTENDS Integers, FiniteSets, FiniteSetsExt

CONSTANTS
    Passengers,
    NUM_UBERS,
    RIDES_PER_PASSENGER,
    Wild,       \* a number that is not the index of an Uber
    UninitIds,  \* what the uninitialised int uber_id may hold
    Nobody      \* owner of a free mutex

Ubers == 0 .. NUM_UBERS - 1

ASSUME UberPiAssumption ==
    /\ IsFiniteSet(Passengers)
    /\ NUM_UBERS \in Nat \ {0}
    /\ RIDES_PER_PASSENGER \in Nat
    /\ Wild \notin Ubers
    /\ UninitIds \subseteq Ubers \cup {Wild}
    /\ UninitIds # {}
    /\ Nobody \notin Passengers

VARIABLES
    mode,       \* argv[1]
    pc,
    rides,      \* per passenger: k, the rides it has finished
    uber_id,    \* per passenger: uber_id, or the i or idx of the other modes
    uber_locks, \* per Uber: the passenger that holds its mutex
    status,     \* per Uber: "not_in_use" or "in_use"
    free_ubers,
    samples,    \* per Uber: inside[u] + outside[u]
    loaded,     \* per passenger: the count that drive() has loaded
    undefined   \* drive() has accessed an array outside its bounds

locals == <<pc, rides, uber_id, loaded>>
vars == <<mode, locals, uber_locks, status, free_ubers, samples, undefined>>

Init ==
    /\ mode \in {"0", "1", "2"}
    /\ pc = [p \in Passengers |-> "start"]
    /\ rides = [p \in Passengers |-> 0]
    /\ uber_id \in [Passengers -> UninitIds]
    /\ uber_locks = [u \in Ubers |-> Nobody]
    /\ status = [u \in Ubers |-> "not_in_use"]
    /\ free_ubers = NUM_UBERS
    /\ samples = [u \in Ubers |-> 0]
    /\ loaded = [p \in Passengers |-> 0]
    /\ undefined = FALSE

Goto(p, label) == pc' = [pc EXCEPT ![p] = label]

-----------------------------------------------------------------------------
(* The for loop over the rides; idx is reset for every ride. *)
StartRide(p) ==
    /\ pc[p] = "start"
    /\ IF rides[p] = RIDES_PER_PASSENGER
       THEN Goto(p, "done") /\ UNCHANGED uber_id
       ELSE IF mode = "1"
       THEN Goto(p, "sleep") /\ UNCHANGED uber_id
       ELSE Goto(p, "lock") /\ uber_id' = [uber_id EXCEPT ![p] = 0]
    /\ UNCHANGED <<mode, rides, loaded, uber_locks, status, free_ubers, samples>>

\* A lock that does not exclude the other passengers.
LockUberBroken(p) ==
    /\ pc[p] = "lock"
    /\ uber_locks' = [uber_locks EXCEPT ![uber_id[p]] = p]
    /\ Goto(p, "drive")
    /\ UNCHANGED <<mode, rides, uber_id, loaded, status, free_ubers, samples>>

\* passenger: pthread_mutex_lock(); passenger_trylock: a trylock that succeeds.
LockUber(p) ==
    /\ pc[p] = "lock"
    /\ uber_locks[uber_id[p]] = Nobody
    /\ uber_locks' = [uber_locks EXCEPT ![uber_id[p]] = p]
    /\ Goto(p, "drive")
    /\ UNCHANGED <<mode, rides, uber_id, loaded, status, free_ubers, samples>>

\* passenger_trylock: the trylock fails, on to the next Uber.
TryNext(p) ==
    /\ pc[p] = "lock"
    /\ mode = "2"
    /\ uber_locks[uber_id[p]] # Nobody
    /\ uber_id' = [uber_id EXCEPT ![p] = (@ + 1) % NUM_UBERS]
    /\ UNCHANGED <<mode, pc, rides, loaded, uber_locks, status, free_ubers, samples>>

\* passenger_better_init: the unlocked while (free_ubers == 0) is over.
SeeFreeUber(p) ==
    /\ pc[p] = "sleep"
    /\ free_ubers # 0
    /\ Goto(p, "scan")
    /\ UNCHANGED <<mode, rides, uber_id, loaded, uber_locks, status, free_ubers, samples>>

\* A scan that counts an Uber as taken even if it found none.
ScanStatusMiscounting(p) ==
    /\ pc[p] = "scan"
    /\ free_ubers' = free_ubers - 1
    /\ \/ \E u \in Ubers :
            /\ status[u] = "not_in_use"
            /\ \A v \in 0 .. u-1 : status[v] = "in_use"
            /\ status' = [status EXCEPT ![u] = "in_use"]
            /\ uber_id' = [uber_id EXCEPT ![p] = u]
       \/ /\ \A u \in Ubers : status[u] = "in_use"
          /\ UNCHANGED <<status, uber_id>>
    /\ Goto(p, "drive")
    /\ UNCHANGED <<mode, rides, loaded, uber_locks, samples>>

\* The first critical section of passenger_better_init.  When other passengers
\* took the Ubers since the look at free_ubers, uber_id keeps what it held.
ScanStatus(p) ==
    /\ pc[p] = "scan"
    /\ \/ \E u \in Ubers :
            /\ status[u] = "not_in_use"
            /\ \A v \in 0 .. u-1 : status[v] = "in_use"
            /\ free_ubers' = free_ubers - 1
            /\ status' = [status EXCEPT ![u] = "in_use"]
            /\ uber_id' = [uber_id EXCEPT ![p] = u]
       \/ /\ \A u \in Ubers : status[u] = "in_use"
          /\ UNCHANGED <<free_ubers, status, uber_id>>
    /\ Goto(p, "drive")
    /\ UNCHANGED <<mode, rides, loaded, uber_locks, samples>>

\* drive(): load a counter of the Uber ...
LoadSample(p) ==
    /\ pc[p] = "drive"
    /\ uber_id[p] \in Ubers
    /\ loaded' = [loaded EXCEPT ![p] = samples[uber_id[p]]]
    /\ Goto(p, "store")
    /\ UNCHANGED <<mode, rides, uber_id, uber_locks, status, free_ubers, samples>>

\* ... and store it incremented.
StoreSample(p) ==
    /\ pc[p] = "store"
    /\ samples' = [samples EXCEPT ![uber_id[p]] = loaded[p] + 1]
    /\ loaded' = [loaded EXCEPT ![p] = 0]
    /\ Goto(p, "leave")
    /\ UNCHANGED <<mode, rides, uber_id, uber_locks, status, free_ubers>>

\* drive() with a uber_id that is not the index of an Uber: whatever inside[]
\* or outside[] has there is overwritten, or the process dies.
DriveOutside(p) ==
    /\ pc[p] = "drive"
    /\ uber_id[p] \notin Ubers
    /\ undefined' = TRUE
    /\ UNCHANGED <<mode, locals, uber_locks, status, free_ubers, samples>>

\* A trylock passenger that forgets to unlock.
LeaveUberLocked(p) ==
    /\ pc[p] = "leave"
    /\ mode # "1"
    /\ rides' = [rides EXCEPT ![p] = @ + 1]
    /\ Goto(p, "start")
    /\ UNCHANGED <<mode, uber_id, loaded, uber_locks, status, free_ubers, samples>>

LeaveUber(p) ==
    /\ pc[p] = "leave"
    /\ mode # "1"
    /\ uber_locks' = [uber_locks EXCEPT ![uber_id[p]] = Nobody]
    /\ rides' = [rides EXCEPT ![p] = @ + 1]
    /\ Goto(p, "start")
    /\ UNCHANGED <<mode, uber_id, loaded, status, free_ubers, samples>>

\* The second critical section of passenger_better_init.
ReturnUber(p) ==
    /\ pc[p] = "leave"
    /\ mode = "1"
    /\ free_ubers' = free_ubers + 1
    /\ status' = [status EXCEPT ![uber_id[p]] = "not_in_use"]
    /\ rides' = [rides EXCEPT ![p] = @ + 1]
    /\ Goto(p, "start")
    /\ UNCHANGED <<mode, uber_id, loaded, uber_locks, samples>>

PassengerStep(p) ==
    /\ ~undefined
    /\ \/ /\ \/ StartRide(p) \/ LockUber(p) \/ TryNext(p)
             \/ SeeFreeUber(p) \/ ScanStatus(p)
             \/ LoadSample(p) \/ StoreSample(p)
             \/ LeaveUber(p) \/ ReturnUber(p)
          /\ UNCHANGED undefined
       \/ DriveOutside(p)

AllDone == \A p \in Passengers : pc[p] = "done"

\* main() has joined the passengers, or nothing is known of the process.
Joined == (AllDone \/ undefined) /\ UNCHANGED vars

Next == (\E p \in Passengers : PassengerStep(p)) \/ Joined

Spec == Init /\ [][Next]_vars

(***************************************************************************)
(* Every runnable thread runs.  A passenger that waits for a mutex or for  *)
(* free_ubers competes with finitely many rides only, so weak fairness is  *)
(* enough.                                                                 *)
(***************************************************************************)
FairSpec == Spec /\ \A p \in Passengers : WF_vars(PassengerStep(p))

-----------------------------------------------------------------------------
(* Properties *)

InUber(p) == pc[p] \in {"drive", "store", "leave"}

(* TypeOK: the globals of uber-pi.c and the passengers' locals keep their  *)
(* types; free_ubers is never negative.                                    *)
TypeOK ==
    /\ mode \in {"0", "1", "2"}
    /\ pc \in [Passengers -> {"start", "sleep", "scan", "lock", "drive",
                              "store", "leave", "done"}]
    /\ rides \in [Passengers -> 0 .. RIDES_PER_PASSENGER]
    /\ uber_id \in [Passengers -> Ubers \cup {Wild}]
    /\ uber_locks \in [Ubers -> Passengers \cup {Nobody}]
    /\ status \in [Ubers -> {"not_in_use", "in_use"}]
    /\ free_ubers \in Nat
    /\ samples \in [Ubers -> Nat]
    /\ loaded \in [Passengers -> Nat]
    /\ undefined \in BOOLEAN

(* OnePassengerPerUber: two passengers are never in one Uber.              *)
OnePassengerPerUber ==
    \A p, r \in Passengers :
        p # r /\ InUber(p) /\ InUber(r) => uber_id[p] # uber_id[r]

(* MutexedRides: with a mutex per Uber (modes 0 and 2) no Uber is shared,  *)
(* and no sample of drive() is lost to a concurrent increment: every ride  *)
(* driven so far is in the sums that main() estimates pi from.             *)
RidesDriven ==
    SumFunctionOnSet(rides, Passengers)
        + Cardinality({p \in Passengers : pc[p] = "leave"})

MutexedRides ==
    mode # "1" =>
        /\ OnePassengerPerUber
        /\ SumFunctionOnSet(samples, Ubers) = RidesDriven

(* FreeUbersNotLow: passenger_better_init may count an Uber as free that   *)
(* is not, but never the reverse: a passenger that sleeps because          *)
(* free_ubers is 0 does not overlook a free Uber.                          *)
FreeUbersNotLow ==
    Cardinality({u \in Ubers : status[u] = "not_in_use"}) <= free_ubers

(* EveryoneRides: every passenger gets all its rides, however often        *)
(* another one takes the Uber it was looking at, and in the end every Uber *)
(* is free again; unless, which only passenger_better_init does, one goes  *)
(* for a ride before its uber_id was ever set.                             *)
AllRidden ==
    /\ AllDone
    /\ \A p \in Passengers : rides[p] = RIDES_PER_PASSENGER
    /\ \A u \in Ubers : status[u] = "not_in_use" /\ uber_locks[u] = Nobody

EveryoneRides == <>[]AllRidden \/ (mode = "1" /\ <>undefined)

(* NobodySharesAnUber: the comment before passenger_better_init says that  *)
(* it is not possible for two threads to occupy one Uber at the same time. *)
NobodySharesAnUber == mode = "1" => OnePassengerPerUber
=============================================================================
