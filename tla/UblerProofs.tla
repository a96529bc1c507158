---------------------------- MODULE UblerProofs ----------------------------
(***************************************************************************)
(* Ubler, for any number of drivers and requests: nothing is picked up     *)
(* twice, a customer and its meal have one driver between them, and a      *)
(* driver that leaves the pool leaves no request behind.                   *)
(***************************************************************************)
EXTENDS Ubler, SumTheorems

Pcs == {"receive", "look", "lock", "check", "pick up",
        "drop off", "load", "store", "gone"}

Carrying(d) == pc[d] \in {"drop off", "load", "store"}

-----------------------------------------------------------------------------
(* The inductive invariant.  First the part that keeps things from being   *)
(* picked up twice.                                                        *)

\* A matched meal's customer is the customer that ordered it.
Pointing == Matched => \A c \in Reqs : mealCustomer[customerMeal[c]] = c

HasRequest == \A d \in Drivers : pc[d] \notin {"receive", "gone"} => req[d] \in Things

Delivering ==
    \A d \in Drivers : pc[d] \in {"load", "store"} =>
        \/ todo[d] = <<req[d], Partner(req[d])>>
        \/ todo[d] = <<Partner(req[d])>> /\ completed[req[d]] # 0

Holding ==
    \A d \in Drivers : pc[d] \in {"check", "pick up"} => lock[CustomerOf(req[d])] = d

ToPickUp ==
    \A d \in Drivers : pc[d] = "pick up" =>
        picked[req[d]] = 0 /\ (Matched => picked[Partner(req[d])] = 0)

OnePerPair == Matched => \A t \in Things : picked[t] + picked[Partner(t)] <= 1

PickInv ==
    /\ TypeOK /\ Pointing /\ HasRequest /\ Delivering
    /\ Holding /\ ToPickUp /\ OnePerPair /\ NothingPickedUpTwice

(* Then the part that keeps requests from being forgotten. *)
InHand(c) == Finished(c) \/ \E d \in Drivers : Serving(d, c)

\* What was picked up is delivered or on its way.
CarriedOrFinished ==
    Matched => \A t \in Things : picked[t] # 0 =>
        Finished(CustomerOf(t)) \/ \E d \in Drivers : Carrying(d) /\ req[d] = t

\* Who completes one side of a request goes on to the other.
Begun == Matched => \A t \in Things : completed[t] # 0 => InHand(CustomerOf(t))

\* The scan has passed index 0 only by handing it out or seeing it completed.
HandedOut ==
    Matched => \A k \in Kinds : pos[k] >= 1 => InHand(CustomerOf(<<k, 0>>))

WorkInv == CarriedOrFinished /\ Begun /\ HandedOut /\ NobodyLeavesWork

(* And the part that keeps requests from being completed twice, although   *)
(* the completions are unlocked loads and stores: a pair is carried by one *)
(* driver, which finds the counts it has not reached yet at zero.          *)
OneCarrier ==
    \A d, e \in Drivers : d # e /\ Carrying(d) /\ Carrying(e) =>
        req[e] # req[d] /\ req[e] # Partner(req[d])

CarriedPicked == \A d \in Drivers : Carrying(d) => picked[req[d]] # 0

CompletedPicked ==
    \A t \in Things : completed[t] # 0 => picked[t] # 0 \/ picked[Partner(t)] # 0

\* The sides of its request that the driver has still to complete.
LeftToDo(d) ==
    IF pc[d] = "drop off" \/ todo[d] = <<req[d], Partner(req[d])>>
    THEN {req[d], Partner(req[d])} ELSE {Partner(req[d])}

NotYetCompleted ==
    \A d \in Drivers : Carrying(d) =>
        /\ \A t \in LeftToDo(d) : completed[t] = 0
        /\ pc[d] = "store" => loaded[d] = 0

CompletedOnce == \A t \in Things : completed[t] <= 1

OnceInv ==
    Matched => /\ OneCarrier /\ CarriedPicked /\ CompletedPicked
               /\ NotYetCompleted /\ CompletedOnce

\* What the drivers count themselves is what the requests count.
DroppingOff == {d \in Drivers : pc[d] = "drop off"}

CountInv ==
    /\ SumFunctionOnSet(picked, Things) = SumFunctionOnSet(pickups, Drivers)
    /\ SumFunctionOnSet(pickups, Drivers) =
           SumFunctionOnSet(deliveries, Drivers) + Cardinality(DroppingOff)

-----------------------------------------------------------------------------
(* Facts about the pointers. *)

\* What a request points to is a request, and its lock is some customer's.
LEMMA PartnerType ==
    ASSUME TypeOK, NEW t \in Things
    PROVE  Partner(t) \in Things /\ CustomerOf(t) \in Reqs
  <1>1. t[1] \in Kinds /\ t[2] \in Reqs
    BY DEF Things
  <1>2. CASE t[1] = "customer"
    BY <1>1, <1>2 DEF Partner, CustomerOf, TypeOK, Things, Kinds
  <1>3. CASE t[1] = "meal"
    BY <1>1, <1>3 DEF Partner, CustomerOf, TypeOK, Things, Kinds
  <1> QED BY <1>1, <1>2, <1>3 DEF Kinds

\* In a matched pair each side points to the other, and both use one mutex.
LEMMA PartnerMatched ==
    ASSUME TypeOK, Pointing, Matched, NEW t \in Things
    PROVE  /\ CustomerOf(Partner(t)) = CustomerOf(t)
           /\ Partner(Partner(t)) = t
           /\ Partner(t) # t
           /\ Pair(CustomerOf(t)) = {t, Partner(t)}
  <1>1. t[1] \in Kinds /\ t[2] \in Reqs /\ t = <<t[1], t[2]>>
    BY DEF Things
  <1>2. CASE t[1] = "customer"
    <2>1. Partner(t) = <<"meal", customerMeal[t[2]]>> /\ CustomerOf(t) = t[2]
      BY <1>2 DEF Partner, CustomerOf
    <2>2. mealCustomer[customerMeal[t[2]]] = t[2]
      BY <1>1 DEF Pointing
    <2>3. CustomerOf(Partner(t)) = t[2] /\ Partner(Partner(t)) = <<"customer", t[2]>>
      BY <2>1, <2>2 DEF Partner, CustomerOf
    <2>4. t = <<"customer", t[2]>>
      BY <1>1, <1>2
    <2> QED BY <2>1, <2>3, <2>4 DEF Pair
  <1>3. CASE t[1] = "meal"
    <2>1. Partner(t) = <<"customer", mealCustomer[t[2]]>> /\ CustomerOf(t) = mealCustomer[t[2]]
      BY <1>3 DEF Partner, CustomerOf
    <2>2. customerMeal[mealCustomer[t[2]]] = t[2]
      BY <1>1 DEF Matched
    <2>3. /\ CustomerOf(Partner(t)) = mealCustomer[t[2]]
          /\ Partner(Partner(t)) = <<"meal", t[2]>>
      BY <2>1, <2>2 DEF Partner, CustomerOf
    <2>4. t = <<"meal", t[2]>>
      BY <1>1, <1>3
    <2>5. Pair(CustomerOf(t)) = {<<"customer", mealCustomer[t[2]]>>, <<"meal", t[2]>>}
      BY <2>1, <2>2 DEF Pair
    <2>6. Pair(CustomerOf(t)) = {Partner(t), t}
      BY <2>1, <2>4, <2>5
    <2> QED BY <2>1, <2>3, <2>4, <2>6
  <1> QED BY <1>1, <1>2, <1>3 DEF Kinds

\* The pointers are set up before the drivers start and do not change.
LEMMA PointersFixed ==
    ASSUME [Next]_vars
    PROVE  /\ UNCHANGED pointers
           /\ Matched' <=> Matched
           /\ \A t : Partner(t)' = Partner(t) /\ CustomerOf(t)' = CustomerOf(t)
           /\ \A c : Pair(c)' = Pair(c)
  <1>1. UNCHANGED pointers
    BY DEF Next, Joined, DriverStep, vars, ReceiveRequest, NoRequest, Look, LockCustomer,
           StillWaiting, TooLate, PickUp, DropOff, LoadCompleted, StoreCompleted
  <1> QED BY <1>1 DEF pointers, Matched, Partner, CustomerOf, Pair

-----------------------------------------------------------------------------
(* PickInv, action by action. *)

LEMMA PickInit == Init => PickInv
  <1> SUFFICES ASSUME Init PROVE PickInv
    OBVIOUS
  <1>1. PICK orderedBy \in [Reqs -> Reqs], swap \in Swaps :
            /\ \A c \in Reqs : orderedBy[customerMeal[c]] = c
            /\ \A m \in Reqs : customerMeal[orderedBy[m]] = m
            /\ mealCustomer = [m \in Reqs |-> orderedBy[swap[m]]]
    BY DEF Init, Ordered, swap_meals
  <1>2. customerMeal \in [Reqs -> Reqs] /\ mealCustomer \in [Reqs -> Reqs]
    BY <1>1 DEF Init, Swaps
  <1>3. TypeOK
    BY <1>2, UblerAssumption DEF Init, TypeOK, NoThing, Kinds
  <1>4. Pointing
    <2> SUFFICES ASSUME Matched, NEW c \in Reqs PROVE mealCustomer[customerMeal[c]] = c
      BY DEF Pointing
    <2>1. customerMeal[c] \in Reqs /\ mealCustomer[customerMeal[c]] \in Reqs
      BY <1>2
    <2>2. customerMeal[mealCustomer[customerMeal[c]]] = customerMeal[c]
      BY <2>1 DEF Matched
    <2>3. orderedBy[customerMeal[mealCustomer[customerMeal[c]]]] = mealCustomer[customerMeal[c]]
      BY <1>1, <2>1
    <2> QED BY <1>1, <2>2, <2>3
  <1>5. HasRequest /\ Delivering /\ Holding /\ ToPickUp
    BY DEF Init, HasRequest, Delivering, Holding, ToPickUp
  <1>6. OnePerPair /\ NothingPickedUpTwice
    <2>1. \A t \in Things : picked[t] = 0 /\ picked[Partner(t)] = 0
      BY <1>3, PartnerType DEF Init
    <2> QED BY <2>1 DEF OnePerPair, NothingPickedUpTwice
  <1> QED BY <1>3, <1>4, <1>5, <1>6 DEF PickInv

\* What a step that picks nothing up keeps.
LEMMA PickedKept ==
    ASSUME PickInv, [Next]_vars, picked' = picked
    PROVE  Pointing' /\ OnePerPair' /\ NothingPickedUpTwice'
  <1> USE DEF PickInv
  <1>1. Pointing'
    BY PointersFixed DEF Pointing, pointers
  <1>2. OnePerPair' /\ NothingPickedUpTwice'
    BY PointersFixed DEF OnePerPair, NothingPickedUpTwice
  <1> QED BY <1>1, <1>2

LEMMA ReceivePick ==
    ASSUME PickInv, [Next]_vars, NEW d \in Drivers, ReceiveRequest(d)
    PROVE  PickInv'
  <1> USE DEF PickInv
  <1>0. PICK k \in Kind : \E i \in Scan(k) :
            /\ req' = [req EXCEPT ![d] = <<k, i>>]
            /\ pos' = [pos EXCEPT ![k] = i + 1]
    BY DEF ReceiveRequest
  <1>1. PICK i \in Scan(k) :
            /\ req' = [req EXCEPT ![d] = <<k, i>>]
            /\ pos' = [pos EXCEPT ![k] = i + 1]
    BY <1>0
  <1>2. i \in Reqs
    <2>1. k \in Kinds
      BY DEF Kind, Kinds
    <2>2. pos \in [Kinds -> 0 .. N]
      BY DEF TypeOK
    <2>3. pos[k] \in 0 .. N
      BY <2>1, <2>2
    <2>4. Start(k) \in Nat
      BY <2>3, UblerAssumption DEF Start
    <2> QED BY <2>4, UblerAssumption DEF Scan, Unfinished, Reqs
  <1>3. k \in Kinds /\ <<k, i>> \in Things /\ i + 1 \in 0 .. N
    BY <1>2, UblerAssumption DEF Kind, Kinds, Things, Reqs
  <1>4. pc' = [pc EXCEPT ![d] = "look"]
    BY DEF ReceiveRequest, Goto
  <1>5. UNCHANGED <<pointers, picked, completed, lock, todo, loaded, stats>>
    BY DEF ReceiveRequest
  <1>6. TypeOK'
    BY <1>1, <1>3, <1>4, <1>5 DEF TypeOK, pointers, stats
  <1>7. \A e \in Drivers : e # d => pc'[e] = pc[e] /\ req'[e] = req[e]
    BY <1>1, <1>4 DEF TypeOK
  <1>8. pc'[d] = "look" /\ req'[d] \in Things
    BY <1>1, <1>3, <1>4 DEF TypeOK
  <1>9. HasRequest' /\ Delivering'
    BY <1>5, <1>7, <1>8, PointersFixed DEF HasRequest, Delivering
  <1>9b. Holding'
    BY <1>5, <1>7, <1>8 DEF Holding, CustomerOf, pointers
  <1>9a. ToPickUp'
    BY <1>5, <1>7, <1>8, PointersFixed DEF ToPickUp, Partner, pointers
  <1> QED BY <1>5, <1>6, <1>9, <1>9a, <1>9b, PickedKept

LEMMA NoRequestPick ==
    ASSUME PickInv, [Next]_vars, NEW d \in Drivers, NoRequest(d)
    PROVE  PickInv'
  <1> USE DEF PickInv
  <1>1. PICK k \in Kinds : pos' = [pos EXCEPT ![k] = N]
    BY DEF NoRequest, Kind, Kinds
  <1>2. pc' = [pc EXCEPT ![d] = "gone"]
    BY DEF NoRequest, Goto
  <1>3. UNCHANGED <<pointers, picked, completed, lock, req, todo, loaded, stats>>
    BY DEF NoRequest
  <1>4. TypeOK'
    <2>1. N \in 0 .. N
      BY UblerAssumption
    <2>2. pos' \in [Kinds -> 0 .. N]
      BY <1>1, <2>1 DEF TypeOK
    <2> QED BY <1>2, <1>3, <2>2 DEF TypeOK, pointers, stats
  <1>5. (\A e \in Drivers : e # d => pc'[e] = pc[e]) /\ pc'[d] = "gone"
    BY <1>2 DEF TypeOK
  <1>6. HasRequest' /\ Delivering'
    BY <1>3, <1>5, PointersFixed DEF HasRequest, Delivering
  <1>6b. Holding'
    BY <1>3, <1>5 DEF Holding, CustomerOf, pointers
  <1>6a. ToPickUp'
    BY <1>3, <1>5, PointersFixed DEF ToPickUp, Partner, pointers
  <1> QED BY <1>3, <1>4, <1>6, <1>6a, <1>6b, PickedKept

LEMMA LookPick ==
    ASSUME PickInv, [Next]_vars, NEW d \in Drivers, Look(d)
    PROVE  PickInv'
  <1> USE DEF PickInv
  <1>1. /\ UNCHANGED <<pointers, pos, picked, completed, lock, todo, loaded, stats>>
        /\ \/ pc' = [pc EXCEPT ![d] = "receive"] /\ req' = [req EXCEPT ![d] = NoThing]
           \/ pc' = [pc EXCEPT ![d] = "lock"] /\ req' = req
        /\ req[d] \in Things
    BY DEF Look, Goto, NextRound, HasRequest
  <1>2. TypeOK'
    BY <1>1 DEF TypeOK, pointers, stats
  <1>3. /\ \A e \in Drivers : e # d => pc'[e] = pc[e] /\ req'[e] = req[e]
        /\ pc'[d] = "receive" \/ (pc'[d] = "lock" /\ req'[d] \in Things)
    BY <1>1 DEF TypeOK
  <1>4. HasRequest' /\ Delivering'
    BY <1>1, <1>3, PointersFixed DEF HasRequest, Delivering
  <1>4b. Holding'
    BY <1>1, <1>3 DEF Holding, CustomerOf, pointers
  <1>4a. ToPickUp'
    BY <1>1, <1>3, PointersFixed DEF ToPickUp, Partner, pointers
  <1> QED BY <1>1, <1>2, <1>4, <1>4a, <1>4b, PickedKept

LEMMA LockPick ==
    ASSUME PickInv, [Next]_vars, NEW d \in Drivers, LockCustomer(d)
    PROVE  PickInv'
  <1> USE DEF PickInv
  <1>1. /\ UNCHANGED <<pointers, pos, picked, completed, req, todo, loaded, stats>>
        /\ pc' = [pc EXCEPT ![d] = "check"]
        /\ lock[CustomerOf(req[d])] = Nobody
        /\ lock' = [lock EXCEPT ![CustomerOf(req[d])] = d]
        /\ req[d] \in Things
    BY DEF LockCustomer, Goto, HasRequest
  <1>2. CustomerOf(req[d]) \in Reqs
    BY <1>1, PartnerType
  <1>3. TypeOK'
    BY <1>1, <1>2 DEF TypeOK, pointers, stats
  <1>4. (\A e \in Drivers : e # d => pc'[e] = pc[e]) /\ pc'[d] = "check"
    BY <1>1 DEF TypeOK
  <1>5. HasRequest' /\ Delivering'
    BY <1>1, <1>4, PointersFixed DEF HasRequest, Delivering
  <1>5a. ToPickUp'
    BY <1>1, <1>4, PointersFixed DEF ToPickUp, Partner, pointers
  <1>6. Holding'
    <2> SUFFICES ASSUME NEW e \in Drivers, pc'[e] \in {"check", "pick up"}
                 PROVE  lock'[CustomerOf(req[e])] = e
      BY <1>1, PointersFixed DEF Holding
    <2>1. CASE e = d
      BY <2>1, <1>1, <1>2 DEF TypeOK
    <2>2. CASE e # d
      <3>1. pc[e] \in {"check", "pick up"} /\ req[e] \in Things
        BY <2>2, <1>4 DEF HasRequest
      <3>2. lock[CustomerOf(req[e])] = e /\ e # Nobody /\ CustomerOf(req[e]) \in Reqs
        BY <3>1, PartnerType, UblerAssumption DEF Holding
      <3> QED BY <3>2, <1>1, <1>2 DEF TypeOK
    <2> QED BY <2>1, <2>2
  <1> QED BY <1>1, <1>3, <1>5, <1>6, <1>5a, PickedKept

LEMMA StillWaitingPick ==
    ASSUME PickInv, [Next]_vars, NEW d \in Drivers, StillWaiting(d)
    PROVE  PickInv'
  <1> USE DEF PickInv
  <1>1. /\ UNCHANGED <<pointers, pos, picked, completed, lock, req, todo, loaded, stats>>
        /\ pc[d] = "check" /\ pc' = [pc EXCEPT ![d] = "pick up"]
        /\ picked[req[d]] = 0 /\ picked[Partner(req[d])] = 0
    BY DEF StillWaiting, Goto
  <1>2. TypeOK'
    BY <1>1 DEF TypeOK, pointers, stats
  <1>3. (\A e \in Drivers : e # d => pc'[e] = pc[e]) /\ pc'[d] = "pick up"
    BY <1>1 DEF TypeOK
  <1>4. HasRequest' /\ Delivering'
    BY <1>1, <1>3, PointersFixed DEF HasRequest, Delivering
  <1>4b. Holding'
    BY <1>1, <1>3 DEF Holding, CustomerOf, pointers
  <1>4a. ToPickUp'
    BY <1>1, <1>3, PointersFixed DEF ToPickUp, Partner, pointers
  <1> QED BY <1>1, <1>2, <1>4, <1>4a, <1>4b, PickedKept

\* A mutex given up by its holder is not the mutex of another holder.
LEMMA UnlockHolding ==
    ASSUME PickInv, [Next]_vars, NEW d \in Drivers, pc[d] \in {"check", "pick up"},
           lock' = [lock EXCEPT ![CustomerOf(req[d])] = Nobody],
           pc'[d] \notin {"check", "pick up"},
           \A e \in Drivers : e # d => pc'[e] = pc[e] /\ req'[e] = req[e]
    PROVE  Holding'
  <1> USE DEF PickInv
  <1> SUFFICES ASSUME NEW e \in Drivers, pc'[e] \in {"check", "pick up"}
               PROVE  lock'[CustomerOf(req'[e])] = e
    BY PointersFixed DEF Holding
  <1>1. e # d /\ pc[e] \in {"check", "pick up"} /\ req'[e] = req[e]
    OBVIOUS
  <1>2. lock[CustomerOf(req[e])] = e /\ lock[CustomerOf(req[d])] = d
    BY <1>1 DEF Holding
  <1>3. CustomerOf(req[e]) \in Reqs /\ CustomerOf(req[d]) \in Reqs
    BY <1>1, PartnerType DEF HasRequest
  <1> QED BY <1>1, <1>2, <1>3 DEF TypeOK

LEMMA TooLatePick ==
    ASSUME PickInv, [Next]_vars, NEW d \in Drivers, TooLate(d)
    PROVE  PickInv'
  <1> USE DEF PickInv
  <1>1. /\ UNCHANGED <<pointers, pos, picked, completed, todo, loaded, stats>>
        /\ pc[d] = "check" /\ pc' = [pc EXCEPT ![d] = "receive"]
        /\ req' = [req EXCEPT ![d] = NoThing]
        /\ lock' = [lock EXCEPT ![CustomerOf(req[d])] = Nobody]
    BY DEF TooLate, Goto, NextRound
  <1>2. TypeOK'
    BY <1>1 DEF TypeOK, pointers, stats
  <1>3. /\ \A e \in Drivers : e # d => pc'[e] = pc[e] /\ req'[e] = req[e]
        /\ pc'[d] = "receive"
    BY <1>1 DEF TypeOK
  <1>4. HasRequest' /\ Delivering'
    BY <1>1, <1>3, PointersFixed DEF HasRequest, Delivering
  <1>4a. ToPickUp'
    BY <1>1, <1>3, PointersFixed DEF ToPickUp, Partner, pointers
  <1>5. Holding'
    BY <1>1, <1>3, UnlockHolding
  <1> QED BY <1>1, <1>2, <1>4, <1>4a, <1>5, PickedKept

\* The step that counts: no other driver can be about to pick up the thing,
\* nor, in a matched pair, its partner, for it would hold the same mutex.
LEMMA PickUpPick ==
    ASSUME PickInv, [Next]_vars, NEW d \in Drivers, PickUp(d)
    PROVE  PickInv'
  <1> USE DEF PickInv
  <1> DEFINE r == req[d]
  <1>1. /\ UNCHANGED <<pointers, pos, completed, req, todo, loaded, deliveries>>
        /\ pc[d] = "pick up" /\ pc' = [pc EXCEPT ![d] = "drop off"]
        /\ picked' = [picked EXCEPT ![r] = picked[r] + 1]
        /\ lock' = [lock EXCEPT ![CustomerOf(r)] = Nobody]
        /\ pickups' = [pickups EXCEPT ![d] = pickups[d] + 1]
    BY DEF PickUp, Goto, Bump
  <1>2. r \in Things /\ picked[r] = 0 /\ (Matched => picked[Partner(r)] = 0)
    BY <1>1 DEF HasRequest, ToPickUp
  <1>3. TypeOK'
    <2>1. picked \in [Things -> Nat] /\ pickups \in [Drivers -> Nat]
      BY DEF TypeOK
    <2>2. picked[r] + 1 \in Nat /\ pickups[d] + 1 \in Nat
      BY <1>2, <2>1
    <2>3. picked' \in [Things -> Nat]
      BY <1>1, <2>1, <2>2
    <2>4. pickups' \in [Drivers -> Nat]
      BY <1>1, <2>1, <2>2
    <2> QED BY <1>1, <2>3, <2>4 DEF TypeOK, pointers
  <1>4. /\ \A e \in Drivers : e # d => pc'[e] = pc[e] /\ req'[e] = req[e]
        /\ pc'[d] = "drop off"
    BY <1>1 DEF TypeOK
  <1>5. HasRequest' /\ Pointing'
    BY <1>1, <1>4 DEF HasRequest, Pointing, Matched, pointers
  <1>5a. Delivering'
    BY <1>1, <1>4 DEF Delivering, Partner, pointers
  <1>6. Holding'
    BY <1>1, <1>4, UnlockHolding
  <1>7. \A t \in Things : picked'[t] = IF t = r THEN 1 ELSE picked[t]
    <2>1. picked \in [Things -> Nat]
      BY DEF TypeOK
    <2>2. picked[r] + 1 = 1
      BY <1>2
    <2>3. picked' = [picked EXCEPT ![r] = 1]
      BY <1>1, <2>2, Zenon
    <2> HIDE DEF r, PickInv
    <2> QED BY <1>2, <2>1, <2>3
  <1> HIDE DEF r
  <1>8. ToPickUp'
    <2> SUFFICES ASSUME NEW e \in Drivers, pc'[e] = "pick up"
                 PROVE  picked'[req[e]] = 0 /\ (Matched => picked'[Partner(req[e])] = 0)
      BY <1>1 DEF ToPickUp, Partner, Matched, pointers
    <2>1. e # d /\ pc[e] = "pick up" /\ req[e] \in Things
      BY <1>4 DEF HasRequest
    <2>2. picked[req[e]] = 0 /\ (Matched => picked[Partner(req[e])] = 0)
      BY <2>1 DEF ToPickUp
    <2>3. CustomerOf(req[e]) # CustomerOf(r)
      BY <2>1, <1>1 DEF Holding, r
    <2>4. Partner(req[e]) \in Things
      BY <2>1, PartnerType
    <2>5. Matched => Partner(req[e]) # r
      BY <2>1, <2>3, PartnerMatched
    <2> QED BY <2>1, <2>2, <2>3, <2>4, <2>5, <1>7
  <1>9. NothingPickedUpTwice'
    <2> SUFFICES ASSUME NEW t \in Things PROVE picked'[t] <= 1
      BY DEF NothingPickedUpTwice
    <2> QED BY <1>7 DEF NothingPickedUpTwice
  <1>10. OnePerPair'
    <2> SUFFICES ASSUME Matched, NEW t \in Things
                 PROVE  picked'[t] + picked'[Partner(t)] <= 1
      BY <1>1 DEF OnePerPair, Partner, Matched, pointers
    <2>1. Partner(t) \in Things /\ Partner(t) # t
          /\ Partner(Partner(t)) = t
      BY PartnerType, PartnerMatched
    <2>2. picked[t] + picked[Partner(t)] <= 1 /\ picked[t] \in Nat /\ picked[Partner(t)] \in Nat
      BY <2>1 DEF OnePerPair, TypeOK
    <2>3. /\ picked'[t] = IF t = r THEN 1 ELSE picked[t]
          /\ picked'[Partner(t)] = IF Partner(t) = r THEN 1 ELSE picked[Partner(t)]
      BY <1>7, <2>1
    <2>4. CASE t = r
      BY <2>1, <2>3, <2>4, <1>2
    <2>5. CASE Partner(t) = r
      <3>1. picked[t] = 0
        BY <2>5, <2>1, <1>2
      <3> QED BY <2>1, <2>3, <2>5, <3>1
    <2> QED BY <2>2, <2>3, <2>4, <2>5
  <1> QED BY <1>3, <1>5, <1>5a, <1>6, <1>8, <1>9, <1>10

LEMMA DropOffPick ==
    ASSUME PickInv, [Next]_vars, NEW d \in Drivers, DropOff(d)
    PROVE  PickInv'
  <1> USE DEF PickInv
  <1>1. /\ UNCHANGED <<pointers, pos, picked, completed, lock, req, loaded, pickups>>
        /\ pc[d] = "drop off" /\ pc' = [pc EXCEPT ![d] = "load"]
        /\ deliveries' = [deliveries EXCEPT ![d] = deliveries[d] + 1]
        /\ todo' = [todo EXCEPT ![d] = <<req[d], Partner(req[d])>>]
    BY DEF DropOff, Goto, Bump
  <1>2. req[d] \in Things /\ Partner(req[d]) \in Things
    BY <1>1, PartnerType DEF HasRequest
  <1>3. TypeOK'
    <2>1. <<req[d], Partner(req[d])>> \in Seq(Things)
      BY <1>2
    <2>2. todo' \in [Drivers -> Seq(Things)]
      <3>1. todo \in [Drivers -> Seq(Things)]
        BY DEF TypeOK
      <3> QED BY <1>1, <2>1, <3>1
    <2>3. deliveries \in [Drivers -> Nat]
      BY DEF TypeOK
    <2>4. deliveries[d] + 1 \in Nat
      BY <2>3
    <2>5. deliveries' \in [Drivers -> Nat]
      BY <1>1, <2>3, <2>4
    <2> QED BY <1>1, <2>2, <2>5 DEF TypeOK, pointers
  <1>4. /\ \A e \in Drivers : e # d => pc'[e] = pc[e] /\ todo'[e] = todo[e]
        /\ pc'[d] = "load" /\ todo'[d] = <<req[d], Partner(req[d])>>
    BY <1>1 DEF TypeOK
  <1>5. HasRequest'
    BY <1>1, <1>2, <1>4 DEF HasRequest
  <1>6. Delivering'
    <2> SUFFICES ASSUME NEW e \in Drivers, pc'[e] \in {"load", "store"}
                 PROVE  \/ todo'[e] = <<req[e], Partner(req[e])>>
                        \/ todo'[e] = <<Partner(req[e])>> /\ completed[req[e]] # 0
      BY <1>1 DEF Delivering, Partner, pointers
    <2> QED BY <1>4 DEF Delivering
  <1>7. Holding'
    BY <1>1, <1>4 DEF Holding, CustomerOf, pointers
  <1>8. ToPickUp'
    BY <1>1, <1>4, PointersFixed DEF ToPickUp, Partner, pointers
  <1> QED BY <1>1, <1>3, <1>5, <1>6, <1>7, <1>8, PickedKept

LEMMA LoadPick ==
    ASSUME PickInv, [Next]_vars, NEW d \in Drivers, LoadCompleted(d)
    PROVE  PickInv'
  <1> USE DEF PickInv
  <1>1. /\ UNCHANGED <<pointers, pos, picked, completed, lock, req, todo, stats>>
        /\ pc[d] = "load" /\ pc' = [pc EXCEPT ![d] = "store"]
        /\ loaded' = [loaded EXCEPT ![d] = completed[Head(todo[d])]]
    BY DEF LoadCompleted, Goto
  <1>2. Head(todo[d]) \in Things
    <2>1. req[d] \in Things /\ Partner(req[d]) \in Things
      BY <1>1, PartnerType DEF HasRequest
    <2> QED BY <1>1, <2>1 DEF Delivering
  <1>3. TypeOK'
    <2>1. completed[Head(todo[d])] \in Nat
      BY <1>2 DEF TypeOK
    <2>2. loaded' \in [Drivers -> Nat]
      BY <1>1, <2>1 DEF TypeOK
    <2> QED BY <1>1, <2>2 DEF TypeOK, pointers, stats
  <1>4. (\A e \in Drivers : e # d => pc'[e] = pc[e]) /\ pc'[d] = "store"
    BY <1>1 DEF TypeOK
  <1>5. HasRequest'
    BY <1>1, <1>4 DEF HasRequest
  <1>6. Delivering'
    BY <1>1, <1>4 DEF Delivering, Partner, pointers
  <1>7. Holding'
    BY <1>1, <1>4 DEF Holding, CustomerOf, pointers
  <1>8. ToPickUp'
    BY <1>1, <1>4, PointersFixed DEF ToPickUp, Partner, pointers
  <1> QED BY <1>1, <1>3, <1>5, <1>6, <1>7, <1>8, PickedKept

\* What a completion does: it never makes a count zero, and goes from the
\* request to its partner, and from there to the next request.
LEMMA StoreEffect ==
    ASSUME PickInv, NEW d \in Drivers, StoreCompleted(d)
    PROVE  /\ completed' \in [Things -> Nat]
           /\ \A t \in Things : completed[t] # 0 => completed'[t] # 0
           /\ \/ /\ todo[d] = <<req[d], Partner(req[d])>>
                 /\ pc' = [pc EXCEPT ![d] = "load"] /\ req' = req
                 /\ todo' = [todo EXCEPT ![d] = <<Partner(req[d])>>]
                 /\ completed'[req[d]] # 0
                 /\ \A t \in Things \ {req[d]} : completed'[t] = completed[t]
              \/ /\ todo[d] = <<Partner(req[d])>> /\ completed[req[d]] # 0
                 /\ pc' = [pc EXCEPT ![d] = "receive"] /\ req' = [req EXCEPT ![d] = NoThing]
                 /\ todo' = [todo EXCEPT ![d] = << >>]
                 /\ completed'[Partner(req[d])] # 0
                 /\ \A t \in Things \ {Partner(req[d])} : completed'[t] = completed[t]
  <1> USE DEF PickInv
  <1>1. pc[d] = "store" /\ req[d] \in Things /\ Partner(req[d]) \in Things
    BY PartnerType DEF StoreCompleted, HasRequest
  <1>2. loaded[d] + 1 \in Nat /\ loaded[d] + 1 # 0
    <2>1. loaded[d] \in Nat
      BY DEF TypeOK
    <2> QED BY <2>1
  <1>3. Head(todo[d]) \in {req[d], Partner(req[d])}
    BY <1>1 DEF Delivering
  <1>4. /\ completed' \in [Things -> Nat]
        /\ completed'[Head(todo[d])] # 0
        /\ \A t \in Things \ {Head(todo[d])} : completed'[t] = completed[t]
    BY <1>1, <1>2, <1>3 DEF StoreCompleted, TypeOK
  <1>5. CASE todo[d] = <<req[d], Partner(req[d])>>
    <2>1. Head(todo[d]) = req[d] /\ Tail(todo[d]) = <<Partner(req[d])>> /\ Len(todo[d]) = 2
      BY <1>5
    <2> QED BY <1>4, <1>5, <2>1 DEF StoreCompleted, Goto
  <1>6. CASE todo[d] = <<Partner(req[d])>> /\ completed[req[d]] # 0
    <2>1. Head(todo[d]) = Partner(req[d]) /\ Tail(todo[d]) = << >> /\ Len(todo[d]) = 1
      BY <1>6
    <2> QED BY <1>4, <1>6, <2>1 DEF StoreCompleted, NextRound, Goto
  <1> QED BY <1>1, <1>5, <1>6 DEF Delivering

LEMMA StorePick ==
    ASSUME PickInv, [Next]_vars, NEW d \in Drivers, StoreCompleted(d)
    PROVE  PickInv'
  <1> USE DEF PickInv
  <1>1. /\ UNCHANGED <<pointers, pos, picked, lock, stats>>
        /\ loaded' = [loaded EXCEPT ![d] = 0]
        /\ pc[d] = "store"
    BY DEF StoreCompleted
  <1>2. req[d] \in Things /\ Partner(req[d]) \in Things
    BY <1>1, PartnerType DEF HasRequest
  <1>3. TypeOK'
    <2>1. <<Partner(req[d])>> \in Seq(Things) /\ << >> \in Seq(Things)
      BY <1>2
    <2>2. todo' \in [Drivers -> Seq(Things)]
      <3>1. todo \in [Drivers -> Seq(Things)]
        BY DEF TypeOK
      <3>2. \/ todo' = [todo EXCEPT ![d] = <<Partner(req[d])>>]
            \/ todo' = [todo EXCEPT ![d] = << >>]
        BY StoreEffect
      <3> QED BY <2>1, <3>1, <3>2
    <2> QED BY <1>1, <2>2, StoreEffect DEF TypeOK, pointers, stats
  <1>4. /\ \A e \in Drivers : e # d =>
              pc'[e] = pc[e] /\ req'[e] = req[e] /\ todo'[e] = todo[e]
        /\ \/ /\ pc'[d] = "load" /\ req'[d] = req[d]
              /\ todo'[d] = <<Partner(req[d])>> /\ completed'[req[d]] # 0
           \/ pc'[d] = "receive"
    <2>1. /\ pc \in [Drivers -> Pcs] /\ req \in [Drivers -> Things \cup {NoThing}]
          /\ todo \in [Drivers -> Seq(Things)]
      BY DEF TypeOK, Pcs
    <2>2. CASE /\ pc' = [pc EXCEPT ![d] = "load"] /\ req' = req
               /\ todo' = [todo EXCEPT ![d] = <<Partner(req[d])>>]
               /\ completed'[req[d]] # 0
      BY <2>1, <2>2
    <2>3. CASE /\ pc' = [pc EXCEPT ![d] = "receive"] /\ req' = [req EXCEPT ![d] = NoThing]
               /\ todo' = [todo EXCEPT ![d] = << >>]
      BY <2>1, <2>3
    <2> QED BY <2>2, <2>3, StoreEffect
  <1>5. HasRequest'
    BY <1>2, <1>4 DEF HasRequest
  <1>6. Delivering'
    <2> SUFFICES ASSUME NEW e \in Drivers, pc'[e] \in {"load", "store"}
                 PROVE  \/ todo'[e] = <<req'[e], Partner(req'[e])>>
                        \/ todo'[e] = <<Partner(req'[e])>> /\ completed'[req'[e]] # 0
      BY <1>1 DEF Delivering, Partner, pointers
    <2>1. CASE e = d
      BY <2>1, <1>4
    <2>2. CASE e # d
      BY <2>2, <1>4, StoreEffect DEF Delivering, HasRequest
    <2> QED BY <2>1, <2>2
  <1>7. Holding'
    BY <1>1, <1>4 DEF Holding, CustomerOf, pointers
  <1>8. ToPickUp'
    BY <1>1, <1>4, PointersFixed DEF ToPickUp, Partner, pointers
  <1> QED BY <1>1, <1>3, <1>5, <1>6, <1>7, <1>8, PickedKept

\* The first half of the inductive invariant is kept by every step.
LEMMA PickStep == PickInv /\ [Next]_vars => PickInv'
  <1> SUFFICES ASSUME PickInv, [Next]_vars PROVE PickInv'
    OBVIOUS
  <1>1. CASE UNCHANGED vars
    BY <1>1 DEF vars, pointers, stats, PickInv, TypeOK, Pointing, HasRequest, Delivering,
                Holding, ToPickUp, OnePerPair, NothingPickedUpTwice, Matched, Partner, CustomerOf
  <1>2. CASE \E d \in Drivers : DriverStep(d)
    <2>1. PICK d \in Drivers : DriverStep(d)
      BY <1>2
    <2> QED BY <2>1, ReceivePick, NoRequestPick, LookPick, LockPick, StillWaitingPick,
               TooLatePick, PickUpPick, DropOffPick, LoadPick, StorePick DEF DriverStep
  <1> QED BY <1>1, <1>2 DEF Next, Joined

-----------------------------------------------------------------------------
(* WorkInv: a request in hand stays in hand until it is finished. *)

\* The two things of a request are each other's partners.
LEMMA PairFacts ==
    ASSUME PickInv, Matched, NEW c \in Reqs, NEW t \in Pair(c)
    PROVE  /\ t \in Things /\ Partner(t) \in Things
           /\ CustomerOf(t) = c
           /\ Pair(c) = {t, Partner(t)}
  <1> USE DEF PickInv
  <1>1. customerMeal[c] \in Reqs /\ mealCustomer[customerMeal[c]] = c
    BY DEF TypeOK, Pointing
  <1>2. t = <<"customer", c>> \/ t = <<"meal", customerMeal[c]>>
    BY DEF Pair
  <1>3. t \in Things /\ CustomerOf(t) = c
    BY <1>1, <1>2 DEF Things, Kinds, CustomerOf
  <1> QED BY <1>3, PartnerType, PartnerMatched

\* A step of one driver leaves the others where they are.
LEMMA OthersKept ==
    ASSUME PickInv, NEW d \in Drivers, DriverStep(d)
    PROVE  \A e \in Drivers : e # d => pc'[e] = pc[e] /\ req'[e] = req[e]
  <1>1. pc \in [Drivers -> Pcs] /\ req \in [Drivers -> Things \cup {NoThing}]
    BY DEF PickInv, TypeOK, Pcs
  <1>2. \E l : pc' = [pc EXCEPT ![d] = l]
    BY DEF DriverStep, ReceiveRequest, NoRequest, Look, LockCustomer, StillWaiting, TooLate,
           PickUp, DropOff, LoadCompleted, StoreCompleted, Goto, NextRound
  <1>3. req' = req \/ \E t : req' = [req EXCEPT ![d] = t]
    BY DEF DriverStep, ReceiveRequest, NoRequest, Look, LockCustomer, StillWaiting, TooLate,
           PickUp, DropOff, LoadCompleted, StoreCompleted, Goto, NextRound
  <1> QED BY <1>1, <1>2, <1>3

\* What is completed stays completed.
LEMMA FinishedKept ==
    ASSUME PickInv, Matched, [Next]_vars
    PROVE  /\ \A t \in Things : completed[t] # 0 => completed'[t] # 0
           /\ \A c \in Reqs : Finished(c) => Finished(c)'
  <1>1. \A t \in Things : completed[t] # 0 => completed'[t] # 0
    <2>1. CASE completed' = completed
      BY <2>1
    <2>2. CASE \E d \in Drivers : StoreCompleted(d)
      BY <2>2, StoreEffect
    <2>3. completed' = completed \/ \E d \in Drivers : StoreCompleted(d)
      BY DEF Next, Joined, DriverStep, vars, ReceiveRequest, NoRequest, Look, LockCustomer,
             StillWaiting, TooLate, PickUp, DropOff, LoadCompleted
    <2> QED BY <2>1, <2>2, <2>3
  <1>2. ASSUME NEW c \in Reqs, Finished(c) PROVE Finished(c)'
    <2>1. \A t \in Pair(c) : t \in Things
      BY PairFacts
    <2>2. Pair(c)' = Pair(c)
      BY PointersFixed
    <2> QED BY <1>1, <1>2, <2>1, <2>2 DEF Finished
  <1> QED BY <1>1, <1>2

\* A driver on its way to the destination stays so until the request is finished.
LEMMA CarryingKept ==
    ASSUME PickInv, Matched, [Next]_vars, NEW e \in Drivers, Carrying(e),
           NEW c \in Reqs, req[e] \in Pair(c)
    PROVE  (Carrying(e)' /\ req'[e] = req[e]) \/ Finished(c)'
  <1>1. CASE UNCHANGED vars
    BY <1>1 DEF vars, Carrying
  <1>2. ASSUME NEW d \in Drivers, DriverStep(d), d # e PROVE Carrying(e)' /\ req'[e] = req[e]
    BY <1>2, OthersKept DEF Carrying
  <1>3. CASE DropOff(e) \/ LoadCompleted(e)
    BY <1>3 DEF DropOff, LoadCompleted, Goto, Carrying, PickInv, TypeOK
  <1>4. CASE StoreCompleted(e)
    <2>1. req[e] \in Things /\ pc \in [Drivers -> Pcs]
      BY DEF PickInv, HasRequest, Carrying, TypeOK, Pcs
    <2>2. CASE pc' = [pc EXCEPT ![e] = "load"] /\ req' = req
      BY <2>1, <2>2 DEF Carrying
    <2>3. CASE completed[req[e]] # 0 /\ completed'[Partner(req[e])] # 0
      <3>1. Pair(c) = {req[e], Partner(req[e])}
        BY PairFacts
      <3>2. completed'[req[e]] # 0
        BY <2>1, <2>3, FinishedKept
      <3>3. \A t \in Pair(c) : completed'[t] # 0
        BY <2>3, <3>1, <3>2
      <3> QED BY <3>3, PointersFixed DEF Finished
    <2> QED BY <1>4, <2>2, <2>3, StoreEffect
  <1>5. ASSUME DriverStep(e) PROVE DropOff(e) \/ LoadCompleted(e) \/ StoreCompleted(e)
    BY <1>5 DEF Carrying, DriverStep, ReceiveRequest, NoRequest, Look, LockCustomer,
                StillWaiting, TooLate, PickUp
  <1> QED BY <1>1, <1>2, <1>3, <1>4, <1>5 DEF Next, Joined

LEMMA InHandKept ==
    ASSUME PickInv, CarriedOrFinished, Matched, [Next]_vars, NEW c \in Reqs, InHand(c)
    PROVE  InHand(c)'
  <1>1. CASE Finished(c)
    BY <1>1, FinishedKept DEF InHand
  <1>2. ASSUME NEW e \in Drivers, Serving(e, c) PROVE InHand(c)'
    <2>1. req[e] \in Pair(c) /\ req[e] \in Things /\ Partner(req[e]) \in Things
          /\ Pair(c) = {req[e], Partner(req[e])}
      BY <1>2, PairFacts DEF Serving
    <2>2. ASSUME pc'[e] \notin {"receive", "gone"}, req'[e] = req[e] PROVE InHand(c)'
      BY <2>1, <2>2, PointersFixed DEF InHand, Serving
    <2>3. CASE UNCHANGED vars
      BY <1>2, <2>2, <2>3 DEF vars, Serving
    <2>4. ASSUME NEW d \in Drivers, DriverStep(d), d # e PROVE InHand(c)'
      BY <1>2, <2>2, <2>4, OthersKept DEF Serving
    <2>5. ASSUME DriverStep(e) PROVE InHand(c)'
      <3>1. CASE Look(e)
        <4>1. ~ (picked[req[e]] # 0 /\ picked[Partner(req[e])] # 0)
          <5>1. picked[req[e]] + picked[Partner(req[e])] <= 1
            BY <2>1 DEF PickInv, OnePerPair
          <5>2. picked[req[e]] \in Nat /\ picked[Partner(req[e])] \in Nat
            BY <2>1 DEF PickInv, TypeOK
          <5> QED BY <5>1, <5>2
        <4>2. pc' = [pc EXCEPT ![e] = "lock"] /\ req' = req
          BY <3>1, <4>1 DEF Look, Goto
        <4> QED BY <2>2, <4>2 DEF PickInv, TypeOK
      <3>2. CASE LockCustomer(e) \/ StillWaiting(e) \/ PickUp(e)
        BY <2>2, <3>2 DEF LockCustomer, StillWaiting, PickUp, Goto, PickInv, TypeOK
      <3>3. CASE TooLate(e)
        <4>1. PICK t \in Pair(c) : picked[t] # 0
          BY <2>1, <3>3 DEF TooLate
        <4>2. t \in Things /\ CustomerOf(t) = c
          BY PairFacts
        <4>3. CASE Finished(c)
          BY <4>3, <1>1
        <4>4. ASSUME NEW d \in Drivers, Carrying(d), req[d] = t PROVE InHand(c)'
          <5>1. d # e
            BY <3>3, <4>4 DEF TooLate, Carrying
          <5>2. pc'[d] = pc[d] /\ req'[d] = t
            BY <2>5, <4>4, <5>1, OthersKept
          <5>3. t \in Pair(c)' /\ pc'[d] \notin {"receive", "gone"}
            BY <4>1, <4>4, <5>2, PointersFixed DEF Carrying
          <5> QED BY <5>2, <5>3 DEF InHand, Serving
        <4> QED BY <4>1, <4>2, <4>3, <4>4 DEF CarriedOrFinished
      <3>4. CASE DropOff(e) \/ LoadCompleted(e) \/ StoreCompleted(e)
        <4>1. Carrying(e)
          BY <3>4 DEF DropOff, LoadCompleted, StoreCompleted, Carrying
        <4>2. CASE Finished(c)'
          BY <4>2 DEF InHand
        <4>3. CASE Carrying(e)' /\ req'[e] = req[e]
          BY <4>3, <2>2 DEF Carrying
        <4> QED BY <2>1, <4>1, <4>2, <4>3, CarryingKept
      <3> QED BY <1>2, <2>5, <3>1, <3>2, <3>3, <3>4
              DEF DriverStep, ReceiveRequest, NoRequest, Serving
    <2> QED BY <2>3, <2>4, <2>5 DEF Next, Joined
  <1> QED BY <1>1, <1>2 DEF InHand

LEMMA CarriedStep ==
    ASSUME PickInv, CarriedOrFinished, [Next]_vars
    PROVE  CarriedOrFinished'
  <1> SUFFICES ASSUME Matched, NEW t \in Things, picked'[t] # 0
               PROVE  \/ Finished(CustomerOf(t))'
                      \/ \E d \in Drivers : Carrying(d)' /\ req'[d] = t
    BY PointersFixed DEF CarriedOrFinished
  <1>0. PICK c \in Reqs : c = CustomerOf(t)
    BY PartnerType DEF PickInv
  <1>1. c \in Reqs /\ t \in Pair(c)
    BY <1>0, PartnerMatched DEF PickInv
  <1>2. CustomerOf(t)' = c
    BY <1>0, PointersFixed
  <1>3. ASSUME Finished(c)' PROVE Finished(CustomerOf(t))'
    BY <1>2, <1>3, PointersFixed DEF Finished, Pair, CustomerOf, pointers
  <1>4. CASE picked[t] # 0
    <2>1. CASE Finished(c)
      BY <2>1, <1>1, <1>3, FinishedKept
    <2>2. ASSUME NEW e \in Drivers, Carrying(e), req[e] = t
          PROVE  Finished(c)' \/ (Carrying(e)' /\ req'[e] = t)
      BY <2>2, <1>1, CarryingKept
    <2> QED BY <1>0, <1>3, <1>4, <2>1, <2>2 DEF CarriedOrFinished
  <1>5. ASSUME NEW d \in Drivers, PickUp(d), picked[t] = 0
        PROVE  Carrying(d)' /\ req'[d] = t
    <2>1. req[d] = t
      BY <1>5 DEF PickUp, Bump, PickInv, TypeOK
    <2> QED BY <1>5, <2>1 DEF PickUp, Goto, Carrying, PickInv, TypeOK
  <1>6. picked' = picked \/ \E d \in Drivers : PickUp(d)
    BY DEF Next, Joined, DriverStep, vars, ReceiveRequest, NoRequest, Look, LockCustomer,
           StillWaiting, TooLate, DropOff, LoadCompleted, StoreCompleted
  <1> QED BY <1>4, <1>5, <1>6

LEMMA BegunStep ==
    ASSUME PickInv, CarriedOrFinished, Begun, [Next]_vars
    PROVE  Begun'
  <1> SUFFICES ASSUME Matched, NEW t \in Things, completed'[t] # 0
               PROVE  InHand(CustomerOf(t))'
    BY PointersFixed DEF Begun
  <1>0. PICK c \in Reqs : c = CustomerOf(t)
    BY PartnerType DEF PickInv
  <1>1. c \in Reqs /\ t \in Pair(c) /\ Pair(c) = {t, Partner(t)}
    BY <1>0, PartnerMatched DEF PickInv
  <1>2. CustomerOf(t)' = c
    BY <1>0, PointersFixed
  <1>3. ASSUME InHand(c)' PROVE InHand(CustomerOf(t))'
    BY <1>2, <1>3, PointersFixed DEF InHand, Finished, Serving, Pair, CustomerOf, pointers
  <1>4. CASE completed[t] # 0
    BY <1>4, <1>0, <1>3, InHandKept DEF Begun
  <1>5. ASSUME NEW d \in Drivers, StoreCompleted(d), completed[t] = 0 PROVE InHand(c)'
    <2>1. req[d] \in Things /\ pc \in [Drivers -> Pcs]
      BY <1>5 DEF PickInv, HasRequest, StoreCompleted, TypeOK, Pcs
    <2>2. CASE /\ pc' = [pc EXCEPT ![d] = "load"] /\ req' = req
               /\ \A u \in Things \ {req[d]} : completed'[u] = completed[u]
      <3>1. req'[d] = t /\ pc'[d] = "load"
        BY <2>1, <2>2, <1>5
      <3>2. t \in Pair(c)'
        BY <1>1, PointersFixed
      <3> QED BY <3>1, <3>2 DEF InHand, Serving
    <2>3. CASE /\ completed[req[d]] # 0
               /\ completed'[Partner(req[d])] # 0
               /\ \A u \in Things \ {Partner(req[d])} : completed'[u] = completed[u]
      <3>1. t = Partner(req[d])
        BY <2>3, <1>5
      <3>2. Partner(t) = req[d]
        BY <2>1, <3>1, PartnerMatched DEF PickInv
      <3>3. completed'[Partner(t)] # 0
        BY <2>1, <2>3, <3>2, FinishedKept
      <3>4. \A u \in Pair(c)' : completed'[u] # 0
        BY <1>1, <3>3, PointersFixed
      <3> QED BY <3>4 DEF InHand, Finished
    <2> QED BY <1>5, <2>2, <2>3, StoreEffect
  <1>6. completed' = completed \/ \E d \in Drivers : StoreCompleted(d)
    BY DEF Next, Joined, DriverStep, vars, ReceiveRequest, NoRequest, Look, LockCustomer,
           StillWaiting, TooLate, PickUp, DropOff, LoadCompleted
  <1> QED BY <1>3, <1>4, <1>5, <1>6

\* A scan that passes over index 0 has seen it completed.
LEMMA ScanPassesFirst ==
    ASSUME PickInv, Begun, Matched, NEW k \in Kinds, N >= 1,
           0 \notin Unfinished(k, 0)
    PROVE  InHand(CustomerOf(<<k, 0>>))
  <1>1. 0 \in Reqs /\ <<k, 0>> \in Things
    BY UblerAssumption DEF Reqs, Things
  <1>2. completed[<<k, 0>>] # 0
    BY <1>1, UblerAssumption DEF Unfinished, Reqs
  <1> QED BY <1>1, <1>2 DEF Begun

LEMMA HandedOutStep ==
    ASSUME PickInv, CarriedOrFinished, Begun, HandedOut, [Next]_vars
    PROVE  HandedOut'
  <1> SUFFICES ASSUME Matched, NEW k \in Kinds, pos'[k] >= 1
               PROVE  InHand(CustomerOf(<<k, 0>>))'
    BY PointersFixed DEF HandedOut
  <1>1. pos \in [Kinds -> 0 .. N]
    BY DEF PickInv, TypeOK
  <1>2. CASE N = 0
    <2>1. pos[k] = 0 /\ Reqs = {}
      BY <1>1, <1>2, UblerAssumption DEF Reqs
    <2>2. pos'[k] = 0
      <3>1. CASE pos' = pos
        BY <2>1, <3>1
      <3>2. ASSUME NEW d \in Drivers, NEW j \in Kinds, pos' = [pos EXCEPT ![j] = N]
            PROVE  pos'[k] = 0
        BY <1>1, <1>2, <2>1, <3>2
      <3>3. \A d \in Drivers : ~ ReceiveRequest(d)
        <4>1. \A j \in Kinds : Scan(j) = {}
          BY <1>1, <1>2, UblerAssumption DEF Scan, Start, Unfinished
        <4> QED BY <4>1 DEF ReceiveRequest, Kind, Kinds
      <3>4. ASSUME NEW d \in Drivers, NoRequest(d) PROVE \E j \in Kinds : pos' = [pos EXCEPT ![j] = N]
        BY <3>4 DEF NoRequest, Kind, Kinds
      <3>5. pos' = pos \/ \E d \in Drivers : ReceiveRequest(d) \/ NoRequest(d)
        BY DEF Next, Joined, DriverStep, vars, Look, LockCustomer,
               StillWaiting, TooLate, PickUp, DropOff, LoadCompleted, StoreCompleted
      <3> QED BY <3>1, <3>2, <3>3, <3>4, <3>5
    <2> QED BY <2>2
  <1>3. CASE N >= 1
    <2>1. 0 \in Reqs /\ <<k, 0>> \in Things
      BY <1>3, UblerAssumption DEF Reqs, Things
    <2>2. PICK c \in Reqs : c = CustomerOf(<<k, 0>>)
      BY <2>1, PartnerType DEF PickInv
    <2>3. CustomerOf(<<k, 0>>)' = c /\ <<k, 0>> \in Pair(c)
      BY <2>1, <2>2, PartnerMatched, PointersFixed DEF PickInv
    <2>4. ASSUME InHand(c)' PROVE InHand(CustomerOf(<<k, 0>>))'
      BY <2>3, <2>4, PointersFixed DEF InHand, Finished, Serving, Pair, CustomerOf, pointers
    <2>5. CASE InHand(c)
      BY <2>4, <2>5, InHandKept
    <2>6. CASE pos[k] >= 1
      BY <2>2, <2>5, <2>6 DEF HandedOut
    <2>7. CASE 0 \notin Unfinished(k, 0)
      BY <1>3, <2>2, <2>5, <2>7, ScanPassesFirst
    <2>8. ASSUME pos[k] = 0, 0 \in Unfinished(k, 0) PROVE InHand(c)'
      <3>1. Start(k) = 0 /\ Scan(k) = Unfinished(k, 0) /\ Scan(k) # {}
        BY <1>3, <2>8 DEF Scan, Start
      <3>2. PICK d \in Drivers : ReceiveRequest(d) \/ NoRequest(d)
        <4>1. pos' # pos
          BY <2>8
        <4> QED BY <4>1 DEF Next, Joined, DriverStep, vars, Look, LockCustomer,
               StillWaiting, TooLate, PickUp, DropOff, LoadCompleted, StoreCompleted
      <3>3. ~ NoRequest(d)
        <4> SUFFICES ASSUME NoRequest(d) PROVE FALSE
          OBVIOUS
        <4>1. PICK j \in Kinds : Scan(j) = {} /\ pos' = [pos EXCEPT ![j] = N]
          BY DEF NoRequest, Kind, Kinds
        <4>2. j # k
          BY <3>1, <4>1
        <4> QED BY <1>1, <2>8, <4>1, <4>2
      <3>4. PICK j \in Kinds : \E i \in Scan(j) :
                /\ \A l \in Scan(j) : i <= l
                /\ req' = [req EXCEPT ![d] = <<j, i>>]
                /\ pos' = [pos EXCEPT ![j] = i + 1]
        BY <3>2, <3>3 DEF ReceiveRequest, Kind, Kinds
      <3>5. PICK i \in Scan(j) :
                /\ \A l \in Scan(j) : i <= l
                /\ req' = [req EXCEPT ![d] = <<j, i>>]
                /\ pos' = [pos EXCEPT ![j] = i + 1]
        BY <3>4
      <3>6. j = k
        BY <1>1, <2>8, <3>5
      <3>7. i = 0
        <4>1. i \in 0 .. N - 1 /\ i <= 0
          BY <2>8, <3>1, <3>5, <3>6 DEF Unfinished
        <4> QED BY <4>1
      <3>8. req'[d] = <<k, 0>> /\ pc'[d] = "look"
        BY <3>2, <3>3, <3>5, <3>6, <3>7 DEF ReceiveRequest, Goto, PickInv, TypeOK
      <3>9. <<k, 0>> \in Pair(c)'
        BY <2>3, PointersFixed
      <3> QED BY <3>8, <3>9 DEF InHand, Serving
    <2> QED BY <1>1, <2>4, <2>6, <2>7, <2>8
  <1> QED BY <1>2, <1>3, UblerAssumption

LEMMA LeavesStep ==
    ASSUME PickInv, WorkInv, [Next]_vars
    PROVE  NobodyLeavesWork'
  <1> USE DEF WorkInv
  <1> SUFFICES ASSUME Matched, NEW e \in Drivers, pc'[e] = "gone", NEW c \in Reqs
               PROVE  InHand(c)'
    BY PointersFixed DEF NobodyLeavesWork, InHand
  <1>1. CASE InHand(c)
    BY <1>1, InHandKept
  <1>2. CASE \E d \in Drivers : pc[d] = "gone"
    BY <1>1, <1>2 DEF NobodyLeavesWork, InHand
  <1>3. CASE NoRequest(e)
    <2>1. PICK k \in Kinds : Scan(k) = {}
      BY <1>3 DEF NoRequest, Kind, Kinds
    <2>2. PICK i \in Reqs : <<k, i>> \in Pair(c)
      BY DEF Pair, Kinds, PickInv, TypeOK
    <2>3. <<k, i>> \in Things /\ CustomerOf(<<k, i>>) = c
      BY <2>2, PairFacts
    <2>4. CASE completed[<<k, i>>] # 0
      BY <1>1, <2>3, <2>4 DEF Begun
    <2>5. Unfinished(k, Start(k)) = {} /\ Unfinished(k, 1) = {}
      BY <2>1 DEF Scan
    <2>6. CASE i >= 1
      <3>1. i \in 1 .. N - 1
        BY <2>6 DEF Reqs
      <3> QED BY <2>4, <2>5, <3>1 DEF Unfinished
    <2>7. CASE i = 0
      <3>1. pos[k] \in 0 .. N
        BY DEF PickInv, TypeOK
      <3>2. CASE pos[k] >= 1
        BY <1>1, <2>3, <2>7, <3>2 DEF HandedOut
      <3>3. CASE pos[k] = 0
        <4>1. Start(k) = 0 /\ i \in 0 .. N - 1
          BY <3>3 DEF Start, Reqs
        <4> QED BY <2>4, <2>5, <4>1 DEF Unfinished
      <3> QED BY <3>1, <3>2, <3>3
    <2> QED BY <2>6, <2>7 DEF Reqs
  <1>4. (\E d \in Drivers : pc[d] = "gone") \/ NoRequest(e)
    <2>1. CASE UNCHANGED vars
      BY <2>1 DEF vars
    <2>2. ASSUME NEW d \in Drivers, DriverStep(d), d # e PROVE pc[e] = "gone"
      BY <2>2, OthersKept
    <2>3. ASSUME DriverStep(e), ~ NoRequest(e) PROVE FALSE
      <3>1. pc \in [Drivers -> Pcs]
        BY DEF PickInv, TypeOK, Pcs
      <3>2. \E l \in Pcs \ {"gone"} : pc' = [pc EXCEPT ![e] = l]
        BY <2>3 DEF DriverStep, ReceiveRequest, Look, LockCustomer, StillWaiting, TooLate,
                   PickUp, DropOff, LoadCompleted, StoreCompleted, Goto, NextRound, Pcs
      <3> QED BY <3>1, <3>2
    <2> QED BY <2>1, <2>2, <2>3 DEF Next, Joined
  <1> QED BY <1>2, <1>3, <1>4

-----------------------------------------------------------------------------
(* OnceInv: the unlocked completions of a pair have one driver.            *)

\* What a carrying driver has in hand.
LEMMA CarriedFacts ==
    ASSUME PickInv, Matched, NEW d \in Drivers, Carrying(d)
    PROVE  /\ req[d] \in Things /\ Partner(req[d]) \in Things
           /\ Partner(Partner(req[d])) = req[d] /\ Partner(req[d]) # req[d]
           /\ LeftToDo(d) \in {{req[d], Partner(req[d])}, {Partner(req[d])}}
  <1>1. req[d] \in Things
    BY DEF PickInv, HasRequest, Carrying
  <1>2. LeftToDo(d) \in {{req[d], Partner(req[d])}, {Partner(req[d])}}
    BY DEF LeftToDo
  <1> QED BY <1>1, <1>2, PartnerType, PartnerMatched DEF PickInv

\* What is left to do depends on the driver's own state.
LEMMA LeftKept ==
    ASSUME [Next]_vars, NEW e \in Drivers,
           pc'[e] = pc[e], todo'[e] = todo[e], req'[e] = req[e]
    PROVE  LeftToDo(e)' = LeftToDo(e)
  BY PointersFixed DEF LeftToDo

\* A step that neither starts nor advances a delivery.
LEMMA OnceKept ==
    ASSUME PickInv, OnceInv, [Next]_vars, UNCHANGED <<picked, completed, todo, loaded>>,
           \A e \in Drivers : Carrying(e)' =>
               Carrying(e) /\ pc'[e] = pc[e] /\ req'[e] = req[e]
    PROVE  OnceInv'
  <1> SUFFICES ASSUME Matched PROVE OnceInv'
    BY PointersFixed DEF OnceInv
  <1>1. OneCarrier' /\ CarriedPicked'
    BY PointersFixed DEF OnceInv, OneCarrier, CarriedPicked
  <1>2. CompletedPicked' /\ CompletedOnce'
    BY PointersFixed DEF OnceInv, CompletedPicked, CompletedOnce
  <1>3. NotYetCompleted'
    <2> SUFFICES ASSUME NEW e \in Drivers, Carrying(e)'
                 PROVE  /\ \A t \in LeftToDo(e)' : completed'[t] = 0
                        /\ pc'[e] = "store" => loaded'[e] = 0
      BY DEF NotYetCompleted
    <2>1. Carrying(e) /\ pc'[e] = pc[e] /\ req'[e] = req[e]
      OBVIOUS
    <2>2. LeftToDo(e)' = LeftToDo(e)
      BY <2>1, PointersFixed DEF LeftToDo
    <2> QED BY <2>1, <2>2 DEF OnceInv, NotYetCompleted
  <1> QED BY <1>1, <1>2, <1>3 DEF OnceInv

\* A driver that picks up starts on a pair that nobody carries.
LEMMA PickUpOnce ==
    ASSUME PickInv, OnceInv, [Next]_vars, NEW d \in Drivers, PickUp(d)
    PROVE  OnceInv'
  <1> SUFFICES ASSUME Matched PROVE OnceInv'
    BY PointersFixed DEF OnceInv
  <1> DEFINE r == req[d]
  <1>1. /\ UNCHANGED <<completed, req, todo, loaded>>
        /\ pc[d] = "pick up" /\ pc' = [pc EXCEPT ![d] = "drop off"]
        /\ picked' = [picked EXCEPT ![r] = picked[r] + 1]
    BY DEF PickUp, Goto, Bump
  <1>2. /\ r \in Things /\ Partner(r) \in Things
        /\ picked[r] = 0 /\ picked[Partner(r)] = 0 /\ Partner(Partner(r)) = r
    BY <1>1, PartnerType, PartnerMatched DEF PickInv, HasRequest, ToPickUp
  <1>3. /\ pc'[d] = "drop off"
        /\ \A e \in Drivers : e # d => pc'[e] = pc[e]
    BY <1>1 DEF PickInv, TypeOK
  <1>3a. \A t \in Things : picked'[t] = IF t = r THEN 1 ELSE picked[t]
    <2>1. picked \in [Things -> Nat]
      BY DEF PickInv, TypeOK
    <2>2. picked[r] + 1 = 1
      BY <1>2
    <2>3. picked' = [picked EXCEPT ![r] = 1]
      BY <1>1, <2>2, Zenon
    <2> HIDE DEF r
    <2> QED BY <2>1, <2>3
  <1>4. \A t \in Things : picked[t] # 0 => picked'[t] # 0
    BY <1>3a
  <1>5. picked'[r] # 0
    BY <1>2, <1>3a
  <1>6. completed[r] = 0 /\ completed[Partner(r)] = 0
    BY <1>2 DEF OnceInv, CompletedPicked
  <1>7. \A e \in Drivers : Carrying(e) => picked[req[e]] # 0 /\ req[e] \in Things
    BY CarriedFacts DEF OnceInv, CarriedPicked
  <1>8. \A e \in Drivers : Carrying(e)' => e = d \/ Carrying(e)
    BY <1>3 DEF Carrying
  <1>9. ASSUME NEW e \in Drivers, Carrying(e)
        PROVE  req[e] # r /\ req[e] # Partner(r) /\ r # Partner(req[e])
    <2>1. req[e] # r /\ req[e] # Partner(r)
      BY <1>2, <1>7, <1>9
    <2>2. Partner(Partner(req[e])) = req[e]
      BY <1>9, CarriedFacts
    <2> QED BY <2>1, <2>2
  <1>10. OneCarrier'
    <2> SUFFICES ASSUME NEW a \in Drivers, NEW e \in Drivers, a # e,
                        Carrying(a)', Carrying(e)'
                 PROVE  req[e] # req[a] /\ req[e] # Partner(req[a])
      BY <1>1, PointersFixed DEF OneCarrier
    <2>1. CASE Carrying(a) /\ Carrying(e)
      BY <2>1 DEF OnceInv, OneCarrier
    <2>2. CASE a = d
      BY <1>8, <1>9, <2>2
    <2>3. CASE e = d
      BY <1>8, <1>9, <2>3
    <2> QED BY <1>8, <2>1, <2>2, <2>3
  <1>11. CarriedPicked'
    BY <1>1, <1>4, <1>5, <1>7, <1>8 DEF CarriedPicked
  <1>12. CompletedPicked'
    <2> SUFFICES ASSUME NEW t \in Things, completed[t] # 0
                 PROVE  picked'[t] # 0 \/ picked'[Partner(t)] # 0
      BY <1>1, PointersFixed DEF CompletedPicked
    <2>1. Partner(t) \in Things
      BY PartnerType DEF PickInv
    <2> QED BY <1>4, <2>1 DEF OnceInv, CompletedPicked
  <1>13. NotYetCompleted'
    <2> SUFFICES ASSUME NEW e \in Drivers, Carrying(e)'
                 PROVE  /\ \A t \in LeftToDo(e)' : completed[t] = 0
                        /\ pc'[e] = "store" => loaded[e] = 0
      BY <1>1 DEF NotYetCompleted
    <2>1. CASE e = d
      <3>1. LeftToDo(e)' = {r, Partner(r)}
        BY <1>1, <1>3, <2>1, PointersFixed DEF LeftToDo
      <3> QED BY <1>3, <1>6, <2>1, <3>1
    <2>2. CASE e # d
      <3>1. pc'[e] = pc[e] /\ Carrying(e)
        BY <1>3, <1>8, <2>2
      <3>2. LeftToDo(e)' = LeftToDo(e)
        BY <1>1, <3>1, LeftKept
      <3> QED BY <3>1, <3>2 DEF OnceInv, NotYetCompleted
    <2> QED BY <2>1, <2>2
  <1>14. CompletedOnce'
    BY <1>1 DEF OnceInv, CompletedOnce
  <1> QED BY <1>10, <1>11, <1>12, <1>13, <1>14 DEF OnceInv

\* A driver at the destination has both sides to complete, and loads zero.
LEMMA DropOffOnce ==
    ASSUME PickInv, OnceInv, [Next]_vars, NEW d \in Drivers, DropOff(d) \/ LoadCompleted(d)
    PROVE  OnceInv'
  <1> SUFFICES ASSUME Matched PROVE OnceInv'
    BY PointersFixed DEF OnceInv
  <1>1. /\ UNCHANGED <<picked, completed, req>> /\ Carrying(d)
        /\ \A e \in Drivers : e # d =>
               pc'[e] = pc[e] /\ todo'[e] = todo[e] /\ loaded'[e] = loaded[e]
        /\ Carrying(d)'
    BY DEF DropOff, LoadCompleted, Goto, Carrying, PickInv, TypeOK
  <1>2. \A e \in Drivers : Carrying(e)' => Carrying(e)
    BY <1>1 DEF Carrying
  <1>3. OneCarrier' /\ CarriedPicked'
    BY <1>1, <1>2, PointersFixed DEF OnceInv, OneCarrier, CarriedPicked
  <1>4. CompletedPicked' /\ CompletedOnce'
    BY <1>1, PointersFixed DEF OnceInv, CompletedPicked, CompletedOnce
  <1>5. \A t \in LeftToDo(d) : completed[t] = 0
    BY <1>1 DEF OnceInv, NotYetCompleted
  <1>6. LeftToDo(d)' = LeftToDo(d) /\ (pc'[d] = "store" => loaded'[d] = 0)
    <2>1. CASE DropOff(d)
      <3>1. /\ pc[d] = "drop off" /\ pc'[d] = "load"
            /\ todo'[d] = <<req[d], Partner(req[d])>>
        <4>1. pc \in [Drivers -> Pcs] /\ todo \in [Drivers -> Seq(Things)]
          BY DEF PickInv, TypeOK, Pcs
        <4> QED BY <2>1, <4>1 DEF DropOff, Goto
      <3>2. LeftToDo(d) = {req[d], Partner(req[d])}
        BY <3>1 DEF LeftToDo
      <3>3. LeftToDo(d)' = {req[d], Partner(req[d])}
        <4>1. req'[d] = req[d] /\ Partner(req[d])' = Partner(req[d])
          BY <1>1, PointersFixed
        <4>2. LeftToDo(d)' = IF \/ pc'[d] = "drop off"
                                \/ todo'[d] = <<req[d], Partner(req[d])>>
                             THEN {req[d], Partner(req[d])}
                             ELSE {Partner(req[d])}
          BY <4>1 DEF LeftToDo
        <4> QED BY <3>1, <4>2
      <3> QED BY <3>1, <3>2, <3>3
    <2>2. CASE LoadCompleted(d)
      <3>1. /\ pc[d] = "load" /\ pc'[d] = "store" /\ todo' = todo
            /\ loaded'[d] = completed[Head(todo[d])]
        BY <2>2 DEF LoadCompleted, Goto, PickInv, TypeOK
      <3>2. Head(todo[d]) \in LeftToDo(d)
        BY <3>1 DEF PickInv, Delivering, LeftToDo
      <3>3. LeftToDo(d)' = LeftToDo(d)
        BY <1>1, <3>1, PointersFixed DEF LeftToDo
      <3> QED BY <1>5, <3>1, <3>2, <3>3
    <2> QED BY <2>1, <2>2
  <1>7. NotYetCompleted'
    <2> SUFFICES ASSUME NEW e \in Drivers, Carrying(e)'
                 PROVE  /\ \A t \in LeftToDo(e)' : completed[t] = 0
                        /\ pc'[e] = "store" => loaded'[e] = 0
      BY <1>1 DEF NotYetCompleted
    <2>1. CASE e # d
      <3>1. pc'[e] = pc[e] /\ loaded'[e] = loaded[e] /\ Carrying(e)
        BY <1>1, <1>2, <2>1
      <3>2. LeftToDo(e)' = LeftToDo(e)
        BY <1>1, <2>1, LeftKept
      <3> QED BY <3>1, <3>2 DEF OnceInv, NotYetCompleted
    <2> QED BY <1>5, <1>6, <2>1
  <1> QED BY <1>3, <1>4, <1>7 DEF OnceInv

\* A completion takes a count from zero to one, and no other driver had it in
\* hand.
LEMMA StoreOnce ==
    ASSUME PickInv, OnceInv, [Next]_vars, NEW d \in Drivers, StoreCompleted(d)
    PROVE  OnceInv'
  <1> SUFFICES ASSUME Matched PROVE OnceInv'
    BY PointersFixed DEF OnceInv
  <1> DEFINE r == req[d]
             h == Head(todo[d])
  <1>1. /\ pc[d] = "store" /\ UNCHANGED picked /\ Carrying(d)
        /\ completed' = [completed EXCEPT ![h] = loaded[d] + 1]
        /\ loaded' = [loaded EXCEPT ![d] = 0]
    BY DEF StoreCompleted, Carrying
  <1>2. /\ r \in Things /\ Partner(r) \in Things
        /\ Partner(Partner(r)) = r /\ Partner(r) # r
    BY <1>1, CarriedFacts
  <1>3. h \in {r, Partner(r)}
    BY <1>1 DEF PickInv, Delivering
  <1>4. \A t \in Things : completed'[t] = IF t = h THEN 1 ELSE completed[t]
    <2>1. loaded[d] = 0
      BY <1>1 DEF OnceInv, NotYetCompleted
    <2>2. completed \in [Things -> Nat]
      BY DEF PickInv, TypeOK
    <2>3. completed' = [completed EXCEPT ![h] = 1]
      BY <1>1, <2>1
    <2> HIDE DEF h
    <2> QED BY <2>2, <2>3
  <1>5. \/ /\ todo[d] = <<r, Partner(r)>> /\ h = r
           /\ todo'[d] = <<Partner(r)>> /\ req'[d] = r /\ pc'[d] = "load"
        \/ pc'[d] = "receive"
    <2>1. /\ pc \in [Drivers -> Pcs] /\ todo \in [Drivers -> Seq(Things)]
          /\ req \in [Drivers -> Things \cup {NoThing}]
      BY DEF PickInv, TypeOK, Pcs
    <2>2. CASE /\ todo[d] = <<r, Partner(r)>>
               /\ pc' = [pc EXCEPT ![d] = "load"] /\ req' = req
               /\ todo' = [todo EXCEPT ![d] = <<Partner(r)>>]
      BY <2>1, <2>2
    <2>3. CASE pc' = [pc EXCEPT ![d] = "receive"]
      BY <2>1, <2>3
    <2> QED BY <2>2, <2>3, StoreEffect
  <1>6. \A e \in Drivers : e # d =>
            /\ pc'[e] = pc[e] /\ req'[e] = req[e]
            /\ todo'[e] = todo[e] /\ loaded'[e] = loaded[e]
    <2>1. \A e \in Drivers : e # d => pc'[e] = pc[e] /\ req'[e] = req[e]
      BY OthersKept DEF DriverStep
    <2>2. todo' = [todo EXCEPT ![d] = Tail(@)]
      BY DEF StoreCompleted
    <2> QED BY <1>1, <2>1, <2>2 DEF PickInv, TypeOK
  <1> HIDE DEF h
  <1>7. \A e \in Drivers : Carrying(e)' => Carrying(e) /\ req'[e] = req[e]
    BY <1>1, <1>5, <1>6 DEF Carrying
  <1>8. OneCarrier' /\ CarriedPicked'
    BY <1>1, <1>7, PointersFixed DEF OnceInv, OneCarrier, CarriedPicked
  <1>9. CompletedPicked'
    <2> SUFFICES ASSUME NEW t \in Things, completed'[t] # 0
                 PROVE  picked[t] # 0 \/ picked[Partner(t)] # 0
      BY <1>1, PointersFixed DEF CompletedPicked
    <2>1. CASE t = h
      <3>1. picked[r] # 0
        BY <1>1 DEF OnceInv, CarriedPicked
      <3> QED BY <1>2, <1>3, <2>1, <3>1
    <2>2. CASE t # h
      BY <1>4, <2>2 DEF OnceInv, CompletedPicked
    <2> QED BY <2>1, <2>2
  <1>10. CompletedOnce'
    BY <1>4 DEF OnceInv, CompletedOnce
  <1>11. NotYetCompleted'
    <2> SUFFICES ASSUME NEW e \in Drivers, Carrying(e)'
                 PROVE  /\ \A t \in LeftToDo(e)' : completed'[t] = 0
                        /\ pc'[e] = "store" => loaded'[e] = 0
      BY DEF NotYetCompleted
    <2>1. CASE e = d
      <3>1. /\ h = r /\ pc'[e] = "load" /\ req'[e] = r
            /\ todo'[e] = <<Partner(r)>> /\ todo[e] = <<r, Partner(r)>>
        BY <1>5, <2>1 DEF Carrying
      <3>2. LeftToDo(e)' = {Partner(r)}
        <4>1. <<Partner(r)>> # <<r, Partner(r)>>
          OBVIOUS
        <4> QED BY <3>1, <4>1, PointersFixed DEF LeftToDo
      <3>3. Partner(r) \in LeftToDo(d)
        BY <1>1, CarriedFacts
      <3>4. completed[Partner(r)] = 0
        BY <1>1, <3>3 DEF OnceInv, NotYetCompleted
      <3> QED BY <1>2, <1>4, <3>1, <3>2, <3>4
    <2>2. CASE e # d
      <3>1. /\ LeftToDo(e)' = LeftToDo(e) /\ Carrying(e)
            /\ pc'[e] = pc[e] /\ loaded'[e] = loaded[e]
        BY <1>6, <1>7, <2>2, LeftKept
      <3>2. /\ req[e] \in Things /\ Partner(req[e]) \in Things
            /\ Partner(Partner(req[e])) = req[e]
            /\ LeftToDo(e) \subseteq {req[e], Partner(req[e])}
        BY <3>1, CarriedFacts
      <3>3. req[e] # r /\ req[e] # Partner(r)
        BY <1>1, <2>2, <3>1 DEF OnceInv, OneCarrier
      <3>4. Partner(req[e]) # r /\ Partner(req[e]) # Partner(r)
        BY <1>2, <3>2, <3>3
      <3>5. \A t \in LeftToDo(e) : t \in Things /\ t # h /\ completed[t] = 0
        BY <1>3, <3>1, <3>2, <3>3, <3>4 DEF OnceInv, NotYetCompleted
      <3>6. pc[e] = "store" => loaded[e] = 0
        BY <3>1 DEF OnceInv, NotYetCompleted
      <3> QED BY <1>4, <3>1, <3>5, <3>6
    <2> QED BY <2>1, <2>2
  <1> QED BY <1>8, <1>9, <1>10, <1>11 DEF OnceInv

\* Every step keeps each pair with one driver.
LEMMA OnceStep ==
    ASSUME PickInv, OnceInv, [Next]_vars
    PROVE  OnceInv'
  <1>1. CASE UNCHANGED vars
    <2>1. UNCHANGED <<picked, completed, todo, loaded, pc, req>>
      BY <1>1 DEF vars
    <2> QED BY <2>1, OnceKept DEF Carrying
  <1>2. ASSUME NEW d \in Drivers,
               \/ ReceiveRequest(d) \/ NoRequest(d) \/ Look(d) \/ LockCustomer(d)
               \/ StillWaiting(d) \/ TooLate(d)
        PROVE  OnceInv'
    <2>1. UNCHANGED <<picked, completed, todo, loaded>>
      BY <1>2 DEF ReceiveRequest, NoRequest, Look, LockCustomer, StillWaiting, TooLate
    <2>2. ~ Carrying(d)'
      BY <1>2 DEF ReceiveRequest, NoRequest, Look, LockCustomer, StillWaiting, TooLate,
                  Goto, NextRound, Carrying, PickInv, TypeOK
    <2>3. \A e \in Drivers : e # d => pc'[e] = pc[e] /\ req'[e] = req[e]
      BY <1>2, OthersKept DEF DriverStep
    <2>4. \A e \in Drivers : Carrying(e)' =>
              Carrying(e) /\ pc'[e] = pc[e] /\ req'[e] = req[e]
      BY <2>2, <2>3 DEF Carrying
    <2> QED BY <2>1, <2>4, OnceKept
  <1>3. ASSUME NEW d \in Drivers,
               PickUp(d) \/ DropOff(d) \/ LoadCompleted(d) \/ StoreCompleted(d)
        PROVE  OnceInv'
    BY <1>3, PickUpOnce, DropOffOnce, StoreOnce
  <1> QED BY <1>1, <1>2, <1>3 DEF Next, Joined, DriverStep

-----------------------------------------------------------------------------
(* CountInv: the sums of record_stats.                                     *)

\* The customers and meals, and the drivers, can be counted.
LEMMA FiniteThings ==
    /\ IsFiniteSet(Reqs) /\ Cardinality(Reqs) = N
    /\ IsFiniteSet(Things) /\ IsFiniteSet(Drivers)
    /\ IsFiniteSet(DroppingOff) /\ Cardinality(DroppingOff) \in Nat
  <1>1. IsFiniteSet(Reqs) /\ Cardinality(Reqs) = N
    BY UblerAssumption, FS_Interval DEF Reqs
  <1>2. IsFiniteSet(Kinds)
    <2>1. IsFiniteSet({"customer"})
      BY FS_Singleton
    <2>2. IsFiniteSet({"customer"} \cup {"meal"})
      BY <2>1, FS_AddElement
    <2>3. Kinds = {"customer"} \cup {"meal"}
      BY DEF Kinds
    <2> QED BY <2>2, <2>3
  <1>3. IsFiniteSet(Things)
    BY <1>1, <1>2, FS_Product DEF Things
  <1>4. DroppingOff \subseteq Drivers
    BY DEF DroppingOff
  <1> QED BY <1>1, <1>3, <1>4, UblerAssumption, FS_Subset, FS_CardinalityType

\* A counter that is bumped adds one to its sum.
LEMMA BumpSum ==
    ASSUME NEW S, IsFiniteSet(S), NEW counter \in [S -> Nat], NEW x \in S
    PROVE  /\ SumFunctionOnSet(counter, S) \in Nat
           /\ SumFunctionOnSet(Bump(counter, x), S) = SumFunctionOnSet(counter, S) + 1
  <1> DEFINE f == Bump(counter, x)
  <1>1. SumFunctionOnSet(counter, S) \in Nat
    BY SumType
  <1>2. \A y \in S : counter[y] \in Nat
    OBVIOUS
  <1>3. \A y \in S : f[y] \in Nat
    BY DEF Bump
  <1>4. \A y \in S \ {x} : counter[y] = f[y]
    BY DEF Bump
  <1>5. f[x] = counter[x] + 1
    BY DEF Bump
  <1> HIDE DEF f
  <1>6. SumFunctionOnSet(f, S) = SumFunctionOnSet(counter, S) - counter[x] + f[x]
    BY <1>2, <1>3, <1>4, SumUpdate
  <1>7. SumFunctionOnSet(f, S) = SumFunctionOnSet(counter, S) + 1
    BY <1>1, <1>2, <1>5, <1>6
  <1> QED BY <1>1, <1>7 DEF f

\* At the start every counter is zero.
LEMMA CountInit == Init => CountInv
  <1> SUFFICES ASSUME Init PROVE CountInv
    OBVIOUS
  <1>1. \A t \in Things : picked[t] = 0
    BY DEF Init
  <1>2. \A d \in Drivers : pickups[d] = 0
    BY DEF Init
  <1>3. \A d \in Drivers : deliveries[d] = 0
    BY DEF Init
  <1>4. Cardinality(DroppingOff) = 0
    <2>1. DroppingOff = {}
      BY DEF Init, DroppingOff
    <2> QED BY <2>1, FS_EmptySet
  <1>5. SumFunctionOnSet(picked, Things) = 0
    BY <1>1, FiniteThings, SumOfZeros
  <1>6. SumFunctionOnSet(pickups, Drivers) = 0
    BY <1>2, FiniteThings, SumOfZeros
  <1>7. SumFunctionOnSet(deliveries, Drivers) = 0
    BY <1>3, FiniteThings, SumOfZeros
  <1> QED BY <1>4, <1>5, <1>6, <1>7 DEF CountInv

\* A pick-up is counted by the driver and by the request; a drop-off moves the
\* driver from those on their way to those that have delivered.
LEMMA CountStep ==
    ASSUME PickInv, CountInv, [Next]_vars
    PROVE  CountInv'
  <1>0. /\ picked \in [Things -> Nat] /\ pickups \in [Drivers -> Nat]
        /\ deliveries \in [Drivers -> Nat] /\ pc \in [Drivers -> Pcs]
    BY DEF PickInv, TypeOK, Pcs
  <1>1. ASSUME UNCHANGED <<picked, stats>>, DroppingOff' = DroppingOff
        PROVE  CountInv'
    BY <1>1 DEF CountInv, stats
  <1>2. CASE UNCHANGED vars
    BY <1>1, <1>2 DEF vars, DroppingOff
  <1>3. ASSUME NEW d \in Drivers,
               \/ ReceiveRequest(d) \/ NoRequest(d) \/ Look(d) \/ LockCustomer(d)
               \/ StillWaiting(d) \/ TooLate(d) \/ LoadCompleted(d) \/ StoreCompleted(d)
        PROVE  CountInv'
    <2>1. UNCHANGED <<picked, stats>>
      BY <1>3 DEF ReceiveRequest, NoRequest, Look, LockCustomer, StillWaiting, TooLate,
                  LoadCompleted, StoreCompleted
    <2>2. /\ pc[d] # "drop off"
          /\ \E l \in Pcs \ {"drop off"} : pc' = [pc EXCEPT ![d] = l]
      BY <1>3 DEF ReceiveRequest, NoRequest, Look, LockCustomer, StillWaiting, TooLate,
                  LoadCompleted, StoreCompleted, Goto, NextRound, Pcs
    <2>3. DroppingOff' = DroppingOff
      BY <1>0, <2>2 DEF DroppingOff
    <2> QED BY <1>1, <2>1, <2>3
  <1>4. ASSUME NEW d \in Drivers, PickUp(d) PROVE CountInv'
    <2>1. /\ picked' = Bump(picked, req[d]) /\ pickups' = Bump(pickups, d)
          /\ deliveries' = deliveries /\ req[d] \in Things
          /\ pc[d] = "pick up" /\ pc' = [pc EXCEPT ![d] = "drop off"]
      BY <1>4 DEF PickUp, Goto, PickInv, HasRequest
    <2>2. SumFunctionOnSet(picked', Things) = SumFunctionOnSet(picked, Things) + 1
      BY <1>0, <2>1, FiniteThings, BumpSum
    <2>3. /\ SumFunctionOnSet(pickups', Drivers) = SumFunctionOnSet(pickups, Drivers) + 1
          /\ SumFunctionOnSet(pickups, Drivers) \in Nat
      BY <1>0, <2>1, FiniteThings, BumpSum
    <2>4. SumFunctionOnSet(deliveries, Drivers) \in Nat
      BY <1>0, FiniteThings, SumType
    <2>5. Cardinality(DroppingOff') = Cardinality(DroppingOff) + 1
      <3>1. DroppingOff' = DroppingOff \cup {d} /\ d \notin DroppingOff
        BY <1>0, <2>1 DEF DroppingOff
      <3> QED BY <3>1, FiniteThings, FS_AddElement
    <2>6. SumFunctionOnSet(pickups', Drivers) =
              SumFunctionOnSet(deliveries', Drivers) + Cardinality(DroppingOff')
      <3>1. /\ SumFunctionOnSet(pickups, Drivers) =
                   SumFunctionOnSet(deliveries, Drivers) + Cardinality(DroppingOff)
            /\ Cardinality(DroppingOff) \in Nat
        BY FiniteThings DEF CountInv
      <3>2. SumFunctionOnSet(deliveries', Drivers) = SumFunctionOnSet(deliveries, Drivers)
        BY <2>1, Zenon
      <3> QED BY <2>3, <2>4, <2>5, <3>1, <3>2
    <2> QED BY <2>2, <2>3, <2>6 DEF CountInv
  <1>5. ASSUME NEW d \in Drivers, DropOff(d) PROVE CountInv'
    <2>1. /\ UNCHANGED <<picked, pickups>> /\ deliveries' = Bump(deliveries, d)
          /\ pc[d] = "drop off" /\ pc' = [pc EXCEPT ![d] = "load"]
      BY <1>5 DEF DropOff, Goto
    <2>2. /\ SumFunctionOnSet(deliveries', Drivers) =
                 SumFunctionOnSet(deliveries, Drivers) + 1
          /\ SumFunctionOnSet(deliveries, Drivers) \in Nat
      BY <1>0, <2>1, FiniteThings, BumpSum
    <2>3. Cardinality(DroppingOff') = Cardinality(DroppingOff) - 1
      <3>1. DroppingOff' = DroppingOff \ {d} /\ d \in DroppingOff
        BY <1>0, <2>1 DEF DroppingOff
      <3> QED BY <3>1, FiniteThings, FS_RemoveElement
    <2>4. SumFunctionOnSet(pickups', Drivers) =
              SumFunctionOnSet(deliveries', Drivers) + Cardinality(DroppingOff')
      <3>1. /\ SumFunctionOnSet(pickups, Drivers) =
                   SumFunctionOnSet(deliveries, Drivers) + Cardinality(DroppingOff)
            /\ Cardinality(DroppingOff) \in Nat
        BY FiniteThings DEF CountInv
      <3>2. SumFunctionOnSet(pickups', Drivers) = SumFunctionOnSet(pickups, Drivers)
        BY <2>1, Zenon
      <3> QED BY <2>2, <2>3, <3>1, <3>2
    <2> QED BY <2>1, <2>4 DEF CountInv
  <1> QED BY <1>2, <1>3, <1>4, <1>5 DEF Next, Joined, DriverStep

\* Of each finished pair exactly one side was picked up, so as many things were
\* picked up as there are requests.
LEMMA OnePickedPerRequest ==
    ASSUME PickInv, OnceInv, Matched, \A c \in Reqs : Finished(c)
    PROVE  SumFunctionOnSet(picked, Things) = N
  <1> USE DEF PickInv
  <1> DEFINE P == {t \in Things : picked[t] = 1}
             f == [t \in P |-> CustomerOf(t)]
  <1>1. \A t \in Things : picked[t] \in {0, 1}
    <2>1. \A t \in Things : picked[t] \in Nat
      BY DEF TypeOK
    <2>2. \A t \in Things : picked[t] <= 1
      BY DEF NothingPickedUpTwice
    <2> QED BY <2>1, <2>2
  <1>2. \A t \in P : CustomerOf(t) \in Reqs
    BY PartnerType
  <1>3. ASSUME NEW s \in P, NEW t \in P, CustomerOf(s) = CustomerOf(t)
        PROVE  s = t
    <2>1. Pair(CustomerOf(s)) = {s, Partner(s)} /\ Pair(CustomerOf(t)) = {t, Partner(t)}
      BY PartnerMatched
    <2>2. t = s \/ t = Partner(s)
      BY <1>3, <2>1
    <2>3. picked[s] + picked[Partner(s)] <= 1 /\ picked[s] = 1 /\ picked[t] = 1
      BY DEF OnePerPair
    <2> QED BY <2>2, <2>3
  <1>4. ASSUME NEW c \in Reqs PROVE \E t \in P : CustomerOf(t) = c
    <2>1. /\ <<"customer", c>> \in Pair(c) /\ <<"customer", c>> \in Things
          /\ Partner(<<"customer", c>>) \in Pair(c)
      BY DEF Pair, Partner, Things, Kinds
    <2>2. completed[<<"customer", c>>] # 0
      BY <2>1 DEF Finished
    <2>3. \E t \in Pair(c) : picked[t] # 0
      BY <2>1, <2>2 DEF OnceInv, CompletedPicked
    <2>4. PICK t \in Pair(c) : picked[t] # 0
      BY <2>3
    <2>5. t \in Things /\ CustomerOf(t) = c
      BY PairFacts
    <2>6. picked[t] = 1
      BY <1>1, <2>4, <2>5
    <2> QED BY <2>5, <2>6
  <1>5. f \in Bijection(P, Reqs)
    <2>1. f \in [P -> Reqs]
      BY <1>2
    <2>2. \A s, t \in P : f[s] = f[t] => s = t
      BY <1>3
    <2>3. \A c \in Reqs : \E t \in P : f[t] = c
      BY <1>4
    <2> HIDE DEF f, P
    <2> QED BY <2>1, <2>2, <2>3 DEF Bijection, Injection, Surjection, IsInjective
  <1>6. IsFiniteSet(P)
    BY FiniteThings, FS_Subset
  <1>7. Cardinality(P) = N
    <2>1. ExistsBijection(P, Reqs)
      BY <1>5 DEF ExistsBijection
    <2> HIDE DEF P
    <2> QED BY <1>6, <2>1, FiniteThings, FS_Bijection
  <1>8. SumFunctionOnSet(picked, Things) = Cardinality(P)
    BY <1>1, FiniteThings, SumOfBits
  <1> QED BY <1>7, <1>8

\* When all drivers have gone home, the test of ubler_test.c finds what it
\* expects.
LEMMA TestPasses ==
    ASSUME PickInv, WorkInv, OnceInv, CountInv
    PROVE  TestSucceeds
  <1> SUFFICES ASSUME AllGone, Drivers # {}, Matched
               PROVE  record_stats =
                        [ total_picked_up |-> N, total_ignored |-> 0,
                          total_overserviced |-> 0,
                          driver_picked_up |-> N, driver_delivered |-> N ]
    BY DEF TestSucceeds
  <1>1. ASSUME NEW c \in Reqs PROVE Finished(c)
    <2>1. \E d \in Drivers : pc[d] = "gone"
      BY DEF AllGone
    <2>2. \A d \in Drivers : ~ Serving(d, c)
      BY DEF AllGone, Serving
    <2> QED BY <2>1, <2>2 DEF WorkInv, NobodyLeavesWork
  <1>2. SumFunctionOnSet(picked, Things) = N
    BY <1>1, OnePickedPerRequest
  <1>3. {t \in Things : completed[t] = 0} = {}
    <2> SUFFICES ASSUME NEW t \in Things PROVE completed[t] # 0
      OBVIOUS
    <2>1. CustomerOf(t) \in Reqs /\ t \in Pair(CustomerOf(t))
      BY PartnerType, PartnerMatched DEF PickInv
    <2> QED BY <1>1, <2>1 DEF Finished
  <1>4. {t \in Things : picked[t] > 1 \/ completed[t] > 1} = {}
    <2> SUFFICES ASSUME NEW t \in Things PROVE ~ (picked[t] > 1 \/ completed[t] > 1)
      OBVIOUS
    <2>1. picked[t] \in Nat /\ completed[t] \in Nat
      BY DEF PickInv, TypeOK
    <2> QED BY <2>1 DEF PickInv, NothingPickedUpTwice, OnceInv, CompletedOnce
  <1>5. Cardinality(DroppingOff) = 0
    <2>1. DroppingOff = {}
      BY DEF AllGone, DroppingOff
    <2> QED BY <2>1, FS_EmptySet
  <1>6. /\ SumFunctionOnSet(pickups, Drivers) = N
        /\ SumFunctionOnSet(deliveries, Drivers) = N
    <2>1. SumFunctionOnSet(deliveries, Drivers) \in Nat
      BY FiniteThings, SumType DEF PickInv, TypeOK
    <2> QED BY <1>2, <1>5, <2>1 DEF CountInv
  <1> QED BY <1>2, <1>3, <1>4, <1>6, FS_EmptySet DEF record_stats

-----------------------------------------------------------------------------
(* The theorems *)

IInv == PickInv /\ WorkInv /\ OnceInv /\ CountInv

LEMMA InvInit == Init => IInv
  <1> SUFFICES ASSUME Init PROVE IInv
    OBVIOUS
  <1>1. PickInv
    BY PickInit
  <1>2. CarriedOrFinished /\ Begun
    BY DEF Init, CarriedOrFinished, Begun
  <1>3. HandedOut /\ NobodyLeavesWork
    BY DEF Init, HandedOut, NobodyLeavesWork
  <1>4. OnceInv
    BY DEF Init, OnceInv, OneCarrier, CarriedPicked, CompletedPicked,
           NotYetCompleted, CompletedOnce, Carrying
  <1> QED BY <1>1, <1>2, <1>3, <1>4, CountInit DEF IInv, WorkInv

LEMMA InvStep == IInv /\ [Next]_vars => IInv'
  <1> SUFFICES ASSUME IInv, [Next]_vars PROVE IInv'
    OBVIOUS
  <1>1. PickInv /\ WorkInv /\ OnceInv /\ CountInv
    BY DEF IInv
  <1>2. PickInv'
    BY <1>1, PickStep
  <1>3. WorkInv'
    BY <1>1, CarriedStep, BegunStep, HandedOutStep, LeavesStep DEF WorkInv
  <1>4. OnceInv' /\ CountInv'
    BY <1>1, OnceStep, CountStep
  <1> QED BY <1>2, <1>3, <1>4 DEF IInv

LEMMA InvAlways == Spec => []IInv
  BY InvInit, InvStep, PTL DEF Spec

\* Type correctness, for any number of drivers and requests.
THEOREM UblerType == Spec => []TypeOK
  <1>1. IInv => TypeOK
    BY DEF IInv, PickInv
  <1> QED BY <1>1, InvAlways, PTL

\* No customer and no meal is picked up twice, mixed up or not.
THEOREM UblerPickedOnce == Spec => []NothingPickedUpTwice
  <1>1. IInv => NothingPickedUpTwice
    BY DEF IInv, PickInv
  <1> QED BY <1>1, InvAlways, PTL

\* One driver per request: the customer or the meal is picked up, once.
THEOREM UblerOneDriver == Spec => []OneDriverPerRequest
  <1>1. IInv => OneDriverPerRequest
    <2> SUFFICES ASSUME PickInv, Matched, NEW c \in Reqs
                 PROVE  picked[<<"customer", c>>] + picked[<<"meal", customerMeal[c]>>] <= 1
      BY DEF IInv, OneDriverPerRequest
    <2>1. <<"customer", c>> \in Things
      BY DEF Things, Kinds
    <2>2. Partner(<<"customer", c>>) = <<"meal", customerMeal[c]>>
      BY DEF Partner
    <2> QED BY <2>1, <2>2 DEF PickInv, OnePerPair
  <1> QED BY <1>1, InvAlways, PTL

\* When a driver has gone home, every request is finished or in the hands of a
\* driver that has not.
THEOREM UblerNobodyLeavesWork == Spec => []NobodyLeavesWork
  <1>1. IInv => NobodyLeavesWork
    BY DEF IInv, WorkInv
  <1> QED BY <1>1, InvAlways, PTL

\* After the join the test of ubler_test.c succeeds: each request was picked up
\* and completed once, on one side or the other, and the drivers' counts agree.
THEOREM UblerTestSucceeds == Spec => []TestSucceeds
  <1>1. IInv => TestSucceeds
    BY TestPasses DEF IInv
  <1> QED BY <1>1, InvAlways, PTL
=============================================================================
