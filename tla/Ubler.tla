------------------------------- MODULE Ubler -------------------------------
(***************************************************************************)
(* pset5/ubler: N requests, each a customer and the meal that customer     *)
(* ordered, are served by driver threads: either the customer is driven to *)
(* the restaurant or the meal to the customer, never both.  The mutex of   *)
(* the customer guards the pair.  With --mix-up-meals some meals point to  *)
(* the wrong customer, and the two mutexes of a pair then differ.          *)
(*                                                                         *)
(* The tracking counters only grow, so an unlocked look at two of them,    *)
(* and the scan of receive_request, are single steps: their outcome is     *)
(* that of an instant between the first and the last load.  The increments *)
(* of a drop-off hold no lock and are a load and a store each.             *)
(***************************************************************************)
EXTENDS Integers, Sequences, FiniteSets, FiniteSetsExt

CONSTANTS
    Drivers,
    N,            \* num_requests
    DeliverBoth,  \* the values of deliverMealsAndCustomers in ubler.conf
    MixUps,       \* the values of mixUpMeals
    Nobody        \* owner of a free mutex

ASSUME UblerAssumption ==
    /\ IsFiniteSet(Drivers)
    /\ N \in Nat
    /\ DeliverBoth \subseteq BOOLEAN
    /\ MixUps \subseteq BOOLEAN
    /\ Nobody \notin Drivers

Reqs == 0 .. N - 1
Kinds == {"customer", "meal"}
Things == Kinds \X Reqs
NoThing == <<"customer", -1>>

VARIABLES
    customerMeal, \* per customer: the index of customer->meal
    mealCustomer, \* per meal: the index of meal->customer
    both,         \* deliverMealsAndCustomers
    pos,          \* customerPos and mealPos
    picked,       \* per thing: num_picked_up
    completed,    \* per thing: num_completed
    lock,         \* per customer: the driver that holds its mutex
    pc,
    req,          \* per driver: the request it has received
    todo,         \* per driver: the completions left in its drop-off
    loaded,       \* per driver: the num_completed it is about to increment
    pickups, deliveries \* per driver: driver_stats

pointers == <<customerMeal, mealCustomer, both>>
stats == <<pickups, deliveries>>
vars == <<pointers, pos, picked, completed, lock, pc, req, todo, loaded, stats>>

Matched == \A m \in Reqs : customerMeal[mealCustomer[m]] = m

\* init_requests: customers and meals point to each other, in a random order.
Ordered(meals, customers) ==
    /\ \A c \in Reqs : customers[meals[c]] = c
    /\ \A m \in Reqs : meals[customers[m]] = m

\* mix_up_meals: a set of disjoint swaps.
Swaps == {f \in [Reqs -> Reqs] : \A m \in Reqs : f[f[m]] = m}

\* swap_meals without preserveValidity: meals change their customers, which keep theirs.
swap_meals(customers, swap) == [m \in Reqs |-> customers[swap[m]]]

Init ==
    /\ customerMeal \in [Reqs -> Reqs]
    /\ both \in DeliverBoth
    /\ \E orderedBy \in [Reqs -> Reqs], mixUp \in MixUps, swap \in Swaps :
          /\ Ordered(customerMeal, orderedBy)
          /\ mixUp \/ \A m \in Reqs : swap[m] = m
          /\ mealCustomer = swap_meals(orderedBy, swap)
    /\ pos = [k \in Kinds |-> 0]
    /\ picked = [t \in Things |-> 0]
    /\ completed = [t \in Things |-> 0]
    /\ lock = [c \in Reqs |-> Nobody]
    /\ pc = [d \in Drivers |-> "receive"]
    /\ req = [d \in Drivers |-> NoThing]
    /\ todo = [d \in Drivers |-> << >>]
    /\ loaded = [d \in Drivers |-> 0]
    /\ pickups = [d \in Drivers |-> 0]
    /\ deliveries = [d \in Drivers |-> 0]

\* What the thing points to: customer->meal or meal->customer.
Partner(t) == IF t[1] = "customer" THEN <<"meal", customerMeal[t[2]]>>
                                   ELSE <<"customer", mealCustomer[t[2]]>>

\* The customer whose mutex a driver of the thing takes.
CustomerOf(t) == IF t[1] = "customer" THEN t[2] ELSE mealCustomer[t[2]]

Goto(d, label) == pc' = [pc EXCEPT ![d] = label]

\* The next round of the loop, which declares its request anew.
NextRound(d) == Goto(d, "receive") /\ req' = [req EXCEPT ![d] = NoThing]

Bump(counter, x) == [counter EXCEPT ![x] = @ + 1]

-----------------------------------------------------------------------------
\* A slip: a loop that ends one short of num_requests.
UnfinishedButLast(k, from) == {i \in from .. N - 2 : completed[<<k, i>>] = 0}

(* receive_request: scan from the position to the end, then once more from *)
(* index 1 (the loop increments the 0 it wraps to).                        *)
Unfinished(k, from) == {i \in from .. N - 1 : completed[<<k, i>>] = 0}

Start(k) == IF pos[k] = N THEN 0 ELSE pos[k]

Scan(k) == IF Unfinished(k, Start(k)) # {} THEN Unfinished(k, Start(k))
                                           ELSE Unfinished(k, 1)

Kind == IF both THEN Kinds ELSE {"customer"}

ReceiveRequest(d) ==
    /\ pc[d] = "receive"
    /\ \E k \in Kind : \E i \in Scan(k) :
          /\ \A j \in Scan(k) : i <= j
          /\ req' = [req EXCEPT ![d] = <<k, i>>]
          /\ pos' = [pos EXCEPT ![k] = i + 1]
    /\ Goto(d, "look")
    /\ UNCHANGED <<pointers, picked, completed, lock, todo, loaded, stats>>

\* A slip: the position is left one behind the end.
NoRequestPastEnd(d) ==
    /\ pc[d] = "receive"
    /\ \E k \in Kind :
          /\ Scan(k) = {}
          /\ pos' = [pos EXCEPT ![k] = N + 1]
    /\ Goto(d, "gone")
    /\ UNCHANGED <<pointers, picked, completed, lock, req, todo, loaded, stats>>

\* receive_request returns -1 and the thread ends.
NoRequest(d) ==
    /\ pc[d] = "receive"
    /\ \E k \in Kind :
          /\ Scan(k) = {}
          /\ pos' = [pos EXCEPT ![k] = N]
    /\ Goto(d, "gone")
    /\ UNCHANGED <<pointers, picked, completed, lock, req, todo, loaded, stats>>

\* The unlocked look, which passes on only what both sides were picked up.
Look(d) ==
    /\ pc[d] = "look"
    /\ IF picked[req[d]] # 0 /\ picked[Partner(req[d])] # 0
       THEN NextRound(d)
       ELSE Goto(d, "lock") /\ UNCHANGED req
    /\ UNCHANGED <<pointers, pos, picked, completed, lock, todo, loaded, stats>>

LockCustomer(d) ==
    /\ pc[d] = "lock"
    /\ lock[CustomerOf(req[d])] = Nobody
    /\ lock' = [lock EXCEPT ![CustomerOf(req[d])] = d]
    /\ Goto(d, "check")
    /\ UNCHANGED <<pointers, pos, picked, completed, req, todo, loaded, stats>>

\* A slip: the look before the lock is trusted.
StillWaitingUnchecked(d) ==
    /\ pc[d] = "check"
    /\ Goto(d, "pick up")
    /\ UNCHANGED <<pointers, pos, picked, completed, lock, req, todo, loaded, stats>>

\* A slip: only the thing itself is looked at, not its partner.
StillWaitingOneSided(d) ==
    /\ pc[d] = "check"
    /\ picked[req[d]] = 0
    /\ Goto(d, "pick up")
    /\ UNCHANGED <<pointers, pos, picked, completed, lock, req, todo, loaded, stats>>

\* The look under the lock: drive to the source with the lock held ...
StillWaiting(d) ==
    /\ pc[d] = "check"
    /\ picked[req[d]] = 0 /\ picked[Partner(req[d])] = 0
    /\ Goto(d, "pick up")
    /\ UNCHANGED <<pointers, pos, picked, completed, lock, req, todo, loaded, stats>>

\* ... or let go: another driver was faster.
TooLate(d) ==
    /\ pc[d] = "check"
    /\ picked[req[d]] # 0 \/ picked[Partner(req[d])] # 0
    /\ lock' = [lock EXCEPT ![CustomerOf(req[d])] = Nobody]
    /\ NextRound(d)
    /\ UNCHANGED <<pointers, pos, picked, completed, todo, loaded, stats>>

PickUp(d) ==
    /\ pc[d] = "pick up"
    /\ pickups' = Bump(pickups, d)
    /\ picked' = Bump(picked, req[d])
    /\ lock' = [lock EXCEPT ![CustomerOf(req[d])] = Nobody]
    /\ Goto(d, "drop off")
    /\ UNCHANGED <<pointers, pos, completed, req, todo, loaded, deliveries>>

\* A slip: the customer of a meal that was delivered is not completed, nor the
\* meal of a customer.
DropOffOneSide(d) ==
    /\ pc[d] = "drop off"
    /\ deliveries' = Bump(deliveries, d)
    /\ todo' = [todo EXCEPT ![d] = <<req[d]>>]
    /\ Goto(d, "load")
    /\ UNCHANGED <<pointers, pos, picked, completed, lock, req, loaded, pickups>>

\* driver_drop_off_*: the driver's own count, then the request's two sides.
DropOff(d) ==
    /\ pc[d] = "drop off"
    /\ deliveries' = Bump(deliveries, d)
    /\ todo' = [todo EXCEPT ![d] = <<req[d], Partner(req[d])>>]
    /\ Goto(d, "load")
    /\ UNCHANGED <<pointers, pos, picked, completed, lock, req, loaded, pickups>>

\* complete: stats->num_completed++ without a lock.
LoadCompleted(d) ==
    /\ pc[d] = "load"
    /\ loaded' = [loaded EXCEPT ![d] = completed[Head(todo[d])]]
    /\ Goto(d, "store")
    /\ UNCHANGED <<pointers, pos, picked, completed, lock, req, todo, stats>>

StoreCompleted(d) ==
    /\ pc[d] = "store"
    /\ completed' = [completed EXCEPT ![Head(todo[d])] = loaded[d] + 1]
    /\ loaded' = [loaded EXCEPT ![d] = 0]
    /\ todo' = [todo EXCEPT ![d] = Tail(@)]
    /\ IF Len(todo[d]) = 1 THEN NextRound(d) ELSE Goto(d, "load") /\ UNCHANGED req
    /\ UNCHANGED <<pointers, pos, picked, lock, stats>>

DriverStep(d) ==
    \/ ReceiveRequest(d) \/ NoRequest(d) \/ Look(d) \/ LockCustomer(d)
    \/ StillWaiting(d) \/ TooLate(d) \/ PickUp(d) \/ DropOff(d)
    \/ LoadCompleted(d) \/ StoreCompleted(d)

(* What the main thread adds up, customers and meals together. *)
record_stats ==
    [ total_picked_up |-> SumFunctionOnSet(picked, Things),
      total_ignored |-> Cardinality({t \in Things : completed[t] = 0}),
      total_overserviced |->
          Cardinality({t \in Things : picked[t] > 1 \/ completed[t] > 1}),
      driver_picked_up |-> SumFunctionOnSet(pickups, Drivers),
      driver_delivered |-> SumFunctionOnSet(deliveries, Drivers) ]

AllGone == \A d \in Drivers : pc[d] = "gone"

\* dispatch_drivers has joined every thread.
Joined == AllGone /\ UNCHANGED vars

Next == Joined \/ \E d \in Drivers : DriverStep(d)

Spec == Init /\ [][Next]_vars

FairSpec == Spec /\ \A d \in Drivers : WF_vars(DriverStep(d))

-----------------------------------------------------------------------------
(* Properties *)

\* Every variable holds a value of its type.
TypeOK ==
    /\ customerMeal \in [Reqs -> Reqs]
    /\ mealCustomer \in [Reqs -> Reqs]
    /\ both \in BOOLEAN
    /\ pos \in [Kinds -> 0 .. N]
    /\ picked \in [Things -> Nat]
    /\ completed \in [Things -> Nat]
    /\ lock \in [Reqs -> Drivers \cup {Nobody}]
    /\ pc \in [Drivers -> {"receive", "look", "lock", "check", "pick up",
                           "drop off", "load", "store", "gone"}]
    /\ req \in [Drivers -> Things \cup {NoThing}]
    /\ todo \in [Drivers -> Seq(Things)]
    /\ loaded \in [Drivers -> Nat]
    /\ pickups \in [Drivers -> Nat]
    /\ deliveries \in [Drivers -> Nat]

\* "This prevents two drivers from attempting to complete the same request at
\* the same time" (ubler.c:57-58): of a customer and the meal it ordered at most
\* one is picked up, at most once, although the looks before the lock race.
OneDriverPerRequest ==
    Matched => \A c \in Reqs :
        picked[<<"customer", c>>] + picked[<<"meal", customerMeal[c]>>] <= 1

\* Even with meals mixed up, when the two sides of a request are guarded by
\* different mutexes, nothing is picked up twice: a thing is always reached
\* through one and the same mutex.
NothingPickedUpTwice == \A t \in Things : picked[t] <= 1

\* The checks of ubler_test.c:137-144 on what record_stats adds up after the
\* join: each request picked up and delivered once, none ignored, none
\* overserviced, and the drivers' own counts agree with those of the requests.
TestSucceeds ==
    AllGone /\ Drivers # {} /\ Matched =>
        record_stats = [ total_picked_up |-> N, total_ignored |-> 0,
                         total_overserviced |-> 0,
                         driver_picked_up |-> N, driver_delivered |-> N ]

\* The two sides of the request of customer c.
Pair(c) == {<<"customer", c>>, <<"meal", customerMeal[c]>>}

Finished(c) == \A t \in Pair(c) : completed[t] # 0

\* A driver that has received a request of c and is not through with it.
Serving(d, c) == pc[d] \notin {"receive", "gone"} /\ req[d] \in Pair(c)

\* receive_request answers "nothing left" although its second scan never looks
\* at index 0 and although requests may be unfinished: each of those is then in
\* the hands of a driver that has not left, so leaving early loses nothing.
NobodyLeavesWork ==
    Matched /\ (\E d \in Drivers : pc[d] = "gone") =>
        \A c \in Reqs : Finished(c) \/ \E d \in Drivers : Serving(d, c)

\* Every driver thread ends and the join returns, whatever kind of request the
\* dispatcher draws: no driver waits for ever for a mutex or goes round for
\* ever with requests that others have picked up.
EveryoneGoesHome == Matched => <>AllGone
=============================================================================
