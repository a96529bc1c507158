---------------------------- MODULE RideService ----------------------------
(***************************************************************************)
(* What the dispatcher of pset5/dispatch promises its customers, without   *)
(* threads, locks or condition variables: requests are accepted in the     *)
(* order of the input, picked up first come first served, each is ridden   *)
(* once, and the service closes only when every ride is done.              *)
(***************************************************************************)
EXTENDS Naturals, Sequences

CONSTANTS NumRequests, Capacity

Requests == 1 .. NumRequests

VARIABLES
    pending,    \* accepted requests nobody rides yet, oldest first
    state,      \* per request: "unread", "pending", "riding" or "done"
    closed      \* the drivers have been sent home

vars == <<pending, state, closed>>

Init ==
    /\ pending = <<>>
    /\ state = [r \in Requests |-> "unread"]
    /\ closed = FALSE

\* The next request of the input is accepted when there is room.
Accept(r) ==
    /\ state[r] = "unread"
    /\ \A s \in Requests : s < r => state[s] # "unread"
    /\ Len(pending) < Capacity
    /\ pending' = Append(pending, r)
    /\ state' = [state EXCEPT ![r] = "pending"]
    /\ UNCHANGED closed

PickUp ==
    /\ pending # <<>>
    /\ ~closed
    /\ pending' = Tail(pending)
    /\ state' = [state EXCEPT ![Head(pending)] = "riding"]
    /\ UNCHANGED closed

DropOff(r) ==
    /\ state[r] = "riding"
    /\ state' = [state EXCEPT ![r] = "done"]
    /\ UNCHANGED <<pending, closed>>

Close ==
    /\ \A r \in Requests : state[r] = "done"
    /\ closed' = TRUE
    /\ UNCHANGED <<pending, state>>

Next == \/ \E r \in Requests : Accept(r) \/ DropOff(r)
        \/ PickUp
        \/ Close

Spec == Init /\ [][Next]_vars
=============================================================================
