------------------------------ MODULE Dispatch ------------------------------
(***************************************************************************)
(* pset5/dispatch/dispatch.c: a dispatcher thread reads ride requests and  *)
(* hands them through a bounded queue to driver threads.  All of struct    *)
(* world is accessed under one mutex; three condition variables tell the   *)
(* dispatcher that there is room (cond_full), the drivers that there is    *)
(* work or that they may go (cond_empty), and the dispatcher that the last *)
(* ride is over (cond_done).                                               *)
(*                                                                         *)
(* Taking the mutex is a step of its own; the code from there to the next  *)
(* pthread_mutex_unlock() or pthread_cond_wait() is one step that gives    *)
(* the mutex back, which is sound because no other thread can touch struct *)
(* world in between.  pc says where a thread is between two such steps.    *)
(***************************************************************************)
EXTENDS CircularQueue, FiniteSets

CONSTANTS
    Drivers,        \* the driver threads
    NumRequests,    \* lines on stdin
    FreedEmpty,     \* what empty() may return once the queue has been freed
    MaxSpurious,    \* bound on spurious wakeups of pthread_cond_wait()
    Dispatcher,     \* the dispatcher thread
    Nobody          \* owner of a free mutex

ASSUME DispatchAssumption ==
    /\ IsFiniteSet(Drivers)
    /\ Drivers # {}
    /\ NumRequests \in Nat
    /\ FreedEmpty \subseteq BOOLEAN
    /\ FreedEmpty # {}
    /\ MaxSpurious \in Nat
    /\ Dispatcher \notin Drivers
    /\ Nobody \notin Drivers \cup {Dispatcher}

Threads == Drivers \cup {Dispatcher}
Requests == 1 .. NumRequests    \* a request_t is the number of its line
NoRequest == 0                  \* a driver with no request; malloc's garbage

DispatcherLabels == {"getline", "dispatch", "cond_full", "wake_full",
                     "redispatch", "closing", "cond_done", "wake_done", "exited"}
DriverLabels == {"idle", "check", "cond_empty", "drive", "finish", "account",
                 "exited"}

VARIABLES
    lock,           \* world.lock: its owner
    pc,             \* where each thread is
    request_queue,  \* world.request_queue: the struct queue61 ...
    queue_live,     \* ... and whether it is still allocated
    total_rides, rides_done, dispatch_done, exit_drivers,
    next_line,      \* the line getline() returns next
    curr_req,       \* each driver's curr_req
    responded,      \* stdout: the customers drive() responded to, in order
    crashed,        \* a thread popped the freed queue: the process is gone
    spurious        \* spurious wakeups so far

world == <<request_queue, queue_live, total_rides, rides_done,
           dispatch_done, exit_drivers>>
vars == <<lock, pc, world, next_line, curr_req, responded, crashed, spurious>>

Init ==
    /\ lock = Nobody
    /\ pc = [t \in Threads |-> IF t = Dispatcher THEN "getline" ELSE "idle"]
    /\ request_queue = QueueInit(NoRequest)
    /\ queue_live = TRUE
    /\ total_rides = 0
    /\ rides_done = 0
    /\ dispatch_done = FALSE
    /\ exit_drivers = FALSE
    /\ next_line = 1
    /\ curr_req = [d \in Drivers |-> NoRequest]
    /\ responded = <<>>
    /\ crashed = FALSE
    /\ spurious = 0

-----------------------------------------------------------------------------
(* pthreads *)

Waiters(cond) == {t \in Threads : pc[t] = cond}

\* Where a thread that was woken from cond waits for the mutex.
Woken(cond) == CASE cond = "cond_empty" -> "idle"
                 [] cond = "cond_full"  -> "wake_full"
                 [] cond = "cond_done"  -> "wake_done"

\* Thread t goes to label after waking one waiter of cond, if there is one.
SignalThenGo(cond, t, label) ==
    IF Waiters(cond) = {}
    THEN pc' = [pc EXCEPT ![t] = label]
    ELSE \E w \in Waiters(cond) :
            pc' = [pc EXCEPT ![w] = Woken(cond), ![t] = label]

\* pthread_mutex_lock() at label from, protecting the code at label to.
Lock(t, from, to) ==
    /\ pc[t] = from
    /\ lock = Nobody
    /\ lock' = t
    /\ pc' = [pc EXCEPT ![t] = to]
    /\ UNCHANGED <<world, next_line, curr_req, responded, crashed, spurious>>

SpuriousWakeup(t) ==
    /\ spurious < MaxSpurious
    /\ pc[t] \in {"cond_empty", "cond_full", "cond_done"}
    /\ pc' = [pc EXCEPT ![t] = Woken(pc[t])]
    /\ spurious' = spurious + 1
    /\ UNCHANGED <<lock, world, next_line, curr_req, responded, crashed>>

-----------------------------------------------------------------------------
(* dispatcher_thread() and dispatch() *)

\* getline() succeeds: dispatch() takes the mutex.
ReadRequest ==
    /\ next_line <= NumRequests
    /\ Lock(Dispatcher, "getline", "dispatch")

\* getline() reports end of file.
EndOfInput ==
    /\ next_line > NumRequests
    /\ Lock(Dispatcher, "getline", "closing")

\* dispatch() without pthread_cond_signal(&state->cond_empty).
EnqueueSilently ==
    /\ lock' = Nobody
    /\ IF Size(request_queue) = MAX_QUEUE_SIZE
       THEN /\ pc' = [pc EXCEPT ![Dispatcher] = "cond_full"]
            /\ UNCHANGED <<request_queue, next_line>>
       ELSE /\ request_queue' = PushBack(request_queue, next_line)
            /\ pc' = [pc EXCEPT ![Dispatcher] = "getline"]
            /\ next_line' = next_line + 1
    /\ UNCHANGED <<queue_live, rides_done, dispatch_done, exit_drivers,
                   curr_req, responded, crashed, spurious>>

\* The rest of dispatch(), from its while on; the mutex is held.
EnqueueOrWait ==
    /\ lock' = Nobody
    /\ IF Size(request_queue) = MAX_QUEUE_SIZE
       THEN /\ pc' = [pc EXCEPT ![Dispatcher] = "cond_full"]
            /\ UNCHANGED <<request_queue, next_line>>
       ELSE /\ request_queue' = PushBack(request_queue, next_line)
            /\ SignalThenGo("cond_empty", Dispatcher, "getline")
            /\ next_line' = next_line + 1
    /\ UNCHANGED <<queue_live, rides_done, dispatch_done, exit_drivers,
                   curr_req, responded, crashed, spurious>>

Dispatch ==
    /\ pc[Dispatcher] = "dispatch"
    /\ total_rides' = total_rides + 1
    /\ EnqueueOrWait

RelockFull == Lock(Dispatcher, "wake_full", "redispatch")

\* total_rides++ inside the loop that waits for room.
DispatchRecounting ==
    /\ pc[Dispatcher] = "redispatch"
    /\ total_rides' = total_rides + 1
    /\ EnqueueOrWait

DispatchAgain ==
    /\ pc[Dispatcher] = "redispatch"
    /\ UNCHANGED total_rides
    /\ EnqueueOrWait

RelockDone == Lock(Dispatcher, "wake_done", "closing")

\* dispatcher_thread() with pthread_cond_signal() for pthread_cond_broadcast().
ClosingWithSignal ==
    /\ pc[Dispatcher] = "closing"
    /\ dispatch_done' = TRUE
    /\ lock' = Nobody
    /\ IF total_rides # rides_done
       THEN /\ pc' = [pc EXCEPT ![Dispatcher] = "cond_done"]
            /\ UNCHANGED exit_drivers
       ELSE /\ exit_drivers' = TRUE
            /\ SignalThenGo("cond_empty", Dispatcher, "exited")
    /\ UNCHANGED <<request_queue, queue_live, total_rides, rides_done,
                   next_line, curr_req, responded, crashed, spurious>>

\* dispatcher_thread() after its loop: wait for the rides, let drivers go.
Closing ==
    /\ pc[Dispatcher] = "closing"
    /\ dispatch_done' = TRUE
    /\ lock' = Nobody
    /\ IF total_rides # rides_done
       THEN /\ pc' = [pc EXCEPT ![Dispatcher] = "cond_done"]
            /\ UNCHANGED exit_drivers
       ELSE /\ exit_drivers' = TRUE
            /\ pc' = [t \in Threads |->
                        IF t = Dispatcher THEN "exited"
                        ELSE IF pc[t] = "cond_empty" THEN Woken("cond_empty")
                        ELSE pc[t]]
    /\ UNCHANGED <<request_queue, queue_live, total_rides, rides_done,
                   next_line, curr_req, responded, crashed, spurious>>

-----------------------------------------------------------------------------
(* driver_thread() *)

LockIdle(d) == Lock(d, "idle", "check")

\* empty(state->request_queue), on freed memory once the queue is freed.
SeesEmpty(d) ==
    IF queue_live THEN {Empty(request_queue)} ELSE FreedEmpty

WaitForWork(d) ==
    /\ pc[d] = "check"
    /\ TRUE \in SeesEmpty(d)
    /\ ~exit_drivers
    /\ lock' = Nobody
    /\ pc' = [pc EXCEPT ![d] = "cond_empty"]
    /\ UNCHANGED <<world, next_line, curr_req, responded, crashed, spurious>>

\* A break that does not give the mutex back.
GoHomeLocked(d) ==
    /\ pc[d] = "check"
    /\ exit_drivers
    /\ pc' = [pc EXCEPT ![d] = "exited"]
    /\ UNCHANGED <<lock, world, next_line, curr_req, responded, crashed, spurious>>

GoHome(d) ==
    /\ pc[d] = "check"
    /\ exit_drivers
    /\ lock' = Nobody
    /\ pc' = [pc EXCEPT ![d] = "exited"]
    /\ UNCHANGED <<world, next_line, curr_req, responded, crashed, spurious>>

\* pop_front() without pthread_cond_signal(&state->cond_full).
TakeSilently(d) ==
    /\ pc[d] = "check"
    /\ FALSE \in SeesEmpty(d)
    /\ ~exit_drivers
    /\ queue_live
    /\ curr_req' = [curr_req EXCEPT ![d] = Front(request_queue)]
    /\ request_queue' = PopFront(request_queue)
    /\ pc' = [pc EXCEPT ![d] = "drive"]
    /\ lock' = Nobody
    /\ UNCHANGED <<queue_live, total_rides, rides_done, dispatch_done,
                   exit_drivers, next_line, responded, crashed, spurious>>

TakeRequest(d) ==
    /\ pc[d] = "check"
    /\ FALSE \in SeesEmpty(d)
    /\ ~exit_drivers
    /\ queue_live
    /\ curr_req' = [curr_req EXCEPT ![d] = Front(request_queue)]
    /\ request_queue' = PopFront(request_queue)
    /\ SignalThenGo("cond_full", d, "drive")
    /\ lock' = Nobody
    /\ UNCHANGED <<queue_live, total_rides, rides_done, dispatch_done,
                   exit_drivers, next_line, responded, crashed, spurious>>

\* pop_front() of the freed queue: an assert fails or a stray pointer is
\* followed; what the process does from here on is not modelled.
PopFreedQueue(d) ==
    /\ pc[d] = "check"
    /\ FALSE \in SeesEmpty(d)
    /\ ~exit_drivers
    /\ ~queue_live
    /\ crashed' = TRUE
    /\ UNCHANGED <<lock, pc, world, next_line, curr_req, responded, spurious>>

Drive(d) ==
    /\ pc[d] = "drive"
    /\ responded' = Append(responded, curr_req[d])
    /\ pc' = [pc EXCEPT ![d] = "finish"]
    /\ UNCHANGED <<lock, world, next_line, curr_req, crashed, spurious>>

LockFinish(d) == Lock(d, "finish", "account")

\* The queue is freed whenever all rides counted so far are done.
AccountIgnoringInput(d) ==
    /\ pc[d] = "account"
    /\ rides_done' = rides_done + 1
    /\ curr_req' = [curr_req EXCEPT ![d] = NoRequest]
    /\ lock' = Nobody
    /\ IF rides_done' = total_rides
       THEN /\ queue_live' = FALSE
            /\ SignalThenGo("cond_done", d, "exited")
       ELSE /\ pc' = [pc EXCEPT ![d] = "idle"]
            /\ UNCHANGED queue_live
    /\ UNCHANGED <<request_queue, total_rides, dispatch_done, exit_drivers,
                   next_line, responded, crashed, spurious>>

Account(d) ==
    /\ pc[d] = "account"
    /\ rides_done' = rides_done + 1
    /\ curr_req' = [curr_req EXCEPT ![d] = NoRequest]
    /\ lock' = Nobody
    /\ IF dispatch_done /\ rides_done' = total_rides
       THEN /\ queue_live' = FALSE
            /\ SignalThenGo("cond_done", d, "exited")
       ELSE /\ pc' = [pc EXCEPT ![d] = "idle"]
            /\ UNCHANGED queue_live
    /\ UNCHANGED <<request_queue, total_rides, dispatch_done, exit_drivers,
                   next_line, responded, crashed, spurious>>

-----------------------------------------------------------------------------
DispatcherStep ==
    \/ ReadRequest \/ EndOfInput
    \/ Dispatch \/ RelockFull \/ DispatchAgain
    \/ RelockDone \/ Closing

DriverStep(d) ==
    \/ LockIdle(d) \/ WaitForWork(d) \/ GoHome(d) \/ TakeRequest(d)
    \/ PopFreedQueue(d) \/ Drive(d) \/ LockFinish(d) \/ Account(d)

AllExited == \A t \in Threads : pc[t] = "exited"

\* main() has joined every thread, or the process was killed.
Stopped == (AllExited \/ crashed) /\ UNCHANGED vars

Next ==
    \/ /\ ~crashed
       /\ \/ DispatcherStep
          \/ \E d \in Drivers : DriverStep(d)
          \/ \E t \in Threads : SpuriousWakeup(t)
    \/ Stopped

(***************************************************************************)
(* The scheduler runs every thread that can run; no thread takes the mutex *)
(* infinitely often (the input is finite), so weak fairness is enough for  *)
(* a thread to get it.  Spurious wakeups are never owed.                   *)
(***************************************************************************)
Fairness ==
    /\ WF_vars(~crashed /\ DispatcherStep)
    /\ \A d \in Drivers : WF_vars(~crashed /\ DriverStep(d))

Spec == Init /\ [][Next]_vars
FairSpec == Spec /\ Fairness
-----------------------------------------------------------------------------
(* Properties *)

InCriticalSection(t) ==
    pc[t] \in {"dispatch", "redispatch", "closing", "check", "account"}

DriversAt(labels) == {d \in Drivers : pc[d] \in labels}
Riding == {d \in Drivers : curr_req[d] # NoRequest}

\* dispatch() has counted a request that it could not queue yet.
HoldsRequest == pc[Dispatcher] \in {"cond_full", "wake_full", "redispatch"}

(* TypeOK: struct world, the locals of the threads and their places keep   *)
(* their types.                                                            *)
TypeOK ==
    /\ lock \in Threads \cup {Nobody}
    /\ pc \in [Threads -> DispatcherLabels \cup DriverLabels]
    /\ pc[Dispatcher] \in DispatcherLabels
    /\ \A d \in Drivers : pc[d] \in DriverLabels
    /\ request_queue \in Queues(Requests \cup {NoRequest})
    /\ queue_live \in BOOLEAN
    /\ total_rides \in 0 .. NumRequests
    /\ rides_done \in 0 .. NumRequests
    /\ dispatch_done \in BOOLEAN
    /\ exit_drivers \in BOOLEAN
    /\ next_line \in 1 .. NumRequests + 1
    /\ curr_req \in [Drivers -> Requests \cup {NoRequest}]
    /\ responded \in Seq(Requests)
    /\ crashed \in BOOLEAN
    /\ spurious \in 0 .. MaxSpurious

(* MutexHeld: exactly the thread inside a critical section owns the mutex: *)
(* every path out of dispatch(), dispatcher_thread() and driver_thread(),  *)
(* the breaks included, gives it back, and two threads are never inside.   *)
MutexHeld ==
    \A t \in Threads : lock = t <=> InCriticalSection(t)

(* RidesAccounted: the two counters, incremented in different threads at   *)
(* different times (total_rides before dispatch() waits for room), always  *)
(* differ by the rides that are waiting for room, queued or being driven,  *)
(* so total_rides == rides_done really means that nothing is left to do.   *)
RidesAccounted ==
    total_rides = rides_done + Size(request_queue) + Cardinality(Riding)
                    + IF HoldsRequest THEN 1 ELSE 0

(* NoMissedWakeup: no thread sleeps on a condition that already holds: the *)
(* dispatcher waits for room only while the queue is full and for the last *)
(* ride only while one is left, whatever woke up or finished in between.   *)
NoMissedWakeup ==
    /\ pc[Dispatcher] = "cond_full" => Size(request_queue) = MAX_QUEUE_SIZE
    /\ pc[Dispatcher] = "cond_done" => total_rides # rides_done

(* NoIdleBacklog: one pthread_cond_signal() per push_back() is enough: as  *)
(* long as a driver sleeps on cond_empty, each queued request has an awake *)
(* driver on its way to the queue.                                         *)
NoIdleBacklog ==
    DriversAt({"cond_empty"}) # {} /\ ~crashed =>
        Size(request_queue) <= Cardinality(DriversAt({"idle", "check"}))

(* AnsweredOnce: no customer gets two responses, and when main() has       *)
(* joined all threads each has got one (what check.py tests of a run).     *)
AnsweredOnce ==
    /\ \A i, j \in DOMAIN responded : responded[i] = responded[j] => i = j
    /\ AllExited => {responded[i] : i \in DOMAIN responded} = Requests

(* ExitAfterLastRide: drivers are told to go and the queue is freed only   *)
(* when the input is exhausted, nothing is queued and nobody is driving,   *)
(* so no request is abandoned and the queue is not freed twice.            *)
ExitAfterLastRide ==
    exit_drivers \/ ~queue_live =>
        /\ dispatch_done
        /\ next_line = NumRequests + 1
        /\ Empty(request_queue)
        /\ DriversAt({"drive", "finish", "account"}) = {}

(* ImplementsRideService: threads, locks and condition variables together  *)
(* behave as the abstract ride service: in-order acceptance, pick-up first *)
(* come first served, one ride per request, and closing after the last.    *)
RequestState(r) ==
    IF r >= next_line THEN "unread"
    ELSE IF \E d \in Drivers : curr_req[d] = r THEN "riding"
    ELSE IF \E i \in 1 .. Size(request_queue) : Contents(request_queue)[i] = r THEN "pending"
    ELSE "done"

Service == INSTANCE RideService
    WITH Capacity <- MAX_QUEUE_SIZE,
         pending <- Contents(request_queue),
         state <- [r \in Requests |-> RequestState(r)],
         closed <- exit_drivers

ImplementsRideService == Service!Spec

(* EveryoneLeaves: all threads end, or the process was killed by a pop of  *)
(* the freed queue; no driver and no dispatcher sleeps for ever.           *)
EveryoneLeaves == <>(AllExited \/ crashed)

(* PopsLiveQueueOnly: drivers that are still running after the last ride   *)
(* see exit_drivers and leave (dispatch.c, the comment before init_world); *)
(* none of them pops again.  The code does not guarantee it.               *)
PopsLiveQueueOnly == ~crashed
=============================================================================
