--------------------------- MODULE DispatchProofs ---------------------------
(***************************************************************************)
(* Safety of the dispatcher for any number of drivers and requests, any    *)
(* queue size and any behaviour of freed memory and spurious wakeups.      *)
(***************************************************************************)
EXTENDS Dispatch, SequenceTheorems, FiniteSetTheorems, TLAPS

(***************************************************************************)
(* The operators of CircularQueue, for every buffer size that meets        *)
(* QueueSizesAssumption: size() counts the payloads between head and tail  *)
(* in spite of the two wraps, and push_back() and pop_front() are Append   *)
(* and Head/Tail on Contents.                                              *)
(***************************************************************************)

(* ModMultiple: a remainder is not changed by adding multiples of the      *)
(* divisor; the arithmetic fact behind the unsigned subtraction of size(). *)
LEMMA ModMultiple ==
    ASSUME NEW n \in Nat \ {0}, NEW k \in Nat, NEW b \in 0 .. n-1
    PROVE  (k * n + b) % n = b
  <1> DEFINE x == k * n + b
             d == x \div n
             r == x % n
  <1>1. k * n \in Nat
    BY SMT
  <1>2. x \in Nat /\ d \in Int /\ r \in 0 .. n-1 /\ x = n * d + r
    BY <1>1, SMT
  <1>3. n * (k - d) = r - b
    BY <1>1, <1>2, SMT
  <1>4. k - d = 0
    <2>1. CASE k - d >= 1
      <3>1. n * (k - d) >= n
        BY <2>1, <1>2, SMT
      <3> QED BY <3>1, <1>2, <1>3, SMT
    <2>2. CASE k - d <= -1
      <3>1. n * (k - d) <= -n
        BY <2>2, <1>2, SMT
      <3> QED BY <3>1, <1>2, <1>3, SMT
    <2> QED BY <2>1, <2>2, <1>2, SMT
  <1> QED BY <1>1, <1>2, <1>3, <1>4, SMT

(* ModNegative: when tail is below head the unsigned difference is huge,   *)
(* and its remainder is still the number of slots in between, because the  *)
(* buffer length n divides the range w of an unsigned int.                 *)
LEMMA ModNegative ==
    ASSUME NEW n \in Nat \ {0}, NEW w \in Nat \ {0}, w % n = 0,
           NEW a \in 1 .. n-1
    PROVE  ((-a) % w) % n = n - a
  <1> DEFINE k == w \div n
  <1>1. k \in Nat /\ w = n * k
    BY SMT
  <1>2. k >= 1 /\ w >= n
    BY <1>1, SMT
  <1>3. (-a) % w = w - a
    BY <1>2, SMT
  <1>4. w - a = (k - 1) * n + (n - a)
    BY <1>1, <1>2, SMT
  <1>5. ((k - 1) * n + (n - a)) % n = n - a
    <2>1. k - 1 \in Nat /\ n - a \in 0 .. n-1
      BY <1>2, <1>1, SMT
    <2> QED BY <2>1, ModMultiple
  <1> QED BY <1>3, <1>4, <1>5

(* WrapValue: the slot of an index that has run past the end of the array  *)
(* at most once, as push_back() and pop_front() compute it.                *)
LEMMA WrapValue ==
    ASSUME NEW i \in Nat, i <= 2 * QUEUE_BUF_SIZE + 1
    PROVE  /\ i % NSlots = IF i <= QUEUE_BUF_SIZE THEN i ELSE i - NSlots
           /\ i % NSlots \in Slots
  <1>1. NSlots \in Nat \ {0} /\ NSlots = QUEUE_BUF_SIZE + 1 /\ QUEUE_BUF_SIZE \in Nat
    BY QueueSizesAssumption DEF NSlots
  <1>2. CASE i <= QUEUE_BUF_SIZE
    <2>1. i % NSlots = i
      BY <1>1, <1>2, SMT
    <2> QED BY <2>1, <1>1, <1>2 DEF Slots
  <1>3. CASE i > QUEUE_BUF_SIZE
    <2>1. i - NSlots \in 0 .. NSlots-1
      BY <1>1, <1>3
    <2>2. i % NSlots = i - NSlots
      BY <1>1, <2>1, SMT
    <2> QED BY <2>1, <2>2, <1>1, <1>3 DEF Slots
  <1> QED BY <1>1, <1>2, <1>3

(* SlotFacts: what the type of a queue says of its indices.                *)
LEMMA SlotFacts ==
    ASSUME NEW P, NEW q \in Queues(P)
    PROVE  /\ q.head \in Slots /\ q.tail \in Slots
           /\ q.head \in Nat /\ q.head <= QUEUE_BUF_SIZE
           /\ q.tail \in Nat /\ q.tail <= QUEUE_BUF_SIZE
           /\ q.array \in [Slots -> P]
           /\ QUEUE_BUF_SIZE \in Nat \ {0}
           /\ NSlots = QUEUE_BUF_SIZE + 1
  BY QueueSizesAssumption DEF Queues, Slots, NSlots

-----------------------------------------------------------------------------
(* SizeValue: size() (queue.c) is the distance from head to tail around    *)
(* the buffer, on either side of the wrap.                                 *)
LEMMA SizeValue ==
    ASSUME NEW q, q.head \in Slots, q.tail \in Slots
    PROVE  /\ Size(q) = IF q.head <= q.tail THEN q.tail - q.head
                                            ELSE q.tail - q.head + NSlots
           /\ Size(q) \in Slots
  <1> DEFINE h == q.head
             t == q.tail
  <1> SUFFICES Size(q) = IF h <= t THEN t - h ELSE t - h + NSlots
    BY QueueSizesAssumption DEF Slots, NSlots
  <1>1. NSlots \in Nat \ {0} /\ h \in 0 .. NSlots-1 /\ t \in 0 .. NSlots-1
    BY QueueSizesAssumption DEF Slots, NSlots
  <1>2. NSlots <= UINT
    <2> DEFINE k == UINT \div NSlots
    <2>1. k \in Nat /\ UINT = NSlots * k
      BY <1>1, QueueSizesAssumption, SMT
    <2> QED BY <2>1, <1>1, QueueSizesAssumption, SMT
  <1>3. CASE h <= t
    <2>1. t - h \in 0 .. NSlots-1
      BY <1>1, <1>3
    <2>2. (t - h) % UINT = t - h
      BY <2>1, <1>1, <1>2, QueueSizesAssumption, SMT
    <2>3. (t - h) % NSlots = t - h
      BY <2>1, <1>1, SMT
    <2> QED BY <2>2, <2>3, <1>3 DEF Size
  <1>4. CASE t < h
    <2>1. h - t \in 1 .. NSlots-1
      BY <1>1, <1>4
    <2>2. ((-(h - t)) % UINT) % NSlots = NSlots - (h - t)
      BY <2>1, <1>1, QueueSizesAssumption, ModNegative
    <2>3. t - h = -(h - t) /\ NSlots - (h - t) = t - h + NSlots
      BY <1>1
    <2> QED BY <2>2, <2>3, <1>4, <1>1 DEF Size
  <1> QED BY <1>1, <1>3, <1>4

(* EmptyValue: the two tests of the queue that the threads use, empty()    *)
(* and size() == 0, agree with Contents.                                   *)
LEMMA EmptyValue ==
    ASSUME NEW q, q.head \in Slots, q.tail \in Slots
    PROVE  /\ Empty(q) <=> Size(q) = 0
           /\ Empty(q) <=> Contents(q) = <<>>
  <1>1. q.head \in Int /\ q.tail \in Int /\ NSlots \in Nat
        /\ q.head < NSlots /\ q.tail >= 0
    BY QueueSizesAssumption DEF Slots, NSlots
  <1>2. Empty(q) <=> Size(q) = 0
    BY SizeValue, <1>1 DEF Empty
  <1>3. Size(q) = 0 <=> Contents(q) = <<>>
    <2>1. Size(q) \in Nat
      BY SizeValue, QueueSizesAssumption DEF Slots
    <2>2. DOMAIN Contents(q) = 1 .. Size(q)
      BY DEF Contents
    <2>3. Contents(q) = <<>> => DOMAIN Contents(q) = {}
      OBVIOUS
    <2>4. Size(q) = 0 => Contents(q) = <<>>
      BY DEF Contents
    <2> QED BY <2>1, <2>2, <2>3, <2>4
  <1> QED BY <1>2, <1>3

(* ContentsType: the payloads between head and tail form a sequence of     *)
(* length size().                                                          *)
LEMMA ContentsType ==
    ASSUME NEW P, NEW q \in Queues(P)
    PROVE  /\ Contents(q) \in Seq(P)
           /\ Len(Contents(q)) = Size(q)
           /\ Size(q) \in Nat
           /\ DOMAIN Contents(q) = 1 .. Size(q)
  <1>1. q.head \in Nat /\ q.head <= QUEUE_BUF_SIZE /\ QUEUE_BUF_SIZE \in Nat
        /\ q.array \in [Slots -> P]
    BY SlotFacts
  <1>2. Size(q) \in Nat /\ Size(q) <= QUEUE_BUF_SIZE
    BY SlotFacts, SizeValue DEF Slots
  <1>3. ASSUME NEW i \in 1 .. Size(q)
        PROVE  q.array[(q.head + i - 1) % NSlots] \in P
    <2>1. q.head + i - 1 \in Nat /\ q.head + i - 1 <= 2 * QUEUE_BUF_SIZE + 1
      BY <1>1, <1>2
    <2>2. (q.head + i - 1) % NSlots \in Slots
      BY <2>1, WrapValue
    <2> QED BY <2>2, <1>1
  <1>4. Contents(q) \in [1 .. Size(q) -> P]
    BY <1>3 DEF Contents
  <1> QED BY <1>2, <1>4

(* PushBackValue: push_back() of queue.c below MAX_QUEUE_SIZE appends its  *)
(* payload, on either side of the wrap of tail.                            *)
LEMMA PushBackValue ==
    ASSUME NEW P, NEW q \in Queues(P), NEW p \in P,
           Size(q) < MAX_QUEUE_SIZE
    PROVE  /\ PushBack(q, p) \in Queues(P)
           /\ Size(PushBack(q, p)) = Size(q) + 1
           /\ Contents(PushBack(q, p)) = Append(Contents(q), p)
  <1> DEFINE r == PushBack(q, p)
             next == (q.tail + 1) % NSlots
  <1>1. /\ q.head \in Slots /\ q.tail \in Slots
        /\ q.head \in Nat /\ q.head <= QUEUE_BUF_SIZE
        /\ q.tail \in Nat /\ q.tail <= QUEUE_BUF_SIZE
        /\ q.array \in [Slots -> P]
        /\ QUEUE_BUF_SIZE \in Nat \ {0} /\ NSlots = QUEUE_BUF_SIZE + 1
    BY SlotFacts
  <1>2. /\ next = IF q.tail + 1 <= QUEUE_BUF_SIZE THEN q.tail + 1 ELSE 0
        /\ next \in Slots
    <2>1. q.tail + 1 \in Nat /\ q.tail + 1 <= 2 * QUEUE_BUF_SIZE + 1
      BY <1>1
    <2> QED BY <2>1, <1>1, WrapValue
  <1>3. /\ r = [head |-> q.head, tail |-> next,
                array |-> [q.array EXCEPT ![q.tail] = p]]
        /\ r \in Queues(P)
    <2> HIDE DEF next
    <2>1. r = [q EXCEPT !.array[q.tail] = p, !.tail = next]
      BY DEF PushBack, next
    <2> HIDE DEF r
    <2> DEFINE a == [q.array EXCEPT ![q.tail] = p]
    <2>2. a \in [Slots -> P]
      BY <1>1
    <2>3. q = [head |-> q.head, tail |-> q.tail, array |-> q.array]
      BY DEF Queues
    <2>4. r = [head |-> q.head, tail |-> next, array |-> a]
      BY <2>1, <2>3
    <2> QED BY <2>2, <2>4, <1>1, <1>2 DEF Queues
  <1>4. /\ r.head = q.head /\ r.tail = next
        /\ r.array = [q.array EXCEPT ![q.tail] = p]
    BY <1>3
  <1> HIDE DEF r, next
  <1>5. r.head \in Slots /\ r.tail \in Slots
    BY <1>3 DEF Queues
  <1>6. /\ Size(q) \in Nat /\ Size(q) < QUEUE_BUF_SIZE
        /\ Size(q) = IF q.head <= q.tail THEN q.tail - q.head
                                         ELSE q.tail - q.head + NSlots
    BY SizeValue, <1>1, QueueSizesAssumption DEF Slots
  <1>7. Size(r) = Size(q) + 1
    BY <1>1, <1>2, <1>4, <1>5, <1>6, SizeValue
  <1>8. ASSUME NEW i \in 1 .. Size(q) + 1
        PROVE  r.array[(r.head + i - 1) % NSlots]
                 = IF i = Size(q) + 1 THEN p
                   ELSE q.array[(q.head + i - 1) % NSlots]
    <2> DEFINE j == q.head + i - 1
               s == j % NSlots
    <2>1. j \in Nat /\ j <= 2 * QUEUE_BUF_SIZE + 1
      BY <1>1, <1>6
    <2>2. /\ s = IF j <= QUEUE_BUF_SIZE THEN j ELSE j - NSlots
          /\ s \in Slots
      BY <2>1, WrapValue
    <2>3. s = q.tail <=> i = Size(q) + 1
      <3> HIDE DEF s
      <3> QED BY <2>1, <2>2, <1>1, <1>6
    <2>4. r.head + i - 1 = j
      BY <1>4
    <2>5. r.array[s] = IF s = q.tail THEN p ELSE q.array[s]
      BY <2>2, <1>1, <1>4
    <2> QED BY <2>3, <2>4, <2>5
  <1>9. Contents(r) = Append(Contents(q), p)
    <2>1. /\ Contents(q) \in Seq(P) /\ Len(Contents(q)) = Size(q)
          /\ Contents(r) \in Seq(P) /\ Len(Contents(r)) = Size(r)
      BY <1>3, ContentsType
    <2>2. /\ Append(Contents(q), p) \in Seq(P)
          /\ Len(Append(Contents(q), p)) = Size(q) + 1
          /\ \A i \in 1 .. Size(q) + 1 : Append(Contents(q), p)[i]
                = IF i = Size(q) + 1 THEN p ELSE Contents(q)[i]
      BY <2>1, <1>6
    <2>3. \A i \in 1 .. Size(q) :
             Contents(q)[i] = q.array[(q.head + i - 1) % NSlots]
      BY DEF Contents
    <2>4. \A i \in 1 .. Size(q) + 1 :
             Contents(r)[i] = r.array[(r.head + i - 1) % NSlots]
      BY <1>7 DEF Contents
    <2>5. \A i \in 1 .. Size(q) + 1 :
             Contents(r)[i] = Append(Contents(q), p)[i]
      BY <1>6, <1>8, <2>2, <2>3, <2>4
    <2> QED BY <1>6, <1>7, <2>1, <2>2, <2>5, SeqEqual
  <1> QED BY <1>3, <1>7, <1>9 DEF r

(* PopFrontValue: pop_front() of queue.c on a non-empty queue returns and  *)
(* removes the oldest payload, on either side of the wrap of head.         *)
LEMMA PopFrontValue ==
    ASSUME NEW P, NEW q \in Queues(P), ~Empty(q)
    PROVE  /\ PopFront(q) \in Queues(P)
           /\ Size(PopFront(q)) = Size(q) - 1
           /\ Front(q) = Head(Contents(q))
           /\ Front(q) \in P
           /\ Contents(PopFront(q)) = Tail(Contents(q))
  <1> DEFINE r == PopFront(q)
             next == (q.head + 1) % NSlots
  <1>1. /\ q.head \in Slots /\ q.tail \in Slots
        /\ q.head \in Nat /\ q.head <= QUEUE_BUF_SIZE
        /\ q.tail \in Nat /\ q.tail <= QUEUE_BUF_SIZE
        /\ q.array \in [Slots -> P]
        /\ QUEUE_BUF_SIZE \in Nat \ {0} /\ NSlots = QUEUE_BUF_SIZE + 1
    BY SlotFacts
  <1>2. /\ next = IF q.head + 1 <= QUEUE_BUF_SIZE THEN q.head + 1 ELSE 0
        /\ next \in Slots
    <2>1. q.head + 1 \in Nat /\ q.head + 1 <= 2 * QUEUE_BUF_SIZE + 1
      BY <1>1
    <2> QED BY <2>1, <1>1, WrapValue
  <1>3. /\ r = [head |-> next, tail |-> q.tail, array |-> q.array]
        /\ r \in Queues(P)
    <2> HIDE DEF next
    <2>1. r = [q EXCEPT !.head = next]
      BY DEF PopFront, next
    <2> QED BY <2>1, <1>1, <1>2 DEF Queues
  <1>4. r.head = next /\ r.tail = q.tail /\ r.array = q.array
    BY <1>3
  <1> HIDE DEF r, next
  <1>5. /\ Contents(q) \in Seq(P) /\ Len(Contents(q)) = Size(q)
        /\ Contents(r) \in Seq(P) /\ Len(Contents(r)) = Size(r)
    BY <1>3, ContentsType
  <1>6. /\ Size(q) \in Nat \ {0} /\ Size(q) <= QUEUE_BUF_SIZE
        /\ Size(q) = IF q.head <= q.tail THEN q.tail - q.head
                                         ELSE q.tail - q.head + NSlots
    BY SizeValue, EmptyValue, <1>1 DEF Slots
  <1>7. Size(r) = Size(q) - 1
    <2>1. r.head \in Slots /\ r.tail \in Slots
      BY <1>3 DEF Queues
    <2> QED BY <2>1, <1>1, <1>2, <1>4, <1>6, SizeValue
  <1>8. Front(q) = Head(Contents(q)) /\ Front(q) \in P
    <2>1. q.head % NSlots = q.head
      <3>1. q.head <= 2 * QUEUE_BUF_SIZE + 1
        BY <1>1
      <3> QED BY <3>1, <1>1, WrapValue
    <2>2. Contents(q)[1] = q.array[(q.head + 1 - 1) % NSlots]
      BY <1>6 DEF Contents
    <2>3. q.head + 1 - 1 = q.head
      BY <1>1
    <2> QED BY <2>1, <2>2, <2>3, <1>1, <1>5, <1>6 DEF Front
  <1>9. ASSUME NEW i \in 1 .. Size(r)
        PROVE  Contents(r)[i] = Contents(q)[i + 1]
    <2> DEFINE j == r.head + i - 1
               k == q.head + (i + 1) - 1
               m == j % NSlots
               n == k % NSlots
    <2>1. /\ Contents(r)[i] = q.array[m]
          /\ Contents(q)[i + 1] = q.array[n]
      BY <1>4, <1>6, <1>7 DEF Contents
    <2>2. /\ j \in Nat /\ j <= 2 * QUEUE_BUF_SIZE + 1
          /\ k \in Nat /\ k <= 2 * QUEUE_BUF_SIZE + 1
      BY <1>1, <1>2, <1>4, <1>6, <1>7
    <2>3. /\ m = IF j <= QUEUE_BUF_SIZE THEN j ELSE j - NSlots
          /\ n = IF k <= QUEUE_BUF_SIZE THEN k ELSE k - NSlots
      BY <2>2, WrapValue
    <2>4. m = n
      <3> HIDE DEF m, n
      <3> QED BY <2>3, <1>1, <1>2, <1>4, <1>6, <1>7
    <2> QED BY <2>1, <2>4
  <1>10. Contents(r) = Tail(Contents(q))
    <2>1. /\ Tail(Contents(q)) \in Seq(P)
          /\ Len(Tail(Contents(q))) = Size(q) - 1
          /\ \A i \in 1 .. Size(q) - 1 : Tail(Contents(q))[i] = Contents(q)[i + 1]
      BY <1>5, <1>6
    <2> QED BY <2>1, <1>5, <1>7, <1>9, SeqEqual
  <1> QED BY <1>3, <1>7, <1>8, <1>10 DEF r

(* QueueInitValue: queue_init() leaves an empty queue whatever the array   *)
(* holds.                                                                  *)
LEMMA QueueInitValue ==
    ASSUME NEW P, NEW g \in P
    PROVE  /\ QueueInit(g) \in Queues(P)
           /\ Empty(QueueInit(g))
           /\ Size(QueueInit(g)) = 0
           /\ Contents(QueueInit(g)) = <<>>
  <1>1. QueueInit(g) \in Queues(P) /\ Empty(QueueInit(g))
    BY QueueSizesAssumption DEF QueueInit, Queues, Empty, Slots
  <1>2. QueueInit(g).head \in Slots /\ QueueInit(g).tail \in Slots
    BY <1>1 DEF Queues
  <1> QED BY <1>1, <1>2, EmptyValue

-----------------------------------------------------------------------------
(* The dispatcher *)

StoredRequests == Requests \cup {NoRequest}

(***************************************************************************)
(* The inductive invariant.  RidesAccounted by itself is not inductive: it *)
(* needs to know that what pop_front() returns is a request and not the    *)
(* garbage of an unused slot (QueueHoldsRequests), which drivers have one  *)
(* in hand (HandsFull), and how far the input has been read               *)
(* (InputProgress); LastRideOver then ties the end of the threads to it.   *)
(***************************************************************************)
QueueHoldsRequests ==
    /\ Size(request_queue) <= MAX_QUEUE_SIZE
    /\ Contents(request_queue) \in Seq(Requests)

HandsFull ==
    \A d \in Drivers :
        curr_req[d] # NoRequest <=> pc[d] \in {"drive", "finish", "account"}

AtEnd == pc[Dispatcher] \in {"closing", "cond_done", "wake_done", "exited"}

InputProgress ==
    /\ total_rides = next_line - 1 + IF HoldsRequest THEN 1 ELSE 0
    /\ pc[Dispatcher] = "dispatch" \/ HoldsRequest => next_line <= NumRequests
    /\ AtEnd => next_line = NumRequests + 1
    /\ dispatch_done => AtEnd

LastRideOver ==
    exit_drivers \/ ~queue_live => dispatch_done /\ total_rides = rides_done

IInv ==
    /\ TypeOK
    /\ MutexHeld
    /\ QueueHoldsRequests
    /\ HandsFull
    /\ RidesAccounted
    /\ InputProgress
    /\ LastRideOver

-----------------------------------------------------------------------------
(* ThreadFacts: the labels of the two kinds of threads differ, so do the   *)
(* threads.                                                                *)
LEMMA ThreadFacts ==
    /\ Dispatcher \in Threads /\ Dispatcher \notin Drivers
    /\ \A d \in Drivers : d \in Threads /\ d # Dispatcher
    /\ Nobody \notin Threads
    /\ IsFiniteSet(Drivers) /\ NumRequests \in Nat /\ MaxSpurious \in Nat
  BY DispatchAssumption DEF Threads

(* RidingFinite: the drivers on a ride can be counted.                     *)
LEMMA RidingFinite == IsFiniteSet(Riding) /\ Cardinality(Riding) \in Nat
  BY ThreadFacts, FS_Subset, FS_CardinalityType DEF Riding

(* SignalEffect: pthread_cond_signal() moves at most one thread, from the  *)
(* condition variable to the mutex it has to take again.                   *)
LEMMA SignalEffect ==
    ASSUME NEW cond \in {"cond_empty", "cond_full", "cond_done"},
           NEW t \in Threads, NEW label,
           DOMAIN pc = Threads, pc[t] # cond,
           pc \in [Threads -> DispatcherLabels \cup DriverLabels],
           label \in DispatcherLabels \cup DriverLabels,
           SignalThenGo(cond, t, label)
    PROVE  /\ pc' \in [Threads -> DispatcherLabels \cup DriverLabels]
           /\ pc'[t] = label
           /\ \A u \in Threads \ {t} :
                \/ pc'[u] = pc[u]
                \/ pc[u] = cond /\ pc'[u] = Woken(cond)
  <1>1. Woken(cond) \in DispatcherLabels \cup DriverLabels
    BY DEF Woken, DispatcherLabels, DriverLabels
  <1>2. CASE Waiters(cond) = {}
    BY <1>2 DEF SignalThenGo
  <1>3. CASE Waiters(cond) # {}
    <2>1. PICK w \in Waiters(cond) :
            pc' = [pc EXCEPT ![w] = Woken(cond), ![t] = label]
      BY <1>3 DEF SignalThenGo
    <2>2. w \in Threads /\ pc[w] = cond /\ w # t
      BY DEF Waiters
    <2> QED BY <1>1, <2>1, <2>2
  <1> QED BY <1>2, <1>3

(* InitIInv: init_world() and the creation of the threads establish it.    *)
LEMMA InitIInv == Init => IInv
  <1> SUFFICES ASSUME Init PROVE IInv
    OBVIOUS
  <1> USE ThreadFacts DEF Init
  <1>1. /\ request_queue \in Queues(StoredRequests)
        /\ Size(request_queue) = 0 /\ Contents(request_queue) = <<>>
    <2>1. NoRequest \in StoredRequests
      BY DEF StoredRequests
    <2> QED BY <2>1, QueueInitValue
  <1>2. /\ pc \in [Threads -> DispatcherLabels \cup DriverLabels]
        /\ pc[Dispatcher] = "getline"
        /\ \A d \in Drivers : pc[d] = "idle"
    BY DEF DispatcherLabels, DriverLabels
  <1>3. TypeOK
    <2>1. curr_req \in [Drivers -> Requests \cup {NoRequest}]
      OBVIOUS
    <2>2. responded \in Seq(Requests)
      OBVIOUS
    <2>3. pc[Dispatcher] \in DispatcherLabels /\ \A d \in Drivers : pc[d] \in DriverLabels
      BY <1>2 DEF DispatcherLabels, DriverLabels
    <2>4. /\ total_rides \in 0 .. NumRequests /\ rides_done \in 0 .. NumRequests
          /\ next_line \in 1 .. NumRequests + 1 /\ spurious \in 0 .. MaxSpurious
      OBVIOUS
    <2> QED BY <1>1, <1>2, <2>1, <2>2, <2>3, <2>4 DEF TypeOK, StoredRequests
  <1>4. MutexHeld
    BY <1>2 DEF MutexHeld, InCriticalSection, Threads
  <1>5. QueueHoldsRequests
    BY <1>1, QueueSizesAssumption DEF QueueHoldsRequests
  <1>6. HandsFull
    BY <1>2 DEF HandsFull
  <1>7. RidesAccounted
    <2>1. Riding = {}
      BY DEF Riding
    <2> QED BY <1>1, <1>2, <2>1, FS_EmptySet DEF RidesAccounted, HoldsRequest
  <1>8. InputProgress /\ LastRideOver
    BY <1>2 DEF InputProgress, LastRideOver, HoldsRequest, AtEnd
  <1> QED BY <1>3, <1>4, <1>5, <1>6, <1>7, <1>8 DEF IInv
-----------------------------------------------------------------------------
(* AcquireMutex, ReleaseMutex: the two ways a step changes the owner of    *)
(* the mutex keep MutexHeld.                                               *)
LEMMA AcquireMutex ==
    ASSUME TypeOK, MutexHeld, NEW t \in Threads, NEW label,
           label \in {"dispatch", "redispatch", "closing", "check", "account"},
           lock = Nobody, lock' = t, pc' = [pc EXCEPT ![t] = label]
    PROVE  MutexHeld'
  BY ThreadFacts DEF TypeOK, MutexHeld, InCriticalSection

LEMMA ReleaseMutex ==
    ASSUME TypeOK, MutexHeld, NEW t \in Threads, InCriticalSection(t),
           lock' = Nobody,
           pc'[t] \notin {"dispatch", "redispatch", "closing", "check", "account"},
           \A u \in Threads \ {t} :
              pc'[u] = pc[u] \/ pc'[u] \in {"idle", "wake_full", "wake_done"}
    PROVE  MutexHeld'
  <1>1. ASSUME NEW u \in Threads PROVE lock' # u /\ ~InCriticalSection(u)'
    <2>1. lock = t
      BY DEF MutexHeld
    <2>2. u # t => ~InCriticalSection(u)
      BY <2>1 DEF MutexHeld
    <2> QED BY <2>2, ThreadFacts DEF InCriticalSection
  <1> QED BY <1>1 DEF MutexHeld

(* SameRides: the counters and places that the accounting speaks of are    *)
(* all unchanged.                                                          *)
LEMMA SameRides ==
    ASSUME IInv,
           UNCHANGED <<request_queue, curr_req, total_rides, rides_done, next_line>>,
           HoldsRequest' <=> HoldsRequest
    PROVE  QueueHoldsRequests' /\ RidesAccounted'
  <1>1. Size(request_queue)' = Size(request_queue)
        /\ Contents(request_queue)' = Contents(request_queue)
    BY DEF Size, Contents
  <1>2. Riding' = Riding
    BY DEF Riding
  <1>3. Cardinality(Riding)' = Cardinality(Riding)
    BY <1>2
  <1> QED BY <1>1, <1>3 DEF IInv, QueueHoldsRequests, RidesAccounted

-----------------------------------------------------------------------------
(* One lemma per kind of step.                                             *)

(* DispatcherLocks: the dispatcher takes the mutex at one of its four      *)
(* pthread_mutex_lock()s (two of them inside pthread_cond_wait()).         *)
LEMMA DispatcherLocks ==
    ASSUME IInv, ReadRequest \/ EndOfInput \/ RelockFull \/ RelockDone
    PROVE  IInv'
  <1> USE DEF IInv
  <1>1. PICK label \in {"dispatch", "redispatch", "closing"} :
            /\ lock = Nobody /\ lock' = Dispatcher
            /\ pc' = [pc EXCEPT ![Dispatcher] = label]
            /\ \/ pc[Dispatcher] = "getline" /\ label = "dispatch" /\ next_line <= NumRequests
               \/ pc[Dispatcher] = "getline" /\ label = "closing" /\ next_line > NumRequests
               \/ pc[Dispatcher] = "wake_full" /\ label = "redispatch"
               \/ pc[Dispatcher] = "wake_done" /\ label = "closing"
            /\ UNCHANGED <<world, next_line, curr_req, responded, crashed, spurious>>
    BY DEF ReadRequest, EndOfInput, RelockFull, RelockDone, Lock
  <1>2. /\ pc' \in [Threads -> DispatcherLabels \cup DriverLabels]
        /\ pc'[Dispatcher] = label
        /\ \A d \in Drivers : pc'[d] = pc[d]
    BY <1>1, ThreadFacts DEF TypeOK, DispatcherLabels
  <1>3. TypeOK'
    BY <1>1, <1>2, ThreadFacts DEF TypeOK, world, DispatcherLabels
  <1>4. MutexHeld'
    BY <1>1, ThreadFacts, AcquireMutex
  <1>5. HoldsRequest' <=> HoldsRequest
    BY <1>1, <1>2 DEF HoldsRequest
  <1>6. QueueHoldsRequests' /\ RidesAccounted'
    BY <1>1, <1>5, SameRides DEF world
  <1>7. HandsFull'
    BY <1>1, <1>2 DEF HandsFull
  <1>8. InputProgress'
    <2>1. next_line \in 1 .. NumRequests + 1
      BY DEF TypeOK
    <2> QED BY <1>1, <1>2, <1>5, <2>1, ThreadFacts DEF InputProgress, AtEnd, HoldsRequest, world
  <1>9. LastRideOver'
    BY <1>1 DEF LastRideOver, world
  <1> QED BY <1>3, <1>4, <1>6, <1>7, <1>8, <1>9

(* DriverLocks: a driver takes the mutex.                                  *)
LEMMA DriverLocks ==
    ASSUME IInv, NEW d \in Drivers, LockIdle(d) \/ LockFinish(d)
    PROVE  IInv'
  <1> USE DEF IInv
  <1>1. PICK label \in {"check", "account"} :
            /\ lock = Nobody /\ lock' = d
            /\ pc' = [pc EXCEPT ![d] = label]
            /\ \/ pc[d] = "idle" /\ label = "check"
               \/ pc[d] = "finish" /\ label = "account"
            /\ UNCHANGED <<world, next_line, curr_req, responded, crashed, spurious>>
    BY DEF LockIdle, LockFinish, Lock
  <1>2. /\ pc' \in [Threads -> DispatcherLabels \cup DriverLabels]
        /\ pc'[Dispatcher] = pc[Dispatcher]
        /\ pc'[d] = label
        /\ \A e \in Drivers \ {d} : pc'[e] = pc[e]
    BY <1>1, ThreadFacts DEF TypeOK, DriverLabels
  <1>3. TypeOK'
    <2>1. \A e \in Drivers : pc'[e] \in DriverLabels
      BY <1>2 DEF TypeOK, DriverLabels
    <2> QED BY <1>1, <1>2, <2>1, ThreadFacts DEF TypeOK, world
  <1>4. MutexHeld'
    BY <1>1, ThreadFacts, AcquireMutex
  <1>5. HoldsRequest' <=> HoldsRequest
    BY <1>2 DEF HoldsRequest
  <1>6. QueueHoldsRequests' /\ RidesAccounted'
    BY <1>1, <1>5, SameRides DEF world
  <1>7. HandsFull'
    BY <1>1, <1>2 DEF HandsFull
  <1>8. InputProgress'
    BY <1>1, <1>2, <1>5 DEF InputProgress, AtEnd, HoldsRequest, world
  <1>9. LastRideOver'
    BY <1>1 DEF LastRideOver, world
  <1> QED BY <1>3, <1>4, <1>6, <1>7, <1>8, <1>9

(* DispatcherEnqueues: dispatch(), the first time and after a wakeup,      *)
(* queues the request or waits for room.                                   *)
LEMMA DispatcherEnqueues ==
    ASSUME IInv, Dispatch \/ DispatchAgain
    PROVE  IInv'
  <1> USE DEF IInv
  <1>1. /\ EnqueueOrWait
        /\ \/ pc[Dispatcher] = "dispatch" /\ total_rides' = total_rides + 1
           \/ pc[Dispatcher] = "redispatch" /\ total_rides' = total_rides
    BY DEF Dispatch, DispatchAgain
  <1>2. /\ total_rides \in Nat /\ total_rides' = next_line
        /\ next_line \in 1 .. NumRequests /\ next_line \in StoredRequests
        /\ rides_done \in Nat
    <2>1. next_line \in 1 .. NumRequests
      BY <1>1, ThreadFacts DEF InputProgress, HoldsRequest, TypeOK
    <2>2. total_rides' = next_line
      BY <1>1, <2>1, ThreadFacts DEF InputProgress, HoldsRequest, TypeOK
    <2> QED BY <2>1, <2>2 DEF TypeOK, StoredRequests, Requests
  <1>3. /\ request_queue \in Queues(StoredRequests)
        /\ Size(request_queue) \in Nat
        /\ Size(request_queue) <= MAX_QUEUE_SIZE
    BY ContentsType DEF TypeOK, StoredRequests, QueueHoldsRequests
  <1>4. UNCHANGED <<queue_live, rides_done, dispatch_done, exit_drivers,
                    curr_req, responded, crashed, spurious>> /\ lock' = Nobody
    BY <1>1 DEF EnqueueOrWait
  <1>5. Riding' = Riding /\ Cardinality(Riding)' = Cardinality(Riding)
        /\ Cardinality(Riding) \in Nat
    BY <1>4, RidingFinite DEF Riding
  <1>6. ~dispatch_done /\ ~exit_drivers /\ queue_live
    BY <1>1 DEF InputProgress, AtEnd, LastRideOver
  <1>7. CASE Size(request_queue) = MAX_QUEUE_SIZE
    <2>1. /\ pc' = [pc EXCEPT ![Dispatcher] = "cond_full"]
          /\ UNCHANGED <<request_queue, next_line>>
      BY <1>1, <1>7 DEF EnqueueOrWait
    <2>2. /\ pc' \in [Threads -> DispatcherLabels \cup DriverLabels]
          /\ pc'[Dispatcher] = "cond_full"
          /\ \A d \in Drivers : pc'[d] = pc[d]
      BY <2>1, ThreadFacts DEF TypeOK, DispatcherLabels
    <2>3. TypeOK'
      BY <1>2, <1>4, <2>1, <2>2, ThreadFacts DEF TypeOK, DispatcherLabels
    <2>4. MutexHeld'
      <3>1. InCriticalSection(Dispatcher) /\ Dispatcher \in Threads
        BY <1>1, ThreadFacts DEF InCriticalSection
      <3>2. \A u \in Threads \ {Dispatcher} : pc'[u] = pc[u]
        BY <2>1 DEF TypeOK
      <3> QED BY <3>1, <3>2, <1>4, <2>2, ReleaseMutex
    <2>5. QueueHoldsRequests'
      BY <2>1 DEF QueueHoldsRequests, Size, Contents
    <2>6. HandsFull'
      BY <1>4, <2>2 DEF HandsFull
    <2>7. RidesAccounted'
      <3>1. Size(request_queue)' = Size(request_queue)
        BY <2>1 DEF Size
      <3> QED BY <1>1, <1>2, <1>3, <1>4, <1>5, <2>2, <3>1 DEF RidesAccounted, HoldsRequest
    <2>8. InputProgress'
      BY <1>2, <1>4, <1>6, <2>1, <2>2 DEF InputProgress, HoldsRequest, AtEnd
    <2>9. LastRideOver'
      BY <1>4, <1>6 DEF LastRideOver
    <2> QED BY <2>3, <2>4, <2>5, <2>6, <2>7, <2>8, <2>9
  <1>8. CASE Size(request_queue) # MAX_QUEUE_SIZE
    <2>1. /\ request_queue' = PushBack(request_queue, next_line)
          /\ SignalThenGo("cond_empty", Dispatcher, "getline")
          /\ next_line' = next_line + 1
      BY <1>1, <1>8 DEF EnqueueOrWait
    <2>2. /\ pc' \in [Threads -> DispatcherLabels \cup DriverLabels]
          /\ pc'[Dispatcher] = "getline"
          /\ \A u \in Threads \ {Dispatcher} :
               pc'[u] = pc[u] \/ (pc[u] = "cond_empty" /\ pc'[u] = "idle")
      <3>1. /\ pc[Dispatcher] # "cond_empty" /\ Dispatcher \in Threads
            /\ "getline" \in DispatcherLabels \cup DriverLabels
            /\ pc \in [Threads -> DispatcherLabels \cup DriverLabels]
            /\ DOMAIN pc = Threads /\ Woken("cond_empty") = "idle"
        BY <1>1, ThreadFacts DEF TypeOK, DispatcherLabels, Woken
      <3> QED BY <2>1, <3>1, SignalEffect
    <2>3. /\ request_queue' \in Queues(StoredRequests)
          /\ Size(request_queue)' = Size(request_queue) + 1
          /\ Contents(request_queue)' = Append(Contents(request_queue), next_line)
      <3>1. Size(request_queue) < MAX_QUEUE_SIZE
        BY <1>3, <1>8, QueueSizesAssumption
      <3> QED BY <1>2, <1>3, <2>1, <3>1, PushBackValue
    <2>4. TypeOK'
      <3>1. pc'[Dispatcher] \in DispatcherLabels /\ \A d \in Drivers : pc'[d] \in DriverLabels
        BY <2>2, ThreadFacts DEF TypeOK, DispatcherLabels, DriverLabels
      <3>2. lock' \in Threads \cup {Nobody} /\ next_line' \in 1 .. NumRequests + 1
            /\ total_rides' \in 0 .. NumRequests
        BY <1>2, <1>4, <2>1, ThreadFacts
      <3> QED BY <1>4, <2>2, <2>3, <3>1, <3>2 DEF TypeOK, StoredRequests
    <2>5. MutexHeld'
      <3>1. InCriticalSection(Dispatcher) /\ Dispatcher \in Threads
        BY <1>1, ThreadFacts DEF InCriticalSection
      <3> QED BY <3>1, <1>4, <2>2, ReleaseMutex
    <2>6. QueueHoldsRequests'
      <3>1. next_line \in Requests
        BY <1>2 DEF Requests
      <3> QED BY <1>3, <1>8, <2>3, <3>1, QueueSizesAssumption DEF QueueHoldsRequests
    <2>7. HandsFull'
      BY <1>4, <2>2, ThreadFacts DEF HandsFull
    <2>8. RidesAccounted'
      BY <1>1, <1>2, <1>3, <1>4, <1>5, <2>2, <2>3 DEF RidesAccounted, HoldsRequest
    <2>9. InputProgress'
      BY <1>2, <1>4, <1>6, <2>1, <2>2 DEF InputProgress, HoldsRequest, AtEnd
    <2>10. LastRideOver'
      BY <1>4, <1>6 DEF LastRideOver
    <2> QED BY <2>4, <2>5, <2>6, <2>7, <2>8, <2>9, <2>10
  <1> QED BY <1>7, <1>8

(* DispatcherCloses: the end of dispatcher_thread(); exit_drivers is set   *)
(* only in a state in which no ride is left.                               *)
LEMMA DispatcherCloses ==
    ASSUME IInv, Closing
    PROVE  IInv'
  <1> USE DEF IInv
  <1>1. /\ pc[Dispatcher] = "closing" /\ dispatch_done' = TRUE /\ lock' = Nobody
        /\ UNCHANGED <<request_queue, queue_live, total_rides, rides_done,
                       next_line, curr_req, responded, crashed, spurious>>
    BY DEF Closing
  <1>2. /\ pc' \in [Threads -> DispatcherLabels \cup DriverLabels]
        /\ pc'[Dispatcher] \in {"cond_done", "exited"}
        /\ \A u \in Threads \ {Dispatcher} :
             pc'[u] = pc[u] \/ (pc[u] = "cond_empty" /\ pc'[u] = "idle")
        /\ \/ exit_drivers' = exit_drivers
           \/ total_rides = rides_done /\ exit_drivers' = TRUE
    <2>1. CASE total_rides # rides_done
      <3>1. /\ pc' = [pc EXCEPT ![Dispatcher] = "cond_done"]
            /\ exit_drivers' = exit_drivers
        BY <2>1 DEF Closing
      <3> QED BY <3>1, ThreadFacts DEF TypeOK, DispatcherLabels
    <2>2. CASE total_rides = rides_done
      <3>1. /\ pc' = [t \in Threads |->
                        IF t = Dispatcher THEN "exited"
                        ELSE IF pc[t] = "cond_empty" THEN Woken("cond_empty")
                        ELSE pc[t]]
            /\ exit_drivers' = TRUE
        BY <2>2 DEF Closing
      <3>2. Woken("cond_empty") = "idle"
        BY DEF Woken
      <3> QED BY <2>2, <3>1, <3>2, ThreadFacts DEF TypeOK, DispatcherLabels, DriverLabels
    <2> QED BY <2>1, <2>2
  <1>3. TypeOK'
    <2>1. pc'[Dispatcher] \in DispatcherLabels /\ \A d \in Drivers : pc'[d] \in DriverLabels
      BY <1>2, ThreadFacts DEF TypeOK, DispatcherLabels, DriverLabels
    <2>2. exit_drivers' \in BOOLEAN
      BY <1>2 DEF TypeOK
    <2> QED BY <1>1, <1>2, <2>1, <2>2 DEF TypeOK
  <1>4. MutexHeld'
    <2>1. InCriticalSection(Dispatcher) /\ Dispatcher \in Threads
      BY <1>1, ThreadFacts DEF InCriticalSection
    <2> QED BY <2>1, <1>1, <1>2, ReleaseMutex
  <1>5. HoldsRequest' <=> HoldsRequest
    BY <1>1, <1>2 DEF HoldsRequest
  <1>6. QueueHoldsRequests' /\ RidesAccounted'
    BY <1>1, <1>5, SameRides
  <1>7. HandsFull'
    BY <1>1, <1>2, ThreadFacts DEF HandsFull
  <1>8. InputProgress'
    BY <1>1, <1>2, <1>5 DEF InputProgress, AtEnd, HoldsRequest
  <1>9. LastRideOver'
    BY <1>1, <1>2 DEF LastRideOver
  <1> QED BY <1>3, <1>4, <1>6, <1>7, <1>8, <1>9

(* DriverLeaves: a driver finds nothing to do: it waits or goes home.      *)
LEMMA DriverLeaves ==
    ASSUME IInv, NEW d \in Drivers, WaitForWork(d) \/ GoHome(d)
    PROVE  IInv'
  <1> USE DEF IInv
  <1>1. PICK label \in {"cond_empty", "exited"} :
            /\ pc[d] = "check" /\ lock' = Nobody
            /\ pc' = [pc EXCEPT ![d] = label]
            /\ UNCHANGED <<world, next_line, curr_req, responded, crashed, spurious>>
    BY DEF WaitForWork, GoHome
  <1>2. /\ pc' \in [Threads -> DispatcherLabels \cup DriverLabels]
        /\ pc'[Dispatcher] = pc[Dispatcher]
        /\ pc'[d] = label
        /\ \A u \in Threads \ {d} : pc'[u] = pc[u]
    BY <1>1, ThreadFacts DEF TypeOK, DriverLabels
  <1>3. TypeOK'
    <2>1. \A e \in Drivers : pc'[e] \in DriverLabels
      BY <1>2, ThreadFacts DEF TypeOK, DriverLabels
    <2> QED BY <1>1, <1>2, <2>1, ThreadFacts DEF TypeOK, world
  <1>4. MutexHeld'
    <2>1. InCriticalSection(d) /\ d \in Threads
      BY <1>1, ThreadFacts DEF InCriticalSection
    <2> QED BY <2>1, <1>1, <1>2, ReleaseMutex
  <1>5. HoldsRequest' <=> HoldsRequest
    BY <1>2 DEF HoldsRequest
  <1>6. QueueHoldsRequests' /\ RidesAccounted'
    BY <1>1, <1>5, SameRides DEF world
  <1>7. HandsFull'
    BY <1>1, <1>2, ThreadFacts DEF HandsFull
  <1>8. InputProgress'
    BY <1>1, <1>2, <1>5 DEF InputProgress, AtEnd, HoldsRequest, world
  <1>9. LastRideOver'
    BY <1>1 DEF LastRideOver, world
  <1> QED BY <1>3, <1>4, <1>6, <1>7, <1>8, <1>9

(* DriverTakes: pop_front() moves the oldest request from the queue to the *)
(* hands of a driver that had none.                                        *)
LEMMA DriverTakes ==
    ASSUME IInv, NEW d \in Drivers, TakeRequest(d)
    PROVE  IInv'
  <1> USE DEF IInv
  <1>1. /\ pc[d] = "check" /\ lock' = Nobody /\ queue_live /\ ~exit_drivers
        /\ ~Empty(request_queue)
        /\ curr_req' = [curr_req EXCEPT ![d] = Front(request_queue)]
        /\ request_queue' = PopFront(request_queue)
        /\ SignalThenGo("cond_full", d, "drive")
        /\ UNCHANGED <<queue_live, total_rides, rides_done, dispatch_done,
                       exit_drivers, next_line, responded, crashed, spurious>>
    BY DEF TakeRequest, SeesEmpty
  <1>2. /\ pc' \in [Threads -> DispatcherLabels \cup DriverLabels]
        /\ pc'[d] = "drive"
        /\ \A u \in Threads \ {d} :
             pc'[u] = pc[u] \/ (pc[u] = "cond_full" /\ pc'[u] = "wake_full")
    <2>1. /\ pc[d] # "cond_full" /\ d \in Threads
          /\ "drive" \in DispatcherLabels \cup DriverLabels
          /\ pc \in [Threads -> DispatcherLabels \cup DriverLabels]
          /\ DOMAIN pc = Threads /\ Woken("cond_full") = "wake_full"
      BY <1>1, ThreadFacts DEF TypeOK, DriverLabels, Woken
    <2> QED BY <1>1, <2>1, SignalEffect
  <1>3. \A e \in Drivers \ {d} : pc'[e] = pc[e]
    BY <1>2, ThreadFacts DEF TypeOK, DriverLabels
  <1>4. /\ request_queue \in Queues(StoredRequests)
        /\ Size(request_queue) \in Nat /\ Size(request_queue) <= MAX_QUEUE_SIZE
    BY ContentsType DEF TypeOK, StoredRequests, QueueHoldsRequests
  <1>5. /\ request_queue' \in Queues(StoredRequests)
        /\ Size(request_queue)' = Size(request_queue) - 1
        /\ Front(request_queue) = Head(Contents(request_queue))
        /\ Contents(request_queue)' = Tail(Contents(request_queue))
    BY <1>1, <1>4, PopFrontValue
  <1>6. /\ Contents(request_queue) # <<>>
        /\ Front(request_queue) \in Requests
        /\ Tail(Contents(request_queue)) \in Seq(Requests)
    <2>1. Contents(request_queue) # <<>>
      BY <1>1, <1>4, EmptyValue DEF Queues
    <2> QED BY <1>5, <2>1 DEF QueueHoldsRequests
  <1>7. TypeOK'
    <2>1. pc'[Dispatcher] \in DispatcherLabels /\ \A e \in Drivers : pc'[e] \in DriverLabels
      BY <1>2, <1>3, ThreadFacts DEF TypeOK, DispatcherLabels, DriverLabels
    <2>2. curr_req' \in [Drivers -> Requests \cup {NoRequest}]
      BY <1>1, <1>6 DEF TypeOK
    <2> QED BY <1>1, <1>2, <1>5, <2>1, <2>2 DEF TypeOK, StoredRequests
  <1>8. MutexHeld'
    <2>1. InCriticalSection(d) /\ d \in Threads
      BY <1>1, ThreadFacts DEF InCriticalSection
    <2> QED BY <2>1, <1>1, <1>2, ReleaseMutex
  <1>9. QueueHoldsRequests'
    BY <1>4, <1>5, <1>6, QueueSizesAssumption DEF QueueHoldsRequests
  <1>10. Front(request_queue) # NoRequest
    BY <1>6, ThreadFacts DEF Requests, NoRequest
  <1>11. HandsFull'
    BY <1>1, <1>2, <1>3, <1>10 DEF HandsFull, TypeOK
  <1>12. HoldsRequest' <=> HoldsRequest
    BY <1>2, ThreadFacts DEF HoldsRequest
  <1>13. RidesAccounted'
    <2>1. curr_req[d] = NoRequest
      BY <1>1 DEF HandsFull
    <2>2. Riding' = Riding \cup {d} /\ d \notin Riding
      BY <1>1, <1>10, <2>1 DEF Riding, TypeOK
    <2>3. Cardinality(Riding)' = Cardinality(Riding) + 1 /\ Cardinality(Riding) \in Nat
      BY <2>2, RidingFinite, FS_AddElement
    <2>4. total_rides \in Nat /\ rides_done \in Nat
      BY DEF TypeOK
    <2> QED BY <1>1, <1>4, <1>5, <1>12, <2>3, <2>4 DEF RidesAccounted
  <1>14. InputProgress'
    <2>1. AtEnd' <=> AtEnd
      BY <1>2, ThreadFacts DEF AtEnd
    <2>2. pc'[Dispatcher] = "dispatch" => pc[Dispatcher] = "dispatch"
      BY <1>2, ThreadFacts
    <2> QED BY <1>1, <1>12, <2>1, <2>2 DEF InputProgress
  <1>15. LastRideOver'
    BY <1>1 DEF LastRideOver
  <1> QED BY <1>7, <1>8, <1>9, <1>11, <1>13, <1>14, <1>15

(* DriverAccounts: the second critical section of driver_thread(); the     *)
(* queue is freed only by the driver that finishes the last ride.          *)
LEMMA DriverAccounts ==
    ASSUME IInv, NEW d \in Drivers, Account(d)
    PROVE  IInv' /\ (~queue_live' => queue_live)
  <1> USE DEF IInv
  <1>1. /\ pc[d] = "account" /\ lock' = Nobody
        /\ rides_done' = rides_done + 1
        /\ curr_req' = [curr_req EXCEPT ![d] = NoRequest]
        /\ UNCHANGED <<request_queue, total_rides, dispatch_done, exit_drivers,
                       next_line, responded, crashed, spurious>>
    BY DEF Account
  <1>2. /\ pc' \in [Threads -> DispatcherLabels \cup DriverLabels]
        /\ pc'[d] \in {"idle", "exited"}
        /\ \A u \in Threads \ {d} :
             pc'[u] = pc[u] \/ (pc[u] = "cond_done" /\ pc'[u] = "wake_done")
        /\ queue_live' = queue_live
             \/ (dispatch_done /\ rides_done' = total_rides /\ queue_live' = FALSE)
    <2>1. CASE dispatch_done /\ rides_done' = total_rides
      <3>1. queue_live' = FALSE /\ SignalThenGo("cond_done", d, "exited")
        BY <2>1 DEF Account
      <3>2. /\ pc[d] # "cond_done" /\ d \in Threads
            /\ "exited" \in DispatcherLabels \cup DriverLabels
            /\ pc \in [Threads -> DispatcherLabels \cup DriverLabels]
            /\ DOMAIN pc = Threads /\ Woken("cond_done") = "wake_done"
        BY <1>1, ThreadFacts DEF TypeOK, DriverLabels, Woken
      <3> QED BY <2>1, <3>1, <3>2, SignalEffect
    <2>2. CASE ~(dispatch_done /\ rides_done' = total_rides)
      <3>1. pc' = [pc EXCEPT ![d] = "idle"] /\ queue_live' = queue_live
        BY <2>2 DEF Account
      <3> QED BY <3>1, ThreadFacts DEF TypeOK, DriverLabels
    <2> QED BY <2>1, <2>2
  <1>3. \A e \in Drivers \ {d} : pc'[e] = pc[e]
    BY <1>2, ThreadFacts DEF TypeOK, DriverLabels
  <1>4. /\ Size(request_queue)' = Size(request_queue)
        /\ Contents(request_queue)' = Contents(request_queue)
        /\ Size(request_queue) \in Nat
    BY <1>1, ContentsType DEF Size, Contents, TypeOK
  <1>5. HoldsRequest' <=> HoldsRequest
    BY <1>2, ThreadFacts DEF HoldsRequest
  <1>6. /\ Cardinality(Riding)' = Cardinality(Riding) - 1
        /\ Cardinality(Riding) \in Nat \ {0}
    <2>1. d \in Riding /\ Riding' = Riding \ {d}
      BY <1>1 DEF Riding, HandsFull, TypeOK
    <2>2. Cardinality(Riding') = Cardinality(Riding) - 1
      BY <2>1, RidingFinite, FS_RemoveElement
    <2>3. Cardinality(Riding) # 0
      BY <2>1, RidingFinite, FS_EmptySet
    <2> QED BY <2>2, <2>3, RidingFinite
  <1>7. total_rides \in Nat /\ rides_done \in Nat /\ rides_done' <= total_rides
    <2>1. total_rides \in Nat /\ rides_done \in Nat
      BY DEF TypeOK
    <2> QED BY <1>1, <1>4, <1>6, <2>1 DEF RidesAccounted
  <1>8. queue_live /\ ~exit_drivers
    <2>1. total_rides # rides_done
      BY <1>1, <1>7
    <2> QED BY <2>1 DEF LastRideOver, TypeOK
  <1>9. TypeOK'
    <2>1. pc'[Dispatcher] \in DispatcherLabels /\ \A e \in Drivers : pc'[e] \in DriverLabels
      BY <1>2, <1>3, ThreadFacts DEF TypeOK, DispatcherLabels, DriverLabels
    <2>2. curr_req' \in [Drivers -> Requests \cup {NoRequest}]
      BY <1>1 DEF TypeOK
    <2>3. rides_done' \in 0 .. NumRequests
      <3>1. total_rides \in 0 .. NumRequests
        BY DEF TypeOK
      <3> QED BY <3>1, <1>1, <1>7, ThreadFacts
    <2>4. queue_live' \in BOOLEAN
      BY <1>2, <1>8
    <2> QED BY <1>1, <1>2, <2>1, <2>2, <2>3, <2>4 DEF TypeOK
  <1>10. MutexHeld'
    <2>1. InCriticalSection(d) /\ d \in Threads
      BY <1>1, ThreadFacts DEF InCriticalSection
    <2> QED BY <2>1, <1>1, <1>2, ReleaseMutex
  <1>11. QueueHoldsRequests'
    BY <1>4 DEF QueueHoldsRequests
  <1>12. HandsFull'
    BY <1>1, <1>2, <1>3 DEF HandsFull, TypeOK
  <1>13. RidesAccounted'
    BY <1>1, <1>4, <1>5, <1>6, <1>7 DEF RidesAccounted
  <1>14. InputProgress'
    <2>1. AtEnd' <=> AtEnd
      BY <1>2, ThreadFacts DEF AtEnd
    <2>2. pc'[Dispatcher] = "dispatch" => pc[Dispatcher] = "dispatch"
      BY <1>2, ThreadFacts
    <2> QED BY <1>1, <1>5, <2>1, <2>2 DEF InputProgress
  <1>15. LastRideOver'
    BY <1>1, <1>2, <1>8 DEF LastRideOver
  <1> QED BY <1>8, <1>9, <1>10, <1>11, <1>12, <1>13, <1>14, <1>15

(* OutsideMutex: drive(), a spurious wakeup and the crash touch nothing    *)
(* that the mutex protects.                                                *)
LEMMA OutsideMutex ==
    ASSUME IInv,
           \/ \E d \in Drivers : Drive(d) \/ PopFreedQueue(d)
           \/ \E t \in Threads : SpuriousWakeup(t)
    PROVE  IInv'
  <1> USE DEF IInv
  <1>1. CASE \E d \in Drivers : Drive(d)
    <2>1. PICK d \in Drivers : Drive(d)
      BY <1>1
    <2>2. /\ pc[d] = "drive" /\ pc' = [pc EXCEPT ![d] = "finish"]
          /\ responded' = Append(responded, curr_req[d])
          /\ UNCHANGED <<lock, request_queue, queue_live, total_rides, rides_done,
                         dispatch_done, exit_drivers, next_line, curr_req, crashed, spurious>>
      BY <2>1 DEF Drive, world
    <2>3. /\ pc' \in [Threads -> DispatcherLabels \cup DriverLabels]
          /\ pc'[Dispatcher] = pc[Dispatcher]
          /\ pc'[d] = "finish" /\ \A u \in Threads \ {d} : pc'[u] = pc[u]
      BY <2>2, ThreadFacts DEF TypeOK, DriverLabels
    <2>4. TypeOK'
      <3>1. curr_req[d] \in Requests
        BY <2>2 DEF HandsFull, TypeOK
      <3>2. responded' \in Seq(Requests)
        BY <2>2, <3>1 DEF TypeOK
      <3>3. \A e \in Drivers : pc'[e] \in DriverLabels
        BY <2>3, ThreadFacts DEF TypeOK, DriverLabels
      <3> QED BY <2>2, <2>3, <3>2, <3>3 DEF TypeOK
    <2>5. MutexHeld'
      BY <2>2, <2>3, ThreadFacts DEF MutexHeld, InCriticalSection
    <2>6. QueueHoldsRequests' /\ RidesAccounted'
      <3>1. HoldsRequest' <=> HoldsRequest
        BY <2>3 DEF HoldsRequest
      <3> QED BY <2>2, <3>1, SameRides
    <2>7. HandsFull'
      BY <2>2, <2>3, ThreadFacts DEF HandsFull
    <2>8. InputProgress' /\ LastRideOver'
      BY <2>2, <2>3 DEF InputProgress, AtEnd, HoldsRequest, LastRideOver
    <2> QED BY <2>4, <2>5, <2>6, <2>7, <2>8
  <1>2. CASE \E d \in Drivers : PopFreedQueue(d)
    <2>1. /\ crashed' = TRUE
          /\ UNCHANGED <<lock, pc, request_queue, queue_live, total_rides, rides_done,
                         dispatch_done, exit_drivers, next_line, curr_req, responded, spurious>>
      BY <1>2 DEF PopFreedQueue, world
    <2>2. TypeOK'
      BY <2>1 DEF TypeOK
    <2>3. MutexHeld' /\ HandsFull' /\ InputProgress' /\ LastRideOver'
      BY <2>1 DEF MutexHeld, InCriticalSection, HandsFull, InputProgress, AtEnd,
                  HoldsRequest, LastRideOver
    <2>4. QueueHoldsRequests' /\ RidesAccounted'
      BY <2>1, SameRides DEF HoldsRequest
    <2> QED BY <2>2, <2>3, <2>4
  <1>3. CASE \E t \in Threads : SpuriousWakeup(t)
    <2>1. PICK t \in Threads : SpuriousWakeup(t)
      BY <1>3
    <2>2. /\ pc[t] \in {"cond_empty", "cond_full", "cond_done"}
          /\ pc' = [pc EXCEPT ![t] = Woken(pc[t])]
          /\ spurious < MaxSpurious /\ spurious' = spurious + 1
          /\ UNCHANGED <<lock, request_queue, queue_live, total_rides, rides_done,
                         dispatch_done, exit_drivers, next_line, curr_req, responded, crashed>>
      BY <2>1 DEF SpuriousWakeup, world
    <2>3. \/ t \in Drivers /\ pc[t] = "cond_empty" /\ Woken(pc[t]) = "idle"
          \/ t = Dispatcher /\ pc[t] = "cond_full" /\ Woken(pc[t]) = "wake_full"
          \/ t = Dispatcher /\ pc[t] = "cond_done" /\ Woken(pc[t]) = "wake_done"
      BY <2>2 DEF Woken, TypeOK, Threads, DriverLabels, DispatcherLabels
    <2>4. /\ pc' \in [Threads -> DispatcherLabels \cup DriverLabels]
          /\ pc'[t] = Woken(pc[t]) /\ \A u \in Threads \ {t} : pc'[u] = pc[u]
      BY <2>2, <2>3 DEF TypeOK, DriverLabels, DispatcherLabels
    <2>5. /\ pc'[Dispatcher] \in DispatcherLabels
          /\ \A e \in Drivers : pc'[e] \in DriverLabels
      BY <2>3, <2>4, ThreadFacts DEF TypeOK, DriverLabels, DispatcherLabels
    <2>6. TypeOK'
      <3>1. spurious' \in 0 .. MaxSpurious
        BY <2>2, ThreadFacts DEF TypeOK
      <3> QED BY <2>2, <2>4, <2>5, <3>1 DEF TypeOK
    <2>7. MutexHeld'
      BY <2>2, <2>3, <2>4, ThreadFacts DEF MutexHeld, InCriticalSection
    <2>8. HoldsRequest' <=> HoldsRequest
      BY <2>3, <2>4, ThreadFacts DEF HoldsRequest
    <2>9. QueueHoldsRequests' /\ RidesAccounted'
      BY <2>2, <2>8, SameRides
    <2>10. HandsFull'
      BY <2>2, <2>3, <2>4, ThreadFacts DEF HandsFull
    <2>11. InputProgress' /\ LastRideOver'
      <3>1. AtEnd' <=> AtEnd
        BY <2>3, <2>4, ThreadFacts DEF AtEnd
      <3>2. pc'[Dispatcher] = "dispatch" => pc[Dispatcher] = "dispatch"
        BY <2>3, <2>4, ThreadFacts
      <3> QED BY <2>2, <2>8, <3>1, <3>2 DEF InputProgress, LastRideOver
    <2> QED BY <2>6, <2>7, <2>9, <2>10, <2>11
  <1> QED BY <1>1, <1>2, <1>3

(* NextIInv: every step of every thread keeps the invariant.               *)
LEMMA NextIInv == IInv /\ [Next]_vars => IInv'
  <1> SUFFICES ASSUME IInv, [Next]_vars PROVE IInv'
    OBVIOUS
  <1>1. CASE DispatcherStep
    BY <1>1, DispatcherLocks, DispatcherEnqueues, DispatcherCloses DEF DispatcherStep
  <1>2. ASSUME NEW d \in Drivers, DriverStep(d) PROVE IInv'
    BY <1>2, DriverLocks, DriverLeaves, DriverTakes, DriverAccounts, OutsideMutex
       DEF DriverStep
  <1>3. CASE \E t \in Threads : SpuriousWakeup(t)
    BY <1>3, OutsideMutex
  <1>4. CASE UNCHANGED vars
    <2>1. UNCHANGED <<lock, pc, request_queue, queue_live, total_rides, rides_done,
                      dispatch_done, exit_drivers, next_line, curr_req, responded,
                      crashed, spurious>>
      BY <1>4 DEF vars, world
    <2>2. TypeOK'
      BY <2>1 DEF TypeOK, IInv
    <2>3. MutexHeld' /\ HandsFull' /\ InputProgress' /\ LastRideOver'
      BY <2>1 DEF MutexHeld, InCriticalSection, HandsFull, InputProgress, AtEnd,
                  HoldsRequest, LastRideOver, IInv
    <2>4. QueueHoldsRequests' /\ RidesAccounted'
      BY <2>1, SameRides DEF HoldsRequest
    <2> QED BY <2>2, <2>3, <2>4 DEF IInv
  <1> QED BY <1>1, <1>2, <1>3, <1>4 DEF Next, Stopped

-----------------------------------------------------------------------------
(* DispatchType: struct world and the threads' locals keep their types.    *)
THEOREM DispatchType == Spec => []TypeOK
  <1>1. IInv => TypeOK
    BY DEF IInv
  <1> QED BY <1>1, InitIInv, NextIInv, PTL DEF Spec

(* DispatchMutex: the mutex is held exactly inside critical sections, by   *)
(* one thread, whichever way a thread leaves them.                         *)
THEOREM DispatchMutex == Spec => []MutexHeld
  <1>1. IInv => MutexHeld
    BY DEF IInv
  <1> QED BY <1>1, InitIInv, NextIInv, PTL DEF Spec

(* DispatchAccounts: total_rides and rides_done differ by exactly the      *)
(* requests that are waiting for room, queued or being driven.             *)
THEOREM DispatchAccounts == Spec => []RidesAccounted
  <1>1. IInv => RidesAccounted
    BY DEF IInv
  <1> QED BY <1>1, InitIInv, NextIInv, PTL DEF Spec

(* IInvExit: by the accounts no ride is left when the last one is over.    *)
LEMMA IInvExit == IInv => ExitAfterLastRide
  <1> SUFFICES ASSUME IInv, exit_drivers \/ ~queue_live
               PROVE  /\ dispatch_done /\ next_line = NumRequests + 1
                      /\ Empty(request_queue)
                      /\ DriversAt({"drive", "finish", "account"}) = {}
    BY DEF ExitAfterLastRide
  <1>1. dispatch_done /\ total_rides = rides_done /\ AtEnd
    BY DEF IInv, LastRideOver, InputProgress
  <1>2. Size(request_queue) \in Nat /\ request_queue \in Queues(StoredRequests)
    BY ContentsType DEF IInv, TypeOK, StoredRequests
  <1>3. Size(request_queue) = 0 /\ Cardinality(Riding) = 0
    <2>1. total_rides \in Nat /\ rides_done \in Nat
      BY DEF IInv, TypeOK
    <2> QED BY <1>1, <1>2, <2>1, RidingFinite DEF IInv, RidesAccounted
  <1>4. Empty(request_queue)
    BY <1>2, <1>3, EmptyValue DEF Queues
  <1>5. Riding = {}
    BY <1>3, RidingFinite, FS_EmptySet
  <1>6. DriversAt({"drive", "finish", "account"}) = {}
    BY <1>5 DEF DriversAt, Riding, IInv, HandsFull
  <1> QED BY <1>1, <1>4, <1>6 DEF IInv, InputProgress

(* DispatchExit: drivers are told to leave and the queue is freed only     *)
(* when every request of the input has been driven.                        *)
THEOREM DispatchExit == Spec => []ExitAfterLastRide
  <1> QED BY IInvExit, InitIInv, NextIInv, PTL DEF Spec

-----------------------------------------------------------------------------
(***************************************************************************)
(* The refinement of RideService.  What it needs beyond the invariant is   *)
(* that a request is in one place at most: queued requests are different   *)
(* from each other and from those in the hands of drivers, no two drivers  *)
(* have the same one, and all of them have been read.  s is what is        *)
(* queued, cr what the drivers hold, n the next line of the input.         *)
(***************************************************************************)
Apart(s, cr, n) ==
    /\ \A i \in DOMAIN s : s[i] \in Requests /\ s[i] < n
    /\ \A i, j \in DOMAIN s : s[i] = s[j] => i = j
    /\ \A d \in Drivers : cr[d] # NoRequest =>
          /\ cr[d] \in Requests /\ cr[d] < n
          /\ \A i \in DOMAIN s : s[i] # cr[d]
          /\ \A e \in Drivers : cr[e] = cr[d] => e = d

RequestsApart == Apart(Contents(request_queue), curr_req, next_line)

\* Where request r is.
StateIn(r, s, cr, n) ==
    IF r >= n THEN "unread"
    ELSE IF \E d \in Drivers : cr[d] = r THEN "riding"
    ELSE IF \E i \in DOMAIN s : s[i] = r THEN "pending" ELSE "done"

(* StateOfRequest: the refinement mapping of Dispatch in these terms.      *)
LEMMA StateOfRequest ==
    ASSUME TypeOK, NEW r \in Requests
    PROVE  RequestState(r) = StateIn(r, Contents(request_queue), curr_req, next_line)
  <1>1. DOMAIN Contents(request_queue) = 1 .. Size(request_queue)
    BY ContentsType DEF TypeOK
  <1> QED BY <1>1 DEF RequestState, StateIn

(* Pushed, Popped, Dropped: the three things that happen to a request keep *)
(* requests apart and change the state of this one only.                   *)
LEMMA Pushed ==
    ASSUME NEW s \in Seq(Requests), NEW cr \in [Drivers -> Requests \cup {NoRequest}],
           NEW n \in Requests, Apart(s, cr, n)
    PROVE  /\ Apart(Append(s, n), cr, n + 1)
           /\ \A r \in Requests : StateIn(r, Append(s, n), cr, n + 1)
                                    = IF r = n THEN "pending" ELSE StateIn(r, s, cr, n)
           /\ StateIn(n, s, cr, n) = "unread"
           /\ \A r \in Requests : r < n => StateIn(r, s, cr, n) # "unread"
  <1> DEFINE t == Append(s, n)
  <1>1. /\ Len(s) \in Nat /\ DOMAIN s = 1 .. Len(s) /\ DOMAIN t = 1 .. Len(s) + 1
        /\ t[Len(s) + 1] = n /\ \A i \in 1 .. Len(s) : t[i] = s[i]
    OBVIOUS
  <1>2. Requests \subseteq Int /\ n \in Int /\ NoRequest \notin Requests
    BY ThreadFacts DEF Requests, NoRequest
  <1> HIDE DEF t
  <1>3. Apart(t, cr, n + 1)
    <2>4. \A i \in DOMAIN t : \/ i = Len(s) + 1 /\ t[i] = n
                              \/ i \in DOMAIN s /\ t[i] = s[i]
      BY <1>1
    <2>5. \A i \in DOMAIN s : s[i] \in Int /\ s[i] \in Requests /\ s[i] < n
      BY <1>2 DEF Apart
    <2>1. \A i \in DOMAIN t : t[i] \in Requests /\ t[i] < n + 1
      BY <1>2, <2>4, <2>5
    <2>2. \A i, j \in DOMAIN t : t[i] = t[j] => i = j
      <3> TAKE i, j \in DOMAIN t
      <3>1. n # t[i] \/ i = Len(s) + 1
        BY <1>2, <2>4, <2>5
      <3>2. n # t[j] \/ j = Len(s) + 1
        BY <1>2, <2>4, <2>5
      <3> QED BY <2>4, <3>1, <3>2 DEF Apart
    <2>3. ASSUME NEW d \in Drivers, cr[d] # NoRequest
          PROVE  /\ cr[d] \in Requests /\ cr[d] < n + 1
                 /\ \A i \in DOMAIN t : t[i] # cr[d]
                 /\ \A e \in Drivers : cr[e] = cr[d] => e = d
      <3>4. cr[d] \in Requests /\ cr[d] < n
        BY <2>3 DEF Apart
      <3>1. cr[d] \in Requests /\ cr[d] < n /\ cr[d] \in Int /\ cr[d] # n
        <4>1. \A x \in Requests : x < n => x \in Int /\ x # n
          BY <1>2
        <4> QED BY <3>4, <4>1
      <3>2. \A i \in DOMAIN t : t[i] # cr[d]
        BY <2>3, <2>4, <3>1 DEF Apart
      <3>3. \A e \in Drivers : cr[e] = cr[d] => e = d
        BY <2>3 DEF Apart
      <3> QED BY <1>2, <3>1, <3>2, <3>3
    <2> QED BY <2>1, <2>2, <2>3 DEF Apart
  <1>4. ASSUME NEW r \in Requests
        PROVE  StateIn(r, t, cr, n + 1) = IF r = n THEN "pending" ELSE StateIn(r, s, cr, n)
    <2>1. r >= n + 1 <=> r >= n /\ r # n
      BY <1>2
    <2>2. (\E i \in DOMAIN t : t[i] = r) <=> r = n \/ \E i \in DOMAIN s : s[i] = r
      BY <1>1
    <2>3. r = n => ~\E d \in Drivers : cr[d] = r
      BY <1>2 DEF Apart
    <2> QED BY <1>2, <2>1, <2>2, <2>3 DEF StateIn
  <1>5. StateIn(n, s, cr, n) = "unread" /\ \A r \in Requests : r < n => StateIn(r, s, cr, n) # "unread"
    BY <1>2 DEF StateIn
  <1> QED BY <1>3, <1>4, <1>5 DEF t

LEMMA Popped ==
    ASSUME NEW s \in Seq(Requests), s # <<>>, NEW n \in Int,
           NEW cr \in [Drivers -> Requests \cup {NoRequest}],
           NEW d \in Drivers, cr[d] = NoRequest, Apart(s, cr, n)
    PROVE  /\ Apart(Tail(s), [cr EXCEPT ![d] = Head(s)], n)
           /\ \A r \in Requests : StateIn(r, Tail(s), [cr EXCEPT ![d] = Head(s)], n)
                                    = IF r = Head(s) THEN "riding" ELSE StateIn(r, s, cr, n)
  <1> DEFINE t == Tail(s)
             h == Head(s)
             c == [cr EXCEPT ![d] = h]
  <1>1. /\ Len(s) \in Nat \ {0} /\ DOMAIN s = 1 .. Len(s) /\ DOMAIN t = 1 .. Len(s) - 1
        /\ s[1] = h /\ \A i \in 1 .. Len(s) - 1 : t[i] = s[i + 1]
    OBVIOUS
  <1>2. /\ Requests \subseteq Int /\ NoRequest \notin Requests
        /\ h \in Requests /\ h < n
    BY <1>1, ThreadFacts DEF Requests, NoRequest, Apart
  <1>3. /\ c[d] = h
        /\ \A e \in Drivers : e # d => c[e] = cr[e]
    OBVIOUS
  <1> HIDE DEF t, h, c
  <1>4. \A i \in DOMAIN t : i + 1 \in DOMAIN s /\ i + 1 # 1 /\ t[i] = s[i + 1]
    BY <1>1
  <1>5. \A i \in DOMAIN t : t[i] # h
    BY <1>1, <1>4 DEF Apart
  <1>6. \A e \in Drivers : cr[e] # h
    BY <1>1, <1>2 DEF Apart
  <1>7. Apart(t, c, n)
    <2>1. \A i \in DOMAIN t : t[i] \in Requests /\ t[i] < n
      BY <1>4 DEF Apart
    <2>2. \A i, j \in DOMAIN t : t[i] = t[j] => i = j
      <3> TAKE i, j \in DOMAIN t
      <3>1. t[i] = t[j] => i + 1 = j + 1
        BY <1>4 DEF Apart
      <3> QED BY <3>1, <1>1
    <2>3. ASSUME NEW e \in Drivers, c[e] # NoRequest
          PROVE  /\ c[e] \in Requests /\ c[e] < n
                 /\ \A i \in DOMAIN t : t[i] # c[e]
                 /\ \A f \in Drivers : c[f] = c[e] => f = e
      <3>1. CASE e = d
        BY <3>1, <1>2, <1>3, <1>5, <1>6
      <3>2. CASE e # d
        BY <2>3, <3>2, <1>3, <1>4, <1>6 DEF Apart
      <3> QED BY <3>1, <3>2
    <2> QED BY <2>1, <2>2, <2>3 DEF Apart
  <1>8. ASSUME NEW r \in Requests
        PROVE  StateIn(r, t, c, n) = IF r = h THEN "riding" ELSE StateIn(r, s, cr, n)
    <2>1. (\E e \in Drivers : c[e] = r) <=> r = h \/ \E e \in Drivers : cr[e] = r
      BY <1>2, <1>3
    <2>2. r # h => ((\E i \in DOMAIN t : t[i] = r) <=> \E i \in DOMAIN s : s[i] = r)
      <3> SUFFICES ASSUME r # h, NEW i \in DOMAIN s, s[i] = r
                   PROVE  \E j \in DOMAIN t : t[j] = r
        BY <1>4
      <3>1. i - 1 \in DOMAIN t /\ t[i - 1] = s[(i - 1) + 1] /\ (i - 1) + 1 = i
        BY <1>1
      <3> QED BY <3>1
    <2> QED BY <1>2, <2>1, <2>2 DEF StateIn
  <1> QED BY <1>7, <1>8 DEF t, h, c

LEMMA Dropped ==
    ASSUME NEW s \in Seq(Requests), NEW n \in Int,
           NEW cr \in [Drivers -> Requests \cup {NoRequest}],
           NEW d \in Drivers, cr[d] # NoRequest, Apart(s, cr, n),
           NEW c, c = [cr EXCEPT ![d] = NoRequest]
    PROVE  /\ Apart(s, c, n)
           /\ cr[d] \in Requests /\ StateIn(cr[d], s, cr, n) = "riding"
  <1>1. /\ Requests \subseteq Int /\ NoRequest \notin Requests
        /\ cr[d] \in Requests /\ cr[d] < n
    BY ThreadFacts DEF Requests, NoRequest, Apart
  <1>2. c[d] = NoRequest /\ \A e \in Drivers : e # d => c[e] = cr[e]
    OBVIOUS
  <1>3. Apart(s, c, n)
    BY <1>2 DEF Apart
  <1>5. StateIn(cr[d], s, cr, n) = "riding"
    <2>1. \E e \in Drivers : cr[e] = cr[d]
      OBVIOUS
    <2>2. ~(cr[d] >= n)
      <3>1. cr[d] \in Int /\ cr[d] < n
        BY <1>1
      <3> QED BY <3>1
    <2> QED BY <2>1, <2>2 DEF StateIn
  <1> QED BY <1>1, <1>3, <1>5

(* WhatStepsDo: of all steps, one queues a request, one takes it, one puts *)
(* it away, one sends the drivers home; the others move none.              *)
LEMMA WhatStepsDo ==
    ASSUME IInv, [Next]_vars
    PROVE  \/ UNCHANGED <<request_queue, curr_req, next_line, exit_drivers>>
           \/ /\ Size(request_queue) # MAX_QUEUE_SIZE /\ next_line \in Requests
              /\ request_queue' = PushBack(request_queue, next_line)
              /\ next_line' = next_line + 1
              /\ UNCHANGED <<curr_req, exit_drivers>>
           \/ \E d \in Drivers :
                /\ ~Empty(request_queue) /\ ~exit_drivers /\ curr_req[d] = NoRequest
                /\ request_queue' = PopFront(request_queue)
                /\ curr_req' = [curr_req EXCEPT ![d] = Front(request_queue)]
                /\ UNCHANGED <<next_line, exit_drivers>>
           \/ \E d \in Drivers :
                /\ curr_req[d] # NoRequest
                /\ curr_req' = [curr_req EXCEPT ![d] = NoRequest]
                /\ UNCHANGED <<request_queue, next_line, exit_drivers>>
           \/ /\ exit_drivers' = TRUE
              /\ UNCHANGED <<request_queue, curr_req, next_line>>
  <1>1. CASE Dispatch \/ DispatchAgain
    <2>1. EnqueueOrWait /\ pc[Dispatcher] \in {"dispatch", "redispatch"}
      BY <1>1 DEF Dispatch, DispatchAgain
    <2>2. next_line \in Requests
      BY <2>1, ThreadFacts DEF IInv, InputProgress, HoldsRequest, TypeOK, Requests
    <2> QED BY <2>1, <2>2 DEF EnqueueOrWait
  <1>2. CASE ReadRequest \/ EndOfInput \/ RelockFull \/ RelockDone
    BY <1>2 DEF ReadRequest, EndOfInput, RelockFull, RelockDone, Lock, world
  <1>3. CASE Closing
    BY <1>3 DEF Closing
  <1>4. ASSUME NEW d \in Drivers, TakeRequest(d)
        PROVE  /\ ~Empty(request_queue) /\ ~exit_drivers /\ curr_req[d] = NoRequest
               /\ request_queue' = PopFront(request_queue)
               /\ curr_req' = [curr_req EXCEPT ![d] = Front(request_queue)]
               /\ UNCHANGED <<next_line, exit_drivers>>
    BY <1>4 DEF TakeRequest, SeesEmpty, IInv, HandsFull
  <1>5. ASSUME NEW d \in Drivers, Account(d)
        PROVE  /\ curr_req[d] # NoRequest
               /\ curr_req' = [curr_req EXCEPT ![d] = NoRequest]
               /\ UNCHANGED <<request_queue, next_line, exit_drivers>>
    BY <1>5 DEF Account, IInv, HandsFull
  <1>6. ASSUME NEW d \in Drivers,
               LockIdle(d) \/ LockFinish(d) \/ WaitForWork(d) \/ GoHome(d)
                 \/ PopFreedQueue(d) \/ Drive(d)
        PROVE  UNCHANGED <<request_queue, curr_req, next_line, exit_drivers>>
    BY <1>6 DEF LockIdle, LockFinish, WaitForWork, GoHome, PopFreedQueue, Drive, Lock, world
  <1>7. ASSUME NEW t \in Threads, SpuriousWakeup(t)
        PROVE  UNCHANGED <<request_queue, curr_req, next_line, exit_drivers>>
    BY <1>7 DEF SpuriousWakeup, world
  <1>8. CASE UNCHANGED vars
    BY <1>8 DEF vars, world
  <1> QED BY <1>1, <1>2, <1>3, <1>4, <1>5, <1>6, <1>7, <1>8
          DEF Next, Stopped, DispatcherStep, DriverStep

(* ExitMeansDone: once the drivers are sent home every request is done.    *)
LEMMA ExitMeansDone ==
    ASSUME IInv, exit_drivers, NEW r \in Requests
    PROVE  StateIn(r, Contents(request_queue), curr_req, next_line) = "done"
  <1>1. ExitAfterLastRide
    BY IInvExit
  <1>2. next_line = NumRequests + 1 /\ Empty(request_queue)
        /\ DriversAt({"drive", "finish", "account"}) = {}
    BY <1>1 DEF ExitAfterLastRide
  <1>3. DOMAIN Contents(request_queue) = {}
    <2>1. Size(request_queue) = 0 /\ DOMAIN Contents(request_queue) = 1 .. Size(request_queue)
      BY <1>2, EmptyValue, ContentsType DEF IInv, TypeOK, Queues
    <2> QED BY <2>1
  <1>4. \A d \in Drivers : curr_req[d] = NoRequest
    BY <1>2 DEF DriversAt, IInv, HandsFull
  <1>5. r # NoRequest /\ ~(r >= next_line)
    BY <1>2, ThreadFacts DEF Requests, NoRequest
  <1> QED BY <1>3, <1>4, <1>5 DEF StateIn

(* TheState: the mapped state of all requests, before and after a step.    *)
TheState == [r \in Requests |-> StateIn(r, Contents(request_queue), curr_req, next_line)]

LEMMA MappedState ==
    TypeOK => [r \in Requests |-> RequestState(r)] = TheState
  BY StateOfRequest DEF TheState

LEMMA ExitState ==
    IInv /\ exit_drivers => \A r \in Requests : TheState[r] = "done"
  BY ExitMeansDone DEF TheState

(* ServiceStep: every step of the threads is a step of the ride service or *)
(* changes nothing that a customer could see, and keeps requests apart.    *)
LEMMA ServiceStep ==
    ASSUME IInv, IInv', RequestsApart, [Next]_vars
    PROVE  RequestsApart' /\ [Service!Next]_Service!vars
  <1> DEFINE s == Contents(request_queue)
  <1>1. /\ request_queue \in Queues(StoredRequests)
        /\ s \in Seq(Requests) /\ Len(s) = Size(request_queue)
        /\ Size(request_queue) \in Nat /\ Size(request_queue) <= MAX_QUEUE_SIZE
        /\ MAX_QUEUE_SIZE \in Nat
    BY ContentsType, QueueSizesAssumption DEF IInv, TypeOK, QueueHoldsRequests, StoredRequests
  <1>2. /\ curr_req \in [Drivers -> Requests \cup {NoRequest}]
        /\ next_line \in Int /\ exit_drivers \in BOOLEAN /\ Requests \subseteq Int
    BY ThreadFacts DEF IInv, TypeOK, Requests
  <1>3. Apart(s, curr_req, next_line)
    BY DEF RequestsApart
  <1>4. /\ [r \in Requests |-> RequestState(r)] = TheState
        /\ [r \in Requests |-> RequestState(r)]' = TheState'
    <2>1. (TypeOK => [r \in Requests |-> RequestState(r)] = TheState)'
      BY MappedState, PTL
    <2> QED BY <2>1, MappedState DEF IInv
  <1>5. TheState = [r \in Requests |-> StateIn(r, s, curr_req, next_line)]
    BY DEF TheState
  <1>6. TheState' = [r \in Requests |-> StateIn(r, s', curr_req', next_line')]
    BY DEF TheState
  <1>7. CASE UNCHANGED <<request_queue, curr_req, next_line, exit_drivers>>
    <2>1. s' = s
      BY <1>7 DEF Contents, Size
    <2>2. TheState' = TheState
      BY <1>5, <1>6, <1>7, <2>1
    <2> QED BY <1>4, <1>7, <2>1, <2>2 DEF RequestsApart, Service!vars
  <1>8. CASE /\ Size(request_queue) # MAX_QUEUE_SIZE /\ next_line \in Requests
             /\ request_queue' = PushBack(request_queue, next_line)
             /\ next_line' = next_line + 1
             /\ UNCHANGED <<curr_req, exit_drivers>>
    <2>1. s' = Append(s, next_line)
      <3>1. Size(request_queue) < MAX_QUEUE_SIZE /\ next_line \in StoredRequests
        BY <1>1, <1>8 DEF StoredRequests
      <3> QED BY <1>1, <1>8, <3>1, PushBackValue
    <2> HIDE DEF s
    <2>2. /\ Apart(s', curr_req', next_line')
          /\ \A r \in Requests : StateIn(r, s', curr_req', next_line')
               = IF r = next_line THEN "pending" ELSE StateIn(r, s, curr_req, next_line)
          /\ StateIn(next_line, s, curr_req, next_line) = "unread"
          /\ \A r \in Requests : r < next_line => StateIn(r, s, curr_req, next_line) # "unread"
      BY <1>1, <1>2, <1>3, <1>8, <2>1, Pushed
    <2>3. TheState' = [TheState EXCEPT ![next_line] = "pending"]
      BY <1>5, <1>6, <1>8, <2>2
    <2>4. Len(s) < MAX_QUEUE_SIZE
      BY <1>1, <1>8
    <2>5. /\ TheState[next_line] = "unread"
          /\ \A r \in Requests : r < next_line => TheState[r] # "unread"
      BY <1>5, <1>8, <2>2
    <2>6. Service!Accept(next_line)
      BY <1>4, <1>8, <2>1, <2>3, <2>4, <2>5 DEF Service!Accept, Service!Requests, Requests, s
    <2> QED BY <1>8, <2>2, <2>6 DEF Service!Next, Service!Requests, Requests, RequestsApart, s
  <1>9. ASSUME NEW d \in Drivers,
               ~Empty(request_queue), ~exit_drivers, curr_req[d] = NoRequest,
               request_queue' = PopFront(request_queue),
               curr_req' = [curr_req EXCEPT ![d] = Front(request_queue)],
               UNCHANGED <<next_line, exit_drivers>>
        PROVE  RequestsApart' /\ [Service!Next]_Service!vars
    <2>1. s' = Tail(s) /\ Front(request_queue) = Head(s) /\ s # <<>>
      BY <1>1, <1>9, PopFrontValue, EmptyValue DEF Queues
    <2> HIDE DEF s
    <2>2. /\ Apart(s', curr_req', next_line')
          /\ \A r \in Requests : StateIn(r, s', curr_req', next_line')
               = IF r = Head(s) THEN "riding" ELSE StateIn(r, s, curr_req, next_line)
      <3>1. /\ Apart(Tail(s), [curr_req EXCEPT ![d] = Head(s)], next_line)
            /\ \A r \in Requests :
                 StateIn(r, Tail(s), [curr_req EXCEPT ![d] = Head(s)], next_line)
                   = IF r = Head(s) THEN "riding" ELSE StateIn(r, s, curr_req, next_line)
        BY <1>1, <1>2, <1>3, <1>9, <2>1, Popped
      <3>2. /\ s' = Tail(s) /\ curr_req' = [curr_req EXCEPT ![d] = Head(s)]
            /\ next_line' = next_line
        BY <1>9, <2>1
      <3> QED BY <3>1, <3>2, Zenon
    <2>3. TheState' = [TheState EXCEPT ![Head(s)] = "riding"]
      BY <1>5, <1>6, <2>2
    <2>4. Service!PickUp
      BY <1>4, <1>9, <2>1, <2>3 DEF Service!PickUp, s
    <2> QED BY <2>2, <2>4 DEF Service!Next, RequestsApart, s
  <1>10. ASSUME NEW d \in Drivers,
                curr_req[d] # NoRequest,
                curr_req' = [curr_req EXCEPT ![d] = NoRequest],
                UNCHANGED <<request_queue, next_line, exit_drivers>>
         PROVE  RequestsApart' /\ [Service!Next]_Service!vars
    <2>1. s' = s
      BY <1>10 DEF Contents, Size
    <2> HIDE DEF s
    <2>2. /\ Apart(s', curr_req', next_line')
          /\ \A r \in Requests : StateIn(r, s', curr_req', next_line')
               = IF r = curr_req[d] THEN "done" ELSE StateIn(r, s, curr_req, next_line)
          /\ curr_req[d] \in Requests /\ StateIn(curr_req[d], s, curr_req, next_line) = "riding"
      <3>1. /\ s \in Seq(Requests) /\ next_line \in Int
            /\ curr_req \in [Drivers -> Requests \cup {NoRequest}]
            /\ curr_req[d] # NoRequest /\ curr_req' = [curr_req EXCEPT ![d] = NoRequest]
            /\ s' = s /\ next_line' = next_line
        BY <1>1, <1>2, <1>10, <2>1
      <3>2. Apart(s, curr_req', next_line)
        BY <3>1, <1>3, Dropped
      <3>3. ASSUME NEW r \in Requests
            PROVE  StateIn(r, s, curr_req', next_line)
                     = IF r = curr_req[d] THEN "done" ELSE StateIn(r, s, curr_req, next_line)
        <4>1. curr_req'[d] = NoRequest /\ \A e \in Drivers : e # d => curr_req'[e] = curr_req[e]
          BY <3>1
        <4>2. (\E e \in Drivers : curr_req'[e] = r)
                <=> r # curr_req[d] /\ \E e \in Drivers : curr_req[e] = r
          <5>1. NoRequest # r
            BY ThreadFacts DEF Requests, NoRequest
          <5>2. \A e \in Drivers : curr_req[e] = curr_req[d] => e = d
            BY <1>3, <3>1 DEF Apart
          <5> QED BY <4>1, <5>1, <5>2
        <4>3. r = curr_req[d] => ~\E i \in DOMAIN s : s[i] = r
          BY <1>3, <3>1 DEF Apart
        <4>4. r = curr_req[d] => ~(r >= next_line)
          <5>1. curr_req[d] \in Requests /\ curr_req[d] < next_line
            BY <1>3, <3>1 DEF Apart
          <5>2. \A x \in Requests : x < next_line => ~(x >= next_line)
            BY <1>2
          <5> QED BY <5>1, <5>2
        <4>5. CASE r = curr_req[d]
          BY <4>2, <4>3, <4>4, <4>5 DEF StateIn
        <4>6. CASE r # curr_req[d]
          BY <4>2, <4>6 DEF StateIn
        <4> QED BY <4>5, <4>6
      <3>4. curr_req[d] \in Requests
        BY <3>1, <1>3, Dropped
      <3>5. StateIn(curr_req[d], s, curr_req, next_line) = "riding"
        BY <3>1, <1>3, Dropped
      <3> QED BY <3>1, <3>2, <3>3, <3>4, <3>5, Zenon
    <2>3. TheState' = [TheState EXCEPT ![curr_req[d]] = "done"] /\ TheState[curr_req[d]] = "riding"
      BY <1>5, <1>6, <2>2
    <2>4. Service!DropOff(curr_req[d])
      BY <1>4, <1>10, <2>1, <2>3 DEF Service!DropOff, s
    <2> QED BY <2>2, <2>4 DEF Service!Next, Service!Requests, Requests, RequestsApart, s
  <1>11. CASE exit_drivers' = TRUE /\ UNCHANGED <<request_queue, curr_req, next_line>>
    <2>1. s' = s /\ TheState' = TheState
      BY <1>5, <1>6, <1>11 DEF Contents, Size
    <2>2. \A r \in Requests : TheState'[r] = "done"
      <3>1. (IInv /\ exit_drivers => \A r \in Requests : TheState[r] = "done")'
        BY ExitState, PTL
      <3> QED BY <1>11, <3>1
    <2>3. Service!Close
      BY <1>4, <1>11, <2>1, <2>2 DEF Service!Close, Service!Requests, Requests, s
    <2> QED BY <1>11, <2>1, <2>3 DEF Service!Next, RequestsApart
  <1> QED BY <1>7, <1>8, <1>9, <1>10, <1>11, WhatStepsDo

(* DispatchImplementsRideService: with any number of drivers and requests, *)
(* any size of the queue and any spurious wakeups, requests are accepted   *)
(* in the order of the input, taken first come first served by one driver  *)
(* each, and the drivers are sent home after the last; the circular queue  *)
(* loses, repeats and reorders nothing.                                    *)
THEOREM DispatchImplementsRideService == Spec => ImplementsRideService
  <1>1. Init => RequestsApart /\ Service!Init
    <2> SUFFICES ASSUME Init PROVE RequestsApart /\ Service!Init
      OBVIOUS
    <2>1. IInv
      BY InitIInv
    <2>2. Contents(request_queue) = <<>>
      <3>1. NoRequest \in StoredRequests
        BY DEF StoredRequests
      <3> QED BY <3>1, QueueInitValue DEF Init
    <2>3. curr_req = [d \in Drivers |-> NoRequest] /\ next_line = 1 /\ exit_drivers = FALSE
      BY DEF Init
    <2>4. RequestsApart
      BY <2>2, <2>3 DEF RequestsApart, Apart
    <2>5. TheState = [r \in Requests |-> "unread"]
      BY <2>3, ThreadFacts DEF TheState, StateIn, Requests
    <2>6. Service!Init
      BY <2>1, <2>2, <2>3, <2>5, MappedState DEF Service!Init, Service!Requests, Requests, IInv
    <2> QED BY <2>4, <2>6
  <1>2. IInv /\ IInv' /\ RequestsApart /\ [Next]_vars
          => RequestsApart' /\ [Service!Next]_Service!vars
    BY ServiceStep
  <1> QED BY <1>1, <1>2, InitIInv, NextIInv, PTL
          DEF Spec, ImplementsRideService, Service!Spec

-----------------------------------------------------------------------------
(***************************************************************************)
(* Sleepers.  Only the dispatcher waits on cond_full and cond_done, so a   *)
(* signal on one of them cannot go to anybody else.                        *)
(***************************************************************************)
LEMMA OnlyWaiter ==
    ASSUME TypeOK, NEW cond \in {"cond_full", "cond_done"}, NEW d \in Drivers, NEW label,
           SignalThenGo(cond, d, label)
    PROVE  pc'[Dispatcher] = IF pc[Dispatcher] = cond THEN Woken(cond) ELSE pc[Dispatcher]
  <1>1. /\ Dispatcher \in Threads /\ d \in Threads /\ d # Dispatcher
        /\ pc \in [Threads -> DispatcherLabels \cup DriverLabels]
    BY ThreadFacts DEF TypeOK
  <1>2. Waiters(cond) = IF pc[Dispatcher] = cond THEN {Dispatcher} ELSE {}
    BY <1>1 DEF Waiters, Threads, TypeOK, DriverLabels
  <1>3. CASE pc[Dispatcher] = cond
    BY <1>1, <1>2, <1>3 DEF SignalThenGo
  <1>4. CASE pc[Dispatcher] # cond
    BY <1>1, <1>2, <1>4 DEF SignalThenGo
  <1> QED BY <1>3, <1>4

\* The dispatcher waits for the last ride with dispatch_done set, so drivers signal it.
DoneAnnounced == pc[Dispatcher] = "cond_done" => dispatch_done

(* DispatcherSleeps: how a step can leave the dispatcher asleep.           *)
LEMMA DispatcherSleeps ==
    ASSUME IInv, [Next]_vars
    PROVE  \/ pc'[Dispatcher] \notin {"cond_full", "cond_done"}
           \/ /\ pc'[Dispatcher] = pc[Dispatcher]
              /\ UNCHANGED <<request_queue, total_rides, rides_done, dispatch_done>>
           \/ /\ pc'[Dispatcher] = "cond_full"
              /\ Size(request_queue) = MAX_QUEUE_SIZE /\ request_queue' = request_queue
           \/ /\ pc'[Dispatcher] = "cond_done" /\ total_rides' # rides_done' /\ dispatch_done'
           \/ /\ pc'[Dispatcher] = pc[Dispatcher] /\ pc[Dispatcher] # "cond_full"
              /\ UNCHANGED <<total_rides, rides_done, dispatch_done>>
           \/ /\ pc'[Dispatcher] = pc[Dispatcher]
              /\ pc[Dispatcher] # "cond_done" \/ ~(dispatch_done /\ rides_done' = total_rides')
              /\ UNCHANGED <<request_queue, dispatch_done>>
  <1> USE ThreadFacts
  <1>1. TypeOK /\ pc \in [Threads -> DispatcherLabels \cup DriverLabels]
    BY DEF IInv, TypeOK
  <1>2. CASE ReadRequest \/ EndOfInput \/ RelockFull \/ RelockDone
    BY <1>1, <1>2 DEF ReadRequest, EndOfInput, RelockFull, RelockDone, Lock
  <1>3. CASE Dispatch \/ DispatchAgain
    <2>1. EnqueueOrWait /\ pc[Dispatcher] \in {"dispatch", "redispatch"}
      BY <1>3 DEF Dispatch, DispatchAgain
    <2>2. CASE Size(request_queue) = MAX_QUEUE_SIZE
      BY <1>1, <2>1, <2>2 DEF EnqueueOrWait
    <2>3. CASE Size(request_queue) # MAX_QUEUE_SIZE
      <3>1. SignalThenGo("cond_empty", Dispatcher, "getline")
        BY <2>1, <2>3 DEF EnqueueOrWait
      <3>2. pc'[Dispatcher] = "getline"
        BY <1>1, <2>1, <3>1, SignalEffect DEF DispatcherLabels
      <3> QED BY <3>2
    <2> QED BY <2>2, <2>3
  <1>4. CASE Closing
    BY <1>1, <1>4 DEF Closing
  <1>5. ASSUME NEW d \in Drivers, TakeRequest(d)
        PROVE  \/ pc'[Dispatcher] = "wake_full"
               \/ /\ pc'[Dispatcher] = pc[Dispatcher] /\ pc[Dispatcher] # "cond_full"
                  /\ UNCHANGED <<total_rides, rides_done, dispatch_done>>
    BY <1>1, <1>5, OnlyWaiter DEF TakeRequest, Woken
  <1>6. ASSUME NEW d \in Drivers, Account(d)
        PROVE  \/ pc'[Dispatcher] = "wake_done"
               \/ /\ pc'[Dispatcher] = pc[Dispatcher]
                  /\ pc[Dispatcher] # "cond_done" \/ ~(dispatch_done /\ rides_done' = total_rides')
                  /\ UNCHANGED <<request_queue, dispatch_done>>
    <2>1. CASE dispatch_done /\ rides_done' = total_rides
      BY <1>1, <1>6, <2>1, OnlyWaiter DEF Account, Woken
    <2>2. CASE ~(dispatch_done /\ rides_done' = total_rides)
      BY <1>1, <1>6, <2>2 DEF Account
    <2> QED BY <2>1, <2>2
  <1>7. ASSUME NEW d \in Drivers,
               LockIdle(d) \/ LockFinish(d) \/ WaitForWork(d) \/ GoHome(d)
                 \/ PopFreedQueue(d) \/ Drive(d)
        PROVE  /\ pc'[Dispatcher] = pc[Dispatcher]
               /\ UNCHANGED <<request_queue, total_rides, rides_done, dispatch_done>>
    BY <1>1, <1>7
       DEF LockIdle, LockFinish, WaitForWork, GoHome, PopFreedQueue, Drive, Lock, world
  <1>8. ASSUME NEW t \in Threads, SpuriousWakeup(t)
        PROVE  \/ pc'[Dispatcher] \notin {"cond_full", "cond_done"}
               \/ /\ pc'[Dispatcher] = pc[Dispatcher]
                  /\ UNCHANGED <<request_queue, total_rides, rides_done, dispatch_done>>
    BY <1>1, <1>8 DEF SpuriousWakeup, Woken, world
  <1>9. CASE UNCHANGED vars
    BY <1>9 DEF vars, world
  <1> QED BY <1>2, <1>3, <1>4, <1>5, <1>6, <1>7, <1>8, <1>9
          DEF Next, Stopped, DispatcherStep, DriverStep

(* DispatchWakeups: the dispatcher sleeps only while the queue is full, or *)
(* while a ride is left, for any number of drivers that pop and signal and *)
(* any spurious wakeups.                                                   *)
THEOREM DispatchWakeups == Spec => []NoMissedWakeup
  <1>1. Init => NoMissedWakeup /\ DoneAnnounced
    BY ThreadFacts DEF Init, NoMissedWakeup, DoneAnnounced
  <1>2. IInv /\ NoMissedWakeup /\ DoneAnnounced /\ [Next]_vars
          => NoMissedWakeup' /\ DoneAnnounced'
    <2> SUFFICES ASSUME IInv, NoMissedWakeup, DoneAnnounced, [Next]_vars
                 PROVE  NoMissedWakeup' /\ DoneAnnounced'
      OBVIOUS
    <2>1. request_queue' = request_queue => Size(request_queue)' = Size(request_queue)
      BY DEF Size
    <2> QED BY <2>1, DispatcherSleeps DEF NoMissedWakeup, DoneAnnounced
  <1> QED BY <1>1, <1>2, InitIInv, NextIInv, PTL DEF Spec

-----------------------------------------------------------------------------
(***************************************************************************)
(* NoIdleBacklog: what a step does to the drivers that sleep and to those  *)
(* that are on their way to the queue.                                     *)
(***************************************************************************)
Asleep == DriversAt({"cond_empty"})
Awake == DriversAt({"idle", "check"})

LEMMA AwakeFinite ==
    IsFiniteSet(Awake) /\ Cardinality(Awake) \in Nat /\ Awake \subseteq Drivers
  BY ThreadFacts, FS_Subset, FS_CardinalityType DEF Awake, DriversAt

(* BacklogKept: nobody falls asleep or leaves and nothing is queued.       *)
LEMMA BacklogKept ==
    ASSUME NoIdleBacklog, NEW more, IsFiniteSet(more),
           Awake \subseteq more, Awake' = more, Asleep' \subseteq Asleep,
           crashed' = crashed, request_queue' = request_queue,
           Size(request_queue) \in Nat
    PROVE  NoIdleBacklog'
  <1>1. Size(request_queue)' = Size(request_queue)
    BY DEF Size
  <1>2. /\ Cardinality(more) \in Nat /\ Cardinality(Awake) \in Nat
        /\ Cardinality(Awake) <= Cardinality(more)
    BY AwakeFinite, FS_Subset, FS_CardinalityType
  <1>3. Cardinality(Awake)' = Cardinality(more)
    OBVIOUS
  <1>4. Asleep' # {} /\ ~crashed' => Asleep # {} /\ ~crashed
    OBVIOUS
  <1>5. /\ NoIdleBacklog <=> (Asleep # {} /\ ~crashed => Size(request_queue) <= Cardinality(Awake))
        /\ NoIdleBacklog' <=> (Asleep' # {} /\ ~crashed' => Size(request_queue)' <= Cardinality(Awake)')
    BY DEF NoIdleBacklog, Asleep, Awake
  <1> QED BY <1>1, <1>2, <1>3, <1>4, <1>5

(* EmptyBacklog: an empty queue needs nobody.                              *)
LEMMA EmptyBacklog ==
    ASSUME Size(request_queue) = 0, request_queue' = request_queue,
           Cardinality(Awake)' \in Nat
    PROVE  NoIdleBacklog'
  <1>1. Size(request_queue)' = 0
    BY DEF Size
  <1> QED BY <1>1 DEF NoIdleBacklog, Awake

(* BacklogStep: a signal per request is enough.                            *)
LEMMA BacklogStep ==
    ASSUME IInv, IInv', NoIdleBacklog, [Next]_vars
    PROVE  NoIdleBacklog'
  <1> USE ThreadFacts
  <1>1. /\ TypeOK /\ pc \in [Threads -> DispatcherLabels \cup DriverLabels]
        /\ request_queue \in Queues(StoredRequests)
        /\ Size(request_queue) \in Nat
        /\ pc[Dispatcher] \notin {"cond_empty", "idle", "check"}
    BY ContentsType DEF IInv, TypeOK, StoredRequests, DispatcherLabels
  <1>2. /\ IsFiniteSet(Awake) /\ Cardinality(Awake) \in Nat
        /\ IsFiniteSet(Awake') /\ Cardinality(Awake)' \in Nat /\ Awake' \subseteq Drivers
    <2>1. (IsFiniteSet(Awake) /\ Cardinality(Awake) \in Nat /\ Awake \subseteq Drivers)'
      BY AwakeFinite, PTL
    <2> QED BY <2>1, AwakeFinite
  <1>3. ASSUME ~(exit_drivers \/ ~queue_live) => Empty(request_queue),
               request_queue' = request_queue
        PROVE  NoIdleBacklog'
    <2>1. Empty(request_queue)
      BY <1>3, IInvExit DEF ExitAfterLastRide
    <2>2. Size(request_queue) = 0
      BY <1>1, <2>1, EmptyValue DEF Queues
    <2> QED BY <1>2, <1>3, <2>2, EmptyBacklog
  <1>4. CASE UNCHANGED <<request_queue, crashed>> /\ Awake \subseteq Awake' /\ Asleep' \subseteq Asleep
    BY <1>1, <1>2, <1>4, BacklogKept
  <1>5. {"drive", "exited"} \subseteq DispatcherLabels \cup DriverLabels /\ DOMAIN pc = Threads
    BY <1>1 DEF DriverLabels
  <1>6. CASE ReadRequest \/ EndOfInput \/ RelockFull \/ RelockDone
    <2>1. /\ UNCHANGED <<request_queue, crashed>>
          /\ \A d \in Drivers : pc'[d] = pc[d]
      BY <1>1, <1>6 DEF ReadRequest, EndOfInput, RelockFull, RelockDone, Lock, world
    <2> QED BY <1>4, <2>1 DEF Awake, Asleep, DriversAt
  <1>7. CASE Dispatch \/ DispatchAgain
    <2>1. EnqueueOrWait /\ pc[Dispatcher] \in {"dispatch", "redispatch"}
      BY <1>7 DEF Dispatch, DispatchAgain
    <2>2. CASE Size(request_queue) = MAX_QUEUE_SIZE
      <3>1. /\ UNCHANGED <<request_queue, crashed>>
            /\ \A d \in Drivers : pc'[d] = pc[d]
        BY <1>1, <2>1, <2>2 DEF EnqueueOrWait
      <3> QED BY <1>4, <3>1 DEF Awake, Asleep, DriversAt
    <2>3. CASE Size(request_queue) # MAX_QUEUE_SIZE
      <3>1. /\ request_queue' = PushBack(request_queue, next_line)
            /\ SignalThenGo("cond_empty", Dispatcher, "getline") /\ crashed' = crashed
        BY <2>1, <2>3 DEF EnqueueOrWait
      <3>2. Size(request_queue)' = Size(request_queue) + 1
        <4>1. Size(request_queue) < MAX_QUEUE_SIZE
          BY <1>1, <2>3, QueueSizesAssumption DEF IInv, QueueHoldsRequests
        <4>2. next_line \in StoredRequests
          BY <2>1 DEF IInv, TypeOK, InputProgress, HoldsRequest, StoredRequests, Requests
        <4> QED BY <1>1, <3>1, <4>1, <4>2, PushBackValue
      <3>3. CASE Waiters("cond_empty") = {}
        <4>1. Asleep' = {}
          BY <1>1, <3>1, <3>3 DEF SignalThenGo, Waiters, Asleep, DriversAt
        <4> QED BY <4>1 DEF NoIdleBacklog, Asleep
      <3>4. CASE Waiters("cond_empty") # {}
        <4>1. PICK w \in Waiters("cond_empty") :
                pc' = [pc EXCEPT ![w] = "idle", ![Dispatcher] = "getline"]
          BY <3>1, <3>4 DEF SignalThenGo, Woken
        <4>2. w \in Drivers /\ pc[w] = "cond_empty"
          BY <1>1 DEF Waiters, Threads
        <4>3. Awake' = Awake \cup {w} /\ w \notin Awake /\ w \in Asleep
          BY <1>1, <4>1, <4>2 DEF Awake, Asleep, DriversAt
        <4>4. Cardinality(Awake') = Cardinality(Awake) + 1
          BY <1>2, <4>3, FS_AddElement
        <4>5. NoIdleBacklog <=> (Asleep # {} /\ ~crashed => Size(request_queue) <= Cardinality(Awake))
          BY DEF NoIdleBacklog, Asleep, Awake
        <4>6. ~crashed => Size(request_queue)' <= Cardinality(Awake)'
          BY <1>1, <1>2, <3>2, <4>3, <4>4, <4>5
        <4> QED BY <3>1, <4>6 DEF NoIdleBacklog, Awake
      <3> QED BY <3>3, <3>4
    <2> QED BY <2>2, <2>3
  <1>8. CASE Closing
    <2>1. /\ UNCHANGED <<request_queue, crashed>>
          /\ \A d \in Drivers : pc'[d] = pc[d] \/ (pc[d] = "cond_empty" /\ pc'[d] = "idle")
      <3>1. Woken("cond_empty") = "idle" /\ UNCHANGED <<request_queue, crashed>>
        BY <1>8 DEF Woken, Closing
      <3>2. CASE total_rides # rides_done
        <4>1. pc' = [pc EXCEPT ![Dispatcher] = "cond_done"]
          BY <1>8, <3>2 DEF Closing
        <4> QED BY <1>1, <3>1, <4>1
      <3>3. CASE total_rides = rides_done
        <4>1. pc' = [t \in Threads |->
                       IF t = Dispatcher THEN "exited"
                       ELSE IF pc[t] = "cond_empty" THEN Woken("cond_empty") ELSE pc[t]]
          BY <1>8, <3>3 DEF Closing
        <4> QED BY <3>1, <4>1
      <3> QED BY <3>2, <3>3
    <2> QED BY <1>4, <2>1 DEF Awake, Asleep, DriversAt
  <1>9. ASSUME NEW d \in Drivers, LockIdle(d) \/ LockFinish(d) \/ Drive(d) PROVE NoIdleBacklog'
    <2>1. /\ UNCHANGED <<request_queue, crashed>>
          /\ \A e \in Drivers \ {d} : pc'[e] = pc[e]
          /\ \/ pc[d] = "idle" /\ pc'[d] = "check"
             \/ pc[d] \in {"finish", "drive"} /\ pc'[d] \in {"account", "finish"}
      BY <1>1, <1>9 DEF LockIdle, LockFinish, Drive, Lock, world
    <2> QED BY <1>4, <2>1 DEF Awake, Asleep, DriversAt
  <1>10. ASSUME NEW d \in Drivers, WaitForWork(d) PROVE NoIdleBacklog'
    <2>1. /\ request_queue' = request_queue
          /\ ~(exit_drivers \/ ~queue_live) => Empty(request_queue)
      BY <1>10 DEF WaitForWork, SeesEmpty, world
    <2> QED BY <1>3, <2>1
  <1>11. ASSUME NEW d \in Drivers, GoHome(d) PROVE NoIdleBacklog'
    <2>1. request_queue' = request_queue /\ exit_drivers
      BY <1>11 DEF GoHome, world
    <2> QED BY <1>3, <2>1
  <1>12. ASSUME NEW d \in Drivers, TakeRequest(d) PROVE NoIdleBacklog'
    <2>1. /\ pc[d] = "check" /\ ~Empty(request_queue) /\ crashed' = crashed
          /\ request_queue' = PopFront(request_queue)
          /\ SignalThenGo("cond_full", d, "drive")
      BY <1>12 DEF TakeRequest, SeesEmpty
    <2>2. Size(request_queue)' = Size(request_queue) - 1
      BY <1>1, <2>1, PopFrontValue, EmptyValue DEF Queues
    <2>3. pc'[d] = "drive" /\ \A e \in Drivers \ {d} : pc'[e] = pc[e]
      <3>1. /\ pc'[d] = "drive"
            /\ \A u \in Threads \ {d} :
                 pc'[u] = pc[u] \/ (pc[u] = "cond_full" /\ pc'[u] = "wake_full")
        <4>1. /\ d \in Threads /\ pc[d] # "cond_full" /\ DOMAIN pc = Threads
              /\ pc \in [Threads -> DispatcherLabels \cup DriverLabels]
              /\ "drive" \in DispatcherLabels \cup DriverLabels
              /\ Woken("cond_full") = "wake_full"
          BY <1>1, <1>5, <2>1 DEF Woken
        <4> QED BY <2>1, <4>1, SignalEffect
      <3>2. \A e \in Drivers : pc[e] # "cond_full"
        BY <1>1 DEF TypeOK, DriverLabels
      <3> QED BY <3>1, <3>2
    <2>4. Awake' = Awake \ {d} /\ d \in Awake /\ Asleep' = Asleep
      BY <2>1, <2>3 DEF Awake, Asleep, DriversAt
    <2>5. Cardinality(Awake') = Cardinality(Awake) - 1
      BY <1>2, <2>4, FS_RemoveElement
    <2>6. NoIdleBacklog <=> (Asleep # {} /\ ~crashed => Size(request_queue) <= Cardinality(Awake))
      BY DEF NoIdleBacklog, Asleep, Awake
    <2>7. Asleep' # {} /\ ~crashed' => Size(request_queue)' <= Cardinality(Awake)'
      BY <1>1, <1>2, <2>1, <2>2, <2>4, <2>5, <2>6
    <2> QED BY <2>7 DEF NoIdleBacklog, Asleep, Awake
  <1>13. ASSUME NEW d \in Drivers, PopFreedQueue(d) PROVE NoIdleBacklog'
    BY <1>13 DEF PopFreedQueue, NoIdleBacklog
  <1>14. ASSUME NEW d \in Drivers, Account(d) PROVE NoIdleBacklog'
    <2>1. pc[d] = "account" /\ UNCHANGED <<request_queue, crashed>>
      BY <1>14 DEF Account
    <2>2. pc'[d] # "cond_empty" /\ \A e \in Drivers \ {d} : pc'[e] = pc[e]
      <3>1. CASE dispatch_done /\ rides_done' = total_rides
        <4>1. SignalThenGo("cond_done", d, "exited")
          BY <1>14, <3>1 DEF Account
        <4>2. /\ pc'[d] = "exited"
              /\ \A u \in Threads \ {d} :
                   pc'[u] = pc[u] \/ (pc[u] = "cond_done" /\ pc'[u] = "wake_done")
          <5>1. /\ d \in Threads /\ pc[d] # "cond_done" /\ DOMAIN pc = Threads
                /\ pc \in [Threads -> DispatcherLabels \cup DriverLabels]
                /\ "exited" \in DispatcherLabels \cup DriverLabels
                /\ Woken("cond_done") = "wake_done"
            BY <1>1, <1>5, <2>1 DEF Woken
          <5> QED BY <4>1, <5>1, SignalEffect
        <4>3. \A e \in Drivers : pc[e] # "cond_done"
          BY <1>1 DEF TypeOK, DriverLabels
        <4> QED BY <4>2, <4>3
      <3>2. CASE ~(dispatch_done /\ rides_done' = total_rides)
        BY <1>1, <1>14, <3>2 DEF Account
      <3> QED BY <3>1, <3>2
    <2> QED BY <1>4, <2>1, <2>2 DEF Awake, Asleep, DriversAt
  <1>15. ASSUME NEW t \in Threads, SpuriousWakeup(t) PROVE NoIdleBacklog'
    <2>1. /\ UNCHANGED <<request_queue, crashed>>
          /\ \A e \in Threads \ {t} : pc'[e] = pc[e]
          /\ pc[t] \in {"cond_empty", "cond_full", "cond_done"}
          /\ pc'[t] \in {"idle", "wake_full", "wake_done"}
      BY <1>1, <1>15 DEF SpuriousWakeup, Woken, world
    <2> QED BY <1>4, <2>1 DEF Awake, Asleep, DriversAt
  <1>16. CASE UNCHANGED vars
    <2>1. UNCHANGED <<request_queue, crashed, pc>>
      BY <1>16 DEF vars, world
    <2> QED BY <1>4, <2>1 DEF Awake, Asleep, DriversAt
  <1> QED BY <1>6, <1>7, <1>8, <1>9, <1>10, <1>11, <1>12, <1>13, <1>14, <1>15, <1>16
          DEF Next, Stopped, DispatcherStep, DriverStep

(* DispatchBacklog: while a driver sleeps, each queued request has another *)
(* driver on its way to the queue, however many there are of either.       *)
THEOREM DispatchBacklog == Spec => []NoIdleBacklog
  <1>1. Init => NoIdleBacklog
    <2> SUFFICES ASSUME Init PROVE NoIdleBacklog
      OBVIOUS
    <2>1. DriversAt({"cond_empty"}) = {}
      BY ThreadFacts DEF Init, DriversAt
    <2> QED BY <2>1 DEF NoIdleBacklog
  <1>2. IInv /\ IInv' /\ NoIdleBacklog /\ [Next]_vars => NoIdleBacklog'
    BY BacklogStep
  <1> QED BY <1>1, <1>2, InitIInv, NextIInv, PTL DEF Spec

-----------------------------------------------------------------------------
(***************************************************************************)
(* AnsweredOnce: the customers without a response are at any time those    *)
(* whose request is unread, queued, or with a driver that is still driving *)
(* (Open); as a request is in one place at most, the response of a driver  *)
(* takes exactly one customer out of them.                                 *)
(***************************************************************************)
Driving == DriversAt({"drive"})

Open(s, cr, n, driving) ==
    {r \in Requests : \/ r >= n
                      \/ \E i \in DOMAIN s : s[i] = r
                      \/ \E d \in driving : cr[d] = r}

OpenRequests == Open(Contents(request_queue), curr_req, next_line, Driving)
Answered == {responded[i] : i \in DOMAIN responded}

Responses ==
    /\ \A i, j \in DOMAIN responded : responded[i] = responded[j] => i = j
    /\ Answered = Requests \ OpenRequests
    /\ pc[Dispatcher] = "exited" => exit_drivers

(* DrivingSteps: what steps do to the requests, the drivers on the road    *)
(* and the responses.                                                      *)
LEMMA DrivingSteps ==
    ASSUME IInv, [Next]_vars
    PROVE  \/ UNCHANGED <<request_queue, curr_req, next_line, responded>> /\ Driving' = Driving
           \/ /\ Size(request_queue) # MAX_QUEUE_SIZE /\ next_line \in Requests
              /\ request_queue' = PushBack(request_queue, next_line)
              /\ next_line' = next_line + 1
              /\ UNCHANGED <<curr_req, responded>> /\ Driving' = Driving
           \/ \E d \in Drivers \ Driving :
                /\ ~Empty(request_queue)
                /\ request_queue' = PopFront(request_queue)
                /\ curr_req' = [curr_req EXCEPT ![d] = Front(request_queue)]
                /\ UNCHANGED <<next_line, responded>> /\ Driving' = Driving \cup {d}
           \/ \E d \in Driving :
                /\ responded' = Append(responded, curr_req[d])
                /\ UNCHANGED <<request_queue, curr_req, next_line>>
                /\ Driving' = Driving \ {d}
           \/ \E d \in Drivers \ Driving :
                /\ curr_req' = [curr_req EXCEPT ![d] = NoRequest]
                /\ UNCHANGED <<request_queue, next_line, responded>> /\ Driving' = Driving
  <1> USE ThreadFacts
  <1>1. /\ TypeOK /\ pc \in [Threads -> DispatcherLabels \cup DriverLabels]
        /\ DOMAIN pc = Threads
        /\ {"drive", "exited"} \subseteq DispatcherLabels \cup DriverLabels
        /\ \A d \in Drivers : pc[d] \in DriverLabels
    BY DEF IInv, TypeOK, DriverLabels
  <1>2. \A d \in Drivers : pc[d] \notin {"cond_full", "cond_done"}
    BY <1>1 DEF DriverLabels
  <1>3. CASE ReadRequest \/ EndOfInput \/ RelockFull \/ RelockDone
    <2>1. /\ UNCHANGED <<request_queue, curr_req, next_line, responded>>
          /\ \A d \in Drivers : pc'[d] = pc[d]
      BY <1>1, <1>3 DEF ReadRequest, EndOfInput, RelockFull, RelockDone, Lock, world
    <2> QED BY <2>1 DEF Driving, DriversAt
  <1>4. CASE Dispatch \/ DispatchAgain
    <2>1. EnqueueOrWait /\ pc[Dispatcher] \in {"dispatch", "redispatch"}
      BY <1>4 DEF Dispatch, DispatchAgain
    <2>2. UNCHANGED <<curr_req, responded>>
      BY <2>1 DEF EnqueueOrWait
    <2>3. CASE Size(request_queue) = MAX_QUEUE_SIZE
      <3>1. UNCHANGED <<request_queue, next_line>> /\ \A d \in Drivers : pc'[d] = pc[d]
        BY <1>1, <2>1, <2>3 DEF EnqueueOrWait
      <3> QED BY <2>2, <3>1 DEF Driving, DriversAt
    <2>4. CASE Size(request_queue) # MAX_QUEUE_SIZE
      <3>1. /\ request_queue' = PushBack(request_queue, next_line)
            /\ next_line' = next_line + 1
            /\ SignalThenGo("cond_empty", Dispatcher, "getline")
        BY <2>1, <2>4 DEF EnqueueOrWait
      <3>2. \A u \in Threads \ {Dispatcher} :
               pc'[u] = pc[u] \/ (pc[u] = "cond_empty" /\ pc'[u] = "idle")
        <4>1. /\ Dispatcher \in Threads /\ pc[Dispatcher] # "cond_empty"
              /\ "getline" \in DispatcherLabels \cup DriverLabels
              /\ Woken("cond_empty") = "idle"
          BY <2>1 DEF Woken, DispatcherLabels
        <4> QED BY <1>1, <3>1, <4>1, SignalEffect
      <3>3. Driving' = Driving
        BY <3>2 DEF Driving, DriversAt
      <3>4. next_line \in Requests
        BY <2>1 DEF IInv, InputProgress, HoldsRequest, TypeOK, Requests
      <3> QED BY <2>2, <2>4, <3>1, <3>3, <3>4
    <2> QED BY <2>3, <2>4
  <1>5. CASE Closing
    <2>1. Woken("cond_empty") = "idle" /\ UNCHANGED <<request_queue, curr_req, next_line, responded>>
      BY <1>5 DEF Woken, Closing
    <2>2. \A d \in Drivers : pc'[d] = pc[d] \/ (pc[d] = "cond_empty" /\ pc'[d] = "idle")
      <3>1. CASE total_rides # rides_done
        <4>1. pc' = [pc EXCEPT ![Dispatcher] = "cond_done"]
          BY <1>5, <3>1 DEF Closing
        <4> QED BY <1>1, <4>1
      <3>2. CASE total_rides = rides_done
        <4>1. pc' = [t \in Threads |->
                       IF t = Dispatcher THEN "exited"
                       ELSE IF pc[t] = "cond_empty" THEN Woken("cond_empty") ELSE pc[t]]
          BY <1>5, <3>2 DEF Closing
        <4> QED BY <2>1, <4>1
      <3> QED BY <3>1, <3>2
    <2> QED BY <2>1, <2>2 DEF Driving, DriversAt
  <1>6. ASSUME NEW d \in Drivers,
               LockIdle(d) \/ LockFinish(d) \/ WaitForWork(d) \/ GoHome(d) \/ PopFreedQueue(d)
        PROVE  UNCHANGED <<request_queue, curr_req, next_line, responded>> /\ Driving' = Driving
    <2>1. /\ UNCHANGED <<request_queue, curr_req, next_line, responded>>
          /\ \A e \in Drivers : pc'[e] = pc[e] \/ (pc[e] # "drive" /\ pc'[e] # "drive")
      BY <1>1, <1>6 DEF LockIdle, LockFinish, WaitForWork, GoHome, PopFreedQueue, Lock, world
    <2> QED BY <2>1 DEF Driving, DriversAt
  <1>7. ASSUME NEW d \in Drivers, TakeRequest(d)
        PROVE  /\ d \notin Driving /\ ~Empty(request_queue)
               /\ request_queue' = PopFront(request_queue)
               /\ curr_req' = [curr_req EXCEPT ![d] = Front(request_queue)]
               /\ UNCHANGED <<next_line, responded>> /\ Driving' = Driving \cup {d}
    <2>1. /\ pc[d] = "check" /\ ~Empty(request_queue)
          /\ request_queue' = PopFront(request_queue)
          /\ curr_req' = [curr_req EXCEPT ![d] = Front(request_queue)]
          /\ SignalThenGo("cond_full", d, "drive")
          /\ UNCHANGED <<next_line, responded>>
      BY <1>7 DEF TakeRequest, SeesEmpty
    <2>2. /\ pc'[d] = "drive"
          /\ \A u \in Threads \ {d} :
               pc'[u] = pc[u] \/ (pc[u] = "cond_full" /\ pc'[u] = "wake_full")
      <3>1. /\ d \in Threads /\ pc[d] # "cond_full"
            /\ "drive" \in DispatcherLabels \cup DriverLabels
            /\ Woken("cond_full") = "wake_full"
        BY <1>1, <2>1 DEF Woken
      <3> QED BY <1>1, <2>1, <3>1, SignalEffect
    <2>3. d \notin Driving /\ Driving' = Driving \cup {d}
      BY <1>2, <2>1, <2>2 DEF Driving, DriversAt
    <2> QED BY <2>1, <2>3
  <1>8. ASSUME NEW d \in Drivers, Drive(d)
        PROVE  /\ d \in Driving /\ responded' = Append(responded, curr_req[d])
               /\ UNCHANGED <<request_queue, curr_req, next_line>>
               /\ Driving' = Driving \ {d}
    <2>1. /\ pc[d] = "drive" /\ pc' = [pc EXCEPT ![d] = "finish"]
          /\ responded' = Append(responded, curr_req[d])
          /\ UNCHANGED <<request_queue, curr_req, next_line>>
      BY <1>8 DEF Drive, world
    <2> QED BY <1>1, <2>1 DEF Driving, DriversAt
  <1>9. ASSUME NEW d \in Drivers, Account(d)
        PROVE  /\ d \notin Driving /\ curr_req' = [curr_req EXCEPT ![d] = NoRequest]
               /\ UNCHANGED <<request_queue, next_line, responded>> /\ Driving' = Driving
    <2>1. /\ pc[d] = "account" /\ curr_req' = [curr_req EXCEPT ![d] = NoRequest]
          /\ UNCHANGED <<request_queue, next_line, responded>>
      BY <1>9 DEF Account
    <2>2. pc'[d] # "drive" /\ \A e \in Drivers \ {d} : pc'[e] = pc[e]
      <3>1. CASE dispatch_done /\ rides_done' = total_rides
        <4>1. SignalThenGo("cond_done", d, "exited")
          BY <1>9, <3>1 DEF Account
        <4>2. /\ pc'[d] = "exited"
              /\ \A u \in Threads \ {d} :
                   pc'[u] = pc[u] \/ (pc[u] = "cond_done" /\ pc'[u] = "wake_done")
          <5>1. /\ d \in Threads /\ pc[d] # "cond_done"
                /\ "exited" \in DispatcherLabels \cup DriverLabels
                /\ Woken("cond_done") = "wake_done"
            BY <1>1, <2>1 DEF Woken
          <5> QED BY <1>1, <4>1, <5>1, SignalEffect
        <4> QED BY <1>2, <4>2
      <3>2. CASE ~(dispatch_done /\ rides_done' = total_rides)
        BY <1>1, <1>9, <3>2 DEF Account
      <3> QED BY <3>1, <3>2
    <2> QED BY <2>1, <2>2 DEF Driving, DriversAt
  <1>10. ASSUME NEW t \in Threads, SpuriousWakeup(t)
         PROVE  UNCHANGED <<request_queue, curr_req, next_line, responded>> /\ Driving' = Driving
    <2>1. /\ UNCHANGED <<request_queue, curr_req, next_line, responded>>
          /\ \A e \in Drivers : pc'[e] = pc[e] \/ (pc[e] # "drive" /\ pc'[e] # "drive")
      BY <1>1, <1>10 DEF SpuriousWakeup, Woken, world
    <2> QED BY <2>1 DEF Driving, DriversAt
  <1>11. CASE UNCHANGED vars
    BY <1>11 DEF vars, world, Driving, DriversAt
  <1> QED BY <1>3, <1>4, <1>5, <1>6, <1>7, <1>8, <1>9, <1>10, <1>11
          DEF Next, Stopped, DispatcherStep, DriverStep

(* DispatcherExits: the dispatcher ends only after it sent the drivers     *)
(* home, which is final.                                                   *)
LEMMA DispatcherExits ==
    ASSUME IInv, [Next]_vars, pc[Dispatcher] = "exited" => exit_drivers
    PROVE  pc'[Dispatcher] = "exited" => exit_drivers'
  <1> USE ThreadFacts
  <1>1. TypeOK /\ pc \in [Threads -> DispatcherLabels \cup DriverLabels]
    BY DEF IInv, TypeOK
  <1>2. CASE ReadRequest \/ EndOfInput \/ RelockFull \/ RelockDone
    BY <1>1, <1>2 DEF ReadRequest, EndOfInput, RelockFull, RelockDone, Lock
  <1>3. CASE Dispatch \/ DispatchAgain
    <2>1. EnqueueOrWait /\ pc[Dispatcher] \in {"dispatch", "redispatch"}
      BY <1>3 DEF Dispatch, DispatchAgain
    <2>2. CASE Size(request_queue) = MAX_QUEUE_SIZE
      BY <1>1, <2>1, <2>2 DEF EnqueueOrWait
    <2>3. CASE Size(request_queue) # MAX_QUEUE_SIZE
      <3>1. SignalThenGo("cond_empty", Dispatcher, "getline")
        BY <2>1, <2>3 DEF EnqueueOrWait
      <3>2. pc'[Dispatcher] = "getline"
        BY <1>1, <2>1, <3>1, SignalEffect DEF DispatcherLabels
      <3> QED BY <3>2
    <2> QED BY <2>2, <2>3
  <1>4. CASE Closing
    <2>1. CASE total_rides # rides_done
      BY <1>1, <1>4, <2>1 DEF Closing
    <2>2. CASE total_rides = rides_done
      BY <1>4, <2>2 DEF Closing
    <2> QED BY <2>1, <2>2
  <1>5. ASSUME NEW d \in Drivers, TakeRequest(d)
        PROVE  exit_drivers' = exit_drivers /\ pc'[Dispatcher] \in {"wake_full", pc[Dispatcher]}
    BY <1>1, <1>5, OnlyWaiter DEF TakeRequest, Woken
  <1>6. ASSUME NEW d \in Drivers, Account(d)
        PROVE  exit_drivers' = exit_drivers /\ pc'[Dispatcher] \in {"wake_done", pc[Dispatcher]}
    <2>1. CASE dispatch_done /\ rides_done' = total_rides
      BY <1>1, <1>6, <2>1, OnlyWaiter DEF Account, Woken
    <2>2. CASE ~(dispatch_done /\ rides_done' = total_rides)
      BY <1>1, <1>6, <2>2 DEF Account
    <2> QED BY <2>1, <2>2
  <1>7. ASSUME NEW d \in Drivers,
               LockIdle(d) \/ LockFinish(d) \/ WaitForWork(d) \/ GoHome(d)
                 \/ PopFreedQueue(d) \/ Drive(d)
        PROVE  exit_drivers' = exit_drivers /\ pc'[Dispatcher] = pc[Dispatcher]
    BY <1>1, <1>7
       DEF LockIdle, LockFinish, WaitForWork, GoHome, PopFreedQueue, Drive, Lock, world
  <1>8. ASSUME NEW t \in Threads, SpuriousWakeup(t)
        PROVE  exit_drivers' = exit_drivers
               /\ pc'[Dispatcher] \in {"idle", "wake_full", "wake_done", pc[Dispatcher]}
    BY <1>1, <1>8 DEF SpuriousWakeup, Woken, world
  <1>9. CASE UNCHANGED vars
    BY <1>9 DEF vars, world
  <1> QED BY <1>2, <1>3, <1>4, <1>5, <1>6, <1>7, <1>8, <1>9
          DEF Next, Stopped, DispatcherStep, DriverStep

\* What dispatch(), pop_front(), drive() and the account make of the open requests.
OpenAfter(s, cr, n, driving) ==
    /\ n \in Requests => Open(Append(s, n), cr, n + 1, driving) = Open(s, cr, n, driving)
    /\ s # <<>> => \A d \in Drivers \ driving :
         Open(Tail(s), [cr EXCEPT ![d] = Head(s)], n, driving \cup {d})
           = Open(s, cr, n, driving)
    /\ \A d \in driving :
         /\ cr[d] \in Open(s, cr, n, driving)
         /\ Open(s, cr, n, driving \ {d}) = Open(s, cr, n, driving) \ {cr[d]}
    /\ \A d \in Drivers \ driving :
         Open(s, [cr EXCEPT ![d] = NoRequest], n, driving) = Open(s, cr, n, driving)

(* OnlyDriveAnswers: queueing a request, taking it and putting it away     *)
(* leave the same customers open; a response closes the one it is for.     *)
LEMMA OnlyDriveAnswers ==
    ASSUME NEW s \in Seq(Requests), NEW cr \in [Drivers -> Requests \cup {NoRequest}],
           NEW n \in Int, NEW driving \in SUBSET Drivers, Apart(s, cr, n),
           \A d \in driving : cr[d] # NoRequest
    PROVE  OpenAfter(s, cr, n, driving)
  <1>1. /\ Len(s) \in Nat /\ DOMAIN s = 1 .. Len(s) /\ Requests \subseteq Int
        /\ \A i \in DOMAIN s : s[i] \in Requests
    BY ThreadFacts DEF Requests
  <1>2. ASSUME n \in Requests
        PROVE  Open(Append(s, n), cr, n + 1, driving) = Open(s, cr, n, driving)
    <2>1. /\ DOMAIN Append(s, n) = 1 .. Len(s) + 1 /\ Append(s, n)[Len(s) + 1] = n
          /\ \A i \in 1 .. Len(s) : Append(s, n)[i] = s[i]
      BY <1>2
    <2>2. ASSUME NEW r \in Requests
          PROVE  /\ (\E i \in DOMAIN Append(s, n) : Append(s, n)[i] = r)
                      <=> r = n \/ \E i \in DOMAIN s : s[i] = r
                 /\ r >= n + 1 \/ r = n <=> r >= n
      BY <1>1, <2>1
    <2> QED BY <2>2 DEF Open
  <1>3. ASSUME s # <<>>, NEW d \in Drivers \ driving
        PROVE  Open(Tail(s), [cr EXCEPT ![d] = Head(s)], n, driving \cup {d})
                 = Open(s, cr, n, driving)
    <2> DEFINE t == Tail(s)
               h == Head(s)
               c == [cr EXCEPT ![d] = h]
    <2>1. /\ Len(s) \in Nat \ {0} /\ DOMAIN t = 1 .. Len(s) - 1
          /\ s[1] = h /\ \A i \in 1 .. Len(s) - 1 : t[i] = s[i + 1]
      BY <1>1, <1>3
    <2>2. c[d] = h /\ \A e \in Drivers \ {d} : c[e] = cr[e]
      OBVIOUS
    <2> HIDE DEF t, h, c
    <2>3. ASSUME NEW r \in Requests
          PROVE  (\E i \in DOMAIN s : s[i] = r) <=> r = h \/ \E i \in DOMAIN t : t[i] = r
      <3>1. ASSUME NEW i \in DOMAIN s, s[i] = r, r # h
            PROVE  \E j \in DOMAIN t : t[j] = r
        <4>1. i - 1 \in DOMAIN t /\ (i - 1) + 1 = i
          BY <1>1, <2>1, <3>1
        <4> QED BY <2>1, <3>1, <4>1
      <3>2. ASSUME NEW i \in DOMAIN t, t[i] = r PROVE \E j \in DOMAIN s : s[j] = r
        <4>1. i + 1 \in DOMAIN s
          BY <1>1, <2>1
        <4> QED BY <2>1, <3>2, <4>1
      <3>3. 1 \in DOMAIN s
        BY <1>1, <2>1
      <3> QED BY <2>1, <3>1, <3>2, <3>3
    <2>4. ASSUME NEW r \in Requests
          PROVE  (\E e \in driving \cup {d} : c[e] = r) <=> r = h \/ \E e \in driving : cr[e] = r
      BY <2>2
    <2>5. Open(t, c, n, driving \cup {d}) = Open(s, cr, n, driving)
      BY <2>3, <2>4 DEF Open
    <2> QED BY <2>5 DEF t, h, c
  <1>4. ASSUME NEW d \in driving
        PROVE  /\ cr[d] \in Open(s, cr, n, driving)
               /\ Open(s, cr, n, driving \ {d}) = Open(s, cr, n, driving) \ {cr[d]}
    <2>1. /\ cr[d] # NoRequest /\ cr[d] \in Requests /\ cr[d] < n
          /\ \A i \in DOMAIN s : s[i] # cr[d]
          /\ \A e \in Drivers : cr[e] = cr[d] => e = d
      BY <1>4 DEF Apart
    <2>2. ~(cr[d] >= n)
      <3>1. \A x \in Requests : x < n => ~(x >= n)
        BY <1>1
      <3> QED BY <2>1, <3>1
    <2>3. ASSUME NEW r \in Requests
          PROVE  (\E e \in driving \ {d} : cr[e] = r) <=> r # cr[d] /\ \E e \in driving : cr[e] = r
      BY <2>1
    <2> QED BY <2>1, <2>2, <2>3 DEF Open
  <1>5. ASSUME NEW d \in Drivers \ driving
        PROVE  Open(s, [cr EXCEPT ![d] = NoRequest], n, driving) = Open(s, cr, n, driving)
    <2>1. \A e \in driving : [cr EXCEPT ![d] = NoRequest][e] = cr[e]
      OBVIOUS
    <2> QED BY <2>1 DEF Open
  <1> QED BY <1>2, <1>3, <1>4, <1>5 DEF OpenAfter

(* ResponsesStep: a response goes to an open request and closes it.        *)
LEMMA ResponsesStep ==
    ASSUME IInv, RequestsApart, Responses, [Next]_vars
    PROVE  Responses'
  <1> DEFINE s == Contents(request_queue)
             open == Open(s, curr_req, next_line, Driving)
  <1>1. /\ request_queue \in Queues(StoredRequests)
        /\ s \in Seq(Requests) /\ next_line \in Int
        /\ curr_req \in [Drivers -> Requests \cup {NoRequest}]
        /\ Driving \in SUBSET Drivers /\ responded \in Seq(Requests)
        /\ Size(request_queue) \in Nat /\ Size(request_queue) <= MAX_QUEUE_SIZE
    BY ContentsType, ThreadFacts
       DEF IInv, TypeOK, QueueHoldsRequests, StoredRequests, Driving, DriversAt
  <1>2. Apart(s, curr_req, next_line) /\ \A d \in Driving : curr_req[d] # NoRequest
    BY DEF RequestsApart, IInv, HandsFull, Driving, DriversAt
  <1>3. OpenAfter(s, curr_req, next_line, Driving)
    BY <1>1, <1>2, OnlyDriveAnswers
  <1>4. OpenRequests = open /\ OpenRequests' = Open(s', curr_req', next_line', Driving')
    BY DEF OpenRequests, s
  <1>5. request_queue' = request_queue => s' = s
    BY DEF Contents, Size, s
  <1>6. pc'[Dispatcher] = "exited" => exit_drivers'
    BY DispatcherExits DEF Responses
  <1>7. CASE responded' = responded /\ OpenRequests' = OpenRequests
    BY <1>6, <1>7 DEF Responses, Answered
  <1> HIDE DEF s, open
  <1>8. CASE UNCHANGED <<request_queue, curr_req, next_line, responded>> /\ Driving' = Driving
    BY <1>4, <1>5, <1>7, <1>8 DEF open
  <1>9. CASE /\ Size(request_queue) # MAX_QUEUE_SIZE /\ next_line \in Requests
             /\ request_queue' = PushBack(request_queue, next_line)
             /\ next_line' = next_line + 1
             /\ UNCHANGED <<curr_req, responded>> /\ Driving' = Driving
    <2>1. Size(request_queue) < MAX_QUEUE_SIZE /\ next_line \in StoredRequests
      BY <1>1, <1>9, QueueSizesAssumption DEF StoredRequests
    <2>2. s' = Append(s, next_line)
      BY <1>1, <1>9, <2>1, PushBackValue DEF s
    <2> QED BY <1>3, <1>4, <1>7, <1>9, <2>2 DEF OpenAfter, open
  <1>10. ASSUME NEW d \in Drivers \ Driving,
                ~Empty(request_queue),
                request_queue' = PopFront(request_queue),
                curr_req' = [curr_req EXCEPT ![d] = Front(request_queue)],
                UNCHANGED <<next_line, responded>>, Driving' = Driving \cup {d}
         PROVE  Responses'
    <2>1. s' = Tail(s) /\ Front(request_queue) = Head(s) /\ s # <<>>
      BY <1>1, <1>10, PopFrontValue, EmptyValue DEF Queues, s
    <2>2. Open(Tail(s), [curr_req EXCEPT ![d] = Head(s)], next_line, Driving \cup {d}) = open
      BY <1>3, <1>10, <2>1 DEF OpenAfter, open
    <2>3. OpenRequests' = open
      BY <1>4, <1>10, <2>1, <2>2
    <2> QED BY <1>4, <1>7, <1>10, <2>3
  <1>11. ASSUME NEW d \in Driving,
                responded' = Append(responded, curr_req[d]),
                UNCHANGED <<request_queue, curr_req, next_line>>, Driving' = Driving \ {d}
         PROVE  Responses'
    <2>1. /\ curr_req[d] \in open /\ OpenRequests' = open \ {curr_req[d]}
          /\ curr_req[d] \in Requests
      BY <1>3, <1>4, <1>5, <1>11 DEF OpenAfter, open, Open
    <2>2. /\ Len(responded) \in Nat /\ DOMAIN responded = 1 .. Len(responded)
          /\ DOMAIN responded' = 1 .. Len(responded) + 1
          /\ responded'[Len(responded) + 1] = curr_req[d]
          /\ \A i \in DOMAIN responded : responded'[i] = responded[i]
      BY <1>1, <1>11, <2>1
    <2>3. \A i \in DOMAIN responded' : i = Len(responded) + 1 \/ i \in DOMAIN responded
      BY <2>2
    <2>4. \A i \in DOMAIN responded : responded[i] # curr_req[d]
      <3>1. curr_req[d] \notin Answered
        BY <1>4, <2>1 DEF Responses
      <3> QED BY <3>1 DEF Answered
    <2>5. \A i, j \in DOMAIN responded' : responded'[i] = responded'[j] => i = j
      BY <2>2, <2>3, <2>4 DEF Responses
    <2>6. Answered' = Answered \cup {curr_req[d]}
      <3>1. Answered' = {responded'[i] : i \in DOMAIN responded'}
        BY DEF Answered
      <3>2. DOMAIN responded \subseteq DOMAIN responded' /\ Len(responded) + 1 \in DOMAIN responded'
        BY <2>2
      <3> QED BY <2>2, <2>3, <3>1, <3>2 DEF Answered
    <2>7. Answered' = Requests \ OpenRequests'
      BY <1>4, <2>1, <2>6 DEF Responses
    <2> QED BY <1>6, <2>5, <2>7 DEF Responses
  <1>12. ASSUME NEW d \in Drivers \ Driving,
                curr_req' = [curr_req EXCEPT ![d] = NoRequest],
                UNCHANGED <<request_queue, next_line, responded>>, Driving' = Driving
         PROVE  Responses'
    <2>1. Open(s, [curr_req EXCEPT ![d] = NoRequest], next_line, Driving) = open
      BY <1>3, <1>12 DEF OpenAfter, open
    <2>2. OpenRequests' = open
      BY <1>4, <1>5, <1>12, <2>1
    <2> QED BY <1>4, <1>7, <1>12, <2>2
  <1> QED BY <1>8, <1>9, <1>10, <1>11, <1>12, DrivingSteps

(* AllAnswered: when every thread has ended no request is open.            *)
LEMMA AllAnswered == IInv /\ Responses => AnsweredOnce
  <1> SUFFICES ASSUME IInv, Responses, AllExited PROVE Answered = Requests
    BY DEF AnsweredOnce, Responses, Answered
  <1>1. exit_drivers
    BY ThreadFacts DEF AllExited, Responses
  <1>2. ASSUME NEW r \in OpenRequests PROVE FALSE
    <2>1. /\ r \in Requests /\ Driving \subseteq Drivers
          /\ \/ r >= next_line
             \/ \E i \in DOMAIN Contents(request_queue) : Contents(request_queue)[i] = r
             \/ \E d \in Driving : curr_req[d] = r
      BY <1>2 DEF OpenRequests, Open, Driving, DriversAt
    <2>2. StateIn(r, Contents(request_queue), curr_req, next_line) = "done"
      BY <1>1, <2>1, ExitMeansDone
    <2> QED BY <2>1, <2>2 DEF StateIn
  <1> QED BY <1>2 DEF Responses, OpenRequests, Open

(* DispatchAnswersOnce: no customer is answered twice, and every customer  *)
(* of the input has been answered when main() has joined the threads.      *)
THEOREM DispatchAnswersOnce == Spec => []AnsweredOnce
  <1>1. Init => RequestsApart /\ Responses
    <2> SUFFICES ASSUME Init PROVE RequestsApart /\ Responses
      OBVIOUS
    <2>1. Contents(request_queue) = <<>>
      <3>1. NoRequest \in StoredRequests
        BY DEF StoredRequests
      <3> QED BY <3>1, QueueInitValue DEF Init
    <2>2. /\ curr_req = [d \in Drivers |-> NoRequest] /\ next_line = 1
          /\ responded = <<>> /\ pc[Dispatcher] # "exited"
      BY ThreadFacts DEF Init
    <2>3. RequestsApart
      BY <2>1, <2>2 DEF RequestsApart, Apart
    <2>4. OpenRequests = Requests
      BY <2>2, ThreadFacts DEF OpenRequests, Open, Requests
    <2>5. DOMAIN responded = {} /\ Answered = {}
      BY <2>2 DEF Answered
    <2> QED BY <2>2, <2>3, <2>4, <2>5 DEF Responses
  <1>2. IInv /\ IInv' /\ RequestsApart /\ Responses /\ [Next]_vars
          => RequestsApart' /\ Responses'
    BY ServiceStep, ResponsesStep
  <1> QED BY <1>1, <1>2, InitIInv, NextIInv, AllAnswered, PTL DEF Spec
=============================================================================
