--------------------------- MODULE CircularQueue ---------------------------
(***************************************************************************)
(* The circular buffer of pset5/dispatch/queue.c, as operators on the      *)
(* struct queue61.  A queue is a record [head, tail, array]: head is the   *)
(* slot that is popped next, tail the slot that is pushed next, and slots  *)
(* outside head..tail keep whatever was stored there last.                 *)
(*                                                                         *)
(* head and tail are unsigned ints: the subtraction in size() wraps modulo *)
(* UINT (2^32 in the program) before the remainder by the buffer length is *)
(* taken, which is why the buffer length has to divide UINT.               *)
(***************************************************************************)
EXTENDS Integers, Sequences

CONSTANTS
    QUEUE_BUF_SIZE,     \* queue.h: the array has QUEUE_BUF_SIZE + 1 slots
    MAX_QUEUE_SIZE,     \* queue.h: the most payloads a client may store
    UINT                \* number of values of an unsigned int

NSlots == QUEUE_BUF_SIZE + 1
Slots == 0 .. QUEUE_BUF_SIZE

(***************************************************************************)
(* queue.h asks for MAX <= BUF; that NSlots divides UINT is what the       *)
(* unsigned subtraction of size() needs besides (16 divides 2^32).         *)
(***************************************************************************)
ASSUME QueueSizesAssumption ==
    /\ QUEUE_BUF_SIZE \in Nat \ {0}
    /\ MAX_QUEUE_SIZE \in Nat \ {0}
    /\ UINT \in Nat \ {0}
    /\ MAX_QUEUE_SIZE <= QUEUE_BUF_SIZE
    /\ UINT % NSlots = 0

Queues(Payload) == [head : Slots, tail : Slots, array : [Slots -> Payload]]

QueueInit(garbage) == [head |-> 0, tail |-> 0, array |-> [i \in Slots |-> garbage]]

\* A size() without the reduction to the buffer length.
SizeUnreduced(q) == (q.tail - q.head) % UINT

Size(q) == ((q.tail - q.head) % UINT) % NSlots

Empty(q) == q.head = q.tail

\* A push_back that never wraps.
PushBackNoWrap(q, p) == [q EXCEPT !.array[q.tail] = p, !.tail = q.tail + 1]

PushBack(q, p) ==
    [q EXCEPT !.array[q.tail] = p, !.tail = (q.tail + 1) % NSlots]

Front(q) == q.array[q.head]

\* A pop_front that forgets to wrap head.
PopFrontNoWrap(q) == [q EXCEPT !.head = IF @ = QUEUE_BUF_SIZE THEN @ ELSE @ + 1]

PopFront(q) == [q EXCEPT !.head = (q.head + 1) % NSlots]

(***************************************************************************)
(* The payloads between head and tail, oldest first: what the buffer       *)
(* stands for.                                                             *)
(***************************************************************************)
Contents(q) == [i \in 1 .. Size(q) |-> q.array[(q.head + i - 1) % NSlots]]
=============================================================================
