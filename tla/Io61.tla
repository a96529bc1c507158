-------------------------------- MODULE Io61 --------------------------------
(***************************************************************************)
(* pset3/io61.c: a file of the library and a client that calls it.         *)
(*                                                                         *)
(* A regular file that is read is mapped, and its cache slots are windows  *)
(* of the mapping; a pipe (or anything without a size) is read into the    *)
(* slots; a file that is written buffers in slot 0.  Bytes are numbered:   *)
(* those of an input by their place, those of the client by their order.   *)
(* The bytes of a slot are consecutive, so that `from`, the number of its  *)
(* first, stands for arr_buf and str_buf.                                  *)
(*                                                                         *)
(* io61_read() and io61_write() go round a loop, io61_readc() and          *)
(* io61_writec() call themselves: each round is a step.  The loops subtract *)
(* nread, a total, from total_char_left in each round, which is right in   *)
(* the first two rounds only; from then on total_char_left may wrap, and   *)
(* memcpy() then leaves the client's buffer.  What that does is undefined: *)
(* the model stops there (overrun).  Memory is 0 after malloc(), as it is  *)
(* in programs that open their files before they close one.                *)
(***************************************************************************)
EXTENDS Integers, FiniteSetsExt

CONSTANTS
    BUFFER_SIZE,
    NUM_CACHE,
    Size,           \* bytes in the input
    Room,           \* bound: places that are written
    MaxBytes,       \* bound: bytes that are written
    MaxFills,       \* bound: cache_count when a call begins
    MaxRequest,     \* bound: bytes that one call asks for
    SIZE_T,         \* how many values a size_t has
    SeekBound,      \* the client seeks in its input to places below this one
    SeekUnwritten   \* does the client seek while bytes wait to be written?

ASSUME Io61Assumption ==
    /\ BUFFER_SIZE \in Nat \ {0}
    /\ NUM_CACHE \in Nat \ {0}
    /\ Size \in Nat /\ Room \in Nat /\ MaxBytes \in Nat /\ MaxFills \in Nat
    /\ MaxRequest \in Nat \ {0} /\ SIZE_T \in Nat /\ MaxRequest < SIZE_T
    /\ SeekBound \in Nat /\ SeekUnwritten \in BOOLEAN

Slots == 0..(NUM_CACHE - 1)
Places == 0..(Room - 1)

VARIABLES
    mode,       \* of the file, and whether it has a size: "file", "pipe", "write"
    fd_at,      \* the position of the descriptor
    disk,       \* place in the output -> number of the byte there, or -1
    f,          \* the io61_file: cache, curr_cache, cache_count
    next,       \* number of the next byte the client writes
    call,       \* the call in progress: nread or nwritten is done,
                \* total_char_left is left, eof after a fill that returned NULL
    got,        \* the last portion of the client's buffer that was filled
    result,     \* what the last call returned; 0 for EOF
    overrun     \* memcpy() has left the client's buffer
vars == <<mode, fd_at, disk, f, next, call, got, result, overrun>>

SlotType == [is_active : BOOLEAN, pos : 0..BUFFER_SIZE, buff_size : 0..BUFFER_SIZE,
             offset : Nat, created_count : Nat, from : Nat]
FileType == [cache : [Slots -> SlotType], curr_cache : Slots \cup {-1}, cache_count : Nat]

EmptySlot == [is_active |-> FALSE, pos |-> 0, buff_size |-> 0,
              offset |-> 0, created_count |-> 0, from |-> 0]
NoCall == [op |-> "none", sz |-> 0, done |-> 0, left |-> 0, eof |-> FALSE]
Nothing == [to |-> 0, first |-> 0, count |-> 0]

\* What io61_open_check() opens, for reading with a size that io61_filesize() finds or
\* without, or for writing.
Modes == {"file", "pipe", "write"}

io61_fdopen == [cache |-> [i \in Slots |-> EmptySlot], curr_cache |-> -1, cache_count |-> 0]

Init ==
    /\ mode \in Modes
    /\ fd_at = 0
    /\ disk = [p \in Places |-> -1]
    /\ f = io61_fdopen
    /\ next = 0
    /\ call = NoCall
    /\ got = Nothing
    /\ result = 0
    /\ overrun = FALSE
-----------------------------------------------------------------------------
(* The cache slots *)

LessOf(a, b) == IF a < b THEN a ELSE b

Curr(g) == g.cache[g.curr_cache]

\* get_curr_cache() returned a slot, and it has room, or bytes left.
Ready(g) == g.curr_cache # -1 /\ Curr(g).pos < Curr(g).buff_size

Inactive(g) == {i \in Slots : ~g.cache[i].is_active}
Oldest(g) ==
    {i \in Slots : \A j \in Slots : g.cache[i].created_count <= g.cache[j].created_count}

get_free_cache(g) == Min(IF Inactive(g) # {} THEN Inactive(g) ELSE Oldest(g))

\* Slip: a slot that is used again keeps its pos.
FilledKeepingPos(g, i, offset, n) ==
    [cache |-> [g.cache EXCEPT ![i] =
        [is_active |-> TRUE, pos |-> g.cache[i].pos, buff_size |-> n, offset |-> offset,
         created_count |-> g.cache_count + 1,
         from |-> IF mode = "file" THEN offset ELSE fd_at]],
     curr_cache |-> i, cache_count |-> g.cache_count + 1]

\* filesize - offset wraps behind the end of the file.
Mapped(offset) == IF offset <= Size THEN LessOf(Size - offset, BUFFER_SIZE) ELSE BUFFER_SIZE

\* What fill_new_cache() may find at an offset: of a mapped file, whatever fits;
\* read() of a pipe blocks until it has some bytes, and returns 0 at the end.
Available(offset) ==
    IF mode = "file" THEN {Mapped(offset)}
    ELSE IF fd_at = Size THEN {0}
    ELSE 1..LessOf(Size - fd_at, BUFFER_SIZE)

\* The first byte of what a fill puts into a slot.
FirstByte(offset) == IF mode = "file" THEN offset ELSE fd_at

\* The slot chosen is given up at the end of the input, though str_buf is set.
Dropped(g, i, offset) ==
    [g EXCEPT !.cache = [g.cache EXCEPT ![i] =
        [g.cache[i] EXCEPT !.is_active = FALSE,
                           !.from = IF mode = "file" THEN offset ELSE g.cache[i].from]]]

Filled(g, i, offset, n) ==
    [cache |-> [g.cache EXCEPT ![i] =
        [is_active |-> TRUE, pos |-> 0, buff_size |-> n, offset |-> offset,
         created_count |-> g.cache_count + 1, from |-> FirstByte(offset)]],
     curr_cache |-> i, cache_count |-> g.cache_count + 1]

fill_new_cache(g, offset, n) ==
    IF n = 0 THEN Dropped(g, get_free_cache(g), offset)
    ELSE Filled(g, get_free_cache(g), offset, n)

Holding(g, offset) ==
    {i \in Slots : /\ g.cache[i].is_active
                   /\ g.cache[i].offset <= offset
                   /\ offset < g.cache[i].offset + g.cache[i].buff_size}

\* find_cache_offset(), and the fill that its callers do if it finds nothing.
FoundOrFilled(g, offset, start) ==
    IF Holding(g, offset) # {} THEN [g EXCEPT !.curr_cache = Min(Holding(g, offset))]
    ELSE fill_new_cache(g, start, Mapped(start))

SetPos(g, pos) ==
    [g EXCEPT !.cache = [g.cache EXCEPT ![g.curr_cache] = [Curr(g) EXCEPT !.pos = pos]]]
-----------------------------------------------------------------------------
(* The client *)

\* Where the next byte is read or written.
ReadAt(g) == IF g.curr_cache = -1 THEN 0 ELSE Curr(g).offset + Curr(g).pos
Offset == IF mode = "write" THEN fd_at + f.cache[0].pos ELSE ReadAt(f)

Begin(op, sz) ==
    /\ call = NoCall
    /\ f.cache_count < MaxFills
    /\ call' = [op |-> op, sz |-> sz, done |-> 0, left |-> sz, eof |-> FALSE]
    /\ UNCHANGED <<mode, fd_at, disk, f, next, got, result>>

ReadCall ==
    /\ mode # "write"
    /\ Begin("readc", 1) \/ \E sz \in 0..MaxRequest : Begin("read", sz)

WriteCall ==
    /\ mode = "write"
    /\ \/ Offset < Room /\ next < MaxBytes /\ Begin("writec", 1)
       \/ \E sz \in 0..MaxRequest :
            Offset + sz <= Room /\ next + sz <= MaxBytes /\ Begin("write", sz)

\* A pipe cannot be sought: the programs give up.
SeekCall ==
    \/ mode = "file" /\ \E p \in 0..(SeekBound - 1) : Begin("seek", p)
    \/ /\ mode = "write"
       /\ f.cache[0].pos = 0 \/ SeekUnwritten
       /\ \E p \in Places : p + f.cache[0].pos <= Room /\ Begin("seek", p)
-----------------------------------------------------------------------------
(* io61_readc() and io61_read() *)

Reading == call.op \in {"readc", "read"} /\ ~call.eof

\* Both end here: at the end of the input or with all they were asked for.
\* io61_read() then has bytes in its slot, unless it is at the end.
ReadDone == call.done = call.sz /\ (call.op = "readc" \/ Ready(f))

\* Slip: the caller does not notice that the fill returned NULL.
FillUnnoticed(g, offset, done, left) ==
    \E n \in Available(offset) :
        /\ f' = fill_new_cache(g, offset, n)
        /\ fd_at' = IF mode = "pipe" THEN fd_at + n ELSE fd_at
        /\ call' = [call EXCEPT !.done = done, !.left = left]

\* fill_new_cache(f, offset), where read() moves the position of a pipe.
Fill(g, offset, done, left) ==
    \E n \in Available(offset) :
        /\ f' = fill_new_cache(g, offset, n)
        /\ fd_at' = IF mode = "pipe" THEN fd_at + n ELSE fd_at
        /\ call' = [call EXCEPT !.done = done, !.left = left, !.eof = (n = 0)]

\* No slot yet, or nothing left in it: fill one, and begin again.
Refill ==
    /\ Reading
    /\ ~Ready(f)
    /\ ~ReadDone
    /\ Fill(f, Offset, call.done, call.left)
    /\ UNCHANGED <<mode, disk, next, got, result>>

\* total_char_left in this round, a size_t.
CharsLeft == (call.left - call.done) % SIZE_T

\* Slip: the slot may have less than is left to read.
ChunkUnbounded(slot, left) == left

Chunk(slot, left) == LessOf(slot.buff_size - slot.pos, left)

\* What a round copies, if there is something to copy, in the client's buffer.
Copied == {Chunk(Curr(f), CharsLeft)} \cap 1..(call.sz - call.done)

\* One byte, or one round of the loop, that fills the next slot early.
Deliver ==
    /\ Reading
    /\ Ready(f)
    /\ \E n \in Copied :
       LET slot == Curr(f)
           g == SetPos(f, slot.pos + n)
       IN /\ got' = [to |-> call.done, first |-> slot.from + slot.pos, count |-> n]
          /\ IF call.op = "read" /\ slot.pos + n = slot.buff_size
             THEN Fill(g, slot.offset + slot.pos + n, call.done + n, CharsLeft)
             ELSE /\ f' = g
                  /\ call' = [call EXCEPT !.done = call.done + n, !.left = CharsLeft]
                  /\ UNCHANGED fd_at
    /\ UNCHANGED <<mode, disk, next, result>>

ReadReturn ==
    /\ call.op \in {"readc", "read"}
    /\ call.eof \/ ReadDone
    /\ call' = NoCall
    /\ result' = call.done
    /\ UNCHANGED <<mode, fd_at, disk, f, next, got>>
-----------------------------------------------------------------------------
(* io61_writec(), io61_write() and io61_flush() *)

Writing == call.op \in {"writec", "write"}

\* The first call takes slot 0, the only one of a file that is written.
OpenSlot(g) ==
    [g EXCEPT !.curr_cache = 0,
              !.cache = [g.cache EXCEPT ![0] =
                [g.cache[0] EXCEPT !.is_active = TRUE, !.pos = 0, !.buff_size = BUFFER_SIZE]]]

\* n consecutive bytes put at a place of the output.
Overlay(place, first, n) ==
    [p \in Places |-> IF place <= p /\ p < place + n THEN first + (p - place) ELSE disk[p]]

\* io61_flush() of slot 0 of g, when the descriptor is at a place.
FlushTo(g, place) ==
    /\ disk' = Overlay(place, g.cache[0].from, g.cache[0].pos)
    /\ fd_at' = place + g.cache[0].pos
    /\ f' = [g EXCEPT !.cache = [g.cache EXCEPT ![0] = [g.cache[0] EXCEPT !.pos = 0]]]

\* No slot yet: take it.  A full one: flush it.  Begin again.
MakeRoom ==
    /\ Writing
    /\ ~Ready(f)
    /\ call.done # call.sz \/ call.op = "write"
    /\ IF f.curr_cache = -1 THEN f' = OpenSlot(f) /\ UNCHANGED <<disk, fd_at>>
       ELSE FlushTo(f, fd_at)
    /\ UNCHANGED <<mode, next, call, got, result>>

\* n bytes of the client behind those in the slot.
Stored(slot, n) ==
    [slot EXCEPT !.pos = slot.pos + n, !.from = IF slot.pos = 0 THEN next ELSE slot.from]

\* One byte, or one round of the loop, that flushes a full slot early.
Store ==
    /\ Writing
    /\ Ready(f)
    /\ \E n \in Copied :
       LET slot == Curr(f)
           g == [f EXCEPT !.cache = [f.cache EXCEPT ![f.curr_cache] = Stored(slot, n)]]
       IN /\ next' = next + n
          /\ call' = [call EXCEPT !.done = call.done + n, !.left = CharsLeft]
          /\ IF call.op = "write" /\ slot.pos + n = slot.buff_size
             THEN FlushTo(g, fd_at)
             ELSE f' = g /\ UNCHANGED <<disk, fd_at>>
    /\ UNCHANGED <<mode, got, result>>

WriteReturn ==
    /\ Writing
    /\ call.done = call.sz
    /\ call.op = "writec" \/ Ready(f)
    /\ call' = NoCall
    /\ result' = call.done
    /\ UNCHANGED <<mode, fd_at, disk, f, next, got>>

io61_flush ==
    /\ call = NoCall
    /\ IF mode = "write" THEN FlushTo(f, fd_at) ELSE UNCHANGED <<disk, fd_at, f>>
    /\ result' = 0
    /\ UNCHANGED <<mode, next, call, got>>

io61_close ==
    /\ call = NoCall
    /\ IF mode = "write" THEN FlushTo(f, fd_at) ELSE UNCHANGED <<disk, fd_at, f>>
    /\ call' = [NoCall EXCEPT !.op = "closed"]
    /\ result' = 0
    /\ UNCHANGED <<mode, next, got>>
-----------------------------------------------------------------------------
(* io61_seek() *)

\* One byte was read and the one before it is wanted: a file is read backwards,
\* and the slot should end at p and not begin there.
Backwards(g, p) == g.curr_cache # -1 /\ p - (Curr(g).offset + Curr(g).pos - 1) = -1

PrefetchFrom(p) == IF p < BUFFER_SIZE THEN 0 ELSE p - BUFFER_SIZE + 1

Prefetched(g, p) ==
    IF Backwards(g, p) THEN FoundOrFilled(g, p - 1, PrefetchFrom(p)) ELSE g

\* A fill that returns NULL, at the end of the file: io61_seek() leaves it at that.
NothingThere(g, offset, start) == Holding(g, offset) = {} /\ Mapped(start) = 0

Sought(g, p) ==
    LET near == Prefetched(g, p)
        h == FoundOrFilled(near, p, p)
    IN IF Backwards(g, p) /\ NothingThere(g, p - 1, PrefetchFrom(p)) THEN near
       ELSE IF NothingThere(near, p, p) THEN h
       ELSE SetPos(h, p - Curr(h).offset)

ReadSeek ==
    /\ call.op = "seek"
    /\ mode = "file"
    /\ fd_at' = call.sz
    /\ f' = Sought(f, call.sz)
    /\ call' = NoCall
    /\ result' = 0
    /\ UNCHANGED <<mode, disk, next, got>>

\* lseek() comes first: what io61_flush() writes goes to the new place.
WriteSeek ==
    /\ call.op = "seek"
    /\ mode = "write"
    /\ FlushTo(f, call.sz)
    /\ call' = NoCall
    /\ result' = 0
    /\ UNCHANGED <<mode, next, got>>
-----------------------------------------------------------------------------
\* The loops of io61_read() and io61_write(): a round may find nothing left to copy
\* though there is more to do ...
EmptyRound ==
    /\ Reading \/ Writing
    /\ Ready(f)
    /\ call.done # call.sz
    /\ CharsLeft = 0
    /\ call' = [call EXCEPT !.left = 0]
    /\ UNCHANGED <<mode, fd_at, disk, f, next, got, result, overrun>>

\* ... and one that copies more than there is room for leaves the client's buffer.
Overrun ==
    /\ Reading \/ Writing
    /\ Ready(f)
    /\ call.done # call.sz
    /\ Chunk(Curr(f), CharsLeft) > call.sz - call.done
    /\ overrun' = TRUE
    /\ UNCHANGED <<mode, fd_at, disk, f, next, call, got, result>>

Closed == (call.op = "closed" \/ overrun) /\ UNCHANGED vars

\* What the library does on its own once it was called.
Step ==
    /\ ~overrun
    /\ \/ /\ \/ Refill \/ Deliver \/ ReadReturn
             \/ MakeRoom \/ Store \/ WriteReturn
             \/ ReadSeek \/ WriteSeek
          /\ UNCHANGED overrun
       \/ EmptyRound
       \/ Overrun

\* What the client calls.
Call ==
    /\ \/ ReadCall \/ WriteCall \/ SeekCall
       \/ io61_flush \/ io61_close
    /\ UNCHANGED overrun

Next == Call \/ Step \/ Closed

Spec == Init /\ [][Next]_vars

\* A call runs until it returns: the processor goes on, a pipe brings bytes or
\* its end.  The client may stop calling.
FairSpec == Spec /\ WF_vars(Step)
-----------------------------------------------------------------------------
(* Properties *)

\* TypeOK: the fields keep their ranges: no slot holds more than its buffer, and
\* none is read or written beyond its end (arr_buf, str_buf).
TypeOK ==
    /\ mode \in {"file", "pipe", "write"}
    /\ fd_at \in Nat
    /\ disk \in [Places -> -1..(MaxBytes - 1)]
    /\ f \in FileType
    /\ \A i \in Slots : f.cache[i].pos <= f.cache[i].buff_size
    /\ next \in 0..MaxBytes
    /\ call \in [op : {"none", "readc", "read", "writec", "write", "seek", "closed"},
                 sz : Nat, done : Nat, left : Nat, eof : BOOLEAN]
    /\ got \in [to : Nat, first : Nat, count : Nat]
    /\ result \in Nat
    /\ overrun \in BOOLEAN

\* The output as the client knows it: what is on disk, under what slot 0 holds.
Written ==
    IF mode = "write" /\ call.op # "closed"
    THEN Overlay(fd_at, f.cache[0].from, f.cache[0].pos)
    ELSE disk

PlainOp ==
    CASE call.op \in {"readc", "read"} -> "read"
      [] Writing -> "write"
      [] OTHER -> call.op

Plain == INSTANCE PlainFile WITH
    at <- Offset, written <- Written,
    call <- [op |-> PlainOp, sz |-> call.sz, done |-> call.done]

\* Calls of which two rounds deliver everything, whatever portions a pipe gives.
TwoRounds == call.sz <= IF mode = "pipe" THEN 2 ELSE BUFFER_SIZE + 1

\* ImplementsPlainFile: with its cache slots, prefetching and late writes, and
\* after any mixture of seeks and calls, an io61_file gives and takes the bytes
\* that the plain file of slow-io61.c gives and takes, and returns the same
\* counts; when it is closed everything is on disk, in its place.  That is so until
\* a call needs more than two rounds and copies beyond the client's buffer.
ImplementsPlainFile == Plain!Spec /\ [](overrun => ~TwoRounds)

\* CallsReturn: no call goes round for ever (the functions call themselves after
\* a fill or a flush, and loop until nread or nwritten is sz), unless it leaves the
\* client's buffer: nread is then more than sz.
CallsReturn == call.op \notin {"none", "closed"} ~> call.op = "none" \/ overrun

\* SeekMoves: "Change the file pointer for file `f` to `pos` bytes into the file.
\* Returns 0 on success" (io61_seek).
SeekMoves ==
    [][call.op = "seek" /\ call' = NoCall /\ result' = 0 => Offset' = call.sz]_vars
=============================================================================
