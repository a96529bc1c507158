----------------------------- MODULE Io61Proofs -----------------------------
(***************************************************************************)
(* io61 implements the plain file, for every size of the file, of the      *)
(* buffers and of the cache.                                               *)
(***************************************************************************)
EXTENDS Io61, SumTheorems

(***************************************************************************)
(* The inductive invariant.  Windows is about an io61_file that is read,   *)
(* and not about the variables, since io61_seek() passes through several.  *)
(***************************************************************************)

\* No slot is used beyond what it holds.
PosInside(g) == \A i \in Slots : g.cache[i].pos <= g.cache[i].buff_size

\* An active slot holds the bytes that its offset says.
SlotsTrue(g) ==
    \A i \in Slots : g.cache[i].is_active =>
        /\ g.cache[i].from = g.cache[i].offset
        /\ g.cache[i].offset + g.cache[i].buff_size <= Size

\* So does the current one, active or not, as long as bytes are left in it.
CurrTrue(g) ==
    g.curr_cache # -1 =>
        /\ Curr(g).offset + Curr(g).buff_size <= Size
        /\ Ready(g) => Curr(g).from = Curr(g).offset

Windows(g) == g \in FileType /\ PosInside(g) /\ SlotsTrue(g) /\ CurrTrue(g)

\* The descriptor of a pipe stands behind the current slot.
PipeAt(g, place) ==
    IF g.curr_cache = -1 THEN place = 0 ELSE Curr(g).offset + Curr(g).buff_size = place

ReadInv ==
    mode # "write" =>
        /\ Windows(f)
        /\ mode = "pipe" => PipeAt(f, fd_at)

WriteInv ==
    mode = "write" =>
        /\ f.curr_cache \in {-1, 0}
        /\ f.curr_cache = -1 => f.cache[0].pos = 0
        /\ f.curr_cache = 0 => f.cache[0].buff_size = BUFFER_SIZE
        /\ f.cache[0].pos > 0 => f.cache[0].from + f.cache[0].pos = next

Moving == call.op \in {"readc", "read", "writec", "write"}

CallInv ==
    /\ call.op = "none" => call = NoCall
    /\ call.op \in {"readc", "read"} => mode # "write"
    /\ Writing => mode = "write" /\ next + (call.sz - call.done) <= MaxBytes
    /\ call.op = "seek" =>
        \/ mode = "file" /\ call.sz < SeekBound
        \/ mode = "write" /\ (f.cache[0].pos = 0 \/ SeekUnwritten)
    /\ Moving =>
        /\ call.done <= call.sz
        /\ call.sz <= MaxRequest
        /\ call.op \in {"readc", "writec"} => call.sz = 1
        /\ call.left < SIZE_T
        /\ call.done = 0 => call.left = call.sz
    /\ overrun => Moving /\ ~TwoRounds
    /\ call.eof => call.op \in {"readc", "read"} /\ Offset = Size

\* Between two rounds of a loop there is something in the slot.  What is left after
\* a first round is done in the second, or the input ends there, unless the call is
\* too long for that.
SecondRound ==
    call.op \in {"read", "write"} /\ 0 < call.done /\ call.done < call.sz /\ ~call.eof =>
        /\ Ready(f)
        /\ TwoRounds =>
            /\ call.left = call.sz /\ Curr(f).pos = 0
            /\ \/ call.sz - call.done <= Curr(f).buff_size
               \/ /\ mode = "file"
                  /\ Curr(f).offset + Curr(f).buff_size = Size

IInv == TypeOK /\ ReadInv /\ WriteInv /\ CallInv /\ SecondRound

-----------------------------------------------------------------------------
(* The cache slots *)

(* LeastSlot: the first slot of a set of slots.                            *)
LEMMA LeastSlot ==
    ASSUME NEW S \in SUBSET Slots, S # {}
    PROVE  Min(S) \in S
  <1>1. S \in SUBSET Nat
    BY Io61Assumption DEF Slots
  <1> QED BY <1>1, LeastExists, Zenon

(* FreeSlot: get_free_cache() returns a slot.                              *)
LEMMA FreeSlot ==
    ASSUME NEW g \in FileType
    PROVE  get_free_cache(g) \in Slots
  <1> DEFINE C == {g.cache[i].created_count : i \in Slots}
  <1>1. \A i \in Slots : g.cache[i].created_count \in Nat
    BY DEF FileType, SlotType
  <1>2. 0 \in Slots
    BY Io61Assumption DEF Slots
  <1>3. C \in SUBSET Nat /\ C # {}
    BY <1>1, <1>2
  <1>4. Min(C) \in C /\ \A c \in C : Min(C) <= c
    <2> HIDE DEF C
    <2> QED BY <1>3, LeastExists
  <1>5. PICK i \in Slots : g.cache[i].created_count = Min(C)
    BY <1>4
  <1>6. i \in Oldest(g)
    BY <1>4, <1>5 DEF Oldest
  <1>7. Oldest(g) \in SUBSET Slots /\ Inactive(g) \in SUBSET Slots
    BY DEF Oldest, Inactive
  <1> QED BY <1>6, <1>7, LeastSlot DEF get_free_cache

(* FilledWindows: a slot that was filled is true, and the others stay so.  *)
LEMMA FilledWindows ==
    ASSUME NEW g, Windows(g), NEW i \in Slots, NEW offset \in Nat,
           NEW n \in 1..BUFFER_SIZE, offset + n <= Size,
           FirstByte(offset) = offset
    PROVE  LET h == Filled(g, i, offset, n) IN
           /\ Windows(h)
           /\ h.curr_cache = i /\ Ready(h)
           /\ Curr(h).pos = 0 /\ Curr(h).buff_size = n
           /\ Curr(h).offset = offset /\ Curr(h).is_active
           /\ ReadAt(h) = offset
  <1> DEFINE h == Filled(g, i, offset, n)
             s == [is_active |-> TRUE, pos |-> 0, buff_size |-> n, offset |-> offset,
                   created_count |-> g.cache_count + 1, from |-> offset]
  <1>1. i # -1 /\ BUFFER_SIZE \in Nat /\ Size \in Nat
    BY Io61Assumption DEF Slots
  <1>2. g.cache \in [Slots -> SlotType] /\ g.cache_count \in Nat
    BY DEF Windows, FileType
  <1>3. s \in SlotType
    BY <1>1, <1>2 DEF SlotType
  <1>4. h = [cache |-> [g.cache EXCEPT ![i] = s], curr_cache |-> i,
             cache_count |-> g.cache_count + 1]
    BY DEF Filled
  <1>5. h.cache = [g.cache EXCEPT ![i] = s] /\ h.curr_cache = i
    BY <1>4
  <1>6. h \in FileType
    BY <1>2, <1>3, <1>4 DEF FileType
  <1>7. h.cache[i] = s /\ \A j \in Slots : j # i => h.cache[j] = g.cache[j]
    BY <1>2, <1>5
  <1>8. Curr(h) = s
    BY <1>5, <1>7 DEF Curr
  <1>9. s.pos = 0 /\ s.buff_size = n /\ s.offset = offset /\ s.from = offset /\ s.is_active
    OBVIOUS
  <1> HIDE DEF h, s
  <1>10. PosInside(h)
    BY <1>7, <1>9 DEF PosInside, Windows
  <1>11. SlotsTrue(h)
    BY <1>7, <1>9 DEF SlotsTrue, Windows
  <1>12. CurrTrue(h) /\ Ready(h) /\ ReadAt(h) = offset
    BY <1>1, <1>5, <1>8, <1>9 DEF CurrTrue, Ready, ReadAt
  <1>13. Windows(h)
    BY <1>6, <1>10, <1>11, <1>12 DEF Windows
  <1>14. h.curr_cache = i /\ Curr(h).pos = 0 /\ Curr(h).buff_size = n
         /\ Curr(h).offset = offset /\ Curr(h).is_active
    BY <1>5, <1>8, <1>9
  <1> QED BY <1>12, <1>13, <1>14 DEF h

(* DroppedWindows: giving up a slot changes nothing for a file that has    *)
(* read its current slot to the end.                                       *)
LEMMA DroppedWindows ==
    ASSUME NEW g, Windows(g), ~Ready(g), NEW i \in Slots, NEW offset \in Nat
    PROVE  LET h == Dropped(g, i, offset) IN
           /\ Windows(h) /\ ~Ready(h)
           /\ h.curr_cache = g.curr_cache
           /\ ReadAt(h) = ReadAt(g)
           /\ \A place : PipeAt(g, place) => PipeAt(h, place)
  <1> DEFINE h == Dropped(g, i, offset)
             fr == IF mode = "file" THEN offset ELSE g.cache[i].from
             s == [g.cache[i] EXCEPT !.is_active = FALSE, !.from = fr]
  <1>1. g \in FileType /\ g.cache \in [Slots -> SlotType] /\ g.cache[i] \in SlotType
    BY DEF Windows, FileType
  <1>2. fr \in Nat
    BY <1>1 DEF SlotType
  <1>3. h = [g EXCEPT !.cache = [g.cache EXCEPT ![i] = s]]
    BY DEF Dropped
  <1> HIDE DEF fr
  <1>4. /\ s \in SlotType /\ ~s.is_active
        /\ s.pos = g.cache[i].pos /\ s.buff_size = g.cache[i].buff_size
        /\ s.offset = g.cache[i].offset
    BY <1>1, <1>2 DEF SlotType
  <1> HIDE DEF s
  <1>5. h \in FileType /\ h.cache = [g.cache EXCEPT ![i] = s] /\ h.curr_cache = g.curr_cache
    BY <1>1, <1>3, <1>4 DEF FileType
  <1> HIDE DEF h
  <1>6. h.cache[i] = s /\ \A j \in Slots : j # i => h.cache[j] = g.cache[j]
    BY <1>1, <1>5
  <1>7. \A j \in Slots : /\ h.cache[j].pos = g.cache[j].pos
                         /\ h.cache[j].buff_size = g.cache[j].buff_size
                         /\ h.cache[j].offset = g.cache[j].offset
    BY <1>4, <1>6
  <1>8. PosInside(h)
    BY <1>7 DEF PosInside, Windows
  <1>9. SlotsTrue(h)
    BY <1>4, <1>6 DEF SlotsTrue, Windows
  <1>10. g.curr_cache # -1 => /\ Curr(h).pos = Curr(g).pos
                              /\ Curr(h).buff_size = Curr(g).buff_size
                              /\ Curr(h).offset = Curr(g).offset
    BY <1>1, <1>5, <1>7 DEF Curr, FileType
  <1>11. ~Ready(h)
    BY <1>5, <1>10 DEF Ready
  <1>12. CurrTrue(h)
    BY <1>5, <1>10, <1>11 DEF CurrTrue, Windows
  <1>13. Windows(h)
    BY <1>5, <1>8, <1>9, <1>12 DEF Windows
  <1>14. ReadAt(h) = ReadAt(g) /\ \A place : PipeAt(g, place) => PipeAt(h, place)
    BY <1>5, <1>10 DEF ReadAt, PipeAt
  <1> QED BY <1>5, <1>11, <1>13, <1>14 DEF h

(* FillWindows: fill_new_cache() at the place where reading goes on: the   *)
(* position stays, and nothing comes only at the end of the input.         *)
LEMMA FillWindows ==
    ASSUME NEW g, Windows(g), ~Ready(g), mode \in {"file", "pipe"}, fd_at \in Nat,
           mode = "pipe" => PipeAt(g, fd_at) /\ fd_at <= Size,
           NEW n \in Available(ReadAt(g))
    PROVE  LET h == fill_new_cache(g, ReadAt(g), n) IN
           /\ n \in Nat
           /\ Windows(h) /\ ReadAt(h) = ReadAt(g)
           /\ n = 0 => ReadAt(h) = Size
           /\ n # 0 => Ready(h) /\ Curr(h).pos = 0 /\ Curr(h).buff_size = n
           /\ n # 0 /\ mode = "file" /\ n < BUFFER_SIZE
                => Curr(h).offset + Curr(h).buff_size = Size
           /\ mode = "pipe" => PipeAt(h, fd_at + n) /\ fd_at + n <= Size
  <1> DEFINE h == fill_new_cache(g, ReadAt(g), n)
             i == get_free_cache(g)
  <1>1. i \in Slots /\ BUFFER_SIZE \in Nat \ {0} /\ Size \in Nat
    BY FreeSlot, Io61Assumption DEF Windows
  <1>2. /\ g.curr_cache \in Slots \cup {-1}
        /\ g.curr_cache # -1 =>
            /\ Curr(g).pos \in Nat /\ Curr(g).offset \in Nat /\ Curr(g).buff_size \in Nat
            /\ Curr(g).pos <= Curr(g).buff_size
            /\ Curr(g).offset + Curr(g).buff_size <= Size
    BY DEF Windows, FileType, SlotType, PosInside, CurrTrue, Curr
  <1>3. ReadAt(g) \in 0..Size /\ (mode = "pipe" => ReadAt(g) = fd_at)
    BY <1>1, <1>2 DEF ReadAt, PipeAt, Ready
  <1>4. n \in 0..BUFFER_SIZE /\ ReadAt(g) + n <= Size /\ (n = 0 => ReadAt(g) = Size)
        /\ (mode = "file" /\ n < BUFFER_SIZE => ReadAt(g) + n = Size)
    BY <1>1, <1>3 DEF Available, Mapped, LessOf
  <1>5. CASE n = 0
    <2>1. h = Dropped(g, i, ReadAt(g))
      BY <1>5 DEF fill_new_cache
    <2> DEFINE d == Dropped(g, i, ReadAt(g))
    <2>a. Windows(d) /\ ReadAt(d) = ReadAt(g) /\ \A place : PipeAt(g, place) => PipeAt(d, place)
      BY <1>1, <1>3, DroppedWindows
    <2> HIDE DEF d, h
    <2>2. Windows(h) /\ ReadAt(h) = ReadAt(g) /\ \A place : PipeAt(g, place) => PipeAt(h, place)
      BY <2>1, <2>a DEF d
    <2>3. ReadAt(h) = Size
      BY <1>4, <1>5, <2>2
    <2>4. mode = "pipe" => PipeAt(h, fd_at + n) /\ fd_at + n <= Size
      BY <1>5, <2>2
    <2> QED BY <1>4, <1>5, <2>2, <2>3, <2>4 DEF h
  <1>6. CASE n # 0
    <2>1. h = Filled(g, i, ReadAt(g), n)
      BY <1>6 DEF fill_new_cache
    <2>2. n \in 1..BUFFER_SIZE /\ ReadAt(g) \in Nat /\ ReadAt(g) + n <= Size
          /\ FirstByte(ReadAt(g)) = ReadAt(g)
      BY <1>1, <1>3, <1>4, <1>6 DEF FirstByte
    <2> DEFINE d == Filled(g, i, ReadAt(g), n)
    <2>a. /\ Windows(d) /\ d.curr_cache = i /\ Ready(d)
          /\ Curr(d).pos = 0 /\ Curr(d).buff_size = n /\ Curr(d).offset = ReadAt(g)
          /\ ReadAt(d) = ReadAt(g)
      BY <1>1, <2>2, FilledWindows
    <2> HIDE DEF d, h
    <2>3. /\ Windows(h) /\ h.curr_cache = i /\ Ready(h)
          /\ Curr(h).pos = 0 /\ Curr(h).buff_size = n /\ Curr(h).offset = ReadAt(g)
          /\ ReadAt(h) = ReadAt(g)
      BY <2>1, <2>a DEF d
    <2>4. mode = "pipe" => PipeAt(h, fd_at + n) /\ fd_at + n <= Size
      BY <1>1, <1>3, <1>4, <2>3, -1 \notin Slots DEF PipeAt, Slots
    <2> QED BY <1>4, <1>6, <2>3, <2>4 DEF h
  <1> QED BY <1>5, <1>6

(* SetPosWindows: a position inside the current slot.                      *)
LEMMA SetPosWindows ==
    ASSUME NEW g, Windows(g), g.curr_cache # -1, NEW pos \in 0..Curr(g).buff_size,
           Curr(g).from = Curr(g).offset
    PROVE  LET h == SetPos(g, pos) IN
           /\ Windows(h)
           /\ h.curr_cache = g.curr_cache /\ h.cache_count = g.cache_count
           /\ Curr(h).pos = pos /\ Curr(h).buff_size = Curr(g).buff_size
           /\ Curr(h).offset = Curr(g).offset
           /\ ReadAt(h) = Curr(g).offset + pos
           /\ \A place : PipeAt(g, place) => PipeAt(h, place)
  <1> DEFINE h == SetPos(g, pos)
             i == g.curr_cache
             s == [Curr(g) EXCEPT !.pos = pos]
  <1>1. g \in FileType /\ g.cache \in [Slots -> SlotType] /\ i \in Slots
    BY DEF Windows, FileType
  <1>2. Curr(g) \in SlotType /\ Curr(g) = g.cache[i]
    BY <1>1 DEF Curr
  <1>3. pos \in 0..BUFFER_SIZE
    BY <1>2, Io61Assumption DEF SlotType
  <1>4. /\ s \in SlotType
        /\ s.pos = pos /\ s.buff_size = Curr(g).buff_size /\ s.offset = Curr(g).offset
        /\ s.from = Curr(g).from /\ s.is_active = Curr(g).is_active
    BY <1>2, <1>3 DEF SlotType
  <1>5. h = [g EXCEPT !.cache = [g.cache EXCEPT ![i] = s]]
    BY DEF SetPos
  <1> HIDE DEF s
  <1>6. h \in FileType /\ h.cache = [g.cache EXCEPT ![i] = s] /\ h.curr_cache = i
        /\ h.cache_count = g.cache_count
    BY <1>1, <1>4, <1>5 DEF FileType
  <1> HIDE DEF h
  <1>7. h.cache[i] = s /\ \A j \in Slots : j # i => h.cache[j] = g.cache[j]
    BY <1>1, <1>6
  <1>8. Curr(h) = s
    BY <1>6, <1>7 DEF Curr
  <1>9. s.pos <= s.buff_size
    BY <1>2, <1>4 DEF SlotType
  <1>10. PosInside(h)
    BY <1>7, <1>9 DEF PosInside, Windows
  <1>11. SlotsTrue(h)
    BY <1>2, <1>4, <1>7 DEF SlotsTrue, Windows
  <1>12. CurrTrue(h)
    BY <1>4, <1>6, <1>8 DEF CurrTrue, Windows
  <1>13. Windows(h)
    BY <1>6, <1>10, <1>11, <1>12 DEF Windows
  <1>14. ReadAt(h) = Curr(g).offset + pos /\ \A place : PipeAt(g, place) => PipeAt(h, place)
    BY <1>4, <1>6, <1>8 DEF ReadAt, PipeAt
  <1> QED BY <1>4, <1>6, <1>8, <1>13, <1>14 DEF h

(* FoundOrFilledWindows: looking for a place of the file, or filling a     *)
(* slot elsewhere, leaves true slots; if the fill covers the place the     *)
(* current slot holds it.                                                  *)
LEMMA FoundOrFilledWindows ==
    ASSUME NEW g, Windows(g), mode = "file", NEW p \in Int, NEW start \in 0..(Size - 1)
    PROVE  LET h == FoundOrFilled(g, p, start) IN
           /\ Windows(h)
           /\ p = start =>
                /\ h.curr_cache # -1 /\ Curr(h).from = Curr(h).offset
                /\ p - Curr(h).offset \in 0..Curr(h).buff_size
  <1> DEFINE h == FoundOrFilled(g, p, start)
             n == Mapped(start)
             i == Min(Holding(g, p))
  <1>1. BUFFER_SIZE \in Nat \ {0} /\ Size \in Nat /\ -1 \notin Slots
    BY Io61Assumption DEF Slots
  <1>2. CASE Holding(g, p) # {}
    <2>1. Holding(g, p) \in SUBSET Slots
      BY DEF Holding
    <2>2. i \in Holding(g, p)
      BY <1>2, <2>1, LeastSlot
    <2>3. h = [g EXCEPT !.curr_cache = i]
      BY <1>2 DEF FoundOrFilled
    <2> HIDE DEF i
    <2>4. i \in Slots /\ g.cache[i].is_active /\ g.cache[i].offset <= p
          /\ p < g.cache[i].offset + g.cache[i].buff_size
      BY <2>2 DEF Holding
    <2>5. h \in FileType /\ h.cache = g.cache /\ h.curr_cache = i
      BY <2>3, <2>4 DEF Windows, FileType
    <2> HIDE DEF h
    <2>6. Curr(h) = g.cache[i] /\ Curr(h) \in SlotType
      BY <2>4, <2>5 DEF Curr, Windows, FileType
    <2>7. Curr(h).from = Curr(h).offset /\ Curr(h).offset + Curr(h).buff_size <= Size
      BY <2>4, <2>6 DEF Windows, SlotsTrue
    <2>8. Windows(h)
      BY <2>5, <2>7 DEF Windows, PosInside, SlotsTrue, CurrTrue
    <2>9. p - Curr(h).offset \in 0..Curr(h).buff_size
      BY <2>4, <2>6 DEF SlotType
    <2> QED BY <1>1, <2>4, <2>5, <2>7, <2>8, <2>9 DEF h
  <1>3. CASE Holding(g, p) = {}
    <2>1. n \in 1..BUFFER_SIZE /\ start + n <= Size /\ n # 0 /\ start \in Nat
      BY <1>1 DEF Mapped, LessOf
    <2>2. h = Filled(g, get_free_cache(g), start, n)
      BY <1>3, <2>1 DEF FoundOrFilled, fill_new_cache
    <2>3. get_free_cache(g) \in Slots /\ FirstByte(start) = start
      BY FreeSlot DEF Windows, FirstByte
    <2> HIDE DEF n
    <2> DEFINE d == Filled(g, get_free_cache(g), start, n)
    <2>a. /\ Windows(d) /\ d.curr_cache = get_free_cache(g) /\ Ready(d)
          /\ Curr(d).buff_size = n /\ Curr(d).offset = start
      BY <2>1, <2>3, FilledWindows
    <2> HIDE DEF d, h
    <2>4. /\ Windows(h) /\ h.curr_cache = get_free_cache(g) /\ Ready(h)
          /\ Curr(h).buff_size = n /\ Curr(h).offset = start
      BY <2>2, <2>a DEF d
    <2>5. h.curr_cache # -1 /\ Curr(h).from = Curr(h).offset
      BY <2>4 DEF Windows, CurrTrue, Ready
    <2>6. p = start => p - Curr(h).offset \in 0..Curr(h).buff_size
      BY <2>1, <2>4
    <2> QED BY <2>4, <2>5, <2>6 DEF h
  <1> QED BY <1>2, <1>3

(* SoughtWindows: after io61_seek() reading goes on at p, whatever slots   *)
(* there were and wherever the file was before.                            *)
LEMMA SoughtWindows ==
    ASSUME NEW g, Windows(g), mode = "file", NEW p \in 0..(Size - 1)
    PROVE  LET h == Sought(g, p) IN Windows(h) /\ ReadAt(h) = p
  <1> DEFINE a == Prefetched(g, p)
             b == FoundOrFilled(a, p, p)
             start == PrefetchFrom(p)
  <1>1. start \in 0..(Size - 1) /\ p - 1 \in Int /\ p \in Int
    BY Io61Assumption DEF PrefetchFrom
  <1>a. Mapped(start) # 0 /\ Mapped(p) # 0
    <2> HIDE DEF start
    <2> QED BY <1>1, Io61Assumption DEF Mapped, LessOf
  <1>2. Windows(a)
    <2>1. Windows(FoundOrFilled(g, p - 1, start))
      <3> HIDE DEF start
      <3> QED BY <1>1, FoundOrFilledWindows
    <2> QED BY <2>1 DEF Prefetched
  <1> HIDE DEF a
  <1>3. Windows(b) /\ b.curr_cache # -1 /\ Curr(b).from = Curr(b).offset
        /\ p - Curr(b).offset \in 0..Curr(b).buff_size
    BY <1>1, <1>2, FoundOrFilledWindows
  <1> HIDE DEF b
  <1> DEFINE pos == p - Curr(b).offset
  <1>4. Sought(g, p) = SetPos(b, pos)
    BY <1>a DEF Sought, NothingThere, a, b
  <1>5. Curr(b).offset \in Nat
    BY <1>3 DEF Windows, FileType, SlotType, Curr
  <1>6. Curr(b).offset + pos = p
    BY <1>5
  <1>7. pos \in 0..Curr(b).buff_size
    BY <1>3
  <1> HIDE DEF pos
  <1>8. Windows(SetPos(b, pos)) /\ ReadAt(SetPos(b, pos)) = Curr(b).offset + pos
    BY <1>3, <1>7, SetPosWindows
  <1> QED BY <1>4, <1>6, <1>8

-----------------------------------------------------------------------------
(* The steps *)

LEMMA InitIInv == Init => IInv
  <1> SUFFICES ASSUME Init PROVE IInv
    OBVIOUS
  <1>1. f \in FileType /\ f.curr_cache = -1 /\ \A i \in Slots : f.cache[i] = EmptySlot
    BY Io61Assumption DEF Init, io61_fdopen, FileType, SlotType, EmptySlot
  <1>c. overrun \in BOOLEAN /\ ~overrun
    BY Zenon DEF Init
  <1>a. TypeOK
    BY <1>1, <1>c, Io61Assumption DEF Init, Modes, TypeOK, EmptySlot, NoCall, Nothing
  <1>b. Windows(f)
    BY <1>1 DEF Windows, PosInside, SlotsTrue, CurrTrue, EmptySlot
  <1>2. TypeOK /\ Windows(f)
    BY <1>a, <1>b
  <1>3. 0 \in Slots
    BY Io61Assumption DEF Slots
  <1>4. ReadInv /\ WriteInv
    BY <1>1, <1>2, <1>3 DEF Init, ReadInv, WriteInv, PipeAt, EmptySlot
  <1>5. CallInv /\ SecondRound
    BY DEF Init, CallInv, SecondRound, NoCall, Moving, Writing
  <1> QED BY <1>2, <1>4, <1>5 DEF IInv

(* FileFacts: what the invariant says of the current slot.                 *)
LEMMA FileFacts ==
    ASSUME IInv
    PROVE  /\ 0 \in Slots /\ -1 \notin Slots
           /\ BUFFER_SIZE \in Nat \ {0} /\ Size \in Nat /\ Room \in Nat /\ MaxBytes \in Nat
           /\ f.cache[0] \in SlotType /\ f.cache[0].pos \in Nat /\ f.cache[0].from \in Nat
           /\ f.curr_cache # -1 =>
                /\ f.curr_cache \in Slots /\ Curr(f) \in SlotType
                /\ Curr(f).pos \in Nat /\ Curr(f).buff_size \in Nat
                /\ Curr(f).offset \in Nat /\ Curr(f).from \in Nat
                /\ Curr(f).pos <= Curr(f).buff_size
           /\ ReadAt(f) \in Nat /\ Offset \in Nat
           /\ mode = "pipe" => fd_at <= Size
  <1>1. /\ 0 \in Slots /\ -1 \notin Slots
        /\ BUFFER_SIZE \in Nat \ {0} /\ Size \in Nat /\ Room \in Nat /\ MaxBytes \in Nat
    BY Io61Assumption DEF Slots
  <1>2. f \in FileType /\ f.cache \in [Slots -> SlotType] /\ fd_at \in Nat
        /\ \A i \in Slots : f.cache[i].pos <= f.cache[i].buff_size
    BY DEF IInv, TypeOK, FileType
  <1>3. f.cache[0] \in SlotType /\ f.cache[0].pos \in Nat /\ f.cache[0].from \in Nat
    BY <1>1, <1>2 DEF SlotType
  <1>4. f.curr_cache # -1 =>
                /\ f.curr_cache \in Slots /\ Curr(f) \in SlotType
                /\ Curr(f).pos \in Nat /\ Curr(f).buff_size \in Nat
                /\ Curr(f).offset \in Nat /\ Curr(f).from \in Nat
                /\ Curr(f).pos <= Curr(f).buff_size
    BY <1>1, <1>2 DEF FileType, SlotType, Curr
  <1>5. ReadAt(f) \in Nat /\ Offset \in Nat
    BY <1>2, <1>3, <1>4 DEF ReadAt, Offset
  <1>6. mode = "pipe" => fd_at <= Size
    BY <1>1 DEF IInv, ReadInv, PipeAt, Windows, CurrTrue
  <1> QED BY <1>1, <1>3, <1>4, <1>5, <1>6

(* Round: what a round of the loops copies is no more than the slot has.   *)
(* In a call of two rounds it is at least one byte and no more than is     *)
(* left, and stops short of the end of the slot only when the call is done. *)
LEMMA Round ==
    ASSUME IInv, Moving, ~call.eof, Ready(f), call.done # call.sz
    PROVE  LET n == Chunk(Curr(f), CharsLeft)
           IN /\ CharsLeft \in Nat /\ CharsLeft < SIZE_T
              /\ n \in Nat /\ Curr(f).pos + n <= Curr(f).buff_size
              /\ CharsLeft # 0 => n # 0
              /\ call.done = 0 => CharsLeft = call.sz
              /\ TwoRounds =>
                    /\ CharsLeft = call.sz - call.done
                    /\ n \in 1..(call.sz - call.done)
                    /\ Curr(f).pos + n < Curr(f).buff_size => n = call.sz - call.done
              /\ call.op \in {"readc", "writec"} => call.sz = 1 /\ call.done = 0 /\ n = 1
  <1>1. /\ call.sz \in Nat /\ call.done \in Nat /\ call.left \in Nat /\ call.done < call.sz
        /\ call.left < SIZE_T /\ call.sz < SIZE_T /\ SIZE_T \in Nat
    BY Io61Assumption DEF IInv, TypeOK, CallInv
  <1>2. call.op \in {"readc", "writec"} => call.sz = 1 /\ call.done = 0
    BY <1>1 DEF IInv, CallInv
  <1>3. call.done = 0 \/ TwoRounds => call.left = call.sz
    BY <1>1, <1>2 DEF IInv, CallInv, SecondRound, Moving
  <1>4. CharsLeft \in Nat /\ CharsLeft < SIZE_T
    BY <1>1 DEF CharsLeft
  <1>5. call.left = call.sz => CharsLeft = call.sz - call.done
    <2>1. \A d \in Nat : d < SIZE_T => d % SIZE_T = d
      BY <1>1
    <2> QED BY <1>1, <2>1 DEF CharsLeft
  <1>6. Curr(f).pos \in Nat /\ Curr(f).buff_size \in Nat /\ Curr(f).pos < Curr(f).buff_size
    BY FileFacts DEF Ready
  <1> QED BY <1>1, <1>2, <1>3, <1>4, <1>5, <1>6 DEF Chunk, LessOf

(* The client begins a call.                                               *)
LEMMA BeginKeeps ==
    ASSUME IInv, overrun' \in BOOLEAN, ~overrun', ReadCall \/ WriteCall \/ SeekCall
    PROVE  IInv'
  <1>1. PICK op \in {"readc", "read", "writec", "write", "seek"}, sz \in Nat :
            /\ Begin(op, sz)
            /\ op \in {"readc", "read"} => mode # "write"
            /\ op \in {"writec", "write"} => mode = "write" /\ next + sz <= MaxBytes
            /\ op # "seek" => sz <= MaxRequest
            /\ op \in {"readc", "writec"} => sz = 1
            /\ op = "seek" =>
                \/ mode = "file" /\ sz < SeekBound
                \/ mode = "write" /\ (f.cache[0].pos = 0 \/ SeekUnwritten)
    <2>1. /\ MaxRequest \in Nat /\ 1 <= MaxRequest /\ SeekBound \in Nat
          /\ next \in Nat /\ MaxBytes \in Nat
      BY Io61Assumption DEF IInv, TypeOK
    <2>2. CASE ReadCall
      <3>1. CASE Begin("readc", 1)
        BY <2>1, <2>2, <3>1 DEF ReadCall
      <3>2. CASE \E sz \in 0..MaxRequest : Begin("read", sz)
        BY <2>1, <2>2, <3>2 DEF ReadCall
      <3> QED BY <2>2, <3>1, <3>2 DEF ReadCall
    <2>3. CASE WriteCall
      <3>1. CASE Offset < Room /\ next < MaxBytes /\ Begin("writec", 1)
        BY <2>1, <2>3, <3>1 DEF WriteCall
      <3>2. CASE \E sz \in 0..MaxRequest : next + sz <= MaxBytes /\ Begin("write", sz)
        BY <2>1, <2>3, <3>2 DEF WriteCall
      <3> QED BY <2>3, <3>1, <3>2 DEF WriteCall
    <2>4. CASE SeekCall
      <3>1. CASE mode = "file" /\ \E p \in 0..(SeekBound - 1) : Begin("seek", p)
        BY <2>1, <3>1
      <3>2. CASE /\ mode = "write" /\ (f.cache[0].pos = 0 \/ SeekUnwritten)
                 /\ \E p \in Places : Begin("seek", p)
        BY <2>1, <3>2, Io61Assumption DEF Places
      <3> QED BY <2>4, <3>1, <3>2 DEF SeekCall
    <2> QED BY <2>2, <2>3, <2>4
  <1>2. call' = [op |-> op, sz |-> sz, done |-> 0, left |-> sz, eof |-> FALSE]
        /\ UNCHANGED <<mode, fd_at, disk, f, next, got, result>>
    BY <1>1 DEF Begin
  <1>3. TypeOK'
    BY <1>2 DEF IInv, TypeOK
  <1>4. ReadInv' /\ WriteInv'
    BY <1>2 DEF IInv, ReadInv, WriteInv
  <1>5. CallInv' /\ SecondRound'
    BY <1>1, <1>2, Io61Assumption DEF CallInv, SecondRound, Moving, Writing, TwoRounds
  <1> QED BY <1>3, <1>4, <1>5 DEF IInv

(* A call returns.                                                         *)
LEMMA ReturnKeeps ==
    ASSUME IInv, overrun' \in BOOLEAN, ~overrun', ReadReturn \/ WriteReturn
    PROVE  IInv'
  <1>1. call' = NoCall /\ result' = call.done /\ UNCHANGED <<mode, fd_at, disk, f, next, got>>
    BY DEF ReadReturn, WriteReturn
  <1>2. TypeOK'
    BY <1>1 DEF IInv, TypeOK, NoCall
  <1>3. ReadInv' /\ WriteInv'
    BY <1>1 DEF IInv, ReadInv, WriteInv
  <1>4. CallInv' /\ SecondRound'
    BY <1>1 DEF CallInv, SecondRound, Moving, Writing, NoCall
  <1> QED BY <1>2, <1>3, <1>4 DEF IInv

(* A slot is filled before a call reads.                                   *)
LEMMA RefillKeeps ==
    ASSUME IInv, overrun' \in BOOLEAN, ~overrun', Refill
    PROVE  IInv' /\ Offset' = Offset
  <1>1. mode \in {"file", "pipe"} /\ Windows(f) /\ ~Ready(f) /\ fd_at \in Nat
    BY DEF IInv, TypeOK, ReadInv, CallInv, Refill, Reading
  <1>2. Offset = ReadAt(f)
    BY <1>1 DEF Offset
  <1>3. PICK n \in Available(ReadAt(f)) :
            /\ f' = fill_new_cache(f, ReadAt(f), n)
            /\ fd_at' = IF mode = "pipe" THEN fd_at + n ELSE fd_at
            /\ call' = [call EXCEPT !.done = call.done, !.left = call.left, !.eof = (n = 0)]
    BY <1>2 DEF Refill, Fill
  <1>4. UNCHANGED <<mode, disk, next, got, result>>
    BY DEF Refill
  <1>5. mode = "pipe" => PipeAt(f, fd_at) /\ fd_at <= Size
    BY FileFacts DEF IInv, ReadInv
  <1>6. /\ n \in Nat
        /\ Windows(f') /\ ReadAt(f') = ReadAt(f)
        /\ n = 0 => ReadAt(f') = Size
        /\ mode = "pipe" => PipeAt(f', fd_at + n)
    BY <1>1, <1>3, <1>5, FillWindows
  <1>7. call \in [op : {"none", "readc", "read", "writec", "write", "seek", "closed"},
                 sz : Nat, done : Nat, left : Nat, eof : BOOLEAN]
    BY DEF IInv, TypeOK
  <1>8. /\ call'.op = call.op /\ call'.sz = call.sz /\ call'.done = call.done
        /\ call'.left = call.left /\ call'.eof = (n = 0)
        /\ call' \in [op : {"none", "readc", "read", "writec", "write", "seek", "closed"},
                     sz : Nat, done : Nat, left : Nat, eof : BOOLEAN]
    BY <1>3, <1>7
  <1>9. Offset' = ReadAt(f')
    BY <1>1, <1>4 DEF Offset, ReadAt, Curr
  <1>10. TypeOK'
    BY <1>1, <1>3, <1>4, <1>6, <1>8 DEF IInv, TypeOK, Windows, PosInside
  <1>11. ReadInv' /\ WriteInv'
    BY <1>1, <1>3, <1>4, <1>6 DEF ReadInv, WriteInv
  <1>12. call.op \in {"readc", "read"} /\ ~call.eof
    BY DEF Refill, Reading
  <1>13. CallInv'
    BY <1>4, <1>6, <1>8, <1>9, <1>12 DEF IInv, CallInv, Moving, Writing, TwoRounds
  <1>14. ~(call.op = "read" /\ 0 < call.done /\ call.done < call.sz)
    BY <1>1, <1>12 DEF IInv, SecondRound
  <1>15. SecondRound'
    BY <1>8, <1>12, <1>14 DEF SecondRound
  <1> QED BY <1>2, <1>6, <1>9, <1>10, <1>11, <1>13, <1>15 DEF IInv

CallType == [op : {"none", "readc", "read", "writec", "write", "seek", "closed"},
             sz : Nat, done : Nat, left : Nat, eof : BOOLEAN]

(* A portion is delivered: the next bytes of the input.                    *)
Delivered(n) ==
    /\ Offset + n <= Size
    /\ Offset' = Offset + n
    /\ got' = [to |-> call.done, first |-> Offset, count |-> n]
    /\ call'.op = call.op /\ call'.sz = call.sz /\ call'.done = call.done + n

LEMMA DeliverKeeps ==
    ASSUME IInv, overrun' \in BOOLEAN, ~overrun', Deliver
    PROVE  IInv' /\ \E n \in 1..(call.sz - call.done) : Delivered(n)
  <1> DEFINE slot == Curr(f)
             left == CharsLeft
             n == Chunk(slot, left)
             g == SetPos(f, slot.pos + n)
             full == call.op = "read" /\ slot.pos + n = slot.buff_size
  <1>1. /\ call.op \in {"readc", "read"} /\ ~call.eof /\ Ready(f) /\ call.done # call.sz
        /\ UNCHANGED <<mode, disk, next, result>>
        /\ n \in 1..(call.sz - call.done)
        /\ got' = [to |-> call.done, first |-> slot.from + slot.pos, count |-> n]
        /\ full => Fill(g, slot.offset + slot.pos + n, call.done + n, left)
        /\ ~full => /\ f' = g
                    /\ call' = [call EXCEPT !.done = call.done + n, !.left = left]
                    /\ UNCHANGED fd_at
    <2>1. PICK k \in Copied :
            /\ got' = [to |-> call.done, first |-> slot.from + slot.pos, count |-> k]
            /\ IF call.op = "read" /\ slot.pos + k = slot.buff_size
               THEN Fill(SetPos(f, slot.pos + k), slot.offset + slot.pos + k, call.done + k, left)
               ELSE /\ f' = SetPos(f, slot.pos + k)
                    /\ call' = [call EXCEPT !.done = call.done + k, !.left = left]
                    /\ UNCHANGED fd_at
      BY DEF Deliver
    <2>2. k = n /\ n \in 1..(call.sz - call.done)
      BY DEF Copied
    <2>3. /\ call.op \in {"readc", "read"} /\ ~call.eof /\ Ready(f)
          /\ UNCHANGED <<mode, disk, next, result>>
      BY DEF Deliver, Reading
    <2>4. call.done # call.sz
      <3>1. call.done \in Nat /\ call.sz \in Nat
        BY DEF IInv, TypeOK
      <3> QED BY <2>2, <3>1
    <2> HIDE DEF n, left, slot
    <2> QED BY <2>1, <2>2, <2>3, <2>4
  <1>2. /\ left \in Nat /\ left < SIZE_T
        /\ n \in 1..(call.sz - call.done)
        /\ slot.pos + n <= slot.buff_size
        /\ call.done = 0 => left = call.sz
        /\ TwoRounds =>
              /\ left = call.sz - call.done
              /\ slot.pos + n < slot.buff_size => n = call.sz - call.done
        /\ call.op \in {"readc", "writec"} => n = call.sz - call.done
    BY <1>1, Round DEF Moving
  <1>3. /\ mode \in {"file", "pipe"} /\ Windows(f) /\ fd_at \in Nat
        /\ mode = "pipe" => PipeAt(f, fd_at) /\ fd_at <= Size
    BY <1>1, FileFacts DEF IInv, TypeOK, ReadInv, CallInv
  <1>4. /\ f.curr_cache # -1 /\ slot.from = slot.offset /\ slot.offset + slot.buff_size <= Size
        /\ Offset = slot.offset + slot.pos
    BY <1>1, <1>3 DEF Windows, CurrTrue, Ready, Offset, ReadAt
  <1>5. /\ slot.pos \in Nat /\ slot.offset \in Nat /\ slot.buff_size \in Nat /\ Size \in Nat
        /\ BUFFER_SIZE \in Nat \ {0}
    BY <1>4, FileFacts
  <1>6. call \in CallType /\ call.done < call.sz /\ call.sz <= MaxRequest
        /\ (call.done = 0 => call.left = call.sz)
        /\ (call.op = "readc" => call.sz = 1)
    BY <1>1 DEF IInv, TypeOK, CallInv, CallType, Moving
  <1> HIDE DEF slot, left, n
  <1>7. slot.pos + n \in 0..slot.buff_size
    BY <1>2, <1>5, <1>6 DEF CallType
  <1>8. /\ Windows(g) /\ g.curr_cache = f.curr_cache /\ g.cache_count = f.cache_count
        /\ Curr(g).pos = slot.pos + n /\ Curr(g).buff_size = slot.buff_size
        /\ Curr(g).offset = slot.offset
        /\ ReadAt(g) = slot.offset + (slot.pos + n)
        /\ \A place : PipeAt(f, place) => PipeAt(g, place)
    BY <1>3, <1>4, <1>7, SetPosWindows DEF slot
  <1> HIDE DEF g
  <1>9. /\ ReadAt(g) = Offset + n /\ Offset + n <= Size
        /\ slot.offset + slot.pos + n = ReadAt(g) /\ n \in Nat /\ n >= 1
        /\ call.done + n \in Nat /\ call.done + n <= call.sz /\ call.done + n # 0
    BY <1>2, <1>4, <1>5, <1>6, <1>8 DEF CallType
  <1>10. got' = [to |-> call.done, first |-> Offset, count |-> n]
         /\ got' \in [to : Nat, first : Nat, count : Nat]
    BY <1>1, <1>4, <1>5, <1>6, <1>9, FileFacts DEF CallType
  <1>11. CASE ~full
    <2>1. f' = g /\ fd_at' = fd_at /\ call' = [call EXCEPT !.done = call.done + n, !.left = left]
      BY <1>1, <1>11
    <2>2. /\ call' \in CallType /\ call'.op = call.op /\ call'.sz = call.sz
          /\ call'.done = call.done + n /\ call'.left = left /\ ~call'.eof
      BY <1>1, <1>2, <1>6, <1>9, <2>1 DEF CallType
    <2>3. TypeOK'
      BY <1>1, <1>8, <1>10, <2>1, <2>2 DEF IInv, TypeOK, Windows, PosInside, CallType
    <2>4. ReadInv' /\ WriteInv'
      BY <1>1, <1>3, <1>8, <2>1 DEF ReadInv, WriteInv
    <2>5. CallInv'
      BY <1>1, <1>2, <1>3, <1>6, <1>9, <2>2 DEF CallInv, Moving, Writing
    <2>6. SecondRound'
      <3> SUFFICES ASSUME call.op = "read", call.done + n < call.sz
                   PROVE  Ready(f') /\ ~TwoRounds
        BY <1>1, <2>2 DEF SecondRound, TwoRounds
      <3>1. slot.pos + n < slot.buff_size
        BY <1>2, <1>5, <1>7, <1>9, <1>11
      <3>2. Ready(f')
        BY <1>4, <1>8, <2>1, <3>1 DEF Ready
      <3>3. n # call.sz - call.done
        BY <1>6, <1>9 DEF CallType
      <3> QED BY <1>2, <3>1, <3>2, <3>3
    <2>7. Offset' = Offset + n
      BY <1>1, <1>3, <1>9, <2>1 DEF Offset, ReadAt, Curr
    <2>8. Delivered(n)
      BY <1>9, <1>10, <2>2, <2>7 DEF Delivered
    <2> QED BY <1>2, <2>3, <2>4, <2>5, <2>6, <2>8 DEF IInv
  <1>12. CASE full
    <2>1. ~Ready(g)
      BY <1>8, <1>12, <1>5 DEF Ready
    <2>2. PICK k \in Available(ReadAt(g)) :
            /\ f' = fill_new_cache(g, ReadAt(g), k)
            /\ fd_at' = IF mode = "pipe" THEN fd_at + k ELSE fd_at
            /\ call' = [call EXCEPT !.done = call.done + n, !.left = left, !.eof = (k = 0)]
      BY <1>1, <1>9, <1>12 DEF Fill
    <2>3. mode = "pipe" => PipeAt(g, fd_at) /\ fd_at <= Size
      BY <1>3, <1>8
    <2>4. /\ k \in Nat
          /\ Windows(f') /\ ReadAt(f') = ReadAt(g)
          /\ k = 0 => ReadAt(f') = Size
          /\ k # 0 => Ready(f') /\ Curr(f').pos = 0 /\ Curr(f').buff_size = k
          /\ k # 0 /\ mode = "file" /\ k < BUFFER_SIZE
                => Curr(f').offset + Curr(f').buff_size = Size
          /\ mode = "pipe" => PipeAt(f', fd_at + k)
      BY <1>3, <1>8, <2>1, <2>2, <2>3, FillWindows
    <2>5. /\ call' \in CallType /\ call'.op = call.op /\ call'.sz = call.sz
          /\ call'.done = call.done + n /\ call'.left = left /\ call'.eof = (k = 0)
      BY <1>2, <1>6, <1>9, <2>2 DEF CallType
    <2>6. TypeOK'
      BY <1>1, <1>3, <1>10, <2>2, <2>4, <2>5
      DEF IInv, TypeOK, Windows, PosInside, CallType
    <2>7. ReadInv' /\ WriteInv'
      BY <1>1, <1>3, <2>2, <2>4 DEF ReadInv, WriteInv
    <2>8. Offset' = ReadAt(f') /\ Offset' = Offset + n
      BY <1>1, <1>3, <1>9, <2>4 DEF Offset, ReadAt, Curr
    <2>9. CallInv'
      BY <1>1, <1>2, <1>3, <1>6, <1>9, <2>4, <2>5, <2>8 DEF CallInv, Moving, Writing
    <2>10. SecondRound'
      <3> SUFFICES ASSUME call.done + n < call.sz, k # 0, TwoRounds
                   PROVE  /\ call'.left = call'.sz /\ Ready(f') /\ Curr(f').pos = 0
                          /\ \/ call.sz - (call.done + n) <= k
                             \/ mode = "file" /\ Curr(f').offset + Curr(f').buff_size = Size
        BY <1>1, <2>4, <2>5 DEF SecondRound, Ready, Curr, TwoRounds
      <3>1. CASE call.done = 0
        <4>1. left = call.sz
          BY <1>2, <3>1
        <4>2. call.sz <= (IF mode = "pipe" THEN 2 ELSE BUFFER_SIZE + 1)
          BY DEF TwoRounds
        <4>3. \/ call.sz - (call.done + n) <= k
              \/ mode = "file" /\ k < BUFFER_SIZE
          BY <1>3, <1>5, <1>6, <1>9, <2>4, <4>2 DEF CallType
        <4> QED BY <2>4, <2>5, <4>1, <4>3
      <3>2. CASE call.done # 0
        <4>1. /\ slot.pos = 0
              /\ \/ call.sz - call.done <= slot.buff_size
                 \/ slot.offset + slot.buff_size = Size
          BY <1>1, <1>6, <1>12, <3>2 DEF IInv, SecondRound, CallType, slot
        <4>2. n = slot.buff_size
          BY <1>5, <1>9, <1>12, <4>1
        <4>3. ReadAt(g) = Size
          BY <1>2, <1>5, <1>6, <1>8, <1>9, <4>1, <4>2 DEF CallType
        <4>4. /\ f'.curr_cache # -1 /\ ReadAt(f') = Curr(f').offset + Curr(f').pos
              /\ Curr(f').offset + Curr(f').buff_size <= Size /\ Curr(f').offset \in Nat
          BY <2>4 DEF Ready, ReadAt, Windows, CurrTrue, FileType, SlotType, Curr
        <4> QED BY <1>5, <2>4, <4>3, <4>4
      <3> QED BY <3>1, <3>2
    <2>11. Delivered(n)
      BY <1>9, <1>10, <2>5, <2>8 DEF Delivered
    <2> QED BY <1>2, <2>6, <2>7, <2>9, <2>10, <2>11 DEF IInv
  <1> QED BY <1>11, <1>12

(* What flushing slot 0 of g leaves behind.                                *)
LEMMA FlushValue ==
    ASSUME NEW g \in FileType, NEW place \in Nat, FlushTo(g, place),
           disk \in [Places -> -1..(MaxBytes - 1)],
           g.cache[0].pos > 0 => g.cache[0].from + g.cache[0].pos <= MaxBytes,
           \A i \in Slots : g.cache[i].pos <= g.cache[i].buff_size
    PROVE  /\ disk' = Overlay(place, g.cache[0].from, g.cache[0].pos)
           /\ disk' \in [Places -> -1..(MaxBytes - 1)]
           /\ fd_at' = place + g.cache[0].pos /\ fd_at' \in Nat
           /\ f' \in FileType /\ f'.curr_cache = g.curr_cache
           /\ f'.cache[0].pos = 0 /\ f'.cache[0].buff_size = g.cache[0].buff_size
           /\ \A i \in Slots : f'.cache[i].pos <= f'.cache[i].buff_size
  <1> DEFINE s == [g.cache[0] EXCEPT !.pos = 0]
  <1>1. 0 \in Slots /\ BUFFER_SIZE \in Nat /\ MaxBytes \in Nat
    BY Io61Assumption DEF Slots
  <1>2. g.cache \in [Slots -> SlotType] /\ g.cache[0] \in SlotType
    BY <1>1 DEF FileType
  <1>3. g.cache[0].pos \in Nat /\ g.cache[0].from \in Nat
    BY <1>2 DEF SlotType
  <1>4. s \in SlotType /\ s.pos = 0 /\ s.buff_size = g.cache[0].buff_size /\ s.buff_size \in Nat
    BY <1>1, <1>2 DEF SlotType
  <1>5. f' = [g EXCEPT !.cache = [g.cache EXCEPT ![0] = s]]
    BY DEF FlushTo
  <1> HIDE DEF s
  <1>6. f' \in FileType /\ f'.cache = [g.cache EXCEPT ![0] = s] /\ f'.curr_cache = g.curr_cache
    BY <1>1, <1>2, <1>4, <1>5 DEF FileType
  <1>7. f'.cache[0] = s /\ \A i \in Slots : i # 0 => f'.cache[i] = g.cache[i]
    BY <1>1, <1>2, <1>6
  <1>8. \A i \in Slots : f'.cache[i].pos <= f'.cache[i].buff_size
    BY <1>4, <1>7
  <1>9. /\ disk' = Overlay(place, g.cache[0].from, g.cache[0].pos)
        /\ fd_at' = place + g.cache[0].pos
    BY DEF FlushTo
  <1>10. disk' \in [Places -> -1..(MaxBytes - 1)]
    <2>1. ASSUME NEW p \in Places
          PROVE  (IF place <= p /\ p < place + g.cache[0].pos
                  THEN g.cache[0].from + (p - place) ELSE disk[p]) \in -1..(MaxBytes - 1)
      <3>1. p \in Nat
        BY Io61Assumption DEF Places
      <3>2. disk[p] \in -1..(MaxBytes - 1)
        OBVIOUS
      <3> QED BY <1>1, <1>3, <3>1, <3>2
    <2> QED BY <1>9, <2>1 DEF Overlay
  <1> QED BY <1>3, <1>4, <1>6, <1>7, <1>8, <1>9, <1>10

(* WriteFacts: the bytes in slot 0 are the last ones that were written.    *)
LEMMA WriteFacts ==
    ASSUME IInv, mode = "write"
    PROVE  /\ f \in FileType /\ fd_at \in Nat /\ disk \in [Places -> -1..(MaxBytes - 1)]
           /\ next \in 0..MaxBytes
           /\ f.cache[0].pos > 0 => f.cache[0].from + f.cache[0].pos = next
           /\ f.cache[0].pos > 0 => f.cache[0].from + f.cache[0].pos <= MaxBytes
           /\ \A i \in Slots : f.cache[i].pos <= f.cache[i].buff_size
           /\ Offset = fd_at + f.cache[0].pos
           /\ f.curr_cache \in {-1, 0} /\ (f.curr_cache # -1 => Curr(f) = f.cache[0])
           /\ f.curr_cache = -1 => f.cache[0].pos = 0
           /\ f.curr_cache = 0 => f.cache[0].buff_size = BUFFER_SIZE
           /\ ~call.eof
  BY Io61Assumption DEF IInv, TypeOK, WriteInv, Offset, Curr, CallInv

(* OverlayNothing: no bytes put anywhere change nothing.                   *)
LEMMA OverlayNothing ==
    ASSUME disk \in [Places -> -1..(MaxBytes - 1)], NEW place \in Nat, NEW first
    PROVE  Overlay(place, first, 0) = disk
  <1>1. ASSUME NEW p \in Places
        PROVE  ~(place <= p /\ p < place + 0)
    BY Io61Assumption DEF Places
  <1> QED BY <1>1 DEF Overlay

(* WrittenFlushed: when slot 0 is empty the output is what is on disk.     *)
LEMMA WrittenFlushed ==
    ASSUME disk' \in [Places -> -1..(MaxBytes - 1)], fd_at' \in Nat,
           f'.cache[0].pos = 0
    PROVE  Written' = disk'
  <1>1. ASSUME NEW p \in Places
        PROVE  ~(fd_at' <= p /\ p < fd_at' + 0)
    <2>1. p \in Int /\ fd_at' \in Int
      BY Io61Assumption DEF Places
    <2> QED BY <2>1, \A x, y \in Int : ~(x <= y /\ y < x + 0)
  <1>2. disk' = [p \in Places |-> disk'[p]]
    OBVIOUS
  <1>3. [p \in Places |-> IF fd_at' <= p /\ p < fd_at' + f'.cache[0].pos
                          THEN f'.cache[0].from + (p - fd_at') ELSE disk'[p]] = disk'
    BY <1>1, <1>2, SMT
  <1> QED BY <1>3 DEF Written, Overlay

(* io61_flush(), io61_close() and io61_seek() of a file that is written.   *)
LEMMA FlushKeeps ==
    ASSUME IInv, overrun' \in BOOLEAN, ~overrun', mode = "write", NEW place \in Nat, FlushTo(f, place),
           UNCHANGED <<mode, next, got>>, result' = 0,
           NEW op \in {"none", "closed"}, call' = [NoCall EXCEPT !.op = op]
    PROVE  /\ IInv' /\ Offset' = place + f.cache[0].pos
           /\ Written' = Overlay(place, f.cache[0].from, f.cache[0].pos)
  <1>1. /\ disk' \in [Places -> -1..(MaxBytes - 1)]
        /\ fd_at' = place + f.cache[0].pos /\ fd_at' \in Nat
        /\ f' \in FileType /\ f'.curr_cache = f.curr_cache
        /\ f'.cache[0].pos = 0 /\ f'.cache[0].buff_size = f.cache[0].buff_size
        /\ \A i \in Slots : f'.cache[i].pos <= f'.cache[i].buff_size
    BY WriteFacts, FlushValue
  <1>2. call' \in CallType /\ ~call'.eof /\ (call'.op = "none" => call' = NoCall)
    BY DEF NoCall, CallType
  <1>3. TypeOK'
    BY <1>1, <1>2 DEF IInv, TypeOK, CallType
  <1>4. ReadInv' /\ WriteInv'
    BY <1>1, WriteFacts DEF ReadInv, WriteInv
  <1>5. CallInv' /\ SecondRound'
    BY <1>2 DEF CallInv, SecondRound, Moving, Writing
  <1>6. Offset' = place + f.cache[0].pos
    BY <1>1 DEF Offset
  <1>7. Written' = Overlay(place, f.cache[0].from, f.cache[0].pos)
    <2>1. disk' = Overlay(place, f.cache[0].from, f.cache[0].pos)
      BY DEF FlushTo
    <2> QED BY <1>1, <2>1, WrittenFlushed
  <1> QED BY <1>3, <1>4, <1>5, <1>6, <1>7 DEF IInv

(* io61_flush() and io61_close() of a file that is read.                   *)
LEMMA IdleKeeps ==
    ASSUME IInv, overrun' \in BOOLEAN, ~overrun', mode # "write", UNCHANGED <<mode, disk, fd_at, f, next, got>>, result' = 0,
           NEW op \in {"none", "closed"}, call' = [NoCall EXCEPT !.op = op]
    PROVE  IInv'
  <1>1. call' \in CallType /\ ~call'.eof /\ (call'.op = "none" => call' = NoCall)
    BY DEF NoCall, CallType
  <1>2. TypeOK'
    BY <1>1 DEF IInv, TypeOK, CallType
  <1>3. ReadInv' /\ WriteInv'
    BY DEF IInv, ReadInv, WriteInv
  <1>4. CallInv' /\ SecondRound'
    BY <1>1 DEF CallInv, SecondRound, Moving, Writing
  <1> QED BY <1>2, <1>3, <1>4 DEF IInv

LEMMA ReadSeekKeeps ==
    ASSUME IInv, overrun' \in BOOLEAN, ~overrun', ReadSeek, SeekBound <= Size
    PROVE  IInv' /\ Offset' = call.sz
  <1>1. /\ call.op = "seek" /\ mode = "file" /\ fd_at' = call.sz /\ f' = Sought(f, call.sz)
        /\ call' = NoCall /\ result' = 0 /\ UNCHANGED <<mode, disk, next, got>>
    BY DEF ReadSeek
  <1>2. call.sz \in 0..(Size - 1) /\ Windows(f)
    BY <1>1, Io61Assumption DEF IInv, TypeOK, CallInv, ReadInv
  <1>3. Windows(f') /\ ReadAt(f') = call.sz
    BY <1>1, <1>2, SoughtWindows
  <1>4. TypeOK'
    BY <1>1, <1>2, <1>3 DEF IInv, TypeOK, NoCall, Windows, PosInside
  <1>5. ReadInv' /\ WriteInv'
    BY <1>1, <1>3 DEF ReadInv, WriteInv
  <1>6. CallInv' /\ SecondRound'
    BY <1>1 DEF CallInv, SecondRound, Moving, Writing, NoCall
  <1>7. Offset' = call.sz
    BY <1>1, <1>3 DEF Offset, ReadAt, Curr
  <1> QED BY <1>4, <1>5, <1>6, <1>7 DEF IInv

LEMMA WriteSeekKeeps ==
    ASSUME IInv, overrun' \in BOOLEAN, ~overrun', WriteSeek
    PROVE  /\ IInv' /\ Offset' = call.sz + f.cache[0].pos
           /\ Written' = Overlay(call.sz, f.cache[0].from, f.cache[0].pos)
  <1>1. call.sz \in Nat
    BY DEF IInv, TypeOK
  <1>2. call' = [NoCall EXCEPT !.op = "none"]
    BY DEF WriteSeek, NoCall
  <1> QED BY <1>1, <1>2, FlushKeeps DEF WriteSeek

LEMMA FlushOrCloseKeeps ==
    ASSUME IInv, overrun' \in BOOLEAN, ~overrun', io61_flush \/ io61_close
    PROVE  IInv' /\ Offset' = Offset /\ Written' = Written
  <1>1. PICK op \in {"none", "closed"} : call' = [NoCall EXCEPT !.op = op]
    <2>1. CASE io61_flush
      <3>1. NoCall = [NoCall EXCEPT !.op = "none"]
        BY DEF NoCall
      <3> QED BY <2>1, <3>1, Zenon DEF io61_flush
    <2>2. CASE io61_close
      BY <2>2, Zenon DEF io61_close
    <2> QED BY <2>1, <2>2
  <1>2. /\ result' = 0 /\ UNCHANGED <<mode, next, got>>
        /\ mode = "write" => FlushTo(f, fd_at)
        /\ mode # "write" => UNCHANGED <<disk, fd_at, f>>
    BY DEF io61_flush, io61_close
  <1>3. CASE mode = "write"
    <2>1. Written = Overlay(fd_at, f.cache[0].from, f.cache[0].pos)
      BY <1>3 DEF Written, io61_flush, io61_close, NoCall
    <2>2. IInv' /\ Offset' = fd_at + f.cache[0].pos /\ Written' = Written
      BY <1>1, <1>2, <1>3, <2>1, FlushKeeps, WriteFacts
    <2> QED BY <1>3, <2>2, WriteFacts
  <1>4. CASE mode # "write"
    BY <1>1, <1>2, <1>4, IdleKeeps DEF Offset, ReadAt, Curr, Written
  <1> QED BY <1>3, <1>4

(* Slot 0 is taken, or flushed because it is full.                         *)
LEMMA MakeRoomKeeps ==
    ASSUME IInv, overrun' \in BOOLEAN, ~overrun', MakeRoom
    PROVE  IInv' /\ Offset' = Offset /\ Written' = Written
  <1>1. /\ call.op \in {"writec", "write"} /\ mode = "write" /\ ~Ready(f)
        /\ UNCHANGED <<mode, next, call, got, result>>
    BY DEF MakeRoom, Writing, IInv, CallInv
  <1>2. /\ 0 \in Slots /\ BUFFER_SIZE \in Nat \ {0}
    BY Io61Assumption DEF Slots
  <1>3. /\ fd_at' \in Nat /\ disk' \in [Places -> -1..(MaxBytes - 1)]
        /\ f' \in FileType /\ f'.curr_cache = 0
        /\ f'.cache[0].pos = 0 /\ f'.cache[0].buff_size = BUFFER_SIZE
        /\ \A i \in Slots : f'.cache[i].pos <= f'.cache[i].buff_size
        /\ fd_at' = fd_at + f.cache[0].pos
        /\ disk' = Overlay(fd_at, f.cache[0].from, f.cache[0].pos)
    <2>1. CASE f.curr_cache = -1
      <3> DEFINE s == [f.cache[0] EXCEPT !.is_active = TRUE, !.pos = 0, !.buff_size = BUFFER_SIZE]
      <3>1. f' = OpenSlot(f) /\ UNCHANGED <<disk, fd_at>>
        BY <2>1 DEF MakeRoom
      <3>2. f \in FileType /\ f.cache \in [Slots -> SlotType] /\ f.cache[0] \in SlotType
        BY <1>1, <1>2, WriteFacts DEF FileType
      <3>3. s \in SlotType /\ s.pos = 0 /\ s.buff_size = BUFFER_SIZE
        <4> DEFINE slot == f.cache[0]
        <4>1. slot \in SlotType /\ 0 \in 0..BUFFER_SIZE /\ BUFFER_SIZE \in 0..BUFFER_SIZE
          BY <1>2, <3>2
        <4>2. s = [slot EXCEPT !.is_active = TRUE, !.pos = 0, !.buff_size = BUFFER_SIZE]
          OBVIOUS
        <4> HIDE DEF slot, s
        <4> QED BY <4>1, <4>2 DEF SlotType
      <3>4. f' = [f EXCEPT !.curr_cache = 0, !.cache = [f.cache EXCEPT ![0] = s]]
        BY <3>1 DEF OpenSlot
      <3> HIDE DEF s
      <3>5. f' \in FileType /\ f'.cache = [f.cache EXCEPT ![0] = s] /\ f'.curr_cache = 0
        BY <1>2, <3>2, <3>3, <3>4 DEF FileType
      <3>6. f'.cache[0] = s /\ \A i \in Slots : i # 0 => f'.cache[i] = f.cache[i]
        BY <1>2, <3>2, <3>5
      <3>7. \A i \in Slots : f'.cache[i].pos <= f'.cache[i].buff_size
        BY <1>1, <1>2, <3>3, <3>6, WriteFacts
      <3>8. f.cache[0].pos = 0 /\ fd_at \in Nat /\ disk \in [Places -> -1..(MaxBytes - 1)]
        BY <1>1, <2>1, WriteFacts
      <3>9. Overlay(fd_at, f.cache[0].from, f.cache[0].pos) = disk
        BY <3>8, OverlayNothing
      <3> QED BY <3>1, <3>3, <3>5, <3>6, <3>7, <3>8, <3>9
    <2>2. CASE f.curr_cache # -1
      <3>1. FlushTo(f, fd_at) /\ f.curr_cache = 0
        BY <1>1, <2>2, WriteFacts DEF MakeRoom
      <3> QED BY <1>1, <3>1, WriteFacts, FlushValue
    <2> QED BY <2>1, <2>2
  <1>4. TypeOK'
    BY <1>1, <1>3 DEF IInv, TypeOK
  <1>5. ReadInv' /\ WriteInv'
    BY <1>1, <1>3 DEF ReadInv, WriteInv
  <1>6. CallInv' /\ SecondRound'
    <2>1. ~(0 < call.done /\ call.done < call.sz /\ call.op = "write")
      BY <1>1, WriteFacts DEF IInv, SecondRound
    <2> QED BY <1>1, <2>1, WriteFacts
            DEF IInv, CallInv, SecondRound, Moving, Writing, TwoRounds
  <1>7. Offset' = Offset
    BY <1>1, <1>3, WriteFacts DEF Offset
  <1>8. Written' = Written
    BY <1>1, <1>3, WrittenFlushed DEF Written
  <1> QED BY <1>4, <1>5, <1>6, <1>7, <1>8 DEF IInv

(* The client's next bytes are put behind those that slot 0 holds.         *)
LEMMA StoreKeeps ==
    ASSUME IInv, overrun' \in BOOLEAN, ~overrun', Store
    PROVE  IInv' /\ \E n \in 1..(call.sz - call.done) :
                        /\ Offset' = Offset + n /\ next' = next + n
                        /\ call'.op = call.op /\ call'.sz = call.sz
                        /\ call'.done = call.done + n
                        /\ Written' = [p \in DOMAIN Written |->
                             IF Offset <= p /\ p < Offset + n
                             THEN next + (p - Offset) ELSE Written[p]]
  <1> DEFINE slot == Curr(f)
             left == CharsLeft
             n == Chunk(slot, left)
             s == Stored(slot, n)
             g == [f EXCEPT !.cache = [f.cache EXCEPT ![f.curr_cache] = s]]
             full == call.op = "write" /\ slot.pos + n = slot.buff_size
  <1>1. /\ call.op \in {"writec", "write"} /\ Ready(f) /\ call.done # call.sz
        /\ mode = "write" /\ ~call.eof
        /\ n \in 1..(call.sz - call.done)
        /\ next' = next + n
        /\ call' = [call EXCEPT !.done = call.done + n, !.left = left]
        /\ full => FlushTo(g, fd_at)
        /\ ~full => f' = g /\ UNCHANGED <<disk, fd_at>>
        /\ UNCHANGED <<mode, got, result>>
    <2>1. PICK k \in Copied :
            /\ next' = next + k
            /\ call' = [call EXCEPT !.done = call.done + k, !.left = left]
            /\ LET h == [f EXCEPT !.cache = [f.cache EXCEPT ![f.curr_cache] = Stored(slot, k)]]
               IN  IF call.op = "write" /\ slot.pos + k = slot.buff_size
                   THEN FlushTo(h, fd_at)
                   ELSE f' = h /\ UNCHANGED <<disk, fd_at>>
      BY DEF Store
    <2>2. k = n /\ n \in 1..(call.sz - call.done)
      BY DEF Copied
    <2>3. /\ call.op \in {"writec", "write"} /\ Ready(f) /\ mode = "write" /\ ~call.eof
          /\ UNCHANGED <<mode, got, result>>
      BY DEF Store, Writing, IInv, CallInv
    <2>4. call.done # call.sz
      <3>1. call.done \in Nat /\ call.sz \in Nat
        BY DEF IInv, TypeOK
      <3> QED BY <2>2, <3>1
    <2> HIDE DEF n, left, slot
    <2> QED BY <2>1, <2>2, <2>3, <2>4
  <1>2. /\ left \in Nat /\ left < SIZE_T
        /\ n \in 1..(call.sz - call.done)
        /\ slot.pos + n <= slot.buff_size
        /\ call.done = 0 => left = call.sz
        /\ TwoRounds =>
              /\ left = call.sz - call.done
              /\ slot.pos + n < slot.buff_size => n = call.sz - call.done
        /\ call.op \in {"readc", "writec"} => n = call.sz - call.done
    BY <1>1, Round DEF Moving
  <1>3. /\ 0 \in Slots /\ BUFFER_SIZE \in Nat \ {0} /\ MaxBytes \in Nat
    BY Io61Assumption DEF Slots
  <1>4. /\ f.curr_cache = 0 /\ slot = f.cache[0] /\ slot.buff_size = BUFFER_SIZE
        /\ slot.pos > 0 => slot.from + slot.pos = next
        /\ f \in FileType /\ f.cache \in [Slots -> SlotType] /\ slot \in SlotType
        /\ next \in Nat /\ fd_at \in Nat
        /\ \A i \in Slots : f.cache[i].pos <= f.cache[i].buff_size
        /\ Offset = fd_at + slot.pos
    BY <1>1, <1>3, WriteFacts DEF Ready, FileType
  <1>5. /\ call \in CallType /\ call.done < call.sz /\ call.sz <= MaxRequest
        /\ TwoRounds => call.sz <= BUFFER_SIZE + 1
        /\ next + (call.sz - call.done) <= MaxBytes
        /\ call.op = "writec" => call.sz = 1
        /\ (call.done = 0 => call.left = call.sz)
    BY <1>1 DEF IInv, TypeOK, CallInv, CallType, Moving, Writing, TwoRounds
  <1> HIDE DEF slot, left, n
  <1>6. /\ slot.pos \in Nat /\ slot.from \in Nat /\ n \in Nat /\ n >= 1
        /\ slot.pos + n \in 0..BUFFER_SIZE
        /\ call.done + n \in Nat /\ call.done + n <= call.sz /\ call.done + n # 0
        /\ next + n <= MaxBytes /\ next + n + (call.sz - (call.done + n)) <= MaxBytes
    <2>1. slot.pos \in Nat /\ slot.from \in Nat /\ next \in Nat /\ slot.buff_size = BUFFER_SIZE
          /\ BUFFER_SIZE \in Nat /\ MaxBytes \in Nat
      BY <1>3, <1>4 DEF SlotType
    <2>2. call.done \in Nat /\ call.sz \in Nat
      BY <1>5 DEF CallType
    <2> QED BY <1>2, <1>5, <2>1, <2>2
  <1>7. /\ s \in SlotType /\ s.pos = slot.pos + n /\ s.buff_size = BUFFER_SIZE
        /\ s.from = IF slot.pos = 0 THEN next ELSE slot.from
    BY <1>4, <1>6 DEF Stored, SlotType
  <1>8. s.from + s.pos = next + n
    BY <1>4, <1>6, <1>7
  <1> HIDE DEF s
  <1>9. g \in FileType /\ g.cache = [f.cache EXCEPT ![0] = s] /\ g.curr_cache = 0
    BY <1>3, <1>4, <1>7 DEF FileType
  <1> HIDE DEF g
  <1>10. g.cache[0] = s /\ \A i \in Slots : i # 0 => g.cache[i] = f.cache[i]
    BY <1>3, <1>4, <1>9
  <1>11. \A i \in Slots : g.cache[i].pos <= g.cache[i].buff_size
    BY <1>3, <1>4, <1>6, <1>7, <1>10
  <1>12. /\ call' \in CallType /\ call'.op = call.op /\ call'.sz = call.sz
         /\ call'.done = call.done + n /\ call'.left = left /\ ~call'.eof
    BY <1>1, <1>2, <1>5, <1>6 DEF CallType
  <1>13. next' \in 0..MaxBytes
    BY <1>1, <1>3, <1>4, <1>6
  <1>14. /\ f' \in FileType /\ f'.curr_cache = 0 /\ f'.cache[0].buff_size = BUFFER_SIZE
         /\ \A i \in Slots : f'.cache[i].pos <= f'.cache[i].buff_size
         /\ fd_at' \in Nat /\ disk' \in [Places -> -1..(MaxBytes - 1)]
         /\ fd_at' + f'.cache[0].pos = fd_at + s.pos
         /\ full => f'.cache[0].pos = 0
         /\ ~full => f'.cache[0] = s
         /\ full => disk' = Overlay(fd_at, s.from, s.pos)
         /\ ~full => disk' = disk /\ fd_at' = fd_at
    <2>1. CASE full
      <3>1. FlushTo(g, fd_at) /\ fd_at \in Nat /\ disk \in [Places -> -1..(MaxBytes - 1)]
        BY <1>1, <1>4, <2>1, WriteFacts
      <3>2. g.cache[0].from + g.cache[0].pos <= MaxBytes
        BY <1>6, <1>8, <1>10
      <3>3. /\ disk' \in [Places -> -1..(MaxBytes - 1)]
            /\ fd_at' = fd_at + g.cache[0].pos /\ fd_at' \in Nat
            /\ f' \in FileType /\ f'.curr_cache = g.curr_cache
            /\ f'.cache[0].pos = 0 /\ f'.cache[0].buff_size = g.cache[0].buff_size
            /\ \A i \in Slots : f'.cache[i].pos <= f'.cache[i].buff_size
            /\ disk' = Overlay(fd_at, g.cache[0].from, g.cache[0].pos)
        BY <1>9, <1>11, <3>1, <3>2, FlushValue
      <3> QED BY <1>7, <1>9, <1>10, <2>1, <3>3
    <2>2. CASE ~full
      <3>1. f' = g /\ disk' = disk /\ fd_at' = fd_at
        BY <1>1, <2>2
      <3>2. disk \in [Places -> -1..(MaxBytes - 1)]
        BY <1>1, WriteFacts
      <3> QED BY <1>4, <1>7, <1>9, <1>10, <1>11, <2>2, <3>1, <3>2
    <2> QED BY <2>1, <2>2
  <1> HIDE DEF full
  <1>15. TypeOK'
    BY <1>1, <1>12, <1>13, <1>14 DEF IInv, TypeOK, CallType
  <1>16. ReadInv' /\ WriteInv'
    BY <1>1, <1>8, <1>14 DEF ReadInv, WriteInv, full
  <1>17. CallInv'
    BY <1>1, <1>2, <1>5, <1>6, <1>12 DEF CallInv, CallType, Moving, Writing
  <1>18. SecondRound'
    <2> SUFFICES ASSUME call.op = "write", call.done + n < call.sz
                 PROVE  /\ Ready(f')
                        /\ TwoRounds =>
                             /\ call'.left = call'.sz /\ Curr(f').pos = 0
                             /\ call.sz - (call.done + n) <= Curr(f').buff_size
      BY <1>1, <1>12 DEF SecondRound, Ready, Curr, TwoRounds
    <2>1. Curr(f') = f'.cache[0]
      BY <1>14 DEF Curr
    <2>2. Ready(f')
      <3>1. CASE full
        BY <1>3, <1>14, <2>1, <3>1 DEF Ready
      <3>2. CASE ~full
        <4>1. f'.curr_cache # -1 /\ Curr(f').pos = slot.pos + n /\ Curr(f').buff_size = BUFFER_SIZE
          BY <1>7, <1>14, <2>1, <3>2
        <4>2. slot.pos + n # BUFFER_SIZE
          BY <1>4, <3>2 DEF full
        <4>3. slot.pos + n < BUFFER_SIZE
          BY <1>3, <1>6, <4>2
        <4> QED BY <4>1, <4>3 DEF Ready
      <3> QED BY <3>1, <3>2
    <2>3. ASSUME TwoRounds
          PROVE  /\ call'.left = call'.sz /\ Curr(f').pos = 0
                 /\ call.sz - (call.done + n) <= Curr(f').buff_size
      <3>1. full
        <4>1. n # call.sz - call.done
          BY <1>5, <1>6 DEF CallType
        <4>2. ~(slot.pos + n < slot.buff_size)
          BY <1>2, <2>3, <4>1
        <4> QED BY <1>3, <1>4, <1>6, <4>2 DEF full
      <3>2. Curr(f').pos = 0
        BY <1>14, <2>1, <3>1
      <3>3. call.done = 0
        <4> SUFFICES ASSUME call.done # 0 PROVE FALSE
          OBVIOUS
        <4>1. slot.pos = 0 /\ call.sz - call.done <= slot.buff_size
          BY <1>1, <1>5, <2>3 DEF IInv, SecondRound, CallType, slot
        <4> QED BY <1>4, <1>5, <1>6, <3>1, <4>1 DEF full, CallType
      <3>4. left = call.sz
        BY <1>2, <3>3
      <3> QED BY <1>3, <1>5, <1>6, <1>12, <1>14, <2>1, <2>3, <3>2, <3>3, <3>4 DEF CallType
    <2> QED BY <2>2, <2>3
  <1>19. Offset' = Offset + n
    BY <1>1, <1>4, <1>6, <1>7, <1>14 DEF Offset
  <1>20. Written' = Overlay(fd_at, s.from, s.pos)
    <2>1. call'.op # "closed" /\ mode' = "write"
      BY <1>1, <1>12
    <2>2. CASE full
      BY <1>14, <2>2, WrittenFlushed
    <2>3. CASE ~full
      BY <1>14, <2>1, <2>3 DEF Written, Overlay
    <2> QED BY <2>2, <2>3
  <1>21. Written = Overlay(fd_at, slot.from, slot.pos) /\ DOMAIN Written = Places
    BY <1>1, <1>4 DEF Written, Overlay
  <1>22. Overlay(fd_at, s.from, s.pos)
           = [p \in Places |-> IF Offset <= p /\ p < Offset + n
                               THEN next + (p - Offset) ELSE Written[p]]
    <2>1. ASSUME NEW p \in Places
          PROVE  (IF fd_at <= p /\ p < fd_at + s.pos THEN s.from + (p - fd_at) ELSE disk[p])
                   = IF Offset <= p /\ p < Offset + n
                     THEN next + (p - Offset) ELSE Written[p]
      <3>1. p \in Nat
        BY Io61Assumption DEF Places
      <3>2. Written[p] = IF fd_at <= p /\ p < fd_at + slot.pos
                         THEN slot.from + (p - fd_at) ELSE disk[p]
        BY <1>21 DEF Overlay
      <3>3. CASE slot.pos = 0
        BY <1>4, <1>6, <1>7, <3>1, <3>2, <3>3
      <3>4. CASE slot.pos # 0
        <4>1. /\ fd_at \in Int /\ slot.pos \in Int /\ n \in Int /\ n > 0 /\ p \in Int
              /\ slot.pos > 0 /\ slot.from \in Int
              /\ s.from = slot.from /\ s.pos = slot.pos + n
              /\ next = slot.from + slot.pos /\ Offset = fd_at + slot.pos
          BY <1>4, <1>6, <1>7, <3>1, <3>4
        <4>2. CASE fd_at <= p /\ p < fd_at + slot.pos
          BY <3>2, <4>1, <4>2
        <4>3. CASE ~(fd_at <= p /\ p < fd_at + slot.pos)
          BY <3>2, <4>1, <4>3
        <4> QED BY <4>2, <4>3
      <3> QED BY <3>3, <3>4
    <2> QED BY <2>1, Zenon DEF Overlay
  <1> QED BY <1>1, <1>2, <1>12, <1>15, <1>16, <1>17, <1>18, <1>19, <1>20, <1>21, <1>22 DEF IInv

(* A round that copies nothing.                                            *)
LEMMA EmptyRoundKeeps ==
    ASSUME IInv, overrun' \in BOOLEAN, ~overrun', EmptyRound
    PROVE  IInv'
  <1>1. /\ call' = [call EXCEPT !.left = 0] /\ Moving /\ ~call.eof /\ Ready(f)
        /\ call.done # call.sz /\ CharsLeft = 0
        /\ UNCHANGED <<mode, fd_at, disk, f, next, got, result>>
    BY DEF EmptyRound, Reading, Writing, Moving, IInv, CallInv
  <1>2. call \in CallType /\ call.done < call.sz /\ SIZE_T \in Nat /\ 0 < SIZE_T
    BY <1>1, Io61Assumption DEF IInv, TypeOK, CallInv, CallType
  <1>3. /\ call' \in CallType /\ call'.op = call.op /\ call'.sz = call.sz
        /\ call'.done = call.done /\ call'.left = 0 /\ call'.eof = call.eof
    BY <1>1, <1>2 DEF CallType
  <1>4. ~TwoRounds /\ call.done # 0
    BY <1>1, <1>2, Round DEF CallType
  <1>5. TypeOK'
    BY <1>1, <1>3 DEF IInv, TypeOK, CallType
  <1>6. ReadInv' /\ WriteInv'
    BY <1>1 DEF IInv, ReadInv, WriteInv
  <1>7. CallInv'
    BY <1>1, <1>2, <1>3, <1>4 DEF IInv, CallInv, Moving, Writing, Offset, ReadAt, Curr
  <1>8. SecondRound'
    BY <1>1, <1>3, <1>4 DEF SecondRound, TwoRounds, Ready, Curr
  <1> QED BY <1>5, <1>6, <1>7, <1>8 DEF IInv

(* OverrunKeeps: only a call that needs more than two rounds leaves the    *)
(* client's buffer.                                                        *)
LEMMA OverrunKeeps ==
    ASSUME IInv, Overrun
    PROVE  IInv'
  <1>1. /\ Moving /\ ~call.eof /\ Ready(f) /\ call.done # call.sz
        /\ Chunk(Curr(f), CharsLeft) > call.sz - call.done
        /\ overrun' = TRUE /\ UNCHANGED <<mode, fd_at, disk, f, next, call, got, result>>
    BY DEF Overrun, Reading, Writing, Moving, IInv, CallInv
  <1>2. ~TwoRounds
    <2>1. call.sz \in Nat /\ call.done \in Nat
      BY DEF IInv, TypeOK
    <2>2. Chunk(Curr(f), CharsLeft) \notin 1..(call.sz - call.done)
      BY <1>1, <2>1
    <2> QED BY <1>1, <2>2, Round
  <1>3. TypeOK' /\ ReadInv' /\ WriteInv' /\ SecondRound'
    BY <1>1 DEF IInv, TypeOK, ReadInv, WriteInv, SecondRound, TwoRounds
  <1>4. CallInv'
    BY <1>1, <1>2 DEF IInv, CallInv, Moving, Writing, TwoRounds, Offset, ReadAt, Curr
  <1> QED BY <1>3, <1>4 DEF IInv

(* NotOverrun: the steps but one leave the client's buffer alone.          *)
LEMMA NotOverrun ==
    ASSUME IInv, [Next]_vars
    PROVE  \/ overrun' \in BOOLEAN /\ ~overrun' /\ Call
           \/ overrun' \in BOOLEAN /\ ~overrun' /\ Step
           \/ Overrun
           \/ UNCHANGED vars
  <1>1. overrun \in BOOLEAN
    BY DEF IInv, TypeOK
  <1>2. CASE Call
    <2>1. call = NoCall /\ UNCHANGED overrun
      BY <1>2 DEF Call, ReadCall, WriteCall, SeekCall, Begin, io61_flush, io61_close
    <2>2. ~overrun
      BY <2>1 DEF IInv, CallInv, Moving, NoCall
    <2> QED BY <1>1, <1>2, <2>1, <2>2
  <1>3. CASE Step
    <2>1. ~overrun /\ (Overrun \/ UNCHANGED overrun)
      BY <1>3 DEF Step, EmptyRound
    <2> QED BY <1>1, <1>3, <2>1
  <1> QED BY <1>2, <1>3 DEF Next, Closed

LEMMA NextIInv ==
    ASSUME SeekBound <= Size
    PROVE  IInv /\ [Next]_vars => IInv'
  <1> SUFFICES ASSUME IInv, [Next]_vars PROVE IInv'
    OBVIOUS
  <1>1. CASE overrun' \in BOOLEAN /\ ~overrun' /\ Call
    <2>1. CASE ReadCall \/ WriteCall \/ SeekCall
      BY <1>1, <2>1, BeginKeeps
    <2>2. CASE io61_flush \/ io61_close
      BY <1>1, <2>2, FlushOrCloseKeeps
    <2> QED BY <1>1, <2>1, <2>2 DEF Call
  <1>2. CASE overrun' \in BOOLEAN /\ ~overrun' /\ Step
    <2>1. CASE Refill
      BY <1>2, <2>1, RefillKeeps
    <2>2. CASE Deliver
      BY <1>2, <2>2, DeliverKeeps
    <2>3. CASE ReadReturn \/ WriteReturn
      BY <1>2, <2>3, ReturnKeeps
    <2>4. CASE MakeRoom
      BY <1>2, <2>4, MakeRoomKeeps
    <2>5. CASE Store
      BY <1>2, <2>5, StoreKeeps
    <2>6. CASE ReadSeek
      BY <1>2, <2>6, ReadSeekKeeps
    <2>7. CASE WriteSeek
      BY <1>2, <2>7, WriteSeekKeeps
    <2>8. CASE EmptyRound
      BY <1>2, <2>8, EmptyRoundKeeps
    <2>9. CASE Overrun
      BY <2>9, OverrunKeeps
    <2> QED BY <1>2, <2>1, <2>2, <2>3, <2>4, <2>5, <2>6, <2>7, <2>8, <2>9 DEF Step
  <1>3. CASE Overrun
    BY <1>3, OverrunKeeps
  <1>4. CASE UNCHANGED vars
    BY <1>4 DEF vars, IInv, TypeOK, ReadInv, WriteInv, CallInv, SecondRound, Moving, Writing,
                Windows, PosInside, SlotsTrue, CurrTrue, PipeAt, Curr, Ready, Offset, ReadAt,
                TwoRounds
  <1> QED BY <1>1, <1>2, <1>3, <1>4, NotOverrun

-----------------------------------------------------------------------------

(* Io61Type: io61 never reads or writes a slot beyond its end, and puts no *)
(* byte on disk that the client has not written, for a client that seeks   *)
(* inside its file.                                                        *)
THEOREM Io61Type ==
    ASSUME SeekBound <= Size
    PROVE  Spec => []TypeOK
  <1>1. IInv => TypeOK
    BY DEF IInv
  <1> QED BY <1>1, InitIInv, NextIInv, PTL DEF Spec

(* BeginMaps: a call of io61 begins a call of the plain file.              *)
LEMMA BeginMaps ==
    ASSUME IInv, ReadCall \/ WriteCall \/ SeekCall
    PROVE  Plain!Read \/ Plain!Write \/ Plain!SeekCall
  <1>1. PICK op \in {"readc", "read", "writec", "write", "seek"}, sz \in Nat :
            /\ Begin(op, sz)
            /\ op \in {"readc", "read"} => mode # "write"
            /\ op \in {"writec", "write"} => mode = "write"
            /\ op = "seek" => mode # "pipe"
    <2>1. \A sz \in 0..MaxRequest : sz \in Nat
      OBVIOUS
    <2>2. \A p \in 0..(SeekBound - 1) : p \in Nat
      BY Io61Assumption
    <2>3. CASE ReadCall
      BY <2>1, <2>3 DEF ReadCall
    <2>4. CASE WriteCall
      <3>1. mode = "write" /\ (Begin("writec", 1) \/ \E sz \in 0..MaxRequest : Begin("write", sz))
        BY <2>4 DEF WriteCall
      <3> QED BY <2>1, <3>1
    <2>5. CASE SeekCall
      <3>1. CASE mode = "file" /\ \E p \in 0..(SeekBound - 1) : Begin("seek", p)
        BY <2>2, <3>1
      <3>2. CASE mode = "write" /\ \E p \in Places : Begin("seek", p)
        BY <3>2, Io61Assumption DEF Places
      <3> QED BY <2>5, <3>1, <3>2 DEF SeekCall
    <2> QED BY <2>3, <2>4, <2>5
  <1>2. /\ call = NoCall
        /\ call' = [op |-> op, sz |-> sz, done |-> 0, left |-> sz, eof |-> FALSE]
        /\ UNCHANGED <<mode, fd_at, disk, f, next, got, result>>
    BY <1>1 DEF Begin
  <1>3. Offset' = Offset
    BY <1>2 DEF Offset, ReadAt, Curr
  <1>4. Written' = Written
    <2>1. call.op # "closed" /\ call'.op # "closed"
      BY <1>2 DEF NoCall
    <2> QED BY <1>2, <2>1 DEF Written, Overlay
  <1>5. PlainOp = "none" /\ call.sz = 0 /\ call.done = 0
    BY <1>2 DEF PlainOp, Writing, NoCall
  <1>6. call'.op = op /\ call'.sz = sz /\ call'.done = 0
    BY <1>2
  <1>7. CASE op \in {"readc", "read"}
    <2>1. PlainOp' = "read"
      BY <1>6, <1>7 DEF PlainOp, Writing
    <2> QED BY <1>1, <1>2, <1>3, <1>4, <1>5, <1>6, <1>7, <2>1
            DEF Plain!Read, Plain!Begin, Plain!NoCall
  <1>8. CASE op \in {"writec", "write"}
    <2>1. PlainOp' = "write"
      BY <1>6, <1>8 DEF PlainOp, Writing
    <2> QED BY <1>1, <1>2, <1>3, <1>4, <1>5, <1>6, <1>8, <2>1
            DEF Plain!Write, Plain!Begin, Plain!NoCall
  <1>9. CASE op = "seek"
    <2>1. PlainOp' = "seek"
      BY <1>6, <1>9 DEF PlainOp, Writing
    <2> QED BY <1>1, <1>2, <1>3, <1>4, <1>5, <1>6, <1>9, <2>1
            DEF Plain!SeekCall, Plain!Begin, Plain!NoCall
  <1> QED BY <1>7, <1>8, <1>9

(* DeliverMaps: a portion is the next bytes of the input, in their place.  *)
LEMMA DeliverMaps ==
    ASSUME IInv, overrun' \in BOOLEAN, ~overrun', Deliver
    PROVE  Plain!Deliver
  <1>1. call.op \in {"readc", "read"} /\ mode # "write" /\ UNCHANGED <<mode, disk, next, result>>
    BY DEF Deliver, Reading, IInv, CallInv
  <1>2. PICK n \in 1..(call.sz - call.done) : Delivered(n)
    BY DeliverKeeps
  <1>3. Written' = Written
    BY <1>1 DEF Written
  <1>4. PlainOp = "read" /\ PlainOp' = "read"
    BY <1>1, <1>2 DEF PlainOp, Writing, Delivered
  <1> QED BY <1>1, <1>2, <1>3, <1>4 DEF Plain!Deliver, Delivered

(* StoreMaps: the client's next bytes are put at the file position.        *)
LEMMA StoreMaps ==
    ASSUME IInv, overrun' \in BOOLEAN, ~overrun', Store
    PROVE  Plain!Put
  <1>1. call.op \in {"writec", "write"} /\ UNCHANGED <<mode, got, result>>
    BY DEF Store, Writing
  <1>2. PICK n \in 1..(call.sz - call.done) :
            /\ Offset' = Offset + n /\ next' = next + n
            /\ call'.op = call.op /\ call'.sz = call.sz
            /\ call'.done = call.done + n
            /\ Written' = [p \in DOMAIN Written |->
                 IF Offset <= p /\ p < Offset + n
                 THEN next + (p - Offset) ELSE Written[p]]
    BY StoreKeeps
  <1>3. PlainOp = "write" /\ PlainOp' = "write"
    BY <1>1, <1>2 DEF PlainOp, Writing
  <1> QED BY <1>1, <1>2, <1>3 DEF Plain!Put

(* ReturnMaps: a short count is returned at the end of the input only.     *)
LEMMA ReturnMaps ==
    ASSUME IInv, ReadReturn \/ WriteReturn
    PROVE  Plain!Return
  <1>1. call' = NoCall /\ result' = call.done /\ UNCHANGED <<mode, fd_at, disk, f, next, got>>
    BY DEF ReadReturn, WriteReturn
  <1>2. \/ call.op \in {"readc", "read"} /\ (call.done = call.sz \/ Offset = Size)
        \/ call.op \in {"writec", "write"} /\ call.done = call.sz
    BY DEF ReadReturn, WriteReturn, ReadDone, Writing, IInv, CallInv
  <1>3. Offset' = Offset
    BY <1>1 DEF Offset, ReadAt, Curr
  <1>4. Written' = Written
    <2>1. call.op # "closed" /\ call'.op # "closed"
      BY <1>1, <1>2 DEF NoCall
    <2> QED BY <1>1, <2>1 DEF Written, Overlay
  <1>5. /\ call.op \in {"readc", "read"} => PlainOp = "read"
        /\ call.op \in {"writec", "write"} => PlainOp = "write"
        /\ PlainOp' = "none" /\ call'.sz = 0 /\ call'.done = 0
    BY <1>1 DEF PlainOp, Writing, NoCall
  <1> QED BY <1>1, <1>2, <1>3, <1>4, <1>5 DEF Plain!Return, Plain!NoCall

(* SeekMaps: the file position moves, and nothing else does.               *)
LEMMA SeekMaps ==
    ASSUME IInv, overrun' \in BOOLEAN, ~overrun', ~SeekUnwritten, SeekBound <= Size,
           ReadSeek \/ WriteSeek
    PROVE  Plain!Seek
  <1>1. call.op = "seek" /\ call' = NoCall /\ result' = 0 /\ UNCHANGED <<mode, next, got>>
    BY DEF ReadSeek, WriteSeek
  <1>2. Offset' = call.sz /\ Written' = Written
    <2>1. CASE ReadSeek
      BY <2>1, ReadSeekKeeps DEF ReadSeek, Written
    <2>2. CASE WriteSeek
      <3>1. mode = "write" /\ f.cache[0].pos = 0 /\ call.sz \in Nat
        BY <1>1, <2>2 DEF WriteSeek, IInv, TypeOK, CallInv
      <3>2. Written = Overlay(fd_at, f.cache[0].from, 0)
        BY <1>1, <3>1 DEF Written
      <3>3. Written = disk
        BY <3>1, <3>2, WriteFacts, OverlayNothing
      <3>4. Offset' = call.sz + 0 /\ Written' = Overlay(call.sz, f.cache[0].from, 0)
        BY <2>2, <3>1, WriteSeekKeeps
      <3>5. Written' = disk
        BY <3>1, <3>4, WriteFacts, OverlayNothing
      <3> QED BY <3>1, <3>3, <3>4, <3>5
    <2> QED BY <2>1, <2>2
  <1>3. /\ PlainOp = "seek" /\ PlainOp' = "none" /\ call'.sz = 0 /\ call'.done = 0
    BY <1>1 DEF PlainOp, Writing, NoCall
  <1> QED BY <1>1, <1>2, <1>3 DEF Plain!Seek, Plain!NoCall

(* FlushMaps: to flush moves nothing, and after a close all is on disk.    *)
LEMMA FlushMaps ==
    ASSUME IInv, overrun' \in BOOLEAN, ~overrun', io61_flush \/ io61_close
    PROVE  Plain!Flush \/ Plain!Close
  <1>1. call = NoCall /\ result' = 0 /\ UNCHANGED <<mode, next, got>>
    BY DEF io61_flush, io61_close
  <1>2. Offset' = Offset /\ Written' = Written
    BY FlushOrCloseKeeps
  <1>3. PlainOp = "none" /\ call.sz = 0 /\ call.done = 0
    BY <1>1 DEF PlainOp, Writing, NoCall
  <1>4. CASE io61_flush
    <2>1. call' = call
      BY <1>4 DEF io61_flush
    <2>2. PlainOp' = PlainOp
      BY <2>1 DEF PlainOp, Writing
    <2> QED BY <1>1, <1>2, <1>3, <2>1, <2>2 DEF Plain!Flush, Plain!NoCall
  <1>5. CASE io61_close
    <2>1. call'.op = "closed" /\ call'.sz = 0 /\ call'.done = 0
      BY <1>5 DEF io61_close, NoCall
    <2>2. PlainOp' = "closed"
      BY <2>1 DEF PlainOp, Writing
    <2> QED BY <1>1, <1>2, <1>3, <2>1, <2>2 DEF Plain!Close, Plain!NoCall
  <1> QED BY <1>4, <1>5

(* StutterMaps: fills and flushes within a call are not seen outside.      *)
LEMMA StutterMaps ==
    ASSUME IInv,
           \/ (Refill \/ MakeRoom) /\ overrun' \in BOOLEAN /\ ~overrun'
           \/ EmptyRound \/ Overrun \/ UNCHANGED vars
    PROVE  UNCHANGED Plain!vars
  <1>1. CASE Refill /\ overrun' \in BOOLEAN /\ ~overrun'
    <2>1. /\ mode # "write" /\ UNCHANGED <<mode, disk, next, got, result>>
          /\ call'.op = call.op /\ call'.sz = call.sz /\ call'.done = call.done
      BY <1>1 DEF Refill, Reading, Fill, IInv, TypeOK, CallInv
    <2>2. Offset' = Offset
      BY <1>1, RefillKeeps
    <2>3. Written' = Written /\ PlainOp' = PlainOp
      BY <2>1 DEF Written, PlainOp, Writing
    <2> QED BY <2>1, <2>2, <2>3 DEF Plain!vars
  <1>2. CASE MakeRoom /\ overrun' \in BOOLEAN /\ ~overrun'
    <2>1. UNCHANGED <<mode, next, call, got, result>>
      BY <1>2 DEF MakeRoom
    <2>2. Offset' = Offset /\ Written' = Written
      BY <1>2, MakeRoomKeeps
    <2>3. PlainOp' = PlainOp
      BY <2>1 DEF PlainOp, Writing
    <2> QED BY <2>1, <2>2, <2>3 DEF Plain!vars
  <1>3. CASE UNCHANGED vars
    BY <1>3 DEF vars, Plain!vars, Offset, ReadAt, Curr, Written, Overlay, PlainOp, Writing
  <1>4. CASE EmptyRound \/ Overrun
    <2>1. /\ UNCHANGED <<mode, fd_at, disk, f, next, got, result>>
          /\ call'.op = call.op /\ call'.sz = call.sz /\ call'.done = call.done
      BY <1>4 DEF EmptyRound, Overrun, IInv, TypeOK
    <2>2. Offset' = Offset /\ Written' = Written /\ PlainOp' = PlainOp
      BY <2>1 DEF Offset, ReadAt, Curr, Written, Overlay, PlainOp, Writing
    <2> QED BY <2>1, <2>2 DEF Plain!vars
  <1> QED BY <1>1, <1>2, <1>3, <1>4

(* Io61ImplementsPlainFile: with its cache slots, prefetching and late     *)
(* writes, io61 does what the plain file of slow-io61.c does, whatever a   *)
(* call asks for, until a call that needs more than two rounds leaves the  *)
(* client's buffer; for a client that seeks inside its input only, and not *)
(* while bytes wait to be written.                                         *)
THEOREM Io61ImplementsPlainFile ==
    ASSUME ~SeekUnwritten, SeekBound <= Size
    PROVE  Spec => ImplementsPlainFile
  <1>1. Init => Plain!Init
    <2> SUFFICES ASSUME Init PROVE Plain!Init
      OBVIOUS
    <2>1. IInv
      BY InitIInv
    <2>2. 0 \in Slots
      BY Io61Assumption DEF Slots
    <2>3. f.cache[0].pos = 0 /\ f.curr_cache = -1
      BY <2>2 DEF Init, io61_fdopen, EmptySlot
    <2>4. Offset = 0
      BY <2>3 DEF Init, Offset, ReadAt
    <2>5. Written = disk
      <3>1. CASE mode = "write"
        <4>1. disk \in [Places -> -1..(MaxBytes - 1)] /\ fd_at \in Nat
          BY <2>1 DEF IInv, TypeOK
        <4>2. Written = Overlay(fd_at, f.cache[0].from, 0)
          BY <2>3, <3>1 DEF Init, Written, NoCall
        <4> QED BY <4>1, <4>2, OverlayNothing
      <3>2. CASE mode # "write"
        BY <3>2 DEF Written
      <3> QED BY <3>1, <3>2
    <2>6. PlainOp = "none" /\ call.sz = 0 /\ call.done = 0
      BY DEF Init, PlainOp, Writing, NoCall
    <2> QED BY <2>4, <2>5, <2>6 DEF Init, Modes, Nothing, Plain!Init, Plain!NoCall, Plain!Nothing
  <1>2. IInv /\ [Next]_vars => [Plain!Next]_Plain!vars
    <2> SUFFICES ASSUME IInv, [Next]_vars PROVE [Plain!Next]_Plain!vars
      OBVIOUS
    <2>1. CASE overrun' \in BOOLEAN /\ ~overrun' /\ Call
      <3>1. CASE ReadCall \/ WriteCall \/ SeekCall
        BY <3>1, BeginMaps DEF Plain!Next
      <3>2. CASE io61_flush \/ io61_close
        BY <2>1, <3>2, FlushMaps DEF Plain!Next
      <3> QED BY <2>1, <3>1, <3>2 DEF Call
    <2>2. CASE overrun' \in BOOLEAN /\ ~overrun' /\ Step
      <3>1. CASE Deliver
        BY <2>2, <3>1, DeliverMaps DEF Plain!Next
      <3>2. CASE Store
        BY <2>2, <3>2, StoreMaps DEF Plain!Next
      <3>3. CASE ReadReturn \/ WriteReturn
        BY <3>3, ReturnMaps DEF Plain!Next
      <3>4. CASE ReadSeek \/ WriteSeek
        BY <2>2, <3>4, SeekMaps DEF Plain!Next
      <3>5. CASE Refill \/ MakeRoom \/ EmptyRound \/ Overrun
        BY <2>2, <3>5, StutterMaps
      <3> QED BY <2>2, <3>1, <3>2, <3>3, <3>4, <3>5 DEF Step
    <2>3. CASE Overrun \/ UNCHANGED vars
      BY <2>3, StutterMaps
    <2> QED BY <2>1, <2>2, <2>3, NotOverrun
  <1>3. IInv => (overrun => ~TwoRounds)
    BY DEF IInv, CallInv
  <1> QED BY <1>1, <1>2, <1>3, InitIInv, NextIInv, PTL DEF Spec, ImplementsPlainFile, Plain!Spec

(* Io61SeekMoves: io61_seek() moves the file to where it was asked to, for *)
(* a client that seeks inside its input.                                   *)
THEOREM Io61SeekMoves ==
    ASSUME ~SeekUnwritten, SeekBound <= Size
    PROVE  Spec => SeekMoves
  <1>1. IInv /\ [Next]_vars => (call.op = "seek" /\ call' = NoCall => Offset' = call.sz)
    <2> SUFFICES ASSUME IInv, [Next]_vars, call.op = "seek", call' = NoCall
                 PROVE  Offset' = call.sz
      OBVIOUS
    <2>1. ReadSeek \/ WriteSeek
      <3>1. call # NoCall
        BY DEF NoCall
      <3>2. ~Call
        BY <3>1 DEF Call, ReadCall, WriteCall, SeekCall, Begin, io61_flush, io61_close
      <3>3. ~(Overrun \/ EmptyRound \/ Refill \/ Deliver \/ ReadReturn
              \/ MakeRoom \/ Store \/ WriteReturn)
        BY DEF Overrun, EmptyRound, Refill, Deliver, Reading, ReadReturn,
               MakeRoom, Store, WriteReturn, Writing
      <3>4. ~UNCHANGED vars
        BY <3>1 DEF vars
      <3> QED BY <3>2, <3>3, <3>4, NotOverrun DEF Step
    <2>a. overrun' \in BOOLEAN /\ ~overrun'
      <3>1. ~(Overrun \/ UNCHANGED vars)
        BY <2>1 DEF ReadSeek, WriteSeek, Overrun, Reading, Writing, vars, NoCall
      <3> QED BY <3>1, NotOverrun
    <2>2. CASE ReadSeek
      BY <2>a, <2>2, ReadSeekKeeps
    <2>3. CASE WriteSeek
      BY <2>a, <2>3, WriteSeekKeeps DEF IInv, TypeOK, CallInv, WriteSeek
    <2> QED BY <2>1, <2>2, <2>3
  <1>2. IInv /\ [Next]_vars
          => [call.op = "seek" /\ call' = NoCall /\ result' = 0 => Offset' = call.sz]_vars
    BY <1>1
  <1> QED BY <1>2, InitIInv, NextIInv, PTL DEF Spec, SeekMoves
=============================================================================
