----------------------------- MODULE PlainFile -----------------------------
(***************************************************************************)
(* What io61.h promises: a file without buffers, as slow-io61.c implements *)
(* it.  Every byte goes to or comes from the place `at` at once.  A byte   *)
(* that is read is known by its place in the input, a byte that is written *)
(* by its number among all that the client wrote.  One call of io61_read() *)
(* or io61_write() moves its bytes in portions of any size.                *)
(***************************************************************************)
EXTENDS Integers

CONSTANT Size       \* bytes in the input, a file or what comes through a pipe

VARIABLES
    mode,       \* "file" and "pipe" are read, "write" is written
    at,         \* the file position
    written,    \* place in the output -> number of the byte there
    next,       \* number of the next byte the client writes
    call,       \* the call in progress
    got,        \* the last portion of the client's buffer that was filled
    result      \* what the last call returned; 0 for the EOF of io61_readc()
vars == <<mode, at, written, next, call, got, result>>

NoCall == [op |-> "none", sz |-> 0, done |-> 0]
Nothing == [to |-> 0, first |-> 0, count |-> 0]

Init ==
    /\ mode \in {"file", "pipe", "write"}
    /\ at = 0
    /\ \A p \in DOMAIN written : written[p] = -1
    /\ next = 0
    /\ call = NoCall
    /\ got = Nothing
    /\ result = 0

Begin(op) ==
    /\ call = NoCall
    /\ call'.sz \in Nat
    /\ call' = [op |-> op, sz |-> call'.sz, done |-> 0]
    /\ UNCHANGED <<mode, at, written, next, got, result>>

Read == mode # "write" /\ Begin("read")
Write == mode = "write" /\ Begin("write")
SeekCall == mode # "pipe" /\ Begin("seek")

\* io61_readc() or a part of io61_read(): the next n bytes, in their place.
Deliver ==
    /\ call.op = "read"
    /\ \E n \in 1..(call.sz - call.done) :
        /\ at + n <= Size
        /\ got' = [to |-> call.done, first |-> at, count |-> n]
        /\ at' = at + n
        /\ call' = [call EXCEPT !.done = call.done + n]
    /\ UNCHANGED <<mode, written, next, result>>

\* io61_writec() or a part of io61_write().
Put ==
    /\ call.op = "write"
    /\ \E n \in 1..(call.sz - call.done) :
        /\ written' = [p \in DOMAIN written |->
                        IF at <= p /\ p < at + n THEN next + (p - at) ELSE written[p]]
        /\ at' = at + n
        /\ next' = next + n
        /\ call' = [call EXCEPT !.done = call.done + n]
    /\ UNCHANGED <<mode, got, result>>

\* A short count is returned only at the end of the input.
Return ==
    /\ \/ call.op = "read" /\ (call.done = call.sz \/ at = Size)
       \/ call.op = "write" /\ call.done = call.sz
    /\ call' = NoCall
    /\ result' = call.done
    /\ UNCHANGED <<mode, at, written, next, got>>

\* The call's sz is the place io61_seek() is asked for.
Seek ==
    /\ call.op = "seek"
    /\ at' = call.sz
    /\ call' = NoCall
    /\ result' = 0
    /\ UNCHANGED <<mode, written, next, got>>

Flush ==
    /\ call = NoCall
    /\ result' = 0
    /\ UNCHANGED <<mode, at, written, next, call, got>>

\* What was written is there when the file is closed.
Close ==
    /\ call = NoCall
    /\ call' = [NoCall EXCEPT !.op = "closed"]
    /\ result' = 0
    /\ UNCHANGED <<mode, at, written, next, got>>

Next ==
    \/ Read \/ Write \/ SeekCall
    \/ Deliver \/ Put \/ Return \/ Seek
    \/ Flush \/ Close
Spec == Init /\ [][Next]_vars
=============================================================================
