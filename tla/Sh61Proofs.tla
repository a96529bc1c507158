------------------------------ MODULE Sh61Proofs -------------------------------
(***************************************************************************)
(* Sh61, for any scripts, any programs and any number of processes, pipes  *)
(* and interrupts: the types of the variables; and of scripts that are     *)
(* read as they are meant, that a shell which prompts has given back its   *)
(* pipe ends and its children, and that the stages of a pipeline run one   *)
(* after the other, unless a missing program is in front of a pipe.        *)
(***************************************************************************)
EXTENDS Sh61, SumTheorems

-----------------------------------------------------------------------------
(* The types.  A process is a record, and so a function on the names of its  *)
(* fields: that is how the proofs treat it, for any field at once.           *)

Kinds == {"free", "shell", "command", "zombie", "gone"}
Pcs == {"top", "read", "list", "run", "stage", "exec", "wait", "reset", "reap"}
Ends == Pipes \cup {0}
Jobs == {<<>>} \cup (Nat \X Nat)

AllGroups == {<<>>} \cup UNION {{Parsed[s][n] : n \in DOMAIN Parsed[s]} : s \in DOMAIN Scripts}

FieldType ==
    [kind |-> Kinds, parent |-> Pids \cup {0}, exit |-> Statuses, pc |-> Pcs, n |-> Nat,
     next |-> Nat \ {0}, z |-> Nat, interrupted |-> BOOLEAN, cmd_running |-> BOOLEAN,
     clear_cmd |-> BOOLEAN, eintr |-> BOOLEAN, group |-> AllGroups, i |-> Nat, j |-> Nat,
     k |-> Nat, stop_process |-> BOOLEAN, job |-> Jobs, pid |-> Pids \cup {-1, 0},
     status |-> Statuses, cstatus |-> Statuses, prev |-> Ends, fd_in |-> Ends,
     fd_out |-> Ends, fds |-> SUBSET (Pipes \X {"r", "w"}), stdin |-> Ends, stdout |-> Ends]

IsProcess(m) ==
    /\ m = [f \in DOMAIN FieldType |-> m[f]]
    /\ \A f \in DOMAIN FieldType : m[f] \in FieldType[f]

\* A shell that reaps has something left to reap.
Reaping(m) == m.pc = "reap" => m.z >= 1

Typed ==
    /\ script \in DOMAIN Scripts
    /\ proc = [p \in Pids |-> proc[p]]
    /\ \A p \in Pids : IsProcess(proc[p]) /\ Reaping(proc[p])
    /\ interrupts \in 0 .. MaxInterrupts
    /\ \A c \in DOMAIN ran : ran[c] \in Statuses \cup {"running"}
    /\ cut \subseteq Nat \X Nat

-----------------------------------------------------------------------------
(* The fields of a process. *)

LEMMA PidsNumbered == Pids \subseteq Nat /\ 0 \notin Pids /\ -1 \notin Pids /\ 0 \notin Pipes
  BY Sh61Assumption DEF Pids, Pipes

LEMMA FieldNames ==
    \A f \in {"kind", "parent", "exit", "pc", "n", "next", "z", "interrupted", "cmd_running",
              "clear_cmd", "eintr", "group", "i", "j", "k", "stop_process", "job", "pid",
              "status", "cstatus", "prev", "fd_in", "fd_out", "fds", "stdin", "stdout"} :
      f \in DOMAIN FieldType
  BY DEF FieldType

LEMMA FieldTypes ==
    /\ FieldType["kind"] = Kinds /\ FieldType["parent"] = Pids \cup {0}
    /\ FieldType["exit"] = Statuses /\ FieldType["pc"] = Pcs /\ FieldType["n"] = Nat
    /\ FieldType["next"] = Nat \ {0} /\ FieldType["z"] = Nat
    /\ FieldType["interrupted"] = BOOLEAN /\ FieldType["cmd_running"] = BOOLEAN
    /\ FieldType["clear_cmd"] = BOOLEAN /\ FieldType["eintr"] = BOOLEAN
    /\ FieldType["group"] = AllGroups
    /\ FieldType["i"] = Nat /\ FieldType["j"] = Nat /\ FieldType["k"] = Nat
    /\ FieldType["stop_process"] = BOOLEAN /\ FieldType["job"] = Jobs
    /\ FieldType["pid"] = Pids \cup {-1, 0}
    /\ FieldType["status"] = Statuses /\ FieldType["cstatus"] = Statuses
    /\ FieldType["prev"] = Ends /\ FieldType["fd_in"] = Ends /\ FieldType["fd_out"] = Ends
    /\ FieldType["fds"] = SUBSET (Pipes \X {"r", "w"})
    /\ FieldType["stdin"] = Ends /\ FieldType["stdout"] = Ends
  BY DEF FieldType

LEMMA FieldsTyped ==
    ASSUME NEW m, IsProcess(m)
    PROVE  /\ m.kind \in Kinds /\ m.parent \in Pids \cup {0} /\ m.exit \in Statuses
           /\ m.pc \in Pcs /\ m.n \in Nat /\ m.next \in Nat \ {0} /\ m.z \in Nat
           /\ m.interrupted \in BOOLEAN /\ m.cmd_running \in BOOLEAN
           /\ m.clear_cmd \in BOOLEAN /\ m.eintr \in BOOLEAN /\ m.group \in AllGroups
           /\ m.i \in Nat /\ m.j \in Nat /\ m.k \in Nat /\ m.stop_process \in BOOLEAN
           /\ m.job \in Jobs /\ m.pid \in Pids \cup {-1, 0}
           /\ m.status \in Statuses /\ m.cstatus \in Statuses
           /\ m.prev \in Ends /\ m.fd_in \in Ends /\ m.fd_out \in Ends
           /\ m.fds \in SUBSET (Pipes \X {"r", "w"})
           /\ m.stdin \in Ends /\ m.stdout \in Ends
  BY FieldNames, FieldTypes DEF IsProcess

\* Values that the steps assign.
LEMMA Values ==
    /\ \A x \in {"free", "shell", "command", "zombie", "gone"} : x \in Kinds
    /\ \A x \in {"top", "read", "list", "run", "stage", "exec", "wait", "reset", "reap"} : x \in Pcs
    /\ "ok" \in Statuses /\ "failed" \in Statuses /\ "killed" \in Statuses
    /\ 0 \in Ends /\ \A x \in Pipes : x \in Ends
    /\ <<>> \in AllGroups /\ \A a, b \in Nat : <<a, b>> \in Jobs
  BY DEF Kinds, Pcs, Statuses, Ends, AllGroups, Jobs

LEMMA NoProcessType ==
    IsProcess(NoProcess) /\ NoProcess.pc = "top" /\ NoProcess.fds = {} /\ NoProcess.parent = 0
  <1>1. DOMAIN NoProcess = DOMAIN FieldType
    BY DEF NoProcess, FieldType
  <1>2. NoProcess = [f \in DOMAIN NoProcess |-> NoProcess[f]]
    BY DEF NoProcess
  <1>3. \A f \in DOMAIN FieldType : NoProcess[f] \in FieldType[f]
    <2>1. DOMAIN FieldType =
             {"kind", "parent", "exit", "pc", "n", "next", "z", "interrupted", "cmd_running",
              "clear_cmd", "eintr", "group", "i", "j", "k", "stop_process", "job", "pid",
              "status", "cstatus", "prev", "fd_in", "fd_out", "fds", "stdin", "stdout"}
      BY DEF FieldType
    <2>2. /\ NoProcess["kind"] = "free" /\ NoProcess["parent"] = 0 /\ NoProcess["exit"] = "ok"
          /\ NoProcess["pc"] = "top" /\ NoProcess["n"] = 0 /\ NoProcess["next"] = 1
          /\ NoProcess["z"] = 0 /\ NoProcess["interrupted"] = FALSE
          /\ NoProcess["cmd_running"] = FALSE /\ NoProcess["clear_cmd"] = FALSE
          /\ NoProcess["eintr"] = FALSE /\ NoProcess["group"] = <<>>
          /\ NoProcess["i"] = 0 /\ NoProcess["j"] = 0 /\ NoProcess["k"] = 0
          /\ NoProcess["stop_process"] = FALSE /\ NoProcess["job"] = <<>>
          /\ NoProcess["pid"] = -1 /\ NoProcess["status"] = "ok"
          /\ NoProcess["cstatus"] = "ok" /\ NoProcess["prev"] = 0 /\ NoProcess["fd_in"] = 0
          /\ NoProcess["fd_out"] = 0 /\ NoProcess["fds"] = {}
          /\ NoProcess["stdin"] = 0 /\ NoProcess["stdout"] = 0
      BY DEF NoProcess
    <2>3. <<>> \in Jobs /\ {} \in SUBSET (Pipes \X {"r", "w"}) /\ 1 \in Nat \ {0}
      BY DEF Jobs
    <2>4. /\ NoProcess["kind"] \in FieldType["kind"]
          /\ NoProcess["exit"] \in FieldType["exit"]
          /\ NoProcess["pc"] \in FieldType["pc"]
          /\ NoProcess["group"] \in FieldType["group"]
      BY <2>2, <2>3, FieldTypes, Values
    <2>5. /\ NoProcess["parent"] \in FieldType["parent"]
          /\ NoProcess["n"] \in FieldType["n"]
          /\ NoProcess["next"] \in FieldType["next"]
          /\ NoProcess["z"] \in FieldType["z"]
          /\ NoProcess["i"] \in FieldType["i"]
          /\ NoProcess["j"] \in FieldType["j"]
          /\ NoProcess["k"] \in FieldType["k"]
          /\ NoProcess["pid"] \in FieldType["pid"]
      BY <2>2, <2>3, FieldTypes, Values
    <2>6. /\ NoProcess["interrupted"] \in FieldType["interrupted"]
          /\ NoProcess["cmd_running"] \in FieldType["cmd_running"]
          /\ NoProcess["clear_cmd"] \in FieldType["clear_cmd"]
          /\ NoProcess["eintr"] \in FieldType["eintr"]
          /\ NoProcess["stop_process"] \in FieldType["stop_process"]
      BY <2>2, <2>3, FieldTypes, Values
    <2>7. /\ NoProcess["job"] \in FieldType["job"]
          /\ NoProcess["fds"] \in FieldType["fds"]
          /\ NoProcess["status"] \in FieldType["status"]
          /\ NoProcess["cstatus"] \in FieldType["cstatus"]
      BY <2>2, <2>3, FieldTypes, Values
    <2>8. /\ NoProcess["prev"] \in FieldType["prev"]
          /\ NoProcess["fd_in"] \in FieldType["fd_in"]
          /\ NoProcess["fd_out"] \in FieldType["fd_out"]
          /\ NoProcess["stdin"] \in FieldType["stdin"]
          /\ NoProcess["stdout"] \in FieldType["stdout"]
      BY <2>2, <2>3, FieldTypes, Values
    <2> QED BY <2>1, <2>4, <2>5, <2>6, <2>7, <2>8
  <1>4. NoProcess.pc = "top" /\ NoProcess.fds = {} /\ NoProcess.parent = 0
    BY DEF NoProcess
  <1> QED BY <1>1, <1>2, <1>3, <1>4 DEF IsProcess

LEMMA GoneType ==
    LET g == [NoProcess EXCEPT !.kind = "gone"]
    IN  IsProcess(g) /\ Reaping(g) /\ g.kind = "gone" /\ g.parent = 0
  BY NoProcessType, FieldNames, FieldTypes, Values DEF IsProcess, Reaping

LEMMA EndedType ==
    ASSUME NEW m, IsProcess(m), NEW st \in Statuses
    PROVE  LET e == Ended(m, st)
           IN  /\ IsProcess(e) /\ Reaping(e)
               /\ e.kind = "zombie" /\ e.parent = m.parent /\ e.exit = st /\ e.job = m.job
  <1>1. m.parent \in Pids \cup {0} /\ m.job \in Jobs
    BY FieldsTyped
  <1> DEFINE e == [NoProcess EXCEPT !.kind = "zombie", !.parent = m.parent, !.exit = st,
                                     !.job = m.job]
  <1>2. /\ IsProcess(e) /\ e.pc = NoProcess.pc
        /\ e.kind = "zombie" /\ e.parent = m.parent /\ e.exit = st /\ e.job = m.job
    BY <1>1, NoProcessType, FieldNames, FieldTypes, Values DEF IsProcess
  <1>3. Ended(m, st) = e
    BY Zenon DEF Ended
  <1> HIDE DEF e
  <1> QED BY <1>2, <1>3, NoProcessType DEF Reaping

-----------------------------------------------------------------------------
(* What a step does to the processes. *)

LEMMA BecomeEffect ==
    ASSUME Typed, NEW p \in Pids, NEW v, Become(p, v)
    PROVE  proc' = [r \in Pids |-> IF r = p THEN v ELSE proc[r]]
  <1>1. proc' = [proc EXCEPT ![p] = v] /\ DOMAIN proc = Pids
    BY DEF Become, Typed
  <1> QED BY <1>1

\* fork() finds a pid that is free.
LEMMA LowestUnused ==
    ASSUME Unused # {}
    PROVE  Min(Unused) \in Unused
  <1>1. Unused \in SUBSET Nat
    BY PidsNumbered DEF Unused
  <1> QED BY <1>1, LeastExists

\* What fork() leaves: the parent, which is told the pid, and the child.
LEMMA ForkEffect ==
    ASSUME NEW p \in Pids, NEW m, NEW c, Typed, proc[p].kind # "free", Fork(p, m, c)
    PROVE  \E q \in Pids \ {p} :
              /\ proc[q].kind = "free"
              /\ proc' = [r \in Pids |->
                            IF r = p THEN IF m.pc = "wait" THEN [m EXCEPT !.pid = q] ELSE m
                            ELSE IF r = q THEN [c EXCEPT !.parent = p] ELSE proc[r]]
  <1> DEFINE q == Min(Unused)
             v == IF m.pc = "wait" THEN [m EXCEPT !.pid = q] ELSE m
  <1>1. q \in Unused
    BY LowestUnused DEF Fork
  <1>2. proc' = [proc EXCEPT ![p] = v, ![q] = [c EXCEPT !.parent = p]]
    BY Zenon DEF Fork
  <1>3. DOMAIN proc = Pids
    BY DEF Typed
  <1> HIDE DEF v, q
  <1>4. q \in Pids /\ proc[q].kind = "free" /\ q # p
    BY <1>1 DEF Unused
  <1>5. proc' = [r \in Pids |-> IF r = p THEN v
                               ELSE IF r = q THEN [c EXCEPT !.parent = p] ELSE proc[r]]
    BY <1>2, <1>3, <1>4
  <1> QED BY <1>4, <1>5 DEF v

-----------------------------------------------------------------------------
(* The types are kept. *)

ProcsTyped(f) ==
    /\ f = [p \in Pids |-> f[p]]
    /\ \A p \in Pids : IsProcess(f[p]) /\ Reaping(f[p])

LEMMA BecomeTyped ==
    ASSUME Typed, NEW p \in Pids, NEW v, IsProcess(v), Reaping(v), Become(p, v)
    PROVE  ProcsTyped(proc')
  <1>1. proc' = [r \in Pids |-> IF r = p THEN v ELSE proc[r]]
    BY BecomeEffect
  <1>2. \A r \in Pids : IsProcess(proc[r]) /\ Reaping(proc[r])
    BY DEF Typed
  <1> QED BY <1>1, <1>2 DEF ProcsTyped

LEMMA ReapedTyped ==
    ASSUME Typed, NEW p \in Pids, NEW v, IsProcess(v), Reaping(v), NEW q, Reaped(p, v, q)
    PROVE  ProcsTyped(proc')
  <1> DEFINE g == [NoProcess EXCEPT !.kind = "gone"]
  <1>1. \A r \in Pids : IsProcess(proc[r]) /\ Reaping(proc[r])
    BY DEF Typed
  <1>2. IsProcess(g) /\ Reaping(g)
    BY GoneType
  <1>3. proc' = [r \in Pids |-> IF r = p THEN v ELSE IF r = q THEN g ELSE proc[r]]
    BY DEF Reaped
  <1> HIDE DEF g
  <1> QED BY <1>1, <1>2, <1>3 DEF ProcsTyped

LEMMA ForkTyped ==
    ASSUME Typed, NEW p \in Pids, NEW m, IsProcess(m), Reaping(m), NEW c, IsProcess(c), Reaping(c),
           proc[p].kind # "free", Fork(p, m, c)
    PROVE  ProcsTyped(proc')
  <1>1. \A r \in Pids : IsProcess(proc[r]) /\ Reaping(proc[r])
    BY DEF Typed
  <1>2. PICK q \in Pids \ {p} :
              proc' = [r \in Pids |->
                         IF r = p THEN IF m.pc = "wait" THEN [m EXCEPT !.pid = q] ELSE m
                         ELSE IF r = q THEN [c EXCEPT !.parent = p] ELSE proc[r]]
    BY ForkEffect
  <1> DEFINE v == IF m.pc = "wait" THEN [m EXCEPT !.pid = q] ELSE m
             d == [c EXCEPT !.parent = p]
  <1>3. IsProcess([m EXCEPT !.pid = q]) /\ Reaping([m EXCEPT !.pid = q])
    BY FieldNames, FieldTypes DEF IsProcess, Reaping
  <1>4. IsProcess(d) /\ Reaping(d)
    BY FieldNames, FieldTypes DEF IsProcess, Reaping
  <1>5. IsProcess(v) /\ Reaping(v)
    BY <1>3
  <1>6. proc' = [r \in Pids |-> IF r = p THEN v ELSE IF r = q THEN d ELSE proc[r]]
    BY <1>2
  <1> HIDE DEF v, d
  <1> QED BY <1>1, <1>4, <1>5, <1>6 DEF ProcsTyped

LEMMA TypedWhen ==
    ASSUME Typed, ProcsTyped(proc'), script' = script, interrupts' \in 0 .. MaxInterrupts,
           \A c \in DOMAIN ran' : ran'[c] \in Statuses \cup {"running"}, cut' \subseteq Nat \X Nat
    PROVE  Typed'
  BY DEF Typed, ProcsTyped

\* A step of one process that changes nothing else.
LEMMA QuietTyped ==
    ASSUME Typed, ProcsTyped(proc'), UNCHANGED <<script, interrupts, ran, cut>>
    PROVE  Typed'
  <1>1. /\ script' = script /\ interrupts' = interrupts /\ ran' = ran /\ cut' = cut
        /\ interrupts \in 0 .. MaxInterrupts /\ cut \subseteq Nat \X Nat
        /\ \A c \in DOMAIN ran : ran[c] \in Statuses \cup {"running"}
    BY DEF Typed
  <1> QED BY <1>1, TypedWhen

\* A step of one process that also says how commands ended.
LEMMA RanTyped ==
    ASSUME Typed, ProcsTyped(proc'), UNCHANGED <<script, interrupts, cut>>,
           \A c \in DOMAIN ran' : ran'[c] \in Statuses \cup {"running"}
    PROVE  Typed'
  <1>1. /\ script' = script /\ interrupts' = interrupts /\ cut' = cut
        /\ interrupts \in 0 .. MaxInterrupts /\ cut \subseteq Nat \X Nat
    BY DEF Typed
  <1> QED BY <1>1, TypedWhen

LEMMA SaidTyped ==
    ASSUME Typed, NEW c, NEW s \in Statuses \cup {"running"}
    PROVE  /\ \A d \in DOMAIN Noted(ran, c, s) : Noted(ran, c, s)[d] \in Statuses \cup {"running"}
           /\ \A d \in DOMAIN [ran EXCEPT ![c] = s] : [ran EXCEPT ![c] = s][d] \in Statuses \cup {"running"}
  <1>1. \A d \in DOMAIN ran : ran[d] \in Statuses \cup {"running"}
    BY DEF Typed
  <1>2. \A d \in DOMAIN Noted(ran, c, s) : Noted(ran, c, s)[d] \in Statuses \cup {"running"}
    BY <1>1 DEF Noted
  <1>3. \A d \in DOMAIN [ran EXCEPT ![c] = s] : [ran EXCEPT ![c] = s][d] \in Statuses \cup {"running"}
    BY <1>1
  <1> QED BY <1>2, <1>3

LEMMA PromptTyped ==
    ASSUME Typed, NEW p \in Pids, Prompt(p)
    PROVE  Typed'
  <1> DEFINE m == proc[p]
             v == [m EXCEPT !.cmd_running = FALSE, !.pc = "read"]
  <1>1. IsProcess(m)
    BY DEF Typed
  <1>2. IsProcess(v) /\ Reaping(v)
    BY <1>1, FieldNames, FieldTypes, Values DEF IsProcess, Reaping
  <1>3. Become(p, v) /\ UNCHANGED <<script, interrupts, ran, cut>>
    BY DEF Prompt
  <1> HIDE DEF v
  <1> QED BY <1>2, <1>3, BecomeTyped, QuietTyped

LEMMA GroupsTyped ==
    ASSUME Typed, NEW n \in Nat \ {0}, n <= Len(Groups)
    PROVE  n \in DOMAIN Groups /\ Groups[n] \in AllGroups
  <1>1. script \in DOMAIN Scripts /\ Scripts \in Seq([text : Seq(Words), meant : Seq(Seq(CommandLists))])
    BY Sh61Assumption DEF Typed, NonEmptySeq
  <1>2. Scripts[script].text \in Seq(Words)
    <2>1. \A x \in [text : Seq(Words), meant : Seq(Seq(CommandLists))] : x.text \in Seq(Words)
      OBVIOUS
    <2> HIDE DEF Words, CommandLists
    <2>2. \A T : \A sq \in Seq(T) : \A x \in DOMAIN sq : sq[x] \in T
      OBVIOUS
    <2> QED BY <1>1, <2>1, <2>2
  <1>3. Groups = [l \in DOMAIN Scripts[script].text |-> Parse(Scripts[script].text[l])]
    BY <1>1 DEF Groups, Parsed
  <1>4. Len(Groups) = Len(Scripts[script].text) /\ DOMAIN Groups = 1 .. Len(Groups)
    BY <1>2, <1>3
  <1>5. n \in DOMAIN Parsed[script] /\ script \in DOMAIN Scripts
    BY <1>1, <1>4 DEF Groups
  <1> QED BY <1>5 DEF AllGroups, Groups

LEMMA ReadLineTyped ==
    ASSUME Typed, NEW p \in Pids, ReadLine(p)
    PROVE  Typed'
  <1> DEFINE m == proc[p]
             v == [m EXCEPT !.group = Groups[m.next], !.n = m.next, !.next = @ + 1,
                            !.z = 0, !.i = 1, !.pc = "list"]
  <1>1. IsProcess(m)
    BY DEF Typed
  <1>2. m.next \in Nat \ {0} /\ m.next <= Len(Groups)
    BY <1>1, FieldsTyped DEF ReadLine
  <1>3. Groups[m.next] \in AllGroups
    BY <1>2, GroupsTyped
  <1>4. IsProcess(v) /\ Reaping(v)
    <2>1. m.next \in Nat /\ m.next + 1 \in Nat \ {0} /\ 0 \in Nat /\ 1 \in Nat
      BY <1>2
    <2> QED BY <1>1, <1>3, <2>1, FieldNames, FieldTypes, Values DEF IsProcess, Reaping
  <1>5. Become(p, v) /\ UNCHANGED <<script, interrupts, ran, cut>>
    BY DEF ReadLine
  <1> HIDE DEF v
  <1> QED BY <1>4, <1>5, BecomeTyped, QuietTyped

LEMMA ExitTyped ==
    ASSUME Typed, NEW p \in Pids, Exit(p)
    PROVE  Typed'
  <1>1. IsProcess(proc[p])
    BY DEF Typed
  <1>2. IsProcess(Ended(proc[p], "ok")) /\ Reaping(Ended(proc[p], "ok"))
    BY <1>1, EndedType, Values
  <1>3. Become(p, Ended(proc[p], "ok")) /\ UNCHANGED <<script, interrupts, ran, cut>>
    BY DEF Exit
  <1> QED BY <1>2, <1>3, BecomeTyped, QuietTyped

LEMMA ResetTyped ==
    ASSUME Typed, NEW p \in Pids, Reset(p)
    PROVE  Typed'
  <1> DEFINE m == proc[p]
             v == [m EXCEPT !.clear_cmd = FALSE, !.interrupted = FALSE,
                            !.pc = IF m.z = 0 THEN "top" ELSE "reap"]
  <1>1. IsProcess(m)
    BY DEF Typed
  <1>2. m.z \in Nat
    BY <1>1, FieldsTyped
  <1>3. IsProcess(v) /\ v.z = m.z /\ v.pc = IF m.z = 0 THEN "top" ELSE "reap"
    BY <1>1, FieldNames, FieldTypes, Values DEF IsProcess
  <1>4. Become(p, v) /\ UNCHANGED <<script, interrupts, ran, cut>>
    BY DEF Reset
  <1> HIDE DEF v
  <1>5. Reaping(v)
    BY <1>2, <1>3 DEF Reaping
  <1> QED BY <1>3, <1>4, <1>5, BecomeTyped, QuietTyped

LEMMA ReapTyped ==
    ASSUME Typed, NEW p \in Pids, Reap(p)
    PROVE  Typed'
  <1> DEFINE m == proc[p]
             v == [m EXCEPT !.z = @ - 1, !.eintr = FALSE,
                            !.pc = IF m.z = 1 THEN "top" ELSE "reap"]
  <1>1. IsProcess(m) /\ m.z \in Nat /\ m.z >= 1
    BY FieldsTyped DEF Typed, Reaping, Reap
  <1>2. IsProcess(v) /\ v.z = m.z - 1 /\ v.pc = IF m.z = 1 THEN "top" ELSE "reap"
    <2>1. m.z - 1 \in Nat
      BY <1>1
    <2> QED BY <1>1, <2>1, FieldNames, FieldTypes, Values DEF IsProcess
  <1>3. PICK w \in WaitPid(p, 0, "ok") : Reaped(p, v, w[1])
    BY DEF Reap
  <1>4. UNCHANGED <<script, interrupts, ran, cut>>
    BY DEF Reap
  <1> HIDE DEF v
  <1>5. Reaping(v)
    BY <1>1, <1>2 DEF Reaping
  <1> QED BY <1>2, <1>3, <1>4, <1>5, ReapedTyped, QuietTyped

LEMMA EvalDoneType ==
    ASSUME NEW m, IsProcess(m)
    PROVE  IsProcess(EvalDone(m)) /\ Reaping(EvalDone(m))
  BY FieldNames, FieldTypes, Values DEF IsProcess, Reaping, EvalDone, list_group_free

LEMMA NextListTyped ==
    ASSUME Typed, NEW p \in Pids, proc[p].kind = "shell", NextList(p)
    PROVE  Typed'
  <1> DEFINE m == proc[p]
             next == [m EXCEPT !.i = @ + 1]
             child == [m EXCEPT !.stop_process = TRUE, !.job = <<m.n, m.i>>, !.pc = "run"]
             run == [m EXCEPT !.stop_process = FALSE, !.pc = "run"]
             reset == [m EXCEPT !.pc = "reset"]
  <1>1. IsProcess(m) /\ m.pc = "list"
    BY DEF Typed, NextList
  <1>2. m.i \in Nat /\ m.n \in Nat
    BY <1>1, FieldsTyped
  <1>3. IsProcess(next) /\ Reaping(next)
    BY <1>1, <1>2, FieldNames, FieldTypes, Values DEF IsProcess, Reaping
  <1>4. IsProcess(child) /\ Reaping(child)
    BY <1>1, <1>2, FieldNames, FieldTypes, Values DEF IsProcess, Reaping
  <1>5. IsProcess(run) /\ Reaping(run)
    BY <1>1, FieldNames, FieldTypes, Values DEF IsProcess, Reaping
  <1>6. IsProcess(reset) /\ Reaping(reset)
    BY <1>1, FieldNames, FieldTypes, Values DEF IsProcess, Reaping
  <1>7. IsProcess(EvalDone(m)) /\ Reaping(EvalDone(m))
    BY <1>1, EvalDoneType
  <1>8. /\ Become(p, reset) \/ Become(p, EvalDone(m)) \/ Fork(p, next, child) \/ Become(p, run)
        /\ UNCHANGED <<script, interrupts, ran, cut>>
    BY Zenon DEF NextList
  <1> HIDE DEF next, child, run, reset
  <1>9. ProcsTyped(proc')
    <2>1. CASE Fork(p, next, child)
      <3>1. proc[p].kind # "free"
        OBVIOUS
      <3> QED BY <1>3, <1>4, <2>1, <3>1, ForkTyped
    <2>2. CASE Become(p, reset)
      BY <1>6, <2>2, BecomeTyped
    <2>3. CASE Become(p, EvalDone(m))
      BY <1>7, <2>3, BecomeTyped
    <2>4. CASE Become(p, run)
      BY <1>5, <2>4, BecomeTyped
    <2> QED BY <1>8, <2>1, <2>2, <2>3, <2>4
  <1> QED BY <1>8, <1>9, QuietTyped

LEMMA RunListTyped ==
    ASSUME Typed, NEW p \in Pids, RunList(p)
    PROVE  Typed'
  <1> DEFINE m == proc[p]
             v == [m EXCEPT !.cmd_running = TRUE, !.j = 1, !.k = 1, !.pid = -1,
                            !.status = "ok", !.prev = 0, !.pc = "stage"]
  <1>1. IsProcess(m)
    BY DEF Typed
  <1>2. IsProcess(v) /\ Reaping(v)
    BY <1>1, FieldNames, FieldTypes, Values DEF IsProcess, Reaping
  <1>3. Become(p, v) /\ UNCHANGED <<script, interrupts, ran, cut>>
    BY DEF RunList
  <1> HIDE DEF v
  <1> QED BY <1>2, <1>3, BecomeTyped, QuietTyped

LEMMA NewPipesType ==
    ASSUME NEW m, NEW pipe \in NewPipes(m)
    PROVE  /\ pipe \in Ends
           /\ pipe # 0 => pipe \in Pipes /\ PipesOut(m) /\ Readers(pipe) = {} /\ Writers(pipe) = {}
           /\ ~ PipesOut(m) => pipe = 0
  <1>1. CASE PipesOut(m)
    <2> DEFINE free == {x \in Pipes : Readers(x) \cup Writers(x) = {}}
    <2>1. NewPipes(m) = {x \in free : \A y \in free : x <= y}
      BY <1>1 DEF NewPipes
    <2>2. pipe \in Pipes /\ Readers(pipe) \cup Writers(pipe) = {}
      BY <2>1
    <2> QED BY <1>1, <2>2, Values, Zenon
  <1>2. CASE ~ PipesOut(m)
    BY <1>2, Values DEF NewPipes
  <1> QED BY <1>1, <1>2

LEMMA WithPipesType ==
    ASSUME NEW m, IsProcess(m), NEW pipe \in Ends
    PROVE  IsProcess(WithPipes(m, pipe)) /\ Reaping(WithPipes(m, pipe))
  <1> DEFINE fds == m.fds \cup ReadEnd(pipe) \cup WriteEnd(pipe)
             fd_in == IF PipesIn(m) THEN m.prev ELSE 0
             v == [m EXCEPT !.fds = fds, !.fd_out = pipe, !.fd_in = fd_in, !.cstatus = "ok",
                            !.pc = "wait"]
  <1>1. m.fds \in SUBSET (Pipes \X {"r", "w"}) /\ m.prev \in Ends
    BY FieldsTyped
  <1>2. fds \in SUBSET (Pipes \X {"r", "w"})
    BY <1>1 DEF Ends, ReadEnd, WriteEnd
  <1>3. fd_in \in Ends
    BY <1>1, Values
  <1>4. WithPipes(m, pipe) = v
    BY Zenon DEF WithPipes
  <1> HIDE DEF fds, fd_in
  <1>5. IsProcess(v) /\ Reaping(v)
    BY <1>2, <1>3, FieldNames, FieldTypes, Values DEF IsProcess, Reaping
  <1> QED BY <1>4, <1>5

LEMMA StartNothingTyped ==
    ASSUME Typed, NEW p \in Pids, StartNothing(p)
    PROVE  Typed'
  <1>1. IsProcess(proc[p])
    BY DEF Typed
  <1>2. PICK pipe \in NewPipes(proc[p]) : Become(p, WithPipes(proc[p], pipe))
    BY DEF StartNothing
  <1>3. pipe \in Ends
    BY <1>2, NewPipesType
  <1>4. UNCHANGED <<script, interrupts, ran, cut>>
    BY DEF StartNothing
  <1> QED BY <1>1, <1>2, <1>3, <1>4, WithPipesType, BecomeTyped, QuietTyped

LEMMA StartCdTyped ==
    ASSUME Typed, NEW p \in Pids, StartCd(p)
    PROVE  Typed'
  <1> DEFINE m == proc[p]
             c == CurCommand(m)
             results == IF Len(c.argv) = 1 THEN {"failed"} ELSE {"ok", "failed"}
             cd(w, s) == [w EXCEPT !.cstatus = s, !.pid = p,
                                   !.stdin = IF c.rd_in = <<>> THEN @ ELSE 0]
  <1>1. IsProcess(m)
    BY DEF Typed
  <1>2. PICK pipe \in NewPipes(m), s \in results :
          /\ Become(p, Ended(m, s)) \/ Become(p, cd(WithPipes(m, pipe), s))
          /\ ran' = Noted(ran, Place(m), s)
    BY DEF StartCd
  <1>3. pipe \in Ends /\ s \in Statuses
    BY <1>2, NewPipesType, Values
  <1>4. UNCHANGED <<script, interrupts, cut>>
    BY DEF StartCd
  <1>5. IsProcess(Ended(m, s)) /\ Reaping(Ended(m, s))
    BY <1>1, <1>3, EndedType
  <1>6. ASSUME NEW w, IsProcess(w), Reaping(w)
        PROVE  IsProcess(cd(w, s)) /\ Reaping(cd(w, s))
    <2> DEFINE stdin == IF c.rd_in = <<>> THEN w.stdin ELSE 0
               v == [w EXCEPT !.cstatus = s, !.pid = p, !.stdin = stdin]
    <2>1. stdin \in Ends
      BY <1>6, FieldsTyped, Values
    <2>2. cd(w, s) = v
      OBVIOUS
    <2> HIDE DEF stdin
    <2>3. IsProcess(v) /\ Reaping(v)
      BY <1>3, <1>6, <2>1, FieldNames, FieldTypes DEF IsProcess, Reaping
    <2> QED BY <2>2, <2>3
  <1>7. IsProcess(cd(WithPipes(m, pipe), s)) /\ Reaping(cd(WithPipes(m, pipe), s))
    BY <1>1, <1>3, <1>6, WithPipesType
  <1>8. ProcsTyped(proc')
    <2>1. CASE Become(p, Ended(m, s))
      BY <1>5, <2>1, BecomeTyped
    <2>2. CASE Become(p, cd(WithPipes(m, pipe), s))
      <3> HIDE DEF cd
      <3> QED BY <1>7, <2>2, BecomeTyped
    <2> QED BY <1>2, <2>1, <2>2
  <1>9. \A d \in DOMAIN ran' : ran'[d] \in Statuses \cup {"running"}
    BY <1>2, <1>3, SaidTyped
  <1> QED BY <1>4, <1>8, <1>9, RanTyped

LEMMA StartChildTyped ==
    ASSUME Typed, NEW p \in Pids, proc[p].kind = "shell", StartChild(p)
    PROVE  Typed'
  <1> DEFINE m == proc[p]
             child(w) == [w EXCEPT !.pid = 0, !.job = <<m.n, m.i>>, !.pc = "exec"]
  <1>1. IsProcess(m)
    BY DEF Typed
  <1>2. PICK pipe \in NewPipes(m) : Fork(p, WithPipes(m, pipe), child(WithPipes(m, pipe)))
    BY DEF StartChild
  <1>3. pipe \in Ends
    BY <1>2, NewPipesType
  <1>4. UNCHANGED <<script, interrupts, cut>>
    BY DEF StartChild
  <1>5. IsProcess(WithPipes(m, pipe)) /\ Reaping(WithPipes(m, pipe))
    BY <1>1, <1>3, WithPipesType
  <1>6. <<m.n, m.i>> \in Jobs
    BY <1>1, FieldsTyped, Values
  <1>7. ASSUME NEW w, IsProcess(w)
        PROVE  IsProcess(child(w)) /\ Reaping(child(w))
    BY <1>6, <1>7, FieldNames, FieldTypes, Values DEF IsProcess, Reaping
  <1>8. ProcsTyped(proc')
    <2>1. IsProcess(child(WithPipes(m, pipe))) /\ Reaping(child(WithPipes(m, pipe)))
      BY <1>5, <1>7
    <2>2. proc[p].kind # "free"
      OBVIOUS
    <2> HIDE DEF child
    <2> QED BY <1>2, <1>5, <2>1, <2>2, ForkTyped
  <1>9. \A d \in DOMAIN ran' : ran'[d] \in Statuses \cup {"running"}
    <2>1. \A d \in DOMAIN ran : ran[d] \in Statuses \cup {"running"}
      BY DEF Typed
    <2>2. ran' = ran \/ ran' = Noted(ran, Place(m), "running")
      BY DEF StartChild
    <2> QED BY <2>1, <2>2, SaidTyped
  <1> QED BY <1>4, <1>8, <1>9, RanTyped

LEMMA PlumbedType ==
    ASSUME NEW m, IsProcess(m)
    PROVE  IsProcess(Plumbed(m))
  <1> DEFINE c == CurCommand(m)
             std(rd, fd, old) == IF rd # <<>> THEN 0 ELSE IF fd # 0 THEN fd ELSE old
             stdin == std(c.rd_in, m.fd_in, m.stdin)
             stdout == std(c.rd_out, m.fd_out, m.stdout)
             fds == m.fds \ (ReadEnd(m.fd_in) \cup WriteEnd(m.fd_out))
             v == [m EXCEPT !.stdin = stdin, !.stdout = stdout, !.fds = fds, !.z = @ + 1]
  <1>1. /\ m.fds \in SUBSET (Pipes \X {"r", "w"}) /\ m.fd_in \in Ends /\ m.fd_out \in Ends
        /\ m.stdin \in Ends /\ m.stdout \in Ends /\ m.z \in Nat
    BY FieldsTyped
  <1>2. stdin \in Ends /\ stdout \in Ends /\ fds \in SUBSET (Pipes \X {"r", "w"}) /\ m.z + 1 \in Nat
    BY <1>1, Values
  <1>3. Plumbed(m) = v
    BY Zenon DEF Plumbed
  <1> HIDE DEF stdin, stdout, fds
  <1>4. IsProcess(v)
    BY <1>2, FieldNames, FieldTypes DEF IsProcess
  <1> QED BY <1>3, <1>4

LEMMA ExecTyped ==
    ASSUME Typed, NEW p \in Pids, Exec(p)
    PROVE  Typed'
  <1> DEFINE m == proc[p]
             second(w) == [w EXCEPT !.pc = "wait"]
             command(w) == [w EXCEPT !.kind = "command", !.pc = "top", !.z = 0, !.fd_in = 0,
                                     !.fd_out = 0, !.cmd_running = FALSE,
                                     !.interrupted = FALSE, !.clear_cmd = FALSE]
  <1>1. IsProcess(m) /\ IsProcess(Plumbed(m))
    BY PlumbedType DEF Typed
  <1>2. UNCHANGED <<script, interrupts, cut>>
    BY DEF Exec
  <1>3. /\ \/ Become(p, Ended(m, "failed")) \/ Become(p, Ended(m, "killed"))
           \/ Become(p, second(Plumbed(m))) \/ Become(p, command(Plumbed(m)))
        /\ ran' = ran \/ ran' = [ran EXCEPT ![Place(m)] = "failed"]
    BY DEF Exec
  <1>4. ASSUME NEW w, IsProcess(w)
        PROVE  IsProcess(second(w)) /\ Reaping(second(w))
    BY <1>4, FieldNames, FieldTypes, Values DEF IsProcess, Reaping
  <1>5. ASSUME NEW w, IsProcess(w)
        PROVE  IsProcess(command(w)) /\ Reaping(command(w))
    BY <1>5, FieldNames, FieldTypes, Values DEF IsProcess, Reaping
  <1>6. /\ IsProcess(second(Plumbed(m))) /\ Reaping(second(Plumbed(m)))
        /\ IsProcess(command(Plumbed(m))) /\ Reaping(command(Plumbed(m)))
    BY <1>1, <1>4, <1>5
  <1>7. ASSUME NEW s \in Statuses
        PROVE  IsProcess(Ended(m, s)) /\ Reaping(Ended(m, s))
    BY <1>1, <1>7, EndedType
  <1> HIDE DEF second, command
  <1>8. ProcsTyped(proc')
    <2>1. CASE Become(p, Ended(m, "failed"))
      BY <1>7, <2>1, Values, BecomeTyped
    <2>2. CASE Become(p, Ended(m, "killed"))
      BY <1>7, <2>2, Values, BecomeTyped
    <2>3. CASE Become(p, second(Plumbed(m)))
      BY <1>6, <2>3, BecomeTyped
    <2>4. CASE Become(p, command(Plumbed(m)))
      BY <1>6, <2>4, BecomeTyped
    <2> QED BY <1>3, <2>1, <2>2, <2>3, <2>4
  <1>9. \A d \in DOMAIN ran' : ran'[d] \in Statuses \cup {"running"}
    <2>1. \A d \in DOMAIN ran : ran[d] \in Statuses \cup {"running"}
      BY DEF Typed
    <2> QED BY <1>3, <2>1, SaidTyped, Values
  <1> QED BY <1>2, <1>8, <1>9, RanTyped

\* Where run_list() goes on behind a stage.
NextStage(m, s) == [m EXCEPT !.k = @ + 1, !.prev = m.fd_out, !.status = s, !.pc = "stage"]
NextCond(m, j) == [m EXCEPT !.j = j, !.k = 1, !.prev = 0, !.status = "ok", !.pc = "stage"]
ListDone(m) == [m EXCEPT !.i = @ + 1, !.j = 0, !.k = 0, !.prev = 0, !.status = "ok", !.pc = "list"]

LEMMA AdvanceCases ==
    ASSUME NEW m, IsProcess(m), NEW s
    PROVE  LET j == m.j + Skip(CurCond(m), s)
           IN  \/ m.k < Len(CurCond(m).cond_argv) /\ Advance(m, s) = NextStage(m, s)
               \/ /\ m.k = Len(CurCond(m).cond_argv) /\ j <= Len(CurList(m).cargv)
                  /\ Advance(m, s) = NextCond(m, j)
               \/ /\ ~(m.k < Len(CurCond(m).cond_argv))
                  /\ Advance(m, s) = EvalDone(m) \/ Advance(m, s) = ListDone(m)
  <1> DEFINE j == m.j + Skip(CurCond(m), s)
             over == IF m.stop_process THEN EvalDone(m) ELSE ListDone(m)
  <1>1. Advance(m, s) = CASE m.k < Len(CurCond(m).cond_argv) -> NextStage(m, s)
                          [] m.k = Len(CurCond(m).cond_argv) /\ j <= Len(CurList(m).cargv) -> NextCond(m, j)
                          [] OTHER -> over
    BY DEF Advance, NextStage, NextCond, ListDone
  <1>2. over = EvalDone(m) \/ over = ListDone(m)
    OBVIOUS
  <1> HIDE DEF over, j
  <1>3. CASE m.k < Len(CurCond(m).cond_argv)
    <2>1. m.k \in Nat
      BY FieldsTyped
    <2>2. m.k # Len(CurCond(m).cond_argv)
      BY <1>3, <2>1
    <2> QED BY <1>1, <1>3, <2>2
  <1>4. CASE ~(m.k < Len(CurCond(m).cond_argv)) /\ m.k = Len(CurCond(m).cond_argv) /\ j <= Len(CurList(m).cargv)
    BY <1>1, <1>4 DEF j
  <1>5. CASE ~(m.k < Len(CurCond(m).cond_argv)) /\ ~(m.k = Len(CurCond(m).cond_argv) /\ j <= Len(CurList(m).cargv))
    BY <1>1, <1>2, <1>5 DEF j
  <1> QED BY <1>3, <1>4, <1>5

LEMMA AdvanceType ==
    ASSUME NEW m, IsProcess(m), NEW s \in Statuses
    PROVE  IsProcess(Advance(m, s)) /\ Advance(m, s).pc # "reap"
  <1> DEFINE j == m.j + Skip(CurCond(m), s)
  <1>1. m.i \in Nat /\ m.j \in Nat /\ m.k \in Nat /\ m.fd_out \in Ends
    BY FieldsTyped
  <1>2. j \in Nat /\ m.i + 1 \in Nat /\ m.k + 1 \in Nat /\ 0 \in Nat /\ 1 \in Nat
    BY <1>1 DEF Skip
  <1>3. IsProcess(NextStage(m, s)) /\ NextStage(m, s).pc = "stage"
    BY <1>1, <1>2, FieldNames, FieldTypes, Values DEF IsProcess, NextStage
  <1> HIDE DEF j
  <1>4. IsProcess(NextCond(m, j)) /\ NextCond(m, j).pc = "stage"
    BY <1>2, FieldNames, FieldTypes, Values DEF IsProcess, NextCond
  <1>5. IsProcess(ListDone(m)) /\ ListDone(m).pc = "list"
    BY <1>2, FieldNames, FieldTypes, Values DEF IsProcess, ListDone
  <1>6. IsProcess(EvalDone(m)) /\ EvalDone(m).pc = "reset"
    BY EvalDoneType, FieldNames DEF IsProcess, EvalDone, list_group_free
  <1>7. \/ Advance(m, s) = NextStage(m, s) \/ Advance(m, s) = NextCond(m, j)
        \/ Advance(m, s) = EvalDone(m) \/ Advance(m, s) = ListDone(m)
    BY AdvanceCases DEF j
  <1> QED BY <1>3, <1>4, <1>5, <1>6, <1>7

LEMMA ClosedType ==
    ASSUME NEW m, IsProcess(m)
    PROVE  IsProcess(Closed(m))
  <1> DEFINE fds == m.fds \ (ReadEnd(m.fd_in) \cup WriteEnd(m.fd_out))
  <1>1. fds \in SUBSET (Pipes \X {"r", "w"})
    BY FieldsTyped
  <1>2. Closed(m) = [m EXCEPT !.fds = fds]
    BY DEF Closed
  <1> HIDE DEF fds
  <1> QED BY <1>1, <1>2, FieldNames, FieldTypes DEF IsProcess

Forgotten(m) == [m EXCEPT !.fd_in = 0, !.fd_out = 0, !.cstatus = "ok", !.eintr = FALSE]

LEMMA ForgottenType ==
    ASSUME NEW m, IsProcess(m)
    PROVE  IsProcess(Forgotten(m)) /\ Forgotten(m).pc = m.pc
  BY FieldNames, FieldTypes, Values DEF IsProcess, Forgotten

LEMMA WaitPidType ==
    ASSUME Typed, NEW p \in Pids, NEW pid, NEW old \in Statuses, NEW w \in WaitPid(p, pid, old)
    PROVE  w[2] \in Statuses
  <1> DEFINE sought == IF pid \in Pids THEN Children(p) \cap {pid} ELSE Children(p)
  <1>1. sought \subseteq Pids
    BY DEF Children
  <1>2. \/ \E q \in {r \in sought : proc[r].kind = "zombie"} : w = <<q, proc[q].exit>>
        \/ w = <<0, old>>
    BY DEF WaitPid
  <1> HIDE DEF sought
  <1>3. CASE w = <<0, old>>
    BY <1>3
  <1>4. ASSUME NEW q \in sought, w = <<q, proc[q].exit>>
        PROVE  w[2] \in Statuses
    <2>1. IsProcess(proc[q])
      BY <1>1, <1>4 DEF Typed
    <2>2. proc[q].exit \in Statuses
      BY <2>1, FieldsTyped
    <2> QED BY <1>4, <2>2
  <1> QED BY <1>2, <1>3, <1>4

\* What the end of a stage leaves of the shell.
LEMMA WaitStageEffect ==
    ASSUME Typed, NEW p \in Pids, WaitStage(p)
    PROVE  LET m == proc[p]
           IN  /\ m.pc = "wait" /\ IsProcess(Closed(m))
               /\ \E w : \E s \in Statuses :
                    /\ IF m.pid = 0 THEN w = <<0, m.cstatus>> ELSE w \in WaitPid(p, m.pid, m.cstatus)
                    /\ LET v == Forgotten(Advance(Closed(m), s))
                       IN  /\ IsProcess(v) /\ Reaping(v)
                           /\ Reaped(p, v, w[1])
               /\ UNCHANGED <<script, interrupts, ran, cut>>
  <1> DEFINE m == proc[p]
             results == IF m.pid = 0 THEN {<<0, m.cstatus>>} ELSE WaitPid(p, m.pid, m.cstatus)
  <1>1. IsProcess(m) /\ IsProcess(Closed(m)) /\ m.pc = "wait"
    BY ClosedType DEF Typed, WaitStage
  <1>2. PICK w \in results : Reaped(p, Forgotten(Advance(Closed(m), PipelineStatus(m, w[2]))), w[1])
    BY DEF WaitStage, Forgotten
  <1>3. UNCHANGED <<script, interrupts, ran, cut>>
    BY DEF WaitStage
  <1>4. m.cstatus \in Statuses /\ m.status \in Statuses
    BY <1>1, FieldsTyped
  <1>5. IF m.pid = 0 THEN w = <<0, m.cstatus>> ELSE w \in WaitPid(p, m.pid, m.cstatus)
    BY <1>2
  <1>6. w[2] \in Statuses
    <2>1. CASE m.pid = 0
      BY <1>4, <1>5, <2>1
    <2>2. CASE m.pid # 0
      BY <1>4, <1>5, <2>2, WaitPidType
    <2> QED BY <2>1, <2>2
  <1> DEFINE s == PipelineStatus(m, w[2])
  <1>7. s \in Statuses
    BY <1>4, <1>6, Values DEF PipelineStatus
  <1> HIDE DEF s
  <1> DEFINE v == Forgotten(Advance(Closed(m), s))
  <1>8. IsProcess(Advance(Closed(m), s)) /\ Advance(Closed(m), s).pc # "reap"
    BY <1>1, <1>7, AdvanceType
  <1>9. IsProcess(v) /\ Reaping(v)
    BY <1>8, ForgottenType DEF Reaping
  <1>10. Reaped(p, v, w[1])
    BY <1>2 DEF s
  <1> HIDE DEF v
  <1> QED BY <1>1, <1>3, <1>5, <1>7, <1>9, <1>10 DEF v

LEMMA WaitStageTyped ==
    ASSUME Typed, NEW p \in Pids, WaitStage(p)
    PROVE  Typed'
  <1>1. PICK v, q : IsProcess(v) /\ Reaping(v) /\ Reaped(p, v, q)
    BY WaitStageEffect
  <1>2. UNCHANGED <<script, interrupts, ran, cut>>
    BY WaitStageEffect
  <1>3. ProcsTyped(proc')
    BY <1>1, ReapedTyped
  <1> QED BY <1>2, <1>3, QuietTyped

LEMMA FinishTyped ==
    ASSUME Typed, NEW p \in Pids, Finish(p)
    PROVE  Typed'
  <1> DEFINE m == proc[p]
  <1>1. IsProcess(m)
    BY DEF Typed
  <1>2. PICK s \in {"ok", "failed", "killed"} : Become(p, Ended(m, s)) /\ ran' = [ran EXCEPT ![Place(m)] = s]
    BY DEF Finish, Endings
  <1>3. UNCHANGED <<script, interrupts, cut>>
    BY DEF Finish
  <1>4. s \in Statuses
    BY Values
  <1>5. ProcsTyped(proc')
    BY <1>1, <1>2, <1>4, EndedType, BecomeTyped
  <1>6. \A d \in DOMAIN ran' : ran'[d] \in Statuses \cup {"running"}
    BY <1>2, <1>4, SaidTyped
  <1> QED BY <1>3, <1>5, <1>6, RanTyped

LEMMA HandledType ==
    ASSUME NEW m, IsProcess(m), Reaping(m)
    PROVE  IsProcess(Handled(m)) /\ Reaping(Handled(m))
  <1> DEFINE a == m.interrupted \/ m.cmd_running
             b == m.clear_cmd \/ ~m.cmd_running
             c == m.pc \in {"wait", "reap"}
             v == [m EXCEPT !.interrupted = a, !.clear_cmd = b, !.eintr = c]
  <1>1. a \in BOOLEAN /\ b \in BOOLEAN /\ c \in BOOLEAN
    OBVIOUS
  <1>2. Handled(m) = v
    BY Zenon DEF Handled
  <1> HIDE DEF a, b, c
  <1>3. IsProcess(v) /\ v.pc = m.pc /\ v.z = m.z
    BY <1>1, FieldNames, FieldTypes DEF IsProcess
  <1> QED BY <1>2, <1>3 DEF Reaping

LEMMA InterruptTyped ==
    ASSUME Typed, Interrupt
    PROVE  Typed'
  <1> DEFINE killed == {p \in Foreground : proc[p].kind = "command"}
  <1>1. \A p \in Pids : IsProcess(proc[p]) /\ Reaping(proc[p])
    BY DEF Typed
  <1>2. proc' = [p \in Pids |-> IF p \notin Foreground THEN proc[p]
                                ELSE IF p \in killed THEN Ended(proc[p], "killed") ELSE Handled(proc[p])]
    BY DEF Interrupt
  <1>3. ProcsTyped(proc')
    <2>1. \A p \in Pids : IsProcess(Ended(proc[p], "killed")) /\ Reaping(Ended(proc[p], "killed"))
      BY <1>1, EndedType, Values
    <2>2. \A p \in Pids : IsProcess(Handled(proc[p])) /\ Reaping(Handled(proc[p]))
      BY <1>1, HandledType
    <2> HIDE DEF killed
    <2> QED BY <1>1, <1>2, <2>1, <2>2 DEF ProcsTyped
  <1>4. script' = script /\ interrupts < MaxInterrupts /\ interrupts' = interrupts + 1
    BY DEF Interrupt
  <1>5. interrupts' \in 0 .. MaxInterrupts
    BY <1>4, Sh61Assumption DEF Typed
  <1>6. \A c \in DOMAIN ran' : ran'[c] \in Statuses \cup {"running"}
    <2>1. \A c \in DOMAIN ran : ran[c] \in Statuses \cup {"running"}
      BY DEF Typed
    <2>2. PICK K : ran' = [c \in DOMAIN ran |-> IF c \in K THEN "killed" ELSE ran[c]]
      BY DEF Interrupt
    <2> QED BY <2>1, <2>2, Values
  <1>7. cut' \subseteq Nat \X Nat
    <2>1. cut \subseteq Nat \X Nat /\ cut' = cut \cup UNION {GivenUp(proc[p]) : p \in Pids}
      BY DEF Typed, Interrupt
    <2>2. ASSUME NEW p \in Pids
          PROVE  GivenUp(proc[p]) \subseteq Nat \X Nat
      <3>1. proc[p].n \in Nat /\ proc[p].i \in Nat
        BY <1>1, FieldsTyped
      <3>2. \A h \in proc[p].i .. Len(proc[p].group) : h \in Nat
        BY <3>1
      <3> QED BY <3>1, <3>2 DEF GivenUp
    <2> QED BY <2>1, <2>2
  <1> QED BY <1>3, <1>4, <1>5, <1>6, <1>7, TypedWhen

LEMMA InitTyped ==
    ASSUME Init
    PROVE  Typed
  <1> DEFINE first == [NoProcess EXCEPT !.kind = "shell"]
  <1>1. proc = [p \in Pids |-> IF p = 1 THEN first ELSE NoProcess]
    BY DEF Init
  <1>2. IsProcess(first) /\ Reaping(first)
    BY NoProcessType, FieldNames, FieldTypes, Values DEF IsProcess, Reaping
  <1>3. IsProcess(NoProcess) /\ Reaping(NoProcess)
    BY NoProcessType DEF Reaping
  <1> HIDE DEF first
  <1>4. proc = [p \in Pids |-> proc[p]] /\ \A p \in Pids : IsProcess(proc[p]) /\ Reaping(proc[p])
    BY <1>1, <1>2, <1>3
  <1>5. script \in DOMAIN Scripts
    BY Sh61Assumption DEF Init, NonEmptySeq
  <1>6. interrupts \in 0 .. MaxInterrupts /\ cut \subseteq Nat \X Nat
    BY Sh61Assumption DEF Init
  <1>7. \A c \in DOMAIN ran : ran[c] \in Statuses \cup {"running"}
    BY DEF Init
  <1> QED BY <1>4, <1>5, <1>6, <1>7 DEF Typed

LEMMA TypedStep ==
    ASSUME Typed, [Next]_vars
    PROVE  Typed'
  <1>1. CASE UNCHANGED vars
    BY <1>1 DEF vars, Typed
  <1>2. ASSUME NEW p \in Pids, Step(p)
        PROVE  Typed'
    <2>1. proc[p].kind = "shell"
      BY <1>2 DEF Step
    <2> QED BY <1>2, <2>1, PromptTyped, ReadLineTyped, ExitTyped, ResetTyped, ReapTyped, NextListTyped,
               RunListTyped, StartNothingTyped, StartCdTyped, StartChildTyped, ExecTyped,
               WaitStageTyped DEF Step
  <1>3. ASSUME NEW p \in Pids, Finish(p)
        PROVE  Typed'
    BY <1>3, FinishTyped
  <1>4. CASE Interrupt
    BY <1>4, InterruptTyped
  <1> QED BY <1>1, <1>2, <1>3, <1>4 DEF Next

\* The variables keep their types, whatever the lines are, and whatever the words in them
\* turn out to mean (sh61.c:386-625).
THEOREM Sh61Type == Spec => []TypeOK
  <1>1. Init => Typed
    BY InitTyped
  <1>2. Typed /\ [Next]_vars => Typed'
    BY TypedStep
  <1>3. Typed => TypeOK
    <2> SUFFICES ASSUME Typed PROVE TypeOK
      OBVIOUS
    <2>1. \A p \in Pids : IsProcess(proc[p])
      BY DEF Typed
    <2>2. DOMAIN NoProcess = DOMAIN FieldType
      BY NoProcessType DEF IsProcess
    <2>3. ASSUME NEW p \in Pids
          PROVE  DOMAIN proc[p] = DOMAIN NoProcess
      BY <2>1, <2>2 DEF IsProcess
    <2>4. ASSUME NEW p \in Pids
          PROVE  LET m == proc[p]
                 IN  /\ m.kind \in Kinds /\ m.parent \in Pids \cup {0} /\ m.exit \in Statuses
                     /\ m.pc \in Pcs /\ m.z \in Nat /\ m.pid \in Pids \cup {-1, 0}
                     /\ m.status \in Statuses /\ m.cstatus \in Statuses
                     /\ m.prev \in Ends /\ m.fd_in \in Ends /\ m.fd_out \in Ends
                     /\ m.stdin \in Ends /\ m.stdout \in Ends
                     /\ m.fds \in SUBSET (Pipes \X {"r", "w"})
      BY <2>1, FieldsTyped
    <2>5. /\ script \in DOMAIN Scripts /\ DOMAIN proc = Pids
          /\ interrupts \in 0 .. MaxInterrupts /\ cut \subseteq Nat \X Nat
          /\ \A c \in DOMAIN ran : ran[c] \in Statuses \cup {"running"}
      BY DEF Typed
    <2> QED BY <2>3, <2>4, <2>5 DEF TypeOK, Kinds, Pcs, Ends
  <1> QED BY <1>1, <1>2, <1>3, PTL DEF Spec

-----------------------------------------------------------------------------
(* What holds of the memory of one shell, when the lines are the groups lines. *)

AtWork == {"run", "stage", "wait", "exec"}
InPipe == {"stage", "wait", "exec"}

\* Where a shell is in the line.
Placed(m, lines) ==
    /\ m.n < m.next
    /\ m.pc \in AtWork \cup {"list"} =>
          m.n \in DOMAIN lines /\ m.group = lines[m.n] /\ m.i >= 1
    /\ m.pc \in AtWork => m.i \in DOMAIN m.group
    /\ m.pc \in InPipe =>
          m.j \in DOMAIN CurList(m).cargv /\ m.k \in DOMAIN CurCond(m).cond_argv

\* Only a shell that was interrupted while it ran a line stops waiting.
Signals(m) ==
    /\ m.pc \in InPipe => m.cmd_running
    /\ m.eintr => m.pc \in {"wait", "reap"}
    /\ m.pc = "wait" /\ m.eintr => m.interrupted

\* The only write end it has is that of the pipe it makes for the stage.
WritesOut(m) == \A x \in Pipes : <<x, "w">> \in m.fds => m.pc \in {"wait", "exec"} /\ x = m.fd_out

\* The pipe between two stages.
Joints(m) ==
    /\ m.pc = "stage" /\ m.prev # 0 =>
          <<m.prev, "r">> \in m.fds /\ m.k > 1 /\ CurCond(m).cond_argv[m.k - 1].rd_out = <<>>
    /\ m.pc \in {"wait", "exec"} /\ m.fd_out # 0 => PipesOut(m) /\ <<m.fd_out, "r">> \in m.fds
    /\ m.pc = "exec" /\ m.fd_out # 0 => <<m.fd_out, "w">> \in m.fds
    /\ m.pc = "exec" /\ m.fd_in # 0 => <<m.fd_in, "r">> \in m.fds
    /\ m.pc \in {"wait", "exec"} /\ m.fd_in # 0 => m.fd_in # m.fd_out

\* One of the first n lines leaves a read end.
Leaves(n, lines) == \E h \in 1 .. n : LeavesReadEnd(lines[h])

\* It has no other ends but those that such lines left.
NoOthers(m, lines) ==
    \/ Leaves(m.n, lines)
    \/ m.pc \notin InPipe /\ m.fds = {}
    \/ m.pc = "stage" /\ m.fds \subseteq ReadEnd(m.prev)
    \/ m.pc \in {"wait", "exec"}
          /\ m.fds \subseteq ReadEnd(m.fd_in) \cup ReadEnd(m.fd_out) \cup WriteEnd(m.fd_out)

\* The list that a child was forked for is behind it, or the one it is at.
BehindJob(m) ==
    m.job # <<>> =>
      /\ m.job[1] <= m.n
      /\ m.pc = "list" /\ m.job[1] = m.n => m.job[2] < m.i
      /\ m.pc \in AtWork /\ m.job[1] = m.n => m.job[2] <= m.i

MemoryOK(m, lines) ==
    /\ Placed(m, lines) /\ Signals(m) /\ WritesOut(m)
    /\ Joints(m) /\ NoOthers(m, lines) /\ BehindJob(m)

\* A program has no write end beside its stdout.
ProcessOK(m, lines) ==
    /\ m.kind = "shell" => MemoryOK(m, lines)
    /\ m.kind = "command" => \A x \in Pipes : <<x, "w">> \notin m.fds

-----------------------------------------------------------------------------
(* What holds between processes f, when the lists lists have been cut short.   *)

\* A pid is not used before it is that of a parent.
ParentsUsed(f) == \A p \in Pids : f[p].parent # 0 => f[f[p].parent].kind # "free"

\* Why a shell m has a child q, which is d.
Kept(m, q, d, lines, lists) ==
    \/ d.job \in lists
    \/ d.job # m.job /\ lines[d.job[1]][d.job[2]].background
    \/ m.pc = "wait" /\ m.pid = q /\ ~ m.eintr /\ d.job = <<m.n, m.i>>

ChildOf(p, d) == d.parent = p /\ d.kind \notin {"free", "gone"}

ChildrenKept(f, lines, lists) ==
    \A p \in Pids : f[p].kind = "shell" =>
      \A q \in Pids : ChildOf(p, f[q]) => Kept(f[p], q, f[q], lines, lists)

ProcsOK(f, lines, lists) ==
    /\ \A p \in Pids : ProcessOK(f[p], lines)
    /\ ParentsUsed(f)
    /\ ChildrenKept(f, lines, lists)

Inv == Typed /\ ProcsOK(proc, Groups, cut)

-----------------------------------------------------------------------------
(* The shape of a line that means what it should. *)

Shaped(g) ==
    /\ Len(g) \in Nat /\ DOMAIN g = 1 .. Len(g)
    /\ \A i \in DOMAIN g :
         /\ Len(g[i].cargv) \in Nat \ {0} /\ DOMAIN g[i].cargv = 1 .. Len(g[i].cargv)
         /\ \A j \in DOMAIN g[i].cargv :
              /\ Len(g[i].cargv[j].cond_argv) \in Nat \ {0}
              /\ DOMAIN g[i].cargv[j].cond_argv = 1 .. Len(g[i].cargv[j].cond_argv)

LEMMA SequenceShape ==
    ASSUME NEW T
    PROVE  /\ \A q \in Seq(T) : Len(q) \in Nat /\ DOMAIN q = 1 .. Len(q) /\ \A x \in DOMAIN q : q[x] \in T
           /\ \A q \in NonEmptySeq(T) : q \in Seq(T) /\ Len(q) \in Nat \ {0}
  BY DEF NonEmptySeq

LEMMA GroupsMeant ==
    ASSUME ReadAsMeant, Typed
    PROVE  /\ Groups = Scripts[script].meant
           /\ Len(Groups) \in Nat /\ DOMAIN Groups = 1 .. Len(Groups)
           /\ \A n \in DOMAIN Groups : Shaped(Groups[n])
  <1>1. script \in DOMAIN Scripts /\ Scripts \in NonEmptySeq([text : Seq(Words), meant : Seq(Seq(CommandLists))])
    BY Sh61Assumption DEF Typed
  <1>2. Groups = Scripts[script].meant
    BY <1>1 DEF ReadAsMeant, Groups
  <1>3. Scripts[script].meant \in Seq(Seq(CommandLists))
    <2>1. \A x \in [text : Seq(Words), meant : Seq(Seq(CommandLists))] : x.meant \in Seq(Seq(CommandLists))
      OBVIOUS
    <2> QED BY <1>1, <2>1, SequenceShape
  <1>4. Len(Groups) \in Nat /\ DOMAIN Groups = 1 .. Len(Groups)
    BY <1>2, <1>3, SequenceShape
  <1>5. ASSUME NEW g \in Seq(CommandLists)
        PROVE  Shaped(g)
    <2>1. \A l \in CommandLists : l.cargv \in NonEmptySeq(Conditionals)
      BY DEF CommandLists
    <2>2. \A c \in Conditionals : c.cond_argv \in NonEmptySeq(Commands)
      BY DEF Conditionals
    <2>3. Len(g) \in Nat /\ DOMAIN g = 1 .. Len(g) /\ \A i \in DOMAIN g : g[i] \in CommandLists
      BY SequenceShape
    <2>4. ASSUME NEW i \in DOMAIN g
          PROVE  /\ Len(g[i].cargv) \in Nat \ {0} /\ DOMAIN g[i].cargv = 1 .. Len(g[i].cargv)
                 /\ \A j \in DOMAIN g[i].cargv : g[i].cargv[j] \in Conditionals
      <3>1. g[i].cargv \in NonEmptySeq(Conditionals)
        BY <2>1, <2>3
      <3> QED BY <3>1, SequenceShape
    <2>5. ASSUME NEW i \in DOMAIN g, NEW j \in DOMAIN g[i].cargv
          PROVE  /\ Len(g[i].cargv[j].cond_argv) \in Nat \ {0}
                 /\ DOMAIN g[i].cargv[j].cond_argv = 1 .. Len(g[i].cargv[j].cond_argv)
      <3>1. g[i].cargv[j].cond_argv \in NonEmptySeq(Commands)
        BY <2>2, <2>4
      <3> QED BY <3>1, SequenceShape
    <2> QED BY <2>3, <2>4, <2>5 DEF Shaped
  <1>6. \A n \in DOMAIN Groups : Groups[n] \in Seq(CommandLists)
    BY <1>2, <1>3, SequenceShape
  <1> QED BY <1>2, <1>4, <1>5, <1>6

-----------------------------------------------------------------------------
(* The memory of a shell, operation by operation. *)

LEMMA JobPlaces ==
    ASSUME NEW m, IsProcess(m), m.job # <<>>
    PROVE  m.job[1] \in Nat /\ m.job[2] \in Nat
  BY FieldsTyped DEF Jobs

\* Outside of a list.
LEMMA IdleOK ==
    ASSUME NEW m, NEW lines, MemoryOK(m, lines), m.pc \notin InPipe,
           NEW v, v.pc \in {"top", "read", "reset", "reap"}, v.n = m.n, v.next = m.next,
           v.job = m.job, v.fds = m.fds, v.eintr => v.pc = "reap"
    PROVE  MemoryOK(v, lines)
  <1>1. v.pc \notin AtWork \cup {"list"} /\ v.pc \notin InPipe
    BY DEF AtWork, InPipe
  <1>2. Placed(v, lines)
    BY <1>1 DEF MemoryOK, Placed, InPipe, AtWork
  <1>3. Signals(v)
    BY <1>1 DEF Signals, InPipe
  <1>4. WritesOut(v) /\ v.fds = m.fds /\ \A x \in Pipes : <<x, "w">> \notin m.fds
    BY DEF MemoryOK, WritesOut, InPipe
  <1>5. Joints(v)
    BY <1>1 DEF Joints, InPipe
  <1>6. NoOthers(v, lines)
    <2>1. Leaves(m.n, lines) \/ m.fds = {}
      BY DEF MemoryOK, NoOthers, InPipe
    <2> QED BY <1>1, <2>1 DEF NoOthers
  <1>7. BehindJob(v)
    BY <1>1 DEF MemoryOK, BehindJob
  <1> QED BY <1>2, <1>3, <1>4, <1>5, <1>6, <1>7 DEF MemoryOK

\* A new line.
LEMMA LineOK ==
    ASSUME NEW m, IsProcess(m), NEW lines, MemoryOK(m, lines), m.pc = "read",
           m.next \in DOMAIN lines,
           NEW v, v.pc = "list", v.n = m.next, v.next = m.next + 1, v.group = lines[m.next],
           v.i = 1, v.job = m.job, v.fds = m.fds, v.eintr = m.eintr
    PROVE  MemoryOK(v, lines)
  <1>1. m.n \in Nat /\ m.next \in Nat /\ m.n < m.next
    BY FieldsTyped DEF MemoryOK, Placed
  <1>2. Placed(v, lines)
    BY <1>1 DEF Placed, AtWork, InPipe
  <1>3. Signals(v) /\ WritesOut(v) /\ Joints(v)
    BY DEF MemoryOK, Signals, WritesOut, Joints, InPipe
  <1>4. NoOthers(v, lines)
    <2>1. Leaves(m.n, lines) \/ m.fds = {}
      BY DEF MemoryOK, NoOthers, InPipe
    <2>2. Leaves(m.n, lines) => Leaves(v.n, lines)
      <3>1. \A h \in 1 .. m.n : h \in 1 .. v.n
        BY <1>1
      <3> QED BY <3>1 DEF Leaves
    <2> QED BY <2>1, <2>2 DEF NoOthers, InPipe
  <1>5. BehindJob(v)
    <2>1. m.job # <<>> => m.job[1] \in Nat /\ m.job[1] <= m.n
      BY JobPlaces DEF MemoryOK, BehindJob
    <2> QED BY <1>1, <2>1 DEF BehindJob, AtWork
  <1> QED BY <1>2, <1>3, <1>4, <1>5 DEF MemoryOK

\* A shell at a list that turns to it, or goes on to the next.
LEMMA AtListOK ==
    ASSUME NEW m, IsProcess(m), NEW lines, MemoryOK(m, lines), m.pc = "list",
           NEW v, v.n = m.n, v.next = m.next, v.group = m.group, v.fds = m.fds, v.eintr = m.eintr,
           \/ v.pc = "run" /\ v.i = m.i /\ v.i \in DOMAIN m.group /\ v.job = m.job
           \/ v.pc = "run" /\ v.i = m.i /\ v.i \in DOMAIN m.group /\ v.job = <<m.n, m.i>>
           \/ v.pc = "list" /\ v.i = m.i + 1 /\ v.job = m.job
    PROVE  MemoryOK(v, lines)
  <1>1. m.n \in Nat /\ m.i \in Nat
    BY FieldsTyped
  <1>2. Placed(v, lines)
    BY <1>1 DEF MemoryOK, Placed, AtWork, InPipe
  <1>3. Signals(v) /\ WritesOut(v) /\ Joints(v)
    BY DEF MemoryOK, Signals, WritesOut, Joints, InPipe
  <1>4. NoOthers(v, lines)
    BY DEF MemoryOK, NoOthers, InPipe
  <1>5. BehindJob(v)
    <2>1. m.job # <<>> => /\ m.job[1] \in Nat /\ m.job[2] \in Nat /\ m.job[1] <= m.n
                          /\ m.job[1] = m.n => m.job[2] < m.i
      BY JobPlaces DEF MemoryOK, BehindJob
    <2> QED BY <1>1, <2>1 DEF BehindJob, AtWork
  <1> QED BY <1>2, <1>3, <1>4, <1>5 DEF MemoryOK

LEMMA RunOK ==
    ASSUME NEW m, IsProcess(m), NEW lines, MemoryOK(m, lines), m.pc = "run", Shaped(m.group),
           NEW v, v.n = m.n, v.next = m.next, v.group = m.group, v.i = m.i, v.j = 1, v.k = 1,
           v.fds = m.fds, v.eintr = m.eintr, v.cmd_running = TRUE, v.job = m.job, v.prev = 0,
           v.pc = "stage"
    PROVE  MemoryOK(v, lines)
  <1>1. Placed(v, lines)
    <2>1. m.i \in DOMAIN m.group /\ m.n < m.next /\ m.n \in DOMAIN lines /\ m.group = lines[m.n] /\ m.i >= 1
      BY DEF MemoryOK, Placed, AtWork
    <2>2. 1 \in DOMAIN m.group[m.i].cargv /\ 1 \in DOMAIN m.group[m.i].cargv[1].cond_argv
      BY <2>1 DEF Shaped
    <2> QED BY <2>1, <2>2 DEF Placed, CurList, CurCond
  <1>2. Signals(v) /\ WritesOut(v) /\ Joints(v)
    BY DEF MemoryOK, Signals, WritesOut, Joints, InPipe
  <1>3. NoOthers(v, lines)
    BY DEF MemoryOK, NoOthers, InPipe
  <1>4. BehindJob(v)
    BY DEF MemoryOK, BehindJob, AtWork
  <1> QED BY <1>1, <1>2, <1>3, <1>4 DEF MemoryOK

\* The same place of the same line.
SamePlace(v, m) ==
    v.n = m.n /\ v.next = m.next /\ v.group = m.group /\ v.i = m.i /\ v.j = m.j /\ v.k = m.k

LEMMA SameCommand ==
    ASSUME NEW m, NEW v, SamePlace(v, m)
    PROVE  /\ CurList(v) = CurList(m) /\ CurCond(v) = CurCond(m) /\ CurCommand(v) = CurCommand(m)
           /\ PipesOut(v) = PipesOut(m)
  BY DEF SamePlace, CurList, CurCond, CurCommand, PipesOut

\* The pipe of a stage has been made.
LEMMA StageOK ==
    ASSUME NEW m, IsProcess(m), NEW lines, MemoryOK(m, lines), m.pc = "stage", Shaped(m.group),
           DOMAIN lines = 1 .. Len(lines),
           NEW pipe, pipe # 0 => pipe \in Pipes /\ PipesOut(m) /\ <<pipe, "r">> \notin m.fds,
           NEW v, SamePlace(v, m), v.pc \in {"wait", "exec"}, v.fds = m.fds \cup ReadEnd(pipe) \cup WriteEnd(pipe),
           v.fd_out = pipe, v.fd_in = IF PipesIn(m) THEN m.prev ELSE 0,
           v.eintr = m.eintr, v.cmd_running = m.cmd_running,
           v.job = m.job \/ v.job = <<m.n, m.i>>
    PROVE  MemoryOK(v, lines)
  <1>1. /\ m.n \in Nat /\ m.i \in Nat /\ m.k \in Nat
        /\ m.n < m.next /\ m.n \in DOMAIN lines /\ m.group = lines[m.n] /\ m.i >= 1
        /\ m.i \in DOMAIN m.group /\ m.j \in DOMAIN CurList(m).cargv /\ m.k \in DOMAIN CurCond(m).cond_argv
    BY FieldsTyped DEF MemoryOK, Placed, AtWork, InPipe
  <1>2. CurList(v) = CurList(m) /\ CurCond(v) = CurCond(m) /\ CurCommand(v) = CurCommand(m) /\ PipesOut(v) = PipesOut(m)
    BY SameCommand
  <1>3. Placed(v, lines)
    BY <1>1, <1>2 DEF Placed, SamePlace
  <1>4. Signals(v)
    BY DEF MemoryOK, Signals, InPipe
  <1>5. \A x \in Pipes : <<x, "w">> \notin m.fds
    BY DEF MemoryOK, WritesOut
  <1>6. WritesOut(v)
    BY <1>5 DEF WritesOut, ReadEnd, WriteEnd
  <1>7. m.prev # 0 => <<m.prev, "r">> \in m.fds /\ m.k > 1 /\ CurCond(m).cond_argv[m.k - 1].rd_out = <<>>
    BY DEF MemoryOK, Joints
  <1>8. pipe # 0 => <<pipe, "r">> \in v.fds /\ <<pipe, "w">> \in v.fds
    BY DEF ReadEnd, WriteEnd
  <1>9. Joints(v)
    <2>1. v.pc # "stage"
      OBVIOUS
    <2>2. v.fd_out # 0 => PipesOut(v) /\ <<v.fd_out, "r">> \in v.fds /\ <<v.fd_out, "w">> \in v.fds
      BY <1>2, <1>8
    <2>3. v.fd_in # 0 => <<v.fd_in, "r">> \in v.fds /\ v.fd_in # v.fd_out
      <3>1. CASE v.fd_in = 0
        BY <3>1
      <3>2. CASE v.fd_in # 0
        <4>1. v.fd_in = m.prev /\ <<m.prev, "r">> \in m.fds
          BY <1>7, <3>2
        <4>2. m.prev # pipe
          BY <3>2, <4>1
        <4> QED BY <4>1, <4>2
      <3> QED BY <3>1, <3>2
    <2> QED BY <2>1, <2>2, <2>3 DEF Joints
  <1>10. NoOthers(v, lines)
    <2>1. CASE Leaves(m.n, lines)
      BY <2>1 DEF NoOthers, SamePlace
    <2>2. CASE m.fds \subseteq ReadEnd(m.prev)
      <3>1. CASE m.prev = 0 \/ PipesIn(m)
        <4>1. m.fds \subseteq ReadEnd(v.fd_in)
          BY <2>2, <3>1 DEF ReadEnd
        <4> QED BY <4>1 DEF NoOthers
      <3>2. CASE m.prev # 0 /\ ~ PipesIn(m)
        <4>1. m.k > 1 /\ CurCond(m).cond_argv[m.k - 1].rd_out = <<>> /\ CurCommand(m).rd_in # <<>>
          BY <1>7, <3>2 DEF PipesIn
        <4> DEFINE stages == m.group[m.i].cargv[m.j].cond_argv
        <4>2. /\ m.j \in DOMAIN m.group[m.i].cargv /\ m.k \in DOMAIN stages
              /\ stages[m.k].rd_in # <<>> /\ stages[m.k - 1].rd_out = <<>>
          BY <1>1, <4>1 DEF CurList, CurCond, CurCommand
        <4>3. m.k \in 2 .. Len(stages)
          <5>1. DOMAIN stages = 1 .. Len(stages) /\ Len(stages) \in Nat
            BY <1>1, <4>2 DEF Shaped
          <5> HIDE DEF stages
          <5> QED BY <1>1, <4>1, <4>2, <5>1
        <4>4. LeavesReadEnd(m.group)
          BY <1>1, <4>2, <4>3 DEF LeavesReadEnd
        <4>5. Leaves(m.n, lines)
          <5>1. m.n \in 1 .. m.n
            BY <1>1
          <5> QED BY <1>1, <4>4, <5>1 DEF Leaves
        <4> QED BY <4>5 DEF NoOthers, SamePlace
      <3> QED BY <3>1, <3>2
    <2> QED BY <2>1, <2>2 DEF MemoryOK, NoOthers, InPipe
  <1>11. BehindJob(v)
    <2>1. m.job # <<>> => /\ m.job[1] \in Nat /\ m.job[2] \in Nat /\ m.job[1] <= m.n
                          /\ m.job[1] = m.n => m.job[2] <= m.i
      BY JobPlaces DEF MemoryOK, BehindJob, AtWork
    <2> QED BY <1>1, <2>1 DEF BehindJob, AtWork, SamePlace
  <1> QED BY <1>3, <1>4, <1>6, <1>9, <1>10, <1>11 DEF MemoryOK

\* execvp() has failed, and the child goes on as a shell.
LEMMA SecondOK ==
    ASSUME NEW m, NEW lines, MemoryOK(m, lines), m.pc = "exec",
           NEW v, SamePlace(v, m), v.pc = "wait", v.fds = m.fds \ (ReadEnd(m.fd_in) \cup WriteEnd(m.fd_out)),
           v.fd_out = m.fd_out, v.fd_in = m.fd_in, v.eintr = m.eintr,
           v.cmd_running = m.cmd_running, v.job = m.job
    PROVE  MemoryOK(v, lines)
  <1>1. CurList(v) = CurList(m) /\ CurCond(v) = CurCond(m) /\ CurCommand(v) = CurCommand(m) /\ PipesOut(v) = PipesOut(m)
    BY SameCommand
  <1>2. Placed(v, lines)
    BY <1>1 DEF MemoryOK, Placed, SamePlace, AtWork, InPipe
  <1>3. Signals(v)
    BY DEF MemoryOK, Signals, InPipe
  <1>4. WritesOut(v)
    BY DEF MemoryOK, WritesOut
  <1>5. Joints(v)
    <2>1. m.fd_out # 0 => PipesOut(m) /\ <<m.fd_out, "r">> \in m.fds
      BY DEF MemoryOK, Joints
    <2>2. m.fd_out # 0 => <<m.fd_out, "r">> \notin WriteEnd(m.fd_out) /\ <<m.fd_out, "r">> \notin ReadEnd(m.fd_in)
      <3>1. m.fd_in # 0 => m.fd_in # m.fd_out
        BY DEF MemoryOK, Joints
      <3> QED BY <3>1 DEF ReadEnd, WriteEnd
    <2>3. m.fd_in # 0 => m.fd_in # m.fd_out
      BY DEF MemoryOK, Joints
    <2> QED BY <1>1, <2>1, <2>2, <2>3 DEF Joints
  <1>6. NoOthers(v, lines)
    BY DEF MemoryOK, NoOthers, SamePlace, InPipe
  <1>7. BehindJob(v)
    BY DEF MemoryOK, BehindJob, SamePlace, AtWork
  <1> QED BY <1>2, <1>3, <1>4, <1>5, <1>6, <1>7 DEF MemoryOK

\* The stage has been waited for.
LEMMA WaitedOK ==
    ASSUME NEW m, IsProcess(m), NEW lines, MemoryOK(m, lines), m.pc = "wait", Shaped(m.group),
           NEW v, v.n = m.n, v.next = m.next, v.job = m.job, v.eintr = FALSE,
           v.cmd_running = m.cmd_running \/ v.pc = "reset",
           v.fds = m.fds \ (ReadEnd(m.fd_in) \cup WriteEnd(m.fd_out)),
           \/ /\ v.pc = "stage" /\ v.group = m.group /\ v.i = m.i /\ v.j = m.j
              /\ m.k < Len(CurCond(m).cond_argv) /\ v.k = m.k + 1 /\ v.prev = m.fd_out
           \/ /\ v.pc = "stage" /\ v.group = m.group /\ v.i = m.i /\ v.k = 1 /\ v.prev = 0
              /\ m.k = Len(CurCond(m).cond_argv)
              /\ v.j \in Nat /\ v.j > m.j /\ v.j <= Len(CurList(m).cargv)
           \/ /\ v.pc = "list" /\ v.group = m.group /\ v.i = m.i + 1
              /\ ~ (m.k < Len(CurCond(m).cond_argv))
           \/ v.pc = "reset" /\ ~ (m.k < Len(CurCond(m).cond_argv))
    PROVE  MemoryOK(v, lines)
  <1>1. /\ m.n \in Nat /\ m.i \in Nat /\ m.j \in Nat /\ m.k \in Nat
        /\ m.n < m.next /\ m.n \in DOMAIN lines /\ m.group = lines[m.n] /\ m.i >= 1
        /\ m.i \in DOMAIN m.group /\ m.j \in DOMAIN CurList(m).cargv /\ m.k \in DOMAIN CurCond(m).cond_argv
    BY FieldsTyped DEF MemoryOK, Placed, AtWork, InPipe
  <1>2. /\ Len(CurList(m).cargv) \in Nat \ {0} /\ DOMAIN CurList(m).cargv = 1 .. Len(CurList(m).cargv)
        /\ \A j \in DOMAIN CurList(m).cargv :
              LET stages == CurList(m).cargv[j].cond_argv
              IN  Len(stages) \in Nat \ {0} /\ DOMAIN stages = 1 .. Len(stages)
    BY <1>1 DEF Shaped, CurList
  <1>3. Len(CurCond(m).cond_argv) \in Nat \ {0} /\ DOMAIN CurCond(m).cond_argv = 1 .. Len(CurCond(m).cond_argv)
    BY <1>1, <1>2 DEF CurCond
  <1>4. m.cmd_running
    BY DEF MemoryOK, Signals, InPipe
  <1>5. m.fd_out # 0 => /\ m.k < Len(CurCond(m).cond_argv) /\ CurCommand(m).rd_out = <<>>
                        /\ <<m.fd_out, "r">> \in m.fds
    BY DEF MemoryOK, Joints, PipesOut
  <1>6. Placed(v, lines)
    <2>1. CASE v.pc = "stage" /\ v.group = m.group /\ v.i = m.i /\ v.j = m.j /\ m.k < Len(CurCond(m).cond_argv) /\ v.k = m.k + 1
      <3>1. v.k \in DOMAIN CurCond(m).cond_argv
        BY <1>1, <1>3, <2>1
      <3>2. CurList(v) = CurList(m) /\ CurCond(v) = CurCond(m)
        BY <2>1 DEF CurList, CurCond
      <3> QED BY <1>1, <2>1, <3>1, <3>2 DEF Placed
    <2>2. CASE v.pc = "stage" /\ v.group = m.group /\ v.i = m.i /\ v.k = 1 /\ v.j \in Nat /\ v.j > m.j /\ v.j <= Len(CurList(m).cargv)
      <3>1. CurList(v) = CurList(m)
        BY <2>2 DEF CurList
      <3>2. v.j \in DOMAIN CurList(m).cargv
        BY <1>1, <1>2, <2>2
      <3>3. v.k \in DOMAIN CurCond(v).cond_argv
        BY <1>2, <2>2, <3>1, <3>2 DEF CurCond
      <3> QED BY <1>1, <2>2, <3>1, <3>2, <3>3 DEF Placed
    <2>3. CASE v.pc = "list" /\ v.group = m.group /\ v.i = m.i + 1
      BY <1>1, <2>3 DEF Placed, AtWork, InPipe
    <2>4. CASE v.pc = "reset"
      BY <1>1, <2>4 DEF Placed, AtWork, InPipe
    <2> QED BY <2>1, <2>2, <2>3, <2>4
  <1>7. Signals(v)
    BY <1>4 DEF Signals, InPipe
  <1>8. \A x \in Pipes : <<x, "w">> \notin v.fds
    BY PidsNumbered DEF MemoryOK, WritesOut, WriteEnd
  <1>9. Joints(v)
    <2>1. v.pc \notin {"wait", "exec"}
      OBVIOUS
    <2>2. ASSUME v.pc = "stage", v.prev # 0
          PROVE  <<v.prev, "r">> \in v.fds /\ v.k > 1 /\ CurCond(v).cond_argv[v.k - 1].rd_out = <<>>
      <3>1. /\ v.group = m.group /\ v.i = m.i /\ v.j = m.j /\ m.k < Len(CurCond(m).cond_argv)
            /\ v.k = m.k + 1 /\ v.prev = m.fd_out
        BY <2>2
      <3>2. CurCond(v) = CurCond(m)
        BY <3>1 DEF CurList, CurCond
      <3>3. v.k - 1 = m.k /\ v.k > 1
        BY <1>1, <1>3, <3>1
      <3>4. CurCond(v).cond_argv[v.k - 1].rd_out = <<>>
        BY <1>5, <2>2, <3>1, <3>2, <3>3 DEF CurCommand
      <3>5. <<m.fd_out, "r">> \in v.fds
        <4>1. <<m.fd_out, "r">> \notin WriteEnd(m.fd_out)
          BY DEF WriteEnd
        <4>2. m.fd_in # m.fd_out
          <5>1. m.fd_out # 0
            BY <2>2, <3>1
          <5> QED BY <5>1 DEF MemoryOK, Joints
        <4> QED BY <1>5, <2>2, <3>1, <4>1, <4>2 DEF ReadEnd
      <3> QED BY <3>1, <3>3, <3>4, <3>5
    <2> QED BY <2>1, <2>2 DEF Joints
  <1>10. NoOthers(v, lines)
    <2>1. CASE Leaves(m.n, lines)
      BY <2>1 DEF NoOthers
    <2>2. CASE m.fds \subseteq ReadEnd(m.fd_in) \cup ReadEnd(m.fd_out) \cup WriteEnd(m.fd_out)
      <3>1. v.fds \subseteq ReadEnd(m.fd_out)
        BY <2>2
      <3>2. ~ (m.k < Len(CurCond(m).cond_argv)) => v.fds = {}
        BY <1>5, <3>1 DEF ReadEnd
      <3>3. v.pc = "stage" => v.prev = m.fd_out \/ v.fds = {}
        BY <1>1, <1>3, <3>2
      <3>4. v.pc # "stage" => v.pc \notin InPipe /\ v.fds = {}
        BY <3>2 DEF InPipe
      <3> QED BY <3>1, <3>3, <3>4 DEF NoOthers
    <2> QED BY <2>1, <2>2 DEF MemoryOK, NoOthers, InPipe
  <1>11. BehindJob(v)
    <2>1. m.job # <<>> => /\ m.job[1] \in Nat /\ m.job[2] \in Nat /\ m.job[1] <= m.n
                          /\ m.job[1] = m.n => m.job[2] <= m.i
      BY JobPlaces DEF MemoryOK, BehindJob, AtWork
    <2> QED BY <1>1, <2>1 DEF BehindJob, AtWork
  <1> QED BY <1>6, <1>7, <1>8, <1>9, <1>10, <1>11 DEF MemoryOK, WritesOut

-----------------------------------------------------------------------------
(* A step of one process, between the processes. *)

\* What p was and what it becomes.
Continues(f, h, p) ==
    /\ f[p].kind \in {"shell", "command"}
    /\ h[p].kind \in {"shell", "command", "zombie"}
    /\ h[p].parent = f[p].parent /\ h[p].job = f[p].job

LEMMA SteppedOK ==
    ASSUME NEW f, NEW lines, NEW lists, ProcsOK(f, lines, lists), \A r \in Pids : f[r].parent \in Pids \cup {0},
           NEW p \in Pids, NEW h, Continues(f, h, p), ProcessOK(h[p], lines),
           NEW w, w # p, \A r \in Pids \ {p, w} : h[r] = f[r],
           w \in Pids => h[w].kind = "gone" /\ h[w].parent = 0,
           h[p].kind = "shell" =>
              \A q \in Pids : q # w /\ ChildOf(p, f[q]) => Kept(h[p], q, f[q], lines, lists)
    PROVE  ProcsOK(h, lines, lists)
  <1>1. \A r \in Pids : ProcessOK(h[r], lines)
    <2>1. \A r \in Pids : ProcessOK(f[r], lines)
      BY DEF ProcsOK
    <2>2. w \in Pids => ProcessOK(h[w], lines)
      BY DEF ProcessOK
    <2> QED BY <2>1, <2>2
  <1>2. \A r \in Pids : h[r].kind = "free" => f[r].kind = "free"
    BY DEF Continues
  <1>3. ParentsUsed(h)
    <2> SUFFICES ASSUME NEW r \in Pids, h[r].parent # 0
                 PROVE  h[h[r].parent].kind # "free"
      BY DEF ParentsUsed
    <2>1. h[r].parent = f[r].parent
      BY DEF Continues
    <2>2. f[r].parent \in Pids /\ f[f[r].parent].kind # "free"
      BY <2>1 DEF ProcsOK, ParentsUsed
    <2> QED BY <1>2, <2>1, <2>2
  <1>4. ChildrenKept(h, lines, lists)
    <2> SUFFICES ASSUME NEW r \in Pids, h[r].kind = "shell", NEW q \in Pids, ChildOf(r, h[q])
                 PROVE  Kept(h[r], q, h[q], lines, lists)
      BY DEF ChildrenKept
    <2>1. q # w \/ q = p
      BY DEF ChildOf
    <2>2. ChildOf(r, f[q]) /\ h[q].job = f[q].job
      BY <2>1 DEF ChildOf, Continues
    <2>3. Kept(h[r], q, f[q], lines, lists)
      <3>1. CASE r = p
        BY <2>1, <2>2, <3>1
      <3>2. CASE r # p
        <4>1. h[r] = f[r]
          BY <3>2
        <4> QED BY <2>2, <4>1 DEF ProcsOK, ChildrenKept
      <3> QED BY <3>1, <3>2
    <2> QED BY <2>2, <2>3 DEF Kept
  <1> QED BY <1>1, <1>3, <1>4 DEF ProcsOK

LEMMA ForkedOK ==
    ASSUME NEW f, NEW lines, NEW lists, ProcsOK(f, lines, lists), \A r \in Pids : f[r].parent \in Pids \cup {0},
           NEW p \in Pids, NEW h, Continues(f, h, p), h[p].kind = "shell", ProcessOK(h[p], lines),
           NEW c \in Pids \ {p}, f[c].kind = "free", \A r \in Pids \ {p, c} : h[r] = f[r],
           h[c].kind = "shell", h[c].parent = p, ProcessOK(h[c], lines),
           Kept(h[p], c, h[c], lines, lists),
           \A q \in Pids : ChildOf(p, f[q]) => Kept(h[p], q, f[q], lines, lists)
    PROVE  ProcsOK(h, lines, lists)
  <1>1. \A r \in Pids : ProcessOK(h[r], lines)
    BY DEF ProcsOK
  <1>2. \A r \in Pids : h[r].kind = "free" => f[r].kind = "free"
    BY DEF Continues
  <1>3. ParentsUsed(h)
    <2> SUFFICES ASSUME NEW r \in Pids, h[r].parent # 0
                 PROVE  h[h[r].parent].kind # "free"
      BY DEF ParentsUsed
    <2>1. CASE r = c
      BY <2>1
    <2>2. CASE r # c
      <3>1. h[r].parent = f[r].parent
        BY <2>2 DEF Continues
      <3>2. f[r].parent \in Pids /\ f[f[r].parent].kind # "free"
        BY <3>1 DEF ProcsOK, ParentsUsed
      <3> QED BY <1>2, <3>1, <3>2
    <2> QED BY <2>1, <2>2
  <1>4. ChildrenKept(h, lines, lists)
    <2> SUFFICES ASSUME NEW r \in Pids, h[r].kind = "shell", NEW q \in Pids, ChildOf(r, h[q])
                 PROVE  Kept(h[r], q, h[q], lines, lists)
      BY DEF ChildrenKept
    <2>1. CASE q = c
      BY <2>1 DEF ChildOf
    <2>2. CASE q # c
      <3>1. ChildOf(r, f[q]) /\ h[q].job = f[q].job
        BY <2>2 DEF ChildOf, Continues
      <3>2. r # c
        <4>1. f[q].parent # 0 => f[f[q].parent].kind # "free"
          BY DEF ProcsOK, ParentsUsed
        <4> QED BY <3>1, <4>1, PidsNumbered DEF ChildOf
      <3>3. Kept(h[r], q, f[q], lines, lists)
        <4>1. CASE r = p
          BY <3>1, <4>1
        <4>2. CASE r # p
          <5>1. h[r] = f[r]
            BY <3>2, <4>2
          <5> QED BY <3>1, <5>1 DEF ProcsOK, ChildrenKept
        <4> QED BY <4>1, <4>2
      <3> QED BY <3>1, <3>3 DEF Kept
    <2> QED BY <2>1, <2>2
  <1> QED BY <1>1, <1>3, <1>4 DEF ProcsOK

LEMMA InvWhen ==
    ASSUME Typed', ProcsOK(proc', Groups, cut'), script' = script
    PROVE  Inv'
  <1>1. Groups' = Groups
    BY DEF Groups
  <1> QED BY <1>1 DEF Inv

\* Children that are kept whatever their parent does.
KeptAnyway(m, d, lines, lists) ==
    \/ d.job \in lists
    \/ d.job # m.job /\ lines[d.job[1]][d.job[2]].background

LEMMA KeptOutsideWait ==
    ASSUME Inv, NEW p \in Pids, proc[p].kind = "shell", proc[p].pc # "wait",
           NEW q \in Pids, ChildOf(p, proc[q])
    PROVE  KeptAnyway(proc[p], proc[q], Groups, cut)
  BY DEF Inv, ProcsOK, ChildrenKept, Kept, KeptAnyway

\* A step of one process that is no shell that waits.
LEMMA BecomeInv ==
    ASSUME Inv, Typed', NEW p \in Pids, NEW v, Become(p, v), script' = script, cut' = cut,
           proc[p].kind \in {"shell", "command"}, v.kind \in {"shell", "command", "zombie"},
           v.parent = proc[p].parent, v.job = proc[p].job, ProcessOK(v, Groups),
           v.kind = "shell" => proc[p].kind = "shell" /\ proc[p].pc # "wait"
    PROVE  Inv'
  <1>1. Typed /\ ProcsOK(proc, Groups, cut)
    BY DEF Inv
  <1>2. proc' = [r \in Pids |-> IF r = p THEN v ELSE proc[r]]
    BY <1>1, BecomeEffect
  <1>3. \A r \in Pids : proc[r].parent \in Pids \cup {0}
    BY <1>1, FieldsTyped DEF Typed
  <1>4. Continues(proc, proc', p) /\ proc'[p] = v /\ \A r \in Pids \ {p, 0} : proc'[r] = proc[r]
    BY <1>2 DEF Continues
  <1>5. v.kind = "shell" =>
           \A q \in Pids : q # 0 /\ ChildOf(p, proc[q]) => Kept(v, q, proc[q], Groups, cut)
    BY KeptOutsideWait DEF KeptAnyway, Kept
  <1>6. ProcsOK(proc', Groups, cut)
    <2> DEFINE h == proc'
    <2>1. Continues(proc, h, p) /\ h[p] = v /\ \A r \in Pids \ {p, 0} : h[r] = proc[r]
      BY <1>4
    <2> HIDE DEF h
    <2>2. ProcsOK(h, Groups, cut)
      BY <1>1, <1>3, <1>5, <2>1, SteppedOK, PidsNumbered
    <2> QED BY <2>2 DEF h
  <1> QED BY <1>6, InvWhen

\* One that reaps w, if w is a process.
LEMMA ReapedInv ==
    ASSUME Inv, Typed', NEW p \in Pids, NEW v, NEW w, w # p, Reaped(p, v, w), script' = script, cut' = cut,
           proc[p].kind = "shell", v.kind = "shell",
           v.parent = proc[p].parent, v.job = proc[p].job, ProcessOK(v, Groups),
           \A q \in Pids : q # w /\ ChildOf(p, proc[q]) => KeptAnyway(proc[p], proc[q], Groups, cut)
    PROVE  Inv'
  <1>1. Typed /\ ProcsOK(proc, Groups, cut)
    BY DEF Inv
  <1> DEFINE g == [NoProcess EXCEPT !.kind = "gone"]
  <1>2. proc' = [r \in Pids |-> IF r = p THEN v ELSE IF r = w THEN g ELSE proc[r]]
    BY DEF Reaped
  <1>3. g.kind = "gone" /\ g.parent = 0
    BY GoneType
  <1> HIDE DEF g
  <1>4. \A r \in Pids : proc[r].parent \in Pids \cup {0}
    BY <1>1, FieldsTyped DEF Typed
  <1> DEFINE h == proc'
  <1>5. /\ Continues(proc, h, p) /\ h[p] = v /\ \A r \in Pids \ {p, w} : h[r] = proc[r]
        /\ w \in Pids => h[w].kind = "gone" /\ h[w].parent = 0
    BY <1>2, <1>3 DEF Continues
  <1> HIDE DEF h
  <1>6. \A q \in Pids : q # w /\ ChildOf(p, proc[q]) => Kept(v, q, proc[q], Groups, cut)
    BY DEF KeptAnyway, Kept
  <1>7. ProcsOK(h, Groups, cut)
    BY <1>1, <1>4, <1>5, <1>6, SteppedOK
  <1> QED BY <1>7, InvWhen DEF h

\* A shell that is at no wait forks.
LEMMA ForkInv ==
    ASSUME Inv, Typed', NEW p \in Pids, NEW m, NEW c, Fork(p, m, c), script' = script, cut' = cut,
           proc[p].kind = "shell", proc[p].pc # "wait",
           IsProcess(m), m.kind = "shell", m.parent = proc[p].parent, m.job = proc[p].job,
           ProcessOK(m, Groups), \A q \in Pids : ProcessOK([m EXCEPT !.pid = q], Groups),
           IsProcess(c), c.kind = "shell", ProcessOK([c EXCEPT !.parent = p], Groups),
           \/ KeptAnyway(m, c, Groups, cut)
           \/ m.pc = "wait" /\ ~ m.eintr /\ c.job = <<m.n, m.i>>
    PROVE  Inv'
  <1>1. Typed /\ ProcsOK(proc, Groups, cut)
    BY DEF Inv
  <1>2. PICK q \in Pids \ {p} :
              /\ proc[q].kind = "free"
              /\ proc' = [r \in Pids |->
                            IF r = p THEN IF m.pc = "wait" THEN [m EXCEPT !.pid = q] ELSE m
                            ELSE IF r = q THEN [c EXCEPT !.parent = p] ELSE proc[r]]
    <2>1. proc[p].kind # "free"
      OBVIOUS
    <2> QED BY <1>1, <2>1, ForkEffect
  <1> DEFINE v == IF m.pc = "wait" THEN [m EXCEPT !.pid = q] ELSE m
             d == [c EXCEPT !.parent = p]
             h == proc'
  <1>3. /\ v.kind = "shell" /\ v.parent = m.parent /\ v.job = m.job /\ v.pc = m.pc
        /\ v.eintr = m.eintr /\ v.n = m.n /\ v.i = m.i /\ (m.pc = "wait" => v.pid = q)
    BY FieldNames DEF IsProcess
  <1>4. d.kind = "shell" /\ d.parent = p /\ d.job = c.job
    BY FieldNames DEF IsProcess
  <1>5. ProcessOK(v, Groups) /\ ProcessOK(d, Groups)
    OBVIOUS
  <1>6. h = [r \in Pids |-> IF r = p THEN v ELSE IF r = q THEN d ELSE proc[r]]
    BY <1>2
  <1>7. \A r \in Pids : proc[r].parent \in Pids \cup {0}
    BY <1>1, FieldsTyped DEF Typed
  <1> HIDE DEF v, d, h
  <1>8. Continues(proc, h, p) /\ h[p] = v /\ h[q] = d /\ \A r \in Pids \ {p, q} : h[r] = proc[r]
    BY <1>3, <1>6 DEF Continues
  <1>9. Kept(v, q, d, Groups, cut)
    BY <1>3, <1>4 DEF Kept, KeptAnyway
  <1>10. \A r \in Pids : ChildOf(p, proc[r]) => Kept(v, r, proc[r], Groups, cut)
    BY <1>3, KeptOutsideWait DEF Kept, KeptAnyway
  <1>11. ProcsOK(h, Groups, cut)
    BY <1>1, <1>2, <1>3, <1>4, <1>5, <1>7, <1>8, <1>9, <1>10, ForkedOK
  <1> QED BY <1>11, InvWhen DEF h

-----------------------------------------------------------------------------
(* The invariant is kept. *)

LEMMA ShellFacts ==
    ASSUME ReadAsMeant, Inv, NEW p \in Pids, proc[p].kind = "shell"
    PROVE  /\ Typed /\ IsProcess(proc[p]) /\ MemoryOK(proc[p], Groups)
           /\ DOMAIN Groups = 1 .. Len(Groups)
           /\ proc[p].pc \in AtWork \cup {"list"} => Shaped(proc[p].group)
  <1>1. Typed /\ IsProcess(proc[p]) /\ MemoryOK(proc[p], Groups)
    BY DEF Inv, Typed, ProcsOK, ProcessOK
  <1>2. DOMAIN Groups = 1 .. Len(Groups) /\ \A n \in DOMAIN Groups : Shaped(Groups[n])
    BY <1>1, GroupsMeant
  <1> QED BY <1>1, <1>2 DEF MemoryOK, Placed

LEMMA PromptInv ==
    ASSUME ReadAsMeant, Inv, Typed', NEW p \in Pids, proc[p].kind = "shell", Prompt(p)
    PROVE  Inv'
  <1> DEFINE m == proc[p]
             v == [m EXCEPT !.cmd_running = FALSE, !.pc = "read"]
  <1>1. IsProcess(m) /\ MemoryOK(m, Groups) /\ m.pc = "top"
    BY ShellFacts DEF Prompt
  <1>2. /\ v.kind = m.kind /\ v.parent = m.parent /\ v.job = m.job /\ v.pc = "read"
        /\ v.n = m.n /\ v.next = m.next /\ v.fds = m.fds /\ v.eintr = m.eintr
    BY <1>1, FieldNames DEF IsProcess
  <1>3. Become(p, v) /\ script' = script /\ cut' = cut
    BY DEF Prompt
  <1> HIDE DEF v
  <1>4. MemoryOK(v, Groups)
    <2>1. ~ m.eintr
      BY <1>1 DEF MemoryOK, Signals
    <2> QED BY <1>1, <1>2, <2>1, IdleOK DEF InPipe
  <1> QED BY <1>1, <1>2, <1>3, <1>4, BecomeInv DEF ProcessOK

LEMMA ReadLineInv ==
    ASSUME ReadAsMeant, Inv, Typed', NEW p \in Pids, proc[p].kind = "shell", ReadLine(p)
    PROVE  Inv'
  <1> DEFINE m == proc[p]
             v == [m EXCEPT !.group = Groups[m.next], !.n = m.next, !.next = @ + 1,
                            !.z = 0, !.i = 1, !.pc = "list"]
  <1>1. IsProcess(m) /\ MemoryOK(m, Groups) /\ m.pc = "read"
    BY ShellFacts DEF ReadLine
  <1>2. m.next \in DOMAIN Groups
    <2>1. m.next \in Nat \ {0} /\ m.next <= Len(Groups)
      BY <1>1, FieldsTyped DEF ReadLine
    <2> QED BY <2>1, GroupsTyped DEF Inv
  <1>3. /\ v.kind = m.kind /\ v.parent = m.parent /\ v.job = m.job /\ v.pc = "list"
        /\ v.n = m.next /\ v.next = m.next + 1 /\ v.fds = m.fds /\ v.eintr = m.eintr
        /\ v.group = Groups[m.next] /\ v.i = 1
    BY <1>1, FieldNames DEF IsProcess
  <1>4. Become(p, v) /\ script' = script /\ cut' = cut
    BY DEF ReadLine
  <1> HIDE DEF v
  <1>5. MemoryOK(v, Groups)
    BY <1>1, <1>2, <1>3, LineOK
  <1> QED BY <1>1, <1>3, <1>4, <1>5, BecomeInv DEF ProcessOK

LEMMA EndedInv ==
    ASSUME Inv, Typed', NEW p \in Pids, proc[p].kind \in {"shell", "command"}, NEW s \in Statuses,
           Become(p, Ended(proc[p], s)), script' = script, cut' = cut
    PROVE  Inv'
  <1> DEFINE e == Ended(proc[p], s)
  <1>1. e.kind = "zombie" /\ e.parent = proc[p].parent /\ e.job = proc[p].job
    BY EndedType DEF Inv, Typed
  <1> HIDE DEF e
  <1> QED BY <1>1, BecomeInv DEF ProcessOK, e

LEMMA ResetInv ==
    ASSUME ReadAsMeant, Inv, Typed', NEW p \in Pids, proc[p].kind = "shell", Reset(p)
    PROVE  Inv'
  <1> DEFINE m == proc[p]
             v == [m EXCEPT !.clear_cmd = FALSE, !.interrupted = FALSE,
                            !.pc = IF m.z = 0 THEN "top" ELSE "reap"]
  <1>1. IsProcess(m) /\ MemoryOK(m, Groups) /\ m.pc = "reset"
    BY ShellFacts DEF Reset
  <1>2. /\ v.kind = m.kind /\ v.parent = m.parent /\ v.job = m.job /\ v.pc \in {"top", "reap"}
        /\ v.n = m.n /\ v.next = m.next /\ v.fds = m.fds /\ v.eintr = m.eintr
    BY <1>1, FieldNames DEF IsProcess
  <1>3. Become(p, v) /\ script' = script /\ cut' = cut
    BY DEF Reset
  <1> HIDE DEF v
  <1>4. MemoryOK(v, Groups)
    <2>1. ~ m.eintr
      BY <1>1 DEF MemoryOK, Signals
    <2> QED BY <1>1, <1>2, <2>1, IdleOK DEF InPipe
  <1> QED BY <1>1, <1>2, <1>3, <1>4, BecomeInv DEF ProcessOK

LEMMA WaitPidReturns ==
    ASSUME Typed, NEW p \in Pids, proc[p].kind = "shell", NEW pid, NEW old, NEW w \in WaitPid(p, pid, old)
    PROVE  /\ w[1] # p
           /\ pid \in Pids /\ ChildOf(p, proc[pid]) => w[1] = pid \/ proc[p].eintr
  <1> DEFINE sought == IF pid \in Pids THEN Children(p) \cap {pid} ELSE Children(p)
  <1>1. \/ \E q \in sought : proc[q].kind = "zombie" /\ w = <<q, proc[q].exit>>
        \/ w = <<0, old>> /\ (sought = {} \/ proc[p].eintr)
    BY DEF WaitPid
  <1>2. w[1] # p
    BY <1>1, PidsNumbered
  <1>3. pid \in Pids /\ ChildOf(p, proc[pid]) => sought = {pid}
    BY DEF Children, ChildOf
  <1> QED BY <1>1, <1>2, <1>3

LEMMA ReapInv ==
    ASSUME ReadAsMeant, Inv, Typed', NEW p \in Pids, proc[p].kind = "shell", Reap(p)
    PROVE  Inv'
  <1> DEFINE m == proc[p]
             v == [m EXCEPT !.z = @ - 1, !.eintr = FALSE,
                            !.pc = IF m.z = 1 THEN "top" ELSE "reap"]
  <1>1. Typed /\ IsProcess(m) /\ MemoryOK(m, Groups) /\ m.pc = "reap"
    BY ShellFacts DEF Reap
  <1>2. /\ v.kind = m.kind /\ v.parent = m.parent /\ v.job = m.job /\ v.pc \in {"top", "reap"}
        /\ v.n = m.n /\ v.next = m.next /\ v.fds = m.fds /\ v.eintr = FALSE
    BY <1>1, FieldNames DEF IsProcess
  <1>3. PICK w \in WaitPid(p, 0, "ok") : Reaped(p, v, w[1])
    BY DEF Reap
  <1>4. script' = script /\ cut' = cut
    BY DEF Reap
  <1>5. w[1] # p
    BY <1>1, WaitPidReturns
  <1> HIDE DEF v
  <1>6. MemoryOK(v, Groups)
    BY <1>1, <1>2, IdleOK DEF InPipe
  <1>7. \A q \in Pids : ChildOf(p, proc[q]) => KeptAnyway(m, proc[q], Groups, cut)
    BY <1>1, KeptOutsideWait
  <1>8. v.kind = "shell" /\ ProcessOK(v, Groups)
    BY <1>2, <1>6 DEF ProcessOK
  <1> QED BY <1>2, <1>3, <1>4, <1>5, <1>7, <1>8, ReapedInv

LEMMA NextListInv ==
    ASSUME ReadAsMeant, Inv, Typed', NEW p \in Pids, proc[p].kind = "shell", NextList(p)
    PROVE  Inv'
  <1> DEFINE m == proc[p]
             next == [m EXCEPT !.i = @ + 1]
             child == [m EXCEPT !.stop_process = TRUE, !.job = <<m.n, m.i>>, !.pc = "run"]
             run == [m EXCEPT !.stop_process = FALSE, !.pc = "run"]
             reset == [m EXCEPT !.pc = "reset"]
             inside == m.i <= Len(m.group)
  <1>1. IsProcess(m) /\ MemoryOK(m, Groups) /\ m.pc = "list" /\ Shaped(m.group)
    BY ShellFacts DEF NextList
  <1>2. /\ m.n \in DOMAIN Groups /\ m.group = Groups[m.n] /\ m.i \in Nat /\ m.i >= 1 /\ ~ m.eintr
        /\ m.n \in Nat
    BY <1>1, FieldsTyped DEF MemoryOK, Placed, Signals
  <1>3. inside => m.i \in DOMAIN m.group
    BY <1>1, <1>2 DEF Shaped
  <1>4. script' = script /\ cut' = cut
    BY DEF NextList
  <1>5. CASE Become(p, reset)
    <2>1. /\ reset.kind = m.kind /\ reset.parent = m.parent /\ reset.job = m.job /\ reset.pc = "reset"
          /\ reset.n = m.n /\ reset.next = m.next /\ reset.fds = m.fds /\ reset.eintr = m.eintr
      BY <1>1, FieldNames DEF IsProcess
    <2> HIDE DEF reset
    <2>2. MemoryOK(reset, Groups)
      BY <1>1, <1>2, <2>1, IdleOK DEF InPipe
    <2> QED BY <1>1, <1>4, <1>5, <2>1, <2>2, BecomeInv DEF ProcessOK
  <1>6. CASE Become(p, EvalDone(m))
    <2> DEFINE v == EvalDone(m)
    <2>1. /\ v.kind = m.kind /\ v.parent = m.parent /\ v.job = m.job /\ v.pc = "reset"
          /\ v.n = m.n /\ v.next = m.next /\ v.fds = m.fds /\ v.eintr = m.eintr
      BY <1>1, FieldNames DEF IsProcess, EvalDone, list_group_free
    <2>2. Become(p, v)
      BY <1>6
    <2> HIDE DEF v
    <2>3. MemoryOK(v, Groups)
      BY <1>1, <1>2, <2>1, IdleOK DEF InPipe
    <2> QED BY <1>1, <1>4, <2>1, <2>2, <2>3, BecomeInv DEF ProcessOK
  <1>7. CASE inside /\ Become(p, run)
    <2>1. /\ run.kind = m.kind /\ run.parent = m.parent /\ run.job = m.job /\ run.pc = "run"
          /\ run.n = m.n /\ run.next = m.next /\ run.fds = m.fds /\ run.eintr = m.eintr
          /\ run.group = m.group /\ run.i = m.i
      BY <1>1, FieldNames DEF IsProcess
    <2> HIDE DEF run
    <2>2. MemoryOK(run, Groups)
      BY <1>1, <1>3, <1>7, <2>1, AtListOK
    <2> QED BY <1>1, <1>4, <1>7, <2>1, <2>2, BecomeInv DEF ProcessOK
  <1>8. CASE inside /\ CurList(m).background /\ Fork(p, next, child)
    <2>1. /\ next.kind = m.kind /\ next.parent = m.parent /\ next.job = m.job /\ next.pc = "list"
          /\ next.n = m.n /\ next.next = m.next /\ next.fds = m.fds /\ next.eintr = m.eintr
          /\ next.group = m.group /\ next.i = m.i + 1
      BY <1>1, FieldNames DEF IsProcess
    <2>2. ASSUME NEW q
          PROVE  LET v == [next EXCEPT !.pid = q]
                 IN  /\ v.kind = m.kind /\ v.parent = m.parent /\ v.job = m.job /\ v.pc = "list"
                     /\ v.n = m.n /\ v.next = m.next /\ v.fds = m.fds /\ v.eintr = m.eintr
                     /\ v.group = m.group /\ v.i = m.i + 1
      BY <1>1, FieldNames DEF IsProcess
    <2>3. LET v == [child EXCEPT !.parent = p]
          IN  /\ v.kind = m.kind /\ v.job = <<m.n, m.i>> /\ v.pc = "run"
              /\ v.n = m.n /\ v.next = m.next /\ v.fds = m.fds /\ v.eintr = m.eintr
              /\ v.group = m.group /\ v.i = m.i
      BY <1>1, FieldNames DEF IsProcess
    <2>4. child.kind = m.kind /\ child.job = <<m.n, m.i>>
      BY <1>1, FieldNames DEF IsProcess
    <2>5. IsProcess(next)
      BY <1>1, <1>2, FieldNames, FieldTypes, Values DEF IsProcess
    <2>6. IsProcess(child)
      BY <1>1, <1>2, FieldNames, FieldTypes, Values DEF IsProcess
    <2> HIDE DEF next, child
    <2>7. MemoryOK(next, Groups)
      BY <1>1, <2>1, AtListOK
    <2>8. \A q \in Pids : ProcessOK([next EXCEPT !.pid = q], Groups)
      <3> SUFFICES ASSUME NEW q \in Pids PROVE ProcessOK([next EXCEPT !.pid = q], Groups)
        OBVIOUS
      <3> DEFINE v == [next EXCEPT !.pid = q]
      <3>1. /\ v.kind = m.kind /\ v.job = m.job /\ v.pc = "list"
            /\ v.n = m.n /\ v.next = m.next /\ v.fds = m.fds /\ v.eintr = m.eintr
            /\ v.group = m.group /\ v.i = m.i + 1
        BY <2>2
      <3> HIDE DEF v
      <3>2. MemoryOK(v, Groups)
        BY <1>1, <3>1, AtListOK
      <3> QED BY <3>1, <3>2 DEF ProcessOK, v
    <2>9. ProcessOK([child EXCEPT !.parent = p], Groups)
      <3> DEFINE v == [child EXCEPT !.parent = p]
      <3>1. /\ v.kind = m.kind /\ v.job = <<m.n, m.i>> /\ v.pc = "run"
            /\ v.n = m.n /\ v.next = m.next /\ v.fds = m.fds /\ v.eintr = m.eintr
            /\ v.group = m.group /\ v.i = m.i
        BY <2>3
      <3> HIDE DEF v
      <3>2. MemoryOK(v, Groups)
        BY <1>1, <1>3, <1>8, <3>1, AtListOK
      <3> QED BY <3>1, <3>2 DEF ProcessOK, v
    <2>10. KeptAnyway(next, child, Groups, cut)
      <3>1. Groups[m.n][m.i].background
        BY <1>2, <1>8 DEF CurList
      <3>2. m.job # <<m.n, m.i>>
        <4>1. m.job # <<>> => (m.job[1] = m.n => m.job[2] < m.i)
          BY <1>1 DEF MemoryOK, BehindJob
        <4>2. m.job = <<m.n, m.i>> => m.job # <<>> /\ m.job[1] = m.n /\ m.job[2] = m.i
          OBVIOUS
        <4> QED BY <1>2, <4>1, <4>2
      <3>3. child.job[1] = m.n /\ child.job[2] = m.i
        BY <2>4
      <3> QED BY <2>1, <2>4, <3>1, <3>2, <3>3 DEF KeptAnyway
    <2>11. ProcessOK(next, Groups)
      BY <2>1, <2>7 DEF ProcessOK
    <2> QED BY <1>1, <1>4, <1>8, <2>1, <2>4, <2>5, <2>6, <2>8, <2>9, <2>10, <2>11, ForkInv
  <1>9. \/ Become(p, reset)
        \/ Become(p, EvalDone(m))
        \/ inside /\ Become(p, run)
        \/ inside /\ CurList(m).background /\ Fork(p, next, child)
    <2> HIDE DEF m
    <2> QED BY DEF NextList, m
  <1> QED BY <1>5, <1>6, <1>7, <1>8, <1>9

LEMMA RunListInv ==
    ASSUME ReadAsMeant, Inv, Typed', NEW p \in Pids, proc[p].kind = "shell", RunList(p)
    PROVE  Inv'
  <1> DEFINE m == proc[p]
             v == [m EXCEPT !.cmd_running = TRUE, !.j = 1, !.k = 1, !.pid = -1,
                            !.status = "ok", !.prev = 0, !.pc = "stage"]
  <1>1. IsProcess(m) /\ MemoryOK(m, Groups) /\ m.pc = "run" /\ Shaped(m.group)
    BY ShellFacts DEF RunList, AtWork
  <1>2. /\ v.kind = m.kind /\ v.parent = m.parent /\ v.job = m.job /\ v.pc = "stage"
        /\ v.n = m.n /\ v.next = m.next /\ v.fds = m.fds /\ v.eintr = m.eintr
        /\ v.group = m.group /\ v.i = m.i /\ v.j = 1 /\ v.k = 1 /\ v.prev = 0 /\ v.cmd_running = TRUE
    BY <1>1, FieldNames DEF IsProcess
  <1>3. Become(p, v) /\ script' = script /\ cut' = cut
    BY DEF RunList
  <1> HIDE DEF v
  <1>4. MemoryOK(v, Groups)
    BY <1>1, <1>2, RunOK
  <1> QED BY <1>1, <1>2, <1>3, <1>4, BecomeInv DEF ProcessOK

\* A pipe that nobody holds is none of its own.
LEMMA NewPipe ==
    ASSUME NEW p \in Pids, proc[p].kind = "shell", NEW pipe \in NewPipes(proc[p])
    PROVE  /\ pipe \in Ends
           /\ pipe # 0 => pipe \in Pipes /\ PipesOut(proc[p]) /\ <<pipe, "r">> \notin proc[p].fds
  <1>1. /\ pipe \in Ends
        /\ pipe # 0 => pipe \in Pipes /\ PipesOut(proc[p]) /\ Readers(pipe) = {}
    BY NewPipesType
  <1>2. <<pipe, "r">> \in proc[p].fds => p \in Readers(pipe)
    BY DEF Readers
  <1> QED BY <1>1, <1>2

\* What is told of the pipe, and all that is left as it is.
LEMMA WithPipesFields ==
    ASSUME NEW m, IsProcess(m), NEW pipe
    PROVE  LET w == WithPipes(m, pipe)
           IN  /\ w.kind = m.kind /\ w.parent = m.parent /\ w.job = m.job /\ SamePlace(w, m)
               /\ w.pc = "wait" /\ w.eintr = m.eintr /\ w.cmd_running = m.cmd_running
               /\ w.interrupted = m.interrupted /\ w.prev = m.prev /\ w.pid = m.pid
               /\ w.stdin = m.stdin /\ w.stdout = m.stdout
               /\ w.fds = m.fds \cup ReadEnd(pipe) \cup WriteEnd(pipe) /\ w.fd_out = pipe
               /\ w.fd_in = IF PipesIn(m) THEN m.prev ELSE 0
  BY FieldNames DEF IsProcess, WithPipes, SamePlace

LEMMA StartNothingInv ==
    ASSUME ReadAsMeant, Inv, Typed', NEW p \in Pids, proc[p].kind = "shell", StartNothing(p)
    PROVE  Inv'
  <1> DEFINE m == proc[p]
  <1>1. IsProcess(m) /\ MemoryOK(m, Groups) /\ m.pc = "stage" /\ Shaped(m.group) /\ DOMAIN Groups = 1 .. Len(Groups)
    BY ShellFacts DEF StartNothing, AtWork
  <1>2. PICK pipe \in NewPipes(m) : Become(p, WithPipes(m, pipe))
    BY DEF StartNothing
  <1>3. script' = script /\ cut' = cut
    BY DEF StartNothing
  <1>4. pipe # 0 => pipe \in Pipes /\ PipesOut(m) /\ <<pipe, "r">> \notin m.fds
    BY NewPipe
  <1> DEFINE w == WithPipes(m, pipe)
  <1>5. /\ w.kind = m.kind /\ w.parent = m.parent /\ w.job = m.job /\ SamePlace(w, m)
        /\ w.pc = "wait" /\ w.eintr = m.eintr /\ w.cmd_running = m.cmd_running
        /\ w.fds = m.fds \cup ReadEnd(pipe) \cup WriteEnd(pipe) /\ w.fd_out = pipe
        /\ w.fd_in = IF PipesIn(m) THEN m.prev ELSE 0
    BY <1>1, WithPipesFields
  <1>6. Become(p, w)
    BY <1>2
  <1> HIDE DEF w
  <1>7. MemoryOK(w, Groups)
    BY <1>1, <1>4, <1>5, StageOK
  <1> QED BY <1>1, <1>3, <1>5, <1>6, <1>7, BecomeInv DEF ProcessOK

LEMMA StartCdInv ==
    ASSUME ReadAsMeant, Inv, Typed', NEW p \in Pids, proc[p].kind = "shell", StartCd(p)
    PROVE  Inv'
  <1> DEFINE m == proc[p]
             c == CurCommand(m)
             results == IF Len(c.argv) = 1 THEN {"failed"} ELSE {"ok", "failed"}
             cd(w, s) == [w EXCEPT !.cstatus = s, !.pid = p,
                                   !.stdin = IF c.rd_in = <<>> THEN @ ELSE 0]
  <1>1. IsProcess(m) /\ MemoryOK(m, Groups) /\ m.pc = "stage" /\ Shaped(m.group) /\ DOMAIN Groups = 1 .. Len(Groups)
    BY ShellFacts DEF StartCd, AtWork
  <1>2. PICK pipe \in NewPipes(m), s \in results :
          Become(p, Ended(m, s)) \/ Become(p, cd(WithPipes(m, pipe), s))
    BY DEF StartCd
  <1>3. script' = script /\ cut' = cut
    BY DEF StartCd
  <1>4. pipe \in Ends /\ s \in Statuses /\ (pipe # 0 => pipe \in Pipes /\ PipesOut(m) /\ <<pipe, "r">> \notin m.fds)
    BY NewPipe, Values
  <1>5. CASE Become(p, Ended(m, s))
    BY <1>3, <1>4, <1>5, EndedInv
  <1>6. CASE Become(p, cd(WithPipes(m, pipe), s))
    <2> DEFINE w == WithPipes(m, pipe)
    <2>1. IsProcess(w)
      BY <1>1, <1>4, WithPipesType
    <2>2. /\ w.kind = m.kind /\ w.parent = m.parent /\ w.job = m.job /\ SamePlace(w, m)
          /\ w.pc = "wait" /\ w.eintr = m.eintr /\ w.cmd_running = m.cmd_running
          /\ w.fds = m.fds \cup ReadEnd(pipe) \cup WriteEnd(pipe) /\ w.fd_out = pipe
          /\ w.fd_in = IF PipesIn(m) THEN m.prev ELSE 0
      BY <1>1, WithPipesFields
    <2> HIDE DEF w
    <2> DEFINE v == cd(w, s)
    <2>3. /\ v.kind = m.kind /\ v.parent = m.parent /\ v.job = m.job /\ SamePlace(v, m)
          /\ v.pc = "wait" /\ v.eintr = m.eintr /\ v.cmd_running = m.cmd_running
          /\ v.fds = m.fds \cup ReadEnd(pipe) \cup WriteEnd(pipe) /\ v.fd_out = pipe
          /\ v.fd_in = IF PipesIn(m) THEN m.prev ELSE 0
      BY <2>1, <2>2, FieldNames DEF IsProcess, SamePlace
    <2>4. Become(p, v)
      BY <1>6 DEF w
    <2> HIDE DEF v
    <2>5. MemoryOK(v, Groups)
      BY <1>1, <1>4, <2>3, StageOK
    <2> QED BY <1>1, <1>3, <2>3, <2>4, <2>5, BecomeInv DEF ProcessOK
  <1> QED BY <1>2, <1>5, <1>6

LEMMA StartChildInv ==
    ASSUME ReadAsMeant, Inv, Typed', NEW p \in Pids, proc[p].kind = "shell", StartChild(p)
    PROVE  Inv'
  <1> DEFINE m == proc[p]
             child(w) == [w EXCEPT !.pid = 0, !.job = <<m.n, m.i>>, !.pc = "exec"]
  <1>1. IsProcess(m) /\ MemoryOK(m, Groups) /\ m.pc = "stage" /\ Shaped(m.group) /\ DOMAIN Groups = 1 .. Len(Groups)
    BY ShellFacts DEF StartChild, AtWork
  <1>2. PICK pipe \in NewPipes(m) : Fork(p, WithPipes(m, pipe), child(WithPipes(m, pipe)))
    BY DEF StartChild
  <1>3. script' = script /\ cut' = cut
    BY DEF StartChild
  <1>4. pipe \in Ends /\ (pipe # 0 => pipe \in Pipes /\ PipesOut(m) /\ <<pipe, "r">> \notin m.fds)
    BY NewPipe
  <1> DEFINE w == WithPipes(m, pipe)
             c == child(w)
  <1>5. IsProcess(w)
    BY <1>1, <1>4, WithPipesType
  <1>6. /\ w.kind = m.kind /\ w.parent = m.parent /\ w.job = m.job /\ SamePlace(w, m)
        /\ w.pc = "wait" /\ w.eintr = m.eintr /\ w.cmd_running = m.cmd_running
        /\ w.fds = m.fds \cup ReadEnd(pipe) \cup WriteEnd(pipe) /\ w.fd_out = pipe
        /\ w.fd_in = IF PipesIn(m) THEN m.prev ELSE 0
    BY <1>1, WithPipesFields
  <1>7. Fork(p, w, c)
    BY <1>2
  <1> HIDE DEF w
  <1>8. <<m.n, m.i>> \in Jobs
    BY <1>1, FieldsTyped, Values
  <1>9. IsProcess(c) /\ c.kind = m.kind /\ c.job = <<m.n, m.i>>
    BY <1>5, <1>6, <1>8, FieldNames, FieldTypes, Values DEF IsProcess
  <1>10. ProcessOK(w, Groups)
    <2>1. MemoryOK(w, Groups)
      BY <1>1, <1>4, <1>6, StageOK
    <2> QED BY <1>6, <2>1 DEF ProcessOK
  <1>11. ASSUME NEW q \in Pids
         PROVE  ProcessOK([w EXCEPT !.pid = q], Groups)
    <2> DEFINE v == [w EXCEPT !.pid = q]
    <2>1. /\ v.kind = m.kind /\ v.job = m.job /\ SamePlace(v, m)
          /\ v.pc = "wait" /\ v.eintr = m.eintr /\ v.cmd_running = m.cmd_running
          /\ v.fds = m.fds \cup ReadEnd(pipe) \cup WriteEnd(pipe) /\ v.fd_out = pipe
          /\ v.fd_in = IF PipesIn(m) THEN m.prev ELSE 0
      BY <1>5, <1>6, FieldNames DEF IsProcess, SamePlace
    <2> HIDE DEF v
    <2>2. MemoryOK(v, Groups)
      BY <1>1, <1>4, <2>1, StageOK
    <2>3. ProcessOK(v, Groups)
      BY <2>1, <2>2 DEF ProcessOK
    <2> QED BY <2>3 DEF v
  <1>12. ProcessOK([c EXCEPT !.parent = p], Groups)
    <2> DEFINE v == [c EXCEPT !.parent = p]
    <2>1. /\ v.kind = m.kind /\ v.job = <<m.n, m.i>> /\ SamePlace(v, m)
          /\ v.pc = "exec" /\ v.eintr = m.eintr /\ v.cmd_running = m.cmd_running
          /\ v.fds = m.fds \cup ReadEnd(pipe) \cup WriteEnd(pipe) /\ v.fd_out = pipe
          /\ v.fd_in = IF PipesIn(m) THEN m.prev ELSE 0
      BY <1>5, <1>6, FieldNames DEF IsProcess, SamePlace
    <2> HIDE DEF v
    <2>2. MemoryOK(v, Groups)
      BY <1>1, <1>4, <2>1, StageOK
    <2>3. ProcessOK(v, Groups)
      BY <2>1, <2>2 DEF ProcessOK
    <2> QED BY <2>3 DEF v
  <1>13. w.pc = "wait" /\ ~ w.eintr /\ c.job = <<w.n, w.i>>
    <2>1. ~ m.eintr
      BY <1>1 DEF MemoryOK, Signals
    <2> QED BY <1>6, <1>9, <2>1 DEF SamePlace
  <1> HIDE DEF c
  <1> QED BY <1>1, <1>3, <1>5, <1>6, <1>7, <1>9, <1>10, <1>11, <1>12, <1>13, ForkInv

LEMMA PlumbedFields ==
    ASSUME NEW m, IsProcess(m)
    PROVE  LET w == Plumbed(m)
               c == CurCommand(m)
           IN  /\ w.kind = m.kind /\ w.parent = m.parent /\ w.job = m.job /\ SamePlace(w, m)
               /\ w.pc = m.pc /\ w.eintr = m.eintr /\ w.cmd_running = m.cmd_running
               /\ w.interrupted = m.interrupted /\ w.pid = m.pid
               /\ w.fd_in = m.fd_in /\ w.fd_out = m.fd_out
               /\ w.fds = m.fds \ (ReadEnd(m.fd_in) \cup WriteEnd(m.fd_out))
               /\ w.stdin = IF c.rd_in # <<>> THEN 0 ELSE IF m.fd_in # 0 THEN m.fd_in ELSE m.stdin
               /\ w.stdout = IF c.rd_out # <<>> THEN 0 ELSE IF m.fd_out # 0 THEN m.fd_out ELSE m.stdout
  BY FieldNames DEF IsProcess, Plumbed, SamePlace

LEMMA ExecInv ==
    ASSUME ReadAsMeant, Inv, Typed', NEW p \in Pids, proc[p].kind = "shell", Exec(p)
    PROVE  Inv'
  <1> DEFINE m == proc[p]
             w == Plumbed(m)
             second == [w EXCEPT !.pc = "wait"]
             command == [w EXCEPT !.kind = "command", !.pc = "top", !.z = 0, !.fd_in = 0,
                                  !.fd_out = 0, !.cmd_running = FALSE,
                                  !.interrupted = FALSE, !.clear_cmd = FALSE]
  <1>1. IsProcess(m) /\ MemoryOK(m, Groups) /\ m.pc = "exec"
    BY ShellFacts DEF Exec
  <1>2. script' = script /\ cut' = cut
    BY DEF Exec
  <1>3. \/ Become(p, Ended(m, "failed")) \/ Become(p, Ended(m, "killed"))
        \/ Become(p, second) \/ Become(p, command)
    BY DEF Exec
  <1>4. /\ IsProcess(w) /\ w.kind = m.kind /\ w.parent = m.parent /\ w.job = m.job /\ SamePlace(w, m)
        /\ w.eintr = m.eintr /\ w.cmd_running = m.cmd_running
        /\ w.fd_in = m.fd_in /\ w.fd_out = m.fd_out
        /\ w.fds = m.fds \ (ReadEnd(m.fd_in) \cup WriteEnd(m.fd_out))
    BY <1>1, PlumbedType, PlumbedFields
  <1> HIDE DEF w
  <1>5. /\ second.kind = m.kind /\ second.parent = m.parent /\ second.job = m.job /\ SamePlace(second, m)
        /\ second.pc = "wait" /\ second.eintr = m.eintr /\ second.cmd_running = m.cmd_running
        /\ second.fd_in = m.fd_in /\ second.fd_out = m.fd_out
        /\ second.fds = m.fds \ (ReadEnd(m.fd_in) \cup WriteEnd(m.fd_out))
    BY <1>4, FieldNames DEF IsProcess, SamePlace
  <1>6. /\ command.kind = "command" /\ command.parent = m.parent /\ command.job = m.job
        /\ command.fds = m.fds \ (ReadEnd(m.fd_in) \cup WriteEnd(m.fd_out))
    BY <1>4, FieldNames DEF IsProcess
  <1> HIDE DEF second, command
  <1>7. CASE Become(p, Ended(m, "failed")) \/ Become(p, Ended(m, "killed"))
    BY <1>2, <1>7, EndedInv, Values
  <1>8. CASE Become(p, second)
    <2>1. MemoryOK(second, Groups)
      BY <1>1, <1>5, SecondOK
    <2> QED BY <1>1, <1>2, <1>5, <1>8, <2>1, BecomeInv DEF ProcessOK
  <1>9. CASE Become(p, command)
    <2>1. ASSUME NEW x \in Pipes
          PROVE  <<x, "w">> \notin command.fds
      <3>1. <<x, "w">> \in m.fds => x = m.fd_out
        BY <1>1 DEF MemoryOK, WritesOut
      <3>2. <<x, "w">> \in WriteEnd(x)
        BY PidsNumbered DEF WriteEnd
      <3> QED BY <1>6, <3>1, <3>2
    <2> QED BY <1>2, <1>6, <1>9, <2>1, BecomeInv DEF ProcessOK
  <1> QED BY <1>3, <1>7, <1>8, <1>9

\* What is left of a shell that has waited for a stage.
LEMMA WaitedFields ==
    ASSUME NEW m, IsProcess(m), NEW s \in Statuses
    PROVE  LET c == Closed(m)
               v == Forgotten(Advance(c, s))
           IN  /\ v.kind = m.kind /\ v.parent = m.parent /\ v.job = m.job /\ v.n = m.n /\ v.next = m.next
               /\ v.eintr = FALSE /\ v.interrupted = m.interrupted
               /\ v.cmd_running = m.cmd_running \/ v.pc = "reset"
               /\ v.stdin = m.stdin /\ v.stdout = m.stdout
               /\ v.fds = m.fds \ (ReadEnd(m.fd_in) \cup WriteEnd(m.fd_out))
               /\ \/ /\ v.pc = "stage" /\ v.group = m.group /\ v.i = m.i /\ v.j = m.j
                     /\ m.k < Len(CurCond(m).cond_argv) /\ v.k = m.k + 1 /\ v.prev = m.fd_out
                  \/ /\ v.pc = "stage" /\ v.group = m.group /\ v.i = m.i /\ v.k = 1 /\ v.prev = 0
                     /\ m.k = Len(CurCond(m).cond_argv)
                     /\ v.j \in Nat /\ v.j > m.j /\ v.j <= Len(CurList(m).cargv)
                  \/ /\ v.pc = "list" /\ v.group = m.group /\ v.i = m.i + 1
                     /\ ~ (m.k < Len(CurCond(m).cond_argv))
                  \/ v.pc = "reset" /\ ~ (m.k < Len(CurCond(m).cond_argv))
  <1> DEFINE c == Closed(m)
             j == c.j + Skip(CurCond(c), s)
             a == Advance(c, s)
             v == Forgotten(a)
  <1>1. IsProcess(c) /\ IsProcess(a)
    BY ClosedType, AdvanceType
  <1>2. /\ c.kind = m.kind /\ c.parent = m.parent /\ c.job = m.job /\ SamePlace(c, m)
        /\ c.interrupted = m.interrupted /\ c.cmd_running = m.cmd_running
        /\ c.stdin = m.stdin /\ c.stdout = m.stdout /\ c.fd_out = m.fd_out
        /\ c.fds = m.fds \ (ReadEnd(m.fd_in) \cup WriteEnd(m.fd_out))
    BY FieldNames DEF IsProcess, Closed, SamePlace
  <1>3. CurCond(c) = CurCond(m) /\ CurList(c) = CurList(m)
    BY <1>2, SameCommand
  <1>4. /\ v.kind = a.kind /\ v.parent = a.parent /\ v.job = a.job /\ v.n = a.n /\ v.next = a.next
        /\ v.eintr = FALSE /\ v.interrupted = a.interrupted /\ v.cmd_running = a.cmd_running
        /\ v.stdin = a.stdin /\ v.stdout = a.stdout /\ v.fds = a.fds /\ v.pc = a.pc
        /\ v.group = a.group /\ v.i = a.i /\ v.j = a.j /\ v.k = a.k /\ v.prev = a.prev
    <2> HIDE DEF a
    <2> QED BY <1>1, FieldNames DEF IsProcess, Forgotten
  <1>5. \/ m.k < Len(CurCond(m).cond_argv) /\ a = NextStage(c, s)
        \/ m.k = Len(CurCond(m).cond_argv) /\ j <= Len(CurList(m).cargv) /\ a = NextCond(c, j)
        \/ ~(m.k < Len(CurCond(m).cond_argv)) /\ (a = EvalDone(c) \/ a = ListDone(c))
    <2>1. c.k = m.k
      BY <1>2 DEF SamePlace
    <2> HIDE DEF c
    <2> QED BY <1>1, <1>3, <2>1, AdvanceCases
  <1>6. j \in Nat /\ j > m.j
    BY <1>2, FieldsTyped DEF Skip, SamePlace
  <1> HIDE DEF c, j, v
  <1> DEFINE Alike(x) ==
               /\ x.kind = c.kind /\ x.parent = c.parent /\ x.job = c.job /\ x.n = c.n /\ x.next = c.next
               /\ x.interrupted = c.interrupted
               /\ x.stdin = c.stdin /\ x.stdout = c.stdout /\ x.fds = c.fds
  <1>7. LET x == NextStage(c, s)
        IN  /\ Alike(x) /\ x.cmd_running = c.cmd_running /\ x.pc = "stage" /\ x.group = c.group
            /\ x.i = c.i /\ x.j = c.j /\ x.k = c.k + 1 /\ x.prev = c.fd_out
    BY <1>1, FieldNames DEF IsProcess, NextStage
  <1>8. LET x == NextCond(c, j)
        IN  /\ Alike(x) /\ x.cmd_running = c.cmd_running /\ x.pc = "stage" /\ x.group = c.group
            /\ x.i = c.i /\ x.j = j /\ x.k = 1 /\ x.prev = 0
    BY <1>1, FieldNames DEF IsProcess, NextCond
  <1>9. LET x == ListDone(c)
        IN  /\ Alike(x) /\ x.cmd_running = c.cmd_running /\ x.pc = "list" /\ x.group = c.group
            /\ x.i = c.i + 1
    BY <1>1, FieldNames DEF IsProcess, ListDone
  <1>10. LET x == EvalDone(c) IN Alike(x) /\ x.pc = "reset"
    BY <1>1, FieldNames DEF IsProcess, EvalDone, list_group_free
  <1> HIDE DEF a
  <1>11. Alike(v)
    <2>1. Alike(a)
      <3> HIDE DEF Alike
      <3> QED BY <1>5, <1>7, <1>8, <1>9, <1>10
    <2> QED BY <1>4, <2>1
  <1>12. \/ /\ v.pc = "stage" /\ v.group = m.group /\ v.i = m.i /\ v.j = m.j /\ v.cmd_running = m.cmd_running
            /\ m.k < Len(CurCond(m).cond_argv) /\ v.k = m.k + 1 /\ v.prev = m.fd_out
         \/ /\ v.pc = "stage" /\ v.group = m.group /\ v.i = m.i /\ v.k = 1 /\ v.prev = 0
            /\ m.k = Len(CurCond(m).cond_argv) /\ v.cmd_running = m.cmd_running
            /\ v.j \in Nat /\ v.j > m.j /\ v.j <= Len(CurList(m).cargv)
         \/ /\ v.pc = "list" /\ v.group = m.group /\ v.i = m.i + 1 /\ v.cmd_running = m.cmd_running
            /\ ~ (m.k < Len(CurCond(m).cond_argv))
         \/ v.pc = "reset" /\ ~ (m.k < Len(CurCond(m).cond_argv))
    <2> HIDE DEF Alike
    <2>1. SamePlace(c, m) /\ c.cmd_running = m.cmd_running /\ c.fd_out = m.fd_out
      BY <1>2
    <2>2. CASE m.k < Len(CurCond(m).cond_argv) /\ a = NextStage(c, s)
      BY <1>4, <1>7, <2>1, <2>2 DEF SamePlace
    <2>3. CASE m.k = Len(CurCond(m).cond_argv) /\ j <= Len(CurList(m).cargv) /\ a = NextCond(c, j)
      BY <1>4, <1>6, <1>8, <2>1, <2>3 DEF SamePlace
    <2>4. CASE ~(m.k < Len(CurCond(m).cond_argv)) /\ a = EvalDone(c)
      BY <1>4, <1>10, <2>4
    <2>5. CASE ~(m.k < Len(CurCond(m).cond_argv)) /\ a = ListDone(c)
      BY <1>4, <1>9, <2>1, <2>5 DEF SamePlace
    <2> QED BY <1>5, <2>2, <2>3, <2>4, <2>5
  <1>13. /\ v.kind = m.kind /\ v.parent = m.parent /\ v.job = m.job /\ v.n = m.n /\ v.next = m.next
         /\ v.interrupted = m.interrupted /\ v.stdin = m.stdin /\ v.stdout = m.stdout
         /\ v.fds = m.fds \ (ReadEnd(m.fd_in) \cup WriteEnd(m.fd_out))
    BY <1>2, <1>11 DEF SamePlace
  <1>14. v.eintr = FALSE /\ (v.cmd_running = m.cmd_running \/ v.pc = "reset")
    BY <1>4, <1>12
  <1> QED BY <1>12, <1>13, <1>14 DEF v, a, c

LEMMA WaitStageInv ==
    ASSUME ReadAsMeant, Inv, Typed', NEW p \in Pids, proc[p].kind = "shell", WaitStage(p)
    PROVE  Inv'
  <1> DEFINE m == proc[p]
  <1>1. Typed /\ IsProcess(m) /\ MemoryOK(m, Groups) /\ m.pc = "wait" /\ Shaped(m.group)
    BY ShellFacts DEF WaitStage, AtWork
  <1>2. PICK w : \E s \in Statuses :
          /\ IF m.pid = 0 THEN w = <<0, m.cstatus>> ELSE w \in WaitPid(p, m.pid, m.cstatus)
          /\ Reaped(p, Forgotten(Advance(Closed(m), s)), w[1])
    BY <1>1, WaitStageEffect
  <1>3. PICK s \in Statuses : Reaped(p, Forgotten(Advance(Closed(m), s)), w[1])
    BY <1>2
  <1>4. IF m.pid = 0 THEN w = <<0, m.cstatus>> ELSE w \in WaitPid(p, m.pid, m.cstatus)
    BY <1>2
  <1>5. script' = script /\ cut' = cut
    BY DEF WaitStage
  <1> DEFINE v == Forgotten(Advance(Closed(m), s))
  <1>6. /\ v.kind = m.kind /\ v.parent = m.parent /\ v.job = m.job /\ v.n = m.n /\ v.next = m.next
        /\ v.eintr = FALSE /\ (v.cmd_running = m.cmd_running \/ v.pc = "reset")
        /\ v.fds = m.fds \ (ReadEnd(m.fd_in) \cup WriteEnd(m.fd_out))
        /\ \/ /\ v.pc = "stage" /\ v.group = m.group /\ v.i = m.i /\ v.j = m.j
              /\ m.k < Len(CurCond(m).cond_argv) /\ v.k = m.k + 1 /\ v.prev = m.fd_out
           \/ /\ v.pc = "stage" /\ v.group = m.group /\ v.i = m.i /\ v.k = 1 /\ v.prev = 0
              /\ m.k = Len(CurCond(m).cond_argv)
              /\ v.j \in Nat /\ v.j > m.j /\ v.j <= Len(CurList(m).cargv)
           \/ /\ v.pc = "list" /\ v.group = m.group /\ v.i = m.i + 1
              /\ ~ (m.k < Len(CurCond(m).cond_argv))
           \/ v.pc = "reset" /\ ~ (m.k < Len(CurCond(m).cond_argv))
    BY <1>1, WaitedFields
  <1>7. Reaped(p, v, w[1])
    BY <1>3
  <1> HIDE DEF v
  <1>8. MemoryOK(v, Groups)
    BY <1>1, <1>6, WaitedOK
  <1>9. w[1] # p
    BY <1>1, <1>4, WaitPidReturns, PidsNumbered
  <1>10. ASSUME NEW q \in Pids, q # w[1], ChildOf(p, proc[q])
         PROVE  KeptAnyway(m, proc[q], Groups, cut)
    <2>1. Kept(m, q, proc[q], Groups, cut)
      BY <1>10 DEF Inv, ProcsOK, ChildrenKept
    <2>2. ~ (m.pid = q /\ ~ m.eintr)
      <3> SUFFICES ASSUME m.pid = q, ~ m.eintr PROVE FALSE
        OBVIOUS
      <3>1. m.pid # 0 /\ m.pid \in Pids
        BY PidsNumbered
      <3>2. w \in WaitPid(p, m.pid, m.cstatus)
        BY <1>4, <3>1
      <3> QED BY <1>1, <1>10, <3>1, <3>2, WaitPidReturns
    <2> QED BY <2>1, <2>2 DEF Kept, KeptAnyway
  <1>11. v.kind = "shell" /\ ProcessOK(v, Groups)
    BY <1>6, <1>8 DEF ProcessOK
  <1> QED BY <1>5, <1>6, <1>7, <1>9, <1>10, <1>11, ReapedInv

LEMMA FinishInv ==
    ASSUME Inv, Typed', NEW p \in Pids, Finish(p)
    PROVE  Inv'
  <1>1. PICK s \in {"ok", "failed", "killed"} : Become(p, Ended(proc[p], s))
    BY DEF Finish, Endings
  <1>2. proc[p].kind \in {"shell", "command"} /\ script' = script /\ cut' = cut
    BY DEF Finish
  <1>3. s \in Statuses
    BY Values
  <1> QED BY <1>1, <1>2, <1>3, EndedInv

LEMMA HandledFields ==
    ASSUME NEW m, IsProcess(m)
    PROVE  LET h == Handled(m)
           IN  /\ h.kind = m.kind /\ h.parent = m.parent /\ h.job = m.job /\ SamePlace(h, m)
               /\ h.pc = m.pc /\ h.cmd_running = m.cmd_running /\ h.pid = m.pid
               /\ h.prev = m.prev /\ h.fd_in = m.fd_in /\ h.fd_out = m.fd_out /\ h.fds = m.fds
               /\ h.stdin = m.stdin /\ h.stdout = m.stdout
               /\ h.interrupted = (m.interrupted \/ m.cmd_running)
               /\ h.eintr = (m.pc \in {"wait", "reap"})
  BY FieldNames DEF IsProcess, Handled, SamePlace

LEMMA HandledOK ==
    ASSUME NEW m, IsProcess(m), NEW lines, MemoryOK(m, lines)
    PROVE  MemoryOK(Handled(m), lines)
  <1> DEFINE h == Handled(m)
  <1>1. /\ h.job = m.job /\ SamePlace(h, m) /\ h.pc = m.pc /\ h.cmd_running = m.cmd_running
        /\ h.prev = m.prev /\ h.fd_in = m.fd_in /\ h.fd_out = m.fd_out /\ h.fds = m.fds
        /\ h.interrupted = (m.interrupted \/ m.cmd_running)
        /\ h.eintr = (m.pc \in {"wait", "reap"})
    BY HandledFields
  <1> HIDE DEF h
  <1>2. CurList(h) = CurList(m) /\ CurCond(h) = CurCond(m) /\ CurCommand(h) = CurCommand(m) /\ PipesOut(h) = PipesOut(m)
    BY <1>1, SameCommand
  <1>3. Placed(h, lines)
    BY <1>1, <1>2 DEF MemoryOK, Placed, SamePlace
  <1>4. Signals(h)
    BY <1>1 DEF MemoryOK, Signals, InPipe
  <1>5. WritesOut(h)
    BY <1>1 DEF MemoryOK, WritesOut
  <1>6. Joints(h)
    BY <1>1, <1>2 DEF MemoryOK, Joints, SamePlace
  <1>7. NoOthers(h, lines)
    BY <1>1 DEF MemoryOK, NoOthers, SamePlace
  <1>8. BehindJob(h)
    BY <1>1 DEF MemoryOK, BehindJob, SamePlace
  <1> QED BY <1>3, <1>4, <1>5, <1>6, <1>7, <1>8 DEF MemoryOK, h

LEMMA InterruptInv ==
    ASSUME ReadAsMeant, Inv, Typed', Interrupt
    PROVE  Inv'
  <1> DEFINE f == proc
             h == proc'
             lists == cut'
  <1>1. Typed /\ ProcsOK(f, Groups, cut) /\ \A p \in Pids : IsProcess(f[p])
    BY DEF Inv, Typed
  <1>2. script' = script /\ lists = cut \cup UNION {GivenUp(f[p]) : p \in Pids}
    BY DEF Interrupt
  <1>3. \A p \in Pids : h[p] = IF f[p].kind = "command" THEN Ended(f[p], "killed")
                               ELSE IF f[p].kind = "shell" THEN Handled(f[p]) ELSE f[p]
    BY DEF Interrupt, Foreground
  <1> HIDE DEF f, h, lists
  <1>4. ASSUME NEW p \in Pids
        PROVE  /\ h[p].parent = f[p].parent /\ h[p].job = f[p].job
               /\ (h[p].kind = "shell" <=> f[p].kind = "shell")
               /\ (h[p].kind = "free" <=> f[p].kind = "free") /\ (h[p].kind = "gone" <=> f[p].kind = "gone")
               /\ ProcessOK(h[p], Groups)
    <2>1. IsProcess(f[p]) /\ ProcessOK(f[p], Groups)
      BY <1>1 DEF ProcsOK
    <2>2. CASE f[p].kind = "command"
      <3>1. h[p] = Ended(f[p], "killed")
        BY <1>3, <2>2
      <3>2. h[p].kind = "zombie" /\ h[p].parent = f[p].parent /\ h[p].job = f[p].job
        BY <2>1, <3>1, EndedType, Values
      <3> QED BY <2>2, <3>2 DEF ProcessOK
    <2>3. CASE f[p].kind = "shell"
      <3>1. h[p] = Handled(f[p])
        BY <1>3, <2>3
      <3>2. h[p].kind = "shell" /\ h[p].parent = f[p].parent /\ h[p].job = f[p].job
        BY <2>1, <2>3, <3>1, HandledFields
      <3>3. MemoryOK(h[p], Groups)
        BY <2>1, <2>3, <3>1, HandledOK DEF ProcessOK
      <3> QED BY <2>3, <3>2, <3>3 DEF ProcessOK
    <2>4. CASE f[p].kind \notin {"shell", "command"}
      <3>1. h[p] = f[p]
        BY <1>3, <2>4
      <3> QED BY <2>1, <3>1
    <2> QED BY <2>2, <2>3, <2>4
  <1>5. ParentsUsed(h)
    <2> SUFFICES ASSUME NEW p \in Pids, h[p].parent # 0
                 PROVE  h[h[p].parent].kind # "free"
      BY DEF ParentsUsed
    <2>1. f[p].parent = h[p].parent /\ f[f[p].parent].kind # "free"
      BY <1>1, <1>4 DEF ProcsOK, ParentsUsed
    <2>2. f[p].parent \in Pids
      BY <1>1, <2>1, FieldsTyped
    <2> QED BY <1>4, <2>1, <2>2
  <1>6. ChildrenKept(h, Groups, lists)
    <2> SUFFICES ASSUME NEW p \in Pids, h[p].kind = "shell", NEW q \in Pids, ChildOf(p, h[q])
                 PROVE  Kept(h[p], q, h[q], Groups, lists)
      BY DEF ChildrenKept
    <2>1. f[p].kind = "shell" /\ ChildOf(p, f[q])
      BY <1>4 DEF ChildOf
    <2>2. Kept(f[p], q, f[q], Groups, cut)
      BY <1>1, <2>1 DEF ProcsOK, ChildrenKept
    <2>3. CASE KeptAnyway(f[p], f[q], Groups, cut)
      <3>1. KeptAnyway(h[p], h[q], Groups, lists)
        BY <1>2, <1>4, <2>3 DEF KeptAnyway
      <3> QED BY <3>1 DEF KeptAnyway, Kept
    <2>4. CASE f[p].pc = "wait" /\ f[q].job = <<f[p].n, f[p].i>>
      <3> DEFINE m == f[p]
      <3>1. IsProcess(m) /\ MemoryOK(m, Groups)
        BY <1>1, <2>1 DEF ProcsOK, ProcessOK
      <3>2. /\ m.i \in Nat /\ m.cmd_running /\ m.i \in DOMAIN m.group
            /\ m.group = Groups[m.n] /\ m.n \in DOMAIN Groups
        BY <2>4, <3>1, FieldsTyped DEF MemoryOK, Placed, Signals, AtWork, InPipe
      <3>3. Shaped(m.group)
        BY <1>1, <3>2, GroupsMeant
      <3>4. m.i \in m.i .. Len(m.group)
        BY <3>2, <3>3 DEF Shaped
      <3>5. <<m.n, m.i>> \in GivenUp(m)
        BY <2>1, <2>4, <3>2, <3>4 DEF GivenUp
      <3>6. h[q].job \in lists
        BY <1>2, <1>4, <2>4, <3>5
      <3> QED BY <3>6 DEF Kept
    <2> QED BY <2>2, <2>3, <2>4 DEF Kept, KeptAnyway
  <1>7. ProcsOK(h, Groups, lists)
    BY <1>4, <1>5, <1>6 DEF ProcsOK
  <1> QED BY <1>2, <1>7, InvWhen DEF h, lists

LEMMA InitInv ==
    ASSUME Init
    PROVE  Inv
  <1> DEFINE first == [NoProcess EXCEPT !.kind = "shell"]
  <1>1. proc = [p \in Pids |-> IF p = 1 THEN first ELSE NoProcess]
    BY DEF Init
  <1>2. /\ first.kind = "shell" /\ first.pc = "top" /\ first.n = 0 /\ first.next = 1
        /\ first.fds = {} /\ first.job = <<>> /\ first.eintr = FALSE /\ first.parent = 0
    BY DEF NoProcess
  <1>3. NoProcess.kind = "free" /\ NoProcess.parent = 0
    BY DEF NoProcess
  <1> HIDE DEF first
  <1>4. MemoryOK(first, Groups)
    <2>1. Placed(first, Groups) /\ Signals(first) /\ WritesOut(first)
      BY <1>2 DEF Placed, Signals, WritesOut, AtWork, InPipe
    <2>2. Joints(first) /\ NoOthers(first, Groups) /\ BehindJob(first)
      BY <1>2 DEF Joints, NoOthers, BehindJob, InPipe
    <2> QED BY <2>1, <2>2 DEF MemoryOK
  <1>5. ProcsOK(proc, Groups, cut)
    <2>1. \A p \in Pids : ProcessOK(proc[p], Groups)
      BY <1>1, <1>2, <1>3, <1>4 DEF ProcessOK
    <2>2. \A p \in Pids : proc[p].parent = 0
      BY <1>1, <1>2, <1>3
    <2>3. ParentsUsed(proc) /\ ChildrenKept(proc, Groups, cut)
      BY <2>2, PidsNumbered DEF ParentsUsed, ChildrenKept, ChildOf
    <2> QED BY <2>1, <2>3 DEF ProcsOK
  <1> QED BY <1>5, InitTyped DEF Inv

LEMMA ExitInv ==
    ASSUME Inv, Typed', NEW p \in Pids, proc[p].kind = "shell", Exit(p)
    PROVE  Inv'
  BY EndedInv, Values DEF Exit

LEMMA InvStep ==
    ASSUME ReadAsMeant, Inv, [Next]_vars
    PROVE  Inv'
  <1>1. Typed'
    BY TypedStep DEF Inv
  <1>2. CASE UNCHANGED vars
    <2>1. script' = script /\ proc' = proc /\ cut' = cut
      BY <1>2 DEF vars
    <2>2. ProcsOK(proc', Groups, cut')
      BY <2>1 DEF Inv
    <2> QED BY <1>1, <2>1, <2>2, InvWhen
  <1>3. ASSUME NEW p \in Pids, Step(p)
        PROVE  Inv'
    <2>1. proc[p].kind = "shell"
      BY <1>3 DEF Step
    <2> QED BY <1>1, <1>3, <2>1, PromptInv, ReadLineInv, ExitInv, ResetInv, ReapInv, NextListInv,
               RunListInv, StartNothingInv, StartCdInv, StartChildInv, ExecInv, WaitStageInv
        DEF Step
  <1>4. ASSUME NEW p \in Pids, Finish(p)
        PROVE  Inv'
    BY <1>1, <1>4, FinishInv
  <1>5. CASE Interrupt
    BY <1>1, <1>5, InterruptInv
  <1> QED BY <1>2, <1>3, <1>4, <1>5 DEF Next

-----------------------------------------------------------------------------
(* Theorems. *)

\* Of lines that are read as they are meant: a shell that prompts has given back what the
\* lines before took (sh61.c:418-442).
THEOREM Sh61PromptTidy ==
    ASSUME ReadAsMeant
    PROVE  Spec => []PromptTidy
  <1>1. Init => Inv
    BY InitInv
  <1>2. Inv /\ [Next]_vars => Inv'
    BY InvStep
  <1>3. Inv => PromptTidy
    <2> SUFFICES ASSUME Inv, NEW p \in Pids, proc[p].kind = "shell", proc[p].pc = "top"
                 PROVE  LET m == proc[p]
                        IN  /\ m.fds # {} => \E n \in 1 .. m.n : LeavesReadEnd(Scripts[script].meant[n])
                            /\ \A x \in Pipes : <<x, "w">> \notin m.fds
                            /\ \A q \in Children(p) : LET l == proc[q].job IN
                                 l \in cut \/ (l # m.job /\ Scripts[script].meant[l[1]][l[2]].background)
      BY DEF PromptTidy
    <2> DEFINE m == proc[p]
    <2>1. Groups = Scripts[script].meant
      BY GroupsMeant DEF Inv
    <2>2. MemoryOK(m, Groups)
      BY ShellFacts
    <2>3. m.fds # {} => Leaves(m.n, Groups)
      BY <2>2 DEF MemoryOK, NoOthers
    <2>4. \A x \in Pipes : <<x, "w">> \notin m.fds
      BY <2>2 DEF MemoryOK, WritesOut
    <2>5. ASSUME NEW q \in Children(p)
          PROVE  KeptAnyway(m, proc[q], Groups, cut)
      <3>1. q \in Pids /\ ChildOf(p, proc[q])
        BY DEF Children, ChildOf
      <3> QED BY <3>1, KeptOutsideWait
    <2> QED BY <2>1, <2>3, <2>4, <2>5 DEF Leaves, KeptAnyway
  <1> QED BY <1>1, <1>2, <1>3, PTL DEF Spec

-----------------------------------------------------------------------------
(* What flows through the pipes. *)

Alive(m) == m.kind \in {"shell", "command"}
CanRead(m, x) == Alive(m) /\ (m.stdin = x \/ <<x, "r">> \in m.fds)
CanWrite(m, x) == Alive(m) /\ (m.stdout = x \/ <<x, "w">> \in m.fds)

\* What a process reads, or a program that it is about to become or to start will read.
Source(m, x) ==
    \/ Alive(m) /\ m.stdin = x
    \/ m.kind = "shell" /\ m.pc = "exec" /\ m.fd_in = x
    \/ m.kind = "shell" /\ m.pc = "stage" /\ m.prev = x /\ ~ m.interrupted

\* The pipe that a shell has made for the stage which it waits for.
Outlet(m, x) == m.kind = "shell" /\ m.pc = "wait" /\ m.fd_out = x

ShellsMute(f) == \A p \in Pids : f[p].kind = "shell" => f[p].stdout = 0

SourcesEnd(f, X) == \A p \in Pids, x \in X : Source(f[p], x) => \A q \in Pids : ~ CanWrite(f[q], x)

OutletsServed(f, X) ==
    \A p \in Pids, x \in X : Outlet(f[p], x) =>
      \A q \in Pids : CanWrite(f[q], x) => q = p \/ (q = f[p].pid /\ f[q].parent = p)

Flow(f) == ShellsMute(f) /\ SourcesEnd(f, Pipes) /\ OutletsServed(f, Pipes)

FlowInv == Inv /\ Flow(proc)

\* Who has to do with a pipe holds it.
LEMMA HoldersRead ==
    ASSUME NEW m, NEW lines, m.kind = "shell" => MemoryOK(m, lines), NEW x \in Pipes,
           Source(m, x) \/ Outlet(m, x)
    PROVE  CanRead(m, x)
  <1>1. CASE Alive(m) /\ m.stdin = x
    BY <1>1 DEF CanRead
  <1>2. CASE m.kind = "shell" /\ <<x, "r">> \in m.fds
    BY <1>2 DEF CanRead, Alive
  <1>3. CASE m.kind = "shell" /\ m.pc = "exec" /\ m.fd_in = x
    BY <1>2, <1>3, PidsNumbered DEF MemoryOK, Joints
  <1>4. CASE m.kind = "shell" /\ m.pc = "stage" /\ m.prev = x
    BY <1>2, <1>4, PidsNumbered DEF MemoryOK, Joints
  <1>5. CASE m.kind = "shell" /\ m.pc = "wait" /\ m.fd_out = x
    BY <1>2, <1>5, PidsNumbered DEF MemoryOK, Joints
  <1> QED BY <1>1, <1>3, <1>4, <1>5 DEF Source, Outlet

\* A step from f to h after which nobody writes to a pipe that he did not write to before,
\* but to those of N, which are new.
LEMMA FlowStep ==
    ASSUME NEW f, NEW h, Flow(f), ShellsMute(h), NEW N,
           \A q \in Pids, x \in Pipes \ N : CanWrite(h[q], x) => CanWrite(f[q], x) /\ h[q].parent = f[q].parent,
           \A p \in Pids, x \in Pipes \ N : Source(h[p], x) =>
              \/ \E r \in Pids : Source(f[r], x)
              \/ \A q \in Pids : ~ CanWrite(h[q], x),
           \A p \in Pids, x \in Pipes \ N : Outlet(h[p], x) => Outlet(f[p], x) /\ h[p].pid = f[p].pid,
           SourcesEnd(h, Pipes \cap N), OutletsServed(h, Pipes \cap N)
    PROVE  Flow(h)
  <1>1. SourcesEnd(h, Pipes \ N)
    BY DEF Flow, SourcesEnd
  <1>2. OutletsServed(h, Pipes \ N)
    <2> SUFFICES ASSUME NEW p \in Pids, NEW x \in Pipes \ N, Outlet(h[p], x), NEW q \in Pids, CanWrite(h[q], x)
                 PROVE  q = p \/ (q = h[p].pid /\ h[q].parent = p)
      BY DEF OutletsServed
    <2>1. Outlet(f[p], x) /\ h[p].pid = f[p].pid /\ CanWrite(f[q], x) /\ h[q].parent = f[q].parent
      OBVIOUS
    <2> QED BY <2>1 DEF Flow, OutletsServed
  <1>3. SourcesEnd(h, Pipes)
    BY <1>1 DEF SourcesEnd
  <1>4. OutletsServed(h, Pipes)
    BY <1>2 DEF OutletsServed
  <1> QED BY <1>3, <1>4 DEF Flow

\* A step of p, which becomes v and may reap w.
LEMMA FlowOne ==
    ASSUME NEW f, NEW h, Flow(f), NEW p \in Pids, NEW w, w # p, \A r \in Pids \ {p, w} : h[r] = f[r],
           w \in Pids => h[w].kind = "gone", h[p].parent = f[p].parent,
           h[p].kind = "shell" => h[p].stdout = 0,
           \A x \in Pipes : CanWrite(h[p], x) => CanWrite(f[p], x),
           \A x \in Pipes : Source(h[p], x) => Source(f[p], x) \/ \A q \in Pids : ~ CanWrite(h[q], x),
           \A x \in Pipes : Outlet(h[p], x) => Outlet(f[p], x) /\ h[p].pid = f[p].pid
    PROVE  Flow(h)
  <1> DEFINE N == {}
  <1>1. \A r \in Pids : r = p \/ h[r] = f[r] \/ h[r].kind = "gone"
    OBVIOUS
  <1>2. \A r \in Pids : h[r].kind = "gone" =>
           ~ Alive(h[r]) /\ \A x : ~ CanWrite(h[r], x) /\ ~ Source(h[r], x) /\ ~ Outlet(h[r], x)
    BY DEF Alive, CanWrite, Source, Outlet
  <1>3. ShellsMute(h)
    BY <1>1 DEF Flow, ShellsMute
  <1>4. \A q \in Pids, x \in Pipes \ N : CanWrite(h[q], x) => CanWrite(f[q], x) /\ h[q].parent = f[q].parent
    BY <1>1, <1>2
  <1>5. \A r \in Pids, x \in Pipes \ N : Source(h[r], x) =>
           \/ \E s \in Pids : Source(f[s], x)
           \/ \A q \in Pids : ~ CanWrite(h[q], x)
    BY <1>1, <1>2
  <1>6. \A r \in Pids, x \in Pipes \ N : Outlet(h[r], x) => Outlet(f[r], x) /\ h[r].pid = f[r].pid
    BY <1>1, <1>2
  <1>7. SourcesEnd(h, Pipes \cap N) /\ OutletsServed(h, Pipes \cap N)
    BY DEF SourcesEnd, OutletsServed
  <1> HIDE DEF N
  <1> QED BY <1>3, <1>4, <1>5, <1>6, <1>7, FlowStep

\* From f to h p makes a pipe, and forks the child c if c is a process.
PipeMade(f, h, p, pipe, c) ==
    /\ f[p].kind = "shell" /\ f[p].pc = "stage" /\ c # p
    /\ pipe # 0 => \A r \in Pids : ~ CanRead(f[r], pipe) /\ ~ CanWrite(f[r], pipe)
    /\ \A r \in Pids \ {p, c} : h[r] = f[r]
    /\ h[p].kind = "shell" /\ h[p].pc = "wait" /\ h[p].fd_out = pipe /\ h[p].stdout = 0
    /\ h[p].fds = f[p].fds \cup ReadEnd(pipe) \cup WriteEnd(pipe)
    /\ h[p].stdin \in {0, f[p].stdin}
    /\ c \in Pids => /\ ~ f[p].interrupted
                     /\ h[c].kind = "shell" /\ h[c].pc = "exec" /\ h[c].parent = p /\ h[p].pid = c
                     /\ h[c].stdin = f[p].stdin /\ h[c].stdout = 0 /\ h[c].fds = h[p].fds
                     /\ h[c].fd_in \in {0, f[p].prev}

LEMMA FlowNew ==
    ASSUME NEW f, NEW h, Flow(f), NEW lines, \A r \in Pids : f[r].kind = "shell" => MemoryOK(f[r], lines),
           NEW p \in Pids, NEW pipe, NEW c, PipeMade(f, h, p, pipe, c)
    PROVE  Flow(h)
  <1> USE DEF PipeMade
  <1> DEFINE N == {pipe}
  <1>1. ASSUME NEW x \in Pipes
        PROVE  /\ <<x, "w">> \notin f[p].fds /\ x # 0
               /\ <<x, "w">> \in h[p].fds => x = pipe
    <2>1. <<x, "w">> \notin f[p].fds
      BY DEF MemoryOK, WritesOut
    <2> QED BY <2>1, PidsNumbered DEF ReadEnd, WriteEnd
  <1>2. ShellsMute(h)
    BY DEF Flow, ShellsMute
  <1>3. \A q \in Pids, x \in Pipes \ N : CanWrite(h[q], x) => q # p /\ q # c /\ h[q] = f[q]
    BY <1>1 DEF CanWrite
  <1>4. \A r \in Pids, x \in Pipes \ N : Source(h[r], x) => \E s \in Pids : Source(f[s], x)
    <2> SUFFICES ASSUME NEW r \in Pids, NEW x \in Pipes \ N, Source(h[r], x)
                 PROVE  \E s \in Pids : Source(f[s], x)
      OBVIOUS
    <2>1. CASE r = p
      BY <1>1, <2>1 DEF Source, Alive
    <2>2. CASE r = c
      <3>1. x # 0 /\ c \in Pids
        BY <1>1, <2>2
      <3>2. h[c].stdin = x \/ h[c].fd_in = x
        BY <2>2, <3>1 DEF Source
      <3>3. f[p].stdin = x \/ f[p].prev = x
        BY <3>1, <3>2
      <3>4. ~ f[p].interrupted
        BY <3>1
      <3> QED BY <3>3, <3>4 DEF Source, Alive
    <2>3. CASE r # p /\ r # c
      BY <2>3
    <2> QED BY <2>1, <2>2, <2>3
  <1>5. \A r \in Pids, x \in Pipes \ N : Outlet(h[r], x) => Outlet(f[r], x) /\ h[r].pid = f[r].pid
    BY DEF Outlet
  <1>6. ASSUME pipe \in Pipes, NEW r \in Pids
        PROVE  /\ ~ Source(f[r], pipe) /\ ~ Outlet(f[r], pipe) /\ ~ CanWrite(f[r], pipe)
    <2>1. ~ CanRead(f[r], pipe) /\ ~ CanWrite(f[r], pipe)
      BY <1>6, PidsNumbered
    <2> QED BY <1>6, <2>1, HoldersRead
  <1>7. SourcesEnd(h, Pipes \cap N)
    <2> SUFFICES ASSUME pipe \in Pipes, NEW r \in Pids
                 PROVE  ~ Source(h[r], pipe)
      BY DEF SourcesEnd
    <2>1. ~ Source(f[r], pipe) /\ ~ Source(f[p], pipe) /\ pipe # 0
      BY <1>6, PidsNumbered
    <2>2. f[p].stdin # pipe /\ (c \in Pids => f[p].prev # pipe)
      BY <2>1 DEF Source, Alive
    <2>3. CASE r = p
      BY <2>1, <2>2, <2>3 DEF Source
    <2>4. CASE r = c
      BY <2>1, <2>2, <2>4 DEF Source
    <2>5. CASE r # p /\ r # c
      BY <2>1, <2>5
    <2> QED BY <2>3, <2>4, <2>5
  <1>8. OutletsServed(h, Pipes \cap N)
    <2> SUFFICES ASSUME pipe \in Pipes, NEW r \in Pids, Outlet(h[r], pipe), NEW q \in Pids, CanWrite(h[q], pipe)
                 PROVE  q = r \/ (q = h[r].pid /\ h[q].parent = r)
      BY DEF OutletsServed
    <2>1. r = p
      <3>1. r # c
        BY DEF Outlet
      <3>2. ~ Outlet(f[r], pipe)
        BY <1>6
      <3> QED BY <3>1, <3>2
    <2>2. q = p \/ q = c
      BY <1>6
    <2> QED BY <2>1, <2>2
  <1>9. \A q \in Pids, x \in Pipes \ N : CanWrite(h[q], x) => CanWrite(f[q], x) /\ h[q].parent = f[q].parent
    BY <1>3
  <1> HIDE DEF N
  <1> QED BY <1>2, <1>4, <1>5, <1>7, <1>8, <1>9, FlowStep

\* p forks the child c, and neither is in a pipeline yet.
LEMMA FlowFork ==
    ASSUME NEW f, NEW h, Flow(f), NEW p \in Pids, f[p].kind = "shell", f[p].stdout = 0,
           \A x \in Pipes : <<x, "w">> \notin f[p].fds,
           NEW c \in Pids \ {p}, \A r \in Pids \ {p, c} : h[r] = f[r],
           \A r \in {p, c} : /\ h[r].kind = "shell" /\ h[r].pc \in {"list", "run"} /\ h[r].stdin = f[p].stdin
                             /\ h[r].stdout = 0 /\ h[r].fds = f[p].fds
    PROVE  Flow(h)
  <1> DEFINE N == {}
  <1>1. \A r \in Pids : r \in {p, c} \/ h[r] = f[r]
    OBVIOUS
  <1>2. \A r \in {p, c}, x \in Pipes :
           ~ CanWrite(h[r], x) /\ ~ Outlet(h[r], x) /\ (Source(h[r], x) => Source(f[p], x))
    BY PidsNumbered DEF CanWrite, Outlet, Source, Alive
  <1>3. ShellsMute(h)
    BY <1>1 DEF Flow, ShellsMute
  <1>4. \A q \in Pids, x \in Pipes \ N : CanWrite(h[q], x) => CanWrite(f[q], x) /\ h[q].parent = f[q].parent
    BY <1>1, <1>2
  <1>5. \A r \in Pids, x \in Pipes \ N : Source(h[r], x) => \E s \in Pids : Source(f[s], x)
    BY <1>1, <1>2
  <1>6. \A r \in Pids, x \in Pipes \ N : Outlet(h[r], x) => Outlet(f[r], x) /\ h[r].pid = f[r].pid
    BY <1>1, <1>2
  <1>7. SourcesEnd(h, Pipes \cap N) /\ OutletsServed(h, Pipes \cap N)
    BY DEF SourcesEnd, OutletsServed
  <1> HIDE DEF N
  <1> QED BY <1>3, <1>4, <1>5, <1>6, <1>7, FlowStep

\* The process v takes nothing from the pipes and puts nothing in that m did not.
NoMore(v, m) ==
    /\ v.parent = m.parent
    /\ v.kind = "shell" => v.stdout = 0
    /\ \A x \in Pipes : CanWrite(v, x) => CanWrite(m, x)
    /\ \A x \in Pipes : Source(v, x) => Source(m, x)
    /\ \A x \in Pipes : Outlet(v, x) => Outlet(m, x) /\ v.pid = m.pid

LEMMA FlowBecome ==
    ASSUME Inv, Flow(proc), NEW p \in Pids, NEW v, Become(p, v), NoMore(v, proc[p])
    PROVE  Flow(proc')
  <1> DEFINE f == proc
             h == proc'
  <1>1. h[p] = v /\ \A r \in Pids \ {p, 0} : h[r] = f[r]
    BY BecomeEffect DEF Inv
  <1>2. Flow(f) /\ NoMore(h[p], f[p]) /\ 0 # p /\ 0 \notin Pids
    BY <1>1, PidsNumbered
  <1> HIDE DEF f, h
  <1>3. Flow(h)
    BY <1>1, <1>2, FlowOne DEF NoMore
  <1> QED BY <1>3 DEF h

LEMMA IdleMore ==
    ASSUME NEW m, m.kind = "shell", m.stdout = 0,
           NEW v, v.kind = "shell", v.parent = m.parent, v.stdin = m.stdin, v.stdout = m.stdout,
           v.fds = m.fds, v.pc \notin {"exec", "wait"}, v.pc = "stage" => v.prev = 0
    PROVE  NoMore(v, m)
  BY PidsNumbered DEF NoMore, CanWrite, Source, Outlet, Alive

LEMMA EndedMore ==
    ASSUME NEW m, IsProcess(m), NEW s \in Statuses
    PROVE  NoMore(Ended(m, s), m)
  <1> DEFINE e == Ended(m, s)
  <1>1. e.kind = "zombie" /\ e.parent = m.parent
    BY EndedType
  <1> HIDE DEF e
  <1>2. NoMore(e, m)
    BY <1>1 DEF NoMore, CanWrite, Source, Outlet, Alive
  <1> QED BY <1>2 DEF e

LEMMA FlowFacts ==
    ASSUME ReadAsMeant, FlowInv, NEW p \in Pids, proc[p].kind = "shell"
    PROVE  /\ Inv /\ Flow(proc) /\ Typed /\ IsProcess(proc[p]) /\ MemoryOK(proc[p], Groups)
           /\ proc[p].stdout = 0
  BY ShellFacts DEF FlowInv, Flow, ShellsMute

LEMMA PromptFlow ==
    ASSUME ReadAsMeant, FlowInv, NEW p \in Pids, proc[p].kind = "shell", Prompt(p)
    PROVE  Flow(proc')
  <1> DEFINE m == proc[p]
             v == [m EXCEPT !.cmd_running = FALSE, !.pc = "read"]
  <1>1. Inv /\ Flow(proc) /\ IsProcess(m) /\ m.stdout = 0
    BY FlowFacts
  <1>2. /\ v.kind = m.kind /\ v.parent = m.parent /\ v.pc = "read"
        /\ v.fds = m.fds /\ v.stdin = m.stdin /\ v.stdout = m.stdout
    BY <1>1, FieldNames DEF IsProcess
  <1>3. Become(p, v)
    BY DEF Prompt
  <1> HIDE DEF v
  <1> QED BY <1>1, <1>2, <1>3, IdleMore, FlowBecome

LEMMA ReadLineFlow ==
    ASSUME ReadAsMeant, FlowInv, NEW p \in Pids, proc[p].kind = "shell", ReadLine(p)
    PROVE  Flow(proc')
  <1> DEFINE m == proc[p]
             v == [m EXCEPT !.group = Groups[m.next], !.n = m.next, !.next = @ + 1,
                            !.z = 0, !.i = 1, !.pc = "list"]
  <1>1. Inv /\ Flow(proc) /\ IsProcess(m) /\ m.stdout = 0
    BY FlowFacts
  <1>2. /\ v.kind = m.kind /\ v.parent = m.parent /\ v.pc = "list"
        /\ v.fds = m.fds /\ v.stdin = m.stdin /\ v.stdout = m.stdout
    BY <1>1, FieldNames DEF IsProcess
  <1>3. Become(p, v)
    BY DEF ReadLine
  <1> HIDE DEF v
  <1> QED BY <1>1, <1>2, <1>3, IdleMore, FlowBecome

LEMMA ExitFlow ==
    ASSUME ReadAsMeant, FlowInv, NEW p \in Pids, proc[p].kind = "shell", Exit(p)
    PROVE  Flow(proc')
  <1>1. Inv /\ Flow(proc) /\ IsProcess(proc[p]) /\ Become(p, Ended(proc[p], "ok"))
    BY FlowFacts DEF Exit
  <1> QED BY <1>1, EndedMore, Values, FlowBecome

LEMMA ResetFlow ==
    ASSUME ReadAsMeant, FlowInv, NEW p \in Pids, proc[p].kind = "shell", Reset(p)
    PROVE  Flow(proc')
  <1> DEFINE m == proc[p]
             v == [m EXCEPT !.clear_cmd = FALSE, !.interrupted = FALSE,
                            !.pc = IF m.z = 0 THEN "top" ELSE "reap"]
  <1>1. Inv /\ Flow(proc) /\ IsProcess(m) /\ m.stdout = 0
    BY FlowFacts
  <1>2. /\ v.kind = m.kind /\ v.parent = m.parent /\ v.pc \in {"top", "reap"}
        /\ v.fds = m.fds /\ v.stdin = m.stdin /\ v.stdout = m.stdout
    BY <1>1, FieldNames DEF IsProcess
  <1>3. Become(p, v)
    BY DEF Reset
  <1> HIDE DEF v
  <1> QED BY <1>1, <1>2, <1>3, IdleMore, FlowBecome

\* What a shell that reaps w leaves.
LEMMA ReapedEffect ==
    ASSUME NEW p \in Pids, NEW v, NEW w, w # p, Reaped(p, v, w)
    PROVE  /\ proc'[p] = v /\ \A r \in Pids \ {p, w} : proc'[r] = proc[r]
           /\ w \in Pids => proc'[w].kind = "gone"
  <1> DEFINE g == [NoProcess EXCEPT !.kind = "gone"]
  <1>1. proc' = [r \in Pids |-> IF r = p THEN v ELSE IF r = w THEN g ELSE proc[r]]
    BY DEF Reaped
  <1>2. g.kind = "gone"
    BY GoneType
  <1> HIDE DEF g
  <1> QED BY <1>1, <1>2

LEMMA ReapFlow ==
    ASSUME ReadAsMeant, FlowInv, NEW p \in Pids, proc[p].kind = "shell", Reap(p)
    PROVE  Flow(proc')
  <1> DEFINE m == proc[p]
             v == [m EXCEPT !.z = @ - 1, !.eintr = FALSE,
                            !.pc = IF m.z = 1 THEN "top" ELSE "reap"]
  <1>1. Typed /\ Flow(proc) /\ IsProcess(m) /\ m.stdout = 0
    BY FlowFacts
  <1>2. /\ v.kind = m.kind /\ v.parent = m.parent /\ v.pc \in {"top", "reap"}
        /\ v.fds = m.fds /\ v.stdin = m.stdin /\ v.stdout = m.stdout
    BY <1>1, FieldNames DEF IsProcess
  <1>3. PICK w \in WaitPid(p, 0, "ok") : Reaped(p, v, w[1])
    BY DEF Reap
  <1>4. w[1] # p
    BY <1>1, WaitPidReturns
  <1> HIDE DEF v
  <1>5. NoMore(v, m)
    BY <1>1, <1>2, IdleMore
  <1> DEFINE h == proc'
  <1>6. h[p] = v /\ (\A r \in Pids \ {p, w[1]} : h[r] = proc[r]) /\ (w[1] \in Pids => h[w[1]].kind = "gone")
    BY <1>3, <1>4, ReapedEffect
  <1> HIDE DEF h
  <1>7. Flow(h)
    BY <1>1, <1>4, <1>5, <1>6, FlowOne DEF NoMore
  <1> QED BY <1>7 DEF h

LEMMA NextListFlow ==
    ASSUME ReadAsMeant, FlowInv, NEW p \in Pids, proc[p].kind = "shell", NextList(p)
    PROVE  Flow(proc')
  <1> DEFINE m == proc[p]
             next == [m EXCEPT !.i = @ + 1]
             child == [m EXCEPT !.stop_process = TRUE, !.job = <<m.n, m.i>>, !.pc = "run"]
             run == [m EXCEPT !.stop_process = FALSE, !.pc = "run"]
             reset == [m EXCEPT !.pc = "reset"]
             done == EvalDone(m)
  <1>1. Inv /\ Typed /\ Flow(proc) /\ IsProcess(m) /\ MemoryOK(m, Groups) /\ m.stdout = 0 /\ m.pc = "list"
    BY FlowFacts DEF NextList
  <1>2. \/ Become(p, reset)
        \/ Become(p, done)
        \/ Become(p, run)
        \/ Fork(p, next, child)
    <2> HIDE DEF m
    <2> QED BY DEF NextList, m
  <1>3. \A v \in {reset, done, run} :
            /\ v.kind = m.kind /\ v.parent = m.parent /\ v.pc \in {"reset", "run"}
            /\ v.fds = m.fds /\ v.stdin = m.stdin /\ v.stdout = m.stdout
    <2>1. /\ reset.kind = m.kind /\ reset.parent = m.parent /\ reset.pc = "reset"
          /\ reset.fds = m.fds /\ reset.stdin = m.stdin /\ reset.stdout = m.stdout
      BY <1>1, FieldNames DEF IsProcess
    <2>2. /\ run.kind = m.kind /\ run.parent = m.parent /\ run.pc = "run"
          /\ run.fds = m.fds /\ run.stdin = m.stdin /\ run.stdout = m.stdout
      BY <1>1, FieldNames DEF IsProcess
    <2>3. /\ done.kind = m.kind /\ done.parent = m.parent /\ done.pc = "reset"
          /\ done.fds = m.fds /\ done.stdin = m.stdin /\ done.stdout = m.stdout
      BY <1>1, FieldNames DEF IsProcess, EvalDone, list_group_free
    <2> HIDE DEF reset, run, done
    <2> QED BY <2>1, <2>2, <2>3
  <1>4. CASE Fork(p, next, child)
    <2>1. /\ next.kind = "shell" /\ next.pc = "list"
          /\ next.fds = m.fds /\ next.stdin = m.stdin /\ next.stdout = m.stdout
      BY <1>1, FieldNames DEF IsProcess
    <2>2. LET v == [child EXCEPT !.parent = p]
          IN  /\ v.kind = "shell" /\ v.pc = "run"
              /\ v.fds = m.fds /\ v.stdin = m.stdin /\ v.stdout = m.stdout
      BY <1>1, FieldNames DEF IsProcess
    <2> HIDE DEF next, child
    <2> DEFINE d == [child EXCEPT !.parent = p]
    <2>3. PICK q \in Pids \ {p} : proc' = [r \in Pids |-> IF r = p THEN next ELSE IF r = q THEN d ELSE proc[r]]
      <3>1. proc[p].kind # "free"
        OBVIOUS
      <3>2. PICK q \in Pids \ {p} :
              proc' = [r \in Pids |->
                         IF r = p THEN IF next.pc = "wait" THEN [next EXCEPT !.pid = q] ELSE next
                         ELSE IF r = q THEN [child EXCEPT !.parent = p] ELSE proc[r]]
        BY <1>1, <1>4, <3>1, ForkEffect
      <3>3. next.pc # "wait"
        BY <2>1
      <3> QED BY <3>2, <3>3
    <2>4. /\ d.kind = "shell" /\ d.pc = "run"
          /\ d.fds = m.fds /\ d.stdin = m.stdin /\ d.stdout = m.stdout
      BY <2>2
    <2>5. \A x \in Pipes : <<x, "w">> \notin m.fds
      BY <1>1 DEF MemoryOK, WritesOut
    <2> HIDE DEF d
    <2> DEFINE h == proc'
    <2>6. h[p] = next /\ h[q] = d /\ \A r \in Pids \ {p, q} : h[r] = proc[r]
      BY <2>3
    <2> HIDE DEF h
    <2>7. Flow(h)
      BY <1>1, <2>1, <2>4, <2>5, <2>6, FlowFork
    <2> QED BY <2>7 DEF h
  <1> HIDE DEF reset, run, done
  <1>5. ASSUME NEW v \in {reset, done, run}, Become(p, v)
        PROVE  Flow(proc')
    <2>1. /\ v.kind = m.kind /\ v.parent = m.parent /\ v.pc \in {"reset", "run"}
          /\ v.fds = m.fds /\ v.stdin = m.stdin /\ v.stdout = m.stdout
      BY <1>3
    <2>2. NoMore(v, m)
      BY <1>1, <2>1, IdleMore
    <2> QED BY <1>1, <1>5, <2>2, FlowBecome
  <1> QED BY <1>2, <1>4, <1>5

LEMMA RunListFlow ==
    ASSUME ReadAsMeant, FlowInv, NEW p \in Pids, proc[p].kind = "shell", RunList(p)
    PROVE  Flow(proc')
  <1> DEFINE m == proc[p]
             v == [m EXCEPT !.cmd_running = TRUE, !.j = 1, !.k = 1, !.pid = -1,
                            !.status = "ok", !.prev = 0, !.pc = "stage"]
  <1>1. Inv /\ Flow(proc) /\ IsProcess(m) /\ m.stdout = 0
    BY FlowFacts
  <1>2. /\ v.kind = m.kind /\ v.parent = m.parent /\ v.pc = "stage" /\ v.prev = 0
        /\ v.fds = m.fds /\ v.stdin = m.stdin /\ v.stdout = m.stdout
    BY <1>1, FieldNames DEF IsProcess
  <1>3. Become(p, v)
    BY DEF RunList
  <1> HIDE DEF v
  <1> QED BY <1>1, <1>2, <1>3, IdleMore, FlowBecome

\* Nobody reads from a new pipe or writes to it.
LEMMA NewPipeUnused ==
    ASSUME NEW m, NEW pipe \in NewPipes(m), pipe # 0, NEW r \in Pids
    PROVE  ~ CanRead(proc[r], pipe) /\ ~ CanWrite(proc[r], pipe)
  <1>1. Readers(pipe) = {} /\ Writers(pipe) = {}
    BY NewPipesType
  <1> QED BY <1>1 DEF Readers, Writers, CanRead, CanWrite, Alive

LEMMA AllMemoryOK ==
    ASSUME Inv
    PROVE  \A r \in Pids : proc[r].kind = "shell" => MemoryOK(proc[r], Groups)
  BY DEF Inv, ProcsOK, ProcessOK

\* A shell that has made a pipe and started no process.
LEMMA AloneFlow ==
    ASSUME Inv, Flow(proc), NEW p \in Pids, proc[p].kind = "shell", proc[p].pc = "stage",
           NEW pipe \in NewPipes(proc[p]), NEW v, Become(p, v),
           v.kind = "shell", v.pc = "wait", v.fd_out = pipe, v.stdout = 0,
           v.fds = proc[p].fds \cup ReadEnd(pipe) \cup WriteEnd(pipe), v.stdin \in {0, proc[p].stdin}
    PROVE  Flow(proc')
  <1> DEFINE f == proc
             h == proc'
  <1>1. h[p] = v /\ \A r \in Pids \ {p, 0} : h[r] = f[r]
    BY BecomeEffect DEF Inv
  <1>2. pipe # 0 => \A r \in Pids : ~ CanRead(f[r], pipe) /\ ~ CanWrite(f[r], pipe)
    BY NewPipeUnused
  <1>3. \A r \in Pids : f[r].kind = "shell" => MemoryOK(f[r], Groups)
    BY AllMemoryOK
  <1>4. Flow(f) /\ f[p].kind = "shell" /\ f[p].pc = "stage" /\ 0 # p /\ 0 \notin Pids
        /\ v.fds = f[p].fds \cup ReadEnd(pipe) \cup WriteEnd(pipe) /\ v.stdin \in {0, f[p].stdin}
    BY PidsNumbered
  <1> HIDE DEF f, h
  <1>5. PipeMade(f, h, p, pipe, 0)
    BY <1>1, <1>2, <1>4 DEF PipeMade
  <1>6. Flow(h)
    BY <1>3, <1>4, <1>5, FlowNew
  <1> QED BY <1>6 DEF h

LEMMA StartNothingFlow ==
    ASSUME ReadAsMeant, FlowInv, NEW p \in Pids, proc[p].kind = "shell", StartNothing(p)
    PROVE  Flow(proc')
  <1> DEFINE m == proc[p]
  <1>1. Inv /\ Flow(proc) /\ IsProcess(m) /\ m.stdout = 0 /\ m.pc = "stage"
    BY FlowFacts DEF StartNothing
  <1>2. PICK pipe \in NewPipes(m) : Become(p, WithPipes(m, pipe))
    BY DEF StartNothing
  <1> DEFINE w == WithPipes(m, pipe)
  <1>3. /\ w.kind = m.kind /\ w.pc = "wait" /\ w.stdin = m.stdin /\ w.stdout = m.stdout
        /\ w.fds = m.fds \cup ReadEnd(pipe) \cup WriteEnd(pipe) /\ w.fd_out = pipe
    BY <1>1, WithPipesFields
  <1>4. Become(p, w)
    BY <1>2
  <1> HIDE DEF w
  <1> QED BY <1>1, <1>3, <1>4, AloneFlow

LEMMA StartCdFlow ==
    ASSUME ReadAsMeant, FlowInv, NEW p \in Pids, proc[p].kind = "shell", StartCd(p)
    PROVE  Flow(proc')
  <1> DEFINE m == proc[p]
             c == CurCommand(m)
             results == IF Len(c.argv) = 1 THEN {"failed"} ELSE {"ok", "failed"}
             cd(w, s) == [w EXCEPT !.cstatus = s, !.pid = p,
                                   !.stdin = IF c.rd_in = <<>> THEN @ ELSE 0]
  <1>1. Inv /\ Flow(proc) /\ IsProcess(m) /\ m.stdout = 0 /\ m.pc = "stage"
    BY FlowFacts DEF StartCd
  <1>2. PICK pipe \in NewPipes(m), s \in results :
          Become(p, Ended(m, s)) \/ Become(p, cd(WithPipes(m, pipe), s))
    BY DEF StartCd
  <1>3. s \in Statuses /\ pipe \in Ends
    BY Values, NewPipe
  <1>4. CASE Become(p, Ended(m, s))
    BY <1>1, <1>3, <1>4, EndedMore, FlowBecome
  <1>5. CASE Become(p, cd(WithPipes(m, pipe), s))
    <2> DEFINE w == WithPipes(m, pipe)
    <2>1. IsProcess(w)
      BY <1>1, <1>3, WithPipesType
    <2>2. /\ w.kind = m.kind /\ w.pc = "wait" /\ w.stdin = m.stdin /\ w.stdout = m.stdout
          /\ w.fds = m.fds \cup ReadEnd(pipe) \cup WriteEnd(pipe) /\ w.fd_out = pipe
      BY <1>1, WithPipesFields
    <2> HIDE DEF w
    <2> DEFINE v == cd(w, s)
    <2>3. /\ v.kind = m.kind /\ v.pc = "wait" /\ v.stdin \in {0, m.stdin} /\ v.stdout = m.stdout
          /\ v.fds = m.fds \cup ReadEnd(pipe) \cup WriteEnd(pipe) /\ v.fd_out = pipe
      BY <2>1, <2>2, FieldNames DEF IsProcess
    <2>4. Become(p, v)
      BY <1>5 DEF w
    <2> HIDE DEF v
    <2> QED BY <1>1, <2>3, <2>4, AloneFlow
  <1> QED BY <1>2, <1>4, <1>5

LEMMA StartChildFlow ==
    ASSUME ReadAsMeant, FlowInv, NEW p \in Pids, proc[p].kind = "shell", StartChild(p)
    PROVE  Flow(proc')
  <1> DEFINE m == proc[p]
             child(w) == [w EXCEPT !.pid = 0, !.job = <<m.n, m.i>>, !.pc = "exec"]
  <1>1. Inv /\ Typed /\ Flow(proc) /\ IsProcess(m) /\ m.stdout = 0 /\ m.pc = "stage" /\ ~ m.interrupted
    BY FlowFacts DEF StartChild
  <1>2. PICK pipe \in NewPipes(m) : Fork(p, WithPipes(m, pipe), child(WithPipes(m, pipe)))
    BY DEF StartChild
  <1>3. pipe \in Ends
    BY NewPipe
  <1> DEFINE w == WithPipes(m, pipe)
             c == child(w)
  <1>4. IsProcess(w)
    BY <1>1, <1>3, WithPipesType
  <1>5. /\ w.kind = m.kind /\ w.pc = "wait" /\ w.stdin = m.stdin /\ w.stdout = m.stdout
        /\ w.fds = m.fds \cup ReadEnd(pipe) \cup WriteEnd(pipe) /\ w.fd_out = pipe
        /\ w.fd_in \in {0, m.prev}
    BY <1>1, WithPipesFields
  <1>6. Fork(p, w, c)
    BY <1>2
  <1> HIDE DEF w
  <1>7. PICK q \in Pids \ {p} :
              proc' = [r \in Pids |->
                         IF r = p THEN IF w.pc = "wait" THEN [w EXCEPT !.pid = q] ELSE w
                         ELSE IF r = q THEN [c EXCEPT !.parent = p] ELSE proc[r]]
    <2>1. proc[p].kind # "free"
      OBVIOUS
    <2> HIDE DEF c
    <2> QED BY <1>1, <1>6, <2>1, ForkEffect
  <1> DEFINE v == [w EXCEPT !.pid = q]
             d == [c EXCEPT !.parent = p]
             h == proc'
  <1>8. /\ v.kind = m.kind /\ v.pc = "wait" /\ v.stdin = m.stdin /\ v.stdout = m.stdout
        /\ v.fds = m.fds \cup ReadEnd(pipe) \cup WriteEnd(pipe) /\ v.fd_out = pipe /\ v.pid = q
    BY <1>4, <1>5, FieldNames DEF IsProcess
  <1>9. /\ d.kind = m.kind /\ d.pc = "exec" /\ d.stdin = m.stdin /\ d.stdout = m.stdout /\ d.parent = p
        /\ d.fds = m.fds \cup ReadEnd(pipe) \cup WriteEnd(pipe) /\ d.fd_in \in {0, m.prev}
    BY <1>4, <1>5, FieldNames DEF IsProcess
  <1>10. h = [r \in Pids |-> IF r = p THEN v ELSE IF r = q THEN d ELSE proc[r]]
    BY <1>5, <1>7
  <1> HIDE DEF v, d, h
  <1>11. h[p] = v /\ h[q] = d /\ \A r \in Pids \ {p, q} : h[r] = proc[r]
    BY <1>10
  <1>12. pipe # 0 => \A r \in Pids : ~ CanRead(proc[r], pipe) /\ ~ CanWrite(proc[r], pipe)
    BY NewPipeUnused
  <1>13. \A r \in Pids : proc[r].kind = "shell" => MemoryOK(proc[r], Groups)
    BY <1>1, AllMemoryOK
  <1>14. PipeMade(proc, h, p, pipe, q)
    BY <1>1, <1>8, <1>9, <1>11, <1>12 DEF PipeMade
  <1>15. Flow(h)
    BY <1>1, <1>13, <1>14, FlowNew
  <1> QED BY <1>15 DEF h

\* A program that is missing has no pipe to write to.
LEMMA NoPipeOut ==
    ASSUME ReadAsMeant, ~ WritesPipe(Missing, Scripts[script].meant),
           Typed, NEW m, IsProcess(m), MemoryOK(m, Groups), m.pc = "exec",
           CurCommand(m).argv # <<>>, CurCommand(m).argv[1] \in Missing
    PROVE  m.fd_out = 0
  <1> SUFFICES ASSUME m.fd_out # 0 PROVE FALSE
    OBVIOUS
  <1> DEFINE g == m.group
             stages == g[m.i].cargv[m.j].cond_argv
  <1>1. m.k < Len(stages) /\ stages[m.k].rd_out = <<>>
    BY DEF MemoryOK, Joints, PipesOut, CurCommand, CurCond, CurList
  <1>2. /\ m.n \in DOMAIN Groups /\ g = Groups[m.n] /\ m.i \in DOMAIN g
        /\ m.j \in DOMAIN g[m.i].cargv /\ m.k \in DOMAIN stages
    BY DEF MemoryOK, Placed, AtWork, InPipe, CurCond, CurList
  <1>3. Groups = Scripts[script].meant /\ script \in DOMAIN Scripts /\ Shaped(g)
    BY <1>2, GroupsMeant DEF Typed
  <1>4. Len(stages) \in Nat /\ DOMAIN stages = 1 .. Len(stages)
    BY <1>2, <1>3 DEF Shaped
  <1>5. m.k \in 1 .. Len(stages) - 1
    <2>1. m.k \in 1 .. Len(stages) /\ m.k < Len(stages) /\ Len(stages) \in Nat
      BY <1>1, <1>2, <1>4
    <2> HIDE DEF stages
    <2> QED BY <2>1
  <1>6. stages[m.k].argv # <<>> /\ stages[m.k].argv[1] \in Missing
    BY DEF CurCommand, CurCond, CurList
  <1>7. \A i \in DOMAIN g : \A j \in DOMAIN g[i].cargv :
          LET s == g[i].cargv[j].cond_argv
          IN  \A k \in 1 .. Len(s) - 1 :
                s[k].rd_out = <<>> /\ s[k].argv # <<>> => s[k].argv[1] \notin Missing
    BY <1>2, <1>3 DEF WritesPipe
  <1> HIDE DEF g
  <1> QED BY <1>1, <1>2, <1>5, <1>6, <1>7

LEMMA ExecFlow ==
    ASSUME ReadAsMeant, ~ WritesPipe(Missing, Scripts[script].meant),
           FlowInv, NEW p \in Pids, proc[p].kind = "shell", Exec(p)
    PROVE  Flow(proc')
  <1> DEFINE m == proc[p]
             c == CurCommand(m)
             w == Plumbed(m)
             second == [w EXCEPT !.pc = "wait"]
             command == [w EXCEPT !.kind = "command", !.pc = "top", !.z = 0, !.fd_in = 0,
                                  !.fd_out = 0, !.cmd_running = FALSE,
                                  !.interrupted = FALSE, !.clear_cmd = FALSE]
  <1>1. /\ Inv /\ Flow(proc) /\ Typed /\ IsProcess(m) /\ MemoryOK(m, Groups) /\ m.stdout = 0
        /\ m.pc = "exec"
    BY FlowFacts DEF Exec
  <1>2. \/ Become(p, Ended(m, "failed")) \/ Become(p, Ended(m, "killed"))
        \/ c.argv # <<>> /\ c.argv[1] \in Missing /\ Become(p, second)
        \/ Become(p, command)
    BY DEF Exec
  <1>3. /\ IsProcess(w) /\ w.kind = m.kind /\ w.parent = m.parent /\ w.fd_out = m.fd_out
        /\ w.fds = m.fds \ (ReadEnd(m.fd_in) \cup WriteEnd(m.fd_out))
        /\ w.stdin \in {0, m.fd_in, m.stdin}
        /\ w.stdout \in {0, m.fd_out, m.stdout}
    BY <1>1, PlumbedType, PlumbedFields
  <1> HIDE DEF w
  <1>4. /\ second.kind = m.kind /\ second.parent = m.parent /\ second.pc = "wait" /\ second.fd_out = m.fd_out
        /\ second.fds \subseteq m.fds /\ second.stdin = w.stdin /\ second.stdout = w.stdout
    BY <1>3, FieldNames DEF IsProcess
  <1>5. /\ command.kind = "command" /\ command.parent = m.parent
        /\ command.fds \subseteq m.fds /\ command.stdin = w.stdin /\ command.stdout = w.stdout
    BY <1>3, FieldNames DEF IsProcess
  <1> HIDE DEF second, command, c
  <1>6. CASE Become(p, Ended(m, "failed")) \/ Become(p, Ended(m, "killed"))
    BY <1>1, <1>6, EndedMore, Values, FlowBecome
  <1>7. CASE c.argv # <<>> /\ c.argv[1] \in Missing /\ Become(p, second)
    <2>1. m.fd_out = 0
      BY <1>1, <1>7, NoPipeOut DEF c
    <2>2. second.stdout = 0 /\ second.fd_out = 0
      BY <1>1, <1>3, <1>4, <2>1
    <2>3. NoMore(second, m)
      BY <1>1, <1>3, <1>4, <2>2, PidsNumbered DEF NoMore, CanWrite, Source, Outlet, Alive
    <2> QED BY <1>1, <1>7, <2>3, FlowBecome
  <1>8. CASE Become(p, command)
    <2>1. m.fd_out # 0 => <<m.fd_out, "w">> \in m.fds
      BY <1>1 DEF MemoryOK, Joints
    <2>2. NoMore(command, m)
      BY <1>1, <1>3, <1>5, <2>1, PidsNumbered DEF NoMore, CanWrite, Source, Outlet, Alive
    <2> QED BY <1>1, <1>8, <2>2, FlowBecome
  <1> QED BY <1>2, <1>6, <1>7, <1>8

LEMMA WaitStageFlow ==
    ASSUME ReadAsMeant, FlowInv, NEW p \in Pids, proc[p].kind = "shell", WaitStage(p)
    PROVE  Flow(proc')
  <1> DEFINE m == proc[p]
             h == proc'
  <1>1. /\ Flow(proc) /\ Typed /\ IsProcess(m) /\ MemoryOK(m, Groups) /\ m.stdout = 0
        /\ m.pc = "wait"
    BY FlowFacts DEF WaitStage
  <1>2. PICK w : \E s \in Statuses :
          /\ IF m.pid = 0 THEN w = <<0, m.cstatus>> ELSE w \in WaitPid(p, m.pid, m.cstatus)
          /\ Reaped(p, Forgotten(Advance(Closed(m), s)), w[1])
    BY <1>1, WaitStageEffect
  <1>3. PICK s \in Statuses : Reaped(p, Forgotten(Advance(Closed(m), s)), w[1])
    BY <1>2
  <1>4. IF m.pid = 0 THEN w = <<0, m.cstatus>> ELSE w \in WaitPid(p, m.pid, m.cstatus)
    BY <1>2
  <1> DEFINE v == Forgotten(Advance(Closed(m), s))
  <1>5. /\ v.kind = m.kind /\ v.parent = m.parent /\ v.interrupted = m.interrupted
        /\ v.stdin = m.stdin /\ v.stdout = m.stdout
        /\ v.fds = m.fds \ (ReadEnd(m.fd_in) \cup WriteEnd(m.fd_out))
        /\ (v.pc = "stage" /\ v.prev \in {0, m.fd_out}) \/ v.pc \in {"list", "reset"}
    BY <1>1, WaitedFields
  <1>6. Reaped(p, v, w[1])
    BY <1>3
  <1> HIDE DEF v
  <1>7. w[1] # p
    BY <1>1, <1>4, WaitPidReturns, PidsNumbered
  <1>8. h[p] = v /\ (\A r \in Pids \ {p, w[1]} : h[r] = proc[r]) /\ (w[1] \in Pids => h[w[1]].kind = "gone")
    BY <1>6, <1>7, ReapedEffect
  <1> HIDE DEF h
  <1>9. \A x \in Pipes : CanWrite(h[p], x) => CanWrite(proc[p], x)
    BY <1>1, <1>5, <1>8 DEF CanWrite, Alive
  <1>10. ASSUME NEW x \in Pipes, m.fd_out = x, ~ m.interrupted, NEW q \in Pids
         PROVE  ~ CanWrite(h[q], x)
    <2>1. CASE q = p
      <3>1. v.stdout # x
        BY <1>1, <1>5, PidsNumbered
      <3>2. <<x, "w">> \in WriteEnd(m.fd_out)
        BY <1>10, PidsNumbered DEF WriteEnd
      <3> QED BY <1>5, <1>8, <2>1, <3>1, <3>2 DEF CanWrite
    <2>2. CASE q = w[1]
      BY <1>8, <2>2 DEF CanWrite, Alive
    <2>3. CASE q # p /\ q # w[1]
      <3> SUFFICES ASSUME CanWrite(proc[q], x) PROVE FALSE
        BY <1>8, <2>3
      <3>1. Outlet(m, x)
        BY <1>1, <1>10 DEF Outlet
      <3>2. q = m.pid /\ proc[q].parent = p
        BY <1>1, <2>3, <3>1 DEF Flow, OutletsServed
      <3>3. ChildOf(p, proc[q])
        BY <3>2 DEF CanWrite, Alive, ChildOf
      <3>4. w \in WaitPid(p, m.pid, m.cstatus)
        BY <1>4, <3>2, PidsNumbered
      <3>5. w[1] = q \/ m.eintr
        BY <1>1, <3>2, <3>3, <3>4, WaitPidReturns
      <3>6. m.eintr => m.interrupted
        BY <1>1 DEF MemoryOK, Signals
      <3> QED BY <1>10, <2>3, <3>5, <3>6
    <2> QED BY <2>1, <2>2, <2>3
  <1>11. \A x \in Pipes : Source(h[p], x) => Source(proc[p], x) \/ \A q \in Pids : ~ CanWrite(h[q], x)
    <2> SUFFICES ASSUME NEW x \in Pipes, Source(v, x)
                 PROVE  Source(m, x) \/ \A q \in Pids : ~ CanWrite(h[q], x)
      BY <1>8
    <2>1. v.stdin = x \/ (v.pc = "stage" /\ v.prev = x /\ ~ v.interrupted)
      BY <1>5 DEF Source
    <2>2. CASE v.stdin = x
      BY <1>5, <2>2 DEF Source, Alive
    <2>3. CASE v.pc = "stage" /\ v.prev = x /\ ~ v.interrupted
      <3>1. m.fd_out = x /\ ~ m.interrupted
        BY <1>5, <2>3, PidsNumbered
      <3> QED BY <1>10, <3>1
    <2> QED BY <2>1, <2>2, <2>3
  <1>12. \A x \in Pipes : ~ Outlet(h[p], x)
    BY <1>5, <1>8 DEF Outlet
  <1>13. h[p].parent = proc[p].parent /\ h[p].stdout = 0
    BY <1>1, <1>5, <1>8
  <1>14. Flow(h)
    BY <1>1, <1>7, <1>8, <1>9, <1>11, <1>12, <1>13, FlowOne
  <1> QED BY <1>14 DEF h

LEMMA FinishFlow ==
    ASSUME FlowInv, NEW p \in Pids, Finish(p)
    PROVE  Flow(proc')
  <1>1. PICK s \in {"ok", "failed", "killed"} : Become(p, Ended(proc[p], s))
    BY DEF Finish, Endings
  <1>2. Inv /\ Flow(proc) /\ IsProcess(proc[p]) /\ s \in Statuses
    BY Values DEF FlowInv, Inv, Typed
  <1> QED BY <1>1, <1>2, EndedMore, FlowBecome

LEMMA HandledMore ==
    ASSUME NEW m, IsProcess(m), m.stdout = 0
    PROVE  NoMore(Handled(m), m) /\ Handled(m).kind = m.kind
  <1> DEFINE v == Handled(m)
  <1>1. /\ v.kind = m.kind /\ v.parent = m.parent /\ v.pc = m.pc /\ v.pid = m.pid
        /\ v.prev = m.prev /\ v.fd_in = m.fd_in /\ v.fd_out = m.fd_out /\ v.fds = m.fds
        /\ v.stdin = m.stdin /\ v.stdout = m.stdout
        /\ v.interrupted = (m.interrupted \/ m.cmd_running)
    BY HandledFields
  <1> HIDE DEF v
  <1>2. NoMore(v, m)
    BY <1>1 DEF NoMore, CanWrite, Source, Outlet, Alive
  <1> QED BY <1>1, <1>2 DEF v

LEMMA InterruptFlow ==
    ASSUME FlowInv, Interrupt
    PROVE  Flow(proc')
  <1> DEFINE f == proc
             h == proc'
             N == {}
  <1>1. Flow(f) /\ \A p \in Pids : IsProcess(f[p])
    BY DEF FlowInv, Inv, Typed
  <1>2. \A p \in Pids : h[p] = IF f[p].kind = "command" THEN Ended(f[p], "killed")
                               ELSE IF f[p].kind = "shell" THEN Handled(f[p]) ELSE f[p]
    BY DEF Interrupt, Foreground
  <1> HIDE DEF f, h
  <1>3. ASSUME NEW p \in Pids
        PROVE  NoMore(h[p], f[p])
    <2>1. CASE f[p].kind = "command"
      BY <1>1, <1>2, <2>1, EndedMore, Values
    <2>2. CASE f[p].kind = "shell"
      BY <1>1, <1>2, <2>2, HandledMore DEF Flow, ShellsMute
    <2>3. CASE f[p].kind \notin {"command", "shell"}
      <3>1. h[p] = f[p]
        BY <1>2, <2>3
      <3> QED BY <2>3, <3>1 DEF NoMore
    <2> QED BY <2>1, <2>2, <2>3
  <1>4. ShellsMute(h)
    BY <1>3 DEF ShellsMute, NoMore
  <1>5. \A q \in Pids, x \in Pipes \ N : CanWrite(h[q], x) => CanWrite(f[q], x) /\ h[q].parent = f[q].parent
    BY <1>3 DEF NoMore
  <1>6. \A p \in Pids, x \in Pipes \ N : Source(h[p], x) =>
           \/ \E r \in Pids : Source(f[r], x)
           \/ \A q \in Pids : ~ CanWrite(h[q], x)
    BY <1>3 DEF NoMore
  <1>7. \A p \in Pids, x \in Pipes \ N : Outlet(h[p], x) => Outlet(f[p], x) /\ h[p].pid = f[p].pid
    BY <1>3 DEF NoMore
  <1>8. SourcesEnd(h, Pipes \cap N) /\ OutletsServed(h, Pipes \cap N)
    BY DEF SourcesEnd, OutletsServed
  <1> HIDE DEF N
  <1>9. Flow(h)
    BY <1>1, <1>4, <1>5, <1>6, <1>7, <1>8, FlowStep
  <1> QED BY <1>9 DEF h

LEMMA InitFlow ==
    ASSUME Init
    PROVE  Flow(proc)
  <1> DEFINE first == [NoProcess EXCEPT !.kind = "shell"]
  <1>1. proc = [p \in Pids |-> IF p = 1 THEN first ELSE NoProcess]
    BY DEF Init
  <1>2. /\ first.kind = "shell" /\ first.pc = "top" /\ first.stdin = 0 /\ first.stdout = 0 /\ first.fds = {}
        /\ NoProcess.kind = "free"
    BY DEF NoProcess
  <1> HIDE DEF first
  <1>3. \A p \in Pids : proc[p] = first \/ proc[p] = NoProcess
    BY <1>1
  <1>4. \A p \in Pids, x \in Pipes : ~ CanWrite(proc[p], x)
    BY <1>2, <1>3, PidsNumbered DEF CanWrite, Alive
  <1> QED BY <1>2, <1>3, <1>4 DEF Flow, ShellsMute, SourcesEnd, OutletsServed

\* The script stays the one that the shell was started with.
LEMMA SameScript ==
    ASSUME [Next]_vars
    PROVE  script' = script
  <1>1. ASSUME NEW p \in Pids, Step(p) \/ Finish(p)
        PROVE  script' = script
    BY <1>1 DEF Step, Finish, Prompt, ReadLine, Exit, Reset, Reap, NextList, RunList, StartNothing,
                StartCd, StartChild, Exec, WaitStage
  <1> QED BY <1>1 DEF Next, Interrupt, vars

\* The scripts that put a missing program in front of a pipe are the exception.
FlowUnlessMissing == Inv /\ (WritesPipe(Missing, Scripts[script].meant) \/ Flow(proc))

LEMMA FlowInvStep ==
    ASSUME ReadAsMeant, FlowUnlessMissing, [Next]_vars
    PROVE  FlowUnlessMissing'
  <1>1. Inv' /\ script' = script
    BY InvStep, SameScript DEF FlowUnlessMissing
  <1> SUFFICES ASSUME ~ WritesPipe(Missing, Scripts[script].meant) PROVE Flow(proc')
    BY <1>1 DEF FlowUnlessMissing
  <1>2. FlowInv
    BY DEF FlowUnlessMissing, FlowInv
  <1>3. CASE UNCHANGED vars
    <2>1. proc' = proc
      BY <1>3 DEF vars
    <2> QED BY <1>2, <2>1 DEF FlowInv
  <1>4. ASSUME NEW p \in Pids, Step(p)
        PROVE  Flow(proc')
    <2>1. proc[p].kind = "shell"
      BY <1>4 DEF Step
    <2> QED BY <1>2, <1>4, <2>1, PromptFlow, ReadLineFlow, ExitFlow, ResetFlow, ReapFlow, NextListFlow,
               RunListFlow, StartNothingFlow, StartCdFlow, StartChildFlow, ExecFlow, WaitStageFlow
        DEF Step
  <1>5. ASSUME NEW p \in Pids, Finish(p)
        PROVE  Flow(proc')
    BY <1>2, <1>5, FinishFlow
  <1>6. CASE Interrupt
    BY <1>2, <1>6, InterruptFlow
  <1> QED BY <1>3, <1>4, <1>5, <1>6 DEF Next

\* Of lines that are read as they are meant: when a program runs whose input is a pipe, nobody
\* can write to that pipe any more, so that the stages of a pipeline do not run in parallel as
\* sh61.c:378-380 says they do: the shell waits for each one before it starts the next
\* (sh61.c:437-442).  A missing program in front of a pipe is the exception: the second shell
\* that it leaves behind goes on holding the write end (sh61.c:357).
THEOREM Sh61StagesInTurn ==
    ASSUME ReadAsMeant
    PROVE  Spec => [](WritesPipe(Missing, Scripts[script].meant) \/ StagesInTurn)
  <1>1. Init => FlowUnlessMissing
    BY InitInv, InitFlow DEF FlowUnlessMissing
  <1>2. FlowUnlessMissing /\ [Next]_vars => FlowUnlessMissing'
    BY FlowInvStep
  <1>3. FlowUnlessMissing => WritesPipe(Missing, Scripts[script].meant) \/ StagesInTurn
    <2> SUFFICES ASSUME Inv, Flow(proc), NEW p \in Pids, proc[p].kind = "command", proc[p].stdin # 0
                 PROVE  Writers(proc[p].stdin) = {}
      BY DEF StagesInTurn, FlowUnlessMissing
    <2> DEFINE x == proc[p].stdin
    <2>1. IsProcess(proc[p])
      BY DEF Inv, Typed
    <2>2. x \in Pipes
      BY <2>1, FieldsTyped DEF Ends
    <2>3. Source(proc[p], x)
      BY DEF Source, Alive
    <2>4. \A q \in Pids : ~ CanWrite(proc[q], x)
      BY <2>2, <2>3 DEF Flow, SourcesEnd
    <2> QED BY <2>4 DEF Writers, CanWrite, Alive
  <1> QED BY <1>1, <1>2, <1>3, PTL DEF Spec

=============================================================================
