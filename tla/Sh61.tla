--------------------------------- MODULE Sh61 ----------------------------------
\* The shell of sh61.c: the shell process, the copies of itself that it forks, the
\* commands they turn into, and the pipes and the terminal's interrupts between them.
\* The input is a pipe that is filled already: a copy of the shell that ends cannot move
\* it back.
EXTENDS ShellSyntax

CONSTANTS
    Scripts,        \* a sequence of inputs: [text: the lines as typed, meant: the groups meant]
    Missing,        \* the words that name no program
    Unreadable,     \* the file names that open() refuses; the empty name is one
    Big,            \* the programs that write more than a pipe holds
    Crashing,       \* the programs that die of a signal of their own
    MaxProcs,       \* bound on the processes of a behaviour
    MaxPipes,       \* bound on the pipes that are open at the same time
    MaxInterrupts   \* bound on the interrupts of a behaviour

Pids == 1 .. MaxProcs
Pipes == 1 .. MaxPipes
Statuses == {"ok", "failed", "killed"}

\* What a line can mean: lists of pipelines, of which none is empty.
NonEmptySeq(S) == Seq(S) \ {<<>>}
Words == Seq(STRING)
Commands == [argv : Seq(Words), rd_in : Seq(Words), rd_out : Seq(Words), rd_err : Seq(Words),
             rd_count : Nat, cd : BOOLEAN]
Conditionals == [cond_argv : NonEmptySeq(Commands), continue_if : {0, 1}]
CommandLists == [cargv : NonEmptySeq(Conditionals), background : BOOLEAN]

ASSUME Sh61Assumption ==
    /\ Scripts \in NonEmptySeq([text : Seq(Words), meant : Seq(Seq(CommandLists))])
    /\ {MaxProcs, MaxPipes} \subseteq Nat \ {0}
    /\ MaxInterrupts \in Nat
    /\ <<>> \in Unreadable

VARIABLES
    script,         \* the input, an index of Scripts
    proc,           \* the processes
    interrupts,     \* how often the user has interrupted
    ran,            \* history: how each command that was forked ended, or "running"
    cut             \* history: the lists that an interrupt has cut short

vars == <<script, proc, interrupts, ran, cut>>

-----------------------------------------------------------------------------
\* A process.  `kind` is "command" once execvp() has succeeded, "zombie" once it has
\* ended with status `exit`, "gone" once it has been waited for.  What a shell has in
\* its memory: where it is (pc), the line n, the next line of its own stdio buffer, the
\* globals of sh61.c, the group, the positions i, j, k in its lists, conditionals and
\* stages, and the locals of run_list().  prev is pipe_in->pipefd of the stage, fd_in and
\* fd_out are those of its command, 0 for -1.  fds are the pipe ends it holds beside
\* stdin and stdout, which are a pipe or 0.  job (history) is the list that a child was forked for.
NoProcess ==
    [kind |-> "free", parent |-> 0, exit |-> "ok", pc |-> "top", n |-> 0, next |-> 1,
     z |-> 0, interrupted |-> FALSE, cmd_running |-> FALSE, clear_cmd |-> FALSE, eintr |-> FALSE,
     group |-> <<>>, i |-> 0, j |-> 0, k |-> 0, stop_process |-> FALSE, job |-> <<>>,
     pid |-> -1, status |-> "ok", cstatus |-> "ok",
     prev |-> 0, fd_in |-> 0, fd_out |-> 0, fds |-> {}, stdin |-> 0, stdout |-> 0]

\* main() up to its loop.
Init ==
    /\ script \in 1 .. Len(Scripts)
    /\ proc = [p \in Pids |-> IF p = 1 THEN [NoProcess EXCEPT !.kind = "shell"] ELSE NoProcess]
    /\ interrupts = 0
    /\ ran = <<>>
    /\ cut = {}

\* The groups that eval_line() builds of the lines.
Parsed == [s \in DOMAIN Scripts |-> [n \in DOMAIN Scripts[s].text |-> Parse(Scripts[s].text[n])]]
Groups == Parsed[script]

\* The lines say what they are meant to say.
ReadAsMeant == \A s \in DOMAIN Scripts : Parsed[s] = Scripts[s].meant

Ended(m, s) == [NoProcess EXCEPT !.kind = "zombie", !.parent = m.parent, !.exit = s,
                                 !.job = m.job]

ReadEnd(pipe) == IF pipe = 0 THEN {} ELSE {<<pipe, "r">>}
WriteEnd(pipe) == IF pipe = 0 THEN {} ELSE {<<pipe, "w">>}

\* The list, conditional, stage and command that a shell is at.
CurList(m) == m.group[m.i]
CurCond(m) == CurList(m).cargv[m.j]
CurCommand(m) == CurCond(m).cond_argv[m.k]
Place(m) == <<m.n, m.i, m.j, m.k>>
Noted(f, c, s) == [d \in DOMAIN f \cup {c} |-> IF d = c THEN s ELSE f[d]]
PipesOut(m) == m.k < Len(CurCond(m).cond_argv) /\ CurCommand(m).rd_out = <<>>
PipesIn(m) == m.k > 1 /\ CurCommand(m).rd_in = <<>>

Children(p) == {q \in Pids : proc[q].parent = p /\ proc[q].kind \notin {"free", "gone"}}
Unused == {q \in Pids : proc[q].kind = "free"}

\* Who can read from a pipe, and who can write to it.
Readers(pipe) == {p \in Pids : proc[p].kind \in {"shell", "command"}
                                 /\ (proc[p].stdin = pipe \/ <<pipe, "r">> \in proc[p].fds)}
Writers(pipe) == {p \in Pids : proc[p].kind \in {"shell", "command"}
                                 /\ (proc[p].stdout = pipe \/ <<pipe, "w">> \in proc[p].fds)}

\* A redirection of the command that handle_rd() cannot open.
BadFile(c) == \E f \in {c.rd_in, c.rd_out, c.rd_err} : f # <<>> /\ f[1] \in Unreadable

Become(p, m) == proc' = [proc EXCEPT ![p] = m]

\* fork(): p goes on as m, the new process as child.
Fork(p, m, child) ==
    /\ Unused # {}
    /\ LET q == Min(Unused)
       IN  proc' = [proc EXCEPT ![p] = IF m.pc = "wait" THEN [m EXCEPT !.pid = q] ELSE m,
                                ![q] = [child EXCEPT !.parent = p]]

-----------------------------------------------------------------------------
\* main()

\* The prompt is printed, and cmd_running reset before fgets().
Prompt(p) ==
    /\ proc[p].pc = "top"
    /\ Become(p, [proc[p] EXCEPT !.cmd_running = FALSE, !.pc = "read"])
    /\ UNCHANGED <<script, interrupts, ran, cut>>

\* fgets() and the first half of eval_line().  A copy of the shell has a copy of the
\* lines that wait in the stdio buffer.
ReadLine(p) ==
    LET m == proc[p]
    IN  /\ m.pc = "read"
        /\ m.next <= Len(Groups)
        /\ Become(p, [m EXCEPT !.group = Groups[m.next], !.n = m.next, !.next = @ + 1,
                               !.z = 0, !.i = 1, !.pc = "list"])
        /\ UNCHANGED <<script, interrupts, ran, cut>>

\* End of file.
Exit(p) ==
    /\ proc[p].pc = "read"
    /\ proc[p].next > Len(Groups)
    /\ Become(p, Ended(proc[p], "ok"))
    /\ UNCHANGED <<script, interrupts, ran, cut>>

\* Slip: reap_zombies() counts down to a pid that is not there.
ResetAndReap(p) ==
    /\ proc[p].pc = "reset"
    /\ Become(p, [proc[p] EXCEPT !.clear_cmd = FALSE, !.interrupted = FALSE, !.pc = "reap"])
    /\ UNCHANGED <<script, interrupts, ran, cut>>

\* The end of the loop of main(): requests to interrupt are forgotten.
Reset(p) ==
    LET m == proc[p]
    IN  /\ m.pc = "reset"
        /\ Become(p, [m EXCEPT !.clear_cmd = FALSE, !.interrupted = FALSE,
                               !.pc = IF m.z = 0 THEN "top" ELSE "reap"])
        /\ UNCHANGED <<script, interrupts, ran, cut>>

\* Slip: waiting for no child at all is not an error but waits for ever.
WaitPidForEver(p, pid, old) ==
    LET sought == IF pid \in Pids THEN Children(p) \cap {pid} ELSE Children(p)
    IN  {<<q, proc[q].exit>> : q \in {r \in sought : proc[r].kind = "zombie"}}
          \cup (IF proc[p].eintr THEN {<<0, old>>} ELSE {})

\* What waitpid(pid) can return to p: a child that it reaps and its status, or <<0, old>>
\* when there is nothing to wait for or a signal came.  -1 and 0 stand for any child.
WaitPid(p, pid, old) ==
    LET sought == IF pid \in Pids THEN Children(p) \cap {pid} ELSE Children(p)
    IN  {<<q, proc[q].exit>> : q \in {r \in sought : proc[r].kind = "zombie"}}
          \cup (IF sought = {} \/ proc[p].eintr THEN {<<0, old>>} ELSE {})

\* p goes on as m, having reaped q.
Reaped(p, m, q) ==
    proc' = [r \in Pids |-> IF r = p THEN m
                            ELSE IF r = q THEN [NoProcess EXCEPT !.kind = "gone"] ELSE proc[r]]

\* One round of reap_zombies().  The pids it is given are 0: only a copy of the shell whose
\* execvp() failed has put one there.
Reap(p) ==
    LET m == proc[p]
    IN  /\ m.pc = "reap"
        /\ \E w \in WaitPid(p, 0, "ok") :
             Reaped(p, [m EXCEPT !.z = @ - 1, !.eintr = FALSE, !.pc = IF m.z = 1 THEN "top" ELSE "reap"], w[1])
        /\ UNCHANGED <<script, interrupts, ran, cut>>

-----------------------------------------------------------------------------
\* eval_line(), its second half

\* The group and all that hangs on it.
list_group_free(m) == [m EXCEPT !.group = <<>>, !.i = 0, !.j = 0, !.k = 0]

\* Where eval_line() returns to main().
EvalDone(m) == [list_group_free(m) EXCEPT !.cmd_running = FALSE, !.stop_process = FALSE,
                                          !.pid = -1, !.status = "ok", !.pc = "reset"]

\* The next list of the group.  An interrupt ends the line here, with the group not freed
\* and cmd_running as it is.
NextList(p) ==
    LET m == proc[p]
    IN  /\ m.pc = "list"
        /\ \/ m.interrupted /\ m.i <= Len(m.group) /\ Become(p, [m EXCEPT !.pc = "reset"])
           \/ m.i > Len(m.group) /\ Become(p, EvalDone(m))
           \/ /\ m.i <= Len(m.group) /\ ~m.interrupted /\ CurList(m).background
              /\ Fork(p, [m EXCEPT !.i = @ + 1],
                      [m EXCEPT !.stop_process = TRUE, !.job = <<m.n, m.i>>, !.pc = "run"])
           \/ /\ m.i <= Len(m.group) /\ ~m.interrupted /\ ~CurList(m).background
              /\ Become(p, [m EXCEPT !.stop_process = FALSE, !.pc = "run"])
        /\ UNCHANGED <<script, interrupts, ran, cut>>

\* run_list() begins.
RunList(p) ==
    /\ proc[p].pc = "run"
    /\ Become(p, [proc[p] EXCEPT !.cmd_running = TRUE, !.j = 1, !.k = 1, !.pid = -1,
                                 !.status = "ok", !.prev = 0, !.pc = "stage"])
    /\ UNCHANGED <<script, interrupts, ran, cut>>

-----------------------------------------------------------------------------
\* run_list() and start_command()

\* pipe(), and what the command is told of its pipes.
WithPipes(m, pipe) ==
    [m EXCEPT !.fds = @ \cup ReadEnd(pipe) \cup WriteEnd(pipe), !.fd_out = pipe,
              !.fd_in = IF PipesIn(m) THEN m.prev ELSE 0, !.cstatus = "ok", !.pc = "wait"]

NewPipes(m) ==
    LET free == {x \in Pipes : Readers(x) \cup Writers(x) = {}}
    IN  IF PipesOut(m) THEN {x \in free : \A y \in free : x <= y} ELSE {0}

\* An interrupted list starts no command, and waits for the pid of an earlier one.
StartNothing(p) ==
    /\ proc[p].pc = "stage" /\ proc[p].interrupted
    /\ \E pipe \in NewPipes(proc[p]) : Become(p, WithPipes(proc[p], pipe))
    /\ UNCHANGED <<script, interrupts, ran, cut>>

\* A command with the word cd in it runs in the shell.  handle_rd() ends the shell when a
\* file cannot be opened, and leaves stdin redirected.
StartCd(p) ==
    LET m == proc[p]
        c == CurCommand(m)
        results == IF Len(c.argv) = 1 THEN {"failed"} ELSE {"ok", "failed"}
    IN  /\ m.pc = "stage" /\ ~m.interrupted /\ c.cd
        /\ \E pipe \in NewPipes(m), s \in results :
             \/ BadFile(c) /\ s = "failed" /\ Become(p, Ended(m, s)) /\ ran' = Noted(ran, Place(m), s)
             \/ /\ ~BadFile(c)
                /\ Become(p, [WithPipes(m, pipe) EXCEPT !.cstatus = s, !.pid = p,
                                                        !.stdin = IF c.rd_in = <<>> THEN @ ELSE 0])
                /\ ran' = Noted(ran, Place(m), s)
        /\ UNCHANGED <<script, interrupts, cut>>

\* fork().
StartChild(p) ==
    LET m == proc[p]
    IN  /\ m.pc = "stage" /\ ~m.interrupted /\ ~CurCommand(m).cd
        /\ \E pipe \in NewPipes(m) :
             Fork(p, WithPipes(m, pipe), [WithPipes(m, pipe) EXCEPT !.pid = 0, !.job = <<m.n, m.i>>, !.pc = "exec"])
        /\ ran' = IF CurCommand(m).argv = <<>> THEN ran ELSE Noted(ran, Place(m), "running")
        /\ UNCHANGED <<script, interrupts, cut>>

\* dup2() and close() in the child; a redirection overrides the pipe.
Plumbed(m) ==
    LET c == CurCommand(m)
        std(rd, fd, old) == IF rd # <<>> THEN 0 ELSE IF fd # 0 THEN fd ELSE old
    IN  [m EXCEPT !.stdin = std(c.rd_in, m.fd_in, @), !.stdout = std(c.rd_out, m.fd_out, @),
                  !.fds = @ \ (ReadEnd(m.fd_in) \cup WriteEnd(m.fd_out)), !.z = @ + 1]

\* The child from there on: it exits, dies of an argv that is null, becomes the command,
\* or, when there is no such program, goes on in run_list() as a second shell.
Exec(p) ==
    LET m == proc[p]
        c == CurCommand(m)
        says(s) == ran' = [ran EXCEPT ![Place(m)] = s]
    IN  /\ m.pc = "exec"
        /\ \/ BadFile(c) /\ Become(p, Ended(m, "failed")) /\ IF c.argv = <<>> THEN ran' = ran ELSE says("failed")
           \/ ~BadFile(c) /\ c.argv = <<>> /\ Become(p, Ended(m, "killed")) /\ ran' = ran
           \/ /\ ~BadFile(c) /\ c.argv # <<>> /\ c.argv[1] \in Missing
              /\ Become(p, [Plumbed(m) EXCEPT !.pc = "wait"])
              /\ says("failed")
           \/ /\ ~BadFile(c) /\ c.argv # <<>> /\ c.argv[1] \notin Missing
              /\ Become(p, [Plumbed(m) EXCEPT !.kind = "command", !.pc = "top", !.z = 0, !.fd_in = 0, !.fd_out = 0,
                                              !.cmd_running = FALSE, !.interrupted = FALSE, !.clear_cmd = FALSE])
              /\ ran' = ran
        /\ UNCHANGED <<script, interrupts, cut>>

\* The status of a pipeline so far, behind a command whose status is s.  A command that
\* was killed leaves it as it was.
PipelineStatus(m, s) ==
    IF s # "killed" THEN s ELSE IF CurCommand(m).cd THEN "failed" ELSE m.status

\* Slip: only && is ever skipped.
SkipAndOnly(cond, status) == IF status = "failed" /\ cond.continue_if = 0 THEN 2 ELSE 1

\* How many conditionals to go on by: one is skipped when its operator says so.
Skip(cond, status) ==
    IF \/ status = "ok" /\ cond.continue_if = 1
       \/ status = "failed" /\ cond.continue_if = 0
    THEN 2 ELSE 1

\* The next stage, conditional or list, behind a stage that left `status`.
Advance(m, status) ==
    LET j == m.j + Skip(CurCond(m), status)
    IN  CASE m.k < Len(CurCond(m).cond_argv) ->
               [m EXCEPT !.k = @ + 1, !.prev = m.fd_out, !.status = status, !.pc = "stage"]
          [] m.k = Len(CurCond(m).cond_argv) /\ j <= Len(CurList(m).cargv) ->
               [m EXCEPT !.j = j, !.k = 1, !.prev = 0, !.status = "ok", !.pc = "stage"]
          [] OTHER -> IF m.stop_process THEN EvalDone(m)
                      ELSE [m EXCEPT !.i = @ + 1, !.j = 0, !.k = 0, !.prev = 0, !.status = "ok", !.pc = "list"]

\* Slips: the shell closes one of the two ends alone.
ClosedForReading(m) == [m EXCEPT !.fds = @ \ ReadEnd(m.fd_in)]
ClosedForWriting(m) == [m EXCEPT !.fds = @ \ WriteEnd(m.fd_out)]

\* The ends of this command are closed; the one its right neighbour reads stays open.
Closed(m) == [m EXCEPT !.fds = @ \ (ReadEnd(m.fd_in) \cup WriteEnd(m.fd_out))]

\* waitpid() for this stage alone, then the descriptors are closed and the status read.
WaitStage(p) ==
    LET m == proc[p]
        forgotten(v) == [v EXCEPT !.fd_in = 0, !.fd_out = 0, !.cstatus = "ok", !.eintr = FALSE]
    IN  /\ m.pc = "wait"
        /\ \E w \in IF m.pid = 0 THEN {<<0, m.cstatus>>} ELSE WaitPid(p, m.pid, m.cstatus) :
             Reaped(p, forgotten(Advance(Closed(m), PipelineStatus(m, w[2]))), w[1])
        /\ UNCHANGED <<script, interrupts, ran, cut>>

-----------------------------------------------------------------------------
\* The programs that run, and the user

\* A program that fills its pipe while nobody reads from it.
Blocked(m) == /\ CurCommand(m).argv[1] \in Big /\ m.stdout # 0
              /\ \A q \in Pids : proc[q].kind = "command" => proc[q].stdin # m.stdout

\* How a program ends if nobody kills it.
Endings(c) == IF c.argv[1] \in Crashing THEN {"killed"} ELSE {"ok", "failed"}

\* A program ends.  One that reads from a pipe has read until its end.
Finish(p) ==
    LET m == proc[p]
    IN  /\ m.kind = "command"
        /\ m.stdin # 0 => Writers(m.stdin) = {}
        /\ ~Blocked(m)
        /\ \E s \in Endings(CurCommand(m)) :
             Become(p, Ended(m, s)) /\ ran' = [ran EXCEPT ![Place(m)] = s]
        /\ UNCHANGED <<script, interrupts, cut>>

\* Whom the terminal signals.  The groups 1, 2, ... that run_list() chooses do not exist,
\* so setpgid() and set_foreground() fail and everyone stays in the group of the shell.
Foreground == {p \in Pids : proc[p].kind \in {"shell", "command"}}

\* interrupt_handler().  A waitpid() that blocks may return at once.
Handled(m) ==
    [m EXCEPT !.interrupted = @ \/ m.cmd_running, !.clear_cmd = @ \/ ~m.cmd_running,
              !.eintr = m.pc \in {"wait", "reap"}]

\* The lists that a shell gives up when it is interrupted.
GivenUp(m) ==
    IF m.kind # "shell" \/ ~m.cmd_running \/ m.pc \notin {"list", "run", "stage", "wait"} THEN {}
    ELSE IF m.stop_process THEN {<<m.n, m.i>>}
    ELSE {<<m.n, h>> : h \in m.i .. Len(m.group)}

Interrupt ==
    LET killed == {p \in Foreground : proc[p].kind = "command"}
    IN  /\ interrupts < MaxInterrupts
        /\ interrupts' = interrupts + 1
        /\ proc' = [p \in Pids |-> IF p \notin Foreground THEN proc[p]
                                   ELSE IF p \in killed THEN Ended(proc[p], "killed") ELSE Handled(proc[p])]
        /\ ran' = [c \in DOMAIN ran |-> IF c \in {Place(proc[p]) : p \in killed} THEN "killed" ELSE ran[c]]
        /\ cut' = cut \cup UNION {GivenUp(proc[p]) : p \in Pids}
        /\ UNCHANGED script

\* A step of a shell.
Step(p) ==
    /\ proc[p].kind = "shell"
    /\ \/ Prompt(p) \/ ReadLine(p) \/ Exit(p) \/ Reset(p) \/ Reap(p)
       \/ NextList(p) \/ RunList(p) \/ StartNothing(p) \/ StartCd(p) \/ StartChild(p)
       \/ Exec(p) \/ WaitStage(p)

Next == (\E p \in Pids : Step(p) \/ Finish(p)) \/ Interrupt

\* The system runs every process that can run, and programs end.
Spec == Init /\ [][Next]_vars /\ \A p \in Pids : WF_vars(Step(p)) /\ WF_vars(Finish(p))

-----------------------------------------------------------------------------
\* Properties

\* The variables are of their types.
TypeOK ==
    /\ script \in DOMAIN Scripts
    /\ DOMAIN proc = Pids
    /\ \A p \in Pids : LET m == proc[p] IN
         /\ DOMAIN m = DOMAIN NoProcess
         /\ m.kind \in {"free", "shell", "command", "zombie", "gone"}
         /\ m.parent \in Pids \cup {0} /\ m.z \in Nat
         /\ {m.exit, m.status, m.cstatus} \subseteq Statuses
         /\ m.pc \in {"top", "read", "list", "run", "stage", "exec", "wait", "reset", "reap"}
         /\ m.pid \in Pids \cup {-1, 0}
         /\ {m.prev, m.fd_in, m.fd_out, m.stdin, m.stdout} \subseteq Pipes \cup {0}
         /\ m.fds \subseteq Pipes \X {"r", "w"}
    /\ interrupts \in 0 .. MaxInterrupts
    /\ \A c \in DOMAIN ran : ran[c] \in Statuses \cup {"running"}
    /\ cut \subseteq Nat \X Nat

\* What the user sees is what a shell promises: of the lists, conditionals and pipelines
\* that the lines mean, each command runs when it is due and once, whatever children end
\* in what order, and an interrupted list starts nothing more (sh61.c:386-625).  The code
\* keeps this for the scripts that MCSh61 calls Tame and breaks it for others.
Promise == INSTANCE Shell WITH script <- Scripts[script].meant
ImplementsShell == Promise!Spec

\* A program of S is in front of a pipe in one of the lines.
WritesPipe(S, lines) ==
    \E n \in DOMAIN lines : \E i \in DOMAIN lines[n] : \E j \in DOMAIN lines[n][i].cargv :
      LET stages == lines[n][i].cargv[j].cond_argv
      IN  \E k \in 1 .. Len(stages) - 1 :
            stages[k].rd_out = <<>> /\ stages[k].argv # <<>> /\ stages[k].argv[1] \in S

\* The end of a pipe comes in time: a program that reads one has its last writer, shell or
\* child, close it at some time (sh61.c:348-355, 437-442).  Were stages started in
\* parallel this would be no less true.
ReadersSeeEnd ==
    \A x \in Pipes :
      LET reading == \E p \in Pids : proc[p].kind = "command" /\ proc[p].stdin = x
      IN  reading ~> (~reading \/ Writers(x) = {})

\* Stages run in turn, against sh61.c:378-380: a program whose input is a pipe is started
\* when nobody can write to the pipe any more.  With a missing program in front of a pipe
\* not even that: the copy of the shell that fork() left in its place keeps the write end
\* as its stdout and starts the next stage itself (sh61.c:344-363, 418-421).
StagesInTurn ==
    \A p \in Pids : proc[p].kind = "command" /\ proc[p].stdin # 0 => Writers(proc[p].stdin) = {}

\* A stage with < behind a pipe: the read end that nobody asked for is never closed.
LeavesReadEnd(g) ==
    \E i \in DOMAIN g : \E j \in DOMAIN g[i].cargv :
      LET stages == g[i].cargv[j].cond_argv
      IN  \E k \in 2 .. Len(stages) : stages[k].rd_in # <<>> /\ stages[k - 1].rd_out = <<>>

\* When a shell prompts it has given back what the lines before took: the pipe ends, and
\* every child but background jobs and what it was interrupted at (sh61.c:418-442).
PromptTidy ==
    \A p \in Pids : LET m == proc[p] IN
      m.kind = "shell" /\ m.pc = "top" =>
        /\ m.fds # {} => \E n \in 1 .. m.n : LeavesReadEnd(Scripts[script].meant[n])
        /\ \A x \in Pipes : <<x, "w">> \notin m.fds
        /\ \A q \in Children(p) : LET l == proc[q].job IN
             l \in cut \/ (l # m.job /\ Scripts[script].meant[l[1]][l[2]].background)

AllEnded == \A p \in Pids : proc[p].kind \in {"free", "zombie", "gone"}

\* A stage fills its pipe and the shell waits for it before it starts the reader.
Stalled == \E p \in Pids : proc[p].kind = "command" /\ Blocked(proc[p])

\* The script comes to its end with everything run that was due, and so does every copy of
\* the shell: nobody waits for a child that has been reaped, for himself, or for the end of
\* a pipe that is held open.  Only a script with a stage in front of a pipe that writes
\* more than the pipe holds may stand still there instead, because its reader is not
\* started before it has ended (sh61.c:418-421, against 378-380).
ScriptEnds ==
    \/ <>[](AllEnded /\ Promise!NothingDue)
    \/ WritesPipe(Big, Scripts[script].meant) /\ <>[]Stalled

\* A child process stops after the list that it was forked for (sh61.c:607, 618-621).
BackgroundStops ==
    \A p \in Pids : LET m == proc[p] IN
      m.kind = "shell" /\ m.job # <<>> /\ m.pc \in {"run", "stage", "wait"} => <<m.n, m.i>> = m.job

=============================================================================
