--------------------------------- MODULE Shell ---------------------------------
\* What a shell promises: the commands of a script run when the operators between them
\* say so, each once.  A script is a sequence of lines, a line a group of lists as
\* ShellSyntax has them.  The stages of a pipeline may run at the same time, and so may a
\* background list and all that follows it.
EXTENDS Integers, Sequences, FiniteSets, TLC

VARIABLES script,     \* the lines
          ran,        \* how each command that was started ended, or that it is running
          cut         \* the lists that an interrupt has cut short

vars == <<script, ran, cut>>

Statuses == {"ok", "failed", "killed"}

Lists == UNION {{<<n, i>> : i \in DOMAIN script[n]} : n \in DOMAIN script}

\* <<n, i, j, k>> is stage k of pipeline j of list i of line n.  A stage without any word
\* is no command.
Stages(n, i, j) == script[n][i].cargv[j].cond_argv
Commands(n, i) == UNION {{<<n, i, j, k>> : k \in DOMAIN Stages(n, i, j)} : j \in DOMAIN script[n][i].cargv}
StageOf(c) == Stages(c[1], c[2], c[3])[c[4]]

\* How pipeline j ended: as its last command did.
Outcome(n, i, j) ==
    LET stages == {k \in DOMAIN Stages(n, i, j) : Stages(n, i, j)[k].argv # <<>>}
        ended(k) == <<n, i, j, k>> \in DOMAIN ran /\ ran[<<n, i, j, k>>] # "running"
        last == <<n, i, j, Len(Stages(n, i, j))>>
    IN  CASE \E k \in stages : ~ended(k) -> "pending"
          [] (\A k \in stages : ended(k)) /\ last[4] \notin stages -> "ok"
          [] OTHER -> ran[last]

\* What && and || in front of pipeline j ask of the status so far.
Asked(conds, j, status) ==
    \/ j = 1
    \/ conds[j - 1].continue_if = 0 /\ status = "ok"
    \/ conds[j - 1].continue_if = 1 /\ status \in {"failed", "killed"}

\* The status of list i behind its first j pipelines; those not asked for leave it alone.
StatusAfter(n, i) ==
    LET conds == script[n][i].cargv
        after[j \in 0 .. Len(conds)] ==
          IF j = 0 THEN "ok"
          ELSE IF Asked(conds, j, after[j - 1]) THEN Outcome(n, i, j) ELSE after[j - 1]
    IN  after

Over(n, i) == <<n, i>> \in cut \/ StatusAfter(n, i)[Len(script[n][i].cargv)] # "pending"

\* Everything in front of list i is over but for background lists.
Reached(n, i) ==
    \A l \in Lists : \/ script[l[1]][l[2]].background
                     \/ l[1] > n \/ (l[1] = n /\ l[2] >= i)
                     \/ Over(l[1], l[2])

\* Command c is to run now.
Due(c) ==
    /\ StageOf(c).argv # <<>>
    /\ c \notin DOMAIN ran
    /\ <<c[1], c[2]>> \notin cut
    /\ Reached(c[1], c[2])
    /\ Asked(script[c[1]][c[2]].cargv, c[3], StatusAfter(c[1], c[2])[c[3] - 1])

\* Nothing is left that ought to run.
NothingDue == \A l \in Lists : \A c \in Commands(l[1], l[2]) : ~Due(c)

-----------------------------------------------------------------------------
Init == ran = <<>> /\ cut = {}

\* A command starts; cd, which the shell runs itself, is over at once.
Start(c) ==
    /\ Due(c)
    /\ \E s \in {"running", "ok", "failed"} : ran' = [d \in DOMAIN ran \cup {c} |-> IF d = c THEN s ELSE ran[d]]
    /\ UNCHANGED <<script, cut>>

\* A command that is running ends.
End(c) ==
    /\ ran[c] = "running"
    /\ \E s \in Statuses : ran' = [ran EXCEPT ![c] = s]
    /\ UNCHANGED <<script, cut>>

\* The user interrupts: commands that are running are killed, lists are cut short.
Interrupt ==
    \E killed \in SUBSET {c \in DOMAIN ran : ran[c] = "running"} :
      \E lists \in SUBSET Lists :
        /\ ran' = [c \in DOMAIN ran |-> IF c \in killed THEN "killed" ELSE ran[c]]
        /\ cut' = cut \cup lists
        /\ UNCHANGED script

Next == \/ \E l \in Lists : \E c \in Commands(l[1], l[2]) : Start(c)
        \/ \E c \in DOMAIN ran : End(c)
        \/ Interrupt

Spec == Init /\ [][Next]_vars

=============================================================================
