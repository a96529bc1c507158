-------------------------------- MODULE MCSh61 ---------------------------------
\* Instances of Sh61: scripts that are written from what they mean, so that the parser
\* is held against the grammar.
EXTENDS Sh61

\* The characters of the words: a letter, c and d for cd, a digit, a blank, an operator.
a == <<"a">>
b == <<"b">>
big == <<"B">>
nosuch == <<"x">>
crash == <<"k">>
cd == <<"c", "d">>
f == <<"f">>
two == <<"2">>
blank == <<"a", " ", ";">>
nofile == <<"n">>

Cmd(words) == [command_alloc EXCEPT !.argv = words, !.cd = \E k \in DOMAIN words : words[k] = cd]
From(c, file) == [c EXCEPT !.rd_in = <<file>>, !.rd_count = @ + 1]
To(c, file) == [c EXCEPT !.rd_out = <<file>>, !.rd_count = @ + 1]
Err(c, file) == [c EXCEPT !.rd_err = <<file>>, !.rd_count = @ + 1]

\* A pipeline and the operator behind it, a list and a line.
Pipe(stages) == [cond_argv |-> stages, continue_if |-> 0]
And(stages) == Pipe(stages)
Or(stages) == [cond_argv |-> stages, continue_if |-> 1]
Fore(conds) == [cargv |-> conds, background |-> FALSE]
Back(conds) == [cargv |-> conds, background |-> TRUE]
Simple(words) == Fore(<<Pipe(<<Cmd(words)>>)>>)

\* How a line is spelled: with `gap` around its operators, and what is special in a word
\* quoted as style says.
Spelled(word, style) ==
    IF \A i \in DOMAIN word : word[i] \notin Special \cup {" "} THEN word
    ELSE IF style = "backslash" THEN FlattenSeq([i \in DOMAIN word |-> <<"\\", word[i]>>])
    ELSE <<style>> \o word \o <<style>>

Joined(parts, operator(_)) ==
    FlattenSeq([i \in DOMAIN parts |-> parts[i] \o (IF i < Len(parts) THEN operator(i) ELSE <<>>)])

RdText(operator, rd, gap) == IF rd = <<>> THEN <<>> ELSE <<" ">> \o operator \o gap \o rd[1]
CmdText(c, style, gap) ==
    Joined([i \in DOMAIN c.argv |-> Spelled(c.argv[i], style)], LAMBDA i : <<" ">>)
      \o RdText(<<"<">>, c.rd_in, gap) \o RdText(<<">">>, c.rd_out, gap) \o RdText(<<"2", ">">>, c.rd_err, gap)
PipeText(stages, style, gap) ==
    Joined([k \in DOMAIN stages |-> CmdText(stages[k], style, gap)], LAMBDA k : gap \o <<"|">> \o gap)
ListText(conds, style, gap) ==
    Joined([j \in DOMAIN conds |-> PipeText(conds[j].cond_argv, style, gap)],
           LAMBDA j : gap \o (IF conds[j].continue_if = 0 THEN <<"&", "&">> ELSE <<"|", "|">>) \o gap)
LineText(g, style, gap) ==
    FlattenSeq([i \in DOMAIN g |-> ListText(g[i].cargv, style, gap)
                                     \o (IF g[i].background THEN <<"&">> ELSE IF i < Len(g) THEN <<";">> ELSE <<>>) \o gap])

Script(lines, style, gap) ==
    [meant |-> lines, text |-> [n \in DOMAIN lines |-> LineText(lines[n], style, gap)]]
Commented(s) == [s EXCEPT !.text = [n \in DOMAIN @ |-> @[n] \o <<" ", "#", "a">>]]
Tight(lines) == Script(lines, "\"", <<>>)
Wide(lines) == Script(lines, "backslash", <<" ">>)
Quoted(lines) == Script(lines, "'", <<" ">>)

A == Cmd(<<a>>)
B == Cmd(<<b>>)
K == Cmd(<<crash>>)
X == Cmd(<<nosuch>>)
Chain(operator1(_), operator2(_)) == Fore(<<operator1(<<A>>), operator2(<<B>>), Pipe(<<A>>)>>)

ForegroundScripts == <<
    Tight(<< <<Chain(And, Or)>>, <<Simple(<<b, blank, two>>)>> >>),
    Wide(<< <<Chain(Or, And)>>, <<Simple(<<a, blank>>)>> >>),
    Commented(Tight(<< <<Simple(<<a>>), Simple(<<b>>)>>, <<Simple(<<a>>)>>, <<Simple(<<b>>)>> >>)),
    Tight(<< <<Fore(<<And(<<A, B>>), Pipe(<<B, A>>)>>)>>, <<Simple(<<a>>)>> >>),
    Wide(<< <<Fore(<<Or(<<A, B, A>>), Pipe(<<B>>)>>)>> >>),
    Tight(<< <<Fore(<<And(<<Cmd(<<cd, a>>)>>), Pipe(<<B>>)>>), Simple(<<cd>>)>> >>),
    Wide(<< <<Fore(<<Or(<<From(A, nofile)>>), Pipe(<<To(B, f)>>)>>)>>, <<Simple(<<a>>)>> >>),
    Tight(<< <<Fore(<<Pipe(<<A, From(B, f)>>)>>)>>, <<Fore(<<Pipe(<<Err(A, f), B>>)>>)>> >>),
    Wide(<< <<Fore(<<And(<<To(A, f), B>>), Pipe(<<From(Cmd(<<cd, a>>), nofile)>>)>>)>> >>),
    Tight(<< <<Fore(<<Pipe(<<Cmd(<<big>>), B>>)>>)>>, <<Simple(<<a>>)>> >>),
    Tight(<< <<Simple(<<crash>>), Fore(<<Or(<<K, B>>), Pipe(<<A>>)>>)>>, <<Simple(<<b>>)>> >>),
    Wide(<< <<Fore(<<And(<<A>>), Pipe(<<B, K>>)>>)>>, <<Simple(<<a>>)>> >>)
    >>

BackgroundScripts == <<
    Quoted(<< <<Simple(<<>>)>>, <<Back(<<Pipe(<<A>>)>>), Simple(<<b, blank>>)>> >>),
    Tight(<< <<Back(<<And(<<A, B>>), Pipe(<<A>>)>>), Fore(<<Pipe(<<B>>)>>)>> >>),
    Wide(<< <<Back(<<Pipe(<<A>>)>>), Back(<<Pipe(<<B>>)>>)>> >>),
    Wide(<< <<Simple(<<a>>)>>, <<Simple(<<nosuch>>)>> >>)
    >>

TidyScripts == ForegroundScripts \o BackgroundScripts

\* A background list in front of another line.
JobScripts == ForegroundScripts \o << Tight(<< <<Back(<<Pipe(<<A>>)>>)>>, <<Simple(<<b>>)>> >>) >>

\* The places of the commands of a script, and the list and the pipelines of one.
PlacesOf(lines) ==
    UNION {UNION {UNION {{<<n, i, j, k>> : k \in DOMAIN lines[n][i].cargv[j].cond_argv}
                         : j \in DOMAIN lines[n][i].cargv} : i \in DOMAIN lines[n]} : n \in DOMAIN lines}
ListOf(lines, c) == lines[c[1]][c[2]]
CommandAt(lines, c) == ListOf(lines, c).cargv[c[3]].cond_argv[c[4]]
IsLast(lines, c) ==
    LET later(d) == \E n \in 1 .. 4 : d[n] > c[n] /\ \A h \in 1 .. n - 1 : d[h] = c[h]
    IN  ~\E d \in PlacesOf(lines) : later(d)

\* The scripts for which the code keeps the promise of a shell.  In others
\* - the copy of the shell that a missing program leaves runs what follows as well,
\*   and so does the one of a background list, the lines that follow (sh61.c:357, 619),
\* - a file that cannot be opened for cd ends the shell (sh61.c:310, handle_rd()),
\* - a command that a signal ends, or that has no word, leaves the status of the one
\*   before it, or 0, to the && and || behind it (sh61.c:444-451),
\* - an operator is not looked at when the one before it skips (sh61.c:456-463).
Tame(lines) ==
    \A c \in PlacesOf(lines) :
      LET command == CommandAt(lines, c)
          conds == ListOf(lines, c).cargv
      IN  /\ command.argv # <<>> /\ command.argv[1] \in Missing => IsLast(lines, c)
          /\ ListOf(lines, c).background => c[1] = Len(lines)
          /\ command.cd /\ BadFile(command) => IsLast(lines, c)
          /\ c[3] < Len(conds) /\ c[4] = Len(conds[c[3]].cond_argv) =>
               command.argv # <<>> /\ command.argv[1] \notin Crashing
          /\ c[3] < Len(conds) - 1 => conds[c[3]].continue_if # conds[c[3] + 1].continue_if

\* A script for each way to break it, with the property that TLC then finds violated when
\* a configuration takes that script alone.
BrokenScripts == <<
    \* k&&b, k||b and a&&b&&a: b is run, not run, and a is run.
    Tight(<< <<Fore(<<And(<<K>>), Pipe(<<B>>)>>)>> >>),                 \* ImplementsShell
    Tight(<< <<Fore(<<Or(<<K>>), Pipe(<<B>>)>>)>> >>),                  \* ScriptEnds
    Tight(<< <<Fore(<<And(<<A>>), And(<<B>>), Pipe(<<A>>)>>)>> >>),     \* ImplementsShell
    \* a& and x in front of a line b, which is run twice.
    Tight(<< <<Back(<<Pipe(<<A>>)>>)>>, <<Simple(<<b>>)>> >>),          \* ImplementsShell
    Tight(<< <<Simple(<<nosuch>>)>>, <<Simple(<<b>>)>> >>),             \* ImplementsShell
    \* x|b: b waits for the end of a pipe that it can write to itself.
    Tight(<< <<Fore(<<Pipe(<<X, B>>)>>)>> >>),                          \* ReadersSeeEnd, ScriptEnds
    \* cd a <n in front of a line b, which is never run.
    Tight(<< <<Fore(<<Pipe(<<From(Cmd(<<cd, a>>), nofile)>>)>>)>>, <<Simple(<<b>>)>> >>) \* ScriptEnds
    >>

ASSUME ScriptsReadAsMeant == ReadAsMeant
ASSUME ScriptsTame ==
    /\ \A s \in DOMAIN TidyScripts : Tame(TidyScripts[s].meant)
    /\ \A s \in DOMAIN BrokenScripts : ~Tame(BrokenScripts[s].meant)

MCMissing == {nosuch}
MCUnreadable == {nofile, <<>>}
MCBig == {big}
MCCrashing == {crash}

=============================================================================
