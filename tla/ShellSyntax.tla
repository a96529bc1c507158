------------------------------ MODULE ShellSyntax ------------------------------
\* The syntax of sh61: how parse_shell_token() of helpers.c cuts a line into tokens,
\* and the lists, conditionals and pipelines that eval_line() of sh61.c builds of them.
\* A line, a word and a file name are sequences of characters, which are strings of
\* length one.  main() hands over a line with its newline, which Tokens appends here.
EXTENDS Integers, Sequences, SequencesExt

-----------------------------------------------------------------------------
\* Tokens

Digits == {"0", "1", "2", "3", "4", "5", "6", "7", "8", "9"}
Quotes == {"\"", "'"}

\* isspace().
Blanks == {" ", "\n"}

\* isshellspecial(): the characters that end a word.
Special == {"<", ">", "&", "|", ";", "(", ")", "#"}

\* The NUL that ends the string is "".
At(line, i) == IF i <= Len(line) THEN line[i] ELSE ""

\* The first position from i on whose character is not in S.
Past(line, i, S) == Min({j \in i .. Len(line) : line[j] \notin S} \cup {Max({i, Len(line) + 1})})

\* Where a redirection operator with its < or > at d ends.  Behind the digits of >&n one
\* more character is skipped, whatever it is.
RedirectionEnd(line, d) ==
    CASE At(line, d + 1) = ">" -> d + 2
      [] At(line, d + 1) = "&" /\ At(line, d + 2) \in Digits -> Past(line, d + 2, Digits) + 1
      [] OTHER -> d + 1

\* The character becomes part of the word.
buildstring_append(w, ch) == [w EXCEPT !.text = Append(@, ch), !.escaped = FALSE]

\* One round of the loop that reads a word: `quoted` is the quote that is open, `escaped`
\* says that the last character was a backslash.  A backslash never ends the string: the
\* newline follows, and it becomes part of the word like one between quotes.
ReadChar(w, ch) ==
    IF w.done \/ (~w.escaped /\ w.quoted = "" /\ ch \in Special \cup Blanks)
    THEN [w EXCEPT !.done = TRUE]
    ELSE LET v == [w EXCEPT !.next = @ + 1]
             plain == buildstring_append(v, ch)
         IN  CASE w.escaped -> plain
               [] ~w.escaped /\ ch \in Quotes /\ w.quoted = "" -> [v EXCEPT !.quoted = ch]
               [] ~w.escaped /\ ch = w.quoted -> [v EXCEPT !.quoted = ""]
               [] ~w.escaped /\ ch = "\\" /\ w.quoted # "'" -> [v EXCEPT !.escaped = TRUE]
               [] OTHER -> plain

Word(line, start) ==
    LET nothing == [text |-> <<>>, next |-> start, quoted |-> "", escaped |-> FALSE, done |-> FALSE]
        places == [n \in 1 .. Len(line) - start + 1 |-> start + n - 1]
        w == FoldLeft(LAMBDA v, i : ReadChar(v, line[i]), nothing, places)
    IN  [type |-> "normal", text |-> w.text, next |-> w.next]

\* parse_shell_token(): the token at position i; `next` is where the next one is looked for.
parse_shell_token(line, i) ==
    LET start == Past(line, i, Blanks)
        d == Past(line, start, Digits)
        c == At(line, d)
        token(type, next) == [type |-> type, text |-> SubSeq(line, start, next - 1), next |-> next]
    IN  CASE At(line, start) \in {"", "#"} -> [type |-> "end", text |-> <<>>, next |-> start]
          [] c \in {"<", ">"} -> token("redirection", RedirectionEnd(line, d))
          [] d = start /\ c = "&" /\ At(line, d + 1) = "&" -> token("and", d + 2)
          [] d = start /\ c = "|" /\ At(line, d + 1) = "|" -> token("or", d + 2)
          [] d = start /\ c = ";" -> token("sequence", d + 1)
          [] d = start /\ c = "&" /\ At(line, d + 1) # "&" -> token("background", d + 1)
          [] d = start /\ c = "|" /\ At(line, d + 1) # "|" -> token("pipe", d + 1)
          [] d = start /\ c \in {"(", ")"} -> token("paren", d + 1)
          [] OTHER -> Word(line, start)

\* All tokens of a line.
Tokens(line) ==
    LET text == Append(line, "\n")
        from[i \in 1 .. Len(text) + 1] ==
          LET t == parse_shell_token(text, i)
          IN  IF t.type = "end" THEN <<>> ELSE <<t>> \o from[t.next]
    IN  from[1]

-----------------------------------------------------------------------------
\* Structures

\* struct command as command_alloc() makes it.  A redirect is a sequence that holds the
\* name of the file, <<>> for the null pointer.  The fields in which a command keeps what
\* happens when it runs (pid, status, fd_in, fd_out) are in the memory of the shell.
command_alloc == [argv |-> <<>>, rd_in |-> <<>>, rd_out |-> <<>>, rd_err |-> <<>>,
                  rd_count |-> 0, cd |-> FALSE]

\* A redirect without a file name; open(NULL) fails like open("").
rd_alloc == << <<>> >>

\* struct conditional: the stages of a pipeline.  Its command stands for struct pipeline,
\* whose pipe_in and pipe_out are the neighbours.
conditional_alloc == [cond_argv |-> <<command_alloc>>, continue_if |-> 0]

\* struct command_list, and struct list_group as a sequence of lists.
command_list_alloc == [cargv |-> <<conditional_alloc>>, background |-> FALSE]
list_group_alloc == <<command_list_alloc>>

\* The list, the conditional and the command that eval_line() works on are the last ones.
OnLast(s, F(_)) == [s EXCEPT ![Len(s)] = F(@)]
InList(g, F(_)) == OnLast(g, F)
InCond(g, F(_)) == InList(g, LAMBDA l : [l EXCEPT !.cargv = OnLast(@, F)])
InCommand(g, F(_)) == InCond(g, LAMBDA c : [c EXCEPT !.cond_argv = OnLast(@, F)])

list_group_append_lst(g) == Append(g, command_list_alloc)
command_list_append_arg(g) == InList(g, LAMBDA l : [l EXCEPT !.cargv = Append(@, conditional_alloc)])
conditional_append_arg(g) == InCond(g, LAMBDA c : [c EXCEPT !.cond_argv = Append(@, command_alloc)])
command_append_arg(g, word) == InCommand(g, LAMBDA c : [c EXCEPT !.argv = Append(@, word)])

\* What new_list, new_cond and new_pipe ask for happens when the next token comes, so
\* that an operator at the end of a line leaves no empty command behind.
Renew(g, new) ==
    CASE new = "list" -> list_group_append_lst(g)
      [] new = "cond" -> command_list_append_arg(g)
      [] new = "pipe" -> conditional_append_arg(g)
      [] OTHER -> g

\* The field of the command that a redirection sets; >> and >&n set none.
RedirectionField(text) ==
    CASE text = <<"<">> -> "rd_in"
      [] text = <<">">> -> "rd_out"
      [] text = <<"2", ">">> -> "rd_err"
      [] OTHER -> "none"

Redirect(g, field, rd) ==
    IF field = "none" THEN g ELSE InCommand(g, LAMBDA c : [c EXCEPT ![field] = rd])

\* One round of the loop of eval_line().  The token behind a redirection is its file name,
\* whatever its type; `rd` is the field that waits for it.
EvalToken(b, t) ==
    LET g == Renew(b.group, b.new)
        built(group, new) == [group |-> group, new |-> new, rd |-> ""]
        continued(n) == built(InCond(g, LAMBDA c : [c EXCEPT !.continue_if = n]), "cond")
        named == IF t.text = <<"c", "d">> THEN InCommand(g, LAMBDA c : [c EXCEPT !.cd = TRUE]) ELSE g
        field == RedirectionField(t.text)
        counted == InCommand(g, LAMBDA c : [c EXCEPT !.rd_count = @ + 1])
    IN  CASE b.rd # "" -> built(Redirect(b.group, b.rd, <<t.text>>), "")
          [] b.rd = "" /\ t.type = "redirection" ->
               [built(Redirect(counted, field, rd_alloc), "") EXCEPT !.rd = field]
          [] b.rd = "" /\ t.type = "background" ->
               built(InList(g, LAMBDA l : [l EXCEPT !.background = TRUE]), "list")
          [] b.rd = "" /\ t.type = "sequence" -> built(g, "list")
          [] b.rd = "" /\ t.type = "and" -> continued(0)
          [] b.rd = "" /\ t.type = "or" -> continued(1)
          [] b.rd = "" /\ t.type = "pipe" -> built(g, "pipe")
          [] OTHER -> built(command_append_arg(named, t.text), "")

\* The first half of eval_line(): the group of lists that a line asks for.
Parse(line) ==
    FoldLeft(EvalToken, [group |-> list_group_alloc, new |-> "", rd |-> ""], Tokens(line)).group

=============================================================================
