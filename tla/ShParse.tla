------------------------------ MODULE ShParse ------------------------------
(***************************************************************************)
(* The parser of sh.c, and the grammar it is meant to accept.  A line is a *)
(* sequence of "a" (a word) and of the characters in Symbols; ">>" is two  *)
(* of them next to each other.  Words are known by their positions.        *)
(***************************************************************************)
EXTENDS Integers, Sequences, SequencesExt, FiniteSets

CONSTANT MAXARGS
ASSUME ParseAssumption == MAXARGS \in Nat \ {0}

Symbols == {"<", "|", ">", "&", ";", "(", ")"}

(* Commands; "at" is the place of the "|", and tells pipes apart. *)
execcmd(argv) == [type |-> "EXEC", argv |-> argv]
redircmd(c, file, fd) == [type |-> "REDIR", cmd |-> c, file |-> file, fd |-> fd]
pipecmd(l, r, at) == [type |-> "PIPE", left |-> l, right |-> r, at |-> at]
listcmd(l, r) == [type |-> "LIST", left |-> l, right |-> r]
backcmd(c) == [type |-> "BACK", cmd |-> c]
-----------------------------------------------------------------------------
\* The kind of the token at position i, and the position after it.
gettoken(s, i) ==
  IF i > Len(s) THEN [ret |-> "0", next |-> i]
  ELSE IF s[i] = ">" /\ i < Len(s) /\ s[i + 1] = ">"
         THEN [ret |-> "+", next |-> i + 2]
         ELSE [ret |-> s[i], next |-> i + 1]

peek(s, i, toks) == i <= Len(s) /\ s[i] \in toks

\* A parser returns the command and the position after it; 0 is panic().
Panics == [cmd |-> execcmd(<<>>), next |-> 0]

\* Later redirections are put around earlier ones.
Wrap(c, redirs) ==
  FoldLeft(LAMBDA x, r : redircmd(x, r.file, r.fd), c, redirs)

\* parseredirs(), with the redirections found so far; tok is the next one.
RECURSIVE parseredirs(_, _, _)
Redirection(s, tok, redirs) ==
  IF gettoken(s, tok.next).ret # "a" THEN [redirs |-> <<>>, next |-> 0]
  ELSE parseredirs(s, tok.next + 1,
         Append(redirs, [file |-> tok.next,
                         fd |-> IF tok.ret = "<" THEN 0 ELSE 1]))

parseredirs(s, i, redirs) ==
  IF peek(s, i, {"<", ">"}) THEN Redirection(s, gettoken(s, i), redirs)
  ELSE [redirs |-> redirs, next |-> i]

\* The loop of parseexec(): a word, or the end, after the redirections r.
RECURSIVE parseargs(_, _, _)
parseargs(s, r, argv) ==
  IF r.next = 0 THEN Panics
  ELSE IF gettoken(s, r.next).ret \in {"|", ")", "&", ";", "0"}
    THEN [cmd |-> Wrap(execcmd(argv), r.redirs), next |-> r.next]
  ELSE IF gettoken(s, r.next).ret # "a" \/ Len(argv) + 1 >= MAXARGS THEN Panics
  ELSE parseargs(s, parseredirs(s, r.next + 1, r.redirs), Append(argv, r.next))

\* After the ")" of a block c: its redirections r.
Redirected(c, r) ==
  IF r.next = 0 THEN Panics
  ELSE [cmd |-> Wrap(c.cmd, r.redirs), next |-> r.next]

\* The rest of parseblock(), after line c.
EndBlock(s, c) ==
  IF c.next = 0 \/ ~peek(s, c.next, {")"}) THEN Panics
  ELSE Redirected(c, parseredirs(s, c.next + 1, <<>>))

RECURSIVE parseline(_, _)
parseexec(s, i) ==
  IF peek(s, i, {"("}) THEN EndBlock(s, parseline(s, i + 1))
  ELSE parseargs(s, parseredirs(s, i, <<>>), <<>>)

\* cmd is made of what was before an operator and of d, which follows it.
Joined(d, cmd) == IF d.next = 0 THEN Panics ELSE [cmd |-> cmd, next |-> d.next]

RECURSIVE parsepipe(_, _)
Piped(c, d) == Joined(d, pipecmd(c.cmd, d.cmd, c.next))
MorePipe(s, c) ==
  IF c.next = 0 \/ ~peek(s, c.next, {"|"}) THEN c
  ELSE Piped(c, parsepipe(s, c.next + 1))
parsepipe(s, i) == MorePipe(s, parseexec(s, i))

RECURSIVE parseback(_, _)
parseback(s, c) ==
  IF c.next = 0 \/ ~peek(s, c.next, {"&"}) THEN c
  ELSE parseback(s, [cmd |-> backcmd(c.cmd), next |-> c.next + 1])

Listed(c, d) == Joined(d, listcmd(c.cmd, d.cmd))
MoreLine(s, c) ==
  IF c.next = 0 \/ ~peek(s, c.next, {";"}) THEN c
  ELSE Listed(c, parseline(s, c.next + 1))
parseline(s, i) == MoreLine(s, parseback(s, parsepipe(s, i)))

Whole(s, c) == IF c.next = Len(s) + 1 THEN c ELSE Panics

\* Mutation of parsecmd: what is left over is ignored.
parsecmdLeftovers(s) == parseline(s, 1)

\* Leftovers are a syntax error.
parsecmd(s) == Whole(s, parseline(s, 1))

\* The words that nulterminate() ends.
RECURSIVE nulterminate(_)
nulterminate(c) ==
  CASE c.type = "EXEC" -> Range(c.argv)
    [] c.type = "REDIR" -> nulterminate(c.cmd) \cup {c.file}
    [] c.type \in {"PIPE", "LIST"} -> nulterminate(c.left) \cup nulterminate(c.right)
    [] c.type = "BACK" -> nulterminate(c.cmd)
-----------------------------------------------------------------------------
(* The grammar, as the set of commands that positions i to j can stand for: *)
(*   line ::= back | back ; line       back ::= pipe | back &               *)
(*   pipe ::= cmd | cmd "|" pipe       cmd ::= simple | ( line ) redirs     *)

\* Only words and redirections, each redirection with its file.
IsSimple(s, i, j) ==
  \A k \in i..j :
    CASE s[k] = "a" -> TRUE
      [] s[k] = "<" -> k < j /\ s[k + 1] = "a"
      [] s[k] = ">" -> /\ k < j
                       /\ \/ s[k + 1] = "a"
                          \/ /\ s[k + 1] = ">" /\ k + 1 < j /\ s[k + 2] = "a"
                             /\ k > i => s[k - 1] # ">"
      [] OTHER -> FALSE

IsFile(s, i, k) == s[k] = "a" /\ k > i /\ s[k - 1] \in {"<", ">"}
Files(s, i, j) ==
  LET at == SetToSortSeq({k \in i..j : IsFile(s, i, k)}, <) IN
  [n \in 1..Len(at) |-> [file |-> at[n],
                         fd |-> IF s[at[n] - 1] = "<" THEN 0 ELSE 1]]
Words(s, i, j) ==
  SetToSortSeq({k \in i..j : s[k] = "a" /\ ~IsFile(s, i, k)}, <)

RECURSIVE LineOf(_, _, _)
CmdOf(s, i, j) ==
  IF IsSimple(s, i, j)
    THEN {Wrap(execcmd(w), Files(s, i, j)) :
            w \in {v \in {Words(s, i, j)} : Len(v) < MAXARGS}}
  ELSE UNION {{Wrap(c, Files(s, k + 1, j)) : c \in LineOf(s, i + 1, k - 1)} :
                k \in {k \in i + 1..j : /\ s[i] = "(" /\ s[k] = ")"
                                        /\ IsSimple(s, k + 1, j)
                                        /\ Words(s, k + 1, j) = <<>>}}

RECURSIVE PipeOf(_, _, _)
PipeOf(s, i, j) ==
  CmdOf(s, i, j)
    \cup UNION {{pipecmd(c, d, k) : c \in CmdOf(s, i, k - 1),
                                    d \in PipeOf(s, k + 1, j)} :
                  k \in {k \in i..j : s[k] = "|"}}

RECURSIVE BackOf(_, _, _)
BackOf(s, i, j) ==
  PipeOf(s, i, j) \cup IF i <= j /\ s[j] = "&"
                         THEN {backcmd(c) : c \in BackOf(s, i, j - 1)} ELSE {}

LineOf(s, i, j) ==
  BackOf(s, i, j)
    \cup UNION {{listcmd(c, d) : c \in BackOf(s, i, k - 1),
                                 d \in LineOf(s, k + 1, j)} :
                  k \in {k \in i..j : s[k] = ";"}}

\* The parser accepts exactly the lines of the grammar, builds the one command
\* the line stands for, and every word of it is terminated.
ParsedAs(s, r) ==
  IF r.next = 0 THEN LineOf(s, 1, Len(s)) = {}
  ELSE /\ LineOf(s, 1, Len(s)) = {r.cmd}
       /\ nulterminate(r.cmd) = {k \in 1..Len(s) : s[k] = "a"}
=============================================================================
