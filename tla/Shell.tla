------------------------------- MODULE Shell -------------------------------
(***************************************************************************)
(* The shell sh.c and init.c as processes: what they and the processes of  *)
(* runcmd() do, one system call a step, and the descriptors they pass on.  *)
(* A process is the sequence of calls it has still to make.  Of the system  *)
(* calls the model has what they do to processes, descriptors and pipes.    *)
(* A program that is run reads descriptor 0 to its end (cat.c) or writes to *)
(* descriptor 1 (echo.c), and ends.  cd is left out: it starts nothing.     *)
(***************************************************************************)
EXTENDS ShParse

CONSTANTS Sessions,   \* bound: what may be typed, line after line
          Busy,       \* bound: jobs of earlier shells that do not end
          NPROC,      \* processes that fit in the table
          NOFILE,     \* descriptors of a process
          PIPESIZE,   \* what fits in a pipe
          Outputs     \* what a program may write

\* gets() returns nothing.
EOF == <<"eof">>

ASSUME ShellAssumption ==
  /\ NPROC \in Nat \ {0} /\ NOFILE \in Nat \ {0} /\ PIPESIZE \in Nat \ {0}
  /\ Outputs \subseteq Nat
  /\ Busy \subseteq 0..NPROC - 1
  /\ \A s \in Sessions : \A i \in DOMAIN s :
       s[i] = EOF \/ Range(s[i]) \subseteq Symbols \cup {"a"}

Procs == 1..NPROC
Init1 == 1            \* the init process
Fds == 0..NOFILE - 1

\* Files: the console; a file by the line and the place its name is at; the ends
\* of a pipe by those of its "|".
File(kind, id) == [kind |-> kind, id |-> id]
Closed == File("closed", <<0, 0>>)
Console == File("console", <<0, 0>>)

VARIABLES lines,   \* what has been typed
          proc,    \* processes
          pipes,   \* what is in each pipe
          failed   \* history: lines in which a fork() or pipe() has failed
vars == <<lines, proc, pipes, failed>>

(* The calls of the programs. *)
Call(op, x) == [op |-> op, x |-> x]
Exit == Call("exit", 0)
Wait == Call("wait", 0)
Panic == Call("panic", 0)

Unused == [code |-> <<>>, parent |-> 0, fds |-> [f \in Fds |-> Closed],
           p |-> <<0, 0>>, back |-> FALSE, line |-> 0, at |-> 0]

\* A line, with what parsecmd() returns for it.
Typed(s) == [buf |-> s, parse |-> IF s = EOF THEN Panics ELSE parsecmd(s)]

\* Where a "|" may be: a line of a session and a place in it.
Places == UNION {UNION {{<<n, i>> : i \in DOMAIN s[n]} : n \in DOMAIN s} :
                   s \in Sessions}

Stdfds == [f \in Fds |-> IF f < 3 THEN Console ELSE Closed]

\* init has opened the console three times; some slots are taken by its children.
Init == /\ lines = <<>>
        /\ \E busy \in Busy : proc = [q \in Procs |->
             CASE q = Init1 ->
                    [Unused EXCEPT !.code = <<Call("forksh", 0)>>, !.fds = Stdfds]
               [] q > NPROC - busy ->
                    [Unused EXCEPT !.code = <<Call("busy", 0)>>, !.fds = Stdfds,
                                   !.parent = Init1, !.back = TRUE]
               [] OTHER -> Unused]
        /\ pipes = [i \in Places |-> 0]
        /\ failed = {}

\* An exited process keeps <<>> until it is reaped: its parent is set.
Alive == {q \in Procs : proc[q].code # <<>>}
Zombies == {q \in Procs : proc[q].code = <<>> /\ proc[q].parent # 0}
Free == {q \in Procs : proc[q].code = <<>> /\ proc[q].parent = 0}

\* Process p is about to make call op; its argument; the calls after it.
Calls(p, op) == p \in Alive /\ Head(proc[p].code).op = op
Arg(p) == Head(proc[p].code).x
Then(p) == Tail(proc[p].code)

\* p's descriptors become fds, and it goes on with code.
Does(p, fds, code) == [proc EXCEPT ![p].fds = fds, ![p].code = code]
LowestFree(fds) == Min({f \in Fds : fds[f] = Closed})
HasFree(fds, n) == Cardinality({f \in Fds : fds[f] = Closed}) >= n
-----------------------------------------------------------------------------
(* runcmd *)

\* Mutation of PipeCalls: the parent keeps the write end.
PipeCallsKeeping(c) ==
  <<Call("pipe", c.at), Call("forkleft", c.left), Call("forkright", c.right),
    Call("closep", 1), Wait, Wait, Exit>>

PipeCalls(c) ==
  <<Call("pipe", c.at), Call("forkleft", c.left), Call("forkright", c.right),
    Call("closep", 1), Call("closep", 2), Wait, Wait, Exit>>

\* Mutation of Side: the original end of the pipe stays open.
SideKeeping(c, fd, end) ==
  <<Call("close", fd), Call("dupp", end), Call("closep", 3 - end), Call("run", c)>>

\* What the two children of a pipe do before their command.
Side(c, fd, end) ==
  <<Call("close", fd), Call("dupp", end), Call("closep", 1), Call("closep", 2),
    Call("run", c)>>

\* Mutation of ListCalls: the right command does not wait for the left one.
ListCallsNoWait(c) == <<Call("fork", c.left), Call("run", c.right)>>

ListCalls(c) == <<Call("fork", c.left), Wait, Call("run", c.right)>>

\* The calls runcmd() makes for command c.
Runcmd(c) ==
  CASE c.type = "EXEC" -> IF c.argv = <<>> THEN <<Exit>>
                          ELSE <<Call("exec", c.argv[1]), Exit>>
    [] c.type = "REDIR" -> <<Call("close", c.fd), Call("open", c.file),
                             Call("run", c.cmd)>>
    [] c.type = "LIST" -> ListCalls(c)
    [] c.type = "PIPE" -> PipeCalls(c)
    [] c.type = "BACK" -> <<Call("forkback", c.cmd), Exit>>

Run(p) == /\ Calls(p, "run")
          /\ proc' = Does(p, proc[p].fds, Runcmd(Arg(p)))
          /\ UNCHANGED <<lines, pipes, failed>>

\* runcmd(parsecmd(buf)); panic() exits.
Parse(p) == /\ Calls(p, "parse")
            /\ LET parse == lines[proc[p].line].parse IN
               proc' = Does(p, proc[p].fds, IF parse.next = 0 THEN <<Exit>>
                                            ELSE Runcmd(parse.cmd))
            /\ UNCHANGED <<lines, pipes, failed>>

\* A copy of p with code, at work on line n; in the background from forkback on.
Forks(p, code, n, back) ==
  IF Free = {}
    THEN proc' = Does(p, proc[p].fds, <<Exit>>) /\ failed' = failed \cup {n}
    ELSE /\ proc' = [Does(p, proc[p].fds, Then(p)) EXCEPT ![Min(Free)] =
              [proc[p] EXCEPT !.code = code, !.parent = p, !.line = n,
                              !.back = @ \/ back]]
         /\ UNCHANGED failed

\* fork1() panics when fork() fails: the shell itself, too.
Fork1(p) ==
  /\ LET n == proc[p].line IN
     \/ Calls(p, "fork") /\ Forks(p, <<Call("run", Arg(p))>>, n, FALSE)
     \/ Calls(p, "forkback") /\ Forks(p, <<Call("run", Arg(p))>>, n, TRUE)
     \/ Calls(p, "forkleft") /\ Forks(p, Side(Arg(p), 1, 2), n, FALSE)
     \/ Calls(p, "forkright") /\ Forks(p, Side(Arg(p), 0, 1), n, FALSE)
     \/ Calls(p, "forkline") /\ Forks(p, <<Call("parse", 0)>>, Len(lines), FALSE)
  /\ UNCHANGED <<lines, pipes>>
-----------------------------------------------------------------------------
(* The system calls, as far as the shell uses them. *)

Close(p) ==
  /\ Calls(p, "close") \/ Calls(p, "closep")
  /\ LET fd == IF Calls(p, "close") THEN Arg(p) ELSE proc[p].p[Arg(p)] IN
     proc' = Does(p, [proc[p].fds EXCEPT ![fd] = Closed], Then(p))
  /\ UNCHANGED <<lines, pipes, failed>>

\* open() of a redirection; when it fails the process exits.
Open(p) ==
  /\ Calls(p, "open")
  /\ \/ /\ HasFree(proc[p].fds, 1)
        /\ proc' = Does(p, [proc[p].fds EXCEPT ![LowestFree(proc[p].fds)] =
                              File("file", <<proc[p].line, Arg(p)>>)], Then(p))
     \/ proc' = Does(p, proc[p].fds, <<Exit>>)
  /\ UNCHANGED <<lines, pipes, failed>>

\* dup(p[end])
Dup(p) ==
  /\ Calls(p, "dupp")
  /\ LET fds == proc[p].fds IN
     proc' = Does(p, IF HasFree(fds, 1)
                       THEN [fds EXCEPT ![LowestFree(fds)] = fds[proc[p].p[Arg(p)]]]
                       ELSE fds, Then(p))
  /\ UNCHANGED <<lines, pipes, failed>>

\* pipe(p); panic("pipe") when there are no descriptors for it.
Pipe(p) ==
  /\ Calls(p, "pipe")
  /\ LET fds == proc[p].fds
         r == LowestFree(fds)
         w == LowestFree([fds EXCEPT ![r] = Console])
         id == <<proc[p].line, Arg(p)>>
     IN  IF HasFree(fds, 2)
           THEN /\ proc' = [Does(p, [fds EXCEPT ![r] = File("r", id),
                                                ![w] = File("w", id)], Then(p))
                              EXCEPT ![p].p = <<r, w>>]
                /\ UNCHANGED failed
           ELSE /\ proc' = Does(p, fds, <<Exit>>)
                /\ failed' = failed \cup {proc[p].line}
  /\ UNCHANGED <<lines, pipes>>

Children(p) == {q \in Procs : proc[q].parent = p}

\* wait(): a child is reaped, or there is none.
WaitCall(p) ==
  /\ Calls(p, "wait")
  /\ IF Children(p) = {} THEN proc' = Does(p, proc[p].fds, Then(p))
     ELSE \E q \in Children(p) \cap Zombies :
            proc' = [Does(p, proc[p].fds, Then(p)) EXCEPT ![q] = Unused]
  /\ UNCHANGED <<lines, pipes, failed>>

\* exit(): the descriptors are closed, init gets the children.
ExitCall(p) ==
  /\ Calls(p, "exit")
  /\ proc' = [q \in Procs |->
       IF q = p THEN [Unused EXCEPT !.parent = proc[p].parent]
       ELSE IF q \in Children(p) THEN [proc[q] EXCEPT !.parent = Init1]
       ELSE proc[q]]
  /\ UNCHANGED <<lines, pipes, failed>>

\* exec() fails or runs a program; a program of the shell's is at its word.
Exec(p) ==
  /\ Calls(p, "exec")
  /\ \/ proc' = Does(p, proc[p].fds, Then(p))
     \/ \E code \in {<<Call("read", 0), Exit>>}
                      \cup {[i \in 1..n |-> Call("write", 0)] \o <<Exit>> :
                              n \in Outputs} :
          proc' = [Does(p, proc[p].fds, code) EXCEPT ![p].at = Arg(p)]
  /\ UNCHANGED <<lines, pipes, failed>>

Holds(end, i) == \E q \in Procs, f \in Fds : proc[q].fds[f] = File(end, i)

\* cat.c reads descriptor 0 and copies what it gets, until the end.
Read(p) ==
  /\ Calls(p, "read")
  /\ LET f == proc[p].fds[0] IN
     IF f.kind # "r" \/ (pipes[f.id] = 0 /\ ~Holds("w", f.id))
       THEN proc' = Does(p, proc[p].fds, Then(p)) /\ UNCHANGED pipes
       ELSE /\ pipes[f.id] > 0
            /\ pipes' = [pipes EXCEPT ![f.id] = @ - 1]
            /\ proc' = Does(p, proc[p].fds, <<Call("copy", 0)>> \o proc[p].code)
  /\ UNCHANGED <<lines, failed>>

\* A program writes to descriptor 1, which fails if nobody can read it.  Then cat.c
\* exits; echo.c goes on.
Write(p) ==
  /\ Calls(p, "write") \/ Calls(p, "copy")
  /\ LET f == proc[p].fds[1]
         fails == f.kind \in {"closed", "r"} \/ (f.kind = "w" /\ ~Holds("r", f.id))
     IN  /\ IF f.kind # "w" \/ fails THEN UNCHANGED pipes
            ELSE pipes[f.id] < PIPESIZE /\ pipes' = [pipes EXCEPT ![f.id] = @ + 1]
         /\ proc' = Does(p, proc[p].fds,
                         IF fails /\ Calls(p, "copy") THEN <<Exit>> ELSE Then(p))
  /\ UNCHANGED <<lines, failed>>
-----------------------------------------------------------------------------
(* main of sh.c and of init.c *)

\* "Ensure that three file descriptors are open."
Console3(p) ==
  /\ Calls(p, "console")
  /\ HasFree(proc[p].fds, 1)
  /\ LET fd == LowestFree(proc[p].fds) IN
     proc' = IF fd >= 3 THEN Does(p, proc[p].fds, Then(p))
             ELSE Does(p, [proc[p].fds EXCEPT ![fd] = Console], proc[p].code)
  /\ UNCHANGED <<lines, pipes, failed>>

\* What may come after what has been typed.
Inputs == {s[Len(lines) + 1] : s \in
             {s \in Sessions : /\ Len(s) > Len(lines)
                              /\ \A i \in DOMAIN lines : lines[i].buf = s[i]}}

\* The next line is typed, or the input has ended and the shell exits.
Getcmd(p) ==
  /\ Calls(p, "getcmd")
  /\ \E s \in Inputs :
       /\ lines' = Append(lines, Typed(s))
       /\ proc' = Does(p, proc[p].fds, IF s = EOF THEN <<Exit>>
                       ELSE <<Call("forkline", 0), Wait>> \o proc[p].code)
  /\ UNCHANGED <<pipes, failed>>

\* init starts a shell, reaps what it gets, and starts another when the shell
\* ends.  When it cannot, it exits, which is a panic of the kernel.
InitFork(p) ==
  /\ Calls(p, "forksh")
  /\ proc' = IF Free = {} THEN Does(p, proc[p].fds, <<Panic>>)
             ELSE [proc EXCEPT
               ![p].code = <<Call("waitsh", Min(Free))>>,
               ![Min(Free)] = [proc[p] EXCEPT
                  !.code = <<Call("console", 0), Call("getcmd", 0)>>, !.parent = p]]
  /\ UNCHANGED <<lines, pipes, failed>>

InitWait(p) ==
  /\ Calls(p, "waitsh")
  /\ \E q \in Children(p) \cap Zombies :
       proc' = [proc EXCEPT
         ![q] = Unused,
         ![p].code = IF q = Arg(p) THEN <<Call("forksh", 0)>> ELSE @]
  /\ UNCHANGED <<lines, pipes, failed>>

Step(p) == \/ Run(p) \/ Parse(p) \/ Fork1(p) \/ Close(p) \/ Open(p) \/ Dup(p)
           \/ Pipe(p) \/ WaitCall(p) \/ ExitCall(p) \/ Exec(p) \/ Read(p)
           \/ Write(p) \/ Console3(p) \/ InitFork(p) \/ InitWait(p)

Next == \E p \in Procs : Step(p) \/ Getcmd(p)

Spec == Init /\ [][Next]_vars /\ \A p \in Procs : WF_vars(Step(p))
-----------------------------------------------------------------------------
(* Properties. *)

\* parsecmd() accepts the lines of the shell's grammar and no others, and makes
\* of them the one command they stand for, every word of it terminated.
ParsesGrammar ==
  \A p \in Procs : Calls(p, "parse") =>
    LET line == lines[proc[p].line] IN ParsedAs(line.buf, line.parse)

\* Descriptors 0 and 1 of the programs of command c of line n that is run with in
\* and out.
RECURSIVE Stdio(_, _, _, _)
Stdio(c, n, in, out) ==
  CASE c.type = "EXEC" -> IF c.argv = <<>> THEN {}
                          ELSE {[at |-> c.argv[1], in |-> in, out |-> out]}
    [] c.type = "REDIR" -> LET file == File("file", <<n, c.file>>) IN
                           Stdio(c.cmd, n, IF c.fd = 0 THEN file ELSE in,
                                           IF c.fd = 1 THEN file ELSE out)
    [] c.type = "LIST" -> Stdio(c.left, n, in, out) \cup Stdio(c.right, n, in, out)
    [] c.type = "PIPE" -> Stdio(c.left, n, in, File("w", <<n, c.at>>))
                            \cup Stdio(c.right, n, File("r", <<n, c.at>>), out)
    [] c.type = "BACK" -> Stdio(c.cmd, n, in, out)

\* A program that is run has its input, its output and the console as descriptors
\* 0, 1 and 2, connected as its line says, and no other descriptor: the closes
\* and dups of runcmd() leave no end of a pipe behind, and background jobs of
\* earlier lines do not get into it.
RightDescriptors ==
  \A p \in Alive : proc[p].at # 0 =>
    /\ [at |-> proc[p].at, in |-> proc[p].fds[0], out |-> proc[p].fds[1]]
         \in Stdio(lines[proc[p].line].parse.cmd, proc[p].line, Console, Console)
    /\ proc[p].fds[2] = Console
    /\ \A f \in Fds : f > 2 => proc[p].fds[f] = Closed

AtPrompt(p) == Calls(p, "getcmd")

\* Whenever the shell asks for the next line, what it has run in the foreground
\* has ended, except of lines on whose way a fork() or pipe() has failed.
ForegroundDone ==
  (\E p \in Procs : AtPrompt(p)) =>
    \A q \in Alive \ {Init1} :
      AtPrompt(q) \/ proc[q].back \/ proc[q].line \in failed

\* Again and again the shell, or the one init starts in its place, asks for a
\* line: no pipe stays open, no wait() is without an end, and a shell that cannot
\* fork is replaced.  (When the table is full as the shell ends, init cannot start
\* another.)
PromptReturns == []<>(\/ \E p \in Procs : AtPrompt(p)
                      \/ Calls(Init1, "panic"))
=============================================================================
