------------------------------- MODULE MCProc -------------------------------
(***************************************************************************)
(* Programs for Proc.  Disciplined holds the uses of processes and threads *)
(* under which the properties hold; each of the others leaves that         *)
(* discipline in one point.                                                *)
(***************************************************************************)
EXTENDS Proc, TLC

Program(main, lwp, forked, joins, fails) ==
  [calls |-> [init |-> {"fork", "wait"}, main |-> main, lwp |-> lwp,
              forked |-> forked],
   kills |-> 1..MaxPid, joins |-> joins, fails |-> fails]

\* Processes only, with memory for all of them and without.
Processes == Program({"fork", "wait", "kill", "exit", "io"}, {}, {}, FALSE, {})
Failing == Program({"fork", "wait", "exit", "io"}, {}, {}, FALSE,
                   {"kstack", "copyuvm"})

\* Threads that are created, end with thread_exit() and are joined.
Joining == Program({"thread_create", "thread_join", "exit", "io"},
                   {"thread_exit", "io"}, {}, TRUE, {"allocuvm"})

\* Threads that end with the process: exit() from any of them.
Exiting == Program({"thread_create", "exit", "io"}, {"exit", "io"}, {}, FALSE, {})

\* Threads that fork and wait for their children (forktest in test_thread2.c).
Forking == Program({"thread_create", "thread_join", "exit"},
                   {"fork", "wait", "thread_exit"}, {"exit"}, TRUE, {})

Disciplined == {Processes, Failing, Joining, Exiting, Forking}

\* The theorems of ProcProofs are about these programs, among others.
ASSUME DisciplineSupported == \A g \in Disciplined : Supported(g)

\* kill() with the pid of slots that are not in use.
KillingZero == {[Processes EXCEPT !.kills = {0}]}

\* kill() with the pid of a fork() that has failed.
KillingFailed == {[Processes EXCEPT !.fails = {"kstack", "copyuvm"}]}

\* Two processes, with threads, one of which kills the other.
Neighbours == {[Exiting EXCEPT !.calls.main = @ \cup {"fork", "kill"}]}

\* A main thread with threads that waits for a child process.
Waiting == {Program({"thread_create", "wait"}, {"thread_exit"}, {}, TRUE, {})}

\* Threads that leave children behind.
Orphaning == {[Forking EXCEPT !.joins = FALSE]}

\* Threads that call kill().
Killing == {Program({"thread_create"}, {"kill"}, {}, TRUE, {})}

\* A main thread that ends without joining the threads that have ended.
Leaving == {Program({"thread_create", "exit"}, {"thread_exit"}, {}, FALSE, {})}
=============================================================================
