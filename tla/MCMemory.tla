------------------------------ MODULE MCMemory ------------------------------
(* Programs for Memory; every allocation may fail. *)
EXTENDS Memory, TLC

Program(main, lwp) ==
  [calls |-> [init |-> {"fork", "wait"}, main |-> main, lwp |-> lwp,
              forked |-> {"exit"}],
   kills |-> {}, joins |-> TRUE, fails |-> {"kstack", "copyuvm", "allocuvm"}]

\* Processes that fork, run programs and change their size.
Processes == Program({"fork", "wait", "exit", "exec", "sbrk"}, {})

\* A main thread that changes its size while it has threads.
Threads == Program({"thread_create", "thread_join", "sbrk", "exit"},
                   {"thread_exit"})

\* Threads that fork: the child has an LWP's size, with holes below it.
Forking == Program({"thread_create", "thread_join", "exit"},
                   {"fork", "wait", "thread_exit"})

\* Threads that end with the process.
Exiting == [Program({"thread_create", "exit"}, {"exit"}) EXCEPT !.joins = FALSE]

MCPrograms == {Processes, Threads, Forking, Exiting}
\* Outside the discipline: exec() with threads, sbrk() in threads.
ExecingThreads == {[Program({"thread_create", "exec"}, {"thread_exit"})
                      EXCEPT !.joins = FALSE]}
GrowingThreads == {Program({"thread_create"}, {"sbrk"})}
TwoGrowing == {Program({"thread_create", "sbrk"}, {"sbrk"})}

MCSegments == {1, 5}
MCGrows == {5, -5, -6}
=============================================================================
