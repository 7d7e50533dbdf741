-------------------------------- MODULE Proc --------------------------------
(***************************************************************************)
(* Life of processes and light-weight processes (LWPs) in proc.c: fork,   *)
(* exit, wait, kill, thread_create, thread_exit, thread_join.             *)
(*                                                                         *)
(* Everything a system call does between acquire(&ptable.lock) and the    *)
(* matching release or sched() is one step; what it does outside the lock *)
(* is a step of its own.  RUNNABLE stands for RUNNABLE and RUNNING: which *)
(* of the runnable processes the two CPUs run is the choice of the next   *)
(* step.  A page directory is named after the pid it was made for.        *)
(***************************************************************************)
EXTENDS Integers, FiniteSets, FiniteSetsExt

CONSTANTS NPROC,          \* size of ptable.proc
          MaxPid,         \* bound: pids handed out in a behaviour
          Programs        \* what the user programs do, see ProgramType

Slots == 1..NPROC
NoProc == 0
initproc == 1
Roles == {"init", "main", "lwp", "forked"}
CallNames == {"fork", "wait", "kill", "exit", "io", "thread_create",
              "thread_exit", "thread_join", "sbrk", "exec"}   \* sbrk, exec: Memory

\* A program makes the calls of its process's role; kills: the pids it gives to
\* kill(); joins: it joins its threads, and its LWPs wait for their children,
\* before they end; fails: the allocations that may fail.
ProgramType == [calls : [Roles -> SUBSET CallNames], kills : SUBSET Nat,
                joins : BOOLEAN,
                fails : SUBSET {"kstack", "copyuvm", "allocuvm"}]

ASSUME ProcAssumption ==
  NPROC \in Nat \ {0} /\ MaxPid \in Nat \ {0} /\ Programs \subseteq ProgramType

VARIABLES
  program,    \* the element of Programs that is run
  proc,       \* ptable.proc (chan counts only while SLEEPING)
  pc,         \* per slot: where its kernel thread is ("user" outside)
  arg,        \* per slot: slot being set up, or thread being joined
  num_lwp, load,    \* the counter; value read by num_lwp++ in thread_create
  nextpid, nextlwpid,
  freed,      \* page directories given to freevm()
  lock,       \* process that returned with ptable.lock held, or NoProc
  panicked
vars == <<program, proc, pc, arg, num_lwp, load, nextpid, nextlwpid, freed,
          lock, panicked>>
counters == <<num_lwp, load, nextpid, nextlwpid>>
rest == <<program, freed, lock, panicked>>

Unused == [state |-> "UNUSED", pid |-> 0, parent |-> NoProc, killed |-> FALSE,
           lwpid |-> 0, lwppid |-> 0, forked |-> FALSE, pgdir |-> 0,
           chan |-> NoProc]

\* userinit() has made the first process.
Init ==
  /\ program \in Programs
  /\ proc = [p \in Slots |->
       IF p = initproc
         THEN [Unused EXCEPT !.state = "RUNNABLE", !.pid = 1, !.pgdir = 1]
         ELSE Unused]
  /\ pc = [p \in Slots |-> "user"]
  /\ arg = [p \in Slots |-> 0]
  /\ num_lwp = 0 /\ load = [p \in Slots |-> 0]
  /\ nextpid = 2 /\ nextlwpid = 1
  /\ freed = {} /\ lock = NoProc /\ panicked = FALSE

-----------------------------------------------------------------------------
Role(p) == IF p = initproc THEN "init"
           ELSE IF proc[p].lwpid = 0 THEN "main"
           ELSE IF proc[p].forked THEN "forked" ELSE "lwp"

\* Process p runs in the kernel at l and can take ptable.lock.
At(p, l) == /\ ~panicked /\ lock = NoProc
            /\ proc[p].state = "RUNNABLE" /\ pc[p] = l

\* Process p enters system call c; trap() has found it not killed.
Enters(p, c) == /\ At(p, "user") /\ ~proc[p].killed
                /\ c \in program.calls[Role(p)]

\* wakeup1() for every channel in chans, on table t.
wakeup1(t, chans) ==
  [q \in Slots |-> IF t[q].state = "SLEEPING" /\ t[q].chan \in chans
                     THEN [t[q] EXCEPT !.state = "RUNNABLE"] ELSE t[q]]

\* sleep(chan, &ptable.lock) by p.
sleep(t, p, ch) == [t EXCEPT ![p].state = "SLEEPING", ![p].chan = ch]

Goto(p, l) == pc' = [pc EXCEPT ![p] = l]

Unusable == {q \in Slots : proc[q].state = "UNUSED"}

\* The LWPs whose main thread is p, by their lwppid.
Lwps(p) == {q \in Slots : proc[q].lwppid = proc[p].pid}

-----------------------------------------------------------------------------
(* fork *)

\* allocproc(): the fields it resets.  killed is not one of them.
Embryo(q) == [proc[q] EXCEPT !.state = "EMBRYO", !.pid = nextpid, !.lwpid = 0,
                             !.lwppid = 0, !.forked = FALSE]

\* allocproc() on behalf of p, which continues at l.  Without a free slot, or
\* without memory for the kernel stack, the call returns -1.
allocproc(p, l) ==
  /\ nextpid <= MaxPid
  /\ Unusable # {}
  /\ LET q == Min(Unusable) IN
     /\ nextpid' = nextpid + 1
     /\ \/ /\ proc' = [proc EXCEPT ![q] = Embryo(q)]
           /\ arg' = [arg EXCEPT ![p] = q]
           /\ Goto(p, l)
        \/ /\ "kstack" \in program.fails
           /\ proc' = [proc EXCEPT ![q] = [Embryo(q) EXCEPT !.state = "UNUSED"]]
           /\ UNCHANGED <<pc, arg>>
     /\ UNCHANGED <<num_lwp, load, nextlwpid, rest>>

\* init.c forks a shell and waits for it before it forks the next one.
ForkAlloc(p) ==
  /\ Enters(p, "fork")
  /\ p = initproc => arg[p] \notin {q \in Slots : proc[q].parent = p}
  /\ allocproc(p, "fork")

\* A child of an LWP gets an lwpid of its own.
Marked(p, q) ==
  [proc[q] EXCEPT !.forked = proc[p].lwpid > 0,
                  !.lwpid = IF proc[p].lwpid > 0 THEN nextlwpid ELSE 0]

\* Mutation of Forked: the page directory is not copied.
ForkedSharing(p, q) == [Marked(p, q) EXCEPT
  !.state = "RUNNABLE", !.parent = p, !.pgdir = proc[p].pgdir]

\* The child fork() makes runnable.
Forked(p, q) == [Marked(p, q) EXCEPT
  !.state = "RUNNABLE", !.parent = p, !.pgdir = proc[q].pid]

Fork(p) ==
  /\ At(p, "fork")
  /\ LET q == arg[p] IN
       \/ /\ proc' = [proc EXCEPT ![q] = Forked(p, q)]
          /\ pc' = [pc EXCEPT ![p] = "user", ![q] = "user"]
       \/ /\ "copyuvm" \in program.fails
          /\ proc' = [proc EXCEPT ![q] = [Marked(p, q) EXCEPT
                !.state = "UNUSED", !.pgdir = 0]]
          /\ Goto(p, "user")
  /\ nextlwpid' = IF proc[p].lwpid > 0 THEN nextlwpid + 1 ELSE nextlwpid
  /\ UNCHANGED <<arg, num_lwp, load, nextpid, rest>>

-----------------------------------------------------------------------------
(* exit and wait *)

\* What thread_join() and exit() leave of an LWP they reap.
ReapedLwp(r) == [Unused EXCEPT !.pgdir = r.pgdir, !.chan = r.chan]

\* Mutation of ReapedChild: the slot is not given back.
ReapedChildKept(r) == [r EXCEPT !.killed = FALSE]

\* What wait() leaves of the child it reaps.
ReapedChild(r) == [r EXCEPT !.state = "UNUSED", !.pid = 0, !.parent = NoProc,
                            !.killed = FALSE]

\* exit(), up to the first time it takes the lock: a main thread marks itself,
\* an LWP marks its main thread.  trap() makes a killed process exit.
Exit(p) ==
  /\ At(p, "user")
  /\ \/ proc[p].killed
     \/ /\ Enters(p, "exit")
        /\ program.joins => Lwps(p) = {} \/ proc[p].lwpid # 0
  /\ IF p = initproc
       THEN panicked' = TRUE /\ UNCHANGED <<proc, pc>>
       ELSE /\ proc' = IF proc[p].lwpid = 0
                         THEN [proc EXCEPT ![p].killed = TRUE]
                         ELSE IF proc[p].forked THEN proc
                         ELSE [proc EXCEPT ![proc[p].parent].killed = TRUE]
            /\ Goto(p, IF proc[p].lwpid = 0 THEN "reap" ELSE "close")
            /\ UNCHANGED panicked
  /\ UNCHANGED <<program, arg, counters, freed, lock>>

\* Mutation of LwpsGone: one LWP is left behind.
LwpsAlmostGone(n) == n <= 1

\* When exit()'s loop ends.
LwpsGone(n) == n = 0

\* One turn of exit()'s loop over the LWPs of main thread p: the dead ones are
\* reaped, the others marked killed; it sleeps until num_lwp is zero.
ExitReap(p) ==
  /\ At(p, "reap")
  /\ LET dead == {q \in Lwps(p) : proc[q].state = "ZOMBIE"}
         t == [q \in Slots |-> IF q \in dead THEN ReapedLwp(proc[q])
                               ELSE IF q \in Lwps(p)
                                 THEN [proc[q] EXCEPT !.killed = TRUE]
                                 ELSE proc[q]]
         u == wakeup1(t, Lwps(p) \ dead)
     IN  /\ num_lwp' = num_lwp - Cardinality(dead)
         /\ IF LwpsGone(num_lwp')
              THEN proc' = u /\ Goto(p, "close")
              ELSE proc' = sleep(u, p, p) /\ UNCHANGED pc
  /\ UNCHANGED <<arg, load, nextpid, nextlwpid, rest>>

Children(p) == {q \in Slots : proc[q].parent = p}

\* Mutation of Adopted: the children are not passed on.
AdoptedNone(p) == proc

\* "Pass abandoned children to init."
Adopted(p) == [q \in Slots |-> IF q \in Children(p)
                                 THEN [proc[q] EXCEPT !.parent = initproc]
                                 ELSE proc[q]]

\* Mutation of ExitWakes: init is not told of the zombies it gets.
ExitWakesParent(p) == {proc[p].parent} \ {NoProc}

\* Whom a process wakes when it exits: its parent, and init for a dead child.
ExitWakes(p) ==
  ({proc[p].parent} \ {NoProc})
    \cup {initproc : q \in {c \in Children(p) : proc[c].state = "ZOMBIE"}}

\* The rest of exit(), after the open files have been closed.
ExitFinish(p) ==
  /\ At(p, "close")
  /\ proc' = [wakeup1(Adopted(p), ExitWakes(p)) EXCEPT ![p].state = "ZOMBIE"]
  /\ Goto(p, "user")
  /\ UNCHANGED <<arg, counters, rest>>

\* wait(): one pass over the table.
Wait(p) ==
  /\ Enters(p, "wait") \/ At(p, "wait")
  /\ LET dead == {q \in Children(p) : proc[q].state = "ZOMBIE"} IN
     CASE dead # {} ->
            LET q == Min(dead) IN
            /\ freed' = freed \cup {proc[q].pgdir}
            /\ proc' = [proc EXCEPT ![q] = ReapedChild(@)]
            /\ Goto(p, "user")
       [] dead = {} /\ (Children(p) = {} \/ proc[p].killed) ->
            Goto(p, "user") /\ UNCHANGED <<proc, freed>>
       [] OTHER ->
            /\ proc' = sleep(proc, p, p)
            /\ Goto(p, "wait") /\ UNCHANGED freed
  /\ UNCHANGED <<program, arg, counters, lock, panicked>>

-----------------------------------------------------------------------------
(* kill, and sleeping on other channels *)

\* Mutation of Kill1: a sleeper is not woken.
Kill1NoWake(r) == [r EXCEPT !.killed = TRUE]

Kill1(r) == [r EXCEPT !.killed = TRUE,
                      !.state = IF @ = "SLEEPING" THEN "RUNNABLE" ELSE @]

\* Mutation of Targets: the children are hit as well.
TargetsFamily(p, pid) ==
  {q \in Slots : \/ proc[q].pid = pid
                 \/ proc[q].parent # NoProc /\ proc[proc[q].parent].pid = pid}

\* kill(pid): from an LWP it ignores its argument and kills every LWP.  The state
\* is not looked at: a slot that is not in use has pid 0, or that of a call of
\* fork() that has failed.
Targets(p, pid) ==
  LET hit == {q \in Slots : proc[q].pid = pid} IN
  IF proc[p].lwpid > 0 THEN {q \in Slots : proc[q].lwpid > 0}
  ELSE IF hit = {} THEN {} ELSE {Min(hit)}

Kill(p, pid) ==
  /\ Enters(p, "kill") /\ pid \in program.kills
  /\ proc' = [q \in Slots |-> IF q \in Targets(p, pid) THEN Kill1(proc[q])
                                                      ELSE proc[q]]
  /\ UNCHANGED <<pc, arg, counters, rest>>

\* A process sleeps on a pipe, the console, the clock... and is woken.
IoSleep(p) ==
  /\ Enters(p, "io")
  /\ proc' = sleep(proc, p, NPROC + 1)
  /\ UNCHANGED <<pc, arg, counters, rest>>

IoWake(p) ==
  /\ ~panicked /\ lock = NoProc
  /\ proc[p].state = "SLEEPING" /\ proc[p].chan = NPROC + 1
  /\ proc' = [proc EXCEPT ![p].state = "RUNNABLE"]
  /\ UNCHANGED <<pc, arg, counters, rest>>

-----------------------------------------------------------------------------
(* Threads *)

CreateAlloc(p) == Enters(p, "thread_create") /\ allocproc(p, "incload")

\* num_lwp++ is made without the lock: a load, then a store.
CreateLoad(p) ==
  /\ ~panicked /\ proc[p].state = "RUNNABLE" /\ pc[p] = "incload"
  /\ load' = [load EXCEPT ![p] = num_lwp]
  /\ Goto(p, "incstore")
  /\ UNCHANGED <<proc, arg, num_lwp, nextpid, nextlwpid, rest>>

CreateStore(p) ==
  /\ ~panicked /\ proc[p].state = "RUNNABLE" /\ pc[p] = "incstore"
  /\ num_lwp' = load[p] + 1
  /\ Goto(p, "create")
  /\ UNCHANGED <<proc, arg, load, nextpid, nextlwpid, rest>>

\* The fields thread_create() sets: all threads of a process are its main
\* thread's.
Thread(p, q) == [proc[q] EXCEPT
  !.lwppid = IF proc[p].lwpid > 0 THEN proc[p].lwppid ELSE proc[p].pid,
  !.parent = IF proc[p].lwpid > 0 THEN proc[p].parent ELSE p,
  !.lwpid = nextlwpid, !.pgdir = proc[p].pgdir]

\* The locked part of thread_create.  When the stack cannot be allocated it
\* returns without releasing the lock.
Create(p) ==
  /\ At(p, "create")
  /\ LET q == arg[p] IN
       \/ /\ proc' = [proc EXCEPT ![q] =
                        [Thread(p, q) EXCEPT !.state = "RUNNABLE"]]
          /\ pc' = [pc EXCEPT ![p] = "user", ![q] = "user"]
          /\ UNCHANGED lock
       \/ /\ "allocuvm" \in program.fails
          /\ proc' = [proc EXCEPT ![q] =
                        [Thread(p, q) EXCEPT !.state = "UNUSED"]]
          /\ Goto(p, "user")
          /\ lock' = p
  /\ nextlwpid' = nextlwpid + 1
  /\ UNCHANGED <<program, arg, num_lwp, load, nextpid, freed, panicked>>

\* thread_exit(): closes the files, then takes the lock.
ThreadExit(p) ==
  /\ Enters(p, "thread_exit")
  /\ program.joins => Children(p) = {}
  /\ Goto(p, "texit")
  /\ UNCHANGED <<proc, arg, counters, rest>>

ThreadExitFinish(p) ==
  /\ At(p, "texit")
  /\ proc' = [wakeup1(proc, {proc[p].parent}) EXCEPT ![p].state = "ZOMBIE"]
  /\ num_lwp' = num_lwp - 1
  /\ Goto(p, "user")
  /\ UNCHANGED <<arg, load, nextpid, nextlwpid, rest>>

\* thread_join(t): one pass over the table.
JoinPass(p, t) ==
  LET dead == {q \in Lwps(p) : proc[q].lwpid = t /\ proc[q].state = "ZOMBIE"} IN
  /\ CASE dead # {} -> /\ proc' = [proc EXCEPT ![Min(dead)] = ReapedLwp(@)]
                       /\ Goto(p, "user")
       [] dead = {} /\ proc[p].killed -> Goto(p, "user") /\ UNCHANGED proc
       [] OTHER -> proc' = sleep(proc, p, p) /\ Goto(p, "join")
  /\ arg' = [arg EXCEPT ![p] = t]
  /\ UNCHANGED <<counters, rest>>

\* A program joins threads it has created; thread_join() refuses LWPs.
Join(p) ==
  /\ Enters(p, "thread_join") /\ proc[p].lwpid = 0
  /\ \E q \in Lwps(p) : JoinPass(p, proc[q].lwpid)

JoinAgain(p) == At(p, "join") /\ JoinPass(p, arg[p])

-----------------------------------------------------------------------------
\* What the kernel does for p without the program's choosing.
Kernel(p) == \/ Fork(p) \/ ExitReap(p) \/ ExitFinish(p)
             \/ At(p, "wait") /\ Wait(p)
             \/ CreateLoad(p) \/ CreateStore(p) \/ Create(p)
             \/ ThreadExitFinish(p) \/ JoinAgain(p)
             \/ proc[p].killed /\ Exit(p)

Next == \E p \in Slots :
          \/ ForkAlloc(p) \/ Exit(p) \/ Wait(p) \/ Kernel(p)
          \/ \E pid \in program.kills : Kill(p, pid)
          \/ IoSleep(p) \/ IoWake(p)
          \/ CreateAlloc(p) \/ ThreadExit(p) \/ Join(p)

Spec == Init /\ [][Next]_vars

\* Every runnable process is run (round-robin scheduler, clock interrupts bring
\* a process in user space into the kernel), and init keeps calling wait().
Fairness == /\ \A p \in Slots : WF_vars(Kernel(p))
            /\ WF_vars(Wait(initproc))

LiveSpec == Spec /\ Fairness
-----------------------------------------------------------------------------
(* Properties. *)

States == {"UNUSED", "EMBRYO", "SLEEPING", "RUNNABLE", "ZOMBIE"}
Labels == {"user", "fork", "reap", "close", "wait", "join", "texit",
           "incload", "incstore", "create"}

TypeOK ==
  /\ program \in Programs
  /\ proc \in [Slots -> [state : States, pid : 0..MaxPid,
                         parent : Slots \cup {NoProc}, killed : BOOLEAN,
                         lwpid : 0..MaxPid, lwppid : 0..MaxPid,
                         forked : BOOLEAN, pgdir : 0..MaxPid,
                         chan : 0..NPROC + 1]]
  /\ pc \in [Slots -> Labels]
  /\ arg \in [Slots -> 0..NPROC + MaxPid]
  /\ num_lwp \in Int /\ load \in [Slots -> Int]
  /\ nextpid \in 1..MaxPid + 1 /\ nextlwpid \in 1..MaxPid + 1
  /\ freed \subseteq 0..MaxPid
  /\ lock \in Slots \cup {NoProc} /\ panicked \in BOOLEAN

Made == {p \in Slots : proc[p].state \notin {"UNUSED", "EMBRYO"}}
Alive == {p \in Made : proc[p].state # "ZOMBIE"}

\* Whether main threads of program g create LWPs, and whether these end by
\* thread_exit().
Threaded(g) == "thread_create" \in g.calls["main"]
ThreadsExit(g) == "thread_exit" \in g.calls["lwp"]

\* The use of threads that proc.c supports.  Only main threads create LWPs, and
\* then neither fork nor wait, as wait() would take an LWP for a child.  Either
\* LWPs end with their process, or by thread_exit(); then everybody waits for
\* what it has made and nobody is killed.  init does what init.c does.
Supported(g) ==
  /\ g.calls["init"] \subseteq {"fork", "wait"}
  /\ "thread_create" \notin g.calls["lwp"] \cup g.calls["forked"]
  /\ "thread_exit" \notin g.calls["main"] \cup g.calls["forked"]
  /\ Threaded(g) => /\ {"fork", "wait"} \cap g.calls["main"] = {}
                    /\ ThreadsExit(g) =>
                         /\ g.joins /\ "exit" \notin g.calls["lwp"]
                         /\ \A r \in Roles : "kill" \notin g.calls[r]

\* No wakeup is lost: a process asleep in wait(), thread_join() or exit() has
\* nothing to collect, and what it waits for has still to happen.
SleeperHasReason ==
  \A p \in Slots : proc[p].state = "SLEEPING" =>
    CASE pc[p] = "wait" -> /\ Children(p) # {}
                           /\ \A q \in Children(p) : proc[q].state # "ZOMBIE"
      [] pc[p] = "join" -> \E q \in Lwps(p) : /\ proc[q].lwpid = arg[p]
                                              /\ proc[q].state # "ZOMBIE"
      [] pc[p] = "reap" -> /\ num_lwp # 0
                           /\ \A q \in Lwps(p) : proc[q].state # "ZOMBIE"
      [] OTHER -> TRUE

\* Every process and thread, dead or alive, has a living parent that can reap
\* it: exit() hands its children over before it becomes a zombie.
ParentAlive == \A p \in Made \ {initproc} : proc[p].parent \in Alive

\* No process runs on, or is torn down with, a page directory that wait() has
\* given to freevm(), although LWPs share the one of their main thread.
NoUseAfterFree == \A p \in Made : proc[p].pgdir \notin freed

\* A main thread outlives its LWPs: exit() does not get past its loop while
\* one of them exists.
ThreadsGoFirst ==
  \A p \in Made :
    proc[p].lwpid = 0 /\ (pc[p] = "close" \/ proc[p].state = "ZOMBIE")
      => Lwps(p) = {}

\* The threads of the process of p.
Group(p) == LET m == IF Role(p) = "lwp" THEN proc[p].parent ELSE p
            IN  {m} \cup (Lwps(m) \cap Made)

\* Nobody is marked killed, or born with the mark, but by kill() with their pid,
\* which marks nobody else ("Kill the process with the given pid"), or by exit()
\* in their own process.  allocproc() does not reset the mark, so this is so only
\* for programs that do not give kill() the pid of a slot that is not in use.
KilledForCause ==
  [][LET hit == {q \in Slots \ Unusable' : /\ proc'[q].killed
                                           /\ q \in Unusable \/ ~proc[q].killed}
     IN  hit # {} =>
           \/ \E p \in Slots, pid \in program.kills :
                Kill(p, pid) /\ \A q \in hit : proc[q].pid = pid
           \/ \E p \in Slots : (Exit(p) \/ ExitReap(p)) /\ hit \subseteq Group(p)]_vars

\* No thread ends by thread_exit(): the increments of num_lwp made without the
\* lock, and the decrements, then cannot get lost.
ThreadsEndTogether == "thread_exit" \notin program.calls["lwp"]

\* In a process with threads, one that sleeps on another channel: exit() marks the
\* main thread, or the LWPs, but does not wake them there.
Stuck(p) ==
  \E q \in Group(p) : /\ proc[q].state = "SLEEPING" /\ proc[q].chan = NPROC + 1
                      /\ Role(q) = "lwp" \/ Lwps(q) # {}

\* A killed process ends: kill() wakes it wherever it sleeps, and exit() of a
\* process with threads gets all of them to end, as long as none sleeps on another
\* channel.  It need not if a failed thread_create() has kept the lock or init has
\* been killed.
KilledEnd ==
  \A p \in Slots : ThreadsEndTogether /\ proc[p].killed /\ p \in Alive
                     ~> \/ proc[p].state \in {"ZOMBIE", "UNUSED"} \/ Stuck(p)
                        \/ lock # NoProc \/ panicked

\* A zombie whose parent is init is reaped, with the last two exceptions.
ZombiesReaped ==
  \A p \in Slots : proc[p].state = "ZOMBIE" /\ proc[p].parent = initproc
                     ~> proc[p].state = "UNUSED" \/ lock # NoProc \/ panicked
=============================================================================
