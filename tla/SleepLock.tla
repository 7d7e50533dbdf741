------------------------------ MODULE SleepLock ------------------------------
(***************************************************************************)
(* Sleeping locks (sleeplock.c) down to the spin locks and context         *)
(* switches under them: acquire/release with pushcli/popcli (spinlock.c),  *)
(* sleep, wakeup, yield, sched and the round-robin scheduler (proc.c).     *)
(*                                                                         *)
(* There are more processes than CPUs.  Every process takes and releases   *)
(* one sleep lock lk.  ptable.lock is taken on one side of a swtch() and   *)
(* released on the other: by the scheduler for a process that gives up its *)
(* CPU, by the resumed process for the scheduler.                          *)
(***************************************************************************)
EXTENDS Naturals, FiniteSets

CONSTANTS NCPU, NPROC

Cpus == 1..NCPU
Procs == 1..NPROC
NoOne == 0

ASSUME SleepLockAssumption == NCPU \in Nat \ {0} /\ NPROC \in Nat \ {0}

VARIABLES
  ptlock, lklock,     \* CPU holding ptable.lock, lk->lk
  locked,             \* lk->locked
  owner,              \* lk->pid
  state, asleepOn,    \* p->state; p->chan is lk
  pc, ret,            \* where p is; where the clock interrupted it
  saved,              \* intena as sched() keeps it for p (like ret reset to
                      \* its initial value once it has been used)
  current, cursor,    \* c->proc; position of the scheduler's scan on c
  ncli, intena, IF_   \* per CPU: pushcli depth, saved and actual FL_IF
vars == <<ptlock, lklock, locked, owner, state, asleepOn, pc, ret, saved,
          current, cursor, ncli, intena, IF_>>
locks == <<ptlock, lklock>>
lock == <<locked, owner>>
table == <<state, asleepOn>>
cpu == <<ncli, intena, IF_>>
sched == <<saved, current, cursor>>

Init ==
  /\ ptlock = NoOne /\ lklock = NoOne
  /\ locked = FALSE /\ owner = NoOne
  /\ state = [p \in Procs |-> "RUNNABLE"]
  /\ asleepOn = [p \in Procs |-> FALSE]
  /\ pc = [p \in Procs |-> "forkret"]
  /\ ret = [p \in Procs |-> "out"]
  /\ saved = [p \in Procs |-> FALSE]
  /\ current = [c \in Cpus |-> NoOne]
  /\ cursor = [c \in Cpus |-> 0]
  /\ ncli = [c \in Cpus |-> 0]
  /\ intena = [c \in Cpus |-> FALSE]
  /\ IF_ = [c \in Cpus |-> TRUE]

-----------------------------------------------------------------------------
(* pushcli/popcli.  Spinning is a step that is not enabled. *)

Goto(p, l) == pc' = [pc EXCEPT ![p] = l]

pushcli(c) ==
  /\ ncli' = [ncli EXCEPT ![c] = @ + 1]
  /\ intena' = [intena EXCEPT ![c] = IF ncli[c] = 0 THEN IF_[c] ELSE @]
  /\ IF_' = [IF_ EXCEPT ![c] = FALSE]

\* popcli() as often as n locks are released; interrupts come back with the
\* last one if they were on when the first was taken.
popcli(c, n) ==
  /\ ncli' = [ncli EXCEPT ![c] = @ - n]
  /\ IF_' = [IF_ EXCEPT ![c] = @ \/ (ncli[c] = n /\ intena[c])]
  /\ UNCHANGED intena

\* Process p executes on CPU c (the scheduler does when current[c] = NoOne).
On(c, p, l) == current[c] = p /\ pc[p] = l /\ state[p] = "RUNNING"

-----------------------------------------------------------------------------
(* acquiresleep *)

AcquireSleep(c, p) ==
  /\ On(c, p, "out") \/ On(c, p, "again")
  /\ pushcli(c) /\ Goto(p, "acquire")
  /\ UNCHANGED <<locks, lock, table, ret, sched>>

AcquireLk(c, p) ==
  /\ On(c, p, "acquire") /\ lklock = NoOne
  /\ lklock' = c /\ Goto(p, "test")
  /\ UNCHANGED <<ptlock, lock, table, ret, sched, cpu>>

\* The lock is taken: enter sleep(), which acquires ptable.lock.
TestTaken(c, p) ==
  /\ On(c, p, "test") /\ locked
  /\ pushcli(c) /\ Goto(p, "sleep")
  /\ UNCHANGED <<locks, lock, table, ret, sched>>

\* Mutation of TestFree: lk->locked is not tested.
TestFreeAlways(c, p) ==
  /\ On(c, p, "test")
  /\ locked' = TRUE /\ owner' = p
  /\ lklock' = NoOne /\ popcli(c, 1)
  /\ Goto(p, "in")
  /\ UNCHANGED <<ptlock, table, ret, sched>>

TestFree(c, p) ==
  /\ On(c, p, "test") /\ ~locked
  /\ locked' = TRUE /\ owner' = p
  /\ lklock' = NoOne /\ popcli(c, 1)
  /\ Goto(p, "in")
  /\ UNCHANGED <<ptlock, table, ret, sched>>

-----------------------------------------------------------------------------
(* sched: the process gives up CPU c with ptable.lock held. *)

Switch(c, p) ==
  /\ saved' = [saved EXCEPT ![p] = intena[c]]
  /\ current' = [current EXCEPT ![c] = NoOne]
  /\ UNCHANGED cursor

SleepPtable(c, p) ==
  /\ On(c, p, "sleep") /\ ptlock = NoOne
  /\ ptlock' = c /\ Goto(p, "release")
  /\ UNCHANGED <<lklock, lock, table, ret, sched, cpu>>

\* release(lk); p->chan = chan; p->state = SLEEPING; sched();
Sleep(c, p) ==
  /\ On(c, p, "release")
  /\ lklock' = NoOne /\ popcli(c, 1)
  /\ state' = [state EXCEPT ![p] = "SLEEPING"]
  /\ asleepOn' = [asleepOn EXCEPT ![p] = TRUE]
  /\ Goto(p, "woken")
  /\ Switch(c, p)
  /\ UNCHANGED <<ptlock, lock, ret>>

\* Back from sched() in sleep(): p->chan = 0 and release(&ptable.lock).
Woken(c, p) ==
  /\ On(c, p, "woken")
  /\ asleepOn' = [asleepOn EXCEPT ![p] = FALSE]
  /\ ptlock' = NoOne /\ popcli(c, 1)
  /\ Goto(p, "again")
  /\ UNCHANGED <<lklock, lock, state, ret, sched>>

-----------------------------------------------------------------------------
(* releasesleep *)

ReleaseSleep(c, p) ==
  /\ On(c, p, "in")
  /\ pushcli(c) /\ Goto(p, "unlock")
  /\ UNCHANGED <<locks, lock, table, ret, sched>>

\* Mutation of Unlock: lk->lk is not acquired.
UnlockUnguarded(c, p) ==
  /\ On(c, p, "unlock")
  /\ locked' = FALSE /\ owner' = NoOne
  /\ pushcli(c) /\ Goto(p, "wakeup")
  /\ UNCHANGED <<locks, table, ret, sched>>

Unlock(c, p) ==
  /\ On(c, p, "unlock") /\ lklock = NoOne
  /\ lklock' = c
  /\ locked' = FALSE /\ owner' = NoOne
  /\ pushcli(c) /\ Goto(p, "wakeup")
  /\ UNCHANGED <<ptlock, table, ret, sched>>

\* wakeup(lk) under ptable.lock, then both locks are released.
Wakeup(c, p) ==
  /\ On(c, p, "wakeup") /\ ptlock = NoOne
  /\ state' = [q \in Procs |-> IF state[q] = "SLEEPING" /\ asleepOn[q]
                                 THEN "RUNNABLE" ELSE state[q]]
  /\ lklock' = NoOne /\ popcli(c, 2)
  /\ Goto(p, "out")
  /\ UNCHANGED <<ptlock, lock, asleepOn, ret, sched>>

-----------------------------------------------------------------------------
(* Clock interrupt and yield *)

\* The interrupt gate clears FL_IF; trap() calls yield(), which takes
\* ptable.lock.
Clock(c, p) ==
  /\ current[c] = p /\ state[p] = "RUNNING" /\ IF_[c]
  /\ ret' = [ret EXCEPT ![p] = pc[p]]
  /\ ncli' = [ncli EXCEPT ![c] = @ + 1]
  /\ intena' = [intena EXCEPT ![c] = IF ncli[c] = 0 THEN FALSE ELSE @]
  /\ IF_' = [IF_ EXCEPT ![c] = FALSE]
  /\ Goto(p, "yield")
  /\ UNCHANGED <<locks, lock, table, sched>>

Yield(c, p) ==
  /\ On(c, p, "yield") /\ ptlock = NoOne
  /\ ptlock' = c
  /\ state' = [state EXCEPT ![p] = "RUNNABLE"]
  /\ Goto(p, "yielded")
  /\ Switch(c, p)
  /\ UNCHANGED <<lklock, lock, asleepOn, ret, cpu>>

\* Back from sched() in yield(): release, and return from the interrupt.
Yielded(c, p) ==
  /\ On(c, p, "yielded")
  /\ ptlock' = NoOne
  /\ ncli' = [ncli EXCEPT ![c] = @ - 1]
  /\ IF_' = [IF_ EXCEPT ![c] = TRUE]
  /\ Goto(p, ret[p]) /\ ret' = [ret EXCEPT ![p] = "out"]
  /\ UNCHANGED <<lklock, lock, table, sched, intena>>

\* Mutation of Forkret: it keeps ptable.lock.
ForkretHolding(c, p) ==
  /\ On(c, p, "forkret")
  /\ IF_' = [IF_ EXCEPT ![c] = TRUE]
  /\ Goto(p, "out")
  /\ UNCHANGED <<locks, lock, table, ret, sched, ncli, intena>>

\* The first time a process is scheduled it starts in forkret().
Forkret(c, p) ==
  /\ On(c, p, "forkret")
  /\ ptlock' = NoOne /\ ncli' = [ncli EXCEPT ![c] = @ - 1]
  /\ IF_' = [IF_ EXCEPT ![c] = TRUE]     \* trapret restores FL_IF
  /\ Goto(p, "out")
  /\ UNCHANGED <<lklock, lock, table, ret, sched, intena>>

-----------------------------------------------------------------------------
(* scheduler *)

\* sti(); acquire(&ptable.lock): start a scan of the table.
SchedulerEnter(c) ==
  /\ current[c] = NoOne /\ cursor[c] = 0 /\ ptlock = NoOne
  /\ ptlock' = c /\ cursor' = [cursor EXCEPT ![c] = 1]
  /\ ncli' = [ncli EXCEPT ![c] = @ + 1]
  /\ intena' = [intena EXCEPT ![c] = TRUE]
  /\ IF_' = [IF_ EXCEPT ![c] = FALSE]
  /\ UNCHANGED <<lklock, lock, table, pc, ret, saved, current>>

Scanning(c) == current[c] = NoOne /\ cursor[c] \in Procs

SchedulerSkip(c) ==
  /\ Scanning(c) /\ state[cursor[c]] # "RUNNABLE"
  /\ cursor' = [cursor EXCEPT ![c] = @ + 1]
  /\ UNCHANGED <<locks, lock, table, pc, ret, saved, current, cpu>>

\* Mutation of SchedulerRun: sched() does not put intena back.
SchedulerRunIntena(c) ==
  /\ Scanning(c)
  /\ LET p == cursor[c] IN
     /\ state[p] = "RUNNABLE"
     /\ state' = [state EXCEPT ![p] = "RUNNING"]
     /\ current' = [current EXCEPT ![c] = p]
     /\ cursor' = [cursor EXCEPT ![c] = @ + 1]
  /\ UNCHANGED <<locks, lock, asleepOn, pc, ret, saved, cpu>>

\* swtch() to the process; a process that comes out of sched() puts its own
\* intena back.
SchedulerRun(c) ==
  /\ Scanning(c)
  /\ LET p == cursor[c] IN
     /\ state[p] = "RUNNABLE"
     /\ state' = [state EXCEPT ![p] = "RUNNING"]
     /\ current' = [current EXCEPT ![c] = p]
     /\ cursor' = [cursor EXCEPT ![c] = @ + 1]
     /\ intena' = [intena EXCEPT ![c] =
                     IF pc[p] = "forkret" THEN @ ELSE saved[p]]
     /\ saved' = [saved EXCEPT ![p] = FALSE]
  /\ UNCHANGED <<locks, lock, asleepOn, pc, ret, ncli, IF_>>

SchedulerLeave(c) ==
  /\ current[c] = NoOne /\ cursor[c] > NPROC
  /\ ptlock' = NoOne /\ cursor' = [cursor EXCEPT ![c] = 0]
  /\ ncli' = [ncli EXCEPT ![c] = @ - 1]
  /\ IF_' = [IF_ EXCEPT ![c] = TRUE]     \* sti() at the head of the loop
  /\ UNCHANGED <<lklock, lock, table, pc, ret, saved, current, intena>>

-----------------------------------------------------------------------------
\* The steps a process makes by itself; only entering acquiresleep is the
\* program's choice.
Progress(c, p) == \/ (pc[p] = "again" /\ AcquireSleep(c, p)) \/ AcquireLk(c, p)
                  \/ TestTaken(c, p) \/ TestFree(c, p) \/ SleepPtable(c, p)
                  \/ Sleep(c, p) \/ Woken(c, p) \/ ReleaseSleep(c, p)
                  \/ Unlock(c, p) \/ Wakeup(c, p) \/ Forkret(c, p)

Preemption(c, p) == Clock(c, p) \/ Yield(c, p) \/ Yielded(c, p)

Scheduler(c) == \/ SchedulerEnter(c) \/ SchedulerSkip(c)
                \/ SchedulerRun(c) \/ SchedulerLeave(c)

Next == \E c \in Cpus :
          \/ Scheduler(c)
          \/ \E p \in Procs : \/ AcquireSleep(c, p) \/ Progress(c, p)
                             \/ Preemption(c, p)

Spec == Init /\ [][Next]_vars

\* The timer of every CPU keeps interrupting it; a CPU that spins gets the lock
\* if it is free again and again (xchg); a process makes a step between clock
\* interrupts again and again.
Fairness ==
  /\ \A c \in Cpus : /\ SF_vars(Scheduler(c))
                      /\ SF_vars(\E p \in Procs : Preemption(c, p))
  /\ \A p \in Procs : SF_vars(\E c \in Cpus : Progress(c, p))

LiveSpec == Spec /\ Fairness
-----------------------------------------------------------------------------
(* Properties. *)

Labels == {"forkret", "out", "acquire", "test", "sleep", "release", "woken",
           "again", "in", "unlock", "wakeup", "yield", "yielded"}

TypeOK ==
  /\ ptlock \in Cpus \cup {NoOne} /\ lklock \in Cpus \cup {NoOne}
  /\ locked \in BOOLEAN /\ owner \in Procs \cup {NoOne}
  /\ state \in [Procs -> {"RUNNABLE", "RUNNING", "SLEEPING"}]
  /\ asleepOn \in [Procs -> BOOLEAN]
  /\ pc \in [Procs -> Labels] /\ ret \in [Procs -> Labels]
  /\ saved \in [Procs -> BOOLEAN]
  /\ current \in [Cpus -> Procs \cup {NoOne}]
  /\ cursor \in [Cpus -> 0..NPROC + 1]
  /\ ncli \in [Cpus -> Nat]
  /\ intena \in [Cpus -> BOOLEAN] /\ IF_ \in [Cpus -> BOOLEAN]

\* Where p is, seen through a clock interrupt.
Place(p) == IF pc[p] \in {"yield", "yielded"} THEN ret[p] ELSE pc[p]
Inside == {p \in Procs : Place(p) \in {"in", "unlock"}}

\* acquiresleep() lets one process in at a time, and lk->pid names it.
MutualExclusion ==
  /\ Cardinality(Inside) <= 1
  /\ \A p \in Inside : locked /\ owner = p

\* ptable.lock is handed over at swtch(): a CPU holds it exactly while its
\* scheduler scans, and while a process has yet to go through sched() or has
\* just come out of it.
PtableLockHandedOver ==
  \A c \in Cpus : ptlock = c <=>
     IF current[c] = NoOne
       THEN cursor[c] # 0
       ELSE pc[current[c]] \in {"release", "woken", "yielded", "forkret"}

\* pushcli/popcli stay matched across context switches, and a process outside
\* of all spin locks has interrupts enabled whichever CPU it runs on.
InterruptsRestored ==
  \A c \in Cpus, p \in Procs :
     current[c] = p /\ pc[p] \in {"out", "again", "in"} => ncli[c] = 0 /\ IF_[c]

\* A process asleep on the lock is woken, if holders release it.
SleepersWoken == \A p \in Procs : state[p] = "SLEEPING" ~> state[p] = "RUNNING"

=============================================================================
