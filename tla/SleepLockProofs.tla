-------------------------- MODULE SleepLockProofs ---------------------------
(***************************************************************************)
(* Theorems about SleepLock for every number of CPUs and processes: the    *)
(* sleep lock excludes, ptable.lock is handed over at swtch(), and         *)
(* interrupts come back on whichever CPU a process continues.              *)
(***************************************************************************)
EXTENDS SleepLock, Integers, FiniteSetTheorems, TLAPS

-----------------------------------------------------------------------------
(* The inductive invariant. *)

\* A CPU's process is RUNNING and is no other CPU's; a process without a CPU
\* is inside swtch(); a CPU runs a process in the middle of a scan; the clock
\* interrupts a process only outside of spin locks.
Placement ==
  /\ \A c \in Cpus : current[c] # NoOne => state[current[c]] = "RUNNING" /\ cursor[c] # 0
  /\ \A c, d \in Cpus : current[c] = current[d] /\ current[c] # NoOne => c = d
  /\ \A p \in Procs : state[p] # "RUNNING" => pc[p] \in {"forkret", "woken", "yielded"}
  /\ \A p \in Procs : pc[p] \in {"yield", "yielded"} => ret[p] \in {"out", "again", "in"}

\* lk->lk is held exactly by the CPU whose process is between its acquire()
\* and the release() in acquiresleep(), sleep() or releasesleep().
LkHeld ==
  \A c \in Cpus : lklock = c <=>
    current[c] # NoOne /\ pc[current[c]] \in {"test", "sleep", "release", "wakeup"}

\* The number of pushcli() calls without their popcli() at a label.
Level(l) == IF l \in {"out", "again", "in"} THEN 0
            ELSE IF l \in {"sleep", "release", "wakeup"} THEN 2 ELSE 1

\* ncli counts the locks held or spun on, interrupts are on exactly when it is 0.
Depths ==
  \A c \in Cpus :
    /\ current[c] = NoOne => ncli[c] = IF cursor[c] = 0 THEN 0 ELSE 1
    /\ current[c] # NoOne => ncli[c] = Level(pc[current[c]])
    /\ IF_[c] <=> ncli[c] = 0

\* A process that disabled interrupts itself gets them back: intena is set
\* while it is on a CPU, and saved while it sleeps.
Intena ==
  /\ \A c \in Cpus :
       current[c] # NoOne /\ pc[current[c]] \in {"acquire", "test", "sleep", "release",
                                                 "woken", "unlock", "wakeup"}
         => intena[c]
  /\ \A p \in Procs : state[p] # "RUNNING" /\ pc[p] = "woken" => saved[p]

\* Who is inside the sleep lock is its owner.
Owned == \A p \in Procs : Place(p) \in {"in", "unlock"} => locked /\ owner = p

LockInv == /\ TypeOK /\ Placement /\ PtableLockHandedOver /\ LkHeld
           /\ Depths /\ Intena /\ Owned

-----------------------------------------------------------------------------
(* Facts about the constants and about who runs where. *)

\* Neither a CPU nor a process is "no one".
LEMMA Someone == /\ \A c \in Cpus : c # NoOne
                 /\ \A p \in Procs : p # NoOne
BY SleepLockAssumption DEF Cpus, Procs, NoOne

\* A process at a label on CPU c is on no other CPU.
LEMMA OnlyThere ==
  ASSUME TypeOK, Placement, NEW c \in Cpus, NEW p \in Procs, current[c] = p
  PROVE  \A d \in Cpus : current[d] = p <=> d = c
BY Someone DEF Placement

-----------------------------------------------------------------------------
(* The invariant is inductive: the steps of processes. *)

\* A process enters acquiresleep(), or comes back to it from sleep().
LEMMA AcquireSleepStep ==
  ASSUME LockInv, NEW c \in Cpus, NEW p \in Procs, AcquireSleep(c, p)
  PROVE  LockInv'
<1> USE DEF LockInv
<1>1. \A d \in Cpus : current[d] = p <=> d = c
  BY OnlyThere DEF AcquireSleep, On
<1>2. TypeOK'
  BY Someone
     DEF TypeOK, Labels, AcquireSleep, On, pushcli, Goto, locks, lock, table, sched,
         cpu
<1>3. Placement'
  BY <1>1, Someone
     DEF TypeOK, Placement, AcquireSleep, On, pushcli, Goto, locks, lock, table,
         sched, cpu
<1>4. PtableLockHandedOver'
  BY <1>1, Someone
     DEF TypeOK, Placement, PtableLockHandedOver, AcquireSleep, On, pushcli, Goto,
         locks, lock, table, sched, cpu
<1>5. LkHeld'
  BY <1>1, Someone
     DEF TypeOK, Placement, LkHeld, AcquireSleep, On, pushcli, Goto, locks, lock,
         table, sched, cpu
<1>6. Depths'
  BY <1>1, Someone
     DEF TypeOK, Placement, Depths, Level, AcquireSleep, On, pushcli, Goto, locks,
         lock, table, sched, cpu
<1>7. Intena'
  BY <1>1, Someone
     DEF TypeOK, Placement, Depths, Level, Intena, AcquireSleep, On, pushcli, Goto,
         locks, lock, table, sched, cpu
<1>8. Owned'
  BY <1>1, Someone
     DEF TypeOK, Placement, Owned, Place, AcquireSleep, On, pushcli, Goto, locks,
         lock, table, sched, cpu
<1> QED
  BY <1>2, <1>3, <1>4, <1>5, <1>6, <1>7, <1>8

\* The spin lock lk->lk is got.
LEMMA AcquireLkStep ==
  ASSUME LockInv, NEW c \in Cpus, NEW p \in Procs, AcquireLk(c, p)
  PROVE  LockInv'
<1> USE DEF LockInv
<1>1. \A d \in Cpus : current[d] = p <=> d = c
  BY OnlyThere DEF AcquireLk, On
<1>2. TypeOK'
  BY Someone DEF TypeOK, Labels, AcquireLk, On, Goto, locks, lock, table, sched, cpu
<1>3. Placement'
  BY <1>1, Someone
     DEF TypeOK, Placement, AcquireLk, On, Goto, locks, lock, table, sched, cpu
<1>4. PtableLockHandedOver'
  BY <1>1, Someone
     DEF TypeOK, Placement, PtableLockHandedOver, AcquireLk, On, Goto, locks, lock,
         table, sched, cpu
<1>5. LkHeld'
  BY <1>1, Someone
     DEF TypeOK, Placement, LkHeld, AcquireLk, On, Goto, locks, lock, table, sched,
         cpu
<1>6. Depths'
  BY <1>1, Someone
     DEF TypeOK, Placement, Depths, Level, AcquireLk, On, Goto, locks, lock, table,
         sched, cpu
<1>7. Intena'
  BY <1>1, Someone
     DEF TypeOK, Placement, Depths, Level, Intena, AcquireLk, On, Goto, locks, lock,
         table, sched, cpu
<1>8. Owned'
  BY <1>1, Someone
     DEF TypeOK, Placement, Owned, Place, AcquireLk, On, Goto, locks, lock, table,
         sched, cpu
<1> QED
  BY <1>2, <1>3, <1>4, <1>5, <1>6, <1>7, <1>8

\* The lock is taken: on to sleep().
LEMMA TestTakenStep ==
  ASSUME LockInv, NEW c \in Cpus, NEW p \in Procs, TestTaken(c, p)
  PROVE  LockInv'
<1> USE DEF LockInv
<1>1. \A d \in Cpus : current[d] = p <=> d = c
  BY OnlyThere DEF TestTaken, On
<1>2. TypeOK'
  BY Someone
     DEF TypeOK, Labels, TestTaken, On, pushcli, Goto, locks, lock, table, sched,
         cpu
<1>3. Placement'
  BY <1>1, Someone
     DEF TypeOK, Placement, TestTaken, On, pushcli, Goto, locks, lock, table, sched,
         cpu
<1>4. PtableLockHandedOver'
  BY <1>1, Someone
     DEF TypeOK, Placement, PtableLockHandedOver, TestTaken, On, pushcli, Goto,
         locks, lock, table, sched, cpu
<1>5. LkHeld'
  BY <1>1, Someone
     DEF TypeOK, Placement, LkHeld, TestTaken, On, pushcli, Goto, locks, lock,
         table, sched, cpu
<1>6. Depths'
  BY <1>1, Someone
     DEF TypeOK, Placement, Depths, Level, TestTaken, On, pushcli, Goto, locks,
         lock, table, sched, cpu
<1>7. Intena'
  BY <1>1, Someone
     DEF TypeOK, Placement, Depths, Level, Intena, TestTaken, On, pushcli, Goto,
         locks, lock, table, sched, cpu
<1>8. Owned'
  BY <1>1, Someone
     DEF TypeOK, Placement, Owned, Place, TestTaken, On, pushcli, Goto, locks, lock,
         table, sched, cpu
<1> QED
  BY <1>2, <1>3, <1>4, <1>5, <1>6, <1>7, <1>8

\* The lock is free: the process takes it.
LEMMA TestFreeStep ==
  ASSUME LockInv, NEW c \in Cpus, NEW p \in Procs, TestFree(c, p)
  PROVE  LockInv'
<1> USE DEF LockInv
<1>1. \A d \in Cpus : current[d] = p <=> d = c
  BY OnlyThere DEF TestFree, On
<1>2. pc[p] = "test" /\ ncli[c] = 1 /\ intena[c]
  BY <1>1, Someone DEF TypeOK, Placement, Depths, Level, Intena, TestFree, On
<1>3. TypeOK'
  BY <1>2, Someone
     DEF TypeOK, Labels, TestFree, On, popcli, Goto, locks, lock, table, sched, cpu
<1>4. Placement'
  BY <1>1, <1>2, Someone
     DEF TypeOK, Placement, TestFree, On, popcli, Goto, locks, lock, table, sched,
         cpu
<1>5. PtableLockHandedOver'
  BY <1>1, <1>2, Someone
     DEF TypeOK, Placement, PtableLockHandedOver, TestFree, On, popcli, Goto, locks,
         lock, table, sched, cpu
<1>6. LkHeld'
  BY <1>1, <1>2, Someone
     DEF TypeOK, Placement, LkHeld, TestFree, On, popcli, Goto, locks, lock, table,
         sched, cpu
<1>7. Depths'
  BY <1>1, <1>2, Someone
     DEF TypeOK, Placement, Depths, Level, TestFree, On, popcli, Goto, locks, lock,
         table, sched, cpu
<1>8. Intena'
  BY <1>1, <1>2, Someone
     DEF TypeOK, Placement, Depths, Level, Intena, TestFree, On, popcli, Goto,
         locks, lock, table, sched, cpu
<1>9. Owned'
  BY <1>1, <1>2, Someone
     DEF TypeOK, Placement, Owned, Place, TestFree, On, popcli, Goto, locks, lock,
         table, sched, cpu
<1> QED
  BY <1>3, <1>4, <1>5, <1>6, <1>7, <1>8, <1>9

\* sleep() gets ptable.lock.
LEMMA SleepPtableStep ==
  ASSUME LockInv, NEW c \in Cpus, NEW p \in Procs, SleepPtable(c, p)
  PROVE  LockInv'
<1> USE DEF LockInv
<1>1. \A d \in Cpus : current[d] = p <=> d = c
  BY OnlyThere DEF SleepPtable, On
<1>2. TypeOK'
  BY Someone
     DEF TypeOK, Labels, SleepPtable, On, Goto, locks, lock, table, sched, cpu
<1>3. Placement'
  BY <1>1, Someone
     DEF TypeOK, Placement, SleepPtable, On, Goto, locks, lock, table, sched, cpu
<1>4. PtableLockHandedOver'
  BY <1>1, Someone
     DEF TypeOK, Placement, PtableLockHandedOver, SleepPtable, On, Goto, locks,
         lock, table, sched, cpu
<1>5. LkHeld'
  BY <1>1, Someone
     DEF TypeOK, Placement, LkHeld, SleepPtable, On, Goto, locks, lock, table,
         sched, cpu
<1>6. Depths'
  BY <1>1, Someone
     DEF TypeOK, Placement, Depths, Level, SleepPtable, On, Goto, locks, lock,
         table, sched, cpu
<1>7. Intena'
  BY <1>1, Someone
     DEF TypeOK, Placement, Depths, Level, Intena, SleepPtable, On, Goto, locks,
         lock, table, sched, cpu
<1>8. Owned'
  BY <1>1, Someone
     DEF TypeOK, Placement, Owned, Place, SleepPtable, On, Goto, locks, lock, table,
         sched, cpu
<1> QED
  BY <1>2, <1>3, <1>4, <1>5, <1>6, <1>7, <1>8

\* The process falls asleep and leaves its CPU to the scheduler.
LEMMA SleepStep ==
  ASSUME LockInv, NEW c \in Cpus, NEW p \in Procs, Sleep(c, p)
  PROVE  LockInv'
<1> USE DEF LockInv
<1>1. \A d \in Cpus : current[d] = p <=> d = c
  BY OnlyThere DEF Sleep, On
<1>2. pc[p] = "release" /\ ncli[c] = 2
  BY <1>1, Someone DEF TypeOK, Placement, Depths, Level, Intena, Sleep, On
<1>3. TypeOK'
  BY <1>2, Someone
     DEF TypeOK, Labels, Sleep, On, popcli, Switch, Goto, locks, lock, table, sched,
         cpu
<1>4. Placement'
  BY <1>1, <1>2, Someone
     DEF TypeOK, Placement, Sleep, On, popcli, Switch, Goto, locks, lock, table,
         sched, cpu
<1>5. PtableLockHandedOver'
  BY <1>1, <1>2, Someone
     DEF TypeOK, Placement, PtableLockHandedOver, Sleep, On, popcli, Switch, Goto,
         locks, lock, table, sched, cpu
<1>6. LkHeld'
  BY <1>1, <1>2, Someone
     DEF TypeOK, Placement, LkHeld, Sleep, On, popcli, Switch, Goto, locks, lock,
         table, sched, cpu
<1>7. Depths'
  BY <1>1, <1>2, Someone
     DEF TypeOK, Placement, Depths, Level, Sleep, On, popcli, Switch, Goto, locks,
         lock, table, sched, cpu
<1>8. Intena'
  BY <1>1, <1>2, Someone
     DEF TypeOK, Placement, Depths, Level, Intena, Sleep, On, popcli, Switch, Goto,
         locks, lock, table, sched, cpu
<1>9. Owned'
  BY <1>1, <1>2, Someone
     DEF TypeOK, Placement, Owned, Place, Sleep, On, popcli, Switch, Goto, locks,
         lock, table, sched, cpu
<1> QED
  BY <1>3, <1>4, <1>5, <1>6, <1>7, <1>8, <1>9

\* The process is back in sleep() and releases ptable.lock.
LEMMA WokenStep ==
  ASSUME LockInv, NEW c \in Cpus, NEW p \in Procs, Woken(c, p)
  PROVE  LockInv'
<1> USE DEF LockInv
<1>1. \A d \in Cpus : current[d] = p <=> d = c
  BY OnlyThere DEF Woken, On
<1>2. pc[p] = "woken" /\ ncli[c] = 1 /\ intena[c]
  BY <1>1, Someone DEF TypeOK, Placement, Depths, Level, Intena, Woken, On
<1>3. TypeOK'
  BY <1>2, Someone
     DEF TypeOK, Labels, Woken, On, popcli, Goto, locks, lock, table, sched, cpu
<1>4. Placement'
  BY <1>1, <1>2, Someone
     DEF TypeOK, Placement, Woken, On, popcli, Goto, locks, lock, table, sched, cpu
<1>5. PtableLockHandedOver'
  BY <1>1, <1>2, Someone
     DEF TypeOK, Placement, PtableLockHandedOver, Woken, On, popcli, Goto, locks,
         lock, table, sched, cpu
<1>6. LkHeld'
  BY <1>1, <1>2, Someone
     DEF TypeOK, Placement, LkHeld, Woken, On, popcli, Goto, locks, lock, table,
         sched, cpu
<1>7. Depths'
  BY <1>1, <1>2, Someone
     DEF TypeOK, Placement, Depths, Level, Woken, On, popcli, Goto, locks, lock,
         table, sched, cpu
<1>8. Intena'
  BY <1>1, <1>2, Someone
     DEF TypeOK, Placement, Depths, Level, Intena, Woken, On, popcli, Goto, locks,
         lock, table, sched, cpu
<1>9. Owned'
  BY <1>1, <1>2, Someone
     DEF TypeOK, Placement, Owned, Place, Woken, On, popcli, Goto, locks, lock,
         table, sched, cpu
<1> QED
  BY <1>3, <1>4, <1>5, <1>6, <1>7, <1>8, <1>9

\* A process enters releasesleep().
LEMMA ReleaseSleepStep ==
  ASSUME LockInv, NEW c \in Cpus, NEW p \in Procs, ReleaseSleep(c, p)
  PROVE  LockInv'
<1> USE DEF LockInv
<1>1. \A d \in Cpus : current[d] = p <=> d = c
  BY OnlyThere DEF ReleaseSleep, On
<1>2. TypeOK'
  BY Someone
     DEF TypeOK, Labels, ReleaseSleep, On, pushcli, Goto, locks, lock, table, sched,
         cpu
<1>3. Placement'
  BY <1>1, Someone
     DEF TypeOK, Placement, ReleaseSleep, On, pushcli, Goto, locks, lock, table,
         sched, cpu
<1>4. PtableLockHandedOver'
  BY <1>1, Someone
     DEF TypeOK, Placement, PtableLockHandedOver, ReleaseSleep, On, pushcli, Goto,
         locks, lock, table, sched, cpu
<1>5. LkHeld'
  BY <1>1, Someone
     DEF TypeOK, Placement, LkHeld, ReleaseSleep, On, pushcli, Goto, locks, lock,
         table, sched, cpu
<1>6. Depths'
  BY <1>1, Someone
     DEF TypeOK, Placement, Depths, Level, ReleaseSleep, On, pushcli, Goto, locks,
         lock, table, sched, cpu
<1>7. Intena'
  BY <1>1, Someone
     DEF TypeOK, Placement, Depths, Level, Intena, ReleaseSleep, On, pushcli, Goto,
         locks, lock, table, sched, cpu
<1>8. Owned'
  BY <1>1, Someone
     DEF TypeOK, Placement, Owned, Place, ReleaseSleep, On, pushcli, Goto, locks,
         lock, table, sched, cpu
<1> QED
  BY <1>2, <1>3, <1>4, <1>5, <1>6, <1>7, <1>8

\* releasesleep() gets lk->lk and frees the lock.
LEMMA UnlockStep ==
  ASSUME LockInv, NEW c \in Cpus, NEW p \in Procs, Unlock(c, p)
  PROVE  LockInv'
<1> USE DEF LockInv
<1>1. \A d \in Cpus : current[d] = p <=> d = c
  BY OnlyThere DEF Unlock, On
<1>2. TypeOK'
  <2>1. /\ ncli' \in [Cpus -> Nat]
        /\ intena' \in [Cpus -> BOOLEAN] /\ IF_' \in [Cpus -> BOOLEAN]
    BY DEF TypeOK, Unlock, pushcli
  <2>2. /\ locked' \in BOOLEAN /\ owner' \in Procs \cup {NoOne}
        /\ lklock' \in Cpus \cup {NoOne}
    BY DEF Unlock
  <2>3. pc' \in [Procs -> Labels]
    BY DEF TypeOK, Labels, Unlock, Goto
  <2> QED
    BY <2>1, <2>2, <2>3 DEF TypeOK, Unlock, table, sched
<1>3. Placement'
  BY <1>1, Someone
     DEF TypeOK, Placement, Unlock, On, pushcli, Goto, locks, lock, table, sched,
         cpu
<1>4. PtableLockHandedOver'
  BY <1>1, Someone
     DEF TypeOK, Placement, PtableLockHandedOver, Unlock, On, pushcli, Goto, locks,
         lock, table, sched, cpu
<1>5. LkHeld'
  BY <1>1, Someone
     DEF TypeOK, Placement, LkHeld, Unlock, On, pushcli, Goto, locks, lock, table,
         sched, cpu
<1>6. Depths'
  BY <1>1, Someone
     DEF TypeOK, Placement, Depths, Level, Unlock, On, pushcli, Goto, locks, lock,
         table, sched, cpu
<1>7. Intena'
  BY <1>1, Someone
     DEF TypeOK, Placement, Depths, Level, Intena, Unlock, On, pushcli, Goto, locks,
         lock, table, sched, cpu
<1>8. Owned'
  BY <1>1, Someone
     DEF TypeOK, Placement, Owned, Place, Unlock, On, pushcli, Goto, locks, lock,
         table, sched, cpu
<1> QED
  BY <1>2, <1>3, <1>4, <1>5, <1>6, <1>7, <1>8

\* releasesleep() wakes the sleepers and releases both spin locks.
LEMMA WakeupStep ==
  ASSUME LockInv, NEW c \in Cpus, NEW p \in Procs, Wakeup(c, p)
  PROVE  LockInv'
<1> USE DEF LockInv
<1>1. \A d \in Cpus : current[d] = p <=> d = c
  BY OnlyThere DEF Wakeup, On
<1>2. pc[p] = "wakeup" /\ ncli[c] = 2 /\ intena[c]
  BY <1>1, Someone DEF TypeOK, Placement, Depths, Level, Intena, Wakeup, On
<1>3. TypeOK'
  BY <1>2, Someone
     DEF TypeOK, Labels, Wakeup, On, popcli, Goto, locks, lock, table, sched, cpu
<1>4. Placement'
  BY <1>1, <1>2, Someone
     DEF TypeOK, Placement, Wakeup, On, popcli, Goto, locks, lock, table, sched, cpu
<1>5. PtableLockHandedOver'
  BY <1>1, <1>2, Someone
     DEF TypeOK, Placement, PtableLockHandedOver, Wakeup, On, popcli, Goto, locks,
         lock, table, sched, cpu
<1>6. LkHeld'
  BY <1>1, <1>2, Someone
     DEF TypeOK, Placement, LkHeld, Wakeup, On, popcli, Goto, locks, lock, table,
         sched, cpu
<1>7. Depths'
  BY <1>1, <1>2, Someone
     DEF TypeOK, Placement, Depths, Level, Wakeup, On, popcli, Goto, locks, lock,
         table, sched, cpu
<1>8. Intena'
  BY <1>1, <1>2, Someone
     DEF TypeOK, Placement, Depths, Level, Intena, Wakeup, On, popcli, Goto, locks,
         lock, table, sched, cpu
<1>9. Owned'
  BY <1>1, <1>2, Someone
     DEF TypeOK, Placement, Owned, Place, Wakeup, On, popcli, Goto, locks, lock,
         table, sched, cpu
<1> QED
  BY <1>3, <1>4, <1>5, <1>6, <1>7, <1>8, <1>9

\* A clock interrupt.
LEMMA ClockStep ==
  ASSUME LockInv, NEW c \in Cpus, NEW p \in Procs, Clock(c, p)
  PROVE  LockInv'
<1> USE DEF LockInv
<1>1. \A d \in Cpus : current[d] = p <=> d = c
  BY OnlyThere DEF Clock
<1>2. ncli[c] = 0 /\ pc[p] \in {"out", "again", "in"}
  BY <1>1, Someone DEF TypeOK, Placement, Depths, Level, Intena, Clock
<1>3. TypeOK'
  BY <1>2, Someone DEF TypeOK, Labels, Clock, Goto, locks, lock, table, sched, cpu
<1>4. Placement'
  BY <1>1, <1>2, Someone
     DEF TypeOK, Placement, Clock, Goto, locks, lock, table, sched, cpu
<1>5. PtableLockHandedOver'
  BY <1>1, <1>2, Someone
     DEF TypeOK, Placement, PtableLockHandedOver, Clock, Goto, locks, lock, table,
         sched, cpu
<1>6. LkHeld'
  BY <1>1, <1>2, Someone
     DEF TypeOK, Placement, LkHeld, Clock, Goto, locks, lock, table, sched, cpu
<1>7. Depths'
  BY <1>1, <1>2, Someone
     DEF TypeOK, Placement, Depths, Level, Clock, Goto, locks, lock, table, sched,
         cpu
<1>8. Intena'
  BY <1>1, <1>2, Someone
     DEF TypeOK, Placement, Depths, Level, Intena, Clock, Goto, locks, lock, table,
         sched, cpu
<1>9. Owned'
  BY <1>1, <1>2, Someone
     DEF TypeOK, Placement, Owned, Place, Clock, Goto, locks, lock, table, sched,
         cpu
<1> QED
  BY <1>3, <1>4, <1>5, <1>6, <1>7, <1>8, <1>9

\* yield() leaves the CPU to the scheduler.
LEMMA YieldStep ==
  ASSUME LockInv, NEW c \in Cpus, NEW p \in Procs, Yield(c, p)
  PROVE  LockInv'
<1> USE DEF LockInv
<1>1. \A d \in Cpus : current[d] = p <=> d = c
  BY OnlyThere DEF Yield, On
<1>2. TypeOK'
  BY Someone
     DEF TypeOK, Labels, Yield, On, Switch, Goto, locks, lock, table, sched, cpu
<1>3. Placement'
  BY <1>1, Someone
     DEF TypeOK, Placement, Yield, On, Switch, Goto, locks, lock, table, sched, cpu
<1>4. PtableLockHandedOver'
  BY <1>1, Someone
     DEF TypeOK, Placement, PtableLockHandedOver, Yield, On, Switch, Goto, locks,
         lock, table, sched, cpu
<1>5. LkHeld'
  BY <1>1, Someone
     DEF TypeOK, Placement, LkHeld, Yield, On, Switch, Goto, locks, lock, table,
         sched, cpu
<1>6. Depths'
  BY <1>1, Someone
     DEF TypeOK, Placement, Depths, Level, Yield, On, Switch, Goto, locks, lock,
         table, sched, cpu
<1>7. Intena'
  BY <1>1, Someone
     DEF TypeOK, Placement, Depths, Level, Intena, Yield, On, Switch, Goto, locks,
         lock, table, sched, cpu
<1>8. Owned'
  BY <1>1, Someone
     DEF TypeOK, Placement, Owned, Place, Yield, On, Switch, Goto, locks, lock,
         table, sched, cpu
<1> QED
  BY <1>2, <1>3, <1>4, <1>5, <1>6, <1>7, <1>8

\* The process is back in yield() and returns from the interrupt.
LEMMA YieldedStep ==
  ASSUME LockInv, NEW c \in Cpus, NEW p \in Procs, Yielded(c, p)
  PROVE  LockInv'
<1> USE DEF LockInv
<1>1. \A d \in Cpus : current[d] = p <=> d = c
  BY OnlyThere DEF Yielded, On
<1>2. pc[p] = "yielded" /\ ncli[c] = 1 /\ ret[p] \in {"out", "again", "in"}
  BY <1>1, Someone DEF TypeOK, Placement, Depths, Level, Intena, Yielded, On
<1>3. TypeOK'
  BY <1>2, Someone
     DEF TypeOK, Labels, Yielded, On, Goto, locks, lock, table, sched, cpu
<1>4. Placement'
  BY <1>1, <1>2, Someone
     DEF TypeOK, Placement, Yielded, On, Goto, locks, lock, table, sched, cpu
<1>5. PtableLockHandedOver'
  BY <1>1, <1>2, Someone
     DEF TypeOK, Placement, PtableLockHandedOver, Yielded, On, Goto, locks, lock,
         table, sched, cpu
<1>6. LkHeld'
  BY <1>1, <1>2, Someone
     DEF TypeOK, Placement, LkHeld, Yielded, On, Goto, locks, lock, table, sched,
         cpu
<1>7. Depths'
  BY <1>1, <1>2, Someone
     DEF TypeOK, Placement, Depths, Level, Yielded, On, Goto, locks, lock, table,
         sched, cpu
<1>8. Intena'
  BY <1>1, <1>2, Someone
     DEF TypeOK, Placement, Depths, Level, Intena, Yielded, On, Goto, locks, lock,
         table, sched, cpu
<1>9. Owned'
  BY <1>1, <1>2, Someone
     DEF TypeOK, Placement, Owned, Place, Yielded, On, Goto, locks, lock, table,
         sched, cpu
<1> QED
  BY <1>3, <1>4, <1>5, <1>6, <1>7, <1>8, <1>9

\* A new process releases ptable.lock in forkret().
LEMMA ForkretStep ==
  ASSUME LockInv, NEW c \in Cpus, NEW p \in Procs, Forkret(c, p)
  PROVE  LockInv'
<1> USE DEF LockInv
<1>1. \A d \in Cpus : current[d] = p <=> d = c
  BY OnlyThere DEF Forkret, On
<1>2. pc[p] = "forkret" /\ ncli[c] = 1
  BY <1>1, Someone DEF TypeOK, Placement, Depths, Level, Intena, Forkret, On
<1>3. TypeOK'
  BY <1>2, Someone
     DEF TypeOK, Labels, Forkret, On, Goto, locks, lock, table, sched, cpu
<1>4. Placement'
  BY <1>1, <1>2, Someone
     DEF TypeOK, Placement, Forkret, On, Goto, locks, lock, table, sched, cpu
<1>5. PtableLockHandedOver'
  BY <1>1, <1>2, Someone
     DEF TypeOK, Placement, PtableLockHandedOver, Forkret, On, Goto, locks, lock,
         table, sched, cpu
<1>6. LkHeld'
  BY <1>1, <1>2, Someone
     DEF TypeOK, Placement, LkHeld, Forkret, On, Goto, locks, lock, table, sched,
         cpu
<1>7. Depths'
  BY <1>1, <1>2, Someone
     DEF TypeOK, Placement, Depths, Level, Forkret, On, Goto, locks, lock, table,
         sched, cpu
<1>8. Intena'
  BY <1>1, <1>2, Someone
     DEF TypeOK, Placement, Depths, Level, Intena, Forkret, On, Goto, locks, lock,
         table, sched, cpu
<1>9. Owned'
  BY <1>1, <1>2, Someone
     DEF TypeOK, Placement, Owned, Place, Forkret, On, Goto, locks, lock, table,
         sched, cpu
<1> QED
  BY <1>3, <1>4, <1>5, <1>6, <1>7, <1>8, <1>9

-----------------------------------------------------------------------------
(* The steps of the scheduler. *)

\* The scheduler starts a scan of the table.
LEMMA SchedulerEnterStep ==
  ASSUME LockInv, NEW c \in Cpus, SchedulerEnter(c)
  PROVE  LockInv'
<1> USE DEF LockInv
<1>1. 1 \in 0..NPROC + 1 /\ 1 # 0 /\ ncli[c] = 0
  BY Someone, SleepLockAssumption
     DEF TypeOK, Procs, NoOne, Depths, SchedulerEnter, locks, lock, table, sched,
         cpu
<1>2. TypeOK'
  BY <1>1, Someone DEF TypeOK, SchedulerEnter, locks, lock, table, sched, cpu
<1>3. Placement'
  BY <1>1, Someone
     DEF TypeOK, Placement, SchedulerEnter, locks, lock, table, sched, cpu
<1>4. PtableLockHandedOver'
  BY <1>1, Someone
     DEF TypeOK, Placement, PtableLockHandedOver, SchedulerEnter, locks, lock,
         table, sched, cpu
<1>5. LkHeld'
  BY <1>1, Someone
     DEF TypeOK, Placement, LkHeld, SchedulerEnter, locks, lock, table, sched, cpu
<1>6. Depths'
  BY <1>1, Someone
     DEF TypeOK, Placement, PtableLockHandedOver, Depths, Level, SchedulerEnter,
         locks, lock, table, sched, cpu
<1>7. Intena'
  BY <1>1, Someone
     DEF TypeOK, Placement, Depths, Level, Intena, SchedulerEnter, locks, lock,
         table, sched, cpu
<1>8. Owned'
  BY <1>1, Someone
     DEF TypeOK, Placement, Owned, Place, SchedulerEnter, locks, lock, table, sched,
         cpu
<1> QED
  BY <1>2, <1>3, <1>4, <1>5, <1>6, <1>7, <1>8

\* The scheduler passes by a process.
LEMMA SchedulerSkipStep ==
  ASSUME LockInv, NEW c \in Cpus, SchedulerSkip(c)
  PROVE  LockInv'
<1> USE DEF LockInv
<1>1. cursor[c] + 1 \in 0..NPROC + 1 /\ cursor[c] # 0 /\ cursor[c] + 1 # 0
  BY Someone, SleepLockAssumption
     DEF TypeOK, Procs, NoOne, Depths, SchedulerSkip, Scanning, locks, lock, table,
         sched, cpu
<1>2. TypeOK'
  BY <1>1, Someone
     DEF TypeOK, SchedulerSkip, Scanning, locks, lock, table, sched, cpu
<1>3. Placement'
  BY <1>1, Someone
     DEF TypeOK, Placement, SchedulerSkip, Scanning, locks, lock, table, sched, cpu
<1>4. PtableLockHandedOver'
  BY <1>1, Someone
     DEF TypeOK, Placement, PtableLockHandedOver, SchedulerSkip, Scanning, locks,
         lock, table, sched, cpu
<1>5. LkHeld'
  BY <1>1, Someone
     DEF TypeOK, Placement, LkHeld, SchedulerSkip, Scanning, locks, lock, table,
         sched, cpu
<1>6. Depths'
  BY <1>1, Someone
     DEF TypeOK, Placement, PtableLockHandedOver, Depths, Level, SchedulerSkip,
         Scanning, locks, lock, table, sched, cpu
<1>7. Intena'
  BY <1>1, Someone
     DEF TypeOK, Placement, Depths, Level, Intena, SchedulerSkip, Scanning, locks,
         lock, table, sched, cpu
<1>8. Owned'
  BY <1>1, Someone
     DEF TypeOK, Placement, Owned, Place, SchedulerSkip, Scanning, locks, lock,
         table, sched, cpu
<1> QED
  BY <1>2, <1>3, <1>4, <1>5, <1>6, <1>7, <1>8

\* The scheduler switches to a process.
LEMMA SchedulerRunStep ==
  ASSUME LockInv, NEW c \in Cpus, SchedulerRun(c)
  PROVE  LockInv'
<1> USE DEF LockInv
<1>1. /\ cursor[c] \in Procs /\ cursor[c] + 1 \in 0..NPROC + 1
      /\ cursor[c] # 0 /\ cursor[c] + 1 # 0
  BY Someone, SleepLockAssumption
     DEF TypeOK, Procs, NoOne, Depths, SchedulerRun, Scanning, locks, lock, table,
         sched, cpu
<1>2. TypeOK'
  BY <1>1, Someone
     DEF TypeOK, SchedulerRun, Scanning, locks, lock, table, sched, cpu
<1>3. Placement'
  BY <1>1, Someone
     DEF TypeOK, Placement, SchedulerRun, Scanning, locks, lock, table, sched, cpu
<1>4. PtableLockHandedOver'
  BY <1>1, Someone
     DEF TypeOK, Placement, PtableLockHandedOver, SchedulerRun, Scanning, locks,
         lock, table, sched, cpu
<1>5. LkHeld'
  BY <1>1, Someone
     DEF TypeOK, Placement, LkHeld, SchedulerRun, Scanning, locks, lock, table,
         sched, cpu
<1>6. Depths'
  BY <1>1, Someone
     DEF TypeOK, Placement, PtableLockHandedOver, Depths, Level, SchedulerRun,
         Scanning, locks, lock, table, sched, cpu
<1>7. Intena'
  BY <1>1, Someone
     DEF TypeOK, Placement, Depths, Level, Intena, SchedulerRun, Scanning, locks,
         lock, table, sched, cpu
<1>8. Owned'
  BY <1>1, Someone
     DEF TypeOK, Placement, Owned, Place, SchedulerRun, Scanning, locks, lock,
         table, sched, cpu
<1> QED
  BY <1>2, <1>3, <1>4, <1>5, <1>6, <1>7, <1>8

\* The scheduler ends its scan.
LEMMA SchedulerLeaveStep ==
  ASSUME LockInv, NEW c \in Cpus, SchedulerLeave(c)
  PROVE  LockInv'
<1> USE DEF LockInv
<1>1. 0 \in 0..NPROC + 1 /\ cursor[c] # 0 /\ ncli[c] = 1
  BY Someone, SleepLockAssumption
     DEF TypeOK, Procs, NoOne, Depths, SchedulerLeave, locks, lock, table, sched,
         cpu
<1>2. TypeOK'
  BY <1>1, Someone DEF TypeOK, SchedulerLeave, locks, lock, table, sched, cpu
<1>3. Placement'
  BY <1>1, Someone
     DEF TypeOK, Placement, SchedulerLeave, locks, lock, table, sched, cpu
<1>4. PtableLockHandedOver'
  BY <1>1, Someone
     DEF TypeOK, Placement, PtableLockHandedOver, SchedulerLeave, locks, lock,
         table, sched, cpu
<1>5. LkHeld'
  BY <1>1, Someone
     DEF TypeOK, Placement, LkHeld, SchedulerLeave, locks, lock, table, sched, cpu
<1>6. Depths'
  BY <1>1, Someone
     DEF TypeOK, Placement, PtableLockHandedOver, Depths, Level, SchedulerLeave,
         locks, lock, table, sched, cpu
<1>7. Intena'
  BY <1>1, Someone
     DEF TypeOK, Placement, Depths, Level, Intena, SchedulerLeave, locks, lock,
         table, sched, cpu
<1>8. Owned'
  BY <1>1, Someone
     DEF TypeOK, Placement, Owned, Place, SchedulerLeave, locks, lock, table, sched,
         cpu
<1> QED
  BY <1>2, <1>3, <1>4, <1>5, <1>6, <1>7, <1>8

-----------------------------------------------------------------------------
(* The theorems. *)

\* The initial states.
LEMMA InitInv == Init => LockInv
<1> SUFFICES ASSUME Init PROVE LockInv
  OBVIOUS
<1>1. TypeOK
  <2>1. 0 \in 0..NPROC + 1
    BY SleepLockAssumption
  <2> QED
    BY <2>1 DEF Init, TypeOK, Labels
<1>2. Placement /\ PtableLockHandedOver /\ LkHeld /\ Depths /\ Intena
  BY Someone DEF Init, Placement, PtableLockHandedOver, LkHeld, Depths, Intena
<1>3. Owned
  BY DEF Init, Owned, Place
<1> QED
  BY <1>1, <1>2, <1>3 DEF LockInv

\* Every step keeps the invariant.
LEMMA NextInv == LockInv /\ [Next]_vars => LockInv'
<1> SUFFICES ASSUME LockInv, [Next]_vars PROVE LockInv'
  OBVIOUS
<1>1. CASE UNCHANGED vars
  BY <1>1 DEF LockInv, TypeOK, Placement, PtableLockHandedOver, LkHeld, Depths, Intena,
              Owned, Place, vars
<1>2. CASE Next
  <2>1. PICK c \in Cpus :
          \/ Scheduler(c)
          \/ \E p \in Procs : AcquireSleep(c, p) \/ Progress(c, p) \/ Preemption(c, p)
    BY <1>2 DEF Next
  <2>2. CASE Scheduler(c)
    BY <2>2, SchedulerEnterStep, SchedulerSkipStep, SchedulerRunStep, SchedulerLeaveStep
       DEF Scheduler
  <2>3. CASE \E p \in Procs : AcquireSleep(c, p) \/ Progress(c, p) \/ Preemption(c, p)
    BY <2>3, AcquireSleepStep, AcquireLkStep, TestTakenStep, TestFreeStep,
       SleepPtableStep, SleepStep, WokenStep, ReleaseSleepStep, UnlockStep, WakeupStep,
       ClockStep, YieldStep, YieldedStep, ForkretStep DEF Progress, Preemption
  <2> QED
    BY <2>1, <2>2, <2>3
<1> QED
  BY <1>1, <1>2

\* The invariant holds in every reachable state.
THEOREM Invariance == Spec => []LockInv
  BY InitInv, NextInv, PTL DEF Spec

\* acquiresleep() lets one process in at a time and lk->pid names it, on any
\* number of CPUs, with clock interrupts anywhere.
THEOREM MutualExclusionHolds == Spec => []MutualExclusion
<1>1. LockInv => MutualExclusion
  <2> SUFFICES ASSUME LockInv PROVE MutualExclusion
    OBVIOUS
  <2>1. \A p \in Inside : locked /\ owner = p
    BY DEF LockInv, Owned, Inside
  <2>2. Inside \subseteq {owner}
    BY <2>1
  <2>3. IsFiniteSet({owner}) /\ Cardinality({owner}) = 1
    BY FS_Singleton
  <2>4. Cardinality(Inside) <= 1
    BY <2>2, <2>3, FS_Subset
  <2> QED
    BY <2>1, <2>4 DEF MutualExclusion
<1> QED
  BY <1>1, Invariance, PTL

\* ptable.lock is handed over at swtch(): sleep() and yield() leave it to the
\* scheduler, the scheduler to sleep(), yield() and forkret().
THEOREM PtableLockHandedOverHolds == Spec => []PtableLockHandedOver
<1>1. LockInv => PtableLockHandedOver
  BY DEF LockInv
<1> QED
  BY <1>1, Invariance, PTL

\* pushcli/popcli stay matched across context switches: a process outside of
\* all spin locks has interrupts enabled whichever CPU it runs on.
THEOREM InterruptsRestoredHolds == Spec => []InterruptsRestored
<1>1. LockInv => InterruptsRestored
  BY Someone DEF LockInv, Depths, Level, InterruptsRestored
<1> QED
  BY <1>1, Invariance, PTL

=============================================================================
