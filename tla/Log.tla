-------------------------------- MODULE Log ---------------------------------
(***************************************************************************)
(* The write-ahead log of log.c together with the part of the buffer cache *)
(* it leans on (B_DIRTY pinning and the NBUF limit of bget in bio.c).      *)
(*                                                                         *)
(* commit() writes the log blocks and the header but no longer installs    *)
(* them: the home locations are written by sync(), which end_op() calls    *)
(* when the log has filled up and which is also a system call.  A block    *)
(* content is a stamp, larger for later modifications; 0 is what mkfs      *)
(* wrote.  One disk sector is written atomically.                          *)
(***************************************************************************)
EXTENDS Naturals, Sequences, FiniteSets, Functions

CONSTANTS Procs,      \* processes making file system calls
          Readers,    \* those that also read outside a transaction (readi)
          Syncers,    \* those that also make the sync system call
          Blocks,     \* home blocks the workload modifies
          LOGSIZE,    \* param.h: entries of the log header, blocks of the log
          NBUF,       \* param.h: buffers of the cache
          NoBlock,    \* no buffer locked
          MaxWrites,  \* bound: modifications in a behaviour
          MaxCrashes  \* bound: power failures in a behaviour

ASSUME LogAssumption ==
  /\ LOGSIZE \in Nat /\ LOGSIZE > 1
  /\ NBUF = LOGSIZE                  \* both are MAXOPBLOCKS*3
  /\ MaxWrites \in Nat /\ MaxCrashes \in Nat
  /\ Readers \subseteq Procs /\ Syncers \subseteq Procs
  /\ NoBlock \notin Blocks
  /\ IsFiniteSet(Procs) /\ IsFiniteSet(Blocks)

VARIABLES
  home, slot, head,     \* disk: home blocks, log blocks, header block
  buf, dirty,           \* cache: contents; blocks pinned by B_DIRTY
  lh, full,             \* log.lh (block list, n is its length), log.full
  outstanding, committing,
  pc, hold, tail,       \* per process: where it is, its locked buffer, its
                        \* loop index in write_log/install_trans
  mode,                 \* "run", "panic", or a step of recover_from_log
  rtail,                \* loop index of install_trans in recovery
  stamp, crashes,       \* counters behind the bounds
  durable               \* history: contents as of the last commit

disk == <<home, slot, head>>
cache == <<buf, dirty>>
logv == <<lh, full>>
ops == <<outstanding, committing>>
locals == <<pc, hold, tail>>
boot == <<mode, rtail, crashes>>
vars == <<disk, cache, logv, ops, locals, boot, stamp, durable>>

Init ==
  /\ home = [b \in Blocks |-> 0]
  /\ slot = [i \in 1..LOGSIZE |-> 0]
  /\ head = <<>>
  /\ buf = home /\ dirty = {}
  /\ lh = <<>> /\ full = FALSE
  /\ outstanding = 0 /\ committing = FALSE
  /\ pc = [p \in Procs |-> "idle"]
  /\ hold = [p \in Procs |-> NoBlock]
  /\ tail = [p \in Procs |-> 0]
  /\ mode = "read" /\ rtail = 0
  /\ stamp = 0 /\ crashes = 0
  /\ durable = home

-----------------------------------------------------------------------------
(* Buffer cache. *)

Held == {hold[p] : p \in Procs} \ {NoBlock}

\* bget() can recycle a buffer that is neither referenced nor dirty.  The
\* block is cached already or such a buffer exists; otherwise it panics.
CanGet(b) == b \in dirty \cup Held \/ Cardinality(dirty \cup Held) < NBUF

\* The same for a block of the log region next to the home blocks in bs.
CanGetLogBlock(bs) == Cardinality(dirty \cup Held \cup bs) < NBUF

Panic == /\ mode' = "panic"
         /\ UNCHANGED <<disk, cache, logv, ops, locals, rtail, crashes, stamp,
                        durable>>

Goto(p, l) == pc' = [pc EXCEPT ![p] = l]

\* wakeup(&log): every sleeper goes back to the test in begin_op.
Woken == [q \in Procs |-> IF pc[q] = "asleep" THEN "begin" ELSE pc[q]]

-----------------------------------------------------------------------------
(* begin_op, log_write, end_op. *)

\* Mutation of MustWait: begin_op does not look at log.committing.
MustWaitForSpace == Len(lh) > LOGSIZE - 1

\* The test at the head of begin_op's loop.
MustWait == committing \/ Len(lh) > LOGSIZE - 1

BeginOp(p) ==
  /\ pc[p] \in {"idle", "begin"} /\ hold[p] = NoBlock
  /\ IF MustWait
       THEN Goto(p, "asleep") /\ UNCHANGED outstanding
       ELSE Goto(p, "op") /\ outstanding' = outstanding + 1
  /\ UNCHANGED <<disk, cache, logv, committing, hold, tail, boot, stamp,
                 durable>>

\* bread() of a home block, in a transaction or (readi) outside of one.
Bread(p, b) ==
  /\ pc[p] = "op" \/ (pc[p] = "idle" /\ p \in Readers)
  /\ hold[p] = NoBlock
  /\ b \notin Held
  /\ IF CanGet(b)
       THEN /\ hold' = [hold EXCEPT ![p] = b]
            /\ UNCHANGED <<disk, cache, logv, ops, pc, tail, boot, stamp,
                           durable>>
       ELSE Panic

\* brelse() of a buffer that was only read, or already logged.
Brelse(p) ==
  /\ pc[p] \in {"op", "idle"}
  /\ hold[p] # NoBlock
  /\ hold' = [hold EXCEPT ![p] = NoBlock]
  /\ UNCHANGED <<disk, cache, logv, ops, pc, tail, boot, stamp, durable>>

\* The caller has modified the buffer; log_write's two checks are made before
\* log.lock is taken.
LogWriteCheck(p) ==
  /\ pc[p] = "op" /\ hold[p] # NoBlock
  /\ stamp < MaxWrites
  /\ IF Len(lh) >= LOGSIZE \/ outstanding < 1
       THEN Panic
       ELSE /\ Goto(p, "append")
            /\ stamp' = stamp + 1
            /\ buf' = [buf EXCEPT ![hold[p]] = stamp + 1]
            /\ UNCHANGED <<disk, dirty, logv, ops, hold, tail, boot, durable>>

\* Mutation of LogWrite: the buffer is not marked B_DIRTY.
LogWriteUnpinned(p) ==
  /\ pc[p] = "append"
  /\ lh' = IF hold[p] \in Range(lh) THEN lh ELSE Append(lh, hold[p])
  /\ full' = (full \/ (lh' # lh /\ Len(lh') = LOGSIZE - 1))
  /\ hold' = [hold EXCEPT ![p] = NoBlock]
  /\ Goto(p, "op")
  /\ UNCHANGED <<disk, cache, ops, tail, boot, stamp, durable>>

\* log_write under log.lock: absorb the block or append it.
LogWrite(p) ==
  /\ pc[p] = "append"
  /\ lh' = IF hold[p] \in Range(lh) THEN lh ELSE Append(lh, hold[p])
  /\ full' = (full \/ (lh' # lh /\ Len(lh') = LOGSIZE - 1))
  /\ dirty' = dirty \cup {hold[p]}
  /\ hold' = [hold EXCEPT ![p] = NoBlock]
  /\ Goto(p, "op")
  /\ UNCHANGED <<disk, buf, ops, tail, boot, stamp, durable>>

EndOp(p) ==
  /\ pc[p] = "op" /\ hold[p] = NoBlock
  /\ IF committing
       THEN Panic
       ELSE /\ outstanding' = outstanding - 1
            /\ IF outstanding' = 0
                 THEN Goto(p, "wlog") /\ committing' = TRUE
                 ELSE pc' = [Woken EXCEPT ![p] = "idle"] /\ UNCHANGED committing
            /\ tail' = [tail EXCEPT ![p] = 0]
            /\ UNCHANGED <<disk, cache, logv, hold, boot, stamp, durable>>

-----------------------------------------------------------------------------
(* commit and sync, by the process whose end_op was the last. *)

\* One iteration of write_log: cached block to log block.
WriteLog(p) ==
  /\ pc[p] = "wlog" /\ tail[p] < Len(lh)
  /\ lh[tail[p] + 1] \notin Held
  /\ IF CanGetLogBlock({lh[tail[p] + 1]})
       THEN /\ slot' = [slot EXCEPT ![tail[p] + 1] = buf[lh[tail[p] + 1]]]
            /\ tail' = [tail EXCEPT ![p] = @ + 1]
            /\ UNCHANGED <<home, head, cache, logv, ops, pc, hold, boot, stamp,
                           durable>>
       ELSE Panic

\* write_log is through; commit() does nothing for an empty log.
WriteLogDone(p) ==
  /\ pc[p] = "wlog" /\ tail[p] >= Len(lh)
  /\ Goto(p, IF tail[p] = 0 THEN "check" ELSE "whead")
  /\ UNCHANGED <<disk, cache, logv, ops, hold, tail, boot, stamp, durable>>

\* write_head in commit(): the commit point.
WriteHead(p) ==
  /\ pc[p] = "whead"
  /\ IF CanGetLogBlock({})
       THEN /\ head' = lh
            /\ durable' = buf
            /\ Goto(p, "check")
            /\ UNCHANGED <<home, slot, cache, logv, ops, hold, tail, boot,
                           stamp>>
       ELSE Panic

\* sync()'s two early returns leave only this length.
SyncReady == Len(lh) = LOGSIZE - 1

\* if(log.full) sync();
EndOpSync(p) ==
  /\ pc[p] = "check"
  /\ Goto(p, IF full /\ SyncReady THEN "install" ELSE "finish")
  /\ tail' = [tail EXCEPT ![p] = 0]
  /\ UNCHANGED <<disk, cache, logv, ops, hold, boot, stamp, durable>>

\* sys_sync(): no lock, no look at log.committing.
SysSync(p) ==
  /\ p \in Syncers /\ pc[p] = "idle" /\ hold[p] = NoBlock
  /\ SyncReady
  /\ Goto(p, "sinstall")
  /\ tail' = [tail EXCEPT ![p] = 0]
  /\ UNCHANGED <<disk, cache, logv, ops, hold, boot, stamp, durable>>

\* Mutation of Install: it reads the slot after the block's.
InstallNextSlot(p) ==
  /\ pc[p] \in {"install", "sinstall"} /\ tail[p] < Len(lh)
  /\ LET b == lh[tail[p] + 1]
         v == slot[tail[p] + 2]
     IN  /\ b \notin Held
         /\ home' = [home EXCEPT ![b] = v] /\ buf' = [buf EXCEPT ![b] = v]
         /\ dirty' = dirty \ {b}
         /\ tail' = [tail EXCEPT ![p] = @ + 1]
         /\ UNCHANGED <<slot, head, logv, ops, pc, hold, boot, stamp, durable>>

\* One iteration of install_trans: log block to cached block to home.
Install(p) ==
  /\ pc[p] \in {"install", "sinstall"} /\ tail[p] < Len(lh)
  /\ LET b == lh[tail[p] + 1]
         v == slot[tail[p] + 1]
     IN  /\ b \notin Held
         /\ IF CanGetLogBlock({b})
              THEN /\ home' = [home EXCEPT ![b] = v]
                   /\ buf' = [buf EXCEPT ![b] = v]
                   /\ dirty' = dirty \ {b}
                   /\ tail' = [tail EXCEPT ![p] = @ + 1]
                   /\ UNCHANGED <<slot, head, logv, ops, pc, hold, boot, stamp,
                                  durable>>
              ELSE Panic

\* Mutation of ClearLog: the last block is not installed.
ClearLogEarly(p) ==
  /\ pc[p] \in {"install", "sinstall"} /\ tail[p] + 1 >= Len(lh)
  /\ lh' = <<>>
  /\ Goto(p, IF pc[p] = "install" THEN "erase" ELSE "serase")
  /\ UNCHANGED <<disk, cache, full, ops, hold, tail, boot, stamp, durable>>

\* install_trans is through: log.lh.n = 0.
ClearLog(p) ==
  /\ pc[p] \in {"install", "sinstall"} /\ tail[p] >= Len(lh)
  /\ lh' = <<>>
  /\ Goto(p, IF pc[p] = "install" THEN "erase" ELSE "serase")
  /\ UNCHANGED <<disk, cache, full, ops, hold, tail, boot, stamp, durable>>

\* write_head in sync(): erase the transactions from the log.
EraseHead(p) ==
  /\ pc[p] \in {"erase", "serase"}
  /\ IF CanGetLogBlock({})
       THEN /\ head' = lh
            /\ Goto(p, IF pc[p] = "erase" THEN "finish" ELSE "idle")
            /\ UNCHANGED <<home, slot, cache, logv, ops, hold, tail, boot,
                           stamp, durable>>
       ELSE Panic

\* Mutation of Finish: no wakeup.
FinishQuiet(p) ==
  /\ pc[p] = "finish"
  /\ committing' = FALSE
  /\ Goto(p, "idle")
  /\ UNCHANGED <<disk, cache, logv, outstanding, hold, tail, boot, stamp,
                 durable>>

\* The end of end_op.
Finish(p) ==
  /\ pc[p] = "finish"
  /\ committing' = FALSE
  /\ pc' = [Woken EXCEPT ![p] = "idle"]
  /\ UNCHANGED <<disk, cache, logv, outstanding, hold, tail, boot, stamp,
                 durable>>

-----------------------------------------------------------------------------
(* Power failure and recover_from_log. *)

\* What the home blocks will hold once the log on disk has been installed.
Recovered ==
  [b \in Blocks |-> IF \E i \in 1..Len(head) : head[i] = b
                      THEN slot[CHOOSE i \in 1..Len(head) : head[i] = b]
                      ELSE home[b]]

Crash ==
  /\ crashes < MaxCrashes
  /\ crashes' = crashes + 1
  /\ mode' = "read" /\ rtail' = 0
  /\ buf' = home /\ dirty' = {}
  /\ lh' = <<>> /\ full' = FALSE
  /\ outstanding' = 0 /\ committing' = FALSE
  /\ pc' = [p \in Procs |-> "idle"]
  /\ hold' = [p \in Procs |-> NoBlock]
  /\ tail' = [p \in Procs |-> 0]
  /\ durable' = Recovered
  /\ UNCHANGED <<disk, stamp>>

\* Mutation of ReadHead: the log is erased without being installed.
ReadHeadNothing ==
  /\ mode = "read"
  /\ mode' = "install"
  /\ UNCHANGED <<disk, cache, logv, ops, locals, rtail, crashes, stamp,
                 durable>>

ReadHead ==
  /\ mode = "read"
  /\ lh' = head
  /\ mode' = "install"
  /\ UNCHANGED <<disk, cache, full, ops, locals, rtail, crashes, stamp,
                 durable>>

RecoverInstall ==
  /\ mode = "install" /\ rtail < Len(lh)
  /\ home' = [home EXCEPT ![lh[rtail + 1]] = slot[rtail + 1]]
  /\ buf' = [buf EXCEPT ![lh[rtail + 1]] = slot[rtail + 1]]
  /\ rtail' = rtail + 1
  /\ UNCHANGED <<slot, head, dirty, logv, ops, locals, mode, crashes, stamp,
                 durable>>

RecoverClear ==
  /\ mode = "install" /\ rtail >= Len(lh)
  /\ lh' = <<>> /\ head' = <<>>
  /\ mode' = "run" /\ rtail' = 0
  /\ UNCHANGED <<home, slot, cache, full, ops, locals, crashes, stamp, durable>>

Recovery == ReadHead \/ RecoverInstall \/ RecoverClear
-----------------------------------------------------------------------------

FinishOp(p) == WriteLog(p) \/ WriteLogDone(p) \/ WriteHead(p) \/ EndOpSync(p)
               \/ Install(p) \/ ClearLog(p) \/ EraseHead(p) \/ Finish(p)

InOp(p) == Brelse(p) \/ LogWriteCheck(p) \/ LogWrite(p) \/ EndOp(p)

ProcNext(p) == \/ BeginOp(p) \/ InOp(p) \/ FinishOp(p) \/ SysSync(p)
               \/ \E b \in Blocks : Bread(p, b)

Next == \/ mode = "run" /\ \E p \in Procs : ProcNext(p)
        \/ Recovery
        \/ Crash

Spec == Init /\ [][Next]_vars

\* A process inside the log code keeps running: the scheduler is round-robin,
\* the disk answers, and a file system call makes finitely many block accesses.
Fairness ==
  /\ WF_vars(Recovery)
  /\ \A p \in Procs : /\ WF_vars(mode = "run" /\ FinishOp(p))
                      /\ WF_vars(mode = "run" /\ (Brelse(p) \/ LogWrite(p)))
                      /\ WF_vars(mode = "run" /\ pc[p] = "begin" /\ BeginOp(p))
                      /\ SF_vars(mode = "run" /\ EndOp(p))

LiveSpec == Spec /\ Fairness
-----------------------------------------------------------------------------
(* Properties. *)

Labels == {"idle", "begin", "asleep", "op", "append", "wlog", "whead", "check",
           "install", "erase", "sinstall", "serase", "finish"}
Modes == {"run", "panic", "read", "install"}
Stamps == 0..MaxWrites

TypeOK ==
  /\ home \in [Blocks -> Stamps] /\ buf \in [Blocks -> Stamps]
  /\ durable \in [Blocks -> Stamps]
  /\ slot \in [1..LOGSIZE -> Stamps]
  /\ head \in Seq(Blocks) /\ lh \in Seq(Blocks)
  /\ dirty \subseteq Blocks
  /\ full \in BOOLEAN /\ committing \in BOOLEAN
  /\ outstanding \in Nat
  /\ pc \in [Procs -> Labels]
  /\ hold \in [Procs -> Blocks \cup {NoBlock}]
  /\ tail \in [Procs -> Nat]
  /\ mode \in Modes /\ rtail \in Nat
  /\ stamp \in Stamps /\ crashes \in 0..MaxCrashes

Committers == {p \in Procs : pc[p] \in {"wlog", "whead", "check", "install",
                                        "erase", "finish"}}
InTransaction == {p \in Procs : pc[p] \in {"op", "append"}}

\* "The logging system only commits when there are no FS system calls active"
\* (log.c, head comment): at most one process commits, never while another is
\* inside begin_op()/end_op(), and outstanding counts those inside.
CommitExcludesOps ==
  /\ outstanding = Cardinality(InTransaction)
  /\ Cardinality(Committers) = IF committing THEN 1 ELSE 0
  /\ committing => outstanding = 0

\* log.lh.block[LOGSIZE] is never overrun, although log_write() tests its
\* length before taking the lock, and no commit writes past the LOGSIZE-1
\* blocks that mkfs puts behind the header: it is the NBUF limit on dirty and
\* locked buffers that stops a transaction which begin_op() did not.
LogFits ==
  /\ Len(lh) <= LOGSIZE
  /\ \A p \in Procs :
       pc[p] \in {"wlog", "whead", "install"} => tail[p] <= LOGSIZE - 1

\* A crash at any moment, recovery included, leaves every block with its last
\* committed content or with that of a later modification.
NoCommittedWriteLost == \A b \in Blocks : Recovered[b] >= durable[b]

\* Only a block that has a committed copy in the log can come back from a crash
\* with a content nobody has committed, and only while write_log() runs.
TornOnlyByAbsorption ==
  \A b \in Blocks : Recovered[b] # durable[b] =>
     /\ b \in Range(head)
     /\ \E p \in Procs : pc[p] \in {"wlog", "whead"}

\* A buffer that may be recycled holds what the disk holds, so dropping it and
\* reading it again is harmless (bget, B_DIRTY pinning).
CleanBuffersMatchDisk ==
  mode \in {"run", "panic"} =>
    \A b \in Blocks \ (dirty \cup Held) : buf[b] = home[b]

\* What a process reads from a block never goes back to an older content while
\* the machine is up: install_trans() overwrites cached buffers with what the
\* log holds.
CacheNeverRegresses ==
  [][mode = "run" /\ mode' = "run" => \A b \in Blocks : buf'[b] >= buf[b]]_vars

\* install_trans(): "Copy committed blocks from log to their home location":
\* a home location only ever receives the committed content of its block.
InstallsOnlyCommitted ==
  [][\A b \in Blocks : home'[b] # home[b] => home'[b] = durable[b]]_vars

\* A process that begin_op() put to sleep is woken.
SleepersWake == \A p \in Procs : pc[p] = "asleep" ~> pc[p] # "asleep"

-----------------------------------------------------------------------------
(* An inductive invariant of the log without sync system calls. *)

Up == mode \in {"run", "panic"}

\* Who may be where: operations and commits exclude each other.
Exclusion ==
  /\ \A p \in Procs : pc[p] \notin {"sinstall", "serase"}
  /\ committing => InTransaction = {}
  /\ committing <=> Committers # {}
  /\ \A p, q \in Committers : p = q
  /\ outstanding = Cardinality(InTransaction)
  /\ ~Up => /\ \A p \in Procs : pc[p] = "idle" /\ hold[p] = NoBlock
            /\ dirty = {}

\* Locked buffers, and the pool they and the dirty ones come from.
Buffers ==
  /\ \A p \in Procs :
       /\ hold[p] # NoBlock => pc[p] \in {"idle", "op", "append"}
       /\ pc[p] = "append" => hold[p] # NoBlock
  /\ \A p, q \in Procs : hold[p] = hold[q] /\ hold[p] # NoBlock => p = q
  /\ Cardinality(dirty \cup Held) <= NBUF

\* The list in memory, the list on disk and the pinned buffers.
ListShape ==
  /\ \A i, j \in 1..Len(lh) : lh[i] = lh[j] => i = j
  /\ \A i, j \in 1..Len(head) : head[i] = head[j] => i = j
  /\ Cardinality(Range(lh)) = Len(lh) /\ Cardinality(Range(head)) = Len(head)
  /\ Len(lh) <= LOGSIZE /\ Len(head) < LOGSIZE
Progress ==
  \A p \in Procs :
    /\ pc[p] = "wlog" => tail[p] <= Len(lh) /\ tail[p] < LOGSIZE
    /\ pc[p] = "whead" => tail[p] = Len(lh) /\ tail[p] < LOGSIZE
    /\ pc[p] \in {"check", "install", "finish"} => head = lh
    /\ pc[p] = "install" => tail[p] <= Len(lh)
    /\ pc[p] = "erase" => lh = <<>>
HeadIsPrefix ==
  Up => \/ \E p \in Procs : pc[p] = "erase"
        \/ Len(head) <= Len(lh) /\ \A i \in 1..Len(head) : head[i] = lh[i]
DirtyIsListed ==
  Up => \/ dirty = Range(lh) /\ \A p \in Procs : pc[p] # "install"
        \/ \E p \in Procs : /\ pc[p] = "install"
                            /\ dirty = {lh[i] : i \in tail[p] + 1..Len(lh)}
Recovering ==
  /\ mode = "read" => lh = <<>> /\ rtail = 0
  /\ mode = "install" => lh = head /\ rtail <= Len(head)
Lists == ListShape /\ Progress /\ HeadIsPrefix /\ DirtyIsListed /\ Recovering

\* Contents: cache, log and home locations against the last commit.
CleanIsHome ==
  \A b \in Blocks : \/ b \in dirty
                    \/ \E p \in Procs : pc[p] = "append" /\ hold[p] = b
                    \/ buf[b] = home[b]
HomeIsDurable == \A b \in Blocks : b \in Range(head) \/ durable[b] = home[b]
LogIsDurable ==
  \A i \in 1..Len(head) :
    \/ slot[i] = durable[head[i]]
    \/ \E p \in Procs : pc[p] \in {"wlog", "whead"} /\ i <= tail[p]
Copied ==
  /\ \A p \in Procs :
       /\ pc[p] \in {"wlog", "whead"} =>
            \A i \in 1..tail[p] : slot[i] = buf[lh[i]]
       /\ pc[p] \in {"check", "install"} => buf = durable
       /\ pc[p] = "install" =>
            \A i \in 1..tail[p] : home[lh[i]] = durable[lh[i]]
       /\ pc[p] = "erase" => home = durable
  /\ mode = "install" => \A i \in 1..rtail : home[head[i]] = durable[head[i]]
CacheIsAhead == Up => \A b \in Blocks : durable[b] <= buf[b]
Contents ==
  CleanIsHome /\ HomeIsDurable /\ LogIsDurable /\ Copied /\ CacheIsAhead

\* No content is newer than the last modification.
Ages ==
  /\ \A b \in Blocks : home[b] <= stamp /\ buf[b] <= stamp
                       /\ durable[b] <= stamp
  /\ \A i \in 1..LOGSIZE : slot[i] <= stamp

\* The inductive invariant behind the theorems about the log: who is where in
\* begin_op()/end_op()/commit()/sync(), and what cache, log and disk hold then.
IndInv == TypeOK /\ Exclusion /\ Buffers /\ Lists /\ Contents /\ Ages

-----------------------------------------------------------------------------
(* Refinement: the log implements CrashDisk. *)

Abs == INSTANCE CrashDisk WITH
         mem <- IF mode \in {"run", "panic"} THEN buf ELSE Recovered,
         disk <- Recovered,
         logged <- Range(head)

\* The log implements the weaker promise of CrashDisk.
ImplementsTorn == Abs!TornSpec

\* The log makes the updates of file system calls atomic.
ImplementsAtomic == Abs!AtomicSpec
=============================================================================
