------------------------------- MODULE BufIde -------------------------------
(***************************************************************************)
(* The buffer cache of bio.c on top of the disk driver of ide.c: bget with *)
(* its LRU list, bread, bwrite, brelse, iderw and the disk interrupt.      *)
(*                                                                         *)
(* What is done under bcache.lock or idelock is one step; the sleep lock   *)
(* of a buffer is taken in one step when it is free.  The data of a block  *)
(* is the number of the modification that made it.                         *)
(***************************************************************************)
EXTENDS Naturals, Sequences, FiniteSets, FiniteSetsExt

CONSTANTS Procs, Bufs, Blocks,
          NoBlock, NoProc, NoBuf,
          MaxWrites     \* bound: modifications in a behaviour

ASSUME BufAssumption == /\ NoBlock \notin Blocks /\ NoProc \notin Procs
                        /\ NoBuf \notin Bufs
                        /\ IsFiniteSet(Bufs) /\ IsFiniteSet(Procs)
                        /\ MaxWrites \in Nat

VARIABLES
  buf,        \* per buffer: blockno, flags, refcnt, sleep lock, data
  lru,        \* the list from bcache.head, most recently used first
  idequeue,   \* the disk works on its first element
  platter,    \* what the disk holds
  pc, mine,   \* per process: where it is, and the buffer it got from bget
  want,       \* per process: the block it asked for
  panicked,
  stamp,      \* counts the modifications
  latest,     \* history: the last modification of each block
  unwritten,  \* history: blocks whose last write has failed
  stale       \* history: buffers that are B_VALID after a failed read, or after
              \* the read of such a block
vars == <<buf, lru, idequeue, platter, pc, mine, want, panicked, stamp, latest,
          unwritten, stale>>
history == <<stamp, latest>>
faults == <<unwritten, stale>>

Empty == [blockno |-> NoBlock, valid |-> FALSE, dirty |-> FALSE, refcnt |-> 0,
          lock |-> NoProc, data |-> 0]

\* After binit().
Init ==
  /\ buf = [b \in Bufs |-> Empty]
  /\ lru = CHOOSE f \in [1..Cardinality(Bufs) -> Bufs] : IsInjective(f)
  /\ idequeue = <<>>
  /\ platter = [k \in Blocks |-> 0]
  /\ pc = [p \in Procs |-> "idle"]
  /\ mine = [p \in Procs |-> NoBuf]
  /\ want = [p \in Procs |-> NoBlock]
  /\ panicked = FALSE
  /\ stamp = 0 /\ latest = platter /\ unwritten = {} /\ stale = {}

At(p, l) == ~panicked /\ pc[p] = l
Goto(p, l) == pc' = [pc EXCEPT ![p] = l]
-----------------------------------------------------------------------------
(* bget and bread *)

Cached(k) == {b \in Bufs : buf[b].blockno = k}

\* Mutations of Recyclable: refcnt is not looked at; B_DIRTY is not.
RecyclableInUse == {i \in DOMAIN lru : ~buf[lru[i]].dirty}
RecyclableDirty == {i \in DOMAIN lru : buf[lru[i]].refcnt = 0}

\* Indices in the list of the buffers bget() may recycle.
Recyclable == {i \in DOMAIN lru :
                 buf[lru[i]].refcnt = 0 /\ ~buf[lru[i]].dirty}

Takes(p, k, b) == /\ mine' = [mine EXCEPT ![p] = b]
                  /\ want' = [want EXCEPT ![p] = k]
                  /\ Goto(p, "lock")

BgetCached(p, k) ==
  /\ At(p, "idle") /\ Cached(k) # {}
  /\ LET b == lru[Min({i \in DOMAIN lru : lru[i] \in Cached(k)})] IN
     /\ buf' = [buf EXCEPT ![b].refcnt = @ + 1]
     /\ Takes(p, k, b)
  /\ UNCHANGED <<lru, idequeue, platter, panicked, history, faults>>

\* The least recently used buffer that is free and clean, or panic.
BgetRecycle(p, k) ==
  /\ At(p, "idle") /\ Cached(k) = {}
  /\ IF Recyclable = {}
       THEN panicked' = TRUE /\ UNCHANGED <<buf, pc, mine, want, stale>>
       ELSE LET b == lru[Max(Recyclable)] IN
            /\ buf' = [buf EXCEPT ![b].blockno = k, ![b].valid = FALSE,
                                  ![b].refcnt = 1]
            /\ stale' = stale \ {b}
            /\ Takes(p, k, b)
            /\ UNCHANGED panicked
  /\ UNCHANGED <<lru, idequeue, platter, history, unwritten>>

\* acquiresleep(&b->lock); a buffer that is not B_VALID is read.
Lock(p) ==
  /\ At(p, "lock") /\ buf[mine[p]].lock = NoProc
  /\ buf' = [buf EXCEPT ![mine[p]].lock = p]
  /\ Goto(p, IF buf[mine[p]].valid THEN "have" ELSE "iderw")
  /\ UNCHANGED <<lru, idequeue, platter, mine, want, panicked, history, faults>>
-----------------------------------------------------------------------------
(* ide.c *)

\* iderw(): append the buffer to the queue; the loop around sleep() comes next.
Iderw(p) ==
  /\ At(p, "iderw")
  /\ idequeue' = Append(idequeue, mine[p])
  /\ Goto(p, "iotest")
  /\ UNCHANGED <<buf, lru, platter, mine, want, panicked, history, faults>>

Done(b) == buf[b].valid /\ ~buf[b].dirty

\* The test of the loop and sleep(b, &idelock).
IdeTest(p) ==
  /\ At(p, "iotest")
  /\ Goto(p, IF Done(mine[p]) THEN "have" ELSE "asleep")
  /\ UNCHANGED <<buf, lru, idequeue, platter, mine, want, panicked, history,
                 faults>>

\* Mutation of Ideintr: no wakeup for writers.
IdeintrQuiet ==
  /\ ~panicked /\ idequeue # <<>>
  /\ LET b == Head(idequeue) IN
     /\ platter' = [platter EXCEPT ![buf[b].blockno] = IF buf[b].dirty
                                                         THEN buf[b].data ELSE @]
     /\ buf' = [buf EXCEPT ![b].valid = TRUE, ![b].dirty = FALSE,
                  ![b].data = platter'[buf[b].blockno]]
     /\ pc' = [p \in Procs |-> IF pc[p] = "asleep" /\ mine[p] = b
                                  /\ ~buf[b].dirty THEN "iotest" ELSE pc[p]]
  /\ idequeue' = Tail(idequeue)
  /\ UNCHANGED <<lru, mine, want, panicked, history, faults>>

\* ideintr(): the disk is through with the first buffer of the queue.  The status
\* of a read is looked at, but the buffer becomes B_VALID all the same; that of a
\* write is not.
Ideintr ==
  /\ ~panicked /\ idequeue # <<>>
  /\ LET b == Head(idequeue)
         k == buf[b].blockno
     IN  /\ \/ /\ buf[b].dirty
               /\ \/ /\ platter' = [platter EXCEPT ![k] = buf[b].data]
                     /\ unwritten' = unwritten \ {k}
                  \/ /\ unwritten' = unwritten \cup {k}
                     /\ UNCHANGED platter
               /\ buf' = [buf EXCEPT ![b].valid = TRUE, ![b].dirty = FALSE]
               /\ UNCHANGED stale
            \/ /\ ~buf[b].dirty
               /\ buf' = [buf EXCEPT ![b].valid = TRUE, ![b].data = platter[k]]
               /\ stale' = IF k \in unwritten THEN stale \cup {b} ELSE stale
               /\ UNCHANGED <<platter, unwritten>>
            \/ /\ ~buf[b].dirty
               /\ buf' = [buf EXCEPT ![b].valid = TRUE]
               /\ stale' = stale \cup {b}
               /\ UNCHANGED <<platter, unwritten>>
         /\ pc' = [p \in Procs |-> IF pc[p] = "asleep" /\ mine[p] = b
                                     THEN "iotest" ELSE pc[p]]
  /\ idequeue' = Tail(idequeue)
  /\ UNCHANGED <<lru, mine, want, panicked, history>>
-----------------------------------------------------------------------------
(* What the holder of a buffer does with it, and brelse *)

\* The holder modifies the block and has to log_write() or bwrite() it.
Modify(p) ==
  /\ At(p, "have") /\ stamp < MaxWrites
  /\ stamp' = stamp + 1
  /\ buf' = [buf EXCEPT ![mine[p]].data = stamp + 1]
  /\ latest' = [latest EXCEPT ![want[p]] = stamp + 1]
  /\ Goto(p, "modified")
  /\ UNCHANGED <<lru, idequeue, platter, mine, want, panicked, faults>>

\* log_write()'s part in the cache: B_DIRTY keeps the buffer.
LogWrite(p) ==
  /\ At(p, "modified")
  /\ buf' = [buf EXCEPT ![mine[p]].dirty = TRUE]
  /\ Goto(p, "have")
  /\ UNCHANGED <<lru, idequeue, platter, mine, want, panicked, history, faults>>

\* bwrite(), of a block just modified or, in install_trans(), logged earlier.
Bwrite(p) ==
  /\ At(p, "modified") \/ (At(p, "have") /\ buf[mine[p]].dirty)
  /\ buf' = [buf EXCEPT ![mine[p]].dirty = TRUE]
  /\ Goto(p, "iderw")
  /\ UNCHANGED <<lru, idequeue, platter, mine, want, panicked, history, faults>>

\* brelse(): releasesleep(), then the count and the list under bcache.lock.
Unlock(p) ==
  /\ At(p, "have")
  /\ buf' = [buf EXCEPT ![mine[p]].lock = NoProc]
  /\ Goto(p, "put")
  /\ UNCHANGED <<lru, idequeue, platter, mine, want, panicked, history, faults>>

\* The list with b taken out and linked in again behind bcache.head.
MoveToFront(b) ==
  LET at == CHOOSE i \in DOMAIN lru : lru[i] = b
  IN  [i \in DOMAIN lru |->
         IF i = 1 THEN b ELSE IF i <= at THEN lru[i - 1] ELSE lru[i]]

Put(p) ==
  /\ At(p, "put")
  /\ LET b == mine[p] IN
     /\ buf' = [buf EXCEPT ![b].refcnt = @ - 1]
     /\ lru' = IF buf[b].refcnt = 1 THEN MoveToFront(b) ELSE lru
  /\ mine' = [mine EXCEPT ![p] = NoBuf]
  /\ want' = [want EXCEPT ![p] = NoBlock]
  /\ Goto(p, "idle")
  /\ UNCHANGED <<idequeue, platter, panicked, history, faults>>
-----------------------------------------------------------------------------
Steps(p) == \/ Lock(p) \/ Iderw(p) \/ IdeTest(p) \/ LogWrite(p) \/ Bwrite(p)
            \/ Unlock(p) \/ Put(p)

Next == \/ Ideintr
        \/ \E p \in Procs :
             \/ \E k \in Blocks : BgetCached(p, k) \/ BgetRecycle(p, k)
             \/ Modify(p) \/ Steps(p)

Spec == Init /\ [][Next]_vars

\* The disk answers, processes are scheduled, and a process that asks for a
\* sleep lock which is released again and again gets it.
Fairness == /\ WF_vars(Ideintr)
            /\ \A p \in Procs : /\ WF_vars(Iderw(p) \/ IdeTest(p) \/ Put(p))
                                /\ WF_vars(LogWrite(p))
                                /\ SF_vars(Lock(p)) /\ SF_vars(Unlock(p))

LiveSpec == Spec /\ Fairness
-----------------------------------------------------------------------------
(* Properties. *)

Holding == {"iderw", "iotest", "asleep", "have", "modified"}

TypeOK ==
  /\ buf \in [Bufs -> [blockno : Blocks \cup {NoBlock}, valid : BOOLEAN,
                       dirty : BOOLEAN, refcnt : Nat,
                       lock : Procs \cup {NoProc}, data : 0..MaxWrites]]
  /\ lru \in [1..Cardinality(Bufs) -> Bufs] /\ idequeue \in Seq(Bufs)
  /\ platter \in [Blocks -> 0..MaxWrites] /\ latest \in [Blocks -> 0..MaxWrites]
  /\ pc \in [Procs -> Holding \cup {"idle", "lock", "put"}]
  /\ mine \in [Procs -> Bufs \cup {NoBuf}]
  /\ want \in [Procs -> Blocks \cup {NoBlock}]
  /\ panicked \in BOOLEAN /\ stamp \in 0..MaxWrites
  /\ unwritten \subseteq Blocks /\ stale \subseteq Bufs

\* "Only one process at a time can use a buffer", there is one buffer for a
\* block, and refcnt counts those who use or wait for it: it stays the buffer
\* of the block they asked for.
BufferIsTheirs ==
  /\ \A b, c \in Bufs : buf[b].blockno = buf[c].blockno
                        /\ buf[b].blockno # NoBlock => b = c
  /\ \A b \in Bufs : buf[b].refcnt = Cardinality({p \in Procs : mine[p] = b})
  /\ \A p \in Procs : /\ mine[p] # NoBuf => buf[mine[p]].blockno = want[p]
                      /\ pc[p] \in Holding => buf[mine[p]].lock = p

\* A process that has read a block sees the last modification anybody made to
\* it, whether that is in the log's keeping or has been to the disk and back,
\* unless the disk could not read the block, or had lost the last write of it and
\* the block was read again.
ReadersSeeLatest ==
  \A p \in Procs : pc[p] \in {"have", "modified"} =>
    \/ mine[p] \in stale
    \/ buf[mine[p]].valid /\ buf[mine[p]].data = latest[want[p]]

\* bread() and bwrite() come back: the disk serves every request and wakes the
\* process that waits for it, unless the kernel panics.
RequestsServed ==
  \A p \in Procs : pc[p] = "iderw" ~> pc[p] = "have" \/ panicked
=============================================================================
