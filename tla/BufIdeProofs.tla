---------------------------- MODULE BufIdeProofs ----------------------------
(***************************************************************************)
(* Theorems about BufIde for every number of processes, buffers, blocks    *)
(* and modifications: a buffer stays its users', and readers see the       *)
(* latest modification.                                                    *)
(***************************************************************************)
EXTENDS BufIde, FiniteSetTheorems, SequenceTheorems, TLAPS

-----------------------------------------------------------------------------
(* The inductive invariant. *)

\* Every buffer is in the list.
Listed == \A b \in Bufs : \E i \in DOMAIN lru : lru[i] = b

\* A process has a buffer exactly during its call, and the buffer's sleep lock
\* exactly from bget()'s acquiresleep() to brelse().
Users ==
  /\ \A p \in Procs : /\ pc[p] = "idle" <=> mine[p] = NoBuf
                      /\ pc[p] # "idle" => want[p] \in Blocks
  /\ \A b \in Bufs, p \in Procs :
       buf[b].lock = p => mine[p] = b /\ pc[p] \in Holding

\* The queue has no buffer twice; a queued buffer's holder waits for it in
\* iderw(), and the request is not done; who is about to queue has a request.
Queued ==
  /\ \A i, j \in 1..Len(idequeue) : idequeue[i] = idequeue[j] => i = j
  /\ \A i \in 1..Len(idequeue) :
       /\ ~Done(idequeue[i])
       /\ \E p \in Procs : mine[p] = idequeue[i] /\ pc[p] \in {"iotest", "asleep"}
  /\ \A p \in Procs : pc[p] = "iderw" => ~Done(mine[p])

\* The buffer has a modification that the disk does not have.
Pending(b) == buf[b].dirty \/ \E p \in Procs : mine[p] = b /\ pc[p] = "modified"

\* Where the latest modification of a block is: in its buffer if that is valid
\* or has something to write, else on the disk unless the disk has lost it.
Contents ==
  /\ \A p \in Procs : pc[p] \in {"have", "modified"} => buf[mine[p]].valid
  /\ \A b \in Bufs : buf[b].blockno = NoBlock => ~buf[b].valid /\ ~buf[b].dirty
  /\ \A b \in Bufs : (buf[b].valid /\ b \notin stale) \/ Pending(b)
                       => buf[b].data = latest[buf[b].blockno]
  /\ \A k \in Blocks : platter[k] = latest[k] \/ k \in unwritten
                       \/ \E b \in Bufs : buf[b].blockno = k /\ Pending(b)

\* struct buf.
BufType == [blockno : Blocks \cup {NoBlock}, valid : BOOLEAN, dirty : BOOLEAN,
            refcnt : Nat, lock : Procs \cup {NoProc}, data : 0..MaxWrites]

\* The four parts of BufferIsTheirs, and the processes that use a buffer.
OneBuffer == \A b, c \in Bufs :
               buf[b].blockno = buf[c].blockno /\ buf[b].blockno # NoBlock => b = c
UsersOf(b) == {p \in Procs : mine[p] = b}
Counted == \A b \in Bufs : buf[b].refcnt = Cardinality(UsersOf(b))
Theirs == \A p \in Procs : mine[p] # NoBuf => buf[mine[p]].blockno = want[p]
Locked == \A p \in Procs : pc[p] \in Holding => buf[mine[p]].lock = p

BufInv == /\ TypeOK /\ Listed /\ OneBuffer /\ Counted /\ Theirs /\ Locked
          /\ Users /\ Queued /\ Contents

-----------------------------------------------------------------------------
(* The list of buffers. *)

\* The first index of a set of indices.
LEMMA MinIn ==
  ASSUME NEW S, S \subseteq Nat, S # {}
  PROVE  Min(S) \in S
<1>1. PICK x \in S : \A y \in S : ~(<<y, x>> \in OpToRel(<, Nat))
  BY NatLessThanWellFounded, WFMin
<1>2. \A y \in S : x <= y
  <2> SUFFICES ASSUME NEW y \in S PROVE x <= y
    OBVIOUS
  <2>1. x \in Nat /\ y \in Nat
    OBVIOUS
  <2>2. ~(y < x)
    BY <1>1, <2>1 DEF OpToRel
  <2> QED
    BY <2>1, <2>2
<1> QED
  BY <1>2 DEF Min

\* The last index of a set of indices.
LEMMA MaxIn ==
  ASSUME NEW n \in Nat, NEW S, S \subseteq 1..n, S # {}
  PROVE  Max(S) \in S
<1> DEFINE T == {n - i : i \in S}
<1>1. T \subseteq Nat /\ T # {}
  <2>1. \A i \in S : n - i \in Nat
    OBVIOUS
  <2> QED
    BY <2>1
<1>2. PICK x \in T : \A y \in T : ~(<<y, x>> \in OpToRel(<, Nat))
  BY <1>1, NatLessThanWellFounded, WFMin
<1>3. PICK m \in S : x = n - m
  BY <1>2
<1>4. \A i \in S : m >= i
  <2> SUFFICES ASSUME NEW i \in S PROVE m >= i
    OBVIOUS
  <2>1. n - i \in T /\ n - i \in Nat /\ n - m \in Nat /\ m \in Nat /\ i \in Nat
    OBVIOUS
  <2>2. ~(n - i < n - m)
    BY <1>1, <1>2, <1>3, <2>1 DEF OpToRel
  <2> QED
    BY <2>1, <2>2
<1> QED
  BY <1>3, <1>4 DEF Max

\* binit() puts every buffer on the list.
LEMMA InitListed ==
  ASSUME Init
  PROVE  lru \in [1..Cardinality(Bufs) -> Bufs] /\ Listed
<1> DEFINE D == 1..Cardinality(Bufs)
<1>1. IsFiniteSet(Bufs) /\ Cardinality(Bufs) \in Nat /\ ExistsBijection(D, Bufs)
  BY BufAssumption, FS_CardinalityType
<1>2. \E f \in [D -> Bufs] : IsInjective(f)
  BY <1>1 DEF ExistsBijection, Bijection, Injection
<1>3. lru \in [D -> Bufs] /\ IsInjective(lru)
  BY <1>2 DEF Init
<1>4. lru \in Injection(D, Bufs) /\ Cardinality(D) = Cardinality(Bufs)
  BY <1>1, <1>3, FS_Interval DEF Injection
<1>5. lru \in Surjection(D, Bufs)
  BY <1>1, <1>4, FS_Injection
<1> QED
  BY <1>3, <1>5 DEF Surjection, Listed

\* brelse() keeps every buffer on the list.
LEMMA MovedListed ==
  ASSUME TypeOK, Listed, NEW b \in Bufs, lru' = MoveToFront(b)
  PROVE  lru' \in [1..Cardinality(Bufs) -> Bufs] /\ Listed'
<1> DEFINE n == Cardinality(Bufs)
           at == CHOOSE i \in DOMAIN lru : lru[i] = b
<1>1. n \in Nat /\ lru \in [1..n -> Bufs]
  BY BufAssumption, FS_CardinalityType DEF TypeOK
<1>2. at \in 1..n /\ lru[at] = b
  BY <1>1 DEF Listed
<1> HIDE DEF n, at
<1>3. lru' = [i \in 1..n |-> IF i = 1 THEN b ELSE IF i <= at THEN lru[i - 1] ELSE lru[i]]
  BY <1>1 DEF MoveToFront, at
<1>4. lru' \in [1..n -> Bufs]
  BY <1>1, <1>2, <1>3
<1>5. ASSUME NEW c \in Bufs PROVE \E i \in 1..n : lru'[i] = c
  <2>1. PICK j \in 1..n : lru[j] = c
    BY <1>1 DEF Listed
  <2>2. CASE j < at
    <3>1. j + 1 \in 1..n /\ lru'[j + 1] = lru[j]
      BY <1>1, <1>2, <1>3, <2>2
    <3> QED
      BY <2>1, <3>1
  <2>3. CASE j = at
    BY <1>1, <1>2, <1>3, <2>1, <2>3
  <2>4. CASE j > at
    BY <1>1, <1>2, <1>3, <2>1, <2>4
  <2> QED
    BY <1>1, <1>2, <2>2, <2>3, <2>4
<1> QED
  BY <1>4, <1>5 DEF n, Listed

-----------------------------------------------------------------------------
(* The invariant is inductive. *)

\* refcnt stays exact as long as nobody gets or gives up a buffer.
LEMMA CountedKept ==
  ASSUME Counted, mine' = mine, \A b \in Bufs : buf'[b].refcnt = buf[b].refcnt
  PROVE  Counted'
BY DEF Counted, UsersOf

\* What the types say of the buffers that processes and the queue have.
LEMMA Facts ==
  ASSUME BufInv
  PROVE  /\ NoBuf \notin Bufs /\ NoProc \notin Procs /\ NoBlock \notin Blocks
         /\ \A q \in Procs : pc[q] # "idle" => mine[q] \in Bufs /\ want[q] \in Blocks
         /\ \A q \in Procs : mine[q] \in Bufs => pc[q] # "idle"
         /\ Len(idequeue) \in Nat
         /\ \A i \in 1..Len(idequeue) : idequeue[i] \in Bufs
BY BufAssumption DEF BufInv, TypeOK, Users

\* Whose buffer is which: nothing changes while buffers keep their blocks.
LEMMA BlocksKept ==
  ASSUME BufInv, UNCHANGED <<lru, mine, want>>,
         \A c \in Bufs : buf'[c].blockno = buf[c].blockno
  PROVE  Listed' /\ OneBuffer' /\ Theirs'
<1>1. Listed'
  BY DEF BufInv, Listed
<1>2. OneBuffer'
  BY DEF BufInv, OneBuffer
<1>3. \A q \in Procs : mine[q] # NoBuf => mine[q] \in Bufs
  BY DEF BufInv, TypeOK
<1>4. Theirs'
  BY <1>3 DEF BufInv, Theirs
<1> QED
  BY <1>1, <1>2, <1>4

\* Who holds a buffer: nothing changes as long as nobody gets or gives up a
\* buffer or its sleep lock.
LEMMA HoldersKept ==
  ASSUME BufInv, UNCHANGED <<mine, want>>,
         \A c \in Bufs : buf'[c].lock = buf[c].lock,
         \A q \in Procs : /\ pc'[q] = "idle" <=> pc[q] = "idle"
                          /\ pc'[q] \in Holding <=> pc[q] \in Holding
  PROVE  Locked' /\ Users'
<1>1. \A q \in Procs : pc[q] \in Holding => mine[q] \in Bufs /\ buf[mine[q]].lock = q
  BY Facts DEF BufInv, Locked, Holding
<1>2. Locked'
  BY <1>1 DEF Locked
<1>3. Users'
  BY DEF BufInv, Users
<1> QED
  BY <1>2, <1>3

\* The queue: nobody leaves iderw() before the request is done, and no request
\* is done but by the disk.
LEMMA QueuedKept ==
  ASSUME BufInv, UNCHANGED <<idequeue, mine>>,
         \A c \in Bufs : buf'[c].valid /\ ~buf'[c].dirty => Done(c),
         \A q \in Procs : pc[q] \in {"iotest", "asleep"} /\ ~Done(mine[q])
                            => pc'[q] \in {"iotest", "asleep"},
         \A q \in Procs : pc'[q] = "iderw" =>
           \/ pc[q] = "iderw"
           \/ mine[q] \in Bufs /\ ~(buf'[mine[q]].valid /\ ~buf'[mine[q]].dirty)
  PROVE  Queued'
<1>1. \A i, j \in 1..Len(idequeue') : idequeue'[i] = idequeue'[j] => i = j
  BY DEF BufInv, Queued
<1>2. ASSUME NEW i \in 1..Len(idequeue')
      PROVE  /\ ~(buf'[idequeue'[i]].valid /\ ~buf'[idequeue'[i]].dirty)
             /\ \E q \in Procs : /\ mine'[q] = idequeue'[i]
                               /\ pc'[q] \in {"iotest", "asleep"}
  <2>1. idequeue[i] \in Bufs /\ ~Done(idequeue[i])
    BY Facts DEF BufInv, Queued
  <2>2. PICK q \in Procs : mine[q] = idequeue[i] /\ pc[q] \in {"iotest", "asleep"}
    BY DEF BufInv, Queued
  <2> QED
    BY <2>1, <2>2
<1>3. ASSUME NEW q \in Procs, pc'[q] = "iderw"
      PROVE  ~(buf'[mine'[q]].valid /\ ~buf'[mine'[q]].dirty)
  <2>1. pc[q] = "iderw" => mine[q] \in Bufs /\ ~Done(mine[q])
    BY Facts DEF BufInv, Queued
  <2> QED
    BY <1>3, <2>1
<1> QED
  BY <1>1, <1>2, <1>3 DEF Queued, Done

\* The contents: a step that moves no data keeps them, as long as what is
\* pending stays pending and only valid buffers are used.
LEMMA ContentsKept ==
  ASSUME BufInv, UNCHANGED <<mine, platter, latest, unwritten, stale>>,
         \A c \in Bufs : /\ buf'[c].blockno = buf[c].blockno
                         /\ buf'[c].valid <=> buf[c].valid
                         /\ buf'[c].data = buf[c].data
                         /\ buf'[c].dirty => buf[c].dirty \/ buf[c].valid,
         \A c \in Bufs : Pending(c)' <=> Pending(c),
         \A q \in Procs : pc'[q] \in {"have", "modified"} =>
           mine[q] \in Bufs /\ buf[mine[q]].valid
  PROVE  Contents'
<1>1. \A q \in Procs : pc'[q] \in {"have", "modified"} => buf'[mine'[q]].valid
  OBVIOUS
<1>2. \A c \in Bufs : buf'[c].blockno = NoBlock => ~buf'[c].valid /\ ~buf'[c].dirty
  BY DEF BufInv, Contents
<1>3. \A c \in Bufs : (buf'[c].valid /\ c \notin stale') \/ Pending(c)'
                        => buf'[c].data = latest'[buf'[c].blockno]
  BY DEF BufInv, Contents
<1>4. \A k \in Blocks : platter'[k] = latest'[k] \/ k \in unwritten'
                        \/ \E c \in Bufs : buf'[c].blockno = k /\ Pending(c)'
  BY DEF BufInv, Contents
<1> QED
  BY <1>1, <1>2, <1>3, <1>4 DEF Contents

\* bread() gets the sleep lock of its buffer.
LEMMA LockStep ==
  ASSUME BufInv, NEW p \in Procs, Lock(p)
  PROVE  BufInv'
<1> USE DEF BufInv
<1>1. /\ pc[p] = "lock" /\ mine[p] \in Bufs /\ want[p] \in Blocks
      /\ UNCHANGED <<lru, idequeue, platter, mine, want, latest, unwritten, stale>>
      /\ buf[mine[p]].lock = NoProc
  BY Facts DEF Lock, At, Goto, history, faults
<1>2. \A q \in Procs :
        pc'[q] = IF q = p THEN IF buf[mine[p]].valid THEN "have" ELSE "iderw" ELSE pc[q]
  BY DEF TypeOK, Lock, At, Goto, history, faults
<1>3. \A c \in Bufs :
        /\ buf'[c].blockno = buf[c].blockno /\ (buf'[c].valid <=> buf[c].valid)
        /\ buf'[c].refcnt = buf[c].refcnt /\ (buf'[c].dirty <=> buf[c].dirty)
        /\ buf'[c].lock = IF c = mine[p] THEN p ELSE buf[c].lock
        /\ buf'[c].data = buf[c].data
  BY <1>1 DEF TypeOK, Lock, At, Goto, history, faults
<1>4. TypeOK'
  <2>1. pc' \in [Procs -> Holding \cup {"idle", "lock", "put"}]
    BY <1>1 DEF TypeOK, Holding, Lock, At, Goto, history, faults
  <2>2. buf' \in [Bufs -> BufType]
    <3>1. buf \in [Bufs -> BufType] /\ buf[mine[p]] \in BufType
      BY <1>1 DEF TypeOK, BufType
    <3>2. [buf[mine[p]] EXCEPT !.lock = p] \in BufType
      BY <3>1 DEF BufType
    <3> QED
      BY <1>1, <3>1, <3>2 DEF Lock
  <2> QED
    BY <1>1, <2>1, <2>2 DEF TypeOK, BufType, Lock, At, Goto, history, faults
<1>5. Listed' /\ OneBuffer' /\ Theirs'
  BY <1>1, <1>3, BlocksKept
<1>6. Counted'
  BY <1>1, <1>3, CountedKept
<1>7. Locked' /\ Users'
  <2>1. \A q \in Procs : /\ pc'[q] = "idle" <=> pc[q] = "idle"
                         /\ pc'[q] \in Holding <=> q = p \/ pc[q] \in Holding
    BY <1>1, <1>2 DEF Holding
  <2>2. \A q \in Procs : pc[q] \in Holding =>
                           mine[q] \in Bufs /\ buf[mine[q]].lock = q /\ q # NoProc
    BY Facts DEF Locked, Holding
  <2>3. Locked'
    BY <1>1, <1>3, <2>1, <2>2 DEF Locked
  <2>4. \A c \in Bufs, q \in Procs : buf'[c].lock = q => mine[q] = c /\ pc'[q] \in Holding
    BY <1>1, <1>3, <2>1 DEF Users
  <2> QED
    BY <1>1, <2>1, <2>3, <2>4 DEF Users
<1>8. Queued'
  <2>1. \A c \in Bufs : buf'[c].valid /\ ~buf'[c].dirty => Done(c)
    BY <1>3 DEF Done
  <2>2. \A q \in Procs : pc[q] \in {"iotest", "asleep"} /\ ~Done(mine[q])
                           => pc'[q] \in {"iotest", "asleep"}
    BY <1>1, <1>2
  <2>3. \A q \in Procs : pc'[q] = "iderw" =>
          \/ pc[q] = "iderw"
          \/ mine[q] \in Bufs /\ ~(buf'[mine[q]].valid /\ ~buf'[mine[q]].dirty)
    BY <1>1, <1>2, <1>3
  <2> QED
    BY <1>1, <2>1, <2>2, <2>3, QueuedKept
<1>9. Contents'
  <2>1. \A c \in Bufs : Pending(c)' <=> Pending(c)
    BY <1>1, <1>2, <1>3 DEF Pending
  <2>2. \A q \in Procs : pc'[q] \in {"have", "modified"} =>
                           mine[q] \in Bufs /\ buf[mine[q]].valid
    BY <1>1, <1>2, Facts DEF Contents, Done
  <2> QED
    BY <1>1, <1>3, <2>1, <2>2, ContentsKept
<1> QED
  BY <1>4, <1>5, <1>6, <1>7, <1>8, <1>9

\* iderw() queues the buffer.
LEMMA IderwStep ==
  ASSUME BufInv, NEW p \in Procs, Iderw(p)
  PROVE  BufInv'
<1> USE DEF BufInv
<1>1. /\ pc[p] = "iderw" /\ mine[p] \in Bufs /\ want[p] \in Blocks
      /\ UNCHANGED <<lru, platter, mine, want, latest, unwritten, stale>>
      /\ idequeue' = Append(idequeue, mine[p])
  BY Facts DEF Iderw, At, Goto, history, faults
<1>2. \A q \in Procs : pc'[q] = IF q = p THEN "iotest" ELSE pc[q]
  BY DEF TypeOK, Iderw, At, Goto, history, faults
<1>3. \A c \in Bufs :
        /\ buf'[c].blockno = buf[c].blockno /\ (buf'[c].valid <=> buf[c].valid)
        /\ buf'[c].refcnt = buf[c].refcnt /\ (buf'[c].dirty <=> buf[c].dirty)
        /\ buf'[c].lock = buf[c].lock
        /\ buf'[c].data = buf[c].data
  BY <1>1 DEF TypeOK, Iderw, At, Goto, history, faults
<1>4. TypeOK'
  <2>1. pc' \in [Procs -> Holding \cup {"idle", "lock", "put"}]
    BY <1>1 DEF TypeOK, Holding, Iderw, At, Goto, history, faults
  <2>2. buf' \in [Bufs -> BufType]
    BY DEF TypeOK, BufType, Iderw
  <2> QED
    BY <1>1, <2>1, <2>2 DEF TypeOK, BufType, Iderw, At, Goto, history, faults
<1>5. Listed' /\ OneBuffer' /\ Theirs'
  BY <1>1, <1>3, BlocksKept
<1>6. Counted'
  BY <1>1, <1>3, CountedKept
<1>7. Locked' /\ Users'
  <2>1. \A q \in Procs : /\ pc'[q] = "idle" <=> pc[q] = "idle"
                         /\ pc'[q] \in Holding <=> pc[q] \in Holding
    BY <1>1, <1>2 DEF Holding
  <2> QED
    BY <1>1, <1>3, <2>1, HoldersKept
<1>8. Queued'
  <2>1. /\ Len(idequeue') = Len(idequeue) + 1 /\ Len(idequeue) \in Nat
        /\ idequeue'[Len(idequeue')] = mine[p]
        /\ \A i \in 1..Len(idequeue) : idequeue'[i] = idequeue[i]
    BY <1>1 DEF TypeOK
  <2>2. \A i \in 1..Len(idequeue') : i = Len(idequeue') \/ i \in 1..Len(idequeue)
    BY <2>1
  <2>3. \A q \in Procs : mine[q] = mine[p] /\ pc[q] \in Holding => q = p
    BY <1>1 DEF Holding, Locked
  <2>4. \A i \in 1..Len(idequeue) : idequeue[i] # mine[p]
    BY <1>1, <2>3 DEF Holding, Queued
  <2>5. \A i, j \in 1..Len(idequeue') : idequeue'[i] = idequeue'[j] => i = j
    BY <2>1, <2>2, <2>4 DEF Queued
  <2>6. ASSUME NEW i \in 1..Len(idequeue')
        PROVE  /\ idequeue'[i] \in Bufs /\ ~Done(idequeue'[i])
               /\ \E q \in Procs : mine'[q] = idequeue'[i] /\ pc'[q] \in {"iotest", "asleep"}
    <3>1. CASE i = Len(idequeue')
      BY <1>1, <1>2, <2>1, <3>1 DEF Queued
    <3>2. CASE i \in 1..Len(idequeue)
      <4>1. PICK q \in Procs : mine[q] = idequeue[i] /\ pc[q] \in {"iotest", "asleep"}
        BY <3>2 DEF Queued
      <4> QED
        BY <1>1, <1>2, <2>1, <3>2, <4>1, Facts DEF Queued
    <3> QED
      BY <2>2, <3>1, <3>2
  <2>7. \A q \in Procs : pc'[q] = "iderw" => mine'[q] \in Bufs /\ ~Done(mine'[q])
    BY <1>1, <1>2, Facts DEF Queued
  <2> QED
    BY <1>3, <2>5, <2>6, <2>7 DEF Queued, Done
<1>9. Contents'
  <2>1. \A c \in Bufs : Pending(c)' <=> Pending(c)
    BY <1>1, <1>2, <1>3 DEF Pending
  <2>2. \A q \in Procs : pc'[q] \in {"have", "modified"} =>
                           mine[q] \in Bufs /\ buf[mine[q]].valid
    BY <1>1, <1>2, Facts DEF Contents, Done
  <2> QED
    BY <1>1, <1>3, <2>1, <2>2, ContentsKept
<1> QED
  BY <1>4, <1>5, <1>6, <1>7, <1>8, <1>9

\* The loop of iderw() tests the flags.
LEMMA IdeTestStep ==
  ASSUME BufInv, NEW p \in Procs, IdeTest(p)
  PROVE  BufInv'
<1> USE DEF BufInv
<1>1. /\ pc[p] = "iotest" /\ mine[p] \in Bufs /\ want[p] \in Blocks
      /\ UNCHANGED <<lru, idequeue, platter, mine, want, latest, unwritten, stale>>
  BY Facts DEF IdeTest, At, Goto, history, faults
<1>2. \A q \in Procs :
        pc'[q] = IF q = p THEN IF Done(mine[p]) THEN "have" ELSE "asleep" ELSE pc[q]
  BY DEF TypeOK, IdeTest, At, Goto, history, faults
<1>3. \A c \in Bufs :
        /\ buf'[c].blockno = buf[c].blockno /\ (buf'[c].valid <=> buf[c].valid)
        /\ buf'[c].refcnt = buf[c].refcnt /\ (buf'[c].dirty <=> buf[c].dirty)
        /\ buf'[c].lock = buf[c].lock
        /\ buf'[c].data = buf[c].data
  BY <1>1 DEF TypeOK, IdeTest, At, Goto, history, faults
<1>4. TypeOK'
  <2>1. pc' \in [Procs -> Holding \cup {"idle", "lock", "put"}]
    BY <1>1 DEF TypeOK, Holding, IdeTest, At, Goto, history, faults
  <2>2. buf' \in [Bufs -> BufType]
    BY DEF TypeOK, BufType, IdeTest
  <2> QED
    BY <1>1, <2>1, <2>2 DEF TypeOK, BufType, IdeTest, At, Goto, history, faults
<1>5. Listed' /\ OneBuffer' /\ Theirs'
  BY <1>1, <1>3, BlocksKept
<1>6. Counted'
  BY <1>1, <1>3, CountedKept
<1>7. Locked' /\ Users'
  <2>1. \A q \in Procs : /\ pc'[q] = "idle" <=> pc[q] = "idle"
                         /\ pc'[q] \in Holding <=> pc[q] \in Holding
    BY <1>1, <1>2 DEF Holding
  <2> QED
    BY <1>1, <1>3, <2>1, HoldersKept
<1>8. Queued'
  <2>1. \A c \in Bufs : buf'[c].valid /\ ~buf'[c].dirty => Done(c)
    BY <1>3 DEF Done
  <2>2. \A q \in Procs : pc[q] \in {"iotest", "asleep"} /\ ~Done(mine[q])
                           => pc'[q] \in {"iotest", "asleep"}
    BY <1>1, <1>2
  <2>3. \A q \in Procs : pc'[q] = "iderw" =>
          \/ pc[q] = "iderw"
          \/ mine[q] \in Bufs /\ ~(buf'[mine[q]].valid /\ ~buf'[mine[q]].dirty)
    BY <1>1, <1>2, <1>3
  <2> QED
    BY <1>1, <2>1, <2>2, <2>3, QueuedKept
<1>9. Contents'
  <2>1. \A c \in Bufs : Pending(c)' <=> Pending(c)
    BY <1>1, <1>2, <1>3 DEF Pending
  <2>2. \A q \in Procs : pc'[q] \in {"have", "modified"} =>
                           mine[q] \in Bufs /\ buf[mine[q]].valid
    BY <1>1, <1>2, Facts DEF Contents, Done
  <2> QED
    BY <1>1, <1>3, <2>1, <2>2, ContentsKept
<1> QED
  BY <1>4, <1>5, <1>6, <1>7, <1>8, <1>9

\* The holder modifies its block.
LEMMA ModifyStep ==
  ASSUME BufInv, NEW p \in Procs, Modify(p)
  PROVE  BufInv'
<1> USE DEF BufInv
<1>1. /\ pc[p] = "have" /\ mine[p] \in Bufs /\ want[p] \in Blocks
      /\ UNCHANGED <<lru, idequeue, platter, mine, want, unwritten, stale>>
      /\ latest' = [latest EXCEPT ![want[p]] = stamp + 1]
  BY Facts DEF Modify, At, Goto, history, faults
<1>2. \A q \in Procs : pc'[q] = IF q = p THEN "modified" ELSE pc[q]
  BY DEF TypeOK, Modify, At, Goto, history, faults
<1>3. \A c \in Bufs :
        /\ buf'[c].blockno = buf[c].blockno /\ (buf'[c].valid <=> buf[c].valid)
        /\ buf'[c].refcnt = buf[c].refcnt /\ (buf'[c].dirty <=> buf[c].dirty)
        /\ buf'[c].lock = buf[c].lock
        /\ buf'[c].data = IF c = mine[p] THEN stamp + 1 ELSE buf[c].data
  BY <1>1 DEF TypeOK, Modify, At, Goto, history, faults
<1>4. TypeOK'
  <2>1. pc' \in [Procs -> Holding \cup {"idle", "lock", "put"}]
    BY <1>1 DEF TypeOK, Holding, Modify, At, Goto, history, faults
  <2>2. buf' \in [Bufs -> BufType]
    <3>1. buf \in [Bufs -> BufType] /\ buf[mine[p]] \in BufType
      BY <1>1 DEF TypeOK, BufType
    <3>2. stamp + 1 \in 0..MaxWrites
      BY BufAssumption DEF TypeOK, Modify
    <3>3. [buf[mine[p]] EXCEPT !.data = stamp + 1] \in BufType
      BY <3>1, <3>2 DEF BufType
    <3> QED
      BY <1>1, <3>1, <3>3 DEF Modify
  <2> QED
    BY <1>1, <2>1, <2>2 DEF TypeOK, BufType, Modify, At, Goto, history, faults
<1>5. Listed' /\ OneBuffer' /\ Theirs'
  BY <1>1, <1>3, BlocksKept
<1>6. Counted'
  BY <1>1, <1>3, CountedKept
<1>7. Locked' /\ Users'
  <2>1. \A q \in Procs : /\ pc'[q] = "idle" <=> pc[q] = "idle"
                         /\ pc'[q] \in Holding <=> pc[q] \in Holding
    BY <1>1, <1>2 DEF Holding
  <2> QED
    BY <1>1, <1>3, <2>1, HoldersKept
<1>8. Queued'
  <2>1. \A c \in Bufs : buf'[c].valid /\ ~buf'[c].dirty => Done(c)
    BY <1>3 DEF Done
  <2>2. \A q \in Procs : pc[q] \in {"iotest", "asleep"} /\ ~Done(mine[q])
                           => pc'[q] \in {"iotest", "asleep"}
    BY <1>1, <1>2
  <2>3. \A q \in Procs : pc'[q] = "iderw" =>
          \/ pc[q] = "iderw"
          \/ mine[q] \in Bufs /\ ~(buf'[mine[q]].valid /\ ~buf'[mine[q]].dirty)
    BY <1>1, <1>2, <1>3
  <2> QED
    BY <1>1, <2>1, <2>2, <2>3, QueuedKept
<1>9. Contents'
  <2>1. \A k \in Blocks : latest'[k] = IF k = want[p] THEN stamp + 1 ELSE latest[k]
    BY <1>1 DEF TypeOK
  <2>2. \A c \in Bufs : /\ buf[c].blockno \in Blocks \cup {NoBlock}
                       /\ buf[c].blockno = want[p] <=> c = mine[p]
    BY <1>1, Facts DEF TypeOK, OneBuffer, Theirs
  <2>3. \A c \in Bufs : c # mine[p] => (Pending(c)' <=> Pending(c))
    BY <1>1, <1>2, <1>3 DEF Pending
  <2>4. Pending(mine[p])'
    BY <1>1, <1>2 DEF Pending
  <2>5. \A c \in Bufs : buf[c].blockno = NoBlock => ~Pending(c)
    BY Facts DEF Pending, Contents, Theirs
  <2> QED
    BY <1>1, <1>2, <1>3, <2>1, <2>2, <2>3, <2>4, <2>5, Facts DEF Contents
<1> QED
  BY <1>4, <1>5, <1>6, <1>7, <1>8, <1>9

\* log_write() pins the buffer.
LEMMA LogWriteStep ==
  ASSUME BufInv, NEW p \in Procs, LogWrite(p)
  PROVE  BufInv'
<1> USE DEF BufInv
<1>1. /\ pc[p] = "modified" /\ mine[p] \in Bufs /\ want[p] \in Blocks
      /\ UNCHANGED <<lru, idequeue, platter, mine, want, latest, unwritten, stale>>
  BY Facts DEF LogWrite, At, Goto, history, faults
<1>2. \A q \in Procs : pc'[q] = IF q = p THEN "have" ELSE pc[q]
  BY DEF TypeOK, LogWrite, At, Goto, history, faults
<1>3. \A c \in Bufs :
        /\ buf'[c].blockno = buf[c].blockno /\ (buf'[c].valid <=> buf[c].valid)
        /\ buf'[c].refcnt = buf[c].refcnt /\ (buf'[c].dirty <=> c = mine[p] \/ buf[c].dirty)
        /\ buf'[c].lock = buf[c].lock
        /\ buf'[c].data = buf[c].data
  BY <1>1 DEF TypeOK, LogWrite, At, Goto, history, faults
<1>4. TypeOK'
  <2>1. pc' \in [Procs -> Holding \cup {"idle", "lock", "put"}]
    BY <1>1 DEF TypeOK, Holding, LogWrite, At, Goto, history, faults
  <2>2. buf' \in [Bufs -> BufType]
    <3>1. buf \in [Bufs -> BufType] /\ buf[mine[p]] \in BufType
      BY <1>1 DEF TypeOK, BufType
    <3>2. [buf[mine[p]] EXCEPT !.dirty = TRUE] \in BufType
      BY <3>1 DEF BufType
    <3> QED
      BY <1>1, <3>1, <3>2 DEF LogWrite
  <2> QED
    BY <1>1, <2>1, <2>2 DEF TypeOK, BufType, LogWrite, At, Goto, history, faults
<1>5. Listed' /\ OneBuffer' /\ Theirs'
  BY <1>1, <1>3, BlocksKept
<1>6. Counted'
  BY <1>1, <1>3, CountedKept
<1>7. Locked' /\ Users'
  <2>1. \A q \in Procs : /\ pc'[q] = "idle" <=> pc[q] = "idle"
                         /\ pc'[q] \in Holding <=> pc[q] \in Holding
    BY <1>1, <1>2 DEF Holding
  <2> QED
    BY <1>1, <1>3, <2>1, HoldersKept
<1>8. Queued'
  <2>1. \A c \in Bufs : buf'[c].valid /\ ~buf'[c].dirty => Done(c)
    BY <1>3 DEF Done
  <2>2. \A q \in Procs : pc[q] \in {"iotest", "asleep"} /\ ~Done(mine[q])
                           => pc'[q] \in {"iotest", "asleep"}
    BY <1>1, <1>2
  <2>3. \A q \in Procs : pc'[q] = "iderw" =>
          \/ pc[q] = "iderw"
          \/ mine[q] \in Bufs /\ ~(buf'[mine[q]].valid /\ ~buf'[mine[q]].dirty)
    BY <1>1, <1>2, <1>3
  <2> QED
    BY <1>1, <2>1, <2>2, <2>3, QueuedKept
<1>9. Contents'
  <2>1. \A c \in Bufs : Pending(c)' <=> Pending(c)
    BY <1>1, <1>2, <1>3 DEF Pending
  <2>2. \A q \in Procs : pc'[q] \in {"have", "modified"} =>
                           mine[q] \in Bufs /\ buf[mine[q]].valid
    BY <1>1, <1>2, Facts DEF Contents, Done
  <2>3. buf[mine[p]].valid
    BY <1>1 DEF Contents
  <2> QED
    BY <1>1, <1>3, <2>1, <2>2, <2>3, ContentsKept
<1> QED
  BY <1>4, <1>5, <1>6, <1>7, <1>8, <1>9

\* bwrite() asks for a write.
LEMMA BwriteStep ==
  ASSUME BufInv, NEW p \in Procs, Bwrite(p)
  PROVE  BufInv'
<1> USE DEF BufInv
<1>1. /\ pc[p] \in {"have", "modified"} /\ mine[p] \in Bufs /\ want[p] \in Blocks
      /\ UNCHANGED <<lru, idequeue, platter, mine, want, latest, unwritten, stale>>
      /\ pc[p] = "have" => buf[mine[p]].dirty
  BY Facts DEF Bwrite, At, Goto, history, faults
<1>2. \A q \in Procs : pc'[q] = IF q = p THEN "iderw" ELSE pc[q]
  BY DEF TypeOK, Bwrite, At, Goto, history, faults
<1>3. \A c \in Bufs :
        /\ buf'[c].blockno = buf[c].blockno /\ (buf'[c].valid <=> buf[c].valid)
        /\ buf'[c].refcnt = buf[c].refcnt /\ (buf'[c].dirty <=> c = mine[p] \/ buf[c].dirty)
        /\ buf'[c].lock = buf[c].lock
        /\ buf'[c].data = buf[c].data
  BY <1>1 DEF TypeOK, Bwrite, At, Goto, history, faults
<1>4. TypeOK'
  <2>1. pc' \in [Procs -> Holding \cup {"idle", "lock", "put"}]
    BY <1>1 DEF TypeOK, Holding, Bwrite, At, Goto, history, faults
  <2>2. buf' \in [Bufs -> BufType]
    <3>1. buf \in [Bufs -> BufType] /\ buf[mine[p]] \in BufType
      BY <1>1 DEF TypeOK, BufType
    <3>2. [buf[mine[p]] EXCEPT !.dirty = TRUE] \in BufType
      BY <3>1 DEF BufType
    <3> QED
      BY <1>1, <3>1, <3>2 DEF Bwrite
  <2> QED
    BY <1>1, <2>1, <2>2 DEF TypeOK, BufType, Bwrite, At, Goto, history, faults
<1>5. Listed' /\ OneBuffer' /\ Theirs'
  BY <1>1, <1>3, BlocksKept
<1>6. Counted'
  BY <1>1, <1>3, CountedKept
<1>7. Locked' /\ Users'
  <2>1. \A q \in Procs : /\ pc'[q] = "idle" <=> pc[q] = "idle"
                         /\ pc'[q] \in Holding <=> pc[q] \in Holding
    BY <1>1, <1>2 DEF Holding
  <2> QED
    BY <1>1, <1>3, <2>1, HoldersKept
<1>8. Queued'
  <2>1. \A c \in Bufs : buf'[c].valid /\ ~buf'[c].dirty => Done(c)
    BY <1>3 DEF Done
  <2>2. \A q \in Procs : pc[q] \in {"iotest", "asleep"} /\ ~Done(mine[q])
                           => pc'[q] \in {"iotest", "asleep"}
    BY <1>1, <1>2
  <2>3. \A q \in Procs : pc'[q] = "iderw" =>
          \/ pc[q] = "iderw"
          \/ mine[q] \in Bufs /\ ~(buf'[mine[q]].valid /\ ~buf'[mine[q]].dirty)
    BY <1>1, <1>2, <1>3
  <2> QED
    BY <1>1, <2>1, <2>2, <2>3, QueuedKept
<1>9. Contents'
  <2>1. \A c \in Bufs : Pending(c)' <=> Pending(c)
    BY <1>1, <1>2, <1>3 DEF Pending
  <2>2. \A q \in Procs : pc'[q] \in {"have", "modified"} =>
                           mine[q] \in Bufs /\ buf[mine[q]].valid
    BY <1>1, <1>2, Facts DEF Contents, Done
  <2>3. buf[mine[p]].valid
    BY <1>1 DEF Contents
  <2> QED
    BY <1>1, <1>3, <2>1, <2>2, <2>3, ContentsKept
<1> QED
  BY <1>4, <1>5, <1>6, <1>7, <1>8, <1>9

\* brelse() releases the sleep lock.
LEMMA UnlockStep ==
  ASSUME BufInv, NEW p \in Procs, Unlock(p)
  PROVE  BufInv'
<1> USE DEF BufInv
<1>1. /\ pc[p] = "have" /\ mine[p] \in Bufs /\ want[p] \in Blocks
      /\ UNCHANGED <<lru, idequeue, platter, mine, want, latest, unwritten, stale>>
  BY Facts DEF Unlock, At, Goto, history, faults
<1>2. \A q \in Procs : pc'[q] = IF q = p THEN "put" ELSE pc[q]
  BY DEF TypeOK, Unlock, At, Goto, history, faults
<1>3. \A c \in Bufs :
        /\ buf'[c].blockno = buf[c].blockno /\ (buf'[c].valid <=> buf[c].valid)
        /\ buf'[c].refcnt = buf[c].refcnt /\ (buf'[c].dirty <=> buf[c].dirty)
        /\ buf'[c].lock = IF c = mine[p] THEN NoProc ELSE buf[c].lock
        /\ buf'[c].data = buf[c].data
  BY <1>1 DEF TypeOK, Unlock, At, Goto, history, faults
<1>4. TypeOK'
  <2>1. pc' \in [Procs -> Holding \cup {"idle", "lock", "put"}]
    BY <1>1 DEF TypeOK, Holding, Unlock, At, Goto, history, faults
  <2>2. buf' \in [Bufs -> BufType]
    <3>1. buf \in [Bufs -> BufType] /\ buf[mine[p]] \in BufType
      BY <1>1 DEF TypeOK, BufType
    <3>2. [buf[mine[p]] EXCEPT !.lock = NoProc] \in BufType
      BY <3>1 DEF BufType
    <3> QED
      BY <1>1, <3>1, <3>2 DEF Unlock
  <2> QED
    BY <1>1, <2>1, <2>2 DEF TypeOK, BufType, Unlock, At, Goto, history, faults
<1>5. Listed' /\ OneBuffer' /\ Theirs'
  BY <1>1, <1>3, BlocksKept
<1>6. Counted'
  BY <1>1, <1>3, CountedKept
<1>7. Locked' /\ Users'
  <2>1. Locked'
    <3>1. \A q \in Procs : pc'[q] \in Holding =>
            /\ mine[q] \in Bufs /\ buf[mine[q]].lock = q
            /\ q # p
      BY <1>2, Facts DEF Locked, Holding
    <3>2. buf[mine[p]].lock = p
      BY <1>1 DEF Locked, Holding
    <3> QED
      BY <1>1, <1>3, <3>1, <3>2 DEF Locked
  <2>2. \A q \in Procs : pc'[q] = "idle" <=> pc[q] = "idle"
    BY <1>1, <1>2
  <2>3. \A c \in Bufs, q \in Procs : buf'[c].lock = q => mine[q] = c /\ pc'[q] \in Holding
    BY <1>1, <1>2, <1>3, Facts DEF Users
  <2> QED
    BY <1>1, <2>1, <2>2, <2>3 DEF Users
<1>8. Queued'
  <2>1. \A c \in Bufs : buf'[c].valid /\ ~buf'[c].dirty => Done(c)
    BY <1>3 DEF Done
  <2>2. \A q \in Procs : pc[q] \in {"iotest", "asleep"} /\ ~Done(mine[q])
                           => pc'[q] \in {"iotest", "asleep"}
    BY <1>1, <1>2
  <2>3. \A q \in Procs : pc'[q] = "iderw" =>
          \/ pc[q] = "iderw"
          \/ mine[q] \in Bufs /\ ~(buf'[mine[q]].valid /\ ~buf'[mine[q]].dirty)
    BY <1>1, <1>2, <1>3
  <2> QED
    BY <1>1, <2>1, <2>2, <2>3, QueuedKept
<1>9. Contents'
  <2>1. \A c \in Bufs : Pending(c)' <=> Pending(c)
    BY <1>1, <1>2, <1>3 DEF Pending
  <2>2. \A q \in Procs : pc'[q] \in {"have", "modified"} =>
                           mine[q] \in Bufs /\ buf[mine[q]].valid
    BY <1>1, <1>2, Facts DEF Contents, Done
  <2> QED
    BY <1>1, <1>3, <2>1, <2>2, ContentsKept
<1> QED
  BY <1>4, <1>5, <1>6, <1>7, <1>8, <1>9

\* The users of a buffer are finitely many.
LEMMA UsersFinite ==
  ASSUME NEW b
  PROVE  /\ IsFiniteSet(UsersOf(b))
         /\ Cardinality(UsersOf(b)) \in Nat
         /\ Cardinality(UsersOf(b)) = 0 <=> \A q \in Procs : mine[q] # b
<1>1. IsFiniteSet(UsersOf(b))
  BY BufAssumption, FS_Subset DEF UsersOf
<1>2. Cardinality(UsersOf(b)) \in Nat
  BY <1>1, FS_CardinalityType
<1>3. Cardinality(UsersOf(b)) = 0 <=> UsersOf(b) = {}
  BY <1>1, FS_EmptySet
<1>4. UsersOf(b) = {} <=> \A q \in Procs : mine[q] # b
  BY DEF UsersOf
<1> QED
  BY <1>1, <1>2, <1>3, <1>4

\* One user more.
LEMMA OneMore ==
  ASSUME NEW p \in Procs, NEW b \in Bufs, mine \in [Procs -> Bufs \cup {NoBuf}],
         mine[p] = NoBuf, mine' = [mine EXCEPT ![p] = b], NEW c \in Bufs
  PROVE  Cardinality(UsersOf(c)') = Cardinality(UsersOf(c)) + (IF c = b THEN 1 ELSE 0)
<1>1. IsFiniteSet(UsersOf(c)) /\ Cardinality(UsersOf(c)) \in Nat
  BY UsersFinite
<1>2. CASE c = b
  <2>1. UsersOf(c)' = UsersOf(c) \cup {p}
    BY <1>2 DEF UsersOf
  <2>2. p \notin UsersOf(c)
    BY BufAssumption DEF UsersOf
  <2>3. Cardinality(UsersOf(c) \cup {p}) = Cardinality(UsersOf(c)) + 1
    BY <1>1, <2>2, FS_AddElement
  <2> QED
    BY <1>2, <2>1, <2>3
<1>3. CASE c # b
  <2>1. UsersOf(c)' = UsersOf(c)
    BY <1>3, BufAssumption DEF UsersOf
  <2> QED
    BY <1>1, <1>3, <2>1
<1> QED
  BY <1>2, <1>3

\* One user less.
LEMMA OneLess ==
  ASSUME NEW p \in Procs, NEW b \in Bufs, mine \in [Procs -> Bufs \cup {NoBuf}],
         mine[p] = b, mine' = [mine EXCEPT ![p] = NoBuf], NEW c \in Bufs
  PROVE  Cardinality(UsersOf(c)') = Cardinality(UsersOf(c)) - (IF c = b THEN 1 ELSE 0)
<1>1. IsFiniteSet(UsersOf(c)) /\ Cardinality(UsersOf(c)) \in Nat
  BY UsersFinite
<1>2. CASE c = b
  <2>1. UsersOf(c)' = UsersOf(c) \ {p} /\ p \in UsersOf(c)
    BY <1>2, BufAssumption DEF UsersOf
  <2>2. Cardinality(UsersOf(c) \ {p}) = Cardinality(UsersOf(c)) - 1
    BY <1>1, <2>1, FS_RemoveElement
  <2> QED
    BY <1>2, <2>1, <2>2
<1>3. CASE c # b
  <2>1. UsersOf(c)' = UsersOf(c)
    BY <1>3, BufAssumption DEF UsersOf
  <2> QED
    BY <1>1, <1>3, <2>1
<1> QED
  BY <1>2, <1>3

\* bget() finds the block cached.
LEMMA BgetCachedStep ==
  ASSUME BufInv, NEW p \in Procs, NEW k \in Blocks, BgetCached(p, k)
  PROVE  BufInv'
<1> USE DEF BufInv
<1> DEFINE S == {i \in DOMAIN lru : lru[i] \in Cached(k)}
           b == lru[Min(S)]
<1>1. b \in Bufs /\ buf[b].blockno = k
  <2>1. Cardinality(Bufs) \in Nat /\ DOMAIN lru = 1..Cardinality(Bufs)
    BY BufAssumption, FS_CardinalityType DEF TypeOK
  <2>2. S \subseteq Nat
    BY <2>1
  <2>3. S # {}
    <3>1. PICK c \in Bufs : c \in Cached(k)
      BY DEF BgetCached, Cached
    <3>2. PICK i \in DOMAIN lru : lru[i] = c
      BY DEF Listed
    <3> QED
      BY <3>1, <3>2
  <2>4. Min(S) \in S
    BY <2>2, <2>3, MinIn
  <2> QED
    BY <2>4 DEF Cached
<1>2. /\ pc[p] = "idle" /\ mine[p] = NoBuf
      /\ buf' = [buf EXCEPT ![b].refcnt = @ + 1]
      /\ mine' = [mine EXCEPT ![p] = b] /\ want' = [want EXCEPT ![p] = k]
      /\ pc' = [pc EXCEPT ![p] = "lock"]
      /\ UNCHANGED <<lru, idequeue, platter, panicked, stamp, latest, unwritten, stale>>
  BY DEF BgetCached, Takes, At, Goto, history, faults, Users
<1> HIDE DEF b
<1>3. \A q \in Procs : /\ pc'[q] = IF q = p THEN "lock" ELSE pc[q]
                       /\ mine'[q] = IF q = p THEN b ELSE mine[q]
                       /\ want'[q] = IF q = p THEN k ELSE want[q]
  BY <1>2 DEF TypeOK
<1>4. \A c \in Bufs :
        /\ buf'[c].blockno = buf[c].blockno /\ (buf'[c].valid <=> buf[c].valid)
        /\ (buf'[c].dirty <=> buf[c].dirty)
        /\ buf'[c].refcnt = buf[c].refcnt + (IF c = b THEN 1 ELSE 0)
        /\ buf'[c].lock = buf[c].lock /\ buf'[c].data = buf[c].data
  BY <1>1, <1>2 DEF TypeOK
<1>5. TypeOK'
  <2>1. buf' \in [Bufs -> BufType]
    <3>1. buf \in [Bufs -> BufType] /\ buf[b] \in BufType
      BY <1>1 DEF TypeOK, BufType
    <3>2. [buf[b] EXCEPT !.refcnt = @ + 1] \in BufType
      BY <3>1 DEF BufType
    <3> QED
      BY <1>1, <1>2, <3>1, <3>2
  <2>2. /\ pc' \in [Procs -> Holding \cup {"idle", "lock", "put"}]
        /\ mine' \in [Procs -> Bufs \cup {NoBuf}]
        /\ want' \in [Procs -> Blocks \cup {NoBlock}]
    BY <1>1, <1>2 DEF TypeOK
  <2> QED
    BY <1>2, <2>1, <2>2 DEF TypeOK, BufType
<1>6. Listed' /\ OneBuffer' /\ Theirs'
  BY <1>1, <1>2, <1>3, <1>4, Facts DEF Listed, OneBuffer, Theirs, Users
<1>7. Counted'
  <2>1. \A c \in Bufs : Cardinality(UsersOf(c)') =
                         Cardinality(UsersOf(c)) + (IF c = b THEN 1 ELSE 0)
    BY <1>1, <1>2, OneMore DEF TypeOK
  <2> QED
    BY <1>4, <2>1 DEF Counted
<1>8. Locked' /\ Users'
  BY <1>1, <1>2, <1>3, <1>4, Facts DEF Holding, Locked, Users
<1>9. Queued'
  BY <1>1, <1>2, <1>3, <1>4, Facts DEF Holding, Locked, Users, Queued, Done
<1>10. Contents'
  <2>1. \A c \in Bufs : Pending(c)' <=> Pending(c)
    BY <1>2, <1>3, <1>4, Facts DEF Pending
  <2> QED
    BY <1>2, <1>3, <1>4, <2>1, Facts DEF Contents
<1> QED
  BY <1>5, <1>6, <1>7, <1>8, <1>9, <1>10

\* Nothing but a panic happens.
LEMMA Stands ==
  ASSUME BufInv, panicked' \in BOOLEAN,
         UNCHANGED <<buf, lru, idequeue, platter, pc, mine, want, stamp, latest, unwritten, stale>>
  PROVE  BufInv'
<1> USE DEF BufInv
<1>1. TypeOK' /\ Listed' /\ OneBuffer' /\ Theirs' /\ Locked'
  BY DEF TypeOK, Listed, OneBuffer, Theirs, Locked
<1>2. Counted' /\ Users' /\ Queued'
  BY DEF Counted, UsersOf, Users, Queued, Done
<1>3. Contents'
  BY DEF Contents, Pending
<1> QED
  BY <1>1, <1>2, <1>3

\* bget() recycles a buffer that is free and clean, or panics.
LEMMA BgetRecycleStep ==
  ASSUME BufInv, NEW p \in Procs, NEW k \in Blocks, BgetRecycle(p, k)
  PROVE  BufInv'
<1> USE DEF BufInv
<1>1. CASE Recyclable = {}
  BY <1>1, Stands DEF BgetRecycle, history, faults
<1>2. CASE Recyclable # {}
  <2> DEFINE b == lru[Max(Recyclable)]
  <2>1. b \in Bufs /\ buf[b].refcnt = 0 /\ ~buf[b].dirty
    <3>1. Cardinality(Bufs) \in Nat /\ lru \in [1..Cardinality(Bufs) -> Bufs]
      BY BufAssumption, FS_CardinalityType DEF TypeOK
    <3>2. Recyclable \subseteq 1..Cardinality(Bufs)
      BY <3>1 DEF Recyclable
    <3>3. Max(Recyclable) \in Recyclable
      BY <1>2, <3>1, <3>2, MaxIn
    <3> QED
      BY <3>1, <3>3 DEF Recyclable
  <2>2. /\ pc[p] = "idle" /\ mine[p] = NoBuf
        /\ buf' = [buf EXCEPT ![b].blockno = k, ![b].valid = FALSE, ![b].refcnt = 1]
        /\ mine' = [mine EXCEPT ![p] = b] /\ want' = [want EXCEPT ![p] = k]
        /\ pc' = [pc EXCEPT ![p] = "lock"] /\ stale' = stale \ {b}
        /\ UNCHANGED <<lru, idequeue, platter, panicked, stamp, latest, unwritten>>
    BY <1>2 DEF BgetRecycle, Takes, At, Goto, history, faults, Users
  <2>3. \A c \in Bufs : buf[c].blockno # k
    BY DEF BgetRecycle, Cached
  <2> HIDE DEF b
  <2>4. \A q \in Procs : mine[q] # b /\ buf[b].lock # q
    BY <2>1, UsersFinite DEF Counted, Users
  <2>5. \A q \in Procs : /\ pc'[q] = IF q = p THEN "lock" ELSE pc[q]
                         /\ mine'[q] = IF q = p THEN b ELSE mine[q]
                         /\ want'[q] = IF q = p THEN k ELSE want[q]
    BY <2>2 DEF TypeOK
  <2>6. \A c \in Bufs : c # b => buf'[c] = buf[c]
    BY <2>1, <2>2 DEF TypeOK
  <2>7. /\ buf'[b].blockno = k /\ ~buf'[b].valid /\ buf'[b].refcnt = 1
        /\ (buf'[b].dirty <=> buf[b].dirty) /\ buf'[b].lock = buf[b].lock
    BY <2>1, <2>2 DEF TypeOK
  <2>8. TypeOK'
    <3>1. buf' \in [Bufs -> BufType]
      <4>1. buf \in [Bufs -> BufType] /\ buf[b] \in BufType
        BY <2>1 DEF TypeOK, BufType
      <4>2. [buf[b] EXCEPT !.blockno = k, !.valid = FALSE, !.refcnt = 1] \in BufType
        BY <4>1 DEF BufType
      <4> QED
        BY <2>1, <2>2, <4>1, <4>2
    <3>2. /\ pc' \in [Procs -> Holding \cup {"idle", "lock", "put"}]
          /\ mine' \in [Procs -> Bufs \cup {NoBuf}]
          /\ want' \in [Procs -> Blocks \cup {NoBlock}] /\ stale' \subseteq Bufs
      BY <2>1, <2>2 DEF TypeOK
    <3> QED
      BY <2>2, <3>1, <3>2 DEF TypeOK, BufType
  <2>9. /\ pc[p] = "idle" /\ mine[p] = NoBuf /\ stale' = stale \ {b}
         /\ UNCHANGED <<lru, idequeue, platter, latest, unwritten>>
    BY <2>2
  <2>10. Listed' /\ OneBuffer' /\ Theirs'
    <3>1. Listed'
      BY <2>9 DEF Listed
    <3>2. \A c \in Bufs : buf'[c].blockno = IF c = b THEN k ELSE buf[c].blockno
      BY <2>6, <2>7
    <3>3. OneBuffer'
      BY <2>3, <3>2 DEF OneBuffer
    <3>4. ASSUME NEW q \in Procs, mine'[q] # NoBuf
          PROVE  buf'[mine'[q]].blockno = want'[q]
      <4>1. CASE q = p
        BY <2>1, <2>5, <3>2, <4>1
      <4>2. CASE q # p
        <5>1. mine[q] \in Bufs /\ mine[q] # b /\ buf[mine[q]].blockno = want[q]
          BY <2>4, <2>5, <3>4, <4>2 DEF TypeOK, Theirs
        <5> QED
          BY <2>5, <3>2, <4>2, <5>1
      <4> QED
        BY <4>1, <4>2
    <3> QED
      BY <3>1, <3>3, <3>4 DEF Theirs
  <2>11. Counted'
    <3>1. \A c \in Bufs : Cardinality(UsersOf(c)') =
                           Cardinality(UsersOf(c)) + (IF c = b THEN 1 ELSE 0)
      BY <2>1, <2>2, OneMore DEF TypeOK
    <3>2. \A c \in Bufs : Cardinality(UsersOf(c)) \in Nat
      BY UsersFinite
    <3>3. \A c \in Bufs : buf'[c].refcnt = buf[c].refcnt + (IF c = b THEN 1 ELSE 0)
      BY <2>1, <2>6, <2>7, <3>2 DEF Counted
    <3> QED
      BY <3>1, <3>3 DEF Counted
  <2>12. Locked' /\ Users'
    <3>1. \A q \in Procs : pc'[q] \in Holding =>
            /\ pc[q] \in Holding /\ mine'[q] = mine[q]
            /\ mine[q] \in Bufs /\ mine[q] # b
      BY <2>4, <2>5, Facts DEF Holding
    <3>2. Locked'
      BY <2>6, <3>1 DEF Locked
    <3>3. \A q \in Procs : /\ pc'[q] = "idle" <=> mine'[q] = NoBuf
                           /\ pc'[q] # "idle" => want'[q] \in Blocks
      BY <2>1, <2>5, Facts DEF Users
    <3>4. \A c \in Bufs, q \in Procs :
            buf'[c].lock = q => mine'[q] = c /\ pc'[q] \in Holding
      <4>1. \A c \in Bufs, q \in Procs : buf'[c].lock = q => c # b /\ buf[c].lock = q
        BY <2>4, <2>6, <2>7
      <4>2. \A c \in Bufs, q \in Procs :
              buf[c].lock = q => mine[q] = c /\ pc[q] \in Holding /\ q # p
        BY <2>9 DEF Users, Holding
      <4> QED
        BY <2>5, <4>1, <4>2
    <3> QED
      BY <3>2, <3>3, <3>4 DEF Users
  <2>13. Queued'
    <3>1. \A i \in 1..Len(idequeue) : idequeue[i] # b
      BY <2>4 DEF Queued
    <3>2. \A c \in Bufs : c # b => (Done(c)' <=> Done(c))
      BY <2>6 DEF Done
    <3>3. \A q \in Procs : pc'[q] = "iderw" => mine'[q] = mine[q] /\ mine[q] \in Bufs
                                              /\ mine[q] # b /\ pc[q] = "iderw"
      BY <2>4, <2>5, Facts
    <3>4. ASSUME NEW i \in 1..Len(idequeue')
          PROVE  /\ ~(buf'[idequeue'[i]].valid /\ ~buf'[idequeue'[i]].dirty)
                 /\ \E q \in Procs : /\ mine'[q] = idequeue'[i]
                                   /\ pc'[q] \in {"iotest", "asleep"}
      <4>1. idequeue'[i] = idequeue[i] /\ idequeue[i] \in Bufs /\ i \in 1..Len(idequeue)
        BY <2>9, Facts
      <4>2. PICK q \in Procs : mine[q] = idequeue[i] /\ pc[q] \in {"iotest", "asleep"}
        BY <4>1 DEF Queued
      <4>3. q # p
        BY <2>9, <4>2
      <4>4. ~(buf'[idequeue'[i]].valid /\ ~buf'[idequeue'[i]].dirty)
        BY <3>1, <3>2, <4>1 DEF Queued, Done
      <4> QED
        BY <2>5, <4>1, <4>2, <4>3, <4>4
    <3>5. \A i, j \in 1..Len(idequeue') : idequeue'[i] = idequeue'[j] => i = j
      BY <2>9 DEF Queued
    <3>6. \A q \in Procs : pc'[q] = "iderw"
                            => ~(buf'[mine'[q]].valid /\ ~buf'[mine'[q]].dirty)
      BY <3>2, <3>3 DEF Queued, Done
    <3> QED
      BY <3>4, <3>5, <3>6 DEF Queued, Done
  <2>14. Contents'
    <3>1. \A c \in Bufs : Pending(c)' <=> Pending(c)
      <4>1. \A q \in Procs, c \in Bufs : mine'[q] = c /\ pc'[q] = "modified"
                                         <=> mine[q] = c /\ pc[q] = "modified"
        BY <2>5, <2>9
      <4> QED
        BY <2>6, <2>7, <4>1 DEF Pending
    <3>2. ~Pending(b)
      BY <2>1, <2>4 DEF Pending
    <3>3. \A q \in Procs : pc'[q] \in {"have", "modified"} => buf'[mine'[q]].valid
      <4>1. \A q \in Procs : pc'[q] \in {"have", "modified"} =>
              /\ pc[q] \in {"have", "modified"} /\ mine'[q] = mine[q]
              /\ mine[q] \in Bufs /\ mine[q] # b
        BY <2>4, <2>5, Facts
      <4> QED
        BY <2>6, <4>1 DEF Contents
    <3>4. \A c \in Bufs : buf'[c].blockno = NoBlock => ~buf'[c].valid /\ ~buf'[c].dirty
      <4>1. \A c \in Bufs : buf[c].blockno = NoBlock => ~buf[c].valid /\ ~buf[c].dirty
        BY DEF Contents
      <4> QED
        BY <2>1, <2>6, <2>7, <4>1
    <3>5. \A c \in Bufs : (buf'[c].valid /\ c \notin stale') \/ Pending(c)'
                            => buf'[c].data = latest'[buf'[c].blockno]
      BY <2>6, <2>7, <2>9, <3>1, <3>2 DEF Contents
    <3>6. ASSUME NEW x \in Blocks, platter'[x] # latest'[x], x \notin unwritten'
          PROVE  \E c \in Bufs : buf'[c].blockno = x /\ Pending(c)'
      <4>1. PICK c \in Bufs : buf[c].blockno = x /\ Pending(c)
        BY <2>9, <3>6 DEF Contents
      <4> QED
        BY <2>6, <3>1, <3>2, <4>1
    <3> QED
      BY <3>3, <3>4, <3>5, <3>6 DEF Contents
  <2> QED
    BY <2>8, <2>10, <2>11, <2>12, <2>13, <2>14
<1> QED
  BY <1>1, <1>2

\* brelse() gives the buffer up.
LEMMA PutStep ==
  ASSUME BufInv, NEW p \in Procs, Put(p)
  PROVE  BufInv'
<1> USE DEF BufInv
<1> DEFINE b == mine[p]
<1>1. /\ pc[p] = "put" /\ b \in Bufs
      /\ buf' = [buf EXCEPT ![b].refcnt = @ - 1]
      /\ mine' = [mine EXCEPT ![p] = NoBuf] /\ want' = [want EXCEPT ![p] = NoBlock]
      /\ pc' = [pc EXCEPT ![p] = "idle"]
      /\ lru' = MoveToFront(b) \/ lru' = lru
      /\ UNCHANGED <<idequeue, platter, panicked, stamp, latest, unwritten, stale>>
  BY Facts DEF Put, At, Goto, history, faults
<1>2. \A q \in Procs : /\ pc'[q] = IF q = p THEN "idle" ELSE pc[q]
                       /\ mine'[q] = IF q = p THEN NoBuf ELSE mine[q]
                       /\ want'[q] = IF q = p THEN NoBlock ELSE want[q]
  BY <1>1 DEF TypeOK
<1>3. \A c \in Bufs :
        /\ buf'[c].blockno = buf[c].blockno /\ (buf'[c].valid <=> buf[c].valid)
        /\ (buf'[c].dirty <=> buf[c].dirty)
        /\ buf'[c].refcnt = buf[c].refcnt - (IF c = b THEN 1 ELSE 0)
        /\ buf'[c].lock = buf[c].lock /\ buf'[c].data = buf[c].data
  BY <1>1 DEF TypeOK
<1>4. buf[b].refcnt \in Nat \ {0}
  BY <1>1, UsersFinite DEF Counted
<1>5. lru' \in [1..Cardinality(Bufs) -> Bufs] /\ Listed'
  BY <1>1, MovedListed DEF TypeOK, Listed
<1>6. TypeOK'
  <2>1. buf' \in [Bufs -> BufType]
    <3>1. buf \in [Bufs -> BufType] /\ buf[b] \in BufType
      BY <1>1 DEF TypeOK, BufType
    <3>2. buf[b].refcnt - 1 \in Nat
      BY <1>4
    <3>3. [buf[b] EXCEPT !.refcnt = @ - 1] \in BufType
      <4> HIDE DEF b
      <4> QED
        BY <3>1, <3>2 DEF BufType
    <3> QED
      BY <1>1, <3>1, <3>3
  <2>2. /\ pc' \in [Procs -> Holding \cup {"idle", "lock", "put"}]
        /\ mine' \in [Procs -> Bufs \cup {NoBuf}]
        /\ want' \in [Procs -> Blocks \cup {NoBlock}]
    BY <1>1 DEF TypeOK
  <2> HIDE DEF b
  <2> QED
    BY <1>1, <1>5, <2>1, <2>2 DEF TypeOK, BufType
<1>7. OneBuffer' /\ Theirs'
  BY <1>1, <1>2, <1>3, Facts DEF OneBuffer, Theirs, Users
<1>8. Counted'
  <2>1. \A c \in Bufs : Cardinality(UsersOf(c)') =
                         Cardinality(UsersOf(c)) - (IF c = b THEN 1 ELSE 0)
    BY <1>1, OneLess DEF TypeOK
  <2> QED
    BY <1>3, <2>1 DEF Counted
<1>9. Locked' /\ Users'
  BY <1>1, <1>2, <1>3, Facts DEF Holding, Locked, Users
<1>10. Queued'
  BY <1>1, <1>2, <1>3, Facts DEF Holding, Locked, Users, Queued, Done
<1>11. Contents'
  <2>1. \A c \in Bufs : Pending(c)' <=> Pending(c)
    BY <1>1, <1>2, <1>3, Facts DEF Pending
  <2> QED
    BY <1>1, <1>2, <1>3, <2>1, Facts DEF Contents
<1> QED
  BY <1>5, <1>6, <1>7, <1>8, <1>9, <1>10, <1>11

\* Who waits for the first buffer of the queue is the only one at it.
LEMMA HeadOfQueue ==
  ASSUME BufInv, idequeue # <<>>
  PROVE  /\ Head(idequeue) \in Bufs /\ buf[Head(idequeue)].blockno \in Blocks
         /\ \A q \in Procs : mine[q] = Head(idequeue)
                               => pc[q] \notin {"iderw", "have", "modified"}
         /\ Len(Tail(idequeue)) = Len(idequeue) - 1 /\ Tail(idequeue) \in Seq(Bufs)
         /\ \A i \in 1..Len(Tail(idequeue)) :
              /\ i + 1 \in 1..Len(idequeue) /\ Tail(idequeue)[i] = idequeue[i + 1]
              /\ idequeue[i + 1] # Head(idequeue)
<1> USE DEF BufInv
<1> DEFINE b == Head(idequeue)
<1>1. idequeue \in Seq(Bufs) /\ Len(idequeue) \in Nat /\ Len(idequeue) >= 1
  BY EmptySeq, LenProperties DEF TypeOK
<1>2. b \in Bufs /\ b = idequeue[1] /\ 1 \in 1..Len(idequeue)
  BY <1>1, HeadTailProperties
<1>3. PICK h \in Procs : mine[h] = b /\ pc[h] \in {"iotest", "asleep"}
  BY <1>2 DEF Queued
<1>4. buf[b].lock = h /\ buf[b].blockno \in Blocks
  BY <1>2, <1>3, Facts DEF Locked, Theirs, Users, Holding
<1>5. \A q \in Procs : mine[q] = b => pc[q] \notin {"iderw", "have", "modified"}
  BY <1>3, <1>4 DEF Locked, Holding
<1>6. /\ Len(Tail(idequeue)) = Len(idequeue) - 1 /\ Tail(idequeue) \in Seq(Bufs)
      /\ \A i \in 1..Len(Tail(idequeue)) : Tail(idequeue)[i] = idequeue[i + 1]
  BY <1>1, HeadTailProperties
<1>7. \A i \in 1..Len(Tail(idequeue)) : i + 1 \in 1..Len(idequeue) /\ i + 1 # 1
  BY <1>1, <1>6
<1>8. \A i \in 1..Len(Tail(idequeue)) : idequeue[i + 1] # b
  BY <1>2, <1>7 DEF Queued
<1> QED
  BY <1>2, <1>4, <1>5, <1>6, <1>7, <1>8

\* The disk is through with the first request.
LEMMA IdeintrStep ==
  ASSUME BufInv, Ideintr
  PROVE  BufInv'
<1> USE DEF BufInv
<1> DEFINE b == Head(idequeue)
           k == buf[b].blockno
<1>1. /\ b \in Bufs /\ k \in Blocks
      /\ \A q \in Procs : mine[q] = b => pc[q] \notin {"iderw", "have", "modified"}
  BY HeadOfQueue DEF Ideintr
<1>2. UNCHANGED <<lru, mine, want, panicked, stamp, latest>>
  BY DEF Ideintr, history, faults
<1>3. \A q \in Procs : pc'[q] = IF pc[q] = "asleep" /\ mine[q] = b THEN "iotest" ELSE pc[q]
  BY DEF Ideintr
<1>4. /\ idequeue' \in Seq(Bufs) /\ Len(idequeue') = Len(idequeue) - 1
      /\ \A i \in 1..Len(idequeue') :
           i + 1 \in 1..Len(idequeue) /\ idequeue'[i] = idequeue[i + 1] /\ idequeue'[i] # b
  <2>1. idequeue' = Tail(idequeue) /\ idequeue # <<>>
    BY DEF Ideintr
  <2> QED
    BY <2>1, HeadOfQueue
<1>5. ~buf[b].dirty => platter[k] = latest[k] \/ k \in unwritten
  BY <1>1 DEF Contents, OneBuffer, Pending
<1>6. buf[b].dirty => buf[b].data = latest[k]
  BY <1>1 DEF Contents, Pending
<1> DEFINE Took(d) ==
      \A c \in Bufs :
        /\ buf'[c].blockno = buf[c].blockno /\ buf'[c].refcnt = buf[c].refcnt
        /\ buf'[c].lock = buf[c].lock
        /\ (buf'[c].valid <=> c = b \/ buf[c].valid)
        /\ (buf'[c].dirty <=> c # b /\ buf[c].dirty)
        /\ buf'[c].data = IF c = b THEN d ELSE buf[c].data
<1>7. /\ buf' \in [Bufs -> BufType] /\ platter' \in [Blocks -> 0..MaxWrites]
      /\ \E d : Took(d) /\ (d = latest[k] \/ b \in stale')
      /\ \A x \in Blocks : x # k => /\ platter'[x] = platter[x]
                                    /\ x \in unwritten' <=> x \in unwritten
      /\ platter'[k] = latest[k] \/ k \in unwritten'
      /\ unwritten' \subseteq Blocks
      /\ stale \subseteq stale' /\ stale' \subseteq stale \cup {b}
  <2>1. buf \in [Bufs -> BufType] /\ buf[b] \in BufType
    BY <1>1 DEF TypeOK, BufType
  <2> HIDE DEF b
  <2>2. CASE /\ buf[b].dirty
             /\ \/ /\ platter' = [platter EXCEPT ![k] = buf[b].data]
                   /\ unwritten' = unwritten \ {k}
                \/ /\ unwritten' = unwritten \cup {k}
                   /\ UNCHANGED platter
             /\ buf' = [buf EXCEPT ![b].valid = TRUE, ![b].dirty = FALSE]
             /\ UNCHANGED stale
    <3>1. [buf[b] EXCEPT !.valid = TRUE, !.dirty = FALSE] \in BufType
      BY <2>1 DEF BufType
    <3>2. buf' \in [Bufs -> BufType]
      BY <1>1, <2>1, <2>2, <3>1
    <3>3. Took(buf[b].data)
      BY <1>1, <2>1, <2>2 DEF BufType
    <3>4. /\ platter' \in [Blocks -> 0..MaxWrites]
          /\ platter'[k] = buf[b].data \/ k \in unwritten'
          /\ \A x \in Blocks : x # k => platter'[x] = platter[x]
      BY <1>1, <2>1, <2>2 DEF TypeOK, BufType
    <3>5. /\ \A x \in Blocks : x # k => (x \in unwritten' <=> x \in unwritten)
          /\ unwritten' \subseteq Blocks
      BY <1>1, <2>2 DEF TypeOK
    <3> QED
      <4> HIDE DEF Took
      <4> QED
        BY <1>6, <2>2, <3>2, <3>3, <3>4, <3>5
  <2>3. CASE /\ ~buf[b].dirty
             /\ buf' = [buf EXCEPT ![b].valid = TRUE, ![b].data = platter[k]]
             /\ stale' = IF k \in unwritten THEN stale \cup {b} ELSE stale
             /\ UNCHANGED <<platter, unwritten>>
    <3>1. [buf[b] EXCEPT !.valid = TRUE, !.data = platter[k]] \in BufType
      BY <1>1, <2>1 DEF BufType, TypeOK
    <3>2. buf' \in [Bufs -> BufType]
      BY <1>1, <2>1, <2>3, <3>1
    <3>3. Took(platter[k])
      BY <1>1, <2>1, <2>3 DEF BufType
    <3> QED
      <4> HIDE DEF Took
      <4> QED
        BY <1>5, <2>3, <3>2, <3>3 DEF TypeOK
  <2>4. CASE /\ ~buf[b].dirty
             /\ buf' = [buf EXCEPT ![b].valid = TRUE]
             /\ stale' = stale \cup {b}
             /\ UNCHANGED <<platter, unwritten>>
    <3>1. [buf[b] EXCEPT !.valid = TRUE] \in BufType
      BY <2>1 DEF BufType
    <3>2. buf' \in [Bufs -> BufType]
      BY <1>1, <2>1, <2>4, <3>1
    <3>3. Took(buf[b].data)
      BY <1>1, <2>1, <2>4 DEF BufType
    <3> QED
      <4> HIDE DEF Took
      <4> QED
        BY <1>5, <2>4, <3>2, <3>3 DEF TypeOK
  <2> QED
    BY <2>2, <2>3, <2>4 DEF Ideintr, b
<1>8. PICK d : Took(d) /\ (d = latest[k] \/ b \in stale')
  BY <1>7
<1> HIDE DEF b
<1>9. TypeOK'
  <2>1. pc' \in [Procs -> Holding \cup {"idle", "lock", "put"}]
    BY DEF TypeOK, Holding, Ideintr
  <2>2. stale' \subseteq Bufs
    BY <1>1, <1>7 DEF TypeOK
  <2> QED
    BY <1>2, <1>4, <1>7, <2>1, <2>2 DEF TypeOK, BufType
<1>10. Listed' /\ OneBuffer' /\ Theirs'
  BY <1>2, <1>8, BlocksKept
<1>11. Counted'
  BY <1>2, <1>8, CountedKept
<1>12. Locked' /\ Users'
  <2>1. \A q \in Procs : /\ pc'[q] = "idle" <=> pc[q] = "idle"
                         /\ pc'[q] \in Holding <=> pc[q] \in Holding
    BY <1>3 DEF Holding
  <2>2. \A c \in Bufs : buf'[c].lock = buf[c].lock
    BY <1>8
  <2> QED
    BY <1>2, <2>1, <2>2, HoldersKept
<1>13. Queued'
  <2>1. \A c \in Bufs : c # b => (Done(c)' <=> Done(c))
    BY <1>8 DEF Done
  <2>2. \A i, j \in 1..Len(idequeue') : idequeue'[i] = idequeue'[j] => i = j
    <3> SUFFICES ASSUME NEW i \in 1..Len(idequeue'), NEW j \in 1..Len(idequeue'),
                        idequeue'[i] = idequeue'[j]
                 PROVE  i = j
      OBVIOUS
    <3>1. i + 1 = j + 1
      BY <1>4 DEF Queued
    <3>2. i \in Int /\ j \in Int
      OBVIOUS
    <3> QED
      BY <3>1, <3>2
  <2>3. ASSUME NEW i \in 1..Len(idequeue')
        PROVE  /\ ~(buf'[idequeue'[i]].valid /\ ~buf'[idequeue'[i]].dirty)
               /\ \E q \in Procs : /\ mine'[q] = idequeue'[i]
                                 /\ pc'[q] \in {"iotest", "asleep"}
    <3>1. idequeue'[i] = idequeue[i + 1] /\ i + 1 \in 1..Len(idequeue) /\ idequeue'[i] # b
      BY <1>4
    <3>2. idequeue'[i] \in Bufs /\ ~Done(idequeue'[i])
      BY <3>1, Facts DEF Queued
    <3>3. PICK q \in Procs : mine[q] = idequeue[i + 1] /\ pc[q] \in {"iotest", "asleep"}
      BY <3>1 DEF Queued
    <3>4. ~(buf'[idequeue'[i]].valid /\ ~buf'[idequeue'[i]].dirty)
      BY <2>1, <3>1, <3>2 DEF Done
    <3> QED
      BY <1>2, <1>3, <3>1, <3>3, <3>4
  <2>4. \A q \in Procs : pc'[q] = "iderw"
                          => ~(buf'[mine'[q]].valid /\ ~buf'[mine'[q]].dirty)
    <3> SUFFICES ASSUME NEW q \in Procs, pc'[q] = "iderw"
                 PROVE  ~(buf'[mine'[q]].valid /\ ~buf'[mine'[q]].dirty)
      OBVIOUS
    <3>1. pc[q] = "iderw" /\ mine'[q] = mine[q]
      BY <1>2, <1>3
    <3>2. mine[q] \in Bufs /\ mine[q] # b /\ ~Done(mine[q])
      BY <1>1, <3>1, Facts DEF Queued
    <3> QED
      BY <1>8, <3>1, <3>2 DEF Done
  <2> QED
    BY <2>2, <2>3, <2>4 DEF Queued, Done
<1>14. Contents'
  <2>1. \A c \in Bufs : Pending(c)' <=> c # b /\ Pending(c)
    <3>1. \A q \in Procs : pc'[q] = "modified" <=> pc[q] = "modified"
      BY <1>3
    <3>2. \A c \in Bufs : buf'[c].dirty <=> c # b /\ buf[c].dirty
      BY <1>8
    <3> QED
      BY <1>1, <1>2, <3>1, <3>2 DEF Pending
  <2>2. \A c \in Bufs : /\ buf'[c].blockno = buf[c].blockno
                        /\ buf'[c].valid <=> c = b \/ buf[c].valid
                        /\ buf'[c].dirty => buf[c].dirty
                        /\ c # b => buf'[c].data = buf[c].data
    BY <1>8
  <2>3. buf'[b].data = latest[k] \/ b \in stale'
    BY <1>1, <1>8
  <2>4. \A q \in Procs : pc'[q] \in {"have", "modified"} => buf'[mine'[q]].valid
    <3>1. \A q \in Procs : pc'[q] \in {"have", "modified"}
            => pc[q] \in {"have", "modified"} /\ mine'[q] = mine[q] /\ mine[q] \in Bufs
      BY <1>2, <1>3, Facts
    <3> QED
      BY <2>2, <3>1 DEF Contents
  <2>5. \A c \in Bufs : buf'[c].blockno = NoBlock => ~buf'[c].valid /\ ~buf'[c].dirty
    <3>1. \A c \in Bufs : buf[c].blockno = NoBlock => ~buf[c].valid /\ ~buf[c].dirty
      BY DEF Contents
    <3>2. buf[b].blockno # NoBlock
      BY <1>1, Facts
    <3> QED
      BY <2>2, <3>1, <3>2
  <2>6. ASSUME NEW c \in Bufs, (buf'[c].valid /\ c \notin stale') \/ Pending(c)'
        PROVE  buf'[c].data = latest'[buf'[c].blockno]
    <3>1. CASE c = b
      BY <1>2, <2>1, <2>2, <2>3, <2>6, <3>1
    <3>2. CASE c # b
      <4>1. (buf[c].valid /\ c \notin stale) \/ Pending(c)
        BY <1>7, <2>1, <2>2, <2>6, <3>2
      <4> QED
        BY <1>2, <2>2, <3>2, <4>1 DEF Contents
    <3> QED
      BY <3>1, <3>2
  <2>7. ASSUME NEW x \in Blocks, platter'[x] # latest'[x], x \notin unwritten'
        PROVE  \E c \in Bufs : buf'[c].blockno = x /\ Pending(c)'
    <3> HIDE DEF k, Took
    <3>1. x # k
      BY <1>2, <1>7, <2>7
    <3>2. platter[x] # latest[x] /\ x \notin unwritten
      BY <1>2, <1>7, <2>7, <3>1
    <3>3. PICK c \in Bufs : buf[c].blockno = x /\ Pending(c)
      BY <3>2 DEF Contents
    <3> QED
      BY <2>1, <2>2, <3>1, <3>3 DEF k
  <2> QED
    BY <2>4, <2>5, <2>6, <2>7 DEF Contents
<1> QED
  BY <1>9, <1>10, <1>11, <1>12, <1>13, <1>14

-----------------------------------------------------------------------------
(* The theorems. *)

\* binit() establishes the invariant.
LEMMA InitInv ==
  ASSUME Init
  PROVE  BufInv
<1>1. TypeOK
  <2>1. 0 \in 0..MaxWrites
    BY BufAssumption
  <2>2. buf \in [Bufs -> BufType]
    BY <2>1 DEF Init, Empty, BufType
  <2>3. /\ platter \in [Blocks -> 0..MaxWrites] /\ latest \in [Blocks -> 0..MaxWrites]
        /\ stamp \in 0..MaxWrites /\ idequeue \in Seq(Bufs)
    BY <2>1 DEF Init
  <2>4. /\ pc \in [Procs -> Holding \cup {"idle", "lock", "put"}]
        /\ mine \in [Procs -> Bufs \cup {NoBuf}]
        /\ want \in [Procs -> Blocks \cup {NoBlock}]
        /\ panicked \in BOOLEAN /\ unwritten \subseteq Blocks /\ stale \subseteq Bufs
    BY DEF Init
  <2> QED
    BY <2>2, <2>3, <2>4, InitListed DEF TypeOK, BufType
<1>2. Listed
  BY InitListed
<1>3. OneBuffer /\ Theirs /\ Locked /\ Users
  BY BufAssumption DEF Init, OneBuffer, Theirs, Locked, Users, Empty, Holding
<1>4. Counted
  <2>1. \A b \in Bufs : UsersOf(b) = {}
    BY BufAssumption DEF Init, UsersOf
  <2> QED
    BY <2>1, FS_EmptySet DEF Init, Counted, Empty
<1>5. Queued
  BY DEF Init, Queued
<1>6. Contents
  BY DEF Init, Contents, Pending, Empty
<1> QED
  BY <1>1, <1>2, <1>3, <1>4, <1>5, <1>6 DEF BufInv

\* Every step keeps the invariant.
LEMMA NextInv ==
  ASSUME BufInv, [Next]_vars
  PROVE  BufInv'
<1>1. CASE Ideintr
  BY <1>1, IdeintrStep
<1>2. ASSUME NEW p \in Procs, NEW k \in Blocks, BgetCached(p, k) PROVE BufInv'
  BY <1>2, BgetCachedStep
<1>3. ASSUME NEW p \in Procs, NEW k \in Blocks, BgetRecycle(p, k) PROVE BufInv'
  BY <1>3, BgetRecycleStep
<1>4. ASSUME NEW p \in Procs, Modify(p) PROVE BufInv'
  BY <1>4, ModifyStep
<1>5. ASSUME NEW p \in Procs, Steps(p) PROVE BufInv'
  BY <1>5, LockStep, IderwStep, IdeTestStep, LogWriteStep, BwriteStep, UnlockStep, PutStep
     DEF Steps
<1>6. CASE UNCHANGED vars
  <2>1. panicked' \in BOOLEAN
    BY <1>6 DEF vars, BufInv, TypeOK
  <2> QED
    BY <1>6, <2>1, Stands DEF vars
<1> QED
  BY <1>1, <1>2, <1>3, <1>4, <1>5, <1>6 DEF Next

\* The invariant of the buffer cache and the disk driver holds in every
\* reachable state, for every number of processes, buffers and blocks.
THEOREM Invariance == Spec => []BufInv
<1>1. Init => BufInv
  BY InitInv
<1>2. BufInv /\ [Next]_vars => BufInv'
  BY NextInv
<1> QED
  BY <1>1, <1>2, PTL DEF Spec

\* Of bget() and brelse(): a block has one buffer, refcnt counts who uses or
\* waits for it, it stays their block's, and only its holder is at work on it.
THEOREM BufferIsTheirsHolds == Spec => []BufferIsTheirs
<1>1. BufInv => BufferIsTheirs
  BY DEF BufInv, OneBuffer, Counted, UsersOf, Theirs, Locked, BufferIsTheirs
<1> QED
  BY <1>1, Invariance, PTL

\* Of bread() and ideintr(): who has read a block sees its last modification,
\* unless the disk failed to read it or had lost the last write of it.
THEOREM ReadersSeeLatestHolds == Spec => []ReadersSeeLatest
<1>1. BufInv => ReadersSeeLatest
  <2> SUFFICES ASSUME BufInv, NEW p \in Procs, pc[p] \in {"have", "modified"},
                      mine[p] \notin stale
               PROVE  buf[mine[p]].valid /\ buf[mine[p]].data = latest[want[p]]
    BY DEF ReadersSeeLatest
  <2>1. mine[p] \in Bufs
    BY Facts
  <2>2. buf[mine[p]].blockno = want[p]
    BY <2>1, Facts DEF BufInv, Theirs
  <2> QED
    BY <2>1, <2>2 DEF BufInv, Contents
<1> QED
  BY <1>1, Invariance, PTL
=============================================================================
