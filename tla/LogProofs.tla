------------------------------ MODULE LogProofs ------------------------------
(***************************************************************************)
(* Theorems about Log for every number of processes, blocks, crashes and   *)
(* log size, with NBUF = LOGSIZE as in param.h and no sync system call.    *)
(* The steps of a file system call in the log, of commit(), of sync() and  *)
(* of recovery preserve IndInv, the inductive invariant of Log.            *)
(***************************************************************************)
EXTENDS Log, FiniteSetTheorems, SequenceTheorems, TLAPS

\* Leaves that need arithmetic, or more than first-order reasoning, name SMT.
USE Zenon

-----------------------------------------------------------------------------
(* Sequences and finite sets. *)

\* The set of entries of a sequence, by index.
LEMMA RangeByIndex ==
  ASSUME NEW S, NEW s \in Seq(S)
  PROVE  Range(s) = {s[i] : i \in 1..Len(s)} /\ Range(s) \subseteq S
BY SMT DEF Range

\* Appending an entry adds it to the set of entries.
LEMMA RangeAppend ==
  ASSUME NEW S, NEW s \in Seq(S), NEW e \in S
  PROVE  Range(Append(s, e)) = Range(s) \cup {e}
<1>1. DOMAIN Append(s, e) = DOMAIN s \cup {Len(s) + 1}
  BY SMT
<1>2. \A i \in DOMAIN s : Append(s, e)[i] = s[i]
  BY SMT
<1>3. Append(s, e)[Len(s) + 1] = e
  BY SMT
<1> QED
  BY <1>1, <1>2, <1>3 DEF Range

\* The empty log has no blocks.
LEMMA RangeEmpty == Range(<<>>) = {}
BY SMT DEF Range

\* The sets whose sizes the invariant speaks of are finite.
LEMMA Finite ==
  ASSUME TypeOK
  PROVE  /\ IsFiniteSet(dirty) /\ IsFiniteSet(Held)
         /\ IsFiniteSet(dirty \cup Held)
         /\ IsFiniteSet(InTransaction) /\ IsFiniteSet(Committers)
         /\ IsFiniteSet(Range(lh)) /\ IsFiniteSet(Range(head))
<1>1. dirty \subseteq Blocks /\ Held \subseteq Blocks
  BY DEF TypeOK, Held
<1>2. Range(lh) \subseteq Blocks /\ Range(head) \subseteq Blocks
  BY RangeByIndex DEF TypeOK
<1>3. dirty \cup Held \subseteq Blocks
  BY <1>1
<1>4. InTransaction \subseteq Procs /\ Committers \subseteq Procs
  BY DEF InTransaction, Committers
<1> QED
  BY <1>1, <1>2, <1>3, <1>4, FS_Subset, LogAssumption

-----------------------------------------------------------------------------
(* Steps that preserve the invariant. *)

\* A state that differs in nothing the invariant mentions but a panic.
LEMMA PanicStep ==
  ASSUME IndInv, mode = "run", Panic
  PROVE  IndInv'
<1> USE DEF Panic, disk, cache, logv, ops, locals
<1>1. TypeOK'
  BY DEF IndInv, TypeOK, Modes
<1>2. InTransaction' = InTransaction /\ Committers' = Committers /\ Held' = Held
      /\ Up' /\ Up
  BY DEF InTransaction, Committers, Held, Up
<1>3. Exclusion' /\ Buffers'
  BY <1>2 DEF IndInv, Exclusion, Buffers
<1>4. Lists' /\ Contents' /\ Ages'
  BY <1>2, SMT DEF IndInv, Lists, ListShape, Progress, HeadIsPrefix,
              DirtyIsListed, Recovering, Contents, Ages, CleanIsHome, HomeIsDurable,
              LogIsDurable, Copied, CacheIsAhead
<1> QED
  BY <1>1, <1>3, <1>4 DEF IndInv

\* Places whose data the invariant describes.
Busy == {"append", "wlog", "whead", "check", "install", "erase"}

\* A step that moves no process into or out of log_write(), commit() or sync()
\* (other than at their ends) and changes neither cache, log nor disk keeps what is said of their contents.
LEMMA QuietStep ==
  ASSUME IndInv, Up, mode' = mode,
         UNCHANGED <<home, slot, head, buf, dirty, lh, rtail, stamp, durable>>,
         \A q \in Procs : pc[q] \in Busy \/ pc'[q] \in Busy =>
            pc'[q] = pc[q] /\ tail'[q] = tail[q] /\ hold'[q] = hold[q],
         \A q \in Procs : pc'[q] = "finish" => head = lh
  PROVE  Lists' /\ Contents' /\ Ages'
<1>1. Up'
  BY DEF Up
<1>2. ListShape' /\ Recovering' /\ HomeIsDurable' /\ CacheIsAhead' /\ Ages'
  BY <1>1, SMT DEF IndInv, Lists, ListShape, Recovering, Contents, HomeIsDurable,
              CacheIsAhead, Ages
<1>3. Progress' /\ HeadIsPrefix'
  BY <1>1 DEF IndInv, Lists, Progress, HeadIsPrefix, Busy
<1>4. DirtyIsListed'
  <2>1. CASE dirty = Range(lh) /\ \A q \in Procs : pc[q] # "install"
    BY <2>1 DEF DirtyIsListed, Busy
  <2>2. CASE \E q \in Procs : pc[q] = "install"
                          /\ dirty = {lh[i] : i \in tail[q] + 1..Len(lh)}
    <3>1. PICK q \in Procs : pc[q] = "install"
                          /\ dirty = {lh[i] : i \in tail[q] + 1..Len(lh)}
      BY <2>2
    <3>2. pc'[q] = "install" /\ tail'[q] = tail[q]
      BY <3>1 DEF Busy
    <3>3. dirty' = {lh'[i] : i \in tail'[q] + 1..Len(lh')}
      BY <3>1, <3>2
    <3> QED
      BY <3>2, <3>3 DEF DirtyIsListed
  <2> QED
    BY <2>1, <2>2 DEF IndInv, Lists, DirtyIsListed
<1>5. CleanIsHome' /\ LogIsDurable'
  BY SMT DEF IndInv, Contents, CleanIsHome, LogIsDurable, Busy
<1>6. Copied'
  BY SMT DEF IndInv, Contents, Copied, Busy
<1> QED
  BY <1>2, <1>3, <1>4, <1>5, <1>6 DEF Lists, Contents

\* begin_op()
LEMMA BeginOpStep ==
  ASSUME IndInv, mode = "run", NEW p \in Procs, BeginOp(p)
  PROVE  IndInv'
<1> USE DEF BeginOp, Goto, disk, cache, logv, boot
<1> TypeOK
  BY DEF IndInv
<1>1. TypeOK'
  <2>1. pc \in [Procs -> Labels] /\ "asleep" \in Labels /\ "op" \in Labels
    BY DEF TypeOK, Labels
  <2>2. pc' \in [Procs -> Labels]
    BY <2>1
  <2>3. outstanding' \in Nat
    BY SMT DEF TypeOK
  <2> QED
    BY <2>2, <2>3 DEF TypeOK
<1>2. Held' = Held /\ Up' /\ Up /\ Committers' = Committers
  BY DEF Held, Up, Committers, TypeOK
<1>3. outstanding' = Cardinality(InTransaction')
      /\ (committing' => InTransaction' = {})
  <2>1. CASE MustWait
    <3>1. InTransaction' = InTransaction
      BY <2>1 DEF InTransaction, TypeOK
    <3> QED
      BY <2>1, <3>1 DEF IndInv, Exclusion
  <2>2. CASE ~MustWait
    <3>1. InTransaction' = InTransaction \cup {p} /\ p \notin InTransaction
      BY <2>2 DEF InTransaction, TypeOK
    <3>2. Cardinality(InTransaction') = Cardinality(InTransaction) + 1
      BY <3>1, FS_AddElement, Finite
    <3> QED
      BY <2>2, <3>2 DEF IndInv, Exclusion, MustWait
  <2> QED
    BY <2>1, <2>2
<1>4. Exclusion'
  BY <1>2, <1>3 DEF IndInv, Exclusion, TypeOK
<1>5. Buffers'
  BY <1>2 DEF IndInv, Buffers, TypeOK
<1>6. \A q \in Procs : pc[q] \in Busy \/ pc'[q] \in Busy =>
         pc'[q] = pc[q] /\ tail'[q] = tail[q] /\ hold'[q] = hold[q]
  BY DEF Busy, TypeOK
<1>7. \A q \in Procs : pc'[q] = "finish" => head = lh
  BY DEF IndInv, Lists, Progress, TypeOK
<1>8. Lists' /\ Contents' /\ Ages'
  BY <1>2, <1>6, <1>7, QuietStep
<1> QED
  BY <1>1, <1>4, <1>5, <1>8 DEF IndInv

\* bread()
LEMMA BreadStep ==
  ASSUME IndInv, mode = "run", NEW p \in Procs, NEW b \in Blocks, Bread(p, b)
  PROVE  IndInv'
<1> TypeOK
  BY DEF IndInv
<1>1. CASE ~CanGet(b)
  BY <1>1, PanicStep DEF Bread
<1>2. CASE CanGet(b)
  <2> USE <1>2 DEF Bread, disk, cache, logv, ops, boot
  <2>1. TypeOK'
    BY DEF TypeOK
  <2>2. /\ InTransaction' = InTransaction /\ Committers' = Committers
        /\ Up' /\ Up
    BY DEF Up, InTransaction, Committers
  <2>3. Exclusion'
    BY <2>2 DEF IndInv, Exclusion
  <2>4. Held' = Held \cup {b}
    BY LogAssumption, SMT DEF Held, TypeOK
  <2>5. dirty' \cup Held' = (dirty \cup Held) \cup {b}
    BY <2>4
  <2>6. Cardinality(dirty' \cup Held') <= NBUF
    <3>1. Cardinality((dirty \cup Held) \cup {b}) =
             IF b \in dirty \cup Held THEN Cardinality(dirty \cup Held)
                                      ELSE Cardinality(dirty \cup Held) + 1
      BY Finite, FS_AddElement
    <3>2. Cardinality(dirty \cup Held) \in Nat
      BY Finite, FS_CardinalityType
    <3>3. Cardinality(dirty \cup Held) <= NBUF /\ NBUF \in Nat
      BY LogAssumption DEF IndInv, Buffers
    <3>4. b \in dirty \cup Held \/ Cardinality(dirty \cup Held) < NBUF
      BY DEF CanGet
    <3>5. Cardinality((dirty \cup Held) \cup {b}) <= NBUF
      BY <3>1, <3>2, <3>3, <3>4, SMT
    <3> QED
      BY <2>5, <3>5
  <2>7. \A q \in Procs : hold'[q] = IF q = p THEN b ELSE hold[q]
    BY DEF TypeOK
  <2>8. \A q \in Procs : hold[q] # b
    BY LogAssumption DEF Held
  <2>9. Buffers'
    BY <2>6, <2>7, <2>8 DEF IndInv, Buffers
  <2>10. \A q \in Procs : pc[q] \in Busy \/ pc'[q] \in Busy =>
           pc'[q] = pc[q] /\ tail'[q] = tail[q] /\ hold'[q] = hold[q]
    BY DEF Busy, TypeOK
  <2>11. \A q \in Procs : pc'[q] = "finish" => head = lh
    BY DEF IndInv, Lists, Progress
  <2>12. Lists' /\ Contents' /\ Ages'
    BY <2>2, <2>10, <2>11, QuietStep
  <2> QED
    BY <2>1, <2>3, <2>9, <2>12 DEF IndInv
<1> QED
  BY <1>1, <1>2

\* brelse()
LEMMA BrelseStep ==
  ASSUME IndInv, mode = "run", NEW p \in Procs, Brelse(p)
  PROVE  IndInv'
<1> USE DEF Brelse, disk, cache, logv, ops, boot
<1> TypeOK
  BY DEF IndInv
<1>1. TypeOK'
  BY DEF TypeOK
<1>2. InTransaction' = InTransaction /\ Committers' = Committers /\ Up' /\ Up
  BY DEF Up, InTransaction, Committers
<1>3. Exclusion'
  BY <1>2 DEF IndInv, Exclusion
<1>4. dirty' \cup Held' \in SUBSET (dirty \cup Held)
  BY DEF Held, TypeOK
<1>5. Cardinality(dirty' \cup Held') <= NBUF
  <2>1. Cardinality(dirty' \cup Held') <= Cardinality(dirty \cup Held)
        /\ IsFiniteSet(dirty' \cup Held')
    BY <1>4, Finite, FS_Subset
  <2>2. Cardinality(dirty \cup Held) \in Nat
        /\ Cardinality(dirty' \cup Held') \in Nat
    BY <2>1, Finite, FS_CardinalityType
  <2> QED
    BY <2>1, <2>2, LogAssumption, SMT DEF IndInv, Buffers
<1>6. Buffers'
  BY <1>5 DEF IndInv, Buffers, TypeOK
<1>7. \A q \in Procs : pc[q] \in Busy \/ pc'[q] \in Busy =>
         pc'[q] = pc[q] /\ tail'[q] = tail[q] /\ hold'[q] = hold[q]
  BY DEF Busy, TypeOK
<1>8. \A q \in Procs : pc'[q] = "finish" => head = lh
  BY DEF IndInv, Lists, Progress
<1>9. Lists' /\ Contents' /\ Ages'
  BY <1>2, <1>7, <1>8, QuietStep
<1> QED
  BY <1>1, <1>3, <1>6, <1>9 DEF IndInv

\* A process inside a transaction excludes every commit.
LEMMA NobodyCommits ==
  ASSUME IndInv, NEW p \in Procs, pc[p] \in {"op", "append"}
  PROVE  /\ ~committing
         /\ \A q \in Procs : pc[q] \notin {"wlog", "whead", "check", "install",
                                           "erase", "finish"}
BY DEF IndInv, Exclusion, InTransaction, Committers

\* log_write() before it takes the lock, its caller's modification included.
LEMMA LogWriteCheckStep ==
  ASSUME IndInv, mode = "run", NEW p \in Procs, LogWriteCheck(p)
  PROVE  IndInv'
<1> TypeOK
  BY DEF IndInv
<1>1. CASE Len(lh) >= LOGSIZE \/ outstanding < 1
  BY <1>1, PanicStep DEF LogWriteCheck
<1>2. CASE ~(Len(lh) >= LOGSIZE \/ outstanding < 1)
  <2> USE <1>2 DEF LogWriteCheck, Goto, disk, logv, ops, boot
  <2> hold[p] \in Blocks /\ stamp + 1 \in Stamps
    BY LogAssumption, SMT DEF TypeOK, Stamps
  <2>1. TypeOK'
    <3>1. buf' \in [Blocks -> Stamps] /\ stamp' \in Stamps
      BY DEF TypeOK
    <3>2. pc' \in [Procs -> Labels]
      BY SMT DEF TypeOK, Labels
    <3> QED
      BY <3>1, <3>2 DEF TypeOK
  <2>2. InTransaction' = InTransaction /\ Committers' = Committers
        /\ Held' = Held /\ Up' /\ Up
    BY SMT DEF Up, InTransaction, Committers, Held, TypeOK
  <2>3. Exclusion'
    BY <2>2 DEF IndInv, Exclusion, TypeOK
  <2>4. Buffers'
    BY <2>2 DEF IndInv, Buffers, TypeOK
  <2>5. \A q \in Procs : pc'[q] = IF q = p THEN "append" ELSE pc[q]
    BY DEF TypeOK
  <2>6. \A q \in Procs : pc'[q] \notin {"wlog", "whead", "check", "install",
                                        "erase", "finish"}
    BY <2>5, NobodyCommits
  <2>7. ListShape' /\ Recovering' /\ HomeIsDurable'
    BY <2>2 DEF IndInv, Lists, ListShape, Recovering, Contents, HomeIsDurable
  <2>8. Progress' /\ HeadIsPrefix' /\ DirtyIsListed'
    BY <2>2, <2>6, NobodyCommits
    DEF IndInv, Lists, Progress, HeadIsPrefix, DirtyIsListed
  <2>9. CleanIsHome'
    BY <2>5, SMT DEF IndInv, Contents, CleanIsHome, TypeOK
  <2>10. LogIsDurable' /\ Copied'
    BY <2>6, NobodyCommits DEF IndInv, Contents, LogIsDurable, Copied
  <2>11. \A b \in Blocks : buf'[b] = IF b = hold[p] THEN stamp + 1 ELSE buf[b]
    BY DEF TypeOK
  <2>12. stamp \in Nat /\ \A b \in Blocks : home[b] \in Nat /\ buf[b] \in Nat
                                          /\ durable[b] \in Nat
    BY LogAssumption, SMT DEF TypeOK, Stamps
  <2>13. \A i \in 1..LOGSIZE : slot[i] \in Nat
    BY LogAssumption, SMT DEF TypeOK, Stamps
  <2>14. CacheIsAhead'
    BY <2>2, <2>11, <2>12, SMT DEF IndInv, Contents, CacheIsAhead, Ages
  <2>15. Ages'
    BY <2>11, <2>12, <2>13, SMT DEF IndInv, Ages
  <2> QED
    BY <2>1, <2>3, <2>4, <2>7, <2>8, <2>9, <2>10, <2>14, <2>15
    DEF IndInv, Lists, Contents
<1> QED
  BY <1>1, <1>2

\* log_write() under the lock.  The pool of NBUF = LOGSIZE buffers is what keeps
\* the list within its bounds: its blocks are dirty, and the new one is locked.
LEMMA LogWriteStep ==
  ASSUME IndInv, mode = "run", NEW p \in Procs, LogWrite(p)
  PROVE  IndInv'
<1> USE DEF LogWrite, Goto, disk, ops, boot
<1> TypeOK
  BY DEF IndInv
<1> DEFINE b == hold[p]
<1>1. b \in Blocks /\ b \in Held
  BY DEF IndInv, Buffers, TypeOK, Held
<1>2. dirty = Range(lh) /\ Up /\ Up'
  BY NobodyCommits DEF IndInv, Lists, DirtyIsListed, Up
<1>3. lh \in Seq(Blocks) /\ Len(lh) \in Nat /\ Range(lh) \subseteq Blocks
  BY RangeByIndex, SMT DEF TypeOK
<1>4. lh' \in Seq(Blocks) /\ Range(lh') = Range(lh) \cup {b} /\ dirty' = Range(lh')
  BY <1>1, <1>2, <1>3, RangeAppend, SMT
<1>5. TypeOK'
  <2>1. pc' \in [Procs -> Labels] /\ hold' \in [Procs -> Blocks \cup {NoBlock}]
    BY DEF TypeOK, Labels
  <2>2. dirty' \subseteq Blocks /\ full' \in BOOLEAN
    BY <1>1 DEF TypeOK
  <2> QED
    BY <1>4, <2>1, <2>2 DEF TypeOK
<1>6. \A q \in Procs : /\ pc'[q] = IF q = p THEN "op" ELSE pc[q]
                       /\ hold'[q] = IF q = p THEN NoBlock ELSE hold[q]
  BY DEF TypeOK
<1>7. InTransaction' = InTransaction /\ Committers' = Committers
  BY <1>6, SMT DEF InTransaction, Committers
<1>8. Exclusion'
  BY <1>2, <1>6, <1>7, SMT DEF IndInv, Exclusion
<1>9. dirty' \cup Held' \in SUBSET (dirty \cup Held)
  BY <1>1, <1>6, SMT DEF Held
<1>10. /\ Cardinality(dirty' \cup Held') <= NBUF
       /\ Cardinality(dirty \cup {b}) <= NBUF
       /\ Cardinality(dirty) \in Nat
       /\ Cardinality(dirty \cup {b}) =
            IF b \in dirty THEN Cardinality(dirty) ELSE Cardinality(dirty) + 1
  <2>1. Cardinality(dirty' \cup Held') <= Cardinality(dirty \cup Held)
        /\ IsFiniteSet(dirty' \cup Held')
    BY <1>9, Finite, FS_Subset
  <2>2. dirty \cup {b} \in SUBSET (dirty \cup Held)
    BY <1>1
  <2>3. Cardinality(dirty \cup {b}) <= Cardinality(dirty \cup Held)
        /\ IsFiniteSet(dirty \cup {b})
    BY <2>2, Finite, FS_Subset
  <2>4. /\ Cardinality(dirty \cup Held) \in Nat
        /\ Cardinality(dirty' \cup Held') \in Nat
        /\ Cardinality(dirty \cup {b}) \in Nat
        /\ Cardinality(dirty) \in Nat
    BY <2>1, <2>3, Finite, FS_CardinalityType
  <2>5. Cardinality(dirty \cup Held) <= NBUF /\ NBUF \in Nat
    BY LogAssumption DEF IndInv, Buffers
  <2>6. Cardinality(dirty \cup {b}) =
            IF b \in dirty THEN Cardinality(dirty) ELSE Cardinality(dirty) + 1
    BY Finite, FS_AddElement
  <2> QED
    BY <2>1, <2>3, <2>4, <2>5, <2>6, SMT
<1>11. Buffers'
  BY <1>6, <1>10, SMT DEF IndInv, Buffers
<1>12. ListShape'
  <2>1. CASE b \in Range(lh)
    BY <2>1 DEF IndInv, Lists, ListShape
  <2>2. CASE b \notin Range(lh)
    <3>1. /\ Len(lh') = Len(lh) + 1 /\ lh'[Len(lh) + 1] = b
          /\ \A i \in 1..Len(lh) : lh'[i] = lh[i] /\ lh[i] # b
      BY <1>1, <1>3, <2>2, RangeByIndex, SMT
    <3>2. \A i, j \in 1..Len(lh') : lh'[i] = lh'[j] => i = j
      BY <1>3, <3>1, SMT DEF IndInv, Lists, ListShape
    <3>3. Cardinality(Range(lh')) = Len(lh') /\ Len(lh') <= LOGSIZE
      BY <1>2, <1>3, <1>4, <1>10, <2>2, <3>1, LogAssumption
      DEF IndInv, Lists, ListShape
    <3> QED
      BY <3>2, <3>3 DEF IndInv, Lists, ListShape
  <2> QED
    BY <2>1, <2>2
<1>13. \A q \in Procs : pc'[q] \notin {"wlog", "whead", "check", "install",
                                       "erase", "finish"}
  BY <1>6, NobodyCommits, SMT
<1>14. HeadIsPrefix'
  <2>1. /\ Len(lh') >= Len(lh) /\ Len(lh') \in Nat
        /\ \A i \in 1..Len(lh) : lh'[i] = lh[i]
    BY <1>1, <1>3, SMT
  <2>2. Len(head) <= Len(lh) /\ \A i \in 1..Len(head) : head[i] = lh[i]
    BY <1>2, NobodyCommits DEF IndInv, Lists, HeadIsPrefix
  <2>3. Len(head) \in Nat
    BY SMT DEF TypeOK
  <2> QED
    BY <1>3, <2>1, <2>2, <2>3, SMT DEF HeadIsPrefix
<1>15. Progress' /\ DirtyIsListed' /\ Recovering'
  BY <1>2, <1>4, <1>13 DEF Progress, DirtyIsListed, Recovering, Up
<1>16. CleanIsHome'
  BY <1>6, SMT DEF IndInv, Contents, CleanIsHome
<1>17. LogIsDurable' /\ Copied'
  BY <1>13, NobodyCommits DEF IndInv, Contents, LogIsDurable, Copied
<1>18. HomeIsDurable' /\ CacheIsAhead' /\ Ages'
  BY <1>2 DEF IndInv, Contents, HomeIsDurable, CacheIsAhead, Ages
<1> QED
  BY <1>5, <1>8, <1>11, <1>12, <1>14, <1>15, <1>16, <1>17, <1>18
  DEF IndInv, Lists, Contents

\* end_op() up to the decision to commit.
LEMMA EndOpStep ==
  ASSUME IndInv, mode = "run", NEW p \in Procs, EndOp(p)
  PROVE  IndInv'
<1> USE DEF EndOp, Goto, Woken, disk, cache, logv, boot
<1> TypeOK /\ ~committing
  BY NobodyCommits DEF IndInv
<1>1. p \in InTransaction /\ Up /\ Up' /\ Held' = Held /\ Committers = {}
  BY NobodyCommits, SMT DEF InTransaction, Up, Held, Committers
<1>2. InTransaction' = InTransaction \ {p}
  <2>1. CASE outstanding' = 0
    BY <2>1 DEF InTransaction, TypeOK
  <2>2. CASE outstanding' # 0
    BY <2>2 DEF InTransaction, TypeOK
  <2> QED
    BY <2>1, <2>2
<1>3. /\ outstanding' = Cardinality(InTransaction') /\ outstanding' \in Nat
      /\ outstanding' = 0 => InTransaction' = {}
  <2>1. /\ Cardinality(InTransaction \ {p}) = Cardinality(InTransaction) - 1
        /\ IsFiniteSet(InTransaction \ {p})
    BY <1>1, Finite, FS_RemoveElement
  <2>2. outstanding' = Cardinality(InTransaction')
    BY <1>2, <2>1 DEF IndInv, Exclusion
  <2> QED
    BY <1>2, <2>1, <2>2, FS_CardinalityType, FS_EmptySet
<1>4. Buffers'
  <2>1. \A q \in Procs : hold[q] # NoBlock =>
           /\ q # p /\ pc'[q] = pc[q]
    <3>1. CASE outstanding' = 0
      BY <3>1 DEF TypeOK
    <3>2. CASE outstanding' # 0
      BY <3>2 DEF TypeOK, IndInv, Buffers
    <3> QED
      BY <3>1, <3>2
  <2>2. \A q \in Procs : pc'[q] = "append" => pc[q] = "append"
    <3>1. CASE outstanding' = 0
      BY <3>1 DEF TypeOK
    <3>2. CASE outstanding' # 0
      BY <3>2 DEF TypeOK
    <3> QED
      BY <3>1, <3>2
  <2> QED
    BY <1>1, <2>1, <2>2, SMT DEF IndInv, Buffers
<1>5. CASE outstanding' = 0
  <2> USE <1>5
  <2>1. TypeOK'
    BY <1>3 DEF TypeOK, Labels
  <2>2. \A q \in Procs : pc'[q] = IF q = p THEN "wlog" ELSE pc[q]
    BY DEF TypeOK
  <2>3. tail'[p] = 0
    BY DEF TypeOK
  <2>4. Committers' = {p}
    BY <1>1, <2>2 DEF Committers
  <2>5. Exclusion'
    BY <1>1, <1>3, <2>2, <2>4 DEF IndInv, Exclusion
  <2>6. \A q \in Procs \ {p} : pc'[q] \notin {"wlog", "whead", "check",
                                              "install", "erase", "finish"}
    BY <2>2, NobodyCommits
  <2>7. ListShape' /\ Recovering' /\ HomeIsDurable' /\ CacheIsAhead' /\ Ages'
    BY <1>1 DEF IndInv, Lists, ListShape, Recovering, Contents, HomeIsDurable,
                CacheIsAhead, Ages
  <2>8. Progress' /\ HeadIsPrefix' /\ DirtyIsListed'
    <3>1. Len(lh) >= 0 /\ LOGSIZE > 0
      BY LogAssumption, SMT DEF TypeOK
    <3> QED
      BY <1>1, <2>2, <2>3, <2>6, <3>1, NobodyCommits
      DEF IndInv, Lists, Progress, HeadIsPrefix, DirtyIsListed
  <2>9. CleanIsHome'
    BY <2>2 DEF IndInv, Contents, CleanIsHome
  <2>10. LogIsDurable'
    BY NobodyCommits DEF IndInv, Contents, LogIsDurable
  <2>11. Copied'
    BY <2>2, <2>3, <2>6, SMT DEF Copied
  <2> QED
    BY <1>4, <2>1, <2>5, <2>7, <2>8, <2>9, <2>10, <2>11
    DEF IndInv, Lists, Contents
<1>6. CASE outstanding' # 0
  <2> USE <1>6
  <2>1. TypeOK'
    <3>1. Woken \in [Procs -> Labels]
      BY DEF TypeOK, Labels
    <3>2. pc' \in [Procs -> Labels]
      BY <3>1 DEF Labels
    <3>3. tail' \in [Procs -> Nat]
      BY SMT DEF TypeOK
    <3> QED
      BY <1>3, <3>2, <3>3 DEF TypeOK
  <2>2. \A q \in Procs : pc'[q] = IF q = p THEN "idle" ELSE
                                  IF pc[q] = "asleep" THEN "begin" ELSE pc[q]
    BY DEF TypeOK
  <2>3. Committers' = {}
    BY <1>1, <2>2 DEF Committers
  <2>4. Exclusion'
    BY <1>1, <1>3, <2>2, <2>3 DEF IndInv, Exclusion
  <2>5. \A q \in Procs : pc[q] \in Busy \/ pc'[q] \in Busy =>
           pc'[q] = pc[q] /\ tail'[q] = tail[q] /\ hold'[q] = hold[q]
    BY <2>2 DEF Busy, TypeOK
  <2>6. \A q \in Procs : pc'[q] = "finish" => head = lh
    BY <2>2 DEF IndInv, Lists, Progress
  <2>7. Lists' /\ Contents' /\ Ages'
    BY <1>1, <2>5, <2>6, QuietStep
  <2> QED
    BY <1>4, <2>1, <2>4, <2>7 DEF IndInv
<1> QED
  BY <1>5, <1>6

-----------------------------------------------------------------------------
(* commit(), and end_op()'s decision to sync. *)

\* While a process commits, every other one is outside the log code.
LEMMA OnlyCommitter ==
  ASSUME IndInv, NEW p \in Procs,
         pc[p] \in {"wlog", "whead", "check", "install", "erase", "finish"}
  PROVE  /\ committing /\ InTransaction = {} /\ Committers = {p} /\ Up
         /\ \A q \in Procs \ {p} : pc[q] \in {"idle", "begin", "asleep"}
         /\ hold[p] = NoBlock
         /\ \A q \in Procs : pc[q] # "append"
<1>1. p \in Committers
  BY DEF Committers
<1>2. committing /\ InTransaction = {} /\ Committers = {p} /\ Up
  BY <1>1, SMT DEF IndInv, Exclusion, Committers
<1>3. \A q \in Procs : pc[q] \in Labels \ {"sinstall", "serase"}
  BY DEF IndInv, TypeOK, Exclusion
<1> QED
  BY <1>2, <1>3 DEF Committers, InTransaction, Labels, IndInv, Buffers

\* What every step of a committing process keeps, if it stays the committer.
LEMMA CommitFrame ==
  ASSUME IndInv, TypeOK', NEW p \in Procs,
         pc[p] \in {"wlog", "whead", "check", "install", "erase", "finish"},
         NEW l \in {"wlog", "whead", "check", "install", "erase", "finish"},
         pc' = [pc EXCEPT ![p] = l], mode' = mode,
         UNCHANGED <<hold, committing, outstanding>>,
         dirty' \subseteq dirty
  PROVE  /\ Exclusion' /\ Buffers' /\ Up'
         /\ pc'[p] = l
         /\ \A q \in Procs \ {p} : pc'[q] \in {"idle", "begin", "asleep"}
         /\ \A q \in Procs : pc'[q] # "append"
<1> TypeOK
  BY DEF IndInv
<1>1. \A q \in Procs : pc'[q] = IF q = p THEN l ELSE pc[q]
  BY DEF TypeOK
<1>2. InTransaction' = InTransaction /\ Committers' = Committers
  BY <1>1, OnlyCommitter, SMT DEF InTransaction, Committers
<1>3. Up' /\ Up
  BY OnlyCommitter DEF Up
<1>4. Exclusion'
  BY <1>1, <1>2, <1>3 DEF IndInv, Exclusion
<1>5. dirty' \cup Held' \in SUBSET (dirty \cup Held)
  BY DEF Held
<1>6. Cardinality(dirty' \cup Held') <= NBUF
  <2>1. Cardinality(dirty' \cup Held') <= Cardinality(dirty \cup Held)
        /\ IsFiniteSet(dirty' \cup Held')
    BY <1>5, Finite, FS_Subset
  <2>2. Cardinality(dirty \cup Held) \in Nat
        /\ Cardinality(dirty' \cup Held') \in Nat
    BY <2>1, Finite, FS_CardinalityType
  <2> QED
    BY <2>1, <2>2, LogAssumption, SMT DEF IndInv, Buffers
<1>7. Buffers'
  BY <1>1, <1>6, OnlyCommitter DEF IndInv, Buffers
<1> QED
  BY <1>1, <1>3, <1>4, <1>7, OnlyCommitter

\* One block copied by write_log().  That it finds a buffer for the log block
\* means that the log is not full, so the block written is one of the log's.
LEMMA WriteLogStep ==
  ASSUME IndInv, mode = "run", NEW p \in Procs, WriteLog(p)
  PROVE  IndInv'
<1> TypeOK
  BY DEF IndInv
<1> DEFINE t == tail[p] + 1
           b == lh[t]
<1>1. CASE ~CanGetLogBlock({b})
  BY <1>1, PanicStep DEF WriteLog
<1>2. CASE CanGetLogBlock({b})
  <2> USE <1>2 DEF WriteLog, disk, cache, logv, ops, boot
  <2>1. t \in 1..Len(lh) /\ b \in Blocks /\ Len(lh) \in Nat /\ tail[p] \in Nat
    BY SMT DEF TypeOK
  <2>2. dirty = Range(lh) /\ \A q \in Procs : pc[q] # "install"
    BY OnlyCommitter DEF IndInv, Lists, DirtyIsListed
  <2>3. Len(lh) < LOGSIZE
    <3>1. Range(lh) \in SUBSET (dirty \cup Held \cup {b})
      BY <2>2
    <3>2. IsFiniteSet(dirty \cup Held \cup {b})
      BY Finite, FS_AddElement
    <3>3. Cardinality(Range(lh)) <= Cardinality(dirty \cup Held \cup {b})
      BY <3>1, <3>2, FS_Subset
    <3>4. Cardinality(dirty \cup Held \cup {b}) \in Nat
      BY <3>2, FS_CardinalityType
    <3> QED
      BY <2>1, <3>3, <3>4, LogAssumption, SMT
      DEF IndInv, Lists, ListShape, CanGetLogBlock
  <2>4. /\ slot' \in [1..LOGSIZE -> Stamps]
        /\ \A i \in 1..LOGSIZE : slot'[i] = IF i = t THEN buf[b] ELSE slot[i]
    BY <2>1 DEF TypeOK
  <2>5. TypeOK'
    BY <2>4, SMT DEF TypeOK
  <2>6. pc' = [pc EXCEPT ![p] = "wlog"]
    BY DEF TypeOK
  <2>7. /\ Exclusion' /\ Buffers' /\ Up'
        /\ \A q \in Procs \ {p} : pc'[q] \in {"idle", "begin", "asleep"}
        /\ \A q \in Procs : pc'[q] # "append"
    BY <2>5, <2>6, CommitFrame
  <2>8. tail'[p] = t
    BY DEF TypeOK
  <2>9. ListShape' /\ Recovering' /\ HomeIsDurable' /\ CacheIsAhead'
    BY <2>7, OnlyCommitter, SMT DEF IndInv, Lists, ListShape, Recovering, Contents,
                               HomeIsDurable, CacheIsAhead
  <2>10. Progress' /\ HeadIsPrefix' /\ DirtyIsListed'
    <3>1. pc'[p] = "wlog" /\ tail'[p] <= Len(lh') /\ tail'[p] < LOGSIZE
      BY <2>1, <2>3, <2>8, LogAssumption, SMT
    <3>2. Progress'
      BY <2>7, <3>1 DEF Progress
    <3>3. HeadIsPrefix' /\ DirtyIsListed'
      BY <2>2, <2>7, OnlyCommitter
      DEF IndInv, Lists, HeadIsPrefix, DirtyIsListed
    <3> QED
      BY <3>2, <3>3
  <2>11. CleanIsHome'
    BY <2>7 DEF IndInv, Contents, CleanIsHome
  <2>12. LogIsDurable'
    <3>1. Len(head) < LOGSIZE /\ Len(head) \in Nat
      BY SMT DEF IndInv, Lists, ListShape, TypeOK
    <3> SUFFICES ASSUME NEW i \in 1..Len(head)
                 PROVE  slot'[i] = durable[head[i]] \/ i <= tail'[p]
      BY <2>6 DEF LogIsDurable, TypeOK
    <3>2. i <= tail[p] \/ slot[i] = durable[head[i]]
      BY OnlyCommitter DEF IndInv, Contents, LogIsDurable
    <3>3. slot'[i] = IF i = t THEN buf[b] ELSE slot[i]
      BY <2>4, <3>1, LogAssumption, SMT
    <3> QED
      BY <2>1, <2>8, <3>2, <3>3, SMT
  <2>13. Copied'
    BY <2>1, <2>3, <2>4, <2>7, <2>8, LogAssumption, SMT DEF IndInv, Contents, Copied
  <2>14. Ages'
    BY <2>1, <2>4 DEF IndInv, Ages
  <2> QED
    BY <2>5, <2>7, <2>9, <2>10, <2>11, <2>12, <2>13, <2>14
    DEF IndInv, Lists, Contents
<1> QED
  BY <1>1, <1>2

\* write_log() is through.
LEMMA WriteLogDoneStep ==
  ASSUME IndInv, mode = "run", NEW p \in Procs, WriteLogDone(p)
  PROVE  IndInv'
<1> USE DEF WriteLogDone, Goto, disk, cache, logv, ops, boot
<1> TypeOK
  BY DEF IndInv
<1> DEFINE l == IF tail[p] = 0 THEN "check" ELSE "whead"
<1>1. TypeOK'
  BY DEF TypeOK, Labels
<1>2. /\ Exclusion' /\ Buffers' /\ Up' /\ pc'[p] = l
      /\ \A q \in Procs \ {p} : pc'[q] \in {"idle", "begin", "asleep"}
      /\ \A q \in Procs : pc'[q] # "append"
  BY <1>1, CommitFrame
<1>3. Len(lh) \in Nat /\ Len(head) \in Nat /\ tail[p] = Len(lh)
  BY SMT DEF IndInv, Lists, Progress, TypeOK
<1>4. tail[p] = 0 => head = lh /\ Len(head) = 0
  <2>1. ~\E q \in Procs : pc[q] = "erase"
    BY OnlyCommitter
  <2>2. Len(head) <= Len(lh)
    BY <2>1, OnlyCommitter DEF IndInv, Lists, HeadIsPrefix
  <2>3. \A s \in Seq(Blocks) : s # <<>> => Len(s) \in Nat \ {0}
    BY EmptySeq
  <2>4. head \in Seq(Blocks) /\ lh \in Seq(Blocks)
    BY DEF TypeOK
  <2>5. tail[p] = 0 => Len(head) = 0 /\ Len(lh) = 0
    BY <1>3, <2>2, SMT
  <2> QED
    BY <2>3, <2>4, <2>5
<1>5. dirty = Range(lh)
  BY OnlyCommitter DEF IndInv, Lists, DirtyIsListed
<1>6. ListShape' /\ Recovering' /\ HomeIsDurable' /\ CacheIsAhead' /\ Ages'
  BY <1>2, OnlyCommitter, SMT DEF IndInv, Lists, ListShape, Recovering, Contents,
                             HomeIsDurable, CacheIsAhead, Ages
<1>7. Progress' /\ HeadIsPrefix' /\ DirtyIsListed'
  BY <1>2, <1>3, <1>4, <1>5, OnlyCommitter, SMT
  DEF IndInv, Lists, Progress, HeadIsPrefix, DirtyIsListed
<1>8. CleanIsHome'
  BY <1>2, SMT DEF IndInv, Contents, CleanIsHome
<1>9. LogIsDurable'
  BY <1>2, <1>4, OnlyCommitter, SMT DEF IndInv, Contents, LogIsDurable
<1>10. Copied'
  <2>1. tail[p] = 0 => buf = durable
    <3>1. tail[p] = 0 => dirty = {} /\ Range(head) = {}
      <4>1. Len(head) = 0 => Range(head) = {}
        <5>1. Range(head) = {head[i] : i \in 1..Len(head)}
          BY RangeByIndex DEF TypeOK
        <5>2. 1..0 = {}
          BY SMT
        <5> QED
          BY <5>1, <5>2
      <4> QED
        BY <1>4, <1>5, <4>1
    <3>2. tail[p] = 0 => \A b \in Blocks : buf[b] = durable[b]
      BY <3>1, OnlyCommitter DEF IndInv, Contents, CleanIsHome, HomeIsDurable
    <3> QED
      BY <3>2, SMT DEF TypeOK
  <2> QED
    BY <1>2, <2>1, SMT DEF IndInv, Contents, Copied
<1> QED
  BY <1>1, <1>2, <1>6, <1>7, <1>8, <1>9, <1>10 DEF IndInv, Lists, Contents

\* write_head() in commit(): the commit point.
LEMMA WriteHeadStep ==
  ASSUME IndInv, mode = "run", NEW p \in Procs, WriteHead(p)
  PROVE  IndInv'
<1> TypeOK
  BY DEF IndInv
<1>1. CASE ~CanGetLogBlock({})
  BY <1>1, PanicStep DEF WriteHead
<1>2. CASE CanGetLogBlock({})
  <2> USE <1>2 DEF WriteHead, Goto, disk, cache, logv, ops, boot
  <2>1. TypeOK'
    BY DEF TypeOK, Labels
  <2>2. /\ Exclusion' /\ Buffers' /\ Up' /\ pc'[p] = "check"
        /\ \A q \in Procs \ {p} : pc'[q] \in {"idle", "begin", "asleep"}
        /\ \A q \in Procs : pc'[q] # "append"
    BY <2>1, CommitFrame
  <2>3. tail[p] = Len(lh) /\ tail[p] < LOGSIZE
    BY DEF IndInv, Lists, Progress
  <2>4. dirty = Range(lh)
    BY OnlyCommitter DEF IndInv, Lists, DirtyIsListed
  <2>5. ListShape' /\ Recovering'
    BY <2>3 DEF IndInv, Lists, ListShape, Recovering
  <2>6. Progress' /\ HeadIsPrefix' /\ DirtyIsListed'
    <3>1. head' = lh' /\ dirty' = Range(lh') /\ Len(lh') \in Nat
      BY <2>4, SMT DEF TypeOK
    <3>2. Progress'
      BY <2>2, <3>1 DEF Progress
    <3>3. HeadIsPrefix'
      BY <3>1, SMT DEF HeadIsPrefix
    <3>4. DirtyIsListed'
      BY <2>2, <3>1 DEF DirtyIsListed
    <3> QED
      BY <3>2, <3>3, <3>4
  <2>7. CleanIsHome'
    BY OnlyCommitter DEF IndInv, Contents, CleanIsHome
  <2>8. HomeIsDurable'
    BY <2>4, OnlyCommitter DEF IndInv, Contents, CleanIsHome, HomeIsDurable
  <2>9. LogIsDurable'
    <3>1. \A i \in 1..Len(lh) : slot[i] = buf[lh[i]]
      BY <2>3 DEF IndInv, Contents, Copied
    <3> QED
      BY <3>1 DEF LogIsDurable
  <2>10. Copied'
    BY <2>2 DEF IndInv, Contents, Copied
  <2>11. CacheIsAhead' /\ Ages'
    BY SMT DEF CacheIsAhead, IndInv, Ages, TypeOK, Stamps
  <2> QED
    BY <2>1, <2>2, <2>5, <2>6, <2>7, <2>8, <2>9, <2>10, <2>11
    DEF IndInv, Lists, Contents
<1> QED
  BY <1>1, <1>2

\* if(log.full) sync(): its two early returns.
LEMMA EndOpSyncStep ==
  ASSUME IndInv, mode = "run", NEW p \in Procs, EndOpSync(p)
  PROVE  IndInv'
<1> USE DEF EndOpSync, Goto, disk, cache, logv, ops, boot
<1> TypeOK
  BY DEF IndInv
<1> DEFINE l == IF full /\ SyncReady THEN "install" ELSE "finish"
<1>1. TypeOK'
  BY DEF TypeOK, Labels
<1>2. /\ Exclusion' /\ Buffers' /\ Up' /\ pc'[p] = l
      /\ \A q \in Procs \ {p} : pc'[q] \in {"idle", "begin", "asleep"}
      /\ \A q \in Procs : pc'[q] # "append"
  BY <1>1, CommitFrame
<1>3. head = lh /\ Len(lh) \in Nat /\ lh \in Seq(Blocks)
  BY SMT DEF IndInv, Lists, Progress, TypeOK
<1>4. dirty = Range(lh)
  BY OnlyCommitter DEF IndInv, Lists, DirtyIsListed
<1>5. tail'[p] = 0
  BY DEF TypeOK
<1>6. ListShape' /\ Recovering' /\ HomeIsDurable' /\ CacheIsAhead' /\ Ages'
  BY <1>2, OnlyCommitter, SMT DEF IndInv, Lists, ListShape, Recovering, Contents,
                             HomeIsDurable, CacheIsAhead, Ages
<1>7. Progress' /\ HeadIsPrefix'
  BY <1>2, <1>3, <1>5, SMT DEF Progress, HeadIsPrefix
<1>8. DirtyIsListed'
  <2>1. dirty' = {lh'[i] : i \in tail'[p] + 1..Len(lh')}
    BY <1>3, <1>4, <1>5, RangeByIndex, SMT
  <2>2. CASE l = "install"
    BY <1>2, <2>1, <2>2 DEF DirtyIsListed
  <2>3. CASE l = "finish"
    BY <1>2, <1>4, <2>3 DEF DirtyIsListed
  <2> QED
    BY <2>2, <2>3
<1>9. CleanIsHome'
  BY <1>2, OnlyCommitter DEF IndInv, Contents, CleanIsHome
<1>10. LogIsDurable'
  BY OnlyCommitter DEF IndInv, Contents, LogIsDurable
<1>11. Copied'
  <2>1. buf' = durable' /\ mode' = "run"
    BY DEF IndInv, Contents, Copied
  <2>2. \A i \in 1..tail'[p] : home'[lh'[i]] = durable'[lh'[i]]
    BY <1>5, SMT
  <2>3. pc'[p] \in {"install", "finish"}
    BY <1>2
  <2> QED
    BY <1>2, <2>1, <2>2, <2>3, Zenon DEF Copied
<1> QED
  BY <1>1, <1>2, <1>6, <1>7, <1>8, <1>9, <1>10, <1>11
  DEF IndInv, Lists, Contents

-----------------------------------------------------------------------------
(* sync() in end_op(), and the end of end_op(). *)

\* One block installed by install_trans().
LEMMA InstallStep ==
  ASSUME IndInv, mode = "run", NEW p \in Procs, Install(p)
  PROVE  IndInv'
<1> TypeOK
  BY DEF IndInv
<1> DEFINE t == tail[p] + 1
           b == lh[t]
           v == slot[t]
<1> pc[p] = "install" /\ tail[p] < Len(lh)
  BY DEF Install, IndInv, Exclusion
<1>1. CASE ~CanGetLogBlock({b})
  BY <1>1, PanicStep DEF Install
<1>2. CASE CanGetLogBlock({b})
  <2>0. /\ home' = [home EXCEPT ![b] = v] /\ buf' = [buf EXCEPT ![b] = v]
        /\ dirty' = dirty \ {b} /\ tail' = [tail EXCEPT ![p] = t]
        /\ UNCHANGED <<slot, head, lh, full, outstanding, committing, pc, hold,
                       mode, rtail, crashes, stamp, durable>>
    BY <1>2 DEF Install, logv, ops, boot
  <2>1. t \in 1..Len(lh) /\ b \in Blocks /\ Len(lh) \in Nat /\ tail[p] \in Nat
    BY SMT DEF TypeOK
  <2>2. head = lh /\ Len(lh) < LOGSIZE /\ t \in 1..LOGSIZE
    BY <2>1, LogAssumption, SMT DEF IndInv, Lists, Progress, ListShape
  <2>3. v = durable[b] /\ v \in Stamps
    BY <2>1, <2>2, OnlyCommitter DEF IndInv, Contents, LogIsDurable, TypeOK
  <2>4. /\ \A c \in Blocks : home'[c] = IF c = b THEN v ELSE home[c]
        /\ \A c \in Blocks : buf'[c] = IF c = b THEN v ELSE buf[c]
        /\ tail'[p] = t
    BY <2>0 DEF TypeOK
  <2>5. TypeOK'
    <3>1. home' \in [Blocks -> Stamps] /\ buf' \in [Blocks -> Stamps]
      BY <2>0, <2>3 DEF TypeOK
    <3>2. tail' \in [Procs -> Nat] /\ dirty' \subseteq Blocks
      BY <2>0, <2>1, SMT DEF TypeOK
    <3> QED
      BY <2>0, <3>1, <3>2 DEF TypeOK
  <2>6. pc' = [pc EXCEPT ![p] = "install"]
    BY <2>0 DEF TypeOK
  <2>7. /\ Exclusion' /\ Buffers' /\ Up' /\ pc'[p] = "install"
        /\ \A q \in Procs \ {p} : pc'[q] \in {"idle", "begin", "asleep"}
        /\ \A q \in Procs : pc'[q] # "append"
    BY <2>0, <2>5, <2>6, CommitFrame
  <2>8. \A i, j \in 1..Len(lh) : lh[i] = lh[j] => i = j
    BY DEF IndInv, Lists, ListShape
  <2>9. ListShape' /\ Recovering'
    BY <2>0, SMT DEF IndInv, Lists, ListShape, Recovering
  <2>10. Progress' /\ HeadIsPrefix'
    BY <2>0, <2>1, <2>2, <2>4, <2>7, SMT DEF Progress, HeadIsPrefix
  <2>11. DirtyIsListed'
    <3>1. dirty = {lh[i] : i \in tail[p] + 1..Len(lh)}
      BY OnlyCommitter DEF IndInv, Lists, DirtyIsListed
    <3>2. tail[p] + 1..Len(lh) = {t} \cup (t + 1..Len(lh))
          /\ t + 1..Len(lh) \subseteq 1..Len(lh) /\ t \notin t + 1..Len(lh)
      BY <2>1, SMT
    <3>3. dirty' = {lh[i] : i \in t + 1..Len(lh)}
      <4> DEFINE later == t + 1..Len(lh)
      <4>1. \A i \in later : lh[i] # b
        BY <2>1, <2>8, <3>2
      <4>2. dirty = {b} \cup {lh[i] : i \in later}
        BY <3>1, <3>2
      <4> HIDE DEF later
      <4> QED
        BY <2>0, <4>1, <4>2 DEF later
    <3>4. dirty' = {lh'[i] : i \in tail'[p] + 1..Len(lh')}
      BY <2>0, <2>4, <3>3, SMT
    <3> QED
      BY <2>7, <3>4 DEF DirtyIsListed
  <2>12. CleanIsHome'
    BY <2>0, <2>4, <2>7, OnlyCommitter, SMT DEF IndInv, Contents, CleanIsHome
  <2>13. HomeIsDurable'
    BY <2>0, <2>3, <2>4 DEF IndInv, Contents, HomeIsDurable
  <2>14. LogIsDurable'
    BY <2>0, OnlyCommitter DEF IndInv, Contents, LogIsDurable
  <2>15. Copied'
    <3>1. \A i \in 1..t : home'[lh[i]] = durable[lh[i]]
      <4>1. \A i \in 1..tail[p] : home[lh[i]] = durable[lh[i]] /\ lh[i] \in Blocks
        BY <2>1, SMT DEF IndInv, Contents, Copied, TypeOK
      <4> QED
        BY <2>1, <2>3, <2>4, <4>1, SMT
    <3>2. buf' = durable'
      <4>1. buf = durable
        BY DEF IndInv, Contents, Copied
      <4> QED
        BY <2>0, <2>3, <4>1 DEF TypeOK
    <3> QED
      BY <2>0, <2>4, <2>7, <3>1, <3>2, SMT DEF Copied, Up
  <2>16. CacheIsAhead'
    <3>1. \A c \in Blocks : durable[c] <= buf[c]
      BY OnlyCommitter DEF IndInv, Contents, CacheIsAhead
    <3>2. v <= v
      BY <2>3, SMT DEF Stamps
    <3> QED
      BY <2>0, <2>3, <2>4, <3>1, <3>2 DEF CacheIsAhead
  <2>17. Ages'
    <3>1. v <= stamp
      BY <2>2 DEF IndInv, Ages
    <3> QED
      BY <2>0, <2>4, <3>1, SMT DEF IndInv, Ages
  <2> QED
    BY <2>5, <2>7, <2>9, <2>10, <2>11, <2>12, <2>13, <2>14, <2>15, <2>16, <2>17
    DEF IndInv, Lists, Contents
<1> QED
  BY <1>1, <1>2

\* install_trans() is through: log.lh.n = 0.
LEMMA ClearLogStep ==
  ASSUME IndInv, mode = "run", NEW p \in Procs, ClearLog(p)
  PROVE  IndInv'
<1> TypeOK
  BY DEF IndInv
<1>0. /\ pc[p] = "install" /\ tail[p] >= Len(lh)
      /\ lh' = <<>> /\ pc' = [pc EXCEPT ![p] = "erase"]
      /\ UNCHANGED <<home, slot, head, buf, dirty, full, outstanding, committing,
                     hold, tail, mode, rtail, crashes, stamp, durable>>
  BY DEF ClearLog, Goto, disk, cache, ops, boot, IndInv, Exclusion
<1>1. TypeOK'
  BY <1>0, EmptySeq DEF TypeOK, Labels
<1>2. /\ Exclusion' /\ Buffers' /\ Up' /\ pc'[p] = "erase"
      /\ \A q \in Procs \ {p} : pc'[q] \in {"idle", "begin", "asleep"}
      /\ \A q \in Procs : pc'[q] # "append"
  BY <1>0, <1>1, CommitFrame
<1>3. head = lh /\ tail[p] = Len(lh) /\ Len(lh) \in Nat /\ lh \in Seq(Blocks)
  BY <1>0, SMT DEF IndInv, Lists, Progress, TypeOK
<1>4. dirty = {}
  <2>1. dirty = {lh[i] : i \in tail[p] + 1..Len(lh)}
    BY <1>0, OnlyCommitter DEF IndInv, Lists, DirtyIsListed
  <2> QED
    BY <1>3, <2>1, SMT
<1>5. home = durable
  <2>1. \A c \in Range(lh) : home[c] = durable[c]
    BY <1>0, <1>3, RangeByIndex, SMT DEF IndInv, Contents, Copied
  <2>2. \A c \in Blocks : home[c] = durable[c]
    BY <1>3, <2>1 DEF IndInv, Contents, HomeIsDurable
  <2> QED
    BY <2>2, SMT DEF TypeOK
<1>6. ListShape'
  <2>1. Len(lh') = 0 /\ Range(lh') = {}
    BY <1>0, RangeEmpty
  <2>2. Cardinality(Range(lh')) = Len(lh')
    BY <2>1, FS_EmptySet
  <2>3. Len(lh') <= LOGSIZE /\ 1..Len(lh') = {}
    BY <2>1, LogAssumption, SMT
  <2> QED
    BY <1>0, <2>2, <2>3 DEF IndInv, Lists, ListShape
<1>7. Progress' /\ HeadIsPrefix' /\ DirtyIsListed' /\ Recovering'
  BY <1>0, <1>2, <1>4, RangeEmpty
  DEF Progress, HeadIsPrefix, DirtyIsListed, Recovering, Up
<1>8. CleanIsHome'
  BY <1>0, <1>2, OnlyCommitter DEF IndInv, Contents, CleanIsHome
<1>9. HomeIsDurable' /\ CacheIsAhead' /\ Ages'
  BY <1>0, <1>2, OnlyCommitter
  DEF IndInv, Contents, HomeIsDurable, CacheIsAhead, Ages
<1>10. LogIsDurable'
  BY <1>0, OnlyCommitter DEF IndInv, Contents, LogIsDurable
<1>11. Copied'
  BY <1>0, <1>2, <1>5 DEF Copied
<1> QED
  BY <1>1, <1>2, <1>6, <1>7, <1>8, <1>9, <1>10, <1>11
  DEF IndInv, Lists, Contents

\* write_head() in sync(): the installed transactions are erased.
LEMMA EraseHeadStep ==
  ASSUME IndInv, mode = "run", NEW p \in Procs, EraseHead(p)
  PROVE  IndInv'
<1> TypeOK /\ pc[p] = "erase"
  BY DEF IndInv, Exclusion, EraseHead
<1>1. CASE ~CanGetLogBlock({})
  BY <1>1, PanicStep DEF EraseHead
<1>2. CASE CanGetLogBlock({})
  <2>0. /\ head' = lh /\ pc' = [pc EXCEPT ![p] = "finish"]
        /\ UNCHANGED <<home, slot, buf, dirty, lh, full, outstanding, committing,
                       hold, tail, mode, rtail, crashes, stamp, durable>>
    BY <1>2 DEF EraseHead, Goto, cache, logv, ops, boot
  <2>1. TypeOK'
    BY <2>0 DEF TypeOK, Labels
  <2>2. /\ Exclusion' /\ Buffers' /\ Up' /\ pc'[p] = "finish"
        /\ \A q \in Procs \ {p} : pc'[q] \in {"idle", "begin", "asleep"}
        /\ \A q \in Procs : pc'[q] # "append"
    BY <2>0, <2>1, CommitFrame
  <2>3. lh = <<>> /\ home = durable
    BY DEF IndInv, Lists, Progress, Contents, Copied
  <2>4. dirty = Range(lh)
    BY OnlyCommitter DEF IndInv, Lists, DirtyIsListed
  <2>5. Len(head') = 0 /\ Len(lh') = 0 /\ head' = lh'
    BY <2>0, <2>3
  <2>6. ListShape' /\ Recovering'
    BY <2>0, <2>2, <2>5, LogAssumption, SMT
    DEF IndInv, Lists, ListShape, Recovering, Up
  <2>7. Progress' /\ HeadIsPrefix' /\ DirtyIsListed'
    BY <2>0, <2>2, <2>4, <2>5, SMT DEF Progress, HeadIsPrefix, DirtyIsListed
  <2>8. CleanIsHome'
    BY <2>0, OnlyCommitter DEF IndInv, Contents, CleanIsHome
  <2>9. HomeIsDurable' /\ CacheIsAhead' /\ Ages'
    BY <2>0, <2>2, <2>3, OnlyCommitter
    DEF IndInv, Contents, HomeIsDurable, CacheIsAhead, Ages
  <2>10. LogIsDurable'
    BY <2>5, SMT DEF LogIsDurable
  <2>11. Copied'
    BY <2>0, <2>2 DEF Copied, Up
  <2> QED
    BY <2>1, <2>2, <2>6, <2>7, <2>8, <2>9, <2>10, <2>11
    DEF IndInv, Lists, Contents
<1> QED
  BY <1>1, <1>2

\* The end of end_op().
LEMMA FinishStep ==
  ASSUME IndInv, mode = "run", NEW p \in Procs, Finish(p)
  PROVE  IndInv'
<1> USE DEF Finish, disk, cache, logv, boot
<1> TypeOK
  BY DEF IndInv
<1>1. \A q \in Procs : pc'[q] = IF q = p THEN "idle" ELSE
                                IF pc[q] = "asleep" THEN "begin" ELSE pc[q]
  BY DEF TypeOK, Woken
<1>2. TypeOK'
  <2>1. Woken \in [Procs -> Labels]
    BY DEF TypeOK, Labels, Woken
  <2>2. pc' \in [Procs -> Labels]
    BY <2>1 DEF Labels
  <2> QED
    BY <2>2 DEF TypeOK
<1>3. Committers' = {} /\ InTransaction' = {} /\ Up /\ Up' /\ Held' = Held
  BY <1>1, OnlyCommitter, SMT DEF Committers, InTransaction, Up, Held
<1>4. Exclusion'
  BY <1>1, <1>3, OnlyCommitter, SMT DEF IndInv, Exclusion
<1>5. Buffers'
  BY <1>1, <1>3, OnlyCommitter, SMT DEF IndInv, Buffers
<1>6. \A q \in Procs : pc[q] \in Busy \/ pc'[q] \in Busy =>
         pc'[q] = pc[q] /\ tail'[q] = tail[q] /\ hold'[q] = hold[q]
  BY <1>1, SMT DEF Busy
<1>7. \A q \in Procs : pc'[q] = "finish" => head = lh
  BY <1>1 DEF IndInv, Lists, Progress
<1>8. Lists' /\ Contents' /\ Ages'
  BY <1>3, <1>6, <1>7, QuietStep
<1> QED
  BY <1>2, <1>4, <1>5, <1>8 DEF IndInv

-----------------------------------------------------------------------------
(* Power failure and recovery. *)

\* What recovery makes of a block: its slot if the header lists it, else its
\* home content.
LEMMA RecoveredContents ==
  ASSUME IndInv
  PROVE  /\ \A i \in 1..Len(head) : Recovered[head[i]] = slot[i]
         /\ \A b \in Blocks : b \notin Range(head) => Recovered[b] = home[b]
         /\ \A b \in Blocks : b \in Range(head) => \E i \in 1..Len(head) : head[i] = b
         /\ Recovered \in [Blocks -> Stamps]
         /\ \A b \in Blocks : Recovered[b] <= stamp
<1>1. /\ head \in Seq(Blocks) /\ Len(head) \in Nat
      /\ \A i \in 1..Len(head) : head[i] \in Blocks
  BY SMT DEF IndInv, TypeOK
<1>2. 1..Len(head) \subseteq 1..LOGSIZE
  BY <1>1, LogAssumption, SMT DEF IndInv, Lists, ListShape
<1>3. Range(head) = {head[i] : i \in 1..Len(head)}
  BY <1>1, RangeByIndex
<1>4. ASSUME NEW i \in 1..Len(head)
      PROVE  Recovered[head[i]] = slot[i]
  <2>1. \A j \in 1..Len(head) : head[j] = head[i] => j = i
    BY DEF IndInv, Lists, ListShape
  <2>2. (CHOOSE j \in 1..Len(head) : head[j] = head[i]) = i
    BY <2>1
  <2> QED
    BY <1>1, <2>2 DEF Recovered
<1>5. ASSUME NEW b \in Blocks, b \notin Range(head)
      PROVE  Recovered[b] = home[b]
  BY <1>3, <1>5 DEF Recovered
<1>6. \A b \in Blocks : b \in Range(head) => \E i \in 1..Len(head) : head[i] = b
  BY <1>3
<1>7. \A b \in Blocks : Recovered[b] \in Stamps /\ Recovered[b] <= stamp
  <2> SUFFICES ASSUME NEW b \in Blocks
               PROVE  Recovered[b] \in Stamps /\ Recovered[b] <= stamp
    OBVIOUS
  <2>1. CASE b \in Range(head)
    <3>1. PICK i \in 1..Len(head) : head[i] = b
      BY <1>6, <2>1
    <3> QED
      BY <1>2, <1>4, <3>1 DEF IndInv, TypeOK, Ages
  <2>2. CASE b \notin Range(head)
    BY <1>5, <2>2 DEF IndInv, TypeOK, Ages
  <2> QED
    BY <2>1, <2>2
<1>8. Recovered \in [Blocks -> Stamps]
  BY <1>7 DEF Recovered
<1> QED
  BY <1>4, <1>5, <1>6, <1>7, <1>8

\* A power failure at any moment.
LEMMA CrashStep ==
  ASSUME IndInv, Crash
  PROVE  IndInv'
<1> USE DEF Crash, disk
<1> TypeOK
  BY DEF IndInv
<1>1. TypeOK'
  <2>1. crashes' \in 0..MaxCrashes /\ mode' \in Modes /\ rtail' \in Nat
    BY LogAssumption, SMT DEF TypeOK, Modes
  <2>2. lh' \in Seq(Blocks) /\ dirty' \subseteq Blocks
    BY EmptySeq
  <2>3. pc' \in [Procs -> Labels] /\ tail' \in [Procs -> Nat]
        /\ hold' \in [Procs -> Blocks \cup {NoBlock}]
    BY DEF Labels
  <2> QED
    BY <2>1, <2>2, <2>3, RecoveredContents DEF TypeOK
<1>2. \A q \in Procs : pc'[q] = "idle" /\ hold'[q] = NoBlock
  OBVIOUS
<1>3. InTransaction' = {} /\ Committers' = {} /\ ~Up' /\ Held' = {}
  BY <1>2 DEF InTransaction, Committers, Up, Held
<1>4. Exclusion'
  BY <1>2, <1>3, FS_EmptySet DEF Exclusion
<1>5. Buffers'
  <2>1. Cardinality(dirty' \cup Held') = 0
    BY <1>3, FS_EmptySet
  <2> QED
    BY <1>2, <2>1, LogAssumption, SMT DEF Buffers
<1>6. ListShape'
  <2>1. Len(lh') = 0 /\ Range(lh') = {}
    BY RangeEmpty
  <2>2. Cardinality(Range(lh')) = Len(lh')
    BY <2>1, FS_EmptySet
  <2>3. Len(lh') <= LOGSIZE /\ 1..Len(lh') = {}
    BY <2>1, LogAssumption, SMT
  <2> QED
    BY <2>2, <2>3 DEF IndInv, Lists, ListShape
<1>7. Progress' /\ HeadIsPrefix' /\ DirtyIsListed' /\ Recovering'
  BY <1>2, <1>3 DEF Progress, HeadIsPrefix, DirtyIsListed, Recovering
<1>8. CleanIsHome' /\ HomeIsDurable'
  BY RecoveredContents DEF CleanIsHome, HomeIsDurable
<1>9. LogIsDurable'
  BY RecoveredContents DEF LogIsDurable
<1>10. Copied' /\ CacheIsAhead'
  BY <1>2, <1>3 DEF Copied, CacheIsAhead
<1>11. Ages'
  BY RecoveredContents DEF IndInv, Ages
<1> QED
  BY <1>1, <1>4, <1>5, <1>6, <1>7, <1>8, <1>9, <1>10, <1>11
  DEF IndInv, Lists, Contents

\* read_head() in recover_from_log().
LEMMA ReadHeadStep ==
  ASSUME IndInv, ReadHead
  PROVE  IndInv'
<1> USE DEF ReadHead, disk, cache, ops, locals
<1> TypeOK /\ ~Up /\ ~Up'
  BY DEF IndInv, Up
<1>1. TypeOK'
  BY DEF TypeOK, Modes
<1>2. InTransaction' = InTransaction /\ Committers' = Committers /\ Held' = Held
  BY DEF InTransaction, Committers, Held
<1>3. Exclusion' /\ Buffers'
  BY <1>2 DEF IndInv, Exclusion, Buffers
<1>4. \A q \in Procs : pc'[q] = "idle"
  BY DEF IndInv, Exclusion
<1>5. ListShape'
  BY LogAssumption, SMT DEF IndInv, Lists, ListShape, TypeOK
<1>6. Progress' /\ HeadIsPrefix' /\ DirtyIsListed' /\ CacheIsAhead'
  BY <1>4 DEF Progress, HeadIsPrefix, DirtyIsListed, CacheIsAhead
<1>7. rtail = 0 /\ rtail' = 0 /\ Len(head) >= 0
  BY SMT DEF IndInv, Lists, Recovering, TypeOK
<1>8. Recovering' /\ Copied'
  BY <1>4, <1>7, SMT DEF Recovering, Copied
<1>9. CleanIsHome' /\ HomeIsDurable' /\ LogIsDurable' /\ Ages'
  BY DEF IndInv, Contents, CleanIsHome, HomeIsDurable, LogIsDurable, Ages
<1> QED
  BY <1>1, <1>3, <1>5, <1>6, <1>8, <1>9 DEF IndInv, Lists, Contents

\* In recovery no process is in the log code: slots hold the committed contents
\* and cache and disk agree.
LEMMA RecoveryFacts ==
  ASSUME IndInv, mode = "install"
  PROVE  /\ ~Up /\ lh = head /\ dirty = {}
         /\ \A q \in Procs : pc[q] = "idle" /\ hold[q] = NoBlock
         /\ \A i \in 1..Len(head) : slot[i] = durable[head[i]]
         /\ \A b \in Blocks : buf[b] = home[b]
<1>1. ~Up
  BY DEF Up
<1>2. /\ dirty = {} /\ lh = head
      /\ \A q \in Procs : pc[q] = "idle" /\ hold[q] = NoBlock
  BY <1>1 DEF IndInv, Exclusion, Lists, Recovering
<1> QED
  BY <1>1, <1>2 DEF IndInv, Contents, LogIsDurable, CleanIsHome

\* One block installed by install_trans() in recover_from_log().
LEMMA RecoverInstallStep ==
  ASSUME IndInv, RecoverInstall
  PROVE  IndInv'
<1> DEFINE t == rtail + 1
           b == head[t]
<1> TypeOK /\ mode = "install"
  BY DEF IndInv, RecoverInstall
<1>0. /\ home' = [home EXCEPT ![b] = slot[t]] /\ buf' = [buf EXCEPT ![b] = slot[t]]
      /\ rtail' = t /\ rtail < Len(head)
      /\ UNCHANGED <<slot, head, dirty, lh, full, outstanding, committing, pc,
                     hold, tail, mode, crashes, stamp, durable>>
  BY RecoveryFacts DEF RecoverInstall, logv, ops, locals
<1>1. /\ t \in 1..Len(head) /\ b \in Blocks /\ rtail \in Nat /\ Len(head) \in Nat
      /\ t \in 1..LOGSIZE
  BY <1>0, LogAssumption, SMT DEF TypeOK, IndInv, Lists, ListShape
<1>2. slot[t] = durable[b] /\ slot[t] \in Stamps /\ slot[t] <= stamp
  BY <1>1, RecoveryFacts DEF TypeOK, IndInv, Ages
<1>3. /\ \A c \in Blocks : home'[c] = IF c = b THEN slot[t] ELSE home[c]
      /\ \A c \in Blocks : buf'[c] = IF c = b THEN slot[t] ELSE buf[c]
  BY <1>0 DEF TypeOK
<1>4. TypeOK'
  <2>1. home' \in [Blocks -> Stamps] /\ buf' \in [Blocks -> Stamps]
    BY <1>0, <1>2 DEF TypeOK
  <2> QED
    BY <1>0, <1>1, <2>1, SMT DEF TypeOK
<1>5. /\ InTransaction' = InTransaction /\ Committers' = Committers
      /\ Held' = Held /\ ~Up' /\ ~Up
  BY <1>0 DEF InTransaction, Committers, Held, Up
<1>6. Exclusion' /\ Buffers'
  BY <1>0, <1>5 DEF IndInv, Exclusion, Buffers
<1>7. ListShape' /\ Progress'
  BY <1>0 DEF IndInv, Lists, ListShape, Progress
<1>8. HeadIsPrefix' /\ DirtyIsListed' /\ CacheIsAhead'
  BY <1>5 DEF HeadIsPrefix, DirtyIsListed, CacheIsAhead
<1>9. Recovering'
  BY <1>0, <1>1, RecoveryFacts, SMT DEF Recovering
<1>10. CleanIsHome'
  BY <1>3, RecoveryFacts DEF CleanIsHome
<1>11. HomeIsDurable' /\ LogIsDurable'
  BY <1>0, <1>2, <1>3 DEF IndInv, Contents, HomeIsDurable, LogIsDurable
<1>12. Copied'
  <2>1. \A i \in 1..rtail : home[head[i]] = durable[head[i]] /\ head[i] \in Blocks
    BY <1>0, <1>1, SMT DEF IndInv, Contents, Copied, TypeOK
  <2>2. \A i \in 1..t : home'[head[i]] = durable[head[i]]
    BY <1>1, <1>2, <1>3, <2>1, SMT
  <2> QED
    BY <1>0, <2>2, RecoveryFacts DEF Copied
<1>13. Ages'
  BY <1>0, <1>2, <1>3, SMT DEF IndInv, Ages
<1> QED
  BY <1>4, <1>6, <1>7, <1>8, <1>9, <1>10, <1>11, <1>12, <1>13
  DEF IndInv, Lists, Contents

\* The end of recover_from_log(): the log is empty.
LEMMA RecoverClearStep ==
  ASSUME IndInv, RecoverClear
  PROVE  IndInv'
<1> USE DEF RecoverClear, cache, ops, locals
<1> TypeOK /\ Up'
  BY DEF IndInv, Up
<1>1. TypeOK'
  BY EmptySeq DEF TypeOK, Modes
<1>2. InTransaction' = InTransaction /\ Committers' = Committers /\ Held' = Held
  BY DEF InTransaction, Committers, Held
<1>3. Exclusion' /\ Buffers'
  BY <1>2 DEF IndInv, Exclusion, Buffers
<1>4. \A q \in Procs : pc'[q] = "idle"
  BY RecoveryFacts
<1>5. Len(lh') = 0 /\ Len(head') = 0 /\ Range(lh') = {} /\ Range(head') = {}
  BY RangeEmpty
<1>6. ListShape'
  <2>1. 1..Len(lh') = {} /\ 1..Len(head') = {} /\ LOGSIZE >= 0 /\ LOGSIZE > 0
    BY <1>5, LogAssumption, SMT
  <2> QED
    BY <1>5, <2>1, FS_EmptySet DEF ListShape
<1>7. Progress' /\ HeadIsPrefix' /\ DirtyIsListed' /\ Recovering'
  BY <1>4, <1>5, RecoveryFacts, SMT
  DEF Progress, HeadIsPrefix, DirtyIsListed, Recovering
<1>8. \A b \in Blocks : home[b] = durable[b] /\ buf[b] = durable[b]
  <2>1. \A i \in 1..Len(head) : home[head[i]] = durable[head[i]]
    <3>1. rtail = Len(head)
      BY RecoveryFacts, SMT DEF IndInv, Lists, Recovering, TypeOK
    <3> QED
      BY <3>1 DEF IndInv, Contents, Copied
  <2> QED
    BY <2>1, RecoveryFacts, RecoveredContents, SMT
    DEF IndInv, Contents, HomeIsDurable
<1>9. CleanIsHome' /\ HomeIsDurable'
  BY <1>8 DEF CleanIsHome, HomeIsDurable
<1>10. LogIsDurable' /\ Copied'
  BY <1>4, <1>5, SMT DEF LogIsDurable, Copied
<1>11. CacheIsAhead'
  BY <1>8, SMT DEF CacheIsAhead, TypeOK, Stamps
<1>12. Ages'
  BY DEF IndInv, Ages
<1> QED
  BY <1>1, <1>3, <1>6, <1>7, <1>9, <1>10, <1>11, <1>12 DEF IndInv, Lists, Contents

-----------------------------------------------------------------------------
(* The invariant and what follows from it. *)

\* mkfs leaves an empty log and the machine comes up in recover_from_log().
LEMMA InitInv == Init => IndInv
<1> SUFFICES ASSUME Init PROVE IndInv
  OBVIOUS
<1> USE DEF Init
<1>1. TypeOK
  <2>1. /\ 0 \in Stamps /\ 0 \in 0..MaxCrashes /\ mode \in Modes
        /\ "idle" \in Labels
    BY LogAssumption, SMT DEF Stamps, Modes, Labels
  <2>2. /\ home \in [Blocks -> Stamps] /\ slot \in [1..LOGSIZE -> Stamps]
        /\ buf = home /\ durable = home
    BY <2>1
  <2>3. pc \in [Procs -> Labels] /\ tail \in [Procs -> Nat]
        /\ hold \in [Procs -> Blocks \cup {NoBlock}]
    BY <2>1
  <2>4. head \in Seq(Blocks) /\ lh \in Seq(Blocks)
    BY EmptySeq
  <2> QED
    BY <2>1, <2>2, <2>3, <2>4 DEF TypeOK
<1>2. InTransaction = {} /\ Committers = {} /\ ~Up /\ Held = {}
  BY DEF InTransaction, Committers, Up, Held
<1>3. Exclusion /\ Buffers
  <2>1. Cardinality({}) = 0 /\ dirty \cup Held = {}
    BY <1>2, FS_EmptySet
  <2> QED
    BY <1>2, <2>1, LogAssumption, SMT DEF Exclusion, Buffers
<1>4. Len(lh) = 0 /\ Len(head) = 0 /\ Range(lh) = {} /\ Range(head) = {}
  BY RangeEmpty
<1>5. ListShape
  <2>1. 1..Len(lh) = {} /\ 1..Len(head) = {} /\ LOGSIZE >= 0 /\ LOGSIZE > 0
    BY <1>4, LogAssumption, SMT
  <2> QED
    BY <1>4, <2>1, FS_EmptySet DEF ListShape
<1>6. Progress /\ HeadIsPrefix /\ DirtyIsListed /\ Recovering
  BY <1>2 DEF Progress, HeadIsPrefix, DirtyIsListed, Recovering
<1>7. Contents /\ Ages
  BY <1>2, <1>4, SMT DEF Contents, CleanIsHome, HomeIsDurable, LogIsDurable, Copied,
                    CacheIsAhead, Ages
<1> QED
  BY <1>1, <1>3, <1>5, <1>6, <1>7 DEF IndInv, Lists

\* Every step of the log preserves the invariant.
LEMMA NextInv ==
  ASSUME Syncers = {}
  PROVE  IndInv /\ [Next]_vars => IndInv'
<1> SUFFICES ASSUME IndInv, [Next]_vars PROVE IndInv'
  OBVIOUS
<1>1. ASSUME NEW p \in Procs, mode = "run", ProcNext(p) PROVE IndInv'
  <2>1. ~SysSync(p)
    BY DEF SysSync
  <2> QED
    BY <1>1, <2>1, BeginOpStep, BreadStep, BrelseStep, LogWriteCheckStep,
       LogWriteStep, EndOpStep, WriteLogStep, WriteLogDoneStep, WriteHeadStep,
       EndOpSyncStep, InstallStep, ClearLogStep, EraseHeadStep, FinishStep
    DEF ProcNext, InOp, FinishOp
<1>2. CASE Recovery
  BY <1>2, ReadHeadStep, RecoverInstallStep, RecoverClearStep DEF Recovery
<1>3. CASE Crash
  BY <1>3, CrashStep
<1>4. CASE UNCHANGED vars
  <2> USE <1>4 DEF vars, disk, cache, logv, ops, locals, boot
  <2>1. InTransaction' = InTransaction /\ Committers' = Committers /\ Held' = Held
        /\ (Up' <=> Up)
    BY DEF InTransaction, Committers, Held, Up
  <2>2. TypeOK' /\ Exclusion' /\ Buffers' /\ Ages'
    BY <2>1 DEF IndInv, TypeOK, Exclusion, Buffers, Ages
  <2>3. Lists'
    BY <2>1, SMT DEF IndInv, Lists, ListShape, Progress, HeadIsPrefix, DirtyIsListed,
                Recovering
  <2>4. Contents'
    BY <2>1 DEF IndInv, Contents, CleanIsHome, HomeIsDurable, LogIsDurable,
                Copied, CacheIsAhead
  <2> QED
    BY <2>2, <2>3, <2>4 DEF IndInv
<1> QED
  BY <1>1, <1>2, <1>3, <1>4 DEF Next

\* IndInv is an invariant of the log.
THEOREM Invariance ==
  ASSUME Syncers = {}
  PROVE  Spec => []IndInv
BY InitInv, NextInv, PTL DEF Spec

\* Every variable of the log code stays within its type: no index leaves the
\* log, so no read or write of a slot falls outside the disk's log region.
THEOREM TypeCorrect ==
  ASSUME Syncers = {}
  PROVE  Spec => []TypeOK
<1>1. IndInv => TypeOK
  BY DEF IndInv
<1> QED
  BY <1>1, Invariance, PTL

\* end_op() commits only when no file system call is active, one at a time.
THEOREM CommitExcludesOpsHolds ==
  ASSUME Syncers = {}
  PROVE  Spec => []CommitExcludesOps
<1>1. IndInv => CommitExcludesOps
  <2> SUFFICES ASSUME IndInv PROVE CommitExcludesOps
    OBVIOUS
  <2>1. Cardinality(Committers) = IF committing THEN 1 ELSE 0
    <3>1. CASE committing
      <4>1. PICK p \in Committers : TRUE
        BY <3>1 DEF IndInv, Exclusion
      <4>2. Committers = {p}
        BY <4>1 DEF IndInv, Exclusion
      <4> QED
        BY <3>1, <4>2, FS_Singleton
    <3>2. CASE ~committing
      BY <3>2, FS_EmptySet DEF IndInv, Exclusion
    <3> QED
      BY <3>1, <3>2
  <2>2. committing => outstanding = 0
    BY FS_EmptySet DEF IndInv, Exclusion
  <2> QED
    BY <2>1, <2>2 DEF IndInv, Exclusion, CommitExcludesOps
<1> QED
  BY <1>1, Invariance, PTL

\* The log never overflows, although begin_op() reserves no space in it and
\* log_write() tests its length without the lock.
THEOREM LogFitsHolds ==
  ASSUME Syncers = {}
  PROVE  Spec => []LogFits
<1>1. IndInv => LogFits
  <2> SUFFICES ASSUME IndInv PROVE LogFits
    OBVIOUS
  <2>1. ASSUME NEW p \in Procs, pc[p] \in {"wlog", "whead", "install"}
        PROVE  tail[p] < LOGSIZE /\ tail[p] \in Nat
    <3>1. /\ tail[p] \in Nat /\ Len(lh) \in Nat /\ Len(head) < LOGSIZE
          /\ pc[p] = "install" => head = lh /\ tail[p] <= Len(lh)
          /\ pc[p] # "install" => tail[p] < LOGSIZE
      BY <2>1, SMT DEF IndInv, TypeOK, Lists, Progress, ListShape
    <3> QED
      BY <3>1, LogAssumption, SMT
  <2> QED
    BY <2>1, LogAssumption, SMT DEF LogFits, IndInv, Lists, ListShape
<1> QED
  BY <1>1, Invariance, PTL

\* What a crash would leave of a block: its last committed content, or, for a
\* block in the committed log that write_log() is rewriting, a later one.
LEMMA RecoveredVsDurable ==
  ASSUME IndInv, NEW b \in Blocks
  PROVE  \/ Recovered[b] = durable[b]
         \/ /\ Recovered[b] >= durable[b]
            /\ b \in Range(head)
            /\ \E p \in Procs : pc[p] \in {"wlog", "whead"}
<1>1. CASE b \notin Range(head)
  BY <1>1, RecoveredContents DEF IndInv, Contents, HomeIsDurable
<1>2. CASE b \in Range(head)
  <2>1. PICK i \in 1..Len(head) : head[i] = b
    BY <1>2, RecoveredContents
  <2>2. Recovered[b] = slot[i]
    BY <2>1, RecoveredContents
  <2>3. CASE slot[i] = durable[head[i]]
    BY <2>1, <2>2, <2>3
  <2>4. CASE \E p \in Procs : pc[p] \in {"wlog", "whead"} /\ i <= tail[p]
    <3>1. PICK p \in Procs : pc[p] \in {"wlog", "whead"} /\ i <= tail[p]
      BY <2>4
    <3>2. i \in 1..tail[p]
      BY <2>1, <3>1, SMT DEF IndInv, TypeOK
    <3>3. Up /\ head[i] = lh[i]
      BY <2>1, <3>1, OnlyCommitter DEF IndInv, Lists, HeadIsPrefix
    <3>4. slot[i] = buf[b]
      BY <2>1, <3>1, <3>2, <3>3 DEF IndInv, Contents, Copied
    <3>5. durable[b] <= buf[b] /\ durable[b] \in Int /\ buf[b] \in Int
      BY <3>3, SMT DEF IndInv, Contents, CacheIsAhead, TypeOK, Stamps
    <3> QED
      BY <1>2, <2>2, <3>1, <3>4, <3>5
  <2> QED
    BY <2>3, <2>4 DEF IndInv, Contents, LogIsDurable
<1> QED
  BY <1>1, <1>2

\* A committed write survives a crash at any point of commit(), sync() and
\* recover_from_log(), and of later crashes during recovery.
THEOREM NoCommittedWriteLostHolds ==
  ASSUME Syncers = {}
  PROVE  Spec => []NoCommittedWriteLost
<1>1. IndInv => NoCommittedWriteLost
  <2> SUFFICES ASSUME IndInv, NEW b \in Blocks
               PROVE  Recovered[b] >= durable[b]
    BY DEF NoCommittedWriteLost
  <2>1. durable[b] \in Int
    BY SMT DEF IndInv, TypeOK, Stamps
  <2> QED
    BY <2>1, RecoveredVsDurable, SMT
<1> QED
  BY <1>1, Invariance, PTL

\* Uncommitted content can survive a crash only in a block of the committed log,
\* and only while write_log() rewrites that log in place.
THEOREM TornOnlyByAbsorptionHolds ==
  ASSUME Syncers = {}
  PROVE  Spec => []TornOnlyByAbsorption
<1>1. IndInv => TornOnlyByAbsorption
  BY RecoveredVsDurable DEF TornOnlyByAbsorption
<1> QED
  BY <1>1, Invariance, PTL

\* A buffer that bget() may recycle holds what the disk holds.
THEOREM CleanBuffersMatchDiskHolds ==
  ASSUME Syncers = {}
  PROVE  Spec => []CleanBuffersMatchDisk
<1>1. IndInv => CleanBuffersMatchDisk
  BY LogAssumption
  DEF IndInv, Contents, CleanIsHome, CleanBuffersMatchDisk, Held
<1> QED
  BY <1>1, Invariance, PTL

\* What install_trans() in sync() writes is the committed content, which the
\* cache still holds.
LEMMA InstallsDurable ==
  ASSUME IndInv, NEW p \in Procs, Install(p)
  PROVE  /\ \A b \in Blocks : home'[b] # home[b] => home'[b] = durable[b]
         /\ buf' = buf
<1> TypeOK /\ pc[p] = "install" /\ tail[p] < Len(lh)
  BY DEF IndInv, Install, Exclusion
<1> DEFINE t == tail[p] + 1
<1>1. CASE ~CanGetLogBlock({lh[t]})
  BY <1>1 DEF Install, Panic, disk, cache
<1>2. CASE CanGetLogBlock({lh[t]})
  <2>1. /\ home' = [home EXCEPT ![lh[t]] = slot[t]]
        /\ buf' = [buf EXCEPT ![lh[t]] = slot[t]]
    BY <1>2 DEF Install
  <2>2. t \in 1..Len(lh) /\ lh[t] \in Blocks /\ head = lh
    BY SMT DEF TypeOK, IndInv, Lists, Progress
  <2>3. slot[t] = durable[lh[t]]
    BY <2>2, OnlyCommitter DEF IndInv, Contents, LogIsDurable
  <2>4. buf = durable
    BY DEF IndInv, Contents, Copied
  <2> QED
    BY <2>1, <2>2, <2>3, <2>4 DEF TypeOK
<1> QED
  BY <1>1, <1>2

\* Only the two install_trans() loops write home blocks.
LEMMA HomeSteps ==
  ASSUME NEW p \in Procs, ProcNext(p), ~Install(p)
  PROVE  home' = home
BY DEF ProcNext, InOp, FinishOp, BeginOp, Bread, Brelse, LogWriteCheck, LogWrite,
       EndOp, WriteLog, WriteLogDone, WriteHead, EndOpSync, SysSync, ClearLog,
       EraseHead, Finish, Panic, disk

\* install_trans() copies "committed blocks from log to their home location":
\* in sync() and in recovery a home block receives its committed content only.
THEOREM InstallsOnlyCommittedHolds ==
  ASSUME Syncers = {}
  PROVE  Spec => InstallsOnlyCommitted
<1> DEFINE A == \A b \in Blocks : home'[b] # home[b] => home'[b] = durable[b]
<1>1. IndInv /\ [Next]_vars => [A]_vars
  <2> SUFFICES ASSUME IndInv, Next PROVE A
    OBVIOUS
  <2>1. CASE \E p \in Procs : ProcNext(p)
    BY <2>1, HomeSteps, InstallsDurable
  <2>2. CASE ReadHead \/ RecoverClear \/ Crash
    BY <2>2 DEF ReadHead, RecoverClear, Crash, disk
  <2>3. CASE RecoverInstall
    <3>1. lh = head /\ rtail + 1 \in 1..Len(head)
      BY <2>3, RecoveryFacts, SMT DEF RecoverInstall, IndInv, TypeOK
    <3> QED
      BY <2>3, <3>1, RecoveryFacts DEF RecoverInstall, IndInv, TypeOK
  <2> QED
    BY <2>1, <2>2, <2>3 DEF Next, Recovery
<1> QED
  BY <1>1, Invariance, PTL DEF Spec, InstallsOnlyCommitted

\* Only modifications and installs change the cache while the machine is up.
LEMMA CacheSteps ==
  ASSUME NEW p \in Procs, ProcNext(p), ~Install(p), ~LogWriteCheck(p)
  PROVE  buf' = buf
BY DEF ProcNext, InOp, FinishOp, BeginOp, Bread, Brelse, LogWrite, EndOp,
       WriteLog, WriteLogDone, WriteHead, EndOpSync, SysSync, ClearLog,
       EraseHead, Finish, Panic, cache

\* A reader of the cache never sees a block go back to an older content.
THEOREM CacheNeverRegressesHolds ==
  ASSUME Syncers = {}
  PROVE  Spec => CacheNeverRegresses
<1> DEFINE A == mode = "run" /\ mode' = "run" => \A b \in Blocks : buf'[b] >= buf[b]
<1>1. IndInv /\ [Next]_vars => [A]_vars
  <2> SUFFICES ASSUME IndInv, Next, mode = "run", mode' = "run", NEW b \in Blocks
               PROVE  buf'[b] >= buf[b]
    OBVIOUS
  <2>1. buf[b] \in Int /\ buf[b] <= stamp /\ stamp \in Int /\ buf \in [Blocks -> Stamps]
    BY SMT DEF IndInv, TypeOK, Ages, Stamps
  <2>2. ~Recovery /\ ~Crash
    BY DEF Recovery, ReadHead, RecoverInstall, RecoverClear, Crash
  <2>3. PICK p \in Procs : ProcNext(p)
    BY <2>2 DEF Next
  <2>4. CASE LogWriteCheck(p)
    <3>1. buf' = buf \/ buf' = [buf EXCEPT ![hold[p]] = stamp + 1]
      BY <2>4 DEF LogWriteCheck, Panic, cache
    <3>2. buf'[b] = buf[b] \/ buf'[b] = stamp + 1
      BY <2>1, <3>1
    <3> QED
      BY <2>1, <3>2, SMT
  <2>5. CASE ~LogWriteCheck(p)
    <3>1. buf' = buf
      BY <2>3, <2>5, CacheSteps, InstallsDurable
    <3> QED
      BY <2>1, <3>1, SMT
  <2> QED
    BY <2>4, <2>5
<1> QED
  BY <1>1, Invariance, PTL DEF Spec, CacheNeverRegresses

-----------------------------------------------------------------------------
(* The log implements TornSpec of CrashDisk: every step of begin_op(),
   log_write(), end_op(), commit(), sync() and recovery is a step of the
   abstract disk or leaves it alone. *)

\* What file system calls read, the first substitution of Abs.
Mem == IF mode \in {"run", "panic"} THEN buf ELSE Recovered

\* Recovered as a function of the three parts of the disk.
Rec(h, s, o) ==
  [b \in Blocks |-> IF \E i \in 1..Len(h) : h[i] = b
                      THEN s[CHOOSE i \in 1..Len(h) : h[i] = b]
                      ELSE o[b]]

Stutter == UNCHANGED <<Mem, Recovered, Range(head)>>

-----------------------------------------------------------------------------
(* What recovery makes of a disk. *)

\* A block of a list without repetitions comes from its slot, any other from
\* its home location.
LEMMA RecAt ==
  ASSUME NEW h, NEW s, NEW o, NEW b \in Blocks,
         \A i, j \in 1..Len(h) : h[i] = h[j] => i = j
  PROVE  /\ \A i \in 1..Len(h) : h[i] = b => Rec(h, s, o)[b] = s[i]
         /\ (\A i \in 1..Len(h) : h[i] # b) => Rec(h, s, o)[b] = o[b]
<1>1. Rec(h, s, o)[b] = IF \E i \in 1..Len(h) : h[i] = b
                          THEN s[CHOOSE i \in 1..Len(h) : h[i] = b]
                          ELSE o[b]
  BY DEF Rec
<1>2. ASSUME NEW i \in 1..Len(h), h[i] = b PROVE Rec(h, s, o)[b] = s[i]
  <2>1. (CHOOSE j \in 1..Len(h) : h[j] = b) = i
    BY <1>2
  <2> QED
    BY <1>1, <1>2, <2>1
<1> QED
  BY <1>1, <1>2

\* Two disks that recover alike block by block recover alike.
LEMMA RecEqual ==
  ASSUME NEW h, NEW s, NEW o, NEW h2, NEW s2, NEW o2,
         \A b \in Blocks : Rec(h, s, o)[b] = Rec(h2, s2, o2)[b]
  PROVE  Rec(h, s, o) = Rec(h2, s2, o2)
<1>1. /\ Rec(h, s, o) = [b \in Blocks |-> Rec(h, s, o)[b]]
      /\ Rec(h2, s2, o2) = [b \in Blocks |-> Rec(h2, s2, o2)[b]]
  BY DEF Rec
<1> QED
  BY <1>1

\* The same with a content of all blocks.
LEMMA RecIs ==
  ASSUME NEW h, NEW s, NEW o, NEW V, NEW f \in [Blocks -> V],
         \A b \in Blocks : Rec(h, s, o)[b] = f[b]
  PROVE  Rec(h, s, o) = f
<1>1. /\ Rec(h, s, o) = [b \in Blocks |-> Rec(h, s, o)[b]]
      /\ f = [b \in Blocks |-> f[b]]
  BY DEF Rec
<1> QED
  BY <1>1

\* Recovered before and after a step.
LEMMA RecoveredIsRec == /\ Recovered = Rec(head, slot, home)
                        /\ Recovered' = Rec(head', slot', home')
BY DEF Recovered, Rec

\* The lists of the log in memory and on disk.
LEMMA ListFacts ==
  ASSUME IndInv
  PROVE  /\ head \in Seq(Blocks) /\ Len(head) \in Nat
         /\ lh \in Seq(Blocks) /\ Len(lh) \in Nat
         /\ \A i \in 1..Len(head) : head[i] \in Blocks
         /\ \A i \in 1..Len(lh) : lh[i] \in Blocks
         /\ \A i, j \in 1..Len(head) : head[i] = head[j] => i = j
         /\ \A i, j \in 1..Len(lh) : lh[i] = lh[j] => i = j
         /\ Range(head) = {head[i] : i \in 1..Len(head)}
         /\ Range(lh) = {lh[i] : i \in 1..Len(lh)}
<1>1. head \in Seq(Blocks) /\ lh \in Seq(Blocks)
  BY DEF IndInv, TypeOK
<1>2. /\ \A i, j \in 1..Len(head) : head[i] = head[j] => i = j
      /\ \A i, j \in 1..Len(lh) : lh[i] = lh[j] => i = j
  BY DEF IndInv, Lists, ListShape
<1> QED
  BY <1>1, <1>2, RangeByIndex, SMT

\* Blocks of the list on disk may change at home: recovery installs them.
LEMMA HomeOfListed ==
  ASSUME IndInv, head' = head, slot' = slot,
         \A b \in Blocks : b \notin Range(head) => home'[b] = home[b]
  PROVE  Recovered' = Recovered
<1>1. ASSUME NEW b \in Blocks
      PROVE  Rec(head, slot, home')[b] = Rec(head, slot, home)[b]
  <2>1. CASE \E i \in 1..Len(head) : head[i] = b
    BY <2>1, RecAt, ListFacts, SMT
  <2>2. CASE \A i \in 1..Len(head) : head[i] # b
    BY <2>2, RecAt, ListFacts, SMT
  <2> QED
    BY <2>1, <2>2
<1>2. Rec(head, slot, home') = Rec(head, slot, home)
  BY <1>1, RecEqual, SMT
<1> QED
  BY <1>2, RecoveredIsRec

-----------------------------------------------------------------------------
(* One lemma per kind of step. *)

\* Steps that touch neither the disk nor the contents of the cache.
LEMMA QuietSteps ==
  ASSUME IndInv, mode = "run", mode' \in {"run", "panic"},
         UNCHANGED <<home, slot, head, buf>>
  PROVE  Stutter
BY DEF Stutter, Mem, Recovered

\* log_write() modifies a block.
LEMMA LogWriteWrites ==
  ASSUME IndInv, mode = "run", NEW p \in Procs, LogWriteCheck(p)
  PROVE  Abs!TornNext \/ Stutter
<1>1. CASE Len(lh) >= LOGSIZE \/ outstanding < 1
  BY <1>1, QuietSteps DEF LogWriteCheck, Panic, disk, cache
<1>2. CASE ~(Len(lh) >= LOGSIZE \/ outstanding < 1)
  <2>1. /\ hold[p] \in Blocks /\ stamp + 1 \in Stamps
        /\ buf' = [buf EXCEPT ![hold[p]] = stamp + 1]
        /\ UNCHANGED <<home, slot, head, mode>>
    BY <1>2, LogAssumption, SMT
    DEF LogWriteCheck, IndInv, TypeOK, Stamps, disk, boot
  <2>2. Recovered' = Recovered /\ Range(head)' = Range(head)
    BY <2>1 DEF Recovered
  <2>3. Abs!Write(hold[p])
    BY <2>1, <2>2 DEF Abs!Write
  <2> QED
    BY <2>1, <2>3 DEF Abs!TornNext, Abs!AtomicNext
<1> QED
  BY <1>1, <1>2

\* write_log() makes a block that is in the committed log durable early, and
\* none that is not.
LEMMA WriteLogTears ==
  ASSUME IndInv, mode = "run", NEW p \in Procs, WriteLog(p)
  PROVE  Abs!TornNext \/ Stutter
<1> DEFINE t == tail[p] + 1
<1>1. CASE ~CanGetLogBlock({lh[t]})
  BY <1>1, QuietSteps DEF WriteLog, Panic, disk, cache
<1>2. CASE CanGetLogBlock({lh[t]})
  <2>1. /\ pc[p] = "wlog" /\ t \in 1..Len(lh) /\ t \in 1..LOGSIZE
        /\ slot \in [1..LOGSIZE -> Stamps]
        /\ slot' = [slot EXCEPT ![t] = buf[lh[t]]]
        /\ UNCHANGED <<home, head, buf, mode>>
    <3>1. /\ pc[p] = "wlog" /\ tail[p] \in Nat /\ Len(lh) \in Nat /\ tail[p] < Len(lh)
          /\ Len(lh) <= LOGSIZE /\ LOGSIZE \in Nat
      BY LogAssumption, ListFacts DEF WriteLog, IndInv, TypeOK, Lists, ListShape
    <3> QED
      BY <1>2, <3>1, SMT DEF WriteLog, IndInv, TypeOK, cache, boot
  <2> HIDE DEF t
  <2>2. \A i \in 1..LOGSIZE : slot'[i] = IF i = t THEN buf[lh[t]] ELSE slot[i]
    BY <2>1
  <2>3. \A i \in 1..Len(head) : i \in 1..LOGSIZE /\ head[i] = lh[i]
    <3>1. pc[p] # "erase" /\ Up /\ \A q \in Procs : pc[q] # "erase"
      BY <2>1, OnlyCommitter
    <3>2. Len(head) <= Len(lh) /\ \A i \in 1..Len(head) : head[i] = lh[i]
      BY <3>1 DEF IndInv, Lists, HeadIsPrefix
    <3>3. Len(lh) <= LOGSIZE
      BY DEF IndInv, Lists, ListShape
    <3> QED
      BY <3>2, <3>3, ListFacts, LogAssumption, SMT
  <2>4. CASE t \in 1..Len(head)
    <3>1. head[t] = lh[t] /\ head[t] \in Blocks /\ head[t] \in Range(head)
      BY <2>3, <2>4, ListFacts
    <3>2. ASSUME NEW b \in Blocks
          PROVE  Rec(head, slot', home)[b] =
                   IF b = head[t] THEN buf[b] ELSE Rec(head, slot, home)[b]
      <4>1. CASE \E i \in 1..Len(head) : head[i] = b
        <5>1. PICK i \in 1..Len(head) : head[i] = b
          BY <4>1
        <5>2. /\ Rec(head, slot', home)[b] = slot'[i]
              /\ Rec(head, slot, home)[b] = slot[i]
          BY <5>1, RecAt, ListFacts, SMT
        <5>3. b = head[t] <=> i = t
          BY <2>4, <5>1, ListFacts
        <5> QED
          BY <2>2, <2>3, <3>1, <5>1, <5>2, <5>3
      <4>2. CASE \A i \in 1..Len(head) : head[i] # b
        BY <2>4, <4>2, RecAt, ListFacts, SMT
      <4> QED
        BY <4>1, <4>2
    <3>3. Recovered' = [Recovered EXCEPT ![head[t]] = buf[head[t]]]
      <4>1. Recovered = Rec(head, slot, home) /\ Recovered' = Rec(head, slot', home)
        BY <2>1, RecoveredIsRec
      <4>2. /\ Rec(head, slot', home) = [b \in Blocks |-> Rec(head, slot', home)[b]]
            /\ DOMAIN Rec(head, slot, home) = Blocks
        BY DEF Rec
      <4>3. Rec(head, slot', home) =
              [Rec(head, slot, home) EXCEPT ![head[t]] = buf[head[t]]]
        BY <3>1, <3>2, <4>2
      <4> QED
        BY <4>1, <4>3
    <3>4. Range(head)' = Range(head)
      BY <2>1
    <3>5. Abs!Early(head[t])
      BY <2>1, <3>1, <3>3, <3>4 DEF Abs!Early
    <3> QED
      BY <3>1, <3>5 DEF Abs!TornNext
  <2>5. CASE t \notin 1..Len(head)
    <3>1. ASSUME NEW b \in Blocks
          PROVE  Rec(head, slot', home)[b] = Rec(head, slot, home)[b]
      <4>1. CASE \E i \in 1..Len(head) : head[i] = b
        <5>1. PICK i \in 1..Len(head) : head[i] = b
          BY <4>1
        <5>2. /\ Rec(head, slot', home)[b] = slot'[i]
              /\ Rec(head, slot, home)[b] = slot[i]
          BY <5>1, RecAt, ListFacts, SMT
        <5> QED
          BY <2>2, <2>3, <2>5, <5>2
      <4>2. CASE \A i \in 1..Len(head) : head[i] # b
        BY <4>2, RecAt, ListFacts, SMT
      <4> QED
        BY <4>1, <4>2
    <3>2. Rec(head, slot', home) = Rec(head, slot, home)
      BY <3>1, RecEqual, SMT
    <3> QED
      BY <2>1, <3>2, RecoveredIsRec DEF Stutter, Mem
  <2> QED
    BY <2>4, <2>5
<1> QED
  BY <1>1, <1>2

\* write_head() in commit() is the commit: recovery would bring back the cache.
LEMMA WriteHeadCommits ==
  ASSUME IndInv, mode = "run", NEW p \in Procs, WriteHead(p)
  PROVE  Abs!TornNext \/ Stutter
<1>1. CASE ~CanGetLogBlock({})
  BY <1>1, QuietSteps DEF WriteHead, Panic, disk, cache
<1>2. CASE CanGetLogBlock({})
  <2>1. pc[p] = "whead" /\ head' = lh /\ UNCHANGED <<home, slot, buf, mode>>
    BY <1>2 DEF WriteHead, cache, boot
  <2>2. /\ Up /\ \A q \in Procs : pc[q] \notin {"append", "erase", "install"}
    BY <2>1, OnlyCommitter
  <2>3. \A i \in 1..Len(lh) : slot[i] = buf[lh[i]]
    <3>1. tail[p] = Len(lh)
      BY <2>1 DEF IndInv, Lists, Progress
    <3> QED
      BY <2>1, <3>1 DEF IndInv, Contents, Copied
  <2>4. \A b \in Blocks : b \notin Range(lh) => home[b] = buf[b]
    BY <2>2 DEF IndInv, Lists, DirtyIsListed, Contents, CleanIsHome
  <2>5. ASSUME NEW b \in Blocks PROVE Rec(lh, slot, home)[b] = buf[b]
    <3>1. CASE \E i \in 1..Len(lh) : lh[i] = b
      BY <2>3, <3>1, RecAt, ListFacts, SMT
    <3>2. CASE \A i \in 1..Len(lh) : lh[i] # b
      BY <2>4, <3>2, RecAt, ListFacts, SMT
    <3> QED
      BY <3>1, <3>2
  <2>6. Recovered' = buf
    <3>1. buf \in [Blocks -> Stamps]
      BY DEF IndInv, TypeOK
    <3>2. Rec(lh, slot, home) = buf
      BY <2>5, <3>1, RecIs, SMT
    <3> QED
      BY <2>1, <3>2, RecoveredIsRec
  <2>7. Range(head) \subseteq Range(lh) /\ Range(lh) \subseteq Blocks
    <3>1. Len(head) <= Len(lh) /\ \A i \in 1..Len(head) : head[i] = lh[i]
      BY <2>2 DEF IndInv, Lists, HeadIsPrefix
    <3>2. \A i \in 1..Len(head) : i \in 1..Len(lh)
      BY <3>1, ListFacts, SMT
    <3> QED
      BY <3>1, <3>2, ListFacts, SMT
  <2>8. Abs!Commit
    BY <2>1, <2>6, <2>7 DEF Abs!Commit
  <2> QED
    BY <2>8 DEF Abs!TornNext, Abs!AtomicNext
<1> QED
  BY <1>1, <1>2

\* install_trans() in sync() writes home blocks that the log covers.
LEMMA InstallStutters ==
  ASSUME IndInv, mode = "run", NEW p \in Procs, Install(p)
  PROVE  Stutter
<1> DEFINE t == tail[p] + 1
<1>1. buf' = buf
  BY InstallsDurable
<1>2. CASE ~CanGetLogBlock({lh[t]})
  BY <1>2, QuietSteps DEF Install, Panic, disk, cache
<1>3. CASE CanGetLogBlock({lh[t]})
  <2>1. /\ home' = [home EXCEPT ![lh[t]] = slot[t]]
        /\ UNCHANGED <<slot, head, mode>>
    BY <1>3 DEF Install, boot
  <2>2. pc[p] = "install" /\ head = lh /\ lh[t] \in Range(head)
    <3>1. pc[p] = "install" /\ tail[p] \in Nat /\ tail[p] < Len(lh)
      BY DEF Install, IndInv, TypeOK, Exclusion
    <3>2. head = lh /\ t \in 1..Len(lh)
      BY <3>1, ListFacts, SMT DEF IndInv, Lists, Progress
    <3> QED
      BY <3>1, <3>2, ListFacts
  <2> HIDE DEF t
  <2>3. \A b \in Blocks : b \notin Range(head) => home'[b] = home[b]
    BY <2>1, <2>2 DEF IndInv, TypeOK
  <2>4. Recovered' = Recovered
    BY <2>1, <2>3, HomeOfListed
  <2> QED
    BY <1>1, <2>1, <2>4 DEF Stutter, Mem
<1> QED
  BY <1>2, <1>3

\* Erasing the header is a checkpoint if all of the log is installed.
LEMMA Erasing ==
  ASSUME IndInv, head' = <<>>, UNCHANGED <<slot, home>>, Mem' = Mem,
         home = durable, \A q \in Procs : pc[q] \notin {"wlog", "whead"}
  PROVE  Abs!TornNext
<1>1. Recovered' = home
  <2>1. ASSUME NEW b \in Blocks PROVE Rec(<<>>, slot, home)[b] = home[b]
    BY RecAt, SMT
  <2>2. home \in [Blocks -> Stamps]
    BY DEF IndInv, TypeOK
  <2>3. Rec(<<>>, slot, home) = home
    BY <2>1, <2>2, RecIs, SMT
  <2> QED
    BY <2>3, RecoveredIsRec
<1>2. Recovered = home
  <2>1. \A b \in Blocks : Rec(head, slot, home)[b] = home[b]
    BY RecoveredVsDurable, RecoveredIsRec
  <2>2. home \in [Blocks -> Stamps]
    BY DEF IndInv, TypeOK
  <2> QED
    BY <2>1, <2>2, RecIs, RecoveredIsRec, SMT
<1>3. Range(head)' = {}
  BY RangeEmpty
<1>4. Abs!Checkpoint
  BY <1>1, <1>2, <1>3 DEF Abs!Checkpoint, Mem
<1> QED
  BY <1>4 DEF Abs!TornNext, Abs!AtomicNext

\* write_head() in sync() empties the log.
LEMMA EraseHeadEmpties ==
  ASSUME IndInv, mode = "run", NEW p \in Procs, EraseHead(p)
  PROVE  Abs!TornNext \/ Stutter
<1>1. CASE ~CanGetLogBlock({})
  BY <1>1, QuietSteps DEF EraseHead, Panic, disk, cache
<1>2. CASE CanGetLogBlock({})
  <2>1. pc[p] = "erase" /\ head' = lh /\ UNCHANGED <<home, slot, buf, mode>>
    BY <1>2 DEF EraseHead, cache, boot, IndInv, Exclusion
  <2>2. lh = <<>> /\ home = durable
    BY <2>1 DEF IndInv, Lists, Progress, Contents, Copied
  <2>3. \A q \in Procs : pc[q] \notin {"wlog", "whead"}
    BY <2>1, OnlyCommitter
  <2>4. Mem' = Mem
    BY <2>1 DEF Mem
  <2> QED
    BY <2>1, <2>2, <2>3, <2>4, Erasing
<1> QED
  BY <1>1, <1>2

\* Every step of a process.
LEMMA ProcSteps ==
  ASSUME IndInv, mode = "run", NEW p \in Procs, ProcNext(p)
  PROVE  Abs!TornNext \/ Stutter
<1>1. CASE LogWriteCheck(p)
  BY <1>1, LogWriteWrites
<1>2. CASE WriteLog(p)
  BY <1>2, WriteLogTears
<1>3. CASE WriteHead(p)
  BY <1>3, WriteHeadCommits
<1>4. CASE Install(p)
  BY <1>4, InstallStutters
<1>5. CASE EraseHead(p)
  BY <1>5, EraseHeadEmpties
<1>6. CASE \/ BeginOp(p) \/ Brelse(p) \/ LogWrite(p) \/ EndOp(p)
           \/ (\E b \in Blocks : Bread(p, b))
  <2>1. mode' \in {"run", "panic"} /\ UNCHANGED <<home, slot, head, buf>>
    BY <1>6 DEF BeginOp, Brelse, LogWrite, EndOp, Bread, Panic, disk, cache, boot
  <2> QED
    BY <2>1, QuietSteps
<1>7. CASE WriteLogDone(p) \/ EndOpSync(p) \/ ClearLog(p) \/ Finish(p) \/ SysSync(p)
  <2>1. mode' \in {"run", "panic"} /\ UNCHANGED <<home, slot, head, buf>>
    BY <1>7 DEF WriteLogDone, EndOpSync, ClearLog, Finish, SysSync, disk, cache, boot
  <2> QED
    BY <2>1, QuietSteps
<1> QED
  BY <1>1, <1>2, <1>3, <1>4, <1>5, <1>6, <1>7 DEF ProcNext, InOp, FinishOp

\* recover_from_log(): installing changes nothing for the users, and erasing
\* the header empties the log.
LEMMA RecoverySteps ==
  ASSUME IndInv, Recovery
  PROVE  Abs!TornNext \/ Stutter
<1>1. CASE ReadHead
  BY <1>1 DEF ReadHead, Stutter, Mem, Recovered, disk
<1>2. CASE RecoverInstall
  <2>1. /\ mode = "install" /\ mode' = mode /\ UNCHANGED <<slot, head>>
        /\ home' = [home EXCEPT ![lh[rtail + 1]] = slot[rtail + 1]]
    BY <1>2 DEF RecoverInstall
  <2>2. lh[rtail + 1] \in Range(head)
    <3>1. lh = head /\ rtail \in Nat /\ rtail < Len(lh)
      BY <1>2, <2>1, RecoveryFacts DEF RecoverInstall, IndInv, TypeOK
    <3>2. rtail + 1 \in 1..Len(head)
      BY <3>1, ListFacts, SMT
    <3> QED
      BY <3>1, <3>2, ListFacts
  <2>3. \A b \in Blocks : b \notin Range(head) => home'[b] = home[b]
    BY <2>1, <2>2 DEF IndInv, TypeOK
  <2>4. Recovered' = Recovered
    BY <2>1, <2>3, HomeOfListed
  <2> QED
    BY <2>1, <2>4 DEF Stutter, Mem
<1>3. CASE RecoverClear
  <2>1. /\ mode = "install" /\ mode' = "run" /\ rtail >= Len(lh)
        /\ head' = <<>> /\ UNCHANGED <<home, slot, buf>>
    BY <1>3 DEF RecoverClear, cache
  <2>2. /\ lh = head /\ \A q \in Procs : pc[q] = "idle"
        /\ \A b \in Blocks : buf[b] = home[b]
    BY <2>1, RecoveryFacts
  <2>3. home \in [Blocks -> Stamps] /\ buf \in [Blocks -> Stamps]
        /\ durable \in [Blocks -> Stamps]
    BY DEF IndInv, TypeOK
  <2>4. home = durable
    <3>1. rtail = Len(head)
      BY <2>1, <2>2, ListFacts, SMT DEF IndInv, Lists, Recovering, TypeOK
    <3>2. \A i \in 1..Len(head) : home[head[i]] = durable[head[i]]
      BY <2>1, <3>1 DEF IndInv, Contents, Copied
    <3>3. \A b \in Blocks : home[b] = durable[b]
      BY <3>2, ListFacts, SMT DEF IndInv, Contents, HomeIsDurable
    <3> QED
      BY <2>3, <3>3, SMT
  <2>5. Recovered = home
    <3>1. \A b \in Blocks : Rec(head, slot, home)[b] = home[b]
      BY <2>2, <2>4, RecoveredVsDurable, RecoveredIsRec
    <3> QED
      BY <2>3, <3>1, RecIs, RecoveredIsRec, SMT
  <2>6. buf = home
    BY <2>2, <2>3, SMT
  <2>7. Mem' = Mem
    BY <2>1, <2>5, <2>6 DEF Mem
  <2> QED
    BY <2>1, <2>2, <2>4, <2>7, Erasing
<1> QED
  BY <1>1, <1>2, <1>3 DEF Recovery

\* A power failure leaves what recovery makes of the disk.
LEMMA PowerFailure ==
  ASSUME Crash
  PROVE  Abs!TornNext
<1>1. Recovered' = Recovered /\ Range(head)' = Range(head) /\ mode' = "read"
  BY DEF Crash, Recovered, disk
<1>2. Abs!Crash
  BY <1>1 DEF Abs!Crash
<1> QED
  BY <1>2 DEF Abs!TornNext, Abs!AtomicNext

\* The log implements the crash-safe disk of CrashDisk: reads see the latest
\* writes, a commit makes all writes durable at once, a crash brings back what
\* is durable, and the only thing that becomes durable ahead of its commit is a
\* block with an earlier committed copy in the log.
THEOREM LogImplementsTorn ==
  ASSUME Syncers = {}
  PROVE  Spec => ImplementsTorn
<1>1. Init => Abs!Init
  <2> SUFFICES ASSUME Init PROVE Abs!Init
    OBVIOUS
  <2>1. home = [b \in Blocks |-> 0] /\ head = <<>> /\ mode = "read"
    BY DEF Init
  <2>2. Recovered = [b \in Blocks |-> 0]
    BY <2>1, SMT DEF Recovered
  <2>3. Range(head) = {}
    BY <2>1, RangeEmpty
  <2> QED
    BY <2>1, <2>2, <2>3 DEF Abs!Init
<1>2. IndInv /\ [Next]_vars => [Abs!TornNext]_(Abs!vars)
  <2> SUFFICES ASSUME IndInv, [Next]_vars PROVE Abs!TornNext \/ Stutter
    BY DEF Stutter, Mem, Abs!vars
  <2>1. CASE Next
    BY <2>1, ProcSteps, RecoverySteps, PowerFailure DEF Next
  <2>2. CASE UNCHANGED vars
    BY <2>2 DEF vars, disk, cache, boot, Stutter, Mem, Recovered
  <2> QED
    BY <2>1, <2>2
<1> QED
  BY <1>1, <1>2, Invariance, PTL DEF Spec, ImplementsTorn, Abs!TornSpec
=============================================================================
