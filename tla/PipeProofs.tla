---------------------------- MODULE PipeProofs ------------------------------
(***************************************************************************)
(* Theorems about Pipe for every set of processes, ring size, counter      *)
(* width (a multiple of the ring size) and length of calls: the pipe       *)
(* implements a FIFO queue and is not used after it is freed; when no      *)
(* writer can be killed it loses no wakeup.                                *)
(***************************************************************************)
EXTENDS Pipe, Integers, SequenceTheorems, TLAPS

-----------------------------------------------------------------------------
(* The inductive invariant. *)

\* p->lock is held exactly by the process inside a critical section of
\* pipewrite() or piperead(); writers and readers run their own code, and a
\* process on a sleep channel is in the sleep() of that channel.
Control ==
  \A p \in Procs :
    /\ pc[p] \in {"write", "wsleep", "read", "rsleep", "copy"} <=> lock = p
    /\ p \in Writers => pc[p] \in {"idle", "write", "wsleep", "wwoken"}
    /\ p \in Readers => pc[p] \in {"idle", "read", "rsleep", "rwoken", "copy"}
    /\ chan[p] = "nread" => pc[p] = "rwoken"
    /\ chan[p] = "nwrite" => pc[p] = "wwoken"

\* A process in a call has its descriptor open, an end with an open
\* descriptor is open, and the page is freed only with both ends closed.
Ends ==
  /\ \A p \in Procs : pc[p] # "idle" => open[p]
  /\ \A p \in Writers : open[p] => writeopen
  /\ \A p \in Readers : open[p] => readopen
  /\ freed => ~readopen /\ ~writeopen

\* The counters are never more than the ring apart.
Fits == Count <= PIPESIZE

\* What a process found before sleep() still holds: it kept the lock.
SleepTested ==
  \A p \in Procs :
    /\ pc[p] = "wsleep" => Full /\ readopen
    /\ pc[p] = "rsleep" => Empty /\ writeopen

\* Only those somebody may kill are killed.
KilledKillable == \A p \in Procs : killed[p] => p \in Killable

PipeInv == TypeOK /\ Control /\ Ends /\ Fits

-----------------------------------------------------------------------------
(* Arithmetic of the counters and of positions in the ring. *)

\* The sizes of the ring and of the counters.
LEMMA Sizes ==
  /\ PIPESIZE \in Nat \ {0} /\ UMOD \in Nat \ {0} /\ UMOD > PIPESIZE
  /\ MaxLen \in Nat \ {0}
BY PipeAssumption

\* A sum of two counters needs at most one subtraction.
LEMMA WrapOnce ==
  ASSUME NEW a \in Nat, a < 2 * UMOD
  PROVE  a % UMOD = IF a < UMOD THEN a ELSE a - UMOD
BY PipeAssumption

\* Quotient and remainder.
LEMMA Division ==
  ASSUME NEW m \in Nat \ {0}, NEW a \in Nat
  PROVE  /\ a % m \in 0..m - 1
         /\ a \div m \in Nat
         /\ a = m * (a \div m) + (a % m)
<1>1. a % m \in 0..m - 1
  OBVIOUS
<1>2. a \div m \in Nat
  OBVIOUS
<1>3. a = m * (a \div m) + (a % m)
  OBVIOUS
<1> QED
  BY <1>1, <1>2, <1>3

\* No multiple of m lies strictly between 0 and m.
LEMMA NoMultiple ==
  ASSUME NEW m \in Nat \ {0}, NEW z \in Int, NEW d \in 1..m - 1, m * z = d
  PROVE  FALSE
OBVIOUS

\* Counters less than a ring apart name different places of the ring, also
\* when the counter wraps between them: UMOD is a multiple of PIPESIZE.
LEMMA PlacesDiffer ==
  ASSUME NEW x \in 0..UMOD - 1, NEW y \in 0..UMOD - 1, NEW d \in 1..PIPESIZE - 1,
         y = x + d \/ y = x + d - UMOD
  PROVE  x % PIPESIZE # y % PIPESIZE
<1> DEFINE k == UMOD \div PIPESIZE
           qx == x \div PIPESIZE
           qy == y \div PIPESIZE
           rx == x % PIPESIZE
           ry == y % PIPESIZE
<1>1. PIPESIZE \in Nat \ {0} /\ UMOD \in Nat /\ UMOD % PIPESIZE = 0
      /\ x \in Nat /\ y \in Nat
  BY PipeAssumption
<1>2. UMOD = PIPESIZE * k /\ k \in Nat
  BY <1>1, Division
<1>3. x = PIPESIZE * qx + rx /\ qx \in Nat /\ rx \in Nat
  BY <1>1, Division
<1>4. y = PIPESIZE * qy + ry /\ qy \in Nat /\ ry \in Nat
  BY <1>1, Division
<1> SUFFICES ASSUME rx = ry PROVE FALSE
  OBVIOUS
<1> HIDE DEF k, qx, qy, rx, ry
<1>5. CASE y = x + d
  <2>1. PIPESIZE * (qy - qx) = d
    <3>1. PIPESIZE * (qy - qx) = PIPESIZE * qy - PIPESIZE * qx
      BY <1>1, <1>3, <1>4
    <3> QED
      BY <1>1, <1>3, <1>4, <1>5, <3>1
  <2> QED
    BY <1>1, <1>3, <1>4, <2>1, NoMultiple
<1>6. CASE y = x + d - UMOD
  <2>1. PIPESIZE * (qy - qx + k) = d
    <3>1. PIPESIZE * (qy - qx + k) = PIPESIZE * qy - PIPESIZE * qx + PIPESIZE * k
      BY <1>1, <1>2, <1>3, <1>4
    <3> QED
      BY <1>1, <1>2, <1>3, <1>4, <1>6, <3>1
  <2> QED
    BY <1>1, <1>2, <1>3, <1>4, <2>1, NoMultiple
<1> QED
  BY <1>5, <1>6

\* The unsigned difference of two counters, and the test for a full ring.
LEMMA Difference ==
  ASSUME NEW r \in 0..UMOD - 1, NEW w \in 0..UMOD - 1
  PROVE  /\ (w + UMOD - r) % UMOD = IF w >= r THEN w - r ELSE w + UMOD - r
         /\ (r + PIPESIZE) % UMOD =
              IF r + PIPESIZE < UMOD THEN r + PIPESIZE ELSE r + PIPESIZE - UMOD
<1> DEFINE difference == w + UMOD - r
           limit == r + PIPESIZE
<1>1. difference \in Nat /\ difference < 2 * UMOD /\ limit \in Nat /\ limit < 2 * UMOD
  BY Sizes
<1>2. /\ difference % UMOD = IF difference < UMOD THEN difference ELSE difference - UMOD
      /\ limit % UMOD = IF limit < UMOD THEN limit ELSE limit - UMOD
  <2> HIDE DEF difference, limit
  <2> QED
    BY <1>1, WrapOnce
<1> QED
  BY <1>2, Sizes

\* The tests of the code in terms of the number of bytes.
LEMMA Counts ==
  ASSUME TypeOK
  PROVE  /\ Count = IF nwrite >= nread THEN nwrite - nread ELSE nwrite + UMOD - nread
         /\ Count \in 0..UMOD - 1
         /\ Empty <=> Count = 0
         /\ Full <=> Count = PIPESIZE
<1>1. nread \in 0..UMOD - 1 /\ nwrite \in 0..UMOD - 1
  BY DEF TypeOK
<1>2. Count = IF nwrite >= nread THEN nwrite - nread ELSE nwrite + UMOD - nread
  BY <1>1, Difference DEF Count
<1>3. (nread + PIPESIZE) % UMOD =
        IF nread + PIPESIZE < UMOD THEN nread + PIPESIZE ELSE nread + PIPESIZE - UMOD
  BY <1>1, Difference
<1> QED
  BY <1>1, <1>2, <1>3, Sizes DEF Empty, Full

\* One more than a counter.
LEMMA Increment ==
  ASSUME NEW c \in 0..UMOD - 1
  PROVE  (c + 1) % UMOD = IF c + 1 < UMOD THEN c + 1 ELSE 0
<1> DEFINE a == c + 1
<1>1. UMOD \in Nat \ {0} /\ a \in Nat /\ a <= UMOD /\ a < 2 * UMOD
  BY PipeAssumption
<1> HIDE DEF a
<1>2. a % UMOD = IF a < UMOD THEN a ELSE a - UMOD
  BY <1>1, WrapOnce
<1>3. a % UMOD = IF a < UMOD THEN a ELSE 0
  BY <1>1, <1>2
<1> QED
  BY <1>3 DEF a

\* The counter of the i-th byte from c.
LEMMA Further ==
  ASSUME NEW c \in 0..UMOD - 1, NEW i \in 1..PIPESIZE
  PROVE  (c + i - 1) % UMOD = IF c + i - 1 < UMOD THEN c + i - 1 ELSE c + i - 1 - UMOD
<1> DEFINE a == c + i - 1
<1>1. a \in Nat /\ a < 2 * UMOD
  BY Sizes
<1>2. a % UMOD = IF a < UMOD THEN a ELSE a - UMOD
  <2> HIDE DEF a
  <2> QED
    BY <1>1, WrapOnce
<1> QED
  BY <1>1, <1>2, Sizes

\* A counter's place is in the ring.
LEMMA PlaceInRing ==
  ASSUME NEW c \in 0..UMOD - 1
  PROVE  c % PIPESIZE \in 0..PIPESIZE - 1
BY Sizes, Division

-----------------------------------------------------------------------------
(* The invariant is inductive. *)

\* The initial states.
LEMMA InitInv == Init => PipeInv
<1> SUFFICES ASSUME Init PROVE PipeInv
  OBVIOUS
<1>1. TypeOK
  <2>1. 0 \in 0..UMOD - 1 /\ 0 \in 0..MaxLen
    BY Sizes
  <2>2. /\ data \in [0..PIPESIZE - 1 -> Bytes] /\ addr \in [Readers -> Bytes]
        /\ nread \in 0..UMOD - 1 /\ nwrite \in 0..UMOD - 1
        /\ readopen \in BOOLEAN /\ writeopen \in BOOLEAN /\ freed \in BOOLEAN
        /\ lock \in Procs \cup {NoProc}
    BY <2>1 DEF Init
  <2>3. todo \in [Procs -> 0..MaxLen]
    BY <2>1 DEF Init
  <2>4. /\ pc \in [Procs -> {"idle", "write", "wsleep", "wwoken", "read", "rsleep",
                             "rwoken", "copy"}]
        /\ chan \in [Procs -> {"none", "nread", "nwrite"}]
        /\ killed \in [Procs -> BOOLEAN] /\ open \in [Procs -> BOOLEAN]
    BY DEF Init
  <2> QED
    BY <2>2, <2>3, <2>4 DEF TypeOK
<1>2. Control /\ Ends
  BY PipeAssumption DEF Init, Control, Ends, Procs
<1>3. Fits
  BY <1>1, Counts, Sizes DEF Init, Fits, Empty
<1> QED
  BY <1>1, <1>2, <1>3 DEF PipeInv

\* A step that leaves the counters alone keeps them close.
LEMMA RingKept ==
  ASSUME Fits, UNCHANGED ring
  PROVE  Fits'
BY DEF Fits, Count, ring

\* A system call takes the lock.
LEMMA CallStep ==
  ASSUME PipeInv, NEW p \in Procs, NEW n \in 1..MaxLen, Call(p, n)
  PROVE  PipeInv'
<1> USE DEF PipeInv
<1>1. TypeOK'
  BY Sizes DEF TypeOK, Call, Goto, ring, ends
<1>2. Control'
  BY PipeAssumption DEF TypeOK, Control, Call, Goto, ring, ends, Procs
<1>3. Ends'
  BY DEF TypeOK, Ends, Call, Goto, ring, ends
<1> QED
  BY <1>1, <1>2, <1>3, RingKept DEF Call

\* sleep() gives up the lock on its channel.
LEMMA SleepStep ==
  ASSUME PipeInv, NEW p \in Procs, Sleep(p)
  PROVE  PipeInv'
<1> USE DEF PipeInv
<1>1. TypeOK'
  BY DEF TypeOK, Sleep, Goto, ring, ends
<1>2. Control'
  BY PipeAssumption DEF TypeOK, Control, Sleep, Goto, ring, ends, Procs
<1>3. Ends'
  BY DEF TypeOK, Ends, Sleep, Goto, ring, ends
<1> QED
  BY <1>1, <1>2, <1>3, RingKept DEF Sleep

\* sleep() returns with the lock.
LEMMA WakeStep ==
  ASSUME PipeInv, NEW p \in Procs, Wake(p)
  PROVE  PipeInv'
<1> USE DEF PipeInv
<1>1. TypeOK'
  BY DEF TypeOK, Wake, Goto, ring, ends
<1>2. Control'
  BY PipeAssumption DEF TypeOK, Control, Wake, Goto, ring, ends, Procs
<1>3. Ends'
  BY DEF TypeOK, Ends, Wake, Goto, ring, ends
<1> QED
  BY <1>1, <1>2, <1>3, RingKept DEF Wake

\* One byte more: the ring was not full.
LEMMA WriteByteCount ==
  ASSUME TypeOK, Fits, NEW p \in Procs, WriteByte(p)
  PROVE  /\ nwrite' \in 0..UMOD - 1
         /\ Count < PIPESIZE
         /\ Count' = Count + 1
<1>1. nwrite' = IF nwrite + 1 < UMOD THEN nwrite + 1 ELSE 0
  BY Increment DEF TypeOK, WriteByte
<1>2. nwrite' \in 0..UMOD - 1
  BY <1>1, Sizes DEF TypeOK
<1>3. Count < PIPESIZE
  BY Counts, Sizes DEF Fits, WriteByte
<1>4. Count' = Count + 1
  <2>1. Count = IF nwrite >= nread THEN nwrite - nread ELSE nwrite + UMOD - nread
    BY Counts
  <2>2. nread' = nread /\ nread \in 0..UMOD - 1
    BY DEF WriteByte, TypeOK
  <2>3. Count' = IF nwrite' >= nread THEN nwrite' - nread ELSE nwrite' + UMOD - nread
    BY <1>2, <2>2, Difference DEF Count
  <2> QED
    BY <1>1, <1>3, <2>1, <2>2, <2>3, Sizes DEF TypeOK
<1> QED
  BY <1>2, <1>3, <1>4

\* pipewrite() stores a byte.
LEMMA WriteByteStep ==
  ASSUME PipeInv, NEW p \in Procs, WriteByte(p)
  PROVE  PipeInv'
<1> USE DEF PipeInv
<1>1. TypeOK'
  <2>1. nwrite' \in 0..UMOD - 1
    BY WriteByteCount
  <2>2. data' \in [0..PIPESIZE - 1 -> Bytes]
    BY DEF TypeOK, WriteByte
  <2>3. todo' \in [Procs -> 0..MaxLen]
    <3>1. todo[p] - 1 \in 0..MaxLen
      BY Sizes DEF TypeOK, WriteByte
    <3> QED
      BY <3>1 DEF TypeOK, WriteByte
  <2> QED
    BY <2>1, <2>2, <2>3 DEF TypeOK, WriteByte, ends
<1>2. Control'
  BY DEF Control, WriteByte
<1>3. Ends'
  BY DEF Ends, WriteByte, ends
<1>4. Fits'
  BY WriteByteCount, Counts, Sizes DEF Fits
<1> QED
  BY <1>1, <1>2, <1>3, <1>4

\* pipewrite() finds the ring full.
LEMMA WriteFullStep ==
  ASSUME PipeInv, NEW p \in Procs, WriteFull(p)
  PROVE  PipeInv'
<1> USE DEF PipeInv
<1>1. TypeOK'
  BY DEF TypeOK, WriteFull, Return, wakeup, Goto, ring, ends
<1>2. Control'
  <2>1. CASE ~readopen \/ killed[p]
    BY <2>1, PipeAssumption DEF TypeOK, Control, WriteFull, Holds, Return, Goto, Procs
  <2>2. CASE ~(~readopen \/ killed[p])
    <3>1. /\ lock = p /\ lock' = p /\ pc[p] = "write" /\ p \in Writers
          /\ pc' = [pc EXCEPT ![p] = "wsleep"]
      BY <2>2, PipeAssumption DEF Control, WriteFull, Holds, Goto, Procs
    <3>2. \A q \in Procs : chan'[q] = "none" \/ chan'[q] = chan[q]
      BY <2>2 DEF WriteFull, wakeup
    <3>3. /\ pc'[p] = "wsleep" /\ chan'[p] \notin {"nread", "nwrite"}
          /\ \A q \in Procs : q # p => pc'[q] = pc[q]
      BY <3>1, <3>2 DEF TypeOK, Control
    <3> QED
      BY <3>1, <3>2, <3>3, PipeAssumption DEF Control
  <2> QED
    BY <2>1, <2>2
<1>3. Ends'
  BY DEF TypeOK, Ends, WriteFull, Holds, Return, Goto, ring, ends
<1> QED
  BY <1>1, <1>2, <1>3, RingKept DEF WriteFull

\* pipewrite() ends.
LEMMA WriteDoneStep ==
  ASSUME PipeInv, NEW p \in Procs, WriteDone(p)
  PROVE  PipeInv'
<1> USE DEF PipeInv
<1>1. TypeOK'
  BY DEF TypeOK, WriteDone, Return, wakeup, Goto, ring, ends
<1>2. Control'
  BY PipeAssumption
     DEF TypeOK, Control, WriteDone, Holds, Return, wakeup, Goto, ring, ends, Procs
<1>3. Ends'
  BY DEF TypeOK, Ends, WriteDone, Holds, Return, Goto, ring, ends
<1> QED
  BY <1>1, <1>2, <1>3, RingKept DEF WriteDone

\* piperead() tests for an empty ring.
LEMMA ReadTestStep ==
  ASSUME PipeInv, NEW p \in Procs, ReadTest(p)
  PROVE  PipeInv'
<1> USE DEF PipeInv
<1>1. TypeOK'
  BY DEF TypeOK, ReadTest, Return, Goto, ring, ends
<1>2. Control'
  BY PipeAssumption
     DEF TypeOK, Control, ReadTest, Holds, Return, Goto, ring, ends, Procs
<1>3. Ends'
  BY DEF TypeOK, Ends, ReadTest, Holds, Return, Goto, ring, ends
<1> QED
  BY <1>1, <1>2, <1>3, RingKept DEF ReadTest

\* One byte less: the ring was not empty.
LEMMA ReadByteCount ==
  ASSUME TypeOK, NEW p \in Procs, ReadByte(p)
  PROVE  /\ nread' = IF nread + 1 < UMOD THEN nread + 1 ELSE 0
         /\ nread' \in 0..UMOD - 1
         /\ Count > 0
         /\ Count' = Count - 1
<1>1. nread' = IF nread + 1 < UMOD THEN nread + 1 ELSE 0
  BY Increment DEF TypeOK, ReadByte
<1>2. nread' \in 0..UMOD - 1
  BY <1>1, Sizes DEF TypeOK
<1>3. Count > 0
  BY Counts, Sizes DEF ReadByte
<1>4. Count' = Count - 1
  <2>1. Count = IF nwrite >= nread THEN nwrite - nread ELSE nwrite + UMOD - nread
    BY Counts
  <2>2. nwrite' = nwrite /\ nwrite \in 0..UMOD - 1
    BY DEF ReadByte, TypeOK
  <2>3. Count' = IF nwrite >= nread' THEN nwrite - nread' ELSE nwrite + UMOD - nread'
    BY <1>2, <2>2, Difference DEF Count
  <2> QED
    BY <1>1, <1>3, <2>1, <2>2, <2>3, Sizes DEF TypeOK
<1> QED
  BY <1>1, <1>2, <1>3, <1>4

\* piperead() takes a byte.
LEMMA ReadByteStep ==
  ASSUME PipeInv, NEW p \in Procs, ReadByte(p)
  PROVE  PipeInv'
<1> USE DEF PipeInv
<1>1. TypeOK'
  <2>1. nread' \in 0..UMOD - 1
    BY ReadByteCount
  <2>2. todo' \in [Procs -> 0..MaxLen]
    <3>1. todo[p] - 1 \in 0..MaxLen
      BY Sizes DEF TypeOK, ReadByte
    <3> QED
      BY <3>1 DEF TypeOK, ReadByte
  <2>3. addr' \in [Readers -> Bytes]
    <3>1. nread % PIPESIZE \in 0..PIPESIZE - 1
      BY PlaceInRing DEF TypeOK
    <3>2. data[nread % PIPESIZE] \in Bytes
      BY <3>1 DEF TypeOK
    <3> QED
      BY <3>2 DEF TypeOK, ReadByte
  <2> QED
    BY <2>1, <2>2, <2>3 DEF TypeOK, ReadByte, ends
<1>2. Control'
  BY DEF Control, ReadByte
<1>3. Ends'
  BY DEF Ends, ReadByte, ends
<1>4. Fits'
  BY ReadByteCount, Counts, Sizes DEF Fits
<1> QED
  BY <1>1, <1>2, <1>3, <1>4

\* piperead() ends.
LEMMA ReadDoneStep ==
  ASSUME PipeInv, NEW p \in Procs, ReadDone(p)
  PROVE  PipeInv'
<1> USE DEF PipeInv
<1>1. TypeOK'
  BY Sizes DEF TypeOK, ReadDone, Return, wakeup, Goto, ring, ends
<1>2. Control'
  BY PipeAssumption
     DEF TypeOK, Control, ReadDone, Holds, Return, wakeup, Goto, ring, ends, Procs
<1>3. Ends'
  BY DEF TypeOK, Ends, ReadDone, Holds, Return, Goto, ring, ends
<1> QED
  BY <1>1, <1>2, <1>3, RingKept DEF ReadDone

\* pipeclose() closes an end.
LEMMA CloseStep ==
  ASSUME PipeInv, NEW p \in Procs, Close(p)
  PROVE  PipeInv'
<1> USE DEF PipeInv
<1>1. TypeOK'
  BY DEF TypeOK, Close, wakeup, ring
<1>2. Control'
  BY DEF TypeOK, Control, Close, wakeup, ring
<1>3. Ends'
  BY DEF TypeOK, Ends, Close, ring, Procs
<1> QED
  BY <1>1, <1>2, <1>3, RingKept DEF Close

\* kill() of a process that may be asleep on the pipe.
LEMMA KillStep ==
  ASSUME PipeInv, NEW p \in Procs, Kill(p)
  PROVE  PipeInv'
<1> USE DEF PipeInv
<1>1. TypeOK'
  BY DEF TypeOK, Kill, ring, ends
<1>2. Control'
  BY DEF TypeOK, Control, Kill, ring, ends
<1>3. Ends'
  BY DEF Ends, Kill, ends
<1> QED
  BY <1>1, <1>2, <1>3, RingKept DEF Kill

\* Every step keeps the invariant.
LEMMA NextInv == PipeInv /\ [Next]_vars => PipeInv'
<1> SUFFICES ASSUME PipeInv, [Next]_vars PROVE PipeInv'
  OBVIOUS
<1>1. CASE UNCHANGED vars
  BY <1>1 DEF PipeInv, TypeOK, Control, Ends, Fits, Count, vars
<1>2. CASE Next
  <2> SUFFICES ASSUME NEW p \in Procs,
                      Step(p) \/ Close(p) \/ Kill(p) \/ \E n \in 1..MaxLen : Call(p, n)
               PROVE  PipeInv'
    BY <1>2 DEF Next
  <2> QED
    BY CallStep, SleepStep, WakeStep, WriteByteStep, WriteFullStep, WriteDoneStep,
       ReadTestStep, ReadByteStep, ReadDoneStep, CloseStep, KillStep DEF Step
<1> QED
  BY <1>1, <1>2

\* The invariant holds in every reachable state.
THEOREM Invariance == Spec => []PipeInv
  BY InitInv, NextInv, PTL DEF Spec

\* Every variable keeps its type.
THEOREM TypeCorrect == Spec => []TypeOK
<1>1. PipeInv => TypeOK
  BY DEF PipeInv
<1> QED
  BY <1>1, Invariance, PTL

\* pipeclose() frees the pipe only when no call is using it, for any number of
\* readers and writers.
THEOREM FreedUnusedHolds == Spec => []FreedUnused
<1>1. PipeInv => FreedUnused
  BY DEF PipeInv, TypeOK, Ends, FreedUnused, Procs
<1> QED
  BY <1>1, Invariance, PTL

-----------------------------------------------------------------------------
(* No wakeup is lost. *)

WakeInv == PipeInv /\ SleepTested /\ KilledKillable /\ NoLostWakeup

\* The steps that neither move a byte nor close an end: who sleeps has the same
\* reason as before, and who goes to sleep has just tested for it.
LEMMA QuietSteps ==
  ASSUME WakeInv, NEW p \in Procs,
         \/ \E n \in 1..MaxLen : Call(p, n)
         \/ Sleep(p) \/ Wake(p) \/ ReadTest(p) \/ Kill(p)
  PROVE  (SleepTested /\ KilledKillable /\ NoLostWakeup)'
<1> USE PipeAssumption DEF WakeInv, PipeInv
<1>1. CASE \E n \in 1..MaxLen : Call(p, n)
  BY <1>1 DEF TypeOK, Control, SleepTested, KilledKillable, NoLostWakeup, Full, Empty,
              Call, Goto, ring, ends, Procs
<1>2. CASE Sleep(p)
  BY <1>2 DEF TypeOK, Control, SleepTested, KilledKillable, NoLostWakeup, Full, Empty,
              Sleep, Goto, ring, ends, Procs
<1>3. CASE Wake(p)
  BY <1>3 DEF TypeOK, Control, SleepTested, KilledKillable, NoLostWakeup, Full, Empty,
              Wake, Goto, ring, ends, Procs
<1>4. CASE ReadTest(p)
  BY <1>4 DEF TypeOK, Control, SleepTested, KilledKillable, NoLostWakeup, Full, Empty,
              ReadTest, Holds, Return, Goto, ring, ends, Procs
<1>5. CASE Kill(p)
  BY <1>5 DEF TypeOK, Control, SleepTested, KilledKillable, NoLostWakeup, Full, Empty,
              Kill, ring, ends
<1> QED
  BY <1>1, <1>2, <1>3, <1>4, <1>5

\* The steps of pipewrite(): a process that writes into an empty ring keeps the
\* lock until its wakeup(), also when it then finds the ring full.  A writer
\* that returns from a full ring because the readers are gone leaves nobody
\* asleep on the other channel.
LEMMA WriterSteps ==
  ASSUME WakeInv, Killable \cap Writers = {}, NEW p \in Procs,
         WriteByte(p) \/ WriteFull(p) \/ WriteDone(p)
  PROVE  (SleepTested /\ KilledKillable /\ NoLostWakeup)'
<1> USE DEF WakeInv, PipeInv
<1>1. CASE WriteByte(p)
  <2>1. lock = p /\ pc[p] = "write" /\ ~Full
    BY <1>1 DEF WriteByte, Holds
  <2>2. /\ lock' = lock /\ pc' = pc /\ chan' = chan /\ killed' = killed
    BY <1>1 DEF WriteByte
  <2>3. \A q \in Procs : pc[q] # "wsleep" /\ pc[q] # "rsleep" /\ chan[q] # "nwrite"
    BY <2>1 DEF Control, NoLostWakeup
  <2> QED
    BY <2>1, <2>2, <2>3, PipeAssumption DEF SleepTested, KilledKillable, NoLostWakeup
<1>2. CASE WriteFull(p)
  <2>1. lock = p /\ pc[p] = "write" /\ Full /\ Full' /\ p \in Writers /\ ~killed[p]
    BY <1>2 DEF WriteFull, Holds, Full, ring, Control, KilledKillable, Procs
  <2>2. CASE ~readopen
    <3>1. \A q \in Procs : chan[q] # "nread" /\ chan[q] # "nwrite"
      BY <2>1, <2>2 DEF Control, Ends, NoLostWakeup, Procs
    <3>2. chan' = chan /\ killed' = killed /\ pc' = [pc EXCEPT ![p] = "idle"]
      BY <1>2, <2>2 DEF WriteFull, Return, Goto
    <3>3. \A q \in Procs : pc'[q] # "wsleep" /\ pc'[q] # "rsleep"
      BY <2>1, <3>2 DEF TypeOK, Control
    <3> QED
      BY <3>1, <3>2, <3>3 DEF SleepTested, KilledKillable, NoLostWakeup
  <2>3. CASE readopen
    <3>1. /\ chan' = [q \in Procs |-> IF chan[q] = "nread" THEN "none" ELSE chan[q]]
          /\ pc' = [pc EXCEPT ![p] = "wsleep"] /\ killed' = killed /\ readopen'
      BY <1>2, <2>1, <2>3 DEF WriteFull, wakeup, Goto, ends
    <3>2. \A q \in Procs : pc'[q] # "rsleep" /\ chan'[q] # "nread"
      BY <2>1, <3>1 DEF TypeOK, Control
    <3> QED
      BY <2>1, <3>1, <3>2 DEF SleepTested, KilledKillable, NoLostWakeup
  <2> QED
    BY <2>2, <2>3 DEF TypeOK
<1>3. CASE WriteDone(p)
  <2>1. lock = p /\ pc[p] = "write"
    BY <1>3 DEF WriteDone, Holds
  <2>2. /\ chan' = [q \in Procs |-> IF chan[q] = "nread" THEN "none" ELSE chan[q]]
        /\ pc' = [pc EXCEPT ![p] = "idle"] /\ killed' = killed
        /\ UNCHANGED <<nread, nwrite, readopen>>
    BY <1>3 DEF WriteDone, Return, wakeup, Goto, ring, ends
  <2>3. \A q \in Procs : pc'[q] # "wsleep" /\ pc'[q] # "rsleep" /\ chan'[q] # "nread"
    BY <2>1, <2>2 DEF TypeOK, Control
  <2>4. \A q \in Procs : chan'[q] = "nwrite" => Full /\ readopen
    BY <2>1, <2>2 DEF NoLostWakeup
  <2> QED
    BY <2>2, <2>3, <2>4 DEF SleepTested, KilledKillable, NoLostWakeup, Full
<1> QED
  BY <1>1, <1>2, <1>3

\* The copy loop of piperead() and its wakeup().
LEMMA ReaderSteps ==
  ASSUME WakeInv, NEW p \in Procs, ReadByte(p) \/ ReadDone(p)
  PROVE  (SleepTested /\ KilledKillable /\ NoLostWakeup)'
<1> USE DEF WakeInv, PipeInv
<1>1. CASE ReadByte(p)
  <2>1. lock = p /\ pc[p] = "copy" /\ ~Empty
    BY <1>1 DEF ReadByte, Holds
  <2>2. /\ lock' = lock /\ pc' = pc /\ chan' = chan /\ killed' = killed
    BY <1>1 DEF ReadByte
  <2>3. \A q \in Procs : pc[q] # "wsleep" /\ pc[q] # "rsleep" /\ chan[q] # "nread"
    BY <2>1 DEF Control, NoLostWakeup
  <2> QED
    BY <2>1, <2>2, <2>3, PipeAssumption DEF SleepTested, KilledKillable, NoLostWakeup
<1>2. CASE ReadDone(p)
  <2>1. lock = p /\ pc[p] = "copy"
    BY <1>2 DEF ReadDone, Holds
  <2>2. /\ chan' = [q \in Procs |-> IF chan[q] = "nwrite" THEN "none" ELSE chan[q]]
        /\ pc' = [pc EXCEPT ![p] = "idle"] /\ killed' = killed
        /\ UNCHANGED <<nread, nwrite, writeopen>>
    BY <1>2 DEF ReadDone, Return, wakeup, Goto, ring, ends
  <2>3. \A q \in Procs : pc'[q] # "wsleep" /\ pc'[q] # "rsleep" /\ chan'[q] # "nwrite"
    BY <2>1, <2>2 DEF TypeOK, Control
  <2>4. \A q \in Procs : chan'[q] = "nread" => Empty /\ writeopen
    BY <2>1, <2>2 DEF NoLostWakeup
  <2> QED
    BY <2>2, <2>3, <2>4 DEF SleepTested, KilledKillable, NoLostWakeup, Empty
<1> QED
  BY <1>1, <1>2

\* pipeclose(): the end that closes wakes the other one.
LEMMA CloseWakes ==
  ASSUME WakeInv, NEW p \in Procs, Close(p)
  PROVE  (SleepTested /\ KilledKillable /\ NoLostWakeup)'
<1> USE DEF WakeInv, PipeInv
<1>1. /\ lock = NoProc /\ pc' = pc /\ killed' = killed /\ UNCHANGED <<nread, nwrite>>
      /\ \A q \in Procs : pc[q] # "wsleep" /\ pc[q] # "rsleep"
  BY PipeAssumption DEF Close, Control, ring
<1>2. \A q \in Procs : chan'[q] # "none" => chan'[q] = chan[q]
  BY DEF Close, wakeup
<1>3. ASSUME NEW q \in Procs, chan'[q] = "nread"
      PROVE  Empty /\ writeopen'
  <2>1. Empty /\ writeopen
    BY <1>1, <1>2, <1>3 DEF NoLostWakeup
  <2> QED
    BY <2>1, <1>3 DEF Close, wakeup
<1>4. ASSUME NEW q \in Procs, chan'[q] = "nwrite"
      PROVE  Full /\ readopen'
  <2>1. Full /\ readopen /\ q \in Writers /\ pc[q] = "wwoken"
    BY <1>1, <1>2, <1>4 DEF NoLostWakeup, Control, Procs
  <2>2. open'[q] /\ writeopen'
    BY <2>1 DEF TypeOK, Close, Ends, Procs
  <2> QED
    BY <2>1, <2>2, <1>4 DEF TypeOK, Close, wakeup
<1> QED
  BY <1>1, <1>3, <1>4 DEF SleepTested, KilledKillable, NoLostWakeup, Full, Empty

\* No wakeup is lost on either side, whatever the ring size, the number of
\* readers and writers and the order of their calls, when no writer can be
\* killed: pipewrite() returns from a kill without its wakeup().
THEOREM NoLostWakeupHolds ==
  ASSUME Killable \cap Writers = {}
  PROVE  Spec => []NoLostWakeup
<1>1. Init => WakeInv
  BY InitInv DEF Init, WakeInv, SleepTested, KilledKillable, NoLostWakeup
<1>2. WakeInv /\ [Next]_vars => WakeInv'
  <2> SUFFICES ASSUME WakeInv, [Next]_vars PROVE WakeInv'
    OBVIOUS
  <2>1. PipeInv'
    BY NextInv DEF WakeInv
  <2>2. CASE UNCHANGED vars
    BY <2>1, <2>2 DEF WakeInv, SleepTested, KilledKillable, NoLostWakeup, Full, Empty, vars
  <2>3. CASE Next
    <3> SUFFICES ASSUME NEW p \in Procs,
                        Step(p) \/ Close(p) \/ Kill(p) \/ \E n \in 1..MaxLen : Call(p, n)
                 PROVE  (SleepTested /\ KilledKillable /\ NoLostWakeup)'
      BY <2>1, <2>3 DEF Next, WakeInv
    <3> QED
      BY QuietSteps, WriterSteps, ReaderSteps, CloseWakes DEF Step
  <2> QED
    BY <2>2, <2>3
<1>3. WakeInv => NoLostWakeup
  BY DEF WakeInv
<1> QED
  BY <1>1, <1>2, <1>3, PTL DEF Spec

-----------------------------------------------------------------------------
(* The pipe is a FIFO queue. *)

\* Place in the ring of the i-th byte from counter r, and the bytes from there.
Place(r, i) == ((r + i - 1) % UMOD) % PIPESIZE
Contents(d, r, n) == [i \in 1..n |-> d[Place(r, i)]]

\* The counter of a byte that may be in the ring.
LEMMA PlaceCounter ==
  ASSUME NEW r \in 0..UMOD - 1, NEW i \in 1..PIPESIZE
  PROVE  /\ (r + i - 1) % UMOD \in 0..UMOD - 1
         /\ Place(r, i) \in 0..PIPESIZE - 1
<1>1. (r + i - 1) % UMOD = IF r + i - 1 < UMOD THEN r + i - 1 ELSE r + i - 1 - UMOD
  BY Further
<1>2. (r + i - 1) % UMOD \in 0..UMOD - 1
  <2> DEFINE c == (r + i - 1) % UMOD
  <2>1. c = IF r + i - 1 < UMOD THEN r + i - 1 ELSE r + i - 1 - UMOD
    BY <1>1
  <2> HIDE DEF c
  <2>2. c \in 0..UMOD - 1
    BY <2>1, Sizes
  <2> QED
    BY <2>2 DEF c
<1> QED
  BY <1>2, PlaceInRing DEF Place

\* The bytes of the ring are a sequence.
LEMMA ContentsSeq ==
  ASSUME NEW d \in [0..PIPESIZE - 1 -> Bytes], NEW r \in 0..UMOD - 1,
         NEW n \in 0..PIPESIZE
  PROVE  /\ Contents(d, r, n) \in Seq(Bytes)
         /\ Len(Contents(d, r, n)) = n
         /\ \A i \in 1..n : Contents(d, r, n)[i] = d[Place(r, i)]
<1>1. n \in Nat
  BY Sizes
<1>2. \A i \in 1..n : d[Place(r, i)] \in Bytes
  <2> SUFFICES ASSUME NEW i \in 1..n PROVE d[Place(r, i)] \in Bytes
    OBVIOUS
  <2>1. i \in 1..PIPESIZE
    BY Sizes
  <2> QED
    BY <2>1, PlaceCounter
<1> QED
  BY <1>1, <1>2 DEF Contents

\* The queue is the contents of the ring.
LEMMA QueueContents == Queue = Contents(data, nread, Count)
BY DEF Queue, Contents, Place

\* pipewrite() stores a byte at a place that holds none, the one after the last.
LEMMA WriteBytePuts ==
  ASSUME PipeInv, NEW p \in Procs, WriteByte(p)
  PROVE  Abs!Put
<1> DEFINE n == Count
           q == Contents(data, nread, n)
<1>1. /\ n \in 0..PIPESIZE /\ n < PIPESIZE /\ Count' = n + 1
      /\ nread \in 0..UMOD - 1 /\ nwrite \in 0..UMOD - 1
      /\ data \in [0..PIPESIZE - 1 -> Bytes]
  BY WriteByteCount, Counts, Sizes DEF PipeInv, Fits, TypeOK
<1>2. PICK b \in Bytes : data' = [data EXCEPT ![nwrite % PIPESIZE] = b]
  BY DEF WriteByte
<1>3. nread' = nread /\ data' \in [0..PIPESIZE - 1 -> Bytes]
  BY <1>1, <1>2 DEF WriteByte
<1>4. /\ nwrite % PIPESIZE \in 0..PIPESIZE - 1
      /\ nwrite = IF nread + n < UMOD THEN nread + n ELSE nread + n - UMOD
  <2>1. nwrite % PIPESIZE \in 0..PIPESIZE - 1
    BY <1>1, PlaceInRing
  <2>2. n = IF nwrite >= nread THEN nwrite - nread ELSE nwrite + UMOD - nread
    BY Counts DEF PipeInv
  <2> HIDE DEF n
  <2>3. nwrite = IF nread + n < UMOD THEN nread + n ELSE nread + n - UMOD
    BY <1>1, <2>2, Sizes
  <2> QED
    BY <2>1, <2>3
<1> HIDE DEF n
<1>5. Place(nread, n + 1) = nwrite % PIPESIZE
  <2>1. n + 1 \in 1..PIPESIZE /\ nread + (n + 1) - 1 = nread + n
    BY <1>1, Sizes
  <2>2. (nread + (n + 1) - 1) % UMOD = nwrite
    BY <1>1, <1>4, <2>1, Further
  <2> QED
    BY <2>2 DEF Place
<1>6. \A i \in 1..n : Place(nread, i) # nwrite % PIPESIZE
  <2> SUFFICES ASSUME NEW i \in 1..n PROVE Place(nread, i) # nwrite % PIPESIZE
    OBVIOUS
  <2> DEFINE x == (nread + i - 1) % UMOD
             d == n + 1 - i
  <2>1. i \in 1..PIPESIZE /\ d \in 1..PIPESIZE - 1
    BY <1>1, Sizes
  <2>2. x \in 0..UMOD - 1
    BY <1>1, <2>1, PlaceCounter
  <2>3. x = IF nread + i - 1 < UMOD THEN nread + i - 1 ELSE nread + i - 1 - UMOD
    BY <1>1, <2>1, Further
  <2> HIDE DEF x
  <2>4. nwrite = x + d \/ nwrite = x + d - UMOD
    BY <1>1, <1>4, <2>1, <2>3, Sizes
  <2>5. x % PIPESIZE # nwrite % PIPESIZE
    <3> HIDE DEF d
    <3> QED
      BY <1>1, <2>1, <2>2, <2>4, PlacesDiffer
  <2> QED
    BY <2>5 DEF Place, x
<1>7. Contents(data', nread, n + 1) = Append(q, b)
  <2> DEFINE t == Contents(data', nread, n + 1)
  <2>1. n + 1 \in 0..PIPESIZE /\ n \in Nat
    BY <1>1, Sizes
  <2>2. q \in Seq(Bytes) /\ Len(q) = n /\ \A i \in 1..n : q[i] = data[Place(nread, i)]
    BY <1>1, ContentsSeq
  <2>3. /\ t \in Seq(Bytes) /\ Len(t) = n + 1
        /\ \A i \in 1..n + 1 : t[i] = data'[Place(nread, i)]
    BY <1>1, <1>3, <2>1, ContentsSeq
  <2> HIDE DEF q, t
  <2>4. /\ Append(q, b) \in Seq(Bytes) /\ Len(Append(q, b)) = n + 1
        /\ \A i \in 1..n : Append(q, b)[i] = q[i]
        /\ Append(q, b)[n + 1] = b
    BY <2>2, AppendProperties
  <2>5. ASSUME NEW i \in 1..n + 1 PROVE t[i] = Append(q, b)[i]
    <3>1. CASE i = n + 1
      BY <1>1, <1>2, <1>4, <1>5, <2>3, <2>4, <3>1
    <3>2. CASE i # n + 1
      <4>1. i \in 1..n /\ i \in 1..PIPESIZE
        BY <1>1, <3>2, Sizes
      <4>2. Place(nread, i) \in 0..PIPESIZE - 1
        BY <1>1, <4>1, PlaceCounter
      <4>3. data'[Place(nread, i)] = data[Place(nread, i)]
        BY <1>1, <1>2, <1>6, <4>1, <4>2
      <4> QED
        BY <2>2, <2>3, <2>4, <4>1, <4>3
    <3> QED
      BY <3>1, <3>2
  <2>6. t = Append(q, b)
    BY <2>3, <2>4, <2>5, SeqEqual
  <2> QED
    BY <2>6 DEF t
<1>8. Queue = q /\ Queue' = Contents(data', nread, n + 1) /\ Len(q) = n
  <2>1. Queue = q
    BY QueueContents DEF n
  <2>2. Queue' = Contents(data', nread, n + 1)
    BY <1>1, <1>3 DEF Queue, Contents, Place
  <2> QED
    BY <1>1, <2>1, <2>2, ContentsSeq
<1>9. UNCHANGED addr
  BY DEF WriteByte
<1> QED
  BY <1>1, <1>7, <1>8, <1>9 DEF Abs!Put

\* piperead() takes the oldest byte, the one at the place of nread: the others
\* move up one place.
LEMMA ReadByteGets ==
  ASSUME PipeInv, NEW p \in Procs, ReadByte(p)
  PROVE  p \in Readers /\ Abs!Get(p)
<1> DEFINE n == Count
           q == Contents(data, nread, n)
           t == Contents(data, nread', n - 1)
<1>1. /\ n \in 1..PIPESIZE /\ Count' = n - 1
      /\ nread \in 0..UMOD - 1 /\ nread' \in 0..UMOD - 1
      /\ nread' = IF nread + 1 < UMOD THEN nread + 1 ELSE 0
      /\ data \in [0..PIPESIZE - 1 -> Bytes] /\ data' = data
  <2>1. n \in 1..PIPESIZE
    BY ReadByteCount, Counts, Sizes DEF PipeInv, Fits
  <2>2. /\ Count' = n - 1 /\ nread' \in 0..UMOD - 1
        /\ nread' = IF nread + 1 < UMOD THEN nread + 1 ELSE 0
    BY ReadByteCount DEF PipeInv
  <2>3. /\ nread \in 0..UMOD - 1 /\ data \in [0..PIPESIZE - 1 -> Bytes]
        /\ data' = data
    BY DEF PipeInv, TypeOK, ReadByte
  <2> QED
    BY <2>1, <2>2, <2>3
<1>2. Queue = q /\ Queue' = t
  BY <1>1, QueueContents DEF Queue, Contents, Place
<1> HIDE DEF n
<1>3. n \in 0..PIPESIZE /\ n - 1 \in 0..PIPESIZE /\ n \in Nat
  BY <1>1, Sizes
<1>4. q \in Seq(Bytes) /\ Len(q) = n /\ \A i \in 1..n : q[i] = data[Place(nread, i)]
  BY <1>1, <1>3, ContentsSeq
<1>5. /\ t \in Seq(Bytes) /\ Len(t) = n - 1
      /\ \A i \in 1..n - 1 : t[i] = data[Place(nread', i)]
  BY <1>1, <1>3, ContentsSeq
<1>6. \A i \in 1..n - 1 : Place(nread', i) = Place(nread, i + 1)
  <2> SUFFICES ASSUME NEW i \in 1..n - 1 PROVE Place(nread', i) = Place(nread, i + 1)
    OBVIOUS
  <2> DEFINE x == (nread' + i - 1) % UMOD
             y == (nread + (i + 1) - 1) % UMOD
  <2>1. i \in 1..PIPESIZE /\ i + 1 \in 1..PIPESIZE
    BY <1>1, Sizes
  <2>2. x = IF nread' + i - 1 < UMOD THEN nread' + i - 1 ELSE nread' + i - 1 - UMOD
    BY <1>1, <2>1, Further
  <2>3. y = IF nread + (i + 1) - 1 < UMOD THEN nread + (i + 1) - 1
                                         ELSE nread + (i + 1) - 1 - UMOD
    BY <1>1, <2>1, Further
  <2> HIDE DEF x, y
  <2>4. x = y
    BY <1>1, <2>1, <2>2, <2>3, Sizes
  <2> QED
    BY <2>4 DEF Place, x, y
<1> HIDE DEF q, t
<1>7. q # <<>>
  BY <1>1, <1>4, EmptySeq
<1>8. /\ Tail(q) \in Seq(Bytes) /\ Len(Tail(q)) = n - 1
      /\ \A i \in 1..n - 1 : Tail(q)[i] = q[i + 1]
  BY <1>4, <1>7, HeadTailProperties
<1>9. ASSUME NEW i \in 1..n - 1 PROVE t[i] = Tail(q)[i]
  <2>1. i + 1 \in 1..n
    BY <1>3
  <2> QED
    BY <1>4, <1>5, <1>6, <1>8, <2>1
<1>10. t = Tail(q)
  BY <1>5, <1>8, <1>9, SeqEqual
<1>11. addr' = [addr EXCEPT ![p] = Head(q)]
  <2>1. Place(nread, 1) = nread % PIPESIZE
    <3>1. (nread + 1 - 1) % UMOD = nread
      BY <1>1, Sizes, Further
    <3> QED
      BY <3>1 DEF Place
  <2>2. Head(q) = q[1] /\ 1 \in 1..n
    BY <1>1, <1>4, <1>7, HeadTailProperties
  <2>3. Head(q) = data[nread % PIPESIZE]
    BY <1>4, <2>1, <2>2
  <2> QED
    BY <2>3 DEF ReadByte
<1>12. p \in Readers
  BY DEF PipeInv, Control, ReadByte, Holds, Procs
<1> QED
  BY <1>2, <1>7, <1>10, <1>11, <1>12 DEF Abs!Get

\* The pipe delivers its bytes in order, each once, none lost, for every ring
\* size and every counter width that is a multiple of it: every step of the
\* code stores a byte, copies the oldest one to its caller's buffer and takes it
\* out, or leaves the queue and the buffers alone.
THEOREM PipeImplementsFifo == Spec => ImplementsFifo
<1>1. Init => Abs!Init
  <2> SUFFICES ASSUME Init PROVE Queue = <<>>
    BY DEF Abs!Init, Init
  <2>1. Count = 0
    BY InitInv, Counts DEF PipeInv, Init, Empty
  <2> QED
    BY <2>1 DEF Queue
<1>2. PipeInv /\ [Next]_vars => [Abs!Next]_<<Queue, addr>>
  <2> SUFFICES ASSUME PipeInv, [Next]_vars
               PROVE  Abs!Put \/ (\E r \in Readers : Abs!Get(r))
                        \/ (Queue' = Queue /\ addr' = addr)
    BY DEF Abs!Next
  <2>1. CASE UNCHANGED ring
    BY <2>1 DEF ring, Queue, Count
  <2>2. CASE UNCHANGED vars
    BY <2>1, <2>2 DEF vars, ring
  <2>3. CASE Next
    <3>1. PICK p \in Procs :
            Step(p) \/ Close(p) \/ Kill(p) \/ \E n \in 1..MaxLen : Call(p, n)
      BY <2>3 DEF Next
    <3>2. WriteByte(p) \/ ReadByte(p) \/ UNCHANGED ring
      BY <3>1 DEF Step, Sleep, Wake, WriteFull, WriteDone, ReadTest, ReadDone,
                  Close, Kill, Call
    <3> QED
      BY <2>1, <3>2, WriteBytePuts, ReadByteGets
  <2> QED
    BY <2>2, <2>3
<1> QED
  BY <1>1, <1>2, Invariance, PTL DEF Spec, ImplementsFifo, Abs!Spec

=============================================================================
