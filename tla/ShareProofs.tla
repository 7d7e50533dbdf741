----------------------------- MODULE ShareProofs -----------------------------
(***************************************************************************)
(* The CPU-share accounts are exact, whatever the number of processes, as  *)
(* long as no request is so large that a sum overflows.                    *)
(***************************************************************************)
EXTENDS Share, FiniteSetTheorems, TLAPS

-----------------------------------------------------------------------------
(* The inductive invariant. *)

\* The three accounts, and what processes with a share of their own hold.
Accounts ==
  /\ strd_sum + strd_share_sum + mlfq_share = 100
  /\ strd_share_sum \in 0..20
  /\ Owned <= strd_share_sum
  /\ careful => Owned = strd_share_sum

\* What update_strd() divides by, as long as programs are careful, is not zero.
NoZero ==
  /\ \A p \in Procs : mode[p] = "MLFQ" => mlfq_share = 20
  /\ careful => \A p \in Procs : mode[p] = "SET" => share[p] > 0
  /\ careful /\ Few => ~trapped

Sound == TypeOK /\ Accounts /\ NoZero

ShareInv == ~wrapped => Sound

-----------------------------------------------------------------------------
(* Percents. *)

\* The percents of finitely many processes are finitely many.
LEMMA PercentsFinite ==
  ASSUME NEW S \in SUBSET Procs, NEW sh \in [Procs -> 0..100]
  PROVE  /\ IsFiniteSet(Percents(S, sh)) /\ Cardinality(Percents(S, sh)) \in Nat
         /\ \A p \in Procs : Percents(S, sh) \cap ({p} \X (1..sh[p]))
              = IF p \in S THEN {p} \X (1..sh[p]) ELSE {}
<1>1. IsFiniteSet(Procs \X (1..100))
  <2>1. \A n \in Int : IsFiniteSet(1..n)
    BY FS_Interval
  <2>2. 100 \in Int
    OBVIOUS
  <2> QED
    BY ShareAssumption, <2>1, <2>2, FS_Product, Zenon
<1>2. Percents(S, sh) \in SUBSET (Procs \X (1..100))
  BY DEF Percents
<1>3. IsFiniteSet(Percents(S, sh))
  BY <1>1, <1>2, FS_Subset
<1> QED
  BY <1>3, FS_CardinalityType DEF Percents

\* A process's percents are as many as its share.
LEMMA PercentsOfOne ==
  ASSUME NEW p \in Procs, NEW sh \in [Procs -> 0..100]
  PROVE  /\ IsFiniteSet({p} \X (1..sh[p]))
         /\ Cardinality({p} \X (1..sh[p])) = sh[p]
<1>1. sh[p] \in Int /\ sh[p] >= 0
  OBVIOUS
<1>2. IsFiniteSet(1..sh[p]) /\ Cardinality(1..sh[p]) = sh[p]
  BY <1>1, FS_Interval
<1>3. IsFiniteSet({p}) /\ Cardinality({p}) = 1
  BY FS_Singleton
<1>4. /\ IsFiniteSet({p} \X (1..sh[p]))
      /\ Cardinality({p} \X (1..sh[p])) = Cardinality({p}) * Cardinality(1..sh[p])
  BY <1>2, <1>3, FS_Product, Zenon
<1> QED
  BY <1>1, <1>2, <1>3, <1>4

\* One process more.
LEMMA PercentsAdd ==
  ASSUME NEW S \in SUBSET Procs, NEW p \in Procs \ S, NEW sh \in [Procs -> 0..100]
  PROVE  Cardinality(Percents(S \cup {p}, sh)) = Cardinality(Percents(S, sh)) + sh[p]
<1>1. Percents(S \cup {p}, sh) = Percents(S, sh) \cup ({p} \X (1..sh[p]))
  BY DEF Percents
<1>2. Percents(S, sh) \cap ({p} \X (1..sh[p])) = {}
  BY PercentsFinite
<1>3. IsFiniteSet(Percents(S, sh)) /\ Cardinality(Percents(S, sh)) \in Nat
  BY PercentsFinite
<1>4. IsFiniteSet({p} \X (1..sh[p])) /\ Cardinality({p} \X (1..sh[p])) = sh[p]
  BY PercentsOfOne
<1>5. Cardinality(Percents(S \cup {p}, sh)) =
        Cardinality(Percents(S, sh)) + Cardinality({p} \X (1..sh[p])) - Cardinality({})
  BY <1>1, <1>2, <1>3, <1>4, FS_Union, Zenon
<1> QED
  BY <1>3, <1>4, <1>5, FS_EmptySet

\* Only the shares of the processes themselves count.
LEMMA PercentsSame ==
  ASSUME NEW S \in SUBSET Procs, NEW sh, NEW th, \A p \in S : sh[p] = th[p]
  PROVE  Percents(S, sh) = Percents(S, th)
BY DEF Percents

\* The new shares of update_strd(), which divides.
LEMMA Division ==
  ASSUME NEW a \in 0..100, NEW n \in Nat \ {0}
  PROVE  /\ a \div n \in 0..100
         /\ a >= n => a \div n > 0
<1>1. /\ a \div n \in Int /\ a % n \in 0..n - 1
      /\ a = n * (a \div n) + (a % n)
  OBVIOUS
<1> DEFINE q == a \div n
           r == a % n
<1>2. q \in Int /\ r \in Int /\ r >= 0 /\ r < n /\ a = n * q + r
  BY <1>1
<1> HIDE DEF q, r
<1>3. q >= 0
  <2>1. q < 0 => n * q <= -n
    BY <1>2
  <2> QED
    BY <1>2, <2>1
<1>4. n * q >= q
  BY <1>2, <1>3
<1>5. q = 0 => n * q = 0
  BY <1>2
<1> QED
  BY <1>2, <1>3, <1>4, <1>5 DEF q

\* An int is what it is, and division of what is not negative is \div.
LEMMA Ints ==
  /\ \A x \in -MAXINT..MAXINT - 1 : Wrap(x) = x
  /\ \A a \in Nat : \A n : Quot(a, n) = a \div n
<1>1. ASSUME NEW x \in -MAXINT..MAXINT - 1 PROVE Wrap(x) = x
  <2> DEFINE y == x + MAXINT
             w == 2 * MAXINT
  <2>1. y \in Nat /\ w \in Nat \ {0} /\ y < w /\ y - MAXINT = x
    BY ShareAssumption
  <2>2. y % w = y
    <3> HIDE DEF y, w
    <3> QED
      BY <2>1
  <2> QED
    BY <2>1, <2>2 DEF Wrap
<1> QED
  BY <1>1 DEF Quot

\* get_num() is positive if it has counted somebody, and has not counted the
\* caller.
LEMMA CountedSome ==
  ASSUME TypeOK, NEW p \in Procs, state[p] = "RUNNING", NEW m, NEW md
  PROVE  /\ get_num(m, md) \in Nat
         /\ get_num(m, md) <= Cardinality(Procs) - 1
         /\ \A q \in Procs : state[q] = "RUNNABLE" /\ md[q] = m => get_num(m, md) > 0
<1>1. IsFiniteSet(Procs \ {p}) /\ Cardinality(Procs \ {p}) = Cardinality(Procs) - 1
  BY ShareAssumption, FS_RemoveElement
<1>2. Counted(m, md) \in SUBSET (Procs \ {p})
  BY DEF Counted
<1>3. IsFiniteSet(Counted(m, md)) /\ Cardinality(Counted(m, md)) <= Cardinality(Procs) - 1
  BY <1>1, <1>2, FS_Subset
<1>4. Cardinality(Counted(m, md)) \in Nat
      /\ (Cardinality(Counted(m, md)) = 0 <=> Counted(m, md) = {})
  BY <1>3, FS_CardinalityType, FS_EmptySet
<1> QED
  BY <1>3, <1>4 DEF get_num, Counted

\* What update_strd() leaves alone, and when it does not divide by zero.
LEMMA UpdateShares ==
  ASSUME TypeOK, NEW p \in Procs, state[p] = "RUNNING",
         NEW md \in [Procs -> {"STRD", "SET", "MLFQ"}], NEW sh \in [Procs -> 0..100],
         NEW sum \in 0..100, NEW ms \in 0..100, update_strd(md, sh, sum, ms)
  PROVE  /\ mode' = md /\ share' \in [Procs -> 0..100] /\ trapped' \in BOOLEAN
         /\ share'[p] = sh[p]
         /\ \A q \in Procs : md[q] = "SET" => share'[q] = sh[q]
         /\ /\ Few /\ sum >= 20
            /\ \A q \in Procs : state[q] = "RUNNABLE" /\ md[q] = "SET" => sh[q] > 0
            /\ \A q \in Procs : state[q] = "RUNNABLE" /\ md[q] = "MLFQ" => ms >= 20
            => ~trapped'
<1> DEFINE n1 == get_num("STRD", md)
           n2 == get_num("MLFQ", md)
<1>1. /\ n1 \in Nat /\ n1 <= Cardinality(Procs) - 1
      /\ \A q \in Procs : state[q] = "RUNNABLE" /\ md[q] = "STRD" => n1 > 0
      /\ n2 \in Nat /\ n2 <= Cardinality(Procs) - 1
      /\ \A q \in Procs : state[q] = "RUNNABLE" /\ md[q] = "MLFQ" => n2 > 0
  BY CountedSome
<1>2. Cardinality(Procs) \in Nat
  BY ShareAssumption, FS_CardinalityType
<1>3. \A q \in Procs : /\ md[q] = "STRD" => NewShare(q, md, sh, sum, ms) = sum \div n1
                       /\ md[q] = "SET" => NewShare(q, md, sh, sum, ms) = sh[q]
                       /\ md[q] = "MLFQ" => NewShare(q, md, sh, sum, ms) = ms \div n2
  <2>1. /\ Quot(sum, n1) = sum \div n1 /\ Quot(ms, n2) = ms \div n2
    BY Ints
  <2> QED
    BY <2>1 DEF NewShare
<1> HIDE DEF n1, n2
<1>4. n1 > 0 => sum \div n1 \in 0..100 /\ (sum >= n1 => sum \div n1 > 0)
  <2>1. n1 > 0 => n1 \in Nat \ {0}
    BY <1>1
  <2> QED
    BY <2>1, Division, Zenon
<1>5. n2 > 0 => ms \div n2 \in 0..100 /\ (ms >= n2 => ms \div n2 > 0)
  <2>1. n2 > 0 => n2 \in Nat \ {0}
    BY <1>1
  <2> QED
    BY <2>1, Division, Zenon
<1>6. /\ mode' = md
      /\ share' = [q \in Procs |-> IF state[q] = "RUNNABLE"
                                      THEN NewShare(q, md, sh, sum, ms) ELSE sh[q]]
      /\ trapped' = \E q \in Procs : state[q] = "RUNNABLE" /\ share'[q] = 0
  BY DEF update_strd
<1>7. ASSUME NEW q \in Procs, state[q] = "RUNNABLE"
      PROVE  share'[q] \in 0..100
  BY <1>1, <1>3, <1>4, <1>5, <1>6, <1>7
<1>8. share' \in [Procs -> 0..100]
  BY <1>6, <1>7
<1>9. ASSUME Few, sum >= 20,
             \A q \in Procs : state[q] = "RUNNABLE" /\ md[q] = "SET" => sh[q] > 0,
             \A q \in Procs : state[q] = "RUNNABLE" /\ md[q] = "MLFQ" => ms >= 20,
             NEW q \in Procs, state[q] = "RUNNABLE"
      PROVE  share'[q] > 0
  <2>1. n1 <= 20 /\ n2 <= 20
    BY <1>1, <1>2, <1>9 DEF Few
  <2> QED
    BY <1>1, <1>3, <1>4, <1>5, <1>6, <1>9, <2>1
<1>10. trapped' \in BOOLEAN
  BY <1>6
<1>11. /\ share'[p] = sh[p]
       /\ \A q \in Procs : md[q] = "SET" => share'[q] = sh[q]
  BY <1>3, <1>6
<1> QED
  BY <1>6, <1>8, <1>9, <1>10, <1>11

\* The percents of a set of processes, one of them apart.
LEMMA PercentsApart ==
  ASSUME NEW S \in SUBSET Procs, NEW p \in Procs, NEW sh \in [Procs -> 0..100]
  PROVE  /\ Cardinality(Percents(S, sh)) =
               Cardinality(Percents(S \ {p}, sh)) + (IF p \in S THEN sh[p] ELSE 0)
         /\ Cardinality(Percents(S \ {p}, sh)) \in Nat
<1>1. Cardinality(Percents(S \ {p}, sh)) \in Nat
  BY PercentsFinite
<1>2. CASE p \in S
  <2>1. S = (S \ {p}) \cup {p} /\ p \in Procs \ (S \ {p}) /\ S \ {p} \in SUBSET Procs
    BY <1>2
  <2> QED
    BY <1>1, <1>2, <2>1, PercentsAdd
<1>3. CASE p \notin S
  <2>1. S = S \ {p}
    BY <1>3
  <2> QED
    BY <1>1, <1>3, <2>1
<1> QED
  BY <1>2, <1>3

\* What a call of p makes of the percents that are owned, if it leaves the other
\* processes with a share of their own alone.
LEMMA OwnedApart ==
  ASSUME TypeOK, NEW p \in Procs, share' \in [Procs -> 0..100],
         \A q \in Procs \ {p} : q \in Setters' <=> q \in Setters,
         \A q \in Setters \ {p} : share'[q] = share[q]
  PROVE  \E n \in Nat : /\ Owned = n + (IF p \in Setters THEN share[p] ELSE 0)
                        /\ Owned' = n + (IF p \in Setters' THEN share'[p] ELSE 0)
<1>1. Setters \in SUBSET Procs /\ Setters' \in SUBSET Procs
  BY DEF Setters
<1>2. Setters' \ {p} = Setters \ {p}
  BY <1>1
<1>3. Percents(Setters' \ {p}, share') = Percents(Setters \ {p}, share)
  BY <1>1, <1>2, PercentsSame
<1>4. share \in [Procs -> 0..100]
  BY DEF TypeOK
<1>5. Owned' = Cardinality(Percents(Setters', share'))
  BY DEF Owned, Percents
<1> DEFINE n == Cardinality(Percents(Setters \ {p}, share))
<1>6. n \in Nat /\ Owned = n + (IF p \in Setters THEN share[p] ELSE 0)
  BY <1>1, <1>4, PercentsApart DEF Owned
<1>7. Owned' = n + (IF p \in Setters' THEN share'[p] ELSE 0)
  BY <1>1, <1>3, <1>5, PercentsApart
<1> QED
  BY <1>6, <1>7

-----------------------------------------------------------------------------
(* The invariant is inductive. *)

\* A process starts, or moves between states: nobody's share changes hands.
LEMMA StartStep ==
  ASSUME Sound, NEW p \in Procs, Start(p)
  PROVE  Sound'
<1> USE DEF Sound
<1>1. TypeOK'
  BY DEF TypeOK, Start, accounts
<1>2. p \notin Setters /\ p \notin Setters'
  BY DEF TypeOK, Start, Setters
<1>3. Owned' = Owned
  <2>1. PICK n \in Nat : /\ Owned = n + (IF p \in Setters THEN share[p] ELSE 0)
                         /\ Owned' = n + (IF p \in Setters' THEN share'[p] ELSE 0)
    BY <1>1, OwnedApart DEF TypeOK, Start, Setters
  <2> QED
    BY <1>2, <2>1
<1>4. Accounts'
  BY <1>3 DEF Accounts, Start, accounts
<1>5. NoZero'
  BY DEF TypeOK, NoZero, Start, accounts, Few
<1> QED
  BY <1>1, <1>4, <1>5

\* scheduler(), yield(), sleep() and wakeup().
LEMMA MoveStep ==
  ASSUME Sound, NEW p \in Procs,
         NEW from \in {"RUNNABLE", "RUNNING", "SLEEPING"},
         NEW to \in {"RUNNABLE", "RUNNING", "SLEEPING"}, Move(p, from, to)
  PROVE  Sound'
<1> USE DEF Sound
<1>1. TypeOK'
  BY DEF TypeOK, Move, accounts, perProc
<1>2. Setters' = Setters /\ share' = share
  BY DEF TypeOK, Move, Setters, perProc
<1>3. Owned' = Owned
  BY <1>2 DEF Owned, Percents
<1>4. Accounts'
  BY <1>3 DEF Accounts, Move, accounts
<1>5. NoZero'
  BY DEF NoZero, Move, accounts, perProc, Few
<1> QED
  BY <1>1, <1>4, <1>5

\* cpu_share(n) within the limit.
LEMMA CpuShareStep ==
  ASSUME Sound, NEW p \in Procs, NEW n \in Requests, CpuShare(p, n), ~wrapped'
  PROVE  Sound'
<1> USE DEF Sound
<1> DEFINE md == [mode EXCEPT ![p] = "SET"]
           sh == [share EXCEPT ![p] = n]
<1>0. /\ strd_share_sum + n <= 20 /\ n >= 0 /\ n \in Int
      /\ Wrap(strd_share_sum + n) = strd_share_sum + n /\ Wrap(strd_sum - n) = strd_sum - n
  <2>1. /\ n >= 0 /\ n \in Int /\ strd_share_sum + n < MAXINT
        /\ Wrap(strd_share_sum + n) <= 20
    <3>1. n >= 0 /\ ~(strd_share_sum + n >= MAXINT) /\ Wrap(strd_share_sum + n) <= 20
      BY Zenon DEF CpuShare, Asks
    <3>2. n \in Int /\ strd_share_sum \in Int /\ MAXINT \in Int
      BY ShareAssumption DEF TypeOK
    <3> QED
      BY <3>1, <3>2
  <2>2. strd_share_sum + n \in -MAXINT..MAXINT - 1
    BY <2>1, ShareAssumption DEF TypeOK, Accounts
  <2>3. strd_share_sum + n <= 20
    BY <2>1, <2>2, Ints
  <2>4. strd_sum - n \in -MAXINT..MAXINT - 1
    BY <2>1, <2>3, ShareAssumption DEF TypeOK, Accounts
  <2> QED
    BY <2>1, <2>2, <2>3, <2>4, Ints
<1>1. /\ state[p] = "RUNNING" /\ state' = state /\ mlfq_share' = mlfq_share
      /\ careful' = (careful /\ mode[p] = "STRD" /\ n > 0)
      /\ strd_share_sum' = strd_share_sum + n /\ strd_sum' = strd_sum - n
      /\ topn' = topn /\ update_strd(md, sh, strd_sum - n, mlfq_share)
  <2>1. /\ state[p] = "RUNNING" /\ state' = state /\ mlfq_share' = mlfq_share
        /\ careful' = (careful /\ mode[p] = "STRD" /\ n > 0) /\ topn' = topn
        /\ strd_share_sum' = Wrap(strd_share_sum + n) /\ strd_sum' = Wrap(strd_sum - n)
        /\ update_strd(md, sh, strd_sum', mlfq_share)
    BY DEF CpuShare, Asks, Calls
  <2> QED
    BY <1>0, <2>1, Zenon
<1>2. n \in 0..20 /\ strd_share_sum' \in 0..20 /\ strd_sum - n \in 20..100
      /\ mlfq_share \in {0, 20}
  BY <1>0, <1>1 DEF TypeOK, Accounts
<1>3. md \in [Procs -> {"STRD", "SET", "MLFQ"}] /\ sh \in [Procs -> 0..100]
  BY <1>2 DEF TypeOK
<1>4. /\ mode' = md /\ share' \in [Procs -> 0..100] /\ trapped' \in BOOLEAN
      /\ share'[p] = sh[p] /\ \A q \in Procs : md[q] = "SET" => share'[q] = sh[q]
      /\ /\ Few
         /\ \A q \in Procs : state[q] = "RUNNABLE" /\ md[q] = "SET" => sh[q] > 0
         /\ \A q \in Procs : state[q] = "RUNNABLE" /\ md[q] = "MLFQ" => mlfq_share >= 20
         => ~trapped'
  <2> DEFINE sum == strd_sum - n
  <2>1. sum \in 0..100 /\ sum >= 20 /\ mlfq_share \in 0..100
    BY <1>2
  <2>2. TypeOK /\ update_strd(md, sh, sum, mlfq_share)
    BY <1>1
  <2> HIDE DEF md, sh, sum
  <2>3. /\ mode' = md /\ share' \in [Procs -> 0..100] /\ trapped' \in BOOLEAN
        /\ share'[p] = sh[p]
        /\ \A q \in Procs : md[q] = "SET" => share'[q] = sh[q]
        /\ /\ Few /\ sum >= 20
           /\ \A q \in Procs : state[q] = "RUNNABLE" /\ md[q] = "SET" => sh[q] > 0
           /\ \A q \in Procs : state[q] = "RUNNABLE" /\ md[q] = "MLFQ" => mlfq_share >= 20
           => ~trapped'
    BY <1>1, <1>3, <2>1, <2>2, UpdateShares, Zenon
  <2> QED
    BY <2>1, <2>3, Zenon
<1>5. share'[p] = n /\ mode'[p] = "SET"
      /\ \A q \in Procs \ {p} : mode'[q] = mode[q]
                              /\ (mode[q] = "SET" => share'[q] = share[q])
  BY <1>3, <1>4 DEF TypeOK
<1>6. TypeOK'
  BY <1>1, <1>2, <1>3, <1>4 DEF TypeOK, Accounts
<1>7. /\ p \in Setters' /\ \A q \in Procs \ {p} : q \in Setters' <=> q \in Setters
      /\ p \in Setters <=> mode[p] = "SET"
  BY <1>1, <1>5 DEF Setters
<1>8. PICK r \in Nat : /\ Owned = r + (IF p \in Setters THEN share[p] ELSE 0)
                       /\ Owned' = r + (IF p \in Setters' THEN share'[p] ELSE 0)
  BY <1>4, <1>5, <1>7, OwnedApart DEF Setters
<1>9. Accounts'
  <2>1. share[p] \in Nat
    BY DEF TypeOK
  <2>2. Owned' = r + n /\ r <= Owned /\ n \in Nat
    BY <1>2, <1>5, <1>7, <1>8, <2>1
  <2>3. careful' => careful /\ r = Owned
    <3>1. careful' => careful /\ mode[p] = "STRD"
      BY <1>1, Zenon
    <3>2. mode[p] = "STRD" => r = Owned
      BY <1>7, <1>8
    <3> QED
      BY <3>1, <3>2, Zenon
  <2>4. Owned <= strd_share_sum /\ (careful => Owned = strd_share_sum) /\ Owned \in Nat
    BY <1>8, <2>1 DEF Accounts
  <2>5. Owned' <= strd_share_sum' /\ (careful' => Owned' = strd_share_sum')
    BY <1>1, <1>2, <1>8, <2>2, <2>3, <2>4 DEF TypeOK
  <2>6. strd_sum' + strd_share_sum' + mlfq_share' = 100
    BY <1>1, <1>2 DEF TypeOK, Accounts
  <2> QED
    BY <1>2, <2>5, <2>6 DEF Accounts
<1>10. NoZero'
  <2>1. \A q \in Procs : mode'[q] = "MLFQ" => mlfq_share' = 20
    BY <1>1, <1>5 DEF NoZero
  <2>2. careful' => \A q \in Procs : mode'[q] = "SET" => share'[q] > 0
    BY <1>1, <1>5 DEF NoZero
  <2>3. careful' /\ Few => ~trapped'
    BY <1>1, <1>4, <1>5, <2>1, <2>2 DEF NoZero
  <2> QED
    BY <2>1, <2>2, <2>3 DEF NoZero, Few
<1> QED
  BY <1>6, <1>9, <1>10

\* cpu_share(n) beyond the limit.
LEMMA CpuShareRefusedStep ==
  ASSUME Sound, NEW p \in Procs, NEW n \in Requests, CpuShareRefused(p, n), ~wrapped'
  PROVE  Sound'
<1> USE DEF Sound
<1> DEFINE md == [mode EXCEPT ![p] = "STRD"]
           m == get_num("STRD", md)
           left == IF get_num("MLFQ", md) > 0 THEN 80 - strd_share_sum
                                              ELSE 100 - strd_share_sum
           sh == [share EXCEPT ![p] = Quot(left, m)]
<1>1. /\ state[p] = "RUNNING" /\ state' = state /\ ~careful'
      /\ UNCHANGED <<strd_sum, strd_share_sum, mlfq_share, topn>>
  BY DEF CpuShareRefused, Asks, Calls, accounts
<1>2. CASE trapped' = TRUE /\ UNCHANGED <<mode, share>>
  <2>1. Setters' = Setters /\ share' = share
    BY <1>1, <1>2 DEF Setters
  <2>2. Owned' = Owned
    BY <2>1 DEF Owned, Percents
  <2>3. careful' \in BOOLEAN
    BY DEF CpuShareRefused, Asks, Calls
  <2> QED
    BY <1>1, <1>2, <2>2, <2>3 DEF TypeOK, Accounts, NoZero, Few
<1>3. CASE m # 0 /\ update_strd(md, sh, strd_sum, mlfq_share)
  <2>1. strd_sum \in 0..100 /\ mlfq_share \in 0..100 /\ left \in 0..100
    BY DEF TypeOK, Accounts
  <2>2. md \in [Procs -> {"STRD", "SET", "MLFQ"}] /\ m \in Nat \ {0}
    BY <1>1, <1>3, CountedSome DEF TypeOK
  <2>3. sh \in [Procs -> 0..100]
    <3> HIDE DEF left, m
    <3>1. Quot(left, m) = left \div m
      BY <2>1, Ints
    <3>2. left \div m \in 0..100
      BY <2>1, <2>2, Division
    <3> QED
      BY <3>1, <3>2 DEF TypeOK
  <2>4. /\ mode' = md /\ share' \in [Procs -> 0..100] /\ trapped' \in BOOLEAN
        /\ \A q \in Procs : md[q] = "SET" => share'[q] = sh[q]
    <3> HIDE DEF md, sh
    <3>1. TypeOK /\ update_strd(md, sh, strd_sum, mlfq_share)
      BY <1>3
    <3>2. /\ mode' = md /\ share' \in [Procs -> 0..100] /\ trapped' \in BOOLEAN
          /\ share'[p] = sh[p]
          /\ \A q \in Procs : md[q] = "SET" => share'[q] = sh[q]
          /\ /\ Few /\ strd_sum >= 20
             /\ \A q \in Procs : state[q] = "RUNNABLE" /\ md[q] = "SET" => sh[q] > 0
             /\ \A q \in Procs : state[q] = "RUNNABLE" /\ md[q] = "MLFQ" => mlfq_share >= 20
             => ~trapped'
      BY <1>1, <2>1, <2>2, <2>3, <3>1, UpdateShares, Zenon
    <3> QED
      BY <3>2, Zenon
  <2>5. mode'[p] = "STRD" /\ \A q \in Procs \ {p} : mode'[q] = mode[q]
                              /\ (mode[q] = "SET" => share'[q] = share[q])
    BY <2>3, <2>4 DEF TypeOK
  <2>6. careful' \in BOOLEAN
    BY DEF CpuShareRefused, Asks, Calls
  <2>7. TypeOK'
    BY <1>1, <2>2, <2>4, <2>6 DEF TypeOK
  <2>8. p \notin Setters' /\ \A q \in Procs \ {p} : q \in Setters' <=> q \in Setters
    BY <1>1, <2>5 DEF Setters
  <2>9. PICK r \in Nat : /\ Owned = r + (IF p \in Setters THEN share[p] ELSE 0)
                         /\ Owned' = r + (IF p \in Setters' THEN share'[p] ELSE 0)
    BY <2>4, <2>5, <2>8, OwnedApart DEF Setters
  <2>10. Accounts'
    <3>1. share[p] \in Nat
      BY DEF TypeOK
    <3> QED
      BY <1>1, <2>8, <2>9, <3>1 DEF Accounts, TypeOK
  <2>11. NoZero'
    BY <1>1, <2>5 DEF NoZero
  <2> QED
    BY <2>7, <2>10, <2>11
<1> QED
  BY <1>2, <1>3 DEF CpuShareRefused, perProc

\* run_MLFQ().
LEMMA RunMLFQStep ==
  ASSUME Sound, NEW p \in Procs, RunMLFQ(p)
  PROVE  Sound'
<1> USE DEF Sound
<1> DEFINE md == [mode EXCEPT ![p] = "MLFQ"]
<1>1. /\ state[p] = "RUNNING" /\ state' = state /\ topn' = topn + 1
      /\ careful' = (careful /\ mode[p] = "STRD")
      /\ mlfq_share' = (IF mlfq_share = 0 THEN 20 ELSE mlfq_share)
      /\ strd_sum' = (IF mlfq_share = 0 THEN strd_sum - 20 ELSE strd_sum)
      /\ strd_share_sum' = strd_share_sum /\ update_strd(md, share, strd_sum', mlfq_share')
  <2>1. Wrap(strd_sum - 20) = strd_sum - 20
    <3>1. strd_sum - 20 \in -MAXINT..MAXINT - 1
      BY ShareAssumption DEF TypeOK, Accounts
    <3> QED
      BY <3>1, Ints
  <2> QED
    BY <2>1 DEF RunMLFQ, Calls
<1>2. /\ mlfq_share' = 20 /\ strd_sum' \in 0..100 /\ strd_sum' >= 20
      /\ strd_sum' + strd_share_sum' + mlfq_share' = 100
  BY <1>1 DEF TypeOK, Accounts
<1>3. md \in [Procs -> {"STRD", "SET", "MLFQ"}] /\ share \in [Procs -> 0..100]
  BY DEF TypeOK
<1>4. /\ mode' = md /\ share' \in [Procs -> 0..100] /\ trapped' \in BOOLEAN
      /\ \A q \in Procs : md[q] = "SET" => share'[q] = share[q]
      /\ /\ Few
         /\ \A q \in Procs : state[q] = "RUNNABLE" /\ md[q] = "SET" => share[q] > 0
         => ~trapped'
  <2> DEFINE sum == strd_sum'
             ms == mlfq_share'
  <2>1. sum \in 0..100 /\ ms \in 0..100 /\ sum >= 20 /\ ms >= 20
    BY <1>2
  <2>2. TypeOK /\ state[p] = "RUNNING" /\ update_strd(md, share, sum, ms)
    BY <1>1
  <2> HIDE DEF md, sum, ms
  <2>3. /\ mode' = md /\ share' \in [Procs -> 0..100] /\ trapped' \in BOOLEAN
        /\ share'[p] = share[p]
        /\ \A q \in Procs : md[q] = "SET" => share'[q] = share[q]
        /\ /\ Few /\ sum >= 20
           /\ \A q \in Procs : state[q] = "RUNNABLE" /\ md[q] = "SET" => share[q] > 0
           /\ \A q \in Procs : state[q] = "RUNNABLE" /\ md[q] = "MLFQ" => ms >= 20
           => ~trapped'
    BY <1>3, <2>1, <2>2, UpdateShares, Zenon
  <2> QED
    BY <2>1, <2>3, Zenon
<1>5. mode'[p] = "MLFQ" /\ \A q \in Procs \ {p} : mode'[q] = mode[q]
                             /\ (mode[q] = "SET" => share'[q] = share[q])
  BY <1>3, <1>4 DEF TypeOK
<1>6. TypeOK'
  BY <1>1, <1>2, <1>3, <1>4 DEF TypeOK
<1>7. /\ p \notin Setters' /\ \A q \in Procs \ {p} : q \in Setters' <=> q \in Setters
      /\ p \in Setters <=> mode[p] = "SET"
  BY <1>1, <1>5 DEF Setters
<1>8. PICK r \in Nat : /\ Owned = r + (IF p \in Setters THEN share[p] ELSE 0)
                       /\ Owned' = r + (IF p \in Setters' THEN share'[p] ELSE 0)
  BY <1>4, <1>5, <1>7, OwnedApart DEF Setters
<1>9. Accounts'
  <2>1. share[p] \in Nat
    BY DEF TypeOK
  <2>2. careful' => careful /\ mode[p] = "STRD"
    BY <1>1, Zenon
  <2>3. Owned' = r /\ r <= Owned /\ (mode[p] = "STRD" => r = Owned)
    BY <1>7, <1>8, <2>1
  <2>4. /\ Owned <= strd_share_sum /\ (careful => Owned = strd_share_sum)
        /\ Owned \in Nat /\ strd_share_sum \in Int
    BY <1>7, <1>8, <2>1 DEF Accounts, TypeOK
  <2>5. Owned' <= strd_share_sum' /\ (careful' => Owned' = strd_share_sum')
    BY <1>1, <2>2, <2>3, <2>4
  <2> QED
    BY <1>1, <1>2, <2>5 DEF Accounts
<1>10. NoZero'
  <2>1. careful' => careful
    BY <1>1, Zenon
  <2>2. \A q \in Procs : md[q] = "SET" => q # p /\ mode[q] = "SET"
    BY <1>3, <1>4, <1>5
  <2>3. \A q \in Procs : mode'[q] = "MLFQ" => mlfq_share' = 20
    BY <1>2
  <2>4. careful' => \A q \in Procs : mode'[q] = "SET" => share[q] > 0 /\ share'[q] = share[q]
    BY <1>4, <2>1, <2>2, Zenon DEF NoZero
  <2>5. careful' /\ Few => ~trapped'
    BY <1>4, <2>4, Zenon
  <2>6. careful' => \A q \in Procs : mode'[q] = "SET" => share'[q] > 0
    BY <2>4
  <2> QED
    BY <2>3, <2>5, <2>6, Zenon DEF NoZero, Few
<1> QED
  BY <1>6, <1>9, <1>10

\* exit() gives a share of its own back.
LEMMA ExitStep ==
  ASSUME Sound, NEW p \in Procs, Exit(p)
  PROVE  Sound'
<1> USE DEF Sound
<1> DEFINE back == IF mode[p] = "SET" THEN share[p] ELSE 0
<1>1. /\ state[p] = "RUNNING" /\ state' = [state EXCEPT ![p] = "UNUSED"]
      /\ strd_sum' = strd_sum + back /\ strd_share_sum' = strd_share_sum - back
      /\ UNCHANGED <<mode, share, mlfq_share, topn, trapped, careful>>
  <2>1. back \in 0..100 /\ strd_sum \in 0..100 /\ strd_share_sum \in 0..20
    BY DEF TypeOK, Accounts
  <2>2. p \in Setters => back <= strd_share_sum
    <3>1. state[p] = "RUNNING" /\ Setters \in SUBSET Procs /\ share \in [Procs -> 0..100]
      BY DEF Exit, Setters, TypeOK
    <3>2. /\ Owned = Cardinality(Percents(Setters \ {p}, share))
                       + (IF p \in Setters THEN share[p] ELSE 0)
          /\ Cardinality(Percents(Setters \ {p}, share)) \in Nat
      BY <3>1, PercentsApart DEF Owned
    <3>3. p \in Setters => back = share[p]
      BY DEF Setters
    <3> QED
      BY <2>1, <3>2, <3>3 DEF Accounts
  <2>3. p \notin Setters => back = 0
    BY DEF Exit, Setters
  <2>4. strd_sum + back \in -MAXINT..MAXINT - 1 /\ strd_share_sum - back \in -MAXINT..MAXINT - 1
    <3>1. back <= 20
      BY <2>1, <2>2, <2>3
    <3> HIDE DEF back
    <3> QED
      BY <2>1, <3>1, ShareAssumption
  <2>5. Wrap(strd_sum + back) = strd_sum + back
        /\ Wrap(strd_share_sum - back) = strd_share_sum - back
    BY <2>4, Ints
  <2> QED
    BY <2>5 DEF Exit, perProc
<1>2. back \in Nat
  BY DEF TypeOK
<1>3. TypeOK'
  BY <1>1, <1>2 DEF TypeOK
<1>4. /\ p \notin Setters' /\ \A q \in Procs \ {p} : q \in Setters' <=> q \in Setters
      /\ p \in Setters <=> mode[p] = "SET"
  BY <1>1 DEF Setters, TypeOK
<1>5. PICK r \in Nat : /\ Owned = r + (IF p \in Setters THEN share[p] ELSE 0)
                       /\ Owned' = r + (IF p \in Setters' THEN share'[p] ELSE 0)
  BY <1>1, <1>3, <1>4, OwnedApart DEF TypeOK
<1>6. Owned = r + back /\ Owned' = r
  BY <1>2, <1>4, <1>5
<1>7. Accounts'
  BY <1>1, <1>2, <1>6 DEF Accounts, TypeOK
<1>8. NoZero'
  BY <1>1 DEF NoZero, Few
<1> QED
  BY <1>3, <1>7, <1>8

\* thread_exit() gives nothing back: what is accounted is no less than before.
LEMMA ThreadExitStep ==
  ASSUME Sound, NEW p \in Procs, ThreadExit(p)
  PROVE  Sound'
<1> USE DEF Sound
<1>1. /\ state[p] = "RUNNING" /\ state' = [state EXCEPT ![p] = "UNUSED"]
      /\ UNCHANGED <<mode, share, strd_sum, strd_share_sum, mlfq_share, topn, trapped>>
      /\ careful' = (careful /\ mode[p] # "SET")
  BY DEF ThreadExit, perProc, accounts
<1>2. TypeOK'
  BY <1>1 DEF TypeOK
<1>3. /\ p \notin Setters' /\ \A q \in Procs \ {p} : q \in Setters' <=> q \in Setters
      /\ p \in Setters <=> mode[p] = "SET"
  BY <1>1 DEF Setters, TypeOK
<1>4. PICK r \in Nat : /\ Owned = r + (IF p \in Setters THEN share[p] ELSE 0)
                       /\ Owned' = r + (IF p \in Setters' THEN share'[p] ELSE 0)
  BY <1>1, <1>2, <1>3, OwnedApart DEF TypeOK
<1>5. Owned' = r /\ r <= Owned /\ (mode[p] # "SET" => Owned = r) /\ Owned \in Nat
  <2>1. share[p] \in Nat
    BY DEF TypeOK
  <2> QED
    BY <1>3, <1>4, <2>1
<1>6. careful' => careful /\ mode[p] # "SET"
  BY <1>1, Zenon
<1>7. Accounts'
  BY <1>1, <1>5, <1>6 DEF Accounts, TypeOK
<1>8. NoZero'
  BY <1>1, <1>6 DEF NoZero, Few
<1> QED
  BY <1>2, <1>7, <1>8

\* cpu_share() panics: the accounts stay, and the program was not careful.
LEMMA CpuSharePanicsStep ==
  ASSUME Sound, NEW p \in Procs, NEW n \in Requests, CpuSharePanics(p, n)
  PROVE  Sound'
<1> USE DEF Sound
<1>1. /\ UNCHANGED <<state, mode, share, strd_sum, strd_share_sum, mlfq_share, topn>>
      /\ trapped' = TRUE /\ careful' = FALSE
  BY DEF CpuSharePanics, Calls, perProc, accounts
<1>2. Setters' = Setters /\ Owned' = Owned
  BY <1>1 DEF Setters, Owned, Percents
<1> QED
  BY <1>1, <1>2 DEF TypeOK, Accounts, NoZero, Few

\* The initial state.
LEMMA InitSound == Init => Sound
<1> SUFFICES ASSUME Init PROVE Sound
  OBVIOUS
<1>1. TypeOK
  <2>1. topn \in Nat /\ trapped \in BOOLEAN /\ careful \in BOOLEAN
    BY 0 \in Nat, Zenon DEF Init
  <2> QED
    BY <2>1 DEF Init, TypeOK
<1>2. Setters = {}
  BY DEF Init, Setters
<1>3. Owned = 0
  BY <1>2, FS_EmptySet DEF Owned, Percents
<1> QED
  BY <1>1, <1>3 DEF Init, Sound, Accounts, NoZero

\* The invariant holds in every reachable state.
THEOREM ShareInvariance == Spec => []ShareInv
<1>1. ShareInv /\ [Next]_vars => ShareInv'
  <2> SUFFICES ASSUME ShareInv, [Next]_vars, ~wrapped' PROVE Sound'
    BY DEF ShareInv
  <2>1. CASE UNCHANGED vars
    BY <2>1 DEF ShareInv, Sound, vars, TypeOK, Accounts, NoZero, Owned, Percents,
                Setters, Few
  <2>2. CASE Next
    <3>1. PICK p \in Procs :
            \/ Start(p) \/ RunMLFQ(p) \/ Exit(p) \/ ThreadExit(p)
            \/ Move(p, "RUNNABLE", "RUNNING") \/ Move(p, "RUNNING", "RUNNABLE")
            \/ Move(p, "RUNNING", "SLEEPING") \/ Move(p, "SLEEPING", "RUNNABLE")
            \/ \E n \in Requests : \/ CpuSharePanics(p, n)
                                  \/ CpuShare(p, n) \/ CpuShareRefused(p, n)
      BY <2>2 DEF Next
    <3>2. ~wrapped
      BY <3>1 DEF Start, RunMLFQ, Exit, ThreadExit, Move, CpuSharePanics, CpuShare,
                  CpuShareRefused, Asks
    <3>3. Sound
      BY <3>2 DEF ShareInv
    <3> QED
      BY <3>1, <3>3, StartStep, RunMLFQStep, ExitStep, ThreadExitStep, MoveStep,
         CpuSharePanicsStep, CpuShareStep, CpuShareRefusedStep
  <2> QED
    BY <2>1, <2>2
<1>2. Init => ShareInv
  BY InitSound DEF ShareInv
<1> QED
  BY <1>1, <1>2, PTL DEF Spec

\* In whatever order processes call cpu_share() and run_MLFQ(), exit() and
\* thread_exit(), and as long as no sum overflows, shares move between the three
\* accounts without any being made or lost, and nobody exceeds 20 percent; for
\* careful programs the account of shares is what living processes hold, and
\* update_strd() does not divide by zero if the processes are few.
THEOREM SharesExactHolds == Spec => []SharesExact
<1>1. ShareInv => SharesExact
  BY DEF ShareInv, Sound, Accounts, NoZero, SharesExact
<1> QED
  BY <1>1, ShareInvariance, PTL
==============================================================================
