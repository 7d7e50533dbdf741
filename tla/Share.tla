-------------------------------- MODULE Share --------------------------------
(***************************************************************************)
(* The CPU-share accounts of proc.c: cpu_share(), run_MLFQ(), update_strd *)
(* and what exit() gives back and thread_exit() does not.  100 percent are *)
(* split between the default stride processes (strd_sum), the processes    *)
(* with a share of their own (strd_share_sum, at most 20) and the MLFQ     *)
(* (mlfqs.share).                                                          *)
(*                                                                         *)
(* get_num() counts RUNNABLE processes, so a process that is RUNNING, the  *)
(* caller among them, is not counted.  Every call runs under ptable.lock.  *)
(***************************************************************************)
EXTENDS Integers, FiniteSets

CONSTANTS Procs,
          MAXINT,     \* 2^31: an int is in -MAXINT..MAXINT - 1
          Requests,   \* arguments programs pass to cpu_share()
          MaxTop      \* bound: calls of run_MLFQ() in a behaviour

ASSUME ShareAssumption ==
  /\ IsFiniteSet(Procs) /\ MaxTop \in Nat
  /\ MAXINT \in Nat /\ MAXINT > 120
  /\ Requests \subseteq -MAXINT..MAXINT - 1

VARIABLES
  state,        \* UNUSED, RUNNABLE, RUNNING or SLEEPING
  mode, share,  \* p->mode, p->strd.share
  strd_sum, strd_share_sum, mlfq_share,
  topn,         \* mlfqs.topn
  trapped,      \* the kernel has divided by zero or called panic()
  careful,      \* history: programs have set their mode once, to a share that
                \* was left, and ended by exit() if they had one
  wrapped       \* history: the sum of a request and strd_share_sum was no int
vars == <<state, mode, share, strd_sum, strd_share_sum, mlfq_share, topn,
          trapped, careful, wrapped>>
accounts == <<strd_sum, strd_share_sum, mlfq_share, topn>>
perProc == <<mode, share>>

Init ==
  /\ state = [p \in Procs |-> "UNUSED"]
  /\ mode = [p \in Procs |-> "STRD"]
  /\ share = [p \in Procs |-> 0]
  /\ strd_sum = 100 /\ strd_share_sum = 0 /\ mlfq_share = 0 /\ topn = 0
  /\ trapped = FALSE /\ careful = TRUE /\ wrapped = FALSE

-----------------------------------------------------------------------------
\* allocproc() resets the accounts of the slot.
Start(p) ==
  /\ ~trapped /\ state[p] = "UNUSED"
  /\ state' = [state EXCEPT ![p] = "RUNNABLE"]
  /\ mode' = [mode EXCEPT ![p] = "STRD"]
  /\ share' = [share EXCEPT ![p] = 0]
  /\ UNCHANGED <<accounts, trapped, careful, wrapped>>

\* scheduler(), yield(), sleep() and wakeup().
Move(p, from, to) ==
  /\ ~trapped /\ state[p] = from
  /\ state' = [state EXCEPT ![p] = to]
  /\ UNCHANGED <<perProc, accounts, trapped, careful, wrapped>>

-----------------------------------------------------------------------------
\* An int, and division of ints, which rounds towards zero.
Wrap(x) == ((x + MAXINT) % (2 * MAXINT)) - MAXINT
Quot(a, n) == IF a >= 0 THEN a \div n ELSE -((-a) \div n)

\* get_num(m), with the modes as a call has just set them.
Counted(m, md) == {q \in Procs : state[q] = "RUNNABLE" /\ md[q] = m}
get_num(m, md) == Cardinality(Counted(m, md))

\* The share update_strd() gives RUNNABLE process q.
NewShare(q, md, sh, sum, ms) ==
  CASE md[q] = "STRD" -> Quot(sum, get_num("STRD", md))
    [] md[q] = "SET" -> sh[q]
    [] md[q] = "MLFQ" -> Quot(ms, get_num("MLFQ", md))

\* update_strd() after a call has set modes md, shares sh and accounts sum, ms.
\* The stride is 10001 divided by the new share.
update_strd(md, sh, sum, ms) ==
  LET run == {q \in Procs : state[q] = "RUNNABLE"}
      new == [q \in Procs |-> IF q \in run THEN NewShare(q, md, sh, sum, ms)
                                           ELSE sh[q]]
  IN  /\ trapped' = \E q \in run : new[q] = 0
      /\ mode' = md
      /\ share' = new

\* Process p makes a call; ok: one that a careful program would make.
Calls(p, ok) == /\ ~trapped /\ state[p] = "RUNNING"
                /\ careful' = (careful /\ mode[p] = "STRD" /\ ok)

\* cpu_share() panics if its argument or the account is negative.
CpuSharePanics(p, n) ==
  /\ Calls(p, FALSE) /\ (strd_share_sum < 0 \/ n < 0)
  /\ trapped' = TRUE
  /\ UNCHANGED <<state, perProc, accounts, wrapped>>

\* cpu_share(n) adds without looking whether the sum is an int.
Asks(p, n, ok) ==
  /\ Calls(p, ok) /\ strd_share_sum >= 0 /\ n >= 0
  /\ wrapped' = (wrapped \/ strd_share_sum + n >= MAXINT)

\* cpu_share(n) within the limit.
CpuShare(p, n) ==
  /\ Asks(p, n, n > 0) /\ Wrap(strd_share_sum + n) <= 20
  /\ strd_share_sum' = Wrap(strd_share_sum + n)
  /\ strd_sum' = Wrap(strd_sum - n)
  /\ update_strd([mode EXCEPT ![p] = "SET"], [share EXCEPT ![p] = n],
                 strd_sum', mlfq_share)
  /\ UNCHANGED <<state, mlfq_share, topn>>

\* cpu_share(n) beyond it: rolled back, and the caller becomes a default
\* stride process with an equal part of what is left.
CpuShareRefused(p, n) ==
  /\ Asks(p, n, FALSE) /\ Wrap(strd_share_sum + n) > 20
  /\ LET md == [mode EXCEPT ![p] = "STRD"]
         m == get_num("STRD", md)
         left == IF get_num("MLFQ", md) > 0 THEN 80 - strd_share_sum
                                            ELSE 100 - strd_share_sum
     IN  IF m = 0
           THEN trapped' = TRUE /\ UNCHANGED perProc
           ELSE update_strd(md, [share EXCEPT ![p] = Quot(left, m)], strd_sum,
                            mlfq_share)
  /\ UNCHANGED <<state, accounts>>

\* run_MLFQ(): the first caller takes the MLFQ's 20 percent.
RunMLFQ(p) ==
  /\ Calls(p, TRUE) /\ topn < MaxTop
  /\ mlfq_share' = IF mlfq_share = 0 THEN 20 ELSE mlfq_share
  /\ strd_sum' = IF mlfq_share = 0 THEN Wrap(strd_sum - 20) ELSE strd_sum
  /\ topn' = topn + 1
  /\ update_strd([mode EXCEPT ![p] = "MLFQ"], share, strd_sum', mlfq_share')
  /\ UNCHANGED <<state, strd_share_sum, wrapped>>

\* Mutation of Exit: nothing goes back.
ExitKeeping(p) ==
  /\ ~trapped /\ state[p] = "RUNNING"
  /\ state' = [state EXCEPT ![p] = "UNUSED"]
  /\ UNCHANGED <<perProc, accounts, trapped, careful, wrapped>>

\* exit(): a share of its own goes back to the default processes.
Exit(p) ==
  /\ ~trapped /\ state[p] = "RUNNING"
  /\ LET back == IF mode[p] = "SET" THEN share[p] ELSE 0
     IN  /\ strd_sum' = Wrap(strd_sum + back)
         /\ strd_share_sum' = Wrap(strd_share_sum - back)
  /\ state' = [state EXCEPT ![p] = "UNUSED"]
  /\ UNCHANGED <<perProc, mlfq_share, topn, trapped, careful, wrapped>>

\* thread_exit(): nothing goes back.
ThreadExit(p) ==
  /\ ~trapped /\ state[p] = "RUNNING"
  /\ state' = [state EXCEPT ![p] = "UNUSED"]
  /\ careful' = (careful /\ mode[p] # "SET")
  /\ UNCHANGED <<perProc, accounts, trapped, wrapped>>

Next == \E p \in Procs :
          \/ Start(p) \/ RunMLFQ(p) \/ Exit(p) \/ ThreadExit(p)
          \/ Move(p, "RUNNABLE", "RUNNING") \/ Move(p, "RUNNING", "RUNNABLE")
          \/ Move(p, "RUNNING", "SLEEPING") \/ Move(p, "SLEEPING", "RUNNABLE")
          \/ \E n \in Requests : \/ CpuSharePanics(p, n)
                                \/ CpuShare(p, n) \/ CpuShareRefused(p, n)

Spec == Init /\ [][Next]_vars
-----------------------------------------------------------------------------
(* Properties. *)

\* The variables, as long as every sum has been an int.
TypeOK ==
  /\ state \in [Procs -> {"UNUSED", "RUNNABLE", "RUNNING", "SLEEPING"}]
  /\ mode \in [Procs -> {"STRD", "SET", "MLFQ"}]
  /\ share \in [Procs -> 0..100]
  /\ strd_sum \in Int /\ strd_share_sum \in Int
  /\ mlfq_share \in {0, 20} /\ topn \in Nat
  /\ trapped \in BOOLEAN /\ careful \in BOOLEAN

Setters == {p \in Procs : state[p] # "UNUSED" /\ mode[p] = "SET"}
\* The percents that the processes of S hold, each as a pair, and their number
\* for those with a share of their own.
Percents(S, sh) == UNION {{p} \X (1..sh[p]) : p \in S}
Owned == Cardinality(Percents(Setters, share))

\* As many processes as an MLFQ's 20 percent are enough for: the caller of
\* update_strd() is RUNNING and gets no part.
Few == Cardinality(Procs) <= 21

\* As long as no sum overflows, shares are moved between the three accounts,
\* never made or lost, and the processes with a share of their own never hold
\* more than 20 percent.  If moreover programs set their mode once, to a share
\* that is left, and those with a share end by exit() and not by thread_exit(),
\* nothing stays accounted to a process that has ended ("x = shares of
\* STRD_SET_SCHED running processes"), and, with few processes, recomputing shares
\* and strides never divides by zero and cpu_share() never panics.
SharesExact ==
  ~wrapped =>
    /\ strd_sum + strd_share_sum + mlfq_share = 100
    /\ strd_share_sum \in 0..20
    /\ careful => Owned = strd_share_sum /\ (Few => ~trapped)
==============================================================================
