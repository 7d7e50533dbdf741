----------------------------- MODULE ProcProofs -----------------------------
(***************************************************************************)
(* The inductive invariant of Proc, the steps of its actions, and what it  *)
(* implies, for every size of the table, every number of pids and every    *)
(* program that Proc calls Supported.                                      *)
(***************************************************************************)
EXTENDS Proc, FiniteSetTheorems, TLAPS

\* Leaves that need arithmetic, or more than first-order reasoning, name SMT.
USE Zenon

Setting == {"fork", "incload", "incstore", "create"}
ProcRecord == [state : States, pid : Nat, parent : Slots \cup {NoProc},
               killed : BOOLEAN, lwpid : Nat, lwppid : Nat, forked : BOOLEAN,
               pgdir : Nat, chan : Nat]

Typed ==
  /\ program \in Programs /\ Supported(program)
  /\ proc \in [Slots -> ProcRecord]
  /\ pc \in [Slots -> Labels] /\ arg \in [Slots -> Nat]
  /\ num_lwp \in Int /\ load \in [Slots -> Int]
  /\ nextpid \in Nat /\ nextlwpid \in Nat \ {0}

\* Where a process is in the kernel, and what it can be there.
Place(p) ==
  /\ proc[p].parent # p
  /\ pc[p] # "user" => proc[p].state \in {"RUNNABLE", "SLEEPING"}
  /\ pc[p] \in Setting \cup {"close", "texit"} => proc[p].state = "RUNNABLE"
  /\ proc[p].state = "SLEEPING" /\ pc[p] # "user" => proc[p].chan = p
  /\ pc[p] \in {"incload", "incstore", "create"} => Threaded(program)
  /\ pc[p] \in {"fork", "wait"} /\ Threaded(program)
       => p = initproc \/ proc[p].lwpid # 0
  /\ pc[p] \in {"incload", "incstore", "create", "join", "reap"}
       => proc[p].lwpid = 0
  /\ pc[p] = "texit" => proc[p].lwppid # 0 /\ ThreadsExit(program)
Places ==
  /\ proc[initproc].state \in {"RUNNABLE", "SLEEPING"}
  /\ proc[initproc].lwpid = 0 /\ proc[initproc].lwppid = 0
  /\ pc[initproc] \in {"user", "fork", "wait"} /\ proc[initproc].parent = NoProc
  /\ \A p \in Slots : Place(p)

\* A slot that is being set up is one process's.
Embryos ==
  \A p \in Slots : pc[p] \in Setting =>
    /\ arg[p] \in Slots /\ proc[arg[p]].state = "EMBRYO"
    /\ \A q \in Slots : pc[q] \in Setting /\ arg[q] = arg[p] => q = p

\* A pid is one process's, and its page directory has not been freed.
Pids ==
  /\ nextpid > 1
  /\ \A d \in freed : d \in Nat /\ d < nextpid
  /\ \A p \in Slots : proc[p].state # "UNUSED" =>
       /\ proc[p].pid > 0 /\ proc[p].pid < nextpid /\ proc[p].pid \notin freed
       /\ \A q \in Slots : proc[q].state # "UNUSED" /\ proc[q].pid = proc[p].pid
                             => q = p

\* Nothing is left in a slot that is not in use but by a failed thread_create().
Clean ==
  \A p \in Slots : proc[p].state \in {"UNUSED", "EMBRYO"} =>
    /\ lock = NoProc => proc[p].parent = NoProc /\ proc[p].lwppid = 0
    /\ proc[p].state = "EMBRYO" => proc[p].lwpid = 0 /\ ~proc[p].forked

\* Main threads and the processes LWPs have forked have a page directory of
\* their own, and an LWP has its main thread's.
Kinds ==
  \A p \in Made :
    /\ proc[p].lwppid = 0 => /\ proc[p].forked <=> proc[p].lwpid # 0
                             /\ proc[p].pgdir = proc[p].pid
    /\ proc[p].lwppid # 0 =>
         /\ Threaded(program) /\ ~proc[p].forked /\ proc[p].lwpid # 0
         /\ proc[p].parent \in Made \ {initproc}
         /\ proc[proc[p].parent].lwpid = 0 /\ proc[proc[p].parent].lwppid = 0
         /\ proc[proc[p].parent].pid = proc[p].lwppid
         /\ proc[p].pgdir = proc[p].lwppid

\* An LWP in thread_exit() has no children.
Childless == \A p \in Slots : pc[p] = "texit" => Children(p) = {}

\* Beside LWPs there is one main thread, the process init has forked last.
Mains == {p \in Made \ {initproc} : proc[p].lwpid = 0}
OneMain ==
  Threaded(program) =>
    /\ \A p \in Mains : proc[p].parent = initproc /\ arg[initproc] = p
    /\ pc[initproc] = "fork" => Mains = {}

\* The thread that is joined exists.
JoinExists ==
  \A p \in Slots : pc[p] = "join" =>
    \E q \in Lwps(p) : proc[q].lwpid = arg[p]

\* A sleeper has nothing to collect.
Sleepers ==
  \A p \in Slots : proc[p].state = "SLEEPING" =>
    /\ pc[p] = "wait" => /\ Children(p) # {}
                         /\ \A q \in Children(p) : proc[q].state # "ZOMBIE"
    /\ pc[p] = "join" => \A q \in Lwps(p) :
                           proc[q].lwpid = arg[p] => proc[q].state # "ZOMBIE"
    /\ pc[p] = "reap" => /\ num_lwp # 0
                         /\ \A q \in Lwps(p) : proc[q].state # "ZOMBIE"

\* num_lwp counts the LWPs that have to go, as far as exit() relies on it: with
\* LWPs that end together.  With LWPs that end by themselves nobody is killed.
AllLwps == {q \in Slots : proc[q].lwppid # 0}
Creating == {p \in Slots : pc[p] = "create"}
Counter ==
  /\ ~Threaded(program) => num_lwp = 0
  /\ Threaded(program) /\ ~ThreadsExit(program) /\ lock = NoProc =>
       /\ num_lwp >= Cardinality(AllLwps) + Cardinality(Creating)
       /\ \A p \in Slots : pc[p] = "incstore" => load[p] = num_lwp
  /\ Threaded(program) /\ ThreadsExit(program) =>
       /\ \A p \in Slots : proc[p].killed =>
            pc[p] \in {"reap", "close"} \/ proc[p].state = "ZOMBIE"
       /\ \A p \in Slots : pc[p] = "reap" => Lwps(p) = {}

\* A process that has kept the lock has left thread_create().
Frozen == lock # NoProc => lock \in Mains /\ pc[lock] = "user" /\ Threaded(program)

Base == Typed /\ Places /\ Embryos /\ Pids /\ Clean
Family == Kinds /\ ParentAlive /\ Childless /\ OneMain /\ Frozen
Sleep == JoinExists /\ Sleepers
Count == Counter /\ ThreadsGoFirst
ProcInv == Base /\ Family /\ Sleep /\ Count

-----------------------------------------------------------------------------
(* Records and helpers. *)

\* The first element of a set of slots.
LEMMA MinIn ==
  ASSUME NEW S, S \subseteq Slots, S # {}
  PROVE  Min(S) \in S
<1>1. S \subseteq Nat
  BY SMT DEF Slots
<1>2. PICK x \in S : \A y \in S : ~(<<y, x>> \in OpToRel(<, Nat))
  BY <1>1, NatLessThanWellFounded, WFMin
<1>3. \A y \in S : x <= y
  <2> SUFFICES ASSUME NEW y \in S PROVE x <= y
    OBVIOUS
  <2>1. x \in Nat /\ y \in Nat
    BY <1>1
  <2>2. ~(y < x)
    BY <1>2, <2>1 DEF OpToRel
  <2> QED
    BY <2>1, <2>2, SMT
<1> QED
  BY <1>3 DEF Min

\* The types of a record's fields.
LEMMA Fields ==
  ASSUME NEW r \in ProcRecord
  PROVE  /\ r.state \in States /\ r.pid \in Nat /\ r.parent \in Slots \cup {NoProc}
         /\ r.killed \in BOOLEAN /\ r.lwpid \in Nat /\ r.lwppid \in Nat
         /\ r.forked \in BOOLEAN /\ r.pgdir \in Nat /\ r.chan \in Nat
BY DEF ProcRecord

\* A record with another state and perhaps another channel or mark.
LEMMA StateSet ==
  ASSUME NEW r \in ProcRecord, NEW st \in States
  PROVE  LET n == [r EXCEPT !.state = st]
         IN  /\ n \in ProcRecord /\ n.state = st /\ n.pid = r.pid
             /\ n.parent = r.parent /\ n.killed = r.killed /\ n.lwpid = r.lwpid
             /\ n.lwppid = r.lwppid /\ n.forked = r.forked /\ n.pgdir = r.pgdir
             /\ n.chan = r.chan
BY DEF ProcRecord

\* A record with the mark of kill().
LEMMA KilledSet ==
  ASSUME NEW r \in ProcRecord
  PROVE  LET n == [r EXCEPT !.killed = TRUE]
         IN  /\ n \in ProcRecord /\ n.state = r.state /\ n.pid = r.pid
             /\ n.parent = r.parent /\ n.killed = TRUE /\ n.lwpid = r.lwpid
             /\ n.lwppid = r.lwppid /\ n.forked = r.forked /\ n.pgdir = r.pgdir
             /\ n.chan = r.chan
BY DEF ProcRecord

\* A record given up by fork() or thread_create().
LEMMA SetFree ==
  ASSUME NEW r \in ProcRecord
  PROVE  LET n == [r EXCEPT !.state = "UNUSED", !.pgdir = 0]
         IN  /\ n \in ProcRecord /\ n.state = "UNUSED" /\ n.pid = r.pid
             /\ n.parent = r.parent /\ n.killed = r.killed /\ n.lwppid = r.lwppid
BY DEF ProcRecord, States

\* A record with another parent.
LEMMA ParentSet ==
  ASSUME NEW r \in ProcRecord, NEW m \in Slots
  PROVE  LET n == [r EXCEPT !.parent = m]
         IN  /\ n \in ProcRecord /\ n.state = r.state /\ n.pid = r.pid
             /\ n.parent = m /\ n.killed = r.killed /\ n.lwpid = r.lwpid
             /\ n.lwppid = r.lwppid /\ n.forked = r.forked /\ n.pgdir = r.pgdir
             /\ n.chan = r.chan
BY DEF ProcRecord

\* sleep().
LEMMA Slept ==
  ASSUME NEW t \in [Slots -> ProcRecord], NEW p \in Slots, NEW ch \in Nat
  PROVE  LET u == sleep(t, p, ch)
         IN  /\ u \in [Slots -> ProcRecord] /\ \A s \in Slots \ {p} : u[s] = t[s]
             /\ u[p].state = "SLEEPING" /\ u[p].chan = ch /\ u[p].pid = t[p].pid
             /\ u[p].parent = t[p].parent /\ u[p].killed = t[p].killed
             /\ u[p].lwpid = t[p].lwpid /\ u[p].lwppid = t[p].lwppid
             /\ u[p].forked = t[p].forked /\ u[p].pgdir = t[p].pgdir
BY DEF ProcRecord, sleep, States

\* wakeup1().
LEMMA Woken ==
  ASSUME NEW t \in [Slots -> ProcRecord], NEW C
  PROVE  LET u == wakeup1(t, C)
         IN  /\ u \in [Slots -> ProcRecord]
             /\ \A s \in Slots :
                  /\ u[s].pid = t[s].pid /\ u[s].parent = t[s].parent
                  /\ u[s].killed = t[s].killed /\ u[s].lwpid = t[s].lwpid
                  /\ u[s].lwppid = t[s].lwppid /\ u[s].forked = t[s].forked
                  /\ u[s].pgdir = t[s].pgdir /\ u[s].chan = t[s].chan
                  /\ t[s].state = "SLEEPING" /\ t[s].chan \in C
                       => u[s].state = "RUNNABLE"
                  /\ ~(t[s].state = "SLEEPING" /\ t[s].chan \in C)
                       => u[s].state = t[s].state
<1> SUFFICES ASSUME NEW s \in Slots
             PROVE  LET r == wakeup1(t, C)[s]
                    IN  /\ r \in ProcRecord
                        /\ r.pid = t[s].pid /\ r.parent = t[s].parent
                        /\ r.killed = t[s].killed /\ r.lwpid = t[s].lwpid
                        /\ r.lwppid = t[s].lwppid /\ r.forked = t[s].forked
                        /\ r.pgdir = t[s].pgdir /\ r.chan = t[s].chan
                        /\ t[s].state = "SLEEPING" /\ t[s].chan \in C
                             => r.state = "RUNNABLE"
                        /\ ~(t[s].state = "SLEEPING" /\ t[s].chan \in C)
                             => r.state = t[s].state
  BY DEF wakeup1
<1>1. t[s] \in ProcRecord /\ "RUNNABLE" \in States
  BY DEF States
<1>2. wakeup1(t, C)[s] = IF t[s].state = "SLEEPING" /\ t[s].chan \in C
                           THEN [t[s] EXCEPT !.state = "RUNNABLE"] ELSE t[s]
  BY DEF wakeup1
<1> QED
  BY <1>1, <1>2, StateSet, SMT

\* allocproc() found slot q, with memory for a stack and without.
LEMMA EmbryoFields ==
  ASSUME Typed, NEW q \in Slots, NEW n, n = Embryo(q)
  PROVE  /\ n \in ProcRecord /\ n.state = "EMBRYO" /\ n.pid = nextpid
         /\ n.parent = proc[q].parent /\ n.killed = proc[q].killed /\ n.lwpid = 0
         /\ n.lwppid = 0 /\ n.forked = FALSE /\ n.pgdir = proc[q].pgdir
         /\ n.chan = proc[q].chan
<1>1. proc[q] \in ProcRecord /\ nextpid \in Nat /\ "EMBRYO" \in States
  BY DEF Typed, States
<1> QED
  BY <1>1 DEF Embryo, ProcRecord

\* fork() marks the child of an LWP.
LEMMA MarkedFields ==
  ASSUME Typed, NEW p \in Slots, NEW q \in Slots, NEW n, n = Marked(p, q)
  PROVE  /\ n \in ProcRecord /\ n.state = proc[q].state /\ n.pid = proc[q].pid
         /\ n.parent = proc[q].parent /\ n.killed = proc[q].killed
         /\ n.lwpid = (IF proc[p].lwpid > 0 THEN nextlwpid ELSE 0)
         /\ n.lwppid = proc[q].lwppid /\ n.forked = (proc[p].lwpid > 0)
         /\ n.pgdir = proc[q].pgdir /\ n.chan = proc[q].chan
<1> DEFINE f == proc[p].lwpid > 0
           l == IF f THEN nextlwpid ELSE 0
           r == proc[q]
<1>1. r \in ProcRecord /\ f \in BOOLEAN /\ l \in Nat
  BY SMT DEF Typed, ProcRecord
<1>2. n = [r EXCEPT !.forked = f, !.lwpid = l]
  BY DEF Marked
<1> HIDE DEF r, f, l
<1>3. /\ n \in ProcRecord /\ n.state = r.state /\ n.pid = r.pid
      /\ n.parent = r.parent /\ n.killed = r.killed /\ n.lwpid = l
      /\ n.lwppid = r.lwppid /\ n.forked = f /\ n.pgdir = r.pgdir
      /\ n.chan = r.chan
  BY <1>1, <1>2 DEF ProcRecord
<1> QED
  BY <1>3 DEF r, f, l

\* What fork() makes of slot q: a runnable child of p, an LWP's child marked
\* forked.
LEMMA ForkedFields ==
  ASSUME Typed, NEW p \in Slots, NEW q \in Slots, NEW n, n = Forked(p, q)
  PROVE  /\ n \in ProcRecord /\ n.state = "RUNNABLE" /\ n.pid = proc[q].pid
         /\ n.parent = p /\ n.killed = proc[q].killed
         /\ n.lwpid = (IF proc[p].lwpid > 0 THEN nextlwpid ELSE 0)
         /\ n.lwppid = proc[q].lwppid /\ n.forked = (proc[p].lwpid > 0)
         /\ n.pgdir = proc[q].pid /\ n.chan = proc[q].chan
<1> DEFINE m == Marked(p, q)
<1>1. m \in ProcRecord /\ m.pid = proc[q].pid /\ m.killed = proc[q].killed
      /\ m.lwpid = (IF proc[p].lwpid > 0 THEN nextlwpid ELSE 0)
      /\ m.lwppid = proc[q].lwppid /\ m.forked = (proc[p].lwpid > 0)
      /\ m.chan = proc[q].chan
  BY MarkedFields, SMT
<1>2. n = [m EXCEPT !.state = "RUNNABLE", !.parent = p, !.pgdir = proc[q].pid]
  BY DEF Forked
<1>3. proc[q].pid \in Nat /\ "RUNNABLE" \in States
  BY DEF Typed, ProcRecord, States
<1> HIDE DEF m
<1> QED
  BY <1>1, <1>2, <1>3 DEF ProcRecord

\* fork() gives slot q up.
Unforked(p, q) == [Marked(p, q) EXCEPT !.state = "UNUSED", !.pgdir = 0]

\* A slot given up keeps its pid and its parent.
LEMMA UnforkedFields ==
  ASSUME Typed, NEW p \in Slots, NEW q \in Slots, NEW n, n = Unforked(p, q)
  PROVE  /\ n \in ProcRecord /\ n.state = "UNUSED" /\ n.pid = proc[q].pid
         /\ n.parent = proc[q].parent /\ n.killed = proc[q].killed
         /\ n.lwppid = proc[q].lwppid
<1> DEFINE m == Marked(p, q)
<1>1. m \in ProcRecord /\ m.pid = proc[q].pid /\ m.killed = proc[q].killed
      /\ m.lwppid = proc[q].lwppid /\ m.parent = proc[q].parent
  BY MarkedFields, SMT
<1>2. n = [m EXCEPT !.state = "UNUSED", !.pgdir = 0] /\ "UNUSED" \in States
  BY DEF States, Unforked
<1> HIDE DEF m
<1>3. /\ n \in ProcRecord /\ n.state = "UNUSED" /\ n.pid = m.pid
      /\ n.parent = m.parent /\ n.killed = m.killed /\ n.lwppid = m.lwppid
  BY <1>1, <1>2, SetFree
<1> QED
  BY <1>1, <1>3

\* thread_create() by a main thread, which makes the LWP runnable or fails.
LEMMA ThreadFields ==
  ASSUME Typed, NEW p \in Slots, NEW q \in Slots, proc[p].lwpid = 0,
         NEW st \in States
  PROVE  LET n == [Thread(p, q) EXCEPT !.state = st]
         IN  /\ n \in ProcRecord /\ n.state = st /\ n.pid = proc[q].pid
             /\ n.parent = p /\ n.killed = proc[q].killed /\ n.lwpid = nextlwpid
             /\ n.lwppid = proc[p].pid /\ n.forked = proc[q].forked
             /\ n.pgdir = proc[p].pgdir /\ n.chan = proc[q].chan
<1> DEFINE m == Thread(p, q)
<1>1. proc[q] \in ProcRecord /\ nextlwpid \in Nat
      /\ proc[p].pid \in Nat /\ proc[p].pgdir \in Nat
  BY DEF Typed, ProcRecord
<1>2. m = [proc[q] EXCEPT !.lwppid = proc[p].pid, !.parent = p,
                          !.lwpid = nextlwpid, !.pgdir = proc[p].pgdir]
  BY SMT DEF Thread
<1> HIDE DEF m
<1>3. /\ m \in ProcRecord /\ m.pid = proc[q].pid
      /\ m.parent = p /\ m.killed = proc[q].killed /\ m.lwpid = nextlwpid
      /\ m.lwppid = proc[p].pid /\ m.forked = proc[q].forked
      /\ m.pgdir = proc[p].pgdir /\ m.chan = proc[q].chan
  BY <1>1, <1>2 DEF ProcRecord
<1>4. LET n == [m EXCEPT !.state = st]
      IN  /\ n \in ProcRecord /\ n.state = st /\ n.pid = m.pid
          /\ n.parent = m.parent /\ n.killed = m.killed /\ n.lwpid = m.lwpid
          /\ n.lwppid = m.lwppid /\ n.forked = m.forked /\ n.pgdir = m.pgdir
          /\ n.chan = m.chan
  BY <1>3, StateSet
<1> QED
  BY <1>3, <1>4 DEF m

\* exit() or thread_join() reaps an LWP, and wait() a child.
LEMMA ReapedLwpFields ==
  ASSUME NEW r \in ProcRecord, NEW n, n = ReapedLwp(r)
  PROVE  /\ n \in ProcRecord /\ n.state = "UNUSED" /\ n.parent = NoProc
         /\ n.killed = FALSE /\ n.lwpid = 0 /\ n.lwppid = 0
<1>1. r.pgdir \in Nat /\ r.chan \in Nat /\ "UNUSED" \in States
  BY DEF ProcRecord, States
<1> QED
  BY <1>1 DEF ReapedLwp, Unused, ProcRecord

\* wait() empties the slot of a child.
LEMMA ReapedChildFields ==
  ASSUME NEW r \in ProcRecord, NEW n, n = ReapedChild(r)
  PROVE  /\ n \in ProcRecord /\ n.state = "UNUSED" /\ n.parent = NoProc
         /\ n.killed = FALSE /\ n.lwppid = r.lwppid /\ n.lwpid = r.lwpid
BY DEF ReapedChild, ProcRecord, States

\* kill() marks a process and wakes a sleeper.
LEMMA Kill1Fields ==
  ASSUME NEW r \in ProcRecord, NEW n, n = Kill1(r)
  PROVE  /\ n \in ProcRecord /\ n.pid = r.pid /\ n.parent = r.parent
         /\ n.killed = TRUE /\ n.lwpid = r.lwpid /\ n.lwppid = r.lwppid
         /\ n.forked = r.forked /\ n.pgdir = r.pgdir /\ n.chan = r.chan
         /\ IF r.state = "SLEEPING" THEN n.state = "RUNNABLE"
                                    ELSE n.state = r.state
<1>1. r.state \in States /\ "RUNNABLE" \in States
  BY DEF ProcRecord, States
<1> QED
  BY <1>1 DEF Kill1, ProcRecord

\* The fields of the table, and what a slot in use is.
LEMMA TableTypes ==
  ASSUME Typed, NEW s \in Slots
  PROVE  /\ proc[s].state \in States /\ proc[s].pid \in Nat
         /\ proc[s].parent \in Slots \cup {NoProc} /\ proc[s].killed \in BOOLEAN
         /\ proc[s].lwpid \in Nat /\ proc[s].lwppid \in Nat
         /\ proc[s].forked \in BOOLEAN /\ proc[s].pgdir \in Nat
         /\ proc[s].chan \in Nat
BY Fields DEF Typed

\* init has a slot, and NoProc is none.
LEMMA InitSlot == initproc \in Slots /\ NoProc \notin Slots /\ NPROC + 1 \notin Slots
BY ProcAssumption, SMT DEF Slots, initproc, NoProc

-----------------------------------------------------------------------------
(* Steps that leave every process where it is in the family. *)

Running == {"RUNNABLE", "SLEEPING"}
Same ==
  /\ \A s \in Slots :
       /\ proc'[s].pid = proc[s].pid /\ proc'[s].parent = proc[s].parent
       /\ proc'[s].lwpid = proc[s].lwpid /\ proc'[s].lwppid = proc[s].lwppid
       /\ proc'[s].forked = proc[s].forked /\ proc'[s].pgdir = proc[s].pgdir
       /\ \/ proc'[s].state = proc[s].state
          \/ proc[s].state \in Running /\ proc'[s].state \in Running
  /\ UNCHANGED <<program, freed, lock, nextpid, nextlwpid>>

\* Such a step changes no set of children, LWPs or living processes.
LEMMA SameFamily ==
  ASSUME Same
  PROVE  /\ Made' = Made /\ Alive' = Alive /\ Mains' = Mains /\ AllLwps' = AllLwps
         /\ \A p \in Slots : Children(p)' = Children(p) /\ Lwps(p)' = Lwps(p)
<1>1. Made' = Made
  BY DEF Same, Made, Running
<1>2. Alive' = Alive
  BY <1>1 DEF Same, Alive, Made, Running
<1>3. Mains' = Mains
  <2>1. Made \subseteq Slots
    BY DEF Made
  <2>2. \A s \in Made : proc'[s].lwpid = proc[s].lwpid
    BY <2>1 DEF Same
  <2> QED
    BY <1>1, <2>2 DEF Mains
<1>4. AllLwps' = AllLwps
  BY DEF Same, AllLwps
<1>5. ASSUME NEW p \in Slots PROVE Children(p)' = Children(p) /\ Lwps(p)' = Lwps(p)
  BY DEF Same, Children, Lwps
<1> QED
  BY <1>1, <1>2, <1>3, <1>4, <1>5

\* Such a step keeps pids, page directories and what a slot is used for.
LEMMA SameKinds ==
  ASSUME Same, Pids, Clean, Kinds, ParentAlive
  PROVE  Pids' /\ Clean' /\ Kinds' /\ ParentAlive'
<1>1. Made' = Made /\ Alive' = Alive
  BY SameFamily
<1>2. Pids'
  BY SMT DEF Same, Pids, Running
<1>3. Clean'
  BY DEF Same, Clean, Running
<1>4. Kinds'
  <2> SUFFICES ASSUME NEW p \in Made
               PROVE  /\ proc'[p].lwppid = 0 =>
                           /\ proc'[p].forked <=> proc'[p].lwpid # 0
                           /\ proc'[p].pgdir = proc'[p].pid
                      /\ proc'[p].lwppid # 0 =>
                           /\ Threaded(program) /\ ~proc'[p].forked
                           /\ proc'[p].lwpid # 0
                           /\ proc'[p].parent \in Made \ {initproc}
                           /\ proc'[proc'[p].parent].lwpid = 0
                           /\ proc'[proc'[p].parent].lwppid = 0
                           /\ proc'[proc'[p].parent].pid = proc'[p].lwppid
                           /\ proc'[p].pgdir = proc'[p].lwppid
    BY <1>1 DEF Kinds, Same
  <2>1. /\ p \in Slots
        /\ proc'[p].lwppid = proc[p].lwppid /\ proc'[p].lwpid = proc[p].lwpid
        /\ proc'[p].forked = proc[p].forked /\ proc'[p].pgdir = proc[p].pgdir
        /\ proc'[p].pid = proc[p].pid /\ proc'[p].parent = proc[p].parent
    BY DEF Same, Made
  <2>2. \A m \in Made : /\ proc'[m].lwpid = proc[m].lwpid
                        /\ proc'[m].lwppid = proc[m].lwppid
                        /\ proc'[m].pid = proc[m].pid
    BY DEF Same, Made
  <2> QED
    BY <2>1, <2>2, SMT DEF Kinds
<1>5. ParentAlive'
  BY <1>1 DEF Same, ParentAlive, Made
<1> QED
  BY <1>2, <1>3, <1>4, <1>5

\* Process p moves to l, without sleeping, and may wake and mark others.
Moves(p, l) ==
  /\ Same /\ Typed' /\ pc' = [pc EXCEPT ![p] = l]
  /\ \A s \in Slots :
       /\ proc'[s].chan = proc[s].chan
       /\ proc'[s].state = proc[s].state \/ proc'[s].state = "RUNNABLE"
  /\ \A s \in Slots \ {p} : arg'[s] = arg[s]
  /\ UNCHANGED <<num_lwp, load>>

\* A step with which p moves to l, and others at most wake, keeps the invariant.
LEMMA MovesInv ==
  ASSUME ProcInv, lock = NoProc, NEW p \in Slots, pc[p] \notin Setting,
         NEW l \in {"user", "reap", "close", "texit"}, Moves(p, l),
         l # "user" => proc'[p].state = "RUNNABLE" /\ p # initproc,
         p = initproc => arg'[p] = arg[p],
         l = "reap" => proc[p].lwpid = 0,
         l = "close" => proc[p].lwpid # 0,
         l = "texit" => /\ proc[p].lwppid # 0 /\ ThreadsExit(program)
                        /\ Children(p) = {},
         Threaded(program) /\ ThreadsExit(program) =>
           /\ \A s \in Slots : proc'[s].killed =>
                (s = p /\ l = "reap") \/ (s # p /\ proc[s].killed)
           /\ l = "reap" => Lwps(p) = {}
  PROVE  ProcInv'
<1> USE DEF ProcInv, Base, Family, Sleep, Count, Moves
<1>1. /\ Made' = Made /\ Alive' = Alive /\ Mains' = Mains /\ AllLwps' = AllLwps
      /\ \A s \in Slots : Children(s)' = Children(s) /\ Lwps(s)' = Lwps(s)
  BY SameFamily
<1>2. Pids' /\ Clean' /\ Kinds' /\ ParentAlive'
  BY SameKinds
<1>3. /\ pc'[p] = l /\ \A s \in Slots \ {p} : pc'[s] = pc[s] /\ arg'[s] = arg[s]
      /\ lock' = NoProc /\ program' = program
      /\ \A s \in Slots : /\ proc'[s].lwpid = proc[s].lwpid
                          /\ proc'[s].lwppid = proc[s].lwppid
                          /\ proc'[s].chan = proc[s].chan
                          /\ proc'[s].state = proc[s].state
                             \/ (proc[s].state \in Running /\ proc'[s].state = "RUNNABLE")
  <2>1. pc'[p] = l /\ \A s \in Slots \ {p} : pc'[s] = pc[s]
    BY DEF Typed
  <2>2. lock' = NoProc /\ program' = program
    BY DEF Same
  <2>3. ASSUME NEW s \in Slots
        PROVE  /\ proc'[s].lwpid = proc[s].lwpid /\ proc'[s].lwppid = proc[s].lwppid
               /\ proc'[s].state = proc[s].state
                  \/ (proc[s].state \in Running /\ proc'[s].state = "RUNNABLE")
    BY DEF Same
  <2>4. /\ \A s \in Slots : proc'[s].chan = proc[s].chan
        /\ \A s \in Slots \ {p} : arg'[s] = arg[s]
    OBVIOUS
  <2> QED
    BY <2>1, <2>2, <2>3, <2>4
<1>4. Places'
  <2>1. \A s \in Slots : proc'[s].parent = proc[s].parent
    BY DEF Same
  <2> QED
    BY <1>3, <2>1, InitSlot, SMT DEF Places, Place, Setting, Running
<1>5. Embryos'
  BY <1>3, SMT DEF Embryos, Setting, Running
<1>6. Childless'
  BY <1>1, <1>3 DEF Childless
<1>7. OneMain' /\ Frozen'
  BY <1>1, <1>3, InitSlot, SMT DEF OneMain, Frozen, Places, Place, Same, Mains, Made
<1>8. JoinExists'
  BY <1>1, <1>3, SMT DEF JoinExists, Lwps
<1>9. Sleepers'
  BY <1>1, <1>3, SMT DEF Sleepers, Running, Children, Lwps
<1>10. ThreadsGoFirst'
  BY <1>1, <1>3, SMT DEF ThreadsGoFirst, Made, Running
<1>11. Creating' = Creating
  BY <1>3 DEF Creating, Setting
<1>12. Counter'
  <2>1. num_lwp' = num_lwp /\ load' = load
    OBVIOUS
  <2>2. ASSUME Threaded(program), ThreadsExit(program), NEW s \in Slots, proc'[s].killed
        PROVE  pc'[s] \in {"reap", "close"} \/ proc'[s].state = "ZOMBIE"
    <3>1. CASE s = p /\ l = "reap"
      BY <1>3, <3>1
    <3>2. CASE s # p /\ proc[s].killed
      <4>1. pc[s] \in {"reap", "close"} \/ proc[s].state = "ZOMBIE"
        BY <2>2, <3>2 DEF Counter
      <4> QED
        BY <1>3, <3>2, <4>1 DEF Running
    <3> QED
      BY <2>2, <3>1, <3>2
  <2>3. Threaded(program) /\ ThreadsExit(program) =>
          \A s \in Slots : pc'[s] = "reap" => Lwps(s)' = {}
    BY <1>1, <1>3, SMT DEF Counter
  <2>4. Threaded(program) /\ ~ThreadsExit(program) =>
          /\ num_lwp' >= Cardinality(AllLwps') + Cardinality(Creating')
          /\ \A s \in Slots : pc'[s] = "incstore" => load'[s] = num_lwp'
    BY <1>1, <1>3, <1>11, <2>1 DEF Counter
  <2>5. ~Threaded(program) => num_lwp' = 0
    BY <2>1 DEF Counter
  <2> QED
    BY <1>3, <2>2, <2>3, <2>4, <2>5 DEF Counter
<1> QED
  BY <1>2, <1>4, <1>5, <1>6, <1>7, <1>8, <1>9, <1>10, <1>12

\* What the programs allow a process of each kind.
LEMMA Allowed ==
  ASSUME ProcInv, NEW p \in Slots, NEW c, Enters(p, c)
  PROVE  /\ lock = NoProc /\ proc[p].state = "RUNNABLE" /\ pc[p] = "user"
         /\ ~proc[p].killed /\ p \in Made
         /\ p = initproc => c \in {"fork", "wait"}
         /\ c = "thread_create" =>
              p # initproc /\ proc[p].lwpid = 0 /\ Threaded(program)
         /\ c = "thread_exit" => proc[p].lwppid # 0 /\ ThreadsExit(program)
         /\ c \in {"fork", "wait"} /\ Threaded(program)
              => p = initproc \/ proc[p].lwpid # 0
         /\ Threaded(program) /\ ThreadsExit(program) =>
              /\ c # "kill" /\ program.joins
              /\ c = "exit" => proc[p].lwppid = 0
<1>1. /\ lock = NoProc /\ proc[p].state = "RUNNABLE" /\ pc[p] = "user"
      /\ ~proc[p].killed /\ c \in program.calls[Role(p)]
  BY DEF Enters, At
<1>2. p \in Made /\ Supported(program)
  BY <1>1 DEF Made, ProcInv, Base, Typed
<1>3. /\ p = initproc => Role(p) = "init"
      /\ p # initproc /\ proc[p].lwpid = 0 => Role(p) = "main"
      /\ p # initproc /\ proc[p].lwpid # 0 =>
           /\ proc[p].lwppid = 0 => Role(p) = "forked"
           /\ proc[p].lwppid # 0 => Role(p) = "lwp"
  BY <1>2 DEF Role, ProcInv, Family, Kinds
<1>4. proc[initproc].lwppid = 0 /\ (proc[p].lwpid = 0 => proc[p].lwppid = 0)
  BY <1>2 DEF ProcInv, Base, Family, Places, Place, Kinds
<1>5. Role(p) \in Roles
  BY <1>3 DEF Roles
<1> QED
  BY <1>1, <1>2, <1>3, <1>4, <1>5 DEF Supported, Threaded, ThreadsExit

\* kill().
LEMMA KillStep ==
  ASSUME ProcInv, NEW p \in Slots, NEW pid, Kill(p, pid)
  PROVE  ProcInv'
<1>1. /\ lock = NoProc /\ pc[p] = "user"
      /\ ~(Threaded(program) /\ ThreadsExit(program))
  BY Allowed DEF Kill
<1>2. /\ UNCHANGED <<pc, arg, num_lwp, load, nextpid, nextlwpid, program, freed,
                     lock, panicked>>
      /\ proc' = [q \in Slots |-> IF q \in Targets(p, pid) THEN Kill1(proc[q])
                                                         ELSE proc[q]]
  BY DEF Kill, counters, rest
<1>3. Typed
  BY DEF ProcInv, Base
<1>4. ASSUME NEW s \in Slots
      PROVE  /\ proc'[s] \in ProcRecord /\ proc'[s].pid = proc[s].pid
             /\ proc'[s].parent = proc[s].parent
             /\ proc'[s].lwpid = proc[s].lwpid /\ proc'[s].lwppid = proc[s].lwppid
             /\ proc'[s].forked = proc[s].forked /\ proc'[s].pgdir = proc[s].pgdir
             /\ proc'[s].chan = proc[s].chan
             /\ \/ proc'[s].state = proc[s].state
                \/ proc[s].state = "SLEEPING" /\ proc'[s].state = "RUNNABLE"
  <2>1. proc[s] \in ProcRecord
    BY <1>3 DEF Typed
  <2>2. proc'[s] = Kill1(proc[s]) \/ proc'[s] = proc[s]
    BY <1>2
  <2> QED
    BY <2>1, <2>2, Kill1Fields
<1>5. Typed'
  <2>1. proc' \in [Slots -> ProcRecord]
    BY <1>2, <1>4
  <2> QED
    BY <1>2, <1>3, <2>1 DEF Typed
<1>6. Same
  BY <1>2, <1>4 DEF Same, Running
<1>7. Moves(p, "user")
  <2>1. pc' = [pc EXCEPT ![p] = "user"]
    BY <1>1, <1>2, <1>3 DEF Typed
  <2> QED
    BY <1>2, <1>4, <1>5, <1>6, <2>1 DEF Moves
<1>8. pc[p] \notin Setting /\ arg' = arg
  BY <1>1, <1>2 DEF Setting
<1> QED
  BY <1>1, <1>7, <1>8, MovesInv

\* The interrupt that wakes a process in read().
LEMMA IoWakeStep ==
  ASSUME ProcInv, NEW p \in Slots, IoWake(p)
  PROVE  ProcInv'
<1>1. /\ lock = NoProc /\ proc[p].state = "SLEEPING" /\ proc[p].chan = NPROC + 1
      /\ UNCHANGED <<pc, arg, num_lwp, load, nextpid, nextlwpid, program, freed,
                     lock, panicked>>
      /\ proc' = [proc EXCEPT ![p].state = "RUNNABLE"]
  BY DEF IoWake, counters, rest
<1>2. Typed /\ pc[p] = "user"
  BY <1>1, InitSlot, SMT DEF ProcInv, Base, Places, Place
<1>3. /\ proc[p] \in ProcRecord /\ proc'[p] = [proc[p] EXCEPT !.state = "RUNNABLE"]
      /\ \A s \in Slots \ {p} : proc'[s] = proc[s]
      /\ "RUNNABLE" \in States
  BY <1>1, <1>2 DEF Typed, States
<1>4. /\ proc'[p] \in ProcRecord /\ proc'[p].state = "RUNNABLE"
      /\ proc'[p].pid = proc[p].pid /\ proc'[p].parent = proc[p].parent
      /\ proc'[p].killed = proc[p].killed
      /\ proc'[p].lwpid = proc[p].lwpid /\ proc'[p].lwppid = proc[p].lwppid
      /\ proc'[p].forked = proc[p].forked /\ proc'[p].pgdir = proc[p].pgdir
      /\ proc'[p].chan = proc[p].chan
  BY <1>3, StateSet, SMT
<1>5. Typed'
  <2>1. proc' \in [Slots -> ProcRecord]
    BY <1>1, <1>2, <1>4 DEF Typed
  <2> QED
    BY <1>1, <1>2, <2>1 DEF Typed
<1>6. Same
  BY <1>1, <1>3, <1>4 DEF Same, Running
<1>7. Moves(p, "user")
  <2>1. pc' = [pc EXCEPT ![p] = "user"]
    BY <1>1, <1>2 DEF Typed
  <2> QED
    BY <1>1, <1>3, <1>4, <1>5, <1>6, <2>1 DEF Moves
<1>8. Threaded(program) /\ ThreadsExit(program) =>
        \A s \in Slots : proc'[s].killed => s # p /\ proc[s].killed
  BY <1>1, <1>2, <1>3, <1>4 DEF ProcInv, Count, Counter
<1>9. pc[p] \notin Setting /\ arg' = arg
  BY <1>1, <1>2 DEF Setting
<1> QED
  BY <1>1, <1>7, <1>8, <1>9, MovesInv

\* Nothing but panicked changes.
LEMMA StutterStep ==
  ASSUME ProcInv, UNCHANGED <<program, proc, pc, arg, num_lwp, load, nextpid,
                              nextlwpid, freed, lock>>
  PROVE  ProcInv'
<1>1. /\ Made' = Made /\ Alive' = Alive /\ Mains' = Mains /\ AllLwps' = AllLwps
      /\ Creating' = Creating
      /\ \A s \in Slots : Children(s)' = Children(s) /\ Lwps(s)' = Lwps(s)
  BY DEF Made, Alive, Mains, AllLwps, Creating, Children, Lwps
<1>2. Base'
  BY SMT DEF ProcInv, Base, Typed, Places, Place, Embryos, Pids, Clean
<1>3. Family'
  BY <1>1 DEF ProcInv, Family, Kinds, ParentAlive, Childless, OneMain, Frozen, Made
<1>4. Sleep' /\ Count'
  BY <1>1, SMT DEF ProcInv, Sleep, Count, JoinExists, Sleepers, Counter, ThreadsGoFirst,
              Lwps, Children, Made
<1> QED
  BY <1>2, <1>3, <1>4 DEF ProcInv

\* Process p, in the kernel or on its way into it, moves to l and process q, if
\* any, is marked killed.
LEMMA MarkStep ==
  ASSUME ProcInv, lock = NoProc, NEW p \in Slots, NEW q \in Slots,
         proc[p].state = "RUNNABLE", pc[p] \notin Setting, p # initproc,
         NEW l \in {"reap", "close", "texit"}, pc' = [pc EXCEPT ![p] = l],
         proc' = proc \/ proc' = [proc EXCEPT ![q].killed = TRUE],
         UNCHANGED <<arg, num_lwp, load, nextpid, nextlwpid, program, freed, lock>>,
         l = "reap" => proc[p].lwpid = 0,
         l = "close" => proc[p].lwpid # 0,
         l = "texit" => /\ proc[p].lwppid # 0 /\ ThreadsExit(program)
                        /\ Children(p) = {},
         Threaded(program) /\ ThreadsExit(program) =>
           /\ ~proc[p].killed /\ (proc' # proc => q = p /\ l = "reap")
           /\ l = "reap" => Lwps(p) = {}
  PROVE  ProcInv'
<1>1. Typed
  BY DEF ProcInv, Base
<1>2. /\ proc[q] \in ProcRecord /\ \A s \in Slots : proc[s] \in ProcRecord
      /\ proc'[q] = proc[q] \/ proc'[q] = [proc[q] EXCEPT !.killed = TRUE]
      /\ \A s \in Slots \ {q} : proc'[s] = proc[s]
  BY <1>1 DEF Typed
<1>3. ASSUME NEW s \in Slots
      PROVE  /\ proc'[s] \in ProcRecord /\ proc'[s].pid = proc[s].pid
             /\ proc'[s].parent = proc[s].parent
             /\ proc'[s].lwpid = proc[s].lwpid /\ proc'[s].lwppid = proc[s].lwppid
             /\ proc'[s].forked = proc[s].forked /\ proc'[s].pgdir = proc[s].pgdir
             /\ proc'[s].chan = proc[s].chan /\ proc'[s].state = proc[s].state
  <2>1. CASE proc'[s] = proc[s]
    BY <1>2, <2>1
  <2>2. CASE s = q /\ proc'[s] = [proc[s] EXCEPT !.killed = TRUE]
    BY <1>2, <2>2, KilledSet, SMT
  <2> QED
    BY <1>2, <2>1, <2>2
<1>4. Typed'
  <2>1. proc' \in [Slots -> ProcRecord]
    BY <1>1, <1>3 DEF Typed
  <2> QED
    BY <1>1, <2>1 DEF Typed, Labels
<1>5. Same
  BY <1>3 DEF Same
<1>6. Moves(p, l)
  BY <1>3, <1>4, <1>5 DEF Moves
<1>7. Threaded(program) /\ ThreadsExit(program) =>
        \A s \in Slots : proc'[s].killed =>
          (s = p /\ l = "reap") \/ (s # p /\ proc[s].killed)
  BY <1>2
<1> QED
  BY <1>3, <1>6, <1>7, MovesInv, SMT

\* exit() begins: a main thread goes to its loop, an LWP kills its main thread.
LEMMA ExitStep ==
  ASSUME ProcInv, NEW p \in Slots, Exit(p)
  PROVE  ProcInv'
<1>1. /\ lock = NoProc /\ proc[p].state = "RUNNABLE" /\ pc[p] = "user"
      /\ UNCHANGED <<program, arg, num_lwp, load, nextpid, nextlwpid, freed, lock>>
      /\ proc[p].killed \/ Enters(p, "exit")
      /\ ~proc[p].killed /\ program.joins => Lwps(p) = {} \/ proc[p].lwpid # 0
  BY DEF Exit, At, counters
<1>2. CASE p = initproc
  BY <1>1, <1>2, StutterStep DEF Exit
<1>3. CASE p # initproc
  <2>1. /\ pc' = [pc EXCEPT ![p] = IF proc[p].lwpid = 0 THEN "reap" ELSE "close"]
        /\ proc' = IF proc[p].lwpid = 0
                     THEN [proc EXCEPT ![p].killed = TRUE]
                     ELSE IF proc[p].forked THEN proc
                     ELSE [proc EXCEPT ![proc[p].parent].killed = TRUE]
    BY <1>3 DEF Exit, Goto
  <2>2. Threaded(program) /\ ThreadsExit(program) =>
          /\ ~proc[p].killed /\ proc[p].lwppid = 0
          /\ proc[p].lwpid = 0 => Lwps(p) = {}
    <3> SUFFICES ASSUME Threaded(program), ThreadsExit(program)
                 PROVE  /\ ~proc[p].killed /\ proc[p].lwppid = 0
                        /\ proc[p].lwpid = 0 => Lwps(p) = {}
      OBVIOUS
    <3>1. ~proc[p].killed
      BY <1>1 DEF ProcInv, Count, Counter
    <3>2. proc[p].lwppid = 0 /\ program.joins
      BY <1>1, <3>1, Allowed
    <3> QED
      BY <1>1, <3>1, <3>2
  <2>3. p \in Made /\ pc[p] \notin Setting
    BY <1>1 DEF Made, Setting
  <2>4. CASE proc[p].lwpid = 0
    BY <1>1, <1>3, <2>1, <2>2, <2>3, <2>4, MarkStep
  <2>5. CASE proc[p].lwpid # 0 /\ proc[p].forked
    BY <1>1, <1>3, <2>1, <2>2, <2>3, <2>5, MarkStep
  <2>6. CASE proc[p].lwpid # 0 /\ ~proc[p].forked
    <3>1. proc[p].lwppid # 0 /\ proc[p].parent \in Slots
      BY <2>3, <2>6 DEF ProcInv, Family, Kinds, Made
    <3> QED
      BY <1>1, <1>3, <2>1, <2>2, <2>3, <2>6, <3>1, MarkStep
  <2> QED
    BY <2>4, <2>5, <2>6
<1> QED
  BY <1>2, <1>3

\* thread_exit() begins.
LEMMA ThreadExitStep ==
  ASSUME ProcInv, NEW p \in Slots, ThreadExit(p)
  PROVE  ProcInv'
<1>1. /\ pc' = [pc EXCEPT ![p] = "texit"]
      /\ program.joins => Children(p) = {}
      /\ UNCHANGED <<proc, arg, num_lwp, load, nextpid, nextlwpid, program, freed, lock>>
  BY DEF ThreadExit, Goto, counters, rest
<1>2. /\ lock = NoProc /\ proc[p].state = "RUNNABLE" /\ pc[p] = "user" /\ p # initproc
      /\ ~proc[p].killed /\ p \in Made /\ proc[p].lwppid # 0 /\ ThreadsExit(program)
      /\ (Threaded(program) => program.joins) /\ pc[p] \notin Setting
  BY Allowed, SMT DEF ThreadExit, Setting
<1>3. Threaded(program)
  BY <1>2 DEF ProcInv, Family, Kinds
<1> QED
  BY <1>1, <1>2, <1>3, MarkStep

\* Process p goes to sleep on ch, at l.
LEMMA SleepsInv ==
  ASSUME ProcInv, lock = NoProc, NEW p \in Slots, NEW ch \in Nat,
         proc[p].state = "RUNNABLE", ~proc[p].killed,
         pc[p] \notin Setting \cup {"reap", "close", "texit"},
         NEW l \in {"user", "wait", "join"}, pc' = [pc EXCEPT ![p] = l],
         proc' = sleep(proc, p, ch), NEW t \in Nat, arg' = [arg EXCEPT ![p] = t],
         UNCHANGED <<num_lwp, load, nextpid, nextlwpid, program, freed, lock>>,
         p = initproc => t = arg[p] /\ l # "join",
         l # "user" => ch = p,
         l = "wait" =>
           /\ Children(p) # {} /\ \A q \in Children(p) : proc[q].state # "ZOMBIE"
           /\ Threaded(program) => p = initproc \/ proc[p].lwpid # 0,
         l = "join" =>
           /\ proc[p].lwpid = 0
           /\ \E q \in Lwps(p) : proc[q].lwpid = t
           /\ \A q \in Lwps(p) : proc[q].lwpid = t => proc[q].state # "ZOMBIE"
  PROVE  ProcInv'
<1> USE DEF ProcInv, Base, Family, Sleep, Count
<1>1. /\ proc' \in [Slots -> ProcRecord] /\ \A s \in Slots \ {p} : proc'[s] = proc[s]
      /\ proc'[p].state = "SLEEPING" /\ proc'[p].chan = ch /\ proc'[p].pid = proc[p].pid
      /\ proc'[p].parent = proc[p].parent /\ proc'[p].killed = proc[p].killed
      /\ proc'[p].lwpid = proc[p].lwpid /\ proc'[p].lwppid = proc[p].lwppid
      /\ proc'[p].forked = proc[p].forked /\ proc'[p].pgdir = proc[p].pgdir
  <2>1. proc \in [Slots -> ProcRecord]
    BY DEF Typed
  <2> QED
    BY <2>1, Slept, SMT
<1>2. Same
  BY <1>1 DEF Same, Running
<1>3. Typed'
  BY <1>1 DEF Typed, Labels
<1>4. /\ Made' = Made /\ Alive' = Alive /\ Mains' = Mains /\ AllLwps' = AllLwps
      /\ \A s \in Slots : Children(s)' = Children(s) /\ Lwps(s)' = Lwps(s)
  BY <1>2, SameFamily
<1>5. Pids' /\ Clean' /\ Kinds' /\ ParentAlive'
  BY <1>2, SameKinds
<1>6. /\ pc'[p] = l /\ \A s \in Slots \ {p} : pc'[s] = pc[s] /\ arg'[s] = arg[s]
      /\ arg'[p] = t
  BY DEF Typed
<1>7. Places'
  <2>1. ASSUME NEW s \in Slots PROVE Place(s)'
    <3>1. Place(s)
      BY DEF Places
    <3>2. CASE s = p
      BY <1>1, <1>6, <3>1, <3>2 DEF Place, Setting
    <3>3. CASE s # p
      BY <1>1, <1>6, <3>1, <3>3 DEF Place
    <3> QED
      BY <3>2, <3>3
  <2>2. /\ proc'[initproc].state \in {"RUNNABLE", "SLEEPING"}
        /\ proc'[initproc].lwpid = 0 /\ proc'[initproc].lwppid = 0
        /\ pc'[initproc] \in {"user", "fork", "wait"}
        /\ proc'[initproc].parent = NoProc
    BY <1>1, <1>6, InitSlot, SMT DEF Places
  <2> QED
    BY <2>1, <2>2 DEF Places
<1>8. Embryos'
  <2>1. \A s \in Slots : pc'[s] \in Setting =>
          s # p /\ pc[s] \in Setting /\ arg'[s] = arg[s] /\ arg[s] # p
    BY <1>6 DEF Embryos, Setting
  <2> QED
    BY <1>1, <2>1, SMT DEF Embryos
<1>9. Childless'
  BY <1>4, <1>6 DEF Childless
<1>10. OneMain' /\ Frozen'
  <2>1. \A s \in Mains : proc'[s].parent = proc[s].parent
    BY <1>1 DEF Mains, Made
  <2>2. arg'[initproc] = arg[initproc] /\ (pc'[initproc] = "fork" => pc[initproc] = "fork")
    BY <1>6, InitSlot
  <2> QED
    BY <1>4, <2>1, <2>2 DEF OneMain, Frozen
<1>11. JoinExists'
  <2> SUFFICES ASSUME NEW s \in Slots, pc'[s] = "join"
               PROVE  \E q \in Lwps(s) : proc'[q].lwpid = arg'[s]
    BY <1>4 DEF JoinExists
  <2>1. \A q \in Lwps(s) : proc'[q].lwpid = proc[q].lwpid
    BY <1>1 DEF Lwps
  <2>2. CASE s = p
    BY <1>6, <2>1, <2>2
  <2>3. CASE s # p
    BY <1>6, <2>1, <2>3, SMT DEF JoinExists
  <2> QED
    BY <2>2, <2>3
<1>12. Sleepers'
  BY <1>1, <1>4, <1>6, SMT DEF Sleepers, Children, Lwps
<1>13. ThreadsGoFirst'
  BY <1>1, <1>4, <1>6, SMT DEF ThreadsGoFirst, Made
<1>14. Creating' = Creating
  BY <1>6 DEF Creating, Setting
<1>15. Counter'
  <2>1. Threaded(program) /\ ThreadsExit(program) =>
          /\ \A s \in Slots : proc'[s].killed =>
               pc'[s] \in {"reap", "close"} \/ proc'[s].state = "ZOMBIE"
          /\ \A s \in Slots : pc'[s] = "reap" => Lwps(s)' = {}
    BY <1>1, <1>4, <1>6, SMT DEF Counter
  <2>2. Threaded(program) /\ ~ThreadsExit(program) =>
          /\ num_lwp' >= Cardinality(AllLwps') + Cardinality(Creating')
          /\ \A s \in Slots : pc'[s] = "incstore" => load'[s] = num_lwp'
    BY <1>4, <1>6, <1>14 DEF Counter
  <2> QED
    BY <2>1, <2>2 DEF Counter
<1> QED
  BY <1>3, <1>5, <1>7, <1>8, <1>9, <1>10, <1>11, <1>12, <1>13, <1>15

\* read() sleeps.
LEMMA IoSleepStep ==
  ASSUME ProcInv, NEW p \in Slots, IoSleep(p)
  PROVE  ProcInv'
<1>1. /\ lock = NoProc /\ proc[p].state = "RUNNABLE" /\ pc[p] = "user"
      /\ ~proc[p].killed /\ p # initproc
  BY Allowed, SMT DEF IoSleep
<1>2. /\ proc' = sleep(proc, p, NPROC + 1) /\ pc' = pc /\ arg' = arg
      /\ UNCHANGED <<num_lwp, load, nextpid, nextlwpid, program, freed, lock>>
  BY DEF IoSleep, counters, rest
<1>3. pc' = [pc EXCEPT ![p] = "user"] /\ arg' = [arg EXCEPT ![p] = arg[p]]
      /\ arg[p] \in Nat /\ NPROC + 1 \in Nat
  BY <1>1, <1>2, ProcAssumption, SMT DEF ProcInv, Base, Typed
<1>4. pc[p] \notin Setting \cup {"reap", "close", "texit"}
  BY <1>1 DEF Setting
<1> QED
  BY <1>1, <1>2, <1>3, <1>4, SleepsInv

\* Process p goes back to user space with nothing done.
LEMMA ReturnStep ==
  ASSUME ProcInv, lock = NoProc, NEW p \in Slots, proc[p].state = "RUNNABLE",
         pc[p] \in {"user", "wait", "join"}, pc' = [pc EXCEPT ![p] = "user"],
         NEW t \in Nat, arg' = [arg EXCEPT ![p] = t], p = initproc => t = arg[p],
         UNCHANGED <<proc, num_lwp, load, nextpid, nextlwpid, program, freed, lock>>
  PROVE  ProcInv'
<1>1. Typed /\ Typed'
  BY DEF ProcInv, Base, Typed, Labels
<1>2. Same
  BY DEF Same
<1>3. Moves(p, "user")
  BY <1>1, <1>2 DEF Moves, Typed
<1>4. pc[p] \notin Setting /\ arg'[p] = t
  BY <1>1 DEF Setting, Typed
<1>5. Threaded(program) /\ ThreadsExit(program) => ~proc[p].killed
  BY DEF ProcInv, Count, Counter
<1> QED
  BY <1>3, <1>4, <1>5, MovesInv

-----------------------------------------------------------------------------
(* Steps that reap a set D of zombies. *)

Reaps(D) ==
  /\ D \subseteq Slots
  /\ \A s \in D : /\ proc[s].state = "ZOMBIE" /\ proc'[s].state = "UNUSED"
                  /\ proc'[s].parent = NoProc /\ proc'[s].lwppid = 0
                  /\ proc'[s].killed = FALSE
  /\ \A s \in Slots \ D :
       /\ proc'[s].pid = proc[s].pid /\ proc'[s].parent = proc[s].parent
       /\ proc'[s].lwpid = proc[s].lwpid /\ proc'[s].lwppid = proc[s].lwppid
       /\ proc'[s].forked = proc[s].forked /\ proc'[s].pgdir = proc[s].pgdir
       /\ \/ proc'[s].state = proc[s].state
          \/ proc[s].state \in Running /\ proc'[s].state \in Running
  /\ \A d \in freed' : d \in freed \/ \E s \in D : d = proc[s].pid
  /\ UNCHANGED <<program, lock, nextpid, nextlwpid>>

\* Reaping takes D out of every family.
LEMMA ReapsFamily ==
  ASSUME NEW D, Reaps(D), Pids
  PROVE  /\ Made' = Made \ D /\ Alive' = Alive /\ Mains' = Mains \ D
         /\ AllLwps' = AllLwps \ D
         /\ \A p \in Slots : Children(p)' = Children(p) \ D
         /\ \A p \in Slots \ D : proc[p].state # "UNUSED" => Lwps(p)' = Lwps(p) \ D
<1>1. Made' = Made \ D
  BY DEF Reaps, Made, Running
<1>2. Alive' = Alive
  <2>1. \A s \in Slots : s \in Alive' <=> s \in Alive
    BY DEF Reaps, Alive, Made, Running
  <2> QED
    BY <2>1 DEF Alive, Made
<1>3. Mains' = Mains \ D
  <2>1. \A s \in Made \ D : s \in Slots /\ proc'[s].lwpid = proc[s].lwpid
    BY DEF Reaps, Made
  <2> QED
    BY <1>1, <2>1 DEF Mains
<1>4. AllLwps' = AllLwps \ D
  BY SMT DEF Reaps, AllLwps
<1>5. ASSUME NEW p \in Slots PROVE Children(p)' = Children(p) \ D
  <2>1. p # NoProc
    BY InitSlot
  <2> QED
    BY <2>1, SMT DEF Reaps, Children
<1>6. ASSUME NEW p \in Slots \ D, proc[p].state # "UNUSED"
      PROVE  Lwps(p)' = Lwps(p) \ D
  <2>1. proc'[p].pid = proc[p].pid /\ proc[p].pid # 0
    BY <1>6, SMT DEF Reaps, Pids
  <2> QED
    BY <2>1, SMT DEF Reaps, Lwps
<1> QED
  BY <1>1, <1>2, <1>3, <1>4, <1>5, <1>6

\* Reaping keeps the pids, page directories and slots of whoever remains.
LEMMA ReapsKinds ==
  ASSUME NEW D, Reaps(D), ProcInv, lock = NoProc
  PROVE  Pids' /\ Clean' /\ Kinds' /\ ParentAlive'
<1> USE DEF ProcInv, Base, Family
<1>1. Made' = Made \ D /\ Alive' = Alive /\ Made \subseteq Slots /\ Alive \subseteq Made
  BY ReapsFamily DEF Made, Alive
<1>2. Pids'
  <2>1. ASSUME NEW s \in Slots, proc'[s].state # "UNUSED"
        PROVE  /\ s \notin D /\ proc[s].state # "UNUSED" /\ proc'[s].pid = proc[s].pid
               /\ proc'[s].pid \notin freed'
    <3>1. s \notin D /\ proc[s].state # "UNUSED" /\ proc'[s].pid = proc[s].pid
      BY <2>1 DEF Reaps, Running
    <3>2. \A q \in D : proc[q].state # "UNUSED" /\ q # s /\ q \in Slots
      BY <3>1 DEF Reaps
    <3> QED
      BY <3>1, <3>2, SMT DEF Reaps, Pids
  <2>2. \A d \in freed' : d \in Nat /\ d < nextpid
    <3>1. \A q \in D : proc[q].pid \in Nat /\ proc[q].pid < nextpid
      BY TableTypes DEF Reaps, Pids
    <3> QED
      BY <3>1, SMT DEF Reaps, Pids
  <2>3. nextpid' = nextpid
    BY DEF Reaps
  <2> QED
    BY <2>1, <2>2, <2>3 DEF Pids
<1>3. Clean'
  BY SMT DEF Reaps, Clean, Running
<1>4. \A s \in Made : s # initproc => proc[s].parent \in Alive \ D
  BY <1>1 DEF ParentAlive, Reaps, Alive
<1>5. ParentAlive'
  BY <1>1, <1>4 DEF ParentAlive, Reaps
<1>6. Kinds'
  <2> SUFFICES ASSUME NEW p \in Made \ D
               PROVE  /\ proc'[p].lwppid = 0 =>
                           /\ proc'[p].forked <=> proc'[p].lwpid # 0
                           /\ proc'[p].pgdir = proc'[p].pid
                      /\ proc'[p].lwppid # 0 =>
                           /\ Threaded(program) /\ ~proc'[p].forked
                           /\ proc'[p].lwpid # 0
                           /\ proc'[p].parent \in (Made \ D) \ {initproc}
                           /\ proc'[proc'[p].parent].lwpid = 0
                           /\ proc'[proc'[p].parent].lwppid = 0
                           /\ proc'[proc'[p].parent].pid = proc'[p].lwppid
                           /\ proc'[p].pgdir = proc'[p].lwppid
    BY <1>1 DEF Kinds, Reaps
  <2>1. /\ p \in Slots
        /\ proc'[p].lwppid = proc[p].lwppid /\ proc'[p].lwpid = proc[p].lwpid
        /\ proc'[p].forked = proc[p].forked /\ proc'[p].pgdir = proc[p].pgdir
        /\ proc'[p].pid = proc[p].pid /\ proc'[p].parent = proc[p].parent
    BY <1>1 DEF Reaps
  <2>2. \A m \in Made \ D : /\ proc'[m].lwpid = proc[m].lwpid
                            /\ proc'[m].lwppid = proc[m].lwppid
                            /\ proc'[m].pid = proc[m].pid
    BY <1>1 DEF Reaps
  <2>3. proc[p].lwppid # 0 => p # initproc /\ proc[p].parent \in Made \ D
    <3>1. proc[initproc].lwppid = 0
      BY DEF Places
    <3> QED
      BY <1>1, <1>4, <3>1
  <2> QED
    BY <2>1, <2>2, <2>3, SMT DEF Kinds
<1> QED
  BY <1>2, <1>3, <1>5, <1>6

\* With threads, a main thread is alone.
LEMMA MainAlone ==
  ASSUME ProcInv, Threaded(program),
         NEW p \in Slots \ {initproc}, p \in Made, proc[p].lwpid = 0,
         NEW q \in Slots \ {initproc}, q \in Made, proc[q].lwpid = 0
  PROVE  p = q
BY SMT DEF ProcInv, Family, OneMain, Mains

\* Process p reaps D and moves to l; at "reap" it sleeps.
ReapsTo(D, p, l) ==
  /\ lock = NoProc /\ Reaps(D) /\ Typed'
  /\ proc[p].state = "RUNNABLE" /\ pc[p] \in {"user", "wait", "join", "reap"}
  /\ pc' = [pc EXCEPT ![p] = l]
  /\ proc'[p].state = IF l = "reap" THEN "SLEEPING" ELSE "RUNNABLE"
  /\ l = "reap" => proc'[p].chan = p
  /\ \A s \in (Slots \ D) \ {p} :
       /\ proc'[s].chan = proc[s].chan
       /\ proc'[s].state = proc[s].state \/ proc'[s].state = "RUNNABLE"
  /\ \A s \in Slots \ {p} : arg'[s] = arg[s]
  /\ p = initproc => arg'[p] = arg[p]
  /\ \A s \in D : proc[s].lwppid \in {0, proc[p].pid}
  /\ load' = load /\ (num_lwp' = num_lwp \/ pc[p] = "reap")
  /\ l # "user" <=> pc[p] = "reap"
  /\ l = "close" => Lwps(p) \subseteq D
  /\ l = "reap" => /\ num_lwp' # 0
                   /\ \A q \in Lwps(p) \ D : proc[q].state # "ZOMBIE"
  /\ ~Threaded(program) => num_lwp' = 0
  /\ Threaded(program) /\ ~ThreadsExit(program) =>
       num_lwp' >= Cardinality(AllLwps \ D) + Cardinality(Creating)
  /\ Threaded(program) /\ ThreadsExit(program) =>
       \A s \in Slots \ D : proc'[s].killed => proc[s].killed

\* A step with which p reaps D and moves to l keeps the invariant.
LEMMA ReapsInv ==
  ASSUME ProcInv, NEW D, NEW p \in Slots \ D, NEW l \in {"user", "close", "reap"},
         ReapsTo(D, p, l)
  PROVE  ProcInv'
<1> USE DEF ProcInv, Base, Family, Sleep, Count
<1>1. Reaps(D) /\ lock = NoProc /\ Typed'
  BY DEF ReapsTo
<1>2. /\ Made' = Made \ D /\ Alive' = Alive /\ Mains' = Mains \ D
      /\ AllLwps' = AllLwps \ D
      /\ \A s \in Slots : Children(s)' = Children(s) \ D
      /\ \A s \in Slots \ D : proc[s].state # "UNUSED" => Lwps(s)' = Lwps(s) \ D
  BY <1>1, ReapsFamily
<1>3. Pids' /\ Clean' /\ Kinds' /\ ParentAlive'
  BY <1>1, ReapsKinds
<1>4. /\ pc'[p] = l /\ \A s \in Slots \ {p} : pc'[s] = pc[s]
      /\ lock' = NoProc /\ program' = program
  BY SMT DEF Typed, Reaps, ReapsTo
<1>5. ASSUME NEW s \in Slots \ D
      PROVE  /\ proc'[s].lwpid = proc[s].lwpid /\ proc'[s].lwppid = proc[s].lwppid
             /\ proc'[s].parent = proc[s].parent
             /\ s # p => proc'[s].state = proc[s].state
                         \/ (proc[s].state \in Running /\ proc'[s].state = "RUNNABLE")
  <2>1. /\ proc'[s].lwpid = proc[s].lwpid /\ proc'[s].lwppid = proc[s].lwppid
        /\ proc'[s].parent = proc[s].parent
        /\ \/ proc'[s].state = proc[s].state
           \/ proc[s].state \in Running /\ proc'[s].state \in Running
    BY <1>1 DEF Reaps
  <2>2. s # p => proc'[s].state = proc[s].state \/ proc'[s].state = "RUNNABLE"
    BY DEF ReapsTo
  <2> QED
    BY <2>1, <2>2
<1>6. \A s \in D : /\ proc[s].state = "ZOMBIE" /\ proc'[s].state = "UNUSED"
                   /\ pc[s] = "user" /\ s # initproc /\ s # p /\ s \in Slots
                   /\ proc'[s].killed = FALSE /\ proc'[s].parent # s
  <2> SUFFICES ASSUME NEW s \in D
               PROVE  /\ proc[s].state = "ZOMBIE" /\ proc'[s].state = "UNUSED"
                      /\ pc[s] = "user" /\ s # initproc /\ s # p /\ s \in Slots
                      /\ proc'[s].killed = FALSE /\ proc'[s].parent # s
    OBVIOUS
  <2>1. /\ proc[s].state = "ZOMBIE" /\ proc'[s].state = "UNUSED" /\ s \in Slots
        /\ proc'[s].killed = FALSE /\ proc'[s].parent = NoProc
    BY <1>1 DEF Reaps
  <2>2. pc[s] = "user" /\ s # initproc
    BY <2>1 DEF Places, Place
  <2> QED
    BY <2>1, <2>2, InitSlot
<1>7. /\ lock = NoProc /\ proc[p].state = "RUNNABLE" /\ p \notin D
      /\ pc[p] \in {"user", "wait", "join", "reap"} /\ (l # "user" <=> pc[p] = "reap")
      /\ proc'[p].state = IF l = "reap" THEN "SLEEPING" ELSE "RUNNABLE"
      /\ l = "reap" => proc'[p].chan = p
  BY DEF ReapsTo
<1>8. \A s \in Slots \ {p} : /\ arg'[s] = arg[s]
                             /\ s \notin D => proc'[s].chan = proc[s].chan
  BY DEF ReapsTo
<1>9. Places'
  <2>1. ASSUME NEW s \in Slots PROVE Place(s)'
    <3>1. Place(s)
      BY DEF Places
    <3>2. CASE s \in D
      BY <1>4, <1>6, <3>2, SMT DEF Place, Setting
    <3>3. CASE s = p
      BY <1>4, <1>5, <1>7, <3>1, <3>3 DEF Place, Setting
    <3>4. CASE s # p /\ s \notin D
      BY <1>4, <1>5, <1>8, <3>1, <3>4 DEF Place, Running
    <3> QED
      BY <3>2, <3>3, <3>4
  <2>2. initproc \in Slots /\ initproc \notin D
    BY <1>6, InitSlot
  <2>3. /\ proc'[initproc].lwpid = 0 /\ proc'[initproc].lwppid = 0
        /\ proc'[initproc].parent = NoProc
    BY <1>5, <2>2 DEF Places
  <2>4. /\ proc'[initproc].state \in {"RUNNABLE", "SLEEPING"}
        /\ pc'[initproc] \in {"user", "fork", "wait"}
    BY <1>4, <1>5, <1>7, <2>2 DEF Places
  <2> QED
    BY <2>1, <2>3, <2>4 DEF Places
<1>10. Embryos'
  <2>1. \A s \in Slots : pc'[s] \in Setting => s # p /\ pc[s] \in Setting
    BY <1>4 DEF Setting
  <2>2. \A s \in Slots : proc[s].state = "EMBRYO" => proc'[s].state = "EMBRYO"
    BY <1>5, <1>6, <1>7 DEF Running
  <2> QED
    BY <1>8, <2>1, <2>2 DEF Embryos
<1>11. Childless'
  BY <1>2, <1>4 DEF Childless
<1>12. OneMain' /\ Frozen'
  <2>1. \A s \in Mains \ D : proc'[s].parent = proc[s].parent
    BY <1>5 DEF Mains, Made
  <2>2. pc'[initproc] = "fork" => pc[initproc] = "fork"
    BY <1>4, InitSlot
  <2>3. arg'[initproc] = arg[initproc]
    BY InitSlot DEF ReapsTo
  <2> QED
    BY <1>2, <1>4, <2>1, <2>2, <2>3 DEF OneMain, Frozen
<1>13. ASSUME NEW s \in Slots \ {p}, proc[s].state # "UNUSED", proc[s].pid # 0
       PROVE  Lwps(s) \cap D = {}
  <2>1. proc[p].pid # proc[s].pid
    BY <1>13, <1>7 DEF Pids
  <2>2. \A q \in D : proc[q].lwppid \in {0, proc[p].pid}
    BY DEF ReapsTo
  <2> QED
    BY <1>13, <2>1, <2>2 DEF Lwps
<1>14. JoinExists'
  <2> SUFFICES ASSUME NEW s \in Slots, pc'[s] = "join"
               PROVE  \E q \in Lwps(s)' : proc'[q].lwpid = arg'[s]
    BY DEF JoinExists
  <2>1. s # p /\ s \notin D /\ pc[s] = "join" /\ arg'[s] = arg[s]
    BY <1>4, <1>6, <1>8
  <2>2. proc[s].state # "UNUSED" /\ proc[s].pid # 0
    BY <2>1, SMT DEF Places, Place, Pids
  <2>3. Lwps(s)' = Lwps(s) /\ \A q \in Lwps(s) : q \in Slots \ D
    BY <1>2, <1>13, <2>1, <2>2, SMT DEF Lwps
  <2> QED
    BY <1>5, <2>1, <2>3 DEF JoinExists
<1>15. Sleepers'
  <2> SUFFICES ASSUME NEW s \in Slots, proc'[s].state = "SLEEPING"
               PROVE  /\ pc'[s] = "wait" =>
                           /\ Children(s)' # {}
                           /\ \A q \in Children(s)' : proc'[q].state # "ZOMBIE"
                      /\ pc'[s] = "join" => \A q \in Lwps(s)' :
                           proc'[q].lwpid = arg'[s] => proc'[q].state # "ZOMBIE"
                      /\ pc'[s] = "reap" =>
                           /\ num_lwp' # 0
                           /\ \A q \in Lwps(s)' : proc'[q].state # "ZOMBIE"
    BY DEF Sleepers
  <2>0. \A q \in Slots \ D : proc'[q].state = "ZOMBIE" => proc[q].state = "ZOMBIE"
    BY <1>5, <1>7
  <2>1. CASE s = p
    <3>0. l = "reap"
      BY <1>7, <2>1
    <3>1. pc'[p] = "reap" /\ num_lwp' # 0
          /\ \A q \in Lwps(p) \ D : proc[q].state # "ZOMBIE"
      BY <1>4, <3>0 DEF ReapsTo
    <3>2. Lwps(s)' = Lwps(p) \ D
      BY <1>2, <1>7, <2>1
    <3>3. Lwps(p) \subseteq Slots
      BY DEF Lwps
    <3>4. \A q \in Lwps(s)' : proc'[q].state # "ZOMBIE"
      BY <2>0, <3>1, <3>2, <3>3
    <3> QED
      BY <2>1, <3>1, <3>4
  <2>2. CASE s # p
    <3>1. /\ s \notin D /\ proc[s].state = "SLEEPING" /\ pc'[s] = pc[s]
          /\ arg'[s] = arg[s] /\ proc[s].lwpid = proc'[s].lwpid
      BY <1>4, <1>5, <1>6, <1>8, <2>2, SMT
    <3>2. proc[s].state # "UNUSED" /\ Lwps(s)' = Lwps(s) \ D
          /\ \A q \in Lwps(s) \ D : q \in Slots \ D
      BY <1>2, <3>1 DEF Lwps
    <3>3. pc[s] = "wait" => /\ Children(s) # {}
                            /\ \A q \in Children(s) : proc[q].state # "ZOMBIE" /\ q \in Slots
      BY <3>1 DEF Sleepers, Children
    <3>4. pc[s] = "wait" => /\ Children(s)' = Children(s)
                            /\ \A q \in Children(s) : q \notin D
      <4>1. pc[s] = "wait" => \A q \in Children(s) : q \notin D
        BY <1>6, <3>3
      <4>2. Children(s)' = Children(s) \ D
        BY <1>2
      <4> QED
        BY <4>1, <4>2
    <3>5. pc[s] = "reap" => num_lwp' # 0
      <4>1. SUFFICES ASSUME pc[s] = "reap" PROVE num_lwp' = num_lwp
        BY <3>1, <4>1 DEF Sleepers
      <4>2. num_lwp # 0 /\ Threaded(program)
        BY <3>1, <4>1 DEF Sleepers, Counter
      <4>3. s \in Made /\ s # initproc /\ proc[s].lwpid = 0
        BY <3>1, <4>1 DEF Places, Place, Made
      <4>4. pc[p] = "reap" => p \in Made /\ p # initproc /\ proc[p].lwpid = 0
        BY <1>7 DEF Places, Place, Made
      <4>5. pc[p] # "reap"
        BY <2>2, <4>2, <4>3, <4>4, MainAlone
      <4> QED
        BY <4>5 DEF ReapsTo
    <3>6. pc[s] = "wait" => \A q \in Children(s)' : proc'[q].state # "ZOMBIE"
      BY <2>0, <3>3, <3>4
    <3>7. pc[s] = "join" => \A q \in Lwps(s)' :
                              proc'[q].lwpid = arg'[s] => proc'[q].state # "ZOMBIE"
      <4>1. pc[s] = "join" => \A q \in Lwps(s) :
                                proc[q].lwpid = arg[s] => proc[q].state # "ZOMBIE"
        BY <3>1 DEF Sleepers
      <4>2. \A q \in Lwps(s) \ D : proc'[q].lwpid = proc[q].lwpid
        BY <1>5, <3>2
      <4> QED
        BY <2>0, <3>1, <3>2, <4>1, <4>2
    <3>8. pc[s] = "reap" => \A q \in Lwps(s)' : proc'[q].state # "ZOMBIE"
      BY <2>0, <3>1, <3>2 DEF Sleepers
    <3> QED
      BY <3>1, <3>3, <3>4, <3>5, <3>6, <3>7, <3>8
  <2> QED
    BY <2>1, <2>2
<1>16. ThreadsGoFirst'
  <2> SUFFICES ASSUME NEW s \in Made \ D, proc[s].lwpid = 0,
                      pc'[s] = "close" \/ proc'[s].state = "ZOMBIE"
               PROVE  Lwps(s)' = {}
    BY <1>2, <1>5 DEF ThreadsGoFirst, Made
  <2>1. s \in Slots \ D /\ proc[s].state # "UNUSED" /\ Lwps(s)' = Lwps(s) \ D
    BY <1>2 DEF Made
  <2>2. CASE s = p
    <3>1. l = "close"
      BY <1>4, <1>7, <2>2
    <3>2. Lwps(p) \subseteq D
      BY <3>1 DEF ReapsTo
    <3> QED
      BY <2>1, <2>2, <3>2
  <2>3. CASE s # p
    <3>1. pc[s] = "close" \/ proc[s].state = "ZOMBIE"
      BY <1>4, <1>5, <2>1, <2>3
    <3>2. Lwps(s) = {}
      BY <3>1 DEF ThreadsGoFirst
    <3> QED
      BY <2>1, <3>2
  <2> QED
    BY <2>2, <2>3
<1>17. Creating' = Creating
  BY <1>4, <1>7 DEF Creating
<1>18. Counter'
  <2>1. ASSUME Threaded(program), ThreadsExit(program), NEW s \in Slots
        PROVE  /\ proc'[s].killed =>
                    pc'[s] \in {"reap", "close"} \/ proc'[s].state = "ZOMBIE"
               /\ pc'[s] = "reap" => Lwps(s)' = {}
    <3>1. CASE s \in D
      BY <1>4, <1>6, <3>1
    <3>2. CASE s = p
      <4>1. proc'[s].killed => pc[p] \in {"reap", "close"}
        BY <1>7, <2>1, <3>2 DEF Counter, ReapsTo
      <4>3. pc[p] = "reap" => Lwps(p) = {}
        BY <2>1 DEF Counter
      <4>4. Lwps(p)' = Lwps(p) \ D
        BY <1>2, <1>7
      <4> QED
        BY <1>4, <1>7, <3>2, <4>1, <4>3, <4>4
    <3>3. CASE s \notin D /\ s # p
      <4>1. proc'[s].killed => pc[s] \in {"reap", "close"} \/ proc[s].state = "ZOMBIE"
        BY <2>1, <3>3 DEF Counter, ReapsTo
      <4>2. pc[s] = "reap" => Lwps(s) = {} /\ Lwps(s)' = Lwps(s) \ D
        BY <1>2, <2>1, <3>3 DEF Counter, Places, Place
      <4> QED
        BY <1>4, <1>5, <3>3, <4>1, <4>2 DEF Running
    <3> QED
      BY <3>1, <3>2, <3>3
  <2>2. ASSUME Threaded(program), ~ThreadsExit(program), NEW s \in Slots,
               pc'[s] = "incstore"
        PROVE  load'[s] = num_lwp'
    <3>1. pc[s] = "incstore" /\ s # p /\ load[s] = num_lwp
      BY <1>4, <1>7, <2>2 DEF Counter
    <3>2. s \in Made /\ s # initproc /\ proc[s].lwpid = 0
      BY <3>1 DEF Places, Place, Made, Setting
    <3>3. pc[p] = "reap" => p \in Made /\ p # initproc /\ proc[p].lwpid = 0
      BY <1>7 DEF Places, Place, Made
    <3>4. pc[p] # "reap"
      BY <2>2, <3>1, <3>2, <3>3, MainAlone
    <3> QED
      BY <3>1, <3>4 DEF ReapsTo
  <2> QED
    BY <1>2, <1>4, <1>17, <2>1, <2>2 DEF Counter, ReapsTo
<1>19. Typed'
  BY DEF ReapsTo
<1> QED
  BY <1>19, <1>3, <1>9, <1>10, <1>11, <1>12, <1>14, <1>15, <1>16, <1>18

\* The sets that are counted are finite.
LEMMA CountsFinite ==
  /\ IsFiniteSet(Slots) /\ IsFiniteSet(AllLwps) /\ IsFiniteSet(Creating)
  /\ Cardinality(AllLwps) \in Nat /\ Cardinality(Creating) \in Nat
  /\ \A D : /\ IsFiniteSet(AllLwps \ D) /\ Cardinality(AllLwps \ D) \in Nat
            /\ Cardinality(AllLwps \ D) <= Cardinality(AllLwps)
<1>1. IsFiniteSet(Slots)
  <2>1. \A n \in Int : IsFiniteSet(1..n)
    BY FS_Interval, SMT
  <2> QED
    BY <2>1, ProcAssumption, SMT DEF Slots
<1>2. AllLwps \subseteq Slots /\ Creating \subseteq Slots
  BY DEF AllLwps, Creating
<1>3. IsFiniteSet(AllLwps) /\ IsFiniteSet(Creating)
  BY <1>1, <1>2, FS_Subset
<1>4. \A D : /\ IsFiniteSet(AllLwps \ D)
             /\ Cardinality(AllLwps \ D) <= Cardinality(AllLwps)
  <2>1. \A D : AllLwps \ D \subseteq AllLwps
    OBVIOUS
  <2> QED
    BY <1>3, <2>1, FS_Subset
<1> QED
  BY <1>1, <1>3, <1>4, FS_CardinalityType

\* wait() reaps a child, fails or sleeps.
LEMMA WaitStep ==
  ASSUME ProcInv, NEW p \in Slots, Wait(p)
  PROVE  ProcInv'
<1> DEFINE dead == {q \in Children(p) : proc[q].state = "ZOMBIE"}
           q == Min(dead)
<1>1. /\ lock = NoProc /\ proc[p].state = "RUNNABLE" /\ pc[p] \in {"user", "wait"}
      /\ Threaded(program) => p = initproc \/ proc[p].lwpid # 0
  <2>1. CASE Enters(p, "wait")
    BY <2>1, Allowed
  <2>2. CASE At(p, "wait")
    BY <2>2 DEF At, ProcInv, Base, Places, Place
  <2> QED
    BY <2>1, <2>2 DEF Wait
<1>2. UNCHANGED <<program, arg, num_lwp, load, nextpid, nextlwpid, lock>>
  BY DEF Wait, counters
<1>3. Typed /\ arg' = [arg EXCEPT ![p] = arg[p]] /\ arg[p] \in Nat
  BY <1>2 DEF ProcInv, Base, Typed
<1>4. CASE dead # {}
  <2>1. /\ freed' = freed \cup {proc[q].pgdir}
        /\ proc' = [proc EXCEPT ![q] = ReapedChild(@)]
        /\ pc' = [pc EXCEPT ![p] = "user"]
    BY <1>4 DEF Wait, Goto
  <2>2. q \in dead
    BY <1>4, MinIn DEF Children
  <2> HIDE DEF q
  <2>3. /\ q \in Slots /\ q # p /\ q \in Made /\ q # initproc
        /\ proc[q].state = "ZOMBIE" /\ proc[q].parent = p
    BY <1>1, <2>2 DEF Children, Made, ProcInv, Base, Places, Place
  <2>4. proc[q].lwppid = 0 /\ proc[q].pgdir = proc[q].pid
    BY <1>1, <2>3 DEF ProcInv, Family, Kinds
  <2>5. /\ proc[q] \in ProcRecord /\ proc'[q] = ReapedChild(proc[q])
        /\ \A s \in Slots \ {q} : proc'[s] = proc[s]
    BY <1>3, <2>1, <2>3 DEF Typed
  <2>6. /\ proc'[q] \in ProcRecord /\ proc'[q].state = "UNUSED"
        /\ proc'[q].parent = NoProc /\ proc'[q].killed = FALSE /\ proc'[q].lwppid = 0
    BY <2>4, <2>5, ReapedChildFields
  <2>7. Typed'
    <3>1. proc' \in [Slots -> ProcRecord]
      BY <1>3, <2>1, <2>6 DEF Typed
    <3> QED
      BY <1>2, <1>3, <2>1, <3>1 DEF Typed, Labels
  <2>8. Reaps({q})
    BY <1>2, <2>1, <2>3, <2>4, <2>5, <2>6 DEF Reaps
  <2>9. AllLwps \ {q} = AllLwps
    BY <2>4 DEF AllLwps
  <2>10. /\ ~Threaded(program) => num_lwp' = 0
         /\ Threaded(program) /\ ~ThreadsExit(program) =>
              num_lwp' >= Cardinality(AllLwps \ {q}) + Cardinality(Creating)
    BY <1>1, <1>2, <2>9 DEF ProcInv, Count, Counter
  <2>11. p \in Slots \ {q} /\ proc'[p] = proc[p] /\ arg' = arg /\ load' = load
    BY <1>2, <2>3, <2>5
  <2>12. ReapsTo({q}, p, "user")
    BY <1>1, <1>2, <2>1, <2>4, <2>5, <2>7, <2>8, <2>10, <2>11 DEF ReapsTo
  <2> QED
    BY <2>11, <2>12, ReapsInv
<1>5. CASE dead = {} /\ (Children(p) = {} \/ proc[p].killed)
  <2>1. pc' = [pc EXCEPT ![p] = "user"] /\ UNCHANGED <<proc, freed>>
    BY <1>5 DEF Wait, Goto
  <2> QED
    BY <1>1, <1>2, <1>3, <2>1, ReturnStep
<1>6. CASE dead = {} /\ ~(Children(p) = {} \/ proc[p].killed)
  <2>1. proc' = sleep(proc, p, p) /\ pc' = [pc EXCEPT ![p] = "wait"] /\ freed' = freed
    BY <1>6 DEF Wait, Goto
  <2>2. p \in Nat /\ pc[p] \notin Setting \cup {"reap", "close", "texit"}
    BY <1>1, SMT DEF Slots, Setting
  <2>3. \A s \in Children(p) : proc[s].state # "ZOMBIE"
    BY <1>6
  <2> QED
    BY <1>1, <1>2, <1>3, <1>6, <2>1, <2>2, <2>3, SleepsInv
<1> QED
  BY <1>4, <1>5, <1>6

\* A pass of thread_join(): it reaps the LWP, or sleeps.
LEMMA JoinPassStep ==
  ASSUME ProcInv, NEW p \in Slots, lock = NoProc, proc[p].state = "RUNNABLE",
         pc[p] \in {"user", "join"}, p # initproc, proc[p].lwpid = 0,
         NEW t, \E q \in Lwps(p) : proc[q].lwpid = t, JoinPass(p, t)
  PROVE  ProcInv'
<1> DEFINE dead == {q \in Lwps(p) : proc[q].lwpid = t /\ proc[q].state = "ZOMBIE"}
           q == Min(dead)
<1>1. /\ UNCHANGED <<program, num_lwp, load, nextpid, nextlwpid, freed, lock>>
      /\ arg' = [arg EXCEPT ![p] = t]
  BY DEF JoinPass, counters, rest
<1>2. Typed /\ t \in Nat
  BY TableTypes DEF ProcInv, Base, Lwps
<1>3. CASE dead # {}
  <2>1. /\ proc' = [proc EXCEPT ![q] = ReapedLwp(@)]
        /\ pc' = [pc EXCEPT ![p] = "user"]
    BY <1>3 DEF JoinPass, Goto
  <2>2. q \in dead
    BY <1>3, MinIn DEF Lwps
  <2> HIDE DEF q
  <2>3. /\ q \in Slots /\ q # p /\ proc[q].state = "ZOMBIE" /\ proc[q].lwppid = proc[p].pid
    BY <2>2 DEF Lwps
  <2>5. /\ proc[q] \in ProcRecord /\ proc'[q] = ReapedLwp(proc[q])
        /\ \A s \in Slots \ {q} : proc'[s] = proc[s]
    BY <1>2, <2>1, <2>3 DEF Typed
  <2>6. /\ proc'[q] \in ProcRecord /\ proc'[q].state = "UNUSED"
        /\ proc'[q].parent = NoProc /\ proc'[q].killed = FALSE /\ proc'[q].lwppid = 0
    BY <2>5, ReapedLwpFields
  <2>7. Typed'
    <3>1. proc' \in [Slots -> ProcRecord]
      BY <1>2, <2>1, <2>6 DEF Typed
    <3> QED
      BY <1>1, <1>2, <2>1, <3>1 DEF Typed, Labels
  <2>8. Reaps({q})
    BY <1>1, <2>1, <2>3, <2>5, <2>6 DEF Reaps
  <2>9. /\ Cardinality(AllLwps \ {q}) \in Nat /\ Cardinality(AllLwps) \in Nat
        /\ Cardinality(Creating) \in Nat
        /\ Cardinality(AllLwps \ {q}) <= Cardinality(AllLwps)
    BY CountsFinite
  <2>10. /\ ~Threaded(program) => num_lwp' = 0
         /\ Threaded(program) /\ ~ThreadsExit(program) =>
              num_lwp' >= Cardinality(AllLwps \ {q}) + Cardinality(Creating)
    BY <1>1, <1>2, <2>9, SMT DEF ProcInv, Count, Counter, Typed
  <2>11. /\ p \in Slots \ {q} /\ proc'[p] = proc[p] /\ load' = load
         /\ \A s \in Slots \ {p} : arg'[s] = arg[s]
    BY <1>1, <1>2, <2>3, <2>5 DEF Typed
  <2>12. ReapsTo({q}, p, "user")
    BY <1>1, <2>1, <2>3, <2>5, <2>7, <2>8, <2>10, <2>11 DEF ReapsTo
  <2> QED
    BY <2>11, <2>12, ReapsInv
<1>4. CASE dead = {} /\ proc[p].killed
  <2>1. pc' = [pc EXCEPT ![p] = "user"] /\ proc' = proc
    BY <1>4 DEF JoinPass, Goto
  <2> QED
    BY <1>1, <1>2, <2>1, ReturnStep
<1>5. CASE dead = {} /\ ~proc[p].killed
  <2>1. proc' = sleep(proc, p, p) /\ pc' = [pc EXCEPT ![p] = "join"]
    BY <1>5 DEF JoinPass, Goto
  <2>2. p \in Nat /\ pc[p] \notin Setting \cup {"reap", "close", "texit"}
    BY SMT DEF Slots, Setting
  <2>3. \A s \in Lwps(p) : proc[s].lwpid = t => proc[s].state # "ZOMBIE"
    BY <1>5
  <2> QED
    BY <1>1, <1>2, <1>5, <2>1, <2>2, <2>3, SleepsInv
<1> QED
  BY <1>3, <1>4, <1>5

\* thread_join() starts a pass, or starts another one when woken.
LEMMA JoinStep ==
  ASSUME ProcInv, NEW p \in Slots, Join(p) \/ JoinAgain(p)
  PROVE  ProcInv'
<1>1. CASE Join(p)
  <2>1. /\ lock = NoProc /\ proc[p].state = "RUNNABLE" /\ pc[p] = "user" /\ p # initproc
    <3>1. Enters(p, "thread_join")
      BY <1>1 DEF Join
    <3> QED
      BY <3>1, Allowed, SMT
  <2>2. PICK q \in Lwps(p) : JoinPass(p, proc[q].lwpid) /\ proc[p].lwpid = 0
    BY <1>1 DEF Join
  <2> QED
    BY <2>1, <2>2, JoinPassStep
<1>2. CASE JoinAgain(p)
  <2>1. /\ lock = NoProc /\ proc[p].state = "RUNNABLE" /\ pc[p] = "join"
        /\ JoinPass(p, arg[p])
    BY <1>2 DEF JoinAgain, At
  <2>2. /\ p # initproc /\ proc[p].lwpid = 0
        /\ \E q \in Lwps(p) : proc[q].lwpid = arg[p]
    BY <2>1 DEF ProcInv, Base, Sleep, Places, Place, JoinExists
  <2> QED
    BY <2>1, <2>2, JoinPassStep
<1> QED
  BY <1>1, <1>2

\* A pass of exit()'s loop: it reaps the dead LWPs, marks and wakes the others.
LEMMA ExitReapStep ==
  ASSUME ProcInv, NEW p \in Slots, ExitReap(p)
  PROVE  ProcInv'
<1> DEFINE dead == {q \in Lwps(p) : proc[q].state = "ZOMBIE"}
           t == [q \in Slots |-> IF q \in dead THEN ReapedLwp(proc[q])
                                 ELSE IF q \in Lwps(p)
                                   THEN [proc[q] EXCEPT !.killed = TRUE]
                                   ELSE proc[q]]
           u == wakeup1(t, Lwps(p) \ dead)
           l == IF num_lwp' = 0 THEN "close" ELSE "reap"
<1>1. /\ lock = NoProc /\ proc[p].state = "RUNNABLE" /\ pc[p] = "reap"
      /\ UNCHANGED <<arg, load, nextpid, nextlwpid, program, freed, lock>>
      /\ num_lwp' = num_lwp - Cardinality(dead)
      /\ num_lwp' = 0 => proc' = u /\ pc' = [pc EXCEPT ![p] = "close"]
      /\ num_lwp' # 0 => proc' = sleep(u, p, p) /\ pc' = pc
  BY DEF ExitReap, At, LwpsGone, Goto, rest
<1>2. /\ Typed /\ p # initproc /\ p \in Made /\ proc[p].lwpid = 0 /\ proc[p].lwppid = 0
      /\ proc[p].pid # 0
  BY <1>1, SMT DEF ProcInv, Base, Family, Places, Place, Kinds, Made, Pids
<1>3. /\ dead \subseteq Lwps(p) /\ p \notin Lwps(p) /\ Lwps(p) \subseteq AllLwps
      /\ Lwps(p) \subseteq Slots
  BY <1>2 DEF Lwps, AllLwps
<1>4. /\ Cardinality(dead) \in Nat
      /\ Cardinality(AllLwps \ dead) = Cardinality(AllLwps) - Cardinality(dead)
      /\ Cardinality(AllLwps) \in Nat /\ Cardinality(Creating) \in Nat
      /\ Cardinality(AllLwps \ dead) = 0 <=> AllLwps \ dead = {}
  <2> HIDE DEF dead
  <2>1. dead \subseteq AllLwps /\ AllLwps \cap dead = dead
    BY <1>3
  <2>2. IsFiniteSet(AllLwps) /\ IsFiniteSet(dead) /\ IsFiniteSet(AllLwps \ dead)
    BY <2>1, CountsFinite, FS_Subset
  <2>3. Cardinality(AllLwps \ dead) = Cardinality(AllLwps) - Cardinality(AllLwps \cap dead)
    BY <2>2, FS_Difference
  <2>4. Cardinality(AllLwps \ dead) = 0 <=> AllLwps \ dead = {}
    BY <2>2, FS_EmptySet
  <2>5. Cardinality(dead) \in Nat
    BY <2>2, FS_CardinalityType
  <2> QED
    BY <2>1, <2>3, <2>4, <2>5, CountsFinite
<1>5. Lwps(p) # {} => Threaded(program)
  <2>1. ASSUME NEW q \in Lwps(p) PROVE q \in Made /\ proc[q].lwppid # 0
    BY <1>1, <1>2, <2>1, TableTypes DEF Lwps, Made, ProcInv, Base, Clean
  <2> QED
    BY <2>1 DEF ProcInv, Family, Kinds
<1>6. ~Threaded(program) => num_lwp' = 0 /\ dead = {}
  <2>1. Lwps(p) = {} => dead = {} /\ Cardinality(dead) = 0
    BY FS_EmptySet
  <2> QED
    BY <1>1, <1>5, <2>1, SMT DEF ProcInv, Count, Counter
<1>7. Threaded(program) /\ ~ThreadsExit(program) =>
        num_lwp' >= Cardinality(AllLwps \ dead) + Cardinality(Creating)
  <2> HIDE DEF dead
  <2>1. num_lwp \in Int
    BY <1>2 DEF Typed
  <2> QED
    BY <1>1, <1>4, <2>1, SMT DEF ProcInv, Count, Counter
<1>8. Threaded(program) /\ ThreadsExit(program) => Lwps(p) = {}
  BY <1>1 DEF ProcInv, Count, Counter
<1>9. num_lwp' = 0 => Lwps(p) \subseteq dead
  <2>1. CASE Threaded(program) /\ ~ThreadsExit(program)
    <3> HIDE DEF dead
    <3>1. Cardinality(AllLwps \ dead) \in Nat
      BY CountsFinite
    <3> QED
      BY <1>3, <1>4, <1>7, <2>1, <3>1, SMT
  <2> QED
    BY <1>5, <1>8, <2>1
<1>10. ASSUME NEW s \in Slots
       PROVE  /\ t[s] \in ProcRecord
              /\ s \in dead => /\ t[s].state = "UNUSED" /\ t[s].parent = NoProc
                               /\ t[s].lwppid = 0 /\ t[s].killed = FALSE
              /\ s \notin dead =>
                   /\ t[s].pid = proc[s].pid /\ t[s].parent = proc[s].parent
                   /\ t[s].lwpid = proc[s].lwpid /\ t[s].lwppid = proc[s].lwppid
                   /\ t[s].forked = proc[s].forked /\ t[s].pgdir = proc[s].pgdir
                   /\ t[s].chan = proc[s].chan /\ t[s].state = proc[s].state
                   /\ s \notin Lwps(p) => t[s].killed = proc[s].killed
  <2>1. proc[s] \in ProcRecord
    BY <1>2 DEF Typed
  <2>2. CASE s \in dead
    <3>1. t[s] = ReapedLwp(proc[s])
      BY <2>2
    <3> HIDE DEF t, dead
    <3> QED
      BY <2>1, <2>2, <3>1, ReapedLwpFields
  <2>3. CASE s \notin dead /\ s \in Lwps(p)
    <3>1. t[s] = [proc[s] EXCEPT !.killed = TRUE]
      BY <2>3
    <3> HIDE DEF t, dead
    <3> QED
      BY <2>1, <2>3, <3>1, KilledSet
  <2>4. CASE s \notin dead /\ s \notin Lwps(p)
    <3>1. t[s] = proc[s]
      BY <2>4
    <3> HIDE DEF t, dead
    <3> QED
      BY <2>1, <2>4, <3>1
  <2> QED
    BY <2>2, <2>3, <2>4
<1>11. t \in [Slots -> ProcRecord]
  BY <1>10
<1>12. /\ u \in [Slots -> ProcRecord]
       /\ \A s \in Slots :
            /\ u[s].pid = t[s].pid /\ u[s].parent = t[s].parent
            /\ u[s].killed = t[s].killed /\ u[s].lwpid = t[s].lwpid
            /\ u[s].lwppid = t[s].lwppid /\ u[s].forked = t[s].forked
            /\ u[s].pgdir = t[s].pgdir /\ u[s].chan = t[s].chan
            /\ t[s].state = "SLEEPING" /\ t[s].chan \in Lwps(p) \ dead
                 => u[s].state = "RUNNABLE"
            /\ ~(t[s].state = "SLEEPING" /\ t[s].chan \in Lwps(p) \ dead)
                 => u[s].state = t[s].state
  <2> HIDE DEF t, dead
  <2> QED
    BY <1>11, Woken, SMT
<1> HIDE DEF t, u, dead
<1>13. /\ proc' \in [Slots -> ProcRecord]
       /\ \A s \in Slots \ {p} : proc'[s] = u[s]
       /\ proc'[p].state = IF num_lwp' = 0 THEN u[p].state ELSE "SLEEPING"
       /\ num_lwp' # 0 => proc'[p].chan = p
       /\ proc'[p].pid = u[p].pid /\ proc'[p].parent = u[p].parent
       /\ proc'[p].killed = u[p].killed
       /\ proc'[p].lwpid = u[p].lwpid /\ proc'[p].lwppid = u[p].lwppid
       /\ proc'[p].forked = u[p].forked /\ proc'[p].pgdir = u[p].pgdir
  <2>1. CASE num_lwp' = 0
    BY <1>1, <1>12, <2>1
  <2>2. CASE num_lwp' # 0
    <3>1. p \in Nat
      BY SMT DEF Slots
    <3>2. proc' = sleep(u, p, p) /\ u \in [Slots -> ProcRecord]
      BY <1>1, <1>12, <2>2
    <3>3. LET v == sleep(u, p, p)
          IN  /\ v \in [Slots -> ProcRecord] /\ \A s \in Slots \ {p} : v[s] = u[s]
              /\ v[p].state = "SLEEPING" /\ v[p].chan = p /\ v[p].pid = u[p].pid
              /\ v[p].parent = u[p].parent /\ v[p].killed = u[p].killed
              /\ v[p].lwpid = u[p].lwpid /\ v[p].lwppid = u[p].lwppid
              /\ v[p].forked = u[p].forked /\ v[p].pgdir = u[p].pgdir
      BY <3>1, <3>2, Slept
    <3> QED
      BY <2>2, <3>2, <3>3
  <2> QED
    BY <2>1, <2>2
<1>14. Typed'
  BY <1>1, <1>2, <1>4, <1>13, SMT DEF Typed, Labels
<1>15. p \in Slots \ dead /\ dead \subseteq Slots /\ \A s \in dead : proc[s].state = "ZOMBIE"
  BY <1>3 DEF dead
<1>16. ASSUME NEW s \in dead
       PROVE  /\ proc'[s].state = "UNUSED" /\ proc'[s].parent = NoProc
              /\ proc'[s].lwppid = 0 /\ proc'[s].killed = FALSE
  <2>1. s \in Slots \ {p} /\ proc'[s] = u[s]
    BY <1>13, <1>15
  <2>2. /\ t[s].state = "UNUSED" /\ t[s].parent = NoProc
        /\ t[s].lwppid = 0 /\ t[s].killed = FALSE
    BY <1>10, <2>1
  <2> QED
    BY <1>12, <2>1, <2>2
<1>17. ASSUME NEW s \in Slots \ dead
       PROVE  /\ proc'[s].pid = proc[s].pid /\ proc'[s].parent = proc[s].parent
              /\ proc'[s].lwpid = proc[s].lwpid /\ proc'[s].lwppid = proc[s].lwppid
              /\ proc'[s].forked = proc[s].forked /\ proc'[s].pgdir = proc[s].pgdir
              /\ s # p => /\ proc'[s].chan = proc[s].chan
                          /\ proc'[s].state = proc[s].state
                             \/ (proc[s].state = "SLEEPING" /\ proc'[s].state = "RUNNABLE")
              /\ s = p => u[s].state = proc[s].state
              /\ s \notin Lwps(p) => proc'[s].killed = proc[s].killed
  <2>1. /\ t[s].pid = proc[s].pid /\ t[s].parent = proc[s].parent
        /\ t[s].lwpid = proc[s].lwpid /\ t[s].lwppid = proc[s].lwppid
        /\ t[s].forked = proc[s].forked /\ t[s].pgdir = proc[s].pgdir
        /\ t[s].chan = proc[s].chan /\ t[s].state = proc[s].state
        /\ s \notin Lwps(p) => t[s].killed = proc[s].killed
    BY <1>10
  <2>2. /\ u[s].pid = t[s].pid /\ u[s].parent = t[s].parent
        /\ u[s].killed = t[s].killed /\ u[s].lwpid = t[s].lwpid
        /\ u[s].lwppid = t[s].lwppid /\ u[s].forked = t[s].forked
        /\ u[s].pgdir = t[s].pgdir /\ u[s].chan = t[s].chan
        /\ \/ u[s].state = t[s].state
           \/ t[s].state = "SLEEPING" /\ u[s].state = "RUNNABLE"
    BY <1>12
  <2>3. CASE s = p
    BY <1>1, <1>13, <2>1, <2>2, <2>3
  <2>4. CASE s # p
    BY <1>13, <2>1, <2>2, <2>4
  <2> QED
    BY <2>3, <2>4
<1>18. proc'[p].state = IF num_lwp' = 0 THEN "RUNNABLE" ELSE "SLEEPING"
  <2>1. u[p].state = "RUNNABLE"
    BY <1>1, <1>15, <1>17
  <2> QED
    BY <1>13, <2>1
<1>19. Reaps(dead)
  BY <1>1, <1>15, <1>16, <1>17, <1>18 DEF Reaps, Running
<1>20. ReapsTo(dead, p, l)
  <2>1. pc' = [pc EXCEPT ![p] = l]
    BY <1>1, <1>2 DEF Typed
  <2>2. \A s \in dead : proc[s].lwppid \in {0, proc[p].pid}
    BY DEF dead, Lwps
  <2>3. \A q \in Lwps(p) \ dead : proc[q].state # "ZOMBIE"
    BY DEF dead
  <2>4. \A s \in (Slots \ dead) \ {p} :
          /\ proc'[s].chan = proc[s].chan
          /\ proc'[s].state = proc[s].state \/ proc'[s].state = "RUNNABLE"
    BY <1>17
  <2>5. Threaded(program) /\ ThreadsExit(program) =>
          \A s \in Slots \ dead : proc'[s].killed => proc[s].killed
    BY <1>8, <1>17
  <2>6. arg' = arg /\ load' = load /\ lock = NoProc
    BY <1>1
  <2> QED
    BY <1>1, <1>2, <1>6, <1>7, <1>9, <1>13, <1>14, <1>18, <1>19, <2>1, <2>2, <2>3,
       <2>4, <2>5, <2>6 DEF ReapsTo
<1> QED
  BY <1>15, <1>20, ReapsInv

-----------------------------------------------------------------------------
(* The steps with which a process or an LWP becomes a zombie. *)

Dies(p) ==
  /\ lock = NoProc /\ proc[p].state = "RUNNABLE" /\ pc[p] \in {"close", "texit"}
  /\ Typed' /\ pc' = [pc EXCEPT ![p] = "user"] /\ proc'[p].state = "ZOMBIE"
  /\ \A s \in Slots :
       /\ proc'[s].pid = proc[s].pid /\ proc'[s].killed = proc[s].killed
       /\ proc'[s].lwpid = proc[s].lwpid /\ proc'[s].lwppid = proc[s].lwppid
       /\ proc'[s].forked = proc[s].forked /\ proc'[s].pgdir = proc[s].pgdir
       /\ proc'[s].chan = proc[s].chan
       /\ proc[s].parent = p => proc'[s].parent = initproc
       /\ proc[s].parent # p => proc'[s].parent = proc[s].parent
  /\ \A s \in Slots \ {p} :
       /\ \/ proc'[s].state = proc[s].state
          \/ proc[s].state = "SLEEPING" /\ proc'[s].state = "RUNNABLE"
       /\ proc'[s].state = "SLEEPING" => proc[s].chan # proc[p].parent
  /\ \A q \in Children(p) : proc[q].state = "ZOMBIE" =>
       ~(proc'[initproc].state = "SLEEPING" /\ proc[initproc].chan = initproc)
  /\ num_lwp' = num_lwp \/ pc[p] = "texit"
  /\ UNCHANGED <<arg, load, nextpid, nextlwpid, program, freed, lock>>

\* A step with which p becomes a zombie, and its children become init's, keeps
\* the invariant.
LEMMA DiesInv ==
  ASSUME ProcInv, NEW p \in Slots, Dies(p)
  PROVE  ProcInv'
<1> USE DEF ProcInv, Base, Family, Sleep, Count
<1>1. /\ lock = NoProc /\ proc[p].state = "RUNNABLE" /\ pc[p] \in {"close", "texit"}
      /\ p \in Made /\ p # initproc /\ initproc \in Slots /\ NoProc # p
      /\ pc'[p] = "user" /\ \A s \in Slots \ {p} : pc'[s] = pc[s]
      /\ UNCHANGED <<arg, load, nextpid, nextlwpid, program, freed, lock>>
      /\ p \in Alive /\ Typed'
  BY InitSlot, SMT DEF Dies, Places, Place, Made, Alive, Typed
<1>2. \A s \in Slots :
      /\ proc'[s].pid = proc[s].pid /\ proc'[s].killed = proc[s].killed
      /\ proc'[s].lwpid = proc[s].lwpid /\ proc'[s].lwppid = proc[s].lwppid
      /\ proc'[s].forked = proc[s].forked /\ proc'[s].pgdir = proc[s].pgdir
      /\ proc'[s].chan = proc[s].chan
      /\ proc[s].parent = p => proc'[s].parent = initproc
      /\ proc[s].parent # p => proc'[s].parent = proc[s].parent
  BY DEF Dies
<1>3. /\ proc'[p].state = "ZOMBIE"
      /\ \A s \in Slots \ {p} :
           /\ \/ proc'[s].state = proc[s].state
              \/ proc[s].state = "SLEEPING" /\ proc'[s].state = "RUNNABLE"
           /\ proc'[s].state = "SLEEPING" => proc[s].chan # proc[p].parent
  BY DEF Dies
<1>4. Made' = Made /\ Alive' = Alive \ {p} /\ initproc \in Alive'
  <2>1. Made' = Made
    BY <1>1, <1>3 DEF Made
  <2>2. Alive' = Alive \ {p}
    BY <1>1, <1>3, <2>1 DEF Alive, Made
  <2>3. initproc \in Alive
    BY <1>1 DEF Places, Place, Alive, Made
  <2> QED
    BY <1>1, <2>1, <2>2, <2>3
<1>5. Mains' = Mains
  <2>1. \A s \in Made : proc'[s].lwpid = proc[s].lwpid
    BY <1>2 DEF Made
  <2> QED
    BY <1>4, <2>1 DEF Mains
<1>6. AllLwps' = AllLwps /\ \A s \in Slots : Lwps(s)' = Lwps(s)
  <2>1. AllLwps' = AllLwps
    BY <1>2 DEF AllLwps
  <2>2. ASSUME NEW s \in Slots PROVE Lwps(s)' = Lwps(s)
    BY <1>2 DEF Lwps
  <2> QED
    BY <2>1, <2>2
<1>7. \A s \in Slots \ {initproc, p} : Children(s)' = Children(s)
  <2> SUFFICES ASSUME NEW s \in Slots \ {initproc, p} PROVE Children(s)' = Children(s)
    OBVIOUS
  <2> QED
    BY <1>2 DEF Children
<1>8. Children(initproc)' = Children(initproc) \cup Children(p)
  BY <1>1, <1>2 DEF Children
<1>9. pc[p] = "close" /\ proc[p].lwpid = 0 => Lwps(p) = {}
  BY <1>1 DEF ThreadsGoFirst
<1>10. pc[p] = "texit" => /\ proc[p].lwppid # 0 /\ ThreadsExit(program) /\ Children(p) = {}
                          /\ Threaded(program) /\ proc[p].lwpid # 0
                          /\ proc[p].parent \in Made \ {initproc}
                          /\ proc[proc[p].parent].lwpid = 0
                          /\ proc[proc[p].parent].pid = proc[p].lwppid
  BY <1>1 DEF Places, Place, Childless, Kinds
<1>11. \A s \in Made : proc[s].lwppid # 0 => proc[s].parent # p
  <2> SUFFICES ASSUME NEW s \in Made, proc[s].lwppid # 0, proc[s].parent = p PROVE FALSE
    OBVIOUS
  <2>1. proc[p].lwpid = 0 /\ proc[p].pid = proc[s].lwppid /\ s \in Slots
    BY DEF Kinds, Made
  <2>2. s \in Lwps(p)
    BY <2>1 DEF Lwps
  <2> QED
    BY <1>1, <1>9, <1>10, <2>1, <2>2
<1>12. Pids'
  BY <1>1, <1>2, <1>3, SMT DEF Pids
<1>13. Clean'
  BY <1>1, <1>2, <1>3, SMT DEF Clean
<1>14. ParentAlive'
  BY <1>2, <1>4 DEF ParentAlive, Made
<1>15. Kinds'
  <2> SUFFICES ASSUME NEW s \in Made
               PROVE  /\ proc'[s].lwppid = 0 =>
                           /\ proc'[s].forked <=> proc'[s].lwpid # 0
                           /\ proc'[s].pgdir = proc'[s].pid
                      /\ proc'[s].lwppid # 0 =>
                           /\ Threaded(program) /\ ~proc'[s].forked
                           /\ proc'[s].lwpid # 0
                           /\ proc'[s].parent \in Made \ {initproc}
                           /\ proc'[proc'[s].parent].lwpid = 0
                           /\ proc'[proc'[s].parent].lwppid = 0
                           /\ proc'[proc'[s].parent].pid = proc'[s].lwppid
                           /\ proc'[s].pgdir = proc'[s].lwppid
    BY <1>1, <1>4 DEF Kinds
  <2>1. /\ s \in Slots
        /\ proc'[s].lwppid = proc[s].lwppid /\ proc'[s].lwpid = proc[s].lwpid
        /\ proc'[s].forked = proc[s].forked /\ proc'[s].pgdir = proc[s].pgdir
        /\ proc'[s].pid = proc[s].pid
        /\ proc[s].lwppid # 0 => proc'[s].parent = proc[s].parent
    BY <1>2, <1>11 DEF Made
  <2>2. \A m \in Made : /\ proc'[m].lwpid = proc[m].lwpid
                        /\ proc'[m].lwppid = proc[m].lwppid
                        /\ proc'[m].pid = proc[m].pid
    BY <1>2 DEF Made
  <2> QED
    BY <2>1, <2>2, SMT DEF Kinds
<1>16. Places'
  BY <1>1, <1>2, <1>3, SMT DEF Places, Place, Setting
<1>17. Embryos'
  BY <1>1, <1>3, SMT DEF Embryos, Setting
<1>18. Childless'
  BY <1>1, <1>7, SMT DEF Childless, Places, Place
<1>19. OneMain' /\ Frozen'
  <2>1. \A s \in Mains : proc[s].parent = initproc => proc'[s].parent = initproc
    BY <1>1, <1>2 DEF Mains, Made
  <2> QED
    BY <1>1, <1>5, <2>1 DEF OneMain, Frozen
<1>20. JoinExists'
  BY <1>1, <1>2, <1>6, SMT DEF JoinExists, Lwps
<1>21. \A s \in Slots \ {p} : proc'[s].state = "SLEEPING" => proc[s].state = "SLEEPING"
  BY <1>3
<1>22. ASSUME NEW s \in Slots \ {p}, proc'[s].state = "SLEEPING", pc[s] # "user"
       PROVE  proc[p].parent # s /\ p \notin Lwps(s)
  <2>1. proc[s].chan = s /\ proc[s].state = "SLEEPING"
    BY <1>21, <1>22 DEF Places, Place
  <2>2. proc[p].parent # s
    BY <1>3, <1>22, <2>1
  <2>3. ASSUME p \in Lwps(s) PROVE FALSE
    <3>1. proc[p].lwppid = proc[s].pid /\ proc[s].pid # 0 /\ proc[s].state # "UNUSED"
      BY <2>1, <2>3, SMT DEF Lwps, Pids
    <3>2. proc[p].parent \in Made /\ proc[proc[p].parent].pid = proc[s].pid
      BY <1>1, <3>1 DEF Kinds
    <3>3. proc[p].parent = s
      BY <3>1, <3>2 DEF Pids, Made
    <3> QED
      BY <2>2, <3>3
  <2> QED
    BY <2>2, <2>3
<1>23. Sleepers'
  <2> SUFFICES ASSUME NEW s \in Slots, proc'[s].state = "SLEEPING"
               PROVE  /\ pc'[s] = "wait" =>
                           /\ Children(s)' # {}
                           /\ \A q \in Children(s)' : proc'[q].state # "ZOMBIE"
                      /\ pc'[s] = "join" => \A q \in Lwps(s)' :
                           proc'[q].lwpid = arg'[s] => proc'[q].state # "ZOMBIE"
                      /\ pc'[s] = "reap" =>
                           /\ num_lwp' # 0
                           /\ \A q \in Lwps(s)' : proc'[q].state # "ZOMBIE"
    BY DEF Sleepers
  <2>1. /\ s # p /\ proc[s].state = "SLEEPING" /\ pc'[s] = pc[s] /\ arg' = arg
        /\ Lwps(s)' = Lwps(s) /\ Lwps(s) \subseteq Slots
    BY <1>1, <1>3, <1>6, <1>21 DEF Lwps
  <2>2. \A q \in Slots : q # p /\ proc'[q].state = "ZOMBIE" => proc[q].state = "ZOMBIE"
    BY <1>3
  <2>3. ASSUME pc[s] = "wait"
        PROVE  /\ Children(s)' # {}
               /\ \A q \in Children(s)' : proc'[q].state # "ZOMBIE"
    <3>1. /\ Children(s) # {} /\ \A q \in Children(s) : proc[q].state # "ZOMBIE"
          /\ p \notin Children(s) /\ Children(s) \subseteq Slots /\ proc[s].chan = s
      BY <1>22, <2>1, <2>3 DEF Sleepers, Children, Places, Place
    <3>2. CASE s # initproc
      BY <1>7, <2>1, <2>2, <3>1, <3>2
    <3>3. CASE s = initproc
      <4>1. \A q \in Children(p) : proc[q].state # "ZOMBIE" /\ q \in Slots
        BY <2>1, <3>1, <3>3 DEF Dies, Children
      <4>2. p \notin Children(p)
        BY DEF Places, Place, Children
      <4>3. Children(s)' = Children(s) \cup Children(p)
        BY <1>8, <3>3
      <4> QED
        BY <2>2, <3>1, <4>1, <4>2, <4>3
    <3> QED
      BY <3>2, <3>3
  <2>4. pc[s] = "join" => \A q \in Lwps(s) : proc[q].lwpid = arg[s]
                            => proc'[q].state # "ZOMBIE"
    BY <1>22, <2>1, <2>2 DEF Sleepers
  <2>5. pc[s] = "reap" => \A q \in Lwps(s) : proc'[q].state # "ZOMBIE"
    BY <1>22, <2>1, <2>2 DEF Sleepers
  <2>6. pc[s] = "reap" => num_lwp' # 0
    <3> SUFFICES ASSUME pc[s] = "reap" PROVE num_lwp' # 0
      OBVIOUS
    <3>1. num_lwp # 0 /\ s # initproc /\ s \in Made /\ proc[s].lwpid = 0
      BY <2>1 DEF Sleepers, Places, Place, Made
    <3>2. ASSUME pc[p] = "texit" PROVE FALSE
      <4>1. proc[p].parent = s
        BY <1>10, <3>1, <3>2, MainAlone DEF Made
      <4> QED
        BY <1>22, <2>1, <4>1
    <3> QED
      BY <3>1, <3>2 DEF Dies
  <2>7. \A q \in Lwps(s) : proc'[q].lwpid = proc[q].lwpid
    BY <1>2, <2>1
  <2> QED
    BY <2>1, <2>3, <2>4, <2>5, <2>6, <2>7
<1>24. ThreadsGoFirst'
  <2> SUFFICES ASSUME NEW s \in Made, proc[s].lwpid = 0,
                      pc'[s] = "close" \/ proc'[s].state = "ZOMBIE"
               PROVE  Lwps(s) = {}
    BY <1>2, <1>4, <1>6 DEF ThreadsGoFirst, Made
  <2>1. CASE s = p
    BY <1>1, <1>9, <1>10, <2>1
  <2>2. CASE s # p
    BY <1>1, <1>3, <2>2 DEF ThreadsGoFirst, Made
  <2> QED
    BY <2>1, <2>2
<1>25. Creating' = Creating
  BY <1>1 DEF Creating
<1>26. Counter'
  <2>1. ASSUME Threaded(program), ThreadsExit(program), NEW s \in Slots
        PROVE  /\ proc'[s].killed =>
                    pc'[s] \in {"reap", "close"} \/ proc'[s].state = "ZOMBIE"
               /\ pc'[s] = "reap" => Lwps(s)' = {}
    <3>1. CASE s = p
      BY <1>1, <1>3, <3>1
    <3>2. CASE s # p
      <4>1. proc[s].killed => pc[s] \in {"reap", "close"} \/ proc[s].state = "ZOMBIE"
        BY <2>1 DEF Counter
      <4>2. pc[s] = "reap" => Lwps(s) = {}
        BY <2>1 DEF Counter
      <4>3. proc'[s].killed => proc[s].killed
        BY <1>2
      <4> QED
        BY <1>1, <1>3, <1>6, <3>2, <4>1, <4>2, <4>3
    <3> QED
      BY <3>1, <3>2
  <2>2. ~(Threaded(program) /\ ThreadsExit(program)) => num_lwp' = num_lwp
    BY <1>10 DEF Dies
  <2>3. Threaded(program) /\ ~ThreadsExit(program) =>
          /\ num_lwp' >= Cardinality(AllLwps') + Cardinality(Creating')
          /\ \A s \in Slots : pc'[s] = "incstore" => load'[s] = num_lwp'
    BY <1>1, <1>6, <1>25, <2>2 DEF Counter
  <2>4. ~Threaded(program) => num_lwp' = 0
    BY <2>2 DEF Counter
  <2> QED
    BY <1>1, <2>1, <2>3, <2>4 DEF Counter
<1> QED
  BY <1>1, <1>12, <1>13, <1>14, <1>15, <1>16, <1>17, <1>18, <1>19, <1>20, <1>23,
     <1>24, <1>26

\* exit() ends.
LEMMA ExitFinishStep ==
  ASSUME ProcInv, NEW p \in Slots, ExitFinish(p)
  PROVE  ProcInv'
<1> DEFINE t == Adopted(p)
           w == wakeup1(t, ExitWakes(p))
<1>1. /\ Typed /\ lock = NoProc /\ proc[p].state = "RUNNABLE" /\ pc[p] = "close"
      /\ proc' = [w EXCEPT ![p].state = "ZOMBIE"] /\ pc' = [pc EXCEPT ![p] = "user"]
      /\ UNCHANGED <<arg, num_lwp, load, nextpid, nextlwpid, program, freed, lock>>
  BY DEF ExitFinish, At, Goto, counters, rest, ProcInv, Base
<1>2. /\ t \in [Slots -> ProcRecord]
      /\ \A s \in Slots :
           /\ t[s].pid = proc[s].pid /\ t[s].killed = proc[s].killed
           /\ t[s].lwpid = proc[s].lwpid /\ t[s].lwppid = proc[s].lwppid
           /\ t[s].forked = proc[s].forked /\ t[s].pgdir = proc[s].pgdir
           /\ t[s].chan = proc[s].chan /\ t[s].state = proc[s].state
           /\ proc[s].parent = p => t[s].parent = initproc
           /\ proc[s].parent # p => t[s].parent = proc[s].parent
  <2> SUFFICES ASSUME NEW s \in Slots
               PROVE  /\ t[s] \in ProcRecord
                      /\ t[s].pid = proc[s].pid /\ t[s].killed = proc[s].killed
                      /\ t[s].lwpid = proc[s].lwpid /\ t[s].lwppid = proc[s].lwppid
                      /\ t[s].forked = proc[s].forked /\ t[s].pgdir = proc[s].pgdir
                      /\ t[s].chan = proc[s].chan /\ t[s].state = proc[s].state
                      /\ proc[s].parent = p => t[s].parent = initproc
                      /\ proc[s].parent # p => t[s].parent = proc[s].parent
    BY DEF Adopted
  <2>1. proc[s] \in ProcRecord /\ initproc \in Slots
    BY <1>1, InitSlot DEF Typed
  <2>2. t[s] = IF proc[s].parent = p THEN [proc[s] EXCEPT !.parent = initproc]
                                     ELSE proc[s]
    BY DEF Adopted, Children
  <2>3. CASE proc[s].parent = p
    BY <2>1, <2>2, <2>3, ParentSet, SMT
  <2>4. CASE proc[s].parent # p
    BY <2>1, <2>2, <2>4
  <2> QED
    BY <2>3, <2>4
<1> HIDE DEF t
<1>3. /\ w \in [Slots -> ProcRecord]
      /\ \A s \in Slots :
           /\ w[s].pid = t[s].pid /\ w[s].parent = t[s].parent
           /\ w[s].killed = t[s].killed /\ w[s].lwpid = t[s].lwpid
           /\ w[s].lwppid = t[s].lwppid /\ w[s].forked = t[s].forked
           /\ w[s].pgdir = t[s].pgdir /\ w[s].chan = t[s].chan
           /\ t[s].state = "SLEEPING" /\ t[s].chan \in ExitWakes(p)
                => w[s].state = "RUNNABLE"
           /\ ~(t[s].state = "SLEEPING" /\ t[s].chan \in ExitWakes(p))
                => w[s].state = t[s].state
  BY <1>2, Woken, SMT
<1> HIDE DEF w
<1>4. /\ proc' \in [Slots -> ProcRecord] /\ proc'[p].state = "ZOMBIE"
      /\ proc'[p].pid = w[p].pid /\ proc'[p].parent = w[p].parent
      /\ proc'[p].killed = w[p].killed /\ proc'[p].lwpid = w[p].lwpid
      /\ proc'[p].lwppid = w[p].lwppid /\ proc'[p].forked = w[p].forked
      /\ proc'[p].pgdir = w[p].pgdir /\ proc'[p].chan = w[p].chan
      /\ \A s \in Slots \ {p} : proc'[s] = w[s]
  <2>1. w[p] \in ProcRecord /\ "ZOMBIE" \in States
    BY <1>3 DEF States
  <2>2. proc'[p] = [w[p] EXCEPT !.state = "ZOMBIE"]
    BY <1>1, <1>3
  <2>3. \A s \in Slots \ {p} : proc'[s] = w[s]
    BY <1>1, <1>3
  <2>4. /\ proc'[p] \in ProcRecord /\ proc'[p].state = "ZOMBIE"
        /\ proc'[p].pid = w[p].pid /\ proc'[p].parent = w[p].parent
        /\ proc'[p].killed = w[p].killed /\ proc'[p].lwpid = w[p].lwpid
        /\ proc'[p].lwppid = w[p].lwppid /\ proc'[p].forked = w[p].forked
        /\ proc'[p].pgdir = w[p].pgdir /\ proc'[p].chan = w[p].chan
    BY <2>1, <2>2, StateSet, SMT
  <2>5. proc' \in [Slots -> ProcRecord]
    BY <1>1, <1>3, <2>4
  <2> QED
    BY <2>3, <2>4, <2>5
<1>5. Typed'
  BY <1>1, <1>4 DEF Typed, Labels
<1>6. \A s \in Slots :
        /\ proc'[s].pid = proc[s].pid /\ proc'[s].killed = proc[s].killed
        /\ proc'[s].lwpid = proc[s].lwpid /\ proc'[s].lwppid = proc[s].lwppid
        /\ proc'[s].forked = proc[s].forked /\ proc'[s].pgdir = proc[s].pgdir
        /\ proc'[s].chan = proc[s].chan
        /\ proc[s].parent = p => proc'[s].parent = initproc
        /\ proc[s].parent # p => proc'[s].parent = proc[s].parent
  <2> SUFFICES ASSUME NEW s \in Slots
               PROVE  /\ proc'[s].pid = proc[s].pid /\ proc'[s].killed = proc[s].killed
                      /\ proc'[s].lwpid = proc[s].lwpid
                      /\ proc'[s].lwppid = proc[s].lwppid
                      /\ proc'[s].forked = proc[s].forked
                      /\ proc'[s].pgdir = proc[s].pgdir /\ proc'[s].chan = proc[s].chan
                      /\ proc[s].parent = p => proc'[s].parent = initproc
                      /\ proc[s].parent # p => proc'[s].parent = proc[s].parent
    OBVIOUS
  <2>1. CASE s = p
    BY <1>2, <1>3, <1>4, <2>1, SMT
  <2>2. CASE s # p
    BY <1>2, <1>3, <1>4, <2>2, SMT
  <2> QED
    BY <2>1, <2>2
<1>7. \A s \in Slots \ {p} :
        LET wakes == proc[s].state = "SLEEPING" /\ proc[s].chan \in ExitWakes(p)
        IN  /\ wakes => proc'[s].state = "RUNNABLE"
            /\ ~wakes => proc'[s].state = proc[s].state
  BY <1>2, <1>3, <1>4, SMT
<1>8. p # initproc /\ initproc \in Slots
  BY <1>1, InitSlot DEF ProcInv, Base, Places, Place
<1>9. proc[p].parent # NoProc /\ p \in Made
  BY <1>1, <1>8, InitSlot DEF ProcInv, Family, ParentAlive, Made, Alive
<1>10. \A s \in Slots \ {p} :
         /\ \/ proc'[s].state = proc[s].state
            \/ proc[s].state = "SLEEPING" /\ proc'[s].state = "RUNNABLE"
         /\ proc'[s].state = "SLEEPING" => proc[s].chan # proc[p].parent
  BY <1>7, <1>9 DEF ExitWakes
<1>11. \A q \in Children(p) : proc[q].state = "ZOMBIE" =>
         ~(proc'[initproc].state = "SLEEPING" /\ proc[initproc].chan = initproc)
  <2> SUFFICES ASSUME NEW q \in Children(p), proc[q].state = "ZOMBIE",
                      proc'[initproc].state = "SLEEPING", proc[initproc].chan = initproc
               PROVE  FALSE
    OBVIOUS
  <2>1. initproc \in ExitWakes(p)
    BY DEF ExitWakes
  <2> QED
    BY <1>7, <1>8, <2>1
<1>12. Dies(p)
  BY <1>1, <1>4, <1>5, <1>6, <1>10, <1>11 DEF Dies
<1> QED
  BY <1>12, DiesInv

\* thread_exit() ends.
LEMMA ThreadExitFinishStep ==
  ASSUME ProcInv, NEW p \in Slots, ThreadExitFinish(p)
  PROVE  ProcInv'
<1> DEFINE w == wakeup1(proc, {proc[p].parent})
<1>1. /\ Typed /\ lock = NoProc /\ proc[p].state = "RUNNABLE" /\ pc[p] = "texit"
      /\ proc' = [w EXCEPT ![p].state = "ZOMBIE"] /\ pc' = [pc EXCEPT ![p] = "user"]
      /\ num_lwp' = num_lwp - 1
      /\ UNCHANGED <<arg, load, nextpid, nextlwpid, program, freed, lock>>
  BY DEF ThreadExitFinish, At, Goto, rest, ProcInv, Base
<1>2. /\ w \in [Slots -> ProcRecord]
      /\ \A s \in Slots :
           /\ w[s].pid = proc[s].pid /\ w[s].parent = proc[s].parent
           /\ w[s].killed = proc[s].killed /\ w[s].lwpid = proc[s].lwpid
           /\ w[s].lwppid = proc[s].lwppid /\ w[s].forked = proc[s].forked
           /\ w[s].pgdir = proc[s].pgdir /\ w[s].chan = proc[s].chan
           /\ proc[s].state = "SLEEPING" /\ proc[s].chan \in {proc[p].parent}
                => w[s].state = "RUNNABLE"
           /\ ~(proc[s].state = "SLEEPING" /\ proc[s].chan \in {proc[p].parent})
                => w[s].state = proc[s].state
  BY <1>1, Woken, SMT DEF Typed
<1> HIDE DEF w
<1>3. /\ proc' \in [Slots -> ProcRecord] /\ proc'[p].state = "ZOMBIE"
      /\ proc'[p].pid = w[p].pid /\ proc'[p].parent = w[p].parent
      /\ proc'[p].killed = w[p].killed /\ proc'[p].lwpid = w[p].lwpid
      /\ proc'[p].lwppid = w[p].lwppid /\ proc'[p].forked = w[p].forked
      /\ proc'[p].pgdir = w[p].pgdir /\ proc'[p].chan = w[p].chan
      /\ \A s \in Slots \ {p} : proc'[s] = w[s]
  <2>1. w[p] \in ProcRecord /\ "ZOMBIE" \in States
    BY <1>2 DEF States
  <2>2. proc'[p] = [w[p] EXCEPT !.state = "ZOMBIE"]
    BY <1>1, <1>2
  <2>3. \A s \in Slots \ {p} : proc'[s] = w[s]
    BY <1>1, <1>2
  <2>4. /\ proc'[p] \in ProcRecord /\ proc'[p].state = "ZOMBIE"
        /\ proc'[p].pid = w[p].pid /\ proc'[p].parent = w[p].parent
        /\ proc'[p].killed = w[p].killed /\ proc'[p].lwpid = w[p].lwpid
        /\ proc'[p].lwppid = w[p].lwppid /\ proc'[p].forked = w[p].forked
        /\ proc'[p].pgdir = w[p].pgdir /\ proc'[p].chan = w[p].chan
    BY <2>1, <2>2, StateSet, SMT
  <2>5. proc' \in [Slots -> ProcRecord]
    BY <1>1, <1>2, <2>4
  <2> QED
    BY <2>3, <2>4, <2>5
<1>4. Typed'
  BY <1>1, <1>3, SMT DEF Typed, Labels
<1>5. Children(p) = {}
  BY <1>1 DEF ProcInv, Family, Childless
<1>6. \A s \in Slots :
        /\ proc'[s].pid = proc[s].pid /\ proc'[s].killed = proc[s].killed
        /\ proc'[s].lwpid = proc[s].lwpid /\ proc'[s].lwppid = proc[s].lwppid
        /\ proc'[s].forked = proc[s].forked /\ proc'[s].pgdir = proc[s].pgdir
        /\ proc'[s].chan = proc[s].chan
        /\ proc[s].parent = p => proc'[s].parent = initproc
        /\ proc[s].parent # p => proc'[s].parent = proc[s].parent
  <2> SUFFICES ASSUME NEW s \in Slots
               PROVE  /\ proc'[s].pid = proc[s].pid /\ proc'[s].killed = proc[s].killed
                      /\ proc'[s].lwpid = proc[s].lwpid
                      /\ proc'[s].lwppid = proc[s].lwppid
                      /\ proc'[s].forked = proc[s].forked
                      /\ proc'[s].pgdir = proc[s].pgdir /\ proc'[s].chan = proc[s].chan
                      /\ proc[s].parent = p => proc'[s].parent = initproc
                      /\ proc[s].parent # p => proc'[s].parent = proc[s].parent
    OBVIOUS
  <2>0. proc[s].parent # p
    BY <1>5 DEF Children
  <2>1. CASE s = p
    BY <1>2, <1>3, <2>0, <2>1
  <2>2. CASE s # p
    BY <1>2, <1>3, <2>0, <2>2, SMT
  <2> QED
    BY <2>1, <2>2
<1>7. \A s \in Slots \ {p} :
        /\ \/ proc'[s].state = proc[s].state
           \/ proc[s].state = "SLEEPING" /\ proc'[s].state = "RUNNABLE"
        /\ proc'[s].state = "SLEEPING" => proc[s].chan # proc[p].parent
  BY <1>2, <1>3, SMT
<1>8. Dies(p)
  BY <1>1, <1>3, <1>4, <1>5, <1>6, <1>7 DEF Dies
<1> QED
  BY <1>8, DiesInv

-----------------------------------------------------------------------------
(* Steps that set up a slot q or give it up. *)

\* One slot of the table changes.
LEMMA SlotSet ==
  ASSUME Typed, NEW q \in Slots, NEW n \in ProcRecord, proc' = [proc EXCEPT ![q] = n]
  PROVE  /\ proc' \in [Slots -> ProcRecord] /\ proc'[q] = n
         /\ \A s \in Slots \ {q} : proc'[s] = proc[s]
BY DEF Typed

Sets(p, q, l, n) ==
  /\ lock = NoProc /\ proc[p].state = "RUNNABLE" /\ p # q /\ n \in ProcRecord
  /\ proc[q].state \in {"UNUSED", "EMBRYO"} /\ n.state \in {"UNUSED", "EMBRYO"}
  /\ proc' = [proc EXCEPT ![q] = n] /\ pc' = [pc EXCEPT ![p] = l] /\ Typed'
  /\ n.killed = proc[q].killed
  /\ \A s \in Slots \ {p} : arg'[s] = arg[s]
  /\ nextpid' >= nextpid /\ UNCHANGED <<num_lwp, load, program, freed>>
  /\ lock' = NoProc => /\ n.parent = NoProc /\ n.lwppid = 0
                       /\ pc[p] # "create"
  /\ lock' # NoProc => /\ n.parent = p /\ n.lwppid = proc[p].pid
                       /\ lock' = p /\ p \in Mains
                       /\ Threaded(program)
  /\ \/ /\ l = "user" /\ n.state = "UNUSED" /\ arg' = arg
        /\ \/ pc[p] = "user" /\ proc[q].state = "UNUSED"
           \/ pc[p] \in Setting /\ arg[p] = q
     \/ /\ l \in {"fork", "incload"} /\ n.state = "EMBRYO" /\ pc[p] = "user"
        /\ lock' = NoProc /\ arg'[p] = q /\ proc[q].state = "UNUSED"
        /\ n.lwpid = 0 /\ n.forked = FALSE /\ n.pid = nextpid /\ nextpid' > nextpid
        /\ l = "fork" /\ Threaded(program) =>
             proc[p].lwpid # 0 \/ (p = initproc /\ Mains = {})
        /\ l = "incload" => /\ p # initproc /\ Threaded(program)
                            /\ proc[p].lwpid = 0

\* A step of p that takes slot q, or gives it up, keeps the invariant.
LEMMA SetsInv ==
  ASSUME ProcInv, NEW p \in Slots, NEW q \in Slots, NEW l, NEW n, Sets(p, q, l, n)
  PROVE  ProcInv'
<1> USE DEF ProcInv, Base, Family, Sleep, Count
<1>1. /\ lock = NoProc /\ proc[p].state = "RUNNABLE" /\ p # q /\ n \in ProcRecord
      /\ proc[q].state \in {"UNUSED", "EMBRYO"} /\ n.state \in {"UNUSED", "EMBRYO"}
      /\ Typed' /\ Typed /\ pc'[p] = l /\ \A s \in Slots \ {p} : pc'[s] = pc[s]
      /\ \A s \in Slots \ {p} : arg'[s] = arg[s]
      /\ UNCHANGED <<num_lwp, load, program, freed>>
      /\ initproc \in Slots /\ q # initproc /\ pc[q] = "user"
      /\ l \in {"user", "fork", "incload"}
  BY InitSlot DEF Sets, Typed, Places, Place
<1>2. proc'[q] = n /\ \A s \in Slots \ {q} : proc'[s] = proc[s]
  <2>1. proc' = [proc EXCEPT ![q] = n]
    BY DEF Sets
  <2> QED
    BY <1>1, <2>1, SlotSet
<1>3. proc[q].parent = NoProc /\ proc[q].lwppid = 0
  BY <1>1 DEF Clean
<1>4. /\ nextpid' >= nextpid /\ nextpid \in Nat /\ nextpid' \in Nat
      /\ n.state = "EMBRYO" => n.pid = nextpid /\ nextpid' > nextpid
  BY <1>1 DEF Sets, Typed
<1>5. Made' = Made /\ Alive' = Alive /\ q \notin Made /\ p \in Alive
  <2>1. \A s \in Slots : s \in Made' <=> s \in Made
    BY <1>1, <1>2 DEF Made
  <2>2. \A s \in Slots : s \in Alive' <=> s \in Alive
    BY <1>1, <1>2 DEF Made, Alive
  <2> QED
    BY <1>1, <2>1, <2>2 DEF Made, Alive
<1>6. \A s \in Made : proc'[s] = proc[s] /\ s \in Slots /\ s # q
  BY <1>2, <1>5 DEF Made
<1>7. Mains' = Mains
  BY <1>5, <1>6 DEF Mains
<1>8. \A s \in Slots : (lock' = NoProc \/ s # p) => Children(s)' = Children(s)
  <2> SUFFICES ASSUME NEW s \in Slots, lock' = NoProc \/ s # p
               PROVE  Children(s)' = Children(s)
    OBVIOUS
  <2>1. n.parent # s /\ proc[q].parent # s
    BY <1>3, InitSlot DEF Sets
  <2> QED
    BY <1>2, <2>1 DEF Children
<1>9. \A s \in Made : Lwps(s) \subseteq Lwps(s)' /\ q \notin Lwps(s)
  <2> SUFFICES ASSUME NEW s \in Made PROVE Lwps(s) \subseteq Lwps(s)' /\ q \notin Lwps(s)
    OBVIOUS
  <2>1. proc[s].pid # 0 /\ proc'[s].pid = proc[s].pid
    BY <1>6, SMT DEF Pids, Made
  <2> QED
    BY <1>2, <1>3, <2>1 DEF Lwps
<1>10. \A s \in Made : (lock' = NoProc \/ s # p) => Lwps(s)' = Lwps(s)
  <2> SUFFICES ASSUME NEW s \in Made, lock' = NoProc \/ s # p
               PROVE  q \notin Lwps(s)'
    BY <1>2, <1>9, <1>6, SMT DEF Lwps
  <2>1. proc'[s].pid = proc[s].pid /\ proc[s].pid # 0 /\ s \in Slots
    BY <1>6, SMT DEF Pids, Made
  <2>2. CASE lock' = NoProc
    BY <1>2, <2>1, <2>2 DEF Sets, Lwps
  <2>3. CASE lock' # NoProc
    <3>1. p \in Made /\ s # p /\ n.lwppid = proc[p].pid
      BY <2>3, <1>1 DEF Sets, Made
    <3> QED
      BY <1>2, <2>1, <3>1 DEF Pids, Lwps, Made
  <2> QED
    BY <2>2, <2>3
<1>11. Pids'
  <2>1. ASSUME NEW s \in Slots, proc'[s].state # "UNUSED"
        PROVE  /\ proc'[s].pid > 0 /\ proc'[s].pid < nextpid'
               /\ proc'[s].pid \notin freed
               /\ s # q => proc[s].state # "UNUSED" /\ proc'[s].pid = proc[s].pid
                           /\ proc[s].pid < nextpid
               /\ s = q => proc'[s].pid = nextpid
    <3>1. CASE s = q
      BY <1>1, <1>2, <1>4, <2>1, <3>1, SMT DEF Pids
    <3>2. CASE s # q
      BY <1>2, <1>4, <2>1, <3>2, TableTypes, SMT DEF Pids
    <3> QED
      BY <3>1, <3>2
  <2>2. ASSUME NEW s \in Slots, NEW r \in Slots, proc'[s].state # "UNUSED",
               proc'[r].state # "UNUSED", proc'[r].pid = proc'[s].pid
        PROVE  r = s
    <3>1. CASE s # q /\ r # q
      BY <2>1, <2>2, <3>1 DEF Pids
    <3>2. CASE s = q /\ r # q
      BY <1>4, <2>1, <2>2, <3>2, TableTypes, SMT
    <3>3. CASE s # q /\ r = q
      BY <1>4, <2>1, <2>2, <3>3, TableTypes, SMT
    <3> QED
      BY <3>1, <3>2, <3>3
  <2>3. nextpid' > 1 /\ \A d \in freed : d \in Nat /\ d < nextpid'
    BY <1>4, SMT DEF Pids
  <2> QED
    BY <1>1, <2>1, <2>2, <2>3 DEF Pids
<1>12. Clean'
  <2> SUFFICES ASSUME NEW s \in Slots, proc'[s].state \in {"UNUSED", "EMBRYO"}
               PROVE  /\ lock' = NoProc => proc'[s].parent = NoProc /\ proc'[s].lwppid = 0
                      /\ proc'[s].state = "EMBRYO" => proc'[s].lwpid = 0 /\ ~proc'[s].forked
    BY DEF Clean
  <2>1. CASE s = q
    <3>1. n.state = "EMBRYO" => n.lwpid = 0 /\ n.forked = FALSE
      BY DEF Sets
    <3> QED
      BY <1>2, <2>1, <3>1 DEF Sets
  <2>2. CASE s # q
    BY <1>1, <1>2, <2>2 DEF Clean
  <2> QED
    BY <2>1, <2>2
<1>13. Kinds'
  <2> SUFFICES ASSUME NEW s \in Made
               PROVE  /\ proc[s].lwppid = 0 =>
                           /\ proc[s].forked <=> proc[s].lwpid # 0
                           /\ proc[s].pgdir = proc[s].pid
                      /\ proc[s].lwppid # 0 =>
                           /\ Threaded(program) /\ ~proc[s].forked
                           /\ proc[s].lwpid # 0
                           /\ proc[s].parent \in Made \ {initproc}
                           /\ proc'[proc[s].parent].lwpid = 0
                           /\ proc'[proc[s].parent].lwppid = 0
                           /\ proc'[proc[s].parent].pid = proc[s].lwppid
                           /\ proc[s].pgdir = proc[s].lwppid
    BY <1>1, <1>5, <1>6, SMT DEF Kinds
  <2> QED
    BY <1>6 DEF Kinds
<1>14. ParentAlive'
  BY <1>5, <1>6 DEF ParentAlive
<1>15. Places'
  <2>1. p # initproc => pc'[initproc] = pc[initproc]
    BY <1>1
  <2>2. proc'[initproc] = proc[initproc]
    BY <1>1, <1>2
  <2>3. p = initproc => l \in {"user", "fork"}
    BY <1>1 DEF Sets
  <2>4. l = "fork" /\ Threaded(program) => p = initproc \/ proc[p].lwpid # 0
    BY DEF Sets
  <2>5. l = "incload" => Threaded(program) /\ proc[p].lwpid = 0
    BY DEF Sets
  <2>6. n.parent # q
    BY <1>1, InitSlot DEF Sets
  <2>7. ASSUME NEW s \in Slots PROVE Place(s)'
    <3>0. Place(s)
      BY DEF Places
    <3>1. CASE s = q
      BY <1>1, <1>2, <2>6, <3>1 DEF Place, Setting
    <3>2. CASE s = p
      BY <1>1, <1>2, <2>4, <2>5, <3>0, <3>2 DEF Place
    <3>3. CASE s # q /\ s # p
      BY <1>1, <1>2, <3>0, <3>3 DEF Place
    <3> QED
      BY <3>1, <3>2, <3>3
  <2> QED
    BY <1>1, <2>1, <2>2, <2>3, <2>7 DEF Places
<1>16. Embryos'
  <2>1. CASE l = "user"
    <3>1. arg' = arg
      BY <2>1 DEF Sets
    <3>2. \A s \in Slots : pc'[s] \in Setting => s # p /\ pc[s] \in Setting /\ arg[s] # q
      BY <1>1, <2>1, SMT DEF Sets, Embryos, Setting
    <3> QED
      BY <1>2, <3>1, <3>2 DEF Embryos
  <2>2. CASE l # "user"
    <3>1. arg'[p] = q /\ n.state = "EMBRYO" /\ proc[q].state = "UNUSED"
      BY <2>2 DEF Sets
    <3>2. \A s \in Slots \ {p} : pc'[s] \in Setting =>
            pc[s] \in Setting /\ arg'[s] = arg[s] /\ arg[s] # q
      BY <1>1, <3>1 DEF Embryos
    <3> SUFFICES ASSUME NEW s \in Slots, pc'[s] \in Setting
                 PROVE  /\ arg'[s] \in Slots /\ proc'[arg'[s]].state = "EMBRYO"
                        /\ \A r \in Slots : pc'[r] \in Setting /\ arg'[r] = arg'[s]
                                             => r = s
      BY DEF Embryos
    <3>3. CASE s = p
      BY <1>2, <3>1, <3>2, <3>3
    <3>4. CASE s # p
      BY <1>2, <3>1, <3>2, <3>4, SMT DEF Embryos
    <3> QED
      BY <3>3, <3>4
  <2> QED
    BY <2>1, <2>2
<1>17. Childless'
  BY <1>1, <1>8 DEF Childless
<1>18. OneMain'
  <2> SUFFICES ASSUME Threaded(program)
               PROVE  /\ \A s \in Mains : /\ proc[s].parent = initproc
                                          /\ arg'[initproc] = s
                      /\ pc'[initproc] = "fork" => Mains = {}
    <3>1. \A s \in Mains : proc'[s] = proc[s]
      BY <1>6 DEF Mains
    <3> QED
      BY <1>1, <1>7, <3>1 DEF OneMain
  <2>1. CASE p # initproc
    BY <1>1, <2>1 DEF OneMain
  <2>2. CASE p = initproc
    <3>1. proc[p].lwpid = 0 /\ p \notin Mains
      BY <2>2 DEF Places, Place, Mains
    <3>2. (l = "user" /\ arg' = arg) \/ Mains = {}
      BY <2>2, <3>1 DEF Sets
    <3> QED
      BY <1>1, <2>2, <3>2 DEF OneMain
  <2> QED
    BY <2>1, <2>2
<1>19. Frozen'
  <2> SUFFICES ASSUME lock' # NoProc
               PROVE  lock' \in Mains' /\ pc'[lock'] = "user" /\ Threaded(program')
    BY DEF Frozen
  <2>1. lock' = p /\ p \in Mains /\ Threaded(program) /\ l = "user"
    BY DEF Sets
  <2> QED
    BY <1>1, <1>7, <2>1
<1>20. \A s \in Slots : pc'[s] = "join" \/ pc'[s] = "reap" \/ proc'[s].state = "SLEEPING" =>
         /\ s # q /\ proc'[s] = proc[s] /\ s \in Made
  BY <1>1, <1>2, <1>15, SMT DEF Places, Place, Made
<1>21. JoinExists'
  <2> SUFFICES ASSUME NEW s \in Slots, pc'[s] = "join"
               PROVE  \E r \in Lwps(s)' : proc'[r].lwpid = arg'[s]
    BY DEF JoinExists
  <2>1. s # p /\ pc[s] = "join" /\ arg'[s] = arg[s] /\ s \in Made
    BY <1>1, <1>20
  <2>2. PICK r \in Lwps(s) : proc[r].lwpid = arg[s]
    BY <2>1 DEF JoinExists
  <2>3. r \in Lwps(s)' /\ proc'[r] = proc[r]
    BY <1>2, <1>9, <2>1 DEF Lwps
  <2> QED
    BY <2>1, <2>2, <2>3
<1>22. Sleepers'
  <2> SUFFICES ASSUME NEW s \in Slots, proc'[s].state = "SLEEPING"
               PROVE  /\ pc'[s] = "wait" =>
                           /\ Children(s)' # {}
                           /\ \A r \in Children(s)' : proc'[r].state # "ZOMBIE"
                      /\ pc'[s] = "join" => \A r \in Lwps(s)' :
                           proc'[r].lwpid = arg'[s] => proc'[r].state # "ZOMBIE"
                      /\ pc'[s] = "reap" =>
                           /\ num_lwp' # 0
                           /\ \A r \in Lwps(s)' : proc'[r].state # "ZOMBIE"
    BY DEF Sleepers
  <2>1. s # q /\ proc[s].state = "SLEEPING" /\ s \in Made /\ s # p
    BY <1>1, <1>20
  <2>2. /\ Children(s)' = Children(s) /\ Lwps(s)' = Lwps(s)
        /\ pc'[s] = pc[s] /\ arg'[s] = arg[s] /\ num_lwp' = num_lwp
        /\ Lwps(s) \subseteq Slots \ {q} /\ Children(s) \subseteq Slots \ {q}
    <3>1. proc[q].parent # s
      BY <1>3, InitSlot
    <3> QED
      BY <1>1, <1>8, <1>9, <1>10, <2>1, <3>1 DEF Lwps, Children
  <2> QED
    BY <1>2, <2>1, <2>2 DEF Sleepers
<1>23. ThreadsGoFirst'
  <2> SUFFICES ASSUME NEW s \in Made, proc[s].lwpid = 0,
                      pc'[s] = "close" \/ proc[s].state = "ZOMBIE"
               PROVE  Lwps(s)' = {}
    BY <1>5, <1>6 DEF ThreadsGoFirst
  <2>1. s # p /\ s \in Slots
    BY <1>1, <1>6
  <2> QED
    BY <1>1, <1>10, <2>1 DEF ThreadsGoFirst
<1>24. Counter'
  <2>1. ASSUME Threaded(program), ThreadsExit(program), NEW s \in Slots
        PROVE  /\ proc'[s].killed =>
                    pc'[s] \in {"reap", "close"} \/ proc'[s].state = "ZOMBIE"
               /\ pc'[s] = "reap" => Lwps(s)' = {}
    <3>1. \A r \in Slots : proc[r].killed =>
            pc[r] \in {"reap", "close"} \/ proc[r].state = "ZOMBIE"
      BY <2>1 DEF Counter
    <3>2. ~proc[q].killed
      BY <1>1, <3>1
    <3>3. n.killed = proc[q].killed
      BY DEF Sets
    <3>4. ~proc'[q].killed
      BY <1>2, <3>2, <3>3
    <3>5. pc[p] \notin {"reap", "close"}
      BY DEF Sets, Setting
    <3>6. ~proc[p].killed
      BY <1>1, <3>1, <3>5
    <3>7. pc'[s] = "reap" => s \in Made /\ s # p /\ pc[s] = "reap"
      BY <1>1, <1>20
    <3>8. pc'[s] = "reap" => Lwps(s)' = {}
      BY <1>10, <2>1, <3>7 DEF Counter
    <3>9. CASE s = q
      BY <3>4, <3>8, <3>9
    <3>10. CASE s = p
      BY <1>1, <1>2, <3>6, <3>8, <3>10
    <3>11. CASE s # p /\ s # q
      BY <1>1, <1>2, <3>1, <3>8, <3>11
    <3> QED
      BY <3>9, <3>10, <3>11
  <2>2. ASSUME Threaded(program), ~ThreadsExit(program), lock' = NoProc
        PROVE  /\ num_lwp' >= Cardinality(AllLwps') + Cardinality(Creating')
               /\ \A s \in Slots : pc'[s] = "incstore" => load'[s] = num_lwp'
    <3>1. n.lwppid = 0 /\ pc[p] # "create"
      BY <2>2 DEF Sets
    <3>2. AllLwps' = AllLwps
      BY <1>2, <1>3, <3>1 DEF AllLwps
    <3>3. Creating' = Creating
      BY <1>1, <3>1 DEF Creating
    <3> QED
      BY <1>1, <2>2, <3>2, <3>3 DEF Counter
  <2>3. ~Threaded(program) => num_lwp' = 0
    BY <1>1 DEF Counter
  <2> QED
    BY <1>1, <2>1, <2>2, <2>3 DEF Counter
<1> QED
  BY <1>1, <1>11, <1>12, <1>13, <1>14, <1>15, <1>16, <1>17, <1>18, <1>19, <1>21,
     <1>22, <1>23, <1>24

-----------------------------------------------------------------------------
(* Steps that make slot q runnable: a child of p, or an LWP of p. *)

Bears(p, q, n) ==
  /\ lock = NoProc /\ pc[p] \in Setting /\ arg[p] = q /\ n \in ProcRecord
  /\ proc' = [proc EXCEPT ![q] = n]
  /\ pc' = [pc EXCEPT ![p] = "user", ![q] = "user"] /\ Typed'
  /\ n.state = "RUNNABLE" /\ n.pid = proc[q].pid /\ n.parent = p
  /\ n.killed = proc[q].killed
  /\ \/ /\ pc[p] = "fork" /\ n.lwppid = 0 /\ n.pgdir = proc[q].pid
        /\ n.forked <=> n.lwpid # 0
        /\ n.lwpid = 0 => proc[p].lwpid = 0
     \/ /\ pc[p] = "create" /\ n.lwppid = proc[p].pid /\ n.pgdir = proc[p].pgdir
        /\ n.lwpid # 0 /\ ~n.forked
  /\ UNCHANGED <<arg, num_lwp, load, nextpid, program, freed, lock>>

\* A step that makes slot q runnable keeps the invariant.
LEMMA BearsInv ==
  ASSUME ProcInv, NEW p \in Slots, NEW q \in Slots, NEW n, Bears(p, q, n)
  PROVE  ProcInv'
<1> USE DEF ProcInv, Base, Family, Sleep, Count
<1>1. /\ lock = NoProc /\ pc[p] \in {"fork", "create"} /\ arg[p] = q /\ n \in ProcRecord
      /\ proc[p].state = "RUNNABLE" /\ proc[q].state = "EMBRYO" /\ p # q
      /\ pc[q] = "user" /\ q # initproc /\ initproc \in Slots
      /\ Typed /\ Typed' /\ pc'[p] = "user" /\ pc'[q] = "user"
      /\ \A s \in Slots \ {p} : pc'[s] = pc[s]
      /\ UNCHANGED <<arg, num_lwp, load, nextpid, program, freed, lock>>
  <2>1. pc[p] \in {"fork", "create"} /\ lock = NoProc /\ arg[p] = q /\ n \in ProcRecord
    BY DEF Bears
  <2>2. proc[p].state = "RUNNABLE" /\ proc[q].state = "EMBRYO" /\ initproc \in Slots
    BY <2>1, InitSlot DEF Embryos, Places, Place, Setting
  <2>3. p # q /\ pc[q] = "user" /\ q # initproc
    BY <2>2 DEF Places, Place
  <2>4. Typed /\ Typed' /\ pc' = [pc EXCEPT ![p] = "user", ![q] = "user"]
    BY DEF Bears
  <2>5. pc'[p] = "user" /\ pc'[q] = "user" /\ \A s \in Slots \ {p} : pc'[s] = pc[s]
    BY <2>3, <2>4 DEF Typed
  <2>6. UNCHANGED <<arg, num_lwp, load, nextpid, program, freed, lock>>
    BY DEF Bears
  <2> QED
    BY <2>1, <2>2, <2>3, <2>4, <2>5, <2>6
<1>2. proc'[q] = n /\ \A s \in Slots \ {q} : proc'[s] = proc[s]
  <2>1. proc' = [proc EXCEPT ![q] = n]
    BY DEF Bears
  <2> QED
    BY <1>1, <2>1, SlotSet
<1>3. proc[q].parent = NoProc /\ proc[q].lwppid = 0 /\ p # NoProc
  BY <1>1, InitSlot DEF Clean
<1>4. /\ n.state = "RUNNABLE" /\ n.pid = proc[q].pid /\ n.parent = p
      /\ n.killed = proc[q].killed
  BY DEF Bears
<1>5. pc[p] = "create" => /\ Threaded(program) /\ proc[p].lwpid = 0 /\ p # initproc
                          /\ proc[p].lwppid = 0 /\ proc[p].pgdir = proc[p].pid
                          /\ n.lwppid = proc[p].pid /\ n.pgdir = proc[p].pid
                          /\ n.lwpid # 0 /\ ~n.forked /\ proc[p].pid # 0
  <2>1. p \in Made /\ proc[p].pid # 0
    <3>1. proc[p].pid > 0
      BY <1>1 DEF Pids
    <3> QED
      BY <1>1, <3>1, SMT DEF Made
  <2>2. pc[p] = "create" => /\ Threaded(program) /\ proc[p].lwpid = 0 /\ p # initproc
    BY DEF Places, Place
  <2>3. proc[p].lwpid = 0 => proc[p].lwppid = 0 /\ proc[p].pgdir = proc[p].pid
    BY <2>1 DEF Kinds
  <2> QED
    BY <2>1, <2>2, <2>3 DEF Bears
<1>6. pc[p] = "fork" => n.lwppid = 0 /\ n.pgdir = proc[q].pid
  BY DEF Bears
<1>7. pc[p] = "fork" /\ n.lwpid = 0 => proc[p].lwpid = 0
  BY DEF Bears
<1>8. pc[p] = "fork" => (n.forked <=> n.lwpid # 0)
  BY DEF Bears
<1>9. /\ Made' = Made \cup {q} /\ Alive' = Alive \cup {q} /\ q \notin Made
      /\ p \in Alive /\ Made \subseteq Slots /\ Alive \subseteq Made
  <2>1. \A s \in Slots : s \in Made' <=> s \in Made \cup {q}
    BY <1>1, <1>2, <1>4 DEF Made
  <2>2. \A s \in Slots : s \in Alive' <=> s \in Alive \cup {q}
    BY <1>1, <1>2, <1>4, SMT DEF Made, Alive
  <2> QED
    BY <1>1, <2>1, <2>2 DEF Made, Alive
<1>10. \A s \in Made : proc'[s] = proc[s] /\ s # q /\ s \in Slots
  BY <1>2, <1>9
<1>11. \A s \in Slots \ {p} : Children(s)' = Children(s) /\ q \notin Children(s)
  <2> SUFFICES ASSUME NEW s \in Slots \ {p}
               PROVE  Children(s)' = Children(s) /\ q \notin Children(s)
    OBVIOUS
  <2>1. n.parent # s /\ proc[q].parent # s
    BY <1>3, <1>4, InitSlot
  <2> QED
    BY <1>2, <2>1 DEF Children
<1>12. \A s \in Made : /\ q \notin Lwps(s) /\ Lwps(s) \subseteq Lwps(s)'
                       /\ s # p => Lwps(s)' = Lwps(s)
  <2> SUFFICES ASSUME NEW s \in Made
               PROVE  /\ q \notin Lwps(s) /\ Lwps(s) \subseteq Lwps(s)'
                      /\ s # p => Lwps(s)' = Lwps(s)
    OBVIOUS
  <2>1. proc[s].pid # 0 /\ proc'[s].pid = proc[s].pid /\ s \in Slots
    BY <1>10, SMT DEF Pids, Made
  <2>2. q \notin Lwps(s)
    BY <1>3, <2>1 DEF Lwps
  <2>3. Lwps(s) \subseteq Lwps(s)'
    BY <1>2, <2>1, <2>2 DEF Lwps
  <2>4. ASSUME s # p PROVE n.lwppid # proc[s].pid
    <3>1. pc[p] = "fork" => n.lwppid # proc[s].pid
      BY <1>6, <2>1
    <3>2. pc[p] = "create" => n.lwppid # proc[s].pid
      <4>1. proc[p].pid # proc[s].pid
        BY <1>9, <2>1, <2>4 DEF Pids, Made
      <4> QED
        BY <1>5, <4>1
    <3> QED
      BY <1>1, <3>1, <3>2
  <2>5. s # p => Lwps(s)' = Lwps(s)
    BY <1>2, <1>3, <2>1, <2>4 DEF Lwps
  <2> QED
    BY <2>2, <2>3, <2>5
<1>13. Pids'
  BY <1>1, <1>2, <1>4, SMT DEF Pids
<1>14. Clean'
  BY <1>1, <1>2, <1>4, SMT DEF Clean
<1>15. Kinds'
  <2> SUFFICES ASSUME NEW s \in Made \cup {q}
               PROVE  /\ proc'[s].lwppid = 0 =>
                           /\ proc'[s].forked <=> proc'[s].lwpid # 0
                           /\ proc'[s].pgdir = proc'[s].pid
                      /\ proc'[s].lwppid # 0 =>
                           /\ Threaded(program) /\ ~proc'[s].forked
                           /\ proc'[s].lwpid # 0
                           /\ proc'[s].parent \in Made \ {initproc}
                           /\ proc'[proc'[s].parent].lwpid = 0
                           /\ proc'[proc'[s].parent].lwppid = 0
                           /\ proc'[proc'[s].parent].pid = proc'[s].lwppid
                           /\ proc'[s].pgdir = proc'[s].lwppid
    BY <1>1, <1>9 DEF Kinds
  <2>1. CASE s \in Made
    <3>1. proc'[s] = proc[s] /\ \A m \in Made : proc'[m] = proc[m]
      BY <1>10, <2>1
    <3> QED
      BY <2>1, <3>1, SMT DEF Kinds
  <2>2. CASE s = q /\ pc[p] = "fork"
    <3>1. n.forked <=> n.lwpid # 0
      BY <1>8, <2>2
    <3>2. n.lwppid = 0 /\ n.pgdir = n.pid
      BY <1>4, <1>6, <2>2
    <3> QED
      BY <1>2, <2>2, <3>1, <3>2
  <2>3. CASE s = q /\ pc[p] = "create"
    <3>1. proc'[p] = proc[p] /\ p \in Made \ {initproc}
      BY <1>5, <1>9, <1>10, <2>3
    <3> QED
      BY <1>2, <1>4, <1>5, <2>3, <3>1
  <2> QED
    BY <1>1, <2>1, <2>2, <2>3
<1>16. ParentAlive'
  BY <1>2, <1>4, <1>9, <1>10 DEF ParentAlive
<1>17. Places'
  <2>1. ASSUME NEW s \in Slots PROVE Place(s)'
    <3>1. Place(s)
      BY DEF Places
    <3>2. CASE s \in {p, q}
      BY <1>1, <1>2, <1>4, <3>1, <3>2 DEF Place, Setting
    <3>3. CASE s \notin {p, q}
      BY <1>1, <1>2, <3>1, <3>3 DEF Place
    <3> QED
      BY <3>2, <3>3
  <2>2. proc'[initproc] = proc[initproc] /\ pc'[initproc] \in {"user", pc[initproc]}
    BY <1>1, <1>2
  <2> QED
    BY <2>1, <2>2 DEF Places
<1>18. Embryos'
  <2>1. \A s \in Slots : pc'[s] \in Setting => s # p /\ pc[s] \in Setting /\ arg[s] # q
    BY <1>1 DEF Embryos, Setting
  <2> QED
    BY <1>1, <1>2, <2>1, SMT DEF Embryos
<1>19. Childless'
  BY <1>1, <1>11 DEF Childless
<1>20. OneMain'
  <2> SUFFICES ASSUME Threaded(program)
               PROVE  /\ \A s \in Mains' : /\ proc'[s].parent = initproc
                                           /\ arg[initproc] = s
                      /\ pc'[initproc] = "fork" => Mains' = {}
    BY <1>1 DEF OneMain
  <2>1. /\ Mains' \subseteq Mains \cup {q} /\ \A s \in Mains : proc'[s] = proc[s]
        /\ q \in Mains' => n.lwpid = 0
    BY <1>2, <1>9, <1>10 DEF Mains
  <2>2. CASE q \notin Mains'
    BY <1>1, <2>1, <2>2 DEF OneMain
  <2>3. CASE q \in Mains'
    <3>1. p = initproc /\ pc[p] = "fork"
      BY <1>1, <1>5, <1>7, <2>1, <2>3 DEF Places, Place
    <3>2. Mains' = {q}
      BY <2>1, <2>3, <3>1 DEF OneMain
    <3> QED
      BY <1>1, <1>2, <1>4, <3>1, <3>2
  <2> QED
    BY <2>2, <2>3
<1>21. Frozen'
  BY <1>1 DEF Frozen
<1>22. \A s \in Slots : pc'[s] = "join" \/ pc'[s] = "reap" \/ proc'[s].state = "SLEEPING" =>
         s # q /\ s # p /\ proc'[s] = proc[s] /\ s \in Made
  <2> SUFFICES ASSUME NEW s \in Slots,
                      pc'[s] = "join" \/ pc'[s] = "reap" \/ proc'[s].state = "SLEEPING"
               PROVE  s # q /\ s # p /\ proc'[s] = proc[s] /\ s \in Made
    OBVIOUS
  <2>1. s # q /\ s # p /\ proc'[s] = proc[s]
    BY <1>1, <1>2, <1>4
  <2>2. pc[s] = "join" \/ pc[s] = "reap" \/ proc[s].state = "SLEEPING"
    BY <1>1, <2>1
  <2> QED
    BY <2>1, <2>2 DEF Places, Place, Made
<1>23. JoinExists'
  <2> SUFFICES ASSUME NEW s \in Slots, pc'[s] = "join"
               PROVE  \E r \in Lwps(s)' : proc'[r].lwpid = arg[s]
    BY <1>1 DEF JoinExists
  <2>1. pc[s] = "join" /\ s \in Made
    BY <1>1, <1>22
  <2>2. PICK r \in Lwps(s) : proc[r].lwpid = arg[s]
    BY <2>1 DEF JoinExists
  <2>3. r \in Lwps(s)' /\ proc'[r] = proc[r]
    BY <1>2, <1>12, <2>1 DEF Lwps
  <2> QED
    BY <2>2, <2>3
<1>24. Sleepers'
  <2> SUFFICES ASSUME NEW s \in Slots, proc'[s].state = "SLEEPING"
               PROVE  /\ pc'[s] = "wait" =>
                           /\ Children(s)' # {}
                           /\ \A r \in Children(s)' : proc'[r].state # "ZOMBIE"
                      /\ pc'[s] = "join" => \A r \in Lwps(s)' :
                           proc'[r].lwpid = arg[s] => proc'[r].state # "ZOMBIE"
                      /\ pc'[s] = "reap" =>
                           /\ num_lwp # 0
                           /\ \A r \in Lwps(s)' : proc'[r].state # "ZOMBIE"
    BY <1>1 DEF Sleepers
  <2>1. s # q /\ proc[s].state = "SLEEPING" /\ s \in Made /\ s # p
    BY <1>22
  <2>2. /\ Children(s)' = Children(s) /\ Lwps(s)' = Lwps(s) /\ pc'[s] = pc[s]
        /\ Lwps(s) \subseteq Slots \ {q} /\ Children(s) \subseteq Slots \ {q}
    BY <1>1, <1>11, <1>12, <2>1, SMT DEF Lwps, Children
  <2> QED
    BY <1>2, <2>1, <2>2 DEF Sleepers
<1>25. ThreadsGoFirst'
  <2> SUFFICES ASSUME NEW s \in Made, proc[s].lwpid = 0,
                      pc'[s] = "close" \/ proc[s].state = "ZOMBIE"
               PROVE  Lwps(s)' = {}
    BY <1>1, <1>2, <1>4, <1>9, <1>10, SMT DEF ThreadsGoFirst
  <2>1. s # p /\ s \in Slots
    BY <1>1, <1>10
  <2> QED
    BY <1>1, <1>12, <2>1 DEF ThreadsGoFirst
<1>26. Counter'
  <2>1. ASSUME Threaded(program), ThreadsExit(program), NEW s \in Slots
        PROVE  /\ proc'[s].killed =>
                    pc'[s] \in {"reap", "close"} \/ proc'[s].state = "ZOMBIE"
               /\ pc'[s] = "reap" => Lwps(s)' = {}
    <3>1. \A r \in Slots : proc[r].killed =>
            pc[r] \in {"reap", "close"} \/ proc[r].state = "ZOMBIE"
      BY <2>1 DEF Counter
    <3>2. ~proc[q].killed /\ ~proc[p].killed
      BY <1>1, <3>1
    <3>3. ~proc'[q].killed
      BY <1>2, <1>4, <3>2
    <3>4. pc'[s] = "reap" => Lwps(s)' = {}
      BY <1>1, <1>12, <1>22, <2>1 DEF Counter
    <3>5. CASE s = q
      BY <3>3, <3>4, <3>5
    <3>6. CASE s = p
      BY <1>1, <1>2, <3>2, <3>4, <3>6
    <3>7. CASE s # p /\ s # q
      BY <1>1, <1>2, <3>1, <3>4, <3>7
    <3> QED
      BY <3>5, <3>6, <3>7
  <2>2. ASSUME Threaded(program), ~ThreadsExit(program)
        PROVE  /\ num_lwp' >= Cardinality(AllLwps') + Cardinality(Creating')
               /\ \A s \in Slots : pc'[s] = "incstore" => load'[s] = num_lwp'
    <3>1. CASE pc[p] = "fork"
      <4>1. AllLwps' = AllLwps
        BY <1>2, <1>3, <1>6, <3>1 DEF AllLwps
      <4>2. Creating' = Creating
        BY <1>1, <3>1 DEF Creating
      <4> QED
        BY <1>1, <2>2, <4>1, <4>2 DEF Counter
    <3>2. CASE pc[p] = "create"
      <4>1. AllLwps' = AllLwps \cup {q} /\ q \notin AllLwps
        BY <1>2, <1>3, <1>5, <3>2 DEF AllLwps
      <4>2. Creating' = Creating \ {p} /\ p \in Creating
        BY <1>1, <3>2 DEF Creating
      <4>3. IsFiniteSet(AllLwps) /\ IsFiniteSet(Creating)
        BY CountsFinite
      <4>4. Cardinality(AllLwps') = Cardinality(AllLwps) + 1
        BY <4>1, <4>3, FS_AddElement
      <4>5. Cardinality(Creating') = Cardinality(Creating) - 1
        BY <4>2, <4>3, FS_RemoveElement
      <4>6. Cardinality(AllLwps) \in Nat /\ Cardinality(Creating) \in Nat
        BY <4>3, FS_CardinalityType
      <4>7. num_lwp >= Cardinality(AllLwps) + Cardinality(Creating) /\ num_lwp \in Int
        BY <1>1, <2>2 DEF Counter, Typed
      <4>8. \A s \in Slots : pc'[s] = "incstore" => load'[s] = num_lwp'
        BY <1>1, <2>2 DEF Counter
      <4>9. num_lwp' = num_lwp
        BY <1>1
      <4>10. num_lwp' >= Cardinality(AllLwps') + Cardinality(Creating')
        BY <4>4, <4>5, <4>6, <4>7, <4>9, SMT
      <4> QED
        BY <4>8, <4>10
    <3> QED
      BY <1>1, <3>1, <3>2
  <2>3. ~Threaded(program) => num_lwp' = 0
    BY <1>1 DEF Counter
  <2> QED
    BY <1>1, <2>1, <2>2, <2>3 DEF Counter
<1> QED
  BY <1>1, <1>13, <1>14, <1>15, <1>16, <1>17, <1>18, <1>19, <1>20, <1>21, <1>23,
     <1>24, <1>25, <1>26

-----------------------------------------------------------------------------
(* fork() and thread_create(). *)

\* allocproc() for p, which goes on at l.
LEMMA AllocStep ==
  ASSUME ProcInv, NEW p \in Slots, NEW l \in {"fork", "incload"},
         lock = NoProc, proc[p].state = "RUNNABLE", pc[p] = "user", allocproc(p, l),
         l = "fork" /\ Threaded(program) =>
           proc[p].lwpid # 0 \/ (p = initproc /\ Mains = {}),
         l = "incload" => p # initproc /\ Threaded(program) /\ proc[p].lwpid = 0
  PROVE  ProcInv'
<1> DEFINE q == Min(Unusable)
           e == Embryo(q)
           u == [e EXCEPT !.state = "UNUSED"]
<1>1. q \in Slots /\ proc[q].state = "UNUSED" /\ p # q
  BY MinIn DEF allocproc, Unusable
<1>2. /\ Typed /\ nextpid' = nextpid + 1
      /\ UNCHANGED <<num_lwp, load, nextlwpid, program, freed, lock>>
  BY DEF allocproc, rest, ProcInv, Base
<1>3. \/ /\ proc' = [proc EXCEPT ![q] = e] /\ arg' = [arg EXCEPT ![p] = q]
         /\ pc' = [pc EXCEPT ![p] = l]
      \/ proc' = [proc EXCEPT ![q] = u] /\ UNCHANGED <<pc, arg>>
  BY DEF allocproc, Goto
<1>4. proc[q].parent = NoProc /\ proc[q].lwppid = 0
  BY <1>1 DEF ProcInv, Base, Clean
<1> HIDE DEF q
<1>5. /\ e \in ProcRecord /\ e.state = "EMBRYO" /\ e.pid = nextpid
      /\ e.parent = proc[q].parent /\ e.killed = proc[q].killed /\ e.lwpid = 0
      /\ e.lwppid = 0 /\ e.forked = FALSE
  BY <1>1, <1>2, EmbryoFields
<1> HIDE DEF e
<1>6. /\ u \in ProcRecord /\ u.state = "UNUSED" /\ u.parent = e.parent
      /\ u.killed = e.killed /\ u.lwppid = e.lwppid
  <2>1. "UNUSED" \in States
    BY DEF States
  <2> QED
    BY <1>5, <2>1, StateSet
<1> HIDE DEF u
<1>7. nextpid \in Nat /\ nextpid' \in Nat /\ nextpid' > nextpid /\ nextpid' >= nextpid
  BY <1>2, SMT DEF Typed
<1>8. CASE /\ proc' = [proc EXCEPT ![q] = e] /\ arg' = [arg EXCEPT ![p] = q]
           /\ pc' = [pc EXCEPT ![p] = l]
  <2>1. proc' \in [Slots -> ProcRecord]
    BY <1>1, <1>2, <1>5, <1>8, SlotSet
  <2>2. q \in Nat
    BY <1>1, SMT DEF Slots
  <2>3. Typed'
    BY <1>2, <1>7, <1>8, <2>1, <2>2 DEF Typed, Labels
  <2>4. arg'[p] = q /\ \A s \in Slots \ {p} : arg'[s] = arg[s]
    BY <1>2, <1>8 DEF Typed
  <2>5. Sets(p, q, l, e)
    BY <1>1, <1>2, <1>4, <1>5, <1>7, <1>8, <2>3, <2>4 DEF Sets
  <2> QED
    BY <1>1, <2>5, SetsInv
<1>9. CASE proc' = [proc EXCEPT ![q] = u] /\ UNCHANGED <<pc, arg>>
  <2>1. proc' \in [Slots -> ProcRecord]
    BY <1>1, <1>2, <1>6, <1>9, SlotSet
  <2>2. Typed'
    BY <1>2, <1>7, <1>9, <2>1 DEF Typed
  <2>3. pc' = [pc EXCEPT ![p] = "user"]
    BY <1>2, <1>9 DEF Typed
  <2>4. Sets(p, q, "user", u)
    BY <1>1, <1>2, <1>4, <1>5, <1>6, <1>7, <1>9, <2>2, <2>3 DEF Sets
  <2> QED
    BY <1>1, <2>4, SetsInv
<1> QED
  BY <1>3, <1>8, <1>9

\* fork() takes a slot.
LEMMA ForkAllocStep ==
  ASSUME ProcInv, NEW p \in Slots, ForkAlloc(p)
  PROVE  ProcInv'
<1>1. Enters(p, "fork") /\ allocproc(p, "fork")
  BY DEF ForkAlloc
<1>2. /\ lock = NoProc /\ proc[p].state = "RUNNABLE" /\ pc[p] = "user"
      /\ Threaded(program) => p = initproc \/ proc[p].lwpid # 0
  BY <1>1, Allowed
<1>3. ASSUME Threaded(program), p = initproc PROVE Mains = {}
  <2>1. arg[p] \notin Children(p)
    BY <1>3 DEF ForkAlloc, Children
  <2>2. \A s \in Mains : s \in Children(p) /\ arg[p] = s
    BY <1>3 DEF ProcInv, Family, OneMain, Children, Mains, Made
  <2> QED
    BY <2>1, <2>2
<1> QED
  BY <1>1, <1>2, <1>3, AllocStep

\* thread_create() takes a slot.
LEMMA CreateAllocStep ==
  ASSUME ProcInv, NEW p \in Slots, CreateAlloc(p)
  PROVE  ProcInv'
<1>1. Enters(p, "thread_create") /\ allocproc(p, "incload")
  BY DEF CreateAlloc
<1>2. /\ lock = NoProc /\ proc[p].state = "RUNNABLE" /\ pc[p] = "user"
      /\ p # initproc /\ proc[p].lwpid = 0 /\ Threaded(program)
  BY <1>1, Allowed
<1> QED
  BY <1>1, <1>2, AllocStep

\* fork() makes the child runnable, or gives the slot up.
LEMMA ForkStep ==
  ASSUME ProcInv, NEW p \in Slots, Fork(p)
  PROVE  ProcInv'
<1> DEFINE q == arg[p]
           f == Forked(p, q)
           u == Unforked(p, q)
<1>1. /\ Typed /\ lock = NoProc /\ proc[p].state = "RUNNABLE" /\ pc[p] = "fork"
      /\ pc[p] \in Setting
      /\ UNCHANGED <<arg, num_lwp, load, nextpid, program, freed, lock>>
      /\ nextlwpid' = IF proc[p].lwpid > 0 THEN nextlwpid + 1 ELSE nextlwpid
  BY DEF Fork, At, rest, ProcInv, Base, Setting
<1>2. \/ /\ proc' = [proc EXCEPT ![q] = f]
         /\ pc' = [pc EXCEPT ![p] = "user", ![q] = "user"]
      \/ proc' = [proc EXCEPT ![q] = u] /\ pc' = [pc EXCEPT ![p] = "user"]
  BY DEF Fork, Goto, Unforked
<1>3. q \in Slots /\ proc[q].state = "EMBRYO" /\ p # q
  BY <1>1 DEF ProcInv, Base, Embryos
<1>4. proc[q].parent = NoProc /\ proc[q].lwppid = 0
  BY <1>1, <1>3 DEF ProcInv, Base, Clean
<1>5. nextlwpid' \in Nat \ {0} /\ nextpid \in Nat /\ nextlwpid # 0
      /\ proc[p].lwpid \in Nat
  BY <1>1, TableTypes, SMT DEF Typed
<1> HIDE DEF q
<1>6. /\ f \in ProcRecord /\ f.state = "RUNNABLE" /\ f.pid = proc[q].pid
      /\ f.parent = p /\ f.killed = proc[q].killed
      /\ f.lwpid = (IF proc[p].lwpid > 0 THEN nextlwpid ELSE 0)
      /\ f.lwppid = proc[q].lwppid /\ f.pgdir = proc[q].pid
  <2>1. \A n : n = Forked(p, q) =>
          /\ n \in ProcRecord /\ n.state = "RUNNABLE" /\ n.pid = proc[q].pid
          /\ n.parent = p /\ n.killed = proc[q].killed
          /\ n.lwpid = (IF proc[p].lwpid > 0 THEN nextlwpid ELSE 0)
          /\ n.lwppid = proc[q].lwppid /\ n.pgdir = proc[q].pid
    BY <1>1, <1>3, ForkedFields, SMT
  <2> QED
    BY <2>1
<1>7. f.forked = (proc[p].lwpid > 0)
  BY <1>1, <1>3, ForkedFields, SMT
<1> HIDE DEF f
<1>8. /\ u \in ProcRecord /\ u.state = "UNUSED" /\ u.parent = proc[q].parent
      /\ u.killed = proc[q].killed /\ u.lwppid = proc[q].lwppid
  BY <1>1, <1>3, UnforkedFields, SMT
<1> HIDE DEF u
<1>9. CASE /\ proc' = [proc EXCEPT ![q] = f]
           /\ pc' = [pc EXCEPT ![p] = "user", ![q] = "user"]
  <2>1. proc' \in [Slots -> ProcRecord]
    BY <1>1, <1>3, <1>6, <1>9, SlotSet
  <2>2. Typed'
    BY <1>1, <1>5, <1>9, <2>1 DEF Typed, Labels
  <2>3. f.lwpid = 0 => proc[p].lwpid = 0
    BY <1>5, <1>6, SMT
  <2>4. f.lwpid # 0 <=> proc[p].lwpid > 0
    BY <1>5, <1>6
  <2>5. f.forked <=> f.lwpid # 0
    BY <1>7, <2>4
  <2>6. arg[p] = q
    BY DEF q
  <2>7. Bears(p, q, f)
    BY <1>1, <1>4, <1>6, <1>9, <2>2, <2>3, <2>5, <2>6 DEF Bears
  <2> QED
    BY <1>3, <2>7, BearsInv
<1>10. CASE proc' = [proc EXCEPT ![q] = u] /\ pc' = [pc EXCEPT ![p] = "user"]
  <2>1. proc' \in [Slots -> ProcRecord]
    BY <1>1, <1>3, <1>8, <1>10, SlotSet
  <2>2. Typed'
    BY <1>1, <1>5, <1>10, <2>1 DEF Typed, Labels
  <2>3. arg[p] = q
    BY DEF q
  <2>4. nextpid' >= nextpid
    BY <1>1, <1>5, SMT
  <2>5. Sets(p, q, "user", u)
    BY <1>1, <1>3, <1>4, <1>8, <1>10, <2>2, <2>3, <2>4 DEF Sets
  <2> QED
    BY <1>3, <2>5, SetsInv
<1> QED
  BY <1>2, <1>9, <1>10

\* thread_create() makes the LWP runnable, or gives the slot up and keeps the
\* lock.
LEMMA CreateStep ==
  ASSUME ProcInv, NEW p \in Slots, Create(p)
  PROVE  ProcInv'
<1> DEFINE q == arg[p]
           f == [Thread(p, q) EXCEPT !.state = "RUNNABLE"]
           u == [Thread(p, q) EXCEPT !.state = "UNUSED"]
<1>1. /\ Typed /\ lock = NoProc /\ proc[p].state = "RUNNABLE" /\ pc[p] = "create"
      /\ pc[p] \in Setting
      /\ UNCHANGED <<arg, num_lwp, load, nextpid, program, freed>>
      /\ nextlwpid' = nextlwpid + 1
  BY DEF Create, At, ProcInv, Base, Setting
<1>2. \/ /\ proc' = [proc EXCEPT ![q] = f] /\ lock' = lock
         /\ pc' = [pc EXCEPT ![p] = "user", ![q] = "user"]
      \/ /\ proc' = [proc EXCEPT ![q] = u] /\ pc' = [pc EXCEPT ![p] = "user"]
         /\ lock' = p
  BY DEF Create, Goto
<1>3. /\ q \in Slots /\ proc[q].state = "EMBRYO" /\ p # q /\ ~proc[q].forked
      /\ Threaded(program) /\ proc[p].lwpid = 0 /\ p \in Mains /\ p # NoProc
  <2>1. q \in Slots /\ proc[q].state = "EMBRYO" /\ p # q
    BY <1>1 DEF ProcInv, Base, Embryos
  <2>2. ~proc[q].forked
    BY <2>1 DEF ProcInv, Base, Clean
  <2>3. Threaded(program) /\ proc[p].lwpid = 0 /\ p # initproc /\ p # NoProc
    BY <1>1, InitSlot DEF ProcInv, Base, Places, Place
  <2>4. p \in Mains
    BY <1>1, <2>3 DEF Mains, Made
  <2> QED
    BY <2>1, <2>2, <2>3, <2>4
<1>4. nextlwpid' \in Nat \ {0} /\ nextpid \in Nat /\ nextlwpid # 0
  BY <1>1, SMT DEF Typed
<1> HIDE DEF q
<1>5. "RUNNABLE" \in States /\ "UNUSED" \in States
  BY DEF States
<1>6. /\ f \in ProcRecord /\ f.state = "RUNNABLE" /\ f.pid = proc[q].pid
      /\ f.parent = p /\ f.killed = proc[q].killed /\ f.lwpid = nextlwpid
      /\ f.lwppid = proc[p].pid /\ f.forked = proc[q].forked
      /\ f.pgdir = proc[p].pgdir
  BY <1>1, <1>3, <1>5, ThreadFields, SMT
<1>7. /\ u \in ProcRecord /\ u.state = "UNUSED" /\ u.parent = p
      /\ u.killed = proc[q].killed /\ u.lwppid = proc[p].pid
  BY <1>1, <1>3, <1>5, ThreadFields, SMT
<1> HIDE DEF f, u
<1>8. CASE /\ proc' = [proc EXCEPT ![q] = f] /\ lock' = lock
           /\ pc' = [pc EXCEPT ![p] = "user", ![q] = "user"]
  <2>1. proc' \in [Slots -> ProcRecord]
    BY <1>1, <1>3, <1>6, <1>8, SlotSet
  <2>2. Typed'
    BY <1>1, <1>4, <1>8, <2>1 DEF Typed, Labels
  <2>3. arg[p] = q
    BY DEF q
  <2>4. f.lwpid # 0 /\ ~f.forked
    BY <1>3, <1>4, <1>6
  <2>5. Bears(p, q, f)
    BY <1>1, <1>6, <1>8, <2>2, <2>3, <2>4 DEF Bears
  <2> QED
    BY <1>3, <2>5, BearsInv
<1>9. CASE /\ proc' = [proc EXCEPT ![q] = u] /\ pc' = [pc EXCEPT ![p] = "user"]
           /\ lock' = p
  <2>1. proc' \in [Slots -> ProcRecord]
    BY <1>1, <1>3, <1>7, <1>9, SlotSet
  <2>2. Typed'
    BY <1>1, <1>4, <1>9, <2>1 DEF Typed, Labels
  <2>3. arg[p] = q
    BY DEF q
  <2>4. nextpid' >= nextpid
    BY <1>1, <1>4, SMT
  <2>5. Sets(p, q, "user", u)
    BY <1>1, <1>3, <1>7, <1>9, <2>2, <2>3, <2>4 DEF Sets
  <2> QED
    BY <1>3, <2>5, SetsInv
<1> QED
  BY <1>2, <1>8, <1>9

\* num_lwp++ by p: its load and its store.
LEMMA CountStep ==
  ASSUME ProcInv, NEW p \in Slots, CreateLoad(p) \/ CreateStore(p)
  PROVE  ProcInv'
<1> USE DEF ProcInv, Base, Family, Sleep, Count
<1> DEFINE l == IF pc[p] = "incload" THEN "incstore" ELSE "create"
<1>1. /\ proc[p].state = "RUNNABLE" /\ pc[p] \in {"incload", "incstore"} /\ Typed
      /\ pc' = [pc EXCEPT ![p] = l]
      /\ UNCHANGED <<proc, arg, nextpid, nextlwpid, program, freed, lock>>
      /\ \/ pc[p] = "incload" /\ num_lwp' = num_lwp /\ load' = [load EXCEPT ![p] = num_lwp]
         \/ pc[p] = "incstore" /\ load' = load /\ num_lwp' = load[p] + 1
  BY DEF CreateLoad, CreateStore, Goto, rest
<1>2. Typed' /\ pc'[p] = l /\ \A s \in Slots \ {p} : pc'[s] = pc[s]
  BY <1>1, SMT DEF Typed, Labels
<1>3. /\ p # initproc /\ proc[p].lwpid = 0 /\ Threaded(program) /\ p \in Made
      /\ initproc \in Slots
  BY <1>1, InitSlot DEF Places, Place, Made
<1>4. lock = NoProc
  <2> SUFFICES ASSUME lock # NoProc PROVE FALSE
    OBVIOUS
  <2>1. /\ lock \in Slots \ {initproc} /\ lock \in Made /\ proc[lock].lwpid = 0
        /\ pc[lock] = "user"
    BY DEF Frozen, Mains, Made
  <2>2. p = lock
    BY <1>3, <2>1, MainAlone
  <2> QED
    BY <1>1, <2>1, <2>2
<1>5. /\ Made' = Made /\ Alive' = Alive /\ Mains' = Mains /\ AllLwps' = AllLwps
      /\ \A s \in Slots : Children(s)' = Children(s) /\ Lwps(s)' = Lwps(s)
      /\ Pids' /\ Clean' /\ Kinds' /\ ParentAlive'
  <2>1. Same
    BY <1>1 DEF Same
  <2> QED
    BY <2>1, SameFamily, SameKinds
<1>6. pc'[p] \in {"incstore", "create"} /\ UNCHANGED <<proc, arg, program, lock>>
  BY <1>1, <1>2
<1>7. Places'
  <2>1. ASSUME NEW s \in Slots PROVE Place(s)'
    <3>1. Place(s)
      BY DEF Places
    <3>2. CASE s = p
      BY <1>1, <1>3, <1>6, <3>1, <3>2 DEF Place, Setting
    <3>3. CASE s # p
      BY <1>2, <1>6, <3>1, <3>3 DEF Place
    <3> QED
      BY <3>2, <3>3
  <2> QED
    BY <1>2, <1>3, <1>6, <2>1 DEF Places
<1>8. Embryos'
  <2>1. \A s \in Slots : pc'[s] \in Setting => pc[s] \in Setting
    BY <1>1, <1>2 DEF Setting
  <2> QED
    BY <1>6, <2>1 DEF Embryos
<1>9. Childless' /\ OneMain' /\ Frozen'
  <2>1. Childless'
    BY <1>2, <1>5, <1>6 DEF Childless
  <2>2. OneMain'
    BY <1>2, <1>3, <1>5, <1>6 DEF OneMain
  <2>3. Frozen'
    BY <1>4, <1>6 DEF Frozen
  <2> QED
    BY <2>1, <2>2, <2>3
<1>10. JoinExists'
  <2>1. \A s \in Slots : pc'[s] = "join" => pc[s] = "join"
    BY <1>2, <1>6
  <2> QED
    BY <1>5, <1>6, <2>1 DEF JoinExists
<1>11. \A s \in Slots \ {p} : pc[s] # "reap"
  <2> SUFFICES ASSUME NEW s \in Slots \ {p}, pc[s] = "reap" PROVE FALSE
    OBVIOUS
  <2>1. s # initproc /\ proc[s].lwpid = 0 /\ s \in Made
    BY DEF Places, Place, Made
  <2> QED
    BY <1>3, <2>1, MainAlone
<1>12. Sleepers'
  <2>1. \A s \in Slots : proc'[s].state = "SLEEPING" =>
          proc[s].state = "SLEEPING" /\ s # p /\ pc'[s] = pc[s] /\ pc[s] # "reap"
    BY <1>1, <1>2, <1>11
  <2> QED
    BY <1>5, <1>6, <2>1 DEF Sleepers
<1>13. ThreadsGoFirst'
  <2>1. \A s \in Made : s \in Slots /\ (pc'[s] = "close" => pc[s] = "close")
    BY <1>2, <1>6 DEF Made
  <2> QED
    BY <1>5, <1>6, <2>1 DEF ThreadsGoFirst
<1>14. \A s \in Slots \ {p} : pc[s] # "incstore"
  <2> SUFFICES ASSUME NEW s \in Slots \ {p}, pc[s] = "incstore" PROVE FALSE
    OBVIOUS
  <2>1. s # initproc /\ proc[s].lwpid = 0 /\ s \in Made
    BY DEF Places, Place, Made
  <2> QED
    BY <1>3, <2>1, MainAlone
<1>15. ASSUME ~ThreadsExit(program)
       PROVE  /\ num_lwp' >= Cardinality(AllLwps') + Cardinality(Creating')
              /\ \A s \in Slots : pc'[s] = "incstore" => load'[s] = num_lwp'
  <2>1. /\ num_lwp >= Cardinality(AllLwps) + Cardinality(Creating) /\ num_lwp \in Int
        /\ pc[p] = "incstore" => load[p] = num_lwp
    BY <1>1, <1>3, <1>4, <1>15 DEF Counter, Typed
  <2>2. IsFiniteSet(Creating) /\ Cardinality(Creating) \in Nat
        /\ Cardinality(AllLwps) \in Nat
    BY CountsFinite
  <2>3. CASE pc[p] = "incload"
    <3>1. Creating' = Creating
      <4>1. \A s \in Slots : pc'[s] = "create" <=> pc[s] = "create"
        BY <1>1, <1>2, <2>3, SMT
      <4> QED
        BY <4>1 DEF Creating
    <3>2. load'[p] = num_lwp /\ num_lwp' = num_lwp
      BY <1>1, <2>3 DEF Typed
    <3> QED
      <4>1. \A s \in Slots : pc'[s] = "incstore" => s = p
        BY <1>2, <1>14
      <4> QED
        BY <1>5, <2>1, <3>1, <3>2, <4>1
  <2>4. CASE pc[p] = "incstore"
    <3>1. Creating' = Creating \cup {p} /\ p \notin Creating
      BY <1>1, <1>2, <2>4 DEF Creating
    <3>2. Cardinality(Creating') = Cardinality(Creating) + 1
      BY <2>2, <3>1, FS_AddElement
    <3>3. num_lwp' = num_lwp + 1
      BY <1>1, <2>1, <2>4
    <3>4. \A s \in Slots : pc'[s] # "incstore"
      BY <1>2, <1>14, <2>4
    <3> QED
      BY <1>5, <2>1, <2>2, <3>2, <3>3, <3>4, SMT
  <2> QED
    BY <1>1, <2>3, <2>4
<1>16. ASSUME ThreadsExit(program), NEW s \in Slots
       PROVE  /\ proc'[s].killed =>
                   pc'[s] \in {"reap", "close"} \/ proc'[s].state = "ZOMBIE"
              /\ pc'[s] = "reap" => Lwps(s)' = {}
  <2>1. \A r \in Slots : proc[r].killed =>
          pc[r] \in {"reap", "close"} \/ proc[r].state = "ZOMBIE"
    BY <1>3, <1>16 DEF Counter
  <2>2. ~proc[p].killed
    BY <1>1, <2>1
  <2>3. pc'[s] = "reap" => Lwps(s)' = {}
    BY <1>2, <1>3, <1>5, <1>16 DEF Counter
  <2>4. CASE s = p
    BY <1>1, <2>2, <2>3, <2>4
  <2>5. CASE s # p
    BY <1>1, <1>2, <2>1, <2>3, <2>5
  <2> QED
    BY <2>4, <2>5
<1>17. Counter'
  BY <1>1, <1>3, <1>15, <1>16 DEF Counter
<1> QED
  BY <1>2, <1>5, <1>7, <1>8, <1>9, <1>10, <1>12, <1>13, <1>17

-----------------------------------------------------------------------------
(* The invariant, and what it says. *)

\* The invariant holds once userinit() is done.
LEMMA InitProcInv ==
  ASSUME \A g \in Programs : Supported(g), Init
  PROVE  ProcInv
<1> DEFINE r == [Unused EXCEPT !.state = "RUNNABLE", !.pid = 1, !.pgdir = 1]
<1>1. /\ program \in Programs /\ Supported(program)
      /\ proc = [p \in Slots |-> IF p = initproc THEN r ELSE Unused]
      /\ pc = [p \in Slots |-> "user"] /\ arg = [p \in Slots |-> 0]
      /\ num_lwp = 0 /\ load = [p \in Slots |-> 0] /\ nextpid = 2 /\ nextlwpid = 1
      /\ freed = {} /\ lock = NoProc
  BY DEF Init
<1>2. /\ Unused \in ProcRecord /\ Unused.state = "UNUSED" /\ Unused.parent = NoProc
      /\ Unused.lwppid = 0 /\ Unused.killed = FALSE
  BY DEF Unused, ProcRecord, States, NoProc
<1>3. /\ r \in ProcRecord /\ r.state = "RUNNABLE" /\ r.pid = 1 /\ r.parent = NoProc
      /\ r.lwpid = 0 /\ r.lwppid = 0 /\ r.forked = FALSE /\ r.pgdir = 1
      /\ r.killed = FALSE
  BY DEF Unused, ProcRecord, States, NoProc
<1> HIDE DEF r
<1>4. /\ proc[initproc] = r /\ \A s \in Slots \ {initproc} : proc[s] = Unused
      /\ \A s \in Slots : pc[s] = "user" /\ proc[s].killed = FALSE
      /\ initproc \in Slots /\ NoProc \notin Slots
  BY <1>1, <1>2, <1>3, InitSlot
<1>5. Typed
  BY <1>1, <1>2, <1>3, SMT DEF Typed, Labels
<1>6. Made = {initproc} /\ Alive = {initproc} /\ Mains = {}
  BY <1>2, <1>3, <1>4, SMT DEF Made, Alive, Mains
<1>7. AllLwps = {} /\ Creating = {}
  BY <1>2, <1>3, <1>4, SMT DEF AllLwps, Creating
<1>8. Places /\ Embryos /\ Pids /\ Clean
  <2>1. Places
    BY <1>2, <1>3, <1>4 DEF Places, Place, Setting
  <2>2. Embryos
    BY <1>4 DEF Embryos, Setting
  <2>3. Pids
    BY <1>1, <1>2, <1>3, <1>4, SMT DEF Pids
  <2>4. Clean
    BY <1>2, <1>3, <1>4 DEF Clean
  <2> QED
    BY <2>1, <2>2, <2>3, <2>4
<1>9. Kinds /\ ParentAlive /\ Childless /\ OneMain /\ Frozen
  <2>1. Kinds
    BY <1>3, <1>4, <1>6 DEF Kinds
  <2>2. ParentAlive /\ OneMain
    BY <1>4, <1>6 DEF ParentAlive, OneMain
  <2>3. Childless /\ Frozen
    BY <1>1, <1>4 DEF Childless, Frozen
  <2> QED
    BY <2>1, <2>2, <2>3
<1>10. JoinExists /\ Sleepers
  BY <1>4 DEF JoinExists, Sleepers
<1>11. Counter
  BY <1>1, <1>4, <1>7, FS_EmptySet, SMT DEF Counter
<1>12. ThreadsGoFirst
  BY <1>3, <1>4, <1>6 DEF ThreadsGoFirst
<1> QED
  BY <1>5, <1>8, <1>9, <1>10, <1>11, <1>12 DEF ProcInv, Base, Family, Sleep, Count

\* Every step keeps the invariant.
LEMMA NextProcInv ==
  ASSUME ProcInv, [Next]_vars
  PROVE  ProcInv'
<1>1. CASE UNCHANGED vars
  BY <1>1, StutterStep DEF vars
<1>2. CASE Next
  <2> PICK p \in Slots :
        \/ ForkAlloc(p) \/ Exit(p) \/ Wait(p) \/ Kernel(p)
        \/ \E pid \in program.kills : Kill(p, pid)
        \/ IoSleep(p) \/ IoWake(p)
        \/ CreateAlloc(p) \/ ThreadExit(p) \/ Join(p)
    BY <1>2 DEF Next
  <2>1. CASE ForkAlloc(p)
    BY <2>1, ForkAllocStep
  <2>2. CASE Exit(p)
    BY <2>2, ExitStep
  <2>3. CASE Wait(p)
    BY <2>3, WaitStep
  <2>4. CASE Kernel(p)
    <3>1. CASE Fork(p)
      BY <3>1, ForkStep
    <3>2. CASE ExitReap(p)
      BY <3>2, ExitReapStep
    <3>3. CASE ExitFinish(p)
      BY <3>3, ExitFinishStep
    <3>4. CASE CreateLoad(p) \/ CreateStore(p)
      BY <3>4, CountStep
    <3>5. CASE Create(p)
      BY <3>5, CreateStep
    <3>6. CASE ThreadExitFinish(p)
      BY <3>6, ThreadExitFinishStep
    <3>7. CASE JoinAgain(p)
      BY <3>7, JoinStep
    <3> QED
      BY <2>2, <2>3, <2>4, <3>1, <3>2, <3>3, <3>4, <3>5, <3>6, <3>7, ExitStep, WaitStep
         DEF Kernel
  <2>5. CASE \E pid \in program.kills : Kill(p, pid)
    BY <2>5, KillStep
  <2>6. CASE IoSleep(p)
    BY <2>6, IoSleepStep
  <2>7. CASE IoWake(p)
    BY <2>7, IoWakeStep
  <2>8. CASE CreateAlloc(p)
    BY <2>8, CreateAllocStep
  <2>9. CASE ThreadExit(p)
    BY <2>9, ThreadExitStep
  <2>10. CASE Join(p)
    BY <2>10, JoinStep
  <2> QED
    BY <2>1, <2>2, <2>3, <2>4, <2>5, <2>6, <2>7, <2>8, <2>9, <2>10
<1> QED
  BY <1>1, <1>2

\* The inductive invariant holds throughout, for every table size, every number
\* of pids and every set of programs that use threads as proc.c supports.
THEOREM ProcInvariance ==
  ASSUME \A g \in Programs : Supported(g)
  PROVE  Spec => []ProcInv
<1>1. Init => ProcInv
  BY InitProcInv
<1>2. ProcInv /\ [Next]_vars => ProcInv'
  BY NextProcInv
<1> QED
  BY <1>1, <1>2, PTL DEF Spec

\* No wakeup is lost: whoever sleeps in wait(), thread_join() or exit() has
\* nothing to collect yet, and what they wait for has still to happen.
THEOREM SleeperHasReasonHolds ==
  ASSUME \A g \in Programs : Supported(g)
  PROVE  Spec => []SleeperHasReason
<1>1. ProcInv => SleeperHasReason
  BY DEF ProcInv, Sleep, Sleepers, JoinExists, SleeperHasReason
<1> QED
  BY <1>1, ProcInvariance, PTL

\* exit() hands its children over, so that whoever is made has a living parent.
THEOREM ParentAliveHolds ==
  ASSUME \A g \in Programs : Supported(g)
  PROVE  Spec => []ParentAlive
<1>1. ProcInv => ParentAlive
  BY DEF ProcInv, Family
<1> QED
  BY <1>1, ProcInvariance, PTL

\* exit() of a main thread does not get past its loop while an LWP exists.
THEOREM ThreadsGoFirstHolds ==
  ASSUME \A g \in Programs : Supported(g)
  PROVE  Spec => []ThreadsGoFirst
<1>1. ProcInv => ThreadsGoFirst
  BY DEF ProcInv, Count
<1> QED
  BY <1>1, ProcInvariance, PTL

\* wait() frees no page directory that a process or an LWP still has.
THEOREM NoUseAfterFreeHolds ==
  ASSUME \A g \in Programs : Supported(g)
  PROVE  Spec => []NoUseAfterFree
<1>1. ProcInv => NoUseAfterFree
  <2> SUFFICES ASSUME ProcInv, NEW p \in Made PROVE proc[p].pgdir \notin freed
    BY DEF NoUseAfterFree
  <2>1. \A s \in Made : proc[s].pid \notin freed
    BY DEF ProcInv, Base, Pids, Made
  <2>2. CASE proc[p].lwppid = 0
    BY <2>1, <2>2 DEF ProcInv, Family, Kinds
  <2>3. CASE proc[p].lwppid # 0
    BY <2>1, <2>3 DEF ProcInv, Family, Kinds
  <2> QED
    BY <2>2, <2>3
<1> QED
  BY <1>1, ProcInvariance, PTL
=============================================================================
