-------------------------------- MODULE Pipe --------------------------------
(***************************************************************************)
(* Pipes (pipe.c): a ring of PIPESIZE bytes under a spin lock, two sleep   *)
(* channels, and the two free-running unsigned counters nread and nwrite.  *)
(* A process keeps p->lock from one sleep to the next; the test of killed  *)
(* and the moment the process is SLEEPING are different steps, because     *)
(* kill() takes only ptable.lock.                                          *)
(***************************************************************************)
EXTENDS Naturals, FiniteSets

CONSTANTS Writers, Readers,   \* processes holding the two ends
          Killable,           \* those that somebody may kill
          Bytes,              \* byte values
          PIPESIZE,           \* bytes in the ring
          UMOD,               \* 2^(width of uint)
          MaxLen,             \* bound: bytes per read or write call
          NoProc

Procs == Writers \cup Readers

ASSUME PipeAssumption ==
  /\ PIPESIZE \in Nat \ {0} /\ UMOD \in Nat \ {0}
  /\ UMOD % PIPESIZE = 0 /\ UMOD > PIPESIZE
  /\ MaxLen \in Nat \ {0}
  /\ Writers \cap Readers = {} /\ NoProc \notin Procs
  /\ IsFiniteSet(Procs) /\ Killable \subseteq Procs

VARIABLES
  data, nread, nwrite, readopen, writeopen,   \* struct pipe
  lock,         \* holder of p->lock
  freed,        \* the pipe's page has been given to kfree()
  pc, todo,     \* per process: where it is, bytes still to transfer
  addr,         \* per reader: the byte copied last to the buffer of its read()
  chan,         \* "nread"/"nwrite" when SLEEPING, else "none"
  killed, open  \* per process: p->killed; its descriptor is open
vars == <<data, nread, nwrite, readopen, writeopen, lock, freed, pc, todo, addr,
          chan, killed, open>>
ring == <<data, nread, nwrite, addr>>
ends == <<readopen, writeopen, freed, open>>

Init ==
  /\ data \in [0..PIPESIZE - 1 -> Bytes]
  /\ nread = 0 /\ nwrite = 0
  /\ readopen = TRUE /\ writeopen = TRUE
  /\ lock = NoProc /\ freed = FALSE
  /\ pc = [p \in Procs |-> "idle"]
  /\ todo = [p \in Procs |-> 0]
  /\ addr \in [Readers -> Bytes]
  /\ chan = [p \in Procs |-> "none"]
  /\ killed = [p \in Procs |-> FALSE]
  /\ open = [p \in Procs |-> TRUE]

-----------------------------------------------------------------------------
Full == nwrite = (nread + PIPESIZE) % UMOD
Empty == nread = nwrite

Goto(p, l) == pc' = [pc EXCEPT ![p] = l]

\* wakeup(ch)
wakeup(ch) == chan' = [q \in Procs |-> IF chan[q] = ch THEN "none" ELSE chan[q]]

\* The locked steps of a call that does not sleep.
Holds(p, l) == lock = p /\ pc[p] = l

Return(p) == lock' = NoProc /\ Goto(p, "idle")

\* read() or write() of n bytes on an open descriptor.
Call(p, n) ==
  /\ pc[p] = "idle" /\ open[p] /\ ~killed[p] /\ lock = NoProc
  /\ lock' = p
  /\ todo' = [todo EXCEPT ![p] = n]
  /\ Goto(p, IF p \in Writers THEN "write" ELSE "read")
  /\ UNCHANGED <<ring, ends, chan, killed>>

\* sleep(): ptable.lock is taken, p->lock released, the process SLEEPING.
Sleep(p) ==
  /\ lock = p /\ pc[p] \in {"wsleep", "rsleep"}
  /\ lock' = NoProc
  /\ chan' = [chan EXCEPT ![p] = IF pc[p] = "wsleep" THEN "nwrite" ELSE "nread"]
  /\ Goto(p, IF pc[p] = "wsleep" THEN "wwoken" ELSE "rwoken")
  /\ UNCHANGED <<ring, ends, todo, killed>>

\* sleep() returns with p->lock held again.
Wake(p) ==
  /\ pc[p] \in {"wwoken", "rwoken"} /\ chan[p] = "none" /\ lock = NoProc
  /\ lock' = p
  /\ Goto(p, IF pc[p] = "wwoken" THEN "write" ELSE "read")
  /\ UNCHANGED <<ring, ends, todo, chan, killed>>

-----------------------------------------------------------------------------
(* pipewrite *)

WriteByte(p) ==
  /\ Holds(p, "write") /\ todo[p] > 0 /\ ~Full
  /\ \E b \in Bytes : data' = [data EXCEPT ![nwrite % PIPESIZE] = b]
  /\ nwrite' = (nwrite + 1) % UMOD
  /\ todo' = [todo EXCEPT ![p] = @ - 1]
  /\ UNCHANGED <<nread, addr, ends, lock, pc, chan, killed>>

WriteFull(p) ==
  /\ Holds(p, "write") /\ todo[p] > 0 /\ Full
  /\ IF ~readopen \/ killed[p]
       THEN Return(p) /\ UNCHANGED chan
       ELSE wakeup("nread") /\ Goto(p, "wsleep") /\ UNCHANGED lock
  /\ UNCHANGED <<ring, ends, todo, killed>>

WriteDone(p) ==
  /\ Holds(p, "write") /\ todo[p] = 0
  /\ wakeup("nread")
  /\ Return(p)
  /\ UNCHANGED <<ring, ends, todo, killed>>

-----------------------------------------------------------------------------
(* piperead *)

ReadTest(p) ==
  /\ Holds(p, "read")
  /\ IF Empty /\ writeopen
       THEN IF killed[p] THEN Return(p)
                         ELSE Goto(p, "rsleep") /\ UNCHANGED lock
       ELSE Goto(p, "copy") /\ UNCHANGED lock
  /\ UNCHANGED <<ring, ends, todo, chan, killed>>

\* Mutation of ReadByte: the counter is moved before the byte is taken.
ReadByteLate(p) ==
  /\ Holds(p, "copy") /\ todo[p] > 0 /\ ~Empty
  /\ nread' = (nread + 1) % UMOD
  /\ addr' = [addr EXCEPT ![p] = data[nread' % PIPESIZE]]
  /\ todo' = [todo EXCEPT ![p] = @ - 1]
  /\ UNCHANGED <<data, nwrite, ends, lock, pc, chan, killed>>

ReadByte(p) ==
  /\ Holds(p, "copy") /\ todo[p] > 0 /\ ~Empty
  /\ addr' = [addr EXCEPT ![p] = data[nread % PIPESIZE]]
  /\ nread' = (nread + 1) % UMOD
  /\ todo' = [todo EXCEPT ![p] = @ - 1]
  /\ UNCHANGED <<data, nwrite, ends, lock, pc, chan, killed>>

\* Mutation of ReadDone: no wakeup.
ReadDoneQuiet(p) ==
  /\ Holds(p, "copy") /\ (todo[p] = 0 \/ Empty)
  /\ todo' = [todo EXCEPT ![p] = 0]
  /\ Return(p)
  /\ UNCHANGED <<ring, ends, chan, killed>>

ReadDone(p) ==
  /\ Holds(p, "copy") /\ (todo[p] = 0 \/ Empty)
  /\ wakeup("nwrite")
  /\ todo' = [todo EXCEPT ![p] = 0]
  /\ Return(p)
  /\ UNCHANGED <<ring, ends, killed>>

-----------------------------------------------------------------------------
(* close and kill *)

\* Mutations of Close: no wakeup; the page is freed with the first end.
CloseQuiet(p) ==
  /\ pc[p] = "idle" /\ open[p] /\ lock = NoProc
  /\ open' = [open EXCEPT ![p] = FALSE]
  /\ writeopen' = (writeopen /\ \E q \in Writers : open'[q])
  /\ readopen' = (readopen /\ \E q \in Readers : open'[q])
  /\ freed' = (~readopen' /\ ~writeopen')
  /\ UNCHANGED <<ring, lock, pc, todo, chan, killed>>
CloseFreeing(p) ==
  /\ pc[p] = "idle" /\ open[p] /\ lock = NoProc
  /\ open' = [open EXCEPT ![p] = FALSE]
  /\ writeopen' = (writeopen /\ \E q \in Writers : open'[q])
  /\ readopen' = (readopen /\ \E q \in Readers : open'[q])
  /\ IF writeopen' # writeopen THEN wakeup("nread")
     ELSE IF readopen' # readopen THEN wakeup("nwrite") ELSE UNCHANGED chan
  /\ freed' = (~readopen' \/ ~writeopen')
  /\ UNCHANGED <<ring, lock, pc, todo, killed>>

\* fileclose(): the last descriptor of an end calls pipeclose().  A killed
\* process closes its descriptors in exit().
Close(p) ==
  /\ pc[p] = "idle" /\ open[p] /\ lock = NoProc
  /\ open' = [open EXCEPT ![p] = FALSE]
  /\ writeopen' = (writeopen /\ \E q \in Writers : open'[q])
  /\ readopen' = (readopen /\ \E q \in Readers : open'[q])
  /\ IF writeopen' # writeopen THEN wakeup("nread")
     ELSE IF readopen' # readopen THEN wakeup("nwrite") ELSE UNCHANGED chan
  /\ freed' = (~readopen' /\ ~writeopen')
  /\ UNCHANGED <<ring, lock, pc, todo, killed>>

\* kill(): sets the flag and makes a SLEEPING process runnable.
Kill(p) ==
  /\ p \in Killable /\ ~killed[p]
  /\ killed' = [killed EXCEPT ![p] = TRUE]
  /\ chan' = [chan EXCEPT ![p] = "none"]
  /\ UNCHANGED <<ring, ends, lock, pc, todo>>

-----------------------------------------------------------------------------
Step(p) == \/ Sleep(p) \/ Wake(p)
           \/ WriteByte(p) \/ WriteFull(p) \/ WriteDone(p)
           \/ ReadTest(p) \/ ReadByte(p) \/ ReadDone(p)

Next == \E p \in Procs : \/ Step(p) \/ Close(p) \/ Kill(p)
                         \/ \E n \in 1..MaxLen : Call(p, n)

Spec == Init /\ [][Next]_vars

\* Runnable processes run; a spin lock that is released again and again is
\* got; a killed process comes to exit().
Fairness == \A p \in Procs : /\ SF_vars(Step(p))
                             /\ SF_vars(killed[p] /\ Close(p))

LiveSpec == Spec /\ Fairness
-----------------------------------------------------------------------------
(* Properties. *)

TypeOK ==
  /\ data \in [0..PIPESIZE - 1 -> Bytes]
  /\ nread \in 0..UMOD - 1 /\ nwrite \in 0..UMOD - 1
  /\ readopen \in BOOLEAN /\ writeopen \in BOOLEAN /\ freed \in BOOLEAN
  /\ lock \in Procs \cup {NoProc}
  /\ pc \in [Procs -> {"idle", "write", "wsleep", "wwoken", "read", "rsleep",
                       "rwoken", "copy"}]
  /\ todo \in [Procs -> 0..MaxLen] /\ addr \in [Readers -> Bytes]
  /\ chan \in [Procs -> {"none", "nread", "nwrite"}]
  /\ killed \in [Procs -> BOOLEAN] /\ open \in [Procs -> BOOLEAN]

\* Bytes in the pipe, by the counters' unsigned difference.
Count == (nwrite + UMOD - nread) % UMOD

\* No wakeup is lost on either side: a sleeping reader has nothing to read and
\* somebody who can write to it, unless the process that changed this still
\* holds the lock and has its wakeup() ahead; and the same for a writer.
NoLostWakeup ==
  \A p \in Procs :
    /\ chan[p] = "nread" =>
         (Empty /\ writeopen) \/ (lock # NoProc /\ pc[lock] = "write")
    /\ chan[p] = "nwrite" =>
         (Full /\ readopen) \/ (lock # NoProc /\ pc[lock] = "copy")

\* pipeclose() frees the pipe only when no call is using it.
FreedUnused == freed => \A p \in Procs : pc[p] = "idle" /\ ~open[p]

\* The bytes in the pipe, oldest first.
Queue == [i \in 1..Count |-> data[((nread + i - 1) % UMOD) % PIPESIZE]]

Abs == INSTANCE Fifo WITH queue <- Queue, got <- addr, Size <- PIPESIZE

\* A pipe delivers its bytes in order, each once, none lost: piperead() copies to
\* its caller's buffer the oldest byte that pipewrite() has put in the ring and
\* nobody has got, also when the ring and the counters wrap.
ImplementsFifo == Abs!Spec

\* Once the write end is closed, readers get end of file instead of sleeping.
EofReachesReaders ==
  \A p \in Readers : ~writeopen /\ pc[p] # "idle" ~> pc[p] = "idle"

=============================================================================
