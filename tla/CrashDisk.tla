------------------------------ MODULE CrashDisk ------------------------------
(***************************************************************************)
(* What a redo log promises its users, without the log.  mem is what file *)
(* system calls read and write; disk is what the machine comes back with  *)
(* after a crash at this very moment; logged is the set of blocks that    *)
(* have a committed copy in the log.                                      *)
(***************************************************************************)
EXTENDS Naturals

CONSTANTS Blocks,   \* home blocks of the file system
          Stamps    \* contents a block can have; 0 is the content mkfs wrote

VARIABLES mem, disk, logged
vars == <<mem, disk, logged>>

Init == /\ mem = [b \in Blocks |-> 0]
        /\ disk = mem
        /\ logged = {}

\* A file system call modifies a block; nothing becomes durable.
Write(b) == /\ \E v \in Stamps : mem' = [mem EXCEPT ![b] = v]
            /\ UNCHANGED <<disk, logged>>

\* Every modification made so far becomes durable in one step.
Commit == /\ disk' = mem
          /\ logged' \in {B \in SUBSET Blocks : logged \subseteq B}
          /\ UNCHANGED mem

\* The log is emptied: all its blocks are in their home locations.
Checkpoint == logged' = {} /\ UNCHANGED <<mem, disk>>

\* Power failure: what was not durable is lost.
Crash == mem' = disk /\ UNCHANGED <<disk, logged>>

\* A block that already has a committed copy in the log becomes durable by
\* itself, ahead of the other modifications of its transaction.
Early(b) == /\ b \in logged
            /\ disk' = [disk EXCEPT ![b] = mem[b]]
            /\ UNCHANGED <<mem, logged>>

AtomicNext == Commit \/ Checkpoint \/ Crash \/ \E b \in Blocks : Write(b)
TornNext == AtomicNext \/ \E b \in Blocks : Early(b)

\* Crash atomicity: what a crash leaves is the state at some commit.
AtomicSpec == Init /\ [][AtomicNext]_vars

\* The weaker promise: as above, except that blocks with a committed copy in
\* the log may become durable one at a time.
TornSpec == Init /\ [][TornNext]_vars
==============================================================================
