-------------------------------- MODULE Fifo --------------------------------
(***************************************************************************)
(* What a pipe promises: a bounded first-in first-out queue of bytes.     *)
(***************************************************************************)
EXTENDS Naturals, Sequences

CONSTANTS Bytes, Readers, Size

VARIABLES queue,   \* the bytes put and not yet got
          got      \* per reader: the byte it got last

Init == queue = <<>> /\ got \in [Readers -> Bytes]

Put == /\ Len(queue) < Size
       /\ \E b \in Bytes : queue' = Append(queue, b)
       /\ UNCHANGED got

Get(r) == /\ queue # <<>>
          /\ queue' = Tail(queue)
          /\ got' = [got EXCEPT ![r] = Head(queue)]

Next == Put \/ \E r \in Readers : Get(r)

Spec == Init /\ [][Next]_<<queue, got>>
=============================================================================
