------------------------------- MODULE MCLog --------------------------------
(* Instances of Log for TLC. *)
EXTENDS Log, TLC

CONSTANTS b1, b2, b3, p1, p2

TwoBlocks == {b1, b2}
ThreeBlocks == {b1, b2, b3}
OneProc == {p1}
TwoProcs == {p1, p2}
=============================================================================
