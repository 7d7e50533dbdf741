------------------------------- MODULE MCPipe -------------------------------
(* The processes of the configuration. *)
EXTENDS Pipe, TLC

CONSTANTS w1, r1, r2
=============================================================================
