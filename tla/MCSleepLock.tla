----------------------------- MODULE MCSleepLock -----------------------------
(* SleepLock for TLC; the instances are in the configurations. *)
EXTENDS SleepLock, TLC
=============================================================================
