------------------------- MODULE MCCleanupRuntime -------------------------
(* Instances of CleanupRuntime for TLC. *)
EXTENDS CleanupRuntime, TLC
=============================================================================
