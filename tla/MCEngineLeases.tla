--------------------------- MODULE MCEngineLeases ---------------------------
(* Instances of EngineLeases for TLC. *)
EXTENDS EngineLeases, TLC
=============================================================================
