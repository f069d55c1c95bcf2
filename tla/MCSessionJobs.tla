--------------------------- MODULE MCSessionJobs ---------------------------
(* Instances of SessionJobs for TLC. *)
EXTENDS SessionJobs, TLC
=============================================================================
