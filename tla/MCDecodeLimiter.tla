-------------------------- MODULE MCDecodeLimiter --------------------------
(***************************************************************************)
(* Instances of DecodeLimiter for TLC.                                     *)
(***************************************************************************)
EXTENDS DecodeLimiter, TLC
=============================================================================
