---------------------------- MODULE MCWebSession ----------------------------
(* Two browser pages of one profile and an administrator who creates,       *)
(* rotates and revokes tokens; identifiers and secrets are model values.    *)
EXTENDS WebSession, TLC
=============================================================================
