--------------------------- MODULE MCTicketQueue ---------------------------
(* Instances of TicketQueue for TLC. *)
EXTENDS TicketQueue, TLC
=============================================================================
