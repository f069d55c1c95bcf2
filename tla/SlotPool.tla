------------------------------ MODULE SlotPool ------------------------------
(***************************************************************************)
(* What the decode slots of app/service.py promise their callers           *)
(* (docstring of _DecodeLimiter, lines 425-431), without futures, event    *)
(* loop ticks or cancellation: a pool of `limit' slots and one line.       *)
(*                                                                         *)
(*  - a caller that asks while nobody waits and a slot is free holds it;   *)
(*  - otherwise it goes to the end of the line, or away;                   *)
(*  - a slot that is given back goes to the head of the line, as far as    *)
(*    the limit of that moment allows;                                     *)
(*  - a caller may leave the line, which gives nobody a slot.              *)
(***************************************************************************)
EXTENDS Integers, FiniteSets

CONSTANTS Jobs, MaxLimit

VARIABLES limit,    (* slots the loaded engine has              *)
          holders,  (* callers that hold a slot                 *)
          line,     (* callers that wait                        *)
          ahead     (* pairs of the line: who stands before whom *)

poolvars == <<limit, holders, line, ahead>>

PoolInit ==
  /\ limit \in 1..MaxLimit
  /\ holders = {} /\ line = {} /\ ahead = {}

(* A front of the line: nobody outside it stands before one of them. *)
Front(G) == \A j \in G, k \in line : <<k, j>> \in ahead => k \in G

(* From the holders h, slots are handed to the front G and to no more. *)
Serves(h, G) ==
  /\ Front(G)
  /\ G = line \/ Cardinality(h) + Cardinality(G) >= limit
  /\ G # {} => Cardinality(h) + Cardinality(G) <= limit

(* The callers of W stay where they stand, and j, if it comes, stands last. *)
Stay(W)     == line' = W /\ ahead' = ahead \cap (W \X W)
Join(W, j)  == line' = W \cup {j} /\ ahead' = (ahead \cap (W \X W)) \cup (W \X {j})

Outside(j) == j \notin holders \cup line

Enter(j) ==
  /\ Outside(j)
  /\ \E G \in SUBSET line :
       /\ Serves(holders, G)
       /\ IF Cardinality(holders) + Cardinality(G) < limit
          THEN holders' = holders \cup G \cup {j} /\ Stay({})
          ELSE holders' = holders \cup G /\ (Stay(line \ G) \/ Join(line \ G, j))
  /\ UNCHANGED limit

GiveBack(j) ==
  /\ j \in holders
  /\ \E G \in SUBSET line :
       /\ Serves(holders \ {j}, G)
       /\ holders' = (holders \ {j}) \cup G
       /\ Stay(line \ G)
  /\ UNCHANGED limit

Leave(j) == j \in line /\ Stay(line \ {j}) /\ UNCHANGED <<limit, holders>>

Resize == limit' \in 1..MaxLimit /\ UNCHANGED <<holders, line, ahead>>

PoolNext ==
  \/ \E j \in Jobs : Enter(j) \/ GiveBack(j) \/ Leave(j)
  \/ Resize

PoolSpec == PoolInit /\ [][PoolNext]_poolvars
=============================================================================
