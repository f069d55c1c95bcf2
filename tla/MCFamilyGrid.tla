---------------------------- MODULE MCFamilyGrid ----------------------------
(* One to three columns. *)
EXTENDS FamilyGrid, TLC

MCColumns(w, c) == CASE w = "narrow" -> 1
                     [] w = "wide"   -> IF c THEN 3 ELSE 2
=============================================================================
