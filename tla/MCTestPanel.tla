---------------------------- MODULE MCTestPanel ----------------------------
(* Two gateways: one that detects the language and has no default for it, and one that
   must be told a language, transcribes French only and offers no cleanup. *)
EXTENDS TestPanel, TLC

MCOptions == <<"auto", "en", "fr">>

Gw(explicit, detects, covers, supported, autoLanguage) ==
  [explicit |-> explicit, detects |-> detects, covers |-> covers, supported |-> supported,
   autoLanguage |-> autoLanguage]

MCGateways == {Gw(FALSE, TRUE, {}, TRUE, FALSE), Gw(TRUE, FALSE, {"fr"}, FALSE, TRUE)}

\* Styling capitalises.
MCStyled == [w \in {"i", "I", "am"} |-> IF w = "i" THEN "I" ELSE w]
=============================================================================
