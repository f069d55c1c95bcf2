--------------------------- MODULE TranscriptDiff ---------------------------
(***************************************************************************)
(* What the page shows of a correction: the word-level diff of app.js      *)
(* (commonTokens, paintDiff, paintComparison), the line that describes it, *)
(* and the cleanup try-it box, together with the part of                   *)
(* app/cleanup/service.py that decides which texts are compared.           *)
(* A text is a sequence of words; styling maps every word.                 *)
(***************************************************************************)
EXTENDS Naturals, Sequences, FiniteSets

CONSTANTS Styled,     \* the writing style, word by word
          MaxWords,   \* bound: the longest text compared
          DiffLimit   \* DIFF_TOKEN_LIMIT

ASSUME DiffAssumption ==
  /\ MaxWords \in Nat /\ DiffLimit \in Nat
  /\ \A w \in DOMAIN Styled : Styled[w] \in DOMAIN Styled /\ Styled[Styled[w]] = Styled[w]

Texts == UNION {[1..n -> DOMAIN Styled] : n \in 0..MaxWords}

Larger(a, b) == IF a >= b THEN a ELSE b

\* Where the rest of each text begins, up to behind its last word.
Places(before, after) == (1..Len(before) + 1) \X (1..Len(after) + 1)

\* The table of commonTokens(): the length of a longest common subsequence of the rest
\* of both texts from i and j on.
CommonLength(before, after) ==
  LET table[p \in Places(before, after)] ==
        LET i == p[1]  j == p[2]
        IN  IF i > Len(before) \/ j > Len(after) THEN 0
            ELSE IF before[i] = after[j] THEN table[<<i + 1, j + 1>>] + 1
            ELSE Larger(table[<<i + 1, j>>], table[<<i, j + 1>>])
  IN  table

\* A slip: the walk that steps the wrong way at a tie it should not take.
SurvivorsSkipping(before, after) ==
  LET table == CommonLength(before, after)
      walk[p \in Places(before, after)] ==
        LET i == p[1]  j == p[2]
        IN  IF i > Len(before) \/ j > Len(after) THEN {}
            ELSE IF before[i] = after[j] THEN {p} \cup walk[<<i + 1, j + 1>>]
            ELSE IF table[<<i + 1, j>>] <= table[<<i, j + 1>>] THEN walk[<<i + 1, j>>]
            ELSE walk[<<i, j + 1>>]
  IN  walk[<<1, 1>>]

\* Its greedy walk: the pairs of places whose word survives.
Survivors(before, after) ==
  LET table == CommonLength(before, after)
      walk[p \in Places(before, after)] ==
        LET i == p[1]  j == p[2]
        IN  IF i > Len(before) \/ j > Len(after) THEN {}
            ELSE IF before[i] = after[j] THEN {p} \cup walk[<<i + 1, j + 1>>]
            ELSE IF table[<<i + 1, j>>] >= table[<<i, j + 1>>] THEN walk[<<i + 1, j>>]
            ELSE walk[<<i, j + 1>>]
  IN  walk[<<1, 1>>]

TooLong(before, after) == Len(before) > DiffLimit \/ Len(after) > DiffLimit

\* Places painted with a mark: none where the texts are too long to compare.
Removed(before, after) ==
  IF TooLong(before, after) THEN {}
  ELSE {i \in DOMAIN before : \A p \in Survivors(before, after) : p[1] # i}
Added(before, after) ==
  IF TooLong(before, after) THEN {}
  ELSE {j \in DOMAIN after : \A p \in Survivors(before, after) : p[2] # j}

\* The number the status line says.
Edits(before, after) == Cardinality(Added(before, after))

-----------------------------------------------------------------------------
(* The line beneath the comparison.                                        *)

Reasons == {"raw_style", "model_unavailable", "model_loading", "context_too_small",
            "unsupported_language", "input_too_long", "empty_input", "busy", "timeout",
            "invalid_output", "unsafe_edit", "runtime_error"}

\* CLEANUP_ADVICE: the reasons with a sentence of their own.
Advised == {"unsupported_language", "model_unavailable", "model_loading", "busy", "timeout",
            "input_too_long", "unsafe_edit", "invalid_output", "context_too_small",
            "raw_style", "empty_input", "runtime_error"}

Describe(status, reason, edits) ==
  CASE status = "applied" -> <<"changed", edits>>
    [] status = "unchanged" -> <<"found nothing">>
    [] status = "disabled" -> <<"off">>
    [] status \in {"skipped", "fallback"} /\ reason \in Advised -> <<"did not run", reason>>
    [] OTHER -> <<"did not run", "unexplained">>

-----------------------------------------------------------------------------
(* finalize(): the model's answer, or a reason why there is none.          *)

Style(text) == [i \in DOMAIN text |-> Styled[text[i]]]

NoText == <<>>

Accepted(text, cleaned) ==
  [status |-> IF Style(cleaned) = Style(text) THEN "unchanged" ELSE "applied",
   reason |-> "", transcript |-> Style(cleaned), original |-> text]

\* Refused before a model was asked (skipped) or after (fallback): the styled text; the
\* plain one is kept only where a model was asked.
Declined(text, status, reason) ==
  [status |-> status, reason |-> reason, transcript |-> Style(text),
   original |-> IF status = "fallback" THEN text ELSE NoText]

\* An empty transcript is never given to a model.
Outcomes(text) ==
  (IF text = NoText THEN {} ELSE {Accepted(text, cleaned) : cleaned \in Texts \ {NoText}})
  \cup {Declined(text, s, r) : s \in {"skipped", "fallback"}, r \in Reasons}

\* The try-it box compares with the text as it is without cleanup, and looks for marks
\* only where the two differ.
PreviewMarks(text, final) ==
  IF Style(text) = final.transcript THEN {} ELSE Added(Style(text), final.transcript)
PreviewLine(text, final) ==
  Describe(final.status, final.reason,
           IF Style(text) = final.transcript THEN 0 ELSE Edits(Style(text), final.transcript))

\* The recorder's panel compares with the original transcript, where there is one.
PanelCompares(final) == final.original # NoText /\ final.original # final.transcript

-----------------------------------------------------------------------------
(* Properties, for every pair of texts within the bounds.                  *)

\* The ways to find the same words in the same order in both texts.
Alignments(before, after) ==
  {M \in SUBSET ((DOMAIN before) \X (DOMAIN after)) :
     \A p, q \in M : before[p[1]] = after[p[2]] /\ (p[1] < q[1] <=> p[2] < q[2])}

\* What is left unmarked in both texts is the same text, and the longest they share: a
\* mark is never put on a word that a smaller difference would have kept.  The one number
\* counts the words that are new, so a text that only lost words has "0 words" changed.
MarksTheDifference ==
  \A before, after \in Texts :
    /\ ~TooLong(before, after) =>
         \E common \in Alignments(before, after) :
           /\ (DOMAIN before) \ Removed(before, after) = {p[1] : p \in common}
           /\ (DOMAIN after) \ Added(before, after) = {p[2] : p \in common}
           /\ \A M \in Alignments(before, after) : Cardinality(M) <= Cardinality(common)
    /\ Edits(before, after) = 0 <=>
         \/ TooLong(before, after)
         \/ \E M \in Alignments(before, after) : {p[2] : p \in M} = DOMAIN after

\* The try-it box never marks what the gateway's own styling did, whatever the outcome:
\* marks stand only beside the line that says the model changed something, the line's
\* number is theirs, and every other outcome is explained in words.  Whatever the model
\* changed, the recorder's panel compares too.
PreviewMarksTheModel ==
  \A text \in Texts : \A final \in Outcomes(text) :
    LET line == PreviewLine(text, final)
    IN  /\ PreviewMarks(text, final) # {} => line[1] = "changed"
        /\ line[1] = "changed" => line[2] = Cardinality(PreviewMarks(text, final))
        /\ line # <<"did not run", "unexplained">>
        /\ final.status = "applied" => PanelCompares(final)
=============================================================================
