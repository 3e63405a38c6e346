----------------------------- MODULE Selection -------------------------------
(***************************************************************************)
(* The items of a sequence that are in a set, in their order: SelectSeq    *)
(* with a set for the test, defined so that proofs can expand it.          *)
(***************************************************************************)
EXTENDS SequencesExt

Select(s, S) == FlattenSeq([i \in DOMAIN s |-> IF s[i] \in S THEN <<s[i]>> ELSE <<>>])
=============================================================================
