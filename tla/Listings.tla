------------------------------ MODULE Listings ------------------------------
(***************************************************************************)
(* What the query service's modules need of sequences beyond the standard  *)
(* operators, under the names SequencesExt gives them.  Every obligation a *)
(* prover gets carries all definitions in scope, and SequencesExt brings a *)
(* hundred; these are the five that are used.                              *)
(***************************************************************************)
EXTENDS Naturals, Sequences, FiniteSets, Functions, TLC

Last(s) == s[Len(s)]

RemoveAt(s, i) == SubSeq(s, 1, i - 1) \o SubSeq(s, i + 1, Len(s))

\* The orders a set can be listed in, one of them, and the one by rank.
SetToSeqs(S) == Bijection(1..Cardinality(S), S)

SetToSeq(S) == CHOOSE list \in SetToSeqs(S) : TRUE

SetToSortSeq(S, Before(_, _)) == SortSeq(SetToSeq(S), Before)
=============================================================================
