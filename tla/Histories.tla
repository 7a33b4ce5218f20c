------------------------------- MODULE Histories -------------------------------
(***************************************************************************)
(* What properties ask of a history.                                       *)
(***************************************************************************)
EXTENDS Integers, SequencesExt

\* The elements of a sequence that are in S, in their order.
Chosen(s, S) == FlattenSeq([i \in DOMAIN s |-> IF s[i] \in S THEN <<s[i]>> ELSE <<>>])

Total(s) ==
  LET sum[i \in 0 .. Len(s)] == IF i = 0 THEN 0 ELSE sum[i - 1] + s[i]
  IN  sum[Len(s)]
=============================================================================
