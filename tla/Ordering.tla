------------------------------ MODULE Ordering ------------------------------
(***************************************************************************)
(* How polo sorts and filters rows: Vec::sort_by and Iterator::filter,     *)
(* which the scan of the store and the evaluator of queries share.  An     *)
(* order is the set of the pairs whose first element comes first.          *)
(***************************************************************************)
EXTENDS SequencesExt

\* sort_by: the elements of S, each behind those that come before it.
Arrange(S, R) ==
  [i \in 1 .. Cardinality(S) |->
     CHOOSE x \in S : Cardinality({y \in S : <<y, x>> \in R}) = i - 1]

\* What stands in rows at the places of a sequence.
Taken(rows, places) == [i \in DOMAIN places |-> rows[places[i]]]

\* filter: the rows at some places, in the order they had.
Kept(rows, places) ==
  Taken(rows, Arrange(places, {p \in places \X places : p[1] < p[2]}))
=============================================================================
