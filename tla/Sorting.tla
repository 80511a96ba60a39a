------------------------------ MODULE Sorting -------------------------------
(***************************************************************************)
(* The result of sorting, as sort.Float64s and ORDER BY give it, by        *)
(* counting: an element stands behind those that come before it.  A strict *)
(* order is a set of pairs.                                                *)
(***************************************************************************)
EXTENDS Integers, FiniteSets

IsStrictTotalOrder(before, S) ==
    /\ \A x \in S : <<x, x>> \notin before
    /\ \A x, y, z \in S : <<x, y>> \in before /\ <<y, z>> \in before => <<x, z>> \in before
    /\ \A x, y \in S : x # y => <<x, y>> \in before \/ <<y, x>> \in before

Ahead(S, before, x) == {y \in S : <<y, x>> \in before}

\* The elements of a finite set S as a sequence in the order `before`.
InOrder(S, before) ==
    [i \in 1 .. Cardinality(S) |->
       CHOOSE x \in S : Cardinality(Ahead(S, before, x)) = i - 1]
=============================================================================
