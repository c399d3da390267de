------------------------------- MODULE Ascent -------------------------------
(***************************************************************************)
(* The numbers of a finite set in their order: what SetToSortSeq(S, <)     *)
(* gives, in a form that can be reasoned about.                            *)
(***************************************************************************)
EXTENDS Integers, FiniteSets

Ascending(S) == [n \in 1..Cardinality(S) |-> CHOOSE i \in S : Cardinality({j \in S : j < i}) = n - 1]
=============================================================================
