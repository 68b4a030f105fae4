------------------------------ MODULE Selections ------------------------------
(***************************************************************************)
(* Some of the elements of a sequence, chosen by their positions and left  *)
(* in their order: what stays when the code squeezes characters out of a   *)
(* buffer or unlinks entries from a list.                                  *)
(***************************************************************************)
EXTENDS Integers, Sequences, FiniteSets

\* The elements of a finite set of integers in ascending order.
Ascending(S) ==
  [j \in 1 .. Cardinality(S) |-> CHOOSE i \in S : Cardinality({k \in S : k <= i}) = j]

\* The elements of s at the positions P.
Selected(s, P) == [j \in 1 .. Cardinality(P) |-> s[Ascending(P)[j]]]
===============================================================================
