------------------------------- MODULE Lists -------------------------------
(***************************************************************************)
(* Ordered selections, without a recursive definition or an operator as a  *)
(* parameter, so that they can be proved about: a set of numbers in its    *)
(* order, and the elements of a sequence at a set of its positions.        *)
(***************************************************************************)
EXTENDS Integers, FiniteSets, Sequences

\* The place of i among the numbers of K.
Place(K, i) == Cardinality({j \in K : j =< i})

\* The numbers of K, least first.
Ascending(K) == [k \in 1 .. Cardinality(K) |-> CHOOSE i \in K : Place(K, i) = k]

\* The elements of s at the positions K, in their order.
Only(s, K) == [k \in 1 .. Cardinality(K) |-> s[Ascending(K)[k]]]

============================================================================
