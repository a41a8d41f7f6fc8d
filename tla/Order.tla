-------------------------------- MODULE Order --------------------------------
(***************************************************************************)
(* Sorting, and picking out of a sequence by place.                        *)
(***************************************************************************)
EXTENDS FiniteSets, Integers

\* The numbers in S, from the smallest on.
Ascending(S) ==
  [k \in 1 .. Cardinality(S) |-> CHOOSE x \in S : Cardinality({y \in S : y < x}) = k - 1]

\* What the sequence s has at the places in P, in the order it has it in.
Picked(s, P) == [k \in 1 .. Cardinality(P) |-> s[Ascending(P)[k]]]
==============================================================================
