----------------------------- MODULE Ascending -----------------------------
(* Filters over positions: the numbers of a finite set in ascending order. *)
EXTENDS Integers, FiniteSets

Ascending(S) ==
    [k \in 1..Cardinality(S) |-> CHOOSE i \in S : Cardinality({j \in S : j < i}) = k - 1]

\* The elements of a sequence at these positions.
Picked(s, S) == LET at == Ascending(S) IN [k \in DOMAIN at |-> s[at[k]]]

=============================================================================
