------------------------------ MODULE Ascending ------------------------------
(* The sequences a filter leaves: the numbers of a finite set in order.    *)
EXTENDS Naturals, FiniteSets

Nth(S, k) == CHOOSE i \in S : Cardinality({j \in S : j <= i}) = k

Ascending(S) == [k \in 1..Cardinality(S) |-> Nth(S, k)]
===============================================================================
