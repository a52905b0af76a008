----------------------------- MODULE Positions -----------------------------
(* Finite sets of numbers in ascending order, and what is left of a sequence  *)
(* when only some of its positions stay: the queues of the engine lose waiters *)
(* in the middle, and its stores list rows by number.                          *)
EXTENDS Naturals, Sequences, FiniteSets

Rank(S, n) == Cardinality({m \in S : m < n})

Ascending(S) == [i \in 1..Cardinality(S) |-> CHOOSE n \in S : Rank(S, n) = i - 1]

\* The elements of q at the positions S, in their order.
At(q, S) == [i \in 1..Cardinality(S) |-> q[Ascending(S)[i]]]

=============================================================================
