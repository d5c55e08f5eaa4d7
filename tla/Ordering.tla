-------------------------------- MODULE Ordering --------------------------------
(* What ORDER BY does with a finite set of rows that its columns tell apart. *)
EXTENDS Naturals, FiniteSets

\* The i-th row is the one with i - 1 rows before it.
InOrder(S, Before(_, _)) ==
    [i \in 1..Cardinality(S) |-> CHOOSE x \in S : Cardinality({y \in S : Before(y, x)}) = i - 1]
===============================================================================
