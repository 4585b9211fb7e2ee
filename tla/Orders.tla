------------------------------- MODULE Orders -------------------------------
(* The elements of a finite set as a sequence, in an order that is given   *)
(* as a relation, or that of the numbers: what sorted() and a loop over a  *)
(* list that leaves some out are about.                                    *)
EXTENDS Integers, FiniteSets

\* From the first element to the last; <<x, y>> is in leq if x is y or before it.
InOrder(S, leq) ==
    LET place(x) == Cardinality({y \in S : <<y, x>> \in leq})
    IN  [n \in 1 .. Cardinality(S) |-> CHOOSE x \in S : place(x) = n]

Rising(S) == InOrder(S, {p \in S \X S : p[1] <= p[2]})
=============================================================================
