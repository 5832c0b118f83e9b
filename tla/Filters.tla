-------------------------------- MODULE Filters --------------------------------
(***************************************************************************)
(* Array.prototype.filter, which the executor, the flow engine and the      *)
(* generator's conversations use: as an expression on the positions that    *)
(* are kept, which the provers can take apart.                              *)
(***************************************************************************)
EXTENDS Integers, Sequences, FiniteSets

\* The i-th smallest of a set of numbers.
Nth(P, i) == CHOOSE p \in P : Cardinality({q \in P : q < p}) = i - 1

\* The elements of a sequence that are in S, in their order.
Among(seq, S) ==
    LET P == {p \in DOMAIN seq : seq[p] \in S}
    IN  [i \in 1 .. Cardinality(P) |-> seq[Nth(P, i)]]

===============================================================================
