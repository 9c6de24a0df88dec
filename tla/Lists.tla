-------------------------------- MODULE Lists --------------------------------
(* Functions on lists that the browser and the server share.               *)
EXTENDS Integers, FiniteSets, Sequences

\* filter: the elements of a list that are in S, in their order.
Filtered(seq, S) ==
    LET I == {i \in DOMAIN seq : seq[i] \in S}
    IN [k \in 1 .. Cardinality(I) |-> seq[CHOOSE i \in I : Cardinality({j \in I : j < i}) = k - 1]]
=============================================================================
