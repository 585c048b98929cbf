------------------------------- MODULE Ordering -------------------------------
(***************************************************************************)
(* What is listed is sorted, by the program (sort_by_key of crates/kafka,  *)
(* sort of crates/qdrant) or by its server.                                *)
(***************************************************************************)
EXTENDS Naturals, FiniteSets

(* The elements of a finite set, each at the place that the number of      *)
(* those before it gives. SetToSortSeq of the community modules gives the  *)
(* same sequence, by an operator of TLC of which a proof knows nothing.    *)
InOrder(S, Before(_, _)) ==
    [k \in 1 .. Cardinality(S) |->
        CHOOSE x \in S : Cardinality({y \in S : Before(y, x)}) = k - 1]

===============================================================================
