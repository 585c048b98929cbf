------------------------------ MODULE MCSession ------------------------------
(***************************************************************************)
(* Instances of Session for TLC. The two connections are interchangeable,  *)
(* which the safety run uses; the run with fairness may not.               *)
(***************************************************************************)
EXTENDS Session, TLC

Symmetry == Permutations(Alias)

=============================================================================
