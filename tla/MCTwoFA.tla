------------------------------ MODULE MCTwoFA ------------------------------
(* Instances of TwoFA for TLC.  Requests are interchangeable. *)
EXTENDS TwoFA, TLC

Symmetry == Permutations(Procs)
=============================================================================
