------------------------ MODULE MCEmailRateLimiter ------------------------
(* Instances of EmailRateLimiter for TLC. *)
EXTENDS EmailRateLimiter, TLC

Symmetry == Permutations(Procs)
=============================================================================
