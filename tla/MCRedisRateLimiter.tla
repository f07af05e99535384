------------------------- MODULE MCRedisRateLimiter -------------------------
(* Instances of RedisRateLimiter for TLC. *)
EXTENDS RedisRateLimiter, TLC

Symmetry == Permutations(Procs)
=============================================================================
