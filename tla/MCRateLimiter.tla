--------------------------- MODULE MCRateLimiter ---------------------------
(* Instances of RateLimiter for TLC. *)
EXTENDS RateLimiter, TLC

BothBackends == {"memory", "redis"}
ReqSymmetry == Permutations(Reqs)
=============================================================================
