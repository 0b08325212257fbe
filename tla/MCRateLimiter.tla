--------------------------- MODULE MCRateLimiter ---------------------------
(***************************************************************************)
(* Two replicas with a limit of two requests in two ticks.                 *)
(***************************************************************************)
EXTENDS RateLimiter, TLC

Symmetry == Permutations(Replicas)
====
