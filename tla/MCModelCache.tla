---------------------------- MODULE MCModelCache ----------------------------
(***************************************************************************)
(* Two replicas and three requests or refreshes in progress.               *)
(***************************************************************************)
EXTENDS ModelCache, TLC

Symmetry == Permutations(Slots) \cup Permutations(Replicas)
====
