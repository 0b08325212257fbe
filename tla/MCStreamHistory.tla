--------------------------- MODULE MCStreamHistory ---------------------------
(***************************************************************************)
(* An instance of StreamHistory: two replicas, two requests that carry the *)
(* same X-Stream-ID, one on each, and a reconnect on the first.            *)
(***************************************************************************)
EXTENDS StreamHistory

CONSTANTS w1, w2, c1, p1, p2

\* Selection by rank is what SelectSeq computes, on all short sequences.
ASSUME SelectedIsSelectSeq ==
  \A n \in 0..4 : \A s \in [1..n -> 1..3], V \in SUBSET (1..3) :
    Selected(s, {k \in DOMAIN s : s[k] \in V}) = SelectSeq(s, LAMBDA x : x \in V)

MCReplicaOf == (w1 :> p1) @@ (w2 :> p2) @@ (c1 :> p1)
====
