------------------------- MODULE MCHarnessExecution -------------------------
(***************************************************************************)
(* Instances of HarnessExecution with two runs: a stream and a plain run,  *)
(* each with an id of its own, that compete for the only slot; and two     *)
(* streams under one id with a slot each.                                  *)
(***************************************************************************)
EXTENDS HarnessExecution, TLC

CONSTANTS r1, r2, a, c

MCSetups ==
    {[slots |-> 1, streams |-> {r1}, id |-> (r1 :> a) @@ (r2 :> c)],
     [slots |-> 2, streams |-> {r1, r2}, id |-> (r1 :> a) @@ (r2 :> a)]}
====
