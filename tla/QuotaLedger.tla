----------------------------- MODULE QuotaLedger -----------------------------
(***************************************************************************)
(* What the quota promises for each admitted request, without clock,       *)
(* tables or handlers: its reservation is held once, and is then either    *)
(* charged or freed, once and for good, unless it is erased with its user. *)
(***************************************************************************)
CONSTANT Tokens

VARIABLE entry   \* entry[t] \in {"none", "held", "charged", "free", "erased"}

Init == entry = [t \in Tokens |-> "none"]

\* A reservation is admitted; the same transaction may free others.
Hold(t, freed) ==
    /\ entry[t] = "none"
    /\ \A x \in freed : entry[x] = "held"
    /\ entry' = [x \in Tokens |-> IF x = t THEN "held"
                                  ELSE IF x \in freed THEN "free" ELSE entry[x]]

Charge(t) == entry[t] = "held" /\ entry' = [entry EXCEPT ![t] = "charged"]

Free(t) == entry[t] = "held" /\ entry' = [entry EXCEPT ![t] = "free"]

\* What a deleted user held or was charged for is struck out.
Erase(ts) ==
    /\ \A x \in ts : entry[x] \in {"held", "charged"}
    /\ entry' = [x \in Tokens |-> IF x \in ts THEN "erased" ELSE entry[x]]

Next ==
    \/ \E t \in Tokens :
          \/ \E freed \in SUBSET Tokens : Hold(t, freed)
          \/ Charge(t)
          \/ Free(t)
    \/ \E ts \in SUBSET Tokens : Erase(ts)

Spec == Init /\ [][Next]_entry
====
