----------------------------- MODULE MCAccounts -----------------------------
(***************************************************************************)
(* Two users, one key and two overlapping requests.                        *)
(***************************************************************************)
EXTENDS Accounts, TLC

MCEmails == {"a", "A", "b"}
MCLower == [e \in MCEmails |-> IF e = "A" THEN "a" ELSE e]

\* Disabling and demoting, with another address; making an active administrator.
MCChanges ==
  {[active |-> FALSE, email |-> "a", role |-> "user"], [active |-> TRUE, role |-> "admin"]}

Symmetry == Permutations(Slots)
====
