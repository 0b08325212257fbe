--------------------------- MODULE MCHarnessJobs ---------------------------
(***************************************************************************)
(* Two cancel requests and one event stream of one job.                    *)
(***************************************************************************)
EXTENDS HarnessJobs

CONSTANTS a1, a2, w1
====
