---------------------------- MODULE MCOsTerminal ----------------------------
(***************************************************************************)
(* One terminal with up to three WebSocket connections, or two with one.   *)
(***************************************************************************)
EXTENDS OsTerminal
====
