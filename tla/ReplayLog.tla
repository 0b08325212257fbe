----------------------------- MODULE ReplayLog -----------------------------
(***************************************************************************)
(* What reconnecting under a stream id promises, whatever becomes of the   *)
(* stores that hold the events: an answer shows events that were emitted,  *)
(* each once, in the order of emission, and none that the client has seen. *)
(* It may miss some.  A stream numbers its events upwards and says nothing *)
(* after its terminal event.                                               *)
(***************************************************************************)
EXTENDS Naturals, Sequences

CONSTANTS
    Writers,        \* requests that stream under the id
    Reconnects,     \* requests that ask for the events again
    MaxId           \* bound on event ids

VARIABLES
    log,            \* events emitted under the id, in order
    last,           \* Last-Event-ID of each reconnect
    answered,       \* reconnects that got events
    reply           \* positions in log of the events they got

vars == <<log, last, answered, reply>>

Kinds == {"start", "token", "usage", "done", "error", "cancel"}
Terminal == {"done", "error", "cancel"}

Ascending(s) == \A i, j \in DOMAIN s : i < j => s[i] < s[j]

Init ==
    /\ log = <<>>
    /\ last = [c \in Reconnects |-> 0]
    /\ answered = {}
    /\ reply = [c \in Reconnects |-> <<>>]

Emit(w, id, kind) ==
    /\ log' = Append(log, [by |-> w, id |-> id, kind |-> kind])
    /\ UNCHANGED <<last, answered, reply>>
    /\ \A i \in DOMAIN log : log[i].by = w => log[i].id < id /\ log[i].kind \notin Terminal

Ask(c, id) ==
    /\ c \notin answered
    /\ last' = [last EXCEPT ![c] = id]
    /\ UNCHANGED <<log, answered, reply>>

Answer(c) ==
    /\ c \notin answered
    /\ answered' = answered \cup {c}
    /\ \A x \in Reconnects \ {c} : reply'[x] = reply[x]
    /\ Ascending(reply'[c])
    /\ \A i \in DOMAIN reply'[c] : reply'[c][i] \in DOMAIN log /\ log[reply'[c][i]].id > last[c]
    /\ UNCHANGED <<log, last>>

Next ==
    \/ \E w \in Writers, id \in 1..MaxId, kind \in Kinds : Emit(w, id, kind)
    \/ \E c \in Reconnects : Answer(c) \/ \E id \in 0..MaxId : Ask(c, id)

Spec == Init /\ [][Next]_vars
====
