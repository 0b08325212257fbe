--------------------------- MODULE StreamHistory ---------------------------
(***************************************************************************)
(* The history of one stream id: the requests that stream under it, the    *)
(* store that keeps their events (Redis, with a memory of its own in every *)
(* replica), and the reconnects that replay them.  Keys of the store never *)
(* interact, so one stands for all.                                        *)
(*                                                                         *)
(* An event is its position in log, the ghost list of all events emitted   *)
(* under the id; the stores hold positions.                                *)
(***************************************************************************)
EXTENDS Naturals, Sequences, FiniteSets, SequencesExt

CONSTANTS
    Writers,        \* new requests carrying the X-Stream-ID
    Reconnects,     \* requests carrying it with a Last-Event-ID
    Replicas,
    ReplicaOf,      \* where a request is routed
    MaxLen,         \* events kept per stream
    MaxTokens,      \* bound on the tokens of a stream
    MaxFaults       \* bound on failed calls, expiries and losses of memory

ASSUME HistoryAssumption ==
    /\ Writers \cap Reconnects = {}
    /\ ReplicaOf \in [Writers \cup Reconnects -> Replicas]
    /\ MaxLen \in Nat \ {0}
    /\ MaxTokens \in Nat
    /\ MaxFaults \in Nat

\* start, the tokens, usage, an id that is skipped, done.
MaxId == MaxTokens + 4

VARIABLES
    shared,         \* Redis is configured
    redis,          \* the list of the key, newest first
    local,          \* the deque of the key in each replica, oldest first
    pc,             \* where a new request stands
    seq,            \* the id of its next event
    log,            \* ghost: events emitted under the id
    last,           \* Last-Event-ID of a reconnect
    status,         \* where a reconnect stands
    reply,          \* the events it got
    faults          \* ghost: calls to Redis that failed, expiries, losses of memory

writerVars == <<pc, seq>>
readerVars == <<status, reply>>
vars == <<shared, redis, local, pc, seq, log, last, status, reply, faults>>

----
\* Slip: LTRIM is forgotten.
Untrimmed(s) == s
\* LTRIM 0 maxlen-1.
Trimmed(s) == SubSeq(s, 1, IF Len(s) < MaxLen THEN Len(s) ELSE MaxLen)

\* Slip: RPUSH.
PushedLast(i) == Append(redis, i)
\* LPUSH.
Pushed(i) == <<i>> \o redis

\* append of the deque with maxlen.
Remembered(s, i) == Reverse(Trimmed(<<i>> \o Reverse(s)))

\* The elements of s whose indices are in K, in their order.
Rank(K, k) == Cardinality({j \in K : j <= k})
Selected(s, K) == [n \in 1..Cardinality(K) |-> s[CHOOSE k \in K : Rank(K, k) = n]]

\* Slip: the event the client has seen last is sent again.
AtOrAbove(c, s) == Selected(s, {k \in DOMAIN s : log[s[k]].id >= last[c]})
Above(c, s) == Selected(s, {k \in DOMAIN s : log[s[k]].id > last[c]})

\* Slip: only the memory of the replica is asked.
MemoryOnly(p) == {[events |-> local[p], failed |-> 0]}
\* What a read on replica p can return: Redis, or its own memory when the
\* call fails or Redis is not configured.  A replay reverses the list.
Readings(p) ==
    IF shared THEN {[events |-> Reverse(redis), failed |-> 0],
                    [events |-> local[p],       failed |-> 1]}
              ELSE {[events |-> local[p],       failed |-> 0]}

\* So many more calls have failed.
Failed(n) == faults + n <= MaxFaults /\ faults' = faults + n

----
Init ==
    /\ shared \in BOOLEAN
    /\ redis = <<>>
    /\ local = [p \in Replicas |-> <<>>]
    /\ pc = [w \in Writers |-> "new"]
    /\ seq = [w \in Writers |-> 1]
    /\ log = <<>>
    /\ last = [c \in Reconnects |-> 0]
    /\ status = [c \in Reconnects |-> "new"]
    /\ reply = [c \in Reconnects |-> <<>>]
    /\ faults = 0

Goto(w, stage) == pc' = [pc EXCEPT ![w] = stage]

\* store_and_format_sse: the event goes to Redis; when the call fails, whether
\* or not it took effect, to the memory of the replica.
Store(w, kind) ==
    LET i == Len(log) + 1
        p == ReplicaOf[w]
    IN
    /\ log' = Append(log, [by |-> w, id |-> seq[w], kind |-> kind])
    /\ \/ /\ shared
          /\ redis' = Trimmed(Pushed(i))
          /\ UNCHANGED <<local, faults>>
       \/ /\ IF shared THEN redis' \in {redis, Trimmed(Pushed(i))} /\ Failed(1)
                       ELSE UNCHANGED <<redis, faults>>
          /\ local' = [local EXCEPT ![p] = Remembered(@, i)]
    /\ UNCHANGED <<shared, last, readerVars>>

\* The event, and the number of the next.
Emit(w, kind) ==
    /\ Store(w, kind)
    /\ seq' = [seq EXCEPT ![w] = @ + 1]

\* resolve_stream_identity of a new request: 409 when the id has a history.
Resolve(w) ==
    /\ pc[w] = "new"
    /\ \E r \in Readings(ReplicaOf[w]) :
          /\ Goto(w, IF r.events = <<>> THEN "admitted" ELSE "refused")
          /\ Failed(r.failed)
    /\ UNCHANGED <<shared, redis, local, seq, log, last, readerVars>>

\* The request fails before its response starts: model, quota, prompt.
GiveUp(w) ==
    /\ pc[w] = "admitted"
    /\ Goto(w, "closed")
    /\ UNCHANGED <<shared, redis, local, seq, log, last, readerVars, faults>>

Start(w) ==
    /\ pc[w] = "admitted"
    /\ Goto(w, "streaming")
    /\ Emit(w, "start")

\* A token, or a tool call or result.
Token(w) ==
    /\ pc[w] = "streaming"
    /\ seq[w] < MaxTokens + 2
    /\ Emit(w, "token")
    /\ UNCHANGED pc

\* Finalized.  The handler adds one to the number Emit has raised.
Usage(w) ==
    /\ pc[w] = "streaming"
    /\ Goto(w, "finishing")
    /\ Store(w, "usage")
    /\ seq' = [seq EXCEPT ![w] = @ + 2]

Done(w) ==
    /\ pc[w] = "finishing"
    /\ Goto(w, "closed")
    /\ Emit(w, "done")

\* The harness or the charge fails, or the client cancels or disconnects.
Fail(w) ==
    /\ pc[w] = "streaming"
    /\ Goto(w, "closed")
    /\ \E kind \in {"error", "cancel"} : Emit(w, kind)

\* The handler is cancelled, or breaks: the stream ends without a last word.
Drop(w) ==
    /\ pc[w] \in {"admitted", "streaming", "finishing"}
    /\ Goto(w, "closed")
    /\ UNCHANGED <<shared, redis, local, seq, log, last, readerVars, faults>>

\* resolve_stream_identity of a reconnect: 404 when the id has no history.
Lookup(c) ==
    /\ status[c] = "new"
    /\ \E r \in Readings(ReplicaOf[c]) :
          /\ status' = [status EXCEPT ![c] = IF r.events = <<>> THEN "unknown" ELSE "known"]
          /\ Failed(r.failed)
    /\ \E id \in 0..MaxId : last' = [last EXCEPT ![c] = id]
    /\ UNCHANGED <<shared, redis, local, writerVars, log, reply>>

\* replay_event_stream, once the response has started.  It sends what the
\* store has and ends: events that are emitted later are not sent.
Replay(c) ==
    /\ status[c] = "known"
    /\ status' = [status EXCEPT ![c] = "answered"]
    /\ \E r \in Readings(ReplicaOf[c]) :
          /\ reply' = [reply EXCEPT ![c] = Above(c, r.events)]
          /\ Failed(r.failed)
    /\ UNCHANGED <<shared, redis, local, writerVars, log, last>>

\* An hour without a new event: Redis drops the key.
Expire ==
    /\ redis # <<>>
    /\ redis' = <<>>
    /\ Failed(1)
    /\ UNCHANGED <<shared, local, writerVars, log, last, readerVars>>

\* A replica restarts: its memory and its open responses are gone.
Restart(p) ==
    /\ local' = [local EXCEPT ![p] = <<>>]
    /\ pc' = [w \in Writers |->
                 IF ReplicaOf[w] = p /\ pc[w] \in {"admitted", "streaming", "finishing"}
                   THEN "closed" ELSE pc[w]]
    /\ status' = [c \in Reconnects |->
                     IF ReplicaOf[c] = p /\ status[c] = "known" THEN "cut" ELSE status[c]]
    /\ Failed(IF shared THEN 0 ELSE 1)
    /\ UNCHANGED <<shared, redis, seq, log, last, reply>>

Next ==
    \/ \E w \in Writers :
          \/ Resolve(w) \/ GiveUp(w) \/ Start(w) \/ Token(w) \/ Usage(w)
          \/ Done(w) \/ Fail(w) \/ Drop(w)
    \/ \E c \in Reconnects : Lookup(c) \/ Replay(c)
    \/ Expire
    \/ \E p \in Replicas : Restart(p)

Spec == Init /\ [][Next]_vars

----
(* Properties. *)

Positions == 1..Len(log)

LastWords == {"done", "error", "cancel"}
Events == [by : Writers, id : 1..MaxId, kind : {"start", "token", "usage"} \cup LastWords]

\* Every variable keeps its type, and no store keeps more than maxlen events.
\* What a reply may be is said by ImplementsReplayLog.
TypeOK ==
    /\ shared \in BOOLEAN
    /\ faults \in 0..MaxFaults
    /\ log \in Seq(Events)
    /\ redis \in Seq(Positions) /\ Len(redis) <= MaxLen
    /\ local \in [Replicas -> Seq(Positions)] /\ \A p \in Replicas : Len(local[p]) <= MaxLen
    /\ pc \in [Writers -> {"new", "admitted", "refused", "streaming", "finishing", "closed"}]
    /\ seq \in [Writers -> 1..(MaxId + 1)]
    /\ last \in [Reconnects -> 0..MaxId]
    /\ status \in [Reconnects -> {"new", "known", "unknown", "answered", "cut"}]

\* The last events emitted, as many as a store keeps.
Window ==
    SubSeq([i \in Positions |-> i], IF Len(log) < MaxLen THEN 1 ELSE Len(log) - MaxLen + 1, Len(log))

\* Requests on the same store: all of them with Redis, else those on a replica.
SameStore(x, y) == shared \/ ReplicaOf[x] = ReplicaOf[y]

\* While no call has failed, a reconnect gets all the events above its
\* Last-Event-ID that a store has room for, in order, whoever else streams,
\* reconnects or restarts meanwhile.
ReplayComplete ==
    [][\A c \in Reconnects :
          (/\ status[c] = "known" /\ status'[c] = "answered"
           /\ faults' = 0
           /\ \A i \in Positions : SameStore(log[i].by, c))
             => reply'[c] = Above(c, Window)]_vars

\* Nor is it turned away once an event was stored where it asks.
ReconnectIsServed ==
    [][\A c \in Reconnects, w \in Writers :
          (/\ status[c] = "new" /\ status'[c] = "unknown"
           /\ faults' = 0
           /\ SameStore(w, c))
             => \A i \in Positions : log[i].by # w]_vars

\* And no new request is let into a stream that has started: events of two
\* streams are kept apart unless both were admitted before the first event.
LiveStreamNotJoined ==
    [][\A w, x \in Writers :
          (/\ pc[w] \in {"streaming", "finishing"}
           /\ pc[x] = "new" /\ pc'[x] = "admitted"
           /\ faults' = 0)
             => ~SameStore(w, x)]_vars

Log == INSTANCE ReplayLog WITH
          answered <- {c \in Reconnects : status[c] = "answered"}

\* Failed calls, events kept in two places, expiry and restarts may cost
\* events, but never order, uniqueness or the rule that nothing the client has
\* seen is sent again; and a stream numbers its events upwards to its last word.
ImplementsReplayLog == Log!Spec

----
(* What the documentation says, and the code does not keep. *)

\* api.md: a stream id in use is refused, so no two streams share one.
OneStreamPerId ==
    \A w, x \in Writers :
        {pc[w], pc[x]} \subseteq {"streaming", "finishing"} /\ w # x => ~SameStore(w, x)
====
