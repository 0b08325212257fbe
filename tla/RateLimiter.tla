---------------------------- MODULE RateLimiter ----------------------------
(***************************************************************************)
(* The rate limit of one bucket: middleware/rate_limit.py.  Each replica   *)
(* keeps a sliding window in memory; all share a counter per fixed window  *)
(* in Redis.  Buckets do not affect each other, and requests of exempt     *)
(* paths change nothing.  Without Redis every request falls back.  How     *)
(* long a refused client is told to wait is left out.                      *)
(***************************************************************************)
EXTENDS Naturals, Sequences, FiniteSets

CONSTANTS
  Replicas,      \* gateway processes
  Limit,         \* rate_limit_per_minute
  Window,        \* window_s, in ticks
  MaxRequests,   \* bound: requests of the bucket
  MaxClock,      \* bound: ticks
  MaxRestarts    \* bound: restarts of replicas

\* With a limit of 0 the first refusal would read the oldest of no hits.
ASSUME LimitAssumption == Limit \in Nat \ {0} /\ Window \in Nat \ {0}
ASSUME BoundsAssumption == {MaxRequests, MaxClock, MaxRestarts} \subseteq Nat

VARIABLES
  clock,     \* time, the same for all replicas and Redis
  hits,      \* InMemoryRateLimiter._hits[bucket] of each replica
  counter,   \* Redis key rl:<bucket>:<n> for each fixed window n
  req,       \* each request
  restarts   \* how many restarts there were

vars == <<clock, hits, counter, req, restarts>>

\* Requests are numbered in the order in which they arrive.
Requests == 1..MaxRequests
Windows == 0..(MaxClock \div Window)
WindowOf(t) == t \div Window
NoWindow == MaxClock + 1

\* Where a request was whose replica has restarted since.
Nowhere == "nowhere"
ASSUME ReplicasAssumption == Nowhere \notin Replicas

New == [at |-> "new"]
InFlight(i) == req[i].at \in {"shadowed", "sent", "ran"}

----
Init ==
  /\ clock = 0
  /\ hits = [r \in Replicas |-> <<>>]
  /\ counter = [w \in Windows |-> [n |-> 0, expires |-> 0]]
  /\ req = [i \in Requests |-> New]
  /\ restarts = 0

Tick ==
  /\ clock < MaxClock
  /\ clock' = clock + 1
  /\ UNCHANGED <<hits, counter, req, restarts>>

\* InMemoryRateLimiter.allow, the first thing done with a request.  The oldest
\* hits are dropped, as many as are out of the window.
Outside(r) ==
  {n \in 0..Len(hits[r]) : /\ \A k \in 1..n : hits[r][k] + Window <= clock
                           /\ n < Len(hits[r]) => hits[r][n + 1] + Window > clock}
Kept(r, n) == SubSeq(hits[r], n + 1, Len(hits[r]))

Arrive(i, r) ==
  \E n \in Outside(r) :
    LET q == Kept(r, n)
        allowed == Len(q) < Limit
    IN
    /\ req[i] = New /\ \A j \in 1..(i - 1) : req[j] # New
    /\ hits' = [hits EXCEPT ![r] = IF allowed THEN Append(q, clock) ELSE q]
    /\ req' = [req EXCEPT ![i] = [at |-> "shadowed", replica |-> r, arrived |-> clock,
                                  allowed |-> allowed]]
    /\ UNCHANGED <<clock, counter, restarts>>

\* The key is named by the clock of the replica, before the script is sent.
Send(i) ==
  /\ req[i].at = "shadowed"
  /\ req' = [req EXCEPT ![i] = [at |-> "sent", replica |-> @.replica, arrived |-> @.arrived,
                                allowed |-> @.allowed, window |-> WindowOf(clock)]]
  /\ UNCHANGED <<clock, hits, counter, restarts>>

\* LUA_INCR_EXPIRE, at once in Redis: INCR, and EXPIRE of a new key.
Incremented(c) ==
  IF c.n = 0 \/ c.expires <= clock
  THEN [n |-> 1, expires |-> clock + Window]
  ELSE [c EXCEPT !.n = @ + 1]

Run(i) ==
  LET w == req[i].window
      c == Incremented(counter[w])
  IN
  /\ req[i].at = "sent"
  /\ counter' = [counter EXCEPT ![w] = c]
  /\ req' = [req EXCEPT ![i] = [at |-> "ran", replica |-> @.replica, arrived |-> @.arrived,
                                allowed |-> @.allowed, within |-> c.n <= Limit,
                                window |-> IF WindowOf(clock) = w THEN w ELSE NoWindow]]
  /\ UNCHANGED <<clock, hits, restarts>>

\* The request is answered; window is the one it was counted in by Redis, in
\* time and to the knowledge of the replica.
Answer(i, allowed, window) ==
  /\ req' = [req EXCEPT ![i] = [at |-> "answered", replica |-> @.replica, arrived |-> @.arrived,
                                allowed |-> allowed, window |-> window]]
  /\ UNCHANGED <<clock, hits, counter, restarts>>

EitherAllows(r) == r.allowed \/ r.within
BothAllow(r) == r.allowed /\ r.within

Reply(i) ==
  /\ req[i].at = "ran"
  /\ Answer(i, BothAllow(req[i]), req[i].window)

\* There is no client, or the call failed, before or after the script ran: the
\* sliding window of the replica decides.
FailsOpen(i) ==
  /\ InFlight(i)
  /\ Answer(i, TRUE, NoWindow)
FallBack(i) ==
  /\ InFlight(i)
  /\ Answer(i, req[i].allowed, NoWindow)

\* A replica restarts without its memory; what it answered stays answered, by
\* a replica that is no more.
Restart(r) ==
  /\ restarts < MaxRestarts
  /\ restarts' = restarts + 1
  /\ hits' = [hits EXCEPT ![r] = <<>>]
  /\ req' = [i \in Requests |->
       IF req[i] = New \/ req[i].at = "lost" THEN req[i]
       ELSE IF req[i].replica # r THEN req[i]
       ELSE IF InFlight(i) THEN [at |-> "lost"]
       ELSE [req[i] EXCEPT !.replica = Nowhere]]
  /\ UNCHANGED <<clock, counter>>

Next ==
  \/ Tick
  \/ \E i \in Requests :
       Send(i) \/ Run(i) \/ Reply(i) \/ FallBack(i) \/ \E r \in Replicas : Arrive(i, r)
  \/ \E r \in Replicas : Restart(r)

Spec == Init /\ [][Next]_vars
(***************************************************************************)
(* Properties                                                              *)
(***************************************************************************)
Times == 0..MaxClock

RequestStates ==
  {New, [at |-> "lost"]}
    \cup [at : {"shadowed"}, replica : Replicas, arrived : Times, allowed : BOOLEAN]
    \cup [at : {"sent"}, replica : Replicas, arrived : Times, allowed : BOOLEAN, window : Windows]
    \cup [at : {"ran"}, replica : Replicas, arrived : Times, allowed : BOOLEAN,
          within : BOOLEAN, window : Windows \cup {NoWindow}]
    \cup [at : {"answered"}, replica : Replicas \cup {Nowhere}, arrived : Times,
          allowed : BOOLEAN, window : Windows \cup {NoWindow}]

\* Every variable keeps its type.
TypeOK ==
  /\ clock \in Times /\ restarts \in 0..MaxRestarts
  /\ hits \in [Replicas -> Seq(Times)]
  /\ counter \in [Windows -> [n : 0..MaxRequests, expires : 0..(MaxClock + Window)]]
  /\ req \in [Requests -> RequestStates]

Admitted == {i \in Requests : req[i].at = "answered" /\ req[i].allowed}

\* A replica admits at most Limit of the requests that arrive at it in any
\* Window ticks, whatever Redis does to each call: an outage, or its end, gives
\* a client no second budget (rate_limit.py:87-114; docs/configuration.md:61).
ReplicaBound ==
  \A r \in Replicas, t \in Times :
    Cardinality({i \in Admitted : /\ req[i].replica = r
                                  /\ req[i].arrived <= t /\ t < req[i].arrived + Window}) <= Limit

\* Of the requests that Redis counted in a fixed window, and answered, all
\* replicas together admit at most Limit, through restarts of replicas and
\* beside calls that fail (rate_limit.py:58-65, 100-111).
SharedBound ==
  \A w \in Windows : Cardinality({i \in Admitted : req[i].window = w}) <= Limit
====
