-------------------------- MODULE RateLimiterProofs --------------------------
(***************************************************************************)
(* The limit that all replicas share, and that of each replica, for any    *)
(* number of replicas and requests, any limit and any window.              *)
(***************************************************************************)
EXTENDS RateLimiter, SequenceTheorems, FiniteSetTheorems, TLAPS

(***************************************************************************)
(* Windows                                                                 *)
(***************************************************************************)
\* A window is the multiple of its length that time has reached last.
LEMMA WindowOfTime ==
  ASSUME NEW t \in Nat
  PROVE  /\ WindowOf(t) \in Nat
         /\ WindowOf(t) * Window <= t /\ t < (WindowOf(t) + 1) * Window
         /\ \A w \in Nat : w * Window <= t /\ t < (w + 1) * Window => w = WindowOf(t)
BY LimitAssumption DEF WindowOf

LEMMA WindowsAreNat ==
  /\ Windows \subseteq Nat /\ NoWindow \notin Windows
  /\ \A t \in Times : WindowOf(t) \in Windows
BY LimitAssumption, BoundsAssumption DEF Windows, NoWindow, WindowOf, Times

(***************************************************************************)
(* The shared counters: the inductive invariant.                           *)
(***************************************************************************)
\* What the proof needs of the types: a sliding window may hold anything.
Typed ==
  /\ clock \in Times
  /\ counter \in [Windows -> [n : Nat, expires : Nat]]
  /\ req \in [Requests -> RequestStates]

\* A request is sent in its window or later.
Timely == \A i \in Requests : req[i].at = "sent" => req[i].window * Window <= clock

\* The key of a window outlives the window.
KeysLast == \A w \in Windows : counter[w].n > 0 => counter[w].expires >= (w + 1) * Window

\* Requests that Redis has counted in a window, and not refused.
Passed(w) ==
  {i \in Requests : /\ req[i].at \in {"ran", "answered"} /\ req[i].window = w
                    /\ IF req[i].at = "ran" THEN req[i].within ELSE req[i].allowed}

\* They are within the limit, and until the window ends within the counter.
PassedBounded ==
  \A w \in Windows :
    /\ Cardinality(Passed(w)) <= Limit
    /\ clock < (w + 1) * Window => Cardinality(Passed(w)) <= counter[w].n

IInv == Typed /\ Timely /\ KeysLast /\ PassedBounded

(***************************************************************************)
(* No step disturbs it.                                                    *)
(***************************************************************************)
LEMMA PassedFinite ==
  ASSUME NEW w
  PROVE  IsFiniteSet(Passed(w)) /\ Cardinality(Passed(w)) \in Nat
<1>1. IsFiniteSet(Requests)
  BY BoundsAssumption, FS_Interval DEF Requests
<1>2. QED
  BY <1>1, FS_Subset, FS_CardinalityType DEF Passed

\* Where no request is added to a window, its bounds hold on, if the counter
\* does not shrink before the window ends.
LEMMA PassedShrinks ==
  ASSUME PassedBounded, NEW w \in Windows, Passed(w)' \subseteq Passed(w), Typed, clock' >= clock,
         clock' \in Nat, clock' < (w + 1) * Window => counter'[w].n >= counter[w].n,
         counter'[w].n \in Nat
  PROVE  /\ Cardinality(Passed(w))' <= Limit
         /\ clock' < (w + 1) * Window => Cardinality(Passed(w))' <= counter'[w].n
<1>1. IsFiniteSet(Passed(w)) /\ Cardinality(Passed(w)) \in Nat
  BY PassedFinite
<1>2. /\ Cardinality(Passed(w)') \in Nat
      /\ Cardinality(Passed(w)') <= Cardinality(Passed(w))
  BY <1>1, FS_Subset, FS_CardinalityType
<1>3. w \in Nat /\ clock \in Nat /\ counter[w].n \in Nat
  BY WindowsAreNat DEF Typed, Times
<1>4. QED
  BY <1>1, <1>2, <1>3, LimitAssumption DEF PassedBounded

LEMMA InvInit == Init => IInv
<1> SUFFICES ASSUME Init PROVE IInv
  OBVIOUS
<1>1. Typed
  BY BoundsAssumption DEF Init, Typed, Times, RequestStates
<1>2. Timely /\ KeysLast
  BY DEF Init, Timely, KeysLast, New
<1>3. ASSUME NEW w \in Windows
      PROVE  Cardinality(Passed(w)) <= Limit /\ Cardinality(Passed(w)) <= counter[w].n
  <2>1. Passed(w) = {}
    BY DEF Init, Passed, New
  <2>2. QED
    BY <1>3, <2>1, FS_EmptySet, LimitAssumption DEF Init
<1>4. QED
  BY <1>1, <1>2, <1>3 DEF IInv, PassedBounded

\* A step that counts nothing.
LEMMA CountsNothing ==
  ASSUME IInv, Typed', Timely', UNCHANGED <<clock, counter>>,
         \A w \in Windows : Passed(w)' \subseteq Passed(w)
  PROVE  IInv'
<1> USE DEF IInv
<1>1. KeysLast'
  BY DEF KeysLast
<1>2. PassedBounded'
  <2>1. ASSUME NEW w \in Windows
        PROVE  /\ Cardinality(Passed(w))' <= Limit
               /\ clock' < (w + 1) * Window => Cardinality(Passed(w))' <= counter'[w].n
    <3>1. counter[w].n \in Nat /\ clock \in Nat
      BY DEF Typed, Times
    <3>2. QED
      BY <3>1, PassedShrinks
  <2>2. QED
    BY <2>1 DEF PassedBounded
<1>3. QED
  BY <1>1, <1>2

LEMMA TickKeeps ==
  ASSUME IInv, Tick
  PROVE  IInv'
<1> USE DEF IInv, Tick
<1>1. clock \in Nat /\ clock' = clock + 1 /\ Typed'
  BY BoundsAssumption DEF Typed, Times
<1>2. Timely'
  <2>1. ASSUME NEW i \in Requests, req[i].at = "sent"
        PROVE  req[i].window * Window <= clock + 1
    <3>1. req[i].window \in Windows
      BY <2>1 DEF Typed, RequestStates, New
    <3>2. req[i].window \in Nat /\ Window \in Nat
      BY <3>1, WindowsAreNat, LimitAssumption
    <3>3. QED
      BY <1>1, <2>1, <3>2 DEF Timely
  <2>2. QED
    BY <1>1, <2>1 DEF Timely
<1>3. KeysLast'
  BY DEF KeysLast
<1>4. PassedBounded'
  <2>1. ASSUME NEW w \in Windows
        PROVE  /\ Cardinality(Passed(w))' <= Limit
               /\ clock' < (w + 1) * Window => Cardinality(Passed(w))' <= counter'[w].n
    <3>1. counter[w].n \in Nat /\ Passed(w)' = Passed(w)
      BY DEF Typed, Passed
    <3>2. QED
      BY <1>1, <3>1, PassedShrinks
  <2>2. QED
    BY <2>1 DEF PassedBounded
<1>5. QED
  BY <1>1, <1>2, <1>3, <1>4

\* What an entry of req is.
LEMMA Fields ==
  ASSUME Typed, NEW i \in Requests
  PROVE  /\ req[i].at \in {"shadowed", "sent", "ran"} =>
              req[i].replica \in Replicas /\ req[i].arrived \in Times /\ req[i].allowed \in BOOLEAN
         /\ req[i].at = "sent" => req[i].window \in Windows
         /\ req[i].at = "ran" => req[i].window \in Windows \cup {NoWindow} /\ req[i].within \in BOOLEAN
<1>1. req[i] \in RequestStates
  BY DEF Typed
<1>2. QED
  BY <1>1 DEF RequestStates, New

\* A step that sets one request, to a state that is not counted anew.
LEMMA SetsOne ==
  ASSUME IInv, NEW i \in Requests, NEW x \in RequestStates, req' = [req EXCEPT ![i] = x],
         UNCHANGED <<clock, counter>>, x.at = "sent" => x.window * Window <= clock,
         \A w \in Windows :
           x.at \in {"ran", "answered"} /\ x.window = w /\ (IF x.at = "ran" THEN x.within ELSE x.allowed)
             => i \in Passed(w)
  PROVE  IInv'
<1> USE DEF IInv
<1>1. Typed' /\ req'[i] = x /\ \A j \in Requests \ {i} : req'[j] = req[j]
  BY DEF Typed
<1>2. Timely'
  BY <1>1 DEF Timely
<1>3. \A w \in Windows : Passed(w)' \subseteq Passed(w)
  BY <1>1 DEF Passed
<1>4. QED
  BY <1>1, <1>2, <1>3, CountsNothing

LEMMA AnswerKeeps ==
  ASSUME IInv, NEW i \in Requests, NEW allowed \in BOOLEAN, NEW window \in Windows \cup {NoWindow},
         req[i].at \in {"shadowed", "sent", "ran"}, Answer(i, allowed, window),
         allowed /\ window # NoWindow => i \in Passed(window)
  PROVE  IInv'
<1> DEFINE x == [at |-> "answered", replica |-> req[i].replica, arrived |-> req[i].arrived,
                 allowed |-> allowed, window |-> window]
<1>1. req[i].replica \in Replicas /\ req[i].arrived \in Times
  BY Fields DEF IInv
<1>2. x \in RequestStates /\ x.at = "answered" /\ x.allowed = allowed /\ x.window = window
  BY <1>1 DEF RequestStates
<1>3. req' = [req EXCEPT ![i] = x] /\ UNCHANGED <<clock, counter>>
  BY DEF Answer
<1> HIDE DEF x
<1>4. ASSUME NEW w \in Windows, x.window = w, x.allowed
      PROVE  i \in Passed(w)
  BY <1>2, <1>4, WindowsAreNat
<1>5. QED
  BY <1>2, <1>3, <1>4, SetsOne

LEMMA RunKeeps ==
  ASSUME IInv, NEW i \in Requests, Run(i)
  PROVE  IInv'
<1> USE DEF IInv
<1>0. PICK w \in Windows : w = req[i].window
  BY Fields DEF Run
<1> DEFINE c == Incremented(counter[w])
           x == [at |-> "ran", replica |-> req[i].replica, arrived |-> req[i].arrived,
                 allowed |-> req[i].allowed, within |-> c.n <= Limit,
                 window |-> IF WindowOf(clock) = w THEN w ELSE NoWindow]
<1>1. /\ req[i].at = "sent" /\ counter' = [counter EXCEPT ![w] = c]
      /\ req' = [req EXCEPT ![i] = x] /\ UNCHANGED clock
  BY <1>0 DEF Run
<1>2. /\ w \in Windows /\ w \in Nat /\ clock \in Nat /\ Limit \in Nat /\ Window \in Nat
      /\ counter[w].n \in Nat /\ counter[w].expires \in Nat
      /\ w * Window <= clock
      /\ req[i].replica \in Replicas /\ req[i].arrived \in Times /\ req[i].allowed \in BOOLEAN
  BY <1>0, <1>1, Fields, WindowsAreNat, LimitAssumption DEF Typed, Times, Timely
<1>3. c.n \in Nat /\ c.expires \in Nat /\ c.n > 0 /\ c.expires >= (w + 1) * Window
  <2>1. CASE counter[w].n = 0 \/ counter[w].expires <= clock
    <3>1. c.n = 1 /\ c.expires = clock + Window
      BY <2>1 DEF Incremented
    <3>2. QED
      BY <1>2, <3>1
  <2>2. CASE ~(counter[w].n = 0 \/ counter[w].expires <= clock)
    <3>1. c.n = counter[w].n + 1 /\ c.expires = counter[w].expires
      BY <1>2, <2>2 DEF Incremented, Typed
    <3>2. counter[w].expires >= (w + 1) * Window
      BY <1>2, <2>2 DEF KeysLast
    <3>3. QED
      BY <1>2, <3>1, <3>2
  <2>3. QED
    BY <2>1, <2>2
<1>4. clock < (w + 1) * Window => c.n = counter[w].n + 1
  <2>1. CASE counter[w].n = 0
    BY <2>1 DEF Incremented
  <2>2. CASE counter[w].n > 0 /\ clock < (w + 1) * Window
    <3>1. counter[w].expires >= (w + 1) * Window
      BY <1>2, <2>2 DEF KeysLast
    <3>2. ~(counter[w].n = 0 \/ counter[w].expires <= clock)
      BY <1>2, <2>2, <3>1
    <3>3. QED
      BY <1>2, <3>2 DEF Incremented, Typed
  <2>3. QED
    BY <1>2, <2>1, <2>2
<1>5. /\ counter' \in [Windows -> [n : Nat, expires : Nat]] /\ counter'[w] = c
      /\ \A v \in Windows \ {w} : counter'[v] = counter[v]
  <2>1. c \in [n : Nat, expires : Nat]
    BY <1>2, <1>3 DEF Incremented, Typed
  <2>2. QED
    BY <1>1, <1>2, <2>1 DEF Typed
<1>6. x \in RequestStates /\ x.at = "ran" /\ x.within = (c.n <= Limit)
      /\ x.window = (IF WindowOf(clock) = w THEN w ELSE NoWindow)
  <2>1. (c.n <= Limit) \in BOOLEAN
        /\ (IF WindowOf(clock) = w THEN w ELSE NoWindow) \in Windows \cup {NoWindow}
    BY <1>2
  <2>2. QED
    BY <1>2, <2>1 DEF RequestStates
<1> HIDE DEF c, x
<1>7. Typed' /\ req'[i] = x /\ \A j \in Requests \ {i} : req'[j] = req[j]
  BY <1>1, <1>5, <1>6 DEF Typed
<1>8. Timely' /\ KeysLast'
  BY <1>1, <1>3, <1>5, <1>6, <1>7 DEF Timely, KeysLast
<1>9. ASSUME NEW v \in Windows
      PROVE  /\ Cardinality(Passed(v))' <= Limit
             /\ clock' < (v + 1) * Window => Cardinality(Passed(v))' <= counter'[v].n
  <2>1. v \in Nat /\ counter'[v].n \in Nat
    BY <1>5, WindowsAreNat
  <2>2. CASE v # w
    <3>1. Passed(v)' \subseteq Passed(v) /\ counter'[v] = counter[v]
      BY <1>5, <1>6, <1>7, <2>2, WindowsAreNat DEF Passed
    <3>2. QED
      BY <1>1, <1>2, <2>1, <3>1, PassedShrinks
  <2>3. CASE v = w /\ ~(clock < (w + 1) * Window /\ c.n <= Limit)
    <3>1. WindowOf(clock) = w => clock < (w + 1) * Window
      BY <1>2, WindowOfTime
    <3>2. Passed(v)' \subseteq Passed(v)
      BY <1>6, <1>7, <2>3, <3>1, WindowsAreNat DEF Passed
    <3>3. clock' < (v + 1) * Window => counter'[v].n >= counter[v].n
      BY <1>1, <1>2, <1>4, <1>5, <2>3
    <3>4. QED
      BY <1>1, <1>2, <2>1, <3>2, <3>3, PassedShrinks
  <2>4. CASE v = w /\ clock < (w + 1) * Window /\ c.n <= Limit
    <3>1. Passed(w)' \subseteq Passed(w) \cup {i}
      BY <1>7 DEF Passed
    <3>2. /\ IsFiniteSet(Passed(w)) /\ Cardinality(Passed(w)) \in Nat
          /\ Cardinality(Passed(w)) <= counter[w].n
      BY <1>2, <2>4, PassedFinite DEF PassedBounded
    <3>3. /\ IsFiniteSet(Passed(w) \cup {i})
          /\ Cardinality(Passed(w) \cup {i}) <= Cardinality(Passed(w)) + 1
      BY <3>2, FS_AddElement
    <3>4. /\ Cardinality(Passed(w)') <= Cardinality(Passed(w) \cup {i})
          /\ Cardinality(Passed(w)') \in Nat /\ Cardinality(Passed(w) \cup {i}) \in Nat
      BY <3>1, <3>3, FS_Subset, FS_CardinalityType
    <3>5. Cardinality(Passed(w)') <= c.n
      BY <1>2, <1>3, <1>4, <2>4, <3>2, <3>3, <3>4
    <3>6. QED
      BY <1>2, <1>3, <1>5, <2>4, <3>4, <3>5
  <2>5. QED
    BY <2>2, <2>3, <2>4
<1>10. QED
  BY <1>7, <1>8, <1>9 DEF PassedBounded

LEMMA RestartKeeps ==
  ASSUME IInv, NEW r \in Replicas, Restart(r)
  PROVE  IInv'
<1> USE DEF IInv
<1>1. ASSUME NEW i \in Requests
      PROVE  /\ req'[i] \in RequestStates
             /\ \/ req'[i] = req[i]
                \/ req'[i].at = "lost"
                \/ /\ req'[i].at = req[i].at /\ req[i].at = "answered"
                   /\ req'[i].window = req[i].window /\ req'[i].allowed = req[i].allowed
  <2>1. req[i] \in RequestStates
    BY DEF Typed
  <2>2. CASE req'[i] = req[i]
    BY <2>1, <2>2
  <2>3. CASE req'[i] = [at |-> "lost"]
    BY <2>3 DEF RequestStates
  <2>4. CASE /\ ~InFlight(i) /\ req[i] # New /\ req[i].at # "lost"
             /\ req'[i] = [req[i] EXCEPT !.replica = Nowhere]
    <3>1. req[i] \in [at : {"answered"}, replica : Replicas \cup {Nowhere}, arrived : Times,
                      allowed : BOOLEAN, window : Windows \cup {NoWindow}]
      BY <2>1, <2>4 DEF RequestStates, InFlight, New
    <3>2. QED
      BY <2>4, <3>1 DEF RequestStates
  <2>5. QED
    BY <2>2, <2>3, <2>4 DEF Restart
<1>2. Typed'
  BY <1>1 DEF Restart, Typed
<1>3. Timely'
  BY <1>1 DEF Restart, Timely
<1>4. \A w \in Windows : Passed(w)' \subseteq Passed(w)
  BY <1>1 DEF Passed
<1>5. QED
  BY <1>2, <1>3, <1>4, CountsNothing DEF Restart

LEMMA InvStep ==
  ASSUME IInv, [Next]_vars
  PROVE  IInv'
<1> USE DEF IInv
<1>1. CASE UNCHANGED vars
  BY <1>1 DEF vars, Typed, Timely, KeysLast, PassedBounded, Passed
<1>2. ASSUME NEW i \in Requests, NEW r \in Replicas, Arrive(i, r)
      PROVE  IInv'
  <2>0. PICK n \in Outside(r) :
          req' = [req EXCEPT ![i] = [at |-> "shadowed", replica |-> r, arrived |-> clock,
                                     allowed |-> Len(Kept(r, n)) < Limit]]
    BY <1>2 DEF Arrive
  <2> DEFINE allowed == Len(Kept(r, n)) < Limit
             x == [at |-> "shadowed", replica |-> r, arrived |-> clock, allowed |-> allowed]
  <2>1. allowed \in BOOLEAN
    OBVIOUS
  <2>2. req' = [req EXCEPT ![i] = x] /\ UNCHANGED <<clock, counter>>
    BY <1>2, <2>0 DEF Arrive
  <2> HIDE DEF allowed
  <2>3. x \in RequestStates /\ x.at = "shadowed"
    BY <2>1 DEF RequestStates, Typed
  <2> HIDE DEF x
  <2>4. QED
    BY <2>2, <2>3, SetsOne
<1>3. ASSUME NEW i \in Requests, Send(i)
      PROVE  IInv'
  <2> DEFINE x == [at |-> "sent", replica |-> req[i].replica, arrived |-> req[i].arrived,
                   allowed |-> req[i].allowed, window |-> WindowOf(clock)]
  <2>1. req[i].replica \in Replicas /\ req[i].arrived \in Times /\ req[i].allowed \in BOOLEAN
    BY <1>3, Fields DEF Send
  <2>2. WindowOf(clock) \in Windows /\ WindowOf(clock) * Window <= clock
    BY WindowsAreNat, WindowOfTime DEF Typed, Times
  <2>3. x \in RequestStates /\ x.at = "sent" /\ x.window = WindowOf(clock)
    BY <2>1, <2>2 DEF RequestStates
  <2>4. req' = [req EXCEPT ![i] = x] /\ UNCHANGED <<clock, counter>>
    BY <1>3 DEF Send
  <2> HIDE DEF x
  <2>5. QED
    BY <2>2, <2>3, <2>4, SetsOne
<1>4. ASSUME NEW i \in Requests, Reply(i)
      PROVE  IInv'
  <2>1. /\ req[i].at = "ran" /\ req[i].window \in Windows \cup {NoWindow}
        /\ BothAllow(req[i]) \in BOOLEAN /\ (BothAllow(req[i]) => req[i].within)
    BY <1>4, Fields DEF Reply, BothAllow
  <2>2. BothAllow(req[i]) => i \in Passed(req[i].window)
    BY <2>1 DEF Passed
  <2>3. QED
    BY <1>4, <2>1, <2>2, AnswerKeeps DEF Reply
<1>5. ASSUME NEW i \in Requests, FallBack(i)
      PROVE  IInv'
  <2>1. req[i].at \in {"shadowed", "sent", "ran"} /\ req[i].allowed \in BOOLEAN
    BY <1>5, Fields DEF FallBack, InFlight
  <2>2. QED
    BY <1>5, <2>1, AnswerKeeps DEF FallBack
<1>6. QED
  BY <1>1, <1>2, <1>3, <1>4, <1>5, TickKeeps, RunKeeps, RestartKeeps DEF Next

LEMMA Invariance == Spec => []IInv
BY InvInit, InvStep, PTL DEF Spec

\* Of the requests that Redis counts in a window and answers in time, all
\* replicas together admit no more than the limit, whatever restarts and
\* failing calls there are, and however late other scripts run: the key of a
\* window does not expire before the window ends.
THEOREM LimitShared == Spec => []SharedBound
<1>1. IInv => SharedBound
  <2>1. ASSUME IInv, NEW w \in Windows
        PROVE  Cardinality({i \in Admitted : req[i].window = w}) <= Limit
    <3>1. {i \in Admitted : req[i].window = w} \subseteq Passed(w)
      BY DEF Admitted, Passed
    <3>2. IsFiniteSet(Passed(w)) /\ Cardinality(Passed(w)) \in Nat /\ Cardinality(Passed(w)) <= Limit
      BY <2>1, PassedFinite DEF IInv, PassedBounded
    <3>3. QED
      BY <3>1, <3>2, FS_Subset, FS_CardinalityType, LimitAssumption
  <2>2. QED
    BY <2>1 DEF SharedBound
<1>2. QED
  BY <1>1, Invariance, PTL

(***************************************************************************)
(* The sliding windows: the inductive invariant.                           *)
(***************************************************************************)
\* Requests that a replica has admitted so far, and those still in its window.
Seen(r) == {i \in Requests : req[i].at \notin {"new", "lost"} /\ req[i].replica = r /\ req[i].allowed}
Fresh(r) == {i \in Seen(r) : req[i].arrived + Window > clock}
Within(r, t) == {i \in Seen(r) : req[i].arrived <= t /\ t < req[i].arrived + Window}

Past == \A r \in Replicas : \A i \in Seen(r) : req[i].arrived \in Nat /\ req[i].arrived <= clock

\* Each request in the window of a replica has a hit of its own.
HasHit(r, f) ==
  /\ f \in [Requests -> Int]
  /\ \A i \in Fresh(r) : f[i] \in 1..Len(hits[r]) /\ hits[r][f[i]] = req[i].arrived
  /\ \A i, j \in Fresh(r) : f[i] = f[j] => i = j
Recorded == \A r \in Replicas : \E f : HasHit(r, f)

\* In any stretch as long as the window.
WithinBounded == \A r \in Replicas, t \in Times : Cardinality(Within(r, t)) <= Limit

SInv == hits \in [Replicas -> Seq(Nat)] /\ Past /\ Recorded /\ WithinBounded

----
LEMMA SeenFinite ==
  ASSUME NEW S, S \subseteq Requests
  PROVE  IsFiniteSet(S) /\ Cardinality(S) \in Nat
<1>1. IsFiniteSet(Requests)
  BY BoundsAssumption, FS_Interval DEF Requests
<1>2. QED
  BY <1>1, FS_Subset, FS_CardinalityType

LEMMA SlidingInit == Init => SInv
<1> SUFFICES ASSUME Init PROVE SInv
  OBVIOUS
<1>1. \A r : Seen(r) = {}
  BY DEF Init, Seen, New
<1>2. hits \in [Replicas -> Seq(Nat)]
  BY DEF Init
<1>3. Past
  BY <1>1 DEF Past
<1>4. Recorded
  <2>1. ASSUME NEW r \in Replicas PROVE HasHit(r, [i \in Requests |-> 0])
    BY <1>1 DEF HasHit, Fresh
  <2>2. QED
    BY <2>1 DEF Recorded
<1>5. WithinBounded
  <2>1. \A r, t : Within(r, t) = {}
    BY <1>1 DEF Within
  <2>2. QED
    BY <2>1, FS_EmptySet, LimitAssumption DEF WithinBounded
<1>6. QED
  BY <1>2, <1>3, <1>4, <1>5 DEF SInv

\* For a replica that admits nothing and keeps its hits, or forgets both.
LEMMA SeenShrinks ==
  ASSUME SInv, NEW r \in Replicas, clock \in Nat, clock' \in Nat, clock' >= clock,
         Seen(r)' \subseteq Seen(r), \A i \in Seen(r)' : req'[i].arrived = req[i].arrived,
         hits'[r] = hits[r] \/ Seen(r)' = {}
  PROVE  /\ \A i \in Seen(r)' : req'[i].arrived \in Nat /\ req'[i].arrived <= clock'
         /\ \E f : HasHit(r, f)'
         /\ \A t \in Times : Cardinality(Within(r, t)') <= Limit
<1>1. \A i \in Seen(r) : req[i].arrived \in Nat /\ req[i].arrived <= clock
  BY DEF SInv, Past
<1>2. \A i \in Seen(r)' : req'[i].arrived \in Nat /\ req'[i].arrived <= clock'
  BY <1>1
<1>3. \E f : HasHit(r, f)'
  <2>1. PICK f : HasHit(r, f)
    BY DEF SInv, Recorded
  <2>2. Fresh(r)' \subseteq Fresh(r) /\ \A i \in Fresh(r)' : req'[i].arrived = req[i].arrived
    <3>1. ASSUME NEW i \in Seen(r)', req'[i].arrived + Window > clock'
          PROVE  i \in Seen(r) /\ req[i].arrived + Window > clock
      BY <1>1, <3>1, LimitAssumption
    <3>2. QED
      BY <3>1 DEF Fresh
  <2>3. HasHit(r, f)'
    <3>1. CASE hits'[r] = hits[r]
      BY <2>1, <2>2, <3>1 DEF HasHit
    <3>2. CASE Seen(r)' = {}
      BY <2>1, <3>2 DEF HasHit, Fresh
    <3>3. QED
      BY <3>1, <3>2
  <2>4. QED
    BY <2>3
<1>4. ASSUME NEW t \in Times
      PROVE  Cardinality(Within(r, t)') <= Limit
  <2>1. Within(r, t)' \subseteq Within(r, t)
    BY DEF Within
  <2>2. /\ IsFiniteSet(Within(r, t)) /\ Cardinality(Within(r, t)) \in Nat
        /\ Cardinality(Within(r, t)) <= Limit
    BY SeenFinite DEF Within, Seen, SInv, WithinBounded
  <2>3. Cardinality(Within(r, t)') \in Nat /\ Cardinality(Within(r, t)') <= Cardinality(Within(r, t))
    BY <2>1, <2>2, FS_Subset, FS_CardinalityType
  <2>4. QED
    BY <2>2, <2>3, LimitAssumption
<1>5. QED
  BY <1>2, <1>3, <1>4

\* The step of one request that its replica has seen already.
LEMMA SlidingQuiet ==
  ASSUME SInv, Typed, clock' \in Nat, clock' >= clock,
         hits' \in [Replicas -> Seq(Nat)],
         \A r \in Replicas :
           /\ Seen(r)' \subseteq Seen(r) /\ \A i \in Seen(r)' : req'[i].arrived = req[i].arrived
           /\ hits'[r] = hits[r] \/ Seen(r)' = {}
  PROVE  SInv'
<1>1. clock \in Nat
  BY DEF Typed, Times
<1>2. ASSUME NEW r \in Replicas
      PROVE  /\ \A i \in Seen(r)' : req'[i].arrived \in Nat /\ req'[i].arrived <= clock'
             /\ \E f : HasHit(r, f)'
             /\ \A t \in Times : Cardinality(Within(r, t)') <= Limit
  BY <1>1, SeenShrinks
<1>3. Past'
  BY <1>2 DEF Past
<1>4. Recorded'
  BY <1>2 DEF Recorded
<1>5. WithinBounded'
  BY <1>2 DEF WithinBounded, Times
<1>6. QED
  BY <1>3, <1>4, <1>5 DEF SInv

\* A request is moved on: what its replica has decided it does not forget.
LEMMA SlidingMoves ==
  ASSUME SInv, Typed, NEW i \in Requests, NEW x, req' = [req EXCEPT ![i] = x],
         UNCHANGED <<clock, hits>>, req[i].at \notin {"new", "lost"},
         x.replica = req[i].replica, x.arrived = req[i].arrived, x.allowed => req[i].allowed
  PROVE  SInv'
<1>1. req'[i] = x /\ \A j \in Requests \ {i} : req'[j] = req[j]
  BY DEF Typed
<1>2. \A r \in Replicas : /\ Seen(r)' \subseteq Seen(r)
                          /\ \A j \in Seen(r)' : req'[j].arrived = req[j].arrived
  BY <1>1 DEF Seen
<1>3. clock \in Nat /\ hits \in [Replicas -> Seq(Nat)]
  BY DEF Typed, Times, SInv
<1>4. QED
  BY <1>2, <1>3, SlidingQuiet

\* Of the requests in the window, each has a hit that is not dropped.
LEMMA FreshCounted ==
  ASSUME SInv, Typed, NEW r \in Replicas, NEW n \in Outside(r), NEW f, HasHit(r, f)
  PROVE  /\ n \in Nat /\ Kept(r, n) \in Seq(Nat) /\ Len(Kept(r, n)) \in Nat
         /\ \A i \in Fresh(r) : /\ f[i] - n \in 1..Len(Kept(r, n))
                                /\ Kept(r, n)[f[i] - n] = req[i].arrived
         /\ Cardinality(Fresh(r)) <= Len(Kept(r, n))
<1> DEFINE h == hits[r]
           q == Kept(r, n)
<1>1. /\ h \in Seq(Nat) /\ Len(h) \in Nat /\ n \in 0..Len(h) /\ n \in Nat
      /\ \A k \in 1..n : h[k] + Window <= clock
      /\ \A k \in 1..Len(h) : h[k] \in Nat
  BY LenProperties, ElementOfSeq DEF SInv, Outside
<1>2. q \in Seq(Nat) /\ Len(q) = Len(h) - n /\ \A k \in 1..Len(q) : q[k] = h[n + k]
  <2>1. n + 1 \in Int /\ Len(h) \in Int /\ \A k \in (n + 1)..Len(h) : h[k] \in Nat
    BY <1>1
  <2> HIDE DEF h
  <2>2. /\ SubSeq(h, n + 1, Len(h)) \in Seq(Nat)
        /\ Len(SubSeq(h, n + 1, Len(h))) = IF n + 1 <= Len(h) THEN Len(h) - (n + 1) + 1 ELSE 0
        /\ \A k \in 1..(Len(h) - (n + 1) + 1) : SubSeq(h, n + 1, Len(h))[k] = h[(n + 1) + k - 1]
    BY <2>1, SubSeqProperties
  <2>3. q = SubSeq(h, n + 1, Len(h))
    BY DEF Kept, h
  <2> HIDE DEF q
  <2>4. Len(q) = Len(h) - n
    BY <1>1, <2>2, <2>3
  <2>5. \A k \in 1..Len(q) : k \in 1..(Len(h) - (n + 1) + 1) /\ (n + 1) + k - 1 = n + k
    BY <1>1, <2>4
  <2>6. QED
    BY <2>2, <2>3, <2>4, <2>5
<1> HIDE DEF h, q
<1>3. ASSUME NEW i \in Fresh(r)
      PROVE  f[i] - n \in 1..Len(q) /\ q[f[i] - n] = req[i].arrived
  <2>1. f[i] \in 1..Len(h) /\ h[f[i]] = req[i].arrived /\ req[i].arrived + Window > clock
    BY DEF HasHit, Fresh, h
  <2>2. f[i] \notin 1..n
    BY <1>1, <2>1, LimitAssumption DEF Typed, Times
  <2>3. f[i] - n \in 1..Len(q) /\ n + (f[i] - n) = f[i]
    BY <1>1, <1>2, <2>1, <2>2
  <2>4. QED
    BY <1>2, <2>1, <2>3
<1>4. Cardinality(Fresh(r)) <= Len(q)
  <2> DEFINE g == [i \in Fresh(r) |-> f[i] - n]
  <2>1. \A i \in Fresh(r) : f[i] \in Int
    BY DEF HasHit, Fresh, Seen
  <2>2. g \in [Fresh(r) -> 1..Len(q)] /\ \A i, j \in Fresh(r) : g[i] = g[j] => i = j
    BY <1>1, <1>3, <2>1 DEF HasHit
  <2>3. g \in Injection(Fresh(r), 1..Len(q))
    <3> HIDE DEF g
    <3>1. DOMAIN g = Fresh(r)
      BY <2>2
    <3>2. QED
      BY <2>2, <3>1 DEF Injection, IsInjective
  <2>4. IsFiniteSet(1..Len(q)) /\ Cardinality(1..Len(q)) = Len(q)
    <3>1. PICK m \in Nat : m = Len(q)
      BY <1>2, LenProperties
    <3>2. IsFiniteSet(1..m) /\ Cardinality(1..m) = IF 1 > m THEN 0 ELSE m - 1 + 1
      BY FS_Interval
    <3>3. Cardinality(1..m) = m
      BY <3>2
    <3>4. QED
      BY <3>1, <3>2, <3>3
  <2> HIDE DEF g
  <2>5. QED
    BY <2>3, <2>4, FS_Injection
<1>5. QED
  BY <1>1, <1>2, <1>3, <1>4 DEF q

\* The fields of a request that has just arrived.
LEMMA ShadowedAllowed ==
  ASSUME NEW r, NEW c, NEW a, NEW x,
         x = [at |-> "shadowed", replica |-> r, arrived |-> c, allowed |-> a]
  PROVE  x.allowed = a
OBVIOUS

LEMMA Shadowed ==
  ASSUME NEW r, NEW c, NEW l \in Nat, NEW x,
         x = [at |-> "shadowed", replica |-> r, arrived |-> c, allowed |-> l < Limit]
  PROVE  x.at = "shadowed" /\ x.replica = r /\ (x.allowed <=> l < Limit)
<1>1. x.allowed = (l < Limit)
  BY ShadowedAllowed, Zenon
<1>2. x.allowed <=> l < Limit
  BY <1>1, Zenon
<1>3. x.at = "shadowed" /\ x.replica = r
  OBVIOUS
<1>4. QED
  BY <1>2, <1>3

LEMMA ArriveSlides ==
  ASSUME SInv, Typed, NEW i \in Requests, NEW r \in Replicas, Arrive(i, r)
  PROVE  SInv'
<1>1. PICK n \in Outside(r) :
        /\ req[i] = New /\ UNCHANGED clock
        /\ hits' = [hits EXCEPT ![r] = IF Len(Kept(r, n)) < Limit THEN Append(Kept(r, n), clock)
                                                                  ELSE Kept(r, n)]
        /\ req' = [req EXCEPT ![i] = [at |-> "shadowed", replica |-> r, arrived |-> clock,
                                      allowed |-> Len(Kept(r, n)) < Limit]]
  BY DEF Arrive
<1>2. PICK f : HasHit(r, f)
  BY DEF SInv, Recorded
<1>3. PICK q \in Seq(Nat) : q = Kept(r, n)
  BY <1>2, FreshCounted
<1>4. PICK l \in Nat : l = Len(q)
  BY <1>3, LenProperties
<1>5. /\ n \in Nat /\ Cardinality(Fresh(r)) <= l
      /\ \A j \in Fresh(r) : f[j] - n \in 1..l /\ q[f[j] - n] = req[j].arrived
  BY <1>2, <1>3, <1>4, FreshCounted
<1>6. PICK c \in Nat : c = clock /\ c = clock'
  BY <1>1 DEF Typed, Times
<1>7. /\ req'[i] = [at |-> "shadowed", replica |-> r, arrived |-> c, allowed |-> l < Limit]
      /\ \A j \in Requests \ {i} : req'[j] = req[j]
  BY <1>1, <1>3, <1>4, <1>6 DEF Typed
<1>8. PICK h \in Seq(Nat) : /\ h = (IF l < Limit THEN Append(q, c) ELSE q)
                            /\ hits' = [hits EXCEPT ![r] = h]
  <2>1. Append(q, c) \in Seq(Nat)
    BY AppendProperties
  <2>2. QED
    BY <1>1, <1>3, <1>4, <1>6, <2>1
<1>9. /\ hits \in [Replicas -> Seq(Nat)] /\ hits' \in [Replicas -> Seq(Nat)] /\ hits'[r] = h
      /\ \A s \in Replicas \ {r} : hits'[s] = hits[s]
  BY <1>8 DEF SInv
<1>10. /\ \A s : i \notin Seen(s)
       /\ \A s \in Replicas \ {r} : Seen(s)' = Seen(s)
       /\ Seen(r)' = IF l < Limit THEN Seen(r) \cup {i} ELSE Seen(r)
       /\ \A s : \A j \in Seen(s) : req'[j] = req[j]
  <2>1. \A s : i \notin Seen(s)
    BY <1>1 DEF Seen, New
  <2>2. \A s : \A j \in Seen(s) : j \in Requests \ {i} /\ req'[j] = req[j]
    BY <1>7, <2>1 DEF Seen
  <2>3. /\ req'[i].at = "shadowed" /\ req'[i].replica = r
        /\ req'[i].allowed <=> l < Limit
    BY <1>7, Shadowed
  <2>4. ASSUME NEW s \in Replicas, NEW j \in Requests
        PROVE  j \in Seen(s)' <=> j \in Seen(s) \/ (j = i /\ s = r /\ l < Limit)
    <3>1. CASE j = i
      BY <2>1, <2>3, <3>1 DEF Seen
    <3>2. CASE j # i
      <4>1. req'[j] = req[j]
        BY <1>7, <3>2
      <4>2. QED
        BY <3>2, <4>1 DEF Seen
    <3>3. QED
      BY <3>1, <3>2
  <2>5. \A s : Seen(s) \subseteq Requests /\ Seen(s)' \subseteq Requests
    BY DEF Seen, Requests
  <2>6. \A s \in Replicas \ {r} : Seen(s)' = Seen(s)
    BY <2>4, <2>5
  <2>7. Seen(r)' = IF l < Limit THEN Seen(r) \cup {i} ELSE Seen(r)
    <3>1. CASE l < Limit
      BY <2>4, <2>5, <3>1
    <3>2. CASE ~(l < Limit)
      BY <2>4, <2>5, <3>2
    <3>3. QED
      BY <3>1, <3>2
  <2>8. QED
    BY <2>1, <2>2, <2>6, <2>7
<1>11. \A s \in Replicas : \A j \in Seen(s) : req[j].arrived \in Nat /\ req[j].arrived <= c
  BY <1>6 DEF SInv, Past
<1>12. ASSUME NEW s \in Replicas \ {r}
       PROVE  /\ \A j \in Seen(s)' : req'[j].arrived \in Nat /\ req'[j].arrived <= clock'
              /\ \E g : HasHit(s, g)'
              /\ \A t \in Times : Cardinality(Within(s, t)') <= Limit
  <2>1. Seen(s)' \subseteq Seen(s) /\ \A j \in Seen(s)' : req'[j].arrived = req[j].arrived
    BY <1>10
  <2>2. hits'[s] = hits[s] /\ clock \in Nat /\ clock' \in Nat /\ clock' >= clock
    BY <1>6, <1>9
  <2>3. QED
    BY <2>1, <2>2, SeenShrinks
<1>13. \A j \in Seen(r)' : req'[j].arrived \in Nat /\ req'[j].arrived <= clock'
  BY <1>6, <1>7, <1>10, <1>11
<1>14. \E g : HasHit(r, g)'
  <2> DEFINE g == [j \in Requests |-> IF j = i THEN l + 1 ELSE f[j] - n]
  <2>1. g \in [Requests -> Int] /\ g[i] = l + 1 /\ \A j \in Requests \ {i} : g[j] = f[j] - n
    BY <1>2, <1>5 DEF HasHit
  <2> HIDE DEF g
  <2>2. Fresh(r)' \subseteq Fresh(r) \cup {i} /\ i \notin Fresh(r) /\ Fresh(r) \subseteq Requests
        /\ (i \in Fresh(r)' => l < Limit)
    <3>1. Seen(r)' \subseteq Seen(r) \cup {i} /\ i \notin Seen(r) /\ (i \in Seen(r)' => l < Limit)
      BY <1>10
    <3>2. ASSUME NEW j \in Fresh(r)', j # i
          PROVE  j \in Fresh(r)
      <4>1. j \in Seen(r) /\ req'[j].arrived + Window > clock'
        BY <3>1, <3>2 DEF Fresh
      <4>2. req'[j] = req[j]
        BY <1>10, <4>1
      <4>3. QED
        BY <1>6, <4>1, <4>2 DEF Fresh
    <3>3. Fresh(r)' \subseteq Seen(r)' /\ Fresh(r) \subseteq Seen(r) /\ Seen(r) \subseteq Requests
      BY DEF Fresh, Seen
    <3>4. QED
      BY <3>1, <3>2, <3>3
  <2>3. Len(h) \in Nat /\ Len(h) >= l /\ \A k \in 1..l : h[k] = q[k]
    BY <1>4, <1>8, AppendProperties
  <2>4. l < Limit => Len(h) = l + 1 /\ h[l + 1] = c
    BY <1>4, <1>8, AppendProperties
  <2>5. ASSUME NEW j \in Fresh(r)
        PROVE  /\ g[j] \in 1..l /\ g[j] \in 1..Len(h)
               /\ h[g[j]] = req'[j].arrived /\ f[j] \in Int /\ g[j] = f[j] - n
    <3>1. j \in Requests \ {i} /\ req'[j] = req[j]
      BY <1>10, <2>2 DEF Fresh
    <3>2. g[j] \in 1..l /\ q[g[j]] = req[j].arrived /\ f[j] \in Int
      BY <1>2, <1>5, <2>1, <3>1 DEF HasHit
    <3>3. QED
      BY <2>1, <2>3, <3>1, <3>2
  <2>6. ASSUME NEW j \in Fresh(r)'
        PROVE  g[j] \in 1..Len(h) /\ h[g[j]] = req'[j].arrived
    <3>1. CASE j = i
      <4>1. req'[i].arrived = c
        BY <1>7
      <4>2. QED
        BY <2>1, <2>2, <2>4, <3>1, <4>1
    <3>2. CASE j # i
      BY <2>2, <2>5, <3>2
    <3>3. QED
      BY <3>1, <3>2
  <2>7. ASSUME NEW j \in Fresh(r)', NEW k \in Fresh(r)', g[j] = g[k]
        PROVE  j = k
    <3>1. CASE j = i \/ k = i
      BY <2>1, <2>2, <2>5, <2>7, <3>1
    <3>2. CASE j # i /\ k # i
      <4>1. j \in Fresh(r) /\ k \in Fresh(r)
        BY <2>2, <3>2
      <4>2. f[j] = f[k]
        BY <1>5, <2>5, <2>7, <4>1
      <4>3. QED
        BY <1>2, <4>1, <4>2 DEF HasHit
    <3>3. QED
      BY <3>1, <3>2
  <2>8. HasHit(r, g)'
    BY <1>9, <2>1, <2>6, <2>7 DEF HasHit
  <2>9. QED
    BY <2>8
<1>15. ASSUME NEW t \in Times
       PROVE  Cardinality(Within(r, t)') <= Limit
  <2>1. Within(r, t)' \subseteq Within(r, t) \cup {i}
    BY <1>7, <1>10 DEF Within
  <2>2. /\ IsFiniteSet(Within(r, t)) /\ Cardinality(Within(r, t)) \in Nat
        /\ Cardinality(Within(r, t)) <= Limit
        /\ Within(r, t) \subseteq Requests
    BY SeenFinite DEF Within, Seen, SInv, WithinBounded
  <2>3. CASE i \notin Within(r, t)'
    <3>1. Within(r, t)' \subseteq Within(r, t)
      BY <2>1, <2>3
    <3>2. Cardinality(Within(r, t)') \in Nat
          /\ Cardinality(Within(r, t)') <= Cardinality(Within(r, t))
      BY <2>2, <3>1, FS_Subset, FS_CardinalityType
    <3>3. QED
      BY <2>2, <3>2, LimitAssumption
  <2>4. CASE i \in Within(r, t)'
    <3>1. l < Limit /\ c <= t /\ t \in Nat
      BY <1>7, <1>10, <2>4 DEF Within, Times
    <3>2. Within(r, t) \subseteq Fresh(r)
      <4>1. ASSUME NEW j \in Seen(r), t < req[j].arrived + Window
            PROVE  req[j].arrived + Window > clock
        BY <1>6, <1>11, <3>1, <4>1, LimitAssumption
      <4>2. QED
        BY <4>1 DEF Within, Fresh
    <3>3. IsFiniteSet(Fresh(r)) /\ Cardinality(Fresh(r)) \in Nat
      BY SeenFinite DEF Fresh, Seen
    <3>4. Cardinality(Within(r, t)) <= l
      <4>1. Cardinality(Within(r, t)) <= Cardinality(Fresh(r))
        BY <3>2, <3>3, FS_Subset
      <4>2. QED
        BY <1>5, <2>2, <3>3, <4>1
    <3>5. /\ IsFiniteSet(Within(r, t) \cup {i})
          /\ Cardinality(Within(r, t) \cup {i}) <= Cardinality(Within(r, t)) + 1
          /\ Cardinality(Within(r, t) \cup {i}) \in Nat
      <4> DEFINE W == Within(r, t)
      <4>1. IsFiniteSet(W) /\ Cardinality(W) \in Nat
        BY <2>2
      <4> HIDE DEF W
      <4>2. /\ IsFiniteSet(W \cup {i})
            /\ Cardinality(W \cup {i}) = IF i \in W THEN Cardinality(W) ELSE Cardinality(W) + 1
        BY <4>1, FS_AddElement
      <4>3. IsFiniteSet(W \cup {i}) /\ Cardinality(W \cup {i}) <= Cardinality(W) + 1
            /\ Cardinality(W \cup {i}) \in Nat
        BY <4>1, <4>2
      <4>4. QED
        BY <4>3 DEF W
    <3>6. Cardinality(Within(r, t)') <= Cardinality(Within(r, t) \cup {i})
          /\ Cardinality(Within(r, t)') \in Nat
      BY <2>1, <3>5, FS_Subset, FS_CardinalityType
    <3>7. QED
      BY <2>2, <3>1, <3>4, <3>5, <3>6, LimitAssumption
  <2>5. QED
    BY <2>3, <2>4
<1>16. Past' /\ Recorded'
  BY <1>12, <1>13, <1>14 DEF Past, Recorded
<1>17. WithinBounded'
  BY <1>12, <1>15 DEF WithinBounded, Times
<1>18. QED
  BY <1>9, <1>16, <1>17 DEF SInv

LEMMA RestartSlides ==
  ASSUME SInv, Typed, NEW r \in Replicas, Restart(r)
  PROVE  SInv'
<1>1. UNCHANGED clock /\ clock \in Nat
  BY DEF Restart, Typed, Times
<1>2. /\ hits \in [Replicas -> Seq(Nat)] /\ hits' \in [Replicas -> Seq(Nat)]
      /\ \A s \in Replicas \ {r} : hits'[s] = hits[s]
  BY DEF SInv, Restart
<1>3. ASSUME NEW i \in Requests
      PROVE  \/ req'[i] = req[i] /\ (req[i].at \in {"new", "lost"} \/ req[i].replica # r)
             \/ req'[i].at = "lost"
             \/ req'[i].replica = Nowhere
  <2>1. req[i] \in RequestStates
    BY DEF Typed
  <2>2. CASE req[i] = New \/ req[i].at = "lost"
    BY <2>2 DEF Restart, New
  <2>3. CASE req[i] # New /\ req[i].at # "lost" /\ req[i].replica # r
    BY <2>3 DEF Restart
  <2>4. CASE req[i] # New /\ req[i].at # "lost" /\ req[i].replica = r /\ InFlight(i)
    BY <2>4 DEF Restart
  <2>5. CASE req[i] # New /\ req[i].at # "lost" /\ req[i].replica = r /\ ~InFlight(i)
    <3>1. req[i] \in [at : {"answered"}, replica : Replicas \cup {Nowhere}, arrived : Times,
                      allowed : BOOLEAN, window : Windows \cup {NoWindow}]
      BY <2>1, <2>5 DEF RequestStates, InFlight, New
    <3>2. QED
      BY <2>5, <3>1 DEF Restart
  <2>6. QED
    BY <2>2, <2>3, <2>4, <2>5
<1>4. ASSUME NEW s \in Replicas, NEW i \in Seen(s)'
      PROVE  s # r /\ i \in Seen(s) /\ req'[i].arrived = req[i].arrived
  BY <1>3, ReplicasAssumption DEF Seen
<1>5. \A s \in Replicas : /\ Seen(s)' \subseteq Seen(s)
                          /\ \A i \in Seen(s)' : req'[i].arrived = req[i].arrived
                          /\ hits'[s] = hits[s] \/ Seen(s)' = {}
  BY <1>2, <1>4
<1>6. QED
  BY <1>1, <1>2, <1>5, SlidingQuiet

LEMMA SlidingStep ==
  ASSUME SInv, Typed, [Next]_vars
  PROVE  SInv'
<1>1. clock \in Nat /\ hits \in [Replicas -> Seq(Nat)]
  BY DEF Typed, Times, SInv
<1>2. CASE UNCHANGED vars
  BY <1>1, <1>2, SlidingQuiet DEF vars, Seen
<1>3. CASE Tick
  <2>1. UNCHANGED <<hits, req>> /\ clock' \in Nat /\ clock' >= clock
    BY <1>1, <1>3 DEF Tick
  <2>2. QED
    BY <1>1, <2>1, SlidingQuiet DEF Seen
<1>4. ASSUME NEW i \in Requests, Send(i)
      PROVE  SInv'
  BY <1>4, SlidingMoves DEF Send
<1>5. ASSUME NEW i \in Requests, Run(i)
      PROVE  SInv'
  BY <1>5, SlidingMoves DEF Run
<1>6. ASSUME NEW i \in Requests, Reply(i)
      PROVE  SInv'
  BY <1>6, SlidingMoves DEF Reply, Answer, BothAllow
<1>7. ASSUME NEW i \in Requests, FallBack(i)
      PROVE  SInv'
  BY <1>7, SlidingMoves DEF FallBack, InFlight, Answer
<1>8. QED
  BY <1>2, <1>3, <1>4, <1>5, <1>6, <1>7, ArriveSlides, RestartSlides DEF Next

\* Whatever becomes of each call to Redis, a replica admits no more than the
\* limit of the requests that arrive at it in any stretch as long as the
\* window.
THEOREM ReplicaLimits == Spec => []ReplicaBound
<1>1. IInv => Typed
  BY DEF IInv
<1>2. SInv /\ Typed /\ [Next]_vars => SInv'
  BY SlidingStep
<1>3. SInv => ReplicaBound
  <2>1. ASSUME SInv, NEW r \in Replicas, NEW t \in Times
        PROVE  Cardinality({i \in Admitted : /\ req[i].replica = r
                                             /\ req[i].arrived <= t
                                             /\ t < req[i].arrived + Window}) <= Limit
    <3> DEFINE A == {i \in Admitted : /\ req[i].replica = r
                                      /\ req[i].arrived <= t /\ t < req[i].arrived + Window}
    <3>1. A \subseteq Within(r, t)
      BY DEF Admitted, Within, Seen
    <3>2. /\ IsFiniteSet(Within(r, t)) /\ Cardinality(Within(r, t)) \in Nat
          /\ Cardinality(Within(r, t)) <= Limit
      BY <2>1, SeenFinite DEF Within, Seen, SInv, WithinBounded
    <3> HIDE DEF A
    <3>3. Cardinality(A) \in Nat /\ Cardinality(A) <= Cardinality(Within(r, t))
      BY <3>1, <3>2, FS_Subset, FS_CardinalityType
    <3>4. Cardinality(A) <= Limit
      BY <3>2, <3>3, LimitAssumption
    <3>5. QED
      BY <3>4 DEF A
  <2>2. QED
    BY <2>1 DEF ReplicaBound
<1>4. QED
  BY <1>1, <1>2, <1>3, SlidingInit, Invariance, PTL DEF Spec
====
