------------------------ MODULE StreamHistoryProofs ------------------------
(***************************************************************************)
(* Identity and stores of StreamHistory, for any writers, reconnects,      *)
(* replicas, capacity and number of faults; what a store holds while       *)
(* nothing has failed; and what a reply selects from it.                   *)
(***************************************************************************)
EXTENDS StreamHistory, SequenceTheorems, FiniteSetTheorems, TLAPS

(***************************************************************************)
(* The inductive invariant.                                                *)
(***************************************************************************)
\* The number of the next event fits the stage of its handler.
Numbered ==
  \A w \in Writers :
    /\ pc[w] \in {"new", "admitted", "refused"} => seq[w] = 1
    /\ pc[w] = "streaming" => seq[w] \in 2..(MaxTokens + 2)
    /\ pc[w] = "finishing" => seq[w] \in 2..MaxId

\* A handler at work has emitted something; what it emitted has numbers below
\* its next, and after its last word it is closed.
Emitted ==
  /\ \A w \in Writers : pc[w] \in {"streaming", "finishing"} => \E i \in Positions : log[i].by = w
  /\ \A i \in Positions : /\ log[i].id < seq[log[i].by]
                          /\ log[i].kind \in LastWords => pc[log[i].by] = "closed"

\* Without a fault the store of an event is not empty.
Kept ==
  faults = 0 =>
    \A i \in Positions : IF shared THEN redis # <<>> ELSE local[ReplicaOf[log[i].by]] # <<>>

\* A stream numbers its events upwards, and says nothing after its last word.
NumbersUpwards ==
  \A i, j \in Positions :
    i < j /\ log[i].by = log[j].by => log[i].id < log[j].id /\ log[i].kind \notin LastWords

\* Each store holds events in the order in which they were emitted, none twice.
Upwards(s) == \A a, b \in 1..Len(s) : a < b => s[a] < s[b]
StoresInOrder == Upwards(Reverse(redis)) /\ \A p \in Replicas : Upwards(local[p])

IInv ==
  /\ TypeOK
  /\ Numbered /\ Emitted /\ Kept /\ NumbersUpwards /\ StoresInOrder

(***************************************************************************)
(* Stores.                                                                 *)
(***************************************************************************)
LEMMA Reversed ==
  ASSUME NEW S, NEW s \in Seq(S)
  PROVE  /\ Reverse(s) \in Seq(S) /\ Len(Reverse(s)) = Len(s)
         /\ \A i \in 1..Len(s) : Reverse(s)[i] = s[Len(s) - i + 1]
         /\ Reverse(s) = <<>> <=> s = <<>>
<1>1. Len(s) \in Nat /\ \A i \in 1..Len(s) : s[i] \in S /\ Len(s) - i + 1 \in 1..Len(s)
  BY LenProperties, ElementOfSeq
<1>2. Reverse(s) \in [1..Len(s) -> S]
  BY <1>1 DEF Reverse
<1>3. Reverse(s) \in Seq(S) /\ Len(Reverse(s)) = Len(s)
  BY <1>1, <1>2, IsASeq, LenProperties
<1>4. \A i \in 1..Len(s) : Reverse(s)[i] = s[Len(s) - i + 1]
  BY DEF Reverse
<1>5. QED
  BY <1>3, <1>4, EmptySeq

LEMMA TrimKeeps ==
  ASSUME NEW S, NEW s \in Seq(S)
  PROVE  /\ Trimmed(s) \in Seq(S) /\ Len(Trimmed(s)) <= MaxLen
         /\ Len(Trimmed(s)) <= Len(s)
         /\ \A i \in 1..Len(Trimmed(s)) : Trimmed(s)[i] = s[i]
         /\ s # <<>> => Trimmed(s) # <<>>
<1> DEFINE n == IF Len(s) < MaxLen THEN Len(s) ELSE MaxLen
<1>1. Len(s) \in Nat /\ MaxLen \in Nat \ {0} /\ \A i \in 1..Len(s) : s[i] \in S
  BY LenProperties, ElementOfSeq, HistoryAssumption
<1>2. n \in Nat /\ n <= Len(s) /\ n <= MaxLen /\ (Len(s) # 0 => n # 0)
  BY <1>1
<1>3. \A i \in 1..n : s[i] \in S
  BY <1>1, <1>2
<1> HIDE DEF n
<1>4. /\ SubSeq(s, 1, n) \in Seq(S)
      /\ Len(SubSeq(s, 1, n)) = IF 1 <= n THEN n - 1 + 1 ELSE 0
      /\ \A i \in 1..(n - 1 + 1) : SubSeq(s, 1, n)[i] = s[1 + i - 1]
  BY <1>2, <1>3, SubSeqProperties
<1>5. Len(SubSeq(s, 1, n)) = n /\ \A i \in 1..n : SubSeq(s, 1, n)[i] = s[i]
  BY <1>2, <1>4
<1>6. Trimmed(s) = SubSeq(s, 1, n)
  BY DEF Trimmed, n
<1>7. s # <<>> => Len(s) # 0
  BY EmptySeq
<1>8. QED
  BY <1>2, <1>4, <1>5, <1>6, <1>7, EmptySeq

\* A new position at the new end of a list that is kept newest first.
Downwards(s) == \A a, b \in 1..Len(s) : a < b => s[a] > s[b]

LEMMA PushKeeps ==
  ASSUME NEW n \in Nat, NEW s \in Seq(1..n), Downwards(s)
  PROVE  LET t == Trimmed(<<n + 1>> \o s) IN
         /\ t \in Seq(1..(n + 1)) /\ Len(t) <= MaxLen /\ t # <<>>
         /\ Downwards(t)
<1> DEFINE u == <<n + 1>> \o s
<1>1. s \in Seq(1..(n + 1)) /\ Len(s) \in Nat
  BY SMT
<1>2. u \in Seq(1..(n + 1)) /\ Len(u) = Len(s) + 1 /\ u[1] = n + 1
      /\ \A i \in 2..Len(u) : u[i] = s[i - 1]
  BY <1>1, SMT
<1>3. u # <<>>
  BY <1>1, <1>2
<1>4. \A i \in 2..Len(u) : u[i] < n + 1
  BY <1>1, <1>2, ElementOfSeq
<1>5. ASSUME NEW a \in 1..Len(u), NEW b \in 1..Len(u), a < b
      PROVE  u[a] > u[b]
  <2>1. CASE a = 1
    BY <1>1, <1>2, <1>4, <1>5, <2>1
  <2>2. CASE a # 1
    <3>1. a - 1 \in 1..Len(s) /\ b - 1 \in 1..Len(s) /\ a - 1 < b - 1
      BY <1>1, <1>2, <1>5, <2>2
    <3>2. s[a - 1] > s[b - 1]
      BY <3>1 DEF Downwards
    <3>3. QED
      BY <1>1, <1>2, <1>5, <2>2, <3>2
  <2>3. QED
    BY <2>1, <2>2
<1> HIDE DEF u
<1>6. QED
  <2>1. /\ Trimmed(u) \in Seq(1..(n + 1)) /\ Len(Trimmed(u)) <= MaxLen
        /\ Len(Trimmed(u)) <= Len(u) /\ Trimmed(u) # <<>>
        /\ \A i \in 1..Len(Trimmed(u)) : Trimmed(u)[i] = u[i]
    BY <1>2, <1>3, TrimKeeps
  <2>2. Len(Trimmed(u)) \in Nat /\ Len(u) \in Nat
    BY <1>2, <2>1, LenProperties
  <2>3. Downwards(Trimmed(u))
    <3>1. ASSUME NEW a \in 1..Len(Trimmed(u)), NEW b \in 1..Len(Trimmed(u)), a < b
          PROVE  Trimmed(u)[a] > Trimmed(u)[b]
      BY <1>5, <2>1, <2>2, <3>1
    <3>2. QED
      BY <3>1 DEF Downwards
  <2>4. QED
    BY <2>1, <2>3 DEF u

\* Reversing a list exchanges the orders.
LEMMA OrderReversed ==
  ASSUME NEW n, NEW s \in Seq(1..n), n \in Nat
  PROVE  /\ Downwards(s) <=> Upwards(Reverse(s))
         /\ Upwards(s) <=> Downwards(Reverse(s))
<1>1. /\ Len(s) \in Nat /\ Len(Reverse(s)) = Len(s)
      /\ \A i \in 1..Len(s) : Reverse(s)[i] = s[Len(s) - i + 1]
      /\ \A i \in 1..Len(s) : s[i] \in Nat
  BY Reversed, LenProperties, ElementOfSeq
<1> DEFINE r == Reverse(s)
           l == Len(s)
<1>2. \A i \in 1..l : l - i + 1 \in 1..l /\ s[i] = r[l - i + 1] /\ r[i] = s[l - i + 1]
                      /\ r[i] \in Nat
  <2>1. ASSUME NEW i \in 1..l
        PROVE  l - i + 1 \in 1..l /\ l - (l - i + 1) + 1 = i
    BY <1>1
  <2>2. QED
    BY <1>1, <2>1
<1>3. \A a, b \in 1..l : a < b => l - b + 1 < l - a + 1
  BY <1>1
<1> HIDE DEF r, l
<1>4. ASSUME \A a, b \in 1..l : a < b => s[a] > s[b], NEW a \in 1..l, NEW b \in 1..l, a < b
      PROVE  r[a] < r[b]
  BY <1>2, <1>3, <1>4, <1>1 DEF l
<1>5. ASSUME \A a, b \in 1..l : a < b => r[a] < r[b], NEW a \in 1..l, NEW b \in 1..l, a < b
      PROVE  s[a] > s[b]
  BY <1>2, <1>3, <1>5
<1>6. ASSUME \A a, b \in 1..l : a < b => s[a] < s[b], NEW a \in 1..l, NEW b \in 1..l, a < b
      PROVE  r[a] > r[b]
  BY <1>2, <1>3, <1>6
<1>7. ASSUME \A a, b \in 1..l : a < b => r[a] > r[b], NEW a \in 1..l, NEW b \in 1..l, a < b
      PROVE  s[a] < s[b]
  BY <1>2, <1>3, <1>7
<1>8. QED
  BY <1>1, <1>4, <1>5, <1>6, <1>7 DEF Upwards, Downwards, r, l

LEMMA RememberKeeps ==
  ASSUME NEW n \in Nat, NEW s \in Seq(1..n), Upwards(s)
  PROVE  /\ Remembered(s, n + 1) \in Seq(1..(n + 1)) /\ Len(Remembered(s, n + 1)) <= MaxLen
         /\ Remembered(s, n + 1) # <<>> /\ Upwards(Remembered(s, n + 1))
<1> DEFINE t == Trimmed(<<n + 1>> \o Reverse(s))
<1>1. Reverse(s) \in Seq(1..n) /\ Downwards(Reverse(s))
  BY Reversed, OrderReversed
<1>2. t \in Seq(1..(n + 1)) /\ Len(t) <= MaxLen /\ t # <<>> /\ Downwards(t)
  BY <1>1, PushKeeps
<1>3. n + 1 \in Nat
  OBVIOUS
<1> HIDE DEF t
<1>4. /\ Reverse(t) \in Seq(1..(n + 1)) /\ Len(Reverse(t)) <= MaxLen
      /\ Reverse(t) # <<>>
  BY <1>2, Reversed
<1>5. Upwards(Reverse(t))
  <2> DEFINE m == n + 1
  <2>1. m \in Nat /\ t \in Seq(1..m)
    BY <1>2
  <2> HIDE DEF m
  <2>2. QED
    BY <1>2, <2>1, OrderReversed
<1>6. QED
  BY <1>4, <1>5 DEF Remembered, t

LEMMA EventTyped ==
  ASSUME TypeOK, NEW i \in Positions
  PROVE  log[i].by \in Writers /\ log[i].id \in 1..MaxId
<1>1. log[i] \in Events
  BY ElementOfSeq DEF TypeOK, Positions
<1>2. QED
  BY <1>1 DEF Events

LEMMA NothingOrdered == /\ Reverse(<<>>) = <<>> /\ Upwards(<<>>)
                        /\ \A S : <<>> \in Seq(S) /\ Len(<<>>) = 0
<1>1. \A S : <<>> \in Seq(S) /\ Len(<<>>) = 0
  BY EmptySeq
<1>2. <<>> \in Seq({}) /\ Len(<<>>) = 0
  BY <1>1
<1>3. Reverse(<<>>) = <<>>
  BY <1>2, Reversed
<1>4. Upwards(<<>>)
  BY <1>2 DEF Upwards
<1>5. QED
  BY <1>1, <1>3, <1>4

(***************************************************************************)
(* Steps.                                                                  *)
(***************************************************************************)
LEMMA InvInit == Init => IInv
<1> SUFFICES ASSUME Init PROVE IInv
  OBVIOUS
<1>1. MaxLen \in Nat /\ MaxTokens \in Nat /\ MaxFaults \in Nat /\ Positions = {}
  BY HistoryAssumption, NothingOrdered DEF Init, Positions
<1>2. TypeOK
  BY <1>1, NothingOrdered DEF Init, TypeOK, MaxId
<1>3. Numbered /\ Emitted /\ Kept /\ NumbersUpwards /\ StoresInOrder
  BY <1>1, NothingOrdered DEF Init, Numbered, Emitted, Kept, NumbersUpwards, StoresInOrder
<1>4. QED
  BY <1>2, <1>3 DEF IInv

\* A step that emits nothing: handlers give up or are decided upon, and stores
\* are lost, which is a fault if it empties the one that is used.
LEMMA QuietKeeps ==
  ASSUME IInv, UNCHANGED <<shared, seq, log>>,
         TypeOK', redis' \in {redis, <<>>}, \A p \in Replicas : local'[p] \in {local[p], <<>>},
         \A w \in Writers : \/ pc'[w] = pc[w]
                            \/ pc[w] = "new" /\ pc'[w] \in {"admitted", "refused"}
                            \/ pc'[w] = "closed",
         faults' = 0 => faults = 0 /\ IF shared THEN redis' = redis ELSE local' = local
  PROVE  IInv'
<1>1. Positions' = Positions
  BY DEF Positions
<1>2. Numbered'
  BY DEF IInv, Numbered
<1>3. Emitted'
  <2>1. ASSUME NEW w \in Writers, pc'[w] \in {"streaming", "finishing"}
        PROVE  \E i \in Positions : log[i].by = w
    BY <2>1 DEF IInv, Emitted
  <2>2. ASSUME NEW i \in Positions
        PROVE  log[i].by \in Writers
    BY EventTyped DEF IInv
  <2>3. ASSUME NEW i \in Positions, log[i].kind \in LastWords
        PROVE  pc'[log[i].by] = "closed"
    BY <2>2, <2>3 DEF IInv, Emitted
  <2>4. QED
    BY <1>1, <2>1, <2>3 DEF IInv, Emitted
<1>4. Kept'
  BY <1>1 DEF IInv, Kept
<1>5. NumbersUpwards'
  BY <1>1 DEF IInv, NumbersUpwards
<1>6. StoresInOrder'
  BY NothingOrdered DEF IInv, StoresInOrder
<1>7. QED
  BY <1>2, <1>3, <1>4, <1>5, <1>6 DEF IInv

\* The event goes to a store, in order.
LEMMA StoreKeeps ==
  ASSUME IInv, NEW w \in Writers, seq[w] \in 1..MaxId,
         NEW kind \in {"start", "token", "usage"} \cup LastWords, Store(w, kind)
  PROVE  LET n == Len(log) IN
         /\ n \in Nat /\ Positions' = 1..(n + 1)
         /\ log' \in Seq(Events)
         /\ log'[n + 1] = [by |-> w, id |-> seq[w], kind |-> kind]
         /\ \A i \in 1..n : log'[i] = log[i]
         /\ redis' \in Seq(Positions') /\ Len(redis') <= MaxLen
         /\ local' \in [Replicas -> Seq(Positions')]
         /\ \A p \in Replicas : Len(local'[p]) <= MaxLen
         /\ faults' \in 0..MaxFaults /\ UNCHANGED <<shared, last, readerVars>>
         /\ StoresInOrder' /\ Kept'
<1> DEFINE n == Len(log)
           e == [by |-> w, id |-> seq[w], kind |-> kind]
           P == 1..n
           Q == 1..(n + 1)
<1>1. log \in Seq(Events) /\ n \in Nat /\ e \in Events
  BY LenProperties DEF IInv, TypeOK, Events
<1>2. log' = Append(log, e) /\ UNCHANGED <<shared, last, readerVars>>
  BY DEF Store
<1>3. /\ log' \in Seq(Events) /\ Len(log') = n + 1
      /\ log'[n + 1] = e /\ \A i \in 1..n : log'[i] = log[i]
  BY <1>1, <1>2, AppendProperties
<1>4. Positions = P /\ Positions' = Q
  BY <1>3 DEF Positions
<1> HIDE DEF n, e
<1>5. \A s : s \in Seq(P) => s \in Seq(Q)
  <2> SUFFICES ASSUME NEW s \in Seq(P) PROVE s \in Seq(Q)
    OBVIOUS
  <2>1. P \subseteq Q
    BY <1>1
  <2>2. \A i \in 1..Len(s) : s[i] \in Q
    BY <2>1, ElementOfSeq
  <2>3. s \in [1..Len(s) -> P] /\ Len(s) \in Nat
    BY LenProperties
  <2>4. s \in [1..Len(s) -> Q]
    BY <2>2, <2>3
  <2> HIDE DEF P, Q
  <2>5. QED
    BY <2>3, <2>4
<1>6. /\ redis \in Seq(P) /\ Len(redis) <= MaxLen /\ Downwards(redis)
      /\ \A p \in Replicas : local[p] \in Seq(P) /\ Len(local[p]) <= MaxLen /\ Upwards(local[p])
      /\ local \in [Replicas -> Seq(P)]
      /\ Upwards(Reverse(redis))
  BY <1>1, <1>4, OrderReversed DEF IInv, TypeOK, StoresInOrder
<1> DEFINE R == Trimmed(Pushed(n + 1))
<1>7. R \in Seq(Q) /\ Len(R) <= MaxLen /\ R # <<>> /\ Upwards(Reverse(R))
  <2>1. R \in Seq(Q) /\ Len(R) <= MaxLen /\ R # <<>> /\ Downwards(R)
    BY <1>1, <1>6, PushKeeps DEF Pushed
  <2>2. PICK m \in Nat : m = n + 1 /\ Q = 1..m
    BY <1>1
  <2> HIDE DEF R, Q
  <2>3. Upwards(Reverse(R))
    BY <2>1, <2>2, OrderReversed
  <2>4. QED
    BY <2>1, <2>3
<1> DEFINE p0 == ReplicaOf[w]
           M == Remembered(local[p0], n + 1)
<1>8. p0 \in Replicas
  BY HistoryAssumption
<1>9. M \in Seq(Q) /\ Len(M) <= MaxLen /\ M # <<>> /\ Upwards(M)
  BY <1>1, <1>6, <1>8, RememberKeeps
<1>10. \/ shared /\ redis' = R /\ UNCHANGED <<local, faults>>
       \/ /\ IF shared THEN redis' \in {redis, R} /\ faults + 1 <= MaxFaults /\ faults' = faults + 1
                       ELSE UNCHANGED <<redis, faults>>
          /\ local' = [local EXCEPT ![p0] = M]
  BY DEF Store, Failed, n
<1> HIDE DEF R, M, Q, p0, P
<1>11. faults' \in 0..MaxFaults /\ (faults' = 0 => faults = 0 /\ (shared => redis' = R))
  <2>1. faults \in 0..MaxFaults /\ MaxFaults \in Nat
    BY HistoryAssumption DEF IInv, TypeOK
  <2>2. QED
    BY <1>10, <2>1
<1>12. redis' \in Seq(Q) /\ Len(redis') <= MaxLen /\ Upwards(Reverse(redis'))
  BY <1>5, <1>6, <1>7, <1>10
<1>13. /\ local' \in [Replicas -> Seq(Q)]
       /\ \A p \in Replicas : Len(local'[p]) <= MaxLen /\ Upwards(local'[p])
  BY <1>5, <1>6, <1>8, <1>9, <1>10
<1>14. Kept'
  <2> SUFFICES ASSUME faults' = 0, NEW i \in Q
               PROVE  IF shared THEN redis' # <<>> ELSE local'[ReplicaOf[log'[i].by]] # <<>>
    BY <1>2, <1>4 DEF Kept
  <2>1. CASE shared
    BY <1>7, <1>11, <2>1
  <2>2. CASE ~shared
    <3>1. local' = [local EXCEPT ![p0] = M]
      BY <1>10, <2>2
    <3>2. CASE i = n + 1
      <4>1. ReplicaOf[log'[i].by] = p0
        BY <1>3, <3>2 DEF e, p0
      <4>2. QED
        BY <1>6, <1>8, <1>9, <2>2, <3>1, <4>1
    <3>3. CASE i # n + 1
      <4>1. i \in 1..n /\ i \in Positions
        BY <1>1, <1>4, <3>3 DEF P, Q
      <4>2. log'[i] = log[i]
        BY <1>3, <4>1
      <4>3. local[ReplicaOf[log[i].by]] # <<>>
        BY <1>11, <2>2, <4>1 DEF IInv, Kept
      <4>4. ReplicaOf[log[i].by] \in Replicas
        <5>1. log[i].by \in Writers
          BY <4>1, EventTyped DEF IInv
        <5>2. QED
          BY <5>1, HistoryAssumption
      <4>5. QED
        BY <1>6, <1>9, <2>2, <3>1, <4>2, <4>3, <4>4
    <3>4. QED
      BY <3>2, <3>3
  <2>3. QED
    BY <2>1, <2>2
<1>15. StoresInOrder'
  BY <1>12, <1>13 DEF StoresInOrder
<1>16. QED
  BY <1>1, <1>2, <1>3, <1>4, <1>11, <1>12, <1>13, <1>14, <1>15 DEF n, e, Q

\* A handler emits: its number and stage move on, and a last word closes it.
LEMMA EmitKeeps ==
  ASSUME IInv, NEW w \in Writers, NEW kind \in {"start", "token", "usage"} \cup LastWords,
         NEW m \in 1..(MaxId + 1), NEW at \in {"streaming", "finishing", "closed"},
         seq[w] \in 1..MaxId, seq[w] < m, pc[w] # "closed", Store(w, kind),
         seq' = [seq EXCEPT ![w] = m], pc' = [pc EXCEPT ![w] = at],
         kind \in LastWords => at = "closed",
         at = "streaming" => m <= MaxTokens + 2,
         at = "finishing" => m <= MaxId
  PROVE  IInv'
<1> DEFINE n == Len(log)
<1>1. /\ n \in Nat /\ Positions = 1..n /\ Positions' = 1..(n + 1)
      /\ log' \in Seq(Events)
      /\ log'[n + 1] = [by |-> w, id |-> seq[w], kind |-> kind]
      /\ \A i \in 1..n : log'[i] = log[i]
      /\ redis' \in Seq(Positions') /\ Len(redis') <= MaxLen
      /\ local' \in [Replicas -> Seq(Positions')]
      /\ \A p \in Replicas : Len(local'[p]) <= MaxLen
      /\ faults' \in 0..MaxFaults /\ UNCHANGED <<shared, last, readerVars>>
      /\ StoresInOrder' /\ Kept'
  BY StoreKeeps DEF Positions
<1> HIDE DEF n
<1>2. /\ pc \in [Writers -> {"new", "admitted", "refused", "streaming", "finishing", "closed"}]
      /\ seq \in [Writers -> 1..(MaxId + 1)]
  BY DEF IInv, TypeOK
<1>3. \A i \in 1..n : log[i].by \in Writers /\ log[i].id \in 1..MaxId
  BY <1>1, EventTyped DEF IInv
<1>4. /\ \A i \in 1..n : /\ log[i].id < seq[log[i].by]
                         /\ log[i].kind \in LastWords => pc[log[i].by] = "closed"
      /\ \A i, j \in 1..n : i < j /\ log[i].by = log[j].by =>
           log[i].id < log[j].id /\ log[i].kind \notin LastWords
      /\ \A x \in Writers : pc[x] \in {"streaming", "finishing"} => \E i \in 1..n : log[i].by = x
  BY <1>1 DEF IInv, Emitted, NumbersUpwards
<1>5. MaxTokens \in Nat /\ MaxId = MaxTokens + 4
  BY HistoryAssumption DEF MaxId
<1>6. TypeOK'
  <2>1. /\ pc' \in [Writers -> {"new", "admitted", "refused", "streaming", "finishing", "closed"}]
        /\ seq' \in [Writers -> 1..(MaxId + 1)]
    BY <1>2
  <2>2. QED
    BY <1>1, <2>1 DEF IInv, TypeOK, readerVars
<1>7. Numbered'
  <2>1. pc'[w] = at /\ seq'[w] = m /\ seq[w] \in Nat /\ m \in Nat /\ m >= 2
    BY <1>2, <1>5
  <2>2. /\ pc'[w] \in {"new", "admitted", "refused"} => seq'[w] = 1
        /\ pc'[w] = "streaming" => seq'[w] \in 2..(MaxTokens + 2)
        /\ pc'[w] = "finishing" => seq'[w] \in 2..MaxId
    BY <1>5, <2>1
  <2>3. \A x \in Writers \ {w} : pc'[x] = pc[x] /\ seq'[x] = seq[x]
    BY <1>2
  <2>4. QED
    BY <2>2, <2>3 DEF IInv, Numbered
<1>8. \A i \in 1..n : log'[i] = log[i] /\ seq[log[i].by] <= seq'[log[i].by]
                      /\ (log[i].kind \in LastWords => pc'[log[i].by] = "closed")
  <2> SUFFICES ASSUME NEW i \in 1..n
               PROVE  /\ seq[log[i].by] <= seq'[log[i].by]
                      /\ log[i].kind \in LastWords => pc'[log[i].by] = "closed"
    BY <1>1
  <2>1. CASE log[i].by = w
    BY <1>2, <1>4, <1>5, <2>1
  <2>2. CASE log[i].by # w
    BY <1>2, <1>3, <1>4, <1>5, <2>2
  <2>3. QED
    BY <2>1, <2>2
<1>9. Emitted'
  <2>1. ASSUME NEW x \in Writers, pc'[x] \in {"streaming", "finishing"}
        PROVE  \E i \in 1..(n + 1) : log'[i].by = x
    <3>1. CASE x = w
      BY <1>1, <3>1
    <3>2. CASE x # w
      <4>1. pc[x] \in {"streaming", "finishing"}
        BY <1>2, <2>1, <3>2
      <4>2. PICK i \in 1..n : log[i].by = x
        BY <1>4, <4>1
      <4>3. i \in 1..(n + 1) /\ log'[i].by = x
        BY <1>1, <4>2
      <4>4. QED
        BY <4>3
    <3>3. QED
      BY <3>1, <3>2
  <2>2. ASSUME NEW i \in 1..(n + 1)
        PROVE  /\ log'[i].id < seq'[log'[i].by]
               /\ log'[i].kind \in LastWords => pc'[log'[i].by] = "closed"
    <3>1. CASE i = n + 1
      BY <1>1, <1>2, <3>1
    <3>2. CASE i # n + 1
      <4>1. i \in 1..n
        BY <1>1, <3>2
      <4>2. /\ log'[i] = log[i] /\ log[i].id < seq[log[i].by]
            /\ seq[log[i].by] <= seq'[log[i].by]
            /\ log[i].kind \in LastWords => pc'[log[i].by] = "closed"
        BY <1>4, <1>8, <4>1
      <4>3. log[i].id \in Nat /\ seq[log[i].by] \in Nat /\ seq'[log[i].by] \in Nat
        BY <1>2, <1>3, <1>5, <4>1
      <4>4. QED
        BY <4>2, <4>3
    <3>3. QED
      BY <3>1, <3>2
  <2>3. QED
    BY <1>1, <2>1, <2>2 DEF Emitted
<1>10. NumbersUpwards'
  <2> SUFFICES ASSUME NEW i \in 1..(n + 1), NEW j \in 1..(n + 1), i < j, log'[i].by = log'[j].by
               PROVE  log'[i].id < log'[j].id /\ log'[i].kind \notin LastWords
    BY <1>1 DEF NumbersUpwards
  <2> n \in Nat
    BY <1>1
  <2>1. i \in 1..n /\ log'[i] = log[i]
    <3>1. i \in 1..n
      OBVIOUS
    <3>2. QED
      BY <1>1, <3>1
  <2>2. CASE j = n + 1
    <3>1. log[i].by = w /\ log'[j].id = seq[w]
      BY <1>1, <2>1, <2>2
    <3>2. log[i].id < seq[w] /\ log[i].kind \notin LastWords
      BY <1>4, <2>1, <3>1
    <3>3. QED
      BY <2>1, <3>1, <3>2
  <2>3. CASE j # n + 1
    <3>1. j \in 1..n
      BY <2>3
    <3>2. log'[j] = log[j]
      BY <1>1, <3>1
    <3>3. QED
      BY <1>4, <2>1, <3>1, <3>2
  <2>4. QED
    BY <2>2, <2>3
<1>11. QED
  BY <1>1, <1>6, <1>7, <1>9, <1>10 DEF IInv

\* What a handler at work emits.
LEMMA HandlerKeeps ==
  ASSUME IInv, NEW w \in Writers, Start(w) \/ Token(w) \/ Usage(w) \/ Done(w) \/ Fail(w)
  PROVE  IInv'
<1>1. /\ MaxTokens \in Nat /\ MaxId = MaxTokens + 4
      /\ pc \in [Writers -> {"new", "admitted", "refused", "streaming", "finishing", "closed"}]
      /\ seq \in [Writers -> 1..(MaxId + 1)]
  BY HistoryAssumption DEF MaxId, IInv, TypeOK
<1>2. /\ pc[w] = "admitted" => seq[w] = 1
      /\ pc[w] = "streaming" => seq[w] \in 2..(MaxTokens + 2)
      /\ pc[w] = "finishing" => seq[w] \in 2..MaxId
  BY DEF IInv, Numbered
<1>3. CASE Start(w)
  <2>1. /\ pc[w] = "admitted" /\ Store(w, "start") /\ pc' = [pc EXCEPT ![w] = "streaming"]
        /\ seq' = [seq EXCEPT ![w] = 2]
    BY <1>1, <1>2, <1>3 DEF Start, Goto, Emit
  <2>2. 2 \in 1..(MaxId + 1) /\ seq[w] \in 1..MaxId /\ seq[w] < 2 /\ 2 <= MaxTokens + 2
    BY <1>1, <1>2, <2>1
  <2>3. QED
    BY <2>1, <2>2, EmitKeeps DEF LastWords
<1>4. CASE Token(w)
  <2>1. PICK m \in Nat : m = seq[w] + 1
    BY <1>1
  <2>2. /\ pc[w] = "streaming" /\ Store(w, "token") /\ pc' = [pc EXCEPT ![w] = "streaming"]
        /\ seq' = [seq EXCEPT ![w] = m] /\ seq[w] < MaxTokens + 2
    BY <1>1, <1>4, <2>1 DEF Token, Emit
  <2>3. m \in 1..(MaxId + 1) /\ seq[w] \in 1..MaxId /\ seq[w] < m /\ m <= MaxTokens + 2
    BY <1>1, <1>2, <2>1, <2>2
  <2>4. QED
    BY <2>2, <2>3, EmitKeeps DEF LastWords
<1>5. CASE Usage(w)
  <2>1. PICK m \in Nat : m = seq[w] + 2
    BY <1>1
  <2>2. /\ pc[w] = "streaming" /\ Store(w, "usage") /\ pc' = [pc EXCEPT ![w] = "finishing"]
        /\ seq' = [seq EXCEPT ![w] = m]
    BY <1>1, <1>5, <2>1 DEF Usage, Goto
  <2>3. m \in 1..(MaxId + 1) /\ seq[w] \in 1..MaxId /\ seq[w] < m /\ m <= MaxId
    BY <1>1, <1>2, <2>1, <2>2
  <2>4. QED
    BY <2>2, <2>3, EmitKeeps DEF LastWords
<1>6. CASE Done(w) \/ Fail(w)
  <2>1. PICK m \in Nat : m = seq[w] + 1
    BY <1>1
  <2>2. PICK kind \in LastWords :
          /\ pc[w] \in {"streaming", "finishing"} /\ Store(w, kind)
          /\ pc' = [pc EXCEPT ![w] = "closed"] /\ seq' = [seq EXCEPT ![w] = m]
    BY <1>1, <1>6, <2>1 DEF Done, Fail, Goto, Emit, LastWords
  <2>3. m \in 1..(MaxId + 1) /\ seq[w] \in 1..MaxId /\ seq[w] < m
    BY <1>1, <1>2, <2>1, <2>2
  <2>4. QED
    BY <2>2, <2>3, EmitKeeps
<1>7. QED
  BY <1>3, <1>4, <1>5, <1>6

\* What a reading finds.
LEMMA ReadingFinds ==
  ASSUME IInv, NEW p \in Replicas, NEW r \in Readings(p), Failed(r.failed)
  PROVE  /\ faults' \in 0..MaxFaults /\ (faults' = 0 => faults = 0)
         /\ faults' = 0 /\ r.events = <<>> =>
              IF shared THEN redis = <<>> ELSE local[p] = <<>>
<1>1. faults \in 0..MaxFaults /\ MaxFaults \in Nat /\ r.failed \in {0, 1}
  BY HistoryAssumption DEF IInv, TypeOK, Readings
<1>2. faults + r.failed <= MaxFaults /\ faults' = faults + r.failed
  BY DEF Failed
<1>3. faults' \in 0..MaxFaults /\ (faults' = 0 => faults = 0 /\ r.failed = 0)
  BY <1>1, <1>2
<1>4. ASSUME r.failed = 0, r.events = <<>>
      PROVE  IF shared THEN redis = <<>> ELSE local[p] = <<>>
  <2>1. r.events = (IF shared THEN Reverse(redis) ELSE local[p])
    BY <1>4 DEF Readings
  <2>2. QED
    BY <1>4, <2>1, Reversed DEF IInv, TypeOK
<1>5. QED
  BY <1>3, <1>4

\* What leaves the log alone.
LEMMA OthersKeep ==
  ASSUME IInv,
         \/ \E w \in Writers : Resolve(w) \/ GiveUp(w) \/ Drop(w)
         \/ \E c \in Reconnects : Lookup(c) \/ Replay(c)
         \/ Expire \/ \E p \in Replicas : Restart(p)
  PROVE  IInv'
<1>1. TypeOK /\ MaxFaults \in Nat /\ faults \in 0..MaxFaults
  BY HistoryAssumption DEF IInv, TypeOK
<1>2. ASSUME NEW w \in Writers, Resolve(w)
      PROVE  IInv'
  <2>1. PICK r \in Readings(ReplicaOf[w]) :
          Goto(w, IF r.events = <<>> THEN "admitted" ELSE "refused") /\ Failed(r.failed)
    BY <1>2 DEF Resolve
  <2>2. faults' \in 0..MaxFaults /\ (faults' = 0 => faults = 0)
    BY <2>1, HistoryAssumption, ReadingFinds
  <2>3. TypeOK'
    BY <1>1, <1>2, <2>1, <2>2 DEF TypeOK, Resolve, Goto, readerVars, Positions
  <2>4. \A x \in Writers : pc'[x] = pc[x] \/ (pc[x] = "new" /\ pc'[x] \in {"admitted", "refused"})
    BY <1>1, <1>2, <2>1 DEF TypeOK, Resolve, Goto
  <2>5. QED
    BY <1>2, <2>2, <2>3, <2>4, QuietKeeps DEF Resolve
<1>3. ASSUME NEW w \in Writers, GiveUp(w) \/ Drop(w)
      PROVE  IInv'
  <2>1. TypeOK'
    BY <1>1, <1>3 DEF TypeOK, GiveUp, Drop, Goto, readerVars, Positions
  <2>2. \A x \in Writers : pc'[x] = pc[x] \/ pc'[x] = "closed"
    BY <1>1, <1>3 DEF TypeOK, GiveUp, Drop, Goto
  <2>3. QED
    BY <1>3, <2>1, <2>2, QuietKeeps DEF GiveUp, Drop
<1>4. ASSUME NEW c \in Reconnects, Lookup(c)
      PROVE  IInv'
  <2>1. PICK r \in Readings(ReplicaOf[c]) :
          /\ status' = [status EXCEPT ![c] = IF r.events = <<>> THEN "unknown" ELSE "known"]
          /\ Failed(r.failed)
    BY <1>4 DEF Lookup
  <2>2. faults' \in 0..MaxFaults /\ (faults' = 0 => faults = 0)
    BY <2>1, HistoryAssumption, ReadingFinds
  <2>3. TypeOK'
    BY <1>1, <1>4, <2>1, <2>2 DEF TypeOK, Lookup, writerVars, Positions
  <2>4. QED
    BY <1>4, <2>2, <2>3, QuietKeeps DEF Lookup, writerVars
<1>5. ASSUME NEW c \in Reconnects, Replay(c)
      PROVE  IInv'
  <2>1. PICK r \in Readings(ReplicaOf[c]) : Failed(r.failed)
    BY <1>5 DEF Replay
  <2>2. faults' \in 0..MaxFaults /\ (faults' = 0 => faults = 0)
    BY <2>1, HistoryAssumption, ReadingFinds
  <2>3. TypeOK'
    BY <1>1, <1>5, <2>2 DEF TypeOK, Replay, writerVars, Positions
  <2>4. QED
    BY <1>5, <2>2, <2>3, QuietKeeps DEF Replay, writerVars
<1>6. ASSUME Expire
      PROVE  IInv'
  <2>1. faults' \in 0..MaxFaults /\ faults' # 0
    BY <1>1, <1>6 DEF Expire, Failed
  <2>2. TypeOK'
    BY <1>1, <1>6, <2>1, NothingOrdered, HistoryAssumption
    DEF TypeOK, Expire, writerVars, readerVars, Positions
  <2>3. QED
    BY <1>6, <2>1, <2>2, QuietKeeps DEF Expire, writerVars
<1>7. ASSUME NEW p \in Replicas, Restart(p)
      PROVE  IInv'
  <2>1. /\ faults' \in 0..MaxFaults
        /\ faults' = 0 => faults = 0 /\ shared
    BY <1>1, <1>7 DEF Restart, Failed, TypeOK
  <2>2. /\ local' \in [Replicas -> Seq(Positions)]
        /\ \A q \in Replicas : local'[q] \in {local[q], <<>>} /\ Len(local'[q]) <= MaxLen
    BY <1>1, <1>7, NothingOrdered, HistoryAssumption DEF TypeOK, Restart
  <2>3. TypeOK'
    BY <1>1, <1>7, <2>1, <2>2 DEF TypeOK, Restart, Positions
  <2>4. \A x \in Writers : pc'[x] = pc[x] \/ pc'[x] = "closed"
    BY <1>7 DEF Restart
  <2>5. QED
    BY <1>7, <2>1, <2>2, <2>3, <2>4, QuietKeeps DEF Restart
<1>8. QED
  BY <1>2, <1>3, <1>4, <1>5, <1>6, <1>7

LEMMA InvStep == IInv /\ [Next]_vars => IInv'
<1> SUFFICES ASSUME IInv, [Next]_vars PROVE IInv'
  OBVIOUS
<1>1. CASE UNCHANGED vars
  <2>1. TypeOK'
    BY <1>1 DEF vars, IInv, TypeOK, Positions
  <2>2. QED
    BY <1>1, <2>1, QuietKeeps DEF vars
<1>2. CASE Next
  BY <1>2, HandlerKeeps, OthersKeep DEF Next
<1>3. QED
  BY <1>1, <1>2

LEMMA Invariance == Spec => []IInv
BY InvInit, InvStep, PTL DEF Spec

(***************************************************************************)
(* Results                                                                 *)
(***************************************************************************)
\* Every variable keeps its type, and no store outgrows its capacity.
THEOREM HistoryTypeCorrect == Spec => []TypeOK
<1>1. IInv => TypeOK
  BY DEF IInv
<1>2. QED
  BY <1>1, Invariance, PTL

\* However calls fail, whoever shares the id and whatever is stored twice, each
\* store keeps its events in the order in which they were emitted, none twice.
THEOREM HistoryInOrder == Spec => []StoresInOrder
<1>1. IInv => StoresInOrder
  BY DEF IInv
<1>2. QED
  BY <1>1, Invariance, PTL

\* The events of one request carry ascending ids and end with its last word,
\* although the ids of two requests on one stream are mixed in the history.
THEOREM StreamNumbersUpwards == Spec => []NumbersUpwards
<1>1. IInv => NumbersUpwards
  BY DEF IInv
<1>2. QED
  BY <1>1, Invariance, PTL

\* As long as nothing has failed, no request is admitted to an id under which
\* another one already streams on the same store.
THEOREM StreamsKeptApart == Spec => LiveStreamNotJoined
<1> DEFINE Apart ==
      \A w, x \in Writers :
          (/\ pc[w] \in {"streaming", "finishing"}
           /\ pc[x] = "new" /\ pc'[x] = "admitted"
           /\ faults' = 0)
             => ~SameStore(w, x)
<1>1. ASSUME IInv, [Next]_vars PROVE Apart
  <2> SUFFICES ASSUME NEW w \in Writers, NEW x \in Writers,
                      pc[w] \in {"streaming", "finishing"},
                      pc[x] = "new", pc'[x] = "admitted", faults' = 0
               PROVE  ~SameStore(w, x)
    OBVIOUS
  <2>1. Resolve(x)
    <3>1. pc \in [Writers -> {"new", "admitted", "refused", "streaming", "finishing", "closed"}]
      BY <1>1 DEF IInv, TypeOK
    <3>2. \A y \in Writers : y # x => ~Resolve(y)
      BY <3>1 DEF Resolve, Goto
    <3>3. /\ \A y \in Writers : ~Start(y) /\ ~Usage(y) /\ ~Done(y) /\ ~Fail(y) /\ ~GiveUp(y) /\ ~Drop(y)
          /\ \A y \in Writers : ~Token(y)
      BY <3>1 DEF Start, Usage, Done, Fail, GiveUp, Drop, Token, Goto
    <3>4. /\ \A c \in Reconnects : ~Lookup(c) /\ ~Replay(c)
          /\ ~Expire /\ \A p \in Replicas : ~Restart(p)
      BY <3>1 DEF Lookup, Replay, Expire, Restart, writerVars
    <3>5. QED
      BY <1>1, <3>2, <3>3, <3>4 DEF Next, vars
  <2>2. PICK r \in Readings(ReplicaOf[x]) :
          Goto(x, IF r.events = <<>> THEN "admitted" ELSE "refused") /\ Failed(r.failed)
    BY <2>1 DEF Resolve
  <2>3. r.events = <<>>
    BY <1>1, <2>2 DEF Goto, IInv, TypeOK
  <2>4. /\ ReplicaOf[x] \in Replicas /\ faults = 0
        /\ IF shared THEN redis = <<>> ELSE local[ReplicaOf[x]] = <<>>
    BY <1>1, <2>2, <2>3, HistoryAssumption, ReadingFinds DEF IInv, TypeOK
  <2>5. PICK i \in Positions : log[i].by = w
    BY <1>1 DEF IInv, Emitted
  <2>6. IF shared THEN redis # <<>> ELSE local[ReplicaOf[w]] # <<>>
    BY <1>1, <2>4, <2>5 DEF IInv, Kept
  <2>7. QED
    BY <2>4, <2>6 DEF SameStore
<1>2. QED
  BY <1>1, Invariance, PTL DEF Spec, LiveStreamNotJoined

\* As long as nothing has failed, no reconnect is told that the stream is
\* unknown when an event of it was stored where it asks.
THEOREM ReconnectsServed == Spec => ReconnectIsServed
<1> DEFINE Served ==
      \A c \in Reconnects, w \in Writers :
          (/\ status[c] = "new" /\ status'[c] = "unknown"
           /\ faults' = 0
           /\ SameStore(w, c))
             => \A i \in Positions : log[i].by # w
<1>1. ASSUME IInv, [Next]_vars PROVE Served
  <2> SUFFICES ASSUME NEW c \in Reconnects, NEW w \in Writers, NEW i \in Positions,
                      status[c] = "new", status'[c] = "unknown", faults' = 0,
                      SameStore(w, c), log[i].by = w
               PROVE  FALSE
    OBVIOUS
  <2>1. Lookup(c)
    <3>1. status \in [Reconnects -> {"new", "known", "unknown", "answered", "cut"}]
      BY <1>1 DEF IInv, TypeOK
    <3>2. \A d \in Reconnects : (d # c => ~Lookup(d)) /\ ~Replay(d)
      BY <3>1 DEF Lookup, Replay
    <3>3. \A y \in Writers : /\ ~Resolve(y) /\ ~GiveUp(y) /\ ~Drop(y)
                             /\ ~Start(y) /\ ~Token(y) /\ ~Usage(y) /\ ~Done(y) /\ ~Fail(y)
      BY DEF Resolve, GiveUp, Drop, Start, Token, Usage, Done, Fail, Emit, Store, readerVars
    <3>4. ~Expire /\ \A p \in Replicas : ~Restart(p)
      BY <3>1 DEF Expire, Restart, readerVars
    <3>5. QED
      BY <1>1, <3>2, <3>3, <3>4 DEF Next, vars, readerVars
  <2>2. PICK r \in Readings(ReplicaOf[c]) :
          /\ status' = [status EXCEPT ![c] = IF r.events = <<>> THEN "unknown" ELSE "known"]
          /\ Failed(r.failed)
    BY <2>1 DEF Lookup
  <2>3. r.events = <<>>
    BY <1>1, <2>2 DEF IInv, TypeOK
  <2>4. /\ ReplicaOf[c] \in Replicas /\ faults = 0
        /\ IF shared THEN redis = <<>> ELSE local[ReplicaOf[c]] = <<>>
    BY <1>1, <2>2, <2>3, HistoryAssumption, ReadingFinds DEF IInv, TypeOK
  <2>5. IF shared THEN redis # <<>> ELSE local[ReplicaOf[w]] # <<>>
    BY <1>1, <2>4 DEF IInv, Kept
  <2>6. QED
    BY <2>4, <2>5 DEF SameStore
<1>2. QED
  BY <1>1, Invariance, PTL DEF Spec, ReconnectIsServed

(***************************************************************************)
(* What is selected from a list.                                           *)
(***************************************************************************)
\* Ranks number the members of a finite set of numbers upwards, from 1.
LEMMA RankNumbers ==
  ASSUME NEW K, K \subseteq Nat, IsFiniteSet(K)
  PROVE  /\ Cardinality(K) \in Nat
         /\ \A k \in K : Rank(K, k) \in 1..Cardinality(K)
         /\ \A j, k \in K : j < k => Rank(K, j) < Rank(K, k)
         /\ \A m \in 1..Cardinality(K) : \E k \in K : Rank(K, k) = m
<1> DEFINE UpTo(k) == {j \in K : j <= k}
<1>1. IsFiniteSet(K) /\ Cardinality(K) \in Nat
  BY FS_CardinalityType
<1>2. ASSUME NEW k \in K
      PROVE  /\ IsFiniteSet(UpTo(k)) /\ Cardinality(UpTo(k)) \in Nat
             /\ Cardinality(UpTo(k)) <= Cardinality(K) /\ Cardinality(UpTo(k)) # 0
  <2>1. UpTo(k) \in SUBSET K /\ k \in UpTo(k)
    OBVIOUS
  <2> HIDE DEF UpTo
  <2>2. IsFiniteSet(UpTo(k)) /\ Cardinality(UpTo(k)) <= Cardinality(K)
    BY <1>1, <2>1, FS_Subset
  <2>3. Cardinality(UpTo(k)) \in Nat /\ Cardinality(UpTo(k)) # 0
    BY <2>1, <2>2, FS_CardinalityType, FS_EmptySet
  <2>4. QED
    BY <2>2, <2>3
<1>3. ASSUME NEW j \in K, NEW k \in K, j < k
      PROVE  Cardinality(UpTo(j)) < Cardinality(UpTo(k))
  <2>1. UpTo(j) \in SUBSET UpTo(k) /\ k \in UpTo(k) /\ k \notin UpTo(j)
    <3>1. \A i \in K : i \in Nat /\ (i <= j => i <= k)
      BY <1>3
    <3>2. j \in Nat /\ k \in Nat
      BY <3>1
    <3>3. ~(k <= j)
      BY <1>3, <3>2
    <3>4. k \in UpTo(k)
      BY <3>2
    <3>5. k \notin UpTo(j)
      BY <3>3
    <3>6. \A i \in UpTo(j) : i \in UpTo(k)
      BY <3>1
    <3>7. QED
      BY <3>4, <3>5, <3>6
  <2> HIDE DEF UpTo
  <2>2. /\ Cardinality(UpTo(j)) <= Cardinality(UpTo(k))
        /\ Cardinality(UpTo(k)) = Cardinality(UpTo(j)) => UpTo(k) = UpTo(j)
    BY <1>2, <2>1, FS_Subset
  <2>3. QED
    BY <1>2, <2>1, <2>2
<1> DEFINE c == Cardinality(K)
           g == [k \in K |-> Rank(K, k)]
<1>4. \A k \in K : Rank(K, k) = Cardinality(UpTo(k))
  BY DEF Rank
<1> HIDE DEF UpTo
<1>5. \A k \in K : Rank(K, k) \in 1..c
  BY <1>1, <1>2, <1>4
<1>6. \A j, k \in K : j < k => Rank(K, j) < Rank(K, k)
  BY <1>3, <1>4
<1>7. g \in Injection(K, 1..c)
  <2>1. g \in [K -> 1..c]
    BY <1>5
  <2>2. \A j, k \in K : g[j] = g[k] => j = k
    BY <1>1, <1>5, <1>6
  <2> HIDE DEF g
  <2>3. QED
    BY <2>1, <2>2 DEF Injection, IsInjective
<1>8. IsFiniteSet(1..c) /\ Cardinality(1..c) = c
  <2>1. PICK d \in Nat : d = c
    BY <1>1
  <2>2. IsFiniteSet(1..d) /\ Cardinality(1..d) = IF 1 > d THEN 0 ELSE d - 1 + 1
    BY FS_Interval
  <2>3. Cardinality(1..d) = d
    BY <2>2
  <2>4. QED
    BY <2>1, <2>2, <2>3
<1>9. g \in Surjection(K, 1..c)
  <2> HIDE DEF g
  <2>1. QED
    BY <1>1, <1>7, <1>8, FS_Injection
<1>10. \A m \in 1..c : \E k \in K : g[k] = m
  <2> HIDE DEF g
  <2>1. QED
    BY <1>9 DEF Surjection
<1>11. QED
  BY <1>1, <1>5, <1>6, <1>10

\* A selection takes its elements at increasing indices of the set.
PicksUpwards(t, s, K) ==
  \E c \in Nat : \E f \in [1..c -> K] :
    /\ DOMAIN t = 1..c
    /\ \A m \in 1..c : t[m] = s[f[m]]
    /\ \A l, m \in 1..c : l < m => f[l] < f[m]

LEMMA SelectedIndices ==
  ASSUME NEW K, K \subseteq Nat, IsFiniteSet(K), NEW s
  PROVE  PicksUpwards(Selected(s, K), s, K)
<1> DEFINE c == Cardinality(K)
           At(m) == CHOOSE k \in K : Rank(K, k) = m
           f == [m \in 1..c |-> At(m)]
<1>1. /\ c \in Nat
      /\ \A k \in K : Rank(K, k) \in 1..c
      /\ \A j, k \in K : j < k => Rank(K, j) < Rank(K, k)
      /\ \A m \in 1..c : \E k \in K : Rank(K, k) = m
  BY RankNumbers
<1>2. \A m \in 1..c : At(m) \in K /\ Rank(K, At(m)) = m
  BY <1>1
<1>3. DOMAIN Selected(s, K) = 1..c /\ \A m \in 1..c : Selected(s, K)[m] = s[At(m)]
  BY DEF Selected
<1> HIDE DEF At, c
<1>4. f \in [1..c -> K] /\ \A m \in 1..c : f[m] = At(m)
  BY <1>2
<1> HIDE DEF f
<1>5. ASSUME NEW l \in 1..c, NEW m \in 1..c, l < m
      PROVE  f[l] < f[m]
  <2>1. f[l] \in K /\ f[m] \in K /\ Rank(K, f[l]) = l /\ Rank(K, f[m]) = m
    BY <1>2, <1>4
  <2>2. PICK i \in K, j \in K : i = f[l] /\ j = f[m]
    BY <2>1
  <2>3. Rank(K, i) = l /\ Rank(K, j) = m /\ l \in Nat /\ m \in Nat /\ i \in Nat /\ j \in Nat
    BY <2>1, <2>2, <1>1
  <2>4. i # j /\ ~(j < i)
    BY <1>1, <1>5, <2>3
  <2>5. QED
    BY <2>2, <2>3, <2>4
<1>6. QED
  BY <1>1, <1>3, <1>4, <1>5 DEF PicksUpwards

\* So what is selected from positions that ascend does, and is among them.
LEMMA SelectedAscends ==
  ASSUME NEW n \in Nat, NEW s \in Seq(1..n), Upwards(s), NEW K \in SUBSET DOMAIN s
  PROVE  /\ \A i, j \in DOMAIN Selected(s, K) : i < j => Selected(s, K)[i] < Selected(s, K)[j]
         /\ \A i \in DOMAIN Selected(s, K) : \E k \in K : Selected(s, K)[i] = s[k] /\ s[k] \in 1..n
<1>1. PICK l \in Nat : l = Len(s) /\ DOMAIN s = 1..l
  BY LenProperties
<1>2. /\ \A k \in 1..l : s[k] \in 1..n
      /\ \A a, b \in 1..l : a < b => s[a] < s[b]
  BY <1>1, ElementOfSeq DEF Upwards
<1>3. K \subseteq 1..l /\ K \subseteq Nat /\ IsFiniteSet(K)
  <2>1. K \subseteq 1..l /\ K \subseteq Nat
    BY <1>1
  <2>2. IsFiniteSet(1..l)
    BY <1>1, FS_Interval
  <2>3. QED
    BY <2>1, <2>2, FS_Subset
<1>4. PICK t : t = Selected(s, K)
  OBVIOUS
<1>5. PicksUpwards(t, s, K)
  BY <1>3, <1>4, SelectedIndices
<1>6. PICK c \in Nat : \E f \in [1..c -> K] :
        /\ DOMAIN t = 1..c
        /\ \A m \in 1..c : t[m] = s[f[m]]
        /\ \A i, m \in 1..c : i < m => f[i] < f[m]
  BY <1>5 DEF PicksUpwards
<1>7. PICK f \in [1..c -> K] :
        /\ DOMAIN t = 1..c
        /\ \A m \in 1..c : t[m] = s[f[m]]
        /\ \A i, m \in 1..c : i < m => f[i] < f[m]
  BY <1>6
<1>8. \A m \in 1..c : f[m] \in K /\ f[m] \in 1..l /\ t[m] = s[f[m]]
  BY <1>3, <1>7
<1>9. QED
  BY <1>2, <1>4, <1>7, <1>8

(***************************************************************************)
(* What a store holds while nothing has failed.                            *)
(***************************************************************************)
Held(n) == IF n < MaxLen THEN n ELSE MaxLen

\* The last of n positions, as many as a store keeps, newest first.
Newest(s, n) == Len(s) = Held(n) /\ \A i \in 1..Held(n) : s[i] = n - i + 1

\* Redis has lost nothing but what was trimmed; nor has the memory of a
\* replica on which all requests are.
NothingLost ==
  faults = 0 =>
    IF shared THEN Newest(redis, Len(log))
              ELSE \A p \in Replicas :
                     (\A i \in Positions : ReplicaOf[log[i].by] = p)
                        => Newest(Reverse(local[p]), Len(log))

\* Every reconnect has a reply.
RepliesKept == DOMAIN reply = Reconnects

LEMMA HeldBounds ==
  ASSUME NEW n \in Nat
  PROVE  /\ Held(n) \in 0..n /\ Held(n) <= MaxLen /\ Held(n + 1) \in {Held(n), Held(n) + 1}
         /\ Held(n + 1) <= Held(n) + 1 /\ Held(n + 1) >= 1 /\ Held(n + 1) \in Nat
BY HistoryAssumption DEF Held

\* A push keeps the newest.
LEMMA PushNewest ==
  ASSUME NEW n \in Nat, NEW s \in Seq(1..n), Newest(s, n)
  PROVE  Newest(Trimmed(<<n + 1>> \o s), n + 1)
<1> DEFINE u == <<n + 1>> \o s
           h == Held(n)
<1>1. Len(s) = h /\ h \in 0..n /\ \A i \in 1..h : s[i] = n - i + 1
  BY HeldBounds DEF Newest
<1>2. /\ u \in Seq(1..(n + 1)) /\ Len(u) = h + 1 /\ u[1] = n + 1
      /\ \A i \in 2..(h + 1) : u[i] = s[i - 1]
  <2>1. s \in Seq(1..(n + 1)) /\ Len(s) \in Nat
    BY SMT
  <2>2. u \in Seq(1..(n + 1)) /\ Len(u) = Len(s) + 1 /\ u[1] = n + 1
        /\ \A i \in 2..Len(u) : u[i] = s[i - 1]
    BY <2>1, SMT
  <2>3. QED
    BY <1>1, <2>2
<1> HIDE DEF u
<1>3. \A i \in 1..(h + 1) : u[i] = (n + 1) - i + 1
  <2> SUFFICES ASSUME NEW i \in 1..(h + 1) PROVE u[i] = (n + 1) - i + 1
    OBVIOUS
  <2>1. CASE i = 1
    BY <1>2, <2>1
  <2>2. CASE i # 1
    <3>1. i \in 2..(h + 1) /\ i - 1 \in 1..h
      BY <1>1, <2>2
    <3>2. u[i] = n - (i - 1) + 1
      BY <1>1, <1>2, <3>1
    <3>3. QED
      BY <3>1, <3>2
  <2>3. QED
    BY <2>1, <2>2
<1>4. /\ Len(Trimmed(u)) = Held(n + 1)
      /\ \A i \in 1..Held(n + 1) : i \in 1..(h + 1) /\ Trimmed(u)[i] = u[i]
  <2> DEFINE m == IF Len(u) < MaxLen THEN Len(u) ELSE MaxLen
  <2>1. m = Held(n + 1) /\ m \in Nat /\ m <= h + 1
    BY <1>1, <1>2, HistoryAssumption DEF Held
  <2>2. \A i \in 1..m : u[i] \in 1..(n + 1)
    <3>1. \A i \in 1..m : i \in 1..(h + 1)
      BY <1>1, <2>1
    <3>2. \A i \in 1..(h + 1) : u[i] \in 1..(n + 1)
      BY <1>1, <1>3
    <3>3. QED
      BY <3>1, <3>2
  <2>3. Trimmed(u) = SubSeq(u, 1, m)
    BY DEF Trimmed
  <2> HIDE DEF m
  <2>4. /\ Len(SubSeq(u, 1, m)) = IF 1 <= m THEN m - 1 + 1 ELSE 0
        /\ \A i \in 1..(m - 1 + 1) : SubSeq(u, 1, m)[i] = u[1 + i - 1]
    BY <2>1, <2>2, SubSeqProperties
  <2>5. Len(SubSeq(u, 1, m)) = m /\ \A i \in 1..m : SubSeq(u, 1, m)[i] = u[i]
    BY <2>1, <2>4
  <2>6. QED
    BY <1>1, <2>1, <2>3, <2>5
<1>5. QED
  BY <1>3, <1>4 DEF Newest, u

LEMMA ReversedTwice ==
  ASSUME NEW S, NEW s \in Seq(S)
  PROVE  Reverse(Reverse(s)) = s
<1>1. /\ Reverse(s) \in Seq(S) /\ Len(Reverse(s)) = Len(s)
      /\ \A i \in 1..Len(s) : Reverse(s)[i] = s[Len(s) - i + 1]
  BY Reversed
<1>2. /\ Reverse(Reverse(s)) \in Seq(S) /\ Len(Reverse(Reverse(s))) = Len(s)
      /\ \A i \in 1..Len(s) : Reverse(Reverse(s))[i] = Reverse(s)[Len(s) - i + 1]
  BY <1>1, Reversed
<1>3. \A i \in 1..Len(s) : Len(s) - i + 1 \in 1..Len(s) /\ Len(s) - (Len(s) - i + 1) + 1 = i
  BY LenProperties
<1>4. \A i \in 1..Len(s) : Reverse(Reverse(s))[i] = s[i]
  BY <1>1, <1>2, <1>3
<1>5. QED
  BY <1>2, <1>4, SeqEqual

\* Read oldest first, the newest are the window.
LEMMA NewestIsWindow ==
  ASSUME Len(log) \in Nat, NEW s \in Seq(Positions), Newest(s, Len(log))
  PROVE  Reverse(s) = Window
<1> DEFINE id == [i \in Positions |-> i]
<1>1. PICK n \in Nat : n = Len(log) /\ Positions = 1..n
  BY DEF Positions
<1>2. PICK h \in 0..n : h = Held(n) /\ (n < MaxLen => h = n) /\ (~(n < MaxLen) => h = MaxLen)
  BY HeldBounds DEF Held
<1>3. /\ Reverse(s) \in Seq(1..n) /\ Len(Reverse(s)) = h
      /\ \A i \in 1..h : Reverse(s)[i] = s[h - i + 1]
      /\ \A i \in 1..h : s[i] = n - i + 1
  <2>1. s \in Seq(1..n) /\ Len(s) = h /\ \A i \in 1..h : s[i] = n - i + 1
    BY <1>1, <1>2 DEF Newest
  <2>2. /\ Reverse(s) \in Seq(1..n) /\ Len(Reverse(s)) = Len(s)
        /\ \A i \in 1..Len(s) : Reverse(s)[i] = s[Len(s) - i + 1]
    BY <2>1, Reversed
  <2>3. QED
    BY <2>1, <2>2
<1>4. \A i \in 1..h : Reverse(s)[i] = n - h + i
  <2> SUFFICES ASSUME NEW i \in 1..h PROVE Reverse(s)[i] = n - h + i
    OBVIOUS
  <2>1. h - i + 1 \in 1..h
    OBVIOUS
  <2>2. Reverse(s)[i] = n - (h - i + 1) + 1
    BY <1>3, <2>1
  <2>3. QED
    BY <2>2
<1>5. PICK a \in Int : a = (IF n < MaxLen THEN 1 ELSE n - MaxLen + 1) /\ a = n - h + 1
  BY <1>2, HistoryAssumption
<1>6. Window = SubSeq(id, a, n)
  BY <1>1, <1>5 DEF Window
<1>7. \A k \in a..n : id[k] = k /\ id[k] \in 1..n
  BY <1>1, <1>2, <1>5
<1> HIDE DEF id
<1>8. /\ SubSeq(id, a, n) \in Seq(1..n)
      /\ Len(SubSeq(id, a, n)) = IF a <= n THEN n - a + 1 ELSE 0
      /\ \A i \in 1..(n - a + 1) : SubSeq(id, a, n)[i] = id[a + i - 1]
  BY <1>7, SubSeqProperties
<1>9. /\ Window \in Seq(1..n) /\ Len(Window) = h
      /\ \A i \in 1..h : Window[i] = n - h + i
  <2>1. n - a + 1 = h /\ h \in Nat
    BY <1>5
  <2>2. \A i \in 1..h : a + i - 1 = n - h + i /\ a + i - 1 \in a..n
    BY <1>5
  <2>3. Len(Window) = h
    BY <1>5, <1>6, <1>8, <2>1
  <2>4. ASSUME NEW i \in 1..h PROVE Window[i] = n - h + i
    <3>1. Window[i] = id[a + i - 1]
      BY <1>6, <1>8, <2>1
    <3>2. QED
      BY <1>7, <2>2, <3>1
  <2>5. QED
    BY <1>6, <1>8, <2>3, <2>4
<1>10. \A i \in 1..h : Reverse(s)[i] = Window[i]
  BY <1>4, <1>9
<1>11. QED
  BY <1>3, <1>9, <1>10, SeqEqual

(***************************************************************************)
(* Nothing is lost without a fault.                                        *)
(***************************************************************************)
\* What a handler at work does is one event more, before its last word.
LEMMA HandlerEmits ==
  ASSUME IInv, NEW w \in Writers, Start(w) \/ Token(w) \/ Usage(w) \/ Done(w) \/ Fail(w)
  PROVE  /\ seq[w] \in 1..MaxId /\ pc[w] # "closed"
         /\ \E kind \in {"start", "token", "usage"} \cup LastWords : Store(w, kind)
<1>1. /\ MaxTokens \in Nat /\ MaxId = MaxTokens + 4
      /\ seq \in [Writers -> 1..(MaxId + 1)]
  BY HistoryAssumption DEF MaxId, IInv, TypeOK
<1>2. /\ pc[w] = "admitted" => seq[w] = 1
      /\ pc[w] = "streaming" => seq[w] \in 2..(MaxTokens + 2)
      /\ pc[w] = "finishing" => seq[w] \in 2..MaxId
  BY DEF IInv, Numbered
<1>3. pc[w] \in {"admitted", "streaming", "finishing"}
  BY DEF Start, Token, Usage, Done, Fail
<1>4. seq[w] \in 1..MaxId
  BY <1>1, <1>2, <1>3
<1>5. \E kind \in {"start", "token", "usage"} \cup LastWords : Store(w, kind)
  BY DEF Start, Token, Usage, Done, Fail, Emit, LastWords
<1>6. QED
  BY <1>3, <1>4, <1>5

LEMMA StoreLosesNothing ==
  ASSUME IInv, NothingLost, NEW w \in Writers, seq[w] \in 1..MaxId,
         NEW kind \in {"start", "token", "usage"} \cup LastWords, Store(w, kind)
  PROVE  NothingLost'
<1>1. PICK n \in Nat : n = Len(log) /\ Positions = 1..n
  BY LenProperties DEF IInv, TypeOK, Positions
<1> DEFINE p0 == ReplicaOf[w]
           M == Remembered(local[p0], n + 1)
<1>2. /\ Positions' = 1..(n + 1) /\ log' = Append(log, [by |-> w, id |-> seq[w], kind |-> kind])
      /\ log'[n + 1].by = w /\ \A i \in 1..n : log'[i] = log[i]
      /\ shared' = shared
  BY <1>1, StoreKeeps DEF Store
<1>3. Len(log') = n + 1
  BY <1>1, <1>2, AppendProperties DEF IInv, TypeOK, Events
<1>4. redis \in Seq(1..n) /\ local \in [Replicas -> Seq(1..n)] /\ p0 \in Replicas
  BY <1>1, HistoryAssumption DEF IInv, TypeOK
<1>5. /\ faults' = 0 => faults = 0
      /\ faults' = 0 /\ shared => redis' = Trimmed(<<n + 1>> \o redis)
      /\ ~shared => local' = [local EXCEPT ![p0] = M]
  BY <1>1, HistoryAssumption DEF Store, Failed, Pushed, IInv, TypeOK
<1> SUFFICES ASSUME faults' = 0
             PROVE  IF shared THEN Newest(redis', n + 1)
                              ELSE \A p \in Replicas :
                                     (\A i \in 1..(n + 1) : ReplicaOf[log'[i].by] = p)
                                        => Newest(Reverse(local'[p]), n + 1)
  BY <1>2, <1>3 DEF NothingLost, Newest
<1>6. CASE shared
  <2>1. Newest(redis, n)
    BY <1>1, <1>5, <1>6 DEF NothingLost
  <2>2. QED
    BY <1>4, <1>5, <1>6, <2>1, PushNewest
<1>7. CASE ~shared
  <2> SUFFICES ASSUME NEW p \in Replicas, \A i \in 1..(n + 1) : ReplicaOf[log'[i].by] = p
               PROVE  Newest(Reverse(local'[p]), n + 1)
    BY <1>7
  <2>1. p = p0
    BY <1>2
  <2>2. \A i \in Positions : ReplicaOf[log[i].by] = p
    <3>1. \A i \in 1..n : i \in 1..(n + 1)
      OBVIOUS
    <3>2. QED
      BY <1>1, <1>2, <3>1
  <2>3. Newest(Reverse(local[p]), n)
    BY <1>1, <1>5, <1>7, <2>2 DEF NothingLost
  <2> DEFINE t == Trimmed(<<n + 1>> \o Reverse(local[p]))
  <2>4. Reverse(local[p]) \in Seq(1..n)
    BY <1>4, Reversed
  <2>5. Newest(t, n + 1)
    BY <2>3, <2>4, PushNewest
  <2>6. t \in Seq(1..(n + 1))
    <3>1. <<n + 1>> \o Reverse(local[p]) \in Seq(1..(n + 1))
      <4>1. PICK r \in Seq(1..n) : r = Reverse(local[p])
        BY <2>4
      <4>2. r \in Seq(1..(n + 1))
        BY SMT
      <4>3. <<n + 1>> \o r \in Seq(1..(n + 1))
        BY <4>2, SMT
      <4>4. QED
        BY <4>1, <4>3
    <3>2. QED
      BY <3>1, TrimKeeps
  <2>7. local'[p] = Reverse(t)
    BY <1>4, <1>5, <1>7, <2>1 DEF Remembered
  <2> HIDE DEF t
  <2>8. QED
    BY <2>5, <2>6, <2>7, ReversedTwice
<1>8. QED
  BY <1>6, <1>7

\* The other steps leave the log alone, and lose what is in use only by a fault.
LEMMA OthersLoseByFault ==
  ASSUME IInv,
         \/ \E w \in Writers : Resolve(w) \/ GiveUp(w) \/ Drop(w)
         \/ \E c \in Reconnects : Lookup(c) \/ Replay(c)
         \/ Expire \/ \E p \in Replicas : Restart(p)
  PROVE  /\ UNCHANGED <<shared, log>>
         /\ faults' = 0 => faults = 0 /\ IF shared THEN redis' = redis ELSE local' = local
<1>1. faults \in 0..MaxFaults /\ MaxFaults \in Nat
  BY HistoryAssumption DEF IInv, TypeOK
<1>2. CASE \E w \in Writers : Resolve(w)
  BY <1>2, HistoryAssumption, ReadingFinds DEF Resolve
<1>3. CASE \E w \in Writers : GiveUp(w) \/ Drop(w)
  BY <1>3 DEF GiveUp, Drop
<1>4. CASE \E c \in Reconnects : Lookup(c) \/ Replay(c)
  BY <1>4, HistoryAssumption, ReadingFinds DEF Lookup, Replay
<1>5. CASE Expire
  BY <1>1, <1>5 DEF Expire, Failed
<1>6. CASE \E p \in Replicas : Restart(p)
  BY <1>1, <1>6 DEF Restart, Failed
<1>7. QED
  BY <1>2, <1>3, <1>4, <1>5, <1>6

LEMMA NothingLostInit == Init => NothingLost /\ RepliesKept
<1> SUFFICES ASSUME Init PROVE NothingLost /\ RepliesKept
  OBVIOUS
<1>1. Len(log) = 0 /\ Held(0) = 0
  BY NothingOrdered, HistoryAssumption DEF Init, Held
<1>2. Newest(redis, 0) /\ \A p \in Replicas : Newest(Reverse(local[p]), 0)
  BY <1>1, NothingOrdered DEF Init, Newest
<1>3. QED
  BY <1>1, <1>2 DEF NothingLost, RepliesKept, Init

LEMMA NothingLostStep == IInv /\ NothingLost /\ RepliesKept /\ [Next]_vars => NothingLost' /\ RepliesKept'
<1> SUFFICES ASSUME IInv, NothingLost, RepliesKept, [Next]_vars PROVE NothingLost' /\ RepliesKept'
  OBVIOUS
<1>1. NothingLost'
  <2>1. ASSUME UNCHANGED <<shared, log>>,
               faults' = 0 => faults = 0 /\ IF shared THEN redis' = redis ELSE local' = local
        PROVE  NothingLost'
    BY <2>1 DEF NothingLost, Newest, Positions
  <2>2. CASE UNCHANGED vars
    BY <2>1, <2>2 DEF vars
  <2>3. CASE \E w \in Writers : Start(w) \/ Token(w) \/ Usage(w) \/ Done(w) \/ Fail(w)
    BY <2>3, HandlerEmits, StoreLosesNothing
  <2>4. QED
    BY <2>1, <2>2, <2>3, OthersLoseByFault DEF Next
<1>2. RepliesKept'
  <2>1. \A c \in Reconnects : Replay(c) => DOMAIN reply' = DOMAIN reply
    BY DEF Replay
  <2>2. \/ UNCHANGED reply \/ \E c \in Reconnects : Replay(c)
    BY DEF Next, vars, Resolve, GiveUp, Drop, Start, Token, Usage, Done, Fail, Emit, Store,
           Lookup, Expire, Restart, readerVars
  <2>3. QED
    BY <2>1, <2>2 DEF RepliesKept
<1>3. QED
  BY <1>1, <1>2

LEMMA NothingLostInvariance == Spec => [](IInv /\ NothingLost /\ RepliesKept)
BY InvInit, InvStep, NothingLostInit, NothingLostStep, PTL DEF Spec

\* A step that answers a reconnect is its replay.
LEMMA AnswersReplay ==
  ASSUME IInv, [Next]_vars, NEW c \in Reconnects, status[c] # "answered", status'[c] = "answered"
  PROVE  Replay(c)
<1>1. status \in [Reconnects -> {"new", "known", "unknown", "answered", "cut"}]
  BY DEF IInv, TypeOK
<1>2. \A d \in Reconnects : ~Lookup(d) /\ (d # c => ~Replay(d))
  BY <1>1 DEF Lookup, Replay
<1>3. \A w \in Writers : /\ ~Resolve(w) /\ ~GiveUp(w) /\ ~Drop(w)
                         /\ ~Start(w) /\ ~Token(w) /\ ~Usage(w) /\ ~Done(w) /\ ~Fail(w)
  BY DEF Resolve, GiveUp, Drop, Start, Token, Usage, Done, Fail, Emit, Store, readerVars
<1>4. ~Expire /\ \A p \in Replicas : ~Restart(p)
  BY <1>1 DEF Expire, Restart, readerVars
<1>5. QED
  BY <1>2, <1>3, <1>4 DEF Next, vars, readerVars

\* As long as nothing has failed, a replay has every event above the last one
\* seen that a store has room for, in order, whoever streams, reconnects or
\* restarts meanwhile.
THEOREM RepliesComplete == Spec => ReplayComplete
<1> DEFINE Complete ==
      \A c \in Reconnects :
          (/\ status[c] = "known" /\ status'[c] = "answered"
           /\ faults' = 0
           /\ \A i \in Positions : SameStore(log[i].by, c))
             => reply'[c] = Above(c, Window)
<1>1. ASSUME IInv, NothingLost, RepliesKept, [Next]_vars PROVE Complete
  <2> SUFFICES ASSUME NEW c \in Reconnects, status[c] = "known", status'[c] = "answered",
                      faults' = 0, \A i \in Positions : SameStore(log[i].by, c)
               PROVE  reply'[c] = Above(c, Window)
    OBVIOUS
  <2> DEFINE p == ReplicaOf[c]
  <2>1. PICK r \in Readings(p) : reply' = [reply EXCEPT ![c] = Above(c, r.events)] /\ Failed(r.failed)
    BY <1>1, AnswersReplay DEF Replay
  <2>2. /\ p \in Replicas /\ Len(log) \in Nat /\ redis \in Seq(Positions)
        /\ local \in [Replicas -> Seq(Positions)]
    BY <1>1, HistoryAssumption, LenProperties DEF IInv, TypeOK
  <2>3. r.failed = 0 /\ faults = 0
    <3>1. r.failed \in {0, 1} /\ faults \in 0..MaxFaults /\ MaxFaults \in Nat
      BY <1>1, HistoryAssumption DEF IInv, TypeOK, Readings
    <3>2. QED
      BY <2>1, <3>1 DEF Failed
  <2>4. CASE shared
    <3>1. r.events = Reverse(redis)
      BY <2>3, <2>4 DEF Readings
    <3>2. Newest(redis, Len(log))
      BY <1>1, <2>3, <2>4 DEF NothingLost
    <3>3. Reverse(redis) = Window
      BY <2>2, <3>2, NewestIsWindow
    <3>4. QED
      BY <1>1, <2>1, <3>1, <3>3 DEF RepliesKept
  <2>5. CASE ~shared
    <3>1. r.events = local[p]
      BY <2>5 DEF Readings
    <3>2. Newest(Reverse(local[p]), Len(log))
      BY <1>1, <2>2, <2>3, <2>5 DEF NothingLost, SameStore
    <3>3. local[p] \in Seq(Positions)
      BY <2>2
    <3>4. Reverse(local[p]) \in Seq(Positions) /\ Reverse(Reverse(local[p])) = local[p]
      BY <3>3, Reversed, ReversedTwice
    <3>5. Reverse(Reverse(local[p])) = Window
      BY <2>2, <3>2, <3>4, NewestIsWindow
    <3>6. QED
      BY <1>1, <2>1, <3>1, <3>4, <3>5 DEF RepliesKept
  <2>6. QED
    BY <2>4, <2>5
<1>2. QED
  BY <1>1, NothingLostInvariance, PTL DEF Spec, ReplayComplete

(***************************************************************************)
(* The abstract log.                                                       *)
(***************************************************************************)
\* What the log maps to answered.
Answered == {c \in Reconnects : status[c] = "answered"}

LEMMA EmitRefines ==
  ASSUME IInv, NEW w \in Writers, Start(w) \/ Token(w) \/ Usage(w) \/ Done(w) \/ Fail(w)
  PROVE  Log!Next
<1>1. PICK kind \in {"start", "token", "usage"} \cup LastWords : Store(w, kind)
  BY HandlerEmits
<1>2. seq[w] \in 1..MaxId /\ pc[w] # "closed"
  BY HandlerEmits
<1>3. DOMAIN log = Positions /\ kind \in Log!Kinds /\ Log!Terminal = LastWords
  BY LenProperties DEF IInv, TypeOK, Positions, Log!Kinds, Log!Terminal, LastWords
<1>4. \A i \in Positions : log[i].by = w => log[i].id < seq[w] /\ log[i].kind \notin LastWords
  BY <1>2 DEF IInv, Emitted
<1>5. Log!Emit(w, seq[w], kind)
  BY <1>1, <1>3, <1>4 DEF Log!Emit, Store, readerVars
<1>6. QED
  BY <1>2, <1>3, <1>5 DEF Log!Next

LEMMA LookupRefines ==
  ASSUME IInv, NEW c \in Reconnects, Lookup(c)
  PROVE  Log!Next
<1>1. PICK id \in 0..MaxId : last' = [last EXCEPT ![c] = id]
  BY DEF Lookup
<1>2. /\ status[c] = "new" /\ log' = log /\ reply' = reply
      /\ \A d \in Reconnects : status'[d] = "answered" <=> status[d] = "answered"
  BY DEF Lookup, IInv, TypeOK
<1>3. Answered' = Answered /\ c \notin Answered
  BY <1>2 DEF Answered
<1>4. Log!Ask(c, id)
  BY <1>1, <1>2, <1>3 DEF Log!Ask, Answered
<1>5. QED
  BY <1>4 DEF Log!Next

\* What is selected from a reading ascends and is above what the client has seen.
LEMMA AnswerRefines ==
  ASSUME IInv, RepliesKept, NEW c \in Reconnects, Replay(c)
  PROVE  Log!Next
<1> DEFINE p == ReplicaOf[c]
<1>1. PICK r \in Readings(p) : reply' = [reply EXCEPT ![c] = Above(c, r.events)]
  BY DEF Replay
<1>2. PICK n \in Nat : n = Len(log) /\ Positions = 1..n /\ DOMAIN log = 1..n
  BY LenProperties DEF IInv, TypeOK, Positions
<1>3. PICK s \in Seq(1..n) : s = r.events /\ Upwards(s)
  <2>1. redis \in Seq(1..n) /\ local[p] \in Seq(1..n) /\ Upwards(local[p]) /\ Upwards(Reverse(redis))
    BY <1>2, HistoryAssumption DEF IInv, TypeOK, StoresInOrder
  <2>2. Reverse(redis) \in Seq(1..n)
    BY <2>1, Reversed
  <2>3. r.events \in {Reverse(redis), local[p]}
    BY DEF Readings
  <2>4. QED
    BY <2>1, <2>2, <2>3
<1> DEFINE K == {k \in DOMAIN s : log[s[k]].id > last[c]}
<1>4. K \in SUBSET DOMAIN s /\ \A k \in K : log[s[k]].id > last[c]
  OBVIOUS
<1>5. PICK t : t = Selected(s, K)
  OBVIOUS
<1>6. reply'[c] = t /\ \A d \in Reconnects \ {c} : reply'[d] = reply[d]
  BY <1>1, <1>3, <1>5 DEF Above, RepliesKept
<1> HIDE DEF K
<1>7. /\ \A i, j \in DOMAIN t : i < j => t[i] < t[j]
      /\ \A i \in DOMAIN t : \E k \in K : t[i] = s[k] /\ s[k] \in 1..n
  BY <1>3, <1>4, <1>5, SelectedAscends
<1>8. \A i \in DOMAIN t : t[i] \in DOMAIN log /\ log[t[i]].id > last[c]
  BY <1>2, <1>4, <1>7
<1>9. /\ status[c] = "known" /\ status' = [status EXCEPT ![c] = "answered"]
      /\ UNCHANGED <<log, last>>
  BY DEF Replay
<1>10. Answered' = Answered \cup {c} /\ c \notin Answered
  BY <1>9 DEF Answered, IInv, TypeOK
<1>11. Log!Answer(c)
  BY <1>6, <1>7, <1>8, <1>9, <1>10 DEF Log!Answer, Log!Ascending, Answered
<1>12. QED
  BY <1>11 DEF Log!Next

\* What becomes of the stores and of handlers that emit nothing is not seen.
LEMMA OthersStutter ==
  ASSUME IInv,
         \/ \E w \in Writers : Resolve(w) \/ GiveUp(w) \/ Drop(w)
         \/ Expire \/ \E p \in Replicas : Restart(p)
         \/ UNCHANGED vars
  PROVE  UNCHANGED Log!vars
<1>1. UNCHANGED <<log, last, reply>>
  BY DEF Resolve, GiveUp, Drop, Expire, Restart, readerVars, vars
<1>2. \A d \in Reconnects : status'[d] = "answered" <=> status[d] = "answered"
  BY DEF Resolve, GiveUp, Drop, Expire, Restart, readerVars, vars
<1>3. Answered' = Answered
  BY <1>2 DEF Answered
<1>4. QED
  BY <1>1, <1>3 DEF Log!vars, Answered

\* Whatever fails, and whoever shares the id, the stores implement the log: an
\* answer shows emitted events, each once, in order, none the client has seen.
THEOREM HistoryImplementsReplayLog == Spec => ImplementsReplayLog
<1>1. Init => Log!Init
  BY DEF Init, Log!Init
<1>2. IInv /\ RepliesKept /\ [Next]_vars => [Log!Next]_(Log!vars)
  BY EmitRefines, LookupRefines, AnswerRefines, OthersStutter DEF Next
<1>3. QED
  BY <1>1, <1>2, NothingLostInvariance, PTL DEF Spec, Log!Spec, ImplementsReplayLog
====
