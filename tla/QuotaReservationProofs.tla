----------------------- MODULE QuotaReservationProofs -----------------------
(***************************************************************************)
(* Proofs about QuotaReservation for any set of requests, keys, limits,    *)
(* window lengths, expiry and clock bound.                                 *)
(***************************************************************************)
EXTENDS QuotaReservation, FiniteSetTheorems, TLAPS

----
(* Lemmas about the operators. *)

\* The start of a window is an instant no later than the clock it is taken
\* from, and moves only forward (daily_monthly_bounds).
LEMMA WindowStartMonotone ==
    ASSUME NEW w \in Windows, NEW s \in Nat, NEW t \in Nat, s <= t
    PROVE  /\ WindowStart(w, s) \in Nat
           /\ WindowStart(w, t) \in Nat
           /\ WindowStart(w, s) <= WindowStart(w, t)
           /\ WindowStart(w, t) <= t
<1> DEFINE L == WindowLength[w]
<1>1. L \in Nat /\ L > 0
  BY QuotaAssumption
<1>w. WindowStart(w, s) = s - (s % L) /\ WindowStart(w, t) = t - (t % L)
  BY DEF WindowStart
<1> HIDE DEF L
<1>2. /\ s = L * (s \div L) + (s % L) /\ s % L \in 0..(L - 1) /\ s \div L \in Int
      /\ t = L * (t \div L) + (t % L) /\ t % L \in 0..(L - 1) /\ t \div L \in Int
  BY <1>1
<1>3. s \div L <= t \div L /\ s \div L >= 0 /\ t \div L >= 0
  BY <1>1, <1>2
<1>4. L * (s \div L) <= L * (t \div L) /\ L * (s \div L) >= 0
  BY <1>1, <1>2, <1>3
<1>5. QED
  BY <1>1, <1>w, <1>2, <1>4

\* Every endpoint starts on one of its own stages, and every stage of an
\* endpoint leads to a stage of the same endpoint.
LEMMA PathStaysOnEndpoint ==
    ASSUME NEW kd \in Endpoints
    PROVE  /\ NextStage[kd].admitted \in Stages \cap StagesOf(kd)
           /\ \A s \in StagesOf(kd) \ {"finalize"} :
                 NextStage[kd][s] \in Stages \cap StagesOf(kd)
<1>1. CASE kd = "chat_send"
  BY <1>1 DEF NextStage, ChatSend, ChatStream, OpenaiSend, OpenaiRetry, OpenaiStream,
                StagesOf, Stages
<1>2. CASE kd = "chat_stream"
  BY <1>2 DEF NextStage, ChatSend, ChatStream, OpenaiSend, OpenaiRetry, OpenaiStream,
                StagesOf, Stages
<1>3. CASE kd = "openai_send"
  BY <1>3 DEF NextStage, ChatSend, ChatStream, OpenaiSend, OpenaiRetry, OpenaiStream,
                StagesOf, Stages
<1>4. CASE kd = "openai_stream"
  BY <1>4 DEF NextStage, ChatSend, ChatStream, OpenaiSend, OpenaiRetry, OpenaiStream,
                StagesOf, Stages
<1>5. CASE kd = "openai_retry"
  BY <1>5 DEF NextStage, ChatSend, ChatStream, OpenaiSend, OpenaiRetry, OpenaiStream,
                StagesOf, Stages
<1>6. QED
  BY <1>1, <1>2, <1>3, <1>4, <1>5 DEF Endpoints

----
(* The inductive invariant. *)

\* The clock readings are in order: read, then charged, never in the future.
ClockOrder ==
    \A r \in Requests : readAt[r] <= now /\ (r \in usage => readAt[r] <= chargedAt[r])

\* The decision of the open transaction is still right when it commits.
DecisionStillHolds ==
    \A r \in Requests :
        /\ pc[r] \in {"clocked", "admitted", "releasing"} => key[r] \in Keys
        /\ \A k \in Keys, n \in Nat :
              pc[r] = "admitted" /\ key[r] = k /\ readAt[r] = n => WithinLimits(k, n)

\* A handler of a single run is within its deadline and still has its row,
\* unless its user was deleted.
SendInTime ==
    \A r \in Requests : kind[r] \in SingleRun =>
        /\ pc[r] \in InFlight => now <= readAt[r] + MaxRun
        /\ pc[r] \in Stages /\ key[r] # NoKey => r \in reserved \cup erased

\* A row that was deleted with its user had been inserted, and its request is
\* past the point where it could be inserted again.
ErasedForGood ==
    \A r \in erased :
        /\ pc[r] \notin {"idle"} \cup Unadmitted
        /\ key[r] = NoKey => pc[r] \in {"charged", "done", "gone"}

IInv ==
    /\ TypeOK
    /\ RowsAccountedFor
    /\ ChargedIffSuccessful
    /\ ClockOrder
    /\ DecisionStillHolds
    /\ SendInTime
    /\ ErasedForGood
    /\ AdmissionWithinLimit

\* The sets that are counted are finite sets of requests.
LEMMA CountedSets ==
    ASSUME TypeOK, NEW k, NEW since, NEW t
    PROVE  /\ UsageSince(k, since) \subseteq Requests
           /\ ActiveReservations(k, since, t) \subseteq Requests
           /\ IsFiniteSet(UsageSince(k, since))
           /\ IsFiniteSet(ActiveReservations(k, since, t))
           /\ Cardinality(UsageSince(k, since)) \in Nat
           /\ Cardinality(ActiveReservations(k, since, t)) \in Nat
           /\ CountSince(k, since, t) \in Nat
<1>1. /\ UsageSince(k, since) \subseteq Requests
      /\ ActiveReservations(k, since, t) \subseteq Requests
  BY DEF TypeOK, UsageSince, ActiveReservations
<1>2. /\ IsFiniteSet(UsageSince(k, since))
      /\ IsFiniteSet(ActiveReservations(k, since, t))
  BY <1>1, FS_Subset, QuotaAssumption
<1>3. /\ Cardinality(UsageSince(k, since)) \in Nat
      /\ Cardinality(ActiveReservations(k, since, t)) \in Nat
  BY <1>2, FS_CardinalityType
<1>4. QED
  BY <1>1, <1>2, <1>3 DEF CountSince

\* What the transaction counts with the clock value it read, however stale,
\* is at least the number of on-time holders at the present instant.
LEMMA CountCoversHolders ==
    ASSUME TypeOK, ClockOrder, NEW k \in Keys, NEW w \in Windows,
           NEW n \in Nat, n <= now
    PROVE  /\ OnTimeHolders(k, w) \subseteq Requests
           /\ IsFiniteSet(OnTimeHolders(k, w))
           /\ Cardinality(OnTimeHolders(k, w)) \in Nat
           /\ Cardinality(OnTimeHolders(k, w)) <= CountSince(k, WindowStart(w, n), n)
<1> DEFINE since == WindowStart(w, n)
           U == UsageSince(k, since)
           A == ActiveReservations(k, since, n)
<1>1. now \in Nat
  BY QuotaAssumption DEF TypeOK
<1>2. since \in Nat /\ WindowStart(w, now) \in Nat /\ since <= WindowStart(w, now)
  BY <1>1, WindowStartMonotone
<1>3. OnTimeHolders(k, w) \subseteq U \cup A
  BY <1>1, <1>2, QuotaAssumption
     DEF OnTimeHolders, UsageSince, ActiveReservations, ExpiresAt, TypeOK
<1>4. /\ U \subseteq Requests /\ A \subseteq Requests
      /\ IsFiniteSet(U) /\ IsFiniteSet(A)
      /\ Cardinality(U) \in Nat /\ Cardinality(A) \in Nat
  BY CountedSets
<1>5. /\ IsFiniteSet(U \cup A)
      /\ Cardinality(U \cup A) = Cardinality(U) + Cardinality(A) - Cardinality(U \cap A)
  BY <1>4, FS_Union
<1>6. Cardinality(U \cap A) \in Nat
  BY <1>4, FS_Intersection, FS_CardinalityType
<1>7. /\ IsFiniteSet(OnTimeHolders(k, w))
      /\ Cardinality(OnTimeHolders(k, w)) <= Cardinality(U \cup A)
  BY <1>3, <1>5, FS_Subset
<1>8. Cardinality(OnTimeHolders(k, w)) \in Nat
  BY <1>7, FS_CardinalityType
<1>9. CountSince(k, since, n) = Cardinality(U) + Cardinality(A)
  BY DEF CountSince
<1>10. OnTimeHolders(k, w) \subseteq Requests
  BY <1>3, <1>4
<1> HIDE DEF U, A
<1>11. QED
  BY <1>4, <1>5, <1>6, <1>7, <1>8, <1>9, <1>10
----
(* One lemma per part of the invariant, one step per action. *)

\* Every action keeps the types.
LEMMA TypeStep ==
    ASSUME TypeOK, [Next]_vars
    PROVE  TypeOK'
<1> USE QuotaAssumption DEF TypeOK, InFlight, Ended, tables, caller, identity
<1>1. ASSUME NEW r \in Requests, Arrive(r) PROVE TypeOK'
  <2>1. NextStage[kind[r]].admitted \in Stages \cap StagesOf(kind[r])
    BY PathStaysOnEndpoint
  <2>2. \/ pc' = [pc EXCEPT ![r] = NextStage[kind[r]].admitted]
        \/ pc' = [pc EXCEPT ![r] = "clocked"]
    BY <1>1 DEF Arrive, Goto
  <2>3. UNCHANGED <<now, dbWriter, tables, caller>> /\ readAt' = [readAt EXCEPT ![r] = now]
    BY <1>1 DEF Arrive
  <2>4. QED
    BY <2>1, <2>2, <2>3 DEF Stages
<1>2. ASSUME NEW r \in Requests, Count(r) PROVE TypeOK'
  <2>1. /\ UNCHANGED <<now, tables, identity>>
        /\ dbWriter' \in {dbWriter, r}
        /\ \E s \in {"admitted", "refused"} : pc' = [pc EXCEPT ![r] = s]
    BY <1>2 DEF Count, Goto
  <2>2. QED
    BY <2>1 DEF Stages
<1>3. ASSUME NEW r \in Requests, LockBusy(r) PROVE TypeOK'
  BY <1>3 DEF LockBusy, Goto, Stages
<1>4. ASSUME NEW r \in Requests, CommitReservation(r) PROVE TypeOK'
  BY <1>4, PathStaysOnEndpoint DEF CommitReservation, EndTransaction, Expired, Goto, Stages
<1>5. ASSUME NEW r \in Requests, Advance(r) PROVE TypeOK'
  BY <1>5, PathStaysOnEndpoint DEF Advance, Goto, Stages
<1>6. ASSUME NEW r \in Requests, Interrupt(r) PROVE TypeOK'
  BY <1>6 DEF Interrupt, Goto, Stages
<1>7. ASSUME NEW r \in Requests, Release(r) PROVE TypeOK'
  BY <1>7 DEF Release, RowsWithout, Goto, Stages
<1>8. ASSUME NEW r \in Requests, ReleaseFails(r) PROVE TypeOK'
  BY <1>8 DEF ReleaseFails, Goto, Stages
<1>8a. ASSUME NEW r \in Requests, CommitFails(r) PROVE TypeOK'
  BY <1>8a DEF CommitFails, EndTransaction, Goto, Stages
<1>8b. ASSUME NEW r \in Requests, RespondFails(r) PROVE TypeOK'
  BY <1>8b DEF RespondFails, Goto, Stages
<1>9. ASSUME NEW r \in Requests, Finalize(r) PROVE TypeOK'
  <2>1. UNCHANGED <<now, dbWriter, identity, erased>>
    BY <1>9 DEF Finalize
  <2>2. \E s \in {"charged", "gone"} : pc' = [pc EXCEPT ![r] = s]
    BY <1>9 DEF Finalize, Goto
  <2>3. reserved' \subseteq Requests /\ usage' \subseteq Requests
    BY <1>9 DEF Finalize, RowsWithout
  <2>4. chargedAt' \in [Requests -> Nat]
    BY <1>9 DEF Finalize
  <2>5. QED
    BY <2>1, <2>2, <2>3, <2>4 DEF Stages
<1>10. ASSUME NEW r \in Requests, FinalizeFails(r) PROVE TypeOK'
  BY <1>10 DEF FinalizeFails, Goto, Stages
<1>11. ASSUME NEW r \in Requests, Respond(r) PROVE TypeOK'
  BY <1>11 DEF Respond, Goto, Stages
<1>12. CASE Crash
  BY <1>12 DEF Crash, EndTransaction, Unadmitted, Stages
<1>13. CASE Tick
  BY <1>13 DEF Tick
<1>16. ASSUME NEW u \in Users, DeleteUser(u) PROVE TypeOK'
  BY <1>16 DEF DeleteUser, RowsOf
<1>14. CASE UNCHANGED vars
  BY <1>14 DEF vars
<1>15. QED
  BY <1>1, <1>2, <1>3, <1>4, <1>5, <1>6, <1>7, <1>8, <1>8a, <1>8b, <1>9, <1>10, <1>11, <1>12, <1>13, <1>14, <1>16 DEF Next, Step, Proceed, Break

\* Rows of quota_reservations stay accounted for.
LEMMA RowsStep ==
    ASSUME TypeOK, RowsAccountedFor, DecisionStillHolds, [Next]_vars
    PROVE  RowsAccountedFor'
<1>h. \A r \in Requests :
        pc[r] \in {"clocked", "admitted", "releasing"} => key[r] \in Keys
  BY DEF DecisionStillHolds
<1> USE <1>h, QuotaAssumption DEF TypeOK, RowsAccountedFor, Goto, Stages, InFlight, tables, caller, identity
<1>1. ASSUME NEW r \in Requests, Arrive(r) PROVE RowsAccountedFor'
  BY <1>1, SMTT(40), PathStaysOnEndpoint DEF Arrive
<1>2. ASSUME NEW r \in Requests, Count(r) PROVE RowsAccountedFor'
  BY <1>2, SMTT(40) DEF Count
<1>3. ASSUME NEW r \in Requests, LockBusy(r) PROVE RowsAccountedFor'
  BY <1>3 DEF LockBusy
<1>4. ASSUME NEW r \in Requests, CommitReservation(r) PROVE RowsAccountedFor'
  BY <1>4, PathStaysOnEndpoint DEF CommitReservation, EndTransaction, Expired
<1>5. ASSUME NEW r \in Requests, Advance(r) PROVE RowsAccountedFor'
  BY <1>5, PathStaysOnEndpoint DEF Advance
<1>6. ASSUME NEW r \in Requests, Interrupt(r) PROVE RowsAccountedFor'
  BY <1>6 DEF Interrupt
<1>7. ASSUME NEW r \in Requests, Release(r) PROVE RowsAccountedFor'
  BY <1>7 DEF Release, RowsWithout
<1>8. ASSUME NEW r \in Requests, ReleaseFails(r) PROVE RowsAccountedFor'
  BY <1>8 DEF ReleaseFails
<1>8a. ASSUME NEW r \in Requests, CommitFails(r) PROVE RowsAccountedFor'
  BY <1>8a DEF CommitFails, EndTransaction
<1>8b. ASSUME NEW r \in Requests, RespondFails(r) PROVE RowsAccountedFor'
  BY <1>8b DEF RespondFails
<1>9. ASSUME NEW r \in Requests, Finalize(r) PROVE RowsAccountedFor'
  BY <1>9 DEF Finalize, Found, RowsWithout
<1>10. ASSUME NEW r \in Requests, FinalizeFails(r) PROVE RowsAccountedFor'
  BY <1>10 DEF FinalizeFails
<1>11. ASSUME NEW r \in Requests, Respond(r) PROVE RowsAccountedFor'
  BY <1>11 DEF Respond
<1>12. CASE Crash
  BY <1>12 DEF Crash, EndTransaction, Unadmitted
<1>13. CASE Tick
  BY <1>13 DEF Tick
<1>16. ASSUME NEW u \in Users, DeleteUser(u) PROVE RowsAccountedFor'
  BY <1>16 DEF DeleteUser, RowsOf
<1>14. CASE UNCHANGED vars
  BY <1>14 DEF vars
<1>15. QED
  BY <1>1, <1>2, <1>3, <1>4, <1>5, <1>6, <1>7, <1>8, <1>8a, <1>8b, <1>9, <1>10, <1>11, <1>12, <1>13, <1>14, <1>16 DEF Next, Step, Proceed, Break

\* Usage records stay those of successful requests.
LEMMA ChargedStep ==
    ASSUME TypeOK, RowsAccountedFor, ChargedIffSuccessful, ErasedForGood, [Next]_vars
    PROVE  ChargedIffSuccessful'
<1> USE QuotaAssumption DEF TypeOK, RowsAccountedFor, ChargedIffSuccessful, ErasedForGood, Unadmitted, Goto, Stages, InFlight, tables, caller, identity
<1>1. ASSUME NEW r \in Requests, Arrive(r) PROVE ChargedIffSuccessful'
  BY <1>1, PathStaysOnEndpoint DEF Arrive
<1>2. ASSUME NEW r \in Requests, Count(r) PROVE ChargedIffSuccessful'
  BY <1>2 DEF Count
<1>3. ASSUME NEW r \in Requests, LockBusy(r) PROVE ChargedIffSuccessful'
  BY <1>3 DEF LockBusy
<1>4. ASSUME NEW r \in Requests, CommitReservation(r) PROVE ChargedIffSuccessful'
  BY <1>4, PathStaysOnEndpoint DEF CommitReservation, EndTransaction, Expired
<1>5. ASSUME NEW r \in Requests, Advance(r) PROVE ChargedIffSuccessful'
  <2>1. NextStage[kind[r]][pc[r]] \in Stages
    BY <1>5, PathStaysOnEndpoint DEF Advance
  <2>2. pc[r] \in Stages \ {"finalize"} /\ pc' = [pc EXCEPT ![r] = NextStage[kind[r]][pc[r]]]
    BY <1>5 DEF Advance
  <2>3. UNCHANGED <<tables, key>>
    BY <1>5 DEF Advance
  <2>4. QED
    BY <2>1, <2>2, <2>3
<1>6. ASSUME NEW r \in Requests, Interrupt(r) PROVE ChargedIffSuccessful'
  BY <1>6 DEF Interrupt
<1>7. ASSUME NEW r \in Requests, Release(r) PROVE ChargedIffSuccessful'
  BY <1>7 DEF Release, RowsWithout
<1>8. ASSUME NEW r \in Requests, ReleaseFails(r) PROVE ChargedIffSuccessful'
  BY <1>8 DEF ReleaseFails
<1>8a. ASSUME NEW r \in Requests, CommitFails(r) PROVE ChargedIffSuccessful'
  BY <1>8a DEF CommitFails, EndTransaction
<1>8b. ASSUME NEW r \in Requests, RespondFails(r) PROVE ChargedIffSuccessful'
  BY <1>8b DEF RespondFails
<1>9. ASSUME NEW r \in Requests, Finalize(r) PROVE ChargedIffSuccessful'
  BY <1>9 DEF Finalize, Found, RowsWithout
<1>10. ASSUME NEW r \in Requests, FinalizeFails(r) PROVE ChargedIffSuccessful'
  BY <1>10 DEF FinalizeFails
<1>11. ASSUME NEW r \in Requests, Respond(r) PROVE ChargedIffSuccessful'
  BY <1>11 DEF Respond
<1>12. CASE Crash
  BY <1>12 DEF Crash, EndTransaction, Unadmitted
<1>13. CASE Tick
  BY <1>13 DEF Tick
<1>16. ASSUME NEW u \in Users, DeleteUser(u) PROVE ChargedIffSuccessful'
  BY <1>16 DEF DeleteUser, RowsOf
<1>14. CASE UNCHANGED vars
  BY <1>14 DEF vars
<1>15. QED
  BY <1>1, <1>2, <1>3, <1>4, <1>5, <1>6, <1>7, <1>8, <1>8a, <1>8b, <1>9, <1>10, <1>11, <1>12, <1>13, <1>14, <1>16 DEF Next, Step, Proceed, Break

\* What was deleted with its user stays deleted.
LEMMA ErasedStep ==
    ASSUME TypeOK, RowsAccountedFor, ChargedIffSuccessful, ErasedForGood, [Next]_vars
    PROVE  ErasedForGood'
<1> USE QuotaAssumption DEF TypeOK, RowsAccountedFor, ChargedIffSuccessful, ErasedForGood, Unadmitted, InFlight, Goto, Stages, tables, caller, identity
<1>1. ASSUME NEW r \in Requests, Arrive(r) PROVE ErasedForGood'
  BY <1>1, PathStaysOnEndpoint DEF Arrive
<1>2. ASSUME NEW r \in Requests, Count(r) PROVE ErasedForGood'
  BY <1>2 DEF Count
<1>3. ASSUME NEW r \in Requests, LockBusy(r) PROVE ErasedForGood'
  BY <1>3 DEF LockBusy
<1>4. ASSUME NEW r \in Requests, CommitReservation(r) PROVE ErasedForGood'
  BY <1>4, PathStaysOnEndpoint DEF CommitReservation, EndTransaction, Expired
<1>5. ASSUME NEW r \in Requests, Advance(r) PROVE ErasedForGood'
  <2>1. NextStage[kind[r]][pc[r]] \in Stages
    BY <1>5, PathStaysOnEndpoint DEF Advance
  <2>2. pc[r] \in Stages \ {"finalize"} /\ pc' = [pc EXCEPT ![r] = NextStage[kind[r]][pc[r]]]
    BY <1>5 DEF Advance
  <2>3. UNCHANGED <<tables, key>>
    BY <1>5 DEF Advance
  <2>4. QED
    BY <2>1, <2>2, <2>3
<1>6. ASSUME NEW r \in Requests, Interrupt(r) PROVE ErasedForGood'
  BY <1>6 DEF Interrupt
<1>7. ASSUME NEW r \in Requests, Release(r) PROVE ErasedForGood'
  BY <1>7 DEF Release, RowsWithout
<1>8. ASSUME NEW r \in Requests, ReleaseFails(r) PROVE ErasedForGood'
  BY <1>8 DEF ReleaseFails
<1>8a. ASSUME NEW r \in Requests, CommitFails(r) PROVE ErasedForGood'
  BY <1>8a DEF CommitFails, EndTransaction
<1>8b. ASSUME NEW r \in Requests, RespondFails(r) PROVE ErasedForGood'
  BY <1>8b DEF RespondFails
<1>9. ASSUME NEW r \in Requests, Finalize(r) PROVE ErasedForGood'
  BY <1>9 DEF Finalize, Found, RowsWithout
<1>10. ASSUME NEW r \in Requests, FinalizeFails(r) PROVE ErasedForGood'
  BY <1>10 DEF FinalizeFails
<1>11. ASSUME NEW r \in Requests, Respond(r) PROVE ErasedForGood'
  BY <1>11 DEF Respond
<1>12. CASE Crash
  BY <1>12 DEF Crash, EndTransaction, Unadmitted
<1>13. CASE Tick
  BY <1>13 DEF Tick
<1>16. ASSUME NEW u \in Users, DeleteUser(u) PROVE ErasedForGood'
  BY <1>16 DEF DeleteUser, RowsOf
<1>14. CASE UNCHANGED vars
  BY <1>14 DEF vars
<1>15. QED
  BY <1>1, <1>2, <1>3, <1>4, <1>5, <1>6, <1>7, <1>8, <1>8a, <1>8b, <1>9, <1>10, <1>11, <1>12, <1>13, <1>14, <1>16 DEF Next, Step, Proceed, Break

\* Clock readings stay in order.
LEMMA ClockStep ==
    ASSUME TypeOK, ChargedIffSuccessful, ClockOrder, [Next]_vars
    PROVE  ClockOrder'
<1> USE QuotaAssumption DEF TypeOK, ChargedIffSuccessful, ClockOrder, Goto, Stages, tables, caller, identity
<1>1. ASSUME NEW r \in Requests, Arrive(r) PROVE ClockOrder'
  BY <1>1, PathStaysOnEndpoint DEF Arrive
<1>2. ASSUME NEW r \in Requests, Count(r) PROVE ClockOrder'
  BY <1>2 DEF Count
<1>3. ASSUME NEW r \in Requests, LockBusy(r) PROVE ClockOrder'
  BY <1>3 DEF LockBusy
<1>4. ASSUME NEW r \in Requests, CommitReservation(r) PROVE ClockOrder'
  BY <1>4, PathStaysOnEndpoint DEF CommitReservation, EndTransaction, Expired
<1>5. ASSUME NEW r \in Requests, Advance(r) PROVE ClockOrder'
  BY <1>5, PathStaysOnEndpoint DEF Advance
<1>6. ASSUME NEW r \in Requests, Interrupt(r) PROVE ClockOrder'
  BY <1>6 DEF Interrupt
<1>7. ASSUME NEW r \in Requests, Release(r) PROVE ClockOrder'
  BY <1>7 DEF Release, RowsWithout
<1>8. ASSUME NEW r \in Requests, ReleaseFails(r) PROVE ClockOrder'
  BY <1>8 DEF ReleaseFails
<1>8a. ASSUME NEW r \in Requests, CommitFails(r) PROVE ClockOrder'
  BY <1>8a DEF CommitFails, EndTransaction
<1>8b. ASSUME NEW r \in Requests, RespondFails(r) PROVE ClockOrder'
  BY <1>8b DEF RespondFails
<1>9. ASSUME NEW r \in Requests, Finalize(r) PROVE ClockOrder'
  BY <1>9 DEF Finalize, Found, RowsWithout
<1>10. ASSUME NEW r \in Requests, FinalizeFails(r) PROVE ClockOrder'
  BY <1>10 DEF FinalizeFails
<1>11. ASSUME NEW r \in Requests, Respond(r) PROVE ClockOrder'
  BY <1>11 DEF Respond
<1>12. CASE Crash
  BY <1>12 DEF Crash, EndTransaction, Unadmitted
<1>13. CASE Tick
  BY <1>13 DEF Tick
<1>16. ASSUME NEW u \in Users, DeleteUser(u) PROVE ClockOrder'
  BY <1>16 DEF DeleteUser, RowsOf
<1>14. CASE UNCHANGED vars
  BY <1>14 DEF vars
<1>15. QED
  BY <1>1, <1>2, <1>3, <1>4, <1>5, <1>6, <1>7, <1>8, <1>8a, <1>8b, <1>9, <1>10, <1>11, <1>12, <1>13, <1>14, <1>16 DEF Next, Step, Proceed, Break

\* What is counted depends on the tables alone.
LEMMA CountUnchanged ==
    ASSUME TypeOK, RowsAccountedFor, ChargedIffSuccessful,
           reserved' = reserved, usage' = usage, chargedAt' = chargedAt, key' = key,
           \A x \in Requests : readAt'[x] = readAt[x] \/ pc[x] = "idle",
           NEW k, NEW t
    PROVE  WithinLimits(k, t) <=> WithinLimits(k, t)'
<1>1. \A since : UsageSince(k, since)' = UsageSince(k, since)
  BY DEF UsageSince
<1>2. \A x \in reserved : x \in Requests /\ readAt'[x] = readAt[x]
  BY DEF TypeOK, RowsAccountedFor, Stages
<1>3. \A since : ActiveReservations(k, since, t)' = ActiveReservations(k, since, t)
  BY <1>2 DEF ActiveReservations, ExpiresAt
<1>4. \A since : CountSince(k, since, t)' = CountSince(k, since, t)
  BY <1>1, <1>3 DEF CountSince
<1>5. QED
  BY <1>4 DEF WithinLimits, WindowStart

\* While a transaction is open, nothing changes what it counted.
LEMMA DecisionStep ==
    ASSUME TypeOK, RowsAccountedFor, ChargedIffSuccessful, DecisionStillHolds, [Next]_vars
    PROVE  DecisionStillHolds'
<1> USE DEF DecisionStillHolds, Goto, tables, caller, identity
<1>1. ASSUME NEW r \in Requests, Arrive(r) PROVE DecisionStillHolds'
  <2>1. \A k, t : WithinLimits(k, t) <=> WithinLimits(k, t)'
    BY <1>1, CountUnchanged DEF Arrive, tables, caller, TypeOK
  <2>2. QED
    BY <1>1, <2>1, PathStaysOnEndpoint, QuotaAssumption DEF Arrive, TypeOK, Stages
<1>2. ASSUME NEW r \in Requests, Count(r) PROVE DecisionStillHolds'
  <2>1. \A k, t : WithinLimits(k, t) <=> WithinLimits(k, t)'
    BY <1>2, CountUnchanged DEF Count, tables, caller, identity
  <2>2. QED
    BY <1>2, <2>1 DEF Count, TypeOK
<1>3. ASSUME NEW r \in Requests, LockBusy(r) PROVE DecisionStillHolds'
  <2>1. \A k, t : WithinLimits(k, t) <=> WithinLimits(k, t)'
    BY <1>3, CountUnchanged DEF LockBusy, tables, caller, identity
  <2>2. QED
    BY <1>3, <2>1 DEF LockBusy, TypeOK, Stages
<1>4. ASSUME NEW r \in Requests, CommitReservation(r) PROVE DecisionStillHolds'
  BY <1>4, PathStaysOnEndpoint, QuotaAssumption
     DEF CommitReservation, EndTransaction, Expired, TypeOK, RowsAccountedFor, Stages
<1>5. ASSUME NEW r \in Requests, Advance(r) PROVE DecisionStillHolds'
  <2>1. \A k, t : WithinLimits(k, t) <=> WithinLimits(k, t)'
    BY <1>5, CountUnchanged DEF Advance, tables, caller, identity
  <2>2. QED
    BY <1>5, <2>1, PathStaysOnEndpoint, QuotaAssumption DEF Advance, TypeOK, Stages
<1>6. ASSUME NEW r \in Requests, Interrupt(r) PROVE DecisionStillHolds'
  <2>1. \A k, t : WithinLimits(k, t) <=> WithinLimits(k, t)'
    BY <1>6, CountUnchanged DEF Interrupt, tables, caller, identity
  <2>2. QED
    BY <1>6, <2>1 DEF Interrupt, TypeOK, Stages
<1>7. ASSUME NEW r \in Requests, Release(r) PROVE DecisionStillHolds'
  BY <1>7, QuotaAssumption DEF Release, RowsWithout, TypeOK, RowsAccountedFor
<1>8. ASSUME NEW r \in Requests, ReleaseFails(r) PROVE DecisionStillHolds'
  <2>1. \A k, t : WithinLimits(k, t) <=> WithinLimits(k, t)'
    BY <1>8, CountUnchanged DEF ReleaseFails, tables, caller, identity
  <2>2. QED
    BY <1>8, <2>1 DEF ReleaseFails, TypeOK, Stages
<1>8a. ASSUME NEW r \in Requests, CommitFails(r) PROVE DecisionStillHolds'
  <2>1. \A k, t : WithinLimits(k, t) <=> WithinLimits(k, t)'
    BY <1>8a, CountUnchanged DEF CommitFails, EndTransaction, tables, caller, identity
  <2>2. QED
    BY <1>8a, <2>1 DEF CommitFails, EndTransaction, TypeOK, Stages
<1>8b. ASSUME NEW r \in Requests, RespondFails(r) PROVE DecisionStillHolds'
  <2>1. \A k, t : WithinLimits(k, t) <=> WithinLimits(k, t)'
    BY <1>8b, CountUnchanged DEF RespondFails, tables, caller, identity
  <2>2. QED
    BY <1>8b, <2>1 DEF RespondFails, TypeOK, Stages
<1>9. ASSUME NEW r \in Requests, Finalize(r) PROVE DecisionStillHolds'
  BY <1>9, QuotaAssumption DEF Finalize, Found, RowsWithout, TypeOK, RowsAccountedFor
<1>10. ASSUME NEW r \in Requests, FinalizeFails(r) PROVE DecisionStillHolds'
  <2>1. \A k, t : WithinLimits(k, t) <=> WithinLimits(k, t)'
    BY <1>10, CountUnchanged DEF FinalizeFails, tables, caller, identity
  <2>2. QED
    BY <1>10, <2>1 DEF FinalizeFails, TypeOK, Stages
<1>11. ASSUME NEW r \in Requests, Respond(r) PROVE DecisionStillHolds'
  <2>1. \A k, t : WithinLimits(k, t) <=> WithinLimits(k, t)'
    BY <1>11, CountUnchanged DEF Respond, tables, caller, identity
  <2>2. QED
    BY <1>11, <2>1 DEF Respond, TypeOK, Stages
<1>12. CASE Crash
  BY <1>12 DEF Crash, EndTransaction, TypeOK, InFlight, Unadmitted
<1>13. CASE Tick
  <2>1. \A k, t : WithinLimits(k, t) <=> WithinLimits(k, t)'
    BY <1>13, CountUnchanged DEF Tick, tables, caller, identity
  <2>2. QED
    BY <1>13, <2>1 DEF Tick
<1>16. ASSUME NEW u \in Users, DeleteUser(u) PROVE DecisionStillHolds'
  BY <1>16, QuotaAssumption DEF DeleteUser, RowsOf, TypeOK, RowsAccountedFor
<1>14. CASE UNCHANGED vars
  <2>1. \A k, t : WithinLimits(k, t) <=> WithinLimits(k, t)'
    BY <1>14, CountUnchanged DEF vars
  <2>2. QED
    BY <1>14, <2>1 DEF vars
<1>15. QED
  BY <1>1, <1>2, <1>3, <1>4, <1>5, <1>6, <1>7, <1>8, <1>8a, <1>8b, <1>9, <1>10, <1>11, <1>12, <1>13, <1>14, <1>16 DEF Next, Step, Proceed, Break

\* Deadlines of non-streaming handlers keep their rows alive.
LEMMA SendStep ==
    ASSUME TypeOK, RowsAccountedFor, ClockOrder, SendInTime, [Next]_vars
    PROVE  SendInTime'
<1> USE QuotaAssumption DEF TypeOK, SendInTime, Goto, Stages, InFlight, tables, caller, identity
<1>1. ASSUME NEW r \in Requests, Arrive(r) PROVE SendInTime'
  BY <1>1, PathStaysOnEndpoint DEF Arrive, ClockOrder
<1>2. ASSUME NEW r \in Requests, Count(r) PROVE SendInTime'
  BY <1>2 DEF Count
<1>3. ASSUME NEW r \in Requests, LockBusy(r) PROVE SendInTime'
  BY <1>3 DEF LockBusy
<1>4. ASSUME NEW r \in Requests, CommitReservation(r) PROVE SendInTime'
  BY <1>4, PathStaysOnEndpoint DEF CommitReservation, EndTransaction, Expired, ExpiresAt, ClockOrder
<1>5. ASSUME NEW r \in Requests, Advance(r) PROVE SendInTime'
  BY <1>5, PathStaysOnEndpoint DEF Advance, ClockOrder
<1>6. ASSUME NEW r \in Requests, Interrupt(r) PROVE SendInTime'
  BY <1>6 DEF Interrupt
<1>7. ASSUME NEW r \in Requests, Release(r) PROVE SendInTime'
  BY <1>7 DEF Release, RowsWithout
<1>8. ASSUME NEW r \in Requests, ReleaseFails(r) PROVE SendInTime'
  BY <1>8 DEF ReleaseFails
<1>8a. ASSUME NEW r \in Requests, CommitFails(r) PROVE SendInTime'
  BY <1>8a DEF CommitFails, EndTransaction
<1>8b. ASSUME NEW r \in Requests, RespondFails(r) PROVE SendInTime'
  BY <1>8b DEF RespondFails
<1>9. ASSUME NEW r \in Requests, Finalize(r) PROVE SendInTime'
  BY <1>9 DEF Finalize, Found, RowsWithout
<1>10. ASSUME NEW r \in Requests, FinalizeFails(r) PROVE SendInTime'
  BY <1>10 DEF FinalizeFails
<1>11. ASSUME NEW r \in Requests, Respond(r) PROVE SendInTime'
  BY <1>11 DEF Respond
<1>12. CASE Crash
  BY <1>12 DEF Crash, EndTransaction, Unadmitted
<1>13. CASE Tick
  BY <1>13 DEF Tick, Longest, SingleRun, Streaming
<1>16. ASSUME NEW u \in Users, DeleteUser(u) PROVE SendInTime'
  BY <1>16 DEF DeleteUser, RowsOf
<1>14. CASE UNCHANGED vars
  BY <1>14 DEF vars
<1>15. QED
  BY <1>1, <1>2, <1>3, <1>4, <1>5, <1>6, <1>7, <1>8, <1>8a, <1>8b, <1>9, <1>10, <1>11, <1>12, <1>13, <1>14, <1>16 DEF Next, Step, Proceed, Break

\* A step that moves the clock forward and adds no holder keeps the bound.
LEMMA FewerHolders ==
    ASSUME TypeOK, ClockOrder, AdmissionWithinLimit,
           \A k \in Keys, w \in Windows :
               OnTimeHolders(k, w)' \subseteq OnTimeHolders(k, w)
    PROVE  AdmissionWithinLimit'
<1> SUFFICES ASSUME NEW k \in Keys, NEW w \in Windows, Limit[k][w] # NoLimit
             PROVE  Cardinality(OnTimeHolders(k, w)') <= Limit[k][w]
  BY DEF AdmissionWithinLimit
<1> DEFINE old == OnTimeHolders(k, w)
           new == OnTimeHolders(k, w)'
<1>1. now \in Nat
  BY QuotaAssumption DEF TypeOK
<1>2. IsFiniteSet(old) /\ Cardinality(old) \in Nat
  BY <1>1, CountCoversHolders
<1>3. new \subseteq old
  OBVIOUS
<1>4. Cardinality(old) <= Limit[k][w] /\ Limit[k][w] \in Nat
  BY QuotaAssumption DEF AdmissionWithinLimit
<1> HIDE DEF old, new
<1>5. Cardinality(new) <= Cardinality(old) /\ Cardinality(new) \in Nat
  BY <1>2, <1>3, FS_Subset, FS_CardinalityType
<1>6. Cardinality(new) <= Limit[k][w]
  BY <1>2, <1>4, <1>5
<1>7. QED
  BY <1>6 DEF new

\* Only an admission adds a holder, and it was counted below the limit.
LEMMA AdmissionStep ==
    ASSUME IInv, [Next]_vars
    PROVE  AdmissionWithinLimit'
<1> USE DEF IInv, Goto
<1>1. ASSUME NEW r \in Requests, Arrive(r) PROVE AdmissionWithinLimit'
  <2>1. ASSUME NEW k \in Keys, NEW w \in Windows
        PROVE  OnTimeHolders(k, w)' \subseteq OnTimeHolders(k, w)
    BY <1>1 DEF Arrive, OnTimeHolders, UsageSince, ActiveReservations, ExpiresAt, WindowStart, tables, caller, TypeOK, RowsAccountedFor, ChargedIffSuccessful, Stages
  <2>2. QED
    BY <2>1, FewerHolders
<1>2. ASSUME NEW r \in Requests, Count(r) PROVE AdmissionWithinLimit'
  <2>1. ASSUME NEW k \in Keys, NEW w \in Windows
        PROVE  OnTimeHolders(k, w)' \subseteq OnTimeHolders(k, w)
    BY <1>2 DEF Count, OnTimeHolders, UsageSince, ActiveReservations, ExpiresAt, WindowStart, tables, caller, identity
  <2>2. QED
    BY <2>1, FewerHolders
<1>3. ASSUME NEW r \in Requests, LockBusy(r) PROVE AdmissionWithinLimit'
  <2>1. ASSUME NEW k \in Keys, NEW w \in Windows
        PROVE  OnTimeHolders(k, w)' \subseteq OnTimeHolders(k, w)
    BY <1>3 DEF LockBusy, OnTimeHolders, UsageSince, ActiveReservations, ExpiresAt, WindowStart, tables, caller, identity
  <2>2. QED
    BY <2>1, FewerHolders
<1>4. ASSUME NEW r \in Requests, CommitReservation(r) PROVE AdmissionWithinLimit'
  <2> SUFFICES ASSUME NEW k \in Keys, NEW w \in Windows, Limit[k][w] # NoLimit
               PROVE  Cardinality(OnTimeHolders(k, w)') <= Limit[k][w]
    BY DEF AdmissionWithinLimit
  <2> DEFINE old == OnTimeHolders(k, w)
             new == OnTimeHolders(k, w)'
  <2>1. readAt[r] \in Nat /\ readAt[r] <= now
    BY DEF TypeOK, ClockOrder
  <2>2. IsFiniteSet(old) /\ Cardinality(old) \in Nat
    BY <2>1, CountCoversHolders
  <2>3. Limit[k][w] \in Nat /\ Cardinality(old) <= Limit[k][w]
    BY QuotaAssumption DEF AdmissionWithinLimit
  <2>4. CASE key[r] = k
    <3>1. new \subseteq old \cup {r}
      BY <1>4 DEF CommitReservation, EndTransaction, Expired, OnTimeHolders, UsageSince, ActiveReservations,
               ExpiresAt, WindowStart, identity
    <3>2. WithinLimits(k, readAt[r])
      BY <1>4, <2>1, <2>4 DEF CommitReservation, EndTransaction, Expired, DecisionStillHolds
    <3>3. CountSince(k, WindowStart(w, readAt[r]), readAt[r]) < Limit[k][w]
      BY <3>2 DEF WithinLimits
    <3>4. /\ Cardinality(old) <= CountSince(k, WindowStart(w, readAt[r]), readAt[r])
          /\ CountSince(k, WindowStart(w, readAt[r]), readAt[r]) \in Nat
      BY <2>1, CountCoversHolders, CountedSets
    <3>5. Cardinality(old) < Limit[k][w]
      BY <2>2, <2>3, <3>3, <3>4
    <3> HIDE DEF old, new
    <3>6. /\ IsFiniteSet(old \cup {r})
          /\ Cardinality(old \cup {r})
               = IF r \in old THEN Cardinality(old) ELSE Cardinality(old) + 1
      BY <2>2, FS_AddElement, ZenonT(30)
    <3>7. /\ Cardinality(old \cup {r}) \in Nat
          /\ Cardinality(new) \in Nat
          /\ Cardinality(new) <= Cardinality(old \cup {r})
      BY <3>1, <3>6, FS_Subset, FS_CardinalityType
    <3>8. Cardinality(new) <= Limit[k][w]
      BY <2>2, <2>3, <3>5, <3>6, <3>7
    <3>9. QED
      BY <3>8 DEF new
  <2>5. CASE key[r] # k
    <3>1. new \subseteq old
      BY <1>4, <2>5 DEF CommitReservation, EndTransaction, Expired, OnTimeHolders, UsageSince, ActiveReservations,
               ExpiresAt, WindowStart, identity
    <3> HIDE DEF old, new
    <3>2. Cardinality(new) <= Cardinality(old) /\ Cardinality(new) \in Nat
      BY <2>2, <3>1, FS_Subset, FS_CardinalityType
    <3>3. Cardinality(new) <= Limit[k][w]
      BY <2>2, <2>3, <3>2
    <3>4. QED
      BY <3>3 DEF new
  <2>6. QED
    BY <2>4, <2>5
<1>5. ASSUME NEW r \in Requests, Advance(r) PROVE AdmissionWithinLimit'
  <2>1. ASSUME NEW k \in Keys, NEW w \in Windows
        PROVE  OnTimeHolders(k, w)' \subseteq OnTimeHolders(k, w)
    BY <1>5 DEF Advance, OnTimeHolders, UsageSince, ActiveReservations, ExpiresAt, WindowStart, tables, caller, identity
  <2>2. QED
    BY <2>1, FewerHolders
<1>6. ASSUME NEW r \in Requests, Interrupt(r) PROVE AdmissionWithinLimit'
  <2>1. ASSUME NEW k \in Keys, NEW w \in Windows
        PROVE  OnTimeHolders(k, w)' \subseteq OnTimeHolders(k, w)
    BY <1>6 DEF Interrupt, OnTimeHolders, UsageSince, ActiveReservations, ExpiresAt, WindowStart, tables, caller, identity
  <2>2. QED
    BY <2>1, FewerHolders
<1>7. ASSUME NEW r \in Requests, Release(r) PROVE AdmissionWithinLimit'
  <2>1. ASSUME NEW k \in Keys, NEW w \in Windows
        PROVE  OnTimeHolders(k, w)' \subseteq OnTimeHolders(k, w)
    BY <1>7 DEF Release, RowsWithout, OnTimeHolders, UsageSince, ActiveReservations, ExpiresAt, WindowStart, identity
  <2>2. QED
    BY <2>1, FewerHolders
<1>8. ASSUME NEW r \in Requests, ReleaseFails(r) PROVE AdmissionWithinLimit'
  <2>1. ASSUME NEW k \in Keys, NEW w \in Windows
        PROVE  OnTimeHolders(k, w)' \subseteq OnTimeHolders(k, w)
    BY <1>8 DEF ReleaseFails, OnTimeHolders, UsageSince, ActiveReservations, ExpiresAt, WindowStart, tables, caller, identity
  <2>2. QED
    BY <2>1, FewerHolders
<1>8a. ASSUME NEW r \in Requests, CommitFails(r) PROVE AdmissionWithinLimit'
  <2>1. ASSUME NEW k \in Keys, NEW w \in Windows
        PROVE  OnTimeHolders(k, w)' \subseteq OnTimeHolders(k, w)
    BY <1>8a DEF CommitFails, EndTransaction, OnTimeHolders, UsageSince, ActiveReservations, ExpiresAt, WindowStart, tables, caller, identity
  <2>2. QED
    BY <2>1, FewerHolders
<1>8b. ASSUME NEW r \in Requests, RespondFails(r) PROVE AdmissionWithinLimit'
  <2>1. ASSUME NEW k \in Keys, NEW w \in Windows
        PROVE  OnTimeHolders(k, w)' \subseteq OnTimeHolders(k, w)
    BY <1>8b DEF RespondFails, OnTimeHolders, UsageSince, ActiveReservations, ExpiresAt, WindowStart, tables, caller, identity
  <2>2. QED
    BY <2>1, FewerHolders
<1>9. ASSUME NEW r \in Requests, Finalize(r) PROVE AdmissionWithinLimit'
  <2>1. ASSUME NEW k \in Keys, NEW w \in Windows
        PROVE  OnTimeHolders(k, w)' \subseteq OnTimeHolders(k, w)
    BY <1>9, QuotaAssumption DEF Finalize, Found, RowsWithout, OnTimeHolders, UsageSince, ActiveReservations, ExpiresAt, WindowStart, tables, caller, identity, TypeOK, ClockOrder
  <2>2. QED
    BY <2>1, FewerHolders
<1>10. ASSUME NEW r \in Requests, FinalizeFails(r) PROVE AdmissionWithinLimit'
  <2>1. ASSUME NEW k \in Keys, NEW w \in Windows
        PROVE  OnTimeHolders(k, w)' \subseteq OnTimeHolders(k, w)
    BY <1>10 DEF FinalizeFails, OnTimeHolders, UsageSince, ActiveReservations, ExpiresAt, WindowStart, tables, caller, identity
  <2>2. QED
    BY <2>1, FewerHolders
<1>11. ASSUME NEW r \in Requests, Respond(r) PROVE AdmissionWithinLimit'
  <2>1. ASSUME NEW k \in Keys, NEW w \in Windows
        PROVE  OnTimeHolders(k, w)' \subseteq OnTimeHolders(k, w)
    BY <1>11 DEF Respond, OnTimeHolders, UsageSince, ActiveReservations, ExpiresAt, WindowStart, tables, caller, identity
  <2>2. QED
    BY <2>1, FewerHolders
<1>12. CASE Crash
  <2>1. ASSUME NEW k \in Keys, NEW w \in Windows
        PROVE  OnTimeHolders(k, w)' \subseteq OnTimeHolders(k, w)
    BY <1>12 DEF Crash, EndTransaction, OnTimeHolders, UsageSince, ActiveReservations, ExpiresAt, WindowStart, tables, caller, identity
  <2>2. QED
    BY <2>1, FewerHolders
<1>13. CASE Tick
  <2>1. ASSUME NEW k \in Keys, NEW w \in Windows
        PROVE  OnTimeHolders(k, w)' \subseteq OnTimeHolders(k, w)
    <3>1. /\ WindowStart(w, now) \in Nat
          /\ WindowStart(w, now') \in Nat
          /\ WindowStart(w, now) <= WindowStart(w, now')
      BY <1>13, WindowStartMonotone, QuotaAssumption DEF Tick, TypeOK
    <3>2. WindowStart(w, now)' = WindowStart(w, now')
      BY DEF WindowStart
    <3>3. QED
      BY <1>13, <3>1, <3>2, QuotaAssumption
         DEF Tick, OnTimeHolders, UsageSince, ActiveReservations, ExpiresAt,
             tables, caller, identity, TypeOK
  <2>2. QED
    BY <2>1, FewerHolders
<1>16. ASSUME NEW u \in Users, DeleteUser(u) PROVE AdmissionWithinLimit'
  <2>1. ASSUME NEW k \in Keys, NEW w \in Windows
        PROVE  OnTimeHolders(k, w)' \subseteq OnTimeHolders(k, w)
    BY <1>16 DEF DeleteUser, OnTimeHolders, UsageSince, ActiveReservations, ExpiresAt, WindowStart, identity
  <2>2. QED
    BY <2>1, FewerHolders
<1>14. CASE UNCHANGED vars
  <2>1. ASSUME NEW k \in Keys, NEW w \in Windows
        PROVE  OnTimeHolders(k, w)' \subseteq OnTimeHolders(k, w)
    BY <1>14 DEF vars, OnTimeHolders, UsageSince, ActiveReservations, ExpiresAt, WindowStart
  <2>2. QED
    BY <2>1, FewerHolders
<1>15. QED
  BY <1>1, <1>2, <1>3, <1>4, <1>5, <1>6, <1>7, <1>8, <1>8a, <1>8b, <1>9, <1>10, <1>11, <1>12, <1>13, <1>14, <1>16 DEF Next, Step, Proceed, Break

----
(* Theorems. *)

LEMMA InitIInv == Init => IInv
<1> SUFFICES ASSUME Init PROVE IInv
  OBVIOUS
<1>1. TypeOK
  BY QuotaAssumption DEF Init, TypeOK, Callers, Stages
<1>2. /\ RowsAccountedFor /\ ChargedIffSuccessful /\ ClockOrder
      /\ DecisionStillHolds /\ SendInTime /\ ErasedForGood
  BY QuotaAssumption
     DEF Init, RowsAccountedFor, ChargedIffSuccessful, ClockOrder,
         DecisionStillHolds, SendInTime, ErasedForGood, InFlight, Stages
<1>3. AdmissionWithinLimit
  <2> SUFFICES ASSUME NEW k \in Keys, NEW w \in Windows, Limit[k][w] # NoLimit
               PROVE  Cardinality(OnTimeHolders(k, w)) <= Limit[k][w]
    BY DEF AdmissionWithinLimit
  <2>1. OnTimeHolders(k, w) = {}
    BY DEF Init, OnTimeHolders, UsageSince, ActiveReservations
  <2>2. Limit[k][w] \in Nat
    BY QuotaAssumption
  <2>3. QED
    BY <2>1, <2>2, FS_EmptySet
<1>4. QED
  BY <1>1, <1>2, <1>3 DEF IInv

LEMMA NextIInv == IInv /\ [Next]_vars => IInv'
<1> SUFFICES ASSUME IInv, [Next]_vars PROVE IInv'
  OBVIOUS
<1>1. AdmissionWithinLimit'
  BY AdmissionStep
<1>2. TypeOK'
  BY TypeStep DEF IInv
<1>3. RowsAccountedFor'
  BY RowsStep DEF IInv
<1>4. ChargedIffSuccessful'
  BY ChargedStep DEF IInv
<1>5. ClockOrder'
  BY ClockStep DEF IInv
<1>6. DecisionStillHolds'
  BY DecisionStep DEF IInv
<1>7. SendInTime'
  BY SendStep DEF IInv
<1>8. ErasedForGood'
  BY ErasedStep DEF IInv
<1>9. QED
  BY <1>1, <1>2, <1>3, <1>4, <1>5, <1>6, <1>7, <1>8 DEF IInv

LEMMA Invariance == Spec => []IInv
  BY InitIInv, NextIInv, PTL DEF Spec

\* Every variable keeps its type in every reachable state.
THEOREM TypeCorrect == Spec => []TypeOK
<1>1. IInv => TypeOK
  BY DEF IInv
<1>2. QED
  BY <1>1, Invariance, PTL

\* In each day and each month, the requests of a key that were admitted in
\* that window and settle in time never exceed the key's limit.
THEOREM AdmissionBound == Spec => []AdmissionWithinLimit
<1>1. IInv => AdmissionWithinLimit
  BY DEF IInv
<1>2. QED
  BY <1>1, Invariance, PTL

\* A reservation row belongs to a handler that has not settled it, or to one
\* that left without a release.
THEOREM Accounting == Spec => []RowsAccountedFor
<1>1. IInv => RowsAccountedFor
  BY DEF IInv
<1>2. QED
  BY <1>1, Invariance, PTL

\* A request is reported successful only when charged, what failed or was
\* refused is not charged, no token is in both tables, and what went with a
\* deleted user never comes back.
THEOREM ChargedOnSuccess == Spec => []ChargedIffSuccessful
<1>1. IInv => ChargedIffSuccessful
  BY DEF IInv
<1>2. QED
  BY <1>1, Invariance, PTL

\* A handler of a single run keeps a live reservation until it settles, unless
\* its user is deleted.
THEOREM SendKeepsItsReservation == Spec => []SendKeepsReservation
<1>1. IInv => SendKeepsReservation
  <2> SUFFICES ASSUME IInv, NEW r \in Requests, pc[r] \in Stages,
                      key[r] # NoKey, kind[r] \in SingleRun, r \notin erased
               PROVE  r \in reserved /\ ExpiresAt(r) > now
    BY DEF SendKeepsReservation
  <2>1. r \in reserved /\ now <= readAt[r] + MaxRun
    BY DEF IInv, SendInTime, InFlight
  <2>2. now \in Nat /\ readAt[r] \in Nat
    BY QuotaAssumption DEF IInv, TypeOK
  <2>3. QED
    BY <2>1, <2>2, QuotaAssumption DEF ExpiresAt
<1>2. QED
  BY <1>1, Invariance, PTL

----
(* What a step may do to the tables. *)

\* A step drops a row only by charging it, releasing it, because it expired,
\* or with everything of its user.
THEOREM OwnerOrExpiry == Spec => OnlyOwnerOrExpiryFrees
<1>1. IInv /\ [Next]_vars => [FreesOwnOrExpired]_vars
  <2> SUFFICES ASSUME IInv, Next PROVE FreesOwnOrExpired
    OBVIOUS
  <2> SUFFICES ASSUME NEW x \in reserved, x \notin reserved'
               PROVE  \/ x \in usage' \/ pc[x] = "releasing" \/ ExpiresAt(x) <= now
                      \/ x \in erased' /\ \A y \in reserved' \cup usage' : user[y] # user[x]
    BY DEF FreesOwnOrExpired
  <2>1. ASSUME NEW r \in Requests, CommitReservation(r)
        PROVE  ExpiresAt(x) <= now
    <3>1. /\ x \in Requests /\ readAt[x] \in Nat /\ readAt[r] \in Nat /\ now \in Nat
          /\ readAt[r] <= now
      BY QuotaAssumption DEF IInv, TypeOK, ClockOrder
    <3>2. ExpiresAt(x) <= readAt[r]
      BY <2>1 DEF CommitReservation, EndTransaction, Expired
    <3>3. QED
      BY <3>1, <3>2, QuotaAssumption DEF ExpiresAt
  <2>2. ASSUME NEW r \in Requests, Release(r) PROVE pc[x] = "releasing"
    BY <2>2 DEF Release, RowsWithout
  <2>3. ASSUME NEW r \in Requests, Finalize(r) PROVE x \in usage'
    BY <2>3 DEF Finalize, Found, RowsWithout, tables
  <2>4. ASSUME NEW r \in Requests,
               \/ Arrive(r) \/ Count(r) \/ LockBusy(r) \/ CommitFails(r) \/ Advance(r) \/ Interrupt(r)
               \/ ReleaseFails(r) \/ FinalizeFails(r) \/ Respond(r) \/ RespondFails(r)
        PROVE  FALSE
    BY <2>4 DEF Arrive, Count, LockBusy, CommitFails, Advance, Interrupt, ReleaseFails,
                FinalizeFails, Respond, RespondFails, tables
  <2>5. CASE Crash \/ Tick
    BY <2>5 DEF Crash, EndTransaction, Tick, tables
  <2>6. ASSUME NEW u \in Users, DeleteUser(u)
        PROVE  x \in erased' /\ \A y \in reserved' \cup usage' : user[y] # user[x]
    BY <2>6 DEF DeleteUser, RowsOf
  <2>7. QED
    BY <2>1, <2>2, <2>3, <2>4, <2>5, <2>6 DEF Next, Step, Proceed, Break
<1>2. QED
  BY <1>1, Invariance, PTL DEF Spec, OnlyOwnerOrExpiryFrees

----
(* The quota implements the ledger. *)

\* A step that leaves the tables alone and inserts nothing leaves the ledger.
LEMMA SameEntries ==
    ASSUME TypeOK, reserved' = reserved, usage' = usage, erased' = erased, key' = key,
           \A x \in Requests : key[x] # NoKey =>
               (pc[x] \in Unadmitted <=> pc'[x] \in Unadmitted)
    PROVE  UNCHANGED LedgerEntry
  BY DEF LedgerEntry

LEMMA LedgerStep ==
    ASSUME IInv, [Next]_vars
    PROVE  [Ledger!Next]_LedgerEntry
<1> USE DEF IInv
<1>1. ASSUME NEW r \in Requests,
             \/ Arrive(r) \/ Count(r) \/ LockBusy(r) \/ CommitFails(r) \/ Advance(r) \/ Interrupt(r)
             \/ ReleaseFails(r) \/ FinalizeFails(r) \/ Respond(r) \/ RespondFails(r)
      PROVE  UNCHANGED LedgerEntry
  <2>1. pc' = [pc EXCEPT ![r] = pc'[r]]
    BY <1>1 DEF Arrive, Count, LockBusy, CommitFails, Advance, Interrupt, ReleaseFails,
                FinalizeFails, Respond, RespondFails, Goto, TypeOK
  <2>2. reserved' = reserved /\ usage' = usage /\ erased' = erased /\ key' = key
    BY <1>1 DEF Arrive, Count, LockBusy, CommitFails, Advance, Interrupt, ReleaseFails,
                FinalizeFails, Respond, RespondFails, tables, caller, identity
  <2>3. key[r] # NoKey => (pc[r] \in Unadmitted <=> pc'[r] \in Unadmitted)
    <3>1. CASE Advance(r)
      BY <3>1, PathStaysOnEndpoint, QuotaAssumption
         DEF Advance, Goto, TypeOK, Unadmitted, Stages
    <3>2. CASE ~Advance(r)
      BY <1>1, <3>2 DEF Arrive, Count, LockBusy, CommitFails, Interrupt, ReleaseFails,
                FinalizeFails, Respond, RespondFails, Goto, TypeOK, Unadmitted, Stages
    <3>3. QED
      BY <3>1, <3>2
  <2>4. QED
    BY <2>1, <2>2, <2>3, SameEntries DEF TypeOK
<1>2. ASSUME NEW r \in Requests, CommitReservation(r)
      PROVE  Ledger!Next
  <2> DEFINE freed == {x \in reserved : ExpiresAt(x) <= readAt[r]}
  <2>1. key[r] \in Keys /\ r \notin reserved /\ r \notin usage /\ r \notin erased
    BY <1>2 DEF CommitReservation, EndTransaction, Expired, DecisionStillHolds, RowsAccountedFor,
                ChargedIffSuccessful, ErasedForGood, Unadmitted, Stages
  <2>2. freed \in SUBSET Requests
    BY DEF TypeOK
  <2>3. \A x \in freed : LedgerEntry[x] = "held"
    BY QuotaAssumption DEF LedgerEntry, TypeOK, RowsAccountedFor, ChargedIffSuccessful,
                           Unadmitted, Stages
  <2>4. LedgerEntry[r] = "none"
    BY <1>2 DEF CommitReservation, EndTransaction, Expired, LedgerEntry, Unadmitted
  <2>5. /\ pc' = [pc EXCEPT ![r] = pc'[r]] /\ pc'[r] \in Stages
        /\ usage' = usage /\ erased' = erased /\ key' = key
        /\ reserved' = (reserved \ freed) \cup {r}
    <3>1. pc' = [pc EXCEPT ![r] = pc'[r]] /\ pc'[r] \in Stages /\ usage' = usage /\ erased' = erased /\ key' = key
      BY <1>2, PathStaysOnEndpoint, QuotaAssumption
         DEF CommitReservation, EndTransaction, Expired, Goto, TypeOK, identity
    <3>2. \A x \in reserved : ExpiresAt(x) > readAt[r] <=> ~(ExpiresAt(x) <= readAt[r])
      BY QuotaAssumption DEF TypeOK, ExpiresAt
    <3>3. reserved' = (reserved \ freed) \cup {r}
      BY <1>2, <3>2 DEF CommitReservation, EndTransaction, Expired
    <3>4. QED
      BY <3>1, <3>3
  <2> HIDE DEF freed
  <2>6. ASSUME NEW x \in Requests
        PROVE  LedgerEntry'[x] = IF x = r THEN "held"
                                 ELSE IF x \in freed THEN "free" ELSE LedgerEntry[x]
    <3>1. CASE x = r
      BY <2>1, <2>5, <3>1, QuotaAssumption
         DEF LedgerEntry, TypeOK, Unadmitted, Stages
    <3>2. CASE x # r /\ x \in freed
      <4>1. key[x] # NoKey /\ pc[x] \notin Unadmitted /\ x \notin usage /\ x \notin erased
        BY <3>2 DEF freed, RowsAccountedFor, ChargedIffSuccessful, Unadmitted, Stages
      <4>2. pc'[x] = pc[x]
        BY <2>5, <3>2 DEF TypeOK
      <4>3. QED
        BY <2>5, <3>2, <4>1, <4>2 DEF LedgerEntry
    <3>3. CASE x # r /\ x \notin freed
      <4>1. pc'[x] = pc[x]
        BY <2>5, <3>3 DEF TypeOK
      <4>2. QED
        BY <2>5, <3>3, <4>1 DEF LedgerEntry
    <3>4. QED
      BY <3>1, <3>2, <3>3
  <2>7. LedgerEntry' = [x \in Requests |-> IF x = r THEN "held"
                          ELSE IF x \in freed THEN "free" ELSE LedgerEntry[x]]
    BY <2>6 DEF LedgerEntry
  <2>8. Ledger!Hold(r, freed)
    BY <2>3, <2>4, <2>7 DEF Ledger!Hold
  <2>9. QED
    BY <2>2, <2>8 DEF Ledger!Next
<1>3. ASSUME NEW r \in Requests, Release(r)
      PROVE  Ledger!Next \/ UNCHANGED LedgerEntry
  <2>1. /\ pc' = [pc EXCEPT ![r] = "released"] /\ pc[r] = "releasing"
        /\ usage' = usage /\ erased' = erased /\ key' = key /\ reserved' = reserved \ {r}
    BY <1>3 DEF Release, RowsWithout, Goto, identity
  <2>2. key[r] # NoKey /\ r \notin usage
    BY <2>1, QuotaAssumption DEF DecisionStillHolds, ChargedIffSuccessful
  <2>3. CASE r \in reserved
    <3> r \notin erased
      BY <2>3 DEF ChargedIffSuccessful
    <3>1. LedgerEntry[r] = "held"
      BY <2>1, <2>2, <2>3 DEF LedgerEntry, Unadmitted, TypeOK
    <3>2. LedgerEntry' = [LedgerEntry EXCEPT ![r] = "free"]
      BY <2>1, <2>2, <2>3 DEF LedgerEntry, Unadmitted, TypeOK
    <3>3. QED
      BY <3>1, <3>2 DEF Ledger!Free, Ledger!Next
  <2>4. CASE r \notin reserved
    BY <2>1, <2>4, SameEntries DEF TypeOK, Unadmitted
  <2>5. QED
    BY <2>3, <2>4
<1>4. ASSUME NEW r \in Requests, Finalize(r)
      PROVE  Ledger!Next \/ UNCHANGED LedgerEntry
  <2>1. pc[r] = "finalize" /\ key' = key
    BY <1>4 DEF Finalize, Found, RowsWithout, identity
  <2>2. CASE key[r] # NoKey /\ r \in reserved
    <3>1. /\ pc' = [pc EXCEPT ![r] = "charged"]
          /\ reserved' = reserved \ {r} /\ usage' = usage \cup {r} /\ erased' = erased
      BY <1>4, <2>2 DEF Finalize, Found, RowsWithout, Goto
    <3>2. LedgerEntry[r] = "held" /\ r \notin usage
      BY <2>1, <2>2 DEF LedgerEntry, Unadmitted, ChargedIffSuccessful
    <3>3. LedgerEntry' = [LedgerEntry EXCEPT ![r] = "charged"]
      BY <2>1, <2>2, <3>1, <3>2 DEF LedgerEntry, Unadmitted, TypeOK
    <3>4. QED
      BY <3>2, <3>3 DEF Ledger!Charge, Ledger!Next
  <2>3. CASE key[r] = NoKey
    <3>1. /\ pc' = [pc EXCEPT ![r] = "charged"]
          /\ reserved' = reserved \ {r} /\ usage' = usage \cup {r} /\ erased' = erased
      BY <1>4, <2>3 DEF Finalize, Found, RowsWithout, Goto
    <3>2. UNCHANGED LedgerEntry
      BY <2>1, <2>3, <3>1 DEF LedgerEntry, TypeOK
    <3>3. QED
      BY <3>2
  <2>4. CASE key[r] # NoKey /\ r \notin reserved
    <3>1. pc' = [pc EXCEPT ![r] = "gone"] /\ reserved' = reserved /\ usage' = usage /\ erased' = erased
      BY <1>4, <2>4 DEF Finalize, Found, RowsWithout, Goto, tables
    <3>2. UNCHANGED LedgerEntry
      BY <2>1, <3>1, SameEntries DEF TypeOK, Unadmitted
    <3>3. QED
      BY <3>2
  <2>5. QED
    BY <2>2, <2>3, <2>4
<1>5. CASE Crash
  <2>1. reserved' = reserved /\ usage' = usage /\ erased' = erased /\ key' = key
    BY <1>5 DEF Crash, EndTransaction, tables, caller, identity
  <2>2. \A x \in Requests : pc[x] \in Unadmitted <=> pc'[x] \in Unadmitted
    BY <1>5 DEF Crash, EndTransaction, InFlight, Unadmitted
  <2>3. QED
    BY <2>1, <2>2, SameEntries
<1>6. CASE Tick \/ UNCHANGED vars
  BY <1>6, SameEntries DEF Tick, vars, tables, caller, identity
<1>7. ASSUME NEW u \in Users, DeleteUser(u)
      PROVE  Ledger!Next
  <2> DEFINE ts == {x \in RowsOf(u) : key[x] # NoKey}
  <2>1. ts \in SUBSET Requests
    BY DEF RowsOf, TypeOK
  <2>2. \A x \in ts : /\ LedgerEntry[x] \in {"held", "charged"}
                      /\ pc[x] \notin Unadmitted
    BY DEF RowsOf, LedgerEntry, TypeOK, RowsAccountedFor, ChargedIffSuccessful,
           Unadmitted, Stages
  <2>3. /\ reserved' = reserved \ RowsOf(u) /\ usage' = usage \ RowsOf(u)
        /\ erased' = erased \cup RowsOf(u) /\ key' = key /\ pc' = pc
    BY <1>7 DEF DeleteUser, identity
  <2>4. LedgerEntry' = [x \in Requests |-> IF x \in ts THEN "erased" ELSE LedgerEntry[x]]
    BY <2>2, <2>3 DEF LedgerEntry
  <2>5. Ledger!Erase(ts)
    BY <2>2, <2>4 DEF Ledger!Erase
  <2>6. QED
    BY <2>1, <2>5 DEF Ledger!Next
<1>8. QED
  BY <1>1, <1>2, <1>3, <1>4, <1>5, <1>6, <1>7 DEF Next, Step, Proceed, Break

\* The tables, seen through LedgerEntry, behave as the abstract ledger:
\* admitted once, then charged or freed once and for good, or erased with the
\* user for good.
THEOREM QuotaImplementsLedger == Spec => ImplementsLedger
<1>1. Init => Ledger!Init
  BY DEF Init, Ledger!Init, LedgerEntry, Unadmitted
<1>2. IInv /\ [Next]_vars => [Ledger!Next]_LedgerEntry
  BY LedgerStep
<1>3. QED
  BY <1>1, <1>2, Invariance, PTL DEF Spec, Ledger!Spec, ImplementsLedger

====
