----------------------- MODULE HarnessExecutionProofs -----------------------
(***************************************************************************)
(* Slots, processes and handles of HarnessExecution, for any number of     *)
(* runs and slots and any assignment of request ids, shared ones included. *)
(***************************************************************************)
EXTENDS HarnessExecution, FiniteSetTheorems, TLAPS

----
(* The inductive invariant. *)

\* A process that was not signalled is watched by its adapter.
LiveIsSupervised == \A r \in Runs : proc[r] = "running" => pc[r] \in Supervised

\* An adapter that has not spawned yet has no process.
NoProcessYet ==
    \A r \in Runs : pc[r] \in {"idle", "queued", "spawning"} => proc[r] = "none"

\* Who has left the body of the slot without its process having exited: a
\* plain run whose handler was cancelled.
ReapedUnlessCut ==
    \A r \in Runs \ Streams :
        pc[r] = "reaping" /\ proc[r] \in {"running", "dying"} => answer[r] = "cut"

IInv ==
    /\ TypeOK
    /\ LiveIsSupervised
    /\ ReapedUnlessCut
    /\ NoProcessYet
    /\ RunsReapTheirProcess
    /\ RegistryTracksSupervised
    /\ SlotsConserved

----
(* What each action does to the stages, processes and handles: the facts   *)
(* that all parts of the invariant but the counting rest on.               *)

\* The part of the invariant about single runs and ids.
LocalInv ==
    /\ LiveIsSupervised
    /\ NoProcessYet
    /\ ReapedUnlessCut
    /\ RunsReapTheirProcess
    /\ RegistryTracksSupervised

\* What is known of a setup, and that no step changes it.
LEMMA SetupFacts ==
    ASSUME setup \in Setups
    PROVE  /\ Streams \subseteq Runs
           /\ RequestId \in [Runs -> Ids]
           /\ MaxConcurrent \in Nat \ {0}
  BY ExecutionAssumption DEF Streams, RequestId, MaxConcurrent

LEMMA SameSetup ==
    ASSUME setup' = setup
    PROVE  Streams' = Streams /\ RequestId' = RequestId /\ MaxConcurrent' = MaxConcurrent
  BY DEF Streams, RequestId, MaxConcurrent

\* Leaving the body of the slot keeps the local invariant.
LEMMA UnwindKeeps ==
    ASSUME TypeOK, LocalInv, setup' = setup,
           NEW r \in Runs, NEW res \in Results, pc[r] \in Supervised, Unwind(r, res),
           \A x \in Runs : x # r => answer'[x] = answer[x],
           r \notin Streams => Exited(r) \/ answer'[r] = "cut"
    PROVE  /\ LocalInv'
           /\ pc' \in [Runs -> {"idle", "queued", "left"} \cup Holding]
           /\ proc' \in [Runs -> {"none", "running", "dying", "ok", "failed", "killed"}]
           /\ registry' \in [Ids -> Runs \cup {NoRun}]
           /\ result' \in [Runs -> Results]
<1>s. /\ Streams \subseteq Runs /\ RequestId \in [Runs -> Ids]
      /\ Streams' = Streams /\ RequestId' = RequestId
  BY SetupFacts, SameSetup DEF TypeOK
<1> USE <1>s, ExecutionAssumption DEF TypeOK, Unwind, Goto, EndsAs
<1>1. pc' \in [Runs -> {"idle", "queued", "left"} \cup Holding]
  BY DEF Holding
<1>2. proc' \in [Runs -> {"none", "running", "dying", "ok", "failed", "killed"}]
  BY DEF KilledAtExit
<1>3. registry' \in [Ids -> Runs \cup {NoRun}]
  BY DEF Unregistered
<1>4. result' \in [Runs -> Results]
  OBVIOUS
<1>5. LiveIsSupervised' /\ NoProcessYet'
  BY DEF LocalInv, LiveIsSupervised, NoProcessYet, KilledAtExit, Supervised
<1>6. ReapedUnlessCut' /\ RunsReapTheirProcess'
  BY DEF LocalInv, ReapedUnlessCut, RunsReapTheirProcess, KilledAtExit, Exited
<1>7. RegistryTracksSupervised'
  BY DEF LocalInv, RegistryTracksSupervised, Unregistered, Supervised
<1>8. QED
  BY <1>1, <1>2, <1>3, <1>4, <1>5, <1>6, <1>7 DEF LocalInv

\* So does an interruption, wherever it strikes.
LEMMA InterruptedKeeps ==
    ASSUME TypeOK, LocalInv, setup' = setup, NEW r \in Runs, Interrupted(r),
           \A x \in Runs : x # r => answer'[x] = answer[x],
           answer'[r] = "cut" \/ (r \in Streams /\ answer'[r] = "cancel")
    PROVE  /\ LocalInv'
           /\ pc' \in [Runs -> {"idle", "queued", "left"} \cup Holding]
           /\ proc' \in [Runs -> {"none", "running", "dying", "ok", "failed", "killed"}]
           /\ registry' \in [Ids -> Runs \cup {NoRun}]
           /\ result' \in [Runs -> Results]
<1>s. /\ Streams \subseteq Runs /\ RequestId \in [Runs -> Ids]
      /\ Streams' = Streams /\ RequestId' = RequestId
  BY SetupFacts, SameSetup DEF TypeOK
<1> USE <1>s, ExecutionAssumption
<1>1. CASE \/ pc[r] \in Supervised /\ r \in Streams
           \/ pc[r] = "lingering"
  <2>1. pc[r] \in Supervised /\ Unwind(r, "interrupted") /\ "interrupted" \in Results
    BY <1>1 DEF Interrupted, Supervised, Results
  <2>2. QED
    BY <2>1, UnwindKeeps
<1>2. CASE pc[r] \in {"idle", "queued", "spawning"}
  <2>1. /\ pc' = [pc EXCEPT ![r] = pc'[r]] /\ pc'[r] \in {"left", "reaping"}
        /\ result' = [result EXCEPT ![r] = "interrupted"]
        /\ registry' = registry /\ proc' = proc /\ proc[r] = "none"
    BY <1>2 DEF Interrupted, Goto, EndsAs, TypeOK, LocalInv, NoProcessYet, Supervised
  <2>2. /\ pc' \in [Runs -> {"idle", "queued", "left"} \cup Holding]
        /\ result' \in [Runs -> Results]
    BY <2>1 DEF TypeOK, Holding, Results
  <2>3. LiveIsSupervised' /\ NoProcessYet' /\ ReapedUnlessCut' /\ RunsReapTheirProcess'
    BY <2>1 DEF TypeOK, LocalInv, LiveIsSupervised, NoProcessYet, ReapedUnlessCut,
                RunsReapTheirProcess
  <2>4. RegistryTracksSupervised'
    BY <1>2, <2>1 DEF TypeOK, LocalInv, RegistryTracksSupervised, Supervised
  <2>5. QED
    BY <2>1, <2>2, <2>3, <2>4 DEF TypeOK, LocalInv
<1>3. CASE r \notin Streams /\ pc[r] \in {"reading", "killing"}
  <2>1. /\ pc' = [pc EXCEPT ![r] = pc'[r]] /\ pc'[r] \in {"killing", "lingering"}
        /\ registry' = registry /\ result' = result
        /\ \/ proc' = proc
           \/ proc' = [proc EXCEPT ![r] = IF @ = "running" THEN "dying" ELSE @]
    BY <1>3 DEF Interrupted, Goto, Kill, TypeOK
  <2>2. /\ pc' \in [Runs -> {"idle", "queued", "left"} \cup Holding]
        /\ proc' \in [Runs -> {"none", "running", "dying", "ok", "failed", "killed"}]
    BY <2>1 DEF TypeOK, Holding
  <2>3. LiveIsSupervised' /\ NoProcessYet' /\ ReapedUnlessCut' /\ RunsReapTheirProcess'
    BY <2>1 DEF TypeOK, LocalInv, LiveIsSupervised, NoProcessYet, ReapedUnlessCut,
                RunsReapTheirProcess, Supervised
  <2>4. RegistryTracksSupervised'
    BY <2>1 DEF TypeOK, LocalInv, RegistryTracksSupervised, Supervised
  <2>5. QED
    BY <2>1, <2>2, <2>3, <2>4 DEF TypeOK, LocalInv
<1>4. CASE pc[r] \in {"reaping", "left"}
  <2>1. UNCHANGED <<registry, pc, proc, result>>
    BY <1>4 DEF Interrupted, Supervised
  <2>2. QED
    BY <2>1 DEF TypeOK, LocalInv, LiveIsSupervised, NoProcessYet, ReapedUnlessCut,
                RunsReapTheirProcess, RegistryTracksSupervised
<1>5. QED
  BY <1>1, <1>2, <1>3, <1>4 DEF Interrupted, Supervised

\* And a cancel of any id.
LEMMA CancelKeeps ==
    ASSUME TypeOK, LocalInv, setup' = setup, NEW id \in Ids, CancelId(id), pc' = pc,
           \A x \in Runs : answer'[x] = answer[x] \/ answer[x] = "none"
    PROVE  /\ LocalInv'
           /\ proc' \in [Runs -> {"none", "running", "dying", "ok", "failed", "killed"}]
           /\ registry' \in [Ids -> Runs \cup {NoRun}]
           /\ pendingCancel' \subseteq Ids
  BY ExecutionAssumption, SetupFacts, SameSetup
     DEF TypeOK, LocalInv, LiveIsSupervised, NoProcessYet, ReapedUnlessCut, RunsReapTheirProcess,
         RegistryTracksSupervised, CancelId, ProcsAfterCancel, Supervised

----
(* Counting slots. *)

\* A run that takes a slot: one more holder.
LEMMA OneMoreHolder ==
    ASSUME TypeOK, NEW r \in Runs, pc[r] \notin Holding,
           pc' = [pc EXCEPT ![r] = "spawning"]
    PROVE  Cardinality(Holders') = Cardinality(Holders) + 1
<1>1. Holders' = Holders \cup {r} /\ r \notin Holders
  BY DEF TypeOK, Holders, Holding
<1>2. IsFiniteSet(Holders)
  BY ExecutionAssumption, FS_Subset DEF Holders
<1>3. QED
  BY <1>1, <1>2, FS_AddElement, ZenonT(30)

\* A run that gives it back: one less.
LEMMA OneLessHolder ==
    ASSUME TypeOK, NEW r \in Runs, pc[r] \in Holding,
           pc' = [pc EXCEPT ![r] = "left"]
    PROVE  Cardinality(Holders') = Cardinality(Holders) - 1
<1>1. Holders' = Holders \ {r} /\ r \in Holders
  BY DEF TypeOK, Holders, Holding
<1>2. IsFiniteSet(Holders)
  BY ExecutionAssumption, FS_Subset DEF Holders
<1>3. QED
  BY <1>1, <1>2, FS_RemoveElement, ZenonT(30)

\* No other step changes who holds a slot.
LEMMA SameHolders ==
    ASSUME \A r \in Runs : pc'[r] \in Holding <=> pc[r] \in Holding
    PROVE  Holders' = Holders
  BY DEF Holders

\* As many free slots as no run holds.
LEMMA FreeSlots ==
    ASSUME IsFiniteSet(Runs), MaxConcurrent \in Nat, free \in Int, SlotsConserved
    PROVE  /\ Cardinality(Holders) \in Nat
           /\ free = MaxConcurrent - Cardinality(Holders)
           /\ free <= MaxConcurrent
<1>1. Cardinality(Holders) \in Nat
  BY FS_Subset, FS_CardinalityType, Holders \subseteq Runs DEF Holders
<1>2. QED
  BY <1>1 DEF SlotsConserved

----
(* Every step keeps the types and the local invariant ... *)

LEMMA LocalStep ==
    ASSUME TypeOK, LocalInv, [Next]_vars, free' \in 0..MaxConcurrent
    PROVE  TypeOK' /\ LocalInv'
<1>s. /\ setup' = setup /\ Streams' = Streams /\ RequestId' = RequestId
      /\ Streams \subseteq Runs /\ RequestId \in [Runs -> Ids] /\ MaxConcurrent' = MaxConcurrent
  BY SetupFacts, SameSetup DEF Next, vars, TypeOK
<1> USE <1>s, ExecutionAssumption
<1>1. ASSUME NEW r \in Runs, Enter(r)
      PROVE  TypeOK' /\ LocalInv'
  BY <1>1 DEF Enter, Goto, TypeOK, LocalInv, LiveIsSupervised, NoProcessYet,
              ReapedUnlessCut, RunsReapTheirProcess, RegistryTracksSupervised, Supervised
<1>2. ASSUME NEW r \in Runs, Acquire(r)
      PROVE  TypeOK' /\ LocalInv'
  BY <1>2 DEF Acquire, Goto, TypeOK, LocalInv, LiveIsSupervised, NoProcessYet,
              ReapedUnlessCut, RunsReapTheirProcess, RegistryTracksSupervised, Supervised, Holding
<1>3. ASSUME NEW r \in Runs, QueueTimeout(r)
      PROVE  TypeOK' /\ LocalInv'
  BY <1>3 DEF QueueTimeout, Goto, EndsAs, TypeOK, LocalInv, LiveIsSupervised, NoProcessYet,
              ReapedUnlessCut, RunsReapTheirProcess, RegistryTracksSupervised, Supervised, Results
<1>4. ASSUME NEW r \in Runs, SpawnFails(r)
      PROVE  TypeOK' /\ LocalInv'
  BY <1>4 DEF SpawnFails, Goto, EndsAs, TypeOK, LocalInv, LiveIsSupervised, NoProcessYet,
              ReapedUnlessCut, RunsReapTheirProcess, RegistryTracksSupervised, Supervised, Results, Holding
<1>5. ASSUME NEW r \in Runs, Spawn(r)
      PROVE  TypeOK' /\ LocalInv'
  <2>1. TypeOK'
    BY <1>5 DEF Spawn, Rivals, Goto, TypeOK, Holding
  <2>2. LiveIsSupervised' /\ NoProcessYet'
    BY <1>5 DEF Spawn, Goto, TypeOK, LocalInv, LiveIsSupervised, NoProcessYet, Supervised
  <2>3. ReapedUnlessCut' /\ RunsReapTheirProcess'
    BY <1>5 DEF Spawn, Goto, TypeOK, LocalInv, ReapedUnlessCut, RunsReapTheirProcess
  <2>4. RegistryTracksSupervised'
    BY <1>5 DEF Spawn, Goto, TypeOK, LocalInv, RegistryTracksSupervised, Supervised
  <2>5. QED
    BY <2>1, <2>2, <2>3, <2>4 DEF LocalInv
<1>6. ASSUME NEW r \in Runs, CleanupTimeout(r)
      PROVE  TypeOK' /\ LocalInv'
  BY <1>6 DEF CleanupTimeout, Goto, TypeOK, LocalInv, LiveIsSupervised, NoProcessYet,
              ReapedUnlessCut, RunsReapTheirProcess, RegistryTracksSupervised, Supervised, Holding
<1>7. ASSUME NEW r \in Runs, ReadTimeout(r) \/ ExitTimeout(r)
      PROVE  TypeOK' /\ LocalInv'
  BY <1>7 DEF ReadTimeout, ExitTimeout, Kill, Goto, TypeOK, LocalInv, LiveIsSupervised,
              NoProcessYet, ReapedUnlessCut,
              RunsReapTheirProcess, RegistryTracksSupervised, Supervised, Holding
<1>8. ASSUME NEW r \in Runs, Eof(r)
      PROVE  TypeOK' /\ LocalInv'
  BY <1>8 DEF Eof, Goto, TypeOK, LocalInv, LiveIsSupervised, NoProcessYet,
              ReapedUnlessCut, RunsReapTheirProcess, RegistryTracksSupervised, Supervised, Holding
<1>9. ASSUME NEW r \in Runs, Collect(r)
      PROVE  TypeOK' /\ LocalInv'
  <2>1. proc[r] \in Results /\ pc[r] \in Supervised /\ Unwind(r, proc[r])
    BY <1>9 DEF Collect, Exited, Results, Supervised
  <2>2. Exited(r)
    BY <1>9 DEF Collect
  <2>3. QED
    BY <1>9, <2>1, <2>2, UnwindKeeps DEF Collect, TypeOK
<1>10. ASSUME NEW r \in Runs, TimedOut(r)
       PROVE  TypeOK' /\ LocalInv'
  <2>1. pc[r] \in Supervised /\ Exited(r) /\ Unwind(r, "terminated") /\ "terminated" \in Results
    BY <1>10 DEF TimedOut, Supervised, Results
  <2>2. QED
    BY <1>10, <2>1, UnwindKeeps DEF TimedOut, TypeOK
<1>11. ASSUME NEW r \in Runs, Leave(r)
       PROVE  TypeOK' /\ LocalInv'
  BY <1>11 DEF Leave, Goto, Exited, TypeOK, LocalInv, LiveIsSupervised, NoProcessYet,
               ReapedUnlessCut, RunsReapTheirProcess, RegistryTracksSupervised, Supervised, Holding
<1>12. ASSUME NEW r \in Runs, ProcessExits(r)
       PROVE  TypeOK' /\ LocalInv'
  BY <1>12 DEF ProcessExits, TypeOK, LocalInv, LiveIsSupervised, NoProcessYet,
               ReapedUnlessCut, RunsReapTheirProcess, RegistryTracksSupervised
<1>13. ASSUME NEW r \in Runs, PumpCancels(r)
       PROVE  TypeOK' /\ LocalInv'
  <2>1. /\ RequestId[r] \in Ids /\ CancelId(RequestId[r]) /\ pc' = pc
        /\ \A x \in Runs : answer'[x] = answer[x] \/ answer[x] = "none"
    BY <1>13 DEF PumpCancels, TypeOK
  <2>2. QED
    BY <1>13, <2>1, CancelKeeps DEF PumpCancels, TypeOK, Answers
<1>14. ASSUME NEW r \in Runs, PumpStops(r) \/ Drop(r)
       PROVE  TypeOK' /\ LocalInv'
  <2>1. answer' \in [Runs -> Answers]
    BY <1>14 DEF PumpStops, Drop, TypeOK, Answers
  <2>2. /\ Interrupted(r)
        /\ \A x \in Runs : x # r => answer'[x] = answer[x]
        /\ answer'[r] = "cut" \/ (r \in Streams /\ answer'[r] = "cancel")
    BY <1>14 DEF PumpStops, Drop, TypeOK
  <2>3. QED
    BY <1>14, <2>1, <2>2, InterruptedKeeps DEF PumpStops, Drop, TypeOK
<1>15. ASSUME NEW r \in Runs, Reply(r)
       PROVE  TypeOK' /\ LocalInv'
  <2>1. answer' \in [Runs -> Answers]
    BY <1>15 DEF Reply, AnswersTo, TypeOK, Answers
  <2>2. QED
    BY <1>15, <2>1 DEF Reply, TypeOK, LocalInv, LiveIsSupervised, NoProcessYet,
                       ReapedUnlessCut, RunsReapTheirProcess, RegistryTracksSupervised
<1>16. ASSUME NEW id \in Ids, CancelRequest(id) \/ CancelConversation(id)
       PROVE  TypeOK' /\ LocalInv'
  <2>1. CancelId(id) /\ pc' = pc /\ answer' = answer
    BY <1>16 DEF CancelRequest, CancelConversation
  <2>2. cancelled' \subseteq Runs
    BY <1>16 DEF CancelRequest, CancelConversation, TypeOK
  <2>3. QED
    BY <1>16, <2>1, <2>2, CancelKeeps DEF CancelRequest, CancelConversation, TypeOK
<1>17. ASSUME UNCHANGED vars
       PROVE  TypeOK' /\ LocalInv'
  BY <1>17 DEF vars, TypeOK, LocalInv, LiveIsSupervised, NoProcessYet,
               ReapedUnlessCut, RunsReapTheirProcess, RegistryTracksSupervised
<1>18. QED
  BY <1>1, <1>2, <1>3, <1>4, <1>5, <1>6, <1>7, <1>8, <1>9, <1>10, <1>11, <1>12, <1>13, <1>14,
     <1>15, <1>16, <1>17 DEF Next, AdapterStep

----
(* ... and every slot. *)

LEMMA SlotsStep ==
    ASSUME TypeOK, SlotsConserved, [Next]_vars
    PROVE  SlotsConserved' /\ free' \in 0..MaxConcurrent
<1>s. /\ setup' = setup /\ RequestId \in [Runs -> Ids]
      /\ MaxConcurrent \in Nat \ {0} /\ MaxConcurrent' = MaxConcurrent
  BY SetupFacts, SameSetup DEF Next, vars, TypeOK
<1> USE <1>s, ExecutionAssumption
<1>f. /\ Cardinality(Holders) \in Nat
      /\ free \in Nat
      /\ free + Cardinality(Holders) = MaxConcurrent
  BY FreeSlots DEF TypeOK, SlotsConserved
<1>1. ASSUME NEW r \in Runs, Acquire(r)
      PROVE  SlotsConserved' /\ free' \in 0..MaxConcurrent
  <2>1. Cardinality(Holders') = Cardinality(Holders) + 1
    BY <1>1, OneMoreHolder DEF Acquire, Goto, Holding
  <2>2. QED
    BY <1>1, <1>f, <2>1 DEF Acquire, SlotsConserved
<1>2. ASSUME NEW r \in Runs, Leave(r)
      PROVE  SlotsConserved' /\ free' \in 0..MaxConcurrent
  <2>1. pc[r] \in Holding /\ r \in Holders
    BY <1>2 DEF Leave, Holding, Holders
  <2>2. Cardinality(Holders') = Cardinality(Holders) - 1
    BY <1>2, <2>1, OneLessHolder DEF Leave, Goto
  <2>3. Cardinality(Holders) # 0
    BY <2>1, FS_EmptySet, FS_Subset, Holders \subseteq Runs DEF Holders
  <2>4. QED
    BY <1>2, <1>f, <2>2, <2>3 DEF Leave, ReleaseSlot, SlotsConserved
<1>3. ASSUME free' = free, \A x \in Runs : pc'[x] \in Holding <=> pc[x] \in Holding
      PROVE  SlotsConserved' /\ free' \in 0..MaxConcurrent
  BY <1>3, <1>f, SameHolders DEF SlotsConserved
<1>4. ASSUME NEW r \in Runs,
             Enter(r) \/ QueueTimeout(r) \/ Spawn(r) \/ SpawnFails(r)
      PROVE  SlotsConserved' /\ free' \in 0..MaxConcurrent
  BY <1>3, <1>4 DEF Enter, QueueTimeout, Refuse, Spawn, SpawnFails, Goto, TypeOK, Holding
<1>5. ASSUME NEW r \in Runs,
             ReadTimeout(r) \/ Eof(r) \/ ExitTimeout(r) \/ CleanupTimeout(r) \/ Collect(r) \/ TimedOut(r)
      PROVE  SlotsConserved' /\ free' \in 0..MaxConcurrent
  BY <1>3, <1>5 DEF ReadTimeout, Eof, ExitTimeout, CleanupTimeout, Collect, TimedOut,
                    Unwind, Goto, TypeOK, Holding
<1>6. ASSUME NEW r \in Runs, ProcessExits(r) \/ PumpCancels(r) \/ Reply(r)
      PROVE  SlotsConserved' /\ free' \in 0..MaxConcurrent
  BY <1>3, <1>6 DEF ProcessExits, PumpCancels, Reply
<1>7. ASSUME NEW r \in Runs, PumpStops(r) \/ Drop(r)
      PROVE  SlotsConserved' /\ free' \in 0..MaxConcurrent
  <2>1. Interrupted(r) /\ free' = free
    BY <1>7 DEF PumpStops, Drop
  <2>2. \A x \in Runs : pc'[x] \in Holding <=> pc[x] \in Holding
    BY <2>1 DEF Interrupted, Unwind, Goto, TypeOK, Holding, Supervised
  <2>3. QED
    BY <1>3, <2>1, <2>2
<1>8. ASSUME NEW id \in Ids, CancelRequest(id) \/ CancelConversation(id)
      PROVE  SlotsConserved' /\ free' \in 0..MaxConcurrent
  BY <1>3, <1>8 DEF CancelRequest, CancelConversation
<1>9. ASSUME UNCHANGED vars
      PROVE  SlotsConserved' /\ free' \in 0..MaxConcurrent
  BY <1>3, <1>9 DEF vars
<1>10. QED
  BY <1>1, <1>2, <1>4, <1>5, <1>6, <1>7, <1>8, <1>9 DEF Next, AdapterStep

----
(* The invariant and what it implies. *)

LEMMA InitIInv == Init => IInv
<1> SUFFICES ASSUME Init PROVE IInv
  OBVIOUS
<1> USE ExecutionAssumption
<1>s. MaxConcurrent \in Nat \ {0}
  BY SetupFacts DEF Init
<1>1. TypeOK /\ LocalInv
  BY <1>s DEF Init, TypeOK, LocalInv, LiveIsSupervised, NoProcessYet, ReapedUnlessCut,
         RunsReapTheirProcess, RegistryTracksSupervised, Results, Answers, Supervised
<1>2. Holders = {}
  BY DEF Init, Holders, Holding
<1>3. SlotsConserved
  BY <1>s, <1>2, FS_EmptySet DEF Init, SlotsConserved
<1>4. QED
  BY <1>1, <1>3 DEF IInv, LocalInv

LEMMA NextIInv == IInv /\ [Next]_vars => IInv'
<1> SUFFICES ASSUME IInv, [Next]_vars PROVE IInv'
  OBVIOUS
<1>1. SlotsConserved' /\ free' \in 0..MaxConcurrent
  BY SlotsStep DEF IInv
<1>2. TypeOK' /\ LocalInv'
  BY <1>1, LocalStep DEF IInv, LocalInv
<1>3. QED
  BY <1>1, <1>2 DEF IInv, LocalInv

LEMMA ExecutionInvariant == Spec => []IInv
  BY InitIInv, NextIInv, PTL DEF Spec

\* Every variable keeps its type; in particular the semaphore never exceeds
\* harness_concurrency, so no path of run or stream releases a slot twice.
THEOREM ExecutionTypeCorrect == Spec => []TypeOK
<1>1. IInv => TypeOK
  BY DEF IInv
<1>2. QED
  BY <1>1, ExecutionInvariant, PTL

\* Success, failure, timeout, refusal, cancel and disconnect all give back
\* exactly the slot that was taken.
THEOREM ExecutionConservesSlots == Spec => []SlotsConserved
<1>1. IInv => SlotsConserved
  BY DEF IInv
<1>2. QED
  BY <1>1, ExecutionInvariant, PTL

\* There are never more unsignalled subprocesses than slots, although
\* processes start and end outside the queue's sight.
THEOREM ExecutionBoundsProcesses == Spec => []LiveProcessesBounded
<1>1. IInv => LiveProcessesBounded
  <2> SUFFICES ASSUME IInv PROVE LiveProcessesBounded
    OBVIOUS
  <2>1. Alive \subseteq Holders
    BY DEF IInv, LiveIsSupervised, Alive, Holders, Holding, Supervised
  <2>2. IsFiniteSet(Holders)
    BY ExecutionAssumption, FS_Subset, Holders \subseteq Runs DEF Holders
  <2>3. /\ Cardinality(Alive) \in Nat
        /\ Cardinality(Holders) \in Nat
        /\ Cardinality(Alive) <= Cardinality(Holders)
    BY <2>1, <2>2, FS_Subset, FS_CardinalityType
  <2>4. free \in Nat /\ MaxConcurrent \in Nat /\ free + Cardinality(Holders) = MaxConcurrent
    BY SetupFacts DEF IInv, TypeOK, SlotsConserved
  <2>5. QED
    BY <2>3, <2>4 DEF LiveProcessesBounded
<1>2. QED
  BY <1>1, ExecutionInvariant, PTL

\* A run that gave its slot back has left no process behind that nobody has
\* killed, and one that was not cancelled has left none at all.
THEOREM ExecutionReaps == Spec => []RunsReapTheirProcess
<1>1. IInv => RunsReapTheirProcess
  BY DEF IInv
<1>2. QED
  BY <1>1, ExecutionInvariant, PTL

\* The registry holds handles of supervised runs only, whoever registers,
\* cancels or cleans up under the same id.
THEOREM ExecutionRegistrySound == Spec => []RegistryTracksSupervised
<1>1. IInv => RegistryTracksSupervised
  BY DEF IInv
<1>2. QED
  BY <1>1, ExecutionInvariant, PTL

----
(* Cancelling by id. *)

\* Two processes that are watched under one id know of each other.
RivalsContested ==
    \A r, q \in Runs :
        /\ r # q
        /\ RequestId[r] = RequestId[q]
        /\ pc[r] \in Supervised
        /\ pc[q] \in Supervised
        => r \in contested

CancelInv == RivalsContested /\ CancellableWhileAlive

LEMMA CancellableStep ==
    ASSUME TypeOK, LiveIsSupervised, CancelInv, [Next]_vars
    PROVE  CancelInv'
<1>s. RequestId \in [Runs -> Ids] /\ RequestId' = RequestId
  BY SetupFacts, SameSetup DEF Next, vars, TypeOK
<1> USE <1>s, ExecutionAssumption
<1>1. ASSUME NEW r \in Runs, pc[r] \in Supervised, NEW res, Unwind(r, res), contested' = contested
      PROVE  CancelInv'
  <2>1. RivalsContested'
    BY <1>1 DEF Unwind, Goto, TypeOK, CancelInv, RivalsContested, Supervised
  <2>2. \A x \in Runs : proc'[x] = "running" => x # r /\ proc[x] = "running"
    BY <1>1 DEF Unwind, KilledAtExit, TypeOK
  <2>3. \A x \in Runs \ contested :
           x # r /\ proc[x] = "running" => RequestId[x] # RequestId[r]
    BY <1>1 DEF LiveIsSupervised, CancelInv, RivalsContested
  <2>4. CancellableWhileAlive'
    BY <1>1, <2>2, <2>3 DEF Unwind, Unregistered, TypeOK, CancelInv, CancellableWhileAlive
  <2>5. QED
    BY <2>1, <2>4 DEF CancelInv
<1>2. ASSUME NEW r \in Runs, Collect(r) \/ TimedOut(r)
      PROVE  CancelInv'
  <2>1. pc[r] \in Supervised /\ contested' = contested
    BY <1>2 DEF Collect, TimedOut, Supervised
  <2>2. Unwind(r, proc[r]) \/ Unwind(r, "terminated")
    BY <1>2 DEF Collect, TimedOut
  <2>3. QED
    BY <1>1, <2>1, <2>2
<1>3. ASSUME registry' = registry, contested' = contested,
             \A x \in Runs : /\ proc'[x] = "running" => proc[x] = "running"
                             /\ pc'[x] \in Supervised => pc[x] \in Supervised
      PROVE  CancelInv'
  BY <1>3 DEF CancelInv, RivalsContested, CancellableWhileAlive
<1>4. ASSUME NEW r \in Runs,
             \/ Enter(r) \/ Acquire(r) \/ QueueTimeout(r) \/ SpawnFails(r) \/ ReadTimeout(r)
             \/ CleanupTimeout(r) \/ Eof(r) \/ ExitTimeout(r) \/ Leave(r) \/ ProcessExits(r)
             \/ Reply(r)
      PROVE  CancelInv'
  <2>1. registry' = registry /\ contested' = contested
    BY <1>4 DEF Enter, Acquire, QueueTimeout, SpawnFails, ReadTimeout, CleanupTimeout, Eof,
                ExitTimeout, Leave, ProcessExits, Reply
  <2>2. ASSUME NEW x \in Runs, proc'[x] = "running" PROVE proc[x] = "running"
    BY <1>4, <2>2 DEF Enter, Acquire, QueueTimeout, SpawnFails, ReadTimeout, CleanupTimeout, Eof,
                ExitTimeout, Leave, ProcessExits, Reply, Kill, TypeOK
  <2>3. ASSUME NEW x \in Runs, pc'[x] \in Supervised PROVE pc[x] \in Supervised
    BY <1>4, <2>3 DEF Enter, Acquire, QueueTimeout, SpawnFails, ReadTimeout, CleanupTimeout, Eof,
                ExitTimeout, Leave, ProcessExits, Reply, Goto, TypeOK, Supervised
  <2>4. QED
    BY <1>3, <2>1, <2>2, <2>3
<1>5. ASSUME NEW r \in Runs, Spawn(r)
      PROVE  CancelInv'
  <2>1. /\ Rivals(r) \subseteq contested' /\ contested \subseteq contested'
        /\ Rivals(r) # {} => r \in contested'
    BY <1>5 DEF Spawn
  <2>2. pc' = [pc EXCEPT ![r] = "reading"] /\ pc \in [Runs -> {"idle", "queued", "left"} \cup Holding]
    BY <1>5 DEF Spawn, Goto, TypeOK
  <2>3. \A x \in Runs : x # r /\ RequestId[x] = RequestId[r] /\ pc[x] \in Supervised
                           => x \in Rivals(r)
    BY DEF Rivals
  <2>4. RivalsContested'
    <3> SUFFICES ASSUME NEW x \in Runs, NEW y \in Runs, x # y, RequestId[x] = RequestId[y],
                        pc'[x] \in Supervised, pc'[y] \in Supervised
                 PROVE  x \in contested'
      BY DEF RivalsContested
    <3>1. CASE x # r /\ y # r
      BY <2>1, <2>2, <3>1 DEF CancelInv, RivalsContested
    <3>2. CASE x = r
      BY <2>1, <2>2, <2>3, <3>2
    <3>3. CASE y = r
      BY <2>1, <2>2, <2>3, <3>3
    <3>4. QED
      BY <3>1, <3>2, <3>3
  <2>5. CancellableWhileAlive'
    <3> SUFFICES ASSUME NEW x \in Runs, x \notin contested', proc'[x] = "running"
                 PROVE  registry'[RequestId[x]] = x
      BY DEF CancellableWhileAlive
    <3>1. CASE x = r
      BY <1>5, <3>1 DEF Spawn, TypeOK
    <3>2. CASE x # r
      <4>1. proc[x] = "running" /\ pc[x] \in Supervised
        BY <1>5, <3>2 DEF Spawn, TypeOK, LiveIsSupervised
      <4>2. RequestId[x] # RequestId[r]
        BY <2>1, <2>3, <3>2, <4>1
      <4>3. registry[RequestId[x]] = x
        BY <2>1, <4>1 DEF CancelInv, CancellableWhileAlive
      <4>4. QED
        BY <1>5, <4>2, <4>3 DEF Spawn, TypeOK
    <3>3. QED
      BY <3>1, <3>2
  <2>6. QED
    BY <2>4, <2>5 DEF CancelInv
<1>6. ASSUME NEW id \in Ids, CancelId(id), pc' = pc, contested' = contested
      PROVE  CancelInv'
  <2>1. RivalsContested'
    BY <1>6 DEF CancelInv, RivalsContested
  <2>2. CancellableWhileAlive'
    BY <1>6 DEF CancelId, ProcsAfterCancel, TypeOK, CancelInv, CancellableWhileAlive
  <2>3. QED
    BY <2>1, <2>2 DEF CancelInv
<1>7. ASSUME NEW r \in Runs,
             PumpCancels(r) \/ CancelRequest(RequestId[r]) \/ CancelConversation(RequestId[r])
      PROVE  CancelInv'
  BY <1>6, <1>7 DEF PumpCancels, CancelRequest, CancelConversation
<1>8. ASSUME NEW r \in Runs, PumpStops(r) \/ Drop(r)
      PROVE  CancelInv'
  <2>1. Interrupted(r) /\ contested' = contested
    BY <1>8 DEF PumpStops, Drop
  <2>2. CASE pc[r] \in Supervised /\ Unwind(r, "interrupted")
    BY <1>1, <2>1, <2>2
  <2>3. CASE ~(pc[r] \in Supervised /\ Unwind(r, "interrupted"))
    <3>1. registry' = registry
      BY <2>1, <2>3 DEF Interrupted, Supervised
    <3>2. ASSUME NEW x \in Runs, proc'[x] = "running" PROVE proc[x] = "running"
      BY <2>1, <2>3, <3>2 DEF Interrupted, Kill, TypeOK, Supervised
    <3>3. ASSUME NEW x \in Runs, pc'[x] \in Supervised PROVE pc[x] \in Supervised
      BY <2>1, <2>3, <3>3 DEF Interrupted, Goto, TypeOK, Supervised
    <3>4. QED
      BY <1>3, <2>1, <3>1, <3>2, <3>3
  <2>4. QED
    BY <2>2, <2>3
<1>9. ASSUME UNCHANGED vars
      PROVE  CancelInv'
  BY <1>3, <1>9 DEF vars
<1>10. QED
  BY <1>2, <1>4, <1>5, <1>7, <1>8, <1>9 DEF Next, AdapterStep

\* A cancel by id reaches every process that lives, at every moment of its
\* run, as long as no other process runs under the same id: the runs that
\* shared theirs at some time are the only exceptions.
THEOREM ExecutionCancellable == Spec => []CancellableWhileAlive
<1>1. Init => CancelInv
  BY DEF Init, CancelInv, RivalsContested, CancellableWhileAlive, Supervised
<1>2. IInv /\ CancelInv /\ [Next]_vars => CancelInv'
  BY CancellableStep DEF IInv
<1>3. CancelInv => CancellableWhileAlive
  BY DEF CancelInv
<1>4. QED
  BY <1>1, <1>2, <1>3, ExecutionInvariant, PTL DEF Spec
====
