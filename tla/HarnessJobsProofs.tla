------------------------- MODULE HarnessJobsProofs -------------------------
(***************************************************************************)
(* The safety of HarnessJobs, for any cap of the log, any output of the    *)
(* installer and any number of cancel requests and event streams.          *)
(***************************************************************************)
EXTENDS HarnessJobs, SequenceTheorems, TLAPS

----
(* The inductive invariant about the task, the installer and cancels.      *)

Accepted == \E a \in Admins : answer[a] \in {"killed", "marked"}
BeforeSpawn == {"none", "start", "scheduled", "opened", "spawning"}
AfterDrain == {"ended", "settled", "raised", "over", "expired"}

\* There is no installer before it is spawned, none runs once its output has
\* ended, and a late watcher has killed it.
InstallerFollowsTask ==
  /\ task \in BeforeSpawn \cup {"raised"} => proc = "none" /\ ~registered
  /\ task \in AfterDrain \/ late => proc # "running"
  /\ late => task \in AfterDrain \cup {"draining"}

\* Only a task past its last event has a finished job, and only then a copy.
FinishedFollowsTask ==
  /\ stage \in Finished => task \in AfterDrain
  /\ mirror \in Finished => stage \in Finished

\* A running installer can be reached, by its handle or by the mark.
CancelsAreKept ==
  /\ task = "draining" /\ proc = "running" => registered
  /\ task = "spawned" => ~registered
  /\ task \in {"none", "start"} => ~Accepted
  /\ Accepted /\ task \in {"scheduled", "opened", "spawning", "spawned"} => flagged

\* The uncapped append, by the step that settles the job, finds the log capped.
LogWithinCap == task \notin {"settled", "over", "expired"} => Len(logs) <= MaxLogs

ControlInv == /\ InstallerFollowsTask
              /\ FinishedFollowsTask
              /\ CancelsAreKept
              /\ CancelReachesInstaller
              /\ CompletedMeansExitedZero

IInv == TypeOK /\ LogWithinCap /\ ControlInv

----
(* Types                                                                   *)

\* A capped append keeps a log within its cap, and the bound of TypeOK.
LEMMA CappedType ==
  ASSUME NEW log \in Seq(Nat), Len(log) <= MaxLogs + 1, NEW e \in Nat
  PROVE  /\ Capped(log, e) \in Seq(Nat)
         /\ Len(Capped(log, e)) <= MaxLogs + 1
         /\ Len(log) <= MaxLogs => Len(Capped(log, e)) <= MaxLogs
<1>1. CASE Len(log) >= MaxLogs
  <2>1. log # <<>>
    BY <1>1, MaxLogsAssumption
  <2>2. Tail(log) \in Seq(Nat) /\ Len(Tail(log)) = Len(log) - 1
    BY <2>1, HeadTailProperties
  <2>3. QED
    BY <1>1, <2>2, AppendProperties DEF Capped
<1>2. CASE Len(log) < MaxLogs
  BY <1>2, AppendProperties, MaxLogsAssumption DEF Capped
<1>3. QED
  BY <1>1, <1>2, MaxLogsAssumption

LogType == told \in Nat /\ logs \in Seq(Nat) /\ Len(logs) <= MaxLogs + 1

\* Every append but the one of a late cancel keeps the log's type and its cap.
LEMMA AddKeepsLog ==
  ASSUME LogType, Add \/ AddIfRoom \/ UNCHANGED <<logs, told>>
  PROVE  LogType' /\ (Len(logs) <= MaxLogs => Len(logs') <= MaxLogs)
<1>1. CASE Add
  BY <1>1, CappedType DEF LogType, Add
<1>2. CASE UNCHANGED <<logs, told>>
  BY <1>2 DEF LogType
<1>3. QED
  BY <1>1, <1>2 DEF AddIfRoom

\* That one exceeds the cap by one at most.
LEMMA AddAnywayKeepsLog ==
  ASSUME LogType, Len(logs) <= MaxLogs, AddAnyway
  PROVE  LogType'
BY MaxLogsAssumption, AppendProperties DEF LogType, AddAnyway

\* The log after any step of the job and its requests.
LEMMA LogStep ==
  ASSUME TypeOK, LogWithinCap, [Next]_vars
  PROVE  LogType' /\ LogWithinCap'
<1> USE DEF Proceeds, Mirrored, jobVars, mirrorVars, procVars, cancelVars
<1>1. LogType
  BY DEF TypeOK, LogType
<1>2. CASE Announce \/ SpawnFails \/ Line \/ LastEvent
  <2>1. Add \/ AddIfRoom \/ UNCHANGED <<logs, told>>
    BY <1>2 DEF Announce, SpawnFails, Line, LastEvent
  <2>2. task \notin {"settled", "over", "expired"}
    BY <1>2 DEF Announce, SpawnFails, Line, LastEvent
  <2>3. QED
    BY <1>1, <2>1, <2>2, AddKeepsLog DEF LogWithinCap
<1>3. CASE Settle
  <2>1. Len(logs) <= MaxLogs
    BY <1>3 DEF Settle, LogWithinCap
  <2>2. CASE AddAnyway
    BY <1>1, <1>3, <2>1, <2>2, AddAnywayKeepsLog DEF Settle, LogWithinCap
  <2>3. CASE UNCHANGED jobVars
    BY <1>1, <1>3, <2>3 DEF Settle, LogWithinCap, LogType
  <2>4. QED
    BY <1>3, <2>2, <2>3 DEF Settle
<1>4. CASE StartJob \/ Schedule \/ Begin \/ Spawn \/ Register \/ Close \/ Expire
  BY <1>1, <1>4
     DEF StartJob, Schedule, Begin, Spawn, Register, Close, Expire, LogWithinCap, LogType
<1>5. CASE Sync \/ Output \/ Exit \/ WatchTimeout \/ UNCHANGED vars
  BY <1>1, <1>5 DEF Sync, Output, Exit, WatchTimeout, vars, LogWithinCap, LogType
<1>6. CASE (\E a \in Admins : Cancel(a)) \/ (\E w \in Watchers : Open(w) \/ Poll(w) \/ Resume(w))
  BY <1>1, <1>6 DEF Cancel, CancelProcess, Open, Poll, Resume, LogWithinCap, LogType
<1>7. QED
  BY <1>2, <1>3, <1>4, <1>5, <1>6 DEF Next, JobStep

StreamType == [at : {"closed", "polling", "sending", "done"},
               index : Nat, todo : Seq(Nat), sent : Seq(Nat)]

\* A stream keeps its type when it sends an entry and when it has caught up.
LEMMA StreamStepType ==
  ASSUME TypeOK, NEW w \in Watchers, Open(w) \/ Poll(w) \/ Resume(w)
  PROVE  watch' \in [Watchers -> StreamType]
<1> DEFINE s == watch[w]
<1>1. s \in StreamType /\ watch \in [Watchers -> StreamType]
  BY DEF TypeOK, StreamType
<1>2. ASSUME NEW entries \in Seq(Nat), entries # <<>>
      PROVE  Sending(s, entries) \in StreamType
  BY <1>1, <1>2, HeadTailProperties, AppendProperties DEF Sending, StreamType
<1>3. Caught(s) \in StreamType
  <2>1. Len(logs) \in Nat
    BY LenProperties DEF TypeOK
  <2>2. QED
    BY <1>1, <2>1 DEF Caught, StreamType
<1>4. CASE Open(w)
  BY <1>1, <1>4 DEF Open, StreamType
<1>5. CASE Poll(w)
  <2>1. SubSeq(logs, s.index + 1, Len(logs)) \in Seq(Nat)
    BY <1>1, SubSeqProperties DEF TypeOK, StreamType
  <2>2. QED
    BY <1>1, <1>2, <1>3, <1>5, <2>1 DEF Poll
<1>6. CASE Resume(w)
  <2>1. s.todo \in Seq(Nat)
    BY <1>1 DEF StreamType
  <2>2. QED
    BY <1>1, <1>2, <1>3, <1>6, <2>1 DEF Resume
<1>7. QED
  BY <1>4, <1>5, <1>6

\* Every variable keeps its type.
LEMMA TypeStep ==
  ASSUME TypeOK, LogWithinCap, [Next]_vars
  PROVE  TypeOK'
<1> DEFINE Rest == /\ task \in Tasks /\ stage \in Stages
                   /\ syncing \in BOOLEAN /\ mirror \in Stages \cup {"none"}
                   /\ proc \in {"none", "running", "signalled", "exited"}
                   /\ exitOk \in BOOLEAN
                   /\ printed \in 0..MaxLines /\ unread \in 0..printed
                   /\ late \in BOOLEAN /\ registered \in BOOLEAN /\ flagged \in BOOLEAN
<1>1. LogType'
  BY LogStep
<1>2. watch' \in [Watchers -> StreamType]
  <2>1. watch \in [Watchers -> StreamType]
    BY DEF TypeOK, StreamType
  <2>2. CASE \E w \in Watchers : Open(w) \/ Poll(w) \/ Resume(w)
    BY <2>2, StreamStepType
  <2>3. CASE UNCHANGED watch
    BY <2>1, <2>3
  <2>4. QED
    BY <2>2, <2>3 DEF Next, JobStep, StartJob, Schedule, Begin, Announce, Spawn,
       SpawnFails, Register, Line, LastEvent, Settle, Close, Expire, Sync, Output,
       Exit, WatchTimeout, Cancel, CancelProcess, vars
<1>3. answer' \in [Admins -> {"none", "already_finished", "killed", "marked"}]
  <2>1. CASE \E a \in Admins : Cancel(a)
    BY <2>1 DEF TypeOK, Cancel, CancelProcess
  <2>2. CASE UNCHANGED answer
    BY <2>2 DEF TypeOK
  <2>3. QED
    BY <2>1, <2>2 DEF Next, JobStep, StartJob, Schedule, Begin, Announce, Spawn,
       SpawnFails, Register, Line, LastEvent, Settle, Close, Expire, Sync, Output,
       Exit, WatchTimeout, Open, Poll, Resume, vars
<1>4. Rest'
  <2> USE MaxLinesAssumption DEF Proceeds, Mirrored, jobVars, mirrorVars, procVars,
          cancelVars, Tasks, Stages, Finished, Killed, Outcome
  <2>1. Rest
    BY DEF TypeOK
  <2>2. CASE StartJob \/ Schedule \/ Begin \/ Announce \/ Spawn \/ SpawnFails
    BY <2>1, <2>2 DEF StartJob, Schedule, Begin, Announce, Spawn, SpawnFails
  <2>3. CASE Register \/ Sync
    <3>1. CASE Register /\ flagged
      BY <2>1, <3>1 DEF Register
    <3>2. CASE Register /\ ~flagged
      BY <2>1, <3>2 DEF Register
    <3>3. CASE Sync
      <4>1. mirror' \in Stages \cup {"none"} /\ syncing' \in BOOLEAN
        BY <2>1, <3>3 DEF Sync
      <4>2. QED
        BY <2>1, <3>3, <4>1 DEF Sync
    <3>4. QED
      BY <2>3, <3>1, <3>2, <3>3
  <2>4. CASE Line
    BY <2>1, <2>4 DEF Line
  <2>5. CASE LastEvent
    BY <2>1, <2>5 DEF LastEvent
  <2>6. CASE Settle \/ Close \/ Expire
    <3>1. stage' \in Stages
      BY <2>1, <2>6 DEF Settle, Close, Expire
    <3>2. QED
      BY <2>1, <2>6, <3>1 DEF Settle, Close, Expire
  <2>7. CASE Output \/ Exit \/ WatchTimeout
    <3>1. CASE Output
      BY <2>1, <3>1 DEF Output
    <3>2. CASE Exit
      BY <2>1, <3>2 DEF Exit
    <3>3. CASE WatchTimeout
      BY <2>1, <3>3 DEF WatchTimeout
    <3>4. QED
      BY <2>7, <3>1, <3>2, <3>3
  <2>8. CASE UNCHANGED vars
    BY <2>1, <2>8 DEF vars
  <2>9. CASE \E a \in Admins : Cancel(a)
    <3>1. UNCHANGED <<task, stage, syncing, mirror, exitOk, printed, unread, late>>
      BY <2>9 DEF Cancel, CancelProcess
    <3>2. proc' \in {proc, Killed}
      BY <2>9 DEF Cancel, CancelProcess
    <3>3. registered' \in BOOLEAN /\ flagged' \in BOOLEAN
      BY <2>1, <2>9 DEF Cancel, CancelProcess
    <3>4. QED
      BY <2>1, <3>1, <3>2, <3>3
  <2>10. CASE \E w \in Watchers : Open(w) \/ Poll(w) \/ Resume(w)
    BY <2>1, <2>10 DEF Open, Poll, Resume
  <2>11. QED
    BY <2>2, <2>3, <2>4, <2>5, <2>6, <2>7, <2>8, <2>9, <2>10 DEF Next, JobStep
<1>5. QED
  BY <1>1, <1>2, <1>3, <1>4 DEF TypeOK, LogType, StreamType

----
(* The task, the installer and cancels                                     *)

\* A step that is not a cancel accepts none.
LEMMA OnlyCancelAnswers ==
  ASSUME [Next]_vars, ~\E a \in Admins : Cancel(a)
  PROVE  answer' = answer
BY DEF Next, JobStep, StartJob, Schedule, Begin, Announce, Spawn, SpawnFails, Register,
   Line, LastEvent, Settle, Close, Expire, Sync, Output, Exit, WatchTimeout, Open, Poll,
   Resume, vars

\* Every step of the task, the installer and the requests keeps the invariant.
LEMMA ControlStep ==
  ASSUME TypeOK, ControlInv, [Next]_vars
  PROVE  ControlInv'
<1> USE DEF ControlInv, InstallerFollowsTask, FinishedFollowsTask, CancelsAreKept,
        CancelReachesInstaller, CompletedMeansExitedZero, BeforeSpawn, AfterDrain,
        Finished, Killed, Proceeds, Mirrored, jobVars, mirrorVars, procVars, cancelVars
<1>1. CASE \E a \in Admins : Cancel(a)
  <2>1. PICK a \in Admins : Cancel(a)
    BY <1>1
  <2>2. task \notin {"none", "start", "expired"}
    BY <2>1 DEF Cancel, CancelProcess, Known
  <2>3. CASE answer' = [answer EXCEPT ![a] = "already_finished"]
    <3>1. Accepted' => Accepted
      BY <2>1, <2>3 DEF Accepted, TypeOK
    <3>2. UNCHANGED <<task, jobVars, mirrorVars, procVars, late, cancelVars>>
      BY <2>1, <2>3 DEF Cancel, CancelProcess, TypeOK
    <3>3. QED
      BY <3>1, <3>2 DEF Accepted
  <2>4. CASE stage \notin Finished /\ registered /\ registered' = FALSE
              /\ proc' = Killed /\ UNCHANGED flagged
    <3>1. UNCHANGED <<task, jobVars, mirrorVars, exitOk, late>>
      BY <2>1 DEF Cancel, CancelProcess
    <3>2. QED
      BY <2>2, <2>4, <3>1 DEF Accepted
  <2>5. CASE stage \notin Finished /\ ~registered /\ flagged' = TRUE
              /\ UNCHANGED <<proc, registered>>
    <3>1. UNCHANGED <<task, jobVars, mirrorVars, exitOk, late>>
      BY <2>1 DEF Cancel, CancelProcess
    <3>2. QED
      BY <2>2, <2>5, <3>1 DEF Accepted, TypeOK, Tasks
  <2>6. QED
    BY <2>1, <2>3, <2>4, <2>5 DEF Cancel, CancelProcess
<1>2. CASE ~\E a \in Admins : Cancel(a)
  <2>1. Accepted' <=> Accepted
    BY <1>2, OnlyCancelAnswers DEF Accepted
  <2> USE <2>1 DEF Accepted
  <2>2. CASE StartJob \/ Schedule \/ Begin
    BY <2>2 DEF StartJob, Schedule, Begin
  <2>3. CASE Announce \/ Spawn \/ SpawnFails
    <3>1. CASE Announce
      BY <3>1 DEF Announce
    <3>2. CASE Spawn
      <4>1. task' = "spawned" /\ task = "spawning"
        BY <3>2 DEF Spawn
      <4>2. UNCHANGED <<stage, mirror, exitOk, late>> /\ stage \notin Finished
        BY <3>2 DEF Spawn
      <4>3. ~late' /\ ~registered' /\ (Accepted => flagged')
        BY <3>2 DEF Spawn
      <4>4. QED
        BY <4>1, <4>2, <4>3
    <3>3. CASE SpawnFails
      BY <3>3 DEF SpawnFails
    <3>4. QED
      BY <2>3, <3>1, <3>2, <3>3
  <2>4. CASE Register \/ Line
    BY <2>4 DEF Register, Line
  <2>5. CASE LastEvent
    BY <2>5 DEF LastEvent, Outcome
  <2>6. CASE Settle \/ Close \/ Expire \/ Sync
    BY <2>6 DEF Settle, Close, Expire, Sync, AddAnyway
  <2>7. CASE Output \/ Exit \/ WatchTimeout \/ UNCHANGED vars
    BY <2>7 DEF Output, Exit, WatchTimeout, vars
  <2>8. CASE \E w \in Watchers : Open(w) \/ Poll(w) \/ Resume(w)
    BY <2>8 DEF Open, Poll, Resume
  <2>9. QED
    BY <1>2, <2>2, <2>3, <2>4, <2>5, <2>6, <2>7, <2>8 DEF Next, JobStep
<1>3. QED
  BY <1>1, <1>2

----
(* Event streams                                                           *)

\* The log holds the latest entries without a gap.
LogIsContiguous == \A i \in 1..Len(logs) : logs[i] + Len(logs) = told + i

\* What a stream has sent and is about to send ascends and has been appended;
\* what it has sent is older than all it will find beyond its index.
StreamAscends(s) ==
  /\ \A i \in 1..Len(s.sent) : s.sent[i] <= told
  /\ \A i \in 1..Len(s.todo) : s.todo[i] <= told
  /\ \A i, k \in 1..Len(s.sent) : i < k => s.sent[i] < s.sent[k]
  /\ \A i, k \in 1..Len(s.todo) : i < k => s.todo[i] < s.todo[k]
  /\ \A i \in 1..Len(s.sent), k \in 1..Len(s.todo) : s.sent[i] < s.todo[k]
  /\ s.at = "closed" => s.sent = <<>> /\ s.index = 0
  /\ s.at \in {"closed", "polling"} =>
       \A i \in 1..Len(s.sent), k \in 1..Len(logs) :
         k > s.index => s.sent[i] < logs[k]

StreamInv == LogIsContiguous /\ \A w \in Watchers : StreamAscends(watch[w])

\* The log's entries after an append, in terms of those before it.
LEMMA LogAfterAppend ==
  ASSUME LogType, LogIsContiguous, Add \/ AddAnyway
  PROVE  /\ LogIsContiguous'
         /\ told' = told + 1
         /\ Len(logs') \in Nat /\ Len(logs) \in Nat /\ Len(logs') >= Len(logs)
         /\ \A k \in 1..Len(logs') :
              \/ logs'[k] = told + 1
              \/ k \in 1..Len(logs) /\ logs'[k] >= logs[k]
<1> USE DEF LogType
<1>1. Len(logs) \in Nat /\ \A i \in 1..Len(logs) : logs[i] \in Nat
  BY LenProperties, ElementOfSeq
<1>2. told' = told + 1 /\ told + 1 \in Nat
  BY DEF Add, AddAnyway
<1>3. CASE logs' = Append(logs, told + 1)
  <2>1. /\ Len(logs') = Len(logs) + 1
        /\ \A i \in 1..Len(logs) : logs'[i] = logs[i]
        /\ logs'[Len(logs) + 1] = told + 1
    BY <1>2, <1>3, AppendProperties
  <2>2. ASSUME NEW k \in 1..Len(logs')
        PROVE  k \in 1..Len(logs) \/ k = Len(logs) + 1
    BY <1>1, <2>1
  <2>3. LogIsContiguous'
    <3>1. ASSUME NEW k \in 1..Len(logs')
          PROVE  logs'[k] + Len(logs') = told' + k
      <4>1. CASE k \in 1..Len(logs)
        <5>1. logs[k] + Len(logs) = told + k /\ logs[k] \in Nat /\ logs'[k] = logs[k]
          BY <1>1, <2>1, <4>1 DEF LogIsContiguous
        <5>2. /\ Len(logs') = Len(logs) + 1 /\ told' = told + 1
              /\ told \in Nat /\ k \in Int /\ Len(logs) \in Nat
          BY <1>1, <1>2, <2>1
        <5> HIDE DEF LogIsContiguous
        <5>3. \A a, b, c, d \in Int : a + b = c + d => a + (b + 1) = (c + 1) + d
          OBVIOUS
        <5>4. QED
          BY <5>1, <5>2, <5>3
      <4>2. CASE k = Len(logs) + 1
        BY <1>1, <1>2, <2>1, <4>2
      <4>3. QED
        BY <2>2, <4>1, <4>2
    <3>2. QED
      BY <3>1 DEF LogIsContiguous
  <2>4. QED
    BY <1>1, <1>2, <2>1, <2>2, <2>3
<1>4. CASE logs' = Append(Tail(logs), told + 1) /\ Len(logs) >= MaxLogs
  <2>1. logs # <<>>
    BY <1>4, MaxLogsAssumption
  <2>2. /\ Tail(logs) \in Seq(Nat) /\ Len(Tail(logs)) = Len(logs) - 1
        /\ \A i \in 1..Len(logs) - 1 : Tail(logs)[i] = logs[i + 1]
    BY <2>1, HeadTailProperties
  <2>3. /\ Len(logs') = Len(logs)
        /\ \A i \in 1..Len(logs) - 1 : logs'[i] = logs[i + 1]
        /\ logs'[Len(logs)] = told + 1
    BY <1>1, <1>2, <1>4, <2>1, <2>2, AppendProperties
  <2>4. ASSUME NEW k \in 1..Len(logs')
        PROVE  (k \in 1..Len(logs) - 1 /\ k + 1 \in 1..Len(logs)) \/ k = Len(logs)
    BY <1>1, <2>3
  <2>5. ASSUME NEW k \in 1..Len(logs) - 1
        PROVE  /\ logs[k] \in Nat /\ logs[k + 1] = logs[k] + 1
               /\ logs[k + 1] + Len(logs) = told + k + 1
    <3>1. k \in 1..Len(logs) /\ k + 1 \in 1..Len(logs)
      BY <1>1
    <3>2. /\ logs[k] + Len(logs) = told + k /\ logs[k] \in Nat
          /\ logs[k + 1] + Len(logs) = told + (k + 1) /\ logs[k + 1] \in Nat
      BY <1>1, <3>1 DEF LogIsContiguous
    <3>3. QED
      BY <1>1, <3>2
  <2>6. LogIsContiguous'
    <3>1. ASSUME NEW k \in 1..Len(logs')
          PROVE  logs'[k] + Len(logs') = told' + k
      <4>1. CASE k \in 1..Len(logs) - 1
        <5>1. logs'[k] = logs[k + 1] /\ logs[k] \in Nat /\ logs[k + 1] = logs[k] + 1
          BY <2>3, <2>5, <4>1
        <5>2. QED
          BY <1>1, <1>2, <2>3, <2>5, <4>1, <5>1
      <4>2. CASE k = Len(logs)
        BY <1>1, <1>2, <2>3, <4>2
      <4>3. QED
        BY <2>4, <4>1, <4>2
    <3>2. QED
      BY <3>1 DEF LogIsContiguous
  <2>7. QED
    BY <1>1, <1>2, <2>3, <2>4, <2>5, <2>6
<1>5. QED
  BY <1>3, <1>4 DEF Add, AddAnyway, Capped

\* A step on the log keeps what each stream has sent and found in order.
LEMMA StreamsAfterAppend ==
  ASSUME TypeOK, StreamInv, Add \/ AddAnyway, UNCHANGED watch
  PROVE  StreamInv'
<1>1. /\ LogIsContiguous' /\ told' = told + 1 /\ told \in Nat
      /\ Len(logs') \in Nat /\ Len(logs) \in Nat /\ Len(logs') >= Len(logs)
      /\ \A k \in 1..Len(logs') : \/ logs'[k] = told + 1
                                  \/ k \in 1..Len(logs) /\ logs'[k] >= logs[k]
  BY LogAfterAppend DEF StreamInv, TypeOK, LogType
<1>2. ASSUME NEW w \in Watchers
      PROVE  StreamAscends(watch[w])'
  <2> DEFINE s == watch[w]
  <2>1. StreamAscends(s) /\ watch'[w] = s
    BY DEF StreamInv
  <2>2. /\ s.sent \in Seq(Nat) /\ s.todo \in Seq(Nat) /\ s.index \in Nat
        /\ Len(s.sent) \in Nat /\ Len(s.todo) \in Nat
        /\ \A i \in 1..Len(s.sent) : s.sent[i] \in Nat
        /\ \A i \in 1..Len(s.todo) : s.todo[i] \in Nat
        /\ \A i \in 1..Len(logs) : logs[i] \in Nat
    BY LenProperties, ElementOfSeq DEF TypeOK
  <2>3. ASSUME s.at \in {"closed", "polling"},
               NEW i \in 1..Len(s.sent), NEW k \in 1..Len(logs'), k > s.index
        PROVE  s.sent[i] < logs'[k]
    <3>1. CASE logs'[k] = told + 1
      BY <1>1, <2>1, <2>2, <3>1 DEF StreamAscends
    <3>2. CASE k \in 1..Len(logs) /\ logs'[k] >= logs[k]
      <4>1. s.sent[i] < logs[k]
        BY <2>1, <2>3, <3>2 DEF StreamAscends
      <4>2. logs'[k] \in Nat
        <5>1. told + 1 \in Nat /\ logs \in Seq(Nat) /\ Len(logs) <= MaxLogs + 1
          BY <1>1 DEF TypeOK
        <5>2. CASE Add
          BY <5>1, <5>2, CappedType, ElementOfSeq DEF Add
        <5>3. CASE AddAnyway
          BY <5>1, <5>3, AppendProperties, ElementOfSeq DEF AddAnyway
        <5>4. QED
          BY <5>2, <5>3
      <4>3. s.sent[i] \in Nat /\ logs[k] \in Nat /\ logs'[k] >= logs[k]
        BY <2>2, <3>2
      <4>4. QED
        BY <4>1, <4>2, <4>3
    <3>3. QED
      BY <1>1, <3>1, <3>2
  <2>4. /\ \A i \in 1..Len(s.sent) : s.sent[i] <= told'
        /\ \A i \in 1..Len(s.todo) : s.todo[i] <= told'
    <3>1. \A n \in Nat : n <= told => n <= told'
      BY <1>1
    <3>2. QED
      BY <2>1, <2>2, <3>1 DEF StreamAscends
  <2>5. QED
    BY <2>1, <2>3, <2>4 DEF StreamAscends
<1>3. QED
  BY <1>1, <1>2 DEF StreamInv

\* So does handing out the next entries, oldest first.
LEMMA SendingAscends ==
  ASSUME NEW s \in StreamType, NEW entries \in Seq(Nat), entries # <<>>,
         StreamAscends([s EXCEPT !.at = "sending", !.todo = entries])
  PROVE  StreamAscends(Sending(s, entries))
<1> DEFINE r == Sending(s, entries)
<1>1. /\ r.sent = Append(s.sent, Head(entries)) /\ r.todo = Tail(entries)
      /\ r.at = "sending"
  BY DEF Sending, StreamType
<1>2. /\ s.sent \in Seq(Nat) /\ Len(s.sent) \in Nat /\ Len(entries) \in Nat
      /\ Len(entries) > 0 /\ Head(entries) = entries[1] /\ entries[1] \in Nat
      /\ \A i \in 1..Len(s.sent) : s.sent[i] \in Nat
      /\ \A i \in 1..Len(entries) : entries[i] \in Nat
  BY LenProperties, ElementOfSeq, EmptySeq DEF StreamType
<1>3. /\ Len(r.sent) = Len(s.sent) + 1
      /\ \A i \in 1..Len(s.sent) : r.sent[i] = s.sent[i]
      /\ r.sent[Len(s.sent) + 1] = entries[1]
  BY <1>1, <1>2, AppendProperties
<1>4. /\ Len(r.todo) = Len(entries) - 1
      /\ \A i \in 1..Len(entries) - 1 : r.todo[i] = entries[i + 1]
  BY <1>1, <1>2, HeadTailProperties
<1>5. /\ \A i \in 1..Len(s.sent) : s.sent[i] <= told
      /\ \A i \in 1..Len(entries) : entries[i] <= told
      /\ \A i, k \in 1..Len(s.sent) : i < k => s.sent[i] < s.sent[k]
      /\ \A i, k \in 1..Len(entries) : i < k => entries[i] < entries[k]
      /\ \A i \in 1..Len(s.sent), k \in 1..Len(entries) : s.sent[i] < entries[k]
  BY DEF StreamAscends, StreamType
<1>6. \A i \in 1..Len(r.sent) : i \in 1..Len(s.sent) \/ i = Len(s.sent) + 1
  BY <1>2, <1>3
<1>7. \A k \in 1..Len(r.todo) : k \in 1..Len(entries) - 1 /\ k + 1 \in 1..Len(entries)
  BY <1>2, <1>4
<1>8. 1 \in 1..Len(entries)
  BY <1>2
<1>9. \A i \in 1..Len(r.sent) : r.sent[i] <= told
  BY <1>3, <1>5, <1>6, <1>8
<1>10. \A i \in 1..Len(r.todo) : r.todo[i] <= told
  BY <1>4, <1>5, <1>7
<1>11. ASSUME NEW i \in 1..Len(r.sent), NEW k \in 1..Len(r.sent), i < k
       PROVE  r.sent[i] < r.sent[k]
  <2>1. i \in 1..Len(s.sent)
    BY <1>2, <1>3, <1>11
  <2>2. QED
    BY <1>3, <1>5, <1>6, <1>8, <1>11, <2>1
<1>12. ASSUME NEW i \in 1..Len(r.todo), NEW k \in 1..Len(r.todo), i < k
       PROVE  r.todo[i] < r.todo[k]
  <2>1. i + 1 < k + 1
    BY <1>12
  <2>2. QED
    BY <1>4, <1>5, <1>7, <2>1
<1>13. ASSUME NEW i \in 1..Len(r.sent), NEW k \in 1..Len(r.todo)
       PROVE  r.sent[i] < r.todo[k]
  <2>1. r.todo[k] = entries[k + 1] /\ k + 1 \in 1..Len(entries) /\ 1 < k + 1
    BY <1>4, <1>7
  <2>2. CASE i \in 1..Len(s.sent)
    BY <1>3, <1>5, <2>1, <2>2
  <2>3. CASE i = Len(s.sent) + 1
    BY <1>3, <1>5, <1>8, <2>1, <2>3
  <2>4. QED
    BY <1>6, <2>2, <2>3
<1>14. QED
  BY <1>1, <1>9, <1>10, <1>11, <1>12, <1>13 DEF StreamAscends

\* And catching up: nothing is beyond the new index.
LEMMA CaughtAscends ==
  ASSUME NEW s \in StreamType, StreamAscends(s), s.at # "closed", Len(logs) \in Nat
  PROVE  StreamAscends(Caught(s))
<1>1. /\ Caught(s).sent = s.sent /\ Caught(s).todo = s.todo
      /\ Caught(s).index = Len(logs) /\ Caught(s).at # "closed"
  BY DEF Caught, StreamType
<1>2. \A k \in 1..Len(logs) : ~(k > Len(logs))
  OBVIOUS
<1>3. QED
  BY <1>1, <1>2 DEF StreamAscends

\* The entries a stream finds beyond its index follow those it has sent.
LEMMA FoundEntriesFollow ==
  ASSUME NEW s \in StreamType, StreamAscends(s), s.at = "polling",
         LogIsContiguous, LogType,
         NEW new, new = SubSeq(logs, s.index + 1, Len(logs)), new # <<>>
  PROVE  new \in Seq(Nat) /\ StreamAscends([s EXCEPT !.at = "sending", !.todo = new])
<1> DEFINE n == Len(logs)
<1> DEFINE d == s.index
<1> DEFINE r == [s EXCEPT !.at = "sending", !.todo = new]
<1>1. n \in Nat /\ told \in Nat /\ d \in Nat
  BY LenProperties DEF LogType, StreamType
<1>2. \A i \in 1..n : logs[i] \in Nat /\ logs[i] + n = told + i
  BY ElementOfSeq DEF LogType, LogIsContiguous
<1>3. r.sent = s.sent /\ r.todo = new /\ r.at = "sending"
  BY DEF StreamType
<1>4. new = SubSeq(logs, d + 1, n)
  OBVIOUS
<1>5. /\ \A i \in 1..Len(s.sent) : s.sent[i] <= told
      /\ \A i, k \in 1..Len(s.sent) : i < k => s.sent[i] < s.sent[k]
      /\ \A i \in 1..Len(s.sent), k \in 1..n : k > d => s.sent[i] < logs[k]
  BY DEF StreamAscends
<1> HIDE DEF n, d, r
<1>6. /\ new \in Seq(Nat)
      /\ Len(new) = IF d + 1 <= n THEN n - (d + 1) + 1 ELSE 0
      /\ \A i \in 1..n - (d + 1) + 1 : new[i] = logs[d + 1 + i - 1]
  <2>1. \A i \in d + 1 .. n : logs[i] \in Nat
    BY <1>1, <1>2
  <2>2. d + 1 \in Int /\ n \in Int
    BY <1>1
  <2> DEFINE found == SubSeq(logs, d + 1, n)
  <2>3. /\ found \in Seq(Nat)
        /\ Len(found) = IF d + 1 <= n THEN n - (d + 1) + 1 ELSE 0
        /\ \A i \in 1..n - (d + 1) + 1 : found[i] = logs[d + 1 + i - 1]
    BY <2>1, <2>2, SubSeqProperties
  <2> HIDE DEF found
  <2>4. new = found
    BY <1>4 DEF found
  <2>5. QED
    BY <2>3, <2>4
<1>7. d + 1 <= n /\ Len(new) = n - d
  <2>1. Len(new) # 0
    BY <1>6, EmptySeq
  <2>2. CASE d + 1 <= n
    <3>1. Len(new) = n - (d + 1) + 1
      BY <1>6, <2>2
    <3>2. n - (d + 1) + 1 = n - d
      BY <1>1
    <3>3. QED
      BY <2>2, <3>1, <3>2
  <2>3. QED
    BY <1>6, <2>1, <2>2
<1>8. ASSUME NEW i \in 1..Len(new)
      PROVE  /\ d + i \in 1..n /\ d + i > d /\ i \in Int /\ new[i] \in Nat
             /\ new[i] = logs[d + i] /\ new[i] + n = told + d + i
  <2>1. i \in 1..n - d
    BY <1>7
  <2>2. d + i \in 1..n /\ d + i > d /\ i \in Int /\ i \in 1..n - (d + 1) + 1
    BY <1>1, <2>1
  <2>3. d + 1 + i - 1 = d + i
    BY <1>1, <2>2
  <2>4. new[i] = logs[d + i]
    BY <1>6, <2>2, <2>3
  <2>5. new[i] \in Nat /\ new[i] + n = told + (d + i)
    BY <1>2, <2>2, <2>4
  <2>6. told + (d + i) = told + d + i
    BY <1>1, <2>2
  <2>7. QED
    BY <2>2, <2>4, <2>5, <2>6
<1>9. ASSUME NEW i \in 1..Len(new)
      PROVE  new[i] <= told
  <2> DEFINE e == new[i]
  <2>1. e \in Nat /\ d + i \in 1..n /\ i \in Int /\ e + n = told + d + i
    BY <1>8
  <2> HIDE DEF e
  <2>2. e <= told
    BY <1>1, <2>1
  <2>3. QED
    BY <2>2 DEF e
<1>10. ASSUME NEW i \in 1..Len(new), NEW k \in 1..Len(new), i < k
      PROVE  new[i] < new[k]
  <2> DEFINE e == new[i]
  <2> DEFINE f == new[k]
  <2>1. /\ e \in Nat /\ f \in Nat /\ i \in Int /\ k \in Int
        /\ e + n = told + d + i /\ f + n = told + d + k
    BY <1>8
  <2> HIDE DEF e, f
  <2>2. e < f
    BY <1>1, <1>10, <2>1
  <2>3. QED
    BY <2>2 DEF e, f
<1>11. \A i \in 1..Len(s.sent), k \in 1..Len(new) : s.sent[i] < new[k]
  BY <1>5, <1>8
<1>12. StreamAscends(r)
  BY <1>3, <1>5, <1>9, <1>10, <1>11 DEF StreamAscends
<1>13. QED
  BY <1>6, <1>12 DEF r

\* Every step keeps every stream in order.
LEMMA StreamStep ==
  ASSUME TypeOK, StreamInv, [Next]_vars
  PROVE  StreamInv'
<1>1. CASE \E w \in Watchers : Open(w) \/ Poll(w) \/ Resume(w)
  <2>1. PICK w \in Watchers : Open(w) \/ Poll(w) \/ Resume(w)
    BY <1>1
  <2> DEFINE s == watch[w]
  <2>2. /\ s \in StreamType /\ StreamAscends(s) /\ LogType /\ LogIsContiguous
        /\ watch \in [Watchers -> StreamType]
    BY DEF TypeOK, StreamType, StreamInv, LogType
  <2>3. UNCHANGED <<logs, told>> /\ \A v \in Watchers \ {w} : watch'[v] = watch[v]
    BY <2>1, <2>2 DEF Open, Poll, Resume, jobVars
  <2>4. Len(logs) \in Nat
    BY <2>2, LenProperties DEF LogType
  <2>5. StreamAscends(watch'[w])
    <3>1. CASE Open(w)
      <4>1. s.at = "closed" /\ watch'[w] = [s EXCEPT !.at = "polling"]
        BY <2>2, <3>1 DEF Open
      <4>2. /\ watch'[w].sent = s.sent /\ watch'[w].todo = s.todo
            /\ watch'[w].at = "polling" /\ s.sent = <<>> /\ Len(s.sent) = 0
        BY <2>2, <4>1, EmptySeq DEF StreamType, StreamAscends
      <4>3. QED
        BY <2>2, <4>2 DEF StreamAscends
    <3>2. CASE Poll(w)
      <4> DEFINE new == SubSeq(logs, s.index + 1, Len(logs))
      <4>1. s.at = "polling"
            /\ watch'[w] = IF new = <<>> THEN Caught(s) ELSE Sending(s, new)
        BY <2>2, <3>2 DEF Poll
      <4>2. CASE new = <<>>
        BY <2>2, <2>4, <4>1, <4>2, CaughtAscends
      <4>3. CASE new # <<>>
        <5> HIDE DEF new
        <5>1. new \in Seq(Nat) /\ StreamAscends([s EXCEPT !.at = "sending", !.todo = new])
          BY <2>2, <4>1, <4>3, FoundEntriesFollow DEF new
        <5>2. QED
          BY <2>2, <4>1, <4>3, <5>1, SendingAscends
      <4>4. QED
        BY <4>2, <4>3
    <3>3. CASE Resume(w)
      <4>1. s.at = "sending"
            /\ watch'[w] = IF s.todo = <<>> THEN Caught(s) ELSE Sending(s, s.todo)
        BY <2>2, <3>3 DEF Resume
      <4>2. s.todo \in Seq(Nat) /\ s = [s EXCEPT !.at = "sending", !.todo = s.todo]
        BY <2>2, <4>1 DEF StreamType
      <4>3. CASE s.todo = <<>>
        BY <2>2, <2>4, <4>1, <4>3, CaughtAscends
      <4>4. CASE s.todo # <<>>
        BY <2>2, <4>1, <4>2, <4>4, SendingAscends
      <4>5. QED
        BY <4>3, <4>4
    <3>4. QED
      BY <2>1, <3>1, <3>2, <3>3
  <2>6. ASSUME NEW v \in Watchers
        PROVE  StreamAscends(watch'[v])
    <3>1. CASE v # w
      <4>1. watch'[v] = watch[v] /\ StreamAscends(watch[v])
        BY <2>3, <3>1 DEF StreamInv
      <4>2. QED
        BY <4>1
    <3>2. QED
      BY <2>5, <3>1
  <2>7. QED
    BY <2>2, <2>3, <2>6 DEF StreamInv, StreamAscends, LogIsContiguous
<1>2. CASE (Add \/ AddAnyway) /\ UNCHANGED watch
  BY <1>2, StreamsAfterAppend
<1>3. CASE UNCHANGED <<logs, told, watch>>
  BY <1>3 DEF StreamInv, StreamAscends, LogIsContiguous
<1>4. QED
  BY <1>1, <1>2, <1>3
     DEF Next, JobStep, StartJob, Schedule, Begin, Announce, Spawn, SpawnFails, Register,
         Line, LastEvent, Settle, Close, Expire, Sync, Output, Exit, WatchTimeout, Cancel,
         CancelProcess, AddIfRoom, vars, jobVars

----
(* Results                                                                 *)

LEMMA InvInit == Init => IInv /\ StreamInv
<1> SUFFICES ASSUME Init PROVE IInv /\ StreamInv
  OBVIOUS
<1> USE MaxLogsAssumption, MaxLinesAssumption, EmptySeq DEF Init
<1>1. LogType /\ LogWithinCap /\ logs = <<>> /\ Len(logs) = 0
  BY DEF LogType, LogWithinCap
<1>2. watch \in [Watchers -> StreamType]
  BY DEF Closed, StreamType
<1>3. TypeOK
  <2>1. answer \in [Admins -> {"none", "already_finished", "killed", "marked"}]
    OBVIOUS
  <2>2. told \in Nat /\ printed \in 0..MaxLines /\ unread \in 0..printed
    OBVIOUS
  <2>3. /\ task \in Tasks /\ stage \in Stages /\ mirror \in Stages \cup {"none"}
        /\ syncing \in BOOLEAN /\ exitOk \in BOOLEAN
        /\ late \in BOOLEAN /\ registered \in BOOLEAN /\ flagged \in BOOLEAN
    BY DEF Tasks, Stages
  <2>4. QED
    BY <1>1, <1>2, <2>1, <2>2, <2>3 DEF TypeOK, LogType, StreamType
<1>4. ControlInv
  BY DEF ControlInv, InstallerFollowsTask, FinishedFollowsTask, CancelsAreKept,
         CancelReachesInstaller, CompletedMeansExitedZero, Accepted, BeforeSpawn,
         AfterDrain, Finished
<1>5. StreamInv
  BY <1>1 DEF StreamInv, LogIsContiguous, StreamAscends, Closed
<1>6. QED
  BY <1>1, <1>3, <1>4, <1>5 DEF IInv

LEMMA InvStep == IInv /\ StreamInv /\ [Next]_vars => IInv' /\ StreamInv'
BY TypeStep, LogStep, ControlStep, StreamStep DEF IInv

LEMMA InvAlways == Spec => [](IInv /\ StreamInv)
BY InvInit, InvStep, PTL DEF Spec

\* Every variable keeps its type and the log its cap, for any cap.
THEOREM JobsTypeCorrect == Spec => []TypeOK
<1>1. IInv => TypeOK
  BY DEF IInv
<1>2. QED
  BY <1>1, InvAlways, PTL

\* No accepted cancel is lost, however many cancels race with the job's steps.
THEOREM JobsCancelReaches == Spec => []CancelReachesInstaller
<1>1. IInv => CancelReachesInstaller
  BY DEF IInv, ControlInv
<1>2. QED
  BY <1>1, InvAlways, PTL

\* No job is reported finished while its installer runs.
THEOREM JobsFinishedIsStopped == Spec => []FinishedIsStopped
<1>1. IInv => FinishedIsStopped
  BY DEF IInv, ControlInv, InstallerFollowsTask, FinishedFollowsTask, FinishedIsStopped
<1>2. QED
  BY <1>1, InvAlways, PTL

\* Only an installer that exited with code 0 in time completes a job.
THEOREM JobsCompletedMeansExitedZero == Spec => []CompletedMeansExitedZero
<1>1. IInv => CompletedMeansExitedZero
  BY DEF IInv, ControlInv
<1>2. QED
  BY <1>1, InvAlways, PTL

\* No event stream repeats or reorders the entries of the log.
THEOREM JobsSentInOrder == Spec => []SentInOrder
<1>1. IInv /\ StreamInv => SentInOrder
  <2> SUFFICES ASSUME TypeOK, StreamInv PROVE SentInOrder
    BY DEF IInv
  <2>1. \A w \in Watchers : DOMAIN watch[w].sent = 1..Len(watch[w].sent)
    BY LenProperties DEF TypeOK
  <2>2. QED
    BY <2>1 DEF StreamInv, StreamAscends, SentInOrder
<1>2. QED
  BY <1>1, InvAlways, PTL

\* Nothing reopens a finished job, nor the copy other replicas read.
THEOREM JobsNeverReopened == Spec => NeverReopened
<1>1. IInv /\ [Next]_vars =>
        [ /\ stage \in Finished => (stage' \in Finished)
          /\ mirror \in Finished => (mirror' \in Finished \cup {"none"}) ]_vars
  <2> SUFFICES ASSUME IInv, [Next]_vars
      PROVE  /\ stage \in Finished => (stage' \in Finished)
             /\ mirror \in Finished => (mirror' \in Finished \cup {"none"})
    OBVIOUS
  <2> USE DEF IInv, ControlInv, FinishedFollowsTask, AfterDrain, Finished, Proceeds,
          Mirrored, jobVars, mirrorVars
  <2>1. CASE StartJob \/ Schedule \/ Begin \/ Announce \/ Spawn \/ SpawnFails
    BY <2>1 DEF StartJob, Schedule, Begin, Announce, Spawn, SpawnFails
  <2>2. CASE Register \/ Line \/ LastEvent
    BY <2>2 DEF Register, Line, LastEvent
  <2>3. CASE Settle \/ Close \/ Expire \/ Sync
    BY <2>3 DEF Settle, Close, Expire, Sync
  <2>4. CASE Output \/ Exit \/ WatchTimeout \/ UNCHANGED vars
    BY <2>4 DEF Output, Exit, WatchTimeout, vars
  <2>5. CASE (\E a \in Admins : Cancel(a))
              \/ (\E w \in Watchers : Open(w) \/ Poll(w) \/ Resume(w))
    BY <2>5 DEF Cancel, CancelProcess, Open, Poll, Resume
  <2>6. QED
    BY <2>1, <2>2, <2>3, <2>4, <2>5 DEF Next, JobStep
<1>2. QED
  BY <1>1, InvAlways, PTL DEF Spec, NeverReopened
====
