-------------------------- MODULE HarnessExecution --------------------------
(***************************************************************************)
(* Runs of harness subprocesses: the queue that bounds them, the adapter's *)
(* run and stream, the registry through which they are cancelled, and the  *)
(* pump that stops a stream when its client disconnects.                   *)
(*                                                                         *)
(* An action is what the event loop executes between two suspensions.  The *)
(* registry's critical sections contain no await, so its lock is never     *)
(* contended and a call on it is part of the step that makes it.           *)
(***************************************************************************)
EXTENDS Naturals, FiniteSets

CONSTANTS
    Runs,    \* calls of adapter.run or adapter.stream
    Ids,     \* request ids
    Setups,  \* the gateways considered: slots, and the kind and id of each run
    NoRun    \* no process is registered under the id

ASSUME ExecutionAssumption ==
    /\ IsFiniteSet(Runs)
    /\ \A s \in Setups :
          s.slots \in Nat \ {0} /\ s.streams \subseteq Runs /\ s.id \in [Runs -> Ids]
    /\ NoRun \notin Runs

VARIABLES
    setup,          \* the one of Setups that is given
    free,           \* value of the semaphore
    registry,       \* _map: the run whose process is registered under an id
    pendingCancel,  \* _pending_cancel
    pc,             \* where the adapter stands
    proc,           \* the subprocess
    result,         \* how the adapter ended
    answer,         \* what the handler told the client
    cancelled,      \* runs a cancel endpoint has reported as cancelled
    contested       \* history: runs that shared their id with another process

vars == <<setup, free, registry, pendingCancel, pc, proc, result, answer, cancelled,
          contested>>

\* The runs that are streams, the id each run registers under (two streams may
\* be given the same X-Stream-ID), and harness_concurrency.
Streams       == setup.streams
RequestId     == setup.id
MaxConcurrent == setup.slots

----
\* A slot of the queue is held in these stages.
Holding == {"spawning", "reading", "exiting", "killing", "lingering", "reaping"}

\* The subprocess is registered and watched in these; a plain run lingers when
\* the process it killed does not follow within two seconds.
Supervised == {"reading", "exiting", "killing", "lingering"}

Results == {"none", "ok", "failed", "killed", "terminated", "busy", "nospawn", "interrupted"}
Answers == {"none", "cancelling", "done", "error", "cancel", "busy", "broken", "cut"}

\* Slip: the process is not awaited after the signal.
Signalled(r) == proc[r] \in {"dying", "ok", "failed", "killed"}
\* returncode is not None.
Exited(r) == proc[r] \in {"ok", "failed", "killed"}

\* Slip: the timeout raises without a kill.
NotKilled(r) == proc
\* process.kill(), ignored once the process has exited.
Kill(r) == [proc EXCEPT ![r] = IF @ = "running" THEN "dying" ELSE @]

\* Slip: the finally clause of stream trusts that the process has ended.
LeftAlone(r) == proc
\* The finally clause of stream kills a process that is still alive.
KilledAtExit(r) == [proc EXCEPT ![r] = IF @ = "running" THEN "dying" ELSE @]

\* Slip: the handle stays registered.
StillRegistered(r) == registry
\* process_registry.cleanup: whatever is registered under the id is dropped.
Unregistered(r) == [registry EXCEPT ![RequestId[r]] = NoRun]

\* Slip: register does not look at _pending_cancel.
NeverCancelled(r) == FALSE
\* register finds that the id was cancelled first.
CancelledEarly(r) == RequestId[r] \in pendingCancel

\* Slip: the slot is lost.
KeepSlot == UNCHANGED free
ReleaseSlot == free' = free + 1

\* Slip: a request that was never admitted to the queue releases its slot too.
RefuseAndRelease == free' = free + 1
Refuse == UNCHANGED free

----
Init ==
    /\ setup \in Setups
    /\ free = MaxConcurrent
    /\ registry = [id \in Ids |-> NoRun]
    /\ pendingCancel = {}
    /\ pc = [r \in Runs |-> "idle"]
    /\ proc = [r \in Runs |-> "none"]
    /\ result = [r \in Runs |-> "none"]
    /\ answer = [r \in Runs |-> "none"]
    /\ cancelled = {}
    /\ contested = {}

Goto(r, s) == pc' = [pc EXCEPT ![r] = s]
EndsAs(r, res) == result' = [result EXCEPT ![r] = res]

\* The body of the slot is left: finally clause of run or stream, then the
\* wait for the process it may just have killed.
Unwind(r, res) ==
    /\ Goto(r, "reaping")
    /\ EndsAs(r, res)
    /\ registry' = Unregistered(r)
    /\ proc' = KilledAtExit(r)

Enter(r) ==
    /\ pc[r] = "idle"
    /\ answer[r] = "none"
    /\ Goto(r, "queued")
    /\ UNCHANGED <<free, registry, pendingCancel, proc, result, answer, cancelled, contested>>

Acquire(r) ==
    /\ pc[r] = "queued"
    /\ free > 0
    /\ free' = free - 1
    /\ Goto(r, "spawning")
    /\ UNCHANGED <<registry, pendingCancel, proc, result, answer, cancelled, contested>>

\* No slot within harness_queue_max_wait: HTTPException 429.
QueueTimeout(r) ==
    /\ pc[r] = "queued"
    /\ free = 0
    /\ Refuse
    /\ Goto(r, "left")
    /\ EndsAs(r, "busy")
    /\ UNCHANGED <<registry, pendingCancel, proc, answer, cancelled, contested>>

\* The executable is gone.
SpawnFails(r) ==
    /\ pc[r] = "spawning"
    /\ Goto(r, "reaping")
    /\ EndsAs(r, "nospawn")
    /\ UNCHANGED <<free, registry, pendingCancel, proc, answer, cancelled, contested>>

\* The runs that watch another process under the id of r.
Rivals(r) == {q \in Runs \ {r} : RequestId[q] = RequestId[r] /\ pc[q] \in Supervised}

\* The subprocess starts and is registered, or is killed at once when its id
\* was cancelled before.
Spawn(r) ==
    /\ pc[r] = "spawning"
    /\ Goto(r, "reading")
    /\ IF CancelledEarly(r)
         THEN /\ pendingCancel' = pendingCancel \ {RequestId[r]}
              /\ proc' = [proc EXCEPT ![r] = "dying"]
              /\ UNCHANGED registry
         ELSE /\ registry' = [registry EXCEPT ![RequestId[r]] = r]
              /\ proc' = [proc EXCEPT ![r] = "running"]
              /\ UNCHANGED pendingCancel
    /\ contested' = IF Rivals(r) = {} THEN contested ELSE contested \cup Rivals(r) \cup {r}
    /\ UNCHANGED <<free, result, answer, cancelled>>

\* No line, or no end of the run, within the timeout.
ReadTimeout(r) ==
    /\ pc[r] = "reading"
    /\ proc' = Kill(r)
    /\ Goto(r, "killing")
    /\ UNCHANGED <<free, registry, pendingCancel, result, answer, cancelled, contested>>

\* stdout is closed; the process may live on.
Eof(r) ==
    /\ r \in Streams
    /\ pc[r] = "reading"
    /\ Goto(r, "exiting")
    /\ UNCHANGED <<free, registry, pendingCancel, proc, result, answer, cancelled, contested>>

\* The process does not follow within 5 seconds.
ExitTimeout(r) ==
    /\ pc[r] = "exiting"
    /\ ~Exited(r)
    /\ proc' = Kill(r)
    /\ Goto(r, "killing")
    /\ UNCHANGED <<free, registry, pendingCancel, result, answer, cancelled, contested>>

\* The adapter sees the exit code: end of communicate, or of wait after EOF.
Collect(r) ==
    /\ pc[r] = (IF r \in Streams THEN "exiting" ELSE "reading")
    /\ Exited(r)
    /\ Unwind(r, proc[r])
    /\ UNCHANGED <<free, pendingCancel, answer, cancelled, contested>>

\* communicate_with_timeout: two seconds later the process that was killed
\* has not closed its pipes; it is waited for without a bound.
CleanupTimeout(r) ==
    /\ pc[r] = "killing"
    /\ r \notin Streams
    /\ Goto(r, "lingering")
    /\ UNCHANGED <<free, registry, pendingCancel, proc, result, answer, cancelled, contested>>

\* The process killed by a timeout, or with its task, has exited.
TimedOut(r) ==
    /\ pc[r] \in {"killing", "lingering"}
    /\ Exited(r)
    /\ Unwind(r, "terminated")
    /\ UNCHANGED <<free, pendingCancel, answer, cancelled, contested>>

\* The slot is released.  The finally clause of stream waits for the process,
\* and can be cancelled a second time in that wait; that of run does not wait.
Leave(r) ==
    /\ pc[r] = "reaping"
    /\ \/ r \notin Streams
       \/ proc[r] = "none"
       \/ Exited(r)
       \/ answer[r] \in {"cut", "cancel"}
    /\ ReleaseSlot
    /\ Goto(r, "left")
    /\ UNCHANGED <<registry, pendingCancel, proc, result, answer, cancelled, contested>>

\* The subprocess ends, by itself or by the signal.
ProcessExits(r) ==
    /\ \/ proc[r] = "running" /\ \E code \in {"ok", "failed"} : proc' = [proc EXCEPT ![r] = code]
       \/ proc[r] = "dying" /\ proc' = [proc EXCEPT ![r] = "killed"]
    /\ UNCHANGED <<free, registry, pendingCancel, pc, result, answer, cancelled, contested>>

----
(* Cancellation. *)

\* Slip: the handle is dropped, but nobody is killed.
ProcsUnharmed(id) == proc
\* The processes once the one registered under id has been killed.
ProcsAfterCancel(id) ==
    [r \in Runs |-> IF r = registry[id] /\ proc[r] = "running" THEN "dying" ELSE proc[r]]

\* process_registry.cancel: the handle is popped and killed, or the id is
\* remembered for a register to come.
CancelId(id) ==
    /\ IF registry[id] = NoRun THEN pendingCancel' = pendingCancel \cup {id}
                               ELSE UNCHANGED pendingCancel
    /\ proc' = ProcsAfterCancel(id)
    /\ registry' = [registry EXCEPT ![id] = NoRun]

\* A cancel endpoint, given the id of a run that has begun or is to come (any
\* other id is only remembered); it answers "cancelled" when a handle was found.
CancelRequest(id) ==
    /\ CancelId(id)
    /\ cancelled' = cancelled \cup ({registry[id]} \ {NoRun})
    /\ UNCHANGED <<free, pc, result, answer, contested>>

\* find_by_prefix: a request id with a handle; any, for the ids of a
\* conversation are not told apart here.
Registered(id) == registry[id] # NoRun

\* The cancel endpoints of a conversation: the message that was named, or else
\* whichever stream of the conversation is found.
CancelConversation(id) ==
    /\ Registered(id)
    /\ CancelRequest(id)

\* The task of the adapter is cancelled, or its generator closed: the wait it
\* is suspended in raises.  A plain run kills its process and waits for it at
\* the first cancel, goes on waiting at the second, and leaves at the third,
\* or earlier when the two seconds had passed.
Interrupted(r) ==
    \/ /\ pc[r] \in {"idle", "queued"}
       /\ Goto(r, "left")
       /\ EndsAs(r, "interrupted")
       /\ UNCHANGED <<registry, proc>>
    \/ /\ pc[r] = "spawning"
       /\ Goto(r, "reaping")
       /\ EndsAs(r, "interrupted")
       /\ UNCHANGED <<registry, proc>>
    \/ /\ pc[r] \in Supervised
       /\ r \in Streams
       /\ Unwind(r, "interrupted")
    \/ /\ pc[r] = "reading"
       /\ r \notin Streams
       /\ Goto(r, "killing")
       /\ proc' = Kill(r)
       /\ UNCHANGED <<registry, result>>
    \/ /\ pc[r] = "killing"
       /\ r \notin Streams
       /\ Goto(r, "lingering")
       /\ UNCHANGED <<registry, proc, result>>
    \/ /\ pc[r] = "lingering"
       /\ Unwind(r, "interrupted")
    \/ /\ pc[r] \in {"reaping", "left"}
       /\ UNCHANGED <<registry, pc, proc, result>>

\* The pump finds the client disconnected and cancels the request id ...
PumpCancels(r) ==
    /\ r \in Streams
    /\ answer[r] = "none"
    /\ CancelId(RequestId[r])
    /\ answer' = [answer EXCEPT ![r] = "cancelling"]
    /\ UNCHANGED <<free, pc, result, cancelled, contested>>

\* ... and, once that returns, its own read task.
PumpStops(r) ==
    /\ r \in Streams
    /\ answer[r] = "cancelling"
    /\ Interrupted(r)
    /\ answer' = [answer EXCEPT ![r] = "cancel"]
    /\ UNCHANGED <<free, pendingCancel, cancelled, contested>>

\* The handler itself is cancelled by the server, once or repeatedly.
Drop(r) ==
    /\ pc[r] # "idle"
    /\ answer[r] \in {"none", "cancelling", "cut"}
    /\ Interrupted(r)
    /\ answer' = [answer EXCEPT ![r] = "cut"]
    /\ UNCHANGED <<free, pendingCancel, cancelled, contested>>

\* What the handler makes of the end of its adapter.  An answer that is empty
\* or cannot be charged is an error.  A failure is reported as a cancel or an
\* error by the words found in the process's stderr.  The 429 of a full queue
\* is raised in a response that has started: it breaks.
AnswersTo(r) ==
    IF result[r] = "ok" THEN {"done", "error"}
    ELSE IF result[r] = "busy" THEN {IF r \in Streams THEN "broken" ELSE "busy"}
    ELSE IF result[r] \in {"failed", "killed"} /\ r \in Streams THEN {"error", "cancel"}
    ELSE {"error"}

Reply(r) ==
    /\ pc[r] = "left"
    /\ answer[r] = "none"
    /\ \E a \in AnswersTo(r) : answer' = [answer EXCEPT ![r] = a]
    /\ UNCHANGED <<free, registry, pendingCancel, pc, proc, result, cancelled, contested>>

----
\* Steps of the adapter that come sooner or later.
AdapterStep(r) ==
    \/ Acquire(r) \/ QueueTimeout(r) \/ Spawn(r) \/ SpawnFails(r)
    \/ ExitTimeout(r) \/ Collect(r) \/ TimedOut(r) \/ Leave(r)

Next ==
    /\ \E r \in Runs :
          \/ Enter(r) \/ AdapterStep(r) \/ ReadTimeout(r) \/ CleanupTimeout(r) \/ Eof(r)
          \/ ProcessExits(r) \/ PumpCancels(r) \/ PumpStops(r) \/ Drop(r) \/ Reply(r)
          \/ CancelRequest(RequestId[r]) \/ CancelConversation(RequestId[r])
    /\ UNCHANGED setup

Spec == Init /\ [][Next]_vars

\* The event loop runs ready tasks, a killed process dies, the pipe of a dead
\* process reaches its end or stays silent for the read timeout, and the
\* deadline of a non-streaming run passes.  A live harness need not end, and
\* a stream has no deadline while it prints.
FairSpec ==
    /\ Spec
    /\ \A r \in Runs :
          /\ WF_vars(UNCHANGED setup /\ AdapterStep(r))
          /\ WF_vars(UNCHANGED setup /\ Exited(r) /\ (Eof(r) \/ ReadTimeout(r)))
          /\ WF_vars(UNCHANGED setup /\ proc[r] = "dying" /\ ProcessExits(r))
          /\ WF_vars(UNCHANGED setup /\ PumpStops(r))
          /\ WF_vars(UNCHANGED setup /\ r \notin Streams /\ ReadTimeout(r))

----
(* Properties. *)

\* Every variable keeps its type.
TypeOK ==
    /\ setup \in Setups
    /\ free \in 0..MaxConcurrent
    /\ registry \in [Ids -> Runs \cup {NoRun}]
    /\ pendingCancel \subseteq Ids
    /\ pc \in [Runs -> {"idle", "queued", "left"} \cup Holding]
    /\ proc \in [Runs -> {"none", "running", "dying", "ok", "failed", "killed"}]
    /\ result \in [Runs -> Results]
    /\ answer \in [Runs -> Answers]
    /\ cancelled \subseteq Runs
    /\ contested \subseteq Runs

Holders == {r \in Runs : pc[r] \in Holding}

\* Every slot is free or held by one run, on every way out of run and stream.
SlotsConserved == free + Cardinality(Holders) = MaxConcurrent

Alive == {r \in Runs : proc[r] = "running"}

\* Whatever is cancelled, disconnected or timed out in whichever order, no
\* more subprocesses run unsignalled than the queue admits.
LiveProcessesBounded == Cardinality(Alive) <= MaxConcurrent

\* A run gives its slot back only when its process has exited, whether it
\* ended, failed or ran into a timeout.  Only a handler that is cancelled
\* itself (repeatedly, or when its run is waiting for what it killed) or, for
\* a stream, the client's disconnect can leave the process behind, and then it
\* has been killed (base.py:82, base.py:553-558).
RunsReapTheirProcess ==
    \A r \in Runs : pc[r] = "left" =>
        /\ proc[r] # "running"
        /\ proc[r] = "dying" =>
              answer[r] = "cut" \/ (r \in Streams /\ answer[r] = "cancel")

\* A registered handle is that of a run still watching its process, so a
\* cancel never signals a pid that has been given back.
RegistryTracksSupervised ==
    \A id \in Ids :
        registry[id] # NoRun => RequestId[registry[id]] = id /\ pc[registry[id]] \in Supervised

\* A live process can be cancelled through its request id, unless it ran at
\* the same time as another process under that id.
CancellableWhileAlive ==
    \A r \in Runs \ contested : proc[r] = "running" => registry[RequestId[r]] = r

\* Every non-streaming run ends, whatever its harness does.
RunEnds == \A r \in Runs : (r \notin Streams /\ pc[r] = "queued") ~> pc[r] = "left"

\* A stream that was cancelled, or whose client is gone, ends although its
\* harness would go on printing.
StoppedStreamEnds ==
    \A r \in Runs :
        (r \in Streams /\ (r \in cancelled \/ answer[r] \in {"cancelling", "cut", "cancel"}))
            ~> pc[r] = "left"

\* Another run under the id of r has begun.
Shared(r) == \E q \in Runs \ {r} : RequestId[q] = RequestId[r] /\ pc[q] # "idle"

\* A cancel that comes before the process is registered is not lost, unless
\* another run under the same id takes it.
EarlyCancelEndsRun ==
    \A r \in Runs :
        (RequestId[r] \in pendingCancel /\ pc[r] \in {"queued", "spawning"})
            ~> pc[r] = "left" \/ Shared(r)
====
