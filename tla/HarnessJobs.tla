---------------------------- MODULE HarnessJobs ----------------------------
(***************************************************************************)
(* One install or update job: services/harness_job_service.py, the install *)
(* and update generators with _drain_subprocess (clients/base.py), and the *)
(* routes of api/admin.py that start, cancel and stream it.  Jobs share    *)
(* nothing but a lock whose critical sections never await, so one job      *)
(* stands for all.  A log line is the number of its entry.                 *)
(***************************************************************************)
EXTENDS Naturals, Sequences, SequencesExt

CONSTANTS
  Admins,    \* the cancel requests
  Watchers,  \* the requests for the job's event stream
  MaxLogs,   \* HarnessJobService._max_logs, 500 in the code
  MaxLines   \* bound: the lines the installer prints

ASSUME MaxLogsAssumption == MaxLogs \in Nat \ {0}
ASSUME MaxLinesAssumption == MaxLines \in Nat

VARIABLES
  task,        \* where the job's task is
  stage,       \* HarnessJob.stage
  logs,        \* HarnessJob.logs
  told,        \* how many entries have been appended
  syncing,     \* the task awaits _redis_sync
  mirror,      \* the stage Redis holds, or "none"
  proc,        \* the installer
  exitOk,      \* it exited with code 0
  printed,     \* the lines it has printed
  unread,      \* those the task has not received
  late,        \* the watcher has timed out
  registered,  \* its handle is in _processes
  flagged,     \* the job's id is in _cancelled
  answer,      \* the reply to each cancel request
  watch        \* each event stream

jobVars    == <<stage, logs, told>>
mirrorVars == <<syncing, mirror>>
procVars   == <<proc, exitOk, printed, unread>>
cancelVars == <<registered, flagged>>
vars == <<task, jobVars, mirrorVars, procVars, late, cancelVars, answer, watch>>

Finished == {"completed", "failed"}
Stages == {"pending", "running", "started"} \cup Finished
Tasks == {"none", "start", "scheduled", "opened", "spawning", "spawned",
          "draining", "ended", "settled", "raised", "over", "expired"}
Closed == [at |-> "closed", index |-> 0, todo |-> <<>>, sent |-> <<>>]

----
Init ==
  /\ task = "none" /\ stage = "pending" /\ logs = <<>> /\ told = 0
  /\ syncing = FALSE /\ mirror = "none"
  /\ proc = "none" /\ exitOk = FALSE /\ printed = 0 /\ unread = 0
  /\ late = FALSE /\ registered = FALSE /\ flagged = FALSE
  /\ answer = [a \in Admins |-> "none"]
  /\ watch = [w \in Watchers |-> Closed]

\* The log with one more entry, the oldest given up when it is full.
NewestFirst(log, entry) ==
  <<entry>> \o (IF Len(log) >= MaxLogs THEN Front(log) ELSE log)
Capped(log, entry) ==
  IF Len(log) >= MaxLogs THEN Append(Tail(log), entry) ELSE Append(log, entry)

\* A message is logged; AddAnyway is the one append without the cap.
Add       == /\ told' = told + 1
             /\ logs' = Capped(logs, told + 1)
AddAnyway == /\ told' = told + 1
             /\ logs' = Append(logs, told + 1)
AddIfRoom == IF Len(logs) < MaxLogs THEN Add ELSE UNCHANGED <<logs, told>>

\* SIGKILL, which a process that has exited does not feel.
Spared == proc
Killed == IF proc = "running" THEN "signalled" ELSE proc

\* The task moves on and mirrors the job; nothing of it happens until then.
Proceeds(from, to) == /\ task = from /\ ~syncing
                      /\ task' = to
Mirrored == syncing' = TRUE /\ UNCHANGED mirror

(***************************************************************************)
(* Starting a job                                                          *)
(***************************************************************************)
\* The route creates the job, mirrors it as pending, then creates the task.
StartJob ==
  /\ Proceeds("none", "start")
  /\ Mirrored
  /\ UNCHANGED <<jobVars, procVars, late, cancelVars, answer, watch>>

Schedule ==
  /\ Proceeds("start", "scheduled")
  /\ UNCHANGED <<jobVars, mirrorVars, procVars, late, cancelVars, answer, watch>>

\* _redis_sync ends: the copy is written, or the call fails and is logged.
Sync ==
  /\ syncing
  /\ syncing' = FALSE
  /\ mirror' \in {mirror, stage}
  /\ UNCHANGED <<task, jobVars, procVars, late, cancelVars, answer, watch>>

(***************************************************************************)
(* The job's task                                                          *)
(***************************************************************************)
Begin ==
  /\ Proceeds("scheduled", "opened")
  /\ stage' = "running"
  /\ Mirrored
  /\ UNCHANGED <<logs, told, procVars, late, cancelVars, answer, watch>>

\* An install announces itself, an update does not.
Announce ==
  /\ Proceeds("opened", "spawning")
  /\ \/ stage' = "started" /\ Add /\ Mirrored
     \/ UNCHANGED <<jobVars, mirrorVars>>
  /\ UNCHANGED <<procVars, late, cancelVars, answer, watch>>

\* The operating system starts the installer; its handle is not known yet.
Spawn ==
  /\ Proceeds("spawning", "spawned")
  /\ proc' = "running"
  /\ UNCHANGED <<jobVars, mirrorVars, exitOk, printed, unread, late, cancelVars,
                 answer, watch>>

\* create_subprocess_exec raises OSError: the handler for it settles the job.
SpawnFails ==
  /\ Proceeds("spawning", "raised")
  /\ stage' = "failed"
  /\ AddIfRoom
  /\ Mirrored
  /\ UNCHANGED <<procVars, late, cancelVars, answer, watch>>

\* _register_process: a cancel that came first is carried out now.
RegisterUnchecked ==
  /\ Proceeds("spawned", "draining")
  /\ registered' = TRUE
  /\ UNCHANGED <<jobVars, mirrorVars, procVars, late, flagged, answer, watch>>
Register ==
  /\ Proceeds("spawned", "draining")
  /\ \/ flagged /\ flagged' = FALSE /\ proc' = Killed /\ UNCHANGED registered
     \/ ~flagged /\ registered' = TRUE /\ UNCHANGED <<flagged, proc>>
  /\ UNCHANGED <<jobVars, mirrorVars, exitOk, printed, unread, late, answer, watch>>

\* A line of output reaches the task; an empty one is not logged.
Line ==
  /\ unread > 0
  /\ Proceeds("draining", "draining")
  /\ unread' = unread - 1
  /\ stage' = "running" /\ Mirrored
  /\ \/ Add
     \/ UNCHANGED <<logs, told>>
  /\ UNCHANGED <<proc, exitOk, printed, late, cancelVars, answer, watch>>

\* What the exit code and the time-out say of the job.
CodeIgnored == IF late THEN "failed" ELSE "completed"
Outcome == IF ~late /\ exitOk THEN "completed" ELSE "failed"

\* The watcher's result is the last event; lines the reader has not queued,
\* or has handed to the abandoned get(), are lost.
LastEventFirst ==
  /\ late \/ proc = "exited"
  /\ Proceeds("draining", IF unread > 0 THEN "draining" ELSE "ended")
  /\ stage' = Outcome /\ Mirrored
  /\ UNCHANGED <<logs, told, procVars, late, cancelVars, answer, watch>>
LastEvent ==
  /\ late \/ proc = "exited"
  /\ Proceeds("draining", "ended")
  /\ unread' = 0
  /\ stage' = Outcome
  /\ IF late THEN Add ELSE UNCHANGED <<logs, told>>
  /\ Mirrored
  /\ UNCHANGED <<proc, exitOk, printed, late, cancelVars, answer, watch>>

\* A cancel that found no handle overrules any event but a time-out.
Settle ==
  /\ Proceeds("ended", "settled")
  /\ flagged' = FALSE
  /\ IF flagged /\ ~late THEN stage' = "failed" /\ AddAnyway
                         ELSE UNCHANGED jobVars
  /\ Mirrored
  /\ UNCHANGED <<procVars, late, registered, answer, watch>>

\* on_success, whose failures are logged, then _unregister_process.
Close ==
  /\ \/ Proceeds("settled", "over")
     \/ Proceeds("raised", "over")
  /\ registered' = FALSE
  /\ UNCHANGED <<jobVars, mirrorVars, procVars, late, flagged, answer, watch>>

\* The job leaves _jobs, and Redis unless the call fails before the key's TTL.
Expire ==
  /\ Proceeds("over", "expired")
  /\ mirror' \in {mirror, "none"}
  /\ UNCHANGED <<jobVars, syncing, procVars, late, cancelVars, answer, watch>>

(***************************************************************************)
(* The installer and the watcher of _drain_subprocess                      *)
(***************************************************************************)
Output ==
  /\ proc = "running" /\ printed < MaxLines
  /\ printed' = printed + 1 /\ unread' = unread + 1
  /\ UNCHANGED <<task, jobVars, mirrorVars, proc, exitOk, late, cancelVars,
                 answer, watch>>

\* It ends by itself, with any code, or of the signal.
Exit ==
  /\ proc' = "exited"
  /\ \/ proc = "running" /\ exitOk' \in BOOLEAN
     \/ proc = "signalled" /\ UNCHANGED exitOk
  /\ UNCHANGED <<task, jobVars, mirrorVars, printed, unread, late, cancelVars,
                 answer, watch>>

\* harness_install_timeout_seconds have passed.
NoTimeout == FALSE /\ UNCHANGED vars
WatchTimeout ==
  /\ task = "draining" /\ ~late /\ proc # "exited"
  /\ late' = TRUE /\ proc' = Killed
  /\ UNCHANGED <<task, jobVars, mirrorVars, exitOk, printed, unread, cancelVars,
                 answer, watch>>

(***************************************************************************)
(* The other routes                                                        *)
(***************************************************************************)
\* The id is known to clients once the route that started the job answers.  An
\* expired job is not found, or found finished: a request changes nothing.
Known == task \notin {"none", "start", "expired"}

\* HarnessJobService.cancel: the installer is killed, or the job marked.
CancelProcess(a) ==
  \/ /\ registered
     /\ answer' = [answer EXCEPT ![a] = "killed"]
     /\ registered' = FALSE /\ proc' = Killed
     /\ UNCHANGED flagged
  \/ /\ ~registered
     /\ answer' = [answer EXCEPT ![a] = "marked"]
     /\ flagged' = TRUE
     /\ UNCHANGED <<proc, registered>>

\* cancel_harness_job on the replica that runs the job.
Cancel(a) ==
  /\ Known /\ answer[a] = "none"
  /\ \/ /\ stage \in Finished
        /\ answer' = [answer EXCEPT ![a] = "already_finished"]
        /\ UNCHANGED <<proc, cancelVars>>
     \/ stage \notin Finished /\ CancelProcess(a)
  /\ UNCHANGED <<task, jobVars, mirrorVars, exitOk, printed, unread, late, watch>>

Open(w) ==
  /\ Known /\ watch[w].at = "closed"
  /\ watch' = [watch EXCEPT ![w].at = "polling"]
  /\ UNCHANGED <<task, jobVars, mirrorVars, procVars, late, cancelVars, answer>>

\* The stream hands the first of these entries to the client and waits for it.
Sending(s, entries) ==
  [s EXCEPT !.at = "sending", !.sent = Append(@, Head(entries)), !.todo = Tail(entries)]

CaughtCompleted(s) ==
  [s EXCEPT !.index = Len(logs), !.at = IF stage = "completed" THEN "done" ELSE "polling"]
\* All are sent: the index moves to the end of the log as it is by now.
Caught(s) ==
  [s EXCEPT !.index = Len(logs), !.at = IF stage \in Finished THEN "done" ELSE "polling"]

\* One turn of the loop from the wake-up of its sleep to its next await.
Poll(w) ==
  /\ watch[w].at = "polling"
  /\ LET new == SubSeq(logs, watch[w].index + 1, Len(logs))
     IN  watch' = [watch EXCEPT ![w] = IF new = <<>> THEN Caught(@) ELSE Sending(@, new)]
  /\ UNCHANGED <<task, jobVars, mirrorVars, procVars, late, cancelVars, answer>>

\* The client has taken an entry.
Resume(w) ==
  /\ watch[w].at = "sending"
  /\ watch' = [watch EXCEPT ![w] = IF @.todo = <<>> THEN Caught(@) ELSE Sending(@, @.todo)]
  /\ UNCHANGED <<task, jobVars, mirrorVars, procVars, late, cancelVars, answer>>

----
JobStep == \/ StartJob \/ Schedule \/ Begin \/ Announce \/ Spawn \/ SpawnFails
           \/ Register \/ Line \/ LastEvent \/ Settle \/ Close

Next ==
  \/ JobStep \/ Sync \/ Expire
  \/ Output \/ Exit \/ WatchTimeout
  \/ \E a \in Admins : Cancel(a)
  \/ \E w \in Watchers : Open(w) \/ Poll(w) \/ Resume(w)

Spec == Init /\ [][Next]_vars

\* The event loop runs every task that can go on and every timer that is due;
\* a signalled process dies; a client that opened a stream reads it.  Nothing
\* makes an installer exit or a request come.
FairSpec ==
  /\ Spec
  /\ WF_vars(task # "none" /\ JobStep)
  /\ WF_vars(Sync)
  /\ WF_vars(WatchTimeout)
  /\ WF_vars(proc = "signalled" /\ Exit)
  /\ \A w \in Watchers : WF_vars(Poll(w) \/ Resume(w))
(***************************************************************************)
(* Properties                                                              *)
(***************************************************************************)
\* Every variable keeps its type; the log holds at most one entry over its cap,
\* the one a late cancel appends (harness_job_service.py:172-174, 196).
TypeOK ==
  /\ task \in Tasks /\ stage \in Stages
  /\ told \in Nat /\ logs \in Seq(Nat) /\ Len(logs) <= MaxLogs + 1
  /\ syncing \in BOOLEAN /\ mirror \in Stages \cup {"none"}
  /\ proc \in {"none", "running", "signalled", "exited"} /\ exitOk \in BOOLEAN
  /\ printed \in 0..MaxLines /\ unread \in 0..printed
  /\ late \in BOOLEAN /\ registered \in BOOLEAN /\ flagged \in BOOLEAN
  /\ answer \in [Admins -> {"none", "already_finished", "killed", "marked"}]
  /\ watch \in [Watchers -> [at : {"closed", "polling", "sending", "done"},
                             index : Nat, todo : Seq(Nat), sent : Seq(Nat)]]

\* An accepted cancel is never lost: the installer it is meant for is not left
\* running, unless it has just been spawned and its registration will kill it
\* (harness_job_service.py:98-126).
CancelReachesInstaller ==
  (\E a \in Admins : answer[a] \in {"killed", "marked"}) /\ proc = "running"
    => task = "spawned" /\ flagged

\* No installer is left running by a job that has been reported finished,
\* whichever of exit, time-out, failed spawn and cancel finished it.
FinishedIsStopped == stage \in Finished => proc # "running"

\* A job is completed only by an installer that exited with code 0 in time:
\* never by one that was killed, or was never started.
CompletedMeansExitedZero == stage = "completed" => proc = "exited" /\ exitOk /\ ~late

\* A finished job is never shown unfinished again, here or by the copy other
\* replicas read: no late line, cancel or settling step reopens it (a cancel
\* without a handle may still turn completed into failed).
NeverReopened ==
  [][ /\ stage \in Finished => (stage' \in Finished)
      /\ mirror \in Finished => (mirror' \in Finished \cup {"none"}) ]_vars

\* A stream never repeats or reorders entries, although the log loses its
\* oldest entry under the stream's index (admin.py:257-266).
SentInOrder ==
  \A w \in Watchers : LET sent == watch[w].sent
                      IN  \A i, k \in DOMAIN sent : i < k => sent[i] < sent[k]

\* base.py:100: install and update jobs are not "parked in running forever",
\* even when the installer hangs.
JobSettles == task # "none" ~> task \in {"over", "expired"} /\ stage \in Finished

\* A stream opened on the replica that runs the job ends.
WatchEnds == \A w \in Watchers : watch[w].at # "closed" ~> watch[w].at = "done"
====
