----------------------------- MODULE OsTerminal -----------------------------
(***************************************************************************)
(* OS terminals: services/os_terminal.py with its child wrapper, and the   *)
(* routes and WebSocket pump of api/os_terminal.py.  Calls by a user who   *)
(* does not own the terminal are refused without a change of state (stop   *)
(* takes the session out and puts it back with no await between), so a     *)
(* terminal here has one user.  Window sizes are left out.                 *)
(***************************************************************************)
EXTENDS Naturals, Sequences, FiniteSets

CONSTANTS
  MaxTerminals,   \* bound: the sessions that start
  MaxViewers,     \* bound: the WebSocket connections
  MaxArrivals,    \* bound: twice the sessions and the connections together
  MaxChunks       \* bound: the chunks one shell prints

ASSUME BoundsAssumption == {MaxTerminals, MaxViewers, MaxArrivals, MaxChunks} \subseteq Nat

VARIABLES
  stage,     \* where each session is in its life
  fd,        \* TerminalSession.fd
  file,      \* descriptor table: the terminal whose PTY master a number is
  shell,     \* the child process, standing for its process group
  printed,   \* how many chunks it has printed
  pty,       \* what it has printed and nobody has read
  task,      \* _read_loop
  thread,    \* _blocking_read
  queue,     \* TerminalSession._output_queue
  view,      \* each WebSocket connection
  down       \* the gateway is shutting down

sessionVars == <<stage, fd, file>>
shellVars   == <<shell, printed>>
readerVars  == <<task, thread>>
vars == <<sessionVars, shellVars, pty, readerVars, queue, view, down>>

\* Sessions and connections are named in the order they come.
Terminals == 1..MaxTerminals
Viewers == 1..MaxViewers
NoTerminal == 0

\* A PTY takes the lowest free number, so there are never more in use.
Numbers == 1..MaxTerminals

\* The end marker of an output queue.
End == [of |-> NoTerminal, nr |-> 0]
Chunk(t) == [of |-> t, nr |-> printed[t] + 1]

InTable(t)  == stage[t] = "live"
Stopping(t) == stage[t] \in {"grace", "killing"}
StoppedAtTheEnd(t) == stage[t] = "gone"
Stopped(t)  == Stopping(t) \/ stage[t] = "gone"
Dead(t)     == shell[t] = "exited"
Readable(t) == pty[t] # <<>> \/ Dead(t)

Connected(v) == view[v].at \notin {"idle", "left", "closed"}

Arrived ==
  2 * Cardinality({t \in Terminals : stage[t] # "none"})
    + Cardinality({v \in Viewers : view[v].at # "idle"})

Idle == [at |-> "none", on |-> NoTerminal]
Waiting(t) == [at |-> "waiting", on |-> t]
Unconnected == [at |-> "idle", on |-> NoTerminal]

----
Init ==
  /\ stage = [t \in Terminals |-> "none"] /\ fd = [t \in Terminals |-> 0]
  /\ file = [n \in Numbers |-> NoTerminal]
  /\ shell = [t \in Terminals |-> "none"] /\ printed = [t \in Terminals |-> 0]
  /\ pty = [t \in Terminals |-> <<>>]
  /\ task = [t \in Terminals |-> "none"] /\ thread = [t \in Terminals |-> Idle]
  /\ queue = [t \in Terminals |-> <<>>]
  /\ view = [v \in Viewers |-> Unconnected]
  /\ down = FALSE

(***************************************************************************)
(* start, and the child                                                    *)
(***************************************************************************)
\* start never suspends.  When openpty or posix_spawn fails everything it
\* opened is closed again.
StartOn(t, n) ==
  /\ stage[t] = "none" /\ ~down /\ Arrived + 2 <= MaxArrivals
  /\ \A u \in 1..(t - 1) : stage[u] # "none"
  /\ stage' = [stage EXCEPT ![t] = "live"]
  /\ fd' = [fd EXCEPT ![t] = n]
  /\ file' = [file EXCEPT ![n] = t]
  /\ shell' = [shell EXCEPT ![t] = "running"]
  /\ task' = [task EXCEPT ![t] = "reading"]
  /\ thread' = [thread EXCEPT ![t] = Waiting(t)]
  /\ UNCHANGED <<printed, pty, queue, view, down>>

Start(t) ==
  \E n \in Numbers :
    /\ file[n] = NoTerminal /\ \A m \in 1..(n - 1) : file[m] # NoTerminal
    /\ StartOn(t, n)

\* The PTY of the given terminal has another chunk, printed by t.
Prints(t, master) ==
  /\ printed[t] < MaxChunks
  /\ printed' = [printed EXCEPT ![t] = @ + 1]
  /\ pty' = [pty EXCEPT ![master] = Append(@, Chunk(t))]

Emit(t) ==
  /\ shell[t] = "running"
  /\ Prints(t, t)
  /\ UNCHANGED <<sessionVars, shell, readerVars, queue, view, down>>

\* It ends by itself, as when the wrapper has printed why it could not become
\* the shell, or of a signal, which it may also ignore for a while.
Exit(t) ==
  /\ shell[t] \in {"running", "signalled", "killed"}
  /\ shell' = [shell EXCEPT ![t] = "exited"]
  /\ UNCHANGED <<sessionVars, printed, pty, readerVars, queue, view, down>>

(***************************************************************************)
(* _read_loop and _blocking_read                                           *)
(***************************************************************************)
\* The number the thread uses is looked up when the system call is made; the
\* file it meant, or another terminal's, or none may have it by then.
Target(t) == file[fd[t]]

\* The thread's job returns: nothing comes of it once the task was cancelled.
\* A chunk is queued, and the job is submitted again unless the terminal was
\* stopped meanwhile; no bytes end the task, which queues the end marker.
Returns(t, chunks) ==
  LET again == chunks # <<>> /\ ~Stopped(t) IN
  IF task[t] = "reading"
  THEN /\ queue' = [queue EXCEPT ![t] = @ \o chunks \o (IF again THEN <<>> ELSE <<End>>)]
       /\ task' = [task EXCEPT ![t] = IF again THEN "reading" ELSE "over"]
       /\ thread' = [thread EXCEPT ![t] = IF again THEN Waiting(t) ELSE Idle]
  ELSE /\ thread' = [thread EXCEPT ![t] = Idle]
       /\ UNCHANGED <<queue, task>>

Moves(t, to) ==
  /\ thread' = [thread EXCEPT ![t] = to]
  /\ UNCHANGED <<task, queue>>

\* select, entered while the terminal was not stopped, reports data or a
\* hang-up; or its 0.4 seconds pass and the loop looks at _stopped.
Selected(t) ==
  /\ thread[t].at = "waiting"
  /\ \/ Readable(t) /\ Moves(t, [at |-> "reading", on |-> NoTerminal])
     \/ ~Readable(t) /\ Stopped(t) /\ Returns(t, <<>>)
  /\ UNCHANGED pty

Read(t) ==
  /\ thread[t].at = "reading"
  /\ IF Target(t) = NoTerminal
     THEN Returns(t, <<>>)
     ELSE Moves(t, [at |-> "blocked", on |-> Target(t)])
  /\ UNCHANGED pty

\* os.read blocks until there are bytes, or the last slave end is closed.
ReadEnds(t) ==
  LET f == thread[t].on IN
  /\ thread[t].at = "blocked" /\ Readable(f)
  /\ IF pty[f] = <<>>
     THEN Returns(t, <<>>) /\ UNCHANGED pty
     ELSE Returns(t, <<Head(pty[f])>>) /\ pty' = [pty EXCEPT ![f] = Tail(@)]

ReaderStep(t) ==
  /\ \/ Selected(t) \/ Read(t) \/ ReadEnds(t)
  /\ UNCHANGED <<sessionVars, shellVars, view, down>>

(***************************************************************************)
(* stop and shutdown                                                       *)
(***************************************************************************)
\* The opening of _terminate, up to its first await: the descriptor is closed
\* and the process group signalled.
TerminatingUnclosed(t) ==
  /\ stage' = [stage EXCEPT ![t] = "grace"]
  /\ shell' = [shell EXCEPT ![t] = IF @ = "exited" THEN @ ELSE "signalled"]
  /\ UNCHANGED <<fd, file, printed, pty, readerVars, queue>>
Terminating(t) ==
  /\ stage' = [stage EXCEPT ![t] = "grace"]
  /\ file' = [file EXCEPT ![fd[t]] = NoTerminal]
  /\ shell' = [shell EXCEPT ![t] = IF @ = "exited" THEN @ ELSE "signalled"]
  /\ UNCHANGED <<fd, printed, pty, readerVars, queue>>

Stop(t) ==
  /\ InTable(t)
  /\ Terminating(t)
  /\ UNCHANGED <<view, down>>

\* Eight polls of waitpid have found nothing: SIGKILL, and as many polls again.
GiveUp(t) ==
  /\ stage[t] = "grace"
  /\ stage' = [stage EXCEPT ![t] = "killing"]
  /\ UNCHANGED <<fd, file, shellVars, pty, readerVars, queue, view, down>>
Kill(t) ==
  /\ stage[t] = "grace"
  /\ stage' = [stage EXCEPT ![t] = "killing"]
  /\ shell' = [shell EXCEPT ![t] = IF @ = "exited" THEN @ ELSE "killed"]
  /\ UNCHANGED <<fd, file, printed, pty, readerVars, queue, view, down>>

\* A poll has reaped the shell, or the last poll has passed.  The reader task
\* is cancelled, which ends it with its end marker; a thread in a system call
\* goes on.
CancelsReader(t, markers) ==
  /\ stage[t] = "killing" \/ (stage[t] = "grace" /\ shell[t] = "exited")
  /\ stage' = [stage EXCEPT ![t] = "gone"]
  /\ queue' = [queue EXCEPT ![t] =
                 @ \o (IF task[t] = "reading" THEN <<End>> ELSE <<>>) \o markers]
  /\ task' = [task EXCEPT ![t] = "over"]
  /\ UNCHANGED <<fd, file, shellVars, pty, thread, view, down>>

\* Then _terminate queues an end marker of its own.
FinishWithoutMarker(t) == CancelsReader(t, <<>>)
Finish(t) == CancelsReader(t, <<End>>)

\* At shutdown the server has closed its connections; the table is cleared
\* and its sessions are terminated one after another.
Shutdown ==
  /\ ~down /\ down' = TRUE
  /\ \A v \in Viewers : ~Connected(v)
  /\ \A t \in Terminals : ~Stopping(t)
  /\ stage' = [t \in Terminals |-> IF InTable(t) THEN "doomed" ELSE stage[t]]
  /\ UNCHANGED <<fd, file, shellVars, pty, readerVars, queue, view>>

TerminateNext(t) ==
  /\ stage[t] = "doomed" /\ \A u \in Terminals : ~Stopping(u)
  /\ Terminating(t)
  /\ UNCHANGED <<view, down>>

TerminateStep(t) == Kill(t) \/ Finish(t) \/ TerminateNext(t)

(***************************************************************************)
(* The WebSocket pump                                                      *)
(***************************************************************************)
Viewing(v, at) == view' = [view EXCEPT ![v].at = at]

Connect(v, t) ==
  /\ view[v].at = "idle" /\ InTable(t) /\ Arrived + 1 <= MaxArrivals
  /\ \A w \in 1..(v - 1) : view[w].at # "idle"
  /\ view' = [view EXCEPT ![v] = [at |-> "accepting", on |-> t]]
  /\ UNCHANGED <<sessionVars, shellVars, pty, readerVars, queue, down>>

\* The socket is accepted and the writer calls stream, which looks again.
Open(v) ==
  /\ view[v].at = "accepting"
  /\ Viewing(v, IF InTable(view[v].on) THEN "streaming" ELSE "refused")
  /\ UNCHANGED <<sessionVars, shellVars, pty, readerVars, queue, down>>

\* The client was gone before: accept raises, outside the try that stops.
AcceptFails(v) ==
  /\ view[v].at = "accepting"
  /\ Viewing(v, "left")
  /\ UNCHANGED <<sessionVars, shellVars, pty, readerVars, queue, down>>

\* The stream takes the head of the queue: a chunk is sent, the marker ends it.
Takes(v) ==
  LET t == view[v].on IN
  /\ queue[t] # <<>>
  /\ queue' = [queue EXCEPT ![t] = Tail(@)]
  /\ Viewing(v, IF Head(queue[t]) = End THEN "ended" ELSE "sending")

Take(v) ==
  /\ view[v].at = "streaming"
  /\ Takes(v)
  /\ UNCHANGED <<sessionVars, shellVars, pty, readerVars, down>>

\* The client has taken the chunk.  The stream of a stopped terminal sends what
\* else is queued, and ends without waiting.
Sent(v) ==
  LET t == view[v].on IN
  /\ view[v].at = "sending"
  /\ IF Stopped(t) /\ queue[t] # <<>>
     THEN Takes(v)
     ELSE Viewing(v, IF Stopped(t) THEN "ended" ELSE "streaming") /\ UNCHANGED queue
  /\ UNCHANGED <<sessionVars, shellVars, pty, readerVars, down>>

\* The client types; what it types is echoed by the terminal that gets it.
Write(v) ==
  LET t == view[v].on IN
  /\ Connected(v) /\ InTable(t) /\ view[v].at # "accepting"
  /\ shell[t] = "running" /\ Target(t) # NoTerminal
  /\ Prints(t, Target(t))
  /\ UNCHANGED <<sessionVars, shell, readerVars, queue, view, down>>

\* The client goes away, or types into a terminal that is gone: the writer is
\* cancelled, then the terminal is stopped if it still exists.
Leave(v) ==
  LET t == view[v].on IN
  /\ Connected(v) /\ view[v].at # "accepting"
  /\ Viewing(v, IF view[v].at = "ended" THEN "closed" ELSE "left")
  /\ IF InTable(t) THEN Terminating(t)
     ELSE UNCHANGED <<sessionVars, shellVars, pty, readerVars, queue>>
  /\ UNCHANGED down

PumpStep(v) == Open(v) \/ Take(v) \/ Sent(v)

----
Next ==
  \/ \E t \in Terminals :
       Start(t) \/ Emit(t) \/ Exit(t) \/ ReaderStep(t) \/ Stop(t) \/ TerminateStep(t)
  \/ \E v \in Viewers :
       \/ PumpStep(v) \/ AcceptFails(v) \/ Write(v) \/ Leave(v)
       \/ \E t \in Terminals : Connect(v, t)
  \/ Shutdown

Spec == Init /\ [][Next]_vars

\* Threads and tasks that can go on do, and a connected client reads.  Nothing
\* makes a shell exit, print, or die of a signal.
FairSpec ==
  /\ Spec
  /\ \A t \in Terminals : WF_vars(ReaderStep(t)) /\ WF_vars(TerminateStep(t))
  /\ \A v \in Viewers : WF_vars(PumpStep(v))
(***************************************************************************)
(* Properties                                                              *)
(***************************************************************************)
Chunks == [of : Terminals, nr : 1..MaxChunks]
Connections ==
  [at : {"idle", "accepting", "refused", "streaming", "sending", "ended", "left", "closed"},
   on : Terminals \cup {NoTerminal}]

\* Every variable keeps its type.
TypeOK ==
  /\ stage \in [Terminals -> {"none", "live", "doomed", "grace", "killing", "gone"}]
  /\ fd \in [Terminals -> {0} \cup Numbers]
  /\ file \in [Numbers -> Terminals \cup {NoTerminal}]
  /\ shell \in [Terminals -> {"none", "running", "signalled", "killed", "exited"}]
  /\ printed \in [Terminals -> 0..MaxChunks]
  /\ pty \in [Terminals -> Seq(Chunks)]
  /\ task \in [Terminals -> {"none", "reading", "over"}]
  /\ thread \in [Terminals -> [at : {"none", "waiting", "reading", "blocked"},
                               on : Terminals \cup {NoTerminal}]]
  /\ queue \in [Terminals -> Seq(Chunks \cup {End})]
  /\ view \in [Viewers -> Connections]
  /\ down \in BOOLEAN

\* The open descriptors are those of the sessions that are not stopped, one
\* each: none is closed twice, kept, or taken by a second terminal while in
\* use (os_terminal.py:213-217).
DescriptorsOwned ==
  \A t \in Terminals, n \in Numbers :
    file[n] = t <=> stage[t] \in {"live", "doomed"} /\ fd[t] = n

\* The reader of a terminal that is not stopped works on that terminal, and
\* its output queue holds only that terminal's output, although the threads of
\* stopped ones still hold descriptor numbers (os_terminal.py:320-334).
LiveReadsOwn ==
  \A t \in Terminals : ~Stopped(t) =>
    /\ thread[t].on \in {t, NoTerminal}
    /\ \A i \in DOMAIN queue[t] : queue[t][i].of \in {t, NoTerminal}

\* Shutting down ends with every terminal terminated, and no shell that was
\* not at least sent SIGKILL, even if it ignores the other signals.
ShutdownStopsAll ==
  down ~> \A t \in Terminals :
            /\ stage[t] \in {"none", "gone"}
            /\ shell[t] \notin {"running", "signalled"}

\* The streams of the terminal that have ended.
EndedStreams(t) == {v \in Viewers : view[v].on = t /\ view[v].at \in {"ended", "closed"}}

\* A stream of a terminal that was stopped ends, whatever the reader's thread
\* is blocked in, unless two other streams of that terminal do; when the shell
\* exits by itself, one stream ends.  Nothing limits the streams of a terminal,
\* and each waits for an end marker of its own: the reader queues one and the
\* stop another, so a third stream can wait for ever (os_terminal.py:277, 316,
\* 369; docs/os-terminal.md:83).
StreamEnds ==
  \A v \in Viewers, t \in Terminals :
    (view[v] \in [at : {"streaming", "sending"}, on : {t}] /\ (Stopped(t) \/ Dead(t)))
      ~> \/ view[v].at \in {"ended", "left", "closed"}
         \/ Cardinality(EndedStreams(t)) >= IF Stopped(t) THEN 2 ELSE 1

(***************************************************************************)
(* What a comment says, and the code does not keep.                        *)
(***************************************************************************)
\* os_terminal.py:282: the reader copies the PTY's output into the queue of
\* its session; :63: users are isolated from each other.
OutputStaysHome ==
  \A t \in Terminals : \A i \in DOMAIN queue[t] : queue[t][i].of \in {t, NoTerminal}
====
