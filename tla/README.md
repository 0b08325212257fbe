# Verification of the AFAQ Harness Gateway

TLA+ models of the gateway in `src/app`, the TLC runs that check them on small
instances, and the TLAPS proofs that hold for every instance. `PROJECT.json`
lists every run, what it checks, the source lines each definition stands for,
and the hazards the properties are aimed at.

1. [The system](#1-the-system) 2. [What is hard](#2-what-is-hard)
3. [Modules](#3-modules) 4. [Quotas](#4-quota-reservations)
5. [Execution](#5-harness-execution) 6. [History](#6-stream-identity-and-replay-history)
7. [Jobs](#7-install-and-update-jobs) 8. [Terminals](#8-os-terminals)
9. [Accounts](#9-users-and-api-keys) 10. [Rate limiter](#10-rate-limiter)
11. [Model cache](#11-model-cache) 12. [Runs](#12-the-runs)
13. [Proofs](#13-the-proofs) 14. [Divergences](#14-where-code-and-documents-differ)
15. [Limits](#15-what-is-not-covered)

## 1. The system

The gateway is one FastAPI process (optionally several replicas behind one
Redis) that turns chat requests into runs of command-line harnesses (claude,
codex, opencode, ...), streams their output to the client as server-sent
events, and accounts for the use of API keys. One event loop runs every
handler; blocking work (the database through aiosqlite, terminal reads) is done
in threads.

| Component | State | Operations | Talks to | Correct when | Model |
|---|---|---|---|---|---|
| Quota reservations (`services/quota_service.py`) | tables `quota_reservations`, `usage_records`; SQLite's write lock | reserve, finalize, release; deletion of a user's rows | the four request handlers, the user routes | a key's concurrent admissions stay within its limits; each request is charged at most once and only on success; a lost reservation stops counting | `QuotaReservation` |
| Request handlers (`api/chat.py`, `api/openai.py`) | stage of the handler, `can_release_reservation` | send, stream, completions (stream or not), cancel | quota, adapters, transport, database | every exit settles the reservation or leaves it to its expiry | `QuotaReservation`, `HarnessExecution` |
| Harness execution (`clients/base.py`, `services/harness_queue.py`) | semaphore of slots, one subprocess per run | run, stream, install, update | process registry | slots are conserved, processes reaped, every run ends | `HarnessExecution` |
| Process registry (`services/process_registry.py`) | `_processes`, `_pending_cancel` | register, cancel, cleanup | handlers, adapters | a live process can be cancelled, before and after it is registered | `HarnessExecution` |
| Stream transport (`transport/stream.py`) | read task, keepalive, disconnect poll | pump, store and format, replay | adapters, history | a client that left stops its harness | `HarnessExecution`, `StreamHistory` |
| Stream history and identity (`transport/history.py`, `identity.py`) | bounded log per stream, in Redis or in memory | append, replay, exists; choose or reject an id | handlers | a replay is an ordered part of one stream; reconnects are served | `StreamHistory` |
| Harness jobs (`services/harness_job_service.py`, `api/admin.py`) | jobs, their installer, a copy in Redis | start, cancel, expire, stream of events | adapters | a job settles, its outcome is the installer's, a cancel reaches it | `HarnessJobs` |
| OS terminal (`services/os_terminal.py`, `api/os_terminal.py`) | sessions, pty, reader thread, output queue | start, write, resize, stop, websocket loop, shutdown | child process | a descriptor is released once and read by its own terminal; children are ended; the stream ends | `OsTerminal` |
| Rate limiter (`middleware/rate_limit.py`) | sliding window in memory, fixed window in Redis | allow | every request | a client gets at most its limit per window, also when Redis comes and goes | `RateLimiter` |
| Users and sessions (`services/user_service.py`, `api/auth.py`) | `users` | bootstrap, login, create, update, delete | every request | addresses stay distinct; an active administrator is left | `Accounts` |
| API keys (`api/admin.py`) | `api_keys` | create, toggle, rotate, delete | quota | a revoked secret opens nothing again; a key goes with its owner | `Accounts` |
| Model cache and inventory (`clients/registry.py`, `services/model_refresh_service.py`, `api/admin.py`) | cached models per replica, a Redis copy, `harnesses.installed` | refresh, list, check, uninstall | admin API, handlers | no model of a removed harness comes back | `ModelCache` |
| Model rules (`services/model_service.py`) | none | validate, select | handlers | | no |
| Conversations (`api/chat.py`, `services/chat_service.py`) | conversations, messages | create, rename, archive, delete, persist | handlers | user message before answer; deletion loses no other row | order in `QuotaReservation` |
| Credentials (`services/credential_service.py`) | per-user profiles | store, check, delete | adapters | one user's rows | no |
| Project update (`services/project_update_service.py`) | one lock | git pull | git | one pull at a time | no |
| Adapters' parsing, structured output, prompts, SSE, logging, metrics, dashboard, configuration | none, or read only | formatting and reports | | | no |

Interactions that the models follow: a handler reserves quota, takes a slot of
the queue, spawns a harness, registers it under its request or stream id,
pumps its lines through the transport into the history and to the client, then
persists the messages and finalizes the reservation. A cancel endpoint, a
disconnect poll, a timeout and the end of the process race each other for the
registered handle. Redis is shared by replicas and may fail at any call;
each call falls back by itself to the memory of its replica.

## 2. What is hard

* handlers are coroutines: everything an `await` separates can interleave;
* a streaming handler is cancelled at whatever `await` it stands when its client
  disconnects, its `finally` included;
* quota admission is a read-then-insert that only SQLite's write lock orders;
* reservations expire by the clock while the request they belong to may run on;
* the process can die between any two commits;
* an administrator can delete a user whose requests are running;
* a slot, a subprocess and a registry entry must be given back on every path;
* a cancel can come before, during or after the registration of its process;
* a stream can be resumed while it is still being written, from another replica;
* a Redis call that timed out may have been executed;
* a job's event stream reads, across awaits, a log that grows and is trimmed;
* a terminal's reader is a thread that keeps the number of a descriptor its
  event loop may close and the system give to another terminal;
* a rule over several rows of `users` is checked in other database calls than
  the one that commits;
* two rate limiters, one of which may not answer, count one client;
* a refresh awaits discovery while another request empties what it will fill.

The `hazards` of `PROJECT.json` give each at its line, with the properties
that would catch it, or why none does yet.

## 3. Modules

| Module | Kind |
|---|---|
| `QuotaReservation` | component: reservations, handlers, clock |
| `QuotaLedger` | abstract: what a reservation token may become |
| `HarnessExecution` | component: slots, processes, registry, cancels, disconnects |
| `StreamHistory` | component: identity, both stores, writers, reconnects |
| `ReplayLog` | abstract: what a client that reconnects may be given |
| `HarnessJobs` | component: one install or update job |
| `OsTerminal` | component: sessions, descriptors, shells, reader threads, connections |
| `Accounts` | component: rows of users and keys, requests that read and commit |
| `RateLimiter` | component: sliding windows, shared counters, failing calls |
| `ModelCache` | component: caches, mirror, inventory row, refreshes and routes |
| `MC*` | the instance of each component that TLC checks |
| `QuotaReservationProofs`, `HarnessExecutionProofs`, `StreamHistoryProofs`, `HarnessJobsProofs`, `OsTerminalProofs`, `AccountsProofs`, `RateLimiterProofs`, `ModelCacheProofs` | theorems |

Each component keeps its state as VARIABLES, has one action per operation that
runs without an `await` (what an `await` separates is two actions), and a stage
variable per actor that names the `await` the actor stands at. Handlers that
share a subsystem are composed in its module: the four endpoints in
`QuotaReservation`, adapter, registry and endpoints in `HarnessExecution`,
handlers and stores in `StreamHistory`. Small named operators (`RowsWithout`,
`ReleaseSlot`, `Pushed`, ...) hold the single statements a plausible mistake
would change; beside each stands the mistaken form the mutants use, so that
every property is known to depend on the code.

Every component whose state several actors change now has its module. What
could come next: the conversations of `api/chat.py` as a module of their own, and
the readers of a mirrored job on another replica.

## 4. Quota reservations

`QuotaReservation` has a set of requests. A request has an endpoint (the four
handlers, `openai_retry` being the completion that asks for its structured
answer a second time) and a key or none. It reads the clock (`Arrive`), waits for SQLite's write lock, counts and
commits or is refused (`Count`, `CommitReservation`, `CommitFails`,
`LockBusy`), goes through its handler's stages (`Advance`; `NextStage` gives
the order of each endpoint and whether an error there reaches the `except`
that releases: `Covered`), and is charged (`Finalize`), released (`Release`) or just left.
`Interrupt` is an error or a disconnect at a stage, `Crash` the death of the
process (handlers are lost, tables stay), `Tick` the clock. `DeleteUser` is
`DELETE /users/{id}`: in one transaction it takes a user's rows from both tables
(`RowsOf`), live reservations of running requests included; the handlers run on, and
find at their finalization that the row is gone, or that a foreign key is.

| Variable | Code |
|---|---|
| `now` | `datetime.now`, in ticks |
| `dbWriter` | holder of BEGIN IMMEDIATE (`quota_service.py:226`) |
| `reserved` | rows of `quota_reservations` |
| `usage` | rows of `usage_records` |
| `erased` | (history) requests whose row went with their user |
| `kind`, `key`, `user`, `pc` | endpoint, `principal.key_id`, the user, the await the handler stands at |
| `readAt`, `chargedAt` | `now` of the reservation, `created_at` of the usage row |

Time. In the run a day is 2 ticks and a month two days; windows
start at multiples of their length (`daily_monthly_bounds`). `ReservationTTL` is
`max(harness_timeout_seconds + 60, 900)`. `MaxRun` is what one run takes at
most, slot wait plus harness timeout: 630 seconds by default, so that
`MaxRun < ReservationTTL` (`QuotaAssumption`) holds with the defaults, and with
any harness timeout as long as the slot wait stays under a minute. A completion
that asks twice can take `2 * MaxRun` (`Longest`), a stream any time. `Horizon`
bounds `now`, and a request arrives only early enough for its reservation to
expire before; two windows begin and rows expire within it, so pruning,
roll-over and late settlement all happen.

What is promised:

* `AdmissionWithinLimit`: the requests of a key that were admitted in the current
  window and hold a live reservation, or were charged before it expired, never
  exceed the limit. It needs the lock to be held from the count to the insert,
  although the clock was read before it, and `>` and `<=` to agree at expiry.
* `RowsAccountedFor`, `ChargedIffSuccessful`: a reservation belongs to a handler
  that has not settled it or died without a release; a request is reported
  successful only if charged, and its usage record stays unless its user is deleted;
  a request is never in both tables; and what a deletion took never comes back, so the
  late finalization of a deleted user's request charges nobody.
* `SendKeepsReservation`: a request that runs its harness once has its row until
  it settles, so nobody else's prune makes its finalization fail; only the deletion
  of its user does.
* `OnlyOwnerOrExpiryFrees`: a live row disappears only through its own request or
  with everything of its user, never by another request or another user's deletion.
* `ImplementsLedger`: as seen through `QuotaLedger`, a token goes from none to
  held, then to charged or free, and never back; only the deletion of the user
  undoes a charge, and an erased token stays so.
* `ReservationStopsCounting`, `HandlerEnds` (liveness): a reservation nobody
  settles stops counting; every non-streaming handler ends, and a streaming one
  once its harness has.

A deleted user's row id, or a key's, may be taken again by the next one (SQLite does
that). A request that is still running then inserts its row for the new owner's id, or
fails on the foreign key; both are in the model (`CommitReservation`, `CommitFails`),
with the limits of the new key assumed to be those of the old one.

Fairness: the event loop runs every handler that can proceed (`Proceed(r)`
weakly fair, except that a stream's harness may print for ever), and the clock
advances. Failures, disconnects and crashes are never obliged to happen.

## 5. Harness execution

`HarnessExecution` has runs (plain) and streams, each with the id it registers
under; which run is a stream, the ids, which a client may choose and two streams can
share, and the number of slots are given by `setup`, constant in a behaviour. A run enters the queue (`Enter`), takes a slot or times out (`Acquire`,
`QueueTimeout`), spawns (`Spawn`, `SpawnFails`; the registration in the same
step honours a pending cancel, as no `await` separates them), reads until
the end of output, a timeout or an exit (`Eof`,
`ReadTimeout`, `ExitTimeout`, `TimedOut`, `Collect`) and cleans up (`Leave`:
unregister, release the slot). A plain run that killed its process waits two seconds
for it and then without a bound (`CleanupTimeout`, stage `lingering`). The process is a separate actor
(`ProcessExits`; signalled processes die in their own time). `CancelRequest`
is the cancel of one id, `CancelConversation` the cancel of a conversation, which
looks the id up in the registry first (`Registered`) and, when the message
it was given is not running, takes any stream of the conversation; `PumpCancels`/`PumpStops`/`Drop` are the disconnect paths of
`pump_harness_stream` and of a response task that is cancelled, `Reply` is what
the client or the history is told.

| Variable | Code |
|---|---|
| `free` | the semaphore of `HarnessQueue` |
| `registry`, `pendingCancel` | `_processes`, `_pending_cancel` |
| `pc` | the await of `HarnessAdapter.run`/`stream` |
| `proc` | the operating system's view of the process |
| `result`, `answer` | outcome of the adapter, state of the response |
| `cancelled` | (history) runs whose cancel was answered "cancelled" |
| `contested` | (history) runs alive beside another process under their id |
| `setup` | the slots, and the kind and id of each run |

Details the model settles:

* the registry's critical sections hold no `await`, so its lock never makes
  anybody wait and each is one action;
* the semaphore's FIFO order is abstracted to any order: the properties do not
  depend on it, and a run that waits too long leaves by `QueueTimeout`;
* a cancellation inside `create_subprocess_exec` closes and kills the child
  (asyncio does it), so a run never leaves a process it has no handle of;
* the waits for a killed process may themselves be cancelled. A stream's `finally` is
  left at the next cancel. A plain run (`communicate_with_timeout`) kills at the first
  cancel, goes on waiting at a second within two seconds, and is left at the next
  (`Interrupted`), since `base.py:82` waits outside any handler of the cancel; once the two seconds
  have passed one cancel is enough. The slot is then free while the process is
  signalled and not yet gone. Hence `LiveProcessesBounded` speaks of processes that are
  not signalled. `RunsReapTheirProcess` says that there is no other way: a run that gave
  back its slot never leaves a process that was not killed, and leaves a killed one only
  if its handler was cancelled or, for a stream, its client left;
* one stream and one plain run on one slot contain every pairwise interaction of
  runs with ids of their own: the second waits for the first, and the registry is per id.
  Two streams under one id need two slots. The theorems cover any numbers.

`CancellableWhileAlive` makes no assumption on the ids. Two processes under one
`X-Stream-ID` overwrite each other's handle, so a live process can be out of reach of its
id; the property says that this is the only reason: every run that was never alive
beside another one under its id can be cancelled as long as it lives.

Fairness: ready adapter steps are taken, a signalled process dies, the pipe of a
dead process reaches its end or the read times out, the transport's poll acts on
a disconnect, and the deadline of a plain run passes. A harness need never exit
or fall silent: `RunEnds` holds because of the deadlines, `StoppedStreamEnds`
and `EarlyCancelEndsRun` because of the signals.

## 6. Stream identity and replay history

`StreamHistory` follows one stream id (ids never interact: a key of Redis or a
dictionary each; `clear` has no caller outside the tests). Writers are requests
that carry the same `X-Stream-ID`, reconnects are requests with a
`Last-Event-ID`; each lives on a replica. `Resolve` is
`resolve_stream_identity` with its history check, `Start`, `Token`, `Usage`,
`Done`, `Fail`, `Drop`, `GiveUp` are what a handler stores or skips, `Lookup`
and `Replay` are the two reads of a reconnect, `Expire` the TTL of the key,
`Restart` the loss of a replica's memory.

An event is its position in the history variable `log`, which also holds the
id (`seq`) and the kind. `redis` and `local[p]` hold positions. Every call to
Redis may succeed, fail before it ran, or fail after it ran (a timed-out
pipeline; redis-py 5.0.8 does not retry by itself), and then uses the
memory of its replica. `faults` counts failed calls, expiries and restarts;
`MaxFaults` bounds it. With one fault a stream's events are split over two
stores or stored twice, which is what the properties are about. `MaxLen` (100 in the code)
is 2, less than the 4 events a writer can emit, so trimming happens.

A replay keeps the entries above the given id. `Selected` states that filter without
recursion, by the rank of the indices that are kept, so that it can be reasoned
about; `MCStreamHistory` assumes, and TLC evaluates, that on every sequence of up to
four elements it is what `SelectSeq` of the standard library computes.

* `ReplayComplete`: as long as nothing has failed, a replay gives exactly the
  last `MaxLen` events of the stream that lie above the given id, in order.
* `ReconnectIsServed`: nor is a reconnect told that the stream is unknown once an
  event of it was stored where it asks.
* `LiveStreamNotJoined`: nor is a request admitted to an id whose stream has
  begun, on the same store.
* `ImplementsReplayLog`: whatever fails, a replay contains only emitted events
  above the id asked for, in the order they were emitted, and a writer numbers
  its events upwards to its last word.

No fairness is assumed: all four are safety properties. A reconnect gets what
the store holds and its response ends; it does not follow the stream further.

## 7. Install and update jobs

`HarnessJobs` follows one job on the replica that runs it; jobs share only a
lock whose critical sections do not await, so one job stands for all. `task`
names the await of `_run_adapter` and of `_drain_subprocess`
(`StartJob`, `Schedule`, `Begin`, `Announce`, `Spawn`, `SpawnFails`,
`Register`, `Line`, `LastEvent`, `Settle`, `Close`, `Expire`); `syncing`/`mirror`
is the copy written to Redis after each change, from a snapshot that may be old
when it arrives (`Sync`). `Output` and `Exit` are the installer,
`WatchTimeout` the watcher that kills it. `Cancel(a)` is
the cancel route and `CancelProcess` the service under it, for a job that is
`Known` to clients; `Open`/`Poll`/`Resume` the event stream of `api/admin.py:249-290`,
which sleeps, computes the entries after its index, sends them one `await` at a
time and moves its index to the length the log has then.

The log's entries are numbers (`told` counts them), so order and loss are
visible. `MaxLogs` is 500 in the code and 2 in run `jobs`, so that the log
trims while a stream reads it. `MaxLines` bounds the installer's output.
Lines still unread when the watcher fires or the process ends are dropped or
kept freely (`LastEvent`): which of them arrive is a race of two tasks.

* `CancelReachesInstaller`: after an accepted cancel the installer is not
  running, unless it has just been spawned and is about to be registered, which
  kills it: whichever of cancel and spawn came first.
* `FinishedIsStopped`, `CompletedMeansExitedZero`: a finished job has no
  running installer; "completed" means exit code 0 and no timeout.
* `NeverReopened`: neither a finished job nor its copy is shown unfinished again.
  (It may turn from completed to failed, see section 14.)
* `SentInOrder`: a stream sends entries in ascending order, none twice.
* `JobSettles`, `WatchEnds`: every job finishes, and every stream opened on its
  replica ends.

Fairness: event loop, timers, a signalled process dies, the client reads. The
installer need not exit: the watcher ends it.

## 8. OS terminals

`OsTerminal` has sessions and WebSocket connections, both numbered in the order
they come. `Start` takes the lowest free descriptor number, as the system does, so
numbers are used again. The shell prints (`Emit`), exits (`Exit`), and may ignore
any signal: it is never assumed to die. The reader is a task with a thread of the
executor: `Selected` is `select`, `Read` the call of `os.read`, where the number is
looked up again (`Target`), `ReadEnds` its return, `Returns` what the task does with
it. `Stop`, `Kill`, `Finish` are the parts of `_terminate` between its awaits;
`Shutdown` and `TerminateNext` end the sessions one after another. `Connect`,
`Open`, `AcceptFails`, `Take`, `Sent`, `Write`, `Leave` are the route, the stream and the
pump: a client that goes away stops the terminal, unless `accept` already failed.

| Variable | Code |
|---|---|
| `stage` | in the table, to be terminated, in either wait of `_terminate`, gone |
| `fd`, `file` | `TerminalSession.fd`; the system's table of descriptors |
| `shell`, `printed`, `pty` | the child, what it has printed, what nobody has read |
| `task`, `thread` | `_read_loop`, `_blocking_read` and the file it is blocked on |
| `queue` | `_output_queue` (unbounded in the code: its `QueueFull` branches never run) |
| `view`, `down` | each connection; the shutdown has begun |

A user who does not own a terminal is refused without a change of state, so a
terminal has one user here; window sizes, exit codes and idle times are left out.

* `DescriptorsOwned`: the open descriptors are those of the sessions that are not
  stopped, one each: none leaks, is closed twice, or is taken while in use,
  although a stop, a disconnect and a shutdown may all want to end one session.
* `LiveReadsOwn`: the reader of a session that is not stopped works on that
  session's PTY. (That of a stopped one may not: section 14.)
* `ShutdownStopsAll`: shutdown ends with no shell that was not at least sent SIGKILL.
* `StreamEnds`: a stream of a terminal that is stopped ends, unless two others of that
  terminal do; when the shell exits by itself one stream of the terminal does. Two end
  markers are queued on the way, by the reader and by the stop, and each ends one
  stream: neither may be lost. Nothing limits the streams of a terminal, and a third one
  can wait for ever (section 14).

Fairness: threads and tasks that can go on do, and a connected client reads.
Nothing makes a shell print, exit or die of a signal: the polls of `_terminate`
end by themselves.

## 9. Users and API keys

In `Accounts` each request in progress is a slot that holds what the request has
read. A route authenticates and asks (`Bootstrap`, `CreateUser`, `UpdateUser`,
`DeleteUser`, `CreateKey`, `ChangeKey`); each later database call is an action of
its own (`LookUp`, `LoadForUpdate`, `Count`, `LookUpOther`, `LoadForDelete`, `LoadKey`) up
to the commit (`InsertUser`, `WriteUser`, `DeleteRows`, `InsertKey`, `ToggleKey`,
`RotateKey`, `DeleteKey`). Any other request may run between two of them. Two
habits of the libraries matter and are modelled: an update writes the columns that
differ from the loaded row (`Dirty`), and SQLite uses the id of the highest
row again after its deletion (`IsNext`). The unique index compares addresses
exactly; the code compares them in lower case (`Matches`) and stores them so, but
for bootstrap.

| Variable | Code |
|---|---|
| `users`, `keys` | the tables, by id |
| `req` | locals of the request and its session's loaded rows |
| `issued`, `revoked` | (history) secrets given out, secrets taken away |
| `overtaken` | (history) requests during which another one removed an administrator |
| `raced` | (history) users with the address a bootstrap stored beside other requests |

* `KeysStayRevoked`: a secret that a rotation, the deletion of its key or of its
  owner has revoked opens nothing again, and every key has an owner. A toggle that
  loaded the row before a rotation must not write the old secret back.
* `EmailsDistinct`: no two users have one address, whatever bootstraps, creations and
  changes overlap; and of two whose addresses differ in case only, one still has the
  address with which a bootstrap was stored beside other requests.
* `NoAdminLostAlone`: the last active administrator is only lost by a request during
  which another one removed an administrator: no request does it by itself.

## 10. Rate limiter

`RateLimiter` follows one bucket. A request is first recorded or refused in the sliding
window of its replica (`Arrive`, which first drops the oldest hits: `Outside`, `Kept`), then names the fixed window (`Send`), the script runs
in Redis (`Run`, one step: `INCR` and `EXPIRE`), and the answer combines both
(`Reply`). At any of these points the call may fail (`FallBack`): the script may have
run, or may never. `Restart` empties a replica's window and loses the requests it was
serving. `Tick` is the clock, one for all.

* `ReplicaBound`: a replica admits at most `Limit` of the requests that arrive at it
  in any `Window` ticks, whatever Redis does: an outage, or its end, gives a client
  no second budget.
* `SharedBound`: of the requests that Redis counted and answered within one fixed
  window all replicas together admit at most `Limit`, through restarts of replicas.

Not promised: `2 * Limit` requests on the border of two fixed windows when they go to
different replicas. The time a refused client is told to wait is left out. The TTL
is exact here; Redis rounds it to seconds, the unit of the window.

## 11. Model cache

`ModelCache` follows one harness on several replicas. A refresh looks for the
executable (`Look`), asks it (`Discover`, `DiscoverNothing`), writes the mirror
(`Mirror`) or reads it and fills the cache from it (`Fetch`, `Hydrate`: two steps, as
the answer arrives later), then stores the inventory row (`Check`, `Sync`).
`Uninstall`, `DeleteMirror`, `StoreRow` are the uninstall route; `List`, `Reconcile`,
`Health`, `StoreSeen` the listing and the health check, which reconcile cache, mirror
and row with the disk of the replica that answers. `Install`, `Remove` change a
machine's disk, `Expire` the mirror's TTL, `Restart` a replica. Each call to Redis
and each write of the row may fail.

| Variable | Code |
|---|---|
| `onDisk` | what `is_installed` finds on each machine |
| `cache` | `MODEL_CACHE[harness]` of each replica: absent, empty or a list |
| `mirror`, `row` | the Redis key, `Harness.installed` |
| `work` | each refresh or request and the await it stands at |
| `beside`, `forgotten` | (history) uninstall requests during which a refresh carried models (`Carries`); replicas where the harness was forgotten beside none, while on no disk |

* `ForgottenStaysForgotten`: once an uninstall request has deleted the mirror, with no
  machine having the harness any more, the replica does not serve its models again and
  the mirror stays empty, whatever refreshes, listings, failures and restarts follow and
  whatever refreshes were under way, as long as none of these carried models: had found
  the executable, or had been given a copy of the mirror, and not yet passed on what
  it learnt. One that did brings the models back, and so does a mirror whose
  deletion failed; the property makes no promise then (section 14).

## 12. The runs

State counts are of distinct states; the longest runs take two to three minutes.

| Run | Instance | Shows |
|---|---|---|
| `quota_all_endpoints` | 2 requests, all endpoints, one key, two, or a key and a session (1 a day, 2 a month each), storage may fail, crashes, deletions of users, TTL 2, horizon 4; 391 415 states | all invariants, the ledger and the liveness of section 4, with every failure path of every endpoint |
| `execution` | a stream and a plain run with own ids on one slot, and two streams under one id with two; 206 056 states | slots, processes, registry, cancels; runs end |
| `history` | two writers on two replicas, one reconnect, one fault, logs of 2; 1 143 399 states | section 6, with splits, duplicates, trims, expiry, restarts |
| `history_doc_conflict` | same, no fault | divergence: two requests share one id |
| `jobs` | 2 cancels, 1 event stream, log of 2, 2 lines; 173 285 states | section 7 |
| `terminal` | one terminal with at most 3 connections or 2 with one, a chunk a shell; 205 816 states | section 8 |
| `terminal_doc_isolation` | one connection | divergence: a stopped terminal's reader takes another one's output |
| `accounts` | 2 overlapping requests, 2 users, 1 key, 2 secrets, 3 addresses, 2 kinds of change; 958 260 states | section 9 |
| `accounts_doc_last_admin` | same, one secret | divergence: no administrator is left |
| `ratelimit` | 3 requests, 2 replicas, limit 2, window 2, clock to 4, one restart; 2 394 715 states | section 10 |
| `modelcache` | 2 replicas, 3 requests or refreshes in progress, one list, one installation; 1 057 153 states | section 11 |
| `modelcache_doc_mirror` | same, two slots | divergence: a listing deletes a mirror that another replica keeps |

Why the bounds are enough.

* Quotas: two requests are what it takes to over-admit a key of one (limits above
  one and more requests are covered by the theorem `AdmissionBound`); the horizon lets
  a reservation expire, its row be pruned by another request and its owner settle it
  late, and crosses a day and a month. A user's rows are
  deleted at any moment, beside those of another one.
* Execution: the shared things are the semaphore (contended by two), and the registry
  entry (contended by the actors of one run, or by two runs under one id).
* History: two writers are the least that conflict; one fault makes the
  two stores differ, and the refinement is about what any such split shows.
* Jobs: two cancels are needed for the second to find the handle gone; a log of two
  is trimmed while it is read.
* Terminals: a number is used again by the second terminal, while a stream watches the
  first or the second; three streams share one queue, one more than there are end
  markers. A third terminal would only use a number a third time.
* Accounts: two requests are the least that overlap; two users make one
  administrator remove the other; the highest ids are deleted and used again; two
  secrets are a rotation. The two changes disable and demote with an address, and enable and promote.
* Rate limiter: the limit is reached on one replica, or shared by both; a window ends
  with requests under way, and the next key starts afresh.
* Model cache: three slots let a refresh, a listing and an uninstall request overlap,
  or two uninstall requests and a refresh.

Deadlock is checked in the quota, execution and model cache runs, where every state
has a step (the clock, a late cancel, a new request). In the others actors
may all have ended, counters be used up, or, in `accounts`, every user be disabled,
which locks everybody out: that is the divergence of its second run, not a deadlock.

## 13. The proofs

Assumptions are only the named ASSUMEs of the modules (types of the constants,
`MaxRun < ReservationTTL`, day and month lengths, that no entry is told apart from a
row), which TLC evaluates in every run.

**Quotas** (`QuotaReservationProofs`). `AdmissionWithinLimit` alone is not
inductive: the decision taken at the count must still be right when the row is
inserted. The inductive invariant `IInv` adds `DecisionStillHolds` (the count of
the open transaction, taken again with the clock it read, still admits),
`ClockOrder` (a request read the clock before it was charged, and neither in the
future), `SendInTime` (a handler of one run is within `MaxRun` and has its row),
`RowsAccountedFor`, `ChargedIffSuccessful` and `ErasedForGood` (a request whose row was
deleted with its user had been admitted, so the row is not inserted again). The counting argument: a step
either adds no holder to any window (`FewerHolders`), or is the commit, whose
holders are those it counted, because the window of a later clock starts no
earlier (`WindowStartMonotone`), and itself. From it follow
`TypeCorrect`, `AdmissionBound`, `Accounting`, `ChargedOnSuccess`,
`SendKeepsItsReservation`, the action property `OwnerOrExpiry`, and
`QuotaImplementsLedger`: initial states map to initial states, and every step maps
to a step of the ledger or a stutter.

**Execution** (`HarnessExecutionProofs`). The bound on processes needs that an
unsignalled process has its adapter at a stage that holds a slot
(`LiveIsSupervised`), that none exists before the spawn (`NoProcessYet`), and
that slots are conserved; these, with `RunsReapTheirProcess` and
`RegistryTracksSupervised`, are inductive together. `ExecutionReaps` follows the stages
of the waits that a cancel can leave (`InterruptedKeeps`). `ExecutionCancellable` needs in
addition that two processes watched under one id are both `contested`
(`RivalsContested`): then a handle that is overwritten or dropped was that of a contested
run.
Theorems: `ExecutionTypeCorrect`, `ExecutionConservesSlots`,
`ExecutionBoundsProcesses`, `ExecutionReaps`, `ExecutionRegistrySound`,
`ExecutionCancellable`.

**History** (`StreamHistoryProofs`). That a reconnect is served and a live stream is not
joined stand on `Kept`: before the first fault, an event that was emitted is still
in the store that is asked. That needs the numbers of a handler to fit its stage
(`Numbered`), what it emitted to lie below its next number (`Emitted`), and stores that
hold positions of the log; `NumbersUpwards` and `StoresInOrder` hold with any number of
faults.

`RepliesComplete` needs more than `Kept`: what exactly a store holds. `NothingLost`
says that before the first fault Redis (or, without it, the memory of a replica on
which all writers are) holds the newest positions, as many as fit (`Newest`); a push
keeps that (`PushNewest`), trimming included, and read oldest first it is `Window`
(`NewestIsWindow`). `HistoryImplementsReplayLog` takes the steps one by one: an event
is an `Emit` whose number is above all earlier ones of its writer (`EmitRefines`), a
look-up an `Ask`, a replay an `Answer`, and everything else, faults included, a stutter.
An answer is in order because ranks number the kept indices upwards without a gap
(`RankNumbers`: an injection from a finite set into an interval of the same size is onto,
so every element of a selection exists), hence a selection from an ascending store
ascends and holds kept entries only (`SelectedAscends`), and stores ascend whatever
failed (`StoresInOrder`). Theorems: `HistoryTypeCorrect`, `HistoryInOrder`,
`StreamNumbersUpwards`, `StreamsKeptApart`, `ReconnectsServed`, `RepliesComplete`,
`HistoryImplementsReplayLog`.

**Jobs** (`HarnessJobsProofs`). `CancelReachesInstaller` is inductive only with
the life of the installer tied to the task (`InstallerFollowsTask`), the
stage tied to the task (`FinishedFollowsTask`) and the fact that a cancel
leaves a mark (`CancelsAreKept`); `SentInOrder` needs the log to be a contiguous
run of entry numbers (`LogIsContiguous`) and what a stream has pending to lie
above what it has sent (`StreamAscends`). Theorems: `JobsTypeCorrect`,
`JobsCancelReaches`, `JobsFinishedIsStopped`, `JobsCompletedMeansExitedZero`,
`JobsSentInOrder`, `JobsNeverReopened`.

**Terminals** (`OsTerminalProofs`). `DescriptorsOwned` stands on types and on `Wired`
(a started session has a number, a working thread a started session).
`LiveReadsOwn` speaks of threads that look a number up; it is inductive with
`AtHome`: every PTY carries what its own shell printed, and the thread and queue of
a terminal that is not stopped hold nothing else. A live session's number is
its own (`DescriptorsOwned`), so what it looks up is too.

The thread of a stopped terminal may read another one's output (section 14). Two
facts hold all the same. `OutputOnce`: no chunk is queued twice or in two
queues, and the chunks of one shell stay in the order they were printed in whichever queue
they reach. It is inductive with `PtyInOrder`: a PTY holds the last chunks its shell has
printed, without a gap, so the head that any thread takes is newer than every chunk of that
shell in any queue. And `TerminalShellsEnd`, the safety half of `ShutdownStopsAll`: when
`_terminate` is over, the shell has exited or was sent SIGKILL, whichever of stop,
disconnect and shutdown called it (`Signalled` follows the stages of `_terminate`).
Theorems: `TerminalTypeCorrect`, `TerminalDescriptors`, `TerminalReadsOwn`,
`TerminalOutputOnce`, `TerminalShellsEnd`.

**Accounts** (`AccountsProofs`). `SecretsStayRevoked`: secrets in use are issued, not
revoked and pairwise different, and owners exist (`KeysSound`); a toggle keeps the
secret of the row it finds, not of the row it loaded. `AddressesDistinct`: a
request about to store an address has found no row with the same address in lower
case other than its own, and rows that came since are in lower case, where the
unique index catches them, or were stored by an overlapping bootstrap, which is marked
(`Distinct`, `Lawful`). `AdminsLostTogether`: a request
nobody overtook still has an administrator to fall back on, the one who asked, who is not
its target (`Backed`). The count of administrators in `update_user` is not
needed for it, since an administrator may not demote, disable or delete
themselves: what is lost is lost by overlap, which the count, read before the commit,
does not exclude. Theorems: `AccountsTypeCorrect`, `SecretsStayRevoked`,
`AddressesDistinct`, `AdminsLostTogether`.

**Rate limiter** (`RateLimiterProofs`). What Redis let through in a window is at
most the limit, and at most the counter while the window lasts (`PassedBounded`).
The counter must not start again before that: the key of a window outlives the window
(`KeysLast`), because it was made in it or later (`Timely`) and lives for its length.
A script that runs late may make the key again, but a reply to it counts in no
window. For the sliding windows, each request still in the window of its replica has a hit of
its own that is not dropped (`Recorded`): an injection, so when a hit is added there is room
for one, and by `WithinBounded` in every stretch as long as the window. That no replica has
the name `Nowhere` is an assumption. Theorems: `LimitShared`, `ReplicaLimits`.

**Model cache** (`ModelCacheProofs`). When the mirror is deleted by an uninstall
request beside no refresh that carries models (`UninstallAlone`), nothing is left that could bring the
models back: no disk has them, no refresh carries a list, and a later refresh finds
neither the executable nor a mirror (`NothingLeft`). Theorems: `CacheTypeCorrect`,
`CacheForgets`.

TLC checks the listed properties first and, while the proofs were written, their
strengthenings. Every safety property of the passing runs that is an invariant, an
action property or a refinement is stated by a theorem or is part of an inductive invariant
of one. Only model-checked is liveness (the prover does not reason about ENABLED), and
that `Selected` computes what `SelectSeq` does (an induction over data).

## 14. Where code and documents differ

With a run (each quoted with its line in `findings`):

* `OneStreamPerId`: the id is checked several awaits before its first event is stored;
* `OutputStaysHome`: the reader thread of a terminal that is stopped between `select`
  and `read` reads a number that may be another terminal's by then, and passes that
  terminal's output on as its own;
* `LastAdminPreserved`: two administrators who remove each other at the same time
  leave none, though the gateway "preserves at least one active administrator";
* `MirrorKept`: a replica without the executable takes models it got from the mirror
  for left-overs, and deletes the mirror.

Seen in the code while modelling, without a run:

* Quotas: deleting a user whose request runs takes its reservation
  (`auth_repository.py:53`): the run ends with a 500 that is charged to nobody. A usage
  row is stamped with the time of completion
  (`quota_service.py:310`), so requests admitted on one day are counted on the next,
  and the usage of a day can exceed the limit of `docs/architecture.md:70`. A completion whose
  structured answer is asked for twice, or a stream, can outlive its reservation
  (`quota_service.py:217`, against `:12`); if another admission prunes the row
  meanwhile, the answer becomes a 500 that is not charged. An error or disconnect
  between the reservation and the `try` that releases it (`chat.py:424`) leaves
  the row until its TTL (`quota_service.py:16`).
* Execution: cancelling a process that has exited and is not yet cleaned up
  answers "cancelled" and the stream ends with `[DONE]`
  (`process_registry.py:81`, `test_cancel_integration.py:100`). A full queue does
  not answer 429 to a stream, whose response has started (`harness_queue.py:34`,
  `docs/configuration.md:25`). An id cancelled when no process is registered stays
  in `_pending_cancel` unless it is registered later (`process_registry.py:64-65`).
  A killed harness that wrote to stderr ends its stream with an error event rather
  than a cancel event. Cancelling a message that is not running cancels any stream
  of its conversation. A run whose handler is cancelled repeatedly gives its slot back
  before its process has exited (`base.py:82`); the docstring says "the process is
  reaped" (`base.py:65`).
* History: a store keeps 100 events, so a reconnect far behind gets a silent
  gap (`docs/api.md:159`).
* Jobs: entries appended while a stream sends are skipped (`admin.py:266`,
  `docs/installation.md:123`), and at the cap of 500 a stream that has caught up never
  sends another. `HarnessJob.stage` documents other stages than the ones set
  (`harness_job_service.py:25`). A second cancel turns a job streamed as
  completed into failed. On another replica a job's stream polls a copy that never
  changes, and its cancel has no effect; the mark of a job whose spawn failed is
  never dropped.
* Terminals: the exit frame always says 0 (`docs/os-terminal.md:83`): the session
  has left the table, or its zombie counts as alive. SIGKILL follows after 0.4 s, not 2
  (`docs/os-terminal.md:59`). Nothing limits a user to one session (`:122`). Of two
  streams on one terminal whose shell exits, one is not told, and of three on one that is
  stopped, one can wait for ever: there are two end markers (`os_terminal.py:277`, `:316`)
  and no limit on connections. Each quiet terminal
  keeps a thread of the default executor.
* Accounts: two overlapping bootstraps both succeed; when their addresses differ in
  case only, every later look-up of them raises. The deletion of a key that was
  used ends with a 500. Of two overlapping toggles one is lost. A request that
  loaded a row can hit a new row with the same id.
* Rate limiter: "Try again in n seconds" (`rate_limit.py:202`) does not hold, because each
  limiter records requests the other refuses; a client of twice the limit can so be
  refused for good. A limit of 0 raises IndexError.
* Model cache: a failing discovery overwrites a non-empty cache, although the comment
  speaks of an empty one (`registry.py:195`). Overlapping refreshes may leave cache and mirror
  different. The `installed` flag of replicas with different disks flips with whoever
  looked last. Models are served beside a row that says "not installed". A refresh
  that carries models past an uninstall request, or a mirror whose deletion fails
  (`registry.py:233`), brings the models of the removed harness back.

## 15. What is not covered

Not modelled, and why:

* Gateway death in the execution module (children become orphans), and the
  descendants of a harness: signals go to one process.
* Jobs on other replicas, restarts during a job, the model refresh after an
  install (a refresh is modelled by itself in `ModelCache`).
* The size of the default executor: every thread of `OsTerminal` can run.
* Usage records that keep a key from deletion: `DeleteKey` fails or not freely. The
  deletion of a key (`admin.py:426`) is no action of `QuotaReservation`: foreign keys
  refuse it while the key has rows. The limits of a key whose row id is taken again are
  assumed to be the same.
  The check of a password or token is the guard of a request; their contents, expiry
  and throttling are not in `Accounts`.
* Which bucket a request falls in, exempt paths and headers of the rate limiter.
* Model rules (`services/model_service.py`): pure functions of one request, without
  state, concurrency or failure, and with unit tests of their own.
* Conversations and credentials: single transactions on rows of one user; the order in
  which a request persists its messages is a step of `QuotaReservation`. Project
  update: one `git pull` under a lock tested and taken without an await between.
* The bounded drainer of stderr affects only the text of an error.
* Redis provider, migrations, configuration, start-up: each module states which of its
  calls may fail; start-up and shutdown are sequential, and what they trigger (a
  refresh, the end of terminals) is an action of the part's module.
* Contents: prompts, parsing of harness output, formats of events, error texts;
  metrics, usage queries, logging; browser code, scripts, deployment files.
