-------------------------- MODULE QuotaReservation --------------------------
(***************************************************************************)
(* Daily and monthly API-key quotas.  A request that carries an API key    *)
(* first inserts a reservation row in one BEGIN IMMEDIATE transaction, then *)
(* runs its harness, and ends by turning the row into a usage record       *)
(* (finalize) or by deleting it (release).  Expired rows stop counting and *)
(* are pruned by the next admission.  An administrator who deletes a user  *)
(* deletes the rows of that user from both tables, at any moment.          *)
(*                                                                         *)
(* A request is identified with the token of its reservation: reserved and *)
(* usage are the tokens present in the two tables, readAt[r] is both the   *)
(* handler's `now` and the row's created_at, chargedAt[r] the created_at   *)
(* of the usage record.                                                    *)
(***************************************************************************)
EXTENDS Naturals, FiniteSets

CONSTANTS
    Requests,        \* the requests that may arrive
    Keys,            \* API keys
    NoKey,           \* a request authenticated by a session token
    NoWriter,        \* nobody holds SQLite's write lock
    Users,           \* the users who own keys and sessions
    Admins,          \* the users who may delete another user
    Owner,           \* Owner[k]: the user whose key k is
    NoLimit,         \* daily_limit / monthly_limit is None
    Limit,           \* Limit[k][w]: quota of key k in window w
    WindowLength,    \* WindowLength[w]: ticks in a day / in a month
    ReservationTTL,  \* ticks until a reservation expires
    MaxRun,          \* ticks a handler takes at most for one run that is not streamed
    Mixes,           \* who sends what: the assignments of callers to requests
    Horizon          \* bound on the clock

\* openai_retry: a completion whose structured answer is asked for twice.
Endpoints == {"chat_send", "chat_stream", "openai_send", "openai_retry", "openai_stream"}
Streaming == {"chat_stream", "openai_stream"}
SingleRun == {"chat_send", "openai_send"}
Windows   == {"daily", "monthly"}

\* What a request comes with: its endpoint, and a key of its user or a
\* session token.
Callers ==
    {c \in [kind: Endpoints, key: Keys \cup {NoKey}, user: Users] :
        c.key # NoKey => c.user = Owner[c.key]}

ASSUME QuotaAssumption ==
    /\ IsFiniteSet(Requests)
    /\ NoKey \notin Keys
    /\ NoWriter \notin Requests
    /\ Admins \subseteq Users
    /\ Owner \in [Keys -> Users]
    /\ Mixes \subseteq [Requests -> Callers]
    /\ NoLimit \notin Nat
    /\ Limit \in [Keys -> [Windows -> Nat \cup {NoLimit}]]
    /\ WindowLength \in [Windows -> Nat \ {0}]
    /\ ReservationTTL \in Nat \ {0}
    /\ MaxRun \in Nat
    /\ MaxRun < ReservationTTL
    /\ Horizon \in Nat

VARIABLES
    now,        \* the UTC clock
    dbWriter,   \* the request whose BEGIN IMMEDIATE transaction is open
    reserved,   \* tokens with a row in quota_reservations
    usage,      \* tokens (requests) with a row in usage_records
    kind,       \* the endpoint a request uses
    key,        \* the API key it carries, or NoKey
    user,       \* the user it is authenticated as
    pc,         \* the stage its handler has reached
    readAt,     \* the clock value reserve_quota read
    chargedAt,  \* created_at of its usage record
    erased      \* history: requests whose row was deleted with their user

tables   == <<reserved, usage, chargedAt, erased>>
caller   == <<kind, key, user>>
identity == <<kind, key, user, readAt>>
vars     == <<now, dbWriter, reserved, usage, kind, key, user, pc, readAt, chargedAt, erased>>

----
(* The path of a handler after admission, per endpoint. *)

Stages == {"save", "env", "open", "start", "run", "retry", "persist", "finalize"}

\* The stages in the order each endpoint goes through them.
ChatSend ==
    [admitted |-> "save", save |-> "env", env |-> "run",
     run |-> "persist", persist |-> "finalize"]
ChatStream ==
    [admitted |-> "save", save |-> "env", env |-> "open", open |-> "start",
     start |-> "run", run |-> "persist", persist |-> "finalize"]
\* Slip: the completions endpoint follows the chat endpoint into persist.
OpenaiSendPersisting ==
    [admitted |-> "env", env |-> "run", run |-> "persist"]
OpenaiSend ==
    [admitted |-> "env", env |-> "run", run |-> "finalize"]
OpenaiRetry ==
    [admitted |-> "env", env |-> "run", run |-> "retry", retry |-> "finalize"]
OpenaiStream ==
    [admitted |-> "env", env |-> "open", open |-> "start", start |-> "run",
     run |-> "finalize"]

NextStage ==
    [chat_send |-> ChatSend, chat_stream |-> ChatStream,
     openai_send |-> OpenaiSend, openai_retry |-> OpenaiRetry,
     openai_stream |-> OpenaiStream]

\* Stages under a try whose handler or finally releases the reservation.
Covered ==
    [chat_send     |-> {"save", "env", "run"},
     chat_stream   |-> {"save", "run"},
     openai_send   |-> {"run"},
     openai_retry  |-> {"run", "retry"},
     openai_stream |-> {"start", "run"}]

\* The stages of one endpoint.
StagesOf(kd) == (DOMAIN NextStage[kd] \ {"admitted"}) \cup {"finalize"}

InFlight == {"clocked", "admitted", "releasing", "charged"} \cup Stages
Ended    == {"refused", "released", "gone", "done"}

\* Stages before the reservation row is committed.
Unadmitted == {"idle", "clocked", "admitted", "refused"}

----
(* Counting. *)

\* daily_monthly_bounds: the start of the current day / month.
WindowStart(w, t) == t - (t % WindowLength[w])

\* Slip: the expiry leaves no margin beyond the harness timeout.
ExpiresAtDeadline(r) == readAt[r] + MaxRun
\* expires_at of the row.
ExpiresAt(r) == readAt[r] + ReservationTTL

UsageSince(k, since) ==
    {r \in usage : key[r] = k /\ chargedAt[r] >= since}

\* Slip: expired rows count until somebody prunes them.
RowsSince(k, since, t) == {r \in reserved : key[r] = k /\ readAt[r] >= since}
ActiveReservations(k, since, t) ==
    {r \in reserved : key[r] = k /\ readAt[r] >= since /\ ExpiresAt(r) > t}

\* Slip: only completed requests count.
CountUsageOnly(k, since, t) == Cardinality(UsageSince(k, since))
CountSince(k, since, t) ==
    Cardinality(UsageSince(k, since)) + Cardinality(ActiveReservations(k, since, t))

\* _enforce_reservation_limits passes.
WithinLimits(k, t) ==
    \A w \in Windows :
        Limit[k][w] # NoLimit => CountSince(k, WindowStart(w, t), t) < Limit[k][w]

\* Slip: the prune compares the wrong column.
CreatedBefore(t) == {x \in reserved : readAt[x] < t}
\* The rows an admission (or cleanup_expired_reservations) deletes.
Expired(t) == {x \in reserved : ExpiresAt(x) <= t}

\* Slip: the DELETE is forgotten.
RowsWithAll(r) == reserved
\* The table after DELETE ... WHERE token = r.
RowsWithout(r) == reserved \ {r}

\* Slip: the row count of the DELETE is not looked at.
FoundAlways(r) == TRUE
\* finalize_reservation may charge: no token to settle, or its row was found.
Found(r) == key[r] = NoKey \/ r \in reserved

----
Init ==
    /\ now = 0
    /\ dbWriter = NoWriter
    /\ reserved = {}
    /\ usage = {}
    /\ erased = {}
    /\ \E m \in Mixes :
          /\ kind = [r \in Requests |-> m[r].kind]
          /\ key = [r \in Requests |-> m[r].key]
          /\ user = [r \in Requests |-> m[r].user]
    /\ pc = [r \in Requests |-> "idle"]
    /\ readAt = [r \in Requests |-> 0]
    /\ chargedAt = [r \in Requests |-> 0]

Goto(r, s) == pc' = [pc EXCEPT ![r] = s]

\* Slip: the transaction is left open.
KeepTransaction == UNCHANGED dbWriter
\* COMMIT or ROLLBACK.
EndTransaction == dbWriter' = NoWriter

\* The handler is entered; with a key, reserve_quota reads the clock first.
Arrive(r) ==
    /\ pc[r] = "idle"
    /\ now + ReservationTTL <= Horizon
    /\ IF key[r] = NoKey THEN Goto(r, NextStage[kind[r]].admitted)
                         ELSE Goto(r, "clocked")
    /\ readAt' = [readAt EXCEPT ![r] = now]
    /\ UNCHANGED <<now, dbWriter, tables, caller>>

\* BEGIN IMMEDIATE takes the write lock, then the limits are evaluated; a
\* refusal rolls back at once, and the prune with it.
Count(r) ==
    /\ pc[r] = "clocked"
    /\ dbWriter = NoWriter
    /\ IF WithinLimits(key[r], readAt[r])
         THEN Goto(r, "admitted") /\ dbWriter' = r
         ELSE Goto(r, "refused") /\ UNCHANGED dbWriter
    /\ UNCHANGED <<now, tables, identity>>

\* The lock stays taken for longer than busy_timeout (503), or another
\* statement raises before the row is inserted.
LockBusy(r) ==
    /\ pc[r] = "clocked"
    /\ Goto(r, "refused")
    /\ UNCHANGED <<now, dbWriter, tables, identity>>

\* Commit of the admission: the expired rows go, the new one comes.  The
\* key may have been deleted meanwhile, and its row id taken again.
CommitReservation(r) ==
    /\ pc[r] = "admitted"
    /\ reserved' = (reserved \ Expired(readAt[r])) \cup {r}
    /\ EndTransaction
    /\ Goto(r, NextStage[kind[r]].admitted)
    /\ UNCHANGED <<now, usage, chargedAt, erased, identity>>

\* The insert raises (the key is gone: foreign key) or the commit does:
\* rolled back, no row.
CommitFails(r) ==
    /\ pc[r] = "admitted"
    /\ EndTransaction
    /\ Goto(r, "refused")
    /\ UNCHANGED <<now, tables, identity>>

\* The stage succeeds and the handler moves on.
Advance(r) ==
    /\ pc[r] \in Stages \ {"finalize"}
    /\ Goto(r, NextStage[kind[r]][pc[r]])
    /\ UNCHANGED <<now, dbWriter, tables, identity>>

\* The stage is interrupted: database error (a row of a deleted user among
\* them), harness error, timeout, cancel or client disconnect.  Only a
\* covered stage leads to the release.
Interrupt(r) ==
    /\ pc[r] \in Stages \ {"finalize"}
    /\ IF pc[r] \in Covered[kind[r]] /\ key[r] # NoKey
         THEN Goto(r, "releasing") ELSE Goto(r, "gone")
    /\ UNCHANGED <<now, dbWriter, tables, identity>>

\* release_reservation, in the finally clause.
Release(r) ==
    /\ pc[r] = "releasing"
    /\ dbWriter = NoWriter
    /\ reserved' = RowsWithout(r)
    /\ Goto(r, "released")
    /\ UNCHANGED <<now, dbWriter, usage, chargedAt, erased, identity>>

\* release_reservation swallows a database error and returns False, and a
\* cancelled handler is cancelled again inside its finally.
ReleaseFails(r) ==
    /\ pc[r] = "releasing"
    /\ Goto(r, "gone")
    /\ UNCHANGED <<now, dbWriter, tables, identity>>

\* finalize_reservation: the row is replaced by a usage record; a missing
\* row (expired and pruned) rolls back, and the client gets an error.
Finalize(r) ==
    /\ pc[r] = "finalize"
    /\ dbWriter = NoWriter
    /\ IF Found(r)
         THEN /\ reserved' = RowsWithout(r)
              /\ usage' = usage \cup {r}
              /\ chargedAt' = [chargedAt EXCEPT ![r] = now]
              /\ UNCHANGED erased
              /\ Goto(r, "charged")
         ELSE Goto(r, "gone") /\ UNCHANGED tables
    /\ UNCHANGED <<now, dbWriter, identity>>

\* Any exception (the user or the key of the usage record is gone, a cancel)
\* rolls back: the reservation stays until it expires.
FinalizeFails(r) ==
    /\ pc[r] = "finalize"
    /\ Goto(r, "gone")
    /\ UNCHANGED <<now, dbWriter, tables, identity>>

\* Response body, or the usage and done events.
Respond(r) ==
    /\ pc[r] = "charged"
    /\ Goto(r, "done")
    /\ UNCHANGED <<now, dbWriter, tables, identity>>

\* The charge is committed, but the answer does not make it to the client.
RespondFails(r) ==
    /\ pc[r] = "charged"
    /\ Goto(r, "gone")
    /\ UNCHANGED <<now, dbWriter, tables, identity>>

\* The gateway process dies: handlers vanish, an open transaction rolls
\* back, committed rows stay.
Crash ==
    /\ pc' = [r \in Requests |-> IF pc[r] \in InFlight
                THEN IF pc[r] \in Unadmitted THEN "refused" ELSE "gone"
                ELSE pc[r]]
    /\ EndTransaction
    /\ UNCHANGED <<now, tables, identity>>

\* The rows of the keys and of the sessions of user u.
RowsOf(u) == {r \in reserved \cup usage : user[r] = u}

\* DELETE /users/{id}: in one transaction the user goes, with their keys and
\* all their rows, the live reservations of running requests included.  The
\* row id may be taken again, and the next user deleted as well.
DeleteUser(u) ==
    /\ \E admin \in Admins : admin # u
    /\ dbWriter = NoWriter
    /\ reserved' = reserved \ RowsOf(u)
    /\ usage' = usage \ RowsOf(u)
    /\ erased' = erased \cup RowsOf(u)
    /\ UNCHANGED <<now, dbWriter, pc, chargedAt, identity>>

\* What bounds a handler that does not stream: slot wait plus run timeout,
\* twice with the structured-output retry.
Longest(r) ==
    IF kind[r] \in SingleRun \/ pc[r] \in {"clocked", "admitted", "env", "run"}
      THEN MaxRun ELSE 2 * MaxRun

\* Time passes.  A stream is only bounded per line.
Tick ==
    /\ now < Horizon
    /\ \A r \in Requests :
          pc[r] \in InFlight /\ kind[r] \notin Streaming => now < readAt[r] + Longest(r)
    /\ now' = now + 1
    /\ UNCHANGED <<dbWriter, tables, identity, pc>>

\* The handler goes on, or something goes wrong.
Proceed(r) ==
    \/ Count(r) \/ CommitReservation(r) \/ Advance(r)
    \/ Release(r) \/ Finalize(r) \/ Respond(r)
Break(r) ==
    \/ LockBusy(r) \/ CommitFails(r) \/ Interrupt(r)
    \/ ReleaseFails(r) \/ FinalizeFails(r) \/ RespondFails(r)

Step(r) == Arrive(r) \/ Proceed(r) \/ Break(r)

Next == (\E r \in Requests : Step(r)) \/ (\E u \in Users : DeleteUser(u)) \/ Crash \/ Tick

Spec == Init /\ [][Next]_vars

\* Time passes and the event loop runs every ready handler.  No error is
\* counted on, and a harness that keeps printing keeps its stream running.
FairSpec ==
    /\ Spec
    /\ \A r \in Requests :
          WF_vars((pc[r] = "run" => kind[r] \notin Streaming) /\ Proceed(r))
    /\ WF_vars(Tick)

----
(* Properties. *)

\* Every variable keeps its type.
TypeOK ==
    /\ now \in 0..Horizon
    /\ dbWriter \in Requests \cup {NoWriter}
    /\ reserved \subseteq Requests
    /\ usage \subseteq Requests
    /\ erased \subseteq Requests
    /\ kind \in [Requests -> Endpoints]
    /\ key \in [Requests -> Keys \cup {NoKey}]
    /\ user \in [Requests -> Users]
    /\ pc \in [Requests -> {"idle"} \cup InFlight \cup Ended]
    /\ \A r \in Requests : pc[r] \in Stages => pc[r] \in StagesOf(kind[r])
    /\ readAt \in [Requests -> Nat]
    /\ chargedAt \in [Requests -> Nat]

\* The requests of key k that were admitted in the current window w and hold
\* a live reservation or were charged before their reservation expired.
OnTimeHolders(k, w) ==
    LET since == WindowStart(w, now)
    IN  ActiveReservations(k, since, now)
          \cup {r \in UsageSince(k, since) :
                   readAt[r] >= since /\ chargedAt[r] < ExpiresAt(r)}

\* However admissions, prunes with a stale clock, finalizations, releases,
\* deletions of users and crashes interleave, the requests admitted in a window
\* and settled in time never exceed the quota (reserve_quota's BEGIN IMMEDIATE
\* transaction).
AdmissionWithinLimit ==
    \A k \in Keys, w \in Windows :
        Limit[k][w] # NoLimit => Cardinality(OnTimeHolders(k, w)) <= Limit[k][w]

\* A row of quota_reservations belongs to a handler that has not settled it
\* yet or to one that ended without a release, never to a refused, released
\* or charged request; and the open transaction belongs to an admission.
RowsAccountedFor ==
    /\ \A r \in reserved : pc[r] \in Stages \cup {"releasing", "gone"} /\ key[r] # NoKey
    /\ \A r \in Requests : pc[r] = "admitted" <=> dbWriter = r

\* A request is reported as successful only once it is charged, and its usage
\* record is there unless it was deleted with its user; nothing that failed,
\* was cancelled or was refused is ever charged; a request is in at most one
\* of the tables, and what a deletion took never comes back: a request whose
\* reservation went with its user is not charged to whoever comes next.
ChargedIffSuccessful ==
    /\ \A r \in Requests : pc[r] \in {"charged", "done"} => r \in usage \cup erased
    /\ \A r \in usage : pc[r] \in {"charged", "done", "gone"}
    /\ reserved \cap usage = {}
    /\ erased \cap (reserved \cup usage) = {}

\* While a handler runs its harness once, its reservation is in the table and
\* alive, so nobody else's prune can make its finalization fail; only the
\* deletion of its user takes the row from under it.
SendKeepsReservation ==
    \A r \in Requests :
        (pc[r] \in Stages /\ key[r] # NoKey /\ kind[r] \in SingleRun)
            => r \in erased \/ (r \in reserved /\ ExpiresAt(r) > now)

\* A step removes a row only by charging it, by its own handler's release,
\* because it has expired, or with everything of its user: no admission and
\* no deletion of another user drops a live row.
FreesOwnOrExpired ==
    \A r \in reserved \ reserved' :
        \/ r \in usage'
        \/ pc[r] = "releasing"
        \/ ExpiresAt(r) <= now
        \/ r \in erased' /\ \A x \in reserved' \cup usage' : user[x] # user[r]

\* The same, of every step.
OnlyOwnerOrExpiryFrees == [][FreesOwnOrExpired]_vars

\* Whatever happened to its handler, a reservation eventually stops counting.
ReservationStopsCounting ==
    \A r \in Requests :
        r \in reserved ~> r \notin ActiveReservations(key[r], 0, now)

\* The stages after the harness has ended.
Unwinding == {"persist", "finalize", "charged", "releasing"}

\* A non-streaming handler, and any handler past its harness, ends.
HandlerEnds ==
    \A r \in Requests :
        (pc[r] \in InFlight /\ (kind[r] \notin Streaming \/ pc[r] \in Unwinding))
            ~> pc[r] \in Ended

\* Each request's entry in the abstract ledger.
LedgerEntry ==
    [r \in Requests |->
        IF key[r] = NoKey \/ pc[r] \in Unadmitted THEN "none"
        ELSE IF r \in erased THEN "erased"
        ELSE IF r \in usage THEN "charged"
        ELSE IF r \in reserved THEN "held" ELSE "free"]

Ledger == INSTANCE QuotaLedger WITH Tokens <- Requests, entry <- LedgerEntry

\* Every step of the tables is a step of the ledger: a reservation is settled
\* once, one that was released or pruned is never charged afterwards, and
\* only the deletion of a user undoes a charge, for good.
ImplementsLedger == Ledger!Spec
====
