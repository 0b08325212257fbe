----------------------------- MODULE ModelCache -----------------------------
(***************************************************************************)
(* The models of one harness as each replica serves them: the cache and    *)
(* its Redis mirror (clients/registry.py), refresh and inventory           *)
(* (services/model_refresh_service.py), and the routes of api/admin.py     *)
(* that refresh, list, check and forget a harness.  Harnesses do not       *)
(* affect each other.  Each call to Redis may fail.                        *)
(***************************************************************************)
EXTENDS Naturals, FiniteSets

CONSTANTS
  Replicas,     \* gateway processes
  Slots,        \* requests and refreshes in progress
  Lists,        \* the non-empty lists of models a harness may report
  MaxInstalls,  \* bound: how often the harness appears on a disk
  None          \* no entry

ASSUME InstallsAssumption == MaxInstalls \in Nat

VARIABLES
  onDisk,     \* replicas whose machine has the executable
  cache,      \* MODEL_CACHE[harness] of each replica: None, Empty or a list
  mirror,     \* Redis key models:<harness>
  row,        \* Harness.installed in the database
  work,       \* what each slot has seen and does next
  installs,   \* how often it was installed
  beside,     \* ghost: uninstall requests during which a refresh carried models
  forgotten   \* ghost: replicas where the harness, on no disk, was forgotten for good

vars == <<onDisk, cache, mirror, row, work, installs, beside, forgotten>>

Empty == "empty"

\* Lists, the empty cache and no entry are told apart.
ASSUME ListsAssumption == None \notin Lists /\ Empty \notin Lists

Free == [op |-> "none"]

\* cached_models, where an absent entry counts as an empty list.
Serves(r) == cache[r] \in Lists

Of(op) == {s \in Slots : work[s].op = op}

IsAt(s, at) == work[s].op = "refresh" /\ work[s].at = at

\* A refresh that has found the executable, or has been given a copy of the
\* mirror, and has not yet passed on what it learns from it.
Carries(s) ==
  \/ IsAt(s, "listing") \/ IsAt(s, "mirroring")
  \/ IsAt(s, "hydrating") /\ work[s].models # None

----
Init ==
  /\ onDisk \in SUBSET Replicas
  /\ cache = [r \in Replicas |-> None] /\ mirror = None /\ row = None
  /\ work = [s \in Slots |-> Free]
  /\ installs = 0 /\ beside = {} /\ forgotten = {}

\* Somebody installs or removes the executable on a replica's machine.
Install(r) ==
  /\ r \notin onDisk /\ installs < MaxInstalls
  /\ onDisk' = onDisk \cup {r} /\ installs' = installs + 1
  /\ forgotten' = {}
  /\ UNCHANGED <<cache, mirror, row, work, beside>>

Remove(r) ==
  /\ r \in onDisk
  /\ onDisk' = onDisk \ {r}
  /\ UNCHANGED <<cache, mirror, row, work, installs, beside, forgotten>>

\* The mirror reaches its time to live.
Expire ==
  /\ mirror # None /\ mirror' = None
  /\ UNCHANGED <<onDisk, cache, row, work, installs, beside, forgotten>>

Starts(s, w) ==
  /\ work[s] = Free
  /\ work' = [work EXCEPT ![s] = w]

Goes(s, w) == work' = [work EXCEPT ![s] = w]

(***************************************************************************)
(* refresh_models                                                          *)
(***************************************************************************)
\* At start-up, when a job has succeeded, or on request.
Refresh(s, r) ==
  /\ Starts(s, [op |-> "refresh", on |-> r, at |-> "looking"])
  /\ UNCHANGED <<onDisk, cache, mirror, row, installs, beside, forgotten>>

Step(s, at) == [op |-> "refresh", on |-> work[s].on, at |-> at]

\* A thread looks for the executable; without it nothing is asked.
Found(s, found) ==
  /\ IsAt(s, "looking")
  /\ Goes(s, Step(s, IF found THEN "listing" ELSE "fetching"))
  /\ beside' = IF found THEN beside \cup Of("uninstall") ELSE beside
  /\ UNCHANGED <<onDisk, cache, mirror, row, installs, forgotten>>

\* Slip: the inventory row is asked instead of the disk.
LookByRow(s) == Found(s, row = TRUE)
Look(s) == Found(s, work[s].on \in onDisk)

\* The harness reports models, which are cached at once.
Discover(s, models) ==
  /\ IsAt(s, "listing")
  /\ cache' = [cache EXCEPT ![work[s].on] = models]
  /\ Goes(s, [op |-> "refresh", on |-> work[s].on, at |-> "mirroring", models |-> models])
  /\ UNCHANGED <<onDisk, mirror, row, installs, beside, forgotten>>

\* It reports none, or fails.
DiscoverNothing(s) ==
  /\ IsAt(s, "listing")
  /\ Goes(s, Step(s, "fetching"))
  /\ UNCHANGED <<onDisk, cache, mirror, row, installs, beside, forgotten>>

Mirror(s) ==
  /\ IsAt(s, "mirroring")
  /\ mirror' \in {mirror, work[s].models}
  /\ Goes(s, Step(s, "checking"))
  /\ UNCHANGED <<onDisk, cache, row, installs, beside, forgotten>>

\* The mirror is read; its answer arrives later and fills the cache.
Fetch(s) ==
  /\ IsAt(s, "fetching")
  /\ \E copy \in {mirror, None} :
       /\ Goes(s, [op |-> "refresh", on |-> work[s].on, at |-> "hydrating", models |-> copy])
       /\ beside' = IF copy = None THEN beside ELSE beside \cup Of("uninstall")
  /\ UNCHANGED <<onDisk, cache, mirror, row, installs, forgotten>>

Hydrate(s) ==
  LET copy == work[s].models IN
  /\ IsAt(s, "hydrating")
  /\ cache' = [cache EXCEPT ![work[s].on] = IF copy = None THEN Empty ELSE copy]
  /\ Goes(s, Step(s, "checking"))
  /\ UNCHANGED <<onDisk, mirror, row, installs, beside, forgotten>>

\* The inventory: another thread looks, then the row is stored, or is not when
\* that fails.
Check(s) ==
  /\ IsAt(s, "checking")
  /\ Goes(s, [op |-> "refresh", on |-> work[s].on, at |-> "syncing",
              installed |-> work[s].on \in onDisk])
  /\ UNCHANGED <<onDisk, cache, mirror, row, installs, beside, forgotten>>

Sync(s) ==
  /\ IsAt(s, "syncing")
  /\ row' \in {row, work[s].installed}
  /\ Goes(s, Free)
  /\ UNCHANGED <<onDisk, cache, mirror, installs, beside, forgotten>>

RefreshStep(s) ==
  \/ Look(s) \/ DiscoverNothing(s) \/ Mirror(s) \/ Fetch(s) \/ Hydrate(s) \/ Check(s) \/ Sync(s)
  \/ \E models \in Lists : Discover(s, models)

(***************************************************************************)
(* POST /harnesses/{name}/uninstall                                        *)
(***************************************************************************)
Uninstall(s, r) ==
  /\ Starts(s, [op |-> "uninstall", on |-> r, at |-> "deleting"])
  /\ cache' = [cache EXCEPT ![r] = None]
  /\ beside' = IF \E x \in Slots : Carries(x) THEN beside \cup {s} ELSE beside
  /\ UNCHANGED <<onDisk, mirror, row, installs, forgotten>>

\* clear_model_cache_mirror: a failure is logged.
DeleteMirror(s) ==
  /\ work[s].op = "uninstall" /\ work[s].at = "deleting"
  /\ \/ /\ mirror' = None
        /\ forgotten' = (IF s \in beside \/ onDisk # {} THEN forgotten
                         ELSE forgotten \cup {work[s].on})
     \/ UNCHANGED <<mirror, forgotten>>
  /\ Goes(s, [op |-> "uninstall", on |-> work[s].on, at |-> "storing"])
  /\ UNCHANGED <<onDisk, cache, row, installs, beside>>

StoreRow(s) ==
  /\ work[s].op = "uninstall" /\ work[s].at = "storing"
  /\ row' \in {row, IF row = None THEN None ELSE FALSE}
  /\ beside' = beside \ {s}
  /\ Goes(s, Free)
  /\ UNCHANGED <<onDisk, cache, mirror, installs, forgotten>>

(***************************************************************************)
(* GET /harnesses and GET /harnesses/{name}/health                         *)
(***************************************************************************)
\* The list is reconciled with the disk of the replica that answers: models of
\* a harness it does not have are dropped, here and from the mirror.
List(s, r) ==
  LET installed == r \in onDisk
      drops == row # None /\ ~installed /\ Serves(r)
  IN
  /\ cache' = [cache EXCEPT ![r] = IF drops THEN None ELSE @]
  /\ IF drops \/ row # installed
     THEN Starts(s, [op |-> "list", on |-> r, installed |-> installed,
                     at |-> IF drops THEN "deleting" ELSE "storing"])
     ELSE work[s] = Free /\ UNCHANGED work
  /\ UNCHANGED <<onDisk, mirror, row, installs, beside, forgotten>>

Reconcile(s) ==
  /\ work[s].op = "list" /\ work[s].at = "deleting"
  /\ mirror' \in {mirror, None}
  /\ Goes(s, [op |-> "list", on |-> work[s].on, installed |-> work[s].installed,
              at |-> "storing"])
  /\ UNCHANGED <<onDisk, cache, row, installs, beside, forgotten>>

\* A health check stores what it saw in the same way.
Health(s, r) ==
  /\ Starts(s, [op |-> "list", on |-> r, installed |-> r \in onDisk, at |-> "storing"])
  /\ UNCHANGED <<onDisk, cache, mirror, row, installs, beside, forgotten>>

StoreSeen(s) ==
  /\ work[s].op = "list" /\ work[s].at = "storing"
  /\ row' \in {row, work[s].installed}
  /\ Goes(s, Free)
  /\ UNCHANGED <<onDisk, cache, mirror, installs, beside, forgotten>>

\* A replica restarts with an empty cache, and without what it was doing.
Restart(r) ==
  LET lost == {s \in Slots : work[s] # Free /\ work[s].on = r} IN
  /\ cache' = [cache EXCEPT ![r] = None]
  /\ work' = [s \in Slots |-> IF s \in lost THEN Free ELSE work[s]]
  /\ beside' = beside \ lost
  /\ UNCHANGED <<onDisk, mirror, row, installs, forgotten>>

Next ==
  \/ \E r \in Replicas : Install(r) \/ Remove(r) \/ Restart(r)
  \/ Expire
  \/ \E s \in Slots :
       \/ RefreshStep(s) \/ DeleteMirror(s) \/ StoreRow(s) \/ Reconcile(s) \/ StoreSeen(s)
       \/ \E r \in Replicas : Refresh(s, r) \/ Uninstall(s, r) \/ List(s, r) \/ Health(s, r)

Spec == Init /\ [][Next]_vars
(***************************************************************************)
(* Properties                                                              *)
(***************************************************************************)
Works ==
  {Free}
    \cup [op : {"refresh"}, on : Replicas, at : {"looking", "listing", "fetching", "checking"}]
    \cup [op : {"refresh"}, on : Replicas, at : {"mirroring"}, models : Lists]
    \cup [op : {"refresh"}, on : Replicas, at : {"hydrating"}, models : Lists \cup {None}]
    \cup [op : {"refresh"}, on : Replicas, at : {"syncing"}, installed : BOOLEAN]
    \cup [op : {"uninstall"}, on : Replicas, at : {"deleting", "storing"}]
    \cup [op : {"list"}, on : Replicas, at : {"deleting", "storing"}, installed : BOOLEAN]

\* Every variable keeps its type.
TypeOK ==
  /\ onDisk \subseteq Replicas
  /\ cache \in [Replicas -> Lists \cup {None, Empty}]
  /\ mirror \in Lists \cup {None} /\ row \in BOOLEAN \cup {None}
  /\ work \in [Slots -> Works]
  /\ installs \in 0..MaxInstalls
  /\ beside \subseteq Slots /\ forgotten \subseteq Replicas

\* Once an uninstall request has emptied a replica's cache and deleted the
\* mirror, no refresh having carried models meanwhile and no machine having the
\* harness, that replica does not serve its models again and the mirror stays
\* empty, whatever refreshes began before or begin later, until the harness is
\* installed again (admin.py:303-331, registry.py:157-236).  A refresh that does
\* carry models, or a mirror that cannot be deleted, does bring them back.
ForgottenStaysForgotten ==
  forgotten # {} => mirror = None /\ \A r \in forgotten : ~Serves(r)

(***************************************************************************)
(* What the documentation says, and the code does not keep.                *)
(***************************************************************************)
\* docs/architecture.md:100: "Transient discovery errors or absent local tools
\* do not delete the shared mirror.": no replica is about to delete, for want
\* of the executable, the list that another one has discovered and serves.
MirrorKept ==
  \A s \in Of("list") : work[s].at = "deleting" => ~\E r \in onDisk : Serves(r) /\ cache[r] = mirror
====
