------------------------------ MODULE Accounts ------------------------------
(***************************************************************************)
(* Users and API keys: services/user_service.py, bootstrap in api/auth.py  *)
(* and the key routes of api/admin.py.  A request authenticates, reads and *)
(* commits in database calls of its own, so requests overlap between them. *)
(* Passwords, names, limits and expiry of tokens are left out.             *)
(***************************************************************************)
EXTENDS Naturals, FiniteSets

CONSTANTS
  MaxUsers,    \* bound: the highest user id
  MaxKeys,     \* bound: the highest key id
  MaxDigests,  \* bound: the secrets that are issued
  Slots,       \* requests in progress
  Emails,      \* e-mail addresses a client may send
  Lower,       \* [Emails -> Emails]: an address in lower case
  Changes,     \* bodies of PATCH /users: functions from some fields to values
  None         \* no row

Roles == {"admin", "user"}
LowerEmails == {Lower[e] : e \in Emails}

ASSUME BoundsAssumption == {MaxUsers, MaxKeys, MaxDigests} \subseteq Nat
ASSUME LowerAssumption ==
  /\ Lower \in [Emails -> Emails]
  /\ \A e \in Emails : Lower[Lower[e]] = Lower[e]
ASSUME ChangesAssumption ==
  \A c \in Changes :
    /\ DOMAIN c \subseteq {"email", "role", "active"}
    /\ "email" \in DOMAIN c => c["email"] \in LowerEmails
    /\ "role" \in DOMAIN c => c["role"] \in Roles
    /\ "active" \in DOMAIN c => c["active"] \in BOOLEAN

VARIABLES
  users,       \* table users: the row of each id, or None
  keys,        \* table api_keys
  req,         \* what each request in progress has read and does next
  issued,      \* secrets issued so far
  revoked,     \* ghost: secrets a rotation or a deletion has taken away
  overtaken,   \* ghost: requests during which another one removed an admin
  raced        \* ghost: users with the address a bootstrap stored beside other requests

vars == <<users, keys, req, issued, revoked, overtaken, raced>>

UserIds == 1..MaxUsers
KeyIds == 1..MaxKeys
Digests == 1..MaxDigests
UserRows == [email : Emails, role : Roles, active : BOOLEAN]
KeyRows == [owner : UserIds, digest : Digests, active : BOOLEAN]

\* No entry is told apart from a row.
ASSUME NoneAssumption == None \notin UserRows \cup KeyRows

Free == [op |-> "none"]

Present(table) == {i \in DOMAIN table : table[i] # None}
Active(u) == users[u] # None /\ users[u].active
AdminsOf(table) == {u \in Present(table) : table[u].role = "admin" /\ table[u].active}
Admins == AdminsOf(users)

\* SQLite gives a row the id after the highest one there is: the id of a row
\* that was the highest is used again after its deletion.
IsNext(table, i) ==
  i \in DOMAIN table /\ table[i] = None /\ \A j \in Present(table) : j < i
                     /\ (i = 1 \/ i - 1 \in Present(table))

----
Init ==
  /\ users = [u \in UserIds |-> None] /\ keys = [k \in KeyIds |-> None]
  /\ req = [s \in Slots |-> Free]
  /\ issued = 0 /\ revoked = {} /\ overtaken = {} /\ raced = {}

Ask(s, r) ==
  /\ req[s] = Free
  /\ req' = [req EXCEPT ![s] = r]
  /\ UNCHANGED <<users, keys, issued, revoked, overtaken, raced>>

Goes(s, at) ==
  /\ req' = [req EXCEPT ![s].at = at]
  /\ UNCHANGED <<users, keys, issued, revoked, overtaken, raced>>

InFlight(s) == {t \in Slots \ {s} : req[t] # Free}

\* The request ends; after is the table of users then.
Ends(s, after) ==
  /\ req' = [req EXCEPT ![s] = Free]
  /\ users' = after
  /\ overtaken' = (IF Admins \subseteq AdminsOf(after) THEN overtaken ELSE overtaken \cup InFlight(s)) \ {s}

\* It ends with an error, or had nothing to do.
Fails(s) ==
  /\ Ends(s, users)
  /\ UNCHANGED <<keys, issued, revoked, raced>>

(***************************************************************************)
(* Creation of users                                                       *)
(***************************************************************************)
\* Nobody exists yet: the address is stored as it was sent.
Bootstrap(s, e) ==
  /\ Present(users) = {}
  /\ Ask(s, [op |-> "bootstrap", at |-> "inserting",
             row |-> [email |-> e, role |-> "admin", active |-> TRUE]])

NewUserAsSent(e, r) == [email |-> e, role |-> r, active |-> TRUE]
NewUser(e, r) == [email |-> Lower[e], role |-> r, active |-> TRUE]

CreateUser(s, e, r) ==
  /\ Admins # {}
  /\ Ask(s, [op |-> "create", at |-> "looking", row |-> NewUser(e, r)])

\* get_user_by_email, which raises when two rows match.
Matches(e) == {u \in Present(users) : Lower[users[u].email] = Lower[e]}

LookUp(s) ==
  /\ req[s].op = "create" /\ req[s].at = "looking"
  /\ IF Matches(req[s].row.email) = {} THEN Goes(s, "inserting") ELSE Fails(s)

\* A bootstrap that is not by itself: another stored its user before, or some
\* request is in progress.
Overlaps(s) == req[s].op = "bootstrap" /\ (Present(users) # {} \/ InFlight(s) # {})

\* The index on the column is unique and compares exactly.
InsertUser(s) ==
  /\ req[s].op \in {"bootstrap", "create"} /\ req[s].at = "inserting"
  /\ IF \E u \in Present(users) : users[u].email = req[s].row.email
     THEN Fails(s)
     ELSE /\ \E u \in UserIds :
               /\ IsNext(users, u)
               /\ Ends(s, [users EXCEPT ![u] = req[s].row])
               /\ raced' = IF Overlaps(s) THEN raced \cup {u} ELSE raced
          /\ UNCHANGED <<keys, issued, revoked>>

(***************************************************************************)
(* update_user and delete_user                                             *)
(***************************************************************************)
\* The actor is an administrator now; db.get finds the actor's own row in the
\* session, any other is read in a call of its own.
UpdateUser(s, a, u, c) ==
  /\ a \in Admins
  /\ Ask(s, [op |-> "update", at |-> "loading", by |-> a, on |-> u, change |-> c,
             row |-> IF a = u THEN users[a] ELSE None])

DeleteUser(s, a, u) ==
  /\ a \in Admins
  /\ Ask(s, [op |-> "delete", at |-> "loading", by |-> a, on |-> u])

RemovesAccess(c) ==
  \/ "active" \in DOMAIN c /\ ~c["active"]
  \/ "role" \in DOMAIN c /\ c["role"] # "admin"

\* The columns of a loaded row that the commit writes.
Dirty(row, c) == [f \in {g \in DOMAIN c : c[g] # row[g]} |-> c[f]]

Written(row, d) ==
  LET Column(f) == IF f \in DOMAIN d THEN d[f] ELSE row[f]
  IN  [email |-> Column("email"), role |-> Column("role"), active |-> Column("active")]

AfterCount(c) == IF "email" \in DOMAIN c THEN "looking" ELSE "writing"

LoadForUpdate(s) ==
  LET r == req[s]
      row == IF r.on = r.by THEN r.row ELSE users[r.on]
  IN
  /\ r.op = "update" /\ r.at = "loading"
  /\ IF row = None \/ (r.on = r.by /\ RemovesAccess(r.change))
     THEN Fails(s)
     ELSE LET counted == row.role = "admin" /\ row.active /\ RemovesAccess(r.change) IN
          /\ req' = [req EXCEPT ![s] =
                       [op |-> "update", at |-> IF counted THEN "counting" ELSE AfterCount(r.change),
                        on |-> r.on, change |-> r.change, dirty |-> Dirty(row, r.change)]]
          /\ UNCHANGED <<users, keys, issued, revoked, overtaken, raced>>

Count(s) ==
  /\ req[s].op = "update" /\ req[s].at = "counting"
  /\ IF Cardinality(Admins) <= 1 THEN Fails(s) ELSE Goes(s, AfterCount(req[s].change))

LookUpOther(s) ==
  /\ req[s].op = "update" /\ req[s].at = "looking"
  /\ IF Matches(req[s].change["email"]) \subseteq {req[s].on} THEN Goes(s, "writing") ELSE Fails(s)

\* UPDATE of the changed columns, an error when the row is gone or the address
\* taken; no statement when nothing changes.
WriteUser(s) ==
  LET r == req[s]
      d == r.dirty
      taken == "email" \in DOMAIN d /\ \E u \in Present(users) \ {r.on} : users[u].email = d["email"]
  IN
  /\ r.op = "update" /\ r.at = "writing"
  /\ IF DOMAIN d = {} \/ users[r.on] = None \/ taken
     THEN Fails(s)
     ELSE /\ Ends(s, [users EXCEPT ![r.on] = Written(@, d)])
          /\ raced' = IF "email" \in DOMAIN d THEN raced \ {r.on} ELSE raced
          /\ UNCHANGED <<keys, issued, revoked>>

MayDeleteAnyone(a, u) == users[u] # None
MayDelete(a, u) == users[u] # None /\ u # a

LoadForDelete(s) ==
  /\ req[s].op = "delete" /\ req[s].at = "loading"
  /\ IF MayDelete(req[s].by, req[s].on)
     THEN /\ req' = [req EXCEPT ![s] = [op |-> "delete", at |-> "deleting", on |-> req[s].on]]
          /\ UNCHANGED <<users, keys, issued, revoked, overtaken, raced>>
     ELSE Fails(s)

\* One transaction; nothing is missing for it when the row is gone already.
DeleteRows(s) ==
  LET u == req[s].on
      owned == {k \in Present(keys) : keys[k].owner = u}
  IN
  /\ req[s].op = "delete" /\ req[s].at = "deleting"
  /\ Ends(s, [users EXCEPT ![u] = None])
  /\ keys' = [k \in KeyIds |-> IF k \in owned THEN None ELSE keys[k]]
  /\ revoked' = revoked \cup {keys[k].digest : k \in owned}
  /\ raced' = raced \ {u}
  /\ UNCHANGED issued

UserStep(s) ==
  LookUp(s) \/ InsertUser(s) \/ LoadForUpdate(s) \/ Count(s) \/ LookUpOther(s)
    \/ WriteUser(s) \/ LoadForDelete(s) \/ DeleteRows(s)

(***************************************************************************)
(* API keys                                                                *)
(***************************************************************************)
\* Any active user, on keys of their own.
CreateKey(s, a) ==
  /\ Active(a)
  /\ Ask(s, [op |-> "new key", at |-> "inserting", by |-> a])

ChangeKey(s, a, op, k) ==
  /\ Active(a)
  /\ Ask(s, [op |-> op, at |-> "loading", by |-> a, on |-> k])

KeyOps == {"toggle", "rotate", "delete key"}

\* The reference to the owner is checked by the database.
InsertKey(s) ==
  /\ req[s].op = "new key" /\ issued < MaxDigests
  /\ IF users[req[s].by] = None
     THEN Fails(s)
     ELSE /\ \E k \in KeyIds :
               /\ IsNext(keys, k)
               /\ keys' = [keys EXCEPT ![k] = [owner |-> req[s].by, digest |-> issued + 1,
                                               active |-> TRUE]]
          /\ Ends(s, users)
          /\ issued' = issued + 1
          /\ UNCHANGED <<revoked, raced>>

LoadKey(s) ==
  LET r == req[s] IN
  /\ r.op \in KeyOps /\ r.at = "loading"
  /\ IF keys[r.on] = None THEN Fails(s)
     ELSE IF keys[r.on].owner # r.by THEN Fails(s)
     ELSE /\ req' = [req EXCEPT ![s] = [op |-> r.op, at |-> "writing", on |-> r.on,
                                        row |-> IF r.op = "toggle" THEN keys[r.on] ELSE None]]
          /\ UNCHANGED <<users, keys, issued, revoked, overtaken, raced>>

\* The column that changed is written, with the value that was loaded negated.
ToggledWhole(row, loaded) == [loaded EXCEPT !.active = ~@]
Toggled(row, loaded) == [row EXCEPT !.active = ~loaded.active]

ToggleKey(s) ==
  /\ req[s].op = "toggle" /\ req[s].at = "writing"
  /\ IF keys[req[s].on] = None
     THEN Fails(s)
     ELSE /\ keys' = [keys EXCEPT ![req[s].on] = Toggled(@, req[s].row)]
          /\ Ends(s, users)
          /\ UNCHANGED <<issued, revoked, raced>>

RotateKey(s) ==
  /\ req[s].op = "rotate" /\ req[s].at = "writing" /\ issued < MaxDigests
  /\ IF keys[req[s].on] = None
     THEN Fails(s)
     ELSE /\ keys' = [keys EXCEPT ![req[s].on].digest = issued + 1]
          /\ issued' = issued + 1
          /\ revoked' = revoked \cup {keys[req[s].on].digest}
          /\ Ends(s, users)
          /\ UNCHANGED raced

\* Usage records of the key, which are not modelled here, keep it from deletion.
DeleteKey(s) ==
  LET k == req[s].on IN
  /\ req[s].op = "delete key" /\ req[s].at = "writing"
  /\ \/ Fails(s)
     \/ /\ keys[k] # None
        /\ keys' = [keys EXCEPT ![k] = None]
        /\ revoked' = revoked \cup {keys[k].digest}
        /\ Ends(s, users)
        /\ UNCHANGED <<issued, raced>>

KeyStep(s) == InsertKey(s) \/ LoadKey(s) \/ ToggleKey(s) \/ RotateKey(s) \/ DeleteKey(s)

----
Asked(s) ==
  \/ \E e \in Emails : Bootstrap(s, e) \/ \E r \in Roles : CreateUser(s, e, r)
  \/ \E a, u \in UserIds : DeleteUser(s, a, u) \/ \E c \in Changes : UpdateUser(s, a, u, c)
  \/ \E a \in UserIds :
       CreateKey(s, a) \/ \E op \in KeyOps, k \in KeyIds : ChangeKey(s, a, op, k)

Next == \E s \in Slots : Asked(s) \/ UserStep(s) \/ KeyStep(s)

Spec == Init /\ [][Next]_vars
(***************************************************************************)
(* Properties                                                              *)
(***************************************************************************)
Writes == UNION {{[f \in F |-> c[f]] : F \in SUBSET DOMAIN c} : c \in Changes}
Requests ==
  {Free}
    \cup [op : {"bootstrap", "create"}, at : {"looking", "inserting"}, row : UserRows]
    \cup [op : {"update"}, at : {"loading"}, by : UserIds, on : UserIds, change : Changes,
          row : UserRows \cup {None}]
    \cup [op : {"update"}, at : {"counting", "looking", "writing"}, on : UserIds,
          change : Changes, dirty : Writes]
    \cup [op : {"delete"}, at : {"loading"}, by : UserIds, on : UserIds]
    \cup [op : {"delete"}, at : {"deleting"}, on : UserIds]
    \cup [op : {"new key"}, at : {"inserting"}, by : UserIds]
    \cup [op : KeyOps, at : {"loading"}, by : UserIds, on : KeyIds]
    \cup [op : KeyOps, at : {"writing"}, on : KeyIds, row : KeyRows \cup {None}]

\* Every variable keeps its type.
TypeOK ==
  /\ users \in [UserIds -> UserRows \cup {None}]
  /\ keys \in [KeyIds -> KeyRows \cup {None}]
  /\ req \in [Slots -> Requests]
  /\ issued \in 0..MaxDigests /\ revoked \subseteq Digests
  /\ overtaken \subseteq Slots /\ raced \subseteq UserIds

\* The gateway loses its last active administrator only by a request during
\* which another one removed an administrator: by itself no deletion, no
\* demotion and no disabling can (user_service.py:76, 90-95).
NoAdminLostAlone ==
  [][Admins # {} /\ Admins' = {} =>
       \E s \in overtaken : req[s] # Free /\ req'[s] = Free]_vars

\* Two users never have one address, nor addresses that differ in case only,
\* whatever creations, changes and deletions overlap; of two that differ in case
\* only, one was stored by a bootstrap beside other requests and not changed
\* since (user_service.py:36-38, 105-109; auth.py:97-105; docs/api.md:106).
EmailsDistinct ==
  \A u, v \in Present(users) : u # v =>
    /\ users[u].email # users[v].email
    /\ Lower[users[u].email] = Lower[users[v].email] => {u, v} \cap raced # {}

\* A secret that a rotation, the deletion of its key or the deletion of its
\* owner has revoked opens nothing again, and every key has an owner, whatever
\* requests on the key and its owner overlap (admin.py:403-430,
\* auth_repository.py:50-63).
KeysStayRevoked ==
  \A k \in Present(keys) : keys[k].digest \notin revoked /\ users[keys[k].owner] # None

(***************************************************************************)
(* What the documentation says, and the code does not keep.                *)
(***************************************************************************)
\* docs/api.md:107-108: "the gateway preserves at least one active
\* administrator."
LastAdminPreserved == Present(users) # {} => Admins # {}
====
