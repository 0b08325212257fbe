--------------------------- MODULE AccountsProofs ---------------------------
(***************************************************************************)
(* Secrets stay revoked, addresses distinct, and the last administrator    *)
(* safe from a request that nobody overtakes, for any number of users,     *)
(* keys, addresses and overlapping requests.                               *)
(***************************************************************************)
EXTENDS Accounts, TLAPS

(***************************************************************************)
(* The inductive invariant.                                                *)
(***************************************************************************)
\* Secrets are issued once, each to one key of a user who exists.
KeysSound ==
  /\ revoked \subseteq 1..issued
  /\ \A k \in Present(keys) :
       /\ keys[k].digest \in 1..issued /\ keys[k].digest \notin revoked
       /\ users[keys[k].owner] # None
       /\ \A j \in Present(keys) : keys[j].digest = keys[k].digest => j = k

\* An administrator is left when the request is done: the one who asked, as
\* long as nobody removed an administrator since.
Backed(r) ==
  /\ r.op \in {"update", "delete"} /\ r.at = "loading" => r.by \in Admins
  /\ r.op = "update" /\ r.at # "loading" /\ RemovesAccess(r.change) =>
       \E a \in Admins : a # r.on
  /\ r.op = "delete" /\ r.at = "deleting" => \E a \in Admins : a # r.on

\* Users whose address was stored as it was sent, by a bootstrap that ran by
\* itself.
Odd == {u \in Present(users) \ raced : users[u].email \notin LowerEmails}

\* What a request has found out about the address that it will store.
Lawful(r) ==
  /\ r.op = "create" =>
       /\ r.row.email \in LowerEmails
       /\ r.at = "inserting" => \A u \in Odd : Lower[users[u].email] # r.row.email
  /\ r.op = "update" /\ r.at # "loading" =>
       /\ r.at = "writing" /\ "email" \in DOMAIN r.change =>
            \A u \in Odd \ {r.on} : Lower[users[u].email] # r.change["email"]

\* Only columns that the body of the request names are written.
Named(r) ==
  r.op = "update" /\ r.at # "loading" =>
    \A f \in DOMAIN r.dirty : f \in DOMAIN r.change /\ r.dirty[f] = r.change[f]

Distinct ==
  /\ \A u, v \in Present(users) : u # v => users[u].email # users[v].email
  /\ \A u, v \in Present(users) \ raced :
       u # v => Lower[users[u].email] # Lower[users[v].email]

IInv ==
  /\ TypeOK
  /\ KeysSound
  /\ \A s \in Slots : Named(req[s])
  /\ \A s \in Slots \ overtaken : Backed(req[s])
  /\ Distinct
  /\ \A s \in Slots : Lawful(req[s])

(***************************************************************************)
(* Values                                                                  *)
(***************************************************************************)
LEMMA LowerFacts ==
  /\ LowerEmails \subseteq Emails
  /\ \A e \in Emails : Lower[e] \in LowerEmails
  /\ \A e \in LowerEmails : Lower[e] = e
BY LowerAssumption DEF LowerEmails

\* The columns to write have values of their types.
LEMMA WritesTyped ==
  ASSUME NEW d \in Writes
  PROVE  /\ "email" \in DOMAIN d => d["email"] \in LowerEmails
         /\ "role" \in DOMAIN d => d["role"] \in Roles
         /\ "active" \in DOMAIN d => d["active"] \in BOOLEAN
<1>1. PICK c \in Changes : \E F \in SUBSET DOMAIN c : d = [f \in F |-> c[f]]
  BY DEF Writes
<1>2. \A f \in DOMAIN d : f \in DOMAIN c /\ d[f] = c[f]
  BY <1>1
<1>3. QED
  BY <1>2, ChangesAssumption

LEMMA WrittenTyped ==
  ASSUME NEW row \in UserRows, NEW d \in Writes
  PROVE  Written(row, d) \in UserRows
BY WritesTyped, LowerFacts DEF Written, UserRows

LEMMA DirtyTyped ==
  ASSUME NEW row, NEW c \in Changes
  PROVE  /\ Dirty(row, c) \in Writes
         /\ \A f \in DOMAIN Dirty(row, c) : f \in DOMAIN c /\ Dirty(row, c)[f] = c[f]
<1> DEFINE F == {g \in DOMAIN c : c[g] # row[g]}
<1>1. F \in SUBSET DOMAIN c /\ Dirty(row, c) = [f \in F |-> c[f]]
  BY DEF Dirty
<1>2. Dirty(row, c) \in Writes
  BY <1>1 DEF Writes
<1>3. QED
  BY <1>1, <1>2

\* Requests that create a user, and those that have loaded a row to update.
Creations == [op : {"bootstrap", "create"}, at : {"looking", "inserting"}, row : UserRows]
Updates == [op : {"update"}, at : {"counting", "looking", "writing"}, on : UserIds,
            change : Changes, dirty : Writes]

\* They move on with what they remember.
LEMMA CreationMoves ==
  ASSUME NEW r \in Creations, NEW at \in {"looking", "inserting"}
  PROVE  [r EXCEPT !.at = at] = [op |-> r.op, at |-> at, row |-> r.row]
BY DEF Creations

LEMMA LoadedMoves ==
  ASSUME NEW r \in Updates, NEW at \in {"counting", "looking", "writing"}
  PROVE  [r EXCEPT !.at = at] =
           [op |-> "update", at |-> at, on |-> r.on, change |-> r.change, dirty |-> r.dirty]
BY DEF Updates

\* What a request remembers, by what it does and where it is.
LEMMA RequestFields ==
  ASSUME NEW r \in Requests
  PROVE  /\ r.op \in {"bootstrap", "create"} => r.row \in UserRows
         /\ r.op = "update" =>
              /\ r.on \in UserIds /\ r.change \in Changes
              /\ r.at = "loading" => r.by \in UserIds /\ r.row \in UserRows \cup {None}
              /\ r.at # "loading" => r.dirty \in Writes
         /\ r.op = "delete" => r.on \in UserIds /\ (r.at = "loading" => r.by \in UserIds)
         /\ r.op = "new key" => r.by \in UserIds
         /\ r.op \in KeyOps => r.on \in KeyIds
         /\ r.op = "create" => r \in Creations
         /\ r.op = "update" /\ r.at # "loading" => r \in Updates
<1>1. CASE r = Free
  <2>1. r.op = "none"
    BY <1>1 DEF Free
  <2>2. QED
    BY <2>1 DEF KeyOps
<1>2. CASE r \in [op : {"bootstrap", "create"}, at : {"looking", "inserting"}, row : UserRows]
  BY <1>2 DEF KeyOps, Creations
<1>3. CASE r \in [op : {"update"}, at : {"loading"}, by : UserIds, on : UserIds, change : Changes,
                row : UserRows \cup {None}]
  BY <1>3 DEF KeyOps
<1>4. CASE r \in [op : {"update"}, at : {"counting", "looking", "writing"}, on : UserIds,
                change : Changes, dirty : Writes]
  BY <1>4 DEF KeyOps, Updates
<1>5. CASE r \in [op : {"delete"}, at : {"loading"}, by : UserIds, on : UserIds]
  BY <1>5 DEF KeyOps
<1>6. CASE r \in [op : {"delete"}, at : {"deleting"}, on : UserIds]
  BY <1>6 DEF KeyOps
<1>7. CASE r \in [op : {"new key"}, at : {"inserting"}, by : UserIds]
  BY <1>7 DEF KeyOps
<1>8. CASE r \in [op : KeyOps, at : {"loading"}, by : UserIds, on : KeyIds]
  BY <1>8 DEF KeyOps
<1>9. CASE r \in [op : KeyOps, at : {"writing"}, on : KeyIds, row : KeyRows \cup {None}]
  BY <1>9 DEF KeyOps
<1>10. QED
  BY <1>1, <1>2, <1>3, <1>4, <1>5, <1>6, <1>7, <1>8, <1>9 DEF Requests

(***************************************************************************)
(* A step that only moves its own request on.                              *)
(***************************************************************************)
LEMMA Moves ==
  ASSUME IInv, NEW s \in Slots, NEW w \in Requests, req' = [req EXCEPT ![s] = w],
         UNCHANGED <<users, keys, issued, revoked, overtaken, raced>>,
         Named(w), s \notin overtaken => Backed(w), Lawful(w)
  PROVE  IInv'
<1> USE DEF IInv
<1>1. /\ TypeOK' /\ req'[s] = w
      /\ \A t \in Slots \ {s} : req'[t] = req[t]
  BY DEF TypeOK
<1>2. KeysSound' /\ Admins' = Admins /\ Odd' = Odd /\ Distinct' = Distinct
  BY DEF KeysSound, Admins, AdminsOf, Present, Odd, Distinct
<1>3. \A t \in Slots : Named(req[t])'
  BY <1>1 DEF Named
<1>4. \A t \in Slots \ overtaken : Backed(req[t])'
  BY <1>1, <1>2 DEF Backed
<1>5. \A t \in Slots : Lawful(req[t])'
  BY <1>1, <1>2 DEF Lawful
<1>6. QED
  BY <1>1, <1>2, <1>3, <1>4, <1>5

LEMMA NothingToSay ==
  ASSUME NEW w, w.op \notin {"update", "delete", "create"}
  PROVE  Named(w) /\ Backed(w) /\ Lawful(w)
BY DEF Named, Backed, Lawful

LEMMA FreeRequest == Free \in Requests /\ Named(Free) /\ Backed(Free) /\ Lawful(Free)
BY NothingToSay DEF Free, Requests

LEMMA AskKeeps ==
  ASSUME IInv, NEW s \in Slots, Asked(s)
  PROVE  IInv'
<1> USE DEF Ask
<1>1. ASSUME NEW e \in Emails, Bootstrap(s, e)
      PROVE  IInv'
  <2> DEFINE w == [op |-> "bootstrap", at |-> "inserting",
                   row |-> [email |-> e, role |-> "admin", active |-> TRUE]]
  <2>1. w \in Requests
    BY DEF Requests, UserRows, Roles
  <2>2. Named(w) /\ Backed(w) /\ Lawful(w)
    BY NothingToSay
  <2>3. QED
    BY <1>1, <2>1, <2>2, Moves DEF Bootstrap
<1>2. ASSUME NEW e \in Emails, NEW r \in Roles, CreateUser(s, e, r)
      PROVE  IInv'
  <2> DEFINE w == [op |-> "create", at |-> "looking", row |-> NewUser(e, r)]
  <2>1. w \in Requests
    BY LowerFacts DEF Requests, UserRows, NewUser
  <2>2. Named(w) /\ Backed(w) /\ Lawful(w)
    BY LowerFacts DEF Named, Backed, Lawful, NewUser
  <2>3. QED
    BY <1>2, <2>1, <2>2, Moves DEF CreateUser
<1>3. ASSUME NEW a \in UserIds, NEW u \in UserIds, NEW c \in Changes, UpdateUser(s, a, u, c)
      PROVE  IInv'
  <2> DEFINE w == [op |-> "update", at |-> "loading", by |-> a, on |-> u, change |-> c,
                   row |-> IF a = u THEN users[a] ELSE None]
  <2>1. w \in Requests
    <3>1. (IF a = u THEN users[a] ELSE None) \in UserRows \cup {None}
      BY DEF IInv, TypeOK
    <3>2. QED
      BY <3>1 DEF Requests
  <2>2. Named(w) /\ Backed(w) /\ Lawful(w)
    BY <1>3 DEF Named, Backed, Lawful, UpdateUser
  <2>3. QED
    BY <1>3, <2>1, <2>2, Moves DEF UpdateUser
<1>4. ASSUME NEW a \in UserIds, NEW u \in UserIds, DeleteUser(s, a, u)
      PROVE  IInv'
  <2> DEFINE w == [op |-> "delete", at |-> "loading", by |-> a, on |-> u]
  <2>1. w \in Requests
    BY DEF Requests
  <2>2. Named(w) /\ Backed(w) /\ Lawful(w)
    BY <1>4 DEF Named, Backed, Lawful, DeleteUser
  <2>3. QED
    BY <1>4, <2>1, <2>2, Moves DEF DeleteUser
<1>5. ASSUME NEW a \in UserIds, CreateKey(s, a)
      PROVE  IInv'
  <2> DEFINE w == [op |-> "new key", at |-> "inserting", by |-> a]
  <2>1. w \in Requests
    BY DEF Requests
  <2>2. Named(w) /\ Backed(w) /\ Lawful(w)
    BY NothingToSay
  <2>3. QED
    BY <1>5, <2>1, <2>2, Moves DEF CreateKey
<1>6. ASSUME NEW a \in UserIds, NEW op \in KeyOps, NEW k \in KeyIds, ChangeKey(s, a, op, k)
      PROVE  IInv'
  <2> DEFINE w == [op |-> op, at |-> "loading", by |-> a, on |-> k]
  <2>1. w \in Requests
    BY DEF Requests
  <2>2. Named(w) /\ Backed(w) /\ Lawful(w)
    BY NothingToSay DEF KeyOps
  <2>3. QED
    BY <1>6, <2>1, <2>2, Moves DEF ChangeKey
<1>7. QED
  BY <1>1, <1>2, <1>3, <1>4, <1>5, <1>6 DEF Asked

(***************************************************************************)
(* A step that ends its request.                                           *)
(***************************************************************************)
LEMMA EndsKeeps ==
  ASSUME IInv, NEW s \in Slots, NEW after \in [UserIds -> UserRows \cup {None}], Ends(s, after),
         KeysSound', keys' \in [KeyIds -> KeyRows \cup {None}],
         issued' \in 0..MaxDigests, revoked' \subseteq Digests, raced' \subseteq UserIds,
         Distinct', \A t \in Slots \ {s} : Lawful(req[t])'
  PROVE  IInv'
<1> USE DEF IInv, Ends
<1>1. /\ TypeOK' /\ req'[s] = Free
      /\ \A t \in Slots \ {s} : req'[t] = req[t]
  BY FreeRequest DEF TypeOK, InFlight
<1>2. Admins' = AdminsOf(after)
  BY DEF Admins, AdminsOf, Present
<1>3. \A t \in Slots : Named(req[t])'
  BY <1>1, FreeRequest DEF Named
<1>4. ASSUME NEW t \in Slots \ overtaken'
      PROVE  Backed(req[t])'
  <2>1. CASE t = s \/ req[t] = Free
    BY <1>1, <2>1 DEF Backed, Free
  <2>2. CASE t # s /\ req[t] # Free
    <3>1. t \in InFlight(s)
      BY <2>2 DEF InFlight
    <3>2. Admins \subseteq Admins' /\ t \notin overtaken
      BY <1>2, <1>4, <2>2, <3>1
    <3>3. Backed(req[t])
      BY <1>4, <3>2
    <3>4. QED
      BY <1>1, <2>2, <3>2, <3>3 DEF Backed
  <2>3. QED
    BY <2>1, <2>2
<1>5. Distinct' /\ \A t \in Slots : Lawful(req[t])'
  BY <1>1, FreeRequest DEF Lawful, Free
<1>6. QED
  BY <1>1, <1>3, <1>4, <1>5

\* One that leaves the users alone.
LEMMA KeyStepKeeps ==
  ASSUME IInv, NEW s \in Slots, Ends(s, users), KeysSound',
         keys' \in [KeyIds -> KeyRows \cup {None}],
         issued' \in 0..MaxDigests, revoked' \subseteq Digests, UNCHANGED raced
  PROVE  IInv'
<1> USE DEF IInv
<1>1. users \in [UserIds -> UserRows \cup {None}] /\ UNCHANGED users
  BY DEF Ends, TypeOK
<1>2. Odd' = Odd /\ Distinct' = Distinct
  BY <1>1 DEF Present, Odd, Distinct
<1>3. \A t \in Slots \ {s} : Lawful(req[t]) => Lawful(req[t])'
  <2>1. \A t \in Slots \ {s} : req'[t] = req[t]
    BY DEF Ends, TypeOK
  <2>2. QED
    BY <1>1, <1>2, <2>1 DEF Lawful
<1>4. QED
  BY <1>1, <1>2, <1>3, EndsKeeps DEF TypeOK

LEMMA FailsKeeps ==
  ASSUME IInv, NEW s \in Slots, Fails(s)
  PROVE  IInv'
<1>1. Ends(s, users) /\ UNCHANGED <<users, keys, issued, revoked, raced>>
  BY DEF Fails, Ends
<1>2. KeysSound'
  BY <1>1 DEF IInv, KeysSound, Present
<1>3. QED
  BY <1>1, <1>2, KeyStepKeeps DEF IInv, TypeOK

(***************************************************************************)
(* Requests about users.                                                   *)
(***************************************************************************)
LEMMA LookUpKeeps ==
  ASSUME IInv, NEW s \in Slots, LookUp(s)
  PROVE  IInv'
<1> USE DEF IInv
<1>1. CASE Fails(s)
  BY <1>1, FailsKeeps
<1>2. CASE Matches(req[s].row.email) = {} /\ Goes(s, "inserting")
  <2> DEFINE w == [op |-> "create", at |-> "inserting", row |-> req[s].row]
  <2>0. [req[s] EXCEPT !.at = "inserting"] = w
    BY RequestFields, CreationMoves DEF LookUp, TypeOK
  <2>1. /\ w \in Requests /\ w.op = "create" /\ w.at = "inserting" /\ w.row = req[s].row
        /\ req[s].op = "create" /\ req[s].row \in UserRows
    BY RequestFields DEF LookUp, TypeOK, Requests
  <2>2. Named(w) /\ Backed(w)
    BY <2>1 DEF Named, Backed
  <2>3. Lawful(w)
    <3>1. ASSUME NEW u \in Odd
          PROVE  Lower[users[u].email] # w.row.email
      <4>1. w.row.email \in LowerEmails
        BY <2>1, <3>1 DEF Lawful
      <4>2. u \notin Matches(w.row.email)
        BY <1>2, <2>1
      <4>3. QED
        BY <4>1, <4>2, LowerFacts DEF Matches, Odd
    <3>2. QED
      BY <2>1, <3>1 DEF Lawful
  <2> HIDE DEF w
  <2>4. req' = [req EXCEPT ![s] = w]
    BY <1>2, <2>0 DEF Goes
  <2>5. QED
    BY <1>2, <2>1, <2>2, <2>3, <2>4, Moves DEF Goes
<1>3. QED
  BY <1>1, <1>2 DEF LookUp

\* The columns of a request that has loaded its row.
LEMMA UpdateMoves ==
  ASSUME IInv, NEW s \in Slots, req[s].op = "update", req[s].at # "loading",
         NEW at \in {"looking", "writing"}, Goes(s, at),
         at = "writing" /\ "email" \in DOMAIN req[s].change =>
           \A u \in Odd \ {req[s].on} : Lower[users[u].email] # req[s].change["email"]
  PROVE  IInv'
<1> USE DEF IInv
<1> DEFINE r == req[s]
           w == [op |-> "update", at |-> at, on |-> r.on, change |-> r.change, dirty |-> r.dirty]
<1>0. r \in Updates /\ [r EXCEPT !.at = at] = w
  BY RequestFields, LoadedMoves DEF TypeOK
<1>1. /\ w \in Requests /\ w.op = "update" /\ w.at = at
      /\ w.on = req[s].on /\ w.change = req[s].change /\ w.dirty = req[s].dirty
  BY <1>0 DEF Updates, Requests
<1>2. req' = [req EXCEPT ![s] = w]
  BY <1>0 DEF Goes
<1> HIDE DEF w
<1>3. Named(w) /\ (s \notin overtaken => Backed(w))
  BY <1>1 DEF Named, Backed
<1>4. Lawful(w)
  BY <1>1 DEF Lawful
<1>5. QED
  BY <1>1, <1>2, <1>3, <1>4, Moves DEF Goes

LEMMA LoadForUpdateKeeps ==
  ASSUME IInv, NEW s \in Slots, LoadForUpdate(s)
  PROVE  IInv'
<1> USE DEF IInv
<1> DEFINE r == req[s]
           row == IF r.on = r.by THEN r.row ELSE users[r.on]
           counted == row.role = "admin" /\ row.active /\ RemovesAccess(r.change)
           w == [op |-> "update", at |-> IF counted THEN "counting" ELSE AfterCount(r.change),
                 on |-> r.on, change |-> r.change, dirty |-> Dirty(row, r.change)]
<1>1. CASE Fails(s)
  BY <1>1, FailsKeeps
<1>2. CASE ~(row = None \/ (r.on = r.by /\ RemovesAccess(r.change)))
  <2>1. /\ r.op = "update" /\ r.at = "loading" /\ r.on \in UserIds /\ r.change \in Changes
        /\ req' = [req EXCEPT ![s] = w]
        /\ UNCHANGED <<users, keys, issued, revoked, overtaken, raced>>
    <3>1. r.op = "update" /\ r.at = "loading"
      BY DEF LoadForUpdate
    <3>2. r.on \in UserIds /\ r.change \in Changes
      BY <3>1, RequestFields DEF TypeOK
    <3>3. /\ req' = [req EXCEPT ![s] = w]
          /\ UNCHANGED <<users, keys, issued, revoked, overtaken, raced>>
      BY <1>2, Zenon DEF LoadForUpdate
    <3>4. QED
      BY <3>1, <3>2, <3>3
  <2>2. /\ w.op = "update" /\ w.at \in {"counting", "looking", "writing"} /\ w.on = r.on
        /\ w.change = r.change /\ w.dirty = Dirty(row, r.change)
        /\ w.at = "writing" => "email" \notin DOMAIN r.change
    BY DEF AfterCount
  <2>3. w \in Requests
    <3>1. Dirty(row, r.change) \in Writes
      BY <2>1, DirtyTyped
    <3>2. (IF counted THEN "counting" ELSE AfterCount(r.change)) \in {"counting", "looking", "writing"}
      BY DEF AfterCount
    <3>3. QED
      BY <2>1, <3>1, <3>2 DEF Requests
  <2>4. Named(w)
    BY <2>1, <2>2, DirtyTyped DEF Named
  <2> HIDE DEF w
  <2>5. s \notin overtaken => Backed(w)
    <3>1. s \notin overtaken => r.by \in Admins
      BY <2>1 DEF Backed
    <3>2. RemovesAccess(r.change) => r.by # r.on
      BY <1>2
    <3>3. QED
      BY <2>2, <3>1, <3>2 DEF Backed
  <2>6. Lawful(w)
    BY <2>2 DEF Lawful
  <2>7. QED
    BY <2>1, <2>3, <2>4, <2>5, <2>6, Moves
<1>3. QED
  BY <1>1, <1>2 DEF LoadForUpdate

LEMMA CountKeeps ==
  ASSUME IInv, NEW s \in Slots, Count(s)
  PROVE  IInv'
<1>1. CASE Fails(s)
  BY <1>1, FailsKeeps
<1>2. CASE Goes(s, AfterCount(req[s].change))
  <2>1. AfterCount(req[s].change) \in {"looking", "writing"}
    BY DEF AfterCount
  <2>2. AfterCount(req[s].change) = "writing" => "email" \notin DOMAIN req[s].change
    BY DEF AfterCount
  <2>3. QED
    BY <1>2, <2>1, <2>2, UpdateMoves DEF Count
<1>3. QED
  BY <1>1, <1>2 DEF Count

LEMMA LookUpOtherKeeps ==
  ASSUME IInv, NEW s \in Slots, LookUpOther(s)
  PROVE  IInv'
<1>1. CASE Fails(s)
  BY <1>1, FailsKeeps
<1>2. CASE Matches(req[s].change["email"]) \subseteq {req[s].on} /\ Goes(s, "writing")
  <2>1. ASSUME "email" \in DOMAIN req[s].change, NEW u \in Odd \ {req[s].on}
        PROVE  Lower[users[u].email] # req[s].change["email"]
    <3>1. req[s].change["email"] \in LowerEmails
      BY <2>1, RequestFields, ChangesAssumption DEF IInv, TypeOK, LookUpOther
    <3>2. u \notin Matches(req[s].change["email"])
      BY <1>2, <2>1
    <3>3. QED
      BY <2>1, <3>1, <3>2, LowerFacts DEF Matches, Odd
  <2>2. QED
    BY <1>2, <2>1, UpdateMoves DEF LookUpOther
<1>3. QED
  BY <1>1, <1>2 DEF LookUpOther

\* What was found out stays true while no odd address is added.
LEMMA LawfulStays ==
  ASSUME Odd' \subseteq Odd, \A u \in Odd' : users'[u].email = users[u].email,
         NEW r, Lawful(r)
  PROVE  Lawful(r)'
BY DEF Lawful

LEMMA InsertUserKeeps ==
  ASSUME IInv, NEW s \in Slots, InsertUser(s)
  PROVE  IInv'
<1> USE DEF IInv
<1>1. CASE Fails(s)
  BY <1>1, FailsKeeps
<1>2. CASE ~(\E u \in Present(users) : users[u].email = req[s].row.email)
  <2> DEFINE row == req[s].row
  <2>1. /\ \E u \in UserIds :
             /\ IsNext(users, u) /\ Ends(s, [users EXCEPT ![u] = row])
             /\ raced' = IF Overlaps(s) THEN raced \cup {u} ELSE raced
        /\ UNCHANGED <<keys, issued, revoked>>
        /\ req[s].op \in {"bootstrap", "create"} /\ req[s].at = "inserting"
    BY <1>2 DEF InsertUser
  <2>2. row \in UserRows /\ row # None
    BY <2>1, RequestFields, NoneAssumption DEF TypeOK
  <2>3. PICK u \in UserIds :
          /\ users[u] = None /\ Ends(s, [users EXCEPT ![u] = row])
          /\ raced' = IF Overlaps(s) THEN raced \cup {u} ELSE raced
    BY <2>1 DEF IsNext
  <2> DEFINE after == [users EXCEPT ![u] = row]
  <2>4. /\ after \in [UserIds -> UserRows \cup {None}] /\ users' = after /\ after[u] = row
        /\ \A v \in UserIds \ {u} : after[v] = users[v]
        /\ DOMAIN users = UserIds /\ DOMAIN after = UserIds
    BY <2>2, <2>3 DEF Ends, TypeOK
  <2> HIDE DEF after
  <2>5. Present(users)' = Present(users) \cup {u} /\ u \notin Present(users)
    BY <2>2, <2>3, <2>4 DEF Present
  <2>6. KeysSound'
    BY <2>1, <2>2, <2>4 DEF KeysSound, Present, TypeOK, KeyRows
  <2>7. /\ keys' \in [KeyIds -> KeyRows \cup {None}]
        /\ issued' \in 0..MaxDigests /\ revoked' \subseteq Digests /\ raced' \subseteq UserIds
    BY <2>1 DEF TypeOK
  <2>8. /\ \A t \in Slots \ {s} : req'[t] = req[t]
        /\ users'[u] = row /\ \A v \in Present(users) : users'[v] = users[v] /\ v # u
        /\ \A v \in Present(users) : users[v].email # row.email
    BY <1>2, <2>3, <2>4, <2>5 DEF Ends, TypeOK, Present
  <2>9. Distinct' /\ \A t \in Slots \ {s} : Lawful(req[t])'
    <3>1. CASE Overlaps(s)
      <4>1. raced' = raced \cup {u}
        BY <2>3, <3>1
      <4>2. Distinct'
        BY <2>5, <2>8, <4>1 DEF Distinct
      <4>3. Odd' \subseteq Odd /\ \A v \in Odd' : users'[v].email = users[v].email
        BY <2>5, <2>8, <4>1 DEF Odd
      <4>4. QED
        BY <2>8, <4>2, <4>3 DEF Lawful
    <3>2. CASE ~Overlaps(s) /\ req[s].op = "bootstrap"
      <4>1. Present(users) = {} /\ InFlight(s) = {}
        BY <3>2 DEF Overlaps
      <4>2. Distinct'
        BY <2>5, <4>1 DEF Distinct
      <4>3. \A t \in Slots \ {s} : req'[t] = Free
        BY <2>8, <4>1 DEF InFlight
      <4>4. QED
        BY <4>2, <4>3 DEF Lawful, Free
    <3>3. CASE ~Overlaps(s) /\ req[s].op = "create"
      <4>1. /\ row.email \in LowerEmails /\ Lower[row.email] = row.email
            /\ \A v \in Odd : Lower[users[v].email] # row.email
            /\ UNCHANGED raced
        BY <2>1, <2>3, <3>3, LowerFacts DEF Lawful
      <4>2. ASSUME NEW v \in Present(users) \ raced
            PROVE  Lower[users[v].email] # Lower[row.email]
        <5>1. CASE v \in Odd
          BY <4>1, <5>1
        <5>2. CASE v \notin Odd
          BY <2>8, <4>1, <5>2, LowerFacts DEF Odd
        <5>3. QED
          BY <5>1, <5>2
      <4>3. Distinct'
        BY <2>5, <2>8, <4>1, <4>2 DEF Distinct
      <4>4. Odd' \subseteq Odd /\ \A v \in Odd' : users'[v].email = users[v].email
        BY <2>5, <2>8, <4>1 DEF Odd
      <4>5. QED
        BY <2>8, <4>3, <4>4 DEF Lawful
    <3>4. QED
      BY <2>1, <3>1, <3>2, <3>3
  <2>10. QED
    BY <2>3, <2>4, <2>6, <2>7, <2>9, EndsKeeps DEF after
<1>3. QED
  BY <1>1, <1>2 DEF InsertUser

LEMMA WriteUserKeeps ==
  ASSUME IInv, NEW s \in Slots, WriteUser(s)
  PROVE  IInv'
<1> USE DEF IInv
<1> DEFINE on == req[s].on
           d == req[s].dirty
           after == [users EXCEPT ![on] = Written(@, d)]
<1>1. CASE Fails(s)
  BY <1>1, FailsKeeps
<1>2. CASE ~Fails(s)
  <2>1. /\ req[s].op = "update" /\ req[s].at = "writing" /\ users[on] # None
        /\ "email" \in DOMAIN d => \A u \in Present(users) \ {on} : users[u].email # d["email"]
        /\ Ends(s, after) /\ UNCHANGED <<keys, issued, revoked>>
        /\ raced' = IF "email" \in DOMAIN d THEN raced \ {on} ELSE raced
    BY <1>2 DEF WriteUser
  <2>2. on \in UserIds /\ d \in Writes /\ req[s].change \in Changes
    BY <2>1, RequestFields DEF TypeOK
  <2>3. users[on] \in UserRows /\ Written(users[on], d) \in UserRows
    BY <2>1, <2>2, WrittenTyped DEF TypeOK
  <2>4. /\ after \in [UserIds -> UserRows \cup {None}] /\ users' = after
        /\ after[on] = Written(users[on], d) /\ after[on] # None
        /\ \A v \in UserIds \ {on} : after[v] = users[v]
        /\ DOMAIN users = UserIds /\ DOMAIN after = UserIds
    BY <2>1, <2>2, <2>3, NoneAssumption DEF Ends, TypeOK
  <2> HIDE DEF after
  <2>5. Present(users)' = Present(users) /\ on \in Present(users)
    BY <2>1, <2>2, <2>4 DEF Present
  <2>6. after[on].email = IF "email" \in DOMAIN d THEN d["email"] ELSE users[on].email
    BY <2>4 DEF Written
  <2>7. KeysSound'
    BY <2>1, <2>4 DEF KeysSound, Present, TypeOK, KeyRows
  <2>8. Distinct' /\ \A t \in Slots \ {s} : Lawful(req[t])'
    <3>1. \A t \in Slots \ {s} : req'[t] = req[t]
      BY <2>1 DEF Ends, TypeOK
    <3>2. CASE "email" \notin DOMAIN d
      <4>1. UNCHANGED raced /\ \A v \in Present(users) : users'[v].email = users[v].email
        BY <2>1, <2>4, <2>5, <2>6, <3>2 DEF Present
      <4>2. Distinct' /\ Odd' = Odd
        BY <2>5, <4>1 DEF Distinct, Odd
      <4>3. QED
        BY <3>1, <4>1, <4>2 DEF Lawful, Odd
    <3>3. CASE "email" \in DOMAIN d
      <4>1. /\ d["email"] \in LowerEmails /\ Lower[d["email"]] = d["email"]
            /\ \A v \in Odd \ {on} : Lower[users[v].email] # d["email"]
            /\ raced' = raced \ {on}
        BY <2>1, <2>2, <3>3, WritesTyped, LowerFacts DEF Lawful, Named
      <4>2. /\ users'[on].email = d["email"]
            /\ \A v \in Present(users) \ {on} :
                 users'[v] = users[v] /\ users[v].email # d["email"]
        BY <2>1, <2>4, <2>5, <2>6, <3>3 DEF Present
      <4>3. ASSUME NEW v \in Present(users) \ {on}, v \notin raced
            PROVE  Lower[users[v].email] # Lower[d["email"]]
        <5>1. CASE v \in Odd
          BY <4>1, <5>1
        <5>2. CASE v \notin Odd
          BY <4>1, <4>2, <4>3, <5>2, LowerFacts DEF Odd
        <5>3. QED
          BY <5>1, <5>2
      <4>4. Distinct'
        BY <2>5, <4>1, <4>2, <4>3 DEF Distinct
      <4>5. Odd' \subseteq Odd /\ \A v \in Odd' : users'[v].email = users[v].email
        BY <2>5, <4>1, <4>2 DEF Odd
      <4>6. QED
        BY <3>1, <4>4, <4>5 DEF Lawful
    <3>4. QED
      BY <3>2, <3>3
  <2>9. QED
    BY <2>1, <2>4, <2>7, <2>8, EndsKeeps DEF TypeOK, after
<1>3. QED
  BY <1>1, <1>2

LEMMA LoadForDeleteKeeps ==
  ASSUME IInv, NEW s \in Slots, LoadForDelete(s)
  PROVE  IInv'
<1> USE DEF IInv
<1> DEFINE w == [op |-> "delete", at |-> "deleting", on |-> req[s].on]
<1>1. CASE Fails(s)
  BY <1>1, FailsKeeps
<1>2. CASE MayDelete(req[s].by, req[s].on)
  <2>1. /\ req[s].op = "delete" /\ req[s].at = "loading"
        /\ req' = [req EXCEPT ![s] = w]
        /\ UNCHANGED <<users, keys, issued, revoked, overtaken, raced>>
    BY <1>2, Zenon DEF LoadForDelete
  <2>2. w \in Requests
    BY <2>1, RequestFields DEF TypeOK, Requests
  <2>3. Named(w) /\ Lawful(w)
    BY DEF Named, Lawful
  <2>4. s \notin overtaken => Backed(w)
    BY <1>2, <2>1 DEF Backed, MayDelete
  <2>5. QED
    BY <2>1, <2>2, <2>3, <2>4, Moves
<1>3. QED
  BY <1>1, <1>2 DEF LoadForDelete

LEMMA DeleteRowsKeeps ==
  ASSUME IInv, NEW s \in Slots, DeleteRows(s)
  PROVE  IInv'
<1> USE DEF IInv
<1> DEFINE u == req[s].on
           owned == {k \in Present(keys) : keys[k].owner = u}
           after == [users EXCEPT ![u] = None]
<1>1. /\ Ends(s, after)
      /\ keys' = [k \in KeyIds |-> IF k \in owned THEN None ELSE keys[k]]
      /\ revoked' = revoked \cup {keys[k].digest : k \in owned}
      /\ raced' = raced \ {u} /\ UNCHANGED issued
  BY DEF DeleteRows
<1>2. u \in UserIds
  BY RequestFields DEF DeleteRows, TypeOK
<1>3. /\ after \in [UserIds -> UserRows \cup {None}] /\ users' = after /\ after[u] = None
      /\ \A v \in UserIds \ {u} : after[v] = users[v]
      /\ DOMAIN users = UserIds /\ DOMAIN after = UserIds /\ DOMAIN keys = KeyIds
  BY <1>1, <1>2 DEF Ends, TypeOK
<1> HIDE DEF after
<1>4. /\ keys' \in [KeyIds -> KeyRows \cup {None}] /\ DOMAIN keys' = KeyIds
      /\ \A k \in KeyIds : k \in Present(keys)' <=> k \in Present(keys) /\ k \notin owned
      /\ \A k \in Present(keys)' : keys'[k] = keys[k]
  BY <1>1, <1>3 DEF TypeOK, Present
<1>5. \A k \in Present(keys) : keys[k] \in KeyRows /\ keys[k].digest \in Digests /\ k \in KeyIds
  BY DEF Present, TypeOK, KeyRows
<1>6. KeysSound'
  <2>1. revoked' \subseteq 1..issued'
    BY <1>1, <1>5 DEF KeysSound
  <2>2. ASSUME NEW k \in Present(keys)'
        PROVE  /\ keys'[k].digest \in 1..issued' /\ keys'[k].digest \notin revoked'
               /\ users'[keys'[k].owner] # None
               /\ \A j \in Present(keys)' : keys'[j].digest = keys'[k].digest => j = k
    <3>1. k \in Present(keys) /\ keys'[k] = keys[k] /\ keys[k].owner # u
      BY <1>4 DEF Present
    <3>2. keys[k].owner \in UserIds
      BY <1>5, <3>1 DEF KeyRows
    <3>3. \A j \in Present(keys)' : j \in Present(keys) /\ keys'[j] = keys[j]
      BY <1>4 DEF Present
    <3>4. QED
      BY <1>1, <1>3, <3>1, <3>2, <3>3 DEF KeysSound
  <2>3. QED
    BY <2>1, <2>2 DEF KeysSound
<1>7. issued' \in 0..MaxDigests /\ revoked' \subseteq Digests /\ raced' \subseteq UserIds
  BY <1>1, <1>5 DEF TypeOK
<1>8. Distinct' /\ \A t \in Slots \ {s} : Lawful(req[t])'
  <2>1. \A t \in Slots \ {s} : req'[t] = req[t]
    BY <1>1 DEF Ends, TypeOK
  <2>2. Present(users)' = Present(users) \ {u} /\ \A v \in Present(users)' : users'[v] = users[v]
    BY <1>2, <1>3 DEF Present
  <2>3. Distinct' /\ Odd' \subseteq Odd /\ \A v \in Odd' : users'[v].email = users[v].email
    BY <1>1, <2>2 DEF Distinct, Odd
  <2>4. QED
    BY <2>1, <2>3 DEF Lawful
<1>9. QED
  BY <1>1, <1>3, <1>4, <1>6, <1>7, <1>8, EndsKeeps

(***************************************************************************)
(* Requests about keys.                                                    *)
(***************************************************************************)
LEMMA InsertKeyKeeps ==
  ASSUME IInv, NEW s \in Slots, InsertKey(s)
  PROVE  IInv'
<1> USE DEF IInv
<1> DEFINE row == [owner |-> req[s].by, digest |-> issued + 1, active |-> TRUE]
<1>1. CASE Fails(s)
  BY <1>1, FailsKeeps
<1>2. CASE users[req[s].by] # None
  <2>1. PICK k \in KeyIds : keys[k] = None /\ keys' = [keys EXCEPT ![k] = row]
    BY <1>2 DEF InsertKey, IsNext
  <2>2. /\ Ends(s, users) /\ issued' = issued + 1 /\ issued < MaxDigests
        /\ UNCHANGED <<revoked, raced>> /\ UNCHANGED users
    BY <1>2 DEF InsertKey, Ends
  <2>3. req[s].by \in UserIds
    BY RequestFields DEF InsertKey, TypeOK
  <2>4. issued \in Nat /\ issued + 1 \in Digests /\ issued' \in 0..MaxDigests
    BY <2>2, BoundsAssumption DEF TypeOK, Digests
  <2>5. row \in KeyRows /\ row # None /\ row.owner = req[s].by /\ row.digest = issued + 1
    <3>1. row \in KeyRows
      BY <2>3, <2>4 DEF KeyRows
    <3>2. row # None
      BY <3>1, NoneAssumption
    <3>3. QED
      BY <3>1, <3>2
  <2> HIDE DEF row
  <2>6. /\ keys' \in [KeyIds -> KeyRows \cup {None}] /\ keys'[k] = row
        /\ \A j \in KeyIds \ {k} : keys'[j] = keys[j]
        /\ DOMAIN keys = KeyIds /\ DOMAIN keys' = KeyIds
    BY <2>1, <2>5 DEF TypeOK
  <2>7. Present(keys)' = Present(keys) \cup {k} /\ k \notin Present(keys)
    BY <2>1, <2>5, <2>6 DEF Present
  <2>8. \A j \in Present(keys) : keys'[j] = keys[j] /\ keys[j].digest \in 1..issued
    BY <2>6, <2>7 DEF Present, KeysSound
  <2>9. KeysSound'
    BY <1>2, <2>2, <2>4, <2>5, <2>6, <2>7, <2>8 DEF KeysSound
  <2>10. QED
    BY <2>2, <2>4, <2>6, <2>9, KeyStepKeeps DEF TypeOK
<1>3. QED
  BY <1>1, <1>2 DEF InsertKey

LEMMA LoadKeyKeeps ==
  ASSUME IInv, NEW s \in Slots, LoadKey(s)
  PROVE  IInv'
<1> USE DEF IInv
<1> DEFINE r == req[s]
           w == [op |-> r.op, at |-> "writing", on |-> r.on,
                 row |-> IF r.op = "toggle" THEN keys[r.on] ELSE None]
<1>1. CASE Fails(s)
  BY <1>1, FailsKeeps
<1>2. CASE ~Fails(s)
  <2>1. /\ r.op \in KeyOps /\ req' = [req EXCEPT ![s] = w]
        /\ UNCHANGED <<users, keys, issued, revoked, overtaken, raced>>
    BY <1>2, Zenon DEF LoadKey
  <2>2. w \in Requests
    <3>1. r.on \in KeyIds
      BY <2>1, RequestFields DEF TypeOK
    <3>2. (IF r.op = "toggle" THEN keys[r.on] ELSE None) \in KeyRows \cup {None}
      BY <3>1 DEF TypeOK
    <3>3. QED
      BY <2>1, <3>1, <3>2 DEF Requests
  <2>3. Named(w) /\ Backed(w) /\ Lawful(w)
    BY <2>1, NothingToSay DEF KeyOps
  <2>4. QED
    BY <2>1, <2>2, <2>3, Moves
<1>3. QED
  BY <1>1, <1>2

\* A key that is written keeps its owner, and its secret or has a new one.
LEMMA KeyWriteKeeps ==
  ASSUME IInv, NEW s \in Slots, NEW k \in KeyIds, keys[k] # None, NEW row \in KeyRows,
         keys' = [keys EXCEPT ![k] = row], row.owner = keys[k].owner,
         \/ row.digest = keys[k].digest /\ UNCHANGED <<issued, revoked>>
         \/ /\ row.digest = issued + 1 /\ issued' = issued + 1 /\ issued < MaxDigests
            /\ revoked' = revoked \cup {keys[k].digest},
         Ends(s, users), UNCHANGED raced
  PROVE  IInv'
<1> USE DEF IInv
<1>0. \/ row.digest = keys[k].digest /\ issued' = issued /\ revoked' = revoked
      \/ /\ row.digest = issued + 1 /\ issued' = issued + 1
         /\ revoked' = revoked \cup {keys[k].digest}
  OBVIOUS
<1>1. row # None /\ UNCHANGED users /\ issued \in Nat
  BY NoneAssumption DEF Ends, TypeOK
<1>2. /\ keys' \in [KeyIds -> KeyRows \cup {None}] /\ keys'[k] = row
      /\ \A j \in KeyIds \ {k} : keys'[j] = keys[j]
      /\ DOMAIN keys = KeyIds /\ DOMAIN keys' = KeyIds
  BY DEF TypeOK
<1>3. Present(keys)' = Present(keys) /\ k \in Present(keys)
  BY <1>1, <1>2 DEF Present
<1>4. \A j \in Present(keys) : j \in KeyIds /\ keys[j].digest \in 1..issued
  BY <1>2 DEF KeysSound, Present
<1>5. KeysSound'
  <2>1. keys[k].digest \in 1..issued /\ keys[k].digest \notin revoked /\ revoked \subseteq 1..issued
    BY <1>3 DEF KeysSound
  <2>2. ASSUME NEW j \in Present(keys)
        PROVE  /\ keys'[j].digest \in 1..issued' /\ keys'[j].digest \notin revoked'
               /\ keys'[j].owner = keys[j].owner
    <3>1. CASE j = k
      BY <1>1, <1>2, <2>1, <3>1
    <3>2. CASE j # k
      BY <1>1, <1>2, <1>3, <1>4, <2>1, <3>2 DEF KeysSound
    <3>3. QED
      BY <3>1, <3>2
  <2>3. ASSUME NEW i \in Present(keys), NEW j \in Present(keys), keys'[j].digest = keys'[i].digest
        PROVE  j = i
    <3>1. CASE i # k /\ j # k
      BY <1>2, <1>3, <1>4, <2>3, <3>1 DEF KeysSound
    <3>2. CASE row.digest = keys[k].digest
      <4>1. keys'[i].digest = keys[i].digest /\ keys'[j].digest = keys[j].digest
        BY <1>2, <1>3, <1>4, <3>2
      <4>2. QED
        BY <2>3, <4>1 DEF KeysSound
    <3>3. CASE row.digest = issued + 1 /\ (i = k \/ j = k)
      <4>1. \A h \in Present(keys) \ {k} : keys'[h].digest # issued + 1
        BY <1>1, <1>2, <1>3, <1>4
      <4>2. QED
        BY <1>2, <2>3, <3>3, <4>1
    <3>4. QED
      BY <1>0, <3>1, <3>2, <3>3
  <2>4. revoked' \subseteq 1..issued'
    <3>1. CASE issued' = issued /\ revoked' = revoked
      BY <2>1, <3>1
    <3>2. CASE issued' = issued + 1 /\ revoked' = revoked \cup {keys[k].digest}
      <4>1. 1..issued \subseteq 1..(issued + 1)
        BY <1>1
      <4>2. QED
        BY <2>1, <3>2, <4>1
    <3>3. QED
      BY <1>0, <3>1, <3>2
  <2>5. \A j \in Present(keys)' : users'[keys'[j].owner] # None
    BY <1>1, <1>3, <2>2 DEF KeysSound
  <2>6. QED
    BY <1>3, <2>2, <2>3, <2>4, <2>5 DEF KeysSound
<1>6. issued' \in 0..MaxDigests /\ revoked' \subseteq Digests
  <2>1. keys[k].digest \in Digests
    BY <1>1, <1>3, <1>4, BoundsAssumption DEF Digests, TypeOK
  <2>2. QED
    BY <1>1, <2>1, BoundsAssumption DEF TypeOK
<1>7. QED
  BY <1>2, <1>5, <1>6, KeyStepKeeps

LEMMA ToggleKeyKeeps ==
  ASSUME IInv, NEW s \in Slots, ToggleKey(s)
  PROVE  IInv'
<1> DEFINE k == req[s].on
           row == Toggled(keys[k], req[s].row)
<1>1. CASE Fails(s)
  BY <1>1, FailsKeeps
<1>2. CASE keys[k] # None
  <2>1. k \in KeyIds /\ keys[k] \in KeyRows
    BY <1>2, RequestFields DEF IInv, TypeOK, ToggleKey, KeyOps
  <2>2. /\ keys' = [keys EXCEPT ![k] = row] /\ Ends(s, users)
        /\ UNCHANGED <<issued, revoked, raced>>
    BY <1>2 DEF ToggleKey
  <2>3. row \in KeyRows /\ row.owner = keys[k].owner /\ row.digest = keys[k].digest
    BY <2>1 DEF Toggled, KeyRows
  <2>4. QED
    BY <1>2, <2>1, <2>2, <2>3, KeyWriteKeeps
<1>3. QED
  BY <1>1, <1>2 DEF ToggleKey

LEMMA RotateKeyKeeps ==
  ASSUME IInv, NEW s \in Slots, RotateKey(s)
  PROVE  IInv'
<1> DEFINE k == req[s].on
           row == [keys[k] EXCEPT !.digest = issued + 1]
<1>1. CASE Fails(s)
  BY <1>1, FailsKeeps
<1>2. CASE keys[k] # None
  <2>1. k \in KeyIds /\ keys[k] \in KeyRows
    BY <1>2, RequestFields DEF IInv, TypeOK, RotateKey, KeyOps
  <2>2. /\ keys' = [keys EXCEPT ![k] = row] /\ Ends(s, users) /\ issued < MaxDigests
        /\ issued' = issued + 1 /\ revoked' = revoked \cup {keys[k].digest}
        /\ UNCHANGED raced
    BY <1>2 DEF RotateKey
  <2>3. issued + 1 \in Digests
    BY <2>2, BoundsAssumption DEF IInv, TypeOK, Digests
  <2>4. row \in KeyRows /\ row.owner = keys[k].owner /\ row.digest = issued + 1
    BY <2>1, <2>3 DEF KeyRows
  <2>5. QED
    BY <1>2, <2>1, <2>2, <2>4, KeyWriteKeeps
<1>3. QED
  BY <1>1, <1>2 DEF RotateKey

LEMMA DeleteKeyKeeps ==
  ASSUME IInv, NEW s \in Slots, DeleteKey(s)
  PROVE  IInv'
<1> USE DEF IInv
<1> DEFINE k == req[s].on
<1>1. CASE Fails(s)
  BY <1>1, FailsKeeps
<1>2. CASE ~Fails(s)
  <2>1. /\ keys[k] # None /\ keys' = [keys EXCEPT ![k] = None]
        /\ revoked' = revoked \cup {keys[k].digest}
        /\ Ends(s, users) /\ UNCHANGED <<issued, raced>> /\ UNCHANGED users
    BY <1>2 DEF DeleteKey, Ends
  <2>2. k \in KeyIds
    BY RequestFields DEF TypeOK, DeleteKey, KeyOps
  <2>3. /\ keys' \in [KeyIds -> KeyRows \cup {None}]
        /\ DOMAIN keys = KeyIds /\ DOMAIN keys' = KeyIds
        /\ \A j \in KeyIds \ {k} : keys'[j] = keys[j]
    BY <2>1, <2>2 DEF TypeOK
  <2>4. /\ Present(keys)' = Present(keys) \ {k} /\ k \in Present(keys)
        /\ \A j \in Present(keys)' : keys'[j] = keys[j]
    BY <2>1, <2>2, <2>3 DEF Present
  <2>5. KeysSound'
    <3>1. revoked' \subseteq 1..issued'
      BY <2>1, <2>4 DEF KeysSound
    <3>2. ASSUME NEW j \in Present(keys)'
          PROVE  /\ keys'[j].digest \in 1..issued' /\ keys'[j].digest \notin revoked'
                 /\ users'[keys'[j].owner] # None
                 /\ \A i \in Present(keys)' : keys'[i].digest = keys'[j].digest => i = j
      <4>1. /\ j \in Present(keys) /\ j # k /\ keys'[j] = keys[j]
            /\ \A i \in Present(keys)' : i \in Present(keys) /\ keys'[i] = keys[i]
        BY <2>4
      <4>2. /\ keys[j].digest \in 1..issued /\ keys[j].digest \notin revoked
            /\ users[keys[j].owner] # None
            /\ \A i \in Present(keys) : keys[i].digest = keys[j].digest => i = j
        BY <4>1 DEF KeysSound
      <4>3. keys[j].digest # keys[k].digest
        BY <2>4, <4>1 DEF KeysSound
      <4>4. issued' = issued /\ users' = users /\ revoked' = revoked \cup {keys[k].digest}
        BY <2>1
      <4>5. keys[j].digest \in 1..issued' /\ keys[j].digest \notin revoked'
        BY <4>2, <4>3, <4>4, Zenon
      <4>6. /\ users'[keys[j].owner] # None
            /\ \A i \in Present(keys)' : keys'[i].digest = keys[j].digest => i = j
        BY <4>1, <4>2, <4>4, Zenon
      <4>7. QED
        BY <4>1, <4>5, <4>6, Zenon
    <3>3. QED
      BY <3>1, <3>2 DEF KeysSound
  <2>6. revoked' \subseteq Digests
    <3>1. keys[k] \in KeyRows
      BY <2>1, <2>2 DEF TypeOK
    <3>2. keys[k].digest \in Digests
      BY <3>1 DEF KeyRows
    <3>3. QED
      BY <2>1, <3>2 DEF TypeOK
  <2>7. QED
    BY <2>1, <2>3, <2>5, <2>6, KeyStepKeeps DEF TypeOK
<1>3. QED
  BY <1>1, <1>2

(***************************************************************************)
(* Results                                                                 *)
(***************************************************************************)
LEMMA InvInit == Init => IInv
<1> SUFFICES ASSUME Init PROVE IInv
  OBVIOUS
<1>1. TypeOK
  <2>1. 0 \in 0..MaxDigests
    BY BoundsAssumption
  <2>2. QED
    BY <2>1, FreeRequest DEF Init, TypeOK
<1>2. Present(users) = {} /\ Present(keys) = {}
  BY DEF Init, Present
<1>3. KeysSound /\ Distinct
  BY <1>2 DEF Init, KeysSound, Distinct
<1>4. \A s \in Slots : Named(req[s]) /\ Backed(req[s]) /\ Lawful(req[s])
  BY FreeRequest DEF Init
<1>5. QED
  BY <1>1, <1>3, <1>4 DEF IInv

LEMMA InvStep ==
  ASSUME IInv, [Next]_vars
  PROVE  IInv'
<1>1. CASE UNCHANGED vars
  BY <1>1 DEF vars, IInv, TypeOK, KeysSound, Present, Named, Backed, Admins, AdminsOf, Distinct,
              Lawful, Odd
<1>2. ASSUME NEW s \in Slots, UserStep(s)
      PROVE  IInv'
  BY <1>2, LookUpKeeps, InsertUserKeeps, LoadForUpdateKeeps, CountKeeps, LookUpOtherKeeps,
     WriteUserKeeps, LoadForDeleteKeeps, DeleteRowsKeeps DEF UserStep
<1>3. ASSUME NEW s \in Slots, KeyStep(s)
      PROVE  IInv'
  BY <1>3, InsertKeyKeeps, LoadKeyKeeps, ToggleKeyKeeps, RotateKeyKeeps, DeleteKeyKeeps DEF KeyStep
<1>4. QED
  BY <1>1, <1>2, <1>3, AskKeeps DEF Next

LEMMA Invariance == Spec => []IInv
BY InvInit, InvStep, PTL DEF Spec

\* Every variable keeps its type.
THEOREM AccountsTypeCorrect == Spec => []TypeOK
<1>1. IInv => TypeOK
  BY DEF IInv
<1>2. QED
  BY <1>1, Invariance, PTL

\* However rotations, toggles and deletions of keys and users overlap, no
\* revoked secret opens a key again and no key outlives its owner.
THEOREM SecretsStayRevoked == Spec => []KeysStayRevoked
<1>1. IInv => KeysStayRevoked
  BY DEF IInv, KeysSound, KeysStayRevoked
<1>2. QED
  BY <1>1, Invariance, PTL

\* No overlap of bootstraps, creations, changes and deletions gives two users
\* one address; two whose addresses differ in case only include one that still
\* has the address a bootstrap stored beside other requests.
THEOREM AddressesDistinct == Spec => []EmailsDistinct
<1>1. IInv => EmailsDistinct
  BY DEF IInv, Distinct, EmailsDistinct
<1>2. QED
  BY <1>1, Invariance, PTL

\* What a request writes leaves an administrator if no other request has taken
\* one away since it was authorised.
LEMMA AdminLeft ==
  ASSUME IInv, NEW s \in Slots, WriteUser(s) \/ DeleteRows(s), s \notin overtaken, Admins # {}
  PROVE  Admins' # {}
<1> USE DEF IInv
<1> DEFINE on == req[s].on
<1>1. CASE Fails(s)
  BY <1>1 DEF Fails, Ends, Admins, AdminsOf, Present
<1>2. ASSUME \E a \in Admins : a # on, \A v \in UserIds \ {on} : users'[v] = users[v],
             DOMAIN users' = UserIds
      PROVE  Admins' # {}
  BY <1>2 DEF Admins, AdminsOf, Present, TypeOK
<1>3. CASE WriteUser(s) /\ ~Fails(s)
  <2> DEFINE d == req[s].dirty
             c == req[s].change
  <2>1. /\ req[s].op = "update" /\ req[s].at = "writing" /\ users[on] # None
        /\ users' = [users EXCEPT ![on] = Written(@, d)]
    BY <1>3 DEF WriteUser, Ends
  <2>2. on \in UserIds /\ \A f \in DOMAIN d : f \in DOMAIN c /\ d[f] = c[f]
    BY <2>1, RequestFields DEF TypeOK, Named
  <2>3. /\ DOMAIN users = UserIds /\ DOMAIN users' = UserIds
        /\ users'[on] = Written(users[on], d)
        /\ \A v \in UserIds \ {on} : users'[v] = users[v]
    BY <2>1, <2>2 DEF TypeOK
  <2>4. CASE RemovesAccess(c)
    BY <1>2, <2>1, <2>3, <2>4 DEF Backed
  <2>5. CASE ~RemovesAccess(c)
    <3>1. d \in Writes /\ users[on] \in UserRows
      BY <2>1, <2>2, RequestFields DEF TypeOK
    <3>2. Written(users[on], d) \in UserRows /\ Written(users[on], d) # None
      BY <3>1, WrittenTyped, NoneAssumption
    <3>3. on \in Admins => users'[on].role = "admin" /\ users'[on].active
      BY <2>2, <2>3, <2>5 DEF RemovesAccess, Written, Admins, AdminsOf
    <3>4. Admins \subseteq Admins'
      BY <2>3, <3>2, <3>3 DEF Admins, AdminsOf, Present
    <3>5. QED
      BY <3>4
  <2>6. QED
    BY <2>4, <2>5
<1>4. CASE DeleteRows(s)
  <2>1. /\ req[s].op = "delete" /\ req[s].at = "deleting"
        /\ users' = [users EXCEPT ![on] = None]
    BY <1>4 DEF DeleteRows, Ends
  <2>2. \A v \in UserIds \ {on} : users'[v] = users[v]
    BY <2>1 DEF TypeOK
  <2>3. QED
    BY <1>2, <2>1, <2>2 DEF Backed, TypeOK
<1>5. QED
  BY <1>1, <1>3, <1>4

\* Each of the other steps keeps every administrator.
LEMMA OthersKeepAdmins ==
  ASSUME IInv, NEW s \in Slots, Asked(s) \/ UserStep(s) \/ KeyStep(s),
         ~WriteUser(s), ~DeleteRows(s)
  PROVE  Admins \subseteq Admins'
<1>1. CASE UNCHANGED users
  BY <1>1 DEF Admins, AdminsOf, Present
<1>2. CASE Asked(s)
  <2>1. UNCHANGED users
    BY <1>2 DEF Asked, Bootstrap, CreateUser, DeleteUser, UpdateUser, CreateKey, ChangeKey, Ask
  <2>2. QED
    BY <1>1, <2>1
<1>3. CASE KeyStep(s)
  <2>1. UNCHANGED users
    BY <1>3 DEF KeyStep, InsertKey, LoadKey, ToggleKey, RotateKey, DeleteKey, Fails, Ends
  <2>2. QED
    BY <1>1, <2>1
<1>4. CASE LookUp(s) \/ LoadForUpdate(s) \/ Count(s) \/ LookUpOther(s) \/ LoadForDelete(s)
  <2>1. UNCHANGED users
    BY <1>4 DEF LookUp, LoadForUpdate, Count, LookUpOther, LoadForDelete, Fails, Ends, Goes
  <2>2. QED
    BY <1>1, <2>1
<1>5. CASE InsertUser(s)
  <2>1. CASE Fails(s)
    BY <1>1, <2>1 DEF Fails, Ends
  <2>2. CASE ~Fails(s)
    <3>1. PICK u \in UserIds : users[u] = None /\ users' = [users EXCEPT ![u] = req[s].row]
      BY <1>5, <2>2 DEF InsertUser, IsNext, Ends
    <3>2. QED
      BY <3>1 DEF Admins, AdminsOf, Present, IInv, TypeOK
  <2>3. QED
    BY <2>1, <2>2
<1>6. QED
  BY <1>2, <1>3, <1>4, <1>5 DEF UserStep

\* The last administrator is only lost by a request that another one overtook,
\* for any number of requests about any number of users.
THEOREM AdminsLostTogether == Spec => NoAdminLostAlone
<1> DEFINE Lost == Admins # {} /\ Admins' = {} =>
                     \E s \in overtaken : req[s] # Free /\ req'[s] = Free
<1>1. IInv /\ [Next]_vars => [Lost]_vars
  <2> SUFFICES ASSUME IInv, Next, Admins # {}, Admins' = {}
               PROVE  \E s \in overtaken : req[s] # Free /\ req'[s] = Free
    BY DEF vars
  <2>1. PICK s \in Slots : Asked(s) \/ UserStep(s) \/ KeyStep(s)
    BY DEF Next
  <2>2. WriteUser(s) \/ DeleteRows(s)
    BY <2>1, OthersKeepAdmins
  <2>3. s \in overtaken
    BY <2>2, AdminLeft
  <2>4. req[s] # Free
    BY <2>2 DEF WriteUser, DeleteRows, Free
  <2>5. req'[s] = Free
    BY <2>2 DEF WriteUser, DeleteRows, Fails, Ends, IInv, TypeOK
  <2>6. QED
    BY <2>3, <2>4, <2>5
<1>2. QED
  BY <1>1, Invariance, PTL DEF Spec, NoAdminLostAlone
====
