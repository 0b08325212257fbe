-------------------------- MODULE ModelCacheProofs --------------------------
(***************************************************************************)
(* A harness that was forgotten stays forgotten, for any number of         *)
(* replicas, requests and lists of models.                                 *)
(***************************************************************************)
EXTENDS ModelCache, TLAPS

(***************************************************************************)
(* The inductive invariant.                                                *)
(***************************************************************************)
\* No refresh carries models beside an uninstall request that is not marked so,
\* and the cache it has emptied stays empty until it reaches the mirror.
UninstallAlone ==
  \A s \in Slots \ beside :
    work[s].op = "uninstall" /\ work[s].at = "deleting" =>
      ~Serves(work[s].on) /\ \A x \in Slots : ~Carries(x)

\* Nothing that is left could bring the models back.
NothingLeft ==
  forgotten # {} =>
    /\ onDisk = {} /\ mirror = None
    /\ \A r \in forgotten : ~Serves(r)
    /\ \A s \in Slots : ~Carries(s)

IInv == TypeOK /\ UninstallAlone /\ NothingLeft

----
LEMMA TypeInit == Init => TypeOK
BY InstallsAssumption DEF Init, TypeOK, Works

\* What a slot at work remembers.
LEMMA WorkFields ==
  ASSUME TypeOK, NEW s \in Slots
  PROVE  /\ work[s].op \in {"refresh", "uninstall", "list"} => work[s].on \in Replicas
         /\ IsAt(s, "mirroring") => work[s].models \in Lists
         /\ IsAt(s, "hydrating") => work[s].models \in Lists \cup {None}
         /\ IsAt(s, "syncing") => work[s].installed \in BOOLEAN
         /\ work[s].op = "list" => work[s].installed \in BOOLEAN
<1>1. work[s] \in Works
  BY DEF TypeOK
<1>2. QED
  BY <1>1 DEF Works, Free, IsAt

\* A slot may go on to anything it may be at.
LEMMA GoesToWork ==
  ASSUME TypeOK, NEW s \in Slots, NEW w \in Works, Goes(s, w)
  PROVE  work' \in [Slots -> Works]
BY DEF TypeOK, Goes

LEMMA TypeStep ==
  ASSUME TypeOK, [Next]_vars
  PROVE  TypeOK'
<1>0. work' \in [Slots -> Works]
  <2>1. ASSUME NEW s \in Slots, RefreshStep(s) PROVE work' \in [Slots -> Works]
    <3> DEFINE Typed == work' \in [Slots -> Works]
    <3>1. CASE Look(s) \/ DiscoverNothing(s)
      <4>1. /\ Step(s, "listing") \in Works /\ Step(s, "fetching") \in Works
        BY <3>1, WorkFields DEF Look, Found, DiscoverNothing, IsAt, Step, Works
      <4>2. QED
        BY <3>1, <4>1, GoesToWork DEF Look, Found, DiscoverNothing
    <3>2. ASSUME NEW models \in Lists, Discover(s, models) PROVE Typed
      <4>1. [op |-> "refresh", on |-> work[s].on, at |-> "mirroring", models |-> models] \in Works
        BY <3>2, WorkFields DEF Discover, IsAt, Works
      <4>2. QED
        BY <3>2, <4>1, GoesToWork DEF Discover
    <3>3. CASE Mirror(s) \/ Hydrate(s)
      <4>1. Step(s, "checking") \in Works
        BY <3>3, WorkFields DEF Mirror, Hydrate, IsAt, Step, Works
      <4>2. QED
        BY <3>3, <4>1, GoesToWork DEF Mirror, Hydrate
    <3>4. CASE Fetch(s)
      <4>1. \A copy \in {mirror, None} :
              [op |-> "refresh", on |-> work[s].on, at |-> "hydrating", models |-> copy] \in Works
        BY <3>4, WorkFields DEF Fetch, IsAt, Works, TypeOK
      <4>2. QED
        BY <3>4, <4>1, GoesToWork DEF Fetch
    <3>5. CASE Check(s)
      <4>1. [op |-> "refresh", on |-> work[s].on, at |-> "syncing",
             installed |-> work[s].on \in onDisk] \in Works
        BY <3>5, WorkFields DEF Check, IsAt, Works
      <4>2. QED
        BY <3>5, <4>1, GoesToWork DEF Check
    <3>6. CASE Sync(s)
      BY <3>6, GoesToWork DEF Sync, Works
    <3>7. QED
      BY <2>1, <3>1, <3>2, <3>3, <3>4, <3>5, <3>6 DEF RefreshStep
  <2>2. ASSUME NEW s \in Slots, DeleteMirror(s) \/ StoreRow(s) \/ Reconcile(s) \/ StoreSeen(s)
        PROVE  work' \in [Slots -> Works]
    <3>1. /\ Free \in Works
          /\ work[s].op = "uninstall" => [op |-> "uninstall", on |-> work[s].on, at |-> "storing"] \in Works
          /\ work[s].op = "list" =>
               [op |-> "list", on |-> work[s].on, installed |-> work[s].installed,
                at |-> "storing"] \in Works
      BY WorkFields DEF Works
    <3>2. QED
      BY <2>2, <3>1, GoesToWork DEF DeleteMirror, StoreRow, Reconcile, StoreSeen
  <2>3. ASSUME NEW s \in Slots, NEW r \in Replicas,
               Refresh(s, r) \/ Uninstall(s, r) \/ List(s, r) \/ Health(s, r)
        PROVE  work' \in [Slots -> Works]
    <3>1. /\ [op |-> "refresh", on |-> r, at |-> "looking"] \in Works
          /\ [op |-> "uninstall", on |-> r, at |-> "deleting"] \in Works
          /\ \A i \in BOOLEAN, at \in {"deleting", "storing"} :
               [op |-> "list", on |-> r, installed |-> i, at |-> at] \in Works
      BY DEF Works
    <3>2. ASSUME NEW w \in Works, Starts(s, w) PROVE work' \in [Slots -> Works]
      BY <3>2 DEF Starts, TypeOK
    <3>3. CASE Refresh(s, r)
      BY <3>1, <3>2, <3>3 DEF Refresh
    <3>4. CASE Uninstall(s, r)
      BY <3>1, <3>2, <3>4 DEF Uninstall
    <3>5. CASE Health(s, r)
      <4>1. (r \in onDisk) \in BOOLEAN
        OBVIOUS
      <4>2. QED
        BY <3>1, <3>2, <3>5, <4>1 DEF Health
    <3>6. CASE List(s, r)
      <4> DEFINE installed == r \in onDisk
                 drops == row # None /\ ~installed /\ Serves(r)
      <4>0. installed \in BOOLEAN
        OBVIOUS
      <4>1. CASE drops
        <5>1. Starts(s, [op |-> "list", on |-> r, installed |-> installed, at |-> "deleting"])
          BY <3>6, <4>1 DEF List
        <5>2. QED
          BY <3>1, <3>2, <4>0, <5>1
      <4>2. CASE ~drops /\ row # installed
        <5>1. Starts(s, [op |-> "list", on |-> r, installed |-> installed, at |-> "storing"])
          BY <3>6, <4>2 DEF List
        <5>2. QED
          BY <3>1, <3>2, <4>0, <5>1
      <4>3. CASE ~drops /\ row = installed
        BY <3>6, <4>3 DEF List, TypeOK
      <4>4. QED
        BY <4>1, <4>2, <4>3
    <3>7. QED
      BY <2>3, <3>3, <3>4, <3>5, <3>6
  <2>4. ASSUME NEW r \in Replicas, Restart(r) PROVE work' \in [Slots -> Works]
    <3>1. Free \in Works
      BY DEF Works
    <3>2. QED
      BY <2>4, <3>1 DEF Restart, TypeOK
  <2>5. CASE UNCHANGED work
    BY <2>5 DEF TypeOK
  <2>6. QED
    BY <2>1, <2>2, <2>3, <2>4, <2>5 DEF Next, Install, Remove, Expire, vars
<1> USE InstallsAssumption DEF TypeOK
<1>1. CASE UNCHANGED vars
  BY <1>1 DEF vars
<1>2. ASSUME NEW r \in Replicas, Install(r) \/ Remove(r) \/ Restart(r)
      PROVE  TypeOK'
  BY <1>0, <1>2 DEF Install, Remove, Restart
<1>3. CASE Expire
  BY <1>3 DEF Expire
<1>4. ASSUME NEW s \in Slots, RefreshStep(s)
      PROVE  TypeOK'
  <2>1. CASE Look(s) \/ DiscoverNothing(s) \/ Fetch(s) \/ Check(s)
    BY <1>0, <2>1 DEF Look, Found, DiscoverNothing, Fetch, Check, Of
  <2>2. CASE \E models \in Lists : Discover(s, models)
    BY <1>0, <2>2 DEF Discover
  <2>3. CASE Mirror(s)
    BY <1>0, <2>3, WorkFields DEF Mirror
  <2>4. CASE Hydrate(s)
    BY <1>0, <2>4, WorkFields DEF Hydrate
  <2>5. CASE Sync(s)
    BY <1>0, <2>5, WorkFields DEF Sync
  <2>6. QED
    BY <1>4, <2>1, <2>2, <2>3, <2>4, <2>5 DEF RefreshStep
<1>5. ASSUME NEW s \in Slots, DeleteMirror(s) \/ StoreRow(s) \/ Reconcile(s)
      PROVE  TypeOK'
  <2>1. CASE DeleteMirror(s)
    BY <1>0, <2>1, WorkFields DEF DeleteMirror
  <2>2. CASE StoreRow(s) \/ Reconcile(s)
    BY <1>0, <2>2 DEF StoreRow, Reconcile
  <2>3. QED
    BY <1>5, <2>1, <2>2
<1>6. ASSUME NEW s \in Slots, StoreSeen(s)
      PROVE  TypeOK'
  BY <1>0, <1>6, WorkFields DEF StoreSeen
<1>7. ASSUME NEW s \in Slots, NEW r \in Replicas, Refresh(s, r) \/ Uninstall(s, r)
      PROVE  TypeOK'
  BY <1>0, <1>7 DEF Refresh, Uninstall, Of
<1>8. ASSUME NEW s \in Slots, NEW r \in Replicas, List(s, r) \/ Health(s, r)
      PROVE  TypeOK'
  BY <1>0, <1>8 DEF List, Health
<1>9. QED
  BY <1>1, <1>2, <1>3, <1>4, <1>5, <1>6, <1>7, <1>8 DEF Next

(***************************************************************************)
(* Nothing comes back.                                                     *)
(***************************************************************************)
LEMMA InvInit == Init => IInv
BY TypeInit DEF Init, IInv, UninstallAlone, NothingLeft, Of, Free

LEMMA InvStep ==
  ASSUME IInv, [Next]_vars
  PROVE  IInv'
<1> USE ListsAssumption DEF IInv
<1>t. TypeOK'
  BY TypeStep
<1>s. ASSUME NEW s \in Slots, NEW w \in Works, Goes(s, w)
      PROVE  work'[s] = w /\ \A x \in Slots \ {s} : work'[x] = work[x]
  BY <1>s DEF Goes, TypeOK
<1>1. CASE UNCHANGED vars
  BY <1>1, <1>t DEF vars, UninstallAlone, NothingLeft, Of, Serves, Carries, IsAt
<1>2. ASSUME NEW r \in Replicas, Install(r) \/ Remove(r)
      PROVE  IInv'
  BY <1>2, <1>t DEF Install, Remove, UninstallAlone, NothingLeft, Of, Serves, Carries, IsAt
<1>3. CASE Expire
  BY <1>3, <1>t DEF Expire, UninstallAlone, NothingLeft, Of, Serves, Carries, IsAt
<1>4. ASSUME NEW r \in Replicas, Restart(r)
      PROVE  IInv'
  BY <1>4, <1>t DEF Restart, UninstallAlone, NothingLeft, Of, Serves, Carries, IsAt, Free, TypeOK
<1>5. ASSUME NEW s \in Slots, RefreshStep(s)
      PROVE  IInv'
  <2>1. /\ work[s].op = "refresh" /\ work[s].on \in Replicas
        /\ work'[s].op \in {"refresh", "none"}
        /\ \A x \in Slots \ {s} : work'[x] = work[x]
        /\ UNCHANGED <<onDisk, forgotten>> /\ beside \subseteq beside'
    BY <1>5, WorkFields DEF RefreshStep, Look, Found, DiscoverNothing, Discover, Mirror, Fetch,
       Hydrate, Check, Sync, IsAt, Goes, Step, Free, TypeOK
  \* Without a list, a step neither brings one to the cache or the mirror ...
  <2>2. ASSUME ~Carries(s)
        PROVE  (\A r \in Replicas : Serves(r)' => Serves(r)) /\ UNCHANGED mirror
    <3>1. ~(\E models \in Lists : Discover(s, models)) /\ ~Mirror(s) /\ ~DiscoverNothing(s)
      BY <2>2 DEF Carries, Discover, Mirror, DiscoverNothing, IsAt
    <3>2. CASE Look(s) \/ Fetch(s) \/ Check(s) \/ Sync(s)
      BY <3>2 DEF Look, Found, Fetch, Check, Sync, Serves
    <3>3. CASE Hydrate(s)
      BY <2>1, <2>2, <3>3 DEF Hydrate, Carries, Serves, IsAt, TypeOK
    <3>4. QED
      BY <1>5, <3>1, <3>2, <3>3 DEF RefreshStep
  \* ... nor gets hold of one, unless it finds the executable or the mirror.
  <2>3. ASSUME ~Carries(s), Carries(s)'
        PROVE  (onDisk # {} \/ mirror # None) /\ beside' = beside \cup Of("uninstall")
    <3>1. ~(\E models \in Lists : Discover(s, models)) /\ ~Mirror(s) /\ ~DiscoverNothing(s)
      BY <2>3 DEF Carries, Discover, Mirror, DiscoverNothing, IsAt
    <3>2. CASE Hydrate(s) \/ Check(s) \/ Sync(s)
      BY <2>3, <3>2 DEF Hydrate, Check, Sync, Carries, IsAt, Goes, Step, Free, TypeOK
    <3>3. CASE Look(s)
      BY <2>1, <2>3, <3>3 DEF Look, Found, Carries, IsAt, Goes, Step, TypeOK
    <3>4. CASE Fetch(s)
      BY <2>3, <3>4 DEF Fetch, Carries, IsAt, Goes, TypeOK
    <3>5. QED
      BY <1>5, <3>1, <3>2, <3>3, <3>4 DEF RefreshStep
  <2>4. \A x \in Slots : ~Carries(x) /\ x # s => ~Carries(x)'
    BY <2>1 DEF Carries, IsAt
  <2>5. UninstallAlone'
    <3> SUFFICES ASSUME NEW x \in Slots \ beside',
                        work'[x].op = "uninstall", work'[x].at = "deleting"
                 PROVE  ~Serves(work[x].on)' /\ \A y \in Slots : ~Carries(y)'
      BY DEF UninstallAlone
    <3>1. x # s /\ work'[x] = work[x] /\ x \in Slots \ beside
      BY <2>1
    <3>2. ~Serves(work[x].on) /\ work[x].on \in Replicas /\ \A y \in Slots : ~Carries(y)
      BY <3>1, WorkFields DEF UninstallAlone
    <3>3. ~Carries(s)'
      BY <2>3, <3>1, <3>2 DEF Of
    <3>4. ~Serves(work[x].on)'
      BY <2>2, <3>1, <3>2 DEF Serves
    <3>5. QED
      BY <2>4, <3>2, <3>3, <3>4
  <2>6. NothingLeft'
    <3> SUFFICES ASSUME forgotten # {}
                 PROVE  NothingLeft'
      BY <2>1 DEF NothingLeft
    <3>1. /\ onDisk = {} /\ mirror = None /\ \A r \in forgotten : ~Serves(r)
          /\ \A x \in Slots : ~Carries(x)
      BY DEF NothingLeft
    <3>2. ~Carries(s)' /\ mirror' = None
      BY <2>2, <2>3, <3>1
    <3>3. \A r \in forgotten : ~Serves(r)'
      BY <2>2, <3>1 DEF TypeOK
    <3>4. QED
      BY <2>1, <2>4, <3>1, <3>2, <3>3 DEF NothingLeft, Serves
  <2>7. QED
    BY <1>t, <2>5, <2>6
<1>6. ASSUME NEW s \in Slots, DeleteMirror(s)
      PROVE  IInv'
  <2>1. /\ work[s].op = "uninstall" /\ work[s].at = "deleting"
        /\ work'[s].op = "uninstall" /\ work'[s].at = "storing"
        /\ \A x \in Slots \ {s} : work'[x] = work[x]
        /\ UNCHANGED <<onDisk, cache, beside>>
    BY <1>6 DEF DeleteMirror, Goes, TypeOK
  <2>c. \A x \in Slots : Carries(x)' <=> Carries(x)
    BY <2>1 DEF Carries, IsAt
  <2>2. UninstallAlone'
    BY <2>1, <2>c DEF UninstallAlone, Serves
  <2>3. NothingLeft'
    <3>1. CASE forgotten' = forgotten /\ mirror' \in {mirror, None}
      BY <2>1, <2>c, <3>1 DEF NothingLeft, Serves
    <3>2. CASE s \notin beside /\ onDisk = {} /\ mirror' = None
               /\ forgotten' = forgotten \cup {work[s].on}
      <4>1. ~Serves(work[s].on) /\ \A x \in Slots : ~Carries(x)
        BY <2>1, <3>2 DEF UninstallAlone
      <4>2. \A r \in forgotten : ~Serves(r)
        BY DEF NothingLeft
      <4>3. QED
        BY <2>1, <2>c, <3>2, <4>1, <4>2 DEF NothingLeft, Serves
    <3>3. QED
      BY <1>6, <3>1, <3>2 DEF DeleteMirror
  <2>4. QED
    BY <1>t, <2>2, <2>3
<1>7. ASSUME NEW s \in Slots, StoreRow(s)
      PROVE  IInv'
  BY <1>7, <1>t DEF StoreRow, Goes, UninstallAlone, NothingLeft, Of, Serves, Carries, IsAt, Free,
                    TypeOK
<1>8. ASSUME NEW s \in Slots, Reconcile(s) \/ StoreSeen(s)
      PROVE  IInv'
  BY <1>8, <1>t DEF Reconcile, StoreSeen, Goes, UninstallAlone, NothingLeft, Of, Serves,
                    Carries, IsAt, Free, TypeOK
<1>9. ASSUME NEW s \in Slots, NEW r \in Replicas, Refresh(s, r)
      PROVE  IInv'
  BY <1>9, <1>t DEF Refresh, Starts, UninstallAlone, NothingLeft, Of, Serves, Carries, IsAt, Free,
                    TypeOK
<1>10. ASSUME NEW s \in Slots, NEW r \in Replicas, Uninstall(s, r)
       PROVE  IInv'
  BY <1>10, <1>t DEF Uninstall, Starts, UninstallAlone, NothingLeft, Of, Serves, Carries, IsAt,
                     Free, TypeOK
<1>11. ASSUME NEW s \in Slots, NEW r \in Replicas, List(s, r) \/ Health(s, r)
       PROVE  IInv'
  <2>1. \A x \in Slots : work'[x] = work[x] \/ (work[x] = Free /\ work'[x].op = "list")
    <3>1. \/ UNCHANGED work
          \/ \E at \in {"deleting", "storing"} :
               Starts(s, [op |-> "list", on |-> r, installed |-> r \in onDisk, at |-> at])
      <4>1. CASE List(s, r)
        <5>1. CASE row # None /\ r \notin onDisk /\ Serves(r)
          BY <4>1, <5>1, Zenon DEF List
        <5>2. CASE ~(row # None /\ r \notin onDisk /\ Serves(r)) /\ row # (r \in onDisk)
          BY <4>1, <5>2, Zenon DEF List
        <5>3. CASE ~(row # None /\ r \notin onDisk /\ Serves(r)) /\ row = (r \in onDisk)
          BY <4>1, <5>3, Zenon DEF List
        <5>4. QED
          BY <5>1, <5>2, <5>3
      <4>2. CASE Health(s, r)
        BY <4>2 DEF Health
      <4>3. QED
        BY <1>11, <4>1, <4>2
    <3>2. ASSUME NEW at, NEW i,
                 Starts(s, [op |-> "list", on |-> r, installed |-> i, at |-> at])
          PROVE  work[s] = Free /\ work'[s].op = "list" /\ \A x \in Slots \ {s} : work'[x] = work[x]
      BY <3>2 DEF Starts, TypeOK
    <3>3. \/ UNCHANGED work
          \/ /\ work[s] = Free /\ work'[s].op = "list"
             /\ \A x \in Slots \ {s} : work'[x] = work[x]
      BY <3>1, <3>2, Zenon
    <3>4. QED
      BY <3>3
  <2>2. UNCHANGED <<onDisk, mirror, beside, forgotten>>
    BY <1>11 DEF List, Health
  <2>3. \A x \in Replicas : Serves(x)' => Serves(x)
    BY <1>11 DEF List, Health, Serves, TypeOK
  <2>4. \A x \in Slots : work[x].op = "uninstall" => work[x].on \in Replicas
    BY WorkFields
  <2>c. \A x \in Slots : Carries(x)' => Carries(x)
    BY <2>1 DEF Carries, IsAt
  <2>5. UninstallAlone'
    BY <2>1, <2>2, <2>3, <2>4, <2>c DEF UninstallAlone, Serves
  <2>6. NothingLeft'
    BY <2>1, <2>2, <2>3, <2>c DEF NothingLeft, TypeOK
  <2>7. QED
    BY <1>t, <2>5, <2>6
<1>12. QED
  BY <1>1, <1>2, <1>3, <1>4, <1>5, <1>6, <1>7, <1>8, <1>9, <1>10, <1>11 DEF Next

(***************************************************************************)
(* Results                                                                 *)
(***************************************************************************)
LEMMA Invariance == Spec => []IInv
<1>1. IInv /\ [Next]_vars => IInv'
  BY InvStep
<1>2. QED
  BY <1>1, InvInit, PTL DEF Spec

\* Every variable keeps its type.
THEOREM CacheTypeCorrect == Spec => []TypeOK
<1>1. TypeOK /\ [Next]_vars => TypeOK'
  BY TypeStep
<1>2. QED
  BY <1>1, TypeInit, PTL DEF Spec

\* When an uninstall request has deleted the mirror beside no refresh that
\* carried models, and no machine has the harness, it is not served again where
\* it was forgotten and the mirror stays empty until the next installation, for
\* any refreshes, under way or to come, listings, checks, failures and restarts
\* on any number of replicas.
THEOREM CacheForgets == Spec => []ForgottenStaysForgotten
<1>1. IInv => ForgottenStaysForgotten
  BY DEF IInv, NothingLeft, ForgottenStaysForgotten
<1>2. QED
  BY <1>1, Invariance, PTL
====
