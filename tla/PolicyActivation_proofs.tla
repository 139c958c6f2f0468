----------------------- MODULE PolicyActivation_proofs -----------------------
(***************************************************************************)
(* Proofs about PolicyActivation for any number of requests, versions,     *)
(* rollbacks, workspaces and areas, and any decisions.                     *)
(***************************************************************************)
EXTENDS PolicyActivation, TLAPS

\* A version refers to a request that exists, a rollback to a request that exists
\* and a version created for it.
RecordsKnown ==
  /\ \A v \in Versions : versions[v] # None => requests[versions[v].request] # None
  /\ \A b \in Rollbacks : rollbacks[b] # None =>
       /\ requests[rollbacks[b].request] # None
       /\ rollbacks[b].version # None =>
            /\ versions[rollbacks[b].version] # None
            /\ versions[rollbacks[b].version].request = rollbacks[b].request

Names(p, v) == pointer[p] # None /\ v \in {pointer[p].active, pointer[p].previous}

\* A version becomes ready once, when it is created, unless by hand; so it is
\* activated at one place at most, and while it is ready at none yet.
ActivatedOnce ==
  \A v \in Versions \ byHand :
    /\ \A p, q \in Places : Names(p, v) /\ Names(q, v) => p = q
    /\ versions[v] # None /\ versions[v].status = "ready_for_activation"
         => \A p \in Places : ~Names(p, v)

PolicyInv ==
  /\ TypeOK /\ RecordsKnown /\ PointersWereApproved
  /\ PointerIsActive /\ ActiveIsInUse /\ ActivatedOnce

\* What a step leaves of the requests, and of the versions.
RequestsStay ==
  \A q \in Requests : requests[q] # None =>
    requests'[q] # None /\ requests'[q].workspace = requests[q].workspace
VersionsStay ==
  \A w \in Versions : versions[w] # None =>
    /\ versions'[w] # None /\ versions'[w].area = versions[w].area
    /\ versions'[w].request = versions[w].request

\* Setting a status changes neither which requests exist nor their shape.
LEMMA RequestSet ==
  ASSUME TypeOK, NEW r \in Requests, Requested(r), NEW s \in RequestStatuses, SetRequest(r, s)
  PROVE  requests' \in [Requests -> Request \cup {None}] /\ RequestsStay
<1>1. requests[r] \in Request
  BY DEF TypeOK, Requested
<1>2. /\ [requests[r] EXCEPT !.status = s] \in Request
      /\ [requests[r] EXCEPT !.status = s].workspace = requests[r].workspace
  BY <1>1 DEF Request
<1>3. requests' = [requests EXCEPT ![r] = [requests[r] EXCEPT !.status = s]]
  BY DEF SetRequest
<1>4. [requests[r] EXCEPT !.status = s] # None
  BY <1>2, PolicyAssumption
<1> QED
  BY <1>2, <1>3, <1>4 DEF TypeOK, RequestsStay

\* The same of the rollback requests.
LEMMA RollbackSet ==
  ASSUME TypeOK, NEW b \in Rollbacks, RolledBackAsked(b),
         NEW s \in RollbackStatuses, SetRollback(b, s)
  PROVE  /\ rollbacks' \in [Rollbacks -> Rollback \cup {None}]
         /\ \A c \in Rollbacks :
              rollbacks'[c] # None =>
                /\ rollbacks[c] # None
                /\ rollbacks'[c].request = rollbacks[c].request
                /\ rollbacks'[c].version = rollbacks[c].version
<1>1. rollbacks[b] \in Rollback
  BY DEF TypeOK, RolledBackAsked
<1>2. [rollbacks[b] EXCEPT !.status = s] \in Rollback
  BY <1>1 DEF Rollback
<1>3. rollbacks' = [rollbacks EXCEPT ![b] = [rollbacks[b] EXCEPT !.status = s]]
  BY DEF SetRollback
<1>4. /\ [rollbacks[b] EXCEPT !.status = s].request = rollbacks[b].request
      /\ [rollbacks[b] EXCEPT !.status = s].version = rollbacks[b].version
  BY <1>1 DEF Rollback
<1> QED
  BY <1>1, <1>2, <1>3, <1>4, PolicyAssumption DEF TypeOK, RolledBackAsked

\* The steps that leave the versions, the pointers and the histories alone.
Quiet ==
  \/ \E r \in Requests :
       \/ \E w \in Workspaces, a \in Areas : CreateRequest(r, w, a)
       \/ \E passed \in BOOLEAN : EvaluatePreconditions(r, passed)
       \/ CreateGate(r) \/ Archive(r)
       \/ \E status \in RequestDecisions, w \in Workspaces : Decide(r, status, w)
  \/ \E b \in Rollbacks :
       \/ \E r \in Requests, v \in Versions \cup {None} : CreateRollbackRequest(b, r, v)
       \/ CreateRollbackGate(b) \/ VerifyRollback(b)
       \/ \E status \in RollbackDecisions, w \in Workspaces : DecideRollback(b, status, w)

LEMMA QuietFrame ==
  ASSUME Quiet
  PROVE  /\ UNCHANGED <<versions, pointer, byHand, late, executions>>
         /\ approvals \subseteq approvals'
<1>1. CASE \E r \in Requests :
             \/ \E w \in Workspaces, a \in Areas : CreateRequest(r, w, a)
             \/ \E passed \in BOOLEAN : EvaluatePreconditions(r, passed)
             \/ CreateGate(r) \/ Archive(r)
             \/ \E status \in RequestDecisions, w \in Workspaces : Decide(r, status, w)
  BY <1>1 DEF CreateRequest, EvaluatePreconditions, CreateGate, Archive, Decide
<1>2. CASE \E b \in Rollbacks :
             \/ \E r \in Requests, v \in Versions \cup {None} : CreateRollbackRequest(b, r, v)
             \/ CreateRollbackGate(b) \/ VerifyRollback(b)
             \/ \E status \in RollbackDecisions, w \in Workspaces : DecideRollback(b, status, w)
  BY <1>2 DEF CreateRollbackRequest, CreateRollbackGate, VerifyRollback, DecideRollback
<1> QED
  BY <1>1, <1>2 DEF Quiet

\* Replacing one version by another that exists.
LEMMA ReplacedVersions ==
  ASSUME TypeOK, NEW v \in Versions, versions[v] # None, NEW u, NEW s \in VersionStatuses,
         u \in Versions => versions[u] # None
  PROVE  /\ Replaced(u, s, v) \in [Versions -> Version \cup {None}]
         /\ \A w \in Versions :
              /\ Replaced(u, s, v)[w] = None <=> versions[w] = None
              /\ versions[w] # None => /\ Replaced(u, s, v)[w].area = versions[w].area
                                     /\ Replaced(u, s, v)[w].request = versions[w].request
         /\ Replaced(u, s, v)[v].status = "active"
         /\ u \in Versions \ {v} => Replaced(u, s, v)[u].status = s
         /\ \A w \in Versions \ {u, v} : Replaced(u, s, v)[w] = versions[w]
<1>1. \A w \in Versions, t \in VersionStatuses :
        versions[w] # None =>
          /\ [versions[w] EXCEPT !.status = t] \in Version
          /\ [versions[w] EXCEPT !.status = t].area = versions[w].area
          /\ [versions[w] EXCEPT !.status = t].request = versions[w].request
          /\ [versions[w] EXCEPT !.status = t].status = t
  BY DEF TypeOK, Version
<1>2. "active" \in VersionStatuses
  BY DEF VersionStatuses
<1>3. None \notin Version
  BY PolicyAssumption
<1>4. \A w \in Versions :
        Replaced(u, s, v)[w] = IF w = v THEN [versions[w] EXCEPT !.status = "active"]
                               ELSE IF w = u THEN [versions[w] EXCEPT !.status = s]
                               ELSE versions[w]
  BY DEF Replaced
<1>5. \A w \in Versions :
        /\ Replaced(u, s, v)[w] \in Version \cup {None}
        /\ Replaced(u, s, v)[w] = None <=> versions[w] = None
        /\ versions[w] # None => /\ Replaced(u, s, v)[w].area = versions[w].area
                                     /\ Replaced(u, s, v)[w].request = versions[w].request
  <2> SUFFICES ASSUME NEW w \in Versions
               PROVE  /\ Replaced(u, s, v)[w] \in Version \cup {None}
                      /\ Replaced(u, s, v)[w] = None <=> versions[w] = None
                      /\ versions[w] # None => /\ Replaced(u, s, v)[w].area = versions[w].area
                                     /\ Replaced(u, s, v)[w].request = versions[w].request
    OBVIOUS
  <2>1. CASE w = v
    <3>1. Replaced(u, s, v)[w] = [versions[w] EXCEPT !.status = "active"] /\ versions[w] # None
      BY <1>4, <2>1
    <3>2. /\ [versions[w] EXCEPT !.status = "active"] \in Version
          /\ [versions[w] EXCEPT !.status = "active"].area = versions[w].area
          /\ [versions[w] EXCEPT !.status = "active"].request = versions[w].request
      BY <1>1, <1>2, <3>1
    <3> QED
      BY <1>3, <3>1, <3>2
  <2>2. CASE w # v /\ w = u
    <3>1. Replaced(u, s, v)[w] = [versions[w] EXCEPT !.status = s] /\ versions[w] # None
      BY <1>4, <2>2
    <3>2. /\ [versions[w] EXCEPT !.status = s] \in Version
          /\ [versions[w] EXCEPT !.status = s].area = versions[w].area
          /\ [versions[w] EXCEPT !.status = s].request = versions[w].request
      BY <1>1, <3>1
    <3> QED
      BY <1>3, <3>1, <3>2
  <2>3. CASE w # v /\ w # u
    BY <1>4, <2>3 DEF TypeOK
  <2> QED
    BY <2>1, <2>2, <2>3
<1>6. Replaced(u, s, v) \in [Versions -> Version \cup {None}]
  BY <1>5 DEF Replaced
<1>7. Replaced(u, s, v)[v].status = "active"
  <2>1. Replaced(u, s, v)[v] = [versions[v] EXCEPT !.status = "active"]
    BY <1>4
  <2>2. [versions[v] EXCEPT !.status = "active"].status = "active"
    BY <1>1, <1>2
  <2> QED
    BY <2>1, <2>2
<1>8. u \in Versions \ {v} => Replaced(u, s, v)[u].status = s
  <2> SUFFICES ASSUME u \in Versions \ {v}
               PROVE  Replaced(u, s, v)[u].status = s
    OBVIOUS
  <2>1. Replaced(u, s, v)[u] = [versions[u] EXCEPT !.status = s]
    BY <1>4
  <2>2. [versions[u] EXCEPT !.status = s].status = s
    BY <1>1
  <2> QED
    BY <2>1, <2>2
<1>9. \A w \in Versions \ {u, v} : Replaced(u, s, v)[w] = versions[w]
  BY <1>4
<1> QED
  BY <1>5, <1>6, <1>7, <1>8, <1>9

\* The versions a pointer names exist and are of its area.
LEMMA PointedVersions ==
  ASSUME TypeOK, PointersWereApproved, NEW p \in Places, pointer[p] # None
  PROVE  /\ pointer[p] \in Pointer
         /\ \A v \in {pointer[p].active, pointer[p].previous} :
              v \in Versions \cup {None} /\ (v # None => versions[v] # None /\ versions[v].area = p[2])
<1>1. pointer[p] \in Pointer
  BY DEF TypeOK
<1>2. ASSUME NEW v \in Versions, ActivatedAt(v, p) PROVE versions[v].area = p[2]
  BY <1>2 DEF ActivatedAt
<1> QED
  BY <1>1, <1>2 DEF PointersWereApproved, Pointer

\* Of the version in use at a place.
LEMMA InUseKnown ==
  ASSUME TypeOK, PointersWereApproved, NEW p \in Places
  PROVE  /\ InUse(p) \in Versions \cup {None}
         /\ InUse(p) # None => /\ InUse(p) \in Versions /\ versions[InUse(p)] # None
                               /\ versions[InUse(p)].area = p[2] /\ Names(p, InUse(p))
<1>1. CASE pointer[p] = None
  BY <1>1 DEF InUse
<1>2. CASE pointer[p] # None
  BY <1>2, PointedVersions DEF InUse, Names
<1> QED
  BY <1>1, <1>2

LEMMA PlaceExists ==
  ASSUME TypeOK, NEW r \in Requests, requests[r] # None, NEW v \in Versions, versions[v] # None
  PROVE  /\ PlaceOf(r, v) \in Places
         /\ PlaceOf(r, v)[1] = WorkspaceOf(r) /\ PlaceOf(r, v)[2] = versions[v].area
<1>1. requests[r].workspace \in Workspaces /\ versions[v].area \in Areas
  BY DEF TypeOK, Request, Version
<1> QED
  BY <1>1 DEF PlaceOf, WorkspaceOf, Places

LEMMA VersionSet ==
  ASSUME TypeOK, NEW v \in Versions, versions[v] # None, NEW s \in VersionStatuses,
         versions' = [versions EXCEPT ![v].status = s]
  PROVE  /\ versions' \in [Versions -> Version \cup {None}] /\ VersionsStay
         /\ versions'[v].status = s
         /\ \A w \in Versions \ {v} : versions'[w] = versions[w]
<1>1. versions[v] \in Version
  BY DEF TypeOK
<1>2. /\ [versions[v] EXCEPT !.status = s] \in Version
      /\ [versions[v] EXCEPT !.status = s].area = versions[v].area
      /\ [versions[v] EXCEPT !.status = s].request = versions[v].request
      /\ [versions[v] EXCEPT !.status = s].status = s
  BY <1>1 DEF Version
<1>3. versions' = [versions EXCEPT ![v] = [versions[v] EXCEPT !.status = s]]
  OBVIOUS
<1> QED
  BY <1>2, <1>3, PolicyAssumption DEF TypeOK, VersionsStay

\* What an activation does to the version, the one it replaces and the pointer.
LEMMA ActivationEffect ==
  ASSUME PolicyInv, NEW r \in Requests, NEW v \in Versions, ExecuteActivation(r, v)
  PROVE  LET p == PlaceOf(r, v)
         IN  /\ versions' \in [Versions -> Version \cup {None}] /\ VersionsStay
             /\ p \in Places /\ InUse(p) \in Versions \cup {None}
             /\ InUse(p) # None => versions[InUse(p)] # None
             /\ pointer' = [pointer EXCEPT ![p] = [active |-> v, previous |-> InUse(p)]]
             /\ versions'[v].status = "active"
             /\ InUse(p) \in Versions \ {v} => versions'[InUse(p)].status = "superseded"
             /\ \A w \in Versions \ {InUse(p), v} : versions'[w] = versions[w]
<1> DEFINE p == PlaceOf(r, v)
<1>1. TypeOK /\ PointersWereApproved /\ versions[v] # None /\ requests[r] # None
  BY DEF PolicyInv, ExecuteActivation, Requested
<1>2. p \in Places
  BY <1>1, PlaceExists
<1>3. versions' = Replaced(InUse(p), "superseded", v)
      /\ pointer' = [pointer EXCEPT ![p] = [active |-> v, previous |-> InUse(p)]]
  BY DEF ExecuteActivation
<1> HIDE DEF p
<1>4. InUse(p) \in Versions \cup {None} /\ (InUse(p) # None => versions[InUse(p)] # None)
  BY <1>1, <1>2, InUseKnown
<1>5. "superseded" \in VersionStatuses /\ None \notin Versions
  BY PolicyAssumption DEF VersionStatuses
<1>6. InUse(p) \in Versions => versions[InUse(p)] # None
  BY <1>4, <1>5
<1>7. /\ versions' \in [Versions -> Version \cup {None}]
      /\ \A w \in Versions :
              /\ versions'[w] = None <=> versions[w] = None
              /\ versions[w] # None => /\ versions'[w].area = versions[w].area
                                       /\ versions'[w].request = versions[w].request
      /\ versions'[v].status = "active"
      /\ InUse(p) \in Versions \ {v} => versions'[InUse(p)].status = "superseded"
      /\ \A w \in Versions \ {InUse(p), v} : versions'[w] = versions[w]
  BY <1>1, <1>3, <1>5, <1>6, ReplacedVersions
<1>8. VersionsStay
  BY <1>7 DEF VersionsStay
<1> QED
  BY <1>2, <1>3, <1>4, <1>7, <1>8 DEF p

\* What a rollback does to the version, the one that comes back and the pointer.
LEMMA RollBackEffect ==
  ASSUME PolicyInv, NEW v \in Versions, versions[v] # None, NEW p \in Places, RollBack(v, p)
  PROVE  LET t == pointer[p].previous
         IN  /\ versions' \in [Versions -> Version \cup {None}] /\ VersionsStay
             /\ \/ /\ pointer[p] = None /\ UNCHANGED <<pointer, late>>
                   /\ versions'[v].status = "rolled_back"
                   /\ \A w \in Versions \ {v} : versions'[w] = versions[w]
                \/ /\ pointer[p] # None
                   /\ t \in Versions \cup {None}
                   /\ t # None => versions[t] # None /\ versions'[t].status = "active"
                   /\ v # t => versions'[v].status = "rolled_back"
                   /\ \A w \in Versions \ {v, t} : versions'[w] = versions[w]
                   /\ pointer' = [pointer EXCEPT
                        ![p] = [active |-> t, previous |-> pointer[p].active]]
                   /\ late' = IF pointer[p].active = v THEN late ELSE late \cup {p}
<1> DEFINE t == pointer[p].previous
<1>1. TypeOK /\ PointersWereApproved /\ "rolled_back" \in VersionStatuses
  BY DEF PolicyInv, VersionStatuses
<1>2. CASE pointer[p] = None
  <2>1. versions' = [versions EXCEPT ![v].status = "rolled_back"] /\ UNCHANGED <<pointer, late>>
    BY <1>2 DEF RollBack
  <2> QED
    BY <1>1, <1>2, <2>1, VersionSet
<1>3. CASE pointer[p] # None
  <2>1. t \in Versions \cup {None} /\ (t # None => versions[t] # None)
    BY <1>1, <1>3, PointedVersions
  <2>2. /\ versions' = IF t = None THEN [versions EXCEPT ![v].status = "rolled_back"]
                       ELSE Replaced(v, "rolled_back", t)
        /\ pointer' = [pointer EXCEPT ![p] = [active |-> t, previous |-> pointer[p].active]]
        /\ late' = IF pointer[p].active = v THEN late ELSE late \cup {p}
    BY <1>3 DEF RollBack
  <2>3. CASE t = None
    <3>1. versions' = [versions EXCEPT ![v].status = "rolled_back"]
      BY <2>2, <2>3
    <3>2. /\ versions' \in [Versions -> Version \cup {None}] /\ VersionsStay
          /\ versions'[v].status = "rolled_back"
          /\ \A w \in Versions \ {v} : versions'[w] = versions[w]
      BY <1>1, <3>1, VersionSet
    <3> QED
      BY <1>3, <2>2, <2>3, <3>2
  <2>4. CASE t # None
    <3>1. t \in Versions /\ versions[t] # None /\ versions' = Replaced(v, "rolled_back", t)
      BY <2>1, <2>2, <2>4
    <3> HIDE DEF t
    <3>2. /\ versions' \in [Versions -> Version \cup {None}]
          /\ \A w \in Versions :
                  /\ versions'[w] = None <=> versions[w] = None
                  /\ versions[w] # None => /\ versions'[w].area = versions[w].area
                                           /\ versions'[w].request = versions[w].request
          /\ versions'[t].status = "active"
          /\ v # t => versions'[v].status = "rolled_back"
          /\ \A w \in Versions \ {v, t} : versions'[w] = versions[w]
      BY <1>1, <3>1, ReplacedVersions
    <3>3. VersionsStay
      BY <3>2 DEF VersionsStay
    <3> QED
      BY <1>3, <2>1, <2>2, <3>2, <3>3 DEF t
  <2> QED
    BY <2>3, <2>4
<1> QED
  BY <1>2, <1>3

\* A rollback executed with a version rolls that one back, at its place in the
\* workspace that asked for it, which is the one the version was created in.
LEMMA ExecuteRollbackEffect ==
  ASSUME PolicyInv, NEW b \in Rollbacks, ExecuteRollback(b)
  PROVE  LET v == rollbacks[b].version
             p == PlaceOf(rollbacks[b].request, v)
         IN  /\ rollbacks[b] \in Rollback
             /\ requests[rollbacks[b].request] # None
             /\ \/ v = None /\ UNCHANGED <<versions, pointer, late>>
                \/ /\ v \in Versions /\ versions[v] # None
                   /\ p \in Places /\ p[1] = Home(v) /\ p[2] = versions[v].area
                   /\ RollBack(v, p)
             /\ UNCHANGED <<gates, approvals, byHand>> /\ executions \subseteq executions'
<1> DEFINE v == rollbacks[b].version
           r == rollbacks[b].request
<1>1. rollbacks[b] \in Rollback /\ rollbacks[b] # None /\ r \in Requests /\ v \in Versions \cup {None}
  BY DEF PolicyInv, TypeOK, ExecuteRollback, RolledBackAsked, Rollback
<1>2. requests[r] # None
  BY <1>1 DEF PolicyInv, RecordsKnown
<1>3. UNCHANGED <<gates, approvals, byHand>> /\ executions \subseteq executions'
  BY DEF ExecuteRollback
<1>4. CASE v = None
  BY <1>1, <1>2, <1>3, <1>4 DEF ExecuteRollback
<1>5. CASE v # None
  <2>1. v \in Versions /\ versions[v] # None /\ versions[v].request = r
    BY <1>1, <1>5 DEF PolicyInv, RecordsKnown
  <2>2. RollBack(v, PlaceOf(r, v))
    BY <1>5 DEF ExecuteRollback
  <2> HIDE DEF v, r
  <2>3. /\ PlaceOf(r, v) \in Places
        /\ PlaceOf(r, v)[1] = Home(v) /\ PlaceOf(r, v)[2] = versions[v].area
    BY <1>1, <1>2, <2>1, PlaceExists DEF PolicyInv, Home
  <2> QED
    BY <1>1, <1>2, <1>3, <2>1, <2>2, <2>3 DEF v, r
<1> QED
  BY <1>4, <1>5

LEMMA TypePreserved ==
  ASSUME PolicyInv, [Next]_vars
  PROVE  TypeOK'
<1> USE DEF PolicyInv
<1>1. ASSUME NEW r \in Requests, NEW w \in Workspaces, NEW a \in Areas, CreateRequest(r, w, a)
      PROVE  TypeOK'
  <2>1. [workspace |-> w, area |-> a, status |-> "preconditions_pending"] \in Request
    BY DEF Request, RequestStatuses
  <2> QED
    BY <1>1, <2>1 DEF CreateRequest, TypeOK
<1>2. ASSUME NEW r \in Requests, NEW passed \in BOOLEAN, EvaluatePreconditions(r, passed)
      PROVE  TypeOK'
  <2> DEFINE s == IF passed THEN "ready_for_activation_review" ELSE "preconditions_failed"
  <2>1. s \in RequestStatuses /\ Requested(r) /\ SetRequest(r, s)
    BY <1>2 DEF EvaluatePreconditions, RequestStatuses
  <2>2. requests' \in [Requests -> Request \cup {None}]
    BY <2>1, RequestSet
  <2> QED
    BY <1>2, <2>2 DEF EvaluatePreconditions, TypeOK
<1>3. ASSUME NEW r \in Requests, CreateGate(r) PROVE TypeOK'
  <2>1. /\ "activation_review_required" \in RequestStatuses
        /\ Requested(r) /\ SetRequest(r, "activation_review_required")
    BY <1>3 DEF CreateGate, RequestStatuses
  <2>2. requests' \in [Requests -> Request \cup {None}]
    BY <2>1, RequestSet
  <2> QED
    BY <1>3, <2>2 DEF CreateGate, TypeOK
<1>4. ASSUME NEW r \in Requests, NEW s \in RequestDecisions, NEW w \in Workspaces,
             Decide(r, s, w)
      PROVE  TypeOK'
  <2>1. s \in RequestStatuses /\ Requested(r) /\ SetRequest(r, s)
    BY <1>4, PolicyAssumption DEF Decide, RequestStatuses
  <2>2. requests' \in [Requests -> Request \cup {None}]
    BY <2>1, RequestSet
  <2> QED
    BY <1>4, <2>2 DEF Decide, TypeOK
<1>5. ASSUME NEW r \in Requests, Archive(r) PROVE TypeOK'
  <2>1. "archived" \in RequestStatuses /\ Requested(r) /\ SetRequest(r, "archived")
    BY <1>5 DEF Archive, RequestStatuses
  <2>2. requests' \in [Requests -> Request \cup {None}]
    BY <2>1, RequestSet
  <2> QED
    BY <1>5, <2>2 DEF Archive, TypeOK
<1>6. ASSUME NEW r \in Requests, NEW v \in Versions, CreateVersion(v, r) PROVE TypeOK'
  <2>1. requests[r] \in Request
    BY <1>6 DEF CreateVersion, Requested, TypeOK
  <2>2. [request |-> r, area |-> requests[r].area, status |-> "ready_for_activation"] \in Version
    BY <2>1 DEF Request, Version, VersionStatuses
  <2> QED
    BY <1>6, <2>2 DEF CreateVersion, TypeOK
<1>7. ASSUME NEW r \in Requests, NEW v \in Versions, ExecuteActivation(r, v) PROVE TypeOK'
  <2>1. PICK p \in Places :
          /\ p = PlaceOf(r, v) /\ InUse(p) \in Versions \cup {None}
          /\ pointer' = [pointer EXCEPT ![p] = [active |-> v, previous |-> InUse(p)]]
    BY <1>7, ActivationEffect
  <2>2. [active |-> v, previous |-> InUse(p)] \in Pointer
    BY <2>1 DEF Pointer
  <2>3. StatusIn(p) \in RequestStatuses /\ Requested(r) /\ SetRequest(r, StatusIn(p))
    BY <1>7, <2>1 DEF ExecuteActivation, StatusIn, RequestStatuses
  <2>4. requests' \in [Requests -> Request \cup {None}]
    BY <2>3, RequestSet
  <2>5. pointer' \in [Places -> Pointer \cup {None}]
    BY <2>1, <2>2 DEF TypeOK
  <2>6. /\ UNCHANGED <<rollbacks, gates, approvals, byHand, late>>
        /\ executions' = executions \cup {<<r, v>>}
    BY <1>7 DEF ExecuteActivation
  <2>7. versions' \in [Versions -> Version \cup {None}]
    BY <1>7, ActivationEffect
  <2> QED
    BY <2>4, <2>5, <2>6, <2>7 DEF TypeOK
<1>8. ASSUME NEW v \in Versions, NEW s \in HandStatuses, SetVersionStatus(v, s) PROVE TypeOK'
  <2>1. s \in VersionStatuses /\ versions[v] # None
        /\ versions' = [versions EXCEPT ![v].status = s]
    BY <1>8, PolicyAssumption DEF SetVersionStatus
  <2>2. versions' \in [Versions -> Version \cup {None}]
    BY <2>1, VersionSet
  <2> QED
    BY <1>8, <2>2 DEF SetVersionStatus, TypeOK
<1>9. ASSUME NEW b \in Rollbacks, NEW r \in Requests, NEW v \in Versions \cup {None},
             CreateRollbackRequest(b, r, v)
      PROVE  TypeOK'
  <2>1. /\ "rollback_requested" \in RequestStatuses
        /\ Requested(r) /\ SetRequest(r, "rollback_requested")
    BY <1>9 DEF CreateRollbackRequest, RequestStatuses
  <2>2. requests' \in [Requests -> Request \cup {None}]
    BY <2>1, RequestSet
  <2>3. [request |-> r, version |-> v, status |-> "rollback_review_required"] \in Rollback
    BY DEF Rollback, RollbackStatuses
  <2> QED
    BY <1>9, <2>2, <2>3 DEF CreateRollbackRequest, TypeOK
<1>10. ASSUME NEW b \in Rollbacks, CreateRollbackGate(b) PROVE TypeOK'
  BY <1>10 DEF CreateRollbackGate, TypeOK
<1>11. ASSUME NEW b \in Rollbacks, ExecuteRollback(b) PROVE TypeOK'
  <2> DEFINE v == rollbacks[b].version
  <2>1. rollbacks[b] \in Rollback /\ requests[rollbacks[b].request] # None
    BY <1>11, ExecuteRollbackEffect
  <2>2. /\ rollbacks[b].request \in Requests
        /\ "rolled_back" \in RequestStatuses /\ "verification_pending" \in RollbackStatuses
        /\ Requested(rollbacks[b].request) /\ SetRequest(rollbacks[b].request, "rolled_back")
        /\ RolledBackAsked(b) /\ SetRollback(b, "verification_pending")
    BY <1>11, <2>1 DEF ExecuteRollback, Requested, Rollback, RequestStatuses, RollbackStatuses
  <2>3. requests' \in [Requests -> Request \cup {None}]
    BY <2>2, RequestSet
  <2>4. rollbacks' \in [Rollbacks -> Rollback \cup {None}]
    BY <2>2, RollbackSet
  <2>5. /\ versions' \in [Versions -> Version \cup {None}]
        /\ pointer' \in [Places -> Pointer \cup {None}]
        /\ late' \subseteq Places
    <3>1. CASE v = None /\ UNCHANGED <<versions, pointer, late>>
      BY <3>1 DEF TypeOK
    <3>2. ASSUME NEW p \in Places, v \in Versions, versions[v] # None, RollBack(v, p)
          PROVE  /\ versions' \in [Versions -> Version \cup {None}]
                 /\ pointer' \in [Places -> Pointer \cup {None}]
                 /\ late' \subseteq Places
      <4> DEFINE t == pointer[p].previous
      <4> HIDE DEF v
      <4>1. versions' \in [Versions -> Version \cup {None}]
        BY <3>2, RollBackEffect
      <4>2. CASE UNCHANGED <<pointer, late>>
        BY <4>1, <4>2 DEF TypeOK
      <4>3. CASE /\ pointer[p] # None /\ t \in Versions \cup {None}
                 /\ pointer' = [pointer EXCEPT ![p] = [active |-> t, previous |-> pointer[p].active]]
                 /\ late' = IF pointer[p].active = v THEN late ELSE late \cup {p}
        <5>1. pointer[p] \in Pointer
          BY <4>3 DEF TypeOK
        <5>2. [active |-> t, previous |-> pointer[p].active] \in Pointer
          BY <4>3, <5>1 DEF Pointer
        <5> QED
          BY <4>1, <4>3, <5>2 DEF TypeOK
      <4> QED
        BY <3>2, <4>2, <4>3, RollBackEffect
    <3> QED
      BY <1>11, <3>1, <3>2, ExecuteRollbackEffect
  <2>6. UNCHANGED <<gates, approvals, byHand>> /\ executions' = executions \cup {<<b, v>>}
    BY <1>11 DEF ExecuteRollback
  <2>7. v \in Versions \cup {None}
    BY <2>1 DEF Rollback
  <2> QED
    BY <2>3, <2>4, <2>5, <2>6, <2>7 DEF TypeOK
<1>12. ASSUME NEW b \in Rollbacks, VerifyRollback(b) PROVE TypeOK'
  <2> DEFINE s == IF IsRolledBack(rollbacks[b].version) THEN "verified" ELSE "rollback_failed"
  <2>1. s \in RollbackStatuses /\ RolledBackAsked(b) /\ SetRollback(b, s)
    BY <1>12 DEF VerifyRollback, RollbackStatuses
  <2>2. rollbacks' \in [Rollbacks -> Rollback \cup {None}]
    BY <2>1, RollbackSet
  <2> QED
    BY <1>12, <2>2 DEF VerifyRollback, TypeOK
<1>13. ASSUME NEW b \in Rollbacks, NEW s \in RollbackDecisions, NEW w \in Workspaces,
              DecideRollback(b, s, w)
       PROVE  TypeOK'
  <2>1. s \in RollbackStatuses /\ RolledBackAsked(b) /\ SetRollback(b, s)
    BY <1>13, PolicyAssumption DEF DecideRollback, RollbackStatuses
  <2>2. rollbacks' \in [Rollbacks -> Rollback \cup {None}]
    BY <2>1, RollbackSet
  <2> QED
    BY <1>13, <2>2 DEF DecideRollback, TypeOK
<1>14. CASE UNCHANGED vars
  BY <1>14 DEF vars, TypeOK
<1> QED
  BY <1>1, <1>2, <1>3, <1>4, <1>5, <1>6, <1>7, <1>8, <1>9, <1>10, <1>11, <1>12, <1>13, <1>14
     DEF Next

\* The steps one by one, those that leave the versions alone taken together.
LEMMA NextCases ==
  ASSUME [Next]_vars
  PROVE  \/ Quiet
         \/ \E r \in Requests, v \in Versions : CreateVersion(v, r) \/ ExecuteActivation(r, v)
         \/ \E v \in Versions, s \in HandStatuses : SetVersionStatus(v, s)
         \/ \E b \in Rollbacks : ExecuteRollback(b)
         \/ UNCHANGED vars
BY DEF Next, Quiet

\* Requests and versions are never removed, and neither changes hands.
LEMMA RecordsStay ==
  ASSUME PolicyInv, [Next]_vars
  PROVE  VersionsStay /\ RequestsStay
<1> USE DEF PolicyInv
<1>1. ASSUME \A w \in Versions : versions[w] # None => versions'[w] = versions[w]
      PROVE  VersionsStay
  BY <1>1 DEF VersionsStay
<1>2. ASSUME NEW r \in Requests, NEW s \in RequestStatuses, Requested(r), SetRequest(r, s)
      PROVE  RequestsStay
  BY <1>2, RequestSet
<1>3. ASSUME NEW r \in Requests, NEW w \in Workspaces, NEW a \in Areas, CreateRequest(r, w, a)
      PROVE  RequestsStay
  BY <1>3 DEF CreateRequest, Requested, TypeOK, RequestsStay
<1>4. CASE Quiet
  <2>1. VersionsStay
    BY <1>1, <1>4, QuietFrame
  <2>2. ASSUME NEW r \in Requests,
               \/ \E passed \in BOOLEAN : EvaluatePreconditions(r, passed)
               \/ CreateGate(r) \/ Archive(r)
               \/ \E status \in RequestDecisions, w \in Workspaces : Decide(r, status, w)
        PROVE  \E s \in RequestStatuses : Requested(r) /\ SetRequest(r, s)
    BY <2>2, PolicyAssumption
       DEF EvaluatePreconditions, CreateGate, Archive, Decide, RequestStatuses
  <2>3. ASSUME NEW b \in Rollbacks,
               \/ \E r \in Requests, v \in Versions \cup {None} : CreateRollbackRequest(b, r, v)
               \/ CreateRollbackGate(b) \/ VerifyRollback(b)
               \/ \E status \in RollbackDecisions, w \in Workspaces : DecideRollback(b, status, w)
        PROVE  \/ UNCHANGED requests
               \/ \E r \in Requests, s \in RequestStatuses : Requested(r) /\ SetRequest(r, s)
    BY <2>3 DEF CreateRollbackRequest, CreateRollbackGate, VerifyRollback, DecideRollback,
                RequestStatuses
  <2>4. UNCHANGED requests => RequestsStay
    BY DEF RequestsStay
  <2> QED
    BY <1>2, <1>3, <1>4, <2>1, <2>2, <2>3, <2>4 DEF Quiet
<1>5. ASSUME NEW r \in Requests, NEW v \in Versions, CreateVersion(v, r)
      PROVE  VersionsStay /\ RequestsStay
  BY <1>1, <1>5 DEF CreateVersion, TypeOK, RequestsStay
<1>6. ASSUME NEW v \in Versions, NEW s \in HandStatuses, SetVersionStatus(v, s)
      PROVE  VersionsStay /\ RequestsStay
  BY <1>6, VersionSet, PolicyAssumption DEF SetVersionStatus, RequestsStay
<1>7. ASSUME NEW r \in Requests, NEW v \in Versions, ExecuteActivation(r, v)
      PROVE  VersionsStay /\ RequestsStay
  <2>1. VersionsStay
    BY <1>7, ActivationEffect
  <2>2. \E s \in RequestStatuses : Requested(r) /\ SetRequest(r, s)
    BY <1>7 DEF ExecuteActivation, StatusIn, RequestStatuses
  <2> QED
    BY <1>2, <2>1, <2>2
<1>8. ASSUME NEW b \in Rollbacks, ExecuteRollback(b)
      PROVE  VersionsStay /\ RequestsStay
  <2>1. VersionsStay
    BY <1>1, <1>8, ExecuteRollbackEffect, RollBackEffect
  <2>2. rollbacks[b].request \in Requests /\ Requested(rollbacks[b].request)
    BY <1>8, ExecuteRollbackEffect DEF Rollback, Requested
  <2>3. \E s \in RequestStatuses : SetRequest(rollbacks[b].request, s)
    BY <1>8 DEF ExecuteRollback, RequestStatuses
  <2> QED
    BY <1>2, <2>1, <2>2, <2>3
<1>9. CASE UNCHANGED vars
  BY <1>1, <1>9 DEF vars, RequestsStay
<1> QED
  BY <1>4, <1>5, <1>6, <1>7, <1>8, <1>9 DEF Next, Quiet

LEMMA RecordsKnownPreserved ==
  ASSUME PolicyInv, [Next]_vars
  PROVE  RecordsKnown'
<1> DEFINE KnownRollback(c) == rollbacks'[c] # None =>
             /\ requests'[rollbacks'[c].request] # None
             /\ rollbacks'[c].version # None =>
                  /\ versions'[rollbacks'[c].version] # None
                  /\ versions'[rollbacks'[c].version].request = rollbacks'[c].request
<1> USE DEF PolicyInv
<1>1. VersionsStay /\ RequestsStay
  BY RecordsStay
<1>2. ASSUME NEW c \in Rollbacks,
             rollbacks'[c] # None => /\ rollbacks[c] # None
                                     /\ rollbacks'[c].request = rollbacks[c].request
                                     /\ rollbacks'[c].version = rollbacks[c].version
      PROVE  KnownRollback(c)
  <2>1. rollbacks[c] # None => rollbacks[c] \in Rollback
    BY DEF TypeOK
  <2> QED
    BY <1>1, <1>2, <2>1 DEF RecordsKnown, VersionsStay, RequestsStay, Rollback
<1>3. ASSUME NEW b \in Rollbacks, NEW s \in RollbackStatuses, RolledBackAsked(b), SetRollback(b, s)
      PROVE  \A c \in Rollbacks : KnownRollback(c)
  BY <1>2, <1>3, RollbackSet
<1>4. ASSUME NEW b \in Rollbacks, NEW r \in Requests, NEW v \in Versions \cup {None},
             CreateRollbackRequest(b, r, v)
      PROVE  \A c \in Rollbacks : KnownRollback(c)
  <2>1. v # None => v \in Versions /\ versions[v] # None /\ versions[v].request = r
    BY <1>4 DEF CreateRollbackRequest, ActiveVersions
  <2>2. v # None => versions'[v] # None /\ versions'[v].request = r
    BY <1>1, <2>1 DEF VersionsStay
  <2>3. requests'[r] # None
    BY <1>1, <1>4 DEF CreateRollbackRequest, Requested, RequestsStay
  <2>4. rollbacks' = [rollbacks EXCEPT
          ![b] = [request |-> r, version |-> v, status |-> "rollback_review_required"]]
    BY <1>4 DEF CreateRollbackRequest
  <2>5. /\ rollbacks'[b].request = r /\ rollbacks'[b].version = v
        /\ \A c \in Rollbacks \ {b} : rollbacks'[c] = rollbacks[c]
    BY <2>4 DEF TypeOK
  <2>6. KnownRollback(b)
    BY <2>2, <2>3, <2>5
  <2> QED
    BY <1>2, <2>5, <2>6
<1>5. ASSUME NEW r \in Requests,
             \/ \E w \in Workspaces, a \in Areas : CreateRequest(r, w, a)
             \/ \E passed \in BOOLEAN : EvaluatePreconditions(r, passed)
             \/ CreateGate(r) \/ Archive(r)
             \/ \E status \in RequestDecisions, w \in Workspaces : Decide(r, status, w)
             \/ \E v \in Versions : CreateVersion(v, r) \/ ExecuteActivation(r, v)
      PROVE  UNCHANGED rollbacks
  BY <1>5 DEF CreateRequest, EvaluatePreconditions, CreateGate, Archive, Decide,
              CreateVersion, ExecuteActivation
<1>6. ASSUME NEW b \in Rollbacks,
             \/ ExecuteRollback(b) \/ VerifyRollback(b)
             \/ \E status \in RollbackDecisions, w \in Workspaces : DecideRollback(b, status, w)
      PROVE  \E s \in RollbackStatuses : RolledBackAsked(b) /\ SetRollback(b, s)
  BY <1>6, PolicyAssumption DEF ExecuteRollback, VerifyRollback, DecideRollback, RollbackStatuses
<1>7. ASSUME NEW b \in Rollbacks, CreateRollbackGate(b) PROVE UNCHANGED rollbacks
  BY <1>7 DEF CreateRollbackGate
<1>8. ASSUME NEW v \in Versions, NEW s \in HandStatuses, SetVersionStatus(v, s)
      PROVE  UNCHANGED rollbacks
  BY <1>8 DEF SetVersionStatus
<1>9. UNCHANGED vars => UNCHANGED rollbacks
  BY DEF vars
<1>10. ASSUME UNCHANGED rollbacks PROVE \A c \in Rollbacks : KnownRollback(c)
  BY <1>2, <1>10
<1>11. \A c \in Rollbacks : KnownRollback(c)
  <2> HIDE DEF KnownRollback
  <2> QED
    BY <1>3, <1>4, <1>5, <1>6, <1>7, <1>8, <1>9, <1>10 DEF Next
<1>12. ASSUME NEW w \in Versions, versions[w] # None
       PROVE  requests'[versions'[w].request] # None
  <2>1. versions[w].request \in Requests
    BY <1>12 DEF TypeOK, Version
  <2> QED
    BY <1>1, <1>12, <2>1 DEF RecordsKnown, VersionsStay, RequestsStay
<1>13. ASSUME NEW w \in Versions, versions[w] = None, versions'[w] # None
       PROVE  requests'[versions'[w].request] # None
  <2>1. \E r \in Requests : CreateVersion(w, r)
    <3>1. ASSUME UNCHANGED versions PROVE FALSE
      BY <1>13, <3>1
    <3>2. ASSUME NEW r \in Requests, NEW v \in Versions, CreateVersion(v, r) PROVE v = w
      BY <1>13, <3>2 DEF CreateVersion, TypeOK
    <3>3. ASSUME NEW v \in Versions, NEW s \in HandStatuses, SetVersionStatus(v, s) PROVE FALSE
      BY <1>13, <3>3 DEF SetVersionStatus, TypeOK
    <3>4. ASSUME NEW r \in Requests, NEW v \in Versions, ExecuteActivation(r, v) PROVE FALSE
      <4>1. PICK u \in Versions \cup {None} :
              /\ u # None => versions[u] # None
              /\ \A x \in Versions \ {u, v} : versions'[x] = versions[x]
        BY <3>4, ActivationEffect
      <4>2. versions[v] # None
        BY <3>4 DEF ExecuteActivation
      <4> QED
        BY <1>13, <4>1, <4>2, PolicyAssumption
    <3>5. ASSUME NEW b \in Rollbacks, ExecuteRollback(b) PROVE FALSE
      <4>1. ASSUME NEW v \in Versions, versions[v] # None, NEW p \in Places, RollBack(v, p)
            PROVE  FALSE
        BY <1>13, <4>1, RollBackEffect, PolicyAssumption
      <4> QED
        BY <3>1, <3>5, <4>1, ExecuteRollbackEffect
    <3> QED
      BY <3>1, <3>2, <3>3, <3>4, <3>5, NextCases, QuietFrame DEF vars
  <2>2. PICK r \in Requests : CreateVersion(w, r)
    BY <2>1
  <2>3. versions'[w].request = r /\ requests'[r] # None
    BY <1>1, <2>2 DEF CreateVersion, TypeOK, Requested, RequestsStay
  <2> QED
    BY <2>3
<1> QED
  BY <1>11, <1>12, <1>13 DEF RecordsKnown

\* Once activated at a place, always.
LEMMA ActivationsStay ==
  ASSUME PolicyInv, [Next]_vars, NEW v \in Versions, versions[v] # None, NEW p \in Places,
         ActivatedAt(v, p)
  PROVE  ActivatedAt(v, p)'
<1>1. PICK r \in Requests \cap approvals :
        Requested(r) /\ <<r, v>> \in executions /\ p = <<WorkspaceOf(r), versions[v].area>>
  BY DEF ActivatedAt
<1>2. VersionsStay /\ RequestsStay
  BY RecordsStay
<1>3. requests'[r] # None /\ requests'[r].workspace = requests[r].workspace
      /\ versions'[v].area = versions[v].area
  BY <1>1, <1>2 DEF Requested, RequestsStay, VersionsStay
<1>4. approvals \subseteq approvals' /\ executions \subseteq executions'
  <2>1. ASSUME NEW q \in Requests, NEW w \in Versions,
               CreateVersion(w, q) \/ ExecuteActivation(q, w)
        PROVE  approvals \subseteq approvals' /\ executions \subseteq executions'
    BY <2>1 DEF CreateVersion, ExecuteActivation
  <2>2. ASSUME NEW w \in Versions, NEW s \in HandStatuses, SetVersionStatus(w, s)
        PROVE  approvals \subseteq approvals' /\ executions \subseteq executions'
    BY <2>2 DEF SetVersionStatus
  <2>3. ASSUME NEW b \in Rollbacks, ExecuteRollback(b)
        PROVE  approvals \subseteq approvals' /\ executions \subseteq executions'
    BY <2>3 DEF ExecuteRollback
  <2>4. UNCHANGED vars => approvals \subseteq approvals' /\ executions \subseteq executions'
    BY DEF vars
  <2> QED
    BY <2>1, <2>2, <2>3, <2>4, NextCases, QuietFrame
<1> QED
  BY <1>1, <1>3, <1>4 DEF ActivatedAt, Requested, WorkspaceOf

\* What an execution puts in use was activated there by it.
LEMMA ExecutedIsActivated ==
  ASSUME PolicyInv, [Next]_vars, NEW r \in Requests, NEW v \in Versions, ExecuteActivation(r, v),
         NEW p \in Places, p = PlaceOf(r, v)
  PROVE  versions'[v] # None /\ ActivatedAt(v, p)'
<1>1. /\ r \in approvals' /\ <<r, v>> \in executions'
      /\ versions[v] # None /\ requests[r] # None
  BY DEF ExecuteActivation, Requested
<1>2. VersionsStay /\ RequestsStay
  BY RecordsStay
<1>3. /\ requests'[r] # None /\ requests'[r].workspace = requests[r].workspace
      /\ versions'[v] # None /\ versions'[v].area = versions[v].area
  BY <1>1, <1>2 DEF RequestsStay, VersionsStay
<1> QED
  BY <1>1, <1>3 DEF ActivatedAt, PlaceOf, Requested, WorkspaceOf

\* Which versions a pointer names after an activation, and after a rollback.
LEMMA PointerSet ==
  ASSUME TypeOK, NEW p \in Places, NEW x \in Versions \cup {None}, NEW y \in Versions \cup {None},
         pointer' = [pointer EXCEPT ![p] = [active |-> x, previous |-> y]]
  PROVE  /\ pointer'[p] # None /\ pointer'[p].active = x /\ pointer'[p].previous = y
         /\ InUse(p)' = x
         /\ \A q \in Places \ {p} : pointer'[q] = pointer[q] /\ InUse(q)' = InUse(q)
<1>1. [active |-> x, previous |-> y] \in Pointer
  BY DEF Pointer
<1>2. /\ pointer'[p] # None /\ pointer'[p].active = x /\ pointer'[p].previous = y
      /\ \A q \in Places \ {p} : pointer'[q] = pointer[q]
  BY <1>1, PolicyAssumption DEF TypeOK
<1> QED
  BY <1>2 DEF InUse

\* No step makes a pointer name a version that it did not name and that was not
\* just activated there.
LEMMA NewNames ==
  ASSUME PolicyInv, [Next]_vars, NEW p \in Places, NEW v \in Versions, Names(p, v)',
         ~Names(p, v)
  PROVE  \E r \in Requests : ExecuteActivation(r, v) /\ p = PlaceOf(r, v)
<1> USE DEF PolicyInv
<1>1. pointer'[p] # pointer[p]
  BY DEF Names
<1>2. ASSUME UNCHANGED pointer PROVE FALSE
  BY <1>1, <1>2
<1>3. ASSUME NEW r \in Requests, NEW w \in Versions, ExecuteActivation(r, w)
      PROVE  w = v /\ p = PlaceOf(r, v)
  <2>1. PICK q \in Places, u \in Versions \cup {None} :
          /\ q = PlaceOf(r, w) /\ u = InUse(q)
          /\ pointer' = [pointer EXCEPT ![q] = [active |-> w, previous |-> u]]
    BY <1>3, ActivationEffect
  <2>2. q = p
    BY <1>1, <2>1, PointerSet
  <2>3. v \in {w, u}
    BY <2>1, <2>2, PointerSet DEF Names
  <2>4. u = v => Names(p, v)
    BY <2>1, <2>2, InUseKnown, PolicyAssumption DEF Names, InUse
  <2> QED
    BY <2>1, <2>2, <2>3, <2>4
<1>4. ASSUME NEW w \in Versions, versions[w] # None, NEW q \in Places, RollBack(w, q)
      PROVE  FALSE
  <2>1. PICK t \in {pointer[q].previous} :
          \/ UNCHANGED pointer
          \/ /\ pointer[q] # None /\ t \in Versions \cup {None}
             /\ pointer' = [pointer EXCEPT ![q] = [active |-> t, previous |-> pointer[q].active]]
    BY <1>4, RollBackEffect
  <2>2. pointer[q] # None => pointer[q].active \in Versions \cup {None}
    BY PointedVersions
  <2>3. CASE /\ pointer[q] # None /\ t \in Versions \cup {None}
             /\ pointer' = [pointer EXCEPT ![q] = [active |-> t, previous |-> pointer[q].active]]
    <3>1. q = p
      BY <1>1, <2>2, <2>3, PointerSet
    <3> QED
      BY <2>1, <2>2, <2>3, <3>1, PointerSet DEF Names
  <2> QED
    BY <1>2, <2>1, <2>3
<1>5. ASSUME NEW b \in Rollbacks, ExecuteRollback(b) PROVE FALSE
  BY <1>2, <1>4, <1>5, ExecuteRollbackEffect
<1>6. ASSUME NEW r \in Requests, NEW w \in Versions, CreateVersion(w, r) PROVE FALSE
  BY <1>2, <1>6 DEF CreateVersion
<1>7. ASSUME NEW w \in Versions, NEW s \in HandStatuses, SetVersionStatus(w, s) PROVE FALSE
  BY <1>2, <1>7 DEF SetVersionStatus
<1> QED
  BY <1>2, <1>3, <1>5, <1>6, <1>7, NextCases, QuietFrame DEF vars

LEMMA PointersPreserved ==
  ASSUME PolicyInv, [Next]_vars
  PROVE  PointersWereApproved'
<1> USE DEF PolicyInv
<1>1. TypeOK'
  BY TypePreserved
<1>2. ASSUME NEW p \in Places, NEW v \in Versions, Names(p, v)'
      PROVE  versions'[v] # None /\ ActivatedAt(v, p)'
  <2>1. CASE Names(p, v)
    <3>1. versions[v] # None /\ ActivatedAt(v, p)
      BY <2>1, PolicyAssumption DEF Names, PointersWereApproved, TypeOK, Pointer
    <3>2. versions'[v] # None
      BY <3>1, RecordsStay DEF VersionsStay
    <3> QED
      BY <3>1, <3>2, ActivationsStay
  <2>2. CASE ~Names(p, v)
    <3>1. PICK r \in Requests : ExecuteActivation(r, v) /\ p = PlaceOf(r, v)
      BY <1>2, <2>2, NewNames
    <3> QED
      BY <3>1, ExecutedIsActivated
  <2> QED
    BY <2>1, <2>2
<1>3. ASSUME NEW p \in Places, pointer'[p] # None,
             NEW v \in {pointer'[p].active, pointer'[p].previous} \ {None}
      PROVE  v \in Versions /\ Names(p, v)'
  BY <1>1, <1>3 DEF TypeOK, Pointer, Names
<1> QED
  BY <1>2, <1>3 DEF PointersWereApproved
\* What a step that is not one of a person does to a version that exists.
LEMMA VersionSteps ==
  ASSUME PolicyInv, [Next]_vars
  PROVE  /\ byHand \subseteq byHand'
         /\ \A v \in Versions \ byHand' : versions[v] # None =>
              \/ versions'[v] = versions[v]
              \/ versions'[v].status \in {"active", "superseded", "rolled_back"}
<1> DEFINE Step(v) == \/ versions'[v] = versions[v]
                      \/ versions'[v].status \in {"active", "superseded", "rolled_back"}
<1>1. ASSUME NEW r \in Requests, NEW w \in Versions, CreateVersion(w, r)
      PROVE  byHand' = byHand /\ \A v \in Versions : versions[v] # None => Step(v)
  BY <1>1 DEF CreateVersion, PolicyInv, TypeOK
<1>2. ASSUME NEW r \in Requests, NEW w \in Versions, ExecuteActivation(r, w)
      PROVE  byHand' = byHand /\ \A v \in Versions : Step(v)
  <2>1. PICK u \in Versions \cup {None} :
          /\ versions'[w].status = "active"
          /\ u \in Versions \ {w} => versions'[u].status = "superseded"
          /\ \A x \in Versions \ {u, w} : versions'[x] = versions[x]
    BY <1>2, ActivationEffect
  <2> QED
    BY <1>2, <2>1 DEF ExecuteActivation
<1>3. ASSUME NEW w \in Versions, NEW s \in HandStatuses, SetVersionStatus(w, s)
      PROVE  byHand' = byHand \cup {w} /\ \A v \in Versions \ {w} : Step(v)
  BY <1>3 DEF SetVersionStatus, PolicyInv, TypeOK
<1>4. ASSUME NEW w \in Versions, versions[w] # None, NEW p \in Places, RollBack(w, p)
      PROVE  \A v \in Versions : Step(v)
  <2>1. PICK t \in {pointer[p].previous} :
          \/ /\ versions'[w].status = "rolled_back"
             /\ \A x \in Versions \ {w} : versions'[x] = versions[x]
          \/ /\ t \in Versions => versions'[t].status = "active"
             /\ w # t => versions'[w].status = "rolled_back"
             /\ \A x \in Versions \ {w, t} : versions'[x] = versions[x]
    BY <1>4, RollBackEffect, PolicyAssumption
  <2> QED
    BY <2>1
<1>5. ASSUME NEW b \in Rollbacks, ExecuteRollback(b)
      PROVE  byHand' = byHand /\ \A v \in Versions : Step(v)
  <2>1. CASE UNCHANGED versions
    BY <1>5, <2>1, ExecuteRollbackEffect
  <2> HIDE DEF Step
  <2> QED
    BY <1>4, <1>5, <2>1, ExecuteRollbackEffect
<1>6. UNCHANGED <<versions, byHand>> => byHand' = byHand /\ \A v \in Versions : Step(v)
  OBVIOUS
<1> HIDE DEF Step
<1>7. byHand \subseteq byHand' /\ \A v \in Versions \ byHand' : versions[v] # None => Step(v)
  BY <1>1, <1>2, <1>3, <1>5, <1>6, NextCases, QuietFrame DEF vars
<1> QED
  BY <1>7 DEF Step

\* A version keeps the workspace it was created in.
LEMMA HomesStay ==
  ASSUME PolicyInv, [Next]_vars, NEW v \in Versions, versions[v] # None
  PROVE  Home(v)' = Home(v)
<1>1. versions[v].request \in Requests /\ requests[versions[v].request] # None
  BY DEF PolicyInv, TypeOK, RecordsKnown, Version
<1>2. /\ versions'[v].request = versions[v].request
      /\ requests'[versions[v].request].workspace = requests[versions[v].request].workspace
  BY <1>1, RecordsStay DEF VersionsStay, RequestsStay
<1> QED
  BY <1>2 DEF Home, WorkspaceOf

LEMMA ActivatedOncePreserved ==
  ASSUME PolicyInv, [Next]_vars
  PROVE  ActivatedOnce'
<1>1. byHand \subseteq byHand' /\ TypeOK
  BY VersionSteps DEF PolicyInv
<1>2. ASSUME NEW v \in Versions \ byHand', NEW p \in Places, NEW q \in Places,
             Names(p, v)', Names(q, v)', ~Names(p, v)
      PROVE  p = q
  <2>1. PICK r \in Requests : ExecuteActivation(r, v) /\ p = PlaceOf(r, v)
    BY <1>2, NewNames
  <2>2. ~Names(q, v)
    BY <1>1, <2>1 DEF PolicyInv, ActivatedOnce, ExecuteActivation
  <2>3. PICK u \in Versions \cup {None} :
          pointer' = [pointer EXCEPT ![p] = [active |-> v, previous |-> u]]
    BY <2>1, ActivationEffect
  <2>4. q # p => pointer'[q] = pointer[q]
    BY <1>1, <2>3, PointerSet
  <2> QED
    BY <1>2, <2>2, <2>4 DEF Names
<1>3. ASSUME NEW v \in Versions \ byHand', NEW p \in Places, NEW q \in Places,
             Names(p, v)', Names(q, v)'
      PROVE  p = q
  <2>1. CASE Names(p, v) /\ Names(q, v)
    BY <1>1, <2>1 DEF PolicyInv, ActivatedOnce
  <2> QED
    BY <1>2, <1>3, <2>1
<1>4. ASSUME NEW v \in Versions \ byHand', versions'[v].status = "ready_for_activation",
             NEW p \in Places, Names(p, v)'
      PROVE  FALSE
  <2>1. CASE Names(p, v)
    <3>1. versions[v] # None
      BY <2>1, PolicyAssumption DEF PolicyInv, PointersWereApproved, Names, TypeOK
    <3>2. versions[v].status = "ready_for_activation"
      BY <1>4, <3>1, VersionSteps
    <3> QED
      BY <1>1, <2>1, <3>1, <3>2 DEF PolicyInv, ActivatedOnce
  <2>2. CASE ~Names(p, v)
    <3>1. PICK r \in Requests : ExecuteActivation(r, v)
      BY <1>4, <2>2, NewNames
    <3>2. versions'[v].status = "active"
      BY <3>1, ActivationEffect
    <3> QED
      BY <1>4, <3>2
  <2> QED
    BY <2>1, <2>2
<1>5. ActivatedOnce' <=>
        \A v \in Versions \ byHand' :
          /\ \A p, q \in Places : Names(p, v)' /\ Names(q, v)' => p = q
          /\ versions'[v] # None /\ versions'[v].status = "ready_for_activation"
               => \A p \in Places : ~Names(p, v)'
  BY DEF ActivatedOnce, Names
<1> QED
  BY <1>3, <1>4, <1>5

\* A place and the version in use there, where neither was touched.
LEMMA StaysActive ==
  ASSUME PolicyInv, [Next]_vars, NEW p \in Places, NEW v \in Versions \ byHand',
         InUse(p) = v, Home(v)' = p[1], versions'[v] = versions[v]
  PROVE  versions'[v].status = "active"
<1>1. v \in Versions /\ v \notin byHand
  BY VersionSteps
<1>2. versions[v] # None
  BY <1>1, InUseKnown, PolicyAssumption DEF PolicyInv
<1>3. Home(v) = p[1]
  BY <1>1, <1>2, HomesStay
<1> QED
  BY <1>1, <1>3 DEF PolicyInv, PointerIsActive

\* An activation touches the version in use where it activates, which is in use
\* nowhere else; a rollback one of its own workspace's place.
LEMMA ActivePreserved ==
  ASSUME PolicyInv, [Next]_vars
  PROVE  PointerIsActive'
<1> DEFINE Fine(p, v) == InUse(p)' = v /\ Home(v)' = p[1] => versions'[v].status = "active"
<1>1. TypeOK /\ PointersWereApproved
  BY DEF PolicyInv
<1>2. ASSUME NEW p \in Places, NEW v \in Versions \ byHand', InUse(p)' = InUse(p),
             versions'[v] = versions[v]
      PROVE  Fine(p, v)
  BY <1>2, StaysActive
<1>3. ASSUME UNCHANGED <<versions, pointer>>, NEW p \in Places, NEW v \in Versions \ byHand'
      PROVE  Fine(p, v)
  <2>1. InUse(p)' = InUse(p)
    BY <1>3 DEF InUse
  <2> QED
    BY <1>2, <1>3, <2>1
<1>4. ASSUME NEW r \in Requests, NEW x \in Versions, CreateVersion(x, r),
             NEW p \in Places, NEW v \in Versions \ byHand'
      PROVE  Fine(p, v)
  <2>1. InUse(p)' = InUse(p) /\ InUse(p) # x
    BY <1>1, <1>4, InUseKnown, PolicyAssumption DEF CreateVersion, InUse
  <2>2. v # x => versions'[v] = versions[v]
    BY <1>1, <1>4 DEF CreateVersion, TypeOK
  <2> QED
    BY <1>2, <2>1, <2>2
<1>5. ASSUME NEW x \in Versions, NEW s \in HandStatuses, SetVersionStatus(x, s),
             NEW p \in Places, NEW v \in Versions \ byHand'
      PROVE  Fine(p, v)
  <2>1. InUse(p)' = InUse(p) /\ v # x /\ versions'[v] = versions[v]
    BY <1>1, <1>5 DEF SetVersionStatus, InUse, TypeOK
  <2> QED
    BY <1>2, <2>1
<1>6. ASSUME NEW r \in Requests, NEW x \in Versions, ExecuteActivation(r, x),
             NEW p \in Places, NEW v \in Versions \ byHand'
      PROVE  Fine(p, v)
  <2>1. PICK k \in Places, u \in Versions \cup {None} :
          /\ u = InUse(k) /\ versions'[x].status = "active"
          /\ \A w \in Versions \ {u, x} : versions'[w] = versions[w]
          /\ pointer' = [pointer EXCEPT ![k] = [active |-> x, previous |-> u]]
    BY <1>6, ActivationEffect
  <2>2. InUse(k)' = x /\ (p # k => InUse(p)' = InUse(p))
    BY <1>1, <2>1, PointerSet
  <2>3. ASSUME p # k, v = u, InUse(p) = v PROVE FALSE
    <3>1. Names(k, v) /\ Names(p, v) /\ v \in Versions \ byHand
      BY <1>1, <2>1, <2>3, InUseKnown, VersionSteps, PolicyAssumption
    <3> QED
      BY <2>3, <3>1 DEF PolicyInv, ActivatedOnce
  <2>4. CASE v = x \/ p = k
    BY <2>1, <2>2, <2>4
  <2>5. CASE v # x /\ p # k /\ v = u
    BY <2>2, <2>3, <2>5
  <2>6. CASE v # x /\ p # k /\ v # u
    BY <1>2, <2>1, <2>2, <2>6
  <2> QED
    BY <2>4, <2>5, <2>6
<1>7. ASSUME NEW x \in Versions, versions[x] # None, NEW k \in Places, RollBack(x, k),
             k[1] = Home(x), k[2] = versions[x].area,
             NEW p \in Places, NEW v \in Versions \ byHand'
      PROVE  Fine(p, v)
  <2>1. ASSUME InUse(p) = x, Home(x)' = p[1] PROVE p = k /\ pointer[k] # None
    <3>1. p[2] = versions[x].area
      BY <1>1, <1>7, <2>1, InUseKnown, PolicyAssumption
    <3>2. p[1] = Home(x)
      BY <1>7, <2>1, HomesStay
    <3>3. p = k
      BY <1>7, <3>1, <3>2 DEF Places
    <3> QED
      BY <1>7, <2>1, <3>3, PolicyAssumption DEF InUse
  <2>2. CASE UNCHANGED pointer /\ pointer[k] = None /\ \A w \in Versions \ {x} : versions'[w] = versions[w]
    <3>1. InUse(p)' = InUse(p)
      BY <2>2 DEF InUse
    <3> QED
      BY <1>2, <2>1, <2>2, <3>1
  <2>3. ASSUME NEW t \in Versions \cup {None}, NEW y \in Versions \cup {None},
               t # None => versions'[t].status = "active",
               \A w \in Versions \ {x, t} : versions'[w] = versions[w],
               pointer' = [pointer EXCEPT ![k] = [active |-> t, previous |-> y]]
        PROVE  Fine(p, v)
    <3>1. InUse(k)' = t /\ (p # k => InUse(p)' = InUse(p))
      BY <1>1, <2>3, PointerSet
    <3>2. v = t => versions'[v].status = "active"
      BY <2>3, PolicyAssumption
    <3>3. CASE v = t \/ p = k
      BY <3>1, <3>2, <3>3
    <3>4. CASE v # t /\ p # k /\ v = x
      BY <2>1, <3>1, <3>4
    <3>5. CASE v # t /\ p # k /\ v # x
      BY <1>2, <2>3, <3>1, <3>5
    <3> QED
      BY <3>3, <3>4, <3>5
  <2>4. pointer[k] # None => pointer[k].active \in Versions \cup {None}
    BY <1>1, PointedVersions
  <2> HIDE DEF Fine
  <2> QED
    BY <1>7, <2>2, <2>3, <2>4, RollBackEffect
<1>8. ASSUME NEW b \in Rollbacks, ExecuteRollback(b),
             NEW p \in Places, NEW v \in Versions \ byHand'
      PROVE  Fine(p, v)
  <2> HIDE DEF Fine
  <2> QED
    BY <1>3, <1>7, <1>8, ExecuteRollbackEffect
<1>9. ASSUME NEW p \in Places, NEW v \in Versions \ byHand' PROVE Fine(p, v)
  <2> HIDE DEF Fine
  <2> QED
    BY <1>3, <1>4, <1>5, <1>6, <1>8, NextCases, QuietFrame DEF vars
<1>10. PointerIsActive' <=> \A p \in Places, v \in Versions \ byHand' : Fine(p, v)
  BY DEF PointerIsActive
<1> QED
  BY <1>9, <1>10

\* A version becomes active by hand, or by a step that makes it the one in use;
\* and a step that takes it out of use gives it another status, unless the
\* rollback comes late.
LEMMA ActiveInUsePreserved ==
  ASSUME PolicyInv, [Next]_vars
  PROVE  ActiveIsInUse'
<1> DEFINE Fine(v) ==
      versions'[v] # None /\ versions'[v].status = "active"
        => \E p \in Places : ActivatedAt(v, p)' /\ (p \in late' \/ InUse(p)' = v)
<1>1. TypeOK /\ PointersWereApproved
  BY DEF PolicyInv
<1>2. ASSUME NEW v \in Versions \ byHand', versions'[v] = versions[v],
             versions[v] # None, versions[v].status = "active"
      PROVE  \E p \in Places : ActivatedAt(v, p)' /\ (p \in late \/ InUse(p) = v)
  <2>1. v \in Versions \ byHand
    BY VersionSteps
  <2>2. PICK p \in Places : ActivatedAt(v, p) /\ (p \in late \/ InUse(p) = v)
    BY <1>2, <2>1 DEF PolicyInv, ActiveIsInUse
  <2>3. ActivatedAt(v, p)'
    BY <1>2, <2>2, ActivationsStay
  <2> QED
    BY <2>2, <2>3
<1>3. ASSUME NEW v \in Versions \ byHand', versions'[v] = versions[v], late \subseteq late',
             \A p \in Places : InUse(p) = v => InUse(p)' = v \/ p \in late'
      PROVE  Fine(v)
  BY <1>2, <1>3
<1>4. ASSUME UNCHANGED <<versions, pointer, late>>, NEW v \in Versions \ byHand'
      PROVE  Fine(v)
  <2>1. \A p \in Places : InUse(p)' = InUse(p)
    BY <1>4 DEF InUse
  <2> HIDE DEF Fine
  <2> QED
    BY <1>3, <1>4, <2>1
<1>5. ASSUME NEW r \in Requests, NEW x \in Versions, CreateVersion(x, r),
             NEW v \in Versions \ byHand'
      PROVE  Fine(v)
  <2>1. UNCHANGED late /\ \A p \in Places : InUse(p)' = InUse(p)
    BY <1>5 DEF CreateVersion, InUse
  <2>2. /\ versions'[x].status = "ready_for_activation"
        /\ v # x => versions'[v] = versions[v]
    BY <1>1, <1>5 DEF CreateVersion, TypeOK
  <2>3. CASE v = x
    BY <2>2, <2>3
  <2>4. CASE v # x
    <3> HIDE DEF Fine
    <3> QED
      BY <1>3, <2>1, <2>2, <2>4
  <2> QED
    BY <2>3, <2>4
<1>6. ASSUME NEW x \in Versions, NEW s \in HandStatuses, SetVersionStatus(x, s),
             NEW v \in Versions \ byHand'
      PROVE  Fine(v)
  <2>1. UNCHANGED late /\ \A p \in Places : InUse(p)' = InUse(p)
    BY <1>6 DEF SetVersionStatus, InUse
  <2>2. versions'[v] = versions[v]
    BY <1>1, <1>6 DEF SetVersionStatus, TypeOK
  <2> HIDE DEF Fine
  <2> QED
    BY <1>3, <2>1, <2>2
<1>7. ASSUME NEW r \in Requests, NEW x \in Versions, ExecuteActivation(r, x),
             NEW v \in Versions \ byHand'
      PROVE  Fine(v)
  <2>1. PICK k \in Places, u \in Versions \cup {None} :
          /\ k = PlaceOf(r, x) /\ u = InUse(k)
          /\ u \in Versions \ {x} => versions'[u].status = "superseded"
          /\ \A w \in Versions \ {u, x} : versions'[w] = versions[w]
          /\ pointer' = [pointer EXCEPT ![k] = [active |-> x, previous |-> u]]
    BY <1>7, ActivationEffect
  <2>2. InUse(k)' = x /\ \A p \in Places \ {k} : InUse(p)' = InUse(p)
    BY <1>1, <2>1, PointerSet
  <2>3. CASE v = x
    <3>1. ActivatedAt(x, k)'
      BY <1>7, <2>1, ExecutedIsActivated
    <3> QED
      BY <2>2, <2>3, <3>1
  <2>4. CASE v # x /\ v = u
    BY <2>1, <2>4
  <2>5. CASE v # x /\ v # u
    <3>1. late' = late
      BY <1>7 DEF ExecuteActivation
    <3> HIDE DEF Fine
    <3> QED
      BY <1>3, <2>1, <2>2, <2>5, <3>1
  <2> QED
    BY <2>3, <2>4, <2>5
<1>8. ASSUME NEW x \in Versions, versions[x] # None, NEW k \in Places, RollBack(x, k),
             NEW v \in Versions \ byHand'
      PROVE  Fine(v)
  <2>1. CASE /\ UNCHANGED <<pointer, late>> /\ versions'[x].status = "rolled_back"
             /\ \A w \in Versions \ {x} : versions'[w] = versions[w]
    <3>1. \A p \in Places : InUse(p)' = InUse(p)
      BY <2>1 DEF InUse
    <3>2. CASE v = x
      BY <2>1, <3>2
    <3>3. CASE v # x
      <4> HIDE DEF Fine
      <4> QED
        BY <1>3, <2>1, <3>1, <3>3
    <3> QED
      BY <3>2, <3>3
  <2>2. ASSUME NEW t \in Versions \cup {None}, NEW y \in Versions \cup {None},
               pointer[k] # None, t = pointer[k].previous, y = pointer[k].active,
               x # t => versions'[x].status = "rolled_back",
               \A w \in Versions \ {x, t} : versions'[w] = versions[w],
               pointer' = [pointer EXCEPT ![k] = [active |-> t, previous |-> y]],
               late' = IF y = x THEN late ELSE late \cup {k}
        PROVE  Fine(v)
    <3>0. pointer' = [pointer EXCEPT ![k] = [active |-> t, previous |-> y]]
      BY <2>2
    <3>1. InUse(k)' = t /\ \A p \in Places \ {k} : InUse(p)' = InUse(p)
      BY <1>1, <3>0, PointerSet
    <3>2. CASE v = t
      <4>1. ActivatedAt(t, k) /\ versions[t] # None
        BY <1>1, <2>2, <3>2, PolicyAssumption DEF PointersWereApproved
      <4>2. ActivatedAt(t, k)'
        BY <3>2, <4>1, ActivationsStay
      <4> QED
        BY <3>1, <3>2, <4>2
    <3>3. CASE v # t /\ v = x
      BY <2>2, <3>3
    <3>4. CASE v # t /\ v # x
      <4>1. InUse(k) = y
        BY <2>2 DEF InUse
      <4>2. late \subseteq late' /\ (y # x => k \in late')
        BY <2>2
      <4>3. \A p \in Places : InUse(p) = v => InUse(p)' = v \/ p \in late'
        BY <3>1, <3>4, <4>1, <4>2
      <4> HIDE DEF Fine
      <4> QED
        BY <1>3, <2>2, <3>4, <4>2, <4>3
    <3> QED
      BY <3>2, <3>3, <3>4
  <2>3. pointer[k] # None => pointer[k].active \in Versions \cup {None}
    BY <1>1, PointedVersions
  <2> HIDE DEF Fine
  <2> QED
    BY <1>8, <2>1, <2>2, <2>3, RollBackEffect
<1>9. ASSUME NEW b \in Rollbacks, ExecuteRollback(b), NEW v \in Versions \ byHand'
      PROVE  Fine(v)
  <2> HIDE DEF Fine
  <2> QED
    BY <1>4, <1>8, <1>9, ExecuteRollbackEffect
<1>10. ASSUME NEW v \in Versions \ byHand' PROVE Fine(v)
  <2> HIDE DEF Fine
  <2> QED
    BY <1>4, <1>5, <1>6, <1>7, <1>9, NextCases, QuietFrame DEF vars
<1>11. ActiveIsInUse' <=> \A v \in Versions \ byHand' : Fine(v)
  BY DEF ActiveIsInUse
<1> QED
  BY <1>10, <1>11

\* The records and pointers stay in order through every step.
THEOREM PolicyInvariant == Spec => []PolicyInv
<1>1. Init => PolicyInv
  <2> SUFFICES ASSUME Init PROVE PolicyInv
    OBVIOUS
  <2>1. TypeOK
    BY DEF Init, TypeOK
  <2>2. RecordsKnown /\ ActiveIsInUse
    BY DEF Init, RecordsKnown, ActiveIsInUse
  <2>3. PointersWereApproved /\ PointerIsActive /\ ActivatedOnce
    BY PolicyAssumption DEF Init, PointersWereApproved, PointerIsActive, ActivatedOnce,
       InUse, Names
  <2> QED
    BY <2>1, <2>2, <2>3 DEF PolicyInv
<1>2. PolicyInv /\ [Next]_vars => PolicyInv'
  BY TypePreserved, RecordsKnownPreserved, PointersPreserved, ActivePreserved,
     ActiveInUsePreserved, ActivatedOncePreserved DEF PolicyInv
<1> QED
  BY <1>1, <1>2, PTL DEF Spec

\* Every variable of the policy records keeps its shape.
THEOREM PolicyTypes == Spec => []TypeOK
<1>1. PolicyInv => TypeOK
  BY DEF PolicyInv
<1> QED
  BY <1>1, PolicyInvariant, PTL

\* Whatever the order of the calls, a version in use at a place, or next in line
\* there after a rollback, was activated there for a request that the place's
\* workspace approved, also if the version is another workspace's.
THEOREM PointersWereApprovedHolds == Spec => []PointersWereApproved
<1>1. PolicyInv => PointersWereApproved
  BY DEF PolicyInv
<1> QED
  BY <1>1, PolicyInvariant, PTL

\* Late and repeated rollbacks, and what other workspaces do with the version,
\* leave no pointer at a version of its own workspace that is not active.
THEOREM PointerIsActiveHolds == Spec => []PointerIsActive
<1>1. PolicyInv => PointerIsActive
  BY DEF PolicyInv
<1> QED
  BY <1>1, PolicyInvariant, PTL

\* A version stays active out of use only where a rollback of a version no longer
\* in use came late, as long as nobody sets its status by hand.
THEOREM ActiveIsInUseHolds == Spec => []ActiveIsInUse
<1>1. PolicyInv => ActiveIsInUse
  BY DEF PolicyInv
<1> QED
  BY <1>1, PolicyInvariant, PTL

\* Only the verification says a rollback is verified, and it looks at its version.
LEMMA VerifiedMeans ==
  ASSUME PolicyInv, [Next]_vars, NEW b \in Rollbacks, RolledBackAsked(b),
         rollbacks'[b] # rollbacks[b], rollbacks'[b].status = "verified"
  PROVE  IsRolledBack(rollbacks[b].version)
<1>1. rollbacks \in [Rollbacks -> Rollback \cup {None}] /\ rollbacks[b] \in Rollback
  BY DEF PolicyInv, TypeOK, RolledBackAsked
<1>2. ASSUME NEW c \in Rollbacks, NEW s, SetRollback(c, s)
      PROVE  c = b /\ s = "verified"
  <2>1. c = b
    BY <1>1, <1>2 DEF SetRollback
  <2> QED
    BY <1>1, <1>2, <2>1 DEF SetRollback, Rollback
<1>3. ASSUME NEW c \in Rollbacks, VerifyRollback(c) PROVE IsRolledBack(rollbacks[b].version)
  BY <1>2, <1>3 DEF VerifyRollback
<1>4. ASSUME NEW c \in Rollbacks, NEW s \in RollbackDecisions, NEW w \in Workspaces,
             DecideRollback(c, s, w)
      PROVE  FALSE
  BY <1>2, <1>4, PolicyAssumption DEF DecideRollback
<1>5. ASSUME NEW c \in Rollbacks, ExecuteRollback(c) PROVE FALSE
  BY <1>2, <1>5 DEF ExecuteRollback
<1>6. ASSUME NEW c \in Rollbacks, NEW r \in Requests, NEW v \in Versions \cup {None},
             CreateRollbackRequest(c, r, v)
      PROVE  FALSE
  <2>1. /\ rollbacks[c] = None
        /\ rollbacks' = [rollbacks EXCEPT
             ![c] = [request |-> r, version |-> v, status |-> "rollback_review_required"]]
    BY <1>6 DEF CreateRollbackRequest, RolledBackAsked
  <2>2. c # b
    BY <2>1 DEF RolledBackAsked
  <2> QED
    BY <1>1, <2>1, <2>2
<1>7. ASSUME NEW r \in Requests,
             \/ \E w \in Workspaces, a \in Areas : CreateRequest(r, w, a)
             \/ \E passed \in BOOLEAN : EvaluatePreconditions(r, passed)
             \/ CreateGate(r) \/ Archive(r)
             \/ \E status \in RequestDecisions, w \in Workspaces : Decide(r, status, w)
             \/ \E v \in Versions : CreateVersion(v, r) \/ ExecuteActivation(r, v)
      PROVE  UNCHANGED rollbacks
  BY <1>7 DEF CreateRequest, EvaluatePreconditions, CreateGate, Archive, Decide,
              CreateVersion, ExecuteActivation
<1>8. ASSUME NEW c \in Rollbacks, CreateRollbackGate(c) PROVE UNCHANGED rollbacks
  BY <1>8 DEF CreateRollbackGate
<1>9. ASSUME NEW v \in Versions, NEW s \in HandStatuses, SetVersionStatus(v, s)
      PROVE  UNCHANGED rollbacks
  BY <1>9 DEF SetVersionStatus
<1>10. UNCHANGED vars => UNCHANGED rollbacks
  BY DEF vars
<1> QED
  BY <1>3, <1>4, <1>5, <1>6, <1>7, <1>8, <1>9, <1>10 DEF Next

\* A rollback is verified only while its version is out of use in the workspace
\* that asked for it: there the check of the version's status alone is enough,
\* though it does not look at the pointer.
THEOREM VerifiedIsOutHolds == Spec => VerifiedIsOut
<1>1. ASSUME PolicyInv, [Next]_vars, NEW b \in Rollbacks, RolledBackAsked(b),
             rollbacks'[b] # rollbacks[b], rollbacks'[b].status = "verified"
      PROVE  LET v == rollbacks[b].version
                 w == WorkspaceOf(rollbacks[b].request)
             IN  v # None /\ (v \in byHand \/ \A a \in Areas : InUse(<<w, a>>) # v)
  <2> DEFINE v == rollbacks[b].version
             w == WorkspaceOf(rollbacks[b].request)
  <2>1. v # None /\ versions[v].status = "rolled_back"
    BY <1>1, VerifiedMeans DEF IsRolledBack
  <2>2. rollbacks[b] \in Rollback /\ rollbacks[b] # None
    BY <1>1 DEF PolicyInv, TypeOK, RolledBackAsked
  <2>3. v \in Versions /\ Home(v) = w
    BY <1>1, <2>1, <2>2 DEF PolicyInv, RecordsKnown, Home, Rollback
  <2>4. w \in Workspaces
    <3>1. rollbacks[b].request \in Requests /\ requests[rollbacks[b].request] # None
      BY <1>1, <2>2 DEF PolicyInv, RecordsKnown, Rollback
    <3> QED
      BY <1>1, <3>1 DEF PolicyInv, TypeOK, Request, WorkspaceOf
  <2> HIDE DEF v, w
  <2>5. ASSUME v \notin byHand, NEW a \in Areas, InUse(<<w, a>>) = v PROVE FALSE
    <3>1. <<w, a>> \in Places /\ <<w, a>>[1] = w
      BY <2>4 DEF Places
    <3> QED
      BY <1>1, <2>1, <2>3, <2>5, <3>1 DEF PolicyInv, PointerIsActive
  <2> QED
    BY <2>1, <2>5 DEF v, w
<1>2. PolicyInv /\ [Next]_vars =>
        [\A b \in Rollbacks :
           RolledBackAsked(b) /\ rollbacks'[b] # rollbacks[b] /\ rollbacks'[b].status = "verified"
             => LET v == rollbacks[b].version
                    w == WorkspaceOf(rollbacks[b].request)
                IN  v # None /\ (v \in byHand \/ \A a \in Areas : InUse(<<w, a>>) # v)]_vars
  BY <1>1
<1> QED
  BY <1>2, PolicyInvariant, PTL DEF Spec, VerifiedIsOut
=============================================================================
