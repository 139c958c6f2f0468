-------------------------- MODULE PolicyActivation --------------------------
(***************************************************************************)
(* Activation and rollback of the policy versions agents are governed by.  *)
(* Every record is kept in a Map of the process and no handler waits for   *)
(* anything outside it, so each is one step; what goes wrong is in the     *)
(* order of the calls, which nothing but the records' statuses restrains.  *)
(* A version's status can also be set by hand.  The records of all         *)
(* workspaces are in the same Maps: most calls refuse a record of another  *)
(* workspace, but activation takes a version of any, and a decision is     *)
(* recorded about a request of any.                                        *)
(*                                                                         *)
(* An operator named Faulty... is never used by the specification: it is   *)
(* the definition after it with a bug seeded in.                           *)
(***************************************************************************)

CONSTANTS
  None,       \* no record, no reference
  Requests,   \* activation requests
  Versions,   \* controlled policy versions
  Rollbacks,  \* rollback requests
  Workspaces, \* tenants
  Areas,      \* policy areas
  RequestDecisions,   \* bounds: the statuses decisions give the requests,
  RollbackDecisions,  \* the rollback requests,
  HandStatuses        \* and people the versions

VARIABLES
  requests,    \* the activation requests: their workspace, area and status
  versions,    \* the versions: their request, area and status
  rollbacks,   \* the rollback requests: their request, version and status
  pointer,     \* of a workspace's area, the version in use and the one before
  gates,       \* the kinds of gate there is one of
  approvals,   \* the requests, of both kinds, approved in their own workspace
  executions,  \* the requests executed, with their versions
  byHand,      \* history: the versions whose status was set by hand
  late         \* history: the places where a version not in use was rolled back

vars == <<requests, versions, rollbacks, pointer, gates, approvals, executions, byHand, late>>

RequestStatuses ==
  {"preconditions_pending", "ready_for_activation_review", "preconditions_failed",
   "activation_review_required", "activation_approved", "activation_rejected", "blocked",
   "archived", "activated", "rollback_available", "rollback_requested", "rolled_back"}
VersionStatuses ==
  {"created", "ready_for_activation", "active", "superseded", "rolled_back", "blocked", "archived"}
RollbackStatuses ==
  {"rollback_review_required", "rollback_approved", "rollback_rejected", "blocked", "archived",
   "verification_pending", "verified", "rollback_failed"}

\* Where a version can be in use.
Places == Workspaces \X Areas

Request == [workspace : Workspaces, area : Areas, status : RequestStatuses]
Version == [request : Requests, area : Areas, status : VersionStatuses]
Rollback == [request : Requests, version : Versions \cup {None}, status : RollbackStatuses]
Pointer == [active : Versions \cup {None}, previous : Versions \cup {None}]

ASSUME PolicyAssumption ==
  /\ None \notin Requests \cup Versions \cup Request \cup Version \cup Rollback \cup Pointer
  /\ RequestDecisions \subseteq {"activation_approved", "activation_rejected",
                                "activation_review_required", "blocked", "archived"}
  /\ RollbackDecisions \subseteq {"rollback_approved", "rollback_rejected",
                                 "rollback_review_required", "blocked", "archived"}
  /\ HandStatuses \subseteq VersionStatuses

Init ==
  /\ requests = [r \in Requests |-> None]
  /\ versions = [v \in Versions |-> None]
  /\ rollbacks = [b \in Rollbacks |-> None]
  /\ pointer = [p \in Places |-> None]
  /\ gates = {} /\ approvals = {} /\ executions = {} /\ byHand = {} /\ late = {}

Requested(r) == requests[r] # None
SetRequest(r, status) == requests' = [requests EXCEPT ![r].status = status]
WorkspaceOf(r) == requests[r].workspace

\* The dry run behind the request has passed.
CreateRequest(r, w, a) ==
  /\ ~Requested(r)
  /\ requests' = [requests EXCEPT
       ![r] = [workspace |-> w, area |-> a, status |-> "preconditions_pending"]]
  /\ UNCHANGED <<versions, rollbacks, pointer, gates, approvals, executions, byHand, late>>

EvaluatePreconditions(r, passed) ==
  /\ Requested(r)
  /\ SetRequest(r, IF passed THEN "ready_for_activation_review" ELSE "preconditions_failed")
  /\ UNCHANGED <<versions, rollbacks, pointer, gates, approvals, executions, byHand, late>>

CreateGate(r) ==
  /\ Requested(r) /\ requests[r].status = "ready_for_activation_review"
  /\ gates' = gates \cup {"activation"}
  /\ SetRequest(r, "activation_review_required")
  /\ UNCHANGED <<versions, rollbacks, pointer, approvals, executions, byHand, late>>

\* A decision names a gate and a request, and neither need belong to the other
\* or to the workspace the decision is taken in; the status of neither matters.
\* Only decisions of the request's workspace are looked up later.
Decide(r, status, w) ==
  /\ Requested(r) /\ "activation" \in gates
  /\ approvals' = IF status = "activation_approved" /\ w = WorkspaceOf(r)
                  THEN approvals \cup {r} ELSE approvals
  /\ SetRequest(r, status)
  /\ UNCHANGED <<versions, rollbacks, pointer, gates, executions, byHand, late>>

Archive(r) ==
  /\ Requested(r)
  /\ SetRequest(r, "archived")
  /\ UNCHANGED <<versions, rollbacks, pointer, gates, approvals, executions, byHand, late>>

CreateVersion(v, r) ==
  /\ versions[v] = None
  /\ Requested(r) /\ requests[r].status = "activation_approved"
  /\ versions' = [versions EXCEPT
       ![v] = [request |-> r, area |-> requests[r].area, status |-> "ready_for_activation"]]
  /\ UNCHANGED <<requests, rollbacks, pointer, gates, approvals, executions, byHand, late>>

SetVersionStatus(v, status) ==
  /\ versions[v] # None
  /\ versions' = [versions EXCEPT ![v].status = status]
  /\ byHand' = byHand \cup {v}
  /\ UNCHANGED <<requests, rollbacks, pointer, gates, approvals, executions, late>>

(***************************************************************************)
(* Activation.  The version may be one created for another request, also   *)
(* of another workspace.                                                   *)
(***************************************************************************)

InUse(p) == IF pointer[p] = None THEN None ELSE pointer[p].active

\* Where a request puts a version in use: its own workspace, the version's area.
FaultyPlaceOf(r, v) == <<WorkspaceOf(r), requests[r].area>>
PlaceOf(r, v) == <<WorkspaceOf(r), versions[v].area>>

\* The versions once v replaces u, which may be none.
FaultyReplacedOnly(u, status, v) == [versions EXCEPT ![v].status = "active"]
FaultyReplaced(u, status, v) ==
  [w \in Versions |->
     IF w = u THEN [versions[w] EXCEPT !.status = status]
     ELSE IF w = v THEN [versions[w] EXCEPT !.status = "active"]
     ELSE versions[w]]
Replaced(u, status, v) ==
  [w \in Versions |->
     IF w = v THEN [versions[w] EXCEPT !.status = "active"]
     ELSE IF w = u THEN [versions[w] EXCEPT !.status = status]
     ELSE versions[w]]

StatusIn(p) == IF pointer[p] = None THEN "activated" ELSE "rollback_available"

ExecuteActivation(r, v) ==
  /\ Requested(r) /\ requests[r].status = "activation_approved" /\ r \in approvals
  /\ versions[v] # None /\ versions[v].status = "ready_for_activation"
  /\ LET p == PlaceOf(r, v)
     IN  /\ versions' = Replaced(InUse(p), "superseded", v)
         /\ pointer' = [pointer EXCEPT ![p] = [active |-> v, previous |-> InUse(p)]]
         /\ SetRequest(r, StatusIn(p))
  /\ executions' = executions \cup {<<r, v>>}
  /\ UNCHANGED <<rollbacks, gates, approvals, byHand, late>>

(***************************************************************************)
(* Rollback.                                                               *)
(***************************************************************************)

RolledBackAsked(b) == rollbacks[b] # None
SetRollback(b, status) == rollbacks' = [rollbacks EXCEPT ![b].status = status]

\* The active versions created for the request; the first is taken.
ActiveVersions(r) ==
  {v \in Versions : versions[v] # None /\ versions[v].request = r /\ versions[v].status = "active"}

CreateRollbackRequest(b, r, v) ==
  /\ ~RolledBackAsked(b)
  /\ Requested(r) /\ requests[r].status \in {"activated", "rollback_available"}
  /\ IF ActiveVersions(r) = {} THEN v = None ELSE v \in ActiveVersions(r)
  /\ rollbacks' = [rollbacks EXCEPT
       ![b] = [request |-> r, version |-> v, status |-> "rollback_review_required"]]
  /\ SetRequest(r, "rollback_requested")
  /\ UNCHANGED <<versions, pointer, gates, approvals, executions, byHand, late>>

CreateRollbackGate(b) ==
  /\ RolledBackAsked(b) /\ rollbacks[b].status = "rollback_review_required"
  /\ gates' = gates \cup {"rollback"}
  /\ UNCHANGED <<requests, versions, rollbacks, pointer, approvals, executions, byHand, late>>

DecideRollback(b, status, w) ==
  /\ RolledBackAsked(b) /\ "rollback" \in gates
  /\ approvals' = IF status = "rollback_approved" /\ w = WorkspaceOf(rollbacks[b].request)
                  THEN approvals \cup {b} ELSE approvals
  /\ SetRollback(b, status)
  /\ UNCHANGED <<requests, versions, pointer, gates, executions, byHand, late>>

\* The version goes, and the one before the version now in use at the place
\* comes back.
RollBack(v, p) ==
  IF pointer[p] = None
  THEN /\ versions' = [versions EXCEPT ![v].status = "rolled_back"]
       /\ UNCHANGED <<pointer, late>>
  ELSE LET target == pointer[p].previous
       IN  /\ versions' = IF target = None
                          THEN [versions EXCEPT ![v].status = "rolled_back"]
                          ELSE Replaced(v, "rolled_back", target)
           /\ pointer' = [pointer EXCEPT
                ![p] = [active |-> target, previous |-> pointer[p].active]]
           /\ late' = IF pointer[p].active = v THEN late ELSE late \cup {p}

ExecuteRollback(b) ==
  /\ RolledBackAsked(b) /\ rollbacks[b].status = "rollback_approved" /\ b \in approvals
  /\ IF rollbacks[b].version = None
     THEN UNCHANGED <<versions, pointer, late>>
     ELSE RollBack(rollbacks[b].version, PlaceOf(rollbacks[b].request, rollbacks[b].version))
  /\ SetRollback(b, "verification_pending")
  /\ SetRequest(rollbacks[b].request, "rolled_back")
  /\ executions' = executions \cup {<<b, rollbacks[b].version>>}
  /\ UNCHANGED <<gates, approvals, byHand>>

FaultyIsRolledBack(v) == v # None
IsRolledBack(v) == v # None /\ versions[v].status = "rolled_back"

\* Any execution can be verified at any time.
VerifyRollback(b) ==
  /\ RolledBackAsked(b) /\ <<b, rollbacks[b].version>> \in executions
  /\ SetRollback(b, IF IsRolledBack(rollbacks[b].version) THEN "verified" ELSE "rollback_failed")
  /\ UNCHANGED <<requests, versions, pointer, gates, approvals, executions, byHand, late>>

Next ==
  \/ \E r \in Requests :
       \/ \E w \in Workspaces, a \in Areas : CreateRequest(r, w, a)
       \/ \E passed \in BOOLEAN : EvaluatePreconditions(r, passed)
       \/ CreateGate(r) \/ Archive(r)
       \/ \E status \in RequestDecisions, w \in Workspaces : Decide(r, status, w)
       \/ \E v \in Versions : CreateVersion(v, r) \/ ExecuteActivation(r, v)
  \/ \E v \in Versions, status \in HandStatuses : SetVersionStatus(v, status)
  \/ \E b \in Rollbacks :
       \/ \E r \in Requests, v \in Versions \cup {None} : CreateRollbackRequest(b, r, v)
       \/ CreateRollbackGate(b) \/ ExecuteRollback(b) \/ VerifyRollback(b)
       \/ \E status \in RollbackDecisions, w \in Workspaces : DecideRollback(b, status, w)

Spec == Init /\ [][Next]_vars

(***************************************************************************)
(* Properties.                                                             *)
(***************************************************************************)

\* Every variable keeps its shape.
TypeOK ==
  /\ requests \in [Requests -> Request \cup {None}]
  /\ versions \in [Versions -> Version \cup {None}]
  /\ rollbacks \in [Rollbacks -> Rollback \cup {None}]
  /\ pointer \in [Places -> Pointer \cup {None}]
  /\ gates \subseteq {"activation", "rollback"}
  /\ approvals \subseteq Requests \cup Rollbacks
  /\ executions \subseteq (Requests \cup Rollbacks) \X (Versions \cup {None})
  /\ byHand \subseteq Versions /\ late \subseteq Places

\* A version was activated at a place: for a request of the place's workspace
\* that this workspace approved, the version being of the place's area.
ActivatedAt(v, p) ==
  \E r \in Requests \cap approvals :
    Requested(r) /\ <<r, v>> \in executions /\ p = <<WorkspaceOf(r), versions[v].area>>

\* Whatever was set by hand or rolled back, a version in use at a place, and one
\* a rollback would bring back there, was once activated there.
PointersWereApproved ==
  \A p \in Places : pointer[p] # None =>
    \A v \in {pointer[p].active, pointer[p].previous} \ {None} :
      versions[v] # None /\ ActivatedAt(v, p)

\* The workspace a version was created in.
Home(v) == WorkspaceOf(versions[v].request)

\* A pointer at a version of its own workspace names an active one, unless that
\* one's status was set by hand: neither a late rollback, nor the same one
\* executed twice, nor what other workspaces do with the version leaves it at
\* one that is superseded or rolled back.
PointerIsActive ==
  \A p \in Places, v \in Versions \ byHand :
    InUse(p) = v /\ Home(v) = p[1] => versions[v].status = "active"

\* A version whose status nobody set by hand is active only while it is in use
\* at a place where it was activated, or after a rollback there of a version
\* that was no longer in use: two versions are not active together at one place
\* otherwise.
ActiveIsInUse ==
  \A v \in Versions \ byHand :
    versions[v] # None /\ versions[v].status = "active"
      => \E p \in Places : ActivatedAt(v, p) /\ (p \in late \/ InUse(p) = v)

\* A rollback is found in order only while its version is out of use in the
\* workspace that asked for it, also when it is verified late or executed
\* again.  Another workspace may have the version in use still.
VerifiedIsOut ==
  [][\A b \in Rollbacks :
       RolledBackAsked(b) /\ rollbacks'[b] # rollbacks[b] /\ rollbacks'[b].status = "verified"
         => LET v == rollbacks[b].version
                w == WorkspaceOf(rollbacks[b].request)
            IN  v # None /\ (v \in byHand \/ \A a \in Areas : InUse(<<w, a>>) # v)]_vars

\* A pointer names the current active version of its workspace's area, as the
\* documentation has it.  The code does not keep this: see the finding.
PointerIsCurrent == \A p \in Places : InUse(p) # None => versions[InUse(p)].status = "active"
=============================================================================
