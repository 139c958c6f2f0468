\* Two requests with two versions of one area and two rollbacks.
SPECIFICATION Spec
CONSTANTS
  None = None
  Requests = {r1, r2}
  Versions = {v1, v2}
  Rollbacks = {b1, b2}
  Workspaces = {w1, w2}
  Areas = {a1, a2}
  RequestDecisions = {"activation_approved"}
  RollbackDecisions = {"rollback_approved"}
  HandStatuses = {"active"}
SYMMETRY Symmetry
CHECK_DEADLOCK FALSE
INVARIANTS
  PointersWereApproved PointerIsActive ActiveIsInUse
PROPERTIES
  VerifiedIsOut
