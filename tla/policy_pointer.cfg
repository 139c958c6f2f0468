\* Two workspaces with a request each; nobody sets a status by hand.
SPECIFICATION Spec
CONSTANTS
  None = None
  Requests = {r1, r2}
  Versions = {v1, v2}
  Rollbacks = {b1}
  Workspaces = {w1, w2}
  Areas = {a1}
  RequestDecisions = {"activation_approved"}
  RollbackDecisions = {"rollback_approved"}
  HandStatuses = {}
SYMMETRY Symmetry
CHECK_DEADLOCK FALSE
INVARIANT PointerIsCurrent
