\* Three calls on one execution request.
SPECIFICATION Spec
CONSTANTS
  None = None
  Requests = {e1}
  Handlers = {h1, h2, h3}
  MaxRuns = 2
SYMMETRY Symmetry
CHECK_DEADLOCK FALSE
INVARIANTS
  TypeOK RunsWereAllowed ApprovalWasAsked
PROPERTIES
  FinalUnlessStale
