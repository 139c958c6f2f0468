\* Three uploads and a billing request around one change of month.
SPECIFICATION Spec
CONSTANTS
  None = None
  Requests = {r1, r2, r3}
  Viewers = {v1}
  Amounts = {1}
  Limit = 2
  TTL = 1
  MonthLength = 2
  MaxTime = 2
SYMMETRY Symmetry
CHECK_DEADLOCK FALSE
INVARIANTS
  TypeOK CountIsCharges OnlyLateOverrun ChargedOnce
