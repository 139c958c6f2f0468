CONSTANTS
  None = None
  Loaders = {l1, l2}
  l1 = l1
  l2 = l2
  Resetters = {z1, z2}
  z1 = z1
  z2 = z2
  Advisors = {}
  Traders = {t1}
  t1 = t1
  Plan <- OneTrade
  Faults = FALSE
SPECIFICATION Spec
SYMMETRY Symmetry
INVARIANT NamedOrCutOff
INVARIANT NothingLeftBehind
PROPERTY RealRowsKept
CHECK_DEADLOCK FALSE
