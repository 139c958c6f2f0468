CONSTANTS
  None = None
  Loaders = {l1}
  l1 = l1
  Resetters = {z1, z2}
  z1 = z1
  z2 = z2
  Advisors = {a1}
  a1 = a1
  Traders = {t1}
  t1 = t1
  Plan <- ShortPlan
  Faults = TRUE
SPECIFICATION Spec
SYMMETRY Symmetry
INVARIANT TypeOK
INVARIANT NamedOrCutOff
INVARIANT RowsHaveEvidence
CHECK_DEADLOCK FALSE
