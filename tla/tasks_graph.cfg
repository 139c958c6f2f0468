\* Two handlers over three tasks whose dependencies can close a cycle.
SPECIFICATION Spec
CONSTANTS
  None = None
  a = a
  b = b
  c = c
  FS = FS
  AR = AR
  Tasks = {a, b, c}
  Types = {FS, AR}
  Requested <- Asked
  Touched <- Changed
  Inferred <- Suggested
  Handlers = {h1, h2}
SYMMETRY Symmetry
CHECK_DEADLOCK FALSE
INVARIANTS
  CyclesAreRaces NothingStalls SearchFindsCycles
