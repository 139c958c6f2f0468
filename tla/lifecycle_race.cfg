\* Three sessions race requests for one signal and three intents; the base capital
\* has room for every order, so that only the limit on open positions binds.
\* A portfolio whose rows are all used up and closed has nothing left to do.
SPECIFICATION Spec
CONSTANTS
  None = None
  Sessions = {s1, s2, s3}
  Intents = {i1, i2, i3}
  Positions = {p1, p2, p3}
  Signals = {g1}
  Sides = {"buy"}
  Leverages = {1}
  Notionals = {3}
  Valuations = {1}
  BaseCapitals = {20}
  MaxOpen = 2
  DailyLimit = 9
  WeeklyLimit = 9
  Day = 0
  Week = 0
  MaxTime = 0
SYMMETRY Symmetry
CHECK_DEADLOCK FALSE
INVARIANTS
  OpenLimit DecidedOnce SignalClaim LedgerMatchesRows
PROPERTIES
  FinalRowsStay
