\* Two sessions trade, mark and close over a clock that outlives the daily and
\* the weekly window; a position can lose 1 or 2 of the 3 it cost, or gain 1.
SPECIFICATION Spec
CONSTANTS
  None = None
  Sessions = {s1, s2}
  Intents = {i1, i2}
  Positions = {p1, p2}
  Signals = {}
  Sides = {"buy", "sell"}
  Leverages = {1, 2}
  Notionals = {2, 3}
  Valuations = {1, 4}
  BaseCapitals = {5, 10}
  MaxOpen = 2
  DailyLimit = 2
  WeeklyLimit = 3
  Day = 1
  Week = 2
  MaxTime = 3
SYMMETRY Symmetry
INVARIANTS
  TypeOK PositionPerApproval RealizedIsExact ExposureWithinGranted LossesCounted
  ReviewIsTheClose
