\* The sessions, locks and separate reads implement the atomic ledger, and every
\* request of two sessions ends, whatever the other one holds.
SPECIFICATION FairSpec
CONSTANTS
  None = None
  Sessions = {s1, s2}
  Intents = {i1, i2}
  Positions = {p1, p2}
  Signals = {g1}
  Sides = {"buy"}
  Leverages = {1}
  Notionals = {3}
  Valuations = {1}
  BaseCapitals = {5, 10}
  MaxOpen = 1
  DailyLimit = 9
  WeeklyLimit = 9
  Day = 0
  Week = 0
  MaxTime = 0
PROPERTIES
  LedgerSpec RequestsEnd
