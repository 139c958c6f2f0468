\* A bulk mark or a reviewed close, and one more call, on two positions of one symbol.
SPECIFICATION FairSpec
CONSTANTS
  None = None
  p1 = p1
  p2 = p2
  btc = btc
  server = server
  h1 = h1
  h2 = h2
  Positions = {p1, p2}
  Symbols = {btc}
  SymbolOf <- BothOnOne
  Covered = {btc}
  LiveMode = TRUE
  Servers = {server}
  Handlers = {h1, h2}
  ServerOf <- SameServer
  KindsOf <- OneIsBulk
  TTL = 2
  LiveWidth = 1
  MockWidth = 2
  MaxTime = 2
CHECK_DEADLOCK FALSE
INVARIANTS
  MarksHaveRows MarksAreFresh
PROPERTIES
  ClosedStays CallsEnd
