\* Two uploads of two files and a billing request around one change of month.
SPECIFICATION FairSpec
CONSTANTS
  None = None
  Requests = {r1, r2}
  Viewers = {v1}
  Amounts = {2}
  Limit = 3
  TTL = 1
  MonthLength = 2
  MaxTime = 2
CHECK_DEADLOCK FALSE
PROPERTIES
  MeterSpec RequestsAnswered
