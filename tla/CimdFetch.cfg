SPECIFICATION FairSpec
CONSTANTS
  Client = {c1, c2}
  Req = {r1, r2}
  Null = Null
  Capacities = {1, 2}
  MaxEntries = 1
  MaxTtl = 2
  ShortLease = 1
  Timeout = 1
  CacheControl <- Headers
  Ages = {0, 1}
  MaxClock = 3
INVARIANTS
  PublicationInOrder
  StalenessBounded
  LimitsHold
PROPERTIES
  CallsReturn
