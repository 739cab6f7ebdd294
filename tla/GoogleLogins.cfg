SPECIFICATION FairSpec
CONSTANTS
  Kid = {k1, k2}
  Req = {r1, r2}
  Null = Null
  Capacities = {1, 2}
  FirstKeys = {{k1}, {k1, k2}}
  MaxAge = 1
  Backoff = 1
  Timeout = 1
  MaxHeader = 3
  MaxTransit = 2
  MaxRotations = 1
  MaxClock = 2
INVARIANTS
  LimitsHold
PROPERTIES
  WithdrawnKeysDie
  LoginsEnd
