SPECIFICATION Spec
CONSTANTS
  Null = Null
  Key = {k1, k2, k3}
  UserInfo = "userinfo"
  TokenLife = 2
  Skew = 1
  CacheLife = 2
  MaxClock = 12
SYMMETRY Symmetry
INVARIANTS
  TokensVerifyEverywhere
  TokensServeOnePurpose
