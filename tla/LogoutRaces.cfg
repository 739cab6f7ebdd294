SPECIFICATION Spec
CONSTANTS
  Session = {s1, s2}
  Challenge = {c1, c2}
  Client = {rp}
  Req = {r1, r2}
  Null = Null
  SessionLife = 1
  ChallengeLife = 1
  Skew = 1
  MaxTokens = 1
  MaxClock = 1
SYMMETRY Symmetry
INVARIANTS
  OneLogoutPerSession
  LogoutTakesGrants
PROPERTIES
  SilentLogoutIsOwn
  GenuineHintNeverAsks
