SPECIFICATION FairTokenSpec
CONSTANTS
  Session = {s1}
  Code = {c1}
  Family = {f1}
  Member = {m1, m2}
  Req = {r1, r2}
  Null = Null
  MaxSessionLife = 1
  MaxCodeLife = 1
  FamilyLife = 1
  MaxClock = 1
INVARIANTS
  RevokeAnswerMeansRevoked
PROPERTIES
  RetryIsNoReplay
  CallsAnswered
