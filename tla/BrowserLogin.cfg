SPECIFICATION LoginSpec
CONSTANTS
  Auth = {a1, a2}
  Session = {s1, s2}
  Subject = {u1}
  Req = {r1, r2}
  Null = Null
  RowLife = 1
  SessionLife = 1
  MaxClock = 1
SYMMETRY Symmetry
INVARIANTS
  CallbackClaimedOnce
  SessionHasItsCallback
  OneUserPerSubject
