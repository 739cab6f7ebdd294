SPECIFICATION WebSpec
CONSTANTS
  Auth = {a1, a2, a3, a4}
  Session = {s1}
  Subject = {u1}
  Req = {r1, r2}
  Null = Null
  RowLife = 1
  SessionLife = 1
  MaxClock = 1
  Handlers = {"authorize"}
  Prompts = {"absent", "none", "consent", "select_account"}
  Faults = {"database", "disconnect"}
  MaxCookies = 1
SYMMETRY Symmetry
INVARIANTS
  AtMostMaxCookies
CHECK_DEADLOCK FALSE
