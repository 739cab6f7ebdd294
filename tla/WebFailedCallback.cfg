SPECIFICATION WebSpec
CONSTANTS
  Auth = {a1, a2}
  Session = {s1}
  Subject = {u1}
  Req = {r1, r2}
  Null = Null
  RowLife = 1
  SessionLife = 1
  MaxClock = 1
  Handlers = {"authorize", "google_start", "callback"}
  Prompts = {"absent", "none", "consent", "select_account"}
  Faults = {}
  MaxCookies = 1
SYMMETRY Symmetry
INVARIANTS
  FailedCallbackNoSession
CHECK_DEADLOCK FALSE
