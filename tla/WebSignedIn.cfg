SPECIFICATION FairWebSpec
CONSTANTS
  Auth = {a1, a2, a3}
  Session = {s1}
  Subject = {u1}
  Req = {r1, r2}
  Null = Null
  RowLife = 1
  SessionLife = 1
  MaxClock = 0
  Handlers = {"authorize", "callback", "logout"}
  Prompts = {"absent", "none"}
  Faults = {}
  MaxCookies = 1
PROPERTIES
  HandlersAnswer
CHECK_DEADLOCK FALSE
