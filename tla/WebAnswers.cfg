SPECIFICATION WebSpec
CONSTANTS
  Auth = {a1, a2}
  Session = {s1}
  Subject = {u1}
  Req = {r1, r2}
  Null = Null
  RowLife = 1
  SessionLife = 1
  MaxClock = 1
  Handlers = {"authorize", "google_start", "callback", "consent_get", "consent_post", "logout"}
  Prompts = {"absent", "none", "consent", "select_account"}
  Faults = {"database", "disconnect"}
  MaxCookies = 1
SYMMETRY Symmetry
INVARIANTS
  AnswersAgree
  ClaimedCookiesCleared
  OneCodePerApproval
  CodesAreAnswered
PROPERTIES
  CodeNeedsApproval
CHECK_DEADLOCK FALSE
