SPECIFICATION Spec
CONSTANTS
  Session = {s1}
  Code = {c1, c2}
  Family = {f1, f2}
  Member = {m1, m2}
  Req = {r1, r2}
  Null = Null
  MaxSessionLife = 2
  MaxCodeLife = 1
  FamilyLife = 1
  MaxClock = 1
SYMMETRY Symmetry
INVARIANTS
  TypeOK
  SnapshotsCurrent
  WaitsOnlyForSession
  LogoutIsComplete
  OneLiveMember
  TimesTellTheStory
  RefusalIsFinal
PROPERTIES
  SuccessWasLive
  RefusedChangesNothing
  RevocationHitsItsTarget
  ImplementsLedger
