SPECIFICATION Spec
CONSTANTS
  Null = Null
  UserInfo = "userinfo"
  Configs <- SomeConfigs
  Documents <- SomeDocuments
  Requests <- SomeRequests
  MaxTtl = 1
  ShortLease = 1
  MaxClock = 3
PROPERTIES
  GrantsFollowTheDocument
  TrustNeverChangesKind
  NothingBeyondConfiguration
  RefusedOnlyForCause
