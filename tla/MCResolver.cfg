CONSTANTS
  Ips = {a, b, lan}
  PublicIps = {a, b}
  Names = {n1}
  NoName = NoName
  RequestCapacity = 2
  ResultCapacity = 1
  PositiveTtl = 3
  NegativeTtl = 2
  CacheCapacity = 1
  LookupTimeout = 1
  Driven = TRUE
  MaxTime = 5
SPECIFICATION FairSpec
INVARIANTS TypeOK BoundedStaleness FailureForgottenInTime
PROPERTY RequestsAnswered
