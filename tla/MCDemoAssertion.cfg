CONSTANTS
  meta = meta
  flows = flows
  chrome = chrome
  demo_proc = demo_proc
  steam = steam
  ip1 = ip1
  ip2 = ip2
  ip3 = ip3
  d1 = d1
  NoDomain = NoDomain
  Openers = {"demo", "demoQuery", "capture", "query"}
  ReadOnly = {"demoQuery", "query"}
  Migrations <- MCMigrations
  SchemaVersion = 1
  MayFail = {"capture"}
  MaxOpens <- MCMaxOpens
  FakeRows <- MCFakeRows
  AggregatorRow <- MCAggregatorRow
  OtherRows <- MCOtherRows
  Last = 1
  ListLimit = 2
  FlushInterval = 1
  BatchSize = 3
  ChannelCapacity = 3
  WriterFaults = {}
  MaxOthers = 2
  MaxTime = 2
SPECIFICATION Spec
INVARIANT DemoRowListed
