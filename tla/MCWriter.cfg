CONSTANTS
  Clients = {c1, c2}
  Keys = {k1, k2}
  Data = {d}
  BatchSize = 2
  ChannelCapacity = 3
  MaxRows = 4
  Faults = {"prepare", "begin", "statement"}
SPECIFICATION FairSpec
INVARIANTS
  TypeOK
  OneFate
  InOrder
  FirstRowWins
  SilentLossBehindShutdown
PROPERTIES
  AtomicCommit
  SinkSpec
  RowsSettle
  ShutdownReturns
