CONSTANTS
  p1 = p1
  ip1 = ip1
  ip2 = ip2
  chrome = chrome
  FlowKeys <- OneFlow
  ProcNames = {chrome}
  Domains = {d1}
  None = None
  FlushInterval = 2
  Processes <- MCProcesses
  PublicIps = {ip1}
  RequestCapacity = 1
  ResultCapacity = 1
  PositiveTtl = 2
  NegativeTtl = 1
  CacheCapacity = 1
  LookupTimeout = 1
  Driven = FALSE
  BatchSize = 2
  ChannelCapacity = 2
  WriterFaults = {}
  EventCapacity = 1
  RecvTimeout = 2
  EtwFaults = {"process"}
  MaxEvents = 2
  MaxTime = 6
  MaxRuns = 2
SPECIFICATION PromptSpec
INVARIANTS
  QuietMeansDurable
  EventsConserved
PROPERTIES
  OnlyLastFlushCollides
  DatabaseSpec
