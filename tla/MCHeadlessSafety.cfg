CONSTANTS
  p1 = p1
  ip1 = ip1
  ip2 = ip2
  chrome = chrome
  FlowKeys <- TwoFlows
  ProcNames = {chrome}
  Domains = {d1}
  None = None
  FlushInterval = 2
  Processes <- MCProcesses
  PublicIps = {ip1}
  RequestCapacity = 1
  ResultCapacity = 1
  PositiveTtl = 2
  NegativeTtl = 1
  CacheCapacity = 1
  LookupTimeout = 1
  Driven = FALSE
  BatchSize = 2
  ChannelCapacity = 1
  WriterFaults = {"prepare", "statement"}
  EventCapacity = 1
  RecvTimeout = 1
  EtwFaults = {"start", "process", "control"}
  MaxEvents = 2
  MaxTime = 3
  MaxRuns = 1
SPECIFICATION Spec
INVARIANTS
  TypeOK
  EventsConserved
  ExitSettlesEverything
