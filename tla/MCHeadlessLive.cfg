CONSTANTS
  p1 = p1
  ip1 = ip1
  ip2 = ip2
  chrome = chrome
  FlowKeys <- OneFlow
  ProcNames = {chrome}
  Domains = {d1}
  None = None
  FlushInterval = 1
  Processes <- MCProcesses
  PublicIps = {ip1}
  RequestCapacity = 1
  ResultCapacity = 1
  PositiveTtl = 2
  NegativeTtl = 1
  CacheCapacity = 1
  LookupTimeout = 1
  Driven = TRUE
  BatchSize = 2
  ChannelCapacity = 1
  WriterFaults = {}
  EventCapacity = 1
  RecvTimeout = 1
  EtwFaults = {"start", "process"}
  MaxEvents = 2
  MaxTime = 1
  MaxRuns = 1
SPECIFICATION FairSpec
PROPERTY StopTerminates
