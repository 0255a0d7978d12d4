CONSTANTS
  Clients = {c1, c2}
  Keys = {k1, k2}
  Data = {d}
  BatchSize = 2
  ChannelCapacity = 3
  MaxRows = 3
  Faults = {}
SPECIFICATION Spec
INVARIANT ShutdownFlushesPending
