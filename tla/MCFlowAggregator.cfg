CONSTANTS
  p1 = p1
  p2 = p2
  ip1 = ip1
  FlowKeys <- MCFlowKeys
  ProcNames = {chrome}
  Domains = {d1}
  None = None
  FlushInterval = 2
  MaxEvents = 2
  MaxTime = 6
  MaxSkew = 2
SPECIFICATION Spec
INVARIANTS
  TypeOK
  BytesConserved
PROPERTY TimedFlushOpensNewWindow
