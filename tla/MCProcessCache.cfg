CONSTANTS
  Pids = {p1, p2, p3}
  Idle = idle
  Programs = {chrome, code, lsass}
  Protected = {lsass}
  NoName = NoName
  InitialBuffer = 2
  MaxBuffer = 4
  MaxChanges = 2
  MaxEvents = 1
SPECIFICATION FairSpec
INVARIANTS
  TypeOK
  SettledNamesAreCurrent
  WrongNameOnlyAfterReuse
PROPERTY RefreshEnds
