SPECIFICATION FairSpec
CONSTANTS
  Daemons = {d1, d2}
  Clients = {c1}
  None = None
  Stale = Stale
  MaxCalls = 2
  MaxStarts = 3
  MaxStops = 1
  MaxKills = 1
  MaxFaults = 1
INVARIANTS
  TypeOK
  NoSocketLeft
  AckedUnlessShared
  IndInv
PROPERTIES
  CallEnds
  AloneServes
