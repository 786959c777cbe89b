SPECIFICATION Spec
SYMMETRY Symmetry
CONSTANTS
  Daemons = {d1, d2}
  Clients = {c1}
  None = None
  Stale = Stale
  MaxCalls = 1
  MaxStarts = 2
  MaxStops = 0
  MaxKills = 0
  MaxFaults = 0
INVARIANTS
  RegisteredStays
