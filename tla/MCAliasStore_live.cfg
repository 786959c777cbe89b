SPECIFICATION FairSpec
CONSTANTS
  Conns = {c1, c2}
  Main = Main
  Keys = {k1}
  Literals = {l1}
  None = None
  MaxOps = 3
  MaxFailures = 1
  MaxCrashes = 1
PROPERTIES
  Answered
