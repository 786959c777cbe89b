SPECIFICATION Spec
SYMMETRY Symmetry
CONSTANTS
  Conns = {c1, c2}
  Main = Main
  Keys = {k1}
  Literals = {l1, l2}
  None = None
  MaxOps = 3
  MaxFailures = 0
  MaxCrashes = 0
INVARIANTS
  ForgetCollects
