SPECIFICATION Spec
SYMMETRY Symmetry
CONSTANTS
  Conns = {c1, c2}
  Main = Main
  Keys = {k1, k2}
  Literals = {l1, l2}
  None = None
  MaxOps = 3
  MaxFailures = 1
  MaxCrashes = 2
INVARIANTS
  TypeOK
  RefIntegrity
  ContentAddressed
  FileLoadable
  AckedDurable
  IndInv
PROPERTIES
  ImplementsAliasMap
  KeysIndependent
