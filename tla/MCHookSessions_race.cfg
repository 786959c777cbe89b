SPECIFICATION Spec
SYMMETRY Symmetry
CONSTANTS
  Conns = {c1, c2}
  SessionIds = {s1, s2}
  Objects = {o1, o2, o3}
  NoObject = NoObject
  NoName = NoName
  Methods = {"session.start", "session.stop", "hook.prompt", "hook.pre_tool"}
  Literals = {l1, l2}
  Prefixes = {P1}
  MaxItems = 2
  MaxCounter = 2
  MaxRequests = 3
  MaxEpoch = 1
  MaxAuditErrors = 1
INVARIANTS
  TypeOK
  ShownResolves
  RehydratesShown
  ShownIsAudited
  OwnSecretsOnly
  OneNamePerLiteral
  NoMintCollision
  IndInv
