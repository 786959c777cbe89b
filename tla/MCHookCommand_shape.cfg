SPECIFICATION Spec
CHECK_DEADLOCK FALSE
CONSTANTS
  s1 = s1
  k1 = k1
  k2 = k2
  SessionIds = {s1}
  Literals = {k1, k2}
  Prefixes = {"S"}
  NoName = NoName
  NoId = NoId
  Plain = Plain
  Empty = Empty
  NotString = NotString
  Events <- Events1
  LoneEvents <- LoneEvents1
  MaxHooks = 3
  MaxAtOnce = 2
  MaxKills = 1
  MaxLogErrors = 1
INVARIANTS
  ShapeKept
