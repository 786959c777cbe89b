SPECIFICATION Spec
SYMMETRY Symmetry
CHECK_DEADLOCK FALSE
CONSTANTS
  Procs = {p1, p2}
  Absent = Absent
  Blank = Blank
  Broken = Broken
  Other = Other
  UserEntries = {e1}
  EditKeys = {"PreToolUse", "preToolUse"}
  TopKeys = {"model"}
  Enabled = {{}}
  MaxEdits = 1
  MaxOps = 3
  MaxFailures = 1
  MaxCrashes = 1
INVARIANTS
  TypeOK
  UserKept
  WiredAsOne
  InstallTwice
  UninstallUndoes
PROPERTIES
  FileWhole
