\* An import of an older export stops half-way.
CONSTANTS
  Convs = {c1}
  Hidden = {}
  Deletable = {}
  Daily = {d1}
  Imports = {m1}
  PageLimit = 1
  StopAfter = 1
  MaxChanges = 2
  MaxFaults = 1
CHECK_DEADLOCK FALSE
SPECIFICATION Spec
INVARIANT IndexIsBacked
