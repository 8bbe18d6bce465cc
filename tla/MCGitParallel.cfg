\* Two parallel uploads of an import, in one working copy; nothing fails.
CONSTANTS
  None = None
  Failed = Failed
  latest = latest
  snapshot = snapshot
  a = a
  b = b
  blob = blob
  Tasks = {t1, t2}
  Copies = {copy}
  CopyOf <- OneCopy
  Keys = {latest, snapshot}
  Bodies = {a, b, blob}
  Calls <- ImportCalls
  Faults = {}
  MaxCommits = 3
SYMMETRY Interchangeable
SPECIFICATION Spec
CHECK_DEADLOCK FALSE
PROPERTY UploadsArrive
