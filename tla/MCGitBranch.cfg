\* Two processes with a working copy each, every call and every fault.
CONSTANTS
  None = None
  Failed = Failed
  latest = latest
  snapshot = snapshot
  a = a
  b = b
  blob = blob
  Tasks = {t1, t2}
  Copies = {t1, t2}
  CopyOf <- OwnCopy
  Keys = {latest, snapshot}
  Bodies = {a, b, blob}
  Calls <- RunCalls
  Faults = {"fetch", "push", "lost_ack"}
  MaxCommits = 3
SYMMETRY Interchangeable
SPECIFICATION Spec
CHECK_DEADLOCK FALSE
PROPERTIES ImplementsAtomicStore SwapReplacesWhatWasRead HistoryKept
