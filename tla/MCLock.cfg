\* Three runs and the lock of a dead fourth, on either backend, every failure.
CONSTANTS
  None = None
  Runs = {r1, r2, r3}
  EarlierRun = r0
  TTL = 2
  MaxSkew = 1
  MaxNow = 3
  Commits = {0, 1, 2}
  PrimaryKinds = {"s3", "git_branch"}
  Faults = {"error", "lost_ack", "fetch", "crash"}
  BlindDelete = FALSE
SYMMETRY RunSymmetry
SPECIFICATION LockSpec
CHECK_DEADLOCK FALSE
INVARIANTS MutualExclusion BlockingIsBounded RefusalHasCause
PROPERTY LiveLockStays
