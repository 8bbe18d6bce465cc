\* Two runs and a reader, two seeds and a reader, or a run and a seed; a run may
\* outlive its lease or be killed, and on a git branch a fetch may fail.
CONSTANTS
  None = None
  Runs = {r1, r2}
  EarlierRun = r0
  Seeds = {s1, s2}
  Readers = {v1}
  Parties <- RunsOrSeeds
  Mirrors = {}
  TTL = 1
  MaxSkew = 0
  MaxNow = 2
  SecondTicks = 2
  Commits = {0,1,2,3,4,5,6,7,8,9,10,11,12,13,14,15,16,17,18,19,20}
  MaxForeign = 0
  PrimaryKinds = {"s3", "git_branch"}
  Faults = {"crash", "fetch"}
  BlindDelete = FALSE
SYMMETRY Interchangeable
SPECIFICATION Spec
CHECK_DEADLOCK FALSE
INVARIANTS TypeOK InstalledResolves RestoreNeverTorn ConflictHasCause
PROPERTIES ImplementsRegister ImplementsLock
