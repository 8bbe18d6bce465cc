\* A single run on a git_branch primary, nothing fails.
CONSTANTS
  None = None
  Runs = {r1}
  EarlierRun = r0
  Seeds = {}
  Readers = {}
  Parties <- Everyone
  Mirrors = {}
  TTL = 1
  MaxSkew = 0
  MaxNow = 3
  SecondTicks = 2
  Commits = {0,1,2,3,4,5,6,7,8,9,10,11,12,13,14,15,16,17,18,19,20}
  MaxForeign = 0
  PrimaryKinds = {"git_branch"}
  Faults = {}
  BlindDelete = FALSE
SPECIFICATION Spec
CHECK_DEADLOCK FALSE
INVARIANT CasRefusedOnlyByOthers
