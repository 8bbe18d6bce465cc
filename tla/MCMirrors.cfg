\* Two runs that fan out to a mirror, or a run and a seed, or a seed alone, whose
\* clocks differ; calls fail and answers are lost.
CONSTANTS
  None = None
  Runs = {r1, r2}
  EarlierRun = r0
  Seeds = {s1}
  Readers = {}
  Parties <- RunsOrSeeds
  Mirrors = {m1}
  TTL = 2
  MaxSkew = 1
  MaxNow = 2
  SecondTicks = 2
  Commits = {0,1,2,3,4,5,6,7,8,9,10,11,12,13,14,15,16,17,18,19,20}
  MaxForeign = 0
  PrimaryKinds = {"s3"}
  Faults = {"error", "lost_ack"}
  BlindDelete = FALSE
SYMMETRY Interchangeable
SPECIFICATION Spec
CHECK_DEADLOCK FALSE
INVARIANTS HealthTruthful MirrorsCatchUp MirrorsFollow
PROPERTY ImplementsRegister
