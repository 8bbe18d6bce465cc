\* Three pages, four changes of the jar, a Chrome that may die or not answer;
\* then runs, to whom the site gives up to two new tokens.
CONSTANTS
  MaxPages = 3
  MaxChanges = 4
  Faults = {"crash", "timeout"}
  MaxRenewals = 2
  Site = Site
  Stranger = Stranger
SPECIFICATION LifeFairSpec
CHECK_DEADLOCK FALSE
INVARIANTS WaitsForTheUser CapturesTheLastJar NothingSeenIsLost
           LifeTypeOK CheckpointStaysAlive
PROPERTIES CaptureReturns ProfileStaysOut
