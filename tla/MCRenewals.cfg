\* A short capture and one renewal of the token.
CONSTANTS
  MaxPages = 1
  MaxChanges = 1
  Faults = {}
  MaxRenewals = 1
  Site = Site
  Stranger = Stranger
SPECIFICATION LifeFairSpec
CHECK_DEADLOCK FALSE
PROPERTY SavesRenewals
