\* Daily runs, one after the other, and an import that may overlap any of them, of
\* a user who goes on chatting.
CONSTANTS
  Convs = {c1, c2, c3, c4}
  Hidden = {c4}
  Deletable = {c1}
  Daily = {d1}
  Imports = {m1}
  PageLimit = 1
  StopAfter = 2
  MaxChanges = 3
  MaxFaults = 2
CHECK_DEADLOCK FALSE
SPECIFICATION FairSpec
INVARIANTS ChatsTypeOK EarlyStopIsSound IndexIsBackedAlone
PROPERTIES NoLostUpdate DailyRunsCatchUp
