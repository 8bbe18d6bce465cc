\* Three puts and a get among two names, one asset to a page.
CONSTANTS
  None = None
  Putters = {p1, p2, p3}
  Getters = {g1}
  Names = {n1, n2}
  PageSize = 1
  Faults = {"error", "lost_ack"}
SYMMETRY Interchangeable
SPECIFICATION Spec
CHECK_DEADLOCK FALSE
INVARIANTS NamesSurvive PutRefusedForCause GetAnswersAMoment
