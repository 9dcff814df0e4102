SPECIFICATION Spec
CONSTANTS
  Partitions = {p1, p2}
  MaxLog = 2
INVARIANT AnnouncedMeansAll
CHECK_DEADLOCK FALSE
