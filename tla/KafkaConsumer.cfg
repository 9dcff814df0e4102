SPECIFICATION Spec
CONSTANTS
  Partitions = {p1, p2}
  MaxLog = 2
INVARIANTS TypeOK AllEofStops EofNeverOvershoots
PROPERTY ProgramEnds
CHECK_DEADLOCK FALSE
