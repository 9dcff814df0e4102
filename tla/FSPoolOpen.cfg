\* A push frees the pooled context it has copied.
SPECIFICATION Spec
CONSTANTS
  MaxSize = 1
  ClearSize = 1
  KeySpace = 2
  Versions = {0, 1, 4}
  Chars = {"a", "b"}
  Nul = "0"
  Garbage = "?"
  SmallMax = 2
  None = None
  Handlers = {"h1", "h2"}
  Threads = {"t1"}
  ThreadOf <- OneThreadOf
  Slots = {0, 1}
  Keys = {0, 1}
  Requests <- OneOfEach
  ExtValues <- ExtStrings
  ExtVersions = {4}
  Faults = {}
INVARIANTS PooledContextsOpen
