\* Two worker threads with a connection each and two pool slots: they share
\* slots, swap replies, race in the cache and free each other's context.
SPECIFICATION Spec
CONSTANTS
  MaxSize = 1
  ClearSize = 1
  KeySpace = 2
  Versions = {0, 1, 4}
  Chars = {"a", "b"}
  Nul = "0"
  Garbage = "?"
  SmallMax = 2
  None = None
  Handlers = {"h1", "h2"}
  Threads = {"t1", "t2"}
  ThreadOf <- TwoThreadOf
  Slots = {0, 1}
  Keys = {0, 1, 2}
  Requests <- RacingRequests
  ExtValues <- ExtStrings
  ExtVersions = {4}
  Faults = {}
INVARIANTS PullAnswersEveryKey Coherent
