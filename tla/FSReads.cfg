\* Two threads that only pull and delete cache entries, with every kind of
\* failure and a restart after it.  All keys are one hash, which others write
\* twice, so that a cached value can go stale.
SPECIFICATION Spec
CONSTANTS
  MaxSize = 1
  ClearSize = 1
  KeySpace = 1
  Versions = {0, 1, 4}
  Chars = {"a", "b"}
  Nul = "0"
  Garbage = "?"
  SmallMax = 2
  None = None
  Handlers = {"h1", "h2"}
  Threads = {"t1", "t2"}
  ThreadOf <- TwoThreadOf
  Slots = {0}
  Keys = {0, 1, 3}
  Requests <- ReadRequests
  ExtValues <- TwoStrings
  ExtVersions = {1, 4}
  Faults = {"error", "null", "kill", "abort"}
INVARIANTS NeverUsesFreed Coherent PullAnswersEveryKey
