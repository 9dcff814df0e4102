\* One worker thread, two connections, keys 1 and 3 in one hash, a cache of one
\* entry: every interleaving of callbacks, Redis errors and another writer.
SPECIFICATION Spec
CONSTANTS
  MaxSize = 1
  ClearSize = 1
  KeySpace = 2
  Versions = {0, 1, 4}
  Chars = {"a", "b"}
  Nul = "0"
  Garbage = "?"
  SmallMax = 2
  None = None
  Handlers = {"h1", "h2"}
  Threads = {"t1"}
  ThreadOf <- OneThreadOf
  Slots = {0, 1}
  Keys = {0, 1, 3}
  Requests <- AllRequests
  ExtValues <- ExtStrings
  ExtVersions = {4}
  Faults = {"error"}
INVARIANTS TypeOK PullAnswersEveryKey Coherent
PROPERTIES StoredVersionsStay NoNewVersion MergedPushIsLost PushInvalidates
