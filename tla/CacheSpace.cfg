\* One key more than the cache holds, so that an overflow evicts two of four.
SPECIFICATION Spec
CONSTANTS
  MaxSize = 4
  ClearSize = 2
  Keys = {"k1", "k2", "k3", "k4", "k5"}
  Values = {"", "a"}
  EmptyStr = ""
  Nothing = Nothing
INVARIANTS TypeOK OneEntryPerKey WithinMaxSize
PROPERTIES RecentSurvive ImplementsForgetfulMap
