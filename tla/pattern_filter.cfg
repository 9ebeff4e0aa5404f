\* A change of the filter while a search runs.
SPECIFICATION Spec
CONSTANTS
  Bosses = 2
  Settings = {s1, s2}
  s1 = s1
  s2 = s2
  Default = s1
  Unknown = Unknown
  MinusOne = MinusOne
  MaxThreads = 3
  LockLeaks = FALSE
CHECK_DEADLOCK FALSE
INVARIANT SearchAppliesSettings
