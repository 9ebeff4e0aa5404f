\* The data base lock is kept while a search runs.
SPECIFICATION Spec
CONSTANTS
  Bosses = 2
  Settings = {s1, s2}
  s1 = s1
  s2 = s2
  Default = s1
  Unknown = Unknown
  MinusOne = MinusOne
  MaxThreads = 3
  LockLeaks = TRUE
CHECK_DEADLOCK FALSE
PROPERTY StopAlwaysReturns
