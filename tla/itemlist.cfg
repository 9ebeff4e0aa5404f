SPECIFICATION ListSpec
CONSTANTS
  c = c
  k1 = k1
  k2 = k2
  t1 = t1
  t2 = t2
  Chars = {c}
  RowIds = {1, 2}
  Keys = {k1, k2}
  Backpacks = {1024}
  FirstInvSlot = 64
  NULL = NULL
  Texts = {t1, t2}
  Finds <- MCFinds
  NewRows <- MCNewRows
  Closed = Closed
INVARIANT ListTypeOK
PROPERTIES
  DeletesWhatWasAsked
  TypedIsSearched
