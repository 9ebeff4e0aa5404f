\* A purchase in the shop of a registered character.
SPECIFICATION ShopSpec
CONSTANTS
  Chars = {c1, c2}
  RowIds = {r1, r2}
  Keys = {item}
  Backpacks = {9}
  FirstInvSlot = 1
  InvLimit = 2
  AnySlot = 2
  ShopCapacity = 1
  Stackable = {}
  Depletable = {}
  BagKey = item
  Shops = {7}
  TempIds = {}
  TempItems = {}
  MsgSlots = {1}
  MsgStacks = {1}
  MaxBatch = 1
  MaxLeaks = 0
  MaxStack = 1
  NULL = NULL
  c1 = c1
  c2 = c2
  r1 = r1
  r2 = r2
  item = item
SYMMETRY Symmetry
CONSTRAINT BoundedStacks
PROPERTY KnownShopDelivers
