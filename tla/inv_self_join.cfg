\* A stack moved within the inventory.
SPECIFICATION ItemSpec
CONSTANTS
  Chars = {c1}
  RowIds = {r1, r2}
  Keys = {ammo, bag}
  bag = bag
  Backpacks = {9}
  FirstInvSlot = 1
  InvLimit = 3
  AnySlot = 3
  ShopCapacity = 0
  Stackable = {ammo}
  Depletable = {ammo}
  BagKey = bag
  Shops = {}
  TempIds = {t1}
  t1 = t1
  TempItems = {}
  MsgSlots = {0, 1, 2, 3}
  MsgStacks = {1}
  MaxBatch = 1
  MaxLeaks = 1
  MaxStack = 1
  NULL = NULL
  c1 = c1
  r1 = r1
  r2 = r2
  ammo = ammo
SYMMETRY RowSymmetry
CONSTRAINT BoundedStacks
PROPERTY JoinKeepsUnits
