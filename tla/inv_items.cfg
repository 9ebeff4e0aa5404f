\* One character with equipment, inventory, bank, overflow and a stackable item.
SPECIFICATION ItemSpec
CONSTANTS
  Chars = {c1}
  RowIds = {r1, r2}
  Keys = {ammo, bag}
  bag = bag
  Backpacks = {9}
  FirstInvSlot = 1
  InvLimit = 3
  AnySlot = 3
  ShopCapacity = 0
  Stackable = {ammo}
  Depletable = {ammo}
  BagKey = bag
  Shops = {}
  TempIds = {}
  TempItems = {}
  MsgSlots = {0, 1, 3}
  MsgStacks = {1}
  MaxBatch = 1
  MaxLeaks = 0
  MaxStack = 2
  NULL = NULL
  c1 = c1
  r1 = r1
  r2 = r2
  ammo = ammo
SYMMETRY RowSymmetry
CONSTRAINT BoundedStacks
INVARIANTS
  FreeSlotFound
  HotswapEmpty
  SlotSearchIsTheWalk
PROPERTY StacksKeepUnits
