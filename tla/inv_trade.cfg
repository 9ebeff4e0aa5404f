\* One character trading with an NPC and with another player, with a backpack.
SPECIFICATION TradeSpec
CONSTANTS
  Chars = {c1}
  RowIds = {r1, r2, r3}
  r3 = r3
  Keys = {ammo, bag}
  bag = bag
  Backpacks = {9}
  FirstInvSlot = 1
  InvLimit = 3
  AnySlot = 3
  ShopCapacity = 1
  Stackable = {}
  Depletable = {}
  BagKey = bag
  Shops = {}
  TempIds = {t1}
  t1 = t1
  TempItems = {q}
  q = q
  MsgSlots = {0, 1}
  MsgStacks = {1}
  MaxBatch = 1
  MaxLeaks = 1
  MaxStack = 1
  NULL = NULL
  c1 = c1
  r1 = r1
  r2 = r2
  ammo = ammo
SYMMETRY RowSymmetry
CONSTRAINT BoundedStacks
INVARIANTS
  TypeOK
  CommittedUnlessLocked
  CrashLosesOnlyDeletions
PROPERTIES
  TradeIsAtomic
  DeclineReturnsItems
  CommitDelivers
