--------------------------- MODULE InventoryView ---------------------------
(***************************************************************************)
(* The message handlers of the inventory view: every message of the game   *)
(* that changes the item data base, with the lock and the transaction it   *)
(* runs under, and the caches that resolve the client's temporary ids.     *)
(*                                                                         *)
(* All handlers run on the window's thread, one message at a time, so a    *)
(* handler is one action; the ones that loop over the 36 slots of a trade  *)
(* window are a task whose steps are the iterations.  The process may end  *)
(* between any two steps.                                                  *)
(***************************************************************************)
EXTENDS ItemTable

CONSTANTS
  InvLimit,      \* 94 in the code: the first slot beyond the inventory
  AnySlot,       \* 0x6f in the code: a message slot that means "find one"
  ShopCapacity,  \* 35 in the code: the last slot of a trade window
  Stackable,     \* keys with PROP_STACKABLE and without PROP_NO_SPLIT
  Depletable,    \* keys with one of the flags 4196368
  BagKey,        \* 99228, the template of a partner's backpack
  Shops,         \* ids of player shops
  TempIds,       \* temporary container ids a client hands out
  TempItems,     \* temporary item ids a client hands out
  MsgSlots,      \* slots that occur in messages
  MsgStacks,     \* stack sizes that occur in messages
  MaxBatch,      \* bound on the items of one bulk message
  MaxLeaks       \* bound on the early returns that keep the lock

ASSUME ViewAssumption ==
  /\ InvLimit \in Nat /\ FirstInvSlot < InvLimit
  /\ AnySlot \in Nat /\ InvLimit <= AnySlot
  /\ ShopCapacity \in Nat
  /\ Stackable \subseteq Keys /\ Depletable \subseteq Keys
  /\ BagKey \in Keys \ Stackable
  /\ Shops \subseteq Nat \ {0}
  /\ MsgSlots \subseteq Nat /\ MsgStacks \subseteq Nat
  /\ MaxBatch \in Nat /\ MaxLeaks \in Nat

VARIABLES
  items,      \* tItems as this process sees it
  toons,      \* tToons: the shop registered for each character
  disk,       \* what a restart would find: the last committed items and toons
  inTxn,      \* a transaction is open on the connection
  lockDepth,  \* how often the window's thread holds g_DBManager's mutex
  contCache,  \* TempContainerCache::m_containerIdCache, 0 where absent
  slotCache,  \* TempContainerCache::m_invSlotForTempItemCache, 0 where absent
  task        \* the loop the handler in progress is in

vars == <<items, toons, disk, inTxn, lockDepth, contCache, slotCache, task>>
db     == <<items, toons, disk, inTxn>>
caches == <<contCache, slotCache>>

NoToon == -1
NoShop == 0
NoTask == [kind |-> "none"]

-----------------------------------------------------------------------------
\* Transactions.  Begin, Commit and Rollback ignore errors: a BEGIN inside an
\* open transaction does nothing, and the next COMMIT commits all of it.

\* Mutant: the handler returns before Commit().
TransactionLeftOpen(t) ==
  /\ items' = t
  /\ inTxn' = TRUE
  /\ UNCHANGED <<toons, disk, lockDepth, task>>

Transaction(t) ==
  /\ items' = t
  /\ disk' = [items |-> t, toons |-> toons]
  /\ inTxn' = FALSE
  /\ UNCHANGED <<toons, lockDepth, task>>

Statement(t) ==   \* no BEGIN: joins an open transaction or commits by itself
  /\ items' = t
  /\ disk' = IF inTxn THEN disk ELSE [items |-> t, toons |-> toons]
  /\ UNCHANGED <<toons, inTxn, lockDepth, task>>

SetToon(c, shop) ==
  /\ toons' = [toons EXCEPT ![c] = shop]
  /\ disk' = [items |-> items, toons |-> toons']
  /\ inTxn' = FALSE
  /\ UNCHANGED <<items, lockDepth, task, caches>>

\* Lock() and Begin(), then a return that skips Commit() and UnLock().
ReturnHoldingLock ==
  /\ lockDepth < MaxLeaks
  /\ lockDepth' = lockDepth + 1
  /\ inTxn' = TRUE
  /\ UNCHANGED <<items, toons, disk, caches, task>>

\* Mutant: the handler does not call Begin().
StartTaskWithoutBegin(t, new) ==
  /\ items' = t
  /\ disk' = IF inTxn THEN disk ELSE [items |-> t, toons |-> toons]
  /\ task' = new
  /\ lockDepth' = lockDepth + 1
  /\ UNCHANGED <<toons, inTxn, caches>>

StartTask(t, new) ==   \* Lock(), Begin(), statements before the loop
  /\ items' = t
  /\ task' = new
  /\ lockDepth' = lockDepth + 1
  /\ inTxn' = TRUE
  /\ UNCHANGED <<toons, disk, caches>>

TaskStatement(t, new) ==   \* a statement of the loop, as Statement
  /\ items' = t
  /\ disk' = IF inTxn THEN disk ELSE [items |-> t, toons |-> toons]
  /\ task' = new
  /\ UNCHANGED <<toons, inTxn, lockDepth, caches>>

\* Mutants: UnLock() without Commit(), and UnLock() twice.
EndTaskUncommitted(t) ==
  /\ items' = t
  /\ lockDepth' = lockDepth - 1
  /\ task' = NoTask
  /\ UNCHANGED <<toons, disk, inTxn, caches>>

EndTaskUnlocksTwice(t) ==
  /\ items' = t
  /\ disk' = [items |-> t, toons |-> toons]
  /\ inTxn' = FALSE
  /\ lockDepth' = lockDepth - 2
  /\ task' = NoTask
  /\ UNCHANGED <<toons, caches>>

EndTask(t) ==   \* statements after the loop, Commit(), UnLock()
  /\ items' = t
  /\ disk' = [items |-> t, toons |-> toons]
  /\ inTxn' = FALSE
  /\ lockDepth' = lockDepth - 1
  /\ task' = NoTask
  /\ UNCHANGED <<toons, caches>>

Idle == task = NoTask

-----------------------------------------------------------------------------
\* Helpers of the handlers.

FromRefs == [at : {"box"}, id : {INV_TOONINV, INV_BANK, INV_TRADE, INV_OVERFLOW,
                                 NoContainer}]
            \cup [at : {"temp"}, id : TempIds]

GetFromContainerId(c, ref) ==
  IF ref.at = "temp" THEN contCache[c][ref.id] ELSE ref.id

NextSlot(t, c, box) == FindNextAvailableContainerSlot(t, c, box)

SlotFor(t, c, box, slot) == IF slot >= AnySlot THEN NextSlot(t, c, box) ELSE slot

NewRow(c, key, stack, box, slot, kids) ==
  [key |-> key, stack |-> stack, parent |-> box, slot |-> slot,
   children |-> kids, owner |-> c]

AddRow(t, i, row) == InsertItem(t, i, row)

\* The contents of a bulk message: any rows of the given box and owner.  What
\* carries a container (children) is not a stack.
BatchRow(c, box, kids) ==
  {row \in [key : Keys, stack : MsgStacks, parent : {box}, slot : MsgSlots,
            children : kids, owner : {c}] :
     row.key \in Stackable => row.children = NoContainer}

Batches(t, c, box, kids) ==
  UNION {[ids -> BatchRow(c, box, kids)] :
          ids \in {s \in SUBSET FreeIds(t) : Cardinality(s) <= MaxBatch}}

MoveSlot(t, c, from, slot, box) ==
  MoveTo(t, At(t, c, from, slot), box, NextSlot(t, c, box))

ShopOwners(shop) == {c \in Chars : toons[c] = shop}

\* The (owner, container) pair GetShopOwner leads the handlers to.
ShopTargets(c, shop) ==
  IF ShopOwners(shop) = {}
  THEN {[owner |-> c, box |-> INV_OTHER_PLAYERSHOP]}
  ELSE {[owner |-> o, box |-> INV_PLAYERSHOP] : o \in ShopOwners(shop)}

-----------------------------------------------------------------------------
\* Messages the client sends.

GiveToNpc(c, ref, slot, direction) ==
  LET from == GetFromContainerId(c, ref)
      to   == IF direction = 1 THEN INV_TOONINV ELSE INV_TRADE
  IN  /\ Idle
      /\ direction = 1 => from = INV_TRADE
      /\ Transaction(MoveSlot(items, c, from, slot, to))
      /\ UNCHANGED caches

EndNpcTrade(c) ==
  /\ Idle
  /\ StartTask(items, [kind |-> "endnpc", char |-> c, i |-> 0])

SplitStack(c, ref, slot, count) ==
  LET from  == GetFromContainerId(c, ref)
      src   == At(items, c, from, slot)
      fresh == NextSlot(items, c, from)
  IN  /\ Idle
      /\ from # NoContainer
      /\ \E new \in {ids \in SUBSET FreeIds(items) :
                       Cardinality(ids) = Cardinality(src)} :
           \E of \in [new -> src] :
             /\ \A i \in src : \E j \in new : of[j] = i
             /\ LET copies == [j \in new |-> [items[of[j]] EXCEPT !.stack = count,
                                                                  !.slot = fresh]]
                    both   == InsertAll(items, copies)
                IN  Transaction(AddToStack(both, At(both, c, from, slot), -count))
      /\ UNCHANGED caches

ClientDeleteItem(c, ref, slot, key) ==
  LET from == GetFromContainerId(c, ref)
  IN  /\ Idle
      /\ from # NoContainer
      /\ Transaction(Delete(items, {i \in At(items, c, from, slot) :
                                      items[i].key = key}))
      /\ UNCHANGED caches

\* SPLITSTACK and DELETEITEM (client's and server's) from a container whose
\* temporary id is not cached, or from a source the view ignores.
ActionOnUnknownContainer(c, ref) ==
  /\ Idle
  /\ GetFromContainerId(c, ref) = NoContainer
  /\ ReturnHoldingLock

-----------------------------------------------------------------------------
\* Messages of the server: character actions.

ServerDeleteItem(c, ref, slot) ==
  LET from == GetFromContainerId(c, ref)
  IN  /\ Idle
      /\ from # NoContainer
      /\ Transaction(Delete(items, At(items, c, from, slot)))
      /\ UNCHANGED caches

DeleteTempItem(c, temp) ==
  /\ Idle
  /\ slotCache[c][temp] > 0
  /\ Statement(Delete(items, At(items, c, INV_TOONINV, slotCache[c][temp])))
  /\ UNCHANGED caches

JoinStacks(c, ref, slot, removedRef, removedSlot) ==
  LET from    == GetFromContainerId(c, ref)
      removed == At(items, c, GetFromContainerId(c, removedRef), removedSlot)
  IN  /\ Idle
      /\ from # NoContainer
      /\ \E n \in StackOf(items, removed) :
           Transaction(Delete(AddToStack(items, At(items, c, from, slot), n),
                              removed))
      /\ UNCHANGED caches

\* MSG_PARTNER_TRADE: 0x55 and 0x56, the partner's side of the trade window;
\* 0x57, a tradeskill result; 0x03, an item used up.
PartnerAddsItem(c, key, stack) ==
  /\ Idle
  /\ \E i \in FreeIds(items) :
       Transaction(AddRow(items, i,
         NewRow(c, key, stack, INV_TRADEPARTNER,
                NextSlot(items, c, INV_TRADEPARTNER), NoContainer)))
  /\ UNCHANGED caches

PartnerRemovesItem(c, slot) ==
  /\ Idle
  /\ Transaction(Delete(items, At(items, c, INV_TRADEPARTNER, slot)))
  /\ UNCHANGED caches

TradeskillResult(c, key, stack, slot) ==
  /\ Idle
  /\ \E i \in FreeIds(items) :
       Transaction(AddRow(items, i,
         NewRow(c, key, stack, INV_OVERFLOW,
                SlotFor(items, c, INV_OVERFLOW, slot), NoContainer)))
  /\ UNCHANGED caches

ItemUsed(c, ref, slot, key) ==
  LET hit(t) == {i \in At(t, c, GetFromContainerId(c, ref), slot) :
                   t[i].key = key /\ key \in Depletable}
      less   == AddToStack(items, hit(items), -1)
  IN  /\ Idle
      /\ Transaction(Delete(less, {i \in hit(less) : less[i].stack = 0}))
      /\ UNCHANGED caches

-----------------------------------------------------------------------------
\* Trades.  NPC and player trades fill INV_TRADE and INV_TRADEPARTNER.

\* MSG_ACCEPT_NPC_TRADE: a list of rejected types, then the rest is gone.
NpcAccept(c) ==
  /\ Idle
  /\ StartTask(items, [kind |-> "npcaccept", char |-> c, i |-> 0])

NpcRejects(key) ==
  LET c == task.char
  IN  /\ task.kind = "npcaccept"
      /\ task.i < MaxBatch
      /\ NextSlot(items, c, INV_TOONINV) < InvLimit
      /\ TaskStatement(
           MoveTo(items, {i \in In(items, c, INV_TRADE) : items[i].key = key},
                  INV_TOONINV, NextSlot(items, c, INV_TOONINV)),
           [task EXCEPT !.i = @ + 1])

NpcAcceptDone ==
  /\ task.kind = "npcaccept"
  /\ EndTask(Delete(items, In(items, task.char, INV_TRADE)))

\* MSG_SHOP_TRANSACTION by operation: 0 start, 2 decline, 4 commit, 5 add,
\* 6 remove, 8 and 9 a partner's backpack.
TradeStart(c) ==
  /\ Idle
  /\ Transaction(Delete(items, In(items, c, INV_TRADE)
                               \cup In(items, c, INV_TRADEPARTNER)))
  /\ UNCHANGED caches

TradeDecline(c) ==
  /\ Idle
  /\ StartTask(items, [kind |-> "decline", char |-> c, i |-> 0])

InventoryFull(t, c) == NextSlot(t, c, INV_TOONINV) >= InvLimit

\* One iteration of the loop that moves the own side of the window back.
MoveBack ==
  /\ task.kind \in {"decline", "endnpc"}
  /\ task.i <= ShopCapacity
  /\ ~InventoryFull(items, task.char)
  /\ TaskStatement(MoveSlot(items, task.char, INV_TRADE, task.i, INV_TOONINV),
                   [task EXCEPT !.i = @ + 1])

\* Mutant: the loop stops one slot early.
MoveBackStopsEarly ==
  /\ task.kind \in {"decline", "endnpc"}
  /\ task.i >= ShopCapacity \/ InventoryFull(items, task.char)
  /\ EndTask(IF task.kind = "decline"
             THEN Delete(items, In(items, task.char, INV_TRADEPARTNER))
             ELSE items)

MoveBackDone ==
  /\ task.kind \in {"decline", "endnpc"}
  /\ task.i > ShopCapacity \/ InventoryFull(items, task.char)
  /\ EndTask(IF task.kind = "decline"
             THEN Delete(items, In(items, task.char, INV_TRADEPARTNER))
             ELSE items)

TradeCommit(c) ==
  LET bags     == {items[i].children : i \in In(items, c, INV_TRADE)} \ {NoContainer}
      contents == {i \in DOMAIN items : items[i].owner = c /\ items[i].parent \in bags}
      kept     == Delete(items, contents)
  IN  /\ Idle
      /\ StartTask(Delete(kept, In(kept, c, INV_TRADE)),
                   [kind |-> "commit", char |-> c, i |-> 0])

GrabStuff ==
  /\ task.kind = "commit"
  /\ task.i <= ShopCapacity
  /\ TaskStatement(
       MoveSlot(items, task.char, INV_TRADEPARTNER, task.i, INV_TOONINV),
       [task EXCEPT !.i = @ + 1])

\* Mutant: the loop stops one slot early.
TradeCommitStopsEarly ==
  /\ task.kind = "commit"
  /\ task.i >= ShopCapacity
  /\ EndTask(items)

TradeCommitDone ==
  /\ task.kind = "commit"
  /\ task.i > ShopCapacity
  /\ EndTask(items)

TradeAdd(c, ref, slot) ==
  /\ Idle
  /\ Transaction(MoveSlot(items, c, GetFromContainerId(c, ref), slot, INV_TRADE))
  /\ UNCHANGED caches

TradeRemove(c, slot) ==
  /\ Idle
  /\ Transaction(MoveSlot(items, c, INV_TRADE, slot, INV_TOONINV))
  /\ UNCHANGED caches

PartnerAddsBackpack(c, bag) ==
  /\ Idle
  /\ \E i \in FreeIds(items) :
       Transaction(AddRow(items, i,
         NewRow(c, BagKey, 1, INV_TRADEPARTNER,
                NextSlot(items, c, INV_TRADEPARTNER), bag)))
  /\ UNCHANGED caches

PartnerRemovesBackpack(c, bag) ==
  /\ Idle
  /\ Transaction(Delete(items, {i \in In(items, c, INV_TRADEPARTNER) :
                                  items[i].children = bag}))
  /\ UNCHANGED caches

-----------------------------------------------------------------------------
\* Trades with a player shop.  Items leave the shop as duplicates in
\* INV_TRADEPARTNER; the commit deletes the originals and moves both sides.

ShopTradeAdd(c, shop, slot) ==
  /\ Idle
  /\ \E tgt \in ShopTargets(c, shop) :
       LET src == At(items, tgt.owner, tgt.box, slot)
       IN  \E new \in {ids \in SUBSET FreeIds(items) :
                         Cardinality(ids) = Cardinality(src)} :
             \E of \in [new -> src] :
               /\ \A i \in src : \E j \in new : of[j] = i
               /\ Transaction(InsertAll(items,
                    [j \in new |-> [items[of[j]] EXCEPT !.parent = INV_TRADEPARTNER,
                                                        !.owner = c]]))
  /\ UNCHANGED caches

\* Mutant: the DELETE does not name the owner.
ShopTradeRemoveForAll(c, slot) ==
  /\ Idle
  /\ Transaction(Delete(items, {i \in DOMAIN items :
                  items[i].parent = INV_TRADEPARTNER /\ items[i].slot = slot}))
  /\ UNCHANGED caches

ShopTradeRemove(c, slot) ==
  /\ Idle
  /\ Transaction(Delete(items, At(items, c, INV_TRADEPARTNER, slot)))
  /\ UNCHANGED caches

ShopTradeCommit(c, shop) ==
  /\ Idle
  /\ \E tgt \in ShopTargets(c, shop) :
       LET bought == {items[i].slot : i \in In(items, c, INV_TRADEPARTNER)}
       IN  StartTask(Delete(items, {i \in In(items, tgt.owner, tgt.box) :
                                      items[i].slot \in bought}),
                     [kind |-> "shopgrab", char |-> c, i |-> 0,
                      owner |-> tgt.owner, box |-> tgt.box])

GiveTo(t, ids, c) ==
  [j \in DOMAIN t |-> IF j \in ids THEN [t[j] EXCEPT !.owner = c] ELSE t[j]]

ShopGrab ==
  LET ids == At(items, task.owner, INV_TRADEPARTNER, task.i)
  IN  /\ task.kind = "shopgrab"
      /\ TaskStatement(
           GiveTo(MoveTo(items, ids, INV_TOONINV,
                         NextSlot(items, task.char, INV_TOONINV)), ids, task.char),
           IF task.i < ShopCapacity
           THEN [task EXCEPT !.i = @ + 1]
           ELSE [task EXCEPT !.kind = "shopput", !.i = 0])

\* Mutant: the second loop moves to where the first one did.
ShopPutInInventory ==
  LET ids == At(items, task.char, INV_TRADE, task.i)
  IN  /\ task.kind = "shopput"
      /\ task.i <= ShopCapacity
      /\ TaskStatement(
           GiveTo(MoveTo(items, ids, INV_TOONINV,
                         NextSlot(items, task.char, INV_TOONINV)), ids, task.owner),
           [task EXCEPT !.i = @ + 1])

ShopPut ==
  LET ids == At(items, task.char, INV_TRADE, task.i)
  IN  /\ task.kind = "shopput"
      /\ task.i <= ShopCapacity
      /\ TaskStatement(
           GiveTo(MoveTo(items, ids, task.box,
                         NextSlot(items, task.char, task.box)), ids, task.owner),
           [task EXCEPT !.i = @ + 1])

ShopTradeDone ==
  /\ task.kind = "shopput"
  /\ task.i > ShopCapacity
  /\ EndTask(items)

-----------------------------------------------------------------------------
\* New items and moves.

ItemBought(c, key, stack) ==
  /\ Idle
  /\ \E i \in FreeIds(items) :
       Transaction(AddRow(items, i,
         NewRow(c, key, stack, INV_TOONINV,
                NextSlot(items, c, INV_TOONINV), NoContainer)))
  /\ UNCHANGED caches

\* MSG_SPAWN_REWARD, operation 1: the temporary id of an item, at each zone.
SpawnTempId(c, temp, slot) ==
  /\ Idle
  /\ slotCache' = [slotCache EXCEPT ![c][temp] = slot]
  /\ UNCHANGED <<db, lockDepth, contCache, task>>

\* Operation 0x71: a mission item, into the overflow window.
SpawnReward(c, temp, key, slot) ==
  /\ Idle
  /\ \E i \in FreeIds(items) :
       LET t == AddRow(items, i,
                  NewRow(c, key, 1, INV_OVERFLOW,
                         SlotFor(items, c, INV_OVERFLOW, slot), NoContainer))
       IN  /\ Transaction(t)
           /\ slotCache' = [slotCache EXCEPT
                              ![c][temp] = SlotFor(t, c, INV_TOONINV, slot)]
  /\ UNCHANGED contCache

Destination(from, to) == IF from = INV_OVERFLOW THEN INV_TOONINV ELSE to

\* Mutant: the last statement looks for the slot the item went to.
HotSwapWrongSlot(c, ref, slot, to, newSlot) ==
  LET from  == GetFromContainerId(c, ref)
      out   == MoveTo(items, At(items, c, INV_TOONINV, newSlot), INV_HOTSWAPTEMP, slot)
      moved == MoveTo(out, At(out, c, from, slot), INV_TOONINV, newSlot)
      back  == MoveTo(moved, At(moved, c, INV_HOTSWAPTEMP, newSlot), from, slot)
  IN  /\ Idle
      /\ from # NoContainer
      /\ Destination(from, to) = INV_TOONINV
      /\ newSlot < FirstInvSlot
      /\ Transaction(back)
      /\ UNCHANGED caches

\* MSG_ITEM_MOVE onto an equipment slot: what is there swaps places with the
\* item, by way of INV_HOTSWAPTEMP.
HotSwap(c, ref, slot, to, newSlot) ==
  LET from  == GetFromContainerId(c, ref)
      out   == MoveTo(items, At(items, c, INV_TOONINV, newSlot), INV_HOTSWAPTEMP, slot)
      moved == MoveTo(out, At(out, c, from, slot), INV_TOONINV, newSlot)
      back  == MoveTo(moved, At(moved, c, INV_HOTSWAPTEMP, slot), from, slot)
  IN  /\ Idle
      /\ from # NoContainer
      /\ Destination(from, to) = INV_TOONINV
      /\ newSlot < FirstInvSlot
      /\ Transaction(back)
      /\ UNCHANGED caches

\* A stackable item on its way into the inventory joins the first stack of
\* its type, if GetItemProperties and FindFirstItemOfSameType find one.
JoinTarget(c, from, slot) ==
  FindFirstItemOfSameType(items, c, At(items, c, from, slot), INV_TOONINV)

MayJoin(c, from, slot, newSlot) ==
  /\ newSlot >= AnySlot
  /\ \E i \in At(items, c, from, slot) : items[i].key \in Stackable
  /\ JoinTarget(c, from, slot) > 0

MustNotJoin(c, from, slot, newSlot) ==
  \/ newSlot < AnySlot
  \/ At(items, c, from, slot) = {}
  \/ \E i \in At(items, c, from, slot) : items[i].key \notin Stackable
  \/ JoinTarget(c, from, slot) = 0

MoveJoins(c, ref, slot, to, newSlot) ==
  LET from == GetFromContainerId(c, ref)
      src  == At(items, c, from, slot)
      dst  == At(items, c, INV_TOONINV, JoinTarget(c, from, slot))
  IN  /\ Idle
      /\ from # NoContainer
      /\ Destination(from, to) = INV_TOONINV
      /\ MayJoin(c, from, slot, newSlot)
      /\ \E n \in StackOf(items, src) :
           Transaction(Delete(AddToStack(items, dst, n), src))
      /\ UNCHANGED caches

PlainMove(c, ref, slot, to, newSlot) ==
  LET from == GetFromContainerId(c, ref)
      dest == Destination(from, to)
      at   == IF newSlot >= AnySlot \/ newSlot = 0
              THEN NextSlot(items, c, dest) ELSE newSlot
  IN  /\ Idle
      /\ from # NoContainer
      /\ dest = INV_TOONINV => /\ newSlot >= FirstInvSlot
                               /\ MustNotJoin(c, from, slot, newSlot)
      /\ Transaction(MoveTo(items, At(items, c, from, slot), dest, at))
      /\ UNCHANGED caches

-----------------------------------------------------------------------------
\* Bulk messages: each replaces what is recorded of a container.

Bank(c) ==
  LET kept == Delete(items, In(items, c, INV_BANK))
  IN  /\ Idle
      /\ \E new \in Batches(kept, c, INV_BANK, Backpacks \cup {NoContainer}) :
           Transaction(InsertAll(kept, new))
      /\ UNCHANGED caches

BackpackBought(c, bag, key, slot) ==
  LET at   == SlotFor(items, c, INV_TOONINV, slot)
      kept == Delete(items, {i \in DOMAIN items : /\ items[i].owner = c
                                                  /\ items[i].children = bag})
  IN  /\ Idle
      /\ \E i \in FreeIds(kept) :
           Transaction(AddRow(kept, i, NewRow(c, key, 1, INV_TOONINV, at, bag)))
      /\ UNCHANGED caches

\* MSG_CONTAINER of a backpack or corpse.  The DELETE names no owner.
Container(c, bag, temp) ==
  LET kept == Delete(items, {i \in DOMAIN items : items[i].parent = bag})
  IN  /\ Idle
      /\ \E new \in Batches(kept, c, bag, {NoContainer}) :
           Transaction(InsertAll(kept, new))
      /\ contCache' = [contCache EXCEPT ![c][temp] = bag]
      /\ UNCHANGED slotCache

OverflowContainer(c) ==
  LET kept == Delete(items, {i \in DOMAIN items : items[i].parent = INV_OVERFLOW})
  IN  /\ Idle
      /\ \E new \in Batches(kept, c, INV_OVERFLOW, {NoContainer}) :
           Transaction(InsertAll(kept, new))
      /\ UNCHANGED caches

\* MSG_FULLSYNC, at login and at each zone: one transaction, then, outside of
\* it and of the lock, CleanupDB.
FullSync(c) ==
  LET kept == Delete(items, {i \in DOMAIN items :
                 /\ items[i].owner = c
                 /\ items[i].parent \in {INV_TOONINV} \cup
                                        (INV_TRADE..INV_OTHER_PLAYERSHOP)})
  IN  /\ Idle
      /\ \E new \in Batches(kept, c, INV_TOONINV, Backpacks \cup {NoContainer}) :
           /\ items' = InsertAll(kept, new)
           /\ disk' = [items |-> items', toons |-> toons]
      /\ inTxn' = FALSE
      /\ contCache' = [contCache EXCEPT ![c] = [t \in TempIds |-> NoContainer]]
      /\ task' = [kind |-> "cleanup", char |-> c]
      /\ UNCHANGED <<toons, lockDepth, slotCache>>

CleanupDB ==
  /\ task.kind = "cleanup"
  /\ items' = Delete(items, Orphans(items, task.char))
  /\ disk' = IF inTxn THEN disk ELSE [items |-> items', toons |-> toons]
  /\ task' = NoTask
  /\ UNCHANGED <<toons, inTxn, lockDepth, caches>>

ShopItems(c, shop) ==
  /\ Idle
  /\ \E tgt \in ShopTargets(c, shop) :
       LET kept == Delete(items, In(items, tgt.owner, tgt.box))
       IN  \E new \in Batches(kept, tgt.owner, tgt.box, {NoContainer}) :
             Transaction(InsertAll(kept, new))
  /\ UNCHANGED caches

-----------------------------------------------------------------------------
\* Toons, the user's own deletions, and the end of the process.

\* MSG_MOB_SYNC: SetToonName is an INSERT OR REPLACE of (charid, charname).
MobSync(c) == Idle /\ SetToon(c, NoShop)

\* MSG_SHOP_INFO: SetToonShopId is an UPDATE, so an unknown toon stays unknown.
ShopInfo(c, shop) ==
  /\ Idle
  /\ SetToon(c, IF toons[c] = NoToon THEN NoToon ELSE shop)

\* OnDelete and DeleteItems: the rows selected in the grid, without BEGIN.
DeleteSelected(ids) ==
  /\ Idle
  /\ Statement(Delete(items, ids))
  /\ UNCHANGED caches

\* The process ends, in a handler or between two, and is started again.
Restart ==
  /\ items' = disk.items
  /\ toons' = disk.toons
  /\ inTxn' = FALSE
  /\ lockDepth' = 0
  /\ contCache' = [c \in Chars |-> [t \in TempIds |-> NoContainer]]
  /\ slotCache' = [c \in Chars |-> [t \in TempItems |-> 0]]
  /\ task' = NoTask
  /\ UNCHANGED disk

-----------------------------------------------------------------------------
Init ==
  /\ items = EmptyTable
  /\ toons = [c \in Chars |-> NoToon]
  /\ disk = [items |-> items, toons |-> toons]
  /\ inTxn = FALSE
  /\ lockDepth = 0
  /\ contCache = [c \in Chars |-> [t \in TempIds |-> NoContainer]]
  /\ slotCache = [c \in Chars |-> [t \in TempItems |-> 0]]
  /\ task = NoTask

StackMessage(c) ==
  \/ \E ref \in FromRefs, slot \in MsgSlots :
       \/ \E n \in MsgStacks : SplitStack(c, ref, slot, n)
       \/ \E k \in Keys : \/ ClientDeleteItem(c, ref, slot, k)
                          \/ ItemUsed(c, ref, slot, k)
       \/ ServerDeleteItem(c, ref, slot)
       \/ \E ref2 \in FromRefs, slot2 \in MsgSlots :
            JoinStacks(c, ref, slot, ref2, slot2)
  \/ \E ref \in FromRefs : ActionOnUnknownContainer(c, ref)

TradeMessage(c) ==
  \/ EndNpcTrade(c) \/ NpcAccept(c)
  \/ TradeStart(c) \/ TradeDecline(c) \/ TradeCommit(c)
  \/ \E k \in Keys, n \in MsgStacks : PartnerAddsItem(c, k, n)
  \/ \E slot \in MsgSlots :
       \/ PartnerRemovesItem(c, slot) \/ TradeRemove(c, slot)
       \/ ShopTradeRemove(c, slot)
       \/ \E ref \in FromRefs : \/ TradeAdd(c, ref, slot)
                                \/ \E d \in {0, 1} : GiveToNpc(c, ref, slot, d)
       \/ \E shop \in Shops : ShopTradeAdd(c, shop, slot)
  \/ \E shop \in Shops : ShopTradeCommit(c, shop)
  \/ \E bag \in Backpacks : \/ PartnerAddsBackpack(c, bag)
                            \/ PartnerRemovesBackpack(c, bag)

MoveMessage(c) ==
  \E ref \in FromRefs, slot, newSlot \in MsgSlots,
     to \in {INV_BANK, INV_TOONINV, INV_OVERFLOW} \cup Backpacks :
    \/ HotSwap(c, ref, slot, to, newSlot)
    \/ MoveJoins(c, ref, slot, to, newSlot)
    \/ PlainMove(c, ref, slot, to, newSlot)

NewItemMessage(c) ==
  \/ \E k \in Keys, n \in MsgStacks :
       \/ ItemBought(c, k, n)
       \/ \E slot \in MsgSlots : TradeskillResult(c, k, n, slot)
  \/ \E temp \in TempItems :
       \/ DeleteTempItem(c, temp)
       \/ \E slot \in MsgSlots : \/ SpawnTempId(c, temp, slot)
                                 \/ \E k \in Keys : SpawnReward(c, temp, k, slot)

BulkMessage(c) ==
  \/ Bank(c) \/ FullSync(c) \/ OverflowContainer(c) \/ MobSync(c)
  \/ \E bag \in Backpacks :
       \/ \E temp \in TempIds : Container(c, bag, temp)
       \/ \E k \in Keys \ Stackable, slot \in MsgSlots : BackpackBought(c, bag, k, slot)
  \/ \E shop \in Shops : ShopItems(c, shop) \/ ShopInfo(c, shop)

CharMessage(c) ==
  \/ StackMessage(c) \/ TradeMessage(c) \/ MoveMessage(c)
  \/ NewItemMessage(c) \/ BulkMessage(c)

TaskStep ==
  \/ MoveBack \/ MoveBackDone
  \/ (\E k \in Keys : NpcRejects(k)) \/ NpcAcceptDone
  \/ GrabStuff \/ TradeCommitDone
  \/ ShopGrab \/ ShopPut \/ ShopTradeDone
  \/ CleanupDB

Next ==
  \/ \E c \in Chars : CharMessage(c)
  \/ TaskStep
  \/ \E ids \in SUBSET DOMAIN items : DeleteSelected(ids)
  \/ Restart

Spec == Init /\ [][Next]_vars

-----------------------------------------------------------------------------
(***************************************************************************)
(* Properties.                                                             *)
(***************************************************************************)
Trading  == {"endnpc", "npcaccept", "decline", "commit", "shopgrab", "shopput"}

Tasks ==
  {NoTask}
  \cup [kind : {"cleanup"}, char : Chars]
  \cup [kind : {"endnpc", "npcaccept", "decline", "commit"}, char : Chars, i : Nat]
  \cup [kind : {"shopgrab", "shopput"}, char : Chars, i : Nat, owner : Chars,
        box : {INV_PLAYERSHOP, INV_OTHER_PLAYERSHOP}]

\* The types of the variables.
TypeOK ==
  /\ IsTable(items)
  /\ toons \in [Chars -> Shops \cup {NoToon, NoShop}]
  /\ IsTable(disk.items)
  /\ disk.toons \in [Chars -> Shops \cup {NoToon, NoShop}]
  /\ inTxn \in BOOLEAN
  /\ lockDepth \in Nat
  /\ contCache \in [Chars -> [TempIds -> Backpacks \cup {NoContainer}]]
  /\ slotCache \in [Chars -> [TempItems -> Nat]]
  /\ task \in Tasks

\* What is not yet on disk is protected: whenever the window's thread does not
\* hold the data base lock, no transaction is open and the file holds every
\* change, whatever handlers returned early or crashed before (Lock/UnLock and
\* Begin/Commit pair up over the whole of OnAOServerMessage and OnAOClientMessage).
CommittedUnlessLocked ==
  lockDepth = 0 => ~inTxn /\ disk = [items |-> items, toons |-> toons]

\* What a crash may cost: outside of a trade loop the file has every row of the
\* table as it is, and every toon.  So a handler that returns early and leaves a
\* transaction open (ActionOnUnknownContainer) leaves nothing of its own in it;
\* all that can join it before the next Commit are the deletions that have no
\* BEGIN of their own, and a row that was deleted may come back.
CrashLosesOnlyDeletions ==
  task.kind \notin Trading =>
    /\ disk.toons = toons
    /\ \A i \in DOMAIN items : i \in DOMAIN disk.items /\ disk.items[i] = items[i]

\* A trade reaches the file whole: while a handler loops over the trade
\* window the file keeps the rows from before it, so that a process that ends
\* in the loop finds the trade undone (the transaction around each case of
\* MSG_SHOP_TRANSACTION and the two NPC trade messages).
TradeIsAtomic ==
  [][task.kind \in Trading => disk' = disk \/ (task' = NoTask /\ disk'.items = items')]_vars

\* The swap by way of INV_HOTSWAPTEMP never strands an item there, in memory
\* or in the file (MSG_ITEM_MOVE onto an equipment slot).
HotswapEmpty ==
  \A t \in {items, disk.items} : \A i \in DOMAIN t : t[i].parent # INV_HOTSWAPTEMP

\* In a container that is not empty FindNextAvailableContainerSlot returns a
\* slot of that container's range that no row occupies, even when the table
\* holds several rows in one slot; and the lowest such slot when it does not.
OneRowPerSlot(t, c, box) ==
  \A i, j \in Counted(t, c, box) : t[i].slot = t[j].slot => i = j

FreeSlotFound ==
  \A c \in Chars, box \in Containers :
    LET p == FindNextAvailableContainerSlot(items, c, box)
    IN  Counted(items, c, box) # {} =>
          /\ p >= FirstSlot(box) /\ At(items, c, box, p) = {}
          /\ OneRowPerSlot(items, c, box) =>
               \A q \in FirstSlot(box)..(p - 1) : At(items, c, box, q) # {}

\* The least candidate, which the model uses, is the slot at which the loop over
\* the rows stops, in whichever order rows of one slot come.
SlotSearchIsTheWalk ==
  \A c \in Chars, box \in Containers :
    \A rows \in SlotOrders(items, Counted(items, c, box)) :
      FindNextAvailableContainerSlot(items, c, box) = Walk(items, c, box, rows)

\* The same item: all that a row says of it but where it is.
Same(t, u, i) == /\ i \in DOMAIN u
                 /\ u[i] = [t[i] EXCEPT !.parent = u[i].parent, !.slot = u[i].slot]

Window(t, c, box) == {i \in In(t, c, box) : t[i].slot <= ShopCapacity}

\* A declined trade (and a closed NPC trade) costs the character nothing: no
\* iteration loses or alters one of the own rows, wherever it is, and when the
\* loop is over items are left in the window only if the inventory is full.
DeclineReturnsItems ==
  [][task.kind \in {"decline", "endnpc"} /\ ~Restart =>
       LET c == task.char
       IN  /\ \A i \in DOMAIN items :
                items[i].owner = c /\ items[i].parent # INV_TRADEPARTNER =>
                  Same(items, items', i)
           /\ task' = NoTask => \/ Window(items', c, INV_TRADE) = {}
                                \/ InventoryFull(items', c)]_vars

\* A committed trade delivers: every row the partner offered is kept through
\* all iterations, and at the end both sides of the window are empty and what
\* was offered is in the inventory (operation 4 of MSG_SHOP_TRANSACTION).
CommitDelivers ==
  [][task.kind = "commit" /\ ~Restart =>
       LET c == task.char
       IN  /\ \A i \in DOMAIN items : Same(items, items', i)
           /\ \A i \in Window(items, c, INV_TRADEPARTNER) :
                items'[i].parent \in {INV_TRADEPARTNER, INV_TOONINV}
           /\ task' = NoTask => /\ In(items', c, INV_TRADE) = {}
                                /\ Window(items', c, INV_TRADEPARTNER) = {}]_vars

\* A row that a sale moves: the partner's goes to the inventory, the character's
\* own to the shop.
Sold(c, i) ==
  \/ i \in In(items, c, INV_TRADEPARTNER) /\ items'[i].parent = INV_TOONINV
  \/ i \in In(items, c, INV_TRADE) /\ items'[i].parent = INV_OTHER_PLAYERSHOP

\* A purchase in a shop that no monitored character owns delivers: no iteration
\* loses or alters a row or moves one that is not in the window, what the partner
\* put there goes to the inventory and what the character put there to the shop's
\* container, and at the end both sides of the window are empty.
UnknownShopDelivers ==
  [][task.kind \in {"shopgrab", "shopput"} /\ task.box = INV_OTHER_PLAYERSHOP
       /\ ~Restart =>
       LET c == task.char
       IN  /\ \A i \in DOMAIN items :
                Same(items, items', i) /\ (items'[i] # items[i] => Sold(c, i))
           /\ task' = NoTask => /\ Window(items', c, INV_TRADE) = {}
                                /\ Window(items', c, INV_TRADEPARTNER) = {}]_vars

Changed(t, u) ==
  {i \in DOMAIN t \cup DOMAIN u :
     ~(i \in DOMAIN t /\ i \in DOMAIN u /\ t[i] = u[i])}

OwnersOf(t, ids) ==
  {t[i].owner : i \in {j \in ids \cap DOMAIN t :
     t[j].parent \in {INV_BANK, INV_TOONINV, INV_TRADE, INV_TRADEPARTNER}}}

\* No message of one character touches what another has in the bank, on the
\* body or in a trade: every statement but a container's DELETE names its
\* owner.  The exception is a sale in a registered shop, whose first loop moves
\* the trade window of the shop's owner (see KnownShopDelivers).
HandlersKeepToTheirOwner ==
  [][LET ids    == Changed(items, items')
         owners == OwnersOf(items, ids) \cup OwnersOf(items', ids)
     IN  \A c \in Chars :
           ~(owners \subseteq {c}) =>
             /\ ~CharMessage(c)
             /\ ~(TaskStep /\ task.char = c
                    /\ ~(task.kind = "shopgrab" /\ task.box = INV_PLAYERSHOP))]_vars

\* The units of a key that a character has, one pair for each.
Units(t, c, k) ==
  UNION {{i} \X (1..t[i].stack) : i \in {j \in DOMAIN t : t[j].owner = c /\ t[j].key = k}}

WholeStacks == \A i \in DOMAIN items : items[i].stack \in Nat

KeepsUnits(c) ==
  /\ WholeStacks'
  /\ \A k \in Keys : Cardinality(Units(items', c, k)) = Cardinality(Units(items, c, k))

OneRow(c, box, slot) == \E i \in DOMAIN items : At(items, c, box, slot) = {i}

\* A split of no more than there is, and not on an equipment page: its slots
\* are not counted by the slot search.
SplitsRow(c, ref, slot, n) ==
  LET from == GetFromContainerId(c, ref)
  IN  /\ FirstSlot(from) <= slot
      /\ \A i \in At(items, c, from, slot) : n <= items[i].stack
      /\ SplitStack(c, ref, slot, n)

\* A join of two different rows, which the client asks for with rows of one type.
JoinsRows(c, ref, slot, ref2, slot2) ==
  LET from  == GetFromContainerId(c, ref)
      from2 == GetFromContainerId(c, ref2)
  IN  /\ OneRow(c, from2, slot2)
      /\ At(items, c, from, slot) # At(items, c, from2, slot2)
      /\ \A i \in At(items, c, from, slot), j \in At(items, c, from2, slot2) :
           items[i].key = items[j].key
      /\ JoinStacks(c, ref, slot, ref2, slot2)

\* A move to the inventory that joins two different rows.
MoveJoinsRows(c, ref, slot, newSlot) ==
  LET from   == GetFromContainerId(c, ref)
      target == JoinTarget(c, from, slot)
  IN  /\ OneRow(c, INV_TOONINV, target)
      /\ At(items, c, from, slot) # At(items, c, INV_TOONINV, target)
      /\ MoveJoins(c, ref, slot, INV_TOONINV, newSlot)

\* Splitting and joining stacks neither loses nor makes a unit, where the slots
\* named hold one row each: the client's CHAR_ACTION_SPLITSTACK, the server's
\* CHAR_ACTION_JOINSTACKS, and the join of MSG_ITEM_MOVE, which has to find the
\* stack it joins by itself.
StacksKeepUnits ==
  [][WholeStacks =>
     \A c \in Chars :
       \/ KeepsUnits(c)
       \/ ~\E ref \in FromRefs, slot \in MsgSlots :
              /\ OneRow(c, GetFromContainerId(c, ref), slot)
              /\ \/ \E n \in MsgStacks : SplitsRow(c, ref, slot, n)
                 \/ \E ref2 \in FromRefs, slot2 \in MsgSlots :
                      JoinsRows(c, ref, slot, ref2, slot2)
                 \/ \E newSlot \in MsgSlots : MoveJoinsRows(c, ref, slot, newSlot)]_vars

\* The same for a purchase in a shop whose owner is registered in tToons: the
\* duplicates in INV_TRADEPARTNER end in the buyer's inventory ("move from to
\* inv and delete the original when comitting").
KnownShopDelivers ==
  [][task.kind = "shopput" /\ task.box = INV_PLAYERSHOP
       /\ task' = NoTask /\ ~Restart =>
       Window(items', task.char, INV_TRADEPARTNER) = {}]_vars
=============================================================================
