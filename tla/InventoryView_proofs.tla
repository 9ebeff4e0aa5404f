------------------------ MODULE InventoryView_proofs ------------------------
(***************************************************************************)
(* Proofs about InventoryView, for any number of characters, rows, keys    *)
(* and slots.                                                              *)
(*                                                                         *)
(* The inductive invariant IInv strengthens TypeOK, HotswapEmpty and       *)
(* CommittedUnlessLocked with what relates the transaction, the lock and   *)
(* the loop in progress: a transaction is open only under the lock, a      *)
(* trade loop runs only inside of a transaction, and outside of one the    *)
(* file holds what the process sees.                                       *)
(*                                                                         *)
(* What the loops promise of a trade, and whose rows they write, needs on  *)
(* top of it LoopOK: before iteration i every row of the trade window is   *)
(* at slot i or beyond, and a sale in an unknown shop is the buyer's own.  *)
(***************************************************************************)
EXTENDS InventoryView, ItemTable_proofs

Clean(t) == IsTable(t) /\ \A i \in DOMAIN t : t[i].parent # INV_HOTSWAPTEMP

ToonTable == [Chars -> Shops \cup {NoToon, NoShop}]

CachesOK ==
  /\ contCache \in [Chars -> [TempIds -> Backpacks \cup {NoContainer}]]
  /\ slotCache \in [Chars -> [TempItems -> Nat]]

TaskOK == task \in Tasks

TablesOK ==
  /\ Clean(items) /\ toons \in ToonTable
  /\ Clean(disk.items) /\ disk.toons \in ToonTable
  /\ disk = [items |-> disk.items, toons |-> disk.toons]

TxnOK ==
  /\ inTxn \in BOOLEAN
  /\ lockDepth \in Nat
  /\ inTxn => lockDepth > 0
  /\ ~inTxn => disk = [items |-> items, toons |-> toons]
  /\ task.kind \in Trading => inTxn

IInv == TablesOK /\ CachesOK /\ TaskOK /\ TxnOK

-----------------------------------------------------------------------------
\* The statements keep a table clean.

LEMMA DeleteClean ==
  ASSUME NEW t, Clean(t), NEW ids
  PROVE  Clean(Delete(t, ids))
BY DEF Clean, IsTable, Delete

\* Moving rows leaves a table a table; and clean unless they go to the swap box.
LEMMA MoveIsTable ==
  ASSUME NEW t, IsTable(t), NEW ids, NEW box \in Containers, NEW slot \in Nat
  PROVE  /\ IsTable(MoveTo(t, ids, box, slot))
         /\ DOMAIN MoveTo(t, ids, box, slot) = DOMAIN t
         /\ \A i \in DOMAIN t : MoveTo(t, ids, box, slot)[i].parent =
                                  IF i \in ids THEN box ELSE t[i].parent
         /\ \A i \in DOMAIN t : MoveTo(t, ids, box, slot)[i].slot =
                                  IF i \in ids THEN slot ELSE t[i].slot
         /\ \A i \in DOMAIN t : MoveTo(t, ids, box, slot)[i].owner = t[i].owner
<1> DEFINE m == MoveTo(t, ids, box, slot)
<1>1. DOMAIN m = DOMAIN t
  BY DEF MoveTo
<1>2. ASSUME NEW i \in DOMAIN t
      PROVE  /\ m[i] \in Row
             /\ m[i].parent = IF i \in ids THEN box ELSE t[i].parent
             /\ m[i].slot = IF i \in ids THEN slot ELSE t[i].slot
             /\ m[i].owner = t[i].owner
  BY DEF MoveTo, IsTable, Row
<1>3. m \in [DOMAIN t -> Row]
  BY <1>2 DEF MoveTo
<1> QED
  BY <1>1, <1>2, <1>3 DEF IsTable

LEMMA MoveClean ==
  ASSUME NEW t, Clean(t), NEW ids, NEW box \in Containers \ {INV_HOTSWAPTEMP},
         NEW slot \in Nat
  PROVE  Clean(MoveTo(t, ids, box, slot))
BY MoveIsTable DEF Clean

LEMMA AddToStackClean ==
  ASSUME NEW t, Clean(t), NEW ids, NEW n \in Stacks
  PROVE  Clean(AddToStack(t, ids, n))
<1> DEFINE m == AddToStack(t, ids, n)
<1>1. ASSUME NEW i \in DOMAIN t
      PROVE  m[i] \in Row /\ m[i].parent # INV_HOTSWAPTEMP
  <2>1. t[i] \in Row /\ t[i].parent # INV_HOTSWAPTEMP
    BY DEF Clean, IsTable
  <2>2. Plus(t[i].stack, n) \in Stacks
    BY <2>1 DEF Plus, Row, Stacks
  <2> QED
    BY <2>1, <2>2 DEF AddToStack, Row
<1>2. m \in [DOMAIN t -> Row]
  BY <1>1 DEF AddToStack
<1> QED
  BY <1>1, <1>2 DEF Clean, IsTable

LEMMA InsertAllClean ==
  ASSUME NEW t, Clean(t), NEW new, Clean(new)
  PROVE  Clean(InsertAll(t, new))
<1> DEFINE m == InsertAll(t, new)
<1>1. /\ DOMAIN m = DOMAIN t \cup DOMAIN new
      /\ DOMAIN m \subseteq RowIds
  BY DEF InsertAll, Clean, IsTable
<1>2. ASSUME NEW i \in DOMAIN m
      PROVE  m[i] \in Row /\ m[i].parent # INV_HOTSWAPTEMP
  BY DEF InsertAll, Clean, IsTable
<1>3. m \in [DOMAIN m -> Row]
  BY <1>2 DEF InsertAll
<1> QED
  BY <1>1, <1>2, <1>3 DEF Clean, IsTable

LEMMA InsertClean ==
  ASSUME NEW t, Clean(t), NEW i \in RowIds, NEW row \in Row,
         row.parent # INV_HOTSWAPTEMP
  PROVE  Clean(AddRow(t, i, row))
<1> DEFINE m == InsertItem(t, i, row)
<1>1. /\ DOMAIN m = DOMAIN t \cup {i}
      /\ DOMAIN m \subseteq RowIds
  BY DEF InsertItem, Clean, IsTable
<1>2. ASSUME NEW j \in DOMAIN m
      PROVE  m[j] \in Row /\ m[j].parent # INV_HOTSWAPTEMP
  BY DEF InsertItem, Clean, IsTable
<1>3. m \in [DOMAIN m -> Row]
  BY <1>2 DEF InsertItem
<1> QED
  BY <1>1, <1>2, <1>3 DEF Clean, IsTable, AddRow

LEMMA GiveToClean ==
  ASSUME NEW t, Clean(t), NEW ids, NEW c \in Chars
  PROVE  Clean(GiveTo(t, ids, c))
<1> DEFINE m == GiveTo(t, ids, c)
<1>1. ASSUME NEW i \in DOMAIN t
      PROVE  m[i] \in Row /\ m[i].parent # INV_HOTSWAPTEMP
  BY DEF GiveTo, Clean, IsTable, Row
<1>2. m \in [DOMAIN t -> Row]
  BY <1>1 DEF GiveTo
<1> QED
  BY <1>1, <1>2 DEF Clean, IsTable, GiveTo

LEMMA EmptyClean == Clean(EmptyTable)
BY DEF Clean, IsTable, EmptyTable

\* The boxes the handlers name, and the slots they compute.
LEMMA Boxes ==
  /\ {INV_BANK, INV_TOONINV, INV_PLAYERSHOP, INV_TRADE, INV_TRADEPARTNER,
      INV_OVERFLOW, INV_OTHER_PLAYERSHOP} \subseteq Containers \ {INV_HOTSWAPTEMP}
  /\ INV_HOTSWAPTEMP \in Containers
  /\ Backpacks \subseteq Containers \ {INV_HOTSWAPTEMP}
BY TableAssumption DEF Containers, INV_BANK, INV_TOONINV, INV_PLAYERSHOP, INV_TRADE,
   INV_TRADEPARTNER, INV_OVERFLOW, INV_OTHER_PLAYERSHOP, INV_HOTSWAPTEMP

LEMMA NextSlotNat ==
  ASSUME NEW t, Clean(t), NEW c, NEW box
  PROVE  NextSlot(t, c, box) \in Nat
BY NextSlotIsNat DEF Clean, NextSlot

LEMMA SlotForNat ==
  ASSUME NEW t, Clean(t), NEW c, NEW box, NEW slot \in Nat
  PROVE  SlotFor(t, c, box, slot) \in Nat
BY NextSlotNat DEF SlotFor

\* MsgStacks and MsgSlots are naturals; a new row is a row.
LEMMA MessageTypes ==
  /\ \A n \in MsgStacks : n \in Stacks /\ -n \in Stacks
  /\ \A slot \in MsgSlots : slot \in Nat
  /\ -1 \in Stacks /\ 1 \in Stacks
BY ViewAssumption DEF Stacks

LEMMA NewRowIsRow ==
  ASSUME NEW c \in Chars, NEW key \in Keys, NEW stack \in Stacks,
         NEW box \in Containers, NEW slot \in Nat,
         NEW kids \in Backpacks \cup {NoContainer}
  PROVE  /\ NewRow(c, key, stack, box, slot, kids) \in Row
         /\ NewRow(c, key, stack, box, slot, kids).parent = box
BY DEF NewRow, Row

LEMMA MoveSlotClean ==
  ASSUME NEW t, Clean(t), NEW c, NEW from, NEW slot,
         NEW box \in Containers \ {INV_HOTSWAPTEMP}
  PROVE  Clean(MoveSlot(t, c, from, slot, box))
<1>1. NextSlot(t, c, box) \in Nat
  BY NextSlotNat
<1> QED
  BY <1>1, MoveClean DEF MoveSlot

LEMMA BatchClean ==
  ASSUME NEW t, Clean(t), NEW c \in Chars, NEW box \in Containers \ {INV_HOTSWAPTEMP},
         NEW kids \in SUBSET (Backpacks \cup {NoContainer}),
         NEW new \in Batches(t, c, box, kids)
  PROVE  Clean(InsertAll(t, new))
<1>1. PICK ids \in SUBSET FreeIds(t) : new \in [ids -> BatchRow(c, box, kids)]
  BY DEF Batches
<1>2. ids \subseteq RowIds
  BY DEF FreeIds
<1>3. \A r \in BatchRow(c, box, kids) : r \in Row /\ r.parent = box
  BY MessageTypes DEF BatchRow, Row
<1>4. Clean(new)
  <2>1. DOMAIN new = ids
    BY <1>1
  <2>2. \A i \in ids : new[i] \in Row /\ new[i].parent = box
    BY <1>1, <1>3
  <2>3. new \in [ids -> Row]
    BY <1>1, <1>3
  <2> QED
    BY <1>2, <2>1, <2>2, <2>3 DEF Clean, IsTable
<1> QED
  BY <1>4, InsertAllClean

\* Copies of rows under new ids: what SPLITSTACK and a shop's sale insert.
LEMMA CopiesClean ==
  ASSUME NEW t, Clean(t), NEW src \in SUBSET DOMAIN t, NEW new \in SUBSET RowIds,
         NEW of \in [new -> src],
         NEW copies, DOMAIN copies = new, copies = [i \in DOMAIN copies |-> copies[i]],
         \A i \in new : copies[i] \in Row /\ copies[i].parent # INV_HOTSWAPTEMP
  PROVE  Clean(InsertAll(t, copies))
<1>1. copies \in [new -> Row]
  OBVIOUS
<1>2. Clean(copies)
  BY <1>1 DEF Clean, IsTable
<1> QED
  BY <1>2, InsertAllClean

\* A container id resolved through the cache is never the swap box.
LEMMA FromIsBox ==
  ASSUME CachesOK, NEW c \in Chars, NEW ref \in FromRefs,
         GetFromContainerId(c, ref) # NoContainer
  PROVE  GetFromContainerId(c, ref) \in Containers \ {INV_HOTSWAPTEMP}
<1>1. CASE ref.at = "temp"
  <2>1. ref.id \in TempIds
    BY <1>1 DEF FromRefs
  <2>2. contCache[c][ref.id] \in Backpacks \cup {NoContainer}
    BY <2>1 DEF CachesOK
  <2> QED
    BY <1>1, <2>2, Boxes DEF GetFromContainerId
<1>2. CASE ref.at # "temp"
  <2>1. ref.id \in {INV_TOONINV, INV_BANK, INV_TRADE, INV_OVERFLOW, NoContainer}
    BY <1>2 DEF FromRefs
  <2> QED
    BY <1>2, <2>1, Boxes DEF GetFromContainerId
<1> QED
  BY <1>1, <1>2

-----------------------------------------------------------------------------
(***************************************************************************)
(* The ways a handler ends.  Each keeps the invariant, whatever the table  *)
(* the handler computed, if that table is clean.                           *)
(***************************************************************************)
LEMMA TransactionStep ==
  ASSUME IInv, NEW t, Clean(t), Idle, Transaction(t), CachesOK'
  PROVE  IInv'
<1>1. TablesOK'
  BY DEF IInv, TablesOK, Transaction
<1>2. TaskOK' /\ task'.kind = "none"
  BY DEF IInv, TaskOK, Transaction, Idle, NoTask, Trading
<1>3. TxnOK'
  BY <1>2 DEF IInv, TxnOK, Transaction, Trading
<1> QED
  BY <1>1, <1>2, <1>3 DEF IInv

LEMMA StatementStep ==
  ASSUME IInv, NEW t, Clean(t), Idle, Statement(t), CachesOK'
  PROVE  IInv'
<1>1. TablesOK'
  BY DEF IInv, TablesOK, Statement
<1>2. TaskOK' /\ task'.kind = "none"
  BY DEF IInv, TaskOK, Statement, Idle, NoTask, Trading
<1>3. TxnOK'
  BY <1>2 DEF IInv, TxnOK, Statement, Trading
<1> QED
  BY <1>1, <1>2, <1>3 DEF IInv

LEMMA SetToonStep ==
  ASSUME IInv, NEW c \in Chars, NEW shop \in Shops \cup {NoToon, NoShop}, Idle,
         SetToon(c, shop)
  PROVE  IInv'
<1>1. TablesOK'
  BY DEF IInv, TablesOK, SetToon, ToonTable
<1>2. TaskOK' /\ task'.kind = "none" /\ CachesOK'
  BY DEF IInv, TaskOK, SetToon, Idle, NoTask, Trading, CachesOK, caches
<1>3. TxnOK'
  BY <1>2 DEF IInv, TxnOK, SetToon, Trading
<1> QED
  BY <1>1, <1>2, <1>3 DEF IInv

\* A return that keeps the lock leaves the transaction under it.
LEMMA ReturnStep ==
  ASSUME IInv, Idle, ReturnHoldingLock
  PROVE  IInv'
<1>1. TablesOK' /\ CachesOK' /\ TaskOK'
  BY DEF IInv, TablesOK, CachesOK, TaskOK, ReturnHoldingLock, caches
<1>2. TxnOK'
  BY DEF IInv, TxnOK, ReturnHoldingLock
<1> QED
  BY <1>1, <1>2 DEF IInv

LEMMA StartTaskStep ==
  ASSUME IInv, Idle, NEW t, Clean(t), NEW new, StartTask(t, new), TaskOK'
  PROVE  IInv'
<1>1. TablesOK' /\ CachesOK'
  BY DEF IInv, TablesOK, CachesOK, StartTask, caches
<1>2. TxnOK'
  BY DEF IInv, TxnOK, StartTask
<1> QED
  BY <1>1, <1>2 DEF IInv

LEMMA TaskStatementStep ==
  ASSUME IInv, NEW t, Clean(t), NEW new, TaskStatement(t, new), TaskOK',
         task.kind \in Trading
  PROVE  IInv'
<1>1. TablesOK' /\ CachesOK'
  BY DEF IInv, TablesOK, CachesOK, TaskStatement, caches
<1>2. TxnOK'
  BY DEF IInv, TxnOK, TaskStatement
<1> QED
  BY <1>1, <1>2 DEF IInv

\* Commit and UnLock: the lock was held, because a transaction was open.
LEMMA EndTaskStep ==
  ASSUME IInv, NEW t, Clean(t), EndTask(t), task.kind \in Trading
  PROVE  IInv'
<1>1. TablesOK' /\ CachesOK'
  BY DEF IInv, TablesOK, CachesOK, EndTask, caches
<1>2. TaskOK' /\ task'.kind = "none"
  BY DEF EndTask, NoTask, TaskOK, Tasks, Trading
<1>3. TxnOK'
  <2>1. lockDepth \in Nat /\ lockDepth > 0
    BY DEF IInv, TxnOK
  <2>2. lockDepth' \in Nat /\ inTxn' = FALSE /\ disk' = [items |-> items', toons |-> toons']
    BY <2>1 DEF EndTask
  <2>3. task'.kind \notin Trading
    BY <1>2 DEF Trading
  <2> QED
    BY <2>2, <2>3 DEF TxnOK
<1> QED
  BY <1>1, <1>2, <1>3 DEF IInv

-----------------------------------------------------------------------------
(***************************************************************************)
(* The handlers, one lemma each: the table it computes is clean, and it    *)
(* ends in one of the ways above.                                          *)
(***************************************************************************)
LEMMA GiveToNpcStep ==
  ASSUME IInv, NEW c, NEW ref, NEW slot, NEW d, GiveToNpc(c, ref, slot, d)
  PROVE  IInv'
<1> DEFINE to == IF d = 1 THEN INV_TOONINV ELSE INV_TRADE
           t  == MoveSlot(items, c, GetFromContainerId(c, ref), slot, to)
<1>1. Clean(t)
  BY MoveSlotClean, Boxes DEF IInv, TablesOK
<1>2. Idle /\ Transaction(t) /\ CachesOK'
  BY DEF GiveToNpc, IInv, CachesOK, caches
<1> QED
  BY <1>1, <1>2, TransactionStep

LEMMA SplitStackStep ==
  ASSUME IInv, NEW c \in Chars, NEW ref \in FromRefs, NEW slot \in MsgSlots,
         NEW n \in MsgStacks, SplitStack(c, ref, slot, n)
  PROVE  IInv'
<1> DEFINE from  == GetFromContainerId(c, ref)
           src   == At(items, c, from, slot)
           fresh == NextSlot(items, c, from)
           Splits(new, of) ==
             LET copies == [j \in new |-> [items[of[j]] EXCEPT !.stack = n,
                                                               !.slot = fresh]]
                 both   == InsertAll(items, copies)
             IN  Transaction(AddToStack(both, At(both, c, from, slot), -n))
<1>0. PICK new \in SUBSET FreeIds(items) : \E of \in [new -> src] : Splits(new, of)
  BY DEF SplitStack
<1>1. PICK of \in [new -> src] : Splits(new, of)
  BY <1>0
<1> DEFINE copies == [j \in new |-> [items[of[j]] EXCEPT !.stack = n, !.slot = fresh]]
           both   == InsertAll(items, copies)
           t      == AddToStack(both, At(both, c, from, slot), -n)
<1>2. Idle /\ Transaction(t) /\ CachesOK'
  BY <1>1 DEF SplitStack, IInv, CachesOK, caches
<1>3. Clean(items) /\ fresh \in Nat
  BY NextSlotNat DEF IInv, TablesOK
<1>4. \A i \in new : copies[i] \in Row /\ copies[i].parent # INV_HOTSWAPTEMP
  <2>1. TAKE i \in new
  <2>2. of[i] \in DOMAIN items
    BY DEF At, In
  <2>3. items[of[i]] \in Row /\ items[of[i]].parent # INV_HOTSWAPTEMP
    BY <1>3, <2>2 DEF Clean, IsTable
  <2> QED
    BY <1>3, <2>3, MessageTypes DEF Row
<1>5. Clean(both)
  <2>1. src \in SUBSET DOMAIN items /\ new \in SUBSET RowIds
    BY DEF At, In, FreeIds
  <2>2. DOMAIN copies = new /\ copies = [i \in DOMAIN copies |-> copies[i]]
    OBVIOUS
  <2> HIDE DEF copies
  <2> QED
    BY <1>3, <1>4, <2>1, <2>2, CopiesClean
<1>6. Clean(t)
  <2> HIDE DEF both
  <2> QED
    BY <1>5, AddToStackClean, MessageTypes
<1> QED
  BY <1>2, <1>6, TransactionStep

LEMMA DeleteStep ==
  ASSUME IInv, Idle, NEW ids,
         Transaction(Delete(items, ids)) \/ Statement(Delete(items, ids)), CachesOK'
  PROVE  IInv'
<1>1. Clean(Delete(items, ids))
  BY DeleteClean DEF IInv, TablesOK
<1> QED
  BY <1>1, TransactionStep, StatementStep

LEMMA ClientDeleteItemStep ==
  ASSUME IInv, NEW c, NEW ref, NEW slot, NEW key, ClientDeleteItem(c, ref, slot, key)
  PROVE  IInv'
<1> DEFINE ids == {i \in At(items, c, GetFromContainerId(c, ref), slot) :
                     items[i].key = key}
<1>1. Idle /\ Transaction(Delete(items, ids)) /\ CachesOK'
  BY DEF ClientDeleteItem, IInv, CachesOK, caches
<1> QED
  BY <1>1, DeleteStep

LEMMA ServerDeleteItemStep ==
  ASSUME IInv, NEW c, NEW ref, NEW slot, ServerDeleteItem(c, ref, slot)
  PROVE  IInv'
<1>1. Idle /\ CachesOK'
      /\ Transaction(Delete(items, At(items, c, GetFromContainerId(c, ref), slot)))
  BY DEF ServerDeleteItem, IInv, CachesOK, caches
<1> QED
  BY <1>1, DeleteStep

LEMMA DeleteTempItemStep ==
  ASSUME IInv, NEW c, NEW temp, DeleteTempItem(c, temp)
  PROVE  IInv'
<1>1. Idle /\ CachesOK'
      /\ Statement(Delete(items, At(items, c, INV_TOONINV, slotCache[c][temp])))
  BY DEF DeleteTempItem, IInv, CachesOK, caches
<1> QED
  BY <1>1, DeleteStep

\* The stack read by a scalar subquery is an integer or NULL.
LEMMA StackOfRows ==
  ASSUME NEW t, Clean(t), NEW c, NEW box, NEW slot, NEW n \in StackOf(t, At(t, c, box, slot))
  PROVE  n \in Stacks
BY DEF StackOf, At, In, Clean, IsTable, Row, Stacks

LEMMA JoinStacksStep ==
  ASSUME IInv, NEW c, NEW ref, NEW slot, NEW ref2, NEW slot2,
         JoinStacks(c, ref, slot, ref2, slot2)
  PROVE  IInv'
<1> DEFINE src == At(items, c, GetFromContainerId(c, ref2), slot2)
           dst == At(items, c, GetFromContainerId(c, ref), slot)
<1>1. PICK n \in StackOf(items, src) :
        Transaction(Delete(AddToStack(items, dst, n), src))
  BY DEF JoinStacks
<1>2. Idle /\ CachesOK'
  BY DEF JoinStacks, IInv, CachesOK, caches
<1>3. Clean(items) /\ n \in Stacks
  BY StackOfRows DEF IInv, TablesOK
<1>4. Clean(Delete(AddToStack(items, dst, n), src))
  BY <1>3, AddToStackClean, DeleteClean
<1> QED
  BY <1>1, <1>2, <1>4, TransactionStep

LEMMA MoveJoinsStep ==
  ASSUME IInv, NEW c, NEW ref, NEW slot, NEW to, NEW newSlot,
         MoveJoins(c, ref, slot, to, newSlot)
  PROVE  IInv'
<1> DEFINE from == GetFromContainerId(c, ref)
           src  == At(items, c, from, slot)
           dst  == At(items, c, INV_TOONINV, JoinTarget(c, from, slot))
<1>1. PICK n \in StackOf(items, src) :
        Transaction(Delete(AddToStack(items, dst, n), src))
  BY DEF MoveJoins
<1>2. Idle /\ CachesOK'
  BY DEF MoveJoins, IInv, CachesOK, caches
<1>3. Clean(items) /\ n \in Stacks
  BY StackOfRows DEF IInv, TablesOK
<1>4. Clean(Delete(AddToStack(items, dst, n), src))
  BY <1>3, AddToStackClean, DeleteClean
<1> QED
  BY <1>1, <1>2, <1>4, TransactionStep

\* A handler that adds one row in a transaction.
LEMMA AddRowStep ==
  ASSUME IInv, Idle, NEW t, Clean(t), NEW i \in RowIds, NEW c \in Chars,
         NEW key \in Keys, NEW stack \in Stacks,
         NEW box \in Containers \ {INV_HOTSWAPTEMP}, NEW slot \in Nat,
         NEW kids \in Backpacks \cup {NoContainer},
         Transaction(AddRow(t, i, NewRow(c, key, stack, box, slot, kids))), CachesOK'
  PROVE  IInv'
<1>1. Clean(AddRow(t, i, NewRow(c, key, stack, box, slot, kids)))
  BY NewRowIsRow, InsertClean
<1> QED
  BY <1>1, TransactionStep

LEMMA FreeIdsAreIds == \A t : FreeIds(t) \subseteq RowIds
BY DEF FreeIds

LEMMA PartnerAddsItemStep ==
  ASSUME IInv, NEW c \in Chars, NEW key \in Keys, NEW stack \in MsgStacks,
         PartnerAddsItem(c, key, stack)
  PROVE  IInv'
<1> DEFINE slot == NextSlot(items, c, INV_TRADEPARTNER)
<1>1. PICK i \in RowIds : Transaction(AddRow(items, i,
        NewRow(c, key, stack, INV_TRADEPARTNER, slot, NoContainer)))
  BY FreeIdsAreIds DEF PartnerAddsItem
<1>2. Idle /\ CachesOK' /\ Clean(items)
  BY DEF PartnerAddsItem, IInv, TablesOK, CachesOK, caches
<1>3. slot \in Nat
  BY <1>2, NextSlotNat
<1> QED
  BY <1>1, <1>2, <1>3, AddRowStep, MessageTypes, Boxes

LEMMA TradeskillResultStep ==
  ASSUME IInv, NEW c \in Chars, NEW key \in Keys, NEW stack \in MsgStacks,
         NEW slot \in MsgSlots, TradeskillResult(c, key, stack, slot)
  PROVE  IInv'
<1> DEFINE at == SlotFor(items, c, INV_OVERFLOW, slot)
<1>1. PICK i \in RowIds : Transaction(AddRow(items, i,
        NewRow(c, key, stack, INV_OVERFLOW, at, NoContainer)))
  BY FreeIdsAreIds DEF TradeskillResult
<1>2. Idle /\ CachesOK' /\ Clean(items)
  BY DEF TradeskillResult, IInv, TablesOK, CachesOK, caches
<1>3. at \in Nat
  BY <1>2, SlotForNat, MessageTypes
<1> QED
  BY <1>1, <1>2, <1>3, AddRowStep, MessageTypes, Boxes

LEMMA ItemUsedStep ==
  ASSUME IInv, NEW c, NEW ref, NEW slot, NEW key, ItemUsed(c, ref, slot, key)
  PROVE  IInv'
<1> DEFINE hit(t) == {i \in At(t, c, GetFromContainerId(c, ref), slot) :
                        t[i].key = key /\ key \in Depletable}
           less   == AddToStack(items, hit(items), -1)
           t      == Delete(less, {i \in hit(less) : less[i].stack = 0})
<1>1. Idle /\ Transaction(t) /\ CachesOK'
  BY DEF ItemUsed, IInv, CachesOK, caches
<1>2. Clean(less)
  BY AddToStackClean, MessageTypes DEF IInv, TablesOK
<1>3. Clean(t)
  BY <1>2, DeleteClean
<1> QED
  BY <1>1, <1>3, TransactionStep

LEMMA PartnerRemovesItemStep ==
  ASSUME IInv, NEW c, NEW slot, PartnerRemovesItem(c, slot)
  PROVE  IInv'
<1>1. Idle /\ CachesOK'
      /\ Transaction(Delete(items, At(items, c, INV_TRADEPARTNER, slot)))
  BY DEF PartnerRemovesItem, IInv, CachesOK, caches
<1> QED
  BY <1>1, DeleteStep

LEMMA ShopTradeRemoveStep ==
  ASSUME IInv, NEW c, NEW slot, ShopTradeRemove(c, slot)
  PROVE  IInv'
<1>1. Idle /\ CachesOK'
      /\ Transaction(Delete(items, At(items, c, INV_TRADEPARTNER, slot)))
  BY DEF ShopTradeRemove, IInv, CachesOK, caches
<1> QED
  BY <1>1, DeleteStep

LEMMA PartnerRemovesBackpackStep ==
  ASSUME IInv, NEW c, NEW bag, PartnerRemovesBackpack(c, bag)
  PROVE  IInv'
<1> DEFINE ids == {i \in In(items, c, INV_TRADEPARTNER) : items[i].children = bag}
<1>1. Idle /\ CachesOK' /\ Transaction(Delete(items, ids))
  BY DEF PartnerRemovesBackpack, IInv, CachesOK, caches
<1> QED
  BY <1>1, DeleteStep

LEMMA TradeStartStep ==
  ASSUME IInv, NEW c, TradeStart(c)
  PROVE  IInv'
<1>1. Idle /\ CachesOK'
      /\ Transaction(Delete(items, In(items, c, INV_TRADE)
                                   \cup In(items, c, INV_TRADEPARTNER)))
  BY DEF TradeStart, IInv, CachesOK, caches
<1> QED
  BY <1>1, DeleteStep

LEMMA TradeAddStep ==
  ASSUME IInv, NEW c, NEW ref, NEW slot, TradeAdd(c, ref, slot)
  PROVE  IInv'
<1> DEFINE t == MoveSlot(items, c, GetFromContainerId(c, ref), slot, INV_TRADE)
<1>1. Clean(t)
  BY MoveSlotClean, Boxes DEF IInv, TablesOK
<1>2. Idle /\ Transaction(t) /\ CachesOK'
  BY DEF TradeAdd, IInv, CachesOK, caches
<1> QED
  BY <1>1, <1>2, TransactionStep

LEMMA TradeRemoveStep ==
  ASSUME IInv, NEW c, NEW slot, TradeRemove(c, slot)
  PROVE  IInv'
<1> DEFINE t == MoveSlot(items, c, INV_TRADE, slot, INV_TOONINV)
<1>1. Clean(t)
  BY MoveSlotClean, Boxes DEF IInv, TablesOK
<1>2. Idle /\ Transaction(t) /\ CachesOK'
  BY DEF TradeRemove, IInv, CachesOK, caches
<1> QED
  BY <1>1, <1>2, TransactionStep

LEMMA PartnerAddsBackpackStep ==
  ASSUME IInv, NEW c \in Chars, NEW bag \in Backpacks, PartnerAddsBackpack(c, bag)
  PROVE  IInv'
<1> DEFINE slot == NextSlot(items, c, INV_TRADEPARTNER)
<1>1. PICK i \in RowIds : Transaction(AddRow(items, i,
        NewRow(c, BagKey, 1, INV_TRADEPARTNER, slot, bag)))
  BY FreeIdsAreIds DEF PartnerAddsBackpack
<1>2. Idle /\ CachesOK' /\ Clean(items)
  BY DEF PartnerAddsBackpack, IInv, TablesOK, CachesOK, caches
<1>3. slot \in Nat /\ BagKey \in Keys
  BY <1>2, NextSlotNat, ViewAssumption
<1> QED
  BY <1>1, <1>2, <1>3, AddRowStep, MessageTypes, Boxes

LEMMA ItemBoughtStep ==
  ASSUME IInv, NEW c \in Chars, NEW key \in Keys, NEW stack \in MsgStacks,
         ItemBought(c, key, stack)
  PROVE  IInv'
<1> DEFINE slot == NextSlot(items, c, INV_TOONINV)
<1>1. PICK i \in RowIds : Transaction(AddRow(items, i,
        NewRow(c, key, stack, INV_TOONINV, slot, NoContainer)))
  BY FreeIdsAreIds DEF ItemBought
<1>2. Idle /\ CachesOK' /\ Clean(items)
  BY DEF ItemBought, IInv, TablesOK, CachesOK, caches
<1>3. slot \in Nat
  BY <1>2, NextSlotNat
<1> QED
  BY <1>1, <1>2, <1>3, AddRowStep, MessageTypes, Boxes

LEMMA SpawnTempIdStep ==
  ASSUME IInv, NEW c, NEW temp, NEW slot \in MsgSlots, SpawnTempId(c, temp, slot)
  PROVE  IInv'
<1>1. TablesOK' /\ TaskOK' /\ TxnOK'
  BY DEF IInv, TablesOK, TaskOK, TxnOK, SpawnTempId, db
<1>2. CachesOK'
  BY MessageTypes DEF IInv, CachesOK, SpawnTempId
<1> QED
  BY <1>1, <1>2 DEF IInv

LEMMA SpawnRewardStep ==
  ASSUME IInv, NEW c \in Chars, NEW temp, NEW key \in Keys, NEW slot \in MsgSlots,
         SpawnReward(c, temp, key, slot)
  PROVE  IInv'
<1> DEFINE at   == SlotFor(items, c, INV_OVERFLOW, slot)
           t(i) == AddRow(items, i, NewRow(c, key, 1, INV_OVERFLOW, at, NoContainer))
<1>1. PICK i \in RowIds :
        /\ Transaction(t(i))
        /\ slotCache' = [slotCache EXCEPT
                           ![c][temp] = SlotFor(t(i), c, INV_TOONINV, slot)]
  BY FreeIdsAreIds DEF SpawnReward
<1>2. Idle /\ Clean(items) /\ CachesOK /\ contCache' = contCache
  BY DEF SpawnReward, IInv, TablesOK
<1>3. at \in Nat /\ slot \in Nat
  BY <1>2, SlotForNat, MessageTypes
<1>4. Clean(t(i))
  BY <1>2, <1>3, MessageTypes, Boxes, NewRowIsRow, InsertClean
<1>5. SlotFor(t(i), c, INV_TOONINV, slot) \in Nat
  BY <1>3, <1>4, SlotForNat
<1> HIDE DEF t
<1>6. CachesOK'
  BY <1>1, <1>2, <1>5 DEF CachesOK
<1> QED
  BY <1>1, <1>2, <1>4, <1>6, TransactionStep

LEMMA ActionOnUnknownContainerStep ==
  ASSUME IInv, NEW c, NEW ref, ActionOnUnknownContainer(c, ref)
  PROVE  IInv'
BY ReturnStep DEF ActionOnUnknownContainer

\* The handlers that enter a loop, and the iterations.
LEMMA LoopStartStep ==
  ASSUME IInv, NEW c \in Chars, EndNpcTrade(c) \/ NpcAccept(c) \/ TradeDecline(c)
  PROVE  IInv'
<1>1. PICK kind \in {"endnpc", "npcaccept", "decline"} :
        StartTask(items, [kind |-> kind, char |-> c, i |-> 0])
  BY DEF EndNpcTrade, NpcAccept, TradeDecline
<1>2. Idle /\ Clean(items)
  BY DEF EndNpcTrade, NpcAccept, TradeDecline, IInv, TablesOK
<1>3. TaskOK'
  BY <1>1 DEF StartTask, TaskOK, Tasks, Trading
<1> QED
  BY <1>1, <1>2, <1>3, StartTaskStep

LEMMA TradeCommitStep ==
  ASSUME IInv, NEW c \in Chars, TradeCommit(c)
  PROVE  IInv'
<1> DEFINE bags     == {items[i].children : i \in In(items, c, INV_TRADE)} \ {NoContainer}
           contents == {i \in DOMAIN items : items[i].owner = c /\ items[i].parent \in bags}
           kept     == Delete(items, contents)
           t        == Delete(kept, In(kept, c, INV_TRADE))
           new      == [kind |-> "commit", char |-> c, i |-> 0]
<1>1. Idle /\ StartTask(t, new)
  BY DEF TradeCommit
<1>2. Clean(t)
  BY DeleteClean DEF IInv, TablesOK
<1>3. TaskOK'
  BY <1>1 DEF StartTask, TaskOK, Tasks, Trading
<1> QED
  BY <1>1, <1>2, <1>3, StartTaskStep

LEMMA ShopTargetTypes ==
  \A shop : \A c \in Chars : \A tgt \in ShopTargets(c, shop) :
    tgt.owner \in Chars /\ tgt.box \in {INV_PLAYERSHOP, INV_OTHER_PLAYERSHOP}
BY DEF ShopTargets, ShopOwners

LEMMA ShopTradeCommitStep ==
  ASSUME IInv, NEW c \in Chars, NEW shop, ShopTradeCommit(c, shop)
  PROVE  IInv'
<1> DEFINE sold(tgt) ==
             {i \in In(items, tgt.owner, tgt.box) :
                items[i].slot \in {items[j].slot : j \in In(items, c, INV_TRADEPARTNER)}}
           t(tgt)   == Delete(items, sold(tgt))
           new(tgt) == [kind |-> "shopgrab", char |-> c, i |-> 0,
                        owner |-> tgt.owner, box |-> tgt.box]
<1>1. PICK tgt \in ShopTargets(c, shop) : StartTask(t(tgt), new(tgt))
  BY DEF ShopTradeCommit
<1>2. Idle
  BY DEF ShopTradeCommit
<1>3. Clean(t(tgt))
  BY DeleteClean DEF IInv, TablesOK
<1>4. TaskOK'
  <2>1. task' = new(tgt)
    BY <1>1 DEF StartTask
  <2> QED
    BY <2>1, ShopTargetTypes DEF TaskOK, Tasks, Trading
<1> HIDE DEF t, new
<1> QED
  BY <1>1, <1>2, <1>3, <1>4, StartTaskStep

\* What the task of a loop over the trade window is: a record with or without
\* the shop's owner and container.
WindowTasks == [kind : {"endnpc", "npcaccept", "decline", "commit"}, char : Chars, i : Nat]
ShopTasks   == [kind : {"shopgrab", "shopput"}, char : Chars, i : Nat, owner : Chars,
                box : {INV_PLAYERSHOP, INV_OTHER_PLAYERSHOP}]

LEMMA TaskFields ==
  ASSUME IInv, task.kind \in Trading
  PROVE  /\ task \in WindowTasks \/ task \in ShopTasks
         /\ task.kind \in {"shopgrab", "shopput"} => task \in ShopTasks
         /\ task.char \in Chars /\ task.i \in Nat
<1>1. task \in {NoTask} \cup [kind : {"cleanup"}, char : Chars] \cup WindowTasks \cup ShopTasks
  BY DEF IInv, TaskOK, Tasks, WindowTasks, ShopTasks
<1>2. task # NoTask
  BY DEF NoTask, Trading
<1>3. task \notin [kind : {"cleanup"}, char : Chars]
  BY DEF Trading
<1>4. task \in WindowTasks \/ task \in ShopTasks
  BY <1>1, <1>2, <1>3
<1>5. task \in WindowTasks => task.kind \notin {"shopgrab", "shopput"}
  BY DEF WindowTasks
<1>6. task.char \in Chars /\ task.i \in Nat
  BY <1>4 DEF WindowTasks, ShopTasks
<1> QED
  BY <1>4, <1>5, <1>6

LEMMA TradingTaskOK ==
  ASSUME task' \in WindowTasks \/ task' \in ShopTasks
  PROVE  TaskOK'
BY DEF TaskOK, Tasks, WindowTasks, ShopTasks

\* An iteration that only counts up.
LEMMA CountedUp ==
  ASSUME IInv, task.kind \in Trading, task' = [task EXCEPT !.i = @ + 1]
  PROVE  TaskOK'
<1>1. CASE task \in WindowTasks
  <2>1. task' \in WindowTasks
    BY <1>1 DEF WindowTasks
  <2> QED
    BY <2>1, TradingTaskOK
<1>2. CASE task \in ShopTasks
  <2>1. task' \in ShopTasks
    BY <1>2 DEF ShopTasks
  <2> QED
    BY <2>1, TradingTaskOK
<1> QED
  BY <1>1, <1>2, TaskFields

LEMMA NpcRejectsStep ==
  ASSUME IInv, NEW key, NpcRejects(key)
  PROVE  IInv'
<1> DEFINE slot == NextSlot(items, task.char, INV_TOONINV)
           t    == MoveTo(items, {i \in In(items, task.char, INV_TRADE) : items[i].key = key},
                          INV_TOONINV, slot)
           new  == [task EXCEPT !.i = @ + 1]
<1>1. task.kind \in Trading /\ TaskStatement(t, new)
  BY DEF NpcRejects, Trading
<1>2. Clean(items) /\ slot \in Nat
  BY NextSlotNat DEF IInv, TablesOK
<1>3. Clean(t)
  BY <1>2, MoveClean, Boxes
<1>4. TaskOK'
  BY <1>1, CountedUp DEF TaskStatement
<1> QED
  BY <1>1, <1>3, <1>4, TaskStatementStep

LEMMA NpcAcceptDoneStep ==
  ASSUME IInv, NpcAcceptDone
  PROVE  IInv'
<1>1. task.kind \in Trading /\ EndTask(Delete(items, In(items, task.char, INV_TRADE)))
  BY DEF NpcAcceptDone, Trading
<1>2. Clean(Delete(items, In(items, task.char, INV_TRADE)))
  BY DeleteClean DEF IInv, TablesOK
<1> QED
  BY <1>1, <1>2, EndTaskStep

LEMMA MoveBackStep ==
  ASSUME IInv, MoveBack
  PROVE  IInv'
<1> DEFINE t == MoveSlot(items, task.char, INV_TRADE, task.i, INV_TOONINV)
<1>1. task.kind \in Trading /\ TaskStatement(t, [task EXCEPT !.i = @ + 1])
  BY DEF MoveBack, Trading
<1>2. Clean(t)
  BY MoveSlotClean, Boxes DEF IInv, TablesOK
<1>3. TaskOK'
  BY <1>1, CountedUp DEF TaskStatement
<1> QED
  BY <1>1, <1>2, <1>3, TaskStatementStep

LEMMA MoveBackDoneStep ==
  ASSUME IInv, MoveBackDone
  PROVE  IInv'
<1> DEFINE t == IF task.kind = "decline"
                THEN Delete(items, In(items, task.char, INV_TRADEPARTNER))
                ELSE items
<1>1. task.kind \in Trading /\ EndTask(t)
  BY DEF MoveBackDone, Trading
<1>2. Clean(t)
  BY DeleteClean DEF IInv, TablesOK
<1> QED
  BY <1>1, <1>2, EndTaskStep

LEMMA GrabStuffStep ==
  ASSUME IInv, GrabStuff
  PROVE  IInv'
<1> DEFINE t == MoveSlot(items, task.char, INV_TRADEPARTNER, task.i, INV_TOONINV)
<1>1. task.kind \in Trading /\ TaskStatement(t, [task EXCEPT !.i = @ + 1])
  BY DEF GrabStuff, Trading
<1>2. Clean(t)
  BY MoveSlotClean, Boxes DEF IInv, TablesOK
<1>3. TaskOK'
  BY <1>1, CountedUp DEF TaskStatement
<1> QED
  BY <1>1, <1>2, <1>3, TaskStatementStep

LEMMA LoopDoneStep ==
  ASSUME IInv, TradeCommitDone \/ ShopTradeDone
  PROVE  IInv'
<1>1. task.kind \in Trading /\ EndTask(items)
  BY DEF TradeCommitDone, ShopTradeDone, Trading
<1>2. Clean(items)
  BY DEF IInv, TablesOK
<1> QED
  BY <1>1, <1>2, EndTaskStep

LEMMA ShopGrabStep ==
  ASSUME IInv, ShopGrab
  PROVE  IInv'
<1> DEFINE ids  == At(items, task.owner, INV_TRADEPARTNER, task.i)
           slot == NextSlot(items, task.char, INV_TOONINV)
           t    == GiveTo(MoveTo(items, ids, INV_TOONINV, slot), ids, task.char)
           new  == IF task.i < ShopCapacity
                   THEN [task EXCEPT !.i = @ + 1]
                   ELSE [task EXCEPT !.kind = "shopput", !.i = 0]
<1>1. task.kind = "shopgrab" /\ task.kind \in Trading /\ TaskStatement(t, new)
  BY DEF ShopGrab, Trading
<1>2. Clean(items) /\ slot \in Nat /\ task.char \in Chars
  BY <1>1, NextSlotNat, TaskFields DEF IInv, TablesOK
<1>3. Clean(t)
  BY <1>2, MoveClean, GiveToClean, Boxes
<1>4. TaskOK'
  <2>1. task' = new
    BY <1>1 DEF TaskStatement
  <2>2. task \in ShopTasks
    BY <1>1, TaskFields
  <2>3. [task EXCEPT !.i = @ + 1] \in ShopTasks
    BY <2>2 DEF ShopTasks
  <2>4. [task EXCEPT !.kind = "shopput", !.i = 0] \in ShopTasks
    BY <2>2 DEF ShopTasks
  <2> QED
    BY <2>1, <2>3, <2>4, TradingTaskOK
<1> QED
  BY <1>1, <1>3, <1>4, TaskStatementStep

LEMMA ShopPutStep ==
  ASSUME IInv, ShopPut
  PROVE  IInv'
<1> DEFINE ids  == At(items, task.char, INV_TRADE, task.i)
           slot == NextSlot(items, task.char, task.box)
           t    == GiveTo(MoveTo(items, ids, task.box, slot), ids, task.owner)
<1>1. /\ task.kind = "shopput" /\ task.kind \in Trading
      /\ TaskStatement(t, [task EXCEPT !.i = @ + 1])
  BY DEF ShopPut, Trading
<1>2. /\ Clean(items) /\ slot \in Nat /\ task.owner \in Chars
      /\ task.box \in Containers \ {INV_HOTSWAPTEMP}
  BY <1>1, NextSlotNat, Boxes, TaskFields DEF IInv, TablesOK, ShopTasks
<1>3. Clean(t)
  BY <1>2, MoveClean, GiveToClean
<1>4. TaskOK'
  BY <1>1, CountedUp DEF TaskStatement
<1> QED
  BY <1>1, <1>3, <1>4, TaskStatementStep

\* Items of a shop that are put in the window: copies under new ids.
LEMMA ShopTradeAddStep ==
  ASSUME IInv, NEW c \in Chars, NEW shop, NEW slot, ShopTradeAdd(c, shop, slot)
  PROVE  IInv'
<1> DEFINE src(tgt) == At(items, tgt.owner, tgt.box, slot)
           copies(new, of) ==
             [j \in new |-> [items[of[j]] EXCEPT !.parent = INV_TRADEPARTNER, !.owner = c]]
           Adds(tgt, new, of) == Transaction(InsertAll(items, copies(new, of)))
<1>1. PICK tgt \in ShopTargets(c, shop) :
        \E new \in SUBSET FreeIds(items) : \E of \in [new -> src(tgt)] : Adds(tgt, new, of)
  BY DEF ShopTradeAdd
<1>2. PICK new \in SUBSET FreeIds(items) : \E of \in [new -> src(tgt)] : Adds(tgt, new, of)
  BY <1>1
<1>3. PICK of \in [new -> src(tgt)] : Adds(tgt, new, of)
  BY <1>2
<1> DEFINE rows == copies(new, of)
<1>4. Idle /\ Transaction(InsertAll(items, rows)) /\ CachesOK'
  BY <1>3 DEF ShopTradeAdd, IInv, CachesOK, caches
<1>5. Clean(items)
  BY DEF IInv, TablesOK
<1>6. \A i \in new : rows[i] \in Row /\ rows[i].parent # INV_HOTSWAPTEMP
  <2>1. TAKE i \in new
  <2>2. of[i] \in DOMAIN items
    BY DEF At, In
  <2>3. items[of[i]] \in Row
    BY <1>5, <2>2 DEF Clean, IsTable
  <2> QED
    BY <2>3, Boxes DEF Row
<1>7. Clean(InsertAll(items, rows))
  <2>1. src(tgt) \in SUBSET DOMAIN items /\ new \in SUBSET RowIds
    BY DEF At, In, FreeIds
  <2>2. DOMAIN rows = new /\ rows = [i \in DOMAIN rows |-> rows[i]]
    OBVIOUS
  <2> HIDE DEF rows, src
  <2> QED
    BY <1>5, <1>6, <2>1, <2>2, CopiesClean
<1> QED
  BY <1>4, <1>7, TransactionStep

(***************************************************************************)
(* The swap leaves nothing in INV_HOTSWAPTEMP: what the first statement    *)
(* puts there carries the slot and the owner the last one looks for.       *)
(***************************************************************************)
LEMMA SwapClean ==
  ASSUME NEW t, Clean(t), NEW c, NEW from \in Containers \ {INV_HOTSWAPTEMP},
         NEW slot \in Nat, NEW newSlot \in Nat
  PROVE  LET out   == MoveTo(t, At(t, c, INV_TOONINV, newSlot), INV_HOTSWAPTEMP, slot)
             moved == MoveTo(out, At(out, c, from, slot), INV_TOONINV, newSlot)
         IN  Clean(MoveTo(moved, At(moved, c, INV_HOTSWAPTEMP, slot), from, slot))
<1> DEFINE first  == At(t, c, INV_TOONINV, newSlot)
           out    == MoveTo(t, first, INV_HOTSWAPTEMP, slot)
           second == At(out, c, from, slot)
           moved  == MoveTo(out, second, INV_TOONINV, newSlot)
           third  == At(moved, c, INV_HOTSWAPTEMP, slot)
           back   == MoveTo(moved, third, from, slot)
<1>1. /\ IsTable(t)
      /\ INV_TOONINV \in Containers /\ INV_HOTSWAPTEMP \in Containers
      /\ INV_TOONINV # INV_HOTSWAPTEMP
  BY Boxes DEF Clean, INV_TOONINV, INV_HOTSWAPTEMP
<1>2. /\ IsTable(out) /\ DOMAIN out = DOMAIN t
      /\ \A i \in DOMAIN t :
           /\ out[i].parent = IF i \in first THEN INV_HOTSWAPTEMP ELSE t[i].parent
           /\ out[i].slot = IF i \in first THEN slot ELSE t[i].slot
           /\ out[i].owner = t[i].owner
  BY <1>1, MoveIsTable
<1>3. /\ IsTable(moved) /\ DOMAIN moved = DOMAIN t
      /\ \A i \in DOMAIN t :
           /\ moved[i].parent = IF i \in second THEN INV_TOONINV ELSE out[i].parent
           /\ moved[i].slot = IF i \in second THEN newSlot ELSE out[i].slot
           /\ moved[i].owner = out[i].owner
  <2> HIDE DEF out, second
  <2> QED
    BY <1>1, <1>2, MoveIsTable
<1>4. /\ IsTable(back) /\ DOMAIN back = DOMAIN t
      /\ \A i \in DOMAIN t :
           back[i].parent = IF i \in third THEN from ELSE moved[i].parent
  <2> HIDE DEF moved, third
  <2> QED
    BY <1>3, MoveIsTable
<1>5. ASSUME NEW i \in DOMAIN t
      PROVE  back[i].parent # INV_HOTSWAPTEMP
  <2>1. CASE i \in third
    BY <1>4, <2>1
  <2>2. CASE i \notin third
    <3> SUFFICES ASSUME moved[i].parent = INV_HOTSWAPTEMP PROVE FALSE
      BY <1>4, <2>2
    <3>1. i \notin second /\ out[i].parent = INV_HOTSWAPTEMP /\ moved[i].slot = out[i].slot
      BY <1>1, <1>3
    <3>2. i \in first
      BY <1>2, <3>1 DEF Clean
    <3>3. t[i].owner = c /\ out[i].slot = slot
      BY <1>2, <3>2 DEF At, In
    <3>4. moved[i].owner = c /\ moved[i].slot = slot
      BY <1>2, <1>3, <3>1, <3>3
    <3>5. i \in third
      BY <1>3, <3>4 DEF At, In
    <3> QED
      BY <2>2, <3>5
  <2> QED
    BY <2>1, <2>2
<1> HIDE DEF back
<1> QED
  BY <1>4, <1>5 DEF Clean, back

LEMMA HotSwapStep ==
  ASSUME IInv, NEW c \in Chars, NEW ref \in FromRefs, NEW slot \in MsgSlots,
         NEW to, NEW newSlot \in MsgSlots, HotSwap(c, ref, slot, to, newSlot)
  PROVE  IInv'
<1> DEFINE from  == GetFromContainerId(c, ref)
           out   == MoveTo(items, At(items, c, INV_TOONINV, newSlot), INV_HOTSWAPTEMP, slot)
           moved == MoveTo(out, At(out, c, from, slot), INV_TOONINV, newSlot)
           back  == MoveTo(moved, At(moved, c, INV_HOTSWAPTEMP, slot), from, slot)
<1>1. Idle /\ from # NoContainer /\ Transaction(back) /\ CachesOK'
  BY DEF HotSwap, IInv, CachesOK, caches
<1>2. from \in Containers \ {INV_HOTSWAPTEMP}
  BY <1>1, FromIsBox DEF IInv
<1>3. Clean(items) /\ slot \in Nat /\ newSlot \in Nat
  BY MessageTypes DEF IInv, TablesOK
<1>4. Clean(back)
  <2> HIDE DEF from
  <2> QED
    BY <1>2, <1>3, SwapClean
<1> HIDE DEF back
<1> QED
  BY <1>1, <1>4, TransactionStep

LEMMA PlainMoveStep ==
  ASSUME IInv, NEW c \in Chars, NEW ref \in FromRefs, NEW slot \in MsgSlots,
         NEW to \in {INV_BANK, INV_TOONINV, INV_OVERFLOW} \cup Backpacks,
         NEW newSlot \in MsgSlots, PlainMove(c, ref, slot, to, newSlot)
  PROVE  IInv'
<1> DEFINE from == GetFromContainerId(c, ref)
           dest == Destination(from, to)
           at   == IF newSlot >= AnySlot \/ newSlot = 0
                   THEN NextSlot(items, c, dest) ELSE newSlot
           t    == MoveTo(items, At(items, c, from, slot), dest, at)
<1>1. Idle /\ Transaction(t) /\ CachesOK'
  BY DEF PlainMove, IInv, CachesOK, caches
<1>2. dest \in Containers \ {INV_HOTSWAPTEMP}
  BY Boxes DEF Destination
<1>3. Clean(items) /\ at \in Nat
  BY NextSlotNat, MessageTypes DEF IInv, TablesOK
<1>4. Clean(t)
  <2> HIDE DEF at, dest
  <2> QED
    BY <1>2, <1>3, MoveClean
<1> QED
  BY <1>1, <1>4, TransactionStep

\* A bulk message: a DELETE, then new rows of one box and owner.
LEMMA ReplaceStep ==
  ASSUME IInv, Idle, NEW ids, NEW c \in Chars,
         NEW box \in Containers \ {INV_HOTSWAPTEMP},
         NEW kids \in SUBSET (Backpacks \cup {NoContainer}),
         NEW new \in Batches(Delete(items, ids), c, box, kids),
         Transaction(InsertAll(Delete(items, ids), new)), CachesOK'
  PROVE  IInv'
<1>1. Clean(Delete(items, ids))
  BY DeleteClean DEF IInv, TablesOK
<1>2. Clean(InsertAll(Delete(items, ids), new))
  BY <1>1, BatchClean
<1> QED
  BY <1>2, TransactionStep

LEMMA KidsTypes ==
  /\ Backpacks \cup {NoContainer} \in SUBSET (Backpacks \cup {NoContainer})
  /\ {NoContainer} \in SUBSET (Backpacks \cup {NoContainer})
OBVIOUS

LEMMA BankStep ==
  ASSUME IInv, NEW c \in Chars, Bank(c)
  PROVE  IInv'
<1> DEFINE ids == In(items, c, INV_BANK)
<1>1. PICK new \in Batches(Delete(items, ids), c, INV_BANK, Backpacks \cup {NoContainer}) :
        Transaction(InsertAll(Delete(items, ids), new))
  BY DEF Bank
<1>2. Idle /\ CachesOK'
  BY DEF Bank, IInv, CachesOK, caches
<1> QED
  BY <1>1, <1>2, ReplaceStep, Boxes, KidsTypes

LEMMA BackpackBoughtStep ==
  ASSUME IInv, NEW c \in Chars, NEW bag \in Backpacks, NEW key \in Keys,
         NEW slot \in MsgSlots, BackpackBought(c, bag, key, slot)
  PROVE  IInv'
<1> DEFINE at   == SlotFor(items, c, INV_TOONINV, slot)
           kept == Delete(items, {i \in DOMAIN items : /\ items[i].owner = c
                                                       /\ items[i].children = bag})
<1>1. PICK i \in RowIds : Transaction(AddRow(kept, i,
        NewRow(c, key, 1, INV_TOONINV, at, bag)))
  BY FreeIdsAreIds DEF BackpackBought
<1>2. Idle /\ CachesOK' /\ Clean(items)
  BY DEF BackpackBought, IInv, TablesOK, CachesOK, caches
<1>3. Clean(kept) /\ at \in Nat
  BY <1>2, DeleteClean, SlotForNat, MessageTypes
<1> QED
  BY <1>1, <1>2, <1>3, AddRowStep, MessageTypes, Boxes

LEMMA ContainerStep ==
  ASSUME IInv, NEW c \in Chars, NEW bag \in Backpacks, NEW temp, Container(c, bag, temp)
  PROVE  IInv'
<1> DEFINE ids == {i \in DOMAIN items : items[i].parent = bag}
<1>1. PICK new \in Batches(Delete(items, ids), c, bag, {NoContainer}) :
        Transaction(InsertAll(Delete(items, ids), new))
  BY DEF Container
<1>2. Idle /\ CachesOK'
  BY DEF Container, IInv, CachesOK
<1> QED
  BY <1>1, <1>2, ReplaceStep, Boxes, KidsTypes

LEMMA OverflowContainerStep ==
  ASSUME IInv, NEW c \in Chars, OverflowContainer(c)
  PROVE  IInv'
<1> DEFINE ids == {i \in DOMAIN items : items[i].parent = INV_OVERFLOW}
<1>1. PICK new \in Batches(Delete(items, ids), c, INV_OVERFLOW, {NoContainer}) :
        Transaction(InsertAll(Delete(items, ids), new))
  BY DEF OverflowContainer
<1>2. Idle /\ CachesOK'
  BY DEF OverflowContainer, IInv, CachesOK, caches
<1> QED
  BY <1>1, <1>2, ReplaceStep, Boxes, KidsTypes

LEMMA ShopItemsStep ==
  ASSUME IInv, NEW c \in Chars, NEW shop, ShopItems(c, shop)
  PROVE  IInv'
<1> DEFINE kept(tgt) == Delete(items, In(items, tgt.owner, tgt.box))
           Lists(tgt) == \E new \in Batches(kept(tgt), tgt.owner, tgt.box, {NoContainer}) :
                           Transaction(InsertAll(kept(tgt), new))
<1>1. PICK tgt \in ShopTargets(c, shop) : Lists(tgt)
  BY DEF ShopItems
<1>2. PICK new \in Batches(kept(tgt), tgt.owner, tgt.box, {NoContainer}) :
        Transaction(InsertAll(kept(tgt), new))
  BY <1>1
<1>3. Idle /\ CachesOK'
  BY DEF ShopItems, IInv, CachesOK, caches
<1>4. tgt.owner \in Chars /\ tgt.box \in Containers \ {INV_HOTSWAPTEMP}
  BY ShopTargetTypes, Boxes
<1> QED
  BY <1>2, <1>3, <1>4, ReplaceStep, KidsTypes

\* The login message: a transaction of its own, then CleanupDB outside of it.
LEMMA FullSyncStep ==
  ASSUME IInv, NEW c \in Chars, FullSync(c)
  PROVE  IInv'
<1> DEFINE ids  == {i \in DOMAIN items :
                      /\ items[i].owner = c
                      /\ items[i].parent \in {INV_TOONINV} \cup
                                             (INV_TRADE..INV_OTHER_PLAYERSHOP)}
           kept == Delete(items, ids)
<1>1. PICK new \in Batches(kept, c, INV_TOONINV, Backpacks \cup {NoContainer}) :
        /\ items' = InsertAll(kept, new)
        /\ disk' = [items |-> items', toons |-> toons]
  BY DEF FullSync
<1>2. Clean(kept)
  BY DeleteClean DEF IInv, TablesOK
<1>3. Clean(items')
  BY <1>1, <1>2, BatchClean, Boxes, KidsTypes
<1>4. TablesOK'
  BY <1>1, <1>3 DEF TablesOK, FullSync, IInv
<1>5. TaskOK' /\ task'.kind = "cleanup"
  BY DEF FullSync, TaskOK, Tasks
<1>6. CachesOK'
  BY DEF IInv, CachesOK, FullSync
<1>7. TxnOK'
  BY <1>1, <1>5 DEF IInv, TxnOK, FullSync, Trading
<1> QED
  BY <1>4, <1>5, <1>6, <1>7 DEF IInv

LEMMA CleanupDBStep ==
  ASSUME IInv, CleanupDB
  PROVE  IInv'
<1>1. Clean(items')
  BY DeleteClean DEF CleanupDB, IInv, TablesOK
<1>2. TablesOK' /\ CachesOK'
  BY <1>1 DEF CleanupDB, IInv, TablesOK, CachesOK, caches
<1>3. TaskOK' /\ task'.kind = "none"
  BY DEF CleanupDB, TaskOK, Tasks, NoTask
<1>4. TxnOK'
  BY <1>3 DEF CleanupDB, IInv, TxnOK, Trading
<1> QED
  BY <1>2, <1>3, <1>4 DEF IInv

LEMMA ToonSteps ==
  ASSUME IInv, NEW c \in Chars,
         MobSync(c) \/ \E shop \in Shops : ShopInfo(c, shop)
  PROVE  IInv'
<1>1. PICK shop \in Shops \cup {NoToon, NoShop} : Idle /\ SetToon(c, shop)
  BY DEF MobSync, ShopInfo
<1> QED
  BY <1>1, SetToonStep

LEMMA DeleteSelectedStep ==
  ASSUME IInv, NEW ids, DeleteSelected(ids)
  PROVE  IInv'
<1>1. Idle /\ CachesOK' /\ Statement(Delete(items, ids))
  BY DEF DeleteSelected, IInv, CachesOK, caches
<1> QED
  BY <1>1, DeleteStep

LEMMA RestartStep ==
  ASSUME IInv, Restart
  PROVE  IInv'
<1>1. TablesOK' /\ CachesOK' /\ TaskOK'
  BY DEF Restart, IInv, TablesOK, CachesOK, TaskOK, Tasks
<1>2. TxnOK'
  <2>1. disk = [items |-> disk.items, toons |-> disk.toons]
    BY DEF IInv, TablesOK
  <2> QED
    BY <2>1 DEF Restart, IInv, TxnOK, NoTask, Trading
<1> QED
  BY <1>1, <1>2 DEF IInv

-----------------------------------------------------------------------------
(***************************************************************************)
(* The invariant holds initially and every step keeps it.                  *)
(***************************************************************************)
LEMMA InitIInv == Init => IInv
<1> SUFFICES ASSUME Init PROVE IInv
  OBVIOUS
<1>1. TablesOK
  BY EmptyClean DEF Init, TablesOK, ToonTable
<1>2. CachesOK /\ TaskOK
  BY DEF Init, CachesOK, TaskOK, Tasks
<1>3. TxnOK
  BY DEF Init, TxnOK, NoTask, Trading
<1> QED
  BY <1>1, <1>2, <1>3 DEF IInv

LEMMA StackMessageStep ==
  ASSUME IInv, NEW c \in Chars, StackMessage(c)
  PROVE  IInv'
<1>1. ASSUME NEW ref \in FromRefs, NEW slot \in MsgSlots, NEW n \in MsgStacks,
             SplitStack(c, ref, slot, n)
      PROVE  IInv'
  BY <1>1, SplitStackStep
<1>2. ASSUME NEW ref \in FromRefs, NEW slot \in MsgSlots, NEW k \in Keys,
             ClientDeleteItem(c, ref, slot, k) \/ ItemUsed(c, ref, slot, k)
      PROVE  IInv'
  BY <1>2, ClientDeleteItemStep, ItemUsedStep
<1>3. ASSUME NEW ref \in FromRefs, NEW slot \in MsgSlots, ServerDeleteItem(c, ref, slot)
      PROVE  IInv'
  BY <1>3, ServerDeleteItemStep
<1>4. ASSUME NEW ref \in FromRefs, NEW slot \in MsgSlots, NEW ref2 \in FromRefs,
             NEW slot2 \in MsgSlots, JoinStacks(c, ref, slot, ref2, slot2)
      PROVE  IInv'
  BY <1>4, JoinStacksStep
<1>5. ASSUME NEW ref \in FromRefs, ActionOnUnknownContainer(c, ref)
      PROVE  IInv'
  BY <1>5, ActionOnUnknownContainerStep
<1> QED
  BY <1>1, <1>2, <1>3, <1>4, <1>5 DEF StackMessage

LEMMA TradeMessageStep ==
  ASSUME IInv, NEW c \in Chars, TradeMessage(c)
  PROVE  IInv'
<1>1. CASE EndNpcTrade(c) \/ NpcAccept(c) \/ TradeDecline(c)
  BY <1>1, LoopStartStep
<1>2. CASE TradeStart(c) \/ TradeCommit(c)
  BY <1>2, TradeStartStep, TradeCommitStep
<1>3. ASSUME NEW k \in Keys, NEW n \in MsgStacks, PartnerAddsItem(c, k, n)
      PROVE  IInv'
  BY <1>3, PartnerAddsItemStep
<1>4. ASSUME NEW slot \in MsgSlots,
             PartnerRemovesItem(c, slot) \/ TradeRemove(c, slot) \/ ShopTradeRemove(c, slot)
      PROVE  IInv'
  BY <1>4, PartnerRemovesItemStep, TradeRemoveStep, ShopTradeRemoveStep
<1>5. ASSUME NEW slot \in MsgSlots, NEW ref \in FromRefs,
             TradeAdd(c, ref, slot) \/ \E d \in {0, 1} : GiveToNpc(c, ref, slot, d)
      PROVE  IInv'
  BY <1>5, TradeAddStep, GiveToNpcStep
<1>6. ASSUME NEW shop \in Shops, NEW slot \in MsgSlots, ShopTradeAdd(c, shop, slot)
      PROVE  IInv'
  BY <1>6, ShopTradeAddStep
<1>7. ASSUME NEW shop \in Shops, ShopTradeCommit(c, shop)
      PROVE  IInv'
  BY <1>7, ShopTradeCommitStep
<1>8. ASSUME NEW bag \in Backpacks,
             PartnerAddsBackpack(c, bag) \/ PartnerRemovesBackpack(c, bag)
      PROVE  IInv'
  BY <1>8, PartnerAddsBackpackStep, PartnerRemovesBackpackStep
<1> QED
  BY <1>1, <1>2, <1>3, <1>4, <1>5, <1>6, <1>7, <1>8 DEF TradeMessage

LEMMA MoveMessageStep ==
  ASSUME IInv, NEW c \in Chars, MoveMessage(c)
  PROVE  IInv'
<1> SUFFICES ASSUME NEW ref \in FromRefs, NEW slot \in MsgSlots, NEW newSlot \in MsgSlots,
                    NEW to \in {INV_BANK, INV_TOONINV, INV_OVERFLOW} \cup Backpacks,
                    \/ HotSwap(c, ref, slot, to, newSlot)
                    \/ MoveJoins(c, ref, slot, to, newSlot)
                    \/ PlainMove(c, ref, slot, to, newSlot)
             PROVE  IInv'
  BY DEF MoveMessage
<1> QED
  BY HotSwapStep, MoveJoinsStep, PlainMoveStep

LEMMA NewItemMessageStep ==
  ASSUME IInv, NEW c \in Chars, NewItemMessage(c)
  PROVE  IInv'
<1>1. ASSUME NEW k \in Keys, NEW n \in MsgStacks,
             ItemBought(c, k, n) \/ \E slot \in MsgSlots : TradeskillResult(c, k, n, slot)
      PROVE  IInv'
  BY <1>1, ItemBoughtStep, TradeskillResultStep
<1>2. ASSUME NEW temp \in TempItems, DeleteTempItem(c, temp)
      PROVE  IInv'
  BY <1>2, DeleteTempItemStep
<1>3. ASSUME NEW temp \in TempItems, NEW slot \in MsgSlots,
             SpawnTempId(c, temp, slot) \/ \E k \in Keys : SpawnReward(c, temp, k, slot)
      PROVE  IInv'
  BY <1>3, SpawnTempIdStep, SpawnRewardStep
<1> QED
  BY <1>1, <1>2, <1>3 DEF NewItemMessage

LEMMA BulkMessageStep ==
  ASSUME IInv, NEW c \in Chars, BulkMessage(c)
  PROVE  IInv'
<1>1. CASE Bank(c) \/ FullSync(c) \/ OverflowContainer(c) \/ MobSync(c)
  BY <1>1, BankStep, FullSyncStep, OverflowContainerStep, ToonSteps
<1>2. ASSUME NEW bag \in Backpacks, NEW temp \in TempIds, Container(c, bag, temp)
      PROVE  IInv'
  BY <1>2, ContainerStep
<1>3. ASSUME NEW bag \in Backpacks, NEW k \in Keys, NEW slot \in MsgSlots,
             BackpackBought(c, bag, k, slot)
      PROVE  IInv'
  BY <1>3, BackpackBoughtStep
<1>4. ASSUME NEW shop \in Shops, ShopItems(c, shop) \/ ShopInfo(c, shop)
      PROVE  IInv'
  BY <1>4, ShopItemsStep, ToonSteps
<1> QED
  BY <1>1, <1>2, <1>3, <1>4 DEF BulkMessage

LEMMA TaskSteps ==
  ASSUME IInv, TaskStep
  PROVE  IInv'
<1>1. CASE MoveBack \/ MoveBackDone
  BY <1>1, MoveBackStep, MoveBackDoneStep
<1>2. CASE (\E k \in Keys : NpcRejects(k)) \/ NpcAcceptDone
  BY <1>2, NpcRejectsStep, NpcAcceptDoneStep
<1>3. CASE GrabStuff \/ TradeCommitDone \/ ShopTradeDone
  BY <1>3, GrabStuffStep, LoopDoneStep
<1>4. CASE ShopGrab \/ ShopPut \/ CleanupDB
  BY <1>4, ShopGrabStep, ShopPutStep, CleanupDBStep
<1> QED
  BY <1>1, <1>2, <1>3, <1>4 DEF TaskStep

LEMMA StutterStep ==
  ASSUME IInv, UNCHANGED vars
  PROVE  IInv'
BY DEF vars, IInv, TablesOK, CachesOK, TaskOK, TxnOK

LEMMA NextIInv == IInv /\ [Next]_vars => IInv'
<1> SUFFICES ASSUME IInv, [Next]_vars PROVE IInv'
  OBVIOUS
<1>1. ASSUME NEW c \in Chars,
             \/ StackMessage(c) \/ TradeMessage(c) \/ MoveMessage(c)
             \/ NewItemMessage(c) \/ BulkMessage(c)
      PROVE  IInv'
  BY <1>1, StackMessageStep, TradeMessageStep, MoveMessageStep, NewItemMessageStep,
     BulkMessageStep
<1>2. CASE TaskStep
  BY <1>2, TaskSteps
<1>3. ASSUME NEW ids \in SUBSET DOMAIN items, DeleteSelected(ids)
      PROVE  IInv'
  BY <1>3, DeleteSelectedStep
<1>4. CASE Restart
  BY <1>4, RestartStep
<1>5. CASE UNCHANGED vars
  BY <1>5, StutterStep
<1> QED
  BY <1>1, <1>2, <1>3, <1>4, <1>5 DEF Next, CharMessage

\* Every reachable state satisfies the inductive invariant: whatever messages
\* arrive in whatever order, and wherever the process is killed.
THEOREM Invariance == Spec => []IInv
<1>1. Init => IInv
  BY InitIInv
<1>2. IInv /\ [Next]_vars => IInv'
  BY NextIInv
<1> QED
  BY <1>1, <1>2, PTL DEF Spec

\* The type invariant, for every value of the constants.
THEOREM TypeCorrect == Spec => []TypeOK
<1>1. IInv => TypeOK
  BY DEF IInv, TablesOK, CachesOK, TaskOK, TxnOK, TypeOK, Clean, ToonTable
<1> QED
  BY <1>1, Invariance, PTL

\* Lock/UnLock and Begin/Commit pair up over all handlers: without the lock
\* there is no open transaction, and the file holds everything.
THEOREM NothingUncommitted == Spec => []CommittedUnlessLocked
<1>1. IInv => CommittedUnlessLocked
  BY DEF IInv, TxnOK, CommittedUnlessLocked
<1> QED
  BY <1>1, Invariance, PTL

\* No item is stranded in the container of the equipment swap, in the table or
\* in the file.
THEOREM NothingInHotswap == Spec => []HotswapEmpty
<1>1. IInv => HotswapEmpty
  BY DEF IInv, TablesOK, Clean, HotswapEmpty
<1> QED
  BY <1>1, Invariance, PTL

\* The slot search never returns a slot that is taken (in a container with
\* rows), and returns the lowest free one when no two rows share a slot.
THEOREM SearchFindsFreeSlot == Spec => []FreeSlotFound
<1>1. IInv => FreeSlotFound
  <2> SUFFICES ASSUME IInv, NEW c \in Chars, NEW box \in Containers,
                      Counted(items, c, box) # {}
               PROVE  LET p == FindNextAvailableContainerSlot(items, c, box)
                      IN  /\ p >= FirstSlot(box) /\ At(items, c, box, p) = {}
                          /\ OneRowPerSlot(items, c, box) =>
                               \A q \in FirstSlot(box)..(p - 1) : At(items, c, box, q) # {}
    BY DEF FreeSlotFound
  <2>1. IsTable(items)
    BY DEF IInv, TablesOK, Clean
  <2> QED
    BY <2>1, NextSlotIsFree, NextSlotIsLowestFree DEF OneRowPerSlot
<1> QED
  BY <1>1, Invariance, PTL

\* The least candidate is where the loop over the rows stops, whatever the order
\* in which rows of one slot come; by SlotOrderExists there is such an order.
THEOREM SearchIsTheWalk == Spec => []SlotSearchIsTheWalk
<1>1. IInv => SlotSearchIsTheWalk
  <2>1. IInv => IsTable(items)
    BY DEF IInv, TablesOK, Clean
  <2> QED
    BY <2>1, WalkFindsSlot DEF SlotSearchIsTheWalk
<1> QED
  BY <1>1, Invariance, PTL

\* No message is handled while a loop runs.
LEMMA MessagesNeedIdle ==
  ASSUME NEW c \in Chars,
         \/ StackMessage(c) \/ TradeMessage(c) \/ MoveMessage(c)
         \/ NewItemMessage(c) \/ BulkMessage(c)
  PROVE  Idle
<1>1. CASE StackMessage(c)
  BY <1>1 DEF StackMessage, SplitStack, ClientDeleteItem, ItemUsed, ServerDeleteItem,
     JoinStacks, ActionOnUnknownContainer
<1>2. CASE TradeMessage(c)
  BY <1>2 DEF TradeMessage, EndNpcTrade, NpcAccept, TradeStart, TradeDecline, TradeCommit,
     PartnerAddsItem, PartnerRemovesItem, TradeRemove, ShopTradeRemove, TradeAdd,
     GiveToNpc, ShopTradeAdd, ShopTradeCommit, PartnerAddsBackpack, PartnerRemovesBackpack
<1>3. CASE MoveMessage(c)
  BY <1>3 DEF MoveMessage, HotSwap, MoveJoins, PlainMove
<1>4. CASE NewItemMessage(c)
  BY <1>4 DEF NewItemMessage, ItemBought, TradeskillResult, DeleteTempItem, SpawnTempId,
     SpawnReward
<1>5. CASE BulkMessage(c)
  BY <1>5 DEF BulkMessage, Bank, FullSync, OverflowContainer, MobSync, Container,
     BackpackBought, ShopItems, ShopInfo
<1> QED
  BY <1>1, <1>2, <1>3, <1>4, <1>5

\* A trade reaches the file whole: no step inside of a loop over the trade
\* window writes the file but the one that ends the loop, because nothing but
\* an iteration or the end of the process can happen there, and the iterations
\* run in the transaction the handler began.
THEOREM TradesAreAtomic == Spec => TradeIsAtomic
<1> DEFINE A == task.kind \in Trading =>
                  disk' = disk \/ (task' = NoTask /\ disk'.items = items')
<1>1. IInv /\ [Next]_vars => [A]_vars
  <2> SUFFICES ASSUME IInv, Next, task.kind \in Trading
               PROVE  disk' = disk \/ (task' = NoTask /\ disk'.items = items')
    OBVIOUS
  <2>1. ~Idle /\ task.kind # "cleanup"
    BY DEF Idle, NoTask, Trading
  <2>2. TaskStep \/ Restart
    BY <2>1, MessagesNeedIdle DEF Next, CharMessage, DeleteSelected
  <2>3. ASSUME NEW t, NEW new, TaskStatement(t, new) PROVE disk' = disk
    BY <2>3 DEF TaskStatement, IInv, TxnOK
  <2>4. ASSUME NEW t, EndTask(t) PROVE task' = NoTask /\ disk'.items = items'
    BY <2>4 DEF EndTask
  <2>5. CASE Restart
    BY <2>5 DEF Restart
  <2>6. CASE TaskStep
    BY <2>1, <2>3, <2>4, <2>6 DEF TaskStep, MoveBack, MoveBackDone, NpcRejects,
       NpcAcceptDone, GrabStuff, TradeCommitDone, ShopGrab, ShopPut, ShopTradeDone,
       CleanupDB
  <2> QED
    BY <2>2, <2>5, <2>6
<1> QED
  BY <1>1, Invariance, PTL DEF Spec, TradeIsAtomic

-----------------------------------------------------------------------------
(***************************************************************************)
(* Handlers keep to their owner.  KeepsOthers(t, u, c) is what a handler   *)
(* for c may do to the table: a row of another character in the bank, on   *)
(* the body or in a trade is neither changed nor made.                     *)
(***************************************************************************)
Private == {INV_BANK, INV_TOONINV, INV_TRADE, INV_TRADEPARTNER}

Owned(t, c)  == {i \in DOMAIN t : t[i].owner = c}
Others(t, c) == {i \in DOMAIN t : t[i].owner # c /\ t[i].parent \in Private}

KeepsOthers(t, u, c) ==
  /\ \A i \in Others(t, c) : i \in DOMAIN u /\ u[i] = t[i]
  /\ \A i \in Others(u, c) : i \in DOMAIN t /\ t[i] = u[i]

LEMMA ChangesAreOwn ==
  ASSUME NEW t, NEW u, NEW c, KeepsOthers(t, u, c)
  PROVE  OwnersOf(t, Changed(t, u)) \cup OwnersOf(u, Changed(t, u)) \subseteq {c}
BY DEF KeepsOthers, Others, OwnersOf, Changed, Private

LEMMA KeepsNothing ==
  ASSUME NEW t, NEW c
  PROVE  KeepsOthers(t, t, c)
BY DEF KeepsOthers, Others

LEMMA KeepsAlong ==
  ASSUME NEW t, NEW u, NEW v, NEW c, KeepsOthers(t, u, c), KeepsOthers(u, v, c)
  PROVE  KeepsOthers(t, v, c)
<1>1. ASSUME NEW i \in Others(t, c) PROVE i \in DOMAIN v /\ v[i] = t[i]
  <2>1. i \in DOMAIN u /\ u[i] = t[i]
    BY DEF KeepsOthers
  <2>2. i \in Others(u, c)
    BY <2>1 DEF Others
  <2> QED BY <2>1, <2>2 DEF KeepsOthers
<1>2. ASSUME NEW i \in Others(v, c) PROVE i \in DOMAIN t /\ t[i] = v[i]
  <2>1. i \in DOMAIN u /\ u[i] = v[i]
    BY DEF KeepsOthers
  <2>2. i \in Others(u, c)
    BY <2>1 DEF Others
  <2> QED BY <2>1, <2>2 DEF KeepsOthers
<1> QED BY <1>1, <1>2 DEF KeepsOthers

\* The statements: each names rows of c, or rows in a container of no one.
LEMMA DeleteKeeps ==
  ASSUME NEW t, NEW ids, NEW c,
         \A i \in ids \cap DOMAIN t : t[i].owner = c \/ t[i].parent \notin Private
  PROVE  KeepsOthers(t, Delete(t, ids), c)
BY DEF KeepsOthers, Others, Delete

LEMMA UpdateKeeps ==
  ASSUME NEW t, NEW u, NEW c, DOMAIN u = DOMAIN t,
         \A i \in DOMAIN t :
           \/ u[i] = t[i]
           \/ t[i].owner = c /\ (u[i].owner = c \/ u[i].parent \notin Private)
  PROVE  KeepsOthers(t, u, c)
<1>1. ASSUME NEW i \in Others(t, c) PROVE i \in DOMAIN u /\ u[i] = t[i]
  BY DEF Others
<1>2. ASSUME NEW i \in Others(u, c) PROVE i \in DOMAIN t /\ t[i] = u[i]
  BY DEF Others
<1> QED BY <1>1, <1>2 DEF KeepsOthers

LEMMA MoveKeeps ==
  ASSUME NEW t, IsTable(t), NEW c, NEW ids \in SUBSET Owned(t, c), NEW box, NEW slot
  PROVE  KeepsOthers(t, MoveTo(t, ids, box, slot), c)
<1> DEFINE m == MoveTo(t, ids, box, slot)
<1>1. DOMAIN m = DOMAIN t
  BY DEF MoveTo
<1>2. ASSUME NEW i \in DOMAIN t
      PROVE  m[i] = t[i] \/ (t[i].owner = c /\ m[i].owner = c)
  BY DEF MoveTo, IsTable, Row, Owned
<1> HIDE DEF m
<1>3. KeepsOthers(t, m, c)
  BY <1>1, <1>2, UpdateKeeps
<1> QED BY <1>3 DEF m

LEMMA StackKeeps ==
  ASSUME NEW t, IsTable(t), NEW c, NEW ids \in SUBSET Owned(t, c), NEW n
  PROVE  /\ KeepsOthers(t, AddToStack(t, ids, n), c)
         /\ Owned(AddToStack(t, ids, n), c) = Owned(t, c)
<1> DEFINE m == AddToStack(t, ids, n)
<1>1. DOMAIN m = DOMAIN t
  BY DEF AddToStack
<1>2. ASSUME NEW i \in DOMAIN t
      PROVE  /\ m[i] = t[i] \/ (t[i].owner = c /\ m[i].owner = c)
             /\ m[i].owner = t[i].owner
  BY DEF AddToStack, IsTable, Row, Owned
<1> HIDE DEF m
<1>3. KeepsOthers(t, m, c)
  BY <1>1, <1>2, UpdateKeeps
<1>4. Owned(m, c) = Owned(t, c)
  BY <1>1, <1>2 DEF Owned
<1> QED BY <1>3, <1>4 DEF m

LEMMA InsertKeeps ==
  ASSUME NEW t, NEW i, i \notin DOMAIN t, NEW row, NEW c, row.owner = c
  PROVE  KeepsOthers(t, AddRow(t, i, row), c)
BY DEF KeepsOthers, Others, AddRow, InsertItem

LEMMA InsertAllKeeps ==
  ASSUME NEW t, NEW new, NEW c, DOMAIN new \cap DOMAIN t = {},
         \A i \in DOMAIN new : new[i].owner = c \/ new[i].parent \notin Private
  PROVE  KeepsOthers(t, InsertAll(t, new), c)
BY DEF KeepsOthers, Others, InsertAll

LEMMA HandOverKeeps ==
  ASSUME NEW t, IsTable(t), NEW c, NEW ids \in SUBSET Owned(t, c),
         NEW box \in Containers, NEW slot \in Nat, NEW d, box \notin Private \/ d = c
  PROVE  KeepsOthers(t, GiveTo(MoveTo(t, ids, box, slot), ids, d), c)
<1> DEFINE m == MoveTo(t, ids, box, slot)
           g == GiveTo(m, ids, d)
<1>1. ids \subseteq DOMAIN t /\ \A i \in ids : t[i].owner = c
  BY DEF Owned
<1>2. DOMAIN m = DOMAIN t
  BY DEF MoveTo
<1>3. \A i \in DOMAIN t : i \in ids => m[i] \in Row /\ m[i].parent = box
  BY <1>1 DEF MoveTo, IsTable, Row
<1>4. \A i \in DOMAIN t : i \notin ids => m[i] = t[i]
  BY DEF MoveTo
<1> HIDE DEF m
<1>5. DOMAIN g = DOMAIN t
  BY <1>2 DEF GiveTo
<1>6. ASSUME NEW i \in DOMAIN t, i \in ids
      PROVE  g[i].owner = d /\ g[i].parent = box
  BY <1>2, <1>3, <1>6 DEF GiveTo, Row
<1>7. ASSUME NEW i \in DOMAIN t, i \notin ids
      PROVE  g[i] = t[i]
  BY <1>2, <1>4, <1>7 DEF GiveTo
<1> HIDE DEF g
<1>8. \A i \in DOMAIN t :
        g[i] = t[i] \/ (t[i].owner = c /\ (g[i].owner = c \/ g[i].parent \notin Private))
  BY <1>1, <1>6, <1>7
<1>9. KeepsOthers(t, g, c)
  BY <1>5, <1>8, UpdateKeeps
<1> QED BY <1>9 DEF g, m

\* The WHERE clauses with an owner.
LEMMA NamedRowsAreOwned ==
  ASSUME NEW t, NEW c
  PROVE  /\ \A box : In(t, c, box) \subseteq Owned(t, c)
         /\ \A box, slot : At(t, c, box, slot) \subseteq Owned(t, c)
BY DEF In, At, Owned

LEMMA DeleteOwnKeeps ==
  ASSUME NEW t, NEW c, NEW ids \in SUBSET Owned(t, c)
  PROVE  KeepsOthers(t, Delete(t, ids), c)
BY DeleteKeeps DEF Owned

LEMMA MoveSlotKeeps ==
  ASSUME NEW t, IsTable(t), NEW c, NEW from, NEW slot, NEW box
  PROVE  KeepsOthers(t, MoveSlot(t, c, from, slot, box), c)
BY MoveKeeps, NamedRowsAreOwned DEF MoveSlot

LEMMA BatchKeeps ==
  ASSUME NEW t, NEW c, NEW o, NEW box, NEW kids, NEW new \in Batches(t, o, box, kids),
         o = c \/ box \notin Private
  PROVE  KeepsOthers(t, InsertAll(t, new), c)
<1>1. PICK ids \in SUBSET FreeIds(t) : new \in [ids -> BatchRow(o, box, kids)]
  BY DEF Batches
<1>2. DOMAIN new \cap DOMAIN t = {}
  BY <1>1 DEF FreeIds
<1>3. \A i \in DOMAIN new : new[i].owner = o /\ new[i].parent = box
  BY <1>1 DEF BatchRow
<1> QED BY <1>2, <1>3, InsertAllKeeps

\* A message that replaces the contents of a container.
LEMMA ReplaceKeeps ==
  ASSUME NEW t, NEW c, NEW ids, NEW o, NEW box, NEW kids,
         NEW new \in Batches(Delete(t, ids), o, box, kids),
         \A i \in ids \cap DOMAIN t : t[i].owner = c \/ t[i].parent \notin Private,
         o = c \/ box \notin Private
  PROVE  KeepsOthers(t, InsertAll(Delete(t, ids), new), c)
<1>1. KeepsOthers(t, Delete(t, ids), c)
  BY DeleteKeeps
<1>2. KeepsOthers(Delete(t, ids), InsertAll(Delete(t, ids), new), c)
  BY BatchKeeps
<1> QED BY <1>1, <1>2, KeepsAlong

LEMMA PublicBoxes ==
  /\ INV_OVERFLOW \notin Private /\ INV_PLAYERSHOP \notin Private
  /\ INV_OTHER_PLAYERSHOP \notin Private
  /\ \A bag \in Backpacks : bag \notin Private
BY TableAssumption DEF Private, INV_BANK, INV_TOONINV, INV_PLAYERSHOP, INV_TRADE,
   INV_TRADEPARTNER, INV_OVERFLOW, INV_OTHER_PLAYERSHOP

-----------------------------------------------------------------------------
\* Each message of c writes only rows of c, or rows in a container of no one.
LEMMA SplitStackKeeps ==
  ASSUME IInv, NEW c \in Chars, NEW ref \in FromRefs, NEW slot \in MsgSlots,
         NEW n \in MsgStacks, SplitStack(c, ref, slot, n)
  PROVE  KeepsOthers(items, items', c)
<1> DEFINE from  == GetFromContainerId(c, ref)
           src   == At(items, c, from, slot)
           fresh == NextSlot(items, c, from)
           copies(new, of) ==
             [j \in new |-> [items[of[j]] EXCEPT !.stack = n, !.slot = fresh]]
           both(new, of) == InsertAll(items, copies(new, of))
           split(new, of) ==
             AddToStack(both(new, of), At(both(new, of), c, from, slot), -n)
           Splits(new, of) == Transaction(split(new, of))
<1>0. PICK new \in SUBSET FreeIds(items) : \E of \in [new -> src] : Splits(new, of)
  BY DEF SplitStack
<1>1. PICK of \in [new -> src] : Splits(new, of)
  BY <1>0
<1> DEFINE rows == copies(new, of)
           t    == both(new, of)
<1>2. items' = AddToStack(t, At(t, c, from, slot), -n)
  BY <1>1 DEF Transaction
<1>3. Clean(items) /\ fresh \in Nat
  BY NextSlotNat DEF IInv, TablesOK
<1>4. \A i \in new : /\ rows[i] \in Row /\ rows[i].parent # INV_HOTSWAPTEMP
                     /\ rows[i].owner = c
  <2>1. TAKE i \in new
  <2>2. of[i] \in DOMAIN items /\ items[of[i]].owner = c
    BY DEF At, In
  <2>3. items[of[i]] \in Row /\ items[of[i]].parent # INV_HOTSWAPTEMP
    BY <1>3, <2>2 DEF Clean, IsTable
  <2> QED
    BY <1>3, <2>2, <2>3, MessageTypes DEF Row
<1>5. DOMAIN rows = new /\ rows = [i \in DOMAIN rows |-> rows[i]]
  OBVIOUS
<1>6. /\ src \in SUBSET DOMAIN items /\ new \in SUBSET RowIds
      /\ new \cap DOMAIN items = {}
  BY DEF At, In, FreeIds
<1> HIDE DEF rows, copies
<1>7. Clean(t)
  BY <1>3, <1>4, <1>5, <1>6, CopiesClean DEF rows
<1>8. KeepsOthers(items, t, c)
  BY <1>4, <1>5, <1>6, InsertAllKeeps DEF rows
<1> HIDE DEF t
<1>9. KeepsOthers(t, items', c)
  BY <1>2, <1>7, StackKeeps, NamedRowsAreOwned DEF Clean
<1> QED BY <1>8, <1>9, KeepsAlong

\* A stack that takes up another one, which is deleted.
LEMMA JoinKeeps ==
  ASSUME NEW t, Clean(t), NEW c, NEW dst \in SUBSET Owned(t, c),
         NEW src \in SUBSET Owned(t, c), NEW n
  PROVE  KeepsOthers(t, Delete(AddToStack(t, dst, n), src), c)
<1> DEFINE u == AddToStack(t, dst, n)
<1>1. KeepsOthers(t, u, c) /\ Owned(u, c) = Owned(t, c)
  BY StackKeeps DEF Clean
<1> HIDE DEF u
<1>2. KeepsOthers(u, Delete(u, src), c)
  BY <1>1, DeleteOwnKeeps
<1>3. KeepsOthers(t, Delete(u, src), c)
  BY <1>1, <1>2, KeepsAlong
<1> QED BY <1>3 DEF u

LEMMA StackMessageKeeps ==
  ASSUME IInv, NEW c \in Chars, StackMessage(c)
  PROVE  KeepsOthers(items, items', c)
<1>0. Clean(items)
  BY DEF IInv, TablesOK
<1>1. ASSUME NEW ref \in FromRefs, NEW slot \in MsgSlots, NEW n \in MsgStacks,
             SplitStack(c, ref, slot, n)
      PROVE  KeepsOthers(items, items', c)
  BY <1>1, SplitStackKeeps
<1>2. ASSUME NEW ref \in FromRefs, NEW slot \in MsgSlots, NEW k \in Keys,
             ClientDeleteItem(c, ref, slot, k)
      PROVE  KeepsOthers(items, items', c)
  <2> DEFINE ids == {i \in At(items, c, GetFromContainerId(c, ref), slot) :
                       items[i].key = k}
  <2>1. items' = Delete(items, ids)
    BY <1>2 DEF ClientDeleteItem, Transaction
  <2>2. ids \in SUBSET Owned(items, c)
    BY NamedRowsAreOwned
  <2> HIDE DEF ids
  <2> QED BY <2>1, <2>2, DeleteOwnKeeps
<1>3. ASSUME NEW ref \in FromRefs, NEW slot \in MsgSlots, NEW k \in Keys,
             ItemUsed(c, ref, slot, k)
      PROVE  KeepsOthers(items, items', c)
  <2> DEFINE hit(t) == {i \in At(t, c, GetFromContainerId(c, ref), slot) :
                          t[i].key = k /\ k \in Depletable}
             less   == AddToStack(items, hit(items), -1)
             gone   == {i \in hit(less) : less[i].stack = 0}
  <2>1. items' = Delete(less, gone)
    BY <1>3 DEF ItemUsed, Transaction
  <2>2. hit(items) \in SUBSET Owned(items, c)
    BY NamedRowsAreOwned
  <2>3. gone \in SUBSET Owned(less, c)
    <3> HIDE DEF less
    <3> QED BY NamedRowsAreOwned
  <2> HIDE DEF hit, gone
  <2>4. Owned(less, c) = Owned(items, c)
    BY <1>0, <2>2, StackKeeps DEF Clean
  <2> QED BY <1>0, <2>1, <2>2, <2>3, <2>4, JoinKeeps
<1>4. ASSUME NEW ref \in FromRefs, NEW slot \in MsgSlots, ServerDeleteItem(c, ref, slot)
      PROVE  KeepsOthers(items, items', c)
  BY <1>4, DeleteOwnKeeps, NamedRowsAreOwned DEF ServerDeleteItem, Transaction
<1>5. ASSUME NEW ref \in FromRefs, NEW slot \in MsgSlots, NEW ref2 \in FromRefs,
             NEW slot2 \in MsgSlots, JoinStacks(c, ref, slot, ref2, slot2)
      PROVE  KeepsOthers(items, items', c)
  <2> DEFINE src == At(items, c, GetFromContainerId(c, ref2), slot2)
             dst == At(items, c, GetFromContainerId(c, ref), slot)
  <2>1. PICK n : items' = Delete(AddToStack(items, dst, n), src)
    BY <1>5 DEF JoinStacks, Transaction
  <2>2. src \in SUBSET Owned(items, c) /\ dst \in SUBSET Owned(items, c)
    BY NamedRowsAreOwned
  <2> HIDE DEF src, dst
  <2> QED BY <1>0, <2>1, <2>2, JoinKeeps
<1>6. ASSUME NEW ref \in FromRefs, ActionOnUnknownContainer(c, ref)
      PROVE  KeepsOthers(items, items', c)
  BY <1>6, KeepsNothing DEF ActionOnUnknownContainer, ReturnHoldingLock
<1> QED
  BY <1>1, <1>2, <1>3, <1>4, <1>5, <1>6 DEF StackMessage

LEMMA AddsOwnRow ==
  ASSUME NEW t, NEW c, NEW i \in FreeIds(t), NEW key, NEW stack, NEW box, NEW slot,
         NEW kids
  PROVE  KeepsOthers(t, AddRow(t, i, NewRow(c, key, stack, box, slot, kids)), c)
<1>1. i \notin DOMAIN t /\ NewRow(c, key, stack, box, slot, kids).owner = c
  BY DEF FreeIds, NewRow
<1> QED BY <1>1, InsertKeeps

\* What a sale takes from the shop is in the shop's container, whose rows are
\* of the shop's owner; the duplicates are rows of the buyer.
LEMMA ShopTargetBoxes ==
  ASSUME NEW c, NEW shop, NEW tgt \in ShopTargets(c, shop)
  PROVE  tgt.box \notin Private /\ (tgt.box = INV_OTHER_PLAYERSHOP => tgt.owner = c)
BY PublicBoxes DEF ShopTargets, INV_PLAYERSHOP, INV_OTHER_PLAYERSHOP

LEMMA ShopTradeAddKeeps ==
  ASSUME IInv, NEW c \in Chars, NEW shop, NEW slot, ShopTradeAdd(c, shop, slot)
  PROVE  KeepsOthers(items, items', c)
<1> DEFINE src(tgt) == At(items, tgt.owner, tgt.box, slot)
           copies(new, of) ==
             [j \in new |-> [items[of[j]] EXCEPT !.parent = INV_TRADEPARTNER, !.owner = c]]
           Adds(tgt, new, of) == Transaction(InsertAll(items, copies(new, of)))
<1>1. PICK tgt \in ShopTargets(c, shop) :
        \E new \in SUBSET FreeIds(items) : \E of \in [new -> src(tgt)] : Adds(tgt, new, of)
  BY DEF ShopTradeAdd
<1>2. PICK new \in SUBSET FreeIds(items) : \E of \in [new -> src(tgt)] : Adds(tgt, new, of)
  BY <1>1
<1>3. PICK of \in [new -> src(tgt)] : Adds(tgt, new, of)
  BY <1>2
<1> DEFINE rows == copies(new, of)
<1>4. items' = InsertAll(items, rows)
  BY <1>3 DEF Transaction
<1>5. \A i \in new : rows[i].owner = c
  <2>1. TAKE i \in new
  <2>2. of[i] \in DOMAIN items
    BY DEF At, In
  <2>3. items[of[i]] \in Row
    BY <2>2 DEF IInv, TablesOK, Clean, IsTable
  <2> QED
    BY <2>3 DEF Row
<1>6. DOMAIN rows \cap DOMAIN items = {} /\ \A i \in DOMAIN rows : rows[i].owner = c
  BY <1>5 DEF FreeIds
<1> HIDE DEF rows
<1> QED BY <1>4, <1>6, InsertAllKeeps

LEMMA TradeCommitKeeps ==
  ASSUME NEW c, TradeCommit(c)
  PROVE  KeepsOthers(items, items', c)
<1> DEFINE bags     == {items[i].children : i \in In(items, c, INV_TRADE)} \ {NoContainer}
           contents == {i \in DOMAIN items : items[i].owner = c /\ items[i].parent \in bags}
           kept     == Delete(items, contents)
<1>1. items' = Delete(kept, In(kept, c, INV_TRADE))
  BY DEF TradeCommit, StartTask
<1>2. contents \in SUBSET Owned(items, c)
  BY DEF Owned
<1> HIDE DEF contents
<1>3. KeepsOthers(items, kept, c)
  BY <1>2, DeleteOwnKeeps
<1> HIDE DEF kept
<1>4. KeepsOthers(kept, items', c)
  BY <1>1, DeleteOwnKeeps, NamedRowsAreOwned
<1> QED BY <1>3, <1>4, KeepsAlong

LEMMA ShopTradeCommitKeeps ==
  ASSUME NEW c, NEW shop, ShopTradeCommit(c, shop)
  PROVE  KeepsOthers(items, items', c)
<1> DEFINE sold(tgt) ==
             {i \in In(items, tgt.owner, tgt.box) :
                items[i].slot \in {items[j].slot : j \in In(items, c, INV_TRADEPARTNER)}}
<1>1. PICK tgt \in ShopTargets(c, shop) : items' = Delete(items, sold(tgt))
  BY DEF ShopTradeCommit, StartTask
<1>2. \A i \in sold(tgt) : items[i].parent \notin Private
  BY ShopTargetBoxes DEF In
<1> HIDE DEF sold
<1> QED BY <1>1, <1>2, DeleteKeeps

LEMMA TradeMessageKeeps ==
  ASSUME IInv, NEW c \in Chars, TradeMessage(c)
  PROVE  KeepsOthers(items, items', c)
<1>0. IsTable(items)
  BY DEF IInv, TablesOK, Clean
<1>1. CASE EndNpcTrade(c) \/ NpcAccept(c) \/ TradeDecline(c)
  BY <1>1, KeepsNothing DEF EndNpcTrade, NpcAccept, TradeDecline, StartTask
<1>2. CASE TradeStart(c)
  <2> DEFINE ids == In(items, c, INV_TRADE) \cup In(items, c, INV_TRADEPARTNER)
  <2>1. items' = Delete(items, ids)
    BY <1>2 DEF TradeStart, Transaction
  <2>2. ids \in SUBSET Owned(items, c)
    BY NamedRowsAreOwned
  <2> HIDE DEF ids
  <2> QED BY <2>1, <2>2, DeleteOwnKeeps
<1>3. CASE TradeCommit(c)
  BY <1>3, TradeCommitKeeps
<1>4. ASSUME NEW k \in Keys, NEW n \in MsgStacks, PartnerAddsItem(c, k, n)
      PROVE  KeepsOthers(items, items', c)
  BY <1>4, AddsOwnRow DEF PartnerAddsItem, Transaction
<1>5. ASSUME NEW slot \in MsgSlots, PartnerRemovesItem(c, slot) \/ ShopTradeRemove(c, slot)
      PROVE  KeepsOthers(items, items', c)
  BY <1>5, DeleteOwnKeeps, NamedRowsAreOwned
  DEF PartnerRemovesItem, ShopTradeRemove, Transaction
<1>6. ASSUME NEW slot \in MsgSlots, TradeRemove(c, slot)
      PROVE  KeepsOthers(items, items', c)
  BY <1>0, <1>6, MoveSlotKeeps DEF TradeRemove, Transaction
<1>7. ASSUME NEW slot \in MsgSlots, NEW ref \in FromRefs,
             TradeAdd(c, ref, slot) \/ \E d \in {0, 1} : GiveToNpc(c, ref, slot, d)
      PROVE  KeepsOthers(items, items', c)
  BY <1>0, <1>7, MoveSlotKeeps DEF TradeAdd, GiveToNpc, Transaction
<1>8. ASSUME NEW shop \in Shops, NEW slot \in MsgSlots, ShopTradeAdd(c, shop, slot)
      PROVE  KeepsOthers(items, items', c)
  BY <1>8, ShopTradeAddKeeps
<1>9. ASSUME NEW shop \in Shops, ShopTradeCommit(c, shop)
      PROVE  KeepsOthers(items, items', c)
  BY <1>9, ShopTradeCommitKeeps
<1>10. ASSUME NEW bag \in Backpacks, PartnerAddsBackpack(c, bag)
       PROVE  KeepsOthers(items, items', c)
  BY <1>10, AddsOwnRow DEF PartnerAddsBackpack, Transaction
<1>11. ASSUME NEW bag \in Backpacks, PartnerRemovesBackpack(c, bag)
       PROVE  KeepsOthers(items, items', c)
  <2> DEFINE ids == {i \in In(items, c, INV_TRADEPARTNER) : items[i].children = bag}
  <2>1. items' = Delete(items, ids)
    BY <1>11 DEF PartnerRemovesBackpack, Transaction
  <2>2. ids \in SUBSET Owned(items, c)
    BY NamedRowsAreOwned
  <2> HIDE DEF ids
  <2> QED BY <2>1, <2>2, DeleteOwnKeeps
<1> QED
  BY <1>1, <1>2, <1>3, <1>4, <1>5, <1>6, <1>7, <1>8, <1>9, <1>10, <1>11 DEF TradeMessage

\* The three moves of the equipment swap name rows of c, each in its table.
LEMMA HotSwapKeeps ==
  ASSUME IInv, NEW c \in Chars, NEW ref \in FromRefs, NEW slot \in MsgSlots,
         NEW to, NEW newSlot \in MsgSlots, HotSwap(c, ref, slot, to, newSlot)
  PROVE  KeepsOthers(items, items', c)
<1> DEFINE from  == GetFromContainerId(c, ref)
           out   == MoveTo(items, At(items, c, INV_TOONINV, newSlot), INV_HOTSWAPTEMP, slot)
           moved == MoveTo(out, At(out, c, from, slot), INV_TOONINV, newSlot)
<1>1. items' = MoveTo(moved, At(moved, c, INV_HOTSWAPTEMP, slot), from, slot)
  BY DEF HotSwap, Transaction
<1>2. IsTable(items) /\ slot \in Nat /\ newSlot \in Nat
  BY MessageTypes DEF IInv, TablesOK, Clean
<1>3. IsTable(out) /\ KeepsOthers(items, out, c)
  BY <1>2, MoveIsTable, MoveKeeps, NamedRowsAreOwned, Boxes
<1> HIDE DEF out, from
<1>4. IsTable(moved) /\ KeepsOthers(out, moved, c)
  BY <1>2, <1>3, MoveIsTable, MoveKeeps, NamedRowsAreOwned, Boxes
<1> HIDE DEF moved
<1>5. KeepsOthers(moved, items', c)
  BY <1>1, <1>4, MoveKeeps, NamedRowsAreOwned
<1>6. KeepsOthers(items, moved, c)
  BY <1>3, <1>4, KeepsAlong
<1> QED BY <1>5, <1>6, KeepsAlong

LEMMA MoveMessageKeeps ==
  ASSUME IInv, NEW c \in Chars, MoveMessage(c)
  PROVE  KeepsOthers(items, items', c)
<1> SUFFICES ASSUME NEW ref \in FromRefs, NEW slot \in MsgSlots, NEW newSlot \in MsgSlots,
                    NEW to \in {INV_BANK, INV_TOONINV, INV_OVERFLOW} \cup Backpacks,
                    \/ HotSwap(c, ref, slot, to, newSlot)
                    \/ MoveJoins(c, ref, slot, to, newSlot)
                    \/ PlainMove(c, ref, slot, to, newSlot)
             PROVE  KeepsOthers(items, items', c)
  BY DEF MoveMessage
<1>0. Clean(items)
  BY DEF IInv, TablesOK
<1>1. CASE HotSwap(c, ref, slot, to, newSlot)
  BY <1>1, HotSwapKeeps
<1>2. CASE MoveJoins(c, ref, slot, to, newSlot)
  <2> DEFINE from == GetFromContainerId(c, ref)
             src  == At(items, c, from, slot)
             dst  == At(items, c, INV_TOONINV, JoinTarget(c, from, slot))
  <2>1. PICK n : items' = Delete(AddToStack(items, dst, n), src)
    BY <1>2 DEF MoveJoins, Transaction
  <2>2. src \in SUBSET Owned(items, c) /\ dst \in SUBSET Owned(items, c)
    BY NamedRowsAreOwned
  <2> HIDE DEF src, dst
  <2> QED BY <1>0, <2>1, <2>2, JoinKeeps
<1>3. CASE PlainMove(c, ref, slot, to, newSlot)
  BY <1>0, <1>3, MoveKeeps, NamedRowsAreOwned DEF PlainMove, Transaction, Clean
<1> QED BY <1>1, <1>2, <1>3

LEMMA NewItemMessageKeeps ==
  ASSUME NEW c \in Chars, NewItemMessage(c)
  PROVE  KeepsOthers(items, items', c)
<1>1. ASSUME NEW k \in Keys, NEW n \in MsgStacks,
             ItemBought(c, k, n) \/ \E slot \in MsgSlots : TradeskillResult(c, k, n, slot)
      PROVE  KeepsOthers(items, items', c)
  BY <1>1, AddsOwnRow DEF ItemBought, TradeskillResult, Transaction
<1>2. ASSUME NEW temp \in TempItems, DeleteTempItem(c, temp)
      PROVE  KeepsOthers(items, items', c)
  BY <1>2, DeleteOwnKeeps, NamedRowsAreOwned DEF DeleteTempItem, Statement
<1>3. ASSUME NEW temp \in TempItems, NEW slot \in MsgSlots, SpawnTempId(c, temp, slot)
      PROVE  KeepsOthers(items, items', c)
  BY <1>3, KeepsNothing DEF SpawnTempId, db
<1>4. ASSUME NEW temp \in TempItems, NEW slot \in MsgSlots, NEW k \in Keys,
             SpawnReward(c, temp, k, slot)
      PROVE  KeepsOthers(items, items', c)
  BY <1>4, AddsOwnRow DEF SpawnReward, Transaction
<1> QED
  BY <1>1, <1>2, <1>3, <1>4 DEF NewItemMessage

LEMMA FullSyncKeeps ==
  ASSUME NEW c \in Chars, FullSync(c)
  PROVE  KeepsOthers(items, items', c)
<1> DEFINE ids  == {i \in DOMAIN items :
                      /\ items[i].owner = c
                      /\ items[i].parent \in {INV_TOONINV} \cup
                                             (INV_TRADE..INV_OTHER_PLAYERSHOP)}
<1>1. PICK new \in Batches(Delete(items, ids), c, INV_TOONINV, Backpacks \cup {NoContainer}) :
        items' = InsertAll(Delete(items, ids), new)
  BY DEF FullSync
<1>2. \A i \in ids : items[i].owner = c
  OBVIOUS
<1> HIDE DEF ids
<1> QED BY <1>1, <1>2, ReplaceKeeps

\* A backpack, the overflow and a shop are emptied whoever owns the rows, but
\* they are none of the private containers.
LEMMA BulkMessageKeeps ==
  ASSUME IInv, NEW c \in Chars, BulkMessage(c)
  PROVE  KeepsOthers(items, items', c)
<1>1. CASE Bank(c)
  <2>1. PICK new \in Batches(Delete(items, In(items, c, INV_BANK)), c, INV_BANK,
                             Backpacks \cup {NoContainer}) :
          items' = InsertAll(Delete(items, In(items, c, INV_BANK)), new)
    BY <1>1 DEF Bank, Transaction
  <2>2. \A i \in In(items, c, INV_BANK) : items[i].owner = c
    BY DEF In
  <2> QED BY <2>1, <2>2, ReplaceKeeps
<1>2. CASE FullSync(c)
  BY <1>2, FullSyncKeeps
<1>3. CASE OverflowContainer(c)
  <2> DEFINE ids == {i \in DOMAIN items : items[i].parent = INV_OVERFLOW}
  <2>1. PICK new \in Batches(Delete(items, ids), c, INV_OVERFLOW, {NoContainer}) :
          items' = InsertAll(Delete(items, ids), new)
    BY <1>3 DEF OverflowContainer, Transaction
  <2>2. \A i \in ids : items[i].parent \notin Private
    BY PublicBoxes
  <2> HIDE DEF ids
  <2> QED BY <2>1, <2>2, ReplaceKeeps
<1>4. ASSUME NEW bag \in Backpacks, NEW temp \in TempIds, Container(c, bag, temp)
      PROVE  KeepsOthers(items, items', c)
  <2> DEFINE ids == {i \in DOMAIN items : items[i].parent = bag}
  <2>1. PICK new \in Batches(Delete(items, ids), c, bag, {NoContainer}) :
          items' = InsertAll(Delete(items, ids), new)
    BY <1>4 DEF Container, Transaction
  <2>2. \A i \in ids : items[i].parent \notin Private
    BY PublicBoxes
  <2> HIDE DEF ids
  <2> QED BY <2>1, <2>2, ReplaceKeeps
<1>5. ASSUME NEW bag \in Backpacks, NEW k \in Keys, NEW slot \in MsgSlots,
             BackpackBought(c, bag, k, slot)
      PROVE  KeepsOthers(items, items', c)
  <2> DEFINE ids  == {i \in DOMAIN items : items[i].owner = c /\ items[i].children = bag}
             kept == Delete(items, ids)
             at   == SlotFor(items, c, INV_TOONINV, slot)
  <2>1. PICK i \in FreeIds(kept) :
          items' = AddRow(kept, i, NewRow(c, k, 1, INV_TOONINV, at, bag))
    BY <1>5 DEF BackpackBought, Transaction
  <2>2. ids \in SUBSET Owned(items, c)
    BY DEF Owned
  <2> HIDE DEF ids
  <2>3. KeepsOthers(items, kept, c)
    BY <2>2, DeleteOwnKeeps
  <2> HIDE DEF kept
  <2>4. KeepsOthers(kept, items', c)
    BY <2>1, AddsOwnRow
  <2> QED BY <2>3, <2>4, KeepsAlong
<1>6. ASSUME NEW shop \in Shops, ShopItems(c, shop)
      PROVE  KeepsOthers(items, items', c)
  <2> DEFINE kept(tgt) == Delete(items, In(items, tgt.owner, tgt.box))
             Lists(tgt) ==
               \E new \in Batches(kept(tgt), tgt.owner, tgt.box, {NoContainer}) :
                 Transaction(InsertAll(kept(tgt), new))
  <2>1. PICK tgt \in ShopTargets(c, shop) : Lists(tgt)
    BY <1>6 DEF ShopItems
  <2>2. PICK new \in Batches(kept(tgt), tgt.owner, tgt.box, {NoContainer}) :
          items' = InsertAll(kept(tgt), new)
    BY <2>1 DEF Transaction
  <2>3. /\ tgt.box \notin Private
        /\ \A i \in In(items, tgt.owner, tgt.box) : items[i].parent \notin Private
    BY ShopTargetBoxes DEF In
  <2> QED BY <2>2, <2>3, ReplaceKeeps
<1>7. CASE MobSync(c) \/ \E shop \in Shops : ShopInfo(c, shop)
  BY <1>7, KeepsNothing DEF MobSync, ShopInfo, SetToon
<1> QED
  BY <1>1, <1>2, <1>3, <1>4, <1>5, <1>6, <1>7 DEF BulkMessage

-----------------------------------------------------------------------------
(***************************************************************************)
(* The loops over the trade window.  Each iteration empties one slot, so   *)
(* before iteration i every row of the window is at slot i or beyond.      *)
(***************************************************************************)
From(t, c, box, n) == \A i \in In(t, c, box) : t[i].slot >= n

BackOK ==
  task.kind \in {"endnpc", "decline"} => From(items, task.char, INV_TRADE, task.i)

DeliverOK ==
  task.kind = "commit" =>
    /\ In(items, task.char, INV_TRADE) = {}
    /\ From(items, task.char, INV_TRADEPARTNER, task.i)

\* A sale in a shop that no monitored character owns is between the buyer and
\* itself: GetShopOwner leaves it with its own duplicates.
SaleOK ==
  task.kind \in {"shopgrab", "shopput"} /\ task.box = INV_OTHER_PLAYERSHOP =>
    /\ task.owner = task.char
    /\ task.kind = "shopgrab" => From(items, task.char, INV_TRADEPARTNER, task.i)
    /\ task.kind = "shopput" =>
         /\ From(items, task.char, INV_TRADEPARTNER, ShopCapacity + 1)
         /\ From(items, task.char, INV_TRADE, task.i)

LoopOK == BackOK /\ DeliverOK /\ SaleOK

LEMMA FromZero ==
  ASSUME NEW t, Clean(t), NEW c, NEW box
  PROVE  From(t, c, box, 0)
BY DEF From, In, Clean, IsTable, Row

\* An iteration empties its slot of the box, and adds to none but dest.
LEMMA FromAfterMove ==
  ASSUME NEW t, Clean(t), NEW c, NEW box, NEW n \in Nat, From(t, c, box, n),
         NEW dest \in Containers, dest # box, NEW slot \in Nat
  PROVE  From(MoveTo(t, At(t, c, box, n), dest, slot), c, box, n + 1)
<1> DEFINE ids == At(t, c, box, n)
           m   == MoveTo(t, ids, dest, slot)
<1>1. SUFFICES ASSUME NEW i \in In(m, c, box) PROVE m[i].slot >= n + 1
  BY DEF From
<1>2. i \in DOMAIN t /\ m[i].owner = c /\ m[i].parent = box
  BY DEF In, MoveTo
<1>3. /\ m[i].parent = IF i \in ids THEN dest ELSE t[i].parent
      /\ m[i].owner = t[i].owner
      /\ m[i].slot = IF i \in ids THEN slot ELSE t[i].slot
      /\ t[i].slot \in Nat
  <2> HIDE DEF ids
  <2> QED BY <1>2 DEF MoveTo, Clean, IsTable, Row
<1>4. i \notin ids /\ i \in In(t, c, box)
  BY <1>2, <1>3 DEF In
<1>5. t[i].slot >= n /\ t[i].slot # n
  BY <1>4 DEF From, At
<1> QED BY <1>3, <1>4, <1>5

LEMMA FromElsewhere ==
  ASSUME NEW t, Clean(t), NEW c, NEW box, NEW n \in Nat, From(t, c, box, n), NEW ids,
         NEW dest, dest # box, NEW slot
  PROVE  From(MoveTo(t, ids, dest, slot), c, box, n)
<1> DEFINE m == MoveTo(t, ids, dest, slot)
<1>1. SUFFICES ASSUME NEW i \in In(m, c, box) PROVE m[i].slot >= n
  BY DEF From
<1>2. i \in DOMAIN t /\ m[i].owner = c /\ m[i].parent = box
  BY DEF In, MoveTo
<1>3. i \notin ids /\ m[i] = t[i]
  BY <1>2 DEF MoveTo, Clean, IsTable, Row
<1>4. i \in In(t, c, box)
  BY <1>2, <1>3 DEF In
<1> QED BY <1>3, <1>4 DEF From

LEMMA EmptyAfterMove ==
  ASSUME NEW t, Clean(t), NEW c, NEW box, In(t, c, box) = {}, NEW ids,
         NEW dest, dest # box, NEW slot
  PROVE  In(MoveTo(t, ids, dest, slot), c, box) = {}
<1> DEFINE m == MoveTo(t, ids, dest, slot)
<1>1. SUFFICES ASSUME NEW i \in In(m, c, box) PROVE FALSE
  OBVIOUS
<1>2. i \in DOMAIN t /\ m[i].owner = c /\ m[i].parent = box
  BY DEF In, MoveTo
<1>3. i \notin ids /\ m[i] = t[i]
  BY <1>2 DEF MoveTo, Clean, IsTable, Row
<1> QED BY <1>2, <1>3 DEF In

\* Handing a row over to its owner changes nothing.
LEMMA GiveToOwner ==
  ASSUME NEW t, Clean(t), NEW c, NEW ids \in SUBSET Owned(t, c)
  PROVE  GiveTo(t, ids, c) = t
<1>1. ASSUME NEW i \in DOMAIN t PROVE GiveTo(t, ids, c)[i] = t[i]
  BY DEF GiveTo, Clean, IsTable, Row, Owned
<1>2. DOMAIN GiveTo(t, ids, c) = DOMAIN t
      /\ GiveTo(t, ids, c) = [i \in DOMAIN t |-> GiveTo(t, ids, c)[i]]
  BY DEF GiveTo
<1>3. t = [i \in DOMAIN t |-> t[i]]
  BY DEF Clean, IsTable
<1> QED BY <1>1, <1>2, <1>3

LEMMA HandOverToSelf ==
  ASSUME NEW t, Clean(t), NEW c, NEW ids \in SUBSET Owned(t, c),
         NEW box \in Containers \ {INV_HOTSWAPTEMP}, NEW slot \in Nat
  PROVE  GiveTo(MoveTo(t, ids, box, slot), ids, c) = MoveTo(t, ids, box, slot)
<1> DEFINE m == MoveTo(t, ids, box, slot)
<1>1. Clean(m)
  BY MoveClean
<1>2. ids \in SUBSET Owned(m, c)
  BY DEF MoveTo, Owned, Clean, IsTable, Row
<1> HIDE DEF m
<1>3. GiveTo(m, ids, c) = m
  BY <1>1, <1>2, GiveToOwner
<1> QED BY <1>3 DEF m

-----------------------------------------------------------------------------
\* A message leaves the task as it was, or at the first iteration of a loop.
LEMMA NoLoop ==
  ASSUME task'.kind \notin Trading
  PROVE  LoopOK'
BY DEF LoopOK, BackOK, DeliverOK, SaleOK, Trading

LEMMA StackMessageTask ==
  ASSUME NEW c \in Chars, StackMessage(c)
  PROVE  task' = task
<1>1. ASSUME NEW t, Transaction(t)
      PROVE  task' = task
  BY <1>1 DEF Transaction
<1>2. ASSUME NEW ref \in FromRefs, NEW slot \in MsgSlots, NEW n \in MsgStacks,
             SplitStack(c, ref, slot, n)
      PROVE  task' = task
  BY <1>1, <1>2 DEF SplitStack
<1>3. ASSUME NEW ref \in FromRefs, NEW slot \in MsgSlots, NEW k \in Keys,
             ClientDeleteItem(c, ref, slot, k) \/ ItemUsed(c, ref, slot, k)
      PROVE  task' = task
  BY <1>1, <1>3 DEF ClientDeleteItem, ItemUsed
<1>4. ASSUME NEW ref \in FromRefs, NEW slot \in MsgSlots, NEW ref2 \in FromRefs,
             NEW slot2 \in MsgSlots, JoinStacks(c, ref, slot, ref2, slot2)
      PROVE  task' = task
  BY <1>1, <1>4 DEF JoinStacks
<1>5. ASSUME NEW ref \in FromRefs,
             ActionOnUnknownContainer(c, ref)
               \/ \E slot \in MsgSlots : ServerDeleteItem(c, ref, slot)
      PROVE  task' = task
  BY <1>1, <1>5 DEF ActionOnUnknownContainer, ReturnHoldingLock, ServerDeleteItem
<1> QED BY <1>2, <1>3, <1>4, <1>5 DEF StackMessage

LEMMA BulkMessageTask ==
  ASSUME NEW c \in Chars, BulkMessage(c)
  PROVE  task' = task \/ task'.kind \notin Trading
<1>1. ASSUME NEW t, Transaction(t)
      PROVE  task' = task
  BY <1>1 DEF Transaction
<1>2. CASE Bank(c) \/ OverflowContainer(c)
  BY <1>1, <1>2 DEF Bank, OverflowContainer
<1>3. CASE FullSync(c)
  BY <1>3 DEF FullSync, Trading
<1>4. ASSUME NEW bag \in Backpacks,
             \/ \E temp \in TempIds : Container(c, bag, temp)
             \/ \E k \in Keys, slot \in MsgSlots : BackpackBought(c, bag, k, slot)
      PROVE  task' = task
  BY <1>1, <1>4 DEF Container, BackpackBought
<1>5. ASSUME NEW shop \in Shops, ShopItems(c, shop)
      PROVE  task' = task
  BY <1>1, <1>5 DEF ShopItems
<1>6. CASE MobSync(c) \/ \E shop \in Shops : ShopInfo(c, shop)
  BY <1>6 DEF MobSync, ShopInfo, SetToon
<1> QED BY <1>2, <1>3, <1>4, <1>5, <1>6 DEF BulkMessage

LEMMA TradeMessageTask ==
  ASSUME NEW c \in Chars, TradeMessage(c), Clean(items')
  PROVE  task' = task \/ LoopOK'
<1>1. ASSUME NEW t, Transaction(t)
      PROVE  task' = task
  BY <1>1 DEF Transaction
<1>2. CASE NpcAccept(c)
  BY <1>2 DEF NpcAccept, StartTask, LoopOK, BackOK, DeliverOK, SaleOK
<1>3. CASE EndNpcTrade(c) \/ TradeDecline(c)
  <2>1. task'.kind \in {"endnpc", "decline"} /\ task'.i = 0
    BY <1>3 DEF EndNpcTrade, TradeDecline, StartTask
  <2> QED BY <2>1, FromZero DEF LoopOK, BackOK, DeliverOK, SaleOK
<1>4. CASE TradeCommit(c)
  <2>1. PICK t : items' = Delete(t, In(t, c, INV_TRADE))
                 /\ task' = [kind |-> "commit", char |-> c, i |-> 0]
    BY <1>4 DEF TradeCommit, StartTask
  <2>2. In(items', c, INV_TRADE) = {}
    BY <2>1 DEF In, Delete
  <2>3. task'.kind = "commit" /\ task'.char = c /\ task'.i = 0
    BY <2>1
  <2> QED BY <2>2, <2>3, FromZero DEF LoopOK, BackOK, DeliverOK, SaleOK
<1>5. ASSUME NEW shop \in Shops, ShopTradeCommit(c, shop)
      PROVE  LoopOK'
  <2>1. PICK tgt \in ShopTargets(c, shop) :
          task' = [kind |-> "shopgrab", char |-> c, i |-> 0,
                   owner |-> tgt.owner, box |-> tgt.box]
    BY <1>5 DEF ShopTradeCommit, StartTask
  <2>2. /\ task'.kind = "shopgrab" /\ task'.char = c /\ task'.i = 0
        /\ task'.box = INV_OTHER_PLAYERSHOP => task'.owner = c
    BY <2>1, ShopTargetBoxes
  <2> QED BY <2>2, FromZero DEF LoopOK, BackOK, DeliverOK, SaleOK
<1>6. CASE TradeStart(c)
  BY <1>1, <1>6 DEF TradeStart
<1>7. ASSUME NEW slot \in MsgSlots,
             \/ PartnerRemovesItem(c, slot) \/ TradeRemove(c, slot)
             \/ ShopTradeRemove(c, slot)
             \/ \E ref \in FromRefs : \/ TradeAdd(c, ref, slot)
                                      \/ \E d \in {0, 1} : GiveToNpc(c, ref, slot, d)
             \/ \E shop \in Shops : ShopTradeAdd(c, shop, slot)
      PROVE  task' = task
  BY <1>1, <1>7 DEF PartnerRemovesItem, TradeRemove, ShopTradeRemove, TradeAdd,
     GiveToNpc, ShopTradeAdd
<1>8. CASE \/ \E k \in Keys, n \in MsgStacks : PartnerAddsItem(c, k, n)
           \/ \E bag \in Backpacks : PartnerAddsBackpack(c, bag) \/ PartnerRemovesBackpack(c, bag)
  BY <1>1, <1>8 DEF PartnerAddsItem, PartnerAddsBackpack, PartnerRemovesBackpack
<1> QED
  BY <1>2, <1>3, <1>4, <1>5, <1>6, <1>7, <1>8 DEF TradeMessage

LEMMA MessageLoopOK ==
  ASSUME NEW c \in Chars, CharMessage(c), Clean(items')
  PROVE  LoopOK'
<1>1. Idle
  BY MessagesNeedIdle DEF CharMessage
<1>2. CASE task' = task
  BY <1>1, <1>2, NoLoop DEF Idle, NoTask, Trading
<1>3. ASSUME NEW t, Transaction(t) \/ Statement(t)
      PROVE  task' = task
  BY <1>3 DEF Transaction, Statement
<1>4. CASE StackMessage(c) \/ BulkMessage(c) \/ TradeMessage(c)
  BY <1>2, <1>4, StackMessageTask, BulkMessageTask, TradeMessageTask, NoLoop
<1>5. CASE MoveMessage(c)
  BY <1>2, <1>3, <1>5 DEF MoveMessage, HotSwap, MoveJoins, PlainMove
<1>6. CASE NewItemMessage(c)
  BY <1>2, <1>3, <1>6 DEF NewItemMessage, ItemBought, TradeskillResult, DeleteTempItem,
     SpawnTempId, SpawnReward
<1> QED
  BY <1>4, <1>5, <1>6 DEF CharMessage

\* The iterations.
LEMMA NextOfLoop ==
  ASSUME IInv, task.kind \in Trading, task' = [task EXCEPT !.i = @ + 1]
  PROVE  /\ task'.kind = task.kind /\ task'.char = task.char /\ task'.i = task.i + 1
         /\ task.kind \in {"shopgrab", "shopput"} =>
              task'.box = task.box /\ task'.owner = task.owner
BY TaskFields DEF WindowTasks, ShopTasks

LEMMA ContainerNames ==
  /\ INV_TOONINV # INV_TRADE /\ INV_TOONINV # INV_TRADEPARTNER
  /\ INV_OTHER_PLAYERSHOP # INV_TRADE /\ INV_OTHER_PLAYERSHOP # INV_TRADEPARTNER
  /\ INV_TRADE # INV_TRADEPARTNER /\ INV_PLAYERSHOP # INV_OTHER_PLAYERSHOP
  /\ INV_TOONINV # INV_OTHER_PLAYERSHOP
BY DEF INV_TOONINV, INV_TRADE, INV_TRADEPARTNER, INV_OTHER_PLAYERSHOP, INV_PLAYERSHOP

LEMMA MoveBackLoop ==
  ASSUME IInv, LoopOK, MoveBack
  PROVE  LoopOK'
<1> DEFINE slot == NextSlot(items, task.char, INV_TOONINV)
<1>1. /\ task.kind \in {"endnpc", "decline"} /\ task.kind \in Trading
      /\ task' = [task EXCEPT !.i = @ + 1]
      /\ items' = MoveTo(items, At(items, task.char, INV_TRADE, task.i), INV_TOONINV, slot)
  BY DEF MoveBack, TaskStatement, MoveSlot, Trading
<1>2. Clean(items) /\ slot \in Nat /\ task.i \in Nat
  BY <1>1, NextSlotNat, TaskFields DEF IInv, TablesOK
<1>3. From(items, task.char, INV_TRADE, task.i)
  BY <1>1 DEF LoopOK, BackOK
<1> HIDE DEF slot
<1>4. From(items', task.char, INV_TRADE, task.i + 1)
  BY <1>1, <1>2, <1>3, FromAfterMove, ContainerNames, Boxes
<1>5. task'.kind \in {"endnpc", "decline"} /\ task'.char = task.char /\ task'.i = task.i + 1
  BY <1>1, NextOfLoop
<1> QED
  BY <1>4, <1>5 DEF LoopOK, BackOK, DeliverOK, SaleOK

LEMMA GrabStuffLoop ==
  ASSUME IInv, LoopOK, GrabStuff
  PROVE  LoopOK'
<1> DEFINE slot == NextSlot(items, task.char, INV_TOONINV)
           ids  == At(items, task.char, INV_TRADEPARTNER, task.i)
<1>1. /\ task.kind = "commit" /\ task.kind \in Trading
      /\ task' = [task EXCEPT !.i = @ + 1]
      /\ items' = MoveTo(items, ids, INV_TOONINV, slot)
  BY DEF GrabStuff, TaskStatement, MoveSlot, Trading
<1>2. Clean(items) /\ slot \in Nat /\ task.i \in Nat
  BY <1>1, NextSlotNat, TaskFields DEF IInv, TablesOK
<1>3. /\ In(items, task.char, INV_TRADE) = {}
      /\ From(items, task.char, INV_TRADEPARTNER, task.i)
  BY <1>1 DEF LoopOK, DeliverOK
<1> HIDE DEF slot
<1>4. From(items', task.char, INV_TRADEPARTNER, task.i + 1)
  BY <1>1, <1>2, <1>3, FromAfterMove, ContainerNames, Boxes
<1> HIDE DEF ids
<1>5. In(items', task.char, INV_TRADE) = {}
  BY <1>1, <1>2, <1>3, EmptyAfterMove, ContainerNames
<1>6. task'.kind = "commit" /\ task'.char = task.char /\ task'.i = task.i + 1
  BY <1>1, NextOfLoop
<1> QED
  BY <1>4, <1>5, <1>6 DEF LoopOK, BackOK, DeliverOK, SaleOK

\* In a shop that no monitored character owns both loops only move rows.
LEMMA UnknownGrab ==
  ASSUME IInv, SaleOK, ShopGrab, task.box = INV_OTHER_PLAYERSHOP
  PROVE  /\ task.owner = task.char
         /\ items' = MoveTo(items, At(items, task.char, INV_TRADEPARTNER, task.i),
                            INV_TOONINV, NextSlot(items, task.char, INV_TOONINV))
<1> DEFINE ids  == At(items, task.char, INV_TRADEPARTNER, task.i)
           slot == NextSlot(items, task.char, INV_TOONINV)
<1>1. task.owner = task.char
  BY DEF SaleOK, ShopGrab
<1>2. items' = GiveTo(MoveTo(items, ids, INV_TOONINV, slot), ids, task.char)
  BY <1>1 DEF ShopGrab, TaskStatement
<1>3. Clean(items) /\ slot \in Nat
  BY NextSlotNat DEF IInv, TablesOK
<1>4. ids \in SUBSET Owned(items, task.char)
  BY NamedRowsAreOwned
<1> HIDE DEF ids, slot
<1>5. items' = MoveTo(items, ids, INV_TOONINV, slot)
  BY <1>2, <1>3, <1>4, HandOverToSelf, Boxes
<1> QED BY <1>1, <1>5 DEF ids, slot

LEMMA UnknownPut ==
  ASSUME IInv, SaleOK, ShopPut, task.box = INV_OTHER_PLAYERSHOP
  PROVE  items' = MoveTo(items, At(items, task.char, INV_TRADE, task.i),
                         INV_OTHER_PLAYERSHOP,
                         NextSlot(items, task.char, INV_OTHER_PLAYERSHOP))
<1> DEFINE ids  == At(items, task.char, INV_TRADE, task.i)
           slot == NextSlot(items, task.char, INV_OTHER_PLAYERSHOP)
<1>1. task.owner = task.char
  BY DEF SaleOK, ShopPut
<1>2. items' = GiveTo(MoveTo(items, ids, INV_OTHER_PLAYERSHOP, slot), ids, task.char)
  BY <1>1 DEF ShopPut, TaskStatement
<1>3. Clean(items) /\ slot \in Nat
  BY NextSlotNat DEF IInv, TablesOK
<1>4. ids \in SUBSET Owned(items, task.char)
  BY NamedRowsAreOwned
<1> HIDE DEF ids, slot
<1>5. items' = MoveTo(items, ids, INV_OTHER_PLAYERSHOP, slot)
  BY <1>2, <1>3, <1>4, HandOverToSelf, Boxes
<1> QED BY <1>5 DEF ids, slot

LEMMA ShopGrabLoop ==
  ASSUME IInv, LoopOK, ShopGrab, Clean(items')
  PROVE  LoopOK'
<1> DEFINE slot == NextSlot(items, task.char, INV_TOONINV)
           ids  == At(items, task.char, INV_TRADEPARTNER, task.i)
<1>1. /\ task.kind = "shopgrab" /\ task.kind \in Trading
      /\ task' = IF task.i < ShopCapacity
                 THEN [task EXCEPT !.i = @ + 1]
                 ELSE [task EXCEPT !.kind = "shopput", !.i = 0]
  BY DEF ShopGrab, TaskStatement, Trading
<1>2. Clean(items) /\ slot \in Nat /\ task.i \in Nat /\ task \in ShopTasks
  BY <1>1, NextSlotNat, TaskFields DEF IInv, TablesOK
<1>3. /\ task'.char = task.char /\ task'.box = task.box /\ task'.owner = task.owner
      /\ \/ task'.kind = "shopgrab" /\ task'.i = task.i + 1
         \/ task'.kind = "shopput" /\ task'.i = 0 /\ task.i >= ShopCapacity
  BY <1>1, <1>2, ViewAssumption DEF ShopTasks
<1>4. CASE task.box # INV_OTHER_PLAYERSHOP
  BY <1>3, <1>4 DEF LoopOK, BackOK, DeliverOK, SaleOK
<1>5. CASE task.box = INV_OTHER_PLAYERSHOP
  <2>1. SaleOK /\ From(items, task.char, INV_TRADEPARTNER, task.i)
    BY <1>1, <1>5 DEF LoopOK, SaleOK
  <2>2. task.owner = task.char /\ items' = MoveTo(items, ids, INV_TOONINV, slot)
    BY <1>5, <2>1, UnknownGrab
  <2> HIDE DEF slot
  <2>3. From(items', task.char, INV_TRADEPARTNER, task.i + 1)
    BY <1>2, <2>1, <2>2, FromAfterMove, ContainerNames, Boxes
  <2>4. From(items', task.char, INV_TRADE, 0)
    BY FromZero
  <2>5. task'.kind = "shopput" => From(items', task.char, INV_TRADEPARTNER, ShopCapacity + 1)
    <3> SUFFICES ASSUME task'.kind = "shopput", NEW i \in In(items', task.char, INV_TRADEPARTNER)
                 PROVE  items'[i].slot >= ShopCapacity + 1
      BY DEF From
    <3>1. items'[i].slot >= task.i + 1 /\ items'[i].slot \in Nat
      BY <2>3 DEF From, In, Clean, IsTable, Row
    <3> QED BY <1>2, <1>3, <3>1, ViewAssumption
  <2> QED
    BY <1>3, <2>2, <2>3, <2>4, <2>5 DEF LoopOK, BackOK, DeliverOK, SaleOK
<1> QED BY <1>4, <1>5

LEMMA ShopPutLoop ==
  ASSUME IInv, LoopOK, ShopPut
  PROVE  LoopOK'
<1> DEFINE slot == NextSlot(items, task.char, INV_OTHER_PLAYERSHOP)
           ids  == At(items, task.char, INV_TRADE, task.i)
<1>1. /\ task.kind = "shopput" /\ task.kind \in Trading
      /\ task' = [task EXCEPT !.i = @ + 1]
  BY DEF ShopPut, TaskStatement, Trading
<1>2. Clean(items) /\ slot \in Nat /\ task.i \in Nat
  BY <1>1, NextSlotNat, TaskFields DEF IInv, TablesOK
<1>3. /\ task'.kind = "shopput" /\ task'.char = task.char /\ task'.i = task.i + 1
      /\ task'.box = task.box /\ task'.owner = task.owner
  BY <1>1, NextOfLoop
<1>4. CASE task.box # INV_OTHER_PLAYERSHOP
  BY <1>3, <1>4 DEF LoopOK, BackOK, DeliverOK, SaleOK
<1>5. CASE task.box = INV_OTHER_PLAYERSHOP
  <2>1. /\ SaleOK /\ task.owner = task.char
        /\ From(items, task.char, INV_TRADEPARTNER, ShopCapacity + 1)
        /\ From(items, task.char, INV_TRADE, task.i)
    BY <1>1, <1>5 DEF LoopOK, SaleOK
  <2>2. items' = MoveTo(items, ids, INV_OTHER_PLAYERSHOP, slot)
    BY <1>5, <2>1, UnknownPut
  <2> HIDE DEF slot
  <2>3. From(items', task.char, INV_TRADE, task.i + 1)
    BY <1>2, <2>1, <2>2, FromAfterMove, ContainerNames, Boxes
  <2> HIDE DEF ids
  <2>4. From(items', task.char, INV_TRADEPARTNER, ShopCapacity + 1)
    BY <1>2, <2>1, <2>2, FromElsewhere, ContainerNames, ViewAssumption
  <2> QED
    BY <1>3, <2>1, <2>3, <2>4 DEF LoopOK, BackOK, DeliverOK, SaleOK
<1> QED BY <1>4, <1>5

LEMMA NextLoopOK == IInv /\ LoopOK /\ [Next]_vars => LoopOK'
<1> SUFFICES ASSUME IInv, LoopOK, [Next]_vars PROVE LoopOK'
  OBVIOUS
<1>0. Clean(items')
  BY NextIInv DEF IInv, TablesOK
<1>1. CASE task' = NoTask
  BY <1>1, NoLoop DEF NoTask, Trading
<1>2. ASSUME NEW c \in Chars, CharMessage(c) PROVE LoopOK'
  BY <1>0, <1>2, MessageLoopOK
<1>3. CASE \E k \in Keys : NpcRejects(k)
  <2>1. task.kind = "npcaccept" /\ task' = [task EXCEPT !.i = @ + 1]
    BY <1>3 DEF NpcRejects, TaskStatement
  <2>2. task'.kind = "npcaccept"
    BY <2>1, NextOfLoop DEF Trading
  <2> QED BY <2>2 DEF LoopOK, BackOK, DeliverOK, SaleOK
<1>4. CASE TaskStep
  BY <1>0, <1>1, <1>3, <1>4, MoveBackLoop, GrabStuffLoop, ShopGrabLoop, ShopPutLoop
  DEF TaskStep, MoveBackDone, NpcAcceptDone, TradeCommitDone, ShopTradeDone,
      CleanupDB, EndTask
<1>5. CASE (\E ids \in SUBSET DOMAIN items : DeleteSelected(ids)) \/ Restart
  BY <1>1, <1>5 DEF DeleteSelected, Statement, Restart, Idle
<1>6. CASE UNCHANGED vars
  BY <1>6 DEF vars, LoopOK, BackOK, DeliverOK, SaleOK
<1> QED
  BY <1>2, <1>4, <1>5, <1>6 DEF Next

\* Before every iteration of a loop over the trade window the slots below the
\* counter are empty, whatever was in the window when the loop began.
THEOREM LoopInvariant == Spec => [](IInv /\ LoopOK)
<1>1. Init => LoopOK
  BY DEF Init, LoopOK, BackOK, DeliverOK, SaleOK, NoTask
<1>2. IInv /\ LoopOK /\ [Next]_vars => LoopOK'
  BY NextLoopOK
<1> QED BY <1>1, <1>2, Invariance, PTL DEF Spec

-----------------------------------------------------------------------------
\* The iterations, for the character whose trade it is.  The one exception
\* reads the trade window of the owner of a registered shop.
LEMMA TaskStepKeeps ==
  ASSUME IInv, SaleOK, TaskStep, ~(task.kind = "shopgrab" /\ task.box = INV_PLAYERSHOP)
  PROVE  KeepsOthers(items, items', task.char)
<1>0. IsTable(items)
  BY DEF IInv, TablesOK, Clean
<1>1. CASE MoveBack \/ GrabStuff
  BY <1>0, <1>1, MoveSlotKeeps DEF MoveBack, GrabStuff, TaskStatement
<1>2. CASE MoveBackDone \/ NpcAcceptDone
  BY <1>2, DeleteOwnKeeps, NamedRowsAreOwned, KeepsNothing
  DEF MoveBackDone, NpcAcceptDone, EndTask
<1>3. ASSUME NEW k \in Keys, NpcRejects(k)
      PROVE  KeepsOthers(items, items', task.char)
  <2> DEFINE ids == {i \in In(items, task.char, INV_TRADE) : items[i].key = k}
  <2>1. items' = MoveTo(items, ids, INV_TOONINV, NextSlot(items, task.char, INV_TOONINV))
    BY <1>3 DEF NpcRejects, TaskStatement
  <2>2. ids \in SUBSET Owned(items, task.char)
    BY NamedRowsAreOwned
  <2> HIDE DEF ids
  <2> QED BY <1>0, <2>1, <2>2, MoveKeeps
<1>4. CASE TradeCommitDone \/ ShopTradeDone
  BY <1>4, KeepsNothing DEF TradeCommitDone, ShopTradeDone, EndTask
<1>5. CASE ShopGrab
  <2> DEFINE ids  == At(items, task.char, INV_TRADEPARTNER, task.i)
             slot == NextSlot(items, task.char, INV_TOONINV)
  <2>1. task.kind = "shopgrab" /\ task \in ShopTasks
    BY <1>5, TaskFields DEF ShopGrab, Trading
  <2>2. task.owner = task.char
    BY <2>1 DEF SaleOK, ShopTasks
  <2>3. items' = GiveTo(MoveTo(items, ids, INV_TOONINV, slot), ids, task.char)
    BY <1>5, <2>2 DEF ShopGrab, TaskStatement
  <2>4. slot \in Nat /\ INV_TOONINV \in Containers
    BY NextSlotNat, Boxes DEF IInv, TablesOK
  <2> HIDE DEF slot
  <2> QED BY <1>0, <2>3, <2>4, HandOverKeeps, NamedRowsAreOwned
<1>6. CASE ShopPut
  <2> DEFINE ids  == At(items, task.char, INV_TRADE, task.i)
             slot == NextSlot(items, task.char, task.box)
  <2>1. task \in ShopTasks
    BY <1>6, TaskFields DEF ShopPut, Trading
  <2>2. items' = GiveTo(MoveTo(items, ids, task.box, slot), ids, task.owner)
    BY <1>6 DEF ShopPut, TaskStatement
  <2>3. slot \in Nat /\ task.box \in Containers /\ task.box \notin Private
    BY <2>1, NextSlotNat, Boxes, PublicBoxes DEF IInv, TablesOK, ShopTasks
  <2> HIDE DEF slot
  <2> QED BY <1>0, <2>2, <2>3, HandOverKeeps, NamedRowsAreOwned
<1>7. CASE CleanupDB
  BY <1>7, DeleteOwnKeeps DEF CleanupDB, Orphans, Owned
<1> QED
  BY <1>1, <1>2, <1>3, <1>4, <1>5, <1>6, <1>7 DEF TaskStep

\* No message of one character, and no iteration of its trades but the first
\* loop of a sale in a registered shop, touches what another has in the bank,
\* on the body or in a trade.
THEOREM OwnersAreRespected == Spec => HandlersKeepToTheirOwner
<1> DEFINE owners == OwnersOf(items, Changed(items, items'))
                     \cup OwnersOf(items', Changed(items, items'))
           Keeps  == \A c \in Chars :
             ~(owners \subseteq {c}) =>
               /\ ~CharMessage(c)
               /\ ~(TaskStep /\ task.char = c
                      /\ ~(task.kind = "shopgrab" /\ task.box = INV_PLAYERSHOP))
<1>1. ASSUME IInv, LoopOK PROVE Keeps
  <2> SUFFICES ASSUME NEW c \in Chars,
                      \/ CharMessage(c)
                      \/ /\ TaskStep /\ task.char = c
                         /\ ~(task.kind = "shopgrab" /\ task.box = INV_PLAYERSHOP)
               PROVE  owners \subseteq {c}
    OBVIOUS
  <2>1. CASE CharMessage(c)
    <3>1. KeepsOthers(items, items', c)
      BY <1>1, <2>1, StackMessageKeeps, TradeMessageKeeps, MoveMessageKeeps,
         NewItemMessageKeeps, BulkMessageKeeps DEF CharMessage
    <3> QED BY <3>1, ChangesAreOwn
  <2>2. CASE /\ TaskStep /\ task.char = c
             /\ ~(task.kind = "shopgrab" /\ task.box = INV_PLAYERSHOP)
    <3>1. KeepsOthers(items, items', c)
      BY <1>1, <2>2, TaskStepKeeps DEF LoopOK
    <3> QED BY <3>1, ChangesAreOwn
  <2> QED BY <2>1, <2>2
<1>2. IInv /\ LoopOK => [Keeps]_vars
  BY <1>1
<1> HIDE DEF Keeps
<1>3. Spec => [][Keeps]_vars
  BY <1>2, LoopInvariant, PTL
<1> QED BY <1>3 DEF HandlersKeepToTheirOwner, Keeps

-----------------------------------------------------------------------------
(***************************************************************************)
(* What the loops promise of a trade, from the same loop invariant.        *)
(***************************************************************************)
LEMMA MoveSame ==
  ASSUME NEW t, Clean(t), NEW ids, NEW box, NEW slot, NEW i \in DOMAIN t
  PROVE  Same(t, MoveTo(t, ids, box, slot), i)
<1> DEFINE m == MoveTo(t, ids, box, slot)
<1>1. CASE i \in ids
  <2>1. m[i] = [t[i] EXCEPT !.parent = box, !.slot = slot]
    BY <1>1 DEF MoveTo
  <2>2. m[i].parent = box /\ m[i].slot = slot
    BY <2>1 DEF Clean, IsTable, Row
  <2> HIDE DEF m
  <2>3. i \in DOMAIN m => Same(t, m, i)
    BY <2>1, <2>2 DEF Same
  <2> QED BY <2>3 DEF m, MoveTo
<1>2. CASE i \notin ids
  <2>1. m[i] = t[i] /\ i \in DOMAIN m
    BY <1>2 DEF MoveTo
  <2> HIDE DEF m
  <2>2. Same(t, m, i)
    BY <2>1 DEF Same, Clean, IsTable, Row
  <2> QED BY <2>2 DEF m
<1> QED BY <1>1, <1>2

\* A row that changes was in the slot that is moved, and is where it is moved to.
LEMMA MovedRows ==
  ASSUME NEW t, Clean(t), NEW c, NEW from, NEW slot, NEW box, NEW at, NEW i \in DOMAIN t,
         MoveTo(t, At(t, c, from, slot), box, at)[i] # t[i]
  PROVE  i \in In(t, c, from) /\ MoveTo(t, At(t, c, from, slot), box, at)[i].parent = box
<1> DEFINE ids == At(t, c, from, slot)
           m   == MoveTo(t, ids, box, at)
<1>1. ids \subseteq In(t, c, from)
  BY DEF At, In
<1>3. MoveTo(t, ids, box, at)[i] # t[i]
  OBVIOUS
<1> HIDE DEF ids
<1>2. i \in ids /\ m[i].parent = box
  <2>1. i \in ids
    BY <1>3 DEF MoveTo
  <2>2. m[i] = [t[i] EXCEPT !.parent = box, !.slot = at]
    BY <2>1 DEF MoveTo
  <2>3. m[i].parent = box
    BY <2>2 DEF Clean, IsTable, Row
  <2> QED BY <2>1, <2>3
<1> QED BY <1>1, <1>2 DEF ids, m

LEMMA NothingSame ==
  ASSUME NEW t, Clean(t), NEW ids, NEW i \in DOMAIN t \ ids
  PROVE  Same(t, t, i) /\ Same(t, Delete(t, ids), i)
BY DEF Same, Delete, Clean, IsTable, Row

\* When the counter has passed the last slot the window is empty.
LEMMA PassedIsEmpty ==
  ASSUME NEW t, Clean(t), NEW c, NEW box, NEW n \in Nat, n > ShopCapacity,
         From(t, c, box, n)
  PROVE  Window(t, c, box) = {}
<1> SUFFICES ASSUME NEW i \in Window(t, c, box) PROVE FALSE
  OBVIOUS
<1>1. i \in In(t, c, box) /\ t[i].slot <= ShopCapacity
  BY DEF Window
<1>2. t[i].slot >= n /\ t[i].slot \in Nat
  BY <1>1 DEF From, In, Clean, IsTable, Row
<1> QED BY <1>1, <1>2, ViewAssumption

\* The slot search only looks at the rows of its container.
LEMMA SearchSeesItsBox ==
  ASSUME NEW t, NEW c, NEW ids, \A i \in ids : i \notin Counted(t, c, INV_TOONINV)
  PROVE  InventoryFull(Delete(t, ids), c) = InventoryFull(t, c)
<1> DEFINE u == Delete(t, ids)
<1>1. Counted(u, c, INV_TOONINV) = Counted(t, c, INV_TOONINV)
  BY DEF Counted, In, Delete
<1>2. \A i \in Counted(t, c, INV_TOONINV) : u[i] = t[i]
  BY DEF Counted, In, Delete
<1> HIDE DEF u
<1>3. ASSUME NEW p PROVE UpTo(u, c, INV_TOONINV, p) = UpTo(t, c, INV_TOONINV, p)
  BY <1>1, <1>2 DEF UpTo
<1>4. Candidates(u, c, INV_TOONINV) = Candidates(t, c, INV_TOONINV)
  BY <1>1, <1>3 DEF Candidates
<1>5. NextSlot(u, c, INV_TOONINV) = NextSlot(t, c, INV_TOONINV)
  BY <1>1, <1>4 DEF NextSlot, FindNextAvailableContainerSlot
<1> QED BY <1>5 DEF InventoryFull, u

LEMMA LoopStepsOnly ==
  ASSUME Next, ~Restart, task.kind \in Trading
  PROVE  TaskStep
<1>1. ~Idle
  BY DEF Idle, NoTask, Trading
<1> QED BY <1>1, MessagesNeedIdle DEF Next, CharMessage, DeleteSelected

LEMMA IterationGoesOn ==
  ASSUME IInv, task.kind \in Trading, task' = [task EXCEPT !.i = @ + 1]
  PROVE  task' # NoTask
BY NextOfLoop DEF NoTask, Trading

\* A declined trade, and an NPC trade that is closed, loses or alters none of
\* the character's own rows in any iteration, and leaves the window empty
\* unless the inventory is full.
THEOREM DeclineLosesNothing == Spec => DeclineReturnsItems
<1> DEFINE Kept == \A i \in DOMAIN items :
             items[i].owner = task.char /\ items[i].parent # INV_TRADEPARTNER =>
               Same(items, items', i)
           Back == task' = NoTask => \/ Window(items', task.char, INV_TRADE) = {}
                                     \/ InventoryFull(items', task.char)
           A == task.kind \in {"decline", "endnpc"} /\ ~Restart =>
                  LET c == task.char
                  IN  /\ \A i \in DOMAIN items :
                           items[i].owner = c /\ items[i].parent # INV_TRADEPARTNER =>
                             Same(items, items', i)
                      /\ task' = NoTask => \/ Window(items', c, INV_TRADE) = {}
                                           \/ InventoryFull(items', c)
<1>1. ASSUME IInv, LoopOK, Next PROVE A
  <2> SUFFICES ASSUME task.kind \in {"decline", "endnpc"}, ~Restart PROVE Kept /\ Back
    OBVIOUS
  <2>0. Clean(items) /\ task.kind \in Trading
    BY <1>1 DEF IInv, TablesOK, Trading
  <2>1. MoveBack \/ MoveBackDone
    BY <1>1, <2>0, LoopStepsOnly DEF TaskStep, NpcRejects, NpcAcceptDone, GrabStuff,
       TradeCommitDone, ShopGrab, ShopPut, ShopTradeDone, CleanupDB
  <2>2. CASE MoveBack
    <3>1. PICK ids, slot : items' = MoveTo(items, ids, INV_TOONINV, slot)
      BY <2>2 DEF MoveBack, TaskStatement, MoveSlot
    <3>2. Kept
      BY <2>0, <3>1, MoveSame
    <3>3. task' # NoTask
      BY <1>1, <2>0, <2>2, IterationGoesOn DEF MoveBack, TaskStatement
    <3> QED BY <3>2, <3>3
  <2>3. CASE MoveBackDone
    <3> DEFINE ids == IF task.kind = "decline" THEN In(items, task.char, INV_TRADEPARTNER)
                                               ELSE {}
    <3>1. items' = IF task.kind = "decline" THEN Delete(items, ids) ELSE items
      BY <2>3 DEF MoveBackDone, EndTask
    <3>2. Kept
      BY <2>0, <3>1, NothingSame DEF In
    <3>3. Back
      <4>1. task.i \in Nat /\ From(items, task.char, INV_TRADE, task.i)
        BY <1>1, <2>0, TaskFields DEF LoopOK, BackOK
      <4>2. CASE task.i > ShopCapacity
        <5>1. Window(items, task.char, INV_TRADE) = {}
          BY <2>0, <4>1, <4>2, PassedIsEmpty
        <5>2. Window(items', task.char, INV_TRADE) \subseteq Window(items, task.char, INV_TRADE)
          BY <3>1 DEF Window, In, Delete
        <5> QED BY <5>1, <5>2
      <4>3. CASE InventoryFull(items, task.char)
        <5>1. \A i \in ids : i \notin Counted(items, task.char, INV_TOONINV)
          BY ContainerNames DEF Counted, In
        <5> HIDE DEF ids
        <5>2. InventoryFull(items', task.char)
          BY <3>1, <4>3, <5>1, SearchSeesItsBox
        <5> QED BY <5>2
      <4> QED BY <2>3, <4>2, <4>3 DEF MoveBackDone
    <3> QED BY <3>2, <3>3
  <2> QED BY <2>1, <2>2, <2>3
<1>2. IInv /\ LoopOK /\ [Next]_vars => [A]_vars
  BY <1>1
<1> HIDE DEF A
<1>3. Spec => [][A]_vars
  BY <1>2, LoopInvariant, PTL DEF Spec
<1> QED BY <1>3 DEF DeclineReturnsItems, A

\* A committed trade keeps every row the partner offered through all
\* iterations, and at the end both sides of the window are empty.
THEOREM CommitDeliversAll == Spec => CommitDelivers
<1> DEFINE Kept == \A i \in DOMAIN items : Same(items, items', i)
           Moved == \A i \in Window(items, task.char, INV_TRADEPARTNER) :
                      items'[i].parent \in {INV_TRADEPARTNER, INV_TOONINV}
           Done == task' = NoTask =>
                     /\ In(items', task.char, INV_TRADE) = {}
                     /\ Window(items', task.char, INV_TRADEPARTNER) = {}
           A == task.kind = "commit" /\ ~Restart =>
                  LET c == task.char
                  IN  /\ \A i \in DOMAIN items : Same(items, items', i)
                      /\ \A i \in Window(items, c, INV_TRADEPARTNER) :
                           items'[i].parent \in {INV_TRADEPARTNER, INV_TOONINV}
                      /\ task' = NoTask => /\ In(items', c, INV_TRADE) = {}
                                           /\ Window(items', c, INV_TRADEPARTNER) = {}
<1>1. ASSUME IInv, LoopOK, Next PROVE A
  <2> SUFFICES ASSUME task.kind = "commit", ~Restart PROVE Kept /\ Moved /\ Done
    OBVIOUS
  <2>0. Clean(items) /\ task.kind \in Trading
    BY <1>1 DEF IInv, TablesOK, Trading
  <2>1. GrabStuff \/ TradeCommitDone
    BY <1>1, <2>0, LoopStepsOnly DEF TaskStep, NpcRejects, NpcAcceptDone, MoveBack,
       MoveBackDone, ShopGrab, ShopPut, ShopTradeDone, CleanupDB
  <2>2. CASE GrabStuff
    <3>1. PICK ids, slot : items' = MoveTo(items, ids, INV_TOONINV, slot)
      BY <2>2 DEF GrabStuff, TaskStatement, MoveSlot
    <3>2. Kept
      BY <2>0, <3>1, MoveSame
    <3>3. Moved
      BY <2>0, <3>1 DEF Window, In, MoveTo, Clean, IsTable, Row
    <3>4. task' # NoTask
      BY <1>1, <2>0, <2>2, IterationGoesOn DEF GrabStuff, TaskStatement
    <3> QED BY <3>2, <3>3, <3>4
  <2>3. CASE TradeCommitDone
    <3>1. items' = items /\ task.i > ShopCapacity
      BY <2>3 DEF TradeCommitDone, EndTask
    <3>2. /\ task.i \in Nat /\ In(items, task.char, INV_TRADE) = {}
          /\ From(items, task.char, INV_TRADEPARTNER, task.i)
      BY <1>1, <2>0, TaskFields DEF LoopOK, DeliverOK
    <3>3. Window(items, task.char, INV_TRADEPARTNER) = {}
      BY <2>0, <3>1, <3>2, PassedIsEmpty
    <3>4. Kept
      BY <2>0, <3>1, NothingSame
    <3> QED BY <3>1, <3>2, <3>3, <3>4
  <2> QED BY <2>1, <2>2, <2>3
<1>2. IInv /\ LoopOK /\ [Next]_vars => [A]_vars
  BY <1>1
<1> HIDE DEF A
<1>3. Spec => [][A]_vars
  BY <1>2, LoopInvariant, PTL DEF Spec
<1> QED BY <1>3 DEF CommitDelivers, A

\* A sale in a shop that no monitored character owns moves the rows of the window
\* where they belong and no other, alters none of them but for its place, and
\* ends with both sides of the window empty.
THEOREM UnknownShopDeliversAll == Spec => UnknownShopDelivers
<1> DEFINE Kept == \A i \in DOMAIN items :
                     Same(items, items', i) /\ (items'[i] # items[i] => Sold(task.char, i))
           Done == task' = NoTask => /\ Window(items', task.char, INV_TRADE) = {}
                                     /\ Window(items', task.char, INV_TRADEPARTNER) = {}
           A == task.kind \in {"shopgrab", "shopput"} /\ task.box = INV_OTHER_PLAYERSHOP
                  /\ ~Restart =>
                  LET c == task.char
                  IN  /\ \A i \in DOMAIN items :
                           Same(items, items', i) /\ (items'[i] # items[i] => Sold(c, i))
                      /\ task' = NoTask => /\ Window(items', c, INV_TRADE) = {}
                                           /\ Window(items', c, INV_TRADEPARTNER) = {}
<1>1. ASSUME IInv, LoopOK, Next PROVE A
  <2> SUFFICES ASSUME task.kind \in {"shopgrab", "shopput"},
                      task.box = INV_OTHER_PLAYERSHOP, ~Restart
               PROVE  Kept /\ Done
    OBVIOUS
  <2>0. Clean(items) /\ task.kind \in Trading /\ SaleOK
    BY <1>1 DEF IInv, TablesOK, Trading, LoopOK
  <2>1. ShopGrab \/ ShopPut \/ ShopTradeDone
    BY <1>1, <2>0, LoopStepsOnly DEF TaskStep, NpcRejects, NpcAcceptDone, MoveBack,
       MoveBackDone, GrabStuff, TradeCommitDone, CleanupDB
  <2>2. CASE ShopGrab
    <3>1. PICK i, slot : items' = MoveTo(items, At(items, task.char, INV_TRADEPARTNER, i),
                                         INV_TOONINV, slot)
      BY <1>1, <2>0, <2>2, UnknownGrab
    <3>2. Kept
      BY <2>0, <3>1, MoveSame, MovedRows DEF Sold
    <3>3. task.kind = "shopgrab" /\ task \in ShopTasks
      BY <1>1, <2>0, <2>2, TaskFields DEF ShopGrab
    <3>4. task'.kind \in {"shopgrab", "shopput"}
      BY <2>2, <3>3 DEF ShopGrab, TaskStatement, ShopTasks
    <3> QED BY <3>2, <3>4 DEF NoTask
  <2>3. CASE ShopPut
    <3>1. PICK i, slot : items' = MoveTo(items, At(items, task.char, INV_TRADE, i),
                                         INV_OTHER_PLAYERSHOP, slot)
      BY <1>1, <2>0, <2>3, UnknownPut
    <3>2. Kept
      BY <2>0, <3>1, MoveSame, MovedRows DEF Sold
    <3>3. task' # NoTask
      BY <1>1, <2>0, <2>3, IterationGoesOn DEF ShopPut, TaskStatement
    <3> QED BY <3>2, <3>3
  <2>4. CASE ShopTradeDone
    <3>1. items' = items /\ task.kind = "shopput" /\ task.i > ShopCapacity
      BY <2>4 DEF ShopTradeDone, EndTask
    <3>2. /\ task.i \in Nat
          /\ From(items, task.char, INV_TRADEPARTNER, ShopCapacity + 1)
          /\ From(items, task.char, INV_TRADE, task.i)
      BY <1>1, <2>0, <3>1, TaskFields DEF SaleOK
    <3>3. Window(items, task.char, INV_TRADE) = {}
      BY <2>0, <3>1, <3>2, PassedIsEmpty
    <3>4. Window(items, task.char, INV_TRADEPARTNER) = {}
      BY <2>0, <3>2, PassedIsEmpty, ViewAssumption
    <3>5. Kept
      BY <2>0, <3>1, NothingSame
    <3> QED BY <3>1, <3>3, <3>4, <3>5
  <2> QED BY <2>1, <2>2, <2>3, <2>4
<1>2. IInv /\ LoopOK /\ [Next]_vars => [A]_vars
  BY <1>1
<1> HIDE DEF A
<1>3. Spec => [][A]_vars
  BY <1>2, LoopInvariant, PTL DEF Spec
<1> QED BY <1>3 DEF UnknownShopDelivers, A

-----------------------------------------------------------------------------
(***************************************************************************)
(* What a crash may cost.  Outside of a transaction the file holds the     *)
(* table, so only the steps that may leave one open matter: they return    *)
(* early, begin a loop, go on with one, or delete.                         *)
(***************************************************************************)

\* Nothing but deletions.
OnlyDeletes ==
  /\ disk' = disk /\ toons' = toons
  /\ \A i \in DOMAIN items' : i \in DOMAIN items /\ items'[i] = items[i]

\* A step of a handler that leaves a transaction open deletes or begins a loop.
LEMMA OpenMessage ==
  ASSUME IInv, NEW c \in Chars, CharMessage(c), inTxn'
  PROVE  OnlyDeletes \/ task'.kind \in Trading
<1>1. ASSUME NEW t, Transaction(t) PROVE FALSE
  BY <1>1 DEF Transaction
<1>2. ASSUME NEW ids, Statement(Delete(items, ids)) PROVE OnlyDeletes
  BY <1>2 DEF Statement, Delete, OnlyDeletes
<1>3. ASSUME NEW t, NEW new, new.kind \in Trading, StartTask(t, new)
      PROVE  task'.kind \in Trading
  BY <1>3 DEF StartTask
<1>4. CASE StackMessage(c)
  <2>1. ASSUME NEW ref \in FromRefs, NEW slot \in MsgSlots, NEW n \in MsgStacks
        PROVE  ~SplitStack(c, ref, slot, n)
    BY <1>1 DEF SplitStack
  <2>2. ASSUME NEW ref \in FromRefs, NEW slot \in MsgSlots, NEW k \in Keys
        PROVE  ~ClientDeleteItem(c, ref, slot, k) /\ ~ItemUsed(c, ref, slot, k)
    BY <1>1 DEF ClientDeleteItem, ItemUsed
  <2>3. ASSUME NEW ref \in FromRefs, NEW slot \in MsgSlots, NEW ref2 \in FromRefs,
               NEW slot2 \in MsgSlots
        PROVE  ~JoinStacks(c, ref, slot, ref2, slot2) /\ ~ServerDeleteItem(c, ref, slot)
    BY <1>1 DEF JoinStacks, ServerDeleteItem
  <2>4. PICK ref \in FromRefs : ActionOnUnknownContainer(c, ref)
    BY <1>4, <2>1, <2>2, <2>3 DEF StackMessage
  <2> QED BY <2>4 DEF ActionOnUnknownContainer, ReturnHoldingLock, OnlyDeletes
<1>5. CASE TradeMessage(c)
  <2>1. CASE EndNpcTrade(c) \/ NpcAccept(c) \/ TradeDecline(c) \/ TradeCommit(c)
    BY <1>3, <2>1 DEF EndNpcTrade, NpcAccept, TradeDecline, TradeCommit, Trading
  <2>2. ASSUME NEW shop \in Shops, ShopTradeCommit(c, shop)
        PROVE  task'.kind \in Trading
    BY <1>3, <2>2 DEF ShopTradeCommit, Trading
  <2>3. /\ ~TradeStart(c)
        /\ \A k \in Keys, n \in MsgStacks : ~PartnerAddsItem(c, k, n)
        /\ \A bag \in Backpacks : ~PartnerAddsBackpack(c, bag) /\ ~PartnerRemovesBackpack(c, bag)
    BY <1>1 DEF TradeStart, PartnerAddsItem, PartnerAddsBackpack, PartnerRemovesBackpack
  <2>4. \A slot \in MsgSlots :
          /\ ~PartnerRemovesItem(c, slot) /\ ~TradeRemove(c, slot) /\ ~ShopTradeRemove(c, slot)
          /\ \A ref \in FromRefs : ~TradeAdd(c, ref, slot)
          /\ \A ref \in FromRefs, d \in {0, 1} : ~GiveToNpc(c, ref, slot, d)
          /\ \A shop \in Shops : ~ShopTradeAdd(c, shop, slot)
    BY <1>1 DEF PartnerRemovesItem, TradeRemove, ShopTradeRemove, TradeAdd, GiveToNpc,
       ShopTradeAdd
  <2> QED BY <1>5, <2>1, <2>2, <2>3, <2>4 DEF TradeMessage
<1>6. ~MoveMessage(c)
  BY <1>1 DEF MoveMessage, HotSwap, MoveJoins, PlainMove
<1>7. CASE NewItemMessage(c)
  <2>1. ASSUME NEW temp \in TempItems, DeleteTempItem(c, temp) PROVE OnlyDeletes
    BY <1>2, <2>1 DEF DeleteTempItem
  <2>2. ASSUME NEW temp \in TempItems, NEW slot \in MsgSlots, SpawnTempId(c, temp, slot)
        PROVE  OnlyDeletes
    BY <2>2 DEF SpawnTempId, OnlyDeletes, db
  <2>3. /\ \A k \in Keys, n \in MsgStacks : ~ItemBought(c, k, n)
        /\ \A k \in Keys, n \in MsgStacks, slot \in MsgSlots : ~TradeskillResult(c, k, n, slot)
        /\ \A temp \in TempItems, slot \in MsgSlots, k \in Keys : ~SpawnReward(c, temp, k, slot)
    BY <1>1 DEF ItemBought, TradeskillResult, SpawnReward
  <2> QED BY <1>7, <2>1, <2>2, <2>3 DEF NewItemMessage
<1>8. ~BulkMessage(c)
  <2>1. ~Bank(c) /\ ~FullSync(c) /\ ~OverflowContainer(c) /\ ~MobSync(c)
    BY <1>1 DEF Bank, FullSync, OverflowContainer, MobSync, SetToon
  <2>2. \A bag \in Backpacks :
          /\ \A temp \in TempIds : ~Container(c, bag, temp)
          /\ \A k \in Keys, slot \in MsgSlots : ~BackpackBought(c, bag, k, slot)
    BY <1>1 DEF Container, BackpackBought
  <2>3. \A shop \in Shops : ~ShopItems(c, shop) /\ ~ShopInfo(c, shop)
    BY <1>1 DEF ShopItems, ShopInfo, SetToon
  <2> QED BY <2>1, <2>2, <2>3 DEF BulkMessage
<1> QED
  BY <1>4, <1>5, <1>6, <1>7, <1>8 DEF CharMessage

\* A loop that does not end goes on.
LEMMA OpenIteration ==
  ASSUME IInv, TaskStep, inTxn', task.kind \in Trading
  PROVE  task'.kind \in Trading
<1>1. ASSUME NEW t, EndTask(t) PROVE FALSE
  BY <1>1 DEF EndTask
<1>2. CASE MoveBack \/ GrabStuff \/ ShopPut
  <2>1. task' = [task EXCEPT !.i = @ + 1]
    BY <1>2 DEF MoveBack, GrabStuff, ShopPut, TaskStatement
  <2> QED BY <2>1, NextOfLoop
<1>3. ASSUME NEW k \in Keys, NpcRejects(k) PROVE task'.kind \in Trading
  <2>1. task' = [task EXCEPT !.i = @ + 1]
    BY <1>3 DEF NpcRejects, TaskStatement
  <2> QED BY <2>1, NextOfLoop
<1>4. CASE ShopGrab
  <2>1. /\ task.kind = "shopgrab"
        /\ task' = IF task.i < ShopCapacity
                   THEN [task EXCEPT !.i = @ + 1]
                   ELSE [task EXCEPT !.kind = "shopput", !.i = 0]
    BY <1>4 DEF ShopGrab, TaskStatement
  <2>2. task \in ShopTasks
    BY <2>1, TaskFields
  <2> QED BY <2>1, <2>2 DEF ShopTasks, Trading
<1>5. ~MoveBackDone /\ ~NpcAcceptDone /\ ~TradeCommitDone /\ ~ShopTradeDone
  BY <1>1 DEF MoveBackDone, NpcAcceptDone, TradeCommitDone, ShopTradeDone
<1>6. ~CleanupDB
  BY DEF CleanupDB, Trading
<1> QED BY <1>2, <1>3, <1>4, <1>5, <1>6 DEF TaskStep

\* Wherever the process ends outside of a trade loop, and whatever handlers left
\* a transaction open before, it finds every row and every toon again.
THEOREM CrashesLoseOnlyDeletions == Spec => []CrashLosesOnlyDeletions
<1>1. IInv /\ ~inTxn => CrashLosesOnlyDeletions
  BY DEF IInv, TxnOK, CrashLosesOnlyDeletions
<1>2. Init => CrashLosesOnlyDeletions
  BY <1>1, InitIInv DEF Init
<1>3. IInv /\ IInv' /\ CrashLosesOnlyDeletions /\ [Next]_vars => CrashLosesOnlyDeletions'
  <2> SUFFICES ASSUME IInv, IInv', CrashLosesOnlyDeletions, [Next]_vars,
                      inTxn', task'.kind \notin Trading
               PROVE  CrashLosesOnlyDeletions'
    BY <1>1 DEF CrashLosesOnlyDeletions, IInv, TxnOK
  <2>1. ASSUME task.kind \notin Trading, OnlyDeletes PROVE CrashLosesOnlyDeletions'
    BY <2>1 DEF OnlyDeletes, CrashLosesOnlyDeletions
  <2>2. ASSUME NEW c \in Chars, CharMessage(c) PROVE CrashLosesOnlyDeletions'
    <3>1. Idle
      BY <2>2, MessagesNeedIdle DEF CharMessage
    <3> QED BY <2>1, <2>2, <3>1, OpenMessage DEF Idle, NoTask, Trading
  <2>3. CASE CleanupDB
    BY <2>1, <2>3 DEF CleanupDB, OnlyDeletes, Delete, Trading
  <2>4. CASE TaskStep /\ ~CleanupDB
    <3>1. task.kind \in Trading
      BY <2>4 DEF TaskStep, MoveBack, MoveBackDone, NpcRejects, NpcAcceptDone, GrabStuff,
         TradeCommitDone, ShopGrab, ShopPut, ShopTradeDone, Trading
    <3> QED BY <2>4, <3>1, OpenIteration
  <2>5. ASSUME NEW ids, DeleteSelected(ids) PROVE CrashLosesOnlyDeletions'
    BY <2>1, <2>5 DEF DeleteSelected, Statement, Idle, NoTask, OnlyDeletes, Delete, Trading
  <2>6. CASE Restart
    BY <2>6 DEF Restart
  <2>7. CASE UNCHANGED vars
    BY <2>7 DEF vars, CrashLosesOnlyDeletions
  <2> QED BY <2>2, <2>3, <2>4, <2>5, <2>6, <2>7 DEF Next
<1> QED
  BY <1>2, <1>3, Invariance, PTL DEF Spec

-----------------------------------------------------------------------------
(***************************************************************************)
(* Units of stacks.  A split and a join take n units from one row and give *)
(* them to another; the pairs that stand for the units are then as many as *)
(* before, by the bijection that renames those n.                          *)
(***************************************************************************)
Pairs(S, a) == {p \in S \X Nat : p[2] \in 1..a[p[1]]}

LEMMA PairsFinite ==
  ASSUME NEW S, IsFiniteSet(S), NEW a \in [S -> Nat]
  PROVE  IsFiniteSet(Pairs(S, a))
<1> DEFINE column(i) == {i} \X (1..a[i])
           all == UNION {column(i) : i \in S}
<1>1. ASSUME NEW i \in S PROVE IsFiniteSet(column(i))
  <2>1. 1 \in Int /\ a[i] \in Int
    OBVIOUS
  <2>2. IsFiniteSet(1..a[i])
    BY <2>1, FS_Interval
  <2>3. IsFiniteSet({i})
    BY FS_Singleton
  <2> QED BY <2>2, <2>3, FS_Product
<1>2. IsFiniteSet({column(i) : i \in S})
  <2> DEFINE g == [i \in S |-> column(i)]
  <2>1. g \in Surjection(S, {column(i) : i \in S})
    BY DEF Surjection
  <2> QED BY <2>1, FS_Surjection DEF ExistsSurjection
<1>3. IsFiniteSet(all)
  BY <1>1, <1>2, FS_UNION
<1>4. Pairs(S, a) \in SUBSET all
  BY DEF Pairs
<1> HIDE DEF all
<1> QED BY <1>3, <1>4, FS_Subset

\* Giving n units of s to d keeps their number.
LEMMA UnitsMoved ==
  ASSUME NEW S, IsFiniteSet(S), NEW a \in [S -> Nat], NEW b \in [S -> Nat],
         NEW s \in S, NEW d \in S, s # d, NEW n \in Nat,
         a[s] = b[s] + n, b[d] = a[d] + n,
         \A i \in S \ {s, d} : a[i] = b[i]
  PROVE  Cardinality(Pairs(S, b)) = Cardinality(Pairs(S, a))
<1> DEFINE Goes(p) == p[1] = s /\ p[2] > b[s]
           f == [p \in Pairs(S, a) |-> IF Goes(p) THEN <<d, a[d] + p[2] - b[s]>> ELSE p]
<1>1. a[s] \in Nat /\ a[d] \in Nat /\ b[s] \in Nat /\ b[d] \in Nat
  OBVIOUS
<1>2. ASSUME NEW p \in Pairs(S, a)
      PROVE  /\ p[1] \in S /\ p[2] \in Nat /\ p = <<p[1], p[2]>>
             /\ 1 <= p[2] /\ p[2] <= a[p[1]] /\ a[p[1]] \in Nat
  BY DEF Pairs
<1>3. f \in [Pairs(S, a) -> Pairs(S, b)]
  <2> SUFFICES ASSUME NEW p \in Pairs(S, a) PROVE f[p] \in Pairs(S, b)
    OBVIOUS
  <2>1. CASE Goes(p)
    <3>1. f[p] = <<d, a[d] + p[2] - b[s]>>
      BY <2>1
    <3>2. p[2] \in Nat /\ p[2] <= b[s] + n /\ p[2] > b[s]
      BY <1>2, <2>1
    <3>3. a[d] + p[2] - b[s] \in 1..b[d] /\ a[d] + p[2] - b[s] \in Nat
      BY <1>1, <3>2
    <3> QED BY <3>1, <3>3 DEF Pairs
  <2>2. CASE ~Goes(p)
    <3>1. f[p] = p
      BY <2>2
    <3>2. p[2] <= b[p[1]] /\ b[p[1]] \in Nat
      <4>1. CASE p[1] = s
        BY <1>1, <1>2, <2>2, <4>1
      <4>2. CASE p[1] = d
        <5>1. p[2] \in Nat /\ p[2] <= a[d] /\ b[d] = a[d] + n
          BY <1>2, <4>2
        <5>2. p[2] <= b[d]
          BY <1>1, <5>1
        <5> QED BY <1>1, <4>2, <5>2
      <4>3. CASE p[1] # s /\ p[1] # d
        BY <1>2, <4>3
      <4> QED BY <4>1, <4>2, <4>3
    <3>3. p[2] \in 1..b[p[1]]
      BY <1>2, <3>2
    <3> QED BY <1>2, <3>1, <3>3 DEF Pairs
  <2> QED BY <2>1, <2>2
<1>4. ASSUME NEW p \in Pairs(S, a), NEW q \in Pairs(S, a), f[p] = f[q]
      PROVE  p = q
  <2>1. /\ p[2] \in Nat /\ q[2] \in Nat /\ p = <<p[1], p[2]>> /\ q = <<q[1], q[2]>>
        /\ p[2] >= 1 /\ q[2] >= 1
        /\ p[1] = d => p[2] <= a[d]
        /\ q[1] = d => q[2] <= a[d]
    BY <1>2
  <2>2. CASE Goes(p) /\ Goes(q)
    <3>1. a[d] + p[2] - b[s] = a[d] + q[2] - b[s]
      BY <1>4, <2>2
    <3>2. p[2] = q[2]
      BY <1>1, <2>1, <3>1
    <3> QED BY <2>1, <2>2, <3>2
  <2>3. CASE Goes(p) /\ ~Goes(q)
    <3>1. q = <<d, a[d] + p[2] - b[s]>>
      BY <1>4, <2>3
    <3>2. a[d] + p[2] - b[s] <= a[d]
      BY <2>1, <3>1
    <3> QED BY <1>1, <2>1, <2>3, <3>2
  <2>4. CASE ~Goes(p) /\ Goes(q)
    <3>1. p = <<d, a[d] + q[2] - b[s]>>
      BY <1>4, <2>4
    <3>2. a[d] + q[2] - b[s] <= a[d]
      BY <2>1, <3>1
    <3> QED BY <1>1, <2>1, <2>4, <3>2
  <2>5. CASE ~Goes(p) /\ ~Goes(q)
    BY <1>4, <2>5
  <2> QED BY <2>2, <2>3, <2>4, <2>5
<1>5. ASSUME NEW q \in Pairs(S, b)
      PROVE  \E p \in Pairs(S, a) : f[p] = q
  <2>1. /\ q[1] \in S /\ q[2] \in Nat /\ q = <<q[1], q[2]>>
        /\ 1 <= q[2] /\ q[2] <= b[q[1]] /\ b[q[1]] \in Nat
    BY DEF Pairs
  <2>2. CASE q[1] = d /\ q[2] > a[d]
    <3> DEFINE x == q[2] - a[d] + b[s]
               p == <<s, x>>
    <3>1. q[2] <= a[d] + n
      BY <2>1, <2>2
    <3>2. x \in Nat /\ 1 <= x /\ x <= a[s] /\ x > b[s] /\ a[d] + x - b[s] = q[2]
      BY <1>1, <2>1, <2>2, <3>1
    <3> HIDE DEF x
    <3>3. p[1] = s /\ p[2] = x /\ p \in S \X Nat
      BY <3>2
    <3>4. p \in Pairs(S, a)
      BY <1>1, <3>2, <3>3 DEF Pairs
    <3>5. f[p] = <<d, q[2]>>
      BY <3>2, <3>3, <3>4
    <3> QED BY <2>1, <2>2, <3>4, <3>5
  <2>3. CASE ~(q[1] = d /\ q[2] > a[d])
    <3>1. q[2] <= a[q[1]] /\ a[q[1]] \in Nat
      <4>1. CASE q[1] = s
        <5>1. q[2] \in Nat /\ q[2] <= b[s]
          BY <2>1, <4>1
        <5>2. q[2] <= a[s]
          BY <1>1, <5>1
        <5> QED BY <1>1, <4>1, <5>2
      <4>2. CASE q[1] = d
        BY <1>1, <2>1, <2>3, <4>2
      <4>3. CASE q[1] # s /\ q[1] # d
        BY <2>1, <4>3
      <4> QED BY <4>1, <4>2, <4>3
    <3>2. q \in Pairs(S, a)
      BY <2>1, <3>1 DEF Pairs
    <3>3. ~Goes(q)
      BY <1>1, <2>1
    <3> QED BY <3>2, <3>3
  <2> QED BY <2>2, <2>3
<1>6. f \in Bijection(Pairs(S, a), Pairs(S, b))
  <2> HIDE DEF f
  <2> QED BY <1>3, <1>4, <1>5 DEF Bijection, Injection, Surjection, IsInjective
<1>7. ExistsBijection(Pairs(S, a), Pairs(S, b))
  BY <1>6 DEF ExistsBijection
<1> QED BY <1>7, PairsFinite, FS_Bijection

\* What a row adds to the units of a character's key.
Amount(t, c, k) ==
  [i \in RowIds |-> IF i \in DOMAIN t /\ t[i].owner = c /\ t[i].key = k
                    THEN t[i].stack ELSE 0]

LEMMA UnitsArePairs ==
  ASSUME NEW t, IsTable(t), \A i \in DOMAIN t : t[i].stack \in Nat, NEW c, NEW k
  PROVE  /\ Amount(t, c, k) \in [RowIds -> Nat]
         /\ Units(t, c, k) = Pairs(RowIds, Amount(t, c, k))
<1>1. DOMAIN t \subseteq RowIds
  BY DEF IsTable
<1>2. Amount(t, c, k) \in [RowIds -> Nat]
  BY DEF Amount
<1>3. ASSUME NEW u \in Units(t, c, k) PROVE u \in Pairs(RowIds, Amount(t, c, k))
  <2>1. PICK i \in DOMAIN t : t[i].owner = c /\ t[i].key = k /\ u \in {i} \X (1..t[i].stack)
    BY <1>3 DEF Units
  <2>2. u[1] = i /\ u[2] \in 1..t[i].stack /\ u \in RowIds \X Nat
    BY <1>1, <2>1
  <2>3. Amount(t, c, k)[i] = t[i].stack
    BY <1>1, <2>1 DEF Amount
  <2> QED BY <2>2, <2>3 DEF Pairs
<1>4. ASSUME NEW u \in Pairs(RowIds, Amount(t, c, k)) PROVE u \in Units(t, c, k)
  <2>1. u \in RowIds \X Nat /\ u[2] \in 1..Amount(t, c, k)[u[1]]
    BY DEF Pairs
  <2>2. u[1] \in DOMAIN t /\ t[u[1]].owner = c /\ t[u[1]].key = k
    BY <2>1 DEF Amount
  <2>3. Amount(t, c, k)[u[1]] = t[u[1]].stack
    BY <2>1, <2>2 DEF Amount
  <2>4. u \in {u[1]} \X (1..t[u[1]].stack)
    BY <2>1, <2>3
  <2> QED BY <2>2, <2>4 DEF Units
<1> QED BY <1>2, <1>3, <1>4

SameUnits(t, u, c) ==
  /\ \A i \in DOMAIN u : u[i].stack \in Nat
  /\ \A k \in Keys : Cardinality(Units(u, c, k)) = Cardinality(Units(t, c, k))

\* n units go from the row s of c to the row d of the same type; a row that is
\* not in the table, before or after, has none.
LEMMA TransferKeepsUnits ==
  ASSUME NEW t, IsTable(t), \A i \in DOMAIN t : t[i].stack \in Nat,
         NEW u, IsTable(u), \A i \in DOMAIN u : u[i].stack \in Nat,
         NEW c, NEW key, NEW s \in RowIds, NEW d \in RowIds, s # d, NEW n \in Nat,
         Amount(t, c, key)[s] = Amount(u, c, key)[s] + n,
         Amount(u, c, key)[d] = Amount(t, c, key)[d] + n,
         \A k : \A i \in RowIds :
           k # key \/ i \notin {s, d} => Amount(u, c, k)[i] = Amount(t, c, k)[i]
  PROVE  SameUnits(t, u, c)
<1> SUFFICES ASSUME NEW k \in Keys
             PROVE  Cardinality(Units(u, c, k)) = Cardinality(Units(t, c, k))
  BY DEF SameUnits
<1>1. /\ Amount(t, c, k) \in [RowIds -> Nat] /\ Units(t, c, k) = Pairs(RowIds, Amount(t, c, k))
      /\ Amount(u, c, k) \in [RowIds -> Nat] /\ Units(u, c, k) = Pairs(RowIds, Amount(u, c, k))
  BY UnitsArePairs
<1>2. CASE k = key
  BY <1>1, <1>2, UnitsMoved, TableAssumption
<1>3. CASE k # key
  <2>1. \A i \in RowIds : Amount(u, c, k)[i] = Amount(t, c, k)[i]
    BY <1>3
  <2>2. Amount(u, c, k) = Amount(t, c, k)
    BY <1>1, <2>1
  <2> QED BY <1>1, <2>2
<1> QED BY <1>2, <1>3

\* The join of two rows: the stack of g is added to s, and g is deleted.
LEMMA JoinTransfers ==
  ASSUME NEW t, IsTable(t), \A i \in DOMAIN t : t[i].stack \in Nat,
         NEW c, NEW s \in DOMAIN t, NEW g \in DOMAIN t, s # g,
         t[s].owner = c, t[g].owner = c, t[s].key = t[g].key
  PROVE  SameUnits(t, Delete(AddToStack(t, {s}, t[g].stack), {g}), c)
<1> DEFINE n   == t[g].stack
           u   == Delete(AddToStack(t, {s}, n), {g})
           key == t[s].key
<1>1. /\ DOMAIN t \subseteq RowIds /\ n \in Nat /\ t[s].stack \in Nat
      /\ \A i \in DOMAIN t : t[i] \in Row
  BY DEF IsTable
<1>2. Plus(t[s].stack, n) = t[s].stack + n
  BY <1>1, TableAssumption DEF Plus
<1>3. /\ DOMAIN u = DOMAIN t \ {g}
      /\ \A i \in DOMAIN u : u[i] = IF i = s THEN [t[s] EXCEPT !.stack = t[s].stack + n] ELSE t[i]
      /\ u = [i \in DOMAIN u |-> u[i]]
  BY <1>2 DEF Delete, AddToStack
<1> HIDE DEF u
<1>4. \A i \in DOMAIN u : /\ u[i].owner = t[i].owner /\ u[i].key = t[i].key
                           /\ u[i].stack = IF i = s THEN t[s].stack + n ELSE t[i].stack
  BY <1>1, <1>3 DEF Row
<1>5. \A i \in DOMAIN u : u[i].stack \in Nat /\ u[i] \in Row
  BY <1>1, <1>3, <1>4 DEF Row, Stacks
<1>6. IsTable(u)
  <2>1. u \in [DOMAIN u -> Row]
    BY <1>3, <1>5
  <2> QED BY <1>1, <1>3, <2>1 DEF IsTable
<1>7. Amount(t, c, key)[g] = n /\ Amount(u, c, key)[g] = 0
  BY <1>1, <1>3 DEF Amount
<1>8. Amount(u, c, key)[s] = Amount(t, c, key)[s] + n
  BY <1>1, <1>3, <1>4 DEF Amount
<1>9. ASSUME NEW k, NEW i \in RowIds, k # key \/ i \notin {g, s}
      PROVE  Amount(u, c, k)[i] = Amount(t, c, k)[i]
  BY <1>3, <1>4, <1>9 DEF Amount
<1>10. s \in RowIds /\ g \in RowIds /\ Amount(t, c, key)[g] = Amount(u, c, key)[g] + n
  BY <1>1, <1>7
<1>11. \A i \in DOMAIN u : u[i].stack \in Nat
  BY <1>5
<1>12. n \in Nat
  BY <1>1
<1> HIDE DEF key, n
<1>13. SameUnits(t, u, c)
  BY <1>6, <1>8, <1>9, <1>10, <1>11, <1>12, TransferKeepsUnits
<1> QED BY <1>13 DEF u, n

LEMMA JoinStacksUnits ==
  ASSUME IInv, WholeStacks, NEW c \in Chars, NEW ref \in FromRefs, NEW slot,
         NEW ref2 \in FromRefs, NEW slot2, OneRow(c, GetFromContainerId(c, ref), slot),
         JoinsRows(c, ref, slot, ref2, slot2)
  PROVE  KeepsUnits(c)
<1> DEFINE from  == GetFromContainerId(c, ref)
           from2 == GetFromContainerId(c, ref2)
<1> SUFFICES ASSUME JoinStacks(c, ref, slot, ref2, slot2),
                    OneRow(c, from2, slot2),
                    At(items, c, from, slot) # At(items, c, from2, slot2),
                    \A i \in At(items, c, from, slot), j \in At(items, c, from2, slot2) :
                      items[i].key = items[j].key
             PROVE  KeepsUnits(c)
  BY DEF JoinsRows
<1>1. PICK s \in DOMAIN items : At(items, c, from, slot) = {s}
  BY DEF OneRow
<1>2. PICK g \in DOMAIN items : At(items, c, from2, slot2) = {g}
  BY DEF OneRow
<1>3. PICK n \in StackOf(items, {g}) : Transaction(Delete(AddToStack(items, {s}, n), {g}))
  BY <1>1, <1>2 DEF JoinStacks
<1>4. n = items[g].stack /\ items' = Delete(AddToStack(items, {s}, n), {g})
  BY <1>3 DEF StackOf, Transaction
<1>5. s # g /\ items[s].key = items[g].key /\ items[s].owner = c /\ items[g].owner = c
  BY <1>1, <1>2 DEF At, In
<1>6. IsTable(items) /\ \A i \in DOMAIN items : items[i].stack \in Nat
  BY DEF IInv, TablesOK, Clean, WholeStacks
<1>7. SameUnits(items, items', c)
  BY <1>4, <1>5, <1>6, JoinTransfers
<1> QED BY <1>7 DEF SameUnits, KeepsUnits, WholeStacks

\* The slot the search by type gives is that of a row of the type.
LEMMA SameTypeFound ==
  ASSUME NEW t, IsTable(t), NEW c, NEW src, NEW box,
         FindFirstItemOfSameType(t, c, src, box) > 0
  PROVE  \E i \in SameType(t, c, src, box) : t[i].slot = FindFirstItemOfSameType(t, c, src, box)
<1> DEFINE slots == {t[i].slot : i \in SameType(t, c, src, box)}
<1>1. SameType(t, c, src, box) # {}
  BY DEF FindFirstItemOfSameType
<1>2. slots # {} /\ slots \in SUBSET Nat
  BY <1>1 DEF SameType, In, IsTable, Row
<1>3. PICK m \in slots : \A n \in slots : m <= n
  BY <1>2, LeastNatural
<1>4. \E n \in slots : \A i \in SameType(t, c, src, box) : n <= t[i].slot
  BY <1>3
<1>5. FindFirstItemOfSameType(t, c, src, box) \in slots
  BY <1>1, <1>4 DEF FindFirstItemOfSameType
<1> QED BY <1>5

LEMMA MoveJoinsUnits ==
  ASSUME IInv, WholeStacks, NEW c \in Chars, NEW ref \in FromRefs, NEW slot, NEW newSlot,
         OneRow(c, GetFromContainerId(c, ref), slot),
         MoveJoinsRows(c, ref, slot, newSlot)
  PROVE  KeepsUnits(c)
<1> DEFINE from   == GetFromContainerId(c, ref)
           target == JoinTarget(c, from, slot)
<1> SUFFICES ASSUME MoveJoins(c, ref, slot, INV_TOONINV, newSlot),
                    OneRow(c, INV_TOONINV, target),
                    At(items, c, from, slot) # At(items, c, INV_TOONINV, target)
             PROVE  KeepsUnits(c)
  BY DEF MoveJoinsRows
<1>1. PICK g \in DOMAIN items : At(items, c, from, slot) = {g}
  BY DEF OneRow
<1>2. PICK s \in DOMAIN items : At(items, c, INV_TOONINV, target) = {s}
  BY DEF OneRow
<1>3. PICK n \in StackOf(items, {g}) : Transaction(Delete(AddToStack(items, {s}, n), {g}))
  BY <1>1, <1>2 DEF MoveJoins
<1>4. n = items[g].stack /\ items' = Delete(AddToStack(items, {s}, n), {g})
  BY <1>3 DEF StackOf, Transaction
<1>5. IsTable(items) /\ \A i \in DOMAIN items : items[i].stack \in Nat
  BY DEF IInv, TablesOK, Clean, WholeStacks
<1>6. PICK i \in SameType(items, c, {g}, INV_TOONINV) : items[i].slot = target
  <2>1. target > 0
    BY DEF MoveJoins, MayJoin
  <2> QED BY <1>1, <1>5, <2>1, SameTypeFound DEF JoinTarget
<1>7. i = s /\ items[g].key = items[s].key
  BY <1>2, <1>6 DEF SameType, At
<1>8. s # g /\ items[s].owner = c /\ items[g].owner = c
  BY <1>1, <1>2 DEF At, In
<1>9. SameUnits(items, items', c)
  BY <1>4, <1>5, <1>7, <1>8, JoinTransfers
<1> QED BY <1>9 DEF SameUnits, KeepsUnits, WholeStacks

LEMMA SplitStackUnits ==
  ASSUME IInv, WholeStacks, NEW c \in Chars, NEW ref \in FromRefs, NEW slot \in MsgSlots,
         NEW n \in MsgStacks, OneRow(c, GetFromContainerId(c, ref), slot),
         SplitsRow(c, ref, slot, n)
  PROVE  KeepsUnits(c)
<1> DEFINE from  == GetFromContainerId(c, ref)
           src   == At(items, c, from, slot)
           fresh == NextSlot(items, c, from)
           Splits(new, of) ==
             LET copies == [j \in new |-> [items[of[j]] EXCEPT !.stack = n,
                                                               !.slot = fresh]]
                 both   == InsertAll(items, copies)
             IN  Transaction(AddToStack(both, At(both, c, from, slot), -n))
<1> SUFFICES ASSUME SplitStack(c, ref, slot, n), FirstSlot(from) <= slot,
                    \A i \in src : n <= items[i].stack
             PROVE  KeepsUnits(c)
  BY DEF SplitsRow
<1>1. PICK s \in DOMAIN items : src = {s}
  BY DEF OneRow
<1>2. PICK new \in SUBSET FreeIds(items) :
        Cardinality(new) = Cardinality(src) /\ \E of \in [new -> src] : Splits(new, of)
  BY DEF SplitStack
<1>3. PICK of \in [new -> src] : Splits(new, of)
  BY <1>2
<1>4. PICK d : new = {d}
  <2>1. IsFiniteSet(new) /\ Cardinality(new) = 1
    BY <1>1, <1>2, TableAssumption, FS_Subset, FS_Singleton DEF FreeIds
  <2> QED BY <2>1, FS_Singleton
<1>5. /\ IsTable(items) /\ \A i \in DOMAIN items : items[i].stack \in Nat
      /\ \A i \in DOMAIN items : items[i] \in Row
      /\ DOMAIN items \subseteq RowIds
  BY DEF IInv, TablesOK, Clean, WholeStacks, IsTable
<1>6. /\ items[s].owner = c /\ items[s].parent = from /\ items[s].slot = slot
      /\ s \in RowIds /\ d \in RowIds /\ d \notin DOMAIN items
      /\ of[d] = s /\ s # d /\ n \in Nat /\ n <= items[s].stack
  <2>1. items[s].owner = c /\ items[s].parent = from /\ items[s].slot = slot
    BY <1>1 DEF At, In
  <2>2. d \in RowIds /\ d \notin DOMAIN items /\ s \in RowIds
    BY <1>4, <1>5 DEF FreeIds
  <2>3. of[d] = s
    BY <1>1, <1>4
  <2>4. n <= items[s].stack /\ n \in Nat
    BY <1>1, ViewAssumption
  <2> QED BY <2>1, <2>2, <2>3, <2>4
<1>7. fresh # slot
  <2>1. s \in Counted(items, c, from)
    BY <1>6 DEF Counted, In
  <2>2. At(items, c, from, fresh) = {}
    BY <1>5, <2>1, NextSlotIsFree DEF NextSlot
  <2> QED BY <1>1, <2>2
<1> DEFINE copies == [j \in {d} |-> [items[s] EXCEPT !.stack = n, !.slot = fresh]]
           both   == InsertAll(items, copies)
           u      == AddToStack(both, At(both, c, from, slot), -n)
<1>8. items' = u
  BY <1>3, <1>4, <1>6 DEF Transaction
<1>9. /\ DOMAIN both = DOMAIN items \cup {d}
      /\ both[d] = [items[s] EXCEPT !.stack = n, !.slot = fresh]
      /\ \A i \in DOMAIN items : both[i] = items[i]
  BY <1>6 DEF InsertAll
<1> HIDE DEF both
<1>10. At(both, c, from, slot) = {s}
  <2>1. both[d].slot = fresh
    BY <1>5, <1>9 DEF Row
  <2> QED BY <1>1, <1>7, <1>9, <2>1 DEF At, In
<1>11. Plus(items[s].stack, -n) = items[s].stack - n
  BY <1>5, <1>6, TableAssumption DEF Plus
<1>12. /\ DOMAIN u = DOMAIN items \cup {d}
       /\ u[d] = [items[s] EXCEPT !.stack = n, !.slot = fresh]
       /\ u[s] = [items[s] EXCEPT !.stack = items[s].stack - n]
       /\ \A i \in DOMAIN items \ {s} : u[i] = items[i]
  BY <1>6, <1>9, <1>10, <1>11 DEF AddToStack
<1> HIDE DEF u
<1>13. IsTable(u)
  BY <1>8, SplitStackStep DEF IInv, TablesOK, Clean
<1>14. /\ u[d].owner = c /\ u[d].key = items[s].key /\ u[d].stack = n
       /\ u[s].owner = c /\ u[s].key = items[s].key /\ u[s].stack = items[s].stack - n
  BY <1>5, <1>6, <1>12 DEF Row
<1>15. \A i \in DOMAIN u : u[i].stack \in Nat
  <2>1. items[s].stack - n \in Nat
    BY <1>5, <1>6
  <2> QED BY <1>5, <1>6, <1>12, <1>14, <2>1
<1> DEFINE key == items[s].key
<1>16. Amount(items, c, key)[s] = Amount(u, c, key)[s] + n
  <2>1. Amount(items, c, key)[s] = items[s].stack
    BY <1>6 DEF Amount
  <2>2. Amount(u, c, key)[s] = items[s].stack - n
    BY <1>6, <1>12, <1>14 DEF Amount
  <2>3. items[s].stack \in Nat /\ n \in Nat
    BY <1>5, <1>6
  <2> QED BY <2>1, <2>2, <2>3
<1>17. Amount(u, c, key)[d] = Amount(items, c, key)[d] + n
  <2>1. Amount(items, c, key)[d] = 0
    BY <1>6 DEF Amount
  <2>2. Amount(u, c, key)[d] = n
    BY <1>6, <1>12, <1>14 DEF Amount
  <2> QED BY <1>6, <2>1, <2>2
<1>18. ASSUME NEW k, NEW i \in RowIds, k # key \/ i \notin {s, d}
       PROVE  Amount(u, c, k)[i] = Amount(items, c, k)[i]
  BY <1>6, <1>12, <1>14, <1>18 DEF Amount
<1> HIDE DEF key
<1>19. SameUnits(items, u, c)
  BY <1>5, <1>6, <1>13, <1>15, <1>16, <1>17, <1>18, TransferKeepsUnits
<1> QED BY <1>8, <1>19 DEF SameUnits, KeepsUnits, WholeStacks

\* No split and no join loses or makes a unit.
THEOREM StacksAreKept == Spec => StacksKeepUnits
<1> DEFINE A == WholeStacks =>
                  \A c \in Chars :
                    \/ KeepsUnits(c)
                    \/ ~\E ref \in FromRefs, slot \in MsgSlots :
                           /\ OneRow(c, GetFromContainerId(c, ref), slot)
                           /\ \/ \E n \in MsgStacks : SplitsRow(c, ref, slot, n)
                              \/ \E ref2 \in FromRefs, slot2 \in MsgSlots :
                                   JoinsRows(c, ref, slot, ref2, slot2)
                              \/ \E newSlot \in MsgSlots :
                                   MoveJoinsRows(c, ref, slot, newSlot)
<1>1. IInv => A
  BY SplitStackUnits, JoinStacksUnits, MoveJoinsUnits
<1>2. IInv /\ [Next]_vars => [A]_vars
  BY <1>1
<1> QED BY <1>2, Invariance, PTL DEF Spec, StacksKeepUnits
=============================================================================
