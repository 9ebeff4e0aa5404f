---------------------------- MODULE MCInventory ----------------------------
(***************************************************************************)
(* InventoryView for TLC: symmetry of the row ids, a bound on the stacks,  *)
(* and what the runs leave out.                                            *)
(***************************************************************************)
EXTENDS InventoryView, TLC

CONSTANT MaxStack   \* bounds the stacks a run distinguishes

\* Which row id a new row gets is irrelevant, and so are the names of keys
\* with the same flags; no property depends on either.
RowSymmetry == Permutations(RowIds)
Symmetry == RowSymmetry \cup Permutations(Chars)

BoundedStacks ==
  \A i \in DOMAIN items :
    items[i].stack = NULL \/ items[i].stack \in -1..MaxStack

\* Moving a stack onto one of its type keeps every unit ("join them and delete
\* the old one"), where the table has one row in the source slot.
JoinKeepsUnits ==
  [][WholeStacks =>
     \A c \in Chars, ref \in FromRefs, slot, newSlot \in MsgSlots :
       OneRow(c, GetFromContainerId(c, ref), slot)
       /\ MoveJoins(c, ref, slot, INV_TOONINV, newSlot) => KeepsUnits(c)]_vars

(***************************************************************************)
(* Sub-specifications.  While a trade loop runs no message is handled, so  *)
(* what the loops do depends only on the tables they start from: TradeNext *)
(* and ShopNext keep every trade message and enough others to reach those  *)
(* tables, and ItemNext has the messages that no trade is part of.         *)
(***************************************************************************)
Refs == {ref \in FromRefs : ref.at = "temp" \/ ref.id \in {INV_TOONINV, NoContainer}}

TradeNext ==
  \/ \E c \in Chars :
       \/ TradeMessage(c) \/ NewItemMessage(c)
       \/ \E slot \in MsgSlots :
            \E bag \in Backpacks : BackpackBought(c, bag, BagKey, slot)
       \/ \E ref \in Refs : ActionOnUnknownContainer(c, ref)
       \/ \E bag \in Backpacks, t \in TempIds : Container(c, bag, t)
  \/ TaskStep
  \/ Restart

TradeSpec == Init /\ [][TradeNext]_vars

ShopNext ==
  \/ \E c \in Chars :
       \/ TradeMessage(c) \/ NewItemMessage(c) \/ BulkMessage(c) \/ StackMessage(c)
       \/ \E ref \in Refs, slot \in MsgSlots : PlainMove(c, ref, slot, INV_TOONINV, AnySlot)
  \/ TaskStep
  \/ Restart

ShopSpec == Init /\ [][ShopNext]_vars

\* Moves, stacks, new items and whole containers, and the user's deletions.
ItemNext ==
  \/ \E c \in Chars :
       \/ MoveMessage(c) \/ StackMessage(c) \/ NewItemMessage(c) \/ BulkMessage(c)
  \/ CleanupDB
  \/ \E ids \in SUBSET DOMAIN items : DeleteSelected(ids)
  \/ Restart

ItemSpec == Init /\ [][ItemNext]_vars
=============================================================================
