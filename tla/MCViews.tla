------------------------------ MODULE MCViews -------------------------------
(***************************************************************************)
(* One character with a backpack, two kinds of items of which a search     *)
(* finds one each.                                                         *)
(***************************************************************************)
EXTENDS ItemList

CONSTANTS c, k1, k2, t1, t2

MCFinds == [t \in Texts |-> IF t = t1 THEN {k1} ELSE {k2}]

Item(key, box, child) ==
  [key |-> key, stack |-> 1, parent |-> box, slot |-> FirstInvSlot,
   children |-> child, owner |-> c]

MCNewRows == {Item(k1, INV_TOONINV, NoContainer), Item(k2, 1024, NoContainer)}
=============================================================================
