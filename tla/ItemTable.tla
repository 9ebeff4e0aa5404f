----------------------------- MODULE ItemTable -----------------------------
(***************************************************************************)
(* The table tItems of ItemAssistant.db and the statements the program     *)
(* runs on it.  A table is a function from row ids (itemidx) to rows, so   *)
(* that an UPDATE keeps a row's identity and a DELETE removes it.          *)
(*                                                                         *)
(* A row keeps the columns the handlers read or write.  keylow, keyhigh    *)
(* and ql always travel together and are one "key"; flags is never read    *)
(* back by a handler and is left out.                                      *)
(***************************************************************************)
EXTENDS Integers, FiniteSets

CONSTANTS
  Chars,         \* characters: values of the owner column
  RowIds,        \* the row ids a model may use (bounds the table)
  Keys,          \* item types: (keylow, keyhigh, ql)
  Backpacks,     \* container ids of backpacks: values of the children column
  FirstInvSlot,  \* 64 in the code: slots below are the equipment pages
  NULL           \* SQL NULL, what stack arithmetic yields on a missing row

\* InventoryIDs.h: the containers that have a fixed id.
INV_BANK             == 1
INV_TOONINV          == 2
INV_PLAYERSHOP       == 3
INV_TRADE            == 4
INV_TRADEPARTNER     == 5
INV_OVERFLOW         == 6
INV_HOTSWAPTEMP      == 7
INV_OTHER_PLAYERSHOP == 8

NoContainer == 0   \* "not found", and the children value of a plain item

ASSUME TableAssumption ==
  /\ IsFiniteSet(RowIds)
  /\ Backpacks \subseteq {b \in Nat : b > INV_OTHER_PLAYERSHOP}
  /\ FirstInvSlot \in Nat \ {0}
  /\ NULL \notin Int

Containers == (INV_BANK..INV_OTHER_PLAYERSHOP) \cup Backpacks
Stacks     == Int \cup {NULL}

Row == [key : Keys, stack : Stacks, parent : Containers, slot : Nat,
        children : Backpacks \cup {NoContainer}, owner : Chars]

IsTable(t) == /\ DOMAIN t \subseteq RowIds
              /\ t \in [DOMAIN t -> Row]

EmptyTable == [i \in {} |-> 0]

-----------------------------------------------------------------------------
\* WHERE clauses: sets of row ids.

In(t, c, box)       == {i \in DOMAIN t : t[i].owner = c /\ t[i].parent = box}
At(t, c, box, slot) == {i \in In(t, c, box) : t[i].slot = slot}
FreeIds(t)          == RowIds \ DOMAIN t

\* INSERT, DELETE and the UPDATEs of parent and slot.
InsertItem(t, i, row) ==
  [j \in DOMAIN t \cup {i} |-> IF j = i THEN row ELSE t[j]]

InsertAll(t, new) ==
  [j \in DOMAIN t \cup DOMAIN new |-> IF j \in DOMAIN new THEN new[j] ELSE t[j]]

Delete(t, ids) == [j \in DOMAIN t \ ids |-> t[j]]

MoveTo(t, ids, box, slot) ==
  [j \in DOMAIN t |->
     IF j \in ids THEN [t[j] EXCEPT !.parent = box, !.slot = slot] ELSE t[j]]

\* UPDATE of the stack column; NULL is absorbing as in SQL.
Plus(m, n) == IF m = NULL \/ n = NULL THEN NULL ELSE m + n

AddToStack(t, ids, n) ==
  [j \in DOMAIN t |->
     IF j \in ids THEN [t[j] EXCEPT !.stack = Plus(@, n)] ELSE t[j]]

\* The scalar subquery (SELECT stack ... LIMIT 1): NULL when no row matches.
StackOf(t, ids) == IF ids = {} THEN {NULL} ELSE {t[i].stack : i \in ids}

-----------------------------------------------------------------------------
(***************************************************************************)
(* DBManager::FindNextAvailableContainerSlot.  The code walks the box's    *)
(* slots in ascending order beside a counter that starts at the box's      *)
(* first slot, and stops at the first row whose slot is above the counter. *)
(* That is the least p with at most p - first rows at or below p.  With no *)
(* row at all it returns 0, whatever the box.                              *)
(***************************************************************************)
FirstSlot(box) == IF box = INV_TOONINV THEN FirstInvSlot ELSE 0

Counted(t, c, box) == {i \in In(t, c, box) : t[i].slot >= FirstSlot(box)}

\* Mutant: the walk stops at a row whose slot equals the counter.
UpToExclusive(t, c, box, p) == {i \in Counted(t, c, box) : t[i].slot < p}

UpTo(t, c, box, p) == {i \in Counted(t, c, box) : t[i].slot <= p}

Candidates(t, c, box) ==
  {p \in FirstSlot(box)..(FirstSlot(box) + Cardinality(Counted(t, c, box))) :
     Cardinality(UpTo(t, c, box, p)) <= p - FirstSlot(box)}

FindNextAvailableContainerSlot(t, c, box) ==
  IF Counted(t, c, box) = {}
  THEN 0
  ELSE CHOOSE p \in Candidates(t, c, box) :
         \A q \in Candidates(t, c, box) : p <= q

\* The loop itself, over the rows in an order that ORDER BY slot allows: the
\* counter before the k-th row is FirstSlot(box) + k - 1.
SlotOrders(t, ids) ==
  LET n == Cardinality(ids)
  IN  {rows \in [1..n -> ids] :
         \A k, m \in 1..n :
           k < m => rows[k] # rows[m] /\ t[rows[k]].slot <= t[rows[m]].slot}

Walk(t, c, box, rows) ==
  LET n == Cardinality(Counted(t, c, box))
      stops == {k \in 1..n : FirstSlot(box) + k - 1 < t[rows[k]].slot}
  IN  IF n = 0 THEN 0
      ELSE IF stops = {} THEN FirstSlot(box) + n
      ELSE FirstSlot(box) - 1 + (CHOOSE k \in stops : \A m \in stops : k <= m)

\* DBManager::FindFirstItemOfSameType: the lowest slot of box that holds the
\* source's type; 0 when there is none.
SameType(t, c, src, box) ==
  {i \in In(t, c, box) : \E s \in src : t[s].key = t[i].key}

FindFirstItemOfSameType(t, c, src, box) ==
  IF SameType(t, c, src, box) = {}
  THEN 0
  ELSE CHOOSE n \in {t[i].slot : i \in SameType(t, c, src, box)} :
         \A i \in SameType(t, c, src, box) : n <= t[i].slot

\* InventoryView::CleanupDB: rows of c in a container that no row carries.
Orphans(t, c) ==
  {i \in DOMAIN t : /\ t[i].owner = c
                    /\ t[i].parent > INV_PLAYERSHOP
                    /\ t[i].parent \notin {t[j].children : j \in DOMAIN t}}
=============================================================================
