---------------------------- MODULE MCExtraction ----------------------------
(***************************************************************************)
(* Extraction for TLC: two files and three indexes.  In the first the     *)
(* last item is the first record of a file and a nano lies on the last     *)
(* page of one; in the second the nanos begin in the file before that of   *)
(* the last item; the third has a block that ends with the index, with an  *)
(* item behind the last that is read.                                      *)
(***************************************************************************)
EXTENDS Extraction, TLC

Item(o) == [kind |-> "item", offset |-> o]
Nano(o) == [kind |-> "nano", offset |-> o]

\* Two blocks of four units, linked in either order.
Index(size, at, first, then, second) ==
  [size |-> size, first |-> at,
   blocks |-> (at :> [next |-> then, entries |-> first])
              @@ (then :> [next |-> 0, entries |-> second])]

MCSize == <<5, 4>>
MCIndexes ==
  { Index(13, 8, {Item(1), Item(5)}, 4, {Nano(2), Nano(4)}),
    Index(13, 8, {Item(6), Nano(1)}, 4, {Item(2), Nano(7)}),
    Index(12, 4, {Item(1), Item(5), Nano(2), Nano(6)}, 8, {Item(7)}) }
=============================================================================
