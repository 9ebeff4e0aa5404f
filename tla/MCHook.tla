------------------------------- MODULE MCHook -------------------------------
(***************************************************************************)
(* HookFilter for TLC: names of keys of different lengths.                 *)
(***************************************************************************)
EXTENDS HookFilter

NameLength == [id \in Ids |-> id]
=============================================================================
