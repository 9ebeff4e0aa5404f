-------------------------- MODULE ItemList_proofs ---------------------------
(***************************************************************************)
(* Proofs about ItemList, for any characters, items and texts: a list that *)
(* is as stale as can be never deletes a row the user was not asked about. *)
(*                                                                         *)
(* The property is about one step, and follows from ListInv in the state   *)
(* before: an id in the list, or in the question, was given once and for   *)
(* all (GivenOnce), so it means the item it meant when the list was read;  *)
(* and what is highlighted while the message box is open is what it was    *)
(* about, or nothing (AskedOrNothing).                                     *)
(***************************************************************************)
EXTENDS ItemList, FiniteSetTheorems, TLAPS

SameItem(t, n, e) ==
  /\ e.idx \in RowIds /\ e.idx <= n
  /\ e.idx \in DOMAIN t => t[e.idx].key = e.key

GivenOnce ==
  /\ \A i \in DOMAIN table : i <= lastIdx
  /\ \A n \in DOMAIN list : SameItem(table, lastIdx, list[n])
  /\ asked # Closed => \A e \in asked : SameItem(table, lastIdx, e)

AskedOrNothing == asked # Closed => selected = {} \/ asked = Highlighted

ListInv == ListTypeOK /\ GivenOnce /\ AskedOrNothing

-----------------------------------------------------------------------------
LEMMA IdsAreNumbers == RowIds \subseteq Nat \ {0}
<1>1. Cardinality(RowIds) \in Nat
  BY TableAssumption, FS_CardinalityType
<1> QED BY <1>1, ListAssumption

\* A query gives entries of rows that are there, as they are there.
LEMMA ResultsAreListed ==
  ASSUME NEW t, IsTable(t), NEW p, NEW l \in Results(t, p)
  PROVE  /\ l \in Seq(Listed)
         /\ \A n \in DOMAIN l : l[n].idx \in DOMAIN t /\ l[n].key = t[l[n].idx].key
<1> DEFINE S == Found(t, p)
<1>1. S \subseteq Listed /\ \A e \in S : e.idx \in DOMAIN t /\ e.key = t[e.idx].key
  BY DEF IsTable, Row, Found, Entry, Listed
<1>2. IsFiniteSet(S)
  <2> DEFINE R == {j \in DOMAIN t : Matches(t, j, p)}
  <2>1. IsFiniteSet(R)
    BY TableAssumption, FS_Subset DEF IsTable
  <2> DEFINE f == [j \in R |-> Entry(t, j)]
  <2>2. f \in Surjection(R, S)
    BY DEF Surjection, Found
  <2> QED BY <2>1, <2>2, FS_Surjection
<1>3. Cardinality(S) \in Nat
  BY <1>2, FS_CardinalityType
<1>4. l \in [1..Cardinality(S) -> S]
  BY DEF Results, Bijection, Injection, Surjection
<1> HIDE DEF S
<1>5. l \in Seq(S)
  BY <1>3, <1>4
<1> QED BY <1>1, <1>4, <1>5

\* The entries of a list read from the table stay the same items.
LEMMA ResultsAreSame ==
  ASSUME NEW t, IsTable(t), NEW n \in Nat, \A i \in DOMAIN t : i <= n,
         NEW p, NEW l \in Results(t, p)
  PROVE  \A m \in DOMAIN l : SameItem(t, n, l[m])
BY ResultsAreListed DEF SameItem, IsTable

-----------------------------------------------------------------------------
\* A step that changes nothing but the table, and gives new rows new ids.
LEMMA DataStep ==
  ASSUME ListInv,
         IsTable(table'), lastIdx' \in RowIds \cup {0}, lastIdx <= lastIdx',
         toons' \subseteq Chars,
         \A i \in DOMAIN table' :
           /\ i <= lastIdx'
           /\ i \in DOMAIN table => table'[i].key = table[i].key
           /\ i \notin DOMAIN table => lastIdx < i,
         UNCHANGED <<view, asked, find>>
  PROVE  ListInv'
<1>1. ListTypeOK'
  BY DEF ListInv, ListTypeOK, view, find
<1>2. ASSUME NEW e, SameItem(table, lastIdx, e)
      PROVE  SameItem(table', lastIdx', e)
  <2>1. e.idx \in RowIds /\ e.idx <= lastIdx
    BY <1>2 DEF SameItem
  <2> DEFINE x == e.idx
  <2>2. x \in Nat /\ lastIdx \in Nat /\ lastIdx' \in Nat
    <3>1. lastIdx \in RowIds \cup {0}
      BY DEF ListInv, ListTypeOK
    <3> HIDE DEF x
    <3>2. x \in RowIds
      BY <2>1 DEF x
    <3> QED BY <3>1, <3>2, IdsAreNumbers
  <2>3. ASSUME e.idx \in DOMAIN table' PROVE table'[e.idx].key = e.key
    <3>1. CASE e.idx \in DOMAIN table
      BY <1>2, <2>3, <3>1 DEF SameItem
    <3>2. CASE e.idx \notin DOMAIN table
      <4>1. lastIdx < e.idx
        BY <2>3, <3>2
      <4> QED BY <2>1, <2>2, <4>1
    <3> QED BY <3>1, <3>2
  <2>4. e.idx <= lastIdx'
    BY <2>1, <2>2
  <2> QED BY <2>1, <2>3, <2>4 DEF SameItem
<1>3. GivenOnce'
  <2>1. \A m \in DOMAIN list : SameItem(table', lastIdx', list[m])
    BY <1>2 DEF ListInv, GivenOnce
  <2>2. asked # Closed => \A e \in asked : SameItem(table', lastIdx', e)
    BY <1>2 DEF ListInv, GivenOnce
  <2> QED BY <2>1, <2>2 DEF GivenOnce, view
<1>4. AskedOrNothing'
  BY DEF ListInv, AskedOrNothing, Highlighted, view
<1> QED BY <1>1, <1>3, <1>4 DEF ListInv

\* A query over the table as it is, behind which nothing stays highlighted
\* that the question was not about.
LEMMA QueryStep ==
  ASSUME ListInv, UNCHANGED data,
         NEW p \in Predicate, list' \in Results(table, p), where' \in Predicate,
         selected' \subseteq DOMAIN list',
         asked' = asked, asked # Closed => selected' = {},
         edit' \in Query, lastQuery' \in Query, timer' \in BOOLEAN
  PROVE  ListInv'
<1>1. IsTable(table) /\ lastIdx \in Nat
  BY IdsAreNumbers DEF ListInv, ListTypeOK
<1>2. ListTypeOK'
  BY <1>1, ResultsAreListed DEF ListInv, ListTypeOK, data
<1>3. \A m \in DOMAIN list' : SameItem(table, lastIdx, list'[m])
  BY <1>1, ResultsAreSame DEF ListInv, GivenOnce
<1>4. GivenOnce'
  BY <1>3 DEF ListInv, GivenOnce, data
<1> QED BY <1>2, <1>4 DEF ListInv, AskedOrNothing

LEMMA DeleteKeeps ==
  ASSUME ListInv, NEW ids
  PROVE  /\ IsTable(Delete(table, ids))
         /\ DOMAIN Delete(table, ids) = DOMAIN table \ ids
         /\ \A i \in DOMAIN Delete(table, ids) :
              i <= lastIdx /\ i \in DOMAIN table /\ Delete(table, ids)[i] = table[i]
BY DEF ListInv, ListTypeOK, GivenOnce, IsTable, Delete

\* A delete outside of the list.
LEMMA DeleteStep ==
  ASSUME ListInv, NEW ids, table' = Delete(table, ids), lastIdx' = lastIdx,
         toons' \subseteq Chars, UNCHANGED <<view, asked, find>>
  PROVE  ListInv'
<1>1. lastIdx \in RowIds \cup {0} /\ lastIdx <= lastIdx
  BY IdsAreNumbers DEF ListInv, ListTypeOK
<1> QED BY <1>1, DeleteKeeps, DataStep

-----------------------------------------------------------------------------
LEMMA MessagePreserves == ListInv /\ Message => ListInv'
<1> SUFFICES ASSUME ListInv, Message PROVE ListInv'
  OBVIOUS
<1> USE DEF data, find
<1>1. ASSUME NEW row \in NewRows, ItemInserted(row) PROVE ListInv'
  <2>1. row \in Row
    BY ListAssumption
  <2>2. IsTable(table')
    BY <1>1, <2>1 DEF ItemInserted, InsertItem, IsTable, ListInv, ListTypeOK
  <2>3. lastIdx' = lastIdx + 1 /\ lastIdx' \in RowIds /\ lastIdx \in Nat
    BY <1>1, IdsAreNumbers DEF ItemInserted, ListInv, ListTypeOK
  <2>4. lastIdx' \notin DOMAIN table
    BY <2>3, IdsAreNumbers DEF ListInv, GivenOnce, ListTypeOK, IsTable
  <2>5. \A i \in DOMAIN table' :
          /\ i <= lastIdx'
          /\ i \in DOMAIN table => table'[i].key = table[i].key
          /\ i \notin DOMAIN table => lastIdx < i
    <3>1. DOMAIN table' = DOMAIN table \cup {lastIdx'}
      BY <1>1 DEF ItemInserted, InsertItem
    <3>2. \A i \in DOMAIN table : table'[i] = table[i]
      BY <1>1, <2>4 DEF ItemInserted, InsertItem
    <3> QED
      BY <2>3, <3>1, <3>2, IdsAreNumbers DEF ListInv, GivenOnce, ListTypeOK, IsTable
  <2>6. toons' \subseteq Chars
    BY <1>1 DEF ItemInserted, ListInv, ListTypeOK
  <2> QED BY <1>1, <2>2, <2>3, <2>5, <2>6, DataStep DEF ItemInserted
<1>2. ASSUME NEW i \in DOMAIN table, ItemRemoved(i) PROVE ListInv'
  BY <1>2, DeleteStep DEF ItemRemoved, ListInv, ListTypeOK
<1>3. ASSUME NEW i \in DOMAIN table, NEW box \in Boxes, ItemMoved(i, box) PROVE ListInv'
  <2>1. box \in Containers
    BY ListAssumption DEF Boxes, Row
  <2>2. IsTable(table')
    BY <1>3, <2>1 DEF ItemMoved, MoveTo, IsTable, Row, ListInv, ListTypeOK
  <2>3. \A j \in DOMAIN table' : j \in DOMAIN table /\ table'[j].key = table[j].key
    BY <1>3 DEF ItemMoved, MoveTo, IsTable, Row, ListInv, ListTypeOK
  <2>4. lastIdx \in RowIds \cup {0} /\ lastIdx <= lastIdx
    BY IdsAreNumbers DEF ListInv, ListTypeOK
  <2> QED
    BY <1>3, <2>2, <2>3, <2>4, DataStep DEF ItemMoved, ListInv, ListTypeOK, GivenOnce
<1>4. ASSUME NEW ch \in Chars, ToonNamed(ch) PROVE ListInv'
  <2>1. lastIdx \in RowIds \cup {0} /\ lastIdx <= lastIdx
    BY IdsAreNumbers DEF ListInv, ListTypeOK
  <2> QED BY <1>4, <2>1, DataStep DEF ToonNamed, ListInv, ListTypeOK, GivenOnce
<1> QED BY <1>1, <1>2, <1>3, <1>4 DEF Message

LEMMA TreePreserves == ListInv /\ Tree => ListInv'
<1> SUFFICES ASSUME ListInv, NEW ch \in Chars,
                    \/ SelectCharacter(ch) \/ DeleteToon(ch)
                    \/ \E box \in Boxes : SelectContainer(ch, box) \/ DeleteContainer(box)
             PROVE  ListInv'
  BY DEF Tree
<1>1. edit \in Query /\ lastQuery \in Query /\ timer \in BOOLEAN /\ toons \subseteq Chars
  BY DEF ListInv, ListTypeOK
<1>2. CASE SelectCharacter(ch)
  <2> DEFINE p == [owner |-> {ch}, parent |-> Containers, key |-> Keys]
  <2>1. p \in Predicate
    BY DEF Predicate
  <2> QED BY <1>1, <1>2, <2>1, QueryStep DEF SelectCharacter, UpdateListView, data, find
<1>3. CASE DeleteToon(ch)
  BY <1>1, <1>3, DeleteStep DEF DeleteToon
<1>4. ASSUME NEW box \in Boxes, SelectContainer(ch, box) PROVE ListInv'
  <2> DEFINE p == [owner |-> {ch}, parent |-> {box}, key |-> Keys]
  <2>1. p \in Predicate
    BY ListAssumption DEF Predicate, Boxes, Row
  <2> QED BY <1>1, <1>4, <2>1, QueryStep DEF SelectContainer, UpdateListView, data, find
<1>5. ASSUME NEW box \in Boxes, DeleteContainer(box) PROVE ListInv'
  BY <1>1, <1>5, DeleteStep DEF DeleteContainer
<1> QED BY <1>2, <1>3, <1>4, <1>5

LEMMA GridPreserves == ListInv /\ Grid => ListInv'
<1> SUFFICES ASSUME ListInv, Grid PROVE ListInv'
  OBVIOUS
<1>0. /\ edit \in Query /\ lastQuery \in Query /\ timer \in BOOLEAN
      /\ toons \subseteq Chars /\ where \in Predicate /\ list \in Seq(Listed)
      /\ selected \subseteq DOMAIN list
  BY DEF ListInv, ListTypeOK
<1>1. ASSUME NEW n \in DOMAIN list, DoubleClick(n) PROVE ListInv'
  <2> DEFINE p == [owner |-> {list[n].owner}, parent |-> {list[n].parent}, key |-> Keys]
  <2>1. list[n] \in Listed
    BY <1>0
  <2>2. p \in Predicate
    BY <2>1 DEF Predicate, Listed
  <2> QED BY <1>0, <1>1, <2>2, QueryStep DEF DoubleClick, UpdateListView, data, find
<1>2. ASSUME NEW lines \in SUBSET DOMAIN list, Highlight(lines) PROVE ListInv'
  BY <1>2 DEF Highlight, ListInv, ListTypeOK, GivenOnce, AskedOrNothing, data, find
<1>3. CASE ColumnClick
  BY <1>0, <1>3, QueryStep DEF ColumnClick, Requery, data, find
<1>4. CASE AskDelete
  <2>1. \A e \in Highlighted : e \in Listed /\ SameItem(table, lastIdx, e)
    BY <1>0 DEF Highlighted, ListInv, GivenOnce
  <2>2. ListTypeOK'
    BY <1>4, <2>1 DEF AskDelete, ListInv, ListTypeOK, data, view, find
  <2>3. GivenOnce'
    BY <1>4, <2>1 DEF AskDelete, ListInv, GivenOnce, data, view, find
  <2>4. AskedOrNothing'
    BY <1>4 DEF AskDelete, AskedOrNothing, Highlighted, view
  <2> QED BY <2>2, <2>3, <2>4 DEF ListInv
<1>5. CASE AnswerNo
  BY <1>5 DEF AnswerNo, ListInv, ListTypeOK, GivenOnce, AskedOrNothing, data, view, find
<1>6. CASE AnswerYes
  <2> DEFINE ids == {e.idx : e \in Highlighted}
  <2>1. table' = Delete(table, ids) /\ list' \in Results(table', where)
    BY <1>6 DEF AnswerYes, Requery
  <2>2. IsTable(table') /\ \A i \in DOMAIN table' : i <= lastIdx
    BY <2>1, DeleteKeeps
  <2>3. lastIdx \in Nat /\ lastIdx' = lastIdx
    BY <1>6, IdsAreNumbers DEF AnswerYes, ListInv, ListTypeOK
  <2>4. ListTypeOK'
    BY <1>0, <1>6, <2>1, <2>2, ResultsAreListed
       DEF AnswerYes, Requery, ListInv, ListTypeOK, find
  <2>5. \A m \in DOMAIN list' : SameItem(table', lastIdx, list'[m])
    BY <2>1, <2>2, <2>3, ResultsAreSame
  <2>6. GivenOnce' /\ AskedOrNothing'
    BY <1>6, <2>2, <2>3, <2>5 DEF AnswerYes, GivenOnce, AskedOrNothing
  <2> QED BY <2>4, <2>6 DEF ListInv
<1> QED BY <1>1, <1>2, <1>3, <1>4, <1>5, <1>6 DEF Grid

LEMMA FindQueryPreserves ==
  ASSUME ListInv, NEW e \in Query, edit' = e, UpdateFindQuery(e), UNCHANGED <<data, asked>>
  PROVE  ListInv'
<1>1. timer' = FALSE
  BY DEF UpdateFindQuery
<1>2. CASE e.text # Short /\ e # lastQuery
  <2> DEFINE p == [owner |-> IF e.char = AnyToon THEN Chars ELSE {e.char},
                   parent |-> Containers, key |-> Finds[e.text]]
  <2>1. p \in Predicate
    BY <1>2, ListAssumption DEF Query, Predicate
  <2>2. UpdateListView(p) /\ lastQuery' = e
    BY <1>2 DEF UpdateFindQuery
  <2> QED BY <1>1, <2>1, <2>2, QueryStep DEF UpdateListView
<1>3. CASE ~(e.text # Short /\ e # lastQuery)
  BY <1>1, <1>3
     DEF UpdateFindQuery, ListInv, ListTypeOK, GivenOnce, AskedOrNothing, Highlighted, data, view
<1> QED BY <1>2, <1>3

LEMMA FindPanelPreserves == ListInv /\ FindPanel => ListInv'
<1> SUFFICES ASSUME ListInv, FindPanel PROVE ListInv'
  OBVIOUS
<1>0. edit \in Query
  BY DEF ListInv, ListTypeOK
<1>1. ASSUME NEW text \in Texts \cup {Short}, TypeText(text) PROVE ListInv'
  BY <1>0, <1>1
     DEF TypeText, Query, ListInv, ListTypeOK, GivenOnce, AskedOrNothing, Highlighted, data, view
<1>2. ASSUME NEW ch \in Chars \cup {AnyToon}, ChooseCharacter(ch) PROVE ListInv'
  <2>1. edit' \in Query
    BY <1>0, <1>2 DEF ChooseCharacter, Query
  <2> QED BY <1>2, <2>1, FindQueryPreserves DEF ChooseCharacter
<1>3. CASE DropDown
  <2>1. edit' \in Query
    BY <1>0, <1>3 DEF DropDown, Query, ListInv, ListTypeOK
  <2> QED
    BY <1>3, <2>1
       DEF DropDown, ListInv, ListTypeOK, GivenOnce, AskedOrNothing, Highlighted, data, view
<1>4. CASE OnTimer
  BY <1>0, <1>4, FindQueryPreserves DEF OnTimer
<1> QED BY <1>1, <1>2, <1>3, <1>4 DEF FindPanel

-----------------------------------------------------------------------------
LEMMA ListInitInv == ListInit => ListInv
<1> SUFFICES ASSUME ListInit PROVE ListInv
  OBVIOUS
<1>1. IsTable(EmptyTable) /\ DOMAIN EmptyTable = {}
  BY DEF EmptyTable, IsTable
<1>2. NoPredicate \in Predicate /\ << >> \in Seq(Listed) /\ DOMAIN << >> = {}
  BY DEF NoPredicate, Predicate
<1> QED
  BY <1>1, <1>2
     DEF ListInit, ListInv, ListTypeOK, GivenOnce, AskedOrNothing, Query

LEMMA ListInvStep == ListInv /\ [ListNext]_vars => ListInv'
<1>1. ASSUME ListInv, UNCHANGED vars PROVE ListInv'
  BY <1>1 DEF ListInv, ListTypeOK, GivenOnce, AskedOrNothing, Highlighted, vars, data, view, find
<1> QED
  BY <1>1, MessagePreserves, TreePreserves, GridPreserves, FindPanelPreserves DEF ListNext

\* ListInv is inductive: whatever the messages, the tree and the find panel do,
\* an id of the list or of an open question still means the item it meant.
THEOREM ListInvariant == ListSpec => []ListInv
BY ListInitInv, ListInvStep, PTL DEF ListSpec

\* Types, for any characters, items and texts: every highlighted position has
\* a line of the list behind it.
THEOREM ListTypeCorrect == ListSpec => []ListTypeOK
<1>1. ListInv => ListTypeOK
  BY DEF ListInv
<1> QED BY <1>1, ListInvariant, PTL

\* The answer yes deletes rows the user was asked about and no others, and all
\* of them unless a search replaced the list while the message box was open.
THEOREM DeletesWhatWasAskedHolds == ListSpec => DeletesWhatWasAsked
<1> DEFINE gone == {[idx |-> i, key |-> table[i].key] : i \in DOMAIN table \ DOMAIN table'}
           want == {[idx |-> e.idx, key |-> e.key] : e \in asked}
           Once == AnswerYes =>
                     /\ gone \subseteq want
                     /\ selected # {} => {e.idx : e \in asked} \cap DOMAIN table' = {}
<1>1. ListInv /\ [ListNext]_vars => [Once]_vars
  <2> SUFFICES ASSUME ListInv, AnswerYes
               PROVE  /\ gone \subseteq want
                      /\ selected # {} => {e.idx : e \in asked} \cap DOMAIN table' = {}
    OBVIOUS
  <2> DEFINE ids == {e.idx : e \in Highlighted}
  <2>1. asked # Closed /\ table' = Delete(table, ids)
    BY DEF AnswerYes
  <2>2. DOMAIN table' = DOMAIN table \ ids
    BY <2>1, DeleteKeeps
  <2>3. selected = {} \/ asked = Highlighted
    BY <2>1 DEF ListInv, AskedOrNothing
  <2>4. \A e \in asked : e.idx \in DOMAIN table => table[e.idx].key = e.key
    BY <2>1 DEF ListInv, GivenOnce, SameItem
  <2>5. selected = {} => ids = {}
    BY DEF Highlighted
  <2>6. ASSUME NEW i \in DOMAIN table \ DOMAIN table'
        PROVE  [idx |-> i, key |-> table[i].key] \in want
    <3>1. i \in ids
      BY <2>2, <2>6
    <3>2. PICK e \in asked : e.idx = i
      BY <2>3, <2>5, <3>1
    <3> QED BY <2>4, <2>6, <3>2
  <2>7. selected # {} => {e.idx : e \in asked} \cap DOMAIN table' = {}
    BY <2>2, <2>3
  <2> QED BY <2>6, <2>7
<1> QED BY <1>1, ListInvariant, PTL DEF ListSpec, DeletesWhatWasAsked
=============================================================================
