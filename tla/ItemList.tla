------------------------------ MODULE ItemList ------------------------------
(***************************************************************************)
(* The list of the inventory tab.  Its model is a snapshot of the rows a   *)
(* query gave (ItemListDataModel); the tree, a double click and the find   *)
(* panel replace it (UpdateListView), a click on a column header and a     *)
(* delete run its query again.  The game's messages change the table       *)
(* underneath and never refresh the list.  The grid's selection is a set   *)
(* of positions, not of rows.                                              *)
(*                                                                         *)
(* All of it runs in the window's thread, but the message box of OnDelete  *)
(* runs a message loop of its own: until it is answered the user reaches   *)
(* nothing else, while the game's messages and the find panel's timer are  *)
(* dispatched as ever.                                                     *)
(*                                                                         *)
(* ORDER BY is abstracted to an arbitrary order, the columns of a listed   *)
(* row to its id, its item and where it is.  The levels of quality in the  *)
(* find panel go the way of its character and are left out.                *)
(***************************************************************************)
EXTENDS ItemTable, Sequences, Functions

CONSTANTS
  Texts,      \* texts the user may type that are longer than two characters
  Finds,      \* Finds[t]: the items whose name contains t
  NewRows,    \* rows the game's messages may insert
  Closed      \* the message box is not there

\* RowIds are the values of itemidx: an AUTOINCREMENT column counts up.
ASSUME ListAssumption ==
  /\ RowIds = 1..Cardinality(RowIds)
  /\ NewRows \subseteq Row
  /\ Finds \in [Texts -> SUBSET Keys]

VARIABLES
  table,      \* tItems
  lastIdx,    \* the greatest itemidx ever given
  toons,      \* the characters in tToons
  list,       \* m_result of the model
  where,      \* m_lastPredicate of the model
  selected,   \* the highlighted positions of the grid
  asked,      \* history: what was highlighted when the message box opened
  edit,       \* the find panel's text and character
  lastQuery,  \* m_lastQueryText, m_lastQueryChar
  timer       \* SetTimer(1) is running

data  == <<table, lastIdx, toons>>
view  == <<list, where, selected>>
find  == <<edit, lastQuery, timer>>
vars  == <<data, view, asked, find>>

Short     == "short"   \* a text of at most two characters
AnyToon   == "-"       \* the first entry of the find panel's combo box
Query     == [text : Texts \cup {Short}, char : Chars \cup {AnyToon}]
Predicate == [owner : SUBSET Chars, parent : SUBSET Containers, key : SUBSET Keys]
Listed    == [idx : RowIds, key : Keys, owner : Chars, parent : Containers]

NoPredicate == [owner |-> {}, parent |-> {}, key |-> {}]

-----------------------------------------------------------------------------
\* runQuery: the rows that match, each once.  The join with tToons leaves
\* out the rows of a character that is not there.
Matches(t, i, p) == /\ t[i].owner \in p.owner \cap toons
                    /\ t[i].parent \in p.parent
                    /\ t[i].key \in p.key

Entry(t, i) ==
  [idx |-> i, key |-> t[i].key, owner |-> t[i].owner, parent |-> t[i].parent]

Found(t, p) == {Entry(t, i) : i \in {j \in DOMAIN t : Matches(t, j, p)}}

Results(t, p) == Bijection(1..Cardinality(Found(t, p)), Found(t, p))

Highlighted == {list[n] : n \in selected}

\* UpdateListView: a new model; setModel empties the grid, and the selection
\* goes with its lines.
\* Mutant: the lines of the grid are reused.
UpdateKeepsSelection(p) ==
  /\ where' = p
  /\ list' \in Results(table, p)
  /\ selected' = selected \cap DOMAIN list'

UpdateListView(p) ==
  /\ where' = p
  /\ list' \in Results(table, p)
  /\ selected' = {}

\* The query of the model is run again on the table t.  The grid only learns
\* the number of lines: a position stays highlighted while there is a line.
Requery(t) ==
  /\ list' \in Results(t, where)
  /\ UNCHANGED where

-----------------------------------------------------------------------------
\* Selections in the tree, and a double click on a line in a backpack.
SelectCharacter(c) ==
  /\ asked = Closed
  /\ UpdateListView([owner |-> {c}, parent |-> Containers, key |-> Keys])
  /\ UNCHANGED <<data, asked, find>>

SelectContainer(c, box) ==
  /\ asked = Closed
  /\ UpdateListView([owner |-> {c}, parent |-> {box}, key |-> Keys])
  /\ UNCHANGED <<data, asked, find>>

DoubleClick(n) ==
  /\ asked = Closed
  /\ list[n].parent \in Backpacks
  /\ UpdateListView([owner |-> {list[n].owner}, parent |-> {list[n].parent}, key |-> Keys])
  /\ UNCHANGED <<data, asked, find>>

Highlight(lines) ==
  /\ asked = Closed
  /\ selected' = lines
  /\ UNCHANGED <<data, list, where, asked, find>>

\* sortData.
\* Mutant: the count of lines that the grid is told does not reach its selection.
ColumnClickKeepsAll ==
  /\ asked = Closed
  /\ where # NoPredicate
  /\ Requery(table)
  /\ UNCHANGED <<data, selected, asked, find>>

ColumnClick ==
  /\ asked = Closed
  /\ where # NoPredicate
  /\ Requery(table)
  /\ selected' = selected \cap DOMAIN list'
  /\ UNCHANGED <<data, asked, find>>

\* OnDelete: the question, and the answer.  The ids are read after the answer.
AskDelete ==
  /\ asked = Closed
  /\ selected # {}
  /\ asked' = Highlighted
  /\ UNCHANGED <<data, view, find>>

AnswerNo ==
  /\ asked # Closed
  /\ asked' = Closed
  /\ UNCHANGED <<data, view, find>>

AnswerYes ==
  /\ asked # Closed
  /\ asked' = Closed
  /\ table' = Delete(table, {e.idx : e \in Highlighted})
  /\ selected' = {}
  /\ Requery(table')
  /\ UNCHANGED <<lastIdx, toons, find>>

\* "Delete Items From DB" and "Delete Toon" in the tree: the list stays.
DeleteContainer(box) ==
  /\ asked = Closed
  /\ table' = Delete(table, {i \in DOMAIN table : table[i].parent = box \/ table[i].children = box})
  /\ UNCHANGED <<lastIdx, toons, view, asked, find>>

DeleteToon(c) ==
  /\ asked = Closed
  /\ table' = Delete(table, {i \in DOMAIN table : table[i].owner = c})
  /\ toons' = toons \ {c}
  /\ UNCHANGED <<lastIdx, view, asked, find>>

-----------------------------------------------------------------------------
\* UpdateFindQuery, for a panel that shows e: a short text and the query that
\* was run last are passed over, and the timer ends in any case.
\* Mutant: a query runs only if both of its parts are new.
QueryIfAllNew(e) ==
  /\ timer' = FALSE
  /\ IF e.text # Short /\ e.text # lastQuery.text /\ e.char # lastQuery.char
     THEN /\ lastQuery' = e
          /\ UpdateListView([owner |-> IF e.char = AnyToon THEN Chars ELSE {e.char},
                             parent |-> Containers, key |-> Finds[e.text]])
     ELSE UNCHANGED <<lastQuery, view>>

UpdateFindQuery(e) ==
  /\ timer' = FALSE
  /\ IF e.text # Short /\ e # lastQuery
     THEN /\ lastQuery' = e
          /\ UpdateListView([owner |-> IF e.char = AnyToon THEN Chars ELSE {e.char},
                             parent |-> Containers, key |-> Finds[e.text]])
     ELSE UNCHANGED <<lastQuery, view>>

\* OnEnChangeItemtext starts the timer anew.
TypeText(text) ==
  /\ asked = Closed
  /\ edit' = [edit EXCEPT !.text = text]
  /\ timer' = TRUE
  /\ UNCHANGED <<data, view, asked, lastQuery>>

ChooseCharacter(c) ==
  /\ asked = Closed
  /\ edit' = [edit EXCEPT !.char = c]
  /\ UpdateFindQuery(edit')
  /\ UNCHANGED <<data, asked>>

\* OnCbnDropdown fills the combo box again; a character that is gone gives
\* way to the first entry, without a query.
DropDown ==
  /\ asked = Closed
  /\ edit' = [edit EXCEPT !.char = IF @ \in toons THEN @ ELSE AnyToon]
  /\ UNCHANGED <<data, view, asked, lastQuery, timer>>

OnTimer ==
  /\ timer
  /\ UpdateFindQuery(edit)
  /\ UNCHANGED <<data, asked, edit>>

-----------------------------------------------------------------------------
\* What the game's messages do to the table, one row at a time: they come
\* while the message box is open, too.
\* Mutant: the column gives the lowest id that is free.
InsertReusesIds(row) ==
  \E i \in RowIds \ DOMAIN table :
    /\ \A j \in 1..(i - 1) : j \in DOMAIN table
    /\ table' = InsertItem(table, i, row)
    /\ UNCHANGED <<lastIdx, toons, view, asked, find>>

ItemInserted(row) ==
  /\ lastIdx + 1 \in RowIds
  /\ lastIdx' = lastIdx + 1
  /\ table' = InsertItem(table, lastIdx', row)
  /\ UNCHANGED <<toons, view, asked, find>>

ItemMoved(i, box) ==
  /\ table[i].parent # box
  /\ table' = MoveTo(table, {i}, box, table[i].slot)
  /\ UNCHANGED <<lastIdx, toons, view, asked, find>>

ItemRemoved(i) ==
  /\ table' = Delete(table, {i})
  /\ UNCHANGED <<lastIdx, toons, view, asked, find>>

ToonNamed(c) ==
  /\ toons' = toons \cup {c}
  /\ UNCHANGED <<table, lastIdx, view, asked, find>>

-----------------------------------------------------------------------------
ListInit ==
  /\ table = EmptyTable
  /\ lastIdx = 0
  /\ toons = Chars
  /\ list = << >>
  /\ where = NoPredicate
  /\ selected = {}
  /\ asked = Closed
  /\ edit = [text |-> Short, char |-> AnyToon]
  /\ lastQuery = [text |-> Short, char |-> AnyToon]
  /\ timer = FALSE

Boxes == {row.parent : row \in NewRows}

Message ==
  \/ \E row \in NewRows : ItemInserted(row)
  \/ \E i \in DOMAIN table : ItemRemoved(i) \/ \E box \in Boxes : ItemMoved(i, box)
  \/ \E c \in Chars : ToonNamed(c)

Tree ==
  \E c \in Chars :
    \/ SelectCharacter(c) \/ DeleteToon(c)
    \/ \E box \in Boxes : SelectContainer(c, box) \/ DeleteContainer(box)

Grid ==
  \/ \E n \in DOMAIN list : DoubleClick(n)
  \/ \E lines \in SUBSET DOMAIN list : Highlight(lines)
  \/ ColumnClick \/ AskDelete \/ AnswerNo \/ AnswerYes

FindPanel ==
  \/ \E text \in Texts \cup {Short} : TypeText(text)
  \/ \E c \in Chars \cup {AnyToon} : ChooseCharacter(c)
  \/ DropDown \/ OnTimer

ListNext == Message \/ Tree \/ Grid \/ FindPanel

\* Windows delivers a timer that has run out as long as messages are fetched,
\* which both loops do.
ListSpec == ListInit /\ [][ListNext]_vars /\ WF_vars(OnTimer)

-----------------------------------------------------------------------------
\* Types: in particular every highlighted position has a line.
ListTypeOK ==
  /\ IsTable(table) /\ lastIdx \in RowIds \cup {0}
  /\ toons \subseteq Chars
  /\ list \in Seq(Listed) /\ where \in Predicate
  /\ selected \subseteq DOMAIN list
  /\ asked = Closed \/ asked \in SUBSET Listed
  /\ edit \in Query /\ lastQuery \in Query /\ timer \in BOOLEAN

\* A row that vanishes at the answer yes is one the user saw highlighted when
\* asked, and the same item; and unless a search has replaced the list in the
\* meantime, every row asked about is gone, whatever the messages did to it.
DeletesWhatWasAsked ==
  [][AnswerYes =>
       LET gone == {[idx |-> i, key |-> table[i].key] : i \in DOMAIN table \ DOMAIN table'}
           want == {[idx |-> e.idx, key |-> e.key] : e \in asked}
       IN /\ gone \subseteq want
          /\ selected # {} => {e.idx : e \in asked} \cap DOMAIN table' = {}]_vars

\* A text that stays in the find panel gets to be the query run last, also when
\* the list is replaced, the character changed or the message box open.  It says
\* nothing of the list: the tree may have replaced what that query found, and
\* the same text is not searched for again.
TypedIsSearched ==
  \A t \in Texts : edit.text = t ~> (lastQuery.text = t \/ edit.text # t)
=============================================================================
