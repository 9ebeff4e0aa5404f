------------------------------ MODULE DbScheme ------------------------------
(***************************************************************************)
(* The tables of ItemAssistant.db and the statements DBManager updates     *)
(* them with.  Db::Exec logs an error and goes on, so a statement that     *)
(* fails leaves the tables as they are: a CREATE of a table that exists, a *)
(* SELECT of a column or a table that does not, a second row of a key.     *)
(*                                                                         *)
(* A table is its columns, its rows by key (charid, itemidx, dimensionid,  *)
(* charid and statid), whether a primary key or a unique index lets a key  *)
(* occur only once (unique), and the keys that do occur more often         *)
(* (twice), of whose rows one stands for all.  The columns of an item that *)
(* every version has are one column here, and the indexes that make        *)
(* nothing unique are left out.                                            *)
(***************************************************************************)
EXTENDS Naturals

CONSTANTS
  CharIds,  \* characters
  ItemIds,  \* rows of tItems
  Values    \* what a column may hold besides 0, its default

CURRENT_DB_VERSION == 8

Dimensions == {13, 15}   \* Rubi-Ka, TestLive

NoRows == [k \in {} |-> 0]

-----------------------------------------------------------------------------
\* Statements.

Put(t, name, table) ==
  [n \in DOMAIN t \cup {name} |-> IF n = name THEN table ELSE t[n]]

Empty(cols, unique) ==
  [cols |-> cols, rows |-> NoRows, unique |-> unique, twice |-> {}]

\* CREATE TABLE and, where the key is not declared in it, CREATE UNIQUE INDEX
CreateTable(t, name, cols, unique) ==
  IF name \in DOMAIN t THEN t ELSE Put(t, name, Empty(cols, unique))

DropTable(t, name) == [n \in DOMAIN t \ {name} |-> t[n]]

\* A new row: the columns that are not given have their default.
Row(all, values, cols) == [col \in all |-> IF col \in cols THEN values[col] ELSE 0]

MayCopy(t, from, to, cols) ==
  /\ {from, to} \subseteq DOMAIN t
  /\ cols \subseteq t[from].cols \cap t[to].cols
  /\ t[to].unique =>
       t[from].twice = {} /\ DOMAIN t[from].rows \cap DOMAIN t[to].rows = {}

\* INSERT INTO to (key, cols) SELECT key, cols FROM from
Copy(t, from, to, cols) ==
  IF MayCopy(t, from, to, cols)
  THEN Put(t, to,
         [t[to] EXCEPT
            !.rows = [k \in DOMAIN @ \cup DOMAIN t[from].rows |->
                        IF k \in DOMAIN t[to].rows THEN t[to].rows[k]
                        ELSE Row(t[to].cols, t[from].rows[k], cols)],
            !.twice = @ \cup t[from].twice
                        \cup (DOMAIN t[from].rows \cap DOMAIN t[to].rows)])
  ELSE t

\* INSERT INTO name (key, cols) VALUES ..., for each key that is not there, the
\* key being unique
Insert(t, name, keys, values) ==
  IF name \in DOMAIN t /\ DOMAIN values \subseteq t[name].cols
  THEN Put(t, name,
         [t[name] EXCEPT
            !.rows = [k \in DOMAIN @ \cup keys |->
                        IF k \in DOMAIN t[name].rows THEN t[name].rows[k]
                        ELSE Row(t[name].cols, values, DOMAIN values)]])
  ELSE t

\* Mutant: the rows are not copied back from the second table.
RebuildEmpty(t, name, second, keyed, copied, cols) ==
  LET t1 == Copy(CreateTable(t, second, cols, keyed), name, second, copied)
      t2 == CreateTable(DropTable(t1, name), name, cols, TRUE)
  IN  DropTable(t2, second)

\* A table gets new columns, and a unique key, by way of a second table, which
\* is keyed or not.  The copy back fails as a whole if a key occurs twice, and
\* the second table is dropped all the same.
Rebuild(t, name, second, keyed, copied, cols) ==
  LET t1 == Copy(CreateTable(t, second, cols, keyed), name, second, copied)
      t2 == Copy(CreateTable(DropTable(t1, name), name, cols, TRUE), second, name, copied)
  IN  DropTable(t2, second)

-----------------------------------------------------------------------------
\* updateDBVersion: the statements of each case, one transaction.

ToonCols(v) ==
  {"charname"} \cup (IF v >= 3 THEN {"shopid"} ELSE {})
               \cup (IF v >= 4 THEN {"dimensionid"} ELSE {})

ItemCols(v) == {"item"} \cup (IF v >= 4 THEN {"flags"} ELSE {})

\* Mutants: the new columns are forgotten; the columns of later versions are
\* not copied.
RebuildToonsSame(t, v) ==
  Rebuild(t, "tToons", "tToons2", v # 0, ToonCols(v), ToonCols(v))

RebuildToonsNamesOnly(t, v) ==
  Rebuild(t, "tToons", "tToons2", v # 0, ToonCols(0), ToonCols(v + 1))

RebuildToons(t, v) ==
  Rebuild(t, "tToons", "tToons2", v # 0, ToonCols(v), ToonCols(v + 1))

InsertDimensions(t) ==
  Insert(t, "tDimensions", Dimensions, [col \in {"dimensionname"} |-> 1])

RebuildItems(t) == Rebuild(t, "tItems", "tItems2", TRUE, ItemCols(3), ItemCols(4))

CreateDimensions(t) == CreateTable(t, "tDimensions", {"dimensionname"}, TRUE)

CreateToonStats(t) == CreateTable(t, "tToonStats", {"statvalue"}, TRUE)

\* Case 7 begins with DELETE * FROM, which SQLite does not parse.
Update(v, t) ==
  CASE v \in 0..2 -> RebuildToons(t, v)
    [] v = 3 -> RebuildToons(InsertDimensions(CreateDimensions(RebuildItems(t))), 3)
    [] v = 4 -> CreateToonStats(t)
    [] v \in 5..6 -> t
    [] v = 7 -> InsertDimensions(t)

\* The columns of each table of version v: what the cases from v on expect, and
\* for the current version what createDBScheme creates.
Scheme(v) ==
  [n \in {"tToons", "tItems"} \cup (IF v >= 4 THEN {"tDimensions"} ELSE {})
                              \cup (IF v >= 5 THEN {"tToonStats"} ELSE {}) |->
     CASE n = "tToons" -> ToonCols(v)
       [] n = "tItems" -> ItemCols(v)
       [] n = "tDimensions" -> {"dimensionname"}
       [] n = "tToonStats" -> {"statvalue"}]

createDBScheme ==
  InsertDimensions([n \in DOMAIN Scheme(CURRENT_DB_VERSION) |->
                      Empty(Scheme(CURRENT_DB_VERSION)[n], TRUE)])

-----------------------------------------------------------------------------
\* What the rows of a table say.

RowsOf(t, name) == IF name \in DOMAIN t THEN t[name].rows ELSE NoRows

\* A column that is not there reads as its default.
Column(t, name, col) ==
  [k \in DOMAIN RowsOf(t, name) |->
     IF col \in t[name].cols THEN t[name].rows[k][col] ELSE 0]

\* The keys more than one row has.
Twice(t, name) == IF name \in DOMAIN t THEN t[name].twice ELSE {}

HasScheme(t, scheme) ==
  /\ DOMAIN t = DOMAIN scheme
  /\ \A n \in DOMAIN scheme : t[n].cols = scheme[n] /\ t[n].unique
=============================================================================
