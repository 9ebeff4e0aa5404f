--------------------------- MODULE Startup_proofs ---------------------------
(***************************************************************************)
(* Proofs about the start of the application (module Startup), for any     *)
(* characters, items and values, any number of parts and patches.          *)
(***************************************************************************)
EXTENDS Startup, TLAPS

-----------------------------------------------------------------------------
(***************************************************************************)
(* Rebuild: the six statements that give a table new columns.              *)
(***************************************************************************)

IsTable(table) == DOMAIN table = {"cols", "rows", "unique", "twice"}

\* u is t with a table of these columns and a unique key in the place of the old
\* one; other tables are left alone.
IsReplaced(t, u, name, cols) ==
  /\ DOMAIN u = DOMAIN t \cup {name}
  /\ \A n \in DOMAIN t \ {name} : u[n] = t[n]
  /\ IsTable(u[name]) /\ u[name].cols = cols
  /\ u[name].unique /\ u[name].twice = {}

\* And no row is lost: what is copied is kept and the rest has its default.
IsRebuilt(t, u, name, copied, cols) ==
  /\ IsReplaced(t, u, name, cols)
  /\ DOMAIN u[name].rows = DOMAIN RowsOf(t, name)
  /\ \A k \in DOMAIN RowsOf(t, name), col \in cols :
       u[name].rows[k][col] =
         IF col \in copied THEN t[name].rows[k][col] ELSE 0

\* If the second table's name is free and the table, if there is one, has the
\* columns to copy, then Rebuild replaces it, and rebuilds it if no key occurs
\* twice; that is so if the second table is keyed.
LEMMA RebuildLemma ==
  ASSUME NEW t, NEW name, NEW second, NEW keyed \in BOOLEAN, NEW copied, NEW cols,
         name # second, second \notin DOMAIN t,
         copied \subseteq cols,
         name \in DOMAIN t => copied \subseteq t[name].cols,
         keyed => Twice(t, name) = {}
  PROVE  LET u == Rebuild(t, name, second, keyed, copied, cols)
         IN  /\ IsReplaced(t, u, name, cols)
             /\ Twice(t, name) = {} => IsRebuilt(t, u, name, copied, cols)
<1> DEFINE u == Rebuild(t, name, second, keyed, copied, cols)
           a == CreateTable(t, second, cols, keyed)
           b == Copy(a, name, second, copied)
           c == CreateTable(DropTable(b, name), name, cols, TRUE)
           d == Copy(c, second, name, copied)
<1>u. u = DropTable(d, second)
  BY DEF Rebuild
<1> HIDE DEF u
<1>n. DOMAIN NoRows = {}
  BY DEF NoRows
<1>a. /\ DOMAIN a = DOMAIN t \cup {second}
      /\ \A n \in DOMAIN t : a[n] = t[n]
      /\ a[second] = [cols |-> cols, rows |-> NoRows, unique |-> keyed, twice |-> {}]
  BY DEF CreateTable, Put, Empty
<1>b. /\ DOMAIN b = DOMAIN t \cup {second}
      /\ \A n \in DOMAIN t : b[n] = t[n]
      /\ b[second].cols = cols
      /\ b[second].twice = Twice(t, name)
      /\ DOMAIN b[second].rows = DOMAIN RowsOf(t, name)
      /\ \A k \in DOMAIN RowsOf(t, name) :
           b[second].rows[k] = Row(cols, t[name].rows[k], copied)
  <2> HIDE DEF a
  <2>1. CASE name \in DOMAIN t
    <3>3. RowsOf(t, name) = t[name].rows /\ Twice(t, name) = t[name].twice /\ a[name] = t[name]
      BY <2>1, <1>a DEF RowsOf, Twice
    <3>1. MayCopy(a, name, second, copied)
      BY <1>a, <1>n, <2>1, <3>3 DEF MayCopy
    <3> DEFINE rows == [k \in DOMAIN a[second].rows \cup DOMAIN a[name].rows |->
                          IF k \in DOMAIN a[second].rows THEN a[second].rows[k]
                          ELSE Row(a[second].cols, a[name].rows[k], copied)]
               twice == a[second].twice \cup a[name].twice
                          \cup (DOMAIN a[name].rows \cap DOMAIN a[second].rows)
               table == [a[second] EXCEPT !.rows = rows, !.twice = twice]
    <3>2. b = Put(a, second, table)
      BY <3>1 DEF Copy
    <3>4. rows = [k \in DOMAIN t[name].rows |-> Row(cols, t[name].rows[k], copied)]
      <4>1. DOMAIN a[second].rows = {}
        BY <1>a, <1>n
      <4>2. a[second].cols = cols
        BY <1>a
      <4> QED
        BY <4>1, <4>2, <3>3
    <3>5. twice = Twice(t, name)
      BY <1>a, <1>n, <3>3
    <3> HIDE DEF rows, twice
    <3>6. /\ table.cols = cols /\ table.rows = rows
          /\ table.unique = keyed /\ table.twice = twice
      BY <1>a
    <3> HIDE DEF b, table
    <3>7. /\ DOMAIN b = DOMAIN t \cup {second}
          /\ \A n \in DOMAIN t : b[n] = t[n]
          /\ b[second] = table
      BY <3>2, <1>a DEF Put
    <3> QED
      BY <3>3, <3>4, <3>5, <3>6, <3>7
  <2>2. CASE name \notin DOMAIN t
    <3>1. ~MayCopy(a, name, second, copied)
      BY <1>a, <2>2 DEF MayCopy
    <3>2. b = a /\ RowsOf(t, name) = NoRows /\ Twice(t, name) = {}
      BY <3>1, <2>2 DEF Copy, RowsOf, Twice
    <3> QED
      BY <3>2, <1>a, <1>n
  <2> QED
    BY <2>1, <2>2
<1>c. /\ DOMAIN c = DOMAIN t \cup {name, second}
      /\ \A n \in DOMAIN t \ {name} : c[n] = t[n]
      /\ c[second] = b[second]
      /\ c[name] = [cols |-> cols, rows |-> NoRows, unique |-> TRUE, twice |-> {}]
  <2> HIDE DEF b
  <2> QED
    BY <1>b DEF CreateTable, DropTable, Put, Empty
<1>d. /\ DOMAIN d = DOMAIN t \cup {name, second}
      /\ \A n \in DOMAIN t \ {name} : d[n] = t[n]
      /\ IsTable(d[name])
      /\ d[name].cols = cols /\ d[name].unique /\ d[name].twice = {}
      /\ Twice(t, name) = {} =>
           /\ DOMAIN d[name].rows = DOMAIN RowsOf(t, name)
           /\ \A k \in DOMAIN RowsOf(t, name) :
                d[name].rows[k] = Row(cols, Row(cols, t[name].rows[k], copied), copied)
  <2> HIDE DEF b, c
  <2>1. CASE MayCopy(c, second, name, copied)
    <3> DEFINE rows == [k \in DOMAIN c[name].rows \cup DOMAIN c[second].rows |->
                          IF k \in DOMAIN c[name].rows THEN c[name].rows[k]
                          ELSE Row(c[name].cols, c[second].rows[k], copied)]
               twice == c[name].twice \cup c[second].twice
                          \cup (DOMAIN c[second].rows \cap DOMAIN c[name].rows)
               table == [c[name] EXCEPT !.rows = rows, !.twice = twice]
    <3>1. d = Put(c, name, table)
      BY <2>1 DEF Copy
    <3>2. rows = [k \in DOMAIN b[second].rows |-> Row(cols, b[second].rows[k], copied)]
      <4>1. DOMAIN c[name].rows = {} /\ c[name].cols = cols /\ c[second].rows = b[second].rows
        BY <1>c, <1>n
      <4> QED
        BY <4>1
    <3>3. twice = {}
      BY <2>1, <1>c, <1>n DEF MayCopy
    <3> HIDE DEF rows, twice
    <3>4. /\ table.cols = cols /\ table.rows = rows /\ IsTable(table)
          /\ table.unique /\ table.twice = twice
      BY <1>c DEF IsTable
    <3> HIDE DEF d, table
    <3>5. /\ DOMAIN d = DOMAIN t \cup {name, second}
          /\ \A n \in DOMAIN t \ {name} : d[n] = t[n]
          /\ d[name] = table
      BY <3>1, <1>c DEF Put
    <3> QED
      BY <3>2, <3>3, <3>4, <3>5, <1>b DEF IsTable
  <2>2. CASE ~MayCopy(c, second, name, copied)
    <3>1. d = c
      BY <2>2 DEF Copy
    <3>2. Twice(t, name) # {}
      BY <2>2, <1>b, <1>c, <1>n DEF MayCopy
    <3> QED
      BY <3>1, <3>2, <1>c DEF IsTable
  <2> QED
    BY <2>1, <2>2
<1>e. /\ DOMAIN u = DOMAIN t \cup {name}
      /\ \A n \in DOMAIN t \ {name} : u[n] = t[n]
      /\ u[name] = d[name]
  <2> HIDE DEF d
  <2> QED
    BY <1>d, <1>u DEF DropTable
<1>f. IsReplaced(t, u, name, cols)
  <2> HIDE DEF d
  <2> QED
    BY <1>d, <1>e DEF IsReplaced
<1>g. ASSUME Twice(t, name) = {}
      PROVE  \A k \in DOMAIN RowsOf(t, name), col \in cols :
               u[name].rows[k][col] = IF col \in copied THEN t[name].rows[k][col] ELSE 0
  <2> HIDE DEF d
  <2> TAKE k \in DOMAIN RowsOf(t, name), col \in cols
  <2> DEFINE r == Row(cols, t[name].rows[k], copied)
  <2>1. u[name].rows[k] = Row(cols, r, copied)
    BY <1>d, <1>e, <1>g
  <2>2. u[name].rows[k][col] = IF col \in copied THEN r[col] ELSE 0
    BY <2>1 DEF Row
  <2>3. col \in copied => r[col] = t[name].rows[k][col]
    BY DEF Row
  <2> QED
    BY <2>2, <2>3
<1>h. ASSUME Twice(t, name) = {} PROVE IsRebuilt(t, u, name, copied, cols)
  <2> HIDE DEF d
  <2>1. DOMAIN u[name].rows = DOMAIN RowsOf(t, name)
    BY <1>d, <1>e, <1>h
  <2> QED
    BY <2>1, <1>f, <1>g, <1>h DEF IsRebuilt
<1> QED
  BY <1>f, <1>h DEF u

-----------------------------------------------------------------------------
(***************************************************************************)
(* What holds of the tables when updateDBVersion has come to case s: the   *)
(* columns case s expects are there, and none the current version has not. *)
(* The tables may be those of a later version, if an earlier update was    *)
(* interrupted, and before case 0 there may be none.  From case 1 on a key  *)
(* occurs only once in any table.                                          *)
(***************************************************************************)
Names == {"tToons", "tItems", "tDimensions", "tToonStats"}

Keyed(s, t) ==
  \A n \in DOMAIN t :
    /\ IsTable(t[n])
    /\ n # "tToons" \/ s >= 1 => t[n].unique /\ t[n].twice = {}

Reached(s, t) ==
  /\ DOMAIN t \subseteq Names
  /\ Keyed(s, t)
  /\ s >= 1 => "tToons" \in DOMAIN t
  /\ s >= 4 => "tItems" \in DOMAIN t /\ "tDimensions" \in DOMAIN t
  /\ s >= 5 => "tToonStats" \in DOMAIN t
  /\ "tToons" \in DOMAIN t =>
       ToonCols(s) \subseteq t["tToons"].cols /\ t["tToons"].cols \subseteq ToonCols(8)
  /\ "tItems" \in DOMAIN t =>
       ItemCols(s) \subseteq t["tItems"].cols /\ t["tItems"].cols \subseteq ItemCols(8)
  /\ "tDimensions" \in DOMAIN t =>
       /\ t["tDimensions"].cols = {"dimensionname"}
       /\ DOMAIN t["tDimensions"].rows = Dimensions
  /\ "tToonStats" \in DOMAIN t => t["tToonStats"].cols = {"statvalue"}

\* The columns of a table are the same in t and in u.
Same(t, u, name, cols) == \A col \in cols : Column(u, name, col) = Column(t, name, col)

\* Rebuild in terms of columns.
LEMMA RebuildColumns ==
  ASSUME NEW t, NEW u, NEW name, NEW copied, NEW cols,
         IsRebuilt(t, u, name, copied, cols),
         copied \subseteq cols,
         name \in DOMAIN t => copied \subseteq t[name].cols
  PROVE  /\ Same(t, u, name, copied)
         /\ DOMAIN RowsOf(u, name) = DOMAIN RowsOf(t, name)
         /\ \A col : col \notin copied =>
              \A k \in DOMAIN RowsOf(t, name) : Column(u, name, col)[k] = 0
<1>1. /\ DOMAIN u = DOMAIN t \cup {name}
      /\ u[name].cols = cols
      /\ DOMAIN u[name].rows = DOMAIN RowsOf(t, name)
      /\ \A k \in DOMAIN RowsOf(t, name), col \in cols :
           u[name].rows[k][col] = IF col \in copied THEN t[name].rows[k][col] ELSE 0
  BY DEF IsRebuilt, IsReplaced
<1>2. RowsOf(u, name) = u[name].rows
  BY <1>1 DEF RowsOf
<1>3. ASSUME NEW col \in copied PROVE Column(u, name, col) = Column(t, name, col)
  <2>1. col \in cols
    OBVIOUS
  <2>2. Column(u, name, col) =
          [k \in DOMAIN RowsOf(t, name) |-> u[name].rows[k][col]]
    BY <1>1, <1>2, <2>1 DEF Column
  <2>3. CASE name \in DOMAIN t
    <3>1. Column(t, name, col) =
            [k \in DOMAIN RowsOf(t, name) |-> t[name].rows[k][col]]
      BY <2>3 DEF Column, RowsOf
    <3> QED
      BY <1>1, <2>1, <2>2, <3>1
  <2>4. CASE name \notin DOMAIN t
    <3>1. DOMAIN RowsOf(t, name) = {}
      BY <2>4 DEF RowsOf, NoRows
    <3> QED
      BY <2>2, <3>1 DEF Column
  <2> QED
    BY <2>3, <2>4
<1>4. ASSUME NEW col, col \notin copied, NEW k \in DOMAIN RowsOf(t, name)
      PROVE  Column(u, name, col)[k] = 0
  BY <1>1, <1>2, <1>4 DEF Column
<1> QED
  BY <1>1, <1>2, <1>3, <1>4 DEF Same

\* A table that is left alone keeps its columns.
LEMMA UntouchedColumns ==
  ASSUME NEW t, NEW u, NEW name, NEW cols,
         name \in DOMAIN u <=> name \in DOMAIN t,
         name \in DOMAIN t => u[name] = t[name]
  PROVE  Same(t, u, name, cols) /\ RowsOf(u, name) = RowsOf(t, name)
<1>1. RowsOf(u, name) = RowsOf(t, name)
  BY DEF RowsOf
<1>2. ASSUME NEW col \in cols PROVE Column(u, name, col) = Column(t, name, col)
  <2>1. CASE name \in DOMAIN t
    BY <1>1, <2>1 DEF Column
  <2>2. CASE name \notin DOMAIN t
    <3>1. DOMAIN RowsOf(t, name) = {}
      BY <2>2 DEF RowsOf, NoRows
    <3> QED
      BY <1>1, <3>1 DEF Column
  <2> QED
    BY <2>1, <2>2
<1> QED
  BY <1>1, <1>2 DEF Same

\* The rows of the table have the default in the column.
Zero(t, name, col) == \A k \in DOMAIN RowsOf(t, name) : Column(t, name, col)[k] = 0

\* A column that is copied, or has its default, is the same after a rebuild.
LEMMA RebuildKeeps ==
  ASSUME NEW t, NEW u, NEW name, NEW copied, NEW cols,
         IsRebuilt(t, u, name, copied, cols),
         copied \subseteq cols,
         name \in DOMAIN t => copied \subseteq t[name].cols,
         NEW K, \A col \in K : col \in copied \/ Zero(t, name, col)
  PROVE  Same(t, u, name, K)
<1>1. /\ Same(t, u, name, copied)
      /\ DOMAIN RowsOf(u, name) = DOMAIN RowsOf(t, name)
      /\ \A col : col \notin copied =>
           \A k \in DOMAIN RowsOf(t, name) : Column(u, name, col)[k] = 0
  BY RebuildColumns
<1>2. ASSUME NEW col \in K, col \notin copied
      PROVE  Column(u, name, col) = Column(t, name, col)
  <2>1. Zero(t, name, col)
    BY <1>2
  <2>2. \A k \in DOMAIN RowsOf(t, name) :
          Column(u, name, col)[k] = 0 /\ Column(t, name, col)[k] = 0
    BY <1>1, <1>2, <2>1 DEF Zero
  <2>3. /\ Column(t, name, col) = [k \in DOMAIN RowsOf(t, name) |-> Column(t, name, col)[k]]
        /\ Column(u, name, col) = [k \in DOMAIN RowsOf(t, name) |-> Column(u, name, col)[k]]
    BY <1>1 DEF Column
  <2> QED
    BY <2>2, <2>3
<1> QED
  BY <1>1, <1>2 DEF Same

LEMMA SameTransitive ==
  ASSUME NEW t, NEW u, NEW w, NEW name, NEW K,
         Same(t, u, name, K), Same(u, w, name, K)
  PROVE  Same(t, w, name, K)
BY DEF Same

\* What is zero stays zero where the column is the same.
LEMMA SameZero ==
  ASSUME NEW t, NEW u, NEW name, NEW K, NEW col \in K,
         Same(t, u, name, K), Zero(t, name, col)
  PROVE  Zero(u, name, col)
<1>1. Column(u, name, col) = Column(t, name, col)
  BY DEF Same
<1>2. /\ DOMAIN Column(u, name, col) = DOMAIN RowsOf(u, name)
      /\ DOMAIN Column(t, name, col) = DOMAIN RowsOf(t, name)
  BY DEF Column
<1> QED
  BY <1>1, <1>2 DEF Zero

LEMMA ColumnsOfVersions ==
  ASSUME NEW s \in 0..8
  PROVE  /\ ToonCols(s) \subseteq ToonCols(8) /\ ItemCols(s) \subseteq ItemCols(8)
         /\ \A r \in 0..s : ToonCols(r) \subseteq ToonCols(s) /\ ItemCols(r) \subseteq ItemCols(s)
         /\ s >= 4 => ToonCols(s) = ToonCols(8) /\ ItemCols(s) = ItemCols(8)
         /\ s <= 3 => ItemCols(s) = {"item"}
BY DEF ToonCols, ItemCols

-----------------------------------------------------------------------------
(***************************************************************************)
(* The cases of updateDBVersion.                                           *)
(***************************************************************************)

LEMMA RebuildToonsLemma ==
  ASSUME NEW s \in 0..3, NEW t, DOMAIN t \subseteq Names,
         "tToons" \in DOMAIN t => ToonCols(s) \subseteq t["tToons"].cols,
         s # 0 => Twice(t, "tToons") = {}
  PROVE  /\ IsReplaced(t, RebuildToons(t, s), "tToons", ToonCols(s + 1))
         /\ Twice(t, "tToons") = {} =>
              IsRebuilt(t, RebuildToons(t, s), "tToons", ToonCols(s), ToonCols(s + 1))
<1>1. ToonCols(s) \subseteq ToonCols(s + 1)
  BY DEF ToonCols
<1>2. "tToons" # "tToons2" /\ "tToons2" \notin DOMAIN t
  BY DEF Names
<1>3. (s # 0) \in BOOLEAN
  OBVIOUS
<1> QED
  BY <1>1, <1>2, <1>3, RebuildLemma DEF RebuildToons

\* Where every key occurs once, none occurs twice.
LEMMA KeyedTwice ==
  ASSUME NEW s, NEW t, Keyed(s, t)
  PROVE  /\ Twice(t, "tItems") = {}
         /\ s >= 1 => Twice(t, "tToons") = {}
BY DEF Keyed, Twice

LEMMA InsertDimensionsLemma ==
  ASSUME NEW t, "tDimensions" \in DOMAIN t,
         t["tDimensions"].cols = {"dimensionname"},
         DOMAIN t["tDimensions"].rows \subseteq Dimensions,
         IsTable(t["tDimensions"])
  PROVE  /\ DOMAIN InsertDimensions(t) = DOMAIN t
         /\ \A n \in DOMAIN t \ {"tDimensions"} : InsertDimensions(t)[n] = t[n]
         /\ InsertDimensions(t)["tDimensions"].cols = {"dimensionname"}
         /\ DOMAIN InsertDimensions(t)["tDimensions"].rows = Dimensions
         /\ \A s : Keyed(s, t) => Keyed(s, InsertDimensions(t))
<1> DEFINE old == t["tDimensions"]
           r == [k \in DOMAIN old.rows \cup Dimensions |->
                   IF k \in DOMAIN old.rows THEN old.rows[k]
                   ELSE Row(old.cols, [col \in {"dimensionname"} |-> 1],
                            DOMAIN [col \in {"dimensionname"} |-> 1])]
           new == [old EXCEPT !.rows = r]
<1>1. InsertDimensions(t) = Put(t, "tDimensions", new)
  BY DEF InsertDimensions, Insert
<1>2. DOMAIN r = Dimensions
  OBVIOUS
<1> HIDE DEF r
<1>3. /\ new.cols = old.cols /\ new.unique = old.unique /\ new.twice = old.twice
      /\ new.rows = r /\ IsTable(new)
  BY DEF IsTable
<1> HIDE DEF new
<1>4. /\ DOMAIN InsertDimensions(t) = DOMAIN t
      /\ \A n \in DOMAIN t \ {"tDimensions"} : InsertDimensions(t)[n] = t[n]
      /\ InsertDimensions(t)["tDimensions"] = new
  BY <1>1 DEF Put
<1>5. ASSUME NEW s, Keyed(s, t) PROVE Keyed(s, InsertDimensions(t))
  BY <1>3, <1>4, <1>5 DEF Keyed
<1> QED
  BY <1>2, <1>3, <1>4, <1>5

\* Case 3 leaves tItems and tToons rebuilt and creates tDimensions.
LEMMA Case3 ==
  ASSUME NEW t, Reached(3, t)
  PROVE  \E t1, t3 :
           /\ IsRebuilt(t, t1, "tItems", ItemCols(3), ItemCols(4))
           /\ DOMAIN t3 = DOMAIN t1 \cup {"tDimensions"}
           /\ \A n \in DOMAIN t1 \ {"tDimensions"} : t3[n] = t1[n]
           /\ t3["tDimensions"].cols = {"dimensionname"}
           /\ DOMAIN t3["tDimensions"].rows = Dimensions
           /\ Keyed(3, t3)
           /\ IsRebuilt(t3, Update(3, t), "tToons", ToonCols(3), ToonCols(4))
<1> DEFINE t1 == RebuildItems(t)
           t2 == CreateDimensions(t1)
           t3 == InsertDimensions(t2)
<1>1. IsRebuilt(t, t1, "tItems", ItemCols(3), ItemCols(4))
  <2>1. "tItems" # "tItems2" /\ "tItems2" \notin DOMAIN t
    BY DEF Reached, Names
  <2>2. "tItems" \in DOMAIN t => ItemCols(3) \subseteq t["tItems"].cols
    BY DEF Reached
  <2>3. ItemCols(3) \subseteq ItemCols(4)
    BY DEF ItemCols
  <2>4. Twice(t, "tItems") = {}
    BY KeyedTwice DEF Reached
  <2> QED
    BY <2>1, <2>2, <2>3, <2>4, RebuildLemma DEF RebuildItems
<1> HIDE DEF t1
<1>2. /\ DOMAIN t1 = DOMAIN t \cup {"tItems"}
      /\ \A n \in DOMAIN t \ {"tItems"} : t1[n] = t[n]
      /\ Keyed(3, t1)
  BY <1>1 DEF IsRebuilt, IsReplaced, Reached, Keyed
<1>3. /\ DOMAIN t2 = DOMAIN t1 \cup {"tDimensions"}
      /\ \A n \in DOMAIN t1 \ {"tDimensions"} : t2[n] = t1[n]
      /\ t2["tDimensions"].cols = {"dimensionname"}
      /\ DOMAIN t2["tDimensions"].rows \subseteq Dimensions
      /\ Keyed(3, t2)
  <2>1. CASE "tDimensions" \in DOMAIN t1
    <3>1. t2 = t1
      BY <2>1 DEF CreateDimensions, CreateTable
    <3>2. "tDimensions" \in DOMAIN t /\ t1["tDimensions"] = t["tDimensions"]
      BY <2>1, <1>2
    <3> QED
      BY <2>1, <1>2, <3>1, <3>2 DEF Reached
  <2>2. CASE "tDimensions" \notin DOMAIN t1
    <3> DEFINE new == Empty({"dimensionname"}, TRUE)
    <3>1. t2 = Put(t1, "tDimensions", new)
      BY <2>2 DEF CreateDimensions, CreateTable
    <3>2. /\ IsTable(new) /\ new.cols = {"dimensionname"} /\ DOMAIN new.rows = {}
          /\ new.unique /\ new.twice = {}
      BY DEF IsTable, Empty, NoRows
    <3> HIDE DEF new, t2
    <3>3. /\ DOMAIN t2 = DOMAIN t1 \cup {"tDimensions"}
          /\ \A n \in DOMAIN t1 \ {"tDimensions"} : t2[n] = t1[n]
          /\ t2["tDimensions"] = new
      BY <2>2, <3>1 DEF Put
    <3> QED
      BY <1>2, <3>2, <3>3 DEF Keyed
  <2> QED
    BY <2>1, <2>2
<1> HIDE DEF t2
<1>4. /\ DOMAIN t3 = DOMAIN t2
      /\ \A n \in DOMAIN t2 \ {"tDimensions"} : t3[n] = t2[n]
      /\ t3["tDimensions"].cols = {"dimensionname"}
      /\ DOMAIN t3["tDimensions"].rows = Dimensions
      /\ Keyed(3, t3)
  <2>1. "tDimensions" \in DOMAIN t2 /\ IsTable(t2["tDimensions"])
    BY <1>3 DEF Keyed
  <2> QED
    BY <1>3, <2>1, InsertDimensionsLemma
<1>5. Update(3, t) = RebuildToons(t3, 3)
  BY DEF Update, t1, t2
<1> HIDE DEF t3
<1>6. IsRebuilt(t3, Update(3, t), "tToons", ToonCols(3), ToonCols(3 + 1))
  <2>1. DOMAIN t3 \subseteq Names
    BY <1>2, <1>3, <1>4 DEF Reached, Names
  <2>2. "tToons" \in DOMAIN t3 => ToonCols(3) \subseteq t3["tToons"].cols
    BY <1>2, <1>3, <1>4 DEF Reached
  <2>3. Twice(t3, "tToons") = {}
    BY <1>4, KeyedTwice
  <2> QED
    BY <1>5, <2>1, <2>2, <2>3, RebuildToonsLemma
<1>7. ToonCols(3 + 1) = ToonCols(4)
  BY DEF ToonCols
<1>8. /\ DOMAIN t3 = DOMAIN t1 \cup {"tDimensions"}
      /\ \A n \in DOMAIN t1 \ {"tDimensions"} : t3[n] = t1[n]
  BY <1>3, <1>4
<1> WITNESS t1, t3
<1> QED
  BY <1>1, <1>4, <1>6, <1>7, <1>8

\* A case brings the tables to the next one, and drops none.
LEMMA UpdateReaches ==
  ASSUME NEW s \in 0..7, NEW t, Reached(s, t)
  PROVE  Reached(s + 1, Update(s, t)) /\ DOMAIN t \subseteq DOMAIN Update(s, t)
<1> DEFINE u == Update(s, t)
<1>c. ToonCols(s + 1) \subseteq ToonCols(8) /\ ItemCols(s + 1) \subseteq ItemCols(8)
  BY DEF ToonCols, ItemCols
<1>1. CASE s \in 0..2
  <2>1. IsReplaced(t, u, "tToons", ToonCols(s + 1))
    <3>1. u = RebuildToons(t, s)
      BY <1>1 DEF Update
    <3> HIDE DEF u
    <3>2. s \in 0..3 /\ (s # 0 => Twice(t, "tToons") = {})
      BY <1>1, KeyedTwice DEF Reached
    <3> QED
      BY <3>1, <3>2, RebuildToonsLemma DEF Reached
  <2> HIDE DEF u
  <2>2. /\ DOMAIN u = DOMAIN t \cup {"tToons"}
        /\ \A n \in DOMAIN t \ {"tToons"} : u[n] = t[n]
        /\ u["tToons"].cols = ToonCols(s + 1)
    BY <2>1 DEF IsReplaced
  <2>3. ItemCols(s) = ItemCols(s + 1)
    BY <1>1 DEF ItemCols
  <2>k. Keyed(s + 1, u)
    BY <1>1, <2>1 DEF IsReplaced, Reached, Keyed
  <2>4. Reached(s + 1, u)
    BY <1>1, <1>c, <2>2, <2>3, <2>k DEF Reached, Names
  <2> QED
    BY <2>2, <2>4 DEF u
<1>2. CASE s = 3
  <2>1. PICK t1, t3 :
           /\ IsRebuilt(t, t1, "tItems", ItemCols(3), ItemCols(4))
           /\ DOMAIN t3 = DOMAIN t1 \cup {"tDimensions"}
           /\ \A n \in DOMAIN t1 \ {"tDimensions"} : t3[n] = t1[n]
           /\ t3["tDimensions"].cols = {"dimensionname"}
           /\ DOMAIN t3["tDimensions"].rows = Dimensions
           /\ Keyed(3, t3)
           /\ IsRebuilt(t3, Update(3, t), "tToons", ToonCols(3), ToonCols(4))
    BY <1>2, Case3
  <2> HIDE DEF u
  <2>2. /\ DOMAIN t1 = DOMAIN t \cup {"tItems"}
        /\ \A n \in DOMAIN t \ {"tItems"} : t1[n] = t[n]
        /\ t1["tItems"].cols = ItemCols(4)
    BY <2>1 DEF IsRebuilt, IsReplaced
  <2>3. /\ DOMAIN u = DOMAIN t3 \cup {"tToons"}
        /\ \A n \in DOMAIN t3 \ {"tToons"} : u[n] = t3[n]
        /\ u["tToons"].cols = ToonCols(4)
    BY <1>2, <2>1 DEF IsRebuilt, IsReplaced, u
  <2>4. s + 1 = 4
    BY <1>2
  <2>5. Reached(4, u) /\ DOMAIN t \subseteq DOMAIN u
    <3>1. ToonCols(4) \subseteq ToonCols(8) /\ ItemCols(4) \subseteq ItemCols(8)
      BY <1>c, <2>4
    <3>2. DOMAIN u = DOMAIN t \cup {"tToons", "tItems", "tDimensions"}
      BY <2>1, <2>2, <2>3
    <3>3. /\ u["tItems"].cols = ItemCols(4)
          /\ u["tDimensions"].cols = {"dimensionname"}
          /\ DOMAIN u["tDimensions"].rows = Dimensions
      BY <2>1, <2>2, <2>3
    <3>4. "tToonStats" \in DOMAIN t => u["tToonStats"] = t["tToonStats"]
      BY <2>1, <2>2, <2>3
    <3>5. Keyed(4, u)
      <4>1. IsReplaced(t3, u, "tToons", ToonCols(4))
        BY <1>2, <2>1 DEF IsRebuilt, u
      <4> QED
        BY <2>1, <4>1 DEF IsReplaced, Keyed
    <3> QED
      BY <2>3, <3>1, <3>2, <3>3, <3>4, <3>5 DEF Reached, Names
  <2> QED
    BY <2>4, <2>5 DEF u
<1>3. CASE s \in 4..7
  <2>1. /\ DOMAIN u = DOMAIN t \cup {"tToonStats"}
        /\ \A n \in {"tToons", "tItems"} : u[n] = t[n]
        /\ u["tDimensions"].cols = {"dimensionname"}
        /\ DOMAIN u["tDimensions"].rows = Dimensions
        /\ u["tToonStats"].cols = {"statvalue"}
        /\ Keyed(s, u)
    <3>1. CASE s = 4
      <4>1. u = CreateToonStats(t)
        BY <3>1 DEF Update
      <4>2. Keyed(s, t)
        BY DEF Reached
      <4>3. Keyed(s, u)
        BY <4>1, <4>2 DEF CreateToonStats, CreateTable, Put, Empty, Keyed, IsTable
      <4> QED
        BY <3>1, <4>1, <4>3 DEF CreateToonStats, CreateTable, Put, Empty, Reached
    <3>2. CASE s \in 5..6
      <4>1. u = t
        BY <3>2 DEF Update
      <4> QED
        BY <3>2, <4>1 DEF Reached
    <3>3. CASE s = 7
      <4>1. u = InsertDimensions(t)
        BY <3>3 DEF Update
      <4>2. /\ "tDimensions" \in DOMAIN t
            /\ t["tDimensions"].cols = {"dimensionname"}
            /\ DOMAIN t["tDimensions"].rows \subseteq Dimensions
            /\ IsTable(t["tDimensions"]) /\ Keyed(s, t)
        BY <3>3 DEF Reached, Keyed
      <4> HIDE DEF u
      <4> QED
        BY <3>3, <4>1, <4>2, InsertDimensionsLemma DEF Reached
    <3> QED
      BY <1>3, <3>1, <3>2, <3>3
  <2>2. ToonCols(s) = ToonCols(s + 1) /\ ItemCols(s) = ItemCols(s + 1)
    BY <1>3 DEF ToonCols, ItemCols
  <2> HIDE DEF u
  <2>k. Keyed(s + 1, u)
    BY <1>3, <2>1 DEF Keyed
  <2>3. Reached(s + 1, u)
    BY <1>3, <2>1, <2>2, <2>k DEF Reached, Names
  <2> QED
    BY <2>1, <2>3 DEF u
<1> QED
  BY <1>1, <1>2, <1>3

\* A case keeps the columns it copies, and those that have their default.
LEMMA UpdateKeeps ==
  ASSUME NEW s \in 0..7, NEW t, Reached(s, t), NEW K, NEW I,
         \A col \in K : col \in ToonCols(s) \/ Zero(t, "tToons", col),
         \A col \in I : col \in ItemCols(s) \/ Zero(t, "tItems", col)
  PROVE  /\ Twice(t, "tToons") = {} => Same(t, Update(s, t), "tToons", K)
         /\ Same(t, Update(s, t), "tItems", I)
<1> DEFINE u == Update(s, t)
<1>1. CASE s \in 0..2
  <2>1. /\ IsReplaced(t, u, "tToons", ToonCols(s + 1))
        /\ Twice(t, "tToons") = {} =>
             IsRebuilt(t, u, "tToons", ToonCols(s), ToonCols(s + 1))
    <3>1. u = RebuildToons(t, s)
      BY <1>1 DEF Update
    <3> HIDE DEF u
    <3>2. s \in 0..3 /\ (s # 0 => Twice(t, "tToons") = {})
      BY <1>1, KeyedTwice DEF Reached
    <3> QED
      BY <3>1, <3>2, RebuildToonsLemma DEF Reached
  <2> HIDE DEF u
  <2>2. ToonCols(s) \subseteq ToonCols(s + 1)
    BY DEF ToonCols
  <2>3. Twice(t, "tToons") = {} => Same(t, u, "tToons", K)
    BY <2>1, <2>2, RebuildKeeps DEF Reached
  <2>4. /\ "tItems" \in DOMAIN u <=> "tItems" \in DOMAIN t
        /\ "tItems" \in DOMAIN t => u["tItems"] = t["tItems"]
    BY <2>1 DEF IsReplaced
  <2>5. Same(t, u, "tItems", I)
    BY <2>4, UntouchedColumns
  <2> QED
    BY <2>3, <2>5 DEF u
<1>2. CASE s = 3
  <2>1. PICK t1, t3 :
           /\ IsRebuilt(t, t1, "tItems", ItemCols(3), ItemCols(4))
           /\ DOMAIN t3 = DOMAIN t1 \cup {"tDimensions"}
           /\ \A n \in DOMAIN t1 \ {"tDimensions"} : t3[n] = t1[n]
           /\ t3["tDimensions"].cols = {"dimensionname"}
           /\ DOMAIN t3["tDimensions"].rows = Dimensions
           /\ Keyed(3, t3)
           /\ IsRebuilt(t3, Update(3, t), "tToons", ToonCols(3), ToonCols(4))
    BY <1>2, Case3
  <2>2. ToonCols(3) \subseteq ToonCols(4) /\ ItemCols(3) \subseteq ItemCols(4)
    BY DEF ToonCols, ItemCols
  <2>3. /\ \A col \in K : col \in ToonCols(3) \/ Zero(t, "tToons", col)
        /\ \A col \in I : col \in ItemCols(3) \/ Zero(t, "tItems", col)
    BY <1>2
  <2>4. u = Update(3, t)
    BY <1>2
  <2> HIDE DEF u
  <2>5. IsRebuilt(t3, u, "tToons", ToonCols(3), ToonCols(4))
    BY <2>1, <2>4
  <2>6. /\ DOMAIN t1 = DOMAIN t \cup {"tItems"}
        /\ \A n \in DOMAIN t \ {"tItems"} : t1[n] = t[n]
    BY <2>1 DEF IsRebuilt, IsReplaced
  <2>7. Same(t, u, "tItems", I)
    <3>1. "tItems" \in DOMAIN t => ItemCols(3) \subseteq t["tItems"].cols
      BY <1>2 DEF Reached
    <3>2. Same(t, t1, "tItems", I)
      BY <2>1, <2>2, <2>3, <3>1, RebuildKeeps
    <3>3. "tItems" \in DOMAIN t1 /\ "tItems" \in DOMAIN u /\ u["tItems"] = t1["tItems"]
      BY <2>1, <2>5, <2>6 DEF IsRebuilt, IsReplaced
    <3>4. Same(t1, u, "tItems", I)
      BY <3>3, UntouchedColumns
    <3> QED
      BY <3>2, <3>4, SameTransitive
  <2>8. Same(t, u, "tToons", K)
    <3>1. "tToons" \in DOMAIN t /\ "tToons" \in DOMAIN t3 /\ t3["tToons"] = t["tToons"]
      BY <1>2, <2>1, <2>6 DEF Reached
    <3>2. Same(t, t3, "tToons", K)
      BY <3>1, UntouchedColumns
    <3>3. \A col \in K : col \in ToonCols(3) \/ Zero(t3, "tToons", col)
      BY <2>3, <3>2, SameZero
    <3>4. ToonCols(3) \subseteq t3["tToons"].cols
      BY <1>2, <3>1 DEF Reached
    <3>5. Same(t3, u, "tToons", K)
      BY <2>2, <2>5, <3>3, <3>4, RebuildKeeps
    <3> QED
      BY <3>2, <3>5, SameTransitive
  <2> QED
    BY <2>7, <2>8 DEF u
<1>3. CASE s \in 4..7
  <2>1. \A n \in {"tToons", "tItems"} : n \in DOMAIN t /\ n \in DOMAIN u /\ u[n] = t[n]
    <3>1. CASE s = 4
      <4>1. u = CreateToonStats(t)
        BY <3>1 DEF Update
      <4> QED
        BY <3>1, <4>1 DEF CreateToonStats, CreateTable, Put, Empty, Reached
    <3>2. CASE s \in 5..6
      BY <3>2 DEF Update, Reached
    <3>3. CASE s = 7
      <4>1. u = InsertDimensions(t)
        BY <3>3 DEF Update
      <4>2. /\ "tDimensions" \in DOMAIN t
            /\ t["tDimensions"].cols = {"dimensionname"}
            /\ DOMAIN t["tDimensions"].rows \subseteq Dimensions
            /\ IsTable(t["tDimensions"])
        BY <3>3 DEF Reached, Keyed
      <4> HIDE DEF u
      <4> QED
        BY <3>3, <4>1, <4>2, InsertDimensionsLemma DEF Reached
    <3> QED
      BY <1>3, <3>1, <3>2, <3>3
  <2> HIDE DEF u
  <2>2. Same(t, u, "tToons", K) /\ Same(t, u, "tItems", I)
    BY <2>1, UntouchedColumns
  <2> QED
    BY <2>2 DEF u
<1> QED
  BY <1>1, <1>2, <1>3

\* What a later case expects is more.
LEMMA ReachedBefore ==
  ASSUME NEW s \in 0..9, NEW r \in 0..s, NEW t, Reached(s, t)
  PROVE  Reached(r, t)
<1>1. ToonCols(r) \subseteq ToonCols(s) /\ ItemCols(r) \subseteq ItemCols(s)
  BY DEF ToonCols, ItemCols
<1> QED
  BY <1>1 DEF Reached, Keyed

LEMMA CreatedScheme ==
  /\ DOMAIN createDBScheme = Names
  /\ \A n \in Names : createDBScheme[n].cols = Scheme(8)[n]
  /\ DOMAIN createDBScheme["tDimensions"].rows = Dimensions
  /\ \A n \in Names \ {"tDimensions"} : createDBScheme[n].rows = NoRows
  /\ Keyed(8, createDBScheme)
<1> DEFINE t == [n \in DOMAIN Scheme(CURRENT_DB_VERSION) |->
                   Empty(Scheme(CURRENT_DB_VERSION)[n], TRUE)]
<1>1. DOMAIN Scheme(8) = Names /\ Scheme(8)["tDimensions"] = {"dimensionname"}
  BY DEF Scheme, Names
<1>2. /\ DOMAIN t = Names
      /\ \A n \in Names : t[n].cols = Scheme(8)[n] /\ t[n].rows = NoRows
      /\ Keyed(8, t)
  BY <1>1 DEF CURRENT_DB_VERSION, Empty, Keyed, IsTable
<1>3. createDBScheme = InsertDimensions(t)
  BY DEF createDBScheme
<1> HIDE DEF t
<1>4. DOMAIN NoRows = {} /\ "tDimensions" \in Names
  BY DEF NoRows, Names
<1>5. /\ DOMAIN createDBScheme = Names
      /\ \A n \in Names \ {"tDimensions"} : createDBScheme[n] = t[n]
      /\ createDBScheme["tDimensions"].cols = {"dimensionname"}
      /\ DOMAIN createDBScheme["tDimensions"].rows = Dimensions
      /\ Keyed(8, createDBScheme)
  <2>1. /\ "tDimensions" \in DOMAIN t
        /\ t["tDimensions"].cols = {"dimensionname"}
        /\ DOMAIN t["tDimensions"].rows \subseteq Dimensions
        /\ IsTable(t["tDimensions"])
    BY <1>1, <1>2, <1>4 DEF Keyed
  <2> QED
    BY <1>2, <1>3, <2>1, InsertDimensionsLemma
<1> QED
  BY <1>1, <1>2, <1>5

LEMMA SchemeColumns ==
  ASSUME NEW v \in 0..9
  PROVE  /\ DOMAIN Scheme(v) = {"tToons", "tItems"} \cup (IF v >= 4 THEN {"tDimensions"} ELSE {})
                                                    \cup (IF v >= 5 THEN {"tToonStats"} ELSE {})
         /\ Scheme(v)["tToons"] = ToonCols(v) /\ Scheme(v)["tItems"] = ItemCols(v)
         /\ v >= 4 => Scheme(v)["tDimensions"] = {"dimensionname"}
         /\ v >= 5 => Scheme(v)["tToonStats"] = {"statvalue"}
BY DEF Scheme

-----------------------------------------------------------------------------
(***************************************************************************)
(* The invariant of the tables.  The version on disk is one the tables     *)
(* have reached, and so is the step of a running update; and the columns   *)
(* the version does not have hold their default, which is what makes the   *)
(* cases that do not copy them harmless.                                   *)
(***************************************************************************)
Defaults(v, t) ==
  /\ \A col \in ToonCols(8) : col \in ToonCols(v) \/ Zero(t, "tToons", col)
  /\ \A col \in ItemCols(8) : col \in ItemCols(v) \/ Zero(t, "tItems", col)

Progress ==
  /\ pc = "create" => version = 0 /\ DOMAIN tables = {}
  /\ pc = "ask" => step = version /\ step \in 0..7
  /\ pc = "update" => step \in 0..8 /\ version <= step /\ Reached(step, tables)
  /\ pc = "view" => version = 0 /\ Reached(8, tables)
  /\ pc \in {"sync", "run"} => version = 8

DbInv ==
  /\ version \in 0..9
  /\ Reached(version, tables)
  /\ version # 0 => "tItems" \in DOMAIN tables /\ Defaults(version, tables)
  /\ ~exists => pc = "off" /\ version = 0 /\ DOMAIN tables = {}
  /\ Progress

LEMMA DbInvInit == Init => DbInv
<1> SUFFICES ASSUME Init PROVE DbInv
  OBVIOUS
<1>1. CASE exists = FALSE
  <2>1. version = 0 /\ DOMAIN tables = {} /\ pc = "off"
    BY <1>1 DEF Init
  <2> QED
    BY <1>1, <2>1 DEF DbInv, Progress, Reached, Keyed
<1>2. CASE exists = TRUE
  <2>1. version \in 0..9 /\ tables \in OldTables(version) /\ pc = "off"
    BY <1>2 DEF Init, CURRENT_DB_VERSION
  <2>2. /\ DOMAIN tables = DOMAIN Scheme(version)
        /\ \A n \in DOMAIN tables : tables[n].cols = Scheme(version)[n]
        /\ "tDimensions" \in DOMAIN tables =>
             tables["tDimensions"].rows = RowsOf(createDBScheme, "tDimensions")
        /\ \A n \in DOMAIN tables :
             /\ IsTable(tables[n])
             /\ n # "tToons" \/ version # 0 => tables[n].unique /\ tables[n].twice = {}
    <3> DEFINE Table(toons, items, twice) ==
                 [n \in DOMAIN Scheme(version) |->
                        [cols |-> Scheme(version)[n],
                         rows |-> CASE n = "tToons" -> toons
                                    [] n = "tItems" -> items
                                    [] n = "tDimensions" -> RowsOf(createDBScheme, n)
                                    [] n = "tToonStats" -> NoRows,
                         unique |-> n # "tToons" \/ version # 0,
                         twice |-> IF n = "tToons" THEN twice ELSE {}]]
               Twices(toons) == IF version = 0 THEN SUBSET DOMAIN toons ELSE {{}}
    <3>0. PICK toons \in Rows(CharIds, ToonCols(version)),
               items \in Rows(ItemIds, ItemCols(version)) :
            \E twice \in Twices(toons) : tables = Table(toons, items, twice)
      <4>1. OldTables(version) =
              UNION {{Table(toons, items, twice) : twice \in Twices(toons)} :
                       toons \in Rows(CharIds, ToonCols(version)),
                       items \in Rows(ItemIds, ItemCols(version))}
        BY DEF OldTables
      <4> HIDE DEF Table, Twices
      <4> QED
        BY <2>1, <4>1
    <3>1. PICK twice \in Twices(toons) : tables = Table(toons, items, twice)
      BY <3>0
    <3>2. version # 0 => twice = {}
      OBVIOUS
    <3> QED
      BY <3>1, <3>2 DEF IsTable
  <2>3. DOMAIN RowsOf(createDBScheme, "tDimensions") = Dimensions
    BY CreatedScheme DEF RowsOf, Names
  <2>4. Reached(version, tables)
    <3>1. /\ ToonCols(version) \subseteq ToonCols(8)
          /\ ItemCols(version) \subseteq ItemCols(8)
      BY <2>1 DEF ToonCols, ItemCols
    <3>2. Keyed(version, tables)
      BY <2>1, <2>2 DEF Keyed
    <3> QED
      BY <2>1, <2>2, <2>3, <3>1, <3>2, SchemeColumns DEF Reached, Names
  <2>5. "tItems" \in DOMAIN tables /\ Defaults(version, tables)
    <3>1. /\ "tItems" \in DOMAIN tables /\ tables["tItems"].cols = ItemCols(version)
          /\ "tToons" \in DOMAIN tables /\ tables["tToons"].cols = ToonCols(version)
      BY <2>1, <2>2, SchemeColumns
    <3> QED
      BY <3>1 DEF Defaults, Zero, Column
  <2> QED
    BY <1>2, <2>1, <2>4, <2>5 DEF DbInv, Progress
<1> QED
  BY <1>1, <1>2 DEF Init

\* A case keeps every column, if the version is one the update started from, but
\* for the toons if a charid occurs twice.
LEMMA UpdateKeepsAll ==
  ASSUME DbInv, UpdateCase
  PROVE  /\ Twice(tables, "tToons") = {} => Same(tables, tables', "tToons", {"charname"})
         /\ step # 0 => Twice(tables, "tToons") = {}
         /\ Same(tables, tables', "tItems", {"item"})
         /\ version # 0 => /\ Same(tables, tables', "tToons", ToonCols(8))
                           /\ Same(tables, tables', "tItems", ItemCols(8))
<1>1. /\ step \in 0..7 /\ version \in 0..step /\ Reached(step, tables)
      /\ tables' = Update(step, tables)
  BY DEF UpdateCase, At, DbInv, Progress, CURRENT_DB_VERSION
<1>2. {"charname"} \subseteq ToonCols(step) /\ {"item"} \subseteq ItemCols(step)
  BY DEF ToonCols, ItemCols
<1>k. step # 0 => Twice(tables, "tToons") = {}
  BY <1>1, KeyedTwice DEF Reached
<1>3. /\ Twice(tables, "tToons") = {} => Same(tables, tables', "tToons", {"charname"})
      /\ Same(tables, tables', "tItems", {"item"})
  BY <1>1, <1>2, UpdateKeeps
<1>4. ASSUME version # 0
      PROVE  /\ Same(tables, tables', "tToons", ToonCols(8))
             /\ Same(tables, tables', "tItems", ItemCols(8))
  <2>1. ToonCols(version) \subseteq ToonCols(step) /\ ItemCols(version) \subseteq ItemCols(step)
    BY <1>1 DEF ToonCols, ItemCols
  <2>2. /\ \A col \in ToonCols(8) : col \in ToonCols(step) \/ Zero(tables, "tToons", col)
        /\ \A col \in ItemCols(8) : col \in ItemCols(step) \/ Zero(tables, "tItems", col)
    BY <1>4, <2>1 DEF DbInv, Defaults
  <2>3. Twice(tables, "tToons") = {}
    BY <1>1, <1>4, <1>k
  <2> QED
    BY <1>1, <2>2, <2>3, UpdateKeeps
<1> QED
  BY <1>3, <1>4, <1>k

LEMMA DbInvStep == DbInv /\ [Next]_vars => DbInv'
<1> SUFFICES ASSUME DbInv, [Next]_vars PROVE DbInv'
  OBVIOUS
<1> USE DEF At, Goto
<1>1. CASE Open
  BY <1>1 DEF Open, DbInv, Progress
<1>2. CASE CreateScheme
  <2>1. exists /\ exists' = exists /\ tables' = createDBScheme /\ version' = 8 /\ pc' = "version"
    BY <1>2 DEF CreateScheme, DbInv, CURRENT_DB_VERSION
  <2>2. Reached(8, createDBScheme)
    BY CreatedScheme, SchemeColumns DEF Reached, Names
  <2>3. Defaults(8, createDBScheme)
    BY DEF Defaults
  <2>4. "tItems" \in DOMAIN createDBScheme
    BY CreatedScheme DEF Names
  <2>5. Progress'
    BY <2>1 DEF Progress
  <2> QED
    BY <2>1, <2>2, <2>3, <2>4, <2>5 DEF DbInv
<1>3. CASE CheckVersion
  <2>1. /\ UNCHANGED db /\ step' = version /\ exists
        /\ pc' = CASE version < 8 -> "ask" [] version = 8 -> "sync" [] version > 8 -> "off"
    BY <1>3 DEF CheckVersion, DbInv, CURRENT_DB_VERSION
  <2>2. Progress'
    BY <2>1 DEF Progress, DbInv, db
  <2> QED
    BY <2>1, <2>2 DEF DbInv, db
<1>4. CASE Answer
  <2>1. Progress'
    BY <1>4 DEF Answer, Progress, DbInv, db
  <2> QED
    BY <1>4, <2>1 DEF Answer, DbInv, db
<1>5. CASE UpdateCase
  <2>1. /\ step \in 0..7 /\ version \in 0..step /\ Reached(step, tables)
        /\ tables' = Update(step, tables) /\ exists
        /\ step' = step + 1 /\ UNCHANGED <<exists, version, pc>> /\ pc = "update"
    BY <1>5 DEF UpdateCase, DbInv, Progress, CURRENT_DB_VERSION
  <2>2. Reached(step + 1, tables') /\ DOMAIN tables \subseteq DOMAIN tables'
    BY <2>1, UpdateReaches
  <2>3. Reached(version, tables')
    BY <2>1, <2>2, ReachedBefore
  <2>4. version # 0 => Defaults(version, tables')
    BY <1>5, UpdateKeepsAll, SameZero DEF DbInv, Defaults
  <2>5. Progress'
    BY <2>1, <2>2 DEF Progress
  <2> QED
    BY <2>1, <2>2, <2>3, <2>4, <2>5 DEF DbInv
<1>6. CASE DropView
  <2>1. /\ Reached(8, tables) /\ version' = 0 /\ pc' = "view"
        /\ UNCHANGED <<exists, tables, step>> /\ exists
    BY <1>6 DEF DropView, DbInv, Progress, CURRENT_DB_VERSION
  <2>2. Reached(0, tables)
    BY <2>1, ReachedBefore
  <2>3. Progress'
    BY <2>1 DEF Progress
  <2> QED
    BY <2>1, <2>2, <2>3 DEF DbInv
<1>7. CASE CreateView
  <2>1. /\ Reached(8, tables) /\ version' = 8 /\ pc' = "sync"
        /\ UNCHANGED <<exists, tables, step>> /\ exists
    BY <1>7 DEF CreateView, DbInv, Progress, CURRENT_DB_VERSION
  <2>2. Progress'
    BY <2>1 DEF Progress
  <2> QED
    BY <2>1, <2>2 DEF DbInv, Reached, Defaults
<1>8. CASE Sync \/ Game
  BY <1>8 DEF Sync, Game, DbInv, Progress, db
<1>9. CASE Synced
  <2>1. Progress'
    BY <1>9 DEF Synced, Progress, DbInv, db
  <2> QED
    BY <1>9, <2>1 DEF Synced, DbInv, db
<1>10. CASE Exit
  BY <1>10 DEF Exit, DbInv, Progress, db
\* At work no column is added and no table: for the current version that is all.
<1>11. ASSUME pc = "run", UNCHANGED <<exists, version, pc, step>>,
              DOMAIN tables' = DOMAIN tables,
              \A n \in DOMAIN tables :
                /\ DOMAIN tables'[n] = DOMAIN tables[n] /\ tables'[n].cols = tables[n].cols
                /\ tables'[n].unique = tables[n].unique /\ tables'[n].twice = tables[n].twice,
              tables'["tDimensions"] = tables["tDimensions"]
       PROVE  DbInv'
  <2>1. version = 8 /\ Reached(8, tables) /\ "tItems" \in DOMAIN tables /\ exists
    BY <1>11 DEF DbInv, Progress
  <2>k. Keyed(8, tables')
    BY <1>11, <2>1 DEF Reached, Keyed, IsTable
  <2>2. Reached(8, tables')
    BY <1>11, <2>1, <2>k DEF Reached, Names
  <2>3. Defaults(8, tables')
    BY DEF Defaults
  <2>4. Progress'
    BY <1>11, <2>1 DEF Progress
  <2> QED
    BY <1>11, <2>1, <2>2, <2>3, <2>4 DEF DbInv
<1>12. CASE \E c \in CharIds : SetToonName(c) \/ SetToonShopId(c)
  <2>0. pc = "run" => "tToons" \in DOMAIN tables /\ "tDimensions" \in DOMAIN tables
    BY DEF DbInv, Progress, Reached
  <2>1. ASSUME NEW c \in CharIds, SetToonName(c) PROVE DbInv'
    <3>1. PICK r : tables' = Put(tables, "tToons", [tables["tToons"] EXCEPT !.rows = r])
      BY <2>1 DEF SetToonName
    <3>2. /\ DOMAIN tables' = DOMAIN tables
          /\ \A n \in DOMAIN tables :
               /\ DOMAIN tables'[n] = DOMAIN tables[n] /\ tables'[n].cols = tables[n].cols
               /\ tables'[n].unique = tables[n].unique /\ tables'[n].twice = tables[n].twice
          /\ tables'["tDimensions"] = tables["tDimensions"]
      BY <2>0, <2>1, <3>1 DEF Put, SetToonName
    <3> QED
      BY <1>11, <2>1, <3>2 DEF SetToonName
  <2>2. ASSUME NEW c \in CharIds, SetToonShopId(c) PROVE DbInv'
    <3>1. PICK shop \in Values :
            tables' = [tables EXCEPT !["tToons"].rows[c]["shopid"] = shop]
      BY <2>2 DEF SetToonShopId
    <3>2. /\ DOMAIN tables' = DOMAIN tables
          /\ \A n \in DOMAIN tables :
               /\ DOMAIN tables'[n] = DOMAIN tables[n] /\ tables'[n].cols = tables[n].cols
               /\ tables'[n].unique = tables[n].unique /\ tables'[n].twice = tables[n].twice
          /\ tables'["tDimensions"] = tables["tDimensions"]
      BY <2>0, <2>2, <3>1 DEF SetToonShopId
    <3> QED
      BY <1>11, <2>2, <3>2 DEF SetToonShopId
  <2> QED
    BY <1>12, <2>1, <2>2
<1>13. CASE \E i \in ItemIds : InsertItem(i)
  <2>1. PICK i \in ItemIds : InsertItem(i)
    BY <1>13
  <2>2. PICK values : tables' = Insert(tables, "tItems", {i}, values)
    BY <2>1 DEF InsertItem
  <2>3. pc = "run" /\ "tItems" \in DOMAIN tables /\ "tDimensions" \in DOMAIN tables
    BY <2>1 DEF InsertItem, DbInv, Progress, Reached
  <2>4. /\ DOMAIN tables' = DOMAIN tables
        /\ \A n \in DOMAIN tables :
             /\ DOMAIN tables'[n] = DOMAIN tables[n] /\ tables'[n].cols = tables[n].cols
             /\ tables'[n].unique = tables[n].unique /\ tables'[n].twice = tables[n].twice
        /\ tables'["tDimensions"] = tables["tDimensions"]
    BY <2>2, <2>3 DEF Insert, Put
  <2> QED
    BY <1>11, <2>1, <2>3, <2>4 DEF InsertItem
<1>14. CASE UNCHANGED vars
  BY <1>14 DEF vars, DbInv, Progress
<1> QED
  BY <1>1, <1>2, <1>3, <1>4, <1>5, <1>6, <1>7, <1>8, <1>9, <1>10, <1>12, <1>13, <1>14
     DEF Next

LEMMA DbInvariant == Spec => []DbInv
BY DbInvInit, DbInvStep, PTL DEF Spec

-----------------------------------------------------------------------------
(***************************************************************************)
(* Theorems about the tables.                                              *)
(***************************************************************************)

\* init ends with the tables of the current version, from whatever version and
\* however often it is interrupted.
THEOREM SchemeIsCurrentHolds == Spec => []SchemeIsCurrent
<1>1. DbInv => SchemeIsCurrent
  <2> SUFFICES ASSUME DbInv, pc \in {"sync", "run"}
               PROVE  /\ HasScheme(tables, Scheme(CURRENT_DB_VERSION))
                      /\ DOMAIN tables["tDimensions"].rows = Dimensions
    BY DEF SchemeIsCurrent
  <2>1. Reached(8, tables) /\ "tItems" \in DOMAIN tables
    BY DEF DbInv, Progress
  <2>2. DOMAIN Scheme(8) = Names /\ DOMAIN tables = Names
    BY <2>1, SchemeColumns DEF Reached, Names
  <2>4. \A n \in Names : tables[n].unique
    BY <2>1, <2>2 DEF Reached, Keyed
  <2>3. \A n \in Names : tables[n].cols = Scheme(8)[n]
    <3>1. /\ tables["tToons"].cols = ToonCols(8)
          /\ tables["tItems"].cols = ItemCols(8)
          /\ tables["tDimensions"].cols = {"dimensionname"}
          /\ tables["tToonStats"].cols = {"statvalue"}
      BY <2>1, <2>2 DEF Reached, Names
    <3>2. /\ Scheme(8)["tToons"] = ToonCols(8)
          /\ Scheme(8)["tItems"] = ItemCols(8)
          /\ Scheme(8)["tDimensions"] = {"dimensionname"}
          /\ Scheme(8)["tToonStats"] = {"statvalue"}
      BY SchemeColumns
    <3> QED
      BY <3>1, <3>2 DEF Names
  <2> QED
    BY <2>1, <2>2, <2>3, <2>4 DEF HasScheme, CURRENT_DB_VERSION, Reached, Names
<1> QED
  BY <1>1, DbInvariant, PTL

\* The version on disk is never ahead of the tables.
THEOREM VersionIsHonestHolds == Spec => []VersionIsHonest
<1>1. DbInv => VersionIsHonest
  <2> SUFFICES ASSUME DbInv, version # 0, NEW n \in DOMAIN Scheme(version)
               PROVE  n \in DOMAIN tables /\ Scheme(version)[n] \subseteq tables[n].cols
    BY DEF VersionIsHonest
  <2>1. version \in 0..9 /\ Reached(version, tables) /\ "tItems" \in DOMAIN tables
    BY DEF DbInv
  <2> QED
    BY <2>1, SchemeColumns DEF Reached
<1> QED
  BY <1>1, DbInvariant, PTL

\* The tables change at three steps of init only: where they are created there
\* was none, so nothing is lost.
LEMMA TablesChange ==
  ASSUME DbInv, [Next]_vars, ~At("run"), tables' # tables
  PROVE  UpdateCase \/ (CreateScheme /\ version = 0)
<1>1. Sync \/ Synced \/ Exit \/ Game => tables' = tables
  BY DEF Sync, Synced, Exit, Game, db
<1>2. Open \/ CheckVersion \/ Answer \/ DropView \/ CreateView => tables' = tables
  BY DEF Open, CheckVersion, Answer, DropView, CreateView, db
<1>3. \A c \in CharIds : ~SetToonName(c) /\ ~SetToonShopId(c)
  BY DEF SetToonName, SetToonShopId
<1>4. \A i \in ItemIds : ~InsertItem(i)
  BY DEF InsertItem
<1>5. CreateScheme => version = 0
  BY DEF CreateScheme, At, DbInv, Progress
<1> QED
  BY <1>1, <1>2, <1>3, <1>4, <1>5 DEF Next, vars

\* No start, complete or not, loses an item, nor a toon unless a charid occurs
\* twice in version 0.
THEOREM RowsKeptHolds == Spec => RowsKept
<1>1. DbInv /\ [Next]_vars =>
        [~At("run") => /\ Keeps("tItems", "item")
                       /\ Keeps("tToons", "charname") \/ TwiceInVersion0]_vars
  <2> SUFFICES ASSUME DbInv, [Next]_vars, ~At("run"), tables' # tables
               PROVE  /\ Keeps("tItems", "item")
                      /\ Keeps("tToons", "charname") \/ TwiceInVersion0
    BY DEF Keeps
  <2>1. CASE UpdateCase
    <3>1. At("update")
      BY <2>1 DEF UpdateCase
    <3> QED
      BY <2>1, <3>1, UpdateKeepsAll DEF Same, Keeps, TwiceInVersion0
  <2>2. CASE CreateScheme
    <3>1. DOMAIN tables = {} /\ tables' = createDBScheme
      BY <2>2 DEF CreateScheme, At, DbInv, Progress
    <3>2. /\ RowsOf(tables', "tToons") = NoRows /\ RowsOf(tables, "tToons") = NoRows
          /\ RowsOf(tables', "tItems") = NoRows /\ RowsOf(tables, "tItems") = NoRows
          /\ DOMAIN NoRows = {}
      BY <3>1, CreatedScheme DEF RowsOf, NoRows, Names
    <3> QED
      BY <3>2 DEF Keeps, Column
  <2> QED
    BY <2>1, <2>2, TablesChange
<1> QED
  BY <1>1, DbInvariant, PTL DEF Spec, RowsKept

\* Nor what later versions added, while the version is on disk.
THEOREM ColumnsKeptHolds == Spec => ColumnsKept
<1>1. DbInv /\ [Next]_vars =>
        [~At("run") /\ version # 0 =>
           /\ Keeps("tToons", "shopid") /\ Keeps("tToons", "dimensionid")
           /\ Keeps("tItems", "flags")]_vars
  <2> SUFFICES ASSUME DbInv, [Next]_vars, ~At("run"), version # 0, tables' # tables
               PROVE  /\ Keeps("tToons", "shopid") /\ Keeps("tToons", "dimensionid")
                      /\ Keeps("tItems", "flags")
    BY DEF Keeps
  <2>1. UpdateCase
    BY TablesChange
  <2>2. {"shopid", "dimensionid"} \subseteq ToonCols(8) /\ "flags" \in ItemCols(8)
    BY DEF ToonCols, ItemCols
  <2> QED
    BY <2>1, <2>2, UpdateKeepsAll DEF Same, Keeps
<1> QED
  BY <1>1, DbInvariant, PTL DEF Spec, ColumnsKept

-----------------------------------------------------------------------------
(***************************************************************************)
(* The invariant of the items data base.  A file that may become the local *)
(* one is complete, and if it is as late as the game's it was extracted    *)
(* from its revision alone, unless a patch raced with the extraction.      *)
(***************************************************************************)
Files == [scheme : {"none", "old", "current"}, time : Nat, revisions : SUBSET Nat,
          complete : BOOLEAN, raced : BOOLEAN]

Sound(f) ==
  /\ f.complete /\ f.scheme # "none" /\ f.time <= origTime
  /\ f.time = origTime => f.revisions = {origTime} \/ f.raced

\* What has been extracted so far.
Extracting ==
  /\ tmp.scheme = "current" /\ ~tmp.complete
  /\ \/ tmp.raced
     \/ tmp.revisions = (IF part = 0 THEN {} ELSE {origTime})

ItemsInv ==
  /\ origTime \in Nat \ {0} /\ original \in {0, origTime}
  /\ part \in Nat
  /\ local \in Files /\ tmp \in Files
  /\ local = NoFile \/ Sound(local)
  /\ sync = "ask" => local.scheme = "current"
  /\ sync = "extract" => Extracting
  /\ sync \in {"remove", "rename"} => Sound(tmp) /\ tmp.scheme = "current"

LEMMA NoFileFacts == NoFile \in Files /\ NoFile.scheme = "none" /\ ~NoFile.complete
BY DEF NoFile, Files

LEMMA ItemsInvInit == Init => ItemsInv
<1> SUFFICES ASSUME ItemsInit PROVE ItemsInv
  BY DEF Init
<1>1. local = NoFile \/ (local \in Files /\ Sound(local))
  <2> SUFFICES ASSUME local # NoFile PROVE local \in Files /\ Sound(local)
    OBVIOUS
  <2>1. local \in [scheme : {"old", "current"}, time : {1}, revisions : {{1}},
                   complete : {TRUE}, raced : {FALSE}]
    BY DEF ItemsInit
  <2>2. /\ local.scheme \in {"old", "current"} /\ local.time = 1
        /\ local.revisions = {1} /\ local.complete = TRUE
    BY <2>1
  <2>3. local \in Files
    <3>1. PICK scheme \in {"old", "current"} :
            local = [scheme |-> scheme, time |-> 1, revisions |-> {1},
                     complete |-> TRUE, raced |-> FALSE]
      BY <2>1
    <3> DEFINE one == {1}
    <3>2. one \in SUBSET Nat
      OBVIOUS
    <3>3. local = [scheme |-> scheme, time |-> 1, revisions |-> one,
                   complete |-> TRUE, raced |-> FALSE]
      BY <3>1
    <3> HIDE DEF one
    <3> QED
      BY <3>2, <3>3 DEF Files
  <2>4. origTime = 1
    BY DEF ItemsInit
  <2>5. Sound(local)
    BY <2>2, <2>4 DEF Sound
  <2> QED
    BY <2>3, <2>5
<1> QED
  BY <1>1, NoFileFacts DEF ItemsInit, ItemsInv

\* A step that moves the program counter only, to a point that expects nothing.
LEMMA ItemsInvMove ==
  ASSUME ItemsInv, UNCHANGED <<original, origTime, local, tmp, part>>,
         sync' \notin {"ask", "extract", "remove", "rename"} \/ sync' = sync
  PROVE  ItemsInv'
BY DEF ItemsInv, Sound, Extracting

LEMMA SyncStepInv == ItemsInv /\ SyncStep => ItemsInv'
<1> SUFFICES ASSUME ItemsInv, SyncStep PROVE ItemsInv'
  OBVIOUS
<1> USE DEF SyncAt
<1>1. CASE Missing \/ UpToDate \/ AnswerNo \/ GiveUp
  BY <1>1, ItemsInvMove DEF Missing, UpToDate, AnswerNo, GiveUp, Return
<1>2. CASE OutOfDate
  BY <1>2 DEF OutOfDate, Compatible, ItemsInv, Sound
<1>3. CASE Extract
  <2>1. /\ tmp' \in Files /\ tmp'.scheme = "current" /\ ~tmp'.complete
        /\ tmp'.revisions = {}
    BY <1>3 DEF Extract, NoFile, Files, ItemsInv
  <2>2. /\ sync' = "extract" /\ part' = 0 /\ UNCHANGED <<original, origTime, local>>
    BY <1>3 DEF Extract
  <2> QED
    BY <2>1, <2>2 DEF ItemsInv, Extracting, Sound
<1>4. CASE WritePart
  <2>1. /\ original = origTime /\ part' = part + 1 /\ part \in Nat
        /\ UNCHANGED <<original, origTime, local, sync>>
        /\ sync = "extract" /\ Extracting
    BY <1>4 DEF WritePart, ItemsInv
  <2>2. /\ tmp' \in Files
        /\ tmp'.scheme = tmp.scheme /\ tmp'.complete = tmp.complete
        /\ tmp'.raced = tmp.raced
        /\ tmp'.revisions = tmp.revisions \cup {origTime}
    BY <1>4, <2>1 DEF WritePart, Files, ItemsInv
  <2>3. Extracting'
    BY <2>1, <2>2 DEF Extracting
  <2> QED
    BY <2>1, <2>2, <2>3 DEF ItemsInv, Sound
<1>5. CASE PostProcessData
  <2>1. /\ part # 0 /\ sync' = "remove" /\ Extracting
        /\ UNCHANGED <<original, origTime, local, part>>
    BY <1>5, PartsAssumption DEF PostProcessData, ItemsInv
  <2>2. /\ tmp' \in Files
        /\ tmp'.scheme = tmp.scheme /\ tmp'.complete
        /\ tmp'.raced = tmp.raced /\ tmp'.revisions = tmp.revisions
        /\ tmp'.time = origTime
    BY <1>5 DEF PostProcessData, Files, ItemsInv
  <2>3. Sound(tmp)' /\ tmp'.scheme = "current"
    BY <2>1, <2>2 DEF Extracting, Sound, ItemsInv
  <2> QED
    BY <2>1, <2>2, <2>3 DEF ItemsInv, Sound
<1>6. CASE RemoveLocal
  BY <1>6, NoFileFacts DEF RemoveLocal, ItemsInv, Sound
<1>7. CASE RenameTmp
  BY <1>7, NoFileFacts DEF RenameTmp, Return, ItemsInv, Sound
<1> QED
  BY <1>1, <1>2, <1>3, <1>4, <1>5, <1>6, <1>7 DEF SyncStep

LEMMA GameInv == ItemsInv /\ Game => ItemsInv'
<1> SUFFICES ASSUME ItemsInv, Game PROVE ItemsInv'
  OBVIOUS
<1>1. CASE Patch
  <2>1. /\ original' = origTime' /\ origTime' = origTime + 1 /\ origTime \in Nat
        /\ UNCHANGED <<local, sync, part>>
    BY <1>1 DEF Patch, ItemsInv
  <2>2. /\ tmp' \in Files
        /\ tmp'.scheme = tmp.scheme /\ tmp'.complete = tmp.complete
        /\ tmp'.time = tmp.time
        /\ sync = "extract" => tmp'.raced
        /\ sync # "extract" => tmp' = tmp
    BY <1>1 DEF Patch, SyncAt, Files, ItemsInv
  <2>3. local = NoFile \/ Sound(local)'
    BY <2>1 DEF ItemsInv, Sound, Files
  <2>4. sync \in {"remove", "rename"} => Sound(tmp)' /\ tmp'.scheme = "current"
    BY <2>1, <2>2 DEF ItemsInv, Sound, Files
  <2>5. sync = "extract" => Extracting'
    BY <2>2 DEF ItemsInv, Extracting
  <2> QED
    BY <2>1, <2>2, <2>3, <2>4, <2>5 DEF ItemsInv
<1>2. CASE Uninstall
  BY <1>2 DEF Uninstall, ItemsInv, Sound, Extracting
<1> QED
  BY <1>1, <1>2 DEF Game

LEMMA ItemsInvStep == ItemsInv /\ [Next]_vars => ItemsInv'
<1> SUFFICES ASSUME ItemsInv, [Next]_vars PROVE ItemsInv'
  OBVIOUS
<1>1. CASE Sync
  BY <1>1, SyncStepInv DEF Sync
<1>2. CASE Game
  BY <1>2, GameInv
<1>3. CASE CheckVersion \/ CreateView \/ Synced \/ Exit
  BY <1>3, ItemsInvMove DEF CheckVersion, CreateView, Synced, Exit
<1>4. CASE UNCHANGED itemsVars
  BY <1>4, ItemsInvMove DEF itemsVars
<1>5. CASE Open \/ CreateScheme \/ Answer \/ UpdateCase \/ DropView
  BY <1>4, <1>5 DEF Open, CreateScheme, Answer, UpdateCase, DropView
<1>6. ASSUME NEW c \in CharIds, SetToonName(c) \/ SetToonShopId(c) PROVE ItemsInv'
  BY <1>4, <1>6 DEF SetToonName, SetToonShopId
<1>7. ASSUME NEW i \in ItemIds, InsertItem(i) PROVE ItemsInv'
  BY <1>4, <1>7 DEF InsertItem
<1> QED
  BY <1>1, <1>2, <1>3, <1>4, <1>5, <1>6, <1>7 DEF Next, vars

LEMMA ItemsInvariant == Spec => []ItemsInv
BY ItemsInvInit, ItemsInvStep, PTL DEF Spec

-----------------------------------------------------------------------------
(***************************************************************************)
(* Theorems about the items data base.                                     *)
(***************************************************************************)

\* A file of the name aoitems.db is a complete extraction.
THEOREM LocalIsCompleteHolds == Spec => []LocalIsComplete
<1>1. ItemsInv => LocalIsComplete
  BY DEF ItemsInv, LocalIsComplete, Sound
<1> QED
  BY <1>1, ItemsInvariant, PTL

\* Steps outside of syncLocalItemsDB leave the files alone and do not end it.
LEMMA OtherSteps ==
  ASSUME [Next]_vars, ~Sync
  PROVE  local' = local /\ (sync' = sync \/ sync' \in {"check", "idle"})
<1>1. CASE CheckVersion \/ CreateView \/ Synced \/ Exit
  BY <1>1 DEF CheckVersion, CreateView, Synced, Exit
<1>2. CASE Open \/ CreateScheme \/ Answer \/ UpdateCase \/ DropView
  BY <1>2 DEF Open, CreateScheme, Answer, UpdateCase, DropView, itemsVars
<1>3. ASSUME NEW c \in CharIds, SetToonName(c) \/ SetToonShopId(c)
      PROVE  local' = local /\ sync' = sync
  BY <1>3 DEF SetToonName, SetToonShopId, itemsVars
<1>4. ASSUME NEW i \in ItemIds, InsertItem(i) PROVE local' = local /\ sync' = sync
  BY <1>4 DEF InsertItem, itemsVars
<1>5. CASE Game
  BY <1>5 DEF Game, Patch, Uninstall
<1>6. CASE UNCHANGED vars
  BY <1>6 DEF vars, itemsVars
<1> QED
  BY <1>1, <1>2, <1>3, <1>4, <1>5, <1>6 DEF Next

\* aoitems.db is removed only when its replacement is there.
THEOREM ReplacementIsReadyHolds == Spec => ReplacementIsReady
<1>1. ItemsInv /\ [Next]_vars =>
        [local # NoFile /\ local' = NoFile => tmp.complete /\ tmp.scheme = "current"]_itemsVars
  <2> SUFFICES ASSUME ItemsInv, [Next]_vars, local # NoFile, local' = NoFile
               PROVE  tmp.complete /\ tmp.scheme = "current"
    OBVIOUS
  <2>1. SyncStep
    BY OtherSteps DEF Sync
  <2>2. RemoveLocal \/ RenameTmp
    BY <2>1 DEF SyncStep, Missing, UpToDate, OutOfDate, AnswerNo, Extract, WritePart,
                GiveUp, PostProcessData
  <2>3. sync \in {"remove", "rename"}
    BY <2>2 DEF RemoveLocal, RenameTmp, SyncAt
  <2> QED
    BY <2>3 DEF ItemsInv, Sound
<1> QED
  BY <1>1, ItemsInvariant, PTL DEF Spec, ReplacementIsReady

\* The steps that end syncLocalItemsDB with true.
LEMMA TrueSteps ==
  ASSUME [Next]_vars, sync' # sync, sync' = "true"
  PROVE  (Missing /\ local # NoFile) \/ UpToDate \/ AnswerNo \/ RenameTmp
<1>1. SyncStep
  BY OtherSteps DEF Sync
<1>2. ~OutOfDate /\ ~Extract /\ ~WritePart /\ ~PostProcessData /\ ~RemoveLocal /\ ~GiveUp
  BY DEF OutOfDate, Extract, WritePart, PostProcessData, RemoveLocal, GiveUp, Return
<1>3. Missing => local # NoFile
  BY DEF Missing, Return
<1> QED
  BY <1>1, <1>2, <1>3 DEF SyncStep

\* True means that there is a local data base to run with.
THEOREM TrueMeansUsableHolds == Spec => TrueMeansUsable
<1>1. ItemsInv /\ [Next]_vars =>
        [sync # sync' /\ sync' = "true" =>
           /\ local'.complete
           /\ local'.scheme = "current" \/ original = 0]_itemsVars
  <2> SUFFICES ASSUME ItemsInv, [Next]_vars, sync' # sync, sync' = "true"
               PROVE  /\ local'.complete
                      /\ local'.scheme = "current" \/ original = 0
    OBVIOUS
  <2>1. CASE Missing /\ local # NoFile
    BY <2>1 DEF Missing, ItemsInv, Sound
  <2>2. CASE UpToDate \/ AnswerNo
    <3>1. local.scheme = "current" /\ local' = local
      BY <2>2 DEF UpToDate, AnswerNo, Compatible, SyncAt, ItemsInv
    <3>2. local # NoFile
      BY <3>1, NoFileFacts
    <3> QED
      BY <3>1, <3>2 DEF ItemsInv, Sound
  <2>3. CASE RenameTmp
    BY <2>3 DEF RenameTmp, SyncAt, ItemsInv, Sound
  <2> QED
    BY <2>1, <2>2, <2>3, TrueSteps
<1> QED
  BY <1>1, ItemsInvariant, PTL DEF Spec, TrueMeansUsable

\* What the check finds up to date is, unless a patch raced with the extraction.
THEOREM UpToDateUnlessRacedHolds == Spec => UpToDateUnlessRaced
<1>1. ItemsInv /\ [Next]_vars =>
        [SyncAt("check") /\ sync' = "true" /\ original # 0 =>
           local.revisions = {original} \/ local.raced]_itemsVars
  <2> SUFFICES ASSUME ItemsInv, [Next]_vars, sync = "check", sync' = "true", original # 0
               PROVE  local.revisions = {original} \/ local.raced
    BY DEF SyncAt
  <2>1. UpToDate
    <3>1. ~AnswerNo /\ ~RenameTmp /\ ~Missing
      BY DEF AnswerNo, RenameTmp, Missing, SyncAt
    <3> QED
      BY <3>1, TrueSteps
  <2>2. local.scheme = "current" /\ origTime <= local.time
    BY <2>1 DEF UpToDate, Compatible
  <2>3. Sound(local)
    BY <2>2, NoFileFacts DEF ItemsInv
  <2>4. local.time = origTime /\ original = origTime
    BY <2>2, <2>3 DEF Sound, ItemsInv, Files
  <2> QED
    BY <2>3, <2>4 DEF Sound
<1> QED
  BY <1>1, ItemsInvariant, PTL DEF Spec, UpToDateUnlessRaced
=============================================================================
