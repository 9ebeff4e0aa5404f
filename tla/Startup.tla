------------------------------ MODULE Startup ------------------------------
(***************************************************************************)
(* DBManager::init: opens or creates ItemAssistant.db, brings it to the    *)
(* current version and gets the items data base (module ItemsDb).  The     *)
(* process may end at any point, and is started again.                     *)
(*                                                                         *)
(* Every step commits what it writes, so the tables are those on disk.     *)
(* The version is the one the view vSchemeVersion gives, 0 without it.     *)
(***************************************************************************)
EXTENDS DbScheme, ItemsDb

VARIABLES
  exists,   \* the file ItemAssistant.db
  tables,   \* its tables
  version,  \* and its version
  pc,       \* program counter of init, "off" and "run" before and after it
  step      \* the case updateDBVersion has come to

vars == <<exists, tables, version, pc, step, itemsVars>>
db   == <<exists, tables, version>>

At(p) == pc = p
Goto(p) == pc' = p

-----------------------------------------------------------------------------
Open ==   \* sqlite3_open leaves an empty file
  /\ At("off")
  /\ exists' = TRUE
  /\ Goto(IF exists THEN "version" ELSE "create")
  /\ UNCHANGED <<tables, version, step, itemsVars>>

CreateScheme ==
  /\ At("create") /\ Goto("version")
  /\ tables' = createDBScheme /\ version' = CURRENT_DB_VERSION
  /\ UNCHANGED <<exists, step, itemsVars>>

CheckVersion ==
  /\ At("version")
  /\ step' = version
  /\ Goto(CASE version < CURRENT_DB_VERSION -> "ask"
            [] version = CURRENT_DB_VERSION -> "sync"
            [] version > CURRENT_DB_VERSION -> "off")
  /\ sync' = IF version = CURRENT_DB_VERSION THEN "check" ELSE "idle"
  /\ UNCHANGED <<db, original, origTime, local, tmp, part>>

Answer ==   \* to "needs to update its database file to a newer version"
  /\ At("ask")
  /\ Goto("update") \/ Goto("off")
  /\ UNCHANGED <<db, step, itemsVars>>

\* Mutant: the new version is recorded before the cases.
DropViewFirst ==
  /\ At("update") /\ version # 0 /\ step = version
  /\ version' = CURRENT_DB_VERSION
  /\ UNCHANGED <<exists, tables, pc, step, itemsVars>>

UpdateCase ==   \* one case of updateDBVersion, which drops through to the next
  /\ At("update") /\ step < CURRENT_DB_VERSION
  /\ tables' = Update(step, tables)
  /\ step' = step + 1
  /\ UNCHANGED <<exists, version, pc, itemsVars>>

DropView ==   \* its default: two statements without a transaction
  /\ At("update") /\ step = CURRENT_DB_VERSION
  /\ version' = 0
  /\ Goto("view")
  /\ UNCHANGED <<exists, tables, step, itemsVars>>

CreateView ==
  /\ At("view") /\ Goto("sync")
  /\ version' = CURRENT_DB_VERSION
  /\ sync' = "check"
  /\ UNCHANGED <<exists, tables, step, original, origTime, local, tmp, part>>

Sync == At("sync") /\ SyncStep /\ UNCHANGED <<db, pc, step>>

Synced ==   \* ATTACH DATABASE, or the end
  /\ At("sync") /\ sync \in {"true", "false"}
  /\ Goto(IF sync = "true" THEN "run" ELSE "off")
  /\ sync' = "idle"
  /\ UNCHANGED <<db, step, original, origTime, local, tmp, part>>

-----------------------------------------------------------------------------
\* The application at work, as far as the tables differ in their columns.

SetToonName(c) ==   \* INSERT OR REPLACE INTO tToons (charid, charname)
  /\ At("run")
  /\ \E name \in Values :
       LET toons == tables["tToons"]
           new   == Row(toons.cols, [col \in {"charname"} |-> name], {"charname"})
       IN  tables' = Put(tables, "tToons",
                         [toons EXCEPT !.rows = [k \in DOMAIN @ \cup {c} |->
                            IF k = c THEN new ELSE toons.rows[k]]])
  /\ UNCHANGED <<exists, version, pc, step, itemsVars>>

SetToonShopId(c) ==   \* UPDATE
  /\ At("run") /\ c \in DOMAIN tables["tToons"].rows
  /\ \E shop \in Values :
       tables' = [tables EXCEPT !["tToons"].rows[c]["shopid"] = shop]
  /\ UNCHANGED <<exists, version, pc, step, itemsVars>>

InsertItem(i) ==
  /\ At("run") /\ i \notin DOMAIN tables["tItems"].rows
  /\ \E item \in Values, flags \in Values \cup {0} :
       tables' = Insert(tables, "tItems", {i},
                        [col \in {"item", "flags"} |->
                           IF col = "item" THEN item ELSE flags])
  /\ UNCHANGED <<exists, version, pc, step, itemsVars>>

Exit ==   \* the end of the process, by a crash or by the user
  /\ ~At("off") /\ Goto("off")
  /\ sync' = "idle"
  /\ UNCHANGED <<db, step, original, origTime, local, tmp, part>>

Game == (Patch \/ Uninstall) /\ UNCHANGED <<db, pc, step>>

-----------------------------------------------------------------------------
\* The rows an earlier version may have left.
Rows(keys, cols) ==
  UNION {[K -> [cols -> Values]] : K \in SUBSET keys}

\* The tToons of version 0 has no unique index: a charid may occur twice.
OldTables(v) ==
  UNION {
    {[n \in DOMAIN Scheme(v) |->
        [cols |-> Scheme(v)[n],
         rows |-> CASE n = "tToons" -> toons
                    [] n = "tItems" -> items
                    [] n = "tDimensions" -> RowsOf(createDBScheme, n)
                    [] n = "tToonStats" -> NoRows,
         unique |-> n # "tToons" \/ v # 0,
         twice |-> IF n = "tToons" THEN twice ELSE {}]] :
       twice \in IF v = 0 THEN SUBSET DOMAIN toons ELSE {{}}} :
    toons \in Rows(CharIds, ToonCols(v)), items \in Rows(ItemIds, ItemCols(v))}

\* No file, or that of a version, the last of which is newer than the program.
Init ==
  /\ \/ exists = FALSE /\ version = 0 /\ tables = [n \in {} |-> 0]
     \/ /\ exists = TRUE
        /\ version \in 0..(CURRENT_DB_VERSION + 1)
        /\ tables \in OldTables(version)
  /\ pc = "off" /\ step = 0
  /\ ItemsInit

Next ==
  \/ Open \/ CreateScheme \/ CheckVersion \/ Answer
  \/ UpdateCase \/ DropView \/ CreateView
  \/ Sync \/ Synced
  \/ (\E c \in CharIds : SetToonName(c) \/ SetToonShopId(c))
  \/ (\E i \in ItemIds : InsertItem(i))
  \/ Exit \/ Game

Spec == Init /\ [][Next]_vars

-----------------------------------------------------------------------------
(***************************************************************************)
(* Properties.                                                             *)
(***************************************************************************)

\* Once init is through with the tables they are those createDBScheme makes, with
\* their columns and their unique keys, whatever version they come from, whichever
\* step of this or an earlier start was interrupted, and although failed statements
\* are ignored.
SchemeIsCurrent ==
  pc \in {"sync", "run"} =>
    /\ HasScheme(tables, Scheme(CURRENT_DB_VERSION))
    /\ DOMAIN tables["tDimensions"].rows = Dimensions

\* The version on disk is never ahead of the tables: what an interrupted update
\* leaves is updated at the next start.
VersionIsHonest ==
  version # 0 =>
    \A n \in DOMAIN Scheme(version) :
      n \in DOMAIN tables /\ Scheme(version)[n] \subseteq tables[n].cols

Keeps(name, col) == Column(tables', name, col) = Column(tables, name, col)

\* The copy back of case 0 fails: its table has a unique index, the charids do
\* not allow it, and the second table is dropped.
TwiceInVersion0 == At("update") /\ step = 0 /\ Twice(tables, "tToons") # {}

\* A start, complete or interrupted and begun again, with the version on disk or
\* lost between the two statements that replace it, loses no item, and no toon
\* but in one case: from version 0 with a charid that occurs twice case 0 loses
\* all of them.
RowsKept ==
  [][~At("run") => /\ Keeps("tItems", "item")
                   /\ Keeps("tToons", "charname") \/ TwiceInVersion0]_vars

\* Nor what later versions added, unless the view of the version was lost
\* between the two statements that replace it: then the update begins with
\* case 0, which copies the names only.
ColumnsKept ==
  [][~At("run") /\ version # 0 =>
       /\ Keeps("tToons", "shopid") /\ Keeps("tToons", "dimensionid")
       /\ Keeps("tItems", "flags")]_vars
=============================================================================
