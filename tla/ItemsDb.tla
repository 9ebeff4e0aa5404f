------------------------------- MODULE ItemsDb -------------------------------
(***************************************************************************)
(* DBManager::syncLocalItemsDB, which extracts the game's data base of     *)
(* items to the file aoitems.db when there is none, or when it has another *)
(* scheme or is older than the game's.                                     *)
(*                                                                         *)
(* The game's patcher may replace the game's data base at any time.  Its   *)
(* contents are represented by a revision, a time by the value of a clock  *)
(* that the patcher advances: it leaves at least a second, the precision   *)
(* of last_write_time, after an extraction.  The game's data base is       *)
(* ResourceDatabase.dat, .001, ... and .idx, of which the code looks at    *)
(* the time of the first only: it is assumed that every patch writes it.   *)
(***************************************************************************)
EXTENDS Naturals

CONSTANTS
  Parts,       \* parts the extraction commits separately
  MaxRevision  \* bound on the patches

ASSUME PartsAssumption == Parts \in Nat \ {0} /\ MaxRevision \in Nat \ {0}

VARIABLES
  original,  \* ResourceDatabase.dat: its revision, 0 if it is missing
  origTime,  \* and its time
  local,     \* aoitems.db
  tmp,       \* tmp_aoitems.db
  sync,      \* the program counter of syncLocalItemsDB, at the end its result
  part       \* parts written to tmp

itemsVars == <<original, origTime, local, tmp, sync, part>>

\* A file: its scheme, its time, the revisions its parts were read from, whether
\* the last step of the extraction was made, and whether a patch came while
\* it was extracted.
File == [scheme : {"none", "old", "current"}, time : 0..MaxRevision,
         revisions : SUBSET (1..MaxRevision), complete : BOOLEAN, raced : BOOLEAN]

NoFile == [scheme |-> "none", time |-> 0, revisions |-> {}, complete |-> FALSE,
           raced |-> FALSE]

SyncAt(pc) == sync = pc
Return(b) == sync' = IF b THEN "true" ELSE "false"

Compatible == local.scheme = "current"

-----------------------------------------------------------------------------
Missing ==   \* the original: whatever there is must do
  /\ SyncAt("check") /\ original = 0
  /\ Return(local # NoFile)
  /\ UNCHANGED <<original, origTime, local, tmp, part>>

\* Mutants: the scheme of the local file is not looked at, or its time.
UpToDateOfAnyScheme ==
  /\ SyncAt("check") /\ original # 0
  /\ local # NoFile /\ origTime <= local.time
  /\ Return(TRUE)
  /\ UNCHANGED <<original, origTime, local, tmp, part>>

UpToDateOfAnyTime ==
  /\ SyncAt("check") /\ original # 0
  /\ Compatible
  /\ Return(TRUE)
  /\ UNCHANGED <<original, origTime, local, tmp, part>>

UpToDate ==
  /\ SyncAt("check") /\ original # 0
  /\ Compatible /\ origTime <= local.time
  /\ Return(TRUE)
  /\ UNCHANGED <<original, origTime, local, tmp, part>>

OutOfDate ==   \* the user is asked
  /\ SyncAt("check") /\ original # 0
  /\ Compatible /\ origTime > local.time
  /\ sync' = "ask"
  /\ UNCHANGED <<original, origTime, local, tmp, part>>

AnswerNo ==
  /\ SyncAt("ask")
  /\ Return(TRUE)
  /\ UNCHANGED <<original, origTime, local, tmp, part>>

\* Mutant: the local file is removed first.
ExtractInPlace ==
  /\ \/ SyncAt("ask")
     \/ SyncAt("check") /\ original # 0 /\ ~Compatible
  /\ sync' = "extract" /\ part' = 0
  /\ tmp' = [NoFile EXCEPT !.scheme = "current", !.time = origTime]
  /\ local' = NoFile
  /\ UNCHANGED <<original, origTime>>

\* tmp is removed and opened anew with the current scheme.
Extract ==
  /\ \/ SyncAt("ask")
     \/ SyncAt("check") /\ original # 0 /\ ~Compatible
  /\ sync' = "extract" /\ part' = 0
  /\ tmp' = [NoFile EXCEPT !.scheme = "current", !.time = origTime]
  /\ UNCHANGED <<original, origTime, local>>

\* The time of tmp is that of the last write: the clock stands at origTime.
WritePart ==
  /\ SyncAt("extract") /\ original # 0 /\ part < Parts
  /\ part' = part + 1
  /\ tmp' = [tmp EXCEPT !.revisions = @ \cup {original}, !.time = origTime]
  /\ UNCHANGED <<original, origTime, local, sync>>

GiveUp ==   \* the user cancels, or the data cannot be parsed
  /\ SyncAt("extract")
  /\ Return(FALSE)
  /\ UNCHANGED <<original, origTime, local, tmp, part>>

\* Mutant: the extraction ends after the items.
PostProcessEarly ==
  /\ SyncAt("extract") /\ part >= 1
  /\ sync' = "remove"
  /\ tmp' = [tmp EXCEPT !.complete = (part = Parts), !.time = origTime]
  /\ UNCHANGED <<original, origTime, local, part>>

PostProcessData ==
  /\ SyncAt("extract") /\ part = Parts
  /\ sync' = "remove"
  /\ tmp' = [tmp EXCEPT !.complete = TRUE, !.time = origTime]
  /\ UNCHANGED <<original, origTime, local, part>>

RemoveLocal ==
  /\ SyncAt("remove") /\ sync' = "rename"
  /\ local' = NoFile
  /\ UNCHANGED <<original, origTime, tmp, part>>

RenameTmp ==
  /\ SyncAt("rename")
  /\ local' = tmp /\ tmp' = NoFile
  /\ Return(TRUE)
  /\ UNCHANGED <<original, origTime, part>>

-----------------------------------------------------------------------------
\* The game: a patch, which writes ResourceDatabase.dat whatever else it writes,
\* and its removal while the file is not open.
Patch ==
  /\ original # 0 /\ origTime < MaxRevision
  /\ original' = origTime + 1 /\ origTime' = origTime + 1
  /\ tmp' = IF SyncAt("extract") THEN [tmp EXCEPT !.raced = TRUE] ELSE tmp
  /\ UNCHANGED <<local, sync, part>>

Uninstall ==
  /\ original # 0 /\ ~SyncAt("extract")
  /\ original' = 0
  /\ UNCHANGED <<origTime, local, tmp, sync, part>>

ItemsInit ==
  /\ original \in {0, 1} /\ origTime = 1
  /\ local \in {NoFile} \cup [scheme : {"old", "current"}, time : {1}, revisions : {{1}},
                              complete : {TRUE}, raced : {FALSE}]
  /\ tmp = NoFile
  /\ sync = "idle" /\ part = 0

SyncStep ==
  \/ Missing \/ UpToDate \/ OutOfDate \/ AnswerNo \/ Extract \/ WritePart
  \/ GiveUp \/ PostProcessData \/ RemoveLocal \/ RenameTmp

-----------------------------------------------------------------------------
(***************************************************************************)
(* Properties.                                                             *)
(***************************************************************************)

\* A file of the name aoitems.db is a complete extraction, whatever step a crash
\* or the user interrupts.
LocalIsComplete == local # NoFile => local.complete

\* aoitems.db is removed only when its replacement is there.
ReplacementIsReady ==
  [][local # NoFile /\ local' = NoFile => tmp.complete /\ tmp.scheme = "current"]_itemsVars

\* "Return true if application has a local items database to run with": one
\* of the current scheme, unless there is no game to extract it from.
TrueMeansUsable ==
  [][sync # sync' /\ sync' = "true" =>
       /\ local'.complete
       /\ local'.scheme = "current" \/ original = 0]_itemsVars

\* A local data base that the check finds up to date was extracted from the
\* revision the game has, unless a patch came during the extraction: then its
\* time is later than the patch's and the difference goes unnoticed.
UpToDateUnlessRaced ==
  [][SyncAt("check") /\ sync' = "true" /\ original # 0 =>
       local.revisions = {original} \/ local.raced]_itemsVars
=============================================================================
