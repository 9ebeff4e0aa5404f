----------------------------- MODULE Extraction -----------------------------
(***************************************************************************)
(* Startup with the extraction itself: AODatabaseIndex reads the offsets   *)
(* of the records from ResourceDatabase.idx, AODatabaseParser the records  *)
(* from ResourceDatabase.dat, .001, .002, ..., which it treats as one file *)
(* (an offset goes on where the file before ends, without the header that  *)
(* each file begins with).  Items are read first, then nano programs; a    *)
(* record that cannot be read is left out.                                 *)
(*                                                                         *)
(* A patch of the game keeps the layout of its files.                      *)
(* The contents of a record are abstracted to its offset; records whose    *)
(* header or payload is damaged are not considered.                        *)
(***************************************************************************)
EXTENDS Startup, Integers

CONSTANTS
  N,         \* number of files
  Size,      \* their sizes
  Header,    \* the size of a file's header, 0x1000
  Indexes,   \* what ResourceDatabase.idx may hold
  BlockSize  \* the size of a block of it

DataFiles == 1..N

ASSUME FilesAssumption ==
  /\ N \in Nat \ {0} /\ Header \in Nat \ {0} /\ Parts = 2
  /\ Size \in [DataFiles -> Nat] /\ \A f \in DataFiles : Size[f] > Header

VARIABLES
  index,   \* ResourceDatabase.idx: [size, first, blocks]
  block,   \* the position of the block the indexer comes to, 0 after the last
  found,   \* m_record_index, as entries [kind, offset]
  rest,    \* offsets the loop over items or nanos has yet to come to
  open,    \* the file m_file has open, 0 for none
  failed,  \* m_file.fail()
  got,     \* offsets of the records in tmp_aoitems.db
  have     \* and in aoitems.db

reader == <<block, found, rest, open, failed>>
records == <<index, reader, got, have>>
evars == <<vars, records>>

Offsets(kind, entries) == {e.offset : e \in {e \in entries : e.kind = kind}}

-----------------------------------------------------------------------------
\* AODatabaseIndex::ReadIndexFile: the blocks form a list, a last block that
\* ends where the index does is not read.
FitsIn(idx, p) == p # 0 /\ p + BlockSize < idx.size
Fits(p) == FitsIn(index, p)

ReadIndexBlock ==
  /\ At("sync") /\ SyncAt("extract")
  /\ block # 0
  /\ found' = found \cup index.blocks[block].entries
  /\ LET next == index.blocks[block].next
     IN  IF Fits(next) THEN block' = next /\ UNCHANGED rest
                       ELSE block' = 0 /\ rest' = Offsets("item", found')
  /\ UNCHANGED <<vars, index, open, failed, got, have>>

-----------------------------------------------------------------------------
\* m_file_offsets, as the constructor of AODatabaseParser adds it up.
Start[f \in DataFiles] == IF f = 1 THEN 0 ELSE Start[f - 1] + Size[f - 1] - Header

GetFileFromOffset(o) ==
  CHOOSE f \in DataFiles : Start[f] <= o /\ \A g \in DataFiles : g > f => Start[g] > o

\* Mutant of KeepsFile: an offset before the open file does not close it.
KeepsLaterFile(o) == open # 0 /\ o <= Start[open] + Size[open]

\* EnsureFileOpen, for a file that is open.
KeepsFile(o) == open # 0 /\ Start[open] <= o /\ o <= Start[open] + Size[open]

FileFor(o) == IF KeepsFile(o) THEN open ELSE GetFileFromOffset(o)

\* Where the record with a correct offset is.
InFile(f, o) == Start[f] + Header <= o /\ o < Start[f] + Size[f]
Home(o) == CHOOSE f \in DataFiles : InFile(f, o)

\* A well-formed index: its links lead to blocks, its entries to records.
ASSUME IndexesAssumption ==
  /\ BlockSize \in Nat
  /\ \A idx \in Indexes :
       /\ idx.size \in Nat /\ idx.first \in Nat
       /\ FitsIn(idx, idx.first) => idx.first \in DOMAIN idx.blocks
       /\ \A p \in DOMAIN idx.blocks :
            LET b == idx.blocks[p]
            IN  /\ b.next \in Nat
                /\ FitsIn(idx, b.next) => b.next \in DOMAIN idx.blocks
                /\ \A e \in b.entries :
                     e.offset \in Nat /\ \E f \in DataFiles : InFile(f, e.offset)

\* GetItem: the cookie is found where a record begins; at the end of the file
\* the stream fails, and it does so until it is opened again.
AtEnd(f, o) == o = Start[f] + Size[f]

GetItem(o) ==
  LET f      == FileFor(o)
      broken == (KeepsFile(o) /\ failed) \/ AtEnd(f, o)
  IN  /\ open' = f /\ failed' = broken
      /\ got' = IF ~broken /\ f = Home(o) THEN got \cup {o} ELSE got

ReadRecord ==
  /\ At("sync") /\ SyncAt("extract")
  /\ block = 0
  /\ \E o \in rest :
       /\ \A p \in rest : o <= p
       /\ GetItem(o)
       /\ rest' = rest \ {o}
  /\ UNCHANGED <<vars, index, block, found, have>>

-----------------------------------------------------------------------------
\* syncLocalItemsDB, where it touches the records.
BeginExtraction ==
  /\ At("sync") /\ Extract
  /\ block' = IF Fits(index.first) THEN index.first ELSE 0
  /\ found' = {} /\ rest' = {}
  /\ open' = 0 /\ failed' = FALSE
  /\ got' = {}
  /\ UNCHANGED <<db, pc, step, index, have>>

EndPass ==   \* CommitItems; the parser stays for the nanos
  /\ At("sync") /\ block = 0 /\ rest = {}
  /\ WritePart
  /\ rest' = IF part = 0 THEN Offsets("nano", found) ELSE {}
  /\ UNCHANGED <<db, pc, step, index, block, found, open, failed, got, have>>

MoveLocal ==
  /\ At("sync")
  /\ \/ RemoveLocal /\ have' = {} /\ UNCHANGED got
     \/ RenameTmp /\ have' = got /\ got' = {}
  /\ UNCHANGED <<db, pc, step, index, reader>>

OtherSync ==
  /\ At("sync")
  /\ Missing \/ UpToDate \/ OutOfDate \/ AnswerNo \/ GiveUp \/ PostProcessData
  /\ UNCHANGED <<db, pc, step, records>>

ExtractionStep ==
  \/ ReadIndexBlock \/ ReadRecord
  \/ BeginExtraction \/ EndPass \/ MoveLocal

-----------------------------------------------------------------------------
\* The offsets of records in some entries, and those of the game's records.
Recorded(entries) == Offsets("item", entries) \cup Offsets("nano", entries)

Entries == UNION {index.blocks[p].entries : p \in DOMAIN index.blocks}

\* Blocks the indexer comes to: not one that ends where the index does, nor
\* those behind it in the list.
Closed(S) ==
  /\ Fits(index.first) => index.first \in S
  /\ \A q \in S : Fits(index.blocks[q].next) => index.blocks[q].next \in S

BlocksReached == {p \in DOMAIN index.blocks :
                    \A S \in SUBSET DOMAIN index.blocks : Closed(S) => p \in S}

Indexed == UNION {index.blocks[p].entries : p \in BlocksReached}

\* Offsets at which the files meet: the first record of a file but the first,
\* and those of the last Header bytes of a file but the last, which the next
\* file's range overlaps.
Seam(o) ==
  \E f \in DataFiles \ {N} :
    Start[f + 1] <= o /\ o <= Start[f] + Size[f]

\* The last item read is the first of its file: its failed read leaves the
\* stream of the file before useless for the nanos, wherever they are in it.
AfterSeam(o) ==
  /\ o \in Offsets("nano", Indexed)
  /\ \E f \in DataFiles, i \in Offsets("item", Indexed) :
       /\ AtEnd(f, i) /\ \A j \in Offsets("item", Indexed) : j <= i
       /\ Start[f] <= o /\ o <= Start[f] + Size[f]

\* A record of a block the indexer does not come to.
NotIndexed(o) == o \notin Recorded(Indexed)

\* The records the code may leave out although the index names them correctly.
Lost(o) == Seam(o) \/ AfterSeam(o) \/ NotIndexed(o)

ExtractionInit ==
  /\ Init
  /\ index \in Indexes
  /\ block = 0 /\ found = {} /\ rest = {} /\ open = 0 /\ failed = FALSE
  /\ got = {}
  /\ have = IF local = NoFile THEN {} ELSE {o \in Recorded(Entries) : ~Lost(o)}

ExtractionNext ==
  \/ ExtractionStep \/ OtherSync
  \/ /\ \/ Open \/ CreateScheme \/ CheckVersion \/ Answer
        \/ UpdateCase \/ DropView \/ CreateView \/ Synced
        \/ (\E c \in CharIds : SetToonName(c) \/ SetToonShopId(c))
        \/ (\E i \in ItemIds : InsertItem(i))
        \/ Exit \/ Game
     /\ UNCHANGED records

ExtractionSpec == ExtractionInit /\ [][ExtractionNext]_evars

-----------------------------------------------------------------------------
(***************************************************************************)
(* Properties.                                                             *)
(***************************************************************************)

\* What an extraction leaves out is bounded by three named cases, however often
\* it was cancelled or interrupted and begun again: a record where two files
\* meet, a nano behind a stream that such a record broke, and a record of a
\* block the indexer does not come to.  The code loses these; that it loses no
\* other is the claim: the open file that is kept from record to record and from
\* the items to the nanos, and its failure, do no damage anywhere else.
LocalHasAllButLost ==
  local # NoFile => \A o \in Recorded(Entries) : o \in have \/ Lost(o)
=============================================================================
