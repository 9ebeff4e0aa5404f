-------------------------- MODULE Extraction_proofs --------------------------
(***************************************************************************)
(* Proofs about Extraction: with the reader of the game's files Startup    *)
(* behaves as without it, and the items data base misses no record but     *)
(* those where two files meet.                                             *)
(***************************************************************************)
EXTENDS Extraction, Startup_proofs, WellFoundedInduction

\* The reader's steps are steps of syncLocalItemsDB, or leave what Startup sees.
LEMMA ExtractionStepRefines == [ExtractionNext]_evars => [Next]_vars
<1>1. ASSUME ReadIndexBlock \/ ReadRecord PROVE UNCHANGED vars
  BY <1>1 DEF ReadIndexBlock, ReadRecord
<1>2. ASSUME BeginExtraction \/ EndPass \/ MoveLocal \/ OtherSync PROVE Sync
  BY <1>2 DEF BeginExtraction, EndPass, MoveLocal, OtherSync, Sync, SyncStep
<1>3. ASSUME ExtractionNext, ~Sync, ~UNCHANGED vars PROVE Next
  BY <1>1, <1>2, <1>3 DEF ExtractionNext, ExtractionStep, Next
<1>4. Sync => Next
  BY DEF Next
<1>5. ASSUME UNCHANGED evars PROVE UNCHANGED vars
  BY <1>5 DEF evars
<1> QED BY <1>3, <1>4, <1>5

\* What is proved of the start of the application (no row, column or complete
\* items data base is lost, whenever it is interrupted) holds with the reader.
THEOREM ExtractionImplementsStartup == ExtractionSpec => Spec
<1>1. ExtractionInit => Init
  BY DEF ExtractionInit
<1> QED BY <1>1, ExtractionStepRefines, PTL DEF ExtractionSpec, Spec

\* A file of the name aoitems.db is complete also when the reader may miss
\* records: what it holds is all that the extraction found.
THEOREM ExtractedLocalIsComplete == ExtractionSpec => []LocalIsComplete
BY ExtractionImplementsStartup, LocalIsCompleteHolds

-----------------------------------------------------------------------------
(***************************************************************************)
(* The places of the files.  The defining equation of Start, a recursive   *)
(* function, is proved from its definition by CHOOSE: if there were no     *)
(* such function for some number of files there would be a least number.   *)
(***************************************************************************)
\* Every non-empty set of naturals has a least element.
LEMMA LeastNatural ==
  ASSUME NEW S \in SUBSET Nat, S # {}
  PROVE  \E m \in S : \A n \in S : m <= n
<1>1. PICK m \in S : \A n \in S : ~ (<<n, m>> \in OpToRel(<, Nat))
  BY NatLessThanWellFounded, WFMin
<1>2. \A n \in S : ~ (n < m)
  BY <1>1 DEF OpToRel
<1> QED
  BY <1>2

\* s is the recursion of Start as far as the file n.
StartsTo(s, n) ==
  s = [f \in 1..n |-> IF f = 1 THEN 0 ELSE s[f - 1] + Size[f - 1] - Header]

LEMMA StartsExist == ASSUME NEW n \in DataFiles PROVE \E s : StartsTo(s, n)
<1> DEFINE Bad == {m \in DataFiles : ~ \E s : StartsTo(s, m)}
<1>0. DataFiles \subseteq Nat /\ \A m \in DataFiles : 1 <= m
  BY FilesAssumption DEF DataFiles
<1>1. SUFFICES ASSUME Bad # {} PROVE FALSE
  OBVIOUS
<1>2. PICK m \in Bad : \A k \in Bad : m <= k
  BY <1>0, <1>1, LeastNatural
<1>3. m # 1
  <2>1. StartsTo([f \in 1..1 |-> 0], 1)
    BY DEF StartsTo
  <2> QED BY <2>1
<1>4. m - 1 \in DataFiles /\ m - 1 < m
  BY <1>0, <1>3, FilesAssumption DEF DataFiles
<1>5. PICK s : StartsTo(s, m - 1)
  BY <1>2, <1>4, <1>0
<1> DEFINE last == s[m - 1] + Size[m - 1] - Header
           t == [f \in 1..m |-> IF f = m THEN last ELSE s[f]]
<1>6. ASSUME NEW f \in 1..m
      PROVE  t[f] = IF f = 1 THEN 0 ELSE t[f - 1] + Size[f - 1] - Header
  <2>1. m \in Nat /\ m > 1
    BY <1>0, <1>3
  <2>2. CASE f = m
    <3>1. f # 1 /\ f - 1 = m - 1 /\ f - 1 \in 1..m /\ f - 1 # m
      BY <2>1, <2>2
    <3>2. t[f] = last /\ t[f - 1] = s[m - 1]
      BY <2>2, <3>1
    <3> QED BY <3>1, <3>2
  <2>3. CASE f # m
    <3>1. f \in 1..(m - 1) /\ t[f] = s[f]
      BY <2>1, <2>3
    <3>2. s[f] = IF f = 1 THEN 0 ELSE s[f - 1] + Size[f - 1] - Header
      BY <1>5, <3>1 DEF StartsTo
    <3>3. f # 1 => f - 1 \in 1..m /\ f - 1 # m /\ t[f - 1] = s[f - 1]
      BY <2>1, <3>1
    <3> QED BY <3>1, <3>2, <3>3
  <2> QED BY <2>2, <2>3
<1>7. StartsTo(t, m)
  <2> HIDE DEF last
  <2>1. t = [f \in 1..m |-> t[f]]
    OBVIOUS
  <2> HIDE DEF t
  <2> QED BY <1>6, <2>1 DEF StartsTo
<1> QED BY <1>7, <1>2

LEMMA StartDef ==
  ASSUME NEW f \in DataFiles
  PROVE  Start[f] = IF f = 1 THEN 0 ELSE Start[f - 1] + Size[f - 1] - Header
<1>1. N \in DataFiles
  BY FilesAssumption DEF DataFiles
<1>2. Start = CHOOSE s : StartsTo(s, N)
  BY DEF Start, StartsTo, DataFiles
<1>3. StartsTo(Start, N)
  BY <1>1, <1>2, StartsExist
<1>4. f \in 1..N
  BY DEF DataFiles
<1> HIDE DEF Start
<1> QED BY <1>3, <1>4 DEF StartsTo

\* The types of the files; f - 1 is a file, if f is not the first.
LEMMA FileTypes ==
  /\ N \in Nat \ {0} /\ Header \in Nat \ {0}
  /\ \A f \in DataFiles :
       /\ f \in Nat /\ 1 <= f /\ f <= N
       /\ Size[f] \in Nat /\ Size[f] > Header
       /\ f # 1 => f - 1 \in DataFiles
BY FilesAssumption DEF DataFiles

LEMMA StartsAreNat == \A f \in DataFiles : Start[f] \in Nat
<1> DEFINE Bad == {f \in DataFiles : Start[f] \notin Nat}
<1>1. SUFFICES ASSUME Bad # {} PROVE FALSE
  OBVIOUS
<1>2. PICK f \in Bad : \A g \in Bad : f <= g
  <2>1. Bad \in SUBSET Nat
    BY FileTypes
  <2> HIDE DEF Bad
  <2> QED BY <1>1, <2>1, LeastNatural
<1>3. f # 1
  BY StartDef
<1>4. f - 1 \in DataFiles /\ f - 1 \notin Bad
  BY <1>2, <1>3, FileTypes
<1>5. Start[f] = Start[f - 1] + Size[f - 1] - Header
  BY <1>3, StartDef
<1>6. Size[f - 1] \in Nat /\ Size[f - 1] > Header /\ Header \in Nat
  BY <1>4, FileTypes
<1> QED BY <1>4, <1>5, <1>6

\* The files follow each other.
LEMMA FilesFollow ==
  ASSUME NEW f \in DataFiles, NEW g \in DataFiles, f < g
  PROVE  Start[f] + Size[f] - Header <= Start[g]
<1> DEFINE Bad == {h \in DataFiles : f < h /\ ~(Start[f] + Size[f] - Header <= Start[h])}
<1>1. SUFFICES ASSUME Bad # {} PROVE FALSE
  OBVIOUS
<1>2. PICK h \in Bad : \A k \in Bad : h <= k
  <2>1. Bad \in SUBSET Nat
    BY FileTypes
  <2> HIDE DEF Bad
  <2> QED BY <1>1, <2>1, LeastNatural
<1>3. h \in Nat /\ f \in Nat /\ h # 1 /\ h - 1 \in DataFiles /\ h - 1 \notin Bad
  BY <1>2, FileTypes
<1>4. /\ Start[h] = Start[h - 1] + Size[h - 1] - Header
      /\ Start[h] \in Nat /\ Start[h - 1] \in Nat /\ Start[f] \in Nat
      /\ Size[h - 1] \in Nat /\ Size[h - 1] > Header /\ Size[f] \in Nat /\ Header \in Nat
  BY <1>3, StartDef, StartsAreNat, FileTypes
<1>5. CASE f = h - 1
  BY <1>4, <1>5
<1>6. CASE f < h - 1
  <2>1. Start[f] + Size[f] - Header <= Start[h - 1]
    BY <1>3, <1>6
  <2> QED BY <1>4, <2>1
<1> QED BY <1>3, <1>5, <1>6

-----------------------------------------------------------------------------
\* Where a file is looked for and where it is.
LEMMA LaterFileStartsLater ==
  ASSUME NEW o \in Nat, NEW h \in DataFiles, InFile(h, o), ~Seam(o),
         NEW g \in DataFiles, g > h
  PROVE  Start[g] > o
<1>1. h \in DataFiles \ {N} /\ h + 1 \in DataFiles /\ (h + 1 = g \/ h + 1 < g)
  BY FilesAssumption DEF DataFiles
<1>2. /\ Start[h] \in Nat /\ Start[h + 1] \in Nat /\ Start[g] \in Nat
      /\ Size[h] \in Nat /\ Size[h + 1] \in Nat /\ Size[h + 1] > Header /\ Header \in Nat
  BY <1>1, FileTypes, StartsAreNat
<1>3. ~(Start[h + 1] <= o /\ o <= Start[h] + Size[h])
  BY <1>1 DEF Seam
<1>4. o < Start[h + 1]
  BY <1>2, <1>3 DEF InFile
<1>5. CASE h + 1 < g
  <2>1. Start[h + 1] + Size[h + 1] - Header <= Start[g]
    BY <1>1, <1>5, FilesFollow
  <2> QED BY <1>2, <1>4, <2>1
<1> QED BY <1>1, <1>4, <1>5

LEMMA EarlierFileEndsEarlier ==
  ASSUME NEW o \in Nat, NEW h \in DataFiles, InFile(h, o), ~Seam(o),
         NEW g \in DataFiles, g < h
  PROVE  Start[g] + Size[g] < o
<1>1. g \in DataFiles \ {N} /\ g + 1 \in DataFiles /\ (g + 1 = h \/ g + 1 < h)
  BY FilesAssumption DEF DataFiles
<1>2. /\ Start[g] \in Nat /\ Start[g + 1] \in Nat /\ Start[h] \in Nat
      /\ Size[g] \in Nat /\ Size[g + 1] \in Nat /\ Size[g + 1] > Header /\ Header \in Nat
  BY <1>1, FileTypes, StartsAreNat
<1>3. Start[g] + Size[g] - Header <= Start[g + 1]
  BY <1>1, <1>2, FilesFollow, FileTypes
<1>4. ~(Start[g + 1] <= o /\ o <= Start[g] + Size[g])
  BY <1>1 DEF Seam
<1>5. CASE g + 1 = h
  <2>1. Start[h] + Header <= o
    BY DEF InFile
  <2> QED BY <1>2, <1>4, <1>5, <2>1
<1>6. CASE g + 1 < h
  <2>1. Start[g + 1] + Size[g + 1] - Header <= Start[h]
    BY <1>1, <1>6, FilesFollow
  <2>2. Start[h] + Header <= o
    BY DEF InFile
  <2> QED BY <1>2, <1>3, <2>1, <2>2
<1> QED BY <1>1, <1>5, <1>6

LEMMA HomeOfRecord ==
  ASSUME NEW o \in Nat, NEW h \in DataFiles, InFile(h, o)
  PROVE  Home(o) = h
<1>1. ASSUME NEW f \in DataFiles, NEW g \in DataFiles, f < g, InFile(f, o), InFile(g, o)
      PROVE  FALSE
  <2>1. /\ Start[f] + Size[f] - Header <= Start[g]
        /\ Start[f] \in Nat /\ Start[g] \in Nat /\ Size[f] \in Nat /\ Header \in Nat
    BY <1>1, FilesFollow, FileTypes, StartsAreNat
  <2> QED BY <1>1, <2>1 DEF InFile
<1>2. \A f \in DataFiles : InFile(f, o) => f = h
  BY <1>1, FileTypes
<1> QED BY <1>2 DEF Home

\* The map of the parser has a file for every offset.
LEMMA SomeFileForOffset ==
  ASSUME NEW o \in Nat
  PROVE  GetFileFromOffset(o) \in DataFiles
<1> DEFINE Last == {f \in DataFiles : \A g \in DataFiles : g > f => Start[g] > o}
<1>1. Last \in SUBSET Nat /\ Last # {}
  <2>1. N \in Last
    BY FileTypes DEF DataFiles
  <2> QED BY <2>1, FileTypes
<1>2. PICK f \in Last : \A g \in Last : f <= g
  <2> HIDE DEF Last
  <2> QED BY <1>1, LeastNatural
<1>3. Start[f] <= o
  <2>1. CASE f = 1
    <3>1. Start[f] = 0
      BY <2>1, StartDef
    <3> QED BY <3>1
  <2>2. CASE f # 1
    <3>1. f - 1 \in DataFiles /\ f \in Nat /\ Start[f] \in Nat
      BY <2>2, FileTypes, StartsAreNat
    <3>2. f - 1 \notin Last
      BY <1>2, <3>1
    <3>3. PICK g \in DataFiles : g > f - 1 /\ ~(Start[g] > o)
      BY <3>1, <3>2
    <3>4. g \in Nat /\ Start[g] \in Nat /\ ~(g > f)
      BY <3>3, FileTypes, StartsAreNat
    <3>5. g = f
      BY <3>1, <3>3, <3>4
    <3> QED BY <3>1, <3>3, <3>5
  <2> QED BY <2>1, <2>2
<1> QED BY <1>2, <1>3 DEF GetFileFromOffset

\* A record that does not lie where two files meet is found, whichever file is
\* open, unless the stream has failed and is not opened again.
THEOREM NotAtSeamIsRead ==
  ASSUME NEW o \in Nat, NEW h \in DataFiles, InFile(h, o), ~Seam(o),
         open \in DataFiles \cup {0}, ~(KeepsFile(o) /\ failed), GetItem(o)
  PROVE  o \in got'
<1>1. \A g \in DataFiles : g > h => Start[g] > o
  BY LaterFileStartsLater
<1>2. \A g \in DataFiles : g < h => Start[g] + Size[g] < o
  BY EarlierFileEndsEarlier
<1>3. /\ Start[h] <= o /\ o < Start[h] + Size[h]
      /\ \A g \in DataFiles :
           g \in Nat /\ Start[g] \in Nat /\ Size[g] \in Nat /\ Size[g] > Header
      /\ Header \in Nat
  BY FileTypes, StartsAreNat DEF InFile
<1>4. GetFileFromOffset(o) = h
  <2>1. ASSUME NEW f \in DataFiles, Start[f] <= o, \A g \in DataFiles : g > f => Start[g] > o
        PROVE  f = h
    <3>1. ~(f < h)
      BY <1>3, <2>1
    <3>2. ~(f > h)
      BY <1>1, <1>3, <2>1
    <3> QED BY <1>3, <3>1, <3>2
  <2> DEFINE P(f) == Start[f] <= o /\ \A g \in DataFiles : g > f => Start[g] > o
  <2>2. P(h) /\ \A f \in DataFiles : P(f) => f = h
    BY <1>1, <1>3, <2>1
  <2>3. GetFileFromOffset(o) = CHOOSE f \in DataFiles : P(f)
    BY DEF GetFileFromOffset
  <2> HIDE DEF P
  <2> QED BY <2>2, <2>3
<1>5. ASSUME KeepsFile(o) PROVE open = h
  <2>1. open \in DataFiles /\ Start[open] <= o /\ o <= Start[open] + Size[open]
    BY <1>5 DEF KeepsFile
  <2>2. ~(open < h)
    BY <1>2, <1>3, <2>1
  <2>3. ~(open > h)
    BY <1>1, <1>3, <2>1
  <2> QED BY <1>3, <2>1, <2>2, <2>3
<1>6. FileFor(o) = h
  BY <1>4, <1>5 DEF FileFor
<1>7. ~AtEnd(h, o)
  BY <1>3 DEF AtEnd
<1> QED BY <1>6, <1>7, HomeOfRecord DEF GetItem

-----------------------------------------------------------------------------
(***************************************************************************)
(* The inductive invariant of the reader.                                  *)
(***************************************************************************)
IndexedItems == Offsets("item", Indexed)
IndexedNanos == Offsets("nano", Indexed)

\* What was found is what some blocks hold, from which the list leads to no
\* other block than the next to be read.
FoundInBlocks(B) ==
  /\ B \subseteq BlocksReached
  /\ found = UNION {index.blocks[p].entries : p \in B}
  /\ Fits(index.first) => index.first \in B \cup {block}
  /\ \A q \in B : Fits(index.blocks[q].next) => index.blocks[q].next \in B \cup {block}

\* The offsets of the pass under way, and those read in it and before.
Pass == IF part = 0 THEN IndexedItems ELSE IF part = 1 THEN IndexedNanos ELSE {}
Before == IF part = 0 THEN {} ELSE IF part = 1 THEN IndexedItems ELSE IndexedItems \cup IndexedNanos

Complete(read, offsets) == \A o \in offsets : o \in read \/ Lost(o)

\* A failed stream is of a file whose end was the last offset read; in the pass
\* over the nanos that may have been the last item.
FailedAtEnd ==
  IF part = 0
  THEN \E i \in Pass \ rest : AtEnd(open, i) /\ \A j \in Pass \ rest : j <= i
  ELSE \A o \in rest : KeepsFile(o) => AfterSeam(o)

PassInv ==
  /\ rest \subseteq Pass
  /\ \A o \in Pass \ rest, p \in rest : o < p
  /\ Complete(got, Before \cup (Pass \ rest))
  /\ failed => open \in DataFiles /\ FailedAtEnd

ExtractInv ==
  /\ part \in 0..2 /\ open \in DataFiles \cup {0}
  /\ \E B \in SUBSET DOMAIN index.blocks : FoundInBlocks(B)
  /\ block # 0 => block \in BlocksReached /\ part = 0 /\ ~failed
  /\ block = 0 => PassInv

ReaderInv ==
  /\ index \in Indexes
  /\ SyncAt("extract") => ExtractInv
  /\ SyncAt("remove") \/ SyncAt("rename") => Complete(got, Recorded(Entries))
  /\ local # NoFile => Complete(have, Recorded(Entries))

\* What is said of the index only stays true.
LEMMA LayoutKept ==
  ASSUME UNCHANGED index
  PROVE  /\ BlocksReached' = BlocksReached /\ Indexed' = Indexed /\ Entries' = Entries
         /\ IndexedItems' = IndexedItems /\ IndexedNanos' = IndexedNanos
         /\ \A p : Fits(p)' <=> Fits(p)
         /\ \A o : (AfterSeam(o)' <=> AfterSeam(o)) /\ (Lost(o)' <=> Lost(o))
<1>1. \A p : Fits(p)' <=> Fits(p)
  BY DEF Fits, FitsIn
<1>2. BlocksReached' = BlocksReached /\ Entries' = Entries
  BY DEF BlocksReached, Closed, Entries, Fits, FitsIn
<1>3. Indexed' = Indexed
  BY <1>2 DEF Indexed
<1>4. IndexedItems' = IndexedItems /\ IndexedNanos' = IndexedNanos
  BY <1>3 DEF IndexedItems, IndexedNanos
<1>5. \A o : AfterSeam(o)' <=> AfterSeam(o)
  BY <1>4 DEF AfterSeam, IndexedItems, IndexedNanos
<1>6. \A o : Lost(o)' <=> Lost(o)
  BY <1>3, <1>5 DEF Lost, NotIndexed
<1> QED BY <1>1, <1>2, <1>3, <1>4, <1>5, <1>6

LEMMA CompleteKept ==
  ASSUME UNCHANGED index, NEW R, NEW S
  PROVE  Complete(R, S)' <=> Complete(R, S)
BY LayoutKept DEF Complete

\* An offset in the index is that of a record in some file.
LEMMA RecordsLieInFiles ==
  ASSUME index \in Indexes, NEW o \in IndexedItems \cup IndexedNanos
  PROVE  o \in Nat /\ \E f \in DataFiles : InFile(f, o)
<1>1. PICK e \in Indexed : e.offset = o
  BY DEF IndexedItems, IndexedNanos, Offsets
<1>2. PICK p \in DOMAIN index.blocks : e \in index.blocks[p].entries
  BY <1>1 DEF Indexed, BlocksReached
<1> QED BY <1>1, <1>2, IndexesAssumption

\* The blocks the indexer comes to hold all that is found, and when the list
\* has ended nothing else is to be found.
LEMMA FoundIsIndexed ==
  ASSUME NEW B \in SUBSET DOMAIN index.blocks, FoundInBlocks(B), block = 0
  PROVE  found = Indexed
<1>1. Closed(B)
  BY DEF FoundInBlocks, Closed, Fits, FitsIn
<1>2. BlocksReached \subseteq B
  BY <1>1 DEF BlocksReached
<1>3. B = BlocksReached
  BY <1>2 DEF FoundInBlocks
<1> QED BY <1>3 DEF FoundInBlocks, Indexed

\* What a record's read leaves open.
LEMMA GetItemOpens ==
  ASSUME NEW o \in Nat, open \in DataFiles \cup {0}, GetItem(o)
  PROVE  /\ open' \in DataFiles
         /\ failed' => (KeepsFile(o) /\ failed /\ open' = open) \/ AtEnd(open', o)
<1>1. open' = FileFor(o) /\ failed' = ((KeepsFile(o) /\ failed) \/ AtEnd(FileFor(o), o))
  BY DEF GetItem
<1>2. KeepsFile(o) => open \in DataFiles
  BY DEF KeepsFile
<1> QED BY <1>1, <1>2, SomeFileForOffset DEF FileFor

\* After it an offset that goes on behind the end of a file opens another.
LEMMA BehindEnd ==
  ASSUME NEW f \in DataFiles, NEW i \in Nat, AtEnd(f, i), NEW p \in Nat, i < p, open = f
  PROVE  ~KeepsFile(p)
<1>1. Start[f] \in Nat /\ Size[f] \in Nat
  BY StartsAreNat, FileTypes
<1> QED BY <1>1 DEF AtEnd, KeepsFile

LEMMA BehindEndNext ==
  ASSUME NEW f \in DataFiles, NEW i \in Nat, AtEnd(f, i), NEW p \in Nat, i < p, open' = f
  PROVE  ~KeepsFile(p)'
<1>1. Start[f] \in Nat /\ Size[f] \in Nat
  BY StartsAreNat, FileTypes
<1> QED BY <1>1 DEF AtEnd, KeepsFile

LEMMA ReaderInvInit == ExtractionInit => ReaderInv
BY DEF ExtractionInit, Init, ItemsInit, ReaderInv, SyncAt, Complete

\* A step that neither reads nor moves a file.
LEMMA ReaderIdle ==
  ASSUME ReaderInv, UNCHANGED records, UNCHANGED local,
         \/ UNCHANGED <<sync, part>>
         \/ sync' \notin {"extract", "remove", "rename"}
  PROVE  ReaderInv'
<1>1. UNCHANGED <<index, block, found, rest, open, failed, got, have>>
  BY DEF records, reader
<1>2. Complete(got, Recorded(Entries))' <=> Complete(got, Recorded(Entries))
  BY <1>1, LayoutKept DEF Complete, Recorded, Offsets
<1>3. Complete(have, Recorded(Entries))' <=> Complete(have, Recorded(Entries))
  BY <1>1, LayoutKept DEF Complete, Recorded, Offsets
<1>4. ASSUME UNCHANGED <<sync, part>>, ExtractInv PROVE ExtractInv'
  <2>1. \A B : FoundInBlocks(B)' <=> FoundInBlocks(B)
    BY <1>1, LayoutKept DEF FoundInBlocks
  <2>2. Pass' = Pass /\ Before' = Before
    BY <1>1, <1>4, LayoutKept DEF Pass, Before
  <2>3. \A o : KeepsFile(o)' <=> KeepsFile(o)
    BY <1>1 DEF KeepsFile
  <2>4. FailedAtEnd' <=> FailedAtEnd
    BY <1>1, <1>4, <2>2, <2>3, LayoutKept DEF FailedAtEnd
  <2>5. PassInv' <=> PassInv
    BY <1>1, <2>2, <2>4, LayoutKept DEF PassInv, Complete
  <2> QED BY <1>1, <1>4, <2>1, <2>5, LayoutKept DEF ExtractInv
<1> QED BY <1>1, <1>2, <1>3, <1>4 DEF ReaderInv, SyncAt

LEMMA BeginKeepsInv ==
  ASSUME ReaderInv, BeginExtraction
  PROVE  ReaderInv'
<1>1. /\ block' = IF Fits(index.first) THEN index.first ELSE 0
      /\ found' = {} /\ rest' = {} /\ open' = 0 /\ failed' = FALSE /\ got' = {}
      /\ UNCHANGED <<index, have>> /\ part' = 0 /\ sync' = "extract" /\ local' = local
  BY DEF BeginExtraction, Extract
<1>2. index \in Indexes
  BY DEF ReaderInv
<1>3. FoundInBlocks({})'
  BY <1>1, LayoutKept DEF FoundInBlocks
<1>4. block' # 0 => block' \in BlocksReached
  <2>1. Fits(index.first) => index.first \in DOMAIN index.blocks
    BY <1>2, IndexesAssumption DEF Fits
  <2> QED BY <1>1, <2>1 DEF BlocksReached, Closed
<1>5. block' = 0 => PassInv'
  <2>1. ASSUME block' = 0 PROVE Indexed' = {}
    <3>1. ~Fits(index.first)
      BY <1>1, <2>1 DEF Fits, FitsIn
    <3>2. Closed({})
      BY <3>1 DEF Closed
    <3> QED BY <1>1, <3>2, LayoutKept DEF Indexed, BlocksReached
  <2>2. ASSUME block' = 0 PROVE Pass' = {} /\ Before' = {}
    BY <1>1, <2>1, <2>2 DEF Pass, Before, IndexedItems, Offsets
  <2> QED BY <1>1, <2>2 DEF PassInv, Complete
<1>6. ExtractInv'
  BY <1>1, <1>3, <1>4, <1>5, LayoutKept DEF ExtractInv
<1>7. Complete(have, Recorded(Entries))' <=> Complete(have, Recorded(Entries))
  BY <1>1, LayoutKept DEF Complete, Recorded, Offsets
<1> QED BY <1>1, <1>6, <1>7 DEF ReaderInv, SyncAt

\* The list does not lead out of the blocks it reaches.
LEMMA ReachedIsClosed == index \in Indexes => Closed(BlocksReached)
<1> SUFFICES ASSUME index \in Indexes PROVE Closed(BlocksReached)
  OBVIOUS
<1>1. Fits(index.first) => index.first \in BlocksReached
  <2>1. Fits(index.first) => index.first \in DOMAIN index.blocks
    BY IndexesAssumption DEF Fits
  <2> QED BY <2>1 DEF BlocksReached, Closed
<1>2. ASSUME NEW q \in BlocksReached, Fits(index.blocks[q].next)
      PROVE  index.blocks[q].next \in BlocksReached
  <2>1. q \in DOMAIN index.blocks
    BY DEF BlocksReached
  <2>2. index.blocks[q].next \in DOMAIN index.blocks
    BY <1>2, <2>1, IndexesAssumption DEF Fits
  <2> QED BY <1>2, <2>2 DEF BlocksReached, Closed
<1> QED BY <1>1, <1>2 DEF Closed

LEMMA ReadIndexBlockKeepsInv ==
  ASSUME ReaderInv, ReadIndexBlock
  PROVE  ReaderInv'
<1> DEFINE next == index.blocks[block].next
<1>1. /\ SyncAt("extract") /\ block # 0
      /\ found' = found \cup index.blocks[block].entries
      /\ IF Fits(next) THEN block' = next /\ UNCHANGED rest
                       ELSE block' = 0 /\ rest' = Offsets("item", found')
      /\ UNCHANGED <<index, open, failed, got, have>>
      /\ UNCHANGED <<sync, part, local>>
  BY DEF ReadIndexBlock, vars, itemsVars
<1>2. /\ index \in Indexes /\ block \in BlocksReached
      /\ part = 0 /\ ~failed /\ open \in DataFiles \cup {0}
  BY <1>1 DEF ReaderInv, ExtractInv
<1>3. PICK B \in SUBSET DOMAIN index.blocks : FoundInBlocks(B)
  BY <1>1 DEF ReaderInv, ExtractInv
<1>4. PICK C : C = B \cup {block}
  OBVIOUS
<1>5. /\ C \in SUBSET DOMAIN index.blocks /\ C \subseteq BlocksReached
      /\ found' = UNION {index.blocks[p].entries : p \in C}
  BY <1>1, <1>2, <1>3, <1>4 DEF FoundInBlocks, BlocksReached
<1>6. /\ Fits(index.first) => index.first \in C
      /\ \A q \in C : Fits(index.blocks[q].next) => index.blocks[q].next \in C \cup {block'}
  <2>1. Fits(next) => block' = next
    BY <1>1
  <2> QED BY <1>3, <1>4, <2>1 DEF FoundInBlocks
<1>7. FoundInBlocks(C)'
  BY <1>1, <1>5, <1>6, LayoutKept DEF FoundInBlocks
<1>8. block' # 0 => block' \in BlocksReached
  <2>1. Fits(next) => next \in BlocksReached
    BY <1>2, ReachedIsClosed DEF Closed
  <2> QED BY <1>1, <2>1
<1>9. ASSUME block' = 0 PROVE PassInv'
  <2>1. ~Fits(next)
    BY <1>1, <1>9 DEF Fits, FitsIn
  <2>2. Closed(C)
    BY <1>6, <1>9 DEF Closed, Fits, FitsIn
  <2>3. C = BlocksReached
    BY <1>5, <2>2 DEF BlocksReached
  <2>4. found' = Indexed
    BY <1>5, <2>3 DEF Indexed
  <2>5. rest' = IndexedItems
    BY <1>1, <2>1, <2>4 DEF IndexedItems
  <2>6. Pass' = rest' /\ Before' = {}
    BY <1>1, <1>2, <2>5, LayoutKept DEF Pass, Before
  <2> QED BY <1>1, <1>2, <2>6 DEF PassInv, Complete
<1>10. ExtractInv'
  <2>1. \E D \in SUBSET DOMAIN index'.blocks : FoundInBlocks(D)'
    BY <1>1, <1>5, <1>7
  <2> QED BY <1>1, <1>2, <1>8, <1>9, <2>1, LayoutKept DEF ExtractInv
<1>11. Complete(have, Recorded(Entries))' <=> Complete(have, Recorded(Entries))
  BY <1>1, LayoutKept DEF Complete, Recorded, Offsets
<1> QED BY <1>1, <1>2, <1>10, <1>11 DEF ReaderInv, SyncAt

\* The record that is read is got, or one of those that are lost.
LEMMA ReadOrLost ==
  ASSUME index \in Indexes, open \in DataFiles \cup {0}, PassInv, rest \subseteq Nat,
         NEW o \in rest, GetItem(o)
  PROVE  o \in got' \/ Lost(o)
<1>1. o \in Pass /\ Pass \subseteq IndexedItems \cup IndexedNanos
  BY DEF PassInv, Pass
<1>2. PICK h \in DataFiles : InFile(h, o)
  BY <1>1, RecordsLieInFiles
<1>3. CASE KeepsFile(o) /\ failed
  <2>1. open \in DataFiles /\ FailedAtEnd
    BY <1>3 DEF PassInv
  <2>2. CASE part = 0
    <3>1. PICK i \in Pass \ rest : AtEnd(open, i)
      BY <2>1, <2>2 DEF FailedAtEnd
    <3>2. i \in Nat /\ i < o
      BY <1>1, <3>1, RecordsLieInFiles DEF PassInv
    <3> QED BY <1>3, <2>1, <3>1, <3>2, BehindEnd
  <2>3. CASE part # 0
    <3>1. AfterSeam(o)
      BY <1>3, <2>1, <2>3 DEF FailedAtEnd
    <3> QED BY <3>1 DEF Lost, NotIndexed
  <2> QED BY <2>2, <2>3
<1>4. CASE ~(KeepsFile(o) /\ failed) /\ ~Seam(o)
  BY <1>2, <1>4, NotAtSeamIsRead
<1>5. CASE Seam(o)
  BY <1>5 DEF Lost, NotIndexed
<1> QED BY <1>3, <1>4, <1>5

LEMMA PassOffsets == index \in Indexes => Pass \subseteq Nat
BY RecordsLieInFiles DEF Pass

LEMMA ReadRecordKeepsInv ==
  ASSUME ReaderInv, ReadRecord
  PROVE  ReaderInv'
<1>1. PICK o \in rest : (\A p \in rest : o <= p) /\ GetItem(o) /\ rest' = rest \ {o}
  BY DEF ReadRecord
<1>2. /\ SyncAt("extract") /\ block = 0
      /\ UNCHANGED <<index, block, found, have, sync, part, local>>
  BY DEF ReadRecord, vars, itemsVars
<1>3. index \in Indexes /\ ExtractInv /\ PassInv /\ open \in DataFiles \cup {0}
  BY <1>2 DEF ReaderInv, ExtractInv
<1>4. Pass' = Pass /\ Before' = Before
  BY <1>2, LayoutKept DEF Pass, Before
<1>5. Pass \subseteq Nat /\ rest \subseteq Nat
  BY <1>3, PassOffsets DEF PassInv
<1>6. \A q \in Pass \ rest' : q <= o
  <2>1. \A q \in Pass \ rest : q < o
    BY <1>3 DEF PassInv
  <2> QED BY <1>1, <1>5, <2>1
<1>7. \A p \in rest' : o < p
  BY <1>1, <1>5
<1>8. Complete(got, Before \cup (Pass \ rest))'
  <2>1. got \subseteq got'
    BY <1>1 DEF GetItem
  <2>2. o \in got' \/ Lost(o)
    BY <1>1, <1>3, <1>5, ReadOrLost
  <2>3. \A q \in Before \cup (Pass \ rest') : q \in got' \/ Lost(q)
    BY <1>1, <1>3, <2>1, <2>2 DEF PassInv, Complete
  <2> QED BY <1>2, <1>4, <2>3, LayoutKept DEF Complete
<1>9. /\ open' \in DataFiles
      /\ failed' => (KeepsFile(o) /\ failed /\ open' = open) \/ AtEnd(open', o)
  BY <1>1, <1>3, <1>5, GetItemOpens
<1>10. ASSUME failed' PROVE FailedAtEnd'
  <2>1. CASE AtEnd(open', o)
    <3>1. AtEnd(open, o)'
      BY <2>1 DEF AtEnd
    <3>2. \A p \in rest' : ~KeepsFile(p)'
      BY <1>5, <1>1, <1>7, <1>9, <2>1, BehindEndNext
    <3>3. o \in Pass \ rest'
      BY <1>1, <1>3 DEF PassInv
    <3> QED BY <1>2, <1>4, <1>6, <3>1, <3>2, <3>3 DEF FailedAtEnd
  <2>2. CASE KeepsFile(o) /\ failed /\ open' = open
    <3>1. open \in DataFiles /\ FailedAtEnd
      BY <1>3, <2>2 DEF PassInv
    <3>2. part # 0
      <4>1. ASSUME part = 0 PROVE FALSE
        <5>1. PICK i \in Pass \ rest : AtEnd(open, i)
          BY <3>1, <4>1 DEF FailedAtEnd
        <5>2. i \in Nat /\ i < o
          BY <1>3, <1>5, <5>1 DEF PassInv
        <5> QED BY <1>5, <2>2, <3>1, <5>1, <5>2, BehindEnd
      <4> QED BY <4>1
    <3>3. \A p \in rest' : KeepsFile(p)' => AfterSeam(p)
      <4>1. \A p : KeepsFile(p)' <=> KeepsFile(p)
        BY <2>2 DEF KeepsFile
      <4> QED BY <1>1, <3>1, <3>2, <4>1 DEF FailedAtEnd
    <3> QED BY <1>2, <3>2, <3>3, LayoutKept DEF FailedAtEnd
  <2> QED BY <1>9, <1>10, <2>1, <2>2
<1>11. PassInv'
  <2>1. rest' \subseteq Pass
    BY <1>1, <1>3 DEF PassInv
  <2>2. \A q \in Pass \ rest', p \in rest' : q < p
    BY <1>5, <1>6, <1>7, <2>1
  <2> QED BY <1>4, <1>8, <1>9, <1>10, <2>1, <2>2 DEF PassInv
<1>12. ExtractInv'
  <2>1. \A B : FoundInBlocks(B)' <=> FoundInBlocks(B)
    BY <1>2, LayoutKept DEF FoundInBlocks
  <2>2. \E B \in SUBSET DOMAIN index'.blocks : FoundInBlocks(B)'
    BY <1>2, <1>3, <2>1 DEF ExtractInv
  <2> QED BY <1>2, <1>3, <1>9, <1>11, <2>2 DEF ExtractInv
<1>13. Complete(have, Recorded(Entries))' <=> Complete(have, Recorded(Entries))
  BY <1>2, LayoutKept DEF Complete, Recorded, Offsets
<1> QED BY <1>2, <1>3, <1>12, <1>13 DEF ReaderInv, SyncAt

LEMMA EndPassKeepsInv ==
  ASSUME ReaderInv, EndPass
  PROVE  ReaderInv'
<1>1. /\ SyncAt("extract") /\ block = 0 /\ rest = {}
      /\ part < 2 /\ part' = part + 1
      /\ rest' = IF part = 0 THEN Offsets("nano", found) ELSE {}
      /\ UNCHANGED <<index, block, found, open, failed, got, have, sync, local>>
  BY FilesAssumption DEF EndPass, WritePart
<1>2. /\ index \in Indexes /\ ExtractInv /\ PassInv
      /\ open \in DataFiles \cup {0} /\ part \in 0..1
  BY <1>1 DEF ReaderInv, ExtractInv
<1>3. found = Indexed
  BY <1>1, <1>2, FoundIsIndexed DEF ExtractInv
<1>4. rest' = Pass'
  <2>1. CASE part = 0
    BY <1>1, <1>3, <2>1, LayoutKept DEF Pass, IndexedNanos
  <2>2. CASE part = 1
    BY <1>1, <2>2 DEF Pass
  <2> QED BY <1>2, <2>1, <2>2
<1>5. Before' = Before \cup Pass
  BY <1>1, <1>2, LayoutKept DEF Before, Pass
<1>6. Complete(got, Before \cup (Pass \ rest))'
  <2>1. Complete(got, Before \cup Pass)
    BY <1>1, <1>2 DEF PassInv
  <2> QED BY <1>1, <1>4, <1>5, <2>1, LayoutKept DEF Complete
<1>7. ASSUME failed PROVE FailedAtEnd'
  <2>1. CASE part = 0
    <3>1. open \in DataFiles
      BY <1>2, <1>7 DEF PassInv
    <3>2. PICK i \in IndexedItems : AtEnd(open, i) /\ \A j \in IndexedItems : j <= i
      BY <1>1, <1>2, <1>7, <2>1 DEF PassInv, FailedAtEnd, Pass
    <3>3. \A o \in IndexedNanos : KeepsFile(o) => AfterSeam(o)
      BY <3>1, <3>2 DEF KeepsFile, AfterSeam, IndexedItems, IndexedNanos
    <3>4. rest' = IndexedNanos
      BY <1>1, <1>3, <2>1 DEF IndexedNanos
    <3>5. \A o : KeepsFile(o)' <=> KeepsFile(o)
      BY <1>1 DEF KeepsFile
    <3> QED BY <1>1, <2>1, <3>3, <3>4, <3>5, LayoutKept DEF FailedAtEnd
  <2>2. CASE part = 1
    BY <1>1, <2>2 DEF FailedAtEnd
  <2> QED BY <1>2, <2>1, <2>2
<1>8. PassInv'
  BY <1>1, <1>2, <1>4, <1>6, <1>7 DEF PassInv
<1>9. ExtractInv'
  <2>1. \A B : FoundInBlocks(B)' <=> FoundInBlocks(B)
    BY <1>1, LayoutKept DEF FoundInBlocks
  <2>2. \E B \in SUBSET DOMAIN index'.blocks : FoundInBlocks(B)'
    BY <1>1, <1>2, <2>1 DEF ExtractInv
  <2> QED BY <1>1, <1>2, <1>8, <2>2 DEF ExtractInv
<1>10. Complete(have, Recorded(Entries))' <=> Complete(have, Recorded(Entries))
  BY <1>1, LayoutKept DEF Complete, Recorded, Offsets
<1> QED BY <1>1, <1>2, <1>9, <1>10 DEF ReaderInv, SyncAt

\* What post processing finds: both passes are over.
LEMMA AllIsRead ==
  ASSUME ReaderInv, SyncAt("extract"), part = 2
  PROVE  Complete(got, Recorded(Entries))
<1>1. ExtractInv /\ block = 0
  BY DEF ReaderInv, ExtractInv
<1>2. Complete(got, IndexedItems \cup IndexedNanos)
  BY <1>1 DEF ExtractInv, PassInv, Before, Pass
<1>3. \A o : o \in Recorded(Indexed) <=> o \in IndexedItems \cup IndexedNanos
  BY DEF Recorded, IndexedItems, IndexedNanos
<1> QED BY <1>2, <1>3 DEF Complete, Lost, NotIndexed

LEMMA SyncKeepsInv ==
  ASSUME ReaderInv, MoveLocal \/ OtherSync
  PROVE  ReaderInv'
<1>1. CASE At("sync") /\ RemoveLocal /\ have' = {} /\ UNCHANGED <<got, index, reader>>
  <2>1. /\ sync = "remove" /\ sync' = "rename" /\ local' = NoFile
        /\ UNCHANGED <<index, got>> /\ index \in Indexes
        /\ Complete(got, Recorded(Entries))
    BY <1>1 DEF RemoveLocal, SyncAt, ReaderInv
  <2>2. Complete(got, Recorded(Entries))'
    BY <2>1, LayoutKept DEF Complete, Recorded, Offsets
  <2> QED BY <2>1, <2>2 DEF ReaderInv, SyncAt
<1>2. CASE At("sync") /\ RenameTmp /\ have' = got /\ got' = {} /\ UNCHANGED <<index, reader>>
  <2>1. /\ sync = "rename" /\ sync' = "true" /\ UNCHANGED index /\ index \in Indexes
        /\ Complete(got, Recorded(Entries)) /\ have' = got
    BY <1>2 DEF RenameTmp, SyncAt, ReaderInv, Return
  <2>2. Complete(have, Recorded(Entries))'
    BY <2>1, LayoutKept DEF Complete, Recorded, Offsets
  <2> QED BY <2>1, <2>2 DEF ReaderInv, SyncAt
<1>3. CASE PostProcessData /\ UNCHANGED records
  <2>1. /\ SyncAt("extract") /\ part = 2 /\ sync' = "remove" /\ UNCHANGED <<index, got, have, local>>
        /\ index \in Indexes
    BY <1>3, FilesAssumption DEF PostProcessData, records, ReaderInv
  <2>2. Complete(got, Recorded(Entries))'
    BY <2>1, AllIsRead, LayoutKept DEF Complete, Recorded, Offsets
  <2>3. Complete(have, Recorded(Entries))' <=> Complete(have, Recorded(Entries))
    BY <2>1, LayoutKept DEF Complete, Recorded, Offsets
  <2> QED BY <2>1, <2>2, <2>3 DEF ReaderInv, SyncAt
<1>4. CASE (Missing \/ UpToDate \/ OutOfDate \/ AnswerNo \/ GiveUp) /\ UNCHANGED records
  <2>1. UNCHANGED local /\ sync' \notin {"extract", "rename", "remove"}
    BY <1>4 DEF Missing, UpToDate, OutOfDate, AnswerNo, GiveUp, Return
  <2> QED BY <1>4, <2>1, ReaderIdle
<1> QED BY <1>1, <1>2, <1>3, <1>4 DEF MoveLocal, OtherSync

\* The steps of the start and the game that are no part of syncLocalItemsDB.
LEMMA StartKeepsInv ==
  ASSUME ReaderInv, UNCHANGED records,
         \/ Open \/ CreateScheme \/ CheckVersion \/ Answer
         \/ UpdateCase \/ DropView \/ CreateView \/ Synced
         \/ (\E c \in CharIds : SetToonName(c) \/ SetToonShopId(c))
         \/ (\E i \in ItemIds : InsertItem(i))
         \/ Exit \/ Game
  PROVE  ReaderInv'
<1>1. UNCHANGED local
  BY DEF Open, CreateScheme, CheckVersion, Answer, UpdateCase, DropView, CreateView, Synced,
         SetToonName, SetToonShopId, InsertItem, Exit, Game, Patch, Uninstall, itemsVars
<1>2. \/ UNCHANGED <<sync, part>>
      \/ sync' \in {"idle", "check"}
  BY DEF Open, CreateScheme, CheckVersion, Answer, UpdateCase, DropView, CreateView, Synced,
         SetToonName, SetToonShopId, InsertItem, Exit, Game, Patch, Uninstall, itemsVars
<1> QED BY <1>1, <1>2, ReaderIdle

LEMMA ReaderInvNext == ReaderInv /\ [ExtractionNext]_evars => ReaderInv'
<1> SUFFICES ASSUME ReaderInv, [ExtractionNext]_evars PROVE ReaderInv'
  OBVIOUS
<1>1. CASE ReadIndexBlock
  BY <1>1, ReadIndexBlockKeepsInv
<1>2. CASE ReadRecord
  BY <1>2, ReadRecordKeepsInv
<1>3. CASE BeginExtraction
  BY <1>3, BeginKeepsInv
<1>4. CASE EndPass
  BY <1>4, EndPassKeepsInv
<1>5. CASE MoveLocal \/ OtherSync
  BY <1>5, SyncKeepsInv
<1>6. CASE UNCHANGED evars
  <2>1. UNCHANGED records
    BY <1>6 DEF evars
  <2>2. UNCHANGED local /\ UNCHANGED <<sync, part>>
    BY <1>6 DEF evars, vars, itemsVars
  <2> QED BY <2>1, <2>2, ReaderIdle
<1>7. CASE /\ \/ Open \/ CreateScheme \/ CheckVersion \/ Answer
              \/ UpdateCase \/ DropView \/ CreateView \/ Synced
              \/ (\E c \in CharIds : SetToonName(c) \/ SetToonShopId(c))
              \/ (\E i \in ItemIds : InsertItem(i))
              \/ Exit \/ Game
           /\ UNCHANGED records
  BY <1>7, StartKeepsInv
<1> QED BY <1>1, <1>2, <1>3, <1>4, <1>5, <1>6, <1>7 DEF ExtractionNext, ExtractionStep

THEOREM ReaderInvariant == ExtractionSpec => []ReaderInv
BY ReaderInvInit, ReaderInvNext, PTL DEF ExtractionSpec

\* However often an extraction was interrupted, aoitems.db lacks no record but
\* those at the seams of the game's files, the nanos behind a stream broken
\* there, and those of blocks that are not read; for any index and any files.
THEOREM LocalHasAllButLostHolds == ExtractionSpec => []LocalHasAllButLost
<1>1. ReaderInv => LocalHasAllButLost
  BY DEF ReaderInv, LocalHasAllButLost, Complete
<1> QED BY <1>1, ReaderInvariant, PTL
=============================================================================
