\* One toon and one item, data bases of every version, two patches of the game,
\* whose files are two.
SPECIFICATION ExtractionSpec
CONSTANTS
  CharIds = {101}
  ItemIds = {201}
  Values = {1}
  Parts = 2
  MaxRevision = 3
  N = 2
  Size <- MCSize
  Header = 1
  Indexes <- MCIndexes
  BlockSize = 4
INVARIANTS
  LocalHasAllButLost
  SchemeIsCurrent
  VersionIsHonest
  LocalIsComplete
PROPERTIES
  RowsKept
  ColumnsKept
  ReplacementIsReady
  TrueMeansUsable
  UpToDateUnlessRaced
