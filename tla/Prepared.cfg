SPECIFICATION MCSpec
CONSTANTS
  Writers = {w1, w2, w3}
  Openers = {p1, p2}
  Inodes = {i1, i2}
  First = h1
  Heads = {h1, h2}
  Requests = {r1, r2, r3}
  Broken = Broken
  None = None
  MaxLosses = 1
  MaxSize = 2
  MaxEdits = 2
  WordBits = 5
  Words = {0, 1, 2, 3, 4, 5, 6, 8, 10, 12, 16, 17, 31}
  Align = 2
  LenBits = 2
  Chars = {0, 1, 2}
  Bad = 0
  Foreign = Foreign
  Tables <- TableKinds
  SomeRecords <- RecordLists
  SomeExact <- ExactIndexes
  SomeNgram <- NgramIndexes
  MaxCells = 18
  MaxBlob = 3
  MaxExact = 5
  MaxOrd = 2
CHECK_DEADLOCK FALSE
INVARIANTS
  TypeOK
  ViewStaysInBounds
  OneEncoding
  LookupsFindAll
  PublishIsTrue
  OneArtifactServed
  HandlersHaveTheirStore
PROPERTIES
  LockReturns
  ShutdownCompletes
