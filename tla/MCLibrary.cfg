CONSTANTS
  block_size <- Classes
  META = 1
  SPLIT = 1
  SEARCH = 1
  FREE = 0
  DefragLimit = 1
  HeapLimit = 12
  SizeMod = 13
  Requests = {1, 2, 3, 12}
  Nums = {0, 1, 2}
  Nothing = NULL
  Sizes = {1, 2}
  MaxBlocks = 4
  MaxBytes = 9
  MaxInvalid = 3
  MaxLength = 5
  MaxBlock = 2
  MaxSignals = 2
  Pids = {0, 1}
  NumFrames = 5
  TlbSize = 2
  Values = {0, 1}
  NULL = NULL
  SegFault = SegFault
  MaxCalls = 6
SPECIFICATION LibrarySpec
 
 
INVARIANT BooksBalance
INVARIANT TablesSound
INVARIANT ResultsExact
INVARIANT CopyWhole
PROPERTY IsPrivateMemory
PROPERTY IsList
CHECK_DEADLOCK FALSE
