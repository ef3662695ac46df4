SPECIFICATION FileSpec
CONSTANTS
  a = a
  b = b
  c = c
  d = d
  missing = missing
  Null = Null
  Nan = Nan
  AllColumns = AllColumns
  One <- Half
  I64Min <- MinI64
  I64Max <- MaxI64
  F64 <- AllHalves
  F32 <- AllHalves
  Parse <- MCParse
  Format <- MCFormat
  Names <- AnyName
  Schema <- TwoColumns
  ColType <- IntTypes
  Files <- EitherFiles
  FilterLists <- EitherFilters
  Projections <- RequestProjections
  BatchSize = 2
INVARIANTS
  NoOverPruning
  OnlyMatchingRows
  NoMatchingRowLost
  PrunedGroupsUnread
  PruningIsSharp
  TypeOK
  IInv
PROPERTIES
  ScanSpec
  WorkShrinks
  Terminates
