SPECIFICATION Spec
CONSTANTS
  a = a
  b = b
  c = c
  d = d
  missing = missing
  Null = Null
  Nan = Nan
  AllColumns = AllColumns
  One <- Half
  I64Min <- MinI64
  I64Max <- WideMax
  F64 <- CoarseDoubles
  F32 <- CoarseFloats
  Parse <- MCParse
  Format <- MCFormat
  Names <- AnyName
  Schema <- TwoColumns
  ColType <- NarrowTypes
  Files <- NarrowFiles
  FilterLists <- NarrowFilters
  Projections <- OnlyAll
  BatchSize = 2
INVARIANTS
  NoOverPruning
