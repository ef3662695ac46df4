SPECIFICATION Spec
CONSTANTS
  a = a
  b = b
  c = c
  d = d
  missing = missing
  Null = Null
  Nan = Nan
  AllColumns = AllColumns
  One <- Half
  I64Min <- MinI64
  I64Max <- MaxI64
  F64 <- AllHalves
  F32 <- AllHalves
  F64Max <- MaxF64
  Parse <- MCParse
  Format <- MCFormat
  Names <- AnyName
  Schema <- TwoColumns
  ColType <- IntTypes
  Files <- IntFiles
  ArgLists <- IntArgs
  Projections <- OnlyAll
  BatchSize = 2
INVARIANTS
  NoMatchingRowLost
