SPECIFICATION Spec
CONSTANTS
  a = a
  b = b
  c = c
  d = d
  missing = missing
  Null = Null
  Nan = Nan
  AllColumns = AllColumns
  One <- Half
  I64Min <- MinI64
  I64Max <- MaxI64
  F64 <- CoarseDoubles
  F32 <- CoarseDoubles
  F64Max <- MaxF64
  Parse <- MCParse
  Format <- MCFormat
  Names <- AnyName
  Schema <- FourColumns
  ColType <- ValueTypes
  Files <- ValueFiles
  ArgLists <- ValueArgs
  Projections <- OnlyAll
  BatchSize = 2
INVARIANTS
  IInv
  NoTupleDropped
  NoOverPruning
PROPERTIES
  AnswersTheCaller
