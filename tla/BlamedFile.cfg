SPECIFICATION Spec
CONSTANTS
  a = a
  b = b
  v = v
  w = w
  none = none
  None = none
  Paths <- TwoNamed
  ParquetNamed <- TwoNamed
  Names <- AnyName
  Types <- AnyType
  Rows <- ThreeRows
  Limited <- CanOverflowTypes
  Writers = {}
  Disks <- CategoricalDisks
  Requests <- RenameRequests
  Calls <- NoCalls
INVARIANTS
  ReadErrorNamesOffender
