SPECIFICATION Spec
CONSTANTS
  a = a
  b = b
  v = v
  w = w
  none = none
  None = none
  Paths <- TwoNamed
  ParquetNamed <- TwoNamed
  Names <- AnyName
  Types <- AnyType
  Rows <- ThreeRows
  Limited <- CanOverflowTypes
  Writers = {w}
  Disks <- RenameDisks
  Requests <- RenameRequests
  Calls <- RenameCalls
INVARIANTS
  StrictAcrossFiles
