SPECIFICATION Spec
CONSTANTS
  a = a
  b = b
  v = v
  w = w
  none = none
  None = none
  Paths <- AllPaths
  ParquetNamed <- TwoNamed
  Names <- AnyName
  Types <- AnyType
  Rows <- ThreeRows
  Limited <- CanOverflowTypes
  Writers = {}
  Disks <- QuietDisks
  Requests <- QuietRequests
  Calls <- NoCalls
INVARIANTS
  IInv
  MismatchIsFirst
  ReadErrorIsTrue
PROPERTIES
  ScanSpec
