SPECIFICATION FairSpec
CONSTANTS
  a = a
  b = b
  v = v
  w = w
  none = none
  None = none
  Paths <- TwoNamed
  ParquetNamed <- TwoNamed
  Names <- AnyName
  Types <- AnyType
  Rows <- TwoRows
  Limited <- CanOverflowTypes
  Writers = {v, w}
  Disks <- BusyDisks
  Requests <- BusyRequests
  Calls <- TwoCalls
INVARIANTS
  IInv
  PartsWereWritten
  ProjectedByName
  RefusedTouchesNothing
  FinishedWriteStays
PROPERTIES
  BusySpec
  WorkShrinks
  Terminates
