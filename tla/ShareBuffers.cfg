SPECIFICATION Spec
CONSTANTS
  Labels <- MCLabels
  Dtypes <- MCDtypes
  Blocks = {b1, b2, b3}
  Owners = {o1, o2, o3, o4}
  Handles = {h1, h2}
  None = None
  MaxWrites = 1
SYMMETRY Symmetry
CHECK_DEADLOCK FALSE
INVARIANTS
  IInv
  NoDangling
  NothingLeaks
PROPERTIES
  TablesAreViews
