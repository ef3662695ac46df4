SPECIFICATION Spec
CONSTANTS
  Gone = Gone
  NoColumn = Gone
  Labels <- MCLabels
  Frames <- AllFrames
  MaxEdits = 0
INVARIANTS
  NullableByDtype
