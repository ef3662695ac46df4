SPECIFICATION Spec
CONSTANTS
  Gone = Gone
  NoColumn = Gone
  Labels <- MCLabels
  Frames <- ChangingFrames
  MaxEdits = 1
INVARIANTS
  StrictNeverCopied
