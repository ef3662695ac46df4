SPECIFICATION FrameSpec
CONSTANTS
  Gone = Gone
  NoColumn = Gone
  Labels <- MCLabels
  Frames <- AllFrames
  MaxEdits = 2
INVARIANTS
  TypeOK
  IInv
  ReportsTheOutcome
  ChunkedColumnsReported
  StrictSharesAsPlanned
  StrictBlamesACopy
  ColumnsArriveWhole
  ObjectColumnsValidated
PROPERTIES
  ConvertsTheFrame
