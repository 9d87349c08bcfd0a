SPECIFICATION FairSpec
CONSTANTS
  Size <- MCSize
  LineTags = 2
INVARIANTS
  TypeOK
  ScanEndsInBuffer
  PoliteCommandIsLine
PROPERTIES
  SubmittedLineRuns
  StopEndsRect
