SPECIFICATION FairSpec
CONSTANTS
  Capacity = 3
  Values = {a, enter, backspace}
  Zero = zero
  Requests <- MCRequests
  LineSize = 4
  CatSize = 3
  ReadChunk = 2
  CatLines <- MCCatLines
  Enter = enter
  Backspace = backspace
  Space = 16
  ImageBase = 4
  ImageSize = 4
  StackBottom = 10
  StackTop = 13
  PathMax = 3
  WriteChunk = 2
  Width = 3
  Height = 2
  PixelSize = 1
  BlitChunk = 2
  ListChunk = 6
  EventSize = 2
  StructSize = 2
  Addresses <- MCAddresses
  Lengths <- MCWords
  Structs = {0, 6, 7, 11}
  Coordinates <- MCWords
  Sources = {0, 4, 11, 15}
  Strides = {0, 2, 3, 15}
  FileSizes = {0, 1, 4}
  Listings <- MCListings
INVARIANTS
  ProgramsTypeOK
  IndicesAgree
  CommandIsEchoedLine
  OwnMemoryOnly
  WritesStayGiven
  AnswersAreTrue
PROPERTIES
  FifoSpec
  EchoedLineRuns
