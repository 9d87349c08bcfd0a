SPECIFICATION ScreenSpec
CONSTANTS
  FramebufferWidth = 20
  FramebufferHeight = 39
  MaxColumns = 2
  MaxRows = 64
  Width = 2
  Height = 2
  VgaWidth = 2
  Overrun = 2
  Chars = {" ", "a"}
  Blank = " "
INVARIANTS
  ScreenTypeOK
  CursorOnScreen
  PictureIsTrue
PROPERTIES
  EraseReturns
  DrawingIsKept
