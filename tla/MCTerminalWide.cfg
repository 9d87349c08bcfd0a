SPECIFICATION Spec
CONSTANTS
  Width = 4
  Height = 2
  VgaWidth = 3
  Overrun = 2
PROPERTIES
  EraseReturns
