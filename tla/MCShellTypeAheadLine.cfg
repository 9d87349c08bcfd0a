SPECIFICATION Spec
CONSTANTS
  Size <- MCSize
  LineTags = 3
INVARIANTS
  CommandIsLine
