SPECIFICATION Spec
CONSTANTS
  PageSize = 2
  HeapStart = 2
  HeapSize = 14
  MinIdentity = 12
  ImageBase = 4
  ImageSize = 2
  StackTop = 8
  StackSize = 2
  Sizes = {1, 2, 3}
INVARIANTS
  BlocksKept
CHECK_DEADLOCK FALSE
