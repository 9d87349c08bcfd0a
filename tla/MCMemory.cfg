SPECIFICATION Spec
CONSTANTS
  PageSize = 2
  HeapStart = 2
  HeapSize = 14
  MinIdentity = 12
  ImageBase = 8
  ImageSize = 2
  StackTop = 14
  StackSize = 2
  Sizes = {1, 2, 3}
INVARIANTS
  TypeOK
  ProgramMemoryIsOwn
  BlocksOutsideWindowsKept
CHECK_DEADLOCK FALSE
