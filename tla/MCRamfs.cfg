SPECIFICATION Spec
CONSTANTS
  Names = {"dev", "a"}
  DevName = "dev"
  NoName = ""
  Contents = {"x", "y"}
  Empty = "empty"
  Dir = "dir"
  Depth = 3
  Size <- SizesDef
  Heap = 4
INVARIANTS
  TreeWellFormed
  PathsResolve
PROPERTIES
  FileTreeSteps
