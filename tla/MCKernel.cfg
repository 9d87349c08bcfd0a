SPECIFICATION Spec
CONSTANTS
  ProcessMax = 3
  FdMax = 5
  PidModulus = 3
  FileSizes <- MCFileSizes
  ConsoleCapacity = 2
  MouseCapacity = 1
  ReadMax = 3
  ShellKeysMax = 2
  FbAvailable = TRUE
INVARIANTS
  TypeOK
  OneLiveProcess
  FramebufferOwnership
  SchedulerConsistent
  NoStrayDescriptors
  OffsetWithinFile
  RunsOwnImage
PROPERTIES
  KeysFollowProgram
  ShellKeepsItsKeys
