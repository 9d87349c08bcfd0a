SPECIFICATION FairSpec
\* A controller told to switch its devices off delivers nothing more.
CHECK_DEADLOCK FALSE
CONSTANTS
  KeysMax = 1
  AuxMax = 5
INVARIANTS
  TypeOK
  KeysArriveOnce
  PlainPacketResyncs
PROPERTIES
  EventsArePackets
  BufferIsRead
