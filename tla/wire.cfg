SPECIFICATION WireSpec
CONSTANTS
  Base = 2
  MaxFrameSize = 3
  Notes <- AllNotes
  Legible <- Readable
  Room = 3
  MaxNotes = 4
  MaxStray = 2
INVARIANTS
  WireTypeOK
  InSync
  NothingSkipped
  TornIsNoticed
PROPERTIES
  WrittenIsRead
  KeepsNotes
