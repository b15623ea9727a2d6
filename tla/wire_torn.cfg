SPECIFICATION WireSpec
CONSTANTS
  Base = 2
  MaxFrameSize = 3
  Notes <- AllNotes
  Legible <- Readable
  Room = 3
  MaxNotes = 1
  MaxStray = 0
INVARIANT
  EOFOnlyAtBoundary
