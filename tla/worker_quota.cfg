SPECIFICATION WorkerSpec
CONSTANTS
  w1 = w1
  w2 = w2
  d1 = d1
  d2 = d2
  d3 = d3
  d4 = d4
  None = None
  Workers <- OneWorker
  Deliveries <- ThreeDeliveries
  PipeCap = 2
  MaxFaults = 1
  MaxEmits = 2
  BadFrames = TRUE
  SyncEmits = TRUE
  Careless = FALSE
  Cap = 2
  HasTimeout = FALSE
  Oversize <- NoDeliveries
  InitRefused = TRUE
SYMMETRY Symmetry
INVARIANTS
  NoAckLost
  SendHasRoom
  HandlerWithinCap
