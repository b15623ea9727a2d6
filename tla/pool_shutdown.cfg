SPECIFICATION FairPoolSpec
CONSTANTS
  d1 = d1
  d2 = d2
  d3 = d3
  d4 = d4
  None = None
  Workers <- AllWorkers
  Deliveries <- TwoDeliveries
  PipeCap = 1
  MaxFaults = 1
  MaxEmits = 0
  BadFrames = TRUE
  SyncEmits = TRUE
  Careless = FALSE
  Cap = 1
  HasTimeout = FALSE
  Oversize <- NoDeliveries
  InitRefused = FALSE
  Size = 2
  Prefetch = 2
  GraceCoversSpawn = TRUE
PROPERTIES
  ShutdownReturns
  CancelStops
