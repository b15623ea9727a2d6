SPECIFICATION FairPoolSpec
CONSTANTS
  d1 = d1
  d2 = d2
  d3 = d3
  d4 = d4
  None = None
  Workers <- AllWorkers
  Deliveries <- OneDelivery
  PipeCap = 2
  MaxFaults = 0
  MaxEmits = 0
  BadFrames = FALSE
  SyncEmits = TRUE
  Careless = FALSE
  Cap = 1
  HasTimeout = TRUE
  Oversize <- NoDeliveries
  InitRefused = FALSE
  Size = 2
  Prefetch = 2
  GraceCoversSpawn = FALSE
PROPERTIES
  ShutdownReturns
CHECK_DEADLOCK FALSE
