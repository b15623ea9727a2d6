SPECIFICATION FairPoolSpec
CONSTANTS
  d1 = d1
  d2 = d2
  d3 = d3
  d4 = d4
  None = None
  Workers <- AllWorkers
  Deliveries <- FourDeliveries
  PipeCap = 1
  MaxFaults = 0
  MaxEmits = 0
  BadFrames = FALSE
  SyncEmits = TRUE
  Careless = FALSE
  Cap = 1
  HasTimeout = TRUE
  Oversize <- NoDeliveries
  InitRefused = FALSE
  Size = 1
  Prefetch = 1
  GraceCoversSpawn = TRUE
PROPERTIES
  DispatchReturns
