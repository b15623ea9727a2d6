SPECIFICATION PoolSpec
CONSTANTS
  d1 = d1
  d2 = d2
  d3 = d3
  d4 = d4
  None = None
  Workers <- AllWorkers
  Deliveries <- ThreeDeliveries
  PipeCap = 2
  MaxFaults = 1
  MaxEmits = 0
  BadFrames = FALSE
  SyncEmits = TRUE
  Careless = FALSE
  Cap = 1
  HasTimeout = FALSE
  Oversize <- NoDeliveries
  InitRefused = TRUE
  Size = 2
  Prefetch = 2
  GraceCoversSpawn = TRUE
SYMMETRY Symmetry
INVARIANTS
  PoolTypeOK
  OneOwner
  PickHasRoom
  DrainedAtReturn
PROPERTIES
  KeepsReception
