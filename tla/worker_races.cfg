SPECIFICATION FairWorkerSpec
CONSTANTS
  w1 = w1
  w2 = w2
  d1 = d1
  d2 = d2
  d3 = d3
  d4 = d4
  None = None
  Workers <- OneWorker
  Deliveries <- TwoDeliveries
  PipeCap = 2
  MaxFaults = 1
  MaxEmits = 1
  BadFrames = FALSE
  SyncEmits = TRUE
  Careless = TRUE
  Cap = 2
  HasTimeout = TRUE
  Oversize <- NoDeliveries
  InitRefused = TRUE
INVARIANTS
  TypeOK
  OneOwner
  CallerGate
  NothingStranded
  RequeueUnprocessed
  EmitKeepsChain
PROPERTIES
  KeepsContract
  TakenIsSettled
