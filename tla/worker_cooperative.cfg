SPECIFICATION CooperativeSpec
CONSTANTS
  w1 = w1
  w2 = w2
  d1 = d1
  d2 = d2
  d3 = d3
  d4 = d4
  None = None
  Workers <- OneWorker
  Deliveries <- TwoDeliveries
  PipeCap = 1
  MaxFaults = 1
  MaxEmits = 4
  BadFrames = FALSE
  SyncEmits = FALSE
  Careless = FALSE
  Cap = 1
  HasTimeout = FALSE
  Oversize <- NoDeliveries
  InitRefused = TRUE
PROPERTIES
  TakenIsSettled
  DispatchReturns
