SPECIFICATION CooperativeSpec
CONSTANTS
  w1 = w1
  w2 = w2
  d1 = d1
  d2 = d2
  d3 = d3
  d4 = d4
  None = None
  Workers <- OneWorker
  Deliveries <- OneDelivery
  PipeCap = 2
  MaxFaults = 0
  MaxEmits = 0
  BadFrames = FALSE
  SyncEmits = TRUE
  Careless = FALSE
  Cap = 1
  HasTimeout = FALSE
  Oversize <- OneDelivery
  InitRefused = FALSE
PROPERTIES
  TakenIsSettled
