SPECIFICATION FairScanSpec
CONSTANTS
  seeder = seeder
  crawler = crawler
  scanner = scanner
  MessageID = MessageID
  Words <- AllWords
  Agents <- AllAgents
  Selectors <- AllSelectors
  Roots <- StartDomain
  Inputs <- WebInputs
  Outputs <- WebOutputs
  Known <- WebKnown
  Cyclic <- WebCyclic
  Depth <- WebDepth
  Accepted <- WebAccepted
  Slots = {1, 2}
  Timed <- Seeder
  Careless <- Seeder
  EmitsEach = 1
  MaxReturns = 1
  MaxStray = 1
INVARIANTS
  ScanTypeOK
  ChainsWithinLimits
PROPERTIES
  ScanEnds
