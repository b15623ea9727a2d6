SPECIFICATION FairEngineSpec
CONSTANTS
  Unset = Unset
  Bad = Bad
  m1 = m1
  m2 = m2
  fast = fast
  slow = slow
  ip = ip
  link = link
  Messages <- TwoMessages
  Scenarios <- AllScenarios
  Deliveries <- SixTags
  MaxEmits = 1
INVARIANTS
  EngineTypeOK
  NeverBreaksChannel
  AckedAfterEmits
  OfferFits
  NothingLeaks
  HealthyWhileWorking
  
  LayersOverlay
PROPERTIES
  KeepsQueue
  CleanExit
  EventuallySettled
