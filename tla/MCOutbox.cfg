CONSTANTS
  Events = {1, 2}
  Endpoints = {p1}
  Type <- TypeOf
  Filters <- ByResource
  Pods = {q1}
  MaxAttempts = 2
  FailureThreshold = 2
  MaxFaults = 1
SPECIFICATION FairSpec
INVARIANT NothingLost
PROPERTIES SucceededIsLast EveryDeliveryEnds
CHECK_DEADLOCK FALSE
