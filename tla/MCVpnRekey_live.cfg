CONSTANTS
  Interface = "014"
  RetryLimit = 2
  MaxGen = 3
  MaxKeys = 6
  MaxFaults = 4
  LateRequests = FALSE
SPECIFICATION FairSpec
 
PROPERTIES
  KeepsContract
  RekeyProgress
  RotationEnds
CHECK_DEADLOCK FALSE
