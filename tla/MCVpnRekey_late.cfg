CONSTANTS
  Interface = "004"
  RetryLimit = 2
  MaxGen = 2
  MaxKeys = 5
  MaxFaults = 4
  LateRequests = TRUE
SPECIFICATION Spec
INVARIANTS TypeOK GenerationsInStep  
CHECK_DEADLOCK FALSE
