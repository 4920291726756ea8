CONSTANTS
  KeyIds = {1, 2, 3}
  Batch = 1
  Life = 2
  Settings <- Tried
  Faulty <- Faulted
  Overlap = FALSE
  MaxAsked = 2
  MaxAir = 2
  MaxFaults = 2
SPECIFICATION FairSpec

  
  
PROPERTY WaitEnds
CHECK_DEADLOCK FALSE
