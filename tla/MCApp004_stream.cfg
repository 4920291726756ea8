CONSTANTS
  Size = 2
  Lives = {1, 2, 3}
  Chunks = 5
  MaxAsked = 4
  MaxAir = 3
SPECIFICATION FairSpec
INVARIANTS
  SendsOn
  InStep
PROPERTY BecomesReady
CHECK_DEADLOCK FALSE
