CONSTANTS
  KeyIds = {k1, k2, k3}
  SupplyIds = {s1, s2}
  MaxLen = 1
  Mmax = 4
  Hops = 2
  Serving <- Source
  Mthr = 2
  Batch = 2
  LateAnswers = FALSE
  MaxRelays = 3
  MaxLost = 1
SPECIFICATION FairSpec
INVARIANTS
  NoFailure
  EndToEnd
  PadOnce
  Watched
  Synchronised
PROPERTIES
  RelayEnds
CHECK_DEADLOCK FALSE
