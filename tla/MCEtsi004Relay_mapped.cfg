CONSTANTS
  s1 = s1
  KeyIds = {k1, k2}
  Ksids = {s1}
  Primary <- Alice
  Units <- Same
  Chunk = 2
  Hops = 2
  Sources <- Source
  Mmax = 2
  Batch = 1
  SlaveAsks = FALSE
  MaxFills <- FillOnce
  MaxLost = 0
SPECIFICATION Spec
INVARIANT Correlated
CHECK_DEADLOCK FALSE
