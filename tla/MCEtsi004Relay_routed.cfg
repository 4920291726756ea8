CONSTANTS
  s1 = s1
  KeyIds = {k1, k2, k3, k4}
  Ksids = {s1}
  Primary <- Alice
  Units <- Same
  Chunk = 2
  Hops = 2
  Sources <- Source
  Mmax = 2
  Batch = 2
  SlaveAsks = FALSE
  MaxFills <- FillOnce
  MaxLost = 1
SPECIFICATION Spec
SYMMETRY Symmetry
INVARIANTS
  
  Exposed
  PouredOnce
CHECK_DEADLOCK FALSE
