CONSTANTS
  s1 = s1
  s2 = s2
  KeyIds = {k1, k2}
  Ksids = {s1}
  Primary <- AtSlave
  Units <- Same
  Chunk = 2
  Block = 3
  SlaveAsks = FALSE
  Orderly = FALSE
SPECIFICATION FairSpec
INVARIANTS
  
  NoReuse
PROPERTY CloserEnds
CHECK_DEADLOCK FALSE
