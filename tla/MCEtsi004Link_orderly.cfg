CONSTANTS
  s1 = s1
  s2 = s2
  KeyIds = {k1, k2}
  Ksids = {s1, s2}
  Primary <- AtBoth
  Units <- Same
  Chunk = 2
  Block = 3
  SlaveAsks = FALSE
  Orderly = TRUE
SPECIFICATION Spec
SYMMETRY Symmetry
INVARIANTS
  ReturnAgreeBothRead
  AnswersMatch
  NoFatal
CHECK_DEADLOCK FALSE
