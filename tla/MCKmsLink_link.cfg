CONSTANTS
  KeyIds = {k1, k2, k3, k4, k5}
  SupplyIds = {s1, s2}
  MaxLen = 2
  Mmax = 4
  Mthr = 4
  QMin = 0
  QMax = 9
  MaxPending = 4
  Requests <- Mixed
SPECIFICATION Spec
SYMMETRY Symmetry
INVARIANTS
  NoFailure
  Mirror
  KeysAgree
  ServedOnce
  AnswersMatch
CHECK_DEADLOCK FALSE
