CONSTANTS
  KeyIds = {k1, k2, k3}
  SupplyIds = {s1, s2}
  MaxLen = 3
  MaxLeak = 2
  DefaultLen = 3
  Mmax = 8
  Kind = "relay"
SPECIFICATION Spec
SYMMETRY Symmetry
INVARIANTS
  TypeOK
  Accounting
  NoFailure
  NoReuse
CHECK_DEADLOCK FALSE
