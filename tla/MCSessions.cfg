SPECIFICATION Spec
CONSTANTS
  Workers = {w1, w2}
  Users = {a}
  Ids = {s1, s2}
  MaxPassword = 2
SYMMETRY Symmetry
INVARIANTS TypeOK TokensProveReset
PROPERTY WritesAuthorised
CHECK_DEADLOCK FALSE
