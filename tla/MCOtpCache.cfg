SPECIFICATION OtpSpec
CONSTANTS
  Procs = {p1, p2}
  Codes = {c1, c2, c3}
  MaxUses = 2
SYMMETRY Symmetry
INVARIANTS OtpTypeOK UsedOnce
PROPERTY MatchedIsCurrent
CHECK_DEADLOCK FALSE
