SPECIFICATION Spec
CONSTANTS
  Workers = {w1, w2}
  Judgments = {j1}
  Files = {f1}
  Payments = {p1, p2, p3}
  Amounts <- MCAmounts
SYMMETRY Symmetry
INVARIANTS TypeOK WithinRecorded 
