SPECIFICATION Spec
CONSTANTS
  Workers = {w1, w2}
  Docs = {d1, d2, d3}
  Seconds = {0, 1}
SYMMETRY Symmetry
INVARIANTS TypeOK RowHasFile FileHasRow SummaryOfOwnFile
CHECK_DEADLOCK FALSE
