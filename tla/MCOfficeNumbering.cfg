SPECIFICATION Spec
CONSTANTS
  fresh = fresh
  demo = demo
  Workers = {w1, w2}
  Offices = {fresh, demo}
  Ids = {i1, i2, i3}
  Seeded <- MCSeeded
SYMMETRY Symmetry
INVARIANTS TypeOK Gapless ConflictIffStale
PROPERTY IssuesInOrder
