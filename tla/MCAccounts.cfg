SPECIFICATION Spec
CONSTANTS
  Workers = {w1, w2}
  Emails = {e1, e2}
  Offices = {o1, o2}
  Users = {u1, u2}
  Roles = {"owner", "lawyer"}
  Tokens = {t1, t2}
SYMMETRY Symmetry
INVARIANTS TypeOK OneAccountPerEmail OfficeHasFounder 
CHECK_DEADLOCK FALSE
