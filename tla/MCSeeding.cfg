SPECIFICATION Spec
CONSTANTS
  Offices = {o1, o2}
  MaxWrites = 1
  MaxRuns = 2
INVARIANTS TypeOK PurgeBlockedOnlyBy OnlyInvoiceIdUnassigned
PROPERTY PurgeAllOrNothing
CHECK_DEADLOCK FALSE
