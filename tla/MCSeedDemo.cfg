SPECIFICATION Spec
CONSTANTS
  Offices = {o1, o2}
  MaxWrites = 0
  MaxRuns = 1
INVARIANT SeedCompletes
CHECK_DEADLOCK FALSE
