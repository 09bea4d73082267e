SPECIFICATION Spec
CONSTANTS
  Hearings = {h1, h2}
  Day = 30
  Windows = {60, 30, 14}
  Slack = 6
  Dates = {3}
  Times = {0, 9}
  Gaps = {5, 6}
  QuietHours <- MCQuietHours
  Origin = 18
  Horizon = 93
  MaxCrashes = 1
SYMMETRY Symmetry
INVARIANTS TypeOK WindowsMet HeardUnlessQuiet
CHECK_DEADLOCK FALSE
