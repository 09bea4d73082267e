SPECIFICATION PoaSpec
CONSTANTS
  Poas = {p1, p2}
  Expiries = {1, 31}
  NoExpiry = NoExpiry
  LastDay = 2
  MaxEdits = 3
INVARIANT PoaTypeOK
PROPERTIES RightAfterQuietRun EventuallyRight
