SPECIFICATION AppealSpec
CONSTANTS
  Offsets = {7, 3}
  Deadlines = {4, 8}
  LastDay = 5
  MaxTracks = 2
  MaxAppealCrashes = 1
INVARIANTS AppealTypeOK ResentOnlyAfterCrash
PROPERTY EveryReminderSettled
