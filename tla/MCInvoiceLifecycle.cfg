SPECIFICATION Spec
CONSTANTS
  Invoices = {i1}
  Workers = {w1, w2}
  Creations <- MCCreations
  Updates <- MCUpdates
  MaxEdits = 3
  MaxCrashes = 1
INVARIANTS TypeOK LinesAddUp
PROPERTIES OnlyRacingOverwritten PastDueFlagged PricedWhileDraft
