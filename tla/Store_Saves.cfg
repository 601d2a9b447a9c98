CONSTANTS
  r1 = r1  r2 = r2   p1 = p1  e1 = e1
  None = None
  Slots <- TwoSlots
  Pages <- OnePage
  Edits <- OneEdit
  Kinds <- AllKinds
  MaxTickets = 3
  MaxCrashes = 1
SPECIFICATION FairSpec
INVARIANTS TypeOK HistoryNotBehind
PROPERTIES NothingRolledBack SavesAreSerial EverySaveEnds
CHECK_DEADLOCK FALSE
