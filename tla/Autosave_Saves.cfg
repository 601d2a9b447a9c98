CONSTANTS
  f1 = f1  f2 = f2
  None = None
  Files <- TwoFiles
  First = f1
  Inputs <- Everything
  MaxEdits = 3
  MaxTime = 5
  MaxFaults = 1
  MaxAsked = 2
  DeferMax = 1
SPECIFICATION FairSpec
INVARIANTS TypeOK UnsavedIsKnown OwnContents DialogHoldsSaves
PROPERTY ChangesAreSaved
CHECK_DEADLOCK FALSE
