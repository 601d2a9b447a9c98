CONSTANTS
  f1 = f1  f2 = f2
  None = None
  Files <- TwoFiles
  First = f1
  Inputs <- SwitchOnly
  MaxEdits = 2
  MaxTime = 5
  MaxFaults = 0
  MaxAsked = 2
  DeferMax = 0
SPECIFICATION Spec
INVARIANT SwitchSaves
CHECK_DEADLOCK FALSE
