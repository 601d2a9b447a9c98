CONSTANTS
  i1 = i1  i2 = i2  i3 = i3  x = x  y = y
  Unlinked = Unlinked
  Ids <- ThreeIds
  Contents <- OneContent
  Start <- TwoCells
  Kinds <- OneInsertion
  MaxEdits = 3
  MaxReloads = 1
SPECIFICATION Spec
PROPERTY UndoSurvivesReloads
CHECK_DEADLOCK FALSE
