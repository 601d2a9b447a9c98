CONSTANTS
  i1 = i1  i2 = i2  i3 = i3  x = x  y = y
  Unlinked = Unlinked
  Ids <- ThreeIds
  Contents <- TwoContents
  Start <- OneCell
  Kinds <- AllKinds
  MaxEdits = 3
  MaxReloads = 1
SPECIFICATION Spec
SYMMETRY FreshIds
INVARIANTS TypeOK HistoryReplays UndoSurvivesReload
PROPERTY UndoRedoExact
CHECK_DEADLOCK FALSE
