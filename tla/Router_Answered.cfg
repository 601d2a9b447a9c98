CONSTANTS
  a1 = a1  a2 = a2  c1 = c1  x = x  y = y  p1 = p1
  s1 = s1  s2 = s2  i1 = i1  i2 = i2
  None = None  Absent = Absent
  Agents <- OneAgent
  Cells <- OneCell
  Contents <- TwoContents
  Pages <- OnePage
  Socks <- TwoSocks
  Slots <- OneSlot
  Kinds <- SlowKinds
  MaxOps = 3
SPECIFICATION FairSpec
PROPERTIES OnlyOwnCloseUnregisters EveryRequestAnswered
CHECK_DEADLOCK FALSE
