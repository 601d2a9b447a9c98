CONSTANTS
  a1 = a1  a2 = a2  c1 = c1  x = x  y = y  p1 = p1
  s1 = s1  s2 = s2  i1 = i1  i2 = i2
  None = None  Absent = Absent
  Agents <- TwoAgents
  Cells <- OneCell
  Contents <- TwoContents
  Pages <- OnePage
  Socks <- OneSock
  Slots <- OneSlot
  Kinds <- AllKinds
  MaxOps = 3
SPECIFICATION Spec
INVARIANTS TypeOK AnswersAreTrue
PROPERTY OverwritesWereRead
SYMMETRY Symmetry
CHECK_DEADLOCK FALSE
