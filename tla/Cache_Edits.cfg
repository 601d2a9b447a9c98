CONSTANTS
  o1 = o1  o2 = o2  a1 = a1  a2 = a2  b1 = b1 
  None = None
  Ops <- TwoOps
  AgentEdits <- TwoAgentEdits
  PageEdits <- OnePageEdit
  Kinds <- AllKinds
  MaxObjs = 4
  MaxArrays = 3
  MaxTime = 4
SPECIFICATION Spec
INVARIANTS TypeOK AnswersAreNewest CacheIsTruth EditsInFile
PROPERTY FileNeverRewinds
CHECK_DEADLOCK FALSE
SYMMETRY Alike
CONSTRAINT ShortOverlap
