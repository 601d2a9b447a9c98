CONSTANTS
  p1 = p1  p2 = p2  c1 = c1  c2 = c2
  Agent = Agent  NoCell = NoCell
  Pages <- TwoPages
  Cells <- TwoCells
  MaxRuns = 2
  MaxPrinted = 1
  MaxChannel = 1
  MaxOnWay = 1
  MaxTroubles = 1
SPECIFICATION Spec
INVARIANTS TypeOK OneAtATime EndComes ResultsInOrder OutputsOnce ResultsToCome
SYMMETRY Alike
CHECK_DEADLOCK FALSE
