----------------------------- MODULE MCCellRuns -----------------------------
(* Model values for model checking CellRuns.                                *)
EXTENDS CellRuns

CONSTANTS p1, p2, c1, c2

TwoPages == {p1, p2}
TwoCells == {c1, c2}

Alike == Permutations(TwoPages) \cup Permutations(TwoCells)
=============================================================================
