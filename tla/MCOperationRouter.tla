------------------------ MODULE MCOperationRouter ------------------------
(* Model values and symmetry for model checking OperationRouter.            *)
EXTENDS OperationRouter, TLC

CONSTANTS a1, a2, c1, x, y, p1, s1, s2, i1, i2

OneAgent == {a1}
TwoAgents == {a1, a2}
OneCell == {c1}
TwoContents == {x, y}
OnePage == {p1}
OneSock == {s1}
TwoSocks == {s1, s2}
OneSlot == {i1}
TwoSlots == {i1, i2}

OneCellKinds == {"readCell", "updateContent", "deleteCell"}
SlowKinds == {"readNotebook", "executeCell"}

Symmetry == Permutations(TwoContents) \cup Permutations(TwoSlots) \cup Permutations(TwoAgents)
=============================================================================
