--------------------------- MODULE MCHeadlessUndo ---------------------------
(* Model values for model checking HeadlessUndo.                            *)
EXTENDS HeadlessUndo, TLC

CONSTANTS i1, i2, i3, x, y

ThreeIds == {i1, i2, i3}
OneContent == {x}
TwoContents == {x, y}
OneCell == <<[id |-> i1, content |-> x]>>
TwoCells == <<[id |-> i1, content |-> x], [id |-> i2, content |-> x]>>

AllKinds == Recorded \cup Unrecorded
FreshIds == Permutations({i2, i3})
OneInsertion == {"insertCell"}
=============================================================================
