-------------------------- MODULE MCHeadlessCache --------------------------
(* Model values for model checking HeadlessCache.                           *)
EXTENDS HeadlessCache, FiniteSets, TLC

CONSTANTS o1, o2, a1, a2, b1

TwoOps == {o1, o2}
TwoAgentEdits == {a1, a2}
OnePageEdit == {b1}

\* Requests are alike, and so are the edits of agents.
Alike == Permutations(TwoOps) \cup Permutations(TwoAgentEdits)

\* Behaviours in which page and agents have overlapped are followed as long as
\* they are short.
ShortOverlap == InTurns \/ (Cardinality(used) <= 1 /\ file.mtime <= 1)

=============================================================================
