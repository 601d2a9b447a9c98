-------------------------- MODULE MCNotebookStore --------------------------
(* Model values for model checking NotebookStore.                           *)
EXTENDS NotebookStore

CONSTANTS r1, r2, p1, e1

TwoSlots == {r1, r2}
OnePage == {p1}
OneEdit == {e1}

=============================================================================
