---------------------------- MODULE MCAutosave ----------------------------
(* Model values for model checking Autosave.                                *)
EXTENDS Autosave

CONSTANTS f1, f2

OneFile == {f1}
TwoFiles == {f1, f2}

Saving == {"saveNow", "hide", "undo", "complete"}
Everything == AllInputs
SwitchOnly == {"switch"}
=============================================================================
