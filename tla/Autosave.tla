------------------------------ MODULE Autosave ------------------------------
(***************************************************************************)
(* Autosave in the page: the state machine of autosaveStateMachine.ts, the *)
(* timers, flags and effects of useAutosave.ts around it, the conflict     *)
(* check and dialog (useConflictResolution.ts, conflictService.ts) and the *)
(* switch to another notebook (Notebook.tsx).  The server is only files    *)
(* with a modification time.                                               *)
(*                                                                         *)
(* A content is named by its notebook and a version number; an edit or an  *)
(* undo may bring an earlier version back.  The page is single-threaded:   *)
(* an action is one macrotask, with the React render and effects it        *)
(* causes.                                                                 *)
(***************************************************************************)
EXTENDS Naturals, Sequences

CONSTANTS
    Files,      \* notebooks
    First,      \* the notebook that is open at the start
    Inputs,     \* what the user and others do
    MaxEdits,   \* bound on edits
    MaxTime,    \* bound on writes of files
    MaxFaults,  \* bound on saves that fail
    MaxAsked,   \* bound on manual saves, hidden tabs and switches
    DeferMax,   \* DEFER_MAX
    None        \* "no value"

AllInputs == {"saveNow", "hide", "undo", "complete", "switch", "external", "lost", "dialog"}

ASSUME FirstAssumption == First \in Files
ASSUME InputAssumption == Inputs \subseteq AllInputs
ASSUME BoundAssumption == {MaxEdits, MaxTime, MaxFaults, MaxAsked, DeferMax} \subseteq Nat

VARIABLES
    disk, mtime, time,          \* the files, when they were written, the clock
    file, doc, known,           \* currentFileId, the cells, lastKnownMtimeRef
    redo,                       \* hasRedoHistory
    edits, faults, asked,       \* edits, failures and manual saves so far
    seen, baseline, dirty,      \* cellsRef, lastSavedSnapshotRef, dirtyCellsRef
    seeding,                    \* the effect that seeds these has yet to run
    machine,                    \* the state of the machine
    effects,                    \* effects waiting for their setTimeout(0)
    timers,                     \* the timers that run
    saving, manual, deferred,   \* saveInProgressRef, isManualSaveRef, deferCountRef
    saves,                      \* the calls of onSave in flight
    dialog,                     \* the conflict dialog, or its resolution
    left,                       \* history variable: what the page showed when it left a notebook
    met,                        \* history variable: whether a conflict was met, and
                                \* answered when another notebook was open
    untold                      \* history variable: the files whose last write the page
                                \* was not told of

server == <<disk, mtime, time>>
content == <<file, doc, known, redo>>
bounds == <<edits, faults, asked>>
tracking == <<seen, baseline, dirty, seeding>>
history == <<left, met, untold>>
flags == <<saving, manual, deferred, saves>>
vars == <<server, content, bounds, tracking, machine, effects, timers, flags, dialog, history>>

Doc == [of : Files, n : Nat]
ASSUME NoneAssumption == None \notin Doc

Timer == {"check", "save", "retry", "defer"}
Status == {"idle", "checking", "waiting", "saving", "error"}
\* an effect batch: whether timers are cancelled first, and what is scheduled or done
Effect == [cancel : BOOLEAN, do : {"check", "wait", "retry", "save"}]
Save == [file : Files, doc : Doc, known : Nat, phase : {"checking", "sending"}]

TypeOK ==
    /\ disk \in [Files -> Doc] /\ mtime \in [Files -> 0..time] /\ time \in Nat
    /\ file \in Files /\ doc \in Doc /\ known \in Nat /\ redo \in BOOLEAN
    /\ edits \in 0..MaxEdits /\ faults \in 0..MaxFaults /\ asked \in 0..MaxAsked
    /\ seen \in Doc /\ baseline \in Doc /\ {dirty, seeding} \subseteq BOOLEAN
    /\ machine \in [status : Status, pending : BOOLEAN]
    /\ machine.pending => machine.status = "saving"
    /\ effects \in Seq(Effect)
    /\ timers \in [Timer -> [ref : BOOLEAN, strays : Nat]]
    /\ saving \in BOOLEAN /\ manual \in BOOLEAN /\ deferred \in 0..DeferMax
    /\ saves \subseteq Save
    /\ dialog \in [doc : Doc, file : Files, resolving : BOOLEAN] \cup {None}
    /\ left \in [Files -> Doc \cup {None}] /\ met \in {"nothing", "conflict", "mixed"}
    /\ untold \subseteq Files

Empty(f) == [of |-> f, n |-> 0]
Idle == [status |-> "idle", pending |-> FALSE]

Init ==
    /\ disk = [f \in Files |-> Empty(f)] /\ mtime = [f \in Files |-> 0] /\ time = 0
    /\ file = First /\ doc = Empty(First) /\ known = 0 /\ redo = FALSE
    /\ edits = 0 /\ faults = 0 /\ asked = 0
    /\ seen = Empty(First) /\ baseline = Empty(First) /\ dirty = FALSE /\ seeding = FALSE
    /\ machine = Idle /\ effects = <<>>
    /\ timers = [t \in Timer |-> [ref |-> FALSE, strays |-> 0]]
    /\ saving = FALSE /\ manual = FALSE /\ deferred = 0 /\ saves = {}
    /\ dialog = None
    /\ left = [f \in Files |-> None] /\ met = "nothing" /\ untold = {}

-----------------------------------------------------------------------------
(* autosaveReducer: the next state and the effects of an event *)

Goto(status, out) == [state |-> [status |-> status, pending |-> FALSE], out |-> out]
Effects(cancel, do) == <<[cancel |-> cancel, do |-> do]>>

Remember(m) == [state |-> [m EXCEPT !.pending = TRUE], out |-> <<>>]

\* Faulty variant: a failed save is not tried again.
Failed_NoRetry == Goto("error", <<>>)
Failed == Goto("error", Effects(FALSE, "retry"))

Reduce(m, event) ==
    CASE event = "CELLS_CHANGED" /\ m.status = "saving" -> Remember(m)
      [] event = "CELLS_CHANGED" /\ m.status # "saving" ->
            Goto("checking", Effects(m.status # "idle", "check"))
      [] event = "MANUAL_SAVE" /\ m.status # "saving" ->
            Goto("saving", Effects(m.status # "idle", "save"))
      [] event = "CHECKED_DIRTY" /\ m.status = "checking" -> Goto("waiting", Effects(FALSE, "wait"))
      [] event = "CHECKED_CLEAN" /\ m.status = "checking" -> Goto("idle", <<>>)
      [] event = "TIMEOUT_FIRED" /\ m.status = "waiting" -> Goto("saving", Effects(FALSE, "save"))
      [] event = "SAVE_SUCCESS" /\ m.status = "saving" ->
            IF m.pending THEN Goto("checking", Effects(FALSE, "check")) ELSE Goto("idle", <<>>)
      [] event = "SAVE_ERROR" /\ m.status = "saving" -> Failed
      [] event = "RETRY" /\ m.status = "error" -> Goto("checking", Effects(FALSE, "check"))
      [] OTHER -> [state |-> m, out |-> <<>>]

\* dispatch, with the effects that are already waiting
Dispatch(event, queue) ==
    /\ machine' = Reduce(machine, event).state
    /\ effects' = queue \o Reduce(machine, event).out
NoDispatch(queue) == effects' = queue /\ UNCHANGED machine

-----------------------------------------------------------------------------
(* Timers *)

\* A ref remembers one timer of a kind; one that it forgets runs on as a stray.
Scheduled(t, kind) ==
    [t EXCEPT ![kind] = [ref |-> TRUE, strays |-> @.strays + (IF @.ref THEN 1 ELSE 0)]]
Restarted(t, kind) == [t EXCEPT ![kind].ref = TRUE]
\* cancelPendingOperations
Cancelled(t) == [kind \in Timer |-> [t[kind] EXCEPT !.ref = FALSE]]
Live(kind) == timers[kind].ref \/ timers[kind].strays > 0
Fired(t, kind) ==
    IF t[kind].strays > 0 THEN [t EXCEPT ![kind].strays = @ - 1] ELSE [t EXCEPT ![kind].ref = FALSE]

-----------------------------------------------------------------------------
(* Saving *)

\* Faulty variant: only the open dialog holds saves up, not the answer under way.
Enabled_Asked == dialog # None => dialog.resolving
Enabled == dialog = None

MayDefer == ~manual /\ "complete" \in Inputs /\ deferred < DeferMax

Skips == saving \/ ~dirty

\* performSave up to its first await; t are the timers, queue the effects left
PerformSave(t, queue) ==
    \/ /\ ~Enabled
       /\ Dispatch("SAVE_SUCCESS", queue)
       /\ timers' = t
       /\ UNCHANGED flags
    \/ /\ Enabled /\ MayDefer
       /\ deferred' = deferred + 1
       /\ timers' = Restarted(t, "defer")
       /\ NoDispatch(queue)
       /\ UNCHANGED <<saving, manual, saves>>
    \/ /\ Enabled /\ Skips
       /\ deferred' = 0
       /\ timers' = t
       /\ Dispatch("SAVE_SUCCESS", queue)
       /\ UNCHANGED <<saving, manual, saves>>
    \/ /\ Enabled /\ ~Skips
       /\ deferred' = 0
       /\ timers' = t
       /\ saving' = TRUE
       /\ saves' = saves \cup {[file |-> file, doc |-> doc, known |-> known, phase |-> "checking"]}
       /\ NoDispatch(queue)
       /\ UNCHANGED manual

\* the setTimeout(0) of a dispatch
RunEffects ==
    /\ effects # <<>>
    /\ LET e == Head(effects)
           t == IF e.cancel THEN Cancelled(timers) ELSE timers
       IN IF e.do = "save" THEN PerformSave(t, Tail(effects))
          ELSE /\ timers' = Scheduled(t, IF e.do = "wait" THEN "save" ELSE e.do)
               /\ NoDispatch(Tail(effects))
               /\ UNCHANGED flags
    /\ UNCHANGED <<server, content, bounds, tracking, dialog, history>>

FireTimer(kind) ==
    /\ Live(kind)
    /\ LET t == Fired(timers, kind) IN
       CASE kind = "check" -> /\ Dispatch(IF dirty THEN "CHECKED_DIRTY" ELSE "CHECKED_CLEAN", effects)
                              /\ timers' = t /\ UNCHANGED flags
         [] kind = "save" -> Dispatch("TIMEOUT_FIRED", effects) /\ timers' = t /\ UNCHANGED flags
         [] kind = "retry" -> Dispatch("RETRY", effects) /\ timers' = t /\ UNCHANGED flags
         [] kind = "defer" -> PerformSave(t, effects)
    /\ UNCHANGED <<server, content, bounds, tracking, dialog, history>>

\* Faulty variant: what the page shows now counts as saved.
SaveReturns_Latest(save) ==
    /\ baseline' = doc /\ dirty' = FALSE
    /\ Dispatch("SAVE_SUCCESS", effects)
    /\ saving' = FALSE /\ manual' = FALSE /\ saves' = saves \ {save}
\* onSave has returned: what was sent is the new baseline
SaveReturns(save) ==
    /\ baseline' = save.doc
    /\ dirty' = (seen # save.doc)
    /\ Dispatch("SAVE_SUCCESS", effects)
    /\ saving' = FALSE /\ manual' = FALSE /\ saves' = saves \ {save}
\* Faulty variant: the machine is told that edits came.
SaveThrows_Pending(save) ==
    /\ machine' = [status |-> "error", pending |-> machine.pending]
    /\ effects' = effects \o Failed.out
    /\ saving' = FALSE /\ manual' = FALSE /\ saves' = saves \ {save}
    /\ UNCHANGED <<baseline, dirty>>
SaveThrows(save) ==
    /\ Dispatch("SAVE_ERROR", effects)
    /\ saving' = FALSE /\ manual' = FALSE /\ saves' = saves \ {save}
    /\ UNCHANGED <<baseline, dirty>>

\* checkForConflict; a conflict opens the dialog and onSave returns normally
CheckConflict(save) ==
    /\ save.phase = "checking"
    /\ IF mtime[save.file] > save.known
       THEN /\ dialog' = [doc |-> save.doc, file |-> save.file, resolving |-> FALSE]
            /\ met' = IF met = "nothing" THEN "conflict" ELSE met
            /\ SaveReturns(save)
       ELSE /\ saves' = (saves \ {save}) \cup {[save EXCEPT !.phase = "sending"]}
            /\ UNCHANGED <<dialog, met, baseline, dirty, machine, effects, saving, manual>>
    /\ UNCHANGED <<server, content, bounds, seen, seeding, timers, deferred, left, untold>>

\* The server writes the file; the page hears of it if its own request succeeds.
Written(f, d, told) ==
    /\ time < MaxTime
    /\ time' = time + 1
    /\ disk' = [disk EXCEPT ![f] = d]
    /\ mtime' = [mtime EXCEPT ![f] = time']
    /\ untold' = IF told THEN untold \ {f} ELSE untold \cup {f}

SaveSucceeds(save) ==
    /\ save.phase = "sending"
    /\ Written(save.file, save.doc, TRUE)
    /\ known' = time'
    /\ SaveReturns(save)
    /\ UNCHANGED <<file, doc, redo, bounds, seen, seeding, timers, deferred, dialog, left, met>>

\* The request fails, before the write, or after it (the metadata update that
\* follows the save fails, or the answer is lost).
SaveFails(save) ==
    /\ save.phase = "sending" /\ faults < MaxFaults
    /\ faults' = faults + 1
    /\ \/ UNCHANGED <<server, known, untold>>
       \/ Written(save.file, save.doc, FALSE) /\ known' = time'
       \/ "lost" \in Inputs /\ Written(save.file, save.doc, FALSE) /\ UNCHANGED known
    /\ SaveThrows(save)
    /\ UNCHANGED <<file, doc, redo, edits, asked, seen, seeding, timers, deferred, dialog, left, met>>

-----------------------------------------------------------------------------
(* What the user does *)

\* The cells change: the effect on cells tracks the change, unless a dialog
\* disables autosave, and reports it, unless there is something to redo.
Changed(d, r) ==
    /\ edits < MaxEdits /\ ~seeding
    /\ edits' = edits + 1
    /\ doc' = d /\ redo' = r
    /\ IF Enabled
       THEN /\ seen' = d /\ dirty' = (d # baseline)
            /\ IF r THEN NoDispatch(effects) ELSE Dispatch("CELLS_CHANGED", effects)
       ELSE NoDispatch(effects) /\ UNCHANGED <<seen, dirty>>
    /\ UNCHANGED <<server, file, known, faults, asked, baseline, seeding, timers, flags, dialog, history>>

\* a new version, or another one there was before
Versions == {[of |-> file, n |-> n] : n \in 0..edits + 1} \ {doc}

Edit == \E d \in Versions : Changed(d, FALSE)
UndoEdit == "undo" \in Inputs /\ \E d \in Versions : Changed(d, TRUE)

\* saveNow
SaveNow ==
    /\ "saveNow" \in Inputs /\ asked < MaxAsked /\ ~seeding
    /\ asked' = asked + 1
    /\ timers' = Cancelled(timers)
    /\ dirty' = (doc # baseline)
    /\ IF dirty' THEN manual' = TRUE /\ Dispatch("MANUAL_SAVE", effects)
       ELSE NoDispatch(effects) /\ UNCHANGED manual
    /\ UNCHANGED <<server, content, edits, faults, seen, baseline, seeding, saving, saves, deferred, dialog, history>>

\* visibilitychange
HideTab ==
    /\ "hide" \in Inputs /\ asked < MaxAsked /\ ~seeding
    /\ (dirty \/ saving) /\ ~redo
    /\ asked' = asked + 1
    /\ Dispatch("MANUAL_SAVE", effects)
    /\ UNCHANGED <<server, content, edits, faults, tracking, timers, flags, dialog, history>>

\* Faulty variant: the file id changes before the cells are there.
SwitchFile_IdFirst(f) ==
    /\ "switch" \in Inputs /\ f # file /\ dialog = None /\ ~seeding
    /\ file' = f
    /\ NoDispatch(effects)
    /\ UNCHANGED <<server, doc, known, redo, bounds, tracking, timers, flags, dialog, history>>
\* loadFile has fetched another notebook: saveNow dispatches, and the render
\* that follows already shows the other notebook.
SwitchFile(f) ==
    /\ "switch" \in Inputs /\ asked < MaxAsked
    /\ f # file /\ dialog = None /\ ~seeding
    /\ asked' = asked + 1
    /\ left' = [left EXCEPT ![file] = doc]
    /\ untold' = untold \ {f}
    /\ timers' = Cancelled(timers)
    /\ IF doc # baseline
       THEN manual' = TRUE /\ Dispatch("MANUAL_SAVE", effects)
       ELSE UNCHANGED manual /\ NoDispatch(effects)
    /\ dirty' = (doc # baseline)
    /\ file' = f /\ doc' = disk[f] /\ known' = mtime[f] /\ redo' = FALSE
    /\ seeding' = TRUE
    /\ UNCHANGED <<server, edits, faults, seen, baseline, saving, saves, deferred, dialog, met>>

\* The effect on the end of a load.  React runs it after the render; an effect
\* of the machine, a timer or an answer may come before.
Seed ==
    /\ seeding /\ seeding' = FALSE
    /\ seen' = doc /\ baseline' = doc /\ dirty' = FALSE
    /\ machine' = Idle
    /\ UNCHANGED <<server, content, bounds, effects, timers, flags, dialog, history>>

\* someone else writes the notebook
WriteExternally ==
    /\ "external" \in Inputs /\ edits < MaxEdits
    /\ edits' = edits + 1
    /\ Written(file, [of |-> file, n |-> edits + 1], FALSE)
    /\ UNCHANGED <<content, faults, asked, tracking, machine, effects, timers, flags, dialog, left, met>>

\* autosave is enabled again: the effect on cells runs
Resumed(d, r) ==
    /\ dialog' = None
    /\ IF d # seen
       THEN /\ seen' = d /\ dirty' = (d # baseline)
            /\ IF r THEN NoDispatch(effects) ELSE Dispatch("CELLS_CHANGED", effects)
       ELSE NoDispatch(effects) /\ UNCHANGED <<seen, dirty>>

Asked == dialog # None /\ ~dialog.resolving /\ ~seeding

\* keepLocal closes the dialog and sends what it holds without a check
KeepLocal ==
    /\ Asked
    /\ dialog' = [dialog EXCEPT !.resolving = TRUE]
    /\ UNCHANGED <<server, content, bounds, tracking, machine, effects, timers, flags, history>>

KeepLocalEnds ==
    /\ dialog # None /\ dialog.resolving /\ ~seeding
    /\ \/ Written(dialog.file, dialog.doc, TRUE) /\ known' = time' /\ UNCHANGED faults
       \/ /\ "dialog" \in Inputs /\ faults < MaxFaults
          /\ faults' = faults + 1
          /\ UNCHANGED <<server, known, untold>>
    /\ Resumed(doc, redo)
    /\ UNCHANGED <<file, doc, redo, edits, asked, baseline, seeding, timers, flags, left, met>>

\* loadRemote replaces the cells and starts a new history; a failed load
\* closes the dialog as well
LoadRemote ==
    /\ Asked
    /\ met' = IF dialog.file # file THEN "mixed" ELSE met
    /\ \/ /\ doc' = disk[dialog.file] /\ known' = mtime[dialog.file] /\ redo' = FALSE
          /\ untold' = untold \ {dialog.file}
          /\ UNCHANGED faults
       \/ /\ "dialog" \in Inputs /\ faults < MaxFaults
          /\ faults' = faults + 1
          /\ UNCHANGED <<doc, known, redo, untold>>
    /\ Resumed(doc', redo')
    /\ UNCHANGED <<server, file, edits, asked, baseline, seeding, timers, flags, left>>

-----------------------------------------------------------------------------
Progress == RunEffects \/ \E kind \in Timer : FireTimer(kind)
SaveEnds == \E save \in saves : CheckConflict(save) \/ SaveSucceeds(save) \/ SaveFails(save)

Next == \/ Progress \/ SaveEnds
        \/ Edit \/ UndoEdit \/ SaveNow \/ HideTab \/ WriteExternally
        \/ KeepLocal \/ KeepLocalEnds \/ LoadRemote
        \/ Seed \/ \E f \in Files : SwitchFile(f)

Spec == Init /\ [][Next]_vars

\* Every effect runs, each kind of timer fires, every save is answered.
FairSpec == /\ Spec /\ WF_vars(RunEffects) /\ WF_vars(SaveEnds)
            /\ \A kind \in Timer : WF_vars(FireTimer(kind))

-----------------------------------------------------------------------------
(* Properties *)

\* saveNow has cancelled the timer of a save that completions hold up, and the
\* machine, which believes that it is saving, ignores all requests from then on.
HeldSaveCut == machine.status = "saving" /\ deferred > 0 /\ ~Live("defer")

\* The page has not met a conflict, whose answer may fail after the marks are gone,
\* nor taken another notebook, whose marks a save of the one before takes away.
Undisturbed == met = "nothing" /\ \A f \in Files : left[f] = None

\* A page that does not warn before it is closed shows what is on disk (useAutosave.ts
\* beforeunload), unless the file was last written by somebody else or by a save whose
\* request failed after the write: a page that goes back to its baseline then reads as
\* saved.
UnsavedIsKnown == Undisturbed /\ ~dirty /\ ~saving => doc = disk[file] \/ file \in untold

\* Changes get to disk (performSave, the retry of a failed save), unless the
\* user may redo: no state of the machine (autosaveReducer) waits for an event that
\* will not come.
ChangesAreSaved == dirty ~> ~dirty \/ redo \/ HeldSaveCut \/ ~Undisturbed

\* The cells of one notebook never get into the file of another, although saves
\* and dialogs of the notebook that was left are still under way. (loadRemote
\* puts the cells of the notebook it was asked about into the open one.)
OwnContents == met = "mixed" \/ \A f \in Files : disk[f].of = f

\* Nothing is saved while the user is asked about a conflict, nor until the
\* answer has been carried out (useAutosave.ts enabled).
DialogHoldsSaves == dialog # None => saves = {}

\* Notebook.tsx:2399 "Save current file before switching".
SwitchSaves == saves = {} /\ effects = <<>> => \A f \in Files \ {file} : left[f] # None => disk[f] = left[f]
=============================================================================
