--------------------------- MODULE AutosaveProofs ---------------------------
(***************************************************************************)
(* Type correctness of Autosave and three of its safety properties, for    *)
(* any number of notebooks, edits, saves, failures and switches: the       *)
(* conflict dialog holds saves up, the cells of one notebook do not get    *)
(* into the file of another, and the page knows what is not saved.         *)
(***************************************************************************)
EXTENDS Autosave, SequenceTheorems, TLAPS

Machine == {m \in [status : Status, pending : BOOLEAN] : m.pending => m.status = "saving"}
Timers == [Timer -> [ref : BOOLEAN, strays : Nat]]
Dialog == [doc : Doc, file : Files, resolving : BOOLEAN]

-----------------------------------------------------------------------------
(* The reducer and the timers *)

\* A state of the machine with something scheduled
LEMMA GotoType ==
    ASSUME NEW status \in Status
    PROVE  /\ Goto(status, <<>>).state \in Machine /\ Goto(status, <<>>).out \in Seq(Effect)
           /\ \A c \in BOOLEAN, do \in {"check", "wait", "retry", "save"} :
                /\ Goto(status, Effects(c, do)).state \in Machine
                /\ Goto(status, Effects(c, do)).out \in Seq(Effect)
<1>1. FALSE \in BOOLEAN /\ [status |-> status, pending |-> FALSE] \in Machine
  BY DEF Machine
<1>2. <<>> \in Seq(Effect)
  OBVIOUS
<1>3. ASSUME NEW c \in BOOLEAN, NEW do \in {"check", "wait", "retry", "save"}
      PROVE  Effects(c, do) \in Seq(Effect)
  <2>1. [cancel |-> c, do |-> do] \in Effect
    BY DEF Effect
  <2> QED BY <2>1 DEF Effects
<1> QED BY <1>1, <1>2, <1>3 DEF Goto

\* autosaveReducer yields a state of the machine and effects, for every event.
LEMMA ReduceType ==
    ASSUME NEW m \in Machine, NEW event
    PROVE  Reduce(m, event).state \in Machine /\ Reduce(m, event).out \in Seq(Effect)
<1> DEFINE Fine(r) == r.state \in Machine /\ r.out \in Seq(Effect)
<1>1. m.status \in Status /\ m.pending \in BOOLEAN
  BY DEF Machine
<1>2. {"idle", "checking", "waiting", "saving", "error"} \subseteq Status
  BY DEF Status
<1>3. (m.status # "idle") \in BOOLEAN /\ FALSE \in BOOLEAN
  OBVIOUS
<1>4. /\ Fine(Goto("checking", Effects(m.status # "idle", "check")))
      /\ Fine(Goto("saving", Effects(m.status # "idle", "save")))
      /\ Fine(Goto("waiting", Effects(FALSE, "wait"))) /\ Fine(Goto("idle", <<>>))
      /\ Fine(Goto("saving", Effects(FALSE, "save"))) /\ Fine(Goto("checking", Effects(FALSE, "check")))
  BY <1>2, <1>3, GotoType
<1>5. Fine(Failed)
  BY <1>2, <1>3, GotoType DEF Failed
<1>6. m.status = "saving" => Fine(Remember(m))
  <2> SUFFICES ASSUME m.status = "saving" PROVE Fine(Remember(m))
    OBVIOUS
  <2>1. [m EXCEPT !.pending = TRUE] \in Machine
    <3>1. ASSUME NEW b \in BOOLEAN PROVE [m EXCEPT !.pending = b] \in Machine
      BY DEF Machine
    <3> QED BY <3>1
  <2> QED BY <2>1 DEF Remember
<1>7. Fine([state |-> m, out |-> <<>>])
  OBVIOUS
<1> HIDE DEF Fine
<1>8. Fine(Reduce(m, event))
  BY <1>4, <1>5, <1>6, <1>7 DEF Reduce
<1> QED BY <1>8 DEF Fine

\* dispatch keeps the types of the machine and its effects.
LEMMA DispatchType ==
    ASSUME machine \in Machine, NEW queue \in Seq(Effect), NEW event,
           Dispatch(event, queue) \/ NoDispatch(queue)
    PROVE  machine' \in Machine /\ effects' \in Seq(Effect)
<1>1. Reduce(machine, event).state \in Machine /\ Reduce(machine, event).out \in Seq(Effect)
  BY ReduceType
<1>2. \A out \in Seq(Effect) : queue \o out \in Seq(Effect)
  OBVIOUS
<1> QED BY <1>1, <1>2 DEF Dispatch, NoDispatch

\* The timers after they are set, cancelled or fire
LEMMA TimersType ==
    ASSUME NEW t \in Timers, NEW kind \in Timer
    PROVE  Scheduled(t, kind) \in Timers /\ Restarted(t, kind) \in Timers
           /\ Cancelled(t) \in Timers /\ Fired(t, kind) \in Timers
<1>1. t[kind] \in [ref : BOOLEAN, strays : Nat] /\ t[kind].strays \in Nat /\ t[kind].ref \in BOOLEAN
  BY DEF Timers
<1>2. ASSUME NEW k \in Timer, NEW b \in BOOLEAN PROVE [t[k] EXCEPT !.ref = b] \in [ref : BOOLEAN, strays : Nat]
  BY DEF Timers
<1>3. Scheduled(t, kind) \in Timers
  <2>1. [ref |-> TRUE, strays |-> t[kind].strays + (IF t[kind].ref THEN 1 ELSE 0)] \in [ref : BOOLEAN, strays : Nat]
    BY <1>1
  <2> QED BY <2>1 DEF Scheduled, Timers
<1>4. Restarted(t, kind) \in Timers
  BY <1>2 DEF Restarted, Timers
<1>5. Cancelled(t) \in Timers
  BY <1>2 DEF Cancelled, Timers
<1>6. Fired(t, kind) \in Timers
  <2>1. CASE t[kind].strays > 0
    <3>1. [t[kind] EXCEPT !.strays = t[kind].strays - 1] \in [ref : BOOLEAN, strays : Nat]
      BY <1>1, <2>1
    <3> QED BY <2>1, <3>1 DEF Fired, Timers
  <2>2. CASE ~(t[kind].strays > 0)
    <3>1. Fired(t, kind) = [t EXCEPT ![kind].ref = FALSE]
      BY <2>2 DEF Fired
    <3> QED BY <1>2, <3>1 DEF Timers
  <2> QED BY <2>1, <2>2
<1> QED BY <1>3, <1>4, <1>5, <1>6

-----------------------------------------------------------------------------
(* Type correctness *)

\* The parts of the type invariant
ServerFits == disk \in [Files -> Doc] /\ mtime \in [Files -> 0..time] /\ time \in Nat
ContentFits == file \in Files /\ doc \in Doc /\ known \in Nat /\ redo \in BOOLEAN
BoundsFit == edits \in 0..MaxEdits /\ faults \in 0..MaxFaults /\ asked \in 0..MaxAsked
TrackingFits == seen \in Doc /\ baseline \in Doc /\ dirty \in BOOLEAN /\ seeding \in BOOLEAN
MachineFits == machine \in Machine /\ effects \in Seq(Effect) /\ timers \in Timers
FlagsFit == saving \in BOOLEAN /\ manual \in BOOLEAN /\ deferred \in 0..DeferMax /\ saves \subseteq Save
DialogFits == dialog \in Dialog \cup {None}
HistoryFits ==
    left \in [Files -> Doc \cup {None}] /\ met \in {"nothing", "conflict", "mixed"} /\ untold \subseteq Files

\* Type correctness, part by part
LEMMA TypeParts ==
    TypeOK <=> /\ ServerFits /\ ContentFits /\ BoundsFit /\ TrackingFits /\ MachineFits /\ FlagsFit
               /\ DialogFits /\ HistoryFits
BY DEF TypeOK, ServerFits, ContentFits, BoundsFit, TrackingFits, MachineFits, FlagsFit, DialogFits, HistoryFits,
       Machine, Timers, Dialog

\* A step that keeps the parts keeps the whole.
LEMMA Whole ==
    ASSUME ServerFits', ContentFits', BoundsFit', TrackingFits', MachineFits', FlagsFit', DialogFits', HistoryFits'
    PROVE  TypeOK'
BY DEF TypeOK, ServerFits, ContentFits, BoundsFit, TrackingFits, MachineFits, FlagsFit, DialogFits, HistoryFits,
       Machine, Timers, Dialog

\* What a step leaves alone keeps its type.
LEMMA Unchanged ==
    ASSUME TypeOK
    PROVE  /\ UNCHANGED server => ServerFits'
           /\ UNCHANGED content => ContentFits'
           /\ UNCHANGED bounds => BoundsFit'
           /\ UNCHANGED tracking => TrackingFits'
           /\ UNCHANGED <<machine, effects, timers>> => MachineFits'
           /\ UNCHANGED flags => FlagsFit'
           /\ UNCHANGED dialog => DialogFits'
           /\ UNCHANGED history => HistoryFits'
           /\ UNCHANGED <<left, met>> /\ (UNCHANGED untold \/ untold' \subseteq Files) => HistoryFits'
BY TypeParts DEF server, content, bounds, tracking, flags, history,
       ServerFits, ContentFits, BoundsFit, TrackingFits, MachineFits, FlagsFit, DialogFits, HistoryFits

\* Dispatching an event keeps the types of machine, effects and timers.
LEMMA MachineStep ==
    ASSUME TypeOK, NEW queue \in Seq(Effect), NEW event, Dispatch(event, queue) \/ NoDispatch(queue),
           timers' \in Timers
    PROVE  MachineFits'
BY TypeParts, DispatchType DEF MachineFits

\* performSave keeps the types.
LEMMA PerformSaveType ==
    ASSUME TypeOK, NEW t \in Timers, NEW queue \in Seq(Effect), PerformSave(t, queue)
    PROVE  MachineFits' /\ FlagsFit'
<1>1. ContentFits /\ FlagsFit /\ 0 \in 0..DeferMax
  BY TypeParts, BoundAssumption
<1>2. timers' \in Timers
  <2>1. "defer" \in Timer
    BY DEF Timer
  <2> QED BY <2>1, TimersType DEF PerformSave
<1>3. Dispatch("SAVE_SUCCESS", queue) \/ NoDispatch(queue)
  BY DEF PerformSave
<1>4. MachineFits'
  BY <1>2, <1>3, MachineStep
<1>5. [file |-> file, doc |-> doc, known |-> known, phase |-> "checking"] \in Save
  BY <1>1 DEF ContentFits, Save
<1>6. /\ saving' \in BOOLEAN /\ manual' \in BOOLEAN
      /\ deferred' \in {0, deferred} \/ (deferred < DeferMax /\ deferred' = deferred + 1)
      /\ saves' \subseteq saves \cup {[file |-> file, doc |-> doc, known |-> known, phase |-> "checking"]}
  BY <1>1 DEF PerformSave, FlagsFit, flags, MayDefer
<1>7. deferred' \in 0..DeferMax
  BY <1>1, <1>6, BoundAssumption DEF FlagsFit
<1>8. FlagsFit'
  BY <1>1, <1>5, <1>6, <1>7 DEF FlagsFit
<1> QED BY <1>4, <1>8

\* The effects of the machine and the timers keep the types.
LEMMA ProgressType ==
    ASSUME TypeOK, Progress
    PROVE  TypeOK'
<1>1. MachineFits
  BY TypeParts
<1>2. CASE RunEffects
  <2> DEFINE e == Head(effects)
             t == IF e.cancel THEN Cancelled(timers) ELSE timers
  <2>1. /\ effects # <<>>
        /\ UNCHANGED <<server, content, bounds, tracking, dialog, history>>
        /\ IF e.do = "save" THEN PerformSave(t, Tail(effects))
           ELSE /\ timers' = Scheduled(t, IF e.do = "wait" THEN "save" ELSE e.do)
                /\ NoDispatch(Tail(effects))
                /\ UNCHANGED flags
    BY <1>2 DEF RunEffects
  <2>2. e \in Effect /\ Tail(effects) \in Seq(Effect)
    BY <1>1, <2>1 DEF MachineFits
  <2>3. t \in Timers
    <3>1. "defer" \in Timer
      BY DEF Timer
    <3> QED BY <1>1, <3>1, TimersType DEF MachineFits
  <2>4. e.do # "save" => (IF e.do = "wait" THEN "save" ELSE e.do) \in Timer
    BY <2>2 DEF Effect, Timer
  <2> HIDE DEF e, t
  <2>5. MachineFits' /\ FlagsFit'
    <3>1. CASE e.do = "save"
      BY <2>1, <2>2, <2>3, <3>1, PerformSaveType
    <3>2. CASE e.do # "save"
      <4>1. timers' \in Timers
        BY <2>1, <2>3, <2>4, <3>2, TimersType
      <4> QED BY <2>1, <2>2, <3>2, <4>1, MachineStep, Unchanged
    <3> QED BY <3>1, <3>2
  <2> QED BY <2>1, <2>5, Unchanged, Whole
<1>3. ASSUME NEW kind \in Timer, FireTimer(kind) PROVE TypeOK'
  <2> DEFINE t == Fired(timers, kind)
  <2>1. t \in Timers /\ effects \in Seq(Effect)
    BY <1>1, TimersType DEF MachineFits
  <2>2. /\ UNCHANGED <<server, content, bounds, tracking, dialog, history>>
        /\ \/ timers' = t /\ UNCHANGED flags /\ \E event : Dispatch(event, effects)
           \/ PerformSave(t, effects)
    BY <1>3 DEF FireTimer, Timer
  <2> HIDE DEF t
  <2>3. MachineFits' /\ FlagsFit'
    BY <2>1, <2>2, MachineStep, PerformSaveType, Unchanged
  <2> QED BY <2>2, <2>3, Unchanged, Whole
<1> QED BY <1>2, <1>3 DEF Progress

\* A write takes the next moment of the clock.
LEMMA WrittenType ==
    ASSUME TypeOK, NEW f \in Files, NEW d \in Doc, NEW told \in BOOLEAN, Written(f, d, told)
    PROVE  ServerFits' /\ time' \in Nat /\ untold' \subseteq Files
<1>1. ServerFits /\ untold \subseteq Files
  BY TypeParts DEF HistoryFits
<1>2. time' \in Nat /\ time' = time + 1
  BY <1>1 DEF Written, ServerFits
<1>3. mtime' \in [Files -> 0..time']
  BY <1>1, <1>2 DEF Written, ServerFits
<1> QED BY <1>1, <1>2, <1>3 DEF Written, ServerFits

\* The calls of onSave that return or fail keep the types.
LEMMA SaveEndsType ==
    ASSUME TypeOK, SaveEnds
    PROVE  TypeOK'
<1>1. /\ MachineFits /\ FlagsFit /\ TrackingFits /\ ServerFits /\ ContentFits /\ HistoryFits
      /\ timers \in Timers /\ effects \in Seq(Effect)
  BY TypeParts DEF MachineFits
<1>2. PICK save \in saves : CheckConflict(save) \/ SaveSucceeds(save) \/ SaveFails(save)
  BY DEF SaveEnds
<1>3. save \in Save /\ save.file \in Files /\ save.doc \in Doc
  BY <1>1 DEF FlagsFit, Save
<1>4. ASSUME SaveReturns(save), UNCHANGED <<seen, seeding, timers, deferred>>
      PROVE  TrackingFits' /\ MachineFits' /\ FlagsFit'
  <2>1. MachineFits'
    BY <1>1, <1>4, MachineStep DEF SaveReturns
  <2> QED BY <1>1, <1>3, <1>4, <2>1 DEF SaveReturns, TrackingFits, FlagsFit
<1>5. CASE CheckConflict(save)
  <2>1. UNCHANGED <<server, content, bounds, seen, seeding, timers, deferred, left, untold>>
    BY <1>5 DEF CheckConflict
  <2>2. CASE mtime[save.file] > save.known
    <3>1. SaveReturns(save) /\ dialog' = [doc |-> save.doc, file |-> save.file, resolving |-> FALSE]
          /\ met' = IF met = "nothing" THEN "conflict" ELSE met
      BY <1>5, <2>2 DEF CheckConflict
    <3>2. DialogFits' /\ HistoryFits'
      BY <1>1, <1>3, <2>1, <3>1 DEF DialogFits, Dialog, HistoryFits
    <3> QED BY <1>4, <2>1, <3>1, <3>2, Unchanged, Whole
  <2>3. CASE ~(mtime[save.file] > save.known)
    <3>1. /\ saves' = (saves \ {save}) \cup {[save EXCEPT !.phase = "sending"]}
          /\ UNCHANGED <<dialog, met, baseline, dirty, machine, effects, saving, manual>>
      BY <1>5, <2>3 DEF CheckConflict
    <3>2. [save EXCEPT !.phase = "sending"] \in Save
      BY <1>3 DEF Save
    <3>3. FlagsFit'
      BY <1>1, <2>1, <3>1, <3>2 DEF FlagsFit
    <3>4. UNCHANGED <<tracking, history>>
      BY <2>1, <3>1 DEF tracking, history
    <3> QED BY <2>1, <3>1, <3>3, <3>4, Unchanged, Whole
  <2> QED BY <2>2, <2>3
<1>6. CASE SaveSucceeds(save)
  <2>1. /\ Written(save.file, save.doc, TRUE) /\ known' = time' /\ SaveReturns(save)
        /\ UNCHANGED <<file, doc, redo, bounds, seen, seeding, timers, deferred, dialog, left, met>>
    BY <1>6 DEF SaveSucceeds
  <2>2. ServerFits' /\ ContentFits' /\ untold' \subseteq Files
    BY <1>1, <1>3, <2>1, WrittenType DEF ContentFits
  <2> QED BY <1>4, <2>1, <2>2, Unchanged, Whole
<1>7. CASE SaveFails(save)
  <2>1. /\ SaveThrows(save)
        /\ UNCHANGED <<file, doc, redo, seen, seeding, timers, deferred, dialog, left, met>>
        /\ \/ UNCHANGED <<server, known, untold>>
           \/ Written(save.file, save.doc, FALSE) /\ (known' = time' \/ UNCHANGED known)
    BY <1>7 DEF SaveFails
  <2>2. ServerFits' /\ ContentFits' /\ (UNCHANGED untold \/ untold' \subseteq Files)
    BY <1>1, <1>3, <2>1, WrittenType, Unchanged DEF ContentFits
  <2>3. MachineFits'
    BY <1>1, <2>1, MachineStep DEF SaveThrows
  <2>4. FlagsFit' /\ TrackingFits'
    BY <1>1, <2>1 DEF SaveThrows, FlagsFit, TrackingFits
  <2>5. BoundsFit'
    BY <1>7, TypeParts, BoundAssumption DEF SaveFails, BoundsFit
  <2> QED BY <2>1, <2>2, <2>3, <2>4, <2>5, Unchanged, Whole
<1> QED BY <1>2, <1>5, <1>6, <1>7


\* An edit, an undo or a redo keeps the types.
LEMMA ChangedType ==
    ASSUME TypeOK, NEW d \in Doc, NEW r \in BOOLEAN, Changed(d, r)
    PROVE  TypeOK'
<1>1. TrackingFits /\ MachineFits /\ ContentFits /\ BoundsFit /\ timers \in Timers /\ effects \in Seq(Effect)
  BY TypeParts DEF MachineFits
<1>2. /\ UNCHANGED <<server, file, known, faults, asked, baseline, seeding, timers, flags, dialog, history>>
      /\ edits < MaxEdits /\ edits' = edits + 1 /\ doc' = d /\ redo' = r
      /\ Dispatch("CELLS_CHANGED", effects) \/ NoDispatch(effects)
      /\ (seen' = d /\ dirty' = (d # baseline)) \/ UNCHANGED <<seen, dirty>>
  BY DEF Changed
<1>3. ContentFits' /\ TrackingFits'
  BY <1>1, <1>2 DEF ContentFits, TrackingFits
<1>4. BoundsFit'
  BY <1>1, <1>2, BoundAssumption DEF BoundsFit
<1>5. MachineFits'
  BY <1>1, <1>2, MachineStep
<1> QED BY <1>2, <1>3, <1>4, <1>5, Unchanged, Whole

\* The effect on cells when autosave is enabled again keeps the types.
LEMMA ResumedType ==
    ASSUME TypeOK, NEW d \in Doc, NEW r \in BOOLEAN, Resumed(d, r), UNCHANGED <<baseline, seeding, timers>>
    PROVE  TrackingFits' /\ MachineFits' /\ DialogFits'
<1>1. TrackingFits /\ MachineFits /\ timers' \in Timers /\ effects \in Seq(Effect)
  BY TypeParts DEF MachineFits
<1>2. /\ dialog' = None
      /\ Dispatch("CELLS_CHANGED", effects) \/ NoDispatch(effects)
      /\ (seen' = d /\ dirty' = (d # baseline)) \/ UNCHANGED <<seen, dirty>>
  BY DEF Resumed
<1> QED BY <1>1, <1>2, MachineStep DEF TrackingFits, DialogFits

\* What the user and others do keeps the types.
LEMMA UserType ==
    ASSUME TypeOK,
           \/ Edit \/ UndoEdit \/ SaveNow \/ HideTab \/ WriteExternally
           \/ KeepLocal \/ KeepLocalEnds \/ LoadRemote
           \/ Seed \/ \E f \in Files : SwitchFile(f)
    PROVE  TypeOK'
<1>1. /\ MachineFits /\ FlagsFit /\ TrackingFits /\ ServerFits /\ ContentFits /\ HistoryFits /\ BoundsFit
      /\ DialogFits /\ timers \in Timers /\ effects \in Seq(Effect) /\ edits \in Nat
  BY TypeParts, BoundAssumption DEF MachineFits, BoundsFit
<1>2. [of |-> file, n |-> edits + 1] \in Doc
  BY <1>1 DEF ContentFits, Doc
<1>3. CASE Edit \/ UndoEdit
  <2>1. \A d \in Versions : d \in Doc
    BY <1>1 DEF Versions, ContentFits, Doc
  <2> QED BY <1>3, <2>1, ChangedType DEF Edit, UndoEdit
<1>4. Cancelled(timers) \in Timers
  <2>1. "check" \in Timer
    BY DEF Timer
  <2> QED BY <1>1, <2>1, TimersType
<1>5. CASE SaveNow
  <2>1. /\ UNCHANGED <<server, content, edits, faults, seen, baseline, seeding, saving, saves, deferred, dialog, history>>
        /\ asked < MaxAsked /\ asked' = asked + 1 /\ timers' = Cancelled(timers) /\ dirty' = (doc # baseline)
        /\ manual' \in {TRUE, manual} /\ (Dispatch("MANUAL_SAVE", effects) \/ NoDispatch(effects))
    BY <1>5 DEF SaveNow
  <2>2. MachineFits'
    BY <1>1, <1>4, <2>1, MachineStep
  <2>3. TrackingFits' /\ FlagsFit'
    BY <1>1, <2>1 DEF TrackingFits, FlagsFit
  <2>4. BoundsFit'
    BY <1>1, <2>1, BoundAssumption DEF BoundsFit
  <2> QED BY <2>1, <2>2, <2>3, <2>4, Unchanged, Whole
<1>6. CASE HideTab
  <2>1. /\ UNCHANGED <<server, content, edits, faults, tracking, timers, flags, dialog, history>>
        /\ asked < MaxAsked /\ asked' = asked + 1 /\ Dispatch("MANUAL_SAVE", effects)
    BY <1>6 DEF HideTab
  <2>2. MachineFits'
    BY <1>1, <2>1, MachineStep
  <2>3. BoundsFit'
    BY <1>1, <2>1, BoundAssumption DEF BoundsFit
  <2> QED BY <2>1, <2>2, <2>3, Unchanged, Whole
<1>7. CASE WriteExternally
  <2>1. /\ UNCHANGED <<content, faults, asked, tracking, machine, effects, timers, flags, dialog, left, met>>
        /\ edits < MaxEdits /\ edits' = edits + 1 /\ Written(file, [of |-> file, n |-> edits + 1], FALSE)
    BY <1>7 DEF WriteExternally
  <2>2. ServerFits' /\ untold' \subseteq Files
    BY <1>1, <1>2, <2>1, WrittenType DEF ContentFits
  <2>3. BoundsFit'
    BY <1>1, <2>1, BoundAssumption DEF BoundsFit
  <2> QED BY <2>1, <2>2, <2>3, Unchanged, Whole
<1>8. CASE KeepLocal
  <2>1. /\ dialog # None /\ dialog' = [dialog EXCEPT !.resolving = TRUE]
        /\ UNCHANGED <<server, content, bounds, tracking, machine, effects, timers, flags, history>>
    BY <1>8 DEF KeepLocal, Asked
  <2>2. DialogFits'
    <3>1. dialog \in Dialog
      BY <1>1, <2>1 DEF DialogFits
    <3>2. ASSUME NEW b \in BOOLEAN PROVE [dialog EXCEPT !.resolving = b] \in Dialog
      BY <3>1 DEF Dialog
    <3> QED BY <2>1, <3>2 DEF DialogFits
  <2> QED BY <2>1, <2>2, Unchanged, Whole
<1>9. CASE KeepLocalEnds
  <2>1. /\ dialog # None /\ Resumed(doc, redo)
        /\ UNCHANGED <<file, doc, redo, edits, asked, baseline, seeding, timers, flags, left, met>>
        /\ \/ Written(dialog.file, dialog.doc, TRUE) /\ known' = time' /\ UNCHANGED faults
           \/ faults < MaxFaults /\ faults' = faults + 1 /\ UNCHANGED <<server, known, untold>>
    BY <1>9 DEF KeepLocalEnds
  <2>2. dialog.file \in Files /\ dialog.doc \in Doc
    BY <1>1, <2>1 DEF DialogFits, Dialog
  <2>3. ServerFits' /\ ContentFits' /\ (UNCHANGED untold \/ untold' \subseteq Files)
    <3>1. ServerFits' /\ known' \in Nat /\ (UNCHANGED untold \/ untold' \subseteq Files)
      <4>1. CASE Written(dialog.file, dialog.doc, TRUE) /\ known' = time'
        BY <2>2, <4>1, WrittenType
      <4>2. CASE UNCHANGED <<server, known, untold>>
        BY <1>1, <4>2, Unchanged DEF ContentFits
      <4> QED BY <2>1, <4>1, <4>2
    <3>2. UNCHANGED <<file, doc, redo>>
      BY <2>1
    <3>3. ContentFits'
      BY <1>1, <3>1, <3>2 DEF ContentFits
    <3> QED BY <3>1, <3>3
  <2>4. BoundsFit'
    <3>1. UNCHANGED <<edits, asked>> /\ (UNCHANGED faults \/ (faults < MaxFaults /\ faults' = faults + 1))
      BY <2>1
    <3> QED BY <1>1, <3>1, BoundAssumption DEF BoundsFit
  <2>5. doc \in Doc /\ redo \in BOOLEAN
    BY <1>1 DEF ContentFits
  <2> QED BY <2>1, <2>3, <2>4, <2>5, ResumedType, Unchanged, Whole
<1>10. CASE LoadRemote
  <2>1. /\ dialog # None /\ Resumed(doc', redo') /\ met' \in {"mixed", met}
        /\ UNCHANGED <<server, file, edits, asked, baseline, seeding, timers, flags, left>>
        /\ untold' \subseteq untold
        /\ \/ doc' = disk[dialog.file] /\ known' = mtime[dialog.file] /\ redo' = FALSE /\ UNCHANGED faults
           \/ faults < MaxFaults /\ faults' = faults + 1 /\ UNCHANGED <<doc, known, redo>>
    BY <1>10 DEF LoadRemote, Asked
  <2>2. dialog.file \in Files
    BY <1>1, <2>1 DEF DialogFits, Dialog
  <2>3. ContentFits'
    <3>1. disk[dialog.file] \in Doc /\ mtime[dialog.file] \in Nat
      BY <1>1, <2>2 DEF ServerFits
    <3> QED BY <1>1, <2>1, <3>1 DEF ContentFits
  <2>4. BoundsFit' /\ HistoryFits'
    BY <1>1, <2>1, BoundAssumption DEF BoundsFit, HistoryFits
  <2>5. doc' \in Doc /\ redo' \in BOOLEAN
    BY <2>3 DEF ContentFits
  <2> QED BY <2>1, <2>3, <2>4, <2>5, ResumedType, Unchanged, Whole
<1>11. CASE Seed
  <2>1. /\ seeding' = FALSE /\ seen' = doc /\ baseline' = doc /\ dirty' = FALSE /\ machine' = Idle
        /\ UNCHANGED <<server, content, bounds, effects, timers, flags, dialog, history>>
    BY <1>11 DEF Seed
  <2>2. Idle \in Machine
    BY DEF Idle, Machine, Status
  <2>3. MachineFits' /\ TrackingFits'
    BY <1>1, <2>1, <2>2 DEF MachineFits, TrackingFits, ContentFits
  <2> QED BY <2>1, <2>3, Unchanged, Whole
<1>12. ASSUME NEW f \in Files, SwitchFile(f) PROVE TypeOK'
  <2>1. /\ UNCHANGED <<server, edits, faults, seen, baseline, saving, saves, deferred, dialog, met>>
        /\ asked < MaxAsked /\ asked' = asked + 1 /\ timers' = Cancelled(timers) /\ dirty' = (doc # baseline)
        /\ manual' \in {TRUE, manual} /\ (Dispatch("MANUAL_SAVE", effects) \/ NoDispatch(effects))
        /\ file' = f /\ doc' = disk[f] /\ known' = mtime[f] /\ redo' = FALSE /\ seeding' = TRUE
        /\ left' = [left EXCEPT ![file] = doc] /\ untold' = untold \ {f}
    BY <1>12 DEF SwitchFile
  <2>2. MachineFits'
    BY <1>1, <1>4, <2>1, MachineStep
  <2>3. TrackingFits' /\ FlagsFit' /\ HistoryFits'
    BY <1>1, <2>1 DEF TrackingFits, FlagsFit, HistoryFits, ContentFits
  <2>4. ContentFits'
    <3>1. disk[f] \in Doc /\ mtime[f] \in Nat
      BY <1>1 DEF ServerFits
    <3> QED BY <2>1, <3>1 DEF ContentFits
  <2>5. BoundsFit'
    BY <1>1, <2>1, BoundAssumption DEF BoundsFit
  <2> QED BY <2>1, <2>2, <2>3, <2>4, <2>5, Unchanged, Whole
<1> QED BY <1>3, <1>5, <1>6, <1>7, <1>8, <1>9, <1>10, <1>11, <1>12

\* Type correctness is inductive.
LEMMA TypeStep == TypeOK /\ [Next]_vars => TypeOK'
<1> SUFFICES ASSUME TypeOK, [Next]_vars PROVE TypeOK'
  OBVIOUS
<1>1. CASE UNCHANGED vars
  BY <1>1, Unchanged, Whole DEF vars
<1> QED BY <1>1, ProgressType, SaveEndsType, UserType DEF Next

\* Every variable keeps its type, however edits, saves, timers, dialogs and switches
\* interleave.
THEOREM TypeCorrect == Spec => []TypeOK
<1>1. Init => TypeOK
  <2> SUFFICES ASSUME Init PROVE TypeOK
    OBVIOUS
  <2>1. \A f \in Files : Empty(f) \in Doc
    BY DEF Empty, Doc
  <2>2. ServerFits
    BY <2>1 DEF Init, ServerFits
  <2>5. ContentFits /\ TrackingFits /\ HistoryFits
    BY <2>1, FirstAssumption DEF Init, ContentFits, TrackingFits, HistoryFits
  <2>6. 0 \in 0..MaxEdits /\ 0 \in 0..MaxFaults /\ 0 \in 0..MaxAsked /\ 0 \in 0..DeferMax
    <3>1. MaxEdits \in Nat /\ MaxFaults \in Nat /\ MaxAsked \in Nat /\ DeferMax \in Nat
      BY BoundAssumption
    <3> QED BY <3>1
  <2>7. BoundsFit
    BY <2>6 DEF Init, BoundsFit
  <2>3. MachineFits
    BY DEF Init, MachineFits, Machine, Timers, Idle, Status
  <2>4. FlagsFit /\ DialogFits
    BY <2>6 DEF Init, FlagsFit, DialogFits
  <2> QED BY <2>2, <2>3, <2>4, <2>5, <2>7, TypeParts
<1> QED BY <1>1, TypeStep, PTL DEF Spec


-----------------------------------------------------------------------------
(* One save at a time *)

\* While a save is in flight its flag is up and there is no dialog.
OneSave == saves = {} \/ (saving /\ dialog = None /\ \E s \in saves : saves = {s})

\* What performSave does to the calls in flight
LEMMA PerformSaveStarts ==
    ASSUME NEW t, NEW queue, PerformSave(t, queue)
    PROVE  \/ UNCHANGED <<saving, saves>>
           \/ /\ dialog = None /\ ~saving /\ saving'
              /\ saves' = saves \cup {[file |-> file, doc |-> doc, known |-> known, phase |-> "checking"]}
BY DEF PerformSave, flags, Enabled, Skips

\* What an effect of the machine or a timer does to the calls in flight
LEMMA ProgressStarts ==
    ASSUME Progress
    PROVE  /\ UNCHANGED <<server, content, bounds, tracking, dialog, history>>
           /\ \/ UNCHANGED <<saving, saves>>
              \/ /\ dialog = None /\ ~saving /\ saving'
                 /\ saves' = saves \cup {[file |-> file, doc |-> doc, known |-> known, phase |-> "checking"]}
<1>1. CASE RunEffects
  <2>1. UNCHANGED flags \/ \E t, queue : PerformSave(t, queue)
    BY <1>1 DEF RunEffects
  <2> QED BY <1>1, <2>1, PerformSaveStarts DEF RunEffects, flags
<1>2. ASSUME NEW kind \in Timer, FireTimer(kind)
      PROVE  /\ UNCHANGED <<server, content, bounds, tracking, dialog, history>>
             /\ UNCHANGED flags \/ \E t, queue : PerformSave(t, queue)
  BY <1>2 DEF FireTimer, Timer
<1> QED BY <1>1, <1>2, PerformSaveStarts DEF Progress, flags

\* How a call of onSave in flight ends or goes on
LEMMA SaveEndsStep ==
    ASSUME SaveEnds, OneSave
    PROVE  \E save \in saves :
             /\ saves = {save} /\ saving /\ dialog = None
             /\ \/ saves' = {}
                \/ saves' = {[save EXCEPT !.phase = "sending"]} /\ UNCHANGED <<saving, dialog>>
<1>1. PICK save \in saves : CheckConflict(save) \/ SaveSucceeds(save) \/ SaveFails(save)
  BY DEF SaveEnds
<1>2. saves = {save} /\ saving /\ dialog = None
  BY DEF OneSave
<1>3. \/ saves' = saves \ {save}
      \/ saves' = (saves \ {save}) \cup {[save EXCEPT !.phase = "sending"]} /\ UNCHANGED <<saving, dialog>>
  BY <1>1 DEF CheckConflict, SaveSucceeds, SaveFails, SaveReturns, SaveThrows
<1> QED BY <1>2, <1>3

\* OneSave is inductive.
LEMMA OneSaveStep == OneSave /\ [Next]_vars => OneSave'
<1> SUFFICES ASSUME OneSave, [Next]_vars PROVE OneSave'
  OBVIOUS
<1>1. CASE UNCHANGED <<saving, saves>> /\ (UNCHANGED dialog \/ saves = {} \/ dialog' = None)
  BY <1>1 DEF OneSave
<1>2. CASE Progress
  BY <1>2, ProgressStarts DEF OneSave
<1>3. CASE SaveEnds
  BY <1>3, SaveEndsStep DEF OneSave
<1>4. CASE Edit \/ UndoEdit \/ SaveNow \/ HideTab \/ WriteExternally
  BY <1>1, <1>4 DEF Edit, UndoEdit, Changed, SaveNow, HideTab, WriteExternally, flags
<1>5. CASE KeepLocal
  BY <1>1, <1>5 DEF KeepLocal, Asked, OneSave, flags
<1>6. CASE KeepLocalEnds \/ LoadRemote
  BY <1>1, <1>6 DEF KeepLocalEnds, LoadRemote, Resumed, flags
<1>7. CASE Seed \/ \E f \in Files : SwitchFile(f)
  BY <1>1, <1>7 DEF Seed, SwitchFile, flags
<1>8. CASE UNCHANGED vars
  BY <1>1, <1>8 DEF vars, flags
<1> QED BY <1>2, <1>3, <1>4, <1>5, <1>6, <1>7, <1>8 DEF Next

\* From the moment a conflict opens the dialog until its answer has been carried
\* out, no save is in flight.
THEOREM DialogHolds == Spec => []DialogHoldsSaves
<1>1. Init => OneSave
  BY DEF Init, OneSave
<1>2. OneSave => DialogHoldsSaves
  BY DEF OneSave, DialogHoldsSaves
<1> QED BY <1>1, <1>2, OneSaveStep, PTL DEF Spec

-----------------------------------------------------------------------------
(* Each notebook's cells in its own file *)

\* The disk, the page, the saves and the dialog hold each notebook's own cells.
Own == met # "mixed" =>
    /\ \A f \in Files : disk[f].of = f
    /\ doc.of = file
    /\ \A s \in saves : s.doc.of = s.file
    /\ dialog # None => dialog.doc.of = dialog.file

\* Own is inductive.
LEMMA OwnStep == TypeOK /\ Own /\ [Next]_vars => Own'
<1> SUFFICES ASSUME TypeOK, Own, [Next]_vars PROVE Own'
  OBVIOUS
<1>1. /\ disk \in [Files -> Doc] /\ file \in Files /\ doc \in Doc
      /\ dialog \in Dialog \cup {None} /\ \A s \in saves : s \in Save
      /\ met \in {"nothing", "conflict", "mixed"}
  BY TypeParts DEF ServerFits, ContentFits, FlagsFit, DialogFits, HistoryFits
<1>2. ASSUME NEW f \in Files, NEW d, d.of = f \/ met = "mixed", NEW told, Written(f, d, told)
      PROVE  met # "mixed" => \A g \in Files : disk'[g].of = g
  BY <1>1, <1>2 DEF Written, Own
<1>3. CASE Progress
  BY <1>3, ProgressStarts DEF Own, server, content, history
<1>4. CASE SaveEnds
  <2>1. PICK save \in saves : CheckConflict(save) \/ SaveSucceeds(save) \/ SaveFails(save)
    BY <1>4 DEF SaveEnds
  <2>2. save.file \in Files /\ (met # "mixed" => save.doc.of = save.file)
    BY <1>1 DEF Save, Own
  <2>3. CASE CheckConflict(save)
    <3>1. UNCHANGED <<disk, file, doc>> /\ (met = "mixed" => met' = "mixed")
      BY <2>3 DEF CheckConflict, server, content
    <3>2. ASSUME NEW sent, sent.doc = save.doc, sent.file = save.file,
                 saves' = (saves \ {save}) \cup {sent}, UNCHANGED dialog
          PROVE  Own'
      BY <2>2, <3>1, <3>2 DEF Own
    <3>3. ASSUME NEW held \in Dialog, held.doc = save.doc, held.file = save.file,
                 saves' = saves \ {save}, dialog' = held
          PROVE  Own'
      BY <2>2, <3>1, <3>3 DEF Own
    <3>4. CASE mtime[save.file] > save.known
      <4> DEFINE held == [doc |-> save.doc, file |-> save.file, resolving |-> FALSE]
      <4>1. saves' = saves \ {save} /\ dialog' = held
        BY <2>3, <3>4 DEF CheckConflict, SaveReturns
      <4>2. held \in Dialog /\ held.doc = save.doc /\ held.file = save.file
        BY <1>1 DEF Save, Dialog
      <4> HIDE DEF held
      <4> QED BY <3>3, <4>1, <4>2
    <3>5. CASE ~(mtime[save.file] > save.known)
      <4> DEFINE sent == [save EXCEPT !.phase = "sending"]
      <4>1. saves' = (saves \ {save}) \cup {sent} /\ UNCHANGED dialog
        BY <2>3, <3>5 DEF CheckConflict
      <4>2. sent.doc = save.doc /\ sent.file = save.file
        BY <1>1 DEF Save
      <4> HIDE DEF sent
      <4> QED BY <3>2, <4>1, <4>2
    <3> QED BY <3>4, <3>5
  <2>4. CASE SaveSucceeds(save) \/ SaveFails(save)
    <3>1. /\ UNCHANGED <<file, doc, dialog, met>> /\ saves' = saves \ {save}
          /\ (\E told : Written(save.file, save.doc, told)) \/ UNCHANGED disk
      BY <2>4 DEF SaveSucceeds, SaveFails, SaveReturns, SaveThrows, server
    <3> QED BY <1>2, <2>2, <3>1 DEF Own
  <2> QED BY <2>1, <2>3, <2>4
<1>5. CASE Edit \/ UndoEdit
  <2>1. PICK d \in Versions : Changed(d, FALSE) \/ Changed(d, TRUE)
    BY <1>5 DEF Edit, UndoEdit
  <2>2. d.of = file
    BY DEF Versions
  <2>3. doc' = d /\ UNCHANGED <<disk, file, saves, dialog, met>>
    BY <2>1 DEF Changed, server, flags, history
  <2> QED BY <2>2, <2>3 DEF Own
<1>6. CASE SaveNow \/ HideTab \/ Seed
  BY <1>6 DEF SaveNow, HideTab, Seed, Own, server, content, flags, history
<1>7. CASE WriteExternally
  <2>1. /\ UNCHANGED <<content, flags, dialog, left, met>>
        /\ Written(file, [of |-> file, n |-> edits + 1], FALSE)
    BY <1>7 DEF WriteExternally
  <2> QED BY <1>1, <1>2, <2>1 DEF Own, content, flags
<1>8. CASE KeepLocal
  BY <1>1, <1>8 DEF KeepLocal, Asked, Own, server, content, flags, history, Dialog
<1>9. CASE KeepLocalEnds
  <2>1. /\ dialog # None /\ dialog' = None /\ UNCHANGED <<file, doc, flags, left, met>>
        /\ Written(dialog.file, dialog.doc, TRUE) \/ UNCHANGED server
    BY <1>9 DEF KeepLocalEnds, Resumed
  <2>2. dialog.file \in Files /\ (met # "mixed" => dialog.doc.of = dialog.file)
    BY <1>1, <2>1 DEF Dialog, Own
  <2> QED BY <1>2, <2>1, <2>2 DEF Own, server, flags
<1>10. CASE LoadRemote
  <2>1. /\ dialog # None /\ dialog' = None /\ UNCHANGED <<server, file, flags, left>>
        /\ met' = IF dialog.file # file THEN "mixed" ELSE met
        /\ doc' \in {doc, disk[dialog.file]}
    BY <1>10 DEF LoadRemote, Asked, Resumed
  <2> QED BY <1>1, <2>1 DEF Own, server, flags
<1>11. ASSUME NEW f \in Files, SwitchFile(f) PROVE Own'
  BY <1>1, <1>11 DEF SwitchFile, Own, server
<1>12. CASE UNCHANGED vars
  BY <1>12 DEF vars, Own, server, content, flags, history
<1> QED BY <1>3, <1>4, <1>5, <1>6, <1>7, <1>8, <1>9, <1>10, <1>11, <1>12 DEF Next

\* Saves and dialogs that are still under way when another notebook is opened never
\* put the cells of one notebook into the file of another.
THEOREM CellsStayHome == Spec => []OwnContents
<1>1. Init => Own
  BY FirstAssumption DEF Init, Own, Empty
<1>2. Own => OwnContents
  BY DEF Own, OwnContents
<1>3. Spec => []TypeOK
  BY TypeCorrect
<1> QED BY <1>1, <1>2, <1>3, OwnStep, PTL DEF Spec

-----------------------------------------------------------------------------
(* What is unsaved is known *)

\* Until a conflict or a switch, the page is dirty exactly when it differs from
\* the content it knows to be saved, which is on disk unless somebody else, or a
\* save the page was not told of, has written the file since.
Tracked == Undisturbed =>
    /\ dialog = None /\ ~seeding /\ seen = doc /\ dirty = (doc # baseline)
    /\ disk[file] = baseline \/ file \in untold
    /\ \A s \in saves : s.file = file

\* A page is undisturbed only if it was so before, nobody asks it anything and it
\* does not take another notebook.
LEMMA UndisturbedBefore ==
    ASSUME TypeOK, Tracked, [Next]_vars, Undisturbed'
    PROVE  /\ Undisturbed
           /\ ~Seed /\ ~KeepLocal /\ ~KeepLocalEnds /\ ~LoadRemote
           /\ \A f \in Files : ~SwitchFile(f)
<1>1. file \in Files /\ doc \in Doc /\ left \in [Files -> Doc \cup {None}]
  BY TypeParts DEF ContentFits, HistoryFits
<1>2. met' = "nothing" /\ \A f \in Files : left'[f] = None
  BY DEF Undisturbed
<1>3. ASSUME NEW f \in Files, SwitchFile(f) PROVE FALSE
  <2>1. left'[file] = doc
    BY <1>1, <1>3 DEF SwitchFile
  <2> QED BY <1>1, <1>2, <2>1, NoneAssumption
<1>4. UNCHANGED left
  <2>1. CASE Progress
    BY <2>1, ProgressStarts DEF history
  <2>2. CASE SaveEnds
    BY <2>2 DEF SaveEnds, CheckConflict, SaveSucceeds, SaveFails, history
  <2>3. CASE Edit \/ UndoEdit \/ SaveNow \/ HideTab \/ WriteExternally
    BY <2>3 DEF Edit, UndoEdit, Changed, SaveNow, HideTab, WriteExternally, history
  <2>4. CASE KeepLocal \/ KeepLocalEnds \/ LoadRemote \/ Seed
    BY <2>4 DEF KeepLocal, KeepLocalEnds, LoadRemote, Seed, history
  <2>5. CASE UNCHANGED vars
    BY <2>5 DEF vars, history
  <2> QED BY <1>3, <2>1, <2>2, <2>3, <2>4, <2>5 DEF Next
<1>5. UNCHANGED met \/ met' = "conflict" \/ LoadRemote
  <2>1. CASE Progress
    BY <2>1, ProgressStarts DEF history
  <2>2. CASE SaveEnds
    <3>1. PICK save \in saves : CheckConflict(save) \/ SaveSucceeds(save) \/ SaveFails(save)
      BY <2>2 DEF SaveEnds
    <3>2. CASE CheckConflict(save)
      BY <3>2, <1>2 DEF CheckConflict
    <3> QED BY <3>1, <3>2 DEF SaveSucceeds, SaveFails, history
  <2>3. CASE Edit \/ UndoEdit \/ SaveNow \/ HideTab \/ WriteExternally
    BY <2>3 DEF Edit, UndoEdit, Changed, SaveNow, HideTab, WriteExternally, history
  <2>4. CASE KeepLocal \/ KeepLocalEnds \/ Seed
    BY <2>4 DEF KeepLocal, KeepLocalEnds, Seed, history
  <2>5. CASE UNCHANGED vars
    BY <2>5 DEF vars, history
  <2> QED BY <1>3, <2>1, <2>2, <2>3, <2>4, <2>5 DEF Next
<1>6. LoadRemote => met' \in {met, "mixed"}
  BY DEF LoadRemote
<1>7. Undisturbed
  BY <1>2, <1>4, <1>5, <1>6 DEF Undisturbed
<1>8. dialog = None /\ ~seeding
  BY <1>7 DEF Tracked
<1> QED BY <1>3, <1>7, <1>8 DEF Seed, KeepLocal, KeepLocalEnds, LoadRemote, Asked

\* Tracked is inductive.
LEMMA TrackedStep == TypeOK /\ OneSave /\ Tracked /\ [Next]_vars => Tracked'
<1> SUFFICES ASSUME TypeOK, OneSave, Tracked, [Next]_vars, Undisturbed'
             PROVE  Tracked'
  BY DEF Tracked
<1>1. /\ Undisturbed
      /\ ~Seed /\ ~KeepLocal /\ ~KeepLocalEnds /\ ~LoadRemote
      /\ \A f \in Files : ~SwitchFile(f)
  BY UndisturbedBefore
<1>2. /\ dialog = None /\ ~seeding /\ seen = doc /\ dirty = (doc # baseline)
      /\ disk[file] = baseline \/ file \in untold
      /\ \A s \in saves : s.file = file
  BY <1>1 DEF Tracked
<1>3. /\ disk \in [Files -> Doc] /\ file \in Files
      /\ \A s \in saves : s \in Save
  BY TypeParts DEF ServerFits, ContentFits, FlagsFit
<1>4. CASE Progress
  <2>1. \/ UNCHANGED saves
        \/ saves' = saves \cup {[file |-> file, doc |-> doc, known |-> known, phase |-> "checking"]}
    BY <1>4, ProgressStarts
  <2>2. \A s \in saves' : s.file = file
    BY <1>2, <2>1
  <2> QED BY <1>2, <1>4, <2>2, ProgressStarts DEF Tracked, server, content, tracking, history
<1>5. CASE SaveEnds
  <2>1. PICK save \in saves : CheckConflict(save) \/ SaveSucceeds(save) \/ SaveFails(save)
    BY <1>5 DEF SaveEnds
  <2>2. saves = {save} /\ save.file = file
    BY <1>2 DEF OneSave
  <2>3. CASE CheckConflict(save)
    <3>1. met' = "nothing" /\ met = "nothing"
      BY <1>1 DEF Undisturbed
    <3>2. /\ saves' = (saves \ {save}) \cup {[save EXCEPT !.phase = "sending"]}
          /\ UNCHANGED <<dialog, met, baseline, dirty, server, content, seen, seeding, untold>>
      BY <2>3, <3>1 DEF CheckConflict
    <3>3. \A s \in saves' : s.file = file
      <4> DEFINE sent == [save EXCEPT !.phase = "sending"]
      <4>1. sent.file = save.file
        BY <1>3 DEF Save
      <4>2. saves' = (saves \ {save}) \cup {sent}
        BY <3>2
      <4> HIDE DEF sent
      <4> QED BY <2>2, <4>1, <4>2
    <3> QED BY <1>2, <3>2, <3>3 DEF Tracked, server, content
  <2>4. CASE SaveSucceeds(save)
    <3>1. /\ UNCHANGED <<file, doc, seen, seeding, dialog>>
          /\ baseline' = save.doc /\ dirty' = (seen # save.doc) /\ saves' = saves \ {save}
          /\ disk' = [disk EXCEPT ![save.file] = save.doc]
      BY <2>4 DEF SaveSucceeds, SaveReturns, Written
    <3>2. disk'[file] = save.doc /\ saves' = {}
      BY <1>3, <2>2, <3>1
    <3> QED BY <1>2, <2>2, <3>1, <3>2 DEF Tracked
  <2>5. CASE SaveFails(save)
    <3>1. /\ UNCHANGED <<file, doc, seen, seeding, dialog, baseline, dirty>>
          /\ saves' = saves \ {save}
          /\ untold' = untold \cup {save.file} \/ UNCHANGED <<disk, untold>>
      BY <2>5 DEF SaveFails, SaveThrows, Written, server
    <3> QED BY <1>2, <2>2, <3>1 DEF Tracked
  <2> QED BY <2>1, <2>3, <2>4, <2>5
<1>6. CASE Edit \/ UndoEdit
  <2>1. PICK d \in Versions : Changed(d, FALSE) \/ Changed(d, TRUE)
    BY <1>6 DEF Edit, UndoEdit
  <2>2. /\ UNCHANGED <<disk, file, baseline, seeding, saves, dialog, untold>>
        /\ doc' = d /\ seen' = d /\ dirty' = (d # baseline)
    BY <1>2, <2>1 DEF Changed, Enabled, server, flags, history
  <2> QED BY <1>2, <2>2 DEF Tracked
<1>7. CASE SaveNow \/ HideTab
  <2>1. /\ UNCHANGED <<disk, file, doc, seen, baseline, seeding, saves, dialog, untold>>
        /\ dirty' = (doc # baseline) \/ UNCHANGED dirty
    BY <1>7 DEF SaveNow, HideTab, server, content, tracking, flags, history
  <2> QED BY <1>2, <2>1 DEF Tracked
<1>8. CASE WriteExternally
  <2>1. /\ UNCHANGED <<file, doc, seen, baseline, dirty, seeding, saves, dialog>>
        /\ untold' = untold \cup {file}
    BY <1>8 DEF WriteExternally, Written, content, tracking, flags
  <2> QED BY <1>2, <2>1 DEF Tracked
<1>9. CASE UNCHANGED vars
  BY <1>2, <1>9 DEF Tracked, vars, server, content, tracking, flags, history
<1> QED BY <1>1, <1>4, <1>5, <1>6, <1>7, <1>8, <1>9 DEF Next

\* A page that has met no conflict and left no notebook, and that does not warn before
\* it is closed, shows what is on disk, whatever edits, undos and saves came before;
\* only somebody else's write, or one whose request failed, can make it wrong.
THEOREM UnsavedKnown == Spec => []UnsavedIsKnown
<1>1. Init => Tracked
  BY FirstAssumption DEF Init, Tracked
<1>2. TypeOK /\ Tracked => UnsavedIsKnown
  BY DEF Tracked, UnsavedIsKnown
<1>3. Init => OneSave
  BY DEF Init, OneSave
<1>4. Spec => []TypeOK
  BY TypeCorrect
<1> QED BY <1>1, <1>2, <1>3, <1>4, OneSaveStep, TrackedStep, PTL DEF Spec

=============================================================================
