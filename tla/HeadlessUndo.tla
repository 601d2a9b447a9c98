---------------------------- MODULE HeadlessUndo ----------------------------
(***************************************************************************)
(* Undo and redo of ONE notebook edited through the server, without a page *)
(* (undoRedoManager.ts and the cell operations of headless-handler.ts):    *)
(* the undo and redo stacks, the append-only history they are rebuilt from *)
(* and the cells.  Positions count from 1.                                 *)
(*                                                                         *)
(* The cell that insertCell adds and the cell in the operation it records  *)
(* are ONE object; later edits in place change both.  "of" names the       *)
(* insertion whose recorded cell a live cell still is.                     *)
(***************************************************************************)
EXTENDS Naturals, Sequences, SequencesExt

CONSTANTS
    Ids,          \* cell ids
    Contents,     \* cell contents
    Start,        \* the notebook at the start, a sequence of [id, content]
    Kinds,        \* the edits that are made
    MaxEdits,     \* bound on edits in a behaviour
    MaxReloads,   \* bound on reloads in a behaviour
    Unlinked      \* an undo that does not know what it undoes

Recorded == {"insertCell", "deleteCell", "moveCell", "updateContent",
             "updateMetadata", "clearNotebook"}
\* these change the cells and record nothing
Unrecorded == {"deleteCells", "insertCells", "duplicateCell"}

Cell == [id : Ids, content : Contents]

ASSUME KindsAssumption == Kinds \subseteq Recorded \cup Unrecorded
\* A notebook that is read gets distinct ids (resolveJupyterCellIds, fs-service.ts:43-96).
Distinct(cs) == \A i, j \in 1..Len(cs) : cs[i].id = cs[j].id => i = j
ASSUME StartAssumption == Start \in Seq(Cell) /\ Distinct(Start)
ASSUME BoundAssumption == MaxEdits \in Nat /\ MaxReloads \in Nat
ASSUME UnlinkedAssumption == Unlinked \notin Nat
VARIABLES
    cells,   \* the cached notebook
    undo,    \* undoStack
    redo,    \* redoStack
    history, \* fullHistory after its first snapshot
    edits,   \* edits so far
    reloads, \* reloads so far
    before,  \* history variable: the notebook before each recorded operation
    after,   \* history variable: the notebook after it
    past     \* history variable: the kinds of edits so far, whether anything was
             \* redone and whether a reload has brought back undone operations

stacks == <<undo, redo, history>>
vars == <<cells, stacks, edits, reloads, before, after, past>>

Position == Nat \ {0}
Operation ==
    [type : {"insertCell", "deleteCell"}, index : Position, cell : Cell]
    \cup [type : {"moveCell"}, from : Position, to : Position]
    \cup [type : {"updateContent"}, id : Ids, old : Contents, new : Contents]
    \cup [type : {"updateMetadata"}, id : Ids, old : Ids, new : Ids]
\* linked: the operationId is still on the operation
Entry == [op : Operation, n : Nat, linked : BOOLEAN]
\* undoes: 0 for an edit, else what undoesOperationId says
Logged == [op : Operation, n : Nat, undoes : Nat \cup {Unlinked}]

TypeOK ==
    /\ cells \in Seq([id : Ids, content : Contents, of : Nat])
    /\ undo \in Seq(Entry) /\ redo \in Seq(Entry)
    /\ history \in Seq(Logged)
    /\ before \in Seq(Seq(Cell)) /\ after \in Seq(Seq(Cell)) /\ Len(after) = Len(before)
    /\ edits \in 0..MaxEdits /\ reloads \in 0..MaxReloads
    /\ past \subseteq Kinds \cup {"redone", "dropped"}

Visible(cs) == [i \in 1..Len(cs) |-> [id |-> cs[i].id, content |-> cs[i].content]]
Plain(cs) == [i \in 1..Len(cs) |-> [id |-> cs[i].id, content |-> cs[i].content, of |-> 0]]
IdsOf(cs) == {cs[i].id : i \in 1..Len(cs)}

\* the members of s at the positions in P, in their order
Kept(s, P) ==
    LET upTo[i \in 0..Len(s)] ==
          IF i = 0 THEN <<>> ELSE IF i \in P THEN Append(upTo[i - 1], s[i]) ELSE upTo[i - 1]
    IN upTo[Len(s)]

Init ==
    /\ cells = Plain(Start)
    /\ undo = <<>> /\ redo = <<>> /\ history = <<>>
    /\ edits = 0 /\ reloads = 0
    /\ before = <<>> /\ after = <<>> /\ past = {}

-----------------------------------------------------------------------------
(* Operations and their inverses *)

\* Array.splice: a position behind the end is the end
At(cs, i) == IF i > Len(cs) THEN Len(cs) + 1 ELSE i

\* A replayed insertion adds a copy, a replayed update makes one.
Apply(cs, op) ==
    CASE op.type = "insertCell" ->
            InsertAt(cs, At(cs, op.index),
                     [id |-> op.cell.id, content |-> op.cell.content, of |-> 0])
      [] op.type = "deleteCell" ->
            IF op.index > Len(cs) THEN cs ELSE RemoveAt(cs, op.index)
      [] op.type = "moveCell" -> InsertAt(RemoveAt(cs, op.from), op.to, cs[op.from])
      [] op.type = "updateContent" ->
            [i \in DOMAIN cs |-> IF cs[i].id = op.id
                                 THEN [cs[i] EXCEPT !.content = op.new, !.of = 0] ELSE cs[i]]
      [] OTHER ->
            [i \in DOMAIN cs |-> IF cs[i].id = op.id
                                 THEN [cs[i] EXCEPT !.id = op.new, !.of = 0] ELSE cs[i]]

\* Faulty variant: old and new content are not exchanged.
Reverse_SameUpdate(op) ==
    CASE op.type = "insertCell" -> [op EXCEPT !.type = "deleteCell"]
      [] op.type = "deleteCell" -> [op EXCEPT !.type = "insertCell"]
      [] op.type = "moveCell" -> [op EXCEPT !.from = op.to, !.to = op.from]
      [] OTHER -> op

\* Faulty variant: the cell of an undone insertion is not kept.
Reverse_NoCell(op) ==
    CASE op.type = "insertCell" -> [type |-> "deleteCell", index |-> op.index]
      [] op.type = "deleteCell" -> [op EXCEPT !.type = "insertCell"]
      [] op.type = "moveCell" -> [op EXCEPT !.from = op.to, !.to = op.from]
      [] OTHER -> [op EXCEPT !.old = op.new, !.new = op.old]

ReverseOf(op) ==
    CASE op.type = "insertCell" -> [op EXCEPT !.type = "deleteCell"]
      [] op.type = "deleteCell" -> [op EXCEPT !.type = "insertCell"]
      [] op.type = "moveCell" -> [op EXCEPT !.from = op.to, !.to = op.from]
      [] OTHER -> [op EXCEPT !.old = op.new, !.new = op.old]

-----------------------------------------------------------------------------
(* Recording *)

\* Faulty variant: the operations left on the redo stack are forgotten.
Abandoned_Dropped == <<>>
\* operations that will never be redone enter the history as undone
Abandoned == [j \in DOMAIN redo |->
                [op |-> ReverseOf(redo[j].op), n |-> 0,
                 undoes |-> IF redo[j].linked THEN redo[j].n ELSE Unlinked]]

\* Records ops, the i-th of which made the notebook shown[i + 1] of shown[i];
\* logged and undoable are the entries already recorded, as the edit leaves them.
Record(ops, shown, logged, undoable) ==
    LET n(j) == Len(before) + j
    IN  /\ history' = logged \o Abandoned
                      \o [j \in DOMAIN ops |-> [op |-> ops[j], n |-> n(j), undoes |-> 0]]
        /\ undo' = undoable
                   \o [j \in DOMAIN ops |-> [op |-> ops[j], n |-> n(j), linked |-> TRUE]]
        /\ redo' = <<>>
        /\ before' = before \o [j \in DOMAIN ops |-> shown[j]]
        /\ after' = after \o [j \in DOMAIN ops |-> shown[j + 1]]

RecordOne(op, cs) ==
    Record(<<op>>, <<Visible(cells), Visible(cs)>>, history, undo)

\* The edit of a live cell c reaches the operation that shares it.
Shared(log, c) ==
    [j \in DOMAIN log |->
        IF c.of # 0 /\ log[j].n = c.of /\ log[j].op.type = "insertCell"
        THEN [log[j] EXCEPT !.op.cell = [id |-> c.id, content |-> c.content]]
        ELSE log[j]]

Edit(kind) == /\ kind \in Kinds /\ edits < MaxEdits
              /\ edits' = edits + 1
              /\ past' = past \cup {kind}
              /\ UNCHANGED reloads

-----------------------------------------------------------------------------
(* Edits of agents *)

\* a taken id is replaced by a fresh one
InsertCell(id, content, i) ==
    LET c == [id |-> id, content |-> content]
        cs == InsertAt(cells, i, [id |-> id, content |-> content, of |-> Len(before) + 1])
    IN  /\ Edit("insertCell")
        /\ id \notin IdsOf(cells)
        /\ cells' = cs
        /\ RecordOne([type |-> "insertCell", index |-> i, cell |-> c], cs)

DeleteCell(i) ==
    LET cs == RemoveAt(cells, i)
    IN  /\ Edit("deleteCell")
        /\ cells' = cs
        /\ RecordOne([type |-> "deleteCell", index |-> i, cell |-> Visible(cells)[i]], cs)

MoveCell(i, j) ==
    LET op == [type |-> "moveCell", from |-> i, to |-> j]
    IN  /\ Edit("moveCell")
        /\ cells' = Apply(cells, op)
        /\ RecordOne(op, cells')

\* The content of the live cell is set in place.
UpdateContent(i, content) ==
    LET c == [cells[i] EXCEPT !.content = content]
        cs == ReplaceAt(cells, i, c)
    IN  /\ Edit("updateContent")
        /\ content # cells[i].content
        /\ cells' = cs
        /\ Record(<<[type |-> "updateContent", id |-> c.id, old |-> cells[i].content,
                     new |-> content]>>, <<Visible(cells), Visible(cs)>>,
                  Shared(history, c), Shared(undo, c))

\* updateMetadata of the id: the operation is recorded under the new id. When
\* the requested id is taken the cell gets another one, the record keeps the request.
RenameCell(i, requested, id) ==
    LET c == [cells[i] EXCEPT !.id = id]
        cs == ReplaceAt(cells, i, c)
        taken == requested \in IdsOf(RemoveAt(cells, i))
    IN  /\ Edit("updateMetadata")
        /\ IF taken THEN id \notin IdsOf(cells) ELSE id = requested
        /\ cells' = cs
        /\ Record(<<[type |-> "updateMetadata", id |-> id, old |-> cells[i].id,
                     new |-> requested]>>, <<Visible(cells), Visible(cs)>>,
                  Shared(history, c), Shared(undo, c))

\* one recorded deletion for each cell, from the last to the first
ClearNotebook ==
    LET N == Len(cells)
    IN  /\ Edit("clearNotebook")
        /\ N > 0
        /\ cells' = <<>>
        /\ Record([j \in 1..N |-> [type |-> "deleteCell", index |-> N + 1 - j,
                                   cell |-> Visible(cells)[N + 1 - j]]],
                  [j \in 1..N + 1 |-> SubSeq(Visible(cells), 1, N + 1 - j)],
                  history, undo)

\* deleteCells
DeleteCells(S) ==
    /\ Edit("deleteCells")
    /\ S \cap IdsOf(cells) # {}
    /\ cells' = Kept(cells, {i \in DOMAIN cells : cells[i].id \notin S})
    /\ UNCHANGED <<stacks, before, after>>

\* insertCells keeps the ids it is given, duplicateCell takes a fresh one
InsertUnrecorded(kind, id, content, i) ==
    /\ Edit(kind)
    /\ kind = "duplicateCell" => /\ id \notin IdsOf(cells) /\ i > 1
                                 /\ content = cells[i - 1].content
    /\ cells' = InsertAt(cells, i, [id |-> id, content |-> content, of |-> 0])
    /\ UNCHANGED <<stacks, before, after>>

-----------------------------------------------------------------------------
(* Undo, redo and reload *)

\* A move recorded for cells that are no longer there is not replayed here.
Replayable(op) == op.type = "moveCell" => {op.from, op.to} \subseteq DOMAIN cells

Undo ==
    /\ undo # <<>> /\ Replayable(Last(undo).op)
    /\ cells' = Apply(cells, ReverseOf(Last(undo).op))
    /\ undo' = Front(undo)
    /\ redo' = Append(redo, Last(undo))
    /\ UNCHANGED <<history, edits, reloads, before, after, past>>

Redo ==
    /\ redo # <<>> /\ Replayable(Last(redo).op)
    /\ cells' = Apply(cells, Last(redo).op)
    /\ redo' = Front(redo)
    /\ undo' = Append(undo, Last(redo))
    /\ past' = past \cup {"redone"}
    /\ UNCHANGED <<history, edits, reloads, before, after>>

\* Faulty variant: undone operations are not left out.
Rebuilt_All == Kept(history, {j \in DOMAIN history : history[j].undoes = 0})
\* rebuildUndoStack
Rebuilt == LET undone == {history[j].undoes : j \in DOMAIN history}
           IN  Kept(history, {j \in DOMAIN history : history[j].undoes = 0 /\ history[j].n \notin undone})

\* Every undo in the history says what it undoes.
AllLinked == \A j \in DOMAIN history : history[j].undoes # Unlinked

\* The state is written, dropped (invalidate, a restart) and read again.  A notebook
\* that has an id twice cannot be written (validateJupyterCellIds, fs-service.ts:98).
Reload ==
    /\ reloads < MaxReloads
    /\ Distinct(cells)
    /\ reloads' = reloads + 1
    /\ past' = IF redo = <<>> /\ AllLinked THEN past ELSE past \cup {"dropped"}
    /\ cells' = Plain(cells)
    /\ undo' = [j \in DOMAIN Rebuilt |->
                  [op |-> Rebuilt[j].op, n |-> Rebuilt[j].n, linked |-> FALSE]]
    /\ redo' = <<>>
    /\ UNCHANGED <<history, edits, before, after>>

-----------------------------------------------------------------------------
Agent ==
    \/ \E id \in Ids, content \in Contents, i \in 1..Len(cells) + 1 :
          \/ InsertCell(id, content, i)
          \/ \E kind \in {"insertCells", "duplicateCell"} :
                InsertUnrecorded(kind, id, content, i)
    \/ \E i \in DOMAIN cells :
          \/ DeleteCell(i)
          \/ \E j \in DOMAIN cells : MoveCell(i, j)
          \/ \E content \in Contents : UpdateContent(i, content)
          \/ \E requested, id \in Ids : RenameCell(i, requested, id)
    \/ ClearNotebook
    \/ \E S \in SUBSET Ids : DeleteCells(S)

Next == Agent \/ Undo \/ Redo \/ Reload

Spec == Init /\ [][Next]_vars

-----------------------------------------------------------------------------
(* Properties *)

Undoes == redo' # <<>> /\ undo # <<>> /\ redo' = Append(redo, Last(undo))
Redoes == redo # <<>> /\ undo' = Append(undo, Last(redo)) /\ reloads' = reloads

\* deleteCells, insertCells and duplicateCell move cells behind the back of the
\* recorded positions.  A reload forgets what was undone since the last edit, and what
\* was undone after an earlier reload, since loaded operations have lost their id.
Tracked == past \cap (Unrecorded \cup {"dropped"}) = {}
\* A change of id is recorded for an id that the cell does not have before it.
NoRename == "updateMetadata" \notin past
\* An edit in place reaches into the insertion that recorded the same cell.
NoSharing(kinds) ==
    kinds \cap {"updateContent", "updateMetadata"} = {} \/ "insertCell" \notin kinds

\* Undo restores exactly the notebook the undone operation was applied to, and redo
\* the one it had made, although operations address cells by position, ids change
\* and a reload rebuilds the stack from the history (undoRedoManager.ts undo,
\* rebuildUndoStack). A redo that was not exact itself is left out.
UndoRedoExact ==
    [][/\ Tracked /\ ("redone" \in past => NoRename /\ NoSharing(past)) /\ Undoes
            => Visible(cells') = before[Last(undo).n]
       /\ Tracked /\ NoRename /\ NoSharing(past) /\ Redoes
            => Visible(cells') = after[Last(redo).n]]_vars

\* the notebook at the start with the operations of the history applied in turn
Replayed ==
    LET upTo[i \in 0..Len(history)] ==
          IF i = 0 THEN Plain(Start) ELSE Apply(upTo[i - 1], history[i].op)
    IN upTo[Len(history)]

\* The history replays to the notebook whenever nothing waits to be redone:
\* time travel and the next reload see what the user sees (recordOperation).
HistoryReplays ==
    Tracked /\ NoRename /\ NoSharing(past) /\ redo = <<>> => Visible(Replayed) = Visible(cells)

\* docs/UNDO_REDO.md:185-189: loading filters out the operations that were
\* undone, so a reload changes nothing about what can be undone, unless something was
\* undone that an earlier reload had loaded: it has lost the id that its undo would name.
UndoSurvivesReload ==
    redo = <<>> /\ AllLinked =>
        [j \in DOMAIN Rebuilt |-> Rebuilt[j].n] = [j \in DOMAIN undo |-> undo[j].n]

\* README.md:20 "journaled to disk and surviving reloads":
\* undo is exact whenever every edit was recorded, reloads or not.
UndoSurvivesReloads ==
    [][past \cap Unrecorded = {} /\ Undoes => Visible(cells') = before[Last(undo).n]]_vars
=============================================================================
