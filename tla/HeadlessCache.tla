--------------------------- MODULE HeadlessCache ---------------------------
(***************************************************************************)
(* The server's copy of ONE notebook that agents edit while no page shows  *)
(* it (headless-handler.ts): the cache, its warm-up, the loop that writes  *)
(* it to the file, cells that run for a while, and the hand-over between   *)
(* agents and a page, whose saves and connections drop the cache.          *)
(*                                                                         *)
(* Contents are sets of edits.  Objects that several tasks hold across an  *)
(* await, the cached notebook and its array of cells, are entries of two   *)
(* heaps, so that a task can go on with one that is no longer cached.      *)
(***************************************************************************)
EXTENDS Naturals, Sequences

CONSTANTS
    Ops,        \* agent requests the server works on at the same time
    AgentEdits, \* edits and outputs of agents
    PageEdits,  \* edits made in the page
    Kinds,      \* the requests that agents send
    MaxObjs,    \* bound on the notebook objects created in a behaviour
    MaxArrays,  \* bound on the arrays of cells
    MaxTime,    \* bound on writes of the file
    None        \* "no value"

AllKinds == {"read", "edit", "undo", "execute", "background"}

ASSUME KindsAssumption == Kinds \subseteq AllKinds
ASSUME EditAssumption == AgentEdits \cap PageEdits = {}
ASSUME BoundAssumption == MaxObjs \in Nat /\ MaxArrays \in Nat /\ MaxTime \in Nat

VARIABLES
    file,       \* the notebook on disk
    mem,        \* cell arrays, notebook objects, and the cached object (0: none)
    warming,    \* the warm-up in flight
    ops,        \* the requests in progress
    persisting, \* the object the persist loop writes (0: no loop)
    writes,     \* saveNotebookBundle calls at the write lock, in order
    page,       \* the page: what it shows, the mtime it knows, its connection
    used,       \* edits made so far
    kept,       \* history variable: edits answered with success, not undone
    past        \* history variable: what has happened so far

server == <<file, mem, warming, ops, persisting, writes>>
told == <<kept, past>>
vars == <<server, page, used, told>>

Edits == AgentEdits \cup PageEdits
Content == SUBSET Edits
Memory == [arrays : Seq(Content), objs : Seq([array : Nat, dirty : BOOLEAN]), cache : Nat]
Op == [kind : AllKinds, phase : {"warming", "permission", "running", "background"},
       array : Nat, edit : Edits \cup {None}]
Write == [by : {"persist", "page", "gone"}, cells : Content,
          stage : {"queued", "written", "failed"}, mtime : Nat]
Page == [shown : Content \cup {None}, saved : Content, mtime : Nat, registered : BOOLEAN,
         saving : {"no", "checked", "sent"}]
ASSUME NoneAssumption == None \notin Op \cup Edits /\ \A c \in Content : c # None

TypeOK ==
    /\ file \in [cells : Content, mtime : Nat]
    /\ mem \in Memory
    /\ mem.cache \in 0..Len(mem.objs) /\ persisting \in 0..Len(mem.objs)
    /\ \A i \in 1..Len(mem.objs) : mem.objs[i].array \in 1..Len(mem.arrays)
    /\ warming \in [phase : {"none", "reading", "read", "installed"}, cells : Content]
    /\ ops \in [Ops -> Op \cup {None}]
    /\ writes \in Seq(Write)
    /\ page \in Page
    /\ used \in Content /\ kept \in SUBSET used
    /\ past \subseteq {"undone", "ran", "inBackground", "failed", "overlap"}

NoWarming == [phase |-> "none", cells |-> {}]
NoPage == [shown |-> None, saved |-> {}, mtime |-> 0, registered |-> FALSE, saving |-> "no"]

Init ==
    /\ file = [cells |-> {}, mtime |-> 0]
    /\ mem = [arrays |-> <<>>, objs |-> <<>>, cache |-> 0]
    /\ warming = NoWarming
    /\ ops = [o \in Ops |-> None]
    /\ persisting = 0
    /\ writes = <<>>
    /\ page = NoPage
    /\ used = {} /\ kept = {} /\ past = {}

-----------------------------------------------------------------------------
(* The cache *)

CellsOf(m, i) == m.arrays[m.objs[i].array]

\* Faulty variant: the object is not created.
Installed_NoObject(m, cells) ==
    [m EXCEPT !.arrays = Append(@, cells), !.cache = Len(m.objs) + 1]
\* a notebook object made of what was read from the file becomes the cached one
Installed(m, cells) ==
    [arrays |-> Append(m.arrays, cells),
     objs |-> Append(m.objs, [array |-> Len(m.arrays) + 1, dirty |-> FALSE]),
     cache |-> Len(m.objs) + 1]

\* getCachedNotebook: a miss reads the file synchronously
Cached(m) == IF m.cache = 0 THEN Installed(m, file.cells) ELSE m

\* Faulty variant: the change is not marked.
Saved_Clean(m, array) ==
    LET c == Cached(m) IN [c EXCEPT !.objs[c.cache].array = array]
\* saveCells: the caller's array becomes the cells of the notebook cached NOW
Saved(m, array) ==
    LET c == Cached(m) IN [c EXCEPT !.objs[c.cache] = [array |-> array, dirty |-> TRUE]]

\* Faulty variant: the cache survives.
Dropped_Kept(m) == m
\* invalidate
Dropped(m) == [m EXCEPT !.cache = 0]

\* a change of the cells in place, seen by everyone who holds the array
InPlace(m, array, e) == [m EXCEPT !.arrays[array] = @ \cup {e}]

Room == Len(mem.objs) < MaxObjs /\ Len(mem.arrays) < MaxArrays

-----------------------------------------------------------------------------
(* Persisting *)

Bundle(by, cells) == [by |-> by, cells |-> cells, stage |-> "queued", mtime |-> 0]

\* One turn of the loop: copy the cells, clear the flag, save.
Snapshot(m, i, queue) ==
    /\ mem' = [m EXCEPT !.objs[i].dirty = FALSE]
    /\ writes' = Append(queue, Bundle("persist", CellsOf(m, i)))
    /\ persisting' = i

\* schedulePersist: a loop in flight is left to do the work
Schedule(m) ==
    IF persisting = 0 /\ m.cache # 0 /\ m.objs[m.cache].dirty
    THEN Snapshot(m, m.cache, writes)
    ELSE mem' = m /\ UNCHANGED <<writes, persisting>>

\* the save at the head of the write lock replaces the file, or fails
WriteFile(ok) ==
    /\ writes # <<>> /\ writes[1].stage = "queued" /\ file.mtime < MaxTime
    /\ file' = IF ok THEN [cells |-> writes[1].cells, mtime |-> file.mtime + 1] ELSE file
    /\ writes' = [writes EXCEPT ![1].stage = IF ok THEN "written" ELSE "failed",
                                ![1].mtime = file'.mtime]
    /\ past' = IF ok \/ writes[1].by # "persist" THEN past ELSE past \cup {"failed"}
    /\ UNCHANGED <<mem, warming, ops, persisting, page, used, kept>>

Ended == writes # <<>> /\ writes[1].stage # "queued"
Ok == writes[1].stage = "written"

\* Faulty variant: the loop never looks at the flag again.
PersistEnds_Once ==
    /\ Ended /\ writes[1].by = "persist"
    /\ mem' = mem /\ writes' = Tail(writes) /\ persisting' = 0
    /\ UNCHANGED <<file, warming, ops, page, used, told>>
\* the loop goes on while its notebook is dirty; an error ends it
PersistEnds ==
    /\ Ended /\ writes[1].by = "persist"
    /\ IF Ok /\ mem.objs[persisting].dirty
       THEN Snapshot(mem, persisting, Tail(writes))
       ELSE mem' = mem /\ writes' = Tail(writes) /\ persisting' = 0
    /\ UNCHANGED <<file, warming, ops, page, used, told>>

\* POST /notebook/save drops the cache and answers
PageSaveEnds ==
    /\ Ended /\ writes[1].by # "persist"
    /\ writes' = Tail(writes)
    /\ mem' = IF Ok THEN Dropped(mem) ELSE mem
    /\ kept' = IF Ok THEN kept \cup (writes[1].cells \cap PageEdits) ELSE kept
    /\ page' = IF writes[1].by = "page"
               THEN [page EXCEPT !.saving = "no",
                                 !.saved = IF Ok THEN writes[1].cells ELSE @,
                                 !.mtime = IF Ok THEN writes[1].mtime ELSE @]
               ELSE page
    /\ UNCHANGED <<file, warming, ops, persisting, used, past>>

-----------------------------------------------------------------------------
(* Warm-up *)

WarmRead ==
    /\ warming.phase = "reading"
    /\ warming' = [phase |-> "read", cells |-> file.cells]
    /\ UNCHANGED <<file, mem, ops, persisting, writes, page, used, told>>

WarmInstall ==
    /\ warming.phase = "read" /\ Room
    /\ mem' = IF mem.cache = 0 THEN Installed(mem, warming.cells) ELSE mem
    /\ warming' = [warming EXCEPT !.phase = "installed"]
    /\ UNCHANGED <<file, ops, persisting, writes, page, used, told>>

\* the undo history is warm too: everyone who waited goes on
WarmEnd ==
    /\ warming.phase = "installed"
    /\ warming' = NoWarming
    /\ ops' = [o \in Ops |-> IF ops[o] # None /\ ops[o].phase = "warming"
                             THEN [ops[o] EXCEPT !.phase = "permission"] ELSE ops[o]]
    /\ UNCHANGED <<file, mem, persisting, writes, page, used, told>>

-----------------------------------------------------------------------------
(* The operations of agents *)

AtRest == /\ \A o \in Ops : ops[o] = None
          /\ warming.phase = "none" /\ writes = <<>> /\ persisting = 0
          /\ mem.cache # 0 => ~mem.objs[mem.cache].dirty
          /\ "failed" \notin past
\* page and agents do not wait for each other: a step at the wrong time is recorded
InTurn(turn) == past' = IF turn THEN past ELSE past \cup {"overlap"}

\* applyOperation, for a notebook no page is registered for
StartOp(o, kind) ==
    /\ kind \in Kinds \ {"background"} /\ ops[o] = None /\ ~page.registered
    /\ InTurn(page.shown = None)
    /\ ops' = [ops EXCEPT ![o] =
          [kind |-> kind, phase |-> IF mem.cache # 0 THEN "permission" ELSE "warming",
           array |-> 0, edit |-> None]]
    /\ warming' = IF mem.cache = 0 /\ warming.phase = "none"
                  THEN [phase |-> "reading", cells |-> {}] ELSE warming
    /\ UNCHANGED <<file, mem, persisting, writes, page, used, kept>>

\* the permission is known; the operation runs in one turn
Turn(o, kind) == ops[o] # None /\ ops[o].kind = kind /\ ops[o].phase = "permission" /\ Room

ReadCell(o) ==
    /\ Turn(o, "read")
    /\ mem' = Cached(mem)
    /\ ops' = [ops EXCEPT ![o] = None]
    /\ UNCHANGED <<file, warming, persisting, writes, page, used, told>>

\* insertCell, updateContent, ...: the cached array is changed in place
EditCells(o, e) ==
    /\ Turn(o, "edit") /\ e \notin used
    /\ LET m == Cached(mem)
           array == m.objs[m.cache].array
       IN Schedule(Saved(InPlace(m, array, e), array))
    /\ ops' = [ops EXCEPT ![o] = None]
    /\ used' = used \cup {e} /\ kept' = kept \cup {e}
    /\ UNCHANGED <<file, warming, page, past>>

\* handleUndo: the cells become a new array
UndoEdit(o, e) ==
    /\ Turn(o, "undo")
    /\ LET m == Cached(mem)
           old == CellsOf(m, m.cache)
           next == [m EXCEPT !.arrays = Append(@, old \ {e})]
       IN /\ e \in old
          /\ Schedule(Saved(next, Len(next.arrays)))
    /\ ops' = [ops EXCEPT ![o] = None]
    /\ kept' = kept \ {e} /\ past' = past \cup {"undone"}
    /\ UNCHANGED <<file, warming, page, used>>

\* Faulty variant: the run works on a copy of the cells.
StartRun_Copy(o) ==
    /\ Turn(o, "execute")
    /\ LET m == Cached(mem)
       IN mem' = [m EXCEPT !.arrays = Append(@, CellsOf(m, m.cache))]
    /\ ops' = [ops EXCEPT ![o].phase = "running", ![o].array = Len(mem'.arrays)]
    /\ past' = past \cup {"ran"}
    /\ UNCHANGED <<file, warming, persisting, writes, page, used, kept>>
\* executeCell keeps the array it found while the kernel runs the cell
StartRun(o) ==
    /\ Turn(o, "execute")
    /\ mem' = Cached(mem)
    /\ ops' = [ops EXCEPT ![o].phase = "running", ![o].array = mem'.objs[mem'.cache].array]
    /\ past' = past \cup {"ran"}
    /\ UNCHANGED <<file, warming, persisting, writes, page, used, kept>>

Runs(o, phase) == ops[o] # None /\ ops[o].phase = phase /\ Room

\* the outputs so far go into the array the run holds; a run has one output here
Published(o, e) == IF e = ops[o].edit THEN mem ELSE InPlace(mem, ops[o].array, e)

\* saveCells at the end of the run, with the array the run holds
Store(m, o) == Saved(m, ops[o].array)

OutputOf(o, e) == /\ IF ops[o].edit # None THEN e = ops[o].edit ELSE e \notin used
                  /\ used' = used \cup {e} /\ kept' = kept \cup {e}
                  /\ UNCHANGED past

\* outputCallback: every few outputs the cells are put back, and nothing is scheduled
RunOutputs(o, e) ==
    /\ Runs(o, "running") \/ Runs(o, "background")
    /\ ops[o].edit = None /\ OutputOf(o, e)
    /\ mem' = Store(Published(o, e), o)
    /\ ops' = [ops EXCEPT ![o].edit = e]
    /\ UNCHANGED <<file, warming, persisting, writes, page>>

\* the cell is done within maxWait
RunAnswered(o, e) ==
    /\ Runs(o, "running") /\ OutputOf(o, e)
    /\ Schedule(Store(Published(o, e), o))
    /\ ops' = [ops EXCEPT ![o] = None]
    /\ UNCHANGED <<file, warming, page>>

\* maxWait is over: the agent is answered "busy", the cell runs on
RunTimesOut(o) ==
    /\ Runs(o, "running") /\ "background" \in Kinds
    /\ Schedule(Store(mem, o))
    /\ ops' = [ops EXCEPT ![o].phase = "background"]
    /\ past' = past \cup {"inBackground"}
    /\ UNCHANGED <<file, warming, page, used, kept>>

RunEnds(o, e) ==
    /\ Runs(o, "background") /\ OutputOf(o, e)
    /\ mem' = Store(Published(o, e), o)
    /\ ops' = [ops EXCEPT ![o] = None]
    /\ UNCHANGED <<file, warming, persisting, writes, page>>

-----------------------------------------------------------------------------
(* The page *)

\* GET /notebook/cells
LoadPage ==
    /\ PageEdits # {} /\ page.shown = None
    /\ InTurn(AtRest)
    /\ page' = [page EXCEPT !.shown = file.cells, !.saved = file.cells,
                              !.mtime = file.mtime]
    /\ UNCHANGED <<server, used, kept>>

\* registerUI: operations of agents go to the page from now on
RegisterUI ==
    /\ PageEdits # {} /\ ~page.registered
    /\ InTurn(AtRest)
    /\ page' = [page EXCEPT !.registered = TRUE]
    /\ mem' = Dropped(mem)
    /\ UNCHANGED <<file, warming, ops, persisting, writes, used, kept>>

EditPage(e) ==
    /\ page.shown # None /\ e \notin used
    /\ InTurn(page.registered)
    /\ page' = [page EXCEPT !.shown = @ \cup {e}]
    /\ used' = used \cup {e}
    /\ UNCHANGED <<server, kept>>

\* checkForConflict: a page with changes saves them only if the file is the one
\* it knows
CheckMtime ==
    /\ page.shown \notin {None, page.saved} /\ page.saving = "no"
    /\ file.mtime <= page.mtime
    /\ page' = [page EXCEPT !.saving = "checked"]
    /\ UNCHANGED <<server, used, told>>

SendSave ==
    /\ page.saving = "checked"
    /\ page' = [page EXCEPT !.saving = "sent"]
    /\ writes' = Append(writes, Bundle("page", page.shown))
    /\ UNCHANGED <<file, mem, warming, ops, persisting, used, told>>

\* The socket closes, unregisterUI; a save that was sent is still worked on.
ClosePage ==
    /\ page # NoPage
    /\ InTurn(AtRest)
    /\ page' = NoPage
    /\ mem' = IF page.registered THEN Dropped(mem) ELSE mem
    /\ writes' = [i \in 1..Len(writes) |-> IF writes[i].by = "page"
                                           THEN [writes[i] EXCEPT !.by = "gone"] ELSE writes[i]]
    /\ UNCHANGED <<file, warming, ops, persisting, used, kept>>

-----------------------------------------------------------------------------
Warm == WarmRead \/ WarmInstall \/ WarmEnd
Persist == (\E ok \in BOOLEAN : WriteFile(ok)) \/ PersistEnds \/ PageSaveEnds
Apply(o) == \/ ReadCell(o) \/ StartRun(o)
            \/ \E e \in AgentEdits : EditCells(o, e) \/ UndoEdit(o, e)
Run(o) == \/ \E e \in AgentEdits : RunOutputs(o, e) \/ RunAnswered(o, e) \/ RunEnds(o, e)
          \/ RunTimesOut(o)
PageStep == \/ LoadPage \/ RegisterUI \/ CheckMtime \/ SendSave \/ ClosePage
            \/ \E e \in PageEdits : EditPage(e)

Next == \/ Warm \/ Persist \/ PageStep
        \/ \E o \in Ops : Apply(o) \/ Run(o) \/ \E kind \in Kinds : StartOp(o, kind)

Spec == Init /\ [][Next]_vars

-----------------------------------------------------------------------------
(* Properties *)

\* The version of the notebook that is on disk once everything under way is.
Newest == IF mem.cache # 0 /\ mem.objs[mem.cache].dirty THEN CellsOf(mem, mem.cache)
          ELSE IF persisting # 0 /\ mem.objs[persisting].dirty THEN CellsOf(mem, persisting)
          ELSE IF \E i \in 1..Len(writes) : writes[i].stage = "queued"
               THEN writes[Len(writes)].cells ELSE file.cells

\* A run that ends after an undo puts back the cells from before it.
NothingPutBack == ~({"undone", "ran"} \subseteq past)
NoFailure == "failed" \notin past
\* Page and agents have waited for each other so far: an agent was served while no
\* page showed the notebook, a page loaded, connected or left when nothing was under
\* way and no write had failed, and the user typed into a page that was connected.
InTurns == "overlap" \notin past

\* Every edit that was answered, and no edit that was undone, is in the version
\* that is being written, whatever the persist loop does when the edit comes, as
\* long as page and agents take turns.
AnswersAreNewest ==
    NothingPutBack /\ NoFailure /\ InTurns =>
        kept \subseteq Newest /\ Newest \subseteq kept \cup PageEdits

\* Failed writes do not take an answered edit away from the agents
\* (headless-handler.ts:203: an error of the loop leaves the cache alone), as long
\* as page and agents take turns.
CacheIsTruth == NothingPutBack /\ InTurns /\ mem.cache # 0 => CellsOf(mem, mem.cache) = kept

\* While page and agents take turns the file only moves forward as long as nothing
\* is undone: no write brings back an older version.
KeptInFile == past' \cap {"undone", "overlap"} = {} => file.cells \subseteq file'.cells
FileNeverRewinds == [][KeptInFile]_vars

\* When nothing is under way, the file has every answered edit, unless page and
\* agents have overlapped, a write has failed, a cell has outlived maxWait (its
\* outputs are put into the cache without a persist loop), or a run has put back
\* what was undone: the persist loop that an edit finds does the work for it, and
\* neither the page nor an agent takes away an edit the other was told is saved.
EditsInFile ==
    /\ \A o \in Ops : ops[o] = None
    /\ writes = <<>> /\ persisting = 0
    /\ past \cap {"failed", "inBackground"} = {} /\ NothingPutBack /\ InTurns
    => file.cells = kept
=============================================================================
