--------------------------- MODULE NotebookStore ---------------------------
(***************************************************************************)
(* The files of ONE Jupyter notebook on the server (fs-service.ts): the    *)
(* notebook, its undo history and the commit journal; the per-path write   *)
(* lock; the saves, metadata updates and permission changes that run under *)
(* it; kills of the server process; and the pages that load the files      *)
(* and save them back (Notebook.tsx).                                      *)
(*                                                                         *)
(* Contents are abstracted to the set of user edits they include.          *)
(***************************************************************************)
EXTENDS Naturals, FiniteSets

CONSTANTS
    Slots,      \* requests the server works on at the same time
    Pages,      \* browser pages
    Edits,      \* user edits
    Kinds,      \* the requests that are sent
    MaxTickets, \* bound on requests submitted in a behaviour
    MaxCrashes, \* bound on crashes in a behaviour
    None        \* "no value"

\* bundle, cellsOnly: saveNotebookBundle with and without a history;
\* history: saveHistory; permit: setAgentPermission; settings and metadata:
\* updateNotebookMetadata, called with and without a value for nebula
AllKinds == {"bundle", "cellsOnly", "history", "metadata", "settings", "permit"}

ASSUME KindsAssumption == Kinds \subseteq AllKinds
ASSUME BoundAssumption == MaxTickets \in Nat /\ MaxCrashes \in Nat

VARIABLES
    notebook,   \* the .ipynb file
    history,    \* the history file
    journal,    \* the commit journal: no file, or its status
    tail,       \* writeLocks.get(path): the request whose promise is stored, or None
    req,        \* the requests in progress
    tickets,    \* number of requests submitted so far
    committed,  \* history variable: the last request that completed a history
    bare,       \* history variable: the last save that came without a history
    pages,      \* the pages
    crashes     \* number of crashes so far

files == <<notebook, history, journal>>
lock == <<tail, req, tickets>>
vars == <<files, lock, committed, bare, pages, crashes>>

Content == SUBSET Edits
Ticket == Nat
\* metadata.nebula.agent_permitted
Permission == {"unset", "revoked", "granted"}
\* by: the request that wrote the cells (0 if there was none)
Notebook == [cells : Content, permitted : Permission, by : Ticket]
History == [ops : Content \cup {None}, by : Ticket]
Journal == {"none", "begin", "commit"}
Stage == {"wait", "begin", "history", "read", "write", "commit", "unlink"}
Request == [ticket : Ticket, kind : AllKinds, cells : Content, ops : Content \cup {None},
            value : Permission, stage : Stage, prev : Slots \cup {None},
            read : Notebook \cup {None}]
ASSUME NoneAssumption == None \notin Slots /\ None \notin Request /\ None \notin Notebook
\* phase of loading: closed, cells loaded, journal checked, history ready
Page == [phase : {"closed", "loading", "checked", "ready"},
         loaded : Content, cells : Content, ops : Content]

Busy(r) == req[r] # None
Holds(r) == Busy(r) /\ req[r].stage # "wait"
\* An update of metadata that is about to write has read the file.
HasRead(r) == Busy(r) /\ req[r].stage = "write" /\ req[r].kind \in {"metadata", "settings"} =>
                  req[r].read # None

TypeOK ==
    /\ notebook \in Notebook
    /\ history \in History
    /\ journal \in Journal
    /\ tail \in Slots \cup {None}
    /\ tail # None => Busy(tail)
    /\ req \in [Slots -> Request \cup {None}]
    /\ \A r \in Slots : HasRead(r)
    /\ tickets \in Nat
    /\ committed \in Nat
    /\ bare \in Nat
    /\ pages \in [Pages -> Page]
    /\ crashes \in 0..MaxCrashes

Blank == [phase |-> "closed", loaded |-> {}, cells |-> {}, ops |-> {}]

Init ==
    /\ notebook = [cells |-> {}, permitted |-> "unset", by |-> 0]
    /\ history \in {[ops |-> o, by |-> 0] : o \in {None, {}}}
    /\ journal = "none"
    /\ tail = None
    /\ req = [r \in Slots |-> None]
    /\ tickets = 0
    /\ committed = 0
    /\ bare = 0
    /\ pages = [p \in Pages |-> Blank]
    /\ crashes = 0

-----------------------------------------------------------------------------
(* The write lock: a chain of promises *)

\* what each kind of request does under the lock, in order
FirstStage(k) == CASE k \in {"bundle", "cellsOnly"} -> "begin"
                   [] k = "history" -> "history"
                   [] k \in {"metadata", "settings"} -> "read"
                   [] OTHER -> "write"

\* Faulty variant: the history is written last.
NextStage_HistoryLast(k, stage) ==
    CASE stage = "begin" -> "read"
      [] stage = "read" -> "write"
      [] stage = "write" -> "commit"
      [] stage = "commit" -> IF k = "bundle" THEN "history" ELSE "unlink"
      [] OTHER -> "unlink"

NextStage(k, stage) ==
    CASE stage = "begin" -> IF k = "bundle" THEN "history" ELSE "read"
      [] stage = "history" -> "read"
      [] stage = "read" -> "write"
      [] stage = "write" -> "commit"
      [] OTHER -> "unlink"

Submit(r, k, cells, ops, value) ==
    /\ tickets < MaxTickets
    /\ k \in Kinds
    /\ ~Busy(r)
    /\ req' = [req EXCEPT ![r] =
          [ticket |-> tickets + 1, kind |-> k, cells |-> cells, ops |-> ops,
           value |-> value, stage |-> "wait", prev |-> tail,
           read |-> None]]
    /\ tail' = r
    /\ tickets' = tickets + 1

\* the promise of the request in front has resolved
Acquire(r) ==
    /\ Busy(r) /\ req[r].stage = "wait" /\ req[r].prev = None
    /\ req' = [req EXCEPT ![r].stage = FirstStage(req[r].kind)]
    /\ UNCHANGED <<files, tail, tickets, committed, bare, pages, crashes>>

\* Faulty variant: the map entry is deleted although another request waits.
TailAfter_Deleted(r) == None
\* Faulty variant: the map entry is never deleted.
TailAfter_Kept(r) == tail
TailAfter(r) == IF tail = r THEN None ELSE tail

\* release and clean-up; the request is answered
Release(r) ==
    /\ tail' = TailAfter(r)
    /\ req' = [q \in Slots |-> IF q = r THEN None
                               ELSE IF Busy(q) /\ req[q].prev = r
                                    THEN [req[q] EXCEPT !.prev = None]
                                    ELSE req[q]]
    /\ UNCHANGED tickets

Advance(r) ==
    /\ req' = [req EXCEPT ![r].stage = NextStage(req[r].kind, req[r].stage)]
    /\ UNCHANGED <<tail, tickets>>

At(r, stage) == Busy(r) /\ req[r].stage = stage
Saves(r) == req[r].kind \in {"bundle", "cellsOnly"}

-----------------------------------------------------------------------------
(* One step of a request that holds the lock: one file operation *)

BeginCommit(r) ==
    /\ At(r, "begin")
    /\ journal' = "begin"
    /\ bare' = IF req[r].kind = "cellsOnly" THEN req[r].ticket ELSE bare
    /\ Advance(r)
    /\ UNCHANGED <<notebook, history, committed, pages, crashes>>

\* A bundle's history is not flushed to disk, saveHistory's is.
WriteHistory(r) ==
    /\ At(r, "history")
    /\ history' = [ops |-> req[r].ops, by |-> req[r].ticket]
    /\ IF req[r].kind = "history"
       THEN /\ committed' = req[r].ticket
            /\ Release(r)
       ELSE /\ Advance(r)
            /\ UNCHANGED committed
    /\ UNCHANGED <<notebook, journal, bare, pages, crashes>>

\* The existing metadata (a save) or the whole file (a metadata update) is read.
\* A save whose read or parse fails, or whose metadata is not in the first 64 KB
\* of a file over 8 MB, starts fresh.
ReadNotebook(r) ==
    /\ At(r, "read")
    /\ \E found \in {notebook, None} :
          /\ found = None => Saves(r)
          /\ req' = [req EXCEPT ![r].read = found,
                                ![r].stage = NextStage(req[r].kind, "read")]
    /\ UNCHANGED <<files, tail, tickets, committed, bare, pages, crashes>>

\* saveNotebookCells: the cells of the request with the metadata it found
WriteCells(r) ==
    /\ At(r, "write") /\ Saves(r)
    /\ notebook' = [cells |-> req[r].cells, by |-> req[r].ticket,
                    permitted |-> IF req[r].read = None THEN "unset" ELSE req[r].read.permitted]
    /\ Advance(r)
    /\ UNCHANGED <<history, journal, committed, bare, pages, crashes>>

\* saveNotebookCells may not find elided outputs in the file and asks for a full
\* payload; the bundle goes on to its commit record.
NeedsFull(r) ==
    /\ At(r, "write") /\ Saves(r)
    /\ Advance(r)
    /\ UNCHANGED <<files, committed, bare, pages, crashes>>

\* updateNotebookMetadata merges its updates into the file it read; only the
\* settings route sends a permission, the one it saw when it was called.
WriteMetadata(r) ==
    /\ At(r, "write") /\ req[r].kind \in {"metadata", "settings"}
    /\ notebook' = IF req[r].value = "unset" THEN req[r].read
                   ELSE [req[r].read EXCEPT !.permitted = req[r].value]
    /\ Release(r)
    /\ UNCHANGED <<history, journal, committed, bare, pages, crashes>>

\* setAgentPermission, in one synchronous turn, starts a history if there is none;
\* the permission stays if that fails
WritePermission(r) ==
    /\ At(r, "write") /\ req[r].kind = "permit"
    /\ notebook' = [notebook EXCEPT !.permitted = req[r].value]
    /\ \/ /\ req[r].value = "granted" /\ history.ops = None
          /\ history' = [ops |-> {}, by |-> req[r].ticket]
          /\ committed' = req[r].ticket
       \/ UNCHANGED <<history, committed>>
    /\ Release(r)
    /\ UNCHANGED <<journal, bare, pages, crashes>>

Commit(r) ==
    /\ At(r, "commit")
    /\ journal' = "commit"
    /\ committed' = IF req[r].kind = "bundle" THEN req[r].ticket ELSE committed
    /\ Advance(r)
    /\ UNCHANGED <<notebook, history, bare, pages, crashes>>

\* errors of the unlink are ignored
Unlink(r) ==
    /\ At(r, "unlink")
    /\ journal' \in {"none", journal}
    /\ Release(r)
    /\ UNCHANGED <<notebook, history, committed, bare, pages, crashes>>

\* Faulty variant: an exception leaves the lock taken.
Fail_KeepsLock(r) ==
    /\ Holds(r) /\ req[r].stage # "unlink"
    /\ req' = [req EXCEPT ![r] = None]
    /\ UNCHANGED <<files, tail, tickets, committed, bare, pages, crashes>>

\* a file operation throws (disk full, quota, network file system)
Fail(r) ==
    /\ Holds(r) /\ req[r].stage # "unlink"
    /\ Release(r)
    /\ UNCHANGED <<files, committed, bare, pages, crashes>>

Work(r) == \/ BeginCommit(r) \/ WriteHistory(r) \/ ReadNotebook(r) \/ WriteCells(r)
           \/ NeedsFull(r) \/ WriteMetadata(r) \/ WritePermission(r) \/ Commit(r)
           \/ Unlink(r) \/ Fail(r)

-----------------------------------------------------------------------------
(* Crashes *)

\* A killed process forgets its requests and locks (if there are none, a kill is
\* nothing to the files).
Crash ==
    /\ crashes < MaxCrashes
    /\ \E r \in Slots : Busy(r)
    /\ crashes' = crashes + 1
    /\ tail' = None
    /\ req' = [r \in Slots |-> None]
    /\ UNCHANGED <<files, tickets, committed, bare, pages>>

-----------------------------------------------------------------------------
(* Pages *)

HasPendingCommit == journal = "begin"

\* GET /notebook/cells, then loadCells
OpenPage(p) ==
    /\ pages[p].phase = "closed"
    /\ pages' = [pages EXCEPT ![p] = [phase |-> "loading", loaded |-> notebook.cells,
                                      cells |-> notebook.cells, ops |-> {}]]
    /\ UNCHANGED <<files, lock, committed, bare, crashes>>

\* initializeNewHistory starts again from the cells that were loaded
Restarted(page) == [page EXCEPT !.phase = "ready", !.cells = page.loaded, !.ops = {}]

\* loadHistory: an interrupted commit hides the history
CheckJournal(p) ==
    /\ pages[p].phase = "loading"
    /\ pages' = [pages EXCEPT ![p] = IF HasPendingCommit THEN Restarted(@)
                                     ELSE [@ EXCEPT !.phase = "checked"]]
    /\ UNCHANGED <<files, lock, committed, bare, crashes>>

ReadHistory(p) ==
    /\ pages[p].phase = "checked"
    /\ pages' = [pages EXCEPT ![p] = IF history.ops = None THEN Restarted(@)
                                     ELSE [@ EXCEPT !.phase = "ready", !.ops = history.ops]]
    /\ UNCHANGED <<files, lock, committed, bare, crashes>>

EditPage(p, e) ==
    /\ pages[p].phase # "closed"
    /\ e \notin UNION {pages[q].cells \cup pages[q].loaded : q \in Pages}
    /\ pages' = [pages EXCEPT ![p].cells = @ \cup {e}, ![p].ops = @ \cup {e}]
    /\ UNCHANGED <<files, lock, committed, bare, crashes>>

\* performSaveToFile: the history goes along once it is ready
SavePage(r, p) ==
    /\ pages[p].phase # "closed"
    /\ IF pages[p].phase = "ready"
       THEN Submit(r, "bundle", pages[p].cells, pages[p].ops, "unset")
       ELSE Submit(r, "cellsOnly", pages[p].cells, None, "unset")
    /\ UNCHANGED <<files, committed, bare, pages, crashes>>

\* handleResetHistory
ResetHistory(r, p) ==
    /\ pages[p].phase = "ready"
    /\ Submit(r, "history", {}, {}, "unset")
    /\ pages' = [pages EXCEPT ![p].ops = {}]
    /\ UNCHANGED <<files, committed, bare, crashes>>

PermitAgent(r, value) ==
    /\ Submit(r, "permit", {}, None, value)
    /\ UNCHANGED <<files, committed, bare, pages, crashes>>

UpdateMetadata(r) ==
    /\ Submit(r, "metadata", {}, None, "unset")
    /\ UNCHANGED <<files, committed, bare, pages, crashes>>

\* POST /notebook/settings: the nebula object is read before the lock is taken
UpdateSettings(r) ==
    /\ Submit(r, "settings", {}, None, notebook.permitted)
    /\ UNCHANGED <<files, committed, bare, pages, crashes>>

ClosePage(p) ==
    /\ pages[p].phase # "closed"
    /\ pages' = [pages EXCEPT ![p] = Blank]
    /\ UNCHANGED <<files, lock, committed, bare, crashes>>

-----------------------------------------------------------------------------
Client == \E r \in Slots :
    \/ \E p \in Pages : SavePage(r, p) \/ ResetHistory(r, p)
    \/ \E value \in {"granted", "revoked"} : PermitAgent(r, value)
    \/ UpdateMetadata(r)
    \/ UpdateSettings(r)
\* (What a page does after the last request of a behaviour changes no file.)
PageStep == /\ tickets < MaxTickets
            /\ \E p \in Pages : \/ OpenPage(p) \/ CheckJournal(p) \/ ReadHistory(p)
                               \/ ClosePage(p)
                               \/ \E e \in Edits : EditPage(p, e)
Server == \E r \in Slots : Acquire(r) \/ Work(r)

Next == Client \/ PageStep \/ Server \/ Crash

Spec == Init /\ [][Next]_vars

\* A request whose turn has come runs, and every file operation ends, well or badly.
Fairness == \A r \in Slots : WF_vars(Acquire(r)) /\ WF_vars(Work(r))
FairSpec == Spec /\ Fairness

-----------------------------------------------------------------------------
(* Properties *)

\* The lock runs its operations one at a time in the order of submission, as
\* SerialSaves says, although each one deletes the map entry behind it.
Waiting == {req[r].ticket : r \in {s \in Slots : At(s, "wait")}}
Running == {req[r].ticket : r \in {s \in Slots : Holds(s)}}
Serial == INSTANCE SerialSaves WITH submitted <- tickets, waiting <- Waiting, running <- Running
SavesAreSerial == Serial!FairSpec

\* A save never brings back cells older than the file's, nor a permission that was
\* changed since: metadata are read, merged and written in several steps. A save
\* that could not read them takes the permission away, but never gives one. (A
\* change of settings may: it sends the permission that was there when it queued.)
KeptForward == notebook' # notebook =>
    \/ /\ notebook'.by > notebook.by
       /\ \/ notebook'.permitted = notebook.permitted
          \/ /\ notebook'.permitted = "unset"
             /\ \E r \in Slots : At(r, "write") /\ req[r].read = None
    \/ /\ notebook'.by = notebook.by /\ notebook'.cells = notebook.cells
       /\ \E r \in Slots : At(r, "write") /\ req[r].kind \in {"permit", "settings"}
NothingRolledBack == [][KeptForward]_vars

\* Unless the journal says a commit was interrupted, the history on disk is not
\* older than the cells, and comes from a save that was completed: an edit in the
\* notebook can be undone after a restart of the server. A save without a history,
\* of a page that has not loaded its own, leaves the one on disk behind (and brings
\* out one that was not completed); the next save with a history makes up for it.
HistoryNotBehind ==
    ~HasPendingCommit /\ history.by >= bare => history.by >= notebook.by /\ history.by = committed

\* Every save is eventually answered, whichever of the saves before it fail.
EverySaveEnds == \A r \in Slots : Busy(r) ~> ~Busy(r)
=============================================================================
