------------------------ MODULE NotebookStoreProofs ------------------------
(***************************************************************************)
(* The write lock of NotebookStore implements SerialSaves, and its files   *)
(* are never rolled back, for every number of requests, pages and edits.   *)
(***************************************************************************)
EXTENDS NotebookStore, TLAPS

-----------------------------------------------------------------------------
(* The inductive invariant *)

\* A ticket names one request.
Tickets ==
    /\ \A r \in Slots : Busy(r) => req[r].ticket \in 1..tickets
    /\ \A r, s \in Slots : Busy(r) /\ Busy(s) /\ req[r].ticket = req[s].ticket => r = s

\* Only the oldest request waits for nobody, and only it can hold the lock.
Front ==
    /\ \A r \in Slots : Holds(r) => req[r].prev = None
    /\ \A r \in Slots : Busy(r) /\ req[r].prev = None =>
          \A s \in Slots : Busy(s) => req[r].ticket <= req[s].ticket

\* s was submitted before r, and nothing between them is still there.
Precedes(s, r) ==
    /\ Busy(s) /\ req[s].ticket < req[r].ticket
    /\ \A q \in Slots : Busy(q) /\ req[q].ticket < req[r].ticket =>
          req[q].ticket <= req[s].ticket

\* Every other request waits for the one that was submitted just before it.
Behind == \A r \in Slots : Busy(r) /\ req[r].prev # None => Precedes(req[r].prev, r)

\* The promise stored for the path is the youngest request's.
Last ==
    /\ tail = None => \A r \in Slots : ~Busy(r)
    /\ tail # None => \A r \in Slots : Busy(r) => req[r].ticket <= req[tail].ticket

Chain == Tickets /\ Front /\ Behind /\ Last

\* A request is at one of the steps of its kind.
Routed == \A r \in Slots : Busy(r) =>
    /\ req[r].kind \in Kinds
    /\ req[r].stage \in {"begin", "commit", "unlink"} => req[r].kind \in {"bundle", "cellsOnly"}
    /\ req[r].stage = "history" => req[r].kind \in {"bundle", "history"}
    /\ req[r].stage \in {"read", "write"} => req[r].kind # "history"
    /\ req[r].kind = "metadata" => req[r].value = "unset"

\* The cells on disk are older than what every request is still to write, and
\* the file a request has read, unless the read failed, is the file it will write over.
Fresh ==
    /\ notebook.by <= tickets
    /\ \A r \in Slots : Busy(r) =>
          /\ notebook.by <= req[r].ticket
          /\ req[r].stage \notin {"commit", "unlink"} => notebook.by < req[r].ticket
          /\ req[r].stage = "write" /\ req[r].kind # "permit" =>
                req[r].read = notebook \/ (Saves(r) /\ req[r].read = None)

\* A bundle keeps its begin record until its history and its cells are there.
Journaled == \A r \in Slots : Busy(r) /\ req[r].kind = "bundle" =>
    /\ req[r].stage \in {"history", "read", "write", "commit"} => journal = "begin"
    /\ req[r].stage \in {"read", "write", "commit"} => history.by = req[r].ticket
    /\ req[r].stage = "unlink" => journal = "commit"

\* The history on disk is no younger than any request, and older than a save without
\* one; such a save is on record from its begin on.
Bare ==
    /\ history.by <= tickets
    /\ \A r \in Slots : Busy(r) =>
          /\ history.by <= req[r].ticket
          /\ req[r].kind = "cellsOnly" =>
                /\ history.by < req[r].ticket
                /\ req[r].stage \in {"read", "write", "commit", "unlink"} => bare = req[r].ticket

LockInv == TypeOK /\ Chain
FileInv == LockInv /\ Routed /\ Fresh

-----------------------------------------------------------------------------
(* Type correctness *)

\* The initial state is well typed.
LEMMA InitTypeOK == Init => TypeOK
BY NoneAssumption, BoundAssumption
   DEF Init, TypeOK, HasRead, Busy, Notebook, History, Journal, Content, Ticket, Permission, Blank,
       Page, Request

\* A submitted request is well typed.
LEMMA SubmitType ==
    ASSUME TypeOK, NEW r \in Slots, NEW k, NEW cells \in Content,
           NEW ops \in Content \cup {None}, NEW value \in Permission,
           Submit(r, k, cells, ops, value)
    PROVE  /\ req' \in [Slots -> Request \cup {None}] /\ req'[r] # None
           /\ tail' = r
           /\ tickets' \in Nat
<1>1. k \in AllKinds
  BY KindsAssumption DEF Submit
<1>3. [ticket |-> tickets + 1, kind |-> k, cells |-> cells, ops |-> ops,
       value |-> value, stage |-> "wait", prev |-> tail, read |-> None] \in Request
  BY <1>1 DEF TypeOK, Request, Ticket, Stage
<1> QED
  BY <1>3, NoneAssumption DEF Submit, TypeOK

\* r goes to another step; the queue stays as it is.
Moves(r, stage) ==
    /\ req' \in [Slots -> Request \cup {None}]
    /\ tail' = tail /\ tickets' = tickets
    /\ \A s \in Slots \ {r} : req'[s] = req[s]
    /\ req[r] # None /\ req'[r] # None
    /\ req'[r].stage = stage
    /\ req'[r].ticket = req[r].ticket /\ req'[r].prev = req[r].prev
    /\ req'[r].kind = req[r].kind /\ req'[r].value = req[r].value

\* r leaves the queue; whoever waited for it waits no more.
Leaves(r) ==
    /\ req' \in [Slots -> Request \cup {None}]
    /\ tail' = (IF tail = r THEN None ELSE tail) /\ tickets' = tickets
    /\ tail' # None => req'[tail'] # None
    /\ req'[r] = None
    /\ \A s \in Slots \ {r} : /\ req[s] = None <=> req'[s] = None
                              /\ req[s] # None =>
                                   req'[s] = IF req[s].prev = r
                                             THEN [req[s] EXCEPT !.prev = None] ELSE req[s]

\* The steps of a request that holds the lock leave a well-typed queue.
LEMMA AdvanceMoves ==
    ASSUME TypeOK, NEW r \in Slots, Busy(r), Advance(r)
    PROVE  /\ Moves(r, NextStage(req[r].kind, req[r].stage))
           /\ req'[r].read = req[r].read
<1>1. req[r] \in Request
  BY DEF TypeOK, Busy
<1>2. NextStage(req[r].kind, req[r].stage) \in Stage
  BY DEF NextStage, Stage
<1>3. [req[r] EXCEPT !.stage = NextStage(req[r].kind, req[r].stage)] \in Request
  BY <1>1, <1>2 DEF Request
<1>4. req' = [req EXCEPT ![r] = [req[r] EXCEPT !.stage = NextStage(req[r].kind, req[r].stage)]]
  BY DEF Advance
<1> QED BY <1>1, <1>3, <1>4, NoneAssumption DEF Advance, TypeOK, Busy, Moves, Request

\* A request that gets the lock moves to its first stage.
LEMMA AcquireMoves ==
    ASSUME TypeOK, NEW r \in Slots, Acquire(r)
    PROVE  Moves(r, FirstStage(req[r].kind))
<1>1. req[r] \in Request
  BY DEF TypeOK, Busy, Acquire
<1>2. FirstStage(req[r].kind) \in Stage
  BY DEF FirstStage, Stage
<1>3. [req[r] EXCEPT !.stage = FirstStage(req[r].kind)] \in Request
  BY <1>1, <1>2 DEF Request
<1>4. req' = [req EXCEPT ![r] = [req[r] EXCEPT !.stage = FirstStage(req[r].kind)]]
  BY DEF Acquire
<1> QED BY <1>1, <1>3, <1>4, NoneAssumption DEF Acquire, TypeOK, Busy, Moves, Request

\* A request that reads the notebook goes on to write and remembers what it found.
LEMMA ReadMoves ==
    ASSUME TypeOK, NEW r \in Slots, ReadNotebook(r)
    PROVE  Moves(r, "write") /\ (req'[r].read = notebook \/ (Saves(r) /\ req'[r].read = None))
<1> PICK found \in {notebook, None} :
       /\ found = None => Saves(r)
       /\ req' = [req EXCEPT ![r].read = found,
                             ![r].stage = NextStage(req[r].kind, "read")]
  BY DEF ReadNotebook
<1>1. req[r] \in Request
  BY DEF TypeOK, Busy, ReadNotebook, At
<1>2. NextStage(req[r].kind, "read") = "write"
  BY DEF NextStage
<1>3. [req[r] EXCEPT !.read = found, !.stage = "write"] \in Request
  BY <1>1 DEF Request, Stage, TypeOK
<1>4. req' = [req EXCEPT ![r] = [req[r] EXCEPT !.read = found, !.stage = "write"]]
  BY <1>2
<1>5. r \in Slots /\ req'[r] = [req[r] EXCEPT !.read = found, !.stage = "write"]
  BY <1>4 DEF TypeOK
<1>6. req' \in [Slots -> Request \cup {None}] /\ req'[r] # None
  BY <1>3, <1>4, <1>5, NoneAssumption DEF TypeOK
<1>7. \A s \in Slots \ {r} : req'[s] = req[s]
  BY <1>4 DEF TypeOK
<1>8. PICK q : q = [req[r] EXCEPT !.read = found]
  OBVIOUS
<1>9. /\ req'[r].read = found
      /\ req'[r].stage = "write" /\ req'[r].kind = req[r].kind
      /\ req'[r].ticket = req[r].ticket /\ req'[r].prev = req[r].prev
      /\ req'[r].value = req[r].value
  <2>1. /\ q \in Request /\ q.read = found
        /\ q.kind = req[r].kind /\ q.ticket = req[r].ticket /\ q.prev = req[r].prev
        /\ q.value = req[r].value
    BY <1>1, <1>8 DEF Request, TypeOK
  <2>2. req'[r] = [q EXCEPT !.stage = "write"]
    BY <1>5, <1>8
  <2>3. \A p \in Request : LET w == [p EXCEPT !.stage = "write"] IN
           /\ w.read = p.read /\ w.stage = "write" /\ w.kind = p.kind
           /\ w.ticket = p.ticket /\ w.prev = p.prev /\ w.value = p.value
    BY DEF Request
  <2> QED BY <2>1, <2>2, <2>3
<1>10. found = notebook \/ (Saves(r) /\ found = None)
  OBVIOUS
<1>11. Moves(r, "write")
  BY <1>6, <1>7, <1>9 DEF ReadNotebook, At, Busy, Moves
<1> QED BY <1>9, <1>10, <1>11

\* A request that releases the lock leaves.
LEMMA ReleaseLeaves ==
    ASSUME TypeOK, NEW r \in Slots, Release(r)
    PROVE  Leaves(r)
<1>1. \A s \in Slots : Busy(s) => [req[s] EXCEPT !.prev = None] \in Request
  BY DEF TypeOK, Busy, Request
<1>2. \A s \in Slots : Busy(s) => req[s] \in Request
  BY DEF TypeOK, Busy
<1> QED BY <1>1, <1>2, NoneAssumption DEF Release, TailAfter, TypeOK, Busy, Leaves

MovesQueue(r) == \/ \E stage \in Stage : Moves(r, stage)
                 \/ Leaves(r)

\* What happens at the queue of the lock keeps the types of requests, tail and tickets.
LEMMA QueueType ==
    ASSUME TypeOK, NEW r \in Slots, MovesQueue(r)
    PROVE  /\ req' \in [Slots -> Request \cup {None}]
           /\ tail' \in Slots \cup {None}
           /\ (tail # None => Busy(tail))'
           /\ tickets' \in Nat
BY DEF TypeOK, MovesQueue, Moves, Leaves, Busy

\* A request of another queue keeps what it has read.
LEMMA OthersHaveRead ==
    ASSUME TypeOK, NEW r \in Slots, MovesQueue(r), HasRead(r)'
    PROVE  \A s \in Slots : HasRead(s)'
<1> SUFFICES ASSUME NEW s \in Slots \ {r}, Busy(s)' PROVE HasRead(s)'
  BY DEF HasRead
<1>1. Busy(s) /\ HasRead(s) /\ req[s] \in Request
  BY DEF TypeOK, MovesQueue, Moves, Leaves, Busy
<1>2. req'[s] = req[s] \/ req'[s] = [req[s] EXCEPT !.prev = None]
  BY <1>1 DEF MovesQueue, Moves, Leaves, Busy
<1> QED BY <1>1, <1>2 DEF HasRead, Busy, Request

\* The steps of the server preserve the types.
LEMMA WorkType ==
    ASSUME TypeOK, NEW r \in Slots, Work(r)
    PROVE  TypeOK' /\ MovesQueue(r)
<1>1. Busy(r) /\ req[r] \in Request
  BY DEF TypeOK, Busy, Work, BeginCommit, WriteHistory, ReadNotebook, WriteCells, NeedsFull,
         WriteMetadata, WritePermission, Commit, Unlink, Fail, At, Holds
<1>2. Advance(r) => MovesQueue(r)
  BY <1>1, AdvanceMoves DEF MovesQueue, NextStage, Stage
<1>3. Release(r) => MovesQueue(r)
  BY ReleaseLeaves DEF MovesQueue
<1>4. MovesQueue(r)
  BY <1>2, <1>3, ReadMoves
     DEF Work, BeginCommit, WriteHistory, WriteCells, NeedsFull, WriteMetadata,
         WritePermission, Commit, Unlink, Fail, MovesQueue, Stage
<1>10. HasRead(r)'
  <2>1. CASE ReadNotebook(r)
    <3>1. notebook # None
      BY NoneAssumption DEF TypeOK
    <3> QED BY <2>1, <3>1, ReadMoves DEF HasRead, Moves, Saves
  <2>2. ASSUME Advance(r), Holds(r), req[r].stage # "read" PROVE HasRead(r)'
    BY <1>1, <2>2, AdvanceMoves DEF HasRead, Moves, NextStage, Holds, Request, Stage
  <2>3. ASSUME Release(r) PROVE HasRead(r)'
    BY <2>3, ReleaseLeaves DEF HasRead, Leaves, Busy
  <2> QED BY <2>1, <2>2, <2>3
     DEF Work, BeginCommit, WriteHistory, WriteCells, NeedsFull, WriteMetadata,
         WritePermission, Commit, Unlink, Fail, At, Holds
<1>11. \A s \in Slots : HasRead(s)'
  BY <1>4, <1>10, OthersHaveRead
<1>5. notebook' \in Notebook
  <2>1. CASE WriteCells(r)
    <3>1. /\ req[r].read = None \/ req[r].read.permitted \in Permission
          /\ req[r].cells \in Content /\ req[r].ticket \in Ticket /\ "unset" \in Permission
      BY <1>1 DEF Request, Notebook, Permission
    <3> QED BY <2>1, <3>1 DEF WriteCells, Notebook
  <2>2. CASE WriteMetadata(r)
    <3>1. req[r].read \in Notebook /\ req[r].value \in Permission
      BY <2>2, <1>1 DEF WriteMetadata, At, Busy, TypeOK, HasRead, Request
    <3> QED BY <2>2, <3>1 DEF WriteMetadata, Notebook
  <2>3. CASE WritePermission(r)
    BY <2>3, <1>1 DEF WritePermission, Notebook, Request, TypeOK
  <2> QED BY <2>1, <2>2, <2>3 DEF Work, BeginCommit, WriteHistory, ReadNotebook, NeedsFull,
             Commit, Unlink, Fail, TypeOK, files
<1>6. history' \in History
  BY <1>1 DEF Work, BeginCommit, WriteHistory, ReadNotebook, WriteCells, NeedsFull,
              WriteMetadata, WritePermission, Commit, Unlink, Fail, TypeOK, files,
              History, Request, Ticket, Content
<1>7. journal' \in Journal
  BY DEF Work, BeginCommit, WriteHistory, ReadNotebook, WriteCells, NeedsFull,
              WriteMetadata, WritePermission, Commit, Unlink, Fail, TypeOK, files, Journal
<1>8. committed' \in Nat /\ bare' \in Nat
  BY <1>1 DEF Work, BeginCommit, WriteHistory, ReadNotebook, WriteCells, NeedsFull,
              WriteMetadata, WritePermission, Commit, Unlink, Fail, TypeOK, Request, Ticket
<1>9. pages' = pages /\ crashes' = crashes
  BY DEF Work, BeginCommit, WriteHistory, ReadNotebook, WriteCells, NeedsFull,
              WriteMetadata, WritePermission, Commit, Unlink, Fail
<1> QED
  BY <1>4, <1>5, <1>6, <1>7, <1>8, <1>9, <1>11, QueueType DEF TypeOK

\* The steps of the pages and their requests preserve the types.
LEMMA ClientType ==
    ASSUME TypeOK, Client
    PROVE  TypeOK'
<1>1. PICK r \in Slots : \/ \E p \in Pages : SavePage(r, p) \/ ResetHistory(r, p)
                         \/ \E value \in {"granted", "revoked"} : PermitAgent(r, value)
                         \/ UpdateMetadata(r)
                         \/ UpdateSettings(r)
  BY DEF Client
<1>2. \E k \in Kinds, cells \in Content, ops \in Content \cup {None}, value \in Permission :
          Submit(r, k, cells, ops, value)
  <2>1. ASSUME NEW p \in Pages, SavePage(r, p) \/ ResetHistory(r, p) PROVE <1>2
    <3>1. pages[p].cells \in Content /\ pages[p].ops \in Content
      BY DEF TypeOK, Page
    <3> QED BY <2>1, <3>1 DEF SavePage, ResetHistory, Permission, Content, Submit
  <2>2. ASSUME PermitAgent(r, "granted") \/ PermitAgent(r, "revoked") \/ UpdateMetadata(r)
               \/ UpdateSettings(r) PROVE <1>2
    <3>1. notebook.permitted \in Permission /\ {} \in Content
      BY DEF TypeOK, Notebook, Content
    <3> QED BY <2>2, <3>1 DEF PermitAgent, UpdateMetadata, UpdateSettings, Permission, Submit
  <2> QED BY <1>1, <2>1, <2>2
<1>3. /\ req' \in [Slots -> Request \cup {None}] /\ req'[r] # None
      /\ tail' = r
      /\ tickets' \in Nat
  BY <1>2, SubmitType
<1>4. pages' \in [Pages -> Page]
  BY <1>1 DEF SavePage, ResetHistory, PermitAgent, UpdateMetadata, UpdateSettings, TypeOK,
              Page, Content
<1>5. UNCHANGED <<files, committed, bare, crashes>>
  BY <1>1 DEF SavePage, ResetHistory, PermitAgent, UpdateMetadata, UpdateSettings
<1>6. \A s \in Slots : HasRead(s)'
  BY <1>2 DEF Submit, HasRead, TypeOK, Busy
<1> QED BY <1>3, <1>4, <1>5, <1>6 DEF TypeOK, files, Busy

\* The steps of the page keep the types and leave files and lock alone.
LEMMA PageStepType ==
    ASSUME TypeOK, PageStep
    PROVE  TypeOK' /\ UNCHANGED <<files, lock, committed, bare, crashes>>
<1>1. PICK p \in Pages : \/ OpenPage(p) \/ CheckJournal(p) \/ ReadHistory(p) \/ ClosePage(p)
                         \/ \E e \in Edits : EditPage(p, e)
  BY DEF PageStep
<1>2. UNCHANGED <<files, lock, committed, bare, crashes>>
  BY <1>1 DEF OpenPage, CheckJournal, ReadHistory, ClosePage, EditPage
<1>3. pages[p] \in Page /\ notebook.cells \in Content /\ history.ops \in Content \cup {None}
  BY DEF TypeOK, Notebook, History
<1>4. pages' \in [Pages -> Page]
  <2>1. CASE OpenPage(p)
    BY <2>1, <1>3 DEF OpenPage, Page, TypeOK, Content
  <2>2. Restarted(pages[p]) \in Page
    BY <1>3 DEF Restarted, Page, Content
  <2>3. CASE CheckJournal(p)
    BY <2>3, <2>2, <1>3 DEF CheckJournal, Page, TypeOK
  <2>4. CASE ReadHistory(p)
    BY <2>4, <2>2, <1>3 DEF ReadHistory, Page, TypeOK
  <2>5. CASE ClosePage(p)
    BY <2>5 DEF ClosePage, Blank, Page, TypeOK, Content
  <2>6. ASSUME NEW e \in Edits, EditPage(p, e) PROVE pages' \in [Pages -> Page]
    <3>1. [pages[p] EXCEPT !.cells = @ \cup {e}, !.ops = @ \cup {e}] \in Page
      BY <1>3 DEF Page, Content
    <3> QED BY <2>6, <3>1 DEF EditPage, TypeOK
  <2> QED BY <1>1, <2>1, <2>3, <2>4, <2>5, <2>6
<1> QED BY <1>2, <1>4 DEF TypeOK, files, lock, Busy, HasRead

\* Every step preserves the types.
LEMMA StepTypeOK == TypeOK /\ [Next]_vars => TypeOK'
<1> SUFFICES ASSUME TypeOK, [Next]_vars PROVE TypeOK'
  OBVIOUS
<1>1. ASSUME NEW r \in Slots, Acquire(r) PROVE TypeOK'
  <2>1. FirstStage(req[r].kind) \in Stage
    BY DEF FirstStage, Stage
  <2>2. MovesQueue(r)
    BY <1>1, <2>1, AcquireMoves DEF MovesQueue
  <2>3. HasRead(r)'
    BY <1>1, AcquireMoves DEF HasRead, Moves, FirstStage
  <2> QED BY <1>1, <2>2, <2>3, QueueType, OthersHaveRead DEF Acquire, TypeOK, files
<1>2. CASE Crash
  BY <1>2, BoundAssumption DEF Crash, TypeOK, files, Busy, HasRead
<1>3. CASE UNCHANGED vars
  BY <1>3 DEF vars, TypeOK, files, lock, Busy, HasRead
<1> QED BY <1>1, <1>2, <1>3, WorkType, ClientType, PageStepType DEF Next, Server

\* NotebookStore is type correct.
THEOREM TypeCorrect == Spec => []TypeOK
BY InitTypeOK, StepTypeOK, PTL DEF Spec

-----------------------------------------------------------------------------
(* The queue of requests *)

\* A new request goes to the end of the queue.
LEMMA SubmitChain ==
    ASSUME LockInv, NEW r \in Slots, NEW k, NEW cells, NEW ops, NEW value,
           Submit(r, k, cells, ops, value), req'[r] # None
    PROVE  Chain'
<1>1. /\ tickets' = tickets + 1 /\ tail' = r /\ ~Busy(r) /\ tickets \in Nat
      /\ req'[r].ticket = tickets + 1 /\ req'[r].prev = tail /\ req'[r].stage = "wait"
      /\ \A s \in Slots \ {r} : req'[s] = req[s]
  BY DEF Submit, LockInv, TypeOK
<1>2. \A s \in Slots : Busy(s) => req[s].ticket \in Nat /\ req[s].ticket <= tickets
  BY <1>1 DEF LockInv, Chain, Tickets
<1>3. Tickets'
  BY <1>1, <1>2 DEF LockInv, Chain, Tickets, Busy
<1>4. Front'
  BY <1>1, <1>2 DEF LockInv, Chain, Front, Last, Busy, Holds
<1>5. Behind'
  <2> SUFFICES ASSUME NEW s \in Slots, Busy(s)', req'[s].prev # None
               PROVE  Precedes(req[s].prev, s)'
    BY DEF Behind
  <2>1. CASE s = r
    BY <2>1, <1>1, <1>2, NoneAssumption DEF LockInv, TypeOK, Chain, Last, Precedes, Busy
  <2>2. CASE s # r
    <3>1. Busy(s) /\ Precedes(req[s].prev, s) /\ req'[s] = req[s]
      BY <2>2, <1>1 DEF LockInv, Chain, Behind, Busy
    <3>2. req[s].prev \in Slots /\ req[s].prev # r
      <4>1. req[s] \in Request
        BY <3>1 DEF LockInv, TypeOK, Busy
      <4> QED BY <4>1, <3>1, <1>1 DEF Request, Precedes
    <3> QED BY <3>1, <3>2, <1>1, <1>2 DEF Precedes, Busy
  <2> QED BY <2>1, <2>2
<1>6. Last'
  BY <1>1, <1>2, NoneAssumption DEF Last, Busy
<1> QED BY <1>3, <1>4, <1>5, <1>6 DEF Chain

\* A request that goes on keeps its place.
LEMMA MovesChain ==
    ASSUME LockInv, NEW r \in Slots, NEW stage, Moves(r, stage),
           req[r].stage = "wait" => req[r].prev = None
    PROVE  Chain'
<1>1. \A s \in Slots : /\ Busy(s)' <=> Busy(s)
                       /\ Busy(s) => /\ req'[s].ticket = req[s].ticket
                                     /\ req'[s].prev = req[s].prev
                                     /\ Holds(s)' => req[s].prev = None
  BY DEF Moves, Busy, Holds, LockInv, Chain, Front
<1>2. tail' = tail /\ tickets' = tickets /\ tail \in Slots \cup {None}
  BY DEF Moves, LockInv, TypeOK
<1>3. Tickets'
  BY <1>1, <1>2 DEF LockInv, Chain, Tickets
<1>4. Front'
  BY <1>1 DEF LockInv, Chain, Front, Holds
<1>5. Behind'
  <2>1. \A s \in Slots : Busy(s) => req[s].prev \in Slots \cup {None}
    BY DEF LockInv, TypeOK, Request, Busy
  <2> QED BY <1>1, <2>1 DEF LockInv, Chain, Behind, Precedes
<1>6. Last'
  BY <1>1, <1>2 DEF LockInv, TypeOK, Chain, Last
<1> QED BY <1>3, <1>4, <1>5, <1>6 DEF Chain

\* The holder is the oldest request, and there is one holder.
LEMMA HolderIsOldest ==
    ASSUME LockInv, NEW r \in Slots, Holds(r), NEW s \in Slots, Busy(s), s # r
    PROVE  req[r].ticket < req[s].ticket /\ ~Holds(s) /\ req[s].prev # None
<1>1. req[r].ticket \in Nat /\ req[s].ticket \in Nat /\ req[r].ticket # req[s].ticket
  BY DEF LockInv, Chain, Tickets, Holds
<1>2. req[r].prev = None /\ req[r].ticket <= req[s].ticket
  BY DEF LockInv, Chain, Front, Holds
<1>3. req[s].prev # None
  BY <1>1, <1>2 DEF LockInv, Chain, Front, Holds
<1> QED BY <1>1, <1>2, <1>3 DEF LockInv, Chain, Front

\* When the holder leaves, the next request becomes the oldest.
LEMMA LeavesChain ==
    ASSUME LockInv, NEW r \in Slots, Holds(r), Leaves(r)
    PROVE  Chain'
<1>1. \A s \in Slots : Busy(s)' <=> Busy(s) /\ s # r
  BY DEF Leaves, Busy
<1>2. \A s \in Slots : Busy(s)' =>
         /\ req'[s].ticket = req[s].ticket /\ req'[s].stage = req[s].stage
         /\ req'[s].prev = IF req[s].prev = r THEN None ELSE req[s].prev
  <2> SUFFICES ASSUME NEW s \in Slots, Busy(s)'
               PROVE  /\ req'[s].ticket = req[s].ticket /\ req'[s].stage = req[s].stage
                      /\ req'[s].prev = IF req[s].prev = r THEN None ELSE req[s].prev
    OBVIOUS
  <2>1. req[s] \in Request /\ s # r
    BY <1>1 DEF LockInv, TypeOK, Busy
  <2>2. req'[s] = IF req[s].prev = r THEN [req[s] EXCEPT !.prev = None] ELSE req[s]
    BY <1>1, <2>1 DEF Leaves, Busy
  <2> QED BY <2>1, <2>2 DEF Request
<1>3. \A s \in Slots : Busy(s) => req[s].ticket \in Nat
  BY DEF LockInv, Chain, Tickets
<1>4. \A s \in Slots : Busy(s)' => /\ req[r].ticket < req[s].ticket /\ ~Holds(s)
                                  /\ req[s].prev # None
  BY <1>1, HolderIsOldest
<1>5. Tickets'
  BY <1>1, <1>2 DEF LockInv, Chain, Tickets, Leaves
<1>6. Front'
  <2>1. \A s \in Slots : ~Holds(s)'
    BY <1>1, <1>2, <1>4 DEF Holds
  <2>2. ASSUME NEW s \in Slots, Busy(s)', req'[s].prev = None,
               NEW q \in Slots, Busy(q)'
        PROVE  req'[s].ticket <= req'[q].ticket
    <3>1. Precedes(r, s)
      BY <2>2, <1>1, <1>2, <1>4 DEF LockInv, Chain, Behind
    <3> QED BY <2>2, <3>1, <1>1, <1>2, <1>3, <1>4 DEF Precedes
  <2> QED BY <2>1, <2>2 DEF Front
<1>7. Behind'
  <2> SUFFICES ASSUME NEW s \in Slots, Busy(s)', req'[s].prev # None
               PROVE  Precedes(req[s].prev, s)'
    BY DEF Behind
  <2>1. req'[s].prev = req[s].prev /\ req[s].prev # r /\ Precedes(req[s].prev, s)
    BY <1>1, <1>2 DEF LockInv, Chain, Behind
  <2>2. req[s].prev \in Slots
    BY <2>1, <1>1 DEF LockInv, TypeOK, Request, Busy
  <2> QED BY <2>1, <2>2, <1>1, <1>2 DEF Precedes
<1>8. Last'
  <2>1. CASE tail = r
    <3>1. \A s \in Slots : ~Busy(s)'
      BY <2>1, <1>1, <1>3, <1>4, NoneAssumption DEF LockInv, Chain, Last, Holds
    <3> QED BY <2>1, <3>1 DEF Last, Leaves
  <2>2. CASE tail # r
    <3>1. tail # None /\ tail \in Slots /\ tail' = tail
      BY <2>2 DEF LockInv, TypeOK, Chain, Last, Leaves, Holds
    <3> QED BY <2>2, <3>1, <1>1, <1>2 DEF LockInv, TypeOK, Chain, Last, Leaves
  <2> QED BY <2>1, <2>2
<1> QED BY <1>5, <1>6, <1>7, <1>8 DEF Chain

\* The queue is in order in every step.
LEMMA StepChain == LockInv /\ [Next]_vars => Chain'
<1> SUFFICES ASSUME LockInv, [Next]_vars PROVE Chain'
  OBVIOUS
<1> USE DEF LockInv
<1>1. ASSUME NEW r \in Slots, Acquire(r) PROVE Chain'
  BY <1>1, AcquireMoves, MovesChain DEF Acquire
<1>2. ASSUME NEW r \in Slots, Work(r) PROVE Chain'
  <2>1. Holds(r)
    BY <1>2 DEF Work, BeginCommit, WriteHistory, ReadNotebook, WriteCells, NeedsFull,
         WriteMetadata, WritePermission, Commit, Unlink, Fail, At, Holds
  <2> QED BY <1>2, <2>1, WorkType, MovesChain, LeavesChain DEF MovesQueue, Holds
<1>3. ASSUME Client PROVE Chain'
  <2>1. PICK r, k, cells, ops, value : r \in Slots /\ Submit(r, k, cells, ops, value)
    BY <1>3 DEF Client, SavePage, ResetHistory, PermitAgent, UpdateMetadata, UpdateSettings
  <2>2. req'[r] # None
    BY <1>3, <2>1, ClientType, NoneAssumption DEF TypeOK, Submit, Busy
  <2> QED BY <2>1, <2>2, SubmitChain
<1>4. ASSUME UNCHANGED lock PROVE Chain'
  BY <1>4 DEF lock, Chain, Tickets, Front, Behind, Precedes, Last, Holds, Busy
<1>5. CASE Crash
  BY <1>5 DEF Crash, Chain, Tickets, Front, Behind, Last, Holds, Busy
<1> QED BY <1>1, <1>2, <1>3, <1>4, <1>5, PageStepType DEF Next, Server, vars

\* LockInv is an invariant.
LEMMA LockInvariant == Spec => []LockInv
<1>1. Init => LockInv
  BY InitTypeOK, NoneAssumption
     DEF Init, LockInv, Chain, Tickets, Front, Behind, Last, Holds, Busy
<1>2. LockInv /\ [Next]_vars => LockInv'
  BY StepTypeOK, StepChain DEF LockInv
<1> QED BY <1>1, <1>2, PTL DEF Spec

-----------------------------------------------------------------------------
(* The write lock implements SerialSaves *)

\* Moving on from one step to the next under the lock is invisible.
LEMMA MovesSerial ==
    ASSUME LockInv, NEW r \in Slots, NEW stage \in Stage, Moves(r, stage), Holds(r),
           stage # "wait"
    PROVE  UNCHANGED Serial!vars
<1>1. \A s \in Slots : /\ At(s, "wait")' <=> At(s, "wait")
                       /\ Holds(s)' <=> Holds(s)
                       /\ req'[s].ticket = req[s].ticket \/ ~Busy(s)
  BY DEF Moves, Holds, At, Busy
<1>2. Waiting' = Waiting /\ Running' = Running
  BY <1>1 DEF Waiting, Running, At, Holds
<1> QED BY <1>2 DEF Serial!vars, Moves

\* A released lock is the end of the operation that ran.
LEMMA LeavesSerial ==
    ASSUME LockInv, NEW r \in Slots, Holds(r), Leaves(r)
    PROVE  Serial!Finish
<1>1. \A s \in Slots \ {r} : ~Holds(s)
  BY HolderIsOldest DEF Holds
<1>2. Running = {req[r].ticket}
  BY <1>1 DEF Running
<1>3. \A s \in Slots : Busy(s)' <=> Busy(s) /\ s # r
  BY DEF Leaves, Busy
<1>4. \A s \in Slots \ {r} : Busy(s) => /\ req'[s].ticket = req[s].ticket
                                       /\ req'[s].stage = req[s].stage
  BY DEF Leaves, LockInv, TypeOK, Request, Busy
<1>5. \A s \in Slots : ~Holds(s)' /\ (At(s, "wait")' <=> At(s, "wait"))
  BY <1>1, <1>3, <1>4 DEF Holds, At
<1>6. Running' = {}
  BY <1>5 DEF Running
<1>7. Waiting' = Waiting
  BY <1>3, <1>4, <1>5 DEF Waiting, At
<1> QED BY <1>2, <1>6, <1>7 DEF Serial!Finish, Leaves

\* An acquired lock is the start of the oldest operation.
LEMMA AcquireSerial ==
    ASSUME LockInv, NEW r \in Slots, Acquire(r)
    PROVE  Serial!Start
<1> DEFINE t == req[r].ticket
<1>1. Busy(r) /\ req[r].stage = "wait" /\ req[r].prev = None
  BY DEF Acquire
<1>2. Moves(r, FirstStage(req[r].kind)) /\ FirstStage(req[r].kind) # "wait"
  BY AcquireMoves DEF LockInv, FirstStage
<1>3. \A s \in Slots : Busy(s) => /\ t <= req[s].ticket
                                  /\ req[s].ticket = t => s = r
  BY <1>1 DEF LockInv, Chain, Tickets, Front
<1>4. \A s \in Slots : ~Holds(s)
  BY <1>1, HolderIsOldest DEF Holds
<1>5. \A s \in Slots : Holds(s)' <=> s = r
  BY <1>1, <1>2, <1>4 DEF Moves, Holds, Busy
<1>6. \A s \in Slots : At(s, "wait")' <=> At(s, "wait") /\ s # r
  BY <1>1, <1>2 DEF Moves, At, Busy
<1>7. \A s \in Slots : Busy(s) => req'[s].ticket = req[s].ticket
  BY <1>2 DEF Moves
<1>8. t \in Waiting /\ \A u \in Waiting : t <= u
  BY <1>1, <1>3 DEF Waiting, At
<1>9. Running = {} /\ Running' = {t}
  BY <1>1, <1>4, <1>5, <1>7 DEF Running
<1>10. Waiting' = Waiting \ {t}
  BY <1>1, <1>3, <1>6, <1>7 DEF Waiting, At
<1>11. tickets' = tickets
  BY <1>2 DEF Moves
<1> QED BY <1>8, <1>9, <1>10, <1>11 DEF Serial!Start

\* A submission is a submission.
LEMMA SubmitSerial ==
    ASSUME LockInv, NEW r \in Slots, NEW k, NEW cells, NEW ops, NEW value,
           Submit(r, k, cells, ops, value), req'[r] # None
    PROVE  Serial!Submit
<1>1. /\ tickets' = tickets + 1 /\ ~Busy(r)
      /\ req'[r].ticket = tickets' /\ req'[r].stage = "wait"
      /\ \A s \in Slots \ {r} : req'[s] = req[s]
  BY DEF Submit, LockInv, TypeOK
<1>2. \A s \in Slots : /\ At(s, "wait")' <=> At(s, "wait") \/ s = r
                       /\ Holds(s)' <=> Holds(s)
                       /\ Busy(s) => req'[s] = req[s]
  BY <1>1 DEF At, Holds, Busy
<1>3. Waiting' = Waiting \cup {tickets'}
  BY <1>1, <1>2 DEF Waiting, At
<1>4. Running' = Running
  BY <1>2 DEF Running, Holds
<1> QED BY <1>1, <1>3, <1>4 DEF Serial!Submit

\* Every step of the store is a step of SerialSaves or a stutter.
LEMMA StepSerial == LockInv /\ [Next]_vars => [Serial!Next]_(Serial!vars)
<1> SUFFICES ASSUME LockInv, [Next]_vars PROVE Serial!Next \/ UNCHANGED Serial!vars
  OBVIOUS
<1> USE DEF LockInv
<1>1. ASSUME NEW r \in Slots, Acquire(r) PROVE Serial!Next
  BY <1>1, AcquireSerial DEF Serial!Next
<1>2. ASSUME NEW r \in Slots, Work(r) PROVE Serial!Next \/ UNCHANGED Serial!vars
  <2>1. Holds(r)
    BY <1>2 DEF Work, BeginCommit, WriteHistory, ReadNotebook, WriteCells, NeedsFull,
         WriteMetadata, WritePermission, Commit, Unlink, Fail, At, Holds
  <2>2. CASE Leaves(r)
    BY <2>1, <2>2, LeavesSerial DEF Serial!Next
  <2>3. Leaves(r) \/ \E stage \in Stage \ {"wait"} : Moves(r, stage)
    <3>1. Advance(r) => Moves(r, NextStage(req[r].kind, req[r].stage))
      BY <2>1, AdvanceMoves DEF Holds
    <3>2. NextStage(req[r].kind, req[r].stage) \in Stage \ {"wait"}
      BY DEF NextStage, Stage
    <3> QED BY <1>2, <3>1, <3>2, ReadMoves, ReleaseLeaves
            DEF Work, BeginCommit, WriteHistory, WriteCells, NeedsFull, WriteMetadata,
                WritePermission, Commit, Unlink, Fail, Stage
  <2> QED BY <2>1, <2>2, <2>3, MovesSerial
<1>3. ASSUME Client PROVE Serial!Next
  <2>1. PICK r, k, cells, ops, value : r \in Slots /\ Submit(r, k, cells, ops, value)
    BY <1>3 DEF Client, SavePage, ResetHistory, PermitAgent, UpdateMetadata, UpdateSettings
  <2>2. req'[r] # None
    BY <1>3, <2>1, ClientType, NoneAssumption DEF TypeOK, Submit, Busy
  <2> QED BY <2>1, <2>2, SubmitSerial DEF Serial!Next
<1>4. ASSUME UNCHANGED lock PROVE UNCHANGED Serial!vars
  BY <1>4 DEF lock, Serial!vars, Waiting, Running, At, Holds, Busy
<1>5. CASE Crash
  <2>1. Waiting' = {} /\ Running' = {} /\ tickets' = tickets
    BY <1>5 DEF Crash, Waiting, Running, At, Holds, Busy
  <2> QED BY <2>1 DEF Serial!Next, Serial!Restart
<1> QED BY <1>1, <1>2, <1>3, <1>4, <1>5, PageStepType DEF Next, Server, vars

\* The saves of a notebook run one at a time in the order in which they were
\* submitted: withWriteLock keeps what SerialSaves says (safety part).
THEOREM SavesImplementSerial == Spec => Serial!Spec
<1>1. Init => Serial!Init
  BY DEF Init, Serial!Init, Waiting, Running, At, Holds, Busy
<1> QED BY <1>1, LockInvariant, StepSerial, PTL DEF Spec, Serial!Spec

-----------------------------------------------------------------------------
(* The files *)

\* What a step of the server does to the requests.
LEMMA WorkQueue ==
    ASSUME LockInv, NEW r \in Slots, Work(r)
    PROVE  /\ Holds(r) /\ req[r] \in Request /\ tickets' = tickets
           /\ \A s \in Slots \ {r} : /\ Busy(s)' <=> Busy(s)
                                     /\ Busy(s) => /\ req'[s].ticket = req[s].ticket
                                                   /\ req'[s].kind = req[s].kind
                                                   /\ req'[s].value = req[s].value
                                                   /\ req'[s].stage = req[s].stage
                                                   /\ req'[s].stage = "wait"
                                                   /\ req[r].ticket < req'[s].ticket
           /\ \/ ~Busy(r)'
              \/ /\ Moves(r, NextStage(req[r].kind, req[r].stage))
                 /\ ReadNotebook(r) \/ req'[r].read = req[r].read
<1>1. Holds(r) /\ Busy(r) /\ req[r] \in Request
  BY DEF Work, BeginCommit, WriteHistory, ReadNotebook, WriteCells, NeedsFull,
         WriteMetadata, WritePermission, Commit, Unlink, Fail, At, Holds, LockInv, TypeOK, Busy
<1>2. \/ Leaves(r)
      \/ /\ Moves(r, NextStage(req[r].kind, req[r].stage))
         /\ ReadNotebook(r) \/ req'[r].read = req[r].read
  <2>1. ReadNotebook(r) => NextStage(req[r].kind, req[r].stage) = "write"
    BY DEF ReadNotebook, At, NextStage
  <2> QED BY <1>1, <2>1, AdvanceMoves, ReadMoves, ReleaseLeaves
       DEF LockInv, Work, BeginCommit, WriteHistory, WriteCells, NeedsFull, WriteMetadata,
           WritePermission, Commit, Unlink, Fail
<1>3. ASSUME NEW s \in Slots \ {r}
      PROVE  /\ Busy(s)' <=> Busy(s)
             /\ Busy(s) => /\ req'[s].ticket = req[s].ticket /\ req'[s].kind = req[s].kind
                           /\ req'[s].value = req[s].value /\ req'[s].stage = req[s].stage
                           /\ req[s].stage = "wait" /\ req[r].ticket < req[s].ticket
  <2>1. CASE ~Busy(s)
    BY <2>1, <1>2 DEF Moves, Leaves, Busy
  <2>2. CASE Busy(s)
    <3>1. req[s] \in Request /\ req[s].stage = "wait" /\ req[r].ticket < req[s].ticket
      BY <2>2, <1>1, HolderIsOldest DEF LockInv, TypeOK, Busy, Holds
    <3>2. req'[s] = req[s] \/ req'[s] = [req[s] EXCEPT !.prev = None]
      BY <2>2, <1>2 DEF Moves, Leaves, Busy
    <3> QED BY <2>2, <3>1, <3>2, <1>2 DEF Moves, Leaves, Busy, Request
  <2> QED BY <2>1, <2>2
<1> QED BY <1>1, <1>2, <1>3 DEF Moves, Leaves, Busy

\* What a submission does to the requests.
LEMMA ClientQueue ==
    ASSUME LockInv, Client
    PROVE  \E r \in Slots :
             /\ tickets' = tickets + 1
             /\ Busy(r)'
             /\ req'[r].ticket = tickets + 1 /\ req'[r].stage = "wait"
             /\ req'[r].kind \in Kinds
             /\ req'[r].kind = "metadata" => req'[r].value = "unset"
             /\ \A s \in Slots \ {r} : req'[s] = req[s]
             /\ UNCHANGED <<files, committed, bare>>
<1>1. PICK r \in Slots : \/ \E p \in Pages : SavePage(r, p) \/ ResetHistory(r, p)
                         \/ \E value \in {"granted", "revoked"} : PermitAgent(r, value)
                         \/ UpdateMetadata(r)
                         \/ UpdateSettings(r)
  BY DEF Client
<1>2. PICK k, cells, ops, value : /\ Submit(r, k, cells, ops, value)
                                  /\ k = "metadata" => value = "unset"
  BY <1>1 DEF SavePage, ResetHistory, PermitAgent, UpdateMetadata, UpdateSettings
<1>3. Busy(r)'
  BY <1>2, ClientType, NoneAssumption DEF LockInv, TypeOK, Submit, Busy
<1>4. UNCHANGED <<files, committed, bare>>
  BY <1>1 DEF SavePage, ResetHistory, PermitAgent, UpdateMetadata, UpdateSettings
<1> QED BY <1>2, <1>3, <1>4 DEF Submit, LockInv, TypeOK

\* Requests stay on the route of their kind.
LEMMA StepRouted == LockInv /\ Routed /\ [Next]_vars => Routed'
<1> SUFFICES ASSUME LockInv, Routed, [Next]_vars PROVE Routed'
  OBVIOUS
<1>1. ASSUME NEW r \in Slots, Acquire(r) PROVE Routed'
  <2>1. Moves(r, FirstStage(req[r].kind)) /\ req[r].kind \in AllKinds
    BY <1>1, AcquireMoves DEF LockInv, TypeOK, Request, Acquire, Busy
  <2> QED BY <2>1 DEF Moves, Routed, Busy, FirstStage, AllKinds
<1>2. ASSUME NEW r \in Slots, Work(r) PROVE Routed'
  <2>1. \A s \in Slots \ {r} : Busy(s)' =>
            /\ Busy(s) /\ req'[s].kind = req[s].kind /\ req'[s].value = req[s].value
            /\ req'[s].stage = "wait"
    BY <1>2, WorkQueue
  <2>2. ASSUME Busy(r)'
        PROVE  /\ req'[r].kind \in Kinds
               /\ req'[r].stage \in {"begin", "commit", "unlink"} =>
                      req'[r].kind \in {"bundle", "cellsOnly"}
               /\ req'[r].stage = "history" => req'[r].kind \in {"bundle", "history"}
               /\ req'[r].stage \in {"read", "write"} => req'[r].kind # "history"
               /\ req'[r].kind = "metadata" => req'[r].value = "unset"
    <3>1. /\ Moves(r, NextStage(req[r].kind, req[r].stage))
          /\ Holds(r) /\ req[r] \in Request
      BY <1>2, <2>2, WorkQueue
    <3>2. /\ req[r].stage = "history" => req[r].kind = "bundle"
          /\ req[r].stage = "write" => req[r].kind \in {"bundle", "cellsOnly"}
      <4>1. ASSUME Release(r) PROVE FALSE
        BY <4>1, <2>2, ReleaseLeaves DEF LockInv, Leaves, Busy
      <4> QED BY <1>2, <3>1, <4>1 DEF Work, BeginCommit, WriteHistory, ReadNotebook,
           WriteCells, NeedsFull, WriteMetadata, WritePermission, Commit, Unlink, Fail, At,
           Holds, Routed, Saves
    <3> QED BY <3>1, <3>2 DEF Moves, Holds, Routed, NextStage, Request, Stage, Busy
  <2> QED BY <2>1, <2>2 DEF Routed
<1>3. ASSUME Client PROVE Routed'
  BY <1>3, ClientQueue DEF Routed, Busy
<1>4. ASSUME UNCHANGED lock PROVE Routed'
  BY <1>4 DEF lock, Routed, Busy
<1>5. CASE Crash
  BY <1>5 DEF Crash, Routed, Busy
<1> QED BY <1>1, <1>2, <1>3, <1>4, <1>5, PageStepType DEF LockInv, Next, Server, vars

\* What is on disk stays older than what is still to be written.
LEMMA StepFresh == LockInv /\ Routed /\ Fresh /\ [Next]_vars => Fresh'
<1> SUFFICES ASSUME LockInv, Routed, Fresh, [Next]_vars PROVE Fresh'
  OBVIOUS
<1>1. ASSUME NEW r \in Slots, Acquire(r) PROVE Fresh'
  <2>1. /\ Moves(r, FirstStage(req[r].kind)) /\ req[r].kind \in AllKinds
        /\ UNCHANGED files /\ req[r].stage = "wait"
    BY <1>1, AcquireMoves DEF LockInv, TypeOK, Request, Acquire, Busy
  <2> QED BY <2>1 DEF Moves, Fresh, Busy, FirstStage, AllKinds, files, Saves
<1>2. ASSUME NEW r \in Slots, Work(r) PROVE Fresh'
  <2>1. /\ Holds(r) /\ Busy(r) /\ req[r] \in Request /\ tickets' = tickets
        /\ req[r].ticket <= tickets /\ req[r].ticket \in Nat
        /\ notebook.by \in Nat /\ tickets \in Nat
    BY <1>2, WorkQueue
       DEF Holds, LockInv, TypeOK, Chain, Tickets, Notebook, Ticket
  <2>2. \A s \in Slots \ {r} : Busy(s)' =>
            /\ Busy(s) /\ req'[s].ticket = req[s].ticket /\ req'[s].ticket \in Nat
            /\ req'[s].stage = "wait" /\ req[r].ticket < req'[s].ticket
    BY <1>2, WorkQueue DEF LockInv, Chain, Tickets
  <2>3. \/ notebook' = notebook
        \/ WriteCells(r)
        \/ notebook'.by = notebook.by /\ ~Busy(r)'
    <3>1. CASE WriteMetadata(r)
      <4>1. req[r].read = notebook /\ notebook \in Notebook
        BY <3>1 DEF WriteMetadata, At, Fresh, LockInv, TypeOK, Saves
      <4>2. notebook'.by = notebook.by
        BY <3>1, <4>1 DEF WriteMetadata, Notebook
      <4> QED BY <3>1, <4>2, ReleaseLeaves DEF WriteMetadata, LockInv, Leaves, Busy
    <3>2. CASE WritePermission(r)
      BY <3>2, ReleaseLeaves DEF WritePermission, LockInv, TypeOK, Notebook, Leaves, Busy
    <3> QED BY <1>2, <3>1, <3>2 DEF Work, BeginCommit, WriteHistory, ReadNotebook, NeedsFull,
             Commit, Unlink, Fail, files
  <2>4. /\ notebook'.by <= req[r].ticket /\ notebook'.by \in Nat
        /\ ~WriteCells(r) /\ Busy(r)' => notebook' = notebook
    <3>1. notebook.by <= req[r].ticket
      BY <2>1 DEF Fresh
    <3>2. WriteCells(r) => notebook'.by = req[r].ticket
      BY DEF WriteCells
    <3> QED BY <2>1, <2>3, <3>1, <3>2
  <2>5. ASSUME Busy(r)'
        PROVE  /\ notebook'.by <= req'[r].ticket
               /\ req'[r].stage \notin {"commit", "unlink"} => notebook'.by < req'[r].ticket
               /\ req'[r].stage = "write" /\ req'[r].kind # "permit" =>
                      req'[r].read = notebook' \/ (Saves(r)' /\ req'[r].read = None)
    <3>1. /\ Moves(r, NextStage(req[r].kind, req[r].stage))
          /\ ReadNotebook(r) \/ req'[r].read = req[r].read
      BY <1>2, <2>5, WorkQueue
    <3>2. CASE WriteCells(r)
      BY <2>1, <2>4, <3>1, <3>2 DEF WriteCells, At, Moves, NextStage
    <3>3. CASE ReadNotebook(r)
      <4>1. /\ req'[r].read = notebook \/ (Saves(r)' /\ req'[r].read = None)
            /\ notebook' = notebook
        BY <3>3, <2>4, ReadMoves DEF LockInv, ReadNotebook, files, Saves, Moves
      <4>2. req[r].stage = "read" /\ notebook.by < req[r].ticket
        BY <3>3 DEF ReadNotebook, At, Fresh
      <4> QED BY <2>1, <2>4, <3>1, <4>1, <4>2 DEF Moves
    <3>4. CASE ~WriteCells(r) /\ ~ReadNotebook(r)
      <4>1. notebook' = notebook
        BY <2>4, <2>5, <3>4
      <4>2. req[r].stage \in {"begin", "history", "write", "commit", "unlink"}
        <5>1. ~Fail(r)
          BY <2>5, ReleaseLeaves DEF LockInv, Fail, Leaves, Busy
        <5> QED BY <1>2, <3>4, <5>1 DEF Work, BeginCommit, WriteHistory, NeedsFull,
             WriteMetadata, WritePermission, Commit, Unlink, At
      <4>3. CASE req[r].stage \in {"begin", "history"}
        BY <2>1, <3>1, <4>1, <4>3 DEF Moves, NextStage, Fresh, Saves
      <4>4. CASE req[r].stage \in {"write", "commit", "unlink"}
        BY <2>1, <2>4, <3>1, <4>1, <4>4 DEF Moves, NextStage, Fresh, Saves
      <4> QED BY <4>2, <4>3, <4>4
    <3> QED BY <3>2, <3>3, <3>4
  <2> QED BY <2>1, <2>2, <2>4, <2>5 DEF Fresh, Saves
<1>3. ASSUME Client PROVE Fresh'
  <2>1. notebook.by \in Nat /\ tickets \in Nat
    BY DEF LockInv, TypeOK, Notebook, Ticket
  <2> QED BY <1>3, <2>1, ClientQueue DEF Fresh, Busy, files, Saves
<1>4. ASSUME UNCHANGED <<lock, files>> PROVE Fresh'
  BY <1>4 DEF lock, files, Fresh, Busy, Saves
<1>5. CASE Crash
  BY <1>5 DEF Crash, files, Fresh, Busy
<1> QED BY <1>1, <1>2, <1>3, <1>4, <1>5, PageStepType DEF LockInv, Next, Server, vars

\* FileInv is an invariant.
LEMMA FileInvariant == Spec => []FileInv
<1>1. Init => Routed /\ Fresh
  BY NoneAssumption DEF Init, Routed, Fresh, Busy
<1> QED BY <1>1, LockInvariant, StepRouted, StepFresh, PTL DEF Spec, FileInv

\* No save brings back older cells, or a permission that was changed: what a
\* request read, unless the read failed, is still the file when it writes.
THEOREM NeverRolledBack == Spec => NothingRolledBack
<1>1. FileInv /\ [Next]_vars => [KeptForward]_vars
  <2> SUFFICES ASSUME FileInv, Next, notebook' # notebook PROVE KeptForward
    BY DEF KeptForward, vars, files
  <2>1. PICK r \in Slots : WriteCells(r) \/ WriteMetadata(r) \/ WritePermission(r)
    BY PageStepType, ClientQueue
       DEF FileInv, LockInv, Next, Server, Acquire, Work, BeginCommit, WriteHistory,
           ReadNotebook, NeedsFull, Commit, Unlink, Fail, Crash, files
  <2>2. /\ At(r, "write") /\ notebook \in Notebook /\ req[r] \in Request
        /\ req[r].kind # "permit" => req[r].read = notebook \/ (Saves(r) /\ req[r].read = None)
        /\ notebook.by < req[r].ticket
        /\ req[r].kind = "metadata" => req[r].value = "unset"
    BY <2>1 DEF WriteCells, WriteMetadata, WritePermission, At, FileInv, LockInv, TypeOK,
                Routed, Fresh, Busy
  <2>3. CASE WriteCells(r)
    <3>1. /\ req[r].read = notebook \/ req[r].read = None
          /\ notebook'.by = req[r].ticket /\ notebook.by < req[r].ticket
          /\ notebook'.permitted = IF req[r].read = None THEN "unset" ELSE req[r].read.permitted
      BY <2>2, <2>3 DEF WriteCells, Saves
    <3>2. req[r].ticket \in Nat /\ notebook.by \in Nat
      BY <2>2 DEF Request, Notebook, Ticket
    <3> QED BY <2>2, <3>1, <3>2 DEF KeptForward
  <2>4. CASE WriteMetadata(r)
    BY <2>2, <2>4 DEF WriteMetadata, KeptForward, Notebook, Saves
  <2>5. CASE WritePermission(r)
    BY <2>2, <2>5 DEF WritePermission, KeptForward, Notebook
  <2> QED BY <2>1, <2>3, <2>4, <2>5
<1> QED BY <1>1, FileInvariant, PTL DEF Spec, NothingRolledBack

-----------------------------------------------------------------------------
(* The history *)

HistoryInv == Journaled /\ Bare /\ HistoryNotBehind

\* What a request that holds the lock is past, by its own step.
Mine(r) == Busy(r) =>
    /\ req[r].kind = "bundle" =>
          /\ req[r].stage \in {"history", "read", "write", "commit"} => journal = "begin"
          /\ req[r].stage \in {"read", "write", "commit"} => history.by = req[r].ticket
          /\ req[r].stage = "unlink" => journal = "commit"
    /\ history.by <= req[r].ticket
    /\ req[r].kind = "cellsOnly" =>
          /\ history.by < req[r].ticket
          /\ req[r].stage \in {"read", "write", "commit", "unlink"} => bare = req[r].ticket

\* The parts of the invariant that a step of one request can disturb.
LEMMA HistoryKept ==
    ASSUME FileInv, HistoryInv, NEW r \in Slots, Work(r), Mine(r)', HistoryNotBehind',
           history'.by \in Nat, history'.by <= req[r].ticket
    PROVE  HistoryInv'
<1>1. /\ req[r].ticket \in 1..tickets /\ tickets \in Nat /\ tickets' = tickets
      /\ \A s \in Slots \ {r} : Busy(s)' =>
            /\ Busy(s) /\ req'[s].stage = "wait" /\ req'[s].ticket \in Nat
            /\ req[r].ticket < req'[s].ticket
  BY WorkQueue DEF FileInv, LockInv, Chain, Tickets, Holds, TypeOK
<1>2. Journaled'
  BY <1>1 DEF Mine, Journaled
<1>3. Bare'
  BY <1>1 DEF Mine, Bare
<1> QED BY <1>2, <1>3 DEF HistoryInv

\* The commit protocol keeps the history in step with the cells.
LEMMA StepHistory == FileInv /\ HistoryInv /\ [Next]_vars => HistoryInv'
<1> SUFFICES ASSUME FileInv, HistoryInv, [Next]_vars PROVE HistoryInv'
  OBVIOUS
<1> USE DEF FileInv, LockInv
<1>1. ASSUME NEW r \in Slots, Acquire(r) PROVE HistoryInv'
  <2>1. /\ Moves(r, FirstStage(req[r].kind)) /\ UNCHANGED <<files, committed, bare>>
        /\ req[r].kind \in {"bundle", "cellsOnly"} => FirstStage(req[r].kind) = "begin"
    BY <1>1, AcquireMoves DEF Acquire, FirstStage
  <2>2. tickets' = tickets
    BY <1>1 DEF Acquire
  <2> QED BY <2>1, <2>2 DEF Moves, HistoryInv, Journaled, Bare, HistoryNotBehind, HasPendingCommit,
                            Busy, files
<1>2. ASSUME NEW r \in Slots, Work(r) PROVE HistoryInv'
  <2>1. /\ Holds(r) /\ Busy(r) /\ req[r] \in Request /\ req[r].ticket \in Nat
        /\ notebook.by \in Nat /\ history.by \in Nat /\ bare \in Nat
        /\ notebook.by <= req[r].ticket /\ history.by <= req[r].ticket
        /\ req[r].stage \in {"begin", "commit", "unlink"} => req[r].kind \in {"bundle", "cellsOnly"}
        /\ req[r].stage \in {"write", "history"} => notebook.by < req[r].ticket
        /\ req[r].stage = "history" => req[r].kind \in {"bundle", "history"}
    BY <1>2, WorkQueue
       DEF Holds, TypeOK, Notebook, History, Ticket, Fresh, Routed, Request, HistoryInv, Bare
  <2>2. Busy(r)' => Moves(r, NextStage(req[r].kind, req[r].stage))
    BY <1>2, WorkQueue
  <2>3. ASSUME Release(r) PROVE ~Busy(r)'
    BY <2>3, ReleaseLeaves DEF Leaves, Busy
  <2>4. Mine(r)
    BY DEF HistoryInv, Journaled, Bare, Mine
  <2>5. HistoryNotBehind
    BY DEF HistoryInv
  <2> SUFFICES Mine(r)' /\ HistoryNotBehind' /\ history'.by \in Nat /\ history'.by <= req[r].ticket
    BY <1>2, HistoryKept
  <2>6. CASE BeginCommit(r)
    <3>1. /\ history' = history /\ journal' = "begin"
          /\ bare' = IF req[r].kind = "cellsOnly" THEN req[r].ticket ELSE bare
      BY <2>6 DEF BeginCommit
    <3>2. Mine(r)'
      BY <2>1, <2>2, <2>4, <2>6, <3>1 DEF BeginCommit, At, Moves, NextStage, Mine
    <3> QED BY <2>1, <3>1, <3>2 DEF HistoryNotBehind, HasPendingCommit
  <2>7. CASE WriteHistory(r)
    <3>1. /\ history'.by = req[r].ticket /\ journal' = journal /\ notebook' = notebook /\ bare' = bare
          /\ req[r].kind = "history" => committed' = req[r].ticket
      BY <2>7 DEF WriteHistory
    <3>2. Mine(r)'
      BY <2>1, <2>2, <2>3, <2>4, <2>7, <3>1 DEF WriteHistory, At, Moves, NextStage, Mine
    <3>3. HistoryNotBehind'
      BY <2>1, <2>4, <2>7, <3>1 DEF WriteHistory, At, HistoryNotBehind, HasPendingCommit, Mine
    <3> QED BY <2>1, <3>1, <3>2, <3>3
  <2>8. CASE ReadNotebook(r)
    <3>1. UNCHANGED <<files, committed, bare>>
      BY <2>8 DEF ReadNotebook
    <3>2. Mine(r)'
      BY <2>1, <2>2, <2>4, <2>8, <3>1 DEF ReadNotebook, At, Moves, NextStage, files, Mine
    <3> QED BY <2>1, <2>5, <3>1, <3>2 DEF HistoryNotBehind, HasPendingCommit, files
  <2>9. CASE WriteCells(r)
    <3>1. /\ req[r].kind \in {"bundle", "cellsOnly"} /\ req[r].stage = "write"
          /\ UNCHANGED <<history, journal, committed, bare>>
      BY <2>9 DEF WriteCells, At, Saves
    <3>2. Mine(r)'
      BY <2>1, <2>2, <2>4, <3>1 DEF Moves, NextStage, Mine
    <3>3. HistoryNotBehind'
      BY <2>1, <2>4, <3>1 DEF HistoryNotBehind, HasPendingCommit, Mine
    <3> QED BY <2>1, <3>1, <3>2, <3>3
  <2>10. CASE NeedsFull(r)
    <3>1. UNCHANGED <<files, committed, bare>> /\ req[r].stage = "write"
      BY <2>10 DEF NeedsFull, At
    <3>2. Mine(r)'
      BY <2>1, <2>2, <2>4, <3>1 DEF Moves, NextStage, files, Mine
    <3> QED BY <2>1, <2>5, <3>1, <3>2 DEF HistoryNotBehind, HasPendingCommit, files
  <2>11. CASE WriteMetadata(r)
    <3>1. req[r].read = notebook /\ notebook \in Notebook
      BY <2>11 DEF WriteMetadata, At, Saves, Fresh, TypeOK
    <3>2. notebook'.by = notebook.by /\ UNCHANGED <<history, journal, committed, bare>>
      BY <2>11, <3>1 DEF WriteMetadata, Notebook
    <3>3. ~Busy(r)'
      BY <2>3, <2>11 DEF WriteMetadata
    <3> QED BY <2>1, <2>5, <3>2, <3>3 DEF HistoryNotBehind, HasPendingCommit, Mine
  <2>12. CASE WritePermission(r)
    <3>1. notebook'.by = notebook.by /\ journal' = journal /\ bare' = bare /\ ~Busy(r)'
      BY <2>3, <2>12 DEF WritePermission, TypeOK, Notebook
    <3>2. \/ UNCHANGED <<history, committed>>
          \/ history'.by = req[r].ticket /\ committed' = req[r].ticket
      BY <2>12 DEF WritePermission
    <3>3. HistoryNotBehind'
      BY <2>1, <2>5, <3>1, <3>2 DEF HistoryNotBehind, HasPendingCommit
    <3> QED BY <2>1, <3>1, <3>2, <3>3 DEF Mine
  <2>13. CASE Commit(r)
    <3>1. /\ UNCHANGED <<notebook, history, bare>> /\ journal' = "commit" /\ req[r].stage = "commit"
          /\ committed' = IF req[r].kind = "bundle" THEN req[r].ticket ELSE committed
      BY <2>13 DEF Commit, At
    <3>2. Mine(r)'
      BY <2>1, <2>2, <2>4, <3>1 DEF Moves, NextStage, Mine
    <3>3. HistoryNotBehind'
      BY <2>1, <2>4, <3>1 DEF HistoryNotBehind, HasPendingCommit, Mine
    <3> QED BY <2>1, <3>1, <3>2, <3>3
  <2>14. CASE Unlink(r)
    <3>1. UNCHANGED <<notebook, history, committed, bare>> /\ req[r].stage = "unlink" /\ ~Busy(r)'
      BY <2>3, <2>14 DEF Unlink, At
    <3>2. HistoryNotBehind'
      BY <2>1, <2>4, <2>5, <3>1 DEF HistoryNotBehind, HasPendingCommit, Mine
    <3> QED BY <2>1, <3>1, <3>2 DEF Mine
  <2>15. CASE Fail(r)
    <3>1. UNCHANGED <<files, committed, bare>> /\ ~Busy(r)'
      BY <2>3, <2>15 DEF Fail
    <3> QED BY <2>1, <2>5, <3>1 DEF HistoryNotBehind, HasPendingCommit, files, Mine
  <2> QED BY <1>2, <2>6, <2>7, <2>8, <2>9, <2>10, <2>11, <2>12, <2>13, <2>14, <2>15 DEF Work
<1>3. ASSUME Client PROVE HistoryInv'
  <2>1. tickets \in Nat /\ history.by \in Nat /\ UNCHANGED <<files, committed, bare>>
    BY <1>3, ClientQueue DEF TypeOK, History, Ticket
  <2>2. Journaled' /\ HistoryNotBehind'
    BY <1>3, <2>1, ClientQueue DEF HistoryInv, Journaled, HistoryNotBehind, HasPendingCommit, Busy, files
  <2>3. Bare'
    BY <1>3, <2>1, ClientQueue DEF HistoryInv, Bare, Busy, files
  <2> QED BY <2>2, <2>3 DEF HistoryInv
<1>4. ASSUME UNCHANGED <<lock, files, committed, bare>> PROVE HistoryInv'
  BY <1>4 DEF lock, files, HistoryInv, Journaled, Bare, HistoryNotBehind, HasPendingCommit, Busy
<1>5. CASE Crash
  BY <1>5 DEF Crash, files, HistoryInv, Journaled, Bare, HistoryNotBehind, HasPendingCommit, Busy
<1> QED BY <1>1, <1>2, <1>3, <1>4, <1>5, PageStepType DEF Next, Server, vars

\* The history on disk, if it is not older than the last save that came without one, is
\* not behind the cells and comes from a completed save, whichever requests fail and
\* wherever the server is killed.
THEOREM HistoryKeepsUp == Spec => []HistoryNotBehind
<1>1. Init => HistoryInv
  BY DEF Init, HistoryInv, Journaled, Bare, HistoryNotBehind, HasPendingCommit, Busy
<1>2. HistoryInv => HistoryNotBehind
  BY DEF HistoryInv
<1> QED BY <1>1, <1>2, StepHistory, FileInvariant, PTL DEF Spec

=============================================================================
