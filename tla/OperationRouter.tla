------------------------- MODULE OperationRouter -------------------------
(***************************************************************************)
(* Routing of agent operations on ONE notebook path: the agent lock and    *)
(* its optimistic-concurrency hashes (operation-router.ts), the page that  *)
(* applies forwarded operations (useOperationHandler.ts) and the headless  *)
(* applier used when no page is responsive (headless-handler.ts).          *)
(*                                                                         *)
(* A hash is represented by the content it hashes: the FNV-1a hash of      *)
(* cell-hash.ts is taken to be injective on Contents.                      *)
(***************************************************************************)
EXTENDS Naturals, FiniteSets

CONSTANTS
    Agents,     \* agent ids
    Cells,      \* cell ids whose content is tracked
    Contents,   \* cell contents
    Pages,      \* browser pages that can show the notebook
    Socks,      \* websocket connections, each used once
    Slots,      \* requests the router has in progress at the same time
    Kinds,      \* the operation types agents send
    MaxOps,     \* bound on requests accepted in a behaviour
    None,       \* "no value"
    Absent      \* content of a cell that is not in the notebook

AllKinds == {"readCell", "readNotebook", "updateContent", "updateMetadata",
             "deleteCell", "deleteCells", "insertCell", "insertCells",
             "executeCell", "undo", "clearNotebook"}

ASSUME ValueAssumption == /\ None \notin Contents \cup Agents \cup Socks \cup {"headless"}
                          /\ Absent \notin Contents \cup {None}
                          /\ "headless" \notin Socks
ASSUME KindAssumption == Kinds \subseteq AllKinds
ASSUME BoundAssumption == MaxOps \in Nat

ReadOnly == {"readCell", "readNotebook"}
\* Operations stamped with the hash of every cell they destroy or rewrite.
MustMatch == {"updateContent", "updateMetadata", "deleteCell", "deleteCells"}
Destroying == {"updateContent", "deleteCell", "deleteCells"}

Text == Contents \cup {Absent}
Hash == Contents \cup {None}
Hashes == [Cells -> Hash]
NoHashes == [c \in Cells |-> None]

VARIABLES
    lock,       \* agentLocks.get(path): the lock, or None
    preRead,    \* preSessionReadHashes.get(path)
    conn,       \* websocket of uiConnections.get(path), or None
    fresh,      \* lastActivityAt is at most 45 s old
    sock,       \* readyState of every websocket, as the server sees it
    ops,        \* requests the router has accepted
    count,      \* number of requests accepted so far
    wsRef,      \* the websocket each page holds, or None
    pageCells,  \* cellsRef of each page
    session,    \* the agent-session badge of each page
    disk,       \* the notebook the headless handler works on
    seen        \* history: contents each agent was shown, or wrote, per cell

router == <<lock, preRead, conn, fresh, count>>
page == <<wsRef, pageCells, session>>
vars == <<router, sock, ops, page, disk, seen>>

Lock == [agent : Agents, exclusive : BOOLEAN, expired : BOOLEAN, hashes : Hashes]
Route == Socks \cup {"headless"}
Answer == {"none", "ok", "conflict", "failed", "busy"}
OpKind == AllKinds \cup {"startAgentSession", "endAgentSession"}

\* expected: hashes stamped on the request; got: contents carried by its result;
\* result: what the applier returned; answer: what the agent was told.
Op == [agent : Agents, kind : OpKind, target : SUBSET Cells, content : Hash,
       exclusive : BOOLEAN, expected : Hashes, route : Route,
       stage : {"sent", "applied"}, got : Hashes, timer : BOOLEAN,
       result : {"none", "ok", "conflict", "failed"}, answer : Answer]

TypeOK ==
    /\ lock \in Lock \cup {None}
    /\ preRead \in Hashes
    /\ conn \in Socks \cup {None}
    /\ fresh \in BOOLEAN
    /\ sock \in [Socks -> {"unused", "open", "closing", "closed"}]
    /\ ops \in [Slots -> Op \cup {None}]
    /\ count \in Nat
    /\ wsRef \in [Pages -> Socks \cup {None}]
    /\ pageCells \in [Pages -> [Cells -> Text]]
    /\ session \in [Pages -> {"none", "collaborative", "exclusive"}]
    /\ disk \in [Cells -> Text]
    /\ seen \in [Agents -> [Cells -> SUBSET Contents]]

Init ==
    /\ lock = None
    /\ preRead = NoHashes
    /\ conn = None
    /\ fresh = FALSE
    /\ sock = [s \in Socks |-> "unused"]
    /\ ops = [i \in Slots |-> None]
    /\ count = 0
    /\ wsRef = [p \in Pages |-> None]
    /\ disk \in [Cells -> Text]
    /\ pageCells = [p \in Pages |-> disk]
    /\ session = [p \in Pages |-> "none"]
    /\ seen = [a \in Agents |-> [c \in Cells |-> {}]]

-----------------------------------------------------------------------------
(* The lock *)

\* getResponsiveUIConnection: the page can be asked
HasUI == conn # None /\ sock[conn] = "open" /\ fresh

\* cleanupExpiredLocks
Cleaned == IF lock # None /\ lock.expired THEN None ELSE lock

Holds(a) == Cleaned # None /\ Cleaned.agent = a

\* where results are recorded: the live lock's hashes, or the pre-session store
Recorded == IF Cleaned # None THEN Cleaned.hashes ELSE preRead

WriteRecord(h) ==
    IF Cleaned # None
    THEN lock' = [lock EXCEPT !.hashes = h] /\ UNCHANGED preRead
    ELSE preRead' = h /\ UNCHANGED lock

Overlay(h, got) == [c \in Cells |-> IF got[c] # None THEN got[c] ELSE h[c]]
\* Faulty variant: a deleted cell keeps an entry.
Forget_Marked(h, C) == [c \in Cells |-> IF c \in C THEN Absent ELSE h[c]]
Forget(h, C) == [c \in Cells |-> IF c \in C THEN None ELSE h[c]]

\* recordSessionHashes, recordNotebookReadHashes and the re-baseline after a
\* conflict. insertCells records nothing: the appliers return insertedIds and
\* the router looks for cellIds.
RecordedAfter(op, result, got) ==
    CASE result = "ok" /\ op.kind \in {"readCell", "readNotebook", "insertCell"}
            -> Overlay(Recorded, got)
      [] result = "ok" /\ op.kind = "updateContent"
            -> [c \in Cells |-> IF c \in op.target THEN op.content ELSE Recorded[c]]
      [] result = "ok" /\ op.kind \in {"deleteCell", "deleteCells"}
            -> Forget(Recorded, op.target)
      [] result = "ok" /\ op.kind = "clearNotebook" -> NoHashes
      [] result = "conflict" /\ op.kind # "deleteCells" -> Overlay(Recorded, got)
      [] OTHER -> Recorded

-----------------------------------------------------------------------------
(* What an applier does to the cells m it works on *)

Outcome(m, res, got) == [cells |-> m, res |-> res, got |-> got]
Showing(m, C) == [c \in Cells |-> IF c \in C /\ m[c] # Absent THEN m[c] ELSE None]
Refused(m) == Outcome(m, "failed", NoHashes)

\* Faulty variant: the content is not compared.
Stale_NotCompared(op, m) == {c \in op.target : m[c] # Absent /\ op.expected[c] = Absent}

\* occConflict / checkExpectedHashes
Stale(op, m) == {c \in op.target : /\ m[c] # Absent
                                   /\ op.expected[c] # None
                                   /\ m[c] # op.expected[c]}
Conflicting(op, m) == {Outcome(m, "conflict", Showing(m, {c})) : c \in Stale(op, m)}

Missing(op, m) == {c \in op.target : m[c] = Absent}

\* Any stale cell conflicts and any missing cell fails the request before
\* anything changes (whichever is looked at first). Only deleteCells skips
\* missing cells, unless the headless check finds a stamped cell gone.
Guarded(op, m, onPage, done) ==
    LET skips == op.kind = "deleteCells" /\ (onPage \/ op.exclusive)
        blocked == Conflicting(op, m) \cup
                   (IF Missing(op, m) # {} /\ ~skips THEN {Refused(m)} ELSE {})
    IN  IF blocked # {} THEN blocked ELSE {done}

With(m, C, v) == [c \in Cells |-> IF c \in C THEN v ELSE m[c]]
Fits(op, m) == {c \in op.target : m[c] = Absent}

\* The headless insertCells keeps a taken id: inserted in front, the new cell
\* is the one found under that id from then on.
Shadowed(op, m, onPage) ==
    IF op.kind = "insertCells" /\ ~onPage /\ Fits(op, m) # op.target
    THEN {Outcome(With(m, op.target, op.content), "ok", NoHashes)} ELSE {}

\* Every other insert whose requested id is taken gets a fresh id, outside Cells.
\* Undo and redo restore some earlier state of one cell, or find nothing to do.
Restored(m) == {n \in [Cells -> Text] : \E c \in Cells : \A d \in Cells \ {c} : n[d] = m[d]}

Outcomes(op, m, onPage) ==
    CASE op.kind = "readCell" ->
            IF Missing(op, m) # {} THEN {Refused(m)}
            ELSE {Outcome(m, "ok", Showing(m, op.target))}
      [] op.kind = "readNotebook" -> {Outcome(m, "ok", Showing(m, Cells))}
      [] op.kind = "updateContent" ->
            Guarded(op, m, onPage, Outcome(With(m, op.target, op.content), "ok", NoHashes))
      [] op.kind \in {"updateMetadata", "executeCell"} ->
            Guarded(op, m, onPage, Outcome(m, "ok", NoHashes))
      [] op.kind \in {"deleteCell", "deleteCells"} ->
            Guarded(op, m, onPage, Outcome(With(m, op.target, Absent), "ok", NoHashes))
      [] op.kind \in {"insertCell", "insertCells"} ->
            LET n == With(m, Fits(op, m), op.content)
            IN  {Outcome(n, "ok", Showing(n, Fits(op, m)))}
                \cup Shadowed(op, m, onPage)
      [] op.kind = "undo" ->
            {Refused(m)} \cup {Outcome(n, "ok", NoHashes) : n \in Restored(m)}
      [] op.kind = "clearNotebook" -> {Outcome(With(m, Cells, Absent), "ok", NoHashes)}
      [] OTHER -> {Outcome(m, "ok", NoHashes)}

-----------------------------------------------------------------------------
(* Requests *)

Reachable(op) == \E p \in Pages : wsRef[p] = op.route
Waiting(i) == ops[i] # None /\ ops[i].answer = "none"
\* A slot is reused once its request is answered and no page can still apply it.
Free(i) == ops[i] # None => /\ ops[i].answer # "none"
                            /\ ops[i].stage = "sent" => ~Reachable(ops[i])

Request(a, k, C, v, ex, expected) ==
    [agent |-> a, kind |-> k, target |-> C, content |-> v, exclusive |-> ex,
     expected |-> expected, route |-> IF HasUI THEN conn ELSE "headless",
     stage |-> "sent", got |-> NoHashes, timer |-> HasUI,
     result |-> "none", answer |-> "none"]

\* The cells an operation addresses: one for the single-cell operations, some
\* for the batch delete, none for the whole-notebook ones.
Targets(k) == CASE k \in {"readNotebook", "undo", "clearNotebook"} -> {{}}
                [] k = "deleteCells" -> SUBSET Cells \ {{}}
                [] OTHER -> {{c} : c \in Cells}
Payloads(k) == IF k \in {"updateContent", "insertCell", "insertCells"}
               THEN Contents ELSE {None}

\* prepareCollaborativeWrite: the stamp, and whether it accepts the request
Stamp(k, C, h) == IF k \in MustMatch \cup {"executeCell"}
                  THEN [c \in Cells |-> IF c \in C THEN h[c] ELSE None]
                  ELSE NoHashes
Prepared(k, C, h) == /\ k \in MustMatch => \A c \in C : h[c] # None
                     /\ k # "clearNotebook"

\* applyOperation up to the point where it hands the request to an applier;
\* readNotebook (no agent, no lock) takes the same route.
Submit(i, a, k, C, v) ==
    LET stamped == k \notin ReadOnly /\ ~Cleaned.exclusive
    IN  /\ count < MaxOps
        /\ Free(i)
        /\ k \notin ReadOnly => Holds(a)
        /\ stamped => Prepared(k, C, Cleaned.hashes)
        /\ ops' = [ops EXCEPT ![i] =
              Request(a, k, C, v, k \notin ReadOnly /\ Cleaned.exclusive,
                      IF stamped THEN Stamp(k, C, Cleaned.hashes) ELSE NoHashes)]
        /\ lock' = IF stamped /\ k = "undo"
                   THEN [lock EXCEPT !.hashes = NoHashes]
                   ELSE Cleaned
        /\ seen' = [seen EXCEPT ![a] = [c \in Cells |->
                      @[c] \cup (IF c \in C /\ v # None THEN {v} ELSE {})]]
        /\ count' = count + 1
        /\ UNCHANGED <<preRead, conn, fresh, sock, page, disk>>

\* A session change is applied to the lock at once; a responsive page is then
\* told through a request of its own.
TellPage(i, a, k, ex) ==
    /\ count < MaxOps
    /\ IF HasUI
       THEN /\ Free(i)
            /\ ops' = [ops EXCEPT ![i] = Request(a, k, {}, None, ex, NoHashes)]
       ELSE ops' = ops
    /\ count' = count + 1
    /\ UNCHANGED <<preRead, conn, fresh, sock, page, disk, seen>>

StartAgentSession(i, a, ex) ==
    /\ Cleaned = None \/ Holds(a)
    /\ lock' = IF Holds(a) THEN [lock EXCEPT !.exclusive = ex]
               ELSE [agent |-> a, exclusive |-> ex, expired |-> FALSE, hashes |-> preRead]
    /\ TellPage(i, a, "startAgentSession", ex)

EndAgentSession(i, a) ==
    /\ Cleaned = None \/ Holds(a)
    /\ lock' = None
    /\ TellPage(i, a, "endAgentSession", FALSE)

\* A request that is refused (no lock, another agent's lock, unread cell)
\* still sweeps an expired lock.
RefuseRequest ==
    /\ lock # Cleaned
    /\ lock' = Cleaned
    /\ UNCHANGED <<preRead, conn, fresh, count, sock, ops, page, disk, seen>>

\* five minutes without a request of the holder
LockExpires ==
    /\ lock # None /\ ~lock.expired
    /\ lock' = [lock EXCEPT !.expired = TRUE]
    /\ UNCHANGED <<preRead, conn, fresh, count, sock, ops, page, disk, seen>>

-----------------------------------------------------------------------------
(* Results *)

Shown(a, got) == [seen EXCEPT ![a] = [c \in Cells |->
                    @[c] \cup (IF got[c] # None THEN {got[c]} ELSE {})]]

\* The awaited result arrives: applyOperation records it and answers.
Conclude(i, res, got) ==
    /\ WriteRecord(RecordedAfter(ops[i], res, got))
    /\ seen' = Shown(ops[i].agent, got)

\* checkAgentPermission may turn a write away
Unpermitted(op) == IF op.kind \in ReadOnly THEN {} ELSE {Refused(disk)}

\* ensureCached, permission check, hash check and operation of the headless
\* handler; the last two run without an await in between.
HeadlessApply(i) ==
    /\ Waiting(i)
    /\ ops[i].route = "headless" /\ ops[i].stage = "sent"
    /\ \E o \in Outcomes(ops[i], disk, FALSE) \cup Unpermitted(ops[i]) :
          /\ disk' = o.cells
          /\ ops' = [ops EXCEPT ![i].stage = "applied", ![i].result = o.res,
                                ![i].got = o.got, ![i].answer = o.res]
          /\ Conclude(i, o.res, o.got)
    /\ UNCHANGED <<conn, fresh, count, sock, page>>

\* The badge a page shows after an operation. A page that shows one ignores a
\* further startAgentSession unless the agent asked to force it.
Badges(op, badge) ==
    LET new == IF op.exclusive THEN "exclusive" ELSE "collaborative"
    IN  CASE op.kind = "startAgentSession" -> {new} \cup ({badge} \ {"none"})
          [] op.kind = "endAgentSession" -> {"none"}
          [] OTHER -> {badge}

\* handleMessage on a page: apply, then send operationResult or notebookData.
\* It may happen after the router gave up on the request.
PageApply(p, i) ==
    /\ ops[i] # None
    /\ ops[i].route = wsRef[p] /\ ops[i].stage = "sent"
    /\ \E o \in Outcomes(ops[i], pageCells[p], TRUE) :
          /\ pageCells' = [pageCells EXCEPT ![p] = o.cells]
          /\ ops' = [ops EXCEPT ![i].stage = "applied", ![i].result = o.res,
                                ![i].got = o.got]
    /\ \E badge \in Badges(ops[i], session[p]) : session' = [session EXCEPT ![p] = badge]
    /\ UNCHANGED <<router, sock, wsRef, disk, seen>>

\* handleUIResponse finds the request in the pending map of the current connection
Deliver(i) ==
    /\ Waiting(i)
    /\ ops[i].stage = "applied" /\ ops[i].route = conn
    /\ sock[conn] = "open"
    /\ ops' = [ops EXCEPT ![i].answer = ops[i].result, ![i].timer = FALSE]
    /\ fresh' = TRUE
    /\ Conclude(i, ops[i].result, ops[i].got)
    /\ UNCHANGED <<conn, count, sock, page, disk>>

TimedOut(op) ==
    IF op.kind = "readNotebook"
    THEN [op EXCEPT !.route = "headless", !.stage = "sent", !.timer = FALSE,
                    !.result = "none", !.got = NoHashes]
    ELSE [op EXCEPT !.timer = FALSE,
                    !.answer = IF op.kind = "executeCell" THEN "busy" ELSE "failed"]

\* Faulty variant: any timeout is taken for a cell still running.
UITimeout_AlwaysBusy(i) ==
    /\ Waiting(i) /\ ops[i].timer
    /\ ops' = [ops EXCEPT ![i].timer = FALSE, ![i].answer = "busy"]
    /\ UNCHANGED <<router, sock, page, disk, seen>>

\* forwardToUI's timer answers the agent; readFromUI's falls back to the file.
UITimeout(i) ==
    /\ Waiting(i) /\ ops[i].timer
    /\ ops' = [ops EXCEPT ![i] = TimedOut(ops[i])]
    /\ UNCHANGED <<router, sock, page, disk, seen>>

-----------------------------------------------------------------------------
(* Connections *)

\* Faulty variant: the timers are cleared and nobody is rejected.
Rejected_Silently == [i \in Slots |-> IF Waiting(i) /\ ops[i].route = conn /\ conn # None
                                      THEN [ops[i] EXCEPT !.timer = FALSE]
                                      ELSE ops[i]]

\* every pending request of the connection is rejected and its timer cleared
Rejected == [i \in Slots |-> IF Waiting(i) /\ ops[i].route = conn /\ conn # None
                             THEN [ops[i] EXCEPT !.answer = "failed", !.timer = FALSE]
                             ELSE ops[i]]

\* connect() on a page and registerUI for the new websocket
Register(p, s) ==
    /\ sock[s] = "unused"
    /\ wsRef' = [wsRef EXCEPT ![p] = s]
    /\ ops' = Rejected
    /\ sock' = [t \in Socks |-> CASE t = s -> "open"
                                  [] t = conn -> "closing"
                                  [] OTHER -> sock[t]]
    /\ conn' = s
    /\ fresh' = TRUE
    /\ UNCHANGED <<lock, preRead, count, pageCells, session, disk, seen>>

\* Faulty variant: the close event of any websocket unregisters the page.
CloseEvent_AnySocket(s) ==
    /\ sock[s] \in {"open", "closing"}
    /\ sock' = [sock EXCEPT ![s] = "closed"]
    /\ ops' = Rejected
    /\ conn' = None
    /\ fresh' = FALSE
    /\ UNCHANGED <<lock, preRead, count, page, disk, seen>>

\* the server's close event: unregisterUI, ignored for a replaced websocket
CloseEvent(s) ==
    /\ sock[s] \in {"open", "closing"}
    /\ sock' = [sock EXCEPT ![s] = "closed"]
    /\ IF conn = s
       THEN ops' = Rejected /\ conn' = None /\ fresh' = FALSE
       ELSE UNCHANGED <<ops, conn, fresh>>
    /\ UNCHANGED <<lock, preRead, count, page, disk, seen>>

\* the page's close event (a network drop, or the server replaced the connection)
PageClosed(p) ==
    /\ wsRef[p] # None
    /\ wsRef' = [wsRef EXCEPT ![p] = None]
    /\ UNCHANGED <<router, sock, ops, pageCells, session, disk, seen>>

\* 45 s without a message or a pong (a sleeping laptop, a suspended tab)
GoStale ==
    /\ conn # None /\ fresh
    /\ fresh' = FALSE
    /\ UNCHANGED <<lock, preRead, conn, count, sock, ops, page, disk, seen>>

\* markUIActivity: only the registered websocket counts
MarkUIActivity(s) ==
    /\ conn = s /\ sock[s] = "open" /\ ~fresh
    /\ \E p \in Pages : wsRef[p] = s
    /\ fresh' = TRUE
    /\ UNCHANGED <<lock, preRead, conn, count, sock, ops, page, disk, seen>>

-----------------------------------------------------------------------------
(* The user's page *)

\* typing, inserting and deleting; an exclusive badge locks the page
UserEdit(p, c, v) ==
    /\ session[p] # "exclusive"
    /\ pageCells[p][c] # v
    /\ pageCells' = [pageCells EXCEPT ![p][c] = v]
    /\ UNCHANGED <<router, sock, ops, wsRef, session, disk, seen>>

PageSave(p) ==
    /\ disk # pageCells[p]
    /\ disk' = pageCells[p]
    /\ UNCHANGED <<router, sock, ops, page, seen>>

\* the page is opened or reloaded from the file
PageLoad(p) ==
    /\ wsRef[p] = None
    /\ <<pageCells[p], session[p]>> # <<disk, "none">>
    /\ pageCells' = [pageCells EXCEPT ![p] = disk]
    /\ session' = [session EXCEPT ![p] = "none"]
    /\ UNCHANGED <<router, sock, ops, wsRef, disk, seen>>

\* five idle minutes on the page, or the user ends the session by force
PageSessionEnds(p) ==
    /\ session[p] # "none"
    /\ session' = [session EXCEPT ![p] = "none"]
    /\ UNCHANGED <<router, sock, ops, wsRef, pageCells, disk, seen>>

-----------------------------------------------------------------------------
RequestStep == \E i \in Slots, a \in Agents :
               \/ \E k \in Kinds : \E C \in Targets(k), v \in Payloads(k) : Submit(i, a, k, C, v)
               \/ \E ex \in BOOLEAN : StartAgentSession(i, a, ex)
               \/ EndAgentSession(i, a)
ResultStep == \E i \in Slots : \/ HeadlessApply(i)
                            \/ \E p \in Pages : PageApply(p, i)
                            \/ Deliver(i)
                            \/ UITimeout(i)
Connection == \/ \E p \in Pages, s \in Socks : Register(p, s)
              \/ \E s \in Socks : CloseEvent(s) \/ MarkUIActivity(s)
              \/ \E p \in Pages : PageClosed(p)
              \/ GoStale
User == \E p \in Pages : \/ \E c \in Cells, v \in Text : UserEdit(p, c, v)
                         \/ PageSave(p)
                         \/ PageLoad(p)
                         \/ PageSessionEnds(p)

Next == RequestStep \/ ResultStep \/ Connection \/ User \/ RefuseRequest \/ LockExpires

Spec == Init /\ [][Next]_vars

\* The timers of forwardToUI/readFromUI fire, and a headless operation, which
\* waits for file I/O and at most maxWait seconds of execution, completes.
Fairness == \A i \in Slots : WF_vars(UITimeout(i)) /\ WF_vars(HeadlessApply(i))
FairSpec == Spec /\ Fairness

-----------------------------------------------------------------------------
(* Properties *)

Applies(i) == /\ ops[i] # None /\ ops[i].stage = "sent"
              /\ ops'[i] # None /\ ops'[i].stage = "applied" /\ ops'[i].result = "ok"
Destroys(i) == Applies(i) /\ ops[i].kind \in Destroying /\ ~ops[i].exclusive
Overwritten(c, v) == \/ disk[c] = v /\ disk'[c] # v
                     \/ \E p \in Pages : pageCells[p][c] = v /\ pageCells'[p][c] # v

\* Every content that a collaborative operation destroys (on a page or
\* headless) had been shown to, or written by, some agent: a user edit that no
\* agent ever saw is never overwritten (prepareCollaborativeWrite, occConflict,
\* checkExpectedHashes).
OverwritesWereRead ==
    [][\A i \in Slots, c \in Cells, v \in Contents :
         Destroys(i) /\ Overwritten(c, v) => \E a \in Agents : v \in seen[a][c]]_vars

\* The stronger promise of prepareCollaborativeWrite, "the agent must have read
\* the cell this session": the agent that destroys a content saw that content.
WriterReadIt ==
    [][\A i \in Slots, c \in Cells, v \in Contents :
         Destroys(i) /\ Overwritten(c, v) => v \in seen[ops[i].agent][c]]_vars

\* What the agent is told is what happened: a request answered with success was
\* applied with success, a conflict was reported only for one that changed
\* nothing, whatever timeouts, replacements and late replies came in between.
AnswersAreTrue ==
    \A i \in Slots : ops[i] # None =>
        /\ ops[i].answer \in {"ok", "conflict"} =>
              ops[i].stage = "applied" /\ ops[i].result = ops[i].answer
        /\ ops[i].answer = "busy" => ops[i].kind = "executeCell"

\* The close event of a replaced websocket never takes the notebook away from
\* the page that replaced it (unregisterUI's identity check).
OwnClose == conn # None /\ conn' = None => sock[conn] = "open" /\ sock'[conn] = "closed"
OnlyOwnCloseUnregisters == [][OwnClose]_vars

\* Every accepted request is eventually answered, although pages sleep,
\* disconnect, replace each other and drop replies.
EveryRequestAnswered == \A i \in Slots : Waiting(i) ~> ~Waiting(i)
=============================================================================
