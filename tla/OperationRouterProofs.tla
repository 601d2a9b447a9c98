---------------------- MODULE OperationRouterProofs ----------------------
(***************************************************************************)
(* Type correctness of OperationRouter and the safety of its optimistic    *)
(* concurrency, for every set of agents, cells, pages and connections.     *)
(***************************************************************************)
EXTENDS OperationRouter, TLAPS

Writing == {"updateContent", "insertCell", "insertCells"}

\* A request that carries a content carries a real one.
WellFormed == \A i \in Slots : ops[i] # None /\ ops[i].kind \in Writing
                                 => ops[i].content \in Contents

SeenIn(S, c, v) == \E a \in Agents : v \in S[a][c]
WasSeen(S, h) == \A c \in Cells : h[c] # None => SeenIn(S, c, h[c])

\* A stored request is stamped with seen contents, for every cell it addresses
\* if it is a destructive collaborative one.
Stamped(S, op) ==
    /\ WasSeen(S, op.expected)
    /\ op.kind = "updateContent" => \A c \in op.target : SeenIn(S, c, op.content)
    /\ op.kind \in Destroying /\ ~op.exclusive =>
          \A c \in op.target : op.expected[c] # None

\* Every hash the router stores or stamps stands for a content some agent saw.
HashesWereSeen ==
    /\ lock # None => WasSeen(seen, lock.hashes)
    /\ WasSeen(seen, preRead)
    /\ \A i \in Slots : ops[i] # None => Stamped(seen, ops[i])

TypeInv == TypeOK /\ WellFormed
IInv == TypeInv /\ HashesWereSeen

OutcomeSet == [cells : [Cells -> Text], res : {"ok", "conflict", "failed"}, got : Hashes]

-----------------------------------------------------------------------------
\* The values that stand for "nothing" are no contents, and no page is "headless".
LEMMA NoneFacts == /\ None \notin Contents /\ Absent \notin Contents /\ Absent # None
                   /\ "headless" \notin Socks
BY ValueAssumption

\* What a notebook shows of some cells is a set of hashes.
LEMMA ShowingType == ASSUME NEW m \in [Cells -> Text], NEW C
                     PROVE  Showing(m, C) \in Hashes
BY DEF Showing, Hashes, Hash, Text

\* A notebook in which some cells have a new text is a notebook.
LEMMA WithType == ASSUME NEW m \in [Cells -> Text], NEW C, NEW v \in Text
                  PROVE  With(m, C, v) \in [Cells -> Text]
BY DEF With

\* Every outcome of the guard against concurrent edits is an outcome.
LEMMA GuardedType ==
    ASSUME NEW op \in Op, NEW m \in [Cells -> Text], NEW onPage \in BOOLEAN,
           NEW done \in OutcomeSet, NEW o \in Guarded(op, m, onPage, done)
    PROVE  o \in OutcomeSet
<1>1. ASSUME NEW c \in Cells PROVE Outcome(m, "conflict", Showing(m, {c})) \in OutcomeSet
  BY ShowingType DEF Outcome, OutcomeSet
<1>2. Refused(m) \in OutcomeSet
  BY DEF Refused, Outcome, OutcomeSet, NoHashes, Hashes, Hash
<1>3. Stale(op, m) \subseteq Cells
  BY DEF Stale, Op
<1> QED BY <1>1, <1>2, <1>3 DEF Guarded, Conflicting

\* What an applier produces is well typed, for every operation.
LEMMA OutcomesType ==
    ASSUME NEW op \in Op, NEW m \in [Cells -> Text], NEW onPage \in BOOLEAN,
           op.kind \in Writing => op.content \in Contents,
           NEW o \in Outcomes(op, m, onPage)
    PROVE  o \in OutcomeSet
<1>1. ASSUME NEW n \in [Cells -> Text], NEW g \in Hashes PROVE Outcome(n, "ok", g) \in OutcomeSet
  BY DEF Outcome, OutcomeSet
<1>2. NoHashes \in Hashes
  BY DEF NoHashes, Hashes, Hash
<1>3. Refused(m) \in OutcomeSet
  BY <1>2 DEF Refused, Outcome, OutcomeSet
<1>4. Absent \in Text /\ Contents \subseteq Text
  BY DEF Text
<1>5. op.kind \in AllKinds \cup {"startAgentSession", "endAgentSession"}
  BY DEF Op, OpKind
<1>6. CASE op.kind = "readCell"
  BY <1>6, <1>1, <1>3, ShowingType DEF Outcomes
<1>7. CASE op.kind = "readNotebook"
  BY <1>7, <1>1, ShowingType DEF Outcomes
<1>8. CASE op.kind = "updateContent"
  <2>1. With(m, op.target, op.content) \in [Cells -> Text]
    BY <1>8, <1>4, WithType DEF Writing
  <2> QED BY <2>1, <1>8, <1>1, <1>2, GuardedType DEF Outcomes
<1>9. CASE op.kind \in {"updateMetadata", "executeCell"}
  BY <1>9, <1>1, <1>2, GuardedType DEF Outcomes
<1>10. CASE op.kind \in {"deleteCell", "deleteCells"}
  <2>1. With(m, op.target, Absent) \in [Cells -> Text]
    BY <1>4, WithType
  <2> QED BY <2>1, <1>10, <1>1, <1>2, GuardedType DEF Outcomes
<1>11. CASE op.kind \in {"insertCell", "insertCells"}
  <2>1. op.content \in Text
    BY <1>11, <1>4 DEF Writing
  <2>2. /\ With(m, Fits(op, m), op.content) \in [Cells -> Text]
        /\ With(m, op.target, op.content) \in [Cells -> Text]
    BY <2>1, WithType
  <2>3. Showing(With(m, Fits(op, m), op.content), Fits(op, m)) \in Hashes
    BY <2>2, ShowingType
  <2>4. Outcomes(op, m, onPage) =
          LET n == With(m, Fits(op, m), op.content)
          IN  {Outcome(n, "ok", Showing(n, Fits(op, m)))} \cup Shadowed(op, m, onPage)
    BY <1>11 DEF Outcomes
  <2> QED BY <2>2, <2>3, <2>4, <1>1, <1>2 DEF Shadowed
<1>12. CASE op.kind = "undo"
  <2>1. Outcomes(op, m, onPage) =
          {Refused(m)} \cup {Outcome(n, "ok", NoHashes) : n \in Restored(m)}
    BY <1>12 DEF Outcomes
  <2> QED BY <2>1, <1>1, <1>2, <1>3 DEF Restored
<1>13. CASE op.kind = "clearNotebook"
  <2>1. With(m, Cells, Absent) \in [Cells -> Text]
    BY <1>4, WithType
  <2> QED BY <2>1, <1>13, <1>1, <1>2 DEF Outcomes
<1>14. CASE op.kind \in {"startAgentSession", "endAgentSession"}
  BY <1>14, <1>1, <1>2 DEF Outcomes
<1> QED BY <1>5, <1>6, <1>7, <1>8, <1>9, <1>10, <1>11, <1>12, <1>13, <1>14 DEF AllKinds

\* The lock once expired sessions are dropped is the lock or none.
LEMMA CleanedFacts ==
    ASSUME TypeOK
    PROVE  /\ Cleaned \in Lock \cup {None}
           /\ Cleaned # None => Cleaned = lock /\ lock # None /\ lock \in Lock
           /\ Recorded \in Hashes
BY DEF TypeOK, Cleaned, Recorded, Lock

\* What the router has recorded after a result is a set of hashes.
LEMMA RecordedAfterType ==
    ASSUME TypeOK, NEW op \in Op, NEW res, NEW got \in Hashes,
           op.kind \in Writing => op.content \in Contents
    PROVE  RecordedAfter(op, res, got) \in Hashes
<1>1. Recorded \in Hashes
  BY CleanedFacts
<1>2. Overlay(Recorded, got) \in Hashes
  BY <1>1 DEF Overlay, Hashes
<1>3. Forget(Recorded, op.target) \in Hashes
  BY <1>1 DEF Forget, Hashes, Hash
<1>4. NoHashes \in Hashes
  BY DEF NoHashes, Hashes, Hash
<1>5. op.kind = "updateContent" =>
        [c \in Cells |-> IF c \in op.target THEN op.content ELSE Recorded[c]] \in Hashes
  BY <1>1 DEF Writing, Hashes, Hash
<1> QED BY <1>1, <1>2, <1>3, <1>4, <1>5 DEF RecordedAfter

\* Recording a result leaves the lock, the pre-session store and the history typed.
LEMMA ConcludeType ==
    ASSUME TypeInv, NEW i \in Slots, ops[i] # None, NEW res, NEW got \in Hashes,
           Conclude(i, res, got)
    PROVE  /\ lock' \in Lock \cup {None}
           /\ preRead' \in Hashes
           /\ seen' \in [Agents -> [Cells -> SUBSET Contents]]
<1>1. ops[i] \in Op
  BY DEF TypeInv, TypeOK
<1>2. RecordedAfter(ops[i], res, got) \in Hashes
  BY <1>1, RecordedAfterType DEF TypeInv, WellFormed
<1>3. /\ lock' \in Lock \cup {None}
      /\ preRead' \in Hashes
  <2>1. WriteRecord(RecordedAfter(ops[i], res, got))
    BY DEF Conclude
  <2> DEFINE h == RecordedAfter(ops[i], res, got)
  <2>2. h \in Hashes /\ WriteRecord(h)
    BY <1>2, <2>1
  <2> HIDE DEF h
  <2>3. /\ Cleaned # None => lock \in Lock
        /\ lock \in Lock \cup {None} /\ preRead \in Hashes
    BY CleanedFacts DEF TypeInv, TypeOK
  <2>4. lock \in Lock => [lock EXCEPT !.hashes = h] \in Lock
    BY <2>2 DEF Lock
  <2> QED BY <2>2, <2>3, <2>4 DEF WriteRecord
<1>4. ops[i].agent \in Agents
  BY <1>1 DEF Op
<1>5. seen' \in [Agents -> [Cells -> SUBSET Contents]]
  BY <1>4 DEF Conclude, Shown, TypeInv, TypeOK, Hashes, Hash
<1> QED BY <1>3, <1>5

\* Operations that are rejected keep what was asked.
LEMMA RejectedType ==
    ASSUME TypeInv
    PROVE  /\ Rejected \in [Slots -> Op \cup {None}]
           /\ \A i \in Slots : Rejected[i] # None =>
                 /\ ops[i] # None
                 /\ Rejected[i].kind = ops[i].kind
                 /\ Rejected[i].content = ops[i].content
                 /\ Rejected[i].target = ops[i].target
                 /\ Rejected[i].expected = ops[i].expected
                 /\ Rejected[i].exclusive = ops[i].exclusive
                 /\ Rejected[i].stage = ops[i].stage
                 /\ Rejected[i].result = ops[i].result
<1> SUFFICES ASSUME NEW i \in Slots
             PROVE  /\ Rejected[i] \in Op \cup {None}
                    /\ Rejected[i] # None =>
                         /\ ops[i] # None
                         /\ Rejected[i].kind = ops[i].kind
                         /\ Rejected[i].content = ops[i].content
                         /\ Rejected[i].target = ops[i].target
                         /\ Rejected[i].expected = ops[i].expected
                         /\ Rejected[i].exclusive = ops[i].exclusive
                         /\ Rejected[i].stage = ops[i].stage
                         /\ Rejected[i].result = ops[i].result
  BY DEF Rejected
<1>1. CASE ~Waiting(i)
  BY <1>1 DEF Rejected, TypeInv, TypeOK
<1>2. CASE Waiting(i)
  <2>1. ops[i] \in Op /\ ops[i] # None
    BY <1>2 DEF Waiting, TypeInv, TypeOK
  <2>2. [ops[i] EXCEPT !.answer = "failed", !.timer = FALSE] \in Op
    BY <2>1 DEF Op, Answer
  <2> QED BY <2>1, <2>2 DEF Rejected, Op
<1> QED BY <1>1, <1>2

-----------------------------------------------------------------------------
\* A new request is an operation.
LEMMA RequestType ==
    ASSUME TypeInv, NEW a \in Agents, NEW k \in OpKind, NEW C \in SUBSET Cells,
           NEW v \in Hash, NEW ex \in BOOLEAN, NEW e \in Hashes
    PROVE  Request(a, k, C, v, ex, e) \in Op
BY DEF Request, Op, TypeInv, TypeOK, HasUI, Route, Answer, NoHashes, Hashes, Hash

\* Submitting an operation keeps the types.
LEMMA SubmitType ==
    ASSUME TypeInv, NEW i \in Slots, NEW a \in Agents, NEW k \in Kinds,
           NEW C \in Targets(k), NEW v \in Payloads(k), Submit(i, a, k, C, v)
    PROVE  TypeInv'
<1> DEFINE stamped == k \notin ReadOnly /\ ~Cleaned.exclusive
           e == IF stamped THEN Stamp(k, C, Cleaned.hashes) ELSE NoHashes
           ex == k \notin ReadOnly /\ Cleaned.exclusive
<1>1. k \in OpKind /\ k \in AllKinds
  BY KindAssumption DEF OpKind
<1>2. C \in SUBSET Cells
  BY DEF Targets
<1>3. v \in Hash /\ (k \in Writing => v \in Contents)
  BY DEF Payloads, Hash, Writing
<1>4. k \notin ReadOnly => Cleaned \in Lock
  BY CleanedFacts DEF Submit, Holds, TypeInv
<1>5. e \in Hashes /\ ex \in BOOLEAN
  BY <1>4 DEF Stamp, NoHashes, Hashes, Hash, Lock
<1>6. Request(a, k, C, v, ex, e) \in Op
  BY <1>1, <1>2, <1>3, <1>5, RequestType
<1>7. ops' = [ops EXCEPT ![i] = Request(a, k, C, v, ex, e)]
  BY DEF Submit
<1>8. ops' \in [Slots -> Op \cup {None}] /\ WellFormed'
  BY <1>3, <1>6, <1>7 DEF WellFormed, TypeInv, TypeOK, Request
<1>9. lock' \in Lock \cup {None}
  <2>1. lock' = IF stamped /\ k = "undo" THEN [lock EXCEPT !.hashes = NoHashes] ELSE Cleaned
    BY DEF Submit
  <2>2. CASE stamped /\ k = "undo"
    <3>1. lock \in Lock
      BY <2>2, CleanedFacts DEF Submit, Holds, TypeInv
    <3>2. [lock EXCEPT !.hashes = NoHashes] \in Lock
      BY <3>1 DEF Lock, NoHashes, Hashes, Hash
    <3> QED BY <2>1, <2>2, <3>2
  <2>3. CASE ~(stamped /\ k = "undo")
    BY <2>1, <2>3, CleanedFacts DEF TypeInv
  <2> QED BY <2>2, <2>3
<1>10. seen' \in [Agents -> [Cells -> SUBSET Contents]]
  BY <1>3 DEF Submit, TypeInv, TypeOK, Hash
<1>11. count' \in Nat
  BY DEF Submit, TypeInv, TypeOK
<1> QED BY <1>8, <1>9, <1>10, <1>11 DEF Submit, TypeInv, TypeOK, page

\* Telling a page of a session keeps the types.
LEMMA TellPageType ==
    ASSUME TypeInv, NEW i \in Slots, NEW a \in Agents, NEW ex \in BOOLEAN,
           NEW k \in {"startAgentSession", "endAgentSession"}, TellPage(i, a, k, ex),
           lock' \in Lock \cup {None}
    PROVE  TypeInv'
<1>1. Request(a, k, {}, None, ex, NoHashes) \in Op
  BY RequestType DEF OpKind, Hash, NoHashes, Hashes
<1>2. ops' \in [Slots -> Op \cup {None}] /\ WellFormed'
  <2>1. CASE HasUI
    <3>1. ops' = [ops EXCEPT ![i] = Request(a, k, {}, None, ex, NoHashes)]
      BY <2>1 DEF TellPage
    <3>2. Request(a, k, {}, None, ex, NoHashes).kind \notin Writing
      BY DEF Request, Writing
    <3> QED BY <1>1, <3>1, <3>2 DEF TypeInv, TypeOK, WellFormed
  <2>2. CASE ~HasUI
    BY <2>2 DEF TellPage, TypeInv, TypeOK, WellFormed
  <2> QED BY <2>1, <2>2
<1> QED BY <1>2 DEF TellPage, TypeInv, TypeOK, page

\* Applying an operation headless keeps the types.
LEMMA HeadlessApplyType ==
    ASSUME TypeInv, NEW i \in Slots, HeadlessApply(i)
    PROVE  TypeInv'
<1>1. ops[i] \in Op /\ ops[i] # None
  BY DEF HeadlessApply, Waiting, TypeInv, TypeOK
<1>2. PICK o \in Outcomes(ops[i], disk, FALSE) \cup Unpermitted(ops[i]) :
        /\ disk' = o.cells
        /\ ops' = [ops EXCEPT ![i].stage = "applied", ![i].result = o.res,
                              ![i].got = o.got, ![i].answer = o.res]
        /\ Conclude(i, o.res, o.got)
  BY DEF HeadlessApply
<1>3. o \in OutcomeSet
  <2>1. CASE o \in Outcomes(ops[i], disk, FALSE)
    BY <2>1, <1>1, OutcomesType DEF TypeInv, TypeOK, WellFormed
  <2>2. CASE o \in Unpermitted(ops[i])
    BY <2>2 DEF Unpermitted, Refused, Outcome, OutcomeSet, NoHashes, Hashes, Hash,
                TypeInv, TypeOK
  <2> QED BY <2>1, <2>2
<1>4. o.res \in {"ok", "conflict", "failed"} /\ o.got \in Hashes /\ o.cells \in [Cells -> Text]
  BY <1>3 DEF OutcomeSet
<1>5. ops' \in [Slots -> Op \cup {None}] /\ WellFormed'
  BY <1>1, <1>2, <1>4 DEF TypeInv, TypeOK, WellFormed, Op, Answer
<1>6. /\ lock' \in Lock \cup {None} /\ preRead' \in Hashes
      /\ seen' \in [Agents -> [Cells -> SUBSET Contents]]
  BY <1>1, <1>2, <1>4, ConcludeType
<1> QED BY <1>2, <1>4, <1>5, <1>6 DEF HeadlessApply, TypeInv, TypeOK, page

\* Applying an operation in a page keeps the types.
LEMMA PageApplyType ==
    ASSUME TypeInv, NEW i \in Slots, NEW p \in Pages, PageApply(p, i)
    PROVE  TypeInv'
<1>1. ops[i] \in Op /\ ops[i] # None
  BY DEF PageApply, TypeInv, TypeOK
<1>2. PICK o \in Outcomes(ops[i], pageCells[p], TRUE) :
        /\ pageCells' = [pageCells EXCEPT ![p] = o.cells]
        /\ ops' = [ops EXCEPT ![i].stage = "applied", ![i].result = o.res, ![i].got = o.got]
  BY DEF PageApply
<1>3. o \in OutcomeSet
  BY <1>1, <1>2, OutcomesType DEF TypeInv, TypeOK, WellFormed
<1>4. pageCells' \in [Pages -> [Cells -> Text]]
  BY <1>2, <1>3 DEF OutcomeSet, TypeInv, TypeOK
<1>5. ops' \in [Slots -> Op \cup {None}] /\ WellFormed'
  BY <1>1, <1>2, <1>3 DEF OutcomeSet, TypeInv, TypeOK, WellFormed, Op
<1>6. session' \in [Pages -> {"none", "collaborative", "exclusive"}]
  <2>1. PICK badge \in Badges(ops[i], session[p]) : session' = [session EXCEPT ![p] = badge]
    BY DEF PageApply
  <2>2. badge \in {"none", "collaborative", "exclusive"}
    BY <1>1, <2>1 DEF Badges, TypeInv, TypeOK
  <2> QED BY <2>1, <2>2 DEF TypeInv, TypeOK
<1> QED BY <1>4, <1>5, <1>6 DEF PageApply, TypeInv, TypeOK, router

\* The answer to an operation keeps the types.
LEMMA DeliverType ==
    ASSUME TypeInv, NEW i \in Slots, Deliver(i)
    PROVE  TypeInv'
<1>1. ops[i] \in Op /\ ops[i] # None
  BY DEF Deliver, Waiting, TypeInv, TypeOK
<1>2. ops' \in [Slots -> Op \cup {None}] /\ WellFormed'
  BY <1>1 DEF Deliver, TypeInv, TypeOK, WellFormed, Op, Answer
<1>3. Conclude(i, ops[i].result, ops[i].got) /\ ops[i].got \in Hashes
  BY <1>1 DEF Deliver, Op
<1>4. /\ lock' \in Lock \cup {None} /\ preRead' \in Hashes
      /\ seen' \in [Agents -> [Cells -> SUBSET Contents]]
  BY <1>1, <1>3, ConcludeType
<1> QED BY <1>2, <1>4 DEF Deliver, TypeInv, TypeOK, page

\* The timeout of an operation keeps the types.
LEMMA UITimeoutType ==
    ASSUME TypeInv, NEW i \in Slots, UITimeout(i)
    PROVE  TypeInv'
<1>1. ops[i] \in Op
  BY DEF UITimeout, Waiting, TypeInv, TypeOK
<1>2. /\ TimedOut(ops[i]) \in Op
      /\ TimedOut(ops[i]).kind = ops[i].kind /\ TimedOut(ops[i]).content = ops[i].content
  <2>1. NoHashes \in Hashes
    BY DEF NoHashes, Hashes, Hash
  <2>2. /\ "headless" \in Route /\ FALSE \in BOOLEAN
        /\ \A a \in {"busy", "failed"} : a \in Answer
    BY DEF Route, Answer
  <2>3. CASE ops[i].kind = "readNotebook"
    BY <1>1, <2>1, <2>2, <2>3 DEF TimedOut, Op
  <2>4. CASE ops[i].kind # "readNotebook"
    BY <1>1, <2>2, <2>4 DEF TimedOut, Op
  <2> QED BY <2>3, <2>4
<1>3. ops' \in [Slots -> Op \cup {None}] /\ WellFormed'
  <2> DEFINE x == TimedOut(ops[i])
  <2>1. ops' = [ops EXCEPT ![i] = x] /\ ops \in [Slots -> Op \cup {None}] /\ ops[i] # None
    BY DEF UITimeout, Waiting, TypeInv, TypeOK
  <2>2. x \in Op /\ x.kind = ops[i].kind /\ x.content = ops[i].content
    BY <1>2
  <2> HIDE DEF x
  <2> QED BY <2>1, <2>2 DEF TypeInv, WellFormed
<1> QED BY <1>3 DEF UITimeout, TypeInv, TypeOK, router, page

\* Pages that connect and disconnect keep the types.
LEMMA ConnectionType ==
    ASSUME TypeInv, Connection
    PROVE  TypeInv'
<1>1. ASSUME NEW p \in Pages, NEW s \in Socks, Register(p, s) PROVE TypeInv'
  BY <1>1, RejectedType DEF Register, TypeInv, TypeOK, WellFormed
<1>2. ASSUME NEW s \in Socks, CloseEvent(s) PROVE TypeInv'
  <2>1. CASE conn = s
    <3>1. ops' = Rejected /\ conn' = None /\ fresh' = FALSE
      BY <2>1, <1>2 DEF CloseEvent
    <3>2. ops' \in [Slots -> Op \cup {None}] /\ WellFormed'
      BY <3>1, RejectedType DEF TypeInv, WellFormed
    <3> QED BY <3>1, <3>2, <1>2 DEF CloseEvent, TypeInv, TypeOK, page
  <2>2. CASE conn # s
    BY <2>2, <1>2 DEF CloseEvent, TypeInv, TypeOK, WellFormed, page
  <2> QED BY <2>1, <2>2
<1>3. ASSUME NEW s \in Socks, MarkUIActivity(s) PROVE TypeInv'
  BY <1>3 DEF MarkUIActivity, TypeInv, TypeOK, WellFormed, page
<1>4. ASSUME NEW p \in Pages, PageClosed(p) PROVE TypeInv'
  BY <1>4 DEF PageClosed, TypeInv, TypeOK, WellFormed, router
<1>5. CASE GoStale
  BY <1>5 DEF GoStale, TypeInv, TypeOK, WellFormed, page
<1> QED BY <1>1, <1>2, <1>3, <1>4, <1>5 DEF Connection

\* What the user does keeps the types.
LEMMA UserType ==
    ASSUME TypeInv, User
    PROVE  TypeInv'
<1>1. ASSUME NEW p \in Pages, NEW c \in Cells, NEW v \in Text, UserEdit(p, c, v) PROVE TypeInv'
  BY <1>1 DEF UserEdit, TypeInv, TypeOK, WellFormed, router
<1>2. ASSUME NEW p \in Pages, PageSave(p) PROVE TypeInv'
  BY <1>2 DEF PageSave, TypeInv, TypeOK, WellFormed, router, page
<1>3. ASSUME NEW p \in Pages, PageLoad(p) PROVE TypeInv'
  BY <1>3 DEF PageLoad, TypeInv, TypeOK, WellFormed, router
<1>4. ASSUME NEW p \in Pages, PageSessionEnds(p) PROVE TypeInv'
  BY <1>4 DEF PageSessionEnds, TypeInv, TypeOK, WellFormed, router
<1> QED BY <1>1, <1>2, <1>3, <1>4 DEF User

\* Type correctness (with well-formed requests) is inductive.
LEMMA TypeStep == TypeInv /\ [Next]_vars => TypeInv'
<1> SUFFICES ASSUME TypeInv, [Next]_vars PROVE TypeInv'
  OBVIOUS
<1>1. ASSUME NEW i \in Slots, NEW a \in Agents, NEW k \in Kinds,
             NEW C \in Targets(k), NEW v \in Payloads(k), Submit(i, a, k, C, v)
      PROVE  TypeInv'
  BY <1>1, SubmitType
<1>2. ASSUME NEW i \in Slots, NEW a \in Agents, NEW ex \in BOOLEAN, StartAgentSession(i, a, ex)
      PROVE  TypeInv'
  <2>1. lock' \in Lock \cup {None}
    BY <1>2, CleanedFacts DEF StartAgentSession, Holds, TypeInv, TypeOK, Lock
  <2> QED BY <2>1, <1>2, TellPageType DEF StartAgentSession
<1>3. ASSUME NEW i \in Slots, NEW a \in Agents, EndAgentSession(i, a)
      PROVE  TypeInv'
  BY <1>3, TellPageType DEF EndAgentSession
<1>4. CASE RefuseRequest
  BY <1>4, CleanedFacts DEF RefuseRequest, TypeInv, TypeOK, WellFormed, page
<1>5. CASE LockExpires
  BY <1>5 DEF LockExpires, TypeInv, TypeOK, WellFormed, Lock, page
<1>6. CASE ResultStep
  BY <1>6, HeadlessApplyType, PageApplyType, DeliverType, UITimeoutType DEF ResultStep
<1>7. CASE UNCHANGED vars
  BY <1>7 DEF vars, router, page, TypeInv, TypeOK, WellFormed
<1> QED BY <1>1, <1>2, <1>3, <1>4, <1>5, <1>6, <1>7, ConnectionType, UserType
        DEF Next, RequestStep

\* The initial state has its types.
LEMMA TypeInit == Init => TypeInv
<1> SUFFICES ASSUME Init PROVE TypeInv
  OBVIOUS
<1>1. disk \in [Cells -> Text] /\ pageCells \in [Pages -> [Cells -> Text]]
  BY DEF Init
<1>2. preRead \in Hashes
  BY DEF Init, NoHashes, Hashes, Hash
<1>3. seen \in [Agents -> [Cells -> SUBSET Contents]]
  BY DEF Init
<1>4. session \in [Pages -> {"none", "collaborative", "exclusive"}]
  BY DEF Init
<1>5. ops \in [Slots -> Op \cup {None}] /\ WellFormed
  BY DEF Init, WellFormed
<1> QED BY <1>1, <1>2, <1>3, <1>4, <1>5 DEF Init, TypeInv, TypeOK

\* Every variable of the router, the pages and the history keeps its type,
\* for every set of agents, cells, contents, pages and connections.
THEOREM TypeCorrect == Spec => []TypeOK
<1>1. Spec => []TypeInv
  BY TypeInit, TypeStep, PTL DEF Spec
<1> QED BY <1>1, PTL DEF TypeInv

-----------------------------------------------------------------------------
(* Optimistic concurrency *)

Grows(S, T) == \A a \in Agents, c \in Cells : S[a][c] \subseteq T[a][c]

\* What an agent has seen it has still seen when more has been.
LEMMA GrowsKeeps ==
    ASSUME NEW S, NEW T, Grows(S, T)
    PROVE  /\ \A h : WasSeen(S, h) => WasSeen(T, h)
           /\ \A op \in Op : Stamped(S, op) => Stamped(T, op)
<1>1. \A c \in Cells : \A v : SeenIn(S, c, v) => SeenIn(T, c, v)
  BY DEF Grows, SeenIn
<1>2. \A h : WasSeen(S, h) => WasSeen(T, h)
  BY <1>1 DEF WasSeen
<1>3. \A op \in Op : op.target \subseteq Cells
  BY DEF Op
<1> QED BY <1>1, <1>2, <1>3 DEF Stamped

\* A destructive collaborative operation that succeeds only removes contents
\* it was stamped with, hence contents that were seen.
LEMMA DestroysOnlySeen ==
    ASSUME NEW op \in Op, NEW m \in [Cells -> Text], NEW onPage \in BOOLEAN, NEW S,
           op.kind \in Destroying, ~op.exclusive, Stamped(S, op),
           NEW o \in Outcomes(op, m, onPage), o.res = "ok",
           NEW c \in Cells, NEW v \in Contents, m[c] = v, o.cells[c] # v
    PROVE  SeenIn(S, c, v)
<1> DEFINE w == IF op.kind = "updateContent" THEN op.content ELSE Absent
           done == Outcome(With(m, op.target, w), "ok", NoHashes)
<1>1. o \in Guarded(op, m, onPage, done)
  BY DEF Outcomes, Destroying
<1>2. Stale(op, m) = {} /\ o = done
  <2>1. Refused(m).res = "failed" /\ \A d : Outcome(m, "conflict", Showing(m, {d})).res = "conflict"
    BY DEF Refused, Outcome
  <2>2. o \notin Conflicting(op, m) /\ o # Refused(m)
    BY <2>1 DEF Conflicting
  <2>3. o = done /\ Conflicting(op, m) = {}
    BY <1>1, <2>2 DEF Guarded
  <2> QED BY <2>3 DEF Conflicting
<1>3. c \in op.target
  BY <1>2 DEF Outcome, With
<1>4. op.expected[c] = v
  BY <1>2, <1>3, NoneFacts DEF Stale, Stamped
<1> QED BY <1>4, NoneFacts DEF Stamped, WasSeen

\* What is recorded when a result arrives has been seen by then.
LEMMA ConcludeSeen ==
    ASSUME IInv, NEW i \in Slots, ops[i] # None, NEW res, NEW got \in Hashes,
           Conclude(i, res, got)
    PROVE  /\ Grows(seen, seen')
           /\ lock' # None => WasSeen(seen', lock'.hashes)
           /\ WasSeen(seen', preRead')
<1> USE DEF IInv, TypeInv
<1>1. ops[i] \in Op /\ ops[i].agent \in Agents /\ ops[i].target \subseteq Cells
  BY DEF TypeOK, Op
<1>2. Grows(seen, seen') /\ WasSeen(seen', got)
  BY <1>1 DEF Conclude, Shown, TypeOK, Grows, WasSeen, SeenIn, Hashes
<1>3. WasSeen(seen', Recorded)
  BY <1>2, GrowsKeeps DEF HashesWereSeen, Recorded, Cleaned
<1>4. Stamped(seen', ops[i])
  BY <1>1, <1>2, GrowsKeeps DEF HashesWereSeen
<1>5. WasSeen(seen', RecordedAfter(ops[i], res, got))
  <2>1. WasSeen(seen', Overlay(Recorded, got))
    BY <1>2, <1>3 DEF Overlay, WasSeen
  <2>2. WasSeen(seen', Forget(Recorded, ops[i].target))
    BY <1>3 DEF Forget, WasSeen
  <2>3. WasSeen(seen', NoHashes)
    BY DEF NoHashes, WasSeen
  <2>4. ops[i].kind = "updateContent" =>
          WasSeen(seen', [c \in Cells |-> IF c \in ops[i].target THEN ops[i].content
                                         ELSE Recorded[c]])
    BY <1>3, <1>4 DEF WasSeen, Stamped
  <2> QED BY <1>3, <2>1, <2>2, <2>3, <2>4 DEF RecordedAfter
<1>6. WasSeen(seen', preRead) /\ (lock # None => WasSeen(seen', lock.hashes))
  BY <1>2, GrowsKeeps DEF HashesWereSeen
<1>7. CASE Cleaned # None
  <2>1. /\ lock' = [lock EXCEPT !.hashes = RecordedAfter(ops[i], res, got)]
        /\ preRead' = preRead
    BY <1>7 DEF Conclude, WriteRecord
  <2>2. lock'.hashes = RecordedAfter(ops[i], res, got)
    BY <2>1, <1>7, CleanedFacts DEF Lock
  <2> QED BY <2>1, <2>2, <1>2, <1>5, <1>6
<1>8. CASE Cleaned = None
  <2>1. preRead' = RecordedAfter(ops[i], res, got) /\ lock' = lock
    BY <1>8 DEF Conclude, WriteRecord
  <2> QED BY <2>1, <1>2, <1>5, <1>6
<1> QED BY <1>2, <1>7, <1>8

\* The hash that an operation is submitted with has been seen.
LEMMA SubmitSeen ==
    ASSUME IInv, NEW i \in Slots, NEW a \in Agents, NEW k \in Kinds,
           NEW C \in Targets(k), NEW v \in Payloads(k), Submit(i, a, k, C, v)
    PROVE  HashesWereSeen'
<1> USE DEF IInv, TypeInv
<1> DEFINE stamped == k \notin ReadOnly /\ ~Cleaned.exclusive
           e == IF stamped THEN Stamp(k, C, Cleaned.hashes) ELSE NoHashes
           ex == k \notin ReadOnly /\ Cleaned.exclusive
           r == Request(a, k, C, v, ex, e)
<1>1. C \subseteq Cells
  BY DEF Targets
<1>2. Grows(seen, seen') /\ (k = "updateContent" => \A c \in C : SeenIn(seen', c, v))
  BY <1>1, NoneFacts DEF Submit, TypeOK, Grows, SeenIn, Payloads
<1>3. stamped => WasSeen(seen', Cleaned.hashes)
  BY <1>2, GrowsKeeps, CleanedFacts DEF Submit, Holds, HashesWereSeen
<1>4. WasSeen(seen', e)
  BY <1>3 DEF Stamp, NoHashes, WasSeen
<1>5. k \in Destroying /\ ~ex => \A c \in C : e[c] # None
  BY <1>1 DEF Submit, Destroying, ReadOnly, MustMatch, Prepared, Stamp
<1>6. Stamped(seen', r)
  <2>1. /\ r.expected = e /\ r.kind = k /\ r.target = C
        /\ r.content = v /\ r.exclusive = ex
    BY DEF Request
  <2> QED BY <2>1, <1>2, <1>4, <1>5 DEF Stamped
<1>7. ASSUME NEW j \in Slots, ops'[j] # None PROVE Stamped(seen', ops'[j])
  <2>1. ops' = [ops EXCEPT ![i] = r]
    BY DEF Submit
  <2>2. CASE j = i
    BY <2>1, <2>2, <1>6 DEF TypeOK
  <2>3. CASE j # i
    BY <2>1, <2>3, <1>2, <1>7, GrowsKeeps DEF TypeOK, HashesWereSeen
  <2> QED BY <2>2, <2>3
<1>8. lock' # None => WasSeen(seen', lock'.hashes)
  <2>1. CASE stamped /\ k = "undo"
    <3>1. lock \in Lock /\ lock' = [lock EXCEPT !.hashes = NoHashes]
      BY <2>1, CleanedFacts DEF Submit, Holds
    <3> QED BY <3>1 DEF Lock, WasSeen, NoHashes
  <2>2. CASE ~(stamped /\ k = "undo")
    <3>1. lock' = Cleaned
      BY <2>2 DEF Submit
    <3> QED BY <3>1, <1>2, CleanedFacts, GrowsKeeps DEF HashesWereSeen
  <2> QED BY <2>1, <2>2
<1>9. WasSeen(seen', preRead')
  BY <1>2, GrowsKeeps DEF Submit, HashesWereSeen
<1> QED BY <1>7, <1>8, <1>9 DEF HashesWereSeen

\* A request of the router to a page that carries no content and no hash.
LEMMA TellPageSeen ==
    ASSUME IInv, NEW i \in Slots, NEW a \in Agents, NEW ex \in BOOLEAN,
           NEW k \in {"startAgentSession", "endAgentSession"}, TellPage(i, a, k, ex),
           lock' # None => WasSeen(seen, lock'.hashes)
    PROVE  HashesWereSeen'
<1> USE DEF IInv, TypeInv
<1> DEFINE r == Request(a, k, {}, None, ex, NoHashes)
<1>1. Stamped(seen, r)
  BY DEF Stamped, Request, WasSeen, NoHashes, Destroying
<1>2. \A j \in Slots : ops'[j] # None => Stamped(seen, ops'[j])
  BY <1>1 DEF TellPage, TypeOK, HashesWereSeen
<1> QED BY <1>2 DEF TellPage, HashesWereSeen

\* Steps that neither touch the history nor what the router stores.
LEMMA QuietSeen ==
    ASSUME IInv, seen' = seen, preRead' = preRead,
           lock' # None => lock # None /\ lock'.hashes = lock.hashes,
           \A i \in Slots : ops'[i] # None =>
              /\ ops[i] # None /\ ops'[i].kind = ops[i].kind
              /\ ops'[i].content = ops[i].content /\ ops'[i].target = ops[i].target
              /\ ops'[i].expected = ops[i].expected
              /\ ops'[i].exclusive = ops[i].exclusive
    PROVE  HashesWereSeen'
BY DEF IInv, HashesWereSeen, Stamped

\* Results only bring hashes that their agent then has seen.
LEMMA ResultSeen ==
    ASSUME IInv, ResultStep
    PROVE  HashesWereSeen'
<1> USE DEF IInv, TypeInv
<1>1. ASSUME NEW i \in Slots, HeadlessApply(i) PROVE HashesWereSeen'
  <2>1. ops[i] \in Op /\ ops[i] # None
    BY <1>1 DEF HeadlessApply, Waiting, TypeOK
  <2>2. PICK o \in Outcomes(ops[i], disk, FALSE) \cup Unpermitted(ops[i]) :
          /\ ops' = [ops EXCEPT ![i].stage = "applied", ![i].result = o.res,
                                ![i].got = o.got, ![i].answer = o.res]
          /\ Conclude(i, o.res, o.got)
    BY <1>1 DEF HeadlessApply
  <2>3. o.got \in Hashes
    <3>1. CASE o \in Outcomes(ops[i], disk, FALSE)
      BY <3>1, <2>1, OutcomesType DEF TypeOK, WellFormed, OutcomeSet
    <3>2. CASE o \in Unpermitted(ops[i])
      BY <3>2 DEF Unpermitted, Refused, Outcome, NoHashes, Hashes, Hash
    <3> QED BY <3>1, <3>2
  <2>4. /\ Grows(seen, seen') /\ WasSeen(seen', preRead')
        /\ lock' # None => WasSeen(seen', lock'.hashes)
    BY <2>1, <2>2, <2>3, ConcludeSeen
  <2>5. \A j \in Slots : ops'[j] # None => Stamped(seen, ops'[j])
    <3> DEFINE x == [ops[i] EXCEPT !.stage = "applied", !.result = o.res, !.got = o.got, !.answer = o.res]
    <3>1. ops' = [ops EXCEPT ![i] = x]
      BY <2>2
    <3>2. /\ x.expected = ops[i].expected /\ x.kind = ops[i].kind /\ x.target = ops[i].target
          /\ x.content = ops[i].content /\ x.exclusive = ops[i].exclusive
      BY <2>1 DEF Op
    <3> HIDE DEF x
    <3>3. Stamped(seen, ops[i])
      BY <2>1 DEF HashesWereSeen
    <3>4. Stamped(seen, x)
      BY <3>2, <3>3 DEF Stamped
    <3> QED BY <3>1, <3>4 DEF TypeOK, HashesWereSeen
  <2>6. \A j \in Slots : ops'[j] \in Op \cup {None}
    BY <1>1, HeadlessApplyType DEF TypeOK
  <2> QED BY <2>4, <2>5, <2>6, GrowsKeeps DEF HashesWereSeen
<1>2. ASSUME NEW i \in Slots, NEW p \in Pages, PageApply(p, i) PROVE HashesWereSeen'
  <2>1. ops[i] \in Op /\ ops[i] # None
    BY <1>2 DEF PageApply, TypeOK
  <2>2. PICK o \in Outcomes(ops[i], pageCells[p], TRUE) :
          ops' = [ops EXCEPT ![i].stage = "applied", ![i].result = o.res, ![i].got = o.got]
    BY <1>2 DEF PageApply
  <2>3. \A j \in Slots : ops'[j] # None =>
          /\ ops[j] # None /\ ops'[j].kind = ops[j].kind
          /\ ops'[j].content = ops[j].content /\ ops'[j].target = ops[j].target
          /\ ops'[j].expected = ops[j].expected
          /\ ops'[j].exclusive = ops[j].exclusive
    BY <2>1, <2>2 DEF TypeOK, Op
  <2> QED BY <1>2, <2>3, QuietSeen DEF PageApply, router
<1>3. ASSUME NEW i \in Slots, Deliver(i) PROVE HashesWereSeen'
  <2>1. ops[i] \in Op /\ ops[i] # None
    BY <1>3 DEF Deliver, Waiting, TypeOK
  <2>2. Conclude(i, ops[i].result, ops[i].got) /\ ops[i].got \in Hashes
    BY <1>3, <2>1 DEF Deliver, Op
  <2>3. /\ Grows(seen, seen') /\ WasSeen(seen', preRead')
        /\ lock' # None => WasSeen(seen', lock'.hashes)
    BY <2>1, <2>2, ConcludeSeen
  <2>4. \A j \in Slots : ops'[j] # None => Stamped(seen, ops'[j])
    BY <2>1, <1>3 DEF Deliver, TypeOK, HashesWereSeen, Stamped, Op
  <2>5. \A j \in Slots : ops'[j] \in Op \cup {None}
    BY <1>3, DeliverType DEF TypeOK
  <2> QED BY <2>3, <2>4, <2>5, GrowsKeeps DEF HashesWereSeen
<1>4. ASSUME NEW i \in Slots, UITimeout(i) PROVE HashesWereSeen'
  <2>1. ops[i] \in Op
    BY <1>4 DEF UITimeout, Waiting, TypeOK
  <2>2. LET t == TimedOut(ops[i])
        IN  /\ t.kind = ops[i].kind /\ t.content = ops[i].content
            /\ t.target = ops[i].target /\ t.expected = ops[i].expected
            /\ t.exclusive = ops[i].exclusive
    BY <2>1 DEF TimedOut, Op
  <2>3. \A j \in Slots : ops'[j] # None =>
          /\ ops[j] # None /\ ops'[j].kind = ops[j].kind
          /\ ops'[j].content = ops[j].content /\ ops'[j].target = ops[j].target
          /\ ops'[j].expected = ops[j].expected
          /\ ops'[j].exclusive = ops[j].exclusive
    BY <2>2, <1>4 DEF UITimeout, Waiting, TypeOK
  <2> QED BY <1>4, <2>3, QuietSeen DEF UITimeout, router
<1> QED BY <1>1, <1>2, <1>3, <1>4 DEF ResultStep

\* Connections bring no hash.
LEMMA ConnectionSeen ==
    ASSUME IInv, Connection
    PROVE  HashesWereSeen'
<1> USE DEF IInv
<1>1. ASSUME NEW p \in Pages, NEW s \in Socks, Register(p, s) PROVE HashesWereSeen'
  <2>1. ops' = Rejected
    BY <1>1 DEF Register
  <2> QED BY <2>1, <1>1, RejectedType, QuietSeen DEF Register
<1>2. ASSUME NEW s \in Socks, CloseEvent(s) PROVE HashesWereSeen'
  <2>1. ops' = Rejected \/ ops' = ops
    BY <1>2 DEF CloseEvent
  <2> QED BY <2>1, <1>2, RejectedType, QuietSeen DEF CloseEvent
<1>3. ASSUME NEW s \in Socks, MarkUIActivity(s) PROVE HashesWereSeen'
  BY <1>3, QuietSeen DEF MarkUIActivity
<1>4. ASSUME NEW p \in Pages, PageClosed(p) PROVE HashesWereSeen'
  BY <1>4, QuietSeen DEF PageClosed, router
<1>5. CASE GoStale
  BY <1>5, QuietSeen DEF GoStale
<1> QED BY <1>1, <1>2, <1>3, <1>4, <1>5 DEF Connection

\* The user's edits bring no hash.
LEMMA UserSeen ==
    ASSUME IInv, User
    PROVE  HashesWereSeen'
BY QuietSeen DEF User, UserEdit, PageSave, PageLoad, PageSessionEnds, router

\* Hashes that operations expect have been seen: it is inductive.
LEMMA SeenStep == IInv /\ [Next]_vars => HashesWereSeen'
<1> SUFFICES ASSUME IInv, [Next]_vars PROVE HashesWereSeen'
  OBVIOUS
<1>1. ASSUME NEW i \in Slots, NEW a \in Agents, NEW k \in Kinds,
             NEW C \in Targets(k), NEW v \in Payloads(k), Submit(i, a, k, C, v)
      PROVE  HashesWereSeen'
  BY <1>1, SubmitSeen
<1>2. ASSUME NEW i \in Slots, NEW a \in Agents, NEW ex \in BOOLEAN, StartAgentSession(i, a, ex)
      PROVE  HashesWereSeen'
  <2>1. lock' # None => WasSeen(seen, lock'.hashes)
    BY <1>2, CleanedFacts DEF StartAgentSession, Holds, IInv, TypeInv, HashesWereSeen, Lock
  <2> QED BY <2>1, <1>2, TellPageSeen DEF StartAgentSession
<1>3. ASSUME NEW i \in Slots, NEW a \in Agents, EndAgentSession(i, a)
      PROVE  HashesWereSeen'
  BY <1>3, TellPageSeen DEF EndAgentSession
<1>4. CASE RefuseRequest
  BY <1>4, QuietSeen, CleanedFacts DEF RefuseRequest, IInv, TypeInv
<1>5. CASE LockExpires
  <2>1. lock' # None => lock # None /\ lock'.hashes = lock.hashes
    BY <1>5 DEF LockExpires, IInv, TypeInv, TypeOK, Lock
  <2> QED BY <2>1, <1>5, QuietSeen DEF LockExpires
<1>6. CASE UNCHANGED vars
  BY <1>6, QuietSeen DEF vars, router
<1> QED BY <1>1, <1>2, <1>3, <1>4, <1>5, <1>6, ResultSeen, ConnectionSeen, UserSeen
        DEF Next, RequestStep

\* Every stored or stamped hash stands for a content some agent was shown or wrote.
THEOREM HashesAreSeen == Spec => []IInv
<1>1. Init => IInv
  <2>1. Init => HashesWereSeen
    BY DEF Init, HashesWereSeen, WasSeen, NoHashes
  <2> QED BY <2>1, TypeInit DEF IInv
<1>2. IInv /\ [Next]_vars => IInv'
  BY TypeStep, SeenStep DEF IInv
<1> QED BY <1>1, <1>2, PTL DEF Spec

\* A step in which a destructive collaborative operation removes a content
\* from the file or from a page removes a content that some agent saw.
LEMMA OverwriteStep ==
    ASSUME IInv, Next, NEW i \in Slots, NEW c \in Cells, NEW v \in Contents,
           Destroys(i), Overwritten(c, v)
    PROVE  \E a \in Agents : v \in seen[a][c]
<1> USE DEF IInv, TypeInv
<1> SUFFICES SeenIn(seen, c, v)
  BY DEF SeenIn
<1>1. /\ ops[i] \in Op /\ ops[i] # None /\ ops[i].stage = "sent"
      /\ ops'[i] # None /\ ops'[i].stage = "applied" /\ ops'[i].result = "ok"
      /\ ops[i].kind \in Destroying /\ ~ops[i].exclusive
      /\ Stamped(seen, ops[i])
  BY DEF Destroys, Applies, TypeOK, HashesWereSeen
<1>2. ops' # ops
  BY <1>1
<1>3. ASSUME NEW j \in Slots, HeadlessApply(j) PROVE SeenIn(seen, c, v)
  <2>1. PICK o \in Outcomes(ops[j], disk, FALSE) \cup Unpermitted(ops[j]) :
          /\ disk' = o.cells
          /\ ops' = [ops EXCEPT ![j].stage = "applied", ![j].result = o.res,
                                ![j].got = o.got, ![j].answer = o.res]
    BY <1>3 DEF HeadlessApply
  <2>2. j = i
    BY <1>1, <2>1 DEF TypeOK
  <2>3. o.res = "ok"
    BY <1>1, <2>1, <2>2 DEF TypeOK, Op
  <2>4. o \in Outcomes(ops[i], disk, FALSE)
    <3>1. Refused(disk).res = "failed"
      BY DEF Refused, Outcome
    <3>2. o \notin Unpermitted(ops[i])
      BY <2>3, <3>1 DEF Unpermitted
    <3> QED BY <2>1, <2>2, <3>2
  <2>5. disk[c] = v /\ disk'[c] # v
    BY <1>3 DEF Overwritten, HeadlessApply, page
  <2> QED BY <1>1, <2>1, <2>3, <2>4, <2>5, DestroysOnlySeen DEF TypeOK
<1>4. ASSUME NEW j \in Slots, NEW p \in Pages, PageApply(p, j) PROVE SeenIn(seen, c, v)
  <2>1. PICK o \in Outcomes(ops[j], pageCells[p], TRUE) :
          /\ pageCells' = [pageCells EXCEPT ![p] = o.cells]
          /\ ops' = [ops EXCEPT ![j].stage = "applied", ![j].result = o.res, ![j].got = o.got]
    BY <1>4 DEF PageApply
  <2>2. j = i
    BY <1>1, <2>1 DEF TypeOK
  <2>3. o.res = "ok"
    BY <1>1, <2>1, <2>2 DEF TypeOK, Op
  <2>4. pageCells[p][c] = v /\ o.cells[c] # v
    <3>1. disk' = disk
      BY <1>4 DEF PageApply
    <3>2. PICK q \in Pages : pageCells[q][c] = v /\ pageCells'[q][c] # v
      BY <3>1 DEF Overwritten
    <3>3. q = p
      BY <2>1, <3>2 DEF TypeOK
    <3> QED BY <2>1, <3>2, <3>3 DEF TypeOK
  <2>5. pageCells[p] \in [Cells -> Text]
    BY DEF TypeOK
  <2> QED BY <1>1, <2>1, <2>2, <2>3, <2>4, <2>5, DestroysOnlySeen
<1>5. ASSUME NEW j \in Slots, Deliver(j) PROVE FALSE
  BY <1>1, <1>5 DEF Deliver, TypeOK, Op
<1>6. ASSUME NEW j \in Slots, UITimeout(j) PROVE FALSE
  <2>1. ops[j] \in Op /\ ops' = [ops EXCEPT ![j] = TimedOut(ops[j])]
    BY <1>6 DEF UITimeout, Waiting, TypeOK
  <2>2. TimedOut(ops[j]).stage \in {"sent", ops[j].stage}
    BY <2>1 DEF TimedOut, Op
  <2> QED BY <1>1, <2>1, <2>2 DEF TypeOK
<1>7. ASSUME NEW j \in Slots, NEW a \in Agents, NEW k, NEW C, NEW w, NEW ex, NEW e,
             ops' = [ops EXCEPT ![j] = Request(a, k, C, w, ex, e)] PROVE FALSE
  BY <1>1, <1>7 DEF Request, TypeOK
<1>8. CASE RequestStep
  <2>1. ASSUME NEW j \in Slots, NEW a \in Agents, NEW k \in Kinds,
               NEW C \in Targets(k), NEW w \in Payloads(k), Submit(j, a, k, C, w)
        PROVE  FALSE
    BY <1>7, <2>1 DEF Submit
  <2>2. ASSUME NEW j \in Slots, NEW a \in Agents, NEW k, NEW ex, TellPage(j, a, k, ex)
        PROVE  FALSE
    BY <1>2, <1>7, <2>2 DEF TellPage
  <2> QED BY <2>1, <2>2, <1>8 DEF RequestStep, StartAgentSession, EndAgentSession
<1>9. ops' # Rejected
  BY <1>1, RejectedType
<1>10. CASE Connection
  BY <1>2, <1>9, <1>10 DEF Connection, Register, CloseEvent, MarkUIActivity, PageClosed, GoStale
<1>11. CASE User
  BY <1>2, <1>11 DEF User, UserEdit, PageSave, PageLoad, PageSessionEnds
<1>12. CASE RefuseRequest \/ LockExpires
  BY <1>2, <1>12 DEF RefuseRequest, LockExpires
<1> QED BY <1>3, <1>4, <1>5, <1>6, <1>8, <1>10, <1>11, <1>12 DEF Next, ResultStep

\* No collaborative agent operation, applied on a page or headless, ever
\* removes a cell content that no agent had been shown or had written: with
\* any number of agents, pages and connections, and whatever times out, is
\* replaced, or arrives late.
THEOREM OnlySeenContentIsOverwritten == Spec => OverwritesWereRead
<1>1. IInv /\ [Next]_vars =>
        [\A i \in Slots, c \in Cells, v \in Contents :
           Destroys(i) /\ Overwritten(c, v) => \E a \in Agents : v \in seen[a][c]]_vars
  BY OverwriteStep
<1> QED BY <1>1, HashesAreSeen, PTL DEF Spec, OverwritesWereRead

\* With a single agent the promise of prepareCollaborativeWrite holds as it is
\* worded: the agent that destroys a content has itself seen it. (With two
\* agents it does not: the hashes are kept per notebook, not per agent.)
THEOREM SoleAgentReadIt ==
    ASSUME \A a, b \in Agents : a = b
    PROVE  Spec => WriterReadIt
<1>1. IInv /\ [Next]_vars =>
        [\A i \in Slots, c \in Cells, v \in Contents :
           Destroys(i) /\ Overwritten(c, v) => v \in seen[ops[i].agent][c]]_vars
  <2> SUFFICES ASSUME IInv, Next, NEW i \in Slots, NEW c \in Cells, NEW v \in Contents,
                      Destroys(i), Overwritten(c, v)
               PROVE  v \in seen[ops[i].agent][c]
    OBVIOUS
  <2>1. ops[i].agent \in Agents
    BY DEF Destroys, Applies, IInv, TypeInv, TypeOK, Op
  <2>2. PICK a \in Agents : v \in seen[a][c]
    BY OverwriteStep
  <2> QED BY <2>1, <2>2
<1> QED BY <1>1, HashesAreSeen, PTL DEF Spec, WriterReadIt

-----------------------------------------------------------------------------
(* What agents are told *)

\* What is recorded of a request agrees with what its agent was told.
Truthful(op) ==
    /\ op.answer \in {"ok", "conflict"} => op.stage = "applied" /\ op.result = op.answer
    /\ op.answer = "busy" => op.kind = "executeCell"

\* AnswersAreTrue says of every request that it is truthful.
LEMMA TruthfulAll == AnswersAreTrue <=> \A i \in Slots : ops[i] # None => Truthful(ops[i])
BY DEF AnswersAreTrue, Truthful

\* A step that replaces one request by a truthful one keeps the answers true.
LEMMA TruthfulUpdate ==
    ASSUME TypeInv, AnswersAreTrue, NEW i \in Slots, NEW op, ops' = [ops EXCEPT ![i] = op],
           Truthful(op)
    PROVE  AnswersAreTrue'
<1> SUFFICES ASSUME NEW j \in Slots, ops'[j] # None PROVE Truthful(ops'[j])
  BY DEF AnswersAreTrue, Truthful
<1>1. CASE j = i
  BY <1>1 DEF TypeInv, TypeOK
<1>2. CASE j # i
  BY <1>2, TruthfulAll DEF TypeInv, TypeOK
<1> QED BY <1>1, <1>2

\* A request that was just accepted has been answered with nothing.
LEMMA NewRequestTruthful ==
    ASSUME NEW a, NEW k, NEW C, NEW v, NEW ex, NEW e
    PROVE  Truthful(Request(a, k, C, v, ex, e))
BY DEF Request, Truthful

\* A result that arrives, on time, late or never, leaves every answer true: an
\* answer of success or conflict is given only together with the result.
LEMMA ResultTruthful ==
    ASSUME TypeInv, AnswersAreTrue, ResultStep
    PROVE  AnswersAreTrue'
<1>1. ASSUME NEW i \in Slots, HeadlessApply(i) PROVE AnswersAreTrue'
  <2>1. PICK o \in Outcomes(ops[i], disk, FALSE) \cup Unpermitted(ops[i]) :
          ops' = [ops EXCEPT ![i].stage = "applied", ![i].result = o.res,
                             ![i].got = o.got, ![i].answer = o.res]
    BY <1>1 DEF HeadlessApply
  <2>2. ops[i] \in Op
    BY <1>1 DEF HeadlessApply, Waiting, TypeInv, TypeOK
  <2>3. o.res \in {"ok", "conflict", "failed"}
    <3>1. CASE o \in Outcomes(ops[i], disk, FALSE)
      <4>1. o \in OutcomeSet
        BY <3>1, <2>2, <1>1, OutcomesType DEF HeadlessApply, Waiting, TypeInv, TypeOK, WellFormed
      <4> QED BY <4>1 DEF OutcomeSet
    <3>2. CASE o \in Unpermitted(ops[i])
      BY <3>2 DEF Unpermitted, Refused, Outcome
    <3> QED BY <3>1, <3>2
  <2> DEFINE op == [ops[i] EXCEPT !.stage = "applied", !.result = o.res,
                                  !.got = o.got, !.answer = o.res]
  <2>4. ops' = [ops EXCEPT ![i] = op]
    BY <2>1 DEF TypeInv, TypeOK
  <2>5. Truthful(op)
    BY <2>2, <2>3 DEF Truthful, Op
  <2> QED BY <2>4, <2>5, TruthfulUpdate
<1>2. ASSUME NEW i \in Slots, NEW p \in Pages, PageApply(p, i) PROVE AnswersAreTrue'
  <2>1. PICK o \in Outcomes(ops[i], pageCells[p], TRUE) :
          ops' = [ops EXCEPT ![i].stage = "applied", ![i].result = o.res, ![i].got = o.got]
    BY <1>2 DEF PageApply
  <2>2. ops[i] \in Op /\ ops[i] # None /\ ops[i].stage = "sent"
    BY <1>2 DEF PageApply, TypeInv, TypeOK
  <2> DEFINE op == [ops[i] EXCEPT !.stage = "applied", !.result = o.res, !.got = o.got]
  <2>3. ops' = [ops EXCEPT ![i] = op]
    BY <2>1 DEF TypeInv, TypeOK
  <2>4. Truthful(ops[i])
    BY <2>2, TruthfulAll
  <2>5. Truthful(op)
    BY <2>2, <2>4 DEF Truthful, Op
  <2> QED BY <2>3, <2>5, TruthfulUpdate
<1>3. ASSUME NEW i \in Slots, Deliver(i) PROVE AnswersAreTrue'
  <2>1. ops[i] \in Op /\ ops[i].stage = "applied"
    BY <1>3 DEF Deliver, Waiting, TypeInv, TypeOK
  <2> DEFINE op == [ops[i] EXCEPT !.answer = ops[i].result, !.timer = FALSE]
  <2>2. ops' = [ops EXCEPT ![i] = op]
    BY <1>3 DEF Deliver, TypeInv, TypeOK
  <2>3. Truthful(op)
    BY <2>1 DEF Truthful, Op
  <2> QED BY <2>2, <2>3, TruthfulUpdate
<1>4. ASSUME NEW i \in Slots, UITimeout(i) PROVE AnswersAreTrue'
  <2>1. ops[i] \in Op /\ ops[i].answer = "none"
    BY <1>4 DEF UITimeout, Waiting, TypeInv, TypeOK
  <2>2. Truthful(TimedOut(ops[i]))
    BY <2>1 DEF Truthful, TimedOut, Op
  <2> QED BY <1>4, <2>2, TruthfulUpdate DEF UITimeout
<1> QED BY <1>1, <1>2, <1>3, <1>4 DEF ResultStep

\* AnswersAreTrue is inductive for well-typed states.
LEMMA TruthfulStep == TypeInv /\ AnswersAreTrue /\ [Next]_vars => AnswersAreTrue'
<1> SUFFICES ASSUME TypeInv, AnswersAreTrue, [Next]_vars PROVE AnswersAreTrue'
  OBVIOUS
<1>1. CASE UNCHANGED ops
  BY <1>1 DEF AnswersAreTrue
<1>2. CASE RequestStep
  <2>1. ASSUME NEW j \in Slots, NEW a \in Agents, NEW k \in Kinds,
               NEW C \in Targets(k), NEW w \in Payloads(k), Submit(j, a, k, C, w)
        PROVE  AnswersAreTrue'
    BY <2>1, NewRequestTruthful, TruthfulUpdate DEF Submit
  <2>2. ASSUME NEW j \in Slots, NEW a \in Agents, NEW k, NEW ex, TellPage(j, a, k, ex)
        PROVE  AnswersAreTrue'
    BY <1>1, <2>2, NewRequestTruthful, TruthfulUpdate DEF TellPage
  <2> QED BY <2>1, <2>2, <1>2 DEF RequestStep, StartAgentSession, EndAgentSession
<1>3. CASE Connection
  <2>1. CASE ops' = Rejected
    <3> SUFFICES ASSUME NEW i \in Slots, Rejected[i] # None PROVE Truthful(Rejected[i])
      BY <2>1 DEF AnswersAreTrue, Truthful
    <3>1. CASE ~(Waiting(i) /\ ops[i].route = conn /\ conn # None)
      BY <3>1, TruthfulAll DEF Rejected
    <3>2. CASE Waiting(i) /\ ops[i].route = conn /\ conn # None
      BY <3>2 DEF Rejected, Waiting, Truthful, TypeInv, TypeOK, Op
    <3> QED BY <3>1, <3>2
  <2> QED BY <2>1, <1>1, <1>3 DEF Connection, Register, CloseEvent, MarkUIActivity, PageClosed, GoStale
<1>4. CASE User
  BY <1>1, <1>4 DEF User, UserEdit, PageSave, PageLoad, PageSessionEnds
<1>5. CASE RefuseRequest \/ LockExpires \/ UNCHANGED vars
  BY <1>1, <1>5 DEF RefuseRequest, LockExpires, vars
<1> QED BY <1>2, <1>3, <1>4, <1>5, ResultTruthful DEF Next

\* An agent is told of success or of a conflict only when that is what happened
\* to its request, and "busy" only for a cell that runs: for any number of
\* agents, pages, connections and requests in progress.
THEOREM AnswersTrue == Spec => []AnswersAreTrue
<1>1. Init => AnswersAreTrue
  BY DEF Init, AnswersAreTrue
<1>2. Spec => []TypeInv
  BY TypeInit, TypeStep, PTL DEF Spec
<1> QED BY <1>1, <1>2, TruthfulStep, PTL DEF Spec

-----------------------------------------------------------------------------
(* The registered connection *)

\* The websocket under which a notebook is registered is open.
RegisteredIsOpen == conn # None => sock[conn] = "open"

\* A request changes no connection.
LEMMA RequestsKeepConnections == RequestStep => UNCHANGED <<conn, sock>>
<1> SUFFICES ASSUME NEW i \in Slots, NEW a \in Agents,
                    \/ \E k \in Kinds : \E C \in Targets(k), v \in Payloads(k) : Submit(i, a, k, C, v)
                    \/ \E ex \in BOOLEAN : StartAgentSession(i, a, ex)
                    \/ EndAgentSession(i, a)
             PROVE  UNCHANGED <<conn, sock>>
  BY DEF RequestStep
<1>1. ASSUME NEW k, NEW C, NEW v, Submit(i, a, k, C, v) PROVE UNCHANGED <<conn, sock>>
  BY <1>1 DEF Submit
<1>2. ASSUME NEW k, NEW ex, TellPage(i, a, k, ex) PROVE UNCHANGED <<conn, sock>>
  BY <1>2 DEF TellPage
<1> QED BY <1>1, <1>2, Zenon DEF StartAgentSession, EndAgentSession

\* Being registered with an open websocket is inductive.
LEMMA RegisteredStep == TypeInv /\ RegisteredIsOpen /\ [Next]_vars => RegisteredIsOpen'
<1> SUFFICES ASSUME TypeInv, RegisteredIsOpen, [Next]_vars PROVE RegisteredIsOpen'
  OBVIOUS
<1>1. CASE UNCHANGED <<conn, sock>>
  BY <1>1 DEF RegisteredIsOpen
<1>2. CASE Connection
  <2>1. ASSUME NEW p \in Pages, NEW s \in Socks, Register(p, s) PROVE RegisteredIsOpen'
    BY <2>1 DEF Register, RegisteredIsOpen
  <2>2. ASSUME NEW s \in Socks, CloseEvent(s) PROVE RegisteredIsOpen'
    BY <2>2 DEF CloseEvent, RegisteredIsOpen, TypeInv, TypeOK
  <2> QED BY <2>1, <2>2, <1>1, <1>2
          DEF Connection, MarkUIActivity, PageClosed, GoStale, router
<1>3. CASE RequestStep
  BY <1>1, <1>3, RequestsKeepConnections
<1>4. CASE ResultStep
  BY <1>1, <1>4 DEF ResultStep, HeadlessApply, PageApply, Deliver, UITimeout, router
<1>5. CASE User
  BY <1>1, <1>5 DEF User, UserEdit, PageSave, PageLoad, PageSessionEnds, router
<1>6. CASE RefuseRequest \/ LockExpires \/ UNCHANGED vars
  BY <1>1, <1>6 DEF RefuseRequest, LockExpires, vars, router
<1> QED BY <1>2, <1>3, <1>4, <1>5, <1>6 DEF Next

\* Only the close event of the registered websocket itself leaves a notebook
\* without a page, however many connections have replaced each other.
THEOREM OnlyOwnClose == Spec => OnlyOwnCloseUnregisters
<1>1. Init => RegisteredIsOpen
  BY DEF Init, RegisteredIsOpen
<1>2. TypeInv /\ RegisteredIsOpen /\ [Next]_vars => [OwnClose]_vars
  <2> SUFFICES ASSUME TypeInv, RegisteredIsOpen, Next, conn # None, conn' = None
               PROVE  sock[conn] = "open" /\ sock'[conn] = "closed"
    BY DEF OwnClose
  <2>1. CASE Connection
    <3>1. ASSUME NEW p \in Pages, NEW s \in Socks, Register(p, s) PROVE FALSE
      <4>1. s = None
        BY <3>1 DEF Register
      <4> QED BY <4>1, ValueAssumption
    <3>2. PICK s \in Socks : CloseEvent(s)
      BY <2>1, <3>1 DEF Connection, MarkUIActivity, PageClosed, GoStale, router
    <3> QED BY <3>2 DEF CloseEvent, RegisteredIsOpen, TypeInv, TypeOK
  <2>2. CASE RequestStep
    BY <2>2, RequestsKeepConnections
  <2>3. CASE ResultStep
    BY <2>3 DEF ResultStep, HeadlessApply, PageApply, Deliver, UITimeout, router
  <2>4. CASE User
    BY <2>4 DEF User, UserEdit, PageSave, PageLoad, PageSessionEnds, router
  <2>5. CASE RefuseRequest \/ LockExpires
    BY <2>5 DEF RefuseRequest, LockExpires
  <2> QED BY <2>1, <2>2, <2>3, <2>4, <2>5 DEF Next
<1>3. Spec => []TypeInv
  BY TypeInit, TypeStep, PTL DEF Spec
<1> QED BY <1>1, <1>2, <1>3, RegisteredStep, PTL DEF Spec, OnlyOwnCloseUnregisters

=============================================================================
