--------------------------- MODULE CellRunsProofs ---------------------------
(***************************************************************************)
(* Type correctness of CellRuns and five of its safety properties, for any *)
(* number of pages, cells, runs, outputs and troubles and any length of a  *)
(* channel: the kernel has one request at a time, every execution has its  *)
(* end before it but in the two cases that EndComes names, a page's        *)
(* results come in the order in which it waits for them, and come at all,  *)
(* and every output is shown once.  What Results computes for a sequence   *)
(* of any length is proved by induction on the length, in the form of a    *)
(* set of numbers that has no least element (Induction).                   *)
(***************************************************************************)
EXTENDS CellRuns, SequenceTheorems, FiniteSetTheorems, WellFoundedInduction, TLAPS

Request == [by : Pages \cup {Agent}, cell : Cells \cup {NoCell}, after : 0..MaxRuns, stage : Stage]
Session == [status : {"idle", "busy", "starting", "dead", "gone"}, connected : BOOLEAN,
            restart : {"none", "ending", "booting", "stopping"}, tail : 0..MaxRuns,
            buffer : [Cells -> Seq(Outputs)], subscribed : SUBSET Pages]
Process == [queue : Seq(Runs), printed : [Runs -> 0..MaxPrinted], late : [Runs -> 0..MaxPrinted],
            heard : BOOLEAN, unheard : SUBSET Runs]
\* what a restart does, and the death of the kernel
Restarts == \/ Restart \/ RestartGivesUp \/ RestartConnects \/ RestartDone \/ RestartFails \/ RestartEnds
            \/ Dies

PagesFit == page \in [Pages -> Page]
LinesFit ==
    /\ link \in [Pages -> BOOLEAN]
    /\ toPage \in [Pages -> Seq(Message)] /\ toServer \in [Pages -> Seq(0..MaxRuns)]
RunsFit == run \in [Runs -> Request]
ServerFits == server \in Session
ChannelsFit == channel \in [Runs -> Seq(Error..Idle)]
KernelFits == kernel \in Process /\ \A r \in Runs : kernel.late[r] <= kernel.printed[r]
CountFits == count \in [runs : 0..MaxRuns, troubles : 0..MaxTroubles] /\ dropped \subseteq Pages

-----------------------------------------------------------------------------
(* Types *)

\* The parts of TypeOK.
LEMMA TypeParts == TypeOK <=> /\ PagesFit /\ LinesFit /\ RunsFit /\ ServerFits /\ ChannelsFit
                              /\ KernelFits /\ CountFits
BY DEF TypeOK, PagesFit, LinesFit, RunsFit, ServerFits, ChannelsFit, KernelFits, CountFits,
       Request, Session, Process

\* The parts of TypeOK after a step
LEMMA Whole ==
    ASSUME PagesFit', LinesFit', RunsFit', ServerFits', ChannelsFit', KernelFits', CountFits'
    PROVE  TypeOK'
BY DEF TypeOK, PagesFit, LinesFit, RunsFit, ServerFits, ChannelsFit, KernelFits, CountFits,
       Request, Session, Process

\* What a step leaves alone keeps its type.
LEMMA Kept ==
    ASSUME TypeOK
    PROVE  /\ UNCHANGED page => PagesFit'
           /\ UNCHANGED <<link, toPage, toServer>> => LinesFit'
           /\ UNCHANGED run => RunsFit'
           /\ UNCHANGED server => ServerFits'
           /\ UNCHANGED channel => ChannelsFit'
           /\ UNCHANGED kernel => KernelFits'
           /\ UNCHANGED <<count, dropped>> => CountFits'
BY TypeParts DEF PagesFit, LinesFit, RunsFit, ServerFits, ChannelsFit, KernelFits, CountFits

\* What is assumed of the constants
LEMMA Numbers ==
    /\ MaxRuns \in Nat /\ MaxPrinted \in Nat /\ MaxChannel \in Nat \ {0} /\ MaxTroubles \in Nat
    /\ Runs \subseteq 0..MaxRuns /\ 0 \notin Runs
    /\ Error = 0 /\ Idle = MaxPrinted + 1 /\ Cut = MaxPrinted + 2
    /\ Error \in 0..Cut /\ Cut \in 0..Cut /\ Idle \in Error..Idle /\ Error..Idle \subseteq 0..Cut
BY BoundAssumption DEF Runs, Error, Idle, Cut

\* A field of a page is replaced by a value of its type.
LEMMA PageField ==
    ASSUME NEW pg \in Page
    PROVE  /\ \A q \in Seq(Cells) : [pg EXCEPT !.queue = q] \in Page
           /\ \A b \in BOOLEAN : /\ [pg EXCEPT !.processing = b] \in Page
                                 /\ [pg EXCEPT !.ready = b] \in Page
                                 /\ [pg EXCEPT !.synced = b] \in Page
           /\ \A w \in SUBSET Runs : [pg EXCEPT !.waiting = w] \in Page
           /\ \A h \in Seq(Runs) : [pg EXCEPT !.handlers = h] \in Page
           /\ \A g \in [Runs -> Seq(Outputs)] : [pg EXCEPT !.got = g] \in Page
           /\ \A s \in [Cells -> Seq(Outputs)] : [pg EXCEPT !.shown = s] \in Page
BY DEF Page

\* What is read from a page
LEMMA PageRead ==
    ASSUME NEW pg \in Page
    PROVE  /\ pg.queue \in Seq(Cells) /\ pg.processing \in BOOLEAN /\ pg.ready \in BOOLEAN
           /\ pg.waiting \in SUBSET Runs /\ pg.synced \in BOOLEAN /\ pg.handlers \in Seq(Runs)
           /\ pg.got \in [Runs -> Seq(Outputs)] /\ pg.shown \in [Cells -> Seq(Outputs)]
BY DEF Page

\* One page is replaced.
LEMMA PageSet ==
    ASSUME PagesFit, NEW p \in Pages, NEW pg \in Page, page' = [page EXCEPT ![p] = pg]
    PROVE  PagesFit'
BY DEF PagesFit

\* The stage or the predecessor of a request is replaced.
LEMMA RequestField ==
    ASSUME NEW q \in Request, NEW s \in Stage, NEW a \in 0..MaxRuns
    PROVE  /\ [q EXCEPT !.stage = s] \in Request
           /\ [q EXCEPT !.stage = s, !.after = a] \in Request
BY DEF Request

\* The stage of one run is replaced.
LEMMA StageSet ==
    ASSUME RunsFit, NEW r \in Runs, NEW s \in Stage, run' = [run EXCEPT ![r].stage = s]
    PROVE  RunsFit'
BY DEF RunsFit, Request

\* The messages to the pages are messages.
LEMMA MessageType ==
    /\ Dead \in Message
    /\ \A r \in Runs : ResultOf(r) \in Message
    /\ \A c \in Cells \cup {NoCell}, o \in Outputs : OutputOf(c, o) \in Message
    /\ \A b \in [Cells -> Seq(Outputs)] : [type |-> "sync", cells |-> b] \in Message
<1>1. 0 \in 0..MaxRuns /\ \A r \in Runs : r \in 0..MaxRuns
  BY Numbers
<1>2. Dead \in Message /\ \A r \in Runs : ResultOf(r) \in Message
  BY <1>1 DEF Dead, ResultOf, Message
<1>3. \A c \in Cells \cup {NoCell}, o \in Outputs : OutputOf(c, o) \in Message
  BY DEF OutputOf, Message
<1>4. \A b \in [Cells -> Seq(Outputs)] : [type |-> "sync", cells |-> b] \in Message
  BY DEF Message
<1> QED BY <1>2, <1>3, <1>4

\* What is read from a message
LEMMA MessageRead ==
    ASSUME NEW m \in Message
    PROVE  /\ m.type = "sync" => m.cells \in [Cells -> Seq(Outputs)]
           /\ m.type = "output" => m.cell \in Cells \cup {NoCell} /\ m.output \in Outputs
BY DEF Message

\* Broadcast, and what the pages are told, leave messages on the way.
LEMMA ToldType ==
    ASSUME LinesFit, NEW r, NEW outputs \in Seq(Message), NEW others \in Seq(Message)
    PROVE  /\ Broadcast(outputs, others) \in [Pages -> Seq(Message)]
           /\ Told(r, outputs, others) \in [Pages -> Seq(Message)]
<1>1. \A p \in Pages : toPage[p] \in Seq(Message)
  BY DEF LinesFit
<1>2. \A s, t \in Seq(Message) : s \o t \in Seq(Message)
  BY ConcatProperties
<1>3. \A p \in Pages : (IF p \in server.subscribed THEN outputs ELSE <<>>) \in Seq(Message)
  OBVIOUS
<1>4. Broadcast(outputs, others) \in [Pages -> Seq(Message)]
  BY <1>1, <1>2, <1>3 DEF Broadcast
<1> QED BY <1>4 DEF Told, LinesFit

\* A continuation of a run leaves a page.
LEMMA SettledType ==
    ASSUME RunsFit, NEW pg \in Page, NEW r \in Runs
    PROVE  Settled(pg, r) \in Page
<1> DEFINE c == run[r].cell
           failed == \E i \in DOMAIN pg.got[r] : pg.got[r][i][2] \in {Error, Cut}
           rest == IF failed \/ pg.queue = <<>> THEN <<>> ELSE Tail(pg.queue)
           shown == [pg.shown EXCEPT ![c] = pg.got[r]]
           got == [pg.got EXCEPT ![r] = <<>>]
<1>1. pg.queue \in Seq(Cells) /\ pg.got \in [Runs -> Seq(Outputs)] /\ pg.shown \in [Cells -> Seq(Outputs)]
  BY PageRead
<1>2. rest \in Seq(Cells)
  BY <1>1, HeadTailProperties
<1>3. got \in [Runs -> Seq(Outputs)] /\ pg.got[r] \in Seq(Outputs)
  BY <1>1
<1>4. c # NoCell => shown \in [Cells -> Seq(Outputs)]
  BY <1>1, <1>3 DEF RunsFit, Request
<1>5. ASSUME NEW s \in [Cells -> Seq(Outputs)], NEW g \in [Runs -> Seq(Outputs)], NEW q \in Seq(Cells),
             NEW b \in BOOLEAN
      PROVE  [pg EXCEPT !.shown = s, !.got = g, !.queue = q, !.processing = b] \in Page
  BY DEF Page
<1>6. c # NoCell /\ run[r].stage # "lost" =>
        Settled(pg, r) = [pg EXCEPT !.shown = shown, !.got = got, !.queue = rest, !.processing = FALSE]
  BY DEF Settled
<1>7. c = NoCell \/ run[r].stage = "lost" => Settled(pg, r) = pg
  BY DEF Settled
<1>8. FALSE \in BOOLEAN
  OBVIOUS
<1> HIDE DEF shown, got, rest, c
<1>9. CASE c # NoCell /\ run[r].stage # "lost"
  <2>1. [pg EXCEPT !.shown = shown, !.got = got, !.queue = rest, !.processing = FALSE] \in Page
    BY <1>2, <1>3, <1>4, <1>5, <1>8, <1>9
  <2> QED BY <1>6, <1>9, <2>1
<1>10. CASE ~(c # NoCell /\ run[r].stage # "lost")
  BY <1>7, <1>10
<1> QED BY <1>9, <1>10

\* A new run
LEMMA NewRunType ==
    ASSUME RunsFit, CountFits, NEW by \in Pages \cup {Agent}, NEW c \in Cells \cup {NoCell},
           NEW stage \in Stage, NEW after \in 0..MaxRuns, NewRun(by, c, stage, after), UNCHANGED dropped
    PROVE  RunsFit' /\ CountFits' /\ count.runs + 1 \in Runs
<1>1. count.runs \in Nat /\ count.runs + 1 \in 0..MaxRuns /\ count.runs + 1 \in Runs
  BY Numbers DEF CountFits, NewRun, Runs
<1>2. [by |-> by, cell |-> c, stage |-> stage, after |-> after] \in Request
  BY DEF Request
<1>3. RunsFit'
  BY <1>1, <1>2 DEF NewRun, RunsFit
<1>4. \A n \in 0..MaxRuns : [count EXCEPT !.runs = n] \in [runs : 0..MaxRuns, troubles : 0..MaxTroubles]
  BY DEF CountFits
<1>5. CountFits'
  BY <1>1, <1>4 DEF NewRun, CountFits
<1> QED BY <1>1, <1>3, <1>5

\* A trouble
LEMMA TroubleType ==
    ASSUME CountFits, Trouble
    PROVE  count' \in [runs : 0..MaxRuns, troubles : 0..MaxTroubles]
<1>1. \A n \in 0..MaxTroubles : [count EXCEPT !.troubles = n] \in [runs : 0..MaxRuns, troubles : 0..MaxTroubles]
  BY DEF CountFits
<1>2. count.troubles + 1 \in 0..MaxTroubles
  BY Numbers DEF CountFits, Trouble
<1> QED BY <1>1, <1>2 DEF Trouble

\* The stages
LEMMA Stages ==
    /\ "none" \in Stage /\ "waiting" \in Stage /\ "asked" \in Stage /\ "lost" \in Stage
    /\ "queued" \in Stage /\ "running" \in Stage /\ "cut" \in Stage /\ "ended" \in Stage
BY DEF Stage

\* The queue of a page and what it asks keep their types.
LEMMA AsksType ==
    ASSUME TypeOK, NEW p \in Pages,
           \/ \E c \in Cells : QueueExecution(p, c)
           \/ ProcessNext(p) \/ RunHint(p) \/ Interrupt(p)
           \/ \E r \in Runs : WaitOver(p, r) \/ WaitThrows(p, r)
    PROVE  TypeOK'
<1>1. PagesFit /\ LinesFit /\ RunsFit /\ ServerFits /\ ChannelsFit /\ KernelFits /\ CountFits
  BY TypeParts
<1>2. page[p] \in Page
  BY <1>1 DEF PagesFit
<1>3. /\ page[p].queue \in Seq(Cells) /\ page[p].waiting \in SUBSET Runs
      /\ page[p].handlers \in Seq(Runs) /\ page[p].got \in [Runs -> Seq(Outputs)]
      /\ page[p].shown \in [Cells -> Seq(Outputs)]
  BY <1>2, PageRead
<1>4. \A r \in Runs : toServer' = [toServer EXCEPT ![p] = Append(@, r)] /\ UNCHANGED <<link, toPage>> => LinesFit'
  <2> SUFFICES ASSUME NEW r \in Runs, toServer' = [toServer EXCEPT ![p] = Append(@, r)],
                      UNCHANGED <<link, toPage>>
               PROVE  LinesFit'
    OBVIOUS
  <2>1. toServer[p] \in Seq(0..MaxRuns) /\ r \in 0..MaxRuns
    BY <1>1, Numbers DEF LinesFit
  <2>2. Append(toServer[p], r) \in Seq(0..MaxRuns)
    BY <2>1, AppendProperties
  <2> QED BY <1>1, <2>2 DEF LinesFit
<1>5. \A r \in Runs : Append(page[p].handlers, r) \in Seq(Runs)
  BY <1>3, AppendProperties
<1>6. 0 \in 0..MaxRuns /\ p \in Pages \cup {Agent} /\ NoCell \in Cells \cup {NoCell}
  BY Numbers
<1>7. ASSUME NEW c \in Cells, QueueExecution(p, c) PROVE TypeOK'
  <2>1. Append(page[p].queue, c) \in Seq(Cells)
    BY <1>3, AppendProperties
  <2>2. [page[p] EXCEPT !.queue = Append(page[p].queue, c)] \in Page
    BY <1>2, <2>1, PageField
  <2>3. page' = [page EXCEPT ![p] = [page[p] EXCEPT !.queue = Append(page[p].queue, c)]]
    BY <1>1, <1>7 DEF QueueExecution, PagesFit
  <2>4. PagesFit'
    BY <1>1, <2>2, <2>3, PageSet
  <2> QED BY <1>7, <2>4, Kept, Whole DEF QueueExecution
<1>8. CASE ProcessNext(p)
  <2> DEFINE r == count.runs + 1
             c == Head(page[p].queue)
             begun == [page[p] EXCEPT !.processing = TRUE]
             asks == [begun EXCEPT !.handlers = Append(@, r)]
             waits == [begun EXCEPT !.waiting = @ \cup {r}]
  <2>1. c \in Cells \cup {NoCell}
    BY <1>3, <1>8, HeadTailProperties DEF ProcessNext
  <2>2. \/ NewRun(p, c, "asked", 0) /\ page' = [page EXCEPT ![p] = asks]
           /\ toServer' = [toServer EXCEPT ![p] = Append(@, r)]
        \/ NewRun(p, c, "waiting", 0) /\ page' = [page EXCEPT ![p] = waits] /\ UNCHANGED toServer
    BY <1>8 DEF ProcessNext
  <2>3. UNCHANGED <<link, toPage, server, channel, kernel, dropped>>
    BY <1>8 DEF ProcessNext
  <2>4. RunsFit' /\ CountFits' /\ r \in Runs
    <3> HIDE DEF c, r, asks, waits
    <3>1. CASE NewRun(p, c, "asked", 0)
      BY <1>1, <1>6, <2>1, <2>3, <3>1, Stages, NewRunType DEF r
    <3>2. CASE NewRun(p, c, "waiting", 0)
      BY <1>1, <1>6, <2>1, <2>3, <3>2, Stages, NewRunType DEF r
    <3> QED BY <2>2, <3>1, <3>2
  <2>5. begun \in Page /\ begun.handlers = page[p].handlers /\ begun.waiting = page[p].waiting
    <3>1. TRUE \in BOOLEAN
      OBVIOUS
    <3>2. begun \in Page
      BY <1>2, <3>1, PageField
    <3> QED BY <1>2, <3>2 DEF Page
  <2>6. asks \in Page
    <3> HIDE DEF begun, r
    <3>1. asks = [begun EXCEPT !.handlers = Append(page[p].handlers, r)]
      BY <2>5 DEF Page
    <3> QED BY <1>5, <2>4, <2>5, <3>1, PageField
  <2>7. waits \in Page
    <3> HIDE DEF begun, r
    <3>1. waits = [begun EXCEPT !.waiting = page[p].waiting \cup {r}]
      BY <2>5 DEF Page
    <3> QED BY <1>3, <2>4, <2>5, <3>1, PageField
  <2> HIDE DEF r, c, asks, waits
  <2>8. PagesFit'
    BY <1>1, <2>2, <2>6, <2>7, PageSet
  <2>9. LinesFit'
    BY <1>1, <1>4, <2>2, <2>3, <2>4, Kept
  <2> QED BY <2>3, <2>4, <2>8, <2>9, Kept, Whole
<1>9. CASE RunHint(p)
  <2> DEFINE r == count.runs + 1
  <2>1. /\ NewRun(p, NoCell, "asked", 0)
        /\ page' = [page EXCEPT ![p].handlers = Append(@, r)]
        /\ toServer' = [toServer EXCEPT ![p] = Append(@, r)]
        /\ UNCHANGED <<link, toPage, server, channel, kernel, dropped>>
    BY <1>9 DEF RunHint
  <2>2. RunsFit' /\ CountFits' /\ r \in Runs
    BY <1>1, <1>6, <2>1, Stages, NewRunType
  <2> HIDE DEF r
  <2>3. [page[p] EXCEPT !.handlers = Append(page[p].handlers, r)] \in Page
    BY <1>2, <1>5, <2>2, PageField
  <2>4. page' = [page EXCEPT ![p] = [page[p] EXCEPT !.handlers = Append(page[p].handlers, r)]]
    BY <1>1, <2>1 DEF PagesFit
  <2>5. PagesFit'
    BY <1>1, <2>3, <2>4, PageSet
  <2> QED BY <1>4, <2>1, <2>2, <2>5, Kept, Whole
<1>10. CASE Interrupt(p)
  <2>1. /\ page' = [page EXCEPT ![p].queue = <<>>, ![p].processing = FALSE]
        /\ Trouble /\ UNCHANGED <<link, toPage, toServer, run, server, channel, kernel, dropped>>
    BY <1>10 DEF Interrupt
  <2>2. ASSUME NEW q \in Seq(Cells), NEW b \in BOOLEAN
        PROVE  [page[p] EXCEPT !.queue = q, !.processing = b] \in Page
    BY <1>2 DEF Page
  <2>3. [page[p] EXCEPT !.queue = <<>>, !.processing = FALSE] \in Page
    <3>1. <<>> \in Seq(Cells) /\ FALSE \in BOOLEAN
      OBVIOUS
    <3> QED BY <2>2, <3>1
  <2>4. page' = [page EXCEPT ![p] = [page[p] EXCEPT !.queue = <<>>, !.processing = FALSE]]
    BY <1>1, <2>1 DEF PagesFit
  <2>5. PagesFit'
    BY <1>1, <2>3, <2>4, PageSet
  <2>6. CountFits'
    BY <1>1, <2>1, TroubleType DEF CountFits
  <2> QED BY <2>1, <2>5, <2>6, Kept, Whole
<1>11. ASSUME NEW r \in Runs, WaitOver(p, r) PROVE TypeOK'
  <2>1. /\ page' = [page EXCEPT ![p].waiting = @ \ {r}, ![p].handlers = Append(@, r)]
        /\ toServer' = [toServer EXCEPT ![p] = Append(@, r)]
        /\ run' = [run EXCEPT ![r].stage = "asked"]
        /\ UNCHANGED <<link, toPage, server, channel, kernel, count, dropped>>
    BY <1>11 DEF WaitOver
  <2>2. ASSUME NEW w \in SUBSET Runs, NEW h \in Seq(Runs)
        PROVE  [page[p] EXCEPT !.waiting = w, !.handlers = h] \in Page
    BY <1>2 DEF Page
  <2>3. page[p].waiting \ {r} \in SUBSET Runs
    BY <1>3
  <2>4. [page[p] EXCEPT !.waiting = page[p].waiting \ {r}, !.handlers = Append(page[p].handlers, r)] \in Page
    BY <1>5, <2>2, <2>3
  <2>5. page' = [page EXCEPT ![p] =
          [page[p] EXCEPT !.waiting = page[p].waiting \ {r}, !.handlers = Append(page[p].handlers, r)]]
    BY <1>1, <2>1 DEF PagesFit
  <2>6. PagesFit'
    BY <1>1, <2>4, <2>5, PageSet
  <2>7. RunsFit'
    BY <1>1, <2>1, Stages, StageSet
  <2> QED BY <1>4, <2>1, <2>6, <2>7, Kept, Whole
<1>12. ASSUME NEW r \in Runs, WaitThrows(p, r) PROVE TypeOK'
  <2> DEFINE pg == [page[p] EXCEPT !.waiting = @ \ {r}, !.handlers = Append(@, r), !.got[r] = <<<<r, Cut>>>>]
  <2>1. /\ page' = [page EXCEPT ![p] = Settled(pg, r)]
        /\ run' = [run EXCEPT ![r].stage = "lost"]
        /\ UNCHANGED <<link, toPage, toServer, server, channel, kernel, count, dropped>>
    BY <1>12 DEF WaitThrows
  <2>2. ASSUME NEW w \in SUBSET Runs, NEW h \in Seq(Runs), NEW g \in [Runs -> Seq(Outputs)]
        PROVE  [page[p] EXCEPT !.waiting = w, !.handlers = h, !.got = g] \in Page
    BY <1>2 DEF Page
  <2>3. page[p].waiting \ {r} \in SUBSET Runs
    BY <1>3
  <2>4. [page[p].got EXCEPT ![r] = <<<<r, Cut>>>>] \in [Runs -> Seq(Outputs)]
    <3>1. <<r, Cut>> \in Outputs
      BY Numbers DEF Outputs
    <3> QED BY <1>3, <3>1
  <2>5. pg = [page[p] EXCEPT !.waiting = page[p].waiting \ {r}, !.handlers = Append(page[p].handlers, r),
                             !.got = [page[p].got EXCEPT ![r] = <<<<r, Cut>>>>]]
    OBVIOUS
  <2>6. pg \in Page
    BY <1>5, <2>2, <2>3, <2>4, <2>5
  <2> HIDE DEF pg
  <2>7. PagesFit'
    BY <1>1, <2>1, <2>6, SettledType, PageSet
  <2>8. RunsFit'
    BY <1>1, <2>1, Stages, StageSet
  <2> QED BY <2>1, <2>7, <2>8, Kept, Whole
<1> QED BY <1>7, <1>8, <1>9, <1>10, <1>11, <1>12

\* What a page makes of a message keeps its type.
LEMMA ReceivesType ==
    ASSUME TypeOK, NEW p \in Pages,
           ReceiveDead(p) \/ ReceiveSync(p) \/ ReceiveOutput(p) \/ ReceiveResult(p)
    PROVE  TypeOK'
<1>1. PagesFit /\ LinesFit /\ RunsFit /\ ServerFits /\ ChannelsFit /\ KernelFits /\ CountFits
  BY TypeParts
<1>2. page[p] \in Page
  BY <1>1 DEF PagesFit
<1>3. /\ page[p].queue \in Seq(Cells) /\ page[p].handlers \in Seq(Runs)
      /\ page[p].got \in [Runs -> Seq(Outputs)] /\ page[p].shown \in [Cells -> Seq(Outputs)]
  BY <1>2, PageRead
<1>4. /\ toPage[p] # <<>> /\ toPage' = [toPage EXCEPT ![p] = Tail(@)]
      /\ UNCHANGED <<link, toServer, run, server, channel, kernel, count, dropped>>
  BY DEF ReceiveDead, ReceiveSync, ReceiveOutput, ReceiveResult, Receive
<1>5. Tail(toPage[p]) \in Seq(Message) /\ Head(toPage[p]) \in Message
  <2>1. toPage[p] \in Seq(Message)
    BY <1>1 DEF LinesFit
  <2> QED BY <1>4, <2>1, HeadTailProperties
<1>6. LinesFit'
  BY <1>1, <1>4, <1>5 DEF LinesFit
<1>7. ASSUME PagesFit' PROVE TypeOK'
  BY <1>4, <1>6, <1>7, Kept, Whole
<1>8. FALSE \in BOOLEAN /\ TRUE \in BOOLEAN /\ <<>> \in Seq(Cells)
  OBVIOUS
<1>9. CASE ReceiveDead(p)
  <2>1. ASSUME NEW b \in BOOLEAN, NEW q \in Seq(Cells)
        PROVE  [page[p] EXCEPT !.ready = b, !.queue = q] \in Page
    BY <1>2 DEF Page
  <2>2. [page[p] EXCEPT !.ready = FALSE, !.queue = <<>>] \in Page
    BY <1>8, <2>1
  <2>3. page' = [page EXCEPT ![p] = [page[p] EXCEPT !.ready = FALSE, !.queue = <<>>]]
    BY <1>1, <1>9 DEF ReceiveDead, PagesFit
  <2> QED BY <1>1, <1>7, <2>2, <2>3, PageSet
<1>10. CASE ReceiveSync(p)
  <2> DEFINE m == Head(toPage[p])
             new == Replaced(page[p].shown, m.cells)
  <2>1. m.cells \in [Cells -> Seq(Outputs)]
    BY <1>5, <1>10, MessageRead DEF ReceiveSync, Receive
  <2>2. new \in [Cells -> Seq(Outputs)]
    BY <1>3, <2>1 DEF Replaced
  <2>3. page' = [page EXCEPT ![p] = [page[p] EXCEPT !.synced = TRUE, !.shown = new]]
    BY <1>1, <1>10 DEF ReceiveSync, PagesFit
  <2>4. ASSUME NEW b \in BOOLEAN, NEW s \in [Cells -> Seq(Outputs)]
        PROVE  [page[p] EXCEPT !.synced = b, !.shown = s] \in Page
    BY <1>2 DEF Page
  <2> HIDE DEF new
  <2>5. [page[p] EXCEPT !.synced = TRUE, !.shown = new] \in Page
    BY <1>8, <2>2, <2>4
  <2> QED BY <1>1, <1>7, <2>3, <2>5, PageSet
<1>11. CASE ReceiveOutput(p)
  <2> DEFINE m == Head(toPage[p])
             pg == page[p]
             h == IF pg.handlers = <<>> THEN 0 ELSE Head(pg.handlers)
             mine == Append(pg.got[h], m.output)
             owned == [pg EXCEPT !.got[h] = mine, !.shown[run[h].cell] = mine]
             added == [pg EXCEPT !.shown[m.cell] = Append(@, m.output)]
  <2>1. \/ page' = [page EXCEPT ![p] = owned] /\ h # 0 /\ run[h].cell # NoCell
        \/ page' = [page EXCEPT ![p] = added] /\ m.cell # NoCell
        \/ page' = [page EXCEPT ![p] = pg]
    BY <1>11 DEF ReceiveOutput
  <2>2. m.cell \in Cells \cup {NoCell} /\ m.output \in Outputs
    BY <1>5, <1>11, MessageRead DEF ReceiveOutput, Receive
  <2>3. h # 0 => h \in Runs
    BY <1>3, HeadTailProperties
  <2> HIDE DEF h
  <2>4. ASSUME h # 0, run[h].cell # NoCell PROVE owned \in Page
    <3>1. h \in Runs /\ run[h].cell \in Cells
      BY <1>1, <2>3, <2>4 DEF RunsFit, Request
    <3>2. mine \in Seq(Outputs)
      BY <1>3, <2>2, <3>1, AppendProperties
    <3>3. ASSUME NEW o \in Seq(Outputs)
          PROVE  [pg EXCEPT !.got[h] = o, !.shown[run[h].cell] = o] \in Page
      BY <1>3, <1>2 DEF Page
    <3> HIDE DEF mine
    <3> QED BY <3>2, <3>3
  <2>5. ASSUME m.cell # NoCell PROVE added \in Page
    BY <1>3, <2>2, <2>5, AppendProperties, <1>2, PageField
  <2> HIDE DEF owned, added
  <2> QED BY <1>1, <1>2, <1>7, <2>1, <2>4, <2>5, PageSet
<1>12. CASE ReceiveResult(p)
  <2> DEFINE pg == [page[p] EXCEPT !.ready = TRUE]
             less == [pg EXCEPT !.handlers = Shifted(@)]
  <2>1. page' = [page EXCEPT ![p] = IF pg.handlers = <<>> THEN pg ELSE Settled(less, Head(pg.handlers))]
    BY <1>12 DEF ReceiveResult
  <2>2. pg \in Page
    BY <1>2, <1>8, PageField
  <2> HIDE DEF pg
  <2>3. pg.handlers \in Seq(Runs)
    BY <2>2, PageRead
  <2>4. CASE pg.handlers # <<>>
    <3>1. Tail(pg.handlers) \in Seq(Runs) /\ Head(pg.handlers) \in Runs
      BY <2>3, <2>4, HeadTailProperties
    <3>2. less = [pg EXCEPT !.handlers = Tail(pg.handlers)]
      BY <2>2 DEF Shifted, Page
    <3>3. less \in Page
      BY <2>2, <3>1, <3>2, PageField
    <3> HIDE DEF less
    <3>4. Settled(less, Head(pg.handlers)) \in Page
      BY <1>1, <3>1, <3>3, SettledType
    <3> QED BY <1>1, <1>7, <2>1, <2>4, <3>4, PageSet
  <2>5. CASE pg.handlers = <<>>
    BY <1>1, <1>7, <2>1, <2>2, <2>5, PageSet
  <2> QED BY <2>4, <2>5
<1> QED BY <1>9, <1>10, <1>11, <1>12

\* Connections and requests keep their types.
LEMMA ConnectsType ==
    ASSUME TypeOK,
           \/ \E p \in Pages : Connect(p) \/ Break(p) \/ SyncOutputs(p) \/ Execute(p)
           \/ \E c \in Cells : AgentRun(c)
    PROVE  TypeOK'
<1>1. PagesFit /\ LinesFit /\ RunsFit /\ ServerFits /\ ChannelsFit /\ KernelFits /\ CountFits
  BY TypeParts
<1>2. 0 \in 0..MaxRuns /\ FALSE \in BOOLEAN /\ TRUE \in BOOLEAN /\ \A r \in Runs : r \in 0..MaxRuns
  BY Numbers
<1>3. ASSUME NEW p \in Pages PROVE page[p] \in Page /\ page[p].waiting \in SUBSET Runs
  BY <1>1, <1>3, PageRead DEF PagesFit
<1>4. ASSUME NEW S, run' = [r \in Runs |-> IF r \in S THEN [run[r] EXCEPT !.stage = "lost"] ELSE run[r]]
      PROVE  RunsFit'
  BY <1>1, <1>4, Stages DEF RunsFit, Request
<1>5. ASSUME NEW p \in Pages, Connect(p) PROVE TypeOK'
  <2>1. /\ link' = [link EXCEPT ![p] = TRUE]
        /\ toServer' = [toServer EXCEPT ![p] = << 0 >>]
        /\ page' = [page EXCEPT ![p].synced = FALSE, ![p].ready = TRUE, ![p].waiting = {}]
        /\ run' = [r \in Runs |-> IF r \in page[p].waiting THEN [run[r] EXCEPT !.stage = "lost"] ELSE run[r]]
        /\ toPage' \in {toPage, [toPage EXCEPT ![p] = Append(@, Dead)]}
        /\ UNCHANGED <<server, channel, kernel, count, dropped>>
    BY <1>5 DEF Connect
  <2>2. << 0 >> \in Seq(0..MaxRuns)
    BY <1>2
  <2>3. LinesFit'
    <3>1. toPage[p] \in Seq(Message) /\ Append(toPage[p], Dead) \in Seq(Message)
      BY <1>1, MessageType, AppendProperties DEF LinesFit
    <3>2. toPage' \in [Pages -> Seq(Message)]
      BY <1>1, <2>1, <3>1 DEF LinesFit
    <3> QED BY <1>1, <2>1, <2>2, <3>2 DEF LinesFit
  <2>4. ASSUME NEW s \in BOOLEAN, NEW b \in BOOLEAN, NEW w \in SUBSET Runs
        PROVE  [page[p] EXCEPT !.synced = s, !.ready = b, !.waiting = w] \in Page
    BY <1>3 DEF Page
  <2>5. [page[p] EXCEPT !.synced = FALSE, !.ready = TRUE, !.waiting = {}] \in Page
    <3>1. {} \in SUBSET Runs
      OBVIOUS
    <3> QED BY <1>2, <2>4, <3>1
  <2>6. page' = [page EXCEPT ![p] = [page[p] EXCEPT !.synced = FALSE, !.ready = TRUE, !.waiting = {}]]
    BY <1>1, <2>1 DEF PagesFit
  <2>7. PagesFit'
    BY <1>1, <2>5, <2>6, PageSet
  <2>8. RunsFit'
    BY <1>4, <2>1
  <2> QED BY <2>1, <2>3, <2>7, <2>8, Kept, Whole
<1>6. ASSUME NEW p \in Pages, Break(p) PROVE TypeOK'
  <2>1. /\ Trouble /\ link' = [link EXCEPT ![p] = FALSE]
        /\ run' = [r \in Runs |-> IF r \in ToSet(toServer[p]) THEN [run[r] EXCEPT !.stage = "lost"] ELSE run[r]]
        /\ toPage' = [toPage EXCEPT ![p] = <<>>] /\ toServer' = [toServer EXCEPT ![p] = <<>>]
        /\ page' = [page EXCEPT ![p].ready = FALSE]
        /\ server' = [server EXCEPT !.subscribed = @ \ {p}]
        /\ dropped' \in {dropped, dropped \cup {p}}
        /\ UNCHANGED <<channel, kernel>>
    BY <1>6 DEF Break
  <2>2. LinesFit'
    BY <1>1, <2>1 DEF LinesFit
  <2>3. [page[p] EXCEPT !.ready = FALSE] \in Page
    BY <1>2, <1>3, PageField
  <2>4. page' = [page EXCEPT ![p] = [page[p] EXCEPT !.ready = FALSE]]
    BY <1>1, <2>1 DEF PagesFit
  <2>5. PagesFit'
    BY <1>1, <2>3, <2>4, PageSet
  <2>6. RunsFit'
    BY <1>4, <2>1
  <2>7. ServerFits'
    BY <1>1, <2>1 DEF ServerFits, Session
  <2>8. CountFits'
    BY <1>1, <2>1, TroubleType DEF CountFits
  <2> QED BY <2>1, <2>2, <2>5, <2>6, <2>7, <2>8, Kept, Whole
<1>7. ASSUME NEW p \in Pages, TakeRequest(p)
      PROVE  /\ Tail(toServer[p]) \in Seq(0..MaxRuns) /\ Head(toServer[p]) \in 0..MaxRuns
             /\ toServer' = [toServer EXCEPT ![p] = Tail(toServer[p])]
  BY <1>1, <1>7, HeadTailProperties DEF LinesFit, TakeRequest
<1>8. ASSUME NEW p \in Pages, SyncOutputs(p) PROVE TypeOK'
  <2>1. /\ TakeRequest(p)
        /\ toPage' = [toPage EXCEPT ![p] = Append(@, [type |-> "sync", cells |-> server.buffer])]
        /\ server' = [server EXCEPT !.subscribed = server.subscribed \cup {p}]
        /\ UNCHANGED <<page, link, run, channel, kernel, count, dropped>>
    BY <1>8 DEF SyncOutputs, Subscribed
  <2>2. [type |-> "sync", cells |-> server.buffer] \in Message
    BY <1>1, MessageType DEF ServerFits, Session
  <2>3. toPage[p] \in Seq(Message)
    BY <1>1 DEF LinesFit
  <2>4. Append(toPage[p], [type |-> "sync", cells |-> server.buffer]) \in Seq(Message)
    BY <2>2, <2>3, AppendProperties
  <2>5. LinesFit'
    BY <1>1, <1>7, <2>1, <2>4 DEF LinesFit
  <2>6. ServerFits'
    BY <1>1, <2>1 DEF ServerFits, Session
  <2> QED BY <2>1, <2>5, <2>6, Kept, Whole
<1>9. ASSUME NEW p \in Pages, Execute(p) PROVE TypeOK'
  <2> DEFINE r == Head(toServer[p])
  <2>1. /\ TakeRequest(p) /\ r # 0
        /\ run' = [run EXCEPT ![r].stage = "queued", ![r].after = server.tail]
        /\ server' = [server EXCEPT !.tail = r]
        /\ UNCHANGED <<page, link, toPage, channel, kernel, count, dropped>>
    BY <1>9 DEF Execute, Predecessor
  <2>2. r \in 0..MaxRuns /\ LinesFit'
    BY <1>1, <1>7, <2>1 DEF LinesFit
  <2> HIDE DEF r
  <2>3. r \in Runs
    BY <2>1, <2>2, Numbers DEF Runs
  <2>4. server.tail \in 0..MaxRuns /\ ServerFits'
    BY <1>1, <2>1, <2>2 DEF ServerFits, Session
  <2>5. RunsFit'
    BY <1>1, <2>1, <2>3, <2>4, Stages, RequestField DEF RunsFit
  <2> QED BY <2>1, <2>2, <2>4, <2>5, Kept, Whole
<1>10. ASSUME NEW c \in Cells, AgentRun(c) PROVE TypeOK'
  <2>1. /\ NewRun(Agent, c, "queued", server.tail)
        /\ server' = [server EXCEPT !.tail = count.runs + 1]
        /\ UNCHANGED <<page, link, toPage, toServer, channel, kernel, dropped>>
    BY <1>10 DEF AgentRun, Predecessor
  <2>2. server.tail \in 0..MaxRuns
    BY <1>1 DEF ServerFits, Session
  <2>3. RunsFit' /\ CountFits' /\ count.runs + 1 \in Runs
    BY <1>1, <2>1, <2>2, Stages, NewRunType
  <2>4. ServerFits'
    BY <1>1, <1>2, <2>1, <2>3 DEF ServerFits, Session
  <2> QED BY <2>1, <2>3, <2>4, Kept, Whole
<1> QED BY <1>5, <1>6, <1>8, <1>9, <1>10

\* The kernel keeps its type when its queue, or what runs have printed, is replaced.
LEMMA KernelSet ==
    ASSUME KernelFits, NEW q \in Seq(Runs), NEW f \in [Runs -> 0..MaxPrinted], NEW l \in [Runs -> 0..MaxPrinted],
           NEW h \in BOOLEAN, NEW u \in SUBSET Runs, \A r \in Runs : l[r] <= f[r],
           kernel' = [kernel EXCEPT !.queue = q, !.printed = f, !.late = l, !.heard = h, !.unheard = u]
    PROVE  KernelFits'
<1>1. kernel'.printed = f /\ kernel'.late = l /\ kernel' \in Process
  BY DEF KernelFits, Process
<1> QED BY <1>1 DEF KernelFits

\* What is read from the kernel
LEMMA KernelRead ==
    ASSUME KernelFits
    PROVE  /\ kernel.queue \in Seq(Runs)
           /\ kernel.printed \in [Runs -> 0..MaxPrinted] /\ kernel.late \in [Runs -> 0..MaxPrinted]
           /\ kernel.heard \in BOOLEAN /\ kernel.unheard \in SUBSET Runs
           /\ \A r \in Runs : kernel.late[r] <= kernel.printed[r]
BY DEF KernelFits, Process

\* An execution that ends
LEMMA EndedType ==
    ASSUME RunsFit, KernelFits, NEW r \in Runs, Ended(r)
    PROVE  RunsFit' /\ KernelFits'
<1>1. 0 \in 0..MaxRuns /\ 0 \in 0..MaxPrinted
  BY Numbers
<1>2. RunsFit'
  BY <1>1, Stages, RequestField DEF Ended, RunsFit
<1>3. kernel' = [kernel EXCEPT !.printed = [kernel.printed EXCEPT ![r] = 0],
                               !.late = [kernel.late EXCEPT ![r] = 0],
                               !.unheard = kernel.unheard \ {r}]
  BY DEF Ended
<1>4. KernelFits'
  <2> DEFINE f == [kernel.printed EXCEPT ![r] = 0]
             l == [kernel.late EXCEPT ![r] = 0]
  <2>1. f \in [Runs -> 0..MaxPrinted] /\ l \in [Runs -> 0..MaxPrinted]
    BY <1>1, KernelRead
  <2>2. \A s \in Runs : l[s] <= f[s]
    BY KernelRead
  <2>3. kernel' = [kernel EXCEPT !.queue = kernel.queue, !.printed = f, !.late = l,
                                 !.heard = kernel.heard, !.unheard = kernel.unheard \ {r}]
    BY <1>3 DEF KernelFits, Process
  <2>4. kernel.unheard \ {r} \in SUBSET Runs
    BY KernelRead
  <2> HIDE DEF f, l
  <2> QED BY <2>1, <2>2, <2>3, <2>4, KernelRead, KernelSet
<1> QED BY <1>2, <1>4

\* What is buffered
LEMMA BufferedType ==
    ASSUME NEW b \in [Cells -> Seq(Outputs)], NEW c \in Cells \cup {NoCell}, NEW o \in Outputs
    PROVE  Buffered(b, c, o) \in [Cells -> Seq(Outputs)]
<1>1. CASE c = NoCell
  BY <1>1 DEF Buffered
<1>2. CASE c # NoCell
  BY <1>2, AppendProperties DEF Buffered
<1> QED BY <1>1, <1>2

\* The chain of a session
LEMMA UnchainedType ==
    ASSUME NEW sv \in Session, NEW r
    PROVE  Unchained(r, sv) \in Session
<1>1. 0 \in 0..MaxRuns
  BY Numbers
<1>2. ASSUME NEW t \in 0..MaxRuns PROVE [sv EXCEPT !.tail = t] \in Session
  BY DEF Session
<1> QED BY <1>1, <1>2 DEF Unchained

\* An execution that fails leaves values of the types.
LEMMA FailedType ==
    ASSUME TypeOK, NEW r \in Runs, NEW sv \in Session, Failed(r, sv),
           UNCHANGED <<page, link, toServer, channel, count, dropped>>
    PROVE  TypeOK'
<1>1. PagesFit /\ LinesFit /\ RunsFit /\ ServerFits /\ ChannelsFit /\ KernelFits /\ CountFits
  BY TypeParts
<1>2. run[r].cell \in Cells \cup {NoCell} /\ <<r, Cut>> \in Outputs
  BY <1>1, Numbers DEF RunsFit, Request, Outputs
<1>3. RunsFit' /\ KernelFits'
  BY <1>1, EndedType DEF Failed
<1>4. LinesFit'
  <2>1. <<OutputOf(run[r].cell, <<r, Cut>>)>> \in Seq(Message) /\ <<ResultOf(r)>> \in Seq(Message)
    BY <1>2, MessageType
  <2>2. toPage' \in [Pages -> Seq(Message)]
    BY <1>1, <2>1, ToldType DEF Failed
  <2> QED BY <1>1, <2>2 DEF LinesFit
<1>5. ServerFits'
  <2> DEFINE un == Unchained(r, sv)
  <2>1. un \in Session
    BY UnchainedType
  <2>2. server' = [un EXCEPT !.buffer = Buffered(un.buffer, run[r].cell, <<r, Cut>>)]
    BY DEF Failed
  <2> HIDE DEF un
  <2>3. ASSUME NEW b \in [Cells -> Seq(Outputs)] PROVE [un EXCEPT !.buffer = b] \in Session
    BY <2>1 DEF Session
  <2>4. un.buffer \in [Cells -> Seq(Outputs)]
    BY <2>1 DEF Session
  <2>5. Buffered(un.buffer, run[r].cell, <<r, Cut>>) \in [Cells -> Seq(Outputs)]
    BY <1>2, <2>4, BufferedType
  <2> QED BY <2>2, <2>3, <2>5 DEF ServerFits
<1> QED BY <1>3, <1>4, <1>5, Kept, Whole

\* Executions keep the types.
LEMMA ExecutesType ==
    ASSUME TypeOK, NEW r \in Runs, Begin(r) \/ Take(r) \/ CutShort(r)
    PROVE  TypeOK'
<1>1. PagesFit /\ LinesFit /\ RunsFit /\ ServerFits /\ ChannelsFit /\ KernelFits /\ CountFits
  BY TypeParts
<1>2. run[r] \in Request /\ run[r].cell \in Cells \cup {NoCell} /\ 0 \in 0..MaxRuns
  BY <1>1, Numbers DEF RunsFit, Request
<1>3. /\ server.status \in {"idle", "busy", "starting", "dead", "gone"} /\ server \in Session
      /\ server.buffer \in [Cells -> Seq(Outputs)]
  BY <1>1 DEF ServerFits, Session
<1>4. ASSUME NEW sv \in Session, NEW s \in {"idle", "busy", "starting", "dead", "gone"}
      PROVE  [sv EXCEPT !.status = s] \in Session
  BY DEF Session
<1>5. ASSUME NEW b \in [Cells -> Seq(Outputs)] PROVE [server EXCEPT !.buffer = b] \in Session
  BY <1>3 DEF Session
<1>6. CASE Begin(r)
  <2> DEFINE cleared == IF run[r].cell = NoCell THEN server
                        ELSE [server EXCEPT !.buffer[run[r].cell] = <<>>]
  <2>1. UNCHANGED <<page, link, toServer, channel, count, dropped>>
    BY <1>6 DEF Begin
  <2>2. \/ /\ server' = [cleared EXCEPT !.status = "busy"]
           /\ run' = [run EXCEPT ![r].stage = "running", ![r].after = 0]
           /\ kernel' = [kernel EXCEPT !.queue = Append(@, r)] /\ UNCHANGED toPage
        \/ Failed(r, cleared)
    BY <1>6 DEF Begin
  <2>3. cleared \in Session
    <3>1. run[r].cell # NoCell => [server.buffer EXCEPT ![run[r].cell] = <<>>] \in [Cells -> Seq(Outputs)]
      BY <1>2, <1>3
    <3>2. run[r].cell # NoCell => [server EXCEPT !.buffer = [server.buffer EXCEPT ![run[r].cell] = <<>>]] \in Session
      BY <1>5, <3>1
    <3> QED BY <1>3, <3>2
  <2> HIDE DEF cleared
  <2>4. CASE Failed(r, cleared)
    BY <2>1, <2>3, <2>4, FailedType
  <2>5. CASE /\ server' = [cleared EXCEPT !.status = "busy"]
             /\ run' = [run EXCEPT ![r].stage = "running", ![r].after = 0]
             /\ kernel' = [kernel EXCEPT !.queue = Append(@, r)] /\ UNCHANGED toPage
    <3>1. ServerFits'
      BY <1>4, <2>3, <2>5 DEF ServerFits
    <3>2. RunsFit'
      BY <1>1, <2>5, <1>2, Stages, RequestField DEF RunsFit
    <3>3. KernelFits'
      BY <1>1, AppendProperties, <2>5 DEF KernelFits, Process
    <3> QED BY <2>1, <2>5, <3>1, <3>2, <3>3, Kept, Whole
  <2> QED BY <2>2, <2>4, <2>5
<1>7. CASE Take(r)
  <2>1. /\ channel' = [channel EXCEPT ![r] = Tail(@)] /\ channel[r] # <<>>
        /\ UNCHANGED <<page, link, toServer, count, dropped>>
    BY <1>7 DEF Take
  <2>2. Head(channel[r]) \in Error..Idle /\ ChannelsFit'
    BY <1>1, <2>1, HeadTailProperties DEF ChannelsFit
  <2>3. CASE Head(channel[r]) = Idle
    <3>1. /\ server' = [Unchained(r, server) EXCEPT !.status = "idle"]
          /\ toPage' = Told(r, <<>>, <<ResultOf(r)>>) /\ Ended(r)
      BY <1>7, <2>3 DEF Take
    <3>2. ServerFits'
      BY <1>3, <1>4, <3>1, UnchainedType DEF ServerFits
    <3>3. LinesFit'
      <4>1. <<>> \in Seq(Message) /\ <<ResultOf(r)>> \in Seq(Message)
        BY MessageType
      <4>2. toPage' \in [Pages -> Seq(Message)]
        BY <1>1, <3>1, <4>1, ToldType
      <4> QED BY <1>1, <2>1, <4>2 DEF LinesFit
    <3>4. RunsFit' /\ KernelFits'
      BY <1>1, <3>1, EndedType
    <3> QED BY <2>1, <2>2, <3>2, <3>3, <3>4, Kept, Whole
  <2>4. CASE Head(channel[r]) # Idle
    <3> DEFINE o == <<r, Head(channel[r])>>
    <3>1. /\ server' = [server EXCEPT !.buffer = Buffered(server.buffer, run[r].cell, o)]
          /\ toPage' = Told(r, <<OutputOf(run[r].cell, o)>>, <<>>) /\ UNCHANGED <<run, kernel>>
      BY <1>7, <2>4 DEF Take
    <3>2. o \in Outputs
      BY <2>2, Numbers DEF Outputs
    <3> HIDE DEF o
    <3>3. ServerFits'
      BY <1>2, <1>3, <1>5, <3>1, <3>2, BufferedType DEF ServerFits
    <3>4. LinesFit'
      <4>1. <<>> \in Seq(Message) /\ <<OutputOf(run[r].cell, o)>> \in Seq(Message)
        BY <1>2, <3>2, MessageType
      <4>2. toPage' \in [Pages -> Seq(Message)]
        BY <1>1, <3>1, <4>1, ToldType
      <4> QED BY <1>1, <2>1, <4>2 DEF LinesFit
    <3> QED BY <2>1, <2>2, <3>1, <3>3, <3>4, Kept, Whole
  <2> QED BY <2>3, <2>4
<1>8. CASE CutShort(r)
  <2> DEFINE sv == IF server.status = "busy" THEN [server EXCEPT !.status = "idle"] ELSE server
  <2>1. sv \in Session
    BY <1>3, <1>4
  <2>2. Failed(r, sv) /\ UNCHANGED <<page, link, toServer, channel, count, dropped>>
    BY <1>8 DEF CutShort
  <2> HIDE DEF sv
  <2> QED BY <2>1, <2>2, FailedType
<1> QED BY <1>6, <1>7, <1>8

\* Restarts and deaths keep the types.
LEMMA RestartsType ==
    ASSUME TypeOK, Restarts
    PROVE  TypeOK'
<1>1. PagesFit /\ LinesFit /\ RunsFit /\ ServerFits /\ ChannelsFit /\ KernelFits /\ CountFits
  BY TypeParts
<1>2. ASSUME NEW s \in {"starting", "gone"}, NEW t \in {"ending", "none"}, server' = Disconnected(s, t)
      PROVE  ServerFits'
  <2>1. NoOutputs \in [Cells -> Seq(Outputs)] /\ 0 \in 0..MaxRuns
    BY Numbers DEF NoOutputs
  <2>2. ASSUME NEW b \in BOOLEAN, NEW e \in 0..MaxRuns, NEW o \in [Cells -> Seq(Outputs)]
        PROVE  [server EXCEPT !.status = s, !.restart = t, !.connected = b, !.tail = e, !.buffer = o] \in Session
    BY <1>1 DEF ServerFits, Session
  <2>3. FALSE \in BOOLEAN
    OBVIOUS
  <2>4. [server EXCEPT !.status = s, !.restart = t, !.connected = FALSE, !.tail = 0,
                       !.buffer = NoOutputs] \in Session
    BY <2>1, <2>2, <2>3
  <2> QED BY <1>2, <2>4 DEF Disconnected, ServerFits
<1>3. ASSUME Closed PROVE RunsFit' /\ ChannelsFit' /\ KernelFits'
  <2>1. RunsFit'
    BY <1>1, <1>3, Stages DEF Closed, RunsFit, Request
  <2>2. ChannelsFit'
    BY <1>3 DEF Closed, ChannelsFit
  <2>3. KernelFits'
    <3>1. kernel' = [kernel EXCEPT !.queue = <<>>, !.printed = kernel.printed, !.late = kernel.late,
                                   !.heard = FALSE, !.unheard = kernel.unheard]
      BY <1>1, <1>3 DEF Closed, KernelFits, Process
    <3>2. <<>> \in Seq(Runs) /\ FALSE \in BOOLEAN
      OBVIOUS
    <3> QED BY <1>1, <3>1, <3>2, KernelRead, KernelSet
  <2> QED BY <2>1, <2>2, <2>3
<1>4. Trouble /\ UNCHANGED dropped => CountFits'
  BY <1>1, TroubleType DEF CountFits
<1>5. CASE Restart
  BY <1>2, <1>3, <1>4, <1>5, Kept, Whole DEF Restart
<1>6. ASSUME NEW t \in {"none", "booting", "stopping"}
      PROVE  /\ \A s \in {"idle", "dead"} : [server EXCEPT !.status = s, !.restart = t] \in Session
             /\ \A b \in BOOLEAN : [server EXCEPT !.restart = t, !.connected = b] \in Session
  BY <1>1 DEF ServerFits, Session
<1>7. CASE RestartGivesUp \/ RestartConnects \/ RestartDone
  <2>1. \/ server' = [server EXCEPT !.status = "dead", !.restart = "none"]
        \/ server' = [server EXCEPT !.restart = "booting", !.connected = TRUE]
        \/ server' = [server EXCEPT !.status = "idle", !.restart = "none"]
    BY <1>7 DEF RestartGivesUp, RestartConnects, RestartDone
  <2>2. server' \in Session
    <3>1. TRUE \in BOOLEAN
      OBVIOUS
    <3> QED BY <1>6, <2>1, <3>1
  <2> QED BY <1>7, <2>2, Kept, Whole DEF RestartGivesUp, RestartConnects, RestartDone, ServerFits
<1>8. CASE RestartFails
  <2>1. server' = [server EXCEPT !.restart = "stopping", !.connected = FALSE]
    BY <1>8 DEF RestartFails
  <2>2. FALSE \in BOOLEAN
    OBVIOUS
  <2>3. ServerFits'
    BY <1>6, <2>1, <2>2 DEF ServerFits
  <2> QED BY <1>3, <1>8, <2>3, Kept, Whole DEF RestartFails
<1>9. CASE RestartEnds
  BY <1>2, <1>9, Kept, Whole DEF RestartEnds
<1>10. CASE Dies
  <2>1. <<>> \in Seq(Message) /\ <<Dead>> \in Seq(Message)
    BY MessageType
  <2>2. toPage' \in [Pages -> Seq(Message)]
    BY <1>1, <1>10, <2>1, ToldType DEF Dies
  <2>3. LinesFit'
    BY <1>1, <1>10, <2>2 DEF Dies, LinesFit
  <2>4. CountFits'
    BY <1>4, <1>10, Kept DEF Dies
  <2> QED BY <1>2, <1>3, <1>10, <2>3, <2>4, Kept, Whole DEF Dies
<1> QED BY <1>5, <1>7, <1>8, <1>9, <1>10 DEF Restarts

\* A channel takes a message.
LEMMA PushedType ==
    ASSUME NEW ch \in Seq(Error..Idle), NEW m \in Error..Idle
    PROVE  Pushed(ch, m) \in Seq(Error..Idle)
<1>1. CASE Len(ch) < MaxChannel
  BY <1>1, AppendProperties DEF Pushed
<1>2. CASE ~(Len(ch) < MaxChannel)
  BY <1>2, Numbers, HeadTailProperties, AppendProperties DEF Pushed
<1> QED BY <1>1, <1>2

\* The kernel keeps the types.
LEMMA KernelType ==
    ASSUME TypeOK, Hears \/ Prints \/ Raises \/ Finishes \/ \E r \in Runs : PrintsLate(r)
    PROVE  TypeOK'
<1>1. PagesFit /\ LinesFit /\ RunsFit /\ ServerFits /\ ChannelsFit /\ KernelFits /\ CountFits
  BY TypeParts
<1>2. UNCHANGED <<page, link, toPage, toServer, run, server, count, dropped>>
  BY DEF Hears, Prints, Raises, Finishes, PrintsLate
<1>3. ASSUME NEW r \in Runs, NEW m \in Error..Idle, channel' = Published(r, m)
      PROVE  ChannelsFit'
  BY <1>1, <1>3, PushedType DEF Published, ChannelsFit
<1>4. ASSUME ChannelsFit', KernelFits' PROVE TypeOK'
  BY <1>2, <1>4, Kept, Whole
<1>5. kernel.queue \in Seq(Runs) /\ kernel \in Process
  BY <1>1 DEF KernelFits, Process
<1>6. kernel.queue # <<>> => Head(kernel.queue) \in Runs /\ Tail(kernel.queue) \in Seq(Runs)
  BY <1>5, HeadTailProperties
<1>7. \A r \in Runs : /\ kernel.printed[r] \in 0..MaxPrinted /\ kernel.late[r] \in 0..MaxPrinted
                      /\ kernel.late[r] <= kernel.printed[r]
  BY <1>1 DEF KernelFits, Process
<1>8. ASSUME NEW r \in Runs, kernel.printed[r] < MaxPrinted
      PROVE  /\ kernel.printed[r] + 1 \in 0..MaxPrinted /\ kernel.printed[r] + 1 \in Error..Idle
             /\ kernel.late[r] + 1 \in 0..MaxPrinted /\ kernel.late[r] + 1 <= kernel.printed[r] + 1
             /\ kernel.late[r] <= kernel.printed[r] + 1
  BY <1>7, <1>8, Numbers
<1>9. ASSUME NEW r \in Runs, NEW n \in 0..MaxPrinted, kernel.late[r] <= n,
             kernel' = [kernel EXCEPT !.printed[r] = n]
      PROVE  KernelFits'
  BY <1>9, <1>1 DEF KernelFits, Process
<1>10. CASE Prints
  <2> DEFINE r == Head(kernel.queue)
  <2>1. /\ kernel.queue # <<>> /\ kernel.printed[r] < MaxPrinted
        /\ kernel' = [kernel EXCEPT !.printed[r] = kernel.printed[r] + 1]
        /\ channel' = Published(r, kernel.printed[r] + 1)
    BY <1>10 DEF Prints
  <2> HIDE DEF r
  <2>2. r \in Runs
    BY <1>6, <2>1 DEF r
  <2> QED BY <1>3, <1>4, <1>8, <1>9, <2>1, <2>2
<1>11. CASE Raises
  <2> DEFINE r == Head(kernel.queue)
  <2>1. /\ kernel.queue # <<>> /\ kernel.printed[r] < MaxPrinted
        /\ kernel' = [kernel EXCEPT !.printed[r] = MaxPrinted]
        /\ channel' = Published(r, Error)
    BY <1>11 DEF Raises
  <2> HIDE DEF r
  <2>2. r \in Runs
    BY <1>6, <2>1 DEF r
  <2>3. MaxPrinted \in 0..MaxPrinted /\ kernel.late[r] <= MaxPrinted /\ Error \in Error..Idle
    BY <1>7, <2>2, Numbers
  <2> QED BY <1>3, <1>4, <1>9, <2>1, <2>2, <2>3
<1>12. CASE Finishes
  <2> DEFINE r == Head(kernel.queue)
  <2>1. /\ kernel.queue # <<>> /\ channel' = Published(r, Idle)
        /\ kernel' = [kernel EXCEPT !.queue = Tail(@), !.unheard = IF kernel.heard THEN @ ELSE @ \cup {r}]
    BY <1>12 DEF Finishes
  <2> HIDE DEF r
  <2>2. r \in Runs /\ Tail(kernel.queue) \in Seq(Runs)
    BY <1>6, <2>1 DEF r
  <2>3. KernelFits'
    <3> DEFINE u == IF kernel.heard THEN kernel.unheard ELSE kernel.unheard \cup {r}
    <3>1. u \in SUBSET Runs
      BY <1>1, <2>2, KernelRead
    <3>2. kernel' = [kernel EXCEPT !.queue = Tail(kernel.queue), !.printed = kernel.printed, !.late = kernel.late,
                                   !.heard = kernel.heard, !.unheard = u]
      BY <1>5, <2>1 DEF Process
    <3> HIDE DEF u
    <3> QED BY <1>1, <2>2, <3>1, <3>2, KernelRead, KernelSet
  <2> QED BY <1>3, <1>4, <2>1, <2>2, <2>3, Numbers
<1>13. ASSUME NEW r \in Runs, PrintsLate(r) PROVE TypeOK'
  <2>1. /\ kernel.printed[r] < MaxPrinted
        /\ kernel' = [kernel EXCEPT !.printed[r] = @ + 1, !.late[r] = @ + 1]
        /\ channel' = Published(r, kernel.printed[r] + 1)
    BY <1>13 DEF PrintsLate
  <2>2. kernel' = [kernel EXCEPT !.printed = [kernel.printed EXCEPT ![r] = kernel.printed[r] + 1],
                                 !.late = [kernel.late EXCEPT ![r] = kernel.late[r] + 1]]
    BY <2>1
  <2>3. KernelFits'
    <3> DEFINE f == [kernel.printed EXCEPT ![r] = kernel.printed[r] + 1]
               l == [kernel.late EXCEPT ![r] = kernel.late[r] + 1]
    <3>1. f \in [Runs -> 0..MaxPrinted] /\ l \in [Runs -> 0..MaxPrinted]
      BY <1>1, <1>8, <2>1, KernelRead
    <3>2. \A s \in Runs : l[s] <= f[s]
      BY <1>1, <1>8, <2>1, KernelRead
    <3>3. kernel' = [kernel EXCEPT !.queue = kernel.queue, !.printed = f, !.late = l, !.heard = kernel.heard,
                                   !.unheard = kernel.unheard]
      BY <1>1, <2>2 DEF KernelFits, Process
    <3> HIDE DEF f, l
    <3> QED BY <1>1, <3>1, <3>2, <3>3, KernelRead, KernelSet
  <2> QED BY <1>3, <1>4, <1>8, <2>1, <2>3
<1>14. CASE Hears
  <2>1. kernel' = [kernel EXCEPT !.heard = TRUE] /\ UNCHANGED channel
    BY <1>14 DEF Hears
  <2>2. \A b \in BOOLEAN : [kernel EXCEPT !.heard = b] \in Process
    BY <1>5 DEF Process
  <2>3. TRUE \in BOOLEAN
    OBVIOUS
  <2>4. kernel' \in Process /\ kernel'.late = kernel.late /\ kernel'.printed = kernel.printed
    BY <1>5, <2>1, <2>2, <2>3 DEF Process
  <2> QED BY <1>1, <1>4, <2>1, <2>4, Kept DEF KernelFits
<1> QED BY <1>10, <1>11, <1>12, <1>13, <1>14

\* Type correctness is inductive.
LEMMA TypeStep == TypeOK /\ [Next]_vars => TypeOK'
<1> SUFFICES ASSUME TypeOK, [Next]_vars PROVE TypeOK'
  OBVIOUS
<1>1. CASE UNCHANGED vars
  BY <1>1, Kept, Whole DEF vars
<1>2. ASSUME NEW p \in Pages,
             \/ \E c \in Cells : QueueExecution(p, c)
             \/ ProcessNext(p) \/ RunHint(p) \/ Interrupt(p)
             \/ \E r \in Runs : WaitOver(p, r) \/ WaitThrows(p, r)
      PROVE  TypeOK'
  BY <1>2, AsksType
<1>3. ASSUME NEW p \in Pages, ReceiveDead(p) \/ ReceiveSync(p) \/ ReceiveOutput(p) \/ ReceiveResult(p)
      PROVE  TypeOK'
  BY <1>3, ReceivesType
<1>4. CASE \/ \E p \in Pages : Connect(p) \/ Break(p) \/ SyncOutputs(p) \/ Execute(p)
           \/ \E c \in Cells : AgentRun(c)
  BY <1>4, ConnectsType
<1>5. ASSUME NEW r \in Runs, Begin(r) \/ Take(r) \/ CutShort(r) PROVE TypeOK'
  BY <1>5, ExecutesType
<1>6. CASE Restarts
  BY <1>6, RestartsType
<1>7. CASE Hears \/ Prints \/ Raises \/ Finishes \/ \E r \in Runs : PrintsLate(r)
  BY <1>7, KernelType
<1> QED BY <1>1, <1>2, <1>3, <1>4, <1>5, <1>6, <1>7 DEF Next, Restarts

\* Every variable keeps its type, however requests, outputs, connections, restarts
\* and deaths of the kernel interleave.
THEOREM TypeCorrect == Spec => []TypeOK
<1>1. Init => TypeOK
  <2> SUFFICES ASSUME Init PROVE TypeOK
    OBVIOUS
  <2>1. /\ 0 \in 0..MaxRuns /\ 0 \in 0..MaxPrinted /\ 0 \in 0..MaxTroubles
        /\ NoOutputs \in [Cells -> Seq(Outputs)] /\ [r \in Runs |-> <<>>] \in [Runs -> Seq(Outputs)]
    BY Numbers DEF NoOutputs
  <2>2. PagesFit
    <3>1. ASSUME NEW b \in BOOLEAN
          PROVE  [queue |-> <<>>, processing |-> b, ready |-> b, waiting |-> {}, synced |-> b,
                  handlers |-> <<>>, got |-> [r \in Runs |-> <<>>], shown |-> NoOutputs] \in Page
      BY <2>1 DEF Page
    <3>2. FALSE \in BOOLEAN
      OBVIOUS
    <3> QED BY <3>1, <3>2 DEF Init, PagesFit
  <2>3. LinesFit
    BY DEF Init, LinesFit
  <2>4. RunsFit
    BY <2>1, Stages DEF Init, RunsFit, Request
  <2>5. ServerFits
    BY <2>1 DEF Init, ServerFits, Session
  <2>6. ChannelsFit
    BY DEF Init, ChannelsFit
  <2>7. KernelFits
    BY <2>1 DEF Init, KernelFits, Process
  <2>8. CountFits
    BY <2>1 DEF Init, CountFits
  <2> QED BY <2>2, <2>3, <2>4, <2>5, <2>6, <2>7, <2>8, TypeParts
<1> QED BY <1>1, TypeStep, PTL DEF Spec

-----------------------------------------------------------------------------
(* The chain of executions *)

\* The executions of a session that have not ended, from the one whose turn it is to
\* the last one: each waits for the one before it.  A restart empties the chain's
\* end, and no execution is taken before the old ones have failed.
Active == {"queued", "running", "cut"}
Quiet(r) == run[r].stage \in {"none", "waiting", "asked", "lost"}
Chain(q) ==
    /\ \A r \in Runs : run[r].stage \in Active <=> \E i \in 1..Len(q) : q[i] = r
    /\ \A i, j \in 1..Len(q) : q[i] = q[j] => i = j
    /\ \A i \in 2..Len(q) : run[q[i]].stage = "queued" /\ run[q[i]].after = q[i - 1]
    /\ q # <<>> /\ run[q[1]].stage = "queued" =>
          run[q[1]].after \in {0} \cup {s \in Runs : run[s].stage = "ended"}
    /\ server.tail # 0 => q # <<>> /\ server.tail = q[Len(q)]
    /\ server.connected /\ q # <<>> => server.tail # 0

\* The first of the chain is the one that runs, was cut or may begin.
LEMMA ChainHead ==
    ASSUME NEW q \in Seq(Runs), Chain(q), NEW r \in Runs,
           run[r].stage \in {"running", "cut"} \/ CanBegin(r)
    PROVE  q # <<>> /\ q[1] = r
<1>1. run[r].stage \in Active
  BY DEF Active, CanBegin
<1>2. PICK i \in 1..Len(q) : q[i] = r
  BY <1>1 DEF Chain
<1>3. ASSUME i # 1 PROVE FALSE
  <2>1. i \in 2..Len(q) /\ i - 1 \in 1..Len(q)
    BY <1>2, <1>3
  <2>2. run[r].stage = "queued" /\ run[r].after = q[i - 1]
    BY <1>2, <2>1 DEF Chain
  <2>3. q[i - 1] \in Runs /\ run[q[i - 1]].stage \in Active
    BY <2>1 DEF Chain
  <2>4. q[i - 1] # 0 /\ run[q[i - 1]].stage # "ended"
    BY <2>3, Numbers DEF Active
  <2> QED BY <2>2, <2>4 DEF CanBegin
<1>4. 1 \in 1..Len(q) /\ q # <<>>
  BY <1>2
<1> QED BY <1>2, <1>3, <1>4

\* When nothing can begin and nothing was cut, the first of the chain runs.
LEMMA ChainCalm ==
    ASSUME NEW q \in Seq(Runs), Chain(q), Calm, q # <<>>
    PROVE  run[q[1]].stage = "running"
<1>1. 1 \in 1..Len(q) /\ q[1] \in Runs
  OBVIOUS
<1>2. run[q[1]].stage \in Active
  BY <1>1 DEF Chain
<1>3. run[q[1]].stage = "queued" => CanBegin(q[1])
  BY <1>1 DEF Chain, CanBegin
<1> QED BY <1>1, <1>2, <1>3 DEF Calm, Active

\* Steps of runs that are not in the chain leave it alone.
LEMMA ChainKept ==
    ASSUME NEW q \in Seq(Runs), Chain(q), server'.tail = server.tail, server'.connected = server.connected,
           \A r \in Runs : run'[r] = run[r] \/ (Quiet(r) /\ Quiet(r)')
    PROVE  Chain(q)'
<1>1. \A r \in Runs : /\ run'[r].stage \in Active <=> run[r].stage \in Active
                      /\ run[r].stage \in Active => run'[r] = run[r]
                      /\ run[r].stage = "ended" => run'[r].stage = "ended"
  BY DEF Quiet, Active
<1>2. \A i \in 1..Len(q) : q[i] \in Runs /\ run[q[i]].stage \in Active /\ run'[q[i]] = run[q[i]]
  BY <1>1 DEF Chain
<1>3. \A i \in 2..Len(q) : run'[q[i]].stage = "queued" /\ run'[q[i]].after = q[i - 1]
  BY <1>2 DEF Chain
<1>4. q # <<>> /\ run'[q[1]].stage = "queued" =>
          run'[q[1]].after \in {0} \cup {s \in Runs : run'[s].stage = "ended"}
  BY <1>1, <1>2 DEF Chain
<1>5. \A r \in Runs : run'[r].stage \in Active <=> \E i \in 1..Len(q) : q[i] = r
  BY <1>1 DEF Chain
<1> QED BY <1>3, <1>4, <1>5 DEF Chain

\* A new execution is chained behind the last one.
LEMMA ChainGrows ==
    ASSUME NEW q \in Seq(Runs), Chain(q), NEW r \in Runs, Quiet(r),
           \A s \in Runs \ {r} : run'[s] = run[s],
           run'[r].stage = "queued", run'[r].after = server.tail,
           server'.tail = r, server.tail = 0 => q = <<>>
    PROVE  Chain(Append(q, r))'
<1> DEFINE n == Append(q, r)
<1>1. /\ n \in Seq(Runs) /\ Len(n) = Len(q) + 1 /\ n # <<>> /\ n[Len(q) + 1] = r
      /\ \A i \in 1..Len(q) : n[i] = q[i]
  BY AppendProperties
<1>2. \A i \in 1..Len(q) : q[i] \in Runs /\ q[i] # r /\ run'[q[i]] = run[q[i]]
  BY DEF Chain, Quiet, Active
<1> HIDE DEF n
<1>3. Len(q) \in Nat
  OBVIOUS
<1>4. \A s \in Runs : run'[s].stage \in Active <=> \E i \in 1..Len(n) : n[i] = s
  <2> SUFFICES ASSUME NEW s \in Runs PROVE run'[s].stage \in Active <=> \E i \in 1..Len(n) : n[i] = s
    OBVIOUS
  <2>1. CASE s = r
    <3>1. Len(n) \in 1..Len(n)
      BY <1>1, <1>3
    <3> QED BY <1>1, <2>1, <3>1 DEF Active
  <2>2. CASE s # r
    BY <2>2, <1>1, <1>3 DEF Chain
  <2> QED BY <2>1, <2>2
<1>5. \A i, j \in 1..Len(n) : n[i] = n[j] => i = j
  <2> SUFFICES ASSUME NEW i \in 1..Len(n), NEW j \in 1..Len(n), n[i] = n[j] PROVE i = j
    OBVIOUS
  <2>1. (i = Len(q) + 1 \/ i \in 1..Len(q)) /\ (j = Len(q) + 1 \/ j \in 1..Len(q))
    BY <1>1, <1>3
  <2>2. CASE i \in 1..Len(q) /\ j \in 1..Len(q)
    BY <1>1, <2>2 DEF Chain
  <2> QED BY <1>1, <1>2, <2>1, <2>2
<1>6. \A i \in 2..Len(n) : run'[n[i]].stage = "queued" /\ run'[n[i]].after = n[i - 1]
  <2> SUFFICES ASSUME NEW i \in 2..Len(n) PROVE run'[n[i]].stage = "queued" /\ run'[n[i]].after = n[i - 1]
    OBVIOUS
  <2>1. CASE i = Len(q) + 1
    BY <1>3, <2>1, <1>1 DEF Chain
  <2>2. CASE i # Len(q) + 1
    <3>1. i \in 2..Len(q) /\ i \in 1..Len(q) /\ i - 1 \in 1..Len(q)
      BY <1>1, <1>3, <2>2
    <3>2. run[q[i]].stage = "queued" /\ run[q[i]].after = q[i - 1]
      BY <3>1 DEF Chain
    <3> QED BY <1>1, <1>2, <3>1, <3>2
  <2> QED BY <2>1, <2>2
<1>7. n # <<>> /\ run'[n[1]].stage = "queued" =>
          run'[n[1]].after \in {0} \cup {s \in Runs : run'[s].stage = "ended"}
  <2>1. CASE q = <<>>
    BY <1>1, <2>1 DEF Chain
  <2>2. CASE q # <<>>
    <3>1. 1 \in 1..Len(q)
      BY <2>2
    <3>2. n[1] = q[1] /\ run'[q[1]] = run[q[1]]
      BY <1>1, <1>2, <3>1
    <3>3. \A s \in Runs : run[s].stage = "ended" => run'[s].stage = "ended"
      BY DEF Quiet
    <3> QED BY <2>2, <3>2, <3>3 DEF Chain
  <2> QED BY <2>1, <2>2
<1>8. server'.tail # 0 /\ server'.tail = n[Len(n)]
  BY <1>1, Numbers
<1>9. Chain(n)'
  BY <1>1, <1>4, <1>5, <1>6, <1>7, <1>8 DEF Chain
<1> QED BY <1>9 DEF n

\* The first of the chain begins.
LEMMA ChainBegins ==
    ASSUME NEW q \in Seq(Runs), Chain(q), q # <<>>,
           \A s \in Runs \ {q[1]} : run'[s] = run[s],
           run'[q[1]].stage = "running", run[q[1]].stage = "queued",
           server'.tail = server.tail, server'.connected = server.connected
    PROVE  Chain(q)'
<1>1. 1 \in 1..Len(q) /\ q[1] \in Runs /\ \A i \in 1..Len(q) : q[i] \in Runs
  OBVIOUS
<1>2. \A s \in Runs : run'[s].stage \in Active <=> \E i \in 1..Len(q) : q[i] = s
  BY <1>1 DEF Chain, Active
<1>3. \A i \in 2..Len(q) : q[i] # q[1]
  BY <1>1 DEF Chain
<1>4. \A i \in 2..Len(q) : run'[q[i]] = run[q[i]]
  BY <1>1, <1>3
<1>5. \A i \in 2..Len(q) : run'[q[i]].stage = "queued" /\ run'[q[i]].after = q[i - 1]
  BY <1>4 DEF Chain
<1> QED BY <1>2, <1>5 DEF Chain

\* The first of the chain ends, and the next one may begin.
LEMMA ChainShrinks ==
    ASSUME NEW q \in Seq(Runs), Chain(q), q # <<>>,
           \A s \in Runs \ {q[1]} : run'[s] = run[s], run'[q[1]].stage = "ended",
           server'.tail = (IF server.tail = q[1] THEN 0 ELSE server.tail),
           server'.connected = server.connected
    PROVE  Chain(Tail(q))'
<1> DEFINE n == Tail(q)
<1>1. n \in Seq(Runs) /\ Len(n) = Len(q) - 1 /\ \A i \in 1..Len(n) : n[i] = q[i + 1]
  BY HeadTailProperties
<1> HIDE DEF n
<1>2. Len(q) \in Nat \ {0} /\ 1 \in 1..Len(q) /\ q[1] \in Runs
  OBVIOUS
<1>3. \A i \in 2..Len(q) : q[i] \in Runs /\ q[i] # q[1]
  BY <1>2 DEF Chain
<1>4. \A i \in 1..Len(n) : i + 1 \in 2..Len(q)
  BY <1>1, <1>2
<1>5. \A i \in 1..Len(n) : n[i] # q[1] /\ run'[n[i]] = run[n[i]]
  BY <1>1, <1>3, <1>4
<1>6. \A s \in Runs : run'[s].stage \in Active <=> \E i \in 1..Len(n) : n[i] = s
  <2> SUFFICES ASSUME NEW s \in Runs PROVE run'[s].stage \in Active <=> \E i \in 1..Len(n) : n[i] = s
    OBVIOUS
  <2>1. CASE s = q[1]
    BY <1>5, <2>1 DEF Active
  <2>2. CASE s # q[1]
    <3>1. run'[s].stage \in Active <=> \E i \in 1..Len(q) : q[i] = s
      BY <2>2 DEF Chain
    <3>2. ASSUME NEW i \in 1..Len(q), q[i] = s PROVE \E j \in 1..Len(n) : n[j] = s
      <4>1. i # 1 /\ i - 1 \in 1..Len(n) /\ (i - 1) + 1 = i
        BY <1>1, <1>2, <2>2, <3>2
      <4>2. n[i - 1] = s
        BY <1>1, <3>2, <4>1
      <4> QED BY <4>1, <4>2
    <3>3. ASSUME NEW j \in 1..Len(n), n[j] = s PROVE \E i \in 1..Len(q) : q[i] = s
      BY <1>1, <1>2, <1>4, <3>3
    <3> QED BY <3>1, <3>2, <3>3
  <2> QED BY <2>1, <2>2
<1>7. \A i, j \in 1..Len(n) : n[i] = n[j] => i = j
  <2> SUFFICES ASSUME NEW i \in 1..Len(n), NEW j \in 1..Len(n), n[i] = n[j] PROVE i = j
    OBVIOUS
  <2>1. i + 1 \in 1..Len(q) /\ j + 1 \in 1..Len(q) /\ q[i + 1] = q[j + 1]
    BY <1>1, <1>2, <1>4
  <2>2. i + 1 = j + 1
    BY <2>1 DEF Chain
  <2> QED BY <2>2
<1>8. \A i \in 2..Len(n) : run'[n[i]].stage = "queued" /\ run'[n[i]].after = n[i - 1]
  <2> SUFFICES ASSUME NEW i \in 2..Len(n) PROVE run'[n[i]].stage = "queued" /\ run'[n[i]].after = n[i - 1]
    OBVIOUS
  <2>1. i \in 1..Len(n) /\ i - 1 \in 1..Len(n) /\ i + 1 \in 2..Len(q) /\ (i + 1) - 1 = i /\ (i - 1) + 1 = i
    BY <1>1, <1>2, <1>4
  <2>2. run[q[i + 1]].stage = "queued" /\ run[q[i + 1]].after = q[i]
    BY <2>1 DEF Chain
  <2>3. n[i] = q[i + 1] /\ n[i - 1] = q[i]
    BY <1>1, <2>1
  <2> QED BY <1>5, <2>1, <2>2, <2>3
<1>9. ASSUME n # <<>>
      PROVE  run'[n[1]].after \in {0} \cup {s \in Runs : run'[s].stage = "ended"}
  BY <1>1, <1>2, <1>9, <1>5 DEF Chain
<1>10. server.tail # 0 => server.tail = q[Len(q)]
  BY DEF Chain
<1>11. n = <<>> <=> Len(q) = 1
  BY <1>1, <1>2
<1>12. n # <<>> => n[Len(n)] = q[Len(q)] /\ Len(n) \in 1..Len(n)
  <2> SUFFICES ASSUME n # <<>> PROVE n[Len(n)] = q[Len(q)] /\ Len(n) \in 1..Len(n)
    OBVIOUS
  <2>1. Len(n) \in 1..Len(n) /\ Len(n) + 1 = Len(q)
    BY <1>1, <1>2
  <2> QED BY <1>1, <2>1
<1>13. n # <<>> => q[Len(q)] # q[1]
  BY <1>1, <1>2, <1>3
<1>14. server'.tail # 0 => n # <<>> /\ server'.tail = n[Len(n)]
  BY <1>2, <1>10, <1>11, <1>12
<1>15. server'.connected /\ n # <<>> => server'.tail # 0
  BY <1>10, <1>13 DEF Chain
<1>16. Chain(n)'
  BY <1>6, <1>7, <1>8, <1>9, <1>14, <1>15 DEF Chain
<1> QED BY <1>16 DEF n

\* A restart, a death or a failed restart leaves the chain, cut and maybe without its
\* end.
LEMMA ChainCut ==
    ASSUME NEW q \in Seq(Runs), Chain(q), server'.tail \in {0, server.tail}, server'.connected = FALSE,
           \A r \in Runs : /\ run'[r].after = run[r].after
                           /\ \/ run'[r].stage = run[r].stage
                              \/ run[r].stage = "running" /\ run'[r].stage = "cut"
    PROVE  Chain(q)'
<1>1. \A r \in Runs : /\ run'[r].stage \in Active <=> run[r].stage \in Active
                      /\ run'[r].stage = "queued" <=> run[r].stage = "queued"
                      /\ run'[r].stage = "ended" <=> run[r].stage = "ended"
  BY DEF Active
<1>2. \A i \in 1..Len(q) : q[i] \in Runs
  OBVIOUS
<1>3. \A i \in 2..Len(q) : run'[q[i]].stage = "queued" /\ run'[q[i]].after = q[i - 1]
  BY <1>1, <1>2 DEF Chain
<1>4. q # <<>> /\ run'[q[1]].stage = "queued" =>
          run'[q[1]].after \in {0} \cup {s \in Runs : run'[s].stage = "ended"}
  BY <1>1, <1>2 DEF Chain
<1>5. \A r \in Runs : run'[r].stage \in Active <=> \E i \in 1..Len(q) : q[i] = r
  BY <1>1 DEF Chain
<1> QED BY <1>3, <1>4, <1>5 DEF Chain

-----------------------------------------------------------------------------
(* Requests that are on their way *)

\* A request on its way to the server has been asked by the page that sends it, once;
\* what waits for a synchronization has not been asked yet; numbers are not reused.
Asks(at, p, r) == at[r].stage = "asked" /\ at[r].by = p
Waits(p, r) == run[r].stage = "waiting" /\ run[r].by = p
Requests ==
    /\ \A p \in Pages : \A i \in 1..Len(toServer[p]) : toServer[p][i] # 0 => Asks(run, p, toServer[p][i])
    /\ \A p \in Pages : \A i, j \in 1..Len(toServer[p]) :
         toServer[p][i] # 0 /\ toServer[p][i] = toServer[p][j] => i = j
    /\ \A p \in Pages : \A r \in page[p].waiting : Waits(p, r)
    /\ \A r \in Runs : r > count.runs => run[r].stage = "none"

\* Steps that send and take no request, and leave those that are asked or wait alone
LEMMA RequestsKept ==
    ASSUME TypeOK, Requests, UNCHANGED toServer, count'.runs = count.runs,
           \A p \in Pages : page'[p].waiting \subseteq page[p].waiting,
           \A r \in Runs : run[r].stage \in {"none", "waiting", "asked"} =>
             \/ run'[r].stage = run[r].stage /\ run'[r].by = run[r].by
             \/ run[r].stage = "waiting" /\ \A p \in Pages : r \notin page'[p].waiting
    PROVE  Requests'
<1>1. /\ \A p \in Pages : toServer[p] \in Seq(0..MaxRuns) /\ page[p].waiting \in SUBSET Runs
      /\ count.runs \in Nat
  BY TypeParts, PageRead, Numbers DEF LinesFit, PagesFit, CountFits
<1>2. \A p \in Pages : \A i \in 1..Len(toServer[p]) : toServer[p][i] # 0 => toServer[p][i] \in Runs
  BY <1>1, ElementOfSeq, Numbers DEF Runs
<1>3. \A p \in Pages : \A i \in 1..Len(toServer[p]) : toServer[p][i] # 0 => Asks(run', p, toServer[p][i])
  BY <1>2 DEF Requests, Asks
<1>4. \A p \in Pages : \A r \in page'[p].waiting : Waits(p, r)'
  BY <1>1 DEF Requests, Waits
<1>5. \A r \in Runs : r > count.runs => run'[r].stage = "none"
  BY DEF Requests
<1> QED BY <1>3, <1>4, <1>5 DEF Requests

\* A page sends a request.
LEMMA RequestSent ==
    ASSUME TypeOK, Requests, NEW p \in Pages, NEW r \in Runs,
           toServer' = [toServer EXCEPT ![p] = Append(@, r)],
           run[r].stage # "asked", run'[r].stage = "asked", run'[r].by = p,
           \A s \in Runs \ {r} : run'[s] = run[s],
           \A o \in Pages : page'[o].waiting \subseteq page[o].waiting \ {r},
           count'.runs \in Nat, count'.runs >= count.runs, r <= count'.runs
    PROVE  Requests'
<1>1. /\ \A o \in Pages : toServer[o] \in Seq(0..MaxRuns) /\ page[o].waiting \in SUBSET Runs
      /\ toServer \in [Pages -> Seq(0..MaxRuns)]
      /\ count.runs \in Nat /\ r \in Nat /\ r # 0 /\ Runs \subseteq Nat /\ r \in 0..MaxRuns
  BY TypeParts, PageRead, Numbers DEF LinesFit, PagesFit, CountFits
<1>2. \A o \in Pages : \A i \in 1..Len(toServer[o]) :
         toServer[o][i] # 0 => toServer[o][i] \in Runs \ {r} /\ Asks(run', o, toServer[o][i])
  <2> SUFFICES ASSUME NEW o \in Pages, NEW i \in 1..Len(toServer[o]), toServer[o][i] # 0
               PROVE  toServer[o][i] \in Runs \ {r} /\ Asks(run', o, toServer[o][i])
    OBVIOUS
  <2>1. toServer[o][i] \in Runs
    <3>1. toServer[o][i] \in 0..MaxRuns
      BY <1>1, ElementOfSeq
    <3> QED BY <3>1, Numbers DEF Runs
  <2>2. Asks(run, o, toServer[o][i])
    BY DEF Requests
  <2> QED BY <2>1, <2>2 DEF Asks
<1> DEFINE n == Append(toServer[p], r)
<1>3. /\ Len(n) = Len(toServer[p]) + 1 /\ n[Len(toServer[p]) + 1] = r
      /\ \A i \in 1..Len(toServer[p]) : n[i] = toServer[p][i]
  BY <1>1, AppendProperties
<1>4. toServer'[p] = n /\ \A o \in Pages \ {p} : toServer'[o] = toServer[o]
  BY <1>1
<1> HIDE DEF n
<1>5. \A i \in 1..Len(n) : i = Len(toServer[p]) + 1 \/ i \in 1..Len(toServer[p])
  <2>1. Len(toServer[p]) \in Nat
    BY <1>1
  <2> QED BY <1>3, <2>1
<1>6. Asks(run', p, r)
  BY DEF Asks
<1>7. \A o \in Pages : \A i \in 1..Len(toServer'[o]) : toServer'[o][i] # 0 => Asks(run', o, toServer'[o][i])
  <2> SUFFICES ASSUME NEW o \in Pages, NEW i \in 1..Len(toServer'[o]), toServer'[o][i] # 0
               PROVE  Asks(run', o, toServer'[o][i])
    OBVIOUS
  <2>1. CASE o # p
    BY <1>2, <1>4, <2>1
  <2>2. CASE o = p
    BY <1>4, <2>2, <1>2, <1>3, <1>5, <1>6
  <2> QED BY <2>1, <2>2
<1>8. \A o \in Pages : \A i, j \in 1..Len(toServer'[o]) :
         toServer'[o][i] # 0 /\ toServer'[o][i] = toServer'[o][j] => i = j
  <2> SUFFICES ASSUME NEW o \in Pages, NEW i \in 1..Len(toServer'[o]), NEW j \in 1..Len(toServer'[o]),
                      toServer'[o][i] # 0, toServer'[o][i] = toServer'[o][j]
               PROVE  i = j
    OBVIOUS
  <2>1. CASE o # p
    BY <1>4, <2>1 DEF Requests
  <2>2. CASE o = p
    BY <1>4, <2>2, <1>3, <1>2, <1>5 DEF Requests
  <2> QED BY <2>1, <2>2
<1>9. \A o \in Pages : \A s \in page'[o].waiting : Waits(o, s)'
  <2> SUFFICES ASSUME NEW o \in Pages, NEW s \in page'[o].waiting PROVE Waits(o, s)'
    OBVIOUS
  <2>1. s \in page[o].waiting /\ s # r /\ s \in Runs
    BY <1>1
  <2>2. Waits(o, s) /\ run'[s] = run[s]
    BY <2>1 DEF Requests
  <2> QED BY <2>2 DEF Waits
<1>10. \A s \in Runs : s > count'.runs => run'[s].stage = "none"
  <2> SUFFICES ASSUME NEW s \in Runs, s > count'.runs PROVE run'[s].stage = "none"
    OBVIOUS
  <2>1. s # r /\ s > count.runs
    BY <1>1
  <2> QED BY <2>1 DEF Requests
<1> QED BY <1>7, <1>8, <1>9, <1>10 DEF Requests

\* The server takes a page's first request.
LEMMA RequestTaken ==
    ASSUME TypeOK, Requests, NEW p \in Pages, TakeRequest(p),
           \A r \in Runs : run'[r] = run[r] \/ r = Head(toServer[p]),
           UNCHANGED <<page, count>>
    PROVE  Requests'
<1>1. /\ \A o \in Pages : toServer[o] \in Seq(0..MaxRuns) /\ page[o].waiting \in SUBSET Runs
      /\ toServer \in [Pages -> Seq(0..MaxRuns)]
      /\ count.runs \in Nat /\ Runs \subseteq Nat
  BY TypeParts, PageRead, Numbers DEF LinesFit, PagesFit, CountFits
<1>2. \A o \in Pages : \A i \in 1..Len(toServer[o]) :
         toServer[o][i] # 0 => toServer[o][i] \in Runs /\ Asks(run, o, toServer[o][i])
  BY <1>1, ElementOfSeq, Numbers DEF Runs, Requests
<1> DEFINE n == Tail(toServer[p])
           h == Head(toServer[p])
<1>3. /\ Len(n) = Len(toServer[p]) - 1 /\ \A i \in 1..Len(n) : n[i] = toServer[p][i + 1]
      /\ 1 \in 1..Len(toServer[p]) /\ h = toServer[p][1] /\ Len(toServer[p]) \in Nat
  <2>1. toServer[p] # <<>>
    BY DEF TakeRequest
  <2> QED BY <1>1, <2>1, HeadTailProperties
<1>4. toServer'[p] = n /\ \A o \in Pages \ {p} : toServer'[o] = toServer[o]
  BY <1>1 DEF TakeRequest
<1> HIDE DEF n, h
<1>5. \A i \in 1..Len(n) : i + 1 \in 1..Len(toServer[p]) /\ i + 1 # 1
  BY <1>3
<1>6. \A r \in Runs : run'[r] = run[r] \/ r = h
  BY DEF h
<1>7. \A o \in Pages : \A i \in 1..Len(toServer'[o]) : toServer'[o][i] # 0 => Asks(run', o, toServer'[o][i])
  <2> SUFFICES ASSUME NEW o \in Pages, NEW i \in 1..Len(toServer'[o]), toServer'[o][i] # 0
               PROVE  Asks(run', o, toServer'[o][i])
    OBVIOUS
  <2>1. CASE o # p
    <3> DEFINE r == toServer[o][i]
    <3>1. toServer'[o][i] = r /\ i \in 1..Len(toServer[o])
      BY <1>4, <2>1
    <3>2. r \in Runs /\ Asks(run, o, r)
      BY <1>2, <3>1
    <3>3. r # h
      BY <1>2, <1>3, <3>2, Numbers, <2>1 DEF Asks
    <3> QED BY <1>6, <3>1, <3>2, <3>3 DEF Asks
  <2>2. CASE o = p
    <3> DEFINE r == toServer[p][i + 1]
    <3>1. toServer'[o][i] = r /\ i + 1 \in 1..Len(toServer[p]) /\ i + 1 # 1
      BY <1>3, <1>4, <1>5, <2>2
    <3>2. r \in Runs /\ Asks(run, p, r)
      BY <1>2, <3>1
    <3>3. r # h
      BY <1>3, <3>1 DEF Requests
    <3> QED BY <1>6, <2>2, <3>1, <3>2, <3>3 DEF Asks
  <2> QED BY <2>1, <2>2
<1>8. \A o \in Pages : \A i, j \in 1..Len(toServer'[o]) :
         toServer'[o][i] # 0 /\ toServer'[o][i] = toServer'[o][j] => i = j
  <2> SUFFICES ASSUME NEW o \in Pages, NEW i \in 1..Len(toServer'[o]), NEW j \in 1..Len(toServer'[o]),
                      toServer'[o][i] # 0, toServer'[o][i] = toServer'[o][j]
               PROVE  i = j
    OBVIOUS
  <2>1. CASE o # p
    BY <1>4, <2>1 DEF Requests
  <2>2. CASE o = p
    <3>1. /\ i + 1 \in 1..Len(toServer[p]) /\ j + 1 \in 1..Len(toServer[p])
          /\ toServer[p][i + 1] # 0 /\ toServer[p][i + 1] = toServer[p][j + 1]
      BY <1>3, <1>4, <1>5, <2>2
    <3>2. i + 1 = j + 1
      BY <3>1 DEF Requests
    <3> QED BY <3>2
  <2> QED BY <2>1, <2>2
<1>9. \A r \in Runs : run[r].stage # "asked" => run'[r] = run[r]
  <2>1. h # 0 => Asks(run, p, h)
    BY <1>2, <1>3
  <2> QED BY <1>6, <2>1, Numbers DEF Asks
<1>10. \A o \in Pages : \A s \in page'[o].waiting : Waits(o, s)'
  <2> SUFFICES ASSUME NEW o \in Pages, NEW s \in page'[o].waiting PROVE Waits(o, s)'
    OBVIOUS
  <2>1. s \in page[o].waiting /\ s \in Runs
    BY <1>1
  <2>2. Waits(o, s)
    BY <2>1 DEF Requests
  <2>3. run'[s] = run[s]
    BY <1>9, <2>1, <2>2 DEF Waits
  <2> QED BY <2>2, <2>3 DEF Waits
<1>11. \A s \in Runs : s > count'.runs => run'[s].stage = "none"
  BY <1>9 DEF Requests
<1> QED BY <1>7, <1>8, <1>10, <1>11 DEF Requests

-----------------------------------------------------------------------------
(* The inductive invariant *)

Chained == \E q \in Seq(Runs) : Chain(q)

\* A session is connected while it is idle or busy and from a restart's new process on.
Attached(sv) ==
    sv.connected <=> \/ sv.restart = "booting"
                     \/ sv.restart = "none" /\ sv.status \in {"idle", "busy"}
\* Only a session that is connected runs code; only one that is not has cut code off.
Connected ==
    /\ Attached(server)
    /\ \A r \in Runs : run[r].stage = "cut" => ~server.connected
    /\ \A r \in Runs : run[r].stage = "running" => server.connected

\* The kernel has at most the request of the execution that runs, and has not sent
\* its end; an execution that has not begun has no messages.
AtKernel ==
    /\ \/ kernel.queue = <<>>
       \/ \E r \in Runs : /\ kernel.queue = <<r>> /\ run[r].stage = "running"
                          /\ \A i \in 1..Len(channel[r]) : channel[r][i] # Idle
    /\ \A r \in Runs : Quiet(r) \/ run[r].stage = "queued" => channel[r] = <<>>

\* Behind the end of an execution there are no more messages in its channel than
\* threads of its code have printed since, unless the end came before the iopub socket.
EndAhead ==
    \A r \in Runs : run[r].stage = "running" =>
      \/ kernel.queue = <<r>>
      \/ kernel.late[r] >= MaxChannel
      \/ r \in kernel.unheard
      \/ \E i \in 1..Len(channel[r]) : channel[r][i] = Idle /\ Len(channel[r]) - i <= kernel.late[r]

\* Executions take turns at the kernel.
InTurn == Chained /\ Connected /\ AtKernel /\ EndAhead
IInv == Requests /\ InTurn

\* Two executions that run or were cut are one.
LEMMA OneHead ==
    ASSUME Chained, NEW r \in Runs, NEW s \in Runs,
           run[r].stage \in {"running", "cut"} \/ CanBegin(r),
           run[s].stage \in {"running", "cut"} \/ CanBegin(s)
    PROVE  r = s
BY ChainHead DEF Chained

\* The request that the kernel has is that of an execution that runs.
LEMMA KernelHas ==
    ASSUME AtKernel, kernel.queue # <<>>
    PROVE  /\ Head(kernel.queue) \in Runs /\ kernel.queue = <<Head(kernel.queue)>>
           /\ run[Head(kernel.queue)].stage = "running"
           /\ \A i \in 1..Len(channel[Head(kernel.queue)]) : channel[Head(kernel.queue)][i] # Idle
           /\ Tail(kernel.queue) = <<>>
<1>1. PICK r \in Runs : /\ kernel.queue = <<r>> /\ run[r].stage = "running"
                         /\ \A i \in 1..Len(channel[r]) : channel[r][i] # Idle
  BY DEF AtKernel
<1>2. Head(kernel.queue) = r /\ Tail(kernel.queue) = <<>>
  BY <1>1
<1> QED BY <1>1, <1>2

\* Steps of runs that the session does not know leave the session alone.
Aside == /\ \A r \in Runs : run'[r] = run[r] \/ (Quiet(r) /\ Quiet(r)')
         /\ server'.tail = server.tail /\ server'.connected = server.connected
         /\ server'.status = server.status /\ server'.restart = server.restart /\ UNCHANGED <<channel, kernel>>

\* They keep the invariant of the session.
LEMMA AsideStep ==
    ASSUME InTurn, Aside
    PROVE  InTurn'
<1>1. Chained'
  <2>1. PICK q \in Seq(Runs) : Chain(q)
    BY DEF InTurn, Chained
  <2>2. Chain(q)'
    BY <2>1, ChainKept DEF Aside
  <2> QED BY <2>2 DEF Chained
<1>2. \A r \in Runs : /\ run'[r].stage = "running" <=> run[r].stage = "running"
                      /\ run'[r].stage = "cut" <=> run[r].stage = "cut"
                      /\ run'[r].stage = "queued" <=> run[r].stage = "queued"
                      /\ Quiet(r)' <=> Quiet(r)
  BY DEF Aside, Quiet
<1>3. Connected'
  BY <1>2 DEF InTurn, Connected, Attached, Aside
<1>4. AtKernel'
  BY <1>2 DEF InTurn, AtKernel, Aside
<1>5. EndAhead'
  BY <1>2 DEF InTurn, EndAhead, Aside
<1> QED BY <1>1, <1>3, <1>4, <1>5 DEF InTurn

\* The turn of the first execution ends, or it begins: nothing else runs.
LEMMA NothingElseRuns ==
    ASSUME InTurn, NEW r \in Runs, run[r].stage \in {"running", "cut"} \/ CanBegin(r)
    PROVE  /\ \A s \in Runs \ {r} : run[s].stage # "running"
           /\ kernel.queue # <<>> => kernel.queue = <<r>> /\ run[r].stage = "running"
<1>1. \A s \in Runs \ {r} : run[s].stage # "running"
  BY OneHead DEF InTurn
<1>2. kernel.queue # <<>> => kernel.queue = <<r>> /\ run[r].stage = "running"
  BY <1>1, KernelHas DEF InTurn
<1> QED BY <1>1, <1>2

\* An execution ends whose turn it is and which the kernel does not have any more.
LEMMA EndStep ==
    ASSUME TypeOK, InTurn, NEW r \in Runs, run[r].stage \in {"running", "cut"} \/ CanBegin(r),
           kernel.queue = <<>>, Ended(r),
           server'.tail = (IF server.tail = r THEN 0 ELSE server.tail),
           server'.connected = server.connected,
           Attached(server'),
           \A s \in Runs \ {r} : channel'[s] = channel[s]
    PROVE  InTurn'
<1>1. /\ run'[r].stage = "ended" /\ \A s \in Runs \ {r} : run'[s] = run[s]
      /\ kernel'.queue = <<>>
  BY TypeParts DEF RunsFit, Request, Ended, KernelFits, Process
<1>2. \A s \in Runs \ {r} : run[s].stage # "running"
  BY NothingElseRuns
<1>3. Chained'
  <2>1. PICK q \in Seq(Runs) : Chain(q)
    BY DEF InTurn, Chained
  <2>2. q # <<>> /\ q[1] = r
    BY <2>1, ChainHead
  <2>3. Chain(Tail(q))'
    BY <1>1, <2>1, <2>2, ChainShrinks
  <2>4. Tail(q) \in Seq(Runs)
    BY <2>2, HeadTailProperties
  <2> QED BY <2>3, <2>4 DEF Chained
<1>4. Connected'
  BY <1>1 DEF InTurn, Connected, Attached
<1>5. AtKernel'
  BY <1>1 DEF InTurn, AtKernel, Quiet
<1>6. EndAhead'
  BY <1>1, <1>2 DEF EndAhead
<1> QED BY <1>3, <1>4, <1>5, <1>6 DEF InTurn

\* An execution fails.
LEMMA FailedStep ==
    ASSUME TypeOK, InTurn, NEW r \in Runs, run[r].stage = "cut" \/ CanBegin(r),
           ~server.connected, NEW sv \in Session, sv.tail = server.tail,
           sv.connected = server.connected, sv.restart = server.restart,
           sv.status = server.status \/ (server.status = "busy" /\ sv.status = "idle"),
           Failed(r, sv), UNCHANGED channel
    PROVE  InTurn'
<1>1. kernel.queue = <<>>
  <2>1. run[r].stage # "running"
    BY DEF CanBegin
  <2> QED BY <2>1, NothingElseRuns
<1>2. /\ server'.tail = (IF server.tail = r THEN 0 ELSE server.tail)
      /\ server'.connected = server.connected /\ server'.status = sv.status /\ server'.restart = server.restart
  BY UnchainedType DEF Failed, Unchained, Session
<1>3. Attached(server')
  BY <1>2 DEF InTurn, Connected, Attached
<1> QED BY <1>1, <1>2, <1>3, EndStep DEF Failed

\* The next execution begins.
LEMMA BeginStep ==
    ASSUME TypeOK, InTurn, NEW r \in Runs, Begin(r)
    PROVE  InTurn'
<1> DEFINE cleared == IF run[r].cell = NoCell THEN server
                      ELSE [server EXCEPT !.buffer[run[r].cell] = <<>>]
<1>1. RunsFit /\ ServerFits /\ KernelFits
  BY TypeParts
<1>2. CanBegin(r) /\ UNCHANGED channel
  BY DEF Begin
<1>3. \/ /\ server.connected
         /\ server' = [cleared EXCEPT !.status = "busy"]
         /\ run' = [run EXCEPT ![r].stage = "running", ![r].after = 0]
         /\ kernel' = [kernel EXCEPT !.queue = Append(@, r)]
      \/ ~server.connected /\ Failed(r, cleared)
  BY DEF Begin
<1>4. /\ cleared \in Session /\ cleared.tail = server.tail /\ cleared.connected = server.connected
      /\ cleared.status = server.status /\ cleared.restart = server.restart
  <2>1. CASE run[r].cell = NoCell
    BY <1>1, <2>1 DEF ServerFits
  <2>2. CASE run[r].cell # NoCell
    <3>1. run[r].cell \in Cells /\ server \in Session
      BY <1>1, <2>2 DEF RunsFit, Request, ServerFits
    <3>2. [server.buffer EXCEPT ![run[r].cell] = <<>>] \in [Cells -> Seq(Outputs)]
      BY <3>1 DEF Session
    <3>3. \A b \in [Cells -> Seq(Outputs)] :
            /\ [server EXCEPT !.buffer = b] \in Session /\ [server EXCEPT !.buffer = b].tail = server.tail
            /\ [server EXCEPT !.buffer = b].connected = server.connected
            /\ [server EXCEPT !.buffer = b].status = server.status
            /\ [server EXCEPT !.buffer = b].restart = server.restart
      BY <3>1 DEF Session
    <3>4. cleared = [server EXCEPT !.buffer = [server.buffer EXCEPT ![run[r].cell] = <<>>]]
      BY <2>2
    <3> QED BY <3>2, <3>3, <3>4
  <2> QED BY <2>1, <2>2
<1> HIDE DEF cleared
<1>5. CASE ~server.connected /\ Failed(r, cleared)
  BY <1>2, <1>4, <1>5, FailedStep
<1>6. CASE /\ server.connected
           /\ server' = [cleared EXCEPT !.status = "busy"]
           /\ run' = [run EXCEPT ![r].stage = "running", ![r].after = 0]
           /\ kernel' = [kernel EXCEPT !.queue = Append(@, r)]
  <2>1. /\ run[r].stage = "queued" /\ run'[r].stage = "running"
        /\ \A s \in Runs \ {r} : run'[s] = run[s]
    BY <1>1, <1>2, <1>6 DEF CanBegin, RunsFit, Request
  <2>2. kernel.queue = <<>> /\ \A s \in Runs \ {r} : run[s].stage # "running"
    BY <1>2, <2>1, NothingElseRuns
  <2>3. kernel'.queue = <<r>>
    BY <1>1, <1>6, <2>2 DEF KernelFits, Process
  <2>4. /\ server'.tail = server.tail /\ server'.connected = server.connected /\ server'.status = "busy"
        /\ server'.restart = server.restart
    BY <1>4, <1>6 DEF Session
  <2>5. Chained'
    <3>1. PICK q \in Seq(Runs) : Chain(q)
      BY DEF InTurn, Chained
    <3>2. q # <<>> /\ q[1] = r
      BY <1>2, <3>1, ChainHead
    <3>3. Chain(q)'
      BY <2>1, <2>4, <3>1, <3>2, ChainBegins
    <3> QED BY <3>3 DEF Chained
  <2>6. Connected'
    BY <1>6, <2>1, <2>4 DEF InTurn, Connected, Attached
  <2>7. channel[r] = <<>>
    BY <2>1 DEF InTurn, AtKernel
  <2>8. AtKernel'
    BY <1>2, <2>1, <2>7, <2>3 DEF InTurn, AtKernel, Quiet
  <2>9. EndAhead'
    BY <2>1, <2>2, <2>3 DEF EndAhead
  <2> QED BY <2>5, <2>6, <2>8, <2>9 DEF InTurn
<1> QED BY <1>3, <1>5, <1>6

\* An execution takes the next message of its channel.
LEMMA TakeStep ==
    ASSUME TypeOK, InTurn, NEW r \in Runs, Take(r)
    PROVE  InTurn'
<1>1. RunsFit /\ ServerFits /\ KernelFits /\ ChannelsFit
  BY TypeParts
<1>2. /\ run[r].stage = "running" /\ channel[r] # <<>>
      /\ channel' = [channel EXCEPT ![r] = Tail(@)]
  BY DEF Take
<1> DEFINE n == Tail(channel[r])
<1>3. /\ Len(n) = Len(channel[r]) - 1 /\ \A i \in 1..Len(n) : n[i] = channel[r][i + 1]
      /\ 1 \in 1..Len(channel[r]) /\ Head(channel[r]) = channel[r][1] /\ Len(channel[r]) \in Nat
  BY <1>1, <1>2, HeadTailProperties DEF ChannelsFit
<1>4. channel'[r] = n /\ \A s \in Runs \ {r} : channel'[s] = channel[s]
  BY <1>1, <1>2 DEF ChannelsFit
<1> HIDE DEF n
<1>5. /\ \A s \in Runs \ {r} : run[s].stage # "running"
      /\ kernel.queue # <<>> => kernel.queue = <<r>>
  BY <1>2, NothingElseRuns
<1>6. kernel.queue = <<r>> => \A i \in 1..Len(channel[r]) : channel[r][i] # Idle
  BY KernelHas DEF InTurn
<1>7. CASE Head(channel[r]) = Idle
  <2>1. kernel.queue = <<>>
    BY <1>3, <1>5, <1>6, <1>7
  <2>2. server' = [Unchained(r, server) EXCEPT !.status = "idle"] /\ Ended(r)
    BY <1>7 DEF Take
  <2>3. /\ server'.tail = (IF server.tail = r THEN 0 ELSE server.tail)
        /\ server'.connected = server.connected /\ server'.status = "idle" /\ server'.restart = server.restart
    BY <1>1, UnchainedType, <2>2 DEF Unchained, Session, ServerFits
  <2>4. server.connected = TRUE
    BY <1>1, <1>2 DEF InTurn, Connected, ServerFits, Session
  <2>5. Attached(server')
    BY <2>3, <2>4 DEF InTurn, Connected, Attached
  <2> QED BY <1>2, <1>4, <2>1, <2>2, <2>3, <2>5, EndStep
<1>8. CASE Head(channel[r]) # Idle
  <2>1. /\ UNCHANGED <<run, kernel>>
        /\ server' = [server EXCEPT !.buffer = Buffered(@, run[r].cell, <<r, Head(channel[r])>>)]
    BY <1>8 DEF Take
  <2>2. server'.tail = server.tail /\ server'.connected = server.connected /\ server'.status = server.status /\ server'.restart = server.restart
    BY <1>1, <2>1 DEF ServerFits, Session
  <2>3. Chained'
    <3>1. PICK q \in Seq(Runs) : Chain(q)
      BY DEF InTurn, Chained
    <3>2. Chain(q)'
      BY <2>1, <2>2, <3>1, ChainKept
    <3> QED BY <3>2 DEF Chained
  <2>4. Connected'
    BY <2>1, <2>2 DEF InTurn, Connected, Attached
  <2>5. \A i \in 1..Len(n) : i + 1 \in 1..Len(channel[r])
    BY <1>3
  <2>6. AtKernel'
    <3>1. \A s \in Runs : Quiet(s)' \/ run'[s].stage = "queued" => channel'[s] = <<>>
      BY <1>2, <1>4, <2>1 DEF InTurn, AtKernel, Quiet
    <3>2. kernel'.queue = <<r>> => \A i \in 1..Len(channel'[r]) : channel'[r][i] # Idle
      BY <1>3, <1>4, <1>6, <2>1, <2>5
    <3> QED BY <1>2, <1>5, <2>1, <3>1, <3>2 DEF AtKernel
  <2>7. EndAhead'
    <3> SUFFICES ASSUME kernel.queue # <<r>>, ~(kernel.late[r] >= MaxChannel), r \notin kernel.unheard
                 PROVE  \E i \in 1..Len(n) : n[i] = Idle /\ Len(n) - i <= kernel.late[r]
      BY <1>4, <1>5, <2>1 DEF EndAhead
    <3>1. PICK i \in 1..Len(channel[r]) : channel[r][i] = Idle /\ Len(channel[r]) - i <= kernel.late[r]
      BY <1>2 DEF InTurn, EndAhead
    <3>2. i # 1
      BY <1>3, <1>8, <3>1
    <3>3. i - 1 \in 1..Len(n) /\ (i - 1) + 1 = i /\ Len(n) - (i - 1) = Len(channel[r]) - i
      BY <1>3, <3>2
    <3>4. n[i - 1] = Idle
      BY <1>3, <3>1, <3>3
    <3> QED BY <3>1, <3>3, <3>4
  <2> QED BY <2>3, <2>4, <2>6, <2>7 DEF InTurn
<1> QED BY <1>7, <1>8

\* An execution that was cut fails.
LEMMA CutStep ==
    ASSUME TypeOK, InTurn, NEW r \in Runs, CutShort(r)
    PROVE  InTurn'
<1> DEFINE sv == IF server.status = "busy" THEN [server EXCEPT !.status = "idle"] ELSE server
<1>1. run[r].stage = "cut" /\ Failed(r, sv) /\ UNCHANGED channel
  BY DEF CutShort
<1>2. server \in Session /\ ~server.connected
  BY <1>1, TypeParts DEF ServerFits, InTurn, Connected
<1>3. /\ sv \in Session /\ sv.tail = server.tail /\ sv.connected = server.connected
      /\ sv.restart = server.restart
      /\ sv.status = server.status \/ (server.status = "busy" /\ sv.status = "idle")
  BY <1>2 DEF Session
<1> HIDE DEF sv
<1> QED BY <1>1, <1>2, <1>3, FailedStep

\* Restarts and deaths cut the execution that runs and keep the chain: a kernel is
\* connected again once the old executions have failed.
LEMMA RestartsKeep ==
    ASSUME TypeOK, InTurn, Restarts
    PROVE  /\ UNCHANGED <<page, link, toServer, dropped>>
           /\ UNCHANGED toPage \/ toPage' = Broadcast(<<>>, <<Dead>>)
           /\ UNCHANGED <<run, channel, kernel>> \/ Closed
           /\ \A r \in Runs : /\ run'[r].by = run[r].by /\ run'[r].cell = run[r].cell
                              /\ run'[r].after = run[r].after
                              /\ \/ run'[r].stage = run[r].stage
                                 \/ run[r].stage = "running" /\ run'[r].stage = "cut"
           /\ \A q \in Seq(Runs) : Chain(q) => Chain(q)'
           /\ server'.subscribed = server.subscribed /\ server'.buffer \in {server.buffer, NoOutputs}
<1>1. RunsFit /\ ServerFits
  BY TypeParts
<1>2. /\ UNCHANGED <<page, link, toServer, dropped>>
      /\ UNCHANGED toPage \/ toPage' = Broadcast(<<>>, <<Dead>>)
      /\ UNCHANGED <<run, channel, kernel>> \/ Closed
  BY DEF Restarts, Restart, RestartGivesUp, RestartConnects, RestartDone, RestartFails, RestartEnds, Dies
<1>3. \A r \in Runs : /\ run'[r].by = run[r].by /\ run'[r].cell = run[r].cell
                      /\ run'[r].after = run[r].after
                      /\ \/ run'[r].stage = run[r].stage
                         \/ run[r].stage = "running" /\ run'[r].stage = "cut"
  BY <1>1, <1>2 DEF Closed, RunsFit, Request
<1>4. CASE Restart \/ RestartEnds \/ Dies
  <2>1. PICK s, t : server' = Disconnected(s, t)
    BY <1>4 DEF Restart, RestartEnds, Dies
  <2>2. /\ server'.tail = 0 /\ server'.connected = FALSE /\ server'.subscribed = server.subscribed
        /\ server'.buffer = NoOutputs
    BY <1>1, <2>1 DEF Disconnected, ServerFits, Session
  <2>3. \A q \in Seq(Runs) : Chain(q) => Chain(q)'
    BY <1>3, <2>2, ChainCut
  <2> QED BY <1>2, <1>3, <2>2, <2>3
<1>5. CASE RestartGivesUp \/ RestartDone \/ RestartFails
  <2>1. /\ server'.tail = server.tail /\ server'.subscribed = server.subscribed
        /\ server'.buffer = server.buffer
        /\ server'.connected = FALSE \/ (server'.connected = server.connected /\ UNCHANGED run)
    BY <1>1, <1>5 DEF RestartGivesUp, RestartDone, RestartFails, ServerFits, Session
  <2>2. ASSUME server'.connected = FALSE PROVE \A q \in Seq(Runs) : Chain(q) => Chain(q)'
    BY <1>3, <2>1, <2>2, ChainCut
  <2>3. ASSUME server'.connected = server.connected, UNCHANGED run
        PROVE  \A q \in Seq(Runs) : Chain(q) => Chain(q)'
    BY <2>1, <2>3, ChainKept
  <2> QED BY <1>2, <1>3, <2>1, <2>2, <2>3
<1>6. CASE RestartConnects
  <2>1. /\ Calm /\ server.restart = "ending" /\ UNCHANGED run
        /\ server'.tail = server.tail /\ server'.subscribed = server.subscribed
        /\ server'.buffer = server.buffer
    BY <1>1, <1>6 DEF RestartConnects, ServerFits, Session
  <2>2. \A r \in Runs : run[r].stage # "running"
    BY <2>1 DEF InTurn, Connected, Attached
  <2>3. ASSUME NEW q \in Seq(Runs), Chain(q) PROVE Chain(q)'
    <3>1. q = <<>>
      BY <2>1, <2>2, <2>3, ChainCalm
    <3> QED BY <2>1, <2>3, <3>1 DEF Chain
  <2> QED BY <1>2, <1>3, <2>1, <2>3
<1> QED BY <1>4, <1>5, <1>6 DEF Restarts

\* They leave nothing at the kernel.
LEMMA RestartsStep ==
    ASSUME TypeOK, InTurn, Restarts
    PROVE  InTurn'
<1>1. RunsFit /\ ServerFits /\ KernelFits /\ ChannelsFit
  BY TypeParts
<1>2. Chained'
  <2>1. PICK q \in Seq(Runs) : Chain(q)
    BY DEF InTurn, Chained
  <2>2. Chain(q)'
    BY <2>1, RestartsKeep
  <2> QED BY <2>2 DEF Chained
<1>3. ASSUME NEW s, NEW t, server' = Disconnected(s, t)
      PROVE  /\ server'.tail = 0 /\ server'.connected = FALSE /\ server'.status = s
             /\ server'.restart = t
  BY <1>1, <1>3 DEF Disconnected, ServerFits, Session
<1>4. CASE Restart \/ Dies \/ RestartFails
  <2>1. /\ Closed /\ server'.connected = FALSE
        /\ \/ server'.restart \in {"ending", "stopping"}
           \/ server'.restart = "none" /\ server'.status = "gone"
    <3>1. CASE Restart
      <4>1. Closed /\ server' = Disconnected("starting", "ending")
        BY <3>1 DEF Restart
      <4> QED BY <1>3, <4>1
    <3>2. CASE Dies
      <4>1. Closed /\ server' = Disconnected("gone", "none")
        BY <3>2 DEF Dies
      <4> QED BY <1>3, <4>1
    <3>3. CASE RestartFails
      BY <1>1, <3>3 DEF RestartFails, ServerFits, Session
    <3> QED BY <1>4, <3>1, <3>2, <3>3
  <2>2. \A r \in Runs : run'[r].stage = IF run[r].stage = "running" THEN "cut" ELSE run[r].stage
    BY <1>1, <2>1 DEF Closed, RunsFit, Request
  <2>3. kernel'.queue = <<>> /\ \A r \in Runs : channel'[r] = <<>>
    BY <1>1, <2>1 DEF Closed, KernelFits, Process
  <2>4. Connected'
    BY <2>2, <2>1 DEF Connected, Attached
  <2>5. AtKernel' /\ EndAhead'
    BY <2>2, <2>3 DEF AtKernel, EndAhead
  <2> QED BY <1>2, <2>4, <2>5 DEF InTurn
<1>5. CASE RestartGivesUp \/ RestartEnds
  <2>1. /\ UNCHANGED <<run, channel, kernel>> /\ server.restart \in {"ending", "stopping"}
        /\ server'.restart = "none"
        /\ server'.connected \in {FALSE, server.connected} /\ server'.status \in {"dead", "gone"}
    <3>1. CASE RestartGivesUp
      BY <1>1, <3>1 DEF RestartGivesUp, ServerFits, Session
    <3>2. CASE RestartEnds
      <4>1. /\ UNCHANGED <<run, channel, kernel>> /\ server.restart = "stopping"
            /\ server' = Disconnected("gone", "none")
        BY <3>2 DEF RestartEnds
      <4> QED BY <1>3, <4>1
    <3> QED BY <1>5, <3>1, <3>2
  <2>2. server.connected = FALSE /\ server'.connected = FALSE
    BY <1>1, <2>1 DEF InTurn, Connected, Attached, ServerFits, Session
  <2>3. Connected'
    BY <2>1, <2>2 DEF InTurn, Connected, Attached
  <2>4. AtKernel' /\ EndAhead'
    BY <2>1 DEF Quiet, InTurn, AtKernel, EndAhead
  <2> QED BY <1>2, <2>3, <2>4 DEF InTurn
<1>6. CASE RestartConnects
  <2>1. /\ Calm /\ server.restart = "ending" /\ UNCHANGED <<run, channel, kernel>>
        /\ server'.restart = "booting" /\ server'.connected = TRUE
    BY <1>1, <1>6 DEF RestartConnects, ServerFits, Session
  <2>2. \A r \in Runs : run[r].stage # "running" /\ run[r].stage # "cut"
    BY <2>1 DEF Calm, InTurn, Connected, Attached
  <2>3. Connected'
    BY <2>1, <2>2 DEF Connected, Attached
  <2>4. AtKernel' /\ EndAhead'
    BY <2>1 DEF Quiet, InTurn, AtKernel, EndAhead
  <2> QED BY <1>2, <2>3, <2>4 DEF InTurn
<1>7. CASE RestartDone
  <2>1. /\ UNCHANGED <<run, channel, kernel>> /\ server.restart = "booting"
        /\ server'.status = "idle" /\ server'.restart = "none"
        /\ server'.connected = server.connected
    BY <1>1, <1>7 DEF RestartDone, ServerFits, Session
  <2>2. Connected'
    BY <2>1 DEF InTurn, Connected, Attached
  <2>3. AtKernel' /\ EndAhead'
    BY <2>1 DEF Quiet, InTurn, AtKernel, EndAhead
  <2> QED BY <1>2, <2>2, <2>3 DEF InTurn
<1> QED BY <1>4, <1>5, <1>6, <1>7 DEF Restarts

\* The i-th message of channel ch is in channel n with one message more behind it.
StillIn(n, ch, i) == \E j \in 1..Len(n) : n[j] = ch[i] /\ Len(n) - j = Len(ch) - i + 1

\* What a full channel loses is its oldest message.
LEMMA PushedIs ==
    ASSUME NEW ch \in Seq(Error..Idle), NEW m \in Error..Idle, NEW n, n = Pushed(ch, m)
    PROVE  /\ n \in Seq(Error..Idle) /\ n[Len(n)] = m /\ Len(n) \in 1..Len(n)
           /\ \A i \in 1..Len(n) : n[i] = m \/ \E j \in 1..Len(ch) : n[i] = ch[j]
           /\ \A i \in 1..Len(ch) :
                \/ StillIn(n, ch, i)
                \/ i = 1 /\ Len(ch) >= MaxChannel
<1>1. Len(ch) \in Nat /\ MaxChannel \in Nat \ {0} /\ n \in Seq(Error..Idle)
  BY Numbers, PushedType
<1>2. CASE Len(ch) < MaxChannel
  <2>1. n = Append(ch, m)
    BY <1>2 DEF Pushed
  <2>2. /\ Len(n) = Len(ch) + 1 /\ n[Len(ch) + 1] = m
        /\ \A i \in 1..Len(ch) : n[i] = ch[i]
    BY <2>1, AppendProperties
  <2>3. Len(n) \in 1..Len(n) /\ \A i \in 1..Len(n) : i = Len(n) \/ i \in 1..Len(ch)
    BY <1>1, <2>2
  <2>4. \A i \in 1..Len(ch) : i \in 1..Len(n) /\ n[i] = ch[i] /\ Len(n) - i = Len(ch) - i + 1
    BY <1>1, <2>2
  <2>5. \A i \in 1..Len(n) : n[i] = m \/ \E j \in 1..Len(ch) : n[i] = ch[j]
    BY <2>2, <2>3
  <2>6. /\ n[Len(n)] = m /\ Len(n) \in 1..Len(n)
        /\ \A i \in 1..Len(n) : n[i] = m \/ \E j \in 1..Len(ch) : n[i] = ch[j]
        /\ \A i \in 1..Len(ch) :
             \/ \E j \in 1..Len(n) : n[j] = ch[i] /\ Len(n) - j = Len(ch) - i + 1
             \/ i = 1 /\ Len(ch) >= MaxChannel
    BY <2>2, <2>3, <2>4, <2>5
  <2> QED BY <1>1, <2>6 DEF StillIn
<1>3. CASE ~(Len(ch) < MaxChannel)
  <2>1. ch # <<>>
    BY <1>1, <1>3
  <2>2. /\ Tail(ch) \in Seq(Error..Idle) /\ Len(Tail(ch)) = Len(ch) - 1
        /\ \A i \in 1..Len(Tail(ch)) : Tail(ch)[i] = ch[i + 1]
    BY <2>1, HeadTailProperties
  <2>3. n = Append(Tail(ch), m)
    BY <1>3 DEF Pushed
  <2>4. /\ Len(n) = Len(ch) /\ n[Len(ch)] = m
        /\ \A i \in 1..Len(Tail(ch)) : n[i] = Tail(ch)[i]
    BY <2>2, <2>3, AppendProperties, <1>1
  <2>5. Len(ch) \in 1..Len(ch) /\ \A i \in 1..Len(ch) : i = Len(ch) \/ (i \in 1..Len(Tail(ch)) /\ i + 1 \in 1..Len(ch))
    <3>1. Len(ch) >= 1 /\ Len(Tail(ch)) = Len(ch) - 1
      BY <1>1, <2>1, <2>2
    <3> QED BY <1>1, <3>1
  <2>6. \A i \in 1..Len(n) : n[i] = m \/ \E j \in 1..Len(ch) : n[i] = ch[j]
    BY <2>2, <2>4, <2>5
  <2>7. \A i \in 1..Len(ch) :
          \/ \E j \in 1..Len(n) : n[j] = ch[i] /\ Len(n) - j = Len(ch) - i + 1
          \/ i = 1 /\ Len(ch) >= MaxChannel
    <3> SUFFICES ASSUME NEW i \in 1..Len(ch), i # 1
                 PROVE  \E j \in 1..Len(n) : n[j] = ch[i] /\ Len(n) - j = Len(ch) - i + 1
      <4>1. Len(ch) >= MaxChannel
        BY <1>1, <1>3
      <4> QED BY <4>1
    <3>1. /\ i - 1 \in 1..Len(n) /\ i - 1 \in 1..Len(Tail(ch)) /\ (i - 1) + 1 = i
          /\ Len(n) - (i - 1) = Len(ch) - i + 1
      BY <1>1, <2>2, <2>4
    <3>2. n[i - 1] = ch[i]
      BY <2>2, <2>4, <3>1
    <3> QED BY <3>1, <3>2
  <2>8. /\ n[Len(n)] = m /\ Len(n) \in 1..Len(n)
        /\ \A i \in 1..Len(n) : n[i] = m \/ \E j \in 1..Len(ch) : n[i] = ch[j]
        /\ \A i \in 1..Len(ch) :
             \/ \E j \in 1..Len(n) : n[j] = ch[i] /\ Len(n) - j = Len(ch) - i + 1
             \/ i = 1 /\ Len(ch) >= MaxChannel
    BY <2>4, <2>5, <2>6, <2>7
  <2> QED BY <1>1, <2>8 DEF StillIn
<1> QED BY <1>2, <1>3

\* The kernel prints, raises or ends its request, or a thread prints late.
LEMMA KernelStep ==
    ASSUME TypeOK, InTurn, Hears \/ Prints \/ Raises \/ Finishes \/ \E r \in Runs : PrintsLate(r)
    PROVE  InTurn'
<1>1. RunsFit /\ KernelFits /\ ChannelsFit
  BY TypeParts
<1>2. UNCHANGED <<run, server>>
  BY DEF Hears, Prints, Raises, Finishes, PrintsLate
<1>3. Chained'
  <2>1. PICK q \in Seq(Runs) : Chain(q)
    BY DEF InTurn, Chained
  <2>2. Chain(q)'
    BY <1>2, <2>1, ChainKept
  <2> QED BY <2>2 DEF Chained
<1>4. Connected'
  BY <1>2 DEF InTurn, Connected, Attached
<1>5. \A r \in Runs : Quiet(r)' <=> Quiet(r)
  BY <1>2 DEF Quiet
<1>6. ASSUME NEW r \in Runs, run[r].stage = "running", \A s \in Runs \ {r} : channel'[s] = channel[s]
      PROVE  \A s \in Runs : Quiet(s)' \/ run'[s].stage = "queued" => channel'[s] = <<>>
  BY <1>2, <1>5, <1>6 DEF InTurn, AtKernel, Quiet
<1>7. ASSUME NEW r \in Runs, NEW m \in Error..Idle, channel' = Published(r, m)
      PROVE  /\ \A s \in Runs \ {r} : channel'[s] = channel[s]
             /\ channel[r] \in Seq(Error..Idle)
             /\ channel'[r] = IF kernel.heard THEN Pushed(channel[r], m) ELSE channel[r]
  BY <1>1, <1>7 DEF ChannelsFit, Published
<1>8. ASSUME NEW r \in Runs, kernel.queue = <<r>>, run[r].stage = "running", kernel'.queue = <<r>>,
             \A i \in 1..Len(channel[r]) : channel[r][i] # Idle,
             NEW m \in Error..Idle, m # Idle, channel' = Published(r, m)
      PROVE  InTurn'
  <2>1. \A i \in 1..Len(channel'[r]) : channel'[r][i] # Idle
    <3> DEFINE n == channel'[r]
               ch == channel[r]
    <3>1. (n = Pushed(ch, m) \/ n = ch) /\ ch \in Seq(Error..Idle)
      BY <1>7, <1>8
    <3>2. \A i \in 1..Len(ch) : ch[i] # Idle
      BY <1>8
    <3> HIDE DEF n, ch
    <3>3. \A i \in 1..Len(n) : n[i] = m \/ \E j \in 1..Len(ch) : n[i] = ch[j]
      BY <3>1, PushedIs
    <3>4. \A i \in 1..Len(n) : n[i] # Idle
      BY <1>8, <3>2, <3>3
    <3> QED BY <3>4 DEF n
  <2>2. \A s \in Runs : Quiet(s)' \/ run'[s].stage = "queued" => channel'[s] = <<>>
    BY <1>6, <1>7, <1>8
  <2>3. AtKernel'
    BY <1>2, <1>8, <2>1, <2>2 DEF AtKernel
  <2>4. EndAhead'
    BY <1>2, <1>8, NothingElseRuns DEF EndAhead
  <2> QED BY <1>3, <1>4, <2>3, <2>4 DEF InTurn
<1> DEFINE h == Head(kernel.queue)
<1>9. kernel.queue # <<>> =>
        /\ h \in Runs /\ kernel.queue = <<h>> /\ run[h].stage = "running" /\ Tail(kernel.queue) = <<>>
        /\ \A i \in 1..Len(channel[h]) : channel[h][i] # Idle
  BY KernelHas DEF InTurn
<1> HIDE DEF h
<1>10. CASE Prints
  <2>1. /\ kernel.queue # <<>> /\ kernel.printed[h] < MaxPrinted
        /\ kernel' = [kernel EXCEPT !.printed[h] = @ + 1]
        /\ channel' = Published(h, kernel.printed[h] + 1)
    BY <1>10 DEF Prints, h
  <2>2. kernel'.queue = kernel.queue
    BY <1>1, <2>1 DEF KernelFits, Process
  <2>3. kernel.printed[h] + 1 \in Error..Idle /\ kernel.printed[h] + 1 # Idle
    <3>1. kernel.printed[h] \in 0..MaxPrinted
      BY <1>1, <1>9, <2>1, KernelRead
    <3> QED BY <2>1, <3>1, Numbers
  <2> QED BY <1>8, <1>9, <2>1, <2>2, <2>3
<1>11. CASE Raises
  <2>1. /\ kernel.queue # <<>> /\ kernel' = [kernel EXCEPT !.printed[h] = MaxPrinted]
        /\ channel' = Published(h, Error)
    BY <1>11 DEF Raises, h
  <2>2. kernel'.queue = kernel.queue
    BY <1>1, <2>1 DEF KernelFits, Process
  <2>3. Error \in Error..Idle /\ Error # Idle
    BY Numbers
  <2> QED BY <1>8, <1>9, <2>1, <2>2, <2>3
<1>12. CASE Finishes
  <2>1. /\ kernel.queue # <<>> /\ channel' = Published(h, Idle)
        /\ kernel' = [kernel EXCEPT !.queue = Tail(@), !.unheard = IF kernel.heard THEN @ ELSE @ \cup {h}]
    BY <1>12 DEF Finishes, h
  <2>2. /\ kernel'.queue = <<>> /\ kernel'.late = kernel.late
        /\ ~kernel.heard => h \in kernel'.unheard
    BY <1>1, <1>9, <2>1 DEF KernelFits, Process
  <2>3. h \in Runs /\ run[h].stage = "running" /\ Idle \in Error..Idle
    BY <1>9, <2>1, Numbers
  <2>4. AtKernel'
    BY <1>6, <1>7, <2>1, <2>2, <2>3 DEF AtKernel
  <2>5. EndAhead'
    <3>1. \A s \in Runs : run'[s].stage = "running" => s = h
      BY <1>2, <2>3, NothingElseRuns
    <3> DEFINE n == channel'[h]
    <3>0. CASE ~kernel.heard
      BY <2>2, <3>1, <3>0 DEF EndAhead
    <3> SUFFICES ASSUME kernel.heard PROVE EndAhead'
      BY <3>0
    <3>2. n[Len(n)] = Idle /\ Len(n) \in 1..Len(n)
      <4>1. n = Pushed(channel[h], Idle) /\ channel[h] \in Seq(Error..Idle)
        BY <1>7, <2>1, <2>3
      <4> HIDE DEF n
      <4> QED BY <2>3, <4>1, PushedIs
    <3>3. kernel.late[h] \in Nat
      BY <1>1, <2>3, KernelRead, Numbers
    <3> HIDE DEF n
    <3>4. Len(n) - Len(n) <= kernel.late[h]
      BY <3>2, <3>3
    <3>5. \E i \in 1..Len(n) : n[i] = Idle /\ Len(n) - i <= kernel'.late[h]
      BY <2>2, <3>2, <3>4
    <3> QED BY <3>1, <3>5 DEF EndAhead, n
  <2> QED BY <1>3, <1>4, <2>4, <2>5 DEF InTurn
<1>13. ASSUME NEW r \in Runs, PrintsLate(r) PROVE InTurn'
  <2>1. /\ run[r].stage = "running" /\ r \notin ToSet(kernel.queue) /\ kernel.printed[r] < MaxPrinted
        /\ kernel' = [kernel EXCEPT !.printed[r] = @ + 1, !.late[r] = @ + 1]
        /\ channel' = Published(r, kernel.printed[r] + 1)
    BY <1>13 DEF PrintsLate
  <2>2. /\ kernel'.queue = kernel.queue /\ kernel'.late[r] = kernel.late[r] + 1
        /\ kernel'.unheard = kernel.unheard
    BY <1>1, <2>1 DEF KernelFits, Process
  <2>3. /\ kernel.printed[r] + 1 \in Error..Idle /\ kernel.printed[r] + 1 # Idle
        /\ kernel.late[r] \in Nat
    <3>1. kernel.printed[r] \in 0..MaxPrinted /\ kernel.late[r] \in 0..MaxPrinted
      BY <1>1, KernelRead
    <3> QED BY <2>1, <3>1, Numbers
  <2>4. kernel.queue = <<>>
    BY <2>1, NothingElseRuns DEF ToSet
  <2>5. AtKernel'
    BY <1>6, <1>7, <2>1, <2>2, <2>3, <2>4 DEF AtKernel
  <2>6. EndAhead'
    <3>1. \A s \in Runs : run'[s].stage = "running" => s = r
      BY <1>2, <2>1, NothingElseRuns
    <3>2. CASE kernel.late[r] >= MaxChannel
      BY <2>2, <2>3, <3>2, Numbers, <3>1 DEF EndAhead
    <3>4. CASE r \in kernel.unheard
      BY <2>2, <3>1, <3>4 DEF EndAhead
    <3>3. CASE ~(kernel.late[r] >= MaxChannel) /\ r \notin kernel.unheard
      <4>1. kernel.queue # <<r>>
        BY <2>4
      <4>2. PICK i \in 1..Len(channel[r]) : channel[r][i] = Idle /\ Len(channel[r]) - i <= kernel.late[r]
        BY <2>1, <3>3, <4>1 DEF InTurn, EndAhead
      <4> DEFINE n == channel'[r]
      <4>0. CASE ~kernel.heard
        <5>1. n = channel[r] /\ channel[r] \in Seq(Error..Idle)
          BY <1>7, <2>1, <2>3, <4>0
        <5>2. n[i] = Idle /\ i \in 1..Len(n) /\ Len(n) - i <= kernel'.late[r]
          BY <2>2, <2>3, <4>2, <5>1
        <5> QED BY <3>1, <5>2 DEF EndAhead
      <4> SUFFICES ASSUME kernel.heard PROVE EndAhead'
        BY <4>0
      <4>3. n = Pushed(channel[r], kernel.printed[r] + 1) /\ channel[r] \in Seq(Error..Idle)
        BY <1>7, <2>1, <2>3
      <4> HIDE DEF n
      <4>4. \/ \E j \in 1..Len(n) : n[j] = channel[r][i] /\ Len(n) - j = Len(channel[r]) - i + 1
            \/ i = 1 /\ Len(channel[r]) >= MaxChannel
        <5> DEFINE ch == channel[r]
                   m == kernel.printed[r] + 1
        <5>1. n = Pushed(ch, m) /\ ch \in Seq(Error..Idle) /\ m \in Error..Idle /\ i \in 1..Len(ch)
          BY <2>3, <4>2, <4>3
        <5> HIDE DEF ch, m
        <5>2. StillIn(n, ch, i) \/ (i = 1 /\ Len(ch) >= MaxChannel)
          BY <5>1, PushedIs
        <5> QED BY <5>2 DEF ch, StillIn
      <4>5. Len(channel[r]) \in Nat /\ Len(n) \in Nat
        BY <2>3, <4>3, PushedIs
      <4>6. CASE i = 1 /\ Len(channel[r]) >= MaxChannel
        BY <2>2, <2>3, <4>2, <4>5, <4>6, Numbers, <3>1 DEF EndAhead
      <4>7. ASSUME NEW j \in 1..Len(n), n[j] = channel[r][i], Len(n) - j = Len(channel[r]) - i + 1
            PROVE  EndAhead'
        <5>1. n[j] = Idle /\ Len(n) - j <= kernel'.late[r]
          BY <2>2, <2>3, <4>2, <4>5, <4>7
        <5> QED BY <3>1, <5>1 DEF EndAhead, n
      <4> QED BY <4>4, <4>6, <4>7
    <3> QED BY <3>2, <3>3, <3>4
  <2> QED BY <1>3, <1>4, <2>5, <2>6 DEF InTurn
<1>14. CASE Hears
  <2>1. UNCHANGED channel /\ kernel' = [kernel EXCEPT !.heard = TRUE]
    BY <1>14 DEF Hears
  <2>2. kernel'.queue = kernel.queue /\ kernel'.late = kernel.late /\ kernel'.unheard = kernel.unheard
    BY <1>1, <2>1 DEF KernelFits, Process
  <2>3. AtKernel' /\ EndAhead'
    BY <1>2, <2>1, <2>2 DEF InTurn, AtKernel, EndAhead, Quiet
  <2> QED BY <1>3, <1>4, <2>3 DEF InTurn
<1> QED BY <1>10, <1>11, <1>12, <1>13, <1>14

-----------------------------------------------------------------------------
(* The steps *)

\* A run in a stage that the session does not know moves to another such stage.
LEMMA StageMoved ==
    ASSUME RunsFit, NEW r \in Runs, Quiet(r), NEW s \in {"waiting", "asked", "lost"},
           run' = [run EXCEPT ![r].stage = s], UNCHANGED <<server, channel, kernel>>
    PROVE  /\ Aside /\ run'[r].stage = s /\ run'[r].by = run[r].by
           /\ \A t \in Runs \ {r} : run'[t] = run[t]
<1>1. run'[r].stage = s /\ run'[r].by = run[r].by /\ \A t \in Runs \ {r} : run'[t] = run[t]
  BY DEF RunsFit, Request
<1>2. Quiet(r)'
  BY <1>1 DEF Quiet
<1> QED BY <1>1, <1>2 DEF Aside

\* A new run that is not yet the session's
LEMMA NewAside ==
    ASSUME TypeOK, Requests, NEW by \in Pages \cup {Agent}, NEW c, NEW stage, NEW after,
           NewRun(by, c, stage, after)
    PROVE  LET r == count.runs + 1 IN
           /\ r \in Runs /\ Quiet(r) /\ run[r].stage = "none" /\ count'.runs = r
           /\ run'[r].stage = stage /\ run'[r].by = by /\ run'[r].after = after
           /\ \A s \in Runs \ {r} : run'[s] = run[s]
<1> DEFINE r == count.runs + 1
<1>1. RunsFit /\ CountFits
  BY TypeParts
<1>2. count.runs \in Nat /\ count.runs < MaxRuns /\ count' = [count EXCEPT !.runs = @ + 1]
  BY <1>1, Numbers DEF NewRun, CountFits
<1>3. r \in Runs /\ r > count.runs
  BY <1>2, Numbers DEF Runs
<1>4. run[r].stage = "none"
  BY <1>3 DEF Requests
<1>5. count'.runs = r
  BY <1>1, <1>2 DEF CountFits
<1>6. run' = [run EXCEPT ![r] = [by |-> by, cell |-> c, stage |-> stage, after |-> after]]
  BY DEF NewRun
<1> HIDE DEF r
<1>7. /\ run'[r].stage = stage /\ run'[r].by = by /\ run'[r].after = after
      /\ \A s \in Runs \ {r} : run'[s] = run[s]
  BY <1>1, <1>3, <1>6 DEF RunsFit
<1> QED BY <1>3, <1>4, <1>5, <1>7 DEF r, Quiet

\* Steps that change no run, no request and nothing of the session
LEMMA StillAside ==
    ASSUME TypeOK, IInv, UNCHANGED <<run, toServer, server, channel, kernel>>, count'.runs = count.runs,
           \A p \in Pages : page'[p].waiting \subseteq page[p].waiting
    PROVE  IInv'
<1>1. Requests'
  BY RequestsKept DEF IInv
<1>2. Aside
  BY DEF Aside
<1> QED BY <1>1, <1>2, AsideStep DEF IInv

\* What a page queues and asks leaves the session alone, and is asked once.
LEMMA AsksStep ==
    ASSUME TypeOK, IInv, NEW p \in Pages,
           \/ \E c \in Cells : QueueExecution(p, c)
           \/ ProcessNext(p) \/ RunHint(p) \/ Interrupt(p)
           \/ \E r \in Runs : WaitOver(p, r) \/ WaitThrows(p, r)
    PROVE  IInv'
<1>1. PagesFit /\ RunsFit /\ CountFits
  BY TypeParts
<1>2. page[p] \in Page /\ Requests /\ InTurn
  BY <1>1 DEF PagesFit, IInv
<1>3. ASSUME NEW w, NEW pg, page' = [page EXCEPT ![p] = pg], pg.waiting = w, w \subseteq page[p].waiting
      PROVE  /\ \A o \in Pages : page'[o].waiting \subseteq page[o].waiting
             /\ page'[p].waiting = w
  BY <1>1, <1>3 DEF PagesFit
<1>4. ASSUME NEW c \in Cells, QueueExecution(p, c) PROVE IInv'
  <2> DEFINE pg == [page[p] EXCEPT !.queue = Append(@, c)]
  <2>1. page' = [page EXCEPT ![p] = pg] /\ UNCHANGED <<run, toServer, server, channel, kernel, count>>
    BY <1>1, <1>4 DEF QueueExecution, PagesFit
  <2>2. pg.waiting = page[p].waiting
    BY <1>2 DEF Page
  <2> HIDE DEF pg
  <2>3. \A o \in Pages : page'[o].waiting \subseteq page[o].waiting
    BY <1>3, <2>1, <2>2
  <2> QED BY <2>1, <2>3, StillAside
<1>5. CASE ProcessNext(p)
  <2> DEFINE r == count.runs + 1
             begun == [page[p] EXCEPT !.processing = TRUE]
             asks == [begun EXCEPT !.handlers = Append(@, r)]
             waits == [begun EXCEPT !.waiting = @ \cup {r}]
  <2>1. /\ UNCHANGED <<server, channel, kernel>>
        /\ \E c : \/ /\ NewRun(p, c, "asked", 0) /\ page' = [page EXCEPT ![p] = asks]
                     /\ toServer' = [toServer EXCEPT ![p] = Append(@, r)]
                  \/ /\ NewRun(p, c, "waiting", 0) /\ page' = [page EXCEPT ![p] = waits]
                     /\ UNCHANGED toServer
    BY <1>5 DEF ProcessNext
  <2>2. /\ begun.waiting = page[p].waiting /\ asks.waiting = page[p].waiting
        /\ waits.waiting = page[p].waiting \cup {r}
    BY <1>2 DEF Page
  <2>3. count.runs \in Nat
    BY <1>1, Numbers DEF CountFits
  <2> HIDE DEF asks, waits, begun
  <2>4. ASSUME NEW c, NewRun(p, c, "asked", 0), page' = [page EXCEPT ![p] = asks],
               toServer' = [toServer EXCEPT ![p] = Append(@, r)]
        PROVE  IInv'
    <3>1. /\ r \in Runs /\ Quiet(r) /\ run[r].stage = "none" /\ count'.runs = r
          /\ run'[r].stage = "asked" /\ run'[r].by = p
          /\ \A s \in Runs \ {r} : run'[s] = run[s]
      BY <1>2, <2>4, NewAside
    <3>2. \A o \in Pages : page'[o].waiting \subseteq page[o].waiting
      BY <1>3, <2>2, <2>4
    <3>3. \A o \in Pages : r \notin page[o].waiting
      BY <1>2, <3>1 DEF Requests, Waits
    <3>4. r >= count.runs /\ r <= r /\ r \in Nat
      BY <2>3
    <3> HIDE DEF r
    <3>5. Requests'
      <4>1. \A o \in Pages : page'[o].waiting \subseteq page[o].waiting \ {r}
        BY <3>2, <3>3
      <4> QED BY <1>2, <2>4, <3>1, <3>4, <4>1, RequestSent
    <3>6. Aside
      BY <2>1, <3>1 DEF Aside, Quiet
    <3> QED BY <1>2, <3>5, <3>6, AsideStep DEF IInv
  <2>5. ASSUME NEW c, NewRun(p, c, "waiting", 0), page' = [page EXCEPT ![p] = waits], UNCHANGED toServer
        PROVE  IInv'
    <3>1. /\ r \in Runs /\ Quiet(r) /\ run[r].stage = "none" /\ count'.runs = r
          /\ run'[r].stage = "waiting" /\ run'[r].by = p
          /\ \A s \in Runs \ {r} : run'[s] = run[s]
      BY <1>2, <2>5, NewAside
    <3>2. \A s \in Runs : s > r => s # r /\ s > count.runs
      BY <2>3, Numbers DEF Runs
    <3> HIDE DEF r
    <3>3. /\ page'[p].waiting = page[p].waiting \cup {r}
          /\ \A o \in Pages \ {p} : page'[o].waiting = page[o].waiting
      BY <1>1, <2>2, <2>5 DEF PagesFit
    <3>4. \A o \in Pages : \A s \in page[o].waiting : s \in Runs \ {r} /\ Waits(o, s)
      BY <1>1, <1>2, <3>1, PageRead DEF Requests, Waits, PagesFit
    <3>5. \A o \in Pages : \A s \in page'[o].waiting : Waits(o, s)'
      <4> SUFFICES ASSUME NEW o \in Pages, NEW s \in page'[o].waiting PROVE Waits(o, s)'
        OBVIOUS
      <4>1. CASE s = r
        <5>1. o = p
          BY <3>3, <3>4, <4>1
        <5> QED BY <3>1, <4>1, <5>1 DEF Waits
      <4>2. CASE s # r
        BY <3>1, <3>3, <3>4, <4>2 DEF Waits
      <4> QED BY <4>1, <4>2
    <3>6. \A o \in Pages : \A i \in 1..Len(toServer[o]) : toServer[o][i] # 0 => Asks(run', o, toServer[o][i])
      <4> SUFFICES ASSUME NEW o \in Pages, NEW i \in 1..Len(toServer[o]), toServer[o][i] # 0
                   PROVE  Asks(run', o, toServer[o][i])
        OBVIOUS
      <4>1. toServer[o][i] \in Runs
        BY TypeParts, ElementOfSeq, Numbers DEF Runs, LinesFit
      <4>2. Asks(run, o, toServer[o][i])
        BY <1>2 DEF Requests
      <4> QED BY <3>1, <4>1, <4>2 DEF Asks
    <3>7. \A s \in Runs : s > count'.runs => run'[s].stage = "none"
      BY <1>2, <3>1, <3>2 DEF Requests
    <3>8. Requests'
      BY <1>2, <2>5, <3>5, <3>6, <3>7 DEF Requests
    <3>9. Aside
      BY <2>1, <3>1 DEF Aside, Quiet
    <3> QED BY <1>2, <3>8, <3>9, AsideStep DEF IInv
  <2> HIDE DEF r
  <2> QED BY <2>1, <2>4, <2>5
<1>6. CASE RunHint(p)
  <2> DEFINE r == count.runs + 1
             pg == [page[p] EXCEPT !.handlers = Append(@, r)]
  <2>1. /\ NewRun(p, NoCell, "asked", 0) /\ page' = [page EXCEPT ![p] = pg]
        /\ toServer' = [toServer EXCEPT ![p] = Append(@, r)]
        /\ UNCHANGED <<server, channel, kernel>>
    BY <1>1, <1>6 DEF RunHint, PagesFit
  <2>2. pg.waiting = page[p].waiting
    BY <1>2 DEF Page
  <2> HIDE DEF pg
  <2>3. /\ r \in Runs /\ Quiet(r) /\ run[r].stage = "none" /\ count'.runs = r
        /\ run'[r].stage = "asked" /\ run'[r].by = p
        /\ \A s \in Runs \ {r} : run'[s] = run[s]
    BY <1>2, <2>1, NewAside
  <2>4. \A o \in Pages : page'[o].waiting \subseteq page[o].waiting
    BY <1>3, <2>1, <2>2
  <2>5. \A o \in Pages : r \notin page[o].waiting
    BY <1>2, <2>3 DEF Requests, Waits
  <2>6. r >= count.runs /\ r <= r /\ r \in Nat
    BY <1>1, Numbers DEF CountFits
  <2> HIDE DEF r
  <2>7. Requests'
    <3>1. \A o \in Pages : page'[o].waiting \subseteq page[o].waiting \ {r}
      BY <2>4, <2>5
    <3> QED BY <1>2, <2>1, <2>3, <2>6, <3>1, RequestSent
  <2>8. Aside
    BY <2>1, <2>3 DEF Aside, Quiet
  <2> QED BY <1>2, <2>7, <2>8, AsideStep DEF IInv
<1>7. CASE Interrupt(p)
  <2> DEFINE pg == [page[p] EXCEPT !.queue = <<>>, !.processing = FALSE]
  <2>1. /\ page' = [page EXCEPT ![p] = pg] /\ UNCHANGED <<run, toServer, server, channel, kernel>>
        /\ count' = [count EXCEPT !.troubles = @ + 1]
    BY <1>1, <1>7 DEF Interrupt, PagesFit, Trouble
  <2>2. pg.waiting = page[p].waiting /\ count'.runs = count.runs
    BY <1>1, <1>2, <2>1 DEF Page, CountFits
  <2> HIDE DEF pg
  <2>3. \A o \in Pages : page'[o].waiting \subseteq page[o].waiting
    BY <1>3, <2>1, <2>2
  <2> QED BY <2>1, <2>2, <2>3, StillAside
<1>8. ASSUME NEW r \in Runs, r \in page[p].waiting
      PROVE  /\ run[r].stage = "waiting" /\ run[r].by = p /\ Quiet(r)
             /\ \A o \in Pages \ {p} : r \notin page[o].waiting
  BY <1>2, <1>8 DEF Requests, Waits, Quiet
<1>9. ASSUME NEW r \in Runs, WaitOver(p, r) PROVE IInv'
  <2> DEFINE pg == [page[p] EXCEPT !.waiting = @ \ {r}, !.handlers = Append(@, r)]
  <2>1. /\ r \in page[p].waiting /\ page' = [page EXCEPT ![p] = pg]
        /\ toServer' = [toServer EXCEPT ![p] = Append(@, r)]
        /\ run' = [run EXCEPT ![r].stage = "asked"] /\ UNCHANGED <<server, channel, kernel, count>>
    BY <1>1, <1>9 DEF WaitOver, PagesFit
  <2>2. pg.waiting = page[p].waiting \ {r}
    BY <1>2 DEF Page
  <2> HIDE DEF pg
  <2>3. \A o \in Pages : page'[o].waiting \subseteq page[o].waiting \ {r}
    BY <1>1, <2>1, <2>2, <1>8 DEF PagesFit
  <2>4. run[r].stage = "waiting" /\ run[r].by = p /\ Quiet(r)
    BY <1>8, <2>1
  <2>5. Aside /\ run'[r].stage = "asked" /\ run'[r].by = p /\ \A t \in Runs \ {r} : run'[t] = run[t]
    BY <1>1, <2>1, <2>4, StageMoved
  <2>6. count'.runs \in Nat /\ count'.runs >= count.runs /\ r <= count'.runs
    BY <1>1, Numbers, <1>2, <2>4, <2>1 DEF CountFits, Requests
  <2>7. Requests'
    BY <1>2, <2>1, <2>3, <2>4, <2>5, <2>6, RequestSent
  <2> QED BY <1>2, <2>5, <2>7, AsideStep DEF IInv
<1>10. ASSUME NEW r \in Runs, WaitThrows(p, r) PROVE IInv'
  <2> DEFINE pg == [page[p] EXCEPT !.waiting = @ \ {r}, !.handlers = Append(@, r), !.got[r] = <<<<r, Cut>>>>]
  <2>1. /\ r \in page[p].waiting /\ page' = [page EXCEPT ![p] = Settled(pg, r)]
        /\ run' = [run EXCEPT ![r].stage = "lost"] /\ UNCHANGED <<toServer, server, channel, kernel, count>>
    BY <1>10 DEF WaitThrows
  <2>2. Settled(pg, r).waiting = page[p].waiting \ {r}
    <3>1. pg.waiting = page[p].waiting \ {r} /\ DOMAIN pg = DOMAIN page[p]
      BY <1>2 DEF Page
    <3>2. "waiting" \in DOMAIN pg
      BY <1>2, <3>1 DEF Page
    <3> HIDE DEF pg
    <3> QED BY <3>1, <3>2 DEF Settled
  <2> DEFINE new == Settled(pg, r)
  <2> HIDE DEF new
  <2>3. /\ page'[p].waiting = page[p].waiting \ {r} /\ \A o \in Pages \ {p} : page'[o] = page[o]
    BY <1>1, <2>1, <2>2 DEF PagesFit
  <2>4. run[r].stage = "waiting" /\ Quiet(r) /\ \A o \in Pages \ {p} : r \notin page[o].waiting
    BY <1>8, <2>1
  <2>5. Aside /\ \A t \in Runs \ {r} : run'[t] = run[t]
    BY <1>1, <2>1, <2>4, StageMoved
  <2>6. \A o \in Pages : page'[o].waiting \subseteq page[o].waiting /\ r \notin page'[o].waiting
    BY <2>3, <2>4
  <2>7. Requests'
    BY <2>4, <2>5, <2>6, <1>2, <2>1, RequestsKept
  <2> QED BY <1>2, <2>5, <2>7, AsideStep DEF IInv
<1> QED BY <1>4, <1>5, <1>6, <1>7, <1>9, <1>10

\* What a page makes of a message leaves requests and the session alone.
LEMMA ReceivesStep ==
    ASSUME TypeOK, IInv, NEW p \in Pages,
           ReceiveDead(p) \/ ReceiveSync(p) \/ ReceiveOutput(p) \/ ReceiveResult(p)
    PROVE  IInv'
<1>1. page \in [Pages -> Page] /\ page[p] \in Page
  BY TypeParts DEF PagesFit
<1>2. UNCHANGED <<run, toServer, server, channel, kernel, count>>
  BY DEF ReceiveDead, ReceiveSync, ReceiveOutput, ReceiveResult, Receive
<1>3. ASSUME NEW pg, page' = [page EXCEPT ![p] = pg], pg.waiting = page[p].waiting
      PROVE  IInv'
  BY <1>1, <1>3, <1>2, StillAside
<1>4. CASE ReceiveDead(p)
  <2> DEFINE pg == [page[p] EXCEPT !.ready = FALSE, !.queue = <<>>]
  <2>1. page' = [page EXCEPT ![p] = pg] /\ pg.waiting = page[p].waiting
    BY <1>1, <1>4 DEF ReceiveDead, Page
  <2> HIDE DEF pg
  <2> QED BY <1>3, <2>1
<1>5. CASE ReceiveSync(p)
  <2> DEFINE pg == [page[p] EXCEPT !.synced = TRUE, !.shown = Replaced(@, Head(toPage[p]).cells)]
  <2>1. page' = [page EXCEPT ![p] = pg] /\ pg.waiting = page[p].waiting
    BY <1>1, <1>5 DEF ReceiveSync, Page
  <2> HIDE DEF pg
  <2> QED BY <1>3, <2>1
<1>6. CASE ReceiveOutput(p)
  <2> DEFINE m == Head(toPage[p])
             h == IF page[p].handlers = <<>> THEN 0 ELSE Head(page[p].handlers)
             mine == Append(page[p].got[h], m.output)
             owned == [page[p] EXCEPT !.got[h] = mine, !.shown[run[h].cell] = mine]
             added == [page[p] EXCEPT !.shown[m.cell] = Append(@, m.output)]
  <2>1. \/ page' = [page EXCEPT ![p] = owned]
        \/ page' = [page EXCEPT ![p] = added]
        \/ page' = [page EXCEPT ![p] = page[p]]
    BY <1>6 DEF ReceiveOutput
  <2>2. owned.waiting = page[p].waiting /\ added.waiting = page[p].waiting
    <3> HIDE DEF m, h, mine
    <3> QED BY <1>1 DEF Page
  <2> HIDE DEF owned, added
  <2> QED BY <1>3, <2>1, <2>2
<1>7. CASE ReceiveResult(p)
  <2> DEFINE pg == [page[p] EXCEPT !.ready = TRUE]
             less == [pg EXCEPT !.handlers = Shifted(@)]
             new == IF pg.handlers = <<>> THEN pg ELSE Settled(less, Head(pg.handlers))
  <2>1. page' = [page EXCEPT ![p] = new]
    BY <1>7 DEF ReceiveResult
  <2>2. /\ pg.waiting = page[p].waiting /\ less.waiting = page[p].waiting
        /\ "waiting" \in DOMAIN less
    BY <1>1 DEF Page
  <2> HIDE DEF less
  <2>3. \A r : Settled(less, r).waiting = less.waiting
    BY <2>2 DEF Settled
  <2> HIDE DEF pg
  <2>4. new.waiting = page[p].waiting
    BY <2>2, <2>3
  <2> HIDE DEF new
  <2> QED BY <1>3, <2>1, <2>4
<1> QED BY <1>4, <1>5, <1>6, <1>7

\* A connection that opens or breaks loses requests and leaves the session alone.
LEMMA ConnectsStep ==
    ASSUME TypeOK, IInv, NEW p \in Pages, Connect(p) \/ Break(p)
    PROVE  IInv'
<1>1. PagesFit /\ LinesFit /\ RunsFit /\ ServerFits /\ CountFits
  BY TypeParts
<1>2. Requests /\ InTurn /\ page[p] \in Page
  BY <1>1 DEF IInv, PagesFit
<1>3. \A o \in Pages : toServer[o] \in Seq(0..MaxRuns) /\ page[o].waiting \in SUBSET Runs
  BY <1>1, PageRead DEF LinesFit, PagesFit
<1>4. \A o \in Pages : \A i \in 1..Len(toServer[o]) :
         toServer[o][i] # 0 => toServer[o][i] \in Runs /\ Asks(run, o, toServer[o][i])
  BY <1>3, ElementOfSeq, Numbers, <1>2 DEF Runs, Requests
<1>5. ASSUME NEW S, run' = [r \in Runs |-> IF r \in S THEN [run[r] EXCEPT !.stage = "lost"] ELSE run[r]],
             \A r \in S \cap Runs : (run[r].stage = "asked" \/ run[r].stage = "waiting") /\ run[r].by = p,
             UNCHANGED <<channel, kernel>>, server'.tail = server.tail,
             server'.connected = server.connected, server'.status = server.status /\ server'.restart = server.restart,
             toServer'[p] = <<>> \/ toServer'[p] = << 0 >>,
             \A o \in Pages \ {p} : toServer'[o] = toServer[o],
             \A o \in Pages : page'[o].waiting \subseteq page[o].waiting,
             \A r \in S : r \notin page'[p].waiting,
             count'.runs = count.runs
      PROVE  IInv'
  <2>1. \A r \in Runs : /\ r \in S => run'[r].stage = "lost" /\ run'[r].by = run[r].by
                        /\ r \notin S => run'[r] = run[r]
    BY <1>1, <1>5 DEF RunsFit, Request
  <2>2. Aside
    BY <1>5, <2>1 DEF Quiet, Aside
  <2>3. \A o \in Pages \ {p} : \A i \in 1..Len(toServer[o]) :
          toServer[o][i] # 0 => Asks(run', o, toServer[o][i])
    <3> SUFFICES ASSUME NEW o \in Pages \ {p}, NEW i \in 1..Len(toServer[o]), toServer[o][i] # 0
                 PROVE  Asks(run', o, toServer[o][i])
      OBVIOUS
    <3>1. toServer[o][i] \in Runs /\ Asks(run, o, toServer[o][i])
      BY <1>4
    <3>2. toServer[o][i] \notin S
      BY <1>5, <3>1 DEF Asks
    <3> QED BY <2>1, <3>1, <3>2 DEF Asks
  <2>4. \A o \in Pages : \A i \in 1..Len(toServer'[o]) : toServer'[o][i] # 0 => Asks(run', o, toServer'[o][i])
    <3> SUFFICES ASSUME NEW o \in Pages, NEW i \in 1..Len(toServer'[o]), toServer'[o][i] # 0
                 PROVE  Asks(run', o, toServer'[o][i])
      OBVIOUS
    <3>1. o # p
      BY <1>5
    <3> QED BY <1>5, <2>3, <3>1
  <2>5. \A o \in Pages : \A i, j \in 1..Len(toServer'[o]) :
          toServer'[o][i] # 0 /\ toServer'[o][i] = toServer'[o][j] => i = j
    <3> SUFFICES ASSUME NEW o \in Pages, NEW i \in 1..Len(toServer'[o]), NEW j \in 1..Len(toServer'[o]),
                        toServer'[o][i] # 0, toServer'[o][i] = toServer'[o][j]
                 PROVE  i = j
      OBVIOUS
    <3>1. o # p
      BY <1>5
    <3> QED BY <1>2, <1>5, <3>1 DEF Requests
  <2>6. \A o \in Pages : \A r \in page'[o].waiting : Waits(o, r)'
    <3> SUFFICES ASSUME NEW o \in Pages, NEW r \in page'[o].waiting PROVE Waits(o, r)'
      OBVIOUS
    <3>1. r \in page[o].waiting /\ r \in Runs
      BY <1>3, <1>5
    <3>2. Waits(o, r)
      BY <1>2, <3>1 DEF Requests
    <3>3. r \notin S
      BY <1>5, <3>1, <3>2 DEF Waits
    <3> QED BY <2>1, <3>1, <3>2, <3>3 DEF Waits
  <2>7. \A r \in Runs : r > count'.runs => run'[r].stage = "none"
    <3> SUFFICES ASSUME NEW r \in Runs, r > count.runs PROVE run'[r].stage = "none"
      BY <1>5
    <3>1. run[r].stage = "none"
      BY <1>2 DEF Requests
    <3>2. r \notin S
      BY <1>5, <3>1
    <3> QED BY <2>1, <3>1, <3>2
  <2>8. Requests'
    BY <2>4, <2>5, <2>6, <2>7 DEF Requests
  <2> QED BY <1>2, <2>2, <2>8, AsideStep DEF IInv
<1>6. CASE Connect(p)
  <2> DEFINE pg == [page[p] EXCEPT !.synced = FALSE, !.ready = TRUE, !.waiting = {}]
             S == page[p].waiting
  <2>1. /\ toServer' = [toServer EXCEPT ![p] = << 0 >>] /\ page' = [page EXCEPT ![p] = pg]
        /\ run' = [r \in Runs |-> IF r \in S THEN [run[r] EXCEPT !.stage = "lost"] ELSE run[r]]
        /\ UNCHANGED <<server, channel, kernel, count>>
    BY <1>1, <1>6 DEF Connect, PagesFit
  <2>2. pg.waiting = {}
    BY <1>2 DEF Page
  <2> HIDE DEF pg
  <2>3. /\ \A o \in Pages : page'[o].waiting \subseteq page[o].waiting
        /\ page'[p].waiting = {}
    BY <1>1, <2>1, <2>2 DEF PagesFit
  <2>4. toServer'[p] = << 0 >> /\ \A o \in Pages \ {p} : toServer'[o] = toServer[o]
    BY <1>1, <2>1 DEF LinesFit
  <2>5. \A r \in S \cap Runs : run[r].stage = "waiting" /\ run[r].by = p
    BY <1>2 DEF Requests, Waits
  <2> HIDE DEF S
  <2>6. \A r \in S : r \notin page'[p].waiting
    BY <2>3
  <2> QED BY <1>5, <2>1, <2>3, <2>4, <2>5, <2>6
<1>7. CASE Break(p)
  <2> DEFINE pg == [page[p] EXCEPT !.ready = FALSE]
             S == ToSet(toServer[p])
  <2>1. /\ toServer' = [toServer EXCEPT ![p] = <<>>] /\ page' = [page EXCEPT ![p] = pg]
        /\ run' = [r \in Runs |-> IF r \in S THEN [run[r] EXCEPT !.stage = "lost"] ELSE run[r]]
        /\ server' = [server EXCEPT !.subscribed = @ \ {p}]
        /\ count' = [count EXCEPT !.troubles = @ + 1]
        /\ UNCHANGED <<channel, kernel>>
    BY <1>1, <1>7 DEF Break, PagesFit, Trouble
  <2>2. pg.waiting = page[p].waiting
    BY <1>2 DEF Page
  <2> HIDE DEF pg
  <2>3. \A o \in Pages : page'[o].waiting = page[o].waiting
    BY <1>1, <2>1, <2>2 DEF PagesFit
  <2>4. toServer'[p] = <<>> /\ \A o \in Pages \ {p} : toServer'[o] = toServer[o]
    BY <1>1, <2>1 DEF LinesFit
  <2>5. \A r \in S \cap Runs : run[r].stage = "asked" /\ run[r].by = p
    <3> SUFFICES ASSUME NEW r \in S, r \in Runs PROVE run[r].stage = "asked" /\ run[r].by = p
      OBVIOUS
    <3>1. PICK i \in 1..Len(toServer[p]) : toServer[p][i] = r
      BY <1>3 DEF ToSet
    <3>2. r # 0
      BY Numbers
    <3> QED BY <1>4, <3>1, <3>2 DEF Asks
  <2>6. \A r \in S : r \notin page'[p].waiting
    BY <1>2, <1>3, <2>3, <2>5 DEF Requests, Waits
  <2>7. /\ server'.tail = server.tail /\ server'.connected = server.connected
        /\ server'.status = server.status /\ server'.restart = server.restart /\ count'.runs = count.runs
    BY <1>1, <2>1 DEF ServerFits, Session, CountFits
  <2> HIDE DEF S
  <2> QED BY <1>5, <2>1, <2>3, <2>4, <2>5, <2>6, <2>7
<1> QED BY <1>6, <1>7

\* A request for the outputs changes no run.
LEMMA SyncStep ==
    ASSUME TypeOK, IInv, NEW p \in Pages, SyncOutputs(p)
    PROVE  IInv'
<1>1. /\ TakeRequest(p) /\ server' = [server EXCEPT !.subscribed = Subscribed(p)]
      /\ UNCHANGED <<page, run, channel, kernel, count>>
  BY DEF SyncOutputs
<1>2. Requests'
  BY <1>1, RequestTaken DEF IInv
<1>3. server'.tail = server.tail /\ server'.connected = server.connected /\ server'.status = server.status /\ server'.restart = server.restart
  BY <1>1, TypeParts DEF ServerFits, Session
<1>4. Aside
  BY <1>1, <1>3 DEF Aside
<1> QED BY <1>2, <1>4, AsideStep DEF IInv

\* An execution that is new in the session waits for the last one.
LEMMA QueuedStep ==
    ASSUME TypeOK, InTurn, Calm, NEW r \in Runs, Quiet(r),
           \A s \in Runs \ {r} : run'[s] = run[s],
           run'[r].stage = "queued", run'[r].after = server.tail,
           server' = [server EXCEPT !.tail = r], UNCHANGED <<channel, kernel>>
    PROVE  InTurn'
<1>1. server'.tail = r /\ server'.connected = server.connected /\ server'.status = server.status /\ server'.restart = server.restart
  BY TypeParts DEF ServerFits, Session
<1>2. Chained'
  <2>1. PICK q \in Seq(Runs) : Chain(q)
    BY DEF InTurn, Chained
  <2>2. server.tail = 0 => q = <<>>
    <3> SUFFICES ASSUME q # <<>> PROVE server.tail # 0
      OBVIOUS
    <3>1. run[q[1]].stage = "running" /\ q[1] \in Runs
      BY <2>1, ChainCalm
    <3>2. server.connected
      BY <3>1 DEF InTurn, Connected
    <3> QED BY <2>1, <3>2 DEF Chain
  <2>3. Chain(Append(q, r))'
    BY <1>1, <2>1, <2>2, ChainGrows
  <2>4. Append(q, r) \in Seq(Runs)
    BY AppendProperties
  <2> QED BY <2>3, <2>4 DEF Chained
<1>3. \A s \in Runs : run'[s].stage \in {"running", "cut"} <=> run[s].stage \in {"running", "cut"}
  BY DEF Quiet
<1>4. \A s \in Runs : run[s].stage \in {"running", "cut"} => run'[s] = run[s]
  BY DEF Quiet
<1>5. Connected'
  BY <1>1, <1>3, <1>4 DEF InTurn, Connected, Attached
<1>6. AtKernel'
  BY <1>4 DEF InTurn, AtKernel, Quiet
<1>7. EndAhead'
  BY <1>3, <1>4 DEF InTurn, EndAhead
<1> QED BY <1>2, <1>5, <1>6, <1>7 DEF InTurn

\* The server takes a page's request, or an agent's, into the chain.
LEMMA ExecuteStep ==
    ASSUME TypeOK, IInv, (\E p \in Pages : Execute(p)) \/ \E c \in Cells : AgentRun(c)
    PROVE  IInv'
<1>1. RunsFit /\ LinesFit /\ CountFits /\ PagesFit /\ Requests /\ InTurn
  BY TypeParts DEF IInv
<1>2. ASSUME NEW p \in Pages, Execute(p) PROVE IInv'
  <2> DEFINE r == Head(toServer[p])
  <2>1. /\ TakeRequest(p) /\ r # 0
        /\ run' = [run EXCEPT ![r].stage = "queued", ![r].after = server.tail]
        /\ server' = [server EXCEPT !.tail = r]
        /\ UNCHANGED <<page, channel, kernel, count>>
    BY <1>2 DEF Execute, Predecessor
  <2>2. r \in Runs /\ Asks(run, p, r)
    <3>1. toServer[p] \in Seq(0..MaxRuns) /\ toServer[p] # <<>>
      BY <1>1, <2>1 DEF LinesFit, TakeRequest
    <3>2. 1 \in 1..Len(toServer[p]) /\ r = toServer[p][1] /\ r \in 0..MaxRuns
      <4>1. Len(toServer[p]) \in Nat /\ Len(toServer[p]) # 0
        BY <3>1
      <4>2. Head(toServer[p]) = toServer[p][1]
        BY <3>1
      <4>3. 1 \in 1..Len(toServer[p])
        BY <4>1
      <4>4. toServer[p][1] \in 0..MaxRuns
        BY <3>1, <4>3, ElementOfSeq
      <4> QED BY <4>2, <4>3, <4>4
    <3>3. Asks(run, p, r)
      BY <1>1, <2>1, <3>2 DEF Requests
    <3> QED BY <2>1, <3>2, <3>3, Numbers DEF Runs
  <2> DEFINE t == r
  <2>3. /\ run'[r].stage = "queued" /\ run'[r].after = server.tail
        /\ \A s \in Runs \ {r} : run'[s] = run[s]
    <3> HIDE DEF r
    <3> QED BY <1>1, <2>1, <2>2 DEF RunsFit, Request
  <2>4. Requests'
    BY <2>3, <1>1, <2>1, RequestTaken
  <2>5. Calm
    BY <2>1 DEF TakeRequest
  <2> HIDE DEF r
  <2>6. Quiet(r)
    BY <2>2 DEF Asks, Quiet
  <2>7. InTurn'
    BY <1>1, <2>1, <2>2, <2>3, <2>5, <2>6, QueuedStep
  <2> QED BY <2>4, <2>7 DEF IInv
<1>3. ASSUME NEW c \in Cells, AgentRun(c) PROVE IInv'
  <2> DEFINE r == count.runs + 1
  <2>1. /\ Calm /\ NewRun(Agent, c, "queued", server.tail)
        /\ server' = [server EXCEPT !.tail = r]
        /\ UNCHANGED <<page, toServer, channel, kernel>>
    BY <1>3 DEF AgentRun, Predecessor
  <2>2. /\ r \in Runs /\ Quiet(r) /\ run[r].stage = "none" /\ count'.runs = r
        /\ run'[r].stage = "queued" /\ run'[r].after = server.tail
        /\ \A s \in Runs \ {r} : run'[s] = run[s]
    BY <1>1, <2>1, NewAside
  <2>3. \A s \in Runs : s > r => s # r /\ s > count.runs
    BY <1>1, Numbers DEF Runs, CountFits
  <2> HIDE DEF r
  <2>4. InTurn'
    BY <1>1, <2>1, <2>2, QueuedStep
  <2>5. \A o \in Pages : \A i \in 1..Len(toServer[o]) : toServer[o][i] # 0 => Asks(run', o, toServer[o][i])
    <3> SUFFICES ASSUME NEW o \in Pages, NEW i \in 1..Len(toServer[o]), toServer[o][i] # 0
                 PROVE  Asks(run', o, toServer[o][i])
      OBVIOUS
    <3>1. toServer[o][i] \in Runs
      BY <1>1, ElementOfSeq, Numbers DEF Runs, LinesFit
    <3>2. Asks(run, o, toServer[o][i])
      BY <1>1 DEF Requests
    <3> QED BY <2>2, <3>1, <3>2 DEF Asks
  <2>6. \A o \in Pages : \A s \in page[o].waiting : Waits(o, s)'
    <3> SUFFICES ASSUME NEW o \in Pages, NEW s \in page[o].waiting PROVE Waits(o, s)'
      OBVIOUS
    <3>1. s \in Runs /\ Waits(o, s)
      BY <1>1, PageRead DEF Requests, PagesFit
    <3> QED BY <2>2, <3>1 DEF Waits
  <2>7. \A s \in Runs : s > count'.runs => run'[s].stage = "none"
    BY <1>1, <2>2, <2>3 DEF Requests
  <2>8. Requests'
    BY <1>1, <2>1, <2>5, <2>6, <2>7 DEF Requests
  <2> QED BY <2>4, <2>8 DEF IInv
<1> QED BY <1>2, <1>3

\* What the session and the kernel do touches no request on its way.
LEMMA ServesRequests ==
    ASSUME TypeOK, IInv,
           \/ \E r \in Runs : Begin(r) \/ Take(r) \/ CutShort(r) \/ PrintsLate(r)
           \/ Restarts \/ Hears \/ Prints \/ Raises \/ Finishes
    PROVE  Requests'
<1>1. RunsFit /\ CountFits /\ Requests
  BY TypeParts DEF IInv
<1>2. UNCHANGED <<page, toServer>>
  BY DEF Begin, Take, CutShort, PrintsLate, Restarts, Restart, RestartGivesUp, RestartConnects, RestartDone, RestartFails,
         RestartEnds, Dies, Hears, Prints, Raises, Finishes
<1>3. count'.runs = count.runs
  <2>1. UNCHANGED count \/ Trouble
    BY DEF Begin, Take, CutShort, PrintsLate, Restarts, Restart, RestartGivesUp, RestartConnects, RestartDone, RestartFails,
           RestartEnds, Dies, Hears, Prints, Raises, Finishes
  <2> QED BY <1>1, <2>1 DEF Trouble, CountFits
<1>4. \A s \in Runs : run[s].stage \in {"none", "waiting", "asked"} =>
         run'[s].stage = run[s].stage /\ run'[s].by = run[s].by
  <2>1. ASSUME NEW r \in Runs, Begin(r) \/ Take(r) \/ CutShort(r), NEW s \in Runs,
               run[s].stage \in {"none", "waiting", "asked"}
        PROVE  run'[s] = run[s]
    <3>1. s # r
      BY <2>1 DEF Begin, CanBegin, Take, CutShort
    <3>2. \/ UNCHANGED run
          \/ run' = [run EXCEPT ![r].stage = "ended", ![r].after = 0]
          \/ run' = [run EXCEPT ![r].stage = "running", ![r].after = 0]
      BY <2>1 DEF Begin, Take, CutShort, Failed, Ended
    <3> QED BY <1>1, <3>1, <3>2 DEF RunsFit
  <2>2. ASSUME Restart \/ RestartFails \/ Dies, NEW s \in Runs, run[s].stage \in {"none", "waiting", "asked"}
        PROVE  run'[s] = run[s]
    BY <2>2 DEF Restart, RestartFails, Dies, Closed
  <2>3. ASSUME \/ RestartGivesUp \/ RestartConnects \/ RestartDone \/ RestartEnds
               \/ Hears \/ Prints \/ Raises \/ Finishes
               \/ \E r \in Runs : PrintsLate(r)
        PROVE  UNCHANGED run
    BY <2>3 DEF RestartGivesUp, RestartConnects, RestartDone, RestartEnds, Hears, Prints, Raises, Finishes, PrintsLate
  <2> QED BY <2>1, <2>2, <2>3 DEF Restarts
<1>5. \A p \in Pages : page'[p].waiting \subseteq page[p].waiting
  BY <1>2
<1> QED BY <1>1, <1>2, <1>3, <1>4, <1>5, RequestsKept

\* The invariant is inductive.
LEMMA IInvStep == TypeOK /\ IInv /\ [Next]_vars => IInv'
<1> SUFFICES ASSUME TypeOK, IInv, [Next]_vars PROVE IInv'
  OBVIOUS
<1>1. CASE UNCHANGED vars
  BY <1>1, StillAside DEF vars
<1>2. ASSUME NEW p \in Pages,
             \/ \E c \in Cells : QueueExecution(p, c)
             \/ ProcessNext(p) \/ RunHint(p) \/ Interrupt(p)
             \/ \E r \in Runs : WaitOver(p, r) \/ WaitThrows(p, r)
      PROVE  IInv'
  BY <1>2, AsksStep
<1>3. ASSUME NEW p \in Pages, ReceiveDead(p) \/ ReceiveSync(p) \/ ReceiveOutput(p) \/ ReceiveResult(p)
      PROVE  IInv'
  BY <1>3, ReceivesStep
<1>4. ASSUME NEW p \in Pages, Connect(p) \/ Break(p) PROVE IInv'
  BY <1>4, ConnectsStep
<1>5. ASSUME NEW p \in Pages, SyncOutputs(p) PROVE IInv'
  BY <1>5, SyncStep
<1>6. CASE (\E p \in Pages : Execute(p)) \/ \E c \in Cells : AgentRun(c)
  BY <1>6, ExecuteStep
<1>7. ASSUME NEW r \in Runs, Begin(r) \/ Take(r) \/ CutShort(r) PROVE IInv'
  BY <1>7, ServesRequests, BeginStep, TakeStep, CutStep DEF IInv
<1>8. CASE Restarts
  BY <1>8, ServesRequests, RestartsStep DEF IInv
<1>9. CASE Hears \/ Prints \/ Raises \/ Finishes \/ \E r \in Runs : PrintsLate(r)
  BY <1>9, ServesRequests, KernelStep DEF IInv
<1> QED BY <1>1, <1>2, <1>3, <1>4, <1>5, <1>6, <1>7, <1>8, <1>9 DEF Next, Restarts

\* In the beginning nothing is asked and nothing runs.
LEMMA IInvInit == Init => IInv
<1> SUFFICES ASSUME Init PROVE IInv
  OBVIOUS
<1>1. \A r \in Runs : run[r].stage = "none"
  BY DEF Init
<1>2. /\ \A p \in Pages : toServer[p] = <<>> /\ page[p].waiting = {}
      /\ kernel.queue = <<>> /\ \A r \in Runs : channel[r] = <<>>
  BY DEF Init
<1>3. server.status = "idle" /\ server.connected /\ server.restart = "none" /\ server.tail = 0
  BY DEF Init
<1>4. Requests
  BY <1>1, <1>2 DEF Requests
<1>5. Chained
  <2>1. Chain(<<>>)
    BY <1>1, <1>3 DEF Chain, Active
  <2>2. <<>> \in Seq(Runs)
    OBVIOUS
  <2> QED BY <2>1, <2>2 DEF Chained
<1>6. Connected /\ AtKernel /\ EndAhead
  BY <1>1, <1>2, <1>3 DEF Connected, Attached, AtKernel, EndAhead
<1> QED BY <1>4, <1>5, <1>6 DEF IInv, InTurn

\* The invariant holds always.
THEOREM Invariance == Spec => []IInv
<1>1. Init => IInv
  BY IInvInit
<1>2. TypeOK /\ IInv /\ [Next]_vars => IInv'
  BY IInvStep
<1> QED BY <1>1, <1>2, TypeCorrect, PTL DEF Spec

\* The executions of a session take turns: across pages, hints, agents, failures,
\* restarts and deaths the kernel never has a second request, and no two executions
\* await it.
THEOREM TurnsAreKept == Spec => []OneAtATime
<1>1. IInv => OneAtATime
  <2> SUFFICES ASSUME IInv PROVE OneAtATime
    OBVIOUS
  <2>1. Len(kernel.queue) <= 1
    <3>1. kernel.queue = <<>> \/ \E r \in Runs : kernel.queue = <<r>>
      BY DEF IInv, InTurn, AtKernel
    <3>2. Len(<<>>) <= 1 /\ \A r \in Runs : Len(<<r>>) <= 1
      OBVIOUS
    <3> QED BY <3>1, <3>2
  <2>2. \A r, s \in Runs : run[r].stage = "running" /\ run[s].stage = "running" => r = s
    BY OneHead DEF IInv, InTurn
  <2> QED BY <2>1, <2>2 DEF OneAtATime
<1> QED BY <1>1, Invariance, PTL

\* An execution that awaits the kernel has its end before it, also where a full
\* channel has lost messages and where the kernel has been restarted or has died, unless
\* the end came before the iopub socket of a restarted kernel.
THEOREM EndsAreReached == Spec => []EndComes
<1>1. TypeOK /\ IInv => EndComes
  <2> SUFFICES ASSUME TypeOK, IInv, NEW r \in Runs, run[r].stage = "running"
               PROVE  \/ r \in ToSet(kernel.queue)
                      \/ Idle \in ToSet(channel[r])
                      \/ kernel.late[r] >= MaxChannel
                      \/ r \in kernel.unheard
    BY DEF EndComes
  <2>1. kernel.queue = <<r>> => r \in ToSet(kernel.queue)
    <3>1. r \in ToSet(<<r>>)
      BY DEF ToSet
    <3> QED BY <3>1
  <2>2. (\E i \in 1..Len(channel[r]) : channel[r][i] = Idle) => Idle \in ToSet(channel[r])
    BY TypeParts DEF ChannelsFit, ToSet
  <2> QED BY <2>1, <2>2 DEF IInv, InTurn, EndAhead
<1> QED BY <1>1, TypeCorrect, Invariance, PTL


-----------------------------------------------------------------------------
(* Results among messages *)

RunOrNone == 0..MaxRuns

\* A result names a run.
LEMMA ResultRead == \A m \in Message : m.type = "result" => m.run \in RunOrNone
BY DEF Message, RunOrNone

\* A run behind two sequences of runs
LEMMA RunBehind ==
    \A s, t \in Seq(RunOrNone) : \A r \in RunOrNone : Append(s \o t, r) = s \o Append(t, r)
<1> TAKE s, t \in Seq(RunOrNone)
<1> TAKE r \in RunOrNone
<1>1. <<r>> \in Seq(RunOrNone) /\ s \o t \in Seq(RunOrNone)
  BY ConcatProperties
<1>2. Append(s \o t, r) = (s \o t) \o <<r>>
  BY <1>1, AppendIsConcat
<1>3. Append(t, r) = t \o <<r>>
  BY AppendIsConcat
<1>4. (s \o t) \o <<r>> = s \o (t \o <<r>>)
  BY <1>1, ConcatAssociative
<1> QED BY <1>2, <1>3, <1>4

\* Induction over the natural numbers.
LEMMA Induction ==
    ASSUME NEW S, 0 \in S, \A n \in Nat : n \in S => n + 1 \in S
    PROVE  Nat \subseteq S
<1> DEFINE T == {n \in Nat : n \notin S}
           R == OpToRel(<, Nat)
<1>1. IsWellFoundedOn(R, Nat)
  BY NatLessThanWellFounded
<1>2. \A x, y \in Nat : <<x, y>> \in R <=> x < y
  BY DEF OpToRel
<1> HIDE DEF R
<1>3. ASSUME T # {} PROVE FALSE
  <2>1. PICK m \in T : \A k \in T : ~ (<<k, m>> \in R)
    BY <1>1, <1>3, WFMin
  <2>2. m # 0 /\ m - 1 \in Nat /\ m - 1 < m /\ m = (m - 1) + 1
    BY <2>1
  <2>3. m - 1 \in S
    BY <1>2, <2>1, <2>2
  <2> QED BY <2>1, <2>2, <2>3
<1> QED BY <1>3

\* g is the sequence of the results among the first messages of s.
Grows(s, g, n) ==
    \A i \in 0..n : g[i] = IF i = 0 THEN <<>>
                           ELSE IF s[i].type = "result" THEN Append(g[i - 1], s[i].run) ELSE g[i - 1]

\* There is such a sequence.
LEMMA ResultsExist ==
    ASSUME NEW s \in Seq(Message)
    PROVE  \E g \in [0..Len(s) -> Seq(RunOrNone)] : Grows(s, g, Len(s))
<1> DEFINE Q(n) == n <= Len(s) => \E g \in [0..n -> Seq(RunOrNone)] : Grows(s, g, n)
           S == {n \in Nat : Q(n)}
<1>1. 0 \in S
  <2>1. Grows(s, [i \in 0..0 |-> <<>>], 0) /\ [i \in 0..0 |-> <<>>] \in [0..0 -> Seq(RunOrNone)]
    BY DEF Grows
  <2>2. Q(0)
    BY <2>1
  <2> QED BY <2>2
<1>2. ASSUME NEW n \in Nat, n \in S PROVE n + 1 \in S
  <2> SUFFICES ASSUME n + 1 <= Len(s) PROVE \E g \in [0..n + 1 -> Seq(RunOrNone)] : Grows(s, g, n + 1)
    OBVIOUS
  <2>1. PICK g \in [0..n -> Seq(RunOrNone)] : Grows(s, g, n)
    BY <1>2
  <2> DEFINE x == IF s[n + 1].type = "result" THEN Append(g[n], s[n + 1].run) ELSE g[n]
             h == [i \in 0..n + 1 |-> IF i = n + 1 THEN x ELSE g[i]]
  <2>2. x \in Seq(RunOrNone)
    <3>1. s[n + 1] \in Message
      OBVIOUS
    <3> QED BY <2>1, <3>1, ResultRead
  <2>3. h[n + 1] = x
    OBVIOUS
  <2>4. \A i \in 0..n : h[i] = g[i] /\ (i # 0 => h[i - 1] = g[i - 1])
    OBVIOUS
  <2>5. h \in [0..n + 1 -> Seq(RunOrNone)]
    BY <2>1, <2>2
  <2>6. Grows(s, h, n + 1)
    <3>1. \A i \in 0..n : h[i] = IF i = 0 THEN <<>>
                           ELSE IF s[i].type = "result" THEN Append(h[i - 1], s[i].run) ELSE h[i - 1]
      <4> HIDE DEF h
      <4> QED BY <2>1, <2>4 DEF Grows
    <3>2. n + 1 # 0 /\ (n + 1) - 1 = n /\ h[n] = g[n] /\ \A i \in 0..n + 1 : i \in 0..n \/ i = n + 1
      BY <2>4
    <3> HIDE DEF h
    <3> QED BY <2>3, <3>1, <3>2 DEF Grows
  <2> QED BY <2>5, <2>6
<1> HIDE DEF S
<1>3. Len(s) \in S
  BY <1>1, <1>2, Induction
<1> QED BY <1>3 DEF S

\* It depends on those messages only.
LEMMA ResultsUnique ==
    ASSUME NEW s, NEW t, NEW n \in Nat, NEW m \in Nat, n <= m, NEW g, NEW h, Grows(s, g, n), Grows(t, h, m),
           \A i \in 1..n : s[i] = t[i]
    PROVE  \A i \in 0..n : g[i] = h[i]
<1> DEFINE S == {i \in Nat : i <= n => g[i] = h[i]}
<1>1. 0 \in S
  BY DEF Grows
<1>2. ASSUME NEW i \in Nat, i \in S PROVE i + 1 \in S
  <2> SUFFICES ASSUME i + 1 <= n PROVE g[i + 1] = h[i + 1]
    OBVIOUS
  <2>1. i + 1 \in 0..n /\ i + 1 \in 0..m /\ i + 1 # 0 /\ (i + 1) - 1 = i /\ s[i + 1] = t[i + 1] /\ g[i] = h[i]
    BY <1>2
  <2> QED BY <2>1 DEF Grows
<1> HIDE DEF S
<1>3. Nat \subseteq S
  BY <1>1, <1>2, Induction
<1> QED BY <1>3 DEF S

\* It is the one that Results takes.
LEMMA ResultsAre ==
    ASSUME NEW s \in Seq(Message), NEW g, Grows(s, g, Len(s))
    PROVE  Results(s) = g[Len(s)] /\ Results(s) \in Seq(RunOrNone)
<1> DEFINE P(k) == k = [i \in 0..Len(s) |-> IF i = 0 THEN <<>>
                              ELSE IF s[i].type = "result" THEN Append(k[i - 1], s[i].run) ELSE k[i - 1]]
           f == CHOOSE k : P(k)
<1>1. Results(s) = f[Len(s)]
  BY DEF Results
<1>2. PICK h \in [0..Len(s) -> Seq(RunOrNone)] : Grows(s, h, Len(s))
  BY ResultsExist
<1>3. P(h)
  BY <1>2 DEF Grows
<1>4. P(f)
  BY <1>3
<1>5. Grows(s, f, Len(s))
  <2> HIDE DEF f
  <2> QED BY <1>4 DEF Grows
<1> HIDE DEF f
<1>6. f[Len(s)] = g[Len(s)] /\ f[Len(s)] = h[Len(s)]
  BY <1>2, <1>5, ResultsUnique
<1> QED BY <1>1, <1>2, <1>6

\* A message behind the others
LEMMA ResultsAppend ==
    ASSUME NEW s \in Seq(Message), NEW m \in Message
    PROVE  Results(Append(s, m)) = IF m.type = "result" THEN Append(Results(s), m.run) ELSE Results(s)
<1> DEFINE t == Append(s, m)
<1>1. t \in Seq(Message) /\ Len(t) = Len(s) + 1 /\ t[Len(s) + 1] = m /\ \A i \in 1..Len(s) : t[i] = s[i]
  BY AppendProperties
<1> HIDE DEF t
<1>2. PICK g \in [0..Len(t) -> Seq(RunOrNone)] : Grows(t, g, Len(t))
  BY <1>1, ResultsExist
<1>3. Grows(s, g, Len(s))
  <2>1. \A i \in 0..Len(s) : i \in 0..Len(t) /\ (i # 0 => s[i] = t[i])
    BY <1>1
  <2> QED BY <1>2, <2>1 DEF Grows
<1>4. Results(s) = g[Len(s)] /\ Results(t) = g[Len(s) + 1]
  BY <1>1, <1>2, <1>3, ResultsAre
<1>5. Len(s) + 1 \in 0..Len(t) /\ Len(s) + 1 # 0 /\ (Len(s) + 1) - 1 = Len(s)
  BY <1>1
<1>6. g[Len(s) + 1] = IF m.type = "result" THEN Append(g[Len(s)], m.run) ELSE g[Len(s)]
  BY <1>1, <1>2, <1>5 DEF Grows
<1> QED BY <1>4, <1>6 DEF t

\* No messages, no results
LEMMA ResultsEmpty == Results(<<>>) = <<>>
<1>1. Grows(<<>>, [i \in 0..0 |-> <<>>], 0)
  BY DEF Grows
<1> QED BY <1>1, ResultsAre

\* A message before the others
LEMMA ResultsTail ==
    ASSUME NEW s \in Seq(Message), s # <<>>
    PROVE  Results(s) = (IF Head(s).type = "result" THEN <<Head(s).run>> ELSE <<>>) \o Results(Tail(s))
<1> DEFINE t == Tail(s)
           x == IF Head(s).type = "result" THEN <<Head(s).run>> ELSE <<>>
<1>1. /\ t \in Seq(Message) /\ Len(s) = Len(t) + 1 /\ Head(s) = s[1] /\ Head(s) \in Message
      /\ \A i \in 1..Len(t) : t[i] = s[i + 1]
  BY HeadTailProperties
<1>2. x \in Seq(RunOrNone)
  BY <1>1, ResultRead
<1> HIDE DEF t
<1>3. PICK g \in [0..Len(s) -> Seq(RunOrNone)] : Grows(s, g, Len(s))
  BY ResultsExist
<1>4. PICK h \in [0..Len(t) -> Seq(RunOrNone)] : Grows(t, h, Len(t))
  BY <1>1, ResultsExist
<1> DEFINE Q(i) == i <= Len(t) => g[i + 1] = x \o h[i]
           S == {i \in Nat : Q(i)}
<1>5. 0 \in S
  <2>1. g[0] = <<>> /\ g[1] = IF s[1].type = "result" THEN Append(g[0], s[1].run) ELSE g[0]
    <3>1. 0 \in 0..Len(s) /\ 1 \in 0..Len(s) /\ 1 - 1 = 0
      BY <1>1
    <3> QED BY <1>3, <3>1 DEF Grows
  <2>2. g[1] = x
    BY <1>1, <2>1
  <2>3. h[0] = <<>>
    <3>1. 0 \in 0..Len(t)
      BY <1>1
    <3> QED BY <1>4, <3>1 DEF Grows
  <2> HIDE DEF x
  <2>4. x \o <<>> = x
    BY <1>2
  <2>5. Q(0)
    BY <2>2, <2>3, <2>4
  <2> QED BY <2>5
<1>6. ASSUME NEW i \in Nat, i \in S PROVE i + 1 \in S
  <2> HIDE DEF x
  <2>0. Q(i)
    BY <1>6
  <2> SUFFICES ASSUME i + 1 <= Len(t) PROVE g[i + 1 + 1] = x \o h[i + 1]
    OBVIOUS
  <2>1. g[i + 1] = x \o h[i]
    BY <1>1, <2>0
  <2>2. /\ i + 1 \in 0..Len(t) /\ (i + 1) - 1 = i /\ i + 1 # 0 /\ t[i + 1] = s[i + 1 + 1]
        /\ i + 1 + 1 \in 0..Len(s) /\ (i + 1 + 1) - 1 = i + 1 /\ i + 1 + 1 # 0 /\ i \in 0..Len(t)
    BY <1>1
  <2>3. h[i + 1] = IF t[i + 1].type = "result" THEN Append(h[i], t[i + 1].run) ELSE h[i]
    BY <1>4, <2>2 DEF Grows
  <2>4. g[i + 1 + 1] = IF t[i + 1].type = "result" THEN Append(g[i + 1], t[i + 1].run) ELSE g[i + 1]
    BY <1>3, <2>2 DEF Grows
  <2>5. h[i] \in Seq(RunOrNone)
    BY <1>4, <2>2
  <2>6. t[i + 1].type = "result" => t[i + 1].run \in RunOrNone
    BY <1>1, <2>2, ResultRead
  <2>7. \A y \in Seq(RunOrNone), r \in RunOrNone : Append(x \o y, r) = x \o Append(y, r)
    BY <1>2, RunBehind
  <2> QED BY <2>1, <2>3, <2>4, <2>5, <2>6, <2>7
<1> HIDE DEF S
<1>7. Len(t) \in S
  <2>1. 0 \in S /\ \A i \in Nat : i \in S => i + 1 \in S
    BY <1>5, <1>6
  <2>2. Nat \subseteq S
    BY <2>1, Induction
  <2> QED BY <1>1, <2>2
<1>8. g[Len(s)] = x \o h[Len(t)]
  BY <1>1, <1>7 DEF S
<1> HIDE DEF x
<1>9. Results(s) = g[Len(s)] /\ Results(t) = h[Len(t)]
  BY <1>1, <1>3, <1>4, ResultsAre
<1> QED BY <1>8, <1>9 DEF t, x


-----------------------------------------------------------------------------
(* The pages and the results they wait for *)

\* A page without a connection is not ready, and nothing is on its way from or to it.
Joined == \A p \in Pages : ~link[p] => toPage[p] = <<>> /\ toServer[p] = <<>> /\ ~page[p].ready

\* The stages of a run that has a handler, and the runs that will have a result
Handled == Active \cup {"asked", "ended"}
Coming(p) == {r \in Runs : run[r].by = p /\ run[r].stage \in {"asked", "queued", "running", "cut"}}

\* Without a connection nothing is in progress.  Every handler is that of a run of this
\* page; what is processed has one or waits; and there are not more than results to come.
Idles(p) == ~link[p] => page[p].handlers = <<>> /\ page[p].waiting = {}
Owned(p) == \A i \in 1..Len(page[p].handlers) :
              run[page[p].handlers[i]].by = p /\ run[page[p].handlers[i]].stage \in Handled
Busy(p) == page[p].processing =>
             \/ \E r \in page[p].waiting : run[r].cell # NoCell
             \/ \E i \in 1..Len(page[p].handlers) : run[page[p].handlers[i]].cell # NoCell
Enough(p) == Len(page[p].handlers) <= Cardinality(Coming(p)) + Len(Results(toPage[p]))

\* The handlers of a page that makes all the runs are, in this order, those of the
\* results on their way, of the chain, and of the requests on their way.
Split(p, q, c) ==
    /\ Chain(q) /\ toServer[p] \in {c, << 0 >> \o c}
    /\ page[p].handlers = Results(toPage[p]) \o (q \o c)
Ordered(p) == Alone(p) => \E q, c \in Seq(Runs) : Split(p, q, c)

Steady(p) == Idles(p) /\ Owned(p) /\ Busy(p) /\ Enough(p) /\ Ordered(p)
Flows == Joined /\ \A p \in Pages \ dropped : Steady(p)

\* What a step may do to the runs that were made, and to those of a page
Evolves == \A r \in Runs : run[r].stage # "none" =>
             run'[r].by = run[r].by /\ run'[r].cell = run[r].cell /\ run'[r].stage # "none"
GoesOn(p) == \A r \in Runs : run[r].by = p /\ run[r].stage \in Handled => run'[r].stage \in Handled

\* Whoever makes all the runs has made all of them before.
LEMMA AloneBefore == ASSUME NEW p, Evolves, Alone(p)' PROVE Alone(p)
BY DEF Evolves, Alone

\* The results that will come are finitely many.
LEMMA ComingFinite ==
    ASSUME NEW p
    PROVE  IsFiniteSet(Coming(p)) /\ Cardinality(Coming(p)) \in Nat /\ IsFiniteSet(Coming(p)') /\ Cardinality(Coming(p)') \in Nat
<1>1. IsFiniteSet(Runs)
  BY FS_Interval, Numbers DEF Runs
<1>2. Coming(p) \subseteq Runs /\ Coming(p)' \subseteq Runs
  BY DEF Coming
<1>3. IsFiniteSet(Coming(p)) /\ IsFiniteSet(Coming(p)')
  BY <1>1, <1>2, FS_Subset
<1> QED BY <1>3, FS_CardinalityType

\* What is read from the pages and their lines
LEMMA LinesRead ==
    ASSUME TypeOK, NEW p \in Pages
    PROVE  /\ page \in [Pages -> Page] /\ page[p] \in Page /\ page[p].handlers \in Seq(Runs)
           /\ page[p].waiting \in SUBSET Runs /\ page[p].processing \in BOOLEAN
           /\ toPage[p] \in Seq(Message) /\ toServer[p] \in Seq(RunOrNone) /\ link[p] \in BOOLEAN
           /\ Results(toPage[p]) \in Seq(RunOrNone) /\ Len(Results(toPage[p])) \in Nat
           /\ Len(page[p].handlers) \in Nat
           /\ \A i \in 1..Len(page[p].handlers) : page[p].handlers[i] \in Runs
<1>1. PagesFit /\ LinesFit
  BY TypeParts
<1>2. page \in [Pages -> Page] /\ page[p] \in Page
  BY <1>1 DEF PagesFit
<1>3. toPage[p] \in Seq(Message) /\ toServer[p] \in Seq(RunOrNone) /\ link[p] \in BOOLEAN
  BY <1>1 DEF LinesFit, RunOrNone
<1>4. Results(toPage[p]) \in Seq(RunOrNone)
  <2>1. PICK g \in [0..Len(toPage[p]) -> Seq(RunOrNone)] : Grows(toPage[p], g, Len(toPage[p]))
    BY <1>3, ResultsExist
  <2> QED BY <1>3, <2>1, ResultsAre
<1>5. page[p].handlers \in Seq(Runs) /\ page[p].waiting \in SUBSET Runs /\ page[p].processing \in BOOLEAN
  BY <1>2, PageRead
<1> QED BY <1>2, <1>3, <1>4, <1>5

\* Steps that leave the handlers and the lines of a page alone, or change messages
\* that are no results, keep what holds of the page.
LEMMA StillSteady ==
    ASSUME TypeOK, NEW p \in Pages, Steady(p), Evolves, GoesOn(p),
           page'[p].handlers = page[p].handlers, page'[p].waiting = page[p].waiting,
           page'[p].processing => page[p].processing,
           link'[p] = link[p], toServer'[p] = toServer[p], Results(toPage'[p]) = Results(toPage[p]),
           Coming(p) \subseteq Coming(p)',
           Alone(p)' => \A q \in Seq(Runs) : Chain(q) => Chain(q)',
           \A r \in page[p].waiting : run[r].stage # "none"
    PROVE  Steady(p)'
<1>1. /\ page[p].handlers \in Seq(Runs) /\ page[p].waiting \in SUBSET Runs
      /\ Len(Results(toPage[p])) \in Nat /\ Len(page[p].handlers) \in Nat
      /\ \A i \in 1..Len(page[p].handlers) : page[p].handlers[i] \in Runs
  BY LinesRead
<1>2. Idles(p)'
  BY DEF Steady, Idles
<1>3. Owned(p)'
  BY <1>1 DEF Steady, Owned, Evolves, GoesOn, Handled, Active
<1>4. Busy(p)'
  <2>1. \A r \in Runs : run[r].stage # "none" => run'[r].cell = run[r].cell
    BY DEF Evolves
  <2>2. \A i \in 1..Len(page[p].handlers) : run[page[p].handlers[i]].stage # "none"
    BY DEF Steady, Owned, Handled, Active
  <2> QED BY <1>1, <2>1, <2>2 DEF Steady, Busy
<1>5. Enough(p)'
  BY ComingFinite, FS_Subset, <1>1 DEF Steady, Enough
<1>6. Ordered(p)'
  <2> SUFFICES ASSUME Alone(p)' PROVE \E q, c \in Seq(Runs) : Split(p, q, c)'
    BY DEF Ordered
  <2>1. PICK q \in Seq(Runs), c \in Seq(Runs) : Split(p, q, c)
    BY AloneBefore DEF Steady, Ordered
  <2>2. Split(p, q, c)'
    BY <2>1 DEF Split
  <2> QED BY <2>2
<1> QED BY <1>2, <1>3, <1>4, <1>5, <1>6 DEF Steady


-----------------------------------------------------------------------------
(* What a page does, for the other pages *)

\* A step of page p makes or moves only runs of that page that the session does not
\* know, and leaves the other pages and their lines alone.
Own(p) ==
    /\ \A r \in Runs : \/ run'[r] = run[r]
                       \/ /\ Quiet(r) /\ run'[r].by = p
                          /\ run'[r].stage \in {"waiting", "asked", "lost", "queued"}
                          /\ run[r].stage # "none" => run[r].by = p /\ run'[r].cell = run[r].cell
    /\ \/ server'.tail = server.tail /\ server'.connected = server.connected
       \/ \E r \in Runs : run'[r].by = p /\ run'[r].stage # "none"
    /\ \A o \in Pages \ {p} : /\ page'[o] = page[o] /\ link'[o] = link[o]
                              /\ toServer'[o] = toServer[o] /\ toPage'[o] = toPage[o]

\* Such a step makes no run forget whose it is.
LEMMA OwnEvolves == ASSUME NEW p, Own(p) PROVE Evolves
BY DEF Own, Evolves

\* The other pages are as steady as before.
LEMMA OwnOthers ==
    ASSUME TypeOK, IInv, NEW p \in Pages, Own(p), NEW o \in Pages \ {p}, Steady(o)
    PROVE  Steady(o)'
<1>1. Evolves
  BY OwnEvolves
<1>2. \A r \in Runs : run[r].stage # "none" /\ run[r].by = o => run'[r] = run[r]
  BY DEF Own
<1>3. GoesOn(o)
  BY <1>2 DEF GoesOn, Handled, Active
<1>4. Coming(o) \subseteq Coming(o)'
  BY <1>2 DEF Coming
<1>5. ASSUME Alone(o)', NEW q \in Seq(Runs), Chain(q) PROVE Chain(q)'
  BY <1>5, ChainKept DEF Alone, Own
<1>6. \A r \in page[o].waiting : run[r].stage # "none"
  BY DEF IInv, Requests, Waits
<1>7. /\ page'[o] = page[o] /\ link'[o] = link[o] /\ toServer'[o] = toServer[o] /\ toPage'[o] = toPage[o]
  BY DEF Own
<1> QED BY <1>1, <1>3, <1>4, <1>5, <1>6, <1>7, StillSteady

\* A new run of a page
LEMMA OwnNew ==
    ASSUME TypeOK, Requests, NEW p \in Pages, NEW c, NEW stage \in {"waiting", "asked"}, NewRun(p, c, stage, 0)
    PROVE  LET r == count.runs + 1 IN
           /\ r \in Runs /\ Quiet(r) /\ run[r].stage = "none"
           /\ run'[r].stage = stage /\ run'[r].by = p /\ run'[r].cell = c
           /\ \A s \in Runs \ {r} : run'[s] = run[s]
<1> DEFINE r == count.runs + 1
<1>1. /\ r \in Runs /\ Quiet(r) /\ run[r].stage = "none" /\ run'[r].stage = stage /\ run'[r].by = p
      /\ \A s \in Runs \ {r} : run'[s] = run[s]
  BY NewAside
<1>2. run' = [run EXCEPT ![r] = [by |-> p, cell |-> c, stage |-> stage, after |-> 0]] /\ RunsFit
  BY TypeParts DEF NewRun
<1> HIDE DEF r
<1>3. run'[r].cell = c
  BY <1>1, <1>2 DEF RunsFit
<1> QED BY <1>1, <1>3 DEF r

\* One page and its lines are replaced.
LEMMA OtherPages ==
    ASSUME TypeOK, NEW p \in Pages,
           \/ UNCHANGED page \/ \E pg : page' = [page EXCEPT ![p] = pg],
           \/ UNCHANGED link \/ \E b : link' = [link EXCEPT ![p] = b],
           \/ UNCHANGED toServer \/ \E s : toServer' = [toServer EXCEPT ![p] = s],
           \/ UNCHANGED toPage \/ \E s : toPage' = [toPage EXCEPT ![p] = s]
    PROVE  \A o \in Pages \ {p} : /\ page'[o] = page[o] /\ link'[o] = link[o]
                                  /\ toServer'[o] = toServer[o] /\ toPage'[o] = toPage[o]
<1>1. PagesFit /\ LinesFit
  BY TypeParts
<1> QED BY <1>1 DEF PagesFit, LinesFit

\* A run that a page waits for
LEMMA WaitsOwn ==
    ASSUME TypeOK, IInv, NEW p \in Pages, NEW r \in page[p].waiting
    PROVE  r \in Runs /\ run[r].stage = "waiting" /\ run[r].by = p /\ Quiet(r)
<1>1. r \in Runs
  BY LinesRead
<1> QED BY <1>1 DEF IInv, Requests, Waits, Quiet

\* A request on its way
LEMMA SentOwn ==
    ASSUME TypeOK, IInv, NEW p \in Pages, NEW i \in 1..Len(toServer[p]), toServer[p][i] # 0
    PROVE  LET r == toServer[p][i] IN r \in Runs /\ run[r].stage = "asked" /\ run[r].by = p /\ Quiet(r)
<1>1. toServer[p][i] \in Runs
  BY TypeParts, ElementOfSeq, Numbers DEF Runs, LinesFit
<1> QED BY <1>1 DEF IInv, Requests, Asks, Quiet

\* Runs of a page move to another stage.
LEMMA OwnMoved ==
    ASSUME TypeOK, NEW p, NEW S \in SUBSET Runs, NEW stage \in {"asked", "lost"},
           \A r \in S : Quiet(r) /\ run[r].by = p,
           run' = [r \in Runs |-> IF r \in S THEN [run[r] EXCEPT !.stage = stage] ELSE run[r]]
    PROVE  \A r \in Runs : \/ run'[r] = run[r]
                           \/ /\ Quiet(r) /\ run'[r].by = p
                              /\ run'[r].stage \in {"waiting", "asked", "lost", "queued"}
                              /\ run[r].stage # "none" => run[r].by = p /\ run'[r].cell = run[r].cell
<1>1. RunsFit
  BY TypeParts
<1> SUFFICES ASSUME NEW r \in S
             PROVE  /\ run'[r].by = p /\ run'[r].stage = stage /\ run'[r].cell = run[r].cell
  BY DEF Quiet
<1> QED BY <1>1 DEF RunsFit, Request

\* Such are the steps of a page, of its connection, and what the server takes from it.
LEMMA PageOwn ==
    ASSUME TypeOK, IInv, NEW p \in Pages,
           \/ \E c \in Cells : QueueExecution(p, c)
           \/ ProcessNext(p) \/ RunHint(p) \/ Interrupt(p)
           \/ \E r \in Runs : WaitOver(p, r) \/ WaitThrows(p, r)
           \/ ReceiveDead(p) \/ ReceiveSync(p) \/ ReceiveOutput(p) \/ ReceiveResult(p)
           \/ Connect(p) \/ Break(p) \/ SyncOutputs(p) \/ Execute(p)
    PROVE  Own(p)
<1>1. PagesFit /\ LinesFit /\ RunsFit /\ ServerFits /\ Requests
  BY TypeParts DEF IInv
<1> DEFINE Mine(r) == /\ Quiet(r) /\ run'[r].by = p
                      /\ run'[r].stage \in {"waiting", "asked", "lost", "queued"}
                      /\ run[r].stage # "none" => run[r].by = p /\ run'[r].cell = run[r].cell
           Others == \A o \in Pages \ {p} : /\ page'[o] = page[o] /\ link'[o] = link[o]
                              /\ toServer'[o] = toServer[o] /\ toPage'[o] = toPage[o]
<1>2. ASSUME UNCHANGED run \/ (\A r \in Runs : run'[r] = run[r] \/ Mine(r)), UNCHANGED server, Others
      PROVE  Own(p)
  BY <1>2 DEF Own
<1>3. CASE (\E c \in Cells : QueueExecution(p, c)) \/ Interrupt(p)
  <2>1. Others
    BY <1>1, <1>3, OtherPages DEF QueueExecution, Interrupt, PagesFit
  <2> QED BY <1>2, <1>3, <2>1 DEF QueueExecution, Interrupt
<1>4. CASE ProcessNext(p) \/ RunHint(p)
  <2>1. PICK c : \E stage \in {"waiting", "asked"} : NewRun(p, c, stage, 0)
    BY <1>4 DEF ProcessNext, RunHint
  <2>2. \A r \in Runs : run'[r] = run[r] \/ Mine(r)
    BY <1>1, <2>1, OwnNew DEF Quiet
  <2>3. Others
    <3>1. \E pg : page' = [page EXCEPT ![p] = pg]
      BY <1>1, <1>4 DEF ProcessNext, RunHint, PagesFit
    <3>2. UNCHANGED toServer \/ \E s : toServer' = [toServer EXCEPT ![p] = s]
      BY <1>4 DEF ProcessNext, RunHint
    <3>3. UNCHANGED <<link, toPage>>
      BY <1>4 DEF ProcessNext, RunHint
    <3> QED BY <3>1, <3>2, <3>3, OtherPages, ZenonT(30)
  <2>4. UNCHANGED server
    BY <1>4 DEF ProcessNext, RunHint
  <2> QED BY <1>2, <2>2, <2>3, <2>4
<1>5. ASSUME NEW r \in Runs, WaitOver(p, r) \/ WaitThrows(p, r) PROVE Own(p)
  <2>1. PICK stage \in {"asked", "lost"} : run' = [run EXCEPT ![r].stage = stage]
    BY <1>5 DEF WaitOver, WaitThrows
  <2>2. Quiet(r) /\ run[r].by = p
    BY <1>5, WaitsOwn DEF WaitOver, WaitThrows
  <2>3. run' = [s \in Runs |-> IF s \in {r} THEN [run[s] EXCEPT !.stage = stage] ELSE run[s]]
    BY <1>1, <2>1 DEF RunsFit
  <2>4. \A s \in Runs : run'[s] = run[s] \/ Mine(s)
    BY <2>2, <2>3, OwnMoved
  <2>5. Others
    <3>1. \E pg : page' = [page EXCEPT ![p] = pg]
      BY <1>1, <1>5 DEF WaitOver, WaitThrows, PagesFit
    <3>2. UNCHANGED toServer \/ \E s : toServer' = [toServer EXCEPT ![p] = s]
      BY <1>5 DEF WaitOver, WaitThrows
    <3>3. UNCHANGED <<link, toPage>>
      BY <1>5 DEF WaitOver, WaitThrows
    <3> QED BY <3>1, <3>2, <3>3, OtherPages, ZenonT(30)
  <2>6. UNCHANGED server
    BY <1>5 DEF WaitOver, WaitThrows
  <2> QED BY <1>2, <2>4, <2>5, <2>6
<1>6. CASE ReceiveDead(p) \/ ReceiveSync(p) \/ ReceiveOutput(p) \/ ReceiveResult(p)
  <2>1. UNCHANGED <<link, toServer, run, server>> /\ \E s : toPage' = [toPage EXCEPT ![p] = s]
    BY <1>6 DEF ReceiveDead, ReceiveSync, ReceiveOutput, ReceiveResult, Receive
  <2>2. \E pg : page' = [page EXCEPT ![p] = pg]
    BY <1>1, <1>6 DEF ReceiveDead, PagesFit, ReceiveSync, ReceiveOutput, ReceiveResult
  <2>3. Others
    BY <2>1, <2>2, OtherPages
  <2> QED BY <1>2, <2>1, <2>3
<1>7. CASE Connect(p) \/ Break(p)
  <2> DEFINE S == IF Connect(p) THEN page[p].waiting ELSE ToSet(toServer[p]) \cap Runs
  <2>1. S \subseteq Runs /\ \A r \in S : Quiet(r) /\ run[r].by = p
    <3>1. ASSUME NEW r \in page[p].waiting PROVE r \in Runs /\ Quiet(r) /\ run[r].by = p
      BY WaitsOwn
    <3>2. ASSUME NEW r \in ToSet(toServer[p]) \cap Runs PROVE r \in Runs /\ Quiet(r) /\ run[r].by = p
      <4>1. toServer[p] \in Seq(0..MaxRuns)
        BY <1>1 DEF LinesFit
      <4>2. PICK i \in 1..Len(toServer[p]) : toServer[p][i] = r
        BY <3>2, <4>1 DEF ToSet
      <4> QED BY <3>2, <4>2, Numbers, SentOwn
    <3> QED BY <3>1, <3>2
  <2>2. run' = [r \in Runs |-> IF r \in S THEN [run[r] EXCEPT !.stage = "lost"] ELSE run[r]]
    BY <1>7 DEF Connect, Break
  <2> HIDE DEF S
  <2>3. \A r \in Runs : run'[r] = run[r] \/ Mine(r)
    BY <2>1, <2>2, OwnMoved
  <2>4. Others
    <3>1. \E pg : page' = [page EXCEPT ![p] = pg]
      BY <1>1, <1>7 DEF Connect, Break, PagesFit
    <3>2. \E s : toServer' = [toServer EXCEPT ![p] = s]
      BY <1>7 DEF Connect, Break
    <3>3. UNCHANGED toPage \/ \E s : toPage' = [toPage EXCEPT ![p] = s]
      BY <1>7 DEF Connect, Break
    <3>4. \E b : link' = [link EXCEPT ![p] = b]
      BY <1>7 DEF Connect, Break
    <3> QED BY <3>1, <3>2, <3>3, <3>4, OtherPages
  <2>5. server'.tail = server.tail /\ server'.connected = server.connected
    BY <1>7, <1>1 DEF Connect, Break, ServerFits, Session
  <2> QED BY <2>3, <2>4, <2>5 DEF Own
<1>8. CASE SyncOutputs(p)
  <2>1. /\ UNCHANGED <<page, link, run>> /\ \E s : toServer' = [toServer EXCEPT ![p] = s]
        /\ \E s : toPage' = [toPage EXCEPT ![p] = s]
        /\ server' = [server EXCEPT !.subscribed = Subscribed(p)]
    BY <1>1, <1>8 DEF SyncOutputs, TakeRequest, LinesFit
  <2>2. server'.tail = server.tail /\ server'.connected = server.connected
    BY <1>1, <2>1 DEF ServerFits, Session
  <2>3. Others
    BY <2>1, OtherPages
  <2> QED BY <2>1, <2>2, <2>3 DEF Own
<1>9. CASE Execute(p)
  <2> DEFINE r == Head(toServer[p])
  <2>1. /\ UNCHANGED <<page, link, toPage>> /\ \E s : toServer' = [toServer EXCEPT ![p] = s]
        /\ run' = [run EXCEPT ![r].stage = "queued", ![r].after = server.tail]
        /\ toServer[p] # <<>> /\ r # 0
    BY <1>9 DEF Execute, TakeRequest, Predecessor
  <2>2. r \in Runs /\ Quiet(r) /\ run[r].by = p
    <3>1. toServer[p] \in Seq(0..MaxRuns)
      BY <1>1 DEF LinesFit
    <3>2. 1 \in 1..Len(toServer[p]) /\ r = toServer[p][1]
      BY <2>1, <3>1
    <3> QED BY <2>1, <3>2, SentOwn
  <2> HIDE DEF r
  <2>3. /\ run'[r].by = p /\ run'[r].stage = "queued" /\ run'[r].cell = run[r].cell
        /\ \A s \in Runs \ {r} : run'[s] = run[s]
    BY <1>1, <2>1, <2>2 DEF RunsFit, Request
  <2>4. Others
    BY <2>1, OtherPages
  <2> QED BY <2>2, <2>3, <2>4 DEF Own
<1> QED BY <1>3, <1>4, <1>5, <1>6, <1>7, <1>8, <1>9

-----------------------------------------------------------------------------
(* Connections and what is on the way *)

\* The steps of the session and the kernel
Serves ==
    \/ \E c \in Cells : AgentRun(c)
    \/ \E r \in Runs : Begin(r) \/ Take(r) \/ CutShort(r) \/ PrintsLate(r)
    \/ Restarts \/ Hears \/ Prints \/ Raises \/ Finishes

\* They leave the pages alone, and what is on the way to a page without a connection.
LEMMA ServesLines ==
    ASSUME TypeOK, IInv, Serves
    PROVE  /\ UNCHANGED <<page, link, toServer, dropped>>
           /\ \A o \in Pages : ~link[o] => toPage'[o] = toPage[o]
<1>1. UNCHANGED <<page, link, toServer, dropped>>
  BY RestartsKeep DEF IInv, Serves, AgentRun, Begin, Take, CutShort, PrintsLate, Hears, Prints, Raises, Finishes
<1>2. \A r, outputs, others : \A o \in Pages : ~link[o] =>
         Told(r, outputs, others)[o] = toPage[o] /\ Broadcast(outputs, others)[o] = toPage[o]
  BY DEF Told, Broadcast
<1>3. \/ UNCHANGED toPage
      \/ \E r, outputs, others : toPage' = Told(r, outputs, others) \/ toPage' = Broadcast(outputs, others)
  <2>1. ASSUME NEW r \in Runs, NEW sv, Failed(r, sv)
        PROVE  \E outputs, others : toPage' = Told(r, outputs, others)
    BY <2>1 DEF Failed
  <2>2. ASSUME NEW r \in Runs, Begin(r) PROVE UNCHANGED toPage \/ \E sv : Failed(r, sv)
    BY <2>2 DEF Begin
  <2>3. ASSUME NEW r \in Runs, Take(r) PROVE \E outputs, others : toPage' = Told(r, outputs, others)
    BY <2>3 DEF Take
  <2>4. ASSUME NEW r \in Runs, CutShort(r) PROVE \E sv : Failed(r, sv)
    BY <2>4 DEF CutShort
  <2>5. Restarts => UNCHANGED toPage \/ \E outputs, others : toPage' = Broadcast(outputs, others)
    BY RestartsKeep DEF IInv
  <2>6. \/ \E c \in Cells : AgentRun(c)
        \/ \E r \in Runs : PrintsLate(r)
        \/ Hears \/ Prints \/ Raises \/ Finishes
        => UNCHANGED toPage
    BY DEF AgentRun, PrintsLate, Hears, Prints, Raises, Finishes
  <2> QED BY <2>1, <2>2, <2>3, <2>4, <2>5, <2>6 DEF Serves
<1> QED BY <1>1, <1>2, <1>3

\* Who has no connection gets one, before anything is on the way.
LEMMA JoinedStep ==
    ASSUME TypeOK, IInv, Joined, Next
    PROVE  Joined'
<1>1. PagesFit /\ LinesFit /\ page \in [Pages -> Page]
  BY TypeParts DEF PagesFit
<1>2. CASE Serves
  BY <1>2, ServesLines DEF Joined
<1>3. ASSUME NEW p \in Pages, Own(p),
             ~link'[p] => toPage'[p] = <<>> /\ toServer'[p] = <<>> /\ ~page'[p].ready
      PROVE  Joined'
  BY <1>3 DEF Joined, Own
<1>4. ASSUME NEW p \in Pages, link'[p] = link[p], link[p], Own(p) PROVE Joined'
  BY <1>3, <1>4
<1>5. ASSUME NEW p \in Pages, Own(p), UNCHANGED <<link, toPage, toServer>>, page'[p].ready => page[p].ready
      PROVE  Joined'
  BY <1>3, <1>5 DEF Joined
<1>6. ASSUME NEW p \in Pages, (\E c \in Cells : QueueExecution(p, c)) \/ Interrupt(p) PROVE Joined'
  <2>1. page'[p].ready = page[p].ready
    BY <1>1, <1>6 DEF QueueExecution, Interrupt, Page
  <2>2. UNCHANGED <<link, toPage, toServer>>
    BY <1>6 DEF QueueExecution, Interrupt
  <2> QED BY <1>5, <1>6, <2>1, <2>2, PageOwn
<1>7. ASSUME NEW p \in Pages, ProcessNext(p) \/ RunHint(p) \/ \E r \in Runs : WaitOver(p, r) PROVE Joined'
  BY <1>7, <1>4, PageOwn DEF ProcessNext, RunHint, WaitOver, Joined
<1>8. ASSUME NEW p \in Pages, NEW r \in Runs, WaitThrows(p, r) PROVE Joined'
  <2> DEFINE pg == [page[p] EXCEPT !.waiting = @ \ {r}, !.handlers = Append(@, r), !.got[r] = <<<<r, Cut>>>>]
  <2>1. page'[p] = Settled(pg, r)
    BY <1>1, <1>8 DEF WaitThrows
  <2>2. pg.ready = page[p].ready /\ "ready" \in DOMAIN pg
    BY <1>1 DEF Page
  <2> HIDE DEF pg
  <2>3. Settled(pg, r).ready = page[p].ready
    BY <2>2 DEF Settled
  <2>4. UNCHANGED <<link, toPage, toServer>>
    BY <1>8 DEF WaitThrows
  <2> QED BY <1>5, <1>8, <2>1, <2>3, <2>4, PageOwn
<1>9. ASSUME NEW p \in Pages, ReceiveDead(p) \/ ReceiveSync(p) \/ ReceiveOutput(p) \/ ReceiveResult(p)
      PROVE  Joined'
  <2>1. toPage[p] # <<>> /\ UNCHANGED link
    BY <1>9 DEF ReceiveDead, ReceiveSync, ReceiveOutput, ReceiveResult, Receive
  <2> QED BY <1>4, <1>9, <2>1, PageOwn DEF Joined
<1>10. ASSUME NEW p \in Pages, Connect(p) PROVE Joined'
  <2>1. link'[p] = TRUE
    BY <1>1, <1>10 DEF Connect, LinesFit
  <2> QED BY <1>3, <1>10, <2>1, PageOwn
<1>11. ASSUME NEW p \in Pages, Break(p) PROVE Joined'
  BY <1>1, <1>11, <1>3, PageOwn DEF Break, LinesFit, Page
<1>12. ASSUME NEW p \in Pages, SyncOutputs(p) \/ Execute(p) PROVE Joined'
  BY <1>12, <1>4, PageOwn DEF SyncOutputs, Execute, TakeRequest, Joined
<1> QED BY <1>2, <1>6, <1>7, <1>8, <1>9, <1>10, <1>11, <1>12 DEF Next, Serves, Restarts

-----------------------------------------------------------------------------
(* What a page does, for itself *)

\* Runs in a sequence are runs.
LEMMA RunsAre == Seq(Runs) \subseteq Seq(RunOrNone) /\ Runs \subseteq RunOrNone /\ 0 \in RunOrNone /\ 0 \notin Runs
<1>1. Runs \subseteq RunOrNone /\ 0 \in RunOrNone /\ 0 \notin Runs
  BY Numbers DEF RunOrNone
<1>2. ASSUME NEW s \in Seq(Runs) PROVE s \in Seq(RunOrNone)
  BY <1>1
<1> QED BY <1>1, <1>2

\* A page asks for one of its runs, and waits for the result.
LEMMA AskSteady ==
    ASSUME TypeOK, IInv, NEW p \in Pages, Steady(p), Own(p), link'[p],
           NEW r \in Runs, Quiet(r), run[r].stage # "asked", run'[r].stage = "asked", run'[r].by = p,
           \A s \in Runs \ {r} : run'[s] = run[s],
           page'[p].handlers = Append(page[p].handlers, r),
           page[p].waiting \subseteq page'[p].waiting \cup {r},
           page'[p].processing => page[p].processing \/ run'[r].cell # NoCell,
           toServer'[p] = Append(toServer[p], r), toPage'[p] = toPage[p],
           server'.tail = server.tail, server'.connected = server.connected
    PROVE  Steady(p)'
<1> DEFINE h == page[p].handlers
           n == Append(h, r)
<1>1. /\ h \in Seq(Runs) /\ Len(h) \in Nat /\ toPage[p] \in Seq(Message)
      /\ Results(toPage[p]) \in Seq(RunOrNone) /\ Len(Results(toPage[p])) \in Nat
      /\ toServer[p] \in Seq(RunOrNone) /\ page[p].waiting \in SUBSET Runs
  BY LinesRead
<1>2. /\ Len(n) = Len(h) + 1 /\ n[Len(h) + 1] = r /\ \A i \in 1..Len(h) : n[i] = h[i]
      /\ \A i \in 1..Len(n) : i \in 1..Len(h) \/ i = Len(h) + 1
      /\ Len(h) + 1 \in 1..Len(n) /\ \A i \in 1..Len(h) : i \in 1..Len(n) /\ h[i] \in Runs
  <2>1. Len(n) = Len(h) + 1 /\ n[Len(h) + 1] = r /\ \A i \in 1..Len(h) : n[i] = h[i]
    BY <1>1, AppendProperties
  <2>2. \A i \in 1..Len(h) : h[i] \in Runs
    BY <1>1, ElementOfSeq
  <2> HIDE DEF h, n
  <2> QED BY <1>1, <2>1, <2>2
<1>3. page'[p].handlers = n
  OBVIOUS
<1>4. Evolves
  BY OwnEvolves
<1> HIDE DEF h, n
<1>5. Idles(p)'
  BY DEF Idles
<1>6. Owned(p)'
  <2> SUFFICES ASSUME NEW i \in 1..Len(n) PROVE run'[n[i]].by = p /\ run'[n[i]].stage \in Handled
    BY <1>3 DEF Owned
  <2>1. CASE i = Len(h) + 1
    BY <1>2, <2>1 DEF Handled
  <2>2. CASE i \in 1..Len(h)
    BY <2>2, <1>2 DEF Steady, Owned, h, Handled
  <2> QED BY <1>2, <2>1, <2>2
<1>7. Busy(p)'
  <2> SUFFICES ASSUME page'[p].processing
               PROVE  \/ \E s \in page'[p].waiting : run'[s].cell # NoCell
                      \/ \E i \in 1..Len(n) : run'[n[i]].cell # NoCell
    BY <1>3 DEF Busy
  <2>1. CASE run'[r].cell # NoCell
    BY <1>2, <2>1
  <2>2. CASE run'[r].cell = NoCell
    <3>1. page[p].processing
      BY <2>2
    <3>2. CASE \E s \in page[p].waiting : run[s].cell # NoCell
      <4>1. PICK s \in page[p].waiting : run[s].cell # NoCell
        BY <3>2
      <4>2. s \in Runs /\ run'[s].cell = run[s].cell
        BY <1>4, <4>1, WaitsOwn DEF Evolves
      <4> QED BY <2>2, <4>1, <4>2
    <3>3. CASE \E i \in 1..Len(h) : run[h[i]].cell # NoCell
      <4>1. PICK i \in 1..Len(h) : run[h[i]].cell # NoCell
        BY <3>3
      <4>2. run[h[i]].stage # "none"
        BY DEF Steady, Owned, Handled, Active, h
      <4>3. run'[n[i]].cell = run[h[i]].cell
        BY <1>2, <1>4, <4>2 DEF Evolves
      <4> QED BY <1>2, <4>1, <4>3
    <3> QED BY <3>1, <3>2, <3>3 DEF Steady, Busy, h
  <2> QED BY <2>1, <2>2
<1>8. Enough(p)'
  <2>1. Coming(p)' = Coming(p) \cup {r}
    BY DEF Coming
  <2>2. r \notin Coming(p)
    BY DEF Coming, Quiet
  <2>3. Cardinality(Coming(p)') = Cardinality(Coming(p)) + 1
    <3>1. IsFiniteSet(Coming(p))
      BY ComingFinite
    <3>2. Cardinality(Coming(p) \cup {r}) = Cardinality(Coming(p)) + 1
      BY <2>2, <3>1, FS_AddElement
    <3> QED BY <2>1, <3>2
  <2>4. Len(h) <= Cardinality(Coming(p)) + Len(Results(toPage[p]))
    BY DEF Steady, Enough, h
  <2> QED BY <1>1, <1>2, <1>3, <2>3, <2>4, ComingFinite DEF Enough
<1>9. Ordered(p)'
  <2> SUFFICES ASSUME Alone(p)' PROVE \E q, c \in Seq(Runs) : Split(p, q, c)'
    BY DEF Ordered
  <2>1. PICK q \in Seq(Runs), c \in Seq(Runs) : Split(p, q, c)
    BY <1>4, AloneBefore DEF Steady, Ordered
  <2> DEFINE d == Append(c, r)
             R == Results(toPage[p])
  <2>2. d \in Seq(Runs)
    BY AppendProperties
  <2>3. q \in Seq(RunOrNone) /\ c \in Seq(RunOrNone) /\ r \in RunOrNone /\ << 0 >> \in Seq(RunOrNone)
    BY RunsAre
  <2>4. q \o c \in Seq(RunOrNone)
    BY <2>3, ConcatProperties
  <2>5. Append(q \o c, r) = q \o d
    BY <2>3, RunBehind
  <2>6. n = R \o (q \o d)
    <3>1. Append(R \o (q \o c), r) = R \o Append(q \o c, r)
      BY <1>1, <2>3, <2>4, RunBehind
    <3> QED BY <2>1, <2>5, <3>1 DEF Split, n, h
  <2>7. toServer'[p] \in {d, << 0 >> \o d}
    <3>1. Append(<< 0 >> \o c, r) = << 0 >> \o d
      BY <2>3, RunBehind
    <3> QED BY <2>1, <3>1 DEF Split
  <2>8. Chain(q)'
    BY <2>1, ChainKept DEF Quiet, Split
  <2> HIDE DEF d
  <2>9. Split(p, q, d)'
    BY <1>3, <2>6, <2>7, <2>8 DEF Split
  <2> QED BY <2>2, <2>9
<1> QED BY <1>5, <1>6, <1>7, <1>8, <1>9 DEF Steady

\* A page waits for its synchronization with a run of a cell.
LEMMA WaitSteady ==
    ASSUME TypeOK, IInv, NEW p \in Pages, Steady(p), Own(p), link'[p],
           NEW r \in Runs, run[r].stage = "none", run'[r].stage = "waiting", run'[r].cell # NoCell,
           \A s \in Runs \ {r} : run'[s] = run[s],
           page'[p].handlers = page[p].handlers, r \in page'[p].waiting,
           toServer'[p] = toServer[p], toPage'[p] = toPage[p],
           server'.tail = server.tail, server'.connected = server.connected
    PROVE  Steady(p)'
<1>1. Evolves
  BY OwnEvolves
<1>2. Idles(p)'
  BY DEF Idles
<1>3. Owned(p)'
  <2>1. \A i \in 1..Len(page[p].handlers) : page[p].handlers[i] \in Runs /\ page[p].handlers[i] # r
    BY LinesRead DEF Steady, Owned, Handled, Active
  <2> QED BY <2>1 DEF Steady, Owned
<1>4. Busy(p)'
  BY DEF Busy
<1>5. Coming(p)' = Coming(p)
  BY DEF Coming
<1>6. Enough(p)'
  BY <1>5 DEF Steady, Enough
<1>7. Ordered(p)'
  <2> SUFFICES ASSUME Alone(p)' PROVE \E q, c \in Seq(Runs) : Split(p, q, c)'
    BY DEF Ordered
  <2>1. PICK q \in Seq(Runs), c \in Seq(Runs) : Split(p, q, c)
    BY <1>1, AloneBefore DEF Steady, Ordered
  <2>2. Chain(q)'
    BY <2>1, ChainKept DEF Quiet, Split
  <2>3. Split(p, q, c)'
    BY <2>1, <2>2 DEF Split
  <2> QED BY <2>3
<1> QED BY <1>2, <1>3, <1>4, <1>6, <1>7 DEF Steady

\* Steps that touch no run and no chain, and no handler of a page
LEMMA RestSteady ==
    ASSUME TypeOK, IInv, NEW p \in Pages, Steady(p), UNCHANGED run,
           server'.tail = server.tail, server'.connected = server.connected,
           page'[p].handlers = page[p].handlers, page'[p].waiting = page[p].waiting,
           page'[p].processing => page[p].processing,
           link'[p] = link[p], toServer'[p] = toServer[p], Results(toPage'[p]) = Results(toPage[p])
    PROVE  Steady(p)'
<1>1. Evolves /\ GoesOn(p) /\ Coming(p) \subseteq Coming(p)'
  BY DEF Evolves, GoesOn, Coming
<1>2. \A q \in Seq(Runs) : Chain(q) => Chain(q)'
  BY ChainKept
<1>3. \A r \in page[p].waiting : run[r].stage # "none"
  BY WaitsOwn
<1> QED BY <1>1, <1>2, <1>3, StillSteady

\* What a page queues and asks
LEMMA AsksSteady ==
    ASSUME TypeOK, IInv, Joined, NEW p \in Pages, Steady(p),
           \/ \E c \in Cells : QueueExecution(p, c)
           \/ ProcessNext(p) \/ RunHint(p) \/ Interrupt(p)
           \/ \E r \in Runs : WaitOver(p, r) \/ WaitThrows(p, r)
    PROVE  Steady(p)'
<1>1. page \in [Pages -> Page] /\ toServer \in [Pages -> Seq(0..MaxRuns)] /\ page[p] \in Page /\ Requests
  BY TypeParts DEF PagesFit, LinesFit, IInv
<1>2. Own(p)
  BY PageOwn
<1>3. CASE (\E c \in Cells : QueueExecution(p, c)) \/ Interrupt(p)
  <2>1. /\ page'[p].handlers = page[p].handlers /\ page'[p].waiting = page[p].waiting
        /\ page'[p].processing => page[p].processing
    <3>1. CASE \E c \in Cells : QueueExecution(p, c)
      BY <1>1, <3>1 DEF QueueExecution, Page
    <3>2. CASE Interrupt(p)
      BY <1>1, <3>2 DEF Interrupt, Page
    <3> QED BY <1>3, <3>1, <3>2
  <2>2. UNCHANGED <<link, toPage, toServer, run, server>>
    BY <1>3 DEF QueueExecution, Interrupt
  <2> QED BY <2>1, <2>2, RestSteady
<1>4. CASE ProcessNext(p)
  <2> DEFINE r == count.runs + 1
             c == Head(page[p].queue)
             begun == [page[p] EXCEPT !.processing = TRUE]
             asks == [begun EXCEPT !.handlers = Append(@, r)]
             waits == [begun EXCEPT !.waiting = @ \cup {r}]
  <2>1. \/ NewRun(p, c, "asked", 0) /\ page' = [page EXCEPT ![p] = asks]
           /\ toServer' = [toServer EXCEPT ![p] = Append(@, r)]
        \/ NewRun(p, c, "waiting", 0) /\ page' = [page EXCEPT ![p] = waits] /\ UNCHANGED toServer
    BY <1>4 DEF ProcessNext
  <2>2. UNCHANGED <<link, toPage, server>> /\ link[p]
    BY <1>4 DEF ProcessNext, Joined
  <2>3. c # NoCell
    BY <1>1, <1>4, PageRead, HeadTailProperties, ValueAssumption DEF ProcessNext
  <2>4. /\ asks.handlers = Append(page[p].handlers, r) /\ asks.waiting = page[p].waiting
        /\ waits.handlers = page[p].handlers /\ waits.waiting = page[p].waiting \cup {r}
    BY <1>1 DEF Page
  <2> HIDE DEF asks, waits, c
  <2>5. CASE /\ NewRun(p, c, "asked", 0) /\ page' = [page EXCEPT ![p] = asks]
             /\ toServer' = [toServer EXCEPT ![p] = Append(@, r)]
    <3>1. /\ r \in Runs /\ Quiet(r) /\ run[r].stage = "none"
          /\ run'[r].stage = "asked" /\ run'[r].by = p /\ run'[r].cell = c
          /\ \A s \in Runs \ {r} : run'[s] = run[s]
      BY <1>1, <2>5, OwnNew
    <3> HIDE DEF r
    <3>2. page'[p] = asks /\ toServer'[p] = Append(toServer[p], r)
      BY <1>1, <2>5
    <3>3. /\ page'[p].handlers = Append(page[p].handlers, r)
          /\ page[p].waiting \subseteq page'[p].waiting \cup {r}
      BY <2>4, <3>2
    <3> QED BY <1>2, <2>2, <2>3, <3>1, <3>2, <3>3, AskSteady
  <2>6. CASE NewRun(p, c, "waiting", 0) /\ page' = [page EXCEPT ![p] = waits] /\ UNCHANGED toServer
    <3>1. /\ r \in Runs /\ run[r].stage = "none" /\ run'[r].stage = "waiting" /\ run'[r].cell = c
          /\ \A s \in Runs \ {r} : run'[s] = run[s]
      BY <1>1, <2>6, OwnNew
    <3> HIDE DEF r
    <3>2. page'[p].handlers = page[p].handlers /\ r \in page'[p].waiting
      BY <1>1, <2>4, <2>6
    <3> QED BY <1>2, <2>2, <2>3, <2>6, <3>1, <3>2, WaitSteady
  <2> QED BY <2>1, <2>5, <2>6
<1>5. CASE RunHint(p)
  <2> DEFINE r == count.runs + 1
  <2>1. /\ NewRun(p, NoCell, "asked", 0) /\ page' = [page EXCEPT ![p].handlers = Append(@, r)]
        /\ toServer' = [toServer EXCEPT ![p] = Append(@, r)]
        /\ UNCHANGED <<link, toPage, server>> /\ link[p]
    BY <1>5 DEF RunHint
  <2>2. /\ r \in Runs /\ Quiet(r) /\ run[r].stage = "none"
        /\ run'[r].stage = "asked" /\ run'[r].by = p
        /\ \A s \in Runs \ {r} : run'[s] = run[s]
    BY <1>1, <2>1, OwnNew
  <2> HIDE DEF r
  <2>3. /\ page'[p].handlers = Append(page[p].handlers, r) /\ page'[p].waiting = page[p].waiting
        /\ page'[p].processing = page[p].processing /\ toServer'[p] = Append(toServer[p], r)
    BY <1>1, <2>1 DEF Page
  <2> QED BY <1>2, <2>1, <2>2, <2>3, AskSteady
<1>6. ASSUME NEW r \in Runs, WaitOver(p, r) PROVE Steady(p)'
  <2>1. /\ r \in page[p].waiting /\ run' = [run EXCEPT ![r].stage = "asked"]
        /\ page' = [page EXCEPT ![p].waiting = @ \ {r}, ![p].handlers = Append(@, r)]
        /\ toServer' = [toServer EXCEPT ![p] = Append(@, r)]
        /\ UNCHANGED <<link, toPage, server>> /\ link[p]
    BY <1>6 DEF WaitOver
  <2>2. run[r].stage = "waiting" /\ run[r].by = p /\ Quiet(r)
    BY <2>1, WaitsOwn
  <2>3. run'[r].stage = "asked" /\ run'[r].by = p /\ \A s \in Runs \ {r} : run'[s] = run[s]
    BY <2>1, <2>2, TypeParts DEF RunsFit, Request
  <2>4. /\ page'[p].handlers = Append(page[p].handlers, r) /\ page'[p].waiting = page[p].waiting \ {r}
        /\ page'[p].processing = page[p].processing /\ toServer'[p] = Append(toServer[p], r)
    BY <1>1, <2>1 DEF Page
  <2> QED BY <1>2, <2>1, <2>2, <2>3, <2>4, AskSteady
<1>7. ASSUME NEW r \in Runs, WaitThrows(p, r) PROVE FALSE
  BY <1>7 DEF WaitThrows, Steady, Idles
<1> QED BY <1>3, <1>4, <1>5, <1>6, <1>7

\* What is left of a sequence behind the first of three parts
LEMMA FirstGone ==
    ASSUME NEW x \in RunOrNone, NEW s \in Seq(RunOrNone), NEW t \in Seq(RunOrNone), NEW h \in Seq(Runs),
           h = (<<x>> \o s) \o t
    PROVE  h # <<>> /\ Tail(h) = s \o t
<1>1. <<x>> \in Seq(RunOrNone)
  OBVIOUS
<1>2. h = <<x>> \o (s \o t) /\ s \o t \in Seq(RunOrNone)
  BY <1>1, ConcatAssociative, ConcatProperties
<1> DEFINE u == s \o t
<1>3. u \in Seq(RunOrNone) /\ h = <<x>> \o u
  BY <1>2
<1> HIDE DEF u
<1>4. /\ Len(h) = 1 + Len(u) /\ Len(u) \in Nat
      /\ \A i \in 1..(1 + Len(u)) : h[i] = IF i <= 1 THEN <<x>>[i] ELSE u[i - 1]
  <2>1. Len(<<x>>) = 1
    OBVIOUS
  <2> QED BY <1>1, <1>3, <2>1, ConcatProperties
<1>5. h # <<>>
  BY <1>4
<1>6. /\ Tail(h) \in Seq(Runs) /\ Len(Tail(h)) = Len(u)
      /\ \A i \in 1..Len(u) : Tail(h)[i] = h[i + 1]
  BY <1>5, HeadTailProperties, <1>4
<1>7. \A i \in 1..Len(u) : Tail(h)[i] = u[i]
  BY <1>4, <1>6
<1>8. Tail(h) = u
  BY <1>6, RunsAre, <1>3, <1>7, SeqEqual
<1> QED BY <1>5, <1>8 DEF u

\* A page takes a result: its first handler is done, and so is what it processed.
LEMMA ResultSteady ==
    ASSUME TypeOK, IInv, NEW p \in Pages, Steady(p), ReceiveResult(p)
    PROVE  Steady(p)'
<1> DEFINE h == page[p].handlers
           n == Tail(h)
           pg == [page[p] EXCEPT !.ready = TRUE]
           less == [pg EXCEPT !.handlers = Shifted(@)]
           new == IF pg.handlers = <<>> THEN pg ELSE Settled(less, Head(pg.handlers))
           rest == Results(Tail(toPage[p]))
<1>1. /\ page \in [Pages -> Page] /\ page[p] \in Page /\ h \in Seq(Runs) /\ Len(h) \in Nat
      /\ toPage[p] \in Seq(Message) /\ toPage \in [Pages -> Seq(Message)]
      /\ Len(Results(toPage[p])) \in Nat
  BY LinesRead, TypeParts DEF LinesFit
<1>2. page'[p] = new
  BY <1>1 DEF ReceiveResult
<1>3. /\ toPage[p] # <<>> /\ Head(toPage[p]).type = "result"
      /\ toPage'[p] = Tail(toPage[p]) /\ UNCHANGED <<link, toServer, run, server, channel, kernel>>
  BY <1>1 DEF ReceiveResult, Receive
<1>4. pg.handlers = h /\ pg.waiting = page[p].waiting /\ pg.processing = page[p].processing
  BY <1>1 DEF Page
<1>5. /\ less.handlers = n /\ less.waiting = page[p].waiting /\ less.processing = page[p].processing
      /\ "handlers" \in DOMAIN less /\ "waiting" \in DOMAIN less /\ "processing" \in DOMAIN less
  BY <1>1 DEF Page, Shifted
<1> HIDE DEF less
<1>6. ASSUME NEW r
      PROVE  /\ Settled(less, r).handlers = n /\ Settled(less, r).waiting = page[p].waiting
             /\ Settled(less, r).processing =>
                  page[p].processing /\ (run[r].cell = NoCell \/ run[r].stage = "lost")
  BY <1>5 DEF Settled
<1>7. h # <<>> => page'[p] = Settled(less, Head(h))
  BY <1>2, <1>4
<1>8. h = <<>> => page'[p] = pg
  BY <1>2, <1>4
<1>9. page'[p].waiting = page[p].waiting
  <2>1. CASE h = <<>>
    BY <1>4, <1>8, <2>1
  <2>2. CASE h # <<>>
    BY <1>6, <1>7, <2>2
  <2> QED BY <2>1, <2>2
<1>10. page'[p].handlers = IF h = <<>> THEN <<>> ELSE n
  BY <1>4, <1>6, <1>7, <1>8
<1>11. h # <<>> => /\ n \in Seq(Runs) /\ Len(n) = Len(h) - 1 /\ Head(h) = h[1] /\ 1 \in 1..Len(h)
                   /\ \A i \in 1..Len(n) : n[i] = h[i + 1] /\ i + 1 \in 1..Len(h)
  BY <1>1, HeadTailProperties
<1>12. page'[p].processing => page[p].processing
  BY <1>4, <1>6, <1>7, <1>8
<1>13. h # <<>> /\ page'[p].processing => run[Head(h)].cell = NoCell \/ run[Head(h)].stage = "lost"
  BY <1>6, <1>7
<1>14. /\ Results(toPage[p]) = <<Head(toPage[p]).run>> \o rest /\ rest \in Seq(RunOrNone)
       /\ Head(toPage[p]).run \in RunOrNone
  <2>1. Tail(toPage[p]) \in Seq(Message) /\ Head(toPage[p]) \in Message
    BY <1>1, <1>3, HeadTailProperties
  <2>2. rest \in Seq(RunOrNone)
    BY <2>1, ResultsExist, ResultsAre
  <2> QED BY <1>1, <1>3, <2>1, <2>2, ResultsTail, ResultRead
<1> HIDE DEF n, new, pg, rest
<1>15. Idles(p)'
  <2> SUFFICES ASSUME ~link[p] PROVE page'[p].handlers = <<>> /\ page'[p].waiting = {}
    BY <1>3 DEF Idles
  <2> QED BY <1>9, <1>10 DEF Steady, Idles
<1>16. Owned(p)'
  <2> SUFFICES ASSUME h # <<>>, NEW i \in 1..Len(n) PROVE run[n[i]].by = p /\ run[n[i]].stage \in Handled
    BY <1>3, <1>10 DEF Owned
  <2> QED BY <1>11 DEF Steady, Owned
<1>17. Busy(p)'
  <2> SUFFICES ASSUME page'[p].processing, \A r \in page[p].waiting : run[r].cell = NoCell
               PROVE  \E i \in 1..Len(page'[p].handlers) : run[page'[p].handlers[i]].cell # NoCell
    BY <1>3, <1>9 DEF Busy
  <2>1. PICK i \in 1..Len(h) : run[h[i]].cell # NoCell
    BY <1>12 DEF Steady, Busy
  <2>2. h # <<>>
    BY <2>1
  <2>3. run[h[1]].stage # "lost"
    BY <1>11, <2>2 DEF Steady, Owned, Handled, Active
  <2>4. i # 1
    BY <1>11, <1>13, <2>1, <2>2, <2>3
  <2>5. i - 1 \in 1..Len(n) /\ (i - 1) + 1 = i
    BY <1>1, <1>11, <2>1, <2>2, <2>4
  <2>6. n[i - 1] = h[i]
    BY <1>11, <2>2, <2>5
  <2> HIDE DEF h
  <2> QED BY <1>10, <2>1, <2>2, <2>5, <2>6
<1>18. Enough(p)'
  <2>1. Coming(p)' = Coming(p)
    BY <1>3 DEF Coming
  <2>2. Len(rest) = Len(Results(toPage[p])) - 1 /\ Len(rest) \in Nat
    BY <1>14, ConcatProperties
  <2>3. Results(toPage'[p]) = rest
    BY <1>3 DEF rest
  <2>4. Len(h) <= Cardinality(Coming(p)) + Len(Results(toPage[p]))
    BY DEF Steady, Enough
  <2>5. Cardinality(Coming(p)) \in Nat
    BY ComingFinite
  <2>6. Len(page'[p].handlers) <= Cardinality(Coming(p)) + Len(rest)
    <3>1. CASE h = <<>>
      BY <1>10, <3>1, <2>2, <2>5
    <3>2. CASE h # <<>>
      BY <1>1, <1>10, <1>11, <2>2, <2>4, <2>5, <3>2
    <3> QED BY <3>1, <3>2
  <2> QED BY <2>1, <2>3, <2>6 DEF Enough
<1>19. Ordered(p)'
  <2> SUFFICES ASSUME Alone(p) PROVE \E q, c \in Seq(Runs) : Split(p, q, c)'
    BY <1>3 DEF Ordered, Alone
  <2>1. PICK q \in Seq(Runs), c \in Seq(Runs) : Split(p, q, c)
    BY DEF Steady, Ordered
  <2>2. q \o c \in Seq(RunOrNone)
    BY RunsAre, ConcatProperties
  <2>3. h = (<<Head(toPage[p]).run>> \o rest) \o (q \o c)
    BY <1>14, <2>1 DEF Split
  <2>4. h # <<>> /\ n = rest \o (q \o c)
    <3> DEFINE t == q \o c
               x == Head(toPage[p]).run
    <3>1. t \in Seq(RunOrNone) /\ x \in RunOrNone /\ rest \in Seq(RunOrNone) /\ h \in Seq(Runs)
      BY <1>1, <1>14, <2>2
    <3>2. h = (<<x>> \o rest) \o t
      BY <2>3
    <3> HIDE DEF h, t, x
    <3>3. h # <<>> /\ Tail(h) = rest \o t
      BY <3>1, <3>2, FirstGone
    <3> QED BY <3>3 DEF n, t
  <2>5. Chain(q)'
    BY <1>3, <2>1, ChainKept DEF Split
  <2>6. page'[p].handlers = n /\ Results(toPage'[p]) = rest /\ toServer'[p] = toServer[p]
    BY <1>3, <1>10, <2>4 DEF rest
  <2>7. Split(p, q, c)'
    BY <2>1, <2>4, <2>5, <2>6 DEF Split
  <2> QED BY <2>7
<1> QED BY <1>15, <1>16, <1>17, <1>18, <1>19 DEF Steady

\* What a page makes of a message
LEMMA ReceivesSteady ==
    ASSUME TypeOK, IInv, NEW p \in Pages, Steady(p),
           ReceiveDead(p) \/ ReceiveSync(p) \/ ReceiveOutput(p) \/ ReceiveResult(p)
    PROVE  Steady(p)'
<1>1. page \in [Pages -> Page] /\ page[p] \in Page /\ toPage \in [Pages -> Seq(Message)] /\ toPage[p] \in Seq(Message)
  BY TypeParts DEF PagesFit, LinesFit
<1>2. CASE ReceiveResult(p)
  BY <1>2, ResultSteady
<1>3. CASE ReceiveDead(p) \/ ReceiveSync(p) \/ ReceiveOutput(p)
  <2>1. UNCHANGED <<link, toServer, run, server>> /\ toPage[p] # <<>> /\ toPage'[p] = Tail(toPage[p])
    BY <1>1, <1>3 DEF ReceiveDead, ReceiveSync, ReceiveOutput, Receive
  <2>2. Results(toPage'[p]) = Results(toPage[p])
    <3>1. Head(toPage[p]).type # "result"
      BY <1>3 DEF ReceiveDead, ReceiveSync, ReceiveOutput, Receive
    <3>2. Results(toPage[p]) = <<>> \o Results(Tail(toPage[p]))
      BY <1>1, <2>1, <3>1, ResultsTail
    <3>3. Results(Tail(toPage[p])) \in Seq(RunOrNone)
      BY <1>1, <2>1, HeadTailProperties, ResultsExist, ResultsAre
    <3> QED BY <2>1, <3>2, <3>3, ConcatEmptySeq
  <2>3. ASSUME NEW pg, page' = [page EXCEPT ![p] = pg], pg.handlers = page[p].handlers,
               pg.waiting = page[p].waiting, pg.processing = page[p].processing
        PROVE  Steady(p)'
    <3>1. page'[p] = pg
      BY <1>1, <2>3
    <3> QED BY <2>1, <2>2, <2>3, <3>1, RestSteady
  <2>4. CASE ReceiveDead(p)
    <3> DEFINE pg == [page[p] EXCEPT !.ready = FALSE, !.queue = <<>>]
    <3>1. /\ page' = [page EXCEPT ![p] = pg] /\ pg.handlers = page[p].handlers /\ pg.waiting = page[p].waiting
          /\ pg.processing = page[p].processing
      BY <1>1, <2>4 DEF ReceiveDead, Page
    <3> HIDE DEF pg
    <3> QED BY <2>3, <3>1
  <2>5. CASE ReceiveSync(p)
    <3> DEFINE pg == [page[p] EXCEPT !.synced = TRUE, !.shown = Replaced(@, Head(toPage[p]).cells)]
    <3>1. /\ page' = [page EXCEPT ![p] = pg] /\ pg.handlers = page[p].handlers /\ pg.waiting = page[p].waiting
          /\ pg.processing = page[p].processing
      BY <1>1, <2>5 DEF ReceiveSync, Page
    <3> HIDE DEF pg
    <3> QED BY <2>3, <3>1
  <2>6. CASE ReceiveOutput(p)
    <3> DEFINE m == Head(toPage[p])
               h == IF page[p].handlers = <<>> THEN 0 ELSE Head(page[p].handlers)
               mine == Append(page[p].got[h], m.output)
               owned == [page[p] EXCEPT !.got[h] = mine, !.shown[run[h].cell] = mine]
               added == [page[p] EXCEPT !.shown[m.cell] = Append(@, m.output)]
    <3>1. \/ page' = [page EXCEPT ![p] = owned]
          \/ page' = [page EXCEPT ![p] = added]
          \/ page' = [page EXCEPT ![p] = page[p]]
      BY <2>6 DEF ReceiveOutput
    <3>2. /\ owned.handlers = page[p].handlers /\ owned.waiting = page[p].waiting
          /\ owned.processing = page[p].processing
          /\ added.handlers = page[p].handlers /\ added.waiting = page[p].waiting
          /\ added.processing = page[p].processing
      <4> HIDE DEF m, h, mine
      <4> QED BY <1>1 DEF Page
    <3> HIDE DEF owned, added
    <3> QED BY <2>3, <3>1, <3>2
  <2> QED BY <1>3, <2>4, <2>5, <2>6
<1> QED BY <1>2, <1>3

\* A page that waits for nothing, and to which no result is on the way, is steady.
LEMMA NothingSteady ==
    ASSUME TypeOK, NEW p \in Pages, Steady(p), Own(p),
           page[p].handlers = <<>>, page[p].waiting = {},
           page'[p].handlers = <<>>, page'[p].waiting = {}, page'[p].processing = page[p].processing,
           Results(toPage'[p]) = <<>>, toServer'[p] \in {<<>>, << 0 >>},
           \A r \in Runs : run'[r] = run[r] \/ (Quiet(r) /\ Quiet(r)'),
           server'.tail = server.tail, server'.connected = server.connected
    PROVE  Steady(p)'
<1>1. Idles(p)' /\ Owned(p)'
  BY DEF Idles, Owned
<1>2. Busy(p)'
  BY DEF Steady, Busy
<1>3. Enough(p)'
  BY ComingFinite DEF Enough
<1>4. Ordered(p)'
  <2> SUFFICES ASSUME Alone(p)' PROVE \E q, c \in Seq(Runs) : Split(p, q, c)'
    BY DEF Ordered
  <2>1. PICK q \in Seq(Runs), c \in Seq(Runs) : Split(p, q, c)
    BY OwnEvolves, AloneBefore DEF Steady, Ordered
  <2>2. q = <<>>
    BY LinesRead, RunsAre, ConcatProperties, <2>1, ConcatEqualIffEmpty DEF Split
  <2>3. Chain(q)'
    BY <2>1, ChainKept DEF Split
  <2>4. <<>> \in Seq(Runs) /\ << 0 >> \o <<>> = << 0 >> /\ <<>> \o (<<>> \o <<>>) = <<>>
    OBVIOUS
  <2>5. Split(p, <<>>, <<>>)'
    BY <2>2, <2>3, <2>4 DEF Split
  <2> QED BY <2>4, <2>5
<1> QED BY <1>1, <1>2, <1>3, <1>4 DEF Steady

\* A connection that opens, or breaks outside of a run
LEMMA ConnectsSteady ==
    ASSUME TypeOK, IInv, Joined, NEW p \in Pages, Steady(p), p \notin dropped', Connect(p) \/ Break(p)
    PROVE  Steady(p)'
<1>1. /\ page \in [Pages -> Page] /\ page[p] \in Page /\ toPage \in [Pages -> Seq(Message)]
      /\ toServer \in [Pages -> Seq(0..MaxRuns)] /\ ServerFits
  BY TypeParts DEF PagesFit, LinesFit
<1>2. Own(p)
  BY PageOwn
<1>3. page[p].handlers = <<>> /\ page[p].waiting = {}
  BY DEF Connect, Break, Steady, Idles
<1>4. /\ page'[p].handlers = <<>> /\ page'[p].waiting = {} /\ page'[p].processing = page[p].processing
      /\ toServer'[p] \in {<<>>, << 0 >>} /\ toPage'[p] \in {<<>>, Append(<<>>, Dead)}
      /\ server'.tail = server.tail /\ server'.connected = server.connected
  <2>1. CASE Connect(p)
    BY <2>1, <1>1, <1>3 DEF Connect, Joined, Page
  <2>2. CASE Break(p)
    BY <1>1, <1>3, <2>2 DEF Break, Page, ServerFits, Session
  <2> QED BY <2>1, <2>2
<1>5. \A r \in Runs : run'[r] = run[r] \/ (Quiet(r) /\ Quiet(r)')
  <2>1. \A r \in Runs : run'[r] = run[r] \/ run'[r].stage = "lost"
    BY <1>3, TypeParts DEF Connect, Break, RunsFit, Request
  <2> QED BY <1>2, <2>1 DEF Own, Quiet
<1>6. Results(toPage'[p]) = <<>>
  <2>1. <<>> \in Seq(Message) /\ Dead \in Message /\ Dead.type # "result"
    BY MessageType DEF Dead
  <2>2. Results(Append(<<>>, Dead)) = <<>>
    BY <2>1, ResultsAppend, ResultsEmpty, Zenon
  <2> QED BY <1>4, <2>2, ResultsEmpty
<1> QED BY <1>2, <1>3, <1>4, <1>5, <1>6, NothingSteady

\* The first of what is on its way to the server, when a page makes all the runs
LEMMA FirstOnWay ==
    ASSUME NEW s, s # <<>>, NEW c \in Seq(Runs), s \in {c, << 0 >> \o c}
    PROVE  /\ Head(s) = 0 => Tail(s) = c
           /\ Head(s) # 0 => s = c /\ Head(c) \in Runs /\ Tail(c) \in Seq(Runs) /\ c = <<Head(c)>> \o Tail(c)
<1>1. Head(<< 0 >> \o c) = 0 /\ Tail(<< 0 >> \o c) = c
  OBVIOUS
<1>2. c # <<>> => Head(c) \in Runs /\ Tail(c) \in Seq(Runs) /\ c = <<Head(c)>> \o Tail(c)
  OBVIOUS
<1>3. 0 \notin Runs
  BY RunsAre
<1> QED BY <1>1, <1>2, <1>3

\* The server takes a page's request for the outputs.
LEMMA SyncSteady ==
    ASSUME TypeOK, IInv, NEW p \in Pages, Steady(p), SyncOutputs(p)
    PROVE  Steady(p)'
<1>1. /\ toPage \in [Pages -> Seq(Message)] /\ toPage[p] \in Seq(Message)
      /\ toServer \in [Pages -> Seq(0..MaxRuns)] /\ ServerFits
  BY TypeParts DEF LinesFit
<1> DEFINE m == [type |-> "sync", cells |-> server.buffer]
<1>2. /\ toServer[p] # <<>> /\ Head(toServer[p]) = 0 /\ toServer'[p] = Tail(toServer[p])
      /\ toPage'[p] = Append(toPage[p], m) /\ UNCHANGED <<page, link, run>>
      /\ server' = [server EXCEPT !.subscribed = Subscribed(p)]
  BY <1>1 DEF SyncOutputs, TakeRequest
<1>3. Results(toPage'[p]) = Results(toPage[p])
  <2>1. m \in Message /\ m.type # "result"
    BY <1>1, MessageType DEF ServerFits, Session
  <2> HIDE DEF m
  <2> QED BY <1>1, <1>2, <2>1, ResultsAppend
<1>4. server'.tail = server.tail /\ server'.connected = server.connected
  BY <1>1, <1>2 DEF ServerFits, Session
<1>5. Idles(p)' /\ Owned(p)' /\ Busy(p)'
  BY <1>2 DEF Steady, Idles, Owned, Busy
<1>6. Enough(p)'
  BY <1>2, <1>3 DEF Steady, Enough, Coming
<1>7. Ordered(p)'
  <2> SUFFICES ASSUME Alone(p) PROVE \E q, c \in Seq(Runs) : Split(p, q, c)'
    BY <1>2 DEF Ordered, Alone
  <2>1. PICK q \in Seq(Runs), c \in Seq(Runs) : Split(p, q, c)
    BY DEF Steady, Ordered
  <2>2. toServer'[p] = c
    BY <1>2, <2>1, FirstOnWay DEF Split
  <2>3. Chain(q)'
    BY <1>2, <1>4, <2>1, ChainKept DEF Split
  <2>4. Split(p, q, c)'
    BY <1>2, <1>3, <2>1, <2>2, <2>3 DEF Split
  <2> QED BY <2>4
<1> QED BY <1>5, <1>6, <1>7 DEF Steady

\* The server takes a page's run into the chain.
LEMMA ExecuteSteady ==
    ASSUME TypeOK, IInv, NEW p \in Pages, Steady(p), Execute(p)
    PROVE  Steady(p)'
<1>0. PICK r : r = Head(toServer[p])
  OBVIOUS
<1>1. toServer \in [Pages -> Seq(0..MaxRuns)] /\ toServer[p] \in Seq(0..MaxRuns) /\ ServerFits /\ RunsFit
  BY TypeParts DEF LinesFit
<1>2. /\ Calm /\ toServer[p] # <<>> /\ r # 0 /\ toServer'[p] = Tail(toServer[p])
      /\ run' = [run EXCEPT ![r].stage = "queued", ![r].after = server.tail]
      /\ server' = [server EXCEPT !.tail = r] /\ UNCHANGED <<page, link, toPage>>
  BY <1>0, <1>1 DEF Execute, TakeRequest, Predecessor
<1>3. r \in Runs /\ run[r].stage = "asked" /\ run[r].by = p /\ Quiet(r)
  BY <1>0, <1>1, <1>2, SentOwn
<1>4. /\ run'[r].stage = "queued" /\ run'[r].by = p /\ run'[r].after = server.tail
      /\ run'[r].cell = run[r].cell /\ \A s \in Runs \ {r} : run'[s] = run[s]
  BY <1>1, <1>2, <1>3 DEF RunsFit, Request
<1>5. server'.tail = r /\ server'.connected = server.connected
  BY <1>1, <1>2 DEF ServerFits, Session
<1>6. Evolves
  BY OwnEvolves, PageOwn
<1>7. \A i \in 1..Len(page[p].handlers) : /\ page[p].handlers[i] \in Runs
                                          /\ run[page[p].handlers[i]].stage # "none"
  BY LinesRead DEF Steady, Owned, Handled, Active
<1>8. Idles(p)'
  BY <1>2 DEF Steady, Idles
<1>9. Owned(p)'
  <2>1. \A s \in Runs : run[s].stage \in Handled => run'[s].stage \in Handled
    BY <1>4 DEF Handled, Active
  <2> QED BY <1>2, <1>6, <1>7, <2>1 DEF Steady, Owned, Evolves
<1>10. Busy(p)'
  <2>1. \A s \in page[p].waiting : s \in Runs /\ run[s].stage # "none"
    BY WaitsOwn
  <2>2. \A s \in Runs : run[s].stage # "none" => run'[s].cell = run[s].cell
    BY <1>6 DEF Evolves
  <2>3. page'[p] = page[p]
    BY <1>2
  <2>4. Busy(p)
    BY DEF Steady
  <2>5. ASSUME NEW s \in page[p].waiting, run[s].cell # NoCell PROVE run'[s].cell # NoCell
    BY <2>1, <2>2, <2>5
  <2>6. ASSUME NEW i \in 1..Len(page[p].handlers), run[page[p].handlers[i]].cell # NoCell
        PROVE  run'[page[p].handlers[i]].cell # NoCell
    BY <1>7, <2>2, <2>6
  <2> QED BY <2>3, <2>4, <2>5, <2>6 DEF Busy
<1>11. Enough(p)'
  <2>1. Coming(p)' = Coming(p)
    BY <1>3, <1>4 DEF Coming
  <2> QED BY <1>2, <2>1 DEF Steady, Enough
<1>12. Ordered(p)'
  <2> SUFFICES ASSUME Alone(p)' PROVE \E q, c \in Seq(Runs) : Split(p, q, c)'
    BY DEF Ordered
  <2>1. PICK q \in Seq(Runs), c \in Seq(Runs) : Split(p, q, c)
    BY <1>6, AloneBefore DEF Steady, Ordered
  <2>2. toServer[p] = c /\ r = Head(c) /\ Tail(c) \in Seq(Runs) /\ c = <<r>> \o Tail(c)
    BY <1>0, <1>2, <2>1, FirstOnWay DEF Split
  <2>3. server.tail = 0 => q = <<>>
    <3> SUFFICES ASSUME q # <<>> PROVE server.tail # 0
      OBVIOUS
    <3>1. run[q[1]].stage = "running" /\ q[1] \in Runs
      BY <1>2, <2>1, ChainCalm DEF Split
    <3>2. server.connected
      BY <3>1 DEF IInv, InTurn, Connected
    <3> QED BY <2>1, <3>2 DEF Split, Chain
  <2> DEFINE n == Append(q, r)
             d == Tail(c)
  <2>4. Chain(n)' /\ n \in Seq(Runs)
    BY <2>1, <1>3, <1>4, <1>5, <2>3, ChainGrows, AppendProperties DEF Split
  <2>5. q \o c = n \o d
    <3>1. d \in Seq(Runs) /\ c = <<r>> \o d /\ <<r>> \in Seq(Runs)
      BY <1>3, <2>2
    <3> HIDE DEF d
    <3>2. (q \o <<r>>) \o d = q \o (<<r>> \o d)
      BY <3>1, ConcatAssociative
    <3>3. n = q \o <<r>>
      BY <1>3, AppendIsConcat
    <3> QED BY <3>1, <3>2, <3>3
  <2>6. toServer'[p] = d /\ d \in Seq(Runs)
    BY <1>2, <2>2
  <2>7. page[p].handlers = Results(toPage[p]) \o (q \o c)
    BY <2>1 DEF Split
  <2> HIDE DEF n, d
  <2>8. Split(p, n, d)'
    BY <1>2, <2>4, <2>5, <2>6, <2>7 DEF Split
  <2> QED BY <2>4, <2>6, <2>8
<1> QED BY <1>8, <1>9, <1>10, <1>11, <1>12 DEF Steady

-----------------------------------------------------------------------------
(* What the session does, for the pages *)

\* At most one message, that is no result
Outs(s) == s = <<>> \/ \E m \in Message : m.type # "result" /\ s = <<m>>

\* It adds no result.
LEMMA OutsAdd ==
    ASSUME NEW s \in Seq(Message), NEW outs, Outs(outs)
    PROVE  s \o outs \in Seq(Message) /\ Results(s \o outs) = Results(s)
<1>1. CASE outs = <<>>
  BY <1>1
<1>2. ASSUME NEW m \in Message, m.type # "result", outs = <<m>> PROVE s \o outs \in Seq(Message) /\ Results(s \o outs) = Results(s)
  <2>1. s \o outs = Append(s, m)
    BY <1>2, AppendIsConcat
  <2>2. Append(s, m) \in Seq(Message)
    BY AppendProperties
  <2>3. Results(Append(s, m)) = Results(s)
    BY <1>2, ResultsAppend
  <2> QED BY <2>1, <2>2, <2>3
<1> QED BY <1>1, <1>2 DEF Outs

\* The results on the way to a page after a broadcast
LEMMA BroadcastResults ==
    ASSUME TypeOK, NEW p \in Pages, NEW outs, Outs(outs), NEW others
    PROVE  /\ Outs(others) => Results(Broadcast(outs, others)[p]) = Results(toPage[p])
           /\ \A r \in Runs : others = <<ResultOf(r)>> =>
                Results(Broadcast(outs, others)[p]) =
                  IF link[p] THEN Append(Results(toPage[p]), r) ELSE Results(toPage[p])
<1> DEFINE mine == IF p \in server.subscribed THEN outs ELSE <<>>
           s == toPage[p]
<1>1. Broadcast(outs, others)[p] = IF link[p] THEN (s \o mine) \o others ELSE s
  BY DEF Broadcast
<1>2. s \in Seq(Message) /\ Outs(mine)
  BY LinesRead DEF Outs
<1> HIDE DEF mine, s
<1>3. s \o mine \in Seq(Message) /\ Results(s \o mine) = Results(s)
  BY <1>2, OutsAdd
<1>4. Outs(others) => Results((s \o mine) \o others) = Results(s)
  BY <1>3, OutsAdd
<1>5. ASSUME NEW r \in Runs, others = <<ResultOf(r)>>
      PROVE  Results((s \o mine) \o others) = Append(Results(s), r)
  <2>1. ResultOf(r) \in Message /\ ResultOf(r).type = "result" /\ ResultOf(r).run = r
    BY MessageType DEF ResultOf
  <2> DEFINE u == s \o mine
             m == ResultOf(r)
  <2>2. u \in Seq(Message) /\ m \in Message /\ Results(u) = Results(s) /\ m.type = "result" /\ m.run = r
    BY <1>3, <2>1
  <2> HIDE DEF u, m
  <2>3. u \o <<m>> = Append(u, m)
    BY <2>2, AppendIsConcat
  <2>4. Results(u \o <<m>>) = Append(Results(s), r)
    BY <2>2, <2>3, ResultsAppend
  <2> QED BY <1>5, <2>4 DEF u, m
<1> QED BY <1>1, <1>4, <1>5 DEF s

\* A step of the session by which no run ends
LEMMA ServesSteady ==
    ASSUME TypeOK, IInv, NEW p \in Pages, Steady(p), UNCHANGED <<page, link, toServer>>,
           Results(toPage'[p]) = Results(toPage[p]),
           \A r \in Runs : run[r].stage # "none" =>
             /\ run'[r].by = run[r].by /\ run'[r].cell = run[r].cell
             /\ run'[r].stage = run[r].stage \/ (run[r].stage \in Active /\ run'[r].stage \in Active),
           Alone(p)' => \A q \in Seq(Runs) : Chain(q) => Chain(q)'
    PROVE  Steady(p)'
<1>1. Evolves
  BY DEF Evolves, Active
<1>2. GoesOn(p)
  BY DEF GoesOn, Handled, Active
<1>3. Coming(p) \subseteq Coming(p)'
  BY DEF Coming, Active
<1>4. \A r \in page[p].waiting : run[r].stage # "none"
  BY WaitsOwn
<1> QED BY <1>1, <1>2, <1>3, <1>4, StillSteady

\* A run ends and its result is sent.
LEMMA EndSteady ==
    ASSUME TypeOK, IInv, NEW p \in Pages, Steady(p), UNCHANGED <<page, link, toServer>>,
           NEW r \in Runs, run[r].stage \in {"running", "cut"} \/ CanBegin(r), Ended(r),
           server'.tail = (IF server.tail = r THEN 0 ELSE server.tail),
           server'.connected = server.connected,
           NEW outs, Outs(outs), toPage' = Told(r, outs, <<ResultOf(r)>>)
    PROVE  Steady(p)'
<1> DEFINE R == Results(toPage[p])
           S == Results(toPage'[p])
<1>1. RunsFit
  BY TypeParts
<1>2. /\ run'[r].stage = "ended" /\ run'[r].by = run[r].by /\ run'[r].cell = run[r].cell
      /\ \A s \in Runs \ {r} : run'[s] = run[s]
  BY <1>1 DEF Ended, RunsFit, Request
<1>3. run[r].stage \in Active
  BY DEF CanBegin, Active
<1>4. Evolves
  BY <1>2, <1>3 DEF Evolves
<1>5. /\ R \in Seq(RunOrNone) /\ Len(R) \in Nat /\ page[p].handlers \in Seq(Runs)
      /\ Len(page[p].handlers) \in Nat
      /\ \A i \in 1..Len(page[p].handlers) : page[p].handlers[i] \in Runs
  BY LinesRead
<1>6. S = IF run[r].by # Agent /\ link[p] THEN Append(R, r) ELSE R
  BY BroadcastResults DEF Told
<1>7. r \in RunOrNone
  BY RunsAre
<1> HIDE DEF R, S
<1>8. Idles(p)'
  BY DEF Steady, Idles
<1>9. Owned(p)'
  BY <1>2, <1>5 DEF Handled, Steady, Owned
<1>10. Busy(p)'
  BY <1>2, WaitsOwn, <1>5 DEF Steady, Busy
<1>11. Enough(p)'
  <2>1. Len(page[p].handlers) <= Cardinality(Coming(p)) + Len(R)
    BY DEF Steady, Enough, R
  <2>2. Cardinality(Coming(p)) \in Nat /\ Cardinality(Coming(p)') \in Nat /\ IsFiniteSet(Coming(p))
    BY ComingFinite
  <2>3. CASE run[r].by # p
    <3>1. Coming(p)' = Coming(p)
      BY <1>2, <2>3 DEF Coming
    <3>2. Len(S) \in Nat /\ Len(S) >= Len(R)
      BY <1>5, <1>6, <1>7, AppendProperties
    <3> QED BY <1>5, <2>1, <2>2, <3>1, <3>2 DEF Enough, S
  <2>4. CASE run[r].by = p
    <3>1. Coming(p)' = Coming(p) \ {r} /\ r \in Coming(p)
      BY <1>2, <1>3, <2>4 DEF Coming, Active
    <3>2. Cardinality(Coming(p)') = Cardinality(Coming(p)) - 1
      BY <2>2, <3>1, FS_RemoveElement
    <3>3. CASE link[p]
      <4>1. S = Append(R, r)
        BY <1>6, <2>4, <3>3, ValueAssumption
      <4>2. Len(S) = Len(R) + 1
        BY <1>5, <1>7, <4>1, AppendProperties
      <4> QED BY <1>5, <2>1, <2>2, <3>2, <4>2 DEF Enough, S
    <3>4. CASE ~link[p]
      BY <1>6, <3>4, <1>5, <2>2 DEF Steady, Idles, Enough, S
    <3> QED BY <3>3, <3>4
  <2> QED BY <2>3, <2>4
<1>12. Ordered(p)'
  <2> SUFFICES ASSUME Alone(p)' PROVE \E q, c \in Seq(Runs) : Split(p, q, c)'
    BY DEF Ordered
  <2>1. PICK q \in Seq(Runs), c \in Seq(Runs) : Split(p, q, c)
    BY <1>4, AloneBefore DEF Steady, Ordered
  <2>2. Chain(q) /\ toServer[p] \in {c, << 0 >> \o c} /\ page[p].handlers = R \o (q \o c)
    BY <2>1 DEF Split, R
  <2>3. q # <<>> /\ q[1] = r
    BY <2>2, ChainHead
  <2> DEFINE d == Tail(q)
  <2>4. d \in Seq(Runs) /\ q = <<r>> \o d
    BY <2>3
  <2>5. Chain(d)'
    BY <1>2, <2>2, <2>3, ChainShrinks
  <2>6. run[r].by = p
    BY <1>2 DEF Alone
  <2> HIDE DEF d
  <2>7. /\ <<r>> \in Seq(RunOrNone) /\ d \in Seq(RunOrNone) /\ c \in Seq(RunOrNone)
        /\ q \in Seq(RunOrNone)
    BY <1>7, <2>4, RunsAre
  <2>8. d \o c \in Seq(RunOrNone) /\ q \o c \in Seq(RunOrNone)
    BY <2>7, ConcatProperties
  <2>9. q \o c = <<r>> \o (d \o c)
    BY <2>4, <2>7, ConcatAssociative
  <2>10. link[p]
    <3> SUFFICES ASSUME ~link[p] PROVE FALSE
      OBVIOUS
    <3>1. R \o (q \o c) = <<>>
      BY <2>2 DEF Steady, Idles
    <3>2. q \o c = <<>>
      BY <1>5, <2>8, <3>1, ConcatEqualIffEmpty
    <3> QED BY <2>3, <2>7, <3>2, ConcatEqualIffEmpty
  <2>11. S = R \o <<r>>
    <3>1. S = Append(R, r)
      BY <1>6, <2>6, <2>10, ValueAssumption
    <3> QED BY <1>5, <1>7, <3>1, AppendIsConcat
  <2>12. page[p].handlers = S \o (d \o c)
    <3> DEFINE t == d \o c
    <3>1. t \in Seq(RunOrNone) /\ <<r>> \in Seq(RunOrNone) /\ R \in Seq(RunOrNone)
      BY <1>5, <2>7, <2>8
    <3>2. page[p].handlers = R \o (<<r>> \o t)
      BY <2>2, <2>9
    <3> HIDE DEF t
    <3>3. (R \o <<r>>) \o t = R \o (<<r>> \o t)
      BY <3>1, ConcatAssociative
    <3>4. page[p].handlers = S \o t
      BY <2>11, <3>2, <3>3
    <3> QED BY <3>4 DEF t
  <2>13. Split(p, d, c)'
    BY <2>2, <2>5, <2>12 DEF Split, S
  <2> QED BY <2>4, <2>13
<1> QED BY <1>8, <1>9, <1>10, <1>11, <1>12 DEF Steady

\* What has an effect on the chain when an execution fails
LEMMA FailedChain ==
    ASSUME TypeOK, NEW r \in Runs, NEW sv \in Session, sv.tail = server.tail,
           sv.connected = server.connected, Failed(r, sv)
    PROVE  /\ server'.tail = (IF server.tail = r THEN 0 ELSE server.tail)
           /\ server'.connected = server.connected /\ Ended(r)
           /\ \E outs : Outs(outs) /\ toPage' = Told(r, outs, <<ResultOf(r)>>)
<1>1. /\ server' = [Unchained(r, sv) EXCEPT !.buffer = Buffered(@, run[r].cell, <<r, Cut>>)]
      /\ Ended(r)
  BY DEF Failed
<1>2. /\ Unchained(r, sv) \in Session
      /\ Unchained(r, sv).tail = (IF sv.tail = r THEN 0 ELSE sv.tail)
      /\ Unchained(r, sv).connected = sv.connected
  BY UnchainedType DEF Unchained, Session
<1>3. server'.tail = (IF server.tail = r THEN 0 ELSE server.tail) /\ server'.connected = server.connected
  BY <1>1, <1>2 DEF Session
<1>4. Outs(<<OutputOf(run[r].cell, <<r, Cut>>)>>)
  BY TypeParts, Numbers, MessageType DEF RunsFit, Request, Outputs, OutputOf, Outs
<1> QED BY <1>1, <1>3, <1>4 DEF Failed

\* Executions
LEMMA ExecutesSteady ==
    ASSUME TypeOK, IInv, NEW p \in Pages, Steady(p), NEW r \in Runs, Begin(r) \/ Take(r) \/ CutShort(r)
    PROVE  Steady(p)'
<1>1. RunsFit /\ ServerFits /\ server \in Session /\ ChannelsFit
  BY TypeParts DEF ServerFits
<1>2. UNCHANGED <<page, link, toServer>>
  BY DEF Begin, Take, CutShort
<1>3. ASSUME run[r].stage = "cut" \/ CanBegin(r), NEW sv \in Session, sv.tail = server.tail,
             sv.connected = server.connected, Failed(r, sv)
      PROVE  Steady(p)'
  <2>1. /\ server'.tail = (IF server.tail = r THEN 0 ELSE server.tail)
        /\ server'.connected = server.connected /\ Ended(r)
    BY <1>3, FailedChain
  <2>2. PICK outs : Outs(outs) /\ toPage' = Told(r, outs, <<ResultOf(r)>>)
    BY <1>3, FailedChain
  <2> QED BY <1>2, <1>3, <2>1, <2>2, EndSteady
<1>4. CASE Begin(r)
  <2> DEFINE cleared == IF run[r].cell = NoCell THEN server
                        ELSE [server EXCEPT !.buffer[run[r].cell] = <<>>]
  <2>1. CanBegin(r)
    BY <1>4 DEF Begin
  <2>2. \/ /\ server' = [cleared EXCEPT !.status = "busy"] /\ UNCHANGED toPage
           /\ run' = [run EXCEPT ![r].stage = "running", ![r].after = 0]
        \/ Failed(r, cleared)
    BY <1>4 DEF Begin
  <2>3. cleared \in Session /\ cleared.tail = server.tail /\ cleared.connected = server.connected
    <3>1. CASE run[r].cell = NoCell
      BY <1>1, <3>1
    <3>2. CASE run[r].cell # NoCell
      <4>1. [server.buffer EXCEPT ![run[r].cell] = <<>>] \in [Cells -> Seq(Outputs)]
        BY <1>1, <3>2 DEF RunsFit, Request, Session
      <4>2. \A b \in [Cells -> Seq(Outputs)] :
              /\ [server EXCEPT !.buffer = b] \in Session /\ [server EXCEPT !.buffer = b].tail = server.tail
              /\ [server EXCEPT !.buffer = b].connected = server.connected
        BY <1>1 DEF Session
      <4>3. cleared = [server EXCEPT !.buffer = [server.buffer EXCEPT ![run[r].cell] = <<>>]]
        BY <3>2
      <4> QED BY <4>1, <4>2, <4>3
    <3> QED BY <3>1, <3>2
  <2> HIDE DEF cleared
  <2>4. CASE Failed(r, cleared)
    BY <1>3, <2>1, <2>3, <2>4
  <2>5. CASE /\ server' = [cleared EXCEPT !.status = "busy"] /\ UNCHANGED toPage
             /\ run' = [run EXCEPT ![r].stage = "running", ![r].after = 0]
    <3>1. /\ run[r].stage = "queued" /\ run'[r].stage = "running" /\ run'[r].by = run[r].by
          /\ run'[r].cell = run[r].cell /\ \A s \in Runs \ {r} : run'[s] = run[s]
      BY <1>1, <2>1, <2>5 DEF CanBegin, RunsFit, Request
    <3>2. server'.tail = server.tail /\ server'.connected = server.connected
      BY <2>3, <2>5 DEF Session
    <3>3. ASSUME NEW q \in Seq(Runs), Chain(q) PROVE Chain(q)'
      BY <2>1, <3>3, ChainHead, <3>1, <3>2, ChainBegins
    <3>4. \A s \in Runs : run[s].stage # "none" =>
             /\ run'[s].by = run[s].by /\ run'[s].cell = run[s].cell
             /\ run'[s].stage = run[s].stage \/ (run[s].stage \in Active /\ run'[s].stage \in Active)
      BY <3>1 DEF Active
    <3> QED BY <1>2, <2>5, <3>3, <3>4, ServesSteady
  <2> QED BY <2>2, <2>4, <2>5
<1>5. CASE CutShort(r)
  <2>1. /\ server \in Session /\ [server EXCEPT !.status = "idle"] \in Session
        /\ [server EXCEPT !.status = "idle"].tail = server.tail
        /\ [server EXCEPT !.status = "idle"].connected = server.connected
    BY <1>1 DEF Session
  <2>2. PICK sv \in {server, [server EXCEPT !.status = "idle"]} : Failed(r, sv)
    BY <1>5 DEF CutShort
  <2>3. sv \in Session /\ sv.tail = server.tail /\ sv.connected = server.connected
    BY <2>1, <2>2
  <2> QED BY <1>3, <1>5, <2>2, <2>3 DEF CutShort
<1>6. CASE Take(r) /\ Head(channel[r]) = Idle
  <2>1. /\ run[r].stage = "running" /\ Ended(r)
        /\ server' = [Unchained(r, server) EXCEPT !.status = "idle"]
        /\ toPage' = Told(r, <<>>, <<ResultOf(r)>>)
    BY <1>6 DEF Take
  <2>2. /\ server'.tail = (IF server.tail = r THEN 0 ELSE server.tail)
        /\ server'.connected = server.connected
    BY <1>1, UnchainedType, <2>1 DEF Unchained, Session
  <2>3. Outs(<<>>)
    BY DEF Outs
  <2> QED BY <1>2, <2>1, <2>2, <2>3, EndSteady
<1>7. CASE Take(r) /\ Head(channel[r]) # Idle
  <2> DEFINE o == <<r, Head(channel[r])>>
  <2>1. /\ server' = [server EXCEPT !.buffer = Buffered(@, run[r].cell, o)]
        /\ toPage' = Told(r, <<OutputOf(run[r].cell, o)>>, <<>>) /\ UNCHANGED run /\ channel[r] # <<>>
    BY <1>7 DEF Take
  <2>2. o \in Outputs
    BY <1>1, <2>1, HeadTailProperties, Numbers DEF ChannelsFit, Outputs
  <2> HIDE DEF o
  <2>3. server'.tail = server.tail /\ server'.connected = server.connected
    BY <1>1, <2>1 DEF Session
  <2>4. Results(toPage'[p]) = Results(toPage[p])
    <3>1. OutputOf(run[r].cell, o) \in Message /\ OutputOf(run[r].cell, o).type # "result"
      BY <1>1, <2>2, MessageType DEF RunsFit, Request, OutputOf
    <3>2. Outs(<<OutputOf(run[r].cell, o)>>) /\ Outs(<<>>)
      BY <3>1 DEF Outs
    <3> QED BY <2>1, <3>2, BroadcastResults DEF Told
  <2>5. \A q \in Seq(Runs) : Chain(q) => Chain(q)'
    BY <2>1, <2>3, ChainKept
  <2> QED BY <1>2, <2>1, <2>4, <2>5, ServesSteady
<1> QED BY <1>4, <1>5, <1>6, <1>7

\* Restarts, deaths, the kernel, and agents
LEMMA OthersSteady ==
    ASSUME TypeOK, IInv, NEW p \in Pages, Steady(p),
           \/ \E c \in Cells : AgentRun(c)
           \/ Restarts \/ Hears \/ Prints \/ Raises \/ Finishes \/ \E r \in Runs : PrintsLate(r)
    PROVE  Steady(p)'
<1>1. RunsFit /\ ServerFits /\ server \in Session /\ Requests
  BY TypeParts DEF ServerFits, IInv
<1>2. UNCHANGED <<page, link, toServer>>
  BY RestartsKeep DEF IInv, AgentRun, Hears, Prints, Raises, Finishes, PrintsLate
<1>3. ASSUME NEW c \in Cells, AgentRun(c) PROVE Steady(p)'
  <2> DEFINE r == count.runs + 1
  <2>1. NewRun(Agent, c, "queued", server.tail) /\ UNCHANGED toPage
    BY <1>3 DEF AgentRun, Predecessor
  <2>2. /\ r \in Runs /\ run[r].stage = "none" /\ run'[r].stage = "queued" /\ run'[r].by = Agent
        /\ \A s \in Runs \ {r} : run'[s] = run[s]
    BY <1>1, <2>1, NewAside
  <2> HIDE DEF r
  <2>3. ~Alone(p)'
    BY <2>2, ValueAssumption DEF Alone
  <2> QED BY <1>2, <2>1, <2>2, <2>3, ServesSteady
<1>4. CASE Restarts
  <2>1. Results(toPage'[p]) = Results(toPage[p])
    <3>1. UNCHANGED toPage \/ toPage' = Broadcast(<<>>, <<Dead>>)
      BY <1>4, RestartsKeep DEF IInv
    <3> QED BY <3>1, MessageType, BroadcastResults DEF Dead, Outs
  <2>2. \A r \in Runs : run[r].stage # "none" =>
           /\ run'[r].by = run[r].by /\ run'[r].cell = run[r].cell
           /\ run'[r].stage = run[r].stage \/ (run[r].stage \in Active /\ run'[r].stage \in Active)
    BY <1>4, RestartsKeep DEF IInv, Active
  <2>3. \A q \in Seq(Runs) : Chain(q) => Chain(q)'
    BY <1>4, RestartsKeep DEF IInv
  <2> QED BY <1>2, <2>1, <2>2, <2>3, ServesSteady
<1>5. CASE Hears \/ Prints \/ Raises \/ Finishes \/ \E r \in Runs : PrintsLate(r)
  BY <1>5, <1>2, RestSteady DEF Hears, Prints, Raises, Finishes, PrintsLate
<1> QED BY <1>3, <1>4, <1>5

-----------------------------------------------------------------------------
(* Results come in order, and they come *)

\* The flow of requests and results is inductive.
LEMMA FlowsStep == TypeOK /\ IInv /\ Flows /\ [Next]_vars => Flows'
<1> SUFFICES ASSUME TypeOK, IInv, Flows, [Next]_vars PROVE Flows'
  OBVIOUS
<1>1. CASE UNCHANGED vars
  BY <1>1, RestSteady DEF vars, Flows, Joined
<1>2. CASE Next
  <2>1. Joined /\ Joined'
    BY <1>2, JoinedStep DEF Flows
  <2>2. dropped \subseteq dropped'
    <3>1. ASSUME NEW o \in Pages,
                 \/ \E c \in Cells : QueueExecution(o, c)
                 \/ ProcessNext(o) \/ RunHint(o) \/ Interrupt(o)
                 \/ \E r \in Runs : WaitOver(o, r) \/ WaitThrows(o, r)
          PROVE  dropped \subseteq dropped'
      BY <3>1 DEF QueueExecution, ProcessNext, RunHint, Interrupt, WaitOver, WaitThrows
    <3>2. ASSUME NEW o \in Pages, ReceiveDead(o) \/ ReceiveSync(o) \/ ReceiveOutput(o) \/ ReceiveResult(o)
          PROVE  dropped \subseteq dropped'
      BY <3>2 DEF ReceiveDead, ReceiveSync, ReceiveOutput, ReceiveResult, Receive
    <3>3. ASSUME NEW o \in Pages, Connect(o) \/ Break(o) \/ SyncOutputs(o) \/ Execute(o)
          PROVE  dropped \subseteq dropped'
      BY <3>3 DEF Connect, Break, SyncOutputs, Execute
    <3>4. ASSUME NEW r \in Runs, Begin(r) \/ Take(r) \/ CutShort(r) \/ PrintsLate(r)
          PROVE  dropped \subseteq dropped'
      BY <3>4 DEF Begin, Take, CutShort, PrintsLate
    <3>5. CASE Restarts \/ Hears \/ Prints \/ Raises \/ Finishes
      BY <3>5, RestartsKeep DEF IInv, Hears, Prints, Raises, Finishes
    <3>6. ASSUME NEW c \in Cells, AgentRun(c) PROVE dropped \subseteq dropped'
      BY <3>6 DEF AgentRun
    <3> QED BY <1>2, <3>1, <3>2, <3>3, <3>4, <3>5, <3>6 DEF Next, Restarts
  <2> SUFFICES ASSUME NEW p \in Pages, p \notin dropped', Steady(p) PROVE Steady(p)'
    BY <2>1, <2>2 DEF Flows
  <2>3. ASSUME NEW o \in Pages, o # p, Own(o) PROVE Steady(p)'
    BY <2>3, OwnOthers
  <2>4. ASSUME NEW o \in Pages,
               \/ \E c \in Cells : QueueExecution(o, c)
               \/ ProcessNext(o) \/ RunHint(o) \/ Interrupt(o)
               \/ \E r \in Runs : WaitOver(o, r) \/ WaitThrows(o, r)
        PROVE  Steady(p)'
    BY <2>1, <2>4, AsksSteady, <2>3, PageOwn
  <2>5. ASSUME NEW o \in Pages, ReceiveDead(o) \/ ReceiveSync(o) \/ ReceiveOutput(o) \/ ReceiveResult(o)
        PROVE  Steady(p)'
    BY <2>5, ReceivesSteady, <2>3, PageOwn
  <2>6. ASSUME NEW o \in Pages, Connect(o) \/ Break(o) \/ SyncOutputs(o) \/ Execute(o)
        PROVE  Steady(p)'
    BY <2>1, <2>6, ConnectsSteady, SyncSteady, ExecuteSteady, <2>3, PageOwn
  <2>7. ASSUME NEW r \in Runs, Begin(r) \/ Take(r) \/ CutShort(r) PROVE Steady(p)'
    BY <2>7, ExecutesSteady
  <2>8. CASE \/ \E c \in Cells : AgentRun(c)
             \/ Restarts \/ Hears \/ Prints \/ Raises \/ Finishes \/ \E r \in Runs : PrintsLate(r)
    BY <2>8, OthersSteady
  <2> QED BY <1>2, <2>4, <2>5, <2>6, <2>7, <2>8 DEF Next, Restarts
<1> QED BY <1>1, <1>2

\* In the beginning no page is connected and nothing is on the way.
LEMMA FlowsInit == Init => Flows
<1> SUFFICES ASSUME Init PROVE Flows
  OBVIOUS
<1>1. \A p \in Pages : /\ page[p].handlers = <<>> /\ page[p].waiting = {} /\ ~page[p].processing
                       /\ ~page[p].ready /\ toPage[p] = <<>> /\ toServer[p] = <<>>
  BY DEF Init
<1>2. Joined
  BY <1>1 DEF Joined
<1>3. ASSUME NEW p \in Pages PROVE Steady(p)
  <2>1. Idles(p) /\ Owned(p) /\ Busy(p)
    BY <1>1 DEF Idles, Owned, Busy
  <2>2. Enough(p)
    BY <1>1, ResultsEmpty, ComingFinite DEF Enough
  <2>3. Ordered(p)
    <3>1. Chain(<<>>)
      BY DEF Init, Chain, Active
    <3>2. <<>> \in Seq(Runs) /\ <<>> \o (<<>> \o <<>>) = <<>>
      OBVIOUS
    <3>3. Split(p, <<>>, <<>>)
      BY <1>1, <3>1, <3>2, ResultsEmpty DEF Split
    <3> QED BY <3>2, <3>3 DEF Ordered
  <2> QED BY <2>1, <2>2, <2>3 DEF Steady
<1> QED BY <1>2, <1>3 DEF Flows

\* The flow holds always.
THEOREM FlowInvariance == Spec => []Flows
<1>1. Init => Flows
  BY FlowsInit
<1>2. TypeOK /\ IInv /\ Flows /\ [Next]_vars => Flows'
  BY FlowsStep
<1> QED BY <1>1, <1>2, TypeCorrect, Invariance, PTL DEF Spec

\* A page that makes all the runs and has lost no connection in a run settles the
\* request that each result is of: the results on their way are a beginning of its
\* handlers.
THEOREM ResultsKeepOrder == Spec => []ResultsInOrder
<1>1. TypeOK /\ Flows => ResultsInOrder
  <2> SUFFICES ASSUME TypeOK, Flows, NEW p \in Pages \ dropped, Alone(p)
               PROVE  IsPrefix(Results(toPage[p]), page[p].handlers)
    BY DEF ResultsInOrder
  <2>1. PICK q \in Seq(Runs), c \in Seq(Runs) : page[p].handlers = Results(toPage[p]) \o (q \o c)
    BY DEF Flows, Steady, Ordered, Split
  <2> DEFINE R == Results(toPage[p])
             t == q \o c
             h == page[p].handlers
  <2>2. R \in Seq(RunOrNone) /\ t \in Seq(RunOrNone) /\ h = R \o t
    BY <2>1, LinesRead, RunsAre, ConcatProperties
  <2> HIDE DEF R, t, h
  <2>3. h \in Seq(RunOrNone) /\ Len(h) = Len(R) + Len(t) /\ Len(R) \in Nat /\ Len(t) \in Nat
    BY <2>2, ConcatProperties
  <2>4. \A i \in 1..Len(R) : h[i] = R[i]
    BY <2>3, <2>2, ConcatProperties
  <2>5. SubSeq(R, 1, Len(R)) = SubSeq(h, 1, Len(R))
    <3>1. \A i \in 1..Len(R) : R[i] \in RunOrNone /\ h[i] \in RunOrNone
      BY <2>2, <2>4, ElementOfSeq
    <3> DEFINE a == SubSeq(R, 1, Len(R))
               b == SubSeq(h, 1, Len(R))
    <3>2. /\ a \in Seq(RunOrNone) /\ Len(a) = Len(R) /\ \A i \in 1..Len(R) : a[i] = R[i]
          /\ b \in Seq(RunOrNone) /\ Len(b) = Len(R) /\ \A i \in 1..Len(R) : b[i] = h[i]
      BY <2>3, <3>1
    <3> HIDE DEF a, b
    <3>3. a = b
      BY <2>4, <3>2, SeqEqual
    <3> QED BY <3>3 DEF a, b
  <2>6. IsPrefix(R, h)
    BY <2>3, <2>5 DEF IsPrefix
  <2> QED BY <2>6 DEF R, h
<1> QED BY <1>1, TypeCorrect, FlowInvariance, PTL

\* What a page processes has a handler or waits for the synchronization, and no more
\* handlers wait than results are to come: its queue does not wait for nothing.
THEOREM ResultsAreToCome == Spec => []ResultsToCome
<1>1. TypeOK /\ Flows => ResultsToCome
  <2> SUFFICES ASSUME TypeOK, Flows, NEW p \in Pages \ dropped
               PROVE  /\ page[p].processing => page[p].handlers # <<>> \/ page[p].waiting # {}
                      /\ Len(page[p].handlers) <= Cardinality(Coming(p)) + Len(Results(toPage[p]))
    BY DEF ResultsToCome, Coming
  <2>1. Busy(p) /\ Enough(p)
    BY DEF Flows, Steady
  <2>2. page[p].processing => page[p].handlers # <<>> \/ page[p].waiting # {}
    BY <2>1 DEF Busy
  <2> QED BY <2>1, <2>2 DEF Enough
<1> QED BY <1>1, TypeCorrect, FlowInvariance, PTL

-----------------------------------------------------------------------------
(* The outputs that are on record, on their way and on display *)

\* x is in the sequence s.
Has(s, x) == \E i \in 1..Len(s) : s[i] = x
\* The outputs that a page shows or has collected, and those that a message brings
Seen(pg, o) == (\E c \in Cells : Has(pg.shown[c], o)) \/ (\E r \in Runs : Has(pg.got[r], o))
Carries(m, o) == \/ m.type = "output" /\ m.output = o
                 \/ m.type = "sync" /\ \E c \in Cells : Has(m.cells[c], o)

\* The messages s on their way to the page pg bring no output twice, none that it has,
\* and none of the outputs F that are still to come.
Once(s, pg, F) ==
    /\ \A c \in Cells : IsInjective(pg.shown[c])
    /\ \A r \in Runs : IsInjective(pg.got[r])
    /\ \A o \in F : ~Seen(pg, o)
    /\ \A i \in 1..Len(s) :
         /\ s[i].type = "sync" => \A c \in Cells : IsInjective(s[i].cells[c])
         /\ s[i].type = "output" => ~Seen(pg, s[i].output) /\ \A j \in 1..(i - 1) : ~Carries(s[j], s[i].output)
         /\ \A o \in F : ~Carries(s[i], o)

\* One more in a sequence
LEMMA HasAppend ==
    ASSUME NEW S, NEW s \in Seq(S), NEW x \in S, NEW y
    PROVE  Has(Append(s, x), y) <=> Has(s, y) \/ x = y
<1> DEFINE t == Append(s, x)
<1>1. Len(s) \in Nat /\ Len(t) = Len(s) + 1 /\ t[Len(s) + 1] = x /\ \A i \in 1..Len(s) : t[i] = s[i]
  BY AppendProperties
<1>2. 1..Len(t) = 1..Len(s) \cup {Len(s) + 1}
  BY <1>1
<1> HIDE DEF t
<1>3. Has(t, y) <=> Has(s, y) \/ x = y
  BY <1>1, <1>2 DEF Has
<1> QED BY <1>3 DEF t

\* One fewer
LEMMA HasTail ==
    ASSUME NEW S, NEW s \in Seq(S), s # <<>>, NEW y
    PROVE  Has(s, y) <=> Head(s) = y \/ Has(Tail(s), y)
<1> DEFINE t == Tail(s)
<1>1. Len(t) \in Nat /\ Len(s) = Len(t) + 1 /\ Head(s) = s[1] /\ \A i \in 1..Len(t) : t[i] = s[i + 1]
  BY HeadTailProperties
<1>2. \A i \in 1..Len(s) : i = 1 \/ (i - 1 \in 1..Len(t) /\ s[i] = t[i - 1])
  BY <1>1
<1>3. \A i \in 1..Len(t) : i + 1 \in 1..Len(s)
  BY <1>1
<1>4. 1 \in 1..Len(s)
  BY <1>1
<1> HIDE DEF t
<1>5. Has(s, y) <=> Head(s) = y \/ Has(t, y)
  BY <1>1, <1>2, <1>3, <1>4 DEF Has
<1> QED BY <1>5 DEF t

\* Nothing twice, one more
LEMMA InjectiveAppend ==
    ASSUME NEW S, NEW s \in Seq(S), IsInjective(s), NEW x \in S, ~Has(s, x)
    PROVE  IsInjective(Append(s, x))
<1> DEFINE t == Append(s, x)
<1>1. Len(s) \in Nat /\ Len(t) = Len(s) + 1 /\ t[Len(s) + 1] = x /\ \A i \in 1..Len(s) : t[i] = s[i]
  BY AppendProperties
<1>2. DOMAIN t = 1..Len(s) \cup {Len(s) + 1} /\ DOMAIN s = 1..Len(s)
  BY <1>1
<1> HIDE DEF t
<1>3. IsInjective(t)
  BY <1>1, <1>2 DEF Has, IsInjective
<1> QED BY <1>3 DEF t

\* An empty sequence has nothing twice.
LEMMA InjectiveEmpty == IsInjective(<<>>) /\ \A x : ~Has(<<>>, x)
BY DEF IsInjective, Has

\* The page takes the first message, or loses what it has.
LEMMA OnceTaken ==
    ASSUME NEW s \in Seq(Message), s # <<>>, NEW pg \in Page, NEW n \in Page, NEW F, Once(s, pg, F),
           \A o : Seen(n, o) => Seen(pg, o) \/ Carries(Head(s), o),
           \A c \in Cells : IsInjective(n.shown[c]), \A r \in Runs : IsInjective(n.got[r])
    PROVE  Once(Tail(s), n, F)
<1> DEFINE t == Tail(s)
<1>1. /\ Len(t) \in Nat /\ Len(s) = Len(t) + 1 /\ Head(s) = s[1] /\ \A i \in 1..Len(t) : t[i] = s[i + 1]
  BY HeadTailProperties
<1>2. 1 \in 1..Len(s) /\ \A i \in 1..Len(t) : /\ i + 1 \in 1..Len(s) /\ 1 \in 1..((i + 1) - 1)
                                               /\ \A j \in 1..(i - 1) : j + 1 \in 1..((i + 1) - 1) /\ j \in 1..Len(t)
  BY <1>1
<1> HIDE DEF t
<1>3. \A o \in F : ~Seen(n, o)
  BY <1>1, <1>2 DEF Once
<1>4. ASSUME NEW i \in 1..Len(t)
      PROVE  /\ t[i].type = "sync" => \A c \in Cells : IsInjective(t[i].cells[c])
             /\ t[i].type = "output" => ~Seen(n, t[i].output) /\ \A j \in 1..(i - 1) : ~Carries(t[j], t[i].output)
             /\ \A o \in F : ~Carries(t[i], o)
  BY <1>1, <1>2 DEF Once
<1>5. Once(t, n, F)
  BY <1>3, <1>4 DEF Once
<1> QED BY <1>5 DEF t

\* A message is sent that brings none but outputs that were still to come.
LEMMA OnceSent ==
    ASSUME NEW s \in Seq(Message), NEW m \in Message, NEW pg \in Page, NEW F, NEW G, Once(s, pg, F), G \subseteq F,
           \A o \in G : ~Carries(m, o),
           m.type = "output" => m.output \in F,
           m.type = "sync" => \A c \in Cells : IsInjective(m.cells[c])
    PROVE  Once(Append(s, m), pg, G)
<1> DEFINE t == Append(s, m)
<1>1. Len(s) \in Nat /\ Len(t) = Len(s) + 1 /\ t[Len(s) + 1] = m /\ \A i \in 1..Len(s) : t[i] = s[i]
  BY AppendProperties
<1>2. \A i \in 1..Len(t) : i \in 1..Len(s) \/ i = Len(s) + 1
  BY <1>1
<1>3. \A i \in 1..Len(s) : \A j \in 1..(i - 1) : j \in 1..Len(s)
  BY <1>1
<1>4. 1..((Len(s) + 1) - 1) = 1..Len(s)
  BY <1>1
<1> HIDE DEF t
<1>5. ASSUME NEW i \in 1..Len(s)
      PROVE  /\ t[i].type = "sync" => \A c \in Cells : IsInjective(t[i].cells[c])
             /\ t[i].type = "output" => ~Seen(pg, t[i].output) /\ \A j \in 1..(i - 1) : ~Carries(t[j], t[i].output)
             /\ \A o \in G : ~Carries(t[i], o)
  BY <1>1, <1>3 DEF Once
<1>6. m.type = "output" => ~Seen(pg, m.output) /\ \A j \in 1..Len(s) : ~Carries(t[j], m.output)
  BY <1>1 DEF Once
<1>7. \A i \in 1..Len(t) :
         /\ t[i].type = "sync" => \A c \in Cells : IsInjective(t[i].cells[c])
         /\ t[i].type = "output" => ~Seen(pg, t[i].output) /\ \A j \in 1..(i - 1) : ~Carries(t[j], t[i].output)
         /\ \A o \in G : ~Carries(t[i], o)
  BY <1>1, <1>2, <1>4, <1>5, <1>6
<1>8. Once(t, pg, G)
  BY <1>7 DEF Once
<1> QED BY <1>8 DEF t

\* Fewer outputs are still to come, and the page has what it had.
LEMMA OnceSame ==
    ASSUME NEW s \in Seq(Message), NEW pg, NEW n, NEW F, NEW G, Once(s, pg, F), G \subseteq F,
           n.shown = pg.shown, n.got = pg.got
    PROVE  Once(s, n, G)
<1>1. \A o : Seen(n, o) <=> Seen(pg, o)
  BY DEF Seen
<1> QED BY <1>1 DEF Once

\* Nothing is on the way.
LEMMA OnceAway ==
    ASSUME NEW s, NEW pg, NEW n, NEW F, NEW G, Once(s, pg, F), G \subseteq F,
           \A o \in G : Seen(n, o) => Seen(pg, o),
           \A c \in Cells : IsInjective(n.shown[c]), \A r \in Runs : IsInjective(n.got[r])
    PROVE  Once(<<>>, n, G)
<1>1. Len(<<>>) = 0 /\ 1..0 = {}
  OBVIOUS
<1>2. \A i \in 1..Len(<<>>) : FALSE
  BY <1>1
<1>3. \A o \in G : ~Seen(n, o)
  BY DEF Once
<1> QED BY <1>2, <1>3 DEF Once

-----------------------------------------------------------------------------
(* The outputs that are on record *)

Begun == {"running", "cut", "ended"}

\* What a step may do to the runs R and to the buffers B
Moves(R, Q) == \A r \in Runs : R[r].stage # "none" =>
                 /\ Q[r].by = R[r].by /\ Q[r].cell = R[r].cell /\ Q[r].stage # "none"
                 /\ R[r].stage \in Begun => Q[r].stage \in Begun
                 /\ R[r].stage = "ended" => Q[r].stage = "ended"
Shrinks(B, N) == \A c \in Cells : N[c] = B[c] \/ N[c] = <<>>

\* What is buffered is of runs of the cell that have begun, is there once and is not
\* still to come.
Stored(B, R, F) ==
    \A c \in Cells :
      /\ IsInjective(B[c])
      /\ \A i \in 1..Len(B[c]) : /\ B[c][i] \notin F
                                 /\ R[B[c][i][1]].cell = c /\ R[B[c][i][1]].stage \in Begun

Buffers == [Cells -> Seq(Outputs)]
Records == [Runs -> Request]

\* What is read from a buffer
LEMMA BufferRead ==
    ASSUME NEW B \in Buffers, NEW c \in Cells
    PROVE  /\ B[c] \in Seq(Outputs) /\ Len(B[c]) \in Nat
           /\ \A i \in 1..Len(B[c]) : B[c][i] \in Outputs /\ B[c][i][1] \in Runs
<1>1. B[c] \in Seq(Outputs)
  BY DEF Buffers
<1>2. \A i \in 1..Len(B[c]) : B[c][i] \in Outputs
  BY <1>1
<1> QED BY <1>1, <1>2 DEF Outputs

\* The output o of cell c is buffered.
Added(B, N, c, o) == N = [B EXCEPT ![c] = Append(@, o)]

\* The buffer of a cell after an output of the cell
LEMMA BufferAdds ==
    ASSUME NEW B \in Buffers, NEW c \in Cells, NEW o \in Outputs, NEW N, Added(B, N, c, o)
    PROVE  /\ N \in Buffers
           /\ \A d \in Cells \ {c} : N[d] = B[d]
           /\ N[c] = Append(B[c], o) /\ Len(N[c]) = Len(B[c]) + 1 /\ N[c][Len(B[c]) + 1] = o
           /\ \A i \in 1..Len(B[c]) : N[c][i] = B[c][i]
           /\ \A i \in 1..Len(N[c]) : i \in 1..Len(B[c]) \/ i = Len(B[c]) + 1
<1>1. B[c] \in Seq(Outputs) /\ Len(B[c]) \in Nat
  BY BufferRead
<1>2. Append(B[c], o) \in Seq(Outputs)
  BY <1>1
<1>3. N[c] = Append(B[c], o) /\ \A d \in Cells \ {c} : N[d] = B[d]
  BY DEF Buffers, Added
<1>4. N \in Buffers
  BY <1>2 DEF Buffers, Added
<1>5. /\ Len(N[c]) = Len(B[c]) + 1 /\ N[c][Len(B[c]) + 1] = o
      /\ \A i \in 1..Len(B[c]) : N[c][i] = B[c][i]
  BY <1>1, <1>3, AppendProperties
<1>6. \A i \in 1..Len(N[c]) : i \in 1..Len(B[c]) \/ i = Len(B[c]) + 1
  BY <1>1, <1>5
<1> QED BY <1>3, <1>4, <1>5, <1>6

\* Runs go on, buffers are cleared.
LEMMA StoredKept ==
    ASSUME NEW B \in Buffers, NEW N, NEW R \in Records, NEW Q, NEW F, NEW G,
           Stored(B, R, F), Moves(R, Q), Shrinks(B, N), G \subseteq F
    PROVE  Stored(N, Q, G)
<1> SUFFICES ASSUME NEW c \in Cells
             PROVE  /\ IsInjective(N[c])
                    /\ \A i \in 1..Len(N[c]) : /\ N[c][i] \notin G
                                 /\ Q[N[c][i][1]].cell = c /\ Q[N[c][i][1]].stage \in Begun
  BY DEF Stored
<1>1. CASE N[c] = <<>>
  BY <1>1, InjectiveEmpty
<1>2. CASE N[c] = B[c]
  <2>1. IsInjective(N[c])
    BY <1>2 DEF Stored
  <2>2. ASSUME NEW i \in 1..Len(N[c])
        PROVE  N[c][i] \notin G /\ Q[N[c][i][1]].cell = c /\ Q[N[c][i][1]].stage \in Begun
    BY <1>2, <2>2, BufferRead DEF Stored, Begun, Moves
  <2> QED BY <2>1, <2>2
<1> QED BY <1>1, <1>2 DEF Shrinks

\* An output is buffered.
LEMMA StoredAdds ==
    ASSUME NEW B \in Buffers, NEW c \in Cells, NEW o \in Outputs, NEW N, Added(B, N, c, o),
           NEW R \in Records, NEW F, NEW G, Stored(B, R, F), G \subseteq F, o \in F, o \notin G,
           R[o[1]].cell = c, R[o[1]].stage \in Begun
    PROVE  Stored(N, R, G)
<1>1. /\ \A d \in Cells \ {c} : N[d] = B[d]
      /\ N[c] = Append(B[c], o) /\ Len(N[c]) = Len(B[c]) + 1 /\ N[c][Len(B[c]) + 1] = o
      /\ \A i \in 1..Len(B[c]) : N[c][i] = B[c][i]
      /\ \A i \in 1..Len(N[c]) : i \in 1..Len(B[c]) \/ i = Len(B[c]) + 1
  BY BufferAdds
<1>2. \A d \in Cells : B[d] \in Seq(Outputs)
  BY BufferRead
<1>3. IsInjective(N[c])
  BY <1>1, <1>2, InjectiveAppend DEF Stored, Has
<1>4. \A i \in 1..Len(N[c]) : N[c][i] \notin G /\ R[N[c][i][1]].cell = c /\ R[N[c][i][1]].stage \in Begun
  BY <1>1 DEF Stored
<1>5. \A d \in Cells \ {c} : /\ IsInjective(N[d])
        /\ \A i \in 1..Len(N[d]) : N[d][i] \notin G /\ R[N[d][i][1]].cell = d /\ R[N[d][i][1]].stage \in Begun
  BY <1>1 DEF Stored
<1> QED BY <1>3, <1>4, <1>5 DEF Stored

-----------------------------------------------------------------------------
(* The messages on their way to a page *)

\* They are outputs of runs that have begun and results of runs that have ended, and
\* behind the result of a run there are none of its outputs.
Line(s, R) ==
    \A i \in 1..Len(s) :
      /\ s[i].type = "output" => R[s[i].output[1]].stage \in Begun /\ R[s[i].output[1]].cell = s[i].cell
      /\ s[i].type = "result" => s[i].run \in Runs /\ R[s[i].run].stage = "ended"
      /\ \A j \in 1..(i - 1) : s[i].type = "output" /\ s[j].type = "result" => s[i].output[1] # s[j].run

\* What is read from a line
LEMMA LineRead ==
    ASSUME NEW s \in Seq(Message)
    PROVE  /\ Len(s) \in Nat
           /\ \A i \in 1..Len(s) : /\ s[i] \in Message
                                   /\ s[i].type = "output" => s[i].output \in Outputs /\ s[i].output[1] \in Runs
<1>1. Len(s) \in Nat /\ \A i \in 1..Len(s) : s[i] \in Message
  OBVIOUS
<1>2. \A m \in Message : m.type = "output" => m.output \in Outputs /\ m.output[1] \in Runs
  BY MessageRead DEF Outputs
<1> QED BY <1>1, <1>2

\* Runs go on.
LEMMA LineKept ==
    ASSUME NEW s \in Seq(Message), NEW R \in Records, NEW Q, Line(s, R), Moves(R, Q)
    PROVE  Line(s, Q)
<1> SUFFICES ASSUME NEW i \in 1..Len(s)
             PROVE  /\ s[i].type = "output" => Q[s[i].output[1]].stage \in Begun /\ Q[s[i].output[1]].cell = s[i].cell
                    /\ s[i].type = "result" => s[i].run \in Runs /\ Q[s[i].run].stage = "ended"
                    /\ \A j \in 1..(i - 1) : s[i].type = "output" /\ s[j].type = "result" => s[i].output[1] # s[j].run
  BY DEF Line
<1>1. \A r \in Runs : R[r].stage \in Begun => Q[r].stage \in Begun /\ Q[r].cell = R[r].cell
  BY DEF Moves, Begun
<1>2. \A r \in Runs : R[r].stage = "ended" => Q[r].stage = "ended"
  BY DEF Moves
<1>3. s[i].type = "output" => s[i].output[1] \in Runs
  BY LineRead
<1>4. /\ s[i].type = "output" => R[s[i].output[1]].stage \in Begun /\ R[s[i].output[1]].cell = s[i].cell
      /\ s[i].type = "result" => s[i].run \in Runs /\ R[s[i].run].stage = "ended"
      /\ \A j \in 1..(i - 1) : s[i].type = "output" /\ s[j].type = "result" => s[i].output[1] # s[j].run
  BY DEF Line
<1> QED BY <1>1, <1>2, <1>3, <1>4

\* The first message is taken.
LEMMA LineTaken ==
    ASSUME NEW s \in Seq(Message), s # <<>>, NEW R, Line(s, R)
    PROVE  Line(Tail(s), R)
<1> DEFINE t == Tail(s)
<1>1. Len(t) \in Nat /\ Len(s) = Len(t) + 1 /\ \A i \in 1..Len(t) : t[i] = s[i + 1]
  BY HeadTailProperties
<1>2. \A i \in 1..Len(t) : /\ i + 1 \in 1..Len(s)
                           /\ \A j \in 1..(i - 1) : j + 1 \in 1..((i + 1) - 1) /\ j \in 1..Len(t)
  BY <1>1
<1> HIDE DEF t
<1>3. ASSUME NEW i \in 1..Len(t)
      PROVE  /\ t[i].type = "output" => R[t[i].output[1]].stage \in Begun /\ R[t[i].output[1]].cell = t[i].cell
             /\ t[i].type = "result" => t[i].run \in Runs /\ R[t[i].run].stage = "ended"
             /\ \A j \in 1..(i - 1) : t[i].type = "output" /\ t[j].type = "result" => t[i].output[1] # t[j].run
  BY <1>1, <1>2 DEF Line
<1>4. Line(t, R)
  BY <1>3 DEF Line
<1> QED BY <1>4 DEF t

\* A message is sent.
LEMMA LineSent ==
    ASSUME NEW s \in Seq(Message), NEW m \in Message, NEW R, Line(s, R),
           m.type = "output" => /\ R[m.output[1]].stage \in Begun /\ R[m.output[1]].cell = m.cell
                                /\ \A j \in 1..Len(s) : s[j].type = "result" => s[j].run # m.output[1],
           m.type = "result" => m.run \in Runs /\ R[m.run].stage = "ended"
    PROVE  Line(Append(s, m), R)
<1> DEFINE t == Append(s, m)
<1>1. Len(s) \in Nat /\ Len(t) = Len(s) + 1 /\ t[Len(s) + 1] = m /\ \A i \in 1..Len(s) : t[i] = s[i]
  BY AppendProperties
<1>2. \A i \in 1..Len(t) : i \in 1..Len(s) \/ i = Len(s) + 1
  BY <1>1
<1>3. 1..((Len(s) + 1) - 1) = 1..Len(s) /\ \A i \in 1..Len(s) : \A j \in 1..(i - 1) : j \in 1..Len(s)
  BY <1>1
<1> HIDE DEF t
<1>4. \A i \in 1..Len(s) :
        /\ t[i].type = "output" => R[t[i].output[1]].stage \in Begun /\ R[t[i].output[1]].cell = t[i].cell
        /\ t[i].type = "result" => t[i].run \in Runs /\ R[t[i].run].stage = "ended"
        /\ \A j \in 1..(i - 1) : t[i].type = "output" /\ t[j].type = "result" => t[i].output[1] # t[j].run
  BY <1>1, <1>3 DEF Line
<1>5. \A j \in 1..Len(s) : m.type = "output" /\ t[j].type = "result" => m.output[1] # t[j].run
  BY <1>1
<1>6. Line(t, R)
  BY <1>1, <1>2, <1>3, <1>4, <1>5 DEF Line
<1> QED BY <1>6 DEF t

-----------------------------------------------------------------------------
(* What a page will have shown when all messages have arrived *)

\* After a synchronization on its way the page has what is buffered: it brings it, or
\* the output itself is behind it.
Caught(s, B, R) ==
    \A c \in Cells : \A i \in 1..Len(B[c]) : R[B[c][i][1]].by # Agent =>
      \A j \in 1..Len(s) : s[j].type = "sync" =>
        \/ Has(s[j].cells[c], B[c][i])
        \/ \E l \in (j + 1)..Len(s) : s[l] = OutputOf(c, B[c][i])

\* Runs go on, buffers are cleared.
LEMMA CaughtKept ==
    ASSUME NEW s \in Seq(Message), NEW B \in Buffers, NEW N, NEW R \in Records, NEW Q, NEW F,
           Stored(B, R, F), Moves(R, Q), Shrinks(B, N), Caught(s, B, R)
    PROVE  Caught(s, N, Q)
<1> SUFFICES ASSUME NEW c \in Cells, NEW i \in 1..Len(N[c]), Q[N[c][i][1]].by # Agent,
                    NEW j \in 1..Len(s), s[j].type = "sync"
             PROVE  Has(s[j].cells[c], N[c][i]) \/ \E l \in (j + 1)..Len(s) : s[l] = OutputOf(c, N[c][i])
  BY DEF Caught
<1>1. N[c] = B[c]
  BY DEF Shrinks
<1>2. i \in 1..Len(B[c]) /\ B[c][i][1] \in Runs
  BY <1>1, BufferRead
<1>3. R[B[c][i][1]].stage # "none"
  BY <1>2 DEF Stored, Begun
<1>4. R[B[c][i][1]].by # Agent
  BY <1>1, <1>2, <1>3 DEF Moves
<1> QED BY <1>1, <1>2, <1>4 DEF Caught

\* The first message is taken.
LEMMA CaughtTaken ==
    ASSUME NEW s \in Seq(Message), s # <<>>, NEW B, NEW R, Caught(s, B, R)
    PROVE  Caught(Tail(s), B, R)
<1> DEFINE t == Tail(s)
<1>1. Len(t) \in Nat /\ Len(s) = Len(t) + 1 /\ \A i \in 1..Len(t) : t[i] = s[i + 1]
  BY HeadTailProperties
<1>2. \A j \in 1..Len(t) : /\ j + 1 \in 1..Len(s)
                           /\ \A l \in ((j + 1) + 1)..Len(s) : l - 1 \in (j + 1)..Len(t) /\ t[l - 1] = s[l]
  BY <1>1
<1> HIDE DEF t
<1>3. ASSUME NEW c \in Cells, NEW i \in 1..Len(B[c]), R[B[c][i][1]].by # Agent,
             NEW j \in 1..Len(t), t[j].type = "sync"
      PROVE  Has(t[j].cells[c], B[c][i]) \/ \E l \in (j + 1)..Len(t) : t[l] = OutputOf(c, B[c][i])
  <2>1. t[j] = s[j + 1] /\ j + 1 \in 1..Len(s)
    BY <1>1, <1>2
  <2>2. Has(s[j + 1].cells[c], B[c][i]) \/ \E l \in ((j + 1) + 1)..Len(s) : s[l] = OutputOf(c, B[c][i])
    BY <1>3, <2>1 DEF Caught
  <2> QED BY <1>2, <2>1, <2>2
<1>4. Caught(t, B, R)
  BY <1>3 DEF Caught
<1> QED BY <1>4 DEF t

\* A message is sent; a synchronization brings all that is buffered.
LEMMA CaughtSent ==
    ASSUME NEW s \in Seq(Message), NEW m \in Message, NEW B, NEW R, Caught(s, B, R),
           m.type = "sync" => m.cells = B
    PROVE  Caught(Append(s, m), B, R)
<1> DEFINE t == Append(s, m)
<1>1. Len(s) \in Nat /\ Len(t) = Len(s) + 1 /\ t[Len(s) + 1] = m /\ \A i \in 1..Len(s) : t[i] = s[i]
  BY AppendProperties
<1>2. \A i \in 1..Len(t) : i \in 1..Len(s) \/ i = Len(s) + 1
  BY <1>1
<1>3. \A j \in 1..Len(s) : \A l \in (j + 1)..Len(s) : l \in (j + 1)..Len(t) /\ t[l] = s[l]
  BY <1>1
<1> HIDE DEF t
<1>4. ASSUME NEW c \in Cells, NEW i \in 1..Len(B[c]), R[B[c][i][1]].by # Agent,
             NEW j \in 1..Len(t), t[j].type = "sync"
      PROVE  Has(t[j].cells[c], B[c][i]) \/ \E l \in (j + 1)..Len(t) : t[l] = OutputOf(c, B[c][i])
  <2>1. CASE j = Len(s) + 1
    <3>1. t[j].cells = B
      BY <1>1, <1>4, <2>1
    <3> QED BY <3>1 DEF Has
  <2>2. CASE j \in 1..Len(s)
    BY <1>1, <1>4, <2>2, <1>3 DEF Caught
  <2> QED BY <1>2, <2>1, <2>2
<1>5. Caught(t, B, R)
  BY <1>4 DEF Caught
<1> QED BY <1>5 DEF t

\* An output that has just been sent, or is of a run of the agent, is buffered.
LEMMA CaughtAdds ==
    ASSUME NEW s \in Seq(Message), NEW B \in Buffers, NEW c \in Cells, NEW o \in Outputs,
           NEW N, Added(B, N, c, o), NEW R, Caught(s, B, R),
           R[o[1]].by = Agent \/ (s # <<>> /\ s[Len(s)] = OutputOf(c, o))
    PROVE  Caught(s, N, R)
<1>1. /\ \A d \in Cells \ {c} : N[d] = B[d]
      /\ N[c][Len(B[c]) + 1] = o /\ \A i \in 1..Len(B[c]) : N[c][i] = B[c][i]
      /\ \A i \in 1..Len(N[c]) : i \in 1..Len(B[c]) \/ i = Len(B[c]) + 1
  BY BufferAdds
<1> SUFFICES ASSUME NEW d \in Cells, NEW i \in 1..Len(N[d]), R[N[d][i][1]].by # Agent,
                    NEW j \in 1..Len(s), s[j].type = "sync"
             PROVE  Has(s[j].cells[d], N[d][i]) \/ \E l \in (j + 1)..Len(s) : s[l] = OutputOf(d, N[d][i])
  BY DEF Caught
<1>2. CASE d # c \/ i \in 1..Len(B[c])
  <2>1. i \in 1..Len(B[d]) /\ N[d][i] = B[d][i]
    BY <1>1, <1>2
  <2> QED BY <2>1 DEF Caught
<1>3. CASE d = c /\ i = Len(B[c]) + 1
  BY <1>1, <1>3 DEF OutputOf
<1> QED BY <1>1, <1>2, <1>3

\* A page whose handlers wait for results has collected the outputs of their runs, and
\* shows the other ones that are buffered, or they are on their way.
Reaches(s, pg, B, R) ==
    \A c \in Cells : \A i \in 1..Len(B[c]) : R[B[c][i][1]].by # Agent =>
      IF Has(pg.handlers, B[c][i][1])
      THEN Has(pg.got[B[c][i][1]], B[c][i]) \/ Has(s, OutputOf(c, B[c][i]))
      ELSE \/ Has(pg.shown[c], B[c][i]) \/ Has(s, OutputOf(c, B[c][i]))
           \/ \E l \in 1..Len(s) : s[l].type = "sync" /\ Has(s[l].cells[c], B[c][i])

\* Runs go on, buffers are cleared, runs that are not buffered get handlers.
LEMMA ReachesKept ==
    ASSUME NEW s \in Seq(Message), NEW pg, NEW n, NEW B \in Buffers, NEW N, NEW R \in Records, NEW Q, NEW F,
           Stored(B, R, F), Moves(R, Q), Shrinks(B, N), Reaches(s, pg, B, R),
           n.got = pg.got, n.shown = pg.shown,
           \A r \in Runs : R[r].stage \in Begun => (Has(n.handlers, r) <=> Has(pg.handlers, r))
    PROVE  Reaches(s, n, N, Q)
<1> SUFFICES ASSUME NEW c \in Cells, NEW i \in 1..Len(N[c]), Q[N[c][i][1]].by # Agent
             PROVE  IF Has(n.handlers, N[c][i][1])
                    THEN Has(n.got[N[c][i][1]], N[c][i]) \/ Has(s, OutputOf(c, N[c][i]))
                    ELSE \/ Has(n.shown[c], N[c][i]) \/ Has(s, OutputOf(c, N[c][i]))
                         \/ \E l \in 1..Len(s) : s[l].type = "sync" /\ Has(s[l].cells[c], N[c][i])
  BY DEF Reaches
<1>1. N[c] = B[c]
  BY DEF Shrinks
<1>2. i \in 1..Len(B[c]) /\ B[c][i][1] \in Runs
  BY <1>1, BufferRead
<1>3. R[B[c][i][1]].stage \in Begun /\ R[B[c][i][1]].stage # "none"
  BY <1>2 DEF Stored, Begun
<1>4. R[B[c][i][1]].by # Agent
  BY <1>1, <1>2, <1>3 DEF Moves
<1>5. Has(n.handlers, B[c][i][1]) <=> Has(pg.handlers, B[c][i][1])
  BY <1>2, <1>3
<1> QED BY <1>1, <1>2, <1>4, <1>5 DEF Reaches

\* A message is sent.
LEMMA ReachesSent ==
    ASSUME NEW s \in Seq(Message), NEW m \in Message, NEW pg, NEW B, NEW R, Reaches(s, pg, B, R)
    PROVE  Reaches(Append(s, m), pg, B, R)
<1> DEFINE t == Append(s, m)
<1>1. Len(s) \in Nat /\ Len(t) = Len(s) + 1 /\ \A i \in 1..Len(s) : t[i] = s[i]
  BY AppendProperties
<1>2. \A i \in 1..Len(s) : i \in 1..Len(t)
  BY <1>1
<1> HIDE DEF t
<1>3. \A x : Has(s, x) => Has(t, x)
  BY <1>1, <1>2 DEF Has
<1>4. ASSUME NEW c \in Cells, NEW i \in 1..Len(B[c]), R[B[c][i][1]].by # Agent
      PROVE  IF Has(pg.handlers, B[c][i][1])
             THEN Has(pg.got[B[c][i][1]], B[c][i]) \/ Has(t, OutputOf(c, B[c][i]))
             ELSE \/ Has(pg.shown[c], B[c][i]) \/ Has(t, OutputOf(c, B[c][i]))
                  \/ \E l \in 1..Len(t) : t[l].type = "sync" /\ Has(t[l].cells[c], B[c][i])
  BY <1>4, <1>1, <1>2, <1>3 DEF Reaches
<1>5. Reaches(t, pg, B, R)
  BY <1>4 DEF Reaches
<1> QED BY <1>5 DEF t

\* All that is buffered is sent to a page none of whose runs it is of.
LEMMA ReachesSync ==
    ASSUME NEW s \in Seq(Message), NEW m \in Message, NEW pg, NEW B \in Buffers, NEW R,
           m.type = "sync", m.cells = B,
           \A c \in Cells : \A i \in 1..Len(B[c]) : ~Has(pg.handlers, B[c][i][1])
    PROVE  Reaches(Append(s, m), pg, B, R)
<1> DEFINE t == Append(s, m)
<1>1. Len(s) \in Nat /\ Len(t) = Len(s) + 1 /\ t[Len(s) + 1] = m
  BY AppendProperties
<1>2. Len(s) + 1 \in 1..Len(t)
  BY <1>1
<1> HIDE DEF t
<1>3. ASSUME NEW c \in Cells, NEW i \in 1..Len(B[c])
      PROVE  \E l \in 1..Len(t) : t[l].type = "sync" /\ Has(t[l].cells[c], B[c][i])
  BY <1>1, <1>3, <1>2 DEF Has
<1>4. Reaches(t, pg, B, R)
  BY <1>3 DEF Reaches
<1> QED BY <1>4 DEF t

\* An output that has just been sent, or is of a run of the agent, is buffered.
LEMMA ReachesAdds ==
    ASSUME NEW s \in Seq(Message), NEW pg, NEW B \in Buffers, NEW c \in Cells, NEW o \in Outputs,
           NEW N, Added(B, N, c, o), NEW R, Reaches(s, pg, B, R),
           R[o[1]].by = Agent \/ (s # <<>> /\ s[Len(s)] = OutputOf(c, o))
    PROVE  Reaches(s, pg, N, R)
<1>1. /\ \A d \in Cells \ {c} : N[d] = B[d]
      /\ N[c][Len(B[c]) + 1] = o /\ \A i \in 1..Len(B[c]) : N[c][i] = B[c][i]
      /\ \A i \in 1..Len(N[c]) : i \in 1..Len(B[c]) \/ i = Len(B[c]) + 1
  BY BufferAdds
<1> SUFFICES ASSUME NEW d \in Cells, NEW i \in 1..Len(N[d]), R[N[d][i][1]].by # Agent
             PROVE  IF Has(pg.handlers, N[d][i][1])
                    THEN Has(pg.got[N[d][i][1]], N[d][i]) \/ Has(s, OutputOf(d, N[d][i]))
                    ELSE \/ Has(pg.shown[d], N[d][i]) \/ Has(s, OutputOf(d, N[d][i]))
                         \/ \E l \in 1..Len(s) : s[l].type = "sync" /\ Has(s[l].cells[d], N[d][i])
  BY DEF Reaches
<1>2. CASE d # c \/ i \in 1..Len(B[c])
  <2>1. i \in 1..Len(B[d]) /\ N[d][i] = B[d][i]
    BY <1>1, <1>2
  <2> QED BY <2>1 DEF Reaches
<1>3. CASE d = c /\ i = Len(B[c]) + 1
  BY <1>1, <1>3 DEF Has
<1> QED BY <1>1, <1>2, <1>3

-----------------------------------------------------------------------------
(* A page that makes all the runs *)

\* The handlers of a page are those of different runs, which do not wait any more.
Distinct(hs, R) ==
    /\ \A a, b \in 1..Len(hs) : hs[a] = hs[b] => a = b
    /\ \A a \in 1..Len(hs) : R[hs[a]].stage \notin {"none", "waiting"}

\* A run gets a handler.
LEMMA DistinctAdds ==
    ASSUME NEW hs \in Seq(Runs), NEW r \in Runs, NEW R, Distinct(hs, R), R[r].stage \in {"none", "waiting"},
           NEW Q, Q[r].stage \notin {"none", "waiting"},
           \A q \in Runs : R[q].stage \notin {"none", "waiting"} => Q[q].stage \notin {"none", "waiting"}
    PROVE  Distinct(Append(hs, r), Q)
<1> DEFINE t == Append(hs, r)
<1>1. Len(hs) \in Nat /\ Len(t) = Len(hs) + 1 /\ t[Len(hs) + 1] = r /\ \A i \in 1..Len(hs) : t[i] = hs[i] /\ hs[i] \in Runs
  BY AppendProperties
<1>2. \A i \in 1..Len(t) : i \in 1..Len(hs) \/ i = Len(hs) + 1
  BY <1>1
<1> HIDE DEF t
<1>3. \A i \in 1..Len(hs) : hs[i] # r
  BY DEF Distinct
<1>4. \A a, b \in 1..Len(t) : t[a] = t[b] => a = b
  BY <1>1, <1>2, <1>3 DEF Distinct
<1>5. \A a \in 1..Len(t) : Q[t[a]].stage \notin {"none", "waiting"}
  BY <1>1, <1>2 DEF Distinct
<1>6. Distinct(t, Q)
  BY <1>4, <1>5 DEF Distinct
<1> QED BY <1>6 DEF t

\* Runs go on.
LEMMA DistinctKept ==
    ASSUME NEW hs \in Seq(Runs), NEW R, NEW Q, Distinct(hs, R),
           \A q \in Runs : R[q].stage \notin {"none", "waiting"} => Q[q].stage \notin {"none", "waiting"}
    PROVE  Distinct(hs, Q)
<1>1. \A i \in 1..Len(hs) : hs[i] \in Runs
  OBVIOUS
<1> QED BY <1>1 DEF Distinct

\* The first handler goes.
LEMMA DistinctTail ==
    ASSUME NEW hs \in Seq(Runs), hs # <<>>, NEW R, Distinct(hs, R)
    PROVE  Distinct(Tail(hs), R) /\ ~Has(Tail(hs), Head(hs))
<1> DEFINE t == Tail(hs)
<1>1. Len(t) \in Nat /\ Len(hs) = Len(t) + 1 /\ Head(hs) = hs[1] /\ \A i \in 1..Len(t) : t[i] = hs[i + 1]
  BY HeadTailProperties
<1>2. 1 \in 1..Len(hs) /\ \A i \in 1..Len(t) : i + 1 \in 1..Len(hs) /\ i + 1 # 1
  BY <1>1
<1> HIDE DEF t
<1>3. \A a, b \in 1..Len(t) : t[a] = t[b] => a = b
  BY <1>1, <1>2 DEF Distinct
<1>4. \A a \in 1..Len(t) : R[t[a]].stage \notin {"none", "waiting"}
  BY <1>1, <1>2 DEF Distinct
<1>5. ~Has(t, Head(hs))
  BY <1>1, <1>2 DEF Distinct, Has
<1>6. Distinct(t, R) /\ ~Has(t, Head(hs))
  BY <1>3, <1>4, <1>5 DEF Distinct
<1> QED BY <1>6 DEF t

\* What is buffered of a cell is of the last run of the cell that has begun: of none
\* that the page waits for before another one that has begun.
Behind(hs, B, R) ==
    \A c \in Cells : \A i \in 1..Len(B[c]) : \A b \in 1..Len(hs) :
      R[hs[b]].cell = c /\ R[hs[b]].stage \in Begun =>
        \E a \in b..Len(hs) : hs[a] = B[c][i][1]

\* Runs go on, the buffers of the cells of those that begin are cleared.
LEMMA BehindKept ==
    ASSUME NEW hs \in Seq(Runs), NEW B, NEW N, NEW R, NEW Q, Behind(hs, B, R), Moves(R, Q), Shrinks(B, N),
           Distinct(hs, R),
           \A b \in 1..Len(hs) : Q[hs[b]].stage \in Begun =>
             R[hs[b]].stage \in Begun \/ R[hs[b]].cell \notin Cells \/ N[R[hs[b]].cell] = <<>>
    PROVE  Behind(hs, N, Q)
<1> SUFFICES ASSUME NEW c \in Cells, NEW i \in 1..Len(N[c]), NEW b \in 1..Len(hs),
                    Q[hs[b]].cell = c, Q[hs[b]].stage \in Begun
             PROVE  \E a \in b..Len(hs) : hs[a] = N[c][i][1]
  BY DEF Behind
<1>1. N[c] # <<>> /\ N[c] = B[c]
  BY DEF Shrinks
<1>2. hs[b] \in Runs /\ R[hs[b]].stage # "none"
  BY DEF Distinct
<1>3. R[hs[b]].cell = c
  BY <1>2 DEF Moves
<1>4. R[hs[b]].stage \in Begun
  BY <1>1, <1>3
<1> QED BY <1>1, <1>3, <1>4 DEF Behind

\* A run that has not begun gets a handler.
LEMMA BehindAsks ==
    ASSUME NEW hs \in Seq(Runs), NEW r \in Runs, NEW B, NEW R, Behind(hs, B, R), R[r].stage \notin Begun
    PROVE  Behind(Append(hs, r), B, R)
<1> DEFINE t == Append(hs, r)
<1>1. Len(hs) \in Nat /\ Len(t) = Len(hs) + 1 /\ t[Len(hs) + 1] = r /\ \A i \in 1..Len(hs) : t[i] = hs[i]
  BY AppendProperties
<1>2. \A i \in 1..Len(t) : i \in 1..Len(hs) \/ i = Len(hs) + 1
  BY <1>1
<1>3. \A b \in 1..Len(hs) : \A a \in b..Len(hs) : a \in b..Len(t) /\ t[a] = hs[a]
  BY <1>1
<1> HIDE DEF t
<1>4. ASSUME NEW c \in Cells, NEW i \in 1..Len(B[c]), NEW b \in 1..Len(t), R[t[b]].cell = c, R[t[b]].stage \in Begun
      PROVE  \E a \in b..Len(t) : t[a] = B[c][i][1]
  <2>1. b \in 1..Len(hs) /\ t[b] = hs[b]
    BY <1>1, <1>2, <1>4
  <2>2. PICK a \in b..Len(hs) : hs[a] = B[c][i][1]
    BY <1>4, <2>1 DEF Behind
  <2> QED BY <1>3, <2>1, <2>2
<1>5. Behind(t, B, R)
  BY <1>4 DEF Behind
<1> QED BY <1>5 DEF t

\* The first handler goes.
LEMMA BehindTail ==
    ASSUME NEW hs \in Seq(Runs), hs # <<>>, NEW B, NEW R, Behind(hs, B, R)
    PROVE  Behind(Tail(hs), B, R)
<1> DEFINE t == Tail(hs)
<1>1. Len(t) \in Nat /\ Len(hs) = Len(t) + 1 /\ \A i \in 1..Len(t) : t[i] = hs[i + 1]
  BY HeadTailProperties
<1>2. \A b \in 1..Len(t) : b + 1 \in 1..Len(hs) /\ \A a \in (b + 1)..Len(hs) : a - 1 \in b..Len(t) /\ t[a - 1] = hs[a]
  BY <1>1
<1> HIDE DEF t
<1>3. ASSUME NEW c \in Cells, NEW i \in 1..Len(B[c]), NEW b \in 1..Len(t), R[t[b]].cell = c, R[t[b]].stage \in Begun
      PROVE  \E a \in b..Len(t) : t[a] = B[c][i][1]
  <2>1. b + 1 \in 1..Len(hs) /\ t[b] = hs[b + 1]
    BY <1>1, <1>2
  <2>2. PICK a \in (b + 1)..Len(hs) : hs[a] = B[c][i][1]
    BY <1>3, <2>1 DEF Behind
  <2> QED BY <1>2, <2>2
<1>4. Behind(t, B, R)
  BY <1>3 DEF Behind
<1> QED BY <1>4 DEF t

\* An output is buffered of a run behind all those that have begun.
LEMMA BehindAdds ==
    ASSUME NEW hs \in Seq(Runs), NEW B \in Buffers, NEW c \in Cells, NEW o \in Outputs,
           NEW N, Added(B, N, c, o), NEW R, Behind(hs, B, R),
           \A b \in 1..Len(hs) : R[hs[b]].stage \in Begun => \E a \in b..Len(hs) : hs[a] = o[1]
    PROVE  Behind(hs, N, R)
<1>1. /\ \A d \in Cells \ {c} : N[d] = B[d]
      /\ N[c][Len(B[c]) + 1] = o /\ \A i \in 1..Len(B[c]) : N[c][i] = B[c][i]
      /\ \A i \in 1..Len(N[c]) : i \in 1..Len(B[c]) \/ i = Len(B[c]) + 1
  BY BufferAdds
<1> SUFFICES ASSUME NEW d \in Cells, NEW i \in 1..Len(N[d]), NEW b \in 1..Len(hs),
                    R[hs[b]].cell = d, R[hs[b]].stage \in Begun
             PROVE  \E a \in b..Len(hs) : hs[a] = N[d][i][1]
  BY DEF Behind
<1>2. CASE d # c \/ i \in 1..Len(B[c])
  <2>1. i \in 1..Len(B[d]) /\ N[d][i] = B[d][i]
    BY <1>1, <1>2
  <2> QED BY <2>1 DEF Behind
<1>3. CASE d = c /\ i = Len(B[c]) + 1
  BY <1>1, <1>3
<1> QED BY <1>1, <1>2, <1>3

\* An output on its way is of a run that has a handler, and the results of all the runs
\* whose handlers are before it are ahead of the output.
Follows(s, hs) ==
    \A i \in 1..Len(s) : s[i].type = "output" =>
      \E b \in 1..Len(hs) : /\ hs[b] = s[i].output[1]
                            /\ \A a \in 1..(b - 1) : \E j \in 1..(i - 1) : s[j] = ResultOf(hs[a])

\* A run gets a handler.
LEMMA FollowsAsks ==
    ASSUME NEW s, NEW hs \in Seq(Runs), NEW r \in Runs, Follows(s, hs)
    PROVE  Follows(s, Append(hs, r))
<1> DEFINE t == Append(hs, r)
<1>1. Len(hs) \in Nat /\ Len(t) = Len(hs) + 1 /\ \A i \in 1..Len(hs) : t[i] = hs[i]
  BY AppendProperties
<1>2. \A b \in 1..Len(hs) : b \in 1..Len(t) /\ \A a \in 1..(b - 1) : a \in 1..Len(hs)
  BY <1>1
<1> HIDE DEF t
<1>3. ASSUME NEW i \in 1..Len(s), s[i].type = "output"
      PROVE  \E b \in 1..Len(t) : /\ t[b] = s[i].output[1]
                                  /\ \A a \in 1..(b - 1) : \E j \in 1..(i - 1) : s[j] = ResultOf(t[a])
  <2>1. PICK b \in 1..Len(hs) : /\ hs[b] = s[i].output[1]
                                /\ \A a \in 1..(b - 1) : \E j \in 1..(i - 1) : s[j] = ResultOf(hs[a])
    BY <1>3 DEF Follows
  <2>2. b \in 1..Len(t) /\ t[b] = s[i].output[1]
    BY <1>1, <1>2, <2>1
  <2>3. \A a \in 1..(b - 1) : \E j \in 1..(i - 1) : s[j] = ResultOf(t[a])
    BY <1>1, <1>2, <2>1
  <2> QED BY <2>2, <2>3
<1>4. Follows(s, t)
  BY <1>3 DEF Follows
<1> QED BY <1>4 DEF t

\* A message is sent.
LEMMA FollowsSent ==
    ASSUME NEW s \in Seq(Message), NEW m \in Message, NEW hs, Follows(s, hs),
           m.type = "output" =>
             \E b \in 1..Len(hs) : /\ hs[b] = m.output[1]
                                   /\ \A a \in 1..(b - 1) : \E j \in 1..Len(s) : s[j] = ResultOf(hs[a])
    PROVE  Follows(Append(s, m), hs)
<1> DEFINE t == Append(s, m)
<1>1. Len(s) \in Nat /\ Len(t) = Len(s) + 1 /\ t[Len(s) + 1] = m /\ \A i \in 1..Len(s) : t[i] = s[i]
  BY AppendProperties
<1>2. \A i \in 1..Len(t) : i \in 1..Len(s) \/ i = Len(s) + 1
  BY <1>1
<1>3. 1..((Len(s) + 1) - 1) = 1..Len(s) /\ \A i \in 1..Len(s) : \A j \in 1..(i - 1) : j \in 1..Len(s)
  BY <1>1
<1> HIDE DEF t
<1>4. ASSUME NEW i \in 1..Len(t), t[i].type = "output"
      PROVE  \E b \in 1..Len(hs) : /\ hs[b] = t[i].output[1]
                                   /\ \A a \in 1..(b - 1) : \E j \in 1..(i - 1) : t[j] = ResultOf(hs[a])
  <2>1. CASE i \in 1..Len(s)
    <3>1. PICK b \in 1..Len(hs) : /\ hs[b] = s[i].output[1]
                                  /\ \A a \in 1..(b - 1) : \E j \in 1..(i - 1) : s[j] = ResultOf(hs[a])
      BY <1>1, <1>4, <2>1 DEF Follows
    <3>2. \A a \in 1..(b - 1) : \E j \in 1..(i - 1) : t[j] = ResultOf(hs[a])
      BY <1>1, <1>3, <2>1, <3>1
    <3> QED BY <1>1, <2>1, <3>1, <3>2
  <2>2. CASE i = Len(s) + 1
    <3>1. PICK b \in 1..Len(hs) : /\ hs[b] = m.output[1]
                                  /\ \A a \in 1..(b - 1) : \E j \in 1..Len(s) : s[j] = ResultOf(hs[a])
      BY <1>1, <1>4, <2>2
    <3>2. \A a \in 1..(b - 1) : \E j \in 1..(i - 1) : t[j] = ResultOf(hs[a])
      BY <1>1, <1>3, <2>2, <3>1
    <3> QED BY <1>1, <2>2, <3>1, <3>2
  <2> QED BY <1>2, <2>1, <2>2
<1>5. Follows(t, hs)
  BY <1>4 DEF Follows
<1> QED BY <1>5 DEF t

\* A message is taken that is no result.
LEMMA FollowsTaken ==
    ASSUME NEW s \in Seq(Message), s # <<>>, NEW hs, Follows(s, hs), Head(s).type # "result"
    PROVE  Follows(Tail(s), hs)
<1> DEFINE t == Tail(s)
<1>1. Len(t) \in Nat /\ Len(s) = Len(t) + 1 /\ Head(s) = s[1] /\ \A i \in 1..Len(t) : t[i] = s[i + 1]
  BY HeadTailProperties
<1>2. \A i \in 1..Len(t) : /\ i + 1 \in 1..Len(s)
                           /\ \A j \in 1..((i + 1) - 1) : j = 1 \/ (j - 1 \in 1..(i - 1) /\ t[j - 1] = s[j])
  BY <1>1
<1> HIDE DEF t
<1>3. \A r : s[1] # ResultOf(r)
  BY <1>1 DEF ResultOf
<1>4. ASSUME NEW i \in 1..Len(t), t[i].type = "output"
      PROVE  \E b \in 1..Len(hs) : /\ hs[b] = t[i].output[1]
                                   /\ \A a \in 1..(b - 1) : \E j \in 1..(i - 1) : t[j] = ResultOf(hs[a])
  <2>1. t[i] = s[i + 1] /\ i + 1 \in 1..Len(s)
    BY <1>1, <1>2
  <2>2. PICK b \in 1..Len(hs) : /\ hs[b] = s[i + 1].output[1]
                                /\ \A a \in 1..(b - 1) : \E j \in 1..((i + 1) - 1) : s[j] = ResultOf(hs[a])
    BY <1>4, <2>1 DEF Follows
  <2>3. ASSUME NEW a \in 1..(b - 1) PROVE \E j \in 1..(i - 1) : t[j] = ResultOf(hs[a])
    <3>1. PICK j \in 1..((i + 1) - 1) : s[j] = ResultOf(hs[a])
      BY <2>2
    <3>2. j # 1
      BY <1>3, <3>1
    <3> QED BY <1>2, <3>1, <3>2
  <2> QED BY <2>1, <2>2, <2>3
<1>5. Follows(t, hs)
  BY <1>4 DEF Follows
<1> QED BY <1>5 DEF t

\* The result is taken of the run that has the first handler.
LEMMA FollowsResult ==
    ASSUME NEW s \in Seq(Message), s # <<>>, NEW hs \in Seq(Runs), hs # <<>>, Follows(s, hs),
           Head(s).type = "result", Head(s).run = Head(hs), NEW R, Line(s, R), Distinct(hs, R)
    PROVE  Follows(Tail(s), Tail(hs))
<1> DEFINE t == Tail(s)
           k == Tail(hs)
<1>1. Len(t) \in Nat /\ Len(s) = Len(t) + 1 /\ Head(s) = s[1] /\ \A i \in 1..Len(t) : t[i] = s[i + 1]
  BY HeadTailProperties
<1>2. \A i \in 1..Len(t) : /\ i + 1 \in 1..Len(s) /\ 1 \in 1..((i + 1) - 1)
                           /\ \A j \in 1..((i + 1) - 1) : j = 1 \/ (j - 1 \in 1..(i - 1) /\ t[j - 1] = s[j])
  BY <1>1
<1>3. Len(k) \in Nat /\ Len(hs) = Len(k) + 1 /\ Head(hs) = hs[1] /\ \A i \in 1..Len(k) : k[i] = hs[i + 1]
  BY HeadTailProperties
<1>4. /\ \A b \in 1..Len(hs) : b = 1 \/ (b - 1 \in 1..Len(k) /\ k[b - 1] = hs[b])
      /\ \A b \in 1..Len(hs) : \A a \in 1..((b - 1) - 1) : a + 1 \in 1..(b - 1) /\ a + 1 \in 1..Len(hs) /\ k[a] = hs[a + 1] /\ a + 1 # 1
      /\ 1 \in 1..Len(hs)
  BY <1>3
<1> HIDE DEF t, k
<1>5. ASSUME NEW i \in 1..Len(t), t[i].type = "output"
      PROVE  \E b \in 1..Len(k) : /\ k[b] = t[i].output[1]
                                  /\ \A a \in 1..(b - 1) : \E j \in 1..(i - 1) : t[j] = ResultOf(k[a])
  <2>1. t[i] = s[i + 1] /\ i + 1 \in 1..Len(s) /\ s[i + 1].type = "output"
    BY <1>1, <1>2, <1>5
  <2>2. PICK b \in 1..Len(hs) : /\ hs[b] = s[i + 1].output[1]
                                /\ \A a \in 1..(b - 1) : \E j \in 1..((i + 1) - 1) : s[j] = ResultOf(hs[a])
    BY <2>1 DEF Follows
  <2>3. s[i + 1].output[1] # s[1].run
    BY <1>1, <1>2, <2>1 DEF Line
  <2>4. b # 1
    BY <1>1, <1>3, <2>2, <2>3
  <2>5. b - 1 \in 1..Len(k) /\ k[b - 1] = t[i].output[1]
    BY <1>4, <2>1, <2>2, <2>4
  <2>6. ASSUME NEW a \in 1..((b - 1) - 1) PROVE \E j \in 1..(i - 1) : t[j] = ResultOf(k[a])
    <3>1. PICK j \in 1..((i + 1) - 1) : s[j] = ResultOf(hs[a + 1])
      BY <1>4, <2>2, <2>6
    <3>2. hs[a + 1] # hs[1]
      BY <1>4, <2>6 DEF Distinct
    <3>3. j # 1
      BY <1>1, <1>3, <3>1, <3>2 DEF ResultOf
    <3> QED BY <1>2, <1>4, <2>6, <3>1, <3>3
  <2> QED BY <2>5, <2>6
<1>6. Follows(t, k)
  BY <1>5 DEF Follows
<1> QED BY <1>6 DEF t, k

-----------------------------------------------------------------------------
(* The page takes a message *)

\* A synchronization with the output o of cell c is on its way.
Syncs(s, c, o) == \E l \in 1..Len(s) : s[l].type = "sync" /\ Has(s[l].cells[c], o)

\* It is the first message or behind it.
LEMMA SyncsTail ==
    ASSUME NEW s \in Seq(Message), s # <<>>, NEW c, NEW o, Syncs(s, c, o)
    PROVE  (Head(s).type = "sync" /\ Has(Head(s).cells[c], o)) \/ Syncs(Tail(s), c, o)
<1> DEFINE t == Tail(s)
<1>1. Len(t) \in Nat /\ Len(s) = Len(t) + 1 /\ Head(s) = s[1] /\ \A i \in 1..Len(t) : t[i] = s[i + 1]
  BY HeadTailProperties
<1>2. \A l \in 1..Len(s) : l = 1 \/ (l - 1 \in 1..Len(t) /\ t[l - 1] = s[l])
  BY <1>1
<1> HIDE DEF t
<1>3. (Head(s).type = "sync" /\ Has(Head(s).cells[c], o)) \/ Syncs(t, c, o)
  BY <1>1, <1>2 DEF Syncs
<1> QED BY <1>3 DEF t

\* What Reaches says of an output of a cell
Reached(s, pg, c, o) ==
    IF Has(pg.handlers, o[1])
    THEN Has(pg.got[o[1]], o) \/ Has(s, OutputOf(c, o))
    ELSE Has(pg.shown[c], o) \/ Has(s, OutputOf(c, o)) \/ Syncs(s, c, o)

\* Reaches is Reached of every output that is buffered.
LEMMA ReachesIs ==
    ASSUME NEW s, NEW pg, NEW B, NEW R
    PROVE  Reaches(s, pg, B, R) <=>
             \A c \in Cells : \A i \in 1..Len(B[c]) : R[B[c][i][1]].by # Agent => Reached(s, pg, c, B[c][i])
BY DEF Reaches, Reached, Syncs

\* An output in the line is its first message or behind it.
LEMMA OutputTail ==
    ASSUME NEW s \in Seq(Message), s # <<>>, NEW c, NEW o, Has(s, OutputOf(c, o)), Head(s) # OutputOf(c, o)
    PROVE  Has(Tail(s), OutputOf(c, o))
BY HasTail

\* The page takes a message that tells it nothing.
LEMMA ReachesTaken ==
    ASSUME NEW s \in Seq(Message), s # <<>>, NEW pg, NEW n, NEW B, NEW R, Reaches(s, pg, B, R),
           Head(s).type \notin {"output", "sync"},
           n.handlers = pg.handlers, n.got = pg.got, n.shown = pg.shown
    PROVE  Reaches(Tail(s), n, B, R)
<1> SUFFICES ASSUME NEW c \in Cells, NEW i \in 1..Len(B[c]), R[B[c][i][1]].by # Agent
             PROVE  Reached(Tail(s), n, c, B[c][i])
  BY ReachesIs
<1>1. Reached(s, pg, c, B[c][i])
  BY ReachesIs
<1>2. Head(s) # OutputOf(c, B[c][i])
  BY DEF OutputOf
<1>3. Has(s, OutputOf(c, B[c][i])) => Has(Tail(s), OutputOf(c, B[c][i]))
  BY <1>2, OutputTail
<1>4. Syncs(s, c, B[c][i]) => Syncs(Tail(s), c, B[c][i])
  BY SyncsTail
<1> QED BY <1>1, <1>3, <1>4 DEF Reached

\* The page takes a synchronization.
LEMMA ReachesSynced ==
    ASSUME NEW s \in Seq(Message), s # <<>>, NEW pg \in Page, NEW n, NEW B, NEW R, Reaches(s, pg, B, R),
           Caught(s, B, R), Head(s).type = "sync",
           n.handlers = pg.handlers, n.got = pg.got, n.shown = Replaced(pg.shown, Head(s).cells)
    PROVE  Reaches(Tail(s), n, B, R)
<1> SUFFICES ASSUME NEW c \in Cells, NEW i \in 1..Len(B[c]), R[B[c][i][1]].by # Agent
             PROVE  Reached(Tail(s), n, c, B[c][i])
  BY ReachesIs
<1> DEFINE o == B[c][i]
<1>0. Head(s) = s[1] /\ 1 \in 1..Len(s) /\ \A l \in 2..Len(s) : l - 1 \in 1..Len(Tail(s)) /\ Tail(s)[l - 1] = s[l]
  BY HeadTailProperties
<1>1. Has(Head(s).cells[c], o) \/ \E l \in 2..Len(s) : s[l] = OutputOf(c, o)
  BY <1>0 DEF Caught
<1>2. Has(Head(s).cells[c], o) => Has(n.shown[c], o)
  BY InjectiveEmpty DEF Replaced
<1>3. (\E l \in 2..Len(s) : s[l] = OutputOf(c, o)) => Has(Tail(s), OutputOf(c, o))
  BY <1>0 DEF Has
<1>4. Head(s) # OutputOf(c, o)
  BY DEF OutputOf
<1>5. Has(s, OutputOf(c, o)) => Has(Tail(s), OutputOf(c, o))
  BY <1>4, OutputTail
<1>6. Reached(s, pg, c, o)
  BY ReachesIs
<1> HIDE DEF o
<1>7. Reached(Tail(s), n, c, o)
  BY <1>1, <1>2, <1>3, <1>5, <1>6 DEF Reached
<1> QED BY <1>7 DEF o

\* A page that makes no runs takes an output.
LEMMA ReachesWatched ==
    ASSUME NEW s \in Seq(Message), s # <<>>, NEW pg \in Page, NEW n, NEW B \in Buffers, NEW R, Reaches(s, pg, B, R),
           Head(s).type = "output", pg.handlers = <<>>, n.handlers = pg.handlers,
           n.shown = IF Head(s).cell # NoCell
                     THEN [pg.shown EXCEPT ![Head(s).cell] = Append(@, Head(s).output)] ELSE pg.shown
    PROVE  Reaches(Tail(s), n, B, R)
<1> SUFFICES ASSUME NEW c \in Cells, NEW i \in 1..Len(B[c]), R[B[c][i][1]].by # Agent
             PROVE  Reached(Tail(s), n, c, B[c][i])
  BY ReachesIs
<1> DEFINE o == B[c][i]
<1>0. /\ Head(s) \in Message /\ Head(s).output \in Outputs /\ pg.shown \in [Cells -> Seq(Outputs)] /\ pg.shown[c] \in Seq(Outputs)
      /\ c # NoCell /\ \A r : ~Has(<<>>, r)
  BY HeadTailProperties, MessageRead, PageRead, ValueAssumption, InjectiveEmpty
<1>1. Has(pg.shown[c], o) => Has(n.shown[c], o)
  BY <1>0, HasAppend
<1>2. Head(s) = OutputOf(c, o) => Has(n.shown[c], o)
  <2> SUFFICES ASSUME Head(s) = OutputOf(c, o) PROVE Has(n.shown[c], o)
    OBVIOUS
  <2>1. Head(s).cell = c /\ Head(s).output = o
    BY DEF OutputOf
  <2>2. n.shown[c] = Append(pg.shown[c], Head(s).output)
    BY <1>0, <2>1
  <2>3. Has(Append(pg.shown[c], Head(s).output), o)
    BY <1>0, <2>1, HasAppend
  <2> QED BY <2>2, <2>3
<1>3. Has(s, OutputOf(c, o)) => Head(s) = OutputOf(c, o) \/ Has(Tail(s), OutputOf(c, o))
  BY OutputTail
<1>4. Syncs(s, c, o) => Syncs(Tail(s), c, o)
  BY SyncsTail
<1>5. Reached(s, pg, c, o)
  BY ReachesIs
<1> HIDE DEF o
<1>6. Reached(Tail(s), n, c, o)
  BY <1>0, <1>1, <1>2, <1>3, <1>4, <1>5 DEF Reached
<1> QED BY <1>6 DEF o

\* An output that is first in the line of a page that makes all the runs is of the run
\* that has the first handler, which has begun.
LEMMA FirstOutput ==
    ASSUME NEW s \in Seq(Message), s # <<>>, NEW hs \in Seq(Runs), NEW R, Head(s).type = "output",
           Follows(s, hs), Line(s, R)
    PROVE  /\ hs # <<>> /\ Head(hs) = Head(s).output[1] /\ Head(hs) \in Runs /\ hs[1] = Head(hs) /\ 1 \in 1..Len(hs)
           /\ R[Head(hs)].stage \in Begun /\ R[Head(hs)].cell = Head(s).cell
<1>1. s[1] = Head(s) /\ 1 \in 1..Len(s) /\ 1 - 1 = 0 /\ 1..0 = {}
  OBVIOUS
<1>2. PICK b \in 1..Len(hs) : /\ hs[b] = s[1].output[1]
                              /\ \A a \in 1..(b - 1) : \E j \in 1..(1 - 1) : s[j] = ResultOf(hs[a])
  BY <1>1 DEF Follows
<1>3. b = 1
  <2> SUFFICES ASSUME b # 1 PROVE FALSE
    OBVIOUS
  <2>1. 1 \in 1..(b - 1)
    BY <1>2
  <2>2. \E j \in 1..(1 - 1) : s[j] = ResultOf(hs[1])
    BY <1>2, <2>1
  <2> QED BY <1>1, <2>2
<1>4. hs # <<>> /\ hs[1] = Head(hs) /\ hs[1] \in Runs
  BY <1>2
<1>5. R[s[1].output[1]].stage \in Begun /\ R[s[1].output[1]].cell = s[1].cell
  BY <1>1 DEF Line
<1> QED BY <1>1, <1>2, <1>3, <1>4, <1>5

\* The buffers have no output of a cell that is of another run, if the first handler is
\* of a run of the cell that has begun.
LEMMA FirstBehind ==
    ASSUME NEW hs \in Seq(Runs), hs # <<>>, NEW B, NEW R, Behind(hs, B, R), R[Head(hs)].stage \in Begun,
           NEW c \in Cells, R[Head(hs)].cell = c, NEW i \in 1..Len(B[c])
    PROVE  Has(hs, B[c][i][1])
<1>1. hs[1] = Head(hs) /\ 1 \in 1..Len(hs)
  OBVIOUS
<1>2. PICK a \in 1..Len(hs) : hs[a] = B[c][i][1]
  BY <1>1 DEF Behind
<1> QED BY <1>2 DEF Has

\* A page that makes all the runs takes an output.
LEMMA ReachesOutput ==
    ASSUME NEW s \in Seq(Message), s # <<>>, NEW pg \in Page, NEW n, NEW B \in Buffers, NEW R, Reaches(s, pg, B, R),
           Head(s).type = "output", Follows(s, pg.handlers), Line(s, R), Behind(pg.handlers, B, R),
           NEW F, Stored(B, R, F), n.handlers = pg.handlers,
           LET h == Head(pg.handlers)
               mine == Append(pg.got[h], Head(s).output)
           IN IF R[h].cell # NoCell
              THEN n.got = [pg.got EXCEPT ![h] = mine] /\ n.shown = [pg.shown EXCEPT ![R[h].cell] = mine]
              ELSE n.got = pg.got /\ n.shown = pg.shown
    PROVE  Reaches(Tail(s), n, B, R)
<1> SUFFICES ASSUME NEW c \in Cells, NEW i \in 1..Len(B[c]), R[B[c][i][1]].by # Agent
             PROVE  Reached(Tail(s), n, c, B[c][i])
  BY ReachesIs
<1> DEFINE o == B[c][i]
           h == Head(pg.handlers)
           mine == Append(pg.got[h], Head(s).output)
<1>0. /\ Head(s) \in Message /\ Head(s).output \in Outputs
      /\ pg.shown \in [Cells -> Seq(Outputs)] /\ pg.got \in [Runs -> Seq(Outputs)] /\ pg.handlers \in Seq(Runs)
      /\ c # NoCell
  BY HeadTailProperties, MessageRead, PageRead, ValueAssumption
<1>1. /\ pg.handlers # <<>> /\ h = Head(s).output[1] /\ h \in Runs /\ R[h].stage \in Begun /\ R[h].cell = Head(s).cell
      /\ Has(pg.handlers, h)
  BY <1>0, FirstOutput DEF Has
<1>2. o[1] \in Runs /\ R[o[1]].cell = c
  BY BufferRead DEF Stored
<1>3. IF R[h].cell # NoCell
      THEN n.got = [pg.got EXCEPT ![h] = mine] /\ n.shown = [pg.shown EXCEPT ![R[h].cell] = mine]
      ELSE n.got = pg.got /\ n.shown = pg.shown
  OBVIOUS
<1>4. pg.got[h] \in Seq(Outputs) /\ \A y : Has(mine, y) <=> Has(pg.got[h], y) \/ Head(s).output = y
  BY <1>0, <1>1, HasAppend
<1>5. Reached(s, pg, c, o)
  BY ReachesIs
<1>6. Has(s, OutputOf(c, o)) => Head(s) = OutputOf(c, o) \/ Has(Tail(s), OutputOf(c, o))
  BY OutputTail
<1>7. Syncs(s, c, o) => Syncs(Tail(s), c, o)
  BY SyncsTail
<1>8. R[h].cell = c => Has(pg.handlers, o[1])
  BY <1>0, <1>1, FirstBehind
<1>9. Head(s) = OutputOf(c, o) => o[1] = h /\ Head(s).output = o
  BY <1>1 DEF OutputOf
<1> HIDE DEF o, h, mine
<1>10. n.handlers = pg.handlers
  OBVIOUS
<1>11. ASSUME Has(pg.handlers, o[1]) PROVE Reached(Tail(s), n, c, o)
  <2>1. Has(pg.got[o[1]], o) => Has(n.got[o[1]], o)
    BY <1>0, <1>1, <1>2, <1>3, <1>4
  <2>2. Head(s) = OutputOf(c, o) => Has(n.got[o[1]], o)
    <3> SUFFICES ASSUME Head(s) = OutputOf(c, o) PROVE Has(n.got[o[1]], o)
      OBVIOUS
    <3>1. o[1] = h /\ R[h].cell # NoCell /\ Has(mine, o)
      BY <1>0, <1>2, <1>4, <1>9
    <3>2. n.got[h] = mine
      BY <1>0, <1>1, <1>3, <3>1
    <3> QED BY <3>1, <3>2
  <2> QED BY <1>5, <1>6, <1>10, <1>11, <2>1, <2>2 DEF Reached
<1>12. ASSUME ~Has(pg.handlers, o[1]) PROVE Reached(Tail(s), n, c, o)
  <2>1. n.shown[c] = pg.shown[c]
    <3>1. R[h].cell # c
      BY <1>8, <1>12
    <3> QED BY <1>0, <1>3, <3>1
  <2>2. Head(s) # OutputOf(c, o)
    BY <1>1, <1>9, <1>12
  <2> QED BY <1>5, <1>6, <1>7, <1>10, <1>12, <2>1, <2>2 DEF Reached
<1> QED BY <1>11, <1>12 DEF o

\* A page that makes all the runs takes the result of the run that has the first handler.
LEMMA ReachesResult ==
    ASSUME NEW s \in Seq(Message), s # <<>>, NEW pg \in Page, NEW n, NEW B \in Buffers, NEW R, Reaches(s, pg, B, R),
           Head(s).type = "result", pg.handlers # <<>>, Head(s).run = Head(pg.handlers),
           Line(s, R), Behind(pg.handlers, B, R), Distinct(pg.handlers, R),
           NEW F, Stored(B, R, F), n.handlers = Tail(pg.handlers),
           LET h == Head(pg.handlers)
           IN IF R[h].cell # NoCell
              THEN n.got = [pg.got EXCEPT ![h] = <<>>] /\ n.shown = [pg.shown EXCEPT ![R[h].cell] = pg.got[h]]
              ELSE n.got = pg.got /\ n.shown = pg.shown
    PROVE  Reaches(Tail(s), n, B, R)
<1> SUFFICES ASSUME NEW c \in Cells, NEW i \in 1..Len(B[c]), R[B[c][i][1]].by # Agent
             PROVE  Reached(Tail(s), n, c, B[c][i])
  BY ReachesIs
<1> DEFINE o == B[c][i]
           h == Head(pg.handlers)
<1>0. /\ pg.shown \in [Cells -> Seq(Outputs)] /\ pg.got \in [Runs -> Seq(Outputs)] /\ pg.handlers \in Seq(Runs)
      /\ c # NoCell
  BY PageRead, ValueAssumption
<1>1. h \in Runs /\ ~Has(n.handlers, h) /\ \A x : Has(pg.handlers, x) <=> h = x \/ Has(n.handlers, x)
  BY <1>0, DistinctTail, HasTail
<1>2. R[h].stage \in Begun
  BY DEF Line, Begun
<1>3. o[1] \in Runs /\ R[o[1]].cell = c
  BY BufferRead DEF Stored
<1>4. IF R[h].cell # NoCell
      THEN n.got = [pg.got EXCEPT ![h] = <<>>] /\ n.shown = [pg.shown EXCEPT ![R[h].cell] = pg.got[h]]
      ELSE n.got = pg.got /\ n.shown = pg.shown
  OBVIOUS
<1>5. Reached(s, pg, c, o)
  BY ReachesIs
<1>6. Has(s, OutputOf(c, o)) => Has(Tail(s), OutputOf(c, o))
  <2>1. Head(s) # OutputOf(c, o)
    BY DEF OutputOf
  <2> QED BY <2>1, OutputTail
<1>7. Syncs(s, c, o) => Syncs(Tail(s), c, o)
  BY SyncsTail
<1>8. R[h].cell = c => Has(pg.handlers, o[1])
  BY <1>0, <1>2, FirstBehind
<1>9. o[1] = h => ~Has(s, OutputOf(c, o))
  <2> SUFFICES ASSUME o[1] = h, NEW l \in 1..Len(s), s[l] = OutputOf(c, o) PROVE FALSE
    BY DEF Has
  <2>1. s[1] = Head(s) /\ 1 \in 1..Len(s)
    OBVIOUS
  <2>2. s[l].type = "output" /\ s[l].output = o
    BY DEF OutputOf
  <2>3. l # 1
    BY <2>1, <2>2
  <2>4. 1 \in 1..(l - 1)
    BY <2>3
  <2>5. s[l].output[1] # s[1].run
    BY <2>1, <2>2, <2>4 DEF Line
  <2> QED BY <2>1, <2>2, <2>5
<1> HIDE DEF o, h
<1>10. ASSUME Has(n.handlers, o[1]) PROVE Reached(Tail(s), n, c, o)
  BY <1>1, <1>10, <1>0, <1>3, <1>4, <1>5, <1>6 DEF Reached
<1>11. ASSUME ~Has(n.handlers, o[1]), o[1] = h PROVE Reached(Tail(s), n, c, o)
  BY <1>1, <1>5, <1>9, <1>11, <1>3, <1>0, <1>4 DEF Reached
<1>12. ASSUME ~Has(n.handlers, o[1]), o[1] # h PROVE Reached(Tail(s), n, c, o)
  <2>1. ~Has(pg.handlers, o[1])
    BY <1>1, <1>12
  <2>2. R[h].cell # c
    BY <1>8, <2>1
  <2>3. n.shown[c] = pg.shown[c]
    BY <1>0, <1>4, <2>2
  <2> QED BY <1>5, <1>6, <1>7, <1>12, <2>1, <2>3 DEF Reached
<1> QED BY <1>10, <1>11, <1>12 DEF o

-----------------------------------------------------------------------------
(* A page and its line *)

\* All this of a page: sub, it gets outputs; alone, it makes all the runs; fit, it makes
\* all or none of them
Fine(s, pg, B, R, F, sub, alone, fit) ==
    /\ Once(s, pg, F) /\ Line(s, R) /\ Distinct(pg.handlers, R)
    /\ sub => Caught(s, B, R)
    /\ alone => Behind(pg.handlers, B, R) /\ Follows(s, pg.handlers)
    /\ sub /\ fit => Reaches(s, pg, B, R)

\* What a step may do to the runs and the buffers without telling a page
Onward(B, N, R, Q) ==
    /\ Moves(R, Q) /\ Shrinks(B, N)
    /\ \A q \in Runs : R[q].stage \notin {"none", "waiting"} => Q[q].stage \notin {"none", "waiting"}
    /\ \A q \in Runs : Q[q].stage \in Begun =>
         R[q].stage \in Begun \/ R[q].cell \notin Cells \/ N[R[q].cell] = <<>>

\* It leaves the page alone.
LEMMA FineKept ==
    ASSUME NEW s \in Seq(Message), NEW pg \in Page, NEW n, NEW B \in Buffers, NEW N, NEW R \in Records, NEW Q,
           NEW F, NEW G, G \subseteq F, Stored(B, R, F), Onward(B, N, R, Q),
           NEW sub, NEW alone, NEW fit, NEW sub2, NEW alone2, NEW fit2,
           sub2 => sub, alone2 => alone, fit2 => fit,
           Fine(s, pg, B, R, F, sub, alone, fit),
           n.shown = pg.shown, n.got = pg.got, n.handlers = pg.handlers
    PROVE  Fine(s, n, N, Q, G, sub2, alone2, fit2)
<1>0. pg.handlers \in Seq(Runs) /\ \A i \in 1..Len(pg.handlers) : pg.handlers[i] \in Runs
  BY PageRead
<1>1. Once(s, n, G)
  BY OnceSame DEF Fine
<1>2. Line(s, Q)
  BY LineKept DEF Fine, Onward
<1>3. Distinct(n.handlers, Q)
  BY <1>0, DistinctKept DEF Fine, Onward
<1>4. sub2 => Caught(s, N, Q)
  BY CaughtKept DEF Fine, Onward
<1>5. alone2 => Behind(n.handlers, N, Q)
  BY <1>0, BehindKept DEF Onward, Fine
<1>6. alone2 => Follows(s, n.handlers)
  BY DEF Fine
<1>7. sub2 /\ fit2 => Reaches(s, n, N, Q)
  BY ReachesKept DEF Fine, Onward
<1> QED BY <1>1, <1>2, <1>3, <1>4, <1>5, <1>6, <1>7 DEF Fine

\* The run r, which was not asked for before, gets a handler of page pg.
Asked(pg, n, R, Q, r) ==
    /\ R[r].stage \in {"none", "waiting"} /\ Q[r].stage \notin {"none", "waiting"} \cup Begun
    /\ n.shown = pg.shown /\ n.got = pg.got /\ n.handlers = Append(pg.handlers, r)

\* A run of the page gets a handler.
LEMMA FineAsks ==
    ASSUME NEW s \in Seq(Message), NEW pg \in Page, NEW n, NEW B \in Buffers, NEW R \in Records, NEW Q \in Records,
           NEW F, NEW G, G \subseteq F, Stored(B, R, F), Onward(B, B, R, Q),
           NEW sub, NEW alone, NEW fit, NEW alone2, NEW fit2,
           alone2 => alone, fit2 => fit,
           Fine(s, pg, B, R, F, sub, alone, fit),
           NEW r \in Runs, Asked(pg, n, R, Q, r)
    PROVE  Fine(s, n, B, Q, G, sub, alone2, fit2)
<1>a. /\ R[r].stage \in {"none", "waiting"} /\ Q[r].stage \notin {"none", "waiting"} \cup Begun
      /\ n.shown = pg.shown /\ n.got = pg.got /\ n.handlers = Append(pg.handlers, r)
  BY DEF Asked
<1>0. pg.handlers \in Seq(Runs) /\ \A i \in 1..Len(pg.handlers) : pg.handlers[i] \in Runs
  BY PageRead
<1>1. Once(s, n, G)
  BY <1>a, OnceSame DEF Fine
<1>2. Line(s, Q)
  BY LineKept DEF Fine, Onward
<1>3. Distinct(n.handlers, Q)
  BY <1>0, <1>a, DistinctAdds DEF Fine, Onward
<1>4. sub => Caught(s, B, Q)
  BY CaughtKept DEF Fine, Onward
<1>5. alone2 => Behind(n.handlers, B, Q)
  BY <1>0, BehindKept, <1>a, BehindAsks DEF Onward, Fine
<1>6. alone2 => Follows(s, n.handlers)
  BY <1>0, <1>a, FollowsAsks DEF Fine
<1>7. sub /\ fit2 => Reaches(s, n, B, Q)
  <2>1. ASSUME NEW q \in Runs, R[q].stage \in Begun PROVE Has(n.handlers, q) <=> Has(pg.handlers, q)
    <3>1. q # r
      BY <1>a, <2>1 DEF Begun
    <3> QED BY <1>0, <1>a, <3>1, HasAppend
  <2> QED BY <1>a, <2>1, ReachesKept DEF Fine, Onward
<1> QED BY <1>1, <1>2, <1>3, <1>4, <1>5, <1>6, <1>7 DEF Fine

\* The page is sent a message that is no output and no synchronization.
LEMMA FineSent ==
    ASSUME NEW s \in Seq(Message), NEW m \in Message, NEW pg \in Page, NEW B, NEW R, NEW F,
           NEW sub, NEW alone, NEW fit, Fine(s, pg, B, R, F, sub, alone, fit),
           m.type \notin {"output", "sync"},
           m.type = "result" => m.run \in Runs /\ R[m.run].stage = "ended"
    PROVE  Fine(Append(s, m), pg, B, R, F, sub, alone, fit)
<1>1. \A o \in F : ~Carries(m, o)
  BY DEF Carries
<1>2. Once(Append(s, m), pg, F)
  BY <1>1, OnceSent DEF Fine
<1>3. Line(Append(s, m), R)
  BY LineSent DEF Fine
<1>4. sub => Caught(Append(s, m), B, R)
  BY CaughtSent DEF Fine
<1>5. alone => Follows(Append(s, m), pg.handlers)
  BY FollowsSent DEF Fine
<1>6. sub /\ fit => Reaches(Append(s, m), pg, B, R)
  BY ReachesSent DEF Fine
<1> QED BY <1>2, <1>3, <1>4, <1>5, <1>6 DEF Fine

\* The page is sent all that is buffered; it waits for no run that has begun.
LEMMA FineSync ==
    ASSUME NEW s \in Seq(Message), NEW m \in Message, NEW pg \in Page, NEW B \in Buffers, NEW R, NEW F,
           NEW alone, NEW fit, NEW sub, Fine(s, pg, B, R, F, sub, alone, fit), Caught(s, B, R),
           m.type = "sync", m.cells = B, Stored(B, R, F),
           fit => \A c \in Cells : \A i \in 1..Len(B[c]) : ~Has(pg.handlers, B[c][i][1])
    PROVE  Fine(Append(s, m), pg, B, R, F, TRUE, alone, fit)
<1>1. \A o \in F : ~Carries(m, o)
  BY DEF Carries, Stored, Has
<1>2. Once(Append(s, m), pg, F)
  BY <1>1, OnceSent DEF Stored, Fine
<1>3. Line(Append(s, m), R)
  BY LineSent DEF Fine
<1>4. Caught(Append(s, m), B, R)
  BY CaughtSent
<1>5. alone => Follows(Append(s, m), pg.handlers)
  BY FollowsSent DEF Fine
<1>6. fit => Reaches(Append(s, m), pg, B, R)
  BY ReachesSync
<1>7. Distinct(pg.handlers, R) /\ (alone => Behind(pg.handlers, B, R))
  BY DEF Fine
<1> QED BY <1>2, <1>3, <1>4, <1>5, <1>6, <1>7 DEF Fine

\* The buffer after an output o of cell c, which may be no cell
BufferedAs(B, N, c, o) == IF c = NoCell THEN N = B ELSE Added(B, N, c, o)

\* The first handlers of hs have results in the line s, and then comes that of r; those
\* behind it have not begun.
Turn(s, hs, r, R) ==
    \E b \in 1..Len(hs) :
      /\ hs[b] = r
      /\ \A a \in 1..(b - 1) : \E j \in 1..Len(s) : s[j] = ResultOf(hs[a])
      /\ \A a \in 1..Len(hs) : R[hs[a]].stage \in Begun => a <= b

\* An output is buffered, and sent to the page.
LEMMA FineOutput ==
    ASSUME NEW s \in Seq(Message), NEW c \in Cells \cup {NoCell}, NEW o \in Outputs, NEW pg \in Page,
           NEW B \in Buffers, NEW N, BufferedAs(B, N, c, o), NEW R, NEW F, NEW G, G \subseteq F, o \in F, o \notin G,
           NEW sub, NEW alone, NEW fit, Fine(s, pg, B, R, F, sub, alone, fit),
           R[o[1]].cell = c, R[o[1]].stage \in Begun,
           \A j \in 1..Len(s) : s[j].type = "result" => s[j].run # o[1],
           alone => Turn(s, pg.handlers, o[1], R)
    PROVE  Fine(Append(s, OutputOf(c, o)), pg, N, R, G, sub, alone, fit)
<1> DEFINE m == OutputOf(c, o)
           t == Append(s, m)
<1>0. /\ m \in Message /\ m.type = "output" /\ m.output = o /\ m.cell = c
      /\ t \in Seq(Message) /\ t # <<>> /\ t[Len(t)] = m
  <2>1. m \in Message /\ m.type = "output" /\ m.output = o /\ m.cell = c
    BY MessageType DEF OutputOf
  <2> HIDE DEF m
  <2> QED BY <2>1, AppendProperties
<1> HIDE DEF m, t
<1>1. Once(t, pg, G)
  BY <1>0, OnceSent DEF Carries, Fine, t
<1>2. Line(t, R)
  BY <1>0, LineSent DEF Fine, t
<1>3. Distinct(pg.handlers, R)
  BY DEF Fine
<1>4. sub => Caught(t, N, R)
  <2> SUFFICES ASSUME sub PROVE Caught(t, N, R)
    OBVIOUS
  <2>1. Caught(t, B, R)
    BY <1>0, CaughtSent DEF Fine, t
  <2>2. CASE c = NoCell
    BY <2>1, <2>2 DEF BufferedAs
  <2>3. CASE c \in Cells
    BY <2>3, ValueAssumption, <1>0, <2>1, CaughtAdds DEF BufferedAs, m
  <2> QED BY <2>2, <2>3
<1>5. alone => Behind(pg.handlers, N, R)
  <2> SUFFICES ASSUME alone PROVE Behind(pg.handlers, N, R)
    OBVIOUS
  <2>1. Behind(pg.handlers, B, R)
    BY DEF Fine
  <2>2. CASE c = NoCell
    BY <2>1, <2>2 DEF BufferedAs
  <2>3. CASE c \in Cells
    <3>1. Added(B, N, c, o)
      BY <2>3, ValueAssumption DEF BufferedAs
    <3>2. pg.handlers \in Seq(Runs)
      BY PageRead
    <3>3. \A b \in 1..Len(pg.handlers) : R[pg.handlers[b]].stage \in Begun =>
             \E a \in b..Len(pg.handlers) : pg.handlers[a] = o[1]
      <4>1. PICK a \in 1..Len(pg.handlers) :
              /\ pg.handlers[a] = o[1]
              /\ \A b \in 1..Len(pg.handlers) : R[pg.handlers[b]].stage \in Begun => b <= a
        BY DEF Turn
      <4>2. \A b \in 1..Len(pg.handlers) : b <= a => a \in b..Len(pg.handlers)
        BY <4>1
      <4> QED BY <4>1, <4>2
    <3> QED BY <2>1, <2>3, <3>1, <3>2, <3>3, BehindAdds
  <2> QED BY <2>2, <2>3
<1>6. alone => Follows(t, pg.handlers)
  <2> SUFFICES ASSUME alone PROVE Follows(t, pg.handlers)
    OBVIOUS
  <2>1. Follows(s, pg.handlers)
    BY DEF Fine
  <2>2. \E b \in 1..Len(pg.handlers) : /\ pg.handlers[b] = m.output[1]
                                       /\ \A a \in 1..(b - 1) : \E j \in 1..Len(s) : s[j] = ResultOf(pg.handlers[a])
    BY <1>0 DEF Turn
  <2> QED BY <1>0, <2>1, <2>2, FollowsSent DEF t
<1>7. sub /\ fit => Reaches(t, pg, N, R)
  <2> SUFFICES ASSUME sub, fit PROVE Reaches(t, pg, N, R)
    OBVIOUS
  <2>1. Reaches(t, pg, B, R)
    <3>1. Reaches(s, pg, B, R)
      BY DEF Fine
    <3> QED BY <1>0, <3>1, ReachesSent DEF t
  <2>2. CASE c = NoCell
    BY <2>1, <2>2 DEF BufferedAs
  <2>3. CASE c \in Cells
    BY <2>3, ValueAssumption, <1>0, <2>1, ReachesAdds DEF BufferedAs, m
  <2> QED BY <2>2, <2>3
<1>8. Fine(t, pg, N, R, G, sub, alone, fit)
  BY <1>1, <1>2, <1>3, <1>4, <1>5, <1>6, <1>7 DEF Fine
<1> QED BY <1>8 DEF t, m

\* An output is buffered, and not sent to the page, which gets none or makes no runs.
LEMMA FineUntold ==
    ASSUME NEW s \in Seq(Message), NEW c \in Cells \cup {NoCell}, NEW o \in Outputs, NEW pg \in Page,
           NEW B \in Buffers, NEW N, BufferedAs(B, N, c, o), NEW R, NEW F, NEW G, G \subseteq F,
           NEW sub, NEW alone, NEW fit, Fine(s, pg, B, R, F, sub, alone, fit),
           sub => R[o[1]].by = Agent, ~alone
    PROVE  Fine(s, pg, N, R, G, sub, alone, fit)
<1>1. Once(s, pg, G)
  BY OnceSame DEF Fine
<1>2. Line(s, R) /\ Distinct(pg.handlers, R)
  BY DEF Fine
<1>3. ASSUME sub PROVE Caught(s, N, R) /\ (fit => Reaches(s, pg, N, R))
  <2>1. Caught(s, B, R) /\ (fit => Reaches(s, pg, B, R)) /\ R[o[1]].by = Agent
    BY <1>3 DEF Fine
  <2>2. CASE c = NoCell
    BY <2>1, <2>2 DEF BufferedAs
  <2>3. CASE c \in Cells
    BY <2>3, ValueAssumption, <2>1, CaughtAdds, ReachesAdds DEF BufferedAs
  <2> QED BY <2>2, <2>3
<1> QED BY <1>1, <1>2, <1>3 DEF Fine

-----------------------------------------------------------------------------
(* The invariant of what is shown *)

\* The message k of the kernel for the execution r may still come.
Still(r, k) ==
    \/ k = Cut \/ Has(channel[r], k)
    \/ k # Error /\ k > kernel.printed[r]
    \/ k = Error /\ kernel.printed[r] < MaxPrinted
Done == {"ended", "lost"}
\* The outputs that are still to come
Fresh == {o \in Outputs : run[o[1]].stage \notin Done /\ Still(o[1], o[2])}

\* A channel has no message twice but the end.
Lone(ch) == \A i \in 1..Len(ch) : \A j \in 1..(i - 1) : ch[i] = ch[j] => ch[i] = Idle

\* The channel of an execution that runs has no output twice, and what it has was
\* printed or raised.
Neat ==
    \A r \in Runs : run[r].stage = "running" =>
      /\ Lone(channel[r])
      /\ \A i \in 1..Len(channel[r]) :
           /\ channel[r][i] \in 1..MaxPrinted => channel[r][i] <= kernel.printed[r]
           /\ channel[r][i] = Error => kernel.printed[r] = MaxPrinted

\* A page gets outputs only over a connection; before that its first request is the
\* synchronization, which is asked for once, and nothing that it waits for has been taken.
Listens(p) ==
    /\ p \in server.subscribed => link[p]
    /\ link[p] /\ p \notin server.subscribed => toServer[p] # <<>> /\ Head(toServer[p]) = 0
    /\ \A i \in 1..Len(toServer[p]) : toServer[p][i] = 0 => i = 1 /\ p \notin server.subscribed
    /\ p \notin server.subscribed => \A i \in 1..Len(toPage[p]) : toPage[p][i].type # "sync"
Asking(p) == p \notin server.subscribed /\ p \notin dropped =>
               \A i \in 1..Len(page[p].handlers) : run[page[p].handlers[i]].stage = "asked"

Sole(p) == p \notin dropped /\ Alone(p)
Fit(p) == p \notin dropped /\ (Alone(p) \/ Watches(p))
FineAt(p) == Fine(toPage[p], page[p], server.buffer, run, Fresh, p \in server.subscribed, Sole(p), Fit(p))
Pending(p) == Listens(p) /\ Asking(p) /\ FineAt(p)
Displays == Neat /\ Stored(server.buffer, run, Fresh) /\ \A p \in Pages : Pending(p)

\* What is read from the state
LEMMA StateRead ==
    ASSUME TypeOK
    PROVE  /\ server.buffer \in Buffers /\ run \in Records /\ server \in Session
           /\ page \in [Pages -> Page] /\ toPage \in [Pages -> Seq(Message)]
           /\ \A p \in Pages : /\ toPage[p] \in Seq(Message) /\ page[p] \in Page
                               /\ page[p].handlers \in Seq(Runs)
                               /\ \A i \in 1..Len(page[p].handlers) : page[p].handlers[i] \in Runs
<1>1. server \in Session /\ run \in Records /\ page \in [Pages -> Page] /\ toPage \in [Pages -> Seq(Message)]
  BY TypeParts DEF ServerFits, RunsFit, Records, PagesFit, LinesFit
<1>2. server.buffer \in Buffers
  BY <1>1 DEF Session, Buffers
<1>3. \A p \in Pages : toPage[p] \in Seq(Message) /\ page[p] \in Page
  BY <1>1
<1>4. \A p \in Pages : page[p].handlers \in Seq(Runs)
  BY <1>3, PageRead
<1> QED BY <1>1, <1>2, <1>3, <1>4

\* Fewer outputs are still to come.
LEMMA FreshLess ==
    ASSUME \A r \in Runs : run[r].stage \in Done => run'[r].stage \in Done,
           \A r \in Runs : run'[r].stage \notin Done => \A k \in 0..Cut : Still(r, k)' => Still(r, k)
    PROVE  Fresh' \subseteq Fresh
<1> SUFFICES ASSUME NEW o \in Outputs, run'[o[1]].stage \notin Done, Still(o[1], o[2])'
             PROVE  run[o[1]].stage \notin Done /\ Still(o[1], o[2])
  BY DEF Fresh
<1>1. o[1] \in Runs /\ o[2] \in 0..Cut
  BY DEF Outputs
<1> DEFINE r == o[1]
           k == o[2]
<1> QED BY <1>1

\* A page that makes all or none of the runs has made all or none of them before.
LEMMA Narrower ==
    ASSUME NEW p, Moves(run, run'), p \notin dropped' => p \notin dropped
    PROVE  (Sole(p)' => Sole(p)) /\ (Fit(p)' => Fit(p))
<1>1. Evolves
  BY DEF Moves, Evolves
<1>2. (Alone(p)' => Alone(p)) /\ (Watches(p)' => Watches(p))
  BY <1>1, AloneBefore DEF Evolves, Watches
<1> QED BY <1>2 DEF Sole, Fit

\* A page that a step leaves alone; what is on the way to it, and if that is so after the step
LEMMA Apart ==
    ASSUME TypeOK, Displays, NEW p \in Pages,
           Onward(server.buffer, server'.buffer, run, run'), Fresh' \subseteq Fresh,
           p \in server'.subscribed => p \in server.subscribed, p \notin dropped' => p \notin dropped,
           page'[p].shown = page[p].shown, page'[p].got = page[p].got,
           page'[p].handlers = page[p].handlers
    PROVE  /\ Fine(toPage[p], page'[p], server'.buffer, run', Fresh', p \in server'.subscribed, Sole(p)', Fit(p)')
           /\ toPage'[p] = toPage[p] => FineAt(p)'
<1>2. (Sole(p)' => Sole(p)) /\ (Fit(p)' => Fit(p))
  BY Narrower DEF Onward
<1>4. FineAt(p) /\ Stored(server.buffer, run, Fresh)
  BY DEF Displays, Pending
<1>5. Fine(toPage[p], page'[p], server'.buffer, run', Fresh', p \in server'.subscribed, Sole(p)', Fit(p)')
  <2> DEFINE sub == p \in server.subscribed
             alone == Sole(p)
             fit == Fit(p)
             sub2 == p \in server'.subscribed
             alone2 == Sole(p)'
             fit2 == Fit(p)'
  <2>1. Fine(toPage[p], page[p], server.buffer, run, Fresh, sub, alone, fit)
    BY <1>4 DEF FineAt
  <2>2. (sub2 => sub) /\ (alone2 => alone) /\ (fit2 => fit)
    BY <1>2
  <2>3. toPage[p] \in Seq(Message) /\ page[p] \in Page /\ server.buffer \in Buffers /\ run \in Records
    BY StateRead
  <2>4. Stored(server.buffer, run, Fresh)
    BY <1>4
  <2> HIDE DEF sub, alone, fit, sub2, alone2, fit2
  <2>5. Fine(toPage[p], page'[p], server'.buffer, run', Fresh', sub2, alone2, fit2)
    BY <2>1, <2>2, <2>3, <2>4, FineKept
  <2> QED BY <2>5 DEF sub2, alone2, fit2
<1> QED BY <1>5 DEF FineAt

-----------------------------------------------------------------------------
(* The steps of a page, for the other pages *)

\* What such a step may do to the runs
Proceeds ==
    \A r \in Runs : \/ run'[r] = run[r]
                    \/ /\ run[r].stage # "none" => run'[r].by = run[r].by /\ run'[r].cell = run[r].cell
                       /\ \/ run[r].stage = "none" /\ run'[r].stage \in {"waiting", "asked"}
                          \/ run[r].stage = "waiting" /\ run'[r].stage \in {"asked", "lost"}
                          \/ run[r].stage = "asked" /\ run'[r].stage \in {"lost", "queued"}

\* It leaves the outputs alone.
LEMMA ProceedsOnward ==
    ASSUME TypeOK, Displays, Proceeds, UNCHANGED <<channel, kernel>>, server'.buffer = server.buffer
    PROVE  /\ Onward(server.buffer, server'.buffer, run, run') /\ Fresh' \subseteq Fresh
           /\ Stored(server'.buffer, run', Fresh') /\ Neat'
<1>1. Onward(server.buffer, server'.buffer, run, run')
  BY DEF Proceeds, Moves, Begun, Shrinks, Onward
<1>2. Fresh' \subseteq Fresh
  BY FreshLess DEF Proceeds, Done, Still
<1>3. Stored(server'.buffer, run', Fresh')
  BY <1>1, <1>2, StateRead, StoredKept DEF Displays, Onward
<1>4. Neat'
  BY DEF Proceeds, Displays, Neat
<1> QED BY <1>1, <1>2, <1>3, <1>4

\* All that a step of page p does for the others
Private(p) ==
    /\ Own(p) /\ Proceeds /\ UNCHANGED <<channel, kernel>> /\ server'.buffer = server.buffer
    /\ \A o \in Pages \ {p} : (o \in server'.subscribed <=> o \in server.subscribed) /\ (o \in dropped' <=> o \in dropped)

\* The other pages are as before.
LEMMA PrivateOthers ==
    ASSUME TypeOK, IInv, Displays, NEW p \in Pages, Private(p), NEW o \in Pages \ {p}, o \in dropped \/ Steady(o)
    PROVE  Pending(o)'
<1>1. /\ page'[o] = page[o] /\ link'[o] = link[o] /\ toServer'[o] = toServer[o] /\ toPage'[o] = toPage[o]
      /\ (o \in server'.subscribed <=> o \in server.subscribed) /\ (o \in dropped' <=> o \in dropped)
  BY DEF Private, Own
<1>2. Pending(o)
  BY DEF Displays
<1>3. Listens(o)'
  BY <1>1, <1>2 DEF Pending, Listens
<1>4. Asking(o)'
  <2> SUFFICES ASSUME o \notin server.subscribed, o \notin dropped, NEW i \in 1..Len(page[o].handlers)
               PROVE  run'[page[o].handlers[i]].stage = "asked"
    BY <1>1 DEF Asking
  <2> DEFINE h == page[o].handlers[i]
  <2>1. h \in Runs
    BY StateRead
  <2>2. run[h].stage = "asked" /\ run[h].by = o
    BY <1>2 DEF Pending, Asking, Steady, Owned
  <2> HIDE DEF h
  <2>3. run'[h] = run[h]
    BY <2>1, <2>2 DEF Private, Own
  <2>4. run'[h].stage = "asked"
    BY <2>2, <2>3
  <2> QED BY <2>4 DEF h
<1>5. FineAt(o)'
  BY ProceedsOnward, <1>1, Apart DEF Private
<1> QED BY <1>3, <1>4, <1>5 DEF Pending

\* The steps of a page concern that page only.
LEMMA PagePrivate ==
    ASSUME TypeOK, IInv, NEW p \in Pages,
           \/ \E c \in Cells : QueueExecution(p, c)
           \/ ProcessNext(p) \/ RunHint(p) \/ Interrupt(p)
           \/ \E r \in Runs : WaitOver(p, r) \/ WaitThrows(p, r)
           \/ ReceiveDead(p) \/ ReceiveSync(p) \/ ReceiveOutput(p) \/ ReceiveResult(p)
           \/ Connect(p) \/ Break(p) \/ SyncOutputs(p) \/ Execute(p)
    PROVE  Private(p)
<1>1. Own(p)
  BY PageOwn
<1>2. server \in Session /\ RunsFit /\ dropped \subseteq Pages /\ Requests
  BY TypeParts DEF ServerFits, CountFits, IInv
<1>3. ASSUME UNCHANGED <<server, channel, kernel, dropped>>, Proceeds PROVE Private(p)
  BY <1>1, <1>3 DEF Private
<1>4. ASSUME UNCHANGED run PROVE Proceeds
  BY <1>4 DEF Proceeds
<1>5. CASE \/ \E c \in Cells : QueueExecution(p, c)
           \/ Interrupt(p) \/ ReceiveDead(p) \/ ReceiveSync(p) \/ ReceiveOutput(p) \/ ReceiveResult(p)
  <2>1. UNCHANGED <<run, server, channel, kernel, dropped>>
    BY <1>5 DEF QueueExecution, Interrupt, ReceiveDead, ReceiveSync, ReceiveOutput, ReceiveResult, Receive
  <2> QED BY <1>3, <1>4, <2>1
<1>6. CASE ProcessNext(p) \/ RunHint(p)
  <2>1. PICK c : \E stage \in {"waiting", "asked"} : NewRun(p, c, stage, 0)
    BY <1>6 DEF ProcessNext, RunHint
  <2>2. PICK stage \in {"waiting", "asked"} : NewRun(p, c, stage, 0)
    BY <2>1
  <2> DEFINE r == count.runs + 1
  <2>3. run[r].stage = "none" /\ run'[r].stage = stage /\ \A s \in Runs \ {r} : run'[s] = run[s]
    BY <1>2, <2>2, OwnNew
  <2> HIDE DEF r
  <2>4. Proceeds
    BY <2>3 DEF Proceeds
  <2>5. UNCHANGED <<server, channel, kernel, dropped>>
    BY <1>6 DEF ProcessNext, RunHint
  <2> QED BY <1>3, <2>4, <2>5
<1>7. ASSUME NEW r \in Runs, WaitOver(p, r) \/ WaitThrows(p, r) PROVE Private(p)
  <2>1. UNCHANGED <<server, channel, kernel, dropped>> /\ r \in page[p].waiting
    BY <1>7 DEF WaitOver, WaitThrows
  <2>2. run[r].stage = "waiting"
    BY <2>1, WaitsOwn
  <2>3. PICK stage \in {"asked", "lost"} : run' = [run EXCEPT ![r].stage = stage]
    BY <1>7 DEF WaitOver, WaitThrows
  <2>4. /\ run'[r].stage = stage /\ run'[r].by = run[r].by /\ run'[r].cell = run[r].cell
        /\ \A s \in Runs \ {r} : run'[s] = run[s]
    BY <1>2, <2>3 DEF RunsFit, Request
  <2>5. Proceeds
    BY <2>2, <2>4 DEF Proceeds
  <2> QED BY <1>3, <2>1, <2>5
<1>8. CASE Connect(p)
  BY <1>8, WaitsOwn, <1>2, <1>3 DEF Connect, Proceeds, RunsFit, Request
<1>9. CASE Break(p)
  <2>1. /\ UNCHANGED <<channel, kernel>> /\ server' = [server EXCEPT !.subscribed = @ \ {p}]
        /\ dropped' = dropped \/ dropped' = dropped \cup {p}
        /\ run' = [r \in Runs |-> IF r \in ToSet(toServer[p]) THEN [run[r] EXCEPT !.stage = "lost"] ELSE run[r]]
    BY <1>9 DEF Break
  <2>2. \A r \in Runs : r \in ToSet(toServer[p]) => run[r].stage = "asked"
    <3> SUFFICES ASSUME NEW r \in Runs, r \in ToSet(toServer[p]) PROVE run[r].stage = "asked"
      OBVIOUS
    <3>1. toServer[p] \in Seq(0..MaxRuns)
      BY TypeParts DEF LinesFit
    <3>2. PICK i \in 1..Len(toServer[p]) : toServer[p][i] = r
      BY <3>1 DEF ToSet
    <3>3. r # 0
      BY Numbers
    <3> QED BY <3>2, <3>3, SentOwn
  <2>3. Proceeds
    BY <1>2, <2>1, <2>2 DEF Proceeds, RunsFit, Request
  <2>4. server'.buffer = server.buffer /\ server'.subscribed = server.subscribed \ {p}
    BY <1>2, <2>1 DEF Session
  <2> QED BY <1>1, <2>1, <2>3, <2>4 DEF Private
<1>10. CASE SyncOutputs(p)
  BY <1>10, <1>2, <1>1, <1>4 DEF SyncOutputs, Subscribed, Session, Private
<1>11. CASE Execute(p)
  <2> DEFINE r == Head(toServer[p])
  <2>1. /\ UNCHANGED <<channel, kernel, dropped>>
        /\ run' = [run EXCEPT ![r].stage = "queued", ![r].after = server.tail]
        /\ server' = [server EXCEPT !.tail = r]
        /\ toServer[p] # <<>> /\ r # 0
    BY <1>11 DEF Execute, TakeRequest, Predecessor
  <2>2. r \in Runs /\ run[r].stage = "asked"
    <3>1. toServer[p] \in Seq(0..MaxRuns)
      BY TypeParts DEF LinesFit
    <3>2. 1 \in 1..Len(toServer[p]) /\ r = toServer[p][1]
      BY <2>1, <3>1
    <3> QED BY <2>1, <3>2, SentOwn
  <2> HIDE DEF r
  <2>3. /\ run'[r].by = run[r].by /\ run'[r].stage = "queued" /\ run'[r].cell = run[r].cell
        /\ \A s \in Runs \ {r} : run'[s] = run[s]
    BY <1>2, <2>1, <2>2 DEF RunsFit, Request
  <2>4. Proceeds
    BY <2>2, <2>3 DEF Proceeds
  <2>5. server'.buffer = server.buffer /\ server'.subscribed = server.subscribed
    BY <1>2, <2>1 DEF Session
  <2> QED BY <1>1, <2>1, <2>4, <2>5 DEF Private
<1> QED BY <1>5, <1>6, <1>7, <1>8, <1>9, <1>10, <1>11

-----------------------------------------------------------------------------
(* The steps of a page, for itself *)

\* It touches no handler, no output and no request that has been asked.
LEMMA PageApart ==
    ASSUME TypeOK, Displays, NEW p \in Pages, Private(p), UNCHANGED <<server, dropped>>,
           link'[p] = link[p], toPage'[p] = toPage[p], toServer'[p] = toServer[p],
           page'[p].shown = page[p].shown, page'[p].got = page[p].got,
           page'[p].handlers = page[p].handlers,
           \A r \in Runs : run[r].stage = "asked" => run'[r] = run[r]
    PROVE  Pending(p)'
<1>1. Pending(p)
  BY DEF Displays
<1>2. Listens(p)'
  BY <1>1 DEF Pending, Listens
<1>3. Asking(p)'
  <2> SUFFICES ASSUME p \notin server.subscribed, p \notin dropped, NEW i \in 1..Len(page[p].handlers)
               PROVE  run'[page[p].handlers[i]].stage = "asked"
    BY DEF Asking
  <2>1. page[p].handlers[i] \in Runs
    BY StateRead
  <2>2. run[page[p].handlers[i]].stage = "asked"
    BY <1>1 DEF Pending, Asking
  <2>3. run'[page[p].handlers[i]] = run[page[p].handlers[i]]
    BY <2>1, <2>2
  <2> QED BY <2>2, <2>3
<1>4. FineAt(p)'
  BY ProceedsOnward, Apart DEF Private
<1> QED BY <1>2, <1>3, <1>4 DEF Pending

\* A run of the page is asked for and gets a handler.
LEMMA PageAsks ==
    ASSUME TypeOK, TypeOK', Displays, NEW p \in Pages, Private(p), UNCHANGED <<server, dropped>>,
           link'[p] = link[p], toPage'[p] = toPage[p],
           NEW r \in Runs, toServer'[p] = Append(toServer[p], r),
           run[r].stage \in {"none", "waiting"}, run'[r].stage = "asked",
           \A s \in Runs \ {r} : run'[s] = run[s],
           page'[p].shown = page[p].shown, page'[p].got = page[p].got,
           page'[p].handlers = Append(page[p].handlers, r)
    PROVE  Pending(p)'
<1>0. /\ Pending(p) /\ Stored(server.buffer, run, Fresh)
      /\ toPage[p] \in Seq(Message) /\ page[p] \in Page /\ server.buffer \in Buffers /\ run \in Records
      /\ page[p].handlers \in Seq(Runs) /\ \A i \in 1..Len(page[p].handlers) : page[p].handlers[i] \in Runs
  BY StateRead DEF Displays
<1>1. run' \in Records
  BY DEF Records, Request, TypeOK
<1>2. Listens(p)'
  <2>1. toServer[p] \in Seq(0..MaxRuns) /\ r # 0 /\ r \in 0..MaxRuns
    BY TypeParts, Numbers DEF LinesFit
  <2>2. toServer[p] # <<>> => toServer'[p] # <<>> /\ Head(toServer'[p]) = Head(toServer[p])
    <3>1. toServer[p] # <<>> => 1 \in 1..Len(toServer[p]) /\ Head(toServer[p]) = toServer[p][1]
      BY <2>1
    <3>2. toServer[p] # <<>> => Append(toServer[p], r)[1] = toServer[p][1]
      BY <2>1, <3>1
    <3>3. Append(toServer[p], r) # <<>> /\ Head(Append(toServer[p], r)) = Append(toServer[p], r)[1]
      BY <2>1
    <3> QED BY <3>1, <3>2, <3>3
  <2>3. \A i \in 1..Len(toServer'[p]) : toServer'[p][i] = 0 => i \in 1..Len(toServer[p]) /\ toServer[p][i] = 0
    BY <2>1
  <2>4. Listens(p)
    BY <1>0 DEF Pending
  <2> QED BY <2>2, <2>3, <2>4 DEF Listens
<1>3. Asking(p)'
  <2> SUFFICES ASSUME p \notin server.subscribed, p \notin dropped, NEW i \in 1..Len(page'[p].handlers)
               PROVE  run'[page'[p].handlers[i]].stage = "asked"
    BY DEF Asking
  <2>1. CASE i \in 1..Len(page[p].handlers)
    BY <1>0, <2>1 DEF Pending, Asking
  <2>2. CASE i = Len(page[p].handlers) + 1
    <3>1. page'[p].handlers[i] = r
      BY <1>0, <2>2
    <3> QED BY <3>1
  <2>3. i \in 1..Len(page[p].handlers) \/ i = Len(page[p].handlers) + 1
    BY <1>0
  <2> QED BY <2>1, <2>2, <2>3
<1>4. FineAt(p)'
  <2>1. Onward(server.buffer, server.buffer, run, run') /\ Fresh' \subseteq Fresh
    BY ProceedsOnward DEF Private
  <2> DEFINE sub == p \in server.subscribed
             alone == Sole(p)
             fit == Fit(p)
             alone2 == Sole(p)'
             fit2 == Fit(p)'
  <2>2. Fine(toPage[p], page[p], server.buffer, run, Fresh, sub, alone, fit)
    BY <1>0 DEF Pending, FineAt
  <2>3. (alone2 => alone) /\ (fit2 => fit)
    BY <2>1, Narrower DEF Onward
  <2>4. Asked(page[p], page'[p], run, run', r)
    BY DEF Begun, Asked
  <2> HIDE DEF sub, alone, fit, alone2, fit2
  <2>5. Fine(toPage[p], page'[p], server.buffer, run', Fresh', sub, alone2, fit2)
    BY <1>0, <1>1, <2>1, <2>2, <2>3, <2>4, FineAsks
  <2> QED BY <2>5 DEF sub, alone2, fit2, FineAt
<1> QED BY <1>2, <1>3, <1>4 DEF Pending

\* What a page queues and asks
LEMMA AsksPending ==
    ASSUME TypeOK, TypeOK', IInv, Displays, NEW p \in Pages, Private(p),
           \/ \E c \in Cells : QueueExecution(p, c)
           \/ ProcessNext(p) \/ RunHint(p) \/ Interrupt(p)
           \/ \E r \in Runs : WaitOver(p, r)
    PROVE  Pending(p)'
<1>0. page \in [Pages -> Page] /\ page[p] \in Page /\ toServer \in [Pages -> Seq(0..MaxRuns)] /\ RunsFit /\ Requests
  BY StateRead, TypeParts DEF LinesFit, IInv
<1>1. CASE (\E c \in Cells : QueueExecution(p, c)) \/ Interrupt(p)
  <2>1. UNCHANGED <<link, toPage, toServer, run, server, dropped>>
    BY <1>1 DEF QueueExecution, Interrupt
  <2>2. /\ page'[p].shown = page[p].shown /\ page'[p].got = page[p].got
        /\ page'[p].handlers = page[p].handlers
    BY <1>0, <1>1 DEF QueueExecution, Interrupt, Page
  <2> QED BY <2>1, <2>2, PageApart
<1>2. CASE ProcessNext(p) /\ ~page[p].synced
  <2> DEFINE r == count.runs + 1
             begun == [page[p] EXCEPT !.processing = TRUE]
  <2>1. /\ UNCHANGED <<link, toPage, toServer, server, dropped>>
        /\ NewRun(p, Head(page[p].queue), "waiting", 0)
        /\ page' = [page EXCEPT ![p] = [begun EXCEPT !.waiting = @ \cup {r}]]
    BY <1>0, <1>2 DEF ProcessNext, Page
  <2>2. /\ page'[p].shown = page[p].shown /\ page'[p].got = page[p].got
        /\ page'[p].handlers = page[p].handlers
    BY <1>0, <2>1 DEF Page
  <2>3. run[r].stage = "none" /\ \A s \in Runs \ {r} : run'[s] = run[s]
    BY <1>0, <2>1, OwnNew
  <2> HIDE DEF r
  <2>4. \A s \in Runs : run[s].stage = "asked" => run'[s] = run[s]
    BY <2>3
  <2> QED BY <2>1, <2>2, <2>4, PageApart
<1>3. CASE (ProcessNext(p) /\ page[p].synced) \/ RunHint(p)
  <2> DEFINE r == count.runs + 1
  <2>1. /\ UNCHANGED <<link, toPage, server, dropped>>
        /\ toServer' = [toServer EXCEPT ![p] = Append(@, r)]
        /\ \E c : NewRun(p, c, "asked", 0)
        /\ page'[p].shown = page[p].shown /\ page'[p].got = page[p].got
        /\ page'[p].handlers = Append(page[p].handlers, r)
    <3>1. CASE ProcessNext(p) /\ page[p].synced
      <4> DEFINE begun == [page[p] EXCEPT !.processing = TRUE]
      <4>1. begun.synced
        BY <1>0, <3>1 DEF Page
      <4>2. /\ UNCHANGED <<link, toPage, server, dropped>>
            /\ toServer' = [toServer EXCEPT ![p] = Append(@, r)]
            /\ NewRun(p, Head(page[p].queue), "asked", 0)
            /\ page' = [page EXCEPT ![p] = [begun EXCEPT !.handlers = Append(@, r)]]
        BY <3>1, <4>1 DEF ProcessNext
      <4> QED BY <1>0, <4>2 DEF Page
    <3>2. CASE RunHint(p)
      BY <3>2, <1>0 DEF RunHint, Page
    <3> QED BY <1>3, <3>1, <3>2
  <2>2. PICK c : NewRun(p, c, "asked", 0)
    BY <2>1
  <2>3. /\ r \in Runs /\ run[r].stage = "none" /\ run'[r].stage = "asked"
        /\ \A s \in Runs \ {r} : run'[s] = run[s]
    BY <1>0, <2>2, OwnNew
  <2>4. toServer'[p] = Append(toServer[p], r)
    BY <1>0, <2>1
  <2> HIDE DEF r
  <2> QED BY <2>1, <2>3, <2>4, PageAsks
<1>4. ASSUME NEW r \in Runs, WaitOver(p, r) PROVE Pending(p)'
  <2>1. /\ UNCHANGED <<link, toPage, server, dropped>> /\ r \in page[p].waiting
        /\ toServer' = [toServer EXCEPT ![p] = Append(@, r)]
        /\ run' = [run EXCEPT ![r].stage = "asked"]
        /\ page' = [page EXCEPT ![p].waiting = @ \ {r}, ![p].handlers = Append(@, r)]
    BY <1>4 DEF WaitOver
  <2>2. /\ page'[p].shown = page[p].shown /\ page'[p].got = page[p].got
        /\ page'[p].handlers = Append(page[p].handlers, r)
    BY <1>0, <2>1 DEF Page
  <2>3. run[r].stage = "waiting"
    BY <2>1, WaitsOwn
  <2>4. run'[r].stage = "asked" /\ \A s \in Runs \ {r} : run'[s] = run[s]
    BY <1>0, <2>1 DEF RunsFit, Request
  <2>5. toServer'[p] = Append(toServer[p], r)
    BY <1>0, <2>1
  <2> QED BY <2>1, <2>2, <2>3, <2>4, <2>5, PageAsks
<1> QED BY <1>1, <1>2, <1>3, <1>4

\* A sequence of one output, and of none, has nothing twice.
LEMMA InjectiveOne == \A o : IsInjective(<<o>>) /\ \A x : Has(<<o>>, x) => x = o
<1> SUFFICES ASSUME NEW o PROVE IsInjective(<<o>>) /\ \A x : Has(<<o>>, x) => x = o
  OBVIOUS
<1> DEFINE s == <<o>>
<1>1. Len(s) = 1 /\ DOMAIN s = {1} /\ s[1] = o /\ 1..1 = {1}
  OBVIOUS
<1> HIDE DEF s
<1>2. IsInjective(s)
  BY <1>1 DEF IsInjective
<1>3. \A x : Has(s, x) => x = o
  BY <1>1 DEF Has
<1> QED BY <1>2, <1>3 DEF s

\* The request of a page without a connection is rejected.
LEMMA ThrowsPending ==
    ASSUME TypeOK, TypeOK', IInv, Joined, Displays, NEW p \in Pages, p \in dropped \/ Steady(p), Private(p),
           NEW r \in Runs, WaitThrows(p, r)
    PROVE  Pending(p)'
<1> DEFINE pg == page[p]
           asked == [pg EXCEPT !.waiting = @ \ {r}, !.handlers = Append(@, r), !.got[r] = <<<<r, Cut>>>>]
<1>0. /\ Pending(p) /\ page \in [Pages -> Page] /\ pg \in Page /\ RunsFit
      /\ pg.handlers \in Seq(Runs) /\ pg.got \in [Runs -> Seq(Outputs)] /\ pg.shown \in [Cells -> Seq(Outputs)]
  BY StateRead, TypeParts, PageRead DEF Displays
<1>1. /\ r \in pg.waiting /\ ~link[p] /\ page' = [page EXCEPT ![p] = Settled(asked, r)]
      /\ run' = [run EXCEPT ![r].stage = "lost"]
      /\ UNCHANGED <<link, toPage, toServer, server, channel, kernel, count, dropped>>
  BY DEF WaitThrows
<1>2. run[r].stage = "waiting"
  BY <1>1, WaitsOwn
<1>3. p \in dropped /\ toPage[p] = <<>> /\ p \notin server.subscribed
  BY <1>1, <1>0 DEF Steady, Idles, Joined, Pending, Listens
<1>4. Listens(p)' /\ Asking(p)'
  BY <1>0, <1>1, <1>3 DEF Pending, Listens, Asking
<1>5. run'[r].stage = "lost" /\ \A s \in Runs \ {r} : run'[s] = run[s]
  BY <1>0, <1>1 DEF RunsFit, Request
<1>6. /\ page'[p].handlers = Append(pg.handlers, r)
      /\ \/ page'[p].shown = pg.shown /\ page'[p].got = [pg.got EXCEPT ![r] = <<<<r, Cut>>>>]
         \/ /\ run[r].cell \in Cells /\ page'[p].got = [pg.got EXCEPT ![r] = <<>>]
            /\ page'[p].shown = [pg.shown EXCEPT ![run[r].cell] = <<<<r, Cut>>>>]
  <2>1. page'[p] = Settled(asked, r)
    BY <1>0, <1>1
  <2>2. /\ asked.handlers = Append(pg.handlers, r) /\ asked.shown = pg.shown
        /\ asked.got = [pg.got EXCEPT ![r] = <<<<r, Cut>>>>]
    BY <1>0 DEF Page
  <2>3. asked \in Page
    <3> DEFINE w == pg.waiting \ {r}
               h == Append(pg.handlers, r)
               g == [pg.got EXCEPT ![r] = <<<<r, Cut>>>>]
               one == [pg EXCEPT !.waiting = w]
               two == [one EXCEPT !.handlers = h]
    <3>1. w \in SUBSET Runs /\ h \in Seq(Runs) /\ g \in [Runs -> Seq(Outputs)]
      BY Numbers, <1>0 DEF Outputs, Page
    <3>2. asked = [two EXCEPT !.got = g]
      BY <1>0 DEF Page
    <3> HIDE DEF w, h, g
    <3>3. one \in Page
      BY <1>0, <3>1, PageField
    <3> HIDE DEF one
    <3>4. two \in Page
      BY <3>1, <3>3, PageField
    <3> HIDE DEF two
    <3> QED BY <3>1, <3>2, <3>4, PageField
  <2> HIDE DEF asked
  <2>5. CASE run[r].cell = NoCell
    BY <2>1, <2>2, <2>5 DEF Settled
  <2>6. CASE run[r].cell \in Cells
    <3>1. run[r].cell # NoCell /\ run[r].stage # "lost"
      BY <1>2, <2>6, ValueAssumption
    <3>2. \E rest : page'[p] = [asked EXCEPT !.shown[run[r].cell] = asked.got[r], !.got[r] = <<>>, !.queue = rest,
                                             !.processing = FALSE]
      BY <2>1, <3>1 DEF Settled
    <3>3. asked.got[r] = <<<<r, Cut>>>> /\ [asked.got EXCEPT ![r] = <<>>] = [pg.got EXCEPT ![r] = <<>>]
      BY <1>0, <2>2
    <3>4. /\ page'[p].handlers = asked.handlers
          /\ page'[p].got = [asked.got EXCEPT ![r] = <<>>]
          /\ page'[p].shown = [asked.shown EXCEPT ![run[r].cell] = asked.got[r]]
      BY <2>3, <3>2 DEF Page
    <3> QED BY <2>2, <2>6, <3>3, <3>4
  <2>7. run[r].cell \in Cells \cup {NoCell}
    BY <1>0 DEF RunsFit, Request
  <2> QED BY <2>5, <2>6, <2>7
<1>7. FineAt(p)'
  <2>1. Fresh' \subseteq Fresh
    BY ProceedsOnward DEF Private
  <2>2. Once(toPage[p], pg, Fresh) /\ Distinct(pg.handlers, run)
    BY <1>0 DEF Pending, FineAt, Fine
  <2>3. \A o \in Fresh' : o # <<r, Cut>>
    BY <1>5 DEF Fresh, Done
  <2>4. \A o \in Fresh' : Seen(page'[p], o) => Seen(pg, o)
    <3> SUFFICES ASSUME NEW o \in Fresh', Seen(page'[p], o) PROVE Seen(pg, o)
      OBVIOUS
    <3>1. ~Has(<<<<r, Cut>>>>, o) /\ ~Has(<<>>, o)
      BY <2>3, InjectiveOne, InjectiveEmpty
    <3>2. \A c \in Cells : Has(page'[p].shown[c], o) => Has(pg.shown[c], o)
      BY <1>0, <1>6, <3>1
    <3>3. \A q \in Runs : Has(page'[p].got[q], o) => Has(pg.got[q], o)
      BY <1>0, <1>6, <3>1
    <3> QED BY <3>2, <3>3 DEF Seen
  <2>5. \A c \in Cells : IsInjective(page'[p].shown[c])
    <3>1. \A c \in Cells : IsInjective(pg.shown[c])
      BY <2>2 DEF Once
    <3> SUFFICES ASSUME NEW c \in Cells PROVE IsInjective(page'[p].shown[c])
      OBVIOUS
    <3>2. page'[p].shown[c] = pg.shown[c] \/ page'[p].shown[c] = <<<<r, Cut>>>>
      BY <1>0, <1>6
    <3> QED BY <3>1, <3>2, InjectiveOne
  <2>6. \A q \in Runs : IsInjective(page'[p].got[q])
    <3>1. \A q \in Runs : IsInjective(pg.got[q])
      BY <2>2 DEF Once
    <3> QED BY <1>0, <1>6, <3>1, InjectiveOne, InjectiveEmpty
  <2>7. Once(toPage'[p], page'[p], Fresh')
    <3>1. Once(<<>>, page'[p], Fresh')
      BY <2>1, <2>2, <2>4, <2>5, <2>6, OnceAway
    <3> QED BY <1>1, <1>3, <3>1
  <2>8. Line(toPage'[p], run')
    BY <1>1, <1>3 DEF Line
  <2>9. Distinct(page'[p].handlers, run')
    <3>1. \A q \in Runs : run[q].stage \notin {"none", "waiting"} => run'[q].stage \notin {"none", "waiting"}
      BY <1>5
    <3>2. run'[r].stage \notin {"none", "waiting"} /\ run[r].stage \in {"none", "waiting"}
      BY <1>2, <1>5
    <3>3. pg.handlers \in Seq(Runs) /\ Distinct(pg.handlers, run)
      BY <1>0, <2>2
    <3>4. Distinct(Append(pg.handlers, r), run')
      BY <3>1, <3>2, <3>3, DistinctAdds
    <3> QED BY <1>6, <3>4
  <2>10. p \notin server'.subscribed /\ ~Sole(p)'
    BY <1>1, <1>3 DEF Sole
  <2> QED BY <2>7, <2>8, <2>9, <2>10 DEF FineAt, Fine
<1> QED BY <1>4, <1>7 DEF Pending

-----------------------------------------------------------------------------
(* What a page makes of a message *)

\* What holds of the page before it takes the first message
LEMMA BeforeTaken ==
    ASSUME TypeOK, Displays, NEW p \in Pages, NEW type, Receive(p, type)
    PROVE  /\ toPage[p] \in Seq(Message) /\ toPage[p] # <<>> /\ Head(toPage[p]).type = type
           /\ Head(toPage[p]) \in Message /\ toPage[p][1] = Head(toPage[p]) /\ 1 \in 1..Len(toPage[p])
           /\ toPage'[p] = Tail(toPage[p])
           /\ page[p] \in Page /\ page[p].handlers \in Seq(Runs) /\ page[p].got \in [Runs -> Seq(Outputs)]
           /\ page[p].shown \in [Cells -> Seq(Outputs)]
           /\ server.buffer \in Buffers /\ run \in Records /\ Stored(server.buffer, run, Fresh)
           /\ Fresh' = Fresh /\ Sole(p)' = Sole(p) /\ Fit(p)' = Fit(p)
           /\ Once(toPage[p], page[p], Fresh) /\ Line(toPage[p], run) /\ Distinct(page[p].handlers, run)
           /\ p \in server.subscribed => Caught(toPage[p], server.buffer, run)
           /\ Sole(p) => Behind(page[p].handlers, server.buffer, run) /\ Follows(toPage[p], page[p].handlers)
           /\ p \in server.subscribed /\ Fit(p) => Reaches(toPage[p], page[p], server.buffer, run)
<1>1. /\ toPage[p] # <<>> /\ Head(toPage[p]).type = type /\ toPage' = [toPage EXCEPT ![p] = Tail(@)]
      /\ UNCHANGED <<link, toServer, run, server, channel, kernel, count, dropped>>
  BY DEF Receive
<1>2. /\ toPage \in [Pages -> Seq(Message)] /\ toPage[p] \in Seq(Message) /\ page[p] \in Page
      /\ page[p].handlers \in Seq(Runs) /\ server.buffer \in Buffers /\ run \in Records
  BY StateRead
<1>3. page[p].got \in [Runs -> Seq(Outputs)] /\ page[p].shown \in [Cells -> Seq(Outputs)]
  BY <1>2, PageRead
<1>4. /\ Head(toPage[p]) \in Message /\ toPage[p][1] = Head(toPage[p]) /\ 1 \in 1..Len(toPage[p])
  BY <1>1, <1>2
<1>5. toPage'[p] = Tail(toPage[p])
  BY <1>1, <1>2
<1>6. Fresh' = Fresh
  BY <1>1 DEF Fresh, Still
<1>7. Sole(p)' = Sole(p) /\ Fit(p)' = Fit(p)
  BY <1>1 DEF Sole, Fit, Alone, Watches
<1>8. /\ Stored(server.buffer, run, Fresh)
      /\ Fine(toPage[p], page[p], server.buffer, run, Fresh, p \in server.subscribed, Sole(p), Fit(p))
  BY DEF Displays, Pending, FineAt
<1>9. /\ Once(toPage[p], page[p], Fresh) /\ Line(toPage[p], run) /\ Distinct(page[p].handlers, run)
      /\ p \in server.subscribed => Caught(toPage[p], server.buffer, run)
      /\ Sole(p) => Behind(page[p].handlers, server.buffer, run) /\ Follows(toPage[p], page[p].handlers)
      /\ p \in server.subscribed /\ Fit(p) => Reaches(toPage[p], page[p], server.buffer, run)
  BY <1>8 DEF Fine
<1>10. toPage[p] # <<>> /\ Head(toPage[p]).type = type
  BY <1>1
<1> QED BY <1>10, <1>2, <1>3, <1>4, <1>5, <1>6, <1>7, <1>8, <1>9

\* What has to be shown of the page after it has taken the message
LEMMA AfterTaken ==
    ASSUME TypeOK, Displays, NEW p \in Pages, NEW type, Receive(p, type),
           \A o : Seen(page'[p], o) => Seen(page[p], o) \/ Carries(Head(toPage[p]), o),
           \A c \in Cells : IsInjective(page'[p].shown[c]), \A r \in Runs : IsInjective(page'[p].got[r]),
           page'[p] \in Page,
           \/ page'[p].handlers = page[p].handlers
           \/ page[p].handlers # <<>> /\ page'[p].handlers = Tail(page[p].handlers),
           Sole(p) => Follows(Tail(toPage[p]), page'[p].handlers),
           p \in server.subscribed /\ Fit(p) => Reaches(Tail(toPage[p]), page'[p], server.buffer, run)
    PROVE  Pending(p)'
<1>1. /\ toPage[p] \in Seq(Message) /\ toPage[p] # <<>> /\ toPage'[p] = Tail(toPage[p])
      /\ page[p] \in Page /\ page[p].handlers \in Seq(Runs)
      /\ Fresh' = Fresh /\ Sole(p)' = Sole(p) /\ Fit(p)' = Fit(p)
      /\ Once(toPage[p], page[p], Fresh) /\ Line(toPage[p], run) /\ Distinct(page[p].handlers, run)
      /\ p \in server.subscribed => Caught(toPage[p], server.buffer, run)
      /\ Sole(p) => Behind(page[p].handlers, server.buffer, run)
  BY BeforeTaken
<1>2. UNCHANGED <<link, toServer, run, server, channel, kernel, count, dropped>>
  BY DEF Receive
<1>3. Pending(p)
  BY DEF Displays
<1>4. Listens(p)'
  BY <1>1, <1>2, <1>3 DEF Pending, Listens
<1>5. Asking(p)'
  <2>1. \A i \in 1..Len(page'[p].handlers) : \E j \in 1..Len(page[p].handlers) : page'[p].handlers[i] = page[p].handlers[j]
    <3>1. page[p].handlers # <<>> =>
            \A i \in 1..Len(Tail(page[p].handlers)) :
              i + 1 \in 1..Len(page[p].handlers) /\ Tail(page[p].handlers)[i] = page[p].handlers[i + 1]
      BY <1>1
    <3> QED BY <3>1
  <2> QED BY <1>2, <1>3, <2>1 DEF Pending, Asking
<1>6. Once(Tail(toPage[p]), page'[p], Fresh)
  BY <1>1, OnceTaken
<1>7. Line(Tail(toPage[p]), run)
  BY <1>1, LineTaken
<1>8. Distinct(page'[p].handlers, run)
  BY <1>1, DistinctTail
<1>9. p \in server.subscribed => Caught(Tail(toPage[p]), server.buffer, run)
  BY <1>1, CaughtTaken
<1>10. Sole(p) => Behind(page'[p].handlers, server.buffer, run)
  BY <1>1, BehindTail
<1>11. FineAt(p)'
  <2> DEFINE sub == p \in server.subscribed
             alone == Sole(p)
             fit == Fit(p)
  <2>1. Fine(Tail(toPage[p]), page'[p], server.buffer, run, Fresh, sub, alone, fit)
    BY <1>6, <1>7, <1>8, <1>9, <1>10 DEF Fine
  <2> QED BY <1>1, <1>2, <2>1 DEF FineAt
<1> QED BY <1>4, <1>5, <1>11 DEF Pending

\* The page learns of the kernel's death.
LEMMA DeadPending ==
    ASSUME TypeOK, TypeOK', Displays, NEW p \in Pages, ReceiveDead(p)
    PROVE  Pending(p)'
<1>1. Receive(p, "dead") /\ page' = [page EXCEPT ![p].ready = FALSE, ![p].queue = <<>>]
  BY DEF ReceiveDead
<1>2. page \in [Pages -> Page] /\ page'[p] \in Page
  BY StateRead, TypeParts DEF TypeOK
<1>3. /\ page'[p].handlers = page[p].handlers /\ page'[p].shown = page[p].shown /\ page'[p].got = page[p].got
  BY <1>1, <1>2 DEF Page
<1>4. /\ toPage[p] \in Seq(Message) /\ toPage[p] # <<>> /\ Head(toPage[p]).type = "dead"
      /\ Once(toPage[p], page[p], Fresh)
      /\ Sole(p) => Follows(toPage[p], page[p].handlers)
      /\ p \in server.subscribed /\ Fit(p) => Reaches(toPage[p], page[p], server.buffer, run)
  BY <1>1, BeforeTaken
<1>5. \A o : Seen(page'[p], o) => Seen(page[p], o)
  BY <1>3 DEF Seen
<1>6. (\A c \in Cells : IsInjective(page'[p].shown[c])) /\ (\A r \in Runs : IsInjective(page'[p].got[r]))
  BY <1>3, <1>4 DEF Once
<1>7. Sole(p) => Follows(Tail(toPage[p]), page'[p].handlers)
  BY <1>3, <1>4, FollowsTaken
<1>8. p \in server.subscribed /\ Fit(p) => Reaches(Tail(toPage[p]), page'[p], server.buffer, run)
  BY <1>3, <1>4, ReachesTaken
<1> QED BY <1>1, <1>2, <1>3, <1>5, <1>6, <1>7, <1>8, AfterTaken

\* The page gets a synchronization.
LEMMA SyncedPending ==
    ASSUME TypeOK, TypeOK', Displays, NEW p \in Pages, ReceiveSync(p)
    PROVE  Pending(p)'
<1> DEFINE cells == Head(toPage[p]).cells
<1>1. /\ Receive(p, "sync")
      /\ page' = [page EXCEPT ![p].synced = TRUE, ![p].shown = Replaced(@, cells)]
  BY DEF ReceiveSync
<1>2. page \in [Pages -> Page] /\ page'[p] \in Page
  BY StateRead, TypeParts DEF TypeOK
<1>3. /\ page'[p].handlers = page[p].handlers /\ page'[p].shown = Replaced(page[p].shown, cells)
      /\ page'[p].got = page[p].got
  BY <1>1, <1>2 DEF Page
<1>4. /\ toPage[p] \in Seq(Message) /\ toPage[p] # <<>> /\ Head(toPage[p]).type = "sync"
      /\ toPage[p][1] = Head(toPage[p]) /\ 1 \in 1..Len(toPage[p]) /\ page[p] \in Page
      /\ Once(toPage[p], page[p], Fresh)
      /\ p \in server.subscribed => Caught(toPage[p], server.buffer, run)
      /\ Sole(p) => Follows(toPage[p], page[p].handlers)
      /\ p \in server.subscribed /\ Fit(p) => Reaches(toPage[p], page[p], server.buffer, run)
  BY <1>1, BeforeTaken
<1>5. \A o : Seen(page'[p], o) => Seen(page[p], o) \/ Carries(Head(toPage[p]), o)
  <2>1. \A c \in Cells : page'[p].shown[c] = page[p].shown[c] \/ page'[p].shown[c] = cells[c]
    BY <1>3 DEF Replaced
  <2> HIDE DEF cells
  <2>2. \A o : \A c \in Cells : Has(page'[p].shown[c], o) => Has(page[p].shown[c], o) \/ Has(cells[c], o)
    BY <2>1
  <2> QED BY <1>3, <1>4, <2>2 DEF Seen, Carries, cells
<1>6. (\A c \in Cells : IsInjective(page'[p].shown[c])) /\ (\A r \in Runs : IsInjective(page'[p].got[r]))
  BY <1>4, <1>3 DEF Once, Replaced
<1>7. Sole(p) => Follows(Tail(toPage[p]), page'[p].handlers)
  BY <1>3, <1>4, FollowsTaken
<1>8. p \in server.subscribed /\ Fit(p) => Reaches(Tail(toPage[p]), page'[p], server.buffer, run)
  BY <1>3, <1>4, ReachesSynced
<1> QED BY <1>1, <1>2, <1>3, <1>5, <1>6, <1>7, <1>8, AfterTaken

\* A page that makes no runs has no handlers.
LEMMA WatchesNone ==
    ASSUME TypeOK, NEW p \in Pages, Steady(p), Watches(p)
    PROVE  page[p].handlers = <<>>
<1> SUFFICES ASSUME page[p].handlers # <<>> PROVE FALSE
  OBVIOUS
<1>1. page[p].handlers \in Seq(Runs)
  BY StateRead
<1>2. 1 \in 1..Len(page[p].handlers) /\ page[p].handlers[1] \in Runs
  BY <1>1
<1>3. run[page[p].handlers[1]].by = p /\ run[page[p].handlers[1]].stage \in Handled
  BY <1>2 DEF Steady, Owned
<1> QED BY <1>2, <1>3 DEF Watches, Handled, Active

\* What a page makes of an output
LEMMA OutputEffect ==
    ASSUME TypeOK, NEW p \in Pages, ReceiveOutput(p)
    PROVE  LET pg == page[p]
               n == page'[p]
               m == Head(toPage[p])
               h == Head(pg.handlers)
               mine == Append(pg.got[h], m.output)
           IN /\ n.handlers = pg.handlers
              /\ \/ /\ pg.handlers # <<>> /\ h \in Runs /\ run[h].cell \in Cells
                    /\ n.got = [pg.got EXCEPT ![h] = mine] /\ n.shown = [pg.shown EXCEPT ![run[h].cell] = mine]
                 \/ /\ m.cell \in Cells /\ n.got = pg.got
                    /\ n.shown = [pg.shown EXCEPT ![m.cell] = Append(@, m.output)]
                    /\ pg.handlers # <<>> => run[h].cell # NoCell /\ run[h].cell # m.cell
                 \/ /\ n.got = pg.got /\ n.shown = pg.shown
                    /\ pg.handlers = <<>> => m.cell = NoCell
                    /\ pg.handlers # <<>> => run[h].cell = NoCell
<1> DEFINE pg == page[p]
           m == Head(toPage[p])
           h == IF pg.handlers = <<>> THEN 0 ELSE Head(pg.handlers)
           foreign == h # 0 /\ run[h].cell # NoCell /\ m.cell # NoCell /\ run[h].cell # m.cell
           mine == Append(pg.got[h], m.output)
           made == CASE h # 0 /\ ~foreign /\ run[h].cell # NoCell ->
                           [pg EXCEPT !.got[h] = mine, !.shown[run[h].cell] = mine]
                      [] (h = 0 \/ foreign) /\ m.cell # NoCell ->
                           [pg EXCEPT !.shown[m.cell] = Append(@, m.output)]
                      [] OTHER -> pg
<1>1. /\ toPage[p] # <<>> /\ m.type = "output"
      /\ page' = [page EXCEPT ![p] = made]
  BY Zenon DEF ReceiveOutput, Receive
<1>2. /\ page \in [Pages -> Page] /\ pg \in Page /\ pg.handlers \in Seq(Runs) /\ toPage[p] \in Seq(Message)
      /\ RunsFit
  BY StateRead, TypeParts
<1>3. m \in Message /\ m.cell \in Cells \cup {NoCell}
  <2>1. toPage[p] # <<>> /\ m.type = "output"
    BY <1>1
  <2> HIDE DEF made
  <2>2. m \in Message
    BY <1>2, <2>1
  <2> QED BY <2>1, <2>2, MessageRead
<1>4. 0 \notin Runs
  BY Numbers
<1>5. pg.handlers # <<>> => h = Head(pg.handlers) /\ h \in Runs /\ h # 0 /\ run[h].cell \in Cells \cup {NoCell}
  BY <1>2, <1>4 DEF RunsFit, Request
<1>6. pg.handlers = <<>> => h = 0
  OBVIOUS
<1>7. page'[p] = made
  <2> HIDE DEF made
  <2> QED BY <1>1, <1>2
<1> HIDE DEF h, mine, m, made
<1>8. CASE h # 0 /\ ~foreign /\ run[h].cell # NoCell
  <2>1. page'[p] = [pg EXCEPT !.got[h] = mine, !.shown[run[h].cell] = mine]
    BY <1>7, <1>8 DEF made
  <2>2. /\ page'[p].handlers = pg.handlers /\ page'[p].got = [pg.got EXCEPT ![h] = mine]
        /\ page'[p].shown = [pg.shown EXCEPT ![run[h].cell] = mine]
    BY <1>2, <2>1 DEF Page
  <2>3. pg.handlers # <<>> /\ h = Head(pg.handlers) /\ h \in Runs /\ run[h].cell \in Cells
    BY <1>5, <1>6, <1>8
  <2> QED BY <2>2, <2>3 DEF mine, m
<1>9. CASE (h = 0 \/ foreign) /\ m.cell # NoCell
  <2>1. page'[p] = [pg EXCEPT !.shown[m.cell] = Append(@, m.output)]
    BY <1>7, <1>9 DEF made
  <2>2. /\ page'[p].handlers = pg.handlers /\ page'[p].got = pg.got
        /\ page'[p].shown = [pg.shown EXCEPT ![m.cell] = Append(@, m.output)]
    BY <1>2, <2>1 DEF Page
  <2>3. m.cell \in Cells
    BY <1>3, <1>9
  <2>4. pg.handlers # <<>> => /\ h = Head(pg.handlers)
                             /\ run[h].cell # NoCell /\ run[h].cell # m.cell
    BY <1>5, <1>9
  <2> QED BY <2>2, <2>3, <2>4 DEF m
<1>10. CASE ~(h # 0 /\ ~foreign /\ run[h].cell # NoCell) /\ ~((h = 0 \/ foreign) /\ m.cell # NoCell)
  BY <1>7, <1>10, <1>5, <1>6 DEF made, m
<1> QED BY <1>8, <1>9, <1>10

\* The page gets an output.
LEMMA OutputPending ==
    ASSUME TypeOK, TypeOK', Displays, NEW p \in Pages, p \in dropped \/ Steady(p), ReceiveOutput(p)
    PROVE  Pending(p)'
<1> DEFINE pg == page[p]
           n == page'[p]
           s == toPage[p]
           m == Head(s)
           h == Head(pg.handlers)
           mine == Append(pg.got[h], m.output)
<1>1. Receive(p, "output")
  BY DEF ReceiveOutput
<1>2. n \in Page
  BY TypeParts DEF TypeOK
<1>3. /\ n.handlers = pg.handlers
      /\ \/ /\ pg.handlers # <<>> /\ h \in Runs /\ run[h].cell \in Cells
            /\ n.got = [pg.got EXCEPT ![h] = mine] /\ n.shown = [pg.shown EXCEPT ![run[h].cell] = mine]
         \/ /\ m.cell \in Cells /\ n.got = pg.got
            /\ n.shown = [pg.shown EXCEPT ![m.cell] = Append(@, m.output)]
            /\ pg.handlers # <<>> => run[h].cell # NoCell /\ run[h].cell # m.cell
         \/ /\ n.got = pg.got /\ n.shown = pg.shown
            /\ pg.handlers = <<>> => m.cell = NoCell
            /\ pg.handlers # <<>> => run[h].cell = NoCell
  BY OutputEffect
<1>4. /\ s \in Seq(Message) /\ s # <<>> /\ m.type = "output" /\ m \in Message
      /\ s[1] = m /\ 1 \in 1..Len(s) /\ pg \in Page /\ pg.handlers \in Seq(Runs)
      /\ pg.got \in [Runs -> Seq(Outputs)] /\ pg.shown \in [Cells -> Seq(Outputs)]
      /\ server.buffer \in Buffers /\ Stored(server.buffer, run, Fresh)
      /\ Once(s, pg, Fresh) /\ Line(s, run)
      /\ Sole(p) => Behind(pg.handlers, server.buffer, run) /\ Follows(s, pg.handlers)
      /\ p \in server.subscribed /\ Fit(p) => Reaches(s, pg, server.buffer, run)
  BY <1>1, BeforeTaken
<1>5. m.output \in Outputs
  BY <1>4, MessageRead
<1>6. ~Seen(pg, m.output)
  BY <1>4 DEF Once
<1>7. \A c \in Cells : IsInjective(pg.shown[c])
  BY <1>4 DEF Once
<1>8. \A r \in Runs : IsInjective(pg.got[r])
  BY <1>4 DEF Once
<1>9. ASSUME NEW t \in Seq(Outputs), IsInjective(t), ~Has(t, m.output)
      PROVE  IsInjective(Append(t, m.output)) /\ \A o : Has(Append(t, m.output), o) => Has(t, o) \/ o = m.output
  BY <1>5, <1>9, InjectiveAppend, HasAppend
<1>10. /\ \A c \in Cells : ~Has(pg.shown[c], m.output) /\ pg.shown[c] \in Seq(Outputs)
       /\ \A r \in Runs : ~Has(pg.got[r], m.output) /\ pg.got[r] \in Seq(Outputs)
  BY <1>4, <1>6 DEF Seen
<1>11. h \in Runs => IsInjective(mine) /\ \A o : Has(mine, o) => Has(pg.got[h], o) \/ o = m.output
  BY <1>8, <1>9, <1>10
<1>12. m.cell \in Cells => /\ IsInjective(Append(pg.shown[m.cell], m.output))
                           /\ \A o : Has(Append(pg.shown[m.cell], m.output), o) => Has(pg.shown[m.cell], o) \/ o = m.output
  BY <1>7, <1>9, <1>10
<1>13. ASSUME NEW c \in Cells
       PROVE  \/ n.shown[c] = pg.shown[c]
              \/ h \in Runs /\ n.shown[c] = mine
              \/ m.cell \in Cells /\ c = m.cell /\ n.shown[c] = Append(pg.shown[m.cell], m.output)
  BY <1>3, <1>4
<1>14. ASSUME NEW r \in Runs
       PROVE  n.got[r] = pg.got[r] \/ (h \in Runs /\ n.got[r] = mine)
  BY <1>3, <1>4
<1> HIDE DEF n, pg, mine, h, m, s
<1>15. \A o : Seen(n, o) => Seen(pg, o) \/ Carries(m, o)
  <2>1. ASSUME NEW o, NEW c \in Cells, Has(n.shown[c], o) PROVE Seen(pg, o) \/ o = m.output
    BY <1>11, <1>12, <1>13, <2>1 DEF Seen
  <2>2. ASSUME NEW o, NEW r \in Runs, Has(n.got[r], o) PROVE Seen(pg, o) \/ o = m.output
    BY <1>11, <1>14, <2>2 DEF Seen
  <2>3. Carries(m, m.output)
    BY <1>4 DEF Carries
  <2> SUFFICES ASSUME NEW o, Seen(n, o) PROVE Seen(pg, o) \/ Carries(m, o)
    OBVIOUS
  <2>4. Seen(pg, o) \/ o = m.output
    BY <2>1, <2>2 DEF Seen
  <2> QED BY <2>3, <2>4
<1>16. \A c \in Cells : IsInjective(n.shown[c])
  BY <1>7, <1>11, <1>12, <1>13
<1>17. \A r \in Runs : IsInjective(n.got[r])
  BY <1>8, <1>11, <1>14
<1>18. Sole(p) => Follows(Tail(s), n.handlers)
  BY <1>3, <1>4, FollowsTaken
<1>19. ASSUME p \in server.subscribed, Fit(p) PROVE Reaches(Tail(s), n, server.buffer, run)
  <2>1. Reaches(s, pg, server.buffer, run)
    BY <1>4, <1>19
  <2>2. CASE Sole(p)
    <3>1. pg.handlers # <<>> /\ h \in Runs /\ run[h].cell = m.cell
      BY <1>4, <2>2, FirstOutput DEF h, m
    <3>2. IF run[h].cell # NoCell
          THEN n.got = [pg.got EXCEPT ![h] = mine] /\ n.shown = [pg.shown EXCEPT ![run[h].cell] = mine]
          ELSE n.got = pg.got /\ n.shown = pg.shown
      BY <1>3, <3>1, ValueAssumption
    <3>3. LET k == Head(pg.handlers)
              its == Append(pg.got[k], Head(s).output)
          IN IF run[k].cell # NoCell
             THEN n.got = [pg.got EXCEPT ![k] = its] /\ n.shown = [pg.shown EXCEPT ![run[k].cell] = its]
             ELSE n.got = pg.got /\ n.shown = pg.shown
      BY <3>2 DEF h, mine, m
    <3>4. Follows(s, pg.handlers) /\ Behind(pg.handlers, server.buffer, run) /\ Head(s).type = "output"
      BY <1>4, <2>2 DEF m
    <3> QED BY <1>3, <1>4, <2>1, <3>3, <3>4, ReachesOutput
  <2>3. CASE Watches(p) /\ p \notin dropped
    <3>1. pg.handlers = <<>>
      BY <2>3, WatchesNone DEF pg
    <3>2. m.cell \in Cells \cup {NoCell}
      BY <1>4, MessageRead
    <3>3. n.shown = IF m.cell # NoCell THEN [pg.shown EXCEPT ![m.cell] = Append(@, m.output)] ELSE pg.shown
      BY <1>3, <3>1, <3>2, ValueAssumption
    <3>4. n.shown = IF Head(s).cell # NoCell
                    THEN [pg.shown EXCEPT ![Head(s).cell] = Append(@, Head(s).output)] ELSE pg.shown
      BY <3>3 DEF m
    <3>5. Head(s).type = "output"
      BY <1>4 DEF m
    <3> QED BY <1>3, <1>4, <2>1, <3>1, <3>4, <3>5, ReachesWatched
  <2> QED BY <1>19, <2>2, <2>3 DEF Fit, Sole
<1>20. \/ n.handlers = pg.handlers
       \/ pg.handlers # <<>> /\ n.handlers = Tail(pg.handlers)
  BY <1>3
<1> QED BY <1>1, <1>2, <1>15, <1>16, <1>17, <1>18, <1>19, <1>20, AfterTaken DEF n, pg, m, s

\* A result that comes to a page which makes all the runs is that of its first handler.
LEMMA FirstResult ==
    ASSUME TypeOK, NEW p \in Pages, Steady(p), Alone(p), toPage[p] # <<>>, Head(toPage[p]).type = "result"
    PROVE  page[p].handlers # <<>> /\ Head(page[p].handlers) = Head(toPage[p]).run
<1> DEFINE x == Head(toPage[p]).run
           rest == Results(Tail(toPage[p]))
<1>1. toPage[p] \in Seq(Message) /\ page[p].handlers \in Seq(Runs)
  BY StateRead
<1>2. Head(toPage[p]) \in Message /\ Tail(toPage[p]) \in Seq(Message)
  BY <1>1
<1>3. rest \in Seq(RunOrNone)
  BY <1>2, ResultsExist, ResultsAre
<1>4. x \in RunOrNone
  BY <1>2, ResultRead
<1>5. Results(toPage[p]) = <<x>> \o rest
  BY <1>1, ResultsTail
<1>6. PICK q, c \in Seq(Runs) : Split(p, q, c)
  BY DEF Steady, Ordered
<1>7. page[p].handlers = (<<x>> \o rest) \o (q \o c)
  BY <1>5, <1>6 DEF Split
<1> HIDE DEF x, rest
<1>8. q \o c \in Seq(RunOrNone)
  BY RunsAre
<1> DEFINE h == page[p].handlers
           t == q \o c
<1>9. h = (<<x>> \o rest) \o t /\ t \in Seq(RunOrNone)
  BY <1>7, <1>8
<1> HIDE DEF h, t
<1>10. h # <<>> /\ h[1] = x /\ Head(h) = h[1]
  BY <1>3, <1>4, <1>9
<1> QED BY <1>10 DEF h, x

\* What a page makes of a result
LEMMA ResultEffect ==
    ASSUME TypeOK, NEW p \in Pages, ReceiveResult(p)
    PROVE  LET pg == page[p]
               n == page'[p]
               h == Head(pg.handlers)
           IN \/ pg.handlers = <<>> /\ n.handlers = <<>> /\ n.got = pg.got /\ n.shown = pg.shown
              \/ /\ pg.handlers # <<>> /\ h \in Runs /\ n.handlers = Tail(pg.handlers)
                 /\ IF run[h].cell = NoCell \/ run[h].stage = "lost"
                    THEN n.got = pg.got /\ n.shown = pg.shown
                    ELSE /\ run[h].cell \in Cells /\ n.got = [pg.got EXCEPT ![h] = <<>>]
                         /\ n.shown = [pg.shown EXCEPT ![run[h].cell] = pg.got[h]]
<1> DEFINE h == page[p].handlers
           pg == [page[p] EXCEPT !.ready = TRUE]
           less == [pg EXCEPT !.handlers = Shifted(@)]
           new == IF pg.handlers = <<>> THEN pg ELSE Settled(less, Head(pg.handlers))
<1>1. page \in [Pages -> Page] /\ page[p] \in Page /\ h \in Seq(Runs) /\ RunsFit
  BY StateRead, TypeParts
<1>2. page'[p] = new
  BY <1>1 DEF ReceiveResult
<1>3. pg.handlers = h /\ pg.got = page[p].got /\ pg.shown = page[p].shown
  BY <1>1 DEF Page
<1>4. /\ less.handlers = Tail(h) /\ less.got = page[p].got /\ less.shown = page[p].shown
      /\ "handlers" \in DOMAIN less /\ "got" \in DOMAIN less /\ "shown" \in DOMAIN less
  BY <1>1 DEF Page, Shifted
<1>5. h = <<>> => page'[p] = pg
  BY <1>2, <1>3
<1>6. h # <<>> => page'[p] = Settled(less, Head(h)) /\ Head(h) \in Runs
  BY <1>1, <1>2, <1>3
<1> HIDE DEF less, pg, new
<1>7. ASSUME NEW r \in Runs
      PROVE  /\ Settled(less, r).handlers = Tail(h)
             /\ IF run[r].cell = NoCell \/ run[r].stage = "lost"
                THEN Settled(less, r).got = page[p].got /\ Settled(less, r).shown = page[p].shown
                ELSE /\ run[r].cell \in Cells /\ Settled(less, r).got = [page[p].got EXCEPT ![r] = <<>>]
                     /\ Settled(less, r).shown = [page[p].shown EXCEPT ![run[r].cell] = page[p].got[r]]
  <2>1. CASE run[r].cell = NoCell \/ run[r].stage = "lost"
    BY <2>1, <1>4 DEF Settled
  <2>2. CASE ~(run[r].cell = NoCell \/ run[r].stage = "lost")
    <3>1. \E rest : Settled(less, r) = [less EXCEPT !.shown[run[r].cell] = less.got[r], !.got[r] = <<>>,
                                                    !.queue = rest, !.processing = FALSE]
      BY <2>2 DEF Settled
    <3>2. PICK rest : Settled(less, r) = [less EXCEPT !.shown[run[r].cell] = less.got[r], !.got[r] = <<>>,
                                                    !.queue = rest, !.processing = FALSE]
      BY <3>1
    <3>3. /\ Settled(less, r).handlers = less.handlers /\ Settled(less, r).got = [less.got EXCEPT ![r] = <<>>]
          /\ Settled(less, r).shown = [less.shown EXCEPT ![run[r].cell] = less.got[r]]
      BY <1>4, <3>2
    <3>4. run[r].cell \in Cells
      BY <1>1, <2>2 DEF RunsFit, Request
    <3> QED BY <1>4, <2>2, <3>3, <3>4
  <2> QED BY <2>1, <2>2
<1>8. CASE h = <<>>
  BY <1>3, <1>5, <1>8
<1>9. CASE h # <<>>
  BY <1>6, <1>7, <1>9
<1> QED BY <1>8, <1>9

\* The page gets a result.
LEMMA ResultPending ==
    ASSUME TypeOK, TypeOK', Displays, NEW p \in Pages, p \in dropped \/ Steady(p), ReceiveResult(p)
    PROVE  Pending(p)'
<1> DEFINE pg == page[p]
           n == page'[p]
           s == toPage[p]
           h == Head(pg.handlers)
<1>1. Receive(p, "result")
  BY DEF ReceiveResult
<1>2. n \in Page
  BY TypeParts DEF TypeOK
<1>3. \/ pg.handlers = <<>> /\ n.handlers = <<>> /\ n.got = pg.got /\ n.shown = pg.shown
      \/ /\ pg.handlers # <<>> /\ h \in Runs /\ n.handlers = Tail(pg.handlers)
         /\ IF run[h].cell = NoCell \/ run[h].stage = "lost"
            THEN n.got = pg.got /\ n.shown = pg.shown
            ELSE /\ run[h].cell \in Cells /\ n.got = [pg.got EXCEPT ![h] = <<>>]
                 /\ n.shown = [pg.shown EXCEPT ![run[h].cell] = pg.got[h]]
  BY ResultEffect
<1>4. /\ s \in Seq(Message) /\ s # <<>> /\ Head(s).type = "result"
      /\ pg \in Page /\ pg.handlers \in Seq(Runs)
      /\ pg.got \in [Runs -> Seq(Outputs)] /\ pg.shown \in [Cells -> Seq(Outputs)]
      /\ server.buffer \in Buffers /\ Stored(server.buffer, run, Fresh)
      /\ Once(s, pg, Fresh) /\ Line(s, run) /\ Distinct(pg.handlers, run)
      /\ Sole(p) => Behind(pg.handlers, server.buffer, run) /\ Follows(s, pg.handlers)
      /\ p \in server.subscribed /\ Fit(p) => Reaches(s, pg, server.buffer, run)
  BY <1>1, BeforeTaken
<1>5. (\A c \in Cells : IsInjective(pg.shown[c])) /\ \A r \in Runs : IsInjective(pg.got[r])
  BY <1>4 DEF Once
<1>6. ASSUME NEW c \in Cells PROVE n.shown[c] = pg.shown[c] \/ (h \in Runs /\ n.shown[c] = pg.got[h])
  BY <1>3, <1>4
<1>7. ASSUME NEW r \in Runs PROVE n.got[r] = pg.got[r] \/ n.got[r] = <<>>
  BY <1>3, <1>4
<1>8. Sole(p) => pg.handlers # <<>> /\ Head(s).run = h
  BY <1>4, FirstResult DEF Sole
<1>9. p \notin dropped /\ pg.handlers # <<>> => run[h].stage # "lost"
  <2> SUFFICES ASSUME p \notin dropped, pg.handlers # <<>> PROVE run[h].stage # "lost"
    OBVIOUS
  <2>1. 1 \in 1..Len(pg.handlers) /\ h = pg.handlers[1]
    BY <1>4
  <2> QED BY <2>1 DEF Steady, Owned, Handled, Active
<1>10. Watches(p) /\ p \notin dropped => pg.handlers = <<>>
  BY WatchesNone
<1> HIDE DEF n, pg, h, s
<1>11. \A o : Seen(n, o) => Seen(pg, o) \/ Carries(Head(s), o)
  BY <1>6, <1>7, InjectiveEmpty DEF Seen
<1>12. \A c \in Cells : IsInjective(n.shown[c])
  BY <1>5, <1>6
<1>13. \A r \in Runs : IsInjective(n.got[r])
  BY <1>5, <1>7, InjectiveEmpty
<1>14. Sole(p) => Follows(Tail(s), n.handlers)
  <2> SUFFICES ASSUME Sole(p) PROVE Follows(Tail(s), n.handlers)
    OBVIOUS
  <2>1. pg.handlers # <<>> /\ Head(s).run = Head(pg.handlers) /\ n.handlers = Tail(pg.handlers)
    BY <1>3, <1>8 DEF h
  <2>2. Follows(s, pg.handlers)
    BY <1>4
  <2> QED BY <1>4, <2>1, <2>2, FollowsResult
<1>15. ASSUME p \in server.subscribed, Fit(p) PROVE Reaches(Tail(s), n, server.buffer, run)
  <2>1. Reaches(s, pg, server.buffer, run)
    BY <1>4, <1>15
  <2>2. CASE Sole(p)
    <3>1. pg.handlers # <<>> /\ Head(s).run = Head(pg.handlers) /\ n.handlers = Tail(pg.handlers)
      BY <1>3, <1>8, <2>2 DEF h
    <3>2. LET k == Head(pg.handlers)
          IN IF run[k].cell # NoCell
             THEN n.got = [pg.got EXCEPT ![k] = <<>>] /\ n.shown = [pg.shown EXCEPT ![run[k].cell] = pg.got[k]]
             ELSE n.got = pg.got /\ n.shown = pg.shown
      BY <1>3, <1>9, <2>2, <3>1 DEF h, Sole
    <3>3. Behind(pg.handlers, server.buffer, run)
      BY <1>4, <2>2
    <3> QED BY <1>4, <2>1, <3>1, <3>2, <3>3, ReachesResult
  <2>3. CASE Watches(p) /\ p \notin dropped
    BY <1>3, <1>10, <2>3, <1>4, <2>1, ReachesTaken
  <2> QED BY <1>15, <2>2, <2>3 DEF Fit, Sole
<1>16. \/ n.handlers = pg.handlers
       \/ pg.handlers # <<>> /\ n.handlers = Tail(pg.handlers)
  BY <1>3
<1> QED BY <1>1, <1>2, <1>11, <1>12, <1>13, <1>14, <1>15, <1>16, AfterTaken DEF n, pg, s

-----------------------------------------------------------------------------
(* Connections of a page *)

\* The page connects.
LEMMA ConnectPending ==
    ASSUME TypeOK, TypeOK', IInv, Joined, Displays, NEW p \in Pages, p \in dropped \/ Steady(p), Private(p), Connect(p)
    PROVE  Pending(p)'
<1>1. /\ ~link[p] /\ toServer' = [toServer EXCEPT ![p] = << 0 >>]
      /\ page' = [page EXCEPT ![p].synced = FALSE, ![p].ready = TRUE, ![p].waiting = {}]
      /\ UNCHANGED <<server, channel, kernel, count, dropped>>
      /\ UNCHANGED toPage \/ toPage' = [toPage EXCEPT ![p] = Append(@, Dead)]
  BY DEF Connect
<1>2. /\ page \in [Pages -> Page] /\ toServer \in [Pages -> Seq(0..MaxRuns)] /\ toPage \in [Pages -> Seq(Message)]
      /\ page'[p] \in Page
  BY StateRead, TypeParts DEF LinesFit, TypeOK
<1>3. /\ page'[p].handlers = page[p].handlers /\ page'[p].shown = page[p].shown /\ page'[p].got = page[p].got
  BY <1>1, <1>2 DEF Page
<1>4. Pending(p)
  BY DEF Displays
<1>5. toPage[p] = <<>> /\ p \notin server.subscribed
  BY <1>1, <1>4 DEF Joined, Pending, Listens
<1>6. Listens(p)'
  <2>1. toPage'[p] = <<>> \/ toPage'[p] = <<Dead>>
    BY <1>1, <1>2, <1>5
  <2>2. toServer'[p] = << 0 >> /\ Dead.type # "sync" /\ Len(<<>>) = 0 /\ Len(<<Dead>>) = 1 /\ <<Dead>>[1] = Dead
    BY <1>1, <1>2 DEF Dead
  <2>3. \A i \in 1..Len(toPage'[p]) : toPage'[p][i].type # "sync"
    BY <2>1, <2>2
  <2> QED BY <1>1, <1>5, <2>2, <2>3 DEF Listens
<1>7. Asking(p)'
  BY <1>1, <1>3 DEF Steady, Idles, Asking
<1>8. FineAt(p)'
  <2> DEFINE sub == p \in server'.subscribed
             alone == Sole(p)'
             fit == Fit(p)'
             s == toPage[p]
  <2>1. Fine(s, page'[p], server'.buffer, run', Fresh', sub, alone, fit)
    BY ProceedsOnward, <1>1, <1>3, Apart DEF Private
  <2>2. Dead \in Message /\ Dead.type \notin {"output", "sync"} /\ Dead.type # "result" /\ s \in Seq(Message)
    BY <1>2, MessageType DEF Dead
  <2>3. toPage'[p] = s \/ toPage'[p] = Append(s, Dead)
    BY <1>1, <1>2
  <2> HIDE DEF sub, alone, fit, s
  <2>4. Fine(Append(s, Dead), page'[p], server'.buffer, run', Fresh', sub, alone, fit)
    BY <1>2, <2>1, <2>2, FineSent
  <2>5. Fine(toPage'[p], page'[p], server'.buffer, run', Fresh', sub, alone, fit)
    BY <2>1, <2>3, <2>4
  <2> QED BY <2>5 DEF FineAt, sub, alone, fit
<1> QED BY <1>6, <1>7, <1>8 DEF Pending

\* A page that waits for nothing and to which nothing is on the way
LEMMA NothingFine ==
    ASSUME NEW s, s = <<>>, NEW hs, hs = <<>>, NEW B, NEW R
    PROVE  Behind(hs, B, R) /\ Follows(s, hs)
<1>1. Len(<<>>) = 0 /\ 1..0 = {}
  OBVIOUS
<1>2. Behind(hs, B, R)
  BY <1>1 DEF Behind
<1>3. Follows(s, hs)
  BY <1>1 DEF Follows
<1> QED BY <1>2, <1>3

\* The connection of the page breaks.
LEMMA BreakPending ==
    ASSUME TypeOK, TypeOK', IInv, Displays, NEW p \in Pages, Private(p), Break(p)
    PROVE  Pending(p)'
<1>1. /\ link' = [link EXCEPT ![p] = FALSE]
      /\ toPage' = [toPage EXCEPT ![p] = <<>>] /\ toServer' = [toServer EXCEPT ![p] = <<>>]
      /\ page' = [page EXCEPT ![p].ready = FALSE]
      /\ server' = [server EXCEPT !.subscribed = @ \ {p}]
      /\ dropped' = IF page[p].handlers # <<>> \/ page[p].waiting # {} THEN dropped \cup {p} ELSE dropped
  BY DEF Break
<1>2. /\ page \in [Pages -> Page] /\ toPage \in [Pages -> Seq(Message)] /\ link \in [Pages -> BOOLEAN]
      /\ toServer \in [Pages -> Seq(0..MaxRuns)] /\ server \in Session /\ page[p].handlers \in Seq(Runs)
  BY StateRead, TypeParts DEF LinesFit
<1>3. /\ page'[p].handlers = page[p].handlers /\ page'[p].shown = page[p].shown /\ page'[p].got = page[p].got
  BY <1>1, <1>2 DEF Page
<1>4. p \notin server'.subscribed
  BY <1>1, <1>2 DEF Session
<1>5. toPage'[p] = <<>> /\ toServer'[p] = <<>> /\ link'[p] = FALSE
  BY <1>1, <1>2
<1>6. Len(<<>>) = 0 /\ 1..0 = {}
  OBVIOUS
<1>7. Listens(p)'
  BY <1>4, <1>5, <1>6 DEF Listens
<1>8. p \notin dropped' => page'[p].handlers = <<>>
  BY <1>1, <1>3
<1>9. Asking(p)'
  BY <1>6, <1>8 DEF Asking
<1>10. FineAt(p)'
  <2>1. /\ Fresh' \subseteq Fresh
        /\ \A q \in Runs : run[q].stage \notin {"none", "waiting"} => run'[q].stage \notin {"none", "waiting"}
    BY ProceedsOnward DEF Private, Onward
  <2>2. Once(toPage[p], page[p], Fresh) /\ Distinct(page[p].handlers, run)
    BY DEF Displays, Pending, FineAt, Fine
  <2>3. Once(<<>>, page'[p], Fresh')
    BY <1>3, <2>2, <2>1, OnceAway DEF Once, Seen
  <2>4. Line(toPage'[p], run')
    BY <1>5, <1>6 DEF Line
  <2>5. Distinct(page'[p].handlers, run')
    BY <1>2, <1>3, <2>1, <2>2, DistinctKept
  <2>6. Sole(p)' => Behind(page'[p].handlers, server'.buffer, run') /\ Follows(toPage'[p], page'[p].handlers)
    BY <1>5, <1>8, NothingFine DEF Sole
  <2> QED BY <1>4, <1>5, <2>3, <2>4, <2>5, <2>6 DEF FineAt, Fine
<1> QED BY <1>7, <1>9, <1>10 DEF Pending

\* The page's request for the outputs is answered.
LEMMA SyncPending ==
    ASSUME TypeOK, TypeOK', IInv, Joined, Displays, NEW p \in Pages, SyncOutputs(p)
    PROVE  Pending(p)'
<1> DEFINE m == [type |-> "sync", cells |-> server.buffer]
<1>1. /\ toServer[p] # <<>> /\ toServer' = [toServer EXCEPT ![p] = Tail(@)] /\ Head(toServer[p]) = 0
      /\ toPage' = [toPage EXCEPT ![p] = Append(@, m)]
      /\ server' = [server EXCEPT !.subscribed = server.subscribed \cup {p}]
      /\ UNCHANGED <<page, link, run, channel, kernel, count, dropped>>
  BY DEF SyncOutputs, TakeRequest, Subscribed
<1>2. /\ page[p] \in Page /\ toPage[p] \in Seq(Message) /\ toServer[p] \in Seq(0..MaxRuns) /\ server \in Session
      /\ toPage \in [Pages -> Seq(Message)] /\ toServer \in [Pages -> Seq(0..MaxRuns)]
      /\ server.buffer \in Buffers /\ run \in Records /\ link \in [Pages -> BOOLEAN]
      /\ \A i \in 1..Len(page[p].handlers) : page[p].handlers[i] \in Runs
  BY StateRead, TypeParts DEF LinesFit
<1>3. server'.buffer = server.buffer /\ p \in server'.subscribed
  BY <1>1, <1>2 DEF Session
<1>4. toPage'[p] = Append(toPage[p], m) /\ toServer'[p] = Tail(toServer[p])
  BY <1>1, <1>2
<1>5. Pending(p) /\ Stored(server.buffer, run, Fresh)
  BY DEF Displays
<1>6. p \notin server.subscribed /\ link[p]
  <2>1. 1 \in 1..Len(toServer[p]) /\ toServer[p][1] = 0
    BY <1>1, <1>2
  <2> QED BY <1>1, <1>5, <2>1 DEF Pending, Listens, Joined
<1>7. Listens(p)'
  <2>1. \A i \in 1..Len(Tail(toServer[p])) : i + 1 \in 1..Len(toServer[p]) /\ i + 1 # 1
                                             /\ Tail(toServer[p])[i] = toServer[p][i + 1]
    BY <1>1, <1>2
  <2>2. \A i \in 1..Len(Tail(toServer[p])) : Tail(toServer[p])[i] # 0
    BY <1>5, <2>1 DEF Pending, Listens
  <2> QED BY <1>1, <1>3, <1>4, <1>6, <2>2 DEF Listens
<1>8. Asking(p)'
  BY <1>3 DEF Asking
<1>9. FineAt(p)'
  <2>1. Fresh' = Fresh /\ Sole(p)' = Sole(p) /\ Fit(p)' = Fit(p)
    BY <1>1 DEF Fresh, Still, Sole, Fit, Alone, Watches
  <2> DEFINE sub == p \in server.subscribed
             alone == Sole(p)
             fit == Fit(p)
  <2>2. Fine(toPage[p], page[p], server.buffer, run, Fresh, sub, alone, fit)
    BY <1>5 DEF Pending, FineAt
  <2>3. Caught(toPage[p], server.buffer, run)
    BY <1>5, <1>6 DEF Pending, Listens, Caught
  <2>4. m \in Message
    BY <1>2, MessageType DEF Buffers
  <2>5. fit => \A c \in Cells : \A i \in 1..Len(server.buffer[c]) : ~Has(page[p].handlers, server.buffer[c][i][1])
    <3> SUFFICES ASSUME p \notin dropped, NEW c \in Cells, NEW i \in 1..Len(server.buffer[c]),
                        NEW a \in 1..Len(page[p].handlers), page[p].handlers[a] = server.buffer[c][i][1]
                 PROVE  FALSE
      BY DEF Fit, Has
    <3>1. run[page[p].handlers[a]].stage = "asked"
      BY <1>5, <1>6 DEF Pending, Asking
    <3>2. run[server.buffer[c][i][1]].stage \in Begun
      BY <1>5 DEF Stored
    <3> QED BY <3>1, <3>2 DEF Begun
  <2>6. m.type = "sync" /\ m.cells = server.buffer
    OBVIOUS
  <2> HIDE DEF sub, alone, fit, m
  <2>7. Fine(Append(toPage[p], m), page[p], server.buffer, run, Fresh, TRUE, alone, fit)
    BY <1>2, <1>5, <2>2, <2>3, <2>4, <2>5, <2>6, FineSync
  <2>8. Fine(toPage'[p], page'[p], server'.buffer, run', Fresh', p \in server'.subscribed, Sole(p)', Fit(p)')
    BY <1>1, <1>3, <1>4, <2>1, <2>7 DEF Fine, alone, fit
  <2> QED BY <2>8 DEF FineAt
<1> QED BY <1>7, <1>8, <1>9 DEF Pending

\* The server takes a run of the page.
LEMMA ExecutePending ==
    ASSUME TypeOK, TypeOK', IInv, Joined, Displays, NEW p \in Pages, Private(p), Execute(p)
    PROVE  Pending(p)'
<1>1. /\ toServer[p] # <<>> /\ toServer' = [toServer EXCEPT ![p] = Tail(@)] /\ Head(toServer[p]) # 0
      /\ \E r : server' = [server EXCEPT !.tail = r]
      /\ UNCHANGED <<page, link, toPage, channel, kernel, count, dropped>>
  BY DEF Execute, TakeRequest
<1>2. /\ toServer[p] \in Seq(0..MaxRuns) /\ toServer \in [Pages -> Seq(0..MaxRuns)] /\ server \in Session
  BY TypeParts DEF LinesFit, ServerFits
<1>3. server'.buffer = server.buffer /\ server'.subscribed = server.subscribed
  BY <1>1, <1>2 DEF Session
<1>4. toServer'[p] = Tail(toServer[p])
  BY <1>1, <1>2
<1>5. Pending(p)
  BY DEF Displays
<1>6. p \in server.subscribed /\ link[p]
  BY <1>1, <1>5 DEF Pending, Listens, Joined
<1>7. Listens(p)'
  BY <1>1, <1>2, <1>5, <1>6, <1>3, <1>4 DEF Pending, Listens
<1>8. Asking(p)'
  BY <1>3, <1>6 DEF Asking
<1>9. FineAt(p)'
  BY ProceedsOnward, <1>1, <1>3, Apart DEF Private
<1> QED BY <1>7, <1>8, <1>9 DEF Pending

\* What a step of page p shows, of all pages
LEMMA PageDisplays ==
    ASSUME TypeOK, TypeOK', IInv, Flows, Displays, NEW p \in Pages,
           \/ \E c \in Cells : QueueExecution(p, c)
           \/ ProcessNext(p) \/ RunHint(p) \/ Interrupt(p)
           \/ \E r \in Runs : WaitOver(p, r) \/ WaitThrows(p, r)
           \/ ReceiveDead(p) \/ ReceiveSync(p) \/ ReceiveOutput(p) \/ ReceiveResult(p)
           \/ Connect(p) \/ Break(p) \/ SyncOutputs(p) \/ Execute(p)
    PROVE  Displays'
<1>1. Private(p)
  BY PagePrivate
<1>2. Joined /\ \A o \in Pages : o \in dropped \/ Steady(o)
  BY DEF Flows
<1>3. Stored(server'.buffer, run', Fresh') /\ Neat'
  BY <1>1, ProceedsOnward DEF Private
<1>4. \A o \in Pages \ {p} : Pending(o)'
  BY <1>1, <1>2, PrivateOthers
<1>5. Pending(p)'
  <2>1. CASE \/ \E c \in Cells : QueueExecution(p, c)
             \/ ProcessNext(p) \/ RunHint(p) \/ Interrupt(p)
             \/ \E r \in Runs : WaitOver(p, r)
    BY <1>1, <2>1, AsksPending
  <2>2. CASE \E r \in Runs : WaitThrows(p, r)
    BY <1>1, <1>2, <2>2, ThrowsPending
  <2>3. CASE ReceiveDead(p)
    BY <2>3, DeadPending
  <2>4. CASE ReceiveSync(p)
    BY <2>4, SyncedPending
  <2>5. CASE ReceiveOutput(p)
    BY <1>2, <2>5, OutputPending
  <2>6. CASE ReceiveResult(p)
    BY <1>2, <2>6, ResultPending
  <2>7. CASE Connect(p)
    BY <1>1, <1>2, <2>7, ConnectPending
  <2>8. CASE Break(p)
    BY <1>1, <2>8, BreakPending
  <2>9. CASE SyncOutputs(p)
    BY <1>2, <2>9, SyncPending
  <2>10. CASE Execute(p)
    BY <1>1, <1>2, <2>10, ExecutePending
  <2> QED BY <2>1, <2>2, <2>3, <2>4, <2>5, <2>6, <2>7, <2>8, <2>9, <2>10
<1> QED BY <1>3, <1>4, <1>5 DEF Displays

-----------------------------------------------------------------------------
(* The steps of the session *)

\* The session leaves the pages, their connections and their requests alone, and the
\* requests that have been asked.
Served == UNCHANGED <<page, link, toServer, dropped>> /\ server'.subscribed = server.subscribed
            /\ \A r \in Runs : run[r].stage = "asked" => run'[r].stage = "asked"

\* What is then left to show of a page
LEMMA SessionPending ==
    ASSUME TypeOK, Displays, Served, NEW p \in Pages, FineAt(p)',
           p \notin server.subscribed => \A i \in 1..Len(toPage'[p]) : toPage'[p][i].type # "sync"
    PROVE  Pending(p)'
<1>1. Pending(p)
  BY DEF Displays
<1>2. Listens(p)'
  BY <1>1 DEF Pending, Listens, Served
<1>3. Asking(p)'
  BY StateRead, <1>1 DEF Pending, Asking, Served
<1> QED BY <1>2, <1>3 DEF Pending

\* The session tells the pages nothing, or a message that is no output.
Says(m) == \A p \in Pages : toPage'[p] = toPage[p] \/ toPage'[p] = Append(toPage[p], m)

\* A step that brings no output
LEMMA SessionTells ==
    ASSUME TypeOK, Displays, Served, Neat', NEW m \in Message, Says(m), m.type \notin {"output", "sync"},
           m.type = "result" => m.run \in Runs /\ run'[m.run].stage = "ended",
           Onward(server.buffer, server'.buffer, run, run'), Fresh' \subseteq Fresh
    PROVE  Displays'
<1>1. Stored(server'.buffer, run', Fresh')
  BY StateRead, StoredKept DEF Displays, Onward
<1>2. ASSUME NEW p \in Pages PROVE Pending(p)'
  <2> DEFINE sub == p \in server.subscribed
             alone == Sole(p)
             fit == Fit(p)
             alone2 == Sole(p)'
             fit2 == Fit(p)'
             s == toPage[p]
  <2>1. /\ s \in Seq(Message) /\ page[p] \in Page /\ server.buffer \in Buffers /\ run \in Records
        /\ Stored(server.buffer, run, Fresh) /\ Pending(p)
    BY StateRead DEF Displays
  <2>2. Fine(s, page[p], server.buffer, run, Fresh, sub, alone, fit)
    BY <2>1 DEF Pending, FineAt
  <2>3. (alone2 => alone) /\ (fit2 => fit)
    BY Narrower DEF Onward, Served
  <2>4. page' = page /\ server'.subscribed = server.subscribed
    BY DEF Served
  <2> HIDE DEF sub, alone, fit, alone2, fit2, s
  <2>5. Fine(s, page[p], server'.buffer, run', Fresh', sub, alone2, fit2)
    <3>1. /\ page'[p].shown = page[p].shown /\ page'[p].got = page[p].got
          /\ page'[p].handlers = page[p].handlers
      BY <2>4
    <3>2. Fine(s, page'[p], server'.buffer, run', Fresh', sub, alone2, fit2)
      BY <2>1, <2>2, <2>3, <3>1, FineKept
    <3> QED BY <2>4, <3>2
  <2>6. Fine(Append(s, m), page[p], server'.buffer, run', Fresh', sub, alone2, fit2)
    BY <2>1, <2>5, FineSent
  <2>7. toPage'[p] = s \/ toPage'[p] = Append(s, m)
    BY DEF Says, s
  <2>8. FineAt(p)'
    BY <2>4, <2>5, <2>6, <2>7 DEF FineAt, sub, alone2, fit2
  <2>9. p \notin server.subscribed => \A i \in 1..Len(toPage'[p]) : toPage'[p][i].type # "sync"
    <3> SUFFICES ASSUME p \notin server.subscribed, NEW i \in 1..Len(toPage'[p]) PROVE toPage'[p][i].type # "sync"
      OBVIOUS
    <3>1. \A j \in 1..Len(s) : s[j].type # "sync"
      BY <2>1 DEF Pending, Listens, s
    <3>2. Len(s) \in Nat /\ Len(Append(s, m)) = Len(s) + 1 /\ Append(s, m)[Len(s) + 1] = m
          /\ \A j \in 1..Len(s) : Append(s, m)[j] = s[j]
      BY <2>1
    <3>3. CASE i \in 1..Len(s)
      BY <2>7, <3>1, <3>2, <3>3
    <3>4. CASE i = Len(s) + 1 /\ toPage'[p] = Append(s, m)
      BY <3>2, <3>4
    <3> QED BY <2>7, <3>2, <3>3, <3>4
  <2> QED BY <2>8, <2>9, SessionPending
<1> QED BY <1>1, <1>2 DEF Displays

-----------------------------------------------------------------------------
(* The kernel's messages *)

\* One more message in a channel
LEMMA LoneAppend ==
    ASSUME NEW ch \in Seq(Error..Idle), NEW m \in Error..Idle, Lone(ch), m = Idle \/ ~Has(ch, m)
    PROVE  Lone(Append(ch, m))
<1> DEFINE n == Append(ch, m)
<1>1. Len(ch) \in Nat /\ Len(n) = Len(ch) + 1 /\ n[Len(ch) + 1] = m /\ \A i \in 1..Len(ch) : n[i] = ch[i]
  OBVIOUS
<1>2. \A i \in 1..Len(n) : /\ i \in 1..Len(ch) \/ i = Len(ch) + 1
                           /\ \A j \in 1..(i - 1) : j \in 1..Len(ch)
  BY <1>1
<1> HIDE DEF n
<1>3. ASSUME NEW i \in 1..Len(n), NEW j \in 1..(i - 1), n[i] = n[j] PROVE n[i] = Idle
  BY <1>1, <1>2, <1>3 DEF Lone, Has
<1>4. Lone(n)
  BY <1>3 DEF Lone
<1> QED BY <1>4 DEF n

\* One fewer
LEMMA LoneTail ==
    ASSUME NEW ch \in Seq(Error..Idle), ch # <<>>, Lone(ch)
    PROVE  /\ Lone(Tail(ch)) /\ (Head(ch) # Idle => ~Has(Tail(ch), Head(ch)))
           /\ \A i \in 1..Len(Tail(ch)) : Has(ch, Tail(ch)[i])
           /\ Tail(ch) \in Seq(Error..Idle) /\ Head(ch) \in Error..Idle /\ Has(ch, Head(ch))
<1> DEFINE n == Tail(ch)
<1>1. /\ Len(n) \in Nat /\ Len(ch) = Len(n) + 1 /\ Head(ch) = ch[1] /\ \A i \in 1..Len(n) : n[i] = ch[i + 1]
      /\ n \in Seq(Error..Idle) /\ Head(ch) \in Error..Idle /\ 1 \in 1..Len(ch)
  <2>1. PICK S : S = Error..Idle
    OBVIOUS
  <2>2. ch \in Seq(S)
    BY <2>1
  <2>3. /\ Len(n) \in Nat /\ Len(ch) = Len(n) + 1 /\ \A i \in 1..Len(n) : n[i] = ch[i + 1]
    BY <2>2
  <2>4. Head(ch) = ch[1] /\ n \in Seq(S) /\ Head(ch) \in S /\ 1 \in 1..Len(ch)
    BY <2>2
  <2> QED BY <2>1, <2>3, <2>4
<1>2. \A i \in 1..Len(n) : /\ i + 1 \in 1..Len(ch) /\ 1 \in 1..((i + 1) - 1)
                           /\ \A j \in 1..(i - 1) : j \in 1..Len(n) /\ j + 1 \in 1..((i + 1) - 1)
  BY <1>1
<1> HIDE DEF n
<1>3. ASSUME NEW i \in 1..Len(n), NEW j \in 1..(i - 1), n[i] = n[j] PROVE n[i] = Idle
  BY <1>1, <1>2, <1>3 DEF Lone
<1>4. ASSUME NEW i \in 1..Len(n), n[i] = Head(ch) PROVE Head(ch) = Idle
  BY <1>1, <1>2, <1>4 DEF Lone
<1>5. Lone(n)
  BY <1>3 DEF Lone
<1>6. Head(ch) # Idle => ~Has(n, Head(ch))
  BY <1>4 DEF Has
<1>7. \A i \in 1..Len(n) : Has(ch, n[i])
  BY <1>1, <1>2 DEF Has
<1>8. Has(ch, Head(ch))
  BY <1>1 DEF Has
<1> QED BY <1>1, <1>5, <1>6, <1>7, <1>8 DEF n

\* A channel takes a message.
LEMMA LonePushed ==
    ASSUME NEW ch \in Seq(Error..Idle), NEW m \in Error..Idle, Lone(ch), m = Idle \/ ~Has(ch, m)
    PROVE  Lone(Pushed(ch, m)) /\ \A i \in 1..Len(Pushed(ch, m)) : Pushed(ch, m)[i] = m \/ Has(ch, Pushed(ch, m)[i])
<1>1. CASE Len(ch) < MaxChannel
  <2>1. Pushed(ch, m) = Append(ch, m)
    BY <1>1 DEF Pushed
  <2>2. \A i \in 1..Len(Append(ch, m)) : Append(ch, m)[i] = m \/ Has(ch, Append(ch, m)[i])
    BY DEF Has
  <2> QED BY <2>1, <2>2, LoneAppend
<1>2. CASE ~(Len(ch) < MaxChannel)
  <2> DEFINE t == Tail(ch)
  <2>1. ch # <<>>
    BY <1>2, Numbers
  <2>2. Pushed(ch, m) = Append(t, m)
    BY <1>2 DEF Pushed
  <2>3. Lone(t) /\ t \in Seq(Error..Idle) /\ \A i \in 1..Len(t) : Has(ch, t[i])
    BY <2>1, LoneTail
  <2> HIDE DEF t
  <2>4. m = Idle \/ ~Has(t, m)
    <3>1. Has(t, m) => Has(ch, m)
      BY <2>3 DEF Has
    <3> QED BY <3>1
  <2>5. \A i \in 1..Len(Append(t, m)) : Append(t, m)[i] = m \/ Has(ch, Append(t, m)[i])
    BY <2>3
  <2>6. Lone(Append(t, m))
    BY <2>3, <2>4, LoneAppend
  <2> QED BY <2>2, <2>5, <2>6
<1> QED BY <1>1, <1>2

\* The kernel sends a message that could still come.
LEMMA KernelSends ==
    ASSUME TypeOK, Displays, NEW r \in Runs, run[r].stage = "running", NEW m \in Error..Idle,
           UNCHANGED <<page, link, toPage, toServer, run, server, count, dropped>>,
           channel' = Published(r, m),
           \A q \in Runs \ {r} : kernel'.printed[q] = kernel.printed[q],
           kernel'.printed[r] \in 0..MaxPrinted,
           \/ m = kernel.printed[r] + 1 /\ kernel.printed[r] < MaxPrinted /\ kernel'.printed[r] = m
           \/ m = Error /\ kernel.printed[r] < MaxPrinted /\ kernel'.printed[r] = MaxPrinted
           \/ m = Idle /\ kernel'.printed[r] = kernel.printed[r]
    PROVE  Displays'
<1> DEFINE ch == channel[r]
           n == IF kernel.heard THEN Pushed(ch, m) ELSE ch
<1>1. channel \in [Runs -> Seq(Error..Idle)] /\ \A q \in Runs : kernel.printed[q] \in 0..MaxPrinted
  BY TypeParts, KernelRead DEF ChannelsFit
<1>2. ch \in Seq(Error..Idle) /\ channel'[r] = n /\ \A q \in Runs \ {r} : channel'[q] = channel[q]
  BY <1>1 DEF Published
<1>3. /\ Lone(ch)
      /\ \A i \in 1..Len(ch) : /\ ch[i] \in 1..MaxPrinted => ch[i] <= kernel.printed[r]
                               /\ ch[i] = Error => kernel.printed[r] = MaxPrinted
  BY DEF Displays, Neat
<1>4. m = Idle \/ ~Has(ch, m)
  <2> SUFFICES ASSUME m # Idle, NEW i \in 1..Len(ch), ch[i] = m PROVE FALSE
    BY DEF Has
  <2>1. kernel.printed[r] \in 0..MaxPrinted /\ MaxPrinted \in Nat /\ Error = 0
    BY <1>1, Numbers
  <2> QED BY <1>3, <2>1
<1>5. Lone(n) /\ \A i \in 1..Len(n) : n[i] = m \/ Has(ch, n[i])
  <2>1. CASE kernel.heard
    BY <1>2, <1>3, <1>4, <2>1, LonePushed
  <2>2. CASE ~kernel.heard
    BY <1>3, <2>2 DEF Has
  <2> QED BY <2>1, <2>2
<1> HIDE DEF n
<1>6. \A i \in 1..Len(n) : /\ n[i] \in 1..MaxPrinted => n[i] <= kernel'.printed[r]
                           /\ n[i] = Error => kernel'.printed[r] = MaxPrinted
  <2> SUFFICES ASSUME NEW i \in 1..Len(n)
               PROVE  /\ n[i] \in 1..MaxPrinted => n[i] <= kernel'.printed[r]
                      /\ n[i] = Error => kernel'.printed[r] = MaxPrinted
    OBVIOUS
  <2>1. kernel.printed[r] \in 0..MaxPrinted /\ MaxPrinted \in Nat /\ Error = 0 /\ Idle = MaxPrinted + 1
    BY <1>1, Numbers
  <2>2. CASE n[i] = m
    BY <2>1, <2>2
  <2>3. CASE Has(ch, n[i])
    <3>1. /\ n[i] \in 1..MaxPrinted => n[i] <= kernel.printed[r]
          /\ n[i] = Error => kernel.printed[r] = MaxPrinted
      BY <1>3, <2>3 DEF Has
    <3> QED BY <2>1, <3>1
  <2> QED BY <1>5, <2>2, <2>3
<1>7. Neat'
  <2> SUFFICES ASSUME NEW q \in Runs, run[q].stage = "running"
               PROVE  /\ Lone(channel'[q])
                      /\ \A i \in 1..Len(channel'[q]) :
                           /\ channel'[q][i] \in 1..MaxPrinted => channel'[q][i] <= kernel'.printed[q]
                           /\ channel'[q][i] = Error => kernel'.printed[q] = MaxPrinted
    BY DEF Neat, Lone
  <2>1. CASE q = r
    BY <1>2, <1>5, <1>6, <2>1
  <2>2. CASE q # r
    BY <1>2, <2>2 DEF Displays, Neat
  <2> QED BY <2>1, <2>2
<1>8. Fresh' \subseteq Fresh
  <2>1. ASSUME NEW q \in Runs, NEW k \in 0..Cut, Still(q, k)' PROVE Still(q, k)
    <3>1. CASE q # r
      BY <1>2, <2>1, <3>1 DEF Still
    <3>2. CASE q = r
      <4>1. k = Cut \/ Has(n, k) \/ (k # Error /\ k > kernel'.printed[r]) \/ (k = Error /\ kernel'.printed[r] < MaxPrinted)
        BY <1>2, <2>1, <3>2 DEF Still
      <4>2. kernel.printed[r] \in 0..MaxPrinted /\ MaxPrinted \in Nat /\ Error = 0 /\ Idle = MaxPrinted + 1
        BY <1>1, Numbers
      <4>3. Has(n, k) => k = m \/ Has(ch, k)
        BY <1>5 DEF Has
      <4>4. k = m => (k # Error /\ k > kernel.printed[r]) \/ (k = Error /\ kernel.printed[r] < MaxPrinted)
        BY <4>2
      <4>5. k # Error /\ k > kernel'.printed[r] => k > kernel.printed[r]
        BY <4>2
      <4>6. kernel'.printed[r] < MaxPrinted => kernel.printed[r] < MaxPrinted
        BY <4>2
      <4>7. k = Cut \/ Has(ch, k) \/ (k # Error /\ k > kernel.printed[r]) \/ (k = Error /\ kernel.printed[r] < MaxPrinted)
        BY <4>1, <4>3, <4>4, <4>5, <4>6
      <4> QED BY <3>2, <4>7 DEF Still
    <3> QED BY <3>1, <3>2
  <2> QED BY <2>1, FreshLess
<1>9. Onward(server.buffer, server'.buffer, run, run')
  BY DEF Onward, Moves, Shrinks
<1>10. Served
  BY DEF Served
<1>11. Says(Dead) /\ Dead \in Message /\ Dead.type \notin {"output", "sync"} /\ Dead.type # "result"
  BY MessageType DEF Says, Dead
<1> QED BY <1>7, <1>8, <1>9, <1>10, <1>11, SessionTells

\* The kernel prints, raises or ends its request, a thread prints late, or the iopub
\* socket is connected.
LEMMA KernelDisplays ==
    ASSUME TypeOK, IInv, Displays, Hears \/ Prints \/ Raises \/ Finishes \/ \E r \in Runs : PrintsLate(r)
    PROVE  Displays'
<1>0. /\ kernel \in Process /\ MaxPrinted \in Nat /\ Error = 0 /\ Idle = MaxPrinted + 1 /\ AtKernel
      /\ \A r \in Runs : kernel.printed[r] \in 0..MaxPrinted
      /\ kernel.printed \in [Runs -> 0..MaxPrinted]
  BY TypeParts, KernelRead, Numbers DEF KernelFits, IInv, InTurn
<1>1. kernel.queue # <<>> => Head(kernel.queue) \in Runs /\ run[Head(kernel.queue)].stage = "running"
  BY <1>0, KernelHas
<1>2. CASE Prints
  <2> DEFINE r == Head(kernel.queue)
             m == kernel.printed[r] + 1
  <2>1. /\ kernel.queue # <<>> /\ kernel.printed[r] < MaxPrinted
        /\ kernel' = [kernel EXCEPT !.printed[r] = m]
        /\ channel' = Published(r, m)
        /\ UNCHANGED <<page, link, toPage, toServer, run, server, count, dropped>>
    BY <1>0, <1>2 DEF Prints, Process
  <2>2. r \in Runs /\ run[r].stage = "running"
    BY <1>1, <2>1
  <2> HIDE DEF r
  <2>3. m \in Error..Idle /\ m \in 0..MaxPrinted
    BY <1>0, <2>1, <2>2
  <2>4. kernel'.printed[r] = m /\ \A q \in Runs \ {r} : kernel'.printed[q] = kernel.printed[q]
    BY <1>0, <2>1, <2>2 DEF Process
  <2>5. m = kernel.printed[r] + 1
    OBVIOUS
  <2> HIDE DEF m
  <2> QED BY <2>1, <2>2, <2>3, <2>4, <2>5, KernelSends
<1>3. ASSUME NEW r \in Runs, PrintsLate(r) PROVE Displays'
  <2> DEFINE m == kernel.printed[r] + 1
  <2>1. /\ kernel.printed[r] < MaxPrinted
        /\ kernel' = [kernel EXCEPT !.printed[r] = m, !.late[r] = @ + 1]
        /\ channel' = Published(r, m)
        /\ UNCHANGED <<page, link, toPage, toServer, run, server, count, dropped>>
        /\ run[r].stage = "running"
    BY <1>0, <1>3 DEF PrintsLate, Process
  <2>3. m \in Error..Idle /\ m \in 0..MaxPrinted
    BY <1>0, <2>1
  <2>4. kernel'.printed[r] = m /\ \A q \in Runs \ {r} : kernel'.printed[q] = kernel.printed[q]
    BY <1>0, <2>1 DEF Process
  <2>5. m = kernel.printed[r] + 1
    OBVIOUS
  <2> HIDE DEF m
  <2> QED BY <2>1, <2>3, <2>4, <2>5, KernelSends
<1>4. CASE Raises
  <2> DEFINE r == Head(kernel.queue)
  <2>1. /\ kernel.queue # <<>> /\ kernel.printed[r] < MaxPrinted
        /\ kernel' = [kernel EXCEPT !.printed[r] = MaxPrinted]
        /\ channel' = Published(r, Error)
        /\ UNCHANGED <<page, link, toPage, toServer, run, server, count, dropped>>
    BY <1>4 DEF Raises
  <2>2. r \in Runs /\ run[r].stage = "running"
    BY <1>1, <2>1
  <2> HIDE DEF r
  <2>3. Error \in Error..Idle /\ MaxPrinted \in 0..MaxPrinted
    BY <1>0
  <2>4. kernel'.printed[r] = MaxPrinted /\ \A q \in Runs \ {r} : kernel'.printed[q] = kernel.printed[q]
    BY <1>0, <2>1, <2>2 DEF Process
  <2> QED BY <2>1, <2>2, <2>3, <2>4, KernelSends
<1>5. CASE Finishes
  <2> DEFINE r == Head(kernel.queue)
  <2>1. /\ kernel.queue # <<>>
        /\ kernel'.printed = kernel.printed
        /\ channel' = Published(r, Idle)
        /\ UNCHANGED <<page, link, toPage, toServer, run, server, count, dropped>>
    BY <1>0, <1>5 DEF Finishes, Process
  <2>2. r \in Runs /\ run[r].stage = "running"
    BY <1>1, <2>1
  <2> HIDE DEF r
  <2>3. Idle \in Error..Idle
    BY <1>0
  <2>4. kernel'.printed[r] = kernel.printed[r] /\ \A q \in Runs \ {r} : kernel'.printed[q] = kernel.printed[q]
    BY <1>0, <2>1, <2>2 DEF Process
  <2>5. kernel'.printed[r] \in 0..MaxPrinted
    BY <1>0, <2>2, <2>4
  <2> QED BY <2>1, <2>2, <2>3, <2>4, <2>5, KernelSends
<1>6. CASE Hears
  <2>1. /\ UNCHANGED <<page, link, toPage, toServer, run, server, channel, dropped>>
        /\ kernel'.printed = kernel.printed
    BY <1>0, <1>6 DEF Hears, Process
  <2>2. Served /\ Says(Dead) /\ Dead \in Message /\ Dead.type \notin {"output", "sync"} /\ Dead.type # "result"
    BY <2>1, MessageType DEF Served, Says, Dead
  <2>3. Onward(server.buffer, server'.buffer, run, run')
    BY <2>1 DEF Onward, Moves, Shrinks
  <2>4. Fresh' \subseteq Fresh /\ Neat'
    BY <2>1 DEF Fresh, Still, Displays, Neat
  <2> QED BY <2>2, <2>3, <2>4, SessionTells
<1> QED BY <1>2, <1>3, <1>4, <1>5, <1>6

-----------------------------------------------------------------------------
(* Restarts, deaths, and executions that begin or end *)

\* What is on the way to a page after a broadcast
LEMMA BroadcastIs ==
    ASSUME TypeOK, NEW p \in Pages, NEW o \in Message, NEW m \in Message
    PROVE  /\ Broadcast(<<>>, <<m>>)[p] = IF link[p] THEN Append(toPage[p], m) ELSE toPage[p]
           /\ Broadcast(<<o>>, <<>>)[p] =
                IF link[p] /\ p \in server.subscribed THEN Append(toPage[p], o) ELSE toPage[p]
           /\ Broadcast(<<o>>, <<m>>)[p] =
                IF link[p] THEN IF p \in server.subscribed THEN Append(Append(toPage[p], o), m)
                                ELSE Append(toPage[p], m)
                ELSE toPage[p]
<1> DEFINE s == toPage[p]
<1>1. s \in Seq(Message)
  BY StateRead
<1> HIDE DEF s
<1>2. /\ s \o <<>> = s /\ s \o <<m>> = Append(s, m) /\ s \o <<o>> = Append(s, o)
      /\ Append(s, o) \o <<m>> = Append(Append(s, o), m) /\ Append(s, o) \o <<>> = Append(s, o)
  BY <1>1
<1>3. Broadcast(<<>>, <<m>>)[p] = IF link[p] THEN Append(s, m) ELSE s
  BY <1>2 DEF Broadcast, s
<1>4. Broadcast(<<o>>, <<>>)[p] = IF link[p] /\ p \in server.subscribed THEN Append(s, o) ELSE s
  BY <1>2 DEF Broadcast, s
<1>5. Broadcast(<<o>>, <<m>>)[p] =
        IF link[p] THEN IF p \in server.subscribed THEN Append(Append(s, o), m) ELSE Append(s, m) ELSE s
  BY <1>2 DEF Broadcast, s
<1> QED BY <1>3, <1>4, <1>5 DEF s

\* A restart or a death empties the buffers and cuts what runs.
LEMMA CutDisplays ==
    ASSUME TypeOK, IInv, Displays, Restarts
    PROVE  Displays'
<1>0. kernel \in Process /\ RunsFit /\ Dead \in Message
  BY TypeParts, MessageType DEF KernelFits
<1>1. /\ UNCHANGED <<page, link, toServer, dropped>> /\ server'.subscribed = server.subscribed
      /\ UNCHANGED toPage \/ toPage' = Broadcast(<<>>, <<Dead>>)
      /\ UNCHANGED <<run, channel, kernel>> \/ Closed
      /\ server'.buffer \in {server.buffer, NoOutputs}
  BY RestartsKeep DEF IInv
<1>2. Shrinks(server.buffer, server'.buffer)
  BY <1>1 DEF Shrinks, NoOutputs
<1>3. Says(Dead)
  BY <1>0, <1>1, BroadcastIs DEF Says
<1>4. /\ Onward(server.buffer, server'.buffer, run, run') /\ Fresh' \subseteq Fresh /\ Neat'
      /\ \A r \in Runs : run[r].stage = "asked" => run'[r].stage = "asked"
  <2>1. CASE UNCHANGED <<run, channel, kernel>>
    <3>1. Onward(server.buffer, server'.buffer, run, run')
      BY <1>2, <2>1 DEF Onward, Moves
    <3>2. Fresh' \subseteq Fresh
      BY <2>1 DEF Fresh, Still
    <3>3. Neat'
      BY <2>1 DEF Displays, Neat
    <3> QED BY <2>1, <3>1, <3>2, <3>3
  <2>2. CASE Closed
    <3>1. \A r \in Runs : IF run[r].stage = "running"
                          THEN run'[r].stage = "cut" /\ run'[r].by = run[r].by /\ run'[r].cell = run[r].cell
                          ELSE run'[r] = run[r]
      BY <1>0, <2>2 DEF Closed, RunsFit, Request
    <3>2. Onward(server.buffer, server'.buffer, run, run')
      BY <3>1, <1>2 DEF Moves, Begun, Onward
    <3>3. Fresh' \subseteq Fresh
      <4>1. kernel'.printed = kernel.printed
        BY <1>0, <2>2 DEF Closed, Process
      <4>2. \A r \in Runs : channel'[r] = <<>>
        BY <2>2 DEF Closed
      <4>3. \A r \in Runs : \A k \in 0..Cut : Still(r, k)' => Still(r, k)
        BY <4>1, <4>2, InjectiveEmpty DEF Still
      <4>4. \A r \in Runs : run[r].stage \in Done => run'[r].stage \in Done
        BY <3>1 DEF Done
      <4> QED BY <4>3, <4>4, FreshLess
    <3>4. Neat'
      BY <3>1 DEF Neat
    <3> QED BY <3>1, <3>2, <3>3, <3>4
  <2> QED BY <1>1, <2>1, <2>2
<1>5. Served
  BY <1>1, <1>4 DEF Served
<1>6. Dead.type \notin {"output", "sync"} /\ Dead.type # "result"
  BY DEF Dead
<1> QED BY <1>0, <1>3, <1>4, <1>5, <1>6, SessionTells

\* An agent's run is new in the session.
LEMMA AgentDisplays ==
    ASSUME TypeOK, IInv, Displays, NEW c \in Cells, AgentRun(c)
    PROVE  Displays'
<1> DEFINE r == count.runs + 1
<1>1. /\ NewRun(Agent, c, "queued", Predecessor) /\ server' = [server EXCEPT !.tail = r]
      /\ UNCHANGED <<page, link, toPage, toServer, channel, kernel, dropped>>
  BY DEF AgentRun
<1>2. server \in Session /\ Requests
  BY TypeParts DEF ServerFits, IInv
<1>3. /\ r \in Runs /\ run[r].stage = "none" /\ run'[r].stage = "queued"
      /\ \A s \in Runs \ {r} : run'[s] = run[s]
  BY <1>1, <1>2, NewAside
<1> HIDE DEF r
<1>4. server'.buffer = server.buffer /\ server'.subscribed = server.subscribed
  BY <1>1, <1>2 DEF Session
<1>5. Served
  BY <1>1, <1>3, <1>4 DEF Served
<1>6. Onward(server.buffer, server'.buffer, run, run')
  BY <1>3, <1>4 DEF Moves, Begun, Onward, Shrinks
<1>7. Fresh' \subseteq Fresh
  BY <1>1, <1>3, FreshLess DEF Still, Done
<1>8. Neat'
  BY <1>3, <1>1 DEF Displays, Neat
<1>9. Says(Dead) /\ Dead \in Message /\ Dead.type \notin {"output", "sync"} /\ Dead.type # "result"
  BY <1>1, MessageType DEF Says, Dead
<1> QED BY <1>5, <1>6, <1>7, <1>8, <1>9, SessionTells

\* The buffers when the turn of run r comes
Cleared(r) == IF run[r].cell = NoCell THEN server ELSE [server EXCEPT !.buffer[run[r].cell] = <<>>]

\* They are as before, but that of the run's cell is empty.
LEMMA ClearedIs ==
    ASSUME TypeOK, NEW r \in Runs
    PROVE  /\ Cleared(r) \in Session /\ Cleared(r).buffer \in Buffers
           /\ Shrinks(server.buffer, Cleared(r).buffer)
           /\ run[r].cell \notin Cells \/ Cleared(r).buffer[run[r].cell] = <<>>
           /\ Cleared(r).subscribed = server.subscribed /\ Cleared(r).tail = server.tail
           /\ Cleared(r).connected = server.connected /\ Cleared(r).status = server.status
<1>1. server \in Session /\ server.buffer \in [Cells -> Seq(Outputs)] /\ run[r].cell \in Cells \cup {NoCell}
  BY StateRead, TypeParts DEF Session, RunsFit, Request
<1>2. CASE run[r].cell = NoCell
  BY <1>2, ValueAssumption, <1>1, StateRead DEF Cleared, Shrinks
<1>3. CASE run[r].cell \in Cells
  <2> DEFINE b == [server.buffer EXCEPT ![run[r].cell] = <<>>]
  <2>1. Cleared(r) = [server EXCEPT !.buffer = b]
    BY <1>1, <1>3, ValueAssumption DEF Cleared, Session
  <2>2. b \in [Cells -> Seq(Outputs)] /\ b[run[r].cell] = <<>> /\ \A c \in Cells : b[c] = server.buffer[c] \/ b[c] = <<>>
    BY <1>1, <1>3
  <2> HIDE DEF b
  <2> QED BY <1>1, <1>3, <2>1, <2>2 DEF Session, Buffers, Shrinks
<1> QED BY <1>1, <1>2, <1>3

\* The next execution begins.
LEMMA BeginDisplays ==
    ASSUME TypeOK, IInv, Displays, NEW r \in Runs, Begin(r), server.connected
    PROVE  Displays'
<1>1. /\ run[r].stage = "queued" /\ server' = [Cleared(r) EXCEPT !.status = "busy"]
      /\ run' = [run EXCEPT ![r].stage = "running", ![r].after = 0]
      /\ kernel' = [kernel EXCEPT !.queue = Append(@, r)]
      /\ UNCHANGED <<page, link, toPage, toServer, channel, count, dropped>>
  BY DEF Begin, CanBegin, Cleared
<1>2. /\ Cleared(r) \in Session /\ Shrinks(server.buffer, Cleared(r).buffer)
      /\ run[r].cell \notin Cells \/ Cleared(r).buffer[run[r].cell] = <<>>
      /\ Cleared(r).subscribed = server.subscribed
  BY ClearedIs
<1>3. server'.buffer = Cleared(r).buffer /\ server'.subscribed = server.subscribed
  BY <1>1, <1>2 DEF Session
<1>4. RunsFit /\ kernel \in Process
  BY TypeParts DEF KernelFits
<1>5. /\ run'[r].stage = "running" /\ run'[r].by = run[r].by /\ run'[r].cell = run[r].cell
      /\ \A s \in Runs \ {r} : run'[s] = run[s]
  BY <1>1, <1>4 DEF RunsFit, Request
<1>6. kernel'.printed = kernel.printed
  BY <1>1, <1>4 DEF Process
<1>7. Onward(server.buffer, server'.buffer, run, run')
  BY <1>1, <1>5, <1>2, <1>3 DEF Moves, Begun, Onward
<1>8. Fresh' \subseteq Fresh
  BY <1>1, <1>6, <1>5, FreshLess DEF Still, Done
<1>9. Neat'
  <2>1. channel'[r] = <<>>
    BY <1>1 DEF IInv, InTurn, AtKernel
  <2>2. Len(<<>>) = 0 /\ 1..0 = {}
    OBVIOUS
  <2> SUFFICES ASSUME NEW q \in Runs, run'[q].stage = "running"
               PROVE  /\ Lone(channel'[q])
                      /\ \A i \in 1..Len(channel'[q]) :
                           /\ channel'[q][i] \in 1..MaxPrinted => channel'[q][i] <= kernel'.printed[q]
                           /\ channel'[q][i] = Error => kernel'.printed[q] = MaxPrinted
    BY DEF Neat, Lone
  <2>3. CASE q = r
    BY <2>1, <2>2, <2>3 DEF Lone
  <2>4. CASE q # r
    BY <1>1, <1>5, <1>6, <2>4 DEF Displays, Neat
  <2> QED BY <2>3, <2>4
<1>10. Served
  BY <1>1, <1>3, <1>5 DEF Served
<1>11. Says(Dead) /\ Dead \in Message /\ Dead.type \notin {"output", "sync"} /\ Dead.type # "result"
  BY <1>1, MessageType DEF Says, Dead
<1> QED BY <1>7, <1>8, <1>9, <1>10, <1>11, SessionTells

\* What two sequences have in a row
LEMMA ConcatRead ==
    ASSUME NEW s \in Seq(RunOrNone), NEW t \in Seq(RunOrNone)
    PROVE  /\ s \o t \in Seq(RunOrNone) /\ Len(s) \in Nat /\ Len(t) \in Nat /\ Len(s \o t) = Len(s) + Len(t)
           /\ \A i \in 1..(Len(s) + Len(t)) : (s \o t)[i] = IF i <= Len(s) THEN s[i] ELSE t[i - Len(s)]
  BY ConcatProperties

\* Every result is in a message.
LEMMA ResultsIn ==
    ASSUME NEW s \in Seq(Message)
    PROVE  /\ Results(s) \in Seq(RunOrNone)
           /\ \A a \in 1..Len(Results(s)) : Has(s, ResultOf(Results(s)[a]))
<1> DEFINE Fits(t) == /\ Results(t) \in Seq(RunOrNone)
                      /\ \A a \in 1..Len(Results(t)) : Has(t, ResultOf(Results(t)[a]))
           S == {n \in Nat : \A t \in Seq(Message) : Len(t) = n => Fits(t)}
<1>1. 0 \in S
  BY ResultsEmpty
<1>2. ASSUME NEW n \in Nat, n \in S PROVE n + 1 \in S
  <2> SUFFICES ASSUME NEW t \in Seq(Message), Len(t) = n + 1 PROVE Fits(t)
    OBVIOUS
  <2> DEFINE u == Tail(t)
             x == Head(t)
  <2>1. t # <<>> /\ u \in Seq(Message) /\ Len(u) = n /\ x \in Message
    OBVIOUS
  <2>2. Fits(u)
    BY <1>2, <2>1
  <2>3. Results(t) = (IF x.type = "result" THEN <<x.run>> ELSE <<>>) \o Results(u)
    BY <2>1, ResultsTail
  <2>4. \A m : Has(u, m) => Has(t, m)
    BY <2>1, HasTail
  <2>5. Has(t, x)
    BY <2>1, HasTail
  <2> HIDE DEF u, x
  <2>6. CASE x.type = "result"
    <3>1. x.run \in RunOrNone /\ x = ResultOf(x.run)
      BY <2>1, <2>6 DEF Message, ResultOf, RunOrNone
    <3>2. Results(u) \in Seq(RunOrNone) /\ <<x.run>> \in Seq(RunOrNone) /\ Len(<<x.run>>) = 1 /\ <<x.run>>[1] = x.run
      BY <2>2, <3>1
    <3>3. Results(t) = <<x.run>> \o Results(u)
      BY <2>3, <2>6
    <3>4. /\ Results(t) \in Seq(RunOrNone) /\ Len(Results(t)) = 1 + Len(Results(u)) /\ Len(Results(u)) \in Nat
          /\ \A i \in 1..(1 + Len(Results(u))) : Results(t)[i] = IF i <= 1 THEN <<x.run>>[i] ELSE Results(u)[i - 1]
      BY <3>2, <3>3, ConcatRead
    <3>5. ASSUME NEW a \in 1..Len(Results(t)) PROVE Has(t, ResultOf(Results(t)[a]))
      <4>1. CASE a = 1
        BY <2>5, <3>1, <3>2, <3>4, <4>1
      <4>2. CASE a # 1
        <5>1. a - 1 \in 1..Len(Results(u)) /\ Results(t)[a] = Results(u)[a - 1]
          BY <3>4, <4>2
        <5>2. Has(u, ResultOf(Results(u)[a - 1]))
          BY <2>2, <5>1
        <5> QED BY <2>4, <5>1, <5>2
      <4> QED BY <4>1, <4>2
    <3> QED BY <3>4, <3>5
  <2>7. CASE x.type # "result"
    BY <2>2, <2>3, <2>7, <2>4
  <2> QED BY <2>6, <2>7
<1>3. Nat \subseteq S
  <2> HIDE DEF S
  <2> QED BY <1>1, <1>2, Induction
<1>4. Len(s) \in Nat
  OBVIOUS
<1> QED BY <1>3, <1>4

\* It is the turn of the first of a page's handlers that has no result on its way.
LEMMA TurnIs ==
    ASSUME TypeOK, IInv, NEW p \in Pages, Steady(p), Alone(p),
           NEW r \in Runs, run[r].stage \in {"running", "cut"} \/ CanBegin(r),
           NEW Q, \A q \in Runs \ {r} : Q[q] = run[q]
    PROVE  Turn(toPage[p], page[p].handlers, r, Q)
<1> DEFINE h == page[p].handlers
           e == Results(toPage[p])
<1>0. run[r].stage \in {"running", "cut", "queued"}
  BY DEF CanBegin
<1>1. PICK q, c \in Seq(Runs) : Split(p, q, c)
  BY DEF Steady, Ordered
<1>2. /\ Chain(q) /\ toServer[p] \in {c, << 0 >> \o c} /\ h = e \o (q \o c)
  BY <1>1 DEF Split
<1>3. q # <<>> /\ q[1] = r
  BY <1>2, ChainHead
<1>4. toPage[p] \in Seq(Message) /\ h \in Seq(Runs) /\ \A i \in 1..Len(h) : h[i] \in Runs
  BY StateRead
<1>5. e \in Seq(RunOrNone) /\ \A a \in 1..Len(e) : Has(toPage[p], ResultOf(e[a]))
  BY <1>4, ResultsIn
<1> DEFINE qc == q \o c
<1>6. q \in Seq(RunOrNone) /\ c \in Seq(RunOrNone)
  BY RunsAre
<1>7. /\ qc \in Seq(RunOrNone) /\ Len(q) \in Nat /\ Len(c) \in Nat /\ Len(qc) = Len(q) + Len(c)
      /\ \A i \in 1..(Len(q) + Len(c)) : qc[i] = IF i <= Len(q) THEN q[i] ELSE c[i - Len(q)]
  BY <1>6, ConcatRead
<1> HIDE DEF h, e, qc
<1>8. /\ Len(e) \in Nat /\ Len(h) = Len(e) + Len(qc)
      /\ \A i \in 1..(Len(e) + Len(qc)) : h[i] = IF i <= Len(e) THEN e[i] ELSE qc[i - Len(e)]
  <2>1. h = e \o qc
    BY <1>2 DEF qc
  <2> QED BY <1>5, <1>7, <2>1, ConcatRead
<1> DEFINE b == Len(e) + 1
<1>9. 1 \in 1..Len(q)
  BY <1>3, <1>6
<1>10. b \in 1..Len(h) /\ h[b] = r
  <2>1. qc[1] = r
    BY <1>3, <1>7, <1>9
  <2>2. b \in 1..(Len(e) + Len(qc)) /\ ~(b <= Len(e)) /\ b - Len(e) = 1
    BY <1>7, <1>8, <1>9
  <2> QED BY <1>8, <2>1, <2>2
<1>11. ASSUME NEW a \in 1..(b - 1) PROVE \E j \in 1..Len(toPage[p]) : toPage[p][j] = ResultOf(h[a])
  BY <1>7, <1>8, <1>5 DEF Has
<1>12. \A i \in 2..Len(q) : run[q[i]].stage = "queued" /\ q[i] # r
  BY <1>7, <1>2, <1>3, <1>9 DEF Chain
<1>13. \A i \in 1..Len(c) : run[c[i]].stage = "asked"
  <2> SUFFICES ASSUME NEW i \in 1..Len(c) PROVE run[c[i]].stage = "asked"
    OBVIOUS
  <2>1. c[i] \in Runs /\ c[i] # 0
    BY Numbers
  <2>2. PICK j \in 1..Len(toServer[p]) : toServer[p][j] = c[i]
    <3>1. CASE toServer[p] = c
      BY <3>1
    <3>2. CASE toServer[p] = << 0 >> \o c
      <4>1. << 0 >> \in Seq(RunOrNone) /\ Len(<< 0 >>) = 1
        BY RunsAre
      <4>2. /\ Len(toServer[p]) = 1 + Len(c)
            /\ \A k \in 1..(1 + Len(c)) : toServer[p][k] = IF k <= 1 THEN << 0 >>[k] ELSE c[k - 1]
        BY <1>6, <3>2, <4>1, ConcatRead
      <4>3. i + 1 \in 1..(1 + Len(c)) /\ ~(i + 1 <= 1) /\ (i + 1) - 1 = i
        BY <1>7
      <4> QED BY <4>2, <4>3
    <3> QED BY <1>2, <3>1, <3>2
  <2> QED BY <2>1, <2>2, SentOwn
<1>14. ASSUME NEW a \in 1..Len(h), Q[h[a]].stage \in Begun PROVE a <= b
  <2> SUFFICES ASSUME ~(a <= b) PROVE FALSE
    OBVIOUS
  <2>1. /\ a \in 1..(Len(e) + Len(qc)) /\ ~(a <= Len(e)) /\ a - Len(e) \in 2..(Len(q) + Len(c))
        /\ a - Len(e) \in 1..(Len(q) + Len(c))
    BY <1>7, <1>8
  <2>2. h[a] = qc[a - Len(e)]
    BY <1>8, <2>1
  <2> DEFINE k == a - Len(e)
  <2>3. k \in 2..(Len(q) + Len(c)) /\ k \in 1..(Len(q) + Len(c)) /\ h[a] = qc[k]
    BY <2>1, <2>2
  <2> HIDE DEF k, b
  <2>4. h[a] # r /\ run[h[a]].stage \in {"queued", "asked"}
    <3>1. CASE k <= Len(q)
      BY <1>7, <2>3, <3>1, <1>12
    <3>2. CASE ~(k <= Len(q))
      <4>1. k - Len(q) \in 1..Len(c) /\ h[a] = c[k - Len(q)]
        BY <1>7, <2>3, <3>2
      <4>2. run[h[a]].stage = "asked"
        BY <1>13, <4>1
      <4> QED BY <1>0, <4>2
    <3> QED BY <3>1, <3>2
  <2>5. Q[h[a]] = run[h[a]]
    BY <1>4, <2>4 DEF h
  <2> QED BY <1>14, <2>4, <2>5 DEF Begun
<1>15. Turn(toPage[p], h, r, Q)
  <2> HIDE DEF b
  <2> QED BY <1>10, <1>11, <1>14 DEF Turn
<1> QED BY <1>15 DEF h

-----------------------------------------------------------------------------
(* The outputs of an execution *)

\* The output o of run r, whose turn it is, is added to the buffers B.
Brings(r, o, B) ==
    /\ run[r].stage \in {"running", "cut"} \/ CanBegin(r)
    /\ o[1] = r /\ o \in Fresh /\ o \notin Fresh' /\ Fresh' \subseteq Fresh
    /\ Onward(server.buffer, B, run, run') /\ BufferedAs(B, server'.buffer, run[r].cell, o)
    /\ run'[r].by = run[r].by /\ run'[r].cell = run[r].cell /\ run'[r].stage \in Begun
    /\ \A s \in Runs \ {r} : run'[s] = run[s]

\* What is on the way to page p with it
With(p, r, o) == IF p \in server.subscribed /\ run[r].by # Agent
                 THEN Append(toPage[p], OutputOf(run[r].cell, o)) ELSE toPage[p]

\* A page that makes all the runs gets the outputs.
LEMMA SoleListens ==
    ASSUME TypeOK, TypeOK', IInv, Displays, Served, NEW p \in Pages, p \in dropped \/ Steady(p),
           NEW r \in Runs, NEW o, NEW B, Brings(r, o, B), Sole(p)'
    PROVE  /\ p \in server.subscribed /\ run[r].by # Agent
           /\ Turn(toPage[p], page[p].handlers, r, run')
<1>1. Sole(p) /\ Steady(p) /\ Alone(p) /\ p \notin dropped
  BY Narrower DEF Brings, Onward, Served, Sole
<1>2. run[r].stage \in {"running", "cut", "queued"}
  BY DEF Brings, CanBegin
<1>3. Turn(toPage[p], page[p].handlers, r, run')
  BY <1>1, TurnIs DEF Brings
<1>4. PICK b \in 1..Len(page[p].handlers) : page[p].handlers[b] = r
  BY <1>3 DEF Turn
<1>5. p \in server.subscribed
  BY <1>1, <1>2, <1>4 DEF Displays, Pending, Asking
<1>6. run[r].by # Agent
  BY <1>1, <1>4, ValueAssumption DEF Steady, Owned
<1> QED BY <1>3, <1>5, <1>6

\* What a page is told of an output
LEMMA EmitFine ==
    ASSUME TypeOK, TypeOK', IInv, Displays, Served, NEW p \in Pages, p \in dropped \/ Steady(p),
           NEW r \in Runs, NEW o \in Outputs, NEW B \in Buffers, Brings(r, o, B)
    PROVE  /\ With(p, r, o) \in Seq(Message)
           /\ Fine(With(p, r, o), page'[p], server'.buffer, run', Fresh', p \in server'.subscribed,
                   Sole(p)', Fit(p)')
<1> DEFINE sub == p \in server.subscribed
           alone == Sole(p)
           fit == Fit(p)
           alone2 == Sole(p)'
           fit2 == Fit(p)'
           s == toPage[p]
           c == run[r].cell
<1>1. /\ s \in Seq(Message) /\ page[p] \in Page /\ server.buffer \in Buffers /\ run \in Records
      /\ Stored(server.buffer, run, Fresh) /\ Pending(p)
  BY StateRead DEF Displays
<1>2. c \in Cells \cup {NoCell}
  BY TypeParts DEF RunsFit, Request
<1>3. Fine(s, page[p], server.buffer, run, Fresh, sub, alone, fit)
  BY <1>1 DEF Pending, FineAt
<1>4. (alone2 => alone) /\ (fit2 => fit)
  BY Narrower DEF Brings, Onward, Served
<1>5. page' = page /\ server'.subscribed = server.subscribed
  BY DEF Served
<1>6. /\ Onward(server.buffer, B, run, run') /\ Fresh' \subseteq Fresh /\ o \in Fresh /\ o \notin Fresh'
      /\ BufferedAs(B, server'.buffer, c, o) /\ o[1] = r
      /\ run'[o[1]].cell = c /\ run'[o[1]].by = run[r].by /\ run'[o[1]].stage \in Begun
  BY DEF Brings
<1>7. alone2 => sub /\ run[r].by # Agent /\ Turn(s, page[p].handlers, o[1], run')
  BY <1>6, SoleListens
<1>8. \A j \in 1..Len(s) : s[j].type = "result" => s[j].run # o[1]
  <2>1. run[r].stage # "ended"
    BY DEF Brings, CanBegin
  <2> QED BY <1>3, <1>6, <2>1 DEF Fine, Line
<1>9. OutputOf(c, o) \in Message
  BY <1>2, MessageType
<1>10. With(p, r, o) = IF sub /\ run[r].by # Agent THEN Append(s, OutputOf(c, o)) ELSE s
  BY DEF With
<1> HIDE DEF sub, alone, fit, alone2, fit2, s, c
<1>11. Fine(s, page[p], B, run', Fresh, sub, alone2, fit2)
  <2>1. /\ page'[p].shown = page[p].shown /\ page'[p].got = page[p].got
        /\ page'[p].handlers = page[p].handlers
    BY <1>5
  <2>2. Fine(s, page'[p], B, run', Fresh, sub, alone2, fit2)
    BY <1>1, <1>3, <1>4, <1>6, <2>1, FineKept
  <2> QED BY <1>5, <2>2
<1>12. CASE sub /\ run[r].by # Agent
  <2>1. Fine(Append(s, OutputOf(c, o)), page[p], server'.buffer, run', Fresh', sub, alone2, fit2)
    BY <1>1, <1>2, <1>6, <1>7, <1>8, <1>11, FineOutput
  <2>2. Append(s, OutputOf(c, o)) \in Seq(Message)
    BY <1>1, <1>9
  <2> QED BY <1>5, <1>10, <1>12, <2>1, <2>2 DEF sub, alone2, fit2
<1>13. CASE ~(sub /\ run[r].by # Agent)
  <2>1. (sub => run'[o[1]].by = Agent) /\ ~alone2
    BY <1>6, <1>7, <1>13
  <2>2. Fine(s, page[p], server'.buffer, run', Fresh', sub, alone2, fit2)
    BY <1>1, <1>2, <1>6, <1>11, <2>1, FineUntold
  <2> QED BY <1>1, <1>5, <1>10, <1>13, <2>2 DEF sub, alone2, fit2
<1> QED BY <1>12, <1>13

\* What is buffered then
LEMMA EmitStored ==
    ASSUME TypeOK, TypeOK', Displays, NEW r \in Runs, NEW o \in Outputs, NEW B \in Buffers, Brings(r, o, B)
    PROVE  Stored(server'.buffer, run', Fresh')
<1>1. /\ run[r].cell \in Cells \cup {NoCell} /\ run \in Records /\ run' \in Records
      /\ server.buffer \in Buffers
  BY TypeParts, StateRead DEF TypeOK, RunsFit, Request, Records
<1>2. Stored(server.buffer, run, Fresh)
  BY DEF Displays
<1>3. /\ Onward(server.buffer, B, run, run') /\ Fresh' \subseteq Fresh /\ o \in Fresh /\ o \notin Fresh'
      /\ BufferedAs(B, server'.buffer, run[r].cell, o)
      /\ run'[o[1]].cell = run[r].cell /\ run'[o[1]].stage \in Begun
  BY DEF Brings
<1>4. Moves(run, run') /\ Shrinks(server.buffer, B)
  BY <1>3 DEF Onward
<1>5. CASE run[r].cell = NoCell
  BY <1>3, <1>5, <1>1, <1>2, <1>4, StoredKept DEF BufferedAs
<1>6. CASE run[r].cell \in Cells
  <2>1. Added(B, server'.buffer, run[r].cell, o)
    BY <1>3, <1>6, ValueAssumption DEF BufferedAs
  <2>2. Stored(B, run', Fresh)
    BY <1>1, <1>2, <1>4, StoredKept
  <2> QED BY <1>1, <1>3, <1>6, <2>1, <2>2, StoredAdds
<1> QED BY <1>1, <1>5, <1>6

\* The pages are told of the output of run r, and perhaps of m.
Emits(r, o, m) == \A p \in Pages : toPage'[p] = With(p, r, o) \/ toPage'[p] = Append(With(p, r, o), m)

\* A step that brings an output
LEMMA SessionEmits ==
    ASSUME TypeOK, TypeOK', IInv, Flows, Displays, Served, Neat', NEW r \in Runs, NEW o \in Outputs, NEW B \in Buffers,
           Brings(r, o, B), NEW m \in Message, Emits(r, o, m), m.type \notin {"output", "sync"},
           m.type = "result" => m.run \in Runs /\ run'[m.run].stage = "ended"
    PROVE  Displays'
<1>1. Stored(server'.buffer, run', Fresh')
  BY EmitStored
<1>2. ASSUME NEW p \in Pages PROVE Pending(p)'
  <2> DEFINE sub2 == p \in server'.subscribed
             alone2 == Sole(p)'
             fit2 == Fit(p)'
             t == With(p, r, o)
  <2>1. p \in dropped \/ Steady(p)
    BY DEF Flows
  <2>2. t \in Seq(Message) /\ Fine(t, page'[p], server'.buffer, run', Fresh', sub2, alone2, fit2)
    BY <2>1, EmitFine
  <2>3. page'[p] \in Page /\ toPage[p] \in Seq(Message)
    BY StateRead DEF TypeOK
  <2>4. toPage'[p] = t \/ toPage'[p] = Append(t, m)
    BY DEF Emits
  <2>5. p \notin server.subscribed => t = toPage[p]
    BY DEF With
  <2> HIDE DEF sub2, alone2, fit2, t
  <2>6. Fine(Append(t, m), page'[p], server'.buffer, run', Fresh', sub2, alone2, fit2)
    BY <2>2, <2>3, FineSent
  <2>7. FineAt(p)'
    BY <2>2, <2>4, <2>6 DEF FineAt, sub2, alone2, fit2
  <2>8. p \notin server.subscribed => \A i \in 1..Len(toPage'[p]) : toPage'[p][i].type # "sync"
    <3> SUFFICES ASSUME p \notin server.subscribed, NEW i \in 1..Len(toPage'[p]) PROVE toPage'[p][i].type # "sync"
      OBVIOUS
    <3>1. \A j \in 1..Len(t) : t[j].type # "sync"
      BY <2>5 DEF Displays, Pending, Listens
    <3>2. Len(t) \in Nat /\ Len(Append(t, m)) = Len(t) + 1 /\ Append(t, m)[Len(t) + 1] = m
          /\ \A j \in 1..Len(t) : Append(t, m)[j] = t[j]
      BY <2>2
    <3>3. CASE i \in 1..Len(t)
      BY <2>4, <3>1, <3>2, <3>3
    <3>4. CASE i = Len(t) + 1 /\ toPage'[p] = Append(t, m)
      BY <3>2, <3>4
    <3> QED BY <2>4, <3>2, <3>3, <3>4
  <2> QED BY <2>7, <2>8, SessionPending
<1> QED BY <1>1, <1>2 DEF Displays

\* An execution ends.
LEMMA EndGoes ==
    ASSUME TypeOK, Displays, NEW r \in Runs, run[r].stage \in {"running", "cut", "queued"}, Ended(r),
           \A s \in Runs \ {r} : channel'[s] = channel[s], NEW B, Shrinks(server.buffer, B),
           run[r].stage \in Begun \/ run[r].cell \notin Cells \/ B[run[r].cell] = <<>>
    PROVE  /\ run'[r].stage = "ended" /\ run'[r].by = run[r].by /\ run'[r].cell = run[r].cell
           /\ \A s \in Runs \ {r} : run'[s] = run[s]
           /\ Onward(server.buffer, B, run, run') /\ Fresh' \subseteq Fresh /\ Neat'
<1>1. RunsFit /\ kernel \in Process
  BY TypeParts DEF KernelFits
<1>2. /\ run'[r].stage = "ended" /\ run'[r].by = run[r].by /\ run'[r].cell = run[r].cell
      /\ \A s \in Runs \ {r} : run'[s] = run[s]
  BY <1>1 DEF Ended, RunsFit, Request
<1>3. \A s \in Runs \ {r} : kernel'.printed[s] = kernel.printed[s]
  BY <1>1 DEF Ended, Process
<1>4. Onward(server.buffer, B, run, run')
  BY <1>2 DEF Moves, Begun, Onward
<1>5. Fresh' \subseteq Fresh
  <2>1. \A q \in Runs : run'[q].stage \notin Done => \A k \in 0..Cut : Still(q, k)' => Still(q, k)
    <3> SUFFICES ASSUME NEW q \in Runs, run'[q].stage \notin Done, NEW k \in 0..Cut, Still(q, k)'
                 PROVE  Still(q, k)
      OBVIOUS
    <3>1. q # r
      BY <1>2 DEF Done
    <3> QED BY <1>3, <3>1 DEF Still
  <2>2. \A q \in Runs : run[q].stage \in Done => run'[q].stage \in Done
    BY <1>2 DEF Done
  <2> QED BY <2>1, <2>2, FreshLess
<1>6. Neat'
  <2> SUFFICES ASSUME NEW q \in Runs, run'[q].stage = "running"
               PROVE  /\ Lone(channel'[q])
                      /\ \A i \in 1..Len(channel'[q]) :
                           /\ channel'[q][i] \in 1..MaxPrinted => channel'[q][i] <= kernel'.printed[q]
                           /\ channel'[q][i] = Error => kernel'.printed[q] = MaxPrinted
    BY DEF Neat, Lone
  <2>1. q # r
    BY <1>2
  <2>2. run[q].stage = "running" /\ channel'[q] = channel[q] /\ kernel'.printed[q] = kernel.printed[q]
    BY <1>2, <1>3, <2>1
  <2> QED BY <2>2 DEF Displays, Neat
<1> QED BY <1>2, <1>4, <1>5, <1>6

\* An execution fails, with buffers from which at most that of its cell was cleared.
LEMMA FailedDisplays ==
    ASSUME TypeOK, TypeOK', IInv, Flows, Displays, NEW r \in Runs, run[r].stage = "cut" \/ CanBegin(r),
           NEW sv \in Session, sv.buffer \in Buffers, Shrinks(server.buffer, sv.buffer),
           sv.subscribed = server.subscribed, Failed(r, sv),
           run[r].stage = "cut" \/ run[r].cell \notin Cells \/ sv.buffer[run[r].cell] = <<>>,
           UNCHANGED <<page, link, toServer, channel, count, dropped>>
    PROVE  Displays'
<1> DEFINE o == <<r, Cut>>
           B == sv.buffer
           m == ResultOf(r)
           c == run[r].cell
<1>1. /\ o \in Outputs /\ o[1] = r /\ o[2] = Cut /\ m \in Message /\ m.type = "result" /\ m.run = r
      /\ c \in Cells \cup {NoCell}
  BY TypeParts, Numbers, MessageType DEF RunsFit, Request, Outputs, ResultOf
<1>2. run[r].stage \in {"cut", "queued"}
  BY DEF CanBegin
<1>3. /\ run'[r].stage = "ended" /\ run'[r].by = run[r].by /\ run'[r].cell = run[r].cell
      /\ \A s \in Runs \ {r} : run'[s] = run[s]
      /\ Onward(server.buffer, B, run, run') /\ Fresh' \subseteq Fresh /\ Neat'
  BY <1>2, EndGoes DEF Failed, Begun
<1>4. server'.buffer = Buffered(B, c, o) /\ server'.subscribed = server.subscribed
  <2> DEFINE un == Unchained(r, sv)
  <2>1. server' = [un EXCEPT !.buffer = Buffered(un.buffer, c, o)]
    BY DEF Failed
  <2>2. un \in Session /\ un.buffer = B /\ un.subscribed = server.subscribed
    BY UnchainedType DEF Unchained, Session
  <2> HIDE DEF un
  <2> QED BY <2>1, <2>2 DEF Session
<1>5. Brings(r, o, B)
  <2>1. BufferedAs(B, server'.buffer, c, o)
    BY <1>4 DEF BufferedAs, Buffered, Added
  <2>2. o \in Fresh /\ o \notin Fresh'
    BY <1>1, <1>2, <1>3 DEF Fresh, Still, Done
  <2>3. run[r].stage \in {"running", "cut"} \/ CanBegin(r)
    OBVIOUS
  <2>4. run'[r].stage \in Begun
    BY <1>3 DEF Begun
  <2> HIDE DEF o, B
  <2> QED BY <1>1, <1>3, <2>1, <2>2, <2>3, <2>4 DEF Brings
<1>6. Emits(r, o, m)
  <2>1. OutputOf(c, o) \in Message
    BY <1>1, MessageType
  <2>2. toPage' = Told(r, <<OutputOf(c, o)>>, <<m>>)
    BY DEF Failed
  <2> SUFFICES ASSUME NEW p \in Pages
               PROVE  toPage'[p] = With(p, r, o) \/ toPage'[p] = Append(With(p, r, o), m)
    BY DEF Emits
  <2>3. p \in server.subscribed => link[p]
    BY DEF Displays, Pending, Listens
  <2>4. With(p, r, o) = IF p \in server.subscribed /\ run[r].by # Agent THEN Append(toPage[p], OutputOf(c, o)) ELSE toPage[p]
    BY DEF With
  <2> HIDE DEF o, m, c
  <2>5. CASE run[r].by = Agent
    BY <2>2, <2>4, <2>5 DEF Told
  <2>6. CASE run[r].by # Agent
    <3>1. toPage'[p] = Broadcast(<<OutputOf(c, o)>>, <<m>>)[p]
      BY <2>2, <2>6 DEF Told
    <3>2. /\ m \in Message /\ link[p] => Broadcast(<<OutputOf(c, o)>>, <<m>>)[p] =
                 IF p \in server.subscribed THEN Append(Append(toPage[p], OutputOf(c, o)), m)
                 ELSE Append(toPage[p], m)
          /\ ~link[p] => Broadcast(<<OutputOf(c, o)>>, <<m>>)[p] = toPage[p]
      BY <1>1, <2>1, BroadcastIs
    <3> QED BY <1>1, <2>3, <2>4, <2>6, <3>1, <3>2
  <2> QED BY <2>5, <2>6
<1>7. Served
  BY <1>2, <1>3, <1>4 DEF Served
<1>8. m.type \notin {"output", "sync"} /\ (m.type = "result" => m.run \in Runs /\ run'[m.run].stage = "ended")
  BY <1>1, <1>3
<1> HIDE DEF o, m, B
<1>9. B \in Buffers
  BY DEF B
<1> QED BY <1>1, <1>3, <1>5, <1>6, <1>7, <1>8, <1>9, SessionEmits

\* An execution takes the end of its channel.
LEMMA EndDisplays ==
    ASSUME TypeOK, TypeOK', Displays, NEW r \in Runs, Take(r), Head(channel[r]) = Idle
    PROVE  Displays'
<1>1. /\ run[r].stage = "running" /\ channel' = [channel EXCEPT ![r] = Tail(@)]
      /\ server' = [Unchained(r, server) EXCEPT !.status = "idle"]
      /\ toPage' = Told(r, <<>>, <<ResultOf(r)>>) /\ Ended(r)
      /\ UNCHANGED <<page, link, toServer, count, dropped>>
  BY DEF Take
<1>2. server \in Session /\ ResultOf(r) \in Message /\ ChannelsFit
  BY TypeParts, MessageType DEF ServerFits
<1>3. server'.buffer = server.buffer /\ server'.subscribed = server.subscribed
  <2> DEFINE un == Unchained(r, server)
  <2>1. un \in Session /\ un.buffer = server.buffer /\ un.subscribed = server.subscribed
    BY <1>2, UnchainedType DEF Unchained, Session
  <2>2. server' = [un EXCEPT !.status = "idle"]
    BY <1>1
  <2> HIDE DEF un
  <2> QED BY <2>1, <2>2 DEF Session
<1>4. /\ run'[r].stage = "ended" /\ \A s \in Runs \ {r} : run'[s] = run[s]
      /\ Onward(server.buffer, server.buffer, run, run') /\ Fresh' \subseteq Fresh /\ Neat'
  BY <1>1, <1>2, EndGoes DEF Begun, ChannelsFit, Shrinks
<1>5. Says(ResultOf(r))
  <2> SUFFICES ASSUME NEW p \in Pages
               PROVE  toPage'[p] = toPage[p] \/ toPage'[p] = Append(toPage[p], ResultOf(r))
    BY DEF Says
  <2> QED BY <1>1, <1>2, BroadcastIs DEF Told
<1>6. Served
  BY <1>1, <1>4, <1>3 DEF Served
<1>7. ResultOf(r).type = "result" /\ ResultOf(r).run = r
  BY DEF ResultOf
<1>8. /\ ResultOf(r).type \notin {"output", "sync"}
      /\ ResultOf(r).type = "result" => ResultOf(r).run \in Runs /\ run'[ResultOf(r).run].stage = "ended"
  BY <1>4, <1>7
<1>9. Onward(server.buffer, server'.buffer, run, run')
  BY <1>3, <1>4
<1> QED BY <1>2, <1>4, <1>5, <1>6, <1>8, <1>9, SessionTells

\* An execution takes an output of its channel.
LEMMA TakenDisplays ==
    ASSUME TypeOK, TypeOK', IInv, Flows, Displays, NEW r \in Runs, Take(r), Head(channel[r]) # Idle
    PROVE  Displays'
<1>0. PICK k : k = Head(channel[r])
  OBVIOUS
<1> DEFINE o == <<r, k>>
           c == run[r].cell
           ch == channel[r]
<1>1. /\ run[r].stage = "running" /\ ch # <<>> /\ channel' = [channel EXCEPT ![r] = Tail(ch)]
      /\ server' = [server EXCEPT !.buffer = Buffered(server.buffer, c, o)]
      /\ toPage' = Told(r, <<OutputOf(c, o)>>, <<>>)
      /\ UNCHANGED <<run, kernel, page, link, toServer, count, dropped>>
  <2>1. server \in Session
    BY TypeParts DEF ServerFits
  <2> QED BY <1>0, <2>1 DEF Take, Session
<1>2. server \in Session /\ channel \in [Runs -> Seq(Error..Idle)] /\ c \in Cells \cup {NoCell}
  BY TypeParts DEF ServerFits, ChannelsFit, RunsFit, Request
<1>3. ch \in Seq(Error..Idle) /\ channel'[r] = Tail(ch) /\ \A s \in Runs \ {r} : channel'[s] = channel[s]
  BY <1>1, <1>2
<1>4. /\ Lone(ch)
      /\ \A i \in 1..Len(ch) : /\ ch[i] \in 1..MaxPrinted => ch[i] <= kernel.printed[r]
                               /\ ch[i] = Error => kernel.printed[r] = MaxPrinted
  BY <1>1 DEF Displays, Neat
<1>5. /\ Lone(Tail(ch)) /\ ~Has(Tail(ch), k) /\ Has(ch, k) /\ k \in Error..Idle
      /\ \A i \in 1..Len(Tail(ch)) : Has(ch, Tail(ch)[i])
  BY <1>0, <1>1, <1>3, <1>4, LoneTail
<1>6. o \in Outputs /\ o[1] = r /\ o[2] = k
  BY <1>5, Numbers DEF Outputs
<1>7. server'.buffer = Buffered(server.buffer, c, o) /\ server'.subscribed = server.subscribed
  BY <1>1, <1>2 DEF Session
<1>8. Fresh' \subseteq Fresh
  <2>1. \A q \in Runs : \A x \in 0..Cut : Still(q, x)' => Still(q, x)
    <3> SUFFICES ASSUME NEW q \in Runs, NEW x \in 0..Cut, Still(q, x)' PROVE Still(q, x)
      OBVIOUS
    <3>1. Has(channel'[q], x) => Has(channel[q], x)
      BY <1>3, <1>5 DEF Has
    <3> QED BY <1>1, <3>1 DEF Still
  <2> QED BY <1>1, <2>1, FreshLess
<1>9. o \in Fresh /\ o \notin Fresh'
  <2>1. Still(r, k)
    BY <1>5 DEF Still
  <2>2. ~Still(r, k)'
    <3>1. k # Cut /\ ~Has(channel'[r], k)
      BY <1>3, <1>5, Numbers
    <3>2. PICK i \in 1..Len(ch) : ch[i] = k
      BY <1>5 DEF Has
    <3>3. kernel.printed[r] \in 0..MaxPrinted /\ MaxPrinted \in Nat /\ Error = 0 /\ Idle = MaxPrinted + 1
      BY TypeParts, KernelRead, Numbers
    <3>4. k # Idle
      BY <1>0
    <3>5. k \in 1..MaxPrinted \/ k = Error
      BY <1>5, <3>3, <3>4
    <3>6. ~(k # Error /\ k > kernel.printed[r])
      BY <1>4, <3>2, <3>3, <3>5
    <3>7. ~(k = Error /\ kernel.printed[r] < MaxPrinted)
      BY <1>4, <3>2, <3>3
    <3> QED BY <1>1, <3>1, <3>6, <3>7 DEF Still
  <2> QED BY <1>1, <1>6, <2>1, <2>2 DEF Fresh, Done
<1>10. Neat'
  <2> SUFFICES ASSUME NEW q \in Runs, run'[q].stage = "running"
               PROVE  /\ Lone(channel'[q])
                      /\ \A i \in 1..Len(channel'[q]) :
                           /\ channel'[q][i] \in 1..MaxPrinted => channel'[q][i] <= kernel'.printed[q]
                           /\ channel'[q][i] = Error => kernel'.printed[q] = MaxPrinted
    BY DEF Neat, Lone
  <2>1. CASE q = r
    <3>1. ASSUME NEW i \in 1..Len(Tail(ch)) PROVE \E j \in 1..Len(ch) : ch[j] = Tail(ch)[i]
      BY <1>5 DEF Has
    <3>2. \A i \in 1..Len(Tail(ch)) : /\ Tail(ch)[i] \in 1..MaxPrinted => Tail(ch)[i] <= kernel.printed[r]
                                      /\ Tail(ch)[i] = Error => kernel.printed[r] = MaxPrinted
      BY <1>4, <3>1
    <3> HIDE DEF ch
    <3> QED BY <1>1, <1>3, <1>5, <2>1, <3>2
  <2>2. CASE q # r
    BY <1>1, <1>3, <2>2 DEF Displays, Neat
  <2> QED BY <2>1, <2>2
<1>11. Brings(r, o, server.buffer)
  <2>1. BufferedAs(server.buffer, server'.buffer, c, o)
    BY <1>7 DEF BufferedAs, Buffered, Added
  <2>2. Onward(server.buffer, server.buffer, run, run')
    BY <1>1 DEF Onward, Moves, Shrinks
  <2>3. run'[r].stage \in Begun /\ run' = run
    BY <1>1 DEF Begun
  <2> HIDE DEF o
  <2> QED BY <1>1, <1>6, <1>8, <1>9, <2>1, <2>2, <2>3 DEF Brings
<1>12. Emits(r, o, Dead)
  <2>1. OutputOf(c, o) \in Message /\ Dead \in Message
    BY <1>2, <1>6, MessageType
  <2> SUFFICES ASSUME NEW p \in Pages
               PROVE  toPage'[p] = With(p, r, o) \/ toPage'[p] = Append(With(p, r, o), Dead)
    BY DEF Emits
  <2>3. p \in server.subscribed => link[p]
    BY DEF Displays, Pending, Listens
  <2>4. With(p, r, o) = IF p \in server.subscribed /\ run[r].by # Agent THEN Append(toPage[p], OutputOf(c, o)) ELSE toPage[p]
    BY DEF With
  <2> HIDE DEF o, c
  <2>5. CASE run[r].by = Agent
    BY <1>1, <2>4, <2>5 DEF Told
  <2>6. CASE run[r].by # Agent
    BY <1>1, <2>6, <2>1, <2>3, <2>4, BroadcastIs DEF Told
  <2> QED BY <2>5, <2>6
<1>13. Served
  BY <1>1, <1>7 DEF Served
<1>14. Dead \in Message /\ Dead.type \notin {"output", "sync"} /\ Dead.type # "result"
  BY MessageType DEF Dead
<1>15. server.buffer \in Buffers
  BY StateRead
<1> HIDE DEF o
<1> QED BY <1>6, <1>10, <1>11, <1>12, <1>13, <1>14, <1>15, SessionEmits

\* An execution goes on.
LEMMA ExecutesDisplays ==
    ASSUME TypeOK, TypeOK', IInv, Flows, Displays, NEW r \in Runs, Begin(r) \/ Take(r) \/ CutShort(r)
    PROVE  Displays'
<1>1. CASE Begin(r) /\ server.connected
  BY <1>1, BeginDisplays
<1>2. CASE Begin(r) /\ ~server.connected
  <2>1. /\ CanBegin(r) /\ Failed(r, Cleared(r))
        /\ UNCHANGED <<page, link, toServer, channel, count, dropped>>
    BY <1>2 DEF Begin, Cleared
  <2> DEFINE sv == Cleared(r)
  <2>2. /\ sv \in Session /\ sv.buffer \in Buffers /\ Shrinks(server.buffer, sv.buffer)
        /\ run[r].cell \notin Cells \/ sv.buffer[run[r].cell] = <<>>
        /\ sv.subscribed = server.subscribed
    BY ClearedIs
  <2> HIDE DEF sv
  <2>3. Failed(r, sv)
    BY <2>1 DEF sv
  <2> QED BY <2>1, <2>2, <2>3, FailedDisplays
<1>3. CASE Take(r)
  BY <1>3, EndDisplays, TakenDisplays
<1>4. CASE CutShort(r)
  <2>1. /\ server \in Session /\ server.buffer \in Buffers /\ [server EXCEPT !.status = "idle"] \in Session
        /\ [server EXCEPT !.status = "idle"].buffer = server.buffer
        /\ [server EXCEPT !.status = "idle"].subscribed = server.subscribed
    BY StateRead DEF Session
  <2>2. PICK sv \in {server, [server EXCEPT !.status = "idle"]} : Failed(r, sv)
    BY <1>4 DEF CutShort
  <2>3. sv \in Session /\ sv.buffer = server.buffer /\ sv.subscribed = server.subscribed
    BY <2>1, <2>2
  <2>4. /\ run[r].stage = "cut" /\ Failed(r, sv) /\ sv.buffer \in Buffers /\ Shrinks(server.buffer, sv.buffer)
        /\ UNCHANGED <<page, link, toServer, channel, count, dropped>>
    BY <1>4, <2>1, <2>2, <2>3 DEF CutShort, Shrinks
  <2> QED BY <2>3, <2>4, FailedDisplays
<1> QED BY <1>1, <1>2, <1>3, <1>4

\* A step keeps what will be shown.
LEMMA DisplaysStep == TypeOK /\ TypeOK' /\ IInv /\ Flows /\ Displays /\ [Next]_vars => Displays'
<1> SUFFICES ASSUME TypeOK, TypeOK', IInv, Flows, Displays, [Next]_vars PROVE Displays'
  OBVIOUS
<1>1. ASSUME NEW p \in Pages,
             \/ \E c \in Cells : QueueExecution(p, c)
             \/ ProcessNext(p) \/ RunHint(p) \/ Interrupt(p)
             \/ \E r \in Runs : WaitOver(p, r) \/ WaitThrows(p, r)
             \/ ReceiveDead(p) \/ ReceiveSync(p) \/ ReceiveOutput(p) \/ ReceiveResult(p)
             \/ Connect(p) \/ Break(p) \/ SyncOutputs(p) \/ Execute(p)
      PROVE  Displays'
  BY <1>1, PageDisplays
<1>2. ASSUME NEW c \in Cells, AgentRun(c) PROVE Displays'
  BY <1>2, AgentDisplays
<1>3. ASSUME NEW r \in Runs, Begin(r) \/ Take(r) \/ CutShort(r) PROVE Displays'
  BY <1>3, ExecutesDisplays
<1>4. CASE Restarts
  BY <1>4, CutDisplays
<1>5. CASE Hears \/ Prints \/ Raises \/ Finishes \/ \E r \in Runs : PrintsLate(r)
  BY <1>5, KernelDisplays
<1>6. CASE UNCHANGED vars
  <2>1. /\ page' = page /\ link' = link /\ toPage' = toPage /\ toServer' = toServer /\ run' = run
        /\ server' = server /\ channel' = channel /\ kernel' = kernel /\ dropped' = dropped
    BY <1>6 DEF vars
  <2>2. Served /\ Says(Dead) /\ Dead \in Message /\ Dead.type \notin {"output", "sync"} /\ Dead.type # "result"
    BY <2>1, MessageType DEF Served, Says, Dead
  <2>3. Onward(server.buffer, server'.buffer, run, run')
    BY <2>1 DEF Onward, Moves, Shrinks
  <2>4. Fresh' \subseteq Fresh
    BY <2>1 DEF Fresh, Still
  <2>5. Neat'
    BY <2>1 DEF Displays, Neat
  <2> QED BY <2>2, <2>3, <2>4, <2>5, SessionTells
<1> QED BY <1>1, <1>2, <1>3, <1>4, <1>5, <1>6 DEF Next, Restarts

\* Nothing is shown at first.
LEMMA DisplaysInit == Init => Displays
<1> SUFFICES ASSUME Init PROVE Displays
  OBVIOUS
<1>1. /\ \A p \in Pages : /\ toPage[p] = <<>> /\ toServer[p] = <<>> /\ page[p].handlers = <<>> /\ ~link[p]
                          /\ \A r \in Runs : page[p].got[r] = <<>>
                          /\ \A c \in Cells : page[p].shown[c] = <<>>
      /\ server.subscribed = {} /\ \A c \in Cells : server.buffer[c] = <<>>
      /\ \A r \in Runs : run[r].stage = "none"
  BY DEF Init, NoOutputs
<1>2. Len(<<>>) = 0 /\ 1..0 = {}
  OBVIOUS
<1>3. Neat
  BY <1>1 DEF Neat
<1>4. Stored(server.buffer, run, Fresh)
  BY <1>1, <1>2, InjectiveEmpty DEF Stored
<1>5. ASSUME NEW p \in Pages PROVE Pending(p)
  <2>1. Listens(p) /\ Asking(p)
    BY <1>1, <1>2 DEF Listens, Asking
  <2>2. Once(<<>>, page[p], Fresh)
    BY <1>1, <1>2, InjectiveEmpty DEF Once, Seen
  <2>3. Line(<<>>, run) /\ Distinct(<<>>, run) /\ Follows(<<>>, <<>>) /\ Behind(<<>>, server.buffer, run)
    BY <1>2 DEF Line, Distinct, Follows, Behind
  <2>4. p \notin server.subscribed
    BY <1>1
  <2>5. FineAt(p)
    BY <1>1, <2>2, <2>3, <2>4 DEF FineAt, Fine
  <2> QED BY <2>1, <2>5 DEF Pending
<1> QED BY <1>3, <1>4, <1>5 DEF Displays

\* What is shown, collected, on its way and buffered always fits together.
THEOREM DisplayInvariance == Spec => []Displays
<1>1. Init => Displays
  BY DisplaysInit
<1>2. TypeOK /\ TypeOK' /\ IInv /\ Flows /\ Displays /\ [Next]_vars => Displays'
  BY DisplaysStep
<1> QED BY <1>1, <1>2, TypeCorrect, Invariance, FlowInvariance, PTL DEF Spec

\* A page shows no output twice.  Once everything has arrived and nothing runs, a page
\* that made all the runs or none, and lost no connection in a run, shows every output
\* that the server has buffered but those of an agent's runs: what kernelService.ts
\* collects, what sync_outputs brings and what Notebook.tsx appends do not overlap.
THEOREM OutputsAreShownOnce == Spec => []OutputsOnce
<1>1. TypeOK /\ Displays => OutputsOnce
  <2> SUFFICES ASSUME TypeOK, Displays PROVE OutputsOnce
    OBVIOUS
  <2>1. ASSUME NEW p \in Pages, NEW c \in Cells PROVE IsInjective(page[p].shown[c])
    BY DEF Displays, Pending, FineAt, Fine, Once
  <2>2. ASSUME NEW p \in Pages \ dropped, AtRest(p), Alone(p) \/ Watches(p), NEW c \in Cells,
               NEW i \in DOMAIN server.buffer[c], run[server.buffer[c][i][1]].by # Agent
        PROVE  server.buffer[c][i] \in ToSet(page[p].shown[c])
    <3> DEFINE o == server.buffer[c][i]
    <3>1. Pending(p) /\ link[p] /\ toServer[p] = <<>> /\ toPage[p] = <<>> /\ page[p].handlers = <<>>
      BY <2>2 DEF Displays, AtRest
    <3>2. p \in server.subscribed /\ Fit(p)
      BY <2>2, <3>1 DEF Pending, Listens, Fit
    <3>3. Reaches(toPage[p], page[p], server.buffer, run)
      BY <3>1, <3>2 DEF Pending, FineAt, Fine
    <3>4. i \in 1..Len(server.buffer[c])
      BY <2>2, StateRead, BufferRead
    <3>5. \A x : ~Has(<<>>, x)
      BY InjectiveEmpty
    <3>6. Has(page[p].shown[c], o)
      BY <2>2, <3>3, <3>4, ReachesIs, <3>1, <3>5 DEF Syncs, Reached
    <3>7. page[p].shown[c] \in Seq(Outputs)
      BY StateRead, PageRead
    <3> HIDE DEF o
    <3>8. o \in ToSet(page[p].shown[c])
      BY <3>6, <3>7 DEF Has, ToSet
    <3> QED BY <3>8 DEF o
  <2> QED BY <2>1, <2>2 DEF OutputsOnce
<1> QED BY <1>1, TypeCorrect, DisplayInvariance, PTL

=============================================================================
