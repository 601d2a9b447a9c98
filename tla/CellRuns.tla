------------------------------ MODULE CellRuns ------------------------------
(***************************************************************************)
(* Running cells: the execution queue of a page (Notebook.tsx), the page's *)
(* socket to one kernel session and the handlers of its requests           *)
(* (services/kernelService.ts), the socket handler of the server           *)
(* (routes/kernel.ts), the serialized executions of a session with their   *)
(* output buffers and iopub channels (kernel-service.ts), and the kernel.  *)
(*                                                                         *)
(* Several pages show one notebook and share the session; an agent runs    *)
(* cells on the server, beside their sockets.  A run is one request to     *)
(* execute a cell; runs are numbered in the order in which pages and       *)
(* agents make them.                                                       *)
(***************************************************************************)
EXTENDS Naturals, SequencesExt, FiniteSets

CONSTANTS
    Pages,       \* open pages of the notebook
    Cells,       \* its code cells
    Agent,       \* whoever runs a cell on the server without a page
    NoCell,      \* "no cell"
    MaxRuns,     \* bound on the runs
    MaxPrinted,  \* bound on the outputs that one run prints or raises
    MaxChannel,  \* MAX_PARENT_QUEUE_MESSAGES
    MaxOnWay,    \* bound on the messages of a run that are on their way to a page
    MaxTroubles  \* bound on interrupts, broken connections, restarts and deaths of the kernel

ASSUME BoundAssumption ==
    /\ MaxRuns \in Nat /\ MaxPrinted \in Nat /\ MaxChannel \in Nat \ {0} /\ MaxOnWay \in Nat \ {0}
    /\ MaxTroubles \in Nat
ASSUME ValueAssumption == Agent \notin Pages /\ NoCell \notin Cells

VARIABLES
    page,      \* the state of each page
    link,      \* whether the page's socket is open
    toPage,    \* messages on their way to the page
    toServer,  \* messages on their way to the server
    run,       \* what was asked and how far it is
    server,    \* the session on the server
    channel,   \* the iopub channel of each run
    kernel,    \* the kernel process
    count,     \* runs and troubles so far
    dropped    \* history variable: pages that lost their connection during a run

vars == <<page, link, toPage, toServer, run, server, channel, kernel, count, dropped>>

Runs == 1..MaxRuns
\* messages of a kernel: what the code raises, 1..MaxPrinted what it prints, its end;
\* and the error of a run that is cut short or not carried out
Error == 0
Idle == MaxPrinted + 1
Cut == MaxPrinted + 2
Outputs == Runs \X (0..Cut)

\* stage: waiting for the synchronization; asked of the server, or lost on the way;
\* queued; its channel open, or cut; ended
Stage == {"none", "waiting", "asked", "lost", "queued", "running", "cut", "ended"}
Page == [queue : Seq(Cells), processing : BOOLEAN, ready : BOOLEAN, waiting : SUBSET Runs,
         synced : BOOLEAN, handlers : Seq(Runs), got : [Runs -> Seq(Outputs)],
         shown : [Cells -> Seq(Outputs)]]
Message ==
    [type : {"dead", "result"}, run : 0..MaxRuns]
    \cup [type : {"output"}, cell : Cells \cup {NoCell}, output : Outputs]
    \cup [type : {"sync"}, cells : [Cells -> Seq(Outputs)]]

TypeOK ==
    /\ page \in [Pages -> Page]
    /\ link \in [Pages -> BOOLEAN]
    /\ toPage \in [Pages -> Seq(Message)]
    /\ toServer \in [Pages -> Seq(0..MaxRuns)]
    /\ run \in [Runs -> [by : Pages \cup {Agent}, cell : Cells \cup {NoCell}, after : 0..MaxRuns,
                         stage : Stage]]
    /\ server \in [status : {"idle", "busy", "starting", "dead", "gone"}, connected : BOOLEAN,
                   restart : {"none", "ending", "booting", "stopping"},
                   tail : 0..MaxRuns, buffer : [Cells -> Seq(Outputs)], subscribed : SUBSET Pages]
    /\ channel \in [Runs -> Seq(Error..Idle)]
    /\ kernel \in [queue : Seq(Runs), printed : [Runs -> 0..MaxPrinted],
                   late : [Runs -> 0..MaxPrinted], heard : BOOLEAN, unheard : SUBSET Runs]
    /\ \A r \in Runs : kernel.late[r] <= kernel.printed[r]
    /\ count \in [runs : 0..MaxRuns, troubles : 0..MaxTroubles]
    /\ dropped \subseteq Pages

\* the session has been deleted, after its kernel exited or was stopped; one whose
\* restart was given up stays, and is "dead"
Over == server.status = "gone"

NoOutputs == [c \in Cells |-> <<>>]

Init ==
    /\ page = [p \in Pages |->
         [queue |-> <<>>, processing |-> FALSE, ready |-> FALSE, waiting |-> {}, synced |-> FALSE,
          handlers |-> <<>>, got |-> [r \in Runs |-> <<>>], shown |-> NoOutputs]]
    /\ link = [p \in Pages |-> FALSE]
    /\ toPage = [p \in Pages |-> <<>>] /\ toServer = [p \in Pages |-> <<>>]
    /\ run = [r \in Runs |-> [by |-> Agent, cell |-> NoCell, after |-> 0, stage |-> "none"]]
    /\ server = [status |-> "idle", connected |-> TRUE, restart |-> "none", tail |-> 0,
                 buffer |-> NoOutputs, subscribed |-> {}]
    /\ channel = [r \in Runs |-> <<>>]
    /\ kernel = [queue |-> <<>>, printed |-> [r \in Runs |-> 0], late |-> [r \in Runs |-> 0],
                 heard |-> TRUE, unheard |-> {}]
    /\ count = [runs |-> 0, troubles |-> 0]
    /\ dropped = {}

-----------------------------------------------------------------------------
(* Messages to the pages.  The statuses "busy", "starting" and the first one of a   *)
(* connection only change what a page displays and are left out; the "idle" that   *)
(* comes right after a result is part of it.                                       *)

Dead == [type |-> "dead", run |-> 0]
ResultOf(r) == [type |-> "result", run |-> r]
OutputOf(c, o) == [type |-> "output", cell |-> c, output |-> o]

\* broadcast: to every open socket, outputs only to those that have synchronized
Broadcast(outputs, others) ==
    [p \in Pages |->
      IF link[p]
      THEN toPage[p] \o (IF p \in server.subscribed THEN outputs ELSE <<>>) \o others
      ELSE toPage[p]]

CanBegin(r) ==
    /\ run[r].stage = "queued"
    /\ run[r].after \in {0} \cup {s \in Runs : run[s].stage = "ended"}

\* The event loop of the server: executions that can begin, or whose channel has
\* been closed, go on before the next message, request, timer or event.
Calm == \A r \in Runs : run[r].stage # "cut" /\ ~CanBegin(r)

-----------------------------------------------------------------------------
(* The page *)

\* The user, or an agent through the page, queues a cell that is not queued yet.
QueueExecution(p, c) ==
    /\ c \notin ToSet(page[p].queue)
    /\ MapThenSumSet(LAMBDA q : Len(page[q].queue), Pages) + count.runs < MaxRuns
    /\ page' = [page EXCEPT ![p].queue = Append(@, c)]
    /\ UNCHANGED <<link, toPage, toServer, run, server, channel, kernel, count, dropped>>

NewRun(by, c, stage, after) ==
    /\ count.runs < MaxRuns
    /\ count' = [count EXCEPT !.runs = @ + 1]
    /\ run' = [run EXCEPT ![count.runs + 1] = [by |-> by, cell |-> c, stage |-> stage, after |-> after]]

\* The processor takes the first cell of the queue; it stays there while it runs.
\* The request waits until the outputs have been synchronized.
ProcessNext(p) ==
    /\ page[p].queue # <<>> /\ ~page[p].processing /\ page[p].ready
    /\ LET r == count.runs + 1
           c == Head(page[p].queue)
           begun == [page[p] EXCEPT !.processing = TRUE]
       IN IF begun.synced
          THEN /\ NewRun(p, c, "asked", 0)
               /\ page' = [page EXCEPT ![p] = [begun EXCEPT !.handlers = Append(@, r)]]
               /\ toServer' = [toServer EXCEPT ![p] = Append(@, r)]
          ELSE /\ NewRun(p, c, "waiting", 0)
               /\ page' = [page EXCEPT ![p] = [begun EXCEPT !.waiting = @ \cup {r}]]
               /\ UNCHANGED toServer
    /\ UNCHANGED <<link, toPage, server, channel, kernel, dropped>>

\* A hint under an output offers a fix, which runs beside the queue and belongs to no
\* cell.
RunHint(p) ==
    /\ \E c \in Cells : page[p].shown[c] # <<>>
    /\ link[p] /\ page[p].synced
    /\ NewRun(p, NoCell, "asked", 0)
    /\ page' = [page EXCEPT ![p].handlers = Append(@, count.runs + 1)]
    /\ toServer' = [toServer EXCEPT ![p] = Append(@, count.runs + 1)]
    /\ UNCHANGED <<link, toPage, server, channel, kernel, dropped>>

\* The continuation of a run whose promise is settled: the cell shows what its
\* handler collected, an error empties the queue.
Settled(pg, r) ==
    LET failed == \E i \in DOMAIN pg.got[r] : pg.got[r][i][2] \in {Error, Cut}
        rest == IF failed \/ pg.queue = <<>> THEN <<>> ELSE Tail(pg.queue)
    IN IF run[r].cell = NoCell \/ run[r].stage = "lost"
       THEN pg
       ELSE [pg EXCEPT !.shown[run[r].cell] = pg.got[r], !.got[r] = <<>>, !.queue = rest,
                       !.processing = FALSE]

\* The wait is over, by the synchronization or after five seconds.
WaitOver(p, r) ==
    /\ r \in page[p].waiting /\ link[p]
    /\ page' = [page EXCEPT ![p].waiting = @ \ {r}, ![p].handlers = Append(@, r)]
    /\ toServer' = [toServer EXCEPT ![p] = Append(@, r)]
    /\ run' = [run EXCEPT ![r].stage = "asked"]
    /\ UNCHANGED <<link, toPage, server, channel, kernel, count, dropped>>

\* Five seconds have passed and the socket is gone: the request is rejected
\* after its handler has been queued, and the handler stays.
WaitThrows(p, r) ==
    /\ r \in page[p].waiting /\ ~link[p]
    /\ LET pg == [page[p] EXCEPT !.waiting = @ \ {r}, !.handlers = Append(@, r),
                                 !.got[r] = <<<<r, Cut>>>>]
       IN page' = [page EXCEPT ![p] = Settled(pg, r)]
    /\ run' = [run EXCEPT ![r].stage = "lost"]
    /\ UNCHANGED <<link, toPage, toServer, server, channel, kernel, count, dropped>>

Trouble ==
    /\ count.troubles < MaxTroubles
    /\ count' = [count EXCEPT !.troubles = @ + 1]

\* Interrupt: the page gives up its queue once the server has signalled the
\* kernel; whether and when the code stops is up to the kernel.
Interrupt(p) ==
    /\ page[p].processing \/ page[p].queue # <<>>
    /\ ~Over /\ Trouble
    /\ page' = [page EXCEPT ![p].queue = <<>>, ![p].processing = FALSE]
    /\ UNCHANGED <<link, toPage, toServer, run, server, channel, kernel, dropped>>

Receive(p, type) ==
    /\ toPage[p] # <<>> /\ Head(toPage[p]).type = type
    /\ toPage' = [toPage EXCEPT ![p] = Tail(@)]
    /\ UNCHANGED <<link, toServer, run, server, channel, kernel, count, dropped>>

ReceiveDead(p) ==
    /\ Receive(p, "dead")
    /\ page' = [page EXCEPT ![p].ready = FALSE, ![p].queue = <<>>]

\* cell-level replace; a cell without a buffer on the server keeps what it shows
Replaced(shown, cells) == [c \in Cells |-> IF cells[c] = <<>> THEN shown[c] ELSE cells[c]]

ReceiveSync(p) ==
    /\ Receive(p, "sync")
    /\ LET m == Head(toPage[p])
       IN page' = [page EXCEPT ![p].synced = TRUE, ![p].shown = Replaced(@, m.cells)]

\* An output belongs to the first handler, unless that one is of another cell.
ReceiveOutput(p) ==
    /\ Receive(p, "output")
    /\ LET m == Head(toPage[p])
           pg == page[p]
           h == IF pg.handlers = <<>> THEN 0 ELSE Head(pg.handlers)
           foreign == h # 0 /\ run[h].cell # NoCell /\ m.cell # NoCell /\ run[h].cell # m.cell
           mine == Append(pg.got[h], m.output)
       IN page' = [page EXCEPT ![p] =
            CASE h # 0 /\ ~foreign /\ run[h].cell # NoCell ->
                   [pg EXCEPT !.got[h] = mine, !.shown[run[h].cell] = mine]
              [] (h = 0 \/ foreign) /\ m.cell # NoCell ->
                   [pg EXCEPT !.shown[m.cell] = Append(@, m.output)]
              [] OTHER -> pg]

\* Faulty variant: the last handler goes.
Shifted_Last(handlers) == Front(handlers)
Shifted(handlers) == Tail(handlers)

\* A result carries no request: it settles the first handler, if there is one.
\* "idle" comes with it: the kernel is ready.
ReceiveResult(p) ==
    /\ Receive(p, "result")
    /\ LET pg == [page[p] EXCEPT !.ready = TRUE]
       IN page' = [page EXCEPT ![p] =
            IF pg.handlers = <<>> THEN pg
            ELSE Settled([pg EXCEPT !.handlers = Shifted(@)], Head(pg.handlers))]

-----------------------------------------------------------------------------
(* Connections *)

\* The page asks for the outputs, and is told when the restart was given up.  A request
\* that waited for the previous socket's reply is forgotten.
Connect(p) ==
    /\ Calm /\ ~link[p] /\ ~Over
    /\ link' = [link EXCEPT ![p] = TRUE]
    /\ toServer' = [toServer EXCEPT ![p] = <<0>>]
    /\ page' = [page EXCEPT ![p].synced = FALSE, ![p].ready = TRUE, ![p].waiting = {}]
    /\ run' = [r \in Runs |-> IF r \in page[p].waiting THEN [run[r] EXCEPT !.stage = "lost"] ELSE run[r]]
    /\ toPage' = IF server.status = "dead" THEN [toPage EXCEPT ![p] = Append(@, Dead)] ELSE toPage
    /\ UNCHANGED <<server, channel, kernel, count, dropped>>

\* What is on the way is lost, the requests too.
Break(p) ==
    /\ link[p] /\ Trouble
    /\ link' = [link EXCEPT ![p] = FALSE]
    /\ run' = [r \in Runs |->
         IF r \in ToSet(toServer[p]) THEN [run[r] EXCEPT !.stage = "lost"] ELSE run[r]]
    /\ toPage' = [toPage EXCEPT ![p] = <<>>] /\ toServer' = [toServer EXCEPT ![p] = <<>>]
    /\ page' = [page EXCEPT ![p].ready = FALSE]
    /\ server' = [server EXCEPT !.subscribed = @ \ {p}]
    /\ dropped' = IF page[p].handlers # <<>> \/ page[p].waiting # {} THEN dropped \cup {p} ELSE dropped
    /\ UNCHANGED <<channel, kernel>>

-----------------------------------------------------------------------------
(* The server *)

TakeRequest(p) == Calm /\ toServer[p] # <<>> /\ toServer' = [toServer EXCEPT ![p] = Tail(@)]

\* Faulty variant: a socket that comes while a cell runs is not subscribed.
Subscribed_Idle(p) == IF server.status = "busy" THEN server.subscribed ELSE server.subscribed \cup {p}
Subscribed(p) == server.subscribed \cup {p}

\* sync_outputs: everything that is buffered; from now on the socket gets outputs
SyncOutputs(p) ==
    /\ TakeRequest(p) /\ Head(toServer[p]) = 0
    /\ toPage' = [toPage EXCEPT ![p] =
         Append(@, [type |-> "sync", cells |-> server.buffer])]
    /\ server' = [server EXCEPT !.subscribed = Subscribed(p)]
    /\ UNCHANGED <<page, link, run, channel, kernel, count, dropped>>

\* Faulty variant: an execution does not wait for the previous one.
Predecessor_None == 0
\* enqueueExecution: chained behind the last execution of the session
Predecessor == server.tail

\* execute: the code is queued
Execute(p) ==
    /\ TakeRequest(p) /\ Head(toServer[p]) # 0
    /\ LET r == Head(toServer[p])
       IN /\ run' = [run EXCEPT ![r].stage = "queued", ![r].after = Predecessor]
          /\ server' = [server EXCEPT !.tail = r]
    /\ UNCHANGED <<page, link, toPage, channel, kernel, count, dropped>>

\* An agent's run of a cell; its outputs are buffered but not sent to any page.  The
\* server runs it itself when no page answers operations, which are another socket's
\* matter: pages may be connected to the kernel.
AgentRun(c) ==
    /\ Calm /\ ~Over
    /\ NewRun(Agent, c, "queued", Predecessor)
    /\ server' = [server EXCEPT !.tail = count.runs + 1]
    /\ UNCHANGED <<page, link, toPage, toServer, channel, kernel, dropped>>

Buffered(buffer, c, o) == IF c = NoCell THEN buffer ELSE [buffer EXCEPT ![c] = Append(@, o)]

\* Faulty variant: the sockets of a session go with the session.
Told_Gone(r, outputs, others) ==
    IF run[r].by = Agent \/ Over THEN toPage ELSE Broadcast(outputs, others)
\* What the pages are told: outputs, and a result with "idle" at the end
Told(r, outputs, others) == IF run[r].by = Agent THEN toPage ELSE Broadcast(outputs, others)

\* The execution is over; the chain is empty again if nothing is queued behind it.
Ended(r) ==
    /\ run' = [run EXCEPT ![r].stage = "ended", ![r].after = 0]
    /\ kernel' = [kernel EXCEPT !.printed[r] = 0, !.late[r] = 0, !.unheard = @ \ {r}]
Unchained(r, sv) == IF sv.tail = r THEN [sv EXCEPT !.tail = 0] ELSE sv

\* An execution that could not be carried out, or was cut short
Failed(r, sv) ==
    /\ server' = [Unchained(r, sv) EXCEPT !.buffer = Buffered(@, run[r].cell, <<r, Cut>>)]
    /\ toPage' = Told(r, <<OutputOf(run[r].cell, <<r, Cut>>)>>, <<ResultOf(r)>>)
    /\ Ended(r)

\* The turn of an execution: the cell's old outputs go, the request is sent, be it to a
\* kernel that a restart has started and that has not answered yet.
Begin(r) ==
    /\ CanBegin(r)
    /\ LET cleared == IF run[r].cell = NoCell THEN server
                      ELSE [server EXCEPT !.buffer[run[r].cell] = <<>>]
       IN IF server.connected
          THEN /\ server' = [cleared EXCEPT !.status = "busy"]
               /\ run' = [run EXCEPT ![r].stage = "running", ![r].after = 0]
               /\ kernel' = [kernel EXCEPT !.queue = Append(@, r)]
               /\ UNCHANGED toPage
          ELSE Failed(r, cleared)
    /\ UNCHANGED <<page, link, toServer, channel, count, dropped>>

\* The next message of the execution's channel
Take(r) ==
    /\ run[r].stage = "running" /\ channel[r] # <<>>
    /\ \A p \in Pages : Len(toPage[p]) < MaxOnWay
    /\ channel' = [channel EXCEPT ![r] = Tail(@)]
    /\ IF Head(channel[r]) = Idle
       THEN /\ server' = [Unchained(r, server) EXCEPT !.status = "idle"]
            /\ toPage' = Told(r, <<>>, <<ResultOf(r)>>)
            /\ Ended(r)
       ELSE LET o == <<r, Head(channel[r])>>
            IN /\ server' = [server EXCEPT !.buffer = Buffered(@, run[r].cell, o)]
               /\ toPage' = Told(r, <<OutputOf(run[r].cell, o)>>, <<>>)
               /\ UNCHANGED <<run, kernel>>
    /\ UNCHANGED <<page, link, toServer, count, dropped>>

\* The channel was closed under the execution.
CutShort(r) ==
    /\ run[r].stage = "cut"
    /\ Failed(r, IF server.status = "busy" THEN [server EXCEPT !.status = "idle"] ELSE server)
    /\ UNCHANGED <<page, link, toServer, channel, count, dropped>>

-----------------------------------------------------------------------------
(* Restart and death of the kernel *)

\* Faulty variant: the session takes the status of its row in the store.
Disconnected_Row(status, restart) ==
    [server EXCEPT !.status = "terminated", !.restart = restart, !.connected = FALSE, !.tail = 0,
                   !.buffer = NoOutputs]
Disconnected(status, restart) ==
    [server EXCEPT !.status = status, !.restart = restart, !.connected = FALSE, !.tail = 0,
                   !.buffer = NoOutputs]

Closed ==
    /\ run' = [r \in Runs |-> IF run[r].stage = "running" THEN [run[r] EXCEPT !.stage = "cut"] ELSE run[r]]
    /\ channel' = [r \in Runs |-> <<>>]
    /\ kernel' = [kernel EXCEPT !.queue = <<>>, !.heard = FALSE]

\* A restart, up to the end of the old process; one at a time.
Restart ==
    /\ Calm /\ ~Over /\ server.restart = "none" /\ Trouble
    /\ server' = Disconnected("starting", "ending")
    /\ Closed
    /\ UNCHANGED <<page, link, toPage, toServer, dropped>>

\* The old process is not what it should be, or there is no kernelspec.
RestartGivesUp ==
    /\ Calm /\ server.restart = "ending"
    /\ server' = [server EXCEPT !.status = "dead", !.restart = "none"]
    /\ UNCHANGED <<page, link, toPage, toServer, run, channel, kernel, count, dropped>>

\* The new process has been spawned; sockets and readers are there before it answers.
RestartConnects ==
    /\ Calm /\ server.restart = "ending"
    /\ server' = [server EXCEPT !.restart = "booting", !.connected = TRUE]
    /\ UNCHANGED <<page, link, toPage, toServer, run, channel, kernel, count, dropped>>

\* The new kernel answers: the session is idle, whatever runs.
RestartDone ==
    /\ Calm /\ server.restart = "booting"
    /\ server' = [server EXCEPT !.status = "idle", !.restart = "none"]
    /\ UNCHANGED <<page, link, toPage, toServer, run, channel, kernel, count, dropped>>

\* The new kernel does not answer, or is busy for too long with what it was sent: its
\* sockets are closed and it is stopped ...
RestartFails ==
    /\ Calm /\ server.restart = "booting"
    /\ server' = [server EXCEPT !.restart = "stopping", !.connected = FALSE]
    /\ Closed
    /\ UNCHANGED <<page, link, toPage, toServer, count, dropped>>

\* ... and a second later the session is deleted.
RestartEnds ==
    /\ Calm /\ server.restart = "stopping"
    /\ server' = Disconnected("gone", "none")
    /\ UNCHANGED <<page, link, toPage, toServer, run, channel, kernel, count, dropped>>

\* The process exits: the session goes and the pages are told.
Dies ==
    /\ Calm
    /\ \/ server.restart = "none" /\ server.status \in {"idle", "busy"} /\ Trouble
       \/ server.restart = "booting" /\ UNCHANGED count
    /\ server' = Disconnected("gone", "none")
    /\ Closed
    /\ toPage' = Broadcast(<<>>, <<Dead>>)
    /\ UNCHANGED <<page, link, toServer, dropped>>

-----------------------------------------------------------------------------
(* The kernel (external) and the reader of its messages *)

\* Faulty variant: a full channel refuses the message.
Pushed_Refused(ch, m) == IF Len(ch) < MaxChannel THEN Append(ch, m) ELSE ch
\* BoundedAsyncQueue.push: a full channel loses its oldest message
Pushed(ch, m) == IF Len(ch) < MaxChannel THEN Append(ch, m) ELSE Append(Tail(ch), m)

\* what a kernel publishes before the iopub socket has reached it is lost
Published(r, m) == IF kernel.heard THEN [channel EXCEPT ![r] = Pushed(@, m)] ELSE channel

\* the iopub socket of a new kernel is connected, some time after it was opened
Hears ==
    /\ server.connected /\ ~kernel.heard
    /\ kernel' = [kernel EXCEPT !.heard = TRUE]
    /\ UNCHANGED <<page, link, toPage, toServer, run, server, channel, count, dropped>>

Prints ==
    /\ kernel.queue # <<>>
    /\ LET r == Head(kernel.queue)
       IN /\ kernel.printed[r] < MaxPrinted
          /\ kernel' = [kernel EXCEPT !.printed[r] = @ + 1]
          /\ channel' = Published(r, kernel.printed[r] + 1)
    /\ UNCHANGED <<page, link, toPage, toServer, run, server, count, dropped>>

\* A thread that the code left behind prints under the code's request.
PrintsLate(r) ==
    /\ run[r].stage = "running" /\ r \notin ToSet(kernel.queue)
    /\ kernel.printed[r] < MaxPrinted
    /\ kernel' = [kernel EXCEPT !.printed[r] = @ + 1, !.late[r] = @ + 1]
    /\ channel' = Published(r, kernel.printed[r] + 1)
    /\ UNCHANGED <<page, link, toPage, toServer, run, server, count, dropped>>

\* The code raises (it was interrupted, or failed); it prints no more.
Raises ==
    /\ kernel.queue # <<>>
    /\ LET r == Head(kernel.queue)
       IN /\ kernel.printed[r] < MaxPrinted
          /\ kernel' = [kernel EXCEPT !.printed[r] = MaxPrinted]
          /\ channel' = Published(r, Error)
    /\ UNCHANGED <<page, link, toPage, toServer, run, server, count, dropped>>

Finishes ==
    /\ kernel.queue # <<>>
    /\ LET r == Head(kernel.queue)
       IN /\ channel' = Published(r, Idle)
          /\ kernel' = [kernel EXCEPT !.queue = Tail(@),
                                      !.unheard = IF kernel.heard THEN @ ELSE @ \cup {r}]
    /\ UNCHANGED <<page, link, toPage, toServer, run, server, count, dropped>>

Next ==
    \/ \E p \in Pages :
         \/ \E c \in Cells : QueueExecution(p, c)
         \/ ProcessNext(p) \/ RunHint(p) \/ Interrupt(p)
         \/ \E r \in Runs : WaitOver(p, r) \/ WaitThrows(p, r)
         \/ ReceiveDead(p) \/ ReceiveSync(p) \/ ReceiveOutput(p) \/ ReceiveResult(p)
         \/ Connect(p) \/ Break(p) \/ SyncOutputs(p) \/ Execute(p)
    \/ \E c \in Cells : AgentRun(c)
    \/ \E r \in Runs : Begin(r) \/ Take(r) \/ CutShort(r) \/ PrintsLate(r)
    \/ Restart \/ RestartGivesUp \/ RestartConnects \/ RestartDone \/ RestartFails \/ RestartEnds
    \/ Dies \/ Hears \/ Prints \/ Raises \/ Finishes

Spec == Init /\ [][Next]_vars

-----------------------------------------------------------------------------
(* Properties *)

Alone(p) == \A r \in Runs : run[r].stage = "none" \/ run[r].by = p
Watches(p) == \A r \in Runs : run[r].stage = "none" \/ run[r].by # p

\* The executions of a session are serialized across pages, hints, agents,
\* failures and restarts: the kernel never has a second request.
OneAtATime ==
    /\ Len(kernel.queue) <= 1
    /\ \A r, s \in Runs : run[r].stage = "running" /\ run[s].stage = "running" => r = s

\* "drop-oldest keeps the terminal status: idle reachable so executions can't
\* hang" (kernel-service.ts:94): every execution that awaits the kernel has its end
\* before it, across restarts, deaths and full channels, unless threads of its code
\* have printed a whole channel after that end, or a kernel that was just restarted
\* published that end before its iopub socket was connected: such a run waits until the
\* next restart, and so does whatever is queued behind it.
EndComes ==
    \A r \in Runs : run[r].stage = "running" =>
      \/ r \in ToSet(kernel.queue)
      \/ Idle \in ToSet(channel[r])
      \/ kernel.late[r] >= MaxChannel
      \/ r \in kernel.unheard

\* the runs whose results are among the messages s
Results(s) ==
    LET upTo[i \in 0..Len(s)] ==
          IF i = 0 THEN <<>>
          ELSE IF s[i].type = "result" THEN Append(upTo[i - 1], s[i].run) ELSE upTo[i - 1]
    IN upTo[Len(s)]

\* A result names no request and a page settles its first handler.  For the page
\* that makes all the runs, queued cells and hints, and has lost no connection
\* meanwhile, the results come in the order of its handlers.
ResultsInOrder ==
    \A p \in Pages \ dropped : Alone(p) => IsPrefix(Results(toPage[p]), page[p].handlers)

\* A page at rest shows every output that the server has buffered, whenever it
\* connected: the synchronization and the stream leave no gap between them.  It
\* holds for the page that makes the runs and for the one that watches them; not
\* for the outputs of an agent's run, which the server does not stream, and not
\* where the page lost its connection in a run.  And no page shows an output twice,
\* however its stream, its handlers and synchronizations overlap.
AtRest(p) ==
    /\ link[p] /\ page[p].synced /\ toPage[p] = <<>> /\ toServer[p] = <<>>
    /\ ~page[p].processing /\ page[p].handlers = <<>>
    /\ \A r \in Runs : run[r].stage \in {"none", "ended"}
OutputsOnce ==
    /\ \A p \in Pages \ dropped : AtRest(p) /\ (Alone(p) \/ Watches(p)) =>
         \A c \in Cells : \A i \in DOMAIN server.buffer[c] :
           LET o == server.buffer[c][i]
           IN run[o[1]].by # Agent => o \in ToSet(page[p].shown[c])
    /\ \A p \in Pages, c \in Cells : IsInjective(page[p].shown[c])

\* The page's queue moves on: whatever is processed has a handler or waits for the
\* synchronization, and no more handlers wait than results are still to come.  A
\* page that lost its connection in a run may have to be interrupted.
ResultsToCome ==
    \A p \in Pages \ dropped :
      LET coming == {r \in Runs : run[r].by = p /\ run[r].stage \in {"asked", "queued", "running", "cut"}}
      IN /\ page[p].processing => page[p].handlers # <<>> \/ page[p].waiting # {}
         /\ Len(page[p].handlers) <= Cardinality(coming) + Len(Results(toPage[p]))
=============================================================================
