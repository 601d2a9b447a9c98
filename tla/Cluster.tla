------------------------------ MODULE Cluster ------------------------------
(***************************************************************************)
(* Compute allocations of the head server: the jobs that a batch scheduler *)
(* runs for it, the client-server that each job starts and that registers  *)
(* with the head (client-registration.ts), the registry of servers         *)
(* (server-registry.ts), the allocations that follow the jobs through the  *)
(* scheduler (allocation-service.ts), and a page whose kernel runs on such *)
(* a server and that asks for its status when it has lost its connection   *)
(* (routes/kernel.ts, kernelService.ts).                                   *)
(*                                                                         *)
(* An allocation has one job and one token; the three share a number here, *)
(* which is also their order of creation.                                  *)
(***************************************************************************)
EXTENDS Naturals

CONSTANTS
    MaxJobs,     \* bound on the allocations
    Addresses,   \* host:port of client-servers, which are their ids
    NoAddress,
    Polls,       \* polls that may overlap
    MaxTroubles  \* bound on restarts, lost requests, failed commands and missed heartbeats

ASSUME BoundAssumption == MaxJobs \in Nat /\ MaxTroubles \in Nat
ASSUME AddressAssumption == NoAddress \notin Addresses

VARIABLES
    job,      \* what the scheduler makes of each job
    client,   \* the server of each job, and its requests to the head
    registry, \* the head's list of servers
    alloc,    \* the head's allocations
    disk,     \* allocations.json
    poll,     \* the polls under way
    asked,    \* calls of create and cancel that await the scheduler
    page,     \* the page and its kernel
    troubles,
    spared    \* history variable: jobs that scancel did not reach

vars == <<job, client, registry, alloc, disk, poll, asked, page, troubles, spared>>

Jobs == 1..MaxJobs
NoJob == 0
Over == {"completed", "failed", "cancelled"}
Terminal == {"ended", "failed", "cancelled"}
Live == {"pending", "running", "active"}
JobState == {"none", "pending", "running", "completing", "preempted"} \cup Over
Request == {"register", "unregister"}
Places == Addresses \cup {NoAddress}
\* The server that runs in a job, with its requests; those of servers that ran in it
\* before may still be on their way.
Client == [at : Places, up : BOOLEAN, sent : SUBSET Request, known : BOOLEAN, registered : BOOLEAN,
           retry : BOOLEAN, leaving : BOOLEAN, late : SUBSET (Request \X Places)]
Allocation == [state : {"none"} \cup Live \cup Terminal, server : Places]

TypeOK ==
    /\ job \in [Jobs -> JobState] /\ client \in [Jobs -> Client]
    /\ registry \in [Addresses -> [token : Jobs \cup {NoJob}, online : BOOLEAN, quiet : 0..2]]
    /\ alloc \in [Jobs -> Allocation] /\ disk \in [Jobs -> Allocation]
    /\ poll \in [Polls -> [on : BOOLEAN, at : Jobs \cup {NoJob}, seen : SUBSET Jobs,
                           answer : JobState \cup {"unknown"}, dirty : BOOLEAN]]
    /\ asked \in [create : SUBSET Jobs, cancel : SUBSET Jobs]
    /\ page \in [job : Jobs \cup {NoJob}, at : Places, alive : BOOLEAN,
                 state : {"none", "open", "retrying", "dead"}, gone : 0..2]
    /\ troubles \in 0..MaxTroubles
    /\ spared \subseteq Jobs

Unlisted == [token |-> NoJob, online |-> FALSE, quiet |-> 0]
Untracked == [state |-> "none", server |-> NoAddress]
Absent == [at |-> NoAddress, up |-> FALSE, sent |-> {}, known |-> FALSE, registered |-> FALSE,
           retry |-> FALSE, leaving |-> FALSE, late |-> {}]
NoPoll == [on |-> FALSE, at |-> NoJob, seen |-> {}, answer |-> "none", dirty |-> FALSE]

Init ==
    /\ job = [j \in Jobs |-> "none"] /\ client = [j \in Jobs |-> Absent]
    /\ registry = [a \in Addresses |-> Unlisted]
    /\ alloc = [j \in Jobs |-> Untracked] /\ disk = [j \in Jobs |-> Untracked]
    /\ poll = [i \in Polls |-> NoPoll]
    /\ asked = [create |-> {}, cancel |-> {}]
    /\ page = [job |-> NoJob, at |-> NoAddress, alive |-> FALSE, state |-> "none", gone |-> 0]
    /\ troubles = 0
    /\ spared = {}

Listed(a) == registry[a].token # NoJob
Listening(j, a) == client[j].up /\ client[j].at = a
Serving(a) == \E j \in Jobs : Listening(j, a)

Trouble ==
    /\ troubles < MaxTroubles
    /\ troubles' = troubles + 1

-----------------------------------------------------------------------------
(* Jobs (external: the scheduler) and the page's kernel *)

Starts(j) ==
    /\ job[j] = "pending"
    /\ job' = [job EXCEPT ![j] = "running"]
    /\ UNCHANGED <<client, registry, alloc, disk, poll, asked, page, troubles, spared>>

\* The server of a job has bound a port that is free on its node, and registers.
Launches(j, a) ==
    /\ job[j] = "running" /\ ~client[j].up
    /\ ~Serving(a)
    /\ client' = [client EXCEPT ![j].at = a, ![j].up = TRUE, ![j].sent = {"register"}]
    /\ UNCHANGED <<job, registry, alloc, disk, poll, asked, page, troubles, spared>>

\* The process ends, and the page's kernel with it.  What it has sent may still arrive,
\* also when another process runs in the job by then.
ProcessEnds(j) ==
    /\ client' = [client EXCEPT ![j] =
         [Absent EXCEPT !.late = client[j].late \cup (client[j].sent \X {client[j].at})]]
    /\ page' = IF page.job = j /\ page.alive
               THEN [page EXCEPT !.alive = FALSE, !.state = IF @ = "open" THEN "retrying" ELSE @]
               ELSE page

\* The walltime is over, the node fails, the job is preempted or somebody cancels it;
\* or it is put back into the queue, to run again.
Killed(j, state) ==
    /\ job[j] = "running" /\ (state = "pending" => Trouble)
    /\ job' = [job EXCEPT ![j] = state]
    /\ ProcessEnds(j)
    /\ state # "pending" => UNCHANGED troubles
    /\ UNCHANGED <<registry, alloc, disk, poll, asked, spared>>

Completes(j) ==
    /\ job[j] = "completing"
    /\ job' = [job EXCEPT ![j] = "completed"]
    /\ UNCHANGED <<client, registry, alloc, disk, poll, asked, page, troubles, spared>>

-----------------------------------------------------------------------------
(* The server of a job and its registration *)

ClientOnly == UNCHANGED <<job, registry, alloc, disk, poll, asked, page, troubles, spared>>

RetryTimer(j) ==
    /\ client[j].up /\ client[j].retry
    /\ client' = [client EXCEPT ![j].sent = @ \cup {"register"}, ![j].retry = FALSE]
    /\ ClientOnly

\* The idle monitor or a signal ends the server; it unregisters first if it can.
Leaves(j) ==
    /\ client[j].up /\ ~client[j].leaving
    /\ client' = [client EXCEPT ![j].leaving = TRUE, ![j].retry = FALSE,
                    ![j].sent = IF client[j].registered THEN @ \cup {"unregister"} ELSE @]
    /\ ClientOnly

Exits(j) ==
    /\ client[j].leaving /\ "unregister" \notin client[j].sent
    /\ job' = [job EXCEPT ![j] = "completing"]
    /\ ProcessEnds(j)
    /\ UNCHANGED <<registry, alloc, disk, poll, asked, troubles, spared>>

\* Faulty variant: a 404 is logged like any other failure.
NotFound_Logged(c) == c
\* A heartbeat was answered with 404: the server registers again.
NotFound(c) == [c EXCEPT !.registered = FALSE, !.sent = @ \cup {"register"}]

\* A registration was answered: the heartbeats begin.
Registered(c) == [c EXCEPT !.known = TRUE, !.registered = TRUE]

\* A registration that fails is tried again.
Failing(c, request) == IF request = "register" THEN [c EXCEPT !.retry = TRUE] ELSE c

\* A request is dealt with.
Without(j, request) == [client[j] EXCEPT !.sent = @ \ {request}]
Dealt(j, after) == client' = [client EXCEPT ![j] = after]

\* The request does not arrive, or its answer does not.
LoseRequest(j, request) ==
    /\ request \in client[j].sent /\ Trouble
    /\ Dealt(j, Failing(Without(j, request), request))
    /\ UNCHANGED <<job, registry, alloc, disk, poll, asked, page, spared>>

\* Nobody waits for the answer to a request of a process that has ended.
Outlived(j, request, a) == client' = [client EXCEPT ![j].late = @ \ {<<request, a>>}]
LoseLate(j, request, a) ==
    /\ <<request, a>> \in client[j].late
    /\ Outlived(j, request, a)
    /\ ClientOnly

-----------------------------------------------------------------------------
(* The registry *)

HeadOnly == UNCHANGED <<job, alloc, disk, poll, asked, page, troubles, spared>>

\* A new server, or the one that is known at this address
Entered(j, a) == [registry EXCEPT ![a] = [token |-> j, online |-> TRUE, quiet |-> 0]]

\* register: the answer may be lost
ReceiveRegister(j, answered) ==
    /\ "register" \in client[j].sent
    /\ registry' = Entered(j, client[j].at)
    /\ LET c == Without(j, "register")
       IN Dealt(j, IF answered THEN Registered(c) ELSE Failing(c, "register"))
    /\ IF answered THEN UNCHANGED troubles ELSE Trouble
    /\ UNCHANGED <<job, alloc, disk, poll, asked, page, spared>>

\* A heartbeat arrives and is answered at once; one that is lost is silence.
Heartbeat(j) ==
    /\ client[j].up /\ client[j].known /\ ~client[j].leaving
    /\ LET a == client[j].at
       IN IF Listed(a)
          THEN registry' = [registry EXCEPT ![a] = [@ EXCEPT !.online = TRUE, !.quiet = 0]] /\ UNCHANGED client
          ELSE client' = [client EXCEPT ![j] = NotFound(@)] /\ UNCHANGED registry
    /\ HeadOnly

Evicted(a) == [b \in Addresses |-> IF b = a THEN Unlisted ELSE registry[b]]

ReceiveUnregister(j) ==
    /\ "unregister" \in client[j].sent
    /\ registry' = Evicted(client[j].at)
    /\ Dealt(j, Without(j, "unregister"))
    /\ HeadOnly

ReceiveLate(j, request, a) ==
    /\ <<request, a>> \in client[j].late
    /\ registry' = IF request = "register" THEN Entered(j, a) ELSE Evicted(a)
    /\ Outlived(j, request, a)
    /\ HeadOnly

\* Time: 90 seconds, then 180, without a heartbeat.  A server that runs has trouble
\* then: its node is saturated, or the network is.
Quiet(a) ==
    /\ Listed(a) /\ registry[a].quiet < 2
    /\ IF Serving(a) THEN Trouble ELSE UNCHANGED troubles
    /\ registry' = [registry EXCEPT ![a].quiet = @ + 1]
    /\ UNCHANGED <<job, client, alloc, disk, poll, asked, page, spared>>

\* checkServerHealth: removed after 180 seconds, marked after 90.  The poll that is due
\* at once then may come at any time here.
Stale(a) == IF registry[a].quiet = 2 THEN Unlisted ELSE [registry[a] EXCEPT !.online = FALSE]

CheckServerHealth(a) ==
    /\ registry[a].quiet > 0 /\ Stale(a) # registry[a]
    /\ registry' = [registry EXCEPT ![a] = Stale(a)]
    /\ UNCHANGED <<job, client, alloc, disk, poll, asked, page, troubles, spared>>

-----------------------------------------------------------------------------
(* Allocations *)

\* create: the scheduler takes the job ...
Submit(j) ==
    /\ job[j] = "none" /\ \A k \in 1..(j - 1) : job[k] # "none"
    /\ job' = [job EXCEPT ![j] = "pending"]
    /\ asked' = [asked EXCEPT !.create = @ \cup {j}]
    /\ UNCHANGED <<client, registry, alloc, disk, poll, page, troubles, spared>>

\* ... and its number makes the allocation, which is saved.
Recorded(j) ==
    /\ j \in asked.create
    /\ alloc' = [alloc EXCEPT ![j].state = "pending"]
    /\ disk' = alloc'
    /\ asked' = [asked EXCEPT !.create = @ \ {j}]
    /\ UNCHANGED <<job, client, registry, poll, page, troubles, spared>>

\* cancel: scancel may fail, which is only logged ...
Cancel(j, reached) ==
    /\ alloc[j].state \in Live /\ j \notin asked.cancel
    /\ asked' = [asked EXCEPT !.cancel = @ \cup {j}]
    /\ IF reached
       THEN /\ UNCHANGED <<troubles, spared>>
            /\ IF job[j] \in {"pending", "running"}
               THEN job' = [job EXCEPT ![j] = "cancelled"] /\ ProcessEnds(j)
               ELSE UNCHANGED <<job, client, page>>
       ELSE Trouble /\ spared' = spared \cup {j} /\ UNCHANGED <<job, client, page>>
    /\ UNCHANGED <<registry, alloc, disk, poll>>

\* ... then the server leaves the list and the allocation is saved as cancelled.
Cancelled(j) ==
    /\ j \in asked.cancel
    /\ registry' = IF alloc[j].server # NoAddress THEN Evicted(alloc[j].server) ELSE registry
    /\ alloc' = [alloc EXCEPT ![j].state = "cancelled"]
    /\ disk' = alloc'
    /\ asked' = [asked EXCEPT !.cancel = @ \ {j}]
    /\ UNCHANGED <<job, client, poll, page, troubles, spared>>

\* A poll comes with the timer when the previous one is over, and at once, even if one
\* is under way, after a create or when a server is reported lost.
Unseen(i) == {j \in Jobs : alloc[j].state \in Live} \ poll[i].seen

PollStarts(i) ==
    /\ ~poll[i].on /\ Unseen(i) # {}
    /\ poll' = [poll EXCEPT ![i].on = TRUE]
    /\ UNCHANGED <<job, client, registry, alloc, disk, asked, page, troubles, spared>>

\* The next allocation: has a server registered with its token?  Then the scheduler
\* is asked.
PollVisits(i, j) ==
    /\ poll[i].on /\ poll[i].at = NoJob /\ j \in Unseen(i)
    /\ LET here == {a \in Addresses : registry[a].token = j}
       IN IF alloc[j].server = NoAddress /\ here # {}
          THEN /\ \E a \in here : alloc' = [alloc EXCEPT ![j] = [state |-> "active", server |-> a]]
               /\ poll' = [poll EXCEPT ![i].at = j, ![i].dirty = TRUE]
          ELSE poll' = [poll EXCEPT ![i].at = j] /\ UNCHANGED alloc
    /\ UNCHANGED <<job, client, registry, disk, asked, page, troubles, spared>>

\* squeue, or sacct for a job that is over; when both fail the answer is "unknown",
\* which is also what the code makes of a job that was preempted
PollQueries(i, fails) ==
    /\ poll[i].at # NoJob /\ poll[i].answer = "none"
    /\ IF fails THEN Trouble ELSE UNCHANGED troubles
    /\ poll' = [poll EXCEPT ![i].answer =
         IF fails \/ job[poll[i].at] = "preempted" THEN "unknown" ELSE job[poll[i].at]]
    /\ UNCHANGED <<job, client, registry, alloc, disk, asked, page, spared>>

\* Faulty variant: a job that the scheduler does not know is over.
Outcome_Unknown(answer) ==
    CASE answer = "failed" -> "failed" [] answer = "cancelled" -> "cancelled"
      [] answer \in {"completed", "unknown"} -> "ended" [] OTHER -> "none"
\* Faulty variant: a job that was cancelled behind the head's back is still followed.
Outcome_Kept(answer) ==
    CASE answer = "failed" -> "failed" [] answer = "completed" -> "ended" [] OTHER -> "none"
\* What the answer makes of the allocation, if it is over
Outcome(answer) ==
    CASE answer = "failed" -> "failed" [] answer = "cancelled" -> "cancelled"
      [] answer = "completed" -> "ended" [] OTHER -> "none"

\* The answer is applied, whatever has become of the allocation meanwhile.
PollApplies(i) ==
    /\ poll[i].answer # "none"
    /\ LET j == poll[i].at
           over == Outcome(poll[i].answer)
           promoted == poll[i].answer = "running" /\ alloc[j].state = "pending"
           done == [poll[i] EXCEPT !.at = NoJob, !.answer = "none", !.seen = @ \cup {j}]
       IN /\ alloc' = [alloc EXCEPT ![j].state =
                IF promoted THEN "running" ELSE IF over # "none" THEN over ELSE @]
          /\ registry' = IF over # "none" /\ alloc[j].server # NoAddress
                         THEN Evicted(alloc[j].server) ELSE registry
          /\ poll' = [poll EXCEPT ![i] =
                IF promoted \/ over # "none" THEN [done EXCEPT !.dirty = TRUE] ELSE done]
    /\ UNCHANGED <<job, client, disk, asked, page, troubles, spared>>

\* All are seen; what has changed is saved.
PollEnds(i) ==
    /\ poll[i].on /\ poll[i].at = NoJob /\ Unseen(i) = {}
    /\ disk' = IF poll[i].dirty THEN alloc ELSE disk
    /\ poll' = [poll EXCEPT ![i] = NoPoll]
    /\ UNCHANGED <<job, client, registry, alloc, asked, page, troubles, spared>>

\* loadPersisted: the registry is empty, so live allocations look for their server again
Reloaded ==
    [j \in Jobs |->
      IF disk[j].state \in Live
      THEN [state |-> IF disk[j].state = "active" THEN "running" ELSE disk[j].state, server |-> NoAddress]
      ELSE disk[j]]

\* The head server stops at any moment, and starts again.
HeadRestarts ==
    /\ Trouble
    /\ registry' = [a \in Addresses |-> Unlisted]
    /\ alloc' = Reloaded
    /\ poll' = [i \in Polls |-> NoPoll]
    /\ asked' = [create |-> {}, cancel |-> {}]
    /\ page' = [page EXCEPT !.state = IF @ = "open" THEN "retrying" ELSE @, !.gone = 0]
    /\ UNCHANGED <<job, client, disk, spared>>

-----------------------------------------------------------------------------
(* The page *)

\* A kernel is started on a server of the list.
StartKernel(j, a) ==
    /\ page.state = "none" /\ registry[a].online /\ Listening(j, a)
    /\ page' = [page EXCEPT !.job = j, !.at = a, !.alive = TRUE, !.state = "open"]
    /\ UNCHANGED <<job, client, registry, alloc, disk, poll, asked, troubles, spared>>

ConnectionBreaks ==
    /\ page.state = "open" /\ Trouble
    /\ page' = [page EXCEPT !.state = "retrying"]
    /\ UNCHANGED <<job, client, registry, alloc, disk, poll, asked, spared>>

\* Faulty variant: only an allocation that ended in order has ended.
StatusIsGone_Ended(a) == \E j \in Jobs : alloc[j].server = a /\ alloc[j].state = "ended"
\* The status of a kernel on a server that is not listed: 410 if the newest allocation
\* that had the server is over, 503 otherwise
StatusIsGone(a) ==
    \E j \in Jobs :
      /\ alloc[j].server = a /\ alloc[j].state \in Terminal
      /\ \A k \in Jobs : k > j => alloc[k].server # a

\* Faulty variant: one report more is not believed.
Tolerated_More == 3
\* Two reports are not believed.
Tolerated == 2

\* One turn of the reconnect loop.  A server that is listed is asked itself.
AskStatus ==
    /\ page.state = "retrying"
    /\ IF Listed(page.at)
       THEN page' = [page EXCEPT !.gone = 0, !.state = IF page.alive THEN "open" ELSE @]
       ELSE page' = IF ~StatusIsGone(page.at) THEN [page EXCEPT !.gone = 0]
                    ELSE IF page.gone < Tolerated THEN [page EXCEPT !.gone = @ + 1]
                    ELSE [page EXCEPT !.gone = 0, !.state = "dead"]
    /\ UNCHANGED <<job, client, registry, alloc, disk, poll, asked, troubles, spared>>

Next ==
    \/ \E j \in Jobs :
         \/ Starts(j) \/ Completes(j)
         \/ \E state \in Over \cup {"preempted", "pending"} : Killed(j, state)
         \/ RetryTimer(j) \/ Heartbeat(j) \/ Leaves(j) \/ Exits(j)
         \/ \E request \in Request : LoseRequest(j, request)
         \/ \E answered \in BOOLEAN : ReceiveRegister(j, answered)
         \/ ReceiveUnregister(j)
         \/ \E request \in Request, a \in Addresses : LoseLate(j, request, a) \/ ReceiveLate(j, request, a)
         \/ Submit(j) \/ Recorded(j) \/ Cancelled(j)
         \/ \E reached \in BOOLEAN : Cancel(j, reached)
         \/ \E i \in Polls : PollVisits(i, j)
         \/ \E a \in Addresses : Launches(j, a) \/ StartKernel(j, a)
    \/ \E a \in Addresses : Quiet(a) \/ CheckServerHealth(a)
    \/ \E i \in Polls :
         \/ PollStarts(i) \/ PollApplies(i) \/ PollEnds(i)
         \/ \E fails \in BOOLEAN : PollQueries(i, fails)
    \/ HeadRestarts \/ ConnectionBreaks \/ AskStatus

\* Timers fire, requests that are not lost are answered, the scheduler answers, and a
\* server that was told to end does so within three seconds (index.ts:765); what jobs,
\* servers and users do is up to them.
Fairness ==
    /\ \A j \in Jobs :
         /\ WF_vars(RetryTimer(j)) /\ WF_vars(Heartbeat(j))
         /\ WF_vars(ReceiveRegister(j, TRUE)) /\ WF_vars(ReceiveUnregister(j))
         /\ \A request \in Request, a \in Addresses : WF_vars(ReceiveLate(j, request, a))
         /\ WF_vars(Recorded(j)) /\ WF_vars(Cancelled(j)) /\ WF_vars(Exits(j))
    /\ \A a \in Addresses :
         WF_vars(Quiet(a) /\ ~Serving(a)) /\ WF_vars(CheckServerHealth(a))
    /\ \A i \in Polls :
         /\ WF_vars(PollStarts(i)) /\ WF_vars(PollApplies(i)) /\ WF_vars(PollEnds(i))
         /\ WF_vars(PollQueries(i, FALSE)) /\ \A j \in Jobs : WF_vars(PollVisits(i, j))
    /\ WF_vars(AskStatus)

Spec == Init /\ [][Next]_vars /\ Fairness

-----------------------------------------------------------------------------
(* Properties *)

\* No step leaves an allocation that counts as over with a job in the queue or on a
\* node, whatever was lost, restarted or answered late, unless scancel failed for it
\* (allocation-service.ts:256-285).  "The scheduler is the authority"
\* (routes/kernel.ts:793): a page gives its kernel up only when the kernel has ended;
\* not while the node is busy, the network broken or the head restarting, except
\* where another allocation had the same host and port at that moment.
Reused == \E j \in Jobs \ {page.job} : alloc[j].server = page.at \/ Listening(j, page.at)
OverIsOver ==
    \A j \in Jobs : alloc[j].state \in Terminal => job[j] \notin {"pending", "running"} \/ j \in spared
GivesUpEnded ==
    page.state # "dead" /\ page'.state = "dead" /\ page.alive => page.job \in spared \/ Reused
GivenUpIsOver == [][OverIsOver' /\ GivesUpEnded]_vars

\* An allocation whose job is over becomes terminal, unless the scheduler does not
\* say so (of a job that was preempted).
JobEndNoticed ==
    \A j \in Jobs : alloc[j].state \in Live /\ job[j] \in Over ~> alloc[j].state \in Terminal

\* A server that stays up is listed under its token and its allocation is active
\* again, after any loss, restart, eviction or missed heartbeat; one that has ended
\* leaves the list, also when its last requests arrive late.
Staying(j) == client[j].up /\ ~client[j].leaving /\ alloc[j].state \in Live
ListSettles ==
    /\ \A j \in Jobs : Staying(j) ~>
         \/ ~Staying(j)
         \/ alloc[j].state = "active" /\ registry[client[j].at].token = j /\ registry[client[j].at].online
    /\ \A j \in Jobs, a \in Addresses :
         registry[a].token = j /\ ~client[j].up ~> registry[a].token # j \/ client[j].up

\* A page stops to reconnect to a kernel whose allocation has ended with its server
\* on record, unless a server runs at that address again and is asked instead, or
\* the head forgets the record by a restart before it is saved.
PageLearns ==
    page.state = "retrying" /\ ~page.alive /\ alloc[page.job].state \in Terminal /\ alloc[page.job].server = page.at
      ~> page.state # "retrying" \/ Reused \/ Serving(page.at) \/ alloc[page.job].server # page.at
=============================================================================
