--------------------------- MODULE ClusterProofs ---------------------------
(***************************************************************************)
(* Type correctness of Cluster, and that an allocation which counts as     *)
(* over has no job left and a page gives up no kernel that lives, for any  *)
(* number of jobs, addresses, overlapping polls and troubles.              *)
(***************************************************************************)
EXTENDS Cluster, TLAPS

\* The types of the parts of the state, one by one
Entry == [token : Jobs \cup {NoJob}, online : BOOLEAN, quiet : 0..2]
Poll == [on : BOOLEAN, at : Jobs \cup {NoJob}, seen : SUBSET Jobs,
         answer : JobState \cup {"unknown"}, dirty : BOOLEAN]
Page == [job : Jobs \cup {NoJob}, at : Places, alive : BOOLEAN,
         state : {"none", "open", "retrying", "dead"}, gone : 0..2]

\* An answer is for an allocation that is being visited.
Visiting == \A i \in Polls : poll[i].answer # "none" => poll[i].at \in Jobs
Typed == TypeOK /\ Visiting

-----------------------------------------------------------------------------
(* Types of the values that the actions build *)

\* The records that stand for "nothing" have their types.
LEMMA Constants == /\ Unlisted \in Entry /\ Untracked \in Allocation
                   /\ Absent \in Client /\ NoPoll \in Poll
BY DEF Unlisted, Untracked, Absent, NoPoll, Entry, Allocation, Client, Poll, Request,
       JobState, NoJob, Places

\* Any record with the fields of a server of a job is one.
LEMMA ClientType ==
    ASSUME NEW c \in Client, NEW b \in BOOLEAN, NEW s \in SUBSET Request
    PROVE  /\ [c EXCEPT !.sent = s] \in Client
           /\ [c EXCEPT !.retry = b] \in Client
           /\ [c EXCEPT !.sent = s, !.retry = b] \in Client
           /\ [c EXCEPT !.registered = b, !.sent = s] \in Client
           /\ \A a \in Places : [c EXCEPT !.at = a, !.up = b, !.sent = s] \in Client
BY DEF Client

\* Changes of a job's client keep its type.
LEMMA ClientType2 ==
    ASSUME NEW c \in Client, NEW b \in BOOLEAN, NEW d \in BOOLEAN, NEW s \in SUBSET Request
    PROVE  /\ [c EXCEPT !.known = b, !.registered = d] \in Client
           /\ [c EXCEPT !.leaving = b, !.retry = d, !.sent = s] \in Client
BY DEF Client

\* What becomes of a server's requests and registration is a server's record again.
LEMMA OutcomesType ==
    ASSUME NEW c \in Client, NEW request \in Request
    PROVE  NotFound(c) \in Client /\ Registered(c) \in Client /\ Failing(c, request) \in Client
<1>1. c.sent \cup {"register"} \in SUBSET Request
  BY DEF Client, Request
<1>2. TRUE \in BOOLEAN /\ FALSE \in BOOLEAN
  OBVIOUS
<1>3. NotFound(c) \in Client
  BY <1>1, <1>2, ClientType, Zenon DEF NotFound
<1>4. Registered(c) \in Client
  BY <1>2, <1>1, ClientType2, Zenon DEF Registered
<1>5. Failing(c, request) \in Client
  BY <1>1, <1>2, ClientType, Zenon DEF Failing
<1> QED BY <1>3, <1>4, <1>5

\* A client that has lost a request is a client.
LEMMA WithoutType ==
    ASSUME TypeOK, NEW j \in Jobs, NEW request
    PROVE  Without(j, request) \in Client
<1>1. client[j] \in Client
  BY DEF TypeOK
<1>2. client[j].sent \ {request} \in SUBSET Request
  BY <1>1 DEF Client
<1> QED BY <1>1, <1>2, ClientType, Zenon DEF Without

\* A request that is dealt with leaves every server typed.
LEMMA DealtType ==
    ASSUME TypeOK, NEW j \in Jobs, NEW after \in Client, Dealt(j, after)
    PROVE  client' \in [Jobs -> Client]
BY DEF TypeOK, Dealt

\* So does the arrival or the loss of a request that has outlived its server.
LEMMA OutlivedType ==
    ASSUME TypeOK, NEW j \in Jobs, NEW request, NEW a, Outlived(j, request, a)
    PROVE  client' \in [Jobs -> Client]
<1> DEFINE l == client[j].late \ {<<request, a>>}
<1>1. client \in [Jobs -> Client] /\ client[j] \in Client
  BY DEF TypeOK
<1>2. l \in SUBSET (Request \X Places)
  BY <1>1 DEF Client
<1>3. client' = [client EXCEPT ![j] = [client[j] EXCEPT !.late = l]]
  BY <1>1 DEF Outlived
<1> HIDE DEF l
<1>4. [client[j] EXCEPT !.late = l] \in Client
  BY <1>1, <1>2 DEF Client
<1> QED BY <1>1, <1>3, <1>4

\* So does the end of a process, and the page keeps its type.
LEMMA ProcessEndsType ==
    ASSUME TypeOK, NEW j \in Jobs, ProcessEnds(j)
    PROVE  client' \in [Jobs -> Client] /\ page' \in Page
<1> DEFINE l == client[j].late \cup (client[j].sent \X {client[j].at})
<1>1. client[j] \in Client
  BY DEF TypeOK
<1>2. l \in SUBSET (Request \X Places)
  BY <1>1 DEF Client
<1>3. [Absent EXCEPT !.late = l] \in Client
  <2> HIDE DEF l
  <2> QED BY <1>2, Constants DEF Client
<1>4. client' \in [Jobs -> Client]
  <2>1. client' = [client EXCEPT ![j] = [Absent EXCEPT !.late = l]]
    BY DEF ProcessEnds
  <2> HIDE DEF l
  <2> QED BY <1>3, <2>1 DEF TypeOK
<1>5. page \in Page
  BY DEF TypeOK, Page
<1>6. ASSUME NEW b \in BOOLEAN
      PROVE  [page EXCEPT !.alive = b, !.state = IF @ = "open" THEN "retrying" ELSE @] \in Page
  BY <1>5, <1>6 DEF Page
<1>7. FALSE \in BOOLEAN
  OBVIOUS
<1>8. [page EXCEPT !.alive = FALSE, !.state = IF @ = "open" THEN "retrying" ELSE @] \in Page
  BY <1>6, <1>7, Zenon
<1> QED BY <1>4, <1>5, <1>8 DEF ProcessEnds

\* TypeOK with the named parts.
LEMMA TypeParts ==
    TypeOK <=> /\ job \in [Jobs -> JobState] /\ client \in [Jobs -> Client]
               /\ registry \in [Addresses -> Entry]
               /\ alloc \in [Jobs -> Allocation] /\ disk \in [Jobs -> Allocation]
               /\ poll \in [Polls -> Poll]
               /\ asked \in [create : SUBSET Jobs, cancel : SUBSET Jobs]
               /\ page \in Page
               /\ troubles \in 0..MaxTroubles
               /\ spared \subseteq Jobs
BY DEF TypeOK, Entry, Poll, Page

\* A registry in which a server has been entered is a registry.
LEMMA EnteredType ==
    ASSUME TypeOK, NEW j \in Jobs, NEW a
    PROVE  Entered(j, a) \in [Addresses -> Entry]
<1>1. [token |-> j, online |-> TRUE, quiet |-> 0] \in Entry
  BY DEF Entry
<1> QED BY <1>1, TypeParts DEF Entered

\* So is one from which an address has been dropped.
LEMMA EvictedType ==
    ASSUME TypeOK, NEW a
    PROVE  Evicted(a) \in [Addresses -> Entry]
BY Constants DEF Evicted, TypeOK, Entry

\* Troubles are counted up to their bound.
LEMMA TroubleType == TypeOK /\ (Trouble \/ UNCHANGED troubles) => troubles' \in 0..MaxTroubles
BY BoundAssumption DEF TypeOK, Trouble

\* A heartbeat is noted in an entry.
LEMMA HeardType ==
    ASSUME NEW e \in Entry, NEW f \in BOOLEAN
    PROVE  [e EXCEPT !.online = f, !.quiet = 0] \in Entry
<1>1. ASSUME NEW q \in 0..2 PROVE [e EXCEPT !.online = f, !.quiet = q] \in Entry
  BY DEF Entry
<1>2. 0 \in 0..2
  OBVIOUS
<1> QED BY <1>1, <1>2, Zenon

-----------------------------------------------------------------------------
(* Type correctness *)

\* The initial state has its types.
LEMMA TypeInit == Init => Typed
<1> SUFFICES ASSUME Init PROVE Typed
  OBVIOUS
<1>1. /\ job \in [Jobs -> JobState] /\ client \in [Jobs -> Client]
      /\ registry \in [Addresses -> Entry]
      /\ alloc \in [Jobs -> Allocation] /\ disk \in [Jobs -> Allocation]
      /\ poll \in [Polls -> Poll]
  BY Constants DEF Init, JobState
<1>2. page \in Page /\ asked \in [create : SUBSET Jobs, cancel : SUBSET Jobs] /\ spared \subseteq Jobs
  BY DEF Init, Page, Places
<1>3. troubles \in 0..MaxTroubles
  BY BoundAssumption DEF Init
<1>4. Visiting
  BY DEF Init, Visiting, NoPoll
<1> QED BY <1>1, <1>2, <1>3, <1>4, TypeParts DEF Typed

\* Jobs, their servers and the requests of these
LEMMA JobsType ==
    ASSUME Typed, NEW j \in Jobs,
           \/ Starts(j) \/ Completes(j)
           \/ \E state \in Over \cup {"preempted", "pending"} : Killed(j, state)
           \/ RetryTimer(j) \/ Heartbeat(j) \/ Leaves(j) \/ Exits(j)
           \/ \E request \in Request : LoseRequest(j, request)
           \/ \E answered \in BOOLEAN : ReceiveRegister(j, answered)
           \/ ReceiveUnregister(j)
           \/ \E request \in Request, a \in Addresses : LoseLate(j, request, a) \/ ReceiveLate(j, request, a)
           \/ \E a \in Addresses : Launches(j, a)
    PROVE  Typed'
<1> USE TypeParts DEF Typed
<1>1. client[j] \in Client /\ client[j].sent \in SUBSET Request
  BY DEF Client
<1>2. ASSUME UNCHANGED <<registry, alloc, disk, poll, asked, spared>>, job' \in [Jobs -> JobState],
             client' \in [Jobs -> Client], page' \in Page, Trouble \/ UNCHANGED troubles
      PROVE  Typed'
  BY <1>2, TroubleType DEF TypeOK, Visiting, Page
<1>3. ASSUME UNCHANGED <<job, alloc, disk, poll, asked, page, spared>>, Trouble \/ UNCHANGED troubles,
             client' \in [Jobs -> Client], registry' \in [Addresses -> Entry]
      PROVE  Typed'
  BY <1>3, TroubleType DEF TypeOK, Visiting, Entry
<1>4. CASE Starts(j) \/ Completes(j)
  BY <1>4, <1>2 DEF Starts, Completes, JobState, Over
<1>5. ASSUME NEW state \in Over \cup {"preempted", "pending"}, Killed(j, state) PROVE Typed'
  <2>1. job' \in [Jobs -> JobState]
    BY <1>5 DEF Killed, JobState
  <2> QED BY <1>2, <1>5, <2>1, ProcessEndsType DEF Killed
<1>6. TRUE \in BOOLEAN /\ FALSE \in BOOLEAN /\ "register" \in Request /\ "unregister" \in Request
  BY DEF Request
<1>7. ASSUME NEW s \in SUBSET Request, NEW r \in Request PROVE s \cup {r} \in SUBSET Request
  OBVIOUS
<1>8. CASE RetryTimer(j)
  <2> DEFINE s == client[j].sent \cup {"register"}
             c == [client[j] EXCEPT !.sent = s, !.retry = FALSE]
  <2>1. s \in SUBSET Request
    BY <1>1, <1>6
  <2>2. client' = [client EXCEPT ![j] = c]
    BY <1>8 DEF RetryTimer
  <2>3. c \in Client
    <3> HIDE DEF s
    <3> QED BY <2>1, <1>1, <1>6, ClientType, Zenon
  <2> HIDE DEF c
  <2>4. client' \in [Jobs -> Client]
    BY <2>2, <2>3
  <2> QED BY <1>2, <1>8, <2>4 DEF RetryTimer, ClientOnly
<1>9. CASE Heartbeat(j)
  <2>1. client' \in [Jobs -> Client]
    BY <1>9, <1>1, <1>6, OutcomesType DEF Heartbeat
  <2>2. registry' \in [Addresses -> Entry]
    <3> DEFINE a == client[j].at
               heard == [registry[a] EXCEPT !.online = TRUE, !.quiet = 0]
    <3>1. ASSUME NEW e \in Entry, NEW f \in BOOLEAN PROVE [e EXCEPT !.online = f, !.quiet = 0] \in Entry
      BY HeardType
    <3>2. registry \in [Addresses -> Entry]
      OBVIOUS
    <3>3. a \in Addresses => heard \in Entry
      <4> SUFFICES ASSUME a \in Addresses PROVE heard \in Entry
        OBVIOUS
      <4>1. registry[a] \in Entry
        OBVIOUS
      <4> HIDE DEF a
      <4> QED BY <1>6, <3>1, <4>1, Zenon
    <3>4. registry' \in {registry, [registry EXCEPT ![a] = heard]}
      BY <1>9 DEF Heartbeat
    <3> HIDE DEF heard, a
    <3> QED BY <3>2, <3>3, <3>4
  <2> QED BY <1>3, <1>9, <2>1, <2>2 DEF Heartbeat, HeadOnly
<1>10. CASE Leaves(j)
  <2> DEFINE s == IF client[j].registered THEN client[j].sent \cup {"unregister"} ELSE client[j].sent
             c == [client[j] EXCEPT !.leaving = TRUE, !.retry = FALSE, !.sent = s]
  <2>1. s \in SUBSET Request
    BY <1>1, <1>6
  <2>2. c \in Client
    <3> HIDE DEF s
    <3> QED BY <2>1, <1>1, <1>6, ClientType2, Zenon
  <2>3. client' = [client EXCEPT ![j] = c]
    BY <1>10 DEF Leaves
  <2> HIDE DEF c
  <2>4. client' \in [Jobs -> Client]
    BY <2>2, <2>3
  <2> QED BY <1>2, <1>10, <2>4 DEF Leaves, ClientOnly
<1>11. CASE Exits(j)
  BY <1>2, <1>11, ProcessEndsType DEF Exits, JobState
<1>12. ASSUME NEW request \in Request, LoseRequest(j, request) PROVE Typed'
  <2>1. Failing(Without(j, request), request) \in Client
    BY WithoutType, OutcomesType
  <2>2. client' \in [Jobs -> Client]
    BY <1>12, <2>1, DealtType DEF LoseRequest
  <2> QED BY <1>2, <1>12, <2>2 DEF LoseRequest
<1>13. ASSUME NEW answered \in BOOLEAN, ReceiveRegister(j, answered) PROVE Typed'
  <2> DEFINE c == Without(j, "register")
             after == IF answered THEN Registered(c) ELSE Failing(c, "register")
  <2>1. after \in Client
    BY <1>6, WithoutType, OutcomesType
  <2>2. Dealt(j, after)
    BY <1>13 DEF ReceiveRegister
  <2>3. client' \in [Jobs -> Client]
    BY <2>1, <2>2, DealtType
  <2>4. registry' \in [Addresses -> Entry]
    BY <1>13, EnteredType DEF ReceiveRegister
  <2> QED BY <1>3, <1>13, <2>3, <2>4 DEF ReceiveRegister
<1>14. CASE ReceiveUnregister(j)
  <2>1. client' \in [Jobs -> Client]
    BY <1>14, WithoutType, DealtType DEF ReceiveUnregister
  <2>2. registry' \in [Addresses -> Entry]
    BY <1>14, EvictedType DEF ReceiveUnregister
  <2> QED BY <1>3, <1>14, <2>1, <2>2 DEF ReceiveUnregister, HeadOnly
<1>15. ASSUME NEW a \in Addresses, Launches(j, a) PROVE Typed'
  <2> DEFINE c == [client[j] EXCEPT !.at = a, !.up = TRUE, !.sent = {"register"}]
  <2>1. {"register"} \in SUBSET Request /\ a \in Places
    BY <1>6 DEF Places
  <2>2. c \in Client
    BY <2>1, <1>1, <1>6, ClientType, Zenon
  <2>3. client' = [client EXCEPT ![j] = c]
    BY <1>15 DEF Launches
  <2> HIDE DEF c
  <2>4. client' \in [Jobs -> Client]
    BY <2>2, <2>3
  <2> QED BY <1>2, <1>15, <2>4 DEF Launches
<1>16. ASSUME NEW request \in Request, NEW a \in Addresses, LoseLate(j, request, a) \/ ReceiveLate(j, request, a)
       PROVE  Typed'
  <2>1. client' \in [Jobs -> Client]
    BY <1>16, OutlivedType DEF LoseLate, ReceiveLate
  <2>2. registry' \in [Addresses -> Entry]
    BY <1>16, EnteredType, EvictedType DEF LoseLate, ReceiveLate, ClientOnly
  <2> QED BY <1>3, <1>16, <2>1, <2>2 DEF LoseLate, ReceiveLate, ClientOnly, HeadOnly
<1> QED BY <1>4, <1>5, <1>8, <1>9, <1>10, <1>11, <1>12, <1>13, <1>14, <1>15, <1>16

\* The registry, the allocations and the page
LEMMA RegistryType ==
    ASSUME Typed, NEW a \in Addresses, Quiet(a) \/ CheckServerHealth(a)
    PROVE  Typed'
<1> USE TypeParts DEF Typed
<1>1. ASSUME UNCHANGED <<job, client, alloc, disk, poll, asked, page, spared>>,
             Trouble \/ UNCHANGED troubles, registry' \in [Addresses -> Entry]
      PROVE  Typed'
  BY <1>1, TroubleType DEF TypeOK, Visiting, Entry
<1>2. CASE Quiet(a)
  <2>1. registry' \in [Addresses -> Entry]
    BY <1>2 DEF Quiet, Entry
  <2> QED BY <1>1, <1>2, <2>1 DEF Quiet
<1>3. CASE CheckServerHealth(a)
  <2>1. ASSUME NEW f \in BOOLEAN PROVE [registry[a] EXCEPT !.online = f] \in Entry
    BY DEF Entry
  <2>2. [registry[a] EXCEPT !.online = FALSE] \in Entry
    <3>1. FALSE \in BOOLEAN
      OBVIOUS
    <3> QED BY <2>1, <3>1, Zenon
  <2>3. Stale(a) \in Entry
    BY <2>2, Constants DEF Stale
  <2> QED BY <1>1, <1>3, <2>3 DEF CheckServerHealth
<1> QED BY <1>2, <1>3

\* Submitting and cancelling allocations keep the types.
LEMMA AllocationsType ==
    ASSUME Typed, NEW j \in Jobs,
           Submit(j) \/ Recorded(j) \/ Cancelled(j) \/ (\E reached \in BOOLEAN : Cancel(j, reached))
    PROVE  Typed'
<1> USE TypeParts DEF Typed
<1>1. ASSUME NEW s \in {"none"} \cup Live \cup Terminal
      PROVE  [alloc EXCEPT ![j].state = s] \in [Jobs -> Allocation]
  BY DEF Allocation
<1>2. CASE Submit(j)
  BY <1>2 DEF Submit, TypeOK, Visiting, JobState
<1>3. CASE Recorded(j)
  <2>1. alloc' \in [Jobs -> Allocation]
    BY <1>1, <1>3 DEF Recorded, Live
  <2> QED BY <1>3, <2>1 DEF Recorded, TypeOK, Visiting
<1>4. CASE Cancelled(j)
  <2>1. alloc' \in [Jobs -> Allocation]
    BY <1>1, <1>4 DEF Cancelled, Terminal
  <2>2. registry' \in [Addresses -> Entry]
    BY <1>4, EvictedType DEF Cancelled
  <2>3. asked' \in [create : SUBSET Jobs, cancel : SUBSET Jobs]
    BY <1>4 DEF Cancelled
  <2> QED BY <1>4, <2>1, <2>2, <2>3 DEF Cancelled, TypeOK, Visiting, Entry
<1>5. ASSUME NEW reached \in BOOLEAN, Cancel(j, reached) PROVE Typed'
  <2>1. asked' \in [create : SUBSET Jobs, cancel : SUBSET Jobs] /\ spared' \subseteq Jobs
    BY <1>5 DEF Cancel
  <2>2. job' \in [Jobs -> JobState] /\ client' \in [Jobs -> Client] /\ page' \in Page
    BY <1>5, ProcessEndsType DEF Cancel, JobState, Over
  <2>3. troubles' \in 0..MaxTroubles
    BY <1>5, TroubleType DEF Cancel
  <2> QED BY <1>5, <2>1, <2>2, <2>3 DEF Cancel, TypeOK, Visiting, Page
<1> QED BY <1>2, <1>3, <1>4, <1>5

\* A step of the polls changes one poll, the allocations, the registry and the disk.
LEMMA PollsType ==
    ASSUME Typed, NEW i \in Polls, NEW q \in Poll, poll' = [poll EXCEPT ![i] = q],
           q.answer # "none" => q.at \in Jobs,
           UNCHANGED <<job, client, asked, page, spared>>, Trouble \/ UNCHANGED troubles,
           alloc' \in [Jobs -> Allocation], disk' \in [Jobs -> Allocation],
           registry' \in [Addresses -> Entry]
    PROVE  Typed'
<1>1. poll' \in [Polls -> Poll] /\ Visiting'
  BY TypeParts DEF Typed, Visiting
<1>2. troubles' \in 0..MaxTroubles
  BY TroubleType DEF Typed
<1> QED BY <1>1, <1>2 DEF Typed, TypeOK, Entry, Poll

\* The steps of the polls keep the types.
LEMMA PollingType ==
    ASSUME Typed, NEW i \in Polls,
           \/ PollStarts(i) \/ PollApplies(i) \/ PollEnds(i)
           \/ \E fails \in BOOLEAN : PollQueries(i, fails)
           \/ \E j \in Jobs : PollVisits(i, j)
    PROVE  Typed'
<1> USE DEF Typed
<1>1. /\ poll \in [Polls -> Poll] /\ poll[i] \in Poll /\ alloc \in [Jobs -> Allocation]
      /\ disk \in [Jobs -> Allocation] /\ registry \in [Addresses -> Entry] /\ job \in [Jobs -> JobState]
  BY TypeParts
<1>2. /\ poll[i].at \in Jobs \cup {NoJob} /\ poll[i].answer \in JobState \cup {"unknown"}
      /\ poll[i].seen \in SUBSET Jobs /\ (poll[i].answer # "none" => poll[i].at \in Jobs)
  BY <1>1 DEF Poll, Visiting
<1>3. TRUE \in BOOLEAN
  OBVIOUS
<1>4. CASE PollStarts(i)
  <2> DEFINE q == [poll[i] EXCEPT !.on = TRUE]
  <2>1. q \in Poll
    <3>1. ASSUME NEW r \in Poll, NEW b \in BOOLEAN PROVE [r EXCEPT !.on = b] \in Poll
      BY DEF Poll
    <3> QED BY <1>1, <1>3, <3>1, Zenon
  <2>2. q.answer = poll[i].answer /\ q.at = poll[i].at
    BY <1>1 DEF Poll
  <2>3. poll' = [poll EXCEPT ![i] = q]
    BY <1>4 DEF PollStarts
  <2> HIDE DEF q
  <2> QED BY <1>1, <1>2, <1>4, <2>1, <2>2, <2>3, PollsType DEF PollStarts
<1>5. ASSUME NEW fails \in BOOLEAN, PollQueries(i, fails) PROVE Typed'
  <2>1. poll[i].at \in Jobs
    BY <1>2, <1>5 DEF PollQueries
  <2> DEFINE x == IF fails \/ job[poll[i].at] = "preempted" THEN "unknown" ELSE job[poll[i].at]
             q == [poll[i] EXCEPT !.answer = x]
  <2>2. x \in JobState \cup {"unknown"}
    BY <1>1, <2>1
  <2>3. q \in Poll /\ q.at = poll[i].at
    <3> HIDE DEF x
    <3> QED BY <1>1, <2>2 DEF Poll
  <2>4. poll' = [poll EXCEPT ![i] = q]
    BY <1>5 DEF PollQueries
  <2> HIDE DEF q
  <2> QED BY <1>1, <1>5, <2>1, <2>3, <2>4, PollsType DEF PollQueries
<1>6. ASSUME NEW j \in Jobs, PollVisits(i, j) PROVE Typed'
  <2> DEFINE q == [poll[i] EXCEPT !.at = j]
             d == [poll[i] EXCEPT !.at = j, !.dirty = TRUE]
  <2>1. q \in Poll /\ q.at = j
    BY <1>1 DEF Poll
  <2>2. ASSUME NEW b \in BOOLEAN
        PROVE  [poll[i] EXCEPT !.at = j, !.dirty = b] \in Poll /\ [poll[i] EXCEPT !.at = j, !.dirty = b].at = j
    BY <1>1 DEF Poll
  <2>3. d \in Poll /\ d.at = j
    BY <1>3, <2>2, Zenon
  <2>4. poll' \in {[poll EXCEPT ![i] = q], [poll EXCEPT ![i] = d]}
    BY <1>6 DEF PollVisits
  <2>5. alloc' \in [Jobs -> Allocation]
    <3>1. ASSUME NEW a \in Addresses PROVE [state |-> "active", server |-> a] \in Allocation
      BY DEF Allocation, Live, Places
    <3> QED BY <1>1, <1>6, <3>1 DEF PollVisits
  <2> HIDE DEF q, d
  <2> QED BY <1>1, <1>6, <2>1, <2>3, <2>4, <2>5, PollsType DEF PollVisits
<1>7. CASE PollApplies(i)
  <2> DEFINE j == poll[i].at
             over == Outcome(poll[i].answer)
             promoted == poll[i].answer = "running" /\ alloc[j].state = "pending"
             done == [poll[i] EXCEPT !.at = NoJob, !.answer = "none", !.seen = poll[i].seen \cup {j}]
             dirty == [done EXCEPT !.dirty = TRUE]
  <2>1. j \in Jobs
    BY <1>2, <1>7 DEF PollApplies
  <2>2. over \in {"none"} \cup Terminal
    BY DEF Outcome, Terminal
  <2>3. done \in Poll /\ done.answer = "none"
    <3>1. poll[i].seen \cup {j} \in SUBSET Jobs
      BY <1>2, <2>1
    <3> QED BY <1>1, <3>1 DEF Poll, JobState
  <2>4. dirty \in Poll /\ dirty.answer = "none"
    <3>1. ASSUME NEW r \in Poll, NEW b \in BOOLEAN
          PROVE  [r EXCEPT !.dirty = b] \in Poll /\ [r EXCEPT !.dirty = b].answer = r.answer
      BY DEF Poll
    <3> HIDE DEF done
    <3> QED BY <1>3, <2>3, <3>1, Zenon
  <2>5. poll' \in {[poll EXCEPT ![i] = done], [poll EXCEPT ![i] = dirty]}
    BY <1>7 DEF PollApplies
  <2>6. alloc' \in [Jobs -> Allocation]
    <3> DEFINE s == IF promoted THEN "running" ELSE IF over # "none" THEN over ELSE alloc[j].state
    <3>1. alloc' = [alloc EXCEPT ![j].state = s]
      BY <1>7 DEF PollApplies
    <3>2. s \in {"none"} \cup Live \cup Terminal
      BY <1>1, <2>1, <2>2 DEF Allocation, Live
    <3> HIDE DEF s, j
    <3> QED BY <1>1, <2>1, <3>1, <3>2 DEF Allocation
  <2>7. registry' \in [Addresses -> Entry]
    BY <1>1, <1>7, EvictedType DEF PollApplies
  <2> HIDE DEF done, dirty
  <2> QED BY <1>1, <1>7, <2>3, <2>4, <2>5, <2>6, <2>7, PollsType DEF PollApplies
<1>8. CASE PollEnds(i)
  <2>1. NoPoll \in Poll /\ NoPoll.answer = "none"
    BY Constants DEF NoPoll
  <2>2. disk' \in [Jobs -> Allocation]
    BY <1>1, <1>8 DEF PollEnds
  <2>3. poll' = [poll EXCEPT ![i] = NoPoll]
    BY <1>8 DEF PollEnds
  <2> QED BY <1>1, <1>8, <2>1, <2>2, <2>3, PollsType DEF PollEnds
<1> QED BY <1>4, <1>5, <1>6, <1>7, <1>8

\* A restart of the head keeps the types.
LEMMA HeadType ==
    ASSUME Typed, HeadRestarts
    PROVE  Typed'
<1>1. disk \in [Jobs -> Allocation] /\ page \in Page
  BY TypeParts DEF Typed
<1>2. Reloaded \in [Jobs -> Allocation]
  <2> SUFFICES ASSUME NEW j \in Jobs, disk[j].state \in Live
               PROVE  [state |-> IF disk[j].state = "active" THEN "running" ELSE disk[j].state,
                       server |-> NoAddress] \in Allocation
    BY <1>1 DEF Reloaded
  <2> QED BY DEF Allocation, Live, Places
<1>3. [a \in Addresses |-> Unlisted] \in [Addresses -> Entry]
  BY Constants
<1>4. [i \in Polls |-> NoPoll] \in [Polls -> Poll] /\ NoPoll.answer = "none"
  BY Constants DEF NoPoll
<1>5. [page EXCEPT !.state = IF @ = "open" THEN "retrying" ELSE @, !.gone = 0] \in Page
  <2>1. ASSUME NEW g \in 0..2, NEW t \in {"none", "open", "retrying", "dead"}
        PROVE  [page EXCEPT !.state = t, !.gone = g] \in Page
    BY <1>1 DEF Page
  <2> DEFINE t == IF page.state = "open" THEN "retrying" ELSE page.state
  <2>2. 0 \in 0..2 /\ t \in {"none", "open", "retrying", "dead"}
    BY <1>1 DEF Page
  <2> HIDE DEF t
  <2>3. [page EXCEPT !.state = t, !.gone = 0] \in Page
    BY <2>1, <2>2, Zenon
  <2> QED BY <2>3 DEF t
<1>6. troubles' \in 0..MaxTroubles
  BY TroubleType DEF HeadRestarts, Typed
<1>7. Visiting'
  BY <1>4 DEF HeadRestarts, Visiting
<1>8. [create |-> {}, cancel |-> {}] \in [create : SUBSET Jobs, cancel : SUBSET Jobs]
  OBVIOUS
<1> QED BY <1>2, <1>3, <1>4, <1>5, <1>6, <1>7, <1>8
        DEF HeadRestarts, Typed, TypeOK, Entry, Poll, Page

\* The steps of the page keep the types.
LEMMA PageType ==
    ASSUME Typed, ConnectionBreaks \/ AskStatus \/ \E j \in Jobs, a \in Addresses : StartKernel(j, a)
    PROVE  Typed'
<1>1. page \in Page
  BY TypeParts DEF Typed
<1>2. ASSUME page' \in Page, Trouble \/ UNCHANGED troubles,
             UNCHANGED <<job, client, registry, alloc, disk, poll, asked, spared>>
      PROVE  Typed'
  BY <1>2, TroubleType DEF Typed, TypeOK, Visiting, Page
<1>3. CASE ConnectionBreaks
  BY <1>1, <1>2, <1>3 DEF ConnectionBreaks, Page
<1>4. CASE AskStatus
  <2>1. page.gone \in 0..2
    BY <1>1 DEF Page
  <2>2. ASSUME NEW g \in 0..2, NEW s \in {"none", "open", "retrying", "dead"}
        PROVE  [page EXCEPT !.gone = g] \in Page /\ [page EXCEPT !.gone = g, !.state = s] \in Page
    BY <1>1 DEF Page
  <2>3. 0 \in 0..2
    OBVIOUS
  <2>4. page.gone < Tolerated => page.gone + 1 \in 0..2
    BY <2>1 DEF Tolerated
  <2>5. page.state = "retrying"
    BY <1>4 DEF AskStatus
  <2>6. /\ [page EXCEPT !.gone = 0] \in Page /\ [page EXCEPT !.gone = 0, !.state = "dead"] \in Page
        /\ [page EXCEPT !.gone = 0, !.state = "open"] \in Page
        /\ [page EXCEPT !.gone = 0, !.state = "retrying"] \in Page
        /\ page.gone < Tolerated => [page EXCEPT !.gone = page.gone + 1] \in Page
    BY <2>2, <2>3, <2>4
  <2>7. page' \in Page
    BY <1>4, <2>5, <2>6 DEF AskStatus
  <2> QED BY <1>2, <1>4, <2>7 DEF AskStatus
<1>5. ASSUME NEW j \in Jobs, NEW a \in Addresses, StartKernel(j, a) PROVE Typed'
  <2>1. ASSUME NEW b \in BOOLEAN
        PROVE  [page EXCEPT !.job = j, !.at = a, !.alive = b, !.state = "open"] \in Page
    BY <1>1 DEF Page, Places
  <2>2. TRUE \in BOOLEAN
    OBVIOUS
  <2>3. [page EXCEPT !.job = j, !.at = a, !.alive = TRUE, !.state = "open"] \in Page
    BY <2>1, <2>2, Zenon
  <2> QED BY <1>2, <1>5, <2>3 DEF StartKernel
<1> QED BY <1>3, <1>4, <1>5

\* Type correctness (with answers for visited allocations only) is inductive.
LEMMA TypeStep == Typed /\ [Next]_vars => Typed'
<1> SUFFICES ASSUME Typed, [Next]_vars PROVE Typed'
  OBVIOUS
<1>1. CASE UNCHANGED vars
  BY <1>1 DEF vars, Typed, TypeOK, Visiting
<1> QED BY <1>1, JobsType, RegistryType, AllocationsType, PollingType, HeadType, PageType, Zenon DEF Next

\* Every variable keeps its type, for any number of jobs, addresses and polls.
THEOREM TypeCorrect == Spec => []TypeOK
<1>1. Spec => []Typed
  BY TypeInit, TypeStep, PTL DEF Spec
<1> QED BY <1>1, PTL DEF Typed

-----------------------------------------------------------------------------
(* What counts as over is over *)

\* A job that has begun to end does not return to the queue or to a node.
Ended(j) == job[j] \notin {"none", "pending", "running"}
Excused(j) == Ended(j) \/ j \in spared

\* Whatever follows a job belongs to one that was submitted.
Submitted ==
    \A j \in Jobs : \/ alloc[j].state # "none" \/ disk[j].state # "none"
                    \/ j \in asked.create \/ j \in asked.cancel
                    => job[j] # "none"

\* Every place from which an allocation may become terminal, or be terminal again
\* after a restart, already knows that the job has ended.
EndsKnown ==
    /\ \A j \in Jobs : alloc[j].state \in Terminal \/ disk[j].state \in Terminal \/ j \in asked.cancel
                         => Excused(j)
    /\ \A i \in Polls : poll[i].answer \in Over => Ended(poll[i].at)

\* A server that is up has a job that runs; a page's kernel that lives runs on one.
Running ==
    /\ \A j \in Jobs : client[j].up => job[j] = "running"
    /\ \A j \in Jobs : client[j].leaving => client[j].up
    /\ page.alive => page.job \in Jobs /\ Listening(page.job, page.at)

IInv == Typed /\ Submitted /\ EndsKnown /\ Running

\* A step that neither starts nor ends a server
SameServers ==
    \A k \in Jobs : /\ client'[k].up <=> client[k].up
                    /\ client[k].up => client'[k].at = client[k].at
                    /\ client'[k].leaving => client[k].leaving \/ client[k].up

\* A step that starts no kernel
NoNewKernel == page'.alive => page.alive /\ page'.job = page.job /\ page'.at = page.at

\* Such a step, in which no job that runs stops, keeps what runs consistent.
LEMMA SameRunning ==
    ASSUME Running, SameServers, NoNewKernel, \A k \in Jobs : job[k] = "running" => job'[k] = "running"
    PROVE  Running'
BY DEF Running, SameServers, NoNewKernel, Listening

\* The end of a process keeps it consistent, whatever becomes of its job.
LEMMA EndsRunning ==
    ASSUME Typed, Running, NEW j \in Jobs, ProcessEnds(j), \A k \in Jobs \ {j} : job'[k] = job[k]
    PROVE  Running'
<1>1. client \in [Jobs -> Client] /\ page \in Page
  BY TypeParts DEF Typed
<1>2. ~client'[j].up /\ ~client'[j].leaving /\ \A k \in Jobs \ {j} : client'[k] = client[k]
  BY <1>1 DEF ProcessEnds, Absent
<1>3. NoNewKernel /\ (page'.alive => page.job # j)
  BY <1>1 DEF ProcessEnds, NoNewKernel, Page
<1> QED BY <1>2, <1>3 DEF Running, NoNewKernel, Listening

\* A server's record with the same presence.
Alike(c, d) == (c.up <=> d.up) /\ c.at = d.at /\ (c.leaving <=> d.leaving)

\* No outcome of a request changes whether a client is up or leaves, or its address.
LEMMA OutcomesAlike ==
    ASSUME NEW c \in Client, NEW request
    PROVE  Alike(NotFound(c), c) /\ Alike(Registered(c), c) /\ Alike(Failing(c, request), c)
BY DEF Alike, NotFound, Registered, Failing, Client

\* Nor does the loss of a request.
LEMMA WithoutAlike ==
    ASSUME Typed, NEW j \in Jobs, NEW request
    PROVE  Alike(Without(j, request), client[j])
<1>1. client[j] \in Client
  BY TypeParts DEF Typed
<1> QED BY <1>1 DEF Alike, Without, Client

\* A request that is dealt with starts and ends no server.
LEMMA DealtSame ==
    ASSUME Typed, NEW j \in Jobs, NEW request, NEW after, Alike(after, Without(j, request)),
           Dealt(j, after)
    PROVE  SameServers
<1>1. client \in [Jobs -> Client]
  BY TypeParts DEF Typed
<1>2. Alike(after, client[j])
  BY WithoutAlike DEF Alike
<1>3. client'[j] = after /\ \A k \in Jobs \ {j} : client'[k] = client[k]
  BY <1>1 DEF Dealt
<1> QED BY <1>2, <1>3 DEF SameServers, Alike

\* Nor does one that has outlived its server.
LEMMA OutlivedSame ==
    ASSUME Typed, NEW j \in Jobs, NEW request, NEW a, Outlived(j, request, a)
    PROVE  SameServers
<1> DEFINE l == client[j].late \ {<<request, a>>}
           c == [client[j] EXCEPT !.late = l]
<1>1. client \in [Jobs -> Client] /\ client[j] \in Client
  BY TypeParts DEF Typed
<1>2. client' = [client EXCEPT ![j] = c]
  BY <1>1 DEF Outlived
<1>3. Alike(c, client[j])
  BY <1>1 DEF Alike, Client
<1> HIDE DEF c
<1> QED BY <1>1, <1>2, <1>3 DEF SameServers, Alike

\* Servers that are up run in jobs that run: it is inductive.
LEMMA RunningStep == Typed /\ Running /\ [Next]_vars => Running'
<1> SUFFICES ASSUME Typed, Running, [Next]_vars PROVE Running'
  OBVIOUS
<1>1. /\ job \in [Jobs -> JobState] /\ client \in [Jobs -> Client] /\ page \in Page
  BY TypeParts DEF Typed
<1>2. ASSUME UNCHANGED client PROVE SameServers
  BY <1>2 DEF SameServers
<1>3. ASSUME UNCHANGED page PROVE NoNewKernel
  BY <1>3 DEF NoNewKernel
<1>4. ASSUME UNCHANGED <<job, client>>, NoNewKernel PROVE Running'
  BY <1>2, <1>4, SameRunning
<1>5. ASSUME SameServers, UNCHANGED <<job, page>> PROVE Running'
  BY <1>3, <1>5, SameRunning
<1>6. ASSUME NEW j \in Jobs, Starts(j) \/ Completes(j) \/ Submit(j) PROVE Running'
  <2>1. \A k \in Jobs : job[k] = "running" => job'[k] = "running"
    BY <1>1, <1>6 DEF Starts, Completes, Submit
  <2> QED BY <1>2, <1>3, <1>6, <2>1, SameRunning DEF Starts, Completes, Submit
<1>7. ASSUME NEW j \in Jobs, NEW state, Killed(j, state) PROVE Running'
  BY <1>1, <1>7, EndsRunning DEF Killed
<1>8. ASSUME NEW j \in Jobs, Exits(j) PROVE Running'
  BY <1>1, <1>8, EndsRunning DEF Exits
<1>9. ASSUME NEW j \in Jobs, NEW reached, Cancel(j, reached) PROVE Running'
  <2>1. CASE ProcessEnds(j) /\ job' = [job EXCEPT ![j] = "cancelled"]
    BY <1>1, <2>1, EndsRunning
  <2>2. CASE UNCHANGED <<job, client, page>>
    BY <1>3, <1>4, <2>2
  <2> QED BY <1>9, <2>1, <2>2 DEF Cancel
<1>10. ASSUME NEW j \in Jobs, RetryTimer(j) \/ Leaves(j) PROVE Running'
  <2>1. SameServers
    BY <1>1, <1>10 DEF RetryTimer, Leaves, SameServers, Client
  <2> QED BY <1>5, <1>10, <2>1 DEF RetryTimer, Leaves, ClientOnly
<1>11. ASSUME NEW j \in Jobs, Heartbeat(j) PROVE Running'
  <2>1. ASSUME client' = [client EXCEPT ![j] = NotFound(client[j])] PROVE SameServers
    <3>1. client[j] \in Client
      BY <1>1
    <3>2. Alike(NotFound(client[j]), client[j])
      BY <3>1, OutcomesAlike
    <3> QED BY <1>1, <2>1, <3>2 DEF SameServers, Alike
  <2>2. SameServers
    BY <1>2, <1>11, <2>1 DEF Heartbeat
  <2> QED BY <1>5, <1>11, <2>2 DEF Heartbeat, HeadOnly
<1>12. ASSUME NEW j \in Jobs, NEW request, LoseRequest(j, request) PROVE Running'
  <2>1. Without(j, request) \in Client
    BY WithoutType DEF Typed
  <2>2. Alike(Failing(Without(j, request), request), Without(j, request))
    BY <2>1, OutcomesAlike
  <2>3. SameServers
    BY <1>12, <2>2, DealtSame DEF LoseRequest
  <2> QED BY <1>5, <1>12, <2>3 DEF LoseRequest
<1>13. ASSUME NEW j \in Jobs, NEW answered, ReceiveRegister(j, answered) PROVE Running'
  <2> DEFINE c == Without(j, "register")
             after == IF answered THEN Registered(c) ELSE Failing(c, "register")
  <2>1. c \in Client
    BY WithoutType DEF Typed
  <2>2. Alike(Registered(c), c) /\ Alike(Failing(c, "register"), c)
    <3> HIDE DEF c
    <3> QED BY <2>1, OutcomesAlike
  <2>3. Alike(after, c)
    BY <2>2
  <2>4. Dealt(j, after)
    BY <1>13 DEF ReceiveRegister
  <2> HIDE DEF after
  <2>5. SameServers
    BY <2>3, <2>4, DealtSame
  <2> QED BY <1>5, <1>13, <2>5 DEF ReceiveRegister
<1>14. ASSUME NEW j \in Jobs, ReceiveUnregister(j) PROVE Running'
  <2>1. Alike(Without(j, "unregister"), Without(j, "unregister"))
    BY DEF Alike
  <2>2. SameServers
    BY <1>14, <2>1, DealtSame DEF ReceiveUnregister
  <2> QED BY <1>5, <1>14, <2>2 DEF ReceiveUnregister, HeadOnly
<1>15. ASSUME NEW j \in Jobs, NEW a \in Addresses, Launches(j, a) PROVE Running'
  <2> DEFINE c == [client[j] EXCEPT !.at = a, !.up = TRUE, !.sent = {"register"}]
  <2>1. c.leaving = client[j].leaving
    BY <1>1 DEF Client
  <2>2. ~client[j].up /\ job[j] = "running" /\ UNCHANGED <<job, page>>
    BY <1>15 DEF Launches
  <2>3. client' = [client EXCEPT ![j] = c]
    BY <1>1, <1>15 DEF Launches
  <2> HIDE DEF c
  <2>4. ~client'[j].leaving /\ \A k \in Jobs \ {j} : client'[k] = client[k]
    BY <1>1, <2>1, <2>2, <2>3 DEF Running
  <2> QED BY <2>2, <2>4 DEF Running, Listening
<1>16. ASSUME NEW j \in Jobs, Recorded(j) \/ Cancelled(j) PROVE Running'
  BY <1>3, <1>4, <1>16 DEF Recorded, Cancelled
<1>17. ASSUME NEW j \in Jobs, NEW a \in Addresses, StartKernel(j, a) PROVE Running'
  <2>1. page'.job = j /\ page'.at = a /\ UNCHANGED <<job, client>> /\ Listening(j, a)
    BY <1>1, <1>17 DEF StartKernel, Page
  <2> QED BY <2>1 DEF Running, Listening
<1>18. ASSUME NEW a \in Addresses, Quiet(a) \/ CheckServerHealth(a) PROVE Running'
  BY <1>3, <1>4, <1>18 DEF Quiet, CheckServerHealth
<1>19. ASSUME NEW i \in Polls,
              \/ PollStarts(i) \/ PollApplies(i) \/ PollEnds(i)
              \/ (\E fails \in BOOLEAN : PollQueries(i, fails)) \/ (\E j \in Jobs : PollVisits(i, j))
       PROVE  Running'
  BY <1>3, <1>4, <1>19 DEF PollStarts, PollApplies, PollEnds, PollQueries, PollVisits
<1>20. CASE HeadRestarts \/ ConnectionBreaks \/ AskStatus
  <2>1. NoNewKernel
    BY <1>1, <1>20 DEF NoNewKernel, HeadRestarts, ConnectionBreaks, AskStatus, Page
  <2> QED BY <1>4, <1>20, <2>1 DEF HeadRestarts, ConnectionBreaks, AskStatus
<1>21. ASSUME NEW j \in Jobs, NEW request, NEW a, LoseLate(j, request, a) \/ ReceiveLate(j, request, a)
       PROVE  Running'
  <2>1. SameServers
    BY <1>21, OutlivedSame DEF LoseLate, ReceiveLate
  <2> QED BY <1>5, <1>21, <2>1 DEF LoseLate, ReceiveLate, ClientOnly, HeadOnly
<1>22. CASE UNCHANGED vars
  BY <1>3, <1>4, <1>22 DEF vars
<1> QED BY <1>6, <1>7, <1>8, <1>9, <1>10, <1>11, <1>12, <1>13, <1>14, <1>15, <1>16, <1>17,
           <1>18, <1>19, <1>20, <1>21, <1>22, Zenon DEF Next

-----------------------------------------------------------------------------
\* A step in which no job's end is undone, and every place that has to know of
\* an end learns only of one that came.
LEMMA KnownKept ==
    ASSUME Typed, Submitted, EndsKnown,
           \A k \in Jobs : (Ended(k) => Ended(k)') /\ (job[k] # "none" => job'[k] # "none"),
           spared \subseteq spared',
           \A k \in Jobs : alloc'[k].state \in Terminal => alloc[k].state \in Terminal \/ Excused(k)',
           \A k \in Jobs : disk'[k].state \in Terminal =>
                             alloc'[k].state \in Terminal \/ disk[k].state \in Terminal,
           \A k \in Jobs : \/ alloc'[k].state # "none" \/ disk'[k].state # "none"
                           \/ k \in asked'.create \/ k \in asked'.cancel
                           => \/ alloc[k].state # "none" \/ disk[k].state # "none"
                              \/ k \in asked.create \/ k \in asked.cancel \/ job'[k] # "none",
           \A k \in Jobs : k \in asked'.cancel => k \in asked.cancel \/ Excused(k)',
           \A i \in Polls : poll'[i].answer \in Over =>
                              \/ poll[i].answer \in Over /\ poll'[i].at = poll[i].at /\ poll[i].at \in Jobs
                              \/ Ended(poll[i].at)'
    PROVE  (Submitted /\ EndsKnown)'
<1>1. Submitted'
  BY DEF Submitted
<1>2. \A k \in Jobs : Excused(k) => Excused(k)'
  BY DEF Excused
<1>3. \A k \in Jobs : alloc'[k].state \in Terminal \/ disk'[k].state \in Terminal \/ k \in asked'.cancel
                        => Excused(k)'
  BY <1>2 DEF EndsKnown
<1>4. \A i \in Polls : poll'[i].answer \in Over => Ended(poll[i].at)'
  BY DEF EndsKnown
<1> QED BY <1>1, <1>3, <1>4 DEF EndsKnown

\* A step of the jobs that leaves the head's records alone.
LEMMA JobsKnown ==
    ASSUME Typed, Submitted, EndsKnown,
           \A k \in Jobs : (Ended(k) => Ended(k)') /\ (job[k] # "none" => job'[k] # "none"),
           UNCHANGED <<alloc, disk, poll, asked, spared>>
    PROVE  (Submitted /\ EndsKnown)'
<1>1. \A i \in Polls : poll'[i].answer \in Over => poll[i].answer \in Over /\ poll[i].at \in Jobs
  BY DEF Typed, Visiting, Over
<1> QED BY <1>1, KnownKept

\* Terminal allocations have jobs that ended, or an excuse: it is inductive.
LEMMA KnownStep == IInv /\ [Next]_vars => (Submitted /\ EndsKnown)'
<1> SUFFICES ASSUME IInv, [Next]_vars PROVE (Submitted /\ EndsKnown)'
  OBVIOUS
<1> USE DEF IInv
<1>1. /\ job \in [Jobs -> JobState] /\ alloc \in [Jobs -> Allocation] /\ disk \in [Jobs -> Allocation]
      /\ poll \in [Polls -> Poll] /\ client \in [Jobs -> Client]
      /\ asked \in [create : SUBSET Jobs, cancel : SUBSET Jobs]
  BY TypeParts DEF Typed
<1>2. ASSUME UNCHANGED <<job, alloc, disk, poll, asked, spared>> PROVE (Submitted /\ EndsKnown)'
  BY <1>2, JobsKnown DEF Ended
<1>3. ASSUME NEW j \in Jobs,
             \/ Starts(j) \/ Completes(j) \/ Exits(j)
             \/ \E state \in Over \cup {"preempted", "pending"} : Killed(j, state)
      PROVE  (Submitted /\ EndsKnown)'
  <2>1. client[j].leaving => job[j] = "running"
    BY DEF Running
  <2>2. \A k \in Jobs : (Ended(k) => Ended(k)') /\ (job[k] # "none" => job'[k] # "none")
    BY <1>1, <1>3, <2>1 DEF Starts, Completes, Exits, Killed, Ended, Over
  <2> QED BY <1>3, <2>2, JobsKnown DEF Starts, Completes, Exits, Killed
<1>4. ASSUME NEW j \in Jobs,
             \/ RetryTimer(j) \/ Heartbeat(j) \/ Leaves(j)
             \/ (\E request \in Request : LoseRequest(j, request))
             \/ (\E answered \in BOOLEAN : ReceiveRegister(j, answered))
             \/ ReceiveUnregister(j)
             \/ (\E request \in Request, a \in Addresses : LoseLate(j, request, a) \/ ReceiveLate(j, request, a))
             \/ \E a \in Addresses : Launches(j, a) \/ StartKernel(j, a)
      PROVE  (Submitted /\ EndsKnown)'
  BY <1>2, <1>4 DEF RetryTimer, Heartbeat, Leaves, LoseRequest, ReceiveRegister, ReceiveUnregister,
       LoseLate, ReceiveLate, Launches, StartKernel, ClientOnly, HeadOnly
<1>5. CASE \/ \E a \in Addresses : Quiet(a) \/ CheckServerHealth(a)
           \/ ConnectionBreaks \/ AskStatus \/ UNCHANGED vars
  BY <1>2, <1>5 DEF Quiet, CheckServerHealth, ConnectionBreaks, AskStatus, vars
<1>6. ASSUME UNCHANGED job
      PROVE  \A k \in Jobs : (Ended(k) => Ended(k)') /\ (job[k] # "none" => job'[k] # "none")
  BY <1>6 DEF Ended
<1>7. ASSUME UNCHANGED poll
      PROVE  \A i \in Polls : poll'[i].answer \in Over =>
               poll[i].answer \in Over /\ poll'[i].at = poll[i].at /\ poll[i].at \in Jobs
  BY <1>7 DEF Typed, Visiting, Over
<1>8. ASSUME NEW j \in Jobs, Submit(j) PROVE (Submitted /\ EndsKnown)'
  <2>1. \A k \in Jobs : (Ended(k) => Ended(k)') /\ (job[k] # "none" => job'[k] # "none")
    BY <1>1, <1>8 DEF Submit, Ended
  <2>2. asked'.cancel = asked.cancel /\ asked'.create = asked.create \cup {j} /\ job'[j] # "none"
    BY <1>1, <1>8 DEF Submit
  <2> QED BY <1>7, <1>8, <2>1, <2>2, KnownKept DEF Submit
<1>9. ASSUME NEW j \in Jobs, Recorded(j) PROVE (Submitted /\ EndsKnown)'
  <2>1. /\ asked'.cancel = asked.cancel /\ asked'.create \subseteq asked.create /\ j \in asked.create
        /\ disk' = alloc' /\ UNCHANGED <<job, poll, spared>>
        /\ alloc'[j].state = "pending" /\ \A k \in Jobs \ {j} : alloc'[k] = alloc[k]
    BY <1>1, <1>9 DEF Recorded, Allocation
  <2> QED BY <1>6, <1>7, <2>1, KnownKept DEF Terminal
<1>10. ASSUME NEW j \in Jobs, Cancelled(j) PROVE (Submitted /\ EndsKnown)'
  <2>1. /\ asked'.cancel \subseteq asked.cancel /\ asked'.create = asked.create /\ j \in asked.cancel
        /\ disk' = alloc' /\ UNCHANGED <<job, poll, spared>>
        /\ \A k \in Jobs \ {j} : alloc'[k] = alloc[k]
    BY <1>1, <1>10 DEF Cancelled
  <2>2. Excused(j)'
    BY <2>1 DEF EndsKnown, Excused, Ended
  <2> QED BY <1>6, <1>7, <2>1, <2>2, KnownKept

<1>11. ASSUME NEW j \in Jobs, NEW reached \in BOOLEAN, Cancel(j, reached)
       PROVE  (Submitted /\ EndsKnown)'
  <2>1. /\ alloc[j].state \in Live /\ job[j] # "none"
        /\ asked'.create = asked.create /\ asked'.cancel = asked.cancel \cup {j}
        /\ UNCHANGED <<alloc, disk, poll>> /\ spared \subseteq spared'
    BY <1>1, <1>11 DEF Cancel, Submitted, Live
  <2>2. \/ job' = job
        \/ job[j] \in {"pending", "running"} /\ job' = [job EXCEPT ![j] = "cancelled"]
    BY <1>11 DEF Cancel
  <2>3. \A k \in Jobs : (Ended(k) => Ended(k)') /\ (job[k] # "none" => job'[k] # "none")
    BY <1>1, <2>2 DEF Ended
  <2>4. Excused(j)'
    BY <1>1, <1>11, <2>1 DEF Cancel, Excused, Ended
  <2> QED BY <1>7, <2>1, <2>3, <2>4, KnownKept
<1>12. ASSUME NEW i \in Polls, PollStarts(i) \/ PollEnds(i) PROVE (Submitted /\ EndsKnown)'
  <2>1. /\ UNCHANGED <<job, alloc, asked, spared>> /\ disk' \in {alloc, disk}
        /\ poll' \in {[poll EXCEPT ![i] = NoPoll], [poll EXCEPT ![i].on = TRUE]}
    BY <1>12 DEF PollStarts, PollEnds
  <2>2. \A k \in Polls : poll'[k].answer \in Over =>
          poll[k].answer \in Over /\ poll'[k].at = poll[k].at /\ poll[k].at \in Jobs
    <3>1. \A k \in Polls : poll[k].answer \in Over => poll[k].at \in Jobs
      BY DEF Typed, Visiting, Over
    <3> QED BY <1>1, <2>1, <3>1 DEF NoPoll, Over, Poll
  <2> QED BY <1>6, <2>1, <2>2, KnownKept
<1>13. ASSUME NEW i \in Polls, NEW j \in Jobs, PollVisits(i, j) PROVE (Submitted /\ EndsKnown)'
  <2>1. /\ UNCHANGED <<job, disk, asked, spared>> /\ poll[i].at = NoJob
        /\ poll' \in {[poll EXCEPT ![i].at = j], [poll EXCEPT ![i].at = j, ![i].dirty = TRUE]}
    BY <1>13 DEF PollVisits
  <2>2. poll[i].answer = "none"
    BY <1>1, <2>1 DEF Typed, Visiting, Jobs, NoJob
  <2>3. \A k \in Polls : poll'[k].answer \in Over =>
          poll[k].answer \in Over /\ poll'[k].at = poll[k].at /\ poll[k].at \in Jobs
    <3>1. poll'[i].answer = "none" /\ \A k \in Polls \ {i} : poll'[k] = poll[k]
      BY <1>1, <2>1, <2>2 DEF Poll
    <3>2. \A k \in Polls : poll[k].answer \in Over => poll[k].at \in Jobs
      BY DEF Typed, Visiting, Over
    <3> QED BY <3>1, <3>2 DEF Over
  <2>4. \A k \in Jobs : alloc'[k] = alloc[k] \/ (alloc[k].state \in Live /\ alloc'[k].state = "active")
    BY <1>1, <1>13 DEF PollVisits, Unseen
  <2> QED BY <1>6, <2>1, <2>3, <2>4, KnownKept DEF Terminal, Live
<1>14. ASSUME NEW i \in Polls, NEW fails \in BOOLEAN, PollQueries(i, fails)
       PROVE  (Submitted /\ EndsKnown)'
  <2>1. UNCHANGED <<job, alloc, disk, asked, spared>>
    BY <1>14 DEF PollQueries
  <2>2. \A k \in Polls \ {i} : poll'[k] = poll[k]
    BY <1>1, <1>14 DEF PollQueries
  <2>3. poll'[i].at = poll[i].at /\ poll'[i].answer \in {"unknown", job[poll[i].at]}
    BY <1>1, <1>14 DEF PollQueries, Poll
  <2>4. poll'[i].answer \in Over => Ended(poll[i].at)'
    BY <2>1, <2>3 DEF Ended, Over
  <2>5. \A k \in Polls : poll[k].answer \in Over => poll[k].at \in Jobs
    BY DEF Typed, Visiting, Over
  <2> QED BY <1>6, <2>1, <2>2, <2>4, <2>5, KnownKept
<1>15. ASSUME NEW i \in Polls, PollApplies(i) PROVE (Submitted /\ EndsKnown)'
  <2>1. PICK j \in Jobs : j = poll[i].at
    BY <1>15 DEF PollApplies, Typed, Visiting
  <2> DEFINE over == Outcome(poll[i].answer)
             promoted == poll[i].answer = "running" /\ alloc[j].state = "pending"
             done == [poll[i] EXCEPT !.at = NoJob, !.answer = "none", !.seen = poll[i].seen \cup {j}]
             s == IF promoted THEN "running" ELSE IF over # "none" THEN over ELSE alloc[j].state
  <2>2. UNCHANGED <<job, disk, asked, spared>>
    BY <1>15 DEF PollApplies
  <2>3. alloc' = [alloc EXCEPT ![j].state = s]
    BY <1>15, <2>1 DEF PollApplies
  <2>4. alloc'[j].state = s /\ \A k \in Jobs \ {j} : alloc'[k] = alloc[k]
    <3> HIDE DEF s
    <3> QED BY <1>1, <2>1, <2>3 DEF Allocation
  <2>5. over # "none" => Ended(j)
    BY <2>1 DEF Outcome, EndsKnown, Over
  <2>6. s \in Terminal => alloc[j].state \in Terminal \/ Excused(j)'
    BY <2>2, <2>5 DEF Excused, Ended, Terminal
  <2>7. s # "none" => alloc[j].state # "none" \/ job'[j] # "none"
    BY <2>2, <2>5 DEF Ended
  <2>8. \A k \in Polls : poll'[k].answer \in Over =>
          poll[k].answer \in Over /\ poll'[k].at = poll[k].at /\ poll[k].at \in Jobs
    <3>1. done.answer = "none" /\ [done EXCEPT !.dirty = TRUE].answer = "none"
      BY <1>1 DEF Poll
    <3>2. poll' \in {[poll EXCEPT ![i] = done], [poll EXCEPT ![i] = [done EXCEPT !.dirty = TRUE]]}
      BY <1>15, <2>1 DEF PollApplies
    <3>3. \A k \in Polls : poll[k].answer \in Over => poll[k].at \in Jobs
      BY DEF Typed, Visiting, Over
    <3> HIDE DEF done
    <3> QED BY <1>1, <3>1, <3>2, <3>3 DEF Over
  <2> HIDE DEF s
  <2> QED BY <1>6, <2>1, <2>2, <2>4, <2>6, <2>7, <2>8, KnownKept
<1>16. CASE HeadRestarts
  <2>1. UNCHANGED <<job, disk, spared>> /\ alloc' = Reloaded /\ poll' = [i \in Polls |-> NoPoll]
        /\ asked' = [create |-> {}, cancel |-> {}]
    BY <1>16 DEF HeadRestarts
  <2>2. \A k \in Jobs : /\ Reloaded[k].state \in Terminal => disk[k].state \in Terminal
                        /\ Reloaded[k].state # "none" => disk[k].state # "none"
    BY DEF Reloaded, Live, Terminal
  <2>3. \A k \in Jobs : Reloaded[k].state \in Terminal => Excused(k)'
    BY <2>1, <2>2 DEF EndsKnown, Excused, Ended
  <2>4. \A i \in Polls : poll'[i].answer \notin Over
    BY <2>1 DEF NoPoll, Over
  <2> QED BY <1>6, <2>1, <2>2, <2>3, <2>4, KnownKept
<1> QED BY <1>3, <1>4, <1>5, <1>8, <1>9, <1>10, <1>11, <1>12, <1>13, <1>14, <1>15, <1>16, Zenon DEF Next

-----------------------------------------------------------------------------
\* The page gives up only what has ended, has been spared by scancel, or shared
\* its address with another allocation.
LEMMA GivingUpStep == IInv /\ [Next]_vars => [GivesUpEnded]_vars
<1> SUFFICES ASSUME IInv, Next, page.state # "dead", page'.state = "dead", page.alive
             PROVE  page.job \in spared \/ Reused
  BY DEF GivesUpEnded
<1>1. page \in Page
  BY TypeParts DEF IInv, Typed
<1>2. CASE AskStatus
  <2>1. StatusIsGone(page.at)
    BY <1>1, <1>2 DEF AskStatus, Page
  <2>2. PICK j \in Jobs : alloc[j].server = page.at /\ alloc[j].state \in Terminal
    BY <2>1 DEF StatusIsGone
  <2>3. CASE j # page.job
    BY <2>2, <2>3 DEF Reused
  <2>4. CASE j = page.job
    BY <2>2, <2>4 DEF IInv, EndsKnown, Excused, Ended, Running, Listening
  <2> QED BY <2>3, <2>4
<1>3. ASSUME NEW j \in Jobs, ProcessEnds(j) PROVE FALSE
  BY <1>1, <1>3 DEF ProcessEnds, Page
<1>4. ASSUME UNCHANGED page PROVE FALSE
  BY <1>4
<1>5. ASSUME NEW j \in Jobs,
             \/ Starts(j) \/ Completes(j) \/ RetryTimer(j) \/ Heartbeat(j) \/ Leaves(j)
             \/ (\E request \in Request : LoseRequest(j, request))
             \/ (\E answered \in BOOLEAN : ReceiveRegister(j, answered))
             \/ (\E request \in Request, a \in Addresses : LoseLate(j, request, a) \/ ReceiveLate(j, request, a))
             \/ ReceiveUnregister(j) \/ Submit(j) \/ Recorded(j) \/ Cancelled(j)
             \/ (\E i \in Polls : PollVisits(i, j)) \/ (\E a \in Addresses : Launches(j, a))
      PROVE  FALSE
  BY <1>4, <1>5 DEF Starts, Completes, RetryTimer, Heartbeat, Leaves, LoseRequest, ReceiveRegister,
       LoseLate, ReceiveLate, ReceiveUnregister, Submit, Recorded, Cancelled, PollVisits, Launches, ClientOnly, HeadOnly
<1>6. ASSUME NEW j \in Jobs,
             \/ \E state \in Over \cup {"preempted", "pending"} : Killed(j, state)
             \/ Exits(j) \/ \E reached \in BOOLEAN : Cancel(j, reached)
      PROVE  FALSE
  BY <1>3, <1>4, <1>6 DEF Killed, Exits, Cancel
<1>7. ASSUME NEW j \in Jobs, NEW a \in Addresses, StartKernel(j, a) PROVE FALSE
  BY <1>1, <1>7 DEF StartKernel, Page
<1>8. CASE \/ \E a \in Addresses : Quiet(a) \/ CheckServerHealth(a)
           \/ \E i \in Polls : \/ PollStarts(i) \/ PollApplies(i) \/ PollEnds(i)
                               \/ \E fails \in BOOLEAN : PollQueries(i, fails)
  BY <1>4, <1>8 DEF Quiet, CheckServerHealth, PollStarts, PollApplies, PollEnds, PollQueries
<1>9. CASE HeadRestarts \/ ConnectionBreaks
  BY <1>1, <1>9 DEF HeadRestarts, ConnectionBreaks, Page
<1> QED BY <1>2, <1>5, <1>6, <1>7, <1>8, <1>9, Zenon DEF Next

\* The invariant holds in the beginning.
LEMMA IInvInit == Init => IInv
<1> SUFFICES ASSUME Init PROVE IInv
  OBVIOUS
<1>1. Submitted
  BY DEF Init, Submitted, Untracked
<1>2. EndsKnown
  BY DEF Init, EndsKnown, Untracked, Terminal, NoPoll, Over
<1>3. Running
  BY DEF Init, Running, Absent
<1> QED BY <1>1, <1>2, <1>3, TypeInit DEF IInv

\* An allocation is over only when its job is, unless scancel failed for it, and
\* a page gives up no kernel that lives, whatever restarts, is lost or comes late.
THEOREM GivenUpOnlyWhenOver == Spec => GivenUpIsOver
<1>1. Spec => []IInv
  BY IInvInit, TypeStep, RunningStep, KnownStep, PTL DEF Spec, IInv
<1>2. IInv => OverIsOver
  BY DEF IInv, EndsKnown, Excused, Ended, OverIsOver
<1>3. IInv /\ IInv' /\ [Next]_vars => [OverIsOver' /\ GivesUpEnded]_vars
  <2>1. IInv' => OverIsOver'
    BY <1>2, PTL
  <2> QED BY <2>1, GivingUpStep
<1> QED BY <1>1, <1>3, PTL DEF Spec, GivenUpIsOver

=============================================================================
