----------------------- MODULE KernelSessionsProofs -----------------------
(***************************************************************************)
(* Type correctness of KernelSessions, and four of its safety properties:  *)
(* restarts and clean-ups spare programs that reuse a kernel's process id, *)
(* no death of a kernel goes unnoticed, a session that answers is on       *)
(* record for the next server, and a notebook has one kernel; for any      *)
(* number of notebooks, requests, sessions, processes and crashes.         *)
(***************************************************************************)
EXTENDS KernelSessions, FiniteSetTheorems, TLAPS

Boot == [phase : {"off", "listening", "reattaching", "up"}, left : SUBSET Sids,
         read : [Sids -> Row \cup {None}], sid : 0..MaxSessions, row : Row \cup {None}]
Count == [asked : 0..MaxAsked, sids : 0..MaxSessions, pids : 0..MaxProcs,
          crashes : 0..MaxCrashes, reused : 0..MaxReuse]

LoopKnows == /\ boot.sid # 0 => boot.row # None
             /\ \A s \in boot.left : boot.read[s] # None

\* A request that has a kernel started knows its process; the rows that the loop has
\* read and the one that is being reattached are there.
Known == /\ \A t \in Tasks : tasks[t] # None /\ tasks[t].pc \in {"boot", "stamp"} => tasks[t].pid \in Pids
         /\ LoopKnows
Typed == TypeOK /\ Known

\* Type correctness, part by part
LEMMA TypeParts ==
    TypeOK <=> /\ procs \in [Pids -> Proc]
               /\ mem \in Memory
               /\ rows \in [Sids -> Row \cup {None}]
               /\ tasks \in [Tasks -> Task \cup {None}]
               /\ boot \in Boot
               /\ count \in Count
               /\ past \subseteq {"several", "raced", "lost"}
BY DEF TypeOK, Boot, Count

\* Process and session numbers with and without the 0 that stands for none
LEMMA Numbers == /\ 0 \in 0..MaxProcs /\ 0 \in 0..MaxSessions
                 /\ Pids \subseteq 0..MaxProcs /\ Sids \subseteq 0..MaxSessions
                 /\ \A p \in 0..MaxProcs : p # 0 => p \in Pids
                 /\ \A s \in 0..MaxSessions : s # 0 => s \in Sids
BY BoundAssumption DEF Pids, Sids

-----------------------------------------------------------------------------
(* Types of the values that the actions build *)

\* Signals keep the type of the processes.
LEMMA SignalledType ==
    ASSUME Typed, NEW p, NEW who \in Marks
    PROVE  Signalled(p, who) \in [Pids -> Proc] /\ Killed(p, who) \in [Pids -> Proc]
<1>1. procs \in [Pids -> Proc]
  BY DEF Typed, TypeOK
<1>2. Signalled(p, who) \in [Pids -> Proc]
  BY <1>1 DEF Signalled, Proc
<1>3. Killed(p, who) \in [Pids -> Proc]
  BY <1>1 DEF Killed, Proc
<1> QED BY <1>2, <1>3

\* What ps tells, or does not tell, changes no process: it only marks the kernels that
\* were given up and the programs that were taken for one.
Noted ==
    /\ procs' \in [Pids -> Proc]
    /\ \A q \in Pids :
         /\ procs'[q].st = procs[q].st /\ procs'[q].file = procs[q].file
         /\ procs[q].marks \subseteq procs'[q].marks
         /\ procs[q].st = "stranger" => procs'[q].marks = procs[q].marks \/ "taken" \in procs'[q].marks

\* One mark more
LEMMA MarkedType ==
    ASSUME Typed, NEW p, NEW mark \in Marks
    PROVE  /\ Marked(p, mark) \in [Pids -> Proc]
           /\ \A q \in Pids : /\ Marked(p, mark)[q].st = procs[q].st
                              /\ Marked(p, mark)[q].file = procs[q].file
                              /\ Marked(p, mark)[q].marks = IF q = p THEN procs[q].marks \cup {mark} ELSE procs[q].marks
<1>1. procs \in [Pids -> Proc]
  BY DEF Typed, TypeOK
<1>2. \A q \in Pids : procs[q] \in Proc
  BY <1>1
<1> DEFINE new(q) == [procs[q] EXCEPT !.marks = procs[q].marks \cup {mark}]
<1>3. \A q \in Pids : /\ new(q) \in Proc /\ new(q).st = procs[q].st /\ new(q).file = procs[q].file
                      /\ new(q).marks = procs[q].marks \cup {mark}
  BY <1>2 DEF Proc
<1>4. Marked(p, mark) = [q \in Pids |-> IF q = p THEN new(q) ELSE procs[q]]
  BY <1>1 DEF Marked
<1> HIDE DEF new
<1> QED BY <1>2, <1>3, <1>4

\* Kernels that were given up because ps did not answer
LEMMA MissedNotes ==
    ASSUME Typed, NEW P, procs' = Missed(P)
    PROVE  /\ Noted
           /\ \A q \in Pids : /\ q \notin P => procs'[q] = procs[q]
                              /\ q \in P /\ Kernel(q) => "missed" \in procs'[q].marks
<1>1. procs \in [Pids -> Proc] /\ "missed" \in Marks
  BY DEF Typed, TypeOK, Marks
<1>2. \A q \in Pids : procs'[q] = IF q \in P /\ Kernel(q) THEN Marked(q, "missed")[q] ELSE procs[q]
  BY DEF Missed
<1>3. procs' = [q \in Pids |-> IF q \in P /\ Kernel(q) THEN Marked(q, "missed")[q] ELSE procs[q]]
  BY DEF Missed
<1>4. ASSUME NEW q \in Pids
      PROVE  /\ Marked(q, "missed")[q] \in Proc
             /\ Marked(q, "missed")[q].st = procs[q].st
             /\ Marked(q, "missed")[q].file = procs[q].file
             /\ Marked(q, "missed")[q].marks = procs[q].marks \cup {"missed"}
  <2> DEFINE new == Marked(q, "missed")
  <2>1. /\ new \in [Pids -> Proc]
        /\ \A p \in Pids : /\ new[p].st = procs[p].st /\ new[p].file = procs[p].file
                           /\ new[p].marks = IF p = q THEN procs[p].marks \cup {"missed"} ELSE procs[p].marks
    BY <1>1, MarkedType, Zenon
  <2> HIDE DEF new
  <2>2. new[q] \in Proc /\ new[q].marks = procs[q].marks \cup {"missed"} /\ new[q].st = procs[q].st /\ new[q].file = procs[q].file
    BY <2>1
  <2> QED BY <2>2 DEF new
<1>5. procs' \in [Pids -> Proc]
  BY <1>1, <1>3, <1>4
<1>6. \A q \in Pids : procs[q].st = "stranger" => ~Kernel(q)
  BY DEF Kernel
<1> QED BY <1>2, <1>4, <1>5, <1>6 DEF Noted

\* A start time that is recorded
LEMMA RecognisedNotes ==
    ASSUME Typed, NEW p, NEW time, procs' = Recognised(p, time)
    PROVE  /\ Noted
           /\ \A q \in Pids : procs'[q] = procs[q] \/ (q = p /\ time = "other")
<1>1. procs \in [Pids -> Proc] /\ "taken" \in Marks
  BY DEF Typed, TypeOK, Marks
<1>2. CASE time # "other"
  BY <1>1, <1>2 DEF Recognised, Noted
<1>3. CASE time = "other"
  <2>1. procs' = Marked(p, "taken")
    BY <1>3 DEF Recognised
  <2>2. \A q \in Pids : q # p => procs'[q] = procs[q]
    BY <1>1, <2>1 DEF Marked
  <2>3. /\ procs' \in [Pids -> Proc]
        /\ \A q \in Pids : /\ procs'[q].st = procs[q].st /\ procs'[q].file = procs[q].file
                           /\ procs'[q].marks = IF q = p THEN procs[q].marks \cup {"taken"} ELSE procs[q].marks
    BY <1>1, <2>1, MarkedType
  <2>4. \A q \in Pids : procs'[q] = procs[q] \/ q = p
    BY <2>2
  <2> QED BY <1>3, <2>3, <2>4 DEF Noted
<1> QED BY <1>2, <1>3

\* The start time that ps reads: only a kernel has its own, only another program another.
LEMMA StartTimeIs ==
    ASSUME NEW p, NEW answered
    PROVE  /\ StartTime(p, answered) \in StartTimes
           /\ StartTime(p, answered) = "other" => ~Kernel(p)
           /\ StartTime(p, answered) = "own" => Kernel(p)
BY DEF StartTime, StartTimes

\* A process that passes the check is a kernel, or was taken for one.
LEMMA ExpectedIs ==
    ASSUME NEW p, NEW time, NEW answered, Expected(p, time, answered)
    PROVE  Alive(p) /\ answered /\ (Kernel(p) \/ "taken" \in procs[p].marks)
BY DEF Expected

\* A new handle keeps the type of the memory.
LEMMA HandleType == ASSUME NEW m \in Memory, NEW s, NEW p \in 0..MaxProcs
                    PROVE  [m EXCEPT !.handle[s] = p] \in Memory
BY DEF Memory

\* So does a new entry of a file,
LEMMA FilesType == ASSUME NEW m \in Memory, NEW f, NEW s \in 0..MaxSessions
                   PROVE  [m EXCEPT !.files[f] = s] \in Memory
BY DEF Memory

\* another set of watched processes,
LEMMA WatchedType == ASSUME NEW m \in Memory, NEW W \in SUBSET Pids
                     PROVE  [m EXCEPT !.watched = W] \in Memory
BY DEF Memory

\* and another session.
LEMMA SessionType == ASSUME NEW m \in Memory, NEW s, NEW x \in Session \cup {None}
                     PROVE  [m EXCEPT !.sessions[s] = x] \in Memory
BY DEF Memory

\* Memory that has forgotten sessions is memory.
LEMMA ForgottenType ==
    ASSUME NEW m \in Memory, NEW S
    PROVE  Forgotten(m, S) \in Memory
<1>1. /\ m.sessions \in [Sids -> Session \cup {None}] /\ m.handle \in [Sids -> 0..MaxProcs]
      /\ m.sock \in [Sids -> 0..MaxProcs] /\ m.files \in [Files -> 0..MaxSessions]
      /\ m.watched \in SUBSET Pids
  BY DEF Memory
<1> QED BY <1>1, Numbers DEF Forgotten, Memory

\* Cleaning sessions up keeps the types of memory and rows.
LEMMA CleanedType ==
    ASSUME Typed, NEW m \in Memory, NEW S, Cleaned(m, S)
    PROVE  mem' \in Memory /\ rows' \in [Sids -> Row \cup {None}]
BY ForgottenType, TypeParts DEF Cleaned, Typed

-----------------------------------------------------------------------------
(* Type correctness *)

\* The initial state has its types.
LEMMA TypeInit == Init => Typed
<1> SUFFICES ASSUME Init PROVE Typed
  OBVIOUS
<1>1. NoMemory \in Memory
  BY Numbers DEF NoMemory, Memory
<1>2. procs \in [Pids -> Proc]
  BY DEF Init, Proc
<1>3. boot \in Boot
  BY Numbers DEF Init, Boot, NoRows
<1>4. count \in Count
  BY BoundAssumption DEF Init, Count
<1> QED BY <1>1, <1>2, <1>3, <1>4, TypeParts DEF Init, NoRows, Typed, Known, LoopKnows

\* A step that gives one request a new state
LEMMA TasksType ==
    ASSUME Typed, NEW t \in Tasks, NEW x \in Task \cup {None}, tasks' = [tasks EXCEPT ![t] = x],
           x # None /\ x.pc \in {"boot", "stamp"} => x.pid \in Pids
    PROVE  /\ tasks' \in [Tasks -> Task \cup {None}]
           /\ \A u \in Tasks : tasks'[u] # None /\ tasks'[u].pc \in {"boot", "stamp"} => tasks'[u].pid \in Pids
BY TypeParts DEF Typed, Known

\* A request that ends keeps the type of the requests,
LEMMA EndsType ==
    ASSUME Typed, NEW t \in Tasks, Ends(t)
    PROVE  /\ tasks' \in [Tasks -> Task \cup {None}]
           /\ \A u \in Tasks : tasks'[u] # None /\ tasks'[u].pc \in {"boot", "stamp"} => tasks'[u].pid \in Pids
BY TasksType DEF Ends

\* and so does one that goes on to its next await.
LEMMA GoesType ==
    ASSUME Typed, NEW t \in Tasks, tasks[t] # None,
           NEW pc \in {"port", "stamp", "restart kill", "clean kill"}, Goes(t, pc),
           pc = "stamp" => tasks[t].pid \in Pids
    PROVE  /\ tasks' \in [Tasks -> Task \cup {None}]
           /\ \A u \in Tasks : tasks'[u] # None /\ tasks'[u].pc \in {"boot", "stamp"} => tasks'[u].pid \in Pids
<1>1. tasks \in [Tasks -> Task \cup {None}] /\ tasks[t] \in Task
  BY TypeParts DEF Typed
<1> DEFINE x == [tasks[t] EXCEPT !.pc = pc]
<1>2. x \in Task /\ x.pc = pc /\ x.pid = tasks[t].pid
  BY <1>1 DEF Task
<1>3. tasks' = [tasks EXCEPT ![t] = x]
  BY <1>1 DEF Goes
<1> HIDE DEF x
<1> QED BY <1>2, <1>3, TasksType

\* What is left of a request after a stop is a request that starts a kernel, or nothing.
LEMMA AfterStopType ==
    ASSUME NEW x \in Task
    PROVE  /\ AfterStop(x) \in Task \cup {None}
           /\ AfterStop(x) # None => AfterStop(x).pc = "port"
BY Numbers DEF AfterStop, Task

\* stopKernel up to its sleep keeps the types.
LEMMA StopBeginsType ==
    ASSUME Typed, NEW t \in Tasks, NEW x \in Task, NEW s \in Sids, Has(s), StopBegins(t, x, s)
    PROVE  /\ procs' \in [Pids -> Proc] /\ mem' \in Memory /\ rows' \in [Sids -> Row \cup {None}]
           /\ tasks' \in [Tasks -> Task \cup {None}]
           /\ \A u \in Tasks : tasks'[u] # None /\ tasks'[u].pc \in {"boot", "stamp"} => tasks'[u].pid \in Pids
<1> DEFINE h == mem.handle[s]
           p == mem.sessions[s].pid
           m == [mem EXCEPT !.sock[s] = 0, !.watched = mem.watched \ {h}]
<1>1. procs \in [Pids -> Proc] /\ mem \in Memory /\ rows \in [Sids -> Row \cup {None}]
  BY TypeParts DEF Typed
<1>2. h \in 0..MaxProcs /\ p \in 0..MaxProcs /\ mem.watched \in SUBSET Pids
  BY <1>1 DEF Memory, Has, Session
<1>3. m \in Memory
  <2>1. mem.watched \ {h} \in SUBSET Pids
    BY <1>2
  <2> HIDE DEF h
  <2> QED BY <1>1, <2>1, Numbers DEF Memory
<1>4. ASSUME NEW pc \in {"reap", "kill"}, NEW q \in 0..MaxProcs
      PROVE  /\ [x EXCEPT !.pc = pc, !.sid = s, !.pid = q] \in Task
             /\ [x EXCEPT !.pc = pc, !.sid = s, !.pid = q].pc = pc
  BY <1>4, Numbers DEF Task
<1>5. \/ /\ procs' \in {procs, Signalled(h, "stop"), Signalled(p, "stop")} /\ mem' = m /\ UNCHANGED rows
         /\ \E pc \in {"reap", "kill"}, q \in {h, p} :
               tasks' = [tasks EXCEPT ![t] = [x EXCEPT !.pc = pc, !.sid = s, !.pid = q]]
      \/ UNCHANGED procs /\ Cleaned(m, {s}) /\ tasks' = [tasks EXCEPT ![t] = AfterStop(x)]
  BY DEF StopBegins
<1> HIDE DEF h, p, m
<1>6. "stop" \in Marks
  BY DEF Marks
<1>7. CASE UNCHANGED procs /\ Cleaned(m, {s}) /\ tasks' = [tasks EXCEPT ![t] = AfterStop(x)]
  BY <1>1, <1>3, <1>7, CleanedType, AfterStopType, TasksType
<1>8. ASSUME procs' \in {procs, Signalled(h, "stop"), Signalled(p, "stop")}, mem' = m, UNCHANGED rows,
             NEW pc \in {"reap", "kill"}, NEW q \in {h, p},
             tasks' = [tasks EXCEPT ![t] = [x EXCEPT !.pc = pc, !.sid = s, !.pid = q]]
      PROVE  /\ procs' \in [Pids -> Proc] /\ mem' \in Memory /\ rows' \in [Sids -> Row \cup {None}]
             /\ tasks' \in [Tasks -> Task \cup {None}]
             /\ \A u \in Tasks : tasks'[u] # None /\ tasks'[u].pc \in {"boot", "stamp"} => tasks'[u].pid \in Pids
  <2> DEFINE y == [x EXCEPT !.pc = pc, !.sid = s, !.pid = q]
  <2>1. y \in Task /\ y.pc = pc
    BY <1>2, <1>4
  <2>2. tasks' = [tasks EXCEPT ![t] = y]
    BY <1>8
  <2> HIDE DEF y
  <2>3. /\ tasks' \in [Tasks -> Task \cup {None}]
        /\ \A u \in Tasks : tasks'[u] # None /\ tasks'[u].pc \in {"boot", "stamp"} => tasks'[u].pid \in Pids
    BY <2>1, <2>2, TasksType
  <2>4. procs' \in [Pids -> Proc]
    BY <1>1, <1>6, <1>8, SignalledType
  <2> QED BY <1>1, <1>3, <1>8, <2>3, <2>4
<1> QED BY <1>5, <1>7, <1>8

\* What a step leaves typed that changes neither the loop nor the counters
LEMMA TypedStep ==
    ASSUME Typed, procs' \in [Pids -> Proc], mem' \in Memory, rows' \in [Sids -> Row \cup {None}],
           tasks' \in [Tasks -> Task \cup {None}],
           \A u \in Tasks : tasks'[u] # None /\ tasks'[u].pc \in {"boot", "stamp"} => tasks'[u].pid \in Pids,
           boot' \in Boot, LoopKnows', count' \in Count,
           past' \subseteq {"several", "raced", "lost"}
    PROVE  Typed'
BY DEF Typed, Known, LoopKnows, TypeOK, Boot, Count

\* What a step leaves alone keeps its type.
LEMMA Unchanged ==
    ASSUME Typed
    PROVE  /\ UNCHANGED procs => procs' \in [Pids -> Proc]
           /\ UNCHANGED mem => mem' \in Memory
           /\ UNCHANGED rows => rows' \in [Sids -> Row \cup {None}]
           /\ UNCHANGED tasks => /\ tasks' \in [Tasks -> Task \cup {None}]
                                 /\ \A u \in Tasks : tasks'[u] # None /\ tasks'[u].pc \in {"boot", "stamp"}
                                                       => tasks'[u].pid \in Pids
           /\ UNCHANGED boot => boot' \in Boot /\ LoopKnows'
           /\ UNCHANGED count => count' \in Count
           /\ UNCHANGED past => past' \subseteq {"several", "raced", "lost"}
BY TypeParts DEF Typed, Known, LoopKnows

\* Requests are counted up to their bound.
LEMMA AsksType ==
    ASSUME Typed, count.asked < MaxAsked, Asks
    PROVE  count' \in Count
BY TypeParts, BoundAssumption DEF Typed, Asks, Count

\* What has happened is one of three things.
LEMMA NotesType ==
    ASSUME Typed, NEW S, Notes(S), S \subseteq {"several", "raced", "lost"}
    PROVE  past' \subseteq {"several", "raced", "lost"}
BY TypeParts DEF Typed, Notes

\* Requests that come in keep the types.
LEMMA AskedType ==
    ASSUME Typed, NEW t \in Tasks, Asked(t)
    PROVE  Typed'
<1>1. /\ procs \in [Pids -> Proc] /\ mem \in Memory /\ rows \in [Sids -> Row \cup {None}]
      /\ tasks \in [Tasks -> Task \cup {None}]
  BY TypeParts DEF Typed
<1>2. ASSUME NEW s \in Sids, Has(s)
      PROVE  /\ mem.sessions[s] \in Session /\ mem.handle[s] \in 0..MaxProcs
             /\ mem.sessions[s].pid \in 0..MaxProcs /\ mem.sessions[s].file \in Files
             /\ mem.sessions[s].name \in Names
  BY <1>1, <1>2 DEF Memory, Has, Session
<1>3. ASSUME NEW s \in Sids, Stop(t, s) PROVE Typed'
  <2> DEFINE x == NewTask("stop", "reap", s, 0, mem.sessions[s].file, mem.sessions[s].name)
  <2>1. x \in Task
    BY <1>2, <1>3, Numbers DEF Stop, NewTask, Task, AllRequests
  <2>2. Has(s) /\ StopBegins(t, x, s) /\ count.asked < MaxAsked /\ Asks /\ UNCHANGED boot
    BY <1>3 DEF Stop, Idle
  <2>3. past' \subseteq {"several", "raced", "lost"}
    BY <1>3, NotesType DEF Stop, RacedIf
  <2> HIDE DEF x
  <2> QED BY <2>1, <2>2, <2>3, StopBeginsType, AsksType, Unchanged, TypedStep
<1>4. ASSUME NEW s \in Sids, Restart(t, s) PROVE Typed'
  <2> DEFINE session == mem.sessions[s]
             h == mem.handle[s]
             pc == IF h # 0 THEN "restart reap" ELSE IF session.pid # 0 THEN "restart verify" ELSE "port"
             x == NewTask("restart", pc, s, IF h # 0 THEN h ELSE session.pid, session.file, session.name)
             m == [mem EXCEPT !.sessions[s].status = "starting", !.sock[s] = 0, !.watched = mem.watched \ {h}]
  <2>1. Has(s) /\ count.asked < MaxAsked /\ Asks /\ UNCHANGED <<rows, boot>> /\ mem' = m
        /\ procs' = (IF Kernel(h) THEN Signalled(h, "restart") ELSE procs)
        /\ tasks' = [tasks EXCEPT ![t] = x]
    BY <1>4 DEF Restart, Idle
  <2>2. x \in Task /\ x.pc \notin {"boot", "stamp"}
    BY <1>2, <2>1, Numbers DEF NewTask, Task, AllRequests
  <2>3. m \in Memory
    <3>1. [mem.sessions[s] EXCEPT !.status = "starting"] \in Session
      BY <1>2, <2>1 DEF Session
    <3>2. mem.watched \ {h} \in SUBSET Pids
      BY <1>1 DEF Memory
    <3> HIDE DEF h
    <3> QED BY <1>1, <3>1, <3>2, Numbers DEF Memory
  <2>4. procs' \in [Pids -> Proc]
    BY <1>1, <2>1, SignalledType DEF Marks
  <2>5. past' \subseteq {"several", "raced", "lost"}
    BY <1>4, NotesType DEF Restart, RacedIf
  <2> HIDE DEF x, m
  <2>6. /\ tasks' \in [Tasks -> Task \cup {None}]
        /\ \A u \in Tasks : tasks'[u] # None /\ tasks'[u].pc \in {"boot", "stamp"} => tasks'[u].pid \in Pids
    BY <2>1, <2>2, TasksType
  <2> QED BY <2>1, <2>3, <2>4, <2>5, <2>6, AsksType, Unchanged, TypedStep
<1>5. ASSUME NEW s \in Sids, CleanDead(t, s) PROVE Typed'
  <2> DEFINE x == NewTask("clean", "clean check", s, rows[s].pid, rows[s].file, rows[s].name)
  <2>1. count.asked < MaxAsked /\ Asks /\ UNCHANGED <<procs, mem, boot>> /\ rows[s] # None
    BY <1>5 DEF CleanDead, Idle, DeadRows
  <2>2. rows[s] \in Row
    BY <1>1, <2>1
  <2>3. x \in Task /\ x.pc \notin {"boot", "stamp"}
    <3>1. rows[s].pid \in 0..MaxProcs /\ rows[s].file \in Files /\ rows[s].name \in Names
      BY <2>2, Numbers DEF Row
    <3> QED BY <3>1, Numbers DEF NewTask, Task, AllRequests
  <2>4. rows' \in [Sids -> Row \cup {None}]
    BY <1>1, <1>5 DEF CleanDead
  <2>5. /\ tasks' \in [Tasks -> Task \cup {None}]
        /\ \A u \in Tasks : tasks'[u] # None /\ tasks'[u].pc \in {"boot", "stamp"} => tasks'[u].pid \in Pids
    <3>1. UNCHANGED tasks \/ tasks' = [tasks EXCEPT ![t] = x]
      BY <1>5 DEF CleanDead
    <3> HIDE DEF x
    <3> QED BY <2>3, <3>1, TasksType, Unchanged
  <2>6. past' \subseteq {"several", "raced", "lost"}
    BY <1>5, NotesType DEF CleanDead
  <2> QED BY <2>1, <2>4, <2>5, <2>6, AsksType, Unchanged, TypedStep
<1>8. ASSUME NEW s \in Sids, AutoCheck(t, s) PROVE Typed'
  <2> DEFINE x == NewTask("clean", "clean delete", s, rows[s].pid, rows[s].file, rows[s].name)
  <2>1. count.asked < MaxAsked /\ Asks /\ UNCHANGED <<mem, rows, boot>> /\ rows[s] # None
        /\ tasks' = [tasks EXCEPT ![t] = x]
    BY <1>8 DEF AutoCheck, Idle, DeadRows
  <2>2. rows[s] \in Row
    BY <1>1, <2>1
  <2>3. x \in Task /\ x.pc \notin {"boot", "stamp"}
    <3>1. rows[s].pid \in 0..MaxProcs /\ rows[s].file \in Files /\ rows[s].name \in Names
      BY <2>2, Numbers DEF Row
    <3> QED BY <3>1, Numbers DEF NewTask, Task, AllRequests
  <2>4. procs' \in [Pids -> Proc]
    BY <1>1, <1>8, MissedNotes DEF AutoCheck, Noted
  <2> HIDE DEF x
  <2>5. /\ tasks' \in [Tasks -> Task \cup {None}]
        /\ \A u \in Tasks : tasks'[u] # None /\ tasks'[u].pc \in {"boot", "stamp"} => tasks'[u].pid \in Pids
    BY <2>1, <2>3, TasksType
  <2>6. past' \subseteq {"several", "raced", "lost"}
    BY <1>8, NotesType DEF AutoCheck
  <2> QED BY <2>1, <2>4, <2>5, <2>6, AsksType, Unchanged, TypedStep
<1>6. ASSUME NEW f \in Files, NEW n \in Names, StartKernel(t, f, n) PROVE Typed'
  <2>1. count.asked < MaxAsked /\ Asks /\ UNCHANGED <<procs, mem, rows, boot>>
        /\ tasks' = [tasks EXCEPT ![t] = NewTask("start", "port", 0, 0, f, n)]
    BY <1>6 DEF StartKernel, Idle
  <2>2. past' \subseteq {"several", "raced", "lost"}
    BY <1>6, NotesType DEF StartKernel, Early
  <2>3. NewTask("start", "port", 0, 0, f, n) \in Task /\ NewTask("start", "port", 0, 0, f, n).pc = "port"
    BY Numbers DEF NewTask, Task, AllRequests
  <2> QED BY <2>1, <2>2, <2>3, TasksType, AsksType, Unchanged, TypedStep
<1>7. ASSUME NEW f \in Files, NEW n \in Names, NEW s \in 0..MaxSessions, GetOrCreate(t, f, n, s) PROVE Typed'
  <2> DEFINE x == NewTask("create", "port", 0, 0, f, n)
             mapped == [mem EXCEPT !.files[f] = s]
  <2>1. x \in Task /\ x.pc = "port"
    BY Numbers DEF NewTask, Task, AllRequests
  <2>2. count.asked < MaxAsked /\ Asks /\ UNCHANGED boot
    BY <1>7 DEF GetOrCreate, Idle
  <2>3. past' \subseteq {"several", "raced", "lost"}
    BY <1>7, NotesType DEF GetOrCreate, Early, RacedIf
  <2>4. mapped \in Memory
    BY <1>1, FilesType
  <2> DEFINE y == [x EXCEPT !.pc = "poll", !.sid = s]
             z == [x EXCEPT !.then = "port"]
  <2>5. y \in Task /\ y.pc = "poll"
    BY <2>1 DEF Task
  <2>6. z \in Task
    BY <2>1 DEF Task
  <2>7. Live(s) => s \in Sids /\ Has(s)
    BY Numbers DEF Live, Has
  <2>8. \/ tasks' = [tasks EXCEPT ![t] = x] /\ UNCHANGED <<procs, mem, rows>>
        \/ mem' = mapped /\ tasks' = [tasks EXCEPT ![t] = y] /\ UNCHANGED <<procs, rows>>
        \/ Live(s) /\ StopBegins(t, z, s)
        \/ mem' = mapped /\ UNCHANGED <<procs, rows, tasks>>
    BY <1>7 DEF GetOrCreate
  <2> HIDE DEF x, y, z, mapped
  <2>9. CASE tasks' = [tasks EXCEPT ![t] = x] /\ UNCHANGED <<procs, mem, rows>>
    BY <2>1, <2>2, <2>3, <2>9, TasksType, AsksType, Unchanged, TypedStep
  <2>10. CASE mem' = mapped /\ tasks' = [tasks EXCEPT ![t] = y] /\ UNCHANGED <<procs, rows>>
    BY <2>2, <2>3, <2>4, <2>5, <2>10, TasksType, AsksType, Unchanged, TypedStep
  <2>11. CASE Live(s) /\ StopBegins(t, z, s)
    BY <2>2, <2>3, <2>6, <2>7, <2>11, StopBeginsType, AsksType, Unchanged, TypedStep
  <2>12. CASE mem' = mapped /\ UNCHANGED <<procs, rows, tasks>>
    BY <2>2, <2>3, <2>4, <2>12, AsksType, Unchanged, TypedStep
  <2> QED BY <2>8, <2>9, <2>10, <2>11, <2>12
<1> QED BY <1>3, <1>4, <1>5, <1>6, <1>7, <1>8 DEF Asked

\* The steps of requests in progress keep the types.
LEMMA TaskStepType ==
    ASSUME Typed, NEW t \in Tasks, TaskStep(t)
    PROVE  Typed'
<1>1. /\ procs \in [Pids -> Proc] /\ mem \in Memory /\ rows \in [Sids -> Row \cup {None}]
      /\ tasks \in [Tasks -> Task \cup {None}] /\ count \in Count
  BY TypeParts DEF Typed
<1>2. tasks[t] # None
  BY DEF TaskStep, StopEnds, Polled, SpawnNew, SpawnAgain, Booted, BootFails, Stamped,
         RestartVerified, RestartKills, CleanChecked, CleanEnds
<1>3. /\ tasks[t] \in Task /\ tasks[t].sid \in 0..MaxSessions /\ tasks[t].pid \in 0..MaxProcs
      /\ tasks[t].file \in Files /\ tasks[t].name \in Names
      /\ tasks[t].pc \in {"boot", "stamp"} => tasks[t].pid \in Pids
  BY <1>1, <1>2 DEF Task, Typed, Known
<1>4. /\ mem.sessions \in [Sids -> Session \cup {None}]
      /\ \A s \in 0..MaxSessions : Has(s) => s \in Sids /\ mem.sessions[s] \in Session
  BY <1>1, Numbers DEF Memory, Has
<1> DEFINE s == tasks[t].sid
<1>5. CASE StopEnds(t)
  <2> DEFINE m == IF tasks[t].pc = "reap" THEN [mem EXCEPT !.handle[s] = 0] ELSE mem
  <2>1. m \in Memory
    BY <1>1, Numbers, HandleType
  <2>2. Cleaned(m, {s}) /\ tasks' = [tasks EXCEPT ![t] = AfterStop(tasks[t])]
        /\ procs' = (IF tasks[t].pc = "kill" THEN Killed(tasks[t].pid, "stop") ELSE procs)
        /\ UNCHANGED <<boot, count, past>>
    BY <1>5 DEF StopEnds
  <2> HIDE DEF m
  <2>3. procs' \in [Pids -> Proc]
    BY <1>1, <2>2, SignalledType DEF Marks
  <2>4. AfterStop(tasks[t]) \in Task \cup {None} /\ (AfterStop(tasks[t]) # None => AfterStop(tasks[t]).pc = "port")
    BY <1>3, AfterStopType
  <2>5. /\ tasks' \in [Tasks -> Task \cup {None}]
        /\ \A u \in Tasks : tasks'[u] # None /\ tasks'[u].pc \in {"boot", "stamp"} => tasks'[u].pid \in Pids
    BY <2>2, <2>4, TasksType
  <2> QED BY <2>1, <2>2, <2>3, <2>5, CleanedType, Unchanged, TypedStep
<1>6. CASE Polled(t)
  <2> DEFINE x == [tasks[t] EXCEPT !.pc = "port", !.sid = 0]
  <2>1. x \in Task /\ x.pc = "port"
    BY <1>3, Numbers DEF Task
  <2>2. (Ends(t) \/ tasks' = [tasks EXCEPT ![t] = x]) /\ UNCHANGED <<procs, mem, rows, boot, count, past>>
    BY <1>1, <1>6 DEF Polled
  <2> HIDE DEF x
  <2>3. /\ tasks' \in [Tasks -> Task \cup {None}]
        /\ \A u \in Tasks : tasks'[u] # None /\ tasks'[u].pc \in {"boot", "stamp"} => tasks'[u].pid \in Pids
    BY <2>1, <2>2, TasksType, EndsType
  <2> QED BY <2>2, <2>3, Unchanged, TypedStep
<1>7. CASE SpawnNew(t)
  <2> DEFINE p == count.pids + 1
             n == count.sids + 1
             x == [tasks[t] EXCEPT !.pc = "boot", !.sid = n, !.pid = p]
             session == [status |-> "starting", pid |-> p, file |-> tasks[t].file,
                         name |-> tasks[t].name, quiet |-> FALSE]
             m == [mem EXCEPT !.sessions[n] = session, !.handle[n] = p, !.sock[n] = p,
                              !.files[tasks[t].file] = n, !.watched = mem.watched \cup {p}]
  <2>1. /\ p \in Pids /\ n \in Sids /\ tasks' = [tasks EXCEPT ![t] = x] /\ mem' = m
        /\ procs' = [procs EXCEPT ![p] = [st |-> "booting", file |-> tasks[t].file, marks |-> {}]]
        /\ count' = [count EXCEPT !.pids = p, !.sids = n] /\ UNCHANGED <<rows, boot, past>>
    BY <1>1, <1>7 DEF SpawnNew
  <2>2. p \in 0..MaxProcs /\ n \in 0..MaxSessions
    BY <2>1, Numbers
  <2>3. x \in Task /\ x.pid \in Pids
    <3> HIDE DEF p, n
    <3> QED BY <1>3, <2>1, <2>2 DEF Task
  <2>4. session \in Session
    <3> HIDE DEF p
    <3> QED BY <1>3, <2>2 DEF Session
  <2>5. m \in Memory
    <3>1. mem.watched \cup {p} \in SUBSET Pids
      BY <1>1, <2>1 DEF Memory
    <3> HIDE DEF p, n, session
    <3> QED BY <1>1, <2>2, <2>4, <3>1 DEF Memory
  <2>6. procs' \in [Pids -> Proc]
    <3> HIDE DEF p
    <3> QED BY <1>1, <1>3, <2>1 DEF Proc
  <2>7. count' \in Count
    <3> HIDE DEF p, n
    <3> QED BY <1>1, <2>1, <2>2 DEF Count
  <2> HIDE DEF p, n, x, m
  <2>8. /\ tasks' \in [Tasks -> Task \cup {None}]
        /\ \A u \in Tasks : tasks'[u] # None /\ tasks'[u].pc \in {"boot", "stamp"} => tasks'[u].pid \in Pids
    BY <2>1, <2>3, TasksType
  <2> QED BY <2>1, <2>5, <2>6, <2>7, <2>8, Unchanged, TypedStep
<1>8. CASE SpawnAgain(t)
  <2> DEFINE p == count.pids + 1
             x == [tasks[t] EXCEPT !.pc = "boot", !.pid = p]
             held == [mem EXCEPT !.handle[s] = p, !.watched = mem.watched \cup {p}]
             m == [held EXCEPT !.sessions[s].pid = p, !.sessions[s].quiet = FALSE, !.sock[s] = p]
  <2>1. /\ p \in Pids
        /\ \/ Has(s) /\ mem' = m /\ tasks' = [tasks EXCEPT ![t] = x]
           \/ mem' = held /\ Ends(t)
        /\ procs' = [procs EXCEPT ![p] = [st |-> "booting", file |-> tasks[t].file, marks |-> {}]]
        /\ count' = [count EXCEPT !.pids = p] /\ UNCHANGED <<rows, boot, past>>
    BY <1>1, <1>8 DEF SpawnAgain
  <2>2. p \in 0..MaxProcs
    BY <2>1, Numbers
  <2>3. x \in Task /\ x.pid \in Pids
    <3> HIDE DEF p
    <3> QED BY <1>3, <2>1, <2>2 DEF Task
  <2>4. held \in Memory
    <3>1. mem.watched \cup {p} \in SUBSET Pids
      BY <1>1, <2>1 DEF Memory
    <3> HIDE DEF p
    <3> QED BY <1>1, <2>2, <3>1 DEF Memory
  <2>5. Has(s) => m \in Memory
    <3> SUFFICES ASSUME Has(s) PROVE m \in Memory
      OBVIOUS
    <3>1. held.sessions = mem.sessions
      BY <1>1 DEF Memory
    <3>2. s \in Sids /\ held.sessions[s] \in Session
      BY <1>3, <1>4, <3>1
    <3>3. ASSUME NEW x1 \in Session, NEW q \in 0..MaxProcs, NEW f \in BOOLEAN
          PROVE  [x1 EXCEPT !.pid = q, !.quiet = f] \in Session
      BY DEF Session
    <3>4. FALSE \in BOOLEAN
      OBVIOUS
    <3> HIDE DEF p, held
    <3>5. [held.sessions[s] EXCEPT !.pid = p, !.quiet = FALSE] \in Session
      BY <2>2, <3>2, <3>3, <3>4, Zenon
    <3> DEFINE y == [held.sessions[s] EXCEPT !.pid = p, !.quiet = FALSE]
    <3>6. m = [held EXCEPT !.sessions[s] = y, !.sock[s] = p]
      BY <2>4, <3>2 DEF Memory
    <3> HIDE DEF y, m
    <3>7. y \in Session
      BY <3>5 DEF y
    <3> QED BY <2>2, <2>4, <3>6, <3>7 DEF Memory
  <2>6. procs' \in [Pids -> Proc]
    <3> HIDE DEF p
    <3> QED BY <1>1, <1>3, <2>1 DEF Proc
  <2>7. count' \in Count
    <3> HIDE DEF p
    <3> QED BY <1>1, <2>1, <2>2 DEF Count
  <2> HIDE DEF p, x, m, held
  <2>8. /\ tasks' \in [Tasks -> Task \cup {None}]
        /\ \A u \in Tasks : tasks'[u] # None /\ tasks'[u].pc \in {"boot", "stamp"} => tasks'[u].pid \in Pids
    BY <2>1, <2>3, TasksType, EndsType
  <2>9. mem' \in Memory
    BY <2>1, <2>4, <2>5
  <2> QED BY <2>1, <2>6, <2>7, <2>8, <2>9, Unchanged, TypedStep
<1>9. CASE Booted(t)
  <2>1. Goes(t, "stamp") /\ tasks[t].pid \in Pids /\ UNCHANGED <<procs, mem, rows, boot, count, past>>
    BY <1>3, <1>9 DEF Booted
  <2> QED BY <1>2, <2>1, GoesType, Unchanged, TypedStep
<1>10. CASE BootFails(t)
  <2>1. UNCHANGED <<boot, count, past>>
        /\ (\/ Has(s) /\ StopBegins(t, tasks[t], s)
            \/ Ends(t) /\ UNCHANGED <<procs, mem, rows>>)
    BY <1>10 DEF BootFails
  <2>2. CASE Has(s) /\ StopBegins(t, tasks[t], s)
    <3>1. s \in Sids
      BY <1>3, <1>4, <2>2
    <3> QED BY <1>3, <2>1, <2>2, <3>1, StopBeginsType, Unchanged, TypedStep
  <2>3. CASE Ends(t) /\ UNCHANGED <<procs, mem, rows>>
    BY <2>1, <2>3, EndsType, Unchanged, TypedStep
  <2> QED BY <2>1, <2>2, <2>3
<1>11. CASE Stamped(t)
  <2>1. PICK answered \in Answers : LET time == StartTime(tasks[t].pid, answered) IN
          /\ rows' = Recorded(s, [status |-> "active", pid |-> tasks[t].pid, file |-> tasks[t].file,
                                  name |-> tasks[t].name, mine |-> TRUE, time |-> time])
          /\ procs' = Recognised(tasks[t].pid, time)
    BY <1>11 DEF Stamped
  <2>2. Ends(t) /\ UNCHANGED <<boot, count, past>> /\ tasks[t].pid \in Pids
        /\ mem' \in {mem, IF Has(s) THEN [mem EXCEPT !.sessions[s].status = "ready"] ELSE mem}
    BY <1>3, <1>11 DEF Stamped
  <2> DEFINE k == StartTime(tasks[t].pid, answered)
  <2>3. k \in StartTimes
    BY StartTimeIs
  <2>6. procs' \in [Pids -> Proc]
    BY <2>1, RecognisedNotes DEF Noted
  <2>4. rows' \in [Sids -> Row \cup {None}]
    <3> HIDE DEF k
    <3>1. [status |-> "active", pid |-> tasks[t].pid, file |-> tasks[t].file,
           name |-> tasks[t].name, mine |-> TRUE, time |-> k] \in Row
      BY <1>3, <2>2, <2>3 DEF Row
    <3> QED BY <1>1, <2>1, <3>1 DEF Recorded, k
  <2>5. mem' \in Memory
    <3>1. ASSUME Has(s) PROVE [mem EXCEPT !.sessions[s].status = "ready"] \in Memory
      <4>1. [mem.sessions[s] EXCEPT !.status = "ready"] \in Session
        BY <1>3, <1>4, <3>1 DEF Session
      <4> QED BY <1>1, <4>1 DEF Memory
    <3> QED BY <1>1, <2>2, <3>1
  <2> QED BY <2>2, <2>4, <2>5, <2>6, EndsType, Unchanged, TypedStep
<1>12. CASE RestartVerified(t)
  <2>1. UNCHANGED <<rows, boot, count, past>>
        /\ (\/ procs' = Signalled(tasks[t].pid, "restart") /\ Goes(t, "restart kill") /\ UNCHANGED mem
            \/ mem' = DeclaredDead(s) /\ Ends(t) /\ procs' \in {procs, Missed({tasks[t].pid})})
    BY <1>12 DEF RestartVerified
  <2>2. DeclaredDead(s) \in Memory
    <3>1. ASSUME Has(s) PROVE [mem EXCEPT !.sessions[s].status = "dead"] \in Memory
      <4>1. [mem.sessions[s] EXCEPT !.status = "dead"] \in Session
        BY <1>3, <1>4, <3>1 DEF Session
      <4> QED BY <1>1, <4>1 DEF Memory
    <3> QED BY <1>1, <3>1 DEF DeclaredDead
  <2>3. CASE procs' = Signalled(tasks[t].pid, "restart") /\ Goes(t, "restart kill") /\ UNCHANGED mem
    <3>1. procs' \in [Pids -> Proc]
      BY <2>3, SignalledType DEF Marks
    <3> QED BY <1>2, <2>1, <2>3, <3>1, GoesType, Unchanged, TypedStep
  <2>4. CASE mem' = DeclaredDead(s) /\ Ends(t) /\ procs' \in {procs, Missed({tasks[t].pid})}
    <3>1. procs' \in [Pids -> Proc]
      BY <1>1, <2>4, MissedNotes DEF Noted
    <3> QED BY <2>1, <2>2, <2>4, <3>1, EndsType, Unchanged, TypedStep
  <2> QED BY <2>1, <2>3, <2>4
<1>13. CASE RestartKills(t)
  <2> DEFINE m == IF tasks[t].pc = "restart reap" THEN [mem EXCEPT !.handle[s] = 0]
                  ELSE IF Has(s) THEN [mem EXCEPT !.sessions[s].pid = 0] ELSE mem
  <2>1. /\ UNCHANGED <<rows, boot, count, past>>
        /\ procs' \in {procs, Killed(tasks[t].pid, "restart")}
        /\ \/ mem' = (IF Has(s) THEN [m EXCEPT !.sessions[s].status = "dead"] ELSE m) /\ Ends(t)
           \/ mem' = m /\ Goes(t, "port")
    BY <1>13 DEF RestartKills
  <2>2. m \in Memory
    <3>1. ASSUME Has(s) PROVE [mem EXCEPT !.sessions[s].pid = 0] \in Memory
      <4>1. [mem.sessions[s] EXCEPT !.pid = 0] \in Session
        BY <1>3, <1>4, <3>1, Numbers DEF Session
      <4> QED BY <1>1, <4>1 DEF Memory
    <3> QED BY <1>1, <3>1, Numbers, HandleType
  <2>3. ASSUME Has(s) PROVE [m EXCEPT !.sessions[s].status = "dead"] \in Memory
    <3>1. m.sessions[s] \in Session
      <4>1. s \in Sids /\ mem.sessions[s] \in Session
        BY <1>3, <1>4, <2>3
      <4>2. m.sessions[s] \in {mem.sessions[s], [mem.sessions[s] EXCEPT !.pid = 0]}
        BY <1>1, <4>1 DEF Memory
      <4>3. [mem.sessions[s] EXCEPT !.pid = 0] \in Session
        BY <4>1, Numbers DEF Session
      <4> QED BY <4>1, <4>2, <4>3
    <3> HIDE DEF m
    <3>2. [m.sessions[s] EXCEPT !.status = "dead"] \in Session
      BY <3>1 DEF Session
    <3> QED BY <2>2, <3>2 DEF Memory
  <2> HIDE DEF m
  <2>4. mem' \in Memory
    BY <2>1, <2>2, <2>3
  <2>5. procs' \in [Pids -> Proc]
    BY <1>1, <2>1, SignalledType DEF Marks
  <2>6. /\ tasks' \in [Tasks -> Task \cup {None}]
        /\ \A u \in Tasks : tasks'[u] # None /\ tasks'[u].pc \in {"boot", "stamp"} => tasks'[u].pid \in Pids
    BY <1>2, <2>1, EndsType, GoesType
  <2> QED BY <2>1, <2>4, <2>5, <2>6, Unchanged, TypedStep
<1>14. CASE CleanChecked(t)
  <2>1. UNCHANGED <<mem, rows, boot, count, past>>
        /\ (\/ procs' = Signalled(tasks[t].pid, "clean") /\ Goes(t, "clean kill")
            \/ Ends(t) /\ UNCHANGED procs)
    BY <1>14 DEF CleanChecked
  <2>2. procs' \in [Pids -> Proc]
    BY <1>1, <2>1, SignalledType DEF Marks
  <2>3. /\ tasks' \in [Tasks -> Task \cup {None}]
        /\ \A u \in Tasks : tasks'[u] # None /\ tasks'[u].pc \in {"boot", "stamp"} => tasks'[u].pid \in Pids
    BY <1>2, <2>1, EndsType, GoesType
  <2> QED BY <2>1, <2>2, <2>3, Unchanged, TypedStep
<1>15. CASE CleanEnds(t)
  <2>1. procs' \in [Pids -> Proc]
    BY <1>1, <1>15, SignalledType DEF CleanEnds, Marks
  <2>2. rows' \in [Sids -> Row \cup {None}]
    BY <1>1, <1>15 DEF CleanEnds
  <2> QED BY <1>15, <2>1, <2>2, EndsType, Unchanged, TypedStep DEF CleanEnds
<1> QED BY <1>5, <1>6, <1>7, <1>8, <1>9, <1>10, <1>11, <1>12, <1>13, <1>14, <1>15 DEF TaskStep

\* Processes, the sweep and the clean-up of rows keep the types.
LEMMA WorldType ==
    ASSUME Typed,
           \/ \E p \in Pids : KernelUp(p) \/ Exit(p) \/ Reuse(p) \/ ExitEvent(p)
           \/ \E s \in Sids : Quiet(s)
           \/ AutoClean \/ SweepLiveness
    PROVE  Typed'
<1>1. /\ procs \in [Pids -> Proc] /\ mem \in Memory /\ rows \in [Sids -> Row \cup {None}] /\ count \in Count
  BY TypeParts DEF Typed
<1>2. ASSUME NEW p \in Pids, KernelUp(p) PROVE Typed'
  <2>1. procs' \in [Pids -> Proc]
    BY <1>1, <1>2 DEF KernelUp, Proc
  <2> QED BY <1>2, <2>1, Unchanged, TypedStep DEF KernelUp
<1>3. ASSUME NEW p \in Pids, Exit(p) PROVE Typed'
  <2>1. procs' \in [Pids -> Proc]
    BY <1>1, <1>3 DEF Exit, Proc
  <2> QED BY <1>3, <2>1, Unchanged, TypedStep DEF Exit
<1>4. ASSUME NEW p \in Pids, Reuse(p) PROVE Typed'
  <2>1. procs' \in [Pids -> Proc]
    BY <1>1, <1>4 DEF Reuse, Proc
  <2>2. count' \in Count
    BY <1>1, <1>4, BoundAssumption DEF Reuse, Count
  <2> QED BY <1>4, <2>1, <2>2, Unchanged, TypedStep DEF Reuse
<1>5. ASSUME NEW p \in Pids, ExitEvent(p) PROVE Typed'
  <2>1. [mem EXCEPT !.watched = mem.watched \ {p}] \in Memory
    <3>1. mem.watched \ {p} \in SUBSET Pids
      BY <1>1 DEF Memory
    <3> QED BY <1>1, <3>1, WatchedType
  <2>2. mem' \in Memory /\ rows' \in [Sids -> Row \cup {None}]
    BY <1>5, <2>1, CleanedType DEF ExitEvent
  <2> QED BY <1>5, <2>2, Unchanged, TypedStep DEF ExitEvent
<1>6. ASSUME NEW s \in Sids, Quiet(s) PROVE Typed'
  <2>1. mem.sessions[s] \in Session
    BY <1>1, <1>6 DEF Quiet, Has, Memory
  <2>2. [mem.sessions[s] EXCEPT !.quiet = TRUE] \in Session
    <3>1. ASSUME NEW f \in BOOLEAN PROVE [mem.sessions[s] EXCEPT !.quiet = f] \in Session
      BY <2>1 DEF Session
    <3>2. TRUE \in BOOLEAN
      OBVIOUS
    <3> QED BY <3>1, <3>2, Zenon
  <2> DEFINE x == [mem.sessions[s] EXCEPT !.quiet = TRUE]
  <2>3. mem' = [mem EXCEPT !.sessions[s] = x]
    BY <1>1, <1>6 DEF Quiet, Memory
  <2> HIDE DEF x
  <2>4. x \in Session \cup {None}
    BY <2>2 DEF x
  <2>5. mem' \in Memory
    BY <1>1, <2>3, <2>4, SessionType
  <2> QED BY <1>6, <2>5, Unchanged, TypedStep DEF Quiet
<1>7. CASE AutoClean
  <2>1. rows' \in [Sids -> Row \cup {None}]
    BY <1>1, <1>7 DEF AutoClean, Without
  <2> QED BY <1>7, <2>1, Unchanged, TypedStep DEF AutoClean
<1>8. CASE SweepLiveness
  <2>1. mem' \in Memory /\ rows' \in [Sids -> Row \cup {None}]
    BY <1>1, <1>8, CleanedType DEF SweepLiveness
  <2>2. past' \subseteq {"several", "raced", "lost"}
    BY <1>8, NotesType DEF SweepLiveness, RacedIf
  <2> QED BY <1>8, <2>1, <2>2, Unchanged, TypedStep DEF SweepLiveness
<1> QED BY <1>2, <1>3, <1>4, <1>5, <1>6, <1>7, <1>8

\* A row with one of its marks changed
LEMMA RowType ==
    ASSUME NEW r \in Row
    PROVE  /\ [r EXCEPT !.mine = FALSE] \in Row
           /\ [r EXCEPT !.status = "orphaned"] \in Row
           /\ [r EXCEPT !.status = "terminated"] \in Row
           /\ \A k \in StartTimes : [r EXCEPT !.status = "active", !.mine = TRUE, !.time = k] \in Row
<1>1. ASSUME NEW f \in BOOLEAN, NEW k \in StartTimes
      PROVE  /\ [r EXCEPT !.mine = f] \in Row
             /\ [r EXCEPT !.status = "active", !.mine = f, !.time = k] \in Row
  <2>1. [r EXCEPT !.mine = f] \in Row
    BY DEF Row
  <2>2. [r EXCEPT !.status = "active", !.mine = f] \in Row
    BY DEF Row
  <2> DEFINE q == [r EXCEPT !.status = "active", !.mine = f]
  <2>3. [q EXCEPT !.time = k] = [r EXCEPT !.status = "active", !.mine = f, !.time = k]
    OBVIOUS
  <2> HIDE DEF q
  <2>4. q \in Row
    BY <2>2 DEF q
  <2>5. [q EXCEPT !.time = k] \in Row
    BY <2>4 DEF Row
  <2> QED BY <2>1, <2>3, <2>5
<1>2. TRUE \in BOOLEAN /\ FALSE \in BOOLEAN /\ "own" \in StartTimes
  BY DEF StartTimes
<1>3. [r EXCEPT !.mine = FALSE] \in Row
  BY <1>1, <1>2, Zenon
<1>4. \A k \in StartTimes : [r EXCEPT !.status = "active", !.mine = TRUE, !.time = k] \in Row
  BY <1>1, <1>2, Zenon
<1>5. [r EXCEPT !.status = "orphaned"] \in Row /\ [r EXCEPT !.status = "terminated"] \in Row
  BY DEF Row
<1> QED BY <1>3, <1>4, <1>5

\* Terminating a row keeps the type of the rows.
LEMMA TerminatedType ==
    ASSUME Typed, NEW s \in Sids
    PROVE  Terminated(s) \in [Sids -> Row \cup {None}]
BY TypeParts, RowType DEF Typed, Terminated

\* A crash and the start of the next server keep the types.
LEMMA StartType ==
    ASSUME Typed, Crash \/ Listen \/ Reattaching
    PROVE  Typed'
<1>1. /\ procs \in [Pids -> Proc] /\ mem \in Memory /\ rows \in [Sids -> Row \cup {None}]
      /\ count \in Count /\ boot \in Boot
  BY TypeParts DEF Typed
<1>2. boot.left \in SUBSET Sids /\ boot.sid \in 0..MaxSessions /\ boot.row \in Row \cup {None}
  BY <1>1 DEF Boot
<1>3. CASE Crash
  <2>1. NoMemory \in Memory
    BY Numbers DEF NoMemory, Memory
  <2>2. rows' \in [Sids -> Row \cup {None}]
    BY <1>1, <1>3, RowType DEF Crash
  <2>3. boot' \in Boot /\ LoopKnows'
    BY <1>3, Numbers DEF Crash, Boot, NoRows, LoopKnows
  <2>4. count' \in Count
    BY <1>1, <1>3, BoundAssumption DEF Crash, Count
  <2>5. past' \subseteq {"several", "raced", "lost"}
    BY <1>3, NotesType DEF Crash
  <2>6. \A t \in Tasks : tasks'[t] = None
    BY <1>3 DEF Crash
  <2>7. tasks' \in [Tasks -> Task \cup {None}]
    BY <1>3 DEF Crash
  <2> QED BY <1>1, <1>3, <2>1, <2>2, <2>3, <2>4, <2>5, <2>6, <2>7, TypedStep DEF Crash
<1>4. CASE Listen
  <2>1. boot' \in Boot /\ LoopKnows'
    BY <1>1, <1>4 DEF Listen, Boot, Typed, Known, LoopKnows
  <2> QED BY <1>4, <2>1, Unchanged, TypedStep DEF Listen
<1>5. CASE ReattachBegins
  <2>1. rows' \in [Sids -> Row \cup {None}]
    <3>1. \A s \in Sids : Orphaned(rows[s]) \in Row \cup {None}
      BY <1>1, RowType DEF Orphaned
    <3> QED BY <1>5, <3>1 DEF ReattachBegins
  <2>2. boot' \in Boot /\ LoopKnows'
    BY <1>5, <2>1, Numbers DEF ReattachBegins, Boot, LoopKnows
  <2> QED BY <1>5, <2>1, <2>2, Unchanged, TypedStep DEF ReattachBegins
<1>6. ASSUME NEW s \in Sids, ReattachNext(s) PROVE Typed'
  <2> DEFINE r == boot.read[s]
             x == [status |-> "starting", pid |-> r.pid, file |-> r.file, name |-> r.name, quiet |-> FALSE]
             m == [mem EXCEPT !.sessions[s] = x, !.files[r.file] = s, !.sock[s] = r.pid]
             b == [boot EXCEPT !.left = boot.left \ {s}]
             c == [boot EXCEPT !.left = boot.left \ {s}, !.sid = s, !.row = r]
  <2>1. boot.left \ {s} \in SUBSET Sids /\ s \in 0..MaxSessions
    BY <1>2, Numbers
  <2>9. r \in Row /\ (\A q \in boot.left : boot.read[q] # None) /\ (boot.sid # 0 => boot.row # None)
    BY <1>1, <1>6 DEF ReattachNext, Typed, Known, LoopKnows, Boot
  <2>2. b \in Boot /\ b.sid = boot.sid /\ b.row = boot.row /\ b.left = boot.left \ {s} /\ b.read = boot.read
    BY <1>1, <2>1 DEF Boot
  <2>3. c \in Boot /\ c.row = r /\ c.left = boot.left \ {s} /\ c.read = boot.read
    BY <1>1, <2>1, <2>9 DEF Boot
  <2>4. /\ boot.sid = 0 /\ UNCHANGED <<tasks, count>>
        /\ \/ rows' = Terminated(s) /\ boot' = b /\ UNCHANGED mem /\ procs' \in {procs, Missed({r.pid})}
           \/ mem' = m /\ boot' = c /\ UNCHANGED <<procs, rows>>
    BY <1>6 DEF ReattachNext
  <2>8. past' \subseteq {"several", "raced", "lost"}
    BY <1>6, NotesType, Unchanged DEF ReattachNext
  <2>5. m \in Memory
    <3>2. r.pid \in 0..MaxProcs /\ r.file \in Files /\ r.name \in Names
      BY <2>9, Numbers DEF Row
    <3>3. x \in Session
      <4> HIDE DEF r
      <4> QED BY <3>2 DEF Session
    <3> HIDE DEF r, x
    <3> QED BY <1>1, <2>1, <3>2, <3>3 DEF Memory
  <2>10. r # None
    BY <2>9, NoneAssumption
  <2>11. procs' \in [Pids -> Proc]
    BY <1>1, <2>4, MissedNotes DEF Noted
  <2> HIDE DEF r, m, b, c
  <2>6. CASE rows' = Terminated(s) /\ boot' = b /\ UNCHANGED mem
    <3>1. boot' \in Boot /\ LoopKnows'
      BY <2>2, <2>6, <2>9 DEF LoopKnows
    <3> QED BY <2>4, <2>6, <2>8, <2>11, <3>1, TerminatedType, Unchanged, TypedStep
  <2>7. CASE mem' = m /\ boot' = c /\ UNCHANGED <<procs, rows>>
    <3>1. boot' \in Boot /\ LoopKnows'
      BY <2>3, <2>7, <2>9, <2>10 DEF LoopKnows
    <3> QED BY <2>4, <2>5, <2>7, <2>8, <3>1, Unchanged, TypedStep
  <2> QED BY <2>4, <2>6, <2>7
<1>7. CASE ReattachEnds
  <2> DEFINE s == boot.sid
             r == boot.row
             k(a) == IF r.time # "none" THEN r.time ELSE StartTime(r.pid, a)
             x(a) == [r EXCEPT !.status = "active", !.mine = TRUE, !.time = k(a)]
             b == [boot EXCEPT !.sid = 0, !.row = None]
  <2>1. s \in Sids /\ r \in Row
    BY <1>2, <1>7, Numbers DEF ReattachEnds, Typed, Known, LoopKnows
  <2>2. b \in Boot /\ b.sid = 0 /\ b.left = boot.left /\ b.read = boot.read
    BY <1>1, Numbers DEF Boot
  <2>3. \A a : x(a) \in Row
    <3>1. \A a : k(a) \in StartTimes
      BY <2>1, StartTimeIs DEF Row
    <3> HIDE DEF k, r
    <3> QED BY <2>1, <3>1, RowType
  <2>4. boot' = b /\ UNCHANGED <<tasks, count, past>>
        /\ \/ /\ \E a \in Answers : rows' = Recorded(s, x(a))
              /\ procs' = procs \/ \E a \in Answers : procs' = Recognised(r.pid, k(a))
              /\ mem' = IF Has(s) THEN [mem EXCEPT !.sessions[s].status = "ready"] ELSE mem
           \/ mem' = Forgotten(mem, {s}) /\ rows' = Terminated(s) /\ UNCHANGED procs
    BY <1>7 DEF ReattachEnds
  <2>5. Has(s) => [mem EXCEPT !.sessions[s].status = "ready"] \in Memory
    <3> SUFFICES ASSUME Has(s) PROVE [mem EXCEPT !.sessions[s].status = "ready"] \in Memory
      OBVIOUS
    <3>1. mem.sessions[s] \in Session
      BY <1>1, <2>1 DEF Has, Memory
    <3>2. [mem.sessions[s] EXCEPT !.status = "ready"] \in Session
      BY <3>1 DEF Session
    <3> HIDE DEF s
    <3> QED BY <1>1, <3>2 DEF Memory
  <2>8. procs' \in [Pids -> Proc]
    BY <1>1, <2>4, RecognisedNotes DEF Noted
  <2>9. LoopKnows'
    BY <2>2, <2>4 DEF Typed, Known, LoopKnows
  <2> HIDE DEF x, b, s, r, k
  <2>6. rows' \in [Sids -> Row \cup {None}]
    BY <1>1, <2>1, <2>3, <2>4, TerminatedType DEF Recorded
  <2>7. mem' \in Memory
    BY <1>1, <2>4, <2>5, ForgottenType
  <2> QED BY <2>2, <2>4, <2>6, <2>7, <2>8, <2>9, Unchanged, TypedStep
<1>8. CASE ReattachDone
  <2>1. rows' \in [Sids -> Row \cup {None}]
    BY <1>1, <1>8 DEF ReattachDone, Without
  <2>3. procs' \in [Pids -> Proc]
    BY <1>8, MissedNotes DEF ReattachDone, Noted
  <2>2. boot' \in Boot /\ LoopKnows'
    BY <1>1, <1>8 DEF ReattachDone, Boot, NoRows, LoopKnows
  <2> QED BY <1>8, <2>1, <2>2, <2>3, Unchanged, TypedStep DEF ReattachDone
<1> QED BY <1>3, <1>4, <1>5, <1>6, <1>7, <1>8 DEF Reattaching

\* Type correctness is inductive.
LEMMA TypeStep == Typed /\ [Next]_vars => Typed'
<1> SUFFICES ASSUME Typed, [Next]_vars PROVE Typed'
  OBVIOUS
<1>1. CASE UNCHANGED vars
  BY <1>1, Unchanged, TypedStep DEF vars
<1> QED BY <1>1, AskedType, TaskStepType, WorldType, StartType, Zenon DEF Next

\* Every variable keeps its type, whatever requests, deaths and crashes interleave.
THEOREM TypeCorrect == Spec => []TypeOK
<1>1. Spec => []Typed
  BY TypeInit, TypeStep, PTL DEF Spec
<1> QED BY <1>1, PTL DEF Typed

-----------------------------------------------------------------------------
(* Signals *)

\* The first signal of a request goes to a process that was checked, unless the
\* request is a stop.
LEMMA SignalSpares ==
    ASSUME Typed, StrangersSpared, NEW p, NEW who \in Marks,
           Kernel(p) \/ (p \in Pids /\ "taken" \in procs[p].marks) \/ who = "stop",
           procs' = Signalled(p, who)
    PROVE  StrangersSpared'
<1>1. procs \in [Pids -> Proc] /\ \A q \in Pids : procs[q].marks \in SUBSET Marks
  BY TypeParts DEF Typed, Proc
<1> QED BY <1>1 DEF StrangersSpared, Signalled, Kernel, Proc

\* SIGKILL leaves nothing that runs under the process id.
LEMMA KillSpares ==
    ASSUME Typed, StrangersSpared, NEW p, NEW who \in Marks, procs' = Killed(p, who)
    PROVE  StrangersSpared'
<1>1. procs \in [Pids -> Proc]
  BY TypeParts DEF Typed
<1> QED BY <1>1 DEF StrangersSpared, Killed, Proc

\* A process id that is given to another program, or to a kernel, has no signals yet.
LEMMA NewProcSpares ==
    ASSUME Typed, StrangersSpared, NEW p \in Pids, NEW st, NEW file,
           procs' = [procs EXCEPT ![p] = [st |-> st, file |-> file, marks |-> {}]]
    PROVE  StrangersSpared'
<1>1. procs \in [Pids -> Proc]
  BY TypeParts DEF Typed
<1> QED BY <1>1 DEF StrangersSpared

\* What is noted of a process signals none.
LEMMA NotedSpares ==
    ASSUME StrangersSpared, Noted
    PROVE  StrangersSpared'
BY DEF StrangersSpared, Noted

\* stopKernel up to its sleep
LEMMA StopSpares ==
    ASSUME Typed, StrangersSpared, NEW t, NEW x, NEW s, StopBegins(t, x, s)
    PROVE  StrangersSpared'
<1>1. \/ UNCHANGED procs
      \/ procs' = Signalled(mem.handle[s], "stop")
      \/ procs' = Signalled(mem.sessions[s].pid, "stop")
  BY DEF StopBegins
<1> QED BY <1>1, SignalSpares DEF StrangersSpared, Marks

\* No step makes a restart or a clean-up signal a program that runs under the
\* process id of a kernel.
LEMMA SparedStep == Typed /\ StrangersSpared /\ [Next]_vars => StrangersSpared'
<1> SUFFICES ASSUME Typed, StrangersSpared, [Next]_vars PROVE StrangersSpared'
  OBVIOUS
<1>1. CASE UNCHANGED procs
  BY <1>1 DEF StrangersSpared
<1>2. ASSUME NEW t \in Tasks, Asked(t) PROVE StrangersSpared'
  <2>1. ASSUME NEW s \in Sids, Stop(t, s) PROVE StrangersSpared'
    BY <2>1, StopSpares DEF Stop
  <2>2. ASSUME NEW s \in Sids, Restart(t, s) PROVE StrangersSpared'
    <3>1. UNCHANGED procs \/ (Kernel(mem.handle[s]) /\ procs' = Signalled(mem.handle[s], "restart"))
      BY <2>2 DEF Restart
    <3> QED BY <1>1, <3>1, SignalSpares DEF Marks
  <2>3. ASSUME NEW s \in Sids, CleanDead(t, s) PROVE StrangersSpared'
    BY <1>1, <2>3 DEF CleanDead
  <2>4. ASSUME NEW f \in Files, NEW n \in Names, StartKernel(t, f, n) PROVE StrangersSpared'
    BY <1>1, <2>4 DEF StartKernel
  <2>5. ASSUME NEW f \in Files, NEW n \in Names, NEW s \in 0..MaxSessions, GetOrCreate(t, f, n, s)
        PROVE  StrangersSpared'
    <3>1. \/ UNCHANGED procs
          \/ \E x : StopBegins(t, x, s)
      BY <2>5 DEF GetOrCreate
    <3> QED BY <1>1, <3>1, StopSpares
  <2>6. ASSUME NEW s \in Sids, AutoCheck(t, s) PROVE StrangersSpared'
    BY <1>1, <2>6, MissedNotes, NotedSpares DEF AutoCheck
  <2> QED BY <1>2, <2>1, <2>2, <2>3, <2>4, <2>5, <2>6 DEF Asked
<1>3. ASSUME NEW t \in Tasks, TaskStep(t) PROVE StrangersSpared'
  <2>1. CASE StopEnds(t)
    <3>1. UNCHANGED procs \/ procs' = Killed(tasks[t].pid, "stop")
      BY <2>1 DEF StopEnds
    <3> QED BY <1>1, <3>1, KillSpares DEF Marks
  <2>2. CASE SpawnNew(t) \/ SpawnAgain(t)
    BY <2>2, NewProcSpares DEF SpawnNew, SpawnAgain
  <2>3. CASE BootFails(t)
    <3>1. UNCHANGED procs \/ StopBegins(t, tasks[t], tasks[t].sid)
      BY <2>3 DEF BootFails
    <3> QED BY <1>1, <3>1, StopSpares
  <2>4. CASE RestartVerified(t)
    <3>1. \/ UNCHANGED procs \/ procs' = Missed({tasks[t].pid})
          \/ /\ \E answered : Expected(tasks[t].pid, TimeOnRow(tasks[t].sid), answered)
             /\ procs' = Signalled(tasks[t].pid, "restart")
      BY <2>4 DEF RestartVerified
    <3>2. tasks[t].pid \in 0..MaxProcs
      BY <2>4, TypeParts DEF RestartVerified, Typed, Task
    <3>3. Alive(tasks[t].pid) => tasks[t].pid \in Pids
      BY <3>2, Numbers DEF Alive
    <3> QED BY <1>1, <3>1, <3>3, ExpectedIs, SignalSpares, MissedNotes, NotedSpares DEF Marks
  <2>5. CASE RestartKills(t)
    <3>1. UNCHANGED procs \/ procs' = Killed(tasks[t].pid, "restart")
      BY <2>5 DEF RestartKills
    <3> QED BY <1>1, <3>1, KillSpares DEF Marks
  <2>6. CASE CleanChecked(t)
    <3>1. \/ UNCHANGED procs
          \/ /\ \E answered : Expected(tasks[t].pid, TimeOnRow(tasks[t].sid), answered)
             /\ procs' = Signalled(tasks[t].pid, "clean")
      BY <2>6 DEF CleanChecked
    <3>2. tasks[t].pid \in 0..MaxProcs
      BY <2>6, TypeParts DEF CleanChecked, Typed, Task
    <3>3. Alive(tasks[t].pid) => tasks[t].pid \in Pids
      BY <3>2, Numbers DEF Alive
    <3> QED BY <1>1, <3>1, <3>3, ExpectedIs, SignalSpares DEF Marks
  <2>7. CASE CleanEnds(t)
    BY <1>1, <2>7, KillSpares DEF CleanEnds, Marks
  <2>8. CASE Polled(t) \/ Booted(t)
    BY <1>1, <2>8 DEF Polled, Booted
  <2>9. CASE Stamped(t)
    BY <2>9, RecognisedNotes, NotedSpares DEF Stamped
  <2> QED BY <1>3, <2>1, <2>2, <2>3, <2>4, <2>5, <2>6, <2>7, <2>8, <2>9 DEF TaskStep
<1>4. ASSUME NEW p \in Pids, KernelUp(p) \/ Exit(p) PROVE StrangersSpared'
  <2>1. procs \in [Pids -> Proc]
    BY TypeParts DEF Typed
  <2> QED BY <1>4, <2>1 DEF StrangersSpared, KernelUp, Exit, Proc
<1>5. ASSUME NEW p \in Pids, Reuse(p) PROVE StrangersSpared'
  BY <1>5, NewProcSpares DEF Reuse
<1>6. ASSUME NEW p \in Pids, ExitEvent(p) PROVE StrangersSpared'
  BY <1>1, <1>6 DEF ExitEvent
<1>7. ASSUME NEW s \in Sids, Quiet(s) PROVE StrangersSpared'
  BY <1>1, <1>7 DEF Quiet
<1>8. CASE AutoClean \/ SweepLiveness \/ Crash \/ Listen
  BY <1>1, <1>8 DEF AutoClean, SweepLiveness, Crash, Listen
<1>9. CASE Reattaching
  <2>1. ASSUME NEW s \in Sids, ReattachNext(s) PROVE StrangersSpared'
    BY <1>1, <2>1, MissedNotes, NotedSpares DEF ReattachNext
  <2>2. CASE ReattachEnds
    <3>1. UNCHANGED procs \/ \E time : procs' = Recognised(boot.row.pid, time)
      BY <2>2 DEF ReattachEnds
    <3> QED BY <1>1, <3>1, RecognisedNotes, NotedSpares
  <2>3. CASE ReattachDone
    BY <2>3, MissedNotes, NotedSpares DEF ReattachDone
  <2> QED BY <1>1, <1>9, <2>1, <2>2, <2>3 DEF Reattaching, ReattachBegins
<1>10. CASE UNCHANGED vars
  BY <1>1, <1>10 DEF vars
<1> QED BY <1>2, <1>3, <1>4, <1>5, <1>6, <1>7, <1>8, <1>9, <1>10, Zenon DEF Next

\* Restarts and clean-ups, which check the process first, never signal a program
\* that was given the process id of a kernel and runs on, unless it was taken for the
\* kernel and its start time recorded; nor does a check that ps does not answer.
THEOREM StrangersLeftAlone == Spec => []StrangersSpared
<1>1. Init => StrangersSpared
  BY DEF Init, StrangersSpared
<1> QED BY <1>1, TypeInit, TypeStep, SparedStep, PTL DEF Spec

-----------------------------------------------------------------------------
(* Deaths *)

\* Sessions not created yet are in no map, store or request; a stop has a session.
Fresh ==
    /\ \A s \in Sids : s > count.sids =>
          mem.sessions[s] = None /\ mem.handle[s] = 0 /\ rows[s] = None
    /\ \A t \in Tasks : tasks[t] # None => /\ tasks[t].sid <= count.sids
                                           /\ tasks[t].pc \in {"reap", "kill"} => tasks[t].sid # 0
    /\ boot.sid <= count.sids
    /\ \A s \in boot.left : s <= count.sids

\* A child is the handle of one session.
OwnHandles ==
    /\ \A s \in Sids : mem.handle[s] <= count.pids
    /\ \A r, s \in Sids : mem.handle[r] = mem.handle[s] /\ mem.handle[s] # 0 => r = s

\* The session's child is about to be given up, by a stop or a restart.
Reaping == {"reap", "restart reap"}
Ending(s) == \E t \in Tasks : tasks[t] # None /\ tasks[t].sid = s /\ tasks[t].pc \in Reaping

\* A session with a child knows it by its process id and hears of its end, unless a
\* request is about to give the child up.
Attended == \A s \in Sids : Has(s) =>
    \/ mem.sessions[s].pid = 0 \/ mem.handle[s] = 0
    \/ mem.handle[s] = mem.sessions[s].pid /\ mem.handle[s] \in mem.watched
    \/ Ending(s)

\* Until the loop gets to it, nothing but a clean-up knows the session of a row that
\* an earlier server has left.
Cleaning == {"clean check", "clean kill", "clean delete"}
Old(s) ==
    \/ boot.phase \in {"off", "listening"} /\ rows[s] # None /\ ~rows[s].mine
    \/ boot.phase = "reattaching" /\ s \in boot.left
OldIsUntouched ==
    /\ \A s \in Sids : rows[s] # None /\ rows[s].status = "orphaned" => ~rows[s].mine
    /\ \A s \in Sids : Old(s) =>
         /\ mem.sessions[s] = None /\ mem.handle[s] = 0 /\ boot.sid # s
         /\ \A t \in Tasks : tasks[t] # None /\ tasks[t].sid = s => tasks[t].pc \in Cleaning

IInv == Fresh /\ OwnHandles /\ Attended /\ OldIsUntouched

\* What a step leaves of a session: no new process, no new handle ...
Kept(s) ==
    /\ mem'.sessions[s] # None => /\ mem.sessions[s] # None
                                  /\ mem'.sessions[s].pid \in {0, mem.sessions[s].pid}
    /\ mem'.handle[s] \in {0, mem.handle[s]}
\* ... and the event of its child's end
Heard(s) == mem.handle[s] \in mem.watched => mem'.handle[s] = 0 \/ mem'.handle[s] \in mem'.watched

\* What a step leaves of a row: it is this server's, or was there before.
RowKept(s) ==
    rows'[s] # None =>
        /\ s <= count.sids
        /\ rows'[s].mine \/ (rows[s] # None /\ ~rows[s].mine)
        /\ rows'[s].status = "orphaned" => ~rows'[s].mine

\* A request that a step has left or begun works on a session that is there, or on
\* the same session as before, or cleans up.
Fits(t) ==
    tasks'[t] # None =>
        /\ tasks'[t].sid <= count.sids
        /\ tasks'[t].pc \in {"reap", "kill"} => tasks'[t].sid # 0
        /\ \/ tasks'[t].sid = 0 \/ Has(tasks'[t].sid) \/ tasks'[t].pc \in Cleaning
           \/ tasks[t] # None /\ tasks[t].sid = tasks'[t].sid /\ tasks[t].pc \notin Cleaning

\* The steps that begin no session, process or loop keep the invariant.
LEMMA Steady ==
    ASSUME Typed, Typed', IInv, count'.sids = count.sids, count'.pids = count.pids,
           \A s \in Sids : /\ Kept(s) /\ RowKept(s)
                           /\ Heard(s) \/ Ending(s)'
                           /\ Ending(s) => mem'.sessions[s] = None \/ mem'.handle[s] = 0 \/ Ending(s)',
           \A t \in Tasks : Fits(t),
           boot'.left = boot.left, boot'.sid \in {0, boot.sid}, boot'.phase \in {"up", boot.phase}
    PROVE  IInv'
<1>1. /\ count.sids \in 0..MaxSessions /\ count.pids \in 0..MaxProcs /\ boot.sid \in 0..MaxSessions
      /\ boot.left \subseteq Sids /\ 0 <= count.sids /\ 0 <= count.pids
  BY TypeParts, BoundAssumption DEF Typed, Boot, Count
<1>2. Fresh'
  <2>1. ASSUME NEW s \in Sids, s > count.sids
        PROVE  mem'.sessions[s] = None /\ mem'.handle[s] = 0 /\ rows'[s] = None
    <3>1. ~(s <= count.sids)
      BY <1>1, <2>1 DEF Sids
    <3>2. mem.sessions[s] = None /\ mem.handle[s] = 0
      BY <2>1 DEF IInv, Fresh
    <3> QED BY <3>1, <3>2 DEF Kept, RowKept
  <2>2. boot'.sid <= count.sids /\ \A s \in boot'.left : s <= count.sids
    BY <1>1 DEF IInv, Fresh
  <2>3. \A t \in Tasks : tasks'[t] # None => /\ tasks'[t].sid <= count.sids
                                             /\ tasks'[t].pc \in {"reap", "kill"} => tasks'[t].sid # 0
    BY DEF Fits
  <2> QED BY <2>1, <2>2, <2>3 DEF Fresh
<1>3. OwnHandles'
  BY <1>1 DEF IInv, OwnHandles, Kept
<1>4. Attended'
  <2> SUFFICES ASSUME NEW s \in Sids, mem'.sessions[s] # None, mem'.sessions[s].pid # 0,
                      mem'.handle[s] # 0, ~Ending(s)'
               PROVE  mem'.handle[s] = mem'.sessions[s].pid /\ mem'.handle[s] \in mem'.watched
    BY DEF Attended, Has
  <2>1. /\ Heard(s) /\ ~Ending(s) /\ mem.sessions[s] # None
        /\ mem'.sessions[s].pid = mem.sessions[s].pid /\ mem'.handle[s] = mem.handle[s]
    BY DEF Kept
  <2>2. Has(s)
    BY <2>1 DEF Has, Sids
  <2> QED BY <2>1, <2>2 DEF IInv, Attended, Heard
<1>5. OldIsUntouched'
  <2>1. ASSUME NEW s \in Sids, Old(s)' PROVE Old(s)
    BY <2>1 DEF Old, RowKept
  <2>2. ASSUME NEW s \in Sids, Old(s)'
        PROVE  mem'.sessions[s] = None /\ mem'.handle[s] = 0 /\ boot'.sid # s
    BY <2>1, <2>2 DEF Kept, IInv, OldIsUntouched, Sids
  <2>3. ASSUME NEW s \in Sids, Old(s)', NEW t \in Tasks, tasks'[t] # None, tasks'[t].sid = s
        PROVE  tasks'[t].pc \in Cleaning
    <3>1. Old(s) /\ s # 0
      BY <2>1, <2>3 DEF Sids
    <3>2. ~Has(s) /\ (tasks[t] # None /\ tasks[t].sid = s => tasks[t].pc \in Cleaning)
      BY <3>1 DEF IInv, OldIsUntouched, Has
    <3> QED BY <2>3, <3>1, <3>2 DEF Fits
  <2>4. ASSUME NEW s \in Sids, rows'[s] # None, rows'[s].status = "orphaned"
        PROVE  ~rows'[s].mine
    BY <2>4 DEF RowKept
  <2> QED BY <2>2, <2>3, <2>4 DEF OldIsUntouched
<1> QED BY <1>2, <1>3, <1>4, <1>5 DEF IInv

\* What a session in memory is made of
LEMMA SessionParts ==
    ASSUME Typed, NEW s \in Sids, Has(s)
    PROVE  /\ mem.sessions[s] \in Session /\ mem.handle[s] \in 0..MaxProcs
           /\ mem.sessions[s].pid \in 0..MaxProcs /\ mem.sessions[s].file \in Files
           /\ mem.sessions[s].name \in Names
<1>1. mem \in Memory
  BY TypeParts DEF Typed
<1>2. mem.sessions \in [Sids -> Session \cup {None}] /\ mem.handle \in [Sids -> 0..MaxProcs]
  BY <1>1 DEF Memory
<1>3. mem.sessions[s] \in Session /\ mem.handle[s] \in 0..MaxProcs
  BY <1>2 DEF Has
<1> QED BY <1>3 DEF Session

\* A session in memory has been created.
LEMMA HasIsOld ==
    ASSUME Typed, IInv, NEW s \in 0..MaxSessions, Has(s)
    PROVE  s \in Sids /\ s <= count.sids
BY Numbers, TypeParts DEF Typed, Count, IInv, Fresh, Has, Sids

\* The rest of the maps is left alone.
LEMMA MapsKept ==
    ASSUME Typed, mem'.sessions = mem.sessions, mem'.handle = mem.handle, mem'.watched = mem.watched
    PROVE  \A s \in Sids : Kept(s) /\ Heard(s)
BY DEF Kept, Heard

\* Rows that are left, or deleted
LEMMA RowsKept ==
    ASSUME Typed, IInv, \A s \in Sids : rows'[s] \in {None, rows[s]}
    PROVE  \A s \in Sids : RowKept(s)
<1>1. count.sids \in Nat
  BY TypeParts, BoundAssumption DEF Typed, Count
<1>2. \A s \in Sids : rows[s] # None => s <= count.sids
  BY <1>1 DEF IInv, Fresh, Sids
<1>3. \A s \in Sids : rows[s] # None /\ rows[s].status = "orphaned" => ~rows[s].mine
  BY DEF IInv, OldIsUntouched
<1> QED BY <1>2, <1>3 DEF RowKept

\* Rows of which one is saved
LEMMA RowRecorded ==
    ASSUME Typed, IInv, NEW n \in 0..MaxSessions, n <= count.sids, NEW r,
           r.mine, r.status = "active", rows' = Recorded(n, r)
    PROVE  \A s \in Sids : RowKept(s)
<1>1. rows \in [Sids -> Row \cup {None}]
  BY TypeParts DEF Typed
<1>2. ASSUME NEW s \in Sids PROVE rows'[s] = IF s = n THEN r ELSE rows[s]
  BY <1>1 DEF Recorded
<1>3. count.sids \in Nat
  BY TypeParts, BoundAssumption DEF Typed, Count
<1>4. \A s \in Sids : rows[s] # None => s <= count.sids
  BY <1>3 DEF IInv, Fresh, Sids
<1>5. \A s \in Sids : rows[s] # None /\ rows[s].status = "orphaned" => ~rows[s].mine
  BY DEF IInv, OldIsUntouched
<1> QED BY <1>2, <1>4, <1>5 DEF RowKept

\* Sessions that leave the maps
LEMMA ForgottenKept ==
    ASSUME Typed, IInv, NEW m \in Memory, NEW S \in SUBSET Sids, m.sessions = mem.sessions,
           \A s \in Sids : m.handle[s] \in {0, mem.handle[s]},
           \A s \in Sids \ S : mem.handle[s] # 0 /\ mem.handle[s] \in mem.watched => mem.handle[s] \in m.watched,
           mem' = Forgotten(m, S)
    PROVE  /\ \A s \in Sids : Kept(s) /\ Heard(s)
           /\ \A s \in S : mem'.sessions[s] = None
<1>1. ASSUME NEW s \in Sids
      PROVE  /\ mem'.sessions[s] = IF s \in S THEN None ELSE mem.sessions[s]
             /\ mem'.handle[s] = IF s \in S THEN 0 ELSE m.handle[s]
  BY DEF Forgotten
<1>2. mem'.watched = m.watched \ {m.handle[s] : s \in S}
  BY DEF Forgotten
<1>3. ASSUME NEW s \in Sids PROVE Kept(s)
  BY <1>1 DEF Kept
<1>4. ASSUME NEW s \in Sids, mem.handle[s] \in mem.watched, mem'.handle[s] # 0
      PROVE  mem'.handle[s] \in mem'.watched
  <2>1. s \notin S /\ mem'.handle[s] = mem.handle[s] /\ mem.handle[s] # 0 /\ m.handle[s] = mem.handle[s]
    BY <1>1, <1>4
  <2>2. mem.handle[s] \in m.watched
    BY <1>4, <2>1
  <2>3. \A r \in S : m.handle[r] # mem.handle[s]
    BY <2>1 DEF IInv, OwnHandles
  <2> QED BY <1>2, <2>1, <2>2, <2>3
<1> QED BY <1>1, <1>3, <1>4 DEF Heard

\* A request that a step leaves alone, or gives another state
LEMMA TaskFits ==
    ASSUME Typed, IInv, NEW t \in Tasks, NEW x, tasks' = [tasks EXCEPT ![t] = x],
           x # None => /\ x.sid <= count.sids
                       /\ x.pc \in {"reap", "kill"} => x.sid # 0
                       /\ \/ x.sid = 0 \/ Has(x.sid) \/ x.pc \in Cleaning
                          \/ tasks[t] # None /\ tasks[t].sid = x.sid /\ tasks[t].pc \notin Cleaning
    PROVE  /\ \A u \in Tasks : Fits(u)
           /\ \A s \in Sids : Ending(s) => \/ Ending(s)'
                                           \/ tasks[t] # None /\ tasks[t].sid = s /\ tasks[t].pc \in Reaping
           /\ \A s \in Sids : x # None /\ x.sid = s /\ x.pc \in Reaping => Ending(s)'
<1>1. tasks \in [Tasks -> Task \cup {None}]
  BY TypeParts DEF Typed
<1>2. ASSUME NEW u \in Tasks PROVE tasks'[u] = IF u = t THEN x ELSE tasks[u]
  BY <1>1
<1>3. ASSUME NEW u \in Tasks PROVE Fits(u)
  <2>1. CASE u = t
    BY <1>2, <2>1 DEF Fits
  <2>2. CASE u # t
    BY <1>2, <2>2 DEF Fits, IInv, Fresh
  <2> QED BY <2>1, <2>2
<1>4. ASSUME NEW s \in Sids, Ending(s),
             ~(tasks[t] # None /\ tasks[t].sid = s /\ tasks[t].pc \in Reaping)
      PROVE  Ending(s)'
  BY <1>2, <1>4 DEF Ending
<1>5. ASSUME NEW s \in Sids, x # None, x.sid = s, x.pc \in Reaping
      PROVE  Ending(s)'
  <2>1. tasks'[t] # None /\ tasks'[t].sid = s /\ tasks'[t].pc \in Reaping
    BY <1>2, <1>5
  <2> QED BY <2>1 DEF Ending
<1> QED BY <1>3, <1>4, <1>5

\* A step that leaves the requests alone
LEMMA TasksAlone ==
    ASSUME Typed, IInv, UNCHANGED tasks
    PROVE  /\ \A u \in Tasks : Fits(u)
           /\ \A s \in Sids : Ending(s) => Ending(s)'
BY DEF Fits, Ending, IInv, Fresh

\* stopKernel up to its sleep: the session's child is about to be given up.
LEMMA StopBeginsSteady ==
    ASSUME Typed, IInv, NEW t \in Tasks, NEW x \in Task, NEW s \in Sids, Has(s), StopBegins(t, x, s),
           tasks[t] # None => tasks[t].pc \notin Reaping
    PROVE  /\ \A r \in Sids : /\ Kept(r) /\ RowKept(r)
                              /\ Heard(r) \/ Ending(r)'
                              /\ Ending(r) => mem'.sessions[r] = None \/ mem'.handle[r] = 0 \/ Ending(r)'
           /\ \A u \in Tasks : Fits(u)
<1> DEFINE h == mem.handle[s]
           m == [mem EXCEPT !.sock[s] = 0, !.watched = mem.watched \ {h}]
<1>1. mem \in Memory
  BY TypeParts DEF Typed
<1>2. /\ m.sessions = mem.sessions /\ m.handle = mem.handle /\ m.watched = mem.watched \ {h}
  BY <1>1 DEF Memory
<1>3. m \in Memory
  <2>1. mem.watched \ {h} \in SUBSET Pids
    BY <1>1 DEF Memory
  <2> HIDE DEF h
  <2> QED BY <1>1, <2>1, Numbers DEF Memory
<1>4. s \in 0..MaxSessions /\ s <= count.sids /\ 0 <= count.sids /\ s # 0
  BY HasIsOld, Numbers, TypeParts, BoundAssumption DEF Typed, Count, Sids
<1>5. \/ mem' = m /\ UNCHANGED rows
         /\ \E pc \in {"reap", "kill"}, q \in {h, mem.sessions[s].pid} :
               /\ tasks' = [tasks EXCEPT ![t] = [x EXCEPT !.pc = pc, !.sid = s, !.pid = q]]
               /\ h # 0 => pc = "reap"
      \/ h = 0 /\ Cleaned(m, {s}) /\ tasks' = [tasks EXCEPT ![t] = AfterStop(x)]
  BY DEF StopBegins
<1>6. ASSUME mem' = m, UNCHANGED rows, NEW pc \in {"reap", "kill"}, NEW q \in {h, mem.sessions[s].pid},
             tasks' = [tasks EXCEPT ![t] = [x EXCEPT !.pc = pc, !.sid = s, !.pid = q]],
             h # 0 => pc = "reap"
      PROVE  /\ \A r \in Sids : /\ Kept(r) /\ RowKept(r)
                                /\ Heard(r) \/ Ending(r)'
                                /\ Ending(r) => Ending(r)'
             /\ \A u \in Tasks : Fits(u)
  <2> DEFINE y == [x EXCEPT !.pc = pc, !.sid = s, !.pid = q]
  <2>1. y.sid = s /\ y.pc = pc
    BY DEF Task
  <2>2. y # None
    <3>1. q \in 0..MaxProcs
      BY <1>1, <1>6 DEF Memory, Session, Has
    <3>2. y \in Task
      BY <1>4, <3>1 DEF Task
    <3> QED BY <3>2, NoneAssumption
  <2> HIDE DEF y
  <2>3. tasks' = [tasks EXCEPT ![t] = y]
    BY <1>6 DEF y
  <2>4. /\ \A u \in Tasks : Fits(u)
        /\ \A r \in Sids : Ending(r) => Ending(r)'
        /\ pc = "reap" => Ending(s)'
    BY <1>4, <2>1, <2>2, <2>3, TaskFits DEF Reaping
  <2>5. \A r \in Sids : RowKept(r)
    BY <1>6, RowsKept
  <2>6. \A r \in Sids : Kept(r)
    BY <1>2, <1>6 DEF Kept
  <2>7. ASSUME NEW r \in Sids, ~Ending(r)' PROVE Heard(r)
    <3>1. CASE r = s
      <4>1. mem'.handle[r] = 0
        BY <1>2, <1>6, <2>4, <2>7, <3>1
      <4> QED BY <4>1 DEF Heard
    <3>2. CASE r # s
      <4>1. mem.handle[r] # 0 => mem.handle[r] # h
        BY <3>2 DEF IInv, OwnHandles
      <4> QED BY <1>2, <1>6, <4>1 DEF Heard
    <3> QED BY <3>1, <3>2
  <2> QED BY <2>4, <2>5, <2>6, <2>7
<1>7. ASSUME h = 0, Cleaned(m, {s}), tasks' = [tasks EXCEPT ![t] = AfterStop(x)]
      PROVE  /\ \A r \in Sids : /\ Kept(r) /\ RowKept(r)
                                /\ Heard(r)
                                /\ Ending(r) => Ending(r)'
             /\ \A u \in Tasks : Fits(u)
  <2>1. AfterStop(x) # None => AfterStop(x).sid = 0 /\ AfterStop(x).pc = "port"
    BY DEF AfterStop, Task
  <2>2. /\ \A u \in Tasks : Fits(u)
        /\ \A r \in Sids : Ending(r) => Ending(r)'
    BY <1>4, <1>7, <2>1, TaskFits
  <2>3. \A r \in Sids : RowKept(r)
    BY <1>7, RowsKept DEF Cleaned
  <2>4. mem' = Forgotten(m, {s})
    BY <1>7 DEF Cleaned
  <2>5. \A r \in Sids : mem.handle[r] # 0 /\ mem.handle[r] \in mem.watched => mem.handle[r] \in m.watched
    BY <1>2, <1>7
  <2> HIDE DEF m
  <2>6. \A r \in Sids : Kept(r) /\ Heard(r)
    BY <1>2, <1>3, <2>4, <2>5, ForgottenKept
  <2> QED BY <2>2, <2>3, <2>6
<1> HIDE DEF m, h
<1> QED BY <1>5, <1>6, <1>7

\* Requests that come in
LEMMA AskedSteady ==
    ASSUME Typed, Typed', IInv, NEW t \in Tasks, Asked(t)
    PROVE  IInv'
<1>1. mem \in Memory /\ 0 <= count.sids
  BY TypeParts, BoundAssumption DEF Typed, Count
<1>2. Asks => count'.sids = count.sids /\ count'.pids = count.pids
  BY TypeParts DEF Typed, Count, Asks
<1>3. ASSUME NEW s \in Sids, Stop(t, s) PROVE IInv'
  <2> DEFINE x == NewTask("stop", "reap", s, 0, mem.sessions[s].file, mem.sessions[s].name)
  <2>1. /\ Has(s) /\ StopBegins(t, x, s) /\ tasks[t] = None /\ Asks /\ UNCHANGED boot
    BY <1>3 DEF Stop, Idle
  <2>2. x \in Task
    <3>1. mem.sessions[s].file \in Files /\ mem.sessions[s].name \in Names
      BY <2>1, SessionParts
    <3> QED BY <3>1, Numbers, <1>3 DEF NewTask, Task, AllRequests, Stop
  <2> HIDE DEF x
  <2> QED BY <1>2, <2>1, <2>2, StopBeginsSteady, Steady
<1>4. ASSUME NEW s \in Sids, Restart(t, s) PROVE IInv'
  <2> DEFINE h == mem.handle[s]
             pc == IF h # 0 THEN "restart reap"
                   ELSE IF mem.sessions[s].pid # 0 THEN "restart verify" ELSE "port"
             x == NewTask("restart", pc, s, IF h # 0 THEN h ELSE mem.sessions[s].pid,
                          mem.sessions[s].file, mem.sessions[s].name)
  <2>1. /\ Has(s) /\ Asks /\ UNCHANGED <<rows, boot>> /\ tasks[t] = None
        /\ mem' = [mem EXCEPT !.sessions[s].status = "starting", !.sock[s] = 0, !.watched = mem.watched \ {h}]
        /\ tasks' = [tasks EXCEPT ![t] = x]
    BY <1>4 DEF Restart, Idle
  <2>2. x.sid = s /\ x.pc = pc /\ s <= count.sids
    BY <2>1, HasIsOld, Numbers DEF NewTask
  <2>3. x # None => /\ x.sid <= count.sids /\ Has(x.sid) /\ x.sid # 0
    <3>1. s # 0
      BY DEF Sids
    <3> HIDE DEF x
    <3> QED BY <2>1, <2>2, <3>1
  <2>4. h # 0 => x # None /\ pc \in Reaping
    <3>1. mem.sessions[s].file \in Files /\ mem.sessions[s].name \in Names /\ h \in 0..MaxProcs
          /\ mem.sessions[s].pid \in 0..MaxProcs
      BY <2>1, SessionParts
    <3>2. x \in Task
      BY <3>1, Numbers, <1>4 DEF NewTask, Task, AllRequests, Restart
    <3> QED BY <3>2, NoneAssumption DEF Reaping
  <2>5. \A r \in Sids : Kept(r) /\ (r = s \/ Heard(r)) /\ mem'.handle[r] = mem.handle[r]
    <3>1. ASSUME NEW r \in Sids, r # s, h # 0 PROVE mem.handle[r] # h
      BY <3>1 DEF IInv, OwnHandles
    <3>2. /\ mem'.watched = mem.watched \ {h} /\ mem'.handle = mem.handle
          /\ \A r \in Sids : r # s => mem'.sessions[r] = mem.sessions[r]
          /\ mem'.sessions[s].pid = mem.sessions[s].pid
      <4> HIDE DEF h
      <4> QED BY <1>1, <2>1 DEF Memory, Has, Session
    <3>3. ASSUME NEW r \in Sids PROVE Kept(r)
      BY <2>1, <3>2 DEF Kept, Has
    <3>4. ASSUME NEW r \in Sids, r # s PROVE Heard(r)
      BY <3>1, <3>2, <3>4 DEF Heard
    <3> QED BY <3>2, <3>3, <3>4
  <2> HIDE DEF x, pc
  <2>6. /\ \A u \in Tasks : Fits(u)
        /\ \A r \in Sids : Ending(r) => Ending(r)'
        /\ h # 0 => Ending(s)'
    BY <2>1, <2>2, <2>3, <2>4, TaskFits
  <2>7. Heard(s) \/ Ending(s)'
    BY <2>5, <2>6 DEF Heard
  <2>8. \A r \in Sids : RowKept(r)
    BY <2>1, RowsKept
  <2> HIDE DEF h
  <2> QED BY <1>2, <2>1, <2>5, <2>6, <2>7, <2>8, Steady
<1>5. ASSUME NEW s \in Sids, CleanDead(t, s) PROVE IInv'
  <2> DEFINE x == NewTask("clean", "clean check", s, rows[s].pid, rows[s].file, rows[s].name)
  <2>1. /\ Asks /\ UNCHANGED <<mem, boot>> /\ tasks[t] = None /\ rows[s] # None
        /\ \/ tasks' = [tasks EXCEPT ![t] = x] /\ UNCHANGED rows
           \/ rows' = [rows EXCEPT ![s] = None] /\ UNCHANGED tasks
    BY <1>5 DEF CleanDead, DeadRows, Idle
  <2>2. x.sid = s /\ x.pc \in Cleaning /\ s <= count.sids /\ s # 0
    <3>1. s <= count.sids
      <4>1. count.sids \in Nat
        BY TypeParts, BoundAssumption DEF Typed, Count
      <4>2. ~(s > count.sids)
        BY <2>1 DEF IInv, Fresh
      <4> QED BY <4>1, <4>2 DEF Sids
    <3> QED BY <3>1 DEF NewTask, Cleaning, Sids
  <2> HIDE DEF x
  <2>3. (\A u \in Tasks : Fits(u)) /\ (\A r \in Sids : Ending(r) => Ending(r)')
    BY <2>1, <2>2, TaskFits, TasksAlone
  <2>4. \A r \in Sids : RowKept(r)
    BY <2>1, RowsKept, TypeParts DEF Typed
  <2>5. \A r \in Sids : Kept(r) /\ Heard(r)
    BY <2>1, MapsKept
  <2> QED BY <1>2, <2>1, <2>3, <2>4, <2>5, Steady
<1>8. ASSUME NEW s \in Sids, AutoCheck(t, s) PROVE IInv'
  <2> DEFINE x == NewTask("clean", "clean delete", s, rows[s].pid, rows[s].file, rows[s].name)
  <2>1. /\ Asks /\ UNCHANGED <<mem, rows, boot>> /\ tasks[t] = None /\ rows[s] # None
        /\ tasks' = [tasks EXCEPT ![t] = x]
    BY <1>8 DEF AutoCheck, DeadRows, Idle
  <2>2. x.sid = s /\ x.pc \in Cleaning /\ s <= count.sids /\ s # 0
    <3>1. s <= count.sids
      <4>1. count.sids \in Nat
        BY TypeParts, BoundAssumption DEF Typed, Count
      <4>2. ~(s > count.sids)
        BY <2>1 DEF IInv, Fresh
      <4> QED BY <4>1, <4>2 DEF Sids
    <3> QED BY <3>1 DEF NewTask, Cleaning, Sids
  <2> HIDE DEF x
  <2>3. (\A u \in Tasks : Fits(u)) /\ (\A r \in Sids : Ending(r) => Ending(r)')
    BY <2>1, <2>2, TaskFits
  <2>4. \A r \in Sids : RowKept(r)
    BY <2>1, RowsKept, TypeParts DEF Typed
  <2>5. \A r \in Sids : Kept(r) /\ Heard(r)
    BY <2>1, MapsKept
  <2> QED BY <1>2, <2>1, <2>3, <2>4, <2>5, Steady
<1>6. ASSUME NEW f \in Files, NEW n \in Names, StartKernel(t, f, n) PROVE IInv'
  <2> DEFINE x == NewTask("start", "port", 0, 0, f, n)
  <2>1. Asks /\ UNCHANGED <<mem, rows, boot>> /\ tasks' = [tasks EXCEPT ![t] = x]
    BY <1>6 DEF StartKernel
  <2>2. x.sid = 0 /\ x.pc = "port"
    BY DEF NewTask
  <2> HIDE DEF x
  <2>3. (\A u \in Tasks : Fits(u)) /\ (\A r \in Sids : Ending(r) => Ending(r)')
    <3>1. tasks[t] = None
      BY <1>6 DEF StartKernel, Idle
    <3> QED BY <1>1, <2>1, <2>2, <3>1, TaskFits
  <2>4. \A r \in Sids : RowKept(r) /\ Kept(r) /\ Heard(r)
    BY <2>1, RowsKept, MapsKept
  <2> QED BY <1>2, <2>1, <2>3, <2>4, Steady
<1>7. ASSUME NEW f \in Files, NEW n \in Names, NEW s \in 0..MaxSessions, GetOrCreate(t, f, n, s) PROVE IInv'
  <2> DEFINE x == NewTask("create", "port", 0, 0, f, n)
             y == [x EXCEPT !.pc = "poll", !.sid = s]
             z == [x EXCEPT !.then = "port"]
             mapped == [mem EXCEPT !.files[f] = s]
  <2>1. x.sid = 0 /\ x.pc = "port" /\ y.sid = s /\ y.pc = "poll" /\ z \in Task
    BY Numbers DEF NewTask, Task, AllRequests
  <2>2. mapped.sessions = mem.sessions /\ mapped.handle = mem.handle /\ mapped.watched = mem.watched
    BY <1>1 DEF Memory
  <2>3. /\ Asks /\ UNCHANGED boot /\ tasks[t] = None
        /\ \/ tasks' = [tasks EXCEPT ![t] = x] /\ UNCHANGED <<mem, rows>>
           \/ Has(s) /\ mem' = mapped /\ tasks' = [tasks EXCEPT ![t] = y] /\ UNCHANGED rows
           \/ Has(s) /\ StopBegins(t, z, s)
           \/ mem' = mapped /\ UNCHANGED <<rows, tasks>>
    BY <1>7 DEF GetOrCreate, Idle, Live
  <2>4. Has(s) => s \in Sids /\ s <= count.sids
    BY HasIsOld
  <2> HIDE DEF x, y, z, mapped
  <2>5. CASE Has(s) /\ StopBegins(t, z, s)
    BY <1>2, <2>1, <2>3, <2>4, <2>5, StopBeginsSteady, Steady
  <2>6. CASE ~(Has(s) /\ StopBegins(t, z, s))
    <3>1. (\A u \in Tasks : Fits(u)) /\ (\A r \in Sids : Ending(r) => Ending(r)')
      BY <1>1, <2>1, <2>3, <2>4, <2>6, TaskFits, TasksAlone
    <3>2. \A r \in Sids : RowKept(r) /\ Kept(r) /\ Heard(r)
      BY <2>2, <2>3, <2>6, RowsKept, MapsKept
    <3> QED BY <1>2, <2>3, <3>1, <3>2, Steady
  <2> QED BY <2>5, <2>6
<1> QED BY <1>3, <1>4, <1>5, <1>6, <1>7, <1>8 DEF Asked

\* A spawn: the session's child is a new process, whose end will be heard of.
LEMMA Spawned ==
    ASSUME Typed, IInv, NEW t \in Tasks, tasks[t] # None, tasks[t].pc = "port",
           NEW x, tasks' = [tasks EXCEPT ![t] = x], NEW n \in 0..MaxSessions, x # None => x.sid = n /\ x.pc = "boot",
           NEW p, p = count.pids + 1,
           mem'.handle = [mem.handle EXCEPT ![n] = p], mem'.watched = mem.watched \cup {p},
           \A r \in Sids \ {n} : mem'.sessions[r] = mem.sessions[r],
           n \in Sids /\ mem'.sessions[n] # None => mem'.sessions[n].pid = p,
           count'.pids = p, NEW c \in Nat, count'.sids = c, count.sids <= c, n <= c,
           n \in Sids => ~Old(n), UNCHANGED <<rows, boot>>
    PROVE  IInv'
<1>1. /\ mem.handle \in [Sids -> 0..MaxProcs] /\ tasks \in [Tasks -> Task \cup {None}]
      /\ count.sids \in Nat /\ count.pids \in Nat /\ boot.sid \in 0..MaxSessions
  BY TypeParts, BoundAssumption DEF Typed, Boot, Count, Memory
<1>2. /\ \A s \in Sids : s > c => s > count.sids /\ s # n
      /\ \A s \in 0..MaxSessions : s <= count.sids => s <= c
      /\ \A s \in Sids : s # 0
  BY <1>1 DEF Sids
<1>3. \A u \in Tasks : tasks'[u] = IF u = t THEN x ELSE tasks[u]
  BY <1>1
<1>4. \A u \in Tasks : tasks[u] # None => tasks[u].sid \in 0..MaxSessions
  BY <1>1 DEF Task
<1>5. \A s \in Sids : mem'.handle[s] = IF s = n THEN p ELSE mem.handle[s]
  BY <1>1
<1>6. Fresh'
  <2>1. \A s \in Sids : s > c => mem'.sessions[s] = None /\ mem'.handle[s] = 0 /\ rows'[s] = None
    BY <1>2, <1>5 DEF IInv, Fresh
  <2>2. \A u \in Tasks : tasks'[u] # None => /\ tasks'[u].sid <= c
                                             /\ tasks'[u].pc \in {"reap", "kill"} => tasks'[u].sid # 0
    BY <1>2, <1>3, <1>4 DEF IInv, Fresh
  <2>3. boot.sid <= c /\ \A s \in boot.left : s <= c
    <3>1. boot.left \subseteq Sids
      BY TypeParts DEF Typed, Boot
    <3> QED BY <1>1, <1>2, <3>1, Numbers DEF IInv, Fresh
  <2> QED BY <2>1, <2>2, <2>3 DEF Fresh
<1>7. OwnHandles'
  <2>1. \A s \in Sids : mem.handle[s] \in Nat /\ mem.handle[s] <= count.pids
    BY <1>1 DEF IInv, OwnHandles
  <2>2. \A s \in Sids : mem'.handle[s] <= p
    BY <1>1, <1>5, <2>1
  <2>3. \A s \in Sids : mem.handle[s] # p
    BY <1>1, <2>1
  <2>4. ASSUME NEW r \in Sids, NEW s \in Sids, mem'.handle[r] = mem'.handle[s], mem'.handle[s] # 0
        PROVE  r = s
    BY <1>5, <2>3, <2>4 DEF IInv, OwnHandles
  <2> QED BY <2>2, <2>4 DEF OwnHandles
<1>8. Attended'
  <2> SUFFICES ASSUME NEW s \in Sids, mem'.sessions[s] # None, ~Ending(s)'
               PROVE  \/ mem'.sessions[s].pid = 0 \/ mem'.handle[s] = 0
                      \/ mem'.handle[s] = mem'.sessions[s].pid /\ mem'.handle[s] \in mem'.watched
    BY DEF Attended, Has
  <2>1. CASE s = n
    BY <1>5, <2>1
  <2>2. CASE s # n
    <3>1. mem.sessions[s] # None /\ mem'.sessions[s] = mem.sessions[s] /\ Has(s)
      BY <1>2, <2>2 DEF Has
    <3>2. ~Ending(s)
      <4>1. \A u \in Tasks : tasks[u] # None /\ tasks[u].pc \in Reaping => tasks'[u] = tasks[u]
        BY <1>3 DEF Reaping
      <4> QED BY <4>1 DEF Ending
    <3>3. mem'.handle[s] = mem.handle[s]
      BY <1>5, <2>2
    <3>4. \/ mem.sessions[s].pid = 0 \/ mem.handle[s] = 0
          \/ mem.handle[s] = mem.sessions[s].pid /\ mem.handle[s] \in mem.watched
      BY <3>1, <3>2 DEF IInv, Attended
    <3> QED BY <3>1, <3>3, <3>4
  <2> QED BY <2>1, <2>2
<1>9. OldIsUntouched'
  <2>1. ASSUME NEW s \in Sids, Old(s)' PROVE Old(s) /\ s # n
    BY <2>1 DEF Old
  <2>2. ASSUME NEW s \in Sids, Old(s)'
        PROVE  /\ mem'.sessions[s] = None /\ mem'.handle[s] = 0 /\ boot'.sid # s
               /\ \A u \in Tasks : tasks'[u] # None /\ tasks'[u].sid = s => tasks'[u].pc \in Cleaning
    BY <1>3, <1>5, <2>1, <2>2 DEF IInv, OldIsUntouched
  <2> QED BY <2>2 DEF OldIsUntouched, IInv
<1> QED BY <1>6, <1>7, <1>8, <1>9 DEF IInv

\* startKernel and restartKernel from the spawn
LEMMA SpawnSteady ==
    ASSUME Typed, IInv, NEW t \in Tasks, SpawnNew(t) \/ SpawnAgain(t)
    PROVE  IInv'
<1>1. /\ mem \in Memory /\ count.sids \in Nat /\ count.pids \in Nat /\ tasks \in [Tasks -> Task \cup {None}]
      /\ rows \in [Sids -> Row \cup {None}]
  BY TypeParts, BoundAssumption DEF Typed, Count
<1>2. tasks[t] # None /\ tasks[t].pc = "port" /\ tasks[t] \in Task /\ tasks[t].sid \in 0..MaxSessions
  BY <1>1 DEF SpawnNew, SpawnAgain, Task
<1>3. CASE SpawnNew(t)
  <2> DEFINE p == count.pids + 1
             n == count.sids + 1
             x == [tasks[t] EXCEPT !.pc = "boot", !.sid = n, !.pid = p]
             session == [status |-> "starting", pid |-> p, file |-> tasks[t].file,
                         name |-> tasks[t].name, quiet |-> FALSE]
  <2>1. /\ tasks' = [tasks EXCEPT ![t] = x] /\ n \in Sids
        /\ mem' = [mem EXCEPT !.sessions[n] = session, !.handle[n] = p, !.sock[n] = p,
                              !.files[tasks[t].file] = n, !.watched = mem.watched \cup {p}]
        /\ count' = [count EXCEPT !.pids = p, !.sids = n] /\ UNCHANGED <<rows, boot>>
    BY <1>1, <1>3 DEF SpawnNew
  <2>2. x.sid = n /\ x.pc = "boot"
    BY <1>2 DEF Task
  <2>3. count'.pids = p /\ count'.sids = n
    BY <2>1, TypeParts DEF Typed, Count
  <2>4. session.pid = p
    OBVIOUS
  <2>5. /\ mem'.handle = [mem.handle EXCEPT ![n] = p] /\ mem'.watched = mem.watched \cup {p}
        /\ mem'.sessions[n] = session
        /\ \A r \in Sids \ {n} : mem'.sessions[r] = mem.sessions[r]
    <3> HIDE DEF n, p, session
    <3> QED BY <1>1, <2>1 DEF Memory
  <2>6. ~Old(n)
    <3>1. n > count.sids /\ ~(n <= count.sids)
      BY <1>1
    <3> HIDE DEF n
    <3> QED BY <2>1, <3>1 DEF Old, IInv, Fresh
  <2>7. p = count.pids + 1 /\ n \in Nat /\ count.sids <= n /\ n <= n /\ n \in 0..MaxSessions
    BY <1>1, <2>1, Numbers
  <2> HIDE DEF n, x, p, session
  <2>8. mem'.sessions[n] # None => mem'.sessions[n].pid = p
    BY <2>4, <2>5
  <2>9. tasks' = [tasks EXCEPT ![t] = x] /\ UNCHANGED <<rows, boot>>
    BY <2>1
  <2> QED BY <1>2, <2>2, <2>3, <2>5, <2>6, <2>7, <2>8, <2>9, Spawned
<1>4. CASE SpawnAgain(t)
  <2> DEFINE p == count.pids + 1
             n == tasks[t].sid
             y == [tasks[t] EXCEPT !.pc = "boot", !.pid = p]
             x == IF Has(n) THEN y ELSE None
             held == [mem EXCEPT !.handle[n] = p, !.watched = mem.watched \cup {p}]
  <2>1. /\ tasks' = [tasks EXCEPT ![t] = x]
        /\ mem' = IF Has(n) THEN [held EXCEPT !.sessions[n].pid = p, !.sessions[n].quiet = FALSE, !.sock[n] = p]
                  ELSE held
        /\ count' = [count EXCEPT !.pids = p] /\ UNCHANGED <<rows, boot>>
    <3>1. CASE Has(n)
      BY <1>1, <1>4, <3>1 DEF SpawnAgain
    <3>2. CASE ~Has(n)
      BY <1>1, <1>4, <3>2 DEF SpawnAgain, Ends
    <3> QED BY <3>1, <3>2
  <2>2. x # None => x.sid = n /\ x.pc = "boot"
    BY <1>2 DEF Task
  <2>3. count'.pids = p /\ count'.sids = count.sids /\ n <= count.sids
    BY <1>2, <2>1, TypeParts DEF Typed, Count, IInv, Fresh
  <2>4. /\ held.handle = [mem.handle EXCEPT ![n] = p] /\ held.watched = mem.watched \cup {p}
        /\ held.sessions = mem.sessions
        /\ held \in [sessions : [Sids -> Session \cup {None}], handle : {[mem.handle EXCEPT ![n] = p]},
                     sock : [Sids -> 0..MaxProcs], files : [Files -> 0..MaxSessions],
                     watched : {mem.watched \cup {p}}]
    <3> HIDE DEF n, p
    <3> QED BY <1>1 DEF Memory
  <2>5. Has(n) => n \in Sids /\ mem.sessions[n] \in Session
    BY <1>2, HasIsOld, SessionParts
  <2>6. /\ mem'.handle = [mem.handle EXCEPT ![n] = p] /\ mem'.watched = mem.watched \cup {p}
        /\ \A r \in Sids \ {n} : mem'.sessions[r] = mem.sessions[r]
        /\ n \in Sids /\ mem'.sessions[n] # None => mem'.sessions[n].pid = p
    <3>1. CASE Has(n)
      <4> HIDE DEF n, p, held
      <4> QED BY <2>1, <2>4, <2>5, <3>1 DEF Session
    <3>2. CASE ~Has(n)
      <4> HIDE DEF p, held
      <4>1. n \in Sids => mem.sessions[n] = None
        BY <3>2 DEF Has, Sids
      <4> QED BY <2>1, <2>4, <3>2, <4>1
    <3> QED BY <3>1, <3>2
  <2>7. n \in Sids => ~Old(n)
    BY <1>2 DEF IInv, OldIsUntouched, Cleaning
  <2>8. count.sids <= count.sids
    BY <1>1
  <2> HIDE DEF n, x, held
  <2>9. n \in 0..MaxSessions
    BY <1>2 DEF n
  <2>10. p = count.pids + 1
    OBVIOUS
  <2> HIDE DEF p
  <2>11. tasks' = [tasks EXCEPT ![t] = x] /\ UNCHANGED <<rows, boot>>
    BY <2>1
  <2> QED BY <1>1, <1>2, <2>2, <2>3, <2>6, <2>7, <2>8, <2>9, <2>10, <2>11, Spawned
<1> QED BY <1>3, <1>4

\* A request that ends, or goes on about its session and does not stop it
LEMMA GoesFits ==
    ASSUME Typed, IInv, NEW t \in Tasks, tasks[t] # None,
           NEW pc, pc \notin {"reap", "kill"}, pc \in Cleaning \/ tasks[t].pc \notin Cleaning,
           Ends(t) \/ Goes(t, pc)
    PROVE  /\ \A u \in Tasks : Fits(u)
           /\ \A s \in Sids : Ending(s) => \/ Ending(s)'
                                           \/ tasks[t].sid = s /\ tasks[t].pc \in Reaping
<1>1. tasks \in [Tasks -> Task \cup {None}] /\ tasks[t] \in Task
  BY TypeParts DEF Typed
<1>2. CASE Ends(t)
  BY <1>2, TaskFits DEF Ends
<1>3. CASE Goes(t, pc)
  <2> DEFINE x == [tasks[t] EXCEPT !.pc = pc]
  <2>1. x.pc = pc /\ x.sid = tasks[t].sid /\ tasks' = [tasks EXCEPT ![t] = x]
    BY <1>1, <1>3 DEF Task, Goes
  <2> HIDE DEF x
  <2>2. x.sid <= count.sids
    BY <2>1 DEF IInv, Fresh
  <2> QED BY <2>1, <2>2, TaskFits
<1> QED BY <1>2, <1>3

\* A session that is declared dead
Dead(m, s) == [m EXCEPT !.sessions[s].status = "dead"]
\* A session that is marked dead keeps its process, and its handle stays.
LEMMA DeadKeeps ==
    ASSUME NEW m \in Memory, NEW s \in Sids, m.sessions[s] \in Session
    PROVE  /\ Dead(m, s).handle = m.handle /\ Dead(m, s).watched = m.watched
           /\ \A r \in Sids : Dead(m, s).sessions[r] # None =>
                 m.sessions[r] # None /\ Dead(m, s).sessions[r].pid = m.sessions[r].pid
<1>1. m.sessions[s] # None
  BY NoneAssumption
<1> QED BY <1>1 DEF Dead, Memory, Session

\* The steps of requests in progress
LEMMA TaskStepSteady ==
    ASSUME Typed, Typed', IInv, NEW t \in Tasks, TaskStep(t)
    PROVE  IInv'
<1>1. /\ mem \in Memory /\ tasks \in [Tasks -> Task \cup {None}] /\ 0 <= count.sids
      /\ rows \in [Sids -> Row \cup {None}] /\ mem.handle \in [Sids -> 0..MaxProcs]
      /\ mem.sessions \in [Sids -> Session \cup {None}]
  BY TypeParts, BoundAssumption DEF Typed, Count, Memory
<1>2. tasks[t] # None /\ tasks[t] \in Task
  BY <1>1 DEF TaskStep, StopEnds, Polled, SpawnNew, SpawnAgain, Booted, BootFails, Stamped,
              RestartVerified, RestartKills, CleanChecked, CleanEnds
<1>3. tasks[t].sid \in 0..MaxSessions /\ tasks[t].sid <= count.sids
  BY <1>2 DEF Task, IInv, Fresh
<1> DEFINE n == tasks[t].sid
<1>4. Has(n) => n \in Sids /\ mem.sessions[n] \in Session
  BY <1>3, HasIsOld, SessionParts
<1>5. CASE StopEnds(t)
  <2> DEFINE m == IF tasks[t].pc = "reap" THEN [mem EXCEPT !.handle[n] = 0] ELSE mem
  <2>1. /\ tasks[t].pc \in {"reap", "kill"} /\ Cleaned(m, {n}) /\ UNCHANGED <<boot, count>>
        /\ tasks' = [tasks EXCEPT ![t] = AfterStop(tasks[t])]
    BY <1>5 DEF StopEnds
  <2>2. n \in Sids
    BY <1>2, <1>3, <2>1, Numbers DEF IInv, Fresh
  <2>3. /\ m \in Memory /\ m.sessions = mem.sessions /\ m.watched = mem.watched
        /\ \A r \in Sids : m.handle[r] \in {0, mem.handle[r]}
    <3>1. CASE tasks[t].pc = "reap"
      <4> HIDE DEF n
      <4> QED BY <1>1, <2>2, <3>1, Numbers DEF Memory
    <3>2. CASE tasks[t].pc # "reap"
      BY <1>1, <3>2
    <3> QED BY <3>1, <3>2
  <2>4. AfterStop(tasks[t]) # None => AfterStop(tasks[t]).sid = 0 /\ AfterStop(tasks[t]).pc = "port"
    BY <1>2 DEF AfterStop, Task
  <2>5. /\ \A u \in Tasks : Fits(u)
        /\ \A r \in Sids : Ending(r) => Ending(r)' \/ r = n
    BY <1>1, <2>1, <2>4, TaskFits
  <2> HIDE DEF m, n
  <2>6. (\A r \in Sids : Kept(r) /\ Heard(r)) /\ mem'.sessions[n] = None
    BY <2>1, <2>2, <2>3, ForgottenKept DEF Cleaned
  <2>7. \A r \in Sids : RowKept(r)
    BY <2>1, RowsKept DEF Cleaned
  <2> QED BY <2>1, <2>5, <2>6, <2>7, Steady
<1>6. CASE Polled(t)
  <2> DEFINE x == [tasks[t] EXCEPT !.pc = "port", !.sid = 0]
  <2>1. tasks[t].pc = "poll" /\ (Ends(t) \/ tasks' = [tasks EXCEPT ![t] = x]) /\ UNCHANGED <<mem, rows, boot, count>>
    BY <1>1, <1>2, <1>6 DEF Polled
  <2>2. x.sid = 0 /\ x.pc = "port"
    BY <1>2 DEF Task
  <2> HIDE DEF x
  <2>3. (\A u \in Tasks : Fits(u)) /\ (\A r \in Sids : Ending(r) => Ending(r)')
    BY <1>1, <2>1, <2>2, TaskFits DEF Ends, Reaping
  <2>4. \A r \in Sids : RowKept(r) /\ Kept(r) /\ Heard(r)
    BY <2>1, RowsKept, MapsKept
  <2> QED BY <2>1, <2>3, <2>4, Steady
<1>7. CASE SpawnNew(t) \/ SpawnAgain(t)
  BY <1>7, SpawnSteady
<1>8. CASE Booted(t)
  <2>1. tasks[t].pc = "boot" /\ Goes(t, "stamp") /\ UNCHANGED <<mem, rows, boot, count>>
    BY <1>8 DEF Booted
  <2>2. (\A u \in Tasks : Fits(u)) /\ (\A r \in Sids : Ending(r) => Ending(r)')
    BY <1>2, <2>1, GoesFits DEF Reaping, Cleaning
  <2>3. \A r \in Sids : RowKept(r) /\ Kept(r) /\ Heard(r)
    BY <2>1, RowsKept, MapsKept
  <2> QED BY <2>1, <2>2, <2>3, Steady
<1>9. CASE BootFails(t)
  <2>1. tasks[t].pc = "boot" /\ UNCHANGED <<boot, count>>
        /\ ((Has(n) /\ StopBegins(t, tasks[t], n)) \/ (Ends(t) /\ UNCHANGED <<mem, rows>>))
    BY <1>9 DEF BootFails
  <2>2. CASE Has(n) /\ StopBegins(t, tasks[t], n)
    BY <1>2, <1>4, <2>1, <2>2, StopBeginsSteady, Steady DEF Reaping
  <2>3. CASE Ends(t) /\ UNCHANGED <<mem, rows>>
    <3>1. (\A u \in Tasks : Fits(u)) /\ (\A r \in Sids : Ending(r) => Ending(r)')
      BY <1>2, <2>1, <2>3, TaskFits DEF Ends, Reaping
    <3>2. \A r \in Sids : RowKept(r) /\ Kept(r) /\ Heard(r)
      BY <2>3, RowsKept, MapsKept
    <3> QED BY <2>1, <3>1, <3>2, Steady
  <2> QED BY <2>1, <2>2, <2>3
<1>10. CASE Stamped(t)
  <2>1. tasks[t].pc = "stamp" /\ Ends(t) /\ UNCHANGED <<boot, count>>
        /\ mem' = (IF Has(n) THEN [mem EXCEPT !.sessions[n].status = "ready"] ELSE mem)
    BY <1>10 DEF Stamped
  <2>2. PICK time : rows' = Recorded(n, [status |-> "active", pid |-> tasks[t].pid, file |-> tasks[t].file,
                                        name |-> tasks[t].name, mine |-> TRUE, time |-> time])
    BY <1>10 DEF Stamped
  <2>3. \A r \in Sids : RowKept(r)
    <3> DEFINE x == [status |-> "active", pid |-> tasks[t].pid, file |-> tasks[t].file,
                     name |-> tasks[t].name, mine |-> TRUE, time |-> time]
    <3>1. x.mine /\ x.status = "active"
      OBVIOUS
    <3> HIDE DEF x
    <3> QED BY <1>3, <2>2, <3>1, RowRecorded DEF x
  <2>4. (\A u \in Tasks : Fits(u)) /\ (\A r \in Sids : Ending(r) => Ending(r)')
    BY <1>2, <2>1, TaskFits DEF Ends, Reaping
  <2>5. \A r \in Sids : Kept(r) /\ Heard(r)
    <3>1. mem'.handle = mem.handle /\ mem'.watched = mem.watched
          /\ \A r \in Sids : mem'.sessions[r] # None => mem.sessions[r] # None /\ mem'.sessions[r].pid = mem.sessions[r].pid
      BY <1>1, <1>4, <2>1 DEF Memory, Session, Has
    <3> QED BY <3>1 DEF Kept, Heard
  <2> QED BY <2>1, <2>3, <2>4, <2>5, Steady
<1>11. CASE RestartVerified(t)
  <2>1. tasks[t].pc = "restart verify" /\ UNCHANGED <<rows, boot, count>>
        /\ (Goes(t, "restart kill") \/ Ends(t)) /\ (UNCHANGED mem \/ mem' = DeclaredDead(n))
    BY <1>11 DEF RestartVerified
  <2>2. (\A u \in Tasks : Fits(u)) /\ (\A r \in Sids : Ending(r) => Ending(r)')
    BY <1>2, <2>1, GoesFits DEF Reaping, Cleaning
  <2>3. mem'.handle = mem.handle /\ mem'.watched = mem.watched
        /\ \A r \in Sids : mem'.sessions[r] # None => mem.sessions[r] # None /\ mem'.sessions[r].pid = mem.sessions[r].pid
    <3>1. UNCHANGED mem \/ (Has(n) /\ mem' = Dead(mem, n))
      BY <2>1 DEF DeclaredDead, Dead
    <3> HIDE DEF n
    <3>2. CASE UNCHANGED mem
      BY <3>2
    <3>3. CASE Has(n) /\ mem' = Dead(mem, n)
      <4>1. n \in Sids /\ mem.sessions[n] \in Session
        BY <1>4, <3>3
      <4> QED BY <1>1, <3>3, <4>1, DeadKeeps
    <3> QED BY <3>1, <3>2, <3>3
  <2>4. \A r \in Sids : RowKept(r) /\ Kept(r) /\ Heard(r)
    BY <2>1, <2>3, RowsKept DEF Kept, Heard
  <2> QED BY <2>1, <2>2, <2>4, Steady
<1>12. CASE RestartKills(t)
  <2> DEFINE m == IF tasks[t].pc = "restart reap" THEN [mem EXCEPT !.handle[n] = 0]
                  ELSE IF Has(n) THEN [mem EXCEPT !.sessions[n].pid = 0] ELSE mem
  <2>1. tasks[t].pc \in {"restart reap", "restart kill"} /\ UNCHANGED <<rows, boot, count>>
        /\ (Goes(t, "port") \/ Ends(t))
        /\ (mem' = m \/ (Has(n) /\ mem' = Dead(m, n)))
    BY <1>12 DEF RestartKills, Dead
  <2>2. /\ m \in Memory /\ m.watched = mem.watched
        /\ \A r \in Sids : m.handle[r] \in {0, mem.handle[r]}
        /\ \A r \in Sids : m.sessions[r] # None => mem.sessions[r] # None /\ m.sessions[r].pid \in {0, mem.sessions[r].pid}
        /\ Has(n) => m.sessions[n] \in Session
        /\ tasks[t].pc = "restart reap" /\ n \in Sids => m.handle[n] = 0
    <3>1. CASE tasks[t].pc = "restart reap"
      <4> HIDE DEF n
      <4>1. m = [mem EXCEPT !.handle[n] = 0]
        BY <3>1
      <4> HIDE DEF m
      <4>2. m \in Memory
        BY <1>1, <4>1, Numbers, HandleType
      <4>3. m.watched = mem.watched /\ m.sessions = mem.sessions
            /\ \A r \in Sids : m.handle[r] = IF r = n THEN 0 ELSE mem.handle[r]
        BY <1>1, <4>1 DEF Memory
      <4> QED BY <1>4, <4>2, <4>3
    <3>2. CASE tasks[t].pc # "restart reap" /\ Has(n)
      <4>1. [mem.sessions[n] EXCEPT !.pid = 0] \in Session /\ [mem.sessions[n] EXCEPT !.pid = 0].pid = 0
        BY <1>4, <3>2, Numbers DEF Session
      <4> DEFINE y == [mem.sessions[n] EXCEPT !.pid = 0]
      <4>2. m = [mem EXCEPT !.sessions[n] = y]
        BY <1>1, <1>4, <3>2 DEF Memory
      <4> HIDE DEF m
      <4>3. y \in Session /\ y.pid = 0
        BY <4>1
      <4> HIDE DEF n, y
      <4>4. m \in Memory
        BY <1>1, <4>2, <4>3, SessionType
      <4>5. m.watched = mem.watched /\ m.handle = mem.handle
            /\ \A r \in Sids : m.sessions[r] = IF r = n THEN y ELSE mem.sessions[r]
        BY <1>1, <4>2 DEF Memory
      <4> QED BY <1>4, <3>2, <4>3, <4>4, <4>5 DEF Has
    <3>3. CASE tasks[t].pc # "restart reap" /\ ~Has(n)
      BY <1>1, <3>3
    <3> QED BY <3>1, <3>2, <3>3
  <2> HIDE DEF m
  <2>3. /\ mem'.watched = mem.watched /\ \A r \in Sids : mem'.handle[r] = m.handle[r]
        /\ \A r \in Sids : mem'.sessions[r] # None => m.sessions[r] # None /\ mem'.sessions[r].pid = m.sessions[r].pid
    <3>1. CASE mem' = m
      BY <2>2, <3>1
    <3>2. CASE Has(n) /\ mem' = Dead(m, n)
      <4>1. n \in Sids /\ m.sessions[n] \in Session
        BY <1>4, <2>2, <3>2
      <4> HIDE DEF n
      <4> QED BY <2>2, <3>2, <4>1, DeadKeeps
    <3> QED BY <2>1, <3>1, <3>2
  <2>4. /\ \A u \in Tasks : Fits(u)
        /\ \A r \in Sids : Ending(r) => Ending(r)' \/ (n = r /\ tasks[t].pc = "restart reap")
    BY <1>2, <2>1, GoesFits DEF Reaping, Cleaning
  <2> HIDE DEF n
  <2>5. \A r \in Sids : RowKept(r) /\ Kept(r) /\ Heard(r)
    BY <2>1, <2>2, <2>3, RowsKept DEF Kept, Heard
  <2>6. \A r \in Sids : Ending(r) => Ending(r)' \/ mem'.handle[r] = 0
    BY <2>2, <2>3, <2>4
  <2> QED BY <2>1, <2>4, <2>5, <2>6, Steady
<1>13. CASE CleanChecked(t)
  <2>1. tasks[t].pc = "clean check" /\ UNCHANGED <<mem, rows, boot, count>> /\ (Goes(t, "clean kill") \/ Ends(t))
    BY <1>13 DEF CleanChecked
  <2>2. (\A u \in Tasks : Fits(u)) /\ (\A r \in Sids : Ending(r) => Ending(r)')
    BY <1>2, <2>1, GoesFits DEF Reaping, Cleaning
  <2>3. \A r \in Sids : RowKept(r) /\ Kept(r) /\ Heard(r)
    BY <2>1, RowsKept, MapsKept
  <2> QED BY <2>1, <2>2, <2>3, Steady
<1>14. CASE CleanEnds(t)
  <2>1. tasks[t].pc \in {"clean kill", "clean delete"} /\ UNCHANGED <<mem, boot, count>> /\ Ends(t) /\ rows' = [rows EXCEPT ![n] = None]
    BY <1>14 DEF CleanEnds
  <2>2. (\A u \in Tasks : Fits(u)) /\ (\A r \in Sids : Ending(r) => Ending(r)')
    BY <1>2, <2>1, TaskFits DEF Ends, Reaping
  <2> HIDE DEF n
  <2>3. \A r \in Sids : RowKept(r) /\ Kept(r) /\ Heard(r)
    BY <1>1, <2>1, RowsKept, MapsKept
  <2> QED BY <2>1, <2>2, <2>3, Steady
<1> QED BY <1>5, <1>6, <1>7, <1>8, <1>9, <1>10, <1>11, <1>12, <1>13, <1>14 DEF TaskStep

\* Processes, the sweep and the clean-up of rows
LEMMA WorldSteady ==
    ASSUME Typed, Typed', IInv,
           \/ \E p \in Pids : KernelUp(p) \/ Exit(p) \/ Reuse(p) \/ ExitEvent(p)
           \/ \E s \in Sids : Quiet(s)
           \/ AutoClean \/ SweepLiveness
    PROVE  IInv'
<1>1. mem \in Memory
  BY TypeParts DEF Typed
<1>2. ASSUME NEW p \in Pids, KernelUp(p) \/ Exit(p) \/ Reuse(p) PROVE IInv'
  <2>1. UNCHANGED <<mem, rows, tasks, boot>> /\ count'.sids = count.sids /\ count'.pids = count.pids
    BY <1>2, TypeParts DEF Typed, Count, KernelUp, Exit, Reuse
  <2> QED BY <2>1, RowsKept, MapsKept, TasksAlone, Steady
<1>3. ASSUME NEW p \in Pids, ExitEvent(p) PROVE IInv'
  <2> DEFINE S == {s \in Sids : mem.handle[s] = p}
             m == [mem EXCEPT !.watched = mem.watched \ {p}]
  <2>1. Cleaned(m, S) /\ UNCHANGED <<tasks, boot, count>>
    BY <1>3 DEF ExitEvent
  <2>2. /\ m \in Memory /\ m.sessions = mem.sessions /\ m.handle = mem.handle
        /\ \A s \in Sids \ S : mem.handle[s] \in mem.watched => mem.handle[s] \in m.watched
    <3>1. mem.watched \ {p} \in SUBSET Pids
      BY <1>1 DEF Memory
    <3>2. m \in Memory
      BY <1>1, <3>1, WatchedType
    <3> QED BY <1>1, <3>2 DEF Memory
  <2>3. S \in SUBSET Sids
    OBVIOUS
  <2> HIDE DEF S, m
  <2>4. \A s \in Sids : Kept(s) /\ Heard(s)
    BY <2>1, <2>2, <2>3, ForgottenKept DEF Cleaned
  <2>5. \A s \in Sids : RowKept(s)
    BY <2>1, RowsKept DEF Cleaned
  <2> QED BY <2>1, <2>4, <2>5, TasksAlone, Steady
<1>4. ASSUME NEW s \in Sids, Quiet(s) PROVE IInv'
  <2>1. Has(s) /\ UNCHANGED <<rows, tasks, boot, count>> /\ mem' = [mem EXCEPT !.sessions[s].quiet = TRUE]
    BY <1>4 DEF Quiet
  <2>2. mem'.handle = mem.handle /\ mem'.watched = mem.watched
        /\ \A r \in Sids : mem'.sessions[r] # None => mem.sessions[r] # None /\ mem'.sessions[r].pid = mem.sessions[r].pid
    <3>1. mem.sessions[s] \in Session /\ mem.sessions[s] # None
      BY <2>1, SessionParts DEF Has
    <3> QED BY <1>1, <2>1, <3>1 DEF Memory, Session
  <2>3. \A r \in Sids : Kept(r) /\ Heard(r)
    BY <2>2 DEF Kept, Heard
  <2> QED BY <2>1, <2>3, RowsKept, TasksAlone, Steady
<1>5. CASE AutoClean
  <2>1. UNCHANGED <<mem, tasks, boot, count>> /\ \A s \in Sids : rows'[s] \in {None, rows[s]}
    BY <1>5 DEF AutoClean, Without
  <2> QED BY <2>1, RowsKept, MapsKept, TasksAlone, Steady
<1>6. CASE SweepLiveness
  <2>1. Cleaned(mem, Swept) /\ UNCHANGED <<tasks, boot, count>> /\ Swept \in SUBSET Sids
    BY <1>6 DEF SweepLiveness, Swept
  <2>2. \A s \in Sids : Kept(s) /\ Heard(s)
    BY <1>1, <2>1, ForgottenKept DEF Cleaned
  <2>3. \A s \in Sids : RowKept(s)
    BY <2>1, RowsKept DEF Cleaned
  <2> QED BY <2>1, <2>2, <2>3, TasksAlone, Steady
<1> QED BY <1>2, <1>3, <1>4, <1>5, <1>6

\* A crash and the start of the next server
LEMMA StartSteady ==
    ASSUME Typed, Typed', IInv, Crash \/ Listen \/ Reattaching
    PROVE  IInv'
<1>1. /\ mem \in Memory /\ rows \in [Sids -> Row \cup {None}] /\ count.sids \in Nat
      /\ boot \in Boot /\ boot.left \in SUBSET Sids /\ boot.sid \in 0..MaxSessions
  BY TypeParts, BoundAssumption DEF Typed, Count, Boot
<1>2. CASE Crash
  <2>1. /\ boot'.phase = "off" /\ boot'.left = {} /\ boot'.sid = 0
        /\ count'.sids = count.sids /\ count'.pids = count.pids
        /\ \A t \in Tasks : tasks'[t] = None
        /\ \A s \in Sids : mem'.sessions[s] = None /\ mem'.handle[s] = 0
    BY <1>2, TypeParts DEF Typed, Count, Crash, NoMemory
  <2>2. ASSUME NEW s \in Sids, rows'[s] # None
        PROVE  rows[s] # None /\ ~rows'[s].mine
    BY <1>1, <1>2, <2>2 DEF Crash, Row
  <2>3. Fresh'
    BY <1>1, <2>1, <2>2 DEF Fresh, IInv
  <2>4. OwnHandles'
    BY <2>1, TypeParts, BoundAssumption DEF OwnHandles, Typed, Count
  <2>5. Attended'
    BY <2>1 DEF Attended, Has
  <2>6. OldIsUntouched'
    BY <2>1, <2>2 DEF OldIsUntouched, Sids
  <2> QED BY <2>3, <2>4, <2>5, <2>6 DEF IInv
<1>3. CASE Listen
  <2>1. /\ boot'.phase = "listening" /\ boot.phase = "off" /\ boot'.left = boot.left /\ boot'.sid = boot.sid
        /\ UNCHANGED <<mem, rows, tasks, count>>
    BY <1>1, <1>3 DEF Listen, Boot
  <2>2. Fresh' /\ OwnHandles' /\ Attended'
    BY <2>1 DEF IInv, Fresh, OwnHandles, Attended, Has, Ending
  <2>3. \A s \in Sids : Old(s)' => Old(s)
    BY <2>1 DEF Old
  <2>4. OldIsUntouched'
    BY <2>1, <2>3 DEF IInv, OldIsUntouched
  <2> QED BY <2>2, <2>4 DEF IInv
<1>4. CASE ReattachBegins
  <2>1. /\ boot'.phase = "reattaching" /\ boot.phase = "listening" /\ boot'.sid = 0
        /\ boot'.left = {s \in Sids : rows'[s] # None /\ rows'[s].status = "orphaned"}
        /\ \A s \in Sids : rows'[s] = Orphaned(rows[s])
        /\ UNCHANGED <<mem, tasks, count>>
    BY <1>4 DEF ReattachBegins
  <2>2. ASSUME NEW s \in Sids, rows'[s] # None
        PROVE  rows[s] # None /\ (rows'[s].status = "orphaned" => ~rows'[s].mine /\ ~rows[s].mine)
    <3>1. rows[s] # None
      BY <2>1, <2>2 DEF Orphaned
    <3>2. rows[s] \in Row
      BY <1>1, <3>1
    <3>3. rows[s].status = "orphaned" => ~rows[s].mine
      BY <3>1 DEF IInv, OldIsUntouched
    <3>4. rows'[s].mine <=> rows[s].mine
      BY <2>1, <3>2 DEF Orphaned, Row
    <3>5. rows'[s].status = "orphaned" => rows[s].status = "orphaned" \/ ~rows[s].mine
      BY <2>1, <3>1, <3>2 DEF Orphaned, Row
    <3> QED BY <3>1, <3>3, <3>4, <3>5
  <2>3. ASSUME NEW s \in Sids, Old(s)' PROVE Old(s) /\ s # boot'.sid
    BY <2>1, <2>2, <2>3 DEF Old, Sids
  <2>4. OwnHandles' /\ Attended'
    BY <2>1 DEF IInv, OwnHandles, Attended, Has, Ending
  <2>5. Fresh'
    <3>1. \A s \in Sids : s > count.sids => rows'[s] = None
      BY <2>2 DEF IInv, Fresh
    <3>2. \A s \in boot'.left : s <= count.sids
      BY <1>1, <2>1, <3>1 DEF Sids
    <3> QED BY <1>1, <2>1, <3>1, <3>2 DEF IInv, Fresh
  <2>6. OldIsUntouched'
    BY <2>1, <2>2, <2>3 DEF IInv, OldIsUntouched
  <2> QED BY <2>4, <2>5, <2>6 DEF IInv
<1>5. ASSUME NEW s \in Sids, ReattachNext(s) PROVE IInv'
  <2> DEFINE r == boot.read[s]
             x == [status |-> "starting", pid |-> r.pid, file |-> r.file, name |-> r.name, quiet |-> FALSE]
             m == [mem EXCEPT !.sessions[s] = x, !.files[r.file] = s, !.sock[s] = r.pid]
  <2>1. /\ boot.phase = "reattaching" /\ boot'.phase = "reattaching" /\ boot.sid = 0 /\ s \in boot.left
        /\ boot'.left = boot.left \ {s} /\ UNCHANGED <<tasks, count>>
        /\ \/ rows' = Terminated(s) /\ boot'.sid = 0 /\ UNCHANGED mem
           \/ mem' = m /\ boot'.sid = s /\ UNCHANGED rows
    BY <1>1, <1>5 DEF ReattachNext, Boot
  <2>2. Old(s) /\ mem.handle[s] = 0 /\ s <= count.sids
    BY <2>1 DEF Old, IInv, OldIsUntouched, Fresh
  <2>3. /\ mem'.handle = mem.handle /\ mem'.watched = mem.watched
        /\ \A q \in Sids \ {s} : mem'.sessions[q] = mem.sessions[q]
    <3>1. CASE UNCHANGED mem
      BY <3>1
    <3>2. CASE mem' = m
      <4> HIDE DEF r, x
      <4> QED BY <1>1, <3>2 DEF Memory
    <3> HIDE DEF m
    <3> QED BY <2>1, <3>1, <3>2
  <2>4. ASSUME NEW q \in Sids, rows'[q] # None
        PROVE  rows[q] # None /\ (rows'[q].status = "orphaned" => ~rows'[q].mine)
    <3>1. CASE UNCHANGED rows
      BY <2>4, <3>1 DEF IInv, OldIsUntouched
    <3>2. CASE rows' = Terminated(s)
      BY <1>1, <2>4, <3>2 DEF IInv, OldIsUntouched, Terminated, Row
    <3> QED BY <2>1, <3>1, <3>2
  <2> HIDE DEF m
  <2>5. Fresh'
    <3>1. ASSUME NEW q \in Sids, q > count.sids
          PROVE  mem'.sessions[q] = None /\ mem'.handle[q] = 0 /\ rows'[q] = None
      <4>1. q # s
        BY <1>1, <2>2, <3>1 DEF Sids
      <4> QED BY <2>3, <2>4, <3>1, <4>1 DEF IInv, Fresh
    <3> QED BY <1>1, <2>1, <2>2, <3>1 DEF IInv, Fresh
  <2>6. OwnHandles'
    BY <2>1, <2>3 DEF IInv, OwnHandles
  <2>7. Attended'
    <3> SUFFICES ASSUME NEW q \in Sids, Has(q)', ~Ending(q)', mem'.handle[q] # 0
                 PROVE  \/ mem'.sessions[q].pid = 0
                        \/ mem'.handle[q] = mem'.sessions[q].pid /\ mem'.handle[q] \in mem'.watched
      BY DEF Attended
    <3>1. q # s
      BY <2>2, <2>3
    <3>2. mem'.sessions[q] = mem.sessions[q] /\ Has(q)
      BY <2>3, <3>1 DEF Has
    <3>3. ~Ending(q)
      BY <2>1 DEF Ending
    <3> QED BY <2>3, <3>2, <3>3 DEF IInv, Attended
  <2>8. OldIsUntouched'
    <3>1. ASSUME NEW q \in Sids, Old(q)' PROVE Old(q) /\ q # s /\ boot'.sid # q
      BY <2>1, <3>1 DEF Old, Sids
    <3>2. ASSUME NEW q \in Sids, Old(q)'
          PROVE  /\ mem'.sessions[q] = None /\ mem'.handle[q] = 0 /\ boot'.sid # q
                 /\ \A u \in Tasks : tasks'[u] # None /\ tasks'[u].sid = q => tasks'[u].pc \in Cleaning
      <4>1. Old(q) /\ q # s /\ boot'.sid # q
        BY <3>1, <3>2
      <4>2. mem.sessions[q] = None /\ mem.handle[q] = 0
            /\ \A u \in Tasks : tasks[u] # None /\ tasks[u].sid = q => tasks[u].pc \in Cleaning
        BY <4>1 DEF IInv, OldIsUntouched
      <4> QED BY <2>1, <2>3, <4>1, <4>2
    <3> QED BY <2>4, <3>2 DEF OldIsUntouched
  <2> QED BY <2>5, <2>6, <2>7, <2>8 DEF IInv
<1>6. CASE ReattachEnds
  <2> DEFINE n == boot.sid
             r == boot.row
             k(a) == IF r.time # "none" THEN r.time ELSE StartTime(r.pid, a)
             y(a) == [r EXCEPT !.status = "active", !.mine = TRUE, !.time = k(a)]
  <2>10. PICK a : \/ rows' = Recorded(n, y(a)) /\ mem' = (IF Has(n) THEN [mem EXCEPT !.sessions[n].status = "ready"] ELSE mem)
                  \/ mem' = Forgotten(mem, {n}) /\ rows' = Terminated(n)
    BY <1>6 DEF ReattachEnds
  <2> DEFINE x == y(a)
  <2>1. /\ n # 0 /\ boot'.sid = 0 /\ boot'.left = boot.left /\ boot'.phase = boot.phase
        /\ UNCHANGED <<tasks, count>>
        /\ \/ rows' = Recorded(n, x) /\ mem' = (IF Has(n) THEN [mem EXCEPT !.sessions[n].status = "ready"] ELSE mem)
           \/ mem' = Forgotten(mem, {n}) /\ rows' = Terminated(n)
    BY <1>1, <1>6, <2>10 DEF ReattachEnds, Boot
  <2>2. n \in Sids /\ r \in Row /\ n <= count.sids
    BY <1>1, <2>1, Numbers DEF Typed, Known, LoopKnows, Boot, IInv, Fresh
  <2>3. x.mine /\ x.status = "active"
    BY <2>2 DEF Row
  <2> HIDE DEF x, n, r, k
  <2>4. ASSUME rows' = Recorded(n, x), mem' = IF Has(n) THEN [mem EXCEPT !.sessions[n].status = "ready"] ELSE mem
        PROVE  \A s \in Sids : RowKept(s) /\ Kept(s) /\ Heard(s)
    <3>1. \A s \in Sids : RowKept(s)
      BY <2>2, <2>3, <2>4, RowRecorded, Numbers
    <3>2. mem'.handle = mem.handle /\ mem'.watched = mem.watched
          /\ \A s \in Sids : mem'.sessions[s] # None => mem.sessions[s] # None /\ mem'.sessions[s].pid = mem.sessions[s].pid
      <4>1. CASE Has(n)
        <5>1. mem.sessions[n] \in Session /\ mem.sessions[n] # None
          BY <2>2, <4>1, SessionParts DEF Has
        <5> QED BY <1>1, <2>2, <2>4, <4>1, <5>1 DEF Memory, Session
      <4>2. CASE ~Has(n)
        BY <2>4, <4>2
      <4> QED BY <4>1, <4>2
    <3> QED BY <3>1, <3>2 DEF Kept, Heard
  <2>5. ASSUME mem' = Forgotten(mem, {n}), rows' = Terminated(n)
        PROVE  \A s \in Sids : RowKept(s) /\ Kept(s) /\ Heard(s)
    <3>1. \A s \in Sids : Kept(s) /\ Heard(s)
      BY <1>1, <2>2, <2>5, ForgottenKept
    <3>2. \A s \in Sids : rows[s] # None => s <= count.sids
      BY <1>1 DEF IInv, Fresh, Sids
    <3>3. ASSUME NEW s \in Sids, rows'[s] # None
          PROVE  /\ rows[s] # None /\ rows'[s].mine = rows[s].mine
                 /\ rows'[s].status \in {"terminated", rows[s].status}
      <4>1. rows[s] # None
        BY <1>1, <2>5, <3>3 DEF Terminated
      <4> QED BY <1>1, <2>5, <4>1 DEF Terminated, Row
    <3>4. \A s \in Sids : RowKept(s)
      BY <3>2, <3>3 DEF RowKept, IInv, OldIsUntouched
    <3> QED BY <3>1, <3>4
  <2>6. \A s \in Sids : RowKept(s) /\ Kept(s) /\ Heard(s)
    BY <2>1, <2>4, <2>5
  <2> QED BY <2>1, <2>6, TasksAlone, Steady
<1>7. CASE ReattachDone
  <2>1. /\ UNCHANGED <<mem, tasks, count>> /\ \A s \in Sids : rows'[s] \in {None, rows[s]}
        /\ boot'.phase = "up" /\ boot'.left = boot.left /\ boot'.sid = boot.sid
    BY <1>1, <1>7 DEF ReattachDone, Without, Boot
  <2> QED BY <2>1, RowsKept, MapsKept, TasksAlone, Steady
<1> QED BY <1>2, <1>3, <1>4, <1>5, <1>6, <1>7 DEF Reattaching

\* IInv is inductive.
LEMMA Invariance == Spec => [](Typed /\ IInv)
<1>1. Init => IInv
  <2>1. Init => /\ count.sids = 0 /\ count.pids = 0 /\ boot.sid = 0 /\ boot.left = {} /\ boot.phase = "up"
                /\ \A s \in Sids : mem.sessions[s] = None /\ mem.handle[s] = 0 /\ rows[s] = None
                /\ \A t \in Tasks : tasks[t] = None
    BY DEF Init, NoMemory, NoRows
  <2> QED BY <2>1 DEF IInv, Fresh, OwnHandles, Attended, OldIsUntouched, Old, Has
<1>2. Typed /\ Typed' /\ IInv /\ [Next]_vars => IInv'
  <2> SUFFICES ASSUME Typed, Typed', IInv, [Next]_vars PROVE IInv'
    OBVIOUS
  <2>1. CASE UNCHANGED vars
    BY <2>1, RowsKept, MapsKept, TasksAlone, Steady DEF vars
  <2> QED BY <2>1, AskedSteady, TaskStepSteady, WorldSteady, StartSteady, Zenon DEF Next
<1> QED BY <1>1, <1>2, TypeInit, TypeStep, PTL DEF Spec

\* No session goes on as idle after its kernel has ended: the exit event is on the
\* way, or the sweep will find it, or a request is about it, whatever restarts, stops,
\* crashes and reattachments interleave; unless another program runs under the id of a
\* reattached kernel, which the sweep takes for the kernel.
THEOREM DeathsAreNoticed == Spec => []DeathIsNoticed
<1>1. Typed /\ IInv => DeathIsNoticed
  <2> SUFFICES ASSUME Typed, IInv, NEW s \in Sids, Bereft(s),
                      ~\E t \in Tasks : tasks[t] # None /\ tasks[t].sid = s
               PROVE  \/ mem.handle[s] = mem.sessions[s].pid /\ mem.handle[s] \in mem.watched
                      \/ s \in Swept \/ Masked(s)
    BY DEF DeathIsNoticed
  <2>1. Has(s) /\ mem.sessions[s].pid # 0 /\ mem.sessions[s].status = "ready" /\ ~Ending(s)
    BY DEF Bereft, Ending
  <2>4. mem.sessions[s].status # "dead"
    BY <2>1
  <2>2. CASE mem.handle[s] = 0
    <3>1. procs[mem.sessions[s].pid].st \in {"none", "gone", "stranger"}
      <4>1. mem.sessions[s].pid \in Pids /\ procs \in [Pids -> Proc]
        BY <2>1, SessionParts, Numbers, TypeParts DEF Typed
      <4> QED BY <2>1, <4>1 DEF Bereft, Kernel, Proc
    <3>2. Masked(s) \/ ~Alive(mem.sessions[s].pid)
      BY <2>2, <3>1 DEF Masked, Alive
    <3> QED BY <2>1, <2>2, <2>4, <3>2 DEF Swept, Live
  <2>3. CASE mem.handle[s] # 0
    BY <2>1, <2>3 DEF IInv, Attended
  <2> QED BY <2>2, <2>3
<1> QED BY <1>1, Invariance, PTL

-----------------------------------------------------------------------------
(* Rows *)

\* p is a kernel's process that runs and was not told to end, before and after a step.
Going(p) == p \in Pids /\ procs[p].st \in {"booting", "up"} /\ procs[p].marks = {}
GoingOn(p) == p \in Pids /\ procs'[p].st \in {"booting", "up"} /\ procs'[p].marks = {}

\* Those are the processes that run.
LEMMA GoingRuns == \A p : Going(p) <=> p \in Pids /\ Runs(p)
BY DEF Going, Runs, Kernel, Pids

\* A session's child is its process, and if it answers its row is good.
RowGood(s) ==
    /\ rows[s] # None /\ rows[s].status = "active" /\ rows[s].mine
    /\ rows[s].pid = mem.sessions[s].pid
SessionOK(s) == Has(s) =>
    /\ mem.sessions[s].pid <= count.pids
    /\ mem.handle[s] # 0 => mem.handle[s] = mem.sessions[s].pid
    /\ mem.sessions[s].status = "ready" => RowGood(s)

\* The kernel of an active row of this server is the session's; a row is terminated
\* when its kernel is not running.
RowOK(s) == rows[s] # None =>
    /\ rows[s].pid <= count.pids
    /\ rows[s].status = "active" /\ rows[s].mine /\ Going(rows[s].pid) =>
         Has(s) /\ mem.sessions[s].pid = rows[s].pid
    /\ rows[s].status = "terminated" => ~Going(rows[s].pid)

\* The loop has left a row active or terminated.
Placed(s) ==
    rows[s] # None /\ boot.phase \in {"up", "reattaching"} /\ s \notin boot.left /\ s # boot.sid =>
        rows[s].status = "terminated" \/ (rows[s].status = "active" /\ rows[s].mine)

\* The session that the loop is about has the process of its row, or that is not running.
BootOK ==
    /\ boot.phase # "reattaching" => boot.left = {} /\ boot.sid = 0
    /\ boot.sid # 0 =>
         /\ boot.row.pid <= count.pids
         /\ Has(boot.sid) => /\ mem.sessions[boot.sid].pid = boot.row.pid
                             /\ mem.sessions[boot.sid].status = "starting"
         /\ ~Has(boot.sid) => ~Going(boot.row.pid)
         /\ rows[boot.sid] # None => rows[boot.sid].pid = boot.row.pid

\* A request that cleans up is about a session that is not live; one that stops has asked
\* the process to end; one that waits for a kernel is the one that started it; and
\* one that restarts has given up the process of the row.
Raised == {"boot", "stamp"}
Restarting == {"restart reap", "restart verify", "restart kill"}
Renewing(s, k) ==
    /\ mem.sessions[s].status = "starting"
    /\ k.pc \in {"restart verify", "restart kill"} => mem.handle[s] = 0
    /\ k.pc = "restart verify" => k.pid = mem.sessions[s].pid
    /\ k.pc \in {"restart reap", "restart kill", "port"} /\ rows[s] # None => ~Going(rows[s].pid)
Raising(s, k) ==
    /\ Has(s) => mem.sessions[s].status = "starting" /\ mem.sessions[s].pid = k.pid
    /\ ~Has(s) => ~Going(k.pid)
Fine(k) ==
    /\ k.pid <= count.pids
    /\ k.pc \in Cleaning <=> k.op = "clean"
    /\ k.pc \in Restarting => k.op = "restart"
    /\ k.pc = "poll" \/ k.then = "port" => k.op = "create"
    /\ k.op = "restart" \/ k.pc \in Raised => k.sid # 0 /\ k.sid # boot.sid
    /\ k.op = "clean" => ~Live(k.sid) /\ boot.phase = "up"
    /\ k.pc \in {"reap", "kill"} /\ Has(k.sid) => ~Going(mem.sessions[k.sid].pid)
    /\ k.pc \in Raised => Raising(k.sid, k)
    /\ k.op = "restart" /\ Has(k.sid) => Renewing(k.sid, k)
TaskOK(t) == tasks[t] # None => Fine(tasks[t])

\* A session has one request that starts it, and beside a restart only clean-ups.
Apart(j, k) ==
    j.sid = k.sid /\ j.sid # 0 =>
        /\ ~(j.pc \in Raised /\ k.pc \in Raised)
        /\ j.op = "restart" => k.op = "clean"
        /\ k.op = "restart" => j.op = "clean"
Alone == \A t, u \in Tasks : t # u /\ tasks[t] # None /\ tasks[u] # None => Apart(tasks[t], tasks[u])

Tidy ==
    /\ \A s \in Sids : SessionOK(s) /\ RowOK(s) /\ Placed(s)
    /\ BootOK /\ Alone
    /\ \A t \in Tasks : TaskOK(t)

\* What an ordinary step does to a session and its row
Same(s) ==
    /\ mem'.sessions[s] # None => /\ mem.sessions[s] # None
                                  /\ mem'.sessions[s].pid = mem.sessions[s].pid
                                  /\ mem'.sessions[s].status = mem.sessions[s].status
    /\ mem'.handle[s] \in {0, mem.handle[s]}
    /\ rows'[s] \in {None, rows[s]}
    /\ mem.sessions[s] # None /\ mem'.sessions[s] = None => ~GoingOn(mem.sessions[s].pid) /\ rows'[s] = None
    /\ rows[s] # None /\ rows'[s] = None /\ mem'.sessions[s] # None => mem'.sessions[s].status # "ready"
\* ... and to the processes
Quieter == \A p \in Pids : p <= count.pids /\ GoingOn(p) => Going(p)

\* Sessions that a step leaves alone stay right, and so do the requests about them.
LEMMA Frame ==
    ASSUME Typed, Typed', IInv, Tidy, Quieter, NEW N \in SUBSET Sids, \A s \in Sids \ N : Same(s),
           count.pids <= count'.pids, boot'.sid \in {0, boot.sid} \cup N,
           boot.phase = "up" => boot'.phase = "up"
    PROVE  /\ \A s \in Sids \ N : SessionOK(s)' /\ RowOK(s)'
           /\ \A t \in Tasks : tasks'[t] = tasks[t] /\ (tasks[t] # None => tasks[t].sid \notin N) => TaskOK(t)'
<1>0. /\ 0 \notin Sids /\ 0 \notin N
      /\ \A p \in 0..MaxProcs : p <= count.pids => p <= count'.pids
  <2>1. count.pids \in Nat
    BY TypeParts, BoundAssumption DEF Typed, Count
  <2>2. count'.pids \in Nat
    BY BoundAssumption DEF Typed, TypeOK
  <2> QED BY <2>1, <2>2, BoundAssumption DEF Sids
<1>1. /\ mem.sessions \in [Sids -> Session \cup {None}] /\ rows \in [Sids -> Row \cup {None}]
      /\ tasks \in [Tasks -> Task \cup {None}]
  BY TypeParts DEF Typed, Memory
<1>2. ASSUME NEW p \in 0..MaxProcs, p <= count.pids, ~Going(p) PROVE ~GoingOn(p)
  BY <1>2 DEF Quieter, GoingOn
<1>3. ASSUME NEW s \in Sids, rows[s] # None PROVE rows[s].pid \in 0..MaxProcs /\ rows[s].pid # 0
  BY <1>1, <1>3, BoundAssumption DEF Row, Pids
<1>4. ASSUME NEW s \in Sids, mem.sessions[s] # None PROVE mem.sessions[s].pid \in 0..MaxProcs
  BY <1>1, <1>4 DEF Session
<1>5. ASSUME NEW s \in Sids \ N PROVE SessionOK(s)'
  <2> SUFFICES ASSUME mem'.sessions[s] # None
               PROVE  /\ mem'.sessions[s].pid <= count'.pids
                      /\ mem'.handle[s] # 0 => mem'.handle[s] = mem'.sessions[s].pid
                      /\ mem'.sessions[s].status = "ready" => RowGood(s)'
    BY <1>0 DEF SessionOK, Has
  <2>1. /\ mem.sessions[s] # None /\ mem'.sessions[s].pid = mem.sessions[s].pid
        /\ mem'.sessions[s].status = mem.sessions[s].status
        /\ mem'.handle[s] \in {0, mem.handle[s]}
        /\ rows'[s] \in {None, rows[s]} /\ (rows[s] # None /\ rows'[s] = None => mem'.sessions[s].status # "ready")
    BY DEF Same
  <2>2. /\ mem.sessions[s].pid <= count.pids
        /\ mem.handle[s] # 0 => mem.handle[s] = mem.sessions[s].pid
        /\ mem.sessions[s].status = "ready" => RowGood(s)
    BY <1>0, <2>1 DEF Tidy, SessionOK, Has
  <2>3. mem'.sessions[s].pid <= count'.pids
    BY <1>0, <1>4, <2>1, <2>2
  <2> QED BY <2>1, <2>2, <2>3 DEF RowGood
<1>6. ASSUME NEW s \in Sids \ N PROVE RowOK(s)'
  <2> SUFFICES ASSUME rows'[s] # None
               PROVE  /\ rows'[s].pid <= count'.pids
                      /\ rows'[s].status = "active" /\ rows'[s].mine /\ GoingOn(rows'[s].pid) =>
                            mem'.sessions[s] # None /\ mem'.sessions[s].pid = rows'[s].pid
                      /\ rows'[s].status = "terminated" => ~GoingOn(rows'[s].pid)
    BY <1>0 DEF RowOK, Has, Going, GoingOn, Runs
  <2>1. /\ rows'[s] = rows[s] /\ rows[s] # None
        /\ mem.sessions[s] # None => mem'.sessions[s] # None
        /\ mem'.sessions[s] # None => mem'.sessions[s].pid = mem.sessions[s].pid
    BY DEF Same
  <2>2. /\ rows[s].pid <= count.pids
        /\ rows[s].status = "active" /\ rows[s].mine /\ Going(rows[s].pid) =>
              mem.sessions[s] # None /\ mem.sessions[s].pid = rows[s].pid
        /\ rows[s].status = "terminated" => ~Going(rows[s].pid)
    BY <2>1 DEF Tidy, RowOK, Has
  <2>3. GoingOn(rows[s].pid) => Going(rows[s].pid)
    BY <1>2, <1>3, <2>1, <2>2
  <2>4. rows[s].pid <= count'.pids
    BY <1>0, <1>3, <2>1, <2>2
  <2> QED BY <2>1, <2>2, <2>3, <2>4
<1>7. ASSUME NEW t \in Tasks, NEW k, tasks[t] = k, tasks'[t] = k, k # None, NEW s, k.sid = s, s \notin N
      PROVE  TaskOK(t)'
  <2>1. k \in Task /\ k.sid = s /\ s \in 0..MaxSessions /\ k.pid \in 0..MaxProcs /\ Fine(k)
    BY <1>1, <1>7 DEF Task, Tidy, TaskOK
  <2>2. s \in Sids => Same(s)
    BY <1>7
  <2>3. s # 0 => s \in Sids
    BY <2>1, Numbers
  <2>4. Has(s)' => Has(s) /\ mem'.sessions[s].pid = mem.sessions[s].pid /\ mem'.sessions[s].status = mem.sessions[s].status
                   /\ mem'.handle[s] \in {0, mem.handle[s]} /\ mem.sessions[s].pid \in 0..MaxProcs
                   /\ rows'[s] \in {None, rows[s]} /\ mem.sessions[s].pid <= count.pids /\ s \in Sids
    BY <1>4, <2>2, <2>3 DEF Has, Same, Tidy, SessionOK
  <2>5. Has(s) /\ ~Has(s)' => ~GoingOn(mem.sessions[s].pid)
    BY <2>2, <2>3 DEF Has, Same
  <2>6. k.op = "clean" => ~Live(s)' /\ boot'.phase = "up"
    BY <2>1, <2>4 DEF Fine, Live
  <2>7. k.pc \in {"reap", "kill"} /\ Has(s)' => ~GoingOn(mem'.sessions[s].pid)
    BY <1>2, <2>1, <2>4 DEF Fine
  <2>8. k.pc \in Raised => /\ Has(s)' => mem'.sessions[s].status = "starting" /\ mem'.sessions[s].pid = k.pid
                           /\ ~Has(s)' => ~GoingOn(k.pid)
    <3>1. k.pc \in Raised => /\ Has(s) => mem.sessions[s].status = "starting" /\ mem.sessions[s].pid = k.pid
                             /\ ~Has(s) => ~GoingOn(k.pid)
      BY <1>2, <2>1 DEF Fine, Raising
    <3> QED BY <2>4, <2>5, <3>1
  <2>9. k.op = "restart" /\ Has(s)' =>
           /\ mem'.sessions[s].status = "starting"
           /\ k.pc \in {"restart verify", "restart kill"} => mem'.handle[s] = 0
           /\ k.pc = "restart verify" => k.pid = mem'.sessions[s].pid
           /\ k.pc \in {"restart reap", "restart kill", "port"} /\ rows'[s] # None => ~GoingOn(rows'[s].pid)
    <3> SUFFICES ASSUME k.op = "restart", Has(s)' PROVE
           /\ mem'.sessions[s].status = "starting"
           /\ k.pc \in {"restart verify", "restart kill"} => mem'.handle[s] = 0
           /\ k.pc = "restart verify" => k.pid = mem'.sessions[s].pid
           /\ k.pc \in {"restart reap", "restart kill", "port"} /\ rows'[s] # None => ~GoingOn(rows'[s].pid)
      OBVIOUS
    <3>1. Renewing(s, k)
      BY <2>1, <2>4 DEF Fine
    <3>2. rows[s] # None => rows[s].pid <= count.pids
      BY <2>4 DEF Tidy, RowOK
    <3> QED BY <1>2, <1>3, <2>4, <3>1, <3>2 DEF Renewing
  <2>10. k.pid <= count'.pids
    BY <1>0, <2>1 DEF Fine
  <2>11. k.op = "restart" \/ k.pc \in Raised => s # 0 /\ s # boot'.sid
    BY <1>7, <2>1, <2>3 DEF Fine
  <2>12. /\ k.pc \in Cleaning <=> k.op = "clean"
         /\ k.pc \in Restarting => k.op = "restart"
         /\ k.pc = "poll" \/ k.then = "port" => k.op = "create"
    BY <2>1 DEF Fine
  <2> QED BY <1>7, <2>6, <2>7, <2>8, <2>9, <2>10, <2>11, <2>12 DEF TaskOK, Fine, Raising, Renewing, Going, GoingOn, Runs
<1>8. ASSUME NEW t \in Tasks, tasks'[t] = None PROVE TaskOK(t)'
  BY <1>8 DEF TaskOK
<1> QED BY <1>5, <1>6, <1>7, <1>8

\* ... and so does the loop, if it is left alone.
LEMMA FrameBoot ==
    ASSUME Typed, Typed', IInv, Tidy, Quieter, NEW N \in SUBSET Sids, \A s \in Sids \ N : Same(s),
           count.pids <= count'.pids, boot' = boot, boot.sid \notin N
    PROVE  (\A s \in Sids \ N : Placed(s)') /\ BootOK'
<1>1. /\ mem.sessions \in [Sids -> Session \cup {None}] /\ boot.sid \in 0..MaxSessions
      /\ boot.sid # 0 => boot.sid \in Sids \ N /\ boot.row \in Row
  BY Numbers, TypeParts DEF Typed, Known, LoopKnows, Memory, Boot
<1>2. ASSUME NEW s \in Sids \ N PROVE Placed(s)'
  BY DEF Same, Tidy, Placed
<1>3. BootOK'
  <2>1. boot'.phase # "reattaching" => boot'.left = {} /\ boot'.sid = 0
    BY DEF Tidy, BootOK
  <2>2. ASSUME NEW s, boot.sid = s, s # 0, NEW r, boot.row = r
        PROVE  /\ r.pid <= count'.pids
               /\ Has(s)' => mem'.sessions[s].pid = r.pid /\ mem'.sessions[s].status = "starting"
               /\ ~Has(s)' => ~GoingOn(r.pid)
               /\ rows'[s] # None => rows'[s].pid = r.pid
    <3>1. s \in Sids /\ Same(s) /\ r \in Row /\ r.pid \in Pids /\ r.pid \in 0..MaxProcs
      BY <1>1, <2>2, Numbers DEF Row
    <3>2. /\ r.pid <= count.pids
          /\ Has(s) => mem.sessions[s].pid = r.pid /\ mem.sessions[s].status = "starting"
          /\ ~Has(s) => ~Going(r.pid)
          /\ rows[s] # None => rows[s].pid = r.pid
      BY <2>2 DEF Tidy, BootOK
    <3>3. r.pid <= count'.pids
      <4>1. count.pids \in Nat /\ count'.pids \in Nat
        BY BoundAssumption DEF Typed, TypeOK
      <4> QED BY <3>1, <3>2, <4>1, BoundAssumption
    <3>4. ~Has(s) => ~GoingOn(r.pid)
      BY <3>1, <3>2 DEF Quieter
    <3>5. Has(s) /\ ~Has(s)' => ~GoingOn(r.pid)
      BY <3>1, <3>2 DEF Has, Same
    <3> QED BY <3>1, <3>2, <3>3, <3>4, <3>5 DEF Has, Same
  <2> QED BY <2>1, <2>2 DEF BootOK, Going, GoingOn, Runs
<1> QED BY <1>2, <1>3

\* The requests stay apart when one is given another state.
LEMMA AloneKept ==
    ASSUME Typed, Alone, NEW t \in Tasks, NEW x, tasks' = [tasks EXCEPT ![t] = x],
           x # None =>
             \/ x.sid = 0
             \/ tasks[t] # None /\ x.sid = tasks[t].sid /\ x.op = tasks[t].op /\ (x.pc \in Raised => tasks[t].pc \in Raised)
             \/ \A u \in Tasks \ {t} : tasks[u] # None => Apart(x, tasks[u])
    PROVE  Alone'
<1>1. tasks \in [Tasks -> Task \cup {None}]
  BY TypeParts DEF Typed
<1>2. ASSUME NEW u \in Tasks PROVE tasks'[u] = IF u = t THEN x ELSE tasks[u]
  BY <1>1
<1>3. ASSUME x # None, NEW u \in Tasks \ {t}, tasks[u] # None PROVE Apart(x, tasks[u]) /\ Apart(tasks[u], x)
  <2>1. CASE x.sid = 0
    BY <2>1 DEF Apart
  <2>2. CASE tasks[t] # None /\ x.sid = tasks[t].sid /\ x.op = tasks[t].op /\ (x.pc \in Raised => tasks[t].pc \in Raised)
    <3>1. Apart(tasks[t], tasks[u])
      BY <1>3, <2>2 DEF Alone
    <3> QED BY <2>2, <3>1 DEF Apart
  <2>3. CASE \A v \in Tasks \ {t} : tasks[v] # None => Apart(x, tasks[v])
    BY <1>3, <2>3 DEF Apart
  <2> QED BY <1>3, <2>1, <2>2, <2>3
<1>4. ASSUME NEW u \in Tasks, NEW v \in Tasks, u # v, tasks'[u] # None, tasks'[v] # None
      PROVE  Apart(tasks'[u], tasks'[v])
  BY <1>2, <1>3, <1>4 DEF Alone
<1> QED BY <1>4 DEF Alone, Apart

\* An ordinary step keeps everything, if the request that makes it is right.
LEMMA Ordinary ==
    ASSUME Typed, Typed', IInv, Tidy, Quieter, \A s \in Sids : Same(s),
           count.pids <= count'.pids, boot' = boot,
           NEW t \in Tasks, \A u \in Tasks \ {t} : tasks'[u] = tasks[u],
           tasks'[t] = tasks[t] \/ TaskOK(t)', Alone'
    PROVE  Tidy'
<1> DEFINE N == {}
<1>0. /\ N \in SUBSET Sids /\ \A s \in Sids \ N : Same(s)
      /\ boot'.sid \in {0, boot.sid} \cup N /\ boot.sid \notin N
      /\ boot.phase = "up" => boot'.phase = "up"
      /\ \A s \in Sids : s \in Sids \ N
      /\ \A u \in Tasks : tasks[u] # None => tasks[u].sid \notin N
  OBVIOUS
<1> HIDE DEF N
<1>1. /\ \A s \in Sids : SessionOK(s)' /\ RowOK(s)'
      /\ \A u \in Tasks : tasks'[u] = tasks[u] => TaskOK(u)'
  BY <1>0, Frame
<1>2. (\A s \in Sids : Placed(s)') /\ BootOK'
  BY <1>0, FrameBoot
<1>3. \A u \in Tasks : TaskOK(u)'
  BY <1>1
<1> QED BY <1>1, <1>2, <1>3 DEF Tidy

\* Signals and kills only end processes, ...
LEMMA SignalEnds ==
    ASSUME Typed, NEW p \in 0..MaxProcs, NEW who \in Marks,
           procs' = Signalled(p, who) \/ procs' = Killed(p, who) \/ (procs' = procs /\ ~Kernel(p))
    PROVE  Quieter /\ ~GoingOn(p)
<1>1. procs \in [Pids -> Proc]
  BY TypeParts DEF Typed
<1>2. ASSUME NEW q \in Pids
      PROVE  /\ procs'[q].st \in {"booting", "up"} => procs[q].st \in {"booting", "up"}
             /\ procs'[q].marks = {} => procs[q].marks = {}
  BY <1>1 DEF Signalled, Killed, Proc
<1>3. Quieter
  BY <1>2 DEF Quieter, Going, GoingOn, Runs
<1>4. ~GoingOn(p)
  <2> SUFFICES ASSUME p \in Pids PROVE ~(procs'[p].st \in {"booting", "up"} /\ procs'[p].marks = {})
    BY DEF GoingOn
  <2>1. p # 0
    BY DEF Pids
  <2>2. CASE procs' = Signalled(p, who)
    BY <1>1, <2>1, <2>2 DEF Signalled, Alive, Proc
  <2>3. CASE procs' = Killed(p, who)
    BY <1>1, <2>1, <2>3 DEF Killed, Alive, Proc
  <2>4. CASE procs' = procs /\ ~Kernel(p)
    BY <2>1, <2>4 DEF Kernel
  <2> QED BY <2>2, <2>3, <2>4
<1> QED BY <1>3, <1>4

\* a kernel that is given up does not count any more,
LEMMA MissedEnds ==
    ASSUME Typed, NEW P, procs' = Missed(P)
    PROVE  Quieter /\ \A p \in P : ~GoingOn(p)
<1>1. Noted
  BY MissedNotes
<1>2. Quieter
  BY <1>1 DEF Noted, Quieter, Going, GoingOn
<1>3. ASSUME NEW p \in P, GoingOn(p) PROVE FALSE
  <2>1. p \in Pids /\ p # 0 /\ procs[p].st \in {"booting", "up"}
    BY <1>1, <1>3 DEF Noted, GoingOn, Pids
  <2>2. "missed" \in procs'[p].marks
    BY <2>1, MissedNotes DEF Kernel
  <2> QED BY <1>3, <2>2 DEF GoingOn
<1> QED BY <1>2, <1>3

\* a start time that is recorded does not matter to the kernels,
LEMMA RecognisedEnds ==
    ASSUME Typed, NEW p, NEW time, procs' = Recognised(p, time), time = "other" => ~Kernel(p)
    PROVE  Quieter /\ \A q : GoingOn(q) <=> Going(q)
<1>1. Noted /\ \A q \in Pids : procs'[q] = procs[q] \/ (q = p /\ ~Kernel(q))
  BY RecognisedNotes
<1>2. ASSUME NEW q \in Pids PROVE GoingOn(q) <=> Going(q)
  BY <1>1 DEF Noted, Going, GoingOn, Kernel, Pids
<1> QED BY <1>2 DEF Quieter, Going, GoingOn

\* ... and a step without one does nothing to them.
LEMMA ProcsKept == ASSUME UNCHANGED procs PROVE Quieter /\ \A p : GoingOn(p) <=> Going(p)
BY DEF Quieter, Going, GoingOn, Runs

\* Sessions that leave the maps with their rows, when their processes have ended
LEMMA CleanedSame ==
    ASSUME Typed, NEW m \in Memory, NEW S \in SUBSET Sids, m.sessions = mem.sessions,
           \A s \in Sids : m.handle[s] \in {0, mem.handle[s]}, Cleaned(m, S),
           \A s \in S : mem.sessions[s] # None => ~GoingOn(mem.sessions[s].pid)
    PROVE  \A s \in Sids : Same(s)
<1> SUFFICES ASSUME NEW s \in Sids PROVE Same(s)
  OBVIOUS
<1>1. /\ mem'.sessions[s] = IF s \in S THEN None ELSE mem.sessions[s]
      /\ mem'.handle[s] = IF s \in S THEN 0 ELSE m.handle[s]
      /\ rows'[s] = IF s \in S /\ mem.sessions[s] # None THEN None ELSE rows[s]
  BY DEF Cleaned, Forgotten
<1> QED BY <1>1 DEF Same

\* stopKernel up to its sleep, by a new request or one whose kernel did not come up
LEMMA StopBeginsTidy ==
    ASSUME Typed, Typed', IInv, Tidy, NEW t \in Tasks, NEW x \in Task, NEW s \in Sids, Has(s),
           StopBegins(t, x, s), boot' = boot, count'.pids = count.pids,
           x.op # "clean", x.then = "port" => x.op = "create",
           \/ /\ tasks[t] = None /\ x.op # "restart"
              /\ \A u \in Tasks : tasks[u] # None /\ tasks[u].sid = s => tasks[u].op # "restart"
           \/ tasks[t] = x /\ x.sid = s
    PROVE  Tidy'
<1> DEFINE h == mem.handle[s]
           p == mem.sessions[s].pid
           m == [mem EXCEPT !.sock[s] = 0, !.watched = mem.watched \ {h}]
<1>1. mem \in Memory /\ tasks \in [Tasks -> Task \cup {None}]
  BY TypeParts DEF Typed
<1>2. m.sessions = mem.sessions /\ m.handle = mem.handle
  BY <1>1 DEF Memory
<1>3. m \in Memory
  <2>1. mem.watched \ {h} \in SUBSET Pids
    BY <1>1 DEF Memory
  <2> HIDE DEF h
  <2> QED BY <1>1, <2>1, Numbers DEF Memory
<1>4. s # 0 /\ mem.sessions[s] # None /\ h \in 0..MaxProcs /\ p \in 0..MaxProcs /\ h <= count.pids /\ p <= count.pids
      /\ (h # 0 => h = p)
  BY SessionParts DEF Has, IInv, OwnHandles, Tidy, SessionOK
<1>5. x.op = "restart" => tasks[t] = x /\ x # None /\ Renewing(s, x) /\ s # boot.sid
  <2>1. x # None
    BY NoneAssumption
  <2> QED BY <2>1 DEF Tidy, TaskOK, Fine
<1>6. /\ count'.pids = count.pids /\ count.pids \in Nat
  BY BoundAssumption DEF Typed, TypeOK
<1>7. ASSUME mem' = m, UNCHANGED rows, NEW pc \in {"reap", "kill"}, NEW q \in {h, p},
             tasks' = [tasks EXCEPT ![t] = [x EXCEPT !.pc = pc, !.sid = s, !.pid = q]],
             Quieter, ~GoingOn(p)
      PROVE  Tidy'
  <2> DEFINE y == [x EXCEPT !.pc = pc, !.sid = s, !.pid = q]
  <2>1. /\ y.sid = s /\ y.pc = pc /\ y.pid = q /\ y.op = x.op /\ y.then = x.then
    BY DEF Task
  <2>2. q \in 0..MaxProcs /\ q <= count.pids
    BY <1>4
  <2> HIDE DEF y
  <2>3. tasks'[t] = y /\ \A u \in Tasks \ {t} : tasks'[u] = tasks[u]
    BY <1>1, <1>7 DEF y
  <2>4. \A r \in Sids : Same(r)
    BY <1>2, <1>7 DEF Same, Tidy, SessionOK
  <2>5. Alone'
    <3>1. y.pc \notin Raised
      BY <2>1 DEF Raised
    <3>2. CASE tasks[t] = None
      <4>1. ASSUME NEW u \in Tasks \ {t}, tasks[u] # None PROVE Apart(y, tasks[u])
        BY <2>1, <3>1, <3>2, <4>1, <1>5, NoneAssumption DEF Apart
      <4> QED BY <1>7, <4>1, AloneKept DEF Tidy, y
    <3>3. CASE tasks[t] = x /\ x.sid = s
      BY <1>7, <2>1, <3>1, <3>3, NoneAssumption, AloneKept DEF Tidy, y
    <3> QED BY <3>2, <3>3
  <2>6. TaskOK(t)'
    <3>1. mem'.sessions[s] = mem.sessions[s]
      BY <1>2, <1>7
    <3>2. y.op = "restart" => y.sid # 0 /\ y.sid # boot'.sid /\ mem'.sessions[s].status = "starting"
      BY <1>4, <1>5, <2>1, <3>1 DEF Renewing
    <3> HIDE DEF p, h, m
    <3> QED BY <1>4, <1>6, <1>7, <2>1, <2>2, <2>3, <3>1, <3>2
            DEF TaskOK, Fine, Raised, Restarting, Cleaning, Renewing, Going, GoingOn, Runs, p
  <2> QED BY <1>6, <1>7, <2>3, <2>4, <2>5, <2>6, Ordinary
<1>8. ASSUME h = 0, ~Alive(p), UNCHANGED procs, Cleaned(m, {s}), tasks' = [tasks EXCEPT ![t] = AfterStop(x)]
      PROVE  Tidy'
  <2>1. Quieter /\ ~GoingOn(p)
    BY <1>4, <1>8, ProcsKept DEF Alive, Going, Runs, Pids
  <2>2. \A r \in Sids : Same(r)
    BY <1>2, <1>3, <1>8, <2>1, CleanedSame
  <2> DEFINE y == AfterStop(x)
  <2>3. y # None => y.sid = 0 /\ y.pc = "port" /\ y.pid = 0 /\ y.op = "create" /\ y.then = "end"
    BY DEF AfterStop, Task
  <2> HIDE DEF y
  <2>4. tasks'[t] = y /\ \A u \in Tasks \ {t} : tasks'[u] = tasks[u]
    BY <1>1, <1>8 DEF y
  <2>5. Alone'
    BY <1>8, <2>3, AloneKept DEF Tidy, y
  <2>6. TaskOK(t)'
    <3>1. 0 <= count'.pids
      BY <1>6
    <3>2. Has(0)' = FALSE /\ Live(0)' = FALSE
      BY DEF Has, Live
    <3> QED BY <2>3, <2>4, <3>1, <3>2 DEF TaskOK, Fine, Raised, Restarting, Cleaning
  <2> QED BY <1>6, <2>1, <2>2, <2>4, <2>5, <2>6, Ordinary
<1>9. \/ h # 0 /\ (procs' = IF Kernel(h) THEN Signalled(h, "stop") ELSE procs) /\ mem' = m /\ UNCHANGED rows
         /\ tasks' = [tasks EXCEPT ![t] = [x EXCEPT !.pc = "reap", !.sid = s, !.pid = h]]
      \/ procs' = Signalled(p, "stop") /\ mem' = m /\ UNCHANGED rows
         /\ tasks' = [tasks EXCEPT ![t] = [x EXCEPT !.pc = "kill", !.sid = s, !.pid = p]]
      \/ h = 0 /\ ~Alive(p) /\ UNCHANGED procs /\ Cleaned(m, {s}) /\ tasks' = [tasks EXCEPT ![t] = AfterStop(x)]
  BY DEF StopBegins
<1> HIDE DEF m
<1>10. ASSUME h # 0, procs' = IF Kernel(h) THEN Signalled(h, "stop") ELSE procs PROVE Quieter /\ ~GoingOn(p)
  BY <1>4, <1>10, SignalEnds DEF Marks
<1>11. ASSUME procs' = Signalled(p, "stop") PROVE Quieter /\ ~GoingOn(p)
  BY <1>4, <1>11, SignalEnds DEF Marks
<1> HIDE DEF h, p
<1> QED BY <1>7, <1>8, <1>9, <1>10, <1>11

\* A step that does something to one session, other than the one the loop is about
LEMMA Beside ==
    ASSUME Typed, Typed', IInv, Tidy, Quieter, NEW n \in Sids, \A s \in Sids \ {n} : Same(s),
           count.pids <= count'.pids, boot' = boot, n # boot.sid,
           NEW t \in Tasks,
           \A u \in Tasks \ {t} : /\ tasks'[u] = tasks[u]
                                  /\ tasks[u] # None /\ tasks[u].sid = n => TaskOK(u)',
           TaskOK(t)', Alone', SessionOK(n)', RowOK(n)', Placed(n)'
    PROVE  Tidy'
<1> DEFINE N == {n}
<1>0. /\ N \in SUBSET Sids /\ \A s \in Sids \ N : Same(s)
      /\ boot'.sid \in {0, boot.sid} \cup N /\ boot.sid \notin N
      /\ boot.phase = "up" => boot'.phase = "up"
      /\ \A s \in Sids : s = n \/ s \in Sids \ N
      /\ \A u \in Tasks : tasks[u] # None /\ tasks[u].sid \in N => tasks[u].sid = n
  OBVIOUS
<1> HIDE DEF N
<1>1. /\ \A s \in Sids \ N : SessionOK(s)' /\ RowOK(s)'
      /\ \A u \in Tasks : tasks'[u] = tasks[u] /\ (tasks[u] # None => tasks[u].sid \notin N) => TaskOK(u)'
  BY <1>0, Frame
<1>2. (\A s \in Sids \ N : Placed(s)') /\ BootOK'
  BY <1>0, FrameBoot
<1>3. ASSUME NEW u \in Tasks PROVE TaskOK(u)'
  <2>1. CASE u = t
    BY <2>1
  <2>2. CASE u # t /\ tasks[u] # None /\ tasks[u].sid = n
    BY <2>2
  <2>3. CASE u # t /\ ~(tasks[u] # None /\ tasks[u].sid = n)
    BY <1>0, <1>1, <2>3
  <2> QED BY <2>1, <2>2, <2>3
<1>4. ASSUME NEW s \in Sids PROVE SessionOK(s)' /\ RowOK(s)' /\ Placed(s)'
  BY <1>0, <1>1, <1>2
<1> QED BY <1>2, <1>3, <1>4 DEF Tidy

\* The row of a session that the loop is not about
LEMMA RowPlaced ==
    ASSUME Typed, IInv, Tidy, NEW s \in Sids, Has(s), s # boot.sid, rows[s] # None
    PROVE  \/ rows[s].status = "active" /\ rows[s].mine
           \/ rows[s].status = "terminated"
<1>1. rows[s] \in Row /\ boot.phase \in {"off", "listening", "reattaching", "up"}
  BY TypeParts DEF Typed, Boot
<1>2. ~Old(s) /\ (rows[s].status = "orphaned" => ~rows[s].mine)
  BY DEF IInv, OldIsUntouched, Has
<1>3. Placed(s)
  BY DEF Tidy
<1>4. boot.phase = "up" => s \notin boot.left
  BY DEF Tidy, BootOK
<1> QED BY <1>1, <1>2, <1>3, <1>4 DEF Old, Placed, Row

\* Requests that come in
LEMMA AskedTidy ==
    ASSUME Typed, Typed', IInv, Tidy, NEW t \in Tasks, Asked(t), "raced" \notin past'
    PROVE  Tidy'
<1>1. mem \in Memory /\ tasks \in [Tasks -> Task \cup {None}] /\ rows \in [Sids -> Row \cup {None}]
  BY TypeParts DEF Typed
<1>2. count.pids \in Nat /\ count.pids <= count.pids /\ 0 <= count.pids
  BY BoundAssumption DEF Typed, TypeOK
<1>3. Asks => count'.pids = count.pids
  BY DEF Asks, Typed, TypeOK
<1>4. ASSUME NEW S, Notes(S) PROVE "raced" \notin S
  BY <1>4 DEF Notes
<1>5. ASSUME NEW s, NEW op, NEW S, NEW T, Notes(S \cup RacedIf(Overlaps(s, op)) \cup T) PROVE ~Overlaps(s, op)
  BY <1>4, <1>5 DEF RacedIf
<1>6. ASSUME NEW s \in Sids, Stop(t, s) PROVE Tidy'
  <2> DEFINE x == NewTask("stop", "reap", s, 0, mem.sessions[s].file, mem.sessions[s].name)
  <2>1. /\ Has(s) /\ StopBegins(t, x, s) /\ tasks[t] = None /\ Asks /\ boot' = boot
        /\ Notes({} \cup RacedIf(Overlaps(s, "stop")) \cup {})
    BY <1>6 DEF Stop, Idle
  <2>2. x \in Task
    <3>1. mem.sessions[s].file \in Files /\ mem.sessions[s].name \in Names
      BY <2>1, SessionParts
    <3> QED BY <3>1, Numbers, <1>6 DEF NewTask, Task, AllRequests, Stop
  <2>3. x.op = "stop" /\ x.then = "end"
    BY DEF NewTask
  <2> HIDE DEF x
  <2>4. ~Overlaps(s, "stop")
    BY <1>5, <2>1
  <2>5. \A u \in Tasks : tasks[u] # None /\ tasks[u].sid = s => tasks[u].op # "restart"
    BY <2>4 DEF Overlaps
  <2> QED BY <1>3, <2>1, <2>2, <2>3, <2>5, StopBeginsTidy
<1>7. ASSUME NEW s \in Sids, CleanDead(t, s) PROVE Tidy'
  <2> DEFINE x == NewTask("clean", "clean check", s, rows[s].pid, rows[s].file, rows[s].name)
  <2>1. /\ Asks /\ UNCHANGED <<procs, mem, boot>> /\ tasks[t] = None /\ rows[s] # None /\ ~Live(s)
        /\ rows[s].status # "active" /\ boot.phase = "up"
        /\ \/ tasks' = [tasks EXCEPT ![t] = x] /\ UNCHANGED rows
           \/ rows' = [rows EXCEPT ![s] = None] /\ UNCHANGED tasks
    BY <1>4, <1>7 DEF CleanDead, DeadRows, Idle
  <2>2. /\ x.sid = s /\ x.pc = "clean check" /\ x.op = "clean" /\ x.then = "end" /\ x.pid = rows[s].pid
    BY DEF NewTask
  <2> HIDE DEF x
  <2>3. Quieter /\ \A r \in Sids : Same(r)
    <3>1. mem.sessions[s] # None => mem.sessions[s].status # "ready"
      BY <2>1 DEF Live, Has, Sids
    <3> QED BY <1>1, <2>1, <3>1, ProcsKept DEF Same
  <2>4. CASE tasks' = [tasks EXCEPT ![t] = x]
    <3>1. tasks'[t] = x /\ \A u \in Tasks \ {t} : tasks'[u] = tasks[u]
      BY <1>1, <2>4
    <3>2. TaskOK(t)'
      <4>1. rows[s].pid <= count.pids
        BY <2>1 DEF Tidy, RowOK
      <4>2. ~Live(s)'
        BY <2>1 DEF Live, Has
      <4> QED BY <1>3, <2>1, <2>2, <3>1, <4>1, <4>2 DEF TaskOK, Fine, Raised, Restarting, Cleaning, Live, Has
    <3>3. ASSUME NEW u \in Tasks \ {t}, tasks[u] # None PROVE Apart(x, tasks[u])
      BY <2>2 DEF Apart, Raised
    <3>4. Alone'
      BY <2>4, <3>3, AloneKept DEF Tidy
    <3> QED BY <1>2, <1>3, <2>1, <2>3, <3>1, <3>2, <3>4, Ordinary
  <2>5. CASE UNCHANGED tasks
    <3>1. Alone'
      BY <2>5 DEF Tidy, Alone, Apart
    <3> QED BY <1>2, <1>3, <2>1, <2>3, <2>5, <3>1, Ordinary
  <2> QED BY <2>1, <2>4, <2>5
<1>11. ASSUME NEW s \in Sids, AutoCheck(t, s) PROVE Tidy'
  <2> DEFINE x == NewTask("clean", "clean delete", s, rows[s].pid, rows[s].file, rows[s].name)
  <2>1. /\ Asks /\ UNCHANGED <<mem, rows, boot>> /\ tasks[t] = None /\ rows[s] # None /\ ~Live(s)
        /\ boot.phase = "up" /\ tasks' = [tasks EXCEPT ![t] = x]
        /\ UNCHANGED procs \/ procs' = Missed({rows[s].pid})
    BY <1>4, <1>11 DEF AutoCheck, DeadRows, Idle
  <2>2. /\ x.sid = s /\ x.pc = "clean delete" /\ x.op = "clean" /\ x.then = "end" /\ x.pid = rows[s].pid
    BY DEF NewTask
  <2> HIDE DEF x
  <2>3. Quieter /\ \A r \in Sids : Same(r)
    <3>1. Quieter
      BY <2>1, ProcsKept, MissedEnds
    <3> QED BY <2>1, <3>1 DEF Same
  <2>4. tasks'[t] = x /\ \A u \in Tasks \ {t} : tasks'[u] = tasks[u]
    BY <1>1, <2>1
  <2>5. TaskOK(t)'
    <3>1. rows[s].pid <= count.pids
      BY <2>1 DEF Tidy, RowOK
    <3>2. ~Live(s)'
      BY <2>1 DEF Live, Has
    <3> QED BY <1>3, <2>1, <2>2, <2>4, <3>1, <3>2 DEF TaskOK, Fine, Raised, Restarting, Cleaning, Live, Has
  <2>6. ASSUME NEW u \in Tasks \ {t}, tasks[u] # None PROVE Apart(x, tasks[u])
    BY <2>2 DEF Apart, Raised
  <2>7. Alone'
    BY <2>1, <2>6, AloneKept DEF Tidy
  <2> QED BY <1>2, <1>3, <2>1, <2>3, <2>4, <2>5, <2>7, Ordinary
<1>8. ASSUME NEW f \in Files, NEW n \in Names, StartKernel(t, f, n) PROVE Tidy'
  <2> DEFINE x == NewTask("start", "port", 0, 0, f, n)
  <2>1. Asks /\ UNCHANGED <<procs, mem, rows, boot>> /\ tasks' = [tasks EXCEPT ![t] = x]
    BY <1>8 DEF StartKernel
  <2>2. x.sid = 0 /\ x.pc = "port" /\ x.op = "start" /\ x.then = "end" /\ x.pid = 0
    BY DEF NewTask
  <2> HIDE DEF x
  <2>3. tasks'[t] = x /\ \A u \in Tasks \ {t} : tasks'[u] = tasks[u]
    BY <1>1, <2>1
  <2>4. TaskOK(t)'
    BY <1>2, <1>3, <2>1, <2>2, <2>3 DEF TaskOK, Fine, Raised, Restarting, Cleaning, Has, Live
  <2>5. Alone'
    BY <2>1, <2>2, AloneKept DEF Tidy
  <2>6. Quieter /\ \A r \in Sids : Same(r)
    BY <2>1, ProcsKept DEF Same
  <2> QED BY <1>2, <1>3, <2>1, <2>3, <2>4, <2>5, <2>6, Ordinary
<1>9. ASSUME NEW f \in Files, NEW n \in Names, NEW s \in 0..MaxSessions, GetOrCreate(t, f, n, s) PROVE Tidy'
  <2> DEFINE x == NewTask("create", "port", 0, 0, f, n)
             y == [x EXCEPT !.pc = "poll", !.sid = s]
             z == [x EXCEPT !.then = "port"]
             mapped == [mem EXCEPT !.files[f] = s]
  <2>1. /\ x.sid = 0 /\ x.pc = "port" /\ x.op = "create" /\ x.then = "end" /\ x.pid = 0
        /\ y.sid = s /\ y.pc = "poll" /\ y.op = "create" /\ y.then = "end" /\ y.pid = 0
        /\ z \in Task /\ z.op = "create" /\ z.then = "port"
    BY Numbers DEF NewTask, Task, AllRequests
  <2>2. mapped.sessions = mem.sessions /\ mapped.handle = mem.handle
    BY <1>1 DEF Memory
  <2>3. /\ Asks /\ boot' = boot /\ tasks[t] = None /\ Notes(Early \cup RacedIf(Overlaps(s, "create")) \cup {})
        /\ \/ tasks' = [tasks EXCEPT ![t] = x] /\ UNCHANGED <<procs, mem, rows>>
           \/ Has(s) /\ mem' = mapped /\ tasks' = [tasks EXCEPT ![t] = y] /\ UNCHANGED <<procs, rows>>
           \/ Has(s) /\ StopBegins(t, z, s)
           \/ mem' = mapped /\ UNCHANGED <<procs, rows, tasks>>
    BY <1>9 DEF GetOrCreate, Idle, Live
  <2> HIDE DEF x, y, z, mapped
  <2>4. \A u \in Tasks : tasks[u] # None /\ tasks[u].sid = s => tasks[u].op # "restart"
    <3>1. ~Overlaps(s, "create")
      BY <1>5, <2>3
    <3> QED BY <3>1 DEF Overlaps
  <2>5. CASE Has(s) /\ StopBegins(t, z, s)
    <3>1. s \in Sids
      BY <2>5, Numbers DEF Has
    <3> QED BY <1>3, <2>1, <2>3, <2>4, <2>5, <3>1, StopBeginsTidy
  <2>6. CASE UNCHANGED <<procs, rows>> /\ mem' \in {mem, mapped}
    <3>1. Quieter /\ \A r \in Sids : Same(r)
      BY <2>2, <2>6, ProcsKept DEF Same, Tidy, SessionOK
    <3>2. CASE \E k \in {x, y} : tasks' = [tasks EXCEPT ![t] = k]
      <4>1. PICK k \in {x, y} : tasks' = [tasks EXCEPT ![t] = k]
        BY <3>2
      <4>2. tasks'[t] = k /\ \A u \in Tasks \ {t} : tasks'[u] = tasks[u]
        BY <1>1, <4>1
      <4>3. TaskOK(t)'
        BY <1>2, <1>3, <2>1, <2>3, <4>2 DEF TaskOK, Fine, Raised, Restarting, Cleaning
      <4>4. ASSUME NEW u \in Tasks \ {t}, tasks[u] # None PROVE Apart(k, tasks[u])
        BY <2>1, <2>4, <4>4 DEF Apart, Raised
      <4>5. Alone'
        BY <4>1, <4>4, AloneKept DEF Tidy
      <4> QED BY <1>2, <1>3, <2>3, <3>1, <4>2, <4>3, <4>5, Ordinary
    <3>3. CASE UNCHANGED tasks
      <4>1. Alone'
        BY <3>3 DEF Tidy, Alone, Apart
      <4> QED BY <1>2, <1>3, <2>3, <3>1, <3>3, <4>1, Ordinary
    <3> QED BY <2>3, <2>5, <3>2, <3>3
  <2> QED BY <2>3, <2>5, <2>6
<1>10. ASSUME NEW s \in Sids, Restart(t, s) PROVE Tidy'
  <2> DEFINE h == mem.handle[s]
             p == mem.sessions[s].pid
             pc == IF h # 0 THEN "restart reap" ELSE IF p # 0 THEN "restart verify" ELSE "port"
             q == IF h # 0 THEN h ELSE p
             x == NewTask("restart", pc, s, q, mem.sessions[s].file, mem.sessions[s].name)
  <2>1. /\ Has(s) /\ Asks /\ UNCHANGED <<rows, boot>> /\ tasks[t] = None
        /\ mem' = [mem EXCEPT !.sessions[s].status = "starting", !.sock[s] = 0, !.watched = mem.watched \ {h}]
        /\ procs' = IF Kernel(h) THEN Signalled(h, "restart") ELSE procs
        /\ tasks' = [tasks EXCEPT ![t] = x]
        /\ ~Overlaps(s, "restart")
    <3>1. Notes({} \cup RacedIf(Overlaps(s, "restart")) \cup IF Live(s) THEN {} ELSE {"several"})
      BY <1>10 DEF Restart
    <3>2. ~Overlaps(s, "restart")
      BY <1>5, <3>1
    <3> QED BY <1>10, <3>2 DEF Restart, Idle
  <2>2. x.sid = s /\ x.pc = pc /\ x.op = "restart" /\ x.then = "end" /\ x.pid = q
    BY DEF NewTask
  <2>3. /\ s # boot.sid /\ s # 0
        /\ \A u \in Tasks : tasks[u] # None => tasks[u].sid # s
    <3>1. /\ ~\E u \in Tasks : tasks[u] # None /\ tasks[u].sid = s /\ "restart" \in {"restart", tasks[u].op}
          /\ boot.sid # s
      BY <2>1, Zenon DEF Overlaps
    <3>2. s # 0
      BY DEF Sids
    <3> QED BY <3>1, <3>2
  <2>4. h \in 0..MaxProcs /\ p \in 0..MaxProcs /\ p <= count.pids /\ (h # 0 => h = p) /\ mem.sessions[s] \in Session
    BY <2>1, SessionParts DEF Tidy, SessionOK
  <2>5. Quieter /\ ~GoingOn(h)
    BY <2>1, <2>4, SignalEnds DEF Marks
  <2>6. /\ \A r \in Sids \ {s} : mem'.sessions[r] = mem.sessions[r]
        /\ mem'.handle = mem.handle /\ mem'.sessions[s] # None
        /\ mem'.sessions[s].pid = p /\ mem'.sessions[s].status = "starting"
    <3>1. mem' = [mem EXCEPT !.sessions[s] = [mem.sessions[s] EXCEPT !.status = "starting"],
                             !.sock[s] = 0, !.watched = mem.watched \ {h}]
      BY <2>1
    <3>2. [mem.sessions[s] EXCEPT !.status = "starting"] \in Session
      BY <2>4 DEF Session
    <3>3. mem'.sessions[s] = [mem.sessions[s] EXCEPT !.status = "starting"]
      BY <1>1, <3>1 DEF Memory
    <3>4. mem'.sessions[s] # None
      BY <3>2, <3>3, NoneAssumption
    <3>5. mem'.sessions[s].pid = p /\ mem'.sessions[s].status = "starting"
      BY <2>4, <3>3 DEF Session
    <3>6. (\A r \in Sids \ {s} : mem'.sessions[r] = mem.sessions[r]) /\ mem'.handle = mem.handle
      BY <1>1, <3>1 DEF Memory
    <3> QED BY <3>4, <3>5, <3>6
  <2>7. \A r \in Sids \ {s} : Same(r)
    BY <2>1, <2>6 DEF Same, Tidy, SessionOK
  <2>8. rows[s] # None =>
          /\ rows[s].pid \in Pids /\ rows[s].pid <= count.pids
          /\ GoingOn(rows[s].pid) => p = rows[s].pid
          /\ rows[s].status = "terminated" => ~GoingOn(rows[s].pid)
    <3> SUFFICES ASSUME rows[s] # None
                 PROVE  /\ rows[s].pid \in Pids /\ rows[s].pid <= count.pids
                        /\ GoingOn(rows[s].pid) => p = rows[s].pid
                        /\ rows[s].status = "terminated" => ~GoingOn(rows[s].pid)
      OBVIOUS
    <3>1. rows[s].pid \in Pids /\ rows[s].pid <= count.pids
      BY <1>1 DEF Row, Tidy, RowOK
    <3>2. GoingOn(rows[s].pid) => Going(rows[s].pid)
      BY <2>5, <3>1 DEF Quieter
    <3>3. \/ rows[s].status = "active" /\ rows[s].mine
          \/ rows[s].status = "terminated"
      BY <2>1, <2>3, RowPlaced
    <3> QED BY <3>1, <3>2, <3>3 DEF Tidy, RowOK
  <2>9. SessionOK(s)' /\ RowOK(s)' /\ Placed(s)'
    <3>1. SessionOK(s)'
      BY <1>3, <2>1, <2>4, <2>6 DEF SessionOK
    <3>2. RowOK(s)'
      BY <1>3, <2>1, <2>3, <2>6, <2>8 DEF RowOK, Has, Going, GoingOn, Runs
    <3>3. Placed(s)'
      BY <2>1 DEF Tidy, Placed
    <3> QED BY <3>1, <3>2, <3>3
  <2>10. q \in {h, p} /\ q <= count.pids
    BY <2>4
  <2>11. /\ mem'.sessions[s].status = "starting"
         /\ x.pc \in {"restart verify", "restart kill"} => mem'.handle[s] = 0
         /\ x.pc = "restart verify" => x.pid = mem'.sessions[s].pid
         /\ x.pc \in {"restart reap", "restart kill", "port"} /\ rows'[s] # None => ~GoingOn(rows'[s].pid)
    <3>1. pc \in {"restart verify", "restart kill"} => h = 0 /\ q = p
      OBVIOUS
    <3>2. pc \in {"restart reap", "restart kill", "port"} /\ rows[s] # None => ~GoingOn(rows[s].pid)
      <4>1. pc = "restart reap" => h # 0
        OBVIOUS
      <4>2. pc = "port" => p = 0
        OBVIOUS
      <4>3. pc # "restart kill"
        OBVIOUS
      <4> QED BY <2>4, <2>5, <2>8, <4>1, <4>2, <4>3 DEF Pids
    <3> HIDE DEF x, pc, q, h, p
    <3> QED BY <2>1, <2>2, <2>6, <3>1, <3>2 DEF h
  <2> HIDE DEF x
  <2>12. tasks'[t] = x /\ \A u \in Tasks \ {t} : tasks'[u] = tasks[u]
    BY <1>1, <2>1
  <2>13. TaskOK(t)'
    <3>1. x.pc \in {"restart reap", "restart verify", "port"}
      BY <2>2
    <3> HIDE DEF pc, q, p, h
    <3> QED BY <1>3, <2>1, <2>2, <2>3, <2>10, <2>11, <2>12, <3>1
            DEF TaskOK, Fine, Raised, Restarting, Cleaning, Renewing, Going, GoingOn, Runs
  <2>14. Alone'
    <3>1. ASSUME NEW u \in Tasks \ {t}, tasks[u] # None PROVE Apart(x, tasks[u])
      BY <2>2, <2>3, <3>1 DEF Apart
    <3> QED BY <2>1, <3>1, AloneKept DEF Tidy
  <2> QED BY <1>2, <1>3, <2>1, <2>3, <2>5, <2>7, <2>9, <2>12, <2>13, <2>14, Beside
<1> QED BY <1>6, <1>7, <1>8, <1>9, <1>10, <1>11 DEF Asked

\* A request that ends leaves the others right.
LEMMA EndedOK ==
    ASSUME Typed, Alone, NEW t \in Tasks, Ends(t)
    PROVE  TaskOK(t)' /\ Alone' /\ \A u \in Tasks \ {t} : tasks'[u] = tasks[u]
<1>1. tasks' = [tasks EXCEPT ![t] = None] /\ tasks \in [Tasks -> Task \cup {None}]
  BY TypeParts DEF Ends, Typed
<1>2. Alone'
  BY <1>1, AloneKept
<1> QED BY <1>1, <1>2 DEF TaskOK

\* The process of a session, the other requests about a session that is restarted
LEMMA RestartsAlone ==
    ASSUME Typed, Tidy, NEW t \in Tasks, tasks[t] # None, tasks[t].op = "restart", NEW n, tasks[t].sid = n, n # 0
    PROVE  \A u \in Tasks \ {t} : tasks[u] # None /\ tasks[u].sid = n =>
              tasks[u].op = "clean" /\ tasks[u].pc \in Cleaning /\ ~Has(n)
<1> SUFFICES ASSUME NEW u \in Tasks \ {t}, tasks[u] # None, tasks[u].sid = n
             PROVE  tasks[u].op = "clean" /\ tasks[u].pc \in Cleaning /\ ~Has(n)
  OBVIOUS
<1>1. tasks[u].op = "clean"
  BY DEF Tidy, Alone, Apart
<1>2. Fine(tasks[u]) /\ Fine(tasks[t])
  BY DEF Tidy, TaskOK
<1>3. tasks[u].pc \in Cleaning /\ ~Live(n)
  BY <1>1, <1>2 DEF Fine
<1>4. Has(n) => mem.sessions[n].status = "starting"
  BY <1>2 DEF Fine, Renewing
<1> QED BY <1>1, <1>3, <1>4 DEF Live

\* A step of a request that stops a session, or waits for one
LEMMA StopEndsTidy ==
    ASSUME Typed, Typed', IInv, Tidy, NEW t \in Tasks, StopEnds(t) \/ Polled(t)
    PROVE  Tidy'
<1>1. mem \in Memory /\ tasks \in [Tasks -> Task \cup {None}] /\ mem.handle \in [Sids -> 0..MaxProcs]
      /\ mem.sessions \in [Sids -> Session \cup {None}]
  BY TypeParts DEF Typed, Memory
<1>2. count.pids \in Nat /\ count.pids <= count.pids /\ 0 <= count.pids
  BY BoundAssumption DEF Typed, TypeOK
<1>3. tasks[t] # None /\ tasks[t] \in Task /\ Fine(tasks[t])
  BY <1>1 DEF StopEnds, Polled, Tidy, TaskOK
<1>4. CASE StopEnds(t)
  <2> DEFINE n == tasks[t].sid
             m == IF tasks[t].pc = "reap" THEN [mem EXCEPT !.handle[n] = 0] ELSE mem
             x == AfterStop(tasks[t])
  <2>1. /\ tasks[t].pc \in {"reap", "kill"} /\ Cleaned(m, {n}) /\ UNCHANGED <<boot, count>>
        /\ tasks' = [tasks EXCEPT ![t] = x]
        /\ procs' = IF tasks[t].pc = "kill" THEN Killed(tasks[t].pid, "stop") ELSE procs
    BY <1>4 DEF StopEnds
  <2>2. n \in Sids /\ n # 0
    BY <1>3, <2>1, Numbers DEF IInv, Fresh, Task
  <2>3. /\ m \in Memory /\ m.sessions = mem.sessions
        /\ \A r \in Sids : m.handle[r] \in {0, mem.handle[r]}
    <3>1. CASE tasks[t].pc = "reap"
      <4> HIDE DEF n
      <4> QED BY <1>1, <2>2, <3>1, Numbers DEF Memory
    <3>2. CASE tasks[t].pc # "reap"
      BY <1>1, <3>2
    <3> QED BY <3>1, <3>2
  <2>4. Quieter
    <3>1. tasks[t].pid \in 0..MaxProcs
      BY <1>3 DEF Task
    <3> QED BY <2>1, <3>1, SignalEnds, ProcsKept DEF Marks
  <2>5. mem.sessions[n] # None => ~GoingOn(mem.sessions[n].pid)
    <3> SUFFICES ASSUME mem.sessions[n] # None PROVE ~GoingOn(mem.sessions[n].pid)
      OBVIOUS
    <3>1. ~Going(mem.sessions[n].pid) /\ mem.sessions[n].pid <= count.pids
      BY <1>3, <2>1, <2>2 DEF Fine, Has, Tidy, SessionOK
    <3> QED BY <3>1, <2>4 DEF Quieter, GoingOn
  <2> HIDE DEF m
  <2>6. \A r \in Sids : Same(r)
    BY <2>1, <2>2, <2>3, <2>5, CleanedSame
  <2>7. x # None => x.sid = 0 /\ x.pc = "port" /\ x.pid = 0 /\ x.op = "create" /\ x.then = "end"
    BY <1>3 DEF AfterStop, Task, Fine
  <2> HIDE DEF x
  <2>8. tasks'[t] = x /\ \A u \in Tasks \ {t} : tasks'[u] = tasks[u]
    BY <1>1, <2>1
  <2>9. Alone'
    BY <2>1, <2>7, AloneKept DEF Tidy
  <2>10. TaskOK(t)'
    <3>1. 0 <= count'.pids
      BY <1>2, <2>1
    <3>2. Has(0)' = FALSE /\ Live(0)' = FALSE
      BY DEF Has, Live
    <3> QED BY <2>7, <2>8, <3>1, <3>2 DEF TaskOK, Fine, Raised, Restarting, Cleaning
  <2> QED BY <1>2, <2>1, <2>4, <2>6, <2>8, <2>9, <2>10, Ordinary
<1>5. CASE Polled(t)
  <2> DEFINE x == [tasks[t] EXCEPT !.pc = "port", !.sid = 0]
  <2>1. /\ tasks[t].pc = "poll" /\ UNCHANGED <<procs, mem, rows, boot, count>>
        /\ Ends(t) \/ tasks' = [tasks EXCEPT ![t] = x]
    BY <1>1, <1>3, <1>5 DEF Polled
  <2>2. x.sid = 0 /\ x.pc = "port" /\ x.op = tasks[t].op /\ x.then = tasks[t].then /\ x.pid = tasks[t].pid
    BY <1>3 DEF Task
  <2> HIDE DEF x
  <2>3. Quieter /\ \A r \in Sids : Same(r)
    BY <2>1, ProcsKept DEF Same, Tidy, SessionOK
  <2>4. CASE Ends(t)
    BY <1>2, <2>1, <2>3, <2>4, EndedOK, Ordinary DEF Tidy
  <2>5. CASE tasks' = [tasks EXCEPT ![t] = x]
    <3>1. tasks'[t] = x /\ \A u \in Tasks \ {t} : tasks'[u] = tasks[u]
      BY <1>1, <2>5
    <3>2. Alone'
      BY <2>2, <2>5, AloneKept DEF Tidy
    <3>3. x.op # "restart" /\ x.op # "clean" /\ x.pid <= count.pids /\ (x.then = "port" => x.op = "create")
      <4>1. tasks[t].op # "clean"
        BY <1>3, <2>1 DEF Fine, Cleaning
      <4> QED BY <1>3, <2>1, <2>2, <4>1 DEF Fine, Raised
    <3>4. TaskOK(t)'
      <4>1. Has(0)' = FALSE /\ Live(0)' = FALSE
        BY DEF Has, Live
      <4> QED BY <2>1, <2>2, <3>1, <3>3, <4>1 DEF TaskOK, Fine, Raised, Restarting, Cleaning
    <3> QED BY <1>2, <2>1, <2>3, <3>1, <3>2, <3>4, Ordinary
  <2> QED BY <2>1, <2>4, <2>5
<1> QED BY <1>4, <1>5
\* The spawn of a new session's process
LEMMA SpawnNewTidy ==
    ASSUME Typed, Typed', IInv, Tidy, NEW t \in Tasks, SpawnNew(t),
           NEW k, tasks[t] = k, NEW p, p = count.pids + 1, NEW s, s = count.sids + 1
    PROVE  Tidy'
<1> SUFFICES ASSUME NEW x, x = [k EXCEPT !.pc = "boot", !.sid = s, !.pid = p],
                    NEW new, new = [status |-> "starting", pid |-> p, file |-> k.file, name |-> k.name, quiet |-> FALSE]
             PROVE  Tidy'
  OBVIOUS
<1>1. /\ mem \in Memory /\ tasks \in [Tasks -> Task \cup {None}] /\ mem.handle \in [Sids -> 0..MaxProcs]
      /\ mem.sessions \in [Sids -> Session \cup {None}] /\ rows \in [Sids -> Row \cup {None}]
      /\ procs \in [Pids -> Proc]
  BY TypeParts DEF Typed, Memory
<1>2. count.pids \in Nat /\ count.sids \in Nat
  BY BoundAssumption DEF Typed, TypeOK
<1>3. /\ k # None /\ k.pc = "port" /\ k.op # "restart" /\ p \in Pids /\ s \in Sids
      /\ procs' = [procs EXCEPT ![p] = [st |-> "booting", file |-> k.file, marks |-> {}]]
      /\ mem' = [mem EXCEPT !.sessions[s] = new, !.handle[s] = p, !.sock[s] = p,
                            !.files[k.file] = s, !.watched = mem.watched \cup {p}]
      /\ tasks' = [tasks EXCEPT ![t].pc = "boot", ![t].sid = s, ![t].pid = p]
      /\ count' = [count EXCEPT !.pids = p, !.sids = s]
      /\ boot' = boot /\ rows' = rows
  BY DEF SpawnNew
<1>4. p \in Nat /\ count.pids <= p /\ ~(p <= count.pids) /\ p # 0 /\ p <= p /\ s # 0 /\ s > count.sids /\ ~(s <= count.sids)
  BY <1>2, <1>3 DEF Pids, Sids
<1>5. count'.pids = p
  BY <1>3 DEF Typed, TypeOK
<1>6. k \in Task /\ Fine(k) /\ k.op # "clean"
  BY <1>1, <1>3 DEF Tidy, TaskOK, Fine, Cleaning
<1>7. Quieter
  BY <1>1, <1>3, <1>4 DEF Quieter, Going, GoingOn, Runs
<1>8. new \in Session /\ new # None /\ new.status = "starting" /\ new.pid = p
  <2>1. new \in Session
    BY <1>3, <1>6, Numbers DEF Session, Task
  <2>2. new # None
    BY <2>1, NoneAssumption
  <2> QED BY <2>1, <2>2
<1>9. /\ mem'.sessions[s] = new /\ mem'.handle[s] = p
      /\ \A r \in Sids \ {s} : mem'.sessions[r] = mem.sessions[r] /\ mem'.handle[r] = mem.handle[r]
  BY <1>1, <1>3 DEF Memory
<1>10. x.pc = "boot" /\ x.sid = s /\ x.pid = p /\ x.op = k.op /\ x.then = k.then
  BY <1>6 DEF Task
<1>11. /\ rows[s] = None /\ s # boot.sid
       /\ \A u \in Tasks : tasks[u] # None => tasks[u].sid # s
  BY <1>3, <1>4 DEF IInv, Fresh
<1>12. \A r \in Sids \ {s} : Same(r)
  BY <1>3, <1>9 DEF Same, Tidy, SessionOK
<1>13. tasks' = [tasks EXCEPT ![t] = x]
  BY <1>1, <1>3, <1>6 DEF Task
<1>14. tasks'[t] = x /\ \A u \in Tasks \ {t} : tasks'[u] = tasks[u]
  BY <1>1, <1>13
<1>15. SessionOK(s)' /\ RowOK(s)' /\ Placed(s)'
  BY <1>3, <1>4, <1>5, <1>8, <1>9, <1>11 DEF SessionOK, RowOK, Placed
<1>16. TaskOK(t)'
  <2>1. mem'.sessions[s].status = "starting" /\ mem'.sessions[s].pid = p /\ Has(s)'
    BY <1>4, <1>8, <1>9 DEF Has
  <2>2. x.op # "restart" /\ x.op # "clean" /\ (x.then = "port" => x.op = "create")
    BY <1>3, <1>6, <1>10 DEF Fine
  <2>3. boot' = boot /\ p <= count'.pids /\ tasks'[t] = x
    BY <1>3, <1>4, <1>5, <1>14
  <2> QED BY <1>4, <1>10, <1>11, <2>1, <2>2, <2>3
         DEF TaskOK, Fine, Raised, Restarting, Cleaning, Raising, Renewing, Going, Runs
<1>17. Alone'
  <2>1. ASSUME NEW u \in Tasks \ {t}, tasks[u] # None PROVE Apart(x, tasks[u])
    BY <1>10, <1>11, <2>1 DEF Apart
  <2> QED BY <1>13, <2>1, AloneKept DEF Tidy
<1> QED BY <1>3, <1>4, <1>5, <1>7, <1>11, <1>12, <1>14, <1>15, <1>16, <1>17, Beside

\* ... and of another for a session that is restarted
LEMMA SpawnAgainTidy ==
    ASSUME Typed, Typed', IInv, Tidy, NEW t \in Tasks, SpawnAgain(t),
           NEW k, tasks[t] = k, NEW n, k.sid = n, NEW p, p = count.pids + 1
    PROVE  Tidy'
<1> SUFFICES ASSUME NEW x, x = [k EXCEPT !.pc = "boot", !.pid = p],
                    NEW held, held = [mem EXCEPT !.handle[n] = p, !.watched = mem.watched \cup {p}]
             PROVE  Tidy'
  OBVIOUS
<1>1. /\ mem \in Memory /\ tasks \in [Tasks -> Task \cup {None}] /\ mem.handle \in [Sids -> 0..MaxProcs]
      /\ mem.sessions \in [Sids -> Session \cup {None}] /\ rows \in [Sids -> Row \cup {None}]
      /\ procs \in [Pids -> Proc]
  BY TypeParts DEF Typed, Memory
<1>2. count.pids \in Nat
  BY BoundAssumption DEF Typed, TypeOK
<1>3. /\ k # None /\ k.pc = "port" /\ k.op = "restart" /\ p \in Pids
      /\ procs' = [procs EXCEPT ![p] = [st |-> "booting", file |-> k.file, marks |-> {}]]
      /\ \/ /\ Has(n) /\ tasks' = [tasks EXCEPT ![t].pc = "boot", ![t].pid = p]
            /\ mem' = [held EXCEPT !.sessions[n].pid = p, !.sessions[n].quiet = FALSE, !.sock[n] = p]
         \/ ~Has(n) /\ mem' = held /\ Ends(t)
      /\ count' = [count EXCEPT !.pids = p]
      /\ boot' = boot /\ rows' = rows
  BY DEF SpawnAgain
<1>4. p \in Nat /\ count.pids <= p /\ ~(p <= count.pids) /\ p # 0 /\ p <= p
  BY <1>2, <1>3 DEF Pids
<1>5. count'.pids = p
  BY <1>3 DEF Typed, TypeOK
<1>6. k \in Task /\ Fine(k) /\ k.op # "clean"
  BY <1>1, <1>3 DEF Tidy, TaskOK, Fine, Cleaning
<1>7. Quieter
  BY <1>1, <1>3, <1>4 DEF Quieter, Going, GoingOn, Runs
<1>8. n \in Sids /\ n # 0 /\ n # boot.sid
  <2>1. n \in 0..MaxSessions
    BY <1>6 DEF Task
  <2> QED BY <1>3, <1>6, <2>1, Numbers DEF Fine
<1>9. \A u \in Tasks \ {t} : tasks[u] # None /\ tasks[u].sid = n =>
            tasks[u].op = "clean" /\ tasks[u].pc \in Cleaning /\ ~Has(n)
  BY <1>3, <1>8, RestartsAlone
<1>10. rows[n] # None => /\ rows[n].pid \in Pids /\ rows[n].pid <= count.pids
                         /\ rows[n].status = "terminated" => ~Going(rows[n].pid)
                         /\ ~Has(n) /\ rows[n].status = "active" /\ rows[n].mine => ~Going(rows[n].pid)
  BY <1>1, <1>8 DEF Tidy, RowOK, Row
<1>11. \A q \in Pids : q <= count.pids => q <= p
  BY <1>2, <1>4 DEF Pids
<1>12. x.pc = "boot" /\ x.sid = n /\ x.pid = p /\ x.op = k.op /\ x.then = k.then
  BY <1>6 DEF Task
<1>13. held.sessions = mem.sessions /\ held.handle = [mem.handle EXCEPT ![n] = p]
       /\ DOMAIN held = {"sessions", "handle", "sock", "files", "watched"}
  BY <1>1 DEF Memory
<1>14. /\ \A r \in Sids \ {n} : mem'.sessions[r] = mem.sessions[r] /\ mem'.handle[r] = mem.handle[r]
       /\ ~Has(n) => mem'.sessions[n] = mem.sessions[n]
       /\ Has(n) => /\ mem'.sessions[n] # None /\ mem'.sessions[n].pid = p /\ mem'.handle[n] = p
                    /\ mem'.sessions[n].status = mem.sessions[n].status
  <2>1. CASE Has(n)
    <3> SUFFICES ASSUME NEW y, y = [mem.sessions[n] EXCEPT !.pid = p, !.quiet = FALSE]
                 PROVE  /\ \A r \in Sids \ {n} : mem'.sessions[r] = mem.sessions[r] /\ mem'.handle[r] = mem.handle[r]
                        /\ mem'.sessions[n] # None /\ mem'.sessions[n].pid = p /\ mem'.handle[n] = p
                        /\ mem'.sessions[n].status = mem.sessions[n].status
      BY <2>1
    <3>1. mem.sessions[n] \in Session
      BY <1>1, <1>8, <2>1 DEF Has
    <3>2. y \in Session /\ y.pid = p /\ y.status = mem.sessions[n].status
      BY <1>3, <3>1, Numbers DEF Session
    <3>3. y # None
      BY <3>2, NoneAssumption
    <3>4. mem'.sessions = [mem.sessions EXCEPT ![n] = y] /\ mem'.handle = [mem.handle EXCEPT ![n] = p]
      <4>1. mem' = [held EXCEPT !.sessions[n].pid = p, !.sessions[n].quiet = FALSE, !.sock[n] = p]
        BY <1>3, <2>1
      <4> QED BY <1>1, <1>8, <1>13, <3>1, <4>1 DEF Session
    <3> QED BY <1>1, <1>8, <3>2, <3>3, <3>4
  <2>2. CASE ~Has(n)
    <3>1. mem' = held
      BY <1>3, <2>2
    <3> QED BY <1>1, <1>8, <1>13, <2>2, <3>1
  <2> QED BY <2>1, <2>2
<1>15. \A r \in Sids \ {n} : Same(r)
  BY <1>3, <1>14 DEF Same, Tidy, SessionOK
<1>16. Placed(n)'
  BY <1>3, <1>8 DEF Tidy, Placed
<1>17. rows[n] # None /\ ~Going(rows[n].pid) => ~GoingOn(rows[n].pid)
  BY <1>7, <1>10 DEF Quieter
<1>18. CASE Has(n)
  <2>1. Renewing(n, k)
    BY <1>3, <1>6, <1>18 DEF Fine
  <2>2. mem.sessions[n].status = "starting" /\ (rows[n] # None => ~GoingOn(rows[n].pid))
    BY <1>3, <1>17, <2>1 DEF Renewing
  <2>3. SessionOK(n)'
    BY <1>4, <1>5, <1>14, <1>18, <2>2 DEF SessionOK
  <2>4. RowOK(n)'
    BY <1>3, <1>5, <1>10, <1>11, <2>2 DEF RowOK, Going, GoingOn, Runs
  <2>5. tasks' = [tasks EXCEPT ![t] = x]
    BY <1>1, <1>3, <1>6, <1>18 DEF Task
  <2>6. tasks'[t] = x /\ \A u \in Tasks \ {t} : tasks'[u] = tasks[u]
    BY <1>1, <2>5
  <2>7. TaskOK(t)'
    BY <1>3, <1>4, <1>5, <1>6, <1>8, <1>12, <1>14, <1>18, <2>2, <2>6
       DEF TaskOK, Fine, Raised, Restarting, Cleaning, Raising, Renewing, Has
  <2>8. Alone'
    <3>1. ASSUME NEW u \in Tasks \ {t}, tasks[u] # None PROVE Apart(x, tasks[u])
      BY <1>9, <1>12, <1>18, <3>1 DEF Apart
    <3> QED BY <2>5, <3>1, AloneKept DEF Tidy
  <2> QED BY <1>3, <1>4, <1>5, <1>7, <1>8, <1>9, <1>15, <1>16, <1>18, <2>3, <2>4, <2>6, <2>7, <2>8, Beside
<1>19. CASE ~Has(n)
  <2>1. TaskOK(t)' /\ Alone' /\ \A u \in Tasks \ {t} : tasks'[u] = tasks[u]
    BY <1>3, <1>19, EndedOK DEF Tidy
  <2>2. ~Has(n)'
    BY <1>14, <1>19 DEF Has
  <2>3. SessionOK(n)'
    BY <2>2 DEF SessionOK
  <2>4. RowOK(n)'
    BY <1>3, <1>5, <1>10, <1>11, <1>17, <1>19 DEF RowOK, Going, GoingOn, Runs
  <2>5. ASSUME NEW u \in Tasks \ {t}, NEW j, tasks[u] = j, j # None, j.sid = n PROVE TaskOK(u)'
    <3>1. Fine(j) /\ tasks'[u] = j /\ j.op = "clean"
      BY <1>9, <2>1, <2>5 DEF Tidy, TaskOK
    <3>2. j.pid \in 0..MaxProcs
      BY <1>1, <2>5 DEF Task
    <3>3. j.pid <= p
      BY <1>2, <1>4, <3>1, <3>2, BoundAssumption DEF Fine
    <3> QED BY <1>3, <1>5, <2>2, <2>5, <3>1, <3>3 DEF TaskOK, Fine, Raised, Restarting, Cleaning, Live
  <2> QED BY <1>3, <1>4, <1>5, <1>7, <1>8, <1>15, <1>16, <2>1, <2>3, <2>4, <2>5, Beside
<1> QED BY <1>18, <1>19
\* A step of a kernel that comes up, or does not
LEMMA BootTidy ==
    ASSUME Typed, Typed', IInv, Tidy, NEW t \in Tasks, Booted(t) \/ BootFails(t),
           NEW k, tasks[t] = k, NEW n, k.sid = n
    PROVE  Tidy'
<1>1. tasks \in [Tasks -> Task \cup {None}]
  BY TypeParts DEF Typed
<1>2. count.pids \in Nat /\ count.pids <= count.pids
  BY BoundAssumption DEF Typed, TypeOK
<1>3. k # None /\ k.pc = "boot" /\ boot' = boot /\ count' = count
  BY DEF Booted, BootFails
<1>4. k \in Task /\ Fine(k)
  BY <1>1, <1>3 DEF Tidy, TaskOK
<1>5. k.op # "clean" /\ (k.then = "port" => k.op = "create") /\ n # 0 /\ n # boot.sid /\ Raising(n, k) /\ k.pid <= count.pids
      /\ (k.op = "restart" /\ Has(n) => Renewing(n, k))
  BY <1>3, <1>4 DEF Fine, Cleaning, Raised
<1>6. n \in Sids
  BY <1>4, <1>5, Numbers DEF Task
<1>7. CASE Booted(t)
  <2> SUFFICES ASSUME NEW x, x = [k EXCEPT !.pc = "stamp"] PROVE Tidy'
    OBVIOUS
  <2>1. tasks' = [tasks EXCEPT ![t] = x] /\ UNCHANGED <<procs, mem, rows, boot, count>>
    BY <1>7 DEF Booted, Goes
  <2>2. x.pc = "stamp" /\ x.sid = n /\ x.pid = k.pid /\ x.op = k.op /\ x.then = k.then
    BY <1>4 DEF Task
  <2>3. tasks'[t] = x /\ \A u \in Tasks \ {t} : tasks'[u] = tasks[u]
    BY <1>1, <2>1
  <2>4. TaskOK(t)'
    <3>1. Raising(n, x)'
      BY <1>5, <2>1, <2>2 DEF Raising, Has, Going, Runs
    <3>2. x.op = "restart" /\ Has(n)' => Renewing(n, x)'
      BY <1>5, <2>1, <2>2 DEF Renewing, Has, Going, Runs
    <3>3. k.pid <= count'.pids
      BY <1>3, <1>5
    <3> QED BY <1>3, <1>5, <2>2, <2>3, <3>1, <3>2, <3>3
            DEF TaskOK, Fine, Raised, Restarting, Cleaning
  <2>5. Alone'
    BY <1>3, <2>1, <2>2, AloneKept DEF Tidy, Raised
  <2>6. Quieter /\ \A r \in Sids : Same(r)
    BY <2>1, ProcsKept DEF Same, Tidy, SessionOK
  <2> QED BY <1>2, <2>1, <2>3, <2>4, <2>5, <2>6, Ordinary
<1>8. CASE BootFails(t)
  <2>1. CASE Has(n)
    <3>1. StopBegins(t, k, n)
      BY <1>8, <2>1 DEF BootFails
    <3> QED BY <1>3, <1>4, <1>5, <1>6, <2>1, <3>1, StopBeginsTidy
  <2>2. CASE ~Has(n)
    <3>1. Ends(t) /\ UNCHANGED <<procs, mem, rows>>
      BY <1>8, <2>2 DEF BootFails
    <3>2. Quieter /\ \A r \in Sids : Same(r)
      BY <3>1, ProcsKept DEF Same, Tidy, SessionOK
    <3> QED BY <1>2, <1>3, <3>1, <3>2, EndedOK, Ordinary DEF Tidy
  <2> QED BY <2>1, <2>2
<1> QED BY <1>7, <1>8

\* The row of a session that has come up is written.
LEMMA StampedTidy ==
    ASSUME Typed, Typed', IInv, Tidy, NEW t \in Tasks, Stamped(t),
           NEW k, tasks[t] = k, NEW n, k.sid = n
    PROVE  Tidy'
<1>1. /\ mem \in Memory /\ tasks \in [Tasks -> Task \cup {None}] /\ mem.sessions \in [Sids -> Session \cup {None}]
      /\ rows \in [Sids -> Row \cup {None}]
  BY TypeParts DEF Typed, Memory
<1>2. count.pids \in Nat /\ count.pids <= count.pids
  BY BoundAssumption DEF Typed, TypeOK
<1>3. k # None /\ k.pc = "stamp" /\ boot' = boot /\ count' = count /\ Ends(t)
  BY DEF Stamped
<1>4. k \in Task /\ Fine(k)
  BY <1>1, <1>3 DEF Tidy, TaskOK
<1>5. n # 0 /\ n # boot.sid /\ Raising(n, k) /\ k.pid <= count.pids /\ k.op # "clean"
  BY <1>3, <1>4 DEF Fine, Raised, Cleaning
<1>6. n \in Sids
  BY <1>4, <1>5, Numbers DEF Task
<1>0. PICK time \in StartTimes :
         /\ rows' = Recorded(n, [status |-> "active", pid |-> k.pid, file |-> k.file,
                                 name |-> k.name, mine |-> TRUE, time |-> time])
         /\ procs' = Recognised(k.pid, time)
         /\ time = "other" => ~Kernel(k.pid)
  BY StartTimeIs DEF Stamped
<1>7. Quieter /\ \A p : GoingOn(p) <=> Going(p)
  BY <1>0, RecognisedEnds
<1>8. PICK r \in Row : rows' = [rows EXCEPT ![n] = r] /\ r.status = "active" /\ r.mine /\ r.pid = k.pid
  <2>1. k.pid \in Pids
    BY <1>3 DEF Typed, Known
  <2>2. rows' = Recorded(n, [status |-> "active", pid |-> k.pid, file |-> k.file,
                             name |-> k.name, mine |-> TRUE, time |-> time])
    BY <1>0
  <2> DEFINE r == [status |-> "active", pid |-> k.pid, file |-> k.file, name |-> k.name, mine |-> TRUE, time |-> time]
  <2>3. r \in Row
    BY <1>4, <2>1 DEF Row, Task
  <2>4. rows' = [rows EXCEPT ![n] = r]
    BY <2>2 DEF Recorded
  <2> QED BY <2>3, <2>4
<1>9. r # None /\ rows'[n] = r /\ \A q \in Sids \ {n} : rows'[q] = rows[q]
  BY <1>1, <1>6, <1>8, NoneAssumption
<1>10. /\ mem'.handle = mem.handle /\ \A q \in Sids \ {n} : mem'.sessions[q] = mem.sessions[q]
       /\ ~Has(n) => mem'.sessions[n] = None
       /\ Has(n) => mem'.sessions[n] # None /\ mem'.sessions[n].pid = mem.sessions[n].pid
  <2>1. CASE Has(n)
    <3> SUFFICES ASSUME NEW y, y = [mem.sessions[n] EXCEPT !.status = "ready"]
                 PROVE  /\ mem'.handle = mem.handle /\ \A q \in Sids \ {n} : mem'.sessions[q] = mem.sessions[q]
                        /\ mem'.sessions[n] # None /\ mem'.sessions[n].pid = mem.sessions[n].pid
      BY <2>1
    <3>1. mem.sessions[n] \in Session
      BY <1>1, <1>6, <2>1 DEF Has
    <3>2. y \in Session /\ y.pid = mem.sessions[n].pid
      BY <3>1 DEF Session
    <3>3. mem' = [mem EXCEPT !.sessions[n] = y]
      BY <2>1 DEF Stamped
    <3> QED BY <1>1, <1>6, <3>2, <3>3, NoneAssumption DEF Memory
  <2>2. CASE ~Has(n)
    BY <1>5, <2>2 DEF Stamped, Has
  <2> QED BY <2>1, <2>2
<1>11. \A q \in Sids \ {n} : Same(q)
  BY <1>9, <1>10 DEF Same, Tidy, SessionOK
<1>12. (Has(n) => mem.sessions[n].status = "starting" /\ mem.sessions[n].pid = k.pid) /\ (~Has(n) => ~Going(k.pid))
  BY <1>5 DEF Raising
<1>13. SessionOK(n)' /\ RowOK(n)' /\ Placed(n)'
  <2>1. SessionOK(n)'
    BY <1>3, <1>5, <1>6, <1>8, <1>9, <1>10, <1>12 DEF Tidy, SessionOK, Has, RowGood
  <2>2. RowOK(n)'
    BY <1>3, <1>5, <1>7, <1>8, <1>9, <1>10, <1>12 DEF RowOK, Has, Going, GoingOn
  <2>3. Placed(n)'
    BY <1>8, <1>9 DEF Placed
  <2> QED BY <2>1, <2>2, <2>3
<1>14. TaskOK(t)' /\ Alone' /\ \A u \in Tasks \ {t} : tasks'[u] = tasks[u]
  BY <1>3, EndedOK DEF Tidy
<1>15. ASSUME NEW u \in Tasks \ {t}, NEW j, tasks[u] = j, j # None, j.sid = n PROVE TaskOK(u)'
  <2>1. Fine(j) /\ tasks'[u] = j /\ Apart(j, k)
    BY <1>3, <1>14, <1>15 DEF Tidy, TaskOK, Alone
  <2>2. j.pc \notin Raised /\ j.op # "restart"
    BY <1>3, <1>5, <1>15, <2>1 DEF Apart, Raised
  <2>3. j.op = "clean" => ~Has(n)
    BY <1>12, <1>15, <2>1 DEF Fine, Live
  <2>4. Has(n)' <=> Has(n)
    BY <1>5, <1>10 DEF Has
  <2>5. j.pc \in {"reap", "kill"} /\ Has(n) => ~Going(mem.sessions[n].pid)
    BY <1>15, <2>1 DEF Fine
  <2>6. j.op = "clean" => ~Live(n)'
    BY <2>3, <2>4 DEF Live
  <2>7. j.pc \in {"reap", "kill"} /\ Has(n)' => ~GoingOn(mem'.sessions[n].pid)
    BY <1>7, <1>10, <2>4, <2>5
  <2> QED BY <1>3, <1>15, <2>1, <2>2, <2>6, <2>7 DEF TaskOK, Fine, Raising, Renewing, Going, GoingOn
<1> QED BY <1>2, <1>3, <1>5, <1>6, <1>7, <1>11, <1>13, <1>14, <1>15, Beside

\* A restart checks a process that it knows by its id only.
LEMMA VerifiedTidy ==
    ASSUME Typed, Typed', IInv, Tidy, NEW t \in Tasks, RestartVerified(t),
           NEW k, tasks[t] = k, NEW n, k.sid = n
    PROVE  Tidy'
<1>1. /\ mem \in Memory /\ tasks \in [Tasks -> Task \cup {None}] /\ mem.sessions \in [Sids -> Session \cup {None}]
      /\ rows \in [Sids -> Row \cup {None}]
  BY TypeParts DEF Typed, Memory
<1>2. count.pids \in Nat /\ count.pids <= count.pids
  BY BoundAssumption DEF Typed, TypeOK
<1>3. k # None /\ k.pc = "restart verify" /\ boot' = boot /\ count' = count /\ rows' = rows
  BY DEF RestartVerified
<1>4. k \in Task /\ Fine(k)
  BY <1>1, <1>3 DEF Tidy, TaskOK
<1>5. n # 0 /\ n # boot.sid /\ k.pid <= count.pids /\ k.op = "restart" /\ (Has(n) => Renewing(n, k))
  BY <1>3, <1>4 DEF Fine, Restarting
<1>6. n \in Sids
  BY <1>4, <1>5, Numbers DEF Task
<1>7. CASE procs' = Signalled(k.pid, "restart") /\ Goes(t, "restart kill") /\ mem' = mem
  <2> SUFFICES ASSUME NEW x, x = [k EXCEPT !.pc = "restart kill"] PROVE Tidy'
    OBVIOUS
  <2>1. tasks' = [tasks EXCEPT ![t] = x]
    BY <1>7 DEF Goes
  <2>2. x.pc = "restart kill" /\ x.sid = n /\ x.pid = k.pid /\ x.op = "restart" /\ x.then = k.then
    BY <1>4, <1>5 DEF Task
  <2>3. tasks'[t] = x /\ \A u \in Tasks \ {t} : tasks'[u] = tasks[u]
    BY <1>1, <2>1
  <2>4. Quieter /\ ~GoingOn(k.pid)
    <3>1. k.pid \in 0..MaxProcs
      BY <1>4 DEF Task
    <3> QED BY <1>7, <3>1, SignalEnds DEF Marks
  <2>5. Has(n) /\ rows[n] # None => ~GoingOn(rows[n].pid)
    <3> SUFFICES ASSUME Has(n), rows[n] # None, GoingOn(rows[n].pid) PROVE FALSE
      OBVIOUS
    <3>1. rows[n].pid \in Pids /\ rows[n].pid <= count.pids
      BY <1>1, <1>6 DEF Row, Tidy, RowOK
    <3>2. Going(rows[n].pid)
      BY <2>4, <3>1 DEF Quieter
    <3>3. mem.sessions[n].pid = rows[n].pid
      BY <1>5, <1>6, <3>2, RowPlaced DEF Tidy, RowOK
    <3>4. k.pid = mem.sessions[n].pid
      BY <1>3, <1>5 DEF Renewing
    <3> QED BY <2>4, <3>3, <3>4
  <2>6. TaskOK(t)'
    <3>1. x.op = "restart" /\ Has(n)' => Renewing(n, x)'
      BY <1>3, <1>5, <1>7, <2>2, <2>5 DEF Renewing, Has, Going, GoingOn, Runs
    <3>2. x.pid <= count'.pids /\ (x.then = "port" => x.op = "create")
      BY <1>3, <1>4, <1>5, <2>2 DEF Fine
    <3> QED BY <1>3, <1>5, <2>2, <2>3, <3>1, <3>2 DEF TaskOK, Fine, Raised, Restarting, Cleaning
  <2>7. Alone'
    BY <1>3, <1>5, <2>1, <2>2, AloneKept DEF Tidy, Raised
  <2>8. \A r \in Sids : Same(r)
    BY <1>3, <1>7 DEF Same, Tidy, SessionOK
  <2> QED BY <1>2, <1>3, <2>3, <2>4, <2>6, <2>7, <2>8, Ordinary
<1>8. CASE procs' \in {procs, Missed({k.pid})} /\ Ends(t) /\ mem' = DeclaredDead(n)
  <2>1. Quieter
    BY <1>8, ProcsKept, MissedEnds
  <2>2. TaskOK(t)' /\ Alone' /\ \A u \in Tasks \ {t} : tasks'[u] = tasks[u]
    BY <1>8, EndedOK DEF Tidy
  <2>3. CASE ~Has(n)
    <3>1. \A r \in Sids : Same(r)
      BY <1>3, <1>8, <2>3 DEF Same, DeclaredDead, Tidy, SessionOK
    <3> QED BY <1>2, <1>3, <2>1, <2>2, <3>1, Ordinary
  <2>4. CASE Has(n)
    <3> SUFFICES ASSUME NEW y, y = [mem.sessions[n] EXCEPT !.status = "dead"] PROVE Tidy'
      OBVIOUS
    <3>1. y # None /\ y.pid = mem.sessions[n].pid /\ y.status = "dead"
      <4>1. mem.sessions[n] \in Session
        BY <1>1, <1>6, <2>4 DEF Has
      <4>2. y \in Session /\ y.pid = mem.sessions[n].pid /\ y.status = "dead"
        BY <4>1 DEF Session
      <4> QED BY <4>2, NoneAssumption
    <3>2. /\ mem'.handle = mem.handle /\ mem'.sessions[n] = y
          /\ \A q \in Sids \ {n} : mem'.sessions[q] = mem.sessions[q]
      <4>1. mem' = [mem EXCEPT !.sessions[n] = y]
        BY <1>8, <2>4 DEF DeclaredDead
      <4> QED BY <1>1, <1>6, <4>1 DEF Memory
    <3>3. \A q \in Sids \ {n} : Same(q)
      BY <1>3, <3>2 DEF Same, Tidy, SessionOK
    <3>4. SessionOK(n)' /\ RowOK(n)' /\ Placed(n)'
      <4>1. SessionOK(n) /\ RowOK(n) /\ Placed(n)
        BY <1>6 DEF Tidy
      <4>2. SessionOK(n)'
        BY <1>3, <1>5, <2>4, <3>1, <3>2, <4>1 DEF SessionOK, Has
      <4>5. rows[n] # None => rows[n].pid \in Pids /\ (GoingOn(rows[n].pid) => Going(rows[n].pid))
        BY <1>1, <1>6, <2>1, <4>1 DEF Row, RowOK, Quieter
      <4>3. RowOK(n)'
        BY <1>3, <1>5, <2>4, <3>1, <3>2, <4>1, <4>5 DEF RowOK, Has, Going, GoingOn
      <4>4. Placed(n)'
        BY <1>3, <4>1 DEF Placed
      <4> QED BY <4>2, <4>3, <4>4
    <3>5. \A u \in Tasks \ {t} : ~(tasks[u] # None /\ tasks[u].sid = n)
      BY <1>3, <1>5, <2>4, RestartsAlone
    <3> QED BY <1>2, <1>3, <1>5, <1>6, <2>1, <2>2, <3>3, <3>4, <3>5, Beside
  <2> QED BY <2>3, <2>4
<1>9. \/ procs' = Signalled(k.pid, "restart") /\ Goes(t, "restart kill") /\ mem' = mem
      \/ procs' \in {procs, Missed({k.pid})} /\ Ends(t) /\ mem' = DeclaredDead(n)
  BY DEF RestartVerified
<1> QED BY <1>7, <1>8, <1>9

\* A restart gives up the old process.
LEMMA KillsTidy ==
    ASSUME Typed, Typed', IInv, Tidy, NEW t \in Tasks, RestartKills(t),
           NEW k, tasks[t] = k, NEW n, k.sid = n
    PROVE  Tidy'
<1>0. PICK m, x : /\ m = IF k.pc = "restart reap" THEN [mem EXCEPT !.handle[n] = 0]
                         ELSE IF Has(n) THEN [mem EXCEPT !.sessions[n].pid = 0] ELSE mem
                  /\ x = [k EXCEPT !.pc = "port"]
  OBVIOUS
<1>1. /\ mem \in Memory /\ tasks \in [Tasks -> Task \cup {None}] /\ mem.sessions \in [Sids -> Session \cup {None}]
      /\ rows \in [Sids -> Row \cup {None}] /\ mem.handle \in [Sids -> 0..MaxProcs]
  BY TypeParts DEF Typed, Memory
<1>2. count.pids \in Nat /\ count.pids <= count.pids /\ 0 <= count.pids
  <2>1. count.pids \in Nat
    BY TypeParts, BoundAssumption DEF Typed, Count
  <2> QED BY <2>1
<1>3. /\ k # None /\ k.pc \in {"restart reap", "restart kill"} /\ boot' = boot /\ count' = count /\ rows' = rows
      /\ procs' = IF k.pc = "restart kill" THEN Killed(k.pid, "restart") ELSE procs
      /\ \/ mem' = (IF Has(n) THEN [m EXCEPT !.sessions[n].status = "dead"] ELSE m) /\ Ends(t)
         \/ mem' = m /\ tasks' = [tasks EXCEPT ![t] = x]
  BY <1>0 DEF RestartKills, Goes
<1>4. k \in Task /\ Fine(k)
  BY <1>1, <1>3 DEF Tidy, TaskOK
<1>5. n # 0 /\ n # boot.sid /\ k.pid <= count.pids /\ k.op = "restart" /\ (Has(n) => Renewing(n, k)) /\ k.then # "port"
  BY <1>3, <1>4 DEF Fine, Restarting
<1>6. n \in Sids
  BY <1>4, <1>5, Numbers DEF Task
<1>7. Quieter
  <2>1. k.pid \in 0..MaxProcs
    BY <1>4 DEF Task
  <2> QED BY <1>3, <2>1, SignalEnds, ProcsKept DEF Marks
<1>8. x.pc = "port" /\ x.sid = n /\ x.pid = k.pid /\ x.op = "restart" /\ x.then = k.then
  BY <1>0, <1>4, <1>5 DEF Task
<1>9. /\ Alone' /\ \A u \in Tasks \ {t} : tasks'[u] = tasks[u]
      /\ tasks'[t] = x \/ tasks'[t] = None
  <2>1. CASE Ends(t)
    <3>1. tasks'[t] = None
      BY <1>1, <2>1 DEF Ends
    <3> QED BY <2>1, <3>1, EndedOK DEF Tidy
  <2>2. CASE tasks' = [tasks EXCEPT ![t] = x]
    <3>1. Alone'
      BY <1>3, <1>5, <1>8, <2>2, AloneKept DEF Tidy, Raised
    <3> QED BY <1>1, <2>2, <3>1
  <2> QED BY <1>3, <2>1, <2>2
<1>10. CASE ~Has(n)
  <2>1. mem' = m /\ m.sessions = mem.sessions /\ m.handle \in {mem.handle, [mem.handle EXCEPT ![n] = 0]}
    BY <1>0, <1>1, <1>3, <1>10 DEF Memory
  <2>2. \A r \in Sids : Same(r)
    <3>1. \A r \in Sids : mem'.handle[r] \in {0, mem.handle[r]}
      BY <1>1, <1>6, <2>1
    <3>2. rows' = rows /\ mem'.sessions = mem.sessions
      BY <1>3, <2>1
    <3>3. \A r \in Sids : SessionOK(r)
      BY DEF Tidy
    <3> QED BY <3>1, <3>2, <3>3 DEF Same, SessionOK
  <2>3. TaskOK(t)'
    <3>1. ~Has(n)' /\ x.pid <= count'.pids
      BY <1>3, <1>5, <1>8, <1>10, <2>1 DEF Has
    <3> QED BY <1>3, <1>5, <1>8, <1>9, <3>1 DEF TaskOK, Fine, Raised, Restarting, Cleaning
  <2> QED BY <1>2, <1>3, <1>7, <1>9, <2>2, <2>3, Ordinary
<1>11. CASE Has(n)
  <2>1. Renewing(n, k) /\ mem.sessions[n] \in Session /\ SessionOK(n) /\ RowOK(n) /\ Placed(n)
    BY <1>1, <1>5, <1>6, <1>11 DEF Has, Tidy
  <2>2. rows[n] # None => ~GoingOn(rows[n].pid)
    <3>1. rows[n] # None => ~Going(rows[n].pid) /\ rows[n].pid \in Pids /\ rows[n].pid <= count.pids
      BY <1>1, <1>3, <1>5, <1>6, <2>1 DEF Row, RowOK, Renewing
    <3> QED BY <1>7, <3>1 DEF Quieter
  <2>3. /\ m.handle \in [Sids -> 0..MaxProcs] /\ DOMAIN m = {"sessions", "handle", "sock", "files", "watched"}
        /\ m.sessions \in [Sids -> Session \cup {None}]
        /\ \A q \in Sids \ {n} : m.sessions[q] = mem.sessions[q] /\ m.handle[q] = mem.handle[q]
        /\ m.handle[n] = 0
        /\ m.sessions[n] \in Session /\ m.sessions[n].status = "starting" /\ m.sessions[n].pid \in {0, mem.sessions[n].pid}
    <3>1. CASE k.pc = "restart reap"
      <4>1. m = [mem EXCEPT !.handle[n] = 0]
        BY <1>0, <3>1
      <4>2. mem.sessions[n].status = "starting"
        BY <2>1 DEF Renewing
      <4>3. m.sessions = mem.sessions /\ m.handle = [mem.handle EXCEPT ![n] = 0]
            /\ DOMAIN m = {"sessions", "handle", "sock", "files", "watched"}
        BY <1>1, <4>1 DEF Memory
      <4> HIDE <4>1
      <4> QED BY <1>1, <1>6, <2>1, <4>2, <4>3, Numbers
    <3>2. CASE k.pc = "restart kill"
      <4> SUFFICES ASSUME NEW y, y = [mem.sessions[n] EXCEPT !.pid = 0]
                   PROVE  /\ m.handle \in [Sids -> 0..MaxProcs] /\ DOMAIN m = {"sessions", "handle", "sock", "files", "watched"}
                          /\ m.sessions \in [Sids -> Session \cup {None}]
                          /\ \A q \in Sids \ {n} : m.sessions[q] = mem.sessions[q] /\ m.handle[q] = mem.handle[q]
                          /\ m.handle[n] = 0
                          /\ m.sessions[n] \in Session /\ m.sessions[n].status = "starting"
                          /\ m.sessions[n].pid \in {0, mem.sessions[n].pid}
        OBVIOUS
      <4>1. m = [mem EXCEPT !.sessions[n] = y]
        BY <1>0, <1>11, <3>2
      <4>2. mem.sessions[n].status = "starting" /\ mem.handle[n] = 0
        BY <2>1, <3>2 DEF Renewing
      <4>3. y \in Session /\ y.status = "starting" /\ y.pid = 0
        BY <2>1, <4>2, Numbers DEF Session
      <4>4. m.sessions = [mem.sessions EXCEPT ![n] = y] /\ m.handle = mem.handle
            /\ DOMAIN m = {"sessions", "handle", "sock", "files", "watched"}
        BY <1>1, <4>1 DEF Memory
      <4>5. m.sessions \in [Sids -> Session \cup {None}] /\ m.sessions[n] = y
            /\ \A q \in Sids \ {n} : m.sessions[q] = mem.sessions[q]
        BY <1>1, <1>6, <4>3, <4>4
      <4> QED BY <1>1, <4>2, <4>3, <4>4, <4>5
    <3> QED BY <1>3, <3>1, <3>2
  <2>4. /\ mem'.handle = m.handle /\ \A q \in Sids \ {n} : mem'.sessions[q] = m.sessions[q]
        /\ mem'.sessions[n] # None /\ mem'.sessions[n].pid = m.sessions[n].pid
        /\ mem'.sessions[n].status \in {"starting", "dead"} /\ (tasks'[t] # None => mem'.sessions[n].status = "starting")
    <3>1. CASE mem' = m /\ tasks' = [tasks EXCEPT ![t] = x]
      BY <2>3, <3>1, NoneAssumption
    <3>2. CASE mem' = [m EXCEPT !.sessions[n].status = "dead"] /\ Ends(t)
      <4> SUFFICES ASSUME NEW y, y = [m.sessions[n] EXCEPT !.status = "dead"]
                   PROVE  /\ mem'.handle = m.handle /\ \A q \in Sids \ {n} : mem'.sessions[q] = m.sessions[q]
                          /\ mem'.sessions[n] # None /\ mem'.sessions[n].pid = m.sessions[n].pid
                          /\ mem'.sessions[n].status = "dead" /\ tasks'[t] = None
        OBVIOUS
      <4>1. y \in Session /\ y.status = "dead" /\ y.pid = m.sessions[n].pid
        BY <2>3 DEF Session
      <4>2. mem' = [m EXCEPT !.sessions[n] = y]
        BY <3>2
      <4>3. mem'.handle = m.handle /\ mem'.sessions = [m.sessions EXCEPT ![n] = y]
        BY <2>3, <4>2
      <4>4. tasks'[t] = None
        BY <1>1, <3>2 DEF Ends
      <4>5. y # None
        BY <4>1, NoneAssumption
      <4>6. mem'.sessions[n] = y /\ \A q \in Sids \ {n} : mem'.sessions[q] = m.sessions[q]
        BY <1>6, <2>3, <4>3
      <4> QED BY <4>1, <4>3, <4>4, <4>5, <4>6
    <3> QED BY <1>3, <1>11, <3>1, <3>2
  <2>5. \A q \in Sids \ {n} : Same(q)
    <3>1. ASSUME NEW q \in Sids \ {n} PROVE mem'.sessions[q] = mem.sessions[q] /\ mem'.handle[q] = mem.handle[q] /\ rows'[q] = rows[q]
      <4>1. rows' = rows
        BY <1>3
      <4> QED BY <2>3, <2>4, <4>1
    <3>2. \A q \in Sids : SessionOK(q)
      BY DEF Tidy
    <3> QED BY <3>1, <3>2 DEF Same, SessionOK
  <2>6. SessionOK(n)' /\ RowOK(n)' /\ Placed(n)'
    <3>1. SessionOK(n)'
      <4>1. mem'.sessions[n].pid <= count.pids /\ mem'.handle[n] = 0 /\ count' = count /\ mem'.sessions[n].status # "ready"
        BY <1>2, <1>3, <1>11, <2>1, <2>3, <2>4 DEF SessionOK
      <4> QED BY <4>1 DEF SessionOK
    <3>2. RowOK(n)'
      BY <1>3, <2>1, <2>2 DEF RowOK, Going, GoingOn, Runs
    <3>3. Placed(n)'
      BY <1>3, <2>1 DEF Placed
    <3> QED BY <3>1, <3>2, <3>3
  <2>7. TaskOK(t)'
    <3>1. tasks'[t] = x /\ tasks'[t] # None => Renewing(n, x)'
      BY <1>3, <1>8, <2>2, <2>4 DEF Renewing, Going, GoingOn, Runs
    <3>2. x.pid <= count'.pids
      BY <1>3, <1>5, <1>8
    <3> QED BY <1>3, <1>5, <1>8, <1>9, <3>1, <3>2 DEF TaskOK, Fine, Raised, Restarting, Cleaning
  <2>8. \A u \in Tasks \ {t} : ~(tasks[u] # None /\ tasks[u].sid = n)
    BY <1>3, <1>5, <1>11, RestartsAlone
  <2> QED BY <1>2, <1>3, <1>5, <1>6, <1>7, <1>9, <2>5, <2>6, <2>7, <2>8, Beside
<1> QED BY <1>10, <1>11
\* A step of a clean-up
LEMMA CleanTidy ==
    ASSUME Typed, Typed', IInv, Tidy, NEW t \in Tasks, CleanChecked(t) \/ CleanEnds(t),
           NEW k, tasks[t] = k, NEW n, k.sid = n
    PROVE  Tidy'
<1>1. /\ mem \in Memory /\ tasks \in [Tasks -> Task \cup {None}] /\ rows \in [Sids -> Row \cup {None}]
  BY TypeParts DEF Typed
<1>2. count.pids \in Nat /\ count.pids <= count.pids
  BY BoundAssumption DEF Typed, TypeOK
<1>3. k # None /\ k.pc \in Cleaning /\ UNCHANGED <<mem, boot, count>>
  BY DEF CleanChecked, CleanEnds, Cleaning
<1>4. k \in Task /\ Fine(k) /\ k.pid \in 0..MaxProcs
  BY <1>1, <1>3 DEF Tidy, TaskOK, Task
<1>5. k.op = "clean" /\ ~Live(n) /\ boot.phase = "up" /\ k.pid <= count.pids /\ k.then # "port"
  BY <1>3, <1>4 DEF Fine
<1>6. /\ \/ procs' = Signalled(k.pid, "clean") /\ tasks' = [tasks EXCEPT ![t].pc = "clean kill"] /\ UNCHANGED rows
         \/ procs' = procs /\ Ends(t) /\ UNCHANGED rows
         \/ procs' \in {procs, Killed(k.pid, "clean")} /\ Ends(t) /\ rows' = [rows EXCEPT ![n] = None]
  BY DEF CleanChecked, CleanEnds, Goes
<1>7. Quieter
  BY <1>4, <1>6, SignalEnds, ProcsKept DEF Marks
<1>8. \A r \in Sids : Same(r)
  <2>1. ASSUME NEW r \in Sids PROVE rows'[r] \in {None, rows[r]} /\ (rows[r] # None /\ rows'[r] = None => r = n)
    BY <1>1, <1>6
  <2>2. \A r \in Sids : SessionOK(r)
    BY DEF Tidy
  <2>3. \A r \in Sids : r # 0
    BY DEF Sids
  <2>4. n \in Sids /\ mem.sessions[n] # None => mem.sessions[n].status # "ready"
    BY <1>5, <2>3 DEF Live, Has
  <2> QED BY <1>3, <2>1, <2>2, <2>4 DEF Same, SessionOK, Has
<1>9. CASE Ends(t)
  BY <1>2, <1>3, <1>7, <1>8, <1>9, EndedOK, Ordinary DEF Tidy
<1>10. CASE tasks' = [tasks EXCEPT ![t].pc = "clean kill"]
  <2>1. PICK x : x = [k EXCEPT !.pc = "clean kill"]
    OBVIOUS
  <2>2. tasks' = [tasks EXCEPT ![t] = x]
    BY <1>10, <2>1
  <2>3. x.pc = "clean kill" /\ x.sid = n /\ x.pid = k.pid /\ x.op = "clean" /\ x.then = k.then
    BY <1>4, <1>5, <2>1 DEF Task
  <2>4. tasks'[t] = x /\ \A u \in Tasks \ {t} : tasks'[u] = tasks[u]
    BY <1>1, <2>2
  <2>5. TaskOK(t)'
    <3>1. ~Live(n)' /\ boot'.phase = "up" /\ x.pid <= count'.pids
      BY <1>3, <1>5, <2>3 DEF Live, Has
    <3> QED BY <1>5, <2>3, <2>4, <3>1 DEF TaskOK, Fine, Raised, Restarting, Cleaning
  <2>6. Alone'
    BY <1>3, <1>5, <2>2, <2>3, AloneKept DEF Tidy, Raised
  <2> QED BY <1>2, <1>3, <1>7, <1>8, <2>4, <2>5, <2>6, Ordinary
<1> QED BY <1>6, <1>9, <1>10

\* A step of no request, nor of the loop
LEMMA Calm ==
    ASSUME Typed, Typed', IInv, Tidy, Quieter, \A s \in Sids : Same(s),
           count.pids <= count'.pids, boot' = boot, tasks' = tasks
    PROVE  Tidy'
<1> DEFINE N == {}
<1>0. /\ N \in SUBSET Sids /\ \A s \in Sids \ N : Same(s)
      /\ boot'.sid \in {0, boot.sid} \cup N /\ boot.sid \notin N
      /\ boot.phase = "up" => boot'.phase = "up"
      /\ \A s \in Sids : s \in Sids \ N
      /\ \A u \in Tasks : tasks[u] # None => tasks[u].sid \notin N
  OBVIOUS
<1> HIDE DEF N
<1>1. (\A s \in Sids : SessionOK(s)' /\ RowOK(s)') /\ \A u \in Tasks : TaskOK(u)'
  BY <1>0, Frame
<1>2. (\A s \in Sids : Placed(s)') /\ BootOK'
  BY <1>0, FrameBoot
<1>3. Alone'
  BY DEF Tidy, Alone, Apart
<1> QED BY <1>1, <1>2, <1>3 DEF Tidy

\* Rows of sessions that are not live may go.
LEMMA AutoCleanedSame ==
    ASSUME Typed, Tidy, NEW S, S \subseteq DeadRows, rows' = Without(S), mem' = mem
    PROVE  \A s \in Sids : Same(s)
<1> SUFFICES ASSUME NEW s \in Sids PROVE Same(s)
  OBVIOUS
<1>1. rows'[s] \in {None, rows[s]} /\ (rows[s] # None /\ rows'[s] = None => s \in DeadRows)
  BY DEF Without
<1>2. s # 0 /\ SessionOK(s)
  BY DEF Sids, Tidy
<1>3. s \in DeadRows /\ mem.sessions[s] # None => mem.sessions[s].status # "ready"
  BY <1>2 DEF DeadRows, Live, Has
<1> QED BY <1>1, <1>2, <1>3 DEF Same, SessionOK

\* Steps of the processes, the sweep and the clock
LEMMA WorldTidy ==
    ASSUME Typed, Typed', IInv, Tidy,
           \/ \E p \in Pids : KernelUp(p) \/ Exit(p) \/ Reuse(p) \/ ExitEvent(p)
           \/ \E s \in Sids : Quiet(s)
           \/ AutoClean \/ SweepLiveness
    PROVE  Tidy'
<1>1. /\ mem \in Memory /\ mem.sessions \in [Sids -> Session \cup {None}] /\ procs \in [Pids -> Proc]
      /\ mem.handle \in [Sids -> 0..MaxProcs]
  BY TypeParts DEF Typed, Memory
<1>2. count.pids \in Nat /\ count.pids <= count.pids
  BY BoundAssumption DEF Typed, TypeOK
<1>3. ASSUME NEW s \in Sids PROVE s # 0 /\ SessionOK(s)
  BY DEF Sids, Tidy
<1>4. ASSUME UNCHANGED <<mem, rows>> PROVE \A s \in Sids : Same(s)
  BY <1>3, <1>4 DEF Same, SessionOK
<1>5. ASSUME NEW p \in Pids, KernelUp(p) \/ Exit(p) \/ Reuse(p) PROVE Tidy'
  <2>1. UNCHANGED <<mem, rows, tasks, boot>> /\ count'.pids = count.pids
    BY <1>5 DEF KernelUp, Exit, Reuse, Typed, TypeOK
  <2>2. Quieter
    <3> SUFFICES ASSUME NEW q \in Pids, GoingOn(q) PROVE Going(q)
      BY DEF Quieter
    <3>1. CASE KernelUp(p)
      BY <1>1, <3>1 DEF KernelUp, Going, GoingOn, Runs, Proc
    <3>2. CASE Exit(p)
      BY <1>1, <3>2 DEF Exit, Going, GoingOn, Runs, Proc
    <3>3. CASE Reuse(p)
      BY <1>1, <3>3 DEF Reuse, Going, GoingOn, Runs, Proc
    <3> QED BY <1>5, <3>1, <3>2, <3>3
  <2> QED BY <1>2, <1>4, <2>1, <2>2, Calm
<1>6. ASSUME NEW m \in Memory, NEW S \in SUBSET Sids, m.sessions = mem.sessions, m.handle = mem.handle, Cleaned(m, S),
             UNCHANGED <<procs, tasks, boot, count>>,
             \A s \in S : mem.sessions[s] # None => ~Going(mem.sessions[s].pid)
      PROVE  Tidy'
  <2>1. Quieter /\ \A p : GoingOn(p) <=> Going(p)
    BY <1>6, ProcsKept
  <2>2. \A s \in Sids : Same(s)
    BY <1>6, <2>1, CleanedSame
  <2> QED BY <1>2, <1>6, <2>1, <2>2, Calm
<1>7. ASSUME NEW p \in Pids, ExitEvent(p) PROVE Tidy'
  <2>1. PICK m : m = [mem EXCEPT !.watched = mem.watched \ {p}]
    OBVIOUS
  <2>2. PICK S : S = {s \in Sids : mem.handle[s] = p}
    OBVIOUS
  <2>3. m \in Memory /\ m.sessions = mem.sessions /\ m.handle = mem.handle
    BY <1>1, <2>1 DEF Memory
  <2>4. Cleaned(m, S) /\ UNCHANGED <<procs, tasks, boot, count>> /\ ~Kernel(p)
    BY <1>7, <2>1, <2>2 DEF ExitEvent
  <2>5. ASSUME NEW s \in S, mem.sessions[s] # None PROVE ~Going(mem.sessions[s].pid)
    <3>1. mem.sessions[s].pid = p
      BY <1>3, <2>2, <2>5 DEF SessionOK, Has, Pids
    <3> QED BY <2>4, <3>1 DEF Going, Kernel, Pids
  <2> QED BY <1>6, <2>2, <2>3, <2>4, <2>5
<1>8. CASE SweepLiveness
  <2>1. Cleaned(mem, Swept) /\ UNCHANGED <<procs, tasks, boot, count>> /\ Swept \in SUBSET Sids
    BY <1>8 DEF SweepLiveness, Swept
  <2>2. \A s \in Swept : ~Going(mem.sessions[s].pid)
    BY DEF Swept, Alive, Going, Runs
  <2> QED BY <1>1, <1>6, <2>1, <2>2
<1>9. CASE AutoClean
  <2>1. UNCHANGED <<procs, mem, tasks, boot, count>>
    BY <1>9 DEF AutoClean
  <2>2. \E S : S \subseteq DeadRows /\ rows' = Without(S)
    BY <1>9 DEF AutoClean
  <2> QED BY <1>2, <2>1, <2>2, AutoCleanedSame, ProcsKept, Calm
<1>10. ASSUME NEW s \in Sids, Quiet(s) PROVE Tidy'
  <2>1. PICK y : y = [mem.sessions[s] EXCEPT !.quiet = TRUE]
    OBVIOUS
  <2>2. UNCHANGED <<procs, rows, tasks, boot, count>> /\ mem.sessions[s] # None /\ mem' = [mem EXCEPT !.sessions[s] = y]
    BY <1>10, <2>1 DEF Quiet, Has
  <2>3. y.pid = mem.sessions[s].pid /\ y.status = mem.sessions[s].status
    BY <1>1, <2>1, <2>2 DEF Session
  <2>4. mem'.handle = mem.handle /\ mem'.sessions = [mem.sessions EXCEPT ![s] = y]
    BY <1>1, <2>2 DEF Memory
  <2>5. \A r \in Sids : Same(r)
    <3> SUFFICES ASSUME NEW r \in Sids PROVE Same(r)
      OBVIOUS
    <3>1. mem'.sessions[r] # None => /\ mem.sessions[r] # None
                                     /\ mem'.sessions[r].pid = mem.sessions[r].pid
                                     /\ mem'.sessions[r].status = mem.sessions[r].status
      BY <1>1, <2>2, <2>3, <2>4
    <3>2. mem'.handle[r] = mem.handle[r] /\ rows'[r] = rows[r] /\ (mem.sessions[r] # None => mem'.sessions[r] # None)
      <4>1. y # None
        <5>1. y \in Session
          BY <1>1, <2>1, <2>2 DEF Session
        <5> QED BY <5>1, NoneAssumption
      <4> QED BY <1>1, <2>2, <2>4, <4>1
    <3> QED BY <3>1, <3>2 DEF Same
  <2> QED BY <1>2, <2>2, <2>5, ProcsKept, Calm
<1> QED BY <1>5, <1>7, <1>8, <1>9, <1>10
\* A crash, and the start of a server
LEMMA CrashTidy ==
    ASSUME Typed, Typed', IInv, Tidy, Crash \/ Listen
    PROVE  Tidy'
<1>1. /\ rows \in [Sids -> Row \cup {None}] /\ tasks \in [Tasks -> Task \cup {None}]
  BY TypeParts DEF Typed
<1>2. count.pids \in Nat /\ count.pids <= count.pids
  BY BoundAssumption DEF Typed, TypeOK
<1>3. CASE Crash
  <2>1. /\ mem' = NoMemory /\ procs' = procs /\ tasks' = [t \in Tasks |-> None]
        /\ boot' = [phase |-> "off", left |-> {}, read |-> NoRows, sid |-> 0, row |-> None]
        /\ rows' = [s \in Sids |-> IF rows[s] = None THEN None ELSE [rows[s] EXCEPT !.mine = FALSE]]
    BY <1>3 DEF Crash
  <2>2. count'.pids = count.pids
    BY <1>3 DEF Crash, Typed, TypeOK
  <2>3. ASSUME NEW s \in Sids PROVE SessionOK(s)' /\ RowOK(s)' /\ Placed(s)'
    <3>1. SessionOK(s)'
      <4>1. mem'.sessions[s] = None
        BY <2>1 DEF NoMemory
      <4> QED BY <4>1 DEF SessionOK, Has
    <3>2. rows'[s] # None => /\ rows[s] # None /\ rows'[s].pid = rows[s].pid
                             /\ rows'[s].status = rows[s].status /\ ~rows'[s].mine
      BY <1>1, <2>1 DEF Row
    <3>3. RowOK(s)
      BY DEF Tidy
    <3>4. RowOK(s)'
      BY <2>1, <2>2, <3>2, <3>3 DEF RowOK, Going, Runs
    <3>5. Placed(s)'
      BY <2>1 DEF Placed
    <3> QED BY <3>1, <3>4, <3>5
  <2>4. BootOK'
    BY <2>1 DEF BootOK
  <2>5. \A t \in Tasks : tasks'[t] = None
    BY <2>1
  <2>6. Alone' /\ \A t \in Tasks : TaskOK(t)'
    BY <2>5 DEF Alone, TaskOK
  <2> QED BY <2>3, <2>4, <2>6 DEF Tidy
<1>4. CASE Listen
  <2> DEFINE N == {}
  <2>1. UNCHANGED <<procs, mem, rows, tasks, count>> /\ boot.phase = "off" /\ boot' = [boot EXCEPT !.phase = "listening"]
    BY <1>4 DEF Listen
  <2>2. boot'.phase = "listening" /\ boot'.sid = boot.sid /\ boot'.left = boot.left
    BY <2>1, TypeParts DEF Typed, Boot
  <2>3. Quieter /\ (\A s \in Sids : Same(s))
    BY <2>1, ProcsKept DEF Same, Tidy, SessionOK
  <2>4. /\ N \in SUBSET Sids /\ \A s \in Sids \ N : Same(s)
        /\ boot'.sid \in {0, boot.sid} \cup N /\ (boot.phase = "up" => boot'.phase = "up")
        /\ \A s \in Sids : s \in Sids \ N
        /\ \A u \in Tasks : tasks[u] # None => tasks[u].sid \notin N
    BY <2>1, <2>2, <2>3
  <2> HIDE DEF N
  <2>5. (\A s \in Sids : SessionOK(s)' /\ RowOK(s)') /\ \A u \in Tasks : TaskOK(u)'
    BY <1>2, <2>1, <2>3, <2>4, Frame
  <2>6. \A s \in Sids : Placed(s)'
    BY <2>2 DEF Placed
  <2>7. BootOK'
    BY <2>1, <2>2 DEF Tidy, BootOK
  <2>8. Alone'
    BY <2>1 DEF Tidy, Alone, Apart
  <2> QED BY <2>5, <2>6, <2>7, <2>8 DEF Tidy
<1> QED BY <1>3, <1>4

\* The loop takes the rows of the servers before.
LEMMA ReattachBeginsTidy ==
    ASSUME Typed, Typed', IInv, Tidy, ReattachBegins
    PROVE  Tidy'
<1>1. /\ rows \in [Sids -> Row \cup {None}] /\ tasks \in [Tasks -> Task \cup {None}]
  BY TypeParts DEF Typed
<1>2. /\ boot.phase = "listening" /\ UNCHANGED <<procs, mem, tasks, count>>
      /\ rows' = [s \in Sids |-> Orphaned(rows[s])]
      /\ boot'.phase = "reattaching" /\ boot'.sid = 0
      /\ boot'.left = {s \in Sids : rows'[s] # None /\ rows'[s].status = "orphaned"}
  BY DEF ReattachBegins
<1>3. ASSUME NEW s \in Sids
      PROVE  /\ rows'[s] = None <=> rows[s] = None
             /\ rows[s] # None => /\ rows'[s].pid = rows[s].pid
                                  /\ rows'[s].status = "active" => rows'[s] = rows[s] /\ rows[s].mine
                                  /\ rows'[s].status = "terminated" => rows'[s] = rows[s]
                                  /\ rows'[s].status \in {"active", "orphaned", "terminated"}
                                  /\ rows[s].mine /\ rows[s].status = "active" => rows'[s] = rows[s]
  <2>1. rows'[s] = Orphaned(rows[s])
    BY <1>2
  <2>2. CASE rows[s] = None
    BY <2>1, <2>2 DEF Orphaned
  <2>3. CASE rows[s] # None
    <3>1. rows[s] \in Row
      BY <1>1, <2>3
    <3>2. [rows[s] EXCEPT !.status = "orphaned"] \in Row
      BY <3>1 DEF Row
    <3>3. [rows[s] EXCEPT !.status = "orphaned"] # None
      BY <3>2, NoneAssumption
    <3>4. rows'[s] = IF rows[s].status = "active" /\ ~rows[s].mine THEN [rows[s] EXCEPT !.status = "orphaned"] ELSE rows[s]
      BY <2>1, <2>3 DEF Orphaned
    <3> QED BY <2>3, <3>1, <3>3, <3>4 DEF Row
  <2> QED BY <2>2, <2>3
<1>4. ASSUME NEW s \in Sids PROVE SessionOK(s)' /\ RowOK(s)' /\ Placed(s)'
  <2>1. SessionOK(s) /\ RowOK(s)
    BY DEF Tidy
  <2>2. SessionOK(s)'
    BY <1>2, <1>3, <2>1 DEF SessionOK, RowGood, Has
  <2>3. RowOK(s)'
    BY <1>2, <1>3, <2>1 DEF RowOK, Has, Going, Runs
  <2>4. Placed(s)'
    BY <1>2, <1>3 DEF Placed
  <2> QED BY <2>2, <2>3, <2>4
<1>5. BootOK'
  BY <1>2 DEF BootOK
<1>6. Alone'
  BY <1>2 DEF Tidy, Alone, Apart
<1>7. ASSUME NEW t \in Tasks, NEW k, tasks[t] = k, k # None, NEW n, k.sid = n PROVE TaskOK(t)'
  <2>1. Fine(k) /\ n \in 0..MaxSessions
    BY <1>1, <1>7 DEF Tidy, TaskOK, Task
  <2>2. k.op # "clean"
    BY <1>2, <2>1 DEF Fine
  <2>3. k.pc \in Raised => Raising(n, k)'
    BY <1>2, <1>7, <2>1 DEF Fine, Raising, Has, Going, Runs
  <2>4. k.op = "restart" /\ Has(n)' => Renewing(n, k)'
    <3> SUFFICES ASSUME k.op = "restart", Has(n) PROVE Renewing(n, k)'
      BY <1>2 DEF Has
    <3>1. Renewing(n, k) /\ n \in Sids
      BY <1>7, <2>1, Numbers DEF Fine, Has
    <3> QED BY <1>2, <1>3, <3>1 DEF Renewing, Going, Runs
  <2>5. k.pc \in {"reap", "kill"} /\ Has(n)' => ~GoingOn(mem'.sessions[n].pid)
    BY <1>2, <1>7, <2>1 DEF Fine, Has, Going, GoingOn, Runs
  <2>6. (k.op = "restart" \/ k.pc \in Raised => n # 0) /\ k.pid <= count'.pids /\ boot'.sid = 0 /\ tasks'[t] = k
    BY <1>2, <1>7, <2>1 DEF Fine
  <2>7. /\ k.pc \in Cleaning <=> k.op = "clean"
        /\ k.pc \in Restarting => k.op = "restart"
        /\ k.pc = "poll" \/ k.then = "port" => k.op = "create"
    BY <2>1 DEF Fine
  <2> QED BY <1>7, <2>2, <2>3, <2>4, <2>5, <2>6, <2>7 DEF TaskOK, Fine, Going, GoingOn, Runs
<1>8. \A t \in Tasks : TaskOK(t)'
  <2> SUFFICES ASSUME NEW t \in Tasks PROVE TaskOK(t)'
    OBVIOUS
  <2>1. CASE tasks[t] = None
    BY <1>2, <2>1 DEF TaskOK
  <2> QED BY <1>7, <2>1
<1> QED BY <1>4, <1>5, <1>6, <1>8 DEF Tidy
-----------------------------------------------------------------------------
(* What the loop has read *)

\* A start time that is on record is not another program's where a kernel runs.
Readable(r) == r # None => r.pid <= count.pids /\ (r.time = "other" => ~Kernel(r.pid))

\* ... nor is it after a step.
ReadableOn(r) == r # None =>
    r.pid <= count'.pids /\ (r.time = "other" => ~(r.pid # 0 /\ procs'[r.pid].st \in {"booting", "up"}))

\* What the loop has read is still in the store, but for a row whose kernel has ended and
\* that the clean-up has deleted.
Reads ==
    /\ \A s \in Sids : Readable(rows[s]) /\ Readable(boot.read[s])
    /\ Readable(boot.row)
    /\ \A s \in boot.left : rows[s] = boot.read[s] \/ (rows[s] = None /\ ~Kernel(boot.read[s].pid))

\* No process becomes a kernel that was there and was none.
Older == /\ count.pids <= count'.pids
         /\ \A p \in Pids : p <= count.pids /\ Kernel(p)' => Kernel(p)

LEMMA ReadableKept ==
    ASSUME Typed, Typed', Older, NEW r \in Row \cup {None}, Readable(r)
    PROVE  ReadableOn(r)
<1> SUFFICES ASSUME r # None PROVE ReadableOn(r)
  BY DEF ReadableOn
<1>1. r.pid \in Pids /\ r.pid <= count.pids /\ (r.time = "other" => ~Kernel(r.pid))
  BY DEF Readable, Row
<1>2. count.pids \in Nat /\ count'.pids \in Nat
  BY BoundAssumption DEF Typed, TypeOK
<1>3. r.pid <= count'.pids
  BY <1>1, <1>2 DEF Older, Pids
<1>4. r.time = "other" => ~(r.pid # 0 /\ procs'[r.pid].st \in {"booting", "up"})
  BY <1>1 DEF Older, Kernel
<1> QED BY <1>3, <1>4 DEF ReadableOn

\* Neither a session nor a request has to do with a row that the loop has left to do.
LEMMA LeftToDo ==
    ASSUME Typed, IInv, Tidy, NEW s \in boot.left
    PROVE  /\ mem.sessions[s] = None /\ boot.sid # s /\ boot.phase = "reattaching" /\ s \in Sids
           /\ \A t \in Tasks : tasks[t] # None => tasks[t].sid # s
<1>1. boot.phase = "reattaching" /\ s \in Sids /\ Old(s)
  BY TypeParts DEF Typed, Boot, Tidy, BootOK, Old
<1>2. /\ mem.sessions[s] = None /\ boot.sid # s
      /\ \A t \in Tasks : tasks[t] # None /\ tasks[t].sid = s => tasks[t].pc \in Cleaning
  BY <1>1 DEF IInv, OldIsUntouched
<1>3. \A t \in Tasks : tasks[t] # None => tasks[t].pc \notin Cleaning
  BY <1>1 DEF Tidy, TaskOK, Fine
<1> QED BY <1>1, <1>2, <1>3

\* A row is written that can be read, or goes, be it that of no kernel.
LEMMA ReadsFrame ==
    ASSUME Typed, Typed', Reads, Older, boot' = boot,
           \A s \in Sids :
              \/ rows'[s] = rows[s]
              \/ s \notin boot.left /\ ReadableOn(rows'[s])
              \/ rows'[s] = None /\ (rows[s] # None => ~Kernel(rows[s].pid))
    PROVE  Reads'
<1>1. /\ rows \in [Sids -> Row \cup {None}] /\ boot.read \in [Sids -> Row \cup {None}]
      /\ boot.row \in Row \cup {None} /\ boot.left \subseteq Sids
  BY TypeParts DEF Typed, Boot
<1>2. ASSUME NEW s \in Sids PROVE ReadableOn(rows'[s]) /\ ReadableOn(boot.read[s])
  <2>1. ReadableOn(rows[s]) /\ ReadableOn(boot.read[s])
    <3>1. rows[s] \in Row \cup {None} /\ boot.read[s] \in Row \cup {None} /\ Readable(rows[s]) /\ Readable(boot.read[s])
      BY <1>1 DEF Reads
    <3> QED BY <3>1, ReadableKept
  <2>2. ReadableOn(None)
    BY DEF ReadableOn
  <2> QED BY <2>1, <2>2
<1>3. ReadableOn(boot.row)
  BY <1>1, ReadableKept DEF Reads
<1>4. ASSUME NEW s \in boot'.left
      PROVE  rows'[s] = boot'.read[s] \/ (rows'[s] = None /\ ~Kernel(boot.read[s].pid)')
  <2>1. s \in boot.left /\ s \in Sids /\ boot.read[s] # None /\ boot.read[s] \in Row
    BY <1>1 DEF Typed, Known, LoopKnows
  <2>2. boot.read[s].pid \in Pids /\ boot.read[s].pid <= count.pids
    BY <2>1 DEF Reads, Readable, Row
  <2>3. ~Kernel(boot.read[s].pid) => ~Kernel(boot.read[s].pid)'
    BY <2>2 DEF Older
  <2>4. rows[s] = boot.read[s] \/ (rows[s] = None /\ ~Kernel(boot.read[s].pid))
    BY <2>1 DEF Reads
  <2> QED BY <2>1, <2>3, <2>4
<1>5. \A s \in Sids : Readable(rows[s])' /\ Readable(boot.read[s])'
  BY <1>2 DEF Readable, ReadableOn, Kernel
<1>6. Readable(boot.row)'
  BY <1>3 DEF Readable, ReadableOn, Kernel
<1> QED BY <1>4, <1>5, <1>6 DEF Reads

\* Signals, kills and what ps tells make no kernel.
LEMMA SignalsOld ==
    ASSUME Typed, count'.pids = count.pids,
           \/ procs' = procs
           \/ \E p \in 0..MaxProcs, who \in Marks : procs' \in {Signalled(p, who), Killed(p, who)}
           \/ \E P : procs' = Missed(P)
           \/ \E p, time : procs' = Recognised(p, time)
    PROVE  Older
<1>1. procs \in [Pids -> Proc] /\ count.pids <= count'.pids
  BY BoundAssumption DEF Typed, TypeOK
<1>2. CASE \E p \in 0..MaxProcs, who \in Marks : procs' \in {Signalled(p, who), Killed(p, who)}
  <2>1. PICK p \in 0..MaxProcs, who \in Marks : procs' = Signalled(p, who) \/ procs' = Killed(p, who)
    BY <1>2
  <2>2. ASSUME NEW q \in Pids PROVE procs'[q].st \in {"booting", "up"} => procs[q].st \in {"booting", "up"}
    BY <1>1, <2>1 DEF Signalled, Killed, Proc
  <2> QED BY <1>1, <2>2 DEF Older, Kernel
<1>3. CASE \/ \E P : procs' = Missed(P)
           \/ \E p, time : procs' = Recognised(p, time)
  <2>1. Noted
    BY <1>3, MissedNotes, RecognisedNotes
  <2> QED BY <1>1, <2>1 DEF Noted, Older, Kernel
<1>4. CASE procs' = procs
  BY <1>1, <1>4 DEF Older, Kernel
<1> QED BY <1>2, <1>3, <1>4

\* A stop, up to its sleep
LEMMA StopReads ==
    ASSUME Typed, Typed', IInv, Tidy, Reads, NEW t \in Tasks, NEW x \in Task, NEW s \in Sids, Has(s),
           StopBegins(t, x, s), boot' = boot, count'.pids = count.pids
    PROVE  Reads'
<1>1. s \notin boot.left
  BY LeftToDo DEF Has
<1>2. \A q \in Sids : q # s => rows'[q] = rows[q]
  BY TypeParts DEF StopBegins, Cleaned, Typed
<1>3. rows'[s] \in {None, rows[s]}
  BY DEF StopBegins, Cleaned
<1>4. mem.handle[s] \in 0..MaxProcs /\ mem.sessions[s].pid \in 0..MaxProcs /\ "stop" \in Marks
  BY TypeParts DEF Typed, Memory, Session, Has, Marks
<1>5. Older
  BY <1>4, SignalsOld DEF StopBegins
<1>6. \A q \in Sids : rows'[q] = rows[q] \/ (q \notin boot.left /\ ReadableOn(rows'[q]))
  BY <1>1, <1>2, <1>3 DEF ReadableOn
<1> QED BY <1>5, <1>6, ReadsFrame

\* Requests that come in
LEMMA AskedReads ==
    ASSUME Typed, Typed', IInv, Tidy, Reads, NEW t \in Tasks, Asked(t), "raced" \notin past'
    PROVE  Reads'
<1>1. /\ mem.sessions \in [Sids -> Session \cup {None}] /\ rows \in [Sids -> Row \cup {None}]
      /\ mem.handle \in [Sids -> 0..MaxProcs] /\ mem.files \in [Files -> 0..MaxSessions]
  BY TypeParts DEF Typed, Memory
<1>2. ASSUME Asks PROVE count'.pids = count.pids
  BY <1>2 DEF Asks, Typed, TypeOK
<1>3. ASSUME NEW s \in Sids, Stop(t, s) PROVE Reads'
  <2> DEFINE x == NewTask("stop", "reap", s, 0, mem.sessions[s].file, mem.sessions[s].name)
  <2>1. Has(s) /\ StopBegins(t, x, s) /\ boot' = boot /\ count'.pids = count.pids
    BY <1>2, <1>3 DEF Stop
  <2>2. x \in Task
    BY <1>1, <2>1, Numbers DEF Has, NewTask, Task, Session, AllRequests
  <2> HIDE DEF x
  <2> QED BY <2>1, <2>2, StopReads
<1>4. ASSUME NEW s \in Sids, Restart(t, s) PROVE Reads'
  <2>1. /\ rows' = rows /\ boot' = boot /\ count'.pids = count.pids /\ mem.handle[s] \in 0..MaxProcs
        /\ procs' \in {procs, Signalled(mem.handle[s], "restart")}
    BY <1>1, <1>2, <1>4 DEF Restart
  <2>2. Older
    BY <2>1, SignalsOld DEF Marks
  <2> QED BY <2>1, <2>2, ReadsFrame
<1>5. ASSUME NEW s \in Sids, CleanDead(t, s) PROVE Reads'
  <2>1. /\ boot.phase = "up" /\ boot' = boot /\ count'.pids = count.pids /\ procs' = procs
        /\ \A q \in Sids : rows'[q] \in {None, rows[q]}
    BY <1>1, <1>2, <1>5 DEF CleanDead, Notes
  <2>2. boot.left = {}
    BY <2>1 DEF Tidy, BootOK
  <2>3. Older
    BY <2>1, SignalsOld
  <2>4. \A q \in Sids : rows'[q] = rows[q] \/ (q \notin boot.left /\ ReadableOn(rows'[q]))
    BY <2>1, <2>2 DEF ReadableOn
  <2> QED BY <2>1, <2>3, <2>4, ReadsFrame
<1>6. ASSUME NEW s \in Sids, AutoCheck(t, s) PROVE Reads'
  <2>1. /\ rows' = rows /\ boot' = boot /\ count'.pids = count.pids
        /\ procs' = procs \/ procs' = Missed({rows[s].pid})
    BY <1>2, <1>6 DEF AutoCheck
  <2>2. Older
    BY <2>1, SignalsOld
  <2> QED BY <2>1, <2>2, ReadsFrame
<1>7. ASSUME NEW f \in Files, NEW n \in Names, StartKernel(t, f, n) PROVE Reads'
  <2>1. rows' = rows /\ boot' = boot /\ count'.pids = count.pids /\ procs' = procs
    BY <1>2, <1>7 DEF StartKernel
  <2>2. Older
    BY <2>1, SignalsOld
  <2> QED BY <2>1, <2>2, ReadsFrame
<1>8. ASSUME NEW f \in Files, NEW n \in Names, NEW s \in 0..MaxSessions, GetOrCreate(t, f, n, s) PROVE Reads'
  <2>1. boot' = boot /\ count'.pids = count.pids
    BY <1>2, <1>8 DEF GetOrCreate
  <2>2. CASE rows' = rows /\ procs' = procs
    <3>1. Older
      BY <2>1, <2>2, SignalsOld
    <3> QED BY <2>1, <2>2, <3>1, ReadsFrame
  <2>3. CASE ~(rows' = rows /\ procs' = procs)
    <3> DEFINE x == [NewTask("create", "port", 0, 0, f, n) EXCEPT !.then = "port"]
    <3>1. Live(s) /\ StopBegins(t, x, s)
      BY <1>8, <2>3 DEF GetOrCreate
    <3>2. x \in Task
      BY Numbers DEF NewTask, Task, AllRequests
    <3>3. s \in Sids /\ Has(s)
      BY <3>1, Numbers DEF Live, Has
    <3> HIDE DEF x
    <3> QED BY <2>1, <3>1, <3>2, <3>3, StopReads
  <2> QED BY <2>2, <2>3
<1> QED BY <1>3, <1>4, <1>5, <1>6, <1>7, <1>8 DEF Asked

\* A step of a request
LEMMA TaskReads ==
    ASSUME Typed, Typed', IInv, Tidy, Reads, NEW t \in Tasks, TaskStep(t)
    PROVE  Reads'
<1> DEFINE k == tasks[t]
           n == k.sid
<1>1. /\ mem.sessions \in [Sids -> Session \cup {None}] /\ rows \in [Sids -> Row \cup {None}]
      /\ tasks \in [Tasks -> Task \cup {None}] /\ count.pids \in 0..MaxProcs
  BY TypeParts DEF Typed, Memory, Count
<1>2. k \in Task /\ k # None /\ n \in 0..MaxSessions /\ k.pid \in 0..MaxProcs
  <2>1. k # None
    BY DEF TaskStep, StopEnds, Polled, SpawnNew, SpawnAgain, Booted, BootFails, Stamped,
           RestartVerified, RestartKills, CleanChecked, CleanEnds
  <2> QED BY <1>1, <2>1 DEF Task
<1>3. n \notin boot.left /\ boot' = boot /\ (n = 0 \/ n \in Sids)
  <2>1. boot' = boot
    BY DEF TaskStep, StopEnds, Polled, SpawnNew, SpawnAgain, Booted, BootFails, Stamped,
           RestartVerified, RestartKills, CleanChecked, CleanEnds
  <2> QED BY <1>2, <2>1, LeftToDo, Numbers
<1>4. ASSUME NEW q \in Sids PROVE {"stop", "restart", "clean"} \subseteq Marks
  BY DEF Marks
<1>5. ASSUME Older, \A q \in Sids : rows'[q] = rows[q] \/ (q = n /\ rows'[q] = None) PROVE Reads'
  <2>1. \A q \in Sids : rows'[q] = rows[q] \/ (q \notin boot.left /\ ReadableOn(rows'[q]))
    BY <1>3, <1>5 DEF ReadableOn
  <2> QED BY <1>3, <1>5, <2>1, ReadsFrame
<1>6. CASE StopEnds(t)
  <2>1. count'.pids = count.pids /\ procs' \in {procs, Killed(k.pid, "stop")}
    BY <1>6 DEF StopEnds
  <2>2. Older
    BY <1>2, <2>1, SignalsOld DEF Marks
  <2>3. \A q \in Sids : rows'[q] = rows[q] \/ (q = n /\ rows'[q] = None)
    BY <1>6 DEF StopEnds, Cleaned
  <2> QED BY <1>5, <2>2, <2>3
<1>7. CASE Polled(t) \/ Booted(t)
  <2>1. UNCHANGED <<procs, rows, count>>
    BY <1>7 DEF Polled, Booted
  <2>2. Older
    BY <2>1, SignalsOld
  <2> QED BY <1>5, <2>1, <2>2
<1>8. CASE SpawnNew(t) \/ SpawnAgain(t)
  <2>1. /\ rows' = rows /\ count'.pids = count.pids + 1
        /\ \A p \in Pids : p # count.pids + 1 => procs'[p] = procs[p]
    BY <1>8, TypeParts DEF SpawnNew, SpawnAgain, Typed, Count
  <2>2. Older
    BY <1>1, <2>1, BoundAssumption DEF Older, Kernel, Pids
  <2> QED BY <1>5, <2>1, <2>2
<1>9. CASE BootFails(t)
  <2>1. CASE Has(n)
    <3>1. StopBegins(t, k, n) /\ boot' = boot /\ count'.pids = count.pids
      BY <1>9, <2>1 DEF BootFails
    <3>2. n \in Sids
      BY <1>3, <2>1 DEF Has
    <3> HIDE DEF k, n
    <3> QED BY <1>2, <2>1, <3>1, <3>2, StopReads
  <2>2. CASE ~Has(n)
    <3>1. UNCHANGED <<procs, rows, count>>
      BY <1>9, <2>2 DEF BootFails
    <3>2. Older
      BY <3>1, SignalsOld
    <3> QED BY <1>5, <3>1, <3>2
  <2> QED BY <2>1, <2>2
<1>10. CASE Stamped(t)
  <2>1. PICK time \in StartTimes :
          /\ rows' = Recorded(n, [status |-> "active", pid |-> k.pid, file |-> k.file,
                                  name |-> k.name, mine |-> TRUE, time |-> time])
          /\ procs' = Recognised(k.pid, time)
          /\ time = "other" => ~Kernel(k.pid)
    BY <1>10, StartTimeIs DEF Stamped
  <2>2. count' = count /\ k.pc = "stamp"
    BY <1>10 DEF Stamped
  <2>3. Older
    BY <2>1, <2>2, SignalsOld
  <2>4. k.pid \in Pids /\ k.pid <= count.pids
    BY <1>2, <2>2 DEF Typed, Known, Tidy, TaskOK, Fine
  <2>5. PICK r : r = [status |-> "active", pid |-> k.pid, file |-> k.file, name |-> k.name, mine |-> TRUE, time |-> time]
    OBVIOUS
  <2>6. r \in Row \cup {None} /\ Readable(r)
    BY <1>2, <2>1, <2>4, <2>5 DEF Readable, Row, Task
  <2>7. ReadableOn(r)
    BY <2>3, <2>6, ReadableKept
  <2>8. \A q \in Sids : rows'[q] = rows[q] \/ (q = n /\ rows'[q] = r)
    BY <1>1, <2>1, <2>5 DEF Recorded
  <2>9. \A q \in Sids : rows'[q] = rows[q] \/ (q \notin boot.left /\ ReadableOn(rows'[q]))
    BY <1>3, <2>7, <2>8 DEF ReadableOn
  <2> QED BY <1>3, <2>3, <2>9, ReadsFrame
<1>11. CASE RestartVerified(t)
  <2>1. rows' = rows /\ count' = count /\ (procs' \in {procs, Signalled(k.pid, "restart")} \/ procs' = Missed({k.pid}))
    BY <1>11 DEF RestartVerified
  <2>2. Older
    BY <1>2, <2>1, SignalsOld DEF Marks
  <2> QED BY <1>5, <2>1, <2>2
<1>12. CASE RestartKills(t)
  <2>1. rows' = rows /\ count' = count /\ procs' \in {procs, Killed(k.pid, "restart")}
    BY <1>12 DEF RestartKills
  <2>2. Older
    BY <1>2, <2>1, SignalsOld DEF Marks
  <2> QED BY <1>5, <2>1, <2>2
<1>13. CASE CleanChecked(t) \/ CleanEnds(t)
  <2>1. /\ count' = count /\ procs' \in {procs, Signalled(k.pid, "clean"), Killed(k.pid, "clean")}
        /\ \A q \in Sids : rows'[q] = rows[q] \/ (q = n /\ rows'[q] = None)
    BY <1>1, <1>13 DEF CleanChecked, CleanEnds
  <2>2. Older
    BY <1>2, <2>1, SignalsOld DEF Marks
  <2> QED BY <1>5, <2>1, <2>2
<1> QED BY <1>6, <1>7, <1>8, <1>9, <1>10, <1>11, <1>12, <1>13 DEF TaskStep

\* Steps of the processes, the sweep and the clock
LEMMA WorldReads ==
    ASSUME Typed, Typed', IInv, Tidy, Reads,
           \/ \E p \in Pids : KernelUp(p) \/ Exit(p) \/ Reuse(p) \/ ExitEvent(p)
           \/ \E s \in Sids : Quiet(s)
           \/ AutoClean \/ SweepLiveness
    PROVE  Reads'
<1>1. procs \in [Pids -> Proc] /\ rows \in [Sids -> Row \cup {None}] /\ count.pids <= count.pids
  BY BoundAssumption DEF Typed, TypeOK
<1>2. boot' = boot /\ count'.pids = count.pids
  BY DEF KernelUp, Exit, Reuse, ExitEvent, Quiet, AutoClean, SweepLiveness, Typed, TypeOK
<1>3. ASSUME NEW p \in Pids, KernelUp(p) \/ Exit(p) \/ Reuse(p) PROVE Reads'
  <2>1. Older
    <3>1. \A q \in Pids : procs'[q].st \in {"booting", "up"} => procs[q].st \in {"booting", "up"}
      BY <1>1, <1>3 DEF KernelUp, Exit, Reuse, Proc
    <3> QED BY <1>1, <1>2, <3>1 DEF Older, Kernel
  <2>2. rows' = rows
    BY <1>3 DEF KernelUp, Exit, Reuse
  <2> QED BY <1>2, <2>1, <2>2, ReadsFrame
<1>4. ASSUME UNCHANGED procs, \A s \in Sids : \/ rows'[s] = rows[s]
                                              \/ rows'[s] = None /\ mem.sessions[s] # None
                                              \/ rows'[s] = None /\ ~Alive(rows[s].pid)
      PROVE  Reads'
  <2>1. Older
    BY <1>2, <1>4, SignalsOld
  <2>2. \A s \in Sids : rows[s] # None /\ ~Alive(rows[s].pid) => ~Kernel(rows[s].pid)
    BY DEF Alive, Kernel
  <2>3. \A s \in boot.left : mem.sessions[s] = None
    BY LeftToDo
  <2>4. \A s \in Sids : \/ rows'[s] = rows[s]
                        \/ s \notin boot.left /\ ReadableOn(rows'[s])
                        \/ rows'[s] = None /\ (rows[s] # None => ~Kernel(rows[s].pid))
    BY <1>4, <2>2, <2>3 DEF ReadableOn
  <2> QED BY <1>2, <2>1, <2>4, ReadsFrame
<1>5. ASSUME NEW p \in Pids, ExitEvent(p) PROVE Reads'
  BY <1>4, <1>5 DEF ExitEvent, Cleaned
<1>6. ASSUME NEW s \in Sids, Quiet(s) PROVE Reads'
  BY <1>4, <1>6 DEF Quiet
<1>7. CASE AutoClean
  BY <1>4, <1>7 DEF AutoClean, Without
<1>8. CASE SweepLiveness
  BY <1>4, <1>8 DEF SweepLiveness, Cleaned
<1> QED BY <1>3, <1>5, <1>6, <1>7, <1>8

\* A crash, the start of a server, and the loop
LEMMA StartReads ==
    ASSUME Typed, Typed', IInv, Tidy, Reads, Crash \/ Listen \/ Reattaching
    PROVE  Reads'
<1>1. /\ rows \in [Sids -> Row \cup {None}] /\ boot \in Boot /\ boot.read \in [Sids -> Row \cup {None}]
      /\ boot.row \in Row \cup {None} /\ boot.left \subseteq Sids
  BY TypeParts DEF Typed, Boot
<1>2. Older
  <2>1. /\ count'.pids = count.pids
        /\ procs' = procs \/ (\E P : procs' = Missed(P)) \/ (\E p, time : procs' = Recognised(p, time))
    BY DEF Crash, Listen, Reattaching, ReattachBegins, ReattachNext, ReattachEnds, ReattachDone, Typed, TypeOK
  <2> QED BY <2>1, SignalsOld
<1>3. /\ ReadableOn(None) /\ ReadableOn(boot.row)
      /\ \A s \in Sids : ReadableOn(rows[s]) /\ ReadableOn(boot.read[s])
  BY <1>1, <1>2, ReadableKept DEF Reads, ReadableOn
<1>4. ASSUME NEW r, ReadableOn(r), r # None, NEW q, q.pid = r.pid, q.time = r.time PROVE ReadableOn(q)
  BY <1>4 DEF ReadableOn
<1>5. ASSUME \A s \in Sids : ReadableOn(rows'[s]) /\ ReadableOn(boot'.read[s]), ReadableOn(boot'.row),
             \A s \in boot'.left : s \in boot.left /\ rows'[s] = rows[s] /\ boot'.read[s] = boot.read[s]
      PROVE  Reads'
  <2>1. ASSUME NEW s \in boot'.left PROVE rows'[s] = boot'.read[s] \/ (rows'[s] = None /\ ~Kernel(boot.read[s].pid)')
    <3>1. rows[s] = boot.read[s] \/ (rows[s] = None /\ ~Kernel(boot.read[s].pid))
      BY <1>5, <2>1 DEF Reads
    <3>2. boot.read[s] \in Row /\ boot.read[s].pid \in Pids /\ boot.read[s].pid <= count.pids
      BY <1>1, <1>5, <2>1 DEF Typed, Known, LoopKnows, Reads, Readable, Row
    <3>3. ~Kernel(boot.read[s].pid) => ~(boot.read[s].pid # 0 /\ procs'[boot.read[s].pid].st \in {"booting", "up"})
      BY <1>2, <3>2 DEF Older, Kernel
    <3>4. ~Kernel(boot.read[s].pid) => ~Kernel(boot.read[s].pid)'
      BY <1>5, <2>1, <3>3 DEF Kernel
    <3> QED BY <1>5, <2>1, <3>1, <3>4
  <2>2. \A s \in Sids : Readable(rows[s])' /\ Readable(boot.read[s])'
    BY <1>5 DEF Readable, ReadableOn, Kernel
  <2>3. Readable(boot.row)'
    BY <1>5 DEF Readable, ReadableOn, Kernel
  <2> QED BY <2>1, <2>2, <2>3 DEF Reads
<1>6. CASE Crash
  <2>1. boot' = [phase |-> "off", left |-> {}, read |-> NoRows, sid |-> 0, row |-> None]
    BY <1>6 DEF Crash
  <2>2. ASSUME NEW s \in Sids PROVE ReadableOn(rows'[s])
    <3>1. rows'[s] = IF rows[s] = None THEN None ELSE [rows[s] EXCEPT !.mine = FALSE]
      BY <1>6 DEF Crash
    <3>2. rows[s] # None => [rows[s] EXCEPT !.mine = FALSE].pid = rows[s].pid /\ [rows[s] EXCEPT !.mine = FALSE].time = rows[s].time
      BY <1>1 DEF Row
    <3> QED BY <1>3, <1>4, <3>1, <3>2
  <2> QED BY <1>3, <1>5, <2>1, <2>2 DEF NoRows
<1>7. CASE Listen
  <2>1. rows' = rows /\ boot'.read = boot.read /\ boot'.left = boot.left /\ boot'.row = boot.row
    BY <1>1, <1>7 DEF Listen, Boot
  <2> QED BY <1>3, <1>5, <2>1
<1>8. CASE ReattachBegins
  <2>1. boot'.read = rows' /\ boot'.row = None /\ rows' = [s \in Sids |-> Orphaned(rows[s])]
    BY <1>8 DEF ReattachBegins
  <2>2. ASSUME NEW s \in Sids PROVE ReadableOn(rows'[s])
    <3>1. rows'[s] = rows[s] \/ (rows[s] # None /\ rows'[s] = [rows[s] EXCEPT !.status = "orphaned"])
      BY <2>1 DEF Orphaned
    <3>2. rows[s] # None => /\ [rows[s] EXCEPT !.status = "orphaned"].pid = rows[s].pid
                            /\ [rows[s] EXCEPT !.status = "orphaned"].time = rows[s].time
      BY <1>1 DEF Row
    <3> QED BY <1>3, <1>4, <3>1, <3>2
  <2>3. \A s \in Sids : Readable(rows[s])' /\ Readable(boot.read[s])'
    BY <2>1, <2>2 DEF Readable, ReadableOn, Kernel
  <2>4. Readable(boot.row)'
    BY <2>1 DEF Readable
  <2> QED BY <2>1, <2>3, <2>4 DEF Reads
<1>9. ASSUME NEW s \in Sids, rows' = Terminated(s) PROVE \A q \in Sids : ReadableOn(rows'[q]) /\ (q # s => rows'[q] = rows[q])
  <2>1. CASE rows[s] = None
    BY <1>3, <1>9, <2>1 DEF Terminated
  <2>2. CASE rows[s] # None
    <3> DEFINE q == [rows[s] EXCEPT !.status = "terminated"]
    <3>1. q.pid = rows[s].pid /\ q.time = rows[s].time
      BY <1>1, <2>2 DEF Row
    <3>2. ReadableOn(q) /\ rows' = [rows EXCEPT ![s] = q]
      BY <1>3, <1>4, <1>9, <2>2, <3>1 DEF Terminated
    <3> HIDE DEF q
    <3> QED BY <1>1, <1>3, <3>2
  <2> QED BY <2>1, <2>2
<1>10. ASSUME NEW s \in Sids, ReattachNext(s) PROVE Reads'
  <2>1. /\ boot'.read = boot.read /\ boot'.left = boot.left \ {s} /\ boot'.row \in {boot.row, boot.read[s]}
        /\ rows' = rows \/ rows' = Terminated(s)
    BY <1>1, <1>10 DEF ReattachNext, Boot
  <2>2. \A q \in Sids : ReadableOn(rows'[q]) /\ (q # s => rows'[q] = rows[q])
    BY <1>3, <1>9, <2>1
  <2> QED BY <1>1, <1>3, <1>5, <2>1, <2>2
<1>11. CASE ReattachEnds
  <2>1. /\ boot.sid \in Sids /\ boot.row \in Row /\ boot.sid \notin boot.left
        /\ boot'.read = boot.read /\ boot'.left = boot.left /\ boot'.row = None
    <3>1. boot.sid # 0 /\ boot' = [boot EXCEPT !.sid = 0, !.row = None]
      BY <1>11 DEF ReattachEnds
    <3>2. boot.sid \in Sids /\ boot.row \in Row
      BY <1>1, <3>1, Numbers DEF Typed, Known, LoopKnows, Boot
    <3> QED BY <1>1, <3>1, <3>2, LeftToDo DEF Boot
  <2>2. CASE rows' = Terminated(boot.sid)
    <3>1. \A q \in Sids : ReadableOn(rows'[q]) /\ (q # boot.sid => rows'[q] = rows[q])
      BY <1>9, <2>1, <2>2
    <3> QED BY <1>1, <1>3, <1>5, <2>1, <3>1
  <2>3. CASE rows' # Terminated(boot.sid)
    <3>1. PICK time \in StartTimes : /\ rows' = Recorded(boot.sid, [boot.row EXCEPT !.status = "active", !.mine = TRUE, !.time = time])
                                     /\ time = boot.row.time \/ (time = "other" => ~Kernel(boot.row.pid))
      <4>1. PICK answered \in BOOLEAN :
               LET time == IF boot.row.time # "none" THEN boot.row.time ELSE StartTime(boot.row.pid, answered)
               IN rows' = Recorded(boot.sid, [boot.row EXCEPT !.status = "active", !.mine = TRUE, !.time = time])
        BY <1>11, <2>3 DEF ReattachEnds, Answers
      <4>2. boot.row.time \in StartTimes
        BY <2>1 DEF Row
      <4>3. CASE boot.row.time # "none"
        BY <4>1, <4>2, <4>3
      <4>4. CASE boot.row.time = "none"
        BY <4>1, <4>4, StartTimeIs
      <4> QED BY <4>3, <4>4
    <3>2. PICK x : x = [boot.row EXCEPT !.status = "active", !.mine = TRUE, !.time = time]
      OBVIOUS
    <3>3. x.pid = boot.row.pid /\ x.time = time /\ x \in Row
      BY <2>1, <3>2 DEF Row
    <3>4. Readable(x)
      BY <2>1, <3>1, <3>3, NoneAssumption DEF Reads, Readable
    <3>5. ReadableOn(x)
      BY <1>2, <3>3, <3>4, ReadableKept
    <3>6. \A q \in Sids : rows'[q] = IF q = boot.sid THEN x ELSE rows[q]
      BY <1>1, <2>1, <3>1, <3>2 DEF Recorded
    <3> QED BY <1>1, <1>3, <1>5, <2>1, <3>5, <3>6
  <2> QED BY <2>2, <2>3
<1>12. CASE ReattachDone
  <2>1. /\ boot'.left = {} /\ boot'.read = NoRows /\ boot'.row = boot.row
        /\ \A s \in Sids : rows'[s] \in {None, rows[s]}
    BY <1>1, <1>12 DEF ReattachDone, Boot, Without
  <2> QED BY <1>3, <1>5, <2>1 DEF NoRows
<1> QED BY <1>6, <1>7, <1>8, <1>10, <1>11, <1>12 DEF Reattaching

LEMMA ReadsInit == Init => Reads
BY DEF Init, NoRows, Reads, Readable

\* Every step keeps them, unless a restart or a clean-up races with something.
LEMMA ReadsStep ==
    ASSUME Typed, Typed', IInv, Tidy, Reads, [Next]_vars, "raced" \notin past'
    PROVE  Reads'
<1>1. ASSUME NEW t \in Tasks, Asked(t) PROVE Reads'
  BY <1>1, AskedReads
<1>2. ASSUME NEW t \in Tasks, TaskStep(t) PROVE Reads'
  BY <1>2, TaskReads
<1>3. CASE \/ \E p \in Pids : KernelUp(p) \/ Exit(p) \/ Reuse(p) \/ ExitEvent(p)
           \/ \E s \in Sids : Quiet(s)
           \/ AutoClean \/ SweepLiveness
  BY <1>3, WorldReads
<1>4. CASE Crash \/ Listen \/ Reattaching
  BY <1>4, StartReads
<1>5. CASE UNCHANGED vars
  <2>1. Reads' <=> Reads
    BY <1>5 DEF vars, Reads, Readable, Kernel
  <2> QED BY <2>1
<1> QED BY <1>1, <1>2, <1>3, <1>4, <1>5, Zenon DEF Next

-----------------------------------------------------------------------------
\* The loop gives up the row of a kernel that has ended, or enters the session of
\* one that runs.
LEMMA ReattachNextTidy ==
    ASSUME Typed, Typed', IInv, Tidy, Reads, NEW s \in Sids, ReattachNext(s)
    PROVE  Tidy'
<1>1. /\ rows \in [Sids -> Row \cup {None}] /\ tasks \in [Tasks -> Task \cup {None}] /\ mem \in Memory
      /\ mem.sessions \in [Sids -> Session \cup {None}]
  BY TypeParts DEF Typed, Memory
<1>2. count.pids \in Nat /\ count.pids <= count.pids
  BY BoundAssumption DEF Typed, TypeOK
<1>3. PICK r : r = boot.read[s]
  OBVIOUS
<1>4. /\ boot.phase = "reattaching" /\ boot.sid = 0 /\ s \in boot.left /\ UNCHANGED <<tasks, count>> /\ s # 0
  BY DEF ReattachNext, Sids
<1>5. /\ mem.sessions[s] = None /\ mem.handle[s] = 0
      /\ \A t \in Tasks : tasks[t] # None => tasks[t].sid # s
  <2>1. Old(s)
    BY <1>4 DEF Old
  <2> QED BY <1>4, <2>1, LeftToDo DEF IInv, OldIsUntouched
<1>7. /\ r \in Row /\ r # None /\ r.pid \in Pids /\ r.pid <= count.pids
      /\ r.time = "other" => ~Kernel(r.pid)
      /\ rows[s] = r \/ (rows[s] = None /\ ~Kernel(r.pid))
  <2>1. r \in Row /\ r # None
    BY <1>3, <1>4, TypeParts DEF Typed, Known, LoopKnows, Boot
  <2>2. Readable(r) /\ (rows[s] = r \/ (rows[s] = None /\ ~Kernel(r.pid)))
    BY <1>3, <1>4 DEF Reads
  <2> QED BY <2>1, <2>2 DEF Readable, Row
<1> DEFINE gone == ~GoingOn(r.pid) /\ mem' = mem /\ rows' = Terminated(s) /\ boot' = [boot EXCEPT !.left = boot.left \ {s}]
           entered == /\ procs' = procs /\ rows' = rows /\ boot' = [boot EXCEPT !.left = boot.left \ {s}, !.sid = s, !.row = r]
                      /\ mem' = [mem EXCEPT !.sessions[s] = [status |-> "starting", pid |-> r.pid, file |-> r.file,
                                                             name |-> r.name, quiet |-> FALSE],
                                            !.files[r.file] = s, !.sock[s] = r.pid]
<1>6. Quieter /\ (gone \/ entered)
  <2>1. PICK answered \in BOOLEAN :
          IF Lost(r, answered)
          THEN /\ rows' = Terminated(s) /\ boot' = [boot EXCEPT !.left = boot.left \ {s}] /\ mem' = mem
               /\ procs' = IF answered THEN procs ELSE Missed({r.pid})
          ELSE entered
    BY <1>3 DEF ReattachNext, Answers
  <2>2. CASE Lost(r, answered) /\ answered
    <3>1. Quieter /\ (GoingOn(r.pid) <=> Going(r.pid))
      BY <2>1, <2>2, ProcsKept
    <3>2. ~Going(r.pid)
      BY <1>7, <2>2 DEF Lost, Alive, Expected, Kernel, Going, Pids
    <3> QED BY <2>1, <2>2, <3>1, <3>2
  <2>3. CASE Lost(r, answered) /\ ~answered
    <3>1. procs' = Missed({r.pid})
      BY <2>1, <2>3
    <3> QED BY <2>1, <2>3, <3>1, MissedEnds
  <2>4. CASE ~Lost(r, answered)
    BY <2>1, <2>4, ProcsKept
  <2> QED BY <2>2, <2>3, <2>4
<1>8. gone \/ (entered /\ \A p : GoingOn(p) <=> Going(p))
  BY <1>6, ProcsKept
<1>9. /\ boot'.phase = "reattaching" /\ boot'.left = boot.left \ {s}
      /\ boot'.sid \in {0, s}
      /\ boot'.sid # 0 => entered /\ boot'.row = r
  BY <1>4, <1>6, TypeParts DEF Typed, Boot
<1>10. /\ \A q \in Sids \ {s} : rows'[q] = rows[q] /\ mem'.sessions[q] = mem.sessions[q]
       /\ mem'.handle = mem.handle
       /\ \/ /\ ~GoingOn(r.pid) /\ mem'.sessions[s] = None /\ boot'.sid = 0
             /\ rows'[s] # None => rows'[s].status = "terminated" /\ rows'[s].pid = r.pid
          \/ /\ \A p : GoingOn(p) <=> Going(p)
             /\ mem'.sessions[s] # None /\ mem'.sessions[s].pid = r.pid /\ mem'.sessions[s].status = "starting"
             /\ rows'[s] = rows[s] /\ (rows[s] # None => rows[s] = r) /\ boot'.sid = s /\ boot'.row = r
  <2>1. CASE gone
    <3>1. CASE rows[s] = None
      <4>1. rows' = rows /\ boot'.sid = 0
        BY <1>1, <1>4, <2>1, <3>1, TypeParts DEF Terminated, Typed, Boot
      <4> QED BY <1>5, <2>1, <3>1, <4>1
    <3>2. CASE rows[s] # None
      <4>1. rows' = [rows EXCEPT ![s] = [rows[s] EXCEPT !.status = "terminated"]] /\ rows[s] = r
        BY <1>7, <2>1, <3>2 DEF Terminated
      <4>2. rows'[s] = [r EXCEPT !.status = "terminated"] /\ \A q \in Sids \ {s} : rows'[q] = rows[q]
        BY <1>1, <4>1
      <4>3. rows'[s].status = "terminated" /\ rows'[s].pid = r.pid
        BY <1>7, <4>2 DEF Row
      <4>4. boot'.sid = 0
        BY <1>4, <2>1, TypeParts DEF Typed, Boot
      <4> QED BY <1>5, <2>1, <4>2, <4>3, <4>4
    <3> QED BY <3>1, <3>2
  <2>2. CASE entered
    <3>2. PICK x : x = [status |-> "starting", pid |-> r.pid, file |-> r.file, name |-> r.name, quiet |-> FALSE]
      OBVIOUS
    <3>3. x \in Session /\ x.pid = r.pid /\ x.status = "starting"
      BY <1>7, <3>2, Numbers DEF Session, Row
    <3>4. x # None
      BY <3>3, NoneAssumption
    <3>5. mem' = [mem EXCEPT !.sessions[s] = x, !.files[r.file] = s, !.sock[s] = r.pid] /\ rows' = rows
      BY <2>2, <3>2
    <3>6. mem'.sessions = [mem.sessions EXCEPT ![s] = x] /\ mem'.handle = mem.handle
      BY <1>1, <3>5 DEF Memory
    <3>7. mem'.sessions[s] = x /\ \A q \in Sids \ {s} : mem'.sessions[q] = mem.sessions[q]
      BY <1>1, <3>6
    <3>8. boot'.sid = s /\ boot'.row = r
      BY <2>2, TypeParts DEF Typed, Boot
    <3>9. \A p : GoingOn(p) <=> Going(p)
      BY <2>2, ProcsKept
    <3> QED BY <1>7, <3>3, <3>4, <3>5, <3>6, <3>7, <3>8, <3>9
  <2> QED BY <1>6, <2>1, <2>2
<1> HIDE DEF gone, entered
<1>12. \A q \in Sids \ {s} : Same(q)
  BY <1>10 DEF Same, Tidy, SessionOK
<1> DEFINE N == {s}
<1>13. /\ N \in SUBSET Sids /\ \A q \in Sids \ N : Same(q)
       /\ boot'.sid \in {0, boot.sid} \cup N /\ (boot.phase = "up" => boot'.phase = "up")
       /\ \A q \in Sids : q = s \/ q \in Sids \ N
       /\ \A u \in Tasks : tasks'[u] = tasks[u] /\ (tasks[u] # None => tasks[u].sid \notin N)
  BY <1>4, <1>5, <1>9, <1>12
<1> HIDE DEF N
<1>14. (\A q \in Sids \ N : SessionOK(q)' /\ RowOK(q)') /\ \A u \in Tasks : TaskOK(u)'
  <2>1. count.pids <= count'.pids
    BY <1>2, <1>4
  <2> QED BY <1>6, <1>13, <2>1, Frame
<1>15. ASSUME NEW q \in Sids \ {s} PROVE Placed(q)'
  <2>1. Placed(q) /\ q # boot.sid /\ rows'[q] = rows[q]
    BY <1>4, <1>10 DEF Tidy, Sids
  <2> QED BY <1>4, <1>9, <2>1 DEF Placed
<1>16. SessionOK(s)' /\ RowOK(s)' /\ Placed(s)'
  <2>1. SessionOK(s)'
    BY <1>4, <1>5, <1>7, <1>10 DEF SessionOK, Has
  <2>2. RowOK(s)'
    <3>1. RowOK(s)
      BY DEF Tidy
    <3>2. Has(s)' <=> mem'.sessions[s] # None
      BY <1>4 DEF Has
    <3> QED BY <1>4, <1>7, <1>10, <3>1, <3>2 DEF RowOK, Going, GoingOn
  <2>3. Placed(s)'
    BY <1>9, <1>10 DEF Placed
  <2> QED BY <2>1, <2>2, <2>3
<1>17. BootOK'
  BY <1>4, <1>7, <1>9, <1>10 DEF BootOK, Has
<1>18. Alone'
  BY <1>4 DEF Tidy, Alone, Apart
<1> QED BY <1>13, <1>14, <1>15, <1>16, <1>17, <1>18 DEF Tidy, N

\* It ends with a row, or with a session that is forgotten.
LEMMA ReattachEndsTidy ==
    ASSUME Typed, Typed', IInv, Tidy, ReattachEnds,
           NEW s, s = boot.sid, NEW r, r = boot.row
    PROVE  Tidy'
<1>1. /\ rows \in [Sids -> Row \cup {None}] /\ tasks \in [Tasks -> Task \cup {None}] /\ mem \in Memory
      /\ mem.sessions \in [Sids -> Session \cup {None}] /\ mem.handle \in [Sids -> 0..MaxProcs]
  BY TypeParts DEF Typed, Memory
<1>2. count.pids \in Nat /\ count.pids <= count.pids
  BY BoundAssumption DEF Typed, TypeOK
<1>3. /\ boot.phase = "reattaching" /\ s # 0 /\ UNCHANGED <<tasks, count>>
      /\ boot' = [boot EXCEPT !.sid = 0, !.row = None]
  BY DEF ReattachEnds
<1>4. s \in Sids /\ r \in Row /\ r.pid \in Pids
  BY <1>3, Numbers, TypeParts DEF Typed, Known, LoopKnows, Boot, Row
<1>5. boot'.phase = "reattaching" /\ boot'.sid = 0 /\ boot'.left = boot.left
  BY <1>3, TypeParts DEF Typed, Boot
<1>6. /\ r.pid <= count.pids
      /\ Has(s) => mem.sessions[s].pid = r.pid /\ mem.sessions[s].status = "starting"
      /\ ~Has(s) => ~Going(r.pid)
      /\ rows[s] # None => rows[s].pid = r.pid
  BY <1>3 DEF Tidy, BootOK
<1>8. \/ \E time \in StartTimes :
            /\ rows' = Recorded(s, [r EXCEPT !.status = "active", !.mine = TRUE, !.time = time])
            /\ mem' = IF Has(s) THEN [mem EXCEPT !.sessions[s].status = "ready"] ELSE mem
            /\ procs' = procs \/ (procs' = Recognised(r.pid, time) /\ (time = "other" => ~Kernel(r.pid)))
      \/ ~Alive(r.pid) /\ mem' = Forgotten(mem, {s}) /\ rows' = Terminated(s) /\ procs' = procs
  <2>1. CASE Responds(s) \/ Alive(r.pid)
    <3>1. mem' = IF Has(s) THEN [mem EXCEPT !.sessions[s].status = "ready"] ELSE mem
      BY <2>1 DEF ReattachEnds
    <3>2. CASE r.time # "none"
      <4>1. rows' = Recorded(s, [r EXCEPT !.status = "active", !.mine = TRUE, !.time = r.time]) /\ procs' = procs
        BY <2>1, <3>2 DEF ReattachEnds
      <4> QED BY <1>4, <3>1, <4>1 DEF Row
    <3>3. CASE r.time = "none"
      <4>1. PICK answered \in Answers :
              /\ rows' = Recorded(s, [r EXCEPT !.status = "active", !.mine = TRUE, !.time = StartTime(r.pid, answered)])
              /\ procs' = Recognised(r.pid, StartTime(r.pid, answered))
        BY <2>1, <3>3 DEF ReattachEnds
      <4>2. PICK time : time = StartTime(r.pid, answered)
        OBVIOUS
      <4>3. time \in StartTimes /\ (time = "other" => ~Kernel(r.pid))
        BY <4>2, StartTimeIs
      <4>4. rows' = Recorded(s, [r EXCEPT !.status = "active", !.mine = TRUE, !.time = time]) /\ procs' = Recognised(r.pid, time)
        BY <4>1, <4>2
      <4> QED BY <3>1, <4>3, <4>4
    <3> QED BY <3>2, <3>3
  <2>2. CASE ~(Responds(s) \/ Alive(r.pid))
    BY <2>2 DEF ReattachEnds
  <2> QED BY <2>1, <2>2
<1>7. Quieter /\ (\A p : GoingOn(p) <=> Going(p))
  <2>1. procs' = procs \/ \E time : procs' = Recognised(r.pid, time) /\ (time = "other" => ~Kernel(r.pid))
    BY <1>8
  <2> QED BY <2>1, ProcsKept, RecognisedEnds
<1>9. /\ \A q \in Sids \ {s} : rows'[q] = rows[q] /\ mem'.sessions[q] = mem.sessions[q] /\ mem'.handle[q] = mem.handle[q]
      /\ mem'.handle[s] \in {0, mem.handle[s]}
      /\ mem'.sessions[s] # None => Has(s) /\ mem'.sessions[s].pid = r.pid
      /\ rows'[s] # None => rows'[s].pid = r.pid
      /\ \/ /\ rows'[s] # None /\ rows'[s].status = "active" /\ rows'[s].mine
            /\ Has(s) => mem'.sessions[s] # None
         \/ mem'.sessions[s] = None /\ ~Going(r.pid) /\ (rows'[s] # None => rows'[s].status = "terminated")
  <2>1. ASSUME NEW time \in StartTimes,
               rows' = Recorded(s, [r EXCEPT !.status = "active", !.mine = TRUE, !.time = time]),
               mem' = IF Has(s) THEN [mem EXCEPT !.sessions[s].status = "ready"] ELSE mem
        PROVE  /\ \A q \in Sids \ {s} : rows'[q] = rows[q] /\ mem'.sessions[q] = mem.sessions[q] /\ mem'.handle[q] = mem.handle[q]
               /\ mem'.handle[s] = mem.handle[s]
               /\ mem'.sessions[s] # None => Has(s) /\ mem'.sessions[s].pid = r.pid
               /\ rows'[s] # None /\ rows'[s].pid = r.pid /\ rows'[s].status = "active" /\ rows'[s].mine
               /\ Has(s) => mem'.sessions[s] # None
    <3>1. PICK x : x = [r EXCEPT !.status = "active", !.mine = TRUE, !.time = time]
      OBVIOUS
    <3>2. x \in Row /\ x.status = "active" /\ x.mine /\ x.pid = r.pid
      BY <1>4, <2>1, <3>1 DEF Row
    <3>3. rows'[s] = x /\ x # None /\ \A q \in Sids \ {s} : rows'[q] = rows[q]
      BY <1>1, <1>4, <2>1, <3>1, <3>2, NoneAssumption DEF Recorded
    <3>4. /\ mem'.handle = mem.handle /\ \A q \in Sids \ {s} : mem'.sessions[q] = mem.sessions[q]
          /\ Has(s) => mem'.sessions[s] # None /\ mem'.sessions[s].pid = r.pid
          /\ ~Has(s) => mem'.sessions[s] = None
      <4>1. CASE Has(s)
        <5>1. PICK y : y = [mem.sessions[s] EXCEPT !.status = "ready"]
          OBVIOUS
        <5>2. y \in Session /\ y.pid = r.pid
          BY <1>1, <1>4, <1>6, <4>1, <5>1 DEF Session, Has
        <5>3. mem' = [mem EXCEPT !.sessions[s] = y]
          BY <2>1, <4>1, <5>1
        <5>4. mem'.handle = mem.handle /\ mem'.sessions = [mem.sessions EXCEPT ![s] = y]
          BY <1>1, <5>3 DEF Memory
        <5>5. y # None
          BY <5>2, NoneAssumption
        <5> QED BY <1>1, <1>4, <4>1, <5>2, <5>4, <5>5
      <4>2. CASE ~Has(s)
        BY <1>3, <2>1, <4>2 DEF Has
      <4> QED BY <4>1, <4>2
    <3> QED BY <3>2, <3>3, <3>4
  <2>2. CASE ~Alive(r.pid) /\ mem' = Forgotten(mem, {s}) /\ rows' = Terminated(s)
    <3>1. /\ \A q \in Sids : mem'.sessions[q] = IF q = s THEN None ELSE mem.sessions[q]
          /\ \A q \in Sids : mem'.handle[q] = IF q = s THEN 0 ELSE mem.handle[q]
      BY <2>2 DEF Forgotten
    <3>2. ~Going(r.pid)
      BY <1>4, <2>2 DEF Alive, Going, Pids
    <3>3. /\ \A q \in Sids \ {s} : rows'[q] = rows[q]
          /\ rows'[s] # None => rows'[s].status = "terminated" /\ rows'[s].pid = r.pid
      <4>1. CASE rows[s] = None
        BY <2>2, <4>1 DEF Terminated
      <4>2. CASE rows[s] # None
        <5>1. rows' = [rows EXCEPT ![s] = [rows[s] EXCEPT !.status = "terminated"]]
          BY <2>2, <4>2 DEF Terminated
        <5>2. rows'[s] = [rows[s] EXCEPT !.status = "terminated"] /\ \A q \in Sids \ {s} : rows'[q] = rows[q]
          BY <1>1, <1>4, <5>1
        <5>3. rows[s] \in Row
          BY <1>1, <1>4, <4>2
        <5>4. rows'[s].status = "terminated" /\ rows'[s].pid = rows[s].pid
          BY <5>2, <5>3 DEF Row
        <5> QED BY <1>6, <4>2, <5>2, <5>4
      <4> QED BY <4>1, <4>2
    <3> QED BY <1>4, <3>1, <3>2, <3>3
  <2> QED BY <1>8, <2>1, <2>2
<1>10. \A q \in Sids \ {s} : Same(q)
  BY <1>9 DEF Same, Tidy, SessionOK
<1> DEFINE N == {s}
<1>11. /\ N \in SUBSET Sids /\ \A q \in Sids \ N : Same(q)
       /\ boot'.sid \in {0, boot.sid} \cup N /\ (boot.phase = "up" => boot'.phase = "up")
       /\ \A q \in Sids : q = s \/ q \in Sids \ N
       /\ \A u \in Tasks : tasks'[u] = tasks[u] /\ (tasks[u] # None /\ tasks[u].sid \in N => tasks[u].sid = s)
  BY <1>3, <1>4, <1>5, <1>10
<1>12. count.pids <= count'.pids
  BY <1>2, <1>3
<1> HIDE DEF N
<1>13. /\ \A q \in Sids \ N : SessionOK(q)' /\ RowOK(q)'
       /\ \A u \in Tasks : (tasks[u] # None => tasks[u].sid \notin N) => TaskOK(u)'
  BY <1>7, <1>11, <1>12, Frame
<1>14. ASSUME NEW u \in Tasks, NEW k, tasks[u] = k, k # None, k.sid = s PROVE TaskOK(u)'
  <2>1. Fine(k) /\ tasks'[u] = k
    BY <1>3, <1>14 DEF Tidy, TaskOK
  <2>2. k.op # "clean" /\ k.op # "restart" /\ k.pc \notin Raised /\ k.pc \notin Cleaning /\ k.pc \notin Restarting
    BY <1>3, <1>14, <2>1 DEF Fine
  <2>3. k.pc \in {"reap", "kill"} /\ Has(s)' => ~GoingOn(mem'.sessions[s].pid)
    BY <1>3, <1>6, <1>7, <1>9, <1>14, <2>1 DEF Fine, Has
  <2>4. (k.pc = "poll" \/ k.then = "port" => k.op = "create") /\ k.pid <= count'.pids
    BY <1>3, <2>1 DEF Fine
  <2> QED BY <1>14, <2>1, <2>2, <2>3, <2>4 DEF TaskOK, Fine, Going, GoingOn, Runs
<1>15. \A u \in Tasks : TaskOK(u)'
  BY <1>11, <1>13, <1>14
<1>16. SessionOK(s)' /\ RowOK(s)' /\ Placed(s)'
  <2>1. SessionOK(s)
    BY <1>4 DEF Tidy
  <2>2. SessionOK(s)'
    BY <1>3, <1>6, <1>9, <2>1 DEF SessionOK, Has, RowGood
  <2>3. RowOK(s)'
    BY <1>3, <1>6, <1>7, <1>9 DEF RowOK, Has, Going, GoingOn
  <2>4. Placed(s)'
    BY <1>9 DEF Placed
  <2> QED BY <2>2, <2>3, <2>4
<1>17. ASSUME NEW q \in Sids \ {s} PROVE Placed(q)'
  BY <1>3, <1>5, <1>9 DEF Tidy, Placed
<1>18. BootOK'
  BY <1>5 DEF BootOK
<1>19. Alone'
  BY <1>3 DEF Tidy, Alone, Apart
<1> QED BY <1>11, <1>13, <1>15, <1>16, <1>17, <1>18, <1>19 DEF Tidy, N

\* The loop ends, and the server is up.
LEMMA ReattachDoneTidy ==
    ASSUME Typed, Typed', IInv, Tidy, ReattachDone
    PROVE  Tidy'
<1>1. count.pids \in Nat /\ count.pids <= count.pids
  BY BoundAssumption DEF Typed, TypeOK
<1>2. /\ boot.phase = "reattaching" /\ boot.sid = 0 /\ boot.left = {} 
      /\ UNCHANGED <<mem, tasks, count>> /\ boot' = [boot EXCEPT !.phase = "up", !.read = NoRows]
      /\ \E S, P : S \subseteq DeadRows /\ rows' = Without(S) /\ procs' = Missed(P)
  BY DEF ReattachDone, Deletable
<1>3. boot'.phase = "up" /\ boot'.sid = 0 /\ boot'.left = {}
  BY <1>2, TypeParts DEF Typed, Boot
<1>4. Quieter /\ \A s \in Sids : Same(s)
  BY <1>2, MissedEnds, AutoCleanedSame
<1> DEFINE N == {}
<1>5. /\ N \in SUBSET Sids /\ \A s \in Sids \ N : Same(s)
      /\ boot'.sid \in {0, boot.sid} \cup N /\ (boot.phase = "up" => boot'.phase = "up")
      /\ \A s \in Sids : s \in Sids \ N
      /\ \A u \in Tasks : tasks[u] # None => tasks[u].sid \notin N
  BY <1>2, <1>3, <1>4
<1> HIDE DEF N
<1>6. (\A s \in Sids : SessionOK(s)' /\ RowOK(s)') /\ \A u \in Tasks : TaskOK(u)'
  BY <1>1, <1>2, <1>4, <1>5, Frame
<1>7. \A s \in Sids : Placed(s)'
  <2> SUFFICES ASSUME NEW s \in Sids PROVE Placed(s)'
    OBVIOUS
  <2>1. Placed(s) /\ s \notin boot.left /\ s # boot.sid /\ rows'[s] \in {None, rows[s]}
    BY <1>2, <1>4 DEF Tidy, Same, Sids
  <2> QED BY <1>2, <2>1 DEF Placed
<1>8. BootOK'
  BY <1>3 DEF BootOK
<1>9. Alone'
  BY <1>2 DEF Tidy, Alone, Apart
<1> QED BY <1>6, <1>7, <1>8, <1>9 DEF Tidy

\* Initially, and after a step that no restart races with
LEMMA TidyInit == Init => Tidy
<1> SUFFICES ASSUME Init PROVE Tidy
  OBVIOUS
<1>1. ASSUME NEW s \in Sids PROVE SessionOK(s) /\ RowOK(s) /\ Placed(s)
  BY DEF Init, NoMemory, NoRows, SessionOK, RowOK, Placed, Has
<1>2. BootOK
  BY DEF Init, BootOK
<1>3. Alone /\ \A t \in Tasks : TaskOK(t)
  BY DEF Init, Alone, TaskOK
<1> QED BY <1>1, <1>2, <1>3 DEF Tidy

\* Every step keeps the rows right, unless a restart races with something.
LEMMA TidyStep ==
    ASSUME Typed, Typed', IInv, Tidy, Reads, [Next]_vars, "raced" \notin past'
    PROVE  Tidy'
<1>1. ASSUME NEW t \in Tasks, Asked(t) PROVE Tidy'
  BY <1>1, AskedTidy
<1>2. ASSUME NEW t \in Tasks, TaskStep(t) PROVE Tidy'
  <2>1. CASE StopEnds(t) \/ Polled(t)
    BY <2>1, StopEndsTidy
  <2>2. CASE SpawnNew(t)
    BY <2>2, SpawnNewTidy
  <2>3. CASE SpawnAgain(t)
    BY <2>3, SpawnAgainTidy
  <2>4. CASE Booted(t) \/ BootFails(t)
    BY <2>4, BootTidy
  <2>5. CASE Stamped(t)
    BY <2>5, StampedTidy
  <2>6. CASE RestartVerified(t)
    BY <2>6, VerifiedTidy
  <2>7. CASE RestartKills(t)
    BY <2>7, KillsTidy
  <2>8. CASE CleanChecked(t) \/ CleanEnds(t)
    BY <2>8, CleanTidy
  <2> QED BY <1>2, <2>1, <2>2, <2>3, <2>4, <2>5, <2>6, <2>7, <2>8 DEF TaskStep
<1>3. CASE Reattaching
  <2>1. CASE ReattachBegins
    BY <2>1, ReattachBeginsTidy
  <2>2. ASSUME NEW s \in Sids, ReattachNext(s) PROVE Tidy'
    BY <2>2, ReattachNextTidy
  <2>3. CASE ReattachEnds
    BY <2>3, ReattachEndsTidy
  <2>4. CASE ReattachDone
    BY <2>4, ReattachDoneTidy
  <2> QED BY <1>3, <2>1, <2>2, <2>3, <2>4 DEF Reattaching
<1>4. CASE UNCHANGED vars
  <2>1. UNCHANGED <<procs, mem, rows, tasks, boot, count>> /\ count.pids \in Nat
    BY <1>4, BoundAssumption DEF vars, Typed, TypeOK
  <2>2. \A s \in Sids : Same(s)
    BY <2>1 DEF Same, Tidy, SessionOK
  <2> QED BY <2>1, <2>2, ProcsKept, Calm
<1>5. CASE \/ \E p \in Pids : KernelUp(p) \/ Exit(p) \/ Reuse(p) \/ ExitEvent(p)
           \/ \E s \in Sids : Quiet(s)
           \/ AutoClean \/ SweepLiveness
  BY <1>5, WorldTidy
<1>6. CASE Crash \/ Listen
  BY <1>6, CrashTidy
<1> QED BY <1>1, <1>2, <1>3, <1>4, <1>5, <1>6, Zenon DEF Next

\* What has raced has raced.
LEMMA RacesKept == [Next]_vars => past \subseteq past'
<1> SUFFICES ASSUME [Next]_vars PROVE past \subseteq past'
  OBVIOUS
<1>1. ASSUME NEW t \in Tasks, Asked(t) PROVE past \subseteq past'
  BY <1>1 DEF Asked, Stop, Restart, CleanDead, AutoCheck, StartKernel, GetOrCreate, Notes
<1>2. ASSUME NEW t \in Tasks, TaskStep(t) PROVE past \subseteq past'
  BY <1>2 DEF TaskStep, StopEnds, Polled, SpawnNew, SpawnAgain, Booted, BootFails, Stamped,
              RestartVerified, RestartKills, CleanChecked, CleanEnds
<1>3. ASSUME NEW p \in Pids, KernelUp(p) \/ Exit(p) \/ Reuse(p) \/ ExitEvent(p) PROVE past \subseteq past'
  BY <1>3 DEF KernelUp, Exit, Reuse, ExitEvent
<1>4. ASSUME NEW s \in Sids, Quiet(s) PROVE past \subseteq past'
  BY <1>4 DEF Quiet
<1>5. CASE AutoClean \/ SweepLiveness \/ Crash \/ Listen
  BY <1>5 DEF AutoClean, SweepLiveness, Crash, Listen, Notes
<1>6. CASE Reattaching
  BY <1>6 DEF Reattaching, ReattachBegins, ReattachNext, ReattachEnds, ReattachDone, Notes
<1>7. CASE UNCHANGED vars
  BY <1>7 DEF vars
<1> QED BY <1>1, <1>2, <1>3, <1>4, <1>5, <1>6, <1>7, Zenon DEF Next

\* The kernel of a row runs when the server is up: it is the session's.
LEMMA TidyRecords ==
    ASSUME Typed, IInv, Tidy
    PROVE  ReadyIsRecorded
<1> SUFFICES ASSUME NEW s \in Sids
             PROVE  /\ Has(s) /\ mem.sessions[s].status = "ready" =>
                         rows[s] # None /\ rows[s].status = "active" /\ rows[s].pid = mem.sessions[s].pid
                    /\ boot.phase = "up" /\ rows[s] # None /\ Runs(rows[s].pid) =>
                         Has(s) /\ mem.sessions[s].pid = rows[s].pid
  BY DEF ReadyIsRecorded
<1>1. SessionOK(s) /\ RowOK(s) /\ Placed(s) /\ BootOK /\ s # 0
  BY DEF Tidy, Sids
<1>2. rows[s] # None => rows[s].pid \in Pids /\ (Runs(rows[s].pid) => Going(rows[s].pid))
  BY GoingRuns, TypeParts DEF Typed, Row
<1>3. boot.phase = "up" => s \notin boot.left /\ s # boot.sid
  BY <1>1 DEF BootOK
<1> QED BY <1>1, <1>2, <1>3 DEF SessionOK, RowGood, RowOK, Placed

\* A session that answers is on record, and a kernel that survives a crash and has a
\* row is the kernel of a session again when the loop has ended, as long as no restart
\* overlaps with another request about its session and no clean-up with the loop.
THEOREM ReadyIsOnRecord == Spec => []ReadyIsRecorded
<1> DEFINE Quietly == "raced" \notin past => Tidy /\ Reads
<1>1. Init => Quietly
  BY TidyInit, ReadsInit
<1>2. Typed /\ Typed' /\ IInv /\ Quietly /\ [Next]_vars => Quietly'
  <2> SUFFICES ASSUME Typed, Typed', IInv, Quietly, [Next]_vars, "raced" \notin past' PROVE Tidy' /\ Reads'
    OBVIOUS
  <2>1. Tidy /\ Reads
    BY RacesKept
  <2> QED BY <2>1, TidyStep, ReadsStep
<1>3. Typed /\ IInv /\ Quietly => ReadyIsRecorded
  <2>1. CASE "raced" \notin past
    BY <2>1, TidyRecords
  <2>2. CASE "raced" \in past
    BY <2>2 DEF ReadyIsRecorded
  <2> QED BY <2>1, <2>2
<1> QED BY <1>1, <1>2, <1>3, Invariance, PTL DEF Spec

-----------------------------------------------------------------------------
(* One kernel for a notebook *)

\* A process that was not started yet is none, a session that was not created is in no
\* map; the process of a session or a row is of its notebook.
NotGiven == /\ \A p \in Pids : p > count.pids => procs[p].st = "none"
            /\ \A f \in Files : mem.files[f] <= count.sids
FileOf(s) == mem.sessions[s].file
OwnFile(s) ==
    /\ Has(s) /\ Going(mem.sessions[s].pid) => procs[mem.sessions[s].pid].file = FileOf(s)
    /\ rows[s] # None /\ Going(rows[s].pid) => procs[rows[s].pid].file = rows[s].file
    /\ Has(s) /\ rows[s] # None => rows[s].file = FileOf(s)
    /\ Has(s) /\ boot.sid = s => boot.row.file = FileOf(s)

\* A process that goes on has a live session, or a row that the loop will get to.
Homed(p) ==
    \/ \E s \in Sids : Live(s) /\ mem.sessions[s].pid = p
    \/ \E s \in Sids : Old(s) /\ rows[s] # None /\ rows[s].pid = p
Homes == \A p \in Pids : Going(p) => Homed(p)

\* A notebook has one live session, which is the one mapped, and one process.
OneSession == \A s, q \in Sids : Live(s) /\ Live(q) /\ FileOf(s) = FileOf(q) => s = q
OneProcess == \A p, q \in Pids : Going(p) /\ Going(q) /\ procs[p].file = procs[q].file => p = q
Mapped ==
    /\ \A s \in Sids : Live(s) => mem.files[FileOf(s)] \in {0, s}
    /\ \A f \in Files : Has(mem.files[f]) => FileOf(mem.files[f]) = f

\* The loop finds no process for the rows of notebooks whose kernel is back.
LeftAlone == boot.phase = "reattaching" =>
    \A s \in boot.left, q \in Sids :
        rows[s] # None /\ Live(q) /\ FileOf(q) = rows[s].file => ~Going(rows[s].pid)
Blank == boot.phase \in {"off", "listening"} => \A s \in Sids : mem.sessions[s] = None
\* No notebook is mapped to a session that the loop has not entered yet.
Unmapped ==
    /\ boot.phase \in {"off", "listening"} => \A f \in Files : mem.files[f] = 0
    /\ boot.phase = "reattaching" => \A f \in Files : mem.files[f] \notin boot.left

Settled == /\ NotGiven /\ Homes /\ OneSession /\ OneProcess /\ Mapped /\ LeftAlone /\ Blank /\ Unmapped
           /\ \A s \in Sids : OwnFile(s)

\* A create knows of no live session but its own, a restart gives up the process first.
CreateFine(k) ==
    /\ boot.phase = "up" /\ k.pc # "poll" /\ (k.pc = "port" => k.sid = 0)
    /\ Has(k.sid) => k.file = FileOf(k.sid)
    /\ \A s \in Sids : Live(s) /\ FileOf(s) = k.file => s = k.sid
Replacing == {"restart reap", "restart verify", "restart kill", "port"}
RestartFine(k) ==
    /\ Has(k.sid) => k.file = FileOf(k.sid)
    /\ k.pc \in Replacing => Has(k.sid)
    /\ k.pc = "restart reap" => mem.handle[k.sid] \notin mem.watched
    /\ k.pc = "port" => mem.handle[k.sid] = 0
    /\ k.pc \in Replacing \ {"restart verify"} => ~Going(mem.sessions[k.sid].pid)
    /\ k.pc = "restart verify" => rows[k.sid] # None /\ rows[k.sid].pid = mem.sessions[k.sid].pid
Right(k) ==
    /\ k.op # "start"
    /\ k.pc \in {"port", "boot", "stamp"} => k.op \in {"create", "restart"}
    /\ k.op = "create" => CreateFine(k)
    /\ k.op = "restart" => RestartFine(k)
Creating(t, f) == tasks[t] # None /\ tasks[t].op = "create" /\ tasks[t].file = f
OneCreate == \A t, u \in Tasks, f \in Files : Creating(t, f) /\ Creating(u, f) => t = u

\* A session that is starting is the loop's, or that of a request.
StartedBy(t, s) == tasks[t] # None /\ tasks[t].sid = s /\ tasks[t].op \in {"create", "restart"}
Started(s) ==
    Live(s) /\ mem.sessions[s].status = "starting" =>
        \/ boot.sid = s /\ (rows[s] # None \/ ~Going(mem.sessions[s].pid))
        \/ \E t \in Tasks : StartedBy(t, s)

Single == /\ Settled /\ OneCreate
          /\ \A t \in Tasks : tasks[t] # None => Right(tasks[t])
          /\ \A s \in Sids : Started(s)

\* What most steps do to the processes ...
Milder == \A p \in Pids : /\ procs'[p].st # "none" => procs[p].st # "none"
                          /\ GoingOn(p) => Going(p) /\ procs'[p].file = procs[p].file
\* ... to a session ...
Keeps(s) ==
    /\ mem'.sessions[s] # None => /\ mem.sessions[s] # None
                                  /\ mem'.sessions[s].file = mem.sessions[s].file
                                  /\ mem'.sessions[s].pid \in {0, mem.sessions[s].pid}
                                  /\ mem'.sessions[s].status # "dead" => mem.sessions[s].status # "dead"
    /\ mem.sessions[s] # None /\ GoingOn(mem.sessions[s].pid) /\ mem.sessions[s].status # "dead" =>
         /\ mem'.sessions[s] # None /\ mem'.sessions[s].pid = mem.sessions[s].pid
         /\ mem'.sessions[s].status # "dead"
\* ... and to its row
KeepsRow(s) ==
    /\ Old(s) /\ rows[s] # None /\ GoingOn(rows[s].pid) =>
         Old(s)' /\ rows'[s] # None /\ rows'[s].pid = rows[s].pid
    /\ rows'[s] # None =>
         \/ rows[s] # None /\ rows'[s].pid = rows[s].pid /\ rows'[s].file = rows[s].file
         \/ /\ mem'.sessions[s] # None
            /\ rows'[s].pid = mem'.sessions[s].pid /\ rows'[s].file = mem'.sessions[s].file
         \/ mem'.sessions[s] = None /\ ~GoingOn(rows'[s].pid)

SameCounts == count'.pids = count.pids /\ count'.sids = count.sids

\* Steps that start no process and enter no session keep everything settled.
LEMMA SettledFrame ==
    ASSUME Typed, Typed', IInv, Settled, Milder, SameCounts,
           \A s \in Sids : Keeps(s) /\ KeepsRow(s),
           \A f \in Files : \/ mem'.files[f] \in {0, mem.files[f]}
                            \/ \E q \in Sids : mem'.files[f] = q /\ Live(q)' /\ FileOf(q)' = f,
           boot'.phase = "reattaching" =>
             \/ boot.phase = "reattaching" /\ boot'.left \subseteq boot.left /\ \A s \in boot'.left : rows'[s] \in {None, rows[s]}
             \/ boot.phase \in {"off", "listening"},
           boot'.phase \in {"off", "listening"} => boot.phase \in {"off", "listening"},
           boot'.sid \in {0, boot.sid}, boot'.sid # 0 => boot'.row = boot.row
    PROVE  Settled'
<1>0. /\ mem.sessions \in [Sids -> Session \cup {None}] /\ mem'.sessions \in [Sids -> Session \cup {None}]
      /\ rows \in [Sids -> Row \cup {None}] /\ rows' \in [Sids -> Row \cup {None}]
      /\ 0 \notin Sids /\ 0 \notin Pids /\ boot.left \subseteq Sids /\ boot'.left \subseteq Sids
      /\ mem.files \in [Files -> 0..MaxSessions] /\ mem'.files \in [Files -> 0..MaxSessions]
  <2>1. /\ mem \in Memory /\ mem' \in Memory /\ rows \in [Sids -> Row \cup {None}]
        /\ rows' \in [Sids -> Row \cup {None}] /\ boot.left \subseteq Sids /\ boot'.left \subseteq Sids
    BY DEF Typed, TypeOK
  <2>2. 0 \notin Sids /\ 0 \notin Pids
    BY DEF Sids, Pids
  <2> QED BY <2>1, <2>2 DEF Memory
<1>1. NotGiven'
  <2>1. ASSUME NEW p \in Pids, p > count'.pids PROVE procs'[p].st = "none"
    <3>1. procs[p].st = "none"
      BY <2>1 DEF Settled, NotGiven, SameCounts
    <3> QED BY <3>1 DEF Milder
  <2>2. ASSUME NEW f \in Files PROVE mem'.files[f] <= count'.sids
    <3>1. count'.sids = count.sids /\ count.sids \in Nat
      BY BoundAssumption DEF SameCounts, Typed, TypeOK
    <3>2. CASE mem'.files[f] = 0
      BY <3>1, <3>2
    <3>3. CASE mem'.files[f] = mem.files[f]
      BY <3>1, <3>3 DEF Settled, NotGiven
    <3>4. ASSUME NEW q \in Sids, mem'.files[f] = q, Live(q)' PROVE mem'.files[f] <= count'.sids
      <4>1. Has(q)
        BY <1>0, <3>4 DEF Live, Has, Keeps
      <4>2. q \in 0..MaxSessions
        BY Numbers
      <4> QED BY <3>1, <3>4, <4>1, <4>2, HasIsOld
    <3> QED BY <3>2, <3>3, <3>4
  <2> QED BY <2>1, <2>2 DEF NotGiven
<1>2. Homes'
  <2> SUFFICES ASSUME NEW p \in Pids, GoingOn(p) PROVE Homed(p)'
    BY DEF Homes, Going, GoingOn, Runs
  <2>1. Homed(p)
    BY DEF Milder, Settled, Homes
  <2>2. ASSUME NEW s \in Sids, Live(s), mem.sessions[s].pid = p PROVE Homed(p)'
    BY <2>2, <1>0 DEF Live, Has, Keeps, Homed
  <2>3. ASSUME NEW s \in Sids, Old(s), rows[s] # None, rows[s].pid = p PROVE Homed(p)'
    BY <2>3, <1>0 DEF KeepsRow, Homed
  <2> QED BY <2>1, <2>2, <2>3 DEF Homed
<1>3. ASSUME NEW s \in Sids, Live(s)' PROVE Live(s) /\ FileOf(s)' = FileOf(s)
  BY <1>3 DEF Live, Has, Keeps, FileOf
<1>4. OneSession'
  BY <1>3 DEF OneSession, Settled
<1>5. OneProcess'
  <2> SUFFICES ASSUME NEW p \in Pids, NEW q \in Pids, GoingOn(p), GoingOn(q), procs'[p].file = procs'[q].file
               PROVE  p = q
    BY DEF OneProcess, Going, GoingOn, Runs
  <2> QED BY DEF Milder, Settled, OneProcess
<1>6. Mapped'
  <2>1. ASSUME NEW s \in Sids, Live(s)' PROVE mem'.files[FileOf(s)'] \in {0, s}
    <3>1. Live(s) /\ FileOf(s)' = FileOf(s) /\ mem.files[FileOf(s)] \in {0, s}
      BY <1>3, <2>1 DEF Settled, Mapped
    <3>2. FileOf(s) \in Files
      <4>1. mem.sessions[s] \in Session
        BY <1>0, <3>1 DEF Live, Has
      <4> QED BY <4>1 DEF FileOf, Session
    <3>3. CASE mem'.files[FileOf(s)] \in {0, mem.files[FileOf(s)]}
      BY <3>1, <3>3
    <3>4. ASSUME NEW q \in Sids, mem'.files[FileOf(s)] = q, Live(q)', FileOf(q)' = FileOf(s)
          PROVE  mem'.files[FileOf(s)'] \in {0, s}
      <4>1. s = q
        BY <1>4, <2>1, <3>1, <3>4 DEF OneSession
      <4> QED BY <3>1, <3>4, <4>1
    <3> QED BY <3>1, <3>2, <3>3, <3>4
  <2>2. ASSUME NEW f \in Files, NEW s, s = mem'.files[f], Has(s)' PROVE FileOf(s)' = f
    <3>1. CASE s \in {0, mem.files[f]}
      <4>1. s # 0 /\ s = mem.files[f] /\ s \in Sids
        BY <1>0, <2>2, <3>1, Numbers DEF Has
      <4>2. Has(s) /\ FileOf(s)' = FileOf(s)
        BY <2>2, <4>1 DEF Has, Keeps, FileOf
      <4> QED BY <4>1, <4>2 DEF Settled, Mapped
    <3> QED BY <2>2, <3>1
  <2> QED BY <2>1, <2>2 DEF Mapped
<1>7. LeftAlone'
  <2> SUFFICES ASSUME boot'.phase = "reattaching", NEW s \in boot'.left, NEW q \in Sids, rows'[s] # None,
                      Live(q)', FileOf(q)' = rows'[s].file, GoingOn(rows'[s].pid)
               PROVE  FALSE
    BY DEF LeftAlone, Going, GoingOn, Runs
  <2>1. /\ boot.phase = "reattaching" /\ s \in boot.left /\ rows'[s] = rows[s] /\ rows[s] # None
        /\ Live(q) /\ FileOf(q) = rows[s].file
    <3>1. Live(q) /\ mem.sessions[q] # None
      BY <1>3 DEF Live, Has
    <3>2. boot.phase \notin {"off", "listening"}
      BY <3>1 DEF Settled, Blank
    <3> QED BY <1>3, <3>1, <3>2
  <2>2. rows[s].pid \in Pids
    BY <1>0, <2>1 DEF Row
  <2> QED BY <2>1, <2>2 DEF Settled, LeftAlone, Milder
<1>8. Blank'
  BY DEF Blank, Settled, Keeps
<1>9. ASSUME NEW s \in Sids PROVE OwnFile(s)'
  <2>1. mem'.sessions[s] # None /\ GoingOn(mem'.sessions[s].pid) =>
           procs'[mem'.sessions[s].pid].file = mem'.sessions[s].file
    <3> SUFFICES ASSUME mem'.sessions[s] # None, GoingOn(mem'.sessions[s].pid)
                 PROVE  procs'[mem'.sessions[s].pid].file = mem'.sessions[s].file
      OBVIOUS
    <3>1. /\ Has(s) /\ mem'.sessions[s].file = FileOf(s) /\ mem'.sessions[s].pid = mem.sessions[s].pid
          /\ mem'.sessions[s].pid \in Pids
      BY <1>0 DEF Keeps, GoingOn, Has, FileOf
    <3> QED BY <3>1 DEF Milder, Settled, OwnFile
  <2>2. rows'[s] # None /\ GoingOn(rows'[s].pid) => procs'[rows'[s].pid].file = rows'[s].file
    <3> SUFFICES ASSUME rows'[s] # None, GoingOn(rows'[s].pid)
                 PROVE  procs'[rows'[s].pid].file = rows'[s].file
      OBVIOUS
    <3>1. CASE rows[s] # None /\ rows'[s].pid = rows[s].pid /\ rows'[s].file = rows[s].file
      BY <3>1 DEF Milder, Settled, OwnFile, GoingOn
    <3>2. CASE /\ mem'.sessions[s] # None
               /\ rows'[s].pid = mem'.sessions[s].pid /\ rows'[s].file = mem'.sessions[s].file
      BY <2>1, <3>2
    <3> QED BY <3>1, <3>2 DEF KeepsRow
  <2>3. mem'.sessions[s] # None /\ rows'[s] # None => rows'[s].file = mem'.sessions[s].file
    BY <1>0 DEF KeepsRow, Keeps, Settled, OwnFile, Has, FileOf
  <2>4. mem'.sessions[s] # None /\ boot'.sid = s => boot'.row.file = mem'.sessions[s].file
    BY <1>0 DEF Keeps, Settled, OwnFile, Has, FileOf
  <2> QED BY <2>1, <2>2, <2>3, <2>4 DEF OwnFile, Has, FileOf, Going, GoingOn, Runs
<1>10. Unmapped'
  <2>1. ASSUME boot'.phase \in {"off", "listening"}, NEW f \in Files PROVE mem'.files[f] = 0
    <3>1. mem.files[f] = 0 /\ \A q \in Sids : mem'.sessions[q] = None
      BY <2>1 DEF Settled, Unmapped, Blank, Keeps
    <3> QED BY <3>1 DEF Live, Has
  <2>2. ASSUME boot'.phase = "reattaching", NEW f \in Files, mem'.files[f] \in boot'.left PROVE FALSE
    <3>1. CASE boot.phase = "reattaching" /\ boot'.left \subseteq boot.left
      <4>1. mem'.files[f] # mem.files[f] /\ mem'.files[f] # 0
        BY <1>0, <2>2, <3>1 DEF Settled, Unmapped
      <4>2. PICK q \in Sids : mem'.files[f] = q /\ Live(q)'
        BY <4>1
      <4>3. mem.sessions[q] # None /\ q \in boot.left
        BY <2>2, <3>1, <4>2 DEF Live, Has, Keeps
      <4> QED BY <3>1, <4>3 DEF IInv, OldIsUntouched, Old
    <3>2. CASE boot.phase \in {"off", "listening"}
      <4>1. mem.files[f] = 0 /\ \A q \in Sids : mem'.sessions[q] = None
        BY <3>2 DEF Settled, Unmapped, Blank, Keeps
      <4> QED BY <1>0, <2>2, <4>1 DEF Live, Has
    <3> QED BY <2>2, <3>1, <3>2
  <2> QED BY <2>1, <2>2 DEF Unmapped
<1> QED BY <1>1, <1>2, <1>4, <1>5, <1>6, <1>7, <1>8, <1>9, <1>10 DEF Settled

\* What a step leaves of the sessions that it is not about
Stays(s) ==
    /\ mem'.sessions[s] = None <=> mem.sessions[s] = None
    /\ mem'.sessions[s] # None => /\ mem'.sessions[s].pid = mem.sessions[s].pid
                                  /\ mem'.sessions[s].status = mem.sessions[s].status
                                  /\ mem'.sessions[s].file = mem.sessions[s].file
    /\ mem'.handle[s] \in {0, mem.handle[s]}
    /\ \/ rows'[s] = rows[s]
       \/ rows'[s] = None /\ (mem.sessions[s] # None => mem.sessions[s].status # "starting")
\* The creates of other requests are not about a session or its notebook.
Elsewhere(t, s) ==
    \A u \in Tasks \ {t} : tasks[u] # None /\ tasks[u].op = "create" =>
        tasks[u].sid # s /\ tasks[u].file # mem'.sessions[s].file

\* A number that is at most another is not above it.
LEMMA AtMost == \A h \in 0..MaxProcs, c \in Nat : h <= c => ~(h > c)
BY BoundAssumption

\* The requests that a step leaves alone stay right, and so do the sessions that
\* they start.
LEMMA RequestsFrame ==
    ASSUME Typed, Typed', IInv, Tidy, Single, Quieter, NEW N \in SUBSET Sids, \A s \in Sids \ N : Stays(s),
           boot.phase = "up" => boot'.phase = "up", boot'.sid = boot.sid \/ boot.sid \in N \cup {0},
           \A w \in mem'.watched : w \in mem.watched \/ w > count.pids,
           NEW t, \A u \in Tasks \ {t} : tasks'[u] = tasks[u],
           \A u \in Tasks \ {t} : tasks[u] # None /\ tasks[u].op = "restart" /\ tasks[u].sid \in N =>
             tasks[u].pc \notin Replacing /\ mem'.sessions[tasks[u].sid] = None,
           \A s \in N : mem'.sessions[s] # None =>
             \/ /\ mem.sessions[s] # None /\ mem'.sessions[s].file = mem.sessions[s].file
                /\ mem'.sessions[s].status # "dead" => mem.sessions[s].status # "dead"
             \/ Elsewhere(t, s),
           t \in Tasks => \A s \in Sids \ N : Live(s) /\ StartedBy(t, s) => StartedBy(t, s)',
           t \in Tasks /\ tasks'[t] # None /\ tasks'[t].op = "create" =>
             \/ tasks[t] # None /\ tasks[t].op = "create" /\ tasks[t].file = tasks'[t].file
             \/ \A u \in Tasks \ {t} : ~Creating(u, tasks'[t].file)
    PROVE  /\ \A u \in Tasks \ {t} : tasks'[u] # None => Right(tasks[u])'
           /\ OneCreate'
           /\ \A s \in Sids \ N : Started(s)'
<1>0. /\ mem.sessions \in [Sids -> Session \cup {None}] /\ rows \in [Sids -> Row \cup {None}]
      /\ tasks \in [Tasks -> Task \cup {None}] /\ mem.handle \in [Sids -> 0..MaxProcs]
      /\ mem.watched \in SUBSET Pids /\ mem'.watched \in SUBSET Pids
      /\ count.pids \in Nat /\ 0 \notin Sids /\ 0 \notin Pids
  <2>1. mem \in Memory /\ mem' \in Memory /\ rows \in [Sids -> Row \cup {None}]
        /\ tasks \in [Tasks -> Task \cup {None}] /\ count \in Count
    BY TypeParts DEF Typed, TypeOK
  <2>2. 0 \notin Sids /\ 0 \notin Pids
    BY DEF Sids, Pids
  <2> QED BY <2>1, <2>2, BoundAssumption DEF Memory, Count
<1>1. ASSUME NEW u \in Tasks \ {t}, NEW k, k = tasks[u], k # None
      PROVE  Right(k)'
  <2>1. Right(k) /\ k \in Task
    BY <1>0, <1>1 DEF Single
  <2>2. k.sid \in 0..MaxSessions
    BY <2>1 DEF Task
  <2>3. k.op # "start" /\ (k.pc \in {"port", "boot", "stamp"} => k.op \in {"create", "restart"})
    BY <2>1 DEF Right
  <2>4. ASSUME k.op = "create" PROVE CreateFine(k)'
    <3>1. CreateFine(k)
      BY <2>1, <2>4 DEF Right
    <3>2. mem'.sessions[k.sid] # None /\ k.sid # 0 => k.file = mem'.sessions[k.sid].file
      <4> SUFFICES ASSUME mem'.sessions[k.sid] # None, k.sid # 0 PROVE k.file = mem'.sessions[k.sid].file
        OBVIOUS
      <4>1. k.sid \in Sids
        BY <2>2, Numbers
      <4>2. mem.sessions[k.sid] # None /\ mem'.sessions[k.sid].file = mem.sessions[k.sid].file
        BY <1>1, <2>4, <4>1 DEF Stays, Elsewhere
      <4> QED BY <3>1, <4>2 DEF CreateFine, Has, FileOf
    <3>3. ASSUME NEW s \in Sids, Live(s)', FileOf(s)' = k.file PROVE s = k.sid
      <4>1. /\ mem.sessions[s] # None /\ mem'.sessions[s].file = mem.sessions[s].file
            /\ mem.sessions[s].status # "dead"
        BY <1>1, <2>4, <3>3 DEF Stays, Elsewhere, Live, Has, FileOf
      <4>2. Live(s) /\ FileOf(s) = k.file
        BY <1>0, <3>3, <4>1 DEF Live, Has, FileOf
      <4> QED BY <3>1, <4>2 DEF CreateFine
    <3> QED BY <3>1, <3>2, <3>3 DEF CreateFine, Has, FileOf
  <2>5. ASSUME k.op = "restart" PROVE RestartFine(k)'
    <3>1. RestartFine(k)
      BY <2>1, <2>5 DEF Right
    <3>2. k.sid # 0 /\ k.sid \in Sids
      <4>1. Fine(k)
        BY <1>1 DEF Tidy, TaskOK
      <4> QED BY <2>2, <2>5, <4>1, Numbers DEF Fine
    <3> SUFFICES ASSUME ~(k.pc \notin Replacing /\ mem'.sessions[k.sid] = None) PROVE RestartFine(k)'
      BY DEF RestartFine, Replacing, Has
    <3>3. k.sid \in Sids \ N /\ Stays(k.sid)
      BY <1>1, <2>5, <3>2
    <3>4. mem'.sessions[k.sid] # None =>
            /\ mem.sessions[k.sid] # None /\ mem'.sessions[k.sid].pid = mem.sessions[k.sid].pid
            /\ mem'.sessions[k.sid].file = mem.sessions[k.sid].file
      BY <3>3 DEF Stays
    <3>5. k.pc \in Replacing => mem'.sessions[k.sid] # None
      BY <3>1, <3>3 DEF Stays, RestartFine, Has
    <3>6. k.pc = "restart reap" => mem'.handle[k.sid] \notin mem'.watched
      <4> SUFFICES ASSUME k.pc = "restart reap" PROVE mem'.handle[k.sid] \notin mem'.watched
        OBVIOUS
      <4>1. mem'.handle[k.sid] \in {0, mem.handle[k.sid]} /\ mem.handle[k.sid] \notin mem.watched
        BY <3>1, <3>3 DEF Stays, RestartFine
      <4>2. mem.handle[k.sid] \in 0..MaxProcs /\ mem.handle[k.sid] <= count.pids
        BY <1>0, <3>2 DEF IInv, OwnHandles
      <4>3. ~(mem.handle[k.sid] > count.pids)
        <5>1. \A h \in 0..MaxProcs, c \in Nat : h <= c => ~(h > c)
          BY AtMost
        <5>2. count.pids \in Nat
          BY <1>0
        <5> QED BY <4>2, <5>1, <5>2
      <4> QED BY <1>0, <4>1, <4>3
    <3>7. k.pc \in Replacing \ {"restart verify"} => ~GoingOn(mem'.sessions[k.sid].pid)
      <4> SUFFICES ASSUME k.pc \in Replacing \ {"restart verify"} PROVE ~GoingOn(mem'.sessions[k.sid].pid)
        OBVIOUS
      <4>1. mem'.sessions[k.sid].pid = mem.sessions[k.sid].pid /\ Has(k.sid) /\ ~Going(mem.sessions[k.sid].pid)
        BY <3>1, <3>4, <3>5 DEF RestartFine, Replacing
      <4>2. mem.sessions[k.sid].pid <= count.pids
        BY <3>2, <4>1 DEF Tidy, SessionOK
      <4> QED BY <4>1, <4>2 DEF Quieter, GoingOn
    <3>8. k.pc = "restart verify" => rows'[k.sid] # None /\ rows'[k.sid].pid = mem'.sessions[k.sid].pid
      <4> SUFFICES ASSUME k.pc = "restart verify" PROVE rows'[k.sid] # None /\ rows'[k.sid].pid = mem'.sessions[k.sid].pid
        OBVIOUS
      <4>1. Has(k.sid) /\ rows[k.sid] # None /\ rows[k.sid].pid = mem.sessions[k.sid].pid
        BY <3>1 DEF RestartFine, Replacing
      <4>2. mem.sessions[k.sid].status = "starting"
        <5>1. Fine(k)
          BY <1>1 DEF Tidy, TaskOK
        <5> QED BY <2>5, <4>1, <5>1 DEF Fine, Renewing
      <4>3. rows'[k.sid] = rows[k.sid]
        BY <3>3, <4>1, <4>2 DEF Stays, Has
      <4> QED BY <3>4, <3>5, <4>1, <4>3 DEF Replacing
    <3>9. k.pc = "port" => mem'.handle[k.sid] = 0
      BY <3>1, <3>3 DEF Stays, RestartFine
    <3> QED BY <3>1, <3>2, <3>4, <3>5, <3>6, <3>7, <3>8, <3>9 DEF RestartFine, Has, FileOf, Going, GoingOn, Runs
  <2> QED BY <2>3, <2>4, <2>5 DEF Right
<1>2. OneCreate'
  <2> SUFFICES ASSUME NEW u \in Tasks, NEW v \in Tasks, NEW f \in Files, Creating(u, f)', Creating(v, f)'
               PROVE  u = v
    BY DEF OneCreate
  <2>1. ASSUME NEW w \in Tasks \ {t}, Creating(w, f)' PROVE Creating(w, f)
    BY <2>1 DEF Creating
  <2>2. CASE u # t /\ v # t
    BY <2>1, <2>2 DEF Single, OneCreate
  <2>3. ASSUME t \in Tasks, NEW w \in Tasks \ {t}, Creating(w, f)', Creating(t, f)' PROVE FALSE
    BY <2>1, <2>3 DEF Single, OneCreate, Creating
  <2> QED BY <2>2, <2>3
<1>3. ASSUME NEW s \in Sids \ N PROVE Started(s)'
  <2> SUFFICES ASSUME Live(s)', mem'.sessions[s].status = "starting"
               PROVE  \/ boot'.sid = s /\ (rows'[s] # None \/ ~GoingOn(mem'.sessions[s].pid))
                      \/ \E u \in Tasks : StartedBy(u, s)'
    BY DEF Started, Going, GoingOn
  <2>1. Stays(s) /\ Live(s) /\ mem.sessions[s].status = "starting" /\ rows'[s] = rows[s]
    BY <1>0 DEF Stays, Live, Has
  <2>2. Started(s)
    BY DEF Single
  <2>3. CASE boot.sid = s /\ (rows[s] # None \/ ~Going(mem.sessions[s].pid))
    <3>1. mem.sessions[s].pid <= count.pids /\ mem'.sessions[s].pid = mem.sessions[s].pid
      BY <2>1 DEF Tidy, SessionOK, Stays, Live, Has
    <3>2. ~Going(mem.sessions[s].pid) => ~GoingOn(mem'.sessions[s].pid)
      BY <3>1 DEF Quieter, GoingOn
    <3> QED BY <1>0, <2>1, <2>3, <3>2
  <2>4. ASSUME NEW u \in Tasks, StartedBy(u, s) PROVE StartedBy(u, s)'
    <3>1. CASE u = t
      BY <2>1, <2>4, <3>1
    <3>2. CASE u # t
      BY <2>4, <3>2 DEF StartedBy
    <3> QED BY <3>1, <3>2
  <2> QED BY <2>1, <2>2, <2>3, <2>4 DEF Started
<1>4. ASSUME NEW u \in Tasks \ {t}, tasks'[u] # None PROVE Right(tasks[u])'
  BY <1>1, <1>4
<1> QED BY <1>2, <1>3, <1>4

\* A step of a request that starts no process and enters no session
LEMMA PlainStep ==
    ASSUME Typed, Typed', IInv, Tidy, Single, Milder, SameCounts, boot' = boot,
           NEW N \in SUBSET Sids, \A s \in Sids \ N : Stays(s),
           \A s \in N : ~Old(s) /\ Keeps(s) /\ KeepsRow(s) /\ Started(s)',
           \A s \in Sids \ N : Old(s) /\ rows[s] # None /\ rows'[s] = None => ~GoingOn(rows[s].pid),
           \A f \in Files : \/ mem'.files[f] \in {0, mem.files[f]}
                            \/ \E q \in Sids : mem'.files[f] = q /\ Live(q)' /\ FileOf(q)' = f,
           mem'.watched \subseteq mem.watched,
           NEW t, \A u \in Tasks \ {t} : tasks'[u] = tasks[u],
           \A u \in Tasks \ {t} : tasks[u] # None /\ tasks[u].op = "restart" /\ tasks[u].sid \in N =>
             tasks[u].pc \notin Replacing /\ mem'.sessions[tasks[u].sid] = None,
           t \in Tasks => \A s \in Sids \ N : Live(s) /\ StartedBy(t, s) => StartedBy(t, s)',
           t \in Tasks /\ tasks'[t] # None => Right(tasks[t])',
           t \in Tasks /\ tasks'[t] # None /\ tasks'[t].op = "create" =>
             \/ tasks[t] # None /\ tasks[t].op = "create" /\ tasks[t].file = tasks'[t].file
             \/ \A u \in Tasks \ {t} : ~Creating(u, tasks'[t].file)
    PROVE  Single'
<1>0. 0 \notin Sids /\ Quieter
  BY DEF Milder, Quieter, Sids
<1>1. ASSUME NEW s \in Sids, Stays(s), Old(s) /\ rows[s] # None /\ rows'[s] = None => ~GoingOn(rows[s].pid)
      PROVE  Keeps(s) /\ KeepsRow(s)
  <2>1. Keeps(s)
    BY <1>1 DEF Stays, Keeps
  <2>2. rows'[s] \in {None, rows[s]}
    BY <1>1 DEF Stays
  <2>3. KeepsRow(s)
    BY <1>1, <2>2 DEF KeepsRow, Old
  <2> QED BY <2>1, <2>3
<1>2. \A s \in Sids : Keeps(s) /\ KeepsRow(s)
  BY <1>1
<1>3. Settled'
  <2>1. boot'.phase = "reattaching" =>
           \/ /\ boot.phase = "reattaching" /\ boot'.left \subseteq boot.left
              /\ \A s \in boot'.left : rows'[s] \in {None, rows[s]}
           \/ boot.phase \in {"off", "listening"}
    <3> SUFFICES ASSUME boot.phase = "reattaching", NEW s \in boot.left PROVE rows'[s] \in {None, rows[s]}
      OBVIOUS
    <3>1. s \in Sids /\ Old(s) /\ mem.sessions[s] = None
      BY TypeParts DEF Typed, Boot, Old, IInv, OldIsUntouched
    <3> QED BY <3>1 DEF Stays
  <2> QED BY <1>2, <2>1, SettledFrame DEF Single
<1>4. /\ \A u \in Tasks \ {t} : tasks'[u] # None => Right(tasks[u])'
      /\ OneCreate'
      /\ \A s \in Sids \ N : Started(s)'
  <2>1. \A s \in N : mem'.sessions[s] # None =>
           /\ mem.sessions[s] # None /\ mem'.sessions[s].file = mem.sessions[s].file
           /\ mem'.sessions[s].status # "dead" => mem.sessions[s].status # "dead"
    BY DEF Keeps
  <2> QED BY <1>0, <2>1, RequestsFrame
<1> QED BY <1>3, <1>4 DEF Single

\* A step that touches no session
LEMMA LightStep ==
    ASSUME Typed, Typed', IInv, Tidy, Single, Milder, SameCounts, boot' = boot,
           \A s \in Sids : Stays(s),
           \A s \in Sids : Old(s) /\ rows[s] # None /\ rows'[s] = None => ~GoingOn(rows[s].pid),
           \A f \in Files : \/ mem'.files[f] \in {0, mem.files[f]}
                            \/ \E q \in Sids : mem'.files[f] = q /\ Live(q)' /\ FileOf(q)' = f,
           mem'.watched \subseteq mem.watched,
           NEW t, \A u \in Tasks \ {t} : tasks'[u] = tasks[u],
           t \in Tasks => \A s \in Sids : Live(s) /\ StartedBy(t, s) => StartedBy(t, s)',
           t \in Tasks /\ tasks'[t] # None => Right(tasks[t])',
           t \in Tasks /\ tasks'[t] # None /\ tasks'[t].op = "create" =>
             \/ tasks[t] # None /\ tasks[t].op = "create" /\ tasks[t].file = tasks'[t].file
             \/ \A u \in Tasks \ {t} : ~Creating(u, tasks'[t].file)
    PROVE  Single'
<1> DEFINE N == {}
<1>1. /\ N \in SUBSET Sids /\ Sids \ N = Sids /\ \A s \in N : FALSE
      /\ \A u \in Tasks \ {t} : tasks[u] # None /\ tasks[u].op = "restart" => tasks[u].sid \notin N
  OBVIOUS
<1> HIDE DEF N
<1> QED BY <1>1, PlainStep

\* A step of the processes or of the store alone
LEMMA OutsideStep ==
    ASSUME Typed, Typed', IInv, Tidy, Single, Milder, SameCounts, UNCHANGED <<boot, tasks>>,
           \A s \in Sids : Stays(s),
           \A s \in Sids : Old(s) /\ rows[s] # None /\ rows'[s] = None => ~GoingOn(rows[s].pid),
           mem'.files = mem.files, mem'.watched = mem.watched
    PROVE  Single'
<1>1. 0 \notin Tasks
  BY DEF Tasks
<1> QED BY <1>1, LightStep

\* Signals and kills end processes and start none.
LEMMA SignalMild ==
    ASSUME Typed, NEW p, NEW who \in Marks,
           procs' \in {procs, Signalled(p, who), Killed(p, who)}
    PROVE  Milder
<1>1. procs \in [Pids -> Proc]
  BY TypeParts DEF Typed
<1>2. ASSUME NEW q \in Pids
      PROVE  /\ procs'[q].st # "none" => procs[q].st # "none"
             /\ procs'[q].st \in {"booting", "up"} => procs[q].st \in {"booting", "up"}
             /\ procs'[q].marks = {} => procs[q].marks = {}
             /\ procs'[q].file = procs[q].file
  BY <1>1 DEF Signalled, Killed, Proc, Alive
<1> QED BY <1>2 DEF Milder, Going, GoingOn, Runs

\* So do the marks that ps leaves.
LEMMA NotedMild == ASSUME Noted PROVE Milder
BY DEF Noted, Milder, Going, GoingOn

\* What ps does not answer, or answers with a start time
LEMMA PsMild ==
    ASSUME Typed, NEW P, NEW p, NEW time,
           procs' = procs \/ procs' = Missed(P) \/ procs' = Recognised(p, time)
    PROVE  Milder
<1>1. CASE procs' = procs
  BY <1>1, SignalMild DEF Marks
<1>2. CASE procs' = Missed(P)
  BY <1>2, MissedNotes, NotedMild
<1>3. CASE procs' = Recognised(p, time)
  BY <1>3, RecognisedNotes, NotedMild
<1> QED BY <1>1, <1>2, <1>3

\* Sessions that are cleaned up when their process does not go on
LEMMA CleanedKeeps ==
    ASSUME Typed, NEW m \in Memory, NEW S \in SUBSET Sids, m.sessions = mem.sessions,
           m.files = mem.files, m.watched \subseteq mem.watched,
           \A s \in Sids : m.handle[s] \in {0, mem.handle[s]}, Cleaned(m, S),
           \A s \in S : Has(s) => ~GoingOn(mem.sessions[s].pid) /\ ~Old(s)
    PROVE  /\ \A s \in Sids \ {q \in S : Has(q)} : Stays(s) /\ rows'[s] = rows[s]
           /\ \A s \in {q \in S : Has(q)} : ~Old(s) /\ Keeps(s) /\ KeepsRow(s) /\ Started(s)'
           /\ \A f \in Files : mem'.files[f] \in {0, mem.files[f]}
           /\ mem'.watched \subseteq mem.watched
<1>1. ASSUME NEW s \in Sids
      PROVE  /\ mem'.sessions[s] = IF s \in S THEN None ELSE mem.sessions[s]
             /\ mem'.handle[s] \in {0, mem.handle[s]}
             /\ rows'[s] = IF s \in S /\ mem.sessions[s] # None THEN None ELSE rows[s]
  BY DEF Cleaned, Forgotten
<1>2. ASSUME NEW s \in Sids, s \notin S \/ ~Has(s) PROVE Stays(s) /\ rows'[s] = rows[s]
  BY <1>1, <1>2 DEF Stays, Has, Sids
<1>3. ASSUME NEW s \in S, Has(s) PROVE ~Old(s) /\ Keeps(s) /\ KeepsRow(s) /\ Started(s)'
  BY <1>1, <1>3 DEF Keeps, KeepsRow, Started, Live, Has
<1>4. mem'.watched \subseteq mem.watched
  BY DEF Cleaned, Forgotten
<1>5. \A f \in Files : mem'.files[f] \in {0, mem.files[f]}
  BY DEF Cleaned, Forgotten
<1> QED BY <1>2, <1>3, <1>4, <1>5

\* stopKernel up to its sleep, by a new request or one whose kernel did not come up
LEMMA StopBeginsSingle ==
    ASSUME Typed, Typed', IInv, Tidy, Single, NEW t \in Tasks, NEW x \in Task, NEW s \in Sids, Has(s),
           StopBegins(t, x, s), boot' = boot, SameCounts,
           x.op \in {"stop", "create", "restart"},
           x.op # "stop" => x.file = FileOf(s), x.then = "port" => x.op = "create",
           x.op = "create" => /\ boot.phase = "up"
                              /\ \A q \in Sids : Live(q) /\ FileOf(q) = x.file => q = s
                              /\ tasks[t] = x \/ \A u \in Tasks \ {t} : ~Creating(u, x.file),
           \/ tasks[t] = None /\ \A u \in Tasks : tasks[u] # None /\ tasks[u].sid = s => tasks[u].op # "restart"
           \/ tasks[t] = x /\ x.sid = s
    PROVE  Single'
<1> DEFINE h == mem.handle[s]
           p == mem.sessions[s].pid
           m == [mem EXCEPT !.sock[s] = 0, !.watched = mem.watched \ {h}]
<1>1. mem \in Memory /\ tasks \in [Tasks -> Task \cup {None}] /\ rows \in [Sids -> Row \cup {None}]
  BY TypeParts DEF Typed
<1>2. /\ m.sessions = mem.sessions /\ m.handle = mem.handle /\ m.files = mem.files
      /\ m.watched \subseteq mem.watched
  BY <1>1 DEF Memory
<1>3. m \in Memory
  <2>1. mem.watched \ {h} \in SUBSET Pids
    BY <1>1 DEF Memory
  <2> HIDE DEF h
  <2> QED BY <1>1, <2>1, Numbers DEF Memory
<1>4. ~Old(s) /\ s # 0
  BY DEF IInv, OldIsUntouched, Has
<1>5. x # None
  BY NoneAssumption
<1>6. ASSUME NEW u \in Tasks \ {t}, tasks[u] # None, tasks[u].op = "restart" PROVE tasks[u].sid # s
  <2>1. CASE tasks[t] = None
    BY <1>6, <2>1, <1>5
  <2>2. CASE tasks[t] = x /\ x.sid = s
    <3>1. Apart(tasks[u], x)
      BY <1>5, <1>6, <2>2 DEF Tidy, Alone
    <3> QED BY <1>4, <1>6, <2>2, <3>1 DEF Apart
  <2> QED BY <2>1, <2>2
<1>7. ASSUME mem' = m, UNCHANGED rows, NEW pc \in {"reap", "kill"}, NEW q \in 0..MaxProcs,
             tasks' = [tasks EXCEPT ![t] = [x EXCEPT !.pc = pc, !.sid = s, !.pid = q]], Milder
      PROVE  Single'
  <2> DEFINE y == [x EXCEPT !.pc = pc, !.sid = s, !.pid = q]
  <2>1. y.sid = s /\ y.pc = pc /\ y.op = x.op /\ y.file = x.file /\ y # None
    <3>1. y \in Task
      BY Numbers DEF Task
    <3> QED BY <3>1, NoneAssumption DEF Task
  <2>2. tasks'[t] = y /\ \A u \in Tasks \ {t} : tasks'[u] = tasks[u]
    BY <1>1, <1>7
  <2> HIDE DEF y
  <2>3. \A r \in Sids : Stays(r)
    BY <1>2, <1>7 DEF Stays
  <2>4. mem'.sessions = mem.sessions /\ mem'.files = mem.files /\ mem'.watched \subseteq mem.watched
    BY <1>2, <1>7
  <2>5. Right(tasks[t])'
    <3>1. x.op = "create" => CreateFine(y)'
      BY <2>1, <2>4, <1>4 DEF CreateFine, FileOf, Live, Has
    <3>2. x.op = "restart" => RestartFine(y)'
      BY <2>1, <2>4 DEF RestartFine, Replacing, FileOf
    <3> QED BY <2>1, <2>2, <3>1, <3>2 DEF Right
  <2>6. \A r \in Sids : StartedBy(t, r) => StartedBy(t, r)'
    BY <1>5, <2>1, <2>2 DEF StartedBy
  <2>7. y.op = "create" => \/ tasks[t] # None /\ tasks[t].op = "create" /\ tasks[t].file = y.file
                           \/ \A u \in Tasks \ {t} : ~Creating(u, y.file)
    BY <1>5, <2>1
  <2>8. \A r \in Sids : ~(rows[r] # None /\ rows'[r] = None)
    BY <1>7
  <2> QED BY <1>7, <2>2, <2>3, <2>4, <2>5, <2>6, <2>7, <2>8, LightStep
<1>8. ASSUME h = 0, ~Alive(p), UNCHANGED procs, Cleaned(m, {s}), tasks' = [tasks EXCEPT ![t] = AfterStop(x)]
      PROVE  Single'
  <2> DEFINE y == AfterStop(x)
             N == {q \in {s} : Has(q)}
  <2>1. N = {s}
    OBVIOUS
  <2>2. Milder
    BY <1>8, SignalMild DEF Marks
  <2>3. ~GoingOn(p)
    BY <1>8 DEF Alive, GoingOn, Pids
  <2>4. /\ \A r \in Sids \ N : Stays(r) /\ rows'[r] = rows[r]
        /\ \A r \in N : ~Old(r) /\ Keeps(r) /\ KeepsRow(r) /\ Started(r)'
        /\ \A f \in Files : mem'.files[f] \in {0, mem.files[f]}
        /\ mem'.watched \subseteq mem.watched
    <3> HIDE DEF m
    <3>1. \A r \in {s} : Has(r) => ~GoingOn(mem.sessions[r].pid) /\ ~Old(r)
      BY <1>4, <2>3
    <3>2. {s} \in SUBSET Sids
      OBVIOUS
    <3> QED BY <1>2, <1>3, <1>8, <3>1, <3>2, CleanedKeeps
  <2> HIDE DEF N
  <2>5. y # None => y.sid = 0 /\ y.pc = "port" /\ y.op = "create" /\ y.file = x.file
    BY DEF AfterStop, Task
  <2> HIDE DEF y
  <2>6. tasks'[t] = y /\ \A u \in Tasks \ {t} : tasks'[u] = tasks[u]
    BY <1>1, <1>8 DEF y
  <2>7. ASSUME y # None PROVE Right(y)'
    <3>1. x.op = "create"
      BY <2>7 DEF y, AfterStop
    <3>2. ASSUME NEW q \in Sids, Live(q)', FileOf(q)' = x.file PROVE FALSE
      <4>1. q \notin N /\ Stays(q)
        <5>1. mem'.sessions[s] = None
          BY <1>8 DEF Cleaned, Forgotten
        <5> QED BY <2>1, <2>4, <3>2, <5>1 DEF Live, Has
      <4>2. Live(q) /\ FileOf(q) = x.file
        BY <3>2, <4>1 DEF Stays, Live, Has, FileOf
      <4> QED BY <2>1, <3>1, <4>1, <4>2
    <3> QED BY <2>5, <2>7, <3>1, <3>2 DEF Right, CreateFine, Has
  <2>8. y # None => \/ tasks[t] # None /\ tasks[t].op = "create" /\ tasks[t].file = y.file
                    \/ \A u \in Tasks \ {t} : ~Creating(u, y.file)
    <3>1. y # None => x.op = "create"
      BY DEF y, AfterStop
    <3> QED BY <1>5, <2>5, <3>1
  <2>9. \A r \in Sids \ N : StartedBy(t, r) => StartedBy(t, r)'
    BY <1>5, <2>1 DEF StartedBy
  <2>10. N \in SUBSET Sids /\ \A u \in Tasks \ {t} : tasks[u] # None /\ tasks[u].op = "restart" => tasks[u].sid \notin N
    BY <1>6, <2>1
  <2>11. tasks'[t] # None => Right(tasks[t])'
    BY <2>6, <2>7
  <2>12. \A r \in Sids \ N : Old(r) /\ rows[r] # None /\ rows'[r] = None => ~GoingOn(rows[r].pid)
    BY <2>4
  <2> QED BY <2>2, <2>4, <2>6, <2>8, <2>9, <2>10, <2>11, <2>12, PlainStep
<1>9. \/ (procs' = IF Kernel(h) THEN Signalled(h, "stop") ELSE procs) /\ mem' = m /\ UNCHANGED rows
         /\ tasks' = [tasks EXCEPT ![t] = [x EXCEPT !.pc = "reap", !.sid = s, !.pid = h]]
      \/ procs' = Signalled(p, "stop") /\ mem' = m /\ UNCHANGED rows
         /\ tasks' = [tasks EXCEPT ![t] = [x EXCEPT !.pc = "kill", !.sid = s, !.pid = p]]
      \/ h = 0 /\ ~Alive(p) /\ UNCHANGED procs /\ Cleaned(m, {s}) /\ tasks' = [tasks EXCEPT ![t] = AfterStop(x)]
  BY DEF StopBegins
<1>10. procs' = (IF Kernel(h) THEN Signalled(h, "stop") ELSE procs) \/ procs' = Signalled(p, "stop") => Milder
  BY SignalMild DEF Marks
<1>11. h \in 0..MaxProcs /\ p \in 0..MaxProcs
  BY SessionParts
<1> HIDE DEF h, p, m
<1> QED BY <1>7, <1>8, <1>9, <1>10, <1>11

\* Requests that come in
LEMMA AskedSingle ==
    ASSUME Typed, Typed', IInv, Tidy, Single, NEW t \in Tasks, Asked(t), past' = {}
    PROVE  Single'
<1>1. mem \in Memory /\ tasks \in [Tasks -> Task \cup {None}] /\ rows \in [Sids -> Row \cup {None}]
      /\ procs \in [Pids -> Proc]
  BY TypeParts DEF Typed
<1>2. Asks => SameCounts
  BY DEF Asks, SameCounts, Typed, TypeOK
<1>3. ASSUME NEW S, Notes(S) PROVE S = {}
  BY <1>3 DEF Notes
<1>4. ASSUME NEW s, NEW op, RacedIf(Overlaps(s, op)) = {}
      PROVE  /\ \A u \in Tasks : tasks[u] # None /\ tasks[u].sid = s => "restart" \notin {op, tasks[u].op}
             /\ op = "restart" => boot.sid # s
  BY <1>4 DEF RacedIf, Overlaps
<1>5. ASSUME Early = {} PROVE boot.phase = "up"
  BY <1>5 DEF Early
<1>6. ASSUME NEW s \in Sids, Stop(t, s) PROVE Single'
  <2> DEFINE x == NewTask("stop", "reap", s, 0, mem.sessions[s].file, mem.sessions[s].name)
  <2>1. /\ Has(s) /\ StopBegins(t, x, s) /\ tasks[t] = None /\ SameCounts /\ boot' = boot
        /\ Notes(RacedIf(Overlaps(s, "stop")))
    BY <1>2, <1>6 DEF Stop, Idle
  <2>2. x.op = "stop" /\ x.then = "end"
    BY DEF NewTask
  <2>3. x \in Task
    BY <2>1, SessionParts, Numbers DEF NewTask, Task, AllRequests
  <2>4. \A u \in Tasks : tasks[u] # None /\ tasks[u].sid = s => tasks[u].op # "restart"
    BY <1>3, <1>4, <2>1
  <2> HIDE DEF x
  <2> QED BY <2>1, <2>2, <2>3, <2>4, StopBeginsSingle
<1>7. ASSUME NEW s \in Sids, Restart(t, s) PROVE Single'
  <2> DEFINE session == mem.sessions[s]
             h == mem.handle[s]
             pc == IF h # 0 THEN "restart reap" ELSE IF session.pid # 0 THEN "restart verify" ELSE "port"
             x == NewTask("restart", pc, s, IF h # 0 THEN h ELSE session.pid, session.file, session.name)
             m == [mem EXCEPT !.sessions[s].status = "starting", !.sock[s] = 0, !.watched = mem.watched \ {h}]
             N == {s}
  <2>1. Has(s) /\ tasks[t] = None /\ UNCHANGED <<rows, boot>> /\ mem' = m /\ SameCounts
        /\ procs' = (IF Kernel(h) THEN Signalled(h, "restart") ELSE procs)
        /\ tasks' = [tasks EXCEPT ![t] = x]
        /\ Notes(RacedIf(Overlaps(s, "restart")) \cup IF Live(s) THEN {} ELSE {"several"})
    BY <1>2, <1>7 DEF Restart, Idle
  <2>2. /\ Live(s) /\ boot.sid # s
        /\ \A u \in Tasks : tasks[u] # None => tasks[u].sid # s
    <3>1. RacedIf(Overlaps(s, "restart")) = {} /\ Live(s)
      BY <1>3, <2>1
    <3> QED BY <1>4, <3>1
  <2>3. /\ h \in 0..MaxProcs /\ session.pid \in 0..MaxProcs /\ (h # 0 => h = session.pid) /\ session \in Session
    BY <2>1, SessionParts DEF Tidy, SessionOK
  <2>4. /\ \A q \in Sids \ {s} : mem'.sessions[q] = mem.sessions[q]
        /\ mem'.sessions[s] # None
        /\ mem'.sessions[s].status = "starting" /\ mem'.sessions[s].pid = session.pid
        /\ mem'.sessions[s].file = session.file
        /\ mem'.handle = mem.handle /\ mem'.files = mem.files /\ mem'.watched = mem.watched \ {h}
    <3>1. [session EXCEPT !.status = "starting"] \in Session
      BY <2>3 DEF Session
    <3>2. mem'.sessions = [mem.sessions EXCEPT ![s] = [session EXCEPT !.status = "starting"]]
      BY <1>1, <2>1 DEF Memory
    <3>3. mem'.sessions[s] = [session EXCEPT !.status = "starting"]
      BY <1>1, <3>2 DEF Memory
    <3>4. mem'.sessions[s] # None
      BY <3>1, <3>3, NoneAssumption
    <3>5. [session EXCEPT !.status = "starting"].status = "starting"
          /\ [session EXCEPT !.status = "starting"].pid = session.pid
          /\ [session EXCEPT !.status = "starting"].file = session.file
      BY <2>3 DEF Session
    <3>6. mem'.handle = mem.handle /\ mem'.files = mem.files /\ mem'.watched = mem.watched \ {h}
      BY <1>1, <2>1 DEF Memory
    <3>7. \A q \in Sids \ {s} : mem'.sessions[q] = mem.sessions[q]
      BY <1>1, <3>2 DEF Memory
    <3> QED BY <3>3, <3>4, <3>5, <3>6, <3>7
  <2>5. Milder /\ ((h # 0) => ~GoingOn(h))
    <3>1. Milder
      BY <2>1, SignalMild DEF Marks
    <3>2. h # 0 => ~GoingOn(h)
      BY <2>1, <2>3, SignalEnds DEF Marks
    <3> QED BY <3>1, <3>2
  <2>6. x.op = "restart" /\ x.pc = pc /\ x.sid = s /\ x.file = FileOf(s) /\ x # None
    <3>1. x \in Task
      BY <2>3, <2>1, SessionParts, Numbers DEF NewTask, Task, AllRequests
    <3> QED BY <3>1, NoneAssumption DEF NewTask, FileOf
  <2>7. tasks'[t] = x /\ \A u \in Tasks \ {t} : tasks'[u] = tasks[u]
    <3> HIDE DEF x
    <3> QED BY <1>1, <2>1
  <2> HIDE DEF x, m
  <2>8. Right(tasks[t])'
    <3>1. pc = "restart verify" => rows'[s] # None /\ rows'[s].pid = mem'.sessions[s].pid
      <4>1. mem.sessions[s].status = "ready"
        <5>1. mem.sessions[s].status \in {"starting", "ready", "dead"}
          BY <2>3 DEF Session
        <5>2. mem.sessions[s].status # "starting"
          BY <2>2 DEF Single, Started, StartedBy
        <5> QED BY <2>2, <5>1, <5>2 DEF Live
      <4>2. RowGood(s)
        BY <2>1, <4>1 DEF Tidy, SessionOK
      <4> QED BY <2>1, <2>4, <4>2 DEF RowGood
    <3>2. pc \in {"restart reap", "port"} => ~GoingOn(mem'.sessions[s].pid)
      BY <2>3, <2>4, <2>5 DEF GoingOn, Pids
    <3>3. pc = "restart reap" => mem'.handle[s] \notin mem'.watched
      BY <2>4
    <3>4. s # 0
      BY DEF Sids
    <3>11. x.pc = "port" => mem'.handle[x.sid] = 0
      <4>1. pc = "port" => h = 0
        BY DEF pc
      <4> QED BY <2>4, <2>6, <4>1
    <3>5. mem'.sessions[x.sid] # None /\ x.sid # 0 /\ x.file = mem'.sessions[x.sid].file
      BY <2>4, <2>6, <3>4 DEF FileOf
    <3> HIDE DEF pc
    <3>6. x.pc = "restart verify" => rows'[x.sid] # None /\ rows'[x.sid].pid = mem'.sessions[x.sid].pid
      BY <2>6, <3>1
    <3>7. x.pc = "restart reap" => mem'.handle[x.sid] \notin mem'.watched
      BY <2>6, <3>3
    <3>8. x.pc \in Replacing \ {"restart verify"} => ~GoingOn(mem'.sessions[x.sid].pid)
      <4>1. pc \in {"restart reap", "restart verify", "port"}
        BY DEF pc
      <4> QED BY <2>6, <3>2, <4>1
    <3>9. tasks'[t] = x
      BY <2>7
    <3>10. RestartFine(tasks[t])'
      BY <3>5, <3>6, <3>7, <3>8, <3>9, <3>11 DEF RestartFine, Replacing, Has, FileOf, Going, GoingOn, Runs
    <3> QED BY <2>6, <3>9, <3>10 DEF Right
  <2>9. \A q \in Sids \ N : Stays(q)
    BY <2>1, <2>4 DEF Stays
  <2>10. \A q \in N : ~Old(q) /\ Keeps(q) /\ KeepsRow(q) /\ Started(q)'
    <3>1. ~Old(s)
      BY <2>1 DEF IInv, OldIsUntouched, Has
    <3>2. Keeps(s)
      BY <2>2, <2>4 DEF Keeps, Live, Has
    <3>3. KeepsRow(s)
      BY <2>1, <3>1 DEF KeepsRow
    <3>4. Started(s)'
      BY <2>6, <2>7 DEF Started, StartedBy
    <3> QED BY <3>1, <3>2, <3>3, <3>4
  <2>11. N \in SUBSET Sids /\ \A u \in Tasks \ {t} : tasks[u] # None /\ tasks[u].op = "restart" => tasks[u].sid \notin N
    BY <2>2
  <2>12. \A q \in Sids : StartedBy(t, q) => StartedBy(t, q)'
    BY <2>1 DEF StartedBy
  <2>13. \A q \in Sids \ N : Old(q) /\ rows[q] # None /\ rows'[q] = None => ~GoingOn(rows[q].pid)
    BY <2>1
  <2>14. \A f \in Files : mem'.files[f] \in {0, mem.files[f]}
    BY <2>4
  <2>15. mem'.watched \subseteq mem.watched
    BY <2>4
  <2>16. Milder /\ boot' = boot /\ SameCounts
    BY <2>1, <2>5
  <2>17. tasks'[t] # None => Right(tasks[t])'
    BY <2>7, <2>8
  <2>18. tasks'[t] = x /\ x.op = "restart" /\ \A u \in Tasks \ {t} : tasks'[u] = tasks[u]
    BY <2>6, <2>7
  <2> HIDE DEF N
  <2> QED BY <2>9, <2>10, <2>11, <2>12, <2>13, <2>14, <2>15, <2>16, <2>17, <2>18, PlainStep
<1>8. ASSUME NEW s \in Sids, CleanDead(t, s) PROVE Single'
  <2> DEFINE x == NewTask("clean", "clean check", s, rows[s].pid, rows[s].file, rows[s].name)
  <2>1. /\ UNCHANGED <<procs, mem, boot>> /\ tasks[t] = None /\ SameCounts /\ ~Live(s)
        /\ tasks' \in {tasks, [tasks EXCEPT ![t] = x]} /\ rows' \in {rows, [rows EXCEPT ![s] = None]}
    BY <1>2, <1>8 DEF CleanDead, Idle, DeadRows
  <2>2. boot.phase = "up"
    BY <1>3, <1>8 DEF CleanDead
  <2>3. x.op = "clean" /\ x.pc = "clean check"
    BY DEF NewTask
  <2> HIDE DEF x
  <2>4. \A u \in Tasks \ {t} : tasks'[u] = tasks[u]
    BY <1>1, <2>1
  <2>5. tasks'[t] # None => tasks'[t].op = "clean" /\ tasks'[t].pc = "clean check"
    BY <1>1, <2>1, <2>3
  <2>6. ASSUME NEW q \in Sids PROVE Stays(q)
    <3>1. rows'[q] = rows[q] \/ (rows'[q] = None /\ q = s)
      BY <1>1, <2>1
    <3>2. s # 0 /\ (mem.sessions[s] # None => mem.sessions[s].status # "starting")
      BY <2>1 DEF Live, Has, Sids
    <3> QED BY <2>1, <3>1, <3>2 DEF Stays
  <2>7. \A q \in Sids : ~Old(q)
    BY <2>2, TypeParts DEF Old, Typed
  <2>8. Milder
    BY <2>1, SignalMild DEF Marks
  <2>9. tasks'[t] # None => Right(tasks[t])'
    BY <2>5 DEF Right
  <2>10. \A q \in Sids : StartedBy(t, q) => StartedBy(t, q)'
    BY <2>1 DEF StartedBy
  <2>11. \A f \in Files : mem'.files[f] \in {0, mem.files[f]}
    BY <2>1
  <2>12. mem'.watched \subseteq mem.watched
    BY <2>1
  <2> QED BY <2>1, <2>4, <2>5, <2>6, <2>7, <2>8, <2>9, <2>10, <2>11, <2>12, LightStep
<1>11. ASSUME NEW s \in Sids, AutoCheck(t, s) PROVE Single'
  <2> DEFINE x == NewTask("clean", "clean delete", s, rows[s].pid, rows[s].file, rows[s].name)
  <2>1. /\ UNCHANGED <<mem, rows, boot>> /\ tasks[t] = None /\ SameCounts
        /\ tasks' = [tasks EXCEPT ![t] = x]
        /\ procs' \in {procs, Missed({rows[s].pid})}
    BY <1>2, <1>11 DEF AutoCheck, Idle
  <2>2. boot.phase = "up"
    BY <1>3, <1>11 DEF AutoCheck
  <2>3. x.op = "clean" /\ x.pc = "clean delete"
    BY DEF NewTask
  <2> HIDE DEF x
  <2>4. tasks'[t] = x /\ \A u \in Tasks \ {t} : tasks'[u] = tasks[u]
    BY <1>1, <2>1
  <2>5. \A q \in Sids : Stays(q) /\ ~(rows[q] # None /\ rows'[q] = None)
    BY <2>1 DEF Stays
  <2>6. Milder
    BY <2>1, PsMild
  <2>7. tasks'[t] # None => Right(tasks[t])'
    BY <2>3, <2>4 DEF Right
  <2>8. \A q \in Sids : StartedBy(t, q) => StartedBy(t, q)'
    BY <2>1 DEF StartedBy
  <2>9. mem'.files = mem.files /\ mem'.watched = mem.watched
    BY <2>1
  <2> QED BY <2>1, <2>3, <2>4, <2>5, <2>6, <2>7, <2>8, <2>9, LightStep
<1>9. ASSUME NEW f \in Files, NEW n \in Names, StartKernel(t, f, n) PROVE Single'
  BY <1>3, <1>9 DEF StartKernel
<1>10. ASSUME NEW f \in Files, NEW n \in Names, NEW s \in 0..MaxSessions, GetOrCreate(t, f, n, s) PROVE Single'
  <2> DEFINE x == NewTask("create", "port", 0, 0, f, n)
             mapped == [mem EXCEPT !.files[f] = s]
             z == [x EXCEPT !.then = "port"]
  <2>1. /\ tasks[t] = None /\ ~InFlight(f) /\ s \in Found(f) /\ UNCHANGED boot /\ SameCounts
        /\ Early = {} /\ RacedIf(Overlaps(s, "create")) = {}
    BY <1>2, <1>3, <1>10 DEF GetOrCreate, Idle
  <2>2. boot.phase = "up" /\ boot.sid = 0 /\ \A u \in Tasks : tasks[u] # None /\ tasks[u].sid = s => tasks[u].op # "restart"
    BY <1>4, <1>5, <2>1 DEF Tidy, BootOK
  <2>3. \A u \in Tasks : ~Creating(u, f)
    BY <2>1 DEF InFlight, Creating
  <2>4. Live(s) => s \in Sids /\ FileOf(s) = f
    <3> SUFFICES ASSUME Live(s) PROVE s \in Sids /\ FileOf(s) = f
      OBVIOUS
    <3>1. s \in Sids /\ s # 0
      BY Numbers DEF Live, Has
    <3>2. s = mem.files[f] \/ (s \in Sids /\ Live(s) /\ mem.sessions[s].file = f)
      BY <2>1, <3>1 DEF Found
    <3>3. CASE s = mem.files[f]
      BY <3>1, <3>3 DEF Single, Settled, Mapped, Live
    <3> QED BY <3>1, <3>2, <3>3 DEF FileOf
  <2>5. ASSUME ~Live(s), NEW q \in Sids, Live(q), FileOf(q) = f PROVE FALSE
    <3>1. mem.files[f] \in {0, q}
      BY <2>5 DEF Single, Settled, Mapped
    <3>2. q # 0
      BY DEF Sids
    <3>3. CASE mem.files[f] = q
      BY <2>1, <2>5, <3>2, <3>3 DEF Found
    <3>4. CASE mem.files[f] = 0
      <4>1. q \in {r \in Sids : Live(r) /\ mem.sessions[r].file = f}
        BY <2>5 DEF FileOf
      <4> HIDE <2>5
      <4> QED BY <2>1, <2>5, <3>4, <4>1 DEF Found
    <3> QED BY <3>1, <3>3, <3>4
  <2>6. Live(s) => mem.sessions[s].status # "starting"
    <3> SUFFICES ASSUME Live(s), mem.sessions[s].status = "starting" PROVE FALSE
      OBVIOUS
    <3>1. s \in Sids /\ s # 0 /\ Started(s)
      BY <2>4 DEF Single, Sids
    <3>2. PICK u \in Tasks : StartedBy(u, s)
      BY <2>2, <3>1 DEF Started
    <3>3. tasks[u].op = "create"
      BY <2>2, <3>2 DEF StartedBy
    <3>4. Right(tasks[u]) /\ Has(tasks[u].sid)
      BY <3>2 DEF Single, StartedBy, Live
    <3>5. tasks[u].file = FileOf(s)
      BY <3>2, <3>3, <3>4 DEF Right, CreateFine, StartedBy
    <3> QED BY <2>3, <2>4, <3>2, <3>3, <3>5 DEF StartedBy, Creating
  <2>7. x.op = "create" /\ x.file = f /\ x.pc = "port" /\ x.sid = 0 /\ x \in Task
    BY Numbers DEF NewTask, Task, AllRequests
  <2>8. \/ ~Live(s) /\ tasks' = [tasks EXCEPT ![t] = x] /\ UNCHANGED <<procs, mem, rows>>
        \/ Live(s) /\ StopBegins(t, z, s)
        \/ Live(s) /\ mem' = mapped /\ UNCHANGED <<procs, rows, tasks>>
    BY <1>10, <2>6 DEF GetOrCreate
  <2>9. CASE ~Live(s) /\ tasks' = [tasks EXCEPT ![t] = x] /\ UNCHANGED <<procs, mem, rows>>
    <3> HIDE DEF x
    <3>1. tasks'[t] = x /\ \A u \in Tasks \ {t} : tasks'[u] = tasks[u]
      BY <1>1, <2>9
    <3>2. Right(x)'
      BY <2>1, <2>2, <2>5, <2>7, <2>9 DEF Right, CreateFine, Has, Live, FileOf
    <3>3. \A q \in Sids : Stays(q)
      BY <2>9 DEF Stays
    <3>4. Milder
      BY <2>9, SignalMild DEF Marks
    <3>5. \A q \in Sids : StartedBy(t, q) => StartedBy(t, q)'
      BY <2>1 DEF StartedBy
    <3>6. \A q \in Sids : ~(rows[q] # None /\ rows'[q] = None)
      BY <2>9
    <3>7. \A g \in Files : mem'.files[g] \in {0, mem.files[g]}
      BY <2>9
    <3>8. mem'.watched \subseteq mem.watched
      BY <2>9
    <3> QED BY <2>1, <2>3, <2>7, <3>1, <3>2, <3>3, <3>4, <3>5, <3>6, <3>7, <3>8, LightStep
  <2>10. CASE Live(s) /\ StopBegins(t, z, s)
    <3>1. z \in Task /\ z.op = "create" /\ z.file = f
      BY <2>7 DEF Task
    <3> HIDE DEF x, z
    <3>2. \A q \in Sids : Live(q) /\ FileOf(q) = z.file => q = s
      BY <2>4, <2>10, <3>1 DEF Single, Settled, OneSession
    <3>3. s \in Sids /\ Has(s) /\ FileOf(s) = f
      BY <2>4, <2>10 DEF Live
    <3> QED BY <2>1, <2>2, <2>3, <2>10, <3>1, <3>2, <3>3, StopBeginsSingle
  <2>11. CASE Live(s) /\ mem' = mapped /\ UNCHANGED <<procs, rows, tasks>>
    <3>1. mem'.sessions = mem.sessions /\ mem'.handle = mem.handle /\ mem'.watched = mem.watched
          /\ \A g \in Files : mem'.files[g] = IF g = f THEN s ELSE mem.files[g]
      BY <1>1, <2>11 DEF Memory
    <3>2. \A g \in Files : \/ mem'.files[g] \in {0, mem.files[g]}
                           \/ \E q \in Sids : mem'.files[g] = q /\ Live(q)' /\ FileOf(q)' = g
      BY <2>4, <2>11, <3>1 DEF Live, Has, FileOf
    <3>3. \A q \in Sids : Stays(q)
      BY <2>11, <3>1 DEF Stays
    <3>4. Milder
      BY <2>11, SignalMild DEF Marks
    <3>5. \A q \in Sids : StartedBy(t, q) => StartedBy(t, q)'
      BY <2>1 DEF StartedBy
    <3>6. \A q \in Sids : ~(rows[q] # None /\ rows'[q] = None)
      BY <2>11
    <3>7. tasks'[t] = None /\ \A u \in Tasks \ {t} : tasks'[u] = tasks[u]
      BY <2>1, <2>11
    <3> QED BY <2>1, <3>1, <3>2, <3>3, <3>4, <3>5, <3>6, <3>7, LightStep
  <2> QED BY <2>8, <2>9, <2>10, <2>11
<1> QED BY <1>6, <1>7, <1>8, <1>9, <1>10, <1>11 DEF Asked

\* 0 is the number of no session and no process.
LEMMA NoZeros == 0 \notin Sids /\ 0 \notin Pids
BY DEF Sids, Pids

\* What a request that goes on is known to be
LEMMA TaskParts ==
    ASSUME Typed, IInv, Tidy, Single, NEW t \in Tasks, NEW k, tasks[t] = k, k # None
    PROVE  /\ k \in Task /\ Fine(k) /\ Right(k) /\ k.sid \in 0..MaxSessions /\ k.pid \in 0..MaxProcs
           /\ k.sid # 0 => k.sid \in Sids
           /\ k.pc \notin Cleaning /\ k.sid # 0 => ~Old(k.sid)
           /\ k.op # "clean" /\ k.sid # 0 => \A u \in Tasks \ {t} :
                 tasks[u] # None /\ tasks[u].op = "restart" => tasks[u].sid # k.sid
<1>1. k \in Task /\ Fine(k) /\ Right(k)
  BY TypeParts DEF Typed, Tidy, TaskOK, Single
<1>2. k.sid \in 0..MaxSessions /\ k.pid \in 0..MaxProcs
  BY <1>1 DEF Task
<1>3. k.sid # 0 => k.sid \in Sids
  BY <1>2, Numbers
<1>4. k.pc \notin Cleaning /\ k.sid # 0 => ~Old(k.sid)
  BY <1>3 DEF IInv, OldIsUntouched
<1>5. k.op # "clean" /\ k.sid # 0 => \A u \in Tasks \ {t} :
         tasks[u] # None /\ tasks[u].op = "restart" => tasks[u].sid # k.sid
  BY DEF Tidy, Alone, Apart
<1> QED BY <1>1, <1>2, <1>3, <1>4, <1>5

\* What stopKernel leaves after its sleep
LEMMA StopEndsSingle ==
    ASSUME Typed, Typed', IInv, Tidy, Single, NEW t \in Tasks, StopEnds(t),
           NEW k, tasks[t] = k, NEW n, k.sid = n
    PROVE  Single'
<1> SUFFICES ASSUME NEW x, x = AfterStop(k), NEW N, N = {r \in {n} : Has(r)},
                    NEW m, m = IF k.pc = "reap" THEN [mem EXCEPT !.handle[n] = 0] ELSE mem
             PROVE  Single'
  OBVIOUS
<1>1. mem \in Memory /\ tasks \in [Tasks -> Task \cup {None}] /\ mem.handle \in [Sids -> 0..MaxProcs]
  BY TypeParts DEF Typed, Memory
<1>2. /\ k # None /\ k.pc \in {"reap", "kill"} /\ Cleaned(m, {n}) /\ boot' = boot /\ SameCounts
      /\ tasks' = [tasks EXCEPT ![t] = x]
      /\ procs' = IF k.pc = "kill" THEN Killed(k.pid, "stop") ELSE procs
  BY DEF StopEnds, SameCounts
<1>3. k \in Task /\ Fine(k) /\ Right(k) /\ n \in Sids /\ n # 0 /\ ~Old(n)
  <2>1. n # 0
    BY <1>2 DEF IInv, Fresh
  <2> QED BY <1>2, <2>1, TaskParts DEF Cleaning
<1>4. /\ m \in Memory /\ m.sessions = mem.sessions /\ m.files = mem.files /\ m.watched = mem.watched
      /\ \A r \in Sids : m.handle[r] \in {0, mem.handle[r]}
  <2>1. CASE k.pc = "reap"
    BY <1>1, <1>3, <2>1, Numbers DEF Memory
  <2>2. CASE k.pc # "reap"
    BY <1>1, <2>2
  <2> QED BY <2>1, <2>2
<1>5. Milder
  BY <1>2, SignalMild DEF Marks
<1>6. Has(n) => ~GoingOn(mem.sessions[n].pid)
  BY <1>2, <1>3, <1>5 DEF Fine, Milder, GoingOn
<1>7. /\ \A r \in Sids \ N : Stays(r) /\ rows'[r] = rows[r]
      /\ \A r \in N : ~Old(r) /\ Keeps(r) /\ KeepsRow(r) /\ Started(r)'
      /\ \A f \in Files : mem'.files[f] \in {0, mem.files[f]}
      /\ mem'.watched \subseteq mem.watched
  <2>1. \A r \in {n} : Has(r) => ~GoingOn(mem.sessions[r].pid) /\ ~Old(r)
    BY <1>3, <1>6
  <2>2. {n} \in SUBSET Sids
    BY <1>3
  <2> QED BY <1>2, <1>4, <2>1, <2>2, CleanedKeeps
<1>8. N \in SUBSET Sids /\ \A u \in Tasks \ {t} : tasks[u] # None /\ tasks[u].op = "restart" => tasks[u].sid \notin N
  <2>1. k.op # "clean"
    BY <1>2, <1>3 DEF Fine, Cleaning
  <2> QED BY <1>2, <1>3, <2>1, TaskParts
<1>9. \A r \in Sids \ N : Live(r) /\ StartedBy(t, r) => StartedBy(t, r)'
  BY DEF StartedBy, Live
<1>10. x # None => /\ x.sid = 0 /\ x.pc = "port" /\ x.op = "create" /\ k.op = "create" /\ x.file = k.file
  BY <1>3 DEF AfterStop, Task, Fine
<1>11. tasks'[t] = x /\ \A u \in Tasks \ {t} : tasks'[u] = tasks[u]
  BY <1>1, <1>2
<1>12. ASSUME x # None PROVE Right(x)'
  <2>1. CreateFine(k)
    BY <1>3, <1>10, <1>12 DEF Right
  <2>2. ASSUME NEW r \in Sids, Live(r)', FileOf(r)' = x.file PROVE FALSE
    <3>1. mem'.sessions[n] = None
      BY <1>2, <1>3 DEF Cleaned, Forgotten
    <3>2. r # n /\ Stays(r)
      BY <1>7, <2>2, <3>1 DEF Live, Has
    <3>3. Live(r) /\ FileOf(r) = k.file
      BY <1>10, <1>12, <2>2, <3>2 DEF Stays, Live, Has, FileOf
    <3> QED BY <2>1, <3>2, <3>3 DEF CreateFine
  <2> QED BY <1>2, <1>10, <1>12, <2>1, <2>2 DEF Right, CreateFine, Has
<1>13. tasks'[t] # None => Right(tasks[t])'
  BY <1>11, <1>12
<1>14. \A r \in Sids \ N : Old(r) /\ rows[r] # None /\ rows'[r] = None => ~GoingOn(rows[r].pid)
  BY <1>7
<1>15. tasks'[t] # None => tasks[t] # None /\ tasks[t].op = "create" /\ tasks[t].file = tasks'[t].file
  BY <1>2, <1>10, <1>11
<1>16. \A u \in Tasks \ {t} : tasks'[u] = tasks[u]
  BY <1>11
<1>17. boot' = boot /\ SameCounts
  BY <1>2
<1> QED BY <1>5, <1>7, <1>8, <1>9, <1>13, <1>14, <1>15, <1>16, <1>17, PlainStep

\* A kernel that answers, or does not
LEMMA BootSingle ==
    ASSUME Typed, Typed', IInv, Tidy, Single, NEW t \in Tasks, Booted(t) \/ BootFails(t),
           NEW k, tasks[t] = k, NEW n, k.sid = n
    PROVE  Single'
<1> SUFFICES ASSUME NEW x, x = [k EXCEPT !.pc = "stamp"] PROVE Single'
  OBVIOUS
<1>1. tasks \in [Tasks -> Task \cup {None}]
  BY TypeParts DEF Typed
<1>2. /\ k # None /\ k.pc = "boot" /\ boot' = boot /\ SameCounts
      /\ \/ UNCHANGED <<procs, mem, rows>> /\ Goes(t, "stamp")
         \/ UNCHANGED <<procs, mem, rows>> /\ Ends(t) /\ ~Has(n)
         \/ Has(n) /\ StopBegins(t, k, n)
  BY DEF Booted, BootFails, SameCounts
<1>3. /\ k \in Task /\ Fine(k) /\ Right(k) /\ k.op \in {"create", "restart"} /\ n \in Sids /\ n # 0
  <2>1. Fine(k) /\ Right(k) /\ n # 0
    BY <1>2, TaskParts DEF Fine, Raised
  <2> QED BY <1>2, <2>1, TaskParts DEF Right
<1>4. CASE Has(n) /\ StopBegins(t, k, n)
  <2>1. k.file = FileOf(n)
    BY <1>3, <1>4 DEF Right, CreateFine, RestartFine
  <2>2. k.op = "create" => /\ boot.phase = "up"
                           /\ \A q \in Sids : Live(q) /\ FileOf(q) = k.file => q = n
    BY <1>3 DEF Right, CreateFine
  <2>3. k.then = "port" => k.op = "create"
    BY <1>3 DEF Fine
  <2> QED BY <1>2, <1>3, <1>4, <2>1, <2>2, <2>3, StopBeginsSingle
<1>5. ASSUME UNCHANGED <<procs, mem, rows>>
      PROVE  /\ Milder /\ mem'.files = mem.files /\ mem'.watched = mem.watched
             /\ \A r \in Sids : Stays(r) /\ ~(rows[r] # None /\ rows'[r] = None)
  BY <1>5, SignalMild DEF Marks, Stays
<1>6. CASE UNCHANGED <<procs, mem, rows>> /\ Goes(t, "stamp")
  <2>1. tasks' = [tasks EXCEPT ![t] = x]
    BY <1>1, <1>2, <1>3, <1>6 DEF Goes
  <2>2. tasks'[t] = x /\ \A u \in Tasks \ {t} : tasks'[u] = tasks[u]
    BY <1>1, <2>1
  <2>3. x.sid = n /\ x.pc = "stamp" /\ x.op = k.op /\ x.file = k.file
    BY <1>3 DEF Task
  <2>4. x # None
    <3>1. x \in Task
      BY <1>3 DEF Task
    <3> QED BY <3>1, NoneAssumption
  <2>5. k.op = "create" => CreateFine(x)'
    BY <1>2, <1>3, <1>6, <2>3 DEF Right, CreateFine, Live, Has, FileOf
  <2>6. k.op = "restart" => RestartFine(x)'
    BY <1>3, <1>6, <2>3 DEF Right, RestartFine, Has, FileOf, Replacing
  <2>7. Right(tasks[t])'
    BY <1>3, <2>2, <2>3, <2>5, <2>6 DEF Right
  <2>8. \A r \in Sids : StartedBy(t, r) => StartedBy(t, r)'
    BY <2>2, <2>3, <2>4 DEF StartedBy
  <2>9. tasks'[t].op = "create" => tasks[t] # None /\ tasks[t].op = "create" /\ tasks[t].file = tasks'[t].file
    BY <1>2, <2>2, <2>3
  <2>10. \A u \in Tasks \ {t} : tasks'[u] = tasks[u]
    BY <2>2
  <2> QED BY <1>2, <1>5, <1>6, <2>7, <2>8, <2>9, <2>10, LightStep
<1>7. CASE UNCHANGED <<procs, mem, rows>> /\ Ends(t) /\ ~Has(n)
  <2>1. tasks'[t] = None /\ \A u \in Tasks \ {t} : tasks'[u] = tasks[u]
    BY <1>1, <1>7 DEF Ends
  <2>2. \A r \in Sids : Live(r) /\ StartedBy(t, r) => StartedBy(t, r)'
    BY <1>7 DEF StartedBy, Live
  <2> QED BY <1>2, <1>5, <1>7, <2>1, <2>2, LightStep
<1> QED BY <1>2, <1>4, <1>6, <1>7

\* A session that answers, and its row
LEMMA StampedSingle ==
    ASSUME Typed, Typed', IInv, Tidy, Single, NEW t \in Tasks, Stamped(t),
           NEW k, tasks[t] = k, NEW n, k.sid = n
    PROVE  Single'
<1> SUFFICES ASSUME NEW N, N = {n} PROVE Single'
  OBVIOUS
<1>1. tasks \in [Tasks -> Task \cup {None}] /\ mem \in Memory /\ rows \in [Sids -> Row \cup {None}]
      /\ mem.sessions \in [Sids -> Session \cup {None}]
  BY TypeParts DEF Typed, Memory
<1>2. /\ k # None /\ k.pc = "stamp" /\ boot' = boot /\ SameCounts /\ Ends(t)
      /\ mem' = IF Has(n) THEN [mem EXCEPT !.sessions[n].status = "ready"] ELSE mem
  BY DEF Stamped, SameCounts
<1>0. PICK time \in StartTimes :
         /\ rows' = Recorded(n, [status |-> "active", pid |-> k.pid, file |-> k.file,
                                 name |-> k.name, mine |-> TRUE, time |-> time])
         /\ procs' = Recognised(k.pid, time)
         /\ time = "other" => ~Kernel(k.pid)
  BY StartTimeIs DEF Stamped
<1>3. /\ k \in Task /\ Fine(k) /\ Right(k) /\ k.op \in {"create", "restart"} /\ n \in Sids /\ n # 0 /\ ~Old(n)
  <2>1. Fine(k) /\ Right(k) /\ n # 0
    BY <1>2, TaskParts DEF Fine, Raised
  <2> QED BY <1>2, <2>1, TaskParts DEF Right, Cleaning
<1>4. /\ rows'[n] # None => rows'[n].pid = k.pid /\ rows'[n].file = k.file
      /\ \A r \in Sids \ {n} : rows'[r] = rows[r]
  BY <1>0, <1>1, <1>3 DEF Recorded
<1>5. Has(n) => k.file = FileOf(n)
  BY <1>3 DEF Right, CreateFine, RestartFine
<1>6. Raising(n, k)
  BY <1>2, <1>3 DEF Fine, Raised
<1>7. /\ mem'.files = mem.files /\ mem'.watched = mem.watched /\ mem'.handle = mem.handle
      /\ \A r \in Sids \ {n} : mem'.sessions[r] = mem.sessions[r]
      /\ ~Has(n) => mem'.sessions[n] = None
      /\ Has(n) => /\ mem'.sessions[n] # None /\ mem'.sessions[n].file = FileOf(n)
                   /\ mem'.sessions[n].pid = mem.sessions[n].pid /\ mem'.sessions[n].status = "ready"
  <2>1. CASE Has(n)
    <3> DEFINE y == [mem.sessions[n] EXCEPT !.status = "ready"]
    <3>1. mem.sessions[n] \in Session
      BY <1>1, <1>3, <2>1 DEF Has
    <3>2. /\ y.file = FileOf(n) /\ y.pid = mem.sessions[n].pid /\ y.status = "ready" /\ y # None
      <4>1. y \in Session
        BY <3>1 DEF Session
      <4> QED BY <3>1, <4>1, NoneAssumption DEF Session, FileOf
    <3>3. /\ mem'.sessions = [mem.sessions EXCEPT ![n] = y] /\ mem'.files = mem.files
          /\ mem'.watched = mem.watched /\ mem'.handle = mem.handle
      BY <1>1, <1>2, <1>3, <2>1 DEF Memory
    <3> HIDE DEF y
    <3> QED BY <1>1, <1>3, <2>1, <3>2, <3>3
  <2>2. CASE ~Has(n)
    BY <1>2, <1>3, <2>2 DEF Has
  <2> QED BY <2>1, <2>2
<1>8. Milder /\ (~Has(n) => ~GoingOn(k.pid))
  <2>1. Milder
    BY <1>0, PsMild
  <2>2. ~Has(n) => ~Going(k.pid)
    BY <1>6 DEF Raising
  <2> QED BY <1>0, <2>1, <2>2, RecognisedEnds
<1>9. \A r \in N : ~Old(r) /\ Keeps(r) /\ KeepsRow(r) /\ Started(r)'
  <2>1. Keeps(n)
    BY <1>3, <1>6, <1>7 DEF Keeps, Has, FileOf, Raising
  <2>2. KeepsRow(n)
    BY <1>3, <1>4, <1>5, <1>6, <1>7, <1>8 DEF KeepsRow, Has, FileOf, Raising
  <2>3. Started(n)'
    BY <1>3, <1>7 DEF Started, Live, Has
  <2> QED BY <1>3, <2>1, <2>2, <2>3
<1>10. \A r \in Sids \ N : Stays(r) /\ ~(rows[r] # None /\ rows'[r] = None)
  BY <1>4, <1>7 DEF Stays
<1>11. tasks'[t] = None /\ \A u \in Tasks \ {t} : tasks'[u] = tasks[u]
  BY <1>1, <1>2 DEF Ends
<1>12. N \in SUBSET Sids /\ \A u \in Tasks \ {t} : tasks[u] # None /\ tasks[u].op = "restart" => tasks[u].sid \notin N
  <2>1. k.op # "clean"
    BY <1>3
  <2> QED BY <1>2, <1>3, <2>1, TaskParts
<1>13. \A r \in Sids \ N : StartedBy(t, r) => StartedBy(t, r)'
  BY DEF StartedBy
<1> QED BY <1>2, <1>7, <1>8, <1>9, <1>10, <1>11, <1>12, <1>13, PlainStep

\* What a step of a restart does to the maps
GivesUp(n) ==
    /\ mem'.files = mem.files /\ mem'.watched = mem.watched
    /\ \A q \in Sids \ {n} : mem'.sessions[q] = mem.sessions[q] /\ mem'.handle[q] = mem.handle[q]
    /\ mem'.sessions[n] # None /\ mem'.sessions[n].file = FileOf(n)
    /\ mem'.sessions[n].pid \in {0, mem.sessions[n].pid}

\* A restart that has given up the process of its session is right.
LEMMA RestartIsFine ==
    ASSUME NEW k, k.op = "restart", NEW n, n # 0, k.sid = n, mem'.sessions[n] # None,
           k.file = mem'.sessions[n].file,
           k.pc = "boot" \/ (k.pc \in {"restart kill", "port"} /\ ~GoingOn(mem'.sessions[n].pid)),
           k.pc = "port" => mem'.handle[n] = 0
    PROVE  Right(k)'
<1>1. RestartFine(k)'
  BY DEF RestartFine, Replacing, Has, FileOf, Going, GoingOn, Runs
<1> QED BY <1>1 DEF Right

\* A step of a restart whose session has lost its process
LEMMA RestartStep ==
    ASSUME Typed, Typed', IInv, Tidy, Single, NEW t \in Tasks,
           NEW k, tasks[t] = k, k # None, k.op = "restart", NEW n \in Sids, k.sid = n, Has(n),
           Milder, boot' = boot, SameCounts, UNCHANGED rows, ~GoingOn(mem.sessions[n].pid),
           GivesUp(n),
           mem'.sessions[n].status = "dead" \/ (mem.sessions[n].status # "dead" /\ StartedBy(t, n)'),
           \A u \in Tasks \ {t} : tasks'[u] = tasks[u],
           tasks'[t] # None => Right(tasks[t])' /\ tasks'[t].op # "create"
    PROVE  Single'
<1> SUFFICES ASSUME NEW N, N = {n} PROVE Single'
  OBVIOUS
<1>1. /\ ~Old(n) /\ N \in SUBSET Sids
      /\ \A u \in Tasks \ {t} : tasks[u] # None /\ tasks[u].op = "restart" => tasks[u].sid \notin N
  <2>1. n # 0
    BY DEF Has
  <2>2. ~Old(n)
    BY DEF IInv, OldIsUntouched, Has
  <2>3. k.op # "clean"
    OBVIOUS
  <2> QED BY <2>1, <2>2, <2>3, TaskParts
<1>2. \A r \in N : ~Old(r) /\ Keeps(r) /\ KeepsRow(r) /\ Started(r)'
  <2>1. Keeps(n)
    BY DEF Keeps, Has, FileOf, GivesUp
  <2>2. KeepsRow(n)
    BY <1>1 DEF KeepsRow
  <2>3. Started(n)'
    BY DEF Started, Live, GivesUp
  <2> QED BY <1>1, <2>1, <2>2, <2>3
<1>3. \A r \in Sids \ N : Stays(r) /\ ~(rows[r] # None /\ rows'[r] = None)
  BY DEF Stays, GivesUp
<1>4. \A r \in Sids \ N : StartedBy(t, r) => StartedBy(t, r)'
  BY DEF StartedBy
<1>5. mem'.files = mem.files /\ mem'.watched = mem.watched
  BY DEF GivesUp
<1> QED BY <1>1, <1>2, <1>3, <1>4, <1>5, PlainStep

\* The check of a restart's process
LEMMA VerifiedSingle ==
    ASSUME Typed, Typed', IInv, Tidy, Reads, Single, NEW t \in Tasks, RestartVerified(t),
           NEW k, tasks[t] = k, NEW n, k.sid = n
    PROVE  Single'
<1> SUFFICES ASSUME NEW x, x = [k EXCEPT !.pc = "restart kill"] PROVE Single'
  OBVIOUS
<1>1. tasks \in [Tasks -> Task \cup {None}] /\ mem \in Memory
      /\ mem.sessions \in [Sids -> Session \cup {None}]
  BY TypeParts DEF Typed, Memory
<1>2. /\ k # None /\ k.pc = "restart verify" /\ boot' = boot /\ SameCounts /\ UNCHANGED rows
      /\ \/ procs' = Signalled(k.pid, "restart") /\ Goes(t, "restart kill") /\ UNCHANGED mem
         \/ /\ mem' = DeclaredDead(n) /\ Ends(t)
            /\ \/ procs' = procs /\ ~Expected(k.pid, TimeOnRow(n), TRUE)
               \/ procs' = Missed({k.pid})
  <2>1. PICK answered \in BOOLEAN :
           IF Expected(k.pid, TimeOnRow(n), answered)
           THEN procs' = Signalled(k.pid, "restart") /\ Goes(t, "restart kill") /\ UNCHANGED mem
           ELSE /\ mem' = DeclaredDead(n) /\ Ends(t)
                /\ procs' = IF answered THEN procs ELSE Missed({k.pid})
    BY DEF RestartVerified, Answers
  <2>2. CASE answered
    BY <2>1, <2>2 DEF RestartVerified, SameCounts
  <2>3. CASE ~answered
    BY <2>1, <2>3 DEF RestartVerified, SameCounts
  <2> QED BY <2>2, <2>3
<1>3. k \in Task /\ Fine(k) /\ Right(k) /\ k.op = "restart" /\ n # 0 /\ n \in Sids /\ k.pid \in 0..MaxProcs
  <2>1. Fine(k) /\ k.op = "restart" /\ n # 0
    BY <1>2, TaskParts DEF Fine, Restarting
  <2> QED BY <1>2, <2>1, TaskParts
<1>4. /\ RestartFine(k) /\ Has(n) /\ k.pid = mem.sessions[n].pid /\ k.file = FileOf(n)
      /\ mem.sessions[n].status = "starting"
  <2>1. RestartFine(k) /\ Has(n)
    BY <1>2, <1>3 DEF Right, RestartFine, Replacing
  <2> QED BY <1>2, <1>3, <2>1 DEF Fine, Renewing, RestartFine
<1>5. Milder /\ ~GoingOn(k.pid)
  <2>1. CASE procs' = Signalled(k.pid, "restart")
    BY <1>3, <2>1, SignalMild, SignalEnds DEF Marks
  <2>2. CASE procs' = procs /\ ~Expected(k.pid, TimeOnRow(n), TRUE)
    <3>1. rows[n] # None /\ rows[n].pid = k.pid /\ Readable(rows[n])
      BY <1>2, <1>3, <1>4 DEF RestartFine, Reads
    <3>2. rows[n].time = "other" => ~Kernel(k.pid)
      BY <3>1 DEF Readable
    <3>3. ~Kernel(k.pid)
      BY <2>2, <3>1, <3>2 DEF Expected, TimeOnRow, Kernel, Alive
    <3>4. ~Going(k.pid)
      BY <3>3, NoZeros DEF Kernel, Going
    <3> QED BY <2>2, <3>4, PsMild, ProcsKept
  <2>3. CASE procs' = Missed({k.pid})
    BY <2>3, PsMild, MissedEnds
  <2> QED BY <1>2, <2>1, <2>2, <2>3
<1>6. CASE Goes(t, "restart kill") /\ UNCHANGED mem
  <2>1. tasks' = [tasks EXCEPT ![t] = x]
    BY <1>6 DEF Goes
  <2>2. tasks'[t] = x /\ \A u \in Tasks \ {t} : tasks'[u] = tasks[u]
    BY <1>1, <2>1
  <2>3. x.pc = "restart kill" /\ x.sid = n /\ x.op = "restart" /\ x.file = k.file /\ x # None
    <3>1. x \in Task
      BY <1>3 DEF Task
    <3> QED BY <1>3, <3>1, NoneAssumption DEF Task
  <2>4. Right(x)'
    <3>1. mem'.sessions[n] # None /\ x.file = mem'.sessions[n].file /\ ~GoingOn(mem'.sessions[n].pid)
      BY <1>4, <1>5, <1>6, <2>3 DEF Has, FileOf
    <3> QED BY <1>3, <2>3, <3>1, RestartIsFine
  <2>5. tasks'[t] # None => Right(tasks[t])' /\ tasks'[t].op # "create"
    BY <2>2, <2>3, <2>4
  <2>6. StartedBy(t, n)'
    BY <2>2, <2>3 DEF StartedBy
  <2>7. \A u \in Tasks \ {t} : tasks'[u] = tasks[u]
    BY <2>2
  <2>8. GivesUp(n)
    BY <1>4, <1>6 DEF GivesUp, FileOf, Has
  <2>9. ~GoingOn(mem.sessions[n].pid) /\ mem.sessions[n].status # "dead"
    BY <1>4, <1>5
  <2> QED BY <1>2, <1>3, <1>4, <1>5, <2>5, <2>6, <2>7, <2>8, <2>9, RestartStep
<1>7. CASE mem' = DeclaredDead(n) /\ Ends(t)
  <2> SUFFICES ASSUME NEW y, y = [mem.sessions[n] EXCEPT !.status = "dead"] PROVE Single'
    OBVIOUS
  <2>1. y # None /\ y.pid = mem.sessions[n].pid /\ y.status = "dead" /\ y.file = FileOf(n)
    <3>1. mem.sessions[n] \in Session
      BY <1>1, <1>3, <1>4 DEF Has
    <3>2. y \in Session
      BY <3>1 DEF Session
    <3> QED BY <3>1, <3>2, NoneAssumption DEF Session, FileOf
  <2>2. /\ mem'.handle = mem.handle /\ mem'.files = mem.files /\ mem'.watched = mem.watched
        /\ mem'.sessions[n] = y /\ \A q \in Sids \ {n} : mem'.sessions[q] = mem.sessions[q]
    <3>1. mem' = [mem EXCEPT !.sessions[n] = y]
      BY <1>4, <1>7 DEF DeclaredDead
    <3> QED BY <1>1, <1>3, <3>1 DEF Memory
  <2>3. tasks'[t] = None /\ \A u \in Tasks \ {t} : tasks'[u] = tasks[u]
    BY <1>1, <1>7 DEF Ends
  <2>4. GivesUp(n) /\ mem'.sessions[n].status = "dead"
    BY <2>1, <2>2 DEF GivesUp
  <2>5. ~GoingOn(mem.sessions[n].pid)
    BY <1>4, <1>5
  <2>6. \A u \in Tasks \ {t} : tasks'[u] = tasks[u]
    BY <2>3
  <2> QED BY <1>2, <1>3, <1>4, <1>5, <2>3, <2>4, <2>5, <2>6, RestartStep
<1> QED BY <1>2, <1>6, <1>7

\* A restart gives up the old process.
LEMMA KillsSingle ==
    ASSUME Typed, Typed', IInv, Tidy, Single, NEW t \in Tasks, RestartKills(t),
           NEW k, tasks[t] = k, NEW n, k.sid = n
    PROVE  Single'
<1>0. PICK m, x : /\ m = IF k.pc = "restart reap" THEN [mem EXCEPT !.handle[n] = 0]
                         ELSE IF Has(n) THEN [mem EXCEPT !.sessions[n].pid = 0] ELSE mem
                  /\ x = [k EXCEPT !.pc = "port"]
  OBVIOUS
<1>1. /\ tasks \in [Tasks -> Task \cup {None}] /\ mem \in Memory
      /\ mem.sessions \in [Sids -> Session \cup {None}] /\ mem.handle \in [Sids -> 0..MaxProcs]
  BY TypeParts DEF Typed, Memory
<1>2. /\ k # None /\ k.pc \in {"restart reap", "restart kill"} /\ boot' = boot /\ SameCounts /\ UNCHANGED rows
      /\ procs' = IF k.pc = "restart kill" THEN Killed(k.pid, "restart") ELSE procs
      /\ \/ mem' = (IF Has(n) THEN [m EXCEPT !.sessions[n].status = "dead"] ELSE m) /\ Ends(t)
         \/ mem' = m /\ tasks' = [tasks EXCEPT ![t] = x]
  BY <1>0 DEF RestartKills, Goes, SameCounts
<1>3. k \in Task /\ Fine(k) /\ Right(k) /\ k.op = "restart" /\ n # 0 /\ n \in Sids
  <2>1. Fine(k) /\ k.op = "restart" /\ n # 0
    BY <1>2, TaskParts DEF Fine, Restarting
  <2> QED BY <1>2, <2>1, TaskParts
<1>4. RestartFine(k) /\ Has(n) /\ ~Going(mem.sessions[n].pid) /\ k.file = FileOf(n)
  BY <1>2, <1>3 DEF Right, RestartFine, Replacing
<1>5. mem.sessions[n].status = "starting" /\ mem.sessions[n] \in Session
  BY <1>1, <1>3, <1>4 DEF Fine, Renewing, Has
<1>6. Milder /\ ~GoingOn(mem.sessions[n].pid)
  <2>1. Milder
    BY <1>2, SignalMild DEF Marks
  <2> QED BY <1>4, <2>1 DEF Milder, GoingOn
<1>7. /\ m.sessions \in [Sids -> Session \cup {None}] /\ m.handle \in [Sids -> 0..MaxProcs]
      /\ DOMAIN m = {"sessions", "handle", "sock", "files", "watched"}
      /\ m.files = mem.files /\ m.watched = mem.watched /\ m.sessions[n] \in Session
      /\ m.sessions[n].file = FileOf(n) /\ m.sessions[n].status = "starting"
      /\ m.sessions[n].pid \in {0, mem.sessions[n].pid}
      /\ m.handle[n] = 0
      /\ \A q \in Sids \ {n} : m.sessions[q] = mem.sessions[q] /\ m.handle[q] = mem.handle[q]
  <2>1. CASE k.pc = "restart reap"
    <3>1. m = [mem EXCEPT !.handle[n] = 0]
      BY <1>0, <2>1
    <3>2. m.sessions = mem.sessions /\ m.handle = [mem.handle EXCEPT ![n] = 0]
          /\ DOMAIN m = {"sessions", "handle", "sock", "files", "watched"}
          /\ m.files = mem.files /\ m.watched = mem.watched
      BY <1>1, <3>1 DEF Memory
    <3> QED BY <1>1, <1>3, <1>5, <3>2, Numbers DEF FileOf
  <2>2. CASE k.pc # "restart reap"
    <3>1. PICK y : y = [mem.sessions[n] EXCEPT !.pid = 0]
      OBVIOUS
    <3>2. y \in Session /\ y.pid = 0 /\ y.status = "starting" /\ y.file = FileOf(n)
      BY <1>5, <3>1, Numbers DEF Session, FileOf
    <3>3. m = [mem EXCEPT !.sessions[n] = y]
      BY <1>0, <1>4, <2>2, <3>1
    <3>4. m.sessions = [mem.sessions EXCEPT ![n] = y] /\ m.handle = mem.handle
          /\ DOMAIN m = {"sessions", "handle", "sock", "files", "watched"}
          /\ m.files = mem.files /\ m.watched = mem.watched
      BY <1>1, <3>3 DEF Memory
    <3>5. mem.handle[n] = 0
      BY <1>2, <1>3, <1>4, <2>2 DEF Fine, Renewing
    <3> QED BY <1>1, <1>3, <3>2, <3>4, <3>5
  <2> QED BY <2>1, <2>2
<1>8. CASE Ends(t) /\ mem' = [m EXCEPT !.sessions[n].status = "dead"]
  <2>1. PICK y : y = [m.sessions[n] EXCEPT !.status = "dead"]
    OBVIOUS
  <2>2. y # None /\ y.pid = m.sessions[n].pid /\ y.status = "dead" /\ y.file = FileOf(n)
    <3>1. y \in Session
      BY <1>7, <2>1 DEF Session
    <3> QED BY <1>7, <2>1, <3>1, NoneAssumption DEF Session
  <2>3. mem' = [m EXCEPT !.sessions[n] = y]
    BY <1>8, <2>1
  <2>4. mem'.handle = m.handle /\ mem'.files = m.files /\ mem'.watched = m.watched
        /\ mem'.sessions = [m.sessions EXCEPT ![n] = y]
    BY <1>7, <2>3
  <2>5. mem'.sessions[n] = y /\ \A q \in Sids \ {n} : mem'.sessions[q] = m.sessions[q]
    BY <1>3, <1>7, <2>4
  <2>6. tasks'[t] = None /\ \A u \in Tasks \ {t} : tasks'[u] = tasks[u]
    BY <1>1, <1>8 DEF Ends
  <2>7. GivesUp(n) /\ mem'.sessions[n].status = "dead"
    BY <1>7, <2>2, <2>4, <2>5 DEF GivesUp
  <2>8. \A u \in Tasks \ {t} : tasks'[u] = tasks[u]
    BY <2>6
  <2> QED BY <1>2, <1>3, <1>4, <1>6, <2>6, <2>7, <2>8, RestartStep
<1>9. CASE mem' = m /\ tasks' = [tasks EXCEPT ![t] = x]
  <2>1. tasks'[t] = x /\ \A u \in Tasks \ {t} : tasks'[u] = tasks[u]
    BY <1>1, <1>9
  <2>2. x.pc = "port" /\ x.sid = n /\ x.op = "restart" /\ x.file = k.file /\ x # None
    <3>1. x \in Task
      BY <1>0, <1>3 DEF Task
    <3> QED BY <1>0, <1>3, <3>1, NoneAssumption DEF Task
  <2>3. m.sessions[n] # None
    BY <1>7, NoneAssumption
  <2>4. ~GoingOn(m.sessions[n].pid)
    BY <1>6, <1>7 DEF GoingOn, Pids
  <2>5. Right(x)'
    <3>1. mem'.sessions[n] # None /\ x.file = mem'.sessions[n].file /\ ~GoingOn(mem'.sessions[n].pid)
      BY <1>4, <1>7, <1>9, <2>2, <2>3, <2>4
    <3>2. mem'.handle[n] = 0
      BY <1>7, <1>9
    <3> QED BY <1>3, <2>2, <3>1, <3>2, RestartIsFine
  <2>6. tasks'[t] # None => Right(tasks[t])' /\ tasks'[t].op # "create"
    BY <2>1, <2>2, <2>5
  <2>7. StartedBy(t, n)'
    BY <2>1, <2>2 DEF StartedBy
  <2>8. \A u \in Tasks \ {t} : tasks'[u] = tasks[u]
    BY <2>1
  <2>9. GivesUp(n)
    BY <1>7, <1>9, <2>3 DEF GivesUp
  <2>10. mem.sessions[n].status # "dead"
    BY <1>5
  <2> QED BY <1>2, <1>3, <1>4, <1>6, <2>6, <2>7, <2>8, <2>9, <2>10, RestartStep
<1> QED BY <1>2, <1>4, <1>8, <1>9

\* Clean-ups
LEMMA CleanSingle ==
    ASSUME Typed, Typed', IInv, Tidy, Single, NEW t \in Tasks, CleanChecked(t) \/ CleanEnds(t),
           NEW k, tasks[t] = k, NEW n, k.sid = n
    PROVE  Single'
<1> SUFFICES ASSUME NEW x, x = [k EXCEPT !.pc = "clean kill"] PROVE Single'
  OBVIOUS
<1>1. tasks \in [Tasks -> Task \cup {None}] /\ rows \in [Sids -> Row \cup {None}]
  BY TypeParts DEF Typed
<1>2. /\ k # None /\ k.pc \in Cleaning /\ boot' = boot /\ SameCounts /\ UNCHANGED mem
      /\ rows' \in {rows, [rows EXCEPT ![n] = None]}
      /\ procs' \in {procs, Signalled(k.pid, "clean"), Killed(k.pid, "clean")}
      /\ Ends(t) \/ tasks' = [tasks EXCEPT ![t] = x]
  BY DEF CleanChecked, CleanEnds, SameCounts, Cleaning, Goes
<1>3. k \in Task /\ k.op = "clean" /\ ~Live(n) /\ boot.phase = "up"
  BY <1>2, TaskParts DEF Fine
<1>4. x.op = "clean" /\ x.pc = "clean kill"
  BY <1>3 DEF Task
<1>5. (tasks'[t] # None => tasks'[t].op = "clean" /\ tasks'[t].pc = "clean kill")
      /\ \A u \in Tasks \ {t} : tasks'[u] = tasks[u]
  BY <1>1, <1>2, <1>4 DEF Ends
<1>6. Milder
  BY <1>2, SignalMild DEF Marks
<1>7. ASSUME NEW q \in Sids PROVE Stays(q) /\ ~Old(q)
  <2>1. rows'[q] = rows[q] \/ (rows'[q] = None /\ q = n)
    BY <1>1, <1>2
  <2>2. q = n => (mem.sessions[q] # None => mem.sessions[q].status # "starting")
    <3>1. q # 0
      BY NoZeros
    <3> QED BY <1>3, <3>1 DEF Live, Has
  <2>3. ~Old(q)
    BY <1>3 DEF Old
  <2> QED BY <1>2, <2>1, <2>2, <2>3 DEF Stays
<1>8. tasks'[t] # None => Right(tasks[t])'
  BY <1>5 DEF Right
<1>9. \A q \in Sids : Live(q) /\ StartedBy(t, q) => StartedBy(t, q)'
  BY <1>3 DEF StartedBy
<1>10. mem'.files = mem.files /\ mem'.watched = mem.watched
  BY <1>2
<1> QED BY <1>2, <1>5, <1>6, <1>7, <1>8, <1>9, <1>10, LightStep

\* The number of a new process is above all others.
LEMMA Above == ASSUME Typed, NEW p, p = count.pids + 1, NEW q \in 0..MaxProcs, q <= count.pids
               PROVE  p # q /\ q <= p
BY BoundAssumption, TypeParts DEF Typed, Count

\* A new process for the one session of a notebook that has no other
LEMMA SpawnSettled ==
    ASSUME Typed, Typed', IInv, Tidy, Single, NEW n \in Sids, NEW f \in Files, NEW p \in Pids, p = count.pids + 1,
           count'.pids = p, count.sids <= count'.sids, n <= count'.sids,
           procs' = [procs EXCEPT ![p] = [st |-> "booting", file |-> f, marks |-> {}]],
           boot' = boot, rows' = rows,
           \A r \in Sids \ {n} : mem'.sessions[r] = mem.sessions[r],
           mem'.sessions[n] # None, mem'.sessions[n].pid = p, mem'.sessions[n].file = f,
           mem'.sessions[n].status # "dead", mem'.files[f] \in {0, n},
           \A g \in Files : mem'.files[g] = mem.files[g] \/ (g = f /\ mem'.files[g] = n),
           \A r \in Sids : Live(r) /\ FileOf(r) = f => r = n,
           Has(n) => FileOf(n) = f /\ ~Going(mem.sessions[n].pid), ~Has(n) => boot.sid # n /\ n \notin boot.left /\ \A g \in Files : mem.files[g] # n,
           rows[n] # None => rows[n].file = f, boot.phase \notin {"off", "listening"},
           boot.phase = "reattaching" =>
             \A r \in boot.left : rows[r] # None /\ rows[r].file = f => ~Going(rows[r].pid)
    PROVE  Settled'
<1>0. /\ procs \in [Pids -> Proc] /\ rows \in [Sids -> Row \cup {None}] /\ boot.left \in SUBSET Sids
      /\ mem.sessions \in [Sids -> Session \cup {None}] /\ mem'.sessions \in [Sids -> Session \cup {None}]
      /\ mem.files \in [Files -> 0..MaxSessions]
  <2>1. mem \in Memory /\ mem' \in Memory /\ boot \in Boot
    BY TypeParts DEF Typed, TypeOK
  <2> QED BY <2>1, TypeParts DEF Typed, Memory, Boot
<1>1. /\ procs'[p].st = "booting" /\ procs'[p].file = f /\ procs'[p].marks = {}
      /\ \A q \in Pids \ {p} : procs'[q] = procs[q]
  BY <1>0
<1>2. \A q \in Pids \ {p} : GoingOn(q) <=> Going(q)
  BY <1>1 DEF GoingOn, Going, Runs
<1>3. ASSUME NEW q \in Pids, Going(q), procs[q].file = f PROVE FALSE
  <2>1. Homed(q)
    BY <1>3 DEF Single, Settled, Homes
  <2>2. ASSUME NEW r \in Sids, Live(r), mem.sessions[r].pid = q PROVE FALSE
    <3>1. FileOf(r) = f
      BY <1>3, <2>2 DEF Single, Settled, OwnFile, Live
    <3> QED BY <1>3, <2>2, <3>1 DEF Live
  <2>3. ASSUME NEW r \in Sids, Old(r), rows[r] # None, rows[r].pid = q PROVE FALSE
    <3>1. rows[r].file = f
      BY <1>3, <2>3 DEF Single, Settled, OwnFile
    <3> QED BY <1>3, <2>3, <3>1 DEF Old
  <2> QED BY <2>1, <2>2, <2>3 DEF Homed
<1>4. ASSUME NEW r \in Sids \ {n} PROVE /\ Live(r)' <=> Live(r)
                                        /\ Has(r)' <=> Has(r)
                                        /\ Live(r) => FileOf(r)' = FileOf(r) /\ FileOf(r) # f
  BY <1>4 DEF Live, Has, FileOf
<1>5. Live(n)' /\ FileOf(n)' = f
  BY NoZeros DEF Live, Has, FileOf
<1>6. NotGiven'
  <2>1. ASSUME NEW q \in Pids, q > count'.pids PROVE procs'[q].st = "none"
    <3>1. q # p /\ q > count.pids
      <4>1. count.pids \in Nat
        BY BoundAssumption DEF Typed, TypeOK
      <4> QED BY <2>1, <4>1 DEF Pids
    <3> QED BY <1>1, <3>1 DEF Single, Settled, NotGiven
  <2>2. ASSUME NEW g \in Files PROVE mem'.files[g] <= count'.sids
    <3>1. mem.files[g] <= count.sids
      BY DEF Single, Settled, NotGiven
    <3>2. mem.files[g] \in Nat /\ count.sids \in Nat /\ count'.sids \in Nat
      BY <1>0, BoundAssumption DEF Typed, TypeOK
    <3>3. mem.files[g] <= count'.sids
      BY <3>1, <3>2
    <3> QED BY <3>3
  <2> QED BY <2>1, <2>2 DEF NotGiven
<1>7. Homes'
  <2> SUFFICES ASSUME NEW q \in Pids, GoingOn(q) PROVE Homed(q)'
    BY DEF Homes, Going, GoingOn, Runs
  <2>1. CASE q = p
    BY <1>5, <2>1 DEF Homed
  <2>2. CASE q # p
    <3>1. Going(q) /\ Homed(q)
      BY <1>2, <2>2 DEF Single, Settled, Homes
    <3>2. ASSUME NEW r \in Sids, Live(r), mem.sessions[r].pid = q PROVE Homed(q)'
      <4>1. r # n
        BY <3>1, <3>2 DEF Live
      <4> QED BY <1>4, <3>2, <4>1 DEF Homed
    <3>3. ASSUME NEW r \in Sids, Old(r), rows[r] # None, rows[r].pid = q PROVE Homed(q)'
      BY <3>3 DEF Homed, Old
    <3> QED BY <3>1, <3>2, <3>3 DEF Homed
  <2> QED BY <2>1, <2>2
<1>8. OneSession'
  <2> SUFFICES ASSUME NEW r \in Sids, NEW q \in Sids, Live(r)', Live(q)', FileOf(r)' = FileOf(q)' PROVE r = q
    BY DEF OneSession
  <2>1. CASE r = n \/ q = n
    BY <1>4, <1>5, <2>1
  <2>2. CASE r # n /\ q # n
    BY <1>4, <2>2 DEF Single, Settled, OneSession
  <2> QED BY <2>1, <2>2
<1>9. OneProcess'
  <2> SUFFICES ASSUME NEW q \in Pids, NEW r \in Pids, GoingOn(q), GoingOn(r), procs'[q].file = procs'[r].file
               PROVE  q = r
    BY DEF OneProcess, Going, GoingOn, Runs
  <2>1. CASE q # p /\ r # p
    BY <1>1, <1>2, <2>1 DEF Single, Settled, OneProcess
  <2>2. CASE q = p \/ r = p
    BY <1>1, <1>2, <1>3, <2>2
  <2> QED BY <2>1, <2>2
<1>10. Mapped'
  <2>1. ASSUME NEW r \in Sids, Live(r)' PROVE mem'.files[FileOf(r)'] \in {0, r}
    <3>1. CASE r = n
      BY <1>5, <3>1
    <3>2. CASE r # n
      <4>1. Live(r) /\ FileOf(r)' = FileOf(r) /\ FileOf(r) # f /\ mem.files[FileOf(r)] \in {0, r}
        BY <1>4, <2>1, <3>2 DEF Single, Settled, Mapped
      <4>2. FileOf(r) \in Files
        BY <4>1, SessionParts DEF Live, FileOf
      <4> QED BY <4>1, <4>2
    <3> QED BY <3>1, <3>2
  <2>2. ASSUME NEW g \in Files, NEW q, q = mem'.files[g], Has(q)' PROVE FileOf(q)' = g
    <3>1. CASE g = f /\ q = n
      BY <1>5, <3>1
    <3>2. CASE q = mem.files[g] /\ q = n
      BY <1>5, <3>2 DEF Single, Settled, Mapped
    <3>3. CASE q = mem.files[g] /\ q # n
      <4>1. q \in Sids
        BY <1>0, <2>2, <3>3, Numbers DEF Has
      <4>2. Has(q) /\ FileOf(q)' = FileOf(q)
        BY <1>4, <2>2, <3>3, <4>1 DEF FileOf
      <4> QED BY <3>3, <4>2 DEF Single, Settled, Mapped
    <3> QED BY <2>2, <3>1, <3>2, <3>3
  <2> QED BY <2>1, <2>2 DEF Mapped
<1>11. ASSUME NEW r \in Sids, rows[r] # None PROVE rows[r].pid \in Pids \ {p}
  <2>1. rows[r].pid \in Pids /\ rows[r].pid <= count.pids
    BY <1>0, <1>11 DEF Row, Tidy, RowOK
  <2> QED BY <2>1, Above, Numbers
<1>12. LeftAlone'
  <2> SUFFICES ASSUME boot.phase = "reattaching", NEW r \in boot.left, NEW q \in Sids, rows[r] # None,
                      Live(q)', FileOf(q)' = rows[r].file, GoingOn(rows[r].pid)
               PROVE  FALSE
    BY DEF LeftAlone, Going, GoingOn, Runs
  <2>1. Going(rows[r].pid)
    BY <1>0, <1>2, <1>11
  <2>2. CASE q = n
    BY <1>5, <2>1, <2>2
  <2>3. CASE q # n
    BY <1>4, <2>1, <2>3 DEF Single, Settled, LeftAlone
  <2> QED BY <2>2, <2>3
<1>13. Blank' /\ Unmapped'
  <2>1. boot.phase = "reattaching" => n \notin boot.left
    BY DEF IInv, OldIsUntouched, Old, Has
  <2> QED BY <2>1 DEF Blank, Unmapped, Single, Settled
<1>14. ASSUME NEW r \in Sids PROVE OwnFile(r)'
  <2>1. OwnFile(r) /\ (Has(r) => mem.sessions[r].pid <= count.pids /\ mem.sessions[r].pid \in 0..MaxProcs)
    BY SessionParts DEF Single, Settled, Tidy, SessionOK
  <2>2. rows[r] # None /\ GoingOn(rows[r].pid) => procs'[rows[r].pid].file = rows[r].file
    BY <1>1, <1>2, <1>11, <2>1 DEF OwnFile
  <2>3. CASE r = n
    <3>1. rows'[n] # None => rows'[n].file = f
      OBVIOUS
    <3>2. boot'.sid = n => boot'.row.file = f
      BY <2>1, <2>3 DEF OwnFile
    <3> QED BY <1>1, <1>5, <2>2, <2>3, <3>1, <3>2 DEF OwnFile, Live, Has, FileOf, Going, GoingOn, Runs
  <2>4. CASE r # n
    <3>1. Has(r)' => /\ Has(r) /\ mem'.sessions[r] = mem.sessions[r]
                     /\ mem.sessions[r].pid \in Pids => mem.sessions[r].pid \in Pids \ {p}
      BY <1>4, <2>1, <2>4, Above
    <3> QED BY <1>1, <1>2, <2>1, <2>2, <2>4, <3>1 DEF OwnFile, Has, FileOf, Going, GoingOn, Runs
  <2> QED BY <2>3, <2>4
<1> QED BY <1>6, <1>7, <1>8, <1>9, <1>10, <1>12, <1>13, <1>14 DEF Settled

\* A create spawns the process of a new session.
LEMMA SpawnNewSingle ==
    ASSUME Typed, Typed', IInv, Tidy, Single, NEW t \in Tasks, SpawnNew(t),
           NEW k, tasks[t] = k, NEW p, p = count.pids + 1, NEW s, s = count.sids + 1
    PROVE  Single'
<1>0. PICK x, new, N : /\ x = [k EXCEPT !.pc = "boot", !.sid = s, !.pid = p] /\ N = {s}
                       /\ new = [status |-> "starting", pid |-> p, file |-> k.file, name |-> k.name, quiet |-> FALSE]
  OBVIOUS
<1>1. /\ mem \in Memory /\ tasks \in [Tasks -> Task \cup {None}] /\ mem.handle \in [Sids -> 0..MaxProcs]
      /\ mem.sessions \in [Sids -> Session \cup {None}] /\ mem.files \in [Files -> 0..MaxSessions]
      /\ mem.watched \in SUBSET Pids
  BY TypeParts DEF Typed, Memory
<1>2. count.pids \in Nat /\ count.sids \in Nat
  BY BoundAssumption DEF Typed, TypeOK
<1>3. /\ k # None /\ k.pc = "port" /\ k.op # "restart" /\ p \in Pids /\ s \in Sids
      /\ procs' = [procs EXCEPT ![p] = [st |-> "booting", file |-> k.file, marks |-> {}]]
      /\ mem' = [mem EXCEPT !.sessions[s] = new, !.handle[s] = p, !.sock[s] = p,
                            !.files[k.file] = s, !.watched = mem.watched \cup {p}]
      /\ tasks' = [tasks EXCEPT ![t].pc = "boot", ![t].sid = s, ![t].pid = p]
      /\ count' = [count EXCEPT !.pids = p, !.sids = s]
      /\ boot' = boot /\ rows' = rows
  BY <1>0 DEF SpawnNew
<1>4. count'.pids = p /\ count'.sids = s /\ count.sids <= s /\ s <= s /\ s > count.sids /\ p > count.pids /\ ~(s <= count.sids)
  BY <1>2, <1>3 DEF Typed, TypeOK
<1>5. k \in Task /\ k.op = "create" /\ CreateFine(k) /\ k.sid = 0 /\ boot.phase = "up" /\ k.file \in Files
  <2>1. k \in Task /\ k.op = "create" /\ CreateFine(k)
    BY <1>3, TaskParts DEF Right
  <2> QED BY <1>3, <2>1 DEF CreateFine, Task
<1>6. new \in Session /\ new # None /\ new.status = "starting" /\ new.pid = p /\ new.file = k.file
  <2>1. new \in Session
    BY <1>0, <1>3, <1>5, Numbers DEF Session, Task
  <2> QED BY <1>0, <2>1, NoneAssumption
<1>7. /\ mem'.sessions[s] = new /\ mem'.files[k.file] = s /\ mem'.watched = mem.watched \cup {p}
      /\ \A r \in Sids \ {s} : mem'.sessions[r] = mem.sessions[r] /\ mem'.handle[r] = mem.handle[r]
      /\ \A g \in Files : mem'.files[g] = mem.files[g] \/ (g = k.file /\ mem'.files[g] = s)
  BY <1>1, <1>3, <1>5 DEF Memory
<1>8. /\ rows[s] = None /\ mem.sessions[s] = None
      /\ \A u \in Tasks : tasks[u] # None => tasks[u].sid # s
      /\ \A g \in Files : mem.files[g] # s
  BY <1>3, <1>4 DEF IInv, Fresh, Single, Settled, NotGiven
<1>9. \A r \in Sids : ~(Live(r) /\ FileOf(r) = k.file)
  BY <1>5, NoZeros DEF CreateFine
<1>10. Settled'
  <2>1. ~Has(s) /\ boot.phase \notin {"off", "listening"} /\ boot.phase # "reattaching"
    BY <1>5, <1>8 DEF Has
  <2>2. k.file \in Files /\ p \in Pids /\ s \in Sids
    BY <1>3, <1>5
  <2>3. /\ procs' = [procs EXCEPT ![p] = [st |-> "booting", file |-> k.file, marks |-> {}]]
        /\ boot' = boot /\ rows' = rows
    BY <1>3
  <2>4. count'.pids = p /\ count.sids <= count'.sids /\ s <= count'.sids
    BY <1>4
  <2>5. /\ mem'.sessions[s] # None /\ mem'.sessions[s].pid = p /\ mem'.sessions[s].file = k.file
        /\ mem'.sessions[s].status # "dead" /\ mem'.files[k.file] \in {0, s}
        /\ \A r \in Sids \ {s} : mem'.sessions[r] = mem.sessions[r]
    BY <1>6, <1>7
  <2>6. \A g \in Files : mem'.files[g] = mem.files[g] \/ (g = k.file /\ mem'.files[g] = s)
    BY <1>7
  <2>7. rows[s] = None /\ boot.sid # s /\ s \notin boot.left /\ \A g \in Files : mem.files[g] # s
    BY <1>3, <1>4, <1>8 DEF IInv, Fresh
  <2> QED BY <1>9, <2>1, <2>2, <2>3, <2>4, <2>5, <2>6, <2>7, SpawnSettled
<1>11. tasks' = [tasks EXCEPT ![t] = x]
  BY <1>0, <1>1, <1>3, <1>5 DEF Task
<1>12. tasks'[t] = x /\ \A u \in Tasks \ {t} : tasks'[u] = tasks[u]
  BY <1>1, <1>11
<1>13. x.pc = "boot" /\ x.sid = s /\ x.op = "create" /\ x.file = k.file /\ x # None
  <2>1. x.pc = "boot" /\ x.sid = s /\ x.op = "create" /\ x.file = k.file /\ x \in Task
    BY <1>0, <1>3, <1>5, Numbers DEF Task
  <2> QED BY <2>1, NoneAssumption
<1>14. /\ \A u \in Tasks \ {t} : tasks'[u] # None => Right(tasks[u])'
       /\ OneCreate'
       /\ \A r \in Sids \ N : Started(r)'
  <2>1. N \in SUBSET Sids /\ \A r \in Sids \ N : Stays(r)
    BY <1>0, <1>3, <1>7 DEF Stays
  <2>2. \A w \in mem'.watched : w \in mem.watched \/ w > count.pids
    BY <1>4, <1>7
  <2>3. \A u \in Tasks \ {t} : tasks[u] # None /\ tasks[u].op = "restart" => tasks[u].sid \notin N
    BY <1>0, <1>8
  <2>4. \A r \in N : Elsewhere(t, r)
    <3>1. \A u \in Tasks \ {t} : ~Creating(u, k.file)
      BY <1>3, <1>5 DEF Single, OneCreate, Creating
    <3> QED BY <1>0, <1>6, <1>7, <1>8, <3>1 DEF Elsewhere, Creating
  <2>5. \A r \in Sids : ~StartedBy(t, r)
    BY <1>5, NoZeros DEF StartedBy
  <2>6. tasks[t] # None /\ tasks[t].op = "create" /\ tasks[t].file = tasks'[t].file
    BY <1>3, <1>5, <1>12, <1>13
  <2>7. Quieter
    <3>1. procs \in [Pids -> Proc]
      BY TypeParts DEF Typed
    <3>2. ~(p <= count.pids)
      BY <1>2, <1>4
    <3> QED BY <1>3, <3>1, <3>2 DEF Quieter, Going, GoingOn, Runs
  <2>8. \A u \in Tasks \ {t} : tasks'[u] = tasks[u]
    BY <1>12
  <2>9. boot' = boot
    BY <1>3
  <2> QED BY <2>1, <2>2, <2>3, <2>4, <2>5, <2>6, <2>7, <2>8, <2>9, RequestsFrame
<1>15. Right(x)'
  <2>1. ASSUME NEW r \in Sids, Live(r)', FileOf(r)' = k.file PROVE r = s
    BY <1>7, <1>9, <2>1 DEF Live, Has, FileOf
  <2>2. Has(s)' => FileOf(s)' = k.file
    BY <1>6, <1>7 DEF FileOf
  <2> QED BY <1>3, <1>5, <1>13, <2>1, <2>2 DEF Right, CreateFine
<1>16. Started(s)'
  BY <1>12, <1>13 DEF Started, StartedBy
<1> QED BY <1>0, <1>10, <1>12, <1>14, <1>15, <1>16 DEF Single

\* A restart spawns another process for its session.
LEMMA SpawnAgainSingle ==
    ASSUME Typed, Typed', IInv, Tidy, Single, NEW t \in Tasks, SpawnAgain(t),
           NEW k, tasks[t] = k, NEW n, k.sid = n, NEW p, p = count.pids + 1
    PROVE  Single'
<1>0. PICK x, y, held, N : /\ x = [k EXCEPT !.pc = "boot", !.pid = p] /\ N = {n}
                           /\ held = [mem EXCEPT !.handle[n] = p, !.watched = mem.watched \cup {p}]
                           /\ y = [mem.sessions[n] EXCEPT !.pid = p, !.quiet = FALSE]
  OBVIOUS
<1>1. /\ mem \in Memory /\ tasks \in [Tasks -> Task \cup {None}] /\ mem.handle \in [Sids -> 0..MaxProcs]
      /\ mem.sessions \in [Sids -> Session \cup {None}] /\ mem.files \in [Files -> 0..MaxSessions]
      /\ mem.watched \in SUBSET Pids /\ rows \in [Sids -> Row \cup {None}]
  BY TypeParts DEF Typed, Memory
<1>2. count.pids \in Nat /\ count.sids \in Nat
  BY BoundAssumption DEF Typed, TypeOK
<1>3. /\ k # None /\ k.pc = "port" /\ k.op = "restart" /\ p \in Pids
      /\ procs' = [procs EXCEPT ![p] = [st |-> "booting", file |-> k.file, marks |-> {}]]
      /\ \/ /\ Has(n) /\ tasks' = [tasks EXCEPT ![t].pc = "boot", ![t].pid = p]
            /\ mem' = [held EXCEPT !.sessions[n].pid = p, !.sessions[n].quiet = FALSE, !.sock[n] = p]
         \/ ~Has(n) /\ mem' = held /\ Ends(t)
      /\ count' = [count EXCEPT !.pids = p]
      /\ boot' = boot /\ rows' = rows
  BY <1>0 DEF SpawnAgain
<1>4. count'.pids = p /\ count'.sids = count.sids /\ p > count.pids /\ count.sids <= count.sids /\ ~(p <= count.pids)
  BY <1>2, <1>3 DEF Typed, TypeOK
<1>5. /\ k \in Task /\ RestartFine(k) /\ Fine(k) /\ n # 0 /\ n \in Sids /\ k.file \in Files
      /\ \A u \in Tasks \ {t} : tasks[u] # None /\ tasks[u].op = "restart" => tasks[u].sid # n
  <2>1. k \in Task /\ RestartFine(k) /\ Fine(k)
    BY <1>3, TaskParts DEF Right
  <2>2. n # 0 /\ k.file \in Files
    BY <1>3, <2>1 DEF Task, Fine
  <2>3. n \in Sids /\ \A u \in Tasks \ {t} : tasks[u] # None /\ tasks[u].op = "restart" => tasks[u].sid # n
    BY <1>3, <2>2, TaskParts
  <2> QED BY <2>1, <2>2, <2>3
<1>6. /\ Has(n) /\ ~Going(mem.sessions[n].pid) /\ FileOf(n) = k.file
      /\ mem.sessions[n] \in Session /\ mem.sessions[n].status = "starting"
  BY <1>1, <1>3, <1>5 DEF RestartFine, Replacing, Has, Fine, Renewing
<1>7. y # None /\ y.pid = p /\ y.status = "starting" /\ y.file = k.file
  <2>1. y \in Session
    BY <1>0, <1>3, <1>6, Numbers DEF Session
  <2> QED BY <1>0, <1>6, <2>1, NoneAssumption DEF Session, FileOf
<1>8. /\ held.sessions = mem.sessions /\ held.handle = [mem.handle EXCEPT ![n] = p]
      /\ held.files = mem.files /\ held.watched = mem.watched \cup {p}
      /\ DOMAIN held = {"sessions", "handle", "sock", "files", "watched"}
  BY <1>0, <1>1 DEF Memory
<1>9. /\ mem'.sessions = [mem.sessions EXCEPT ![n] = y] /\ mem'.handle = [mem.handle EXCEPT ![n] = p]
      /\ mem'.files = mem.files /\ mem'.watched = mem.watched \cup {p}
  <2>1. mem' = [held EXCEPT !.sessions[n].pid = p, !.sessions[n].quiet = FALSE, !.sock[n] = p]
    BY <1>3, <1>6
  <2> QED BY <1>0, <1>1, <1>5, <1>6, <1>8, <2>1 DEF Session
<1>10. /\ mem'.sessions[n] = y
       /\ \A r \in Sids \ {n} : mem'.sessions[r] = mem.sessions[r] /\ mem'.handle[r] = mem.handle[r]
  BY <1>1, <1>5, <1>9
<1>11. Live(n) /\ \A r \in Sids : Live(r) /\ FileOf(r) = k.file => r = n
  BY <1>5, <1>6 DEF Live, Single, Settled, OneSession
<1>12. Settled'
  <2>1. mem.files[k.file] \in {0, n}
    BY <1>5, <1>6, <1>11 DEF Single, Settled, Mapped
  <2>2. n <= count.sids
    BY <1>5, <1>6, Numbers, HasIsOld
  <2>3. rows[n] # None => rows[n].file = k.file
    BY <1>5, <1>6 DEF Single, Settled, OwnFile
  <2>4. boot.phase \notin {"off", "listening"}
    BY <1>5, <1>6 DEF Single, Settled, Blank, Has
  <2>5. boot.phase = "reattaching" =>
           \A r \in boot.left : rows[r] # None /\ rows[r].file = k.file => ~Going(rows[r].pid)
    BY <1>5, <1>6, <1>11 DEF Single, Settled, LeftAlone
  <2>6. \A g \in Files : mem'.files[g] = mem.files[g]
    BY <1>9
  <2>7. mem'.files[k.file] \in {0, n}
    BY <1>5, <2>1, <2>6
  <2>8. mem'.sessions[n] # None /\ mem'.sessions[n].pid = p /\ mem'.sessions[n].file = k.file /\ mem'.sessions[n].status # "dead"
    BY <1>7, <1>10
  <2>9. n <= count'.sids /\ count.sids <= count'.sids
    BY <1>4, <2>2
  <2>10. k.file \in Files /\ p \in Pids /\ n \in Sids /\ count'.pids = p
    BY <1>3, <1>4, <1>5
  <2>11. /\ procs' = [procs EXCEPT ![p] = [st |-> "booting", file |-> k.file, marks |-> {}]]
         /\ boot' = boot /\ rows' = rows
    BY <1>3
  <2>12. Has(n) /\ FileOf(n) = k.file /\ ~Going(mem.sessions[n].pid)
    BY <1>6
  <2>13. \A r \in Sids \ {n} : mem'.sessions[r] = mem.sessions[r]
    BY <1>10
  <2> QED BY <1>11, <2>3, <2>4, <2>5, <2>6, <2>7, <2>8, <2>9, <2>10, <2>11, <2>12, <2>13, SpawnSettled
<1>13. tasks' = [tasks EXCEPT ![t] = x]
  BY <1>0, <1>1, <1>3, <1>5, <1>6 DEF Task
<1>14. tasks'[t] = x /\ \A u \in Tasks \ {t} : tasks'[u] = tasks[u]
  BY <1>1, <1>13
<1>15. x.pc = "boot" /\ x.sid = n /\ x.op = "restart" /\ x.file = k.file /\ x # None
  <2>1. x.pc = "boot" /\ x.sid = n /\ x.op = "restart" /\ x.file = k.file /\ x \in Task
    BY <1>0, <1>3, <1>5, Numbers DEF Task
  <2> QED BY <2>1, NoneAssumption
<1>16. /\ \A u \in Tasks \ {t} : tasks'[u] # None => Right(tasks[u])'
       /\ OneCreate'
       /\ \A r \in Sids \ N : Started(r)'
  <2>1. N \in SUBSET Sids /\ \A r \in Sids \ N : Stays(r)
    BY <1>0, <1>3, <1>5, <1>10 DEF Stays
  <2>2. \A w \in mem'.watched : w \in mem.watched \/ w > count.pids
    BY <1>4, <1>9
  <2>3. \A u \in Tasks \ {t} : tasks[u] # None /\ tasks[u].op = "restart" => tasks[u].sid \notin N
    BY <1>0, <1>5
  <2>4. \A r \in N : /\ mem.sessions[r] # None /\ mem'.sessions[r].file = mem.sessions[r].file
                     /\ mem'.sessions[r].status # "dead" => mem.sessions[r].status # "dead"
    BY <1>0, <1>6, <1>7, <1>10 DEF Has, FileOf
  <2>5. \A r \in Sids \ N : ~StartedBy(t, r)
    BY <1>0 DEF StartedBy
  <2>6. tasks'[t].op # "create"
    BY <1>14, <1>15
  <2>7. Quieter
    <3>1. procs \in [Pids -> Proc]
      BY TypeParts DEF Typed
    <3> QED BY <1>3, <1>4, <3>1 DEF Quieter, Going, GoingOn, Runs
  <2>8. \A u \in Tasks \ {t} : tasks'[u] = tasks[u]
    BY <1>14
  <2>9. boot' = boot
    BY <1>3
  <2> QED BY <2>1, <2>2, <2>3, <2>4, <2>5, <2>6, <2>7, <2>8, <2>9, RequestsFrame
<1>17. Right(x)'
  BY <1>5, <1>7, <1>10, <1>15, RestartIsFine
<1>18. Started(n)'
  BY <1>14, <1>15 DEF Started, StartedBy
<1> QED BY <1>0, <1>12, <1>14, <1>16, <1>17, <1>18 DEF Single

\* Steps of requests
LEMMA TaskStepSingle ==
    ASSUME Typed, Typed', IInv, Tidy, Reads, Single, NEW t \in Tasks, TaskStep(t)
    PROVE  Single'
<1>1. ~Polled(t)
  <2> SUFFICES ASSUME Polled(t) PROVE FALSE
    OBVIOUS
  <2>1. tasks[t] # None /\ tasks[t].pc = "poll"
    BY DEF Polled
  <2>2. Fine(tasks[t]) /\ Right(tasks[t])
    BY <2>1, TaskParts
  <2> QED BY <2>1, <2>2 DEF Fine, Right, CreateFine
<1>2. CASE StopEnds(t)
  BY <1>2, StopEndsSingle
<1>3. CASE SpawnNew(t)
  BY <1>3, SpawnNewSingle
<1>4. CASE SpawnAgain(t)
  BY <1>4, SpawnAgainSingle
<1>5. CASE Booted(t) \/ BootFails(t)
  BY <1>5, BootSingle
<1>6. CASE Stamped(t)
  BY <1>6, StampedSingle
<1>7. CASE RestartVerified(t)
  BY <1>7, VerifiedSingle
<1>8. CASE RestartKills(t)
  BY <1>8, KillsSingle
<1>9. CASE CleanChecked(t) \/ CleanEnds(t)
  BY <1>9, CleanSingle
<1> QED BY <1>1, <1>2, <1>3, <1>4, <1>5, <1>6, <1>7, <1>8, <1>9 DEF TaskStep

\* autoCleanupDeadSessions touches no session.
LEMMA AutoCleanedStays ==
    ASSUME NEW S, S \subseteq DeadRows, rows' = Without(S), mem' = mem
    PROVE  \A s \in Sids : Stays(s) /\ (rows[s] # None /\ rows'[s] = None => s \in S)
<1> SUFFICES ASSUME NEW s \in Sids
             PROVE  Stays(s) /\ (rows[s] # None /\ rows'[s] = None => s \in S)
  OBVIOUS
<1>1. rows'[s] = rows[s] \/ (rows'[s] = None /\ s \in S /\ s \in DeadRows)
  BY DEF Without
<1>2. s \in DeadRows /\ mem.sessions[s] # None => mem.sessions[s].status # "starting"
  BY NoZeros DEF DeadRows, Live, Has
<1> QED BY <1>1, <1>2 DEF Stays

\* Steps of the processes, the store and the clock
LEMMA WorldSingle ==
    ASSUME Typed, Typed', IInv, Tidy, Single,
           \/ \E p \in Pids : KernelUp(p) \/ Exit(p) \/ Reuse(p)
           \/ \E s \in Sids : Quiet(s)
           \/ AutoClean
    PROVE  Single'
<1>1. procs \in [Pids -> Proc] /\ mem \in Memory /\ mem.sessions \in [Sids -> Session \cup {None}]
  BY TypeParts DEF Typed, Memory
<1>2. ASSUME UNCHANGED <<mem, rows, tasks, boot>>, SameCounts, Milder PROVE Single'
  <2>1. /\ \A s \in Sids : Stays(s) /\ ~(rows[s] # None /\ rows'[s] = None)
        /\ mem'.files = mem.files /\ mem'.watched = mem.watched
    BY <1>2 DEF Stays
  <2> QED BY <1>2, <2>1, OutsideStep
<1>3. ASSUME NEW p \in Pids, KernelUp(p) \/ Exit(p) \/ Reuse(p) PROVE Single'
  <2>1. UNCHANGED <<mem, rows, tasks, boot>> /\ SameCounts
    BY <1>3 DEF KernelUp, Exit, Reuse, SameCounts, Typed, TypeOK
  <2>2. Milder
    <3>1. ASSUME NEW q \in Pids
          PROVE  /\ procs'[q].st # "none" => procs[q].st # "none"
                 /\ procs'[q].st \in {"booting", "up"} =>
                      /\ procs[q].st \in {"booting", "up"} /\ procs'[q].marks = procs[q].marks
                      /\ procs'[q].file = procs[q].file
      <4>1. CASE KernelUp(p)
        BY <1>1, <4>1 DEF KernelUp, Proc
      <4>2. CASE Exit(p)
        BY <1>1, <4>2 DEF Exit, Proc
      <4>3. CASE Reuse(p)
        BY <1>1, <4>3 DEF Reuse, Proc
      <4> QED BY <1>3, <4>1, <4>2, <4>3
    <3> QED BY <3>1 DEF Milder, Going, GoingOn, Runs
  <2> QED BY <1>2, <2>1, <2>2
<1>4. ASSUME NEW s \in Sids, Quiet(s) PROVE Single'
  <2>1. /\ mem.sessions[s] # None /\ UNCHANGED <<procs, rows, tasks, boot>> /\ SameCounts
        /\ mem' = [mem EXCEPT !.sessions[s].quiet = TRUE]
    BY <1>4 DEF Quiet, Has, SameCounts
  <2>2. PICK y : y = [mem.sessions[s] EXCEPT !.quiet = TRUE]
    OBVIOUS
  <2>3. /\ y # None /\ y.pid = mem.sessions[s].pid /\ y.status = mem.sessions[s].status
        /\ y.file = mem.sessions[s].file
    <3>1. mem.sessions[s] \in Session
      BY <1>1, <2>1
    <3>2. y \in Session
      BY <2>2, <3>1 DEF Session
    <3> QED BY <2>2, <3>1, <3>2, NoneAssumption DEF Session
  <2>4. mem' = [mem EXCEPT !.sessions[s] = y]
    BY <2>1, <2>2
  <2>5. /\ mem'.sessions = [mem.sessions EXCEPT ![s] = y] /\ mem'.files = mem.files
        /\ mem'.watched = mem.watched /\ mem'.handle = mem.handle
    BY <1>1, <2>4 DEF Memory
  <2>6. \A q \in Sids : mem'.sessions[q] = IF q = s THEN y ELSE mem.sessions[q]
    BY <1>1, <2>5
  <2>7. \A q \in Sids : Stays(q) /\ ~(rows[q] # None /\ rows'[q] = None)
    BY <2>1, <2>3, <2>5, <2>6 DEF Stays
  <2>8. Milder
    BY <2>1, SignalMild DEF Marks
  <2>9. UNCHANGED <<boot, tasks>>
    BY <2>1
  <2>10. mem'.files = mem.files /\ mem'.watched = mem.watched
    BY <2>5
  <2> QED BY <2>1, <2>7, <2>8, <2>9, <2>10, OutsideStep
<1>5. CASE AutoClean
  <2>1. UNCHANGED <<procs, mem, tasks, boot>> /\ SameCounts
    BY <1>5 DEF AutoClean, SameCounts
  <2>2. Milder
    BY <2>1, SignalMild DEF Marks
  <2>3. PICK S : S = {s \in DeadRows : ~Alive(rows[s].pid)}
    OBVIOUS
  <2>4. rows' = Without(S)
    BY <1>5, <2>3 DEF AutoClean
  <2>5. \A s \in S : ~GoingOn(rows[s].pid)
    BY <2>1, <2>3, NoZeros DEF Alive, GoingOn
  <2>6. \A s \in Sids : Stays(s) /\ (rows[s] # None /\ rows'[s] = None => s \in S)
    BY <2>1, <2>3, <2>4, AutoCleanedStays
  <2>7. mem'.files = mem.files /\ mem'.watched = mem.watched
    BY <2>1
  <2> QED BY <2>1, <2>2, <2>5, <2>6, <2>7, OutsideStep
<1> QED BY <1>3, <1>4, <1>5

\* An exit event, and the sweep: sessions whose processes have ended are cleaned up.
LEMMA EndSingle ==
    ASSUME Typed, Typed', IInv, Tidy, Single, past' = {},
           \/ \E p \in Pids : ExitEvent(p)
           \/ SweepLiveness
    PROVE  Single'
<1>1. /\ mem \in Memory /\ mem.watched \in SUBSET Pids /\ mem.handle \in [Sids -> 0..MaxProcs]
      /\ mem.sessions \in [Sids -> Session \cup {None}]
  BY TypeParts DEF Typed, Memory
<1>2. ASSUME NEW m \in Memory, NEW S \in SUBSET Sids, m.sessions = mem.sessions, m.files = mem.files,
             m.watched \subseteq mem.watched, m.handle = mem.handle, Cleaned(m, S),
             UNCHANGED <<procs, tasks, boot>>, SameCounts,
             \A s \in S : Has(s) => ~GoingOn(mem.sessions[s].pid),
             \A u \in Tasks : tasks[u] # None /\ tasks[u].op = "restart" /\ tasks[u].sid \in S =>
                tasks[u].pc \notin Replacing
      PROVE  Single'
  <2>1. PICK N : N = {s \in S : Has(s)}
    OBVIOUS
  <2>2. \A s \in S : Has(s) => ~GoingOn(mem.sessions[s].pid) /\ ~Old(s)
    BY <1>2 DEF IInv, OldIsUntouched, Has
  <2>3. \A s \in Sids : m.handle[s] \in {0, mem.handle[s]}
    BY <1>2
  <2>4. /\ \A s \in Sids \ N : Stays(s) /\ rows'[s] = rows[s]
        /\ \A s \in N : ~Old(s) /\ Keeps(s) /\ KeepsRow(s) /\ Started(s)'
        /\ \A f \in Files : mem'.files[f] \in {0, mem.files[f]}
        /\ mem'.watched \subseteq mem.watched
    BY <1>2, <2>1, <2>2, <2>3, CleanedKeeps
  <2>5. \A s \in S : mem'.sessions[s] = None
    BY <1>2 DEF Cleaned, Forgotten
  <2>6. N \in SUBSET Sids
    BY <2>1
  <2>7. \A u \in Tasks : tasks[u] # None /\ tasks[u].op = "restart" /\ tasks[u].sid \in N =>
            tasks[u].pc \notin Replacing /\ mem'.sessions[tasks[u].sid] = None
    BY <1>2, <2>1, <2>5
  <2>8. Milder
    BY <1>2, SignalMild DEF Marks
  <2>9. 0 \notin Tasks
    BY DEF Tasks
  <2>10. boot' = boot /\ \A u \in Tasks \ {0} : tasks'[u] = tasks[u]
    BY <1>2
  <2> QED BY <1>2, <2>4, <2>6, <2>7, <2>8, <2>9, <2>10, PlainStep
<1>3. ASSUME NEW p \in Pids, ExitEvent(p) PROVE Single'
  <2>1. PICK m, S : m = [mem EXCEPT !.watched = mem.watched \ {p}] /\ S = {s \in Sids : mem.handle[s] = p}
    OBVIOUS
  <2>2. /\ m.sessions = mem.sessions /\ m.files = mem.files /\ m.handle = mem.handle
        /\ m.watched \subseteq mem.watched
    BY <1>1, <2>1 DEF Memory
  <2>3. m \in Memory
    BY <1>1, <2>1, WatchedType
  <2>4. p \in mem.watched /\ ~Kernel(p) /\ Cleaned(m, S) /\ UNCHANGED <<procs, tasks, boot>> /\ SameCounts
    BY <1>3, <2>1 DEF ExitEvent, SameCounts
  <2>5. ~GoingOn(p)
    BY <2>4, NoZeros DEF Kernel, GoingOn
  <2>6. \A s \in S : Has(s) => ~GoingOn(mem.sessions[s].pid)
    BY <2>1, <2>5, NoZeros DEF Tidy, SessionOK
  <2>7. ASSUME NEW u \in Tasks, NEW k, tasks[u] = k, k # None, k.op = "restart", k.sid \in S
        PROVE  k.pc \notin Replacing
    <3>1. mem.handle[k.sid] = p /\ p # 0
      BY <2>1, <2>7, NoZeros
    <3>2. Fine(k) /\ RestartFine(k)
      BY <2>7, TaskParts DEF Right
    <3>3. k.pc \in {"restart verify", "restart kill"} => mem.handle[k.sid] = 0
      BY <2>7, <3>2 DEF Fine, Renewing, RestartFine, Replacing
    <3> QED BY <2>4, <3>1, <3>2, <3>3 DEF RestartFine, Replacing
  <2>8. S \in SUBSET Sids
    BY <2>1
  <2> QED BY <1>2, <2>2, <2>3, <2>4, <2>6, <2>7, <2>8
<1>4. CASE SweepLiveness
  <2>1. /\ Cleaned(mem, Swept) /\ UNCHANGED <<procs, tasks, boot>> /\ SameCounts
        /\ \A s \in Swept : ~Overlaps(s, "sweep")
    BY <1>4 DEF SweepLiveness, SameCounts, Notes, RacedIf
  <2>2. \A s \in Swept : Has(s) => ~GoingOn(mem.sessions[s].pid)
    BY <2>1, NoZeros DEF Swept, Alive, GoingOn
  <2>3. Swept \in SUBSET Sids
    BY DEF Swept
  <2>4. \A u \in Tasks : tasks[u] # None /\ tasks[u].op = "restart" => tasks[u].sid \notin Swept
    BY <2>1 DEF Overlaps
  <2> QED BY <1>1, <1>2, <2>1, <2>2, <2>3, <2>4
<1> QED BY <1>3, <1>4

\* A session with a process that goes on has a row, unless its kernel is starting.
LEMMA OnRecord ==
    ASSUME Typed, IInv, Tidy, Single, NEW s \in Sids, Live(s), Going(mem.sessions[s].pid),
           \A t \in Tasks : tasks[t] # None => tasks[t].pc \notin Raised
    PROVE  rows[s] # None /\ rows[s].pid = mem.sessions[s].pid
<1>1. mem.sessions[s] \in Session /\ SessionOK(s) /\ Started(s)
  BY SessionParts DEF Live, Tidy, Single
<1>2. CASE mem.sessions[s].status = "ready"
  BY <1>1, <1>2 DEF SessionOK, RowGood, Live
<1>3. CASE mem.sessions[s].status = "starting"
  <2>1. CASE boot.sid = s /\ (rows[s] # None \/ ~Going(mem.sessions[s].pid))
    BY <2>1, NoZeros DEF Tidy, BootOK, Live
  <2>2. ASSUME NEW t \in Tasks, NEW k, tasks[t] = k, StartedBy(t, s)
        PROVE  rows[s] # None /\ rows[s].pid = mem.sessions[s].pid
    <3>1. /\ k # None /\ k.sid = s /\ k.op \in {"create", "restart"} /\ s # 0 /\ Has(s)
      BY <2>2, NoZeros DEF StartedBy, Live
    <3>2. k \in Task /\ Fine(k) /\ Right(k) /\ k.pc \notin Raised
      BY <2>2, <3>1, TaskParts
    <3>3. k.pc \notin {"reap", "kill"}
      BY <3>1, <3>2 DEF Fine
    <3>4. k.op = "restart"
      <4> SUFFICES ASSUME k.op = "create" PROVE FALSE
        BY <3>1
      <4>1. k.pc \in {"poll", "reap", "kill", "port", "boot", "stamp", "restart reap",
                      "restart verify", "restart kill", "clean check", "clean kill", "clean delete"}
        BY <3>2 DEF Task
      <4>2. k.pc \notin {"poll", "port"}
        BY <3>1, <3>2 DEF Right, CreateFine
      <4> QED BY <3>2, <3>3, <4>1, <4>2 DEF Fine, Raised, Restarting, Cleaning
    <3>5. k.pc \in Replacing
      <4>1. k.pc \in {"poll", "reap", "kill", "port", "boot", "stamp", "restart reap",
                      "restart verify", "restart kill", "clean check", "clean kill", "clean delete"}
        BY <3>2 DEF Task
      <4> QED BY <3>2, <3>3, <3>4, <4>1 DEF Fine, Raised, Replacing, Cleaning
    <3> QED BY <3>1, <3>2, <3>4, <3>5 DEF Right, RestartFine
  <2> QED BY <1>1, <1>3, <2>1, <2>2 DEF Started
<1> QED BY <1>1, <1>2, <1>3 DEF Session, Live

\* A crash leaves the processes to the rows.
LEMMA CrashSingle ==
    ASSUME Typed, Typed', IInv, Tidy, Single, Crash, past' = {}
    PROVE  Single'
<1>1. rows \in [Sids -> Row \cup {None}]
  BY TypeParts DEF Typed
<1>2. /\ mem' = NoMemory /\ procs' = procs /\ \A t \in Tasks : tasks'[t] = None
      /\ boot' = [phase |-> "off", left |-> {}, read |-> NoRows, sid |-> 0, row |-> None]
      /\ rows' = [s \in Sids |-> IF rows[s] = None THEN None ELSE [rows[s] EXCEPT !.mine = FALSE]]
      /\ \A t \in Tasks : tasks[t] # None => tasks[t].pc \notin Raised
  BY DEF Crash, Notes, Raised
<1>3. SameCounts
  BY DEF Crash, SameCounts, Typed, TypeOK
<1>4. ASSUME NEW s \in Sids PROVE
        /\ mem'.sessions[s] = None /\ ~Has(s)' /\ ~Live(s)'
        /\ rows'[s] # None <=> rows[s] # None
        /\ rows[s] # None => rows'[s].pid = rows[s].pid /\ rows'[s].file = rows[s].file /\ Old(s)'
  <2>1. mem'.sessions[s] = None
    BY <1>2 DEF NoMemory
  <2>2. ASSUME rows[s] # None
        PROVE  rows'[s] # None /\ rows'[s].pid = rows[s].pid /\ rows'[s].file = rows[s].file /\ ~rows'[s].mine
    <3>1. PICK r : r = [rows[s] EXCEPT !.mine = FALSE]
      OBVIOUS
    <3>2. rows[s] \in Row
      BY <1>1, <2>2
    <3>3. r \in Row /\ r.pid = rows[s].pid /\ r.file = rows[s].file /\ ~r.mine
      BY <3>1, <3>2 DEF Row
    <3>4. rows'[s] = r
      BY <1>2, <2>2, <3>1
    <3> QED BY <3>3, <3>4, NoneAssumption
  <2>3. rows[s] = None => rows'[s] = None
    BY <1>2
  <2>4. rows[s] # None => Old(s)'
    BY <1>2, <2>2 DEF Old
  <2> QED BY <2>1, <2>2, <2>3, <2>4 DEF Has, Live
<1>5. Homes'
  <2> SUFFICES ASSUME NEW p \in Pids, Going(p) PROVE Homed(p)'
    BY <1>2 DEF Homes, Going, Runs
  <2>1. Homed(p)
    BY DEF Single, Settled, Homes
  <2>2. ASSUME NEW s \in Sids, Live(s), mem.sessions[s].pid = p PROVE Homed(p)'
    BY <1>2, <1>4, <2>2, OnRecord DEF Homed
  <2>3. ASSUME NEW s \in Sids, Old(s), rows[s] # None, rows[s].pid = p PROVE Homed(p)'
    BY <1>4, <2>3 DEF Homed
  <2> QED BY <2>1, <2>2, <2>3 DEF Homed
<1>6. NotGiven'
  <2>1. count'.pids = count.pids /\ \A f \in Files : mem'.files[f] = 0
    BY <1>2, <1>3 DEF SameCounts, NoMemory
  <2>2. 0 <= count'.sids
    BY BoundAssumption DEF Typed, TypeOK
  <2> QED BY <1>2, <2>1, <2>2 DEF Single, Settled, NotGiven
<1>7. OneSession' /\ Mapped' /\ LeftAlone' /\ Blank' /\ Unmapped'
  <2>1. \A f \in Files : mem'.files[f] = 0
    BY <1>2 DEF NoMemory
  <2>2. ~Has(0)'
    BY DEF Has
  <2> QED BY <1>2, <1>4, <2>1, <2>2 DEF OneSession, Mapped, LeftAlone, Blank, Unmapped
<1>8. OneProcess'
  BY <1>2 DEF Single, Settled, OneProcess, Going, Runs
<1>9. \A s \in Sids : OwnFile(s)'
  BY <1>2, <1>4 DEF Single, Settled, OwnFile, Going, Runs
<1> QED BY <1>2, <1>4, <1>5, <1>6, <1>7, <1>8, <1>9 DEF Single, Settled, OneCreate, Creating, Started

\* A step of the start of a server that enters no session
LEMMA LoopStep ==
    ASSUME Typed, Typed', IInv, Tidy, Single, Milder, UNCHANGED tasks, SameCounts,
           NEW N \in SUBSET Sids, \A s \in Sids \ N : Stays(s),
           \A s \in Sids : Keeps(s) /\ KeepsRow(s), \A s \in N : Started(s)',
           \A f \in Files : mem'.files[f] \in {0, mem.files[f]}, mem'.watched \subseteq mem.watched,
           boot.phase # "up", boot'.sid \in {0, boot.sid}, boot'.sid # 0 => boot'.row = boot.row,
           boot'.sid = boot.sid \/ boot.sid \in N \cup {0},
           boot'.phase = "reattaching" =>
             \/ boot.phase = "reattaching" /\ boot'.left \subseteq boot.left /\ \A s \in boot'.left : rows'[s] \in {None, rows[s]}
             \/ boot.phase \in {"off", "listening"},
           boot'.phase \in {"off", "listening"} => boot.phase \in {"off", "listening"},
           \A u \in Tasks : tasks[u] # None /\ tasks[u].op = "restart" /\ tasks[u].sid \in N =>
             tasks[u].pc \notin Replacing /\ mem'.sessions[tasks[u].sid] = None
    PROVE  Single'
<1>1. Quieter
  BY DEF Milder, Quieter
<1>2. Settled'
  BY <1>1, SettledFrame DEF Single
<1>3. 0 \notin Tasks
  BY DEF Tasks
<1>4. /\ \A u \in Tasks \ {0} : tasks'[u] # None => Right(tasks[u])'
      /\ OneCreate'
      /\ \A s \in Sids \ N : Started(s)'
  <2>1. \A s \in N : mem'.sessions[s] # None =>
           /\ mem.sessions[s] # None /\ mem'.sessions[s].file = mem.sessions[s].file
           /\ mem'.sessions[s].status # "dead" => mem.sessions[s].status # "dead"
    BY DEF Keeps
  <2>2. \A u \in Tasks \ {0} : tasks'[u] = tasks[u]
    OBVIOUS
  <2>3. \A u \in Tasks \ {0} : tasks[u] # None /\ tasks[u].op = "restart" /\ tasks[u].sid \in N =>
           tasks[u].pc \notin Replacing /\ mem'.sessions[tasks[u].sid] = None
    OBVIOUS
  <2> QED BY <1>1, <1>3, <2>1, <2>2, <2>3, RequestsFrame
<1> QED BY <1>2, <1>3, <1>4 DEF Single

\* The server listens: nothing else changes.
LEMMA ListenSingle ==
    ASSUME Typed, Typed', IInv, Tidy, Single, Listen
    PROVE  Single'
<1>1. /\ boot.phase = "off" /\ boot' = [boot EXCEPT !.phase = "listening"] /\ SameCounts
      /\ UNCHANGED <<procs, tasks>> /\ mem' = mem /\ rows' = rows /\ Milder
  BY SignalMild DEF Listen, SameCounts, Marks
<1>2. boot'.phase = "listening" /\ boot'.sid = boot.sid /\ boot'.row = boot.row
  BY <1>1, TypeParts DEF Typed, Boot
<1>3. \A s \in Sids : Stays(s) /\ Keeps(s) /\ KeepsRow(s)
  BY <1>1, <1>2 DEF Stays, Keeps, KeepsRow, Old
<1> DEFINE N == {}
<1>4. N \in SUBSET Sids /\ (\A s \in Sids \ N : Stays(s)) /\ (\A s \in N : FALSE)
  BY <1>3
<1> HIDE DEF N
<1> QED BY <1>1, <1>2, <1>3, <1>4, LoopStep

\* The rows of an earlier server are orphaned: the loop will get to those whose
\* kernels run.
LEMMA ReattachBeginsSingle ==
    ASSUME Typed, Typed', IInv, Tidy, Single, ReattachBegins
    PROVE  Single'
<1>1. /\ boot.phase = "listening" /\ UNCHANGED <<procs, tasks>> /\ mem' = mem /\ SameCounts /\ Milder
      /\ rows' = [s \in Sids |-> Orphaned(rows[s])]
      /\ boot'.phase = "reattaching" /\ boot'.sid = 0
      /\ boot'.left = {s \in Sids : rows'[s] # None /\ rows'[s].status = "orphaned"}
  BY SignalMild DEF ReattachBegins, SameCounts, Marks
<1>2. boot.sid = 0 /\ \A s \in Sids : mem.sessions[s] = None
  BY <1>1 DEF Tidy, BootOK, Single, Settled, Blank
<1>3. ASSUME NEW s \in Sids PROVE KeepsRow(s)
  <2>1. rows'[s] = Orphaned(rows[s])
    BY <1>1
  <2>2. CASE rows[s] = None
    BY <2>1, <2>2 DEF KeepsRow, Orphaned
  <2>3. CASE rows[s] # None
    <3>1. rows[s] \in Row
      BY <2>3, TypeParts DEF Typed
    <3>2. PICK r : r = [rows[s] EXCEPT !.status = "orphaned"]
      OBVIOUS
    <3>3. r \in Row /\ r.status = "orphaned" /\ r.pid = rows[s].pid /\ r.file = rows[s].file
      BY <3>1, <3>2 DEF Row
    <3>4. rows'[s] = IF rows[s].status = "active" /\ ~rows[s].mine THEN r ELSE rows[s]
      BY <2>1, <2>3, <3>2 DEF Orphaned
    <3>5. rows'[s] # None /\ rows'[s].pid = rows[s].pid /\ rows'[s].file = rows[s].file
      BY <2>3, <3>3, <3>4, NoneAssumption
    <3>6. Old(s) /\ GoingOn(rows[s].pid) => Old(s)'
      <4> SUFFICES ASSUME Old(s), GoingOn(rows[s].pid) PROVE Old(s)'
        OBVIOUS
      <4>1. ~rows[s].mine
        BY <1>1 DEF Old
      <4>2. rows[s].status # "terminated"
        BY <1>1, <2>3, ProcsKept DEF Tidy, RowOK
      <4>3. rows'[s].status = "orphaned"
        BY <3>1, <3>3, <3>4, <4>1, <4>2 DEF Row
      <4> QED BY <1>1, <3>5, <4>3 DEF Old
    <3> QED BY <2>3, <3>5, <3>6 DEF KeepsRow
  <2> QED BY <2>2, <2>3
<1>4. \A s \in Sids : Keeps(s) /\ Started(s)'
  BY <1>1, <1>2 DEF Keeps, Started, Live, Has
<1>5. ASSUME NEW u \in Tasks, NEW k, tasks[u] = k, k # None, k.op = "restart", k.sid \in Sids
      PROVE  k.pc \notin Replacing /\ mem'.sessions[k.sid] = None
  BY <1>1, <1>2, <1>5, TaskParts DEF Right, RestartFine, Has
<1> DEFINE N == Sids
<1>6. N \in SUBSET Sids /\ (\A s \in Sids \ N : Stays(s)) /\ \A s \in N : s \in Sids
  OBVIOUS
<1>7. \A s \in N : Started(s)'
  BY <1>4
<1>8. \A u \in Tasks : tasks[u] # None /\ tasks[u].op = "restart" /\ tasks[u].sid \in N =>
         tasks[u].pc \notin Replacing /\ mem'.sessions[tasks[u].sid] = None
  BY <1>5
<1> HIDE DEF N
<1> QED BY <1>1, <1>2, <1>3, <1>4, <1>6, <1>7, <1>8, LoopStep

\* The loop ends: rows whose kernels have ended go.
LEMMA ReattachDoneSingle ==
    ASSUME Typed, Typed', IInv, Tidy, Single, ReattachDone
    PROVE  Single'
<1>0. PICK S, P : S \subseteq DeadRows /\ rows' = Without(S) /\ procs' = Missed(P)
  BY DEF ReattachDone, Deletable
<1>1. /\ boot.phase = "reattaching" /\ boot.sid = 0 /\ boot.left = {}
      /\ mem' = mem /\ tasks' = tasks /\ SameCounts /\ Milder
      /\ boot' = [boot EXCEPT !.phase = "up", !.read = NoRows]
  BY <1>0, PsMild DEF ReattachDone, SameCounts
<1>2. boot'.phase = "up" /\ boot'.sid = 0
  BY <1>1, TypeParts DEF Typed, Boot
<1>3. \A s \in Sids : Stays(s)
  BY <1>0, <1>1, AutoCleanedStays
<1>4. \A s \in Sids : Keeps(s) /\ KeepsRow(s)
  BY <1>1, <1>3 DEF Stays, Keeps, KeepsRow, Old
<1> DEFINE N == {}
<1>5. N \in SUBSET Sids /\ (\A s \in Sids \ N : Stays(s)) /\ (\A s \in N : FALSE)
  BY <1>3
<1> HIDE DEF N
<1>6. mem'.files = mem.files /\ mem'.watched = mem.watched
  BY <1>1
<1> QED BY <1>1, <1>2, <1>4, <1>5, <1>6, LoopStep

\* A row that is terminated
LEMMA TerminatedRow ==
    ASSUME Typed, NEW s \in Sids, rows' = Terminated(s)
    PROVE  /\ \A q \in Sids \ {s} : rows'[q] = rows[q]
           /\ rows'[s] # None => rows[s] # None /\ rows'[s].pid = rows[s].pid /\ rows'[s].file = rows[s].file
<1>1. rows \in [Sids -> Row \cup {None}]
  BY TypeParts DEF Typed
<1>2. CASE rows[s] = None
  BY <1>2 DEF Terminated
<1>3. CASE rows[s] # None
  <2>1. PICK r : r = [rows[s] EXCEPT !.status = "terminated"]
    OBVIOUS
  <2>2. rows[s] \in Row
    BY <1>1, <1>3
  <2>3. r.pid = rows[s].pid /\ r.file = rows[s].file
    BY <2>1, <2>2 DEF Row
  <2>4. rows' = [rows EXCEPT ![s] = r]
    BY <1>3, <2>1 DEF Terminated
  <2> QED BY <1>1, <1>3, <2>3, <2>4
<1> QED BY <1>2, <1>3

\* The loop gives up the row of a kernel that has ended.
LEMMA GivenUpSingle ==
    ASSUME Typed, Typed', IInv, Tidy, Reads, Single, NEW s \in Sids, ReattachNext(s),
           NEW r, r = boot.read[s], NEW answered \in BOOLEAN, Lost(r, answered), mem' = mem,
           rows' = Terminated(s), boot' = [boot EXCEPT !.left = boot.left \ {s}],
           procs' = IF answered THEN procs ELSE Missed({r.pid})
    PROVE  Single'
<1>1. /\ boot.phase = "reattaching" /\ boot.sid = 0 /\ s \in boot.left /\ tasks' = tasks
      /\ SameCounts /\ Milder
  BY PsMild DEF ReattachNext, SameCounts
<1>2. boot'.phase = "reattaching" /\ boot'.sid = 0 /\ boot'.left = boot.left \ {s}
  BY <1>1, TypeParts DEF Typed, Boot
<1>3. /\ mem.sessions[s] = None /\ boot.left \subseteq Sids
      /\ \A u \in Tasks : tasks[u] # None => tasks[u].sid # s
  <2>1. /\ mem.sessions[s] = None
        /\ \A t \in Tasks : tasks[t] # None /\ tasks[t].sid = s => tasks[t].pc \in Cleaning
    BY <1>1 DEF IInv, OldIsUntouched, Old
  <2>2. \A t \in Tasks : tasks[t] # None => tasks[t].pc \notin Cleaning
    BY <1>1 DEF Tidy, TaskOK, Fine
  <2> QED BY <2>1, <2>2, TypeParts DEF Typed, Boot
<1>4. rows[s] # None => ~GoingOn(rows[s].pid)
  <2>1. rows[s] # None => rows[s] = r
    BY <1>1 DEF Reads
  <2>2. r # None /\ Readable(r)
    BY <1>1, TypeParts DEF Typed, Known, LoopKnows, Boot, Reads
  <2>3. CASE answered
    <3>1. ~Kernel(r.pid)
      BY <2>2, <2>3 DEF Readable, Lost, Alive, Expected, Kernel
    <3>2. ~Going(r.pid)
      BY <3>1, NoZeros DEF Kernel, Going
    <3> QED BY <2>1, <2>3, <3>2, ProcsKept
  <2>4. CASE ~answered
    BY <2>1, <2>4, MissedEnds
  <2> QED BY <2>3, <2>4
<1>5. ASSUME NEW q \in Sids PROVE Keeps(q) /\ KeepsRow(q)
  <2>1. Keeps(q)
    BY <1>1 DEF Keeps
  <2>2. /\ \A o \in Sids \ {s} : rows'[o] = rows[o]
        /\ rows'[s] # None => rows[s] # None /\ rows'[s].pid = rows[s].pid /\ rows'[s].file = rows[s].file
    BY <1>1, TerminatedRow
  <2>3. CASE q = s
    <3>1. KeepsRow(s)
      BY <1>4, <2>2 DEF KeepsRow
    <3> QED BY <2>1, <2>3, <3>1
  <2>4. CASE q # s
    <3>1. rows'[q] = rows[q]
      BY <2>2, <2>4
    <3>2. Old(q) => Old(q)'
      BY <1>1, <1>2, <2>4 DEF Old
    <3> QED BY <2>1, <3>1, <3>2 DEF KeepsRow
  <2> QED BY <2>1, <2>3, <2>4
<1>6. Started(s)'
  BY <1>1, <1>3 DEF Started, Live, Has
<1>7. \A q \in Sids \ {s} : rows'[q] = rows[q] /\ Stays(q)
  BY <1>1, TerminatedRow DEF Stays
<1>8. /\ boot'.left \subseteq boot.left
      /\ \A q \in boot'.left : rows'[q] \in {None, rows[q]}
  BY <1>2, <1>3, <1>7
<1>9. mem'.files = mem.files /\ mem'.watched = mem.watched
  BY <1>1
<1> DEFINE N == {s}
<1>10. N \in SUBSET Sids /\ (\A q \in Sids \ N : Stays(q)) /\ (\A q \in N : Started(q)')
  BY <1>6, <1>7
<1>11. \A u \in Tasks : tasks[u] # None => tasks[u].sid \notin N
  BY <1>3
<1> HIDE DEF N
<1> QED BY <1>1, <1>2, <1>5, <1>8, <1>9, <1>10, <1>11, LoopStep

\* The loop ends with a row: the kernel's session is ready, or forgotten.
LEMMA ReattachEndsSingle ==
    ASSUME Typed, Typed', IInv, Tidy, Single, ReattachEnds,
           NEW s, s = boot.sid, NEW r, r = boot.row
    PROVE  Single'
<1>1. /\ rows \in [Sids -> Row \cup {None}] /\ mem \in Memory
      /\ mem.sessions \in [Sids -> Session \cup {None}]
  BY TypeParts DEF Typed, Memory
<1>2. /\ boot.phase = "reattaching" /\ s # 0 /\ tasks' = tasks /\ SameCounts
      /\ boot' = [boot EXCEPT !.sid = 0, !.row = None]
  BY DEF ReattachEnds, SameCounts
<1>3. s \in Sids /\ r \in Row /\ r.pid \in Pids
  BY <1>2, Numbers, TypeParts DEF Typed, Known, LoopKnows, Boot, Row
<1>4. boot'.phase = "reattaching" /\ boot'.sid = 0 /\ boot'.left = boot.left
  BY <1>2, TypeParts DEF Typed, Boot
<1>6. \/ \E time \in StartTimes :
            /\ rows' = Recorded(s, [r EXCEPT !.status = "active", !.mine = TRUE, !.time = time])
            /\ mem' = IF Has(s) THEN [mem EXCEPT !.sessions[s].status = "ready"] ELSE mem
            /\ procs' = procs \/ (procs' = Recognised(r.pid, time) /\ (time = "other" => ~Kernel(r.pid)))
      \/ ~Alive(r.pid) /\ mem' = Forgotten(mem, {s}) /\ rows' = Terminated(s) /\ procs' = procs
  <2>1. CASE Responds(s) \/ Alive(r.pid)
    <3>1. mem' = IF Has(s) THEN [mem EXCEPT !.sessions[s].status = "ready"] ELSE mem
      BY <2>1 DEF ReattachEnds
    <3>2. CASE r.time # "none"
      <4>1. rows' = Recorded(s, [r EXCEPT !.status = "active", !.mine = TRUE, !.time = r.time]) /\ procs' = procs
        BY <2>1, <3>2 DEF ReattachEnds
      <4>2. r.time \in StartTimes
        BY <1>3 DEF Row
      <4> QED BY <3>1, <4>1, <4>2
    <3>3. CASE r.time = "none"
      <4>1. PICK answered \in Answers :
              /\ rows' = Recorded(s, [r EXCEPT !.status = "active", !.mine = TRUE, !.time = StartTime(r.pid, answered)])
              /\ procs' = Recognised(r.pid, StartTime(r.pid, answered))
        BY <2>1, <3>3 DEF ReattachEnds
      <4>2. PICK time : time = StartTime(r.pid, answered)
        OBVIOUS
      <4>3. time \in StartTimes /\ (time = "other" => ~Kernel(r.pid))
        BY <4>2, StartTimeIs
      <4>4. rows' = Recorded(s, [r EXCEPT !.status = "active", !.mine = TRUE, !.time = time]) /\ procs' = Recognised(r.pid, time)
        BY <4>1, <4>2
      <4> QED BY <3>1, <4>3, <4>4
    <3> QED BY <3>2, <3>3
  <2>2. CASE ~(Responds(s) \/ Alive(r.pid))
    BY <2>2 DEF ReattachEnds
  <2> QED BY <2>1, <2>2
<1>0. Milder /\ (\A p : GoingOn(p) <=> Going(p))
  <2>1. procs' = procs \/ \E time : procs' = Recognised(r.pid, time) /\ (time = "other" => ~Kernel(r.pid))
    BY <1>6
  <2> QED BY <2>1, ProcsKept, RecognisedEnds, PsMild
<1>5. /\ Has(s) => mem.sessions[s].pid = r.pid /\ FileOf(s) = r.file
      /\ ~Has(s) => ~GoingOn(r.pid)
      /\ ~Old(s)
  <2>1. /\ Has(s) => mem.sessions[s].pid = r.pid
        /\ ~Has(s) => ~Going(r.pid)
    BY <1>2 DEF Tidy, BootOK
  <2>2. Has(s) => r.file = FileOf(s)
    BY <1>3 DEF Single, Settled, OwnFile
  <2>3. ~Old(s)
    BY <1>3 DEF IInv, OldIsUntouched
  <2> QED BY <1>0, <2>1, <2>2, <2>3
<1>7. /\ \A q \in Sids \ {s} : rows'[q] = rows[q] /\ Stays(q)
      /\ Keeps(s) /\ KeepsRow(s) /\ Started(s)'
      /\ \A f \in Files : mem'.files[f] \in {0, mem.files[f]}
      /\ mem'.watched \subseteq mem.watched
  <2>1. ASSUME NEW time \in StartTimes,
               rows' = Recorded(s, [r EXCEPT !.status = "active", !.mine = TRUE, !.time = time]),
               mem' = IF Has(s) THEN [mem EXCEPT !.sessions[s].status = "ready"] ELSE mem
        PROVE  /\ \A q \in Sids \ {s} : rows'[q] = rows[q] /\ Stays(q)
               /\ Keeps(s) /\ KeepsRow(s) /\ Started(s)'
               /\ \A f \in Files : mem'.files[f] \in {0, mem.files[f]}
               /\ mem'.watched \subseteq mem.watched
    <3>1. PICK x : x = [r EXCEPT !.status = "active", !.mine = TRUE, !.time = time]
      OBVIOUS
    <3>2. x.pid = r.pid /\ x.file = r.file
      BY <1>3, <3>1 DEF Row
    <3>3. rows'[s] = x /\ \A q \in Sids \ {s} : rows'[q] = rows[q]
      BY <1>1, <1>3, <2>1, <3>1 DEF Recorded
    <3>4. CASE Has(s)
      <4>1. PICK y : y = [mem.sessions[s] EXCEPT !.status = "ready"]
        OBVIOUS
      <4>2. y \in Session /\ y.pid = r.pid /\ y.file = r.file /\ y.status = "ready"
        BY <1>1, <1>3, <1>5, <3>4, <4>1 DEF Session, Has, FileOf
      <4>3. mem' = [mem EXCEPT !.sessions[s] = y]
        BY <2>1, <3>4, <4>1
      <4>4. /\ mem'.handle = mem.handle /\ mem'.sessions = [mem.sessions EXCEPT ![s] = y]
            /\ mem'.files = mem.files /\ mem'.watched = mem.watched
        BY <1>1, <4>3 DEF Memory
      <4>5. y # None
        BY <4>2, NoneAssumption
      <4>6. mem'.sessions[s] = y /\ \A q \in Sids \ {s} : mem'.sessions[q] = mem.sessions[q]
        BY <1>1, <1>3, <4>4
      <4>7. Keeps(s)
        <5>1. mem.sessions[s] # None /\ mem.sessions[s].status # "dead"
          BY <1>2, <3>4 DEF Tidy, BootOK, Has
        <5> QED BY <1>5, <3>4, <4>2, <4>5, <4>6, <5>1 DEF Keeps, FileOf
      <4>8. KeepsRow(s) /\ Started(s)'
        BY <1>5, <3>2, <3>3, <4>2, <4>5, <4>6 DEF KeepsRow, Started
      <4> QED BY <3>3, <4>4, <4>6, <4>7, <4>8 DEF Stays
    <3>5. CASE ~Has(s)
      <4>1. mem' = mem /\ mem.sessions[s] = None
        BY <1>2, <2>1, <3>5 DEF Has
      <4>2. Keeps(s) /\ KeepsRow(s) /\ Started(s)'
        BY <1>5, <3>2, <3>3, <3>5, <4>1 DEF Keeps, KeepsRow, Started, Live, Has
      <4> QED BY <3>3, <4>1, <4>2 DEF Stays
    <3> QED BY <3>4, <3>5
  <2>2. CASE ~Alive(r.pid) /\ mem' = Forgotten(mem, {s}) /\ rows' = Terminated(s)
    <3>1. /\ \A q \in Sids : mem'.sessions[q] = IF q = s THEN None ELSE mem.sessions[q]
          /\ \A q \in Sids : mem'.handle[q] = IF q = s THEN 0 ELSE mem.handle[q]
          /\ \A f \in Files : mem'.files[f] \in {0, mem.files[f]}
          /\ mem'.watched \subseteq mem.watched
      BY <2>2 DEF Forgotten
    <3>2. ~GoingOn(r.pid)
      BY <1>0, <1>3, <2>2, NoZeros DEF Alive, Going
    <3>3. Keeps(s)
      BY <1>2, <1>3, <1>5, <3>1, <3>2 DEF Keeps, Has
    <3>4. KeepsRow(s)
      BY <1>3, <1>5, <2>2, TerminatedRow DEF KeepsRow
    <3>5. Started(s)'
      BY <1>3, <3>1 DEF Started, Live, Has
    <3>6. \A q \in Sids \ {s} : rows'[q] = rows[q] /\ Stays(q)
      BY <1>3, <2>2, <3>1, TerminatedRow DEF Stays
    <3> QED BY <3>1, <3>3, <3>4, <3>5, <3>6
  <2> QED BY <1>6, <2>1, <2>2
<1>8. ASSUME NEW q \in Sids PROVE Keeps(q) /\ KeepsRow(q)
  <2>1. CASE q = s
    BY <1>7, <2>1
  <2>2. CASE q # s
    BY <1>2, <1>4, <1>7, <2>2 DEF Stays, Keeps, KeepsRow, Old
  <2> QED BY <2>1, <2>2
<1>9. \A q \in boot'.left : rows'[q] \in {None, rows[q]}
  <2>1. boot.left \subseteq Sids /\ s \notin boot.left
    BY <1>2, <1>5, TypeParts DEF Typed, Boot, Old
  <2> QED BY <1>4, <1>7, <2>1
<1> DEFINE N == {s}
<1>10. N \in SUBSET Sids /\ (\A q \in Sids \ N : Stays(q)) /\ (\A q \in N : Started(q)') /\ boot.sid \in N
  BY <1>3, <1>7
<1>11. \A u \in Tasks : tasks[u] # None /\ tasks[u].op = "restart" => tasks[u].sid \notin N
  <2> SUFFICES ASSUME NEW u \in Tasks, NEW k, tasks[u] = k, k # None, k.op = "restart" PROVE k.sid # s
    OBVIOUS
  <2>1. Fine(k)
    BY TaskParts
  <2> QED BY <2>1 DEF Fine
<1> HIDE DEF N
<1> QED BY <1>0, <1>2, <1>4, <1>7, <1>8, <1>9, <1>10, <1>11, LoopStep

\* The loop enters the session of a kernel that runs; its notebook has no other, in
\* memory or in the rows that are left.
LEMMA EnteredSingle ==
    ASSUME Typed, Typed', IInv, Tidy, Reads, Single, NEW s \in Sids, ReattachNext(s), past' = {},
           NEW r, r = boot.read[s], procs' = procs, rows' = rows,
           boot' = [boot EXCEPT !.left = boot.left \ {s}, !.sid = s, !.row = r],
           mem' = [mem EXCEPT !.sessions[s] = [status |-> "starting", pid |-> r.pid, file |-> r.file,
                                               name |-> r.name, quiet |-> FALSE],
                              !.files[r.file] = s, !.sock[s] = r.pid],
           Notes(IF Rivals(s) = {} THEN {} ELSE {"several"})
    PROVE  Single'
<1>0. PICK x : x = [status |-> "starting", pid |-> r.pid, file |-> r.file, name |-> r.name, quiet |-> FALSE]
  OBVIOUS
<1>1. /\ mem \in Memory /\ mem.sessions \in [Sids -> Session \cup {None}]
      /\ mem.files \in [Files -> 0..MaxSessions] /\ boot.left \subseteq Sids
  BY TypeParts DEF Typed, Memory, Boot
<1>2. /\ boot.phase = "reattaching" /\ boot.sid = 0 /\ s \in boot.left /\ UNCHANGED <<procs, tasks>> /\ rows' = rows
      /\ SameCounts /\ boot' = [boot EXCEPT !.left = boot.left \ {s}, !.sid = s, !.row = r]
      /\ mem' = [mem EXCEPT !.sessions[s] = x, !.files[r.file] = s, !.sock[s] = r.pid]
      /\ Notes(IF Rivals(s) = {} THEN {} ELSE {"several"})
  BY <1>0 DEF ReattachNext, SameCounts
<1>3. /\ boot'.phase = "reattaching" /\ boot'.sid = s /\ boot'.left = boot.left \ {s} /\ boot'.row = r
  BY <1>2, TypeParts DEF Typed, Boot
<1>4. /\ r # None /\ r \in Row /\ r.pid \in Pids /\ r.file \in Files
      /\ rows[s] = r \/ (rows[s] = None /\ ~Going(r.pid))
  <2>1. r # None /\ r \in Row
    BY <1>2, TypeParts DEF Typed, Known, LoopKnows, Boot
  <2>2. rows[s] = r \/ (rows[s] = None /\ ~Kernel(r.pid))
    BY <1>2 DEF Reads
  <2> QED BY <2>1, <2>2, NoZeros DEF Row, Kernel, Going
<1>5. /\ mem.sessions[s] = None /\ mem.handle[s] = 0 /\ s # 0 /\ Old(s)
      /\ \A u \in Tasks : tasks[u] # None => tasks[u].sid # s
  <2>1. Old(s)
    BY <1>2 DEF Old
  <2>2. /\ mem.sessions[s] = None /\ mem.handle[s] = 0
        /\ \A t \in Tasks : tasks[t] # None /\ tasks[t].sid = s => tasks[t].pc \in Cleaning
    BY <2>1 DEF IInv, OldIsUntouched
  <2>3. \A t \in Tasks : tasks[t] # None => tasks[t].pc \notin Cleaning
    BY <1>2 DEF Tidy, TaskOK, Fine
  <2> QED BY <2>1, <2>2, <2>3, NoZeros
<1>6. x # None /\ x.pid = r.pid /\ x.file = r.file /\ x.status = "starting"
  <2>1. x \in Session
    BY <1>0, <1>4, Numbers DEF Session, Row
  <2> QED BY <1>0, <2>1, NoneAssumption
<1>7. /\ mem'.sessions[s] = x /\ \A q \in Sids \ {s} : mem'.sessions[q] = mem.sessions[q]
      /\ mem'.handle = mem.handle /\ mem'.watched = mem.watched
      /\ \A f \in Files : mem'.files[f] = IF f = r.file THEN s ELSE mem.files[f]
  <2>1. /\ mem'.sessions = [mem.sessions EXCEPT ![s] = x] /\ mem'.files = [mem.files EXCEPT ![r.file] = s]
        /\ mem'.handle = mem.handle /\ mem'.watched = mem.watched
    <3>1. mem' = [mem EXCEPT !.sessions[s] = x, !.files[r.file] = s, !.sock[s] = r.pid]
      BY <1>2
    <3> QED BY <1>1, <3>1 DEF Memory
  <2> QED BY <1>1, <2>1
<1>8. /\ \A q \in Sids : Live(q) => FileOf(q) # r.file
      /\ \A q \in boot.left \ {s} : rows[q] # None /\ rows[q].file = r.file => ~Going(rows[q].pid)
  <2>1. Rivals(s) = {}
    BY <1>2 DEF Notes
  <2>2. \A q \in Sids : Live(q) => FileOf(q) # r.file
    BY <1>1, <2>1 DEF Rivals, FileOf
  <2>3. ASSUME NEW q \in boot.left \ {s}, rows[q] # None, rows[q].file = r.file PROVE ~Going(rows[q].pid)
    <3>1. q \in Sids /\ rows[q] = boot.read[q] /\ Readable(rows[q])
      BY <1>1, <2>3 DEF Reads
    <3>2. Lost(rows[q], TRUE)
      BY <1>1, <2>1, <2>3, <3>1 DEF Rivals
    <3> QED BY <2>3, <3>1, <3>2, NoZeros DEF Lost, Readable, Expected, Alive, Kernel, Going
  <2> QED BY <2>2, <2>3
<1>9. \A p : GoingOn(p) <=> Going(p)
  BY <1>2, ProcsKept
<1>10. ASSUME NEW q \in Sids \ {s}
       PROVE  /\ Has(q)' <=> Has(q)
              /\ Live(q)' <=> Live(q)
              /\ Has(q) => FileOf(q)' = FileOf(q)
              /\ Old(q) => Old(q)'
  BY <1>2, <1>3, <1>7 DEF Has, Live, FileOf, Old
<1>11. Live(s)' /\ FileOf(s)' = r.file
  BY <1>5, <1>6, <1>7 DEF Live, Has, FileOf
<1>12. NotGiven'
  <2>1. s <= count'.sids /\ \A f \in Files : mem.files[f] <= count'.sids
    BY <1>2 DEF IInv, Fresh, SameCounts, Single, Settled, NotGiven
  <2>2. \A p \in Pids : p > count'.pids => procs'[p].st = "none"
    BY <1>2 DEF SameCounts, Single, Settled, NotGiven
  <2> QED BY <1>7, <2>1, <2>2 DEF NotGiven
<1>13. Homes'
  <2> SUFFICES ASSUME NEW p \in Pids, Going(p) PROVE Homed(p)'
    BY <1>2 DEF Homes, Going, Runs
  <2>1. Homed(p)
    BY DEF Single, Settled, Homes
  <2>2. ASSUME NEW q \in Sids, Live(q), mem.sessions[q].pid = p PROVE Homed(p)'
    <3>1. q # s
      BY <1>5, <2>2 DEF Live, Has
    <3> QED BY <1>7, <1>10, <2>2, <3>1 DEF Homed
  <2>3. ASSUME NEW q \in Sids, Old(q), rows[q] # None, rows[q].pid = p PROVE Homed(p)'
    <3>1. CASE q = s
      BY <1>4, <1>6, <1>7, <1>11, <2>3, <3>1 DEF Homed
    <3>2. CASE q # s
      BY <1>2, <1>10, <2>3, <3>2 DEF Homed
    <3> QED BY <3>1, <3>2
  <2> QED BY <2>1, <2>2, <2>3 DEF Homed
<1>14. OneSession'
  <2> SUFFICES ASSUME NEW q \in Sids, NEW o \in Sids, Live(q)', Live(o)', FileOf(q)' = FileOf(o)' PROVE q = o
    BY DEF OneSession
  <2>1. ASSUME NEW y \in Sids \ {s}, Live(y)' PROVE Live(y) /\ FileOf(y)' = FileOf(y) /\ FileOf(y) # r.file
    BY <1>8, <1>10, <2>1 DEF Live
  <2>2. CASE q # s /\ o # s
    BY <2>1, <2>2 DEF Single, Settled, OneSession
  <2>3. CASE q = s \/ o = s
    BY <1>11, <2>1, <2>3
  <2> QED BY <2>2, <2>3
<1>15. OneProcess'
  BY <1>2 DEF Single, Settled, OneProcess, Going, Runs
<1>16. \A f \in Files : mem.files[f] # s
  BY <1>2 DEF Single, Settled, Unmapped
<1>17. Mapped'
  <2>1. ASSUME NEW q \in Sids, Live(q)' PROVE mem'.files[FileOf(q)'] \in {0, q}
    <3>1. CASE q = s
      BY <1>4, <1>7, <1>11, <3>1
    <3>2. CASE q # s
      <4>1. Live(q) /\ FileOf(q)' = FileOf(q) /\ FileOf(q) # r.file /\ mem.files[FileOf(q)] \in {0, q}
        BY <1>8, <1>10, <2>1, <3>2 DEF Single, Settled, Mapped, Live
      <4>2. FileOf(q) \in Files
        BY <4>1, SessionParts DEF Live, FileOf
      <4> QED BY <1>7, <4>1, <4>2
    <3> QED BY <3>1, <3>2
  <2>2. ASSUME NEW f \in Files, NEW q, q = mem'.files[f], Has(q)' PROVE FileOf(q)' = f
    <3>1. CASE f = r.file
      BY <1>7, <1>11, <2>2, <3>1
    <3>2. CASE f # r.file
      <4>1. q = mem.files[f] /\ q # s /\ q \in Sids
        BY <1>1, <1>7, <1>16, <2>2, <3>2, Numbers DEF Has
      <4>2. Has(q) /\ FileOf(q)' = FileOf(q)
        BY <1>10, <2>2, <4>1
      <4> QED BY <4>1, <4>2 DEF Single, Settled, Mapped
    <3> QED BY <3>1, <3>2
  <2> QED BY <2>1, <2>2 DEF Mapped
<1>18. LeftAlone'
  <2> SUFFICES ASSUME NEW o \in boot.left \ {s}, NEW q \in Sids, rows[o] # None,
                      Live(q)', FileOf(q)' = rows[o].file, Going(rows[o].pid)
               PROVE  FALSE
    BY <1>2, <1>3 DEF LeftAlone, Going, Runs
  <2>1. CASE q = s
    BY <1>8, <1>11, <2>1
  <2>2. CASE q # s
    BY <1>2, <1>10, <2>2 DEF Single, Settled, LeftAlone, Live
  <2> QED BY <2>1, <2>2
<1>19. Blank' /\ Unmapped'
  <2>1. \A f \in Files : mem.files[f] \notin boot.left
    BY <1>2 DEF Single, Settled, Unmapped
  <2> QED BY <1>3, <1>7, <2>1 DEF Blank, Unmapped
<1>20. ASSUME NEW q \in Sids PROVE OwnFile(q)'
  <2>1. OwnFile(q)
    BY DEF Single, Settled
  <2>2. CASE q = s
    <3>1. /\ mem'.sessions[s].pid = r.pid /\ FileOf(s)' = r.file /\ boot'.row = r /\ rows'[s] \in {None, r}
          /\ r # None /\ procs' = procs
      BY <1>2, <1>3, <1>4, <1>6, <1>7, <1>11
    <3>2. Going(r.pid) => procs[r.pid].file = r.file
      BY <1>4, <2>1, <2>2 DEF OwnFile
    <3> QED BY <2>2, <3>1, <3>2 DEF OwnFile, Going, Runs
  <2>3. CASE q # s
    <3>1. /\ Has(q)' <=> Has(q)
          /\ mem'.sessions[q] = mem.sessions[q] /\ procs' = procs /\ rows' = rows /\ boot'.sid # q
      BY <1>2, <1>3, <1>7, <1>10, <2>3
    <3> QED BY <2>1, <3>1 DEF OwnFile, FileOf, Going, Runs
  <2> QED BY <2>2, <2>3
<1>21. Settled'
  BY <1>12, <1>13, <1>14, <1>15, <1>17, <1>18, <1>19, <1>20 DEF Settled
<1>22. 0 \notin Tasks
  BY DEF Tasks
<1> DEFINE N == {s}
<1>23. N \in SUBSET Sids /\ (\A q \in Sids \ N : q \in Sids \ {s}) /\ \A q \in Sids : q = s \/ q \in Sids \ N
  OBVIOUS
<1>24. \A u \in Tasks \ {0} : tasks'[u] = tasks[u] /\ (tasks[u] # None => tasks[u].sid \notin N)
  BY <1>2, <1>5
<1>25. \A q \in N : Elsewhere(0, q)
  <2>1. \A u \in Tasks : tasks[u] # None => tasks[u].op # "create"
    BY <1>2 DEF Single, Right, CreateFine
  <2> QED BY <2>1 DEF Elsewhere
<1> HIDE DEF N
<1>26. \A q \in Sids \ N : Stays(q)
  BY <1>2, <1>7, <1>23 DEF Stays
<1>27. /\ \A u \in Tasks \ {0} : tasks'[u] # None => Right(tasks[u])'
       /\ OneCreate'
       /\ \A q \in Sids \ N : Started(q)'
  <2>1. Quieter /\ boot.phase # "up" /\ boot.sid \in N \cup {0}
    BY <1>2, ProcsKept
  <2>2. \A w \in mem'.watched : w \in mem.watched \/ w > count.pids
    BY <1>7
  <2>3. \A u \in Tasks \ {0} : tasks'[u] = tasks[u]
    BY <1>24
  <2>4. \A u \in Tasks \ {0} : tasks[u] # None /\ tasks[u].op = "restart" /\ tasks[u].sid \in N =>
           tasks[u].pc \notin Replacing /\ mem'.sessions[tasks[u].sid] = None
    BY <1>24
  <2> QED BY <1>22, <1>23, <1>25, <1>26, <2>1, <2>2, <2>3, <2>4, RequestsFrame
<1>28. Started(s)'
  <2>1. mem'.sessions[s].pid = r.pid
    BY <1>6, <1>7
  <2> QED BY <1>2, <1>3, <1>4, <2>1 DEF Started, Going
<1>29. \A q \in Sids : Started(q)'
  BY <1>23, <1>27, <1>28
<1> QED BY <1>21, <1>22, <1>27, <1>29 DEF Single

\* Initially there is nothing, ...
LEMMA SingleInit == Init => Single
<1> SUFFICES ASSUME Init PROVE Single
  OBVIOUS
<1>1. /\ \A p \in Pids : procs[p].st = "none"
      /\ mem = NoMemory /\ boot = [phase |-> "up", left |-> {}, read |-> NoRows, sid |-> 0, row |-> None]
      /\ \A s \in Sids : rows[s] = None
      /\ \A t \in Tasks : tasks[t] = None
      /\ count.sids = 0
  BY DEF Init, NoRows
<1>2. (\A s \in Sids : mem.sessions[s] = None) /\ (\A f \in Files : mem.files[f] = 0) /\ ~Has(0)
  BY <1>1 DEF NoMemory, Has
<1>3. \A s \in Sids : ~Has(s) /\ ~Live(s)
  BY <1>2 DEF Has, Live
<1>4. \A p \in Pids : ~Going(p)
  BY <1>1 DEF Going, Runs
<1>5. Settled
  BY <1>1, <1>2, <1>3, <1>4
     DEF Settled, NotGiven, Homes, OneSession, OneProcess, Mapped, LeftAlone, Blank, Unmapped, OwnFile
<1> QED BY <1>1, <1>3, <1>5 DEF Single, OneCreate, Creating, Started

\* ... and no step that overlaps with none starts a second kernel.
LEMMA SingleStep ==
    ASSUME Typed, Typed', IInv, Tidy, Reads, Single, [Next]_vars, past' = {}
    PROVE  Single'
<1>1. ASSUME NEW t \in Tasks, Asked(t) PROVE Single'
  BY <1>1, AskedSingle
<1>2. ASSUME NEW t \in Tasks, TaskStep(t) PROVE Single'
  BY <1>2, TaskStepSingle
<1>3. CASE Reattaching
  <2>1. CASE ReattachBegins
    BY <2>1, ReattachBeginsSingle
  <2>2. ASSUME NEW s \in Sids, ReattachNext(s) PROVE Single'
    <3>1. PICK r : r = boot.read[s]
      OBVIOUS
    <3> DEFINE entered ==
                 /\ mem' = [mem EXCEPT !.sessions[s] = [status |-> "starting", pid |-> r.pid, file |-> r.file,
                                                        name |-> r.name, quiet |-> FALSE],
                                       !.files[r.file] = s, !.sock[s] = r.pid]
                 /\ boot' = [boot EXCEPT !.left = boot.left \ {s}, !.sid = s, !.row = r]
                 /\ Notes(IF Rivals(s) = {} THEN {} ELSE {"several"})
                 /\ procs' = procs /\ rows' = rows
    <3>2. PICK answered \in BOOLEAN :
            IF Lost(r, answered)
            THEN /\ rows' = Terminated(s) /\ boot' = [boot EXCEPT !.left = boot.left \ {s}] /\ mem' = mem
                 /\ procs' = IF answered THEN procs ELSE Missed({r.pid})
            ELSE entered
      BY <2>2, <3>1 DEF ReattachNext, Answers
    <3>3. CASE Lost(r, answered)
      BY <2>2, <3>1, <3>2, <3>3, GivenUpSingle
    <3>4. CASE ~Lost(r, answered)
      <4>1. entered
        BY <3>2, <3>4
      <4> QED BY <2>2, <3>1, <4>1, EnteredSingle
    <3> QED BY <3>3, <3>4
  <2>3. CASE ReattachEnds
    BY <2>3, ReattachEndsSingle
  <2>4. CASE ReattachDone
    BY <2>4, ReattachDoneSingle
  <2> QED BY <1>3, <2>1, <2>2, <2>3, <2>4 DEF Reattaching
<1>4. CASE UNCHANGED vars
  <2>1. UNCHANGED <<procs, mem, rows, tasks, boot>> /\ SameCounts
    BY <1>4 DEF vars, SameCounts
  <2>2. Milder
    BY <2>1, SignalMild DEF Marks
  <2>3. \A s \in Sids : Stays(s) /\ ~(rows[s] # None /\ rows'[s] = None)
    BY <2>1 DEF Stays
  <2>4. UNCHANGED <<boot, tasks>> /\ mem'.files = mem.files /\ mem'.watched = mem.watched
    BY <2>1
  <2> QED BY <2>1, <2>2, <2>3, <2>4, OutsideStep
<1>5. ASSUME NEW p \in Pids, KernelUp(p) \/ Exit(p) \/ Reuse(p) \/ ExitEvent(p) PROVE Single'
  <2>1. CASE KernelUp(p) \/ Exit(p) \/ Reuse(p)
    BY <2>1, WorldSingle
  <2>2. CASE ExitEvent(p)
    BY <2>2, EndSingle
  <2> QED BY <1>5, <2>1, <2>2
<1>6. ASSUME NEW s \in Sids, Quiet(s) PROVE Single'
  BY <1>6, WorldSingle
<1>7. CASE AutoClean
  BY <1>7, WorldSingle
<1>8. CASE SweepLiveness
  BY <1>8, EndSingle
<1>9. CASE Crash
  BY <1>9, CrashSingle
<1>10. CASE Listen
  BY <1>10, ListenSingle
<1> QED BY <1>1, <1>2, <1>3, <1>4, <1>5, <1>6, <1>7, <1>8, <1>9, <1>10, Zenon DEF Next

\* A notebook that has a single process has one kernel, that of a session or a row.
LEMMA SingleIsOne ==
    ASSUME Typed, IInv, Tidy, Single
    PROVE  OneKernelPerFile
<1>1. ASSUME NEW f \in Files PROVE Cardinality({p \in Pids : Runs(p) /\ procs[p].file = f}) <= 1
  <2>1. PICK S : S = {p \in Pids : Runs(p) /\ procs[p].file = f}
    OBVIOUS
  <2>2. \A p, q \in S : p = q
    BY <2>1, GoingRuns DEF Single, Settled, OneProcess
  <2>3. CASE S = {}
    BY <2>1, <2>3, FS_EmptySet
  <2>4. ASSUME NEW p \in S PROVE Cardinality(S) <= 1
    <3>1. S = {p}
      BY <2>2
    <3>2. Cardinality({p}) = 1
      BY FS_Singleton, Zenon
    <3> QED BY <3>1, <3>2
  <2> QED BY <2>1, <2>3, <2>4
<1>2. ASSUME NEW p \in Pids, Runs(p) PROVE Accounted(p)
  <2>1. Homed(p)
    BY <1>2, GoingRuns DEF Single, Settled, Homes
  <2>2. \A s \in Sids : Old(s) => boot.phase # "up"
    BY DEF Old
  <2> QED BY <2>1, <2>2 DEF Homed, Accounted, Live
<1> QED BY <1>1, <1>2 DEF OneKernelPerFile

\* One notebook, one kernel: however requests, deaths and crashes interleave, no two
\* processes run for a notebook and each is that of a session or a row, as long as
\* no restart overlaps with another request about its session, no crash hits a kernel
\* that is starting, and no two kernels of a notebook are asked for, nor found.  A kernel
\* that was given up because ps did not answer is not counted.
THEOREM OneKernelEach == Spec => []OneKernelPerFile
<1> DEFINE Alright == past = {} => Tidy /\ Reads /\ Single
<1>1. Init => Alright
  BY TidyInit, ReadsInit, SingleInit
<1>2. Typed /\ Typed' /\ IInv /\ Alright /\ [Next]_vars => Alright'
  <2> SUFFICES ASSUME Typed, Typed', IInv, Alright, [Next]_vars, past' = {} PROVE Tidy' /\ Reads' /\ Single'
    OBVIOUS
  <2>1. past = {} /\ "raced" \notin past'
    BY RacesKept
  <2> QED BY <2>1, TidyStep, ReadsStep, SingleStep
<1>3. Typed /\ IInv /\ Alright => OneKernelPerFile
  BY SingleIsOne DEF OneKernelPerFile, Undisturbed
<1> QED BY <1>1, <1>2, <1>3, Invariance, PTL DEF Spec

=============================================================================
