--------------------------- MODULE KernelSessions ---------------------------
(***************************************************************************)
(* The kernel processes of a server and what the server knows about them   *)
(* (kernel-service.ts, session-store.ts): requests that get or create,     *)
(* start, stop and restart kernels, each a task with awaits in it; the     *)
(* exit event of a child and the sweep over reattached ones; the rows of   *)
(* the session store, a crash of the server, and the loop that reattaches  *)
(* the survivors while the new server already answers requests.            *)
(*                                                                         *)
(* Session ids and process ids are numbered in the order of creation.      *)
(***************************************************************************)
EXTENDS Naturals, FiniteSets

CONSTANTS
    Files,        \* notebooks
    Names,        \* kernel names
    Unregistered, \* those without a kernelspec on disk (env:<python>)
    MaxTasks,     \* bound on the requests that the server works on at the same time
    Requests,     \* the requests that are made
    PsFails,      \* whether ps may fail to answer in time
    MaxAsked,     \* bound on the requests made in a behaviour
    MaxSessions,  \* bound on the sessions created in a behaviour
    MaxProcs,     \* bound on the processes spawned
    MaxCrashes,   \* bound on the crashes of the server
    MaxReuse,     \* bound on the process ids that the system hands out again
    None          \* "no value"

AllRequests == {"create", "start", "stop", "restart", "clean"}

ASSUME RequestAssumption == Requests \subseteq AllRequests
ASSUME NameAssumption == Unregistered \subseteq Names
ASSUME FlagAssumption == PsFails \in BOOLEAN
ASSUME BoundAssumption ==
    /\ MaxTasks \in Nat /\ MaxAsked \in Nat /\ MaxSessions \in Nat /\ MaxProcs \in Nat
    /\ MaxCrashes \in Nat /\ MaxReuse \in Nat

VARIABLES
    procs,   \* the processes: what runs under each process id
    mem,     \* the maps of the service, lost in a crash
    rows,    \* the session store
    tasks,   \* the requests in progress
    boot,    \* the server's phase and the reattach loop: the sessions left to do,
             \* the rows as the loop read them, the session and the row it is at
    count,   \* requests, ids given, crashes and reuses so far
    past     \* history variable: overlaps that have happened so far

vars == <<procs, mem, rows, tasks, boot, count, past>>

Tasks == 1..MaxTasks
Sids == 1..MaxSessions
Pids == 1..MaxProcs

\* who asked a process to end; "missed": ps did not answer and the kernel was given
\* up; "taken": another program was taken for the kernel and its start time recorded
Marks == {"stop", "restart", "clean", "missed", "taken"}
StartTimes == {"none", "own", "other"}
Proc == [st : {"none", "booting", "up", "gone", "stranger"}, file : Files \cup {None},
         marks : SUBSET Marks]
Session == [status : {"starting", "ready", "dead"}, pid : 0..MaxProcs, file : Files,
            name : Names, quiet : BOOLEAN]
Memory == [sessions : [Sids -> Session \cup {None}], handle : [Sids -> 0..MaxProcs],
           sock : [Sids -> 0..MaxProcs], files : [Files -> 0..MaxSessions],
           watched : SUBSET Pids]
Row == [status : {"active", "orphaned", "terminated"}, pid : Pids, file : Files,
        name : Names, mine : BOOLEAN, time : StartTimes]
Task == [op : AllRequests, then : {"port", "end"}, sid : 0..MaxSessions, pid : 0..MaxProcs, file : Files, name : Names,
         pc : {"poll", "reap", "kill", "port", "boot", "stamp", "restart reap",
               "restart verify", "restart kill", "clean check", "clean kill", "clean delete"}]

NoRows == [s \in Sids |-> None]

ASSUME NoneAssumption == None \notin Session \cup Row \cup Task

TypeOK ==
    /\ procs \in [Pids -> Proc]
    /\ mem \in Memory
    /\ rows \in [Sids -> Row \cup {None}]
    /\ tasks \in [Tasks -> Task \cup {None}]
    /\ boot \in [phase : {"off", "listening", "reattaching", "up"}, left : SUBSET Sids,
                 read : [Sids -> Row \cup {None}], sid : 0..MaxSessions, row : Row \cup {None}]
    /\ count \in [asked : 0..MaxAsked, sids : 0..MaxSessions, pids : 0..MaxProcs,
                  crashes : 0..MaxCrashes, reused : 0..MaxReuse]
    /\ past \subseteq {"several", "raced", "lost"}

NoMemory ==
    [sessions |-> [s \in Sids |-> None], handle |-> [s \in Sids |-> 0],
     sock |-> [s \in Sids |-> 0], files |-> [f \in Files |-> 0], watched |-> {}]

Init ==
    /\ procs = [p \in Pids |-> [st |-> "none", file |-> None, marks |-> {}]]
    /\ mem = NoMemory
    /\ rows = NoRows
    /\ tasks = [t \in Tasks |-> None]
    /\ boot = [phase |-> "up", left |-> {}, read |-> NoRows, sid |-> 0, row |-> None]
    /\ count = [asked |-> 0, sids |-> 0, pids |-> 0, crashes |-> 0, reused |-> 0]
    /\ past = {}

-----------------------------------------------------------------------------
(* Processes, sessions and rows *)

\* process.kill(pid, 0): whatever runs under the id
Alive(p) == p # 0 /\ procs[p].st \in {"booting", "up", "stranger"}

\* whether a kernel of the server runs under the id
Kernel(p) == p # 0 /\ procs[p].st \in {"booting", "up"}
\* whether ps answers within its 500 ms
Answers == IF PsFails THEN BOOLEAN ELSE {TRUE}

\* getProcessStartTime: of whatever runs under the id, or null
StartTime(p, answered) ==
    CASE answered /\ Kernel(p) -> "own"
      [] answered /\ Alive(p) /\ ~Kernel(p) -> "other"
      [] OTHER -> "none"

\* Faulty variant: any process under the id will do.
Expected_AnyPid(p, time, answered) == Alive(p)
\* isExpectedKernelProcess: the start time is the one on record or, if there is none,
\* the command line is a kernel's
Expected(p, time, answered) ==
    /\ answered /\ Alive(p)
    /\ IF time = "other" THEN "taken" \in procs[p].marks ELSE Kernel(p)

Marked(p, mark) == [procs EXCEPT ![p].marks = @ \cup {mark}]
Missed(P) == [p \in Pids |-> IF p \in P /\ Kernel(p) THEN Marked(p, "missed")[p] ELSE procs[p]]
\* the processes when this start time of p has been recorded
Recognised(p, time) == IF time = "other" THEN Marked(p, "taken") ELSE procs

Signalled(p, who) ==
    IF Alive(p) THEN [procs EXCEPT ![p].marks = @ \cup {who}] ELSE procs
Killed(p, who) ==
    IF Alive(p) THEN [procs EXCEPT ![p].st = "gone", ![p].marks = @ \cup {who}] ELSE procs

Serving == boot.phase # "off"
Has(s) == s # 0 /\ mem.sessions[s] # None
Live(s) == Has(s) /\ mem.sessions[s].status # "dead"

\* a session leaves the maps; the entry of its file goes whatever it says
Forgotten(m, S) ==
    LET held == {s \in S : m.sessions[s] # None}
        without(g) == [s \in Sids |-> IF s \in S THEN 0 ELSE g[s]]
    IN [sessions |-> [s \in Sids |-> IF s \in S THEN None ELSE m.sessions[s]],
        handle |-> without(m.handle), sock |-> without(m.sock),
        files |-> [f \in Files |->
                     IF \E s \in held : m.sessions[s].file = f THEN 0 ELSE m.files[f]],
        watched |-> m.watched \ {m.handle[s] : s \in S}]

\* cleanupKernelResources: the maps, and the rows of the sessions that were in them
Cleaned(m, S) ==
    /\ mem' = Forgotten(m, S)
    /\ rows' = [s \in Sids |-> IF s \in S /\ m.sessions[s] # None THEN None ELSE rows[s]]

\* saveSession: insert or replace
Recorded(s, r) == [rows EXCEPT ![s] = r]

\* getDeadSessions of the store, without those alive in memory
DeadRows == {s \in Sids : rows[s] # None /\ rows[s].status # "active" /\ ~Live(s)}

\* autoCleanupDeadSessions: rows whose process is confirmed gone, heard being those
\* that ps answers about
Confirmed(s, answered) ==
    \/ ~Alive(rows[s].pid)
    \/ rows[s].time # "none" /\ ~Expected(rows[s].pid, rows[s].time, answered)
Deletable(heard) == {s \in DeadRows : Confirmed(s, s \in heard)}
Without(S) == [s \in Sids |-> IF s \in S THEN None ELSE rows[s]]
TimeOnRow(s) == IF rows[s] = None THEN "none" ELSE rows[s].time

-----------------------------------------------------------------------------
(* Requests *)

\* a request comes in; tasks are alike, it becomes the first one that is free
Idle(t) ==
    /\ Serving /\ count.asked < MaxAsked
    /\ tasks[t] = None /\ \A u \in 1..t - 1 : tasks[u] # None
Asks == count' = [count EXCEPT !.asked = @ + 1]
Ends(t) == tasks' = [tasks EXCEPT ![t] = None]
Goes(t, pc) == tasks' = [tasks EXCEPT ![t].pc = pc]
NewTask(op, pc, s, p, f, n) ==
    [op |-> op, then |-> "end", pc |-> pc, sid |-> s, pid |-> p, file |-> f, name |-> n]

\* Faulty variant: requests do not share a create.
InFlight_Forgotten(f) == FALSE
\* inflightKernelCreates: a later request awaits the promise of the first
InFlight(f) == \E t \in Tasks : tasks[t] # None /\ tasks[t].op = "create" /\ tasks[t].file = f

\* the overlap of a restart with another request, the sweep or the reattach loop
Overlaps(s, op) ==
    \/ \E t \in Tasks : /\ tasks[t] # None /\ tasks[t].sid = s
                        /\ "restart" \in {op, tasks[t].op}
    \/ op = "restart" /\ boot.sid = s
Notes(S) == past' = past \cup S
RacedIf(b) == IF b THEN {"raced"} ELSE {}
Early == IF boot.phase = "up" THEN {} ELSE {"several"}

\* the task after a stop: over, or ready to start the kernel of the other name
AfterStop(task) ==
    IF task.then = "port" THEN [task EXCEPT !.pc = "port", !.then = "end", !.sid = 0, !.pid = 0]
    ELSE None

\* stopKernel up to its sleep; a process that is not there is not waited for
StopBegins(t, task, s) ==
    LET h == mem.handle[s]
        p == mem.sessions[s].pid
        m == [mem EXCEPT !.sock[s] = 0, !.watched = @ \ {h}]
        Waits(pc, q) ==
            /\ mem' = m
            /\ tasks' = [tasks EXCEPT ![t] = [task EXCEPT !.pc = pc, !.sid = s, !.pid = q]]
            /\ UNCHANGED rows
    IN \/ /\ h # 0
          /\ procs' = IF Kernel(h) THEN Signalled(h, "stop") ELSE procs
          /\ Waits("reap", h)
       \/ /\ h = 0 /\ Alive(p)
          /\ procs' = Signalled(p, "stop")
          /\ Waits("kill", p)
       \/ /\ h = 0 /\ ~Alive(p)
          /\ Cleaned(m, {s})
          /\ tasks' = [tasks EXCEPT ![t] = AfterStop(task)]
          /\ UNCHANGED procs

\* stopKernel after its sleep.  A child that was sent SIGTERM counts as killed,
\* so SIGKILL goes only to processes that are known by their id alone.
StopEnds(t) ==
    LET task == tasks[t]
        m == IF task.pc = "reap" THEN [mem EXCEPT !.handle[task.sid] = 0] ELSE mem
    IN /\ task # None /\ task.pc \in {"reap", "kill"}
       /\ procs' = IF task.pc = "kill" THEN Killed(task.pid, "stop") ELSE procs
       /\ Cleaned(m, {task.sid})
       /\ tasks' = [tasks EXCEPT ![t] = AfterStop(task)]
       /\ UNCHANGED <<boot, count, past>>

Stop(t, s) ==
    /\ "stop" \in Requests /\ Idle(t) /\ Has(s)
    /\ StopBegins(t, NewTask("stop", "reap", s, 0, mem.sessions[s].file, mem.sessions[s].name), s)
    /\ Notes(RacedIf(Overlaps(s, "stop")))
    /\ Asks /\ UNCHANGED boot

\* the session getOrCreateKernel finds for a file: the mapped one, be it dead or
\* gone, or else any live one (0: none)
Found(f) ==
    IF mem.files[f] # 0 THEN {mem.files[f]}
    ELSE LET live == {s \in Sids : Live(s) /\ mem.sessions[s].file = f}
         IN IF live = {} THEN {0} ELSE live

\* getOrCreateKernelInternal up to its first await
GetOrCreate(t, f, n, s) ==
    LET task == NewTask("create", "port", 0, 0, f, n)
        session == mem.sessions[s]
        mapped == [mem EXCEPT !.files[f] = s]
        stuck == session.status = "starting" /\ session.quiet
    IN /\ "create" \in Requests /\ Idle(t) /\ ~InFlight(f) /\ s \in Found(f)
       /\ \/ /\ ~Live(s)
             /\ tasks' = [tasks EXCEPT ![t] = task]
             /\ UNCHANGED <<procs, mem, rows>>
          \/ /\ Live(s) /\ session.status = "starting" /\ ~session.quiet
             /\ mem' = mapped
             /\ tasks' = [tasks EXCEPT ![t] = [task EXCEPT !.pc = "poll", !.sid = s]]
             /\ UNCHANGED <<procs, rows>>
          \/ /\ Live(s) /\ (stuck \/ (session.status = "ready" /\ session.name # n))
             /\ StopBegins(t, [task EXCEPT !.then = "port"], s)
          \/ /\ Live(s) /\ session.status = "ready" /\ session.name = n
             /\ mem' = mapped
             /\ UNCHANGED <<procs, rows, tasks>>
       /\ Notes(Early \cup RacedIf(Overlaps(s, "create")))
       /\ Asks /\ UNCHANGED boot

\* the wait for a session that is starting: it is answered if it becomes ready or
\* is still starting in the end; if it went away, or has another name, a kernel is
\* started, and nothing stops the one of the other name
Polled(t) ==
    LET task == tasks[t]
        s == task.sid
    IN /\ task # None /\ task.pc = "poll"
       /\ \/ /\ Live(s)
             /\ \/ mem.sessions[s].status = "starting"
                \/ mem.sessions[s].name = task.name
             /\ Ends(t)
          \/ /\ Live(s) => mem.sessions[s].status = "ready" /\ mem.sessions[s].name # task.name
             /\ tasks' = [tasks EXCEPT ![t].pc = "port", ![t].sid = 0]
       /\ UNCHANGED <<procs, mem, rows, boot, count, past>>

\* POST /kernels/start starts a kernel without a look at the file's sessions
StartKernel(t, f, n) ==
    /\ "start" \in Requests /\ Idle(t)
    /\ tasks' = [tasks EXCEPT ![t] = NewTask("start", "port", 0, 0, f, n)]
    /\ Notes(Early \cup {"several"})
    /\ Asks /\ UNCHANGED <<procs, mem, rows, boot>>

-----------------------------------------------------------------------------
(* Starting a process *)

\* startKernel from the spawn to its first look at the new kernel
SpawnNew(t) ==
    LET task == tasks[t]
        p == count.pids + 1
        s == count.sids + 1
    IN /\ task # None /\ task.pc = "port" /\ task.op # "restart"
       /\ p \in Pids /\ s \in Sids
       /\ procs' = [procs EXCEPT ![p] = [st |-> "booting", file |-> task.file, marks |-> {}]]
       /\ mem' = [mem EXCEPT
                    !.sessions[s] = [status |-> "starting", pid |-> p, file |-> task.file,
                                     name |-> task.name, quiet |-> FALSE],
                    !.handle[s] = p, !.sock[s] = p, !.files[task.file] = s,
                    !.watched = @ \cup {p}]
       /\ tasks' = [tasks EXCEPT ![t].pc = "boot", ![t].sid = s, ![t].pid = p]
       /\ count' = [count EXCEPT !.pids = p, !.sids = s]
       /\ UNCHANGED <<rows, boot, past>>

\* restartKernel from the spawn; a session that was stopped meanwhile is not there
\* for waitForReady, and stopKernel does not find it either
SpawnAgain(t) ==
    LET task == tasks[t]
        p == count.pids + 1
        s == task.sid
        held == [mem EXCEPT !.handle[s] = p, !.watched = @ \cup {p}]
    IN /\ task # None /\ task.pc = "port" /\ task.op = "restart"
       /\ p \in Pids
       /\ procs' = [procs EXCEPT ![p] = [st |-> "booting", file |-> task.file, marks |-> {}]]
       /\ IF Has(s)
          THEN /\ mem' = [held EXCEPT !.sessions[s].pid = p, !.sessions[s].quiet = FALSE,
                                      !.sock[s] = p]
               /\ tasks' = [tasks EXCEPT ![t].pc = "boot", ![t].pid = p]
          ELSE mem' = held /\ Ends(t)
       /\ count' = [count EXCEPT !.pids = p]
       /\ UNCHANGED <<rows, boot, past>>

\* what the sockets of the session reach, whoever connected them
Responds(s) == Has(s) /\ mem.sock[s] # 0 /\ procs[mem.sock[s]].st = "up"

\* waitForReady: an answer to kernel_info_request
Booted(t) ==
    /\ tasks[t] # None /\ tasks[t].pc = "boot" /\ Responds(tasks[t].sid)
    /\ Goes(t, "stamp")
    /\ UNCHANGED <<procs, mem, rows, boot, count, past>>

\* waitForReady: the timeout; startKernel and restartKernel stop the session.  It
\* takes a minute: every other request is over by then, or waits for a kernel, too.
BootFails(t) ==
    LET s == tasks[t].sid
    IN /\ tasks[t] # None /\ tasks[t].pc = "boot" /\ ~Responds(s)
       /\ \A u \in Tasks : tasks[u] # None => tasks[u].pc = "boot"
       /\ IF Has(s) THEN StopBegins(t, tasks[t], s)
          ELSE Ends(t) /\ UNCHANGED <<procs, mem, rows>>
       /\ UNCHANGED <<boot, count, past>>

\* the start time was read: the row is saved, whether or not the session is still
\* there, and the session is idle
Stamped(t) ==
    LET task == tasks[t]
        s == task.sid
    IN /\ task # None /\ task.pc = "stamp"
       /\ \E answered \in Answers : LET time == StartTime(task.pid, answered) IN
            /\ rows' = Recorded(s, [status |-> "active", pid |-> task.pid, file |-> task.file,
                                    name |-> task.name, mine |-> TRUE, time |-> time])
            /\ procs' = Recognised(task.pid, time)
       /\ mem' = IF Has(s) THEN [mem EXCEPT !.sessions[s].status = "ready"] ELSE mem
       /\ Ends(t)
       /\ UNCHANGED <<boot, count, past>>

-----------------------------------------------------------------------------
(* Restart and clean-up *)

\* restartKernel up to its first await
Restart(t, s) ==
    LET session == mem.sessions[s]
        h == mem.handle[s]
        starting == [mem EXCEPT !.sessions[s].status = "starting", !.sock[s] = 0,
                                !.watched = @ \ {h}]
        pc == IF h # 0 THEN "restart reap" ELSE IF session.pid # 0 THEN "restart verify" ELSE "port"
    IN /\ "restart" \in Requests /\ Idle(t) /\ Has(s)
       /\ mem' = starting
       /\ procs' = IF Kernel(h) THEN Signalled(h, "restart") ELSE procs
       /\ tasks' = [tasks EXCEPT ![t] =
                       NewTask("restart", pc, s, IF h # 0 THEN h ELSE session.pid,
                               session.file, session.name)]
       /\ Notes(RacedIf(Overlaps(s, "restart")) \cup IF Live(s) THEN {} ELSE {"several"})
       /\ Asks /\ UNCHANGED <<rows, boot>>

DeclaredDead(s) == IF Has(s) THEN [mem EXCEPT !.sessions[s].status = "dead"] ELSE mem

\* a process known by its id only is checked first; the session is declared dead
\* also when ps does not answer
RestartVerified(t) ==
    LET task == tasks[t]
    IN /\ task # None /\ task.pc = "restart verify"
       /\ \E answered \in Answers :
            IF Expected(task.pid, TimeOnRow(task.sid), answered)
            THEN procs' = Signalled(task.pid, "restart") /\ Goes(t, "restart kill") /\ UNCHANGED mem
            ELSE /\ mem' = DeclaredDead(task.sid)
                 /\ procs' = IF answered THEN procs ELSE Missed({task.pid})
                 /\ Ends(t)
       /\ UNCHANGED <<rows, boot, count, past>>

\* the old process is given up; a name without a kernelspec cannot be started again
RestartKills(t) ==
    LET task == tasks[t]
        s == task.sid
        m == IF task.pc = "restart reap" THEN [mem EXCEPT !.handle[s] = 0]
             ELSE IF Has(s) THEN [mem EXCEPT !.sessions[s].pid = 0] ELSE mem
    IN /\ task # None /\ task.pc \in {"restart reap", "restart kill"}
       /\ procs' = IF task.pc = "restart kill" THEN Killed(task.pid, "restart") ELSE procs
       /\ IF task.name \in Unregistered
          THEN /\ mem' = IF Has(s) THEN [m EXCEPT !.sessions[s].status = "dead"] ELSE m
               /\ Ends(t)
          ELSE mem' = m /\ Goes(t, "port")
       /\ UNCHANGED <<rows, boot, count, past>>

\* cleanupDeadSessions of one row, up to the check of its process
CleanDead(t, s) ==
    LET row == rows[s]
    IN /\ "clean" \in Requests /\ Idle(t) /\ s \in DeadRows
       /\ IF Alive(row.pid)
          THEN /\ tasks' = [tasks EXCEPT ![t] =
                               NewTask("clean", "clean check", s, row.pid, row.file, row.name)]
               /\ UNCHANGED rows
          ELSE rows' = [rows EXCEPT ![s] = None] /\ UNCHANGED tasks
       /\ Notes(IF boot.phase = "up" THEN {} ELSE {"raced"})
       /\ Asks /\ UNCHANGED <<procs, mem, boot>>

CleanChecked(t) ==
    LET task == tasks[t]
    IN /\ task # None /\ task.pc = "clean check"
       /\ \E answered \in Answers :
            IF Expected(task.pid, TimeOnRow(task.sid), answered)
            THEN procs' = Signalled(task.pid, "clean") /\ Goes(t, "clean kill")
            ELSE Ends(t) /\ UNCHANGED procs
       /\ UNCHANGED <<mem, rows, boot, count, past>>

CleanEnds(t) ==
    LET task == tasks[t]
    IN /\ task # None /\ task.pc \in {"clean kill", "clean delete"}
       /\ procs' = IF task.pc = "clean kill" THEN Killed(task.pid, "clean") ELSE procs
       /\ rows' = [rows EXCEPT ![task.sid] = None]
       /\ Ends(t)
       /\ UNCHANGED <<mem, boot, count, past>>

\* GET /kernels/dead: the rows whose process id is free go at once ...
AutoClean ==
    LET gone == {s \in DeadRows : ~Alive(rows[s].pid)}
    IN /\ "clean" \in Requests /\ Serving /\ gone # {}
       /\ rows' = Without(gone)
       /\ UNCHANGED <<procs, mem, tasks, boot, count, past>>

\* ... and a row that ps is asked about later, once it has not confirmed the kernel
AutoCheck(t, s) ==
    LET row == rows[s]
    IN /\ "clean" \in Requests /\ Idle(t) /\ s \in DeadRows /\ Alive(row.pid)
       /\ \E answered \in Answers :
            /\ Confirmed(s, answered)
            /\ procs' = IF answered THEN procs ELSE Missed({row.pid})
       /\ tasks' = [tasks EXCEPT ![t] =
                       NewTask("clean", "clean delete", s, row.pid, row.file, row.name)]
       /\ Notes(IF boot.phase = "up" THEN {} ELSE {"raced"})
       /\ Asks /\ UNCHANGED <<mem, rows, boot>>

-----------------------------------------------------------------------------
(* Processes *)

KernelUp(p) ==
    /\ procs[p].st = "booting"
    /\ procs' = [procs EXCEPT ![p].st = "up"]
    /\ UNCHANGED <<mem, rows, tasks, boot, count, past>>

\* a kernel ends, by itself or after a signal
Exit(p) ==
    /\ procs[p].st \in {"booting", "up"}
    /\ procs' = [procs EXCEPT ![p].st = "gone"]
    /\ UNCHANGED <<mem, rows, tasks, boot, count, past>>

\* the system gives the process id to another program
Reuse(p) ==
    /\ procs[p].st = "gone" /\ count.reused < MaxReuse
    /\ procs' = [procs EXCEPT ![p] = [st |-> "stranger", file |-> None, marks |-> {}]]
    /\ count' = [count EXCEPT !.reused = @ + 1]
    /\ UNCHANGED <<mem, rows, tasks, boot, past>>

\* onExit: only the process that the session still has is taken notice of
ExitEvent(p) ==
    LET of == {s \in Sids : mem.handle[s] = p}
    IN /\ p \in mem.watched /\ ~Kernel(p)
       /\ Cleaned([mem EXCEPT !.watched = @ \ {p}], of)
       /\ UNCHANGED <<procs, tasks, boot, count, past>>

\* Faulty variant: the sweep looks at children only.
Swept_Children ==
    {s \in Sids : Live(s) /\ mem.handle[s] # 0 /\ ~Alive(mem.sessions[s].pid)}
\* sweepLiveness: sessions without a child whose process id is free
Swept == {s \in Sids : /\ Live(s) /\ mem.handle[s] = 0
                       /\ mem.sessions[s].pid # 0 /\ ~Alive(mem.sessions[s].pid)}
SweepLiveness ==
    /\ Serving /\ Swept # {}
    /\ Cleaned(mem, Swept)
    /\ Notes(RacedIf(\E s \in Swept : Overlaps(s, "sweep")))
    /\ UNCHANGED <<procs, tasks, boot, count>>

\* two minutes without a run
Quiet(s) ==
    /\ Has(s) /\ mem.sessions[s].status = "ready" /\ ~mem.sessions[s].quiet
    /\ mem' = [mem EXCEPT !.sessions[s].quiet = TRUE]
    /\ UNCHANGED <<procs, rows, tasks, boot, count, past>>

-----------------------------------------------------------------------------
(* Crash, start and reattachment *)

\* kernels and rows survive; a process whose row was not written is lost
Crash ==
    /\ Serving /\ count.crashes < MaxCrashes
    /\ mem' = NoMemory
    /\ tasks' = [t \in Tasks |-> None]
    /\ rows' = [s \in Sids |-> IF rows[s] = None THEN None ELSE [rows[s] EXCEPT !.mine = FALSE]]
    /\ boot' = [phase |-> "off", left |-> {}, read |-> NoRows, sid |-> 0, row |-> None]
    /\ count' = [count EXCEPT !.crashes = @ + 1]
    /\ Notes(IF \E t \in Tasks : tasks[t] # None /\ tasks[t].pc \in {"boot", "stamp"}
             THEN {"lost"} ELSE {})
    /\ UNCHANGED procs

\* requests are served before the kernels are reattached
Listen ==
    /\ boot.phase = "off"
    /\ boot' = [boot EXCEPT !.phase = "listening"]
    /\ UNCHANGED <<procs, mem, rows, tasks, count, past>>

\* markAllOrphaned: active rows of another instance
Orphaned(r) ==
    IF r # None /\ r.status = "active" /\ ~r.mine THEN [r EXCEPT !.status = "orphaned"] ELSE r

ReattachBegins ==
    /\ boot.phase = "listening"
    /\ rows' = [s \in Sids |-> Orphaned(rows[s])]
    /\ boot' = [phase |-> "reattaching", sid |-> 0, row |-> None, read |-> rows',
                left |-> {s \in Sids : rows'[s] # None /\ rows'[s].status = "orphaned"}]
    /\ UNCHANGED <<procs, mem, tasks, count, past>>

\* Faulty variant: the status of a session in the row of one.
Terminated_Dead(s) ==
    IF rows[s] = None THEN rows ELSE [rows EXCEPT ![s].status = "dead"]
\* updateStatus
Terminated(s) ==
    IF rows[s] = None THEN rows ELSE [rows EXCEPT ![s].status = "terminated"]

\* Faulty variant: without a start time the kernel is given up.
Lost_Unknown(r, answered) ==
    r.time = "none" \/ ~Alive(r.pid) \/ ~Expected(r.pid, r.time, answered)
\* the process of the row is gone, or its start time is that of another program or
\* cannot be read
Lost(r, answered) ==
    ~Alive(r.pid) \/ (r.time # "none" /\ ~Expected(r.pid, r.time, answered))

\* other kernels of the notebook of a row: in memory, or to be reattached
Rivals(s) ==
    LET live == {q \in Sids : Live(q) /\ mem.sessions[q].file = boot.read[s].file}
        waiting == {q \in boot.left \ {s} :
                       ~Lost(boot.read[q], TRUE) /\ boot.read[q].file = boot.read[s].file}
    IN live \cup waiting

\* the next row, as it was read: given up, or entered into the maps and asked for a
\* sign of life
ReattachNext(s) ==
    LET r == boot.read[s]
        GivenUp(answered) ==
            /\ rows' = Terminated(s)
            /\ boot' = [boot EXCEPT !.left = @ \ {s}]
            /\ procs' = IF answered THEN procs ELSE Missed({r.pid})
            /\ UNCHANGED <<mem, past>>
        Entered ==
            /\ mem' = [mem EXCEPT
                         !.sessions[s] = [status |-> "starting", pid |-> r.pid,
                                          file |-> r.file, name |-> r.name, quiet |-> FALSE],
                         !.files[r.file] = s, !.sock[s] = r.pid]
            /\ boot' = [boot EXCEPT !.left = @ \ {s}, !.sid = s, !.row = r]
            /\ Notes(IF Rivals(s) = {} THEN {} ELSE {"several"})
            /\ UNCHANGED <<procs, rows>>
    IN /\ boot.phase = "reattaching" /\ boot.sid = 0 /\ s \in boot.left
       /\ \E answered \in Answers : IF Lost(r, answered) THEN GivenUp(answered) ELSE Entered
       /\ UNCHANGED <<tasks, count>>

\* it answered, or did not but its process id is in use: taken for busy
ReattachEnds ==
    LET s == boot.sid
        r == boot.row
    IN /\ boot.phase = "reattaching" /\ s # 0
       /\ IF Responds(s) \/ Alive(r.pid)
          THEN /\ \E answered \in Answers :
                    LET time == IF r.time # "none" THEN r.time ELSE StartTime(r.pid, answered)
                    IN /\ rows' = Recorded(s, [r EXCEPT !.status = "active", !.mine = TRUE, !.time = time])
                       /\ procs' = IF r.time # "none" THEN procs ELSE Recognised(r.pid, time)
               /\ mem' = IF Has(s) THEN [mem EXCEPT !.sessions[s].status = "ready"] ELSE mem
          ELSE mem' = Forgotten(mem, {s}) /\ rows' = Terminated(s) /\ UNCHANGED procs
       /\ boot' = [boot EXCEPT !.sid = 0, !.row = None]
       /\ UNCHANGED <<tasks, count, past>>

ReattachDone ==
    /\ boot.phase = "reattaching" /\ boot.sid = 0 /\ boot.left = {}
    /\ \E heard \in (IF PsFails THEN SUBSET Sids ELSE {Sids}) :
         /\ rows' = Without(Deletable(heard))
         /\ procs' = Missed({rows[s].pid : s \in Deletable(heard) \ heard})
    /\ boot' = [boot EXCEPT !.phase = "up", !.read = NoRows]
    /\ UNCHANGED <<mem, tasks, count, past>>

-----------------------------------------------------------------------------
TaskStep(t) ==
    \/ StopEnds(t) \/ Polled(t) \/ SpawnNew(t) \/ SpawnAgain(t)
    \/ Booted(t) \/ BootFails(t) \/ Stamped(t)
    \/ RestartVerified(t) \/ RestartKills(t) \/ CleanChecked(t) \/ CleanEnds(t)

Asked(t) ==
    \/ \E s \in Sids : Stop(t, s) \/ Restart(t, s) \/ CleanDead(t, s) \/ AutoCheck(t, s)
    \/ \E f \in Files, n \in Names :
          StartKernel(t, f, n) \/ \E s \in 0..MaxSessions : GetOrCreate(t, f, n, s)

Reattaching ==
    ReattachBegins \/ (\E s \in Sids : ReattachNext(s)) \/ ReattachEnds \/ ReattachDone

Next ==
    \/ \E t \in Tasks : Asked(t) \/ TaskStep(t)
    \/ \E p \in Pids : KernelUp(p) \/ Exit(p) \/ Reuse(p) \/ ExitEvent(p)
    \/ \E s \in Sids : Quiet(s)
    \/ AutoClean \/ SweepLiveness
    \/ Crash \/ Listen \/ Reattaching

Spec == Init /\ [][Next]_vars

-----------------------------------------------------------------------------
(* Properties *)

\* A kernel runs that was not told to end, nor given up because ps did not answer: that
\* leaves a process without a row (reattach loop, clean-up) or with a dead session (restart).
Runs(p) == Kernel(p) /\ procs[p].marks = {}
Undisturbed == past = {}

\* One notebook, one kernel: however creates, stops, changes of the kernel,
\* deaths and crashes interleave, no two processes run for one file, provided no
\* restart overlaps with another request about its session, nothing is asked
\* before the kernels are reattached, no crash hits a kernel that is starting,
\* nobody starts a kernel directly, be it anew or by a restart of a dead session, and
\* no two kernels of a notebook are there to be reattached (a restart that fails
\* leaves the row of its session, which the next server finds beside that of the
\* notebook's new session).  A kernel that was given up because ps did not answer is
\* not counted: it runs on, and a create starts a second one beside it.
\* And no process is left to itself: a running kernel is that of a session in memory
\* or, until the new server has reattached, of a row of the store.
Accounted(p) ==
    \/ \E s \in Sids : Has(s) /\ mem.sessions[s].pid = p
    \/ boot.phase # "up" /\ \E s \in Sids : rows[s] # None /\ rows[s].pid = p
OneKernelPerFile == Undisturbed =>
    /\ \A f \in Files : Cardinality({p \in Pids : Runs(p) /\ procs[p].file = f}) <= 1
    /\ \A p \in Pids : Runs(p) => Accounted(p)

\* The same whatever overlaps, as long as no crash hits a kernel that is starting.
OneKernel ==
    "lost" \notin past => \A f \in Files : Cardinality({p \in Pids : Runs(p) /\ procs[p].file = f}) <= 1

\* A session that answers and that no request works on has a row from which the
\* next server can reattach its process, unless a restart has overlapped with
\* another request about its session, or a clean-up met a row that was just being
\* reattached.  And a kernel that survives a crash, was not given up because ps did
\* not answer and has a row is the kernel of a session again when the loop has ended.
ReadyIsRecorded ==
    "raced" \notin past => \A s \in Sids :
        /\ Has(s) /\ mem.sessions[s].status = "ready"
           /\ (\A t \in Tasks : tasks[t] # None => tasks[t].sid # s)
           => rows[s] # None /\ rows[s].status = "active" /\ rows[s].pid = mem.sessions[s].pid
        /\ boot.phase = "up" /\ rows[s] # None /\ Runs(rows[s].pid)
           => Has(s) /\ mem.sessions[s].pid = rows[s].pid

\* No restart and no clean-up asks a program that got the process id of a kernel to
\* end; a stop, which does not check, is the exception, and so is a program whose start
\* time a reattach that had none on record has taken for the kernel's
\* (kernel-service.ts:526).  (The kill that follows 500 ms after that first signal is not
\* checked again, kernel-service.ts:2194; a program that got the id meanwhile is gone
\* then, and this says nothing of it.)
StrangersSpared ==
    \A p \in Pids : procs[p].st = "stranger" =>
        procs[p].marks \subseteq {"stop"} \/ "taken" \in procs[p].marks

\* A session whose kernel has ended does not go on as idle or busy: its exit event
\* is on the way, or the sweep will find it, or a request is about to stop it,
\* also when a racing request has taken its handle away.  The sweep only asks whether
\* the process id is in use: where another program has got the id of a reattached
\* kernel, it never notices (Masked).
Bereft(s) ==
    Has(s) /\ mem.sessions[s].status = "ready" /\ mem.sessions[s].pid # 0 /\ ~Kernel(mem.sessions[s].pid)
Masked(s) == mem.handle[s] = 0 /\ procs[mem.sessions[s].pid].st = "stranger"
DeathIsNoticed ==
    \A s \in Sids : Bereft(s) =>
        \/ mem.handle[s] = mem.sessions[s].pid /\ mem.handle[s] \in mem.watched
        \/ s \in Swept \/ Masked(s)
        \/ \E t \in Tasks : tasks[t] # None /\ tasks[t].sid = s

=============================================================================
