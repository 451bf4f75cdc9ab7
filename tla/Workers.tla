------------------------------- MODULE Workers -------------------------------
(***************************************************************************)
(* Worker sessions: WorkerManager (workers/manager.py) and the endpoints   *)
(* that call it (api/workers.py).                                          *)
(*                                                                         *)
(* A worker is a row of the workers table and a tmux session, which        *)
(* outlives the backend.  Each request reads the row, talks to tmux, and   *)
(* writes the row without looking at it again; between two steps any other *)
(* request on the same worker may pass.  A start names a worker that no    *)
(* request knows before its row is inserted.  Workers have a conversation, *)
(* so that audits are emitted; of these the log keeps the three that say   *)
(* how a worker began and ended.                                           *)
(***************************************************************************)
EXTENDS Naturals, Sequences, FiniteSets

CONSTANTS
    Workers, NoWorker,
    Names, NoName,
    Handlers,       \* requests, each served at most once (a bound)
    Boot,           \* reconcile_on_startup
    MaxFaults,      \* bound: commands to tmux that time out or fail
    MaxCrashes      \* bound: ends of the backend

ASSUME WorkersAssumption ==
    /\ NoWorker \notin Workers
    /\ NoName \notin Names
    /\ Boot \notin Handlers
    /\ MaxFaults \in Nat
    /\ MaxCrashes \in Nat

VARIABLES
    status,         \* workers.status, "absent" before the row exists
    name,           \* workers.name
    session,        \* the tmux session
    log,            \* a worker's audit events
    server,         \* "up", "down", or "booting"
    todo,           \* rows reconcile_on_startup has still to visit
    req,            \* the requests and the reconciliation, with their locals
    faults, crashes,
    met,            \* history: workers on which two requests overlapped
    faulted,        \* history: workers about which tmux failed to answer
    cut             \* history: workers whose end a crash left unannounced

rows == <<status, name>>
history == <<met, faulted, cut>>
vars == <<rows, session, log, server, todo, req, faults, crashes, history>>

Processes == Handlers \cup {Boot}
Ops == {"none", "start", "stop", "kill", "look", "rename", "boot"}
Places == {"idle", "insert", "create", "await", "lateProbe", "probe",
           "setRunning", "tellStarted", "fail", "setFailed", "tellFailed",
           "kill", "setStopping", "setStopped", "tellStopped", "setName", "done"}

Live == {"starting", "running", "stopping"}
Ended == {"stopped", "failed"}

Request(op, pc, w, n) == [op |-> op, pc |-> pc, worker |-> w, name |-> n]
Rest(p) == Request("none", IF p = Boot THEN "idle" ELSE "done", NoWorker, NoName)

Init ==
    /\ status = [w \in Workers |-> "absent"]
    /\ name = [w \in Workers |-> NoName]
    /\ session = [w \in Workers |-> "none"]
    /\ log = [w \in Workers |-> <<>>]
    /\ server = "up"
    /\ todo = {}
    /\ req = [p \in Processes |-> Request("none", "idle", NoWorker, NoName)]
    /\ faults = 0
    /\ crashes = 0
    /\ met = {}
    /\ faulted = {}
    /\ cut = {}

InFlight(p) == req[p].pc \notin {"idle", "done"}
At(p, pc) == req[p].pc = pc
Goto(p, pc) ==
    req' = [req EXCEPT ![p] = IF pc = "done" THEN Rest(p) ELSE [@ EXCEPT !.pc = pc]]

\* A command to tmux, or the ssh that carries it, fails or times out although
\* the session is there.
Fault(w) ==
    /\ faults < MaxFaults
    /\ faults' = faults + 1
    /\ faulted' = faulted \cup {w}
NoFault == UNCHANGED <<faults, faulted>>

(***************************************************************************)
(* Requests begin: the row, or the name, is read.                          *)
(***************************************************************************)
Naming == {"start", "rename"}

\* The requests under way that request op on worker w overlaps with: those on
\* the same worker and, for the choice of a name, any other that chooses one.
Others(op, w) ==
    {g \in Handlers : InFlight(g)
        /\ (req[g].worker = w \/ (op \in Naming /\ req[g].op \in Naming))}

Begin(h, op, pc, w, n) ==
    /\ server = "up"
    /\ At(h, "idle")
    /\ req' = [req EXCEPT ![h] = Request(op, pc, w, n)]
    /\ met' = met \cup (IF Others(op, w) = {} THEN {}
                        ELSE {w} \cup {req[g].worker : g \in Others(op, w)})
    /\ UNCHANGED <<rows, session, log, server, todo, faults, crashes, faulted, cut>>

\* Mutant: only the names of workers that are starting are taken.
NameFreeOfStarting(n, w) ==
    \A v \in Workers \ {w} : name[v] = n => status[v] # "starting"

NameFree(n, w) ==
    \A v \in Workers \ {w} : name[v] = n => status[v] \notin {"running", "starting"}

BeginStart(h, w, n) ==
    /\ status[w] = "absent"
    /\ \A g \in Handlers : req[g].worker # w
    /\ NameFree(n, w)
    /\ Begin(h, "start", "insert", w, n)

\* Mutant: stop does not test the status.
BeginStopAny(h, w) ==
    /\ status[w] # "absent"
    /\ Begin(h, "stop", "probe", w, NoName)

BeginStop(h, w) ==
    /\ status[w] \in {"running", "starting"}
    /\ Begin(h, "stop", "probe", w, NoName)

\* Mutant: kill does not test the status.
BeginKillAgain(h, w) ==
    /\ status[w] # "absent"
    /\ Begin(h, "kill", "kill", w, NoName)

BeginKill(h, w) ==
    /\ status[w] \notin {"absent", "stopped", "failed"}
    /\ Begin(h, "kill", "kill", w, NoName)

\* refresh_status, and prepare_pty, which looks at running workers only.
BeginLook(h, w) ==
    /\ status[w] \in Live
    /\ Begin(h, "look", "probe", w, NoName)

BeginRename(h, w, n) ==
    /\ status[w] # "absent"
    /\ NameFree(n, w)
    /\ Begin(h, "rename", "setName", w, n)

(***************************************************************************)
(* Steps of a request p on its worker w.                                   *)
(***************************************************************************)
InsertWorker(p, w) ==
    /\ At(p, "insert")
    /\ status' = [status EXCEPT ![w] = "starting"]
    /\ name' = [name EXCEPT ![w] = req[p].name]
    /\ Goto(p, "create")
    /\ NoFault
    /\ UNCHANGED <<session, log>>

CreateSession(p, w) ==
    /\ At(p, "create")
    /\ session' = [session EXCEPT ![w] = "creating"]
    /\ Goto(p, "await")
    /\ NoFault
    /\ UNCHANGED <<rows, log>>

CommandReturns(p, w) ==
    /\ At(p, "await")
    /\ session[w] # "creating"
    /\ Goto(p, "probe")
    /\ NoFault
    /\ UNCHANGED <<rows, session, log>>

\* A returncode other than 0, or an exception.  Over ssh the session may be there
\* all the same.
CommandFails(p, w) ==
    /\ At(p, "await")
    /\ \/ session[w] = "creating" /\ session' = [session EXCEPT ![w] = "gone"] /\ NoFault
       \/ session[w] = "alive" /\ Fault(w) /\ UNCHANGED session
    /\ Goto(p, "fail")
    /\ UNCHANGED <<rows, log>>

\* The command is not killed: the session may still come up.
CommandTimesOut(p, w) ==
    /\ At(p, "await")
    /\ Fault(w)
    /\ Goto(p, "lateProbe")
    /\ UNCHANGED <<rows, session, log>>

\* Mutant: the reconciliation leaves a row that is starting as it is.
AfterProbeKeeping(p, w, alive) ==
    CASE req[p].op = "start" -> IF ~alive THEN "fail"
                                ELSE IF At(p, "lateProbe") THEN "probe" ELSE "setRunning"
      [] req[p].op = "stop"  -> IF alive THEN "setStopping" ELSE "setStopped"
      [] OTHER               -> IF alive THEN "done" ELSE "setStopped"

AfterProbe(p, w, alive) ==
    CASE req[p].op = "start" -> IF ~alive THEN "fail"
                                ELSE IF At(p, "lateProbe") THEN "probe" ELSE "setRunning"
      [] req[p].op = "stop"  -> IF alive THEN "setStopping" ELSE "setStopped"
      [] req[p].op = "look"  -> IF alive THEN "done" ELSE "setStopped"
      [] OTHER               -> IF ~alive THEN "setStopped"
                                ELSE IF status[w] = "starting" THEN "setRunning" ELSE "done"

\* _session_alive, which takes a failure for a session that is gone.
Probe(p, w) ==
    /\ req[p].pc \in {"probe", "lateProbe"}
    /\ \/ NoFault /\ Goto(p, AfterProbe(p, w, session[w] = "alive"))
       \/ session[w] = "alive" /\ Fault(w) /\ Goto(p, AfterProbe(p, w, FALSE))
    /\ UNCHANGED <<rows, session, log>>

SetRunning(p, w) ==
    /\ At(p, "setRunning")
    /\ status' = [status EXCEPT ![w] = "running"]
    /\ Goto(p, IF p = Boot THEN "done" ELSE "tellStarted")
    /\ NoFault
    /\ UNCHANGED <<name, session, log>>

\* _mark_failed reads the row first.
CheckFailed(p, w) ==
    /\ At(p, "fail")
    /\ Goto(p, IF status[w] \in Ended THEN "done" ELSE "setFailed")
    /\ NoFault
    /\ UNCHANGED <<rows, session, log>>

SetFailed(p, w) ==
    /\ At(p, "setFailed")
    /\ status' = [status EXCEPT ![w] = "failed"]
    /\ Goto(p, "tellFailed")
    /\ NoFault
    /\ UNCHANGED <<name, session, log>>

\* Mutant: kill only writes the row.
KillRow(p, w) ==
    /\ At(p, "kill")
    /\ Goto(p, "setStopped")
    /\ NoFault
    /\ UNCHANGED <<rows, session, log>>

KillSession(p, w) ==
    /\ At(p, "kill")
    /\ \/ NoFault /\ session' = [session EXCEPT ![w] = IF @ = "alive" THEN "gone" ELSE @]
       \/ session[w] = "alive" /\ Fault(w) /\ UNCHANGED session
    /\ Goto(p, "setStopped")
    /\ UNCHANGED <<rows, log>>

SetStopping(p, w) ==
    /\ At(p, "setStopping")
    /\ status' = [status EXCEPT ![w] = "stopping"]
    /\ Goto(p, "done")
    /\ NoFault
    /\ UNCHANGED <<name, session, log>>

\* Mutant: the end is not announced.
SetStoppedSilently(p, w) ==
    /\ At(p, "setStopped")
    /\ status' = [status EXCEPT ![w] = "stopped"]
    /\ Goto(p, "done")
    /\ NoFault
    /\ UNCHANGED <<name, session, log>>

\* _mark_stopped tests the status that its caller read, never an ended one.
SetStopped(p, w) ==
    /\ At(p, "setStopped")
    /\ status' = [status EXCEPT ![w] = "stopped"]
    /\ Goto(p, "tellStopped")
    /\ NoFault
    /\ UNCHANGED <<name, session, log>>

SetName(p, w) ==
    /\ At(p, "setName")
    /\ name' = [name EXCEPT ![w] = req[p].name]
    /\ Goto(p, "done")
    /\ NoFault
    /\ UNCHANGED <<status, session, log>>

Told == [tellStarted |-> "started", tellStopped |-> "finished", tellFailed |-> "failed"]

Audit(p, w) ==
    /\ req[p].pc \in DOMAIN Told
    /\ log' = [log EXCEPT ![w] = Append(@, Told[req[p].pc])]
    /\ Goto(p, "done")
    /\ NoFault
    /\ UNCHANGED <<rows, session>>

Step(p) ==
    LET w == req[p].worker
    IN  /\ \/ InsertWorker(p, w) \/ CreateSession(p, w)
           \/ CommandReturns(p, w) \/ CommandFails(p, w) \/ CommandTimesOut(p, w)
           \/ Probe(p, w) \/ SetRunning(p, w) \/ CheckFailed(p, w) \/ SetFailed(p, w)
           \/ KillSession(p, w) \/ SetStopping(p, w) \/ SetStopped(p, w)
           \/ SetName(p, w) \/ Audit(p, w)
        /\ UNCHANGED <<server, todo, crashes, met, cut>>

(***************************************************************************)
(* tmux, and the backend that ends and starts again.                       *)
(***************************************************************************)
SessionUp(w) ==
    /\ session[w] = "creating"
    /\ session' = [session EXCEPT ![w] = "alive"]
    /\ UNCHANGED <<rows, log, server, todo, req, faults, crashes, history>>

\* The program in the session ends, of itself or on the keys stop sends.
SessionExits(w) ==
    /\ session[w] = "alive"
    /\ session' = [session EXCEPT ![w] = "gone"]
    /\ UNCHANGED <<rows, log, server, todo, req, faults, crashes, history>>

\* A command to create a session has run to its end before the backend is back.
Crash ==
    /\ server # "down"
    /\ crashes < MaxCrashes
    /\ crashes' = crashes + 1
    /\ server' = "down"
    /\ todo' = {}
    /\ req' = [p \in Processes |-> IF InFlight(p) THEN Rest(p) ELSE req[p]]
    /\ cut' = cut \cup {req[p].worker : p \in {q \in Processes :
                                                 req[q].pc \in {"tellStopped", "tellFailed"}}}
    /\ \E up \in SUBSET {w \in Workers : session[w] = "creating"} :
           session' = [w \in Workers |-> IF w \in up THEN "alive"
                                         ELSE IF session[w] = "creating" THEN "gone"
                                         ELSE session[w]]
    /\ UNCHANGED <<rows, log, faults, met, faulted>>

ReadRows ==
    /\ server = "down"
    /\ server' = "booting"
    /\ todo' = {w \in Workers : status[w] \in Live}
    /\ UNCHANGED <<rows, session, log, req, faults, crashes, history>>

Reconcile(w) ==
    /\ server = "booting"
    /\ At(Boot, "idle")
    /\ w \in todo
    /\ todo' = todo \ {w}
    /\ req' = [req EXCEPT ![Boot] = Request("boot", "probe", w, NoName)]
    /\ UNCHANGED <<rows, session, log, server, faults, crashes, history>>

\* Mutant: the reconciliation is not awaited.
ServeEarly ==
    /\ server = "booting"
    /\ server' = "up"
    /\ UNCHANGED <<rows, session, log, todo, req, faults, crashes, history>>

Serve ==
    /\ server = "booting"
    /\ todo = {}
    /\ At(Boot, "idle")
    /\ server' = "up"
    /\ UNCHANGED <<rows, session, log, todo, req, faults, crashes, history>>

Next ==
    \/ \E h \in Handlers, w \in Workers :
           \/ BeginStop(h, w) \/ BeginKill(h, w) \/ BeginLook(h, w)
           \/ \E n \in Names : BeginStart(h, w, n) \/ BeginRename(h, w, n)
    \/ \E p \in Processes : Step(p)
    \/ \E w \in Workers : SessionUp(w) \/ SessionExits(w) \/ Reconcile(w)
    \/ Crash \/ ReadRows \/ Serve

Spec == Init /\ [][Next]_vars

(***************************************************************************)
(* Properties                                                              *)
(***************************************************************************)
\* Every variable keeps its type, and only the reconciliation works during a boot
\* (main.py starts to serve after reconcile_on_startup has returned).
TypeOK ==
    /\ status \in [Workers -> {"absent"} \cup Live \cup Ended]
    /\ name \in [Workers -> Names \cup {NoName}]
    /\ session \in [Workers -> {"none", "creating", "alive", "gone"}]
    /\ log \in [Workers -> Seq({"started", "finished", "failed"})]
    /\ server \in {"up", "down", "booting"}
    /\ todo \subseteq Workers
    /\ req \in [Processes -> [op : Ops, pc : Places, worker : Workers \cup {NoWorker},
                              name : Names \cup {NoName}]]
    /\ \A p \in Processes : InFlight(p) =>
           req[p].worker \in Workers /\ (server = "up" <=> p # Boot) /\ server # "down"
    /\ faults \in 0 .. MaxFaults
    /\ crashes \in 0 .. MaxCrashes
    /\ met \subseteq Workers
    /\ faulted \subseteq Workers
    /\ cut \subseteq Workers

\* The worker w is left alone by whoever may have looked at it while it was live.
Untouched(w) ==
    /\ w \notin todo
    /\ \A p \in Processes : req[p].worker = w => req[p].op = "rename"

\* A worker whose row says it ended has no tmux session, nor will it get one,
\* unless requests overlapped on it or tmux did not answer: whatever order of
\* start, stop, kill, refresh and reconciliation brought it there, over crashes.
EndedIsDead ==
    \A w \in Workers \ (met \cup faulted) :
        status[w] \in Ended => session[w] \notin {"creating", "alive"}

\* The audits tell a life in order and its end once, unless requests overlapped:
\* neither a crash nor a command that failed makes the backend announce an end
\* again, or announce a start after it.
AuditsTellOneLife ==
    \A w \in Workers \ met : \A i, j \in DOMAIN log[w] : i < j => log[w][i] = "started"

\* A row that says its worker ended was announced, or is about to be, or the
\* backend died in between.
EndIsAnnounced ==
    \A w \in Workers : status[w] \in Ended =>
        \/ \E i \in DOMAIN log[w] : log[w][i] \in {"finished", "failed"}
        \/ \E p \in Processes : req[p].worker = w /\ req[p].pc \in {"tellStopped", "tellFailed"}
        \/ w \in cut

\* No two workers that are starting or running share a name, unless the requests
\* that chose the names, or others on these workers, overlapped.
UniqueNames ==
    \A v, w \in Workers \ met :
        /\ v # w
        /\ {status[v], status[w]} \subseteq {"running", "starting"}
        => name[v] # name[w]

\* While the backend serves, a worker that is starting has somebody who starts it:
\* however a start went wrong, and wherever a crash cut it, no row is left so.
StartingIsUnderWay ==
    server = "up" => \A w \in Workers : status[w] = "starting" =>
        \E h \in Handlers : req[h].worker = w /\ req[h].op = "start"

\* What ended stays ended, through requests, faults and restarts, once nobody is
\* left who read its row before the end.
EndedStaysEnded ==
    [][\A w \in Workers : status[w] \in Ended /\ Untouched(w)
                          => status'[w] \in Ended /\ Untouched(w)']_vars

\* No two running workers share a name (frontend_contract.md: it "must be unique
\* among running workers").
NamesOfRunningDiffer ==
    \A v, w \in Workers : v # w /\ status[v] = "running" /\ status[w] = "running"
                            => name[v] # name[w]
==============================================================================
