---------------------------- MODULE WorkersProofs ----------------------------
(***************************************************************************)
(* Theorems about Workers, for any sets of workers, names and requests and *)
(* any number of faults and crashes.                                       *)
(***************************************************************************)
EXTENDS Workers, SequenceTheorems, TLAPS

-----------------------------------------------------------------------------
(* The invariant.  Its heart is Fresh: a request that no other overlaps    *)
(* finds its worker as it left it.                                         *)

Worker(p) == req[p].worker
Op(p) == req[p].op
Pc(p) == req[p].pc

Telling == {"tellStopped", "tellFailed"}

Belongs(pc, op) ==
    \/ op = "start" /\ pc \in {"insert", "create", "await", "lateProbe", "probe", "setRunning",
                               "tellStarted", "fail", "setFailed", "tellFailed"}
    \/ op = "stop" /\ pc \in {"probe", "setStopping", "setStopped", "tellStopped"}
    \/ op = "kill" /\ pc \in {"kill", "setStopped", "tellStopped"}
    \/ op = "look" /\ pc \in {"probe", "setStopped", "tellStopped"}
    \/ op = "rename" /\ pc = "setName"
    \/ op = "boot" /\ pc \in {"probe", "setRunning", "setStopped", "tellStopped"}

\* A request is at a place of its operation; a process at rest has no worker.
Consistent ==
    \A p \in Processes :
        /\ InFlight(p) =>
               /\ Belongs(Pc(p), Op(p))
               /\ Op(p) = "boot" <=> p = Boot
        /\ ~InFlight(p) => Worker(p) = NoWorker /\ Op(p) = "none"

\* Requests under way on one worker, or that choose a name, have met.
OverlapIsMet ==
    \A g, h \in Handlers : g # h /\ InFlight(g) /\ InFlight(h) =>
        /\ Worker(g) = Worker(h) => Worker(g) \in met
        /\ Op(g) \in Naming /\ Op(h) \in Naming => {Worker(g), Worker(h)} \subseteq met

\* A worker without a row is known to none but the request that starts it.
AbsentIsNew ==
    /\ \A w \in Workers : status[w] = "absent" =>
           session[w] = "none" /\ log[w] = <<>> /\ w \notin todo
    /\ \A p \in Processes : InFlight(p) => (status[Worker(p)] = "absent" <=> Pc(p) = "insert")
    /\ \A g, h \in Handlers :
           Op(g) = "start" /\ Op(h) = "start" /\ Worker(g) = Worker(h) => g = h

\* What the row says when the process p, alone on its worker, is at its place.
Seen(p) ==
    /\ \/ Pc(p) \in {"create", "await", "lateProbe", "fail", "setFailed", "setRunning"}
       \/ Op(p) = "start" /\ Pc(p) = "probe"
       => status[Worker(p)] = "starting"
    /\ \/ Pc(p) \in {"kill", "setStopping", "setStopped"}
       \/ Op(p) # "start" /\ Pc(p) = "probe"
       => status[Worker(p)] \in Live
    /\ Pc(p) = "tellStarted" => status[Worker(p)] = "running"
    /\ Pc(p) \in Telling => status[Worker(p)] \in Ended

Fresh ==
    /\ \A p \in Processes : InFlight(p) /\ Worker(p) \notin met => Seen(p)
    /\ InFlight(Boot) => Seen(Boot)
    /\ Worker(Boot) \notin todo
    /\ \A w \in todo : status[w] \in Live
    /\ todo # {} => server = "booting"

\* What is left of StartingIsUnderWay while a start ends, and during a boot.
StartsSettle ==
    /\ \A h \in Handlers : Pc(h) \in {"tellStarted", "tellFailed"} => status[Worker(h)] # "starting"
    /\ server = "booting" => \A w \in Workers : status[w] = "starting" => w \in todo \/ Worker(Boot) = w

\* A name that a request is about to write is free.
ChosenNamesAreFree ==
    \A h \in Handlers : Pc(h) \in {"insert", "setName"} /\ Worker(h) \notin met =>
        \A v \in Workers \ met : v # Worker(h) /\ name[v] = req[h].name =>
            status[v] \notin {"running", "starting"}

\* No end is in the log before the row says so.
LogIsOpen ==
    \A w \in Workers \ met :
        \/ status[w] \notin Ended
        \/ \E p \in Processes : Worker(p) = w /\ Pc(p) \in Telling
        => \A i \in DOMAIN log[w] : log[w][i] = "started"

Dead(w) == session[w] \notin {"creating", "alive"}

\* A session that tmux creates has a start that waits for it, and one whose end
\* is about to be written is dead.
EndingIsDead ==
    /\ \A w \in Workers \ faulted : session[w] = "creating" =>
           \E h \in Handlers : Worker(h) = w /\ Pc(h) = "await"
    /\ \A p \in Processes : Worker(p) \notin met \cup faulted /\ Pc(p) \in {"fail", "setFailed", "setStopped"} =>
           Dead(Worker(p))

Inv ==
    /\ Consistent
    /\ OverlapIsMet
    /\ AbsentIsNew
    /\ Fresh
    /\ StartsSettle /\ StartingIsUnderWay
    /\ EndIsAnnounced
    /\ ChosenNamesAreFree /\ UniqueNames
    /\ LogIsOpen /\ AuditsTellOneLife
    /\ EndingIsDead /\ EndedIsDead

-----------------------------------------------------------------------------
(* Types.                                                                  *)

LEMMA InitType == Init => TypeOK
BY WorkersAssumption DEF Init, TypeOK, Request, Ops, Places, InFlight, Processes

LEMMA RequestType ==
    ASSUME NEW op \in Ops, NEW pc \in Places, NEW w \in Workers \cup {NoWorker},
           NEW n \in Names \cup {NoName}
    PROVE  /\ Request(op, pc, w, n) \in [op : Ops, pc : Places, worker : Workers \cup {NoWorker},
                                         name : Names \cup {NoName}]
           /\ Request(op, pc, w, n).op = op /\ Request(op, pc, w, n).pc = pc
           /\ Request(op, pc, w, n).worker = w /\ Request(op, pc, w, n).name = n
BY DEF Request

\* What a request that begins does, and what it leaves alone.
LEMMA BeginEffect ==
    ASSUME TypeOK, NEW h \in Handlers, NEW op \in Ops \ {"none"},
           NEW pc \in Places \ {"idle", "done"}, NEW w \in Workers,
           NEW n \in Names \cup {NoName}, Begin(h, op, pc, w, n)
    PROVE  /\ server = "up" /\ At(h, "idle") /\ h # Boot
           /\ req'[h].op = op /\ req'[h].pc = pc /\ req'[h].worker = w /\ req'[h].name = n
           /\ \A p \in Processes \ {h} : req'[p] = req[p]
           /\ met \subseteq met' /\ (Others(op, w) # {} => w \in met')
           /\ \A g \in Others(op, w) : Worker(g) \in met'
           /\ UNCHANGED <<rows, session, log, server, todo, faults, crashes, faulted, cut>>
           /\ TypeOK'
<1>1. h \in Processes /\ h # Boot
      BY WorkersAssumption DEF Processes
<1>2. req' = [req EXCEPT ![h] = Request(op, pc, w, n)]
      BY DEF Begin
<1>3. /\ req'[h] = Request(op, pc, w, n)
      /\ \A p \in Processes \ {h} : req'[p] = req[p]
      BY <1>1, <1>2 DEF TypeOK
<1>4. /\ met' = met \cup (IF Others(op, w) = {} THEN {}
                          ELSE {w} \cup {req[g].worker : g \in Others(op, w)})
      /\ server = "up" /\ At(h, "idle")
      /\ UNCHANGED <<rows, session, log, server, todo, faults, crashes, faulted, cut>>
      BY DEF Begin
<1>5. \A g \in Others(op, w) : Worker(g) \in Workers
      BY DEF Others, TypeOK, Processes, Worker
<1>6. met \subseteq met' /\ (Others(op, w) # {} => w \in met') /\ met' \subseteq Workers
      /\ \A g \in Others(op, w) : Worker(g) \in met'
      BY <1>4, <1>5 DEF TypeOK, Worker
<1>7. TypeOK'
  <2>1. req' \in [Processes -> [op : Ops, pc : Places, worker : Workers \cup {NoWorker},
                               name : Names \cup {NoName}]]
        BY <1>2, <1>3, RequestType DEF TypeOK
  <2>2. \A p \in Processes : InFlight(p)' =>
            req'[p].worker \in Workers /\ (server' = "up" <=> p # Boot) /\ server' # "down"
    <3> SUFFICES ASSUME NEW p \in Processes, InFlight(p)'
                 PROVE  req'[p].worker \in Workers /\ (server' = "up" <=> p # Boot) /\ server' # "down"
        OBVIOUS
    <3>1. CASE p = h
          BY <3>1, <1>1, <1>3, <1>4, RequestType
    <3>2. CASE p # h
          BY <3>2, <1>3, <1>4 DEF TypeOK, InFlight
    <3> QED BY <3>1, <3>2
  <2> QED BY <2>1, <2>2, <1>4, <1>6 DEF TypeOK, rows
<1> QED BY <1>1, <1>3, <1>4, <1>6, <1>7, RequestType

LEMMA GotoEffect ==
    ASSUME TypeOK, NEW p \in Processes, InFlight(p), NEW c \in Places \ {"idle"}, Goto(p, c)
    PROVE  /\ \A q \in Processes \ {p} : req'[q] = req[q]
           /\ c # "done" => req'[p] = [req[p] EXCEPT !.pc = c]
           /\ c = "done" => req'[p] = Rest(p)
           /\ c # "done" => /\ InFlight(p)' /\ req'[p].pc = c /\ req'[p].op = req[p].op
                            /\ req'[p].worker = req[p].worker /\ req'[p].name = req[p].name
           /\ c = "done" => /\ ~InFlight(p)' /\ req'[p].op = "none"
                            /\ req'[p].worker = NoWorker
           /\ req' \in [Processes -> [op : Ops, pc : Places, worker : Workers \cup {NoWorker},
                                      name : Names \cup {NoName}]]
           /\ \A q \in Processes : InFlight(q)' => InFlight(q) /\ req'[q].worker = req[q].worker
<1>1. req[p] \in [op : Ops, pc : Places, worker : Workers \cup {NoWorker},
                  name : Names \cup {NoName}]
      BY DEF TypeOK
<1>2. req' = [req EXCEPT ![p] = IF c = "done" THEN Rest(p) ELSE [req[p] EXCEPT !.pc = c]]
      BY DEF Goto
<1>3. /\ \A q \in Processes \ {p} : req'[q] = req[q]
      /\ req'[p] = IF c = "done" THEN Rest(p) ELSE [req[p] EXCEPT !.pc = c]
      BY <1>2 DEF TypeOK
<1>4. /\ Rest(p) \in [op : Ops, pc : Places, worker : Workers \cup {NoWorker},
                      name : Names \cup {NoName}]
      /\ Rest(p).pc \in {"idle", "done"} /\ Rest(p).op = "none" /\ Rest(p).worker = NoWorker
      BY DEF Rest, Request, Ops, Places
<1>5. c # "done" => /\ InFlight(p)' /\ req'[p].pc = c /\ req'[p].op = req[p].op
                    /\ req'[p].worker = req[p].worker /\ req'[p].name = req[p].name
      BY <1>1, <1>3 DEF InFlight
<1>6. c = "done" => ~InFlight(p)' /\ req'[p].op = "none" /\ req'[p].worker = NoWorker
      BY <1>3, <1>4 DEF InFlight
<1>7. req' \in [Processes -> [op : Ops, pc : Places, worker : Workers \cup {NoWorker},
                              name : Names \cup {NoName}]]
      BY <1>1, <1>2, <1>4 DEF TypeOK
<1>8. \A q \in Processes : InFlight(q)' => InFlight(q) /\ req'[q].worker = req[q].worker
      BY <1>3, <1>5, <1>6 DEF InFlight
<1> QED BY <1>3, <1>5, <1>6, <1>7, <1>8

\* A step belongs to a request under way and changes nothing of any other worker.
LEMMA StepEffect ==
    ASSUME TypeOK, NEW p \in Processes, Step(p)
    PROVE  /\ InFlight(p) /\ Worker(p) \in Workers
           /\ \E c \in Places \ {"idle"} : Goto(p, c)
           /\ \A v \in Workers \ {Worker(p)} :
                  /\ status'[v] = status[v] /\ name'[v] = name[v]
                  /\ session'[v] = session[v] /\ log'[v] = log[v]
           /\ faulted \subseteq faulted'
           /\ UNCHANGED <<server, todo, crashes, met, cut>>
           /\ TypeOK'
<1> DEFINE w == Worker(p)
           Rows == /\ status' \in [Workers -> {"absent"} \cup Live \cup Ended]
                   /\ name' \in [Workers -> Names \cup {NoName}]
                   /\ session' \in [Workers -> {"none", "creating", "alive", "gone"}]
                   /\ log' \in [Workers -> Seq({"started", "finished", "failed"})]
                   /\ \A v \in Workers \ {w} :
                          /\ status'[v] = status[v] /\ name'[v] = name[v]
                          /\ session'[v] = session[v] /\ log'[v] = log[v]
           Faults == faults' \in 0 .. MaxFaults /\ faulted' \subseteq Workers
                     /\ faulted \subseteq faulted'
           Going == \E c \in Places \ {"idle"} : Goto(p, c)
<1>1. InFlight(p)
      BY DEF Step, InFlight, At, InsertWorker, CreateSession, CommandReturns, CommandFails,
             CommandTimesOut, Probe, SetRunning, CheckFailed, SetFailed, KillSession,
             SetStopping, SetStopped, SetName, Audit, Told
<1>2. w \in Workers
      BY <1>1 DEF TypeOK, Worker
<1>3. NoFault => Faults
      BY DEF NoFault, TypeOK
<1>4. Fault(w) => Faults
      BY <1>2, WorkersAssumption DEF Fault, TypeOK
<1>5. UNCHANGED <<server, todo, crashes, met, cut>>
      BY DEF Step
<1>6. UNCHANGED <<rows, session, log>> => Rows
      BY DEF TypeOK, rows
<1>7. ASSUME NEW x \in Live \cup Ended, status' = [status EXCEPT ![w] = x],
             UNCHANGED <<name, session, log>>
      PROVE  Rows
      BY <1>7 DEF TypeOK
<1>8. ASSUME NEW x \in {"creating", "alive", "gone"}, session' = [session EXCEPT ![w] = x],
             UNCHANGED <<rows, log>>
      PROVE  Rows
      BY <1>8 DEF TypeOK, rows
<1>9. ASSUME NEW n \in Names \cup {NoName}, name' = [name EXCEPT ![w] = n],
             status' \in [Workers -> {"absent"} \cup Live \cup Ended],
             \A v \in Workers \ {w} : status'[v] = status[v],
             UNCHANGED <<session, log>>
      PROVE  Rows
      BY <1>9 DEF TypeOK
<1>10. ASSUME NEW x \in {"started", "finished", "failed"}, log' = [log EXCEPT ![w] = Append(@, x)],
              UNCHANGED <<rows, session>>
       PROVE  Rows
  <2>1. log' \in [Workers -> Seq({"started", "finished", "failed"})]
        BY <1>2, <1>10 DEF TypeOK
  <2> QED BY <2>1, <1>10 DEF TypeOK, rows
<1>11. ASSUME NEW c \in Places \ {"idle"}, Goto(p, c)
       PROVE  Going
       BY <1>11
<1>12. req[p].name \in Names \cup {NoName}
       BY DEF TypeOK
<1> HIDE DEF Rows, Faults, Going
<1>20. Rows /\ Faults /\ Going
  <2>1. CASE InsertWorker(p, w)
    <3>1. /\ status' \in [Workers -> {"absent"} \cup Live \cup Ended]
          /\ \A v \in Workers \ {w} : status'[v] = status[v]
          BY <1>2, <2>1 DEF InsertWorker, TypeOK, Live
    <3> QED BY <2>1, <3>1, <1>3, <1>9, <1>11, <1>12 DEF InsertWorker, Places
  <2>2. CASE CreateSession(p, w)
        BY <2>2, <1>3, <1>8, <1>11 DEF CreateSession, Places
  <2>3. CASE CommandReturns(p, w)
        BY <2>3, <1>3, <1>6, <1>11 DEF CommandReturns, Places
  <2>4. CASE CommandFails(p, w)
        BY <2>4, <1>3, <1>4, <1>6, <1>8, <1>11 DEF CommandFails, Places, rows
  <2>5. CASE CommandTimesOut(p, w)
        BY <2>5, <1>4, <1>6, <1>11 DEF CommandTimesOut, Places
  <2>6. CASE Probe(p, w)
    <3>1. \A alive \in BOOLEAN : AfterProbe(p, w, alive) \in Places \ {"idle"}
          BY DEF AfterProbe, Places
    <3> QED BY <2>6, <3>1, <1>3, <1>4, <1>6, <1>11 DEF Probe
  <2>7. CASE SetRunning(p, w)
        BY <2>7, <1>3, <1>7, <1>11 DEF SetRunning, Places, Live
  <2>8. CASE CheckFailed(p, w)
        BY <2>8, <1>3, <1>6, <1>11 DEF CheckFailed, Places
  <2>9. CASE SetFailed(p, w)
        BY <2>9, <1>3, <1>7, <1>11 DEF SetFailed, Places, Ended
  <2>10. CASE KillSession(p, w)
    <3>1. session' = [session EXCEPT ![w] = IF session[w] = "alive" THEN "gone" ELSE session[w]]
          => Rows
          BY <1>2, <2>10 DEF KillSession, Rows, TypeOK, rows
    <3> QED BY <2>10, <3>1, <1>3, <1>4, <1>6, <1>11 DEF KillSession, Places, rows
  <2>11. CASE SetStopping(p, w)
         BY <2>11, <1>3, <1>7, <1>11 DEF SetStopping, Places, Live
  <2>12. CASE SetStopped(p, w)
         BY <2>12, <1>3, <1>7, <1>11 DEF SetStopped, Places, Ended
  <2>13. CASE SetName(p, w)
    <3>1. Rows
          BY <2>13, <1>9, <1>12 DEF SetName, TypeOK
    <3> QED BY <2>13, <3>1, <1>3, <1>11 DEF SetName, Places
  <2>14. CASE Audit(p, w)
    <3>1. Told[req[p].pc] \in {"started", "finished", "failed"}
          BY <2>14 DEF Audit, Told
    <3>2. Rows
          BY <2>14, <3>1, <1>10 DEF Audit
    <3> QED BY <2>14, <3>2, <1>3, <1>11 DEF Audit, Places
  <2> QED BY <2>1, <2>2, <2>3, <2>4, <2>5, <2>6, <2>7, <2>8, <2>9, <2>10, <2>11, <2>12,
             <2>13, <2>14 DEF Step, Worker
<1>21. TypeOK'
  <2>1. PICK c \in Places \ {"idle"} : Goto(p, c)
        BY <1>20 DEF Going
  <2>2. /\ req' \in [Processes -> [op : Ops, pc : Places, worker : Workers \cup {NoWorker},
                                   name : Names \cup {NoName}]]
        /\ \A q \in Processes : InFlight(q)' => InFlight(q) /\ req'[q].worker = req[q].worker
        BY <2>1, <1>1, GotoEffect
  <2> QED BY <2>2, <1>5, <1>20 DEF TypeOK, Rows, Faults
<1> QED BY <1>1, <1>2, <1>5, <1>20, <1>21 DEF Rows, Faults, Going

\* After a crash nobody is under way, and what ends or comes up is what was created.
LEMMA CrashEffect ==
    ASSUME TypeOK, Crash
    PROVE  /\ \A p \in Processes : ~InFlight(p)' /\ (InFlight(p) => req'[p] = Rest(p))
                                   /\ (~InFlight(p) => req'[p] = req[p])
           /\ \A w \in Workers : session'[w] # "creating"
                  /\ (session[w] # "creating" => session'[w] = session[w])
                  /\ (session[w] = "creating" => session'[w] # "none")
           /\ \A p \in Processes : Pc(p) \in Telling => Worker(p) \in cut'
           /\ cut \subseteq cut'
           /\ TypeOK'
<1>1. \A p \in Processes : Rest(p) \in [op : Ops, pc : Places, worker : Workers \cup {NoWorker},
                                        name : Names \cup {NoName}]
                           /\ Rest(p).pc \in {"idle", "done"}
      BY DEF Rest, Request, Ops, Places
<1>2. req' = [p \in Processes |-> IF InFlight(p) THEN Rest(p) ELSE req[p]]
      BY DEF Crash
<1>3. /\ \A p \in Processes : ~InFlight(p)' /\ (InFlight(p) => req'[p] = Rest(p))
                              /\ (~InFlight(p) => req'[p] = req[p])
      /\ req' \in [Processes -> [op : Ops, pc : Places, worker : Workers \cup {NoWorker},
                                 name : Names \cup {NoName}]]
      BY <1>1, <1>2 DEF InFlight, TypeOK
<1>4. PICK up \in SUBSET {w \in Workers : session[w] = "creating"} :
          session' = [w \in Workers |-> IF w \in up THEN "alive"
                                        ELSE IF session[w] = "creating" THEN "gone"
                                        ELSE session[w]]
      BY DEF Crash
<1>5. /\ \A w \in Workers : session'[w] # "creating"
             /\ (session[w] # "creating" => session'[w] = session[w])
             /\ (session[w] = "creating" => session'[w] # "none")
      /\ session' \in [Workers -> {"none", "creating", "alive", "gone"}]
      BY <1>4 DEF TypeOK
<1>6. /\ cut' = cut \cup {req[p].worker : p \in {q \in Processes :
                                                   req[q].pc \in {"tellStopped", "tellFailed"}}}
      /\ server' = "down" /\ todo' = {} /\ crashes' = crashes + 1 /\ crashes < MaxCrashes
      /\ UNCHANGED <<status, name, log, faults, met, faulted>>
      BY DEF Crash, rows
<1>7. \A p \in Processes : Pc(p) \in Telling => Worker(p) \in Workers /\ Worker(p) \in cut'
      BY <1>6 DEF TypeOK, InFlight, Pc, Worker, Telling
<1>8. cut \subseteq cut' /\ cut' \subseteq Workers
      BY <1>6, <1>7 DEF TypeOK, Pc, Worker, Telling
<1>9. crashes' \in 0 .. MaxCrashes
      BY <1>6, WorkersAssumption DEF TypeOK
<1>10. TypeOK'
       BY <1>3, <1>5, <1>6, <1>8, <1>9 DEF TypeOK
<1> QED BY <1>3, <1>5, <1>7, <1>8, <1>10

LEMMA ReconcileEffect ==
    ASSUME TypeOK, NEW w \in Workers, Reconcile(w)
    PROVE  /\ server = "booting" /\ At(Boot, "idle") /\ w \in todo
           /\ req'[Boot].op = "boot" /\ req'[Boot].pc = "probe" /\ req'[Boot].worker = w
           /\ \A p \in Handlers : req'[p] = req[p] /\ ~InFlight(p)
           /\ TypeOK'
<1>1. Boot \in Processes /\ Handlers \subseteq Processes /\ Boot \notin Handlers
      BY WorkersAssumption DEF Processes
<1>2. req' = [req EXCEPT ![Boot] = Request("boot", "probe", w, NoName)]
      BY DEF Reconcile
<1>3. /\ Request("boot", "probe", w, NoName)
             \in [op : Ops, pc : Places, worker : Workers \cup {NoWorker}, name : Names \cup {NoName}]
      /\ Request("boot", "probe", w, NoName).op = "boot"
      /\ Request("boot", "probe", w, NoName).pc = "probe"
      /\ Request("boot", "probe", w, NoName).worker = w
      BY DEF Request, Ops, Places
<1>4. /\ req'[Boot] = Request("boot", "probe", w, NoName)
      /\ \A p \in Processes \ {Boot} : req'[p] = req[p]
      /\ req' \in [Processes -> [op : Ops, pc : Places, worker : Workers \cup {NoWorker},
                                 name : Names \cup {NoName}]]
      BY <1>1, <1>2, <1>3 DEF TypeOK
<1>5. /\ server = "booting" /\ At(Boot, "idle") /\ w \in todo /\ todo' = todo \ {w}
      /\ UNCHANGED <<status, name, session, log, server, faults, crashes, met, faulted, cut>>
      BY DEF Reconcile, rows, history
<1>6. \A p \in Handlers : ~InFlight(p)
      BY <1>1, <1>5 DEF TypeOK
<1>7. \A p \in Processes : InFlight(p)' =>
          req'[p].worker \in Workers /\ (server' = "up" <=> p # Boot) /\ server' # "down"
  <2> SUFFICES ASSUME NEW p \in Processes, InFlight(p)'
               PROVE  req'[p].worker \in Workers /\ (server' = "up" <=> p # Boot) /\ server' # "down"
      OBVIOUS
  <2>1. CASE p = Boot
        BY <2>1, <1>3, <1>4, <1>5
  <2>2. CASE p # Boot
        BY <2>2, <1>4, <1>5, <1>6 DEF InFlight, Processes
  <2> QED BY <2>1, <2>2
<1>8. TypeOK'
      BY <1>4, <1>5, <1>7 DEF TypeOK
<1> QED BY <1>1, <1>3, <1>4, <1>5, <1>6, <1>8

LEMMA OutsideType ==
    ASSUME TypeOK, (\E w \in Workers : SessionUp(w) \/ SessionExits(w)) \/ ReadRows \/ Serve
    PROVE  TypeOK'
<1>1. CASE \E w \in Workers : SessionUp(w) \/ SessionExits(w)
      BY <1>1 DEF SessionUp, SessionExits, TypeOK, rows, history, InFlight
<1>2. CASE ReadRows
      BY <1>2 DEF ReadRows, TypeOK, rows, history, InFlight
<1>3. CASE Serve
      BY <1>3 DEF Serve, TypeOK, rows, history, InFlight, At
<1> QED BY <1>1, <1>2, <1>3

\* What begins, with what it read.
Beginning(h, w) ==
    \/ \E n \in Names : BeginStart(h, w, n) \/ BeginRename(h, w, n)
    \/ BeginStop(h, w) \/ BeginKill(h, w) \/ BeginLook(h, w)

LEMMA BeginKinds ==
    ASSUME TypeOK, NEW h \in Handlers, NEW w \in Workers, Beginning(h, w)
    PROVE  \E op \in {"start", "stop", "kill", "look", "rename"},
              pc \in {"insert", "probe", "kill", "setName"}, n \in Names \cup {NoName} :
               /\ Begin(h, op, pc, w, n)
               /\ \/ op = "start" /\ pc = "insert" /\ status[w] = "absent" /\ NameFree(n, w)
                     /\ \A g \in Handlers : req[g].worker # w
                  \/ op = "stop" /\ pc = "probe" /\ status[w] \in Live
                  \/ op = "kill" /\ pc = "kill" /\ status[w] \in Live
                  \/ op = "look" /\ pc = "probe" /\ status[w] \in Live
                  \/ op = "rename" /\ pc = "setName" /\ status[w] # "absent" /\ NameFree(n, w)
<1>1. status[w] \in {"absent"} \cup Live \cup Ended
      BY DEF TypeOK
<1>2. ASSUME NEW n \in Names, BeginStart(h, w, n)
      PROVE  Begin(h, "start", "insert", w, n) /\ status[w] = "absent" /\ NameFree(n, w)
             /\ \A g \in Handlers : req[g].worker # w
      BY <1>2 DEF BeginStart
<1>3. ASSUME NEW n \in Names, BeginRename(h, w, n)
      PROVE  Begin(h, "rename", "setName", w, n) /\ status[w] # "absent" /\ NameFree(n, w)
      BY <1>3 DEF BeginRename
<1>4. ASSUME BeginStop(h, w)
      PROVE  Begin(h, "stop", "probe", w, NoName) /\ status[w] \in Live
      BY <1>4 DEF BeginStop, Live
<1>5. ASSUME BeginKill(h, w)
      PROVE  Begin(h, "kill", "kill", w, NoName) /\ status[w] \in Live
      BY <1>1, <1>5 DEF BeginKill, Ended
<1>6. ASSUME BeginLook(h, w)
      PROVE  Begin(h, "look", "probe", w, NoName) /\ status[w] \in Live
      BY <1>6 DEF BeginLook
<1> QED BY <1>2, <1>3, <1>4, <1>5, <1>6 DEF Beginning

LEMMA NextKinds ==
    ASSUME Next
    PROVE  \/ \E h \in Handlers, w \in Workers : Beginning(h, w)
           \/ \E p \in Processes : Step(p)
           \/ \E w \in Workers : SessionUp(w) \/ SessionExits(w)
           \/ \E w \in Workers : Reconcile(w)
           \/ Crash \/ ReadRows \/ Serve
BY DEF Next, Beginning

LEMMA StepType ==
    ASSUME TypeOK, [Next]_vars
    PROVE  TypeOK'
<1>1. ASSUME NEW h \in Handlers, NEW w \in Workers, Beginning(h, w)
      PROVE  TypeOK'
  <2>1. PICK op \in Ops \ {"none"}, pc \in Places \ {"idle", "done"}, n \in Names \cup {NoName} :
            Begin(h, op, pc, w, n)
        BY <1>1, BeginKinds DEF Ops, Places
  <2> QED BY <2>1, BeginEffect
<1>2. ASSUME NEW p \in Processes, Step(p)
      PROVE  TypeOK'
      BY <1>2, StepEffect
<1>3. ASSUME NEW w \in Workers, Reconcile(w)
      PROVE  TypeOK'
      BY <1>3, ReconcileEffect
<1>4. CASE UNCHANGED vars
      BY <1>4 DEF vars, rows, history, TypeOK, InFlight
<1> QED BY <1>1, <1>2, <1>3, <1>4, NextKinds, CrashEffect, OutsideType

\* Every variable keeps its type, and while the backend boots nothing but the
\* reconciliation works.
THEOREM TypeCorrect == Spec => []TypeOK
<1>1. Init => TypeOK
      BY InitType
<1>2. TypeOK /\ [Next]_vars => TypeOK'
      BY StepType
<1> QED BY <1>1, <1>2, PTL DEF Spec

-----------------------------------------------------------------------------
(* The invariant holds at first and is kept: one lemma per part.           *)

LEMMA InitInv == Init => Inv
<1> SUFFICES ASSUME Init PROVE Inv
    OBVIOUS
<1>1. \A p \in Processes : /\ ~InFlight(p) /\ Pc(p) = "idle"
                           /\ Worker(p) = NoWorker /\ Op(p) = "none"
      BY DEF Init, Request, InFlight, Pc, Worker, Op
<1>2. \A w \in Workers : /\ status[w] = "absent" /\ session[w] = "none" /\ log[w] = <<>>
      BY DEF Init
<1>3. server = "up" /\ todo = {} /\ Boot \in Processes /\ Handlers \subseteq Processes
      BY DEF Init, Processes
<1>4. Consistent /\ OverlapIsMet
      BY <1>1, <1>3 DEF Consistent, OverlapIsMet
<1>5. AbsentIsNew /\ Fresh
      BY <1>1, <1>2, <1>3 DEF AbsentIsNew, Fresh
<1>6. StartsSettle /\ StartingIsUnderWay /\ EndIsAnnounced
      BY <1>1, <1>2, <1>3 DEF StartsSettle, StartingIsUnderWay, EndIsAnnounced, Ended
<1>7. ChosenNamesAreFree /\ UniqueNames
      BY <1>1, <1>2, <1>3 DEF ChosenNamesAreFree, UniqueNames
<1>8. LogIsOpen /\ AuditsTellOneLife
      BY <1>1, <1>2, <1>3 DEF LogIsOpen, AuditsTellOneLife
<1>9. EndingIsDead /\ EndedIsDead
      BY <1>1, <1>2, <1>3 DEF EndingIsDead, EndedIsDead, Dead, Ended
<1> QED BY <1>4, <1>5, <1>6, <1>7, <1>8, <1>9 DEF Inv

\* A step takes a request to another place of its operation, or ends it.
LEMMA StepPlaces ==
    ASSUME TypeOK, Consistent, NEW p \in Processes, Step(p)
    PROVE  \E c \in Places \ {"idle"} : Goto(p, c) /\ (c = "done" \/ Belongs(c, Op(p)))
<1> DEFINE w == Worker(p)
<1>1. InFlight(p) /\ Belongs(Pc(p), Op(p))
      BY StepEffect DEF Consistent
<1>2. Op(p) = "boot" <=> p = Boot
      BY <1>1 DEF Consistent
<1>3. CASE InsertWorker(p, w) \/ CreateSession(p, w) \/ CommandReturns(p, w)
           \/ CommandFails(p, w) \/ CommandTimesOut(p, w) \/ CheckFailed(p, w) \/ SetFailed(p, w)
      BY <1>1, <1>3 DEF InsertWorker, CreateSession, CommandReturns, CommandFails,
         CommandTimesOut, CheckFailed, SetFailed, At, Belongs, Places, Pc, Op
<1>4. CASE Probe(p, w)
  <2>1. \A alive \in BOOLEAN : AfterProbe(p, w, alive) \in Places \ {"idle"}
            /\ (AfterProbe(p, w, alive) = "done" \/ Belongs(AfterProbe(p, w, alive), Op(p)))
        BY <1>1, <1>4 DEF Probe, AfterProbe, At, Belongs, Places, Pc, Op
  <2> QED BY <1>4, <2>1 DEF Probe
<1>5. CASE SetRunning(p, w)
      BY <1>1, <1>2, <1>5 DEF SetRunning, At, Belongs, Places, Pc, Op
<1>6. CASE KillSession(p, w) \/ SetStopping(p, w) \/ SetStopped(p, w)
           \/ SetName(p, w) \/ Audit(p, w)
      BY <1>1, <1>6 DEF KillSession, SetStopping, SetStopped, SetName, Audit, At, Belongs,
         Places, Pc, Op
<1> QED BY <1>3, <1>4, <1>5, <1>6 DEF Step, Worker

LEMMA ConsistentStep ==
    ASSUME TypeOK, Consistent, [Next]_vars
    PROVE  Consistent'
<1>1. ASSUME NEW h \in Handlers, NEW w \in Workers, Beginning(h, w)
      PROVE  Consistent'
  <2>1. PICK op \in {"start", "stop", "kill", "look", "rename"},
             pc \in {"insert", "probe", "kill", "setName"}, n \in Names \cup {NoName} :
            Begin(h, op, pc, w, n) /\ Belongs(pc, op)
        BY <1>1, BeginKinds DEF Belongs
  <2>2. /\ req'[h].op = op /\ req'[h].pc = pc /\ h # Boot
        /\ \A p \in Processes \ {h} : req'[p] = req[p]
        BY <2>1, BeginEffect DEF Ops, Places
  <2> QED BY <2>1, <2>2 DEF Consistent, InFlight, Worker, Op, Pc
<1>2. ASSUME NEW p \in Processes, Step(p)
      PROVE  Consistent'
  <2>1. PICK c \in Places \ {"idle"} : Goto(p, c) /\ (c = "done" \/ Belongs(c, Op(p)))
        BY <1>2, StepPlaces
  <2>2. InFlight(p)
        BY <1>2, StepEffect
  <2>3. /\ \A q \in Processes \ {p} : req'[q] = req[q]
        /\ c # "done" => /\ InFlight(p)' /\ req'[p].pc = c /\ req'[p].op = req[p].op
        /\ c = "done" => /\ ~InFlight(p)' /\ req'[p].op = "none" /\ req'[p].worker = NoWorker
        BY <2>1, <2>2, GotoEffect
  <2> QED BY <2>1, <2>2, <2>3 DEF Consistent, InFlight, Worker, Op, Pc
<1>3. ASSUME NEW w \in Workers, Reconcile(w)
      PROVE  Consistent'
      BY <1>3, ReconcileEffect DEF Consistent, InFlight, Worker, Op, Pc, Belongs, Processes
<1>4. CASE Crash
  <2>1. \A p \in Processes : Rest(p).worker = NoWorker /\ Rest(p).op = "none"
        BY DEF Rest, Request
  <2> QED BY <1>4, <2>1, CrashEffect DEF Consistent, Worker, Op
<1>5. CASE UNCHANGED req
      BY <1>5 DEF Consistent, InFlight, Worker, Op, Pc
<1> QED BY <1>1, <1>2, <1>3, <1>4, <1>5, NextKinds DEF vars, SessionUp, SessionExits, ReadRows, Serve

\* What a step leaves of the requests, its own and the others.
LEMMA StepCarries ==
    ASSUME TypeOK, NEW p \in Processes, Step(p)
    PROVE  /\ \A q \in Processes \ {p} : req'[q] = req[q]
           /\ \A q \in Processes : InFlight(q)' => /\ InFlight(q)
                                                   /\ Worker(q)' = Worker(q) /\ Op(q)' = Op(q)
                                                   /\ req'[q].name = req[q].name
<1>1. InFlight(p)
      BY StepEffect
<1>2. PICK c \in Places \ {"idle"} : Goto(p, c)
      BY StepEffect
<1>3. /\ \A q \in Processes \ {p} : req'[q] = req[q]
      /\ InFlight(p)' => /\ InFlight(p) /\ Worker(p)' = Worker(p) /\ Op(p)' = Op(p)
                         /\ req'[p].name = req[p].name
      BY <1>1, <1>2, GotoEffect DEF Worker, Op
<1> QED BY <1>3 DEF InFlight, Worker, Op

LEMMA OverlapStep ==
    ASSUME TypeOK, OverlapIsMet, [Next]_vars
    PROVE  OverlapIsMet'
<1>0. Handlers \subseteq Processes
      BY DEF Processes
<1>1. ASSUME NEW h \in Handlers, NEW w \in Workers, Beginning(h, w)
      PROVE  OverlapIsMet'
  <2>1. PICK op \in {"start", "stop", "kill", "look", "rename"},
             pc \in {"insert", "probe", "kill", "setName"}, n \in Names \cup {NoName} :
            Begin(h, op, pc, w, n)
        BY <1>1, BeginKinds
  <2>2. /\ req'[h].op = op /\ req'[h].worker = w
        /\ \A p \in Processes \ {h} : req'[p] = req[p]
        /\ met \subseteq met' /\ (Others(op, w) # {} => w \in met')
        /\ \A g \in Others(op, w) : Worker(g) \in met'
        BY <2>1, BeginEffect DEF Ops, Places
  <2>3. ASSUME NEW g \in Handlers, g # h, InFlight(g),
               Worker(g) = w \/ (op \in Naming /\ Op(g) \in Naming)
        PROVE  w \in met' /\ Worker(g) \in met'
    <3>1. g \in Others(op, w)
          BY <2>3 DEF Others, Worker, Op
    <3> QED BY <2>2, <3>1
  <2>4. \A g \in Handlers \ {h} : (InFlight(g)' <=> InFlight(g)) /\ Worker(g)' = Worker(g)
                                  /\ Op(g)' = Op(g)
        BY <1>0, <2>2 DEF InFlight, Worker, Op
  <2>5. Worker(h)' = w /\ Op(h)' = op
        BY <2>2 DEF Worker, Op
  <2> QED BY <2>2, <2>3, <2>4, <2>5 DEF OverlapIsMet
<1>2. ASSUME NEW p \in Processes, Step(p)
      PROVE  OverlapIsMet'
      BY <1>0, <1>2, StepCarries, StepEffect DEF OverlapIsMet
<1>3. ASSUME UNCHANGED <<met>>,
             \A h \in Handlers : InFlight(h)' => req'[h] = req[h]
      PROVE  OverlapIsMet'
      BY <1>3 DEF OverlapIsMet, InFlight, Worker, Op
<1>4. ASSUME NEW w \in Workers, Reconcile(w)
      PROVE  OverlapIsMet'
      BY <1>3, <1>4, ReconcileEffect DEF Reconcile, history
<1>5. CASE Crash
      BY <1>0, <1>3, <1>5, CrashEffect DEF Crash
<1> QED BY <1>1, <1>2, <1>3, <1>4, <1>5, NextKinds
        DEF vars, SessionUp, SessionExits, ReadRows, Serve, history

\* Two that work on one worker have met.
LEMMA AloneUnlessMet ==
    ASSUME TypeOK, OverlapIsMet, NEW p \in Processes, NEW q \in Processes, p # q,
           InFlight(p), InFlight(q), Worker(p) = Worker(q)
    PROVE  p \in Handlers /\ q \in Handlers /\ Worker(p) \in met
<1>1. p # Boot /\ q # Boot
      BY WorkersAssumption DEF TypeOK
<1> QED BY <1>1 DEF OverlapIsMet, Processes

\* A step of p on its worker w, by places: from where to where (c), what it writes
\* and what it saw.
SameStatus(w) == status'[w] = status[w]
SameName(w) == name'[w] = name[w]
SameSession(w) == session'[w] = session[w]
SameLog(w) == log'[w] = log[w]

SessionStep(p, w, c) ==
    /\ SameStatus(w) /\ SameName(w) /\ SameLog(w)
    /\ \/ Pc(p) = "create" /\ c = "await" /\ session'[w] = "creating"
       \/ Pc(p) = "await" /\ c = "probe" /\ SameSession(w) /\ session[w] # "creating"
       \/ Pc(p) = "await" /\ c = "fail" /\ session'[w] = "gone"
       \/ Pc(p) = "await" /\ c = "fail" /\ SameSession(w) /\ w \in faulted'
       \/ Pc(p) = "await" /\ c = "lateProbe" /\ SameSession(w) /\ w \in faulted'
       \/ Pc(p) = "kill" /\ c = "setStopped"
          /\ session'[w] = IF session[w] = "alive" THEN "gone" ELSE session[w]
       \/ Pc(p) = "kill" /\ c = "setStopped" /\ SameSession(w) /\ w \in faulted'

ProbeStep(p, w, c) ==
    /\ SameStatus(w) /\ SameName(w) /\ SameSession(w) /\ SameLog(w)
    /\ Pc(p) \in {"probe", "lateProbe"}
    /\ \/ Op(p) = "start" /\ c = "fail" /\ (session[w] # "alive" \/ w \in faulted')
       \/ Op(p) = "start" /\ c = "probe" /\ Pc(p) = "lateProbe"
       \/ Op(p) = "start" /\ c = "setRunning" /\ Pc(p) = "probe"
       \/ Op(p) = "stop" /\ c = "setStopping"
       \/ Op(p) = "look" /\ c = "done"
       \/ Op(p) = "boot" /\ c = "setRunning" /\ status[w] = "starting"
       \/ Op(p) = "boot" /\ c = "done" /\ status[w] # "starting"
       \/ Op(p) \in {"stop", "look", "boot"} /\ c = "setStopped"
          /\ (session[w] # "alive" \/ w \in faulted')

RowStep(p, w, c) ==
    /\ SameSession(w) /\ SameLog(w)
    /\ \/ Pc(p) = "insert" /\ c = "create" /\ status'[w] = "starting" /\ name'[w] = req[p].name
       \/ Pc(p) = "setName" /\ c = "done" /\ SameStatus(w) /\ name'[w] = req[p].name
       \/ /\ SameName(w)
          /\ \/ Pc(p) = "setRunning" /\ status'[w] = "running"
                /\ c = IF p = Boot THEN "done" ELSE "tellStarted"
             \/ Pc(p) = "fail" /\ c = "setFailed" /\ SameStatus(w)
             \/ Pc(p) = "fail" /\ c = "done" /\ SameStatus(w) /\ status[w] \in Ended
             \/ Pc(p) = "setFailed" /\ c = "tellFailed" /\ status'[w] = "failed"
             \/ Pc(p) = "setStopping" /\ c = "done" /\ status'[w] = "stopping"
             \/ Pc(p) = "setStopped" /\ c = "tellStopped" /\ status'[w] = "stopped"

AuditStep(p, w, c) ==
    /\ SameStatus(w) /\ SameName(w) /\ SameSession(w)
    /\ Pc(p) \in DOMAIN Told
    /\ c = "done"
    /\ log'[w] = Append(log[w], Told[Pc(p)])

Outcome(p, c) ==
    \/ SessionStep(p, Worker(p), c)
    \/ ProbeStep(p, Worker(p), c)
    \/ RowStep(p, Worker(p), c)
    \/ AuditStep(p, Worker(p), c)

LEMMA StepOutcome ==
    ASSUME TypeOK, Consistent, NEW p \in Processes, Step(p)
    PROVE  \E c \in Places \ {"idle"} : Goto(p, c) /\ Outcome(p, c)
<1> DEFINE w == Worker(p)
           Goal == \E c \in Places \ {"idle"} : Goto(p, c) /\ Outcome(p, c)
<1>1. InFlight(p) /\ Belongs(Pc(p), Op(p)) /\ w \in Workers
      BY StepEffect DEF Consistent
<1>2. ASSUME NEW c \in Places \ {"idle"}, Goto(p, c), Outcome(p, c)
      PROVE  Goal
      BY <1>2
<1>3. /\ status \in [Workers -> {"absent"} \cup Live \cup Ended]
      /\ name \in [Workers -> Names \cup {NoName}]
      /\ session \in [Workers -> {"none", "creating", "alive", "gone"}]
      /\ log \in [Workers -> Seq({"started", "finished", "failed"})]
      BY DEF TypeOK
<1>4. Fault(w) => w \in faulted'
      BY <1>1 DEF Fault
<1> HIDE DEF Goal
<1> USE DEF SameStatus, SameName, SameSession, SameLog
<1>11. CASE InsertWorker(p, w)
  <2>1. RowStep(p, w, "create")
        BY <1>1, <1>3, <1>11 DEF InsertWorker, RowStep, At, Pc
  <2> QED BY <1>2, <1>11, <2>1 DEF Outcome, InsertWorker, Places
<1>12. CASE CreateSession(p, w)
  <2>1. SessionStep(p, w, "await")
        BY <1>1, <1>3, <1>12 DEF CreateSession, SessionStep, At, Pc, rows
  <2> QED BY <1>2, <1>12, <2>1 DEF Outcome, CreateSession, Places
<1>13. CASE CommandReturns(p, w)
  <2>1. SessionStep(p, w, "probe")
        BY <1>13 DEF CommandReturns, SessionStep, At, Pc, rows
  <2> QED BY <1>2, <1>13, <2>1 DEF Outcome, CommandReturns, Places
<1>14. CASE CommandFails(p, w)
  <2>1. SessionStep(p, w, "fail")
        BY <1>1, <1>3, <1>4, <1>14 DEF CommandFails, SessionStep, At, Pc, rows
  <2> QED BY <1>2, <1>14, <2>1 DEF Outcome, CommandFails, Places
<1>15. CASE CommandTimesOut(p, w)
  <2>1. SessionStep(p, w, "lateProbe")
        BY <1>4, <1>15 DEF CommandTimesOut, SessionStep, At, Pc, rows
  <2> QED BY <1>2, <1>15, <2>1 DEF Outcome, CommandTimesOut, Places
<1>16. CASE Probe(p, w)
  <2>1. \A alive \in BOOLEAN :
            /\ AfterProbe(p, w, alive) \in Places \ {"idle"}
            /\ (alive \/ session[w] # "alive" \/ w \in faulted')
               => ProbeStep(p, w, AfterProbe(p, w, alive))
        BY <1>1, <1>16 DEF Probe, AfterProbe, ProbeStep, At, Belongs, Places, Pc, Op, rows
  <2>2. CASE Goto(p, AfterProbe(p, w, session[w] = "alive"))
        BY <1>2, <2>1, <2>2 DEF Outcome
  <2>3. CASE Fault(w) /\ Goto(p, AfterProbe(p, w, FALSE))
        BY <1>2, <1>4, <2>1, <2>3 DEF Outcome
  <2> QED BY <1>16, <2>2, <2>3 DEF Probe
<1>17. CASE SetRunning(p, w)
  <2>1. RowStep(p, w, IF p = Boot THEN "done" ELSE "tellStarted")
        BY <1>1, <1>3, <1>17 DEF SetRunning, RowStep, At, Pc
  <2> QED BY <1>2, <1>17, <2>1 DEF Outcome, SetRunning, Places
<1>18. CASE CheckFailed(p, w)
  <2>1. RowStep(p, w, IF status[w] \in Ended THEN "done" ELSE "setFailed")
        BY <1>18 DEF CheckFailed, RowStep, At, Pc, rows
  <2> QED BY <1>2, <1>18, <2>1 DEF Outcome, CheckFailed, Places
<1>19. CASE SetFailed(p, w)
  <2>1. RowStep(p, w, "tellFailed")
        BY <1>1, <1>3, <1>19 DEF SetFailed, RowStep, At, Pc
  <2> QED BY <1>2, <1>19, <2>1 DEF Outcome, SetFailed, Places
<1>20. CASE KillSession(p, w)
  <2>1. SessionStep(p, w, "setStopped")
        BY <1>1, <1>3, <1>4, <1>20 DEF KillSession, SessionStep, At, Pc, rows
  <2> QED BY <1>2, <1>20, <2>1 DEF Outcome, KillSession, Places
<1>21. CASE SetStopping(p, w)
  <2>1. RowStep(p, w, "done")
        BY <1>1, <1>3, <1>21 DEF SetStopping, RowStep, At, Pc
  <2> QED BY <1>2, <1>21, <2>1 DEF Outcome, SetStopping, Places
<1>22. CASE SetStopped(p, w)
  <2>1. RowStep(p, w, "tellStopped")
        BY <1>1, <1>3, <1>22 DEF SetStopped, RowStep, At, Pc
  <2> QED BY <1>2, <1>22, <2>1 DEF Outcome, SetStopped, Places
<1>23. CASE SetName(p, w)
  <2>1. RowStep(p, w, "done")
        BY <1>1, <1>3, <1>23 DEF SetName, RowStep, At, Pc
  <2> QED BY <1>2, <1>23, <2>1 DEF Outcome, SetName, Places
<1>24. CASE Audit(p, w)
  <2>1. AuditStep(p, w, "done")
        BY <1>1, <1>3, <1>24 DEF Audit, AuditStep, Pc, rows
  <2> QED BY <1>2, <1>24, <2>1 DEF Outcome, Audit, Places
<1> QED BY <1>11, <1>12, <1>13, <1>14, <1>15, <1>16, <1>17, <1>18, <1>19, <1>20, <1>21,
           <1>22, <1>23, <1>24 DEF Step, Worker, Goal

\* All that the parts of the invariant need to know of a step.
LEMMA StepFacts ==
    ASSUME TypeOK, Consistent, NEW p \in Processes, Step(p)
    PROVE  /\ InFlight(p) /\ Worker(p) \in Workers /\ Belongs(Pc(p), Op(p))
           /\ \E c \in Places \ {"idle"} :
                  /\ Outcome(p, c)
                  /\ c # "done" => /\ InFlight(p)' /\ Pc(p)' = c /\ Op(p)' = Op(p)
                                   /\ Worker(p)' = Worker(p) /\ req'[p].name = req[p].name
                  /\ c = "done" => /\ ~InFlight(p)' /\ Pc(p)' \in {"idle", "done"}
                                   /\ Op(p)' = "none" /\ Worker(p)' = NoWorker
           /\ \A q \in Processes \ {p} :
                  /\ InFlight(q)' = InFlight(q) /\ Pc(q)' = Pc(q) /\ Op(q)' = Op(q)
                  /\ Worker(q)' = Worker(q) /\ req'[q].name = req[q].name
<1>1. InFlight(p) /\ Worker(p) \in Workers
      BY StepEffect
<1>2. PICK c \in Places \ {"idle"} : Goto(p, c) /\ Outcome(p, c)
      BY StepOutcome
<1>3. /\ \A q \in Processes \ {p} : req'[q] = req[q]
      /\ c # "done" => /\ InFlight(p)' /\ req'[p].pc = c /\ req'[p].op = req[p].op
                       /\ req'[p].worker = req[p].worker /\ req'[p].name = req[p].name
      /\ c = "done" => /\ ~InFlight(p)' /\ req'[p].op = "none"
                       /\ req'[p].worker = NoWorker
      BY <1>1, <1>2, GotoEffect
<1>4. Belongs(Pc(p), Op(p))
      BY <1>1 DEF Consistent
<1> QED BY <1>1, <1>2, <1>3, <1>4 DEF InFlight, Worker, Op, Pc

LEMMA StepIsNew ==
    ASSUME TypeOK, Consistent, AbsentIsNew, NEW p \in Processes, Step(p)
    PROVE  AbsentIsNew'
<1> DEFINE w == Worker(p)
<1>1. /\ InFlight(p) /\ w \in Workers /\ Belongs(Pc(p), Op(p))
      /\ \A q \in Processes \ {p} :
             /\ InFlight(q)' = InFlight(q) /\ Pc(q)' = Pc(q) /\ Op(q)' = Op(q)
             /\ Worker(q)' = Worker(q)
      BY StepFacts
<1>2. PICK c \in Places \ {"idle"} :
          /\ Outcome(p, c)
          /\ c # "done" => /\ InFlight(p)' /\ Pc(p)' = c /\ Op(p)' = Op(p)
                           /\ Worker(p)' = Worker(p)
          /\ c = "done" => /\ ~InFlight(p)' /\ Op(p)' = "none"
      BY StepFacts
<1>3. /\ \A v \in Workers \ {w} :
             status'[v] = status[v] /\ session'[v] = session[v] /\ log'[v] = log[v]
      /\ todo' = todo
      BY StepEffect
<1>4. status'[w] # "absent" /\ c # "insert"
  <2>1. status[w] = "absent" <=> Pc(p) = "insert"
        BY <1>1 DEF AbsentIsNew
  <2> QED BY <1>2, <2>1 DEF Outcome, SessionStep, ProbeStep, RowStep, AuditStep, SameStatus, Told
<1>5. \A v \in Workers : status'[v] = "absent" =>
          session'[v] = "none" /\ log'[v] = <<>> /\ v \notin todo'
      BY <1>3, <1>4 DEF AbsentIsNew
<1>6. \A g, h \in Handlers :
          Op(g)' = "start" /\ Op(h)' = "start" /\ Worker(g)' = Worker(h)' => g = h
      BY <1>1, <1>2 DEF AbsentIsNew, Processes
<1>7. ASSUME NEW q \in Processes, InFlight(q)'
      PROVE  status'[Worker(q)'] = "absent" <=> Pc(q)' = "insert"
  <2>1. CASE q = p
        BY <1>2, <1>4, <1>7, <2>1
  <2>2. CASE q # p /\ Worker(q) # w
    <3>1. Worker(q) \in Workers
          BY <1>1, <1>7, <2>2 DEF TypeOK, Worker
    <3> QED BY <1>1, <1>3, <1>7, <2>2, <3>1 DEF AbsentIsNew
  <2>3. CASE q # p /\ Worker(q) = w
    <3>1. ASSUME Pc(q) = "insert" PROVE FALSE
      <4>1. status[w] = "absent" /\ Pc(p) = "insert"
            BY <1>1, <1>7, <2>3, <3>1 DEF AbsentIsNew
      <4>2. Belongs("insert", Op(q)) /\ Belongs("insert", Op(p))
            BY <1>1, <1>7, <2>3, <3>1, <4>1 DEF Consistent
      <4>3. Op(p) = "start" /\ Op(q) = "start" /\ p # Boot /\ q # Boot
            BY <1>1, <1>7, <2>3, <4>2 DEF Belongs, Consistent
      <4> QED BY <4>3, <2>3 DEF AbsentIsNew, Processes
    <3> QED BY <1>1, <1>4, <2>3, <3>1
  <2> QED BY <2>1, <2>2, <2>3
<1> QED BY <1>5, <1>6, <1>7 DEF AbsentIsNew

LEMMA NewStep ==
    ASSUME TypeOK, Consistent, AbsentIsNew, [Next]_vars
    PROVE  AbsentIsNew'
<1>0. Handlers \subseteq Processes /\ Boot \in Processes /\ Boot \notin Handlers
      BY WorkersAssumption DEF Processes
<1>1. ASSUME NEW h \in Handlers, NEW w \in Workers, Beginning(h, w)
      PROVE  AbsentIsNew'
  <2>1. PICK op \in {"start", "stop", "kill", "look", "rename"},
             pc \in {"insert", "probe", "kill", "setName"}, n \in Names \cup {NoName} :
            /\ Begin(h, op, pc, w, n)
            /\ (op = "start" <=> pc = "insert") /\ (status[w] = "absent" <=> pc = "insert")
            /\ op = "start" => \A g \in Handlers : req[g].worker # w
        BY <1>1, BeginKinds DEF Live
  <2>2. /\ req'[h].op = op /\ req'[h].pc = pc /\ req'[h].worker = w
        /\ \A p \in Processes \ {h} : req'[p] = req[p]
        /\ UNCHANGED <<rows, session, log, todo>>
        BY <2>1, BeginEffect DEF Ops, Places
  <2> QED BY <1>0, <2>1, <2>2 DEF AbsentIsNew, InFlight, Worker, Op, Pc, rows
<1>2. ASSUME NEW p \in Processes, Step(p)
      PROVE  AbsentIsNew'
      BY <1>2, StepIsNew
<1>3. ASSUME NEW w \in Workers, SessionUp(w) \/ SessionExits(w)
      PROVE  AbsentIsNew'
  <2>1. \A v \in Workers : session[v] = "none" => session'[v] = "none"
        BY <1>3 DEF SessionUp, SessionExits, TypeOK
  <2> QED BY <1>3, <2>1 DEF AbsentIsNew, SessionUp, SessionExits, rows, InFlight, Worker, Op, Pc
<1>4. ASSUME NEW w \in Workers, Reconcile(w)
      PROVE  AbsentIsNew'
  <2>1. status[w] # "absent" /\ todo' = todo \ {w} /\ UNCHANGED <<rows, session, log>>
        BY <1>4 DEF Reconcile, AbsentIsNew
  <2>2. /\ req'[Boot].op = "boot" /\ req'[Boot].pc = "probe" /\ req'[Boot].worker = w
        /\ \A p \in Handlers : req'[p] = req[p] /\ ~InFlight(p)
        BY <1>4, ReconcileEffect
  <2> QED BY <1>0, <2>1, <2>2 DEF AbsentIsNew, InFlight, Worker, Op, Pc, rows, Processes
<1>5. CASE Crash
  <2>1. /\ todo' = {} /\ UNCHANGED <<rows, log>>
        BY <1>5 DEF Crash
  <2>2. \A p \in Processes : ~InFlight(p)' /\ Op(p)' = "none"
        BY <1>5, CrashEffect, ConsistentStep DEF Next, Consistent
  <2>3. \A w \in Workers : session[w] = "none" => session'[w] = "none"
        BY <1>5, CrashEffect
  <2> QED BY <1>0, <2>1, <2>2, <2>3 DEF AbsentIsNew, rows
<1>6. CASE ReadRows
      BY <1>6 DEF ReadRows, AbsentIsNew, InFlight, Worker, Op, Pc, rows, Live
<1>7. CASE Serve \/ UNCHANGED vars
      BY <1>7 DEF Serve, vars, AbsentIsNew, InFlight, Worker, Op, Pc, rows
<1> QED BY <1>1, <1>2, <1>3, <1>4, <1>5, <1>6, <1>7, NextKinds

LEMMA StepFresh ==
    ASSUME TypeOK, Consistent, OverlapIsMet, AbsentIsNew, Fresh, NEW p \in Processes, Step(p)
    PROVE  Fresh'
<1> DEFINE w == Worker(p)
<1>1. /\ InFlight(p) /\ w \in Workers /\ Belongs(Pc(p), Op(p))
      /\ \A q \in Processes \ {p} :
             /\ InFlight(q)' = InFlight(q) /\ Pc(q)' = Pc(q) /\ Op(q)' = Op(q)
             /\ Worker(q)' = Worker(q)
      BY StepFacts
<1>2. PICK c \in Places \ {"idle"} :
          /\ Outcome(p, c)
          /\ c # "done" => /\ InFlight(p)' /\ Pc(p)' = c /\ Op(p)' = Op(p)
                           /\ Worker(p)' = Worker(p)
          /\ c = "done" => /\ ~InFlight(p)' /\ Worker(p)' = NoWorker
      BY StepFacts
<1>3. /\ \A v \in Workers \ {w} : status'[v] = status[v]
      /\ UNCHANGED <<server, todo, met>>
      BY StepEffect
<1>4. ASSUME Seen(p), c # "done"
      PROVE  Seen(p)'
  <2>1. Pc(p)' = c /\ Op(p)' = Op(p) /\ Worker(p)' = w
        BY <1>2, <1>4
  <2>2. CASE SessionStep(p, w, c)
        BY <1>1, <1>4, <2>1, <2>2 DEF SessionStep, Seen, SameStatus, Belongs, Telling
  <2>3. CASE ProbeStep(p, w, c)
        BY <1>1, <1>4, <2>1, <2>3 DEF ProbeStep, Seen, SameStatus, Belongs, Telling, Live
  <2>4. CASE RowStep(p, w, c)
        BY <1>1, <1>4, <2>1, <2>4 DEF RowStep, Seen, SameStatus, Belongs, Telling, Live, Ended
  <2>5. CASE AuditStep(p, w, c)
        BY <1>4, <2>5 DEF AuditStep
  <2> QED BY <1>2, <2>2, <2>3, <2>4, <2>5 DEF Outcome
<1>5. ASSUME NEW q \in Processes, InFlight(q)', Worker(q)' \notin met' \/ q = Boot
      PROVE  Seen(q)'
  <2>1. CASE q = p
        BY <1>2, <1>3, <1>4, <1>5, <2>1, <1>1 DEF Fresh
  <2>2. CASE q # p
    <3>1. Worker(q) # w
          BY <1>1, <1>3, <1>5, <2>2, AloneUnlessMet, WorkersAssumption
    <3>2. Worker(q) \in Workers /\ Seen(q)
          BY <1>1, <1>3, <1>5, <2>2 DEF TypeOK, Fresh, Worker
    <3> QED BY <1>1, <1>3, <2>2, <3>1, <3>2 DEF Seen
  <2> QED BY <2>1, <2>2
<1>6. Worker(Boot)' \notin todo'
  <2>1. Boot \in Processes /\ todo \subseteq Workers
        BY DEF TypeOK, Processes
  <2> QED BY <1>1, <1>2, <1>3, <2>1, WorkersAssumption DEF Fresh
<1>7. ASSUME NEW v \in todo
      PROVE  status'[v] \in Live
  <2>1. p = Boot
        BY <1>1, <1>7 DEF Fresh, TypeOK
  <2> QED BY <1>3, <1>7, <2>1 DEF Fresh, TypeOK
<1> QED BY <1>3, <1>5, <1>6, <1>7 DEF Fresh, Processes

LEMMA FreshStep ==
    ASSUME TypeOK, Consistent, OverlapIsMet, AbsentIsNew, Fresh, [Next]_vars
    PROVE  Fresh'
<1>0. Handlers \subseteq Processes /\ Boot \in Processes /\ Boot \notin Handlers
      BY WorkersAssumption DEF Processes
<1>1. ASSUME NEW h \in Handlers, NEW w \in Workers, Beginning(h, w)
      PROVE  Fresh'
  <2>1. PICK op \in {"start", "stop", "kill", "look", "rename"},
             pc \in {"insert", "probe", "kill", "setName"}, n \in Names \cup {NoName} :
            /\ Begin(h, op, pc, w, n)
            /\ pc = "kill" \/ (op # "start" /\ pc = "probe") => status[w] \in Live
            /\ op = "start" => pc = "insert"
        BY <1>1, BeginKinds
  <2>2. /\ req'[h].op = op /\ req'[h].pc = pc /\ req'[h].worker = w
        /\ \A p \in Processes \ {h} : req'[p] = req[p]
        /\ met \subseteq met' /\ UNCHANGED <<rows, todo, server>>
        BY <2>1, BeginEffect DEF Ops, Places
  <2>3. Seen(h)'
        BY <2>1, <2>2 DEF Seen, Worker, Op, Pc, rows, Telling
  <2>4. \A q \in Processes \ {h} : /\ InFlight(q)' = InFlight(q) /\ Worker(q)' = Worker(q)
                                   /\ Seen(q)' = Seen(q)
        BY <2>2 DEF Seen, InFlight, Worker, Op, Pc, rows
  <2> QED BY <1>0, <2>2, <2>3, <2>4 DEF Fresh, rows
<1>2. ASSUME NEW p \in Processes, Step(p)
      PROVE  Fresh'
      BY <1>2, StepFresh
<1>3. ASSUME NEW w \in Workers, Reconcile(w)
      PROVE  Fresh'
  <2>1. /\ w \in todo /\ todo' = todo \ {w} /\ UNCHANGED <<rows, server, met>>
        BY <1>3 DEF Reconcile, history
  <2>2. /\ req'[Boot].op = "boot" /\ req'[Boot].pc = "probe" /\ req'[Boot].worker = w
        /\ \A p \in Handlers : req'[p] = req[p] /\ ~InFlight(p)
        BY <1>3, ReconcileEffect
  <2>3. Seen(Boot)' /\ Worker(Boot)' = w
        BY <2>1, <2>2 DEF Seen, Worker, Op, Pc, rows, Telling, Fresh
  <2>4. \A q \in Handlers : ~InFlight(q)'
        BY <2>2 DEF InFlight
  <2> QED BY <1>0, <2>1, <2>3, <2>4 DEF Fresh, rows, Processes
<1>4. CASE Crash
  <2>1. todo' = {} /\ \A p \in Processes : ~InFlight(p)'
        BY <1>4, CrashEffect DEF Crash
  <2> QED BY <1>0, <2>1 DEF Fresh
<1>5. CASE ReadRows
  <2>1. \A p \in Processes : ~InFlight(p)' /\ Worker(p)' = NoWorker
        BY <1>5 DEF ReadRows, TypeOK, Consistent, InFlight, Worker
  <2>2. todo' = {w \in Workers : status[w] \in Live} /\ server' = "booting" /\ status' = status
        BY <1>5 DEF ReadRows, rows
  <2> QED BY <1>0, <2>1, <2>2, WorkersAssumption DEF Fresh
<1>6. CASE Serve
      BY <1>6 DEF Serve, Fresh, Seen, InFlight, Worker, Op, Pc, rows, history
<1>7. CASE UNCHANGED <<rows, req, todo, server, met>>
      BY <1>7 DEF Fresh, Seen, InFlight, Worker, Op, Pc, rows
<1> QED BY <1>1, <1>2, <1>3, <1>4, <1>5, <1>6, <1>7, NextKinds
        DEF vars, SessionUp, SessionExits, history

\* Only the insertion of a row makes a worker one that starts.
LEMMA StepStarts ==
    ASSUME TypeOK, Consistent, AbsentIsNew, NEW p \in Processes, Step(p),
           NEW v \in Workers, status'[v] = "starting"
    PROVE  \/ status[v] = "starting"
           \/ /\ v = Worker(p) /\ Pc(p) = "insert" /\ status[v] = "absent"
              /\ InFlight(p)' /\ Worker(p)' = v /\ Op(p)' = "start"
<1>1. /\ InFlight(p) /\ Worker(p) \in Workers /\ Belongs(Pc(p), Op(p))
      BY StepFacts
<1>2. PICK c \in Places \ {"idle"} :
          /\ Outcome(p, c)
          /\ c # "done" => /\ InFlight(p)' /\ Pc(p)' = c /\ Op(p)' = Op(p)
                           /\ Worker(p)' = Worker(p)
      BY StepFacts
<1>3. CASE v # Worker(p)
      BY <1>3, StepEffect
<1>4. CASE v = Worker(p)
  <2>1. status[v] = "absent" <=> Pc(p) = "insert"
        BY <1>1, <1>4 DEF AbsentIsNew
  <2> QED BY <1>1, <1>2, <1>4, <2>1 DEF Outcome, SessionStep, ProbeStep, RowStep, AuditStep,
             SameStatus, Belongs
<1> QED BY <1>3, <1>4

LEMMA StepSettles ==
    ASSUME TypeOK, Consistent, AbsentIsNew, Fresh, StartsSettle, StartingIsUnderWay,
           NEW p \in Processes, Step(p)
    PROVE  StartsSettle' /\ StartingIsUnderWay'
<1> DEFINE w == Worker(p)
<1>0. Handlers \subseteq Processes /\ Boot \in Processes /\ Boot \notin Handlers
      BY WorkersAssumption DEF Processes
<1>1. /\ InFlight(p) /\ w \in Workers /\ Belongs(Pc(p), Op(p))
      /\ \A q \in Processes \ {p} :
             /\ InFlight(q)' = InFlight(q) /\ Pc(q)' = Pc(q) /\ Op(q)' = Op(q)
             /\ Worker(q)' = Worker(q)
      BY StepFacts
<1>2. PICK c \in Places \ {"idle"} :
          /\ Outcome(p, c)
          /\ c # "done" => /\ InFlight(p)' /\ Pc(p)' = c /\ Op(p)' = Op(p)
                           /\ Worker(p)' = Worker(p)
          /\ c = "done" => /\ ~InFlight(p)' /\ Pc(p)' \in {"idle", "done"}
                           /\ Worker(p)' = NoWorker
      BY StepFacts
<1>3. UNCHANGED <<server, todo>>
      BY StepEffect
<1>4. Op(p) \in {"start", "boot"} /\ c = "done" => status'[w] # "starting"
  <2>1. Op(p) = "start" => p \in Handlers
        BY <1>1 DEF Consistent, Processes
  <2>2. Op(p) = "boot" => p = Boot
        BY <1>1 DEF Consistent
  <2>3. CASE AuditStep(p, w, c)
    <3>1. Pc(p) \in {"tellStarted", "tellFailed", "tellStopped"}
          BY <2>3 DEF AuditStep, Told
    <3>2. Op(p) = "boot" => status[w] \in Ended
          BY <1>1, <2>2, <3>1 DEF Belongs, Fresh, Seen, Telling
    <3>3. Op(p) = "start" => status[w] # "starting"
          BY <1>1, <2>1, <3>1 DEF Belongs, StartsSettle
    <3> QED BY <2>3, <3>2, <3>3 DEF AuditStep, SameStatus, Ended
  <2>4. CASE ~AuditStep(p, w, c)
        BY <1>1, <1>2, <2>4 DEF Outcome, SessionStep, ProbeStep, RowStep, SameStatus, Belongs, Ended
  <2> QED BY <2>3, <2>4
<1>5. ASSUME NEW h \in Handlers, Pc(h)' \in {"tellStarted", "tellFailed"}
      PROVE  status'[Worker(h)'] # "starting"
  <2>1. CASE h = p
        BY <1>2, <1>5, <2>1 DEF Outcome, SessionStep, ProbeStep, RowStep, AuditStep
  <2>2. CASE h # p
    <3>1. Pc(h) \in {"tellStarted", "tellFailed"} /\ Worker(h)' = Worker(h)
          BY <1>0, <1>1, <1>5, <2>2
    <3>2. InFlight(h) /\ Worker(h) \in Workers /\ status[Worker(h)] # "absent"
          BY <1>0, <3>1 DEF InFlight, Pc, Worker, TypeOK, AbsentIsNew
    <3>3. status[Worker(h)] # "starting"
          BY <3>1 DEF StartsSettle
    <3> QED BY <3>1, <3>2, <3>3, StepStarts
  <2> QED BY <2>1, <2>2
<1>6. ASSUME server = "booting", NEW v \in Workers, status'[v] = "starting"
      PROVE  v \in todo \/ Worker(Boot)' = v
  <2>1. p = Boot /\ Op(p) = "boot" /\ Pc(p) # "insert"
        BY <1>1, <1>6 DEF TypeOK, Consistent, Belongs
  <2>2. status[v] = "starting"
        BY <1>6, <2>1, StepStarts
  <2>3. v \in todo \/ w = v
        BY <1>6, <2>1, <2>2 DEF StartsSettle
  <2> QED BY <1>2, <1>4, <1>6, <2>1, <2>3
<1>7. ASSUME server = "up", NEW v \in Workers, status'[v] = "starting"
      PROVE  \E h \in Handlers : Worker(h)' = v /\ Op(h)' = "start"
  <2>0. p \in Handlers
        BY <1>1, <1>7 DEF TypeOK, Processes
  <2>1. CASE status[v] # "starting"
        BY <1>7, <2>0, <2>1, StepStarts
  <2>2. CASE status[v] = "starting"
    <3>1. PICK h \in Handlers : Worker(h) = v /\ Op(h) = "start"
          BY <1>7, <2>2 DEF StartingIsUnderWay, Worker, Op
    <3>2. CASE h # p
          BY <1>0, <1>1, <3>1, <3>2
    <3>3. CASE h = p
          BY <1>2, <1>4, <1>7, <3>1, <3>3
    <3> QED BY <3>2, <3>3
  <2> QED BY <2>1, <2>2
<1> QED BY <1>3, <1>5, <1>6, <1>7 DEF StartsSettle, StartingIsUnderWay, Worker, Op

LEMMA SettleStep ==
    ASSUME TypeOK, Consistent, AbsentIsNew, Fresh, StartsSettle, StartingIsUnderWay, [Next]_vars
    PROVE  StartsSettle' /\ StartingIsUnderWay'
<1>0. Handlers \subseteq Processes /\ Boot \in Processes /\ Boot \notin Handlers
      BY WorkersAssumption DEF Processes
<1>1. ASSUME NEW h \in Handlers, NEW w \in Workers, Beginning(h, w)
      PROVE  StartsSettle' /\ StartingIsUnderWay'
  <2>1. PICK op \in {"start", "stop", "kill", "look", "rename"},
             pc \in {"insert", "probe", "kill", "setName"}, n \in Names \cup {NoName} :
            Begin(h, op, pc, w, n)
        BY <1>1, BeginKinds
  <2>2. /\ req'[h].pc = pc /\ server = "up" /\ At(h, "idle")
        /\ \A p \in Processes \ {h} : req'[p] = req[p]
        /\ UNCHANGED <<rows, todo, server>>
        BY <2>1, BeginEffect DEF Ops, Places
  <2>3. Op(h) = "none"
        BY <1>0, <2>2 DEF Consistent, InFlight, At
  <2> QED BY <1>0, <2>1, <2>2, <2>3 DEF StartsSettle, StartingIsUnderWay, Worker, Op, Pc, rows
<1>2. ASSUME NEW p \in Processes, Step(p)
      PROVE  StartsSettle' /\ StartingIsUnderWay'
      BY <1>2, StepSettles
<1>3. ASSUME NEW w \in Workers, Reconcile(w)
      PROVE  StartsSettle' /\ StartingIsUnderWay'
  <2>1. /\ server = "booting" /\ todo' = todo \ {w} /\ UNCHANGED <<rows, server>>
        /\ At(Boot, "idle")
        BY <1>3 DEF Reconcile
  <2>2. /\ req'[Boot].worker = w
        /\ \A p \in Handlers : req'[p] = req[p]
        BY <1>3, ReconcileEffect
  <2>3. Worker(Boot) \notin Workers
        BY <1>0, <2>1, WorkersAssumption DEF Consistent, InFlight, At
  <2> QED BY <1>0, <2>1, <2>2, <2>3 DEF StartsSettle, StartingIsUnderWay, Worker, Op, Pc, rows
<1>4. CASE Crash
  <2>1. server' = "down"
        BY <1>4 DEF Crash
  <2>2. \A p \in Processes : ~InFlight(p)'
        BY <1>4, CrashEffect
  <2> QED BY <1>0, <2>1, <2>2 DEF StartsSettle, StartingIsUnderWay, InFlight, Pc
<1>5. CASE ReadRows
  <2>1. /\ todo' = {w \in Workers : status[w] \in Live} /\ server' = "booting"
        /\ UNCHANGED <<rows, req>>
        BY <1>5 DEF ReadRows
  <2> QED BY <2>1 DEF StartsSettle, StartingIsUnderWay, Worker, Op, Pc, rows, Live
<1>6. CASE Serve
  <2>1. /\ server = "booting" /\ server' = "up" /\ todo = {} /\ At(Boot, "idle")
        /\ UNCHANGED <<rows, req>>
        BY <1>6 DEF Serve
  <2>2. Worker(Boot) \notin Workers
        BY <1>0, <2>1, WorkersAssumption DEF Consistent, InFlight, At
  <2> QED BY <2>1, <2>2 DEF StartsSettle, StartingIsUnderWay, Worker, Op, Pc, rows
<1>7. CASE UNCHANGED <<rows, req, todo, server>>
      BY <1>7 DEF StartsSettle, StartingIsUnderWay, Worker, Op, Pc, rows
<1> QED BY <1>1, <1>2, <1>3, <1>4, <1>5, <1>6, <1>7, NextKinds
        DEF vars, SessionUp, SessionExits

LEMMA LogGrows ==
    ASSUME NEW T, NEW s \in Seq(T), NEW e \in T
    PROVE  /\ \A i \in DOMAIN s : i \in DOMAIN Append(s, e) /\ Append(s, e)[i] = s[i]
           /\ Len(s) + 1 \in DOMAIN Append(s, e) /\ Append(s, e)[Len(s) + 1] = e
           /\ \A i \in DOMAIN Append(s, e) : i \in DOMAIN s \/ i = Len(s) + 1
           /\ \A i \in DOMAIN s : i \in Nat /\ i < Len(s) + 1
           /\ Len(s) + 1 \in Nat
OBVIOUS

LEMMA StepAnnounces ==
    ASSUME TypeOK, Consistent, EndIsAnnounced, NEW p \in Processes, Step(p)
    PROVE  EndIsAnnounced'
<1> DEFINE w == Worker(p)
<1>1. /\ InFlight(p) /\ w \in Workers
      /\ \A q \in Processes \ {p} : Pc(q)' = Pc(q) /\ Worker(q)' = Worker(q)
      BY StepFacts
<1>2. PICK c \in Places \ {"idle"} :
          /\ Outcome(p, c)
          /\ c # "done" => Pc(p)' = c /\ Worker(p)' = Worker(p)
      BY StepFacts
<1>3. /\ \A v \in Workers \ {w} : status'[v] = status[v] /\ log'[v] = log[v]
      /\ cut' = cut
      BY StepEffect
<1>4. log[w] \in Seq({"started", "finished", "failed"})
      BY <1>1 DEF TypeOK
<1> SUFFICES ASSUME NEW v \in Workers, status'[v] \in Ended
             PROVE  \/ \E i \in DOMAIN log'[v] : log'[v][i] \in {"finished", "failed"}
                    \/ \E q \in Processes : Worker(q)' = v /\ Pc(q)' \in Telling
                    \/ v \in cut'
    BY DEF EndIsAnnounced, Worker, Pc, Telling
<1>5. ASSUME status[v] \in Ended
      PROVE  \/ \E i \in DOMAIN log[v] : log[v][i] \in {"finished", "failed"}
             \/ \E q \in Processes : Worker(q) = v /\ Pc(q) \in Telling
             \/ v \in cut
      BY <1>5 DEF EndIsAnnounced, Worker, Pc, Telling
<1>6. CASE v # w
  <2>1. \A q \in Processes : Worker(q) = v => q # p
        BY <1>6
  <2> QED BY <1>1, <1>3, <1>5, <1>6, <2>1
<1>7. CASE v = w /\ AuditStep(p, w, c)
  <2>1. /\ Told[Pc(p)] \in {"started", "finished", "failed"}
        /\ Pc(p) \in Telling => Told[Pc(p)] \in {"finished", "failed"}
        BY <1>7 DEF AuditStep, Told, Telling
  <2>2. log'[w] = Append(log[w], Told[Pc(p)]) /\ status'[w] = status[w]
        BY <1>7 DEF AuditStep, SameStatus
  <2>3. CASE Pc(p) \in Telling
    <3>1. /\ Len(log[w]) + 1 \in DOMAIN log'[w]
          /\ log'[w][Len(log[w]) + 1] = Told[Pc(p)]
          BY <1>4, <2>1, <2>2, LogGrows
    <3> QED BY <1>7, <2>1, <2>3, <3>1
  <2>4. CASE Pc(p) \notin Telling
    <3>1. \A i \in DOMAIN log[w] : i \in DOMAIN log'[w] /\ log'[w][i] = log[w][i]
          BY <1>4, <2>1, <2>2, LogGrows
    <3>2. \A q \in Processes : Pc(q) \in Telling => q # p
          BY <2>4
    <3> QED BY <1>1, <1>3, <1>5, <1>7, <2>2, <3>1, <3>2
  <2> QED BY <2>3, <2>4
<1>8. CASE v = w /\ ~AuditStep(p, w, c)
  <2>1. log'[w] = log[w] /\ Pc(p) \notin Telling
        BY <1>2, <1>8 DEF Outcome, SessionStep, ProbeStep, RowStep, SameLog, Telling
  <2>2. status[w] \in Ended \/ c \in Telling
        BY <1>2, <1>8 DEF Outcome, SessionStep, ProbeStep, RowStep, SameStatus, Telling, Ended
  <2>3. CASE c \in Telling
        BY <1>2, <1>8, <2>3 DEF Telling
  <2>4. CASE status[w] \in Ended
    <3>1. \A q \in Processes : Pc(q) \in Telling => q # p
          BY <2>1
    <3> QED BY <1>1, <1>3, <1>5, <1>8, <2>1, <2>4, <3>1
  <2> QED BY <2>2, <2>3, <2>4
<1> QED BY <1>6, <1>7, <1>8

LEMMA AnnounceStep ==
    ASSUME TypeOK, Consistent, EndIsAnnounced, [Next]_vars
    PROVE  EndIsAnnounced'
<1>1. ASSUME NEW h \in Handlers, NEW w \in Workers, Beginning(h, w)
      PROVE  EndIsAnnounced'
  <2>1. PICK op \in {"start", "stop", "kill", "look", "rename"},
             pc \in {"insert", "probe", "kill", "setName"}, n \in Names \cup {NoName} :
            Begin(h, op, pc, w, n)
        BY <1>1, BeginKinds
  <2>2. /\ At(h, "idle") /\ \A p \in Processes \ {h} : req'[p] = req[p]
        /\ UNCHANGED <<rows, log, cut>>
        BY <2>1, BeginEffect DEF Ops, Places
  <2> QED BY <2>2 DEF EndIsAnnounced, At, rows
<1>2. ASSUME NEW p \in Processes, Step(p)
      PROVE  EndIsAnnounced'
      BY <1>2, StepAnnounces
<1>3. ASSUME NEW w \in Workers, Reconcile(w)
      PROVE  EndIsAnnounced'
  <2>1. UNCHANGED <<rows, log, cut>> /\ At(Boot, "idle")
        BY <1>3 DEF Reconcile, history
  <2>2. \A p \in Handlers : req'[p] = req[p]
        BY <1>3, ReconcileEffect
  <2> QED BY <2>1, <2>2 DEF EndIsAnnounced, At, rows, Processes
<1>4. CASE Crash
  <2>1. UNCHANGED <<rows, log>>
        BY <1>4 DEF Crash
  <2>2. cut \subseteq cut' /\ \A p \in Processes : Pc(p) \in Telling => Worker(p) \in cut'
        BY <1>4, CrashEffect
  <2> QED BY <2>1, <2>2 DEF EndIsAnnounced, rows, Telling, Pc, Worker
<1>5. CASE UNCHANGED <<rows, req, log, cut>>
      BY <1>5 DEF EndIsAnnounced, rows
<1> QED BY <1>1, <1>2, <1>3, <1>4, <1>5, NextKinds
        DEF vars, SessionUp, SessionExits, ReadRows, Serve, history

Up(v) == status[v] \in {"running", "starting"}
Chooses(p) == Pc(p) \in {"insert", "setName"}

\* Only a request that writes a name adds to the names of workers that are up.
LEMMA StepNamed ==
    ASSUME TypeOK, Consistent, Fresh, NEW p \in Processes, Step(p),
           NEW v \in Workers \ met, Up(v)'
    PROVE  \/ Up(v) /\ name'[v] = name[v]
           \/ v = Worker(p) /\ Chooses(p) /\ name'[v] = req[p].name
<1>1. /\ InFlight(p) /\ Worker(p) \in Workers /\ Belongs(Pc(p), Op(p))
      BY StepFacts
<1>2. PICK c \in Places \ {"idle"} : Outcome(p, c)
      BY StepFacts
<1>3. CASE v # Worker(p)
      BY <1>3, StepEffect DEF Up
<1>4. CASE v = Worker(p)
  <2>1. Seen(p)
        BY <1>1, <1>4 DEF Fresh
  <2> QED BY <1>1, <1>2, <1>4, <2>1 DEF Outcome, SessionStep, ProbeStep, RowStep, AuditStep,
             SameStatus, SameName, Seen, Up, Chooses, Ended
<1> QED BY <1>3, <1>4

LEMMA ChoosersNeverJoin ==
    ASSUME TypeOK, Consistent, NEW p \in Processes, Step(p), NEW h \in Processes, Chooses(h)'
    PROVE  h # p /\ InFlight(h) /\ Chooses(h)
<1>1. PICK c \in Places \ {"idle"} :
          /\ Outcome(p, c)
          /\ c # "done" => Pc(p)' = c
          /\ c = "done" => Pc(p)' \in {"idle", "done"}
      BY StepFacts
<1>2. h # p
      BY <1>1 DEF Outcome, SessionStep, ProbeStep, RowStep, AuditStep, Chooses
<1>3. Pc(h)' = Pc(h)
      BY <1>2, StepFacts
<1> QED BY <1>2, <1>3 DEF Chooses, InFlight, Pc

LEMMA ChooserNames ==
    ASSUME Consistent, NEW p \in Processes, InFlight(p), Chooses(p)
    PROVE  p \in Handlers /\ Op(p) \in Naming
BY DEF Consistent, Chooses, Belongs, Naming, Processes

LEMMA StepNames ==
    ASSUME TypeOK, Consistent, OverlapIsMet, Fresh, ChosenNamesAreFree, UniqueNames,
           NEW p \in Processes, Step(p)
    PROVE  ChosenNamesAreFree' /\ UniqueNames'
<1>0. Handlers \subseteq Processes /\ Boot \in Processes
      BY DEF Processes
<1>1. /\ InFlight(p) /\ Worker(p) \in Workers
      /\ \A q \in Processes \ {p} : Worker(q)' = Worker(q) /\ req'[q].name = req[q].name
      BY StepFacts
<1>2. met' = met /\ \A v \in Workers \ {Worker(p)} : status'[v] = status[v] /\ name'[v] = name[v]
      BY StepEffect
<1>3. ASSUME NEW h \in Handlers, Chooses(h)', Worker(h)' \notin met',
             NEW v \in Workers \ met', v # Worker(h)', name'[v] = req'[h].name, Up(v)'
      PROVE  FALSE
  <2>1. h # p /\ InFlight(h) /\ Chooses(h)
        BY <1>0, <1>3, ChoosersNeverJoin
  <2>2. Worker(h)' = Worker(h) /\ req'[h].name = req[h].name
        BY <1>0, <1>1, <2>1
  <2>3. CASE v = Worker(p) /\ Chooses(p)
    <3>1. p \in Handlers /\ Op(p) \in Naming /\ Op(h) \in Naming
          BY <1>0, <1>1, <2>1, <2>3, ChooserNames
    <3> QED BY <1>1, <1>2, <1>3, <2>1, <2>2, <3>1 DEF OverlapIsMet
  <2>4. CASE Up(v) /\ name'[v] = name[v]
        BY <1>2, <1>3, <2>1, <2>2, <2>4 DEF ChosenNamesAreFree, Chooses, Up
  <2> QED BY <1>2, <1>3, <2>3, <2>4, StepNamed
<1>4. ASSUME NEW u \in Workers \ met', NEW v \in Workers \ met', u # v, Up(u)', Up(v)',
             name'[u] = name'[v]
      PROVE  FALSE
  <2>1. ASSUME NEW x \in Workers \ met, NEW y \in Workers \ met, x # y, Up(y)',
               name'[x] = name'[y], x = Worker(p), Chooses(p), name'[x] = req[p].name
        PROVE  FALSE
    <3>1. Up(y) /\ name[y] = req[p].name
          BY <1>2, <2>1 DEF Up
    <3>2. p \in Handlers
          BY <1>1, <2>1, ChooserNames
    <3> QED BY <2>1, <3>1, <3>2 DEF ChosenNamesAreFree, Chooses, Up
  <2>2. \/ Up(u) /\ name'[u] = name[u]
        \/ u = Worker(p) /\ Chooses(p) /\ name'[u] = req[p].name
        BY <1>2, <1>4, StepNamed
  <2>3. \/ Up(v) /\ name'[v] = name[v]
        \/ v = Worker(p) /\ Chooses(p) /\ name'[v] = req[p].name
        BY <1>2, <1>4, StepNamed
  <2>4. CASE Up(u) /\ name'[u] = name[u] /\ Up(v) /\ name'[v] = name[v]
        BY <1>2, <1>4, <2>4 DEF UniqueNames, Up
  <2> QED BY <1>2, <1>4, <2>1, <2>2, <2>3, <2>4
<1> QED BY <1>3, <1>4 DEF ChosenNamesAreFree, UniqueNames, Chooses, Up

LEMMA NamesStep ==
    ASSUME TypeOK, Consistent, OverlapIsMet, Fresh, ChosenNamesAreFree, UniqueNames, [Next]_vars
    PROVE  ChosenNamesAreFree' /\ UniqueNames'
<1>0. Handlers \subseteq Processes /\ Boot \in Processes /\ Boot \notin Handlers
      BY WorkersAssumption DEF Processes
<1>1. ASSUME NEW h \in Handlers, NEW w \in Workers, Beginning(h, w)
      PROVE  ChosenNamesAreFree' /\ UniqueNames'
  <2>1. PICK op \in {"start", "stop", "kill", "look", "rename"},
             pc \in {"insert", "probe", "kill", "setName"}, n \in Names \cup {NoName} :
            /\ Begin(h, op, pc, w, n)
            /\ pc \in {"insert", "setName"} => NameFree(n, w)
        BY <1>1, BeginKinds
  <2>2. /\ req'[h].pc = pc /\ req'[h].worker = w /\ req'[h].name = n
        /\ \A p \in Processes \ {h} : req'[p] = req[p]
        /\ met \subseteq met' /\ UNCHANGED rows
        BY <2>1, BeginEffect DEF Ops, Places
  <2>3. UniqueNames'
        BY <2>2 DEF UniqueNames, rows
  <2>4. ChosenNamesAreFree'
        BY <1>0, <2>1, <2>2 DEF ChosenNamesAreFree, NameFree, Worker, Pc, rows
  <2> QED BY <2>3, <2>4
<1>2. ASSUME NEW p \in Processes, Step(p)
      PROVE  ChosenNamesAreFree' /\ UniqueNames'
      BY <1>2, StepNames
<1>3. ASSUME UNCHANGED <<rows, met>>,
             \A h \in Handlers : req'[h] = req[h] \/ ~InFlight(h)'
      PROVE  ChosenNamesAreFree' /\ UniqueNames'
      BY <1>3 DEF ChosenNamesAreFree, UniqueNames, rows, Worker, Pc, InFlight
<1>4. ASSUME NEW w \in Workers, Reconcile(w)
      PROVE  ChosenNamesAreFree' /\ UniqueNames'
      BY <1>3, <1>4, ReconcileEffect DEF Reconcile, history
<1>5. CASE Crash
      BY <1>0, <1>3, <1>5, CrashEffect DEF Crash
<1> QED BY <1>1, <1>2, <1>3, <1>4, <1>5, NextKinds
        DEF vars, SessionUp, SessionExits, ReadRows, Serve, history

AllStarted(l) == \A i \in DOMAIN l : l[i] = "started"
Open(w) == status[w] \notin Ended \/ \E p \in Processes : Worker(p) = w /\ Pc(p) \in Telling

LEMMA StepLogs ==
    ASSUME TypeOK, Consistent, OverlapIsMet, AbsentIsNew, Fresh, LogIsOpen, AuditsTellOneLife,
           NEW p \in Processes, Step(p)
    PROVE  LogIsOpen' /\ AuditsTellOneLife'
<1> DEFINE w == Worker(p)
<1>1. /\ InFlight(p) /\ w \in Workers /\ Belongs(Pc(p), Op(p))
      /\ \A q \in Processes \ {p} : InFlight(q)' = InFlight(q) /\ Pc(q)' = Pc(q)
                                    /\ Worker(q)' = Worker(q)
      BY StepFacts
<1>2. PICK c \in Places \ {"idle"} :
          /\ Outcome(p, c)
          /\ c # "done" => Pc(p)' = c /\ Worker(p)' = Worker(p)
          /\ c = "done" => Worker(p)' = NoWorker /\ Pc(p)' \in {"idle", "done"}
      BY StepFacts
<1>3. /\ \A v \in Workers \ {w} : status'[v] = status[v] /\ log'[v] = log[v]
      /\ met' = met
      BY StepEffect
<1> SUFFICES ASSUME NEW v \in Workers \ met
             PROVE  /\ Open(v)' => AllStarted(log'[v])
                    /\ \A i, j \in DOMAIN log'[v] : i < j => log'[v][i] = "started"
    BY <1>3 DEF LogIsOpen, AuditsTellOneLife, Open, AllStarted
<1>4. /\ Open(v) => AllStarted(log[v])
      /\ \A i, j \in DOMAIN log[v] : i < j => log[v][i] = "started"
      BY DEF LogIsOpen, AuditsTellOneLife, Open, AllStarted
<1>5. CASE v # w
  <2>1. ASSUME NEW q \in Processes, Worker(q)' = v, Pc(q)' \in Telling
        PROVE  Worker(q) = v /\ Pc(q) \in Telling
    <3>1. q # p
          BY <1>2, <1>5, <2>1, WorkersAssumption
    <3> QED BY <1>1, <2>1, <3>1
  <2>2. status'[v] = status[v] /\ log'[v] = log[v]
        BY <1>3, <1>5
  <2>3. Open(v)' => Open(v)
        BY <2>1, <2>2 DEF Open
  <2> QED BY <1>4, <2>2, <2>3
<1>6. CASE v = w
  <2>1. Seen(p)
        BY <1>1, <1>6 DEF Fresh
  <2>2. \A q \in Processes \ {p} : Worker(q)' = w => Pc(q)' \notin Telling
        BY <1>1, <1>3, <1>6, AloneUnlessMet DEF InFlight, Pc, Telling
  <2>3. CASE ~AuditStep(p, w, c)
    <3>1. log'[w] = log[w]
          BY <1>2, <2>3 DEF Outcome, SessionStep, ProbeStep, RowStep, SameLog
    <3>2. status'[w] \notin Ended => status[w] \notin Ended
      <4>1. Pc(p) = "insert" => status[w] = "absent"
            BY <1>1 DEF AbsentIsNew
      <4> QED BY <1>2, <2>1, <2>3, <4>1
              DEF Outcome, SessionStep, ProbeStep, RowStep, SameStatus, Seen, Ended, Live
    <3>3. c \in Telling => status[w] \notin Ended
          BY <1>2, <2>1, <2>3
             DEF Outcome, SessionStep, ProbeStep, RowStep, Seen, Ended, Live, Telling
    <3>4. Open(v)' => Open(v)
          BY <1>2, <1>6, <2>2, <3>2, <3>3 DEF Open, Telling
    <3> QED BY <1>4, <1>6, <3>1, <3>4
  <2>4. CASE AuditStep(p, w, c)
    <3>1. /\ log'[w] = Append(log[w], Told[Pc(p)]) /\ status'[w] = status[w] /\ c = "done"
          /\ Pc(p) \in {"tellStarted", "tellStopped", "tellFailed"}
          /\ Told[Pc(p)] \in {"started", "finished", "failed"}
          /\ Pc(p) = "tellStarted" => Told[Pc(p)] = "started"
          BY <2>4 DEF AuditStep, SameStatus, Told
    <3>2. Open(v)
          BY <1>6, <2>1, <3>1 DEF Open, Seen, Telling, Ended
    <3>3. AllStarted(log[w])
          BY <1>4, <1>6, <3>2
    <3>4. log[w] \in Seq({"started", "finished", "failed"})
          BY <1>1 DEF TypeOK
    <3>5. /\ \A i \in DOMAIN log[w] : i \in Nat /\ i < Len(log[w]) + 1 /\ log'[w][i] = "started"
          /\ \A i \in DOMAIN log'[w] : i \in DOMAIN log[w] \/ i = Len(log[w]) + 1
          /\ log'[w][Len(log[w]) + 1] = Told[Pc(p)] /\ Len(log[w]) + 1 \in Nat
          BY <3>1, <3>3, <3>4, LogGrows DEF AllStarted
    <3>6. \A i, j \in DOMAIN log'[w] : i < j => log'[w][i] = "started"
          BY <3>5
    <3>7. CASE Pc(p) = "tellStarted"
          BY <1>6, <3>1, <3>5, <3>6, <3>7 DEF AllStarted
    <3>8. CASE Pc(p) \in Telling
      <4>1. status'[w] \in Ended
            BY <2>1, <3>1, <3>8 DEF Seen
      <4>2. ~Open(v)'
            BY <1>2, <1>6, <2>2, <3>1, <4>1 DEF Open, Telling
      <4> QED BY <1>6, <3>6, <4>2
    <3> QED BY <3>1, <3>7, <3>8 DEF Telling
  <2> QED BY <2>3, <2>4
<1> QED BY <1>5, <1>6

LEMMA LogsStep ==
    ASSUME TypeOK, Consistent, OverlapIsMet, AbsentIsNew, Fresh, LogIsOpen, AuditsTellOneLife,
           [Next]_vars
    PROVE  LogIsOpen' /\ AuditsTellOneLife'
<1>0. Handlers \subseteq Processes /\ Boot \in Processes /\ Boot \notin Handlers
      BY WorkersAssumption DEF Processes
<1>1. ASSUME UNCHANGED <<rows, log>>, met \subseteq met',
             \A p \in Processes : Pc(p)' \in Telling => req'[p] = req[p]
      PROVE  LogIsOpen' /\ AuditsTellOneLife'
  <2>1. \A p \in Processes : Pc(p)' \in Telling => Pc(p) \in Telling /\ Worker(p)' = Worker(p)
        BY <1>1 DEF Pc, Worker
  <2> QED BY <1>1, <2>1 DEF LogIsOpen, AuditsTellOneLife, rows
<1>2. ASSUME NEW h \in Handlers, NEW w \in Workers, Beginning(h, w)
      PROVE  LogIsOpen' /\ AuditsTellOneLife'
  <2>1. PICK op \in {"start", "stop", "kill", "look", "rename"},
             pc \in {"insert", "probe", "kill", "setName"}, n \in Names \cup {NoName} :
            Begin(h, op, pc, w, n)
        BY <1>2, BeginKinds
  <2>2. /\ req'[h].pc = pc /\ \A p \in Processes \ {h} : req'[p] = req[p]
        /\ met \subseteq met' /\ UNCHANGED <<rows, log>>
        BY <2>1, BeginEffect DEF Ops, Places
  <2>3. Pc(h)' \notin Telling
        BY <2>1, <2>2 DEF Pc, Telling
  <2> QED BY <1>1, <2>2, <2>3
<1>3. ASSUME NEW p \in Processes, Step(p)
      PROVE  LogIsOpen' /\ AuditsTellOneLife'
      BY <1>3, StepLogs
<1>4. ASSUME NEW w \in Workers, Reconcile(w)
      PROVE  LogIsOpen' /\ AuditsTellOneLife'
  <2>1. /\ req'[Boot].pc = "probe" /\ \A p \in Handlers : req'[p] = req[p]
        BY <1>4, ReconcileEffect
  <2>2. UNCHANGED <<rows, log, met>>
        BY <1>4 DEF Reconcile, history
  <2> QED BY <1>1, <2>1, <2>2 DEF Pc, Telling, Processes
<1>5. CASE Crash
  <2>1. \A p \in Processes : Pc(p)' \notin Telling
        BY <1>5, CrashEffect DEF InFlight, Pc, Telling
  <2> QED BY <1>1, <1>5, <2>1 DEF Crash
<1>6. CASE UNCHANGED <<rows, log, met, req>>
      BY <1>1, <1>6
<1> QED BY <1>2, <1>3, <1>4, <1>5, <1>6, NextKinds
        DEF vars, SessionUp, SessionExits, ReadRows, Serve, history

LEMMA StepDies ==
    ASSUME TypeOK, Consistent, OverlapIsMet, AbsentIsNew, Fresh, EndingIsDead, EndedIsDead,
           NEW p \in Processes, Step(p)
    PROVE  EndingIsDead' /\ EndedIsDead'
<1> DEFINE w == Worker(p)
           Ending(q) == Pc(q) \in {"fail", "setFailed", "setStopped"}
<1>0. Handlers \subseteq Processes /\ Boot \in Processes
      BY DEF Processes
<1>1. /\ InFlight(p) /\ w \in Workers /\ Belongs(Pc(p), Op(p))
      /\ \A q \in Processes \ {p} : InFlight(q)' = InFlight(q) /\ Pc(q)' = Pc(q)
                                    /\ Worker(q)' = Worker(q)
      BY StepFacts
<1>2. PICK c \in Places \ {"idle"} :
          /\ Outcome(p, c)
          /\ c # "done" => Pc(p)' = c /\ Worker(p)' = Worker(p)
          /\ c = "done" => Worker(p)' = NoWorker /\ Pc(p)' \in {"idle", "done"}
      BY StepFacts
<1>3. /\ \A v \in Workers \ {w} : status'[v] = status[v] /\ session'[v] = session[v]
      /\ met' = met /\ faulted \subseteq faulted'
      BY StepEffect
<1>4. ASSUME NEW v \in Workers \ faulted', session'[v] = "creating"
      PROVE  \E h \in Handlers : Worker(h)' = v /\ Pc(h)' = "await"
  <2>1. CASE session[v] = "creating"
    <3>1. PICK h \in Handlers : Worker(h) = v /\ Pc(h) = "await"
          BY <1>3, <1>4, <2>1 DEF EndingIsDead
    <3>2. CASE h # p
          BY <1>0, <1>1, <3>1, <3>2
    <3>3. CASE h = p
          BY <1>2, <1>4, <2>1, <3>1, <3>3
             DEF Outcome, SessionStep, ProbeStep, RowStep, AuditStep, SameSession, Told
    <3> QED BY <3>2, <3>3
  <2>2. CASE session[v] # "creating"
    <3>1. v = w
          BY <1>3, <1>4, <2>2
    <3>2. Pc(p) = "create" /\ c = "await"
          BY <1>2, <1>4, <2>2, <3>1
             DEF Outcome, SessionStep, ProbeStep, RowStep, AuditStep, SameSession
    <3>3. p \in Handlers
          BY <1>1, <3>2 DEF Belongs, Consistent, Processes
    <3> QED BY <1>2, <3>1, <3>2, <3>3
  <2> QED BY <2>1, <2>2
<1>5. ASSUME w \notin met, w \notin faulted'
      PROVE  /\ c # "done" /\ Ending(p)' => session'[w] \notin {"creating", "alive"}
             /\ status'[w] \in Ended => session'[w] \notin {"creating", "alive"}
  <2>1. Seen(p) /\ w \notin faulted
        BY <1>1, <1>3, <1>5 DEF Fresh
  <2>2. ASSUME session[w] = "creating"
        PROVE  Pc(p) = "await"
    <3>1. PICK h \in Handlers : Worker(h) = w /\ Pc(h) = "await"
          BY <1>1, <2>1, <2>2 DEF EndingIsDead
    <3>2. InFlight(h)
          BY <3>1 DEF InFlight, Pc
    <3> QED BY <1>0, <1>1, <1>5, <3>1, <3>2, AloneUnlessMet
  <2>3. Ending(p) => Dead(w)
        BY <1>5, <2>1 DEF EndingIsDead
  <2>4. status[w] \in Ended => Dead(w)
        BY <1>1, <1>5, <2>1 DEF EndedIsDead, Dead
  <2>5. session[w] \in {"none", "creating", "alive", "gone"}
        BY <1>1 DEF TypeOK
  <2>6. CASE SessionStep(p, w, c)
        BY <1>2, <1>5, <2>1, <2>2, <2>3, <2>4, <2>5, <2>6
           DEF SessionStep, SameStatus, SameSession, Dead, Seen, Ended
  <2>7. CASE ProbeStep(p, w, c)
        BY <1>2, <1>5, <2>2, <2>4, <2>5, <2>7 DEF ProbeStep, SameStatus, SameSession, Dead
  <2>8. CASE RowStep(p, w, c)
        BY <1>2, <2>3, <2>4, <2>8 DEF RowStep, SameStatus, SameSession, Dead, Ended
  <2>9. CASE AuditStep(p, w, c)
        BY <1>2, <2>4, <2>9 DEF AuditStep, SameStatus, SameSession, Dead
  <2> QED BY <1>2, <2>6, <2>7, <2>8, <2>9 DEF Outcome
<1>6. ASSUME NEW q \in Processes, Worker(q)' \notin met' \cup faulted', Ending(q)'
      PROVE  session'[Worker(q)'] \notin {"creating", "alive"}
  <2>1. CASE q = p
        BY <1>2, <1>3, <1>5, <1>6, <2>1 DEF Dead
  <2>2. CASE q # p
    <3>1. InFlight(q) /\ Ending(q) /\ Worker(q)' = Worker(q)
          BY <1>1, <1>6, <2>2 DEF InFlight, Pc
    <3>2. Worker(q) \in Workers /\ Worker(q) # w
          BY <1>1, <1>3, <1>6, <2>2, <3>1, AloneUnlessMet DEF TypeOK, Worker
    <3>3. Dead(Worker(q))
          BY <1>3, <1>6, <3>1 DEF EndingIsDead
    <3> QED BY <1>3, <3>1, <3>2, <3>3 DEF Dead
  <2> QED BY <2>1, <2>2
<1>7. ASSUME NEW v \in Workers \ (met' \cup faulted'), status'[v] \in Ended
      PROVE  Dead(v)'
      BY <1>1, <1>3, <1>5, <1>7 DEF EndedIsDead, Dead
<1> QED BY <1>4, <1>6, <1>7 DEF EndingIsDead, EndedIsDead, Dead

LEMMA DiesStep ==
    ASSUME TypeOK, Consistent, OverlapIsMet, AbsentIsNew, Fresh, EndingIsDead, EndedIsDead,
           [Next]_vars
    PROVE  EndingIsDead' /\ EndedIsDead'
<1> DEFINE Ending(p) == Pc(p) \in {"fail", "setFailed", "setStopped"}
<1>0. Handlers \subseteq Processes /\ Boot \in Processes /\ Boot \notin Handlers
      BY WorkersAssumption DEF Processes
<1>1. ASSUME UNCHANGED <<rows, session, faulted>>, met \subseteq met',
             \A p \in Processes : Ending(p)' => req'[p] = req[p],
             \A p \in Handlers : Pc(p) = "await" => req'[p] = req[p]
      PROVE  EndingIsDead' /\ EndedIsDead'
  <2>1. \A p \in Processes : Ending(p)' => Ending(p) /\ Worker(p)' = Worker(p)
        BY <1>1 DEF Pc, Worker
  <2>2. \A p \in Handlers : Pc(p) = "await" => Pc(p)' = "await" /\ Worker(p)' = Worker(p)
        BY <1>1 DEF Pc, Worker
  <2> QED BY <1>1, <2>1, <2>2 DEF EndingIsDead, EndedIsDead, Dead, rows
<1>2. ASSUME NEW h \in Handlers, NEW w \in Workers, Beginning(h, w)
      PROVE  EndingIsDead' /\ EndedIsDead'
  <2>1. PICK op \in {"start", "stop", "kill", "look", "rename"},
             pc \in {"insert", "probe", "kill", "setName"}, n \in Names \cup {NoName} :
            Begin(h, op, pc, w, n)
        BY <1>2, BeginKinds
  <2>2. /\ req'[h].pc = pc /\ At(h, "idle") /\ \A p \in Processes \ {h} : req'[p] = req[p]
        /\ met \subseteq met' /\ UNCHANGED <<rows, session, faulted>>
        BY <2>1, BeginEffect DEF Ops, Places
  <2>3. Pc(h)' = pc /\ Pc(h) = "idle"
        BY <2>2 DEF Pc, At
  <2> QED BY <1>0, <1>1, <2>1, <2>2, <2>3
<1>3. ASSUME NEW p \in Processes, Step(p)
      PROVE  EndingIsDead' /\ EndedIsDead'
      BY <1>3, StepDies
<1>4. ASSUME NEW w \in Workers, SessionUp(w) \/ SessionExits(w)
      PROVE  EndingIsDead' /\ EndedIsDead'
  <2>1. /\ \A v \in Workers : /\ session'[v] = "creating" => session[v] = "creating"
                              /\ Dead(v) => Dead(v)'
        /\ UNCHANGED <<rows, req, met, faulted>>
        BY <1>4 DEF SessionUp, SessionExits, TypeOK, Dead, history
  <2>2. \A p \in Processes : Worker(p) \notin Workers => Pc(p) \notin {"fail", "setFailed", "setStopped"}
        BY DEF TypeOK, InFlight, Worker, Pc
  <2> QED BY <1>0, <2>1, <2>2 DEF EndingIsDead, EndedIsDead, Dead, rows, Worker, Pc
<1>5. ASSUME NEW w \in Workers, Reconcile(w)
      PROVE  EndingIsDead' /\ EndedIsDead'
  <2>1. /\ req'[Boot].pc = "probe" /\ \A p \in Handlers : req'[p] = req[p]
        BY <1>5, ReconcileEffect
  <2>2. UNCHANGED <<rows, session, met, faulted>>
        BY <1>5 DEF Reconcile, history
  <2> QED BY <1>1, <2>1, <2>2 DEF Pc, Processes
<1>6. CASE Crash
  <2>1. \A p \in Processes : Pc(p)' \in {"idle", "done"}
        BY <1>6, CrashEffect DEF InFlight, Pc
  <2>2. \A v \in Workers : session'[v] # "creating" /\ (Dead(v) => Dead(v)')
        BY <1>6, CrashEffect DEF Dead
  <2>3. UNCHANGED <<rows, met, faulted>>
        BY <1>6 DEF Crash
  <2> QED BY <2>1, <2>2, <2>3 DEF EndingIsDead, EndedIsDead, Dead, rows
<1>7. CASE UNCHANGED <<rows, session, met, faulted, req>>
      BY <1>1, <1>7
<1> QED BY <1>2, <1>3, <1>4, <1>5, <1>6, <1>7, NextKinds
        DEF vars, ReadRows, Serve, history


-----------------------------------------------------------------------------
(* The theorems.                                                           *)

LEMMA Invariance == Spec => [](TypeOK /\ Inv)
<1>1. Init => TypeOK /\ Inv
      BY InitType, InitInv
<1>2. TypeOK /\ Inv /\ [Next]_vars => TypeOK' /\ Inv'
      BY StepType, ConsistentStep, OverlapStep, NewStep, FreshStep, SettleStep, AnnounceStep,
         NamesStep, LogsStep, DiesStep DEF Inv
<1> QED BY <1>1, <1>2, PTL DEF Spec

\* A worker whose row says it ended has no tmux session and gets none, through any
\* number of requests and crashes, unless requests overlapped on it or tmux failed
\* to answer about it (manager.py _mark_stopped, _mark_failed, kill).
THEOREM EndedIsDeadAlways == Spec => []EndedIsDead
<1>1. Inv => EndedIsDead
      BY DEF Inv
<1> QED BY <1>1, Invariance, PTL

\* The audits of a worker on which no requests overlapped tell one life: nothing is
\* announced after its end, whatever tmux answers and wherever the backend ends.
THEOREM AuditsTellOneLifeAlways == Spec => []AuditsTellOneLife
<1>1. Inv => AuditsTellOneLife
      BY DEF Inv
<1> QED BY <1>1, Invariance, PTL

\* An ended row was announced, or is about to be, or its audit was lost in a crash,
\* however requests overlap.
THEOREM EndIsAnnouncedAlways == Spec => []EndIsAnnounced
<1>1. Inv => EndIsAnnounced
      BY DEF Inv
<1> QED BY <1>1, Invariance, PTL

\* The check of a name and the write of it, which are two statements, keep names of
\* starting and running workers apart as long as the requests do not overlap.
THEOREM UniqueNamesAlways == Spec => []UniqueNames
<1>1. Inv => UniqueNames
      BY DEF Inv
<1> QED BY <1>1, Invariance, PTL

\* No row is left starting by a start that failed, or by a crash once
\* reconcile_on_startup has returned, however requests overlap.
THEOREM StartingIsUnderWayAlways == Spec => []StartingIsUnderWay
<1>1. Inv => StartingIsUnderWay
      BY DEF Inv
<1> QED BY <1>1, Invariance, PTL

\* A step leaves a worker that ended, and that nobody under way read before, where
\* it is.
LEMMA StepKeepsEnded ==
    ASSUME TypeOK, Consistent, NEW p \in Processes, Step(p), NEW v \in Workers,
           status[v] \in Ended, Untouched(v)
    PROVE  status'[v] \in Ended /\ Untouched(v)'
<1>1. /\ Worker(p) \in Workers /\ InFlight(p) /\ Belongs(Pc(p), Op(p))
      /\ \A q \in Processes \ {p} : Worker(q)' = Worker(q) /\ Op(q)' = Op(q)
      BY StepFacts
<1>2. PICK c \in Places \ {"idle"} :
          /\ Outcome(p, c)
          /\ c # "done" => Worker(p)' = Worker(p) /\ Op(p)' = Op(p)
          /\ c = "done" => Worker(p)' = NoWorker
      BY StepFacts
<1>3. todo' = todo /\ (v # Worker(p) => status'[v] = status[v])
      BY StepEffect
<1>4. CASE Worker(p) # v
      BY <1>1, <1>2, <1>3, <1>4, WorkersAssumption DEF Untouched, Worker, Op
<1>5. CASE Worker(p) = v
  <2>1. Op(p) = "rename" /\ Pc(p) = "setName"
        BY <1>1, <1>5 DEF Untouched, Worker, Op, Belongs
  <2>2. c = "done" /\ status'[v] = status[v]
        BY <1>2, <1>5, <2>1
           DEF Outcome, SessionStep, ProbeStep, RowStep, AuditStep, SameStatus, Told
  <2> QED BY <1>1, <1>2, <1>3, <2>2, WorkersAssumption DEF Untouched, Worker, Op
<1> QED BY <1>4, <1>5

\* What ended stays ended, over requests, faults and restarts, once nobody is left
\* who read the row before: start, stop and the reconciliation write without reading
\* again, and only rename begins on a row that ended.
THEOREM EndedStaysEndedAlways == Spec => EndedStaysEnded
<1>1. ASSUME TypeOK, Inv, [Next]_vars
      PROVE  \A w \in Workers : status[w] \in Ended /\ Untouched(w)
                                 => status'[w] \in Ended /\ Untouched(w)'
  <2> SUFFICES ASSUME NEW v \in Workers, status[v] \in Ended, Untouched(v)
               PROVE  status'[v] \in Ended /\ Untouched(v)'
      BY <1>1
  <2>0. Consistent /\ Handlers \subseteq Processes /\ Boot \in Processes
        /\ Processes = Handlers \cup {Boot}
        BY <1>1 DEF Inv, Processes
  <2>1. ASSUME NEW h \in Handlers, NEW w \in Workers, Beginning(h, w)
        PROVE  status'[v] \in Ended /\ Untouched(v)'
    <3>1. PICK op \in {"start", "stop", "kill", "look", "rename"},
               pc \in {"insert", "probe", "kill", "setName"}, n \in Names \cup {NoName} :
              /\ Begin(h, op, pc, w, n)
              /\ op = "rename" \/ status[w] \in {"absent"} \cup Live
          BY <1>1, <2>1, BeginKinds
    <3>2. /\ req'[h].op = op /\ req'[h].worker = w
          /\ \A p \in Processes \ {h} : req'[p] = req[p]
          /\ status' = status /\ todo' = todo
          BY <1>1, <3>1, BeginEffect DEF Ops, Places, rows
    <3>3. w = v => op = "rename"
          BY <3>1 DEF Ended, Live
    <3> QED BY <3>2, <3>3 DEF Untouched
  <2>2. ASSUME NEW p \in Processes, Step(p)
        PROVE  status'[v] \in Ended /\ Untouched(v)'
        BY <1>1, <2>0, <2>2, StepKeepsEnded
  <2>3. CASE (\E w \in Workers : SessionUp(w) \/ SessionExits(w)) \/ Serve \/ UNCHANGED vars
        BY <2>3 DEF SessionUp, SessionExits, Serve, vars, rows, Untouched
  <2>4. ASSUME NEW w \in Workers, Reconcile(w)
        PROVE  status'[v] \in Ended /\ Untouched(v)'
    <3>1. /\ w \in todo /\ req'[Boot].worker = w
          /\ \A p \in Handlers : req'[p] = req[p]
          BY <1>1, <2>4, ReconcileEffect
    <3>2. todo' \subseteq todo /\ status' = status
          BY <2>4 DEF Reconcile, rows
    <3> QED BY <2>0, <3>1, <3>2 DEF Untouched
  <2>5. CASE Crash
    <3>1. \A p \in Processes : req'[p] = req[p] \/ req'[p] = Rest(p)
          BY <1>1, <2>5, CrashEffect
    <3>2. status' = status /\ todo' = {}
          BY <2>5 DEF Crash, rows
    <3>3. \A p \in Processes : Rest(p).worker = NoWorker
          BY DEF Rest, Request
    <3>4. \A p \in Processes : req'[p].worker = v => req'[p] = req[p]
          BY <3>1, <3>3, WorkersAssumption
    <3> QED BY <3>2, <3>4 DEF Untouched
  <2>6. CASE ReadRows
        BY <2>6 DEF ReadRows, rows, Untouched, Live, Ended
  <2> QED BY <1>1, <2>1, <2>2, <2>3, <2>4, <2>5, <2>6, NextKinds
<1>2. TypeOK /\ Inv /\ [Next]_vars =>
          [\A w \in Workers : status[w] \in Ended /\ Untouched(w)
                               => status'[w] \in Ended /\ Untouched(w)']_vars
      BY <1>1
<1> QED BY <1>2, Invariance, PTL DEF Spec, EndedStaysEnded
=============================================================================
