------------------------ MODULE RunLifecycleProofs --------------------------
(***************************************************************************)
(* Theorems about RunLifecycle, for any number of runs, conversations and  *)
(* requests and any bounds.                                                *)
(***************************************************************************)
EXTENDS RunLifecycle, FiniteSetTheorems, TLAPS

LEMMA PlaceNames ==
    /\ Waiting \cup Opening \cup Tooling \cup Closing \cup Handling \cup Interrupting \subseteq Places
    /\ "none" \in Places
BY DEF Places, InBody, Trying

\* Writing one entry of a function keeps its type, whatever the entry.
LEMMA UpdateType ==
    ASSUME NEW A, NEW B, NEW f \in [A -> B], NEW a, NEW b \in B
    PROVE  [f EXCEPT ![a] = b] \in [A -> B]
OBVIOUS

LEMMA GotoType ==
    ASSUME task \in [Runs -> Places], NEW r \in Runs, NEW p \in Places, Goto(r, p)
    PROVE  task' \in [Runs -> Places]
BY DEF Goto

LEMMA EmitType ==
    ASSUME log \in [Runs -> Seq(LogEntry)], NEW r, NEW e \in LogEntry, Emit(r, e)
    PROVE  log' \in [Runs -> Seq(LogEntry)]
<1>1. CASE r \in Runs
      BY <1>1 DEF Emit
<1>2. CASE r \notin Runs
  <2>1. log' = log
        BY <1>2 DEF Emit
  <2> QED BY <2>1
<1> QED BY <1>1, <1>2

LEMMA EventType ==
    ASSUME NEW t \in EventTypes, NEW k \in Nat, NEW o \in Outcomes
    PROVE  Event(t, k, o) \in LogEntry
BY DEF Event, LogEntry

LEMMA EmitRunEventType ==
    ASSUME task \in [Runs -> Places], log \in [Runs -> Seq(LogEntry)], NEW r \in Runs,
           NEW e \in LogEntry, NEW p \in Places, NEW q \in Places, EmitRunEvent(r, e, p, q)
    PROVE  task' \in [Runs -> Places] /\ log' \in [Runs -> Seq(LogEntry)]
BY GotoType, EmitType DEF EmitRunEvent

LEMMA EndTaskType ==
    ASSUME TypeOK, NEW r \in Runs, EndTask(r)
    PROVE  task' \in [Runs -> Places] /\ convLock' \in [Conversations -> Runs \cup {Nobody}]
BY GotoType, PlaceNames DEF EndTask, TypeOK

\* Writing one call's column of a run keeps the column's type, whatever the call.
LEMMA SetPermissionType ==
    ASSUME TypeOK, NEW r, NEW k, NEW v \in {"none", "pending"} \cup Decisions,
           perm' = [perm EXCEPT ![r][k] = v]
    PROVE  perm' \in [Runs -> [Calls -> {"none", "pending"} \cup Decisions]]
<1>1. CASE r \in Runs
      BY <1>1 DEF TypeOK
<1>2. CASE r \notin Runs
  <2>1. perm' = perm
        BY <1>2 DEF TypeOK
  <2> QED BY <2>1 DEF TypeOK
<1> QED BY <1>1, <1>2

LEMMA SetToolType ==
    ASSUME TypeOK, NEW r, NEW k, NEW v \in {"none", "started", "success", "failed", "cancelled"},
           tool' = [tool EXCEPT ![r][k] = v]
    PROVE  tool' \in [Runs -> [Calls -> {"none", "started", "success", "failed", "cancelled"}]]
<1>1. CASE r \in Runs
      BY <1>1 DEF TypeOK
<1>2. CASE r \notin Runs
  <2>1. tool' = tool
        BY <1>2 DEF TypeOK
  <2> QED BY <2>1 DEF TypeOK
<1> QED BY <1>1, <1>2

LEMMA AddDecisionType ==
    ASSUME TypeOK, NEW r, NEW k, NEW d \in Decisions,
           decided' = [decided EXCEPT ![r][k] = @ \cup {d}]
    PROVE  decided' \in [Runs -> [Calls -> SUBSET Decisions]]
<1> DEFINE g == [decided[r] EXCEPT ![k] = @ \cup {d}]
<1>1. CASE r \in Runs
  <2>1. decided[r] \in [Calls -> SUBSET Decisions]
        BY <1>1 DEF TypeOK
  <2>2. ASSUME NEW x \in Calls PROVE g[x] \in SUBSET Decisions
    <3>1. CASE x = k BY <2>1, <3>1
    <3>2. CASE x # k BY <2>1, <3>2
    <3> QED BY <3>1, <3>2
  <2>3. g = [x \in Calls |-> g[x]]
        BY <2>1
  <2>4. decided' = [decided EXCEPT ![r] = g]
        OBVIOUS
  <2> HIDE DEF g
  <2>5. g \in [Calls -> SUBSET Decisions]
        BY <2>2, <2>3
  <2> QED BY <2>4, <2>5 DEF TypeOK
<1>2. CASE r \notin Runs
  <2>1. decided' = decided
        BY <1>2 DEF TypeOK
  <2> QED BY <2>1 DEF TypeOK
<1> QED BY <1>1, <1>2

LEMMA TaskStepType ==
    ASSUME TypeOK, NEW r \in Runs, TaskStep(r)
    PROVE  TypeOK'
<1> USE PlaceNames DEF TypeOK, rows, loop, locks, host, history,
      Waiting, Opening, Tooling, Closing, Handling, Interrupting
<1>1. CASE Announce(r)
      BY <1>1, GotoType, EmitType, EventType
      DEF Announce, EventTypes, Outcomes, Terminal
<1>2. CASE InsertMessage(r)
      BY <1>2, GotoType
      DEF InsertMessage, SetMessage
<1>3. CASE EmitStarted(r)
      BY <1>3, GotoType, EmitType, EventType
      DEF EmitStarted, EventTypes, Outcomes, Terminal
<1>4. CASE LoadContext(r)
      BY <1>4, GotoType, EmitRunEventType, EventType
      DEF LoadContext, EventTypes, Outcomes, Decisions, Terminal
<1>5. CASE CallModel(r)
      BY <1>5, GotoType
      DEF CallModel
<1>6. CASE ReadAnswer(r)
      BY <1>6, GotoType
      DEF ReadAnswer
<1>7. CASE EmitDelta(r)
      BY <1>7, GotoType, EmitType, EventType
      DEF EmitDelta, EventTypes, Outcomes, Terminal
<1>8. CASE StartTool(r)
      BY <1>8, EmitRunEventType, EventType
      DEF StartTool, EventTypes, Outcomes, Decisions, Terminal
<1>9. CASE InsertTool(r)
  <2>1. task' \in [Runs -> Places]
        BY <1>9, GotoType DEF InsertTool
  <2>2. tool' \in [Runs -> [Calls -> {"none", "started", "success", "failed", "cancelled"}]]
    <3>1. UNCHANGED tool \/ SetTool(r, "started")
          BY <1>9 DEF InsertTool
    <3> QED BY <3>1, SetToolType DEF SetTool
  <2> QED BY <1>9, <2>1, <2>2 DEF InsertTool
<1>10. CASE InsertPermission(r)
      BY <1>10, GotoType
      DEF InsertPermission
<1>11. CASE MarkWaiting(r)
      BY <1>11, GotoType
      DEF MarkWaiting, Active
<1>12. CASE EmitRequested(r)
      BY <1>12, EmitRunEventType, EventType
      DEF EmitRequested, EventTypes, Outcomes, Decisions, Terminal
<1>13. CASE Resume(r)
      BY <1>13, GotoType
      DEF Resume, Active
<1>14. CASE EmitOutput(r)
      BY <1>14, EmitRunEventType, EventType
      DEF EmitOutput, EventTypes, Outcomes, Decisions, Terminal
<1>15. CASE SaveTool(r)
      BY <1>15, GotoType
      DEF SaveTool, SetTool
<1>16. CASE EmitFinished(r)
      BY <1>16, EmitRunEventType, EventType
      DEF EmitFinished, EventTypes, Outcomes, Decisions, Terminal
<1>17. CASE CancelTool(r)
      BY <1>17, GotoType
      DEF CancelTool, SetTool
<1>18. CASE FailTool(r)
  <2>1. task' \in [Runs -> Places]
        BY <1>18, GotoType DEF FailTool
  <2>2. tool' \in [Runs -> [Calls -> {"none", "started", "success", "failed", "cancelled"}]]
    <3>1. UNCHANGED tool \/ SetTool(r, "failed")
          BY <1>18 DEF FailTool
    <3> QED BY <3>1, SetToolType DEF SetTool
  <2> QED BY <1>18, <2>1, <2>2 DEF FailTool
<1>19. CASE EmitToolFailed(r)
      BY <1>19, EmitRunEventType, EventType
      DEF EmitToolFailed, EventTypes, Outcomes, Decisions, Terminal
<1>20. CASE EmitMessageCompleted(r)
      BY <1>20, EmitRunEventType, EventType
      DEF EmitMessageCompleted, EventTypes, Outcomes, Decisions, Terminal
<1>21. CASE FinishMessage(r)
      BY <1>21, GotoType
      DEF FinishMessage, SetMessage
<1>22. CASE EmitCompleted(r)
      BY <1>22, EmitType, EventType, EndTaskType
      DEF EmitCompleted, EventTypes, Outcomes, Terminal
<1>23. CASE MarkCancelled(r)
      BY <1>23, EndTaskType
      DEF MarkCancelled, SetMessage
<1>24. CASE FailMessage(r)
      BY <1>24, GotoType
      DEF FailMessage, SetMessage
<1>25. CASE EmitFailure(r)
      BY <1>25, GotoType, EmitType, EventType
      DEF EmitFailure, EventTypes, Outcomes, Terminal
<1>26. CASE EmitFailed(r)
      BY <1>26, EmitType, EventType, EndTaskType
      DEF EmitFailed, EventTypes, Outcomes, Terminal
<1>27. CASE InterruptRun(r)
      BY <1>27, GotoType
      DEF InterruptRun, Terminal
<1>28. CASE InterruptMessage(r)
      BY <1>28, EndTaskType
      DEF InterruptMessage, SetMessage
<1>29. CASE AcquireConversation(r)
  <2>1. task' \in [Runs -> Places]
        BY <1>29, GotoType DEF AcquireConversation
  <2>2. convLock' \in [Conversations -> Runs \cup {Nobody}]
    <3>1. UNCHANGED convLock \/ convLock' = [convLock EXCEPT ![ConvOf[r]] = r]
          BY <1>29 DEF AcquireConversation
    <3> QED BY <3>1, RunAssumption
  <2> QED BY <1>29, <2>1, <2>2 DEF AcquireConversation
<1>30. CASE StartRun(r)
  <2>1. task' \in [Runs -> Places]
        BY <1>30, GotoType DEF StartRun
  <2>2. status' \in [Runs -> {"absent", "queued"} \cup Active \cup Terminal]
        BY <1>30 DEF StartRun, Active
  <2>3. eventLock' \in [Runs -> Runs \cup Clients \cup {Nobody}]
    <3>1. UNCHANGED eventLock \/ eventLock' = [eventLock EXCEPT ![r] = r]
          BY <1>30 DEF StartRun
    <3> QED BY <3>1
  <2> QED BY <1>30, <2>1, <2>2, <2>3 DEF StartRun
<1>31. CASE AppendDelta(r)
  <2>1. task' \in [Runs -> Places]
        BY <1>31, GotoType DEF AppendDelta
  <2>2. content' \in [Runs -> Nat]
        BY <1>31 DEF AppendDelta
  <2>3. eventLock' \in [Runs -> Runs \cup Clients \cup {Nobody}]
    <3>1. UNCHANGED eventLock \/ eventLock' = [eventLock EXCEPT ![r] = r]
          BY <1>31 DEF AppendDelta
    <3> QED BY <3>1
  <2> QED BY <1>31, <2>1, <2>2, <2>3 DEF AppendDelta
<1>32. CASE TakeReply(r)
  <2>1. task' \in [Runs -> Places]
        BY <1>32, GotoType DEF TakeReply
  <2>2. iteration' \in [Runs -> Nat]
        BY <1>32 DEF TakeReply
  <2>3. calls' \in [Runs -> Nat]
        BY <1>32 DEF TakeReply
  <2> QED BY <1>32, <2>1, <2>2, <2>3 DEF TakeReply
<1>33. CASE ReadPolicy(r)
  <2>1. task' \in [Runs -> Places]
        BY <1>33, GotoType, RunAssumption DEF ReadPolicy, AfterPolicy
  <2> QED BY <1>33, <2>1 DEF ReadPolicy
<1>34. CASE Poll(r)
  <2>1. task' \in [Runs -> Places]
        BY <1>34, GotoType DEF Poll
  <2>2. perm' \in [Runs -> [Calls -> {"none", "pending"} \cup Decisions]]
    <3>1. UNCHANGED perm \/ perm' = [perm EXCEPT ![r][calls[r]] = "denied"]
          BY <1>34 DEF Poll
    <3> QED BY <3>1, SetPermissionType DEF Decisions
  <2>3. decided' \in [Runs -> [Calls -> SUBSET Decisions]]
    <3>1. UNCHANGED decided \/ decided' = [decided EXCEPT ![r][calls[r]] = @ \cup {"denied"}]
          BY <1>34 DEF Poll
    <3> QED BY <3>1, AddDecisionType DEF Decisions
  <2> QED BY <1>34, <2>1, <2>2, <2>3 DEF Poll
<1>35. CASE ExecuteTool(r)
  <2>1. task' \in [Runs -> Places]
        BY <1>35, GotoType DEF ExecuteTool
  <2>2. ran' \in [Runs -> SUBSET Nat]
        BY <1>35 DEF ExecuteTool
  <2> QED BY <1>35, <2>1, <2>2 DEF ExecuteTool
<1>36. CASE ToolReturns(r)
  <2>1. task' \in [Runs -> Places]
        BY <1>36, GotoType DEF ToolReturns
  <2> QED BY <1>36, <2>1 DEF ToolReturns
<1>37. CASE RecordTool(r)
  <2>1. task' \in [Runs -> Places]
        BY <1>37, GotoType DEF RecordTool
  <2>2. calls' \in [Runs -> Nat]
    <3>1. CASE UNCHANGED calls
          BY <3>1
    <3>2. CASE calls' = [calls EXCEPT ![r] = @ + 1]
          BY <3>2
    <3> QED BY <1>37, <3>1, <3>2 DEF RecordTool
  <2> QED BY <1>37, <2>1, <2>2 DEF RecordTool
<1>38. CASE CompleteRun(r)
  <2>1. task' \in [Runs -> Places]
        BY <1>38, GotoType DEF CompleteRun
  <2>2. status' \in [Runs -> {"absent", "queued"} \cup Active \cup Terminal]
        BY <1>38 DEF CompleteRun, Terminal
  <2>3. eventLock' \in [Runs -> Runs \cup Clients \cup {Nobody}]
    <3>1. UNCHANGED eventLock \/ eventLock' = [eventLock EXCEPT ![r] = r]
          BY <1>38 DEF CompleteRun
    <3> QED BY <3>1
  <2> QED BY <1>38, <2>1, <2>2, <2>3 DEF CompleteRun
<1>39. CASE FailRun(r)
  <2>1. task' \in [Runs -> Places]
        BY <1>39, GotoType, EndTaskType DEF FailRun
  <2>2. convLock' \in [Conversations -> Runs \cup {Nobody}]
        BY <1>39, EndTaskType DEF FailRun
  <2>3. status' \in [Runs -> {"absent", "queued"} \cup Active \cup Terminal]
        BY <1>39 DEF FailRun, Terminal
  <2>4. eventLock' \in [Runs -> Runs \cup Clients \cup {Nobody}]
    <3>1. UNCHANGED eventLock \/ eventLock' = [eventLock EXCEPT ![r] = r]
          BY <1>39 DEF FailRun
    <3> QED BY <3>1
  <2> QED BY <1>39, <2>1, <2>2, <2>3, <2>4 DEF FailRun
<1> QED BY <1>1, <1>2, <1>3, <1>4, <1>5, <1>6, <1>7, <1>8, <1>9, <1>10, <1>11,
      <1>12, <1>13, <1>14, <1>15, <1>16, <1>17, <1>18, <1>19, <1>20, <1>21, <1>22,
      <1>23, <1>24, <1>25, <1>26, <1>27, <1>28, <1>29, <1>30, <1>31, <1>32, <1>33,
      <1>34, <1>35, <1>36, <1>37, <1>38, <1>39 DEF TaskStep

LEMMA DoneType == Done \in Handler /\ Done.place = "done" /\ Done.perms = {}
BY DEF Done, Idle, Handler, HandlerPlaces

\* What a handler's step makes of its record: it stays a handler, asks for nothing
\* new, and learns of permissions only by reading those that are pending.
Moves(h, x) ==
    /\ req' = [req EXCEPT ![h] = x]
    /\ x \in Handler
    /\ x.place \notin {"idle", "cancel", "decide"}
    /\ \/ x.perms = {}
       \/ x.run = req[h].run /\ x.perms \subseteq req[h].perms
       \/ req[h].place = "cancel" /\ x.run = req[h].run /\ x.perms = Pending(x.run)

LEMMA HandlerMoves ==
    ASSUME req \in [Clients -> Handler], NEW h \in Clients, HandlerStep(h)
    PROVE  \E x : Moves(h, x)
<1>0. req[h] \in Handler
      OBVIOUS
<1>1. CASE LockForCancel(h)
  <2>1. CASE status[req[h].run] \in Terminal
        BY <1>1, <2>1, DoneType DEF LockForCancel, Finish, Moves
  <2>2. CASE status[req[h].run] \notin Terminal
    <3> DEFINE x == [req[h] EXCEPT !.place = "tools", !.perms = Pending(req[h].run)]
    <3>1. x \in Handler
          BY <1>0 DEF Handler, HandlerPlaces, Pending
    <3>2. x.place = "tools" /\ x.run = req[h].run /\ x.perms = Pending(req[h].run)
          BY <1>0 DEF Handler
    <3>3. req' = [req EXCEPT ![h] = x] /\ req[h].place = "cancel"
          BY <1>1, <2>2 DEF LockForCancel
    <3> HIDE DEF x
    <3> QED BY <3>1, <3>2, <3>3 DEF Moves
  <2> QED BY <2>1, <2>2
<1>2. CASE ReadStartedTools(h)
  <2> DEFINE x == [req[h] EXCEPT !.place = "cleanup", !.tools = Started(req[h].run)]
  <2>1. x \in Handler
        BY <1>0 DEF Handler, HandlerPlaces, Started
  <2>2. x.place = "cleanup" /\ x.run = req[h].run /\ x.perms = req[h].perms
        BY <1>0 DEF Handler
  <2>3. req' = [req EXCEPT ![h] = x]
        BY <1>2 DEF ReadStartedTools
  <2> HIDE DEF x
  <2> QED BY <2>1, <2>2, <2>3 DEF Moves
<1>3. CASE DenyPermission(h)
  <2>1. PICK k \in req[h].perms : req' = [req EXCEPT ![h] = [req[h] EXCEPT !.perms = @ \ {k}, !.denied = @ \cup {k}]]
        BY <1>3 DEF DenyPermission
  <2> DEFINE x == [req[h] EXCEPT !.perms = @ \ {k}, !.denied = @ \cup {k}]
  <2>2. x \in Handler
        BY <1>0, <2>1 DEF Handler
  <2>3. x.place = "cleanup" /\ x.run = req[h].run /\ x.perms \subseteq req[h].perms
        BY <1>0, <1>3 DEF DenyPermission, Handler
  <2> HIDE DEF x
  <2> QED BY <2>1, <2>2, <2>3 DEF Moves, x
<1>4. CASE StopTool(h)
  <2>1. PICK k \in req[h].tools : req' = [req EXCEPT ![h] = [req[h] EXCEPT !.tools = @ \ {k}, !.stopped = @ \cup {k}]]
        BY <1>4 DEF StopTool
  <2> DEFINE x == [req[h] EXCEPT !.tools = @ \ {k}, !.stopped = @ \cup {k}]
  <2>2. x \in Handler
        BY <1>0, <2>1 DEF Handler
  <2>3. x.place = "cleanup" /\ x.run = req[h].run /\ x.perms \subseteq req[h].perms
        BY <1>0, <1>4 DEF StopTool, Handler
  <2> HIDE DEF x
  <2> QED BY <2>1, <2>2, <2>3 DEF Moves, x
<1>5. CASE CancelRow(h)
  <2> DEFINE x == [req[h] EXCEPT !.place = "announce"]
  <2>1. x \in Handler
        BY <1>0 DEF Handler, HandlerPlaces
  <2>2. x.place = "announce" /\ x.run = req[h].run /\ x.perms = req[h].perms
        BY <1>0 DEF Handler
  <2>3. req' = [req EXCEPT ![h] = x]
        BY <1>5 DEF CancelRow
  <2> HIDE DEF x
  <2> QED BY <2>1, <2>2, <2>3 DEF Moves
<1>6. CASE EmitDenied(h)
  <2>1. PICK k \in req[h].denied : req' = [req EXCEPT ![h] = [req[h] EXCEPT !.denied = @ \ {k}]]
        BY <1>6 DEF EmitDenied
  <2> DEFINE x == [req[h] EXCEPT !.denied = @ \ {k}]
  <2>2. x \in Handler
        BY <1>0, <2>1 DEF Handler
  <2>3. x.place = "announce" /\ x.run = req[h].run /\ x.perms \subseteq req[h].perms
        BY <1>0, <1>6 DEF EmitDenied, Handler
  <2> HIDE DEF x
  <2> QED BY <2>1, <2>2, <2>3 DEF Moves, x
<1>7. CASE EmitStopped(h)
  <2>1. PICK k \in req[h].stopped : req' = [req EXCEPT ![h] = [req[h] EXCEPT !.stopped = @ \ {k}]]
        BY <1>7 DEF EmitStopped
  <2> DEFINE x == [req[h] EXCEPT !.stopped = @ \ {k}]
  <2>2. x \in Handler
        BY <1>0, <2>1 DEF Handler
  <2>3. x.place = "announce" /\ x.run = req[h].run /\ x.perms \subseteq req[h].perms
        BY <1>0, <1>7 DEF EmitStopped, Handler
  <2> HIDE DEF x
  <2> QED BY <2>1, <2>2, <2>3 DEF Moves, x
<1>8. CASE EmitCancelError(h)
  <2> DEFINE x == [req[h] EXCEPT !.place = "cancelled"]
  <2>1. x \in Handler
        BY <1>0 DEF Handler, HandlerPlaces
  <2>2. x.place = "cancelled" /\ x.run = req[h].run /\ x.perms = req[h].perms
        BY <1>0 DEF Handler
  <2>3. req' = [req EXCEPT ![h] = x]
        BY <1>8 DEF EmitCancelError
  <2> HIDE DEF x
  <2> QED BY <2>1, <2>2, <2>3 DEF Moves
<1>9. CASE EmitCancelled(h)
      BY <1>9, DoneType DEF EmitCancelled, Finish, Moves
<1>10. CASE Decide(h)
  <2> DEFINE x == [req[h] EXCEPT !.place = "decided"]
  <2>1. x \in Handler
        BY <1>0 DEF Handler, HandlerPlaces
  <2>2. x.place = "decided" /\ x.run = req[h].run /\ x.perms = req[h].perms
        BY <1>0 DEF Handler
  <2>3. req' = [req EXCEPT ![h] = x]
        BY <1>10 DEF Decide
  <2> HIDE DEF x
  <2> QED BY <2>1, <2>2, <2>3 DEF Moves
<1>11. CASE EmitResolved(h)
      BY <1>11, DoneType DEF EmitResolved, Finish, Moves
<1> QED BY <1>1, <1>2, <1>3, <1>4, <1>5, <1>6, <1>7, <1>8, <1>9, <1>10, <1>11 DEF HandlerStep

\* A resolve request carries a decision until it is written.
Deciding == \A h \in Clients : req[h].place = "decide" => req[h].decision \in Decisions

LEMMA HandlerStepType ==
    ASSUME TypeOK, Deciding, NEW h \in Clients, HandlerStep(h)
    PROVE  TypeOK'
<1> DEFINE r == req[h].run
<1>1. req' \in [Clients -> Handler]
      BY HandlerMoves, UpdateType DEF TypeOK, Moves
<1>2. req[h] \in Handler
      BY DEF TypeOK
<1>3. ASSUME NEW t \in EventTypes, NEW k \in Nat, NEW o \in Outcomes, Emit(r, Event(t, k, o))
      PROVE  log' \in [Runs -> Seq(LogEntry)]
      BY <1>3, EventType, EmitType DEF TypeOK
<1>4. Calls \subseteq Nat
      BY RunAssumption DEF Calls
<1> HIDE DEF r
<1> USE <1>1 DEF rows, loop, locks, host, history
<1>5. CASE LockForCancel(h)
  <2>1. UNCHANGED eventLock \/ eventLock' = [eventLock EXCEPT ![r] = h]
        BY <1>5 DEF LockForCancel, r
  <2>2. eventLock' \in [Runs -> Runs \cup Clients \cup {Nobody}]
        BY <2>1, UpdateType DEF TypeOK
  <2> QED BY <1>5, <2>2 DEF LockForCancel, TypeOK
<1>6. CASE ReadStartedTools(h)
      BY <1>6 DEF ReadStartedTools, TypeOK
<1>7. CASE DenyPermission(h)
  <2>1. PICK k \in req[h].perms :
           /\ perm' = [perm EXCEPT ![r][k] = "denied"]
           /\ decided' = [decided EXCEPT ![r][k] = @ \cup {"denied"}]
        BY <1>7 DEF DenyPermission, r
  <2>2. perm' \in [Runs -> [Calls -> {"none", "pending"} \cup Decisions]]
        BY <2>1, SetPermissionType DEF Decisions
  <2>3. decided' \in [Runs -> [Calls -> SUBSET Decisions]]
        BY <2>1, AddDecisionType DEF Decisions
  <2> QED BY <1>7, <2>2, <2>3 DEF DenyPermission, TypeOK
<1>8. CASE StopTool(h)
  <2>1. PICK k \in req[h].tools : tool' = [tool EXCEPT ![r][k] = "cancelled"]
        BY <1>8 DEF StopTool, r
  <2>2. tool' \in [Runs -> [Calls -> {"none", "started", "success", "failed", "cancelled"}]]
        BY <2>1 DEF TypeOK
  <2> QED BY <1>8, <2>2 DEF StopTool, TypeOK
<1>9. CASE CancelRow(h)
  <2>1. status' = [status EXCEPT ![r] = "cancelled"]
        BY <1>9 DEF CancelRow, r
  <2>2. status' \in [Runs -> {"absent", "queued"} \cup Active \cup Terminal]
        BY <2>1, UpdateType DEF TypeOK, Terminal
  <2> QED BY <1>9, <2>2 DEF CancelRow, TypeOK
<1>10. CASE EmitDenied(h)
  <2>1. PICK k \in req[h].denied : Emit(r, Event("permission.resolved", k, "denied"))
        BY <1>10 DEF EmitDenied, r
  <2>2. log' \in [Runs -> Seq(LogEntry)]
        BY <1>2, <1>3, <1>4, <2>1 DEF Handler, EventTypes, Outcomes, Decisions
  <2> QED BY <1>10, <2>2 DEF EmitDenied, TypeOK
<1>11. CASE EmitStopped(h)
  <2>1. PICK k \in req[h].stopped : Emit(r, Event("tool.finished", k, "cancelled"))
        BY <1>11 DEF EmitStopped, r
  <2>2. log' \in [Runs -> Seq(LogEntry)]
        BY <1>2, <1>3, <1>4, <2>1 DEF Handler, EventTypes, Outcomes, Terminal
  <2> QED BY <1>11, <2>2 DEF EmitStopped, TypeOK
<1>12. CASE EmitCancelError(h)
  <2>1. log' \in [Runs -> Seq(LogEntry)]
        BY <1>3, <1>12 DEF EmitCancelError, EventTypes, Outcomes, Terminal, r
  <2> QED BY <1>12, <2>1 DEF EmitCancelError, TypeOK
<1>13. CASE EmitCancelled(h)
  <2>1. log' \in [Runs -> Seq(LogEntry)]
        BY <1>3, <1>13 DEF EmitCancelled, EventTypes, Outcomes, Terminal, r
  <2>2. eventLock' = [eventLock EXCEPT ![r] = Nobody]
        BY <1>13 DEF EmitCancelled, r
  <2>3. eventLock' \in [Runs -> Runs \cup Clients \cup {Nobody}]
        BY <2>2, UpdateType DEF TypeOK
  <2> QED BY <1>13, <2>1, <2>3 DEF EmitCancelled, TypeOK
<1>14. CASE Decide(h)
  <2>1. req[h].decision \in Decisions
        BY <1>14 DEF Decide, Deciding
  <2>2. perm' = [perm EXCEPT ![r][req[h].call] = req[h].decision]
        BY <1>14 DEF Decide, r
  <2>3. perm' \in [Runs -> [Calls -> {"none", "pending"} \cup Decisions]]
        BY <2>1, <2>2, SetPermissionType
  <2>4. decided' = [decided EXCEPT ![r][req[h].call] = @ \cup {req[h].decision}]
        BY <1>14 DEF Decide, r
  <2>5. decided' \in [Runs -> [Calls -> SUBSET Decisions]]
        BY <2>1, <2>4, AddDecisionType
  <2> QED BY <1>14, <2>3, <2>5 DEF Decide, TypeOK
<1>15. CASE EmitResolved(h)
  <2>1. log' \in [Runs -> Seq(LogEntry)]
        BY <1>2, <1>3, <1>15 DEF EmitResolved, Handler, EventTypes, Outcomes, r
  <2> QED BY <1>15, <2>1 DEF EmitResolved, TypeOK
<1> QED BY <1>5, <1>6, <1>7, <1>8, <1>9, <1>10, <1>11, <1>12, <1>13, <1>14, <1>15 DEF HandlerStep

LEMMA ClientStepType ==
    ASSUME TypeOK, ClientStep
    PROVE  TypeOK'
<1> USE DEF rows, loop, locks, host, history
<1>1. ASSUME NEW r \in Runs, QueueRun(r) PROVE TypeOK'
      BY <1>1, GotoType, PlaceNames DEF QueueRun, TypeOK, Waiting
<1>2. ASSUME NEW h \in Clients, NEW r \in Runs, RequestCancel(h, r) PROVE TypeOK'
  <2> req[h] \in Handler
        BY DEF TypeOK
  <2>1. [req[h] EXCEPT !.place = "cancel", !.run = r] \in Handler
        BY DEF Handler, HandlerPlaces
  <2>2. req' = [req EXCEPT ![h] = [req[h] EXCEPT !.place = "cancel", !.run = r]]
        BY <1>2 DEF RequestCancel, TypeOK
  <2>3. req' \in [Clients -> Handler]
        BY <2>1, <2>2, UpdateType DEF TypeOK
  <2> QED BY <1>2, <2>3 DEF RequestCancel, TypeOK
<1>3. ASSUME NEW h \in Clients, NEW r \in Runs, NEW k \in Calls, NEW d \in Decisions,
             RequestResolve(h, r, k, d)
      PROVE  TypeOK'
  <2> DEFINE x == [req[h] EXCEPT !.place = "decide", !.run = r, !.call = k, !.decision = d]
  <2>1. k \in Nat
        BY RunAssumption DEF Calls
  <2> req[h] \in Handler
        BY DEF TypeOK
  <2>2. x \in Handler
        BY <2>1 DEF Handler, HandlerPlaces
  <2>3. req' = [req EXCEPT ![h] = x]
        BY <1>3 DEF RequestResolve, TypeOK
  <2>4. req' \in [Clients -> Handler]
        BY <2>2, <2>3, UpdateType DEF TypeOK
  <2> QED BY <1>3, <2>4 DEF RequestResolve, TypeOK
<1> QED BY <1>1, <1>2, <1>3 DEF ClientStep, SubmitPrompt, RetryRun

LEMMA ServerStepType ==
    ASSUME TypeOK, Shutdown \/ Stopped \/ Crash \/ BootStep
    PROVE  TypeOK'
<1> USE DEF rows, loop, locks, host, history
<1>1. CASE Shutdown
  <2>1. task' \in [Runs -> Places]
    <3>1. \A r \in Runs : Landing(task[r]) \in Places
          BY PlaceNames DEF Landing, Interrupting
    <3> QED BY <1>1, <3>1 DEF Shutdown
  <2>2. convLock' \in [Conversations -> Runs \cup {Nobody}]
        BY <1>1 DEF Shutdown, TypeOK
  <2>3. eventLock' \in [Runs -> Runs \cup Clients \cup {Nobody}]
        BY <1>1 DEF Shutdown
  <2>4. server' = "stopping" /\ stops' \in Nat
        BY <1>1 DEF Shutdown, TypeOK
  <2> QED BY <1>1, <2>1, <2>2, <2>3, <2>4 DEF Shutdown, TypeOK
<1>2. CASE Stopped
      BY <1>2 DEF Stopped, TypeOK
<1>3. CASE Crash
  <2>1. task' \in [Runs -> Places]
        BY <1>3, PlaceNames DEF Crash
  <2>2. req' \in [Clients -> Handler]
        BY <1>3, DoneType DEF Crash, TypeOK
  <2>3. convLock' \in [Conversations -> Runs \cup {Nobody}]
        BY <1>3 DEF Crash
  <2>4. eventLock' \in [Runs -> Runs \cup Clients \cup {Nobody}]
        BY <1>3 DEF Crash
  <2>5. server' = "down" /\ crashes' \in Nat
        BY <1>3 DEF Crash, TypeOK
  <2> QED BY <1>3, <2>1, <2>2, <2>3, <2>4, <2>5 DEF Crash, TypeOK
<1>4. CASE RecoverRunning
      BY <1>4 DEF RecoverRunning, Boot, TypeOK, Terminal
<1>5. CASE RecoverWaiting
      BY <1>5 DEF RecoverWaiting, Boot, TypeOK, Terminal
<1>6. CASE RecoverPermissions
  <2>1. perm' \in [Runs -> [Calls -> {"none", "pending"} \cup Decisions]]
        BY <1>6 DEF RecoverPermissions, TypeOK, Decisions
  <2>2. decided' \in [Runs -> [Calls -> SUBSET Decisions]]
        BY <1>6 DEF RecoverPermissions, TypeOK, Decisions
  <2> QED BY <1>6, <2>1, <2>2 DEF RecoverPermissions, Boot, TypeOK
<1>7. CASE EnqueueQueued
  <2>1. task' \in [Runs -> Places]
        BY <1>7, PlaceNames DEF EnqueueQueued, Waiting
  <2> QED BY <1>7, <2>1 DEF EnqueueQueued, Boot, TypeOK
<1> QED BY <1>1, <1>2, <1>3, <1>4, <1>5, <1>6, <1>7 DEF BootStep

LEMMA TaskLeavesHandlers ==
    ASSUME NEW r \in Runs, TaskStep(r)
    PROVE  UNCHANGED req
BY DEF TaskStep, Announce, AcquireConversation, InsertMessage, StartRun,
         EmitStarted, LoadContext, CallModel, ReadAnswer, AppendDelta, EmitDelta,
         TakeReply, StartTool, InsertTool, ReadPolicy, InsertPermission, MarkWaiting,
         EmitRequested, Poll, Resume, ExecuteTool, ToolReturns, EmitOutput, SaveTool,
         EmitFinished, RecordTool, CancelTool, FailTool, EmitToolFailed, FinishMessage,
         EmitMessageCompleted, CompleteRun, EmitCompleted, MarkCancelled, FailRun,
         FailMessage, EmitFailure, EmitFailed, InterruptRun, InterruptMessage,
         rows, loop, locks, host, history

LEMMA DecidingStep ==
    ASSUME TypeOK, Deciding, Next
    PROVE  Deciding'
<1> USE DEF Deciding, rows, loop, locks, host, history
<1>1. ASSUME NEW r \in Runs, TaskStep(r) PROVE UNCHANGED req
      BY <1>1, TaskLeavesHandlers
<1>2. ASSUME NEW h \in Clients, HandlerStep(h) PROVE Deciding'
      BY <1>2, HandlerMoves DEF Moves, TypeOK
<1>3. CASE ClientStep
  <2>1. ASSUME NEW r \in Runs, QueueRun(r) PROVE Deciding'
        BY <2>1 DEF QueueRun
  <2>2. ASSUME NEW h \in Clients, NEW r \in Runs, RequestCancel(h, r) PROVE Deciding'
        BY <2>2 DEF RequestCancel, TypeOK
  <2>3. ASSUME NEW h \in Clients, NEW r \in Runs, NEW k \in Calls, NEW d \in Decisions,
               RequestResolve(h, r, k, d)
        PROVE  Deciding'
    <3> DEFINE x == [req[h] EXCEPT !.place = "decide", !.run = r, !.call = k, !.decision = d]
    <3>1. req' = [req EXCEPT ![h] = x]
          BY <2>3 DEF RequestResolve, TypeOK
    <3>2. x.decision = d
          BY DEF TypeOK, Handler
    <3> HIDE DEF x
    <3> QED BY <3>1, <3>2 DEF TypeOK
  <2> QED BY <1>3, <2>1, <2>2, <2>3 DEF ClientStep, SubmitPrompt, RetryRun
<1>4. CASE Shutdown \/ Stopped \/ BootStep
      BY <1>4 DEF Shutdown, Stopped, BootStep, RecoverRunning, RecoverWaiting,
         RecoverPermissions, EnqueueQueued
<1>5. CASE Crash
      BY <1>5 DEF Crash, Done, Idle
<1> QED BY <1>1, <1>2, <1>3, <1>4, <1>5 DEF Next

LEMMA InitType == Init => TypeOK /\ Deciding
<1> SUFFICES ASSUME Init PROVE TypeOK /\ Deciding
    OBVIOUS
<1>1. Idle \in Handler /\ Idle.place # "decide"
      BY DEF Idle, Handler, HandlerPlaces
<1>2. TypeOK
      BY <1>1, PlaceNames DEF Init, TypeOK
<1>3. Deciding
      BY <1>1 DEF Init, Deciding
<1> QED BY <1>2, <1>3

LEMMA TypeInvariant == Spec => [](TypeOK /\ Deciding)
<1>1. TypeOK /\ Deciding /\ [Next]_vars => TypeOK' /\ Deciding'
  <2> SUFFICES ASSUME TypeOK, Deciding, [Next]_vars PROVE TypeOK' /\ Deciding'
      OBVIOUS
  <2>1. CASE Next
    <3>1. TypeOK'
          BY <2>1, TaskStepType, HandlerStepType, ClientStepType, ServerStepType DEF Next
    <3> QED BY <2>1, <3>1, DecidingStep
  <2>2. CASE UNCHANGED vars
        BY <2>2 DEF vars, rows, loop, locks, host, history, TypeOK, Deciding
  <2> QED BY <2>1, <2>2
<1> QED BY <1>1, InitType, PTL DEF Spec

\* Every variable keeps its type, whatever the number of runs and requests and
\* whatever the bounds: in particular a permission only ever holds a decision a
\* client may send, although resolve writes the one it carried across an await.
THEOREM TypeCorrect == Spec => []TypeOK
BY TypeInvariant, PTL

-----------------------------------------------------------------------------
(* A conversation has one active run.  What makes it true is the lock of   *)
(* _conversation_locks: while the backend serves, the coroutine of an      *)
(* active run holds it, and keeps it until the run's status has left       *)
(* Active.  A process that stops loses the lock and not the status, so the *)
(* argument must also say that recovery clears every active status before  *)
(* a lock can be taken again.                                              *)

\* Where a coroutine knows that its run has ended, by its own write or by having
\* found it cancelled.
Ended == {"mark", "tool_cancel", "complete_emit", "fail_message", "fail_error",
    "fail_emit", "interrupt_message"}

ActiveHoldsLock ==
    server = "up" => \A r \in Runs : status[r] \in Active => convLock[ConvOf[r]] = r
BodyHoldsLock ==
    \A r \in Runs : task[r] \in InBody => convLock[ConvOf[r]] = r
EndedIsInactive ==
    \A r \in Runs : task[r] \in Ended => status[r] \notin Active
OnlyInterruptsAfterStop ==
    server # "up" => \A r \in Runs : task[r] \in {"none"} \cup Interrupting
RecoveryClears ==
    /\ server = "boot_waiting" => \A r \in Runs : status[r] # "running"
    /\ server \in {"boot_permissions", "boot_queued"} => \A r \in Runs : status[r] \notin Active

Serialised ==
    /\ OneActiveRun
    /\ ActiveHoldsLock
    /\ BodyHoldsLock
    /\ EndedIsInactive
    /\ OnlyInterruptsAfterStop
    /\ RecoveryClears

\* The four shapes a coroutine's step may have.
Within(r, p, s) ==
    /\ task[r] \in InBody /\ p \in InBody
    /\ task' = [task EXCEPT ![r] = p]
    /\ status' = [status EXCEPT ![r] = s]
    /\ p \in Ended \/ task[r] \in Interrupting => s \notin Active
    /\ task[r] \in Interrupting => p \in Interrupting
    /\ UNCHANGED <<convLock, server>>
Keeps(r, p) == Within(r, p, status[r])
Leaves(r) ==
    /\ task[r] \in InBody /\ status[r] \notin Active
    /\ task' = [task EXCEPT ![r] = "none"]
    /\ convLock' = [convLock EXCEPT ![ConvOf[r]] = Nobody]
    /\ UNCHANGED <<status, server>>
Enters(r) ==
    /\ task[r] = "fetch" /\ convLock[ConvOf[r]] = Nobody
    /\ task' = [task EXCEPT ![r] = "insert"]
    /\ convLock' = [convLock EXCEPT ![ConvOf[r]] = r]
    /\ UNCHANGED <<status, server>>
Passes(r, p) ==
    /\ task[r] \in Waiting
    /\ task' = [task EXCEPT ![r] = p]
    /\ UNCHANGED <<status, convLock, server>>

LEMMA TaskStepShape ==
    ASSUME TypeOK, EndedIsInactive, NEW r \in Runs, TaskStep(r)
    PROVE  \/ \E p, s : Within(r, p, s)
           \/ Leaves(r)
           \/ Enters(r)
           \/ \E p \in {"fetch", "none"} : Passes(r, p)
<1>0. /\ status = [status EXCEPT ![r] = status[r]]
      /\ task[r] \in Ended => status[r] \notin Active
      BY DEF TypeOK, EndedIsInactive
<1> USE DEF Within, Keeps, Leaves, Enters, Passes, Goto, rows, loop, locks, host,
       Waiting, Opening, Tooling, Closing, Trying, Handling, Interrupting, InBody,
       Ended, Active
<1>1. InsertMessage(r) => Keeps(r, "start")
      BY <1>0 DEF InsertMessage
<1>2. EmitStarted(r) => Keeps(r, "context")
      BY <1>0 DEF EmitStarted
<1>3. LoadContext(r) => Keeps(r, "model") \/ Keeps(r, "mark") \/ Keeps(r, "fail")
      BY <1>0 DEF LoadContext, EmitRunEvent, Cancelled
<1>4. CallModel(r) => Keeps(r, "finish") \/ Keeps(r, "answered") \/ Keeps(r, "fail")
      BY <1>0 DEF CallModel
<1>5. ReadAnswer(r) => Keeps(r, "finish") \/ Keeps(r, "delta") \/ Keeps(r, "reply")
      BY <1>0 DEF ReadAnswer
<1>6. EmitDelta(r) => Keeps(r, "delta") \/ Keeps(r, "reply")
      BY <1>0 DEF EmitDelta
<1>7. TakeReply(r) => Keeps(r, "finish") \/ Keeps(r, "fail") \/ Keeps(r, "tool")
      BY <1>0 DEF TakeReply
<1>8. StartTool(r) => Keeps(r, "tool_insert") \/ Keeps(r, "mark")
      BY <1>0 DEF StartTool, EmitRunEvent, Cancelled
<1>9. InsertTool(r) => Keeps(r, "policy") \/ Keeps(r, "fail")
      BY <1>0 DEF InsertTool
<1>10. ReadPolicy(r) => Keeps(r, "execute") \/ Keeps(r, "ask_insert") \/ Keeps(r, "tool_fail")
  <2> SUFFICES ASSUME ReadPolicy(r)
               PROVE  Keeps(r, "execute") \/ Keeps(r, "ask_insert") \/ Keeps(r, "tool_fail")
      OBVIOUS
  <2>1. PICK p \in {"auto", "confirm", "disabled"} : Goto(r, AfterPolicy[p])
        BY RunAssumption DEF ReadPolicy
  <2>2. AfterPolicy[p] \in {"execute", "ask_insert", "tool_fail"}
        BY DEF AfterPolicy
  <2> QED BY <1>0, <2>1, <2>2 DEF ReadPolicy
<1>11. InsertPermission(r) => Keeps(r, "ask_mark")
      BY <1>0 DEF InsertPermission
<1>12. EmitRequested(r) => Keeps(r, "poll") \/ Keeps(r, "tool_cancel")
      BY <1>0 DEF EmitRequested, EmitRunEvent, Cancelled
<1>13. Poll(r) => Keeps(r, "tool_cancel") \/ Keeps(r, "resume") \/ Keeps(r, "tool_fail")
      BY <1>0 DEF Poll, Cancelled
<1>14. ExecuteTool(r) => Keeps(r, "executing")
      BY <1>0 DEF ExecuteTool
<1>15. ToolReturns(r) => Keeps(r, "tool_fail") \/ Keeps(r, "tool_cancel") \/ Keeps(r, "output") \/ Keeps(r, "save")
      BY <1>0 DEF ToolReturns, Cancelled
<1>16. EmitOutput(r) => Keeps(r, "save") \/ Keeps(r, "mark")
      BY <1>0 DEF EmitOutput, EmitRunEvent, Cancelled
<1>17. SaveTool(r) => Keeps(r, "finished")
      BY <1>0 DEF SaveTool
<1>18. EmitFinished(r) => Keeps(r, "record") \/ Keeps(r, "mark")
      BY <1>0 DEF EmitFinished, EmitRunEvent, Cancelled
<1>19. RecordTool(r) => Keeps(r, "model") \/ Keeps(r, "tool")
      BY <1>0 DEF RecordTool
<1>20. CancelTool(r) => Keeps(r, "mark")
      BY <1>0 DEF CancelTool
<1>21. FailTool(r) => Keeps(r, "tool_failed") \/ Keeps(r, "mark")
      BY <1>0 DEF FailTool, Cancelled
<1>22. EmitToolFailed(r) => Keeps(r, "fail") \/ Keeps(r, "mark")
      BY <1>0 DEF EmitToolFailed, EmitRunEvent, Cancelled
<1>23. FinishMessage(r) => Keeps(r, "mark") \/ Keeps(r, "message_emit")
      BY <1>0 DEF FinishMessage, Cancelled
<1>24. EmitMessageCompleted(r) => Keeps(r, "complete") \/ Keeps(r, "mark")
      BY <1>0 DEF EmitMessageCompleted, EmitRunEvent, Cancelled
<1>25. AppendDelta(r) => Keeps(r, "mark") \/ Keeps(r, "delta_emit")
      BY <1>0 DEF AppendDelta, Cancelled
<1>26. FailMessage(r) => Keeps(r, "fail_error")
      BY <1>0 DEF FailMessage
<1>27. EmitFailure(r) => Keeps(r, "fail_emit")
      BY <1>0 DEF EmitFailure
<1>28. StartRun(r) => Keeps(r, "mark") \/ Within(r, "started", "running")
      BY <1>0 DEF StartRun, Cancelled
<1>29. MarkWaiting(r) => Within(r, "ask_emit", "waiting_approval")
      BY <1>0 DEF MarkWaiting, Cancelled
<1>30. Resume(r) => Within(r, "execute", "running")
      BY <1>0 DEF Resume, Cancelled
<1>31. CompleteRun(r) => Keeps(r, "mark") \/ Within(r, "complete_emit", "completed")
      BY <1>0 DEF CompleteRun, Cancelled
<1>32. InterruptRun(r) => Within(r, "interrupt_message", "interrupted")
      BY <1>0 DEF InterruptRun, Cancelled
<1>33. EmitCompleted(r) => Leaves(r)
      BY <1>0 DEF EmitCompleted, EndTask
<1>34. MarkCancelled(r) => Leaves(r)
      BY <1>0 DEF MarkCancelled, EndTask
<1>35. EmitFailed(r) => Leaves(r)
      BY <1>0 DEF EmitFailed, EndTask
<1>36. InterruptMessage(r) => Leaves(r)
      BY <1>0 DEF InterruptMessage, EndTask
<1>37. FailRun(r) => Leaves(r) \/ Within(r, "fail_message", "failed")
      BY <1>0 DEF FailRun, EndTask, Cancelled
<1>38. Announce(r) => Passes(r, "fetch")
      BY <1>0 DEF Announce
<1>39. AcquireConversation(r) => Enters(r) \/ Passes(r, "none")
      BY <1>0 DEF AcquireConversation
<1> HIDE DEF Within, Keeps, Leaves, Enters, Passes, Goto
<1> QED BY <1>1, <1>2, <1>3, <1>4, <1>5, <1>6, <1>7, <1>8, <1>9, <1>10, <1>11,
         <1>12, <1>13, <1>14, <1>15, <1>16, <1>17, <1>18, <1>19, <1>20, <1>21,
         <1>22, <1>23, <1>24, <1>25, <1>26, <1>27, <1>28, <1>29, <1>30, <1>31,
         <1>32, <1>33, <1>34, <1>35, <1>36, <1>37, <1>38, <1>39
         DEF TaskStep, Keeps

LEMMA SerialisedTask ==
    ASSUME TypeOK, Serialised, NEW r \in Runs, TaskStep(r)
    PROVE  Serialised'
<1> USE RunAssumption
    DEF Serialised, OneActiveRun, ActiveHoldsLock, BodyHoldsLock, EndedIsInactive,
        OnlyInterruptsAfterStop, RecoveryClears
<1>0. /\ task \in [Runs -> Places] /\ DOMAIN status = Runs /\ DOMAIN convLock = Conversations
      /\ \A p \in Ended : p \in InBody
      /\ Interrupting \subseteq InBody /\ "insert" \in InBody \ (Ended \cup Interrupting)
      /\ Waiting \cap (InBody \cup {"none"}) = {} /\ "fetch" \in Waiting
      /\ "fetch" \notin InBody /\ "none" \notin InBody
      /\ {"running", "waiting_approval"} = Active
      BY DEF TypeOK, Ended, InBody, Interrupting, Waiting, Trying, Opening, Tooling, Closing,
             Handling, Active
<1>1. ASSUME NEW p, NEW s, Within(r, p, s) PROVE Serialised'
  <2>1. \A q \in Runs : q # r => status'[q] = status[q] /\ task'[q] = task[q]
        BY <1>0, <1>1 DEF Within
  <2>2. status'[r] = s /\ task'[r] = p /\ convLock[ConvOf[r]] = r
        BY <1>0, <1>1 DEF Within
  <2>3. s \in Active => server = "up"
        BY <1>0, <1>1 DEF Within
  <2>4. OneActiveRun'
    <3> SUFFICES ASSUME NEW a \in Runs, NEW b \in Runs, ConvOf[a] = ConvOf[b],
                        status'[a] \in Active, status'[b] \in Active
                 PROVE  a = b
        BY DEF OneActiveRun
    <3> QED BY <2>1, <2>2, <2>3
  <2>5. (ActiveHoldsLock /\ BodyHoldsLock)'
        BY <1>0, <1>1, <2>1, <2>2 DEF Within
  <2>6. EndedIsInactive'
        BY <1>0, <1>1, <2>1, <2>2 DEF Within
  <2>7. (OnlyInterruptsAfterStop /\ RecoveryClears)'
        BY <1>0, <1>1, <2>1, <2>2, <2>3 DEF Within
  <2> QED BY <2>4, <2>5, <2>6, <2>7
<1>2. CASE Leaves(r)
  <2>1. \A q \in Runs : q # r => task'[q] = task[q]
        BY <1>0, <1>2 DEF Leaves
  <2>2. task'[r] = "none" /\ convLock[ConvOf[r]] = r
        BY <1>0, <1>2 DEF Leaves
  <2>3. \A q \in Runs : ConvOf[q] # ConvOf[r] => convLock'[ConvOf[q]] = convLock[ConvOf[q]]
        BY <1>0, <1>2 DEF Leaves
  <2>4. (ActiveHoldsLock /\ BodyHoldsLock)'
        BY <1>0, <1>2, <2>1, <2>2, <2>3 DEF Leaves
  <2> QED BY <1>0, <1>2, <2>1, <2>2, <2>4 DEF Leaves
<1>3. CASE Enters(r)
  <2>1. \A q \in Runs : q # r => task'[q] = task[q]
        BY <1>0, <1>3 DEF Enters
  <2>2. task'[r] = "insert" /\ convLock'[ConvOf[r]] = r /\ server = "up"
        BY <1>0, <1>3 DEF Enters
  <2>3. \A q \in Runs : ConvOf[q] # ConvOf[r] => convLock'[ConvOf[q]] = convLock[ConvOf[q]]
        BY <1>0, <1>3 DEF Enters
  <2>4. (ActiveHoldsLock /\ BodyHoldsLock)'
        BY <1>0, <1>3, <2>1, <2>2, <2>3 DEF Enters
  <2> QED BY <1>0, <1>3, <2>1, <2>2, <2>4 DEF Enters
<1>4. ASSUME NEW p \in {"fetch", "none"}, Passes(r, p) PROVE Serialised'
  <2>1. \A q \in Runs : q # r => task'[q] = task[q]
        BY <1>0, <1>4 DEF Passes
  <2>2. task'[r] = p /\ task[r] \notin InBody /\ p \notin InBody /\ server = "up"
        BY <1>0, <1>4 DEF Passes
  <2> QED BY <1>0, <1>4, <2>1, <2>2 DEF Passes
<1> QED BY <1>1, <1>2, <1>3, <1>4, TaskStepShape

LEMMA SerialisedHandler ==
    ASSUME TypeOK, Serialised, NEW h \in Clients, HandlerStep(h)
    PROVE  Serialised'
<1>1. /\ UNCHANGED <<task, convLock, server>>
      /\ \A q \in Runs : status'[q] = status[q] \/ status'[q] = "cancelled"
      BY DEF TypeOK, rows, loop, locks, host, HandlerStep, LockForCancel, ReadStartedTools,
         DenyPermission, StopTool, CancelRow, EmitDenied, EmitStopped, EmitCancelError,
         EmitCancelled, Decide, EmitResolved
<1>2. "cancelled" \notin Active /\ "cancelled" # "running"
      BY DEF Active
<1> QED BY <1>1, <1>2 DEF Serialised, OneActiveRun, ActiveHoldsLock, BodyHoldsLock,
       EndedIsInactive, OnlyInterruptsAfterStop, RecoveryClears

LEMMA SerialisedClient ==
    ASSUME TypeOK, Serialised, ClientStep
    PROVE  Serialised'
<1> USE DEF Serialised, OneActiveRun, ActiveHoldsLock, BodyHoldsLock,
       EndedIsInactive, OnlyInterruptsAfterStop, RecoveryClears, rows, loop, locks, host
<1>1. ASSUME NEW r \in Runs, QueueRun(r) PROVE Serialised'
  <2>1. "submit" \notin InBody \cup Ended /\ "queued" \notin Active
        BY DEF InBody, Trying, Opening, Tooling, Closing, Handling, Interrupting, Ended, Active
  <2>2. \A q \in Runs : q # r => status'[q] = status[q] /\ task'[q] = task[q]
        BY <1>1 DEF QueueRun, Goto, TypeOK
  <2>3. status'[r] = "queued" /\ task'[r] = "submit" /\ server = "up" /\ UNCHANGED <<convLock, server>>
        BY <1>1 DEF QueueRun, Goto, TypeOK
  <2> QED BY <2>1, <2>2, <2>3
<1>2. ASSUME UNCHANGED <<rows, task, locks, host>> PROVE Serialised'
      BY <1>2
<1> QED BY <1>1, <1>2 DEF ClientStep, SubmitPrompt, RetryRun, RequestCancel, RequestResolve

LEMMA SerialisedServer ==
    ASSUME TypeOK, Serialised, Shutdown \/ Stopped \/ Crash \/ BootStep
    PROVE  Serialised'
<1> USE DEF Serialised, OneActiveRun, ActiveHoldsLock, BodyHoldsLock,
       EndedIsInactive, OnlyInterruptsAfterStop, RecoveryClears, rows, loop, locks, host
<1>0. "none" \notin InBody \cup Ended /\ "interrupt" \notin Ended /\ "fetch" \notin InBody \cup Ended
      BY DEF InBody, Trying, Opening, Tooling, Closing, Handling, Interrupting, Ended
<1>1. CASE Shutdown
  <2>1. \A r \in Runs : task'[r] = Landing(task[r])
        BY <1>1 DEF Shutdown
  <2>2. \A r \in Runs : \/ task'[r] = "none"
                        \/ task[r] \in Trying /\ task'[r] = "interrupt"
        BY <2>1 DEF Landing
  <2>3. BodyHoldsLock'
    <3> SUFFICES ASSUME NEW r \in Runs, task'[r] \in InBody
                 PROVE  convLock'[ConvOf[r]] = r
        OBVIOUS
    <3>1. task[r] \in Trying /\ convLock[ConvOf[r]] = r
          BY <1>0, <2>2 DEF InBody
    <3> QED BY <1>1, <3>1, RunAssumption DEF Shutdown
  <2> QED BY <1>0, <1>1, <2>2, <2>3 DEF Shutdown, Interrupting
<1>2. CASE Stopped
      BY <1>0, <1>2 DEF Stopped
<1>3. CASE Crash
      BY <1>0, <1>3 DEF Crash
<1>4. CASE RecoverRunning
      BY <1>0, <1>4 DEF RecoverRunning, Boot, Active
<1>5. CASE RecoverWaiting
      BY <1>0, <1>5 DEF RecoverWaiting, Boot, Active
<1>6. CASE RecoverPermissions
      BY <1>0, <1>6 DEF RecoverPermissions, Boot
<1>7. CASE EnqueueQueued
      BY <1>0, <1>7 DEF EnqueueQueued, Boot
<1> QED BY <1>1, <1>2, <1>3, <1>4, <1>5, <1>6, <1>7 DEF BootStep

LEMMA SerialisedAlways == Spec => []Serialised
<1>1. Init => Serialised
      BY DEF Init, Serialised, OneActiveRun, ActiveHoldsLock, BodyHoldsLock, EndedIsInactive,
         OnlyInterruptsAfterStop, RecoveryClears, InBody, Trying, Opening, Tooling, Closing,
         Handling, Interrupting, Ended, Active
<1>2. TypeOK /\ Serialised /\ [Next]_vars => Serialised'
  <2> SUFFICES ASSUME TypeOK, Serialised, [Next]_vars PROVE Serialised'
      OBVIOUS
  <2>1. CASE Next
        BY <2>1, SerialisedTask, SerialisedHandler, SerialisedClient, SerialisedServer DEF Next
  <2>2. CASE UNCHANGED vars
        BY <2>2 DEF vars, rows, loop, locks, host, Serialised, OneActiveRun, ActiveHoldsLock,
           BodyHoldsLock, EndedIsInactive, OnlyInterruptsAfterStop, RecoveryClears
  <2> QED BY <2>1, <2>2
<1> QED BY <1>1, <1>2, TypeCorrect, PTL DEF Spec

\* At most one run of a conversation is active, for any number of runs, requests,
\* shutdowns and crashes.
THEOREM OneActiveRunAlways == Spec => []OneActiveRun
<1>1. Serialised => OneActiveRun
      BY DEF Serialised
<1> QED BY <1>1, SerialisedAlways, PTL

-----------------------------------------------------------------------------
(* A tool call that asked for permission executes only once approved.  The *)
(* coroutine reads the decision in one step and executes in another, while *)
(* requests may overwrite the decision at any time: what survives is that  *)
(* an approval was written (decided), and that a permission cannot be      *)
(* inserted behind the back of a call that already runs.                   *)

\* A call that has not asked yet.
Unasked == {"tool", "tool_insert", "policy", "ask_insert"}

CallsInRange ==
    \A r \in Runs :
        /\ calls[r] <= MaxCalls
        /\ task[r] \in Tooling => calls[r] \in Calls
RanIsPast ==
    \A r \in Runs : \A k \in ran[r] :
        /\ k \in Calls /\ k <= calls[r]
        /\ task[r] \in Unasked => k # calls[r]
NotAskedYet ==
    \A r \in Runs, k \in Calls :
        k > calls[r] \/ (task[r] \in Unasked /\ k = calls[r]) => perm[r][k] = "none"
DecisionIsRecorded ==
    \A r \in Runs, k \in Calls : perm[r][k] \in Decisions => perm[r][k] \in decided[r][k]
GoesOnApproved ==
    \A r \in Runs :
        /\ task[r] = "resume" => "approved" \in decided[r][calls[r]]
        /\ task[r] = "execute" /\ perm[r][calls[r]] # "none"
             => "approved" \in decided[r][calls[r]]
AnswersWereAsked ==
    \A h \in Clients :
        /\ req[h].place = "idle" => req[h].perms = {}
        /\ req[h].place = "cancel" => req[h].run \in Runs
        /\ req[h].place = "decide" =>
             /\ req[h].run \in Runs /\ req[h].call \in Calls
             /\ perm[req[h].run][req[h].call] # "none"
        /\ \A k \in req[h].perms : req[h].run \in Runs /\ perm[req[h].run][k] # "none"

Approved ==
    /\ ToolsNeedApproval
    /\ CallsInRange
    /\ RanIsPast
    /\ NotAskedYet
    /\ DecisionIsRecorded
    /\ GoesOnApproved
    /\ AnswersWereAsked

\* What a coroutine's step makes of the calls of its run.
Quiet(r, p) ==
    /\ task' = [task EXCEPT ![r] = p]
    /\ p \in Tooling => task[r] \in Tooling
    /\ p \in Unasked => task[r] \in Unasked
    /\ p = "execute" => task[r] \in Unasked \cup {"resume"}
    /\ p # "resume"
    /\ UNCHANGED <<perm, decided, ran, calls>>
NextCall(r) ==
    /\ calls[r] < MaxCalls
    /\ calls' = [calls EXCEPT ![r] = @ + 1]
    /\ task' = [task EXCEPT ![r] = "tool"]
    /\ UNCHANGED <<perm, decided, ran>>
Asks(r) ==
    /\ task[r] = "ask_insert"
    /\ perm' = [perm EXCEPT ![r][calls[r]] = "pending"]
    /\ task' = [task EXCEPT ![r] = "ask_mark"]
    /\ UNCHANGED <<decided, ran, calls>>
Denies(r) ==
    /\ task[r] = "poll"
    /\ perm[r][calls[r]] = "pending"
    /\ perm' = [perm EXCEPT ![r][calls[r]] = "denied"]
    /\ decided' = [decided EXCEPT ![r][calls[r]] = @ \cup {"denied"}]
    /\ task' = [task EXCEPT ![r] = "tool_cancel"]
    /\ UNCHANGED <<ran, calls>>
Proceeds(r) ==
    /\ task[r] = "poll"
    /\ perm[r][calls[r]] = "approved"
    /\ task' = [task EXCEPT ![r] = "resume"]
    /\ UNCHANGED <<perm, decided, ran, calls>>
Executes(r) ==
    /\ task[r] = "execute"
    /\ ran' = [ran EXCEPT ![r] = @ \cup {calls[r]}]
    /\ task' = [task EXCEPT ![r] = "executing"]
    /\ UNCHANGED <<perm, decided, calls>>

LEMMA TaskStepCalls ==
    ASSUME TypeOK, NEW r \in Runs, TaskStep(r)
    PROVE  \/ \E p : Quiet(r, p)
           \/ NextCall(r) \/ Asks(r) \/ Denies(r) \/ Proceeds(r) \/ Executes(r)
<1> USE DEF Quiet, NextCall, Asks, Denies, Proceeds, Executes, Goto, rows, loop, history,
       Tooling, Unasked
<1>1. Announce(r) => Quiet(r, "fetch")
      BY DEF Announce
<1>2. AcquireConversation(r) => Quiet(r, "insert") \/ Quiet(r, "none")
      BY DEF AcquireConversation
<1>3. InsertMessage(r) => Quiet(r, "start")
      BY DEF InsertMessage
<1>4. StartRun(r) => Quiet(r, "mark") \/ Quiet(r, "started")
      BY DEF StartRun
<1>5. EmitStarted(r) => Quiet(r, "context")
      BY DEF EmitStarted
<1>6. LoadContext(r) => Quiet(r, "model") \/ Quiet(r, "mark") \/ Quiet(r, "fail")
      BY DEF LoadContext, EmitRunEvent
<1>7. CallModel(r) => Quiet(r, "finish") \/ Quiet(r, "answered") \/ Quiet(r, "fail")
      BY DEF CallModel
<1>8. ReadAnswer(r) => Quiet(r, "finish") \/ Quiet(r, "delta") \/ Quiet(r, "reply")
      BY DEF ReadAnswer
<1>9. AppendDelta(r) => Quiet(r, "mark") \/ Quiet(r, "delta_emit")
      BY DEF AppendDelta
<1>10. EmitDelta(r) => Quiet(r, "delta") \/ Quiet(r, "reply")
      BY DEF EmitDelta
<1>11. TakeReply(r) => Quiet(r, "finish") \/ Quiet(r, "fail") \/ NextCall(r)
      BY DEF TakeReply
<1>12. StartTool(r) => Quiet(r, "tool_insert") \/ Quiet(r, "mark")
      BY DEF StartTool, EmitRunEvent
<1>13. InsertTool(r) => Quiet(r, "policy") \/ Quiet(r, "fail")
      BY DEF InsertTool
<1>14. ReadPolicy(r) => Quiet(r, "execute") \/ Quiet(r, "ask_insert") \/ Quiet(r, "tool_fail")
  <2> SUFFICES ASSUME ReadPolicy(r)
               PROVE  Quiet(r, "execute") \/ Quiet(r, "ask_insert") \/ Quiet(r, "tool_fail")
      OBVIOUS
  <2>1. PICK p \in {"auto", "confirm", "disabled"} : Goto(r, AfterPolicy[p])
        BY RunAssumption DEF ReadPolicy
  <2>2. AfterPolicy[p] \in {"execute", "ask_insert", "tool_fail"}
        BY DEF AfterPolicy
  <2> QED BY <2>1, <2>2 DEF ReadPolicy
<1>15. MarkWaiting(r) => Quiet(r, "ask_emit")
      BY DEF MarkWaiting
<1>16. EmitRequested(r) => Quiet(r, "poll") \/ Quiet(r, "tool_cancel")
      BY DEF EmitRequested, EmitRunEvent
<1>17. Resume(r) => Quiet(r, "execute")
      BY DEF Resume
<1>18. ToolReturns(r) => Quiet(r, "tool_fail") \/ Quiet(r, "tool_cancel") \/ Quiet(r, "output") \/ Quiet(r, "save")
      BY DEF ToolReturns
<1>19. EmitOutput(r) => Quiet(r, "save") \/ Quiet(r, "mark")
      BY DEF EmitOutput, EmitRunEvent
<1>20. SaveTool(r) => Quiet(r, "finished")
      BY DEF SaveTool
<1>21. EmitFinished(r) => Quiet(r, "record") \/ Quiet(r, "mark")
      BY DEF EmitFinished, EmitRunEvent
<1>22. RecordTool(r) => Quiet(r, "model") \/ NextCall(r)
      BY DEF RecordTool
<1>23. CancelTool(r) => Quiet(r, "mark")
      BY DEF CancelTool
<1>24. FailTool(r) => Quiet(r, "tool_failed") \/ Quiet(r, "mark")
      BY DEF FailTool
<1>25. EmitToolFailed(r) => Quiet(r, "fail") \/ Quiet(r, "mark")
      BY DEF EmitToolFailed, EmitRunEvent
<1>26. FinishMessage(r) => Quiet(r, "mark") \/ Quiet(r, "message_emit")
      BY DEF FinishMessage
<1>27. EmitMessageCompleted(r) => Quiet(r, "complete") \/ Quiet(r, "mark")
      BY DEF EmitMessageCompleted, EmitRunEvent
<1>28. CompleteRun(r) => Quiet(r, "mark") \/ Quiet(r, "complete_emit")
      BY DEF CompleteRun
<1>29. EmitCompleted(r) => Quiet(r, "none")
      BY DEF EmitCompleted, EndTask
<1>30. MarkCancelled(r) => Quiet(r, "none")
      BY DEF MarkCancelled, EndTask
<1>31. FailRun(r) => Quiet(r, "none") \/ Quiet(r, "fail_message")
      BY DEF FailRun, EndTask
<1>32. FailMessage(r) => Quiet(r, "fail_error")
      BY DEF FailMessage
<1>33. EmitFailure(r) => Quiet(r, "fail_emit")
      BY DEF EmitFailure
<1>34. EmitFailed(r) => Quiet(r, "none")
      BY DEF EmitFailed, EndTask
<1>35. InterruptRun(r) => Quiet(r, "interrupt_message")
      BY DEF InterruptRun
<1>36. InterruptMessage(r) => Quiet(r, "none")
      BY DEF InterruptMessage, EndTask
<1>37. InsertPermission(r) => Asks(r)
      BY DEF InsertPermission
<1>38. Poll(r) => Quiet(r, "tool_cancel") \/ Quiet(r, "tool_fail") \/ Denies(r) \/ Proceeds(r)
      BY DEF Poll, Decisions
<1>39. ExecuteTool(r) => Executes(r)
      BY DEF ExecuteTool
<1> HIDE DEF Quiet, NextCall, Asks, Denies, Proceeds, Executes, Goto
<1> QED BY <1>1, <1>2, <1>3, <1>4, <1>5, <1>6, <1>7, <1>8, <1>9, <1>10, <1>11,
         <1>12, <1>13, <1>14, <1>15, <1>16, <1>17, <1>18, <1>19, <1>20, <1>21,
         <1>22, <1>23, <1>24, <1>25, <1>26, <1>27, <1>28, <1>29, <1>30, <1>31,
         <1>32, <1>33, <1>34, <1>35, <1>36, <1>37, <1>38, <1>39
         DEF TaskStep

\* Everything asked stays asked, so the requests that refer to it stay sound.
Kept == \A q \in Runs, j \in Calls : perm[q][j] # "none" => perm'[q][j] # "none"

LEMMA AskedKept ==
    ASSUME TypeOK, AnswersWereAsked, Kept, UNCHANGED req
    PROVE  AnswersWereAsked'
<1>1. \A h \in Clients : req[h].perms \subseteq Calls
      BY DEF TypeOK, Handler
<1> QED BY <1>1 DEF AnswersWereAsked, Kept

\* A decision written over a permission that was asked for.
LEMMA AnswerKept ==
    ASSUME TypeOK, Approved, NEW r \in Runs, NEW k \in Calls, NEW d \in Decisions,
           perm[r][k] # "none",
           perm' = [perm EXCEPT ![r][k] = d],
           decided' = [decided EXCEPT ![r][k] = @ \cup {d}],
           UNCHANGED <<ran, calls>>,
           \A q \in Runs :
              \/ task'[q] = task[q]
              \/ /\ task[q] \in Tooling
                 /\ task'[q] \notin Unasked \cup {"resume", "execute"}
    PROVE  /\ (ToolsNeedApproval /\ CallsInRange /\ RanIsPast /\ NotAskedYet)'
           /\ (DecisionIsRecorded /\ GoesOnApproved)'
           /\ Kept
<1>1. \A q \in Runs, j \in Calls :
        /\ perm'[q][j] = IF q = r /\ j = k THEN d ELSE perm[q][j]
        /\ decided'[q][j] = IF q = r /\ j = k THEN decided[q][j] \cup {d} ELSE decided[q][j]
      BY DEF TypeOK
<1>2. "none" \notin Decisions /\ "resume" \in Tooling /\ "execute" \in Tooling
      BY DEF Decisions, Tooling
<1>3. Kept
      BY <1>1, <1>2 DEF Kept
<1>4. CallsInRange'
      BY DEF Approved, CallsInRange
<1>5. RanIsPast'
      BY DEF Approved, RanIsPast
<1>6. ToolsNeedApproval'
      BY <1>1, <1>5 DEF Approved, ToolsNeedApproval, RanIsPast
<1>7. NotAskedYet'
      BY <1>1 DEF Approved, NotAskedYet
<1>8. DecisionIsRecorded'
      BY <1>1 DEF Approved, DecisionIsRecorded
<1>9. GoesOnApproved'
  <2> SUFFICES ASSUME NEW q \in Runs, task'[q] \in {"resume", "execute"}
               PROVE  /\ task'[q] = "resume" => "approved" \in decided'[q][calls'[q]]
                      /\ task'[q] = "execute" /\ perm'[q][calls'[q]] # "none"
                           => "approved" \in decided'[q][calls'[q]]
      BY DEF GoesOnApproved
  <2>1. task'[q] = task[q] /\ calls[q] \in Calls /\ calls'[q] = calls[q]
        BY <1>2 DEF Approved, CallsInRange
  <2> QED BY <1>1, <2>1 DEF Approved, GoesOnApproved
<1> QED BY <1>3, <1>4, <1>5, <1>6, <1>7, <1>8, <1>9

LEMMA ApprovedTask ==
    ASSUME TypeOK, Approved, NEW r \in Runs, TaskStep(r)
    PROVE  Approved'
<1> USE DEF Approved
<1>0. /\ UNCHANGED req
      /\ DOMAIN task = Runs /\ DOMAIN calls = Runs /\ DOMAIN ran = Runs
      /\ Unasked \subseteq Tooling /\ {"resume", "execute", "tool", "ask_mark"} \subseteq Tooling
      /\ {"resume", "execute", "ask_mark", "executing", "tool_cancel"} \cap Unasked = {}
      BY TaskLeavesHandlers DEF TypeOK, Unasked, Tooling
<1>1. /\ \A k : k \in Calls <=> k \in Nat /\ 1 <= k /\ k <= MaxCalls
      /\ MaxCalls \in Nat /\ \A q \in Runs : calls[q] \in Nat
      BY RunAssumption DEF Calls, TypeOK
<1>2. ASSUME NEW p, Quiet(r, p) PROVE Approved'
  <2>1. \A q \in Runs : task'[q] = IF q = r THEN p ELSE task[q]
        BY <1>0, <1>2 DEF Quiet
  <2>2. Kept
        BY <1>2 DEF Quiet, Kept
  <2>3. (ToolsNeedApproval /\ DecisionIsRecorded)'
        BY <1>2 DEF Quiet, ToolsNeedApproval, DecisionIsRecorded
  <2>4. (CallsInRange /\ RanIsPast /\ NotAskedYet)'
        BY <1>2, <2>1 DEF Quiet, CallsInRange, RanIsPast, NotAskedYet
  <2>5. GoesOnApproved'
    <3>1. task[r] \in Unasked => perm[r][calls[r]] = "none"
          BY <1>0 DEF NotAskedYet, CallsInRange
    <3> QED BY <1>2, <2>1, <3>1 DEF Quiet, GoesOnApproved
  <2> QED BY <1>0, <2>2, <2>3, <2>4, <2>5, AskedKept
<1>3. CASE NextCall(r)
  <2>1. \A q \in Runs : /\ task'[q] = IF q = r THEN "tool" ELSE task[q]
                        /\ calls'[q] = IF q = r THEN calls[q] + 1 ELSE calls[q]
        BY <1>0, <1>3 DEF NextCall
  <2>2. Kept /\ (ToolsNeedApproval /\ DecisionIsRecorded)'
        BY <1>3 DEF NextCall, Kept, ToolsNeedApproval, DecisionIsRecorded
  <2>3. CallsInRange'
        BY <1>1, <1>3, <2>1 DEF NextCall, CallsInRange
  <2>4. RanIsPast'
        BY <1>1, <1>3, <2>1 DEF NextCall, RanIsPast
  <2>5. NotAskedYet'
        BY <1>1, <1>3, <2>1 DEF NextCall, NotAskedYet
  <2>6. GoesOnApproved'
        BY <1>3, <2>1 DEF NextCall, GoesOnApproved
  <2> QED BY <1>0, <2>2, <2>3, <2>4, <2>5, <2>6, AskedKept
<1>4. CASE Asks(r)
  <2>1. \A q \in Runs : task'[q] = IF q = r THEN "ask_mark" ELSE task[q]
        BY <1>0, <1>4 DEF Asks
  <2>2. calls[r] \in Calls /\ calls[r] \notin ran[r] /\ task[r] \in Unasked
        BY <1>0, <1>4 DEF Asks, CallsInRange, RanIsPast, Unasked
  <2>3. \A q \in Runs, j \in Calls :
           perm'[q][j] = IF q = r /\ j = calls[r] THEN "pending" ELSE perm[q][j]
        BY <1>4, <2>2 DEF Asks, TypeOK
  <2>4. Kept
        BY <2>3 DEF Kept
  <2>5. (ToolsNeedApproval /\ RanIsPast)'
        BY <1>0, <1>4, <2>1, <2>2, <2>3 DEF Asks, ToolsNeedApproval, RanIsPast
  <2>6. CallsInRange'
        BY <1>4, <2>1, <2>2 DEF Asks, CallsInRange
  <2>7. NotAskedYet'
        BY <1>0, <1>1, <1>4, <2>1, <2>2, <2>3 DEF Asks, NotAskedYet
  <2>8. DecisionIsRecorded'
        BY <1>4, <2>3 DEF Asks, DecisionIsRecorded, Decisions
  <2>9. GoesOnApproved'
        BY <1>0, <1>4, <2>1, <2>3 DEF Asks, GoesOnApproved, CallsInRange
  <2> QED BY <1>0, <2>4, <2>5, <2>6, <2>7, <2>8, <2>9, AskedKept
<1>5. CASE Denies(r)
  <2>1. calls[r] \in Calls
        BY <1>5 DEF Denies, CallsInRange, Tooling
  <2>2. \A q \in Runs : \/ task'[q] = task[q]
                        \/ /\ task[q] \in Tooling
                           /\ task'[q] \notin Unasked \cup {"resume", "execute"}
        BY <1>0, <1>5 DEF Denies, Tooling
  <2>3. "denied" \in Decisions /\ perm[r][calls[r]] # "none"
        BY <1>5 DEF Denies, Decisions
  <2>4. /\ perm' = [perm EXCEPT ![r][calls[r]] = "denied"]
        /\ decided' = [decided EXCEPT ![r][calls[r]] = @ \cup {"denied"}]
        /\ UNCHANGED <<ran, calls>>
        BY <1>5 DEF Denies
  <2> QED BY <1>0, <2>1, <2>2, <2>3, <2>4, AnswerKept, AskedKept
<1>6. CASE Proceeds(r)
  <2>1. \A q \in Runs : task'[q] = IF q = r THEN "resume" ELSE task[q]
        BY <1>0, <1>6 DEF Proceeds
  <2>2. calls[r] \in Calls /\ task[r] \in Tooling
        BY <1>6 DEF Proceeds, CallsInRange, Tooling
  <2>3. "approved" \in decided[r][calls[r]]
        BY <1>6, <2>2 DEF Proceeds, DecisionIsRecorded, Decisions
  <2>4. Kept /\ (ToolsNeedApproval /\ DecisionIsRecorded)'
        BY <1>6 DEF Proceeds, Kept, ToolsNeedApproval, DecisionIsRecorded
  <2>5. (CallsInRange /\ RanIsPast /\ NotAskedYet)'
        BY <1>0, <1>6, <2>1, <2>2 DEF Proceeds, CallsInRange, RanIsPast, NotAskedYet
  <2>6. GoesOnApproved'
        BY <1>6, <2>1, <2>3 DEF Proceeds, GoesOnApproved
  <2> QED BY <1>0, <2>4, <2>5, <2>6, AskedKept
<1>7. CASE Executes(r)
  <2>1. \A q \in Runs : /\ task'[q] = IF q = r THEN "executing" ELSE task[q]
                        /\ ran'[q] = IF q = r THEN ran[q] \cup {calls[r]} ELSE ran[q]
        BY <1>0, <1>7 DEF Executes
  <2>2. calls[r] \in Calls /\ task[r] \in Tooling
        BY <1>7 DEF Executes, CallsInRange, Tooling
  <2>3. perm[r][calls[r]] # "none" => "approved" \in decided[r][calls[r]]
        BY <1>7 DEF Executes, GoesOnApproved
  <2>4. ToolsNeedApproval'
        BY <1>7, <2>1, <2>3 DEF Executes, ToolsNeedApproval
  <2>5. Kept /\ DecisionIsRecorded'
        BY <1>7 DEF Executes, Kept, DecisionIsRecorded
  <2>6. (CallsInRange /\ NotAskedYet)'
        BY <1>0, <1>7, <2>1, <2>2 DEF Executes, CallsInRange, NotAskedYet
  <2>7. RanIsPast'
        BY <1>0, <1>1, <1>7, <2>1, <2>2 DEF Executes, RanIsPast
  <2>8. GoesOnApproved'
        BY <1>7, <2>1 DEF Executes, GoesOnApproved
  <2> QED BY <1>0, <2>4, <2>5, <2>6, <2>7, <2>8, AskedKept
<1> QED BY <1>2, <1>3, <1>4, <1>5, <1>6, <1>7, TaskStepCalls

LEMMA ApprovedHandler ==
    ASSUME TypeOK, Deciding, Approved, NEW h \in Clients, HandlerStep(h)
    PROVE  Approved'
<1> DEFINE r == req[h].run
<1>0. /\ req \in [Clients -> Handler]
      /\ UNCHANGED <<task, calls, ran>>
      BY DEF TypeOK, rows, loop, history, HandlerStep, LockForCancel, ReadStartedTools,
         DenyPermission, StopTool, CancelRow, EmitDenied, EmitStopped, EmitCancelError,
         EmitCancelled, Decide, EmitResolved
<1>1. PICK x : Moves(h, x)
      BY <1>0, HandlerMoves
\* Whatever else happens, the requests stay sound when nothing is unasked.
<1>2. ASSUME Kept PROVE AnswersWereAsked'
  <2> SUFFICES ASSUME NEW g \in Clients
               PROVE  /\ req'[g].place = "idle" => req'[g].perms = {}
                      /\ req'[g].place = "cancel" => req'[g].run \in Runs
                      /\ req'[g].place = "decide" =>
                           /\ req'[g].run \in Runs /\ req'[g].call \in Calls
                           /\ perm'[req'[g].run][req'[g].call] # "none"
                      /\ \A k \in req'[g].perms : req'[g].run \in Runs /\ perm'[req'[g].run][k] # "none"
      BY DEF AnswersWereAsked
  <2>1. req[g].perms \subseteq Calls /\ x.perms \subseteq Calls
        BY <1>0, <1>1 DEF Handler, Moves
  <2>2. CASE g # h
    <3>1. req'[g] = req[g]
          BY <1>0, <1>1, <2>2 DEF Moves
    <3> QED BY <1>2, <2>1, <3>1 DEF Approved, AnswersWereAsked, Kept
  <2>3. CASE g = h
    <3>1. req'[g] = x
          BY <1>0, <1>1, <2>3 DEF Moves
    <3>2. \A k \in x.perms : x.run \in Runs /\ perm[x.run][k] # "none"
          BY <1>1, <2>3 DEF Moves, Approved, AnswersWereAsked, Pending
    <3> QED BY <1>1, <1>2, <2>1, <3>1, <3>2 DEF Moves, Kept
  <2> QED BY <2>2, <2>3
<1>3. ASSUME UNCHANGED <<perm, decided>> PROVE Approved'
  <2>1. Kept
        BY <1>3 DEF Kept
  <2> QED BY <1>0, <1>2, <1>3, <2>1 DEF Approved, ToolsNeedApproval, CallsInRange, RanIsPast,
             NotAskedYet, DecisionIsRecorded, GoesOnApproved
<1>4. ASSUME NEW k \in Calls, NEW d \in Decisions, r \in Runs, perm[r][k] # "none",
             perm' = [perm EXCEPT ![r][k] = d],
             decided' = [decided EXCEPT ![r][k] = @ \cup {d}]
      PROVE  Approved'
  <2>1. /\ (ToolsNeedApproval /\ CallsInRange /\ RanIsPast /\ NotAskedYet)'
        /\ (DecisionIsRecorded /\ GoesOnApproved)'
        /\ Kept
    <3> HIDE DEF r
    <3> QED BY <1>0, <1>4, AnswerKept
  <2> QED BY <1>2, <2>1 DEF Approved
<1>5. CASE DenyPermission(h)
  <2>1. PICK k \in req[h].perms :
           /\ perm' = [perm EXCEPT ![r][k] = "denied"]
           /\ decided' = [decided EXCEPT ![r][k] = @ \cup {"denied"}]
        BY <1>5 DEF DenyPermission
  <2>2. k \in Calls /\ r \in Runs /\ perm[r][k] # "none" /\ "denied" \in Decisions
        BY <1>0, <2>1 DEF Handler, Approved, AnswersWereAsked, Decisions
  <2> QED BY <1>4, <2>1, <2>2
<1>6. CASE Decide(h)
  <2>1. req[h].call \in Calls /\ r \in Runs /\ perm[r][req[h].call] # "none"
        BY <1>6 DEF Decide, Approved, AnswersWereAsked
  <2>2. req[h].decision \in Decisions
        BY <1>6 DEF Decide, Deciding
  <2>3. /\ perm' = [perm EXCEPT ![r][req[h].call] = req[h].decision]
        /\ decided' = [decided EXCEPT ![r][req[h].call] = @ \cup {req[h].decision}]
        BY <1>6 DEF Decide
  <2> QED BY <1>4, <2>1, <2>2, <2>3
<1>7. CASE ~(DenyPermission(h) \/ Decide(h))
      BY <1>3, <1>7 DEF HandlerStep, rows, history, LockForCancel, ReadStartedTools, StopTool,
         CancelRow, EmitDenied, EmitStopped, EmitCancelError, EmitCancelled, EmitResolved
<1> QED BY <1>5, <1>6, <1>7

LEMMA ApprovedClient ==
    ASSUME TypeOK, Approved, ClientStep
    PROVE  Approved'
<1> USE DEF rows, loop, history
<1>0. /\ req \in [Clients -> Handler]
      /\ \A h \in Clients : req[h].perms \subseteq Calls
      /\ {"submit"} \cap (Tooling \cup Unasked) = {}
      BY DEF TypeOK, Handler, Tooling, Unasked
<1>1. ASSUME UNCHANGED <<perm, decided, ran, calls>>,
             \A q \in Runs : task'[q] \in {task[q], "submit"}
      PROVE  /\ (ToolsNeedApproval /\ CallsInRange /\ RanIsPast /\ NotAskedYet)'
             /\ (DecisionIsRecorded /\ GoesOnApproved)'
      BY <1>0, <1>1 DEF Approved, ToolsNeedApproval, CallsInRange, RanIsPast, NotAskedYet,
         DecisionIsRecorded, GoesOnApproved
<1>2. ASSUME NEW r \in Runs, QueueRun(r) PROVE Approved'
  <2>1. \A q \in Runs : task'[q] \in {task[q], "submit"}
        BY <1>2 DEF QueueRun, Goto, TypeOK
  <2>2. UNCHANGED <<perm, decided, ran, calls, req>>
        BY <1>2 DEF QueueRun
  <2>3. AnswersWereAsked'
        BY <2>2, AskedKept DEF Approved, Kept
  <2> QED BY <1>1, <2>1, <2>2, <2>3 DEF Approved
<1>3. ASSUME NEW h \in Clients, NEW r \in Runs, RequestCancel(h, r) PROVE Approved'
  <2> DEFINE x == [req[h] EXCEPT !.place = "cancel", !.run = r]
  <2>1. req[h].perms = {}
        BY <1>3 DEF RequestCancel, Approved, AnswersWereAsked
  <2>2. x.place = "cancel" /\ x.run = r /\ x.perms = {}
        BY <1>0, <2>1 DEF Handler
  <2>3. req' = [req EXCEPT ![h] = x]
        BY <1>0, <1>3 DEF RequestCancel
  <2>4. UNCHANGED <<perm, decided, ran, calls, task>>
        BY <1>3 DEF RequestCancel
  <2> HIDE DEF x
  <2>5. AnswersWereAsked'
        BY <1>0, <2>2, <2>3, <2>4 DEF Approved, AnswersWereAsked
  <2> QED BY <1>1, <2>4, <2>5 DEF Approved
<1>4. ASSUME NEW h \in Clients, NEW r \in Runs, NEW k \in Calls, NEW d \in Decisions,
             RequestResolve(h, r, k, d)
      PROVE  Approved'
  <2> DEFINE x == [req[h] EXCEPT !.place = "decide", !.run = r, !.call = k, !.decision = d]
  <2>1. req[h].perms = {} /\ perm[r][k] # "none"
        BY <1>4 DEF RequestResolve, Approved, AnswersWereAsked
  <2>2. x.place = "decide" /\ x.run = r /\ x.call = k /\ x.perms = {}
        BY <1>0, <2>1 DEF Handler
  <2>3. req' = [req EXCEPT ![h] = x]
        BY <1>0, <1>4 DEF RequestResolve
  <2>4. UNCHANGED <<perm, decided, ran, calls, task>>
        BY <1>4 DEF RequestResolve
  <2> HIDE DEF x
  <2>5. AnswersWereAsked'
        BY <1>0, <2>1, <2>2, <2>3, <2>4 DEF Approved, AnswersWereAsked
  <2> QED BY <1>1, <2>4, <2>5 DEF Approved
<1> QED BY <1>2, <1>3, <1>4 DEF ClientStep, SubmitPrompt, RetryRun

LEMMA ApprovedServer ==
    ASSUME TypeOK, Approved, Shutdown \/ Stopped \/ Crash \/ BootStep
    PROVE  Approved'
<1> USE DEF rows, loop, history
<1>0. /\ req \in [Clients -> Handler]
      /\ {"none", "fetch", "interrupt"} \cap (Tooling \cup Unasked \cup {"resume", "execute"}) = {}
      BY DEF TypeOK, Tooling, Unasked
<1>1. \A q \in Runs : task'[q] \in {task[q], "none", "fetch", "interrupt"}
      BY DEF Shutdown, Landing, Stopped, Crash, BootStep, RecoverRunning, RecoverWaiting,
         RecoverPermissions, EnqueueQueued
<1>2. UNCHANGED <<ran, calls>>
      BY DEF Shutdown, Stopped, Crash, BootStep, RecoverRunning, RecoverWaiting,
         RecoverPermissions, EnqueueQueued
<1>3. \A q \in Runs, j \in Calls :
         \/ perm'[q][j] = perm[q][j] /\ decided'[q][j] = decided[q][j]
         \/ /\ perm[q][j] = "pending" /\ perm'[q][j] = "denied"
            /\ decided'[q][j] = decided[q][j] \cup {"denied"}
  <2>1. CASE RecoverPermissions
        BY <2>1 DEF RecoverPermissions
  <2>2. CASE ~RecoverPermissions
    <3>1. UNCHANGED <<perm, decided>>
          BY <2>2 DEF Shutdown, Stopped, Crash, BootStep, RecoverRunning, RecoverWaiting,
             EnqueueQueued
    <3> QED BY <3>1
  <2> QED BY <2>1, <2>2
<1>4. Kept
      BY <1>3 DEF Kept
<1>5. \A h \in Clients : req'[h] = req[h] \/ req'[h] = Done
      BY DEF Shutdown, Stopped, Crash, BootStep, RecoverRunning, RecoverWaiting,
         RecoverPermissions, EnqueueQueued
<1>6. AnswersWereAsked'
  <2> SUFFICES ASSUME NEW h \in Clients
               PROVE  /\ req'[h].place = "idle" => req'[h].perms = {}
                      /\ req'[h].place = "cancel" => req'[h].run \in Runs
                      /\ req'[h].place = "decide" =>
                           /\ req'[h].run \in Runs /\ req'[h].call \in Calls
                           /\ perm'[req'[h].run][req'[h].call] # "none"
                      /\ \A k \in req'[h].perms : req'[h].run \in Runs /\ perm'[req'[h].run][k] # "none"
      BY DEF AnswersWereAsked
  <2>1. CASE req'[h] = req[h]
    <3>1. req[h].perms \subseteq Calls
          BY <1>0 DEF Handler
    <3> QED BY <1>4, <2>1, <3>1 DEF Approved, AnswersWereAsked, Kept
  <2>2. CASE req'[h] = Done
        BY <2>2 DEF Done, Idle
  <2> QED BY <1>5, <2>1, <2>2
<1>7. (CallsInRange /\ RanIsPast /\ NotAskedYet)'
      BY <1>0, <1>1, <1>2, <1>3 DEF Approved, CallsInRange, RanIsPast, NotAskedYet
<1>8. (ToolsNeedApproval /\ DecisionIsRecorded)'
      BY <1>2, <1>3, <1>7 DEF Approved, ToolsNeedApproval, DecisionIsRecorded, RanIsPast, Decisions
<1>9. GoesOnApproved'
      BY <1>0, <1>1, <1>2, <1>3 DEF Approved, GoesOnApproved, CallsInRange, Tooling
<1> QED BY <1>6, <1>7, <1>8, <1>9 DEF Approved

LEMMA ApprovedAlways == Spec => []Approved
<1>1. Init => Approved
  <2> SUFFICES ASSUME Init PROVE Approved
      OBVIOUS
  <2>1. ToolsNeedApproval /\ RanIsPast
        BY DEF Init, ToolsNeedApproval, RanIsPast
  <2>2. CallsInRange
        BY RunAssumption DEF Init, CallsInRange, Tooling
  <2>3. NotAskedYet /\ GoesOnApproved
        BY DEF Init, NotAskedYet, GoesOnApproved, Tooling, Unasked
  <2>4. DecisionIsRecorded
        BY DEF Init, DecisionIsRecorded, Decisions
  <2>5. AnswersWereAsked
        BY DEF Init, Idle, AnswersWereAsked
  <2> QED BY <2>1, <2>2, <2>3, <2>4, <2>5 DEF Approved
<1>2. TypeOK /\ Deciding /\ Approved /\ [Next]_vars => Approved'
  <2> SUFFICES ASSUME TypeOK, Deciding, Approved, [Next]_vars PROVE Approved'
      OBVIOUS
  <2>1. CASE Next
        BY <2>1, ApprovedTask, ApprovedHandler, ApprovedClient, ApprovedServer DEF Next
  <2>2. CASE UNCHANGED vars
        BY <2>2 DEF vars, rows, loop, history, Approved, ToolsNeedApproval, CallsInRange,
           RanIsPast, NotAskedYet, DecisionIsRecorded, GoesOnApproved, AnswersWereAsked
  <2> QED BY <2>1, <2>2
<1> QED BY <1>1, <1>2, TypeInvariant, PTL DEF Spec

\* A call that asked for permission begins to execute only after an approval, for
\* any number of requests that answer and cancel at any time.
THEOREM ToolsNeedApprovalAlways == Spec => []ToolsNeedApproval
<1>1. Approved => ToolsNeedApproval
      BY DEF Approved
<1> QED BY <1>1, ApprovedAlways, PTL

-----------------------------------------------------------------------------
(* What the properties read off a log, and what an event adds to it.       *)

CountIn(s, type) == Cardinality({i \in DOMAIN s : s[i].type = type})
AnnouncedIn(s) == {s[i].outcome : i \in {j \in DOMAIN s : s[j].type = "run.completed"}}
CallsIn(s) == {s[i].call : i \in {j \in DOMAIN s : s[j].type = "tool.started"}}
OnceIn(s) == \A i, j \in DOMAIN s : s[i].type = "tool.started" /\ s[i] = s[j] => i = j

LEMMA EmptyLog ==
    /\ \A type : CountIn(<<>>, type) = 0
    /\ AnnouncedIn(<<>>) = {} /\ CallsIn(<<>>) = {} /\ OnceIn(<<>>)
<1>1. DOMAIN <<>> = {}
      OBVIOUS
<1>2. \A type : {i \in DOMAIN <<>> : <<>>[i].type = type} = {}
      BY <1>1
<1> QED BY <1>1, <1>2, FS_EmptySet DEF CountIn, AnnouncedIn, CallsIn, OnceIn

LEMMA CountIsNatural ==
    ASSUME NEW s \in Seq(LogEntry), NEW type
    PROVE  CountIn(s, type) \in Nat
<1>1. DOMAIN s = 1 .. Len(s) /\ Len(s) \in Nat
      OBVIOUS
<1>2. IsFiniteSet(DOMAIN s)
      BY <1>1, FS_Interval
<1>3. IsFiniteSet({i \in DOMAIN s : s[i].type = type})
      BY <1>2, FS_Subset
<1> QED BY <1>3, FS_CardinalityType DEF CountIn

LEMMA CountAppend ==
    ASSUME NEW s \in Seq(LogEntry), NEW e \in LogEntry, NEW type
    PROVE  CountIn(Append(s, e), type) = CountIn(s, type) + (IF e.type = type THEN 1 ELSE 0)
<1> DEFINE n == Len(s) + 1
           before == {i \in DOMAIN s : s[i].type = type}
           after == {i \in DOMAIN Append(s, e) : Append(s, e)[i].type = type}
<1>1. /\ DOMAIN s = 1 .. Len(s) /\ DOMAIN Append(s, e) = 1 .. n /\ Len(s) \in Nat
      /\ Append(s, e)[n] = e
      /\ \A i \in 1 .. Len(s) : Append(s, e)[i] = s[i]
      OBVIOUS
<1>2. IsFiniteSet(before)
  <2>1. IsFiniteSet(DOMAIN s)
        BY <1>1, FS_Interval
  <2> QED BY <2>1, FS_Subset
<1>3. n \notin before
      BY <1>1
<1>4. CASE e.type = type
  <2>1. after = before \cup {n}
        BY <1>1, <1>4
  <2> HIDE DEF before, after, n
  <2>2. Cardinality(after) = Cardinality(before) + 1
        BY <1>2, <1>3, <2>1, FS_AddElement
  <2> QED BY <1>4, <2>2 DEF CountIn, before, after
<1>5. CASE e.type # type
  <2>1. after = before
        BY <1>1, <1>5
  <2>2. Cardinality(before) \in Nat
        BY <1>2, FS_CardinalityType
  <2> HIDE DEF before, after
  <2>3. Cardinality(after) = Cardinality(before) + 0
        BY <2>1, <2>2
  <2> QED BY <1>5, <2>3 DEF CountIn, before, after
<1> QED BY <1>4, <1>5

LEMMA AnnouncedAppend ==
    ASSUME NEW s \in Seq(LogEntry), NEW e \in LogEntry
    PROVE  AnnouncedIn(Append(s, e)) =
               AnnouncedIn(s) \cup (IF e.type = "run.completed" THEN {e.outcome} ELSE {})
<1> DEFINE n == Len(s) + 1
<1>1. /\ DOMAIN s = 1 .. Len(s) /\ DOMAIN Append(s, e) = 1 .. n /\ Len(s) \in Nat
      /\ Append(s, e)[n] = e
      /\ \A i \in 1 .. Len(s) : Append(s, e)[i] = s[i]
      OBVIOUS
<1>2. 1 .. n = (1 .. Len(s)) \cup {n}
      BY <1>1
<1> HIDE DEF n
<1> QED BY <1>1, <1>2 DEF AnnouncedIn

LEMMA CallsAppend ==
    ASSUME NEW s \in Seq(LogEntry), NEW e \in LogEntry
    PROVE  CallsIn(Append(s, e)) =
               CallsIn(s) \cup (IF e.type = "tool.started" THEN {e.call} ELSE {})
<1> DEFINE n == Len(s) + 1
<1>1. /\ DOMAIN s = 1 .. Len(s) /\ DOMAIN Append(s, e) = 1 .. n /\ Len(s) \in Nat
      /\ Append(s, e)[n] = e
      /\ \A i \in 1 .. Len(s) : Append(s, e)[i] = s[i]
      OBVIOUS
<1>2. 1 .. n = (1 .. Len(s)) \cup {n}
      BY <1>1
<1> HIDE DEF n
<1> QED BY <1>1, <1>2 DEF CallsIn

LEMMA OnceAppend ==
    ASSUME NEW s \in Seq(LogEntry), NEW e \in LogEntry, OnceIn(s),
           e.type = "tool.started" => e.call \notin CallsIn(s)
    PROVE  OnceIn(Append(s, e))
<1> DEFINE n == Len(s) + 1
           t == Append(s, e)
<1>1. /\ DOMAIN s = 1 .. Len(s) /\ DOMAIN t = 1 .. n /\ Len(s) \in Nat
      /\ t[n] = e
      /\ \A i \in 1 .. Len(s) : t[i] = s[i]
      OBVIOUS
<1>2. 1 .. n = (1 .. Len(s)) \cup {n}
      BY <1>1
<1>3. ASSUME NEW i \in 1 .. Len(s), e.type = "tool.started" PROVE s[i] # e
      BY <1>1, <1>3 DEF CallsIn
<1> HIDE DEF n, t
<1>4. SUFFICES ASSUME NEW i \in DOMAIN t, NEW j \in DOMAIN t, t[i].type = "tool.started", t[i] = t[j]
               PROVE  i = j
      BY DEF OnceIn, t
<1> QED BY <1>1, <1>2, <1>3, <1>4 DEF OnceIn

-----------------------------------------------------------------------------
(* A coroutine's step and a handler's step, as far as the outcome of a run *)
(* goes: what they do to the rows, the log and the lock of each run.       *)

\* The places process_run goes through.
Ways(p, q) ==
    \/ p = "submit" /\ q = "fetch"
    \/ p = "fetch" /\ q \in {"insert", "none"}
    \/ p = "insert" /\ q = "start"
    \/ p = "start" /\ q \in {"started", "mark"}
    \/ p = "started" /\ q = "context"
    \/ p = "context" /\ q \in {"model", "mark", "fail"}
    \/ p = "model" /\ q \in {"answered", "finish", "fail"}
    \/ p = "answered" /\ q \in {"delta", "reply", "finish"}
    \/ p = "delta" /\ q \in {"delta_emit", "mark"}
    \/ p = "delta_emit" /\ q \in {"delta", "reply"}
    \/ p = "reply" /\ q \in {"tool", "finish", "fail"}
    \/ p = "tool" /\ q \in {"tool_insert", "mark"}
    \/ p = "tool_insert" /\ q \in {"policy", "fail"}
    \/ p = "policy" /\ q \in {"execute", "ask_insert", "tool_fail"}
    \/ p = "ask_insert" /\ q = "ask_mark"
    \/ p = "ask_mark" /\ q = "ask_emit"
    \/ p = "ask_emit" /\ q \in {"poll", "tool_cancel"}
    \/ p = "poll" /\ q \in {"resume", "tool_fail", "tool_cancel"}
    \/ p = "resume" /\ q = "execute"
    \/ p = "execute" /\ q = "executing"
    \/ p = "executing" /\ q \in {"output", "save", "tool_fail", "tool_cancel"}
    \/ p = "output" /\ q \in {"save", "mark"}
    \/ p = "save" /\ q = "finished"
    \/ p = "finished" /\ q \in {"record", "mark"}
    \/ p = "record" /\ q \in {"tool", "model"}
    \/ p = "tool_cancel" /\ q = "mark"
    \/ p = "tool_fail" /\ q \in {"tool_failed", "mark"}
    \/ p = "tool_failed" /\ q \in {"fail", "mark"}
    \/ p = "finish" /\ q \in {"message_emit", "mark"}
    \/ p = "message_emit" /\ q \in {"complete", "mark"}
    \/ p = "complete" /\ q \in {"complete_emit", "mark"}
    \/ p = "fail" /\ q \in {"fail_message", "none"}
    \/ p = "fail_message" /\ q = "fail_error"
    \/ p = "fail_error" /\ q = "fail_emit"
    \/ p \in {"complete_emit", "mark", "fail_emit", "interrupt_message"} /\ q = "none"
    \/ p = "interrupt" /\ q = "interrupt_message"

\* What it writes on the way, and what it needs to go it.
StatusAt(r, q) ==
    CASE q = "started" -> "running"
      [] q = "ask_emit" -> "waiting_approval"
      [] q = "execute" /\ task[r] = "resume" -> "running"
      [] q = "complete_emit" -> "completed"
      [] q = "fail_message" -> "failed"
      [] q = "interrupt_message" -> "interrupted"
      [] OTHER -> status[r]
MessageAt(r, q) ==
    CASE q = "start" -> "streaming"
      [] q = "message_emit" -> "completed"
      [] task[r] = "mark" -> "cancelled"
      [] q = "fail_error" -> "failed"
      [] task[r] = "interrupt_message" -> "interrupted"
      [] OTHER -> message[r]
ToolAt(r, q) ==
    CASE q = "policy" -> [tool[r] EXCEPT ![calls[r]] = "started"]
      [] q = "finished" -> [tool[r] EXCEPT ![calls[r]] = "success"]
      [] task[r] = "tool_cancel" -> [tool[r] EXCEPT ![calls[r]] = "cancelled"]
      [] q = "tool_failed" -> [tool[r] EXCEPT ![calls[r]] = "failed"]
      [] OTHER -> tool[r]
Holding == {"started", "delta_emit", "complete_emit", "fail_message", "fail_error", "fail_emit"}
Locking == {<<"start", "started">>, <<"delta", "delta_emit">>, <<"complete", "complete_emit">>,
            <<"fail", "fail_message">>}
Seeking == {"finished", "message_emit", "complete", "fail", "delta", "start"}
RowsMove(r, q) ==
    /\ status'[r] = StatusAt(r, q)
    /\ message'[r] = MessageAt(r, q)
    /\ tool'[r] = ToolAt(r, q)
    /\ content'[r] = IF q = "delta_emit" THEN content[r] + 1 ELSE content[r]
    /\ calls'[r] = IF q = "tool" THEN calls[r] + 1 ELSE calls[r]
    /\ awaiting'[r] = IF q = "interrupt_message" THEN FALSE ELSE awaiting[r]
LockMoves(r, q) ==
    /\ task[r] \in Seeking => eventLock[r] = Nobody
    /\ eventLock'[r] = IF <<task[r], q>> \in Locking THEN r
                       ELSE IF task[r] \in {"started", "delta_emit", "complete_emit", "fail_emit"}
                       THEN Nobody ELSE eventLock[r]
Permits(r, q) ==
    /\ task[r] = "fetch" => (q = "insert" <=> status[r] = "queued")
    /\ task[r] = "fail" /\ q = "none" => Cancelled(r)
    /\ q \in {"mark", "tool_cancel"} /\ task[r] # "tool_cancel" => Cancelled(r)
    /\ q \in {"started", "delta_emit", "record", "complete", "complete_emit", "fail_message",
              "message_emit"} => ~Cancelled(r)
    /\ q = "ask_insert" => "confirm" \in ToolPolicies
LogMoves(r, q) ==
    /\ CountIn(log'[r], "run.started") =
         CountIn(log[r], "run.started") + (IF task[r] = "started" THEN 1 ELSE 0)
    /\ CountIn(log'[r], "message.delta") =
         CountIn(log[r], "message.delta") + (IF task[r] = "delta_emit" THEN 1 ELSE 0)
    /\ CountIn(log'[r], "message.completed") =
         CountIn(log[r], "message.completed") + (IF q = "complete" THEN 1 ELSE 0)
    /\ AnnouncedIn(log'[r]) = AnnouncedIn(log[r]) \cup
         (IF task[r] = "complete_emit" THEN {"completed"}
          ELSE IF task[r] = "fail_emit" THEN {"failed"} ELSE {})
    /\ CallsIn(log'[r]) = CallsIn(log[r]) \cup (IF q = "tool_insert" THEN {calls[r]} ELSE {})
    /\ OnceIn(log[r]) /\ (q = "tool_insert" => calls[r] \notin CallsIn(log[r])) => OnceIn(log'[r])
Untouched(r) ==
    /\ status'[r] = status[r] /\ awaiting'[r] = awaiting[r] /\ message'[r] = message[r]
    /\ content'[r] = content[r] /\ tool'[r] = tool[r] /\ log'[r] = log[r]
    /\ task'[r] = task[r] /\ calls'[r] = calls[r] /\ eventLock'[r] = eventLock[r]
    /\ \A k \in Calls : perm'[r][k] = perm[r][k]
Goes(r, q) ==
    /\ Ways(task[r], q)
    /\ task'[r] = q
    /\ RowsMove(r, q) /\ LockMoves(r, q) /\ Permits(r, q) /\ LogMoves(r, q)

LEMMA SilentLog ==
    ASSUME TypeOK, NEW r \in Runs, NEW q, log'[r] = log[r],
           task[r] \notin {"started", "delta_emit", "complete_emit", "fail_emit"},
           q \notin {"complete", "tool_insert"}
    PROVE  LogMoves(r, q)
<1>1. log[r] \in Seq(LogEntry)
      BY DEF TypeOK
<1>2. \A type : CountIn(log[r], type) \in Nat
      BY <1>1, CountIsNatural
<1> QED BY <1>2 DEF LogMoves

LEMMA EmittedLog ==
    ASSUME TypeOK, NEW r \in Runs, NEW q,
           NEW type \in EventTypes, NEW k \in Nat, NEW o \in Outcomes, Emit(r, Event(type, k, o)),
           type = "run.started" <=> task[r] = "started",
           type = "message.delta" <=> task[r] = "delta_emit",
           type = "message.completed" <=> q = "complete",
           type = "tool.started" <=> q = "tool_insert",
           type = "tool.started" => k = calls[r],
           type = "run.completed" <=> task[r] \in {"complete_emit", "fail_emit"},
           task[r] = "complete_emit" => o = "completed",
           task[r] = "fail_emit" => o = "failed"
    PROVE  LogMoves(r, q)
<1> DEFINE e == Event(type, k, o)
<1>1. log[r] \in Seq(LogEntry) /\ e \in LogEntry
      BY EventType DEF TypeOK
<1>2. log'[r] = Append(log[r], e)
      BY DEF Emit, TypeOK
<1>3. e.type = type /\ e.call = k /\ e.outcome = o
      BY DEF Event
<1> HIDE DEF e
<1>4. \A t : CountIn(log'[r], t) = CountIn(log[r], t) + (IF type = t THEN 1 ELSE 0)
      BY <1>1, <1>2, <1>3, CountAppend
<1>5. AnnouncedIn(log'[r]) = AnnouncedIn(log[r]) \cup (IF type = "run.completed" THEN {o} ELSE {})
      BY <1>1, <1>2, <1>3, AnnouncedAppend
<1>6. CallsIn(log'[r]) = CallsIn(log[r]) \cup (IF type = "tool.started" THEN {k} ELSE {})
      BY <1>1, <1>2, <1>3, CallsAppend
<1>7. OnceIn(log[r]) /\ (type = "tool.started" => k \notin CallsIn(log[r])) => OnceIn(log'[r])
      BY <1>1, <1>2, <1>3, OnceAppend
<1> QED BY <1>4, <1>5, <1>6, <1>7 DEF LogMoves

LEMMA PlainLog ==
    ASSUME TypeOK, NEW r \in Runs, NEW q, task[r] \in {"submit", "fail_error"},
           q \in {"fetch", "fail_emit"},
           NEW type \in {"run.queued", "error"}, NEW o \in Outcomes, Emit(r, Event(type, 0, o))
    PROVE  LogMoves(r, q)
<1>1. type \in EventTypes /\ 0 \in Nat
      BY DEF EventTypes
<1>2. /\ type # "run.started" /\ type # "message.delta" /\ type # "message.completed"
      /\ type # "tool.started" /\ type # "run.completed"
      OBVIOUS
<1>3. /\ task[r] # "started" /\ task[r] # "delta_emit" /\ q # "complete" /\ q # "tool_insert"
      /\ task[r] # "complete_emit" /\ task[r] # "fail_emit"
      OBVIOUS
<1> QED BY <1>1, <1>2, <1>3, EmittedLog

\* A coroutine touches nothing of another run, no handler and not the process.
LEMMA TaskStepEffect ==
    ASSUME TypeOK, NEW r \in Runs, TaskStep(r)
    PROVE  /\ \E q : Goes(r, q)
           /\ \A s \in Runs \ {r} : Untouched(s)
           /\ UNCHANGED <<req, server>>
<1> DEFINE Others == \A s \in Runs \ {r} : Untouched(s)
           Effect == (\E q : Goes(r, q)) /\ Others /\ UNCHANGED <<req, server>>
<1> USE DEF rows, loop, locks, host, history, Goto, Goes, Ways, RowsMove, LockMoves, Permits,
    StatusAt, MessageAt, ToolAt, Seeking, Locking, Cancelled
<1>1. ASSUME Announce(r) PROVE Effect
  <2>1. Others /\ UNCHANGED <<req, server>>
        BY <1>1 DEF TypeOK, Untouched, Announce, Emit
  <2>2. LogMoves(r, "fetch")
    <3>1. "" \in Outcomes
          BY DEF Outcomes
    <3>2. PICK o \in Outcomes : Emit(r, Event("run.queued", 0, o))
          BY <1>1, <3>1 DEF Announce
    <3>3. task[r] = "submit"
          BY <1>1 DEF Announce
    <3> QED BY <3>2, <3>3, PlainLog
  <2>3. Goes(r, "fetch")
        BY <1>1, <2>2 DEF TypeOK, Announce
  <2> QED BY <2>1, <2>3
<1>2. ASSUME AcquireConversation(r) PROVE Effect
  <2>1. Others /\ UNCHANGED <<req, server>>
        BY <1>2 DEF TypeOK, Untouched, AcquireConversation
  <2>2. PICK q \in {"insert", "none"} : task'[r] = q
        BY <1>2 DEF TypeOK, AcquireConversation
  <2>3. LogMoves(r, q)
        BY <1>2, <2>2, SilentLog DEF AcquireConversation
  <2>4. Goes(r, q)
        BY <1>2, <2>2, <2>3 DEF TypeOK, AcquireConversation
  <2> QED BY <2>1, <2>4
<1>3. ASSUME InsertMessage(r) PROVE Effect
  <2>1. Others /\ UNCHANGED <<req, server>>
        BY <1>3 DEF TypeOK, Untouched, InsertMessage
  <2>2. LogMoves(r, "start")
        BY <1>3, SilentLog DEF InsertMessage
  <2>3. Goes(r, "start")
        BY <1>3, <2>2 DEF TypeOK, InsertMessage
  <2> QED BY <2>1, <2>3
<1>4. ASSUME StartRun(r) PROVE Effect
  <2>1. Others /\ UNCHANGED <<req, server>>
        BY <1>4 DEF TypeOK, Untouched, StartRun
  <2>2. PICK q \in {"started", "mark"} : task'[r] = q
        BY <1>4 DEF TypeOK, StartRun
  <2>3. LogMoves(r, q)
        BY <1>4, <2>2, SilentLog DEF StartRun
  <2>4. Goes(r, q)
        BY <1>4, <2>2, <2>3 DEF TypeOK, StartRun
  <2> QED BY <2>1, <2>4
<1>5. ASSUME EmitStarted(r) PROVE Effect
  <2>1. Others /\ UNCHANGED <<req, server>>
        BY <1>5 DEF TypeOK, Untouched, EmitStarted, Emit
  <2>2. LogMoves(r, "context")
        BY <1>5, EmittedLog DEF EmitStarted, TypeOK, EventTypes, Outcomes, Terminal, Decisions
  <2>3. Goes(r, "context")
        BY <1>5, <2>2 DEF TypeOK, EmitStarted
  <2> QED BY <2>1, <2>3
<1>6. ASSUME LoadContext(r) PROVE Effect
  <2>1. Others /\ UNCHANGED <<req, server>>
        BY <1>6 DEF TypeOK, Untouched, LoadContext, EmitRunEvent, Emit
  <2>2. CASE Emit(r, Event("context.loaded", 0, "")) /\ task'[r] = "model"
    <3>1. LogMoves(r, "model")
          BY <1>6, <2>2, EmittedLog DEF LoadContext, TypeOK, EventTypes, Outcomes, Terminal,
             Decisions
    <3>2. Goes(r, "model")
          BY <1>6, <2>2, <3>1 DEF TypeOK, LoadContext, EmitRunEvent
    <3> QED BY <2>1, <3>2
  <2>3. ASSUME NEW q \in {"mark", "fail"}, UNCHANGED log, task'[r] = q PROVE Goes(r, q)
    <3>1. LogMoves(r, q)
          BY <1>6, <2>3, SilentLog DEF LoadContext
    <3> QED BY <1>6, <2>3, <3>1 DEF TypeOK, LoadContext, EmitRunEvent
  <2> QED BY <1>6, <2>1, <2>2, <2>3 DEF TypeOK, LoadContext, EmitRunEvent
<1>7. ASSUME CallModel(r) PROVE Effect
  <2>1. Others /\ UNCHANGED <<req, server>>
        BY <1>7 DEF TypeOK, Untouched, CallModel
  <2>2. PICK q \in {"finish", "answered", "fail"} : task'[r] = q
        BY <1>7 DEF TypeOK, CallModel
  <2>3. LogMoves(r, q)
        BY <1>7, <2>2, SilentLog DEF CallModel
  <2>4. Goes(r, q)
        BY <1>7, <2>2, <2>3 DEF TypeOK, CallModel
  <2> QED BY <2>1, <2>4
<1>8. ASSUME ReadAnswer(r) PROVE Effect
  <2>1. Others /\ UNCHANGED <<req, server>>
        BY <1>8 DEF TypeOK, Untouched, ReadAnswer
  <2>2. PICK q \in {"finish", "delta", "reply"} : task'[r] = q
        BY <1>8 DEF TypeOK, ReadAnswer
  <2>3. LogMoves(r, q)
        BY <1>8, <2>2, SilentLog DEF ReadAnswer
  <2>4. Goes(r, q)
        BY <1>8, <2>2, <2>3 DEF TypeOK, ReadAnswer
  <2> QED BY <2>1, <2>4
<1>9. ASSUME AppendDelta(r) PROVE Effect
  <2>1. Others /\ UNCHANGED <<req, server>>
        BY <1>9 DEF TypeOK, Untouched, AppendDelta
  <2>2. PICK q \in {"delta_emit", "mark"} : task'[r] = q
        BY <1>9 DEF TypeOK, AppendDelta
  <2>3. LogMoves(r, q)
        BY <1>9, <2>2, SilentLog DEF AppendDelta
  <2>4. Goes(r, q)
        BY <1>9, <2>2, <2>3 DEF TypeOK, AppendDelta
  <2> QED BY <2>1, <2>4
<1>10. ASSUME EmitDelta(r) PROVE Effect
  <2>1. Others /\ UNCHANGED <<req, server>>
        BY <1>10 DEF TypeOK, Untouched, EmitDelta, Emit
  <2>2. PICK q \in {"delta", "reply"} : task'[r] = q
        BY <1>10 DEF TypeOK, EmitDelta
  <2>3. LogMoves(r, q)
        BY <1>10, <2>2, EmittedLog DEF EmitDelta, TypeOK, EventTypes, Outcomes, Terminal, Decisions
  <2>4. Goes(r, q)
        BY <1>10, <2>2, <2>3 DEF TypeOK, EmitDelta
  <2> QED BY <2>1, <2>4
<1>11. ASSUME TakeReply(r) PROVE Effect
  <2>1. Others /\ UNCHANGED <<req, server>>
        BY <1>11 DEF TypeOK, Untouched, TakeReply
  <2>2. PICK q \in {"finish", "fail", "tool"} : task'[r] = q
        BY <1>11 DEF TypeOK, TakeReply
  <2>3. LogMoves(r, q)
        BY <1>11, <2>2, SilentLog DEF TakeReply
  <2>4. Goes(r, q)
        BY <1>11, <2>2, <2>3 DEF TypeOK, TakeReply
  <2> QED BY <2>1, <2>4
<1>12. ASSUME StartTool(r) PROVE Effect
  <2>1. Others /\ UNCHANGED <<req, server>>
        BY <1>12 DEF TypeOK, Untouched, StartTool, EmitRunEvent, Emit
  <2>2. CASE Emit(r, Event("tool.started", calls[r], "")) /\ task'[r] = "tool_insert"
    <3>1. LogMoves(r, "tool_insert")
          BY <1>12, <2>2, EmittedLog DEF StartTool, TypeOK, EventTypes, Outcomes, Terminal,
             Decisions
    <3>2. Goes(r, "tool_insert")
          BY <1>12, <2>2, <3>1 DEF TypeOK, StartTool, EmitRunEvent
    <3> QED BY <2>1, <3>2
  <2>3. CASE UNCHANGED log /\ task'[r] = "mark"
    <3>1. LogMoves(r, "mark")
          BY <1>12, <2>3, SilentLog DEF StartTool
    <3>2. Goes(r, "mark")
          BY <1>12, <2>3, <3>1 DEF TypeOK, StartTool, EmitRunEvent
    <3> QED BY <2>1, <3>2
  <2> QED BY <1>12, <2>1, <2>2, <2>3 DEF TypeOK, StartTool, EmitRunEvent
<1>13. ASSUME InsertTool(r) PROVE Effect
  <2>1. Others /\ UNCHANGED <<req, server>>
        BY <1>13 DEF TypeOK, Untouched, InsertTool, SetTool
  <2>2. PICK q \in {"policy", "fail"} : task'[r] = q
        BY <1>13 DEF TypeOK, InsertTool, SetTool
  <2>3. LogMoves(r, q)
        BY <1>13, <2>2, SilentLog DEF InsertTool
  <2>4. Goes(r, q)
        BY <1>13, <2>2, <2>3 DEF TypeOK, InsertTool, SetTool
  <2> QED BY <2>1, <2>4
<1>14. ASSUME ReadPolicy(r) PROVE Effect
  <2>1. Others /\ UNCHANGED <<req, server>>
        BY <1>14 DEF TypeOK, Untouched, ReadPolicy
  <2>2. PICK q \in {"execute", "ask_insert", "tool_fail"} :
            task'[r] = q /\ (q = "ask_insert" => "confirm" \in ToolPolicies)
        BY <1>14, RunAssumption DEF TypeOK, ReadPolicy, AfterPolicy
  <2>3. LogMoves(r, q)
        BY <1>14, <2>2, SilentLog DEF ReadPolicy
  <2>4. Goes(r, q)
        BY <1>14, <2>2, <2>3 DEF TypeOK, ReadPolicy
  <2> QED BY <2>1, <2>4
<1>15. ASSUME InsertPermission(r) PROVE Effect
  <2>1. Others /\ UNCHANGED <<req, server>>
        BY <1>15 DEF TypeOK, Untouched, InsertPermission
  <2>2. LogMoves(r, "ask_mark")
        BY <1>15, SilentLog DEF InsertPermission
  <2>3. Goes(r, "ask_mark")
        BY <1>15, <2>2 DEF TypeOK, InsertPermission
  <2> QED BY <2>1, <2>3
<1>16. ASSUME MarkWaiting(r) PROVE Effect
  <2>1. Others /\ UNCHANGED <<req, server>>
        BY <1>16 DEF TypeOK, Untouched, MarkWaiting
  <2>2. LogMoves(r, "ask_emit")
        BY <1>16, SilentLog DEF MarkWaiting
  <2>3. Goes(r, "ask_emit")
        BY <1>16, <2>2 DEF TypeOK, MarkWaiting
  <2> QED BY <2>1, <2>3
<1>17. ASSUME EmitRequested(r) PROVE Effect
  <2>1. Others /\ UNCHANGED <<req, server>>
        BY <1>17 DEF TypeOK, Untouched, EmitRequested, EmitRunEvent, Emit
  <2>2. CASE Emit(r, Event("permission.requested", calls[r], "")) /\ task'[r] = "poll"
    <3>1. LogMoves(r, "poll")
          BY <1>17, <2>2, EmittedLog DEF EmitRequested, TypeOK, EventTypes, Outcomes, Terminal,
             Decisions
    <3>2. Goes(r, "poll")
          BY <1>17, <2>2, <3>1 DEF TypeOK, EmitRequested, EmitRunEvent
    <3> QED BY <2>1, <3>2
  <2>3. CASE UNCHANGED log /\ task'[r] = "tool_cancel"
    <3>1. LogMoves(r, "tool_cancel")
          BY <1>17, <2>3, SilentLog DEF EmitRequested
    <3>2. Goes(r, "tool_cancel")
          BY <1>17, <2>3, <3>1 DEF TypeOK, EmitRequested, EmitRunEvent
    <3> QED BY <2>1, <3>2
  <2> QED BY <1>17, <2>1, <2>2, <2>3 DEF TypeOK, EmitRequested, EmitRunEvent
<1>18. ASSUME Poll(r) PROVE Effect
  <2>1. Others /\ UNCHANGED <<req, server>>
        BY <1>18 DEF TypeOK, Untouched, Poll
  <2>2. PICK q \in {"tool_cancel", "resume", "tool_fail"} : task'[r] = q
        BY <1>18 DEF TypeOK, Poll
  <2>3. LogMoves(r, q)
        BY <1>18, <2>2, SilentLog DEF Poll
  <2>4. Goes(r, q)
        BY <1>18, <2>2, <2>3 DEF TypeOK, Poll
  <2> QED BY <2>1, <2>4
<1>19. ASSUME Resume(r) PROVE Effect
  <2>1. Others /\ UNCHANGED <<req, server>>
        BY <1>19 DEF TypeOK, Untouched, Resume
  <2>2. LogMoves(r, "execute")
        BY <1>19, SilentLog DEF Resume
  <2>3. Goes(r, "execute")
        BY <1>19, <2>2 DEF TypeOK, Resume
  <2> QED BY <2>1, <2>3
<1>20. ASSUME ExecuteTool(r) PROVE Effect
  <2>1. Others /\ UNCHANGED <<req, server>>
        BY <1>20 DEF TypeOK, Untouched, ExecuteTool
  <2>2. LogMoves(r, "executing")
        BY <1>20, SilentLog DEF ExecuteTool
  <2>3. Goes(r, "executing")
        BY <1>20, <2>2 DEF TypeOK, ExecuteTool
  <2> QED BY <2>1, <2>3
<1>21. ASSUME ToolReturns(r) PROVE Effect
  <2>1. Others /\ UNCHANGED <<req, server>>
        BY <1>21 DEF TypeOK, Untouched, ToolReturns
  <2>2. PICK q \in {"tool_fail", "tool_cancel", "output", "save"} : task'[r] = q
        BY <1>21 DEF TypeOK, ToolReturns
  <2>3. LogMoves(r, q)
        BY <1>21, <2>2, SilentLog DEF ToolReturns
  <2>4. Goes(r, q)
        BY <1>21, <2>2, <2>3 DEF TypeOK, ToolReturns
  <2> QED BY <2>1, <2>4
<1>22. ASSUME EmitOutput(r) PROVE Effect
  <2>1. Others /\ UNCHANGED <<req, server>>
        BY <1>22 DEF TypeOK, Untouched, EmitOutput, EmitRunEvent, Emit
  <2>2. CASE Emit(r, Event("tool.output", calls[r], "")) /\ task'[r] = "save"
    <3>1. LogMoves(r, "save")
          BY <1>22, <2>2, EmittedLog DEF EmitOutput, TypeOK, EventTypes, Outcomes, Terminal,
             Decisions
    <3>2. Goes(r, "save")
          BY <1>22, <2>2, <3>1 DEF TypeOK, EmitOutput, EmitRunEvent
    <3> QED BY <2>1, <3>2
  <2>3. CASE UNCHANGED log /\ task'[r] = "mark"
    <3>1. LogMoves(r, "mark")
          BY <1>22, <2>3, SilentLog DEF EmitOutput
    <3>2. Goes(r, "mark")
          BY <1>22, <2>3, <3>1 DEF TypeOK, EmitOutput, EmitRunEvent
    <3> QED BY <2>1, <3>2
  <2> QED BY <1>22, <2>1, <2>2, <2>3 DEF TypeOK, EmitOutput, EmitRunEvent
<1>23. ASSUME SaveTool(r) PROVE Effect
  <2>1. Others /\ UNCHANGED <<req, server>>
        BY <1>23 DEF TypeOK, Untouched, SaveTool, SetTool
  <2>2. LogMoves(r, "finished")
        BY <1>23, SilentLog DEF SaveTool
  <2>3. Goes(r, "finished")
        BY <1>23, <2>2 DEF TypeOK, SaveTool, SetTool
  <2> QED BY <2>1, <2>3
<1>24. ASSUME EmitFinished(r) PROVE Effect
  <2>1. Others /\ UNCHANGED <<req, server>>
        BY <1>24 DEF TypeOK, Untouched, EmitFinished, EmitRunEvent, Emit
  <2>2. CASE Emit(r, Event("tool.finished", calls[r], "success")) /\ task'[r] = "record"
    <3>1. LogMoves(r, "record")
          BY <1>24, <2>2, EmittedLog DEF EmitFinished, TypeOK, EventTypes, Outcomes, Terminal,
             Decisions
    <3>2. Goes(r, "record")
          BY <1>24, <2>2, <3>1 DEF TypeOK, EmitFinished, EmitRunEvent
    <3> QED BY <2>1, <3>2
  <2>3. CASE UNCHANGED log /\ task'[r] = "mark"
    <3>1. LogMoves(r, "mark")
          BY <1>24, <2>3, SilentLog DEF EmitFinished
    <3>2. Goes(r, "mark")
          BY <1>24, <2>3, <3>1 DEF TypeOK, EmitFinished, EmitRunEvent
    <3> QED BY <2>1, <3>2
  <2> QED BY <1>24, <2>1, <2>2, <2>3 DEF TypeOK, EmitFinished, EmitRunEvent
<1>25. ASSUME RecordTool(r) PROVE Effect
  <2>1. Others /\ UNCHANGED <<req, server>>
        BY <1>25 DEF TypeOK, Untouched, RecordTool
  <2>2. PICK q \in {"model", "tool"} : task'[r] = q
        BY <1>25 DEF TypeOK, RecordTool
  <2>3. LogMoves(r, q)
        BY <1>25, <2>2, SilentLog DEF RecordTool
  <2>4. Goes(r, q)
        BY <1>25, <2>2, <2>3 DEF TypeOK, RecordTool
  <2> QED BY <2>1, <2>4
<1>26. ASSUME CancelTool(r) PROVE Effect
  <2>1. Others /\ UNCHANGED <<req, server>>
        BY <1>26 DEF TypeOK, Untouched, CancelTool, SetTool
  <2>2. LogMoves(r, "mark")
        BY <1>26, SilentLog DEF CancelTool
  <2>3. Goes(r, "mark")
        BY <1>26, <2>2 DEF TypeOK, CancelTool, SetTool
  <2> QED BY <2>1, <2>3
<1>27. ASSUME FailTool(r) PROVE Effect
  <2>1. Others /\ UNCHANGED <<req, server>>
        BY <1>27 DEF TypeOK, Untouched, FailTool, SetTool
  <2>2. PICK q \in {"tool_failed", "mark"} : task'[r] = q
        BY <1>27 DEF TypeOK, FailTool, SetTool
  <2>3. LogMoves(r, q)
        BY <1>27, <2>2, SilentLog DEF FailTool
  <2>4. Goes(r, q)
        BY <1>27, <2>2, <2>3 DEF TypeOK, FailTool, SetTool
  <2> QED BY <2>1, <2>4
<1>28. ASSUME EmitToolFailed(r) PROVE Effect
  <2>1. Others /\ UNCHANGED <<req, server>>
        BY <1>28 DEF TypeOK, Untouched, EmitToolFailed, EmitRunEvent, Emit
  <2>2. CASE Emit(r, Event("tool.finished", calls[r], "failed")) /\ task'[r] = "fail"
    <3>1. LogMoves(r, "fail")
          BY <1>28, <2>2, EmittedLog DEF EmitToolFailed, TypeOK, EventTypes, Outcomes, Terminal,
             Decisions
    <3>2. Goes(r, "fail")
          BY <1>28, <2>2, <3>1 DEF TypeOK, EmitToolFailed, EmitRunEvent
    <3> QED BY <2>1, <3>2
  <2>3. CASE UNCHANGED log /\ task'[r] = "mark"
    <3>1. LogMoves(r, "mark")
          BY <1>28, <2>3, SilentLog DEF EmitToolFailed
    <3>2. Goes(r, "mark")
          BY <1>28, <2>3, <3>1 DEF TypeOK, EmitToolFailed, EmitRunEvent
    <3> QED BY <2>1, <3>2
  <2> QED BY <1>28, <2>1, <2>2, <2>3 DEF TypeOK, EmitToolFailed, EmitRunEvent
<1>29. ASSUME FinishMessage(r) PROVE Effect
  <2>1. Others /\ UNCHANGED <<req, server>>
        BY <1>29 DEF TypeOK, Untouched, FinishMessage, SetMessage
  <2>2. PICK q \in {"mark", "message_emit"} : task'[r] = q
        BY <1>29 DEF TypeOK, FinishMessage, SetMessage
  <2>3. LogMoves(r, q)
        BY <1>29, <2>2, SilentLog DEF FinishMessage
  <2>4. Goes(r, q)
        BY <1>29, <2>2, <2>3 DEF TypeOK, FinishMessage, SetMessage
  <2> QED BY <2>1, <2>4
<1>30. ASSUME EmitMessageCompleted(r) PROVE Effect
  <2>1. Others /\ UNCHANGED <<req, server>>
        BY <1>30 DEF TypeOK, Untouched, EmitMessageCompleted, EmitRunEvent, Emit
  <2>2. CASE Emit(r, Event("message.completed", 0, "")) /\ task'[r] = "complete"
    <3>1. LogMoves(r, "complete")
          BY <1>30, <2>2, EmittedLog DEF EmitMessageCompleted, TypeOK, EventTypes, Outcomes,
             Terminal, Decisions
    <3>2. Goes(r, "complete")
          BY <1>30, <2>2, <3>1 DEF TypeOK, EmitMessageCompleted, EmitRunEvent
    <3> QED BY <2>1, <3>2
  <2>3. CASE UNCHANGED log /\ task'[r] = "mark"
    <3>1. LogMoves(r, "mark")
          BY <1>30, <2>3, SilentLog DEF EmitMessageCompleted
    <3>2. Goes(r, "mark")
          BY <1>30, <2>3, <3>1 DEF TypeOK, EmitMessageCompleted, EmitRunEvent
    <3> QED BY <2>1, <3>2
  <2> QED BY <1>30, <2>1, <2>2, <2>3 DEF TypeOK, EmitMessageCompleted, EmitRunEvent
<1>31. ASSUME CompleteRun(r) PROVE Effect
  <2>1. Others /\ UNCHANGED <<req, server>>
        BY <1>31 DEF TypeOK, Untouched, CompleteRun
  <2>2. PICK q \in {"mark", "complete_emit"} : task'[r] = q
        BY <1>31 DEF TypeOK, CompleteRun
  <2>3. LogMoves(r, q)
        BY <1>31, <2>2, SilentLog DEF CompleteRun
  <2>4. Goes(r, q)
        BY <1>31, <2>2, <2>3 DEF TypeOK, CompleteRun
  <2> QED BY <2>1, <2>4
<1>32. ASSUME EmitCompleted(r) PROVE Effect
  <2>1. Others /\ UNCHANGED <<req, server>>
        BY <1>32 DEF TypeOK, Untouched, EmitCompleted, EndTask, Emit
  <2>2. LogMoves(r, "none")
        BY <1>32, EmittedLog DEF EmitCompleted, TypeOK, EventTypes, Outcomes, Terminal, Decisions
  <2>3. Goes(r, "none")
        BY <1>32, <2>2 DEF TypeOK, EmitCompleted, EndTask
  <2> QED BY <2>1, <2>3
<1>33. ASSUME MarkCancelled(r) PROVE Effect
  <2>1. Others /\ UNCHANGED <<req, server>>
        BY <1>33 DEF TypeOK, Untouched, MarkCancelled, EndTask, SetMessage
  <2>2. LogMoves(r, "none")
        BY <1>33, SilentLog DEF MarkCancelled
  <2>3. Goes(r, "none")
        BY <1>33, <2>2 DEF TypeOK, MarkCancelled, EndTask, SetMessage
  <2> QED BY <2>1, <2>3
<1>34. ASSUME FailRun(r) PROVE Effect
  <2>1. Others /\ UNCHANGED <<req, server>>
        BY <1>34 DEF TypeOK, Untouched, FailRun, EndTask
  <2>2. PICK q \in {"none", "fail_message"} : task'[r] = q
        BY <1>34 DEF TypeOK, FailRun, EndTask
  <2>3. LogMoves(r, q)
        BY <1>34, <2>2, SilentLog DEF FailRun
  <2>4. Goes(r, q)
        BY <1>34, <2>2, <2>3 DEF TypeOK, FailRun, EndTask
  <2> QED BY <2>1, <2>4
<1>35. ASSUME FailMessage(r) PROVE Effect
  <2>1. Others /\ UNCHANGED <<req, server>>
        BY <1>35 DEF TypeOK, Untouched, FailMessage, SetMessage
  <2>2. LogMoves(r, "fail_error")
        BY <1>35, SilentLog DEF FailMessage
  <2>3. Goes(r, "fail_error")
        BY <1>35, <2>2 DEF TypeOK, FailMessage, SetMessage
  <2> QED BY <2>1, <2>3
<1>36. ASSUME EmitFailure(r) PROVE Effect
  <2>1. Others /\ UNCHANGED <<req, server>>
        BY <1>36 DEF TypeOK, Untouched, EmitFailure, Emit
  <2>2. LogMoves(r, "fail_emit")
    <3>1. Emit(r, Event("error", 0, "failed")) /\ task[r] = "fail_error" /\ "failed" \in Outcomes
          BY <1>36 DEF EmitFailure, Outcomes, Terminal
    <3> QED BY <3>1, PlainLog
  <2>3. Goes(r, "fail_emit")
        BY <1>36, <2>2 DEF TypeOK, EmitFailure
  <2> QED BY <2>1, <2>3
<1>37. ASSUME EmitFailed(r) PROVE Effect
  <2>1. Others /\ UNCHANGED <<req, server>>
        BY <1>37 DEF TypeOK, Untouched, EmitFailed, EndTask, Emit
  <2>2. LogMoves(r, "none")
        BY <1>37, EmittedLog DEF EmitFailed, TypeOK, EventTypes, Outcomes, Terminal, Decisions
  <2>3. Goes(r, "none")
        BY <1>37, <2>2 DEF TypeOK, EmitFailed, EndTask
  <2> QED BY <2>1, <2>3
<1>38. ASSUME InterruptRun(r) PROVE Effect
  <2>1. Others /\ UNCHANGED <<req, server>>
        BY <1>38 DEF TypeOK, Untouched, InterruptRun
  <2>2. LogMoves(r, "interrupt_message")
        BY <1>38, SilentLog DEF InterruptRun
  <2>3. Goes(r, "interrupt_message")
        BY <1>38, <2>2 DEF TypeOK, InterruptRun
  <2> QED BY <2>1, <2>3
<1>39. ASSUME InterruptMessage(r) PROVE Effect
  <2>1. Others /\ UNCHANGED <<req, server>>
        BY <1>39 DEF TypeOK, Untouched, InterruptMessage, EndTask, SetMessage
  <2>2. LogMoves(r, "none")
        BY <1>39, SilentLog DEF InterruptMessage
  <2>3. Goes(r, "none")
        BY <1>39, <2>2 DEF TypeOK, InterruptMessage, EndTask, SetMessage
  <2> QED BY <2>1, <2>3
<1> HIDE DEF Effect
<1> QED BY <1>1, <1>2, <1>3, <1>4, <1>5, <1>6, <1>7, <1>8, <1>9, <1>10, <1>11, <1>12, <1>13, <1>14,
   <1>15, <1>16, <1>17, <1>18, <1>19, <1>20, <1>21, <1>22, <1>23, <1>24, <1>25, <1>26, <1>27, <1>28,
   <1>29, <1>30, <1>31, <1>32, <1>33, <1>34, <1>35, <1>36, <1>37, <1>38, <1>39 DEF TaskStep, Effect

\* A handler appends to the log, closes what the run left open and cancels it.
LogKept(r) ==
    /\ \A t \in {"run.started", "message.delta", "message.completed"} :
         CountIn(log'[r], t) = CountIn(log[r], t)
    /\ AnnouncedIn(log'[r]) \subseteq AnnouncedIn(log[r]) \cup {"cancelled"}
    /\ CallsIn(log'[r]) = CallsIn(log[r])
    /\ OnceIn(log[r]) => OnceIn(log'[r])
Handled(r, h) ==
    /\ task'[r] = task[r] /\ content'[r] = content[r] /\ message'[r] = message[r]
    /\ calls'[r] = calls[r] /\ awaiting'[r] = awaiting[r]
    /\ \/ status'[r] = status[r]
       \/ status'[r] = "cancelled" /\ req[h].place = "cleanup" /\ req[h].run = r
    /\ \/ tool'[r] = tool[r]
       \/ /\ req[h].place = "cleanup" /\ req[h].run = r
          /\ \E k \in req[h].tools : tool'[r] = [tool[r] EXCEPT ![k] = "cancelled"]
    /\ \A k \in Calls : perm'[r][k] = "pending" => perm[r][k] = "pending"
    /\ LogKept(r)

LEMMA LogAppended ==
    ASSUME TypeOK, NEW r \in Runs, NEW s,
           NEW type \in EventTypes \ {"run.started", "message.delta", "message.completed", "tool.started"},
           NEW k \in Nat, NEW o \in Outcomes, Emit(s, Event(type, k, o)),
           type = "run.completed" => o = "cancelled"
    PROVE  LogKept(r)
<1> DEFINE e == Event(type, k, o)
<1>1. log[r] \in Seq(LogEntry) /\ e \in LogEntry
      BY EventType DEF TypeOK
<1>2. CASE r = s
  <2>1. log'[r] = Append(log[r], e)
        BY <1>2 DEF Emit, TypeOK
  <2>2. e.type = type /\ e.outcome = o
        BY DEF Event
  <2> HIDE DEF e
  <2>3. \A t : CountIn(log[r], t) \in Nat
        BY <1>1, CountIsNatural
  <2>4. \A t \in {"run.started", "message.delta", "message.completed"} :
            CountIn(log'[r], t) = CountIn(log[r], t)
        BY <1>1, <2>1, <2>2, <2>3, CountAppend
  <2>5. AnnouncedIn(log'[r]) \subseteq AnnouncedIn(log[r]) \cup {"cancelled"}
        BY <1>1, <2>1, <2>2, AnnouncedAppend
  <2>6. CallsIn(log'[r]) = CallsIn(log[r])
        BY <1>1, <2>1, <2>2, CallsAppend
  <2>7. OnceIn(log[r]) => OnceIn(log'[r])
        BY <1>1, <2>1, <2>2, OnceAppend
  <2> QED BY <2>4, <2>5, <2>6, <2>7 DEF LogKept
<1>3. CASE r # s
  <2>1. log'[r] = log[r]
        BY <1>3 DEF Emit, TypeOK
  <2> QED BY <2>1 DEF LogKept
<1> QED BY <1>2, <1>3

LEMMA HandlerStepEffect ==
    ASSUME TypeOK, Deciding, NEW h \in Clients, HandlerStep(h)
    PROVE  (\A r \in Runs : Handled(r, h)) /\ server' = server
<1> USE DEF rows, loop, locks, host, history
<1>. server' = server
     BY DEF HandlerStep, LockForCancel, ReadStartedTools, DenyPermission, StopTool, CancelRow,
        EmitDenied, EmitStopped, EmitCancelError, EmitCancelled, Decide, EmitResolved
<1> SUFFICES ASSUME NEW r \in Runs PROVE Handled(r, h)
    OBVIOUS
<1>0. log'[r] = log[r] => LogKept(r)
      BY DEF LogKept
<1>1. req[h] \in Handler /\ Calls \subseteq Nat
      BY RunAssumption DEF TypeOK, Calls
<1>2. CASE LockForCancel(h)
      BY <1>0, <1>2 DEF LockForCancel, Handled
<1>3. CASE ReadStartedTools(h)
      BY <1>0, <1>3 DEF ReadStartedTools, Handled
<1>4. CASE DenyPermission(h)
  <2>1. PICK k : perm' = [perm EXCEPT ![req[h].run][k] = "denied"]
        BY <1>4 DEF DenyPermission
  <2>2. \A c \in Calls : perm'[r][c] = "pending" => perm[r][c] = "pending"
        BY <2>1 DEF TypeOK
  <2> QED BY <1>0, <1>4, <2>2 DEF DenyPermission, Handled
<1>5. CASE StopTool(h)
  <2>1. PICK k \in req[h].tools : tool' = [tool EXCEPT ![req[h].run][k] = "cancelled"]
        BY <1>5 DEF StopTool
  <2>2. CASE r = req[h].run
    <3>1. tool'[r] = [tool[r] EXCEPT ![k] = "cancelled"]
          BY <2>1, <2>2 DEF TypeOK
    <3> QED BY <1>0, <1>5, <2>2, <3>1 DEF StopTool, Handled
  <2>3. CASE r # req[h].run
    <3>1. tool'[r] = tool[r]
          BY <2>1, <2>3 DEF TypeOK
    <3> QED BY <1>0, <1>5, <3>1 DEF StopTool, Handled
  <2> QED BY <2>2, <2>3
<1>6. CASE CancelRow(h)
  <2>1. status'[r] = IF r = req[h].run THEN "cancelled" ELSE status[r]
        BY <1>6 DEF CancelRow, TypeOK
  <2> QED BY <1>0, <1>6, <2>1 DEF CancelRow, Handled
<1>7. CASE EmitDenied(h)
  <2>1. PICK k \in req[h].denied : Emit(req[h].run, Event("permission.resolved", k, "denied"))
        BY <1>7 DEF EmitDenied
  <2>2. k \in Nat /\ "permission.resolved" \in EventTypes /\ "denied" \in Outcomes
        BY <1>1, <2>1 DEF Handler, EventTypes, Outcomes, Decisions
  <2>3. LogKept(r)
        BY <2>1, <2>2, LogAppended
  <2> QED BY <1>7, <2>3 DEF EmitDenied, Handled
<1>8. CASE EmitStopped(h)
  <2>1. PICK k \in req[h].stopped : Emit(req[h].run, Event("tool.finished", k, "cancelled"))
        BY <1>8 DEF EmitStopped
  <2>2. k \in Nat /\ "tool.finished" \in EventTypes /\ "cancelled" \in Outcomes
        BY <1>1, <2>1 DEF Handler, EventTypes, Outcomes, Terminal
  <2>3. LogKept(r)
        BY <2>1, <2>2, LogAppended
  <2> QED BY <1>8, <2>3 DEF EmitStopped, Handled
<1>9. CASE EmitCancelError(h)
  <2>1. LogKept(r)
        BY <1>9, LogAppended DEF EmitCancelError, EventTypes, Outcomes, Terminal
  <2> QED BY <1>9, <2>1 DEF EmitCancelError, Handled
<1>10. CASE EmitCancelled(h)
  <2>1. LogKept(r)
        BY <1>10, LogAppended DEF EmitCancelled, EventTypes, Outcomes, Terminal
  <2> QED BY <1>10, <2>1 DEF EmitCancelled, Handled
<1>11. CASE Decide(h)
  <2>1. perm' = [perm EXCEPT ![req[h].run][req[h].call] = req[h].decision]
        BY <1>11 DEF Decide
  <2>2. req[h].decision # "pending"
        BY <1>11 DEF Decide, Deciding, Decisions
  <2>3. \A c \in Calls : perm'[r][c] = "pending" => perm[r][c] = "pending"
        BY <2>1, <2>2 DEF TypeOK
  <2> QED BY <1>0, <1>11, <2>3 DEF Decide, Handled
<1>12. CASE EmitResolved(h)
  <2>1. /\ Emit(req[h].run, Event("permission.resolved", req[h].call, req[h].decision))
        /\ req[h].call \in Nat /\ "permission.resolved" \in EventTypes /\ req[h].decision \in Outcomes
        BY <1>1, <1>12 DEF EmitResolved, Handler, EventTypes, Outcomes
  <2>2. LogKept(r)
        BY <2>1, LogAppended
  <2> QED BY <1>12, <2>2 DEF EmitResolved, Handled
<1> QED BY <1>2, <1>3, <1>4, <1>5, <1>6, <1>7, <1>8, <1>9, <1>10, <1>11, <1>12 DEF HandlerStep

\* What a client, the process's end and recovery make of a run.
Stable(r) ==
    /\ message'[r] = message[r] /\ content'[r] = content[r] /\ tool'[r] = tool[r]
    /\ calls'[r] = calls[r] /\ log'[r] = log[r]
Lasting(r) ==
    /\ Stable(r) /\ status'[r] = status[r] /\ awaiting'[r] = awaiting[r]
    /\ \A k \in Calls : perm'[r][k] = perm[r][k]
Submitted(r) ==
    /\ Stable(r) /\ awaiting'[r] = awaiting[r]
    /\ status[r] = "absent" /\ status'[r] = "queued" /\ task'[r] = "submit"
Halted(r) ==
    /\ Lasting(r) /\ server' \in {"stopping", "down"}
    /\ \/ task'[r] = "none"
       \/ task[r] \in Trying /\ task'[r] = "interrupt" /\ server' = "stopping"
Recovered(r) ==
    /\ Stable(r) /\ task'[r] = task[r]
    /\ server \in {"down", "boot_waiting", "boot_permissions"}
    /\ server' \in {"boot_waiting", "boot_permissions", "boot_queued"}
    /\ \/ status'[r] = status[r] /\ awaiting'[r] = awaiting[r]
       \/ status[r] \in Active /\ status'[r] = "interrupted"
    /\ server' = "boot_queued" => awaiting'[r] = awaiting[r]
    /\ server' = "boot_queued" /\ awaiting[r] => \A k \in Calls : perm'[r][k] # "pending"
Enqueued(r) ==
    /\ Lasting(r) /\ server = "boot_queued" /\ server' = "up"
    /\ task'[r] = IF status[r] = "queued" THEN "fetch" ELSE "none"
Fate(r) ==
    \/ (\E q : Goes(r, q)) /\ server' = server
    \/ Untouched(r) /\ server' = server
    \/ (\E h \in Clients : Handled(r, h)) /\ server' = server
    \/ Submitted(r) /\ server' = server /\ server = "up"
    \/ Halted(r) \/ Recovered(r) \/ Enqueued(r)

LEMMA ClientStepEffect ==
    ASSUME TypeOK, ClientStep, NEW r \in Runs
    PROVE  (Submitted(r) \/ Untouched(r)) /\ server' = server /\ server = "up"
<1> USE DEF rows, loop, locks, host, history
<1>1. ASSUME NEW q \in Runs, QueueRun(q)
      PROVE  (Submitted(r) \/ Untouched(r)) /\ server' = server /\ server = "up"
  <2>1. CASE r = q
        BY <1>1, <2>1 DEF QueueRun, Goto, TypeOK, Submitted, Stable
  <2>2. CASE r # q
        BY <1>1, <2>2 DEF QueueRun, Goto, TypeOK, Untouched
  <2> QED BY <2>1, <2>2
<1>2. ASSUME UNCHANGED <<rows, log, task, loop, locks, host, history>>, server = "up"
      PROVE  Untouched(r) /\ server' = server
      BY <1>2 DEF Untouched
<1> QED BY <1>1, <1>2 DEF ClientStep, SubmitPrompt, RetryRun, RequestCancel, RequestResolve

LEMMA ServerStepEffect ==
    ASSUME TypeOK, Shutdown \/ Stopped \/ Crash \/ BootStep, NEW r \in Runs
    PROVE  Halted(r) \/ Recovered(r) \/ Enqueued(r)
<1> USE DEF rows, loop, locks, host, history, Lasting, Stable
<1>1. CASE Shutdown
      BY <1>1 DEF Shutdown, Landing, Halted
<1>2. CASE Stopped
      BY <1>2 DEF Stopped, Halted
<1>3. CASE Crash
      BY <1>3 DEF Crash, Halted
<1>4. CASE RecoverRunning
  <2>1. \/ status'[r] = status[r] /\ awaiting'[r] = awaiting[r]
        \/ status[r] \in Active /\ status'[r] = "interrupted"
        BY <1>4 DEF RecoverRunning, Active
  <2>2. server = "down" /\ server' = "boot_waiting"
        BY <1>4 DEF RecoverRunning, Boot
  <2> QED BY <1>4, <2>1, <2>2 DEF RecoverRunning, Recovered
<1>5. CASE RecoverWaiting
  <2>1. \/ status'[r] = status[r] /\ awaiting'[r] = awaiting[r]
        \/ status[r] \in Active /\ status'[r] = "interrupted"
        BY <1>5 DEF RecoverWaiting, Active
  <2>2. server = "boot_waiting" /\ server' = "boot_permissions"
        BY <1>5 DEF RecoverWaiting, Boot
  <2> QED BY <1>5, <2>1, <2>2 DEF RecoverWaiting, Recovered
<1>6. CASE RecoverPermissions
  <2>1. awaiting[r] => \A k \in Calls : perm'[r][k] # "pending"
        BY <1>6 DEF RecoverPermissions
  <2>2. server = "boot_permissions" /\ server' = "boot_queued"
        BY <1>6 DEF RecoverPermissions, Boot
  <2> QED BY <1>6, <2>1, <2>2 DEF RecoverPermissions, Recovered
<1>7. CASE EnqueueQueued
      BY <1>7 DEF EnqueueQueued, Boot, Enqueued
<1> QED BY <1>1, <1>2, <1>3, <1>4, <1>5, <1>6, <1>7 DEF BootStep

LEMMA NextEffect ==
    ASSUME TypeOK, Deciding, [Next]_vars, NEW r \in Runs
    PROVE  Fate(r)
<1>1. ASSUME NEW s \in Runs, TaskStep(s) PROVE Fate(r)
  <2>1. (\E q : Goes(s, q)) /\ (\A x \in Runs \ {s} : Untouched(x)) /\ server' = server
        BY <1>1, TaskStepEffect
  <2> QED BY <2>1 DEF Fate
<1>2. ASSUME NEW h \in Clients, HandlerStep(h) PROVE Fate(r)
      BY <1>2, HandlerStepEffect DEF Fate
<1>3. CASE ClientStep
      BY <1>3, ClientStepEffect DEF Fate
<1>4. CASE Shutdown \/ Stopped \/ Crash \/ BootStep
      BY <1>4, ServerStepEffect DEF Fate
<1>5. CASE UNCHANGED vars
      BY <1>5 DEF vars, rows, loop, locks, host, Fate, Untouched
<1> QED BY <1>1, <1>2, <1>3, <1>4, <1>5 DEF Next

-----------------------------------------------------------------------------
(* Where a coroutine stands tells what its run's status may be.  It is why *)
(* no run is left behind: a coroutine ends only where its run has ended.   *)

Begun(r) == status[r] \notin {"absent", "queued"}
PlaceTellsStatus(r) ==
    /\ task[r] \in Waiting => status[r] \in {"queued"} \cup Terminal
    /\ task[r] \in InBody \ {"insert", "start", "interrupt"} => Begun(r)
    /\ task[r] \in Ended => status[r] \in Terminal
Carried ==
    /\ NoOrphanRun
    /\ \A r \in Runs : PlaceTellsStatus(r)

LEMMA PlaceGoes ==
    ASSUME NEW r, NEW q, PlaceTellsStatus(r), Goes(r, q)
    PROVE  PlaceTellsStatus(r)' /\ (q = "none" => status[r] \in Terminal /\ status'[r] = status[r])
BY DEF PlaceTellsStatus, Goes, Ways, RowsMove, StatusAt, Permits, Cancelled, Begun, Terminal,
   Waiting, InBody, Trying, Opening, Tooling, Closing, Handling, Interrupting, Ended

LEMMA CarriedStep ==
    ASSUME TypeOK, Serialised, Carried, NEW r \in Runs, Fate(r)
    PROVE  /\ PlaceTellsStatus(r)'
           /\ server' = "up" => (status'[r] \in Terminal \cup {"absent"} \/ task'[r] # "none")
<1> DEFINE Goal == /\ PlaceTellsStatus(r)'
                   /\ server' = "up" => (status'[r] \in Terminal \cup {"absent"} \/ task'[r] # "none")
<1>0. /\ PlaceTellsStatus(r)
      /\ server = "up" => (status[r] \in Terminal \cup {"absent"} \/ task[r] # "none")
      BY DEF Carried, NoOrphanRun
<1>1. /\ {"interrupt", "submit", "fetch", "none"} \cap (InBody \ {"insert", "start", "interrupt"}) = {}
      /\ {"interrupt", "submit", "fetch", "none"} \cap Ended = {}
      /\ {"interrupt", "none"} \cap Waiting = {}
      BY DEF Waiting, InBody, Trying, Opening, Tooling, Closing, Handling, Interrupting, Ended
<1>2. "cancelled" \in Terminal /\ "interrupted" \in Terminal /\ "absent" \notin Terminal
      BY DEF Terminal
<1>3. ASSUME NEW q, Goes(r, q), server' = server PROVE Goal
  <2>1. task'[r] = q
        BY <1>3 DEF Goes
  <2> QED BY <1>0, <1>3, <2>1, PlaceGoes
<1>4. CASE Untouched(r) /\ server' = server
      BY <1>0, <1>4 DEF Untouched, PlaceTellsStatus, Begun
<1>5. ASSUME NEW h, Handled(r, h), server' = server PROVE Goal
      BY <1>0, <1>2, <1>5 DEF Handled, PlaceTellsStatus, Begun
<1>6. CASE Submitted(r)
      BY <1>0, <1>1, <1>6 DEF Submitted, PlaceTellsStatus, Begun
<1>7. CASE Halted(r)
      BY <1>0, <1>1, <1>7 DEF Halted, Lasting, PlaceTellsStatus, Begun
<1>8. CASE Recovered(r)
      BY <1>0, <1>2, <1>8 DEF Recovered, PlaceTellsStatus, Begun
<1>9. CASE Enqueued(r)
  <2>1. status[r] \in {"absent", "queued"} \cup Terminal
        BY <1>9 DEF Enqueued, Serialised, RecoveryClears, TypeOK
  <2> QED BY <1>0, <1>1, <1>9, <2>1 DEF Enqueued, Lasting, PlaceTellsStatus, Begun
<1> QED BY <1>3, <1>4, <1>5, <1>6, <1>7, <1>8, <1>9 DEF Fate

LEMMA CarriedAlways == Spec => []Carried
<1>1. Init => Carried
      BY DEF Init, Carried, NoOrphanRun, PlaceTellsStatus, Begun, Waiting, InBody, Trying, Opening,
         Tooling, Closing, Handling, Interrupting, Ended
<1>2. TypeOK /\ Deciding /\ Serialised /\ Carried /\ [Next]_vars => Carried'
  <2> SUFFICES ASSUME TypeOK, Deciding, Serialised, Carried, [Next]_vars PROVE Carried'
      OBVIOUS
  <2>1. \A r \in Runs :
          /\ PlaceTellsStatus(r)'
          /\ server' = "up" => (status'[r] \in Terminal \cup {"absent"} \/ task'[r] # "none")
        BY NextEffect, CarriedStep
  <2> QED BY <2>1 DEF Carried, NoOrphanRun
<1> QED BY <1>1, <1>2, TypeInvariant, SerialisedAlways, PTL DEF Spec

\* While the backend serves, a run that has not ended has its coroutine: whatever
\* cancels, fails or interrupts it, and after any number of restarts.
THEOREM NoOrphanRunAlways == Spec => []NoOrphanRun
<1>1. Carried => NoOrphanRun
      BY DEF Carried
<1> QED BY <1>1, CarriedAlways, PTL

-----------------------------------------------------------------------------
(* Recovery denies what a run interrupted at its approval left pending.    *)

BootIsIdle == server \notin {"up", "stopping"} => \A r \in Runs : task[r] = "none"
AwaitingIsOver(r) == awaiting[r] => status[r] \in Terminal /\ task[r] = "none"
Denied(r) == server \in {"up", "boot_queued"} /\ awaiting[r] => Pending(r) = {}
Settled ==
    /\ BootIsIdle
    /\ \A r \in Runs : AwaitingIsOver(r) /\ Denied(r)

LEMMA BootIsIdleStep ==
    ASSUME TypeOK, BootIsIdle, [Next]_vars, \A r \in Runs : Fate(r)
    PROVE  BootIsIdle'
<1> SUFFICES ASSUME server' \notin {"up", "stopping"}, NEW r \in Runs PROVE task'[r] = "none"
    BY DEF BootIsIdle
<1> USE DEF BootIsIdle
<1>1. ASSUME NEW q, Goes(r, q), server' = server PROVE FALSE
      BY <1>1 DEF Goes, Ways
<1>2. CASE Untouched(r) /\ server' = server
      BY <1>2 DEF Untouched
<1>3. ASSUME NEW h, Handled(r, h), server' = server PROVE task'[r] = "none"
      BY <1>3 DEF Handled
<1>4. CASE Halted(r)
      BY <1>4 DEF Halted
<1>5. CASE Recovered(r)
      BY <1>5 DEF Recovered
<1> QED BY <1>1, <1>2, <1>3, <1>4, <1>5 DEF Fate, Enqueued

LEMMA SettledStep ==
    ASSUME TypeOK, Settled, NEW r \in Runs, Fate(r)
    PROVE  AwaitingIsOver(r)' /\ Denied(r)'
<1>0. AwaitingIsOver(r) /\ Denied(r)
      BY DEF Settled
<1> USE DEF AwaitingIsOver, Denied, Pending
<1>1. "cancelled" \in Terminal /\ "interrupted" \in Terminal /\ "absent" \notin Terminal
      /\ "queued" \notin Terminal /\ Active \cap Terminal = {}
      BY DEF Terminal, Active
<1>2. ASSUME NEW q, Goes(r, q), server' = server PROVE ~awaiting'[r]
  <2>1. task[r] # "none"
        BY <1>2 DEF Goes, Ways
  <2> QED BY <1>0, <1>2, <2>1 DEF Goes, RowsMove, TypeOK
<1>3. CASE Untouched(r) /\ server' = server
      BY <1>0, <1>3 DEF Untouched
<1>4. ASSUME NEW h, Handled(r, h), server' = server PROVE AwaitingIsOver(r)' /\ Denied(r)'
      BY <1>0, <1>1, <1>4 DEF Handled
<1>5. CASE Submitted(r)
      BY <1>0, <1>1, <1>5 DEF Submitted
<1>6. CASE Halted(r)
      BY <1>0, <1>6 DEF Halted, Lasting, Trying, Opening, Tooling, Closing
<1>7. CASE Recovered(r)
  <2>1. task[r] = "none"
        BY <1>7 DEF Recovered, Settled, BootIsIdle
  <2> QED BY <1>0, <1>1, <1>7, <2>1 DEF Recovered
<1>8. CASE Enqueued(r)
      BY <1>0, <1>1, <1>8 DEF Enqueued, Lasting
<1> QED BY <1>2, <1>3, <1>4, <1>5, <1>6, <1>7, <1>8 DEF Fate

LEMMA SettledAlways == Spec => []Settled
<1>1. Init => Settled
      BY DEF Init, Settled, BootIsIdle, AwaitingIsOver, Denied
<1>2. TypeOK /\ Deciding /\ Settled /\ [Next]_vars => Settled'
  <2> SUFFICES ASSUME TypeOK, Deciding, Settled, [Next]_vars PROVE Settled'
      OBVIOUS
  <2>1. \A r \in Runs : Fate(r)
        BY NextEffect
  <2>2. BootIsIdle'
        BY <2>1, BootIsIdleStep DEF Settled
  <2>3. \A r \in Runs : AwaitingIsOver(r)' /\ Denied(r)'
        BY <2>1, SettledStep
  <2> QED BY <2>2, <2>3 DEF Settled
<1> QED BY <1>1, <1>2, TypeInvariant, PTL DEF Spec

\* Once the backend serves again, nothing is left to answer in a run that was
\* interrupted while it awaited approval, although a crash may cut a recovery short
\* between marking the run and denying its permissions.
THEOREM RecoveryDeniesPendingAlways == Spec => []RecoveryDeniesPending
<1>1. Settled => RecoveryDeniesPending
      BY DEF Settled, Denied, RecoveryDeniesPending
<1> QED BY <1>1, SettledAlways, PTL

-----------------------------------------------------------------------------
(* A run starts once and starts each of its tool calls once: what never    *)
(* began is what recovery may enqueue, and calls are numbered as they come. *)

ToBegin == {"submit", "fetch", "insert", "start"}
StartedAtMostOnce(r) ==
    /\ CountIn(log[r], "run.started") \in {0, 1}
    /\ ~Begun(r) \/ task[r] \in ToBegin \cup {"started"} => CountIn(log[r], "run.started") = 0
CallsAhead(r) ==
    /\ OnceIn(log[r])
    /\ \A k \in CallsIn(log[r]) : k \in Nat /\ k <= calls[r]
    /\ task[r] = "tool" => calls[r] \notin CallsIn(log[r])
Numbered ==
    \A r \in Runs : StartedAtMostOnce(r) /\ CallsAhead(r)

LEMMA StartedOnceStep ==
    ASSUME TypeOK, Carried, NEW r \in Runs, StartedAtMostOnce(r), Fate(r)
    PROVE  StartedAtMostOnce(r)'
<1>0. PlaceTellsStatus(r)
      BY DEF Carried
<1>1. ASSUME NEW q, Goes(r, q) PROVE StartedAtMostOnce(r)'
  <2>1. CountIn(log'[r], "run.started") =
          CountIn(log[r], "run.started") + (IF task[r] = "started" THEN 1 ELSE 0)
        BY <1>1 DEF Goes, LogMoves
  <2>2. task'[r] = q /\ Ways(task[r], q) /\ status'[r] = StatusAt(r, q) /\ Permits(r, q)
        BY <1>1 DEF Goes, RowsMove
  <2>3. CASE task[r] = "started"
        BY <1>0, <2>1, <2>2, <2>3 DEF StartedAtMostOnce, ToBegin, Ways, StatusAt, PlaceTellsStatus,
           Begun, InBody, Trying, Opening
  <2>4. CASE q \in ToBegin \cup {"started"}
        BY <2>1, <2>2, <2>4 DEF StartedAtMostOnce, ToBegin, Ways
  <2>5. CASE task[r] # "started" /\ q \notin ToBegin \cup {"started"}
    <3>1. ~Begun(r)' => ~Begun(r)
          BY <2>2 DEF Begun, StatusAt
    <3> QED BY <2>1, <2>2, <2>5, <3>1 DEF StartedAtMostOnce
  <2> QED BY <2>3, <2>4, <2>5
<1>2. CASE Untouched(r)
      BY <1>2 DEF Untouched, StartedAtMostOnce, Begun
<1>3. ASSUME NEW h, Handled(r, h) PROVE StartedAtMostOnce(r)'
      BY <1>3 DEF Handled, LogKept, StartedAtMostOnce, Begun
<1>4. CASE Submitted(r)
      BY <1>4 DEF Submitted, Stable, StartedAtMostOnce, Begun
<1>5. CASE Halted(r)
      BY <1>5 DEF Halted, Lasting, Stable, StartedAtMostOnce, Begun, ToBegin
<1>6. CASE Recovered(r)
      BY <1>6 DEF Recovered, Stable, StartedAtMostOnce, Begun, Active
<1>7. CASE Enqueued(r)
      BY <1>7 DEF Enqueued, Lasting, Stable, StartedAtMostOnce, Begun, ToBegin
<1> QED BY <1>1, <1>2, <1>3, <1>4, <1>5, <1>6, <1>7 DEF Fate

LEMMA CallsAheadStep ==
    ASSUME TypeOK, NEW r \in Runs, CallsAhead(r), Fate(r)
    PROVE  CallsAhead(r)'
<1>0. calls[r] \in Nat
      BY DEF TypeOK
<1>1. ASSUME NEW q, Goes(r, q) PROVE CallsAhead(r)'
  <2>1. /\ CallsIn(log'[r]) = CallsIn(log[r]) \cup (IF q = "tool_insert" THEN {calls[r]} ELSE {})
        /\ OnceIn(log[r]) /\ (q = "tool_insert" => calls[r] \notin CallsIn(log[r])) => OnceIn(log'[r])
        BY <1>1 DEF Goes, LogMoves
  <2>2. /\ task'[r] = q /\ Ways(task[r], q)
        /\ calls'[r] = IF q = "tool" THEN calls[r] + 1 ELSE calls[r]
        BY <1>1 DEF Goes, RowsMove
  <2>3. q = "tool_insert" => task[r] = "tool"
        BY <2>2 DEF Ways
  <2> QED BY <1>0, <2>1, <2>2, <2>3 DEF CallsAhead
<1>2. CASE Untouched(r)
      BY <1>2 DEF Untouched, CallsAhead
<1>3. ASSUME NEW h, Handled(r, h) PROVE CallsAhead(r)'
      BY <1>3 DEF Handled, LogKept, CallsAhead
<1>4. CASE Submitted(r)
      BY <1>4 DEF Submitted, Stable, CallsAhead
<1>5. CASE Halted(r)
      BY <1>5 DEF Halted, Lasting, Stable, CallsAhead
<1>6. CASE Recovered(r)
      BY <1>6 DEF Recovered, Stable, CallsAhead
<1>7. CASE Enqueued(r)
      BY <1>7 DEF Enqueued, Lasting, Stable, CallsAhead
<1> QED BY <1>1, <1>2, <1>3, <1>4, <1>5, <1>6, <1>7 DEF Fate

LEMMA NumberedAlways == Spec => []Numbered
<1>1. Init => Numbered
  <2> SUFFICES ASSUME Init, NEW r \in Runs PROVE StartedAtMostOnce(r) /\ CallsAhead(r)
      BY DEF Numbered
  <2>1. log[r] = <<>> /\ status[r] = "absent" /\ task[r] = "none"
        BY DEF Init
  <2> QED BY <2>1, EmptyLog DEF StartedAtMostOnce, CallsAhead, ToBegin
<1>2. TypeOK /\ Deciding /\ Carried /\ Numbered /\ [Next]_vars => Numbered'
  <2> SUFFICES ASSUME TypeOK, Deciding, Carried, Numbered, [Next]_vars PROVE Numbered'
      OBVIOUS
  <2> QED BY NextEffect, StartedOnceStep, CallsAheadStep DEF Numbered
<1> QED BY <1>1, <1>2, TypeInvariant, CarriedAlways, PTL DEF Spec

\* No run is started twice and no tool call of a run is started twice, whatever
\* sequence of shutdowns, crashes and recoveries the run meets.
THEOREM StartedOnceAlways == Spec => []StartedOnce
<1>1. Numbered => StartedOnce
  <2> SUFFICES ASSUME Numbered, NEW r \in Runs
               PROVE  /\ Count(r, "run.started") <= 1
                      /\ \A i, j \in DOMAIN log[r] :
                           log[r][i].type = "tool.started" /\ log[r][i] = log[r][j] => i = j
      BY DEF StartedOnce
  <2>1. CountIn(log[r], "run.started") \in {0, 1} /\ OnceIn(log[r])
        BY DEF Numbered, StartedAtMostOnce, CallsAhead
  <2>2. Count(r, "run.started") <= 1
        BY <2>1 DEF Count, CountIn
  <2> QED BY <2>1, <2>2 DEF OnceIn
<1> QED BY <1>1, NumberedAlways, PTL

-----------------------------------------------------------------------------
(* The stored text and the announced deltas.                               *)

DeltasFollow(r) ==
    LET deltas == CountIn(log[r], "message.delta") IN
    /\ content[r] \in {deltas, deltas + 1}
    /\ ~Begun(r) \/ task[r] \in Waiting \cup (Trying \ {"delta_emit"}) => content[r] = deltas
    /\ task[r] = "delta_emit" => content[r] = deltas + 1
Told == \A r \in Runs : DeltasFollow(r)

LEMMA DeltasStep ==
    ASSUME TypeOK, Carried, NEW r \in Runs, DeltasFollow(r), Fate(r)
    PROVE  DeltasFollow(r)'
<1>0. PlaceTellsStatus(r) /\ CountIn(log[r], "message.delta") \in Nat
      BY CountIsNatural DEF Carried, TypeOK
<1>1. ASSUME NEW q, Goes(r, q) PROVE DeltasFollow(r)'
  <2>1. CountIn(log'[r], "message.delta") =
          CountIn(log[r], "message.delta") + (IF task[r] = "delta_emit" THEN 1 ELSE 0)
        BY <1>1 DEF Goes, LogMoves
  <2>2. /\ task'[r] = q /\ Ways(task[r], q) /\ status'[r] = StatusAt(r, q)
        /\ content'[r] = IF q = "delta_emit" THEN content[r] + 1 ELSE content[r]
        BY <1>1 DEF Goes, RowsMove
  <2>3. ~Begun(r)' => ~Begun(r)
        BY <2>2 DEF Begun, StatusAt
  <2>4. CASE task[r] = "delta_emit"
        BY <1>0, <2>1, <2>2, <2>4 DEF DeltasFollow, Ways
  <2>5. CASE q = "delta_emit"
    <3>1. task[r] = "delta"
          BY <2>2, <2>5 DEF Ways
    <3>2. Begun(r)'
          BY <1>0, <2>3, <3>1 DEF PlaceTellsStatus, InBody, Trying, Opening
    <3>3. content[r] = CountIn(log[r], "message.delta")
          BY <3>1 DEF DeltasFollow, Trying, Opening
    <3> QED BY <1>0, <2>1, <2>2, <2>5, <3>1, <3>2, <3>3 DEF DeltasFollow, Waiting
  <2>6. CASE task[r] # "delta_emit" /\ q # "delta_emit"
    <3>1. q \in Waiting \cup (Trying \ {"delta_emit"}) =>
            task[r] \in Waiting \cup (Trying \ {"delta_emit"})
          BY <2>2, <2>6 DEF Ways, Waiting, Trying, Opening, Tooling, Closing
    <3> QED BY <1>0, <2>1, <2>2, <2>3, <2>6, <3>1 DEF DeltasFollow
  <2> QED BY <2>4, <2>5, <2>6
<1>2. CASE Untouched(r)
      BY <1>2 DEF Untouched, DeltasFollow, Begun
<1>3. ASSUME NEW h, Handled(r, h) PROVE DeltasFollow(r)'
      BY <1>3 DEF Handled, LogKept, DeltasFollow, Begun
<1>4. CASE Submitted(r)
      BY <1>4 DEF Submitted, Stable, DeltasFollow, Begun
<1>5. CASE Halted(r)
      BY <1>5 DEF Halted, Lasting, Stable, DeltasFollow, Begun, Waiting, Trying, Opening, Tooling,
         Closing
<1>6. CASE Recovered(r)
      BY <1>6 DEF Recovered, Stable, DeltasFollow, Begun, Active
<1>7. CASE Enqueued(r)
      BY <1>7 DEF Enqueued, Lasting, Stable, DeltasFollow, Begun, Waiting, Trying, Opening, Tooling,
         Closing
<1> QED BY <1>1, <1>2, <1>3, <1>4, <1>5, <1>6, <1>7 DEF Fate

\* The text stored for a run and the deltas announced agree; only a chunk that is
\* being announced, or whose announcement an interruption cut off, may be ahead.
THEOREM DeltasMatchContentAlways == Spec => []DeltasMatchContent
<1>1. Init => Told
  <2> SUFFICES ASSUME Init, NEW r \in Runs PROVE DeltasFollow(r)
      BY DEF Told
  <2>1. log[r] = <<>> /\ content[r] = 0 /\ task[r] = "none"
        BY DEF Init
  <2> QED BY <2>1, EmptyLog DEF DeltasFollow
<1>2. TypeOK /\ Deciding /\ Carried /\ Told /\ [Next]_vars => Told'
  <2> SUFFICES ASSUME TypeOK, Deciding, Carried, Told, [Next]_vars PROVE Told'
      OBVIOUS
  <2> QED BY NextEffect, DeltasStep DEF Told
<1>3. TypeOK /\ Told => DeltasMatchContent
  <2> SUFFICES ASSUME TypeOK, Told, NEW r \in Runs
               PROVE  /\ Count(r, "message.delta") <= content[r]
                      /\ content[r] <= Count(r, "message.delta") + 1
                      /\ task[r] \in Trying \ {"delta_emit"} => content[r] = Count(r, "message.delta")
      BY DEF DeltasMatchContent
  <2>1. CountIn(log[r], "message.delta") \in Nat /\ DeltasFollow(r)
        BY CountIsNatural DEF TypeOK, Told
  <2>2. Count(r, "message.delta") = CountIn(log[r], "message.delta")
        BY DEF Count, CountIn
  <2> QED BY <2>1, <2>2 DEF DeltasFollow
<1> QED BY <1>1, <1>2, <1>3, TypeInvariant, CarriedAlways, PTL DEF Spec

-----------------------------------------------------------------------------
(* The event lock: a coroutine that writes and announces holds it over     *)
(* both, and so does a cancellation from its reads to its terminal event.  *)

Cancelling == {"tools", "cleanup", "announce", "cancelled"}
CancelHolds(h) ==
    /\ req[h].run \in Runs
    /\ eventLock[req[h].run] = h
    /\ status[req[h].run] \notin {"completed", "failed"}
Guarded ==
    /\ \A r \in Runs : task[r] \in Holding => eventLock[r] = r
    /\ \A h \in Clients : req[h].place \in Cancelling => CancelHolds(h)
    /\ \A h \in Clients : InFlight(h) => server = "up" /\ req[h].run \in Runs

LEMMA GuardedTask ==
    ASSUME TypeOK, Guarded, NEW r \in Runs, TaskStep(r)
    PROVE  Guarded'
<1>1. PICK q : Goes(r, q)
      BY TaskStepEffect
<1>2. (\A s \in Runs \ {r} : Untouched(s)) /\ req' = req /\ server' = server
      BY TaskStepEffect
<1>3. /\ task'[r] = q /\ Ways(task[r], q) /\ status'[r] = StatusAt(r, q) /\ LockMoves(r, q)
      BY <1>1 DEF Goes, RowsMove
<1>4. task'[r] \in Holding => eventLock'[r] = r
      BY <1>3 DEF Guarded, Holding, Ways, LockMoves, Locking
<1>5. ASSUME NEW h \in Clients, req[h].place \in Cancelling PROVE CancelHolds(h)'
  <2>1. CASE req[h].run = r
    <3>1. eventLock[r] = h /\ status[r] \notin {"completed", "failed"} /\ h # r /\ h # Nobody
          BY <1>5, <2>1, RunAssumption DEF Guarded, CancelHolds
    <3>2. task[r] \notin Holding \cup Seeking
          BY <1>3, <3>1 DEF Guarded, LockMoves
    <3>3. eventLock'[r] = h
          BY <1>3, <3>1, <3>2 DEF LockMoves, Locking, Seeking, Holding
    <3>4. status'[r] \notin {"completed", "failed"}
          BY <1>3, <3>1, <3>2 DEF StatusAt, Ways, Seeking
    <3> QED BY <1>2, <2>1, <3>3, <3>4 DEF CancelHolds
  <2>2. CASE req[h].run # r
        BY <1>2, <1>5, <2>2 DEF Guarded, CancelHolds, Untouched
  <2> QED BY <2>1, <2>2
<1> QED BY <1>2, <1>4, <1>5 DEF Guarded, Untouched, InFlight

\* What a handler's step does to the lock of its run.
Takes(h) ==
    /\ req[h].place = "cancel" /\ eventLock[req[h].run] = Nobody
    /\ status[req[h].run] \notin Terminal
    /\ req'[h].place = "tools" /\ req'[h].run = req[h].run
    /\ eventLock' = [eventLock EXCEPT ![req[h].run] = h]
    /\ status' = status
GoesOn(h) ==
    /\ req[h].place \in Cancelling
    /\ req'[h].place \in Cancelling /\ req'[h].run = req[h].run
    /\ eventLock' = eventLock
    /\ \A r \in Runs : status'[r] \in {status[r], "cancelled"}
Releases(h) ==
    /\ req[h].place \in Cancelling /\ req'[h].place = "done"
    /\ eventLock' = [eventLock EXCEPT ![req[h].run] = Nobody]
    /\ status' = status
LooksOn(h) ==
    /\ req[h].place \notin Cancelling /\ req'[h].place \notin Cancelling
    /\ InFlight(h)' => req'[h].run = req[h].run
    /\ eventLock' = eventLock /\ status' = status

LEMMA HandlerLock ==
    ASSUME TypeOK, NEW h \in Clients, HandlerStep(h)
    PROVE  /\ InFlight(h) /\ task' = task /\ server' = server
           /\ \A g \in Clients \ {h} : req'[g] = req[g]
           /\ Takes(h) \/ GoesOn(h) \/ Releases(h) \/ LooksOn(h)
<1> USE DEF rows, loop, locks, host, history
<1>1. req[h] \in Handler /\ Done.place = "done"
      BY DoneType DEF TypeOK
<1>2. /\ InFlight(h) /\ task' = task /\ server' = server
      /\ \A g \in Clients \ {h} : req'[g] = req[g]
      BY DEF HandlerStep, LockForCancel, ReadStartedTools, DenyPermission, StopTool, CancelRow,
         EmitDenied, EmitStopped, EmitCancelError, EmitCancelled, Decide, EmitResolved, InFlight,
         Finish, TypeOK
<1> SUFFICES Takes(h) \/ GoesOn(h) \/ Releases(h) \/ LooksOn(h)
    BY <1>2
<1> USE <1>1 DEF Cancelling
<1>3. CASE LockForCancel(h)
  <2>1. CASE status[req[h].run] \in Terminal
        BY <1>3, <2>1 DEF LockForCancel, Finish, LooksOn, InFlight, TypeOK
  <2>2. CASE status[req[h].run] \notin Terminal
    <3>1. req' = [req EXCEPT ![h] = [req[h] EXCEPT !.place = "tools", !.perms = Pending(req[h].run)]]
          BY <1>3, <2>2 DEF LockForCancel
    <3>2. req'[h].place = "tools" /\ req'[h].run = req[h].run
          BY <3>1 DEF TypeOK, Handler
    <3> QED BY <1>3, <2>2, <3>2 DEF LockForCancel, Takes
  <2> QED BY <2>1, <2>2
<1>4. CASE ReadStartedTools(h)
  <2>1. req' = [req EXCEPT ![h] = [req[h] EXCEPT !.place = "cleanup", !.tools = Started(req[h].run)]]
        BY <1>4 DEF ReadStartedTools
  <2>2. req'[h].place = "cleanup" /\ req'[h].run = req[h].run
        BY <2>1 DEF TypeOK, Handler
  <2> QED BY <1>4, <2>2 DEF ReadStartedTools, GoesOn
<1>5. CASE DenyPermission(h)
  <2>1. PICK k : req' = [req EXCEPT ![h] = [req[h] EXCEPT !.perms = @ \ {k}, !.denied = @ \cup {k}]]
        BY <1>5 DEF DenyPermission
  <2>2. req'[h].place = "cleanup" /\ req'[h].run = req[h].run
        BY <1>5, <2>1 DEF DenyPermission, TypeOK, Handler
  <2> QED BY <1>5, <2>2 DEF DenyPermission, GoesOn
<1>6. CASE StopTool(h)
  <2>1. PICK k : req' = [req EXCEPT ![h] = [req[h] EXCEPT !.tools = @ \ {k}, !.stopped = @ \cup {k}]]
        BY <1>6 DEF StopTool
  <2>2. req'[h].place = "cleanup" /\ req'[h].run = req[h].run
        BY <1>6, <2>1 DEF StopTool, TypeOK, Handler
  <2> QED BY <1>6, <2>2 DEF StopTool, GoesOn
<1>7. CASE CancelRow(h)
  <2>1. req' = [req EXCEPT ![h] = [req[h] EXCEPT !.place = "announce"]]
        BY <1>7 DEF CancelRow
  <2>2. req'[h].place = "announce" /\ req'[h].run = req[h].run
        BY <2>1 DEF TypeOK, Handler
  <2>3. \A r \in Runs : status'[r] \in {status[r], "cancelled"}
        BY <1>7 DEF CancelRow, TypeOK
  <2> QED BY <1>7, <2>2, <2>3 DEF CancelRow, GoesOn
<1>8. CASE EmitDenied(h)
  <2>1. PICK k : req' = [req EXCEPT ![h] = [req[h] EXCEPT !.denied = @ \ {k}]]
        BY <1>8 DEF EmitDenied
  <2>2. req'[h].place = "announce" /\ req'[h].run = req[h].run
        BY <1>8, <2>1 DEF EmitDenied, TypeOK, Handler
  <2> QED BY <1>8, <2>2 DEF EmitDenied, GoesOn
<1>9. CASE EmitStopped(h)
  <2>1. PICK k : req' = [req EXCEPT ![h] = [req[h] EXCEPT !.stopped = @ \ {k}]]
        BY <1>9 DEF EmitStopped
  <2>2. req'[h].place = "announce" /\ req'[h].run = req[h].run
        BY <1>9, <2>1 DEF EmitStopped, TypeOK, Handler
  <2> QED BY <1>9, <2>2 DEF EmitStopped, GoesOn
<1>10. CASE EmitCancelError(h)
  <2>1. req' = [req EXCEPT ![h] = [req[h] EXCEPT !.place = "cancelled"]]
        BY <1>10 DEF EmitCancelError
  <2>2. req'[h].place = "cancelled" /\ req'[h].run = req[h].run
        BY <2>1 DEF TypeOK, Handler
  <2> QED BY <1>10, <2>2 DEF EmitCancelError, GoesOn
<1>11. CASE EmitCancelled(h)
      BY <1>11 DEF EmitCancelled, Finish, Releases, TypeOK
<1>12. CASE Decide(h)
  <2>1. req' = [req EXCEPT ![h] = [req[h] EXCEPT !.place = "decided"]]
        BY <1>12 DEF Decide
  <2>2. req'[h].place = "decided" /\ req'[h].run = req[h].run
        BY <2>1 DEF TypeOK, Handler
  <2> QED BY <1>12, <2>2 DEF Decide, LooksOn
<1>13. CASE EmitResolved(h)
      BY <1>13 DEF EmitResolved, Finish, LooksOn, InFlight, TypeOK
<1> QED BY <1>2, <1>3, <1>4, <1>5, <1>6, <1>7, <1>8, <1>9, <1>10, <1>11, <1>12, <1>13 DEF HandlerStep

LEMMA GuardedHandler ==
    ASSUME TypeOK, Guarded, NEW h \in Clients, HandlerStep(h)
    PROVE  Guarded'
<1>1. /\ InFlight(h) /\ task' = task /\ server' = server
      /\ \A g \in Clients \ {h} : req'[g] = req[g]
      /\ Takes(h) \/ GoesOn(h) \/ Releases(h) \/ LooksOn(h)
      BY HandlerLock
<1>2. req[h].run \in Runs /\ server = "up"
      BY <1>1 DEF Guarded
<1>3. InFlight(h)' => req'[h].run \in Runs
      BY <1>1, <1>2 DEF Takes, GoesOn, Releases, LooksOn, InFlight
<1>4. req[h].place \in Cancelling => CancelHolds(h)
      BY DEF Guarded
<1>5. ASSUME NEW r \in Runs, task'[r] \in Holding PROVE eventLock'[r] = r
  <2>1. eventLock[r] = r /\ r # h /\ r # Nobody
        BY <1>1, <1>5, RunAssumption DEF Guarded
  <2> QED BY <1>1, <1>4, <2>1 DEF Takes, GoesOn, Releases, LooksOn, CancelHolds, TypeOK
<1>6. ASSUME NEW g \in Clients, g # h, req'[g].place \in Cancelling PROVE CancelHolds(g)'
  <2>1. CancelHolds(g) /\ req'[g] = req[g] /\ g # Nobody
        BY <1>1, <1>6, RunAssumption DEF Guarded
  <2>2. eventLock'[req[g].run] = g
        BY <1>1, <1>4, <1>6, <2>1 DEF Takes, GoesOn, Releases, LooksOn, CancelHolds, TypeOK
  <2>3. status'[req[g].run] \in {status[req[g].run], "cancelled"}
        BY <1>1, <2>1 DEF Takes, GoesOn, Releases, LooksOn, CancelHolds
  <2> QED BY <2>1, <2>2, <2>3 DEF CancelHolds
<1>7. ASSUME req'[h].place \in Cancelling PROVE CancelHolds(h)'
  <2>1. CASE Takes(h)
        BY <1>2, <2>1 DEF Takes, CancelHolds, Terminal, TypeOK
  <2>2. CASE GoesOn(h)
        BY <1>2, <1>4, <2>2 DEF GoesOn, CancelHolds
  <2> QED BY <1>1, <1>7, <2>1, <2>2 DEF Releases, LooksOn, Cancelling
<1> QED BY <1>1, <1>2, <1>3, <1>5, <1>6, <1>7 DEF Guarded, InFlight

LEMMA GuardedClient ==
    ASSUME TypeOK, Guarded, ClientStep
    PROVE  Guarded'
<1> USE DEF rows, loop, locks, host, history
<1>1. ASSUME NEW q \in Runs, QueueRun(q) PROVE Guarded'
  <2>1. \A r \in Runs : task'[r] \in Holding => task'[r] = task[r]
        BY <1>1 DEF QueueRun, Goto, Holding, TypeOK
  <2>2. \A r \in Runs : status'[r] \in {status[r], "queued"}
        BY <1>1 DEF QueueRun, TypeOK
  <2> QED BY <1>1, <2>1, <2>2 DEF QueueRun, Guarded, CancelHolds, InFlight
<1>2. ASSUME NEW h \in Clients, NEW r \in Runs, NEW p \in {"cancel", "decide"},
             req'[h].place = p, req'[h].run = r, \A g \in Clients \ {h} : req'[g] = req[g],
             server = "up", UNCHANGED <<rows, task, locks, host>>
      PROVE  Guarded'
      BY <1>2 DEF Guarded, CancelHolds, InFlight, Cancelling
<1>3. ASSUME NEW h \in Clients, NEW r \in Runs, RequestCancel(h, r) PROVE Guarded'
  <2>1. req' = [req EXCEPT ![h] = [req[h] EXCEPT !.place = "cancel", !.run = r]]
        BY <1>3 DEF RequestCancel
  <2>2. req \in [Clients -> Handler]
        BY DEF TypeOK
  <2>3. req'[h] = [req[h] EXCEPT !.place = "cancel", !.run = r] /\ req[h] \in Handler
        BY <2>1, <2>2
  <2>4. req'[h].place = "cancel" /\ req'[h].run = r
        BY <2>3 DEF Handler
  <2>5. \A g \in Clients \ {h} : req'[g] = req[g]
        BY <2>1, <2>2
  <2> QED BY <1>2, <1>3, <2>4, <2>5 DEF RequestCancel
<1>4. ASSUME NEW h \in Clients, NEW r \in Runs, NEW k, NEW d, RequestResolve(h, r, k, d)
      PROVE  Guarded'
  <2>1. req' = [req EXCEPT ![h] =
                  [req[h] EXCEPT !.place = "decide", !.run = r, !.call = k, !.decision = d]]
        BY <1>4 DEF RequestResolve
  <2>2. /\ req'[h].place = "decide" /\ req'[h].run = r
        /\ \A g \in Clients \ {h} : req'[g] = req[g]
        BY <2>1 DEF TypeOK, Handler
  <2> QED BY <1>2, <1>4, <2>2 DEF RequestResolve
<1> QED BY <1>1, <1>3, <1>4 DEF ClientStep, SubmitPrompt, RetryRun

LEMMA GuardedServer ==
    ASSUME TypeOK, Guarded, Shutdown \/ Stopped \/ Crash \/ BootStep
    PROVE  Guarded'
<1> USE DEF rows, loop, locks, host, history
<1>1. Cancelling \cap {"idle", "done"} = {}
      BY DEF Cancelling
<1>2. ASSUME \A r \in Runs : task'[r] \in Holding => task'[r] = task[r] /\ eventLock'[r] = eventLock[r],
             \A h \in Clients : ~InFlight(h)'
      PROVE  Guarded'
      BY <1>1, <1>2 DEF Guarded, InFlight
<1>3. CASE Shutdown
  <2>1. \A r \in Runs : task'[r] \notin Holding
        BY <1>3 DEF Shutdown, Landing, Holding
  <2> QED BY <1>2, <1>3, <2>1 DEF Shutdown, InFlight
<1>4. CASE Crash
  <2>1. \A r \in Runs : task'[r] \notin Holding
        BY <1>4 DEF Crash, Holding
  <2> QED BY <1>2, <1>4, <2>1, DoneType DEF Crash, InFlight
<1>5. CASE Stopped \/ BootStep
  <2>1. server # "up" /\ req' = req /\ eventLock' = eventLock
        BY <1>5 DEF Stopped, BootStep, RecoverRunning, RecoverWaiting, RecoverPermissions,
           EnqueueQueued, Boot
  <2>2. \A r \in Runs : task'[r] \in Holding => task'[r] = task[r]
        BY <1>5 DEF Stopped, BootStep, RecoverRunning, RecoverWaiting, RecoverPermissions,
           EnqueueQueued, Holding
  <2> QED BY <1>2, <2>1, <2>2 DEF Guarded, InFlight
<1> QED BY <1>3, <1>4, <1>5

LEMMA GuardedAlways == Spec => []Guarded
<1>1. Init => Guarded
  <2> SUFFICES ASSUME Init PROVE Guarded
      OBVIOUS
  <2>1. \A r \in Runs : task[r] \notin Holding
        BY DEF Init, Holding
  <2>2. \A h \in Clients : req[h].place = "idle"
        BY DEF Init, Idle
  <2> QED BY <2>1, <2>2 DEF Guarded, InFlight, Cancelling
<1>2. TypeOK /\ Guarded /\ [Next]_vars => Guarded'
  <2> SUFFICES ASSUME TypeOK, Guarded, [Next]_vars PROVE Guarded'
      OBVIOUS
  <2>1. CASE Next
        BY <2>1, GuardedTask, GuardedHandler, GuardedClient, GuardedServer DEF Next
  <2>2. CASE UNCHANGED vars
        BY <2>2 DEF vars, rows, loop, locks, host, Guarded, CancelHolds, InFlight
  <2> QED BY <2>1, <2>2
<1> QED BY <1>1, <1>2, TypeCorrect, PTL DEF Spec

-----------------------------------------------------------------------------
(* The tool calls: outside its current call a run has none that is open or *)
(* failed, and between two calls it has none at all.  The exception is a   *)
(* call saved as a success that a cancellation still overwrites; the run   *)
(* then stands before tool.finished and finds itself cancelled there.      *)

Between == Opening \cup {"tool", "tool_insert", "record"} \cup Closing
CleanTools(r, ks) == \A k \in ks : tool[r][k] \in {"none", "success"}
Stopping(h, r) == req[h].place = "cleanup" /\ req[h].run = r
ToolsSettle(r) ==
    /\ task[r] \in Waiting \cup Between \/ ~Begun(r) => CleanTools(r, Calls)
    /\ CleanTools(r, Calls \ {calls[r]})
    /\ task[r] = "finished" /\ ~CleanTools(r, Calls) =>
         Cancelled(r) \/ \E h \in Clients : Stopping(h, r)
CancelsCurrent(h) ==
    LET r == req[h].run IN
    req[h].place = "cleanup" /\ req[h].tools # {} =>
        req[h].tools = {calls[r]} /\ task[r] \notin Waiting \cup Between /\ Begun(r)
Tidy ==
    /\ \A r \in Runs : ToolsSettle(r)
    /\ \A h \in Clients : CancelsCurrent(h)

LEMMA TidyTask ==
    ASSUME TypeOK, Carried, Guarded, Tidy, NEW r \in Runs, TaskStep(r)
    PROVE  Tidy'
<1>1. PICK q : Goes(r, q)
      BY TaskStepEffect
<1>2. (\A s \in Runs \ {r} : Untouched(s)) /\ req' = req
      BY TaskStepEffect
<1>3. /\ task'[r] = q /\ Ways(task[r], q) /\ status'[r] = StatusAt(r, q)
      /\ tool'[r] = ToolAt(r, q) /\ Permits(r, q)
      /\ calls'[r] = IF q = "tool" THEN calls[r] + 1 ELSE calls[r]
      /\ task[r] \in Seeking => eventLock[r] = Nobody
      BY <1>1 DEF Goes, RowsMove, LockMoves
<1>4. /\ PlaceTellsStatus(r) /\ ToolsSettle(r)
      /\ tool[r] \in [Calls -> {"none", "started", "success", "failed", "cancelled"}]
      BY DEF Carried, Tidy, TypeOK
<1>5. ~Begun(r)' => ~Begun(r)
      BY <1>3 DEF Begun, StatusAt
<1>6. task[r] \in Seeking => \A h \in Clients : ~Stopping(h, r)
      BY <1>3, RunAssumption DEF Stopping, Guarded, CancelHolds, Cancelling
<1>7. q \in Waiting \cup Between /\ q # "record" => task[r] \in Waiting \cup Between
      BY <1>3, SMTT(30) DEF Ways, Waiting, Between, Opening, Closing
<1>8. q = "record" => CleanTools(r, Calls)
      BY <1>3, <1>4, <1>6 DEF Ways, Permits, Seeking, ToolsSettle
<1>9. ToolsSettle(r)'
  <2>1. CASE tool'[r] = tool[r] /\ q # "finished"
    <3>1. q = "tool" => CleanTools(r, Calls)
          BY <1>3, <1>4 DEF Ways, ToolsSettle, Between, Opening
    <3> QED BY <1>3, <1>4, <1>5, <1>7, <1>8, <2>1, <3>1 DEF ToolsSettle, CleanTools
  <2>2. CASE q = "finished"
    <3>1. tool'[r] = [tool[r] EXCEPT ![calls[r]] = "success"] /\ calls'[r] = calls[r]
          BY <1>3, <2>2 DEF ToolAt, Ways
    <3>2. CleanTools(r, Calls)'
          BY <1>4, <3>1 DEF ToolsSettle, CleanTools
    <3> QED BY <3>2 DEF ToolsSettle, CleanTools
  <2>3. CASE q = "policy" \/ task[r] = "tool_cancel" \/ q = "tool_failed"
    <3>1. PICK v : tool'[r] = [tool[r] EXCEPT ![calls[r]] = v]
          BY <1>3, <2>3 DEF ToolAt, Ways
    <3>2. calls'[r] = calls[r] /\ q \notin Waiting \cup Between /\ q # "finished"
          BY <1>3, <2>3 DEF Ways, Waiting, Between, Opening, Closing
    <3>3. Begun(r)'
          BY <1>3, <1>4, <1>5, <2>3 DEF Ways, PlaceTellsStatus, InBody, Trying, Tooling
    <3>4. CleanTools(r, Calls \ {calls[r]})'
          BY <1>4, <3>1, <3>2 DEF ToolsSettle, CleanTools
    <3> QED BY <1>3, <3>2, <3>3, <3>4 DEF ToolsSettle
  <2> QED BY <1>3, <2>1, <2>2, <2>3 DEF ToolAt
<1>10. ASSUME NEW s \in Runs, s # r PROVE ToolsSettle(s)'
  <2>1. ToolsSettle(s)
        BY DEF Tidy
  <2> QED BY <1>2, <1>10, <2>1 DEF Untouched, ToolsSettle, CleanTools, Begun, Cancelled, Stopping
<1>11. ASSUME NEW h \in Clients, req[h].place = "cleanup", req[h].tools # {} PROVE CancelsCurrent(h)'
  <2>1. CancelsCurrent(h) /\ req[h].run \in Runs
        BY <1>11 DEF Tidy, Guarded, CancelHolds, Cancelling
  <2>2. CASE req[h].run = r
    <3>1. task[r] \notin Waiting \cup Between /\ task[r] \notin Seeking
          BY <1>6, <1>11, <2>1, <2>2 DEF CancelsCurrent, Stopping
    <3>2. q \notin Waiting \cup Between /\ q # "tool"
      <4>1. q # "record"
            BY <1>3, <3>1 DEF Ways, Seeking
      <4> QED BY <1>7, <3>1, <4>1 DEF Between
    <3> QED BY <1>2, <1>3, <1>5, <1>11, <2>1, <2>2, <3>2 DEF CancelsCurrent
  <2>3. CASE req[h].run # r
        BY <1>2, <1>11, <2>1, <2>3 DEF CancelsCurrent, Untouched, Begun
  <2> QED BY <2>2, <2>3
<1> QED BY <1>2, <1>9, <1>10, <1>11 DEF Tidy, CancelsCurrent

\* A cancellation's cleanup: what it reads to stop, and how it leaves it.
LEMMA CleanupStep ==
    ASSUME TypeOK, NEW h \in Clients, req[h].run \in Runs, HandlerStep(h)
    PROVE  /\ req[h].place = "cleanup" =>
                \/ /\ req'[h].place = "cleanup" /\ req'[h].run = req[h].run
                   /\ req'[h].tools \subseteq req[h].tools
                \/ /\ req'[h].place = "announce" /\ tool' = tool
                   /\ status'[req[h].run] = "cancelled"
           /\ req[h].place # "cleanup" /\ req'[h].place = "cleanup" =>
                req'[h].run = req[h].run /\ req'[h].tools = Started(req[h].run) /\ tool' = tool
<1> USE DEF rows
<1>1. req[h] \in Handler /\ req \in [Clients -> Handler] /\ Done.place = "done"
      BY DoneType DEF TypeOK
<1>2. CASE ReadStartedTools(h)
  <2>1. req' = [req EXCEPT ![h] = [req[h] EXCEPT !.place = "cleanup", !.tools = Started(req[h].run)]]
        BY <1>2 DEF ReadStartedTools
  <2>2. req'[h].run = req[h].run /\ req'[h].tools = Started(req[h].run)
        BY <1>1, <2>1 DEF Handler
  <2> QED BY <1>2, <2>2 DEF ReadStartedTools
<1>3. CASE DenyPermission(h)
  <2>1. PICK k : req' = [req EXCEPT ![h] = [req[h] EXCEPT !.perms = @ \ {k}, !.denied = @ \cup {k}]]
        BY <1>3 DEF DenyPermission
  <2>2. req'[h].place = req[h].place /\ req'[h].run = req[h].run /\ req'[h].tools = req[h].tools
        BY <1>1, <2>1 DEF Handler
  <2> QED BY <1>3, <2>2 DEF DenyPermission
<1>4. CASE StopTool(h)
  <2>1. PICK k : req' = [req EXCEPT ![h] = [req[h] EXCEPT !.tools = @ \ {k}, !.stopped = @ \cup {k}]]
        BY <1>4 DEF StopTool
  <2>2. /\ req'[h].place = req[h].place /\ req'[h].run = req[h].run
        /\ req'[h].tools = req[h].tools \ {k}
        BY <1>1, <2>1 DEF Handler
  <2> QED BY <1>4, <2>2 DEF StopTool
<1>5. CASE CancelRow(h)
  <2>1. status'[req[h].run] = "cancelled"
        BY <1>5 DEF CancelRow, TypeOK
  <2>2. req' = [req EXCEPT ![h] = [req[h] EXCEPT !.place = "announce"]]
        BY <1>5 DEF CancelRow
  <2>3. req'[h].place = "announce"
        BY <1>1, <2>2 DEF Handler
  <2> QED BY <1>5, <2>1, <2>3 DEF CancelRow
<1>6. CASE LockForCancel(h) \/ Decide(h) \/ EmitResolved(h)
  <2>1. Takes(h) \/ LooksOn(h) \/ GoesOn(h) \/ Releases(h)
        BY HandlerLock
  <2>2. req[h].place \in {"cancel", "decide", "decided"}
        BY <1>6 DEF LockForCancel, Decide, EmitResolved
  <2> QED BY <2>1, <2>2 DEF Takes, LooksOn, GoesOn, Releases, Cancelling
<1>7. CASE EmitDenied(h) \/ EmitStopped(h) \/ EmitCancelError(h) \/ EmitCancelled(h)
  <2>1. req[h].place \in {"announce", "cancelled"}
        BY <1>7 DEF EmitDenied, EmitStopped, EmitCancelError, EmitCancelled
  <2>2. req'[h].place # "cleanup"
    <3>1. CASE EmitDenied(h)
      <4>1. PICK k : req' = [req EXCEPT ![h] = [req[h] EXCEPT !.denied = @ \ {k}]]
            BY <3>1 DEF EmitDenied
      <4> QED BY <1>1, <2>1, <4>1 DEF Handler
    <3>2. CASE EmitStopped(h)
      <4>1. PICK k : req' = [req EXCEPT ![h] = [req[h] EXCEPT !.stopped = @ \ {k}]]
            BY <3>2 DEF EmitStopped
      <4> QED BY <1>1, <2>1, <4>1 DEF Handler
    <3>3. CASE EmitCancelError(h)
      <4>1. req' = [req EXCEPT ![h] = [req[h] EXCEPT !.place = "cancelled"]]
            BY <3>3 DEF EmitCancelError
      <4> QED BY <1>1, <4>1 DEF Handler
    <3>4. CASE EmitCancelled(h)
          BY <1>1, <3>4 DEF EmitCancelled, Finish
    <3> QED BY <1>7, <3>1, <3>2, <3>3, <3>4
  <2> QED BY <2>1, <2>2
<1> QED BY <1>2, <1>3, <1>4, <1>5, <1>6, <1>7 DEF HandlerStep

LEMMA TidyHandler ==
    ASSUME TypeOK, Deciding, Guarded, Tidy, NEW h \in Clients, HandlerStep(h)
    PROVE  Tidy'
<1> DEFINE run == req[h].run
<1>1. /\ run \in Runs /\ task' = task /\ \A g \in Clients \ {h} : req'[g] = req[g]
      BY HandlerLock DEF Guarded
<1>2. \A r \in Runs : Handled(r, h)
      BY HandlerStepEffect
<1>3. CancelsCurrent(h) /\ \A r \in Runs : ToolsSettle(r)
      BY DEF Tidy
<1>4. \A r \in Runs : calls'[r] = calls[r] /\ (Begun(r) => Begun(r)') /\ (Cancelled(r) => Cancelled(r)')
      BY <1>2 DEF Handled, Begun, Cancelled
<1>5. /\ req[h].place = "cleanup" =>
           \/ req'[h].place = "cleanup" /\ req'[h].run = run /\ req'[h].tools \subseteq req[h].tools
           \/ req'[h].place = "announce" /\ tool' = tool /\ status'[run] = "cancelled"
      /\ req[h].place # "cleanup" /\ req'[h].place = "cleanup" =>
           req'[h].run = run /\ req'[h].tools = Started(run) /\ tool' = tool
      BY <1>1, CleanupStep
<1> HIDE DEF run
<1>6. ASSUME NEW r \in Runs PROVE ToolsSettle(r)'
  <2>1. CASE tool'[r] = tool[r]
    <3>1. ASSUME NEW g \in Clients, Stopping(g, r)
          PROVE  Cancelled(r)' \/ Stopping(g, r)'
          BY <1>1, <1>5, <3>1 DEF Stopping, Cancelled, run
    <3> QED BY <1>1, <1>3, <1>4, <2>1, <3>1 DEF ToolsSettle, CleanTools
  <2>2. CASE tool'[r] # tool[r]
    <3>1. /\ req[h].place = "cleanup" /\ run = r
          /\ \E k \in req[h].tools : tool'[r] = [tool[r] EXCEPT ![k] = "cancelled"]
          BY <1>2, <2>2 DEF Handled, run
    <3>2. /\ tool'[r] = [tool[r] EXCEPT ![calls[r]] = "cancelled"]
          /\ task[r] \notin Waiting \cup Between /\ Begun(r)
          BY <1>3, <3>1 DEF CancelsCurrent, run
    <3>3. CleanTools(r, Calls \ {calls[r]})'
          BY <1>3, <1>4, <3>2 DEF ToolsSettle, CleanTools, TypeOK
    <3>4. Stopping(h, r)'
          BY <1>5, <2>2, <3>1 DEF Stopping
    <3> QED BY <1>1, <1>4, <3>2, <3>3, <3>4 DEF ToolsSettle
  <2> QED BY <2>1, <2>2
<1>7. ASSUME NEW g \in Clients \ {h} PROVE CancelsCurrent(g)'
  <2>1. req[g].place = "cleanup" => CancelsCurrent(g) /\ req[g].run \in Runs
        BY DEF Tidy, Guarded, CancelHolds, Cancelling
  <2> QED BY <1>1, <1>4, <2>1 DEF CancelsCurrent
<1>8. CancelsCurrent(h)'
  <2>1. CASE req[h].place = "cleanup"
    <3>1. CASE req'[h].place = "cleanup" /\ req'[h].run = run /\ req'[h].tools \subseteq req[h].tools
      <4>1. SUFFICES ASSUME req'[h].tools # {}
                     PROVE  /\ req'[h].tools = {calls[run]} /\ task[run] \notin Waiting \cup Between
                            /\ Begun(run)
            BY <1>1, <1>4, <3>1 DEF CancelsCurrent
      <4> QED BY <1>3, <2>1, <3>1, <4>1 DEF CancelsCurrent, run
    <3> QED BY <1>5, <2>1, <3>1 DEF CancelsCurrent
  <2>2. CASE req[h].place # "cleanup" /\ req'[h].place = "cleanup"
    <3>1. ToolsSettle(run) /\ req'[h].tools = Started(run) /\ req'[h].run = run
          BY <1>1, <1>3, <1>5, <2>2
    <3>2. SUFFICES ASSUME Started(run) # {}
                   PROVE  /\ Started(run) = {calls[run]} /\ task[run] \notin Waiting \cup Between
                          /\ Begun(run)
          BY <1>1, <1>4, <3>1 DEF CancelsCurrent
    <3> QED BY <3>1, <3>2 DEF ToolsSettle, CleanTools, Started
  <2> QED BY <2>1, <2>2 DEF CancelsCurrent
<1> QED BY <1>6, <1>7, <1>8 DEF Tidy

LEMMA TidyClient ==
    ASSUME TypeOK, Guarded, Tidy, ClientStep
    PROVE  Tidy'
<1> USE DEF rows, loop, locks, host, history
<1>1. \A r \in Runs : ToolsSettle(r)
      BY DEF Tidy
<1>2. \A h \in Clients : req[h].place = "cleanup" => CancelsCurrent(h) /\ req[h].run \in Runs
      BY DEF Tidy, Guarded, CancelHolds, Cancelling
<1>3. ASSUME NEW h \in Clients
      PROVE  req'[h] = req[h] \/ (req[h].place = "idle" /\ req'[h].place # "cleanup")
  <2>0. req \in [Clients -> Handler] /\ \A g \in Clients : req[g] \in Handler
        BY DEF TypeOK
  <2>1. ASSUME NEW g \in Clients, NEW r \in Runs, RequestCancel(g, r)
        PROVE  req'[h] = req[h] \/ (req[h].place = "idle" /\ req'[h].place # "cleanup")
    <3>1. req' = [req EXCEPT ![g] = [req[g] EXCEPT !.place = "cancel", !.run = r]]
          BY <2>1 DEF RequestCancel
    <3>2. [req[g] EXCEPT !.place = "cancel", !.run = r].place = "cancel"
          BY <2>0 DEF Handler
    <3>3. req[g].place = "idle"
          BY <2>1 DEF RequestCancel
    <3> QED BY <2>0, <3>1, <3>2, <3>3
  <2>2. ASSUME NEW g \in Clients, NEW r, NEW k, NEW d, RequestResolve(g, r, k, d)
        PROVE  req'[h] = req[h] \/ (req[h].place = "idle" /\ req'[h].place # "cleanup")
    <3> DEFINE x == [req[g] EXCEPT !.place = "decide", !.run = r, !.call = k, !.decision = d]
    <3>1. req' = [req EXCEPT ![g] = x]
          BY <2>2 DEF RequestResolve
    <3>2. x.place = "decide"
          BY <2>0 DEF Handler
    <3>3. req[g].place = "idle"
          BY <2>2 DEF RequestResolve
    <3> HIDE DEF x
    <3> QED BY <2>0, <3>1, <3>2, <3>3
  <2>3. ASSUME NEW q \in Runs, QueueRun(q) PROVE req' = req
        BY <2>3 DEF QueueRun
  <2> QED BY <2>1, <2>2, <2>3 DEF ClientStep, SubmitPrompt, RetryRun
<1>4. ASSUME NEW r \in Runs PROVE Submitted(r) \/ Untouched(r)
      BY ClientStepEffect
<1>5. ASSUME NEW r \in Runs PROVE ToolsSettle(r)'
  <2>1. CASE Submitted(r)
        BY <1>1, <2>1 DEF Submitted, Stable, ToolsSettle, CleanTools, Begun
  <2>2. CASE Untouched(r)
    <3>1. \A h \in Clients : Stopping(h, r) => Stopping(h, r)'
          BY <1>3 DEF Stopping
    <3> QED BY <1>1, <2>2, <3>1 DEF Untouched, ToolsSettle, CleanTools, Begun, Cancelled
  <2> QED BY <1>4, <2>1, <2>2
<1>6. ASSUME NEW h \in Clients PROVE CancelsCurrent(h)'
  <2>1. CASE req'[h] = req[h] /\ req[h].place = "cleanup" /\ req[h].tools # {}
    <3>1. CancelsCurrent(h) /\ req[h].run \in Runs
          BY <1>2, <2>1
    <3>2. Untouched(req[h].run)
          BY <1>4, <2>1, <3>1 DEF Submitted, CancelsCurrent, Begun
    <3> QED BY <2>1, <3>1, <3>2 DEF CancelsCurrent, Untouched, Begun
  <2> QED BY <1>3, <2>1 DEF CancelsCurrent
<1> QED BY <1>5, <1>6 DEF Tidy

LEMMA TidyServer ==
    ASSUME TypeOK, Serialised, Settled, Guarded, Tidy, Shutdown \/ Stopped \/ Crash \/ BootStep
    PROVE  Tidy'
<1> USE DEF rows, loop, locks, host, history
<1>1. \A h \in Clients : req'[h].place # "cleanup"
  <2>1. CASE Shutdown
        BY <2>1 DEF Shutdown, InFlight
  <2>2. CASE Crash
        BY <2>2, DoneType DEF Crash, InFlight
  <2>3. CASE Stopped \/ BootStep
    <3>1. server # "up" /\ req' = req
          BY <2>3 DEF Stopped, BootStep, RecoverRunning, RecoverWaiting, RecoverPermissions,
             EnqueueQueued, Boot
    <3> QED BY <3>1 DEF Guarded, InFlight
  <2> QED BY <2>1, <2>2, <2>3
<1>2. ASSUME NEW r \in Runs PROVE ToolsSettle(r)'
  <2>1. ToolsSettle(r)
        BY DEF Tidy
  <2>2. {"none", "interrupt"} \cap (Waiting \cup Between) = {}
        BY DEF Waiting, Between, Opening, Closing
  <2>3. CASE Halted(r)
        BY <2>1, <2>2, <2>3 DEF Halted, Lasting, Stable, ToolsSettle, CleanTools, Begun
  <2>4. CASE Recovered(r)
    <3>1. task'[r] = "none"
          BY <2>4 DEF Recovered, Settled, BootIsIdle
    <3> QED BY <2>1, <2>2, <2>4, <3>1 DEF Recovered, Stable, ToolsSettle, CleanTools, Begun, Active
  <2>5. CASE Enqueued(r)
        BY <2>1, <2>2, <2>5 DEF Enqueued, Lasting, Stable, ToolsSettle, CleanTools, Begun
  <2> QED BY <2>3, <2>4, <2>5, ServerStepEffect
<1> QED BY <1>1, <1>2 DEF Tidy, CancelsCurrent

LEMMA TidyAlways == Spec => []Tidy
<1>1. Init => Tidy
  <2> SUFFICES ASSUME Init PROVE Tidy
      OBVIOUS
  <2>1. \A r \in Runs : CleanTools(r, Calls)
        BY DEF Init, CleanTools
  <2>2. \A h \in Clients : req[h].place = "idle"
        BY DEF Init, Idle
  <2> QED BY <2>1, <2>2 DEF Tidy, ToolsSettle, CancelsCurrent, CleanTools
<1>2. /\ TypeOK /\ Deciding /\ Serialised /\ Carried /\ Settled /\ Guarded /\ Tidy
      /\ [Next]_vars
      => Tidy'
  <2> SUFFICES ASSUME TypeOK, Deciding, Serialised, Carried, Settled, Guarded, Tidy, [Next]_vars
               PROVE  Tidy'
      OBVIOUS
  <2>1. CASE Next
        BY <2>1, TidyTask, TidyHandler, TidyClient, TidyServer DEF Next
  <2>2. CASE UNCHANGED vars
        BY <2>2 DEF vars, rows, loop, locks, host, Tidy, ToolsSettle, CancelsCurrent, CleanTools,
           Begun, Cancelled, Stopping
  <2> QED BY <2>1, <2>2
<1> QED BY <1>1, <1>2, TypeInvariant, SerialisedAlways, CarriedAlways, SettledAlways, GuardedAlways,
       PTL DEF Spec

-----------------------------------------------------------------------------
(* A run's terminal event tells the truth.  Between the row's UPDATE and   *)
(* the event stand two awaits or more; what keeps a cancellation out is    *)
(* the event lock, and what keeps the tools clean is the part above.       *)

MessageIsTold(r) ==
    LET told == CountIn(log[r], "message.completed") IN
    /\ ~Begun(r) \/ task[r] \in Waiting \cup (Trying \ {"complete", "complete_emit"}) => told = 0
    /\ task[r] \in {"complete", "complete_emit"} => told = 1
    /\ task[r] \in {"message_emit", "complete", "complete_emit"} => message[r] = "completed"
    /\ task[r] \in {"fail_error", "fail_emit"} => message[r] = "failed"
    /\ task[r] = "complete_emit" => status[r] = "completed" /\ CleanTools(r, Calls)
    /\ task[r] \in {"fail_message", "fail_error", "fail_emit"} => status[r] = "failed"
OutcomeHolds(r) ==
    /\ "completed" \in AnnouncedIn(log[r]) =>
         /\ task[r] = "none" /\ status[r] = "completed" /\ message[r] = "completed"
         /\ CountIn(log[r], "message.completed") = 1
         /\ CleanTools(r, Calls)
    /\ "failed" \in AnnouncedIn(log[r]) =>
         task[r] = "none" /\ status[r] = "failed" /\ message[r] = "failed"
Truthful == \A r \in Runs : MessageIsTold(r) /\ OutcomeHolds(r)

LEMMA MessageGoes ==
    ASSUME TypeOK, Carried, Tidy, NEW r \in Runs, MessageIsTold(r), NEW q, Goes(r, q)
    PROVE  MessageIsTold(r)'
<1>1. /\ task'[r] = q /\ Ways(task[r], q) /\ status'[r] = StatusAt(r, q)
      /\ message'[r] = MessageAt(r, q) /\ tool'[r] = ToolAt(r, q)
      /\ CountIn(log'[r], "message.completed") =
           CountIn(log[r], "message.completed") + (IF q = "complete" THEN 1 ELSE 0)
      BY DEF Goes, RowsMove, LogMoves
<1>2. PlaceTellsStatus(r) /\ ToolsSettle(r)
      BY DEF Carried, Tidy
<1>3. ~Begun(r)' => ~Begun(r)
      BY <1>1 DEF Begun, StatusAt
<1>4. q = "complete" => task[r] = "message_emit"
      BY <1>1 DEF Ways
<1>5. q = "complete" => Begun(r)' /\ CountIn(log[r], "message.completed") = 0
      BY <1>2, <1>3, <1>4 DEF PlaceTellsStatus, InBody, MessageIsTold, Trying, Closing
<1>6. q \in Waiting \cup (Trying \ {"complete", "complete_emit"}) =>
        task[r] \in Waiting \cup (Trying \ {"complete", "complete_emit"})
      BY <1>1, SMTT(30) DEF Ways, Waiting, Trying, Opening, Tooling, Closing
<1>7. ~Begun(r)' \/ q \in Waiting \cup (Trying \ {"complete", "complete_emit"}) =>
        CountIn(log'[r], "message.completed") = 0
  <2>1. SUFFICES ASSUME ~Begun(r)' \/ q \in Waiting \cup (Trying \ {"complete", "complete_emit"})
                 PROVE  CountIn(log'[r], "message.completed") = 0
        OBVIOUS
  <2>2. q # "complete"
        BY <1>5, <2>1 DEF Waiting
  <2>3. CountIn(log[r], "message.completed") = 0
        BY <1>3, <1>6, <2>1 DEF MessageIsTold
  <2> QED BY <1>1, <2>2, <2>3
<1>8. q = "complete_emit" => task[r] = "complete"
      BY <1>1 DEF Ways
<1>9. q \in {"complete", "complete_emit"} => CountIn(log'[r], "message.completed") = 1
      BY <1>1, <1>5, <1>8 DEF MessageIsTold
<1>10. q \in {"message_emit", "complete", "complete_emit"} => message'[r] = "completed"
      BY <1>1, <1>4, <1>8 DEF MessageIsTold, MessageAt, Ways
<1>11. q \in {"fail_error", "fail_emit"} => message'[r] = "failed"
      BY <1>1 DEF MessageIsTold, MessageAt, Ways
<1>12. q = "complete_emit" => status'[r] = "completed" /\ CleanTools(r, Calls)'
      BY <1>1, <1>2, <1>8 DEF StatusAt, ToolAt, ToolsSettle, CleanTools, Between, Closing
<1>13. q \in {"fail_message", "fail_error", "fail_emit"} => status'[r] = "failed"
      BY <1>1 DEF MessageIsTold, StatusAt, Ways
<1> QED BY <1>1, <1>7, <1>9, <1>10, <1>11, <1>12, <1>13 DEF MessageIsTold

LEMMA OutcomeGoes ==
    ASSUME NEW r, MessageIsTold(r), OutcomeHolds(r), NEW q, Goes(r, q)
    PROVE  OutcomeHolds(r)'
<1>1. /\ task'[r] = q /\ Ways(task[r], q) /\ status'[r] = StatusAt(r, q)
      /\ message'[r] = MessageAt(r, q) /\ tool'[r] = ToolAt(r, q)
      /\ CountIn(log'[r], "message.completed") =
           CountIn(log[r], "message.completed") + (IF q = "complete" THEN 1 ELSE 0)
      /\ AnnouncedIn(log'[r]) = AnnouncedIn(log[r]) \cup
           (IF task[r] = "complete_emit" THEN {"completed"}
            ELSE IF task[r] = "fail_emit" THEN {"failed"} ELSE {})
      BY DEF Goes, RowsMove, LogMoves
<1>2. "completed" \notin AnnouncedIn(log[r]) /\ "failed" \notin AnnouncedIn(log[r])
      BY <1>1 DEF OutcomeHolds, Ways
<1>3. CASE task[r] = "complete_emit"
  <2>1. q = "none"
        BY <1>1, <1>3 DEF Ways
  <2>2. status'[r] = "completed" /\ message'[r] = "completed" /\ tool'[r] = tool[r]
        BY <1>1, <1>3, <2>1 DEF MessageIsTold, StatusAt, MessageAt, ToolAt
  <2>3. CountIn(log'[r], "message.completed") = 1 /\ CleanTools(r, Calls)'
        BY <1>1, <1>3, <2>1, <2>2 DEF MessageIsTold, CleanTools
  <2> QED BY <1>1, <1>2, <1>3, <2>1, <2>2, <2>3 DEF OutcomeHolds
<1>4. CASE task[r] = "fail_emit"
  <2>1. q = "none"
        BY <1>1, <1>4 DEF Ways
  <2>2. status'[r] = "failed" /\ message'[r] = "failed"
        BY <1>1, <1>4, <2>1 DEF MessageIsTold, StatusAt, MessageAt
  <2> QED BY <1>1, <1>2, <1>4, <2>1, <2>2 DEF OutcomeHolds
<1>5. CASE task[r] \notin {"complete_emit", "fail_emit"}
      BY <1>1, <1>2, <1>5 DEF OutcomeHolds
<1> QED BY <1>3, <1>4, <1>5

LEMMA TruthfulStep ==
    ASSUME TypeOK, Carried, Settled, Guarded, Tidy, NEW r \in Runs,
           MessageIsTold(r), OutcomeHolds(r), Fate(r)
    PROVE  MessageIsTold(r)' /\ OutcomeHolds(r)'
<1> USE DEF MessageIsTold, OutcomeHolds
<1>1. {"none", "interrupt"} \cap (Waiting \cup Trying) = {} /\ Waiting \cap Trying = {}
      BY DEF Waiting, Trying, Opening, Tooling, Closing
<1>2. ASSUME NEW q, Goes(r, q) PROVE MessageIsTold(r)' /\ OutcomeHolds(r)'
      BY <1>2, MessageGoes, OutcomeGoes
<1>3. CASE Untouched(r)
      BY <1>3 DEF Untouched, CleanTools, Begun
<1>4. ASSUME NEW h \in Clients, Handled(r, h) PROVE MessageIsTold(r)' /\ OutcomeHolds(r)'
  <2>1. /\ task'[r] = task[r] /\ message'[r] = message[r]
        /\ CountIn(log'[r], "message.completed") = CountIn(log[r], "message.completed")
        /\ AnnouncedIn(log'[r]) \subseteq AnnouncedIn(log[r]) \cup {"cancelled"}
        /\ ~Begun(r)' => ~Begun(r)
        BY <1>4 DEF Handled, LogKept, Begun
  <2>2. CASE req[h].place = "cleanup" /\ req[h].run = r
    <3>1. eventLock[r] = h /\ h # r /\ status[r] \notin {"completed", "failed"}
          BY <2>2, RunAssumption DEF Guarded, CancelHolds, Cancelling
    <3>2. task[r] \notin Holding
          BY <3>1 DEF Guarded
    <3> QED BY <2>1, <3>1, <3>2 DEF Holding
  <2>3. CASE status'[r] = status[r] /\ tool'[r] = tool[r]
        BY <2>1, <2>3 DEF CleanTools
  <2> QED BY <1>4, <2>2, <2>3 DEF Handled
<1>5. CASE Submitted(r)
      BY <1>1, <1>5 DEF Submitted, Stable, Begun, Waiting
<1>6. CASE Halted(r)
  <2>1. "completed" \in AnnouncedIn(log[r]) \/ "failed" \in AnnouncedIn(log[r]) => task[r] \notin Trying
        BY DEF Trying, Opening, Tooling, Closing
  <2> QED BY <1>1, <1>6, <2>1 DEF Halted, Lasting, Stable, CleanTools, Begun
<1>7. CASE Recovered(r)
  <2>1. task'[r] = "none"
        BY <1>7 DEF Recovered, Settled, BootIsIdle
  <2> QED BY <1>1, <1>7, <2>1 DEF Recovered, Stable, CleanTools, Begun, Active
<1>8. CASE Enqueued(r)
  <2>1. task'[r] \in {"fetch", "none"} /\ (task'[r] = "fetch" => ~Begun(r))
        BY <1>8 DEF Enqueued, Begun
  <2>2. ~Begun(r) => CountIn(log[r], "message.completed") = 0
        OBVIOUS
  <2> QED BY <1>1, <1>8, <2>1, <2>2 DEF Enqueued, Lasting, Stable, CleanTools, Begun
<1> QED BY <1>2, <1>3, <1>4, <1>5, <1>6, <1>7, <1>8 DEF Fate

LEMMA TruthfulAlways == Spec => []Truthful
<1>1. Init => Truthful
  <2> SUFFICES ASSUME Init, NEW r \in Runs PROVE MessageIsTold(r) /\ OutcomeHolds(r)
      BY DEF Truthful
  <2>1. log[r] = <<>> /\ task[r] = "none"
        BY DEF Init
  <2>2. CountIn(log[r], "message.completed") = 0 /\ AnnouncedIn(log[r]) = {}
        BY <2>1, EmptyLog
  <2> QED BY <2>1, <2>2 DEF MessageIsTold, OutcomeHolds
<1>2. TypeOK /\ Deciding /\ Carried /\ Settled /\ Guarded /\ Tidy /\ Truthful /\ [Next]_vars
      => Truthful'
  <2> SUFFICES ASSUME TypeOK, Deciding, Carried, Settled, Guarded, Tidy, Truthful, [Next]_vars
               PROVE  Truthful'
      OBVIOUS
  <2> QED BY NextEffect, TruthfulStep DEF Truthful
<1> QED BY <1>1, <1>2, TypeInvariant, CarriedAlways, SettledAlways, GuardedAlways, TidyAlways,
       PTL DEF Spec

\* A run announced as completed or failed is that in its row and in its message,
\* and a completed one's tool calls all succeeded: no cancellation, failure or
\* restart comes between what was written and what was announced.
THEOREM OutcomeIsTrueAlways == Spec => []OutcomeIsTrue
<1>1. Truthful => OutcomeIsTrue
  <2> SUFFICES ASSUME Truthful, NEW r \in Runs
               PROVE  /\ "completed" \in Announced(r) =>
                           /\ status[r] = "completed" /\ message[r] = "completed"
                           /\ Count(r, "message.completed") = 1
                           /\ \A k \in Calls : tool[r][k] \in {"none", "success"}
                      /\ "failed" \in Announced(r) => status[r] = "failed" /\ message[r] = "failed"
      BY DEF OutcomeIsTrue
  <2>1. Announced(r) = AnnouncedIn(log[r])
        BY DEF Announced, AnnouncedIn
  <2>2. Count(r, "message.completed") = CountIn(log[r], "message.completed")
        BY DEF Count, CountIn
  <2> QED BY <2>1, <2>2 DEF Truthful, OutcomeHolds, CleanTools
<1> QED BY <1>1, TruthfulAlways, PTL

-----------------------------------------------------------------------------
(* When the contract's statuses hold.  RunStatus says what                 *)
(* frontend_contract.md promises of a run; the code keeps it as long as    *)
(* the process is not asked to stop and no run that may be cancelled may   *)
(* also ask for approval: then no UPDATE without a guard (MarkWaiting,     *)
(* Resume, InterruptRun) meets a run that has ended.                       *)

Undisturbed ==
    /\ MaxShutdowns = 0
    /\ "confirm" \notin ToolPolicies \/ "cancel" \notin Requests

\* An event other than the terminal one leaves what a log announces as it is.
LEMMA AnnouncedKept ==
    ASSUME TypeOK, NEW s, NEW type \in EventTypes \ {"run.completed"}, NEW k \in Nat,
           NEW o \in Outcomes, Emit(s, Event(type, k, o)), NEW r \in Runs
    PROVE  AnnouncedIn(log'[r]) = AnnouncedIn(log[r])
<1> DEFINE e == Event(type, k, o)
<1>1. log[r] \in Seq(LogEntry) /\ e \in LogEntry /\ e.type = type
      BY EventType DEF TypeOK, Event
<1>2. log'[r] = Append(log[r], e) \/ log'[r] = log[r]
      BY DEF Emit, TypeOK
<1> HIDE DEF e
<1> QED BY <1>1, <1>2, AnnouncedAppend

LEMMA AnnouncedGrows ==
    ASSUME TypeOK, NEW s \in Runs, NEW o \in Outcomes,
           Emit(s, Event("run.completed", 0, o)), NEW r \in Runs
    PROVE  AnnouncedIn(log'[r]) = AnnouncedIn(log[r]) \cup (IF r = s THEN {o} ELSE {})
<1> DEFINE e == Event("run.completed", 0, o)
<1>1. "run.completed" \in EventTypes
      BY DEF EventTypes
<1>2. log[r] \in Seq(LogEntry) /\ e \in LogEntry /\ e.type = "run.completed" /\ e.outcome = o
      BY <1>1, EventType DEF TypeOK, Event
<1>3. CASE r = s
  <2>1. log'[r] = Append(log[r], e)
        BY <1>3 DEF Emit, TypeOK
  <2> HIDE DEF e
  <2> QED BY <1>2, <1>3, <2>1, AnnouncedAppend
<1>4. CASE r # s
  <2>1. log'[r] = log[r]
        BY <1>4 DEF Emit, TypeOK
  <2> QED BY <1>4, <2>1
<1> QED BY <1>3, <1>4

\* How a handler's step goes on, what it writes to a status and what it announces.
SameEnds == \A r \in Runs : AnnouncedIn(log'[r]) = AnnouncedIn(log[r])
Steps(h) ==
    /\ <<req[h].place, req'[h].place>> \in
         {<<"cancel", "tools">>, <<"tools", "cleanup">>, <<"cleanup", "cleanup">>,
          <<"announce", "announce">>, <<"announce", "cancelled">>, <<"decide", "decided">>,
          <<"cancel", "done">>, <<"decided", "done">>}
    /\ req'[h].place # "done" => req'[h].run = req[h].run
    /\ req'[h].place = "tools" => status[req[h].run] \notin Terminal
    /\ status' = status
    /\ SameEnds
Cancels(h) ==
    /\ req[h].place = "cleanup" /\ req'[h].place = "announce" /\ req'[h].run = req[h].run
    /\ status' = [status EXCEPT ![req[h].run] = "cancelled"]
    /\ SameEnds
Tells(h) ==
    /\ req[h].place = "cancelled" /\ req'[h].place = "done"
    /\ status' = status
    /\ \A r \in Runs : AnnouncedIn(log'[r]) =
         AnnouncedIn(log[r]) \cup (IF r = req[h].run THEN {"cancelled"} ELSE {})

LEMMA HandlerPhase ==
    ASSUME TypeOK, Guarded, NEW h \in Clients, HandlerStep(h)
    PROVE  Steps(h) \/ Cancels(h) \/ Tells(h)
<1> USE DEF rows, loop, locks, host, history
<1>1. req \in [Clients -> Handler] /\ req[h] \in Handler /\ Done.place = "done"
      BY DoneType DEF TypeOK
<1>2. \A k \in Calls : k \in Nat
      BY DEF Calls
<1>3. log' = log => SameEnds
      BY DEF SameEnds
<1>4. ASSUME NEW s, NEW type \in {"permission.resolved", "tool.finished", "error"}, NEW k \in Nat,
             NEW o \in Outcomes, Emit(s, Event(type, k, o))
      PROVE  SameEnds
  <2>1. type \in EventTypes \ {"run.completed"}
        BY DEF EventTypes
  <2> QED BY <1>4, <2>1, AnnouncedKept DEF SameEnds
<1>5. ASSUME NEW x, req' = [req EXCEPT ![h] = x] PROVE req'[h] = x
      BY <1>1, <1>5
<1>6. CASE LockForCancel(h)
  <2>1. CASE status[req[h].run] \in Terminal
    <3>1. req'[h].place = "done"
          BY <1>1, <1>6, <2>1 DEF LockForCancel, Finish
    <3> QED BY <1>3, <1>6, <3>1 DEF LockForCancel, Steps
  <2>2. CASE status[req[h].run] \notin Terminal
    <3>1. req'[h] = [req[h] EXCEPT !.place = "tools", !.perms = Pending(req[h].run)]
          BY <1>1, <1>6, <2>2 DEF LockForCancel
    <3>2. req'[h].place = "tools" /\ req'[h].run = req[h].run
          BY <1>1, <3>1 DEF Handler
    <3> QED BY <1>3, <1>6, <2>2, <3>2 DEF LockForCancel, Steps
  <2> QED BY <2>1, <2>2
<1>7. CASE ReadStartedTools(h)
  <2>1. req'[h] = [req[h] EXCEPT !.place = "cleanup", !.tools = Started(req[h].run)]
        BY <1>1, <1>7 DEF ReadStartedTools
  <2>2. req'[h].place = "cleanup" /\ req'[h].run = req[h].run
        BY <1>1, <2>1 DEF Handler
  <2> QED BY <1>3, <1>7, <2>2 DEF ReadStartedTools, Steps
<1>8. CASE DenyPermission(h)
  <2>1. PICK k : req' = [req EXCEPT ![h] = [req[h] EXCEPT !.perms = @ \ {k}, !.denied = @ \cup {k}]]
        BY <1>8 DEF DenyPermission
  <2>2. req'[h] = [req[h] EXCEPT !.perms = @ \ {k}, !.denied = @ \cup {k}]
        BY <1>5, <2>1
  <2>3. req'[h].place = req[h].place /\ req'[h].run = req[h].run
        BY <1>1, <2>2 DEF Handler
  <2> QED BY <1>3, <1>8, <2>3 DEF DenyPermission, Steps
<1>9. CASE StopTool(h)
  <2>1. PICK k : req' = [req EXCEPT ![h] = [req[h] EXCEPT !.tools = @ \ {k}, !.stopped = @ \cup {k}]]
        BY <1>9 DEF StopTool
  <2>2. req'[h] = [req[h] EXCEPT !.tools = @ \ {k}, !.stopped = @ \cup {k}]
        BY <1>5, <2>1
  <2>3. req'[h].place = req[h].place /\ req'[h].run = req[h].run
        BY <1>1, <2>2 DEF Handler
  <2> QED BY <1>3, <1>9, <2>3 DEF StopTool, Steps
<1>10. CASE CancelRow(h)
  <2>1. req'[h] = [req[h] EXCEPT !.place = "announce"]
        BY <1>1, <1>10 DEF CancelRow
  <2>2. req'[h].place = "announce" /\ req'[h].run = req[h].run
        BY <1>1, <2>1 DEF Handler
  <2> QED BY <1>3, <1>10, <2>2 DEF CancelRow, Cancels
<1>11. CASE EmitDenied(h)
  <2>1. PICK k \in req[h].denied :
            /\ Emit(req[h].run, Event("permission.resolved", k, "denied"))
            /\ req' = [req EXCEPT ![h] = [req[h] EXCEPT !.denied = @ \ {k}]]
        BY <1>11 DEF EmitDenied
  <2>2. req'[h] = [req[h] EXCEPT !.denied = @ \ {k}]
        BY <1>5, <2>1
  <2>3. req'[h].place = req[h].place /\ req'[h].run = req[h].run
        BY <1>1, <2>2 DEF Handler
  <2>4. k \in Nat /\ "denied" \in Outcomes
        BY <1>1, <1>2, <2>1 DEF Handler, Outcomes, Decisions
  <2>5. SameEnds
        BY <1>4, <2>1, <2>4
  <2> QED BY <1>11, <2>3, <2>5 DEF EmitDenied, Steps
<1>12. CASE EmitStopped(h)
  <2>1. PICK k \in req[h].stopped :
            /\ Emit(req[h].run, Event("tool.finished", k, "cancelled"))
            /\ req' = [req EXCEPT ![h] = [req[h] EXCEPT !.stopped = @ \ {k}]]
        BY <1>12 DEF EmitStopped
  <2>2. req'[h] = [req[h] EXCEPT !.stopped = @ \ {k}]
        BY <1>5, <2>1
  <2>3. req'[h].place = req[h].place /\ req'[h].run = req[h].run
        BY <1>1, <2>2 DEF Handler
  <2>4. k \in Nat /\ "cancelled" \in Outcomes
        BY <1>1, <1>2, <2>1 DEF Handler, Outcomes, Terminal
  <2>5. SameEnds
        BY <1>4, <2>1, <2>4
  <2> QED BY <1>12, <2>3, <2>5 DEF EmitStopped, Steps
<1>13. CASE EmitCancelError(h)
  <2>1. req'[h] = [req[h] EXCEPT !.place = "cancelled"]
        BY <1>1, <1>13 DEF EmitCancelError
  <2>2. req'[h].place = "cancelled" /\ req'[h].run = req[h].run
        BY <1>1, <2>1 DEF Handler
  <2>3. SameEnds
        BY <1>4, <1>13 DEF EmitCancelError, Outcomes, Terminal
  <2> QED BY <1>13, <2>2, <2>3 DEF EmitCancelError, Steps
<1>14. CASE EmitCancelled(h)
  <2>1. req'[h].place = "done"
        BY <1>1, <1>14 DEF EmitCancelled, Finish
  <2>2. req[h].run \in Runs /\ "cancelled" \in Outcomes
        BY <1>14 DEF EmitCancelled, Guarded, InFlight, Outcomes, Terminal
  <2>3. Emit(req[h].run, Event("run.completed", 0, "cancelled"))
        BY <1>14 DEF EmitCancelled
  <2>4. \A r \in Runs : AnnouncedIn(log'[r]) =
          AnnouncedIn(log[r]) \cup (IF r = req[h].run THEN {"cancelled"} ELSE {})
        BY <2>2, <2>3, AnnouncedGrows
  <2> QED BY <1>14, <2>1, <2>4 DEF EmitCancelled, Tells
<1>15. CASE Decide(h)
  <2>1. req'[h] = [req[h] EXCEPT !.place = "decided"]
        BY <1>1, <1>15 DEF Decide
  <2>2. req'[h].place = "decided" /\ req'[h].run = req[h].run
        BY <1>1, <2>1 DEF Handler
  <2> QED BY <1>3, <1>15, <2>2 DEF Decide, Steps
<1>16. CASE EmitResolved(h)
  <2>1. req'[h].place = "done"
        BY <1>1, <1>16 DEF EmitResolved, Finish
  <2>2. req[h].call \in Nat /\ req[h].decision \in Outcomes
        BY <1>1 DEF Handler, Outcomes
  <2>3. SameEnds
        BY <1>4, <1>16, <2>2 DEF EmitResolved
  <2> QED BY <1>16, <2>1, <2>3 DEF EmitResolved, Steps
<1> QED BY <1>6, <1>7, <1>8, <1>9, <1>10, <1>11, <1>12, <1>13, <1>14, <1>15, <1>16 DEF HandlerStep

-----------------------------------------------------------------------------
(* What the settings and the bounds keep out for good.                     *)

Asking == {"ask_insert", "ask_mark", "ask_emit", "poll", "resume"}
NoAnswers ==
    /\ \A r \in Runs : task[r] \notin Asking /\ \A k \in Calls : perm[r][k] = "none"
    /\ \A h \in Clients : req[h].place \notin {"decide", "decided"}
NoCancels ==
    /\ \A r \in Runs : ~Cancelled(r) /\ AnnouncedIn(log[r]) \subseteq {"completed", "failed"}
    /\ \A h \in Clients : req[h].place \notin {"cancel"} \cup Cancelling
NoStops ==
    /\ server # "stopping"
    /\ \A r \in Runs : task[r] \notin Interrupting
Absent ==
    /\ "confirm" \notin ToolPolicies => NoAnswers
    /\ "cancel" \notin Requests => NoCancels
    /\ MaxShutdowns = 0 => NoStops

LEMMA NoAnswersStep ==
    ASSUME TypeOK, Approved, Guarded, NoAnswers, "confirm" \notin ToolPolicies, Next
    PROVE  NoAnswers'
<1> USE DEF rows, loop, locks, host, history
<1>0. \A r \in Runs : task[r] \notin Asking /\ \A k \in Calls : perm[r][k] = "none"
      BY DEF NoAnswers
<1>1. ASSUME NEW r \in Runs, TaskStep(r) PROVE NoAnswers'
  <2>1. PICK q : Goes(r, q)
        BY <1>1, TaskStepEffect
  <2>2. (\A s \in Runs \ {r} : Untouched(s)) /\ req' = req
        BY <1>1, TaskStepEffect
  <2>3. task'[r] = q /\ Ways(task[r], q) /\ q # "ask_insert"
        BY <2>1 DEF Goes, Permits
  <2>4. q \notin Asking
        BY <1>0, <2>3 DEF Ways, Asking
  <2>5. perm' = perm
        BY <1>0, <1>1, TaskStepCalls
        DEF Quiet, NextCall, Asks, Denies, Proceeds, Executes, Asking
  <2> QED BY <1>0, <2>2, <2>3, <2>4, <2>5 DEF NoAnswers, Untouched
<1>2. ASSUME NEW h \in Clients, HandlerStep(h) PROVE NoAnswers'
  <2>1. /\ task' = task /\ \A g \in Clients \ {h} : req'[g] = req[g]
        /\ Steps(h) \/ Cancels(h) \/ Tells(h)
        BY <1>2, HandlerLock, HandlerPhase
  <2>2. req'[h].place \notin {"decide", "decided"}
        BY <2>1 DEF NoAnswers, Steps, Cancels, Tells
  <2>3. req[h].perms = {}
    <3>1. req[h].perms \subseteq Calls
          BY DEF TypeOK, Handler
    <3> QED BY <1>0, <3>1 DEF Approved, AnswersWereAsked
  <2>4. req[h].place # "decide"
        BY DEF NoAnswers
  <2>5. perm' = perm
        BY <1>2, <2>3, <2>4 DEF HandlerStep, LockForCancel, ReadStartedTools, DenyPermission,
           StopTool, CancelRow, EmitDenied, EmitStopped, EmitCancelError, EmitCancelled, Decide,
           EmitResolved
  <2> QED BY <2>1, <2>2, <2>5 DEF NoAnswers
<1>3. CASE ClientStep
  <2>1. ASSUME NEW r \in Runs, QueueRun(r) PROVE NoAnswers'
    <3>1. \A s \in Runs : task'[s] \in {task[s], "submit"}
          BY <2>1 DEF QueueRun, Goto, TypeOK
    <3> QED BY <2>1, <3>1 DEF QueueRun, NoAnswers, Asking
  <2>2. ASSUME NEW h \in Clients, NEW r \in Runs, RequestCancel(h, r) PROVE NoAnswers'
    <3>1. req' = [req EXCEPT ![h] = [req[h] EXCEPT !.place = "cancel", !.run = r]]
          BY <2>2 DEF RequestCancel
    <3>2. req[h] \in Handler /\ req'[h] = [req[h] EXCEPT !.place = "cancel", !.run = r]
          BY <3>1 DEF TypeOK
    <3>3. req'[h].place = "cancel" /\ \A g \in Clients \ {h} : req'[g] = req[g]
          BY <3>1, <3>2 DEF TypeOK, Handler
    <3>4. \A g \in Clients : req'[g].place \notin {"decide", "decided"}
          BY <3>3 DEF NoAnswers
    <3>5. task' = task /\ perm' = perm
          BY <2>2 DEF RequestCancel
    <3> QED BY <1>0, <3>4, <3>5 DEF NoAnswers
  <2>3. ASSUME NEW h \in Clients, NEW r \in Runs, NEW k \in Calls, NEW d, RequestResolve(h, r, k, d)
        PROVE  FALSE
        BY <1>0, <2>3 DEF RequestResolve
  <2> QED BY <1>3, <2>1, <2>2, <2>3 DEF ClientStep, SubmitPrompt, RetryRun
<1>4. CASE Shutdown \/ Stopped \/ Crash \/ BootStep
  <2>1. \A r \in Runs : task'[r] \in {task[r], "none", "interrupt", "fetch"}
        BY <1>4 DEF Shutdown, Stopped, Crash, BootStep, RecoverRunning, RecoverWaiting,
           RecoverPermissions, EnqueueQueued, Landing
  <2>2. \A h \in Clients : req'[h].place \in {req[h].place, "done"}
        BY <1>4, DoneType DEF Shutdown, Stopped, Crash, BootStep, RecoverRunning, RecoverWaiting,
           RecoverPermissions, EnqueueQueued
  <2>3. \A r \in Runs, k \in Calls : perm'[r][k] = "none"
    <3>1. CASE RecoverPermissions
          BY <1>0, <3>1 DEF RecoverPermissions
    <3>2. CASE perm' = perm
          BY <1>0, <3>2
    <3> QED BY <1>4, <3>1, <3>2 DEF Shutdown, Stopped, Crash, BootStep, RecoverRunning,
           RecoverWaiting, EnqueueQueued
  <2> QED BY <1>0, <2>1, <2>2, <2>3 DEF NoAnswers, Asking
<1> QED BY <1>1, <1>2, <1>3, <1>4 DEF Next

LEMMA NoCancelsStep ==
    ASSUME TypeOK, Deciding, Guarded, NoCancels, "cancel" \notin Requests, Next
    PROVE  NoCancels'
<1> USE DEF rows, loop, locks, host, history
<1>1. \A r \in Runs : ~Cancelled(r)'
  <2> SUFFICES ASSUME NEW r \in Runs PROVE status'[r] # "cancelled"
      BY DEF Cancelled
  <2>1. status[r] # "cancelled" /\ \A h \in Clients : req[h].place # "cleanup"
        BY DEF NoCancels, Cancelled, Cancelling
  <2>2. ASSUME NEW q, Goes(r, q) PROVE status'[r] # "cancelled"
        BY <2>1, <2>2 DEF Goes, RowsMove, StatusAt
  <2>3. Fate(r)
        BY NextEffect
  <2> QED BY <2>1, <2>2, <2>3 DEF Fate, Untouched, Handled, Submitted, Halted, Recovered, Enqueued,
         Lasting
<1>2. ASSUME NEW h \in Clients PROVE req'[h].place \notin {"cancel"} \cup Cancelling
  <2>0. req[h].place \notin {"cancel"} \cup Cancelling
        BY DEF NoCancels
  <2>1. ASSUME NEW r \in Runs, TaskStep(r) PROVE req' = req
        BY <2>1, TaskStepEffect
  <2>2. ASSUME NEW g \in Clients, HandlerStep(g) PROVE req'[h].place \notin {"cancel"} \cup Cancelling
    <3>1. /\ \A i \in Clients \ {g} : req'[i] = req[i]
          /\ Steps(g) \/ Cancels(g) \/ Tells(g)
          BY <2>2, HandlerLock, HandlerPhase
    <3> QED BY <2>0, <3>1 DEF Steps, Cancels, Tells, Cancelling
  <2>3. CASE ClientStep
    <3>1. ASSUME NEW g \in Clients, NEW r \in Runs, NEW k, NEW d, RequestResolve(g, r, k, d)
          PROVE  req'[h].place \notin {"cancel"} \cup Cancelling
      <4>1. req' = [req EXCEPT ![g] =
                      [req[g] EXCEPT !.place = "decide", !.run = r, !.call = k, !.decision = d]]
            BY <3>1 DEF RequestResolve
      <4>2. /\ req[g] \in Handler
            /\ req'[g] = [req[g] EXCEPT !.place = "decide", !.run = r, !.call = k, !.decision = d]
            BY <4>1 DEF TypeOK
      <4>3. req'[g].place = "decide"
            BY <4>2 DEF Handler
      <4>4. \A i \in Clients \ {g} : req'[i] = req[i]
            BY <4>1 DEF TypeOK
      <4> QED BY <2>0, <4>3, <4>4 DEF Cancelling
    <3> QED BY <2>0, <2>3, <3>1 DEF ClientStep, SubmitPrompt, RetryRun, QueueRun, RequestCancel
  <2>4. CASE Shutdown \/ Stopped \/ Crash \/ BootStep
    <3>1. req'[h].place \in {req[h].place, "done"}
          BY <2>4, DoneType DEF Shutdown, Stopped, Crash, BootStep, RecoverRunning, RecoverWaiting,
             RecoverPermissions, EnqueueQueued
    <3> QED BY <2>0, <3>1 DEF Cancelling
  <2> QED BY <2>0, <2>1, <2>2, <2>3, <2>4 DEF Next
<1>3. ASSUME NEW r \in Runs PROVE AnnouncedIn(log'[r]) \subseteq {"completed", "failed"}
  <2>1. AnnouncedIn(log[r]) \subseteq {"completed", "failed"}
        BY DEF NoCancels
  <2>2. ASSUME NEW s \in Runs, TaskStep(s) PROVE AnnouncedIn(log'[r]) \subseteq {"completed", "failed"}
    <3>1. (\E q : Goes(s, q)) /\ \A x \in Runs \ {s} : Untouched(x)
          BY <2>2, TaskStepEffect
    <3> QED BY <2>1, <3>1 DEF Goes, LogMoves, Untouched
  <2>3. ASSUME NEW h \in Clients, HandlerStep(h)
        PROVE  AnnouncedIn(log'[r]) \subseteq {"completed", "failed"}
    <3>1. req[h].place # "cancelled"
          BY DEF NoCancels, Cancelling
    <3>2. Steps(h) \/ Cancels(h) \/ Tells(h)
          BY <2>3, HandlerPhase
    <3> QED BY <2>1, <3>1, <3>2 DEF Steps, Cancels, Tells, SameEnds
  <2>4. CASE log' = log
        BY <2>1, <2>4
  <2>5. ClientStep \/ Shutdown \/ Stopped \/ Crash \/ BootStep => log' = log
        BY DEF ClientStep, SubmitPrompt, RetryRun, QueueRun, RequestCancel, RequestResolve, Shutdown,
           Stopped, Crash, BootStep, RecoverRunning, RecoverWaiting, RecoverPermissions, EnqueueQueued
  <2> QED BY <2>2, <2>3, <2>4, <2>5 DEF Next
<1> QED BY <1>1, <1>2, <1>3 DEF NoCancels

LEMMA NoStopsStep ==
    ASSUME TypeOK, NoStops, MaxShutdowns = 0, Next
    PROVE  NoStops'
<1> USE DEF rows, loop, locks, host, history, NoStops
<1>1. ASSUME NEW r \in Runs, TaskStep(r) PROVE NoStops'
  <2>1. PICK q : Goes(r, q)
        BY <1>1, TaskStepEffect
  <2>2. (\A s \in Runs \ {r} : Untouched(s)) /\ server' = server
        BY <1>1, TaskStepEffect
  <2>3. task'[r] = q /\ Ways(task[r], q)
        BY <2>1 DEF Goes
  <2>4. q \notin Interrupting
        BY <2>3 DEF Ways, Interrupting
  <2> QED BY <2>2, <2>3, <2>4 DEF Untouched
<1>2. ASSUME NEW h \in Clients, HandlerStep(h) PROVE NoStops'
      BY <1>2, HandlerLock
<1>3. CASE ClientStep
  <2>1. ASSUME NEW r \in Runs, QueueRun(r) PROVE NoStops'
    <3>1. \A s \in Runs : task'[s] \in {task[s], "submit"}
          BY <2>1 DEF QueueRun, Goto, TypeOK
    <3> QED BY <2>1, <3>1 DEF QueueRun, Interrupting
  <2> QED BY <1>3, <2>1 DEF ClientStep, SubmitPrompt, RetryRun, RequestCancel, RequestResolve
<1>4. CASE Shutdown
      BY <1>4 DEF Shutdown, TypeOK
<1>5. CASE Stopped \/ Crash \/ BootStep
  <2>1. \A r \in Runs : task'[r] \in {task[r], "none", "fetch"}
        BY <1>5 DEF Stopped, Crash, BootStep, RecoverRunning, RecoverWaiting,
           RecoverPermissions, EnqueueQueued
  <2>2. server' # "stopping"
        BY <1>5 DEF Stopped, Crash, BootStep, RecoverRunning, RecoverWaiting,
           RecoverPermissions, EnqueueQueued, Boot
  <2> QED BY <2>1, <2>2 DEF Interrupting
<1> QED BY <1>1, <1>2, <1>3, <1>4, <1>5 DEF Next

LEMMA AbsentAlways == Spec => []Absent
<1>1. Init => Absent
  <2> SUFFICES ASSUME Init PROVE NoAnswers /\ NoCancels /\ NoStops
      BY DEF Absent
  <2>1. \A h \in Clients : req[h].place = "idle"
        BY DEF Init, Idle
  <2>2. \A r \in Runs : AnnouncedIn(log[r]) = {}
        BY EmptyLog DEF Init
  <2> QED BY <2>1, <2>2 DEF Init, NoAnswers, NoCancels, NoStops, Asking, Cancelled, Cancelling, Interrupting
<1>2. TypeOK /\ Deciding /\ Approved /\ Guarded /\ Absent /\ [Next]_vars => Absent'
  <2> SUFFICES ASSUME TypeOK, Deciding, Approved, Guarded, Absent, [Next]_vars PROVE Absent'
      OBVIOUS
  <2>1. CASE Next
        BY <2>1, NoAnswersStep, NoCancelsStep, NoStopsStep DEF Absent
  <2>2. CASE UNCHANGED vars
        BY <2>2 DEF vars, rows, loop, locks, host, Absent, NoAnswers, NoCancels, NoStops, Cancelled
  <2> QED BY <2>1, <2>2
<1> QED BY <1>1, <1>2, TypeInvariant, ApprovedAlways, GuardedAlways, PTL DEF Spec

-----------------------------------------------------------------------------
(* What a run's status, its coroutine, its cancellation and its terminal   *)
(* event say of each other then.                                           *)

Paused == {"ask_emit", "poll", "resume"}
Failing == {"tool_fail", "tool_failed", "fail"}
Working == Trying \ (ToBegin \cup Paused \cup Failing \cup Holding \cup {"tool_cancel"})

PlaceFits(r) ==
    /\ task[r] \in ToBegin => status[r] \in {"queued", "cancelled"}
    /\ task[r] \in Working => status[r] \in {"running", "cancelled"}
    /\ task[r] \in Paused => status[r] \in {"waiting_approval", "cancelled"}
    /\ task[r] \in Failing => status[r] \in Active \cup {"cancelled"}
    /\ task[r] \in {"mark", "tool_cancel"} => Cancelled(r)
    /\ task[r] \in {"started", "delta_emit"} => status[r] = "running"
    /\ task[r] = "complete_emit" => status[r] = "completed"
    /\ task[r] \in {"fail_message", "fail_error", "fail_emit"} => status[r] = "failed"
CancelFits(h) ==
    /\ req[h].place \in {"cancel"} \cup Cancelling => status[req[h].run] # "absent"
    /\ req[h].place \in {"tools", "cleanup"} => status[req[h].run] \notin Terminal
    /\ req[h].place \in {"announce", "cancelled"} =>
         Cancelled(req[h].run) /\ "cancelled" \notin AnnouncedIn(log[req[h].run])
EndFits(r) ==
    /\ AnnouncedIn(log[r]) \subseteq {"completed", "failed", "cancelled"}
    /\ AnnouncedIn(log[r]) \subseteq {status[r]}
Fits ==
    /\ \A r \in Runs : PlaceFits(r) /\ EndFits(r)
    /\ \A h \in Clients : CancelFits(h)

LEMMA PlaceFitsGoes ==
    ASSUME NEW r, NEW q, PlaceFits(r), task[r] \notin Interrupting, Goes(r, q)
    PROVE  PlaceFits(r)'
<1>1. /\ task'[r] = q /\ Ways(task[r], q) /\ status'[r] = StatusAt(r, q)
      /\ Permits(r, q)
      BY DEF Goes, RowsMove
<1> USE <1>1 DEF PlaceFits, Permits, Cancelled, StatusAt, Ways, Interrupting
<1>2. q \in ToBegin => status'[r] \in {"queued", "cancelled"}
      BY DEF ToBegin
<1>3. q \in Working => status'[r] \in {"running", "cancelled"}
      BY DEF Working, Trying, Opening, Tooling, Closing, ToBegin, Paused, Failing, Holding, Active
<1>4. q \in Paused => status'[r] \in {"waiting_approval", "cancelled"}
      BY DEF Working, Trying, Opening, Tooling, Closing, ToBegin, Paused, Failing, Holding, Active
<1>5. q \in Failing => status'[r] \in Active \cup {"cancelled"}
      BY DEF Working, Trying, Opening, Tooling, Closing, ToBegin, Paused, Failing, Holding, Active
<1>6. q \in {"mark", "tool_cancel"} => status'[r] = "cancelled"
      OBVIOUS
<1>7. q \in {"started", "delta_emit"} => status'[r] = "running"
      BY DEF Working, Trying, Opening, Tooling, Closing, ToBegin, Paused, Failing, Holding
<1>8. q = "complete_emit" => status'[r] = "completed"
      OBVIOUS
<1>9. q \in {"fail_message", "fail_error", "fail_emit"} => status'[r] = "failed"
      OBVIOUS
<1> QED BY <1>2, <1>3, <1>4, <1>5, <1>6, <1>7, <1>8, <1>9

\* A coroutine's step neither changes the status of a run that has ended nor ends
\* it a second time.
LEMMA EndFitsGoes ==
    ASSUME Absent, Undisturbed, NEW r \in Runs, NEW q, PlaceFits(r), EndFits(r), Goes(r, q)
    PROVE  EndFits(r)'
<1>1. /\ task'[r] = q /\ Ways(task[r], q) /\ status'[r] = StatusAt(r, q) /\ Permits(r, q)
      /\ AnnouncedIn(log'[r]) = AnnouncedIn(log[r]) \cup
           (IF task[r] = "complete_emit" THEN {"completed"}
            ELSE IF task[r] = "fail_emit" THEN {"failed"} ELSE {})
      BY DEF Goes, RowsMove, LogMoves
<1>2. task[r] \notin Interrupting /\ (task[r] \in Asking => ~Cancelled(r))
      BY DEF Absent, Undisturbed, NoStops, NoAnswers, NoCancels
<1>3. CASE AnnouncedIn(log[r]) = {}
  <2>1. task[r] = "complete_emit" => status'[r] = "completed"
        BY <1>1 DEF PlaceFits, StatusAt, Ways
  <2>2. task[r] = "fail_emit" => status'[r] = "failed"
        BY <1>1 DEF PlaceFits, StatusAt, Ways
  <2> QED BY <1>1, <1>3, <2>1, <2>2 DEF EndFits
<1>4. CASE AnnouncedIn(log[r]) # {}
  <2>1. AnnouncedIn(log[r]) = {status[r]} /\ status[r] \in {"completed", "failed", "cancelled"}
        BY <1>4 DEF EndFits
  <2>2. status'[r] = status[r]
        BY <1>1, <1>2, <2>1 DEF StatusAt, Ways, Permits, PlaceFits, Cancelled, Asking, Interrupting,
           Failing, Active, Working, Trying, Opening, Tooling, Closing, ToBegin, Paused, Holding
  <2>3. AnnouncedIn(log'[r]) = AnnouncedIn(log[r])
        BY <1>1, <2>1 DEF PlaceFits
  <2> QED BY <2>2, <2>3 DEF EndFits
<1> QED BY <1>3, <1>4

LEMMA FitsTask ==
    ASSUME TypeOK, Absent, Undisturbed, Guarded, Fits, NEW r \in Runs, TaskStep(r)
    PROVE  Fits'
<1>1. PICK q : Goes(r, q)
      BY TaskStepEffect
<1>2. (\A s \in Runs \ {r} : Untouched(s)) /\ req' = req
      BY TaskStepEffect
<1>3. PlaceFits(r) /\ EndFits(r) /\ task[r] \notin Interrupting /\ (task[r] \in Asking => ~Cancelled(r))
      BY DEF Fits, Absent, Undisturbed, NoStops, NoAnswers, NoCancels
<1>4. PlaceFits(r)' /\ EndFits(r)'
      BY <1>1, <1>3, PlaceFitsGoes, EndFitsGoes
<1>5. ASSUME NEW s \in Runs \ {r} PROVE PlaceFits(s)' /\ EndFits(s)'
      BY <1>2 DEF Fits, PlaceFits, EndFits, Untouched, Cancelled
<1>6. /\ task'[r] = q /\ Ways(task[r], q) /\ status'[r] = StatusAt(r, q) /\ LockMoves(r, q)
      /\ AnnouncedIn(log'[r]) = AnnouncedIn(log[r]) \cup
           (IF task[r] = "complete_emit" THEN {"completed"}
            ELSE IF task[r] = "fail_emit" THEN {"failed"} ELSE {})
      BY <1>1 DEF Goes, RowsMove, LogMoves
<1>7. ASSUME NEW h \in Clients PROVE CancelFits(h)'
  <2>0. CancelFits(h) /\ req'[h] = req[h]
        BY <1>2 DEF Fits
  <2>1. CASE req[h].run = r /\ req[h].place \in Cancelling
    <3>1. eventLock[r] = h /\ h # r /\ h # Nobody
          BY <2>1, RunAssumption DEF Guarded, CancelHolds
    <3>2. task[r] \notin Holding \cup Seeking
          BY <1>6, <3>1 DEF Guarded, LockMoves
    <3>3. AnnouncedIn(log'[r]) = AnnouncedIn(log[r])
          BY <1>6, <3>2 DEF Holding
    <3>4. status[r] \notin Terminal => status'[r] \notin Terminal
          BY <1>3, <1>6, <3>2 DEF StatusAt, Ways, Holding, Seeking, Interrupting, Terminal
    <3>5. status[r] = "cancelled" => status'[r] = "cancelled"
          BY <1>3, <1>6, <3>2 DEF StatusAt, Ways, Holding, Seeking, Interrupting, Asking, Cancelled
    <3>6. status[r] # "absent" => status'[r] # "absent"
          BY <1>6 DEF StatusAt
    <3> QED BY <2>0, <2>1, <3>3, <3>4, <3>5, <3>6 DEF CancelFits, Cancelled
  <2>2. CASE req[h].run = r /\ req[h].place \notin Cancelling
    <3>1. status[r] # "absent" => status'[r] # "absent"
          BY <1>6 DEF StatusAt
    <3> QED BY <2>0, <2>2, <3>1 DEF CancelFits, Cancelling
  <2>3. CASE req[h].run # r
    <3>1. req[h].place \in {"cancel"} \cup Cancelling => Untouched(req[h].run)
          BY <1>2, <2>3 DEF Guarded, InFlight, Cancelling
    <3> QED BY <2>0, <3>1 DEF CancelFits, Cancelled, Untouched, Cancelling
  <2> QED BY <2>1, <2>2, <2>3
<1> QED BY <1>4, <1>5, <1>7 DEF Fits

LEMMA FitsHandler ==
    ASSUME TypeOK, Guarded, Fits, NEW h \in Clients, HandlerStep(h)
    PROVE  Fits'
<1>1. /\ InFlight(h) /\ task' = task
      /\ \A g \in Clients \ {h} : req'[g] = req[g]
      BY HandlerLock
<1>2. Steps(h) \/ Cancels(h) \/ Tells(h)
      BY HandlerPhase
<1>3. req[h].run \in Runs /\ CancelFits(h) /\ (req[h].place \in Cancelling => CancelHolds(h))
      BY <1>1 DEF Guarded, Fits
<1>4. CASE Steps(h)
  <2>1. \A r \in Runs : PlaceFits(r)' /\ EndFits(r)'
        BY <1>1, <1>4 DEF Fits, Steps, SameEnds, PlaceFits, EndFits, Cancelled
  <2>2. \A g \in Clients \ {h} : CancelFits(g)'
        BY <1>1, <1>4 DEF Fits, Guarded, CancelFits, InFlight, Steps, SameEnds, Cancelling, Cancelled
  <2>3. CancelFits(h)'
    <3>1. req'[h].place \in {"cancel"} \cup Cancelling =>
            req[h].place \in {"cancel"} \cup Cancelling /\ req'[h].run = req[h].run
          BY <1>4 DEF Steps, Cancelling
    <3>2. /\ req'[h].place = "cleanup" => req[h].place \in {"tools", "cleanup"}
          /\ req'[h].place \in {"announce", "cancelled"} => req[h].place = "announce"
          BY <1>4 DEF Steps
    <3> QED BY <1>3, <1>4, <3>1, <3>2 DEF Steps, SameEnds, CancelFits, Cancelling, Cancelled
  <2> QED BY <2>1, <2>2, <2>3 DEF Fits
<1>5. ASSUME NEW g \in Clients \ {h}, req[g].place \in Cancelling, req[h].place \in Cancelling
      PROVE  req[g].run # req[h].run
      BY <1>3, <1>5 DEF Guarded, CancelHolds
<1>6. ASSUME req[h].place \in Cancelling PROVE task[req[h].run] \notin Holding
      BY <1>3, <1>6, RunAssumption DEF Guarded, CancelHolds
<1>7. CASE Cancels(h)
  <2> DEFINE r == req[h].run
  <2>1. r \in Runs /\ status[r] \notin Terminal /\ req[h].place \in Cancelling
        BY <1>3, <1>7 DEF Cancels, CancelFits, Cancelling
  <2>2. AnnouncedIn(log[r]) = {}
        BY <2>1 DEF Fits, EndFits, Terminal
  <2>3. status'[r] = "cancelled" /\ \A s \in Runs \ {r} : status'[s] = status[s]
        BY <1>7, <2>1 DEF Cancels, TypeOK
  <2>4. task[r] \notin Holding
        BY <1>6, <2>1
  <2>5. \A s \in Runs : EndFits(s)'
        BY <1>7, <2>2, <2>3 DEF Fits, EndFits, Cancels, SameEnds
  <2>6. \A s \in Runs : PlaceFits(s)'
        BY <1>1, <2>3, <2>4 DEF Fits, PlaceFits, Cancelled, Holding
  <2>7. ASSUME NEW g \in Clients \ {h} PROVE CancelFits(g)'
    <3>0. req'[g] = req[g] /\ CancelFits(g) /\ (req[g].place \in {"cancel"} \cup Cancelling => req[g].run \in Runs)
          BY <1>1 DEF Fits, Guarded, InFlight, Cancelling
    <3>1. req[g].place \in Cancelling => req[g].run # r
          BY <1>5, <2>1
    <3>2. \A s \in Runs : AnnouncedIn(log'[s]) = AnnouncedIn(log[s])
          BY <1>7 DEF Cancels, SameEnds
    <3> QED BY <2>3, <3>0, <3>1, <3>2 DEF CancelFits, Cancelling, Cancelled
  <2>8. CancelFits(h)'
        BY <1>7, <2>1, <2>2, <2>3 DEF Cancels, SameEnds, CancelFits, Cancelling, Cancelled
  <2> QED BY <2>5, <2>6, <2>7, <2>8 DEF Fits
<1>8. CASE Tells(h)
  <2> DEFINE r == req[h].run
  <2>1. r \in Runs /\ status[r] = "cancelled" /\ req[h].place \in Cancelling
        BY <1>3, <1>8 DEF Tells, CancelFits, Cancelling, Cancelled
  <2>2. /\ AnnouncedIn(log'[r]) = AnnouncedIn(log[r]) \cup {"cancelled"}
        /\ \A s \in Runs \ {r} : AnnouncedIn(log'[s]) = AnnouncedIn(log[s])
        BY <1>8, <2>1 DEF Tells
  <2>3. \A s \in Runs : EndFits(s)'
        BY <1>8, <2>1, <2>2 DEF Fits, EndFits, Tells
  <2>4. \A s \in Runs : PlaceFits(s)'
        BY <1>1, <1>8 DEF Fits, PlaceFits, Cancelled, Tells
  <2>5. ASSUME NEW g \in Clients \ {h} PROVE CancelFits(g)'
    <3>0. req'[g] = req[g] /\ CancelFits(g) /\ (req[g].place \in {"cancel"} \cup Cancelling => req[g].run \in Runs)
          BY <1>1 DEF Fits, Guarded, InFlight, Cancelling
    <3>1. req[g].place \in Cancelling => req[g].run # r
          BY <1>5, <2>1
    <3> QED BY <1>8, <2>2, <3>0, <3>1 DEF CancelFits, Cancelling, Cancelled, Tells
  <2>6. CancelFits(h)'
        BY <1>8 DEF Tells, CancelFits, Cancelling
  <2> QED BY <2>3, <2>4, <2>5, <2>6 DEF Fits
<1> QED BY <1>2, <1>4, <1>7, <1>8

LEMMA FitsClient ==
    ASSUME TypeOK, Guarded, Fits, ClientStep
    PROVE  Fits'
<1> USE DEF rows, loop, locks, host, history
<1>1. ASSUME NEW q \in Runs, QueueRun(q) PROVE Fits'
  <2>1. /\ status[q] = "absent" /\ status'[q] = "queued" /\ task'[q] = "submit"
        /\ \A s \in Runs \ {q} : status'[s] = status[s] /\ task'[s] = task[s]
        /\ log' = log /\ req' = req
        BY <1>1 DEF QueueRun, Goto, TypeOK
  <2>2. AnnouncedIn(log[q]) = {}
        BY <2>1 DEF Fits, EndFits
  <2>3. EndFits(q)' /\ PlaceFits(q)'
        BY <2>1, <2>2 DEF EndFits, PlaceFits, Working, ToBegin, Paused, Failing, Trying, Opening,
           Tooling, Closing
  <2>4. \A s \in Runs \ {q} : EndFits(s)' /\ PlaceFits(s)'
        BY <2>1 DEF Fits, EndFits, PlaceFits, Cancelled
  <2>5. ASSUME NEW h \in Clients PROVE CancelFits(h)'
    <3>1. CancelFits(h) /\ (req[h].place \in {"cancel"} \cup Cancelling => req[h].run \in Runs \ {q})
          BY <2>1 DEF Fits, CancelFits, Guarded, InFlight, Cancelling
    <3> QED BY <2>1, <3>1 DEF CancelFits, Cancelled, Cancelling
  <2> QED BY <2>3, <2>4, <2>5 DEF Fits
<1>2. ASSUME NEW h \in Clients, CancelFits(h)', \A g \in Clients \ {h} : req'[g] = req[g],
             UNCHANGED <<rows, log, task>>
      PROVE  Fits'
      BY <1>2 DEF Fits, PlaceFits, EndFits, CancelFits, Cancelled
<1>3. ASSUME NEW h \in Clients, NEW r \in Runs, RequestCancel(h, r) PROVE Fits'
  <2>1. req' = [req EXCEPT ![h] = [req[h] EXCEPT !.place = "cancel", !.run = r]]
        BY <1>3 DEF RequestCancel
  <2>2. req'[h] = [req[h] EXCEPT !.place = "cancel", !.run = r] /\ req[h] \in Handler
        BY <2>1 DEF TypeOK
  <2>3. req'[h].place = "cancel" /\ req'[h].run = r
        BY <2>2 DEF Handler
  <2>4. \A g \in Clients \ {h} : req'[g] = req[g]
        BY <2>1 DEF TypeOK
  <2>5. CancelFits(h)'
        BY <1>3, <2>3 DEF RequestCancel, CancelFits
  <2> QED BY <1>2, <1>3, <2>4, <2>5 DEF RequestCancel
<1>4. ASSUME NEW h \in Clients, NEW r \in Runs, NEW k, NEW d, RequestResolve(h, r, k, d)
      PROVE  Fits'
  <2>1. req' = [req EXCEPT ![h] =
                  [req[h] EXCEPT !.place = "decide", !.run = r, !.call = k, !.decision = d]]
        BY <1>4 DEF RequestResolve
  <2>2. /\ req'[h] = [req[h] EXCEPT !.place = "decide", !.run = r, !.call = k, !.decision = d]
        /\ req[h] \in Handler
        BY <2>1 DEF TypeOK
  <2>3. req'[h].place = "decide"
        BY <2>2 DEF Handler
  <2>4. \A g \in Clients \ {h} : req'[g] = req[g]
        BY <2>1 DEF TypeOK
  <2>5. CancelFits(h)'
        BY <2>3 DEF CancelFits, Cancelling
  <2> QED BY <1>2, <1>4, <2>4, <2>5 DEF RequestResolve
<1> QED BY <1>1, <1>3, <1>4 DEF ClientStep, SubmitPrompt, RetryRun

LEMMA FitsServer ==
    ASSUME TypeOK, Guarded, Fits, BootIsIdle, Absent, Undisturbed,
           Shutdown \/ Stopped \/ Crash \/ BootStep
    PROVE  Fits'
<1> USE DEF rows, loop, locks, host, history
<1>1. ~Shutdown /\ server # "stopping"
      BY DEF Shutdown, Undisturbed, Absent, NoStops, TypeOK
<1>2. Crash \/ BootStep
      BY <1>1 DEF Stopped
<1>3. ASSUME NEW h \in Clients PROVE CancelFits(h)'
  <2>1. req'[h].place \notin {"cancel"} \cup Cancelling
    <3>1. CASE Crash
          BY <3>1, DoneType DEF Crash, InFlight, Cancelling
    <3>2. CASE BootStep
          BY <3>2 DEF BootStep, RecoverRunning, RecoverWaiting, RecoverPermissions, EnqueueQueued, Boot,
             Guarded, InFlight, Cancelling
    <3> QED BY <1>2, <3>1, <3>2
  <2> QED BY <2>1 DEF CancelFits, Cancelling
<1>4. ASSUME NEW r \in Runs PROVE PlaceFits(r)' /\ EndFits(r)'
  <2>1. PlaceFits(r) /\ EndFits(r)
        BY DEF Fits
  <2>2. "none" \notin ToBegin \cup Working \cup Paused \cup Failing
        BY DEF ToBegin, Working, Paused, Failing, Trying, Opening, Tooling, Closing
  <2>3. CASE Crash
    <3>1. task'[r] = "none" /\ status' = status /\ log' = log
          BY <2>3 DEF Crash
    <3> QED BY <2>1, <2>2, <3>1 DEF PlaceFits, EndFits
  <2>4. CASE RecoverRunning \/ RecoverWaiting \/ RecoverPermissions
    <3>1. /\ task'[r] = "none" /\ log' = log
          /\ status'[r] = status[r] \/ status[r] \in Active
          BY <2>4 DEF RecoverRunning, RecoverWaiting, RecoverPermissions, Boot, BootIsIdle, Active
    <3>2. status[r] \in Active => AnnouncedIn(log[r]) = {}
          BY <2>1 DEF EndFits, Active
    <3> QED BY <2>1, <2>2, <3>1, <3>2 DEF PlaceFits, EndFits
  <2>5. CASE EnqueueQueued
    <3>1. /\ status' = status /\ log' = log
          /\ task'[r] = IF status[r] = "queued" THEN "fetch" ELSE "none"
          BY <2>5 DEF EnqueueQueued
    <3>2. "fetch" \notin Working \cup Paused \cup Failing
          BY DEF ToBegin, Working, Paused, Failing
    <3> QED BY <2>1, <2>2, <3>1, <3>2 DEF PlaceFits, EndFits
  <2> QED BY <1>2, <2>3, <2>4, <2>5 DEF BootStep
<1> QED BY <1>3, <1>4 DEF Fits

LEMMA FitsAlways == ASSUME Undisturbed PROVE Spec => []Fits
<1>1. Init => Fits
  <2> SUFFICES ASSUME Init PROVE Fits
      OBVIOUS
  <2>1. ASSUME NEW r \in Runs PROVE PlaceFits(r) /\ EndFits(r)
    <3>1. task[r] = "none" /\ log[r] = <<>>
          BY DEF Init
    <3>2. AnnouncedIn(log[r]) = {}
          BY <3>1, EmptyLog
    <3> QED BY <3>1, <3>2 DEF PlaceFits, EndFits, ToBegin, Working, Paused, Failing, Trying, Opening,
               Tooling, Closing
  <2>2. \A h \in Clients : req[h].place = "idle"
        BY DEF Init, Idle
  <2> QED BY <2>1, <2>2 DEF Fits, CancelFits, Cancelling
<1>2. TypeOK /\ Absent /\ Guarded /\ Settled /\ Fits /\ [Next]_vars => Fits'
  <2> SUFFICES ASSUME TypeOK, Absent, Guarded, Settled, Fits, [Next]_vars PROVE Fits'
      OBVIOUS
  <2>1. CASE Next
        BY <2>1, FitsTask, FitsHandler, FitsClient, FitsServer DEF Next, Settled
  <2>2. CASE UNCHANGED vars
        BY <2>2 DEF vars, rows, loop, locks, host, Fits, PlaceFits, EndFits, CancelFits, Cancelled
  <2> QED BY <2>1, <2>2
<1> QED BY <1>1, <1>2, TypeInvariant, AbsentAlways, GuardedAlways, SettledAlways, PTL DEF Spec

-----------------------------------------------------------------------------
(* The refinement: each step of the detailed model is a step of the        *)
(* promise or leaves what it speaks of as it is.                           *)

LEMMA AnnouncedAsStatus ==
    ASSUME NEW r, EndFits(r)
    PROVE  AnnouncedAs(r) = IF AnnouncedIn(log[r]) = {} THEN "none" ELSE status[r]
<1>1. Announced(r) = AnnouncedIn(log[r])
      BY DEF Announced, AnnouncedIn
<1>2. AnnouncedIn(log[r]) \subseteq {status[r]}
      BY DEF EndFits
<1>3. CASE AnnouncedIn(log[r]) = {}
      BY <1>1, <1>3 DEF AnnouncedAs
<1>4. CASE AnnouncedIn(log[r]) # {}
  <2>1. AnnouncedIn(log[r]) = {status[r]}
        BY <1>2, <1>4
  <2> QED BY <1>1, <1>4, <2>1 DEF AnnouncedAs
<1> QED BY <1>3, <1>4

LEMMA AnnouncedAsKept ==
    ASSUME NEW r, AnnouncedIn(log'[r]) = AnnouncedIn(log[r])
    PROVE  AnnouncedAs(r)' = AnnouncedAs(r)
<1>1. Announced(r) = AnnouncedIn(log[r]) /\ Announced(r)' = AnnouncedIn(log'[r])
      BY DEF Announced, AnnouncedIn
<1> QED BY <1>1 DEF AnnouncedAs

LEMMA NothingAnnounced ==
    ASSUME SameEnds
    PROVE  [r \in Runs |-> AnnouncedAs(r)]' = [r \in Runs |-> AnnouncedAs(r)]
<1>1. \A r \in Runs : AnnouncedAs(r)' = AnnouncedAs(r)
      BY AnnouncedAsKept DEF SameEnds
<1> QED BY <1>1

LEMMA OneAnnounced ==
    ASSUME NEW r \in Runs, EndFits(r), EndFits(r)', status' = status,
           AnnouncedIn(log[r]) \subseteq AnnouncedIn(log'[r]),
           \A s \in Runs \ {r} : AnnouncedIn(log'[s]) = AnnouncedIn(log[s])
    PROVE  Promise!Announce(r) \/ UNCHANGED Promise!vars
<1>1. CASE AnnouncedIn(log'[r]) = AnnouncedIn(log[r])
      BY <1>1, NothingAnnounced DEF SameEnds, Promise!vars
<1>2. CASE AnnouncedIn(log'[r]) # AnnouncedIn(log[r])
  <2>1. AnnouncedIn(log'[r]) = {status[r]} /\ AnnouncedIn(log[r]) = {}
        BY <1>2 DEF EndFits
  <2>2. status[r] \in {"completed", "failed", "cancelled"}
        BY <2>1 DEF EndFits
  <2>3. AnnouncedAs(r) = "none" /\ AnnouncedAs(r)' = status[r]
    <3>1. Announced(r) = {} /\ Announced(r)' = {status[r]}
          BY <2>1 DEF Announced, AnnouncedIn
    <3> QED BY <3>1 DEF AnnouncedAs
  <2>4. \A s \in Runs \ {r} : AnnouncedAs(s)' = AnnouncedAs(s)
        BY AnnouncedAsKept
  <2>5. [s \in Runs |-> AnnouncedAs(s)]' = [[s \in Runs |-> AnnouncedAs(s)] EXCEPT ![r] = status[r]]
        BY <2>3, <2>4
  <2> QED BY <2>2, <2>3, <2>5 DEF Promise!Announce, Promise!Ended
<1> QED BY <1>1, <1>2

LEMMA OneMoves ==
    ASSUME TypeOK, NEW r \in Runs, NEW from, NEW to, status[r] \in from, status'[r] = to,
           status' \in [Runs -> {"absent", "queued"} \cup Active \cup Terminal],
           \A s \in Runs \ {r} : status'[s] = status[s], SameEnds
    PROVE  Promise!Move(r, from, to)
<1>1. status' = [status EXCEPT ![r] = to]
      BY DEF TypeOK
<1> QED BY <1>1, NothingAnnounced DEF Promise!Move

LEMMA TaskKeepsPromise ==
    ASSUME TypeOK, TypeOK', Absent, Undisturbed, Serialised, Fits, Fits', NEW r \in Runs, TaskStep(r)
    PROVE  [Promise!Next]_(Promise!vars)
<1>1. PICK q : Goes(r, q)
      BY TaskStepEffect
<1>2. \A s \in Runs \ {r} : Untouched(s)
      BY TaskStepEffect
<1>3. PlaceFits(r) /\ EndFits(r) /\ EndFits(r)'
      BY DEF Fits
<1>4. task[r] \notin Interrupting /\ (task[r] \in Asking => ~Cancelled(r))
      BY DEF Absent, Undisturbed, NoStops, NoAnswers, NoCancels
<1>5. /\ task'[r] = q /\ Ways(task[r], q) /\ status'[r] = StatusAt(r, q) /\ Permits(r, q)
      /\ AnnouncedIn(log'[r]) = AnnouncedIn(log[r]) \cup
           (IF task[r] = "complete_emit" THEN {"completed"}
            ELSE IF task[r] = "fail_emit" THEN {"failed"} ELSE {})
      BY <1>1 DEF Goes, RowsMove, LogMoves
<1>6. /\ status' \in [Runs -> {"absent", "queued"} \cup Active \cup Terminal]
      /\ \A s \in Runs \ {r} : status'[s] = status[s] /\ AnnouncedIn(log'[s]) = AnnouncedIn(log[s])
      BY <1>2 DEF TypeOK, Untouched
<1>7. ASSUME task[r] \notin {"complete_emit", "fail_emit"} PROVE SameEnds
      BY <1>5, <1>6, <1>7 DEF SameEnds
<1>8. ASSUME NEW from, NEW to, task[r] \notin {"complete_emit", "fail_emit"}, status[r] \in from,
             status'[r] = to
      PROVE  Promise!Move(r, from, to)
      BY <1>6, <1>7, <1>8, OneMoves
<1>9. CASE q = "started"
  <2>1. task[r] = "start" /\ status[r] = "queued" /\ status'[r] = "running"
        BY <1>3, <1>5, <1>9 DEF Ways, Permits, PlaceFits, ToBegin, StatusAt, Cancelled
  <2>2. Promise!Move(r, {"queued"}, "running")
        BY <1>8, <2>1
  <2>3. ASSUME NEW s \in Runs, ConvOf[s] = ConvOf[r] PROVE status[s] \notin Active
    <3>1. server = "up" /\ convLock[ConvOf[r]] = r
          BY <2>1 DEF Serialised, OnlyInterruptsAfterStop, BodyHoldsLock, InBody, Trying, Opening,
             Interrupting
    <3> QED BY <2>1, <2>3, <3>1 DEF Serialised, ActiveHoldsLock, Active
  <2>4. Promise!Start(r)
        BY <2>2, <2>3 DEF Promise!Start, Promise!Busy, Active
  <2> QED BY <2>4 DEF Promise!Next
<1>10. CASE q = "ask_emit"
  <2>1. task[r] = "ask_mark" /\ status[r] = "running" /\ status'[r] = "waiting_approval"
        BY <1>3, <1>4, <1>5, <1>10 DEF Ways, PlaceFits, StatusAt, Cancelled, Asking, Working, ToBegin,
           Paused, Failing, Holding, Trying, Tooling
  <2>2. Promise!Pause(r)
        BY <1>8, <2>1 DEF Promise!Pause
  <2> QED BY <2>2 DEF Promise!Next
<1>11. CASE q = "execute" /\ task[r] = "resume"
  <2>1. status[r] = "waiting_approval" /\ status'[r] = "running"
        BY <1>3, <1>4, <1>5, <1>11 DEF PlaceFits, StatusAt, Cancelled, Asking, Paused
  <2>2. Promise!Resume(r)
        BY <1>8, <1>11, <2>1 DEF Promise!Resume
  <2> QED BY <2>2 DEF Promise!Next
<1>12. CASE q = "complete_emit"
  <2>1. task[r] = "complete" /\ status[r] = "running" /\ status'[r] = "completed"
        BY <1>3, <1>5, <1>12 DEF Ways, PlaceFits, Permits, StatusAt, Cancelled, Working, ToBegin,
           Paused, Failing, Holding, Trying, Closing
  <2>2. Promise!Complete(r)
        BY <1>8, <2>1 DEF Promise!Complete
  <2> QED BY <2>2 DEF Promise!Next
<1>13. CASE q = "fail_message"
  <2>1. task[r] = "fail" /\ status[r] \in Active /\ status'[r] = "failed"
        BY <1>3, <1>5, <1>13 DEF Ways, PlaceFits, Permits, StatusAt, Cancelled, Failing
  <2>2. Promise!Fail(r)
        BY <1>8, <2>1 DEF Promise!Fail, Promise!Busy, Active
  <2> QED BY <2>2 DEF Promise!Next
<1>14. CASE status'[r] = status[r]
  <2>1. status' = status
        BY <1>6, <1>14 DEF TypeOK
  <2>2. Promise!Announce(r) \/ UNCHANGED Promise!vars
        BY <1>3, <1>5, <1>6, <2>1, OneAnnounced
  <2> QED BY <2>2 DEF Promise!Next
<1>15. q # "interrupt_message"
      BY <1>4, <1>5 DEF Ways, Interrupting
<1> QED BY <1>5, <1>9, <1>10, <1>11, <1>12, <1>13, <1>14, <1>15 DEF StatusAt

LEMMA HandlerKeepsPromise ==
    ASSUME TypeOK, TypeOK', Guarded, Fits, Fits', NEW h \in Clients, HandlerStep(h)
    PROVE  [Promise!Next]_(Promise!vars)
<1>1. InFlight(h) /\ (Steps(h) \/ Cancels(h) \/ Tells(h))
      BY HandlerLock, HandlerPhase
<1>2. req[h].run \in Runs /\ CancelFits(h)
      BY <1>1 DEF Guarded, Fits
<1>3. CASE Steps(h)
      BY <1>3, NothingAnnounced DEF Steps, Promise!vars
<1>4. CASE Cancels(h)
  <2> DEFINE r == req[h].run
  <2>1. status[r] # "absent" /\ status[r] \notin Terminal
        BY <1>2, <1>4 DEF Cancels, CancelFits, Cancelling
  <2>2. status[r] \in {"queued"} \cup Promise!Busy
        BY <1>2, <2>1 DEF TypeOK, Active, Promise!Busy
  <2>3. status'[r] = "cancelled" /\ \A s \in Runs \ {r} : status'[s] = status[s]
        BY <1>2, <1>4 DEF Cancels, TypeOK
  <2>4. SameEnds /\ status' \in [Runs -> {"absent", "queued"} \cup Active \cup Terminal]
        BY <1>4 DEF Cancels, TypeOK
  <2> HIDE DEF r
  <2>5. r \in Runs
        BY <1>2 DEF r
  <2>6. Promise!Move(r, {"queued"} \cup Promise!Busy, "cancelled")
        BY <2>2, <2>3, <2>4, <2>5, OneMoves
  <2>7. Promise!Cancel(r)
        BY <2>6 DEF Promise!Cancel
  <2> QED BY <2>5, <2>7 DEF Promise!Next
<1>5. CASE Tells(h)
  <2>1. PICK r \in Runs : r = req[h].run
        BY <1>2
  <2>2. /\ EndFits(r) /\ EndFits(r)' /\ status' = status
        /\ AnnouncedIn(log[r]) \subseteq AnnouncedIn(log'[r])
        /\ \A s \in Runs \ {r} : AnnouncedIn(log'[s]) = AnnouncedIn(log[s])
        BY <1>5, <2>1 DEF Tells, Fits
  <2>3. Promise!Announce(r) \/ UNCHANGED Promise!vars
        BY <2>2, OneAnnounced
  <2> QED BY <2>3 DEF Promise!Next
<1> QED BY <1>1, <1>3, <1>4, <1>5

LEMMA ClientKeepsPromise ==
    ASSUME TypeOK, TypeOK', ClientStep
    PROVE  [Promise!Next]_(Promise!vars)
<1> USE DEF rows, loop, locks, host, history
<1>1. log' = log
      BY DEF ClientStep, SubmitPrompt, RetryRun, QueueRun, RequestCancel, RequestResolve
<1>2. SameEnds
      BY <1>1 DEF SameEnds
<1>3. ASSUME NEW r \in Runs, QueueRun(r) PROVE Promise!Submit(r)
  <2>1. /\ status[r] \in {"absent"} /\ status'[r] = "queued"
        /\ \A s \in Runs \ {r} : status'[s] = status[s]
        BY <1>3 DEF QueueRun, TypeOK
  <2>2. status' \in [Runs -> {"absent", "queued"} \cup Active \cup Terminal]
        BY DEF TypeOK
  <2>3. Promise!Move(r, {"absent"}, "queued")
        BY <1>2, <2>1, <2>2, OneMoves
  <2> QED BY <2>3 DEF Promise!Submit
<1>4. (\E r \in Runs : QueueRun(r)) \/ status' = status
      BY DEF ClientStep, SubmitPrompt, RetryRun, RequestCancel, RequestResolve
<1>5. CASE status' = status
      BY <1>2, <1>5, NothingAnnounced DEF Promise!vars
<1> QED BY <1>3, <1>4, <1>5 DEF Promise!Next

LEMMA ServerKeepsPromise ==
    ASSUME TypeOK, Absent, Undisturbed, Shutdown \/ Stopped \/ Crash \/ BootStep
    PROVE  [Promise!Next]_(Promise!vars)
<1> USE DEF rows, loop, locks, host, history
<1>1. log' = log
      BY DEF Shutdown, Stopped, Crash, BootStep, RecoverRunning, RecoverWaiting, RecoverPermissions,
         EnqueueQueued
<1>2. [r \in Runs |-> AnnouncedAs(r)]' = [r \in Runs |-> AnnouncedAs(r)]
      BY <1>1, NothingAnnounced DEF SameEnds
<1>3. ASSUME NEW s \in Active,
             status' = [r \in Runs |-> IF status[r] = s THEN "interrupted" ELSE status[r]]
      PROVE  Promise!Next
  <2> DEFINE R == {r \in Runs : status[r] = s}
  <2>1. Promise!Interrupt(R)
        BY <1>2, <1>3 DEF Promise!Interrupt, Promise!Busy, Active
  <2> QED BY <2>1 DEF Promise!Next
<1>4. CASE RecoverRunning
      BY <1>3, <1>4 DEF RecoverRunning, Active
<1>5. CASE RecoverWaiting
      BY <1>3, <1>5 DEF RecoverWaiting, Active
<1>6. CASE Shutdown \/ Stopped \/ Crash \/ RecoverPermissions \/ EnqueueQueued
  <2>1. status' = status
        BY <1>6 DEF Shutdown, Stopped, Crash, RecoverPermissions, EnqueueQueued
  <2> QED BY <1>2, <2>1 DEF Promise!vars
<1> QED BY <1>4, <1>5, <1>6 DEF BootStep

\* As long as the process is not asked to stop, and no run that may ask for approval may be
\* cancelled, what RunManager writes and announces of its runs is what the contract
\* promises, across crashes and recovery.
THEOREM RunsKeepPromise ==
    ASSUME Undisturbed
    PROVE  Spec => ImplementsRunStatus
<1>1. Init => Promise!Init
  <2> SUFFICES ASSUME Init PROVE Promise!Init
      OBVIOUS
  <2>1. status = [r \in Runs |-> "absent"]
        BY DEF Init
  <2>2. ASSUME NEW r \in Runs PROVE AnnouncedAs(r) = "none"
    <3>1. log[r] = <<>>
          BY DEF Init
    <3>2. Announced(r) = {}
          BY <3>1, EmptyLog DEF Announced, AnnouncedIn
    <3> QED BY <3>2 DEF AnnouncedAs
  <2> QED BY <2>1, <2>2 DEF Promise!Init
<1>2. /\ TypeOK /\ TypeOK' /\ Absent /\ Guarded /\ Serialised /\ Fits /\ Fits'
      /\ [Next]_vars
      => [Promise!Next]_(Promise!vars)
  <2> SUFFICES ASSUME TypeOK, TypeOK', Absent, Guarded, Serialised, Fits, Fits', [Next]_vars
               PROVE  [Promise!Next]_(Promise!vars)
      OBVIOUS
  <2>1. CASE Next
        BY <2>1, TaskKeepsPromise, HandlerKeepsPromise, ClientKeepsPromise, ServerKeepsPromise DEF Next
  <2>2. CASE UNCHANGED vars
    <3>1. status' = status /\ SameEnds
          BY <2>2 DEF vars, rows, SameEnds
    <3> QED BY <3>1, NothingAnnounced DEF Promise!vars
  <2> QED BY <2>1, <2>2
<1> QED BY <1>1, <1>2, TypeCorrect, AbsentAlways, GuardedAlways, SerialisedAlways, FitsAlways, PTL
        DEF Spec, ImplementsRunStatus, Promise!Spec

-----------------------------------------------------------------------------
(* What has ended stays as it is.                                          *)

\* Without shutdowns and approvals nothing revives a cancelled run: each other UPDATE of
\* its status looks at it first, under its event lock.
THEOREM CancelIsFinalAlways ==
    ASSUME "confirm" \notin ToolPolicies, MaxShutdowns = 0
    PROVE  Spec => CancelIsFinal
<1>1. TypeOK /\ Deciding /\ Absent /\ [Next]_vars
      => [\A r \in Runs : Cancelled(r) => status'[r] = "cancelled"]_vars
  <2> SUFFICES ASSUME TypeOK, Deciding, Absent, [Next]_vars, NEW r \in Runs, Cancelled(r)
               PROVE  status'[r] = "cancelled"
      OBVIOUS
  <2>1. task[r] \notin Asking \cup Interrupting
        BY DEF Absent, NoAnswers, NoStops
  <2>2. ASSUME NEW q, Goes(r, q) PROVE status'[r] = "cancelled"
        BY <2>1, <2>2 DEF Goes, Ways, RowsMove, StatusAt, Permits, Cancelled, Asking, Interrupting
  <2>3. Fate(r)
        BY NextEffect
  <2> QED BY <2>2, <2>3 DEF Fate, Untouched, Handled, Submitted, Halted, Recovered, Enqueued, Lasting,
         Cancelled, Active
<1> QED BY <1>1, TypeInvariant, AbsentAlways, PTL DEF Spec, CancelIsFinal

\* In a run found cancelled, outside the event lock, a coroutine announces nothing
\* except that the run was queued.
LEMMA CancelledIsQuiet ==
    ASSUME TypeOK, NEW r \in Runs, Cancelled(r), task[r] \notin Holding, TaskStep(r)
    PROVE  log' = log \/ (task[r] = "submit" /\ Emit(r, Event("run.queued", 0, "")))
<1> USE DEF rows, loop, locks, host, history, Holding
<1>1. ASSUME NEW e, NEW p, NEW q, EmitRunEvent(r, e, p, q) PROVE log' = log
      BY <1>1 DEF EmitRunEvent
<1>2. CASE LoadContext(r) \/ StartTool(r) \/ EmitRequested(r) \/ EmitOutput(r) \/ EmitFinished(r)
           \/ EmitToolFailed(r) \/ EmitMessageCompleted(r)
      BY <1>1, <1>2 DEF LoadContext, StartTool, EmitRequested, EmitOutput, EmitFinished,
         EmitToolFailed, EmitMessageCompleted
<1>3. CASE Announce(r)
      BY <1>3 DEF Announce
<1>4. CASE EmitStarted(r) \/ EmitDelta(r) \/ EmitCompleted(r) \/ EmitFailure(r) \/ EmitFailed(r)
      BY <1>4 DEF EmitStarted, EmitDelta, EmitCompleted, EmitFailure, EmitFailed
<1>5. CASE AcquireConversation(r) \/ InsertMessage(r) \/ StartRun(r) \/ CallModel(r) \/ ReadAnswer(r)
           \/ AppendDelta(r) \/ TakeReply(r)
      BY <1>5 DEF AcquireConversation, InsertMessage, StartRun, CallModel, ReadAnswer, AppendDelta,
         TakeReply
<1>6. CASE InsertTool(r) \/ ReadPolicy(r) \/ InsertPermission(r) \/ MarkWaiting(r) \/ Poll(r)
           \/ Resume(r) \/ ExecuteTool(r) \/ ToolReturns(r) \/ SaveTool(r) \/ RecordTool(r)
           \/ CancelTool(r) \/ FailTool(r)
      BY <1>6 DEF InsertTool, ReadPolicy, InsertPermission, MarkWaiting, Poll, Resume, ExecuteTool,
         ToolReturns, SaveTool, RecordTool, CancelTool, FailTool
<1>7. CASE FinishMessage(r) \/ CompleteRun(r) \/ MarkCancelled(r) \/ FailRun(r) \/ FailMessage(r)
           \/ InterruptRun(r) \/ InterruptMessage(r)
      BY <1>7 DEF FinishMessage, CompleteRun, MarkCancelled, FailRun, FailMessage, InterruptRun,
         InterruptMessage
<1> QED BY <1>2, <1>3, <1>4, <1>5, <1>6, <1>7 DEF TaskStep

LEMMA HandlerLog ==
    ASSUME TypeOK, NEW h \in Clients, HandlerStep(h), NEW r \in Runs
    PROVE  \/ log'[r] = log[r]
           \/ req[h].run = r /\ req[h].place \in {"announce", "cancelled", "decided"}
<1> USE DEF rows, loop, locks, host, history
<1>1. ASSUME NEW s, NEW e, Emit(s, e) PROVE log'[r] = log[r] \/ s = r
      BY <1>1 DEF Emit, TypeOK
<1>2. CASE EmitDenied(h) \/ EmitStopped(h) \/ EmitCancelError(h) \/ EmitCancelled(h) \/ EmitResolved(h)
      BY <1>1, <1>2 DEF EmitDenied, EmitStopped, EmitCancelError, EmitCancelled, EmitResolved
<1> QED BY <1>2 DEF HandlerStep, LockForCancel, ReadStartedTools, DenyPermission, StopTool, CancelRow,
       Decide

OnlyQueued(r) == \A i \in DOMAIN log'[r] \ DOMAIN log[r] : log'[r][i].type = "run.queued"

\* A run announced as completed or failed: nobody is left to touch it.
LEMMA OutcomeRests ==
    ASSUME TypeOK, Deciding, Guarded, Truthful, NoAnswers, NEW r \in Runs, Next,
           AnnouncedIn(log[r]) \cap {"completed", "failed"} # {}
    PROVE  status'[r] = status[r] /\ log'[r] = log[r]
<1>1. task[r] = "none" /\ status[r] \in {"completed", "failed"}
      BY DEF Truthful, OutcomeHolds
<1>2. ASSUME NEW s \in Runs, TaskStep(s) PROVE status'[r] = status[r] /\ log'[r] = log[r]
  <2>1. (\E q : Goes(s, q)) /\ \A x \in Runs \ {s} : Untouched(x)
        BY <1>2, TaskStepEffect
  <2>2. s # r
        BY <1>1, <2>1 DEF Goes, Ways
  <2> QED BY <2>1, <2>2 DEF Untouched
<1>3. ASSUME NEW h \in Clients, HandlerStep(h) PROVE status'[r] = status[r] /\ log'[r] = log[r]
  <2>1. req[h].place \in Cancelling => req[h].run # r
        BY <1>1 DEF Guarded, CancelHolds
  <2>2. req[h].place # "decided"
        BY DEF NoAnswers
  <2>3. Steps(h) \/ Cancels(h) \/ Tells(h)
        BY <1>3, HandlerPhase
  <2>4. status'[r] = status[r]
        BY <2>1, <2>3 DEF Steps, Cancels, Tells, Cancelling, TypeOK
  <2> QED BY <1>3, <2>1, <2>2, <2>4, HandlerLog DEF Cancelling
<1>4. CASE ClientStep
  <2>1. Submitted(r) \/ Untouched(r)
        BY <1>4, ClientStepEffect
  <2> QED BY <1>1, <2>1 DEF Submitted, Untouched
<1>5. CASE Shutdown \/ Stopped \/ Crash \/ BootStep
  <2>1. Halted(r) \/ Recovered(r) \/ Enqueued(r)
        BY <1>5, ServerStepEffect
  <2> QED BY <1>1, <2>1 DEF Halted, Recovered, Enqueued, Lasting, Stable, Active
<1> QED BY <1>2, <1>3, <1>4, <1>5 DEF Next

\* A run announced as cancelled: only its submission may still have to tell that it was queued.
LEMMA CancellationRests ==
    ASSUME TypeOK, Deciding, Guarded, Absent, Undisturbed, Fits, NoAnswers, NEW r \in Runs, Next,
           AnnouncedIn(log[r]) = {"cancelled"}
    PROVE  status'[r] = status[r] /\ OnlyQueued(r)
<1>1. status[r] = "cancelled" /\ task[r] \notin Holding \cup Interrupting \cup Asking
      BY DEF Fits, EndFits, PlaceFits, Holding, Undisturbed, Absent, NoStops, NoAnswers
<1>2. log'[r] = log[r] => OnlyQueued(r)
      BY DEF OnlyQueued
<1>3. ASSUME NEW s \in Runs, TaskStep(s) PROVE status'[r] = status[r] /\ OnlyQueued(r)
  <2>1. (\E q : Goes(s, q)) /\ \A x \in Runs \ {s} : Untouched(x)
        BY <1>3, TaskStepEffect
  <2>2. CASE s # r
        BY <1>2, <2>1, <2>2 DEF Untouched
  <2>3. CASE s = r
    <3>1. status'[r] = status[r]
          BY <1>1, <2>1, <2>3 DEF Goes, Ways, RowsMove, StatusAt, Permits, Cancelled, Asking, Interrupting
    <3>2. log' = log \/ Emit(r, Event("run.queued", 0, ""))
          BY <1>1, <1>3, <2>3, CancelledIsQuiet DEF Cancelled
    <3>3. ASSUME Emit(r, Event("run.queued", 0, "")) PROVE OnlyQueued(r)
      <4> DEFINE e == Event("run.queued", 0, "")
      <4>1. log[r] \in Seq(LogEntry) /\ e.type = "run.queued"
            BY DEF TypeOK, Event
      <4>2. log'[r] = Append(log[r], e)
            BY <3>3 DEF Emit, TypeOK
      <4> HIDE DEF e
      <4>3. \A i \in DOMAIN log'[r] \ DOMAIN log[r] : log'[r][i] = e
            BY <4>1, <4>2
      <4> QED BY <4>1, <4>3 DEF OnlyQueued
    <3> QED BY <1>2, <3>1, <3>2, <3>3
  <2> QED BY <2>2, <2>3
<1>4. ASSUME NEW h \in Clients, HandlerStep(h) PROVE status'[r] = status[r] /\ OnlyQueued(r)
  <2>1. req[h].place \in Cancelling => req[h].run # r
        BY <1>1 DEF Fits, CancelFits, Cancelling, Terminal
  <2>2. req[h].place # "decided"
        BY DEF NoAnswers
  <2>3. Steps(h) \/ Cancels(h) \/ Tells(h)
        BY <1>4, HandlerPhase
  <2>4. status'[r] = status[r]
        BY <2>1, <2>3 DEF Steps, Cancels, Tells, Cancelling, TypeOK
  <2> QED BY <1>2, <1>4, <2>1, <2>2, <2>4, HandlerLog DEF Cancelling
<1>5. CASE ClientStep
  <2>1. Submitted(r) \/ Untouched(r)
        BY <1>5, ClientStepEffect
  <2> QED BY <1>1, <1>2, <2>1 DEF Submitted, Untouched
<1>6. CASE Shutdown \/ Stopped \/ Crash \/ BootStep
  <2>1. Halted(r) \/ Recovered(r) \/ Enqueued(r)
        BY <1>6, ServerStepEffect
  <2> QED BY <1>1, <1>2, <2>1 DEF Halted, Recovered, Enqueued, Lasting, Stable, Active
<1> QED BY <1>3, <1>4, <1>5, <1>6 DEF Next

\* After its terminal event a run keeps its status and announces nothing, whatever crashes
\* and restarts it meets, as long as no tool needs an approval and a shutdown
\* cannot meet a cancelled run.
THEOREM TerminalIsFinalAlways ==
    ASSUME "confirm" \notin ToolPolicies, MaxShutdowns = 0 \/ "cancel" \notin Requests
    PROVE  Spec => TerminalIsFinal
<1> DEFINE Ends == MaxShutdowns = 0 => Fits
<1>1. Spec => []Ends
  <2>1. CASE MaxShutdowns = 0
    <3>1. Spec => []Fits
          BY <2>1, FitsAlways DEF Undisturbed
    <3> QED BY <3>1, PTL
  <2>2. CASE MaxShutdowns # 0
    <3>1. Ends
          BY <2>2
    <3> QED BY <3>1, PTL
  <2> QED BY <2>1, <2>2
<1>2. TypeOK /\ Deciding /\ Guarded /\ Truthful /\ Absent /\ Ends /\ [Next]_vars
      => [\A r \in Runs : Announced(r) # {} =>
            /\ status'[r] = status[r]
            /\ \A i \in DOMAIN log'[r] \ DOMAIN log[r] : log'[r][i].type = "run.queued"]_vars
  <2> SUFFICES ASSUME TypeOK, Deciding, Guarded, Truthful, Absent, Ends, Next, NEW r \in Runs,
                      Announced(r) # {}
               PROVE  status'[r] = status[r] /\ OnlyQueued(r)
      BY DEF OnlyQueued
  <2>1. Announced(r) = AnnouncedIn(log[r]) /\ NoAnswers
        BY DEF Announced, AnnouncedIn, Absent
  <2>2. CASE AnnouncedIn(log[r]) \cap {"completed", "failed"} # {}
    <3>1. status'[r] = status[r] /\ log'[r] = log[r]
          BY <2>1, <2>2, OutcomeRests
    <3> QED BY <3>1 DEF OnlyQueued
  <2>3. CASE AnnouncedIn(log[r]) \cap {"completed", "failed"} = {}
    <3>1. "cancel" \in Requests
          BY <2>1, <2>3 DEF Absent, NoCancels
    <3>2. Undisturbed /\ Fits
          BY <3>1 DEF Undisturbed
    <3>3. AnnouncedIn(log[r]) = {"cancelled"}
          BY <2>1, <2>3, <3>2 DEF Fits, EndFits
    <3> QED BY <2>1, <3>2, <3>3, CancellationRests
  <2> QED BY <2>2, <2>3
<1> QED BY <1>1, <1>2, TypeInvariant, GuardedAlways, TruthfulAlways, AbsentAlways, PTL
        DEF Spec, TerminalIsFinal
=============================================================================
