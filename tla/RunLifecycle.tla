---------------------------- MODULE RunLifecycle ----------------------------
(***************************************************************************)
(* The life of a run: RunManager (agent/runner.py) with the request        *)
(* handlers that act on runs (api/conversations.py submit_prompt,          *)
(* api/runs.py cancel and retry, api/permissions.py resolve) and the       *)
(* backend's start, shutdown and crash (main.py).                          *)
(*                                                                         *)
(* Every task and handler is an asyncio coroutine: it keeps the processor  *)
(* from one await to the next.  An action is what it does between two      *)
(* awaits that others can tell apart: one committed SQL statement, one     *)
(* emitted event, one lock.  A read followed at once by a test is part of  *)
(* the action that uses it; where a write follows in a later action, the   *)
(* world may change between the two.                                       *)
(***************************************************************************)
EXTENDS Naturals, Sequences, FiniteSets

CONSTANTS
    Runs,           \* run ids that may be inserted
    Conversations,  \* conversation ids
    ConvOf,         \* the conversation a run is submitted to
    Clients,        \* cancel / resolve requests that clients may send, one each
    Requests,       \* the kinds of request they send: "cancel", "resolve"
    Nobody,         \* a lock nobody holds
    ToolPolicies,   \* the approval policies the settings may give a tool
    MaxIterations,  \* config.tools.max_tool_iterations
    MaxCalls,       \* bound: tool calls the model asks for in one run
    MaxChunks,      \* bound: text chunks the model sends in one run
    MaxShutdowns,   \* bound: graceful shutdowns
    MaxCrashes      \* bound: crashes

ASSUME RunAssumption ==
    /\ ConvOf \in [Runs -> Conversations]
    /\ Runs \cap Clients = {}
    /\ Nobody \notin Runs \cup Clients
    /\ Requests \subseteq {"cancel", "resolve"}
    /\ ToolPolicies \subseteq {"auto", "confirm", "disabled"}
    /\ {MaxIterations, MaxCalls, MaxChunks, MaxShutdowns, MaxCrashes} \subseteq Nat

Calls == 1 .. MaxCalls          \* the n-th tool call of a run
Terminal == {"completed", "failed", "interrupted", "cancelled"}
Active == {"running", "waiting_approval"}
Decisions == {"approved", "denied"}

VARIABLES
    status,     \* runs.status; "absent" before the row exists
    awaiting,   \* runs.error_code = 'RUN_INTERRUPTED_AWAITING_APPROVAL'
    message,    \* messages.status of the run's assistant message
    content,    \* chunks appended to that message's content
    tool,       \* tool_calls.status
    perm,       \* permissions: "pending", or the decision once resolved
    log,        \* the run's rows of the events table, in id order
    task,       \* where the coroutine process_run(run) stands
    iteration,  \* the rounds of _run_model_tool_loop that asked for tools
    calls,      \* the number of the current tool call
    convLock,   \* _conversation_locks
    eventLock,  \* _run_event_locks
    req,        \* the cancel and resolve handlers
    server,     \* where the backend process stands
    stops,      \* graceful shutdowns so far
    crashes,    \* crashes so far
    ran,        \* history: the tool calls that began to execute
    decided     \* history: every decision written to a permission

rows == <<status, awaiting, message, content, tool, perm>>
loop == <<iteration, calls>>
locks == <<convLock, eventLock>>
host == <<server, stops, crashes>>
history == <<ran, decided>>
vars == <<rows, log, task, loop, locks, req, host, history>>

-----------------------------------------------------------------------------
(* Events.  `call` is 0 for an event that is not about a tool call.        *)

EventTypes == {"run.queued", "run.started", "context.loaded", "message.delta",
    "message.completed", "tool.started", "tool.output", "tool.finished",
    "permission.requested", "permission.resolved", "error", "run.completed"}
Outcomes == Terminal \cup Decisions \cup {"", "success"}

LogEntry == [type : EventTypes, call : Nat, outcome : Outcomes]
Event(type, call, outcome) == [type |-> type, call |-> call, outcome |-> outcome]
Emit(r, e) == log' = [log EXCEPT ![r] = Append(@, e)]

Cancelled(r) == status[r] = "cancelled"
Goto(r, place) == task' = [task EXCEPT ![r] = place]

\* Mutants, here and below, change the definition that follows them the way a bug
\* would; the runs must reject them.  Here: emit without looking at the run, and
\* wait for a cancelled run instead of raising.
EmitRunEventUnchecked(r, e, next, undo) ==
    /\ eventLock[r] = Nobody
    /\ IF FALSE THEN Goto(r, undo) /\ UNCHANGED log
                ELSE Goto(r, next) /\ Emit(r, e)
EmitRunEventWaiting(r, e, next, undo) ==
    /\ eventLock[r] = Nobody
    /\ IF Cancelled(r) THEN FALSE ELSE Goto(r, next) /\ Emit(r, e)

\* _emit_run_event: under the run's event lock, raise _RunCancelled (the caller
\* goes to `undo`) or emit.
EmitRunEvent(r, e, next, undo) ==
    /\ eventLock[r] = Nobody
    /\ IF Cancelled(r) THEN Goto(r, undo) /\ UNCHANGED log
                       ELSE Goto(r, next) /\ Emit(r, e)

-----------------------------------------------------------------------------
(* Where a coroutine may stand.                                            *)

Waiting == {"submit", "fetch"}
Opening == {"insert", "start", "started", "context", "model", "answered",
    "delta", "delta_emit", "reply"}
Tooling == {"tool", "tool_insert", "policy", "ask_insert", "ask_mark", "ask_emit",
    "poll", "resume", "execute", "executing", "output", "save", "finished",
    "record", "tool_cancel", "tool_fail", "tool_failed"}
Closing == {"finish", "message_emit", "complete", "complete_emit"}
\* inside the try block of _run_body, and inside its except clauses
Trying == Opening \cup Tooling \cup Closing
Handling == {"mark", "fail", "fail_message", "fail_error", "fail_emit"}
Interrupting == {"interrupt", "interrupt_message"}
InBody == Trying \cup Handling \cup Interrupting

Idle == [place |-> "idle", run |-> Nobody, call |-> 0, decision |-> "",
         perms |-> {}, denied |-> {}, tools |-> {}, stopped |-> {}]
InFlight(h) == req[h].place \notin {"idle", "done"}

Init ==
    /\ status = [r \in Runs |-> "absent"]
    /\ awaiting = [r \in Runs |-> FALSE]
    /\ message = [r \in Runs |-> "none"]
    /\ content = [r \in Runs |-> 0]
    /\ tool = [r \in Runs |-> [k \in Calls |-> "none"]]
    /\ perm = [r \in Runs |-> [k \in Calls |-> "none"]]
    /\ log = [r \in Runs |-> <<>>]
    /\ task = [r \in Runs |-> "none"]
    /\ iteration = [r \in Runs |-> 0]
    /\ calls = [r \in Runs |-> 0]
    /\ convLock = [c \in Conversations |-> Nobody]
    /\ eventLock = [r \in Runs |-> Nobody]
    /\ req = [h \in Clients |-> Idle]
    /\ server = "up"
    /\ stops = 0
    /\ crashes = 0
    /\ ran = [r \in Runs |-> {}]
    /\ decided = [r \in Runs |-> [k \in Calls |-> {}]]

-----------------------------------------------------------------------------
(* Submitting and starting a run.                                          *)

\* The row is committed before anything is emitted or a task exists.
QueueRun(r) ==
    /\ server = "up"
    /\ status[r] = "absent"
    /\ status' = [status EXCEPT ![r] = "queued"]
    /\ Goto(r, "submit")
    /\ UNCHANGED <<awaiting, message, content, tool, perm, log, loop, locks, req, host, history>>

SubmitPrompt(r) == QueueRun(r)

\* retry_run: a new run beside an old one of any status.
RetryRun(old, r) ==
    /\ status[old] # "absent"
    /\ ConvOf[r] = ConvOf[old]
    /\ QueueRun(r)

\* The tail of submit_prompt and retry_run: emit run.queued, then enqueue.
Announce(r) ==
    /\ task[r] = "submit"
    /\ Emit(r, Event("run.queued", 0, ""))
    /\ Goto(r, "fetch")
    /\ UNCHANGED <<rows, loop, locks, req, host, history>>

\* Mutant: the conversation's lock is not taken into account.
AcquireConversationFreely(r) ==
    LET c == ConvOf[r] IN
    /\ task[r] = "fetch"
    /\ IF status[r] = "queued"
       THEN Goto(r, "insert") /\ convLock' = [convLock EXCEPT ![c] = r]
       ELSE Goto(r, "none") /\ UNCHANGED convLock
    /\ UNCHANGED <<rows, log, loop, eventLock, req, host, history>>

\* process_run: take the conversation's lock and read the run again.
AcquireConversation(r) ==
    LET c == ConvOf[r] IN
    /\ task[r] = "fetch"
    /\ convLock[c] = Nobody
    /\ IF status[r] = "queued"
       THEN Goto(r, "insert") /\ convLock' = [convLock EXCEPT ![c] = r]
       ELSE Goto(r, "none") /\ UNCHANGED convLock
    /\ UNCHANGED <<rows, log, loop, eventLock, req, host, history>>

InsertMessage(r) ==
    /\ task[r] = "insert"
    /\ message' = [message EXCEPT ![r] = "streaming"]
    /\ Goto(r, "start")
    /\ UNCHANGED <<status, awaiting, content, tool, perm, log, loop, locks, req, host, history>>

StartRun(r) ==
    /\ task[r] = "start"
    /\ eventLock[r] = Nobody
    /\ IF Cancelled(r)
       THEN Goto(r, "mark") /\ UNCHANGED <<status, eventLock>>
       ELSE /\ status' = [status EXCEPT ![r] = "running"]
            /\ eventLock' = [eventLock EXCEPT ![r] = r]
            /\ Goto(r, "started")
    /\ UNCHANGED <<awaiting, message, content, tool, perm, log, loop, convLock, req, host, history>>

EmitStarted(r) ==
    /\ task[r] = "started"
    /\ Emit(r, Event("run.started", 0, ""))
    /\ eventLock' = [eventLock EXCEPT ![r] = Nobody]
    /\ Goto(r, "context")
    /\ UNCHANGED <<rows, loop, convLock, req, host, history>>

\* Loading context and attachments may raise; otherwise its event follows.
LoadContext(r) ==
    /\ task[r] = "context"
    /\ \/ EmitRunEvent(r, Event("context.loaded", 0, ""), "model", "mark")
       \/ Goto(r, "fail") /\ UNCHANGED log
    /\ UNCHANGED <<rows, loop, locks, req, host, history>>

-----------------------------------------------------------------------------
(* The model and tool loop.                                                *)

\* One round asks the model, which answers or, every route having failed, raises.
CallModel(r) ==
    /\ task[r] = "model"
    /\ \/ Cancelled(r) /\ Goto(r, "finish")
       \/ ~Cancelled(r) /\ \E next \in {"answered", "fail"} : Goto(r, next)
    /\ UNCHANGED <<rows, log, loop, locks, req, host, history>>

\* The answer has text, tool calls, both or neither.
ReadAnswer(r) ==
    /\ task[r] = "answered"
    /\ \/ Cancelled(r) /\ Goto(r, "finish")
       \/ ~Cancelled(r) /\ content[r] < MaxChunks /\ Goto(r, "delta")
       \/ ~Cancelled(r) /\ Goto(r, "reply")
    /\ UNCHANGED <<rows, log, loop, locks, req, host, history>>

\* Mutant: the chunk is announced but not stored.
AppendDeltaUnstored(r) ==
    /\ task[r] = "delta"
    /\ eventLock[r] = Nobody
    /\ ~Cancelled(r)
    /\ eventLock' = [eventLock EXCEPT ![r] = r]
    /\ Goto(r, "delta_emit")
    /\ UNCHANGED <<rows, log, loop, convLock, req, host, history>>

\* _emit_text_delta, one chunk: append it under the event lock ...
AppendDelta(r) ==
    /\ task[r] = "delta"
    /\ eventLock[r] = Nobody
    /\ IF Cancelled(r)
       THEN Goto(r, "mark") /\ UNCHANGED <<content, eventLock>>
       ELSE /\ content' = [content EXCEPT ![r] = @ + 1]
            /\ eventLock' = [eventLock EXCEPT ![r] = r]
            /\ Goto(r, "delta_emit")
    /\ UNCHANGED <<status, awaiting, message, tool, perm, log, loop, convLock, req, host, history>>

\* ... and announce it; then the next chunk, or the rest of the answer.
EmitDelta(r) ==
    /\ task[r] = "delta_emit"
    /\ Emit(r, Event("message.delta", 0, ""))
    /\ eventLock' = [eventLock EXCEPT ![r] = Nobody]
    /\ \/ content[r] < MaxChunks /\ Goto(r, "delta")
       \/ Goto(r, "reply")
    /\ UNCHANGED <<rows, loop, convLock, req, host, history>>

\* No tool calls ends the loop; check_tool_iteration refuses one round too many.
TakeReply(r) ==
    /\ task[r] = "reply"
    /\ \/ Goto(r, "finish") /\ UNCHANGED loop
       \/ iteration[r] >= MaxIterations /\ Goto(r, "fail") /\ UNCHANGED loop
       \/ /\ iteration[r] < MaxIterations
          /\ calls[r] < MaxCalls
          /\ iteration' = [iteration EXCEPT ![r] = @ + 1]
          /\ calls' = [calls EXCEPT ![r] = @ + 1]
          /\ Goto(r, "tool")
    /\ UNCHANGED <<rows, log, locks, req, host, history>>

-----------------------------------------------------------------------------
(* One tool call: _execute_tool_call and _await_tool_permission.           *)

StartTool(r) ==
    /\ task[r] = "tool"
    /\ EmitRunEvent(r, Event("tool.started", calls[r], ""), "tool_insert", "mark")
    /\ UNCHANGED <<rows, loop, locks, req, host, history>>

SetTool(r, value) == tool' = [tool EXCEPT ![r][calls[r]] = value]

\* The row's key is the id the model gave the call: one seen before is refused.
InsertTool(r) ==
    /\ task[r] = "tool_insert"
    /\ \/ SetTool(r, "started") /\ Goto(r, "policy")
       \/ Goto(r, "fail") /\ UNCHANGED tool
    /\ UNCHANGED <<status, awaiting, message, content, perm, log, loop, locks, req, host, history>>

AfterPolicy == [auto |-> "execute", confirm |-> "ask_insert", disabled |-> "tool_fail"]

ReadPolicy(r) ==
    /\ task[r] = "policy"
    /\ \E p \in ToolPolicies : Goto(r, AfterPolicy[p])
    /\ UNCHANGED <<rows, log, loop, locks, req, host, history>>

InsertPermission(r) ==
    /\ task[r] = "ask_insert"
    /\ perm' = [perm EXCEPT ![r][calls[r]] = "pending"]
    /\ Goto(r, "ask_mark")
    /\ UNCHANGED <<status, awaiting, message, content, tool, log, loop, locks, req, host, history>>

\* Neither the event lock nor the current status guards this UPDATE.
MarkWaiting(r) ==
    /\ task[r] = "ask_mark"
    /\ status' = [status EXCEPT ![r] = "waiting_approval"]
    /\ Goto(r, "ask_emit")
    /\ UNCHANGED <<awaiting, message, content, tool, perm, log, loop, locks, req, host, history>>

EmitRequested(r) ==
    /\ task[r] = "ask_emit"
    /\ EmitRunEvent(r, Event("permission.requested", calls[r], ""), "poll", "tool_cancel")
    /\ UNCHANGED <<rows, loop, locks, req, host, history>>

\* Mutants: any resolved permission lets the tool run; a denial goes unnoticed.
PollAnyAnswer(r) ==
    /\ task[r] = "poll"
    /\ perm[r][calls[r]] \in Decisions
    /\ Goto(r, "resume")
    /\ UNCHANGED <<rows, log, loop, locks, req, host, history>>
PollApprovals(r) ==
    /\ task[r] = "poll"
    /\ perm[r][calls[r]] = "approved"
    /\ Goto(r, "resume")
    /\ UNCHANGED <<rows, log, loop, locks, req, host, history>>

\* One turn of the polling loop that leaves it; the others only sleep.  A run
\* found cancelled denies a permission that is still pending.
Poll(r) ==
    LET k == calls[r] IN
    /\ task[r] = "poll"
    /\ Cancelled(r) \/ perm[r][k] \in Decisions
    /\ IF Cancelled(r)
       THEN /\ Goto(r, "tool_cancel")
            /\ IF perm[r][k] = "pending"
               THEN /\ perm' = [perm EXCEPT ![r][k] = "denied"]
                    /\ decided' = [decided EXCEPT ![r][k] = @ \cup {"denied"}]
               ELSE UNCHANGED <<perm, decided>>
       ELSE /\ Goto(r, IF perm[r][k] = "approved" THEN "resume" ELSE "tool_fail")
            /\ UNCHANGED <<perm, decided>>
    /\ UNCHANGED <<status, awaiting, message, content, tool, log, loop, locks, req, host, ran>>

\* After the approval: an UPDATE without a guard, like MarkWaiting.
Resume(r) ==
    /\ task[r] = "resume"
    /\ status' = [status EXCEPT ![r] = "running"]
    /\ Goto(r, "execute")
    /\ UNCHANGED <<awaiting, message, content, tool, perm, log, loop, locks, req, host, history>>

ExecuteTool(r) ==
    /\ task[r] = "execute"
    /\ ran' = [ran EXCEPT ![r] = @ \cup {calls[r]}]
    /\ Goto(r, "executing")
    /\ UNCHANGED <<rows, log, loop, locks, req, host, decided>>

\* The tool raises, or returns with or without output.
ToolReturns(r) ==
    /\ task[r] = "executing"
    /\ \/ Goto(r, "tool_fail")
       \/ Cancelled(r) /\ Goto(r, "tool_cancel")
       \/ ~Cancelled(r) /\ \E next \in {"output", "save"} : Goto(r, next)
    /\ UNCHANGED <<rows, log, loop, locks, req, host, history>>

\* tool.output, and the events of a truncated or sensitive result.
EmitOutput(r) ==
    /\ task[r] = "output"
    /\ EmitRunEvent(r, Event("tool.output", calls[r], ""), "save", "mark")
    /\ UNCHANGED <<rows, loop, locks, req, host, history>>

\* "success" stands for the status the tool reports of itself.
SaveTool(r) ==
    /\ task[r] = "save"
    /\ SetTool(r, "success")
    /\ Goto(r, "finished")
    /\ UNCHANGED <<status, awaiting, message, content, perm, log, loop, locks, req, host, history>>

EmitFinished(r) ==
    /\ task[r] = "finished"
    /\ EmitRunEvent(r, Event("tool.finished", calls[r], "success"), "record", "mark")
    /\ UNCHANGED <<rows, loop, locks, req, host, history>>

\* The tool message is inserted; the answer's next call follows, or the model.
RecordTool(r) ==
    /\ task[r] = "record"
    /\ \/ Goto(r, "model") /\ UNCHANGED calls
       \/ /\ calls[r] < MaxCalls
          /\ calls' = [calls EXCEPT ![r] = @ + 1]
          /\ Goto(r, "tool")
    /\ UNCHANGED <<rows, log, iteration, locks, req, host, history>>

CancelTool(r) ==
    /\ task[r] = "tool_cancel"
    /\ SetTool(r, "cancelled")
    /\ Goto(r, "mark")
    /\ UNCHANGED <<status, awaiting, message, content, perm, log, loop, locks, req, host, history>>

\* A call that touched the sensitive folder is audited first, which raises in a
\* cancelled run.
FailTool(r) ==
    /\ task[r] = "tool_fail"
    /\ \/ SetTool(r, "failed") /\ Goto(r, "tool_failed")
       \/ Cancelled(r) /\ Goto(r, "mark") /\ UNCHANGED tool
    /\ UNCHANGED <<status, awaiting, message, content, perm, log, loop, locks, req, host, history>>

EmitToolFailed(r) ==
    /\ task[r] = "tool_failed"
    /\ EmitRunEvent(r, Event("tool.finished", calls[r], "failed"), "fail", "mark")
    /\ UNCHANGED <<rows, loop, locks, req, host, history>>

-----------------------------------------------------------------------------
(* The end of _run_body: success, cancellation, failure, interruption.     *)

\* A task that ends releases its conversation.
EndTask(r) ==
    /\ Goto(r, "none")
    /\ convLock' = [convLock EXCEPT ![ConvOf[r]] = Nobody]

SetMessage(r, value) == message' = [message EXCEPT ![r] = value]

FinishMessage(r) ==
    /\ task[r] = "finish"
    /\ IF Cancelled(r)
       THEN Goto(r, "mark") /\ UNCHANGED message
       ELSE Goto(r, "message_emit") /\ SetMessage(r, "completed")
    /\ UNCHANGED <<status, awaiting, content, tool, perm, log, loop, locks, req, host, history>>

EmitMessageCompleted(r) ==
    /\ task[r] = "message_emit"
    /\ EmitRunEvent(r, Event("message.completed", 0, ""), "complete", "mark")
    /\ UNCHANGED <<rows, loop, locks, req, host, history>>

CompleteRun(r) ==
    /\ task[r] = "complete"
    /\ eventLock[r] = Nobody
    /\ IF Cancelled(r)
       THEN Goto(r, "mark") /\ UNCHANGED <<status, eventLock>>
       ELSE /\ status' = [status EXCEPT ![r] = "completed"]
            /\ eventLock' = [eventLock EXCEPT ![r] = r]
            /\ Goto(r, "complete_emit")
    /\ UNCHANGED <<awaiting, message, content, tool, perm, log, loop, convLock, req, host, history>>

EmitCompleted(r) ==
    /\ task[r] = "complete_emit"
    /\ Emit(r, Event("run.completed", 0, "completed"))
    /\ eventLock' = [eventLock EXCEPT ![r] = Nobody]
    /\ EndTask(r)
    /\ UNCHANGED <<rows, loop, req, host, history>>

\* except _RunCancelled
MarkCancelled(r) ==
    /\ task[r] = "mark"
    /\ SetMessage(r, "cancelled")
    /\ EndTask(r)
    /\ UNCHANGED <<status, awaiting, content, tool, perm, log, loop, eventLock, req, host, history>>

\* except Exception: _fail_run, which leaves a cancelled run as it is.
FailRun(r) ==
    /\ task[r] = "fail"
    /\ eventLock[r] = Nobody
    /\ IF Cancelled(r)
       THEN EndTask(r) /\ UNCHANGED <<status, eventLock>>
       ELSE /\ status' = [status EXCEPT ![r] = "failed"]
            /\ eventLock' = [eventLock EXCEPT ![r] = r]
            /\ Goto(r, "fail_message")
            /\ UNCHANGED convLock
    /\ UNCHANGED <<awaiting, message, content, tool, perm, log, loop, req, host, history>>

FailMessage(r) ==
    /\ task[r] = "fail_message"
    /\ SetMessage(r, "failed")
    /\ Goto(r, "fail_error")
    /\ UNCHANGED <<status, awaiting, content, tool, perm, log, loop, locks, req, host, history>>

EmitFailure(r) ==
    /\ task[r] = "fail_error"
    /\ Emit(r, Event("error", 0, "failed"))
    /\ Goto(r, "fail_emit")
    /\ UNCHANGED <<rows, loop, locks, req, host, history>>

EmitFailed(r) ==
    /\ task[r] = "fail_emit"
    /\ Emit(r, Event("run.completed", 0, "failed"))
    /\ eventLock' = [eventLock EXCEPT ![r] = Nobody]
    /\ EndTask(r)
    /\ UNCHANGED <<rows, loop, req, host, history>>

\* except CancelledError: _interrupt_run, without the event lock and whatever
\* the run's status.
InterruptRun(r) ==
    /\ task[r] = "interrupt"
    /\ status' = [status EXCEPT ![r] = "interrupted"]
    /\ awaiting' = [awaiting EXCEPT ![r] = FALSE]
    /\ Goto(r, "interrupt_message")
    /\ UNCHANGED <<message, content, tool, perm, log, loop, locks, req, host, history>>

InterruptMessage(r) ==
    /\ task[r] = "interrupt_message"
    /\ SetMessage(r, "interrupted")
    /\ EndTask(r)
    /\ UNCHANGED <<status, awaiting, content, tool, perm, log, loop, eventLock, req, host, history>>

-----------------------------------------------------------------------------
(* cancel_run, holding the run's event lock from its second read on.       *)

Done == [Idle EXCEPT !.place = "done"]
Finish(h) == req' = [req EXCEPT ![h] = Done]

\* A run that is already terminal is returned as it is: no step.
RequestCancel(h, r) ==
    /\ server = "up"
    /\ req[h].place = "idle"
    /\ "cancel" \in Requests
    /\ status[r] \notin Terminal \cup {"absent"}
    /\ req' = [req EXCEPT ![h].place = "cancel", ![h].run = r]
    /\ UNCHANGED <<rows, log, task, loop, locks, host, history>>

Pending(r) == {k \in Calls : perm[r][k] = "pending"}
Started(r) == {k \in Calls : tool[r][k] = "started"}

\* Mutant: the run is not read again under the lock.
LockForCancelBlindly(h) ==
    LET r == req[h].run IN
    /\ req[h].place = "cancel"
    /\ eventLock[r] = Nobody
    /\ req' = [req EXCEPT ![h].place = "tools", ![h].perms = Pending(r)]
    /\ eventLock' = [eventLock EXCEPT ![r] = h]
    /\ UNCHANGED <<rows, log, task, loop, convLock, host, history>>

\* Lock, read the run again, read its pending permissions ...
LockForCancel(h) ==
    LET r == req[h].run IN
    /\ req[h].place = "cancel"
    /\ eventLock[r] = Nobody
    /\ IF status[r] \in Terminal
       THEN Finish(h) /\ UNCHANGED eventLock
       ELSE /\ req' = [req EXCEPT ![h].place = "tools", ![h].perms = Pending(r)]
            /\ eventLock' = [eventLock EXCEPT ![r] = h]
    /\ UNCHANGED <<rows, log, task, loop, convLock, host, history>>

\* ... and its started tool calls.
ReadStartedTools(h) ==
    /\ req[h].place = "tools"
    /\ req' = [req EXCEPT ![h].place = "cleanup", ![h].tools = Started(req[h].run)]
    /\ UNCHANGED <<rows, log, task, loop, locks, host, history>>

DenyPermission(h) ==
    LET r == req[h].run IN
    /\ req[h].place = "cleanup"
    /\ \E k \in req[h].perms :
         /\ perm' = [perm EXCEPT ![r][k] = "denied"]
         /\ decided' = [decided EXCEPT ![r][k] = @ \cup {"denied"}]
         /\ req' = [req EXCEPT ![h].perms = @ \ {k}, ![h].denied = @ \cup {k}]
    /\ UNCHANGED <<status, awaiting, message, content, tool, log, task, loop, locks, host, ran>>

StopTool(h) ==
    LET r == req[h].run IN
    /\ req[h].place = "cleanup"
    /\ req[h].perms = {}
    /\ \E k \in req[h].tools :
         /\ tool' = [tool EXCEPT ![r][k] = "cancelled"]
         /\ req' = [req EXCEPT ![h].tools = @ \ {k}, ![h].stopped = @ \cup {k}]
    /\ UNCHANGED <<status, awaiting, message, content, perm, log, task, loop, locks, host, history>>

CancelRow(h) ==
    /\ req[h].place = "cleanup"
    /\ req[h].perms \cup req[h].tools = {}
    /\ status' = [status EXCEPT ![req[h].run] = "cancelled"]
    /\ req' = [req EXCEPT ![h].place = "announce"]
    /\ UNCHANGED <<awaiting, message, content, tool, perm, log, task, loop, locks, host, history>>

EmitDenied(h) ==
    /\ req[h].place = "announce"
    /\ \E k \in req[h].denied :
         /\ Emit(req[h].run, Event("permission.resolved", k, "denied"))
         /\ req' = [req EXCEPT ![h].denied = @ \ {k}]
    /\ UNCHANGED <<rows, task, loop, locks, host, history>>

EmitStopped(h) ==
    /\ req[h].place = "announce"
    /\ req[h].denied = {}
    /\ \E k \in req[h].stopped :
         /\ Emit(req[h].run, Event("tool.finished", k, "cancelled"))
         /\ req' = [req EXCEPT ![h].stopped = @ \ {k}]
    /\ UNCHANGED <<rows, task, loop, locks, host, history>>

EmitCancelError(h) ==
    /\ req[h].place = "announce"
    /\ req[h].denied \cup req[h].stopped = {}
    /\ Emit(req[h].run, Event("error", 0, "cancelled"))
    /\ req' = [req EXCEPT ![h].place = "cancelled"]
    /\ UNCHANGED <<rows, task, loop, locks, host, history>>

EmitCancelled(h) ==
    LET r == req[h].run IN
    /\ req[h].place = "cancelled"
    /\ Emit(r, Event("run.completed", 0, "cancelled"))
    /\ eventLock' = [eventLock EXCEPT ![r] = Nobody]
    /\ Finish(h)
    /\ UNCHANGED <<rows, task, loop, convLock, host, history>>

-----------------------------------------------------------------------------
(* resolve_permission of the API, which takes no lock.  A permission that  *)
(* is not pending is returned as it is: no step.                           *)

RequestResolve(h, r, k, d) ==
    /\ server = "up"
    /\ req[h].place = "idle"
    /\ "resolve" \in Requests
    /\ perm[r][k] = "pending"
    /\ req' = [req EXCEPT ![h].place = "decide", ![h].run = r, ![h].call = k, ![h].decision = d]
    /\ UNCHANGED <<rows, log, task, loop, locks, host, history>>

\* Mutant: the decision column gets the status.
DecideResolved(h) ==
    /\ req[h].place = "decide"
    /\ perm' = [perm EXCEPT ![req[h].run][req[h].call] = "resolved"]
    /\ req' = [req EXCEPT ![h].place = "decided"]
    /\ UNCHANGED <<status, awaiting, message, content, tool, log, task, loop, locks, host, history>>

\* The UPDATE names the permission only, not the status that was read.
Decide(h) ==
    LET r == req[h].run
        k == req[h].call
        d == req[h].decision IN
    /\ req[h].place = "decide"
    /\ perm' = [perm EXCEPT ![r][k] = d]
    /\ decided' = [decided EXCEPT ![r][k] = @ \cup {d}]
    /\ req' = [req EXCEPT ![h].place = "decided"]
    /\ UNCHANGED <<status, awaiting, message, content, tool, log, task, loop, locks, host, ran>>

EmitResolved(h) ==
    /\ req[h].place = "decided"
    /\ Emit(req[h].run, Event("permission.resolved", req[h].call, req[h].decision))
    /\ Finish(h)
    /\ UNCHANGED <<rows, task, loop, locks, host, history>>

-----------------------------------------------------------------------------
(* The backend process.                                                    *)

\* Where a task's CancelledError lands: in the try block it is caught by
\* _interrupt_run, elsewhere it ends the task.
Landing(place) == IF place \in Trying THEN "interrupt" ELSE "none"

\* RunManager.shutdown, which the server calls when no request is in flight.
Shutdown ==
    /\ server = "up"
    /\ stops < MaxShutdowns
    /\ \A h \in Clients : ~InFlight(h)
    /\ \A r \in Runs : task[r] # "submit"
    /\ server' = "stopping"
    /\ stops' = stops + 1
    /\ task' = [r \in Runs |-> Landing(task[r])]
    /\ eventLock' = [r \in Runs |-> Nobody]
    /\ convLock' = [c \in Conversations |->
                      IF \E r \in Runs : convLock[c] = r /\ task[r] \in Trying
                      THEN convLock[c] ELSE Nobody]
    /\ UNCHANGED <<rows, log, loop, req, crashes, history>>

\* gather() returns when every task has ended.
Stopped ==
    /\ server = "stopping"
    /\ \A r \in Runs : task[r] = "none"
    /\ server' = "down"
    /\ UNCHANGED <<rows, log, task, loop, locks, req, stops, crashes, history>>

\* The process dies: tasks, handlers and locks are gone, committed rows stay.
Crash ==
    /\ server # "down"
    /\ crashes < MaxCrashes
    /\ server' = "down"
    /\ crashes' = crashes + 1
    /\ task' = [r \in Runs |-> "none"]
    /\ req' = [h \in Clients |-> IF InFlight(h) THEN Done ELSE req[h]]
    /\ eventLock' = [r \in Runs |-> Nobody]
    /\ convLock' = [c \in Conversations |-> Nobody]
    /\ UNCHANGED <<rows, log, loop, stops, history>>

\* recover_on_startup, one committed statement at a time.
Boot(from, to) == server = from /\ server' = to /\ UNCHANGED <<stops, crashes>>

\* Mutants: running runs are left as they are; they are queued again.
RecoverRunningNever ==
    /\ Boot("down", "boot_waiting")
    /\ UNCHANGED <<rows, log, task, loop, locks, req, history>>
RecoverRunningQueued ==
    /\ Boot("down", "boot_waiting")
    /\ status' = [r \in Runs |-> IF status[r] = "running" THEN "queued" ELSE status[r]]
    /\ UNCHANGED <<awaiting, message, content, tool, perm, log, task, loop, locks, req, history>>

RecoverRunning ==
    /\ Boot("down", "boot_waiting")
    /\ LET Lost(r) == status[r] = "running" IN
       /\ status' = [r \in Runs |-> IF Lost(r) THEN "interrupted" ELSE status[r]]
       /\ awaiting' = [r \in Runs |-> IF Lost(r) THEN FALSE ELSE awaiting[r]]
    /\ UNCHANGED <<message, content, tool, perm, log, task, loop, locks, req, history>>

RecoverWaiting ==
    /\ Boot("boot_waiting", "boot_permissions")
    /\ LET Lost(r) == status[r] = "waiting_approval" IN
       /\ status' = [r \in Runs |-> IF Lost(r) THEN "interrupted" ELSE status[r]]
       /\ awaiting' = [r \in Runs |-> IF Lost(r) THEN TRUE ELSE awaiting[r]]
    /\ UNCHANGED <<message, content, tool, perm, log, task, loop, locks, req, history>>

\* Mutant: looks for runs that still wait, which the statement before has changed.
RecoverPermissionsByStatus ==
    LET Lost(r, k) == status[r] = "waiting_approval" /\ perm[r][k] = "pending" IN
    /\ Boot("boot_permissions", "boot_queued")
    /\ perm' = [r \in Runs |-> [k \in Calls |-> IF Lost(r, k) THEN "denied" ELSE perm[r][k]]]
    /\ UNCHANGED <<status, awaiting, message, content, tool, log, task, loop, locks, req, history>>

RecoverPermissions ==
    LET Lost(r, k) == awaiting[r] /\ perm[r][k] = "pending" IN
    /\ Boot("boot_permissions", "boot_queued")
    /\ perm' = [r \in Runs |-> [k \in Calls |-> IF Lost(r, k) THEN "denied" ELSE perm[r][k]]]
    /\ decided' = [r \in Runs |-> [k \in Calls |->
                     IF Lost(r, k) THEN decided[r][k] \cup {"denied"} ELSE decided[r][k]]]
    /\ UNCHANGED <<status, awaiting, message, content, tool, log, task, loop, locks, req, ran>>

\* Mutant: queued runs are not enqueued again.
EnqueueNothing ==
    /\ Boot("boot_queued", "up")
    /\ UNCHANGED <<rows, log, task, loop, locks, req, history>>

EnqueueQueued ==
    /\ Boot("boot_queued", "up")
    /\ task' = [r \in Runs |-> IF status[r] = "queued" THEN "fetch" ELSE "none"]
    /\ UNCHANGED <<rows, log, loop, locks, req, history>>

-----------------------------------------------------------------------------
(* The whole system.                                                       *)

TaskStep(r) ==
    \/ Announce(r) \/ AcquireConversation(r) \/ InsertMessage(r) \/ StartRun(r)
    \/ EmitStarted(r) \/ LoadContext(r) \/ CallModel(r) \/ ReadAnswer(r)
    \/ AppendDelta(r) \/ EmitDelta(r) \/ TakeReply(r)
    \/ StartTool(r) \/ InsertTool(r) \/ ReadPolicy(r) \/ InsertPermission(r)
    \/ MarkWaiting(r) \/ EmitRequested(r) \/ Poll(r) \/ Resume(r)
    \/ ExecuteTool(r) \/ ToolReturns(r) \/ EmitOutput(r) \/ SaveTool(r)
    \/ EmitFinished(r) \/ RecordTool(r) \/ CancelTool(r) \/ FailTool(r)
    \/ EmitToolFailed(r) \/ FinishMessage(r) \/ EmitMessageCompleted(r)
    \/ CompleteRun(r) \/ EmitCompleted(r) \/ MarkCancelled(r)
    \/ FailRun(r) \/ FailMessage(r) \/ EmitFailure(r) \/ EmitFailed(r)
    \/ InterruptRun(r) \/ InterruptMessage(r)

HandlerStep(h) ==
    \/ LockForCancel(h) \/ ReadStartedTools(h) \/ DenyPermission(h) \/ StopTool(h)
    \/ CancelRow(h) \/ EmitDenied(h) \/ EmitStopped(h) \/ EmitCancelError(h)
    \/ EmitCancelled(h) \/ Decide(h) \/ EmitResolved(h)

ClientStep ==
    \/ \E r \in Runs : SubmitPrompt(r)
    \/ \E old, r \in Runs : RetryRun(old, r)
    \/ \E h \in Clients, r \in Runs : RequestCancel(h, r)
    \/ \E h \in Clients, r \in Runs, k \in Calls, d \in Decisions : RequestResolve(h, r, k, d)

BootStep == RecoverRunning \/ RecoverWaiting \/ RecoverPermissions \/ EnqueueQueued

Next ==
    \/ \E r \in Runs : TaskStep(r)
    \/ \E h \in Clients : HandlerStep(h)
    \/ ClientStep
    \/ Shutdown \/ Stopped \/ Crash
    \/ BootStep

Spec == Init /\ [][Next]_vars

\* The event loop runs every coroutine that can go on; model calls, tools and
\* statements have timeouts; the backend is started again after it stops.
Fairness ==
    /\ \A r \in Runs : WF_vars(TaskStep(r))
    /\ \A h \in Clients : WF_vars(HandlerStep(h))
    /\ WF_vars(Stopped) /\ WF_vars(BootStep)

FairSpec == Spec /\ Fairness

-----------------------------------------------------------------------------
(* Properties.                                                             *)

Places == {"none"} \cup Waiting \cup InBody
HandlerPlaces == {"idle", "cancel", "tools", "cleanup", "announce", "cancelled",
    "decide", "decided", "done"}
Handler == [place : HandlerPlaces, run : Runs \cup {Nobody}, call : Nat,
            decision : Decisions \cup {""}, perms : SUBSET Calls, denied : SUBSET Calls,
            tools : SUBSET Calls, stopped : SUBSET Calls]

TypeOK ==
    /\ status \in [Runs -> {"absent", "queued"} \cup Active \cup Terminal]
    /\ awaiting \in [Runs -> BOOLEAN]
    /\ message \in [Runs -> {"none", "streaming", "completed", "failed", "cancelled", "interrupted"}]
    /\ content \in [Runs -> Nat]
    /\ tool \in [Runs -> [Calls -> {"none", "started", "success", "failed", "cancelled"}]]
    /\ perm \in [Runs -> [Calls -> {"none", "pending"} \cup Decisions]]
    /\ log \in [Runs -> Seq(LogEntry)]
    /\ task \in [Runs -> Places]
    /\ iteration \in [Runs -> Nat]
    /\ calls \in [Runs -> Nat]
    /\ convLock \in [Conversations -> Runs \cup {Nobody}]
    /\ eventLock \in [Runs -> Runs \cup Clients \cup {Nobody}]
    /\ req \in [Clients -> Handler]
    /\ server \in {"up", "stopping", "down", "boot_waiting", "boot_permissions", "boot_queued"}
    /\ stops \in Nat
    /\ crashes \in Nat
    /\ ran \in [Runs -> SUBSET Nat]
    /\ decided \in [Runs -> [Calls -> SUBSET Decisions]]

\* A conversation has at most one run that is running or waiting for approval,
\* across cancellations, shutdowns, crashes and recovery.
OneActiveRun ==
    \A r, q \in Runs :
        /\ ConvOf[r] = ConvOf[q]
        /\ {status[r], status[q]} \subseteq Active
        => r = q

\* While the backend serves, every run that is not terminal has a coroutine that
\* will carry it on: no failure path, cancellation or recovery leaves one behind.
NoOrphanRun ==
    server = "up" =>
        \A r \in Runs : status[r] \notin Terminal \cup {"absent"} => task[r] # "none"

Count(r, type) == Cardinality({i \in DOMAIN log[r] : log[r][i].type = type})

\* Recovery enqueues again only what never began: no run starts twice and no tool
\* call is started twice, whatever sequence of restarts the run meets.
StartedOnce ==
    \A r \in Runs :
        /\ Count(r, "run.started") <= 1
        /\ \A i, j \in DOMAIN log[r] :
             log[r][i].type = "tool.started" /\ log[r][i] = log[r][j] => i = j

\* A call that asked for permission executes only after a user approved it, even
\* when the answer races with a cancellation or with another answer.
ToolsNeedApproval ==
    \A r \in Runs : \A k \in ran[r] :
        perm[r][k] # "none" => "approved" \in decided[r][k]

\* The stored text and the announced deltas agree; only a chunk that is being
\* announced, or whose announcement an interruption cut off, may be ahead.
DeltasMatchContent ==
    \A r \in Runs :
        LET deltas == Count(r, "message.delta") IN
        /\ deltas <= content[r] /\ content[r] <= deltas + 1
        /\ task[r] \in Trying \ {"delta_emit"} => content[r] = deltas

Announced(r) == {log[r][i].outcome : i \in {j \in DOMAIN log[r] : log[r][j].type = "run.completed"}}

\* A run announced as completed or failed is that in every table: its row, its
\* message and, for a completed one, each of its tool calls.
OutcomeIsTrue ==
    \A r \in Runs :
        /\ "completed" \in Announced(r) =>
             /\ status[r] = "completed" /\ message[r] = "completed"
             /\ Count(r, "message.completed") = 1
             /\ \A k \in Calls : tool[r][k] \in {"none", "success"}
        /\ "failed" \in Announced(r) => status[r] = "failed" /\ message[r] = "failed"

\* Once the backend serves again, a run interrupted while it awaited approval has
\* no permission left to answer, even if a crash cut the first recovery short.
RecoveryDeniesPending ==
    server = "up" => \A r \in Runs : awaiting[r] => Pending(r) = {}

\* After a run's terminal event its status stays and it emits nothing but the
\* run.queued of a submission that was still announcing it.
TerminalIsFinal ==
    [][\A r \in Runs : Announced(r) # {} =>
         /\ status'[r] = status[r]
         /\ \A i \in DOMAIN log'[r] \ DOMAIN log[r] : log'[r][i].type = "run.queued"]_vars

\* A run that is cancelled stays cancelled.
CancelIsFinal ==
    [][\A r \in Runs : Cancelled(r) => status'[r] = "cancelled"]_vars

\* Before a cancellation's terminal event what the run left open is closed: every
\* tool.started has its tool.finished, and no permission stays pending.
CleanupBeforeTerminal ==
    \A r \in Runs : "cancelled" \in Announced(r) =>
        /\ Count(r, "tool.started") = Count(r, "tool.finished")
        /\ Pending(r) = {}

\* Once the backend serves again no run that has ended has a permission pending.
NoPermissionOutlivesRun ==
    server = "up" => \A r \in Runs : status[r] = "interrupted" => Pending(r) = {}

\* No run is left waiting for an answer that the user does not give.
NoneWaitsForGood == <>[](\A r \in Runs : status[r] # "waiting_approval")

\* A queued run ends, whatever cancellation, failure, shutdown or crash it meets, as long as
\* none waits for good.
QueuedRunsEnd ==
    NoneWaitsForGood => \A r \in Runs : status[r] = "queued" ~> status[r] \in Terminal

\* A cancelled run's coroutine stops and gives its conversation back, when its turn comes.
CancelledRunsStop ==
    NoneWaitsForGood => \A r \in Runs : Cancelled(r) ~> task[r] = "none"

\* An answered permission releases the run that waits for it.
AnswerReleasesRun ==
    \A r \in Runs, k \in Calls : decided[r][k] # {} ~> status[r] \in Terminal

-----------------------------------------------------------------------------
(* The abstract promise, with what was announced read off the event log.   *)

AnnouncedAs(r) ==
    IF Announced(r) = {} THEN "none" ELSE CHOOSE o \in Announced(r) : TRUE

Promise == INSTANCE RunStatus WITH
    state <- status, announced <- [r \in Runs |-> AnnouncedAs(r)]

ImplementsRunStatus == Promise!Spec
=============================================================================
