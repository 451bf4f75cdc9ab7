----------------------------- MODULE ChatServer -----------------------------
(***************************************************************************)
(* What a page of the browser sees of the backend: the rows that GET       *)
(* /conversations/{id}/messages returns, the status of runs and the events *)
(* of a conversation's stream, in the order the run manager writes them    *)
(* (api/conversations.py, api/runs.py, api/permissions.py,                 *)
(* agent/runner.py).  It is RunLifecycle with its inner steps left out:    *)
(* what stays apart is what a page can tell apart, a chunk stored and the  *)
(* same chunk announced above all.                                         *)
(***************************************************************************)
EXTENDS Naturals, Sequences

CONSTANTS
    Conversations,   \* conversation ids
    NoConversation,  \* no conversation
    MaxRuns,         \* bound: runs, by prompts and by retries
    MaxChunks        \* bound: chunks of text a run streams

ASSUME ServerAssumption ==
    /\ NoConversation \notin Conversations
    /\ MaxRuns \in Nat
    /\ MaxChunks \in Nat

Runs == 1 .. MaxRuns    \* in the order they are inserted
NoRun == 0
Active == {"running", "waiting_approval"}
Unfinished == {"queued"} \cup Active
Statuses == {"queued", "running", "waiting_approval",
             "completed", "failed", "cancelled"}

VARIABLES
    conv,       \* runs.conversation_id; NoConversation before the row exists
    status,     \* runs.status
    tool,       \* the run's one tool call: "none", "asked" (for approval), "ended"
    said,       \* chunks of the run announced by message.delta
    rows,       \* the messages of a conversation, by created_at
    events      \* the events of a conversation, by id

serverVars == <<conv, status, tool, said, rows, events>>

(***************************************************************************)
(* A message: its id, the run its row names and the chunks of its text.    *)
(* In a page its card is the state of the tool call shown with it.         *)
(***************************************************************************)
Ids == {"prompt", "reply", "temp"} \X Runs
Cards == {"none", "running", "ended"}
Messages == [id: Ids, run: Runs \cup {NoRun}, text: Nat, card: Cards]
Message(id, run, text, card) ==
    [id |-> id, run |-> run, text |-> text, card |-> card]

EventTypes ==
    {"run.queued", "run.started", "tool.started", "permission.requested",
     "permission.resolved", "tool.finished", "message.delta", "run.completed"}
Events == [type: EventTypes, run: Runs]
Event(type, r) == [type |-> type, run |-> r]

ServerTypeOK ==
    /\ conv \in [Runs -> Conversations \cup {NoConversation}]
    /\ status \in [Runs -> Statuses]
    /\ tool \in [Runs -> {"none", "asked", "ended"}]
    /\ said \in [Runs -> Nat]
    /\ rows \in [Conversations -> Seq(Messages)]
    /\ events \in [Conversations -> Seq(Events)]

ServerInit ==
    /\ conv = [r \in Runs |-> NoConversation]
    /\ status = [r \in Runs |-> "queued"]
    /\ tool = [r \in Runs |-> "none"]
    /\ said = [r \in Runs |-> 0]
    /\ rows = [c \in Conversations |-> <<>>]
    /\ events = [c \in Conversations |-> <<>>]

Exists(r) == conv[r] # NoConversation
IsNext(r) == /\ ~Exists(r)
             /\ \A q \in Runs : q < r => Exists(q)
Emit(c, news) == events' = [events EXCEPT ![c] = @ \o news]
Stored(r) ==   \* the text of the run's row
    LET mine == {i \in DOMAIN rows[conv[r]] : rows[conv[r]][i].id = <<"reply", r>>}
    IN  IF mine = {} THEN 0 ELSE rows[conv[r]][CHOOSE i \in mine : TRUE].text

\* submit_prompt: the user's message and its run, then run.queued.
Accept(r, c) ==
    /\ IsNext(r)
    /\ conv' = [conv EXCEPT ![r] = c]
    /\ rows' = [rows EXCEPT ![c] = Append(@, Message(<<"prompt", r>>, r, 0, "none"))]
    /\ Emit(c, <<Event("run.queued", r)>>)
    /\ UNCHANGED <<status, tool, said>>

\* retry_run, whatever the status of the old run: a second run of the same message.
AcceptRetry(old, r) ==
    /\ Exists(old)
    /\ IsNext(r)
    /\ conv' = [conv EXCEPT ![r] = conv[old]]
    /\ Emit(conv[old], <<Event("run.queued", r)>>)
    /\ UNCHANGED <<status, tool, said, rows>>

\* The runs of a conversation take turns, in the order they were queued.
StartRun(r) ==
    /\ Exists(r)
    /\ status[r] = "queued"
    /\ \A q \in Runs : conv[q] = conv[r] =>
           /\ status[q] \notin Active
           /\ status[q] = "queued" => q >= r
    /\ status' = [status EXCEPT ![r] = "running"]
    /\ rows' = [rows EXCEPT ![conv[r]] =
                    Append(@, Message(<<"reply", r>>, r, 0, "none"))]
    /\ Emit(conv[r], <<Event("run.started", r)>>)
    /\ UNCHANGED <<conv, tool, said>>

AskApproval(r) ==
    /\ status[r] = "running"
    /\ tool[r] = "none"
    /\ said[r] = Stored(r)
    /\ status' = [status EXCEPT ![r] = "waiting_approval"]
    /\ tool' = [tool EXCEPT ![r] = "asked"]
    /\ Emit(conv[r], <<Event("tool.started", r), Event("permission.requested", r)>>)
    /\ UNCHANGED <<conv, said, rows>>

\* resolve_permission and what the run does next.
AcceptAnswer(r) ==
    /\ status[r] = "waiting_approval"
    /\ status' = [status EXCEPT ![r] = "running"]
    /\ tool' = [tool EXCEPT ![r] = "ended"]
    /\ Emit(conv[r], <<Event("permission.resolved", r), Event("tool.finished", r)>>)
    /\ UNCHANGED <<conv, said, rows>>

\* _append_assistant_delta: the row is written, and only then the event.
Longer(ms, r) ==
    [i \in DOMAIN ms |-> IF ms[i].id = <<"reply", r>> THEN [ms[i] EXCEPT !.text = @ + 1] ELSE ms[i]]

StoreChunk(r) ==
    /\ status[r] = "running"
    /\ said[r] = Stored(r)
    /\ said[r] < MaxChunks
    /\ rows' = [rows EXCEPT ![conv[r]] = Longer(@, r)]
    /\ UNCHANGED <<conv, status, tool, said, events>>

AnnounceChunk(r) ==
    /\ status[r] = "running"
    /\ said[r] < Stored(r)
    /\ said' = [said EXCEPT ![r] = @ + 1]
    /\ Emit(conv[r], <<Event("message.delta", r)>>)
    /\ UNCHANGED <<conv, status, tool, rows>>

EndRun(r) ==
    /\ status[r] = "running"
    /\ said[r] = Stored(r)
    /\ \E end \in {"completed", "failed"} : status' = [status EXCEPT ![r] = end]
    /\ Emit(conv[r], <<Event("run.completed", r)>>)
    /\ UNCHANGED <<conv, tool, said, rows>>

\* cancel_run: pending permissions and tools are closed before the end is told.
AcceptCancel(r) ==
    /\ Exists(r)
    /\ status[r] \in Unfinished
    /\ status' = [status EXCEPT ![r] = "cancelled"]
    /\ tool' = [tool EXCEPT ![r] = IF @ = "asked" THEN "ended" ELSE @]
    /\ Emit(conv[r],
            (IF tool[r] = "asked"
             THEN <<Event("permission.resolved", r), Event("tool.finished", r)>>
             ELSE <<>>)
            \o <<Event("run.completed", r)>>)
    /\ UNCHANGED <<conv, said, rows>>

\* What the backend does by itself.
RunStep(r) == StartRun(r) \/ AskApproval(r) \/ StoreChunk(r) \/ AnnounceChunk(r) \/ EndRun(r)
=============================================================================
