----------------------------- MODULE ChatClient -----------------------------
(***************************************************************************)
(* One page of the browser client: the hook useDelamainBackend             *)
(* (frontend/hooks/useDelamainBackend.ts) with the stream of useSSE        *)
(* (frontend/lib/sse.ts) and the buttons that act on runs, against         *)
(* ChatServer.                                                             *)
(*                                                                         *)
(* JavaScript runs one task at a time.  A task is a click, an answer, an   *)
(* event of the stream, a timer, or React's pass over the effects of the   *)
(* last render; each is one action, and so is each thing the backend does  *)
(* with a request.  After a click React runs the effects at once, after    *)
(* anything else in a later task: until then the stream of the             *)
(* conversation left is open, and its events reach the handler of the one  *)
(* entered.                                                                *)
(*                                                                         *)
(* A text is a number of chunks: a chunk applied twice, or lost, shows.    *)
(***************************************************************************)
EXTENDS ChatServer, FiniteSets

CONSTANTS
    Initial,        \* the conversations that may exist when the page loads
    MaxSends,       \* bound: prompts
    Disturbances,   \* what may happen to a page: clicks, "gate", "slow", "reload", "tab"
    MaxDisturbances \* bound: how often, all together

Buttons == {"select", "new", "cancel", "retry", "resolve"}
Sends == 1 .. MaxSends

ASSUME ClientAssumption ==
    /\ Initial \subseteq Conversations
    /\ MaxSends \in 0 .. MaxRuns
    /\ MaxDisturbances \in Nat
    /\ Disturbances \subseteq Buttons \cup {"gate", "slow", "reload", "tab"}

VARIABLES
    gate,        \* the way to the backend: "open", "down", "auth" (a sign-in is asked for)
    existing,    \* the conversations the backend has
    listed,      \* the ids of state.conversations
    connection,  \* state.connection
    load,        \* the load under way: its step and what it has read
    stale,       \* a load that was superseded is still waiting for an answer
    active,      \* state.activeConversationId
    messages,    \* conversation.messages
    shown,       \* conversation.runStatus; "none" before it is set
    card,        \* state.permissions: "none", "pending", "resolved"
    stream,      \* the conversation whose EventSource is open
    stored,      \* the last event id in localStorage
    position,    \* lastEventIdRef: the last event id of the stream
    fetch,       \* the message fetch of the last switch
    send,        \* submitPrompt: where the request stands, one per prompt
    clicks,      \* cancel, retry and resolve requests on their way
    disturbed,   \* how often something of Disturbances happened
    seen,        \* history: the last event this page handled for a conversation
    exact,       \* history: runs whose shown text stands where the stream stands
    overtaken,   \* history: conversations whose shown status is not an event's
    skipped,     \* history: conversations with an event this page did not handle for them
    crossed      \* history: prompts that a fetch brought before their own answer

pageVars == <<connection, load, stale, listed, active, messages, shown, card,
              stream, position, fetch>>
netVars == <<send, clicks>>
history == <<seen, exact, overtaken, skipped, crossed>>
vars == <<serverVars, gate, existing, pageVars, stored, netVars, disturbed, history>>

NoLoad == [step |-> "none", first |-> NoConversation, rows |-> <<>>]
NoFetch == [step |-> "none", conv |-> NoConversation, rows |-> <<>>]
NoSend == [step |-> "none", conv |-> NoConversation, run |-> NoRun]
Connected == connection = "connected"

TypeOK ==
    /\ ServerTypeOK
    /\ gate \in {"open", "down", "auth"}
    /\ existing \subseteq Conversations /\ listed \subseteq Conversations
    /\ connection \in {"probing", "connected", "offline", "auth_required"}
    /\ load \in [step: {"none", "health", "lists", "messages", "apply"},
                 first: Conversations \cup {NoConversation}, rows: Seq(Messages)]
    /\ stale \in BOOLEAN
    /\ active \in Conversations \cup {NoConversation}
    /\ messages \in [Conversations -> Seq(Messages)]
    /\ shown \in [Conversations -> Statuses \cup {"none"}]
    /\ card \in [Runs -> {"none", "pending", "resolved"}]
    /\ stream \in Conversations \cup {NoConversation}
    /\ stored \in [Conversations -> Nat]
    /\ position \in Nat
    /\ fetch \in [step: {"none", "out", "back"},
                  conv: Conversations \cup {NoConversation}, rows: Seq(Messages)]
    /\ send \in [Sends -> [step: {"none", "out", "back", "done"},
                          conv: Conversations \cup {NoConversation},
                          run: Runs \cup {NoRun}]]
    /\ clicks \subseteq [op: {"cancel", "retry", "resolve"}, run: Runs, step: {"out", "back"}]
    /\ disturbed \in 0 .. MaxDisturbances
    /\ seen \in [Conversations -> Nat]
    /\ exact \subseteq Runs /\ crossed \subseteq Runs
    /\ overtaken \subseteq Conversations /\ skipped \subseteq Conversations

Init ==
    /\ ServerInit
    /\ gate = "open"
    /\ existing \in SUBSET Initial /\ listed = {}
    /\ connection = "probing" /\ load = [NoLoad EXCEPT !.step = "health"] /\ stale = FALSE
    /\ active = NoConversation /\ stream = NoConversation /\ position = 0 /\ fetch = NoFetch
    /\ messages = [c \in Conversations |-> <<>>]
    /\ shown = [c \in Conversations |-> "none"]
    /\ card = [r \in Runs |-> "none"]
    /\ stored = [c \in Conversations |-> 0]
    /\ send = [a \in Sends |-> NoSend] /\ clicks = {}
    /\ disturbed = 0
    /\ seen = [c \in Conversations |-> 0]
    /\ exact = Runs /\ overtaken = {} /\ skipped = {} /\ crossed = {}

Disturb(what) ==
    /\ what \in Disturbances
    /\ disturbed < MaxDisturbances
    /\ disturbed' = disturbed + 1

-----------------------------------------------------------------------------
(* What a page shows, and what it should show. *)

Has(ms, id) == \E i \in DOMAIN ms : ms[i].id = id
TextOf(ms, r) == IF Has(ms, <<"reply", r>>)
                 THEN ms[CHOOSE i \in DOMAIN ms : ms[i].id = <<"reply", r>>].text
                 ELSE 0
\* The chunks of r among the first n events of c.
Heard(c, r, n) == Cardinality({i \in 1 .. n : events[c][i] = Event("message.delta", r)})
\* How far the page is in the events of c, should it follow them from here.
Place(c, strm, pos, st) == IF c = strm THEN pos ELSE st[c]
\* The runs whose text in ms is what the events say, up to there and to the stored id.
ExactRuns(ms, strm, pos, st) ==
    {r \in Runs : Exists(r) =>
         \A n \in {Place(conv[r], strm, pos, st), st[conv[r]]} :
             TextOf(ms[conv[r]], r) = Heard(conv[r], r, n)}

-----------------------------------------------------------------------------
(* handleSSE. *)

\* Mutants: the event's type is shown; a permission asked for is not a status.
StatusAsTyped(e, old) == IF e.type = "run.queued" THEN e.type ELSE old
StatusWithoutWaiting(e, old) ==
    CASE e.type = "run.queued" -> "queued"
      [] e.type = "run.started" -> "running"
      [] e.type = "run.completed" -> status[e.run]
      [] OTHER -> old

\* run.queued, run.started, run.completed and permission.requested set the status.
StatusAfter(e, old) ==
    CASE e.type = "run.queued" -> "queued"
      [] e.type = "run.started" -> "running"
      [] e.type = "permission.requested" -> "waiting_approval"
      [] e.type = "run.completed" -> status[e.run]
      [] OTHER -> old
SetsStatus(e) ==
    e.type \in {"run.queued", "run.started", "permission.requested", "run.completed"}

\* Mutant: an answer given elsewhere is not heard.
CardUnsettled(e) ==
    IF e.type = "permission.requested" THEN [card EXCEPT ![e.run] = "pending"] ELSE card

CardAfter(e) ==
    CASE e.type = "permission.requested" -> [card EXCEPT ![e.run] = "pending"]
      [] e.type = "permission.resolved" ->
           [card EXCEPT ![e.run] = IF @ = "none" THEN @ ELSE "resolved"]
      [] OTHER -> card

\* The reply of the run gets a chunk or a tool card, and is added when there is none.
Upsert(ms, r, chunk, shows) ==
    IF Has(ms, <<"reply", r>>)
    THEN [i \in DOMAIN ms |->
            IF ms[i].id = <<"reply", r>>
            THEN [ms[i] EXCEPT !.text = @ + chunk, !.card = IF shows = "none" THEN @ ELSE shows]
            ELSE ms[i]]
    ELSE Append(ms, Message(<<"reply", r>>, NoRun, chunk, shows))

AppendDelta(ms, r) == Upsert(ms, r, 1, "none")
ShowTool(ms, r) == Upsert(ms, r, 0, "running")

\* Mutant: only the output of tools is heard, not their end.
MessagesWithoutEnd(e, ms) ==
    CASE e.type = "message.delta" -> AppendDelta(ms, e.run)
      [] e.type = "tool.started" -> ShowTool(ms, e.run)
      [] OTHER -> ms

MessagesAfter(e, ms) ==
    CASE e.type = "message.delta" -> AppendDelta(ms, e.run)
      [] e.type = "tool.started" -> ShowTool(ms, e.run)
      [] e.type = "tool.finished" ->
           [i \in DOMAIN ms |-> IF ms[i].id = <<"reply", e.run>> /\ ms[i].card # "none"
                                THEN [ms[i] EXCEPT !.card = "ended"] ELSE ms[i]]
      [] OTHER -> ms

\* Mutant: the id of the event is not stored.
HandleUnstored ==
    LET c == stream
        e == events[c][position + 1]
        stray == active # c
    IN  /\ c # NoConversation
        /\ position < Len(events[c])
        /\ position' = position + 1
        /\ card' = CardAfter(e)
        /\ IF active = NoConversation THEN UNCHANGED <<messages, shown>>
           ELSE /\ messages' = [messages EXCEPT ![active] = MessagesAfter(e, @)]
                /\ shown' = [shown EXCEPT ![active] = StatusAfter(e, @)]
        /\ seen' = [seen EXCEPT ![c] = position + 1]
        /\ skipped' = IF stray THEN skipped \cup ({c, active} \ {NoConversation})
                    ELSE skipped
        /\ exact' = IF stray THEN exact \ {e.run} ELSE exact
        /\ overtaken' = IF SetsStatus(e) /\ ~stray THEN overtaken \ {c} ELSE overtaken
        /\ UNCHANGED <<serverVars, gate, existing, connection, load, stale, listed,
                       active, stream, stored, fetch, netVars, disturbed, crossed>>

(***************************************************************************)
(* An event arrives: its id is stored under the conversation of the        *)
(* stream, and the handler of the last render applies it to the active     *)
(* conversation.                                                           *)
(***************************************************************************)
HandleEvent ==
    LET c == stream
        e == events[c][position + 1]
        stray == active # c
    IN  /\ c # NoConversation
        /\ position < Len(events[c])
        /\ position' = position + 1
        /\ stored' = [stored EXCEPT ![c] = position + 1]
        /\ card' = CardAfter(e)
        /\ IF active = NoConversation THEN UNCHANGED <<messages, shown>>
           ELSE /\ messages' = [messages EXCEPT ![active] = MessagesAfter(e, @)]
                /\ shown' = [shown EXCEPT ![active] = StatusAfter(e, @)]
        /\ seen' = [seen EXCEPT ![c] = position + 1]
        /\ skipped' = IF stray THEN skipped \cup ({c, active} \ {NoConversation})
                    ELSE skipped
        /\ exact' = IF stray THEN exact \ {e.run} ELSE exact
        /\ overtaken' = IF SetsStatus(e) /\ ~stray THEN overtaken \ {c} ELSE overtaken
        /\ UNCHANGED <<serverVars, gate, existing, connection, load, stale, listed,
                       active, stream, fetch, netVars, disturbed, crossed>>

-----------------------------------------------------------------------------
(* Effects: the stream and the message fetch follow connection and active. *)

Wanted(conn, act) == IF conn = "connected" THEN act ELSE NoConversation

\* Close what is open, read the stored id, connect, fetch.
Follow(c) ==
    /\ stream' = c
    /\ position' = IF c = NoConversation THEN 0 ELSE stored[c]
    /\ fetch' = IF c = NoConversation THEN NoFetch ELSE [NoFetch EXCEPT !.step = "out", !.conv = c]
    /\ skipped' = IF c # NoConversation /\ stored[c] # seen[c] THEN skipped \cup {c} ELSE skipped

\* Mutant: the effects follow the active conversation, not the connection.
RunEffectsOfSwitch ==
    /\ stream # NoConversation /\ stream # Wanted(connection, active)
    /\ Follow(Wanted(connection, active))
    /\ UNCHANGED <<serverVars, gate, existing, connection, load, stale, listed, active, messages,
                   shown, card, stored, netVars, disturbed, seen, exact, overtaken, crossed>>

RunEffects ==
    /\ stream # Wanted(connection, active)
    /\ Follow(Wanted(connection, active))
    /\ UNCHANGED <<serverVars, gate, existing, connection, load, stale, listed, active, messages,
                   shown, card, stored, netVars, disturbed, seen, exact, overtaken, crossed>>

\* handleSelectConversation: a click, so that the effects run at once.
SelectConversation(c) ==
    /\ c \in listed /\ c # active
    /\ Disturb("select")
    /\ active' = c
    /\ Follow(Wanted(connection, c))
    /\ UNCHANGED <<serverVars, gate, existing, connection, load, stale, listed, messages, shown,
                   card, stored, netVars, seen, exact, overtaken, crossed>>

(***************************************************************************)
(* handleNewConversation: the answer of the backend, or a conversation of  *)
(* the page's own when there is none.                                      *)
(***************************************************************************)
NewConversation(c) ==
    /\ c \notin existing \cup listed
    /\ Disturb("new")
    /\ Connected => gate = "open"
    /\ existing' = IF Connected THEN existing \cup {c} ELSE existing
    /\ listed' = listed \cup {c}
    /\ active' = c
    /\ UNCHANGED <<serverVars, gate, connection, load, stale, messages, shown, card, stream,
                   stored, position, fetch, netVars, history>>

\* handleBackendError: a sign-in asked for, by any answer, ends the connection.
AfterError(conn) == IF gate = "auth" THEN "auth_required" ELSE conn

AnswerFetch ==
    /\ fetch.step = "out" /\ gate = "open"
    /\ fetch' = [fetch EXCEPT !.step = "back", !.rows = rows[fetch.conv]]
    /\ UNCHANGED <<serverVars, gate, existing, connection, load, stale, listed, active, messages,
                   shown, card, stream, position, stored, netVars, disturbed, history>>

FetchFails ==
    /\ fetch.step = "out" /\ gate # "open"
    /\ fetch' = NoFetch
    /\ connection' = AfterError(connection)
    /\ UNCHANGED <<serverVars, gate, existing, load, stale, listed, active, messages, shown, card,
                   stream, position, stored, netVars, disturbed, history>>

\* Mutant: what is shown stays, also what the rows have.
MergeAll(current, fetched) == fetched \o current

\* The members of a set of numbers, in their order.
Nth(S, n) == CHOOSE i \in S : Cardinality({j \in S : j < i}) = n - 1

\* mergeFetchedMessages: the rows win, but for the tool calls; what is not in them stays.
MergeFetched(current, fetched) ==
    LET kept == {j \in DOMAIN current : ~Has(fetched, current[j].id)}
    IN  [i \in DOMAIN fetched |->
            IF Has(current, fetched[i].id)
            THEN [fetched[i] EXCEPT !.card =
                     current[CHOOSE j \in DOMAIN current : current[j].id = fetched[i].id].card]
            ELSE fetched[i]]
        \o [n \in 1 .. Cardinality(kept) |-> current[Nth(kept, n)]]

\* Prompts among ms whose own answer has still to come, or never will.
Unanswered(c, ms) ==
    {r \in Runs : Has(ms, <<"prompt", r>>)
                  /\ \E a \in Sends : send[a].run = r /\ Has(messages[c], <<"temp", a>>)}

ApplyFetch ==
    LET c == fetch.conv
    IN  /\ fetch.step = "back"
        /\ fetch' = NoFetch
        /\ messages' = [messages EXCEPT ![c] = MergeFetched(@, fetch.rows)]
        /\ exact' = ExactRuns(messages', stream, position, stored)
        /\ crossed' = crossed \cup Unanswered(c, fetch.rows)
        /\ UNCHANGED <<serverVars, gate, existing, connection, load, stale, listed, active, shown,
                       card, stream, position, stored, netVars, disturbed, seen, overtaken,
                       skipped>>

-----------------------------------------------------------------------------
(* The load of the page, and of the page that lost the backend. *)

\* A load begins and supersedes the one under way, whose answers are ignored but for one.
BeginLoad ==
    /\ load' = [NoLoad EXCEPT !.step = "health"]
    /\ stale' = (stale \/ load.step # "none")

\* Mutant: a load that does not reach the backend leaves the page probing.
LoadGivesUp ==
    /\ load.step \in {"health", "lists"} /\ gate # "open"
    /\ load' = NoLoad
    /\ connection' = AfterError(connection)
    /\ UNCHANGED <<serverVars, gate, existing, stale, listed, active, messages, shown, card,
                   stream, position, fetch, stored, netVars, disturbed, history>>

LoadFails ==
    /\ load.step \in {"health", "lists"} /\ gate # "open"
    /\ load' = NoLoad
    /\ connection' = IF gate = "auth" THEN "auth_required" ELSE "offline"
    /\ UNCHANGED <<serverVars, gate, existing, stale, listed, active, messages, shown, card,
                   stream, position, fetch, stored, netVars, disturbed, history>>

\* health, then the lists with what is optional, then the messages of the first conversation.
LoadStep ==
    /\ gate = "open"
    /\ \/ /\ load.step = "health"
          /\ load' = [load EXCEPT !.step = "lists"]
       \/ /\ load.step = "lists"
          /\ \E c \in IF existing = {} THEN {NoConversation} ELSE existing :
                load' = [load EXCEPT !.step = "messages", !.first = c]
       \/ /\ load.step = "messages"
          /\ load' = [load EXCEPT !.step = "apply",
                                  !.rows = IF load.first = NoConversation THEN <<>>
                                           ELSE rows[load.first]]
    /\ UNCHANGED <<serverVars, gate, existing, connection, stale, listed, active, messages, shown,
                   card, stream, position, fetch, stored, netVars, disturbed, history>>

\* The messages may fail and leave the load as it is.
LoadWithout ==
    /\ load.step = "messages" /\ gate # "open"
    /\ load' = [load EXCEPT !.step = "apply"]
    /\ UNCHANGED <<serverVars, gate, existing, connection, stale, listed, active, messages, shown,
                   card, stream, position, fetch, stored, netVars, disturbed, history>>

\* All conversations are replaced, with their messages and statuses, and the first is active.
ApplyLoad ==
    /\ load.step = "apply"
    /\ load' = NoLoad
    /\ connection' = "connected"
    /\ listed' = existing
    /\ active' = load.first
    /\ messages' = [c \in Conversations |-> IF c = load.first THEN load.rows ELSE <<>>]
    /\ shown' = [c \in Conversations |-> "none"]
    /\ exact' = ExactRuns(messages', stream, position, stored)
    /\ overtaken' = Conversations
    /\ UNCHANGED <<serverVars, gate, existing, stale, card, stream, position, fetch, stored,
                   netVars, disturbed, seen, skipped, crossed>>

\* The interval while offline, and the banner's button; a load slower than that starts over.
Probe ==
    /\ connection = "offline"
    /\ IF load.step = "none" THEN UNCHANGED disturbed ELSE Disturb("slow")
    /\ BeginLoad
    /\ connection' \in {"offline", "probing"}
    /\ UNCHANGED <<serverVars, gate, existing, listed, active, messages, shown, card, stream,
                   position, fetch, stored, netVars, history>>

\* A superseded load looks at its errors before it looks whether it was superseded.
StaleLoadEnds ==
    /\ stale
    /\ stale' = FALSE
    /\ connection' = AfterError(connection)
    /\ UNCHANGED <<serverVars, gate, existing, load, listed, active, messages, shown, card, stream,
                   position, fetch, stored, netVars, disturbed, history>>

\* handleRefreshHealth.
RefreshHealth ==
    /\ Connected /\ gate # "open"
    /\ connection' = IF gate = "auth" THEN "auth_required" ELSE "offline"
    /\ UNCHANGED <<serverVars, gate, existing, load, stale, listed, active, messages, shown, card,
                   stream, position, fetch, stored, netVars, disturbed, history>>

-----------------------------------------------------------------------------
(* handleSend without its commands; handleCancelRun, handleRetryRun,        *)
(* handleResolvePermission and the buttons that lead to them.              *)

Send(a) ==
    LET c == active
    IN  /\ c # NoConversation
        /\ send[a].step = "none" /\ \A b \in Sends : b < a => send[b].step # "none"
        /\ messages' = [messages EXCEPT ![c] = Append(@, Message(<<"temp", a>>, NoRun, 0, "none"))]
        /\ send' = [send EXCEPT ![a] = [step |-> IF Connected THEN "out" ELSE "done",
                                        conv |-> c, run |-> NoRun]]
        /\ UNCHANGED <<serverVars, gate, existing, connection, load, stale, listed, active, shown,
                       card, stream, position, fetch, stored, clicks, disturbed, history>>

TakeSend(a) ==
    /\ send[a].step = "out" /\ gate = "open"
    /\ \E r \in Runs :
          /\ Accept(r, send[a].conv)
          /\ send' = [send EXCEPT ![a].step = "back", ![a].run = r]
    /\ UNCHANGED <<gate, existing, pageVars, stored, clicks, disturbed, history>>

\* The answer gives the message its id and run, and the status the run had when it was queued.
Rename(ms, a, r) ==
    [i \in DOMAIN ms |-> IF ms[i].id = <<"temp", a>>
                         THEN [ms[i] EXCEPT !.id = <<"prompt", r>>, !.run = r] ELSE ms[i]]

QueuedAt(r) == CHOOSE i \in DOMAIN events[conv[r]] : events[conv[r]][i] = Event("run.queued", r)

ApplySent(a) ==
    LET c == send[a].conv
        r == send[a].run
    IN  /\ send[a].step = "back"
        /\ send' = [send EXCEPT ![a].step = "done"]
        /\ messages' = [messages EXCEPT ![c] = Rename(@, a, r)]
        /\ shown' = [shown EXCEPT ![c] = "queued"]
        /\ overtaken' = IF Place(c, stream, position, stored) >= QueuedAt(r)
                        THEN overtaken \cup {c} ELSE overtaken
        /\ UNCHANGED <<serverVars, gate, existing, connection, load, stale, listed, active, card,
                       stream, position, fetch, stored, clicks, disturbed, seen, exact, skipped,
                       crossed>>

\* The backend was not reached, or its answer does not come.
FailSend(a) ==
    /\ send[a].step \in {"out", "back"} /\ gate # "open"
    /\ send' = [send EXCEPT ![a].step = "done"]
    /\ shown' = [shown EXCEPT ![send[a].conv] = "failed"]
    /\ connection' = AfterError(connection)
    /\ overtaken' = overtaken \cup {send[a].conv}
    /\ UNCHANGED <<serverVars, gate, existing, load, stale, listed, active, messages, card, stream,
                   position, fetch, stored, clicks, disturbed, seen, exact, skipped, crossed>>

\* RunControls: the last message that names a run says which run the buttons act on.
LastRun(ms) ==
    LET named == {i \in DOMAIN ms : ms[i].run # NoRun}
    IN  IF named = {} THEN NoRun
        ELSE ms[CHOOSE i \in named : \A j \in named : j <= i].run

\* PermissionModal shows one pending permission at a time; which one is left open.
AnswerOffered(r) == card[r] = "pending"

Offered(op, r) ==
    CASE op = "cancel" -> /\ active # NoConversation /\ LastRun(messages[active]) = r
                          /\ shown[active] \in Unfinished
      [] op = "retry" -> /\ active # NoConversation /\ LastRun(messages[active]) = r
                         /\ shown[active] \in {"failed", "cancelled"}
      [] OTHER -> AnswerOffered(r)

Click(op, r) ==
    /\ Connected /\ Offered(op, r)
    /\ Disturb(op)
    /\ clicks' = clicks \cup {[op |-> op, run |-> r, step |-> "out"]}
    /\ UNCHANGED <<serverVars, gate, existing, pageVars, stored, send, history>>

\* The backend answers; handleRetryRun looks for conversation_id in an answer that has none.
TakeClick(k) ==
    /\ k.step = "out" /\ gate = "open"
    /\ CASE k.op = "cancel" -> IF status[k.run] \in Unfinished THEN AcceptCancel(k.run)
                               ELSE UNCHANGED serverVars
         [] k.op = "retry" -> \E r \in Runs : AcceptRetry(k.run, r)
         [] OTHER -> IF status[k.run] = "waiting_approval" THEN AcceptAnswer(k.run)
                     ELSE UNCHANGED serverVars
    /\ clicks' = (clicks \ {k}) \cup
                 (IF k.op = "resolve" /\ status[k.run] = "waiting_approval"
                  THEN {[k EXCEPT !.step = "back"]} ELSE {})
    /\ UNCHANGED <<gate, existing, pageVars, stored, send, disturbed, history>>

ApplyResolved(k) ==
    /\ k.step = "back"
    /\ clicks' = clicks \ {k}
    /\ card' = [card EXCEPT ![k.run] = IF @ = "none" THEN @ ELSE "resolved"]
    /\ UNCHANGED <<serverVars, gate, existing, connection, load, stale, listed, active, messages,
                   shown, stream, position, fetch, stored, send, disturbed, history>>

LoseClick(k) ==
    /\ gate # "open"
    /\ clicks' = clicks \ {k}
    /\ connection' = AfterError(connection)
    /\ UNCHANGED <<serverVars, gate, existing, load, stale, listed, active, messages, shown, card,
                   stream, position, fetch, stored, send, disturbed, history>>

-----------------------------------------------------------------------------
(* The rest of the world. *)

Work(r) ==
    /\ RunStep(r)
    /\ UNCHANGED <<gate, existing, pageVars, stored, netVars, disturbed, history>>

ChangeGate ==
    /\ Disturb("gate")
    /\ gate' \in {"open", "down", "auth"} \ {gate}
    /\ UNCHANGED <<serverVars, existing, pageVars, stored, netVars, history>>

\* The user loads the page again: what React held is gone, what localStorage holds is not.
Reload ==
    /\ Disturb("reload")
    /\ connection' = "probing" /\ load' = [NoLoad EXCEPT !.step = "health"] /\ stale' = FALSE
    /\ listed' = {} /\ active' = NoConversation
    /\ stream' = NoConversation /\ position' = 0 /\ fetch' = NoFetch
    /\ messages' = [c \in Conversations |-> <<>>]
    /\ shown' = [c \in Conversations |-> "none"]
    /\ card' = [r \in Runs |-> "none"]
    /\ send' = [a \in Sends |-> IF send[a].step = "none" THEN NoSend
                               ELSE [send[a] EXCEPT !.step = "done"]]
    /\ clicks' = {}
    /\ seen' = [c \in Conversations |-> 0] /\ skipped' = {} /\ crossed' = {}
    /\ overtaken' = Conversations
    /\ exact' = ExactRuns(messages', stream', position', stored)
    /\ UNCHANGED <<serverVars, gate, existing, stored>>

\* Another tab follows c; the two share the stored id.
OtherTab(c) ==
    /\ Disturb("tab")
    /\ \E n \in (stored[c] + 1) .. Len(events[c]) : stored' = [stored EXCEPT ![c] = n]
    /\ exact' = exact \cap ExactRuns(messages, stream, position, stored')
    /\ UNCHANGED <<serverVars, gate, existing, pageVars, netVars, seen, overtaken,
                   skipped, crossed>>

Next ==
    \/ HandleEvent \/ RunEffects
    \/ AnswerFetch \/ FetchFails \/ ApplyFetch
    \/ LoadStep \/ LoadWithout \/ LoadFails \/ ApplyLoad
    \/ Probe \/ StaleLoadEnds \/ RefreshHealth
    \/ \E c \in Conversations : SelectConversation(c) \/ NewConversation(c) \/ OtherTab(c)
    \/ \E a \in Sends : Send(a) \/ TakeSend(a) \/ ApplySent(a) \/ FailSend(a)
    \/ \E op \in {"cancel", "retry", "resolve"}, r \in Runs : Click(op, r)
    \/ \E k \in clicks : TakeClick(k) \/ ApplyResolved(k) \/ LoseClick(k)
    \/ \E r \in Runs : Work(r)
    \/ ChangeGate \/ Reload

Spec == Init /\ [][Next]_vars

\* Answers, timers, effects and events come; users, the gate and other tabs need not.
FairSpec ==
    /\ Spec
    /\ WF_vars(RunEffects) /\ WF_vars(HandleEvent)
    /\ WF_vars(LoadStep) /\ WF_vars(LoadWithout) /\ WF_vars(LoadFails) /\ WF_vars(ApplyLoad)
    /\ WF_vars(Probe)

-----------------------------------------------------------------------------
(* Properties. *)

CaughtUp(c) ==
    /\ Connected /\ stream = c /\ active = c
    /\ position = Len(events[c])
    /\ c \notin skipped

(***************************************************************************)
(* A text that once stood where the stream stands stays there: events add  *)
(* each chunk once, over switches, reconnections and reloads, and no other *)
(* answer touches it.  What does harm is left: a fetch that is not where   *)
(* the stream is, and an event that went to another conversation.          *)
(***************************************************************************)
TextIsExact ==
    \A r \in exact : Exists(r) =>
        TextOf(messages[conv[r]], r) =
            Heard(conv[r], r, Place(conv[r], stream, position, stored))

(***************************************************************************)
(* A page that is up to date shows exactly the permissions that wait for   *)
(* an answer, also those asked for while another conversation was active,  *)
(* unless it began after their event (a reload, another tab).              *)
(***************************************************************************)
PendingIsShown ==
    \A r \in Runs : Exists(r) /\ CaughtUp(conv[r]) =>
        (tool[r] = "asked" <=> card[r] = "pending")

StatusAt(c, n) ==
    LET told == {i \in 1 .. n : SetsStatus(events[c][i])}
    IN  IF told = {} THEN "none"
        ELSE StatusAfter(events[c][CHOOSE i \in told : \A j \in told : j <= i], "none")

(***************************************************************************)
(* A page that is up to date shows the status that the last event told,    *)
(* unless the answer to a prompt came after the run's own events, a prompt *)
(* failed, or the list was loaded since.                                   *)
(***************************************************************************)
StatusIsLatest ==
    \A c \in Conversations \ overtaken :
        CaughtUp(c) => shown[c] = StatusAt(c, Len(events[c]))

(***************************************************************************)
(* The tool calls of a reply are settled when the page is up to date and   *)
(* the call has ended, whatever fetches merged in between.                 *)
(***************************************************************************)
ToolCardsSettle ==
    \A c \in Conversations : CaughtUp(c) =>
        \A i \in DOMAIN messages[c] :
            LET m == messages[c][i]
            IN  m.card = "running" => tool[m.id[2]] = "asked"

(***************************************************************************)
(* No two messages of a conversation have one id (ChatPane keys them by    *)
(* it), unless a fetch brought a prompt whose own answer was still to come.*)
(***************************************************************************)
KeysAreUnique ==
    \A c \in Conversations : \A i, j \in DOMAIN messages[c] :
        messages[c][i].id = messages[c][j].id =>
            \/ i = j
            \/ messages[c][i].id[1] = "prompt" /\ messages[c][i].id[2] \in crossed

(***************************************************************************)
(* "the next cancel/retry acts on the right run": the button that cancels  *)
(* names a run that can be cancelled.                                      *)
(***************************************************************************)
CancelTargetsLive ==
    \A c \in Conversations \ overtaken :
        CaughtUp(c) /\ shown[c] \in Active /\ LastRun(messages[c]) # NoRun =>
            status[LastRun(messages[c])] \in Unfinished

\* A page that lost the backend is connected again once the backend stays reachable.
Reconnects ==
    <>[](gate = "open") =>
        [](connection \in {"probing", "offline"} => <>(connection \notin {"probing", "offline"}))

\* A permission asked for in the active conversation comes to be shown.
PermissionsSurface ==
    \A r \in Runs :
        (Exists(r) /\ tool[r] = "asked" /\ Connected /\ active = conv[r] /\ conv[r] \notin skipped)
            ~> (card[r] = "pending" \/ tool[r] # "asked" \/ ~Connected \/ active # conv[r]
                \/ conv[r] \in skipped)
=============================================================================
