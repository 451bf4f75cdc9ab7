----------------------------- MODULE EventStream -----------------------------
(***************************************************************************)
(* How a browser follows a conversation or a run: the events table         *)
(* (db/database.py insert_event), the EventBus (events/bus.py) and         *)
(* stream_events (events/sse.py) on the server, useSSE (frontend           *)
(* lib/sse.ts) on the client.                                              *)
(*                                                                         *)
(* Events are committed and read back under the database's write lock and  *)
(* put in the subscribers' queues before their emitter waits again, so     *)
(* that an event is published before the next is committed.  One client    *)
(* is followed through its connections; each is a stream with a queue of   *)
(* its own, and an old one may linger on the server.                       *)
(***************************************************************************)
EXTENDS Naturals, Sequences, FiniteSets

CONSTANTS
    Topic,          \* what the client follows: "conversation" or "run"
    Streams,        \* stream_events coroutines the server may have at a time
    NoStream,
    QueueSize,      \* maxsize of a subscriber's queue (100)
    ReapThreshold,  \* EventBus.drop_reap_threshold (3)
    MaxKeepAlives,  \* idle timeouts after which a stream ends (120)
    MaxEvents,      \* bound: events emitted
    MaxLosses,      \* bound: connections the network cuts
    MaxRestarts     \* bound: restarts of the backend

ASSUME StreamAssumption ==
    /\ Topic \in {"conversation", "run"}
    /\ NoStream \notin Streams
    /\ {QueueSize, ReapThreshold, MaxKeepAlives} \subseteq Nat \ {0}
    /\ {MaxEvents, MaxLosses, MaxRestarts} \subseteq Nat

\* An event of the run, or of the conversation only.
Kinds == {"run", "conversation"}

VARIABLES
    table,          \* the events table; an event's id is its index
    writing,        \* the id of the committed event not yet published, or 0
    subscribers,    \* the streams whose queue the bus knows
    queue,          \* ids in a subscriber's queue
    drops,          \* _queue_drops
    stream,         \* where a stream_events coroutine stands
    replay,         \* rows read and not yet sent
    sent,           \* max_sent_id
    keepalives,     \* keepalive_count
    current,        \* the stream the client is connected to
    received,       \* ids the client received, lastEventIdRef the newest
    losses, restarts,
    missed          \* history: ids dropped from the queue of the client's stream

bus == <<table, writing>>
queues == <<subscribers, queue, drops>>
cursors == <<stream, replay, sent, keepalives>>
client == <<current, received>>
bounds == <<losses, restarts>>
vars == <<bus, queues, cursors, client, bounds, missed>>

Wanted(i) == Topic = "conversation" \/ table[i] = "run"
Newest(ids) == IF ids = <<>> THEN 0 ELSE ids[Len(ids)]

Init ==
    /\ table = <<>>
    /\ writing = 0
    /\ subscribers = {}
    /\ queue = [s \in Streams |-> <<>>]
    /\ drops = [s \in Streams |-> 0]
    /\ stream = [s \in Streams |-> "closed"]
    /\ replay = [s \in Streams |-> {}]
    /\ sent = [s \in Streams |-> 0]
    /\ keepalives = [s \in Streams |-> 0]
    /\ current = NoStream
    /\ received = <<>>
    /\ losses = 0
    /\ restarts = 0
    /\ missed = {}

-----------------------------------------------------------------------------
(* The bus.                                                                *)

\* insert_event, up to its commit: readers see the row from here on.
CommitEvent(kind) ==
    /\ writing = 0
    /\ Len(table) < MaxEvents
    /\ table' = Append(table, kind)
    /\ writing' = Len(table) + 1
    /\ UNCHANGED <<queues, cursors, client, bounds, missed>>

Addressed == {s \in subscribers : Wanted(writing)}
Full == {s \in Addressed : Len(queue[s]) >= QueueSize}
Stale == {s \in Full : drops[s] + 1 >= ReapThreshold}

\* Mutant: the queue has no maxsize.
PublishUnbounded ==
    /\ writing # 0
    /\ writing' = 0
    /\ queue' = [s \in Streams |->
                   IF s \in Addressed THEN Append(queue[s], writing) ELSE queue[s]]
    /\ UNCHANGED <<table, subscribers, drops, cursors, client, bounds, missed>>

\* emit: a full queue counts a drop; at the threshold it is forgotten by the bus,
\* before that its oldest event makes room for the new one.
Publish ==
    /\ writing # 0
    /\ writing' = 0
    /\ queue' = [s \in Streams |->
                   IF s \in Full \ Stale THEN Append(Tail(queue[s]), writing)
                   ELSE IF s \in Addressed \ Full THEN Append(queue[s], writing)
                   ELSE queue[s]]
    /\ drops' = [s \in Streams |->
                   IF s \in Stale THEN 0 ELSE IF s \in Full THEN drops[s] + 1 ELSE drops[s]]
    /\ subscribers' = subscribers \ Stale
    /\ missed' = missed \cup {Head(queue[s]) : s \in (Full \ Stale) \cap {current}}
    /\ UNCHANGED <<table, cursors, client, bounds>>

-----------------------------------------------------------------------------
(* A stream.                                                               *)

\* The client connects with the newest id it has; the stream subscribes first.
Connect(s) ==
    /\ current = NoStream
    /\ stream[s] = "closed"
    /\ s \notin subscribers
    /\ subscribers' = subscribers \cup {s}
    /\ queue' = [queue EXCEPT ![s] = <<>>]
    /\ drops' = [drops EXCEPT ![s] = 0]
    /\ stream' = [stream EXCEPT ![s] = "subscribed"]
    /\ sent' = [sent EXCEPT ![s] = Newest(received)]
    /\ current' = s
    /\ UNCHANGED <<bus, replay, keepalives, received, bounds, missed>>

\* Mutant: the first row is taken for the one the client has.
FetchRowsSkipping(s) ==
    /\ stream[s] = "subscribed"
    /\ stream' = [stream EXCEPT ![s] = "open"]
    /\ replay' = [replay EXCEPT ![s] = {i \in DOMAIN table : Wanted(i) /\ i > sent[s] + 1}]
    /\ UNCHANGED <<bus, queues, sent, keepalives, client, bounds, missed>>

\* The rows are read when the queue already receives events.
FetchRows(s) ==
    /\ stream[s] = "subscribed"
    /\ stream' = [stream EXCEPT ![s] = "open"]
    /\ replay' = [replay EXCEPT ![s] = {i \in DOMAIN table : Wanted(i) /\ i > sent[s]}]
    /\ UNCHANGED <<bus, queues, sent, keepalives, client, bounds, missed>>

\* The client leaves while the rows are read, before the try block: the queue
\* stays subscribed.
AbandonFetch(s) ==
    /\ stream[s] = "subscribed"
    /\ current # s
    /\ stream' = [stream EXCEPT ![s] = "closed"]
    /\ sent' = [sent EXCEPT ![s] = 0]
    /\ UNCHANGED <<bus, queues, replay, keepalives, client, bounds, missed>>

\* What a stream sends arrives if the client is still connected to it.
Send(s, id) ==
    /\ sent' = [sent EXCEPT ![s] = IF id > @ THEN id ELSE @]
    /\ received' = IF current = s THEN Append(received, id) ELSE received

\* Mutant: no ORDER BY.
SendAnyRow(s) ==
    /\ stream[s] = "open"
    /\ \E id \in replay[s] :
         /\ replay' = [replay EXCEPT ![s] = @ \ {id}]
         /\ Send(s, id)
    /\ UNCHANGED <<bus, queues, stream, keepalives, current, bounds, missed>>

SendRow(s) ==
    /\ stream[s] = "open"
    /\ \E id \in replay[s] :
         /\ \A other \in replay[s] : id <= other
         /\ replay' = [replay EXCEPT ![s] = @ \ {id}]
         /\ Send(s, id)
    /\ UNCHANGED <<bus, queues, stream, keepalives, current, bounds, missed>>

\* After the replay the stream takes events from its queue.
Following(s) == stream[s] = "open" /\ replay[s] = {}

\* Mutant: an event that was replayed is sent again.
TakeEventAgain(s) ==
    /\ Following(s)
    /\ queue[s] # <<>>
    /\ queue' = [queue EXCEPT ![s] = Tail(@)]
    /\ Send(s, Head(queue[s]))
    /\ keepalives' = [keepalives EXCEPT ![s] = 0]
    /\ UNCHANGED <<bus, subscribers, drops, stream, replay, current, bounds, missed>>

TakeEvent(s) ==
    /\ Following(s)
    /\ queue[s] # <<>>
    /\ queue' = [queue EXCEPT ![s] = Tail(@)]
    /\ IF Head(queue[s]) <= sent[s]
       THEN UNCHANGED <<sent, received, keepalives>>
       ELSE /\ Send(s, Head(queue[s]))
            /\ keepalives' = [keepalives EXCEPT ![s] = 0]
    /\ UNCHANGED <<bus, subscribers, drops, stream, replay, current, bounds, missed>>

\* The coroutine ends through its finally clause, and its locals are gone; the
\* client notices.
Close(s) ==
    /\ subscribers' = subscribers \ {s}
    /\ queue' = [queue EXCEPT ![s] = <<>>]
    /\ drops' = [drops EXCEPT ![s] = 0]
    /\ stream' = [stream EXCEPT ![s] = "closed"]
    /\ replay' = [replay EXCEPT ![s] = {}]
    /\ sent' = [sent EXCEPT ![s] = 0]
    /\ keepalives' = [keepalives EXCEPT ![s] = 0]
    /\ current' = IF current = s THEN NoStream ELSE current

\* Mutant: the count of idle timeouts starts over.
KeepAliveForever(s) ==
    /\ Following(s)
    /\ queue[s] = <<>>
    /\ keepalives' = [keepalives EXCEPT ![s] = 0]
    /\ UNCHANGED <<bus, queues, stream, replay, sent, client, bounds, missed>>

\* 15 s without an event: a comment, and the end after MaxKeepAlives of them.
KeepAlive(s) ==
    /\ Following(s)
    /\ queue[s] = <<>>
    /\ IF keepalives[s] + 1 >= MaxKeepAlives
       THEN Close(s)
       ELSE /\ keepalives' = [keepalives EXCEPT ![s] = @ + 1]
            /\ UNCHANGED <<queues, stream, replay, sent, current>>
    /\ UNCHANGED <<bus, received, bounds, missed>>

\* The server finds the client gone, between two events or in the middle of one.
NoticeGone(s) ==
    /\ stream[s] = "open"
    /\ current # s
    /\ Close(s)
    /\ UNCHANGED <<bus, received, bounds, missed>>

-----------------------------------------------------------------------------
(* The network and the backend.                                            *)

Disconnect ==
    /\ current # NoStream
    /\ losses < MaxLosses
    /\ current' = NoStream
    /\ losses' = losses + 1
    /\ UNCHANGED <<bus, queues, cursors, received, restarts, missed>>

\* Committed events stay; an event not yet published never will be.
Restart ==
    /\ restarts < MaxRestarts
    /\ restarts' = restarts + 1
    /\ writing' = 0
    /\ subscribers' = {}
    /\ queue' = [s \in Streams |-> <<>>]
    /\ drops' = [s \in Streams |-> 0]
    /\ stream' = [s \in Streams |-> "closed"]
    /\ replay' = [s \in Streams |-> {}]
    /\ sent' = [s \in Streams |-> 0]
    /\ keepalives' = [s \in Streams |-> 0]
    /\ current' = NoStream
    /\ UNCHANGED <<table, received, losses, missed>>

StreamStep(s) ==
    FetchRows(s) \/ AbandonFetch(s) \/ SendRow(s) \/ TakeEvent(s) \/ KeepAlive(s) \/ NoticeGone(s)

Next ==
    \/ \E kind \in Kinds : CommitEvent(kind)
    \/ Publish
    \/ \E s \in Streams : Connect(s) \/ StreamStep(s)
    \/ Disconnect \/ Restart

Spec == Init /\ [][Next]_vars

\* The emitter and every stream go on; the browser reconnects after an error.
Fairness ==
    /\ WF_vars(Publish)
    /\ \A s \in Streams : WF_vars(StreamStep(s))
    /\ WF_vars(\E s \in Streams : Connect(s))

FairSpec == Spec /\ Fairness

-----------------------------------------------------------------------------
(* Properties.                                                             *)

Ids == DOMAIN table
Members(ids) == {ids[n] : n \in DOMAIN ids}
Increasing(ids) == \A m, n \in DOMAIN ids : m < n => ids[m] < ids[n]

TypeOK ==
    /\ table \in Seq(Kinds)
    /\ writing \in {0, Len(table)}
    /\ subscribers \subseteq Streams
    /\ queue \in [Streams -> Seq(Ids)]
    /\ \A s \in Streams : Len(queue[s]) <= QueueSize
    /\ drops \in [Streams -> 0 .. ReapThreshold - 1]
    /\ stream \in [Streams -> {"closed", "subscribed", "open"}]
    /\ replay \in [Streams -> SUBSET Ids]
    /\ sent \in [Streams -> Ids \cup {0}]
    /\ keepalives \in [Streams -> 0 .. MaxKeepAlives]
    /\ current \in Streams \cup {NoStream}
    /\ received \in Seq(Ids)
    /\ losses \in Nat /\ restarts \in Nat
    /\ missed \subseteq Ids

\* The client gets no event twice and none out of order, across reconnections,
\* replays that overlap with live events, and restarts of the backend.
InOrder == Increasing(received)

\* What the bus has published.
Published == IF writing = 0 THEN Ids ELSE Ids \ {writing}
Reaped(s) == stream[s] # "closed" /\ s \notin subscribers

\* While a client is connected every published event of its topic is received,
\* waiting in the replay or the queue, or dropped from that queue; a reaped queue
\* lacks only what is newer than all it holds.
Accounted ==
    \A s \in Streams : current = s /\ stream[s] = "open" =>
        \A i \in Published : Wanted(i) =>
            \/ i \in Members(received) \cup missed \cup replay[s] \cup Members(queue[s])
            \/ Reaped(s) /\ \A j \in Members(queue[s]) \cup Members(received) : j < i

\* Every event of the topic reaches the client or was dropped from its queue: a
\* stream that the bus no longer serves ends, and the next replays what it lacked.
EventsArrive ==
    \A i \in 1 .. MaxEvents :
        i \in Ids /\ Wanted(i) ~> i \in Members(received) \cup missed

-----------------------------------------------------------------------------
(* The abstract feed.                                                      *)

Feed == INSTANCE EventFeed WITH log <- table

ImplementsEventFeed == Feed!Spec
=============================================================================
