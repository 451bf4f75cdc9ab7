------------------------- MODULE EventStreamProofs --------------------------
(***************************************************************************)
(* Theorems about EventStream, for any number of streams, any sizes and    *)
(* any bounds: its types, the order of what the client receives, and that  *)
(* the stream implements EventFeed.                                        *)
(***************************************************************************)
EXTENDS EventStream, SequenceTheorems, TLAPS

-----------------------------------------------------------------------------
(* Sequences of ids.                                                       *)

LEMMA MembersInRange ==
    ASSUME NEW S, NEW ids \in Seq(S)
    PROVE  Members(ids) \subseteq S
BY ElementOfSeq DEF Members

LEMMA SeqGrows ==
    ASSUME NEW S, NEW T, S \subseteq T, NEW ids \in Seq(S)
    PROVE  ids \in Seq(T)
BY SeqMonotonic

LEMMA AppendIds ==
    ASSUME NEW S \in SUBSET Nat, NEW ids \in Seq(S), NEW e \in S
    PROVE  /\ Append(ids, e) \in Seq(S)
           /\ Len(Append(ids, e)) = Len(ids) + 1
           /\ Members(Append(ids, e)) = Members(ids) \cup {e}
           /\ Newest(Append(ids, e)) = e
<1> DEFINE longer == Append(ids, e)
<1>1. /\ longer \in Seq(S) /\ Len(ids) \in Nat
      /\ Len(longer) = Len(ids) + 1
      /\ DOMAIN ids = 1 .. Len(ids) /\ DOMAIN longer = 1 .. Len(ids) + 1
      /\ \A n \in 1 .. Len(ids) : longer[n] = ids[n]
      /\ longer[Len(ids) + 1] = e
      OBVIOUS
<1>2. longer # <<>>
      BY <1>1
<1> HIDE DEF longer
<1>3. Members(longer) \subseteq Members(ids) \cup {e}
  <2> SUFFICES ASSUME NEW n \in DOMAIN longer PROVE longer[n] \in Members(ids) \cup {e}
      BY DEF Members
  <2>1. CASE n = Len(ids) + 1
        BY <2>1, <1>1
  <2>2. CASE n \in 1 .. Len(ids)
        BY <2>2, <1>1 DEF Members
  <2> QED BY <2>1, <2>2, <1>1
<1>4. Members(ids) \cup {e} \subseteq Members(longer)
  <2>1. e \in Members(longer)
        BY <1>1 DEF Members
  <2>2. ASSUME NEW n \in DOMAIN ids PROVE ids[n] \in Members(longer)
        BY <1>1 DEF Members
  <2> QED BY <2>1, <2>2 DEF Members
<1> QED BY <1>1, <1>2, <1>3, <1>4 DEF longer, Newest

LEMMA IncreasingAppend ==
    ASSUME NEW S \in SUBSET Nat, NEW ids \in Seq(S), NEW e \in S, Increasing(ids),
           \A j \in Members(ids) : j < e
    PROVE  Increasing(Append(ids, e))
<1> DEFINE longer == Append(ids, e)
<1>1. /\ Len(ids) \in Nat
      /\ DOMAIN ids = 1 .. Len(ids) /\ DOMAIN longer = 1 .. Len(ids) + 1
      /\ \A n \in 1 .. Len(ids) : longer[n] = ids[n]
      /\ longer[Len(ids) + 1] = e
      OBVIOUS
<1> HIDE DEF longer
<1>2. ASSUME NEW m \in DOMAIN longer, NEW n \in DOMAIN longer, m < n
      PROVE  longer[m] < longer[n]
  <2>1. m \in 1 .. Len(ids)
        BY <1>1, <1>2
  <2>2. CASE n \in 1 .. Len(ids)
        BY <2>1, <2>2, <1>1, <1>2 DEF Increasing
  <2>3. CASE n = Len(ids) + 1
    <3>1. ids[m] \in Members(ids)
          BY <2>1, <1>1 DEF Members
    <3> QED BY <3>1, <2>1, <2>3, <1>1
  <2> QED BY <2>2, <2>3, <1>1
<1> QED BY <1>2 DEF Increasing, longer

\* What a queue holds is its head and what comes after it, which is newer.
LEMMA HeadAndTail ==
    ASSUME NEW S \in SUBSET Nat, NEW ids \in Seq(S), ids # <<>>, Increasing(ids)
    PROVE  /\ Head(ids) \in S /\ Tail(ids) \in Seq(S) /\ Len(Tail(ids)) = Len(ids) - 1
           /\ Len(ids) \in Nat \ {0}
           /\ Members(ids) = Members(Tail(ids)) \cup {Head(ids)}
           /\ Increasing(Tail(ids))
           /\ \A j \in Members(Tail(ids)) : Head(ids) < j
<1> DEFINE rest == Tail(ids)
<1>1. /\ rest \in Seq(S) /\ Head(ids) \in S /\ Head(ids) = ids[1]
      /\ Len(rest) = Len(ids) - 1
      /\ \A n \in 1 .. Len(rest) : rest[n] = ids[n + 1]
      BY HeadTailProperties
<1>2. /\ Len(ids) \in Nat \ {0} /\ DOMAIN ids = 1 .. Len(ids) /\ DOMAIN rest = 1 .. Len(rest)
      BY <1>1, LenProperties, EmptySeq
<1> HIDE DEF rest
<1>3. ASSUME NEW n \in DOMAIN rest
      PROVE  n + 1 \in DOMAIN ids /\ 1 < n + 1 /\ rest[n] = ids[n + 1]
      BY <1>1, <1>2
<1>4. Members(rest) \cup {Head(ids)} \subseteq Members(ids)
      BY <1>1, <1>2, <1>3 DEF Members
<1>5. Members(ids) \subseteq Members(rest) \cup {Head(ids)}
  <2> SUFFICES ASSUME NEW n \in DOMAIN ids PROVE ids[n] \in Members(rest) \cup {Head(ids)}
      BY DEF Members
  <2>1. CASE n = 1
        BY <2>1, <1>1
  <2>2. CASE n # 1
    <3>1. n - 1 \in DOMAIN rest /\ rest[n - 1] = ids[n]
          BY <2>2, <1>1, <1>2
    <3> QED BY <3>1 DEF Members
  <2> QED BY <2>1, <2>2
<1>6. Increasing(rest)
  <2> SUFFICES ASSUME NEW m \in DOMAIN rest, NEW n \in DOMAIN rest, m < n
               PROVE  rest[m] < rest[n]
      BY DEF Increasing
  <2>1. m + 1 < n + 1
        BY <1>1, <1>2
  <2>2. ids[m + 1] < ids[n + 1]
        BY <2>1, <1>3 DEF Increasing
  <2> QED BY <2>2, <1>3
<1>7. \A j \in Members(rest) : Head(ids) < j
  <2> SUFFICES ASSUME NEW n \in DOMAIN rest PROVE Head(ids) < rest[n]
      BY DEF Members
  <2>1. 1 \in DOMAIN ids
        BY <1>2
  <2>2. ids[1] < ids[n + 1]
        BY <2>1, <1>3 DEF Increasing
  <2> QED BY <2>2, <1>1, <1>3
<1> QED BY <1>1, <1>2, <1>4, <1>5, <1>6, <1>7 DEF rest

\* In an increasing sequence the last is the newest.
LEMMA NewestIsLast ==
    ASSUME NEW S \in SUBSET Nat, NEW ids \in Seq(S), Increasing(ids)
    PROVE  /\ Newest(ids) \in S \cup {0}
           /\ \A j \in Members(ids) : j <= Newest(ids)
<1>1. Len(ids) \in Nat /\ DOMAIN ids = 1 .. Len(ids) /\ (ids # <<>> => Len(ids) # 0)
      BY LenProperties, EmptySeq
<1>2. CASE ids = <<>>
      BY <1>2 DEF Newest, Members
<1>3. CASE ids # <<>>
  <2>1. Len(ids) \in DOMAIN ids /\ Newest(ids) = ids[Len(ids)] /\ Newest(ids) \in S
        BY <1>1, <1>3, ElementOfSeq DEF Newest
  <2>3. Newest(ids) \in Nat
        BY <2>1
  <2>2. ASSUME NEW n \in DOMAIN ids PROVE ids[n] <= Newest(ids)
    <3>1. CASE n = Len(ids)
          BY <3>1, <2>1, <2>3
    <3>2. CASE n < Len(ids)
      <4>1. ids[n] < Newest(ids)
            BY <3>2, <2>1, <1>1 DEF Increasing
      <4>2. ids[n] \in Nat
            BY <1>1, ElementOfSeq
      <4> QED BY <4>1, <4>2, <2>3
    <3> QED BY <3>1, <3>2, <1>1
  <2> QED BY <2>1, <2>2 DEF Members
<1> QED BY <1>2, <1>3

-----------------------------------------------------------------------------
(* Types.                                                                  *)

LEMMA Sizes ==
    /\ QueueSize \in Nat \ {0} /\ ReapThreshold \in Nat \ {0} /\ MaxKeepAlives \in Nat \ {0}
    /\ NoStream \notin Streams
BY StreamAssumption DEF StreamAssumption

LEMMA TableIds ==
    ASSUME TypeOK
    PROVE  /\ Len(table) \in Nat
           /\ Ids = 1 .. Len(table)
           /\ Ids \in SUBSET Nat /\ Ids \subseteq Nat
           /\ writing # 0 => writing \in Ids /\ writing = Len(table)
<1>1. table \in Seq(Kinds) /\ writing \in {0, Len(table)}
      BY DEF TypeOK
<1>2. Len(table) \in Nat /\ DOMAIN table = 1 .. Len(table)
      BY <1>1, LenProperties
<1>3. Ids = 1 .. Len(table)
      BY <1>2 DEF Ids
<1>4. Ids \subseteq Nat
      BY <1>2, <1>3
<1>5. ASSUME writing # 0 PROVE writing \in 1 .. Len(table) /\ writing = Len(table)
  <2>1. writing = Len(table)
        BY <1>1, <1>5
  <2>2. Len(table) \in Nat /\ Len(table) # 0
        BY <1>2, <1>5, <2>1
  <2>3. Len(table) \in 1 .. Len(table)
        BY <2>2
  <2> QED BY <2>1, <2>3
<1> QED BY <1>2, <1>3, <1>4, <1>5

LEMMA QueueType ==
    ASSUME TypeOK, NEW s \in Streams
    PROVE  queue[s] \in Seq(Ids) /\ Len(queue[s]) \in Nat /\ Len(queue[s]) <= QueueSize
BY LenProperties DEF TypeOK

\* A queue that gives up its head and takes the event being published.
LEMMA PushedType ==
    ASSUME TypeOK, writing # 0, NEW s \in Streams
    PROVE  /\ Append(queue[s], writing) \in Seq(Ids)
           /\ Len(Append(queue[s], writing)) = Len(queue[s]) + 1
           /\ Len(queue[s]) >= QueueSize =>
                /\ queue[s] # <<>> /\ Head(queue[s]) \in Ids
                /\ Tail(queue[s]) \in Seq(Ids)
                /\ Append(Tail(queue[s]), writing) \in Seq(Ids)
                /\ Len(Append(Tail(queue[s]), writing)) = Len(queue[s])
<1>1. Ids \in SUBSET Nat /\ writing \in Ids
      BY TableIds
<1>2. queue[s] \in Seq(Ids) /\ Len(queue[s]) \in Nat
      BY QueueType
<1>3. /\ Append(queue[s], writing) \in Seq(Ids)
      /\ Len(Append(queue[s], writing)) = Len(queue[s]) + 1
      BY <1>1, <1>2, AppendIds
<1>4. ASSUME Len(queue[s]) >= QueueSize
      PROVE  /\ queue[s] # <<>> /\ Head(queue[s]) \in Ids
             /\ Tail(queue[s]) \in Seq(Ids)
             /\ Append(Tail(queue[s]), writing) \in Seq(Ids)
             /\ Len(Append(Tail(queue[s]), writing)) = Len(queue[s])
  <2>1. queue[s] # <<>>
        BY <1>4, Sizes, EmptySeq
  <2>2. Head(queue[s]) \in Ids /\ Tail(queue[s]) \in Seq(Ids) /\ Len(Tail(queue[s])) = Len(queue[s]) - 1
        BY <1>2, <2>1, HeadTailProperties
  <2>3. /\ Append(Tail(queue[s]), writing) \in Seq(Ids)
        /\ Len(Append(Tail(queue[s]), writing)) = Len(Tail(queue[s])) + 1
        BY <1>1, <2>2, AppendIds
  <2> QED BY <1>2, <2>1, <2>2, <2>3
<1> QED BY <1>3, <1>4

LEMMA CommitType ==
    ASSUME TypeOK, NEW kind \in Kinds, CommitEvent(kind)
    PROVE  TypeOK'
<1>1. /\ table' \in Seq(Kinds) /\ Len(table') = Len(table) + 1 /\ DOMAIN table' = 1 .. Len(table) + 1
      BY DEF CommitEvent, TypeOK
<1>2. Ids \subseteq Ids' /\ writing' = Len(table')
      BY <1>1, TableIds DEF Ids, CommitEvent
<1>3. received' \in Seq(Ids') /\ queue' \in [Streams -> Seq(Ids')]
      BY <1>2, SeqMonotonic DEF CommitEvent, TypeOK, queues, client
<1> QED BY <1>1, <1>2, <1>3 DEF CommitEvent, TypeOK, queues, cursors, client, bounds

LEMMA PublishType ==
    ASSUME TypeOK, Publish
    PROVE  TypeOK'
<1> USE DEF Publish
<1>1. Ids' = Ids /\ writing' = 0
      BY DEF Ids
<1>2. queue' \in [Streams -> Seq(Ids)] /\ \A s \in Streams : Len(queue'[s]) <= QueueSize
  <2> SUFFICES ASSUME NEW s \in Streams
               PROVE  queue'[s] \in Seq(Ids) /\ Len(queue'[s]) <= QueueSize
      OBVIOUS
  <2>1. CASE s \in Full \ Stale
        BY <2>1, PushedType, QueueType DEF Full
  <2>2. CASE s \in Addressed \ Full
        BY <2>2, PushedType, QueueType, Sizes DEF Full
  <2>3. CASE s \notin Full \ Stale /\ s \notin Addressed \ Full
        BY <2>3, QueueType
  <2> QED BY <2>1, <2>2, <2>3
<1>3. drops' \in [Streams -> 0 .. ReapThreshold - 1]
      BY Sizes DEF TypeOK, Stale
<1>4. missed' \subseteq Ids
  <2>1. ASSUME NEW s \in Full PROVE Head(queue[s]) \in Ids
        BY PushedType DEF Full, Addressed, TypeOK
  <2> QED BY <2>1 DEF TypeOK
<1> QED BY <1>1, <1>2, <1>3, <1>4 DEF TypeOK, cursors, client, bounds

\* What a stream sends is an id, and the client's record stays one of ids.
LEMMA SendType ==
    ASSUME TypeOK, NEW s \in Streams, NEW id \in Ids, Send(s, id)
    PROVE  sent' \in [Streams -> Ids \cup {0}] /\ received' \in Seq(Ids)
<1>1. sent' \in [Streams -> Ids \cup {0}]
      BY DEF Send, TypeOK
<1>2. Append(received, id) \in Seq(Ids)
      BY AppendIds, TableIds DEF TypeOK
<1> QED BY <1>1, <1>2 DEF Send, TypeOK

LEMMA CloseType ==
    ASSUME TypeOK, NEW s \in Streams, Close(s), UNCHANGED <<bus, received, bounds, missed>>
    PROVE  TypeOK'
<1>1. Ids' = Ids /\ <<>> \in Seq(Ids) /\ Len(<<>>) = 0
      BY EmptySeq DEF Ids, bus
<1> QED BY <1>1, Sizes DEF Close, TypeOK, bus, bounds

LEMMA StreamStepType ==
    ASSUME TypeOK, NEW s \in Streams, Connect(s) \/ StreamStep(s)
    PROVE  TypeOK'
<1>1. CASE Connect(s)
  <2>1. Ids' = Ids /\ <<>> \in Seq(Ids) /\ Len(<<>>) = 0
        BY <1>1, EmptySeq DEF Ids, Connect, bus
  <2>2. Newest(received) \in Ids \cup {0}
        BY LenProperties, EmptySeq, ElementOfSeq DEF Newest, TypeOK
  <2> QED BY <1>1, <2>1, <2>2, Sizes DEF Connect, TypeOK, bus, bounds
<1>2. CASE FetchRows(s)
      BY <1>2 DEF FetchRows, TypeOK, Ids, bus, queues, client, bounds
<1>3. CASE AbandonFetch(s)
      BY <1>3 DEF AbandonFetch, TypeOK, Ids, bus, queues, client, bounds
<1>4. CASE SendRow(s)
  <2>1. PICK id \in replay[s] : replay' = [replay EXCEPT ![s] = @ \ {id}] /\ Send(s, id)
        BY <1>4 DEF SendRow
  <2>2. id \in Ids /\ Ids' = Ids
        BY <1>4 DEF SendRow, TypeOK, Ids, bus
  <2> QED BY <1>4, <2>1, <2>2, SendType DEF SendRow, TypeOK, bus, queues, bounds
<1>5. CASE TakeEvent(s)
  <2>1. Ids' = Ids /\ queue[s] \in Seq(Ids) /\ queue[s] # <<>>
        BY <1>5 DEF TakeEvent, TypeOK, Ids, bus
  <2>2. /\ Head(queue[s]) \in Ids /\ Tail(queue[s]) \in Seq(Ids)
        /\ Len(Tail(queue[s])) = Len(queue[s]) - 1
        BY <2>1, HeadTailProperties
  <2>3. queue' \in [Streams -> Seq(Ids)] /\ \A q \in Streams : Len(queue'[q]) <= QueueSize
        BY <1>5, <2>2, QueueType, Sizes DEF TakeEvent, TypeOK
  <2>4. sent' \in [Streams -> Ids \cup {0}] /\ received' \in Seq(Ids)
        BY <1>5, <2>2, SendType DEF TakeEvent, TypeOK
  <2>5. keepalives' \in [Streams -> 0 .. MaxKeepAlives]
        BY <1>5, Sizes DEF TakeEvent, TypeOK
  <2> QED BY <1>5, <2>1, <2>3, <2>4, <2>5 DEF TakeEvent, TypeOK, bus, bounds
<1>6. CASE KeepAlive(s)
  <2>1. CASE keepalives[s] + 1 >= MaxKeepAlives
        BY <1>6, <2>1, CloseType DEF KeepAlive
  <2>2. CASE ~(keepalives[s] + 1 >= MaxKeepAlives)
    <3>1. Ids' = Ids
          BY <1>6 DEF KeepAlive, Ids, bus
    <3>2. keepalives' \in [Streams -> 0 .. MaxKeepAlives]
      <4>1. keepalives' = [keepalives EXCEPT ![s] = keepalives[s] + 1]
            BY <1>6, <2>2 DEF KeepAlive
      <4>2. keepalives[s] \in 0 .. MaxKeepAlives
            BY DEF TypeOK
      <4>3. keepalives[s] + 1 \in 0 .. MaxKeepAlives
            BY <2>2, <4>2, Sizes
      <4> QED BY <4>1, <4>3 DEF TypeOK
    <3> QED BY <1>6, <2>2, <3>1, <3>2 DEF KeepAlive, TypeOK, bus, queues, bounds
  <2> QED BY <2>1, <2>2
<1>7. CASE NoticeGone(s)
      BY <1>7, CloseType DEF NoticeGone
<1> QED BY <1>1, <1>2, <1>3, <1>4, <1>5, <1>6, <1>7 DEF StreamStep

LEMMA OutsideType ==
    ASSUME TypeOK, Disconnect \/ Restart
    PROVE  TypeOK'
<1>1. CASE Disconnect
      BY <1>1 DEF Disconnect, TypeOK, Ids, bus, queues, cursors
<1>2. CASE Restart
  <2>1. Ids' = Ids /\ <<>> \in Seq(Ids) /\ Len(<<>>) = 0
        BY <1>2, EmptySeq DEF Ids, Restart
  <2> QED BY <1>2, <2>1, Sizes DEF Restart, TypeOK
<1> QED BY <1>1, <1>2

LEMMA InitType == Init => TypeOK
<1> SUFFICES ASSUME Init PROVE TypeOK
    OBVIOUS
<1>1. Len(<<>>) = 0 /\ \A S : <<>> \in Seq(S)
      BY EmptySeq
<1> QED BY <1>1, Sizes DEF Init, TypeOK, Ids

LEMMA StepType == TypeOK /\ [Next]_vars => TypeOK'
<1> SUFFICES ASSUME TypeOK, [Next]_vars PROVE TypeOK'
    OBVIOUS
<1>1. CASE UNCHANGED vars
      BY <1>1 DEF vars, TypeOK, Ids, bus, queues, cursors, client, bounds
<1>2. CASE Next
      BY <1>2, CommitType, PublishType, StreamStepType, OutsideType DEF Next
<1> QED BY <1>1, <1>2

\* Every variable keeps its type: in particular no queue outgrows its size and no
\* drop count reaches the threshold at which the bus forgets the queue.
THEOREM TypeCorrect == Spec => []TypeOK
BY InitType, StepType, PTL DEF Spec

-----------------------------------------------------------------------------
(* Where every event is.  The client's record and its stream's cursor      *)
(* agree; the rows to replay lie ahead of the cursor without a gap; queues *)
(* hold published events in order; and what the cursor has not reached is  *)
(* to come, was dropped, or is newer than all a reaped queue holds.        *)

Cursor ==
    \A s \in Streams : current = s => stream[s] # "closed" /\ sent[s] = Newest(received)

ReplayAhead ==
    \A s \in Streams :
        /\ stream[s] # "open" => replay[s] = {}
        /\ \A i \in replay[s] : Wanted(i) /\ i > sent[s]

ReplayComplete ==
    \A s \in Streams : \A i \in replay[s], j \in Ids :
        sent[s] < j /\ j < i /\ Wanted(j) => j \in replay[s]

QueueOrdered ==
    \A s \in Streams :
        /\ Increasing(queue[s])
        /\ \A i \in Members(queue[s]) : Wanted(i) /\ (writing # 0 => i < writing)

Coming(s, i) ==
    \/ i \in replay[s] \cup Members(queue[s]) \cup missed
    \/ s \notin subscribers /\ \A j \in replay[s] \cup Members(queue[s]) : j < i

Covered ==
    \A s \in Streams : current = s /\ stream[s] = "open" =>
        \A i \in Ids : i # writing /\ Wanted(i) /\ i > sent[s] => Coming(s, i)

Complete ==
    \A i \in Ids : Wanted(i) /\ i <= Newest(received) => i \in Members(received) \cup missed

Inv == InOrder /\ Cursor /\ ReplayAhead /\ ReplayComplete /\ QueueOrdered /\ Covered /\ Complete

LEMMA EmptyQueue == Members(<<>>) = {} /\ Increasing(<<>>) /\ Newest(<<>>) = 0
BY DEF Members, Increasing, Newest

LEMMA ReceivedIds ==
    ASSUME TypeOK, InOrder
    PROVE  /\ Newest(received) \in Ids \cup {0}
           /\ Members(received) \subseteq Ids
           /\ \A i \in Members(received) : i <= Newest(received)
BY TableIds, NewestIsLast, MembersInRange DEF TypeOK, InOrder

LEMMA SentType ==
    ASSUME TypeOK, NEW s \in Streams
    PROVE  sent[s] \in Nat
<1>1. sent[s] \in Ids \cup {0}
      BY DEF TypeOK
<1> QED BY <1>1, TableIds

LEMMA QueuedIds ==
    ASSUME TypeOK, NEW s \in Streams
    PROVE  Members(queue[s]) \subseteq Ids
BY QueueType, MembersInRange

\* An open stream whose rows and events all lie where they should sends one that
\* nothing wanted precedes: the client's record grows in order.
LEMMA Delivery ==
    ASSUME TypeOK, Inv, NEW s \in Streams, NEW id \in Ids, Send(s, id), Wanted(id),
           id > sent[s], UNCHANGED <<table, current, missed>>,
           current = s => \A j \in Ids : sent[s] < j /\ j < id /\ Wanted(j) => j \in missed
    PROVE  /\ sent' = [sent EXCEPT ![s] = id]
           /\ current = s => Newest(received') = id
           /\ current # s => received' = received
           /\ InOrder' /\ Complete'
           /\ [Feed!Next]_Feed!vars
<1>1. sent' = [sent EXCEPT ![s] = id]
      BY DEF Send, TypeOK
<1>2. CASE current # s
  <2>1. received' = received
        BY <1>2 DEF Send
  <2>2. InOrder' /\ Complete'
        BY <2>1 DEF Inv, InOrder, Complete, Increasing, Members, Newest, Ids, Wanted
  <2> QED BY <1>1, <1>2, <2>1, <2>2 DEF Feed!vars
<1>3. CASE current = s
  <2>1. received' = Append(received, id)
        BY <1>3 DEF Send
  <2>2. /\ sent[s] = Newest(received) /\ sent[s] \in Ids \cup {0}
        /\ \A i \in Members(received) : i <= Newest(received)
        BY <1>3, ReceivedIds DEF Inv, Cursor, TypeOK
  <2>3. /\ Members(received) \subseteq Ids /\ received \in Seq(Ids)
        /\ Ids \in SUBSET Nat /\ Ids \subseteq Nat
        BY ReceivedIds, TableIds DEF TypeOK, Inv
  <2>4. Newest(received) \in Nat /\ id \in Nat /\ Newest(received) < id
    <3>1. id > Newest(received)
          BY <2>2
    <3>2. Newest(received) \in Ids \cup {0}
          BY <2>2
    <3>3. Newest(received) \in Nat
          BY <3>2, TableIds
    <3>4. id \in Nat
          BY TableIds
    <3> QED BY <3>1, <3>3, <3>4
  <2>5. \A j \in Members(received) : j < id
    <3> SUFFICES ASSUME NEW j \in Members(received) PROVE j < id
        OBVIOUS
    <3>1. j \in Nat /\ j <= Newest(received)
          BY <2>2, <2>3
    <3> QED BY <3>1, <2>4
  <2>6. /\ Members(received') = Members(received) \cup {id}
        /\ Newest(received') = id
        /\ Increasing(received')
        BY <2>1, <2>3, <2>5, AppendIds, IncreasingAppend DEF Inv, InOrder
  <2>7. Complete'
    <3> SUFFICES ASSUME NEW i \in Ids, Wanted(i), i <= id
                 PROVE  i \in Members(received') \cup missed
        BY <2>6 DEF Complete, Ids, Wanted
    <3>1. CASE i <= Newest(received)
          BY <3>1, <2>6 DEF Inv, Complete
    <3>2. CASE i = id
          BY <3>2, <2>6
    <3>3. CASE Newest(received) < i /\ i < id
          BY <3>3, <2>2, <1>3
    <3>4. i \in Nat
          BY <2>3
    <3> QED BY <3>1, <3>2, <3>3, <3>4, <2>4
  <2>8. Feed!Deliver(id)
    <3>1. \A j \in DOMAIN table : Newest(received) < j /\ j < id /\ Wanted(j) => j \in missed
          BY <1>3, <2>2 DEF Ids
    <3> QED BY <3>1, <2>1, <2>2 DEF Feed!Deliver, Feed!Newest, Feed!Wanted, Newest, Wanted
  <2>9. Feed!Next
        BY <2>8 DEF Feed!Next, Ids
  <2> QED BY <1>1, <1>3, <2>6, <2>7, <2>9 DEF InOrder
<1> QED BY <1>2, <1>3

-----------------------------------------------------------------------------
(* One lemma for each kind of step: it keeps Inv and is a step or a        *)
(* stutter of the feed.                                                    *)

\* A step that leaves the table, the client's record and what was missed alone.
LEMMA Quiet ==
    ASSUME Inv, UNCHANGED <<table, received, missed>>
    PROVE  /\ InOrder' /\ Complete' /\ [Feed!Next]_Feed!vars
           /\ Ids' = Ids /\ Newest(received') = Newest(received)
BY DEF Inv, InOrder, Complete, Increasing, Members, Newest, Ids, Wanted, Feed!vars

LEMMA CommitInv ==
    ASSUME TypeOK, Inv, NEW kind \in Kinds, CommitEvent(kind)
    PROVE  Inv' /\ [Feed!Next]_Feed!vars
<1> DEFINE new == Len(table) + 1
<1>1. /\ table' = Append(table, kind) /\ writing = 0 /\ writing' = new
      /\ UNCHANGED <<subscribers, queue, drops, stream, replay, sent, keepalives, current,
                      received, losses, restarts, missed>>
      BY DEF CommitEvent, queues, cursors, client, bounds
<1>2. Len(table) \in Nat /\ Ids = 1 .. Len(table) /\ Ids \subseteq Nat
      BY TableIds
<1>3. Ids' = Ids \cup {new} /\ \A i \in Ids : table'[i] = table[i] /\ i < new
  <2>1. DOMAIN table' = 1 .. Len(table) + 1 /\ \A i \in 1 .. Len(table) : table'[i] = table[i]
        BY <1>1 DEF TypeOK
  <2> QED BY <1>2, <2>1 DEF Ids
<1>4. \A i \in Ids : Wanted(i)' <=> Wanted(i)
      BY <1>3 DEF Wanted
<1>5. /\ Newest(received) \in Nat /\ Newest(received) < new
      /\ \A s \in Streams : replay[s] \subseteq Ids /\ Members(queue[s]) \subseteq Ids
      /\ new \in Nat
  <2>1. Newest(received) \in Ids \cup {0}
        BY ReceivedIds DEF Inv
  <2>2. Newest(received) \in 0 .. Len(table)
        BY <1>2, <2>1
  <2> QED BY <1>2, <2>2, QueuedIds DEF TypeOK
<1> HIDE DEF new
<1>6. InOrder' /\ Cursor' /\ ReplayAhead'
      BY <1>1, <1>4, <1>5 DEF Inv, InOrder, Cursor, ReplayAhead
<1>7. ReplayComplete'
  <2> SUFFICES ASSUME NEW s \in Streams, NEW i \in replay[s], NEW j \in Ids',
                      sent[s] < j, j < i, Wanted(j)'
               PROVE  j \in replay[s]
      BY <1>1 DEF ReplayComplete
  <2>1. i \in Ids /\ i < new
        BY <1>3, <1>5
  <2>2. i \in Nat /\ j # new
        BY <1>2, <1>5, <2>1
  <2> QED BY <1>3, <1>4, <2>1, <2>2 DEF Inv, ReplayComplete
<1>8. QueueOrdered'
      BY <1>1, <1>3, <1>4, <1>5 DEF Inv, QueueOrdered
<1>9. Covered'
  <2> SUFFICES ASSUME NEW s \in Streams, current = s, stream[s] = "open",
                      NEW i \in Ids', i # new, Wanted(i)', i > sent[s]
               PROVE  Coming(s, i)
      BY <1>1 DEF Covered, Coming
  <2>1. i \in Ids /\ i # 0
        BY <1>2, <1>3
  <2> QED BY <1>1, <1>4, <2>1 DEF Inv, Covered
<1>10. Complete'
  <2> SUFFICES ASSUME NEW i \in Ids', Wanted(i)', i <= Newest(received)
               PROVE  i \in Members(received) \cup missed
      BY <1>1 DEF Complete
  <2>1. i # new
        BY <1>2, <1>5 DEF new
  <2> QED BY <1>3, <1>4, <2>1 DEF Inv, Complete
<1>11. Feed!Next
      BY <1>1 DEF Feed!Next, Feed!Publish
<1> QED BY <1>6, <1>7, <1>8, <1>9, <1>10, <1>11 DEF Inv

LEMMA FetchInv ==
    ASSUME TypeOK, Inv, NEW s \in Streams, FetchRows(s)
    PROVE  Inv' /\ [Feed!Next]_Feed!vars
<1>1. /\ stream[s] = "subscribed" /\ stream' = [stream EXCEPT ![s] = "open"]
      /\ replay' = [replay EXCEPT ![s] = {i \in Ids : Wanted(i) /\ i > sent[s]}]
      /\ UNCHANGED <<table, writing, subscribers, queue, drops, sent, keepalives, current,
                      received, missed>>
      BY DEF FetchRows, bus, queues, client, bounds, Ids
<1>2. /\ InOrder' /\ Complete' /\ [Feed!Next]_Feed!vars
      /\ Ids' = Ids /\ \A i : Wanted(i)' <=> Wanted(i)
      BY <1>1, Quiet DEF Wanted
<1>3. /\ replay'[s] = {i \in Ids : Wanted(i) /\ i > sent[s]} /\ stream'[s] = "open"
      /\ \A q \in Streams \ {s} : replay'[q] = replay[q] /\ stream'[q] = stream[q]
      BY <1>1 DEF TypeOK
<1>4. Cursor'
      BY <1>1, <1>3 DEF Inv, Cursor, Newest
<1>5. ReplayAhead'
      BY <1>1, <1>2, <1>3 DEF Inv, ReplayAhead
<1>6. ReplayComplete'
      BY <1>1, <1>2, <1>3 DEF Inv, ReplayComplete
<1>7. QueueOrdered'
      BY <1>1, <1>2 DEF Inv, QueueOrdered
<1>8. Covered'
  <2> SUFFICES ASSUME NEW q \in Streams, current = q, stream'[q] = "open", NEW i \in Ids,
                      i # writing, Wanted(i), i > sent[q]
               PROVE  Coming(q, i)'
      BY <1>1, <1>2 DEF Covered
  <2>1. CASE q = s
        BY <2>1, <1>3 DEF Coming
  <2>2. CASE q # s
        BY <2>2, <1>1, <1>3 DEF Inv, Covered, Coming
  <2> QED BY <2>1, <2>2
<1> QED BY <1>2, <1>4, <1>5, <1>6, <1>7, <1>8 DEF Inv

LEMMA SendRowInv ==
    ASSUME TypeOK, Inv, NEW s \in Streams, SendRow(s)
    PROVE  Inv' /\ [Feed!Next]_Feed!vars
<1>1. PICK id \in replay[s] :
        /\ \A other \in replay[s] : id <= other
        /\ replay' = [replay EXCEPT ![s] = @ \ {id}]
        /\ Send(s, id)
      BY DEF SendRow
<1>2. /\ stream[s] = "open"
      /\ UNCHANGED <<table, writing, subscribers, queue, drops, stream, keepalives, current, missed>>
      BY DEF SendRow, bus, queues, bounds
<1>3. /\ id \in Ids /\ replay[s] \subseteq Ids /\ Ids \subseteq Nat /\ Wanted(id) /\ id > sent[s]
      /\ Ids' = Ids /\ \A i : Wanted(i)' <=> Wanted(i)
      BY <1>2, TableIds DEF TypeOK, Inv, ReplayAhead, Ids, Wanted
<1>4. \A j \in Ids : sent[s] < j /\ j < id /\ Wanted(j) => j \in missed
  <2> SUFFICES ASSUME NEW j \in Ids, sent[s] < j, j < id, Wanted(j) PROVE FALSE
      OBVIOUS
  <2>1. j \in replay[s] /\ id <= j
        BY <1>1 DEF Inv, ReplayComplete
  <2> QED BY <2>1, <1>3
<1>5. /\ sent' = [sent EXCEPT ![s] = id]
      /\ current = s => Newest(received') = id
      /\ current # s => received' = received
      /\ InOrder' /\ Complete' /\ [Feed!Next]_Feed!vars
      BY <1>1, <1>2, <1>3, <1>4, Delivery
<1>6. /\ replay'[s] = replay[s] \ {id} /\ sent'[s] = id
      /\ \A q \in Streams \ {s} : replay'[q] = replay[q] /\ sent'[q] = sent[q]
      BY <1>1, <1>5 DEF TypeOK
<1>7. \A i \in replay[s] \ {id} : i > id
  <2> SUFFICES ASSUME NEW i \in replay[s], i # id PROVE i > id
      OBVIOUS
  <2>1. i \in Nat /\ id \in Nat /\ id <= i
        BY <1>1, <1>3
  <2> QED BY <2>1
<1>8. Cursor'
      BY <1>2, <1>5, <1>6 DEF Inv, Cursor
<1>9. ReplayAhead'
      BY <1>2, <1>3, <1>6, <1>7 DEF Inv, ReplayAhead
<1>10. ASSUME NEW j \in Ids, j > id PROVE j > sent[s]
  <2>1. j \in Nat /\ id \in Nat /\ sent[s] \in Nat
        BY <1>3, SentType
  <2> QED BY <2>1, <1>3, <1>10
<1>11. ReplayComplete'
  <2> SUFFICES ASSUME NEW q \in Streams, NEW i \in replay'[q], NEW j \in Ids,
                      sent'[q] < j, j < i, Wanted(j)
               PROVE  j \in replay'[q]
      BY <1>3 DEF ReplayComplete
  <2>1. CASE q = s
    <3>1. i \in replay[s] /\ j > id /\ j \in Nat /\ id \in Nat
          BY <2>1, <1>3, <1>6
    <3>2. j \in replay[s]
          BY <2>1, <3>1, <1>3, <1>10 DEF Inv, ReplayComplete, TypeOK
    <3> QED BY <2>1, <3>1, <3>2, <1>6
  <2>2. CASE q # s
        BY <2>2, <1>6 DEF Inv, ReplayComplete
  <2> QED BY <2>1, <2>2
<1>12. QueueOrdered'
      BY <1>2, <1>3 DEF Inv, QueueOrdered
<1>13. Covered'
  <2> SUFFICES ASSUME NEW q \in Streams, current = q, stream[q] = "open", NEW i \in Ids,
                      i # writing, Wanted(i), i > sent'[q]
               PROVE  Coming(q, i)'
      BY <1>2, <1>3 DEF Covered
  <2>1. CASE q = s
    <3>1. i > id /\ i # id
          BY <2>1, <1>3, <1>6
    <3>2. Coming(s, i)
          BY <2>1, <3>1, <1>10 DEF Inv, Covered
    <3> QED BY <2>1, <3>1, <3>2, <1>2, <1>6 DEF Coming
  <2>2. CASE q # s
        BY <2>2, <1>2, <1>6 DEF Inv, Covered, Coming
  <2> QED BY <2>1, <2>2
<1> QED BY <1>5, <1>8, <1>9, <1>11, <1>12, <1>13 DEF Inv

LEMMA TakeEventInv ==
    ASSUME TypeOK, Inv, NEW s \in Streams, TakeEvent(s)
    PROVE  Inv' /\ [Feed!Next]_Feed!vars
<1> DEFINE head == Head(queue[s])
<1>1. /\ stream[s] = "open" /\ replay[s] = {} /\ queue[s] # <<>>
      /\ queue' = [queue EXCEPT ![s] = Tail(queue[s])]
      /\ UNCHANGED <<table, writing, subscribers, drops, stream, replay, current, missed>>
      /\ \/ head <= sent[s] /\ UNCHANGED <<sent, received>>
         \/ ~(head <= sent[s]) /\ Send(s, head)
      BY DEF TakeEvent, Following, bus, bounds
<1>2. /\ Ids \in SUBSET Nat /\ Ids \subseteq Nat
      /\ Ids' = Ids /\ \A i : Wanted(i)' <=> Wanted(i)
      /\ sent[s] \in Nat
      BY <1>1, TableIds, SentType DEF Ids, Wanted
<1>3. /\ head \in Ids /\ Wanted(head) /\ (writing # 0 => head < writing)
      /\ Members(queue[s]) = Members(Tail(queue[s])) \cup {head}
      /\ Increasing(Tail(queue[s]))
      /\ \A j \in Members(Tail(queue[s])) : head < j
  <2>1. Increasing(queue[s]) /\ queue[s] \in Seq(Ids)
        BY QueueType DEF Inv, QueueOrdered
  <2>2. /\ head \in Ids /\ Members(queue[s]) = Members(Tail(queue[s])) \cup {head}
        /\ Increasing(Tail(queue[s]))
        /\ \A j \in Members(Tail(queue[s])) : head < j
        BY <1>1, <1>2, <2>1, HeadAndTail
  <2>3. Wanted(head) /\ (writing # 0 => head < writing)
        BY <2>2 DEF Inv, QueueOrdered
  <2> QED BY <2>2, <2>3
<1>4. head \in Nat
      BY <1>2, <1>3
<1> HIDE DEF head
<1>5. /\ queue'[s] = Tail(queue[s])
      /\ \A q \in Streams \ {s} : queue'[q] = queue[q]
      BY <1>1 DEF TypeOK
<1>6. QueueOrdered'
      BY <1>1, <1>2, <1>3, <1>5 DEF Inv, QueueOrdered
<1>7. CASE head <= sent[s] /\ UNCHANGED <<sent, received>>
  <2>1. InOrder' /\ Complete' /\ [Feed!Next]_Feed!vars /\ Newest(received') = Newest(received)
        BY <1>1, <1>7, Quiet
  <2>2. Cursor' /\ ReplayAhead' /\ ReplayComplete'
        BY <1>1, <1>2, <1>7, <2>1 DEF Inv, Cursor, ReplayAhead, ReplayComplete
  <2>3. Covered'
    <3> SUFFICES ASSUME NEW q \in Streams, current = q, stream[q] = "open", NEW i \in Ids,
                        i # writing, Wanted(i), i > sent[q]
                 PROVE  Coming(q, i)'
        BY <1>1, <1>2, <1>7 DEF Covered
    <3>1. Coming(q, i)
          BY DEF Inv, Covered
    <3>2. CASE q = s
      <4>1. i # head
            BY <1>2, <1>4, <1>7, <3>2
      <4> QED BY <1>1, <1>3, <1>5, <3>1, <3>2, <4>1 DEF Coming
    <3>3. CASE q # s
          BY <1>1, <1>5, <3>1, <3>3 DEF Coming
    <3> QED BY <3>2, <3>3
  <2> QED BY <1>6, <2>1, <2>2, <2>3 DEF Inv
<1>8. CASE ~(head <= sent[s]) /\ Send(s, head)
  <2>1. head > sent[s]
        BY <1>2, <1>4, <1>8
  <2>2. current = s => \A j \in Ids : sent[s] < j /\ j < head /\ Wanted(j) => j \in missed
    <3> SUFFICES ASSUME current = s, NEW j \in Ids, sent[s] < j, j < head, Wanted(j)
                 PROVE  j \in missed
        OBVIOUS
    <3>1. j \in Nat /\ j # head /\ ~(head < j)
          BY <1>2, <1>4
    <3>2. j # writing
      <4>1. CASE writing = 0
        <5>1. j # 0
              BY <1>2, <3>1
        <5> QED BY <4>1, <5>1
      <4>2. CASE writing # 0
        <5>1. writing \in Nat
              BY <4>2, TableIds
        <5> QED BY <1>3, <1>4, <3>1, <4>2, <5>1
      <4> QED BY <4>1, <4>2
    <3>3. Coming(s, j)
          BY <1>1, <3>2 DEF Inv, Covered
    <3> QED BY <1>1, <1>3, <3>1, <3>3 DEF Coming
  <2>3. /\ sent' = [sent EXCEPT ![s] = head]
        /\ current = s => Newest(received') = head
        /\ current # s => received' = received
        /\ InOrder' /\ Complete' /\ [Feed!Next]_Feed!vars
        BY <1>1, <1>3, <1>8, <2>1, <2>2, Delivery
  <2>4. sent'[s] = head /\ \A q \in Streams \ {s} : sent'[q] = sent[q]
        BY <2>3 DEF TypeOK
  <2>5. Cursor'
        BY <1>1, <2>3, <2>4 DEF Inv, Cursor
  <2>6. ReplayAhead' /\ ReplayComplete'
        BY <1>1, <1>2, <2>4 DEF Inv, ReplayAhead, ReplayComplete
  <2>7. Covered'
    <3> SUFFICES ASSUME NEW q \in Streams, current = q, stream[q] = "open", NEW i \in Ids,
                        i # writing, Wanted(i), i > sent'[q]
                 PROVE  Coming(q, i)'
        BY <1>1, <1>2 DEF Covered
    <3>1. CASE q = s
      <4>1. i # head /\ i > sent[s]
            BY <1>2, <1>4, <2>1, <2>4, <3>1
      <4>2. Coming(s, i)
            BY <3>1, <4>1 DEF Inv, Covered
      <4> QED BY <1>1, <1>3, <1>5, <3>1, <4>1, <4>2 DEF Coming
    <3>2. CASE q # s
          BY <1>1, <1>5, <2>4, <3>2 DEF Inv, Covered, Coming
    <3> QED BY <3>1, <3>2
  <2> QED BY <1>6, <2>3, <2>5, <2>6, <2>7 DEF Inv
<1> QED BY <1>1, <1>7, <1>8

\* A stream that closes forgets all it had, and the client leaves it.
LEMMA CloseInv ==
    ASSUME TypeOK, Inv, NEW s \in Streams, Close(s), UNCHANGED <<bus, received, bounds, missed>>
    PROVE  Inv' /\ [Feed!Next]_Feed!vars
<1>1. /\ UNCHANGED <<table, writing, received, missed>>
      /\ queue'[s] = <<>> /\ replay'[s] = {} /\ stream'[s] = "closed" /\ current' # s
      /\ subscribers' = subscribers \ {s}
      /\ \A q \in Streams \ {s} :
           /\ queue'[q] = queue[q] /\ replay'[q] = replay[q] /\ stream'[q] = stream[q]
           /\ sent'[q] = sent[q] /\ (current' = q => current = q)
      BY Sizes DEF Close, TypeOK, bus
<1>2. /\ InOrder' /\ Complete' /\ [Feed!Next]_Feed!vars /\ Newest(received') = Newest(received)
      /\ Ids' = Ids /\ \A i : Wanted(i)' <=> Wanted(i)
      BY <1>1, Quiet DEF Wanted
<1>3. Cursor' /\ ReplayAhead' /\ ReplayComplete'
      BY <1>1, <1>2 DEF Inv, Cursor, ReplayAhead, ReplayComplete
<1>4. QueueOrdered'
  <2> SUFFICES ASSUME NEW q \in Streams
               PROVE  /\ Increasing(queue'[q])
                      /\ \A i \in Members(queue'[q]) : Wanted(i) /\ (writing # 0 => i < writing)
      BY <1>1, <1>2 DEF QueueOrdered
  <2>1. CASE q = s
        BY <1>1, <2>1, EmptyQueue
  <2>2. CASE q # s
        BY <1>1, <2>2 DEF Inv, QueueOrdered
  <2> QED BY <2>1, <2>2
<1>5. Covered'
      BY <1>1, <1>2 DEF Inv, Covered, Coming
<1> QED BY <1>2, <1>3, <1>4, <1>5 DEF Inv

LEMMA ConnectInv ==
    ASSUME TypeOK, Inv, NEW s \in Streams, Connect(s)
    PROVE  Inv' /\ [Feed!Next]_Feed!vars
<1>1. /\ UNCHANGED <<table, writing, received, missed, replay>>
      /\ stream[s] = "closed" /\ current = NoStream /\ current' = s
      /\ queue'[s] = <<>> /\ stream'[s] = "subscribed" /\ sent'[s] = Newest(received)
      /\ \A q \in Streams \ {s} :
           queue'[q] = queue[q] /\ stream'[q] = stream[q] /\ sent'[q] = sent[q]
      BY DEF Connect, TypeOK, bus
<1>2. /\ InOrder' /\ Complete' /\ [Feed!Next]_Feed!vars /\ Newest(received') = Newest(received)
      /\ Ids' = Ids /\ \A i : Wanted(i)' <=> Wanted(i)
      BY <1>1, Quiet DEF Wanted
<1>3. Cursor' /\ ReplayAhead' /\ ReplayComplete'
      BY <1>1, <1>2 DEF Inv, Cursor, ReplayAhead, ReplayComplete
<1>4. QueueOrdered'
  <2> SUFFICES ASSUME NEW q \in Streams
               PROVE  /\ Increasing(queue'[q])
                      /\ \A i \in Members(queue'[q]) : Wanted(i) /\ (writing # 0 => i < writing)
      BY <1>1, <1>2 DEF QueueOrdered
  <2>1. CASE q = s
        BY <1>1, <2>1, EmptyQueue
  <2>2. CASE q # s
        BY <1>1, <2>2 DEF Inv, QueueOrdered
  <2> QED BY <2>1, <2>2
<1>5. Covered'
      BY <1>1 DEF Covered
<1> QED BY <1>2, <1>3, <1>4, <1>5 DEF Inv

\* Steps that only lose something: an abandoned read, a keep-alive, a connection.
LEMMA LossInv ==
    ASSUME TypeOK, Inv, NEW s \in Streams, AbandonFetch(s) \/ KeepAlive(s) \/ NoticeGone(s)
    PROVE  Inv' /\ [Feed!Next]_Feed!vars
<1>1. CASE AbandonFetch(s)
  <2>1. /\ UNCHANGED <<table, writing, received, missed, replay, queue, subscribers, current>>
        /\ stream[s] = "subscribed" /\ stream'[s] = "closed" /\ current # s
        /\ \A q \in Streams \ {s} : stream'[q] = stream[q] /\ sent'[q] = sent[q]
        BY <1>1 DEF AbandonFetch, TypeOK, bus, queues, client
  <2>2. /\ InOrder' /\ Complete' /\ [Feed!Next]_Feed!vars /\ Newest(received') = Newest(received)
        /\ Ids' = Ids /\ \A i : Wanted(i)' <=> Wanted(i)
        BY <2>1, Quiet DEF Wanted
  <2>3. Cursor' /\ ReplayAhead' /\ ReplayComplete'
        BY <2>1, <2>2 DEF Inv, Cursor, ReplayAhead, ReplayComplete
  <2>4. QueueOrdered' /\ Covered'
        BY <2>1, <2>2 DEF Inv, QueueOrdered, Covered, Coming
  <2> QED BY <2>2, <2>3, <2>4 DEF Inv
<1>2. CASE KeepAlive(s)
  <2>1. CASE keepalives[s] + 1 >= MaxKeepAlives
        BY <1>2, <2>1, CloseInv DEF KeepAlive
  <2>2. CASE ~(keepalives[s] + 1 >= MaxKeepAlives)
    <3>1. UNCHANGED <<table, writing, received, missed, replay, queue, subscribers, current,
                      stream, sent>>
          BY <1>2, <2>2 DEF KeepAlive, bus, queues
    <3>2. /\ InOrder' /\ Complete' /\ [Feed!Next]_Feed!vars /\ Newest(received') = Newest(received)
          /\ Ids' = Ids /\ \A i : Wanted(i)' <=> Wanted(i)
          BY <3>1, Quiet DEF Wanted
    <3>3. Cursor' /\ ReplayAhead' /\ ReplayComplete' /\ QueueOrdered' /\ Covered'
          BY <3>1, <3>2 DEF Inv, Cursor, ReplayAhead, ReplayComplete, QueueOrdered, Covered, Coming
    <3> QED BY <3>2, <3>3 DEF Inv
  <2> QED BY <2>1, <2>2
<1>3. CASE NoticeGone(s)
      BY <1>3, CloseInv DEF NoticeGone
<1> QED BY <1>1, <1>2, <1>3

\* What a publication does to one queue.
LEMMA QueuePublished ==
    ASSUME TypeOK, Inv, Publish, NEW s \in Streams
    PROVE  /\ Increasing(queue'[s])
           /\ \A i \in Members(queue'[s]) : Wanted(i)
           /\ Members(queue'[s]) \subseteq Members(queue[s]) \cup {writing}
           /\ s \notin Addressed => queue'[s] = queue[s]
           /\ s \in Stale => queue'[s] = queue[s]
           /\ s \in Addressed \ Stale => writing \in Members(queue'[s])
           /\ \A i \in Members(queue[s]) :
                i \in Members(queue'[s]) \/ (s \in Full \ Stale /\ i = Head(queue[s]))
<1>1. /\ writing \in Ids /\ writing # 0 /\ Ids \in SUBSET Nat
      BY TableIds DEF Publish
<1>2. /\ queue[s] \in Seq(Ids) /\ Increasing(queue[s])
      /\ \A i \in Members(queue[s]) : Wanted(i) /\ i < writing
      BY <1>1, QueueType DEF Inv, QueueOrdered
<1>3. queue'[s] = IF s \in Full \ Stale THEN Append(Tail(queue[s]), writing)
                  ELSE IF s \in Addressed \ Full THEN Append(queue[s], writing)
                  ELSE queue[s]
      BY DEF Publish
<1>4. Stale \subseteq Full /\ Full \subseteq Addressed /\ (s \in Addressed => Wanted(writing))
      BY DEF Stale, Full, Addressed
<1>5. CASE s \in Full \ Stale
  <2>1. queue[s] # <<>>
        BY <1>1, <1>5, PushedType DEF Full
  <2>2. /\ Tail(queue[s]) \in Seq(Ids) /\ Increasing(Tail(queue[s]))
        /\ Members(queue[s]) = Members(Tail(queue[s])) \cup {Head(queue[s])}
        BY <1>1, <1>2, <2>1, HeadAndTail
  <2>3. queue'[s] = Append(Tail(queue[s]), writing)
        BY <1>3, <1>5
  <2>4. \A j \in Members(Tail(queue[s])) : j < writing
        BY <1>2, <2>2
  <2>5. Members(queue'[s]) = Members(Tail(queue[s])) \cup {writing}
    <3>1. ASSUME NEW ids \in Seq(Ids)
          PROVE  Members(Append(ids, writing)) = Members(ids) \cup {writing}
          BY <1>1, AppendIds
    <3> QED BY <2>2, <2>3, <3>1
  <2>6. Increasing(queue'[s])
        BY <1>1, <2>2, <2>3, <2>4, IncreasingAppend
  <2> QED BY <1>2, <1>4, <1>5, <2>2, <2>5, <2>6
<1>6. CASE s \in Addressed \ Full
  <2>1. /\ Members(queue'[s]) = Members(queue[s]) \cup {writing}
        /\ Increasing(queue'[s])
        BY <1>1, <1>2, <1>3, <1>6, AppendIds, IncreasingAppend
  <2> QED BY <1>2, <1>4, <1>6, <2>1
<1>7. CASE s \notin Full \ Stale /\ s \notin Addressed \ Full
      BY <1>2, <1>3, <1>4, <1>7
<1> QED BY <1>5, <1>6, <1>7

LEMMA PublishInv ==
    ASSUME TypeOK, Inv, Publish
    PROVE  Inv' /\ [Feed!Next]_Feed!vars
<1>1. /\ writing \in Ids /\ writing = Len(table) /\ Ids = 1 .. Len(table) /\ Ids \subseteq Nat
      BY TableIds DEF Publish
<1>2. /\ writing' = 0 /\ subscribers' = subscribers \ Stale
      /\ missed' = missed \cup {Head(queue[s]) : s \in (Full \ Stale) \cap {current}}
      /\ UNCHANGED <<table, stream, replay, sent, current, received>>
      BY DEF Publish, cursors, client
<1>3. Ids' = Ids /\ \A i : Wanted(i)' <=> Wanted(i)
      BY <1>2 DEF Ids, Wanted
<1>4. InOrder' /\ Cursor' /\ ReplayAhead' /\ ReplayComplete' /\ Complete'
      BY <1>2, <1>3 DEF Inv, InOrder, Cursor, ReplayAhead, ReplayComplete, Complete,
                       Increasing, Members, Newest
<1>5. QueueOrdered'
      BY <1>2, <1>3, QueuePublished DEF QueueOrdered
<1>6. Covered'
  <2> SUFFICES ASSUME NEW s \in Streams, current = s, stream[s] = "open", NEW i \in Ids,
                      Wanted(i), i > sent[s]
               PROVE  Coming(s, i)'
      BY <1>2, <1>3 DEF Covered
  <2>1. \A j \in replay[s] \cup Members(queue[s]) : j \in Ids
        BY QueuedIds DEF TypeOK
  <2>2. CASE i # writing
    <3>1. Coming(s, i)
          BY <2>2 DEF Inv, Covered
    <3>2. CASE i \in replay[s] \cup missed
          BY <1>2, <3>2 DEF Coming
    <3>3. CASE i \in Members(queue[s])
          BY <1>2, <3>3, QueuePublished DEF Coming
    <3>4. CASE s \notin subscribers /\ \A j \in replay[s] \cup Members(queue[s]) : j < i
      <4>1. queue'[s] = queue[s]
            BY <3>4, QueuePublished DEF Addressed
      <4> QED BY <1>2, <3>4, <4>1 DEF Coming
    <3> QED BY <3>1, <3>2, <3>3, <3>4 DEF Coming
  <2>3. CASE i = writing
    <3>1. CASE s \in Addressed \ Stale
          BY <2>3, <3>1, QueuePublished DEF Coming
    <3>2. CASE s \notin Addressed \ Stale
      <4>1. s \notin subscribers' /\ queue'[s] = queue[s]
            BY <1>2, <2>3, <3>2, QueuePublished DEF Addressed
      <4>2. \A j \in Members(queue[s]) : j < i
            BY <1>1, <2>3 DEF Inv, QueueOrdered
      <4>3. CASE i \in replay[s]
            BY <1>2, <4>3 DEF Coming
      <4>4. CASE i \notin replay[s]
        <5>1. \A j \in replay[s] : j < i
              BY <1>1, <2>1, <2>3, <4>4
        <5> QED BY <1>2, <4>1, <4>2, <5>1 DEF Coming
      <4> QED BY <4>3, <4>4
    <3> QED BY <3>1, <3>2
  <2> QED BY <2>2, <2>3
<1>7. [Feed!Next]_Feed!vars
  <2>1. CASE current \notin Full \ Stale
    <3>1. missed' = missed
          BY <1>2, <2>1
    <3> QED BY <1>2, <3>1 DEF Feed!vars
  <2>2. CASE current \in Full \ Stale
    <3>1. current \in Streams /\ Head(queue[current]) \in Ids
          BY <2>2, PushedType DEF Full, Addressed, TypeOK, Publish
    <3>2. missed' = missed \cup {Head(queue[current])}
          BY <1>2, <2>2
    <3>3. Feed!Miss(Head(queue[current]))
          BY <1>2, <3>2 DEF Feed!Miss
    <3> QED BY <3>1, <3>3 DEF Feed!Next, Ids
  <2> QED BY <2>1, <2>2
<1> QED BY <1>4, <1>5, <1>6, <1>7 DEF Inv

LEMMA OutsideInv ==
    ASSUME TypeOK, Inv, Disconnect \/ Restart
    PROVE  Inv' /\ [Feed!Next]_Feed!vars
<1>1. UNCHANGED <<table, received, missed>> /\ current' = NoStream
      BY DEF Disconnect, Restart, bus, queues, cursors
<1>2. /\ InOrder' /\ Complete' /\ [Feed!Next]_Feed!vars
      /\ Ids' = Ids /\ \A i : Wanted(i)' <=> Wanted(i)
      BY <1>1, Quiet DEF Wanted
<1>3. Cursor' /\ Covered'
      BY <1>1, Sizes DEF Cursor, Covered
<1>4. ReplayAhead' /\ ReplayComplete' /\ QueueOrdered'
  <2>1. CASE Disconnect
        BY <1>2, <2>1 DEF Disconnect, bus, queues, cursors, Inv, ReplayAhead, ReplayComplete, QueueOrdered
  <2>2. CASE Restart
    <3>1. \A s \in Streams : queue'[s] = <<>> /\ replay'[s] = {}
          BY <2>2 DEF Restart
    <3> QED BY <3>1, EmptyQueue DEF ReplayAhead, ReplayComplete, QueueOrdered
  <2> QED BY <2>1, <2>2
<1> QED BY <1>2, <1>3, <1>4 DEF Inv

LEMMA InitInv == Init => Inv /\ Feed!Init
<1> SUFFICES ASSUME Init PROVE Inv /\ Feed!Init
    OBVIOUS
<1>1. /\ received = <<>> /\ missed = {} /\ table = <<>> /\ current = NoStream
      /\ \A s \in Streams : queue[s] = <<>> /\ replay[s] = {}
      BY DEF Init
<1>2. InOrder /\ QueueOrdered
      BY <1>1, EmptyQueue DEF InOrder, QueueOrdered
<1>3. Cursor /\ Covered /\ ReplayAhead /\ ReplayComplete
      BY <1>1, Sizes DEF Cursor, Covered, ReplayAhead, ReplayComplete
<1>4. Complete
  <2>1. Ids = {}
        BY <1>1 DEF Ids
  <2> QED BY <2>1 DEF Complete
<1> QED BY <1>1, <1>2, <1>3, <1>4 DEF Inv, Feed!Init

LEMMA StepInv == TypeOK /\ Inv /\ [Next]_vars => Inv' /\ [Feed!Next]_Feed!vars
<1> SUFFICES ASSUME TypeOK, Inv, [Next]_vars PROVE Inv' /\ [Feed!Next]_Feed!vars
    OBVIOUS
<1>1. CASE UNCHANGED vars
  <2>1. /\ InOrder' /\ Complete' /\ [Feed!Next]_Feed!vars
        BY <1>1, Quiet DEF vars, bus, client
  <2>2. Cursor' /\ ReplayAhead' /\ ReplayComplete' /\ QueueOrdered' /\ Covered'
        BY <1>1 DEF vars, bus, queues, cursors, client, Inv, Cursor, ReplayAhead, ReplayComplete,
                    QueueOrdered, Covered, Coming, Ids, Wanted, Newest, Increasing, Members
  <2> QED BY <2>1, <2>2 DEF Inv
<1>2. CASE Next
      BY <1>2, CommitInv, PublishInv, ConnectInv, FetchInv, SendRowInv, TakeEventInv, LossInv,
         OutsideInv DEF Next, StreamStep
<1> QED BY <1>1, <1>2

LEMMA Invariance == Spec => [](TypeOK /\ Inv)
<1>1. Init => TypeOK /\ Inv
      BY InitType, InitInv
<1>2. TypeOK /\ Inv /\ [Next]_vars => (TypeOK /\ Inv)'
      BY StepType, StepInv
<1> QED BY <1>1, <1>2, PTL DEF Spec

\* The client receives no event twice and none out of order.
THEOREM InOrderAlways == Spec => []InOrder
<1>1. Inv => InOrder
      BY DEF Inv
<1> QED BY <1>1, Invariance, PTL

\* Every event of the topic has been received, is on its way, was counted as
\* dropped, or waits for the reconnection that the end of a reaped stream brings.
THEOREM AccountedAlways == Spec => []Accounted
<1>1. ASSUME TypeOK, Inv PROVE Accounted
  <2> SUFFICES ASSUME NEW s \in Streams, current = s, stream[s] = "open",
                      NEW i \in Published, Wanted(i)
               PROVE  \/ i \in Members(received) \cup missed \cup replay[s] \cup Members(queue[s])
                      \/ /\ Reaped(s)
                         /\ \A j \in Members(queue[s]) \cup Members(received) : j < i
      BY <1>1 DEF Accounted
  <2>1. i \in Ids /\ i \in Nat \ {0}
        BY <1>1, TableIds DEF Published
  <2>2. /\ i \in Ids /\ i # writing /\ i \in Nat
        /\ sent[s] = Newest(received) /\ sent[s] \in Nat
        BY <1>1, <2>1, SentType DEF Published, Inv, Cursor
  <2>3. CASE i <= sent[s]
        BY <1>1, <2>2, <2>3 DEF Inv, Complete
  <2>4. CASE i > sent[s]
    <3>1. Coming(s, i)
          BY <1>1, <2>2, <2>4 DEF Inv, Covered
    <3>2. \A j \in Members(received) : j < i
      <4> SUFFICES ASSUME NEW j \in Members(received) PROVE j < i
          OBVIOUS
      <4>1. j \in Nat /\ j <= sent[s]
            BY <1>1, <2>2, ReceivedIds, TableIds DEF Inv
      <4> QED BY <2>2, <2>4, <4>1
    <3> QED BY <3>1, <3>2 DEF Coming, Reaped
  <2> QED BY <2>2, <2>3, <2>4
<1> QED BY <1>1, Invariance, PTL

\* The event stream implements the feed: whatever connections carry the events,
\* each arrives once, in order, and after all that it does not miss.
THEOREM ImplementsFeed == Spec => ImplementsEventFeed
<1>1. Init => Feed!Init
      BY InitInv
<1>2. TypeOK /\ Inv /\ [Next]_vars => [Feed!Next]_Feed!vars
      BY StepInv
<1> QED BY <1>1, <1>2, Invariance, PTL DEF Spec, ImplementsEventFeed, Feed!Spec
=============================================================================
