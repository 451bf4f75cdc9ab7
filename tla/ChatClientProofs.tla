-------------------------- MODULE ChatClientProofs ---------------------------
(***************************************************************************)
(* Theorems about ChatClient, for any number of conversations, runs and    *)
(* prompts and any bounds.                                                 *)
(***************************************************************************)
EXTENDS ChatClient, FiniteSetTheorems, TLAPS

-----------------------------------------------------------------------------
(* Sequences, and the members of a set of numbers in their order. *)

LEMMA TableIsSeq ==
    ASSUME NEW T, NEW n \in Nat, NEW f \in [1 .. n -> T]
    PROVE  f \in Seq(T) /\ Len(f) = n /\ DOMAIN f = 1 .. n
OBVIOUS

LEMMA SeqIsTable ==
    ASSUME NEW T, NEW s \in Seq(T)
    PROVE  /\ Len(s) \in Nat /\ DOMAIN s = 1 .. Len(s)
           /\ \A i \in DOMAIN s : i \in Nat /\ s[i] \in T
OBVIOUS

LEMMA JoinedSeq ==
    ASSUME NEW T, NEW s \in Seq(T), NEW t \in Seq(T)
    PROVE  /\ s \o t \in Seq(T)
           /\ Len(s \o t) = Len(s) + Len(t)
           /\ \A i \in 1 .. Len(s) : (s \o t)[i] = s[i]
           /\ \A i \in 1 .. Len(t) : (s \o t)[Len(s) + i] = t[i]
           /\ \A i \in (Len(s) + 1) .. (Len(s) + Len(t)) : (s \o t)[i] = t[i - Len(s)]
OBVIOUS

Rank(S, i) == Cardinality({j \in S : j < i})

\* Members of a set of numbers differ in how many are below them.
LEMMA RanksGrow ==
    ASSUME NEW m \in Nat, NEW S \in SUBSET (1 .. m), NEW i \in S
    PROVE  /\ IsFiniteSet(S) /\ Cardinality(S) \in Nat
           /\ Rank(S, i) \in 0 .. (Cardinality(S) - 1)
           /\ \A j \in S : i < j => Rank(S, i) < Rank(S, j)
<1>1. IsFiniteSet(1 .. m)
      BY FS_Interval
<1>2. IsFiniteSet(S) /\ Cardinality(S) \in Nat
      BY <1>1, FS_Subset, FS_CardinalityType
<1>3. ASSUME NEW T \in SUBSET S, NEW x \in S, x \notin T
      PROVE  Cardinality(T) \in Nat /\ Cardinality(T) < Cardinality(S)
  <2>1. IsFiniteSet(T) /\ Cardinality(T) <= Cardinality(S)
        BY <1>2, <1>3, FS_Subset
  <2>2. Cardinality(T) # Cardinality(S)
        BY <1>2, <1>3, FS_Subset
  <2>3. Cardinality(T) \in Nat
        BY <2>1, FS_CardinalityType
  <2> QED BY <1>2, <2>1, <2>2, <2>3
<1>4. Rank(S, i) \in 0 .. (Cardinality(S) - 1)
  <2>1. {j \in S : j < i} \in SUBSET S /\ i \notin {j \in S : j < i}
        OBVIOUS
  <2>2. Cardinality({j \in S : j < i}) \in Nat /\ Cardinality({j \in S : j < i}) < Cardinality(S)
        BY <2>1, <1>3
  <2> QED BY <2>2, <1>2 DEF Rank
<1>5. ASSUME NEW j \in S, i < j PROVE Rank(S, i) < Rank(S, j)
  <2> DEFINE A == {k \in S : k < i}
             B == {k \in S : k < j}
  <2>0. i \in Nat /\ j \in Nat /\ S \subseteq Nat
        OBVIOUS
  <2>1. A \in SUBSET B /\ i \in B /\ i \notin A
    <3>1. ASSUME NEW k \in A PROVE k \in B
      <4>1. k \in S /\ k < i
            OBVIOUS
      <4>2. k < j
            BY <4>1, <1>5, <2>0
      <4> QED BY <4>1, <4>2
    <3>2. i \in B /\ i \notin A
          BY <2>0, <1>5
    <3>3. A \subseteq B
      <4> HIDE DEF A, B
      <4> QED BY <3>1
    <3> QED BY <3>2, <3>3
  <2>2. IsFiniteSet(B)
        BY <1>2, FS_Subset
  <2>3. IsFiniteSet(A) /\ Cardinality(A) <= Cardinality(B) /\ (Cardinality(A) = Cardinality(B) => A = B)
    <3> HIDE DEF A, B
    <3> QED BY <2>1, <2>2, FS_Subset
  <2>4. Cardinality(A) \in Nat /\ Cardinality(B) \in Nat
    <3> HIDE DEF A, B
    <3> QED BY <2>2, <2>3, FS_CardinalityType
  <2>5. Cardinality(A) < Cardinality(B)
    <3> HIDE DEF A, B
    <3> QED BY <2>1, <2>3, <2>4
  <2> QED BY <2>5 DEF Rank
<1> QED BY <1>2, <1>4, <1>5

\* Nth finds a member for each number, and another one for another number.
LEMMA NthIsMember ==
    ASSUME NEW m \in Nat, NEW S \in SUBSET (1 .. m)
    PROVE  /\ Cardinality(S) \in Nat
           /\ \A n \in 1 .. Cardinality(S) : Nth(S, n) \in S /\ Rank(S, Nth(S, n)) = n - 1
<1> DEFINE N == Cardinality(S)
           T == 0 .. (N - 1)
           f == [i \in S |-> Rank(S, i)]
<1>1. IsFiniteSet(S) /\ N \in Nat
  <2>1. IsFiniteSet(1 .. m)
        BY FS_Interval
  <2> QED BY <2>1, FS_Subset, FS_CardinalityType
<1>2. IsFiniteSet(T) /\ Cardinality(T) = N
  <2> HIDE DEF N
  <2>1. IsFiniteSet(0 .. (N - 1)) /\ Cardinality(0 .. (N - 1)) = IF 0 > N - 1 THEN 0 ELSE (N - 1) - 0 + 1
        BY <1>1, FS_Interval
  <2> QED BY <1>1, <2>1
<1>3. f \in [S -> T] /\ \A i, j \in S : f[i] = f[j] => i = j
  <2>1. \A i \in S : Rank(S, i) \in T /\ \A j \in S : i < j => Rank(S, i) < Rank(S, j)
        BY RanksGrow
  <2>2. f \in [S -> T]
        BY <2>1
  <2>3. ASSUME NEW i \in S, NEW j \in S, f[i] = f[j] PROVE i = j
    <3>1. i \in Nat /\ j \in Nat /\ Rank(S, i) = Rank(S, j)
          BY <2>3
    <3>2. ~(i < j) /\ ~(j < i)
          BY <3>1, <2>1, <1>1
    <3> QED BY <3>1, <3>2
  <2> QED BY <2>2, <2>3
<1>4. f \in Injection(S, T)
  <2> HIDE DEF f, T
  <2> QED BY <1>3 DEF Injection, IsInjective
<1>5. f \in Surjection(S, T)
  <2> HIDE DEF f, T, N
  <2> QED BY <1>1, <1>2, <1>4, FS_Injection DEF N
<1>6. ASSUME NEW n \in 1 .. N PROVE Nth(S, n) \in S /\ Rank(S, Nth(S, n)) = n - 1
  <2>1. n - 1 \in T
        BY <1>1
  <2>2. \E i \in S : f[i] = n - 1
        BY <1>5, <2>1 DEF Surjection
  <2>3. \E i \in S : Rank(S, i) = n - 1
        BY <2>2
  <2> QED BY <2>3 DEF Nth, Rank
<1> QED BY <1>1, <1>6

-----------------------------------------------------------------------------
(* The types of the server. *)

LEMMA EventIsEvent == ASSUME NEW t \in EventTypes, NEW r \in Runs PROVE Event(t, r) \in Events
BY DEF Event, Events

LEMMA TypeNames ==
    /\ {"run.queued", "run.started", "tool.started", "permission.requested",
        "permission.resolved", "tool.finished", "message.delta", "run.completed"} \subseteq EventTypes
    /\ {"none", "running", "ended"} \subseteq Cards
    /\ {"queued", "running", "waiting_approval", "completed", "failed", "cancelled"} \subseteq Statuses
    /\ Unfinished = {"queued", "running", "waiting_approval"}
    /\ Active = {"running", "waiting_approval"}
BY DEF EventTypes, Cards, Statuses, Unfinished, Active

LEMMA MessageIsMessage ==
    ASSUME NEW kind \in {"prompt", "reply", "temp"}, NEW a \in Runs, NEW r \in Runs \cup {NoRun},
           NEW n \in Nat, NEW k \in Cards
    PROVE  Message(<<kind, a>>, r, n, k) \in Messages
BY DEF Message, Messages, Ids

LEMMA MessageUpdates ==
    ASSUME NEW m \in Messages
    PROVE  /\ m.id \in Ids /\ m.run \in Runs \cup {NoRun} /\ m.text \in Nat /\ m.card \in Cards
           /\ \A n \in Nat : [m EXCEPT !.text = n] \in Messages
           /\ \A n \in Nat, k \in Cards : [m EXCEPT !.text = n, !.card = k] \in Messages
           /\ \A k \in Cards : [m EXCEPT !.card = k] \in Messages
           /\ \A id \in Ids, r \in Runs : [m EXCEPT !.id = id, !.run = r] \in Messages
BY DEF Messages

LEMMA MessageFields ==
    ASSUME NEW m \in Messages
    PROVE  m.id \in Ids /\ m.run \in Runs \cup {NoRun} /\ m.text \in Nat /\ m.card \in Cards
BY DEF Messages

LEMMA LongerType ==
    ASSUME NEW ms \in Seq(Messages), NEW r
    PROVE  Longer(ms, r) \in Seq(Messages)
<1>1. ASSUME NEW i \in DOMAIN ms PROVE Longer(ms, r)[i] \in Messages
  <2>1. ms[i] \in Messages
        OBVIOUS
  <2>2. ms[i].text + 1 \in Nat
        BY <2>1, MessageFields
  <2>3. [ms[i] EXCEPT !.text = ms[i].text + 1] \in Messages
        BY <2>1, <2>2, MessageUpdates
  <2>4. Longer(ms, r)[i] = ms[i] \/ Longer(ms, r)[i] = [ms[i] EXCEPT !.text = ms[i].text + 1]
        BY DEF Longer
  <2> QED BY <2>1, <2>3, <2>4
<1>2. DOMAIN ms = 1 .. Len(ms) /\ Len(ms) \in Nat
      OBVIOUS
<1>3. Longer(ms, r) \in [1 .. Len(ms) -> Messages]
      BY <1>1, <1>2 DEF Longer
<1> QED BY <1>2, <1>3, TableIsSeq

LEMMA EmitType ==
    ASSUME ServerTypeOK, NEW c, NEW news \in Seq(Events), Emit(c, news)
    PROVE  events' \in [Conversations -> Seq(Events)]
<1>1. CASE c \in Conversations
  <2>1. events[c] \o news \in Seq(Events)
        BY <1>1, JoinedSeq DEF ServerTypeOK
  <2> QED BY <2>1, <1>1 DEF Emit, ServerTypeOK
<1>2. CASE c \notin Conversations
  <2>1. events' = events
        BY <1>2 DEF Emit, ServerTypeOK
  <2> QED BY <2>1 DEF ServerTypeOK
<1> QED BY <1>1, <1>2

LEMMA AddRowType ==
    ASSUME ServerTypeOK, NEW c, NEW m \in Messages, rows' = [rows EXCEPT ![c] = Append(@, m)]
    PROVE  rows' \in [Conversations -> Seq(Messages)]
<1>1. CASE c \in Conversations
  <2>1. Append(rows[c], m) \in Seq(Messages)
        BY <1>1 DEF ServerTypeOK
  <2> QED BY <2>1, <1>1 DEF ServerTypeOK
<1>2. CASE c \notin Conversations
  <2>1. rows' = rows
        BY <1>2 DEF ServerTypeOK
  <2> QED BY <2>1 DEF ServerTypeOK
<1> QED BY <1>1, <1>2

ServerStep ==
    \/ \E r \in Runs, c \in Conversations : Accept(r, c)
    \/ \E old, r \in Runs : AcceptRetry(old, r)
    \/ \E r \in Runs : RunStep(r) \/ AcceptAnswer(r) \/ AcceptCancel(r)

LEMMA ServerInitType == ServerInit => ServerTypeOK
<1> SUFFICES ASSUME ServerInit PROVE ServerTypeOK
    OBVIOUS
<1>1. <<>> \in Seq(Messages) /\ <<>> \in Seq(Events)
      OBVIOUS
<1> QED BY <1>1, TypeNames DEF ServerInit, ServerTypeOK

LEMMA ServerStepType ==
    ASSUME ServerTypeOK, ServerStep
    PROVE  ServerTypeOK'
<1>0. NoRun \notin Runs /\ Runs \subseteq Nat
      BY DEF NoRun, Runs
<1> USE TypeNames
<1>1. ASSUME NEW r \in Runs, NEW c \in Conversations, Accept(r, c) PROVE ServerTypeOK'
  <2>1. <<Event("run.queued", r)>> \in Seq(Events)
        BY EventIsEvent
  <2>2. events' \in [Conversations -> Seq(Events)]
        BY <1>1, <2>1, EmitType DEF Accept
  <2>3. Message(<<"prompt", r>>, r, 0, "none") \in Messages
        BY MessageIsMessage
  <2>4. rows' \in [Conversations -> Seq(Messages)]
        BY <1>1, <2>3, AddRowType DEF Accept
  <2> QED BY <1>1, <2>2, <2>4 DEF Accept, ServerTypeOK
<1>2. ASSUME NEW old \in Runs, NEW r \in Runs, AcceptRetry(old, r) PROVE ServerTypeOK'
  <2>1. <<Event("run.queued", r)>> \in Seq(Events)
        BY EventIsEvent
  <2>2. events' \in [Conversations -> Seq(Events)]
        BY <1>2, <2>1, EmitType DEF AcceptRetry
  <2> QED BY <1>2, <2>2 DEF AcceptRetry, ServerTypeOK
<1>3. ASSUME NEW r \in Runs, StartRun(r) PROVE ServerTypeOK'
  <2>1. <<Event("run.started", r)>> \in Seq(Events)
        BY EventIsEvent
  <2>2. events' \in [Conversations -> Seq(Events)]
        BY <1>3, <2>1, EmitType DEF StartRun
  <2>3. Message(<<"reply", r>>, r, 0, "none") \in Messages
        BY MessageIsMessage
  <2>4. rows' \in [Conversations -> Seq(Messages)]
        BY <1>3, <2>3, AddRowType DEF StartRun
  <2> QED BY <1>3, <2>2, <2>4 DEF StartRun, ServerTypeOK
<1>4. ASSUME NEW r \in Runs, AskApproval(r) PROVE ServerTypeOK'
  <2>1. <<Event("tool.started", r), Event("permission.requested", r)>> \in Seq(Events)
        BY EventIsEvent
  <2>2. events' \in [Conversations -> Seq(Events)]
        BY <1>4, <2>1, EmitType DEF AskApproval
  <2> QED BY <1>4, <2>2 DEF AskApproval, ServerTypeOK
<1>5. ASSUME NEW r \in Runs, AcceptAnswer(r) PROVE ServerTypeOK'
  <2>1. <<Event("permission.resolved", r), Event("tool.finished", r)>> \in Seq(Events)
        BY EventIsEvent
  <2>2. events' \in [Conversations -> Seq(Events)]
        BY <1>5, <2>1, EmitType DEF AcceptAnswer
  <2> QED BY <1>5, <2>2 DEF AcceptAnswer, ServerTypeOK
<1>6. ASSUME NEW r \in Runs, StoreChunk(r) PROVE ServerTypeOK'
  <2>1. CASE conv[r] \in Conversations
    <3>1. Longer(rows[conv[r]], r) \in Seq(Messages)
          BY <2>1, LongerType DEF ServerTypeOK
    <3>2. rows' \in [Conversations -> Seq(Messages)]
          BY <1>6, <2>1, <3>1 DEF StoreChunk, ServerTypeOK
    <3> QED BY <1>6, <3>2 DEF StoreChunk, ServerTypeOK
  <2>2. CASE conv[r] \notin Conversations
    <3>1. rows' = rows
          BY <1>6, <2>2 DEF StoreChunk, ServerTypeOK
    <3> QED BY <1>6, <3>1 DEF StoreChunk, ServerTypeOK
  <2> QED BY <2>1, <2>2
<1>7. ASSUME NEW r \in Runs, AnnounceChunk(r) PROVE ServerTypeOK'
  <2>1. <<Event("message.delta", r)>> \in Seq(Events)
        BY EventIsEvent
  <2>2. events' \in [Conversations -> Seq(Events)]
        BY <1>7, <2>1, EmitType DEF AnnounceChunk
  <2> QED BY <1>7, <2>2 DEF AnnounceChunk, ServerTypeOK
<1>8. ASSUME NEW r \in Runs, EndRun(r) PROVE ServerTypeOK'
  <2>1. <<Event("run.completed", r)>> \in Seq(Events)
        BY EventIsEvent
  <2>2. events' \in [Conversations -> Seq(Events)]
        BY <1>8, <2>1, EmitType DEF EndRun
  <2> QED BY <1>8, <2>2 DEF EndRun, ServerTypeOK
<1>9. ASSUME NEW r \in Runs, AcceptCancel(r) PROVE ServerTypeOK'
  <2> DEFINE told == IF tool[r] = "asked"
                     THEN <<Event("permission.resolved", r), Event("tool.finished", r)>>
                     ELSE <<>>
  <2>1. told \in Seq(Events) /\ <<Event("run.completed", r)>> \in Seq(Events)
        BY EventIsEvent
  <2>2. told \o <<Event("run.completed", r)>> \in Seq(Events)
    <3> HIDE DEF told
    <3> QED BY <2>1, JoinedSeq
  <2>3. events' \in [Conversations -> Seq(Events)]
        BY <1>9, <2>2, EmitType DEF AcceptCancel
  <2> QED BY <1>9, <2>3 DEF AcceptCancel, ServerTypeOK
<1> QED BY <1>1, <1>2, <1>3, <1>4, <1>5, <1>6, <1>7, <1>8, <1>9 DEF ServerStep, RunStep

-----------------------------------------------------------------------------
(* The types of a page. *)

LEMMA SendsAreRuns == Sends \subseteq Runs /\ NoRun \notin Runs /\ Runs \subseteq Nat
BY ServerAssumption, ClientAssumption DEF Sends, Runs, NoRun

LEMMA HasMember ==
    ASSUME NEW ms, NEW id, Has(ms, id)
    PROVE  LET k == CHOOSE j \in DOMAIN ms : ms[j].id = id
           IN  k \in DOMAIN ms /\ ms[k].id = id
BY DEF Has

LEMMA UpsertType ==
    ASSUME NEW ms \in Seq(Messages), NEW r \in Runs, NEW n \in Nat, NEW k \in Cards
    PROVE  Upsert(ms, r, n, k) \in Seq(Messages)
<1> DEFINE new == [i \in DOMAIN ms |->
            IF ms[i].id = <<"reply", r>>
            THEN [ms[i] EXCEPT !.text = @ + n, !.card = IF k = "none" THEN @ ELSE k]
            ELSE ms[i]]
<1>1. ASSUME NEW i \in DOMAIN ms PROVE new[i] \in Messages
  <2>1. ms[i] \in Messages
        OBVIOUS
  <2>2. ms[i].text + n \in Nat /\ (IF k = "none" THEN ms[i].card ELSE k) \in Cards
        BY <2>1, MessageFields
  <2>3. [ms[i] EXCEPT !.text = ms[i].text + n, !.card = IF k = "none" THEN ms[i].card ELSE k] \in Messages
        BY <2>1, <2>2, MessageUpdates
  <2> QED BY <2>1, <2>3
<1>2. DOMAIN ms = 1 .. Len(ms) /\ Len(ms) \in Nat
      OBVIOUS
<1>3. new \in [1 .. Len(ms) -> Messages]
      BY <1>1, <1>2
<1>4. new \in Seq(Messages)
  <2> HIDE DEF new
  <2> QED BY <1>2, <1>3, TableIsSeq
<1>5. Append(ms, Message(<<"reply", r>>, NoRun, n, k)) \in Seq(Messages)
  <2>1. Message(<<"reply", r>>, NoRun, n, k) \in Messages
        BY MessageIsMessage
  <2> QED BY <2>1
<1>6. Upsert(ms, r, n, k) = new \/ Upsert(ms, r, n, k) = Append(ms, Message(<<"reply", r>>, NoRun, n, k))
      BY DEF Upsert
<1> QED BY <1>4, <1>5, <1>6

LEMMA MessagesAfterType ==
    ASSUME NEW ms \in Seq(Messages), NEW e \in Events
    PROVE  MessagesAfter(e, ms) \in Seq(Messages)
<1> DEFINE new == [i \in DOMAIN ms |-> IF ms[i].id = <<"reply", e.run>> /\ ms[i].card # "none"
                                THEN [ms[i] EXCEPT !.card = "ended"] ELSE ms[i]]
<1>0. e.run \in Runs
      BY DEF Events
<1>1. AppendDelta(ms, e.run) \in Seq(Messages)
      BY <1>0, UpsertType, TypeNames DEF AppendDelta
<1>2. ShowTool(ms, e.run) \in Seq(Messages)
      BY <1>0, UpsertType, TypeNames DEF ShowTool
<1>3. new \in Seq(Messages)
  <2>1. ASSUME NEW i \in DOMAIN ms PROVE new[i] \in Messages
    <3>1. ms[i] \in Messages /\ "ended" \in Cards
          BY TypeNames
    <3>2. [ms[i] EXCEPT !.card = "ended"] \in Messages
          BY <3>1, MessageUpdates
    <3> QED BY <3>1, <3>2
  <2>2. DOMAIN ms = 1 .. Len(ms) /\ Len(ms) \in Nat
        OBVIOUS
  <2>3. new \in [1 .. Len(ms) -> Messages]
        BY <2>1, <2>2
  <2> HIDE DEF new
  <2> QED BY <2>2, <2>3, TableIsSeq
<1>4. CASE e.type = "message.delta"
      BY <1>1, <1>4 DEF MessagesAfter
<1>5. CASE e.type = "tool.started"
      BY <1>2, <1>5 DEF MessagesAfter
<1>6. CASE e.type = "tool.finished"
      BY <1>3, <1>6 DEF MessagesAfter
<1>7. CASE e.type \notin {"message.delta", "tool.started", "tool.finished"}
      BY <1>7 DEF MessagesAfter
<1> QED BY <1>4, <1>5, <1>6, <1>7

LEMMA RenameType ==
    ASSUME NEW ms \in Seq(Messages), NEW a \in Sends, NEW r \in Runs
    PROVE  Rename(ms, a, r) \in Seq(Messages)
<1>1. ASSUME NEW i \in DOMAIN ms PROVE Rename(ms, a, r)[i] \in Messages
  <2>1. <<"prompt", r>> \in Ids
        BY DEF Ids
  <2>2. ms[i] \in Messages
        OBVIOUS
  <2>3. [ms[i] EXCEPT !.id = <<"prompt", r>>, !.run = r] \in Messages
        BY <2>1, <2>2, MessageUpdates
  <2> QED BY <2>2, <2>3 DEF Rename
<1>2. DOMAIN ms = 1 .. Len(ms) /\ Len(ms) \in Nat
      OBVIOUS
<1>3. Rename(ms, a, r) \in [1 .. Len(ms) -> Messages]
      BY <1>1, <1>2 DEF Rename
<1> QED BY <1>2, <1>3, TableIsSeq

\* The rows in a merge, with the cards of the page; and what the page has besides.
Front(current, fetched) ==
    [i \in DOMAIN fetched |->
        IF Has(current, fetched[i].id)
        THEN [fetched[i] EXCEPT !.card =
                 current[CHOOSE j \in DOMAIN current : current[j].id = fetched[i].id].card]
        ELSE fetched[i]]
Kept(current, fetched) == {j \in DOMAIN current : ~Has(fetched, current[j].id)}
Rest(current, fetched) ==
    [n \in 1 .. Cardinality(Kept(current, fetched)) |-> current[Nth(Kept(current, fetched), n)]]

LEMMA MergeSplits ==
    ASSUME NEW current, NEW fetched
    PROVE  MergeFetched(current, fetched) = Front(current, fetched) \o Rest(current, fetched)
BY DEF MergeFetched, Front, Rest, Kept

LEMMA FrontType ==
    ASSUME NEW current \in Seq(Messages), NEW fetched \in Seq(Messages)
    PROVE  /\ Front(current, fetched) \in Seq(Messages)
           /\ Len(Front(current, fetched)) = Len(fetched)
           /\ \A i \in DOMAIN fetched :
                 /\ Front(current, fetched)[i].id = fetched[i].id
                 /\ Front(current, fetched)[i].text = fetched[i].text
                 /\ \/ Front(current, fetched)[i].card = fetched[i].card
                    \/ \E j \in DOMAIN current : /\ current[j].id = fetched[i].id
                                                 /\ Front(current, fetched)[i].card = current[j].card
<1> DEFINE P(i) == /\ Front(current, fetched)[i] \in Messages
                   /\ Front(current, fetched)[i].id = fetched[i].id
                   /\ Front(current, fetched)[i].text = fetched[i].text
                   /\ \/ Front(current, fetched)[i].card = fetched[i].card
                      \/ \E j \in DOMAIN current : /\ current[j].id = fetched[i].id
                                                   /\ Front(current, fetched)[i].card = current[j].card
<1>1. ASSUME NEW i \in DOMAIN fetched PROVE P(i)
  <2>0. fetched[i] \in Messages
        OBVIOUS
  <2>1. CASE Has(current, fetched[i].id)
    <3> DEFINE k == CHOOSE j \in DOMAIN current : current[j].id = fetched[i].id
    <3>1. k \in DOMAIN current /\ current[k].id = fetched[i].id
          BY <2>1, HasMember
    <3>2. Front(current, fetched)[i] = [fetched[i] EXCEPT !.card = current[k].card]
          BY <2>1 DEF Front
    <3> HIDE DEF k
    <3>3. current[k] \in Messages
          BY <3>1
    <3>4. current[k].card \in Cards
          BY <3>3, MessageFields
    <3>5. Front(current, fetched)[i] \in Messages
          BY <2>0, <3>2, <3>4, MessageUpdates
    <3>6. /\ Front(current, fetched)[i].card = current[k].card
          /\ Front(current, fetched)[i].id = fetched[i].id
          /\ Front(current, fetched)[i].text = fetched[i].text
          BY <2>0, <3>2 DEF Messages
    <3> QED BY <3>1, <3>5, <3>6
  <2>2. CASE ~Has(current, fetched[i].id)
    <3>1. Front(current, fetched)[i] = fetched[i]
          BY <2>2 DEF Front
    <3> QED BY <2>0, <3>1
  <2> QED BY <2>1, <2>2
<1>2. DOMAIN fetched = 1 .. Len(fetched) /\ Len(fetched) \in Nat
      OBVIOUS
<1>3. Front(current, fetched) \in [1 .. Len(fetched) -> Messages]
      BY <1>1, <1>2 DEF Front
<1> QED BY <1>1, <1>2, <1>3, TableIsSeq

LEMMA RestType ==
    ASSUME NEW current \in Seq(Messages), NEW fetched
    PROVE  /\ Rest(current, fetched) \in Seq(Messages)
           /\ \A n \in DOMAIN Rest(current, fetched) :
                 /\ Nth(Kept(current, fetched), n) \in DOMAIN current
                 /\ ~Has(fetched, current[Nth(Kept(current, fetched), n)].id)
                 /\ Rest(current, fetched)[n] = current[Nth(Kept(current, fetched), n)]
           /\ \A m, n \in DOMAIN Rest(current, fetched) :
                 Nth(Kept(current, fetched), m) = Nth(Kept(current, fetched), n) => m = n
<1> DEFINE S == Kept(current, fetched)
           N == Cardinality(S)
<1>1. DOMAIN current = 1 .. Len(current) /\ Len(current) \in Nat /\ S \in SUBSET (1 .. Len(current))
      BY DEF Kept
<1>2. N \in Nat /\ \A n \in 1 .. N : Nth(S, n) \in S /\ Rank(S, Nth(S, n)) = n - 1
  <2> HIDE DEF S
  <2> QED BY <1>1, NthIsMember
<1>3. Rest(current, fetched) = [n \in 1 .. N |-> current[Nth(S, n)]]
      BY DEF Rest
<1> HIDE DEF N
<1>4. \A n \in 1 .. N : Nth(S, n) \in DOMAIN current /\ ~Has(fetched, current[Nth(S, n)].id)
      BY <1>2 DEF Kept
<1>5. \A n \in 1 .. N : current[Nth(S, n)] \in Messages
      BY <1>4
<1>6. Rest(current, fetched) \in [1 .. N -> Messages]
  <2> HIDE DEF S
  <2> QED BY <1>3, <1>5
<1>7. Rest(current, fetched) \in Seq(Messages) /\ DOMAIN Rest(current, fetched) = 1 .. N
      BY <1>2, <1>6, TableIsSeq
<1>8. ASSUME NEW k \in 1 .. N, NEW n \in 1 .. N, Nth(S, k) = Nth(S, n) PROVE k = n
  <2> HIDE DEF S
  <2>1. k - 1 = n - 1
        BY <1>2, <1>8
  <2> QED BY <2>1, <1>2
<1> QED BY <1>3, <1>4, <1>7, <1>8

LEMMA MergeType ==
    ASSUME NEW current \in Seq(Messages), NEW fetched \in Seq(Messages)
    PROVE  MergeFetched(current, fetched) \in Seq(Messages)
BY MergeSplits, FrontType, RestType, JoinedSeq

Loads == [step: {"none", "health", "lists", "messages", "apply"},
          first: Conversations \cup {NoConversation}, rows: Seq(Messages)]
Fetches == [step: {"none", "out", "back"},
            conv: Conversations \cup {NoConversation}, rows: Seq(Messages)]
Sendings == [step: {"none", "out", "back", "done"},
             conv: Conversations \cup {NoConversation}, run: Runs \cup {NoRun}]
Clicks == [op: {"cancel", "retry", "resolve"}, run: Runs, step: {"out", "back"}]

\* The type invariant in the groups that actions leave alone, with what it needs.
LinkTyped ==
    /\ gate \in {"open", "down", "auth"}
    /\ existing \subseteq Conversations /\ listed \subseteq Conversations
    /\ connection \in {"probing", "connected", "offline", "auth_required"}
    /\ stale \in BOOLEAN
    /\ active \in Conversations \cup {NoConversation}
    /\ disturbed \in 0 .. MaxDisturbances
StreamTyped ==
    /\ stream \in Conversations \cup {NoConversation}
    /\ position \in Nat
    /\ fetch \in Fetches
    /\ fetch.step # "none" => fetch.conv \in Conversations
ShownTyped ==
    /\ shown \in [Conversations -> Statuses \cup {"none"}]
    /\ card \in [Runs -> {"none", "pending", "resolved"}]
SendTyped ==
    /\ send \in [Sends -> Sendings]
    /\ \A a \in Sends : /\ send[a].step \in {"out", "back"} => send[a].conv \in Conversations
                        /\ send[a].step = "back" => send[a].run \in Runs
HistoryTyped ==
    /\ stored \in [Conversations -> Nat]
    /\ seen \in [Conversations -> Nat]
    /\ exact \subseteq Runs /\ crossed \subseteq Runs
    /\ overtaken \subseteq Conversations /\ skipped \subseteq Conversations
Typed ==
    /\ ServerTypeOK /\ LinkTyped /\ StreamTyped /\ ShownTyped /\ SendTyped /\ HistoryTyped
    /\ load \in Loads
    /\ messages \in [Conversations -> Seq(Messages)]
    /\ clicks \subseteq Clicks

LEMMA TypedIsTypeOK == Typed => TypeOK
BY DEF Typed, TypeOK, LinkTyped, StreamTyped, ShownTyped, SendTyped, HistoryTyped,
       Loads, Fetches, Sendings, Clicks

LEMMA NothingIsTyped ==
    /\ <<>> \in Seq(Messages)
    /\ NoLoad \in Loads /\ [NoLoad EXCEPT !.step = "health"] \in Loads
    /\ NoFetch \in Fetches /\ NoFetch.step = "none"
    /\ NoSend \in Sendings /\ NoSend.step = "none"
    /\ \A c \in Conversations :
          LET f == [NoFetch EXCEPT !.step = "out", !.conv = c]
          IN  f \in Fetches /\ f.conv = c
<1>1. <<>> \in Seq(Messages)
      OBVIOUS
<1> QED BY <1>1 DEF NoLoad, NoFetch, NoSend, Loads, Fetches, Sendings

LEMMA InitTyped == Init => Typed
<1> SUFFICES ASSUME Init PROVE Typed
    OBVIOUS
<1>1. ServerTypeOK
      BY ServerInitType DEF Init
<1>2. load \in Loads /\ fetch \in Fetches /\ fetch.step = "none"
      BY NothingIsTyped DEF Init
<1>3. send \in [Sends -> Sendings] /\ \A a \in Sends : send[a].step = "none"
      BY NothingIsTyped DEF Init
<1>4. messages \in [Conversations -> Seq(Messages)]
      BY NothingIsTyped DEF Init
<1>5. LinkTyped
  <2>1. disturbed \in 0 .. MaxDisturbances
        BY ClientAssumption DEF Init
  <2>2. existing \subseteq Conversations
        BY ClientAssumption DEF Init
  <2> QED BY <2>1, <2>2 DEF Init, LinkTyped
<1>6. StreamTyped /\ ShownTyped /\ SendTyped /\ HistoryTyped
      BY <1>2, <1>3 DEF Init, StreamTyped, ShownTyped, SendTyped, HistoryTyped
<1>7. clicks \subseteq Clicks
      BY DEF Init
<1> QED BY <1>1, <1>2, <1>4, <1>5, <1>6, <1>7 DEF Typed

LEMMA DisturbType ==
    ASSUME disturbed \in 0 .. MaxDisturbances, NEW w, Disturb(w)
    PROVE  disturbed' \in 0 .. MaxDisturbances
BY ClientAssumption DEF Disturb

\* What a step leaves alone keeps its type.
LEMMA KeptTypes ==
    ASSUME Typed
    PROVE  /\ UNCHANGED serverVars => ServerTypeOK'
           /\ UNCHANGED <<gate, existing, listed, connection, stale, active, disturbed>> => LinkTyped'
           /\ UNCHANGED <<stream, position, fetch>> => StreamTyped'
           /\ UNCHANGED <<shown, card>> => ShownTyped'
           /\ UNCHANGED send => SendTyped'
           /\ UNCHANGED <<stored, seen, exact, crossed, overtaken, skipped>> => HistoryTyped'
<1> USE DEF Typed
<1>1. UNCHANGED serverVars => ServerTypeOK'
      BY DEF ServerTypeOK, serverVars
<1>2. UNCHANGED <<gate, existing, listed, connection, stale, active, disturbed>> => LinkTyped'
      BY DEF LinkTyped
<1>3. UNCHANGED <<stream, position, fetch>> => StreamTyped'
      BY DEF StreamTyped
<1>4. UNCHANGED <<shown, card>> => ShownTyped'
      BY DEF ShownTyped
<1>5. UNCHANGED send => SendTyped'
      BY DEF SendTyped
<1>6. UNCHANGED <<stored, seen, exact, crossed, overtaken, skipped>> => HistoryTyped'
      BY DEF HistoryTyped
<1> QED BY <1>1, <1>2, <1>3, <1>4, <1>5, <1>6

LEMMA FollowType ==
    ASSUME Typed, NEW c \in Conversations \cup {NoConversation}, Follow(c)
    PROVE  StreamTyped' /\ skipped' \subseteq Conversations
<1>0. stored \in [Conversations -> Nat] /\ skipped \subseteq Conversations
      BY DEF Typed, HistoryTyped
<1>1. CASE c = NoConversation
      BY <1>0, <1>1, NothingIsTyped DEF Follow, StreamTyped
<1>2. CASE c # NoConversation
      BY <1>0, <1>2, NothingIsTyped DEF Follow, StreamTyped
<1> QED BY <1>1, <1>2

LEMMA HandleEventType ==
    ASSUME Typed, HandleEvent
    PROVE  Typed'
<1> DEFINE c == stream
           e == events[c][position + 1]
<1>1. c \in Conversations /\ position \in Nat /\ position < Len(events[c]) /\ events[c] \in Seq(Events)
      BY DEF HandleEvent, Typed, StreamTyped, ServerTypeOK
<1>2. e \in Events
      BY <1>1
<1>3. e.run \in Runs
      BY <1>2 DEF Events
<1>4. HistoryTyped'
  <2>1. stored' \in [Conversations -> Nat] /\ seen' \in [Conversations -> Nat]
        BY <1>1 DEF HandleEvent, Typed, HistoryTyped
  <2>2. exact' \subseteq Runs /\ overtaken' \subseteq Conversations /\ skipped' \subseteq Conversations
        BY <1>1 DEF HandleEvent, Typed, HistoryTyped, LinkTyped
  <2>3. crossed' \subseteq Runs
        BY DEF HandleEvent, Typed, HistoryTyped
  <2> QED BY <2>1, <2>2, <2>3 DEF HistoryTyped
<1>5. card' \in [Runs -> {"none", "pending", "resolved"}]
  <2>1. card' = CardAfter(e)
        BY DEF HandleEvent
  <2> HIDE DEF e
  <2> QED BY <1>3, <2>1 DEF CardAfter, Typed, ShownTyped
<1>6. /\ messages' \in [Conversations -> Seq(Messages)]
      /\ shown' \in [Conversations -> Statuses \cup {"none"}]
  <2>1. CASE active = NoConversation
        BY <2>1 DEF HandleEvent, Typed, ShownTyped
  <2>2. CASE active # NoConversation
    <3>1. active \in Conversations
          BY <2>2 DEF Typed, LinkTyped
    <3>2. /\ messages' = [messages EXCEPT ![active] = MessagesAfter(e, messages[active])]
          /\ shown' = [shown EXCEPT ![active] = StatusAfter(e, shown[active])]
          BY <2>2 DEF HandleEvent
    <3> HIDE DEF e
    <3>3. MessagesAfter(e, messages[active]) \in Seq(Messages)
          BY <1>2, <3>1, MessagesAfterType DEF Typed
    <3>4. StatusAfter(e, shown[active]) \in Statuses \cup {"none"}
      <4>1. shown[active] \in Statuses \cup {"none"} /\ status[e.run] \in Statuses
            BY <3>1, <1>3 DEF Typed, ShownTyped, ServerTypeOK
      <4> QED BY <4>1, TypeNames DEF StatusAfter
    <3> QED BY <3>1, <3>2, <3>3, <3>4 DEF Typed, ShownTyped
  <2> QED BY <2>1, <2>2
<1>7. ServerTypeOK' /\ LinkTyped' /\ SendTyped' /\ load' \in Loads /\ clicks' \subseteq Clicks
      BY KeptTypes DEF HandleEvent, Typed, netVars
<1>8. StreamTyped'
      BY <1>1 DEF HandleEvent, Typed, StreamTyped
<1> HIDE DEF c, e
<1> QED BY <1>4, <1>5, <1>6, <1>7, <1>8 DEF Typed, ShownTyped

\* Which conversation is open, and what is fetched for it.
LEMMA FollowingType ==
    ASSUME Typed,
           \/ RunEffects \/ AnswerFetch \/ FetchFails \/ ApplyFetch
           \/ \E c \in Conversations : SelectConversation(c) \/ NewConversation(c)
    PROVE  Typed'
<1> USE KeptTypes
<1>0. /\ active \in Conversations \cup {NoConversation}
      /\ connection \in {"probing", "connected", "offline", "auth_required"}
      /\ disturbed \in 0 .. MaxDisturbances
      /\ existing \subseteq Conversations /\ listed \subseteq Conversations
      BY DEF Typed, LinkTyped
<1>1. CASE RunEffects
  <2>1. Wanted(connection, active) \in Conversations \cup {NoConversation}
        BY <1>0 DEF Wanted
  <2>2. StreamTyped' /\ skipped' \subseteq Conversations
        BY <1>1, <2>1, FollowType DEF RunEffects
  <2>3. HistoryTyped'
        BY <1>1, <2>2 DEF RunEffects, Typed, HistoryTyped
  <2>4. ServerTypeOK' /\ LinkTyped' /\ SendTyped' /\ ShownTyped'
        BY <1>1 DEF RunEffects, netVars
  <2> QED BY <1>1, <2>2, <2>3, <2>4 DEF RunEffects, Typed, netVars
<1>2. CASE AnswerFetch
  <2>1. rows[fetch.conv] \in Seq(Messages)
        BY <1>2 DEF AnswerFetch, Typed, StreamTyped, ServerTypeOK
  <2>2. StreamTyped'
        BY <1>2, <2>1 DEF AnswerFetch, Typed, StreamTyped, Fetches
  <2>3. ServerTypeOK' /\ LinkTyped' /\ SendTyped' /\ ShownTyped' /\ HistoryTyped'
        BY <1>2 DEF AnswerFetch, netVars, history, Typed, HistoryTyped
  <2> QED BY <1>2, <2>2, <2>3 DEF AnswerFetch, Typed, netVars
<1>3. CASE FetchFails
  <2>1. StreamTyped'
        BY <1>3, NothingIsTyped DEF FetchFails, Typed, StreamTyped
  <2>2. LinkTyped'
        BY <1>3 DEF FetchFails, AfterError, Typed, LinkTyped
  <2>3. ServerTypeOK' /\ SendTyped' /\ ShownTyped' /\ HistoryTyped'
        BY <1>3 DEF FetchFails, netVars, history
  <2> QED BY <1>3, <2>1, <2>2, <2>3 DEF FetchFails, Typed, netVars
<1>4. CASE ApplyFetch
  <2>1. StreamTyped'
        BY <1>4, NothingIsTyped DEF ApplyFetch, Typed, StreamTyped
  <2>2. messages' \in [Conversations -> Seq(Messages)]
    <3>1. fetch.rows \in Seq(Messages) /\ fetch.conv \in Conversations
          BY <1>4 DEF ApplyFetch, Typed, StreamTyped, Fetches
    <3>2. MergeFetched(messages[fetch.conv], fetch.rows) \in Seq(Messages)
          BY <3>1, MergeType DEF Typed
    <3> QED BY <1>4, <3>1, <3>2 DEF ApplyFetch, Typed
  <2>3. exact' \subseteq Runs /\ crossed' \subseteq Runs
        BY <1>4 DEF ApplyFetch, ExactRuns, Unanswered, Typed, HistoryTyped
  <2>4. HistoryTyped'
        BY <1>4, <2>3 DEF ApplyFetch, Typed, HistoryTyped
  <2>5. ServerTypeOK' /\ LinkTyped' /\ SendTyped' /\ ShownTyped'
        BY <1>4 DEF ApplyFetch, netVars
  <2> QED BY <1>4, <2>1, <2>2, <2>4, <2>5 DEF ApplyFetch, Typed, netVars
<1>5. ASSUME NEW c \in Conversations, SelectConversation(c) PROVE Typed'
  <2>1. Wanted(connection, c) \in Conversations \cup {NoConversation}
        BY DEF Wanted
  <2>2. StreamTyped' /\ skipped' \subseteq Conversations
        BY <1>5, <2>1, FollowType DEF SelectConversation
  <2>3. HistoryTyped'
        BY <1>5, <2>2 DEF SelectConversation, Typed, HistoryTyped
  <2>4. disturbed' \in 0 .. MaxDisturbances
        BY <1>0, <1>5, DisturbType DEF SelectConversation
  <2>5. LinkTyped'
        BY <1>5, <2>4 DEF SelectConversation, Typed, LinkTyped
  <2>6. ServerTypeOK' /\ SendTyped' /\ ShownTyped'
        BY <1>5 DEF SelectConversation, netVars
  <2> QED BY <1>5, <2>2, <2>3, <2>5, <2>6 DEF SelectConversation, Typed, netVars
<1>6. ASSUME NEW c \in Conversations, NewConversation(c) PROVE Typed'
  <2>1. disturbed' \in 0 .. MaxDisturbances
        BY <1>0, <1>6, DisturbType DEF NewConversation
  <2>2. LinkTyped'
        BY <1>6, <2>1 DEF NewConversation, Typed, LinkTyped
  <2>3. ServerTypeOK' /\ SendTyped' /\ ShownTyped' /\ StreamTyped' /\ HistoryTyped'
        BY <1>6 DEF NewConversation, netVars, history
  <2> QED BY <1>6, <2>2, <2>3 DEF NewConversation, Typed, netVars
<1> QED BY <1>1, <1>2, <1>3, <1>4, <1>5, <1>6

\* The load of the page.
LEMMA LoadingType ==
    ASSUME Typed,
           \/ LoadStep \/ LoadWithout \/ LoadFails \/ ApplyLoad
           \/ Probe \/ StaleLoadEnds \/ RefreshHealth
    PROVE  Typed'
<1> USE KeptTypes
<1>0. /\ load \in Loads /\ disturbed \in 0 .. MaxDisturbances
      /\ existing \subseteq Conversations
      BY DEF Typed, LinkTyped
<1>1. CASE LoadStep
  <2>1. load' \in Loads
    <3>1. CASE load.step = "health"
          BY <1>0, <1>1, <3>1 DEF LoadStep, Loads
    <3>2. CASE load.step = "lists"
      <4>1. PICK c \in IF existing = {} THEN {NoConversation} ELSE existing :
                load' = [load EXCEPT !.step = "messages", !.first = c]
            BY <1>1, <3>2 DEF LoadStep
      <4>2. c \in Conversations \cup {NoConversation}
            BY <1>0, <4>1
      <4> QED BY <1>0, <4>1, <4>2 DEF Loads
    <3>3. CASE load.step = "messages"
      <4> DEFINE got == IF load.first = NoConversation THEN <<>> ELSE rows[load.first]
      <4>1. load.first \in Conversations \cup {NoConversation}
            BY <1>0 DEF Loads
      <4>2. got \in Seq(Messages)
            BY <4>1, NothingIsTyped DEF Typed, ServerTypeOK
      <4>3. load' = [load EXCEPT !.step = "apply", !.rows = got]
            BY <1>1, <3>3 DEF LoadStep
      <4> HIDE DEF got
      <4> QED BY <1>0, <4>2, <4>3 DEF Loads
    <3> QED BY <1>1, <3>1, <3>2, <3>3 DEF LoadStep
  <2>2. ServerTypeOK' /\ LinkTyped' /\ StreamTyped' /\ ShownTyped' /\ SendTyped' /\ HistoryTyped'
        BY <1>1 DEF LoadStep, netVars, history
  <2> QED BY <1>1, <2>1, <2>2 DEF LoadStep, Typed, netVars
<1>2. CASE LoadWithout
  <2>1. load' \in Loads
        BY <1>0, <1>2 DEF LoadWithout, Loads
  <2>2. ServerTypeOK' /\ LinkTyped' /\ StreamTyped' /\ ShownTyped' /\ SendTyped' /\ HistoryTyped'
        BY <1>2 DEF LoadWithout, netVars, history
  <2> QED BY <1>2, <2>1, <2>2 DEF LoadWithout, Typed, netVars
<1>3. CASE LoadFails
  <2>1. load' \in Loads
        BY <1>3, NothingIsTyped DEF LoadFails
  <2>2. LinkTyped'
        BY <1>3 DEF LoadFails, Typed, LinkTyped
  <2>3. ServerTypeOK' /\ StreamTyped' /\ ShownTyped' /\ SendTyped' /\ HistoryTyped'
        BY <1>3 DEF LoadFails, netVars, history
  <2> QED BY <1>3, <2>1, <2>2, <2>3 DEF LoadFails, Typed, netVars
<1>4. CASE ApplyLoad
  <2>1. load' \in Loads
        BY <1>4, NothingIsTyped DEF ApplyLoad
  <2>2. load.first \in Conversations \cup {NoConversation} /\ load.rows \in Seq(Messages)
        BY <1>0 DEF Loads
  <2>3. LinkTyped'
        BY <1>4, <2>2 DEF ApplyLoad, Typed, LinkTyped
  <2>4. messages' \in [Conversations -> Seq(Messages)]
        BY <1>4, <2>2, NothingIsTyped DEF ApplyLoad
  <2>5. ShownTyped'
        BY <1>4 DEF ApplyLoad, Typed, ShownTyped
  <2>6. exact' \subseteq Runs
        BY <1>4 DEF ApplyLoad, ExactRuns
  <2>7. HistoryTyped'
        BY <1>4, <2>6 DEF ApplyLoad, Typed, HistoryTyped
  <2>8. ServerTypeOK' /\ StreamTyped' /\ SendTyped'
        BY <1>4 DEF ApplyLoad, netVars
  <2> QED BY <1>4, <2>1, <2>3, <2>4, <2>5, <2>7, <2>8 DEF ApplyLoad, Typed, netVars
<1>5. CASE Probe
  <2>1. load' \in Loads
        BY <1>5, NothingIsTyped DEF Probe, BeginLoad
  <2>2. disturbed' \in 0 .. MaxDisturbances
        BY <1>0, <1>5, DisturbType DEF Probe
  <2>3. LinkTyped'
        BY <1>5, <2>2 DEF Probe, BeginLoad, Typed, LinkTyped
  <2>4. ServerTypeOK' /\ StreamTyped' /\ ShownTyped' /\ SendTyped' /\ HistoryTyped'
        BY <1>5 DEF Probe, netVars, history
  <2> QED BY <1>5, <2>1, <2>3, <2>4 DEF Probe, Typed, netVars
<1>6. CASE StaleLoadEnds
  <2>1. LinkTyped'
        BY <1>6 DEF StaleLoadEnds, AfterError, Typed, LinkTyped
  <2>2. ServerTypeOK' /\ StreamTyped' /\ ShownTyped' /\ SendTyped' /\ HistoryTyped'
        BY <1>6 DEF StaleLoadEnds, netVars, history
  <2> QED BY <1>6, <2>1, <2>2 DEF StaleLoadEnds, Typed, netVars
<1>7. CASE RefreshHealth
  <2>1. LinkTyped'
        BY <1>7 DEF RefreshHealth, Typed, LinkTyped
  <2>2. ServerTypeOK' /\ StreamTyped' /\ ShownTyped' /\ SendTyped' /\ HistoryTyped'
        BY <1>7 DEF RefreshHealth, netVars, history
  <2> QED BY <1>7, <2>1, <2>2 DEF RefreshHealth, Typed, netVars
<1> QED BY <1>1, <1>2, <1>3, <1>4, <1>5, <1>6, <1>7

\* Prompts.
LEMMA SendingType ==
    ASSUME Typed, NEW a \in Sends, Send(a) \/ TakeSend(a) \/ ApplySent(a) \/ FailSend(a)
    PROVE  Typed'
<1> USE KeptTypes
<1>0. /\ send \in [Sends -> Sendings] /\ messages \in [Conversations -> Seq(Messages)]
      /\ active \in Conversations \cup {NoConversation}
      /\ shown \in [Conversations -> Statuses \cup {"none"}]
      /\ \A b \in Sends : /\ send[b].step \in {"out", "back"} => send[b].conv \in Conversations
                          /\ send[b].step = "back" => send[b].run \in Runs
      BY DEF Typed, SendTyped, LinkTyped, ShownTyped
<1>1. CASE Send(a)
  <2>1. active \in Conversations
        BY <1>0, <1>1 DEF Send
  <2>2. messages' \in [Conversations -> Seq(Messages)]
    <3>1. a \in Runs /\ NoRun \in Runs \cup {NoRun} /\ "none" \in Cards
          BY SendsAreRuns, TypeNames
    <3>2. Message(<<"temp", a>>, NoRun, 0, "none") \in Messages
          BY <3>1, MessageIsMessage
    <3>3. Append(messages[active], Message(<<"temp", a>>, NoRun, 0, "none")) \in Seq(Messages)
          BY <1>0, <2>1, <3>2
    <3> QED BY <1>0, <1>1, <2>1, <3>3 DEF Send
  <2>3. SendTyped'
    <3> DEFINE s == [step |-> IF Connected THEN "out" ELSE "done", conv |-> active, run |-> NoRun]
    <3>1. send' = [send EXCEPT ![a] = s]
          BY <1>1 DEF Send
    <3>2. s \in Sendings /\ s.conv \in Conversations /\ s.step # "back"
          BY <2>1 DEF Sendings
    <3> HIDE DEF s
    <3> QED BY <1>0, <3>1, <3>2 DEF SendTyped
  <2>4. ServerTypeOK' /\ LinkTyped' /\ StreamTyped' /\ ShownTyped' /\ HistoryTyped'
        BY <1>1 DEF Send, history
  <2> QED BY <1>1, <2>2, <2>3, <2>4 DEF Send, Typed
<1>2. CASE TakeSend(a)
  <2>1. PICK r \in Runs : /\ Accept(r, send[a].conv)
                          /\ send' = [send EXCEPT ![a].step = "back", ![a].run = r]
        BY <1>2 DEF TakeSend
  <2>2. send[a] \in Sendings /\ send[a].conv \in Conversations
        BY <1>0, <1>2 DEF TakeSend
  <2>3. ServerTypeOK'
        BY <2>1, <2>2, ServerStepType DEF ServerStep, Typed
  <2>4. send' = [send EXCEPT ![a] = [send[a] EXCEPT !.step = "back", !.run = r]]
        BY <2>1, <1>0
  <2>5. /\ [send[a] EXCEPT !.step = "back", !.run = r] \in Sendings
        /\ [send[a] EXCEPT !.step = "back", !.run = r].conv = send[a].conv
        /\ [send[a] EXCEPT !.step = "back", !.run = r].run = r
        BY <2>2 DEF Sendings
  <2>6. SendTyped'
        BY <1>0, <2>2, <2>4, <2>5 DEF SendTyped
  <2>7. LinkTyped' /\ StreamTyped' /\ ShownTyped' /\ HistoryTyped'
        BY <1>2 DEF TakeSend, pageVars, history
  <2> QED BY <1>2, <2>3, <2>6, <2>7 DEF TakeSend, Typed, pageVars
<1>3. CASE ApplySent(a)
  <2>1. send[a].conv \in Conversations /\ send[a].run \in Runs /\ send[a] \in Sendings
        BY <1>0, <1>3 DEF ApplySent
  <2>2. messages' \in [Conversations -> Seq(Messages)]
    <3>1. Rename(messages[send[a].conv], a, send[a].run) \in Seq(Messages)
          BY <1>0, <2>1, RenameType
    <3> QED BY <1>0, <1>3, <2>1, <3>1 DEF ApplySent
  <2>3. SendTyped'
    <3>1. send' = [send EXCEPT ![a] = [send[a] EXCEPT !.step = "done"]]
          BY <1>0, <1>3 DEF ApplySent
    <3>2. [send[a] EXCEPT !.step = "done"] \in Sendings /\ [send[a] EXCEPT !.step = "done"].step = "done"
          BY <2>1 DEF Sendings
    <3> QED BY <1>0, <3>1, <3>2 DEF SendTyped
  <2>4. ShownTyped'
    <3>1. shown' = [shown EXCEPT ![send[a].conv] = "queued"] /\ card' = card
          BY <1>3 DEF ApplySent
    <3> QED BY <1>0, <3>1, TypeNames DEF ShownTyped, Typed
  <2>5. overtaken' \subseteq Conversations
        BY <1>3, <2>1 DEF ApplySent, Typed, HistoryTyped
  <2>6. HistoryTyped'
        BY <1>3, <2>5 DEF ApplySent, Typed, HistoryTyped
  <2>7. ServerTypeOK' /\ LinkTyped' /\ StreamTyped'
        BY <1>3 DEF ApplySent
  <2> QED BY <1>3, <2>2, <2>3, <2>4, <2>6, <2>7 DEF ApplySent, Typed
<1>4. CASE FailSend(a)
  <2>1. send[a].conv \in Conversations /\ send[a] \in Sendings
        BY <1>0, <1>4 DEF FailSend
  <2>3. SendTyped'
    <3>1. send' = [send EXCEPT ![a] = [send[a] EXCEPT !.step = "done"]]
          BY <1>0, <1>4 DEF FailSend
    <3>2. [send[a] EXCEPT !.step = "done"] \in Sendings /\ [send[a] EXCEPT !.step = "done"].step = "done"
          BY <2>1 DEF Sendings
    <3> QED BY <1>0, <3>1, <3>2 DEF SendTyped
  <2>4. ShownTyped'
    <3>1. shown' = [shown EXCEPT ![send[a].conv] = "failed"] /\ card' = card
          BY <1>4 DEF FailSend
    <3> QED BY <1>0, <3>1, TypeNames DEF ShownTyped, Typed
  <2>5. overtaken' \subseteq Conversations
        BY <1>4, <2>1 DEF FailSend, Typed, HistoryTyped
  <2>6. HistoryTyped'
        BY <1>4, <2>5 DEF FailSend, Typed, HistoryTyped
  <2>7. LinkTyped'
        BY <1>4 DEF FailSend, AfterError, Typed, LinkTyped
  <2>8. ServerTypeOK' /\ StreamTyped'
        BY <1>4 DEF FailSend
  <2> QED BY <1>4, <2>3, <2>4, <2>6, <2>7, <2>8 DEF FailSend, Typed
<1> QED BY <1>1, <1>2, <1>3, <1>4

\* Buttons.
LEMMA ClickingType ==
    ASSUME Typed,
           \/ \E op \in {"cancel", "retry", "resolve"}, r \in Runs : Click(op, r)
           \/ \E k \in clicks : TakeClick(k) \/ ApplyResolved(k) \/ LoseClick(k)
    PROVE  Typed'
<1> USE KeptTypes
<1>0. clicks \subseteq Clicks /\ disturbed \in 0 .. MaxDisturbances
      BY DEF Typed, LinkTyped
<1>1. ASSUME NEW op \in {"cancel", "retry", "resolve"}, NEW r \in Runs, Click(op, r) PROVE Typed'
  <2>1. [op |-> op, run |-> r, step |-> "out"] \in Clicks
        BY DEF Clicks
  <2>2. clicks' \subseteq Clicks
        BY <1>0, <1>1, <2>1 DEF Click
  <2>3. disturbed' \in 0 .. MaxDisturbances
        BY <1>0, <1>1, DisturbType DEF Click
  <2>4. LinkTyped'
        BY <1>1, <2>3 DEF Click, pageVars, Typed, LinkTyped
  <2>5. ServerTypeOK' /\ StreamTyped' /\ ShownTyped' /\ SendTyped' /\ HistoryTyped'
        BY <1>1 DEF Click, pageVars, history
  <2> QED BY <1>1, <2>2, <2>4, <2>5 DEF Click, Typed, pageVars
<1>2. ASSUME NEW k \in clicks, TakeClick(k) PROVE Typed'
  <2>1. k \in Clicks /\ k.run \in Runs /\ k.op \in {"cancel", "retry", "resolve"}
        BY <1>0 DEF Clicks
  <2>2. UNCHANGED serverVars \/ ServerStep
        BY <1>2, <2>1 DEF TakeClick, ServerStep
  <2>3. ServerTypeOK'
        BY <2>2, ServerStepType DEF Typed
  <2>4. [k EXCEPT !.step = "back"] \in Clicks
        BY <2>1 DEF Clicks
  <2>5. clicks' \subseteq Clicks
        BY <1>0, <1>2, <2>4 DEF TakeClick
  <2>6. LinkTyped' /\ StreamTyped' /\ ShownTyped' /\ SendTyped' /\ HistoryTyped'
        BY <1>2 DEF TakeClick, pageVars, history
  <2> QED BY <1>2, <2>3, <2>5, <2>6 DEF TakeClick, Typed, pageVars
<1>3. ASSUME NEW k \in clicks, ApplyResolved(k) PROVE Typed'
  <2>1. k.run \in Runs
        BY <1>0 DEF Clicks
  <2>2. ShownTyped'
        BY <1>3, <2>1 DEF ApplyResolved, Typed, ShownTyped
  <2>3. clicks' \subseteq Clicks
        BY <1>0, <1>3 DEF ApplyResolved
  <2>4. ServerTypeOK' /\ LinkTyped' /\ StreamTyped' /\ SendTyped' /\ HistoryTyped'
        BY <1>3 DEF ApplyResolved, history
  <2> QED BY <1>3, <2>2, <2>3, <2>4 DEF ApplyResolved, Typed
<1>4. ASSUME NEW k \in clicks, LoseClick(k) PROVE Typed'
  <2>1. LinkTyped'
        BY <1>4 DEF LoseClick, AfterError, Typed, LinkTyped
  <2>2. clicks' \subseteq Clicks
        BY <1>0, <1>4 DEF LoseClick
  <2>3. ServerTypeOK' /\ StreamTyped' /\ ShownTyped' /\ SendTyped' /\ HistoryTyped'
        BY <1>4 DEF LoseClick, history
  <2> QED BY <1>4, <2>1, <2>2, <2>3 DEF LoseClick, Typed
<1> QED BY <1>1, <1>2, <1>3, <1>4

\* The rest of the world.
LEMMA WorldType ==
    ASSUME Typed,
           \/ \E r \in Runs : Work(r)
           \/ \E c \in Conversations : OtherTab(c)
           \/ ChangeGate \/ Reload
    PROVE  Typed'
<1> USE KeptTypes
<1>0. disturbed \in 0 .. MaxDisturbances
      BY DEF Typed, LinkTyped
<1>1. ASSUME NEW r \in Runs, Work(r) PROVE Typed'
  <2>1. ServerTypeOK'
        BY <1>1, ServerStepType DEF Work, ServerStep, Typed
  <2>2. LinkTyped' /\ StreamTyped' /\ ShownTyped' /\ SendTyped' /\ HistoryTyped'
        BY <1>1 DEF Work, pageVars, netVars, history
  <2> QED BY <1>1, <2>1, <2>2 DEF Work, Typed, pageVars, netVars
<1>2. ASSUME NEW c \in Conversations, OtherTab(c) PROVE Typed'
  <2>1. PICK n \in (stored[c] + 1) .. Len(events[c]) : stored' = [stored EXCEPT ![c] = n]
        BY <1>2 DEF OtherTab
  <2>2. stored \in [Conversations -> Nat]
        BY DEF Typed, HistoryTyped
  <2>3. n \in Nat
        BY <2>1, <2>2
  <2>4. stored' \in [Conversations -> Nat]
        BY <2>1, <2>2, <2>3
  <2>5. HistoryTyped'
        BY <1>2, <2>4 DEF OtherTab, Typed, HistoryTyped
  <2>6. disturbed' \in 0 .. MaxDisturbances
        BY <1>0, <1>2, DisturbType DEF OtherTab
  <2>7. LinkTyped'
        BY <1>2, <2>6 DEF OtherTab, pageVars, Typed, LinkTyped
  <2>8. ServerTypeOK' /\ StreamTyped' /\ ShownTyped' /\ SendTyped'
        BY <1>2 DEF OtherTab, pageVars, netVars
  <2> QED BY <1>2, <2>5, <2>7, <2>8 DEF OtherTab, Typed, pageVars, netVars
<1>3. CASE ChangeGate
  <2>1. disturbed' \in 0 .. MaxDisturbances
        BY <1>0, <1>3, DisturbType DEF ChangeGate
  <2>2. LinkTyped'
        BY <1>3, <2>1 DEF ChangeGate, pageVars, Typed, LinkTyped
  <2>3. ServerTypeOK' /\ StreamTyped' /\ ShownTyped' /\ SendTyped' /\ HistoryTyped'
        BY <1>3 DEF ChangeGate, pageVars, netVars, history
  <2> QED BY <1>3, <2>2, <2>3 DEF ChangeGate, Typed, pageVars, netVars
<1>4. CASE Reload
  <2>1. disturbed' \in 0 .. MaxDisturbances
        BY <1>0, <1>4, DisturbType DEF Reload
  <2>2. LinkTyped'
        BY <1>4, <2>1 DEF Reload, Typed, LinkTyped
  <2>3. StreamTyped' /\ load' \in Loads
        BY <1>4, NothingIsTyped DEF Reload, StreamTyped
  <2>4. messages' \in [Conversations -> Seq(Messages)] /\ clicks' \subseteq Clicks
        BY <1>4, NothingIsTyped DEF Reload
  <2>5. ShownTyped'
        BY <1>4 DEF Reload, ShownTyped
  <2>6. SendTyped'
    <3>1. ASSUME NEW a \in Sends PROVE send'[a] \in Sendings /\ send'[a].step \notin {"out", "back"}
      <4>1. send[a] \in Sendings
            BY DEF Typed, SendTyped
      <4>2. [send[a] EXCEPT !.step = "done"] \in Sendings /\ [send[a] EXCEPT !.step = "done"].step = "done"
            BY <4>1 DEF Sendings
      <4>3. send'[a] = NoSend \/ send'[a] = [send[a] EXCEPT !.step = "done"]
            BY <1>4 DEF Reload
      <4> QED BY <4>2, <4>3, NothingIsTyped
    <3>2. send' = [a \in Sends |-> send'[a]]
          BY <1>4 DEF Reload
    <3> QED BY <3>1, <3>2 DEF SendTyped
  <2>7. exact' \subseteq Runs
        BY <1>4 DEF Reload, ExactRuns
  <2>8. HistoryTyped'
        BY <1>4, <2>7 DEF Reload, Typed, HistoryTyped
  <2>9. ServerTypeOK'
        BY <1>4 DEF Reload
  <2> QED BY <2>2, <2>3, <2>4, <2>5, <2>6, <2>8, <2>9 DEF Typed
<1> QED BY <1>1, <1>2, <1>3, <1>4

\* The steps of a page and its world keep every type.
LEMMA StepTyped == Typed /\ [Next]_vars => Typed'
<1> SUFFICES ASSUME Typed, [Next]_vars PROVE Typed'
    OBVIOUS
<1>1. CASE UNCHANGED vars
      BY <1>1, KeptTypes DEF vars, pageVars, netVars, history, Typed
<1>2. CASE Next
      BY <1>2, HandleEventType, FollowingType, LoadingType, SendingType, ClickingType, WorldType
      DEF Next
<1> QED BY <1>1, <1>2

LEMMA TypedAlways == Spec => []Typed
<1>1. Init => Typed
      BY InitTyped
<1>2. Typed /\ [Next]_vars => Typed'
      BY StepTyped
<1> QED BY <1>1, <1>2, PTL DEF Spec

\* Every variable of a page, its requests and the backend it sees keeps its type (TypeOK).
THEOREM PageTypes == Spec => []TypeOK
BY TypedAlways, TypedIsTypeOK, PTL

-----------------------------------------------------------------------------
(* What the events of a conversation say of its runs. *)

Says(evs, n, type, r) == \E i \in 1 .. n : evs[i] = Event(type, r)
Tells(evs, type, r) == Says(evs, Len(evs), type, r)

\* An event is in the stream of its run's conversation.
EventsBelong == \A c \in Conversations : \A i \in 1 .. Len(events[c]) : conv[events[c][i].run] = c

\* What the events say of a run's tool call and its end is what became of them.
ToolIsTold(r) ==
    /\ Exists(r) \/ (status[r] = "queued" /\ tool[r] = "none")
    /\ tool[r] = "asked" <=> status[r] = "waiting_approval"
    /\ Exists(r) =>
         /\ Tells(events[conv[r]], "tool.started", r) <=> tool[r] # "none"
         /\ Tells(events[conv[r]], "permission.requested", r) <=> tool[r] # "none"
         /\ Tells(events[conv[r]], "permission.resolved", r) <=> tool[r] = "ended"
         /\ Tells(events[conv[r]], "tool.finished", r) <=> tool[r] = "ended"
         /\ Tells(events[conv[r]], "run.completed", r) => status[r] \notin Unfinished

\* A tool call is begun before it is ended.
InTurn(evs, r) == \A i, j \in 1 .. Len(evs) :
    \/ evs[i] = Event("permission.requested", r) /\ evs[j] = Event("permission.resolved", r)
    \/ evs[i] = Event("tool.started", r) /\ evs[j] = Event("tool.finished", r)
    => i < j

ServerOK ==
    /\ EventsBelong
    /\ \A r \in Runs : ToolIsTold(r)
    /\ \A c \in Conversations, r \in Runs : InTurn(events[c], r)

LEMMA EventsDiffer ==
    /\ \A t, u, r, q : Event(t, r) = Event(u, q) <=> t = u /\ r = q
    /\ \A t, r : Event(t, r).type = t /\ Event(t, r).run = r
BY DEF Event

LEMMA SaidAfter ==
    ASSUME NEW evs \in Seq(Events), NEW news \in Seq(Events)
    PROVE  /\ Len(evs \o news) = Len(evs) + Len(news)
           /\ \A i \in 1 .. Len(evs) : (evs \o news)[i] = evs[i]
           /\ \A t, r : Tells(evs \o news, t, r) <=> Tells(evs, t, r) \/ Tells(news, t, r)
<1>1. /\ evs \o news \in Seq(Events) /\ Len(evs) \in Nat /\ Len(news) \in Nat
      /\ Len(evs \o news) = Len(evs) + Len(news)
      /\ \A i \in 1 .. Len(evs) : (evs \o news)[i] = evs[i]
      /\ \A i \in 1 .. Len(news) : (evs \o news)[Len(evs) + i] = news[i]
      /\ \A i \in (Len(evs) + 1) .. (Len(evs) + Len(news)) : (evs \o news)[i] = news[i - Len(evs)]
      BY JoinedSeq
<1> DEFINE all == evs \o news
<1> HIDE DEF all
<1>2. ASSUME NEW t, NEW r, Tells(evs, t, r) \/ Tells(news, t, r) PROVE Tells(all, t, r)
  <2>1. CASE Tells(evs, t, r)
    <3>1. PICK i \in 1 .. Len(evs) : evs[i] = Event(t, r)
          BY <2>1 DEF Tells, Says
    <3>2. i \in 1 .. Len(all) /\ all[i] = Event(t, r)
          BY <1>1, <3>1 DEF all
    <3> QED BY <3>2 DEF Tells, Says
  <2>2. CASE Tells(news, t, r)
    <3>1. PICK i \in 1 .. Len(news) : news[i] = Event(t, r)
          BY <2>2 DEF Tells, Says
    <3>2. Len(evs) + i \in 1 .. Len(all) /\ all[Len(evs) + i] = Event(t, r)
          BY <1>1, <3>1 DEF all
    <3> QED BY <3>2 DEF Tells, Says
  <2> QED BY <1>2, <2>1, <2>2
<1>3. ASSUME NEW t, NEW r, Tells(all, t, r) PROVE Tells(evs, t, r) \/ Tells(news, t, r)
  <2>1. PICK i \in 1 .. Len(all) : all[i] = Event(t, r)
        BY <1>3 DEF Tells, Says
  <2>2. CASE i <= Len(evs)
    <3>1. i \in 1 .. Len(evs) /\ evs[i] = Event(t, r)
          BY <1>1, <2>1, <2>2 DEF all
    <3> QED BY <3>1 DEF Tells, Says
  <2>3. CASE i > Len(evs)
    <3>1. i - Len(evs) \in 1 .. Len(news) /\ news[i - Len(evs)] = Event(t, r)
          BY <1>1, <2>1, <2>3 DEF all
    <3> QED BY <3>1 DEF Tells, Says
  <2>4. i \in Nat
        BY <1>1, <2>1 DEF all
  <2> QED BY <1>1, <2>2, <2>3, <2>4
<1> QED BY <1>1, <1>2, <1>3 DEF all

\* New events about a run that has ended neither call before.
LEMMA TurnsAfter ==
    ASSUME NEW evs \in Seq(Events), NEW news \in Seq(Events), NEW r,
           InTurn(evs, r), InTurn(news, r),
           Tells(news, "permission.requested", r) => ~Tells(evs, "permission.resolved", r),
           Tells(news, "tool.started", r) => ~Tells(evs, "tool.finished", r)
    PROVE  InTurn(evs \o news, r)
<1>1. /\ evs \o news \in Seq(Events) /\ Len(evs) \in Nat /\ Len(news) \in Nat
      /\ Len(evs \o news) = Len(evs) + Len(news)
      /\ \A i \in 1 .. Len(evs) : (evs \o news)[i] = evs[i]
      /\ \A i \in (Len(evs) + 1) .. (Len(evs) + Len(news)) : (evs \o news)[i] = news[i - Len(evs)]
      BY JoinedSeq
<1> DEFINE all == evs \o news
<1> HIDE DEF all
<1>2. ASSUME NEW first, NEW later, NEW i \in 1 .. Len(all), NEW j \in 1 .. Len(all),
             \A k, l \in 1 .. Len(evs) : evs[k] = Event(first, r) /\ evs[l] = Event(later, r) => k < l,
             \A k, l \in 1 .. Len(news) : news[k] = Event(first, r) /\ news[l] = Event(later, r) => k < l,
             Tells(news, first, r) => ~Tells(evs, later, r),
             all[i] = Event(first, r), all[j] = Event(later, r)
      PROVE  i < j
  <2>0. i \in Nat /\ j \in Nat /\ i <= Len(evs) + Len(news) /\ j <= Len(evs) + Len(news) /\ 1 <= i /\ 1 <= j
        BY <1>1 DEF all
  <2>1. CASE i <= Len(evs) /\ j <= Len(evs)
        BY <1>1, <1>2, <2>0, <2>1 DEF all
  <2>2. CASE i <= Len(evs) /\ j > Len(evs)
        BY <1>1, <2>0, <2>2
  <2>3. CASE i > Len(evs) /\ j > Len(evs)
    <3>1. /\ i - Len(evs) \in 1 .. Len(news) /\ news[i - Len(evs)] = Event(first, r)
          /\ j - Len(evs) \in 1 .. Len(news) /\ news[j - Len(evs)] = Event(later, r)
          BY <1>1, <1>2, <2>0, <2>3 DEF all
    <3>2. i - Len(evs) < j - Len(evs)
          BY <1>2, <3>1
    <3> QED BY <1>1, <2>0, <3>2
  <2>4. CASE i > Len(evs) /\ j <= Len(evs)
    <3>1. /\ i - Len(evs) \in 1 .. Len(news) /\ news[i - Len(evs)] = Event(first, r)
          /\ j \in 1 .. Len(evs) /\ evs[j] = Event(later, r)
          BY <1>1, <1>2, <2>0, <2>4 DEF all
    <3> QED BY <1>2, <3>1 DEF Tells, Says
  <2> QED BY <1>1, <2>0, <2>1, <2>2, <2>3, <2>4
<1>3. ASSUME NEW i \in 1 .. Len(all), NEW j \in 1 .. Len(all),
             all[i] = Event("permission.requested", r), all[j] = Event("permission.resolved", r)
      PROVE  i < j
      BY <1>2, <1>3 DEF InTurn
<1>4. ASSUME NEW i \in 1 .. Len(all), NEW j \in 1 .. Len(all),
             all[i] = Event("tool.started", r), all[j] = Event("tool.finished", r)
      PROVE  i < j
      BY <1>2, <1>4 DEF InTurn
<1> QED BY <1>3, <1>4 DEF InTurn, all

\* Events only come behind the others, and what has been decided of a run stays.
Grows ==
    /\ \A c \in Conversations : /\ Len(events[c]) <= Len(events'[c])
                                /\ \A i \in 1 .. Len(events[c]) : events'[c][i] = events[c][i]
    /\ \A r \in Runs : Exists(r) => conv'[r] = conv[r]
    /\ \A r \in Runs : tool[r] = "ended" => tool'[r] = "ended"
    /\ \A r \in Runs : Exists(r) /\ status[r] \notin Unfinished => status'[r] = status[r]

\* The run of r's events, and nothing of the others, changes when r's events come.
OfRun(r, c, news) ==
    /\ r \in Runs /\ c \in Conversations /\ news \in Seq(Events)
    /\ \A i \in 1 .. Len(news) : news[i].run = r
    /\ Emit(c, news)
    /\ conv' = [conv EXCEPT ![r] = c]
    /\ Exists(r) => conv[r] = c

LEMMA OfRunTells ==
    ASSUME ServerTypeOK, EventsBelong, NEW r, NEW c, NEW news, OfRun(r, c, news)
    PROVE  /\ events' = [events EXCEPT ![c] = events[c] \o news]
           /\ conv'[r] = c /\ \A q \in Runs \ {r} : conv'[q] = conv[q]
           /\ Exists(r)'
           /\ \A t, q : Tells(events'[c], t, q) <=> Tells(events[c], t, q) \/ Tells(news, t, q)
           /\ \A t, q : q # r => ~Tells(news, t, q)
           /\ ~Exists(r) => \A t : ~Tells(events[c], t, r)
           /\ Len(events'[c]) = Len(events[c]) + Len(news)
           /\ \A i \in 1 .. Len(events[c]) : events'[c][i] = events[c][i]
<1>1. /\ r \in Runs /\ c \in Conversations /\ news \in Seq(Events) /\ events[c] \in Seq(Events)
      /\ events' = [events EXCEPT ![c] = events[c] \o news]
      /\ events'[c] = events[c] \o news
      BY DEF OfRun, Emit, ServerTypeOK
<1>2. conv'[r] = c /\ (\A q \in Runs \ {r} : conv'[q] = conv[q]) /\ Exists(r)'
      BY <1>1, ServerAssumption DEF OfRun, ServerTypeOK, Exists
<1>3. \A t, q : q # r => ~Tells(news, t, q)
      BY EventsDiffer DEF OfRun, Tells, Says
<1>4. ~Exists(r) => \A t : ~Tells(events[c], t, r)
  <2>1. ASSUME ~Exists(r), NEW t, Tells(events[c], t, r) PROVE FALSE
    <3>1. PICK i \in 1 .. Len(events[c]) : events[c][i] = Event(t, r)
          BY <2>1 DEF Tells, Says
    <3>2. events[c][i].run = r
          BY <3>1 DEF Event
    <3>3. conv[r] = c
          BY <1>1, <3>2 DEF EventsBelong
    <3> QED BY <1>1, <2>1, <3>3, ServerAssumption DEF Exists
  <2> QED BY <2>1
<1>5. /\ \A t, q : Tells(events'[c], t, q) <=> Tells(events[c], t, q) \/ Tells(news, t, q)
      /\ Len(events'[c]) = Len(events[c]) + Len(news)
      /\ \A i \in 1 .. Len(events[c]) : events'[c][i] = events[c][i]
  <2> DEFINE evs == events[c]
  <2>1. evs \in Seq(Events) /\ news \in Seq(Events) /\ events'[c] = evs \o news
        BY <1>1
  <2> HIDE DEF evs
  <2>2. /\ \A t, q : Tells(events'[c], t, q) <=> Tells(evs, t, q) \/ Tells(news, t, q)
        /\ Len(events'[c]) = Len(evs) + Len(news)
        /\ \A i \in 1 .. Len(evs) : events'[c][i] = evs[i]
        BY <2>1, SaidAfter
  <2> QED BY <2>2 DEF evs
<1> QED BY <1>1, <1>2, <1>3, <1>4, <1>5

LEMMA OfRunKeeps ==
    ASSUME ServerTypeOK, ServerOK, NEW r, NEW c, NEW news, OfRun(r, c, news),
           \A q \in Runs \ {r} : status'[q] = status[q] /\ tool'[q] = tool[q],
           InTurn(news, r),
           Tells(news, "permission.requested", r) => ~Tells(events[c], "permission.resolved", r),
           Tells(news, "tool.started", r) => ~Tells(events[c], "tool.finished", r),
           ToolIsTold(r)',
           tool[r] = "ended" => tool'[r] = "ended",
           Exists(r) => status[r] \in Unfinished \/ status'[r] = status[r]
    PROVE  ServerOK' /\ Grows
<1>1. r \in Runs /\ c \in Conversations /\ news \in Seq(Events) /\ events[c] \in Seq(Events)
      BY DEF OfRun, ServerTypeOK
<1>2. EventsBelong
      BY DEF ServerOK
<1>3. /\ events' = [events EXCEPT ![c] = events[c] \o news]
      /\ conv'[r] = c /\ \A q \in Runs \ {r} : conv'[q] = conv[q]
      /\ \A t, q : Tells(events'[c], t, q) <=> Tells(events[c], t, q) \/ Tells(news, t, q)
      /\ \A t, q : q # r => ~Tells(news, t, q)
      /\ Len(events'[c]) = Len(events[c]) + Len(news)
      /\ \A i \in 1 .. Len(events[c]) : events'[c][i] = events[c][i]
      BY <1>2, OfRunTells
<1>4. \A d \in Conversations \ {c} : events'[d] = events[d]
      BY <1>1, <1>3 DEF ServerTypeOK
<1>5. events'[c] = events[c] \o news
      BY <1>1, <1>3 DEF ServerTypeOK
<1>6. \A q \in Runs : Exists(q) => conv'[q] = conv[q]
      BY <1>1, <1>3 DEF OfRun
<1>7. EventsBelong'
  <2> SUFFICES ASSUME NEW d \in Conversations, NEW i \in 1 .. Len(events'[d])
               PROVE  conv'[events'[d][i].run] = d
      BY DEF EventsBelong
  <2>1. ASSUME events'[d][i] = events[d][i], i \in 1 .. Len(events[d]) PROVE conv'[events'[d][i].run] = d
    <3> DEFINE q == events[d][i].run
    <3>1. events[d] \in Seq(Events)
          BY DEF ServerTypeOK
    <3>2. events[d][i] \in Events
          BY <2>1, <3>1
    <3>3. q \in Runs /\ conv[q] = d
          BY <1>2, <2>1, <3>2 DEF EventsBelong, Events
    <3>4. Exists(q)
          BY <3>3, ServerAssumption DEF Exists
    <3> QED BY <1>6, <2>1, <3>3, <3>4
  <2>2. CASE d # c
        BY <1>4, <2>1, <2>2
  <2>3. CASE d = c /\ i <= Len(events[c])
        BY <1>1, <1>3, <2>1, <2>3
  <2>4. CASE d = c /\ i > Len(events[c])
    <3>1. i - Len(events[c]) \in 1 .. Len(news) /\ events'[c][i] = news[i - Len(events[c])]
          BY <1>1, <1>3, <1>5, <2>4, JoinedSeq
    <3>2. events'[c][i].run = r
          BY <3>1 DEF OfRun
    <3> QED BY <1>3, <2>4, <3>2
  <2>5. i \in Nat /\ Len(events[c]) \in Nat
        BY <1>1, <1>3, <1>4 DEF ServerTypeOK
  <2> QED BY <2>2, <2>3, <2>4, <2>5
<1>8. ASSUME NEW q \in Runs \ {r} PROVE ToolIsTold(q)'
  <2>1. ToolIsTold(q) /\ conv'[q] = conv[q] /\ status'[q] = status[q] /\ tool'[q] = tool[q]
        BY <1>3 DEF ServerOK
  <2>2. ASSUME Exists(q), NEW t PROVE Tells(events'[conv'[q]], t, q) <=> Tells(events[conv[q]], t, q)
    <3>1. conv[q] \in Conversations
          BY <2>2 DEF Exists, ServerTypeOK
    <3>2. CASE conv[q] = c
          BY <1>3, <2>1, <3>2
    <3>3. CASE conv[q] # c
          BY <1>4, <2>1, <3>1, <3>3
    <3> QED BY <3>2, <3>3
  <2> QED BY <2>1, <2>2 DEF ToolIsTold, Exists
<1>9. ASSUME NEW d \in Conversations, NEW q \in Runs PROVE InTurn(events'[d], q)
  <2>1. InTurn(events[d], q)
        BY DEF ServerOK
  <2>2. CASE d # c
        BY <1>4, <2>1, <2>2
  <2>3. CASE d = c /\ q = r
        BY <1>1, <1>5, <2>1, <2>3, TurnsAfter
  <2>4. CASE d = c /\ q # r
    <3>1. InTurn(news, q)
          BY <1>3, <2>4 DEF InTurn, Tells, Says
    <3> QED BY <1>1, <1>3, <1>5, <2>1, <2>4, <3>1, TurnsAfter
  <2> QED BY <2>2, <2>3, <2>4
<1>10. ServerOK'
       BY <1>7, <1>8, <1>9 DEF ServerOK
<1>11. \A d \in Conversations : /\ Len(events[d]) <= Len(events'[d])
                                /\ \A i \in 1 .. Len(events[d]) : events'[d][i] = events[d][i]
  <2> SUFFICES ASSUME NEW d \in Conversations
               PROVE  /\ Len(events[d]) <= Len(events'[d])
                      /\ \A i \in 1 .. Len(events[d]) : events'[d][i] = events[d][i]
      OBVIOUS
  <2>1. Len(events[d]) \in Nat /\ Len(news) \in Nat
        BY <1>1 DEF ServerTypeOK
  <2>2. CASE d = c
        BY <1>3, <2>1, <2>2
  <2>3. CASE d # c
        BY <1>4, <2>1, <2>3
  <2> QED BY <2>2, <2>3
<1>12. \A q \in Runs : /\ tool[q] = "ended" => tool'[q] = "ended"
                       /\ Exists(q) /\ status[q] \notin Unfinished => status'[q] = status[q]
       OBVIOUS
<1> QED BY <1>6, <1>10, <1>11, <1>12 DEF Grows

LEMMA OneTold ==
    ASSUME NEW t, NEW r
    PROVE  \A u, q : Tells(<<Event(t, r)>>, u, q) <=> u = t /\ q = r
BY DEF Tells, Says, Event

LEMMA TwoTold ==
    ASSUME NEW t, NEW u, NEW r
    PROVE  \A x, q : Tells(<<Event(t, r), Event(u, r)>>, x, q) <=> (x = t \/ x = u) /\ q = r
<1> DEFINE s == <<Event(t, r), Event(u, r)>>
<1>1. Len(s) = 2 /\ s[1] = Event(t, r) /\ s[2] = Event(u, r)
      OBVIOUS
<1>2. 1 .. 2 = {1, 2}
      OBVIOUS
<1> HIDE DEF s
<1>3. \A x, q : Tells(s, x, q) <=> Event(t, r) = Event(x, q) \/ Event(u, r) = Event(x, q)
      BY <1>1, <1>2 DEF Tells, Says
<1> QED BY <1>3 DEF s, Event

LEMMA ThreeTold ==
    ASSUME NEW t, NEW u, NEW v, NEW r
    PROVE  \A x, q : Tells(<<Event(t, r), Event(u, r)>> \o <<Event(v, r)>>, x, q)
                        <=> (x = t \/ x = u \/ x = v) /\ q = r
<1> DEFINE s == <<Event(t, r), Event(u, r)>> \o <<Event(v, r)>>
<1>1. Len(s) = 3 /\ s[1] = Event(t, r) /\ s[2] = Event(u, r) /\ s[3] = Event(v, r)
      OBVIOUS
<1>2. 1 .. 3 = {1, 2, 3}
      OBVIOUS
<1> HIDE DEF s
<1>3. \A x, q : Tells(s, x, q) <=> \/ Event(t, r) = Event(x, q) \/ Event(u, r) = Event(x, q)
                                   \/ Event(v, r) = Event(x, q)
      BY <1>1, <1>2 DEF Tells, Says
<1> QED BY <1>3 DEF s, Event

\* Every step of the server adds events of one run, or stores a chunk.
News(r) ==
    {<<Event(t, r)>> : t \in {"run.queued", "run.started", "message.delta", "run.completed"}}
    \cup {<<Event("tool.started", r), Event("permission.requested", r)>>,
          <<Event("permission.resolved", r), Event("tool.finished", r)>>,
          <<Event("permission.resolved", r), Event("tool.finished", r)>>
             \o <<Event("run.completed", r)>>}

LEMMA NewsOfRun ==
    ASSUME NEW r \in Runs, NEW news \in News(r)
    PROVE  /\ news \in Seq(Events)
           /\ \A i \in 1 .. Len(news) : news[i].run = r
           /\ InTurn(news, r)
<1>1. ASSUME NEW t \in {"run.queued", "run.started", "message.delta", "run.completed"},
             news = <<Event(t, r)>>
      PROVE  /\ news \in Seq(Events)
             /\ \A i \in 1 .. Len(news) : news[i].run = r
             /\ InTurn(news, r)
  <2>1. Event(t, r) \in Events
        BY EventIsEvent, TypeNames
  <2>2. Len(news) = 1 /\ news[1] = Event(t, r) /\ 1 .. 1 = {1} /\ news \in Seq(Events)
        BY <1>1, <2>1
  <2>3. \A i \in 1 .. Len(news) : news[i] = Event(t, r)
        BY <2>2
  <2> QED BY <2>2, <2>3, EventsDiffer DEF InTurn
<1>2. ASSUME NEW t \in {"tool.started", "permission.resolved"}, NEW u \in {"permission.requested", "tool.finished"},
             news = <<Event(t, r), Event(u, r)>>,
             t = "tool.started" <=> u = "permission.requested"
      PROVE  /\ news \in Seq(Events)
             /\ \A i \in 1 .. Len(news) : news[i].run = r
             /\ InTurn(news, r)
  <2>1. Event(t, r) \in Events /\ Event(u, r) \in Events
        BY EventIsEvent, TypeNames
  <2>2. Len(news) = 2 /\ news[1] = Event(t, r) /\ news[2] = Event(u, r) /\ 1 .. 2 = {1, 2} /\ news \in Seq(Events)
        BY <1>2, <2>1
  <2>3. \A i \in 1 .. Len(news) : news[i] = Event(t, r) \/ news[i] = Event(u, r)
        BY <2>2
  <2>4. \A i \in 1 .. Len(news) : news[i].run = r
        BY <2>3 DEF Event
  <2>5. InTurn(news, r)
        BY <1>2, <2>3, EventsDiffer DEF InTurn
  <2> QED BY <2>2, <2>4, <2>5
<1>3. ASSUME news = <<Event("permission.resolved", r), Event("tool.finished", r)>> \o <<Event("run.completed", r)>>
      PROVE  /\ news \in Seq(Events)
             /\ \A i \in 1 .. Len(news) : news[i].run = r
             /\ InTurn(news, r)
  <2>1. /\ Event("permission.resolved", r) \in Events /\ Event("tool.finished", r) \in Events
        /\ Event("run.completed", r) \in Events
        BY EventIsEvent, TypeNames
  <2>2. /\ Len(news) = 3 /\ news[1] = Event("permission.resolved", r) /\ news[2] = Event("tool.finished", r)
        /\ news[3] = Event("run.completed", r) /\ 1 .. 3 = {1, 2, 3}
        BY <1>3
  <2>3. news \in Seq(Events)
        BY <1>3, <2>1, JoinedSeq
  <2>4. \A i \in 1 .. Len(news) : \/ news[i] = Event("permission.resolved", r)
                                  \/ news[i] = Event("tool.finished", r)
                                  \/ news[i] = Event("run.completed", r)
        BY <2>2
  <2>5. \A i \in 1 .. Len(news) : news[i].run = r
        BY <2>4 DEF Event
  <2>6. InTurn(news, r)
        BY <2>4, EventsDiffer DEF InTurn
  <2> QED BY <2>3, <2>5, <2>6
<1> QED BY <1>1, <1>2, <1>3 DEF News

LEMMA ServerInitOK == ServerInit => ServerOK
<1> SUFFICES ASSUME ServerInit PROVE ServerOK
    OBVIOUS
<1>1. /\ \A c \in Conversations : events[c] = <<>> /\ Len(events[c]) = 0 /\ 1 .. Len(events[c]) = {}
      /\ \A r \in Runs : ~Exists(r) /\ status[r] = "queued" /\ tool[r] = "none"
      BY DEF ServerInit, Exists
<1> QED BY <1>1 DEF ServerOK, EventsBelong, ToolIsTold, InTurn

LEMMA ServerUnchanged ==
    ASSUME ServerTypeOK, ServerOK, UNCHANGED <<conv, status, tool, events>>
    PROVE  ServerOK' /\ Grows
<1>1. ServerOK'
      BY DEF ServerOK, EventsBelong, ToolIsTold, Exists
<1>2. Grows
      BY DEF Grows, ServerTypeOK
<1> QED BY <1>1, <1>2

\* A step of the server tells what it does, and takes nothing back.
LEMMA ServerStepOK ==
    ASSUME ServerTypeOK, ServerOK, ServerStep
    PROVE  ServerOK' /\ Grows
<1>0. /\ EventsBelong
      /\ \A r \in Runs : ToolIsTold(r)
      /\ NoConversation \notin Conversations
      BY ServerAssumption DEF ServerOK
<1>1. ASSUME NEW r \in Runs, NEW c \in Conversations, NEW news \in News(r),
             Emit(c, news), conv' = [conv EXCEPT ![r] = c], Exists(r) => conv[r] = c
      PROVE  /\ OfRun(r, c, news) /\ InTurn(news, r)
             /\ conv'[r] = c /\ Exists(r)'
             /\ \A t : Tells(events'[conv'[r]], t, r) <=> Tells(events[c], t, r) \/ Tells(news, t, r)
             /\ ~Exists(r) => \A t : ~Tells(events[c], t, r)
  <2>1. OfRun(r, c, news) /\ InTurn(news, r)
        BY <1>1, NewsOfRun DEF OfRun
  <2>2. /\ conv'[r] = c /\ Exists(r)'
        /\ \A t, q : Tells(events'[c], t, q) <=> Tells(events[c], t, q) \/ Tells(news, t, q)
        /\ ~Exists(r) => \A t : ~Tells(events[c], t, r)
        BY <1>0, <2>1, OfRunTells
  <2> QED BY <2>1, <2>2
<1>2. ASSUME NEW r \in Runs, NEW c \in Conversations, Accept(r, c) PROVE ServerOK' /\ Grows
  <2> DEFINE news == <<Event("run.queued", r)>>
  <2>1. /\ news \in News(r) /\ Emit(c, news) /\ conv' = [conv EXCEPT ![r] = c] /\ ~Exists(r)
        /\ UNCHANGED <<status, tool>>
        BY <1>2 DEF Accept, News, IsNext
  <2>2. \A t : Tells(news, t, r) <=> t = "run.queued"
        BY OneTold
  <2> HIDE DEF news
  <2>3. /\ OfRun(r, c, news) /\ InTurn(news, r) /\ conv'[r] = c /\ Exists(r)'
        /\ \A t : Tells(events'[conv'[r]], t, r) <=> t = "run.queued"
        BY <1>1, <2>1, <2>2
  <2>4. ToolIsTold(r) /\ status[r] = "queued" /\ tool[r] = "none"
        BY <1>0, <2>1 DEF ToolIsTold
  <2>5. ToolIsTold(r)'
        BY <2>1, <2>3, <2>4 DEF ToolIsTold
  <2> QED BY <2>1, <2>2, <2>3, <2>5, OfRunKeeps
<1>3. ASSUME NEW old \in Runs, NEW r \in Runs, AcceptRetry(old, r) PROVE ServerOK' /\ Grows
  <2> DEFINE news == <<Event("run.queued", r)>>
             c == conv[old]
  <2>1. /\ news \in News(r) /\ Emit(c, news) /\ conv' = [conv EXCEPT ![r] = c] /\ ~Exists(r)
        /\ UNCHANGED <<status, tool>> /\ c \in Conversations
        BY <1>3 DEF AcceptRetry, News, IsNext, Exists, ServerTypeOK
  <2>2. \A t : Tells(news, t, r) <=> t = "run.queued"
        BY OneTold
  <2> HIDE DEF news, c
  <2>3. /\ OfRun(r, c, news) /\ InTurn(news, r) /\ conv'[r] = c /\ Exists(r)'
        /\ \A t : Tells(events'[conv'[r]], t, r) <=> t = "run.queued"
        BY <1>1, <2>1, <2>2
  <2>4. ToolIsTold(r) /\ status[r] = "queued" /\ tool[r] = "none"
        BY <1>0, <2>1 DEF ToolIsTold
  <2>5. ToolIsTold(r)'
        BY <2>1, <2>3, <2>4 DEF ToolIsTold
  <2> QED BY <2>1, <2>2, <2>3, <2>5, OfRunKeeps
<1>4. ASSUME NEW r \in Runs, Exists(r) PROVE conv[r] \in Conversations /\ [conv EXCEPT ![r] = conv[r]] = conv
      BY <1>4 DEF Exists, ServerTypeOK
<1>5. ASSUME NEW r \in Runs, StartRun(r) PROVE ServerOK' /\ Grows
  <2> DEFINE news == <<Event("run.started", r)>>
             c == conv[r]
  <2>1. /\ news \in News(r) /\ Emit(c, news) /\ conv' = [conv EXCEPT ![r] = c] /\ Exists(r)
        /\ c \in Conversations /\ status[r] = "queued" /\ status' = [status EXCEPT ![r] = "running"]
        /\ tool' = tool
        BY <1>4, <1>5 DEF StartRun, News
  <2>2. \A t : Tells(news, t, r) <=> t = "run.started"
        BY OneTold
  <2> HIDE DEF news
  <2>3. /\ OfRun(r, c, news) /\ InTurn(news, r) /\ conv'[r] = c /\ Exists(r)'
        /\ \A t : Tells(events'[conv'[r]], t, r) <=> Tells(events[c], t, r) \/ t = "run.started"
        BY <1>1, <2>1, <2>2
  <2>4. ToolIsTold(r) /\ status[r] \in Unfinished /\ status'[r] = "running"
        BY <1>0, <2>1, TypeNames DEF ServerTypeOK
  <2>5. ToolIsTold(r)'
        BY <2>1, <2>3, <2>4, TypeNames DEF ToolIsTold
  <2>6. \A q \in Runs \ {r} : status'[q] = status[q] /\ tool'[q] = tool[q]
        BY <2>1 DEF ServerTypeOK
  <2> QED BY <2>1, <2>2, <2>3, <2>4, <2>5, <2>6, OfRunKeeps
<1>6. ASSUME NEW r \in Runs, AskApproval(r) PROVE ServerOK' /\ Grows
  <2> DEFINE news == <<Event("tool.started", r), Event("permission.requested", r)>>
             c == conv[r]
  <2>1. /\ news \in News(r) /\ Emit(c, news) /\ status[r] = "running" /\ tool[r] = "none" /\ conv' = conv
        /\ status' = [status EXCEPT ![r] = "waiting_approval"] /\ tool' = [tool EXCEPT ![r] = "asked"]
        BY <1>6 DEF AskApproval, News
  <2>2. \A t : Tells(news, t, r) <=> t = "tool.started" \/ t = "permission.requested"
        BY TwoTold
  <2> HIDE DEF news
  <2>3. ToolIsTold(r) /\ Exists(r) /\ c \in Conversations /\ conv' = [conv EXCEPT ![r] = c]
        BY <1>0, <1>4, <2>1 DEF ToolIsTold
  <2>4. /\ OfRun(r, c, news) /\ InTurn(news, r) /\ conv'[r] = c /\ Exists(r)'
        /\ \A t : Tells(events'[conv'[r]], t, r)
                    <=> Tells(events[c], t, r) \/ t = "tool.started" \/ t = "permission.requested"
        BY <1>1, <2>1, <2>2, <2>3
  <2>5. status'[r] = "waiting_approval" /\ tool'[r] = "asked" /\ status[r] \in Unfinished
        BY <2>1, TypeNames DEF ServerTypeOK
  <2>6. ~Tells(events[c], "permission.resolved", r) /\ ~Tells(events[c], "tool.finished", r)
        BY <2>1, <2>3 DEF ToolIsTold
  <2>7. ToolIsTold(r)'
        BY <2>1, <2>3, <2>4, <2>5, TypeNames DEF ToolIsTold
  <2>8. \A q \in Runs \ {r} : status'[q] = status[q] /\ tool'[q] = tool[q]
        BY <2>1 DEF ServerTypeOK
  <2> QED BY <2>1, <2>2, <2>3, <2>4, <2>5, <2>6, <2>7, <2>8, OfRunKeeps
<1>7. ASSUME NEW r \in Runs, AcceptAnswer(r) PROVE ServerOK' /\ Grows
  <2> DEFINE news == <<Event("permission.resolved", r), Event("tool.finished", r)>>
             c == conv[r]
  <2>1. /\ news \in News(r) /\ Emit(c, news) /\ status[r] = "waiting_approval" /\ conv' = conv
        /\ status' = [status EXCEPT ![r] = "running"] /\ tool' = [tool EXCEPT ![r] = "ended"]
        BY <1>7 DEF AcceptAnswer, News
  <2>2. \A t : Tells(news, t, r) <=> t = "permission.resolved" \/ t = "tool.finished"
        BY TwoTold
  <2> HIDE DEF news
  <2>3. ToolIsTold(r) /\ Exists(r) /\ c \in Conversations /\ conv' = [conv EXCEPT ![r] = c]
        BY <1>0, <1>4, <2>1 DEF ToolIsTold
  <2>4. /\ OfRun(r, c, news) /\ InTurn(news, r) /\ conv'[r] = c /\ Exists(r)'
        /\ \A t : Tells(events'[conv'[r]], t, r)
                    <=> Tells(events[c], t, r) \/ t = "permission.resolved" \/ t = "tool.finished"
        BY <1>1, <2>1, <2>2, <2>3
  <2>5. status'[r] = "running" /\ tool'[r] = "ended" /\ status[r] \in Unfinished
        BY <2>1, TypeNames DEF ServerTypeOK
  <2>6. tool[r] = "asked"
        BY <2>1, <2>3 DEF ToolIsTold
  <2>7. ToolIsTold(r)'
        BY <2>1, <2>3, <2>4, <2>5, <2>6, TypeNames DEF ToolIsTold
  <2>8. \A q \in Runs \ {r} : status'[q] = status[q] /\ tool'[q] = tool[q]
        BY <2>1 DEF ServerTypeOK
  <2> QED BY <2>1, <2>2, <2>3, <2>4, <2>5, <2>6, <2>7, <2>8, OfRunKeeps
<1>8. ASSUME NEW r \in Runs, StoreChunk(r) PROVE ServerOK' /\ Grows
      BY <1>8, ServerUnchanged DEF StoreChunk
<1>9. ASSUME NEW r \in Runs, AnnounceChunk(r) PROVE ServerOK' /\ Grows
  <2> DEFINE news == <<Event("message.delta", r)>>
             c == conv[r]
  <2>1. /\ news \in News(r) /\ Emit(c, news) /\ status[r] = "running" /\ UNCHANGED <<conv, status, tool>>
        BY <1>9 DEF AnnounceChunk, News
  <2>2. \A t : Tells(news, t, r) <=> t = "message.delta"
        BY OneTold
  <2> HIDE DEF news
  <2>3. ToolIsTold(r) /\ Exists(r) /\ c \in Conversations /\ conv' = [conv EXCEPT ![r] = c]
        BY <1>0, <1>4, <2>1 DEF ToolIsTold
  <2>4. /\ OfRun(r, c, news) /\ InTurn(news, r) /\ conv'[r] = c /\ Exists(r)'
        /\ \A t : Tells(events'[conv'[r]], t, r) <=> Tells(events[c], t, r) \/ t = "message.delta"
        BY <1>1, <2>1, <2>2, <2>3
  <2>5. ToolIsTold(r)'
        BY <2>1, <2>3, <2>4, TypeNames DEF ToolIsTold
  <2> QED BY <2>1, <2>2, <2>3, <2>4, <2>5, OfRunKeeps
<1>10. ASSUME NEW r \in Runs, EndRun(r) PROVE ServerOK' /\ Grows
  <2> DEFINE news == <<Event("run.completed", r)>>
             c == conv[r]
  <2>1. /\ news \in News(r) /\ Emit(c, news) /\ status[r] = "running" /\ UNCHANGED <<conv, tool>>
        BY <1>10 DEF EndRun, News
  <2>2. PICK end \in {"completed", "failed"} : status' = [status EXCEPT ![r] = end]
        BY <1>10 DEF EndRun
  <2>3. \A t : Tells(news, t, r) <=> t = "run.completed"
        BY OneTold
  <2> HIDE DEF news
  <2>4. ToolIsTold(r) /\ Exists(r) /\ c \in Conversations /\ conv' = [conv EXCEPT ![r] = c]
        BY <1>0, <1>4, <2>1 DEF ToolIsTold
  <2>5. /\ OfRun(r, c, news) /\ InTurn(news, r) /\ conv'[r] = c /\ Exists(r)'
        /\ \A t : Tells(events'[conv'[r]], t, r) <=> Tells(events[c], t, r) \/ t = "run.completed"
        BY <1>1, <2>1, <2>3, <2>4
  <2>6. status'[r] = end /\ status'[r] \notin Unfinished /\ status[r] \in Unfinished
        BY <2>1, <2>2, TypeNames DEF ServerTypeOK
  <2>7. ToolIsTold(r)'
        BY <2>1, <2>2, <2>4, <2>5, <2>6 DEF ToolIsTold
  <2>8. \A q \in Runs \ {r} : status'[q] = status[q] /\ tool'[q] = tool[q]
        BY <2>1, <2>2 DEF ServerTypeOK
  <2> QED BY <2>1, <2>3, <2>4, <2>5, <2>6, <2>7, <2>8, OfRunKeeps
<1>11. ASSUME NEW r \in Runs, AcceptCancel(r), tool[r] = "asked" PROVE ServerOK' /\ Grows
  <2> DEFINE news == <<Event("permission.resolved", r), Event("tool.finished", r)>> \o <<Event("run.completed", r)>>
             c == conv[r]
  <2>1. /\ news \in News(r) /\ Emit(c, news) /\ status[r] \in Unfinished /\ conv' = conv /\ Exists(r)
        /\ status' = [status EXCEPT ![r] = "cancelled"] /\ tool' = [tool EXCEPT ![r] = "ended"]
        BY <1>11 DEF AcceptCancel, News
  <2>2. \A t : Tells(news, t, r) <=> t = "permission.resolved" \/ t = "tool.finished" \/ t = "run.completed"
        BY ThreeTold
  <2> HIDE DEF news
  <2>3. ToolIsTold(r) /\ c \in Conversations /\ conv' = [conv EXCEPT ![r] = c]
        BY <1>0, <1>4, <2>1
  <2>4. /\ OfRun(r, c, news) /\ InTurn(news, r) /\ conv'[r] = c /\ Exists(r)'
        /\ \A t : Tells(events'[conv'[r]], t, r)
                    <=> \/ Tells(events[c], t, r) \/ t = "permission.resolved" \/ t = "tool.finished"
                        \/ t = "run.completed"
        BY <1>1, <2>1, <2>2, <2>3
  <2>5. status'[r] = "cancelled" /\ tool'[r] = "ended" /\ status'[r] \notin Unfinished
        BY <2>1, TypeNames DEF ServerTypeOK
  <2>6. ToolIsTold(r)'
        BY <1>11, <2>1, <2>3, <2>4, <2>5 DEF ToolIsTold
  <2>7. \A q \in Runs \ {r} : status'[q] = status[q] /\ tool'[q] = tool[q]
        BY <2>1 DEF ServerTypeOK
  <2> QED BY <2>1, <2>2, <2>3, <2>4, <2>5, <2>6, <2>7, OfRunKeeps
<1>12. ASSUME NEW r \in Runs, AcceptCancel(r), tool[r] # "asked" PROVE ServerOK' /\ Grows
  <2> DEFINE news == <<Event("run.completed", r)>>
             c == conv[r]
  <2>1. <<>> \o news = news
        OBVIOUS
  <2>2. /\ news \in News(r) /\ status[r] \in Unfinished /\ conv' = conv /\ Exists(r)
        /\ status' = [status EXCEPT ![r] = "cancelled"] /\ tool' = [tool EXCEPT ![r] = tool[r]]
        /\ Emit(c, <<>> \o news)
        BY <1>12 DEF AcceptCancel, News
  <2>3. Emit(c, news) /\ tool' = tool
        BY <2>1, <2>2 DEF ServerTypeOK
  <2>4. \A t : Tells(news, t, r) <=> t = "run.completed"
        BY OneTold
  <2> HIDE DEF news
  <2>5. ToolIsTold(r) /\ c \in Conversations /\ conv' = [conv EXCEPT ![r] = c]
        BY <1>0, <1>4, <2>2
  <2>6. /\ OfRun(r, c, news) /\ InTurn(news, r) /\ conv'[r] = c /\ Exists(r)'
        /\ \A t : Tells(events'[conv'[r]], t, r) <=> Tells(events[c], t, r) \/ t = "run.completed"
        BY <1>1, <2>2, <2>3, <2>4, <2>5
  <2>7. status'[r] = "cancelled" /\ tool'[r] = tool[r] /\ status'[r] \notin Unfinished
        BY <2>2, <2>3, TypeNames DEF ServerTypeOK
  <2>8. ToolIsTold(r)'
        BY <1>12, <2>2, <2>5, <2>6, <2>7 DEF ToolIsTold
  <2>9. \A q \in Runs \ {r} : status'[q] = status[q] /\ tool'[q] = tool[q]
        BY <2>2, <2>3 DEF ServerTypeOK
  <2> QED BY <2>2, <2>4, <2>5, <2>6, <2>7, <2>8, <2>9, OfRunKeeps
<1> QED BY <1>2, <1>3, <1>5, <1>6, <1>7, <1>8, <1>9, <1>10, <1>11, <1>12 DEF ServerStep, RunStep

\* What the server does in a step of the page and its world.
LEMMA StepOfServer ==
    ASSUME Typed, Next
    PROVE  UNCHANGED serverVars \/ ServerStep
<1>0. /\ \A a \in Sends : send[a].step = "out" => send[a].conv \in Conversations
      /\ \A k \in clicks : k.run \in Runs
      BY DEF Typed, SendTyped, Clicks
<1>1. CASE HandleEvent \/ RunEffects \/ AnswerFetch \/ FetchFails \/ ApplyFetch
      BY <1>1 DEF HandleEvent, RunEffects, AnswerFetch, FetchFails, ApplyFetch
<1>2. CASE LoadStep \/ LoadWithout \/ LoadFails \/ ApplyLoad \/ Probe \/ StaleLoadEnds \/ RefreshHealth
      BY <1>2 DEF LoadStep, LoadWithout, LoadFails, ApplyLoad, Probe, StaleLoadEnds, RefreshHealth
<1>3. CASE ChangeGate \/ Reload
      BY <1>3 DEF ChangeGate, Reload
<1>4. ASSUME NEW c \in Conversations, SelectConversation(c) \/ NewConversation(c) \/ OtherTab(c)
      PROVE  UNCHANGED serverVars
      BY <1>4 DEF SelectConversation, NewConversation, OtherTab
<1>5. ASSUME NEW a \in Sends, Send(a) \/ ApplySent(a) \/ FailSend(a) PROVE UNCHANGED serverVars
      BY <1>5 DEF Send, ApplySent, FailSend
<1>6. ASSUME NEW a \in Sends, TakeSend(a) PROVE ServerStep
      BY <1>0, <1>6 DEF TakeSend, ServerStep
<1>7. ASSUME NEW op, NEW r, Click(op, r) PROVE UNCHANGED serverVars
      BY <1>7 DEF Click
<1>8. ASSUME NEW k \in clicks, TakeClick(k) PROVE UNCHANGED serverVars \/ ServerStep
      BY <1>0, <1>8 DEF TakeClick, ServerStep
<1>9. ASSUME NEW k \in clicks, ApplyResolved(k) \/ LoseClick(k) PROVE UNCHANGED serverVars
      BY <1>9 DEF ApplyResolved, LoseClick
<1>10. ASSUME NEW r \in Runs, Work(r) PROVE ServerStep
       BY <1>10 DEF Work, ServerStep
<1> QED BY <1>1, <1>2, <1>3, <1>4, <1>5, <1>6, <1>7, <1>8, <1>9, <1>10 DEF Next

LEMMA StepGrows ==
    ASSUME Typed, ServerOK, [Next]_vars
    PROVE  ServerOK' /\ Grows
<1>1. ServerTypeOK
      BY DEF Typed
<1>2. UNCHANGED serverVars \/ ServerStep
      BY StepOfServer DEF vars
<1>3. CASE UNCHANGED serverVars
      BY <1>1, <1>3, ServerUnchanged DEF serverVars
<1>4. CASE ServerStep
      BY <1>1, <1>4, ServerStepOK
<1> QED BY <1>2, <1>3, <1>4

LEMMA ServerOKAlways == Spec => []ServerOK
<1>1. Init => ServerOK
      BY ServerInitOK DEF Init
<1>2. Typed /\ ServerOK /\ [Next]_vars => ServerOK'
      BY StepGrows
<1> QED BY <1>1, <1>2, TypedAlways, PTL DEF Spec

-----------------------------------------------------------------------------
(* How far a page is in the events, and its permission cards. *)

StreamIsSeen ==
    /\ stream # NoConversation => position <= Len(events[stream])
    /\ \A c \in Conversations : seen[c] <= stored[c] /\ stored[c] <= Len(events[c])
    /\ stream \in Conversations \ skipped => seen[stream] = position

\* The cards of a conversation are those that the events handled for it say.
CardFollows(r, c) ==
    /\ card[r] # "none" <=> Says(events[c], seen[c], "permission.requested", r)
    /\ Says(events[c], seen[c], "permission.resolved", r) => card[r] = "resolved"
    /\ card[r] = "resolved" => tool[r] = "ended"
CardsFollow ==
    /\ \A r \in Runs : Exists(r) /\ conv[r] \notin skipped => CardFollows(r, conv[r])
    /\ \A r \in Runs : ~Exists(r) => card[r] = "none"
    /\ \A k \in clicks : k.step = "back" => tool[k.run] = "ended"

LEMMA SaysNext ==
    ASSUME NEW evs, NEW n \in Nat, NEW t, NEW r
    PROVE  Says(evs, n + 1, t, r) <=> Says(evs, n, t, r) \/ evs[n + 1] = Event(t, r)
<1>1. 1 .. (n + 1) = (1 .. n) \cup {n + 1}
      OBVIOUS
<1> QED BY <1>1 DEF Says

LEMMA SaysKept ==
    ASSUME NEW evs, NEW all, NEW n, \A i \in 1 .. n : all[i] = evs[i]
    PROVE  \A t, r : Says(all, n, t, r) <=> Says(evs, n, t, r)
BY DEF Says

\* The steps of a page by what they do to the stream, the cards and the clicks.
LEMMA CardSteps ==
    ASSUME Typed, Next
    PROVE  \/ HandleEvent
           \/ /\ \E c \in Conversations \cup {NoConversation} : Follow(c)
              /\ UNCHANGED <<serverVars, stored, seen, card, clicks>>
           \/ \E c \in Conversations : OtherTab(c)
           \/ Reload
           \/ \E k \in clicks : TakeClick(k) \/ ApplyResolved(k)
           \/ /\ UNCHANGED <<stream, position, stored, seen, skipped, card>>
              /\ \A k \in clicks' : k.step = "back" => k \in clicks
<1>0. /\ active \in Conversations \cup {NoConversation}
      BY DEF Typed, LinkTyped
<1> DEFINE Quiet == /\ UNCHANGED <<stream, position, stored, seen, skipped, card>>
                    /\ \A k \in clicks' : k.step = "back" => k \in clicks
<1>1. CASE AnswerFetch \/ FetchFails \/ ApplyFetch
  <2>1. Quiet
        BY <1>1 DEF AnswerFetch, FetchFails, ApplyFetch, netVars, history
  <2> QED BY <2>1
<1>2. CASE LoadStep \/ LoadWithout \/ LoadFails \/ ApplyLoad \/ Probe \/ StaleLoadEnds \/ RefreshHealth
  <2>1. Quiet
        BY <1>2 DEF LoadStep, LoadWithout, LoadFails, ApplyLoad, Probe, StaleLoadEnds, RefreshHealth,
           netVars, history
  <2> QED BY <2>1
<1>3. CASE ChangeGate
  <2>1. Quiet
        BY <1>3 DEF ChangeGate, pageVars, netVars, history
  <2> QED BY <2>1
<1>4. ASSUME NEW c \in Conversations, SelectConversation(c)
      PROVE  /\ \E d \in Conversations \cup {NoConversation} : Follow(d)
             /\ UNCHANGED <<serverVars, stored, seen, card, clicks>>
      BY <1>4 DEF SelectConversation, Wanted, netVars
<1>5. ASSUME RunEffects
      PROVE  /\ \E d \in Conversations \cup {NoConversation} : Follow(d)
             /\ UNCHANGED <<serverVars, stored, seen, card, clicks>>
  <2>1. Wanted(connection, active) \in Conversations \cup {NoConversation}
        BY <1>0 DEF Wanted
  <2> QED BY <1>5, <2>1 DEF RunEffects, netVars
<1>6. ASSUME NEW c \in Conversations, NewConversation(c) PROVE Quiet
      BY <1>6 DEF NewConversation, netVars, history
<1>7. ASSUME NEW a \in Sends, Send(a) \/ TakeSend(a) \/ ApplySent(a) \/ FailSend(a) PROVE Quiet
      BY <1>7 DEF Send, TakeSend, ApplySent, FailSend, pageVars, history
<1>8. ASSUME NEW op, NEW r, Click(op, r) PROVE Quiet
      BY <1>8 DEF Click, pageVars, history
<1>9. ASSUME NEW k \in clicks, LoseClick(k) PROVE Quiet
      BY <1>9 DEF LoseClick, history
<1>10. ASSUME NEW r \in Runs, Work(r) PROVE Quiet
       BY <1>10 DEF Work, pageVars, netVars, history
<1> HIDE DEF Quiet
<1> QED BY <1>1, <1>2, <1>3, <1>4, <1>5, <1>6, <1>7, <1>8, <1>9, <1>10 DEF Next, Quiet

\* The event a page handles, and what it makes of the card of its run.
LEMMA EventHandled ==
    ASSUME Typed, ServerOK, HandleEvent
    PROVE  LET c == stream
               e == events[c][position + 1]
           IN  /\ c \in Conversations /\ position \in Nat /\ position + 1 \in 1 .. Len(events[c])
               /\ events[c] \in Seq(Events)
               /\ e \in Events /\ e.run \in Runs /\ e = Event(e.type, e.run)
               /\ conv[e.run] = c /\ Exists(e.run)
               /\ card' = CardAfter(e)
               /\ position' = position + 1
               /\ stored' = [stored EXCEPT ![c] = position + 1]
               /\ seen' = [seen EXCEPT ![c] = position + 1]
               /\ skipped' = IF active # c THEN skipped \cup ({c, active} \ {NoConversation}) ELSE skipped
               /\ UNCHANGED <<serverVars, stream, active, clicks>>
<1> DEFINE c == stream
           e == events[c][position + 1]
<1>1. c \in Conversations /\ position \in Nat /\ position < Len(events[c]) /\ events[c] \in Seq(Events)
      BY DEF HandleEvent, Typed, StreamTyped, ServerTypeOK
<1>2. position + 1 \in 1 .. Len(events[c]) /\ e \in Events
      BY <1>1
<1>3. e.run \in Runs /\ e = Event(e.type, e.run)
      BY <1>2 DEF Events, Event
<1>4. conv[e.run] = c /\ Exists(e.run)
      BY <1>1, <1>2, ServerAssumption DEF ServerOK, EventsBelong, Exists
<1>5. /\ card' = CardAfter(e)
      /\ position' = position + 1
      /\ stored' = [stored EXCEPT ![c] = position + 1]
      /\ seen' = [seen EXCEPT ![c] = position + 1]
      /\ skipped' = IF active # c THEN skipped \cup ({c, active} \ {NoConversation}) ELSE skipped
      /\ UNCHANGED <<serverVars, stream, active, clicks>>
      BY DEF HandleEvent, netVars
<1> QED BY <1>1, <1>2, <1>3, <1>4, <1>5

LEMMA StreamIsSeenInit == Init => StreamIsSeen
<1> SUFFICES ASSUME Init PROVE StreamIsSeen
    OBVIOUS
<1>1. stream = NoConversation /\ \A c \in Conversations : seen[c] = 0 /\ stored[c] = 0 /\ Len(events[c]) = 0
      BY DEF Init, ServerInit
<1> QED BY <1>1, ServerAssumption DEF StreamIsSeen

LEMMA StreamIsSeenStep ==
    ASSUME Typed, ServerOK, StreamIsSeen, [Next]_vars
    PROVE  StreamIsSeen'
<1>0. /\ stored \in [Conversations -> Nat] /\ seen \in [Conversations -> Nat]
      /\ position \in Nat /\ stream \in Conversations \cup {NoConversation}
      /\ events \in [Conversations -> Seq(Events)]
      /\ \A c \in Conversations : Len(events[c]) \in Nat
      /\ NoConversation \notin Conversations
      BY ServerAssumption DEF Typed, HistoryTyped, StreamTyped, ServerTypeOK
<1>1. /\ \A c \in Conversations : Len(events'[c]) \in Nat /\ Len(events[c]) <= Len(events'[c])
      BY StepGrows, StepTyped DEF Grows, Typed, ServerTypeOK
<1>2. CASE UNCHANGED vars
      BY <1>2 DEF vars, pageVars, serverVars, history, StreamIsSeen
<1>3. CASE HandleEvent
  <2> DEFINE c == stream
  <2>1. /\ c \in Conversations /\ position + 1 \in 1 .. Len(events[c])
        /\ position' = position + 1
        /\ stored' = [stored EXCEPT ![c] = position + 1]
        /\ seen' = [seen EXCEPT ![c] = position + 1]
        /\ skipped' = IF active # c THEN skipped \cup ({c, active} \ {NoConversation}) ELSE skipped
        /\ events' = events /\ stream' = stream
        BY <1>3, EventHandled DEF serverVars
  <2> QED BY <1>0, <2>1 DEF StreamIsSeen
<1>4. ASSUME NEW c \in Conversations \cup {NoConversation}, Follow(c),
             UNCHANGED <<serverVars, stored, seen, card, clicks>>
      PROVE  StreamIsSeen'
  <2>1. UNCHANGED <<events, stored, seen>>
        BY <1>4 DEF serverVars
  <2>2. CASE c = NoConversation
        BY <1>0, <1>4, <2>1, <2>2 DEF Follow, StreamIsSeen
  <2>3. CASE c # NoConversation
        BY <1>0, <1>4, <2>1, <2>3 DEF Follow, StreamIsSeen
  <2> QED BY <2>2, <2>3
<1>5. ASSUME NEW c \in Conversations, OtherTab(c) PROVE StreamIsSeen'
  <2>1. PICK n \in (stored[c] + 1) .. Len(events[c]) : stored' = [stored EXCEPT ![c] = n]
        BY <1>5 DEF OtherTab
  <2>2. UNCHANGED <<events, seen, stream, position, skipped>>
        BY <1>5 DEF OtherTab, serverVars, pageVars
  <2> QED BY <1>0, <2>1, <2>2 DEF StreamIsSeen
<1>6. CASE Reload
  <2>1. /\ stream' = NoConversation /\ \A c \in Conversations : seen'[c] = 0
        /\ UNCHANGED <<events, stored>>
        BY <1>6 DEF Reload, serverVars
  <2> QED BY <1>0, <2>1 DEF StreamIsSeen
<1>7. CASE UNCHANGED <<stream, position, stored, seen, skipped>>
      BY <1>0, <1>1, <1>7 DEF StreamIsSeen
<1>8. ASSUME NEW k \in clicks, TakeClick(k) \/ ApplyResolved(k)
      PROVE  UNCHANGED <<stream, position, stored, seen, skipped>>
      BY <1>8 DEF TakeClick, ApplyResolved, pageVars, history
<1> QED BY <1>2, <1>3, <1>4, <1>5, <1>6, <1>7, <1>8, CardSteps

LEMMA CardsFollowInit == Init => CardsFollow
<1> SUFFICES ASSUME Init PROVE CardsFollow
    OBVIOUS
<1>1. /\ \A r \in Runs : ~Exists(r) /\ card[r] = "none"
      /\ clicks = {}
      BY DEF Init, ServerInit, Exists
<1> QED BY <1>1 DEF CardsFollow

\* One event more: the card of its run follows it, when the event before was followed.
LEMMA CardFollowsEvent ==
    ASSUME Typed, ServerOK, StreamIsSeen, CardsFollow, HandleEvent,
           NEW r \in Runs, conv[r] = stream, stream \notin skipped
    PROVE  CardFollows(r, conv[r])'
<1> DEFINE c == stream
           e == events[c][position + 1]
<1>1. /\ c \in Conversations /\ position \in Nat /\ position + 1 \in 1 .. Len(events[c])
      /\ e \in Events /\ e.run \in Runs /\ e = Event(e.type, e.run)
      /\ card' = CardAfter(e)
      /\ seen'[c] = position + 1
      /\ events' = events /\ tool' = tool /\ conv' = conv
      BY EventHandled DEF serverVars, Typed, HistoryTyped
<1>2. seen[c] = position
      BY <1>1 DEF StreamIsSeen
<1>3. Exists(r) /\ CardFollows(r, c)
      BY <1>1, ServerAssumption DEF Exists, CardsFollow
<1>4. \A t : Says(events[c], position + 1, t, r) <=> Says(events[c], position, t, r) \/ e = Event(t, r)
      BY <1>1, SaysNext
<1>5. card \in [Runs -> {"none", "pending", "resolved"}] /\ card[r] \in {"none", "pending", "resolved"}
      BY DEF Typed, ShownTyped
<1>6. InTurn(events[c], r) /\ ToolIsTold(r)
      BY <1>1 DEF ServerOK
<1> HIDE DEF e
<1>7. CASE e = Event("permission.requested", r)
  <2>1. card'[r] = "pending"
        BY <1>1, <1>5, <1>7, EventsDiffer DEF CardAfter
  <2>2. ~Says(events[c], position + 1, "permission.resolved", r)
    <3>1. ASSUME NEW j \in 1 .. position, events[c][j] = Event("permission.resolved", r) PROVE FALSE
      <4>1. j \in 1 .. Len(events[c]) /\ position \in Nat /\ j \in Nat
            BY <1>1, <3>1 DEF Typed, ServerTypeOK
      <4>2. position + 1 < j
            BY <1>1, <1>6, <1>7, <3>1, <4>1 DEF InTurn, e
      <4> QED BY <3>1, <4>1, <4>2
    <3>2. ~Says(events[c], position, "permission.resolved", r)
          BY <3>1 DEF Says
    <3> QED BY <1>4, <1>7, <3>2, EventsDiffer
  <2>3. Says(events[c], position + 1, "permission.requested", r)
        BY <1>4, <1>7
  <2> QED BY <1>1, <2>1, <2>2, <2>3 DEF CardFollows
<1>8. CASE e = Event("permission.resolved", r)
  <2>1. Tells(events[c], "permission.resolved", r)
        BY <1>1, <1>8 DEF Tells, Says, e
  <2>2. tool[r] = "ended" /\ Tells(events[c], "permission.requested", r)
        BY <1>3, <1>6, <2>1 DEF ToolIsTold
  <2>3. PICK i \in 1 .. Len(events[c]) : events[c][i] = Event("permission.requested", r)
        BY <2>2 DEF Tells, Says
  <2>4. i < position + 1
        BY <1>1, <1>6, <1>8, <2>3 DEF InTurn, e
  <2>5. i \in 1 .. position
        BY <1>1, <2>3, <2>4 DEF Typed, ServerTypeOK
  <2>6. Says(events[c], position, "permission.requested", r)
        BY <2>3, <2>5 DEF Says
  <2>7. card[r] # "none"
        BY <1>2, <1>3, <2>6 DEF CardFollows
  <2>8. card'[r] = "resolved"
        BY <1>1, <1>5, <1>8, <2>7, EventsDiffer DEF CardAfter
  <2> QED BY <1>1, <1>4, <2>2, <2>6, <2>8 DEF CardFollows
<1>9. CASE e # Event("permission.requested", r) /\ e # Event("permission.resolved", r)
  <2>1. card'[r] = card[r]
        BY <1>1, <1>5, <1>9 DEF CardAfter
  <2>2. /\ Says(events[c], position + 1, "permission.requested", r)
             <=> Says(events[c], position, "permission.requested", r)
        /\ Says(events[c], position + 1, "permission.resolved", r)
             <=> Says(events[c], position, "permission.resolved", r)
        BY <1>4, <1>9
  <2> QED BY <1>1, <1>2, <1>3, <2>1, <2>2 DEF CardFollows
<1> QED BY <1>7, <1>8, <1>9

\* What the page handled of a conversation stays what it was when the server goes on.
LEMMA SeenStays ==
    ASSUME Typed, StreamIsSeen, Grows, NEW c \in Conversations
    PROVE  \A t, r : Says(events'[c], seen[c], t, r) <=> Says(events[c], seen[c], t, r)
<1>1. seen[c] \in Nat /\ Len(events[c]) \in Nat /\ seen[c] <= Len(events[c])
      BY DEF StreamIsSeen, Typed, HistoryTyped, ServerTypeOK
<1>2. \A i \in 1 .. seen[c] : i \in 1 .. Len(events[c])
      BY <1>1
<1>3. \A i \in 1 .. seen[c] : events'[c][i] = events[c][i]
      BY <1>2 DEF Grows
<1> QED BY <1>3, SaysKept

\* Nothing is said of a run that does not exist.
LEMMA NothingSaid ==
    ASSUME Typed, ServerOK, StreamIsSeen, NEW r \in Runs, ~Exists(r), NEW c \in Conversations, NEW t
    PROVE  ~Says(events[c], seen[c], t, r)
<1>1. ASSUME NEW i \in 1 .. seen[c], events[c][i] = Event(t, r) PROVE FALSE
  <2>1. i \in 1 .. Len(events[c])
        BY DEF StreamIsSeen, Typed, HistoryTyped, ServerTypeOK
  <2>2. events[c][i].run = r
        BY <1>1 DEF Event
  <2>3. conv[r] = c
        BY <2>1, <2>2 DEF ServerOK, EventsBelong
  <2> QED BY <2>3, ServerAssumption DEF Exists
<1> QED BY <1>1 DEF Says

\* A card stays with its conversation while the server goes on.
LEMMA CardsFollowServer ==
    ASSUME Typed, ServerOK, StreamIsSeen, CardsFollow, Grows, ServerTypeOK',
           UNCHANGED <<seen, skipped, card>>,
           \A k \in clicks' : k.step = "back" => tool'[k.run] = "ended"
    PROVE  CardsFollow'
<1>1. ASSUME NEW r \in Runs, conv'[r] # NoConversation, conv'[r] \notin skipped
      PROVE  CardFollows(r, conv[r])'
  <2> DEFINE c == conv'[r]
  <2>1. c \in Conversations
        BY <1>1 DEF ServerTypeOK
  <2>2. \A t : Says(events'[c], seen[c], t, r) <=> Says(events[c], seen[c], t, r)
        BY <2>1, SeenStays
  <2>3. CASE Exists(r)
    <3>1. conv[r] = c /\ CardFollows(r, c)
          BY <1>1, <2>3 DEF Grows, CardsFollow
    <3>2. tool[r] = "ended" => tool'[r] = "ended"
          BY DEF Grows
    <3> QED BY <2>2, <3>1, <3>2 DEF CardFollows
  <2>4. CASE ~Exists(r)
    <3>1. \A t : ~Says(events[c], seen[c], t, r)
          BY <2>1, <2>4, NothingSaid
    <3>2. card[r] = "none"
          BY <2>4 DEF CardsFollow
    <3> QED BY <2>2, <3>1, <3>2 DEF CardFollows
  <2> QED BY <2>3, <2>4
<1>2. ASSUME NEW r \in Runs, conv'[r] = NoConversation PROVE card'[r] = "none"
      BY <1>2 DEF Grows, CardsFollow, Exists
<1> QED BY <1>1, <1>2 DEF CardsFollow, Exists

LEMMA CardsFollowStep ==
    ASSUME Typed, ServerOK, StreamIsSeen, CardsFollow, [Next]_vars
    PROVE  CardsFollow'
<1>0. /\ seen \in [Conversations -> Nat] /\ skipped \subseteq Conversations
      /\ conv \in [Runs -> Conversations \cup {NoConversation}]
      /\ NoConversation \notin Conversations
      /\ card \in [Runs -> {"none", "pending", "resolved"}]
      BY ServerAssumption DEF Typed, HistoryTyped, ServerTypeOK, ShownTyped
<1>1. Grows /\ ServerTypeOK'
      BY StepGrows, StepTyped DEF Typed
<1>2. CASE UNCHANGED vars
  <2>1. UNCHANGED <<conv, tool, events, card, clicks, seen, skipped>>
        BY <1>2 DEF vars, pageVars, serverVars, history, netVars
  <2> QED BY <2>1 DEF CardsFollow, CardFollows, Exists
<1>3. CASE HandleEvent
  <2> DEFINE c == stream
             e == events[c][position + 1]
  <2>1. /\ c \in Conversations /\ e.run \in Runs /\ conv[e.run] = c /\ Exists(e.run)
        /\ card' = CardAfter(e)
        /\ seen' = [seen EXCEPT ![c] = position + 1]
        /\ skipped' = IF active # c THEN skipped \cup ({c, active} \ {NoConversation}) ELSE skipped
        /\ UNCHANGED <<conv, tool, events, clicks>>
        BY <1>3, EventHandled DEF serverVars
  <2>2. ASSUME NEW r \in Runs, r # e.run PROVE card'[r] = card[r]
    <3> HIDE DEF e
    <3> QED BY <1>0, <2>1, <2>2 DEF CardAfter
  <2>3. ASSUME NEW r \in Runs, Exists(r), conv[r] \notin skipped' PROVE CardFollows(r, conv[r])'
    <3>1. conv[r] \notin skipped /\ conv[r] \in Conversations
          BY <1>0, <2>1, <2>3 DEF Exists
    <3>2. CASE conv[r] = c
          BY <1>3, <3>1, <3>2, CardFollowsEvent
    <3>3. CASE conv[r] # c
      <4>1. card'[r] = card[r] /\ seen'[conv[r]] = seen[conv[r]]
            BY <1>0, <2>1, <2>2, <3>1, <3>3
      <4>2. CardFollows(r, conv[r])
            BY <2>3, <3>1 DEF CardsFollow
      <4> QED BY <2>1, <4>1, <4>2 DEF CardFollows
    <3> QED BY <3>2, <3>3
  <2>4. ASSUME NEW r \in Runs, ~Exists(r) PROVE card'[r] = "none"
        BY <2>1, <2>2, <2>4 DEF CardsFollow
  <2>5. \A k \in clicks : k.step = "back" => tool[k.run] = "ended"
        BY DEF CardsFollow
  <2> HIDE DEF e
  <2> QED BY <2>1, <2>3, <2>4, <2>5 DEF CardsFollow, Exists
<1>4. ASSUME NEW c \in Conversations \cup {NoConversation}, Follow(c),
             UNCHANGED <<serverVars, stored, seen, card, clicks>>
      PROVE  CardsFollow'
  <2>1. UNCHANGED <<conv, tool, events, seen, card, clicks>> /\ skipped \subseteq skipped'
        BY <1>4 DEF serverVars, Follow
  <2> QED BY <2>1 DEF CardsFollow, CardFollows, Exists
<1>5. ASSUME NEW c \in Conversations, OtherTab(c) PROVE CardsFollow'
  <2>1. UNCHANGED <<conv, tool, events, seen, card, clicks, skipped>>
        BY <1>5 DEF OtherTab, serverVars, pageVars, netVars
  <2> QED BY <2>1 DEF CardsFollow, CardFollows, Exists
<1>6. CASE Reload
  <2>1. /\ \A c \in Conversations : seen'[c] = 0
        /\ \A r \in Runs : card'[r] = "none"
        /\ clicks' = {} /\ conv' = conv
        BY <1>6 DEF Reload, serverVars
  <2>2. \A c \in Conversations : \A t, r : ~Says(events'[c], seen'[c], t, r)
        BY <2>1 DEF Says
  <2>3. ASSUME NEW r \in Runs, Exists(r) PROVE CardFollows(r, conv[r])'
    <3>1. conv[r] \in Conversations
          BY <1>0, <2>3 DEF Exists
    <3> QED BY <2>1, <2>2, <3>1 DEF CardFollows
  <2> QED BY <2>1, <2>3 DEF CardsFollow, Exists
<1>7. CASE /\ UNCHANGED <<stream, position, stored, seen, skipped, card>>
           /\ \A k \in clicks' : k.step = "back" => k \in clicks
  <2>1. \A k \in clicks' : k.step = "back" => tool'[k.run] = "ended"
        BY <1>1, <1>7 DEF CardsFollow, Grows, Typed, Clicks
  <2> QED BY <1>1, <1>7, <2>1, CardsFollowServer
<1>8. ASSUME NEW k \in clicks, TakeClick(k) PROVE CardsFollow'
  <2>1. UNCHANGED <<seen, skipped, card>>
        BY <1>8 DEF TakeClick, pageVars, history
  <2>2. k \in Clicks
        BY DEF Typed
  <2>3. ASSUME NEW l \in clicks', l.step = "back" PROVE tool'[l.run] = "ended"
    <3>1. CASE l \in clicks
          BY <1>1, <2>3, <3>1 DEF CardsFollow, Grows, Typed, Clicks
    <3>2. CASE l \notin clicks
      <4>1. k.op = "resolve" /\ status[k.run] = "waiting_approval" /\ l = [k EXCEPT !.step = "back"]
            BY <1>8, <3>2 DEF TakeClick
      <4>2. l.run = k.run /\ k.run \in Runs
            BY <2>2, <4>1 DEF Clicks
      <4>3. AcceptAnswer(k.run)
            BY <1>8, <4>1 DEF TakeClick
      <4> QED BY <4>2, <4>3 DEF AcceptAnswer, Typed, ServerTypeOK
    <3> QED BY <3>1, <3>2
  <2> QED BY <1>1, <2>1, <2>3, CardsFollowServer
<1>9. ASSUME NEW k \in clicks, ApplyResolved(k) PROVE CardsFollow'
  <2>1. /\ UNCHANGED <<conv, tool, events, seen, skipped>> /\ clicks' \subseteq clicks
        /\ card' = [card EXCEPT ![k.run] = IF card[k.run] = "none" THEN card[k.run] ELSE "resolved"]
        /\ k.step = "back"
        BY <1>9 DEF ApplyResolved, serverVars, history
  <2>2. tool[k.run] = "ended" /\ k.run \in Runs
        BY <2>1 DEF CardsFollow, Typed, Clicks
  <2>3. \A r \in Runs : card'[r] = card[r] \/ (r = k.run /\ card[r] # "none" /\ card'[r] = "resolved")
        BY <1>0, <2>1, <2>2
  <2>4. ASSUME NEW r \in Runs, Exists(r), conv[r] \notin skipped PROVE CardFollows(r, conv[r])'
        BY <2>1, <2>2, <2>3, <2>4 DEF CardsFollow, CardFollows
  <2>5. ASSUME NEW r \in Runs, ~Exists(r) PROVE card'[r] = "none"
        BY <2>3, <2>5 DEF CardsFollow
  <2> QED BY <2>1, <2>4, <2>5 DEF CardsFollow, Exists
<1> QED BY <1>2, <1>3, <1>4, <1>5, <1>6, <1>7, <1>8, <1>9, CardSteps

\* The page follows the events, and its cards follow them.
LEMMA FollowsAlways == Spec => [](StreamIsSeen /\ CardsFollow)
<1>1. Init => StreamIsSeen /\ CardsFollow
      BY StreamIsSeenInit, CardsFollowInit
<1>2. Typed /\ ServerOK /\ (StreamIsSeen /\ CardsFollow) /\ [Next]_vars => (StreamIsSeen /\ CardsFollow)'
      BY StreamIsSeenStep, CardsFollowStep
<1> QED BY <1>1, <1>2, TypedAlways, ServerOKAlways, PTL DEF Spec

(***************************************************************************)
(* A page that is up to date shows exactly the permissions that wait for   *)
(* an answer (PendingIsShown): the cards a page keeps are those that the   *)
(* events it handled say, and a run waits exactly when its events say that *)
(* it asked and do not say that it was answered.                           *)
(***************************************************************************)
THEOREM PendingIsShownAlways == Spec => []PendingIsShown
<1>1. Typed /\ ServerOK /\ StreamIsSeen /\ CardsFollow => PendingIsShown
  <2> SUFFICES ASSUME Typed, ServerOK, StreamIsSeen, CardsFollow,
                      NEW r \in Runs, Exists(r), CaughtUp(conv[r])
               PROVE  tool[r] = "asked" <=> card[r] = "pending"
      BY DEF PendingIsShown
  <2> DEFINE c == conv[r]
  <2>1. c \in Conversations /\ c \notin skipped /\ seen[c] = Len(events[c])
        BY DEF Typed, ServerTypeOK, Exists, CaughtUp, StreamIsSeen
  <2>2. CardFollows(r, c)
        BY <2>1 DEF CardsFollow
  <2>3. /\ card[r] # "none" <=> tool[r] # "none"
        /\ tool[r] = "ended" => card[r] = "resolved"
        /\ card[r] = "resolved" => tool[r] = "ended"
    <3>1. ToolIsTold(r)
          BY DEF ServerOK
    <3> QED BY <2>1, <2>2, <3>1 DEF CardFollows, ToolIsTold, Tells
  <2>4. tool[r] \in {"none", "asked", "ended"} /\ card[r] \in {"none", "pending", "resolved"}
        BY DEF Typed, ServerTypeOK, ShownTyped
  <2> QED BY <2>3, <2>4
<1> QED BY <1>1, TypedAlways, ServerOKAlways, FollowsAlways, PTL

-----------------------------------------------------------------------------
(* The status a page shows. *)

\* A set of numbers below a bound has a last member.
LEMMA LastIsMember ==
    ASSUME NEW m \in Nat, NEW S \in SUBSET (1 .. m), S # {}
    PROVE  LET k == CHOOSE i \in S : \A j \in S : j <= i
           IN  k \in S /\ \A j \in S : j <= k
<1> DEFINE N == Cardinality(S)
<1>1. IsFiniteSet(S)
  <2>1. IsFiniteSet(1 .. m)
        BY FS_Interval
  <2> QED BY <2>1, FS_Subset
<1>2. N \in Nat /\ N # 0
      BY <1>1, FS_CardinalityType, FS_EmptySet
<1>3. Nth(S, N) \in S /\ Rank(S, Nth(S, N)) = N - 1
  <2> HIDE DEF N
  <2>1. N \in 1 .. N
        BY <1>2
  <2> QED BY <2>1, NthIsMember DEF N
<1>4. ASSUME NEW j \in S PROVE j <= Nth(S, N)
  <2>1. Rank(S, j) \in 0 .. (N - 1)
        BY RanksGrow
  <2>2. Nth(S, N) < j => Rank(S, Nth(S, N)) < Rank(S, j)
        BY <1>3, RanksGrow
  <2>3. ~(Nth(S, N) < j)
    <3> HIDE DEF N
    <3> QED BY <1>2, <1>3, <2>1, <2>2
  <2>4. S \subseteq Nat
        OBVIOUS
  <2>5. j \in Nat /\ Nth(S, N) \in Nat
        BY <1>3, <2>4
  <2> QED BY <2>3, <2>5
<1>5. \E i \in S : \A j \in S : j <= i
      BY <1>3, <1>4
<1> QED BY <1>5

\* The events that set the status among the first n.
Told(evs, n) == {i \in 1 .. n : SetsStatus(evs[i])}
LastTold(evs, n) == CHOOSE i \in Told(evs, n) : \A j \in Told(evs, n) : j <= i

\* The status an event that sets it tells, with the statuses runs have.
Shows(e, st) ==
    CASE e.type = "run.queued" -> "queued"
      [] e.type = "run.started" -> "running"
      [] e.type = "permission.requested" -> "waiting_approval"
      [] e.type = "run.completed" -> st[e.run]

LEMMA ShowsIsStatusAfter ==
    /\ \A e, old : SetsStatus(e) => StatusAfter(e, old) = Shows(e, status)
    /\ \A e, old : ~SetsStatus(e) => StatusAfter(e, old) = old
<1>1. ASSUME NEW e, NEW old, SetsStatus(e) PROVE StatusAfter(e, old) = Shows(e, status)
  <2>1. CASE e.type = "run.queued" BY <2>1 DEF StatusAfter, Shows
  <2>2. CASE e.type = "run.started" BY <2>2 DEF StatusAfter, Shows
  <2>3. CASE e.type = "permission.requested" BY <2>3 DEF StatusAfter, Shows
  <2>4. CASE e.type = "run.completed" BY <2>4 DEF StatusAfter, Shows
  <2> QED BY <1>1, <2>1, <2>2, <2>3, <2>4 DEF SetsStatus
<1>2. ASSUME NEW e, NEW old, ~SetsStatus(e) PROVE StatusAfter(e, old) = old
      BY <1>2 DEF StatusAfter, SetsStatus
<1> QED BY <1>1, <1>2

LEMMA StatusAtIsLast ==
    ASSUME NEW c, NEW n \in Nat
    PROVE  /\ Told(events[c], n) = {} => StatusAt(c, n) = "none"
           /\ Told(events[c], n) # {} =>
                 /\ LastTold(events[c], n) \in Told(events[c], n)
                 /\ \A j \in Told(events[c], n) : j <= LastTold(events[c], n)
                 /\ StatusAt(c, n) = Shows(events[c][LastTold(events[c], n)], status)
<1>1. Told(events[c], n) \in SUBSET (1 .. n)
      BY DEF Told
<1>2. Told(events[c], n) # {} =>
         /\ LastTold(events[c], n) \in Told(events[c], n)
         /\ \A j \in Told(events[c], n) : j <= LastTold(events[c], n)
      BY <1>1, LastIsMember DEF LastTold
<1>3. StatusAt(c, n) = IF Told(events[c], n) = {} THEN "none"
                       ELSE StatusAfter(events[c][LastTold(events[c], n)], "none")
      BY DEF StatusAt, Told, LastTold
<1>4. Told(events[c], n) # {} => SetsStatus(events[c][LastTold(events[c], n)])
      BY <1>2 DEF Told
<1> QED BY <1>2, <1>3, <1>4, ShowsIsStatusAfter

\* The last of the first n + 1 events that set the status.
LEMMA LastToldNext ==
    ASSUME NEW evs, NEW n \in Nat
    PROVE  /\ SetsStatus(evs[n + 1]) => Told(evs, n + 1) # {} /\ LastTold(evs, n + 1) = n + 1
           /\ ~SetsStatus(evs[n + 1]) => Told(evs, n + 1) = Told(evs, n) /\ LastTold(evs, n + 1) = LastTold(evs, n)
<1>1. 1 .. (n + 1) = (1 .. n) \cup {n + 1}
      OBVIOUS
<1>2. ASSUME SetsStatus(evs[n + 1]) PROVE Told(evs, n + 1) # {} /\ LastTold(evs, n + 1) = n + 1
  <2>1. n + 1 \in Told(evs, n + 1)
        BY <1>1, <1>2 DEF Told
  <2>2. Told(evs, n + 1) \in SUBSET (1 .. (n + 1)) /\ n + 1 \in Nat
        BY DEF Told
  <2>3. /\ LastTold(evs, n + 1) \in Told(evs, n + 1)
        /\ \A j \in Told(evs, n + 1) : j <= LastTold(evs, n + 1)
        BY <2>1, <2>2, LastIsMember DEF LastTold
  <2> QED BY <2>1, <2>2, <2>3
<1>3. ASSUME ~SetsStatus(evs[n + 1])
      PROVE  Told(evs, n + 1) = Told(evs, n) /\ LastTold(evs, n + 1) = LastTold(evs, n)
  <2>1. Told(evs, n + 1) = Told(evs, n)
        BY <1>1, <1>3 DEF Told
  <2> QED BY <2>1 DEF LastTold
<1> QED BY <1>2, <1>3

LEMMA StatusAtNext ==
    ASSUME NEW c, NEW n \in Nat
    PROVE  /\ SetsStatus(events[c][n + 1]) =>
                 \A old : StatusAt(c, n + 1) = StatusAfter(events[c][n + 1], old)
           /\ ~SetsStatus(events[c][n + 1]) => StatusAt(c, n + 1) = StatusAt(c, n)
<1>0. n + 1 \in Nat
      OBVIOUS
<1>1. ASSUME SetsStatus(events[c][n + 1]), NEW old
      PROVE  StatusAt(c, n + 1) = StatusAfter(events[c][n + 1], old)
  <2>1. Told(events[c], n + 1) # {} /\ LastTold(events[c], n + 1) = n + 1
        BY <1>1, LastToldNext
  <2>2. StatusAt(c, n + 1) = Shows(events[c][n + 1], status)
        BY <1>0, <2>1, StatusAtIsLast
  <2> QED BY <1>1, <2>2, ShowsIsStatusAfter
<1>2. ASSUME ~SetsStatus(events[c][n + 1]) PROVE StatusAt(c, n + 1) = StatusAt(c, n)
      BY <1>0, <1>2, LastToldNext, StatusAtIsLast
<1> QED BY <1>1, <1>2

\* What the events told of the status stays what it was when the server goes on.
LEMMA StatusStays ==
    ASSUME Typed, ServerOK, Grows, NEW c \in Conversations, NEW n \in Nat, n <= Len(events[c])
    PROVE  StatusAt(c, n)' = StatusAt(c, n)
<1>1. events[c] \in Seq(Events) /\ Len(events[c]) \in Nat
      BY DEF Typed, ServerTypeOK
<1>2. \A i \in 1 .. n : i \in 1 .. Len(events[c]) /\ events'[c][i] = events[c][i]
      BY <1>1 DEF Grows
<1>3. Told(events'[c], n) = Told(events[c], n)
      BY <1>2 DEF Told
<1>4. LastTold(events'[c], n) = LastTold(events[c], n)
      BY <1>3 DEF LastTold
<1>5. /\ (Told(events[c], n) = {} => StatusAt(c, n) = "none")'
      /\ (Told(events[c], n) # {} => StatusAt(c, n) = Shows(events[c][LastTold(events[c], n)], status))'
      BY StatusAtIsLast, PTL
<1>6. CASE Told(events[c], n) = {}
      BY <1>3, <1>5, <1>6, StatusAtIsLast
<1>7. CASE Told(events[c], n) # {}
  <2> DEFINE k == LastTold(events[c], n)
             e == events[c][k]
  <2>1. k \in 1 .. n /\ StatusAt(c, n) = Shows(e, status) /\ SetsStatus(e)
        BY <1>7, StatusAtIsLast DEF Told
  <2>2. k \in 1 .. Len(events[c]) /\ e \in Events
        BY <1>1, <1>2, <2>1
  <2>3. e.run \in Runs /\ e = Event(e.type, e.run) /\ conv[e.run] = c /\ Exists(e.run)
        BY <2>2, ServerAssumption DEF Events, Event, ServerOK, EventsBelong, Exists
  <2>4. ASSUME e.type = "run.completed" PROVE status'[e.run] = status[e.run]
    <3>1. Tells(events[c], "run.completed", e.run)
          BY <2>2, <2>3, <2>4 DEF Tells, Says
    <3>2. status[e.run] \notin Unfinished
          BY <2>3, <3>1 DEF ServerOK, ToolIsTold
    <3> QED BY <2>3, <3>2 DEF Grows
  <2>5. events'[c][k] = e
        BY <1>2, <2>1
  <2>6. StatusAt(c, n)' = Shows(events'[c][k], status')
        BY <1>3, <1>4, <1>5, <1>7
  <2> HIDE DEF e, k
  <2>7. Shows(e, status') = Shows(e, status)
        BY <2>1, <2>4 DEF Shows, SetsStatus
  <2> QED BY <2>1, <2>5, <2>6, <2>7
<1> QED BY <1>6, <1>7

\* The answer to a prompt is of a run whose first event has been told.
SendsAreTaken ==
    \A a \in Sends : send[a].step = "back" =>
        /\ send[a].run \in Runs /\ conv[send[a].run] = send[a].conv /\ send[a].conv \in Conversations
        /\ Tells(events[send[a].conv], "run.queued", send[a].run)

LEMMA TellsStays ==
    ASSUME Typed, Grows, NEW c \in Conversations, NEW t, NEW r, Tells(events[c], t, r), ServerTypeOK'
    PROVE  Tells(events'[c], t, r)
<1>1. PICK i \in 1 .. Len(events[c]) : events[c][i] = Event(t, r)
      BY DEF Tells, Says
<1>2. i \in 1 .. Len(events'[c]) /\ events'[c][i] = Event(t, r)
      BY <1>1 DEF Grows, Typed, ServerTypeOK
<1> QED BY <1>2 DEF Tells, Says

\* Only TakeSend makes a prompt answered.
LEMMA SendSteps ==
    ASSUME Typed, Next
    PROVE  \/ \E a \in Sends : TakeSend(a)
           \/ \A a \in Sends : send'[a].step = "back" => send'[a] = send[a]
<1>0. send \in [Sends -> Sendings]
      BY DEF Typed, SendTyped
<1>1. CASE HandleEvent \/ RunEffects \/ AnswerFetch \/ FetchFails \/ ApplyFetch
      BY <1>1 DEF HandleEvent, RunEffects, AnswerFetch, FetchFails, ApplyFetch, netVars
<1>2. CASE LoadStep \/ LoadWithout \/ LoadFails \/ ApplyLoad \/ Probe \/ StaleLoadEnds \/ RefreshHealth
      BY <1>2 DEF LoadStep, LoadWithout, LoadFails, ApplyLoad, Probe, StaleLoadEnds, RefreshHealth, netVars
<1>3. CASE ChangeGate
      BY <1>3 DEF ChangeGate, netVars
<1>4. CASE Reload
  <2>1. ASSUME NEW a \in Sends PROVE send'[a].step # "back" \/ send'[a] = send[a]
    <3>1. send'[a] = NoSend \/ send'[a] = [send[a] EXCEPT !.step = "done"]
          BY <1>4 DEF Reload
    <3>2. NoSend.step # "back"
          BY DEF NoSend
    <3>3. [send[a] EXCEPT !.step = "done"].step = "done"
          BY <1>0 DEF Sendings
    <3> QED BY <3>1, <3>2, <3>3
  <2> QED BY <2>1
<1>5. ASSUME NEW c \in Conversations, SelectConversation(c) \/ NewConversation(c) \/ OtherTab(c)
      PROVE  send' = send
      BY <1>5 DEF SelectConversation, NewConversation, OtherTab, netVars
<1>6. ASSUME NEW a \in Sends, Send(a) \/ ApplySent(a) \/ FailSend(a)
      PROVE  \A b \in Sends : send'[b].step = "back" => send'[b] = send[b]
  <2>1. \E s : send' = [send EXCEPT ![a] = s] /\ s.step # "back"
    <3>1. CASE Send(a)
      <4> DEFINE s == [step |-> IF Connected THEN "out" ELSE "done", conv |-> active, run |-> NoRun]
      <4>1. send' = [send EXCEPT ![a] = s] /\ s.step # "back"
            BY <3>1 DEF Send
      <4> QED BY <4>1
    <3>2. CASE ApplySent(a) \/ FailSend(a)
      <4> DEFINE s == [send[a] EXCEPT !.step = "done"]
      <4>1. send' = [send EXCEPT ![a] = s]
            BY <1>0, <3>2 DEF ApplySent, FailSend
      <4>2. s.step # "back"
            BY <1>0 DEF Sendings
      <4> QED BY <4>1, <4>2
    <3> QED BY <1>6, <3>1, <3>2
  <2> QED BY <1>0, <2>1
<1>7. ASSUME NEW op, NEW r, Click(op, r) PROVE send' = send
      BY <1>7 DEF Click
<1>8. ASSUME NEW k \in clicks, TakeClick(k) \/ ApplyResolved(k) \/ LoseClick(k) PROVE send' = send
      BY <1>8 DEF TakeClick, ApplyResolved, LoseClick
<1>9. ASSUME NEW r \in Runs, Work(r) PROVE send' = send
      BY <1>9 DEF Work, netVars
<1> QED BY <1>1, <1>2, <1>3, <1>4, <1>5, <1>6, <1>7, <1>8, <1>9 DEF Next

LEMMA SendsAreTakenStep ==
    ASSUME Typed, ServerOK, SendsAreTaken, [Next]_vars
    PROVE  SendsAreTaken'
<1>0. /\ send \in [Sends -> Sendings]
      /\ \A b \in Sends : send[b].step = "out" => send[b].conv \in Conversations
      /\ conv \in [Runs -> Conversations \cup {NoConversation}]
      /\ events \in [Conversations -> Seq(Events)]
      /\ NoConversation \notin Conversations
      BY ServerAssumption DEF Typed, SendTyped, ServerTypeOK
<1>1. Grows /\ ServerTypeOK'
      BY StepGrows, StepTyped DEF Typed
<1>2. ASSUME NEW a \in Sends, send'[a].step = "back", send'[a] = send[a]
      PROVE  /\ send'[a].run \in Runs /\ conv'[send'[a].run] = send'[a].conv /\ send'[a].conv \in Conversations
             /\ Tells(events'[send'[a].conv], "run.queued", send'[a].run)
  <2>1. /\ send[a].run \in Runs /\ conv[send[a].run] = send[a].conv /\ send[a].conv \in Conversations
        /\ Tells(events[send[a].conv], "run.queued", send[a].run)
        BY <1>2 DEF SendsAreTaken
  <2>2. conv'[send[a].run] = send[a].conv
        BY <1>0, <1>1, <2>1 DEF Grows, Exists
  <2>3. Tells(events'[send[a].conv], "run.queued", send[a].run)
        BY <1>1, <2>1, TellsStays
  <2> QED BY <1>2, <2>1, <2>2, <2>3
<1>3. CASE \A a \in Sends : send'[a].step = "back" => send'[a] = send[a]
      BY <1>2, <1>3 DEF SendsAreTaken
<1>4. CASE UNCHANGED vars
  <2>1. send' = send
        BY <1>4 DEF vars, netVars
  <2> QED BY <1>3, <2>1
<1>5. ASSUME NEW a \in Sends, TakeSend(a) PROVE SendsAreTaken'
  <2>1. PICK r \in Runs : /\ Accept(r, send[a].conv)
                          /\ send' = [send EXCEPT ![a].step = "back", ![a].run = r]
        BY <1>5 DEF TakeSend
  <2>2. send[a] \in Sendings /\ send[a].conv \in Conversations
        BY <1>0, <1>5 DEF TakeSend
  <2>3. send' = [send EXCEPT ![a] = [send[a] EXCEPT !.step = "back", !.run = r]]
        BY <1>0, <2>1
  <2>4. send'[a].conv = send[a].conv /\ send'[a].run = r
        BY <1>0, <2>2, <2>3 DEF Sendings
  <2> DEFINE c == send[a].conv
             news == <<Event("run.queued", r)>>
  <2>5. /\ conv' = [conv EXCEPT ![r] = c] /\ events' = [events EXCEPT ![c] = events[c] \o news]
        BY <2>1 DEF Accept, Emit
  <2>6. conv'[r] = c /\ events'[c] = events[c] \o news
        BY <1>0, <2>2, <2>5
  <2>7. news \in Seq(Events) /\ Tells(news, "run.queued", r)
    <3>1. Event("run.queued", r) \in Events
          BY EventIsEvent, TypeNames
    <3> QED BY <3>1, OneTold
  <2>8. Tells(events'[c], "run.queued", r)
    <3>1. events[c] \in Seq(Events)
          BY <1>0, <2>2
    <3> HIDE DEF news, c
    <3> QED BY <2>6, <2>7, <3>1, SaidAfter
  <2>9. ASSUME NEW b \in Sends, send'[b].step = "back"
        PROVE  /\ send'[b].run \in Runs /\ conv'[send'[b].run] = send'[b].conv /\ send'[b].conv \in Conversations
               /\ Tells(events'[send'[b].conv], "run.queued", send'[b].run)
    <3>1. CASE b = a
          BY <2>2, <2>4, <2>6, <2>8, <3>1
    <3>2. CASE b # a
      <4>1. send'[b] = send[b]
            BY <1>0, <2>3, <3>2
      <4> QED BY <1>2, <2>9, <4>1
    <3> QED BY <3>1, <3>2
  <2> QED BY <2>9 DEF SendsAreTaken
<1> QED BY <1>3, <1>4, <1>5, SendSteps

\* An event that sets the status has still to come for the page.
Waits(c) == \E i \in (seen[c] + 1) .. Len(events[c]) : SetsStatus(events[c][i])

StatusFollows ==
    \A c \in Conversations \ (overtaken \cup skipped) : shown[c] = StatusAt(c, seen[c]) \/ Waits(c)

LEMMA StatusSteps ==
    ASSUME Typed, Next
    PROVE  \/ HandleEvent
           \/ \E a \in Sends : ApplySent(a) \/ FailSend(a)
           \/ overtaken' = Conversations
           \/ UNCHANGED <<shown, overtaken, seen>> /\ skipped \subseteq skipped'
<1> DEFINE Quiet == UNCHANGED <<shown, overtaken, seen>> /\ skipped \subseteq skipped'
<1>1. CASE AnswerFetch \/ FetchFails \/ ApplyFetch
  <2>1. Quiet
        BY <1>1 DEF AnswerFetch, FetchFails, ApplyFetch, history
  <2> QED BY <2>1
<1>2. CASE LoadStep \/ LoadWithout \/ LoadFails \/ Probe \/ StaleLoadEnds \/ RefreshHealth
  <2>1. Quiet
        BY <1>2 DEF LoadStep, LoadWithout, LoadFails, Probe, StaleLoadEnds, RefreshHealth, history
  <2> QED BY <2>1
<1>3. CASE ApplyLoad \/ Reload
  <2>1. overtaken' = Conversations
        BY <1>3 DEF ApplyLoad, Reload
  <2> QED BY <2>1
<1>4. CASE ChangeGate
  <2>1. Quiet
        BY <1>4 DEF ChangeGate, pageVars, history
  <2> QED BY <2>1
<1>5. ASSUME NEW c \in Conversations, SelectConversation(c) \/ NewConversation(c) \/ OtherTab(c) PROVE Quiet
  <2>1. CASE SelectConversation(c)
        BY <2>1 DEF SelectConversation, Follow
  <2>2. CASE NewConversation(c)
        BY <2>2 DEF NewConversation, history
  <2>3. CASE OtherTab(c)
        BY <2>3 DEF OtherTab, pageVars
  <2> QED BY <1>5, <2>1, <2>2, <2>3
<1>6. CASE RunEffects
  <2>1. Quiet
        BY <1>6 DEF RunEffects, Follow
  <2> QED BY <2>1
<1>7. ASSUME NEW a \in Sends, Send(a) \/ TakeSend(a) PROVE Quiet
      BY <1>7 DEF Send, TakeSend, pageVars, history
<1>8. ASSUME NEW op, NEW r, Click(op, r) PROVE Quiet
      BY <1>8 DEF Click, pageVars, history
<1>9. ASSUME NEW k \in clicks, TakeClick(k) \/ ApplyResolved(k) \/ LoseClick(k) PROVE Quiet
      BY <1>9 DEF TakeClick, ApplyResolved, LoseClick, pageVars, history
<1>10. ASSUME NEW r \in Runs, Work(r) PROVE Quiet
       BY <1>10 DEF Work, pageVars, history
<1> HIDE DEF Quiet
<1> QED BY <1>1, <1>2, <1>3, <1>4, <1>5, <1>6, <1>7, <1>8, <1>9, <1>10 DEF Next, Quiet

\* A status that was the latest stays so, or waits for its events.
LEMMA StatusKept ==
    ASSUME Typed, ServerOK, StreamIsSeen, Grows, ServerTypeOK', NEW c \in Conversations,
           shown[c] = StatusAt(c, seen[c]) \/ Waits(c),
           seen'[c] = seen[c], shown'[c] = shown[c]
    PROVE  (shown[c] = StatusAt(c, seen[c]) \/ Waits(c))'
<1>1. seen[c] \in Nat /\ Len(events[c]) \in Nat /\ seen[c] <= Len(events[c]) /\ Len(events'[c]) \in Nat
      BY DEF StreamIsSeen, Typed, HistoryTyped, ServerTypeOK
<1>2. StatusAt(c, seen[c])' = StatusAt(c, seen[c])
  <2> DEFINE n == seen[c]
  <2>1. ASSUME NEW k \in Nat, k <= Len(events[c]) PROVE StatusAt(c, k)' = StatusAt(c, k)
        BY <2>1, StatusStays
  <2>2. \A k \in Nat : k = seen'[c] /\ k = seen[c] => StatusAt(c, seen[c])' = StatusAt(c, k)'
        BY DEF StatusAt
  <2>3. \A k \in Nat : k = seen[c] => StatusAt(c, seen[c]) = StatusAt(c, k)
        OBVIOUS
  <2> QED BY <1>1, <2>1, <2>2, <2>3
<1>3. Waits(c) => Waits(c)'
  <2>1. ASSUME NEW i \in (seen[c] + 1) .. Len(events[c]), SetsStatus(events[c][i])
        PROVE  i \in (seen'[c] + 1) .. Len(events'[c]) /\ SetsStatus(events'[c][i])
    <3>1. i \in 1 .. Len(events[c])
          BY <1>1
    <3>2. events'[c][i] = events[c][i] /\ Len(events[c]) <= Len(events'[c])
          BY <3>1 DEF Grows
    <3> QED BY <1>1, <2>1, <3>2
  <2> QED BY <2>1 DEF Waits, SetsStatus
<1> QED BY <1>2, <1>3

\* The run of an answered prompt was queued somewhere in its conversation's events.
LEMMA QueuedIsEvent ==
    ASSUME NEW r, NEW c, conv[r] = c, events[c] \in Seq(Events), Tells(events[c], "run.queued", r)
    PROVE  QueuedAt(r) \in 1 .. Len(events[c]) /\ events[c][QueuedAt(r)] = Event("run.queued", r)
<1>1. DOMAIN events[c] = 1 .. Len(events[c])
      OBVIOUS
<1>2. \E i \in DOMAIN events[c] : events[c][i] = Event("run.queued", r)
      BY <1>1 DEF Tells, Says
<1> QED BY <1>1, <1>2 DEF QueuedAt

LEMMA StatusFollowsStep ==
    ASSUME Typed, ServerOK, StreamIsSeen, SendsAreTaken, StatusFollows, [Next]_vars
    PROVE  StatusFollows'
<1>0. /\ stored \in [Conversations -> Nat] /\ seen \in [Conversations -> Nat]
      /\ shown \in [Conversations -> Statuses \cup {"none"}]
      /\ \A c \in Conversations : events[c] \in Seq(Events) /\ Len(events[c]) \in Nat
      /\ position \in Nat
      /\ overtaken \subseteq Conversations /\ skipped \subseteq Conversations
      /\ NoConversation \notin Conversations
      BY ServerAssumption DEF Typed, HistoryTyped, StreamTyped, ShownTyped, ServerTypeOK
<1>1. Grows /\ ServerTypeOK'
      BY StepGrows, StepTyped DEF Typed
<1>2. ASSUME NEW c \in Conversations, c \notin overtaken, c \notin skipped,
             seen'[c] = seen[c], shown'[c] = shown[c]
      PROVE  (shown[c] = StatusAt(c, seen[c]) \/ Waits(c))'
      BY <1>1, <1>2, StatusKept DEF StatusFollows
<1>3. CASE UNCHANGED vars
  <2>1. UNCHANGED <<shown, overtaken, seen, skipped>>
        BY <1>3 DEF vars, pageVars, history
  <2> QED BY <1>2, <2>1 DEF StatusFollows
<1>4. CASE UNCHANGED <<shown, overtaken, seen>> /\ skipped \subseteq skipped'
      BY <1>2, <1>4 DEF StatusFollows
<1>5. CASE overtaken' = Conversations
      BY <1>5 DEF StatusFollows
<1>6. ASSUME NEW a \in Sends, FailSend(a) PROVE StatusFollows'
  <2>1. /\ shown' = [shown EXCEPT ![send[a].conv] = "failed"]
        /\ overtaken' = overtaken \cup {send[a].conv} /\ UNCHANGED <<seen, skipped>>
        BY <1>6 DEF FailSend
  <2>2. \A c \in Conversations : c \notin overtaken' => c \notin overtaken /\ shown'[c] = shown[c]
        BY <1>0, <2>1
  <2> QED BY <1>2, <2>1, <2>2 DEF StatusFollows
<1>7. ASSUME NEW a \in Sends, ApplySent(a) PROVE StatusFollows'
  <2>0. PICK c \in Conversations, r \in Runs : c = send[a].conv /\ r = send[a].run
        BY <1>7 DEF ApplySent, SendsAreTaken
  <2>1. /\ shown' = [shown EXCEPT ![c] = "queued"]
        /\ overtaken' = IF Place(c, stream, position, stored) >= QueuedAt(r)
                        THEN overtaken \cup {c} ELSE overtaken
        /\ UNCHANGED <<seen, skipped, events, conv>>
        BY <1>7, <2>0 DEF ApplySent, serverVars
  <2>2. c \in Conversations /\ r \in Runs /\ conv[r] = c /\ Tells(events[c], "run.queued", r)
        BY <1>7, <2>0 DEF ApplySent, SendsAreTaken
  <2>3. QueuedAt(r) \in 1 .. Len(events[c]) /\ events[c][QueuedAt(r)] = Event("run.queued", r)
        BY <1>0, <2>2, QueuedIsEvent
  <2>4. ASSUME c \notin overtaken', c \notin skipped PROVE Waits(c)'
    <3>1. Place(c, stream, position, stored) < QueuedAt(r)
          BY <1>0, <2>1, <2>2, <2>3, <2>4 DEF Place
    <3>2. seen[c] <= Place(c, stream, position, stored)
          BY <1>0, <2>2, <2>4 DEF StreamIsSeen, Place
    <3>3. Place(c, stream, position, stored) \in Nat
          BY <1>0, <2>2 DEF Place
    <3>4. QueuedAt(r) \in (seen[c] + 1) .. Len(events[c])
          BY <1>0, <2>2, <2>3, <3>1, <3>2, <3>3
    <3>5. SetsStatus(events[c][QueuedAt(r)])
          BY <2>3, EventsDiffer DEF SetsStatus
    <3>6. \E i \in (seen'[c] + 1) .. Len(events'[c]) : SetsStatus(events'[c][i])
          BY <2>1, <3>4, <3>5
    <3> QED BY <3>6 DEF Waits, SetsStatus
  <2>5. ASSUME NEW d \in Conversations, d \notin overtaken', d \notin skipped'
        PROVE  (shown[d] = StatusAt(d, seen[d]) \/ Waits(d))'
    <3>1. CASE d = c
      <4>1. Waits(c)'
            BY <2>1, <2>4, <2>5, <3>1
      <4> QED BY <3>1, <4>1
    <3>2. CASE d # c
      <4>1. d \notin overtaken /\ d \notin skipped /\ shown'[d] = shown[d] /\ seen'[d] = seen[d]
            BY <1>0, <2>1, <2>5, <3>2
      <4> QED BY <1>2, <4>1
    <3> QED BY <3>1, <3>2
  <2> QED BY <2>5 DEF StatusFollows
<1>8. CASE HandleEvent
  <2>0. PICK c \in Conversations : c = stream
        BY <1>8 DEF HandleEvent, Typed, StreamTyped
  <2> DEFINE e == events[c][position + 1]
  <2>1. /\ c \in Conversations /\ position + 1 \in 1 .. Len(events[c])
        /\ seen' = [seen EXCEPT ![c] = position + 1]
        /\ skipped' = IF active # c THEN skipped \cup ({c, active} \ {NoConversation}) ELSE skipped
        /\ UNCHANGED <<events, status>>
        BY <1>8, <2>0, EventHandled DEF serverVars
  <2>2. /\ shown' = IF active = NoConversation THEN shown
                    ELSE [shown EXCEPT ![active] = StatusAfter(e, shown[active])]
        /\ overtaken' = IF SetsStatus(e) /\ ~(active # c) THEN overtaken \ {c} ELSE overtaken
        BY <1>8, <2>0 DEF HandleEvent
  <2>3. ASSUME c \notin overtaken', c \notin skipped' PROVE (shown[c] = StatusAt(c, seen[c]) \/ Waits(c))'
    <3>1. active = c /\ c \notin skipped /\ seen[c] = position /\ seen'[c] = position + 1
          BY <1>0, <2>0, <2>1, <2>3 DEF StreamIsSeen
    <3>2. shown'[c] = StatusAfter(e, shown[c])
          BY <1>0, <2>1, <2>2, <3>1
    <3>3. StatusAt(c, seen[c])' = StatusAt(c, position + 1)
      <4>1. ASSUME NEW k \in Nat, k = position + 1 PROVE StatusAt(c, k)' = StatusAt(c, k)
        <5>1. k <= Len(events[c])
              BY <1>0, <2>1, <4>1
        <5> QED BY <1>1, <5>1, StatusStays
      <4>2. \A k \in Nat : k = seen'[c] => StatusAt(c, seen[c])' = StatusAt(c, k)'
            BY DEF StatusAt
      <4>3. \A k \in Nat : k = position + 1 => StatusAt(c, position + 1) = StatusAt(c, k)
            OBVIOUS
      <4> QED BY <1>0, <3>1, <4>1, <4>2, <4>3
    <3>4. CASE SetsStatus(e)
      <4>1. StatusAt(c, position + 1) = StatusAfter(e, shown[c])
            BY <1>0, <3>4, StatusAtNext
      <4> QED BY <3>2, <3>3, <4>1
    <3>5. CASE ~SetsStatus(e)
      <4>1. StatusAt(c, position + 1) = StatusAt(c, position) /\ StatusAfter(e, shown[c]) = shown[c]
            BY <1>0, <3>5, StatusAtNext, ShowsIsStatusAfter
      <4>2. shown[c] = StatusAt(c, position) \/ Waits(c)
            BY <2>1, <2>2, <2>3, <3>1, <3>5 DEF StatusFollows
      <4>3. CASE shown[c] = StatusAt(c, position)
            BY <3>2, <3>3, <4>1, <4>3
      <4>4. CASE Waits(c)
        <5>1. PICK i \in (position + 1) .. Len(events[c]) : SetsStatus(events[c][i])
              BY <3>1, <4>4 DEF Waits
        <5>2. i # position + 1
              BY <3>5, <5>1
        <5>3. i \in (seen'[c] + 1) .. Len(events'[c]) /\ SetsStatus(events'[c][i])
              BY <1>0, <2>1, <3>1, <5>1, <5>2
        <5>4. Waits(c)'
              BY <5>3 DEF Waits, SetsStatus
        <5> QED BY <5>4
      <4> QED BY <4>2, <4>3, <4>4
    <3> QED BY <3>4, <3>5
  <2> HIDE DEF e
  <2>4. ASSUME NEW d \in Conversations, d \notin overtaken', d \notin skipped'
        PROVE  (shown[d] = StatusAt(d, seen[d]) \/ Waits(d))'
    <3>1. CASE d = c
          BY <2>3, <2>4, <3>1
    <3>2. CASE d # c
      <4>1. d \notin overtaken /\ d \notin skipped /\ shown'[d] = shown[d] /\ seen'[d] = seen[d]
            BY <1>0, <2>1, <2>2, <2>4, <3>2
      <4> QED BY <1>2, <4>1
    <3> QED BY <3>1, <3>2
  <2> QED BY <2>4 DEF StatusFollows
<1> QED BY <1>3, <1>4, <1>5, <1>6, <1>7, <1>8, StatusSteps

\* The shown status follows the events, and answered prompts name runs that were queued.
LEMMA StatusFollowsAlways == Spec => [](SendsAreTaken /\ StatusFollows)
<1>1. Init => SendsAreTaken /\ StatusFollows
  <2> SUFFICES ASSUME Init PROVE SendsAreTaken /\ StatusFollows
      OBVIOUS
  <2>1. SendsAreTaken
        BY DEF Init, NoSend, SendsAreTaken
  <2>2. ASSUME NEW c \in Conversations PROVE shown[c] = StatusAt(c, seen[c])
    <3>1. shown[c] = "none" /\ seen[c] = 0
          BY DEF Init
    <3>2. StatusAt(c, 0) = "none"
      <4>1. Told(events[c], 0) = {}
            BY DEF Told
      <4> QED BY <4>1, StatusAtIsLast
    <3> QED BY <3>1, <3>2
  <2> QED BY <2>1, <2>2 DEF StatusFollows
<1>2. Typed /\ ServerOK /\ StreamIsSeen /\ (SendsAreTaken /\ StatusFollows) /\ [Next]_vars
      => (SendsAreTaken /\ StatusFollows)'
      BY SendsAreTakenStep, StatusFollowsStep
<1> QED BY <1>1, <1>2, TypedAlways, ServerOKAlways, FollowsAlways, PTL DEF Spec

(***************************************************************************)
(* A page that is up to date shows the status that the last event told     *)
(* (StatusIsLatest), unless something else overtook the events: a shown    *)
(* status is the one told by the events handled so far, or one that sets   *)
(* it has still to be handled.                                             *)
(***************************************************************************)
THEOREM StatusIsLatestAlways == Spec => []StatusIsLatest
<1>1. Typed /\ StreamIsSeen /\ StatusFollows => StatusIsLatest
  <2> SUFFICES ASSUME Typed, StreamIsSeen, StatusFollows,
                      NEW c \in Conversations \ overtaken, CaughtUp(c)
               PROVE  shown[c] = StatusAt(c, Len(events[c]))
      BY DEF StatusIsLatest
  <2>1. c \notin skipped /\ seen[c] = Len(events[c]) /\ Len(events[c]) \in Nat
        BY DEF CaughtUp, StreamIsSeen, Typed, ServerTypeOK
  <2>2. ~Waits(c)
        BY <2>1 DEF Waits
  <2> QED BY <2>1, <2>2 DEF StatusFollows
<1> QED BY <1>1, TypedAlways, FollowsAlways, StatusFollowsAlways, PTL

-----------------------------------------------------------------------------
(* What becomes of the messages, one by one. *)

LEMMA AppendShape ==
    ASSUME NEW ms \in Seq(Messages), NEW m \in Messages
    PROVE  /\ DOMAIN Append(ms, m) = 1 .. (Len(ms) + 1) /\ DOMAIN ms = 1 .. Len(ms) /\ Len(ms) \in Nat
           /\ \A i \in DOMAIN ms : Append(ms, m)[i] = ms[i]
           /\ Append(ms, m)[Len(ms) + 1] = m
OBVIOUS

\* A message of a reply gets the chunk and the card, the others stay; or the reply is added.
LEMMA UpsertShape ==
    ASSUME NEW ms \in Seq(Messages), NEW r \in Runs, NEW n \in Nat, NEW k \in Cards
    PROVE  LET new == Upsert(ms, r, n, k)
               m == Message(<<"reply", r>>, NoRun, n, k)
           IN  \/ /\ Has(ms, <<"reply", r>>)
                  /\ DOMAIN new = DOMAIN ms
                  /\ \A i \in DOMAIN ms :
                        /\ ms[i].id # <<"reply", r>> => new[i] = ms[i]
                        /\ ms[i].id = <<"reply", r>> =>
                              /\ new[i].id = ms[i].id
                              /\ new[i].text = ms[i].text + n
                              /\ new[i].card = IF k = "none" THEN ms[i].card ELSE k
               \/ ~Has(ms, <<"reply", r>>) /\ new = Append(ms, m) /\ m \in Messages
<1> DEFINE upd == [i \in DOMAIN ms |->
            IF ms[i].id = <<"reply", r>>
            THEN [ms[i] EXCEPT !.text = @ + n, !.card = IF k = "none" THEN @ ELSE k]
            ELSE ms[i]]
<1>1. CASE Has(ms, <<"reply", r>>)
  <2>1. Upsert(ms, r, n, k) = upd
        BY <1>1 DEF Upsert
  <2>2. ASSUME NEW i \in DOMAIN ms, ms[i].id = <<"reply", r>>
        PROVE  /\ upd[i].id = ms[i].id
               /\ upd[i].text = ms[i].text + n
               /\ upd[i].card = IF k = "none" THEN ms[i].card ELSE k
    <3>1. ms[i] \in Messages
          OBVIOUS
    <3>2. upd[i] = [ms[i] EXCEPT !.text = ms[i].text + n, !.card = IF k = "none" THEN ms[i].card ELSE k]
          BY <2>2
    <3> QED BY <3>1, <3>2 DEF Messages
  <2>3. \A i \in DOMAIN ms : ms[i].id # <<"reply", r>> => upd[i] = ms[i]
        OBVIOUS
  <2>4. DOMAIN upd = DOMAIN ms
        OBVIOUS
  <2> HIDE DEF upd
  <2> QED BY <1>1, <2>1, <2>2, <2>3, <2>4
<1>2. CASE ~Has(ms, <<"reply", r>>)
      BY <1>2, MessageIsMessage DEF Upsert
<1> QED BY <1>1, <1>2

\* An event gives its run's reply a chunk or a card, which it has afterwards, or leaves it.
LEMMA AfterShape ==
    ASSUME NEW ms \in Seq(Messages), NEW e \in Events
    PROVE  LET new == MessagesAfter(e, ms)
               id == <<"reply", e.run>>
               chunk == IF e.type = "message.delta" THEN 1 ELSE 0
           IN  \/ /\ DOMAIN new = DOMAIN ms
                  /\ \A i \in DOMAIN ms :
                        /\ ms[i].id # id => new[i] = ms[i]
                        /\ ms[i].id = id =>
                              /\ new[i].id = ms[i].id
                              /\ new[i].text = ms[i].text + chunk
                              /\ new[i].card = "running" =>
                                    (ms[i].card = "running" \/ e.type = "tool.started")
                              /\ e.type = "tool.finished" => new[i].card # "running"
                  /\ e.type \in {"message.delta", "tool.started"} => Has(ms, id)
               \/ \E m \in Messages :
                    /\ ~Has(ms, id) /\ new = Append(ms, m) /\ m.id = id /\ m.text = chunk
                    /\ e.type \in {"message.delta", "tool.started"}
                    /\ m.card = "running" => e.type = "tool.started"
<1> DEFINE r == e.run
           upd == [i \in DOMAIN ms |-> IF ms[i].id = <<"reply", r>> /\ ms[i].card # "none"
                                THEN [ms[i] EXCEPT !.card = "ended"] ELSE ms[i]]
<1>0. r \in Runs /\ 0 \in Nat /\ 1 \in Nat /\ "none" \in Cards /\ "running" \in Cards /\ "ended" \in Cards
      BY TypeNames DEF Events
<1>00. \A i \in DOMAIN ms : ms[i] \in Messages /\ ms[i].text \in Nat
       BY MessageFields
<1>1. CASE e.type = "message.delta"
  <2>1. MessagesAfter(e, ms) = Upsert(ms, r, 1, "none")
        BY <1>1 DEF MessagesAfter, AppendDelta
  <2>2. Message(<<"reply", r>>, NoRun, 1, "none").id = <<"reply", r>>
        /\ Message(<<"reply", r>>, NoRun, 1, "none").text = 1
        /\ Message(<<"reply", r>>, NoRun, 1, "none").card = "none"
        BY DEF Message
  <2> HIDE DEF r
  <2>3. CASE Has(ms, <<"reply", r>>)
        BY <1>0, <1>1, <2>1, <2>3, UpsertShape DEF r
  <2>4. CASE ~Has(ms, <<"reply", r>>)
        BY <1>0, <1>1, <2>1, <2>2, <2>4, UpsertShape DEF r
  <2> QED BY <2>3, <2>4
<1>2. CASE e.type = "tool.started"
  <2>1. MessagesAfter(e, ms) = Upsert(ms, r, 0, "running")
        BY <1>2 DEF MessagesAfter, ShowTool
  <2>2. Message(<<"reply", r>>, NoRun, 0, "running").id = <<"reply", r>>
        /\ Message(<<"reply", r>>, NoRun, 0, "running").text = 0
        BY DEF Message
  <2> HIDE DEF r
  <2>3. CASE Has(ms, <<"reply", r>>)
        BY <1>0, <1>00, <1>2, <2>1, <2>3, UpsertShape DEF r
  <2>4. CASE ~Has(ms, <<"reply", r>>)
        BY <1>0, <1>2, <2>1, <2>2, <2>4, UpsertShape DEF r
  <2> QED BY <2>3, <2>4
<1>3. CASE e.type = "tool.finished"
  <2>1. MessagesAfter(e, ms) = upd /\ DOMAIN upd = DOMAIN ms
        BY <1>3 DEF MessagesAfter
  <2>2. \A i \in DOMAIN ms : ms[i].id # <<"reply", r>> => upd[i] = ms[i]
        OBVIOUS
  <2>3. ASSUME NEW i \in DOMAIN ms, ms[i].id = <<"reply", r>>
        PROVE  upd[i].id = ms[i].id /\ upd[i].text = ms[i].text /\ upd[i].card # "running"
    <3>1. CASE ms[i].card # "none"
      <4>1. upd[i] = [ms[i] EXCEPT !.card = "ended"]
            BY <2>3, <3>1
      <4> QED BY <1>00, <4>1 DEF Messages
    <3>2. CASE ms[i].card = "none"
          BY <3>2
    <3> QED BY <3>1, <3>2
  <2> HIDE DEF upd
  <2> QED BY <1>00, <1>3, <2>1, <2>2, <2>3
<1>4. CASE e.type \notin {"message.delta", "tool.started", "tool.finished"}
  <2>1. MessagesAfter(e, ms) = ms
        BY <1>4 DEF MessagesAfter
  <2> QED BY <1>00, <1>4, <2>1
<1> QED BY <1>1, <1>2, <1>3, <1>4

LEMMA RenameShape ==
    ASSUME NEW ms \in Seq(Messages), NEW a \in Sends, NEW r \in Runs
    PROVE  /\ DOMAIN Rename(ms, a, r) = DOMAIN ms
           /\ \A i \in DOMAIN ms :
                /\ ms[i].id # <<"temp", a>> => Rename(ms, a, r)[i] = ms[i]
                /\ ms[i].id = <<"temp", a>> =>
                      /\ Rename(ms, a, r)[i].id = <<"prompt", r>>
                      /\ Rename(ms, a, r)[i].card = ms[i].card
<1>1. ASSUME NEW i \in DOMAIN ms, ms[i].id = <<"temp", a>>
      PROVE  /\ Rename(ms, a, r)[i].id = <<"prompt", r>>
             /\ Rename(ms, a, r)[i].card = ms[i].card
  <2>1. ms[i] \in Messages /\ Rename(ms, a, r)[i] = [ms[i] EXCEPT !.id = <<"prompt", r>>, !.run = r]
        BY <1>1 DEF Rename
  <2> QED BY <2>1 DEF Messages
<1>2. DOMAIN Rename(ms, a, r) = DOMAIN ms
      BY DEF Rename
<1>3. \A i \in DOMAIN ms : ms[i].id # <<"temp", a>> => Rename(ms, a, r)[i] = ms[i]
      BY DEF Rename
<1> QED BY <1>1, <1>2, <1>3

\* A merged message is a fetched one, with its card or the page's, or one of the page's that was not fetched.
LEMMA MergeShape ==
    ASSUME NEW current \in Seq(Messages), NEW fetched \in Seq(Messages)
    PROVE  LET new == MergeFetched(current, fetched)
               at(k) == Nth(Kept(current, fetched), k - Len(fetched))
           IN  /\ \A k \in DOMAIN new :
                    \/ /\ k \in DOMAIN fetched
                       /\ new[k].id = fetched[k].id
                       /\ \/ new[k].card = fetched[k].card
                          \/ \E j \in DOMAIN current : /\ current[j].id = fetched[k].id
                                                       /\ new[k].card = current[j].card
                    \/ /\ k \notin DOMAIN fetched
                       /\ at(k) \in DOMAIN current
                       /\ ~Has(fetched, current[at(k)].id)
                       /\ new[k] = current[at(k)]
               /\ \A k, l \in DOMAIN new :
                    k \notin DOMAIN fetched /\ l \notin DOMAIN fetched /\ at(k) = at(l) => k = l
<1> DEFINE new == MergeFetched(current, fetched)
           at(k) == Nth(Kept(current, fetched), k - Len(fetched))
           F == Front(current, fetched)
           R == Rest(current, fetched)
<1>1. new = F \o R
      BY MergeSplits
<1>2. /\ F \in Seq(Messages) /\ R \in Seq(Messages) /\ Len(F) = Len(fetched)
      /\ DOMAIN fetched = 1 .. Len(fetched) /\ Len(fetched) \in Nat
      /\ DOMAIN R = 1 .. Len(R) /\ Len(R) \in Nat
      BY FrontType, RestType
<1>3. /\ F \o R \in Seq(Messages) /\ Len(F \o R) = Len(F) + Len(R)
      /\ \A i \in 1 .. Len(F) : (F \o R)[i] = F[i]
      /\ \A i \in (Len(F) + 1) .. (Len(F) + Len(R)) : (F \o R)[i] = R[i - Len(F)]
  <2> HIDE DEF F, R
  <2> QED BY <1>2, JoinedSeq
<1>4. DOMAIN new = 1 .. (Len(fetched) + Len(R))
  <2> HIDE DEF F, R, new
  <2> QED BY <1>1, <1>2, <1>3
<1>5. ASSUME NEW k \in DOMAIN new, k \in DOMAIN fetched
      PROVE  /\ new[k].id = fetched[k].id
             /\ \/ new[k].card = fetched[k].card
                \/ \E j \in DOMAIN current : /\ current[j].id = fetched[k].id
                                             /\ new[k].card = current[j].card
  <2>1. new[k] = F[k]
    <3> HIDE DEF F, R, new
    <3> QED BY <1>1, <1>2, <1>3, <1>5
  <2> HIDE DEF new
  <2> QED BY <1>5, <2>1, FrontType
<1>6. ASSUME NEW k \in DOMAIN new, k \notin DOMAIN fetched
      PROVE  k - Len(fetched) \in DOMAIN R /\ new[k] = R[k - Len(fetched)]
  <2> HIDE DEF F, R, new
  <2> QED BY <1>1, <1>2, <1>3, <1>4, <1>6
<1>7. ASSUME NEW k \in DOMAIN new, k \notin DOMAIN fetched
      PROVE  at(k) \in DOMAIN current /\ ~Has(fetched, current[at(k)].id) /\ new[k] = current[at(k)]
  <2>1. k - Len(fetched) \in DOMAIN R /\ new[k] = R[k - Len(fetched)]
        BY <1>6, <1>7
  <2> HIDE DEF new
  <2> QED BY <2>1, RestType
<1>8. ASSUME NEW k \in DOMAIN new, NEW l \in DOMAIN new, k \notin DOMAIN fetched, l \notin DOMAIN fetched,
             at(k) = at(l)
      PROVE  k = l
  <2>1. k - Len(fetched) = l - Len(fetched)
    <3>1. k - Len(fetched) \in DOMAIN R /\ l - Len(fetched) \in DOMAIN R
          BY <1>6, <1>8
    <3> QED BY <1>8, <3>1, RestType
  <2>2. k \in Nat /\ l \in Nat
    <3> HIDE DEF new, R
    <3> QED BY <1>2, <1>4
  <2> QED BY <1>2, <2>1, <2>2
<1> HIDE DEF new, at
<1> QED BY <1>5, <1>7, <1>8 DEF new, at

\* A longer text leaves the rest of a row as it is.
LEMMA LongerShape ==
    ASSUME NEW ms \in Seq(Messages), NEW r
    PROVE  /\ DOMAIN Longer(ms, r) = DOMAIN ms
           /\ \A i \in DOMAIN ms : Longer(ms, r)[i].id = ms[i].id /\ Longer(ms, r)[i].card = ms[i].card
<1>1. ASSUME NEW i \in DOMAIN ms
      PROVE  Longer(ms, r)[i].id = ms[i].id /\ Longer(ms, r)[i].card = ms[i].card
  <2>1. ms[i] \in Messages
        OBVIOUS
  <2>2. Longer(ms, r)[i] = ms[i] \/ Longer(ms, r)[i] = [ms[i] EXCEPT !.text = ms[i].text + 1]
        BY DEF Longer
  <2> QED BY <2>1, <2>2 DEF Messages
<1>2. DOMAIN Longer(ms, r) = DOMAIN ms
      BY DEF Longer
<1> QED BY <1>1, <1>2

-----------------------------------------------------------------------------
(* What becomes of the rows and of what was read of them. *)

LEMMA RowSteps ==
    ASSUME ServerTypeOK, ServerStep, NEW c \in Conversations
    PROVE  \/ rows'[c] = rows[c]
           \/ \E r \in Runs : /\ Accept(r, c)
                              /\ rows'[c] = Append(rows[c], Message(<<"prompt", r>>, r, 0, "none"))
           \/ \E r \in Runs : /\ StartRun(r) /\ conv[r] = c
                              /\ rows'[c] = Append(rows[c], Message(<<"reply", r>>, r, 0, "none"))
           \/ \E r \in Runs : /\ StoreChunk(r) /\ conv[r] = c
                              /\ rows'[c] = Longer(rows[c], r)
<1>0. rows \in [Conversations -> Seq(Messages)]
      BY DEF ServerTypeOK
<1>1. ASSUME NEW r \in Runs, NEW d \in Conversations, Accept(r, d)
      PROVE  \/ rows'[c] = rows[c]
             \/ /\ Accept(r, c)
                /\ rows'[c] = Append(rows[c], Message(<<"prompt", r>>, r, 0, "none"))
  <2> DEFINE m == Message(<<"prompt", r>>, r, 0, "none")
  <2>1. rows' = [rows EXCEPT ![d] = Append(rows[d], m)]
        BY <1>1 DEF Accept
  <2> HIDE DEF m
  <2>2. CASE d = c
    <3>1. Accept(r, c)
          BY <1>1, <2>2
    <3>2. rows'[c] = Append(rows[c], m)
          BY <1>0, <2>1, <2>2
    <3> QED BY <3>1, <3>2 DEF m
  <2>3. CASE d # c
        BY <1>0, <2>1, <2>3
  <2> QED BY <2>2, <2>3
<1>2. ASSUME NEW old \in Runs, NEW r \in Runs, AcceptRetry(old, r) PROVE rows'[c] = rows[c]
      BY <1>2 DEF AcceptRetry
<1>3. ASSUME NEW r \in Runs, StartRun(r)
      PROVE  \/ rows'[c] = rows[c]
             \/ /\ conv[r] = c
                /\ rows'[c] = Append(rows[c], Message(<<"reply", r>>, r, 0, "none"))
  <2> DEFINE m == Message(<<"reply", r>>, r, 0, "none")
             d == conv[r]
  <2>1. rows' = [rows EXCEPT ![d] = Append(rows[d], m)]
        BY <1>3 DEF StartRun
  <2> HIDE DEF m
  <2> QED BY <1>0, <2>1 DEF m
<1>4. ASSUME NEW r \in Runs, StoreChunk(r)
      PROVE  rows'[c] = rows[c] \/ (conv[r] = c /\ rows'[c] = Longer(rows[c], r))
  <2>1. rows' = [rows EXCEPT ![conv[r]] = Longer(rows[conv[r]], r)]
        BY <1>4 DEF StoreChunk
  <2> QED BY <1>0, <2>1
<1>5. ASSUME NEW r \in Runs,
             AskApproval(r) \/ AnnounceChunk(r) \/ EndRun(r) \/ AcceptAnswer(r) \/ AcceptCancel(r)
      PROVE  rows'[c] = rows[c]
      BY <1>5 DEF AskApproval, AnnounceChunk, EndRun, AcceptAnswer, AcceptCancel
<1> QED BY <1>1, <1>2, <1>3, <1>4, <1>5 DEF ServerStep, RunStep

\* A load and a fetch hold nothing, what they held, or what the rows of a conversation are.
LEMMA ReadSteps ==
    ASSUME Typed, Next
    PROVE  /\ \/ load'.rows = load.rows \/ load'.rows = <<>>
              \/ \E c \in Conversations : load'.rows = rows[c]
           /\ \/ fetch'.rows = fetch.rows \/ fetch'.rows = <<>>
              \/ \E c \in Conversations : fetch'.rows = rows[c]
<1>0. /\ load \in Loads /\ fetch \in Fetches
      /\ fetch.step # "none" => fetch.conv \in Conversations
      BY DEF Typed, StreamTyped
<1>1. /\ NoLoad.rows = <<>> /\ [NoLoad EXCEPT !.step = "health"].rows = <<>>
      /\ NoFetch.rows = <<>>
      /\ \A c : [NoFetch EXCEPT !.step = "out", !.conv = c].rows = <<>>
      BY DEF NoLoad, NoFetch
<1>2. ASSUME NEW c, Follow(c) PROVE fetch'.rows = <<>>
      BY <1>1, <1>2 DEF Follow
<1>3. CASE HandleEvent
      BY <1>3 DEF HandleEvent
<1>4. CASE RunEffects
      BY <1>2, <1>4 DEF RunEffects
<1>5. CASE AnswerFetch
  <2>1. fetch' = [fetch EXCEPT !.step = "back", !.rows = rows[fetch.conv]] /\ load' = load
        /\ fetch.conv \in Conversations
        BY <1>0, <1>5 DEF AnswerFetch
  <2>2. fetch'.rows = rows[fetch.conv]
        BY <1>0, <2>1 DEF Fetches
  <2> QED BY <2>1, <2>2
<1>6. CASE FetchFails \/ ApplyFetch
      BY <1>1, <1>6 DEF FetchFails, ApplyFetch
<1>7. CASE LoadStep
  <2>0. fetch' = fetch
        BY <1>7 DEF LoadStep
  <2>1. CASE load' = [load EXCEPT !.step = "lists"]
        BY <1>0, <2>0, <2>1 DEF Loads
  <2>2. ASSUME NEW c, load' = [load EXCEPT !.step = "messages", !.first = c]
        PROVE  load'.rows = load.rows
        BY <1>0, <2>2 DEF Loads
  <2>3. CASE load' = [load EXCEPT !.step = "apply",
                                  !.rows = IF load.first = NoConversation THEN <<>>
                                           ELSE rows[load.first]]
    <3>1. load.first = NoConversation \/ load.first \in Conversations
          BY <1>0 DEF Loads
    <3>2. load'.rows = IF load.first = NoConversation THEN <<>> ELSE rows[load.first]
          BY <1>0, <2>3 DEF Loads
    <3> QED BY <2>0, <3>1, <3>2
  <2> QED BY <1>7, <2>0, <2>1, <2>2, <2>3 DEF LoadStep
<1>8. CASE LoadWithout
  <2>1. load'.rows = load.rows /\ fetch' = fetch
        BY <1>0, <1>8 DEF LoadWithout, Loads
  <2> QED BY <2>1
<1>9. CASE LoadFails \/ ApplyLoad \/ Probe \/ StaleLoadEnds \/ RefreshHealth
      BY <1>1, <1>9 DEF LoadFails, ApplyLoad, Probe, BeginLoad, StaleLoadEnds, RefreshHealth
<1>10. CASE ChangeGate \/ Reload
       BY <1>1, <1>10 DEF ChangeGate, Reload, pageVars
<1>11. ASSUME NEW c \in Conversations, SelectConversation(c) PROVE load' = load /\ fetch'.rows = <<>>
       BY <1>2, <1>11 DEF SelectConversation
<1>12. ASSUME NEW c \in Conversations, NewConversation(c) \/ OtherTab(c) PROVE load' = load /\ fetch' = fetch
       BY <1>12 DEF NewConversation, OtherTab, pageVars
<1>13. ASSUME NEW a \in Sends, Send(a) \/ TakeSend(a) \/ ApplySent(a) \/ FailSend(a)
       PROVE  load' = load /\ fetch' = fetch
       BY <1>13 DEF Send, TakeSend, ApplySent, FailSend, pageVars
<1>14. ASSUME NEW op, NEW r, Click(op, r) PROVE load' = load /\ fetch' = fetch
       BY <1>14 DEF Click, pageVars
<1>15. ASSUME NEW k \in clicks, TakeClick(k) \/ ApplyResolved(k) \/ LoseClick(k)
       PROVE  load' = load /\ fetch' = fetch
       BY <1>15 DEF TakeClick, ApplyResolved, LoseClick, pageVars
<1>16. ASSUME NEW r \in Runs, Work(r) PROVE load' = load /\ fetch' = fetch
       BY <1>16 DEF Work, pageVars
<1> QED BY <1>3, <1>4, <1>5, <1>6, <1>7, <1>8, <1>9, <1>10, <1>11, <1>12, <1>13, <1>14, <1>15, <1>16 DEF Next

\* The steps of a page by what they do to its messages.
LEMMA MessageSteps ==
    ASSUME Typed, Next
    PROVE  \/ HandleEvent
           \/ Reload
           \/ /\ UNCHANGED <<serverVars, seen, skipped>>
              /\ \/ ApplyFetch
                 \/ ApplyLoad
                 \/ \E a \in Sends : Send(a) \/ ApplySent(a)
           \/ UNCHANGED <<messages, seen>> /\ skipped \subseteq skipped'
<1> DEFINE Quiet == UNCHANGED <<messages, seen>> /\ skipped \subseteq skipped'
<1>1. CASE RunEffects \/ AnswerFetch \/ FetchFails
  <2>1. Quiet
        BY <1>1 DEF RunEffects, Follow, AnswerFetch, FetchFails, history
  <2> QED BY <2>1
<1>2. CASE LoadStep \/ LoadWithout \/ LoadFails \/ Probe \/ StaleLoadEnds \/ RefreshHealth
  <2>1. Quiet
        BY <1>2 DEF LoadStep, LoadWithout, LoadFails, Probe, StaleLoadEnds, RefreshHealth, history
  <2> QED BY <2>1
<1>3. ASSUME NEW c \in Conversations, SelectConversation(c) \/ NewConversation(c) \/ OtherTab(c)
      PROVE  Quiet
      BY <1>3 DEF SelectConversation, Follow, NewConversation, OtherTab, pageVars, history
<1>4. ASSUME NEW a \in Sends, TakeSend(a) \/ FailSend(a) PROVE Quiet
      BY <1>4 DEF TakeSend, FailSend, pageVars, history
<1>5. ASSUME NEW op, NEW r, Click(op, r) PROVE Quiet
      BY <1>5 DEF Click, pageVars, history
<1>6. ASSUME NEW k \in clicks, TakeClick(k) \/ ApplyResolved(k) \/ LoseClick(k) PROVE Quiet
      BY <1>6 DEF TakeClick, ApplyResolved, LoseClick, pageVars, history
<1>7. ASSUME NEW r \in Runs, Work(r) PROVE Quiet
      BY <1>7 DEF Work, pageVars, history
<1>8. CASE ChangeGate
  <2>1. Quiet
        BY <1>8 DEF ChangeGate, pageVars, history
  <2> QED BY <2>1
<1>9. CASE ApplyFetch \/ ApplyLoad
      BY <1>9 DEF ApplyFetch, ApplyLoad
<1>10. ASSUME NEW a \in Sends, Send(a) \/ ApplySent(a)
       PROVE  UNCHANGED <<serverVars, seen, skipped>>
       BY <1>10 DEF Send, ApplySent, history
<1> HIDE DEF Quiet
<1> QED BY <1>1, <1>2, <1>3, <1>4, <1>5, <1>6, <1>7, <1>8, <1>9, <1>10 DEF Next, Quiet

-----------------------------------------------------------------------------
(* The tool calls a page shows as running. *)

\* The events handled for a conversation say that r's tool call began, not that it ended.
Called(c, r) ==
    /\ conv[r] = c
    /\ Says(events[c], seen[c], "tool.started", r)
    /\ ~Says(events[c], seen[c], "tool.finished", r)
CardsTrue(c) ==
    \A i \in DOMAIN messages[c] : messages[c][i].card = "running" =>
        \E r \in Runs : messages[c][i].id = <<"reply", r>> /\ Called(c, r)
Blank(ms) == \A i \in DOMAIN ms : ms[i].card = "none"
CardsSettle ==
    /\ \A c \in Conversations \ skipped : CardsTrue(c)
    /\ \A c \in Conversations : Blank(rows[c])
    /\ Blank(load.rows) /\ Blank(fetch.rows)

LEMMA NothingIsBlank == Blank(<<>>)
BY DEF Blank

LEMMA CardsSettleInit == Init => CardsSettle
<1> SUFFICES ASSUME Init PROVE CardsSettle
    OBVIOUS
<1>1. \A c \in Conversations : rows[c] = <<>> /\ messages[c] = <<>>
      BY DEF Init, ServerInit
<1>2. load.rows = <<>> /\ fetch.rows = <<>>
      BY DEF Init, NoLoad, NoFetch
<1> QED BY <1>1, <1>2 DEF CardsSettle, CardsTrue, Blank

\* The rows of the backend have no cards, nor has what was read of them.
LEMMA RowsStayBlank ==
    ASSUME Typed, CardsSettle, [Next]_vars
    PROVE  (\A c \in Conversations : Blank(rows'[c])) /\ Blank(load'.rows) /\ Blank(fetch'.rows)
<1>0. ServerTypeOK /\ rows \in [Conversations -> Seq(Messages)]
      BY DEF Typed, ServerTypeOK
<1>1. CASE UNCHANGED vars
      BY <1>1 DEF vars, serverVars, pageVars, CardsSettle
<1>2. CASE Next
  <2>1. ASSUME NEW c \in Conversations PROVE Blank(rows'[c])
    <3>0. Blank(rows[c]) /\ rows[c] \in Seq(Messages)
          BY <1>0 DEF CardsSettle
    <3>1. CASE rows'[c] = rows[c]
          BY <3>0, <3>1
    <3>2. ASSUME NEW kind \in {"prompt", "reply"}, NEW r \in Runs,
                 rows'[c] = Append(rows[c], Message(<<kind, r>>, r, 0, "none"))
          PROVE  Blank(rows'[c])
      <4> DEFINE m == Message(<<kind, r>>, r, 0, "none")
      <4>1. "none" \in Cards
            BY TypeNames
      <4>2. m \in Messages
            BY <4>1, MessageIsMessage
      <4>3. m.card = "none"
            BY DEF Message
      <4>4. rows'[c] = Append(rows[c], m)
            BY <3>2
      <4> HIDE DEF m
      <4>5. DOMAIN rows'[c] = 1 .. (Len(rows[c]) + 1) /\ DOMAIN rows[c] = 1 .. Len(rows[c]) /\ Len(rows[c]) \in Nat
            BY <3>0, <4>2, <4>4, AppendShape
      <4>6. (\A i \in DOMAIN rows[c] : rows'[c][i] = rows[c][i]) /\ rows'[c][Len(rows[c]) + 1] = m
            BY <3>0, <4>2, <4>4, AppendShape
      <4> QED BY <3>0, <4>3, <4>5, <4>6 DEF Blank
    <3>3. ASSUME NEW r \in Runs, rows'[c] = Longer(rows[c], r) PROVE Blank(rows'[c])
          BY <3>0, <3>3, LongerShape DEF Blank
    <3>4. CASE ServerStep
          BY <1>0, <3>1, <3>2, <3>3, <3>4, RowSteps
    <3>5. CASE UNCHANGED serverVars
          BY <3>1, <3>5 DEF serverVars
    <3> QED BY <1>2, <3>4, <3>5, StepOfServer
  <2>2. Blank(load'.rows) /\ Blank(fetch'.rows)
        BY <1>2, ReadSteps, NothingIsBlank DEF CardsSettle
  <2> QED BY <2>1, <2>2
<1> QED BY <1>1, <1>2

\* An event gives its run's reply the card of a tool call that has begun, or takes it away.
LEMMA CardsTrueEvent ==
    ASSUME Typed, ServerOK, StreamIsSeen, CardsSettle, HandleEvent, stream = active, stream \notin skipped
    PROVE  CardsTrue(stream)'
<1>0. PICK c \in Conversations : c = stream
      BY EventHandled
<1>1. PICK e \in Events : e = events[c][position + 1]
      BY <1>0, EventHandled
<1>2. /\ c \in Conversations /\ position \in Nat /\ position + 1 \in 1 .. Len(events[c])
      /\ e.run \in Runs /\ e = Event(e.type, e.run)
      /\ conv[e.run] = c
      /\ seen'[c] = position + 1
      /\ events' = events /\ conv' = conv /\ stream' = stream
      BY <1>0, <1>1, EventHandled DEF serverVars, Typed, HistoryTyped
<1>3. messages[c] \in Seq(Messages) /\ messages'[c] = MessagesAfter(e, messages[c])
  <2>1. messages \in [Conversations -> Seq(Messages)]
        BY DEF Typed
  <2>2. messages' = [messages EXCEPT ![c] = MessagesAfter(e, messages[c])]
        BY <1>0, <1>1, ServerAssumption DEF HandleEvent
  <2> QED BY <2>1, <2>2
<1>4. seen[c] = position /\ CardsTrue(c)
      BY <1>0 DEF StreamIsSeen, CardsSettle
<1>5. \A t, r : Says(events[c], position + 1, t, r) <=> Says(events[c], position, t, r) \/ e = Event(t, r)
  <2>1. \A evs : \A t, r : Says(evs, position + 1, t, r) <=> Says(evs, position, t, r) \/ evs[position + 1] = Event(t, r)
        BY <1>2, SaysNext
  <2> QED BY <1>1, <2>1
\* The run that begins its call has not ended it.
<1>6. ASSUME e.type = "tool.started" PROVE Called(c, e.run)'
  <2>1. ASSUME NEW j \in 1 .. (position + 1), events[c][j] = Event("tool.finished", e.run) PROVE FALSE
    <3>1. InTurn(events[c], e.run)
          BY <1>2 DEF ServerOK
    <3>2. j \in 1 .. Len(events[c]) /\ j \in Nat
          BY <1>2 DEF Typed, ServerTypeOK
    <3>3. events[c][position + 1] = Event("tool.started", e.run)
          BY <1>1, <1>2, <1>6
    <3>4. position + 1 < j
          BY <1>2, <2>1, <3>1, <3>2, <3>3 DEF InTurn
    <3> QED BY <1>2, <3>2, <3>4
  <2>2. ~Says(events[c], position + 1, "tool.finished", e.run)
        BY <2>1 DEF Says
  <2>3. Says(events[c], position + 1, "tool.started", e.run)
        BY <1>2, <1>5, <1>6
  <2> QED BY <1>2, <2>2, <2>3 DEF Called
\* A call that was running goes on unless the event ends it.
<1>7. ASSUME NEW r \in Runs, Called(c, r), e # Event("tool.finished", r) PROVE Called(c, r)'
      BY <1>2, <1>4, <1>5, <1>7 DEF Called
<1>8. ASSUME NEW i \in DOMAIN messages[c], NEW m \in Messages, m = messages[c][i] \/ m.id = messages[c][i].id,
             messages[c][i].card = "running", m.id # <<"reply", e.run>> \/ e.type # "tool.finished"
      PROVE  \E r \in Runs : m.id = <<"reply", r>> /\ Called(c, r)'
  <2>1. PICK r \in Runs : messages[c][i].id = <<"reply", r>> /\ Called(c, r)
        BY <1>4, <1>8 DEF CardsTrue
  <2>2. m.id = <<"reply", r>>
        BY <1>8, <2>1
  <2>3. e # Event("tool.finished", r)
        BY <1>8, <2>2, EventsDiffer
  <2> QED BY <1>7, <2>1, <2>2, <2>3
<1> DEFINE old == messages[c]
           new == messages'[c]
           id == <<"reply", e.run>>
<1>9. ASSUME NEW i \in DOMAIN new, new[i].card = "running"
      PROVE  \E r \in Runs : new[i].id = <<"reply", r>> /\ Called(c, r)'
  <2>0. new \in Seq(Messages) /\ old \in Seq(Messages)
        BY <1>3, MessagesAfterType
  <2>00. new[i] \in Messages
        BY <2>0
  <2>1. CASE DOMAIN new = DOMAIN old /\ old[i].id # id /\ new[i] = old[i]
        BY <1>8, <1>9, <2>1, <2>00
  <2>2. CASE /\ DOMAIN new = DOMAIN old /\ old[i].id = id /\ new[i].id = old[i].id
             /\ old[i].card = "running" \/ e.type = "tool.started"
             /\ e.type # "tool.finished"
    <3>1. CASE e.type = "tool.started"
          BY <1>2, <1>6, <2>2, <3>1
    <3>2. CASE old[i].card = "running"
          BY <1>8, <2>2, <3>2, <2>00
    <3> QED BY <2>2, <3>1, <3>2
  <2>3. ASSUME NEW m \in Messages, ~Has(old, id), new = Append(old, m), m.id = id,
               m.card = "running" => e.type = "tool.started"
        PROVE  \E r \in Runs : new[i].id = <<"reply", r>> /\ Called(c, r)'
    <3>1. /\ DOMAIN new = 1 .. (Len(old) + 1) /\ DOMAIN old = 1 .. Len(old) /\ Len(old) \in Nat
          /\ \A j \in DOMAIN old : new[j] = old[j]
          /\ new[Len(old) + 1] = m
      <4> HIDE DEF old, new, id
      <4> QED BY <2>0, <2>3, AppendShape
    <3>2. CASE i \in DOMAIN old
      <4>1. new[i] = old[i] /\ old[i].id # id
            BY <2>3, <3>1, <3>2 DEF Has
      <4> QED BY <1>8, <1>9, <3>2, <4>1, <2>00
    <3>3. CASE i \notin DOMAIN old
      <4>1. new[i] = m
        <5> HIDE DEF new, old
        <5> QED BY <3>1, <3>3
      <4> QED BY <1>2, <1>6, <1>9, <2>3, <4>1
    <3> QED BY <3>2, <3>3
  <2>4. \/ /\ DOMAIN new = DOMAIN old
           /\ \A j \in DOMAIN old :
                 /\ old[j].id # id => new[j] = old[j]
                 /\ old[j].id = id =>
                       /\ new[j].id = old[j].id
                       /\ new[j].card = "running" => (old[j].card = "running" \/ e.type = "tool.started")
                       /\ e.type = "tool.finished" => new[j].card # "running"
        \/ \E m \in Messages :
              /\ ~Has(old, id) /\ new = Append(old, m) /\ m.id = id
              /\ m.card = "running" => e.type = "tool.started"
    <3>1. old \in Seq(Messages) /\ e \in Events /\ new = MessagesAfter(e, old)
          BY <1>3
    <3> HIDE DEF old, new
    <3> QED BY <3>1, AfterShape
  <2> HIDE DEF old, new, id
  <2> QED BY <1>9, <2>1, <2>2, <2>3, <2>4
<1> QED BY <1>0, <1>2, <1>9 DEF CardsTrue

\* Whatever of a conversation is merged, sent, answered or loaded, its cards were true before.
LEMMA CardsTrueAnswer ==
    ASSUME Typed, CardsSettle, UNCHANGED <<serverVars, seen, skipped>>, NEW c \in Conversations \ skipped,
           ApplyFetch \/ ApplyLoad \/ \E a \in Sends : Send(a) \/ ApplySent(a)
    PROVE  CardsTrue(c)'
<1>0. /\ messages \in [Conversations -> Seq(Messages)] /\ messages[c] \in Seq(Messages)
      /\ load.rows \in Seq(Messages) /\ fetch.rows \in Seq(Messages)
      /\ fetch.step # "none" => fetch.conv \in Conversations
      /\ Blank(load.rows) /\ Blank(fetch.rows)
      BY DEF Typed, StreamTyped, Loads, Fetches, CardsSettle
<1>1. CardsTrue(c)
      BY DEF CardsSettle
<1>2. ASSUME NEW r \in Runs, Called(c, r) PROVE Called(c, r)'
      BY <1>2 DEF Called, serverVars
<1>3. CASE messages'[c] = messages[c]
      BY <1>1, <1>2, <1>3 DEF CardsTrue
<1>4. ASSUME NEW ms \in Seq(Messages), messages'[c] = MergeFetched(messages[c], ms), Blank(ms)
      PROVE  CardsTrue(c)'
  <2> DEFINE old == messages[c]
             new == MergeFetched(old, ms)
             at(k) == Nth(Kept(old, ms), k - Len(ms))
  <2>1. ASSUME NEW k \in DOMAIN new, new[k].card = "running"
        PROVE  \E r \in Runs : new[k].id = <<"reply", r>> /\ Called(c, r)
    <3>1. \/ /\ k \in DOMAIN ms
             /\ new[k].id = ms[k].id
             /\ \/ new[k].card = ms[k].card
                \/ \E j \in DOMAIN old : /\ old[j].id = ms[k].id
                                         /\ new[k].card = old[j].card
          \/ /\ k \notin DOMAIN ms
             /\ at(k) \in DOMAIN old
             /\ ~Has(ms, old[at(k)].id)
             /\ new[k] = old[at(k)]
      <4>1. old \in Seq(Messages)
            BY <1>0
      <4> HIDE DEF old
      <4> QED BY <2>1, <4>1, MergeShape
    <3>2. \E j \in DOMAIN old : old[j].card = "running" /\ new[k].id = old[j].id
      <4> HIDE DEF new, old, at
      <4>1. CASE k \in DOMAIN ms
        <5>1. ms[k].card = "none"
              BY <1>4, <4>1 DEF Blank
        <5> QED BY <2>1, <3>1, <4>1, <5>1
      <4>2. CASE k \notin DOMAIN ms
            BY <2>1, <3>1, <4>2
      <4> QED BY <4>1, <4>2
    <3> HIDE DEF new
    <3> QED BY <1>1, <3>2 DEF CardsTrue
  <2>2. messages'[c] = new
        BY <1>4
  <2> HIDE DEF new
  <2> QED BY <1>2, <2>1, <2>2 DEF CardsTrue
<1>5. CASE ApplyFetch
  <2>1. CASE fetch.conv = c
    <3>1. messages'[c] = MergeFetched(messages[c], fetch.rows)
          BY <1>0, <1>5, <2>1 DEF ApplyFetch
    <3> QED BY <1>0, <1>4, <3>1
  <2>2. CASE fetch.conv # c
    <3>1. messages'[c] = messages[c]
          BY <1>0, <1>5, <2>2 DEF ApplyFetch
    <3> QED BY <1>3, <3>1
  <2> QED BY <2>1, <2>2
<1>6. CASE ApplyLoad
  <2>1. messages'[c] = load.rows \/ messages'[c] = <<>>
        BY <1>6 DEF ApplyLoad
  <2>2. Blank(messages'[c])
        BY <1>0, <2>1, NothingIsBlank
  <2> QED BY <2>2 DEF CardsTrue, Blank
<1>7. ASSUME NEW a \in Sends, Send(a) PROVE CardsTrue(c)'
  <2> DEFINE m == Message(<<"temp", a>>, NoRun, 0, "none")
  <2>1. m \in Messages /\ m.card = "none"
    <3>1. "none" \in Cards /\ a \in Runs
          BY TypeNames, SendsAreRuns
    <3>2. m \in Messages
          BY <3>1, MessageIsMessage
    <3> QED BY <3>2 DEF Message
  <2>2. messages' = [messages EXCEPT ![active] = Append(messages[active], m)]
        BY <1>7 DEF Send
  <2> HIDE DEF m
  <2>3. CASE active = c
    <3>1. messages'[c] = Append(messages[c], m)
          BY <1>0, <2>2, <2>3
    <3>2. /\ DOMAIN messages'[c] = 1 .. (Len(messages[c]) + 1) /\ DOMAIN messages[c] = 1 .. Len(messages[c])
          /\ Len(messages[c]) \in Nat
          /\ \A i \in DOMAIN messages[c] : messages'[c][i] = messages[c][i]
          /\ messages'[c][Len(messages[c]) + 1] = m
          BY <1>0, <2>1, <3>1, AppendShape
    <3>3. \A i \in DOMAIN messages'[c] : messages'[c][i].card = "running" =>
              i \in DOMAIN messages[c] /\ messages'[c][i] = messages[c][i]
          BY <2>1, <3>2
    <3> QED BY <1>1, <1>2, <3>3 DEF CardsTrue
  <2>4. CASE active # c
    <3>1. messages'[c] = messages[c]
          BY <1>0, <2>2, <2>4
    <3> QED BY <1>3, <3>1
  <2> QED BY <2>3, <2>4
<1>8. ASSUME NEW a \in Sends, ApplySent(a) PROVE CardsTrue(c)'
  <2> DEFINE r == send[a].run
  <2>0. r \in Runs
        BY <1>8 DEF ApplySent, Typed, SendTyped
  <2>1. messages' = [messages EXCEPT ![send[a].conv] = Rename(messages[send[a].conv], a, r)]
        BY <1>8 DEF ApplySent
  <2> HIDE DEF r
  <2>2. CASE send[a].conv = c
    <3>1. messages'[c] = Rename(messages[c], a, r)
          BY <1>0, <2>1, <2>2
    <3>2. /\ DOMAIN messages'[c] = DOMAIN messages[c]
          /\ \A i \in DOMAIN messages[c] :
                /\ messages[c][i].id # <<"temp", a>> => messages'[c][i] = messages[c][i]
                /\ messages[c][i].id = <<"temp", a>> => messages'[c][i].card = messages[c][i].card
          BY <1>0, <2>0, <3>1, RenameShape
    <3>3. \A i \in DOMAIN messages[c] : messages[c][i].card = "running" => messages[c][i].id # <<"temp", a>>
          BY <1>1 DEF CardsTrue
    <3>4. \A i \in DOMAIN messages'[c] : messages'[c][i].card = "running" =>
              i \in DOMAIN messages[c] /\ messages'[c][i] = messages[c][i]
          BY <3>2, <3>3
    <3> QED BY <1>1, <1>2, <3>4 DEF CardsTrue
  <2>3. CASE send[a].conv # c
    <3>1. messages'[c] = messages[c]
          BY <1>0, <2>1, <2>3
    <3> QED BY <1>3, <3>1
  <2> QED BY <2>2, <2>3
<1> QED BY <1>5, <1>6, <1>7, <1>8

LEMMA CardsSettleStep ==
    ASSUME Typed, ServerOK, StreamIsSeen, CardsSettle, [Next]_vars
    PROVE  CardsSettle'
<1>0. /\ seen \in [Conversations -> Nat] /\ skipped \subseteq Conversations
      /\ messages \in [Conversations -> Seq(Messages)]
      /\ active \in Conversations \cup {NoConversation}
      /\ NoConversation \notin Conversations
      BY ServerAssumption DEF Typed, HistoryTyped, LinkTyped
<1>1. Grows
      BY StepGrows
<1>2. (\A c \in Conversations : Blank(rows'[c])) /\ Blank(load'.rows) /\ Blank(fetch'.rows)
      BY RowsStayBlank
<1>3. ASSUME NEW c \in Conversations \ skipped, messages'[c] = messages[c], seen'[c] = seen[c]
      PROVE  CardsTrue(c)'
  <2>1. \A t, r : Says(events'[c], seen[c], t, r) <=> Says(events[c], seen[c], t, r)
        BY <1>1, SeenStays
  <2>2. ASSUME NEW r \in Runs, Called(c, r) PROVE Called(c, r)'
    <3>1. conv'[r] = c
          BY <1>0, <1>1, <2>2 DEF Grows, Called, Exists
    <3> QED BY <1>3, <2>1, <2>2, <3>1 DEF Called
  <2>3. CardsTrue(c)
        BY DEF CardsSettle
  <2> QED BY <1>3, <2>2, <2>3 DEF CardsTrue
<1>4. CASE UNCHANGED <<messages, seen>> /\ skipped \subseteq skipped'
  <2>1. \A c \in Conversations \ skipped' : CardsTrue(c)'
        BY <1>3, <1>4
  <2> QED BY <1>2, <2>1 DEF CardsSettle
<1>5. CASE UNCHANGED vars
  <2>1. UNCHANGED <<messages, seen>> /\ skipped \subseteq skipped'
        BY <1>5 DEF vars, pageVars, history
  <2> QED BY <1>4, <2>1
<1>6. CASE Reload
  <2>1. \A c \in Conversations : messages'[c] = <<>>
        BY <1>6 DEF Reload
  <2>2. \A c \in Conversations : CardsTrue(c)'
        BY <2>1 DEF CardsTrue
  <2> QED BY <1>2, <2>2 DEF CardsSettle
<1>7. CASE HandleEvent
  <2>1. /\ seen' = [seen EXCEPT ![stream] = position + 1] /\ stream \in Conversations
        /\ skipped' = IF active # stream THEN skipped \cup ({stream, active} \ {NoConversation}) ELSE skipped
        BY <1>7, EventHandled
  <2>2. \A c \in Conversations : c # active => messages'[c] = messages[c]
        BY <1>0, <1>7 DEF HandleEvent
  <2>3. ASSUME NEW c \in Conversations \ skipped' PROVE CardsTrue(c)'
    <3>1. c \notin skipped
          BY <2>1
    <3>2. CASE c = stream
      <4>1. stream = active
            BY <2>1, <2>3, <3>2, <1>0
      <4> QED BY <1>7, <3>1, <3>2, <4>1, CardsTrueEvent, <2>1, <2>3, EventHandled
    <3>3. CASE c # stream
      <4>1. c # active
            BY <2>1, <2>3, <3>3, <1>0
      <4> QED BY <1>0, <1>3, <2>1, <2>2, <3>1, <3>3, <4>1
    <3> QED BY <3>2, <3>3
  <2> QED BY <1>2, <2>3 DEF CardsSettle
<1>8. CASE /\ UNCHANGED <<serverVars, seen, skipped>>
           /\ ApplyFetch \/ ApplyLoad \/ \E a \in Sends : Send(a) \/ ApplySent(a)
  <2>1. \A c \in Conversations \ skipped' : CardsTrue(c)'
        BY <1>8, CardsTrueAnswer
  <2> QED BY <1>2, <2>1 DEF CardsSettle
<1> QED BY <1>4, <1>5, <1>6, <1>7, <1>8, MessageSteps

LEMMA CardsSettleAlways == Spec => []CardsSettle
<1>1. Init => CardsSettle
      BY CardsSettleInit
<1>2. Typed /\ ServerOK /\ StreamIsSeen /\ CardsSettle /\ [Next]_vars => CardsSettle'
      BY CardsSettleStep
<1>3. Spec => []StreamIsSeen
      BY FollowsAlways, PTL
<1> QED BY <1>1, <1>2, <1>3, TypedAlways, ServerOKAlways, PTL DEF Spec

(***************************************************************************)
(* The tool calls of a reply are settled when the page is up to date and   *)
(* the call has ended, whatever fetches merged in between                  *)
(* (ToolCardsSettle): a card that runs is of a run whose call began and    *)
(* did not end in the events handled, and the rows that a fetch brings     *)
(* have no cards of their own.                                             *)
(***************************************************************************)
THEOREM ToolCardsSettleAlways == Spec => []ToolCardsSettle
<1>1. Typed /\ ServerOK /\ StreamIsSeen /\ CardsSettle => ToolCardsSettle
  <2> SUFFICES ASSUME Typed, ServerOK, StreamIsSeen, CardsSettle,
                      NEW c \in Conversations, CaughtUp(c),
                      NEW i \in DOMAIN messages[c], messages[c][i].card = "running"
               PROVE  tool[messages[c][i].id[2]] = "asked"
      BY DEF ToolCardsSettle
  <2>1. c \notin skipped /\ seen[c] = Len(events[c])
        BY DEF CaughtUp, StreamIsSeen
  <2>2. PICK r \in Runs : messages[c][i].id = <<"reply", r>> /\ Called(c, r)
        BY <2>1 DEF CardsSettle, CardsTrue
  <2>3. conv[r] = c /\ Exists(r) /\ ToolIsTold(r)
        BY <2>2, ServerAssumption DEF Called, Exists, ServerOK
  <2>4. tool[r] # "none" /\ tool[r] # "ended"
        BY <2>1, <2>2, <2>3 DEF Called, ToolIsTold, Tells
  <2>5. tool[r] \in {"none", "asked", "ended"}
        BY DEF Typed, ServerTypeOK
  <2>6. messages[c][i].id[2] = r
        BY <2>2
  <2> QED BY <2>4, <2>5, <2>6
<1> QED BY <1>1, TypedAlways, ServerOKAlways, FollowsAlways, CardsSettleAlways, PTL

-----------------------------------------------------------------------------
(* The ids of rows. *)

\* Rows are prompts and replies of runs that exist, each once.
OnceIn(ms) == \A i, j \in DOMAIN ms : ms[i].id = ms[j].id => i = j
RowsFit(ms) ==
    /\ OnceIn(ms)
    /\ \A i \in DOMAIN ms : \E r \in Runs : Exists(r) /\ ms[i].id \in {<<"prompt", r>>, <<"reply", r>>}
RowsOK ==
    /\ \A c \in Conversations : /\ RowsFit(rows[c])
                                /\ \A r \in Runs : status[r] = "queued" => ~Has(rows[c], <<"reply", r>>)
    /\ RowsFit(load.rows) /\ RowsFit(fetch.rows)

LEMMA NothingFits == RowsFit(<<>>)
BY DEF RowsFit, OnceIn

LEMMA RowsOKInit == Init => RowsOK
<1> SUFFICES ASSUME Init PROVE RowsOK
    OBVIOUS
<1>1. \A c \in Conversations : rows[c] = <<>>
      BY DEF Init, ServerInit
<1>2. load.rows = <<>> /\ fetch.rows = <<>>
      BY DEF Init, NoLoad, NoFetch
<1> QED BY <1>1, <1>2, NothingFits DEF RowsOK, Has

\* No run comes to be queued again.
LEMMA QueuedBefore ==
    ASSUME ServerTypeOK, ServerStep, NEW r \in Runs, status'[r] = "queued"
    PROVE  status[r] = "queued"
<1>0. status \in [Runs -> Statuses]
      BY DEF ServerTypeOK
<1>1. ASSUME NEW q \in Runs, RunStep(q) PROVE status[r] = "queued"
      BY <1>0, <1>1 DEF RunStep, StartRun, AskApproval, StoreChunk, AnnounceChunk, EndRun
<1>2. ASSUME NEW q \in Runs, AcceptAnswer(q) \/ AcceptCancel(q) PROVE status[r] = "queued"
      BY <1>0, <1>2 DEF AcceptAnswer, AcceptCancel
<1>3. ASSUME NEW q \in Runs, NEW c \in Conversations, Accept(q, c) PROVE status[r] = "queued"
      BY <1>3 DEF Accept
<1>4. ASSUME NEW old \in Runs, NEW q \in Runs, AcceptRetry(old, q) PROVE status[r] = "queued"
      BY <1>4 DEF AcceptRetry
<1> QED BY <1>1, <1>2, <1>3, <1>4 DEF ServerStep

\* A message with an id that was not there is added.
LEMMA OnceMore ==
    ASSUME NEW ms \in Seq(Messages), NEW m \in Messages, ~Has(ms, m.id)
    PROVE  /\ OnceIn(ms) => OnceIn(Append(ms, m))
           /\ \A i \in DOMAIN Append(ms, m) : \/ Append(ms, m)[i] = m
                                              \/ i \in DOMAIN ms /\ Append(ms, m)[i] = ms[i]
           /\ \A id : Has(Append(ms, m), id) <=> Has(ms, id) \/ id = m.id
<1> DEFINE new == Append(ms, m)
<1>1. /\ DOMAIN new = 1 .. (Len(ms) + 1) /\ DOMAIN ms = 1 .. Len(ms) /\ Len(ms) \in Nat
      /\ \A i \in DOMAIN ms : new[i] = ms[i]
      /\ new[Len(ms) + 1] = m
      BY AppendShape
<1> HIDE DEF new
<1>2. ASSUME NEW i \in DOMAIN new PROVE \/ i = Len(ms) + 1 /\ new[i] = m
                                        \/ i \in DOMAIN ms /\ new[i] = ms[i]
      BY <1>1
<1>3. OnceIn(ms) => OnceIn(new)
  <2> SUFFICES ASSUME OnceIn(ms), NEW i \in DOMAIN new, NEW j \in DOMAIN new, new[i].id = new[j].id
               PROVE  i = j
      BY DEF OnceIn
  <2> QED BY <1>2 DEF OnceIn, Has
<1>4. \A id : Has(new, id) <=> Has(ms, id) \/ id = m.id
  <2>1. ASSUME NEW id, Has(new, id) PROVE Has(ms, id) \/ id = m.id
        BY <1>2, <2>1 DEF Has
  <2>2. ASSUME NEW id, Has(ms, id) PROVE Has(new, id)
    <3>1. PICK i \in DOMAIN ms : ms[i].id = id
          BY <2>2 DEF Has
    <3>2. i \in DOMAIN new /\ new[i].id = id
          BY <1>1, <3>1
    <3> QED BY <3>2 DEF Has
  <2>3. Has(new, m.id)
    <3>1. Len(ms) + 1 \in DOMAIN new
          BY <1>1
    <3> QED BY <1>1, <3>1 DEF Has
  <2> QED BY <2>1, <2>2, <2>3
<1> QED BY <1>2, <1>3, <1>4 DEF new

LEMMA LongerFits ==
    ASSUME NEW ms \in Seq(Messages), NEW r
    PROVE  /\ OnceIn(ms) => OnceIn(Longer(ms, r))
           /\ \A id : Has(Longer(ms, r), id) <=> Has(ms, id)
BY LongerShape DEF OnceIn, Has

LEMMA RowsOKStep ==
    ASSUME Typed, ServerOK, RowsOK, [Next]_vars
    PROVE  RowsOK'
<1>0. /\ rows \in [Conversations -> Seq(Messages)] /\ ServerTypeOK
      BY DEF Typed, ServerTypeOK
<1>1. Grows
      BY StepGrows
<1>2. \A r \in Runs : Exists(r) => conv'[r] # NoConversation
      BY <1>1 DEF Grows, Exists
<1>3. CASE UNCHANGED vars
      BY <1>3 DEF vars, serverVars, pageVars, RowsOK, RowsFit, Exists
<1>4. CASE Next
  <2>1. ASSUME NEW ms, RowsFit(ms)
        PROVE  /\ OnceIn(ms)
               /\ \A i \in DOMAIN ms : \E r \in Runs : conv'[r] # NoConversation
                                                       /\ ms[i].id \in {<<"prompt", r>>, <<"reply", r>>}
        BY <1>2, <2>1 DEF RowsFit
  <2>2. RowsFit(load.rows)' /\ RowsFit(fetch.rows)'
    <3>1. RowsFit(load'.rows) /\ RowsFit(fetch'.rows)
          BY <1>4, ReadSteps, NothingFits DEF RowsOK
    <3> QED BY <2>1, <3>1 DEF RowsFit, Exists, OnceIn
  <2>3. ASSUME NEW c \in Conversations, rows'[c] = rows[c]
        PROVE  RowsFit(rows[c])'
        BY <2>1, <2>3 DEF RowsFit, Exists, OnceIn, RowsOK
  <2>4. CASE UNCHANGED serverVars
    <3>1. \A c \in Conversations : RowsFit(rows[c])'
          BY <2>3, <2>4 DEF serverVars
    <3> QED BY <2>2, <2>4, <3>1 DEF RowsOK, serverVars
  <2>5. ASSUME ServerStep, NEW c \in Conversations
        PROVE  RowsFit(rows[c])' /\ \A r \in Runs : status'[r] = "queued" => ~Has(rows'[c], <<"reply", r>>)
    <3>0. /\ rows[c] \in Seq(Messages) /\ RowsFit(rows[c])
          /\ \A r \in Runs : status[r] = "queued" => ~Has(rows[c], <<"reply", r>>)
          /\ "none" \in Cards
          BY <1>0, TypeNames DEF RowsOK
    <3>1. \A r \in Runs : status'[r] = "queued" => ~Has(rows[c], <<"reply", r>>)
          BY <1>0, <2>5, <3>0, QueuedBefore
    <3>2. CASE rows'[c] = rows[c]
          BY <2>3, <3>1, <3>2
    <3>3. ASSUME NEW r \in Runs, NEW m \in Messages, rows'[c] = Append(rows[c], m), ~Has(rows[c], m.id),
                 conv'[r] # NoConversation,
                 m.id = <<"prompt", r>> \/ (m.id = <<"reply", r>> /\ status'[r] # "queued")
          PROVE  RowsFit(rows[c])' /\ \A q \in Runs : status'[q] = "queued" => ~Has(rows'[c], <<"reply", q>>)
      <4>1. /\ OnceIn(rows[c]) => OnceIn(rows'[c])
            /\ \A i \in DOMAIN rows'[c] : \/ rows'[c][i] = m
                                          \/ i \in DOMAIN rows[c] /\ rows'[c][i] = rows[c][i]
            /\ \A id : Has(rows'[c], id) <=> Has(rows[c], id) \/ id = m.id
            BY <3>0, <3>3, OnceMore
      <4>2. OnceIn(rows'[c])
            BY <2>1, <3>0, <4>1
      <4>3. \A i \in DOMAIN rows'[c] : \E q \in Runs : conv'[q] # NoConversation
                                          /\ rows'[c][i].id \in {<<"prompt", q>>, <<"reply", q>>}
        <5>1. \A i \in DOMAIN rows[c] : \E q \in Runs : conv'[q] # NoConversation
                                          /\ rows[c][i].id \in {<<"prompt", q>>, <<"reply", q>>}
              BY <2>1, <3>0
        <5>2. m.id \in {<<"prompt", r>>, <<"reply", r>>}
              BY <3>3
        <5> QED BY <3>3, <4>1, <5>1, <5>2
      <4>4. RowsFit(rows[c])'
            BY <4>2, <4>3 DEF RowsFit, OnceIn, Exists
      <4>5. ASSUME NEW q \in Runs, status'[q] = "queued" PROVE ~Has(rows'[c], <<"reply", q>>)
        <5>1. m.id # <<"reply", q>>
              BY <3>3, <4>5
        <5>2. ~Has(rows[c], <<"reply", q>>)
              BY <3>1, <4>5
        <5> QED BY <4>1, <5>1, <5>2
      <4> QED BY <4>4, <4>5
    <3>4. ASSUME NEW r \in Runs, Accept(r, c),
                 rows'[c] = Append(rows[c], Message(<<"prompt", r>>, r, 0, "none"))
          PROVE  RowsFit(rows[c])' /\ \A q \in Runs : status'[q] = "queued" => ~Has(rows'[c], <<"reply", q>>)
      <4> DEFINE m == Message(<<"prompt", r>>, r, 0, "none")
      <4>1. m \in Messages /\ m.id = <<"prompt", r>>
        <5>1. m \in Messages
              BY <3>0, MessageIsMessage
        <5> QED BY <5>1 DEF Message
      <4>2. ~Exists(r) /\ conv'[r] # NoConversation
            BY <1>0, <3>4, ServerAssumption DEF Accept, IsNext, ServerTypeOK
      <4>3. ~Has(rows[c], m.id)
        <5> HIDE DEF m
        <5> QED BY <3>0, <4>1, <4>2 DEF RowsFit, Has
      <4>4. rows'[c] = Append(rows[c], m)
            BY <3>4
      <4> HIDE DEF m
      <4> QED BY <3>3, <4>1, <4>2, <4>3, <4>4
    <3>5. ASSUME NEW r \in Runs, StartRun(r), conv[r] = c,
                 rows'[c] = Append(rows[c], Message(<<"reply", r>>, r, 0, "none"))
          PROVE  RowsFit(rows[c])' /\ \A q \in Runs : status'[q] = "queued" => ~Has(rows'[c], <<"reply", q>>)
      <4> DEFINE m == Message(<<"reply", r>>, r, 0, "none")
      <4>1. m \in Messages /\ m.id = <<"reply", r>>
        <5>1. m \in Messages
              BY <3>0, MessageIsMessage
        <5> QED BY <5>1 DEF Message
      <4>2. status[r] = "queued" /\ status'[r] = "running" /\ conv'[r] # NoConversation
            BY <1>0, <1>2, <3>5 DEF StartRun, ServerTypeOK
      <4>3. rows'[c] = Append(rows[c], m)
            BY <3>5
      <4> HIDE DEF m
      <4>4. ~Has(rows[c], m.id)
            BY <3>0, <4>1, <4>2
      <4> QED BY <3>3, <4>1, <4>2, <4>3, <4>4
    <3>6. ASSUME NEW r \in Runs, rows'[c] = Longer(rows[c], r)
          PROVE  RowsFit(rows[c])' /\ \A q \in Runs : status'[q] = "queued" => ~Has(rows'[c], <<"reply", q>>)
      <4>1. /\ OnceIn(rows'[c])
            /\ \A id : Has(rows'[c], id) <=> Has(rows[c], id)
            BY <2>1, <3>0, <3>6, LongerFits
      <4>2. DOMAIN rows'[c] = DOMAIN rows[c] /\ \A i \in DOMAIN rows[c] : rows'[c][i].id = rows[c][i].id
            BY <3>0, <3>6, LongerShape
      <4>3. RowsFit(rows[c])'
            BY <2>1, <3>0, <4>1, <4>2 DEF RowsFit, OnceIn, Exists
      <4> QED BY <3>1, <4>1, <4>3
    <3> QED BY <1>0, <2>5, <3>2, <3>4, <3>5, <3>6, RowSteps
  <2>6. CASE ServerStep
        BY <2>2, <2>5, <2>6 DEF RowsOK
  <2> QED BY <1>4, <2>4, <2>6, StepOfServer
<1> QED BY <1>3, <1>4

LEMMA RowsOKAlways == Spec => []RowsOK
<1>1. Init => RowsOK
      BY RowsOKInit
<1>2. Typed /\ ServerOK /\ RowsOK /\ [Next]_vars => RowsOK'
      BY RowsOKStep
<1> QED BY <1>1, <1>2, TypedAlways, ServerOKAlways, PTL DEF Spec

-----------------------------------------------------------------------------
(* The prompts of a page and the runs that answer them. *)

\* A prompt's run is one that was made for it, in its conversation.
SendsApart ==
    /\ \A a \in Sends : send[a].step \in {"none", "out"} => send[a].run = NoRun
    /\ \A a \in Sends : send[a].run # NoRun => Exists(send[a].run) /\ conv[send[a].run] = send[a].conv
    /\ \A a, b \in Sends : send[a].run # NoRun /\ send[a].run = send[b].run => a = b

SendKept(a) ==
    \/ send'[a].run = send[a].run /\ send'[a].conv = send[a].conv /\ send'[a].step \in {send[a].step, "done"}
    \/ send[a].step = "none" /\ send'[a].step = "none" /\ send'[a].run = NoRun

\* A prompt is sent, taken, or goes on as it was.
LEMMA PromptSteps ==
    ASSUME Typed, Next
    PROVE  \/ \E a \in Sends : TakeSend(a)
           \/ \E a \in Sends : Send(a)
           \/ \A a \in Sends : SendKept(a)
<1>0. send \in [Sends -> Sendings]
      BY DEF Typed, SendTyped
<1>1. CASE send' = send
      BY <1>1 DEF SendKept
<1>2. CASE HandleEvent \/ RunEffects \/ AnswerFetch \/ FetchFails \/ ApplyFetch
      BY <1>1, <1>2 DEF HandleEvent, RunEffects, AnswerFetch, FetchFails, ApplyFetch, netVars
<1>3. CASE LoadStep \/ LoadWithout \/ LoadFails \/ ApplyLoad \/ Probe \/ StaleLoadEnds \/ RefreshHealth
      BY <1>1, <1>3 DEF LoadStep, LoadWithout, LoadFails, ApplyLoad, Probe, StaleLoadEnds, RefreshHealth, netVars
<1>4. CASE ChangeGate
      BY <1>1, <1>4 DEF ChangeGate, netVars
<1>5. CASE Reload
  <2>1. ASSUME NEW a \in Sends PROVE SendKept(a)
    <3>1. send'[a] = IF send[a].step = "none" THEN NoSend ELSE [send[a] EXCEPT !.step = "done"]
          BY <1>5 DEF Reload
    <3>2. NoSend.step = "none" /\ NoSend.run = NoRun
          BY DEF NoSend
    <3>3. LET s == [send[a] EXCEPT !.step = "done"]
          IN  s.step = "done" /\ s.run = send[a].run /\ s.conv = send[a].conv
          BY <1>0 DEF Sendings
    <3> QED BY <3>1, <3>2, <3>3 DEF SendKept
  <2> QED BY <2>1
<1>6. ASSUME NEW c \in Conversations, SelectConversation(c) \/ NewConversation(c) \/ OtherTab(c)
      PROVE  send' = send
      BY <1>6 DEF SelectConversation, NewConversation, OtherTab, netVars
<1>7. ASSUME NEW a \in Sends, ApplySent(a) \/ FailSend(a) PROVE \A b \in Sends : SendKept(b)
  <2>1. send' = [send EXCEPT ![a] = [send[a] EXCEPT !.step = "done"]]
        BY <1>0, <1>7 DEF ApplySent, FailSend
  <2>2. LET s == [send[a] EXCEPT !.step = "done"]
        IN  s.step = "done" /\ s.run = send[a].run /\ s.conv = send[a].conv
        BY <1>0 DEF Sendings
  <2> QED BY <1>0, <2>1, <2>2 DEF SendKept
<1>8. ASSUME NEW op, NEW r, Click(op, r) PROVE send' = send
      BY <1>8 DEF Click
<1>9. ASSUME NEW k \in clicks, TakeClick(k) \/ ApplyResolved(k) \/ LoseClick(k) PROVE send' = send
      BY <1>9 DEF TakeClick, ApplyResolved, LoseClick
<1>10. ASSUME NEW r \in Runs, Work(r) PROVE send' = send
       BY <1>10 DEF Work, netVars
<1> QED BY <1>1, <1>2, <1>3, <1>4, <1>5, <1>6, <1>7, <1>8, <1>9, <1>10 DEF Next

\* What a prompt becomes when it is taken.
LEMMA Taken ==
    ASSUME Typed, NEW a \in Sends, TakeSend(a)
    PROVE  \E r \in Runs :
              /\ ~Exists(r) /\ conv' = [conv EXCEPT ![r] = send[a].conv] /\ send[a].conv \in Conversations
              /\ send'[a].run = r /\ send'[a].conv = send[a].conv /\ send'[a].step = "back"
              /\ send[a].step = "out"
              /\ \A b \in Sends \ {a} : send'[b] = send[b]
<1>0. send \in [Sends -> Sendings]
      BY DEF Typed, SendTyped
<1>1. PICK r \in Runs : /\ Accept(r, send[a].conv)
                        /\ send' = [send EXCEPT ![a].step = "back", ![a].run = r]
      BY DEF TakeSend
<1>2. send' = [send EXCEPT ![a] = [send[a] EXCEPT !.step = "back", !.run = r]]
      BY <1>0, <1>1
<1>3. LET s == [send[a] EXCEPT !.step = "back", !.run = r]
      IN  s.run = r /\ s.conv = send[a].conv /\ s.step = "back"
      BY <1>0 DEF Sendings
<1>4. ~Exists(r) /\ conv' = [conv EXCEPT ![r] = send[a].conv]
      BY <1>1 DEF Accept, IsNext
<1>5. send[a].step = "out" /\ send[a].conv \in Conversations
      BY DEF TakeSend, Typed, SendTyped
<1> QED BY <1>0, <1>2, <1>3, <1>4, <1>5

LEMMA SendIsSent ==
    ASSUME Typed, NEW a \in Sends, Send(a)
    PROVE  /\ send[a].step = "none" /\ send'[a].step # "none"
           /\ send'[a].conv = active /\ send'[a].run = NoRun
           /\ \A b \in Sends \ {a} : send'[b] = send[b]
<1>0. send \in [Sends -> Sendings]
      BY DEF Typed, SendTyped
<1>1. send' = [send EXCEPT ![a] = [step |-> IF Connected THEN "out" ELSE "done",
                                   conv |-> active, run |-> NoRun]]
      BY DEF Send
<1>2. send[a].step = "none"
      BY DEF Send
<1> QED BY <1>0, <1>1, <1>2

LEMMA SendsApartInit == Init => SendsApart
<1> SUFFICES ASSUME Init PROVE SendsApart
    OBVIOUS
<1>1. \A a \in Sends : send[a] = NoSend /\ send[a].run = NoRun
      BY DEF Init, NoSend
<1> QED BY <1>1 DEF SendsApart

LEMMA SendsApartStep ==
    ASSUME Typed, ServerOK, SendsApart, [Next]_vars
    PROVE  SendsApart'
<1>0. /\ send \in [Sends -> Sendings] /\ conv \in [Runs -> Conversations \cup {NoConversation}]
      /\ NoConversation \notin Conversations
      /\ \A a \in Sends : send[a].run \in Runs \cup {NoRun}
      BY ServerAssumption DEF Typed, SendTyped, ServerTypeOK, Sendings
<1>1. Grows
      BY StepGrows
<1>2. \A a \in Sends : send[a].run # NoRun => /\ conv'[send[a].run] # NoConversation
                                              /\ conv'[send[a].run] = send[a].conv
      BY <1>0, <1>1 DEF SendsApart, Grows, Exists
<1>3. CASE \A a \in Sends : SendKept(a)
  <2>1. \A a \in Sends : send'[a].step \in {"none", "out"} => send'[a].run = NoRun
        BY <1>3 DEF SendsApart, SendKept
  <2>2. \A a \in Sends : send'[a].run # NoRun => send'[a].run = send[a].run /\ send'[a].conv = send[a].conv
        BY <1>3 DEF SendKept
  <2>3. \A a \in Sends : send'[a].run # NoRun => /\ conv'[send'[a].run] # NoConversation
                                                 /\ conv'[send'[a].run] = send'[a].conv
        BY <1>2, <2>2
  <2>4. \A a, b \in Sends : send'[a].run # NoRun /\ send'[a].run = send'[b].run => a = b
        BY <2>2 DEF SendsApart
  <2> QED BY <2>1, <2>3, <2>4 DEF SendsApart, Exists
<1>4. CASE UNCHANGED vars
  <2>1. send' = send
        BY <1>4 DEF vars, netVars
  <2> QED BY <1>3, <2>1 DEF SendKept
<1>5. ASSUME NEW a \in Sends, Send(a) PROVE SendsApart'
  <2>1. /\ send[a].step = "none" /\ send'[a].run = NoRun
        /\ \A b \in Sends \ {a} : send'[b] = send[b]
        BY <1>5, SendIsSent
  <2> QED BY <1>2, <2>1 DEF SendsApart, Exists
<1>6. ASSUME NEW a \in Sends, TakeSend(a) PROVE SendsApart'
  <2>1. PICK r \in Runs :
              /\ ~Exists(r) /\ conv' = [conv EXCEPT ![r] = send[a].conv] /\ send[a].conv \in Conversations
              /\ send'[a].run = r /\ send'[a].conv = send[a].conv /\ send'[a].step = "back"
              /\ \A b \in Sends \ {a} : send'[b] = send[b]
        BY <1>6, Taken
  <2>2. conv'[r] = send[a].conv /\ conv'[r] # NoConversation
        BY <1>0, <2>1
  <2>3. \A b \in Sends : send[b].run # r
        BY <1>0, <2>1, SendsAreRuns DEF SendsApart
  <2>4. \A b \in Sends : send'[b].step \in {"none", "out"} => send'[b].run = NoRun
        BY <2>1 DEF SendsApart
  <2>5. ASSUME NEW b \in Sends, send'[b].run # NoRun
        PROVE  conv'[send'[b].run] # NoConversation /\ conv'[send'[b].run] = send'[b].conv
    <3>1. CASE b = a
          BY <2>1, <2>2, <3>1
    <3>2. CASE b # a
          BY <1>2, <2>1, <2>5, <3>2
    <3> QED BY <3>1, <3>2
  <2>6. \A b, d \in Sends : send'[b].run # NoRun /\ send'[b].run = send'[d].run => b = d
        BY <2>1, <2>3 DEF SendsApart
  <2> QED BY <2>4, <2>5, <2>6 DEF SendsApart, Exists
<1> QED BY <1>3, <1>4, <1>5, <1>6, PromptSteps

LEMMA SendsApartAlways == Spec => []SendsApart
<1>1. Init => SendsApart
      BY SendsApartInit
<1>2. Typed /\ ServerOK /\ SendsApart /\ [Next]_vars => SendsApart'
      BY SendsApartStep
<1> QED BY <1>1, <1>2, TypedAlways, ServerOKAlways, PTL DEF Spec

-----------------------------------------------------------------------------
(* The ids of the messages of a page. *)

\* The ids of ms are one each, but for prompts that a fetch brought before their own answer.
Apart(ms) ==
    \A i, j \in DOMAIN ms : ms[i].id = ms[j].id =>
        i = j \/ (ms[i].id[1] = "prompt" /\ ms[i].id[2] \in crossed)

\* A prompt without its answer is of the conversation it was sent in, and the prompt the answer
\* will make of it is there only when a fetch brought it; prompts and replies are of runs that exist.
KeysFit(c) ==
    /\ Apart(messages[c])
    /\ \A a \in Sends : Has(messages[c], <<"temp", a>>) =>
          /\ send[a].step # "none" /\ send[a].conv = c
          /\ send[a].run # NoRun /\ Has(messages[c], <<"prompt", send[a].run>>) => send[a].run \in crossed
    /\ \A r \in Runs : Has(messages[c], <<"prompt", r>>) \/ Has(messages[c], <<"reply", r>>) => Exists(r)
AllKeysFit == \A c \in Conversations : KeysFit(c)

LEMMA NoKeys == Apart(<<>>) /\ \A id : ~Has(<<>>, id)
<1>1. DOMAIN <<>> = {}
      OBVIOUS
<1> QED BY <1>1 DEF Apart, Has

LEMMA AllKeysFitInit == Init => AllKeysFit
<1> SUFFICES ASSUME Init PROVE AllKeysFit
    OBVIOUS
<1>1. \A c \in Conversations : messages[c] = <<>>
      BY DEF Init
<1>2. \A c \in Conversations : Apart(messages[c]) /\ \A id : ~Has(messages[c], id)
      BY <1>1, NoKeys
<1> QED BY <1>2 DEF AllKeysFit, KeysFit

LEMMA CrossedSteps ==
    ASSUME Typed, Next
    PROVE  Reload \/ crossed \subseteq crossed'
<1>0. CASE ApplyFetch
  <2>1. crossed' = crossed \cup Unanswered(fetch.conv, fetch.rows)
        BY <1>0 DEF ApplyFetch
  <2>2. crossed \subseteq crossed'
        BY <2>1
  <2> QED BY <2>2
<1>1. CASE HandleEvent \/ RunEffects \/ AnswerFetch \/ FetchFails
  <2>1. crossed' = crossed
        BY <1>1 DEF HandleEvent, RunEffects, AnswerFetch, FetchFails, history
  <2> QED BY <2>1
<1>2. CASE LoadStep \/ LoadWithout \/ LoadFails \/ ApplyLoad \/ Probe \/ StaleLoadEnds \/ RefreshHealth
      BY <1>2 DEF LoadStep, LoadWithout, LoadFails, ApplyLoad, Probe, StaleLoadEnds, RefreshHealth, history
<1>3. CASE ChangeGate
      BY <1>3 DEF ChangeGate, history
<1>4. ASSUME NEW c \in Conversations, SelectConversation(c) \/ NewConversation(c) \/ OtherTab(c)
      PROVE  crossed' = crossed
      BY <1>4 DEF SelectConversation, NewConversation, OtherTab, history
<1>5. ASSUME NEW a \in Sends, Send(a) \/ TakeSend(a) \/ ApplySent(a) \/ FailSend(a) PROVE crossed' = crossed
      BY <1>5 DEF Send, TakeSend, ApplySent, FailSend, history
<1>6. ASSUME NEW op, NEW r, Click(op, r) PROVE crossed' = crossed
      BY <1>6 DEF Click, history
<1>7. ASSUME NEW k \in clicks, TakeClick(k) \/ ApplyResolved(k) \/ LoseClick(k) PROVE crossed' = crossed
      BY <1>7 DEF TakeClick, ApplyResolved, LoseClick, history
<1>8. ASSUME NEW r \in Runs, Work(r) PROVE crossed' = crossed
      BY <1>8 DEF Work, history
<1> QED BY <1>0, <1>1, <1>2, <1>3, <1>4, <1>5, <1>6, <1>7, <1>8 DEF Next

\* What is shown fits still when nothing is added to it but what exists.
LEMMA KeysKept ==
    ASSUME Typed, AllKeysFit, SendsApart, Grows, NEW c \in Conversations, crossed \subseteq crossed',
           Apart(messages[c])',
           \A a \in Sends : Has(messages'[c], <<"temp", a>>) => Has(messages[c], <<"temp", a>>) /\ SendKept(a),
           \A a \in Sends : /\ send[a].run # NoRun /\ Has(messages[c], <<"temp", a>>)
                            /\ Has(messages'[c], <<"temp", a>>)
                            /\ Has(messages'[c], <<"prompt", send[a].run>>)
                            => Has(messages[c], <<"prompt", send[a].run>>) \/ send[a].run \in crossed',
           \A r \in Runs : /\ Has(messages'[c], <<"prompt", r>>) \/ Has(messages'[c], <<"reply", r>>)
                           => \/ Has(messages[c], <<"prompt", r>>) \/ Has(messages[c], <<"reply", r>>)
                              \/ Exists(r)
    PROVE  KeysFit(c)'
<1>1. ASSUME NEW a \in Sends, Has(messages'[c], <<"temp", a>>)
      PROVE  /\ send'[a].step # "none" /\ send'[a].conv = c
             /\ send'[a].run # NoRun /\ Has(messages'[c], <<"prompt", send'[a].run>>) => send'[a].run \in crossed'
  <2>1. Has(messages[c], <<"temp", a>>) /\ SendKept(a)
        BY <1>1
  <2>2. /\ send[a].step # "none" /\ send[a].conv = c
        /\ send[a].run # NoRun /\ Has(messages[c], <<"prompt", send[a].run>>) => send[a].run \in crossed
        BY <2>1 DEF AllKeysFit, KeysFit
  <2>3. send'[a].run = send[a].run /\ send'[a].conv = send[a].conv /\ send'[a].step # "none"
        BY <2>1, <2>2 DEF SendKept
  <2> QED BY <1>1, <2>1, <2>2, <2>3
<1>2. ASSUME NEW r \in Runs, Has(messages'[c], <<"prompt", r>>) \/ Has(messages'[c], <<"reply", r>>)
      PROVE  conv'[r] # NoConversation
  <2>1. Exists(r)
        BY <1>2 DEF AllKeysFit, KeysFit
  <2> QED BY <2>1 DEF Grows, Exists
<1> QED BY <1>1, <1>2 DEF KeysFit, Exists, Apart

\* Messages that stay as they are.
LEMMA KeysStay ==
    ASSUME Typed, AllKeysFit, SendsApart, Grows, NEW c \in Conversations, crossed \subseteq crossed',
           messages'[c] = messages[c], \A a \in Sends : SendKept(a)
    PROVE  KeysFit(c)'
<1>1. Apart(messages[c])'
      BY DEF AllKeysFit, KeysFit, Apart
<1> QED BY <1>1, KeysKept

LEMMA KeysOfEvent ==
    ASSUME Typed, ServerOK, AllKeysFit, SendsApart, Grows, HandleEvent, NEW c \in Conversations
    PROVE  KeysFit(c)'
<1>0. /\ messages \in [Conversations -> Seq(Messages)] /\ messages[c] \in Seq(Messages)
      /\ active \in Conversations \cup {NoConversation}
      BY DEF Typed, LinkTyped
<1>1. crossed' = crossed /\ \A a \in Sends : SendKept(a)
      BY DEF HandleEvent, netVars, SendKept
<1>2. CASE messages'[c] = messages[c]
      BY <1>1, <1>2, KeysStay
<1>3. ASSUME active = c, NEW e \in Events, messages'[c] = MessagesAfter(e, messages[c]), Exists(e.run)
      PROVE  KeysFit(c)'
  <2> DEFINE old == messages[c]
             id == <<"reply", e.run>>
  <2>0. Apart(old)
        BY DEF AllKeysFit, KeysFit
  <2>1. CASE /\ DOMAIN messages'[c] = DOMAIN old
             /\ \A i \in DOMAIN old : messages'[c][i].id = old[i].id
    <3>1. \A x : Has(messages'[c], x) <=> Has(old, x)
          BY <2>1 DEF Has
    <3>2. Apart(messages[c])'
          BY <1>1, <2>0, <2>1 DEF Apart
    <3> QED BY <1>1, <3>1, <3>2, KeysKept
  <2>2. ASSUME NEW m \in Messages, ~Has(old, id), messages'[c] = Append(old, m), m.id = id
        PROVE  KeysFit(c)'
    <3>1. /\ \A i \in DOMAIN messages'[c] : \/ messages'[c][i] = m
                                            \/ i \in DOMAIN old /\ messages'[c][i] = old[i]
          /\ \A x : Has(messages'[c], x) <=> Has(old, x) \/ x = id
      <4>1. old \in Seq(Messages) /\ ~Has(old, m.id) /\ messages'[c] = Append(old, m) /\ m.id = id
            BY <1>0, <2>2
      <4> HIDE DEF old, id
      <4> QED BY <4>1, OnceMore
    <3>2. Apart(messages[c])'
      <4> SUFFICES ASSUME NEW i \in DOMAIN messages'[c], NEW j \in DOMAIN messages'[c],
                          messages'[c][i].id = messages'[c][j].id
                   PROVE  \/ i = j
                          \/ messages'[c][i].id[1] = "prompt" /\ messages'[c][i].id[2] \in crossed'
          BY DEF Apart
      <4>1. CASE i \in DOMAIN old /\ messages'[c][i] = old[i] /\ j \in DOMAIN old /\ messages'[c][j] = old[j]
            BY <1>1, <2>0, <4>1 DEF Apart
      <4>2. ASSUME NEW k \in DOMAIN old PROVE old[k].id # m.id
            BY <2>2 DEF Has
      <4>3. CASE messages'[c][i] = m /\ messages'[c][j] = m
        <5>1. /\ DOMAIN messages'[c] = 1 .. (Len(old) + 1) /\ DOMAIN old = 1 .. Len(old) /\ Len(old) \in Nat
              /\ \A k \in DOMAIN old : messages'[c][k] = old[k]
              BY <1>0, <2>2, AppendShape
        <5>2. i \notin DOMAIN old /\ j \notin DOMAIN old
              BY <4>2, <4>3, <5>1
        <5> HIDE DEF old
        <5> QED BY <5>1, <5>2
      <4> QED BY <3>1, <4>1, <4>2, <4>3
    <3>3. \A r \in Runs : Has(messages'[c], <<"prompt", r>>) \/ Has(messages'[c], <<"reply", r>>) =>
              Has(old, <<"prompt", r>>) \/ Has(old, <<"reply", r>>) \/ Exists(r)
          BY <1>3, <3>1
    <3>4. /\ \A a \in Sends : Has(messages'[c], <<"temp", a>>) => Has(old, <<"temp", a>>)
          /\ \A r : Has(messages'[c], <<"prompt", r>>) => Has(old, <<"prompt", r>>)
          BY <3>1
    <3> QED BY <1>1, <3>2, <3>3, <3>4, KeysKept
  <2>3. \/ /\ DOMAIN messages'[c] = DOMAIN old
           /\ \A i \in DOMAIN old : /\ old[i].id # id => messages'[c][i] = old[i]
                                    /\ old[i].id = id => messages'[c][i].id = old[i].id
        \/ \E m \in Messages : ~Has(old, id) /\ messages'[c] = Append(old, m) /\ m.id = id
    <3>1. old \in Seq(Messages) /\ messages'[c] = MessagesAfter(e, old)
          BY <1>0, <1>3
    <3> HIDE DEF old
    <3> QED BY <3>1, AfterShape
  <2> HIDE DEF old, id
  <2>4. CASE /\ DOMAIN messages'[c] = DOMAIN old
             /\ \A i \in DOMAIN old : /\ old[i].id # id => messages'[c][i] = old[i]
                                      /\ old[i].id = id => messages'[c][i].id = old[i].id
    <3>1. \A i \in DOMAIN old : messages'[c][i].id = old[i].id
          BY <2>4
    <3> QED BY <2>1, <2>4, <3>1
  <2> QED BY <2>2, <2>3, <2>4
<1>4. CASE active = c
  <2>1. PICK e \in Events : /\ e = events[stream][position + 1] /\ Exists(e.run)
        BY EventHandled
  <2>2. messages'[c] = MessagesAfter(e, messages[c])
        BY <1>0, <1>4, <2>1, ServerAssumption DEF HandleEvent
  <2> QED BY <1>3, <1>4, <2>1, <2>2
<1>5. CASE active # c
  <2>1. messages'[c] = messages[c]
        BY <1>0, <1>5 DEF HandleEvent
  <2> QED BY <1>2, <2>1
<1> QED BY <1>4, <1>5

\* A merge has the ids of what was fetched, and of what the page has besides.
LEMMA KeysOfFetch ==
    ASSUME Typed, AllKeysFit, SendsApart, RowsOK, Grows, ApplyFetch, NEW c \in Conversations
    PROVE  KeysFit(c)'
<1>0. /\ messages \in [Conversations -> Seq(Messages)] /\ messages[c] \in Seq(Messages)
      /\ fetch.rows \in Seq(Messages) /\ RowsFit(fetch.rows)
      BY DEF Typed, StreamTyped, Fetches, RowsOK
<1>1. /\ crossed' = crossed \cup Unanswered(fetch.conv, fetch.rows)
      /\ \A a \in Sends : SendKept(a)
      BY DEF ApplyFetch, netVars, SendKept
<1>2. CASE fetch.conv # c
  <2>1. messages'[c] = messages[c]
        BY <1>0, <1>2 DEF ApplyFetch
  <2> QED BY <1>1, <2>1, KeysStay
<1>3. CASE fetch.conv = c
  <2> DEFINE old == messages[c]
             ms == fetch.rows
             at(k) == Nth(Kept(old, ms), k - Len(ms))
             new == messages'[c]
  <2>0. /\ old \in Seq(Messages) /\ ms \in Seq(Messages) /\ Apart(old)
        /\ new = MergeFetched(old, ms)
    <3>1. messages' = [messages EXCEPT ![c] = MergeFetched(messages[c], fetch.rows)]
          BY <1>3 DEF ApplyFetch
    <3> QED BY <1>0, <3>1 DEF AllKeysFit, KeysFit
  <2>1. /\ \A k \in DOMAIN new :
                \/ k \in DOMAIN ms /\ new[k].id = ms[k].id
                \/ /\ k \notin DOMAIN ms /\ at(k) \in DOMAIN old
                   /\ ~Has(ms, old[at(k)].id) /\ new[k] = old[at(k)]
        /\ \A k, l \in DOMAIN new :
                k \notin DOMAIN ms /\ l \notin DOMAIN ms /\ at(k) = at(l) => k = l
    <3> HIDE DEF old, ms, new
    <3> QED BY <2>0, MergeShape
  <2>2. \A id : Has(new, id) => Has(ms, id) \/ Has(old, id)
    <3> HIDE DEF old, ms, new, at
    <3> QED BY <2>1 DEF Has
  <2>3. Apart(messages[c])'
    <3> SUFFICES ASSUME NEW k \in DOMAIN new, NEW l \in DOMAIN new, new[k].id = new[l].id
                 PROVE  k = l \/ (new[k].id[1] = "prompt" /\ new[k].id[2] \in crossed')
        BY DEF Apart
    <3> HIDE DEF old, ms, new, at
    <3>1. CASE k \in DOMAIN ms /\ l \in DOMAIN ms
          BY <1>0, <2>1, <3>1 DEF RowsFit, OnceIn, ms
    <3>2. CASE k \in DOMAIN ms /\ l \notin DOMAIN ms
          BY <2>1, <3>2 DEF Has
    <3>3. CASE k \notin DOMAIN ms /\ l \in DOMAIN ms
          BY <2>1, <3>3 DEF Has
    <3>4. CASE k \notin DOMAIN ms /\ l \notin DOMAIN ms
      <4>1. at(k) = at(l) \/ (old[at(k)].id[1] = "prompt" /\ old[at(k)].id[2] \in crossed)
            BY <2>0, <2>1, <3>4 DEF Apart
      <4> QED BY <1>1, <2>1, <3>4, <4>1
    <3> QED BY <3>1, <3>2, <3>3, <3>4
  <2>4. \A id : Has(ms, id) => \E r \in Runs : Exists(r) /\ id \in {<<"prompt", r>>, <<"reply", r>>}
        BY <1>0 DEF RowsFit, Has
  <2>5. \A a \in Sends : Has(new, <<"temp", a>>) => Has(old, <<"temp", a>>)
        BY <2>2, <2>4
  <2>6. ASSUME NEW a \in Sends, send[a].run # NoRun, Has(old, <<"temp", a>>),
               Has(new, <<"prompt", send[a].run>>), ~Has(old, <<"prompt", send[a].run>>)
        PROVE  send[a].run \in crossed'
    <3>1. Has(ms, <<"prompt", send[a].run>>)
          BY <2>2, <2>6
    <3>2. send[a].run \in Runs
          BY <2>6 DEF Typed, SendTyped, Sendings
    <3>3. send[a].run \in Unanswered(c, ms)
          BY <2>6, <3>1, <3>2 DEF Unanswered
    <3> QED BY <1>1, <1>3, <3>3
  <2>7. ASSUME NEW r \in Runs, Has(new, <<"prompt", r>>) \/ Has(new, <<"reply", r>>)
        PROVE  \/ Has(old, <<"prompt", r>>) \/ Has(old, <<"reply", r>>)
               \/ Exists(r)
    <3>1. ASSUME NEW kind \in {"prompt", "reply"}, Has(ms, <<kind, r>>) PROVE Exists(r)
          BY <2>4, <3>1
    <3> QED BY <2>2, <2>7, <3>1
  <2>8. crossed \subseteq crossed'
        BY <1>1
  <2> QED BY <1>1, <2>3, <2>5, <2>6, <2>7, <2>8, KeysKept
<1> QED BY <1>2, <1>3

\* A prompt sent has an id that no message has.
LEMMA KeysOfSend ==
    ASSUME Typed, AllKeysFit, SendsApart, Grows, NEW a \in Sends, Send(a), NEW c \in Conversations
    PROVE  KeysFit(c)'
<1>0. /\ messages \in [Conversations -> Seq(Messages)] /\ messages[c] \in Seq(Messages)
      /\ KeysFit(c)
      BY DEF Typed, AllKeysFit
<1>1. /\ send[a].step = "none" /\ send'[a].step # "none"
      /\ send'[a].conv = active /\ send'[a].run = NoRun
      /\ \A b \in Sends \ {a} : send'[b] = send[b]
      /\ crossed' = crossed /\ conv' = conv
      BY SendIsSent DEF Send, history, serverVars
<1>2. ~Has(messages[c], <<"temp", a>>)
      BY <1>0, <1>1 DEF KeysFit
<1> DEFINE m == Message(<<"temp", a>>, NoRun, 0, "none")
<1>3. m \in Messages /\ m.id = <<"temp", a>>
  <2>1. "none" \in Cards /\ a \in Runs
        BY TypeNames, SendsAreRuns
  <2>2. m \in Messages
        BY <2>1, MessageIsMessage
  <2> QED BY <2>2 DEF Message
<1>4. messages' = [messages EXCEPT ![active] = Append(messages[active], m)]
      BY DEF Send
<1> HIDE DEF m
<1>5. CASE active # c
  <2>1. messages'[c] = messages[c]
        BY <1>0, <1>4, <1>5
  <2>2. ASSUME NEW b \in Sends, Has(messages[c], <<"temp", b>>) PROVE send'[b] = send[b]
        BY <1>1, <1>2, <2>2
  <2> QED BY <1>0, <1>1, <2>1, <2>2 DEF KeysFit, Apart, Exists
<1>6. CASE active = c
  <2>1. messages'[c] = Append(messages[c], m)
        BY <1>0, <1>4, <1>6
  <2>2. /\ \A i \in DOMAIN messages'[c] : \/ messages'[c][i] = m
                                          \/ i \in DOMAIN messages[c] /\ messages'[c][i] = messages[c][i]
        /\ \A id : Has(messages'[c], id) <=> Has(messages[c], id) \/ id = <<"temp", a>>
    <3>1. ~Has(messages[c], m.id)
          BY <1>2, <1>3
    <3>2. /\ \A i \in DOMAIN messages'[c] : \/ messages'[c][i] = m
                                            \/ i \in DOMAIN messages[c] /\ messages'[c][i] = messages[c][i]
          /\ \A id : Has(messages'[c], id) <=> Has(messages[c], id) \/ id = m.id
      <4>1. \A ms \in Seq(Messages) : ~Has(ms, m.id) =>
               /\ \A i \in DOMAIN Append(ms, m) : \/ Append(ms, m)[i] = m
                                                  \/ i \in DOMAIN ms /\ Append(ms, m)[i] = ms[i]
               /\ \A id : Has(Append(ms, m), id) <=> Has(ms, id) \/ id = m.id
            BY <1>3, OnceMore
      <4> QED BY <1>0, <2>1, <3>1, <4>1
    <3> QED BY <1>3, <3>2
  <2>3. /\ DOMAIN messages'[c] = 1 .. (Len(messages[c]) + 1) /\ DOMAIN messages[c] = 1 .. Len(messages[c])
        /\ Len(messages[c]) \in Nat
        /\ \A k \in DOMAIN messages[c] : messages'[c][k] = messages[c][k]
        BY <1>0, <1>3, <2>1, AppendShape
  <2>4. Apart(messages[c])'
    <3> SUFFICES ASSUME NEW i \in DOMAIN messages'[c], NEW j \in DOMAIN messages'[c],
                        messages'[c][i].id = messages'[c][j].id
                 PROVE  \/ i = j
                        \/ messages'[c][i].id[1] = "prompt" /\ messages'[c][i].id[2] \in crossed'
        BY DEF Apart
    <3>1. \A k \in DOMAIN messages[c] : messages[c][k].id # m.id
          BY <1>2, <1>3 DEF Has
    <3>2. CASE i \in DOMAIN messages[c] /\ j \in DOMAIN messages[c]
          BY <1>0, <1>1, <2>3, <3>2 DEF KeysFit, Apart
    <3>3. CASE i \notin DOMAIN messages[c] /\ j \notin DOMAIN messages[c]
          BY <2>3, <3>3
    <3>4. CASE i \in DOMAIN messages[c] <=> j \notin DOMAIN messages[c]
          BY <2>2, <2>3, <3>1, <3>4
    <3> QED BY <3>2, <3>3, <3>4
  <2>5. ASSUME NEW b \in Sends, Has(messages'[c], <<"temp", b>>)
        PROVE  /\ send'[b].step # "none" /\ send'[b].conv = c
               /\ send'[b].run # NoRun /\ Has(messages'[c], <<"prompt", send'[b].run>>)
                     => send'[b].run \in crossed'
    <3>1. CASE b = a
          BY <1>1, <1>6, <3>1
    <3>2. CASE b # a
      <4>1. send'[b] = send[b] /\ Has(messages[c], <<"temp", b>>)
            BY <1>1, <2>2, <2>5, <3>2
      <4>2. Has(messages'[c], <<"prompt", send'[b].run>>) => Has(messages[c], <<"prompt", send[b].run>>)
            BY <2>2, <4>1
      <4> QED BY <1>0, <1>1, <4>1, <4>2 DEF KeysFit
    <3> QED BY <3>1, <3>2
  <2>6. \A r \in Runs : Has(messages'[c], <<"prompt", r>>) \/ Has(messages'[c], <<"reply", r>>)
                        => conv'[r] # NoConversation
    <3>1. \A r \in Runs : Has(messages[c], <<"prompt", r>>) \/ Has(messages[c], <<"reply", r>>)
                          => conv'[r] # NoConversation
          BY <1>0, <1>1 DEF KeysFit, Exists
    <3> QED BY <2>2, <3>1
  <2> QED BY <2>4, <2>5, <2>6 DEF KeysFit, Exists
<1> QED BY <1>5, <1>6

\* The answer to a prompt gives its message the id of its run's prompt.
LEMMA KeysOfSent ==
    ASSUME Typed, AllKeysFit, SendsApart, Grows, NEW a \in Sends, ApplySent(a), NEW c \in Conversations
    PROVE  KeysFit(c)'
<1>0. /\ messages \in [Conversations -> Seq(Messages)] /\ messages[c] \in Seq(Messages)
      /\ send \in [Sends -> Sendings]
      /\ KeysFit(c)
      BY DEF Typed, AllKeysFit, SendTyped
<1>1. crossed' = crossed
      BY DEF ApplySent, history
<1>2. \A b \in Sends : SendKept(b)
  <2>1. send' = [send EXCEPT ![a] = [send[a] EXCEPT !.step = "done"]]
        BY <1>0 DEF ApplySent
  <2>2. LET s == [send[a] EXCEPT !.step = "done"]
        IN  s.step = "done" /\ s.run = send[a].run /\ s.conv = send[a].conv
        BY <1>0 DEF Sendings
  <2> QED BY <1>0, <2>1, <2>2 DEF SendKept
<1>3. PICK r \in Runs : r = send[a].run
      BY DEF ApplySent, Typed, SendTyped
<1>4. Exists(r) /\ r # NoRun
      BY <1>3, SendsAreRuns DEF SendsApart
<1>5. messages' = [messages EXCEPT ![send[a].conv] = Rename(messages[send[a].conv], a, r)]
      BY <1>3 DEF ApplySent
<1>6. CASE send[a].conv # c
  <2>1. messages'[c] = messages[c]
        BY <1>0, <1>5, <1>6
  <2> QED BY <1>1, <1>2, <2>1, KeysStay
<1>7. CASE send[a].conv = c
  <2>1. messages'[c] = Rename(messages[c], a, r)
        BY <1>0, <1>5, <1>7
  <2>2. /\ DOMAIN messages'[c] = DOMAIN messages[c]
        /\ \A i \in DOMAIN messages[c] :
              /\ messages[c][i].id # <<"temp", a>> => messages'[c][i].id = messages[c][i].id
              /\ messages[c][i].id = <<"temp", a>> => messages'[c][i].id = <<"prompt", r>>
        BY <1>0, <2>1, RenameShape
  <2>3. \A id : Has(messages'[c], id) =>
                   \/ id # <<"temp", a>> /\ Has(messages[c], id)
                   \/ id = <<"prompt", r>> /\ Has(messages[c], <<"temp", a>>)
        BY <2>2 DEF Has
  <2>4. Apart(messages[c])'
    <3> SUFFICES ASSUME NEW i \in DOMAIN messages'[c], NEW j \in DOMAIN messages'[c],
                        messages'[c][i].id = messages'[c][j].id
                 PROVE  \/ i = j
                        \/ messages'[c][i].id[1] = "prompt" /\ messages'[c][i].id[2] \in crossed'
        BY DEF Apart
    <3>0. \A x, y \in DOMAIN messages[c] : messages[c][x].id = messages[c][y].id =>
                x = y \/ (messages[c][x].id[1] = "prompt" /\ messages[c][x].id[2] \in crossed)
          BY <1>0 DEF KeysFit, Apart
    <3>1. CASE messages[c][i].id = <<"temp", a>> /\ messages[c][j].id = <<"temp", a>>
          BY <2>2, <3>0, <3>1
    <3>2. CASE messages[c][i].id # <<"temp", a>> /\ messages[c][j].id # <<"temp", a>>
          BY <1>1, <2>2, <3>0, <3>2
    <3>3. CASE \/ messages[c][i].id = <<"temp", a>> /\ messages[c][j].id # <<"temp", a>>
               \/ messages[c][i].id # <<"temp", a>> /\ messages[c][j].id = <<"temp", a>>
      <4>1. messages'[c][i].id = <<"prompt", r>>
            BY <2>2, <3>3
      <4>2. Has(messages[c], <<"prompt", r>>) /\ Has(messages[c], <<"temp", a>>)
            BY <2>2, <3>3 DEF Has
      <4>3. r \in crossed'
            BY <1>0, <1>1, <1>3, <1>4, <4>2 DEF KeysFit
      <4> QED BY <4>1, <4>3
    <3> QED BY <3>1, <3>2, <3>3
  <2>5. \A b \in Sends : Has(messages'[c], <<"temp", b>>) => Has(messages[c], <<"temp", b>>) /\ b # a
        BY <2>3
  <2>6. ASSUME NEW b \in Sends, send[b].run # NoRun, Has(messages'[c], <<"temp", b>>),
               Has(messages'[c], <<"prompt", send[b].run>>)
        PROVE  Has(messages[c], <<"prompt", send[b].run>>)
    <3>1. b # a /\ send[b].run # r
          BY <1>3, <2>5, <2>6 DEF SendsApart
    <3> QED BY <2>3, <2>6, <3>1
  <2>7. \A q \in Runs : Has(messages'[c], <<"prompt", q>>) \/ Has(messages'[c], <<"reply", q>>)
                        => \/ Has(messages[c], <<"prompt", q>>) \/ Has(messages[c], <<"reply", q>>)
                           \/ Exists(q)
        BY <1>4, <2>3
  <2> QED BY <1>1, <1>2, <2>4, <2>5, <2>6, <2>7, KeysKept
<1> QED BY <1>6, <1>7

LEMMA KeysFitStep ==
    ASSUME Typed, ServerOK, RowsOK, SendsApart, AllKeysFit, [Next]_vars
    PROVE  AllKeysFit'
<1>1. Grows
      BY StepGrows
<1>2. ASSUME NEW c \in Conversations, messages'[c] = messages[c], UNCHANGED <<conv, send, crossed>>
      PROVE  KeysFit(c)'
  <2>1. \A a \in Sends : SendKept(a)
        BY <1>2 DEF SendKept
  <2> QED BY <1>1, <1>2, <2>1, KeysStay
<1>3. CASE UNCHANGED vars
      BY <1>2, <1>3 DEF vars, serverVars, pageVars, netVars, history, AllKeysFit
<1>4. CASE HandleEvent
      BY <1>1, <1>4, KeysOfEvent DEF AllKeysFit
<1>5. CASE ApplyFetch
      BY <1>1, <1>5, KeysOfFetch DEF AllKeysFit
<1>6. ASSUME NEW a \in Sends, Send(a) PROVE AllKeysFit'
      BY <1>1, <1>6, KeysOfSend DEF AllKeysFit
<1>7. ASSUME NEW a \in Sends, ApplySent(a) PROVE AllKeysFit'
      BY <1>1, <1>7, KeysOfSent DEF AllKeysFit
<1>8. CASE Reload
  <2>1. \A c \in Conversations : messages'[c] = <<>>
        BY <1>8 DEF Reload
  <2>2. \A c \in Conversations : Apart(messages[c])' /\ \A id : ~Has(messages'[c], id)
        BY <2>1, NoKeys DEF Apart
  <2> QED BY <2>2 DEF AllKeysFit, KeysFit
<1>9. CASE ApplyLoad
  <2>1. ASSUME NEW c \in Conversations PROVE KeysFit(c)'
    <3>1. messages'[c] = load.rows \/ messages'[c] = <<>>
          BY <1>9 DEF ApplyLoad
    <3>2. RowsFit(messages'[c])
          BY <3>1, NothingFits DEF RowsOK
    <3>3. conv' = conv
          BY <1>9 DEF ApplyLoad, serverVars
    <3>4. \A id : Has(messages'[c], id) => \E r \in Runs : conv'[r] # NoConversation
                                               /\ id \in {<<"prompt", r>>, <<"reply", r>>}
          BY <3>2, <3>3 DEF RowsFit, Has, Exists
    <3>5. Apart(messages[c])'
          BY <3>2 DEF Apart, RowsFit, OnceIn
    <3>6. \A a : ~Has(messages'[c], <<"temp", a>>)
          BY <3>4
    <3>7. ASSUME NEW kind \in {"prompt", "reply"}, NEW r \in Runs, Has(messages'[c], <<kind, r>>)
          PROVE  conv'[r] # NoConversation
          BY <3>4, <3>7
    <3> QED BY <3>5, <3>6, <3>7 DEF KeysFit, Exists
  <2> QED BY <2>1 DEF AllKeysFit
<1>10. CASE UNCHANGED messages /\ Next /\ ~Reload
  <2>1. crossed \subseteq crossed'
        BY <1>10, CrossedSteps
  <2>2. CASE \A a \in Sends : SendKept(a)
        BY <1>1, <1>10, <2>1, <2>2, KeysStay DEF AllKeysFit
  <2>3. ASSUME NEW a \in Sends, TakeSend(a), NEW c \in Conversations PROVE KeysFit(c)'
    <3>1. PICK r \in Runs :
              /\ ~Exists(r)
              /\ send'[a].run = r /\ send'[a].conv = send[a].conv /\ send'[a].step = "back"
              /\ \A b \in Sends \ {a} : send'[b] = send[b]
          BY <2>3, Taken
    <3>2. KeysFit(c) /\ messages'[c] = messages[c]
          BY <1>10 DEF AllKeysFit
    <3>3. ~Has(messages[c], <<"prompt", r>>)
          BY <3>1, <3>2 DEF KeysFit
    <3>4. \A b \in Sends : Has(messages[c], <<"temp", b>>) =>
             /\ send'[b].step # "none" /\ send'[b].conv = c
             /\ send'[b].run # NoRun /\ Has(messages[c], <<"prompt", send'[b].run>>) => send'[b].run \in crossed'
          BY <2>1, <3>1, <3>2, <3>3 DEF KeysFit
    <3>5. \A q \in Runs : Has(messages[c], <<"prompt", q>>) \/ Has(messages[c], <<"reply", q>>)
                          => conv'[q] # NoConversation
          BY <1>1, <3>2 DEF KeysFit, Grows, Exists
    <3>6. Apart(messages[c])'
          BY <2>1, <3>2 DEF KeysFit, Apart
    <3> QED BY <3>2, <3>4, <3>5, <3>6 DEF KeysFit, Exists
  <2> QED BY <1>6, <1>10, <2>2, <2>3, PromptSteps DEF AllKeysFit
<1> QED BY <1>3, <1>4, <1>5, <1>6, <1>7, <1>8, <1>9, <1>10, MessageSteps

LEMMA KeysFitAlways == Spec => []AllKeysFit
<1>1. Init => AllKeysFit
      BY AllKeysFitInit
<1>2. Typed /\ ServerOK /\ RowsOK /\ SendsApart /\ AllKeysFit /\ [Next]_vars => AllKeysFit'
      BY KeysFitStep
<1> QED BY <1>1, <1>2, TypedAlways, ServerOKAlways, RowsOKAlways, SendsApartAlways, PTL DEF Spec

(***************************************************************************)
(* No two messages of a conversation have one id, unless a fetch brought a *)
(* prompt whose own answer was still to come (KeysAreUnique): an answer    *)
(* gives a message an id of the backend's, a fetch brings each row once    *)
(* and drops what it brings from what was shown, and an event adds a reply *)
(* only when there is none.                                                *)
(***************************************************************************)
THEOREM KeysAreUniqueAlways == Spec => []KeysAreUnique
<1>1. AllKeysFit => KeysAreUnique
      BY DEF AllKeysFit, KeysFit, Apart, KeysAreUnique
<1> QED BY <1>1, KeysFitAlways, PTL

-----------------------------------------------------------------------------
(* The text of a reply, and the chunks of it among the first events. *)

HeardIn(evs, r, n) == Cardinality({i \in 1 .. n : evs[i] = Event("message.delta", r)})

LEMMA HeardNext ==
    ASSUME NEW evs, NEW r, NEW n \in Nat
    PROVE  /\ HeardIn(evs, r, n) \in Nat
           /\ HeardIn(evs, r, n + 1) =
                  HeardIn(evs, r, n) + (IF evs[n + 1] = Event("message.delta", r) THEN 1 ELSE 0)
<1> DEFINE S == {i \in 1 .. n : evs[i] = Event("message.delta", r)}
           T == {i \in 1 .. (n + 1) : evs[i] = Event("message.delta", r)}
<1>1. IsFiniteSet(1 .. n)
      BY FS_Interval
<1>2. IsFiniteSet(S) /\ Cardinality(S) \in Nat
      BY <1>1, FS_Subset, FS_CardinalityType
<1>3. n + 1 \notin S /\ 1 .. (n + 1) = (1 .. n) \cup {n + 1}
      OBVIOUS
<1>4. T = IF evs[n + 1] = Event("message.delta", r) THEN S \cup {n + 1} ELSE S
      BY <1>3
<1>5. HeardIn(evs, r, n) = Cardinality(S) /\ HeardIn(evs, r, n + 1) = Cardinality(T)
      BY DEF HeardIn
<1> HIDE DEF S, T
<1>6. Cardinality(S \cup {n + 1}) = Cardinality(S) + 1
      BY <1>2, <1>3, FS_AddElement
<1> QED BY <1>2, <1>4, <1>5, <1>6

LEMMA HeardSame ==
    ASSUME NEW evs, NEW all, NEW r, NEW n, \A i \in 1 .. n : all[i] = evs[i]
    PROVE  HeardIn(all, r, n) = HeardIn(evs, r, n)
<1>1. {i \in 1 .. n : all[i] = Event("message.delta", r)} = {i \in 1 .. n : evs[i] = Event("message.delta", r)}
      OBVIOUS
<1> QED BY <1>1 DEF HeardIn

LEMMA HeardNone ==
    ASSUME NEW evs, NEW r, NEW n, \A i \in 1 .. n : evs[i] # Event("message.delta", r)
    PROVE  HeardIn(evs, r, n) = 0
<1>1. {i \in 1 .. n : evs[i] = Event("message.delta", r)} = {}
      OBVIOUS
<1> QED BY <1>1, FS_EmptySet DEF HeardIn

\* A run has one reply at most.
OneReply(ms, r) ==
    \A i, j \in DOMAIN ms : ms[i].id = <<"reply", r>> /\ ms[j].id = <<"reply", r>> => i = j

\* The replies of r in new have the text of one in ms, and d chunks more.
Adds(ms, new, r, d) ==
    \A k \in DOMAIN new : new[k].id = <<"reply", r>> =>
        \E i \in DOMAIN ms : ms[i].id = <<"reply", r>> /\ new[k].text = ms[i].text + d

LEMMA TextOfType ==
    ASSUME NEW ms \in Seq(Messages), NEW r
    PROVE  TextOf(ms, r) \in Nat
<1>1. CASE Has(ms, <<"reply", r>>)
  <2> DEFINE k == CHOOSE i \in DOMAIN ms : ms[i].id = <<"reply", r>>
  <2>1. k \in DOMAIN ms
        BY <1>1, HasMember
  <2>2. TextOf(ms, r) = ms[k].text
        BY <1>1 DEF TextOf
  <2> HIDE DEF k
  <2>3. ms[k] \in Messages
        BY <2>1
  <2> QED BY <2>2, <2>3, MessageFields
<1>2. CASE ~Has(ms, <<"reply", r>>)
      BY <1>2 DEF TextOf
<1> QED BY <1>1, <1>2

\* When every reply of r's has a text that one of ms had, and d chunks more, so has the one shown.
LEMMA TextGrows ==
    ASSUME NEW ms, NEW r, NEW d, NEW new, OneReply(ms, r),
           Has(ms, <<"reply", r>>), Has(new, <<"reply", r>>), Adds(ms, new, r, d)
    PROVE  TextOf(new, r) = TextOf(ms, r) + d
<1> DEFINE k == CHOOSE i \in DOMAIN new : new[i].id = <<"reply", r>>
           j == CHOOSE i \in DOMAIN ms : ms[i].id = <<"reply", r>>
<1>1. k \in DOMAIN new /\ new[k].id = <<"reply", r>> /\ j \in DOMAIN ms /\ ms[j].id = <<"reply", r>>
      BY HasMember
<1>2. TextOf(new, r) = new[k].text /\ TextOf(ms, r) = ms[j].text
      BY DEF TextOf
<1> HIDE DEF k, j
<1>3. PICK i \in DOMAIN ms : ms[i].id = <<"reply", r>> /\ new[k].text = ms[i].text + d
      BY <1>1 DEF Adds
<1>4. i = j
      BY <1>1, <1>3 DEF OneReply
<1> QED BY <1>2, <1>3, <1>4

LEMMA TextKept ==
    ASSUME NEW ms \in Seq(Messages), NEW r, NEW new, OneReply(ms, r),
           Has(ms, <<"reply", r>>) <=> Has(new, <<"reply", r>>),
           \A k \in DOMAIN new : new[k].id = <<"reply", r>> =>
               \E i \in DOMAIN ms : ms[i].id = <<"reply", r>> /\ new[k].text = ms[i].text
    PROVE  TextOf(new, r) = TextOf(ms, r)
<1>1. CASE Has(ms, <<"reply", r>>)
  <2>1. \A i \in DOMAIN ms : ms[i].text = ms[i].text + 0
    <3>1. \A i \in DOMAIN ms : ms[i].text \in Nat
          BY MessageFields
    <3> QED BY <3>1
  <2>2. TextOf(new, r) = TextOf(ms, r) + 0
    <3>1. Adds(ms, new, r, 0)
          BY <2>1 DEF Adds
    <3>2. Has(new, <<"reply", r>>)
          BY <1>1
    <3> QED BY <1>1, <3>1, <3>2, TextGrows
  <2> QED BY <2>2, TextOfType
<1>2. CASE ~Has(ms, <<"reply", r>>)
      BY <1>2 DEF TextOf
<1> QED BY <1>1, <1>2

\* An event adds a chunk to the reply of its run, and to no other.
LEMMA TextAfter ==
    ASSUME NEW ms \in Seq(Messages), NEW e \in Events, NEW r \in Runs, OneReply(ms, r)
    PROVE  TextOf(MessagesAfter(e, ms), r) =
               TextOf(ms, r) + (IF e = Event("message.delta", r) THEN 1 ELSE 0)
<1> DEFINE new == MessagesAfter(e, ms)
           at == <<"reply", e.run>>
           id == <<"reply", r>>
           chunk == IF e.type = "message.delta" THEN 1 ELSE 0
<1>0. /\ TextOf(ms, r) \in Nat
      /\ \A i \in DOMAIN ms : ms[i].text \in Nat
      /\ e = Event("message.delta", r) <=> e.type = "message.delta" /\ e.run = r
      /\ at = id <=> e.run = r
      BY TextOfType, MessageFields DEF Events, Event
<1>1. \/ /\ DOMAIN new = DOMAIN ms
         /\ \A i \in DOMAIN ms : /\ ms[i].id # at => new[i] = ms[i]
                                 /\ ms[i].id = at => new[i].id = ms[i].id /\ new[i].text = ms[i].text + chunk
         /\ e.type \in {"message.delta", "tool.started"} => Has(ms, at)
      \/ \E m \in Messages : ~Has(ms, at) /\ new = Append(ms, m) /\ m.id = at /\ m.text = chunk
  <2> HIDE DEF new
  <2> QED BY AfterShape DEF new
<1>2. CASE /\ DOMAIN new = DOMAIN ms
           /\ \A i \in DOMAIN ms : /\ ms[i].id # at => new[i] = ms[i]
                                   /\ ms[i].id = at => new[i].id = ms[i].id /\ new[i].text = ms[i].text + chunk
           /\ e.type \in {"message.delta", "tool.started"} => Has(ms, at)
  <2> HIDE DEF new, chunk
  <2>1. \A i \in DOMAIN ms : new[i].id = ms[i].id
        BY <1>2
  <2>2. Has(new, id) <=> Has(ms, id)
        BY <1>2, <2>1 DEF Has
  <2>3. CASE e.run = r
    <3>1. CASE Has(ms, id)
      <4>1. \A k \in DOMAIN new : new[k].id = id => ms[k].id = id /\ new[k].text = ms[k].text + chunk
            BY <1>2, <2>1, <2>3
      <4>2. \A k \in DOMAIN new : new[k].id = id => k \in DOMAIN ms /\ ms[k].id = id /\ new[k].text = ms[k].text + chunk
            BY <1>2, <4>1
      <4>3. Adds(ms, new, r, chunk)
            BY <4>2 DEF Adds
      <4>4. TextOf(new, r) = TextOf(ms, r) + chunk
            BY <2>2, <3>1, <4>3, TextGrows
      <4> QED BY <1>0, <2>3, <4>4 DEF chunk, new
    <3>2. CASE ~Has(ms, id)
      <4>1. e.type # "message.delta"
            BY <1>2, <2>3, <3>2
      <4> QED BY <1>0, <2>2, <3>2, <4>1 DEF TextOf, new
    <3> QED BY <3>1, <3>2
  <2>4. CASE e.run # r
    <3>1. \A k \in DOMAIN new : new[k].id = id => k \in DOMAIN ms /\ ms[k].id = id /\ new[k].text = ms[k].text
          BY <1>0, <1>2, <2>1, <2>4
    <3>2. TextOf(new, r) = TextOf(ms, r)
          BY <2>2, <3>1, TextKept
    <3> QED BY <1>0, <2>4, <3>2 DEF new
  <2> QED BY <2>3, <2>4
<1>3. ASSUME NEW m \in Messages, ~Has(ms, at), new = Append(ms, m), m.id = at, m.text = chunk
      PROVE  TextOf(new, r) = TextOf(ms, r) + (IF e = Event("message.delta", r) THEN 1 ELSE 0)
  <2>1. /\ \A k \in DOMAIN new : new[k] = m \/ (k \in DOMAIN ms /\ new[k] = ms[k])
        /\ \A x : Has(new, x) <=> Has(ms, x) \/ x = at
    <3>1. ~Has(ms, m.id)
          BY <1>3
    <3> HIDE DEF new, at
    <3> QED BY <1>3, <3>1, OnceMore
  <2> HIDE DEF new
  <2>2. CASE e.run = r
    <3> DEFINE k == CHOOSE i \in DOMAIN new : new[i].id = id
    <3>1. Has(new, id)
          BY <2>1, <2>2
    <3>2. k \in DOMAIN new /\ new[k].id = id
          BY <3>1, HasMember
    <3>3. TextOf(new, r) = new[k].text
          BY <3>1 DEF TextOf
    <3> HIDE DEF k
    <3>4. new[k] = m
          BY <1>3, <2>1, <2>2, <3>2 DEF Has
    <3>5. TextOf(ms, r) = 0
          BY <1>3, <2>2 DEF TextOf
    <3> QED BY <1>0, <1>3, <2>2, <3>3, <3>4, <3>5
  <2>3. CASE e.run # r
    <3>1. Has(ms, id) <=> Has(new, id)
          BY <1>0, <2>1, <2>3
    <3>2. \A k \in DOMAIN new : new[k].id = id => k \in DOMAIN ms /\ ms[k].id = id /\ new[k].text = ms[k].text
          BY <1>0, <1>3, <2>1, <2>3
    <3>3. TextOf(new, r) = TextOf(ms, r)
          BY <3>1, <3>2, TextKept
    <3> QED BY <1>0, <2>3, <3>3
  <2> QED BY <2>2, <2>3
<1> HIDE DEF new, chunk
<1> QED BY <1>1, <1>2, <1>3 DEF new

\* The texts called exact are what the events say, up to where the page would follow from.
TextStands(r, c) ==
    \A n \in {Place(c, stream, position, stored), stored[c]} :
        TextOf(messages[c], r) = HeardIn(events[c], r, n)
TextFollows == \A r \in exact : Exists(r) => TextStands(r, conv[r])

LEMMA TextFollowsInit == Init => TextFollows
<1> SUFFICES ASSUME Init PROVE TextFollows
    OBVIOUS
<1>1. \A r \in Runs : ~Exists(r)
      BY DEF Init, ServerInit, Exists
<1>2. exact = Runs
      BY DEF Init
<1> QED BY <1>1, <1>2 DEF TextFollows

\* The steps of a page by what they do to the texts and to where it stands.
LEMMA TextSteps ==
    ASSUME Typed, Next
    PROVE  \/ HandleEvent
           \/ ApplyFetch \/ ApplyLoad \/ Reload
           \/ \E c \in Conversations : OtherTab(c)
           \/ /\ \E c \in Conversations \cup {NoConversation} : Follow(c)
              /\ UNCHANGED <<serverVars, messages, stored, exact>>
           \/ /\ \E a \in Sends : Send(a) \/ ApplySent(a)
              /\ UNCHANGED <<serverVars, stream, position, stored, exact>>
           \/ UNCHANGED <<messages, stream, position, stored, exact>>
<1> DEFINE Quiet == UNCHANGED <<messages, stream, position, stored, exact>>
<1>0. active \in Conversations \cup {NoConversation}
      BY DEF Typed, LinkTyped
<1>1. CASE AnswerFetch \/ FetchFails
  <2>1. Quiet
        BY <1>1 DEF AnswerFetch, FetchFails, history
  <2> QED BY <2>1
<1>2. CASE LoadStep \/ LoadWithout \/ LoadFails \/ Probe \/ StaleLoadEnds \/ RefreshHealth
  <2>1. Quiet
        BY <1>2 DEF LoadStep, LoadWithout, LoadFails, Probe, StaleLoadEnds, RefreshHealth, history
  <2> QED BY <2>1
<1>3. ASSUME NEW c \in Conversations, NewConversation(c) PROVE Quiet
      BY <1>3 DEF NewConversation, history
<1>4. ASSUME NEW c \in Conversations, SelectConversation(c)
      PROVE  /\ \E d \in Conversations \cup {NoConversation} : Follow(d)
             /\ UNCHANGED <<serverVars, messages, stored, exact>>
      BY <1>4 DEF SelectConversation, Wanted
<1>5. ASSUME RunEffects
      PROVE  /\ \E d \in Conversations \cup {NoConversation} : Follow(d)
             /\ UNCHANGED <<serverVars, messages, stored, exact>>
  <2>1. Wanted(connection, active) \in Conversations \cup {NoConversation}
        BY <1>0 DEF Wanted
  <2> QED BY <1>5, <2>1 DEF RunEffects
<1>6. ASSUME NEW a \in Sends, TakeSend(a) \/ FailSend(a) PROVE Quiet
      BY <1>6 DEF TakeSend, FailSend, pageVars, history
<1>7. ASSUME NEW op, NEW r, Click(op, r) PROVE Quiet
      BY <1>7 DEF Click, pageVars, history
<1>8. ASSUME NEW k \in clicks, TakeClick(k) \/ ApplyResolved(k) \/ LoseClick(k) PROVE Quiet
      BY <1>8 DEF TakeClick, ApplyResolved, LoseClick, pageVars, history
<1>9. ASSUME NEW r \in Runs, Work(r) PROVE Quiet
      BY <1>9 DEF Work, pageVars, history
<1>10. CASE ChangeGate
  <2>1. Quiet
        BY <1>10 DEF ChangeGate, pageVars, history
  <2> QED BY <2>1
<1>11. ASSUME NEW a \in Sends, Send(a) \/ ApplySent(a)
       PROVE  UNCHANGED <<serverVars, stream, position, stored, exact>>
       BY <1>11 DEF Send, ApplySent, history
<1> HIDE DEF Quiet
<1> QED BY <1>1, <1>2, <1>3, <1>4, <1>5, <1>6, <1>7, <1>8, <1>9, <1>10, <1>11 DEF Next, Quiet

LEMMA OneReplyHere ==
    ASSUME AllKeysFit, NEW c \in Conversations, NEW r \in Runs
    PROVE  /\ OneReply(messages[c], r)
           /\ ~Exists(r) => TextOf(messages[c], r) = 0
<1>1. KeysFit(c)
      BY DEF AllKeysFit
<1>2. OneReply(messages[c], r)
      BY <1>1 DEF KeysFit, Apart, OneReply
<1>3. ~Exists(r) => ~Has(messages[c], <<"reply", r>>)
      BY <1>1 DEF KeysFit
<1> QED BY <1>2, <1>3 DEF TextOf

\* An event handled for its conversation: the text and the place go on together.
LEMMA TextOfEvent ==
    ASSUME Typed, ServerOK, StreamIsSeen, AllKeysFit, TextFollows, HandleEvent
    PROVE  TextFollows'
<1>0. PICK s \in Conversations : s = stream
      BY EventHandled
<1>1. PICK e \in Events : e = events[s][position + 1]
      BY <1>0, EventHandled
<1>2. /\ position \in Nat /\ position + 1 \in 1 .. Len(events[s])
      /\ e.run \in Runs /\ e = Event(e.type, e.run)
      /\ conv[e.run] = s
      /\ position' = position + 1 /\ stored' = [stored EXCEPT ![s] = position + 1]
      /\ UNCHANGED <<conv, events, stream>>
      BY <1>0, <1>1, EventHandled DEF serverVars
<1>3. /\ stored \in [Conversations -> Nat] /\ messages \in [Conversations -> Seq(Messages)]
      /\ conv \in [Runs -> Conversations \cup {NoConversation}] /\ exact \subseteq Runs
      /\ active \in Conversations \cup {NoConversation} /\ NoConversation \notin Conversations
      BY ServerAssumption DEF Typed, HistoryTyped, ServerTypeOK, LinkTyped
<1>4. /\ exact' = IF active # s THEN exact \ {e.run} ELSE exact
      /\ \A c \in Conversations : c # active => messages'[c] = messages[c]
      /\ \A c \in Conversations : c = active => messages'[c] = MessagesAfter(e, messages[c])
      BY <1>0, <1>1, <1>3 DEF HandleEvent
<1>5. \A r : HeardIn(events[s], r, position + 1) =
                 HeardIn(events[s], r, position) + (IF e = Event("message.delta", r) THEN 1 ELSE 0)
      BY <1>1, <1>2, HeardNext
<1>50. \A r : HeardIn(events[s], r, position) \in Nat
      BY <1>2, HeardNext
<1>6. ASSUME NEW r \in exact', Exists(r), NEW c \in Conversations, c = conv[r]
      PROVE  TextStands(r, c)'
  <2>0. r \in exact /\ r \in Runs /\ TextStands(r, c) /\ OneReply(messages[c], r)
    <3>1. r \in exact /\ r \in Runs
          BY <1>3, <1>4, <1>6
    <3> QED BY <1>6, <3>1, OneReplyHere DEF TextFollows
  <2>1. e # Event("message.delta", r) => TextOf(messages'[c], r) = TextOf(messages[c], r)
    <3>1. CASE c = active
      <4>1. messages'[c] = MessagesAfter(e, messages[c]) /\ messages[c] \in Seq(Messages)
            BY <1>3, <1>4, <3>1
      <4>2. ASSUME e # Event("message.delta", r) PROVE TextOf(messages'[c], r) = TextOf(messages[c], r)
        <5>1. TextOf(messages'[c], r) = TextOf(messages[c], r) + 0
              BY <2>0, <4>1, <4>2, TextAfter
        <5>2. TextOf(messages[c], r) \in Nat
              BY <4>1, TextOfType
        <5> QED BY <5>1, <5>2
      <4> QED BY <4>2
    <3>2. CASE c # active
          BY <1>4, <3>2
    <3> QED BY <3>1, <3>2
  <2>2. CASE c # s
    <3>1. e # Event("message.delta", r)
          BY <1>2, <1>6, <2>2 DEF Event
    <3>2. stored'[c] = stored[c] /\ stream' # c /\ stream # c
          BY <1>0, <1>2, <1>3, <2>2
    <3> QED BY <1>2, <2>0, <2>1, <3>1, <3>2 DEF TextStands, Place
  <2>3. CASE c = s
    <3>1. TextOf(messages[s], r) = HeardIn(events[s], r, position)
          BY <1>0, <2>0, <2>3 DEF TextStands, Place
    <3>2. TextOf(messages'[s], r) = HeardIn(events[s], r, position + 1)
      <4>1. CASE active = s
        <5>1. messages'[s] = MessagesAfter(e, messages[s]) /\ messages[s] \in Seq(Messages)
              BY <1>3, <1>4, <4>1
        <5>2. TextOf(messages'[s], r) = TextOf(messages[s], r) + (IF e = Event("message.delta", r) THEN 1 ELSE 0)
              BY <2>0, <2>3, <5>1, TextAfter
        <5> QED BY <1>5, <3>1, <5>2
      <4>2. CASE active # s
        <5>1. r # e.run
              BY <1>4, <1>6, <4>2
        <5>2. e # Event("message.delta", r)
              BY <5>1, EventsDiffer
        <5> QED BY <1>5, <1>50, <2>1, <2>3, <3>1, <5>2
      <4> QED BY <4>1, <4>2
    <3>3. stored'[s] = position + 1 /\ Place(s, stream', position', stored') = position + 1
          BY <1>0, <1>2, <1>3 DEF Place
    <3> QED BY <1>2, <2>3, <3>2, <3>3 DEF TextStands
  <2> QED BY <2>2, <2>3
<1>7. ASSUME NEW r \in exact', Exists(r)' PROVE TextStands(r, conv[r])'
  <2>1. PICK c \in Conversations : c = conv[r]
        BY <1>2, <1>3, <1>4, <1>7 DEF Exists
  <2>2. TextStands(r, c)'
        BY <1>2, <1>6, <1>7, <2>1 DEF Exists
  <2> QED BY <1>2, <2>1, <2>2 DEF TextStands
<1> QED BY <1>7 DEF TextFollows

\* A prompt sent or answered touches no reply.
LEMMA TextOfSend ==
    ASSUME Typed, AllKeysFit, NEW a \in Sends, Send(a) \/ ApplySent(a), NEW c \in Conversations, NEW r \in Runs
    PROVE  TextOf(messages'[c], r) = TextOf(messages[c], r)
<1>0. messages \in [Conversations -> Seq(Messages)] /\ messages[c] \in Seq(Messages)
      BY DEF Typed
<1>1. OneReply(messages[c], r)
      BY OneReplyHere
<1>2. CASE messages'[c] = messages[c]
      BY <1>2
<1>3. ASSUME NEW m \in Messages, m.id = <<"temp", a>>, messages'[c] = Append(messages[c], m)
      PROVE  TextOf(messages'[c], r) = TextOf(messages[c], r)
  <2>1. /\ DOMAIN messages'[c] = 1 .. (Len(messages[c]) + 1) /\ DOMAIN messages[c] = 1 .. Len(messages[c])
        /\ Len(messages[c]) \in Nat
        /\ \A i \in DOMAIN messages[c] : messages'[c][i] = messages[c][i]
        /\ messages'[c][Len(messages[c]) + 1] = m
        BY <1>0, <1>3, AppendShape
  <2>2. \A k \in DOMAIN messages'[c] : messages'[c][k].id = <<"reply", r>> =>
            k \in DOMAIN messages[c] /\ messages'[c][k] = messages[c][k]
        BY <1>3, <2>1
  <2>3. Has(messages[c], <<"reply", r>>) <=> Has(messages'[c], <<"reply", r>>)
    <3>1. \A k \in DOMAIN messages[c] : k \in DOMAIN messages'[c] /\ messages'[c][k] = messages[c][k]
          BY <2>1
    <3> QED BY <2>2, <3>1 DEF Has
  <2>4. \A k \in DOMAIN messages'[c] : messages'[c][k].id = <<"reply", r>> =>
            \E i \in DOMAIN messages[c] : /\ messages[c][i].id = <<"reply", r>>
                                          /\ messages'[c][k].text = messages[c][i].text
        BY <2>2
  <2> QED BY <1>0, <1>1, <2>3, <2>4, TextKept
<1>4. CASE Send(a)
  <2> DEFINE m == Message(<<"temp", a>>, NoRun, 0, "none")
  <2>1. m \in Messages /\ m.id = <<"temp", a>>
    <3>1. "none" \in Cards /\ a \in Runs
          BY TypeNames, SendsAreRuns
    <3>2. m \in Messages
          BY <3>1, MessageIsMessage
    <3> QED BY <3>2 DEF Message
  <2>2. messages' = [messages EXCEPT ![active] = Append(messages[active], m)]
        BY <1>4 DEF Send
  <2> HIDE DEF m
  <2>3. messages'[c] = messages[c] \/ messages'[c] = Append(messages[c], m)
        BY <1>0, <2>2
  <2> QED BY <1>2, <1>3, <2>1, <2>3
<1>5. CASE ApplySent(a)
  <2>0. PICK q \in Runs : q = send[a].run
        BY <1>5 DEF ApplySent, Typed, SendTyped
  <2>1. messages' = [messages EXCEPT ![send[a].conv] = Rename(messages[send[a].conv], a, q)]
        BY <1>5, <2>0 DEF ApplySent
  <2>2. CASE send[a].conv # c
    <3>1. messages'[c] = messages[c]
          BY <1>0, <2>1, <2>2
    <3> QED BY <1>2, <3>1
  <2>3. CASE send[a].conv = c
    <3>1. messages'[c] = Rename(messages[c], a, q)
          BY <1>0, <2>1, <2>3
    <3>2. /\ DOMAIN messages'[c] = DOMAIN messages[c]
          /\ \A i \in DOMAIN messages[c] :
                /\ messages[c][i].id # <<"temp", a>> => messages'[c][i] = messages[c][i]
                /\ messages[c][i].id = <<"temp", a>> => messages'[c][i].id = <<"prompt", q>>
          BY <1>0, <3>1, RenameShape
    <3>3. \A k \in DOMAIN messages'[c] : messages'[c][k].id = <<"reply", r>> =>
              k \in DOMAIN messages[c] /\ messages'[c][k] = messages[c][k]
          BY <3>2
    <3>4. \A k \in DOMAIN messages[c] : messages[c][k].id = <<"reply", r>> =>
              k \in DOMAIN messages'[c] /\ messages'[c][k] = messages[c][k]
          BY <3>2
    <3>5. Has(messages[c], <<"reply", r>>) <=> Has(messages'[c], <<"reply", r>>)
          BY <3>3, <3>4 DEF Has
    <3>6. \A k \in DOMAIN messages'[c] : messages'[c][k].id = <<"reply", r>> =>
              \E i \in DOMAIN messages[c] : /\ messages[c][i].id = <<"reply", r>>
                                            /\ messages'[c][k].text = messages[c][i].text
          BY <3>3
    <3> QED BY <1>0, <1>1, <3>5, <3>6, TextKept
  <2> QED BY <2>2, <2>3
<1> QED BY <1>4, <1>5

\* What is called exact anew is what is exact.
LEMMA TextAnew ==
    ASSUME exact' \subseteq ExactRuns(messages, stream, position, stored)'
    PROVE  TextFollows'
BY DEF TextFollows, TextStands, ExactRuns, Heard, HeardIn

LEMMA TextFollowsStep ==
    ASSUME Typed, ServerOK, StreamIsSeen, AllKeysFit, TextFollows, [Next]_vars
    PROVE  TextFollows'
<1>0. /\ stored \in [Conversations -> Nat] /\ messages \in [Conversations -> Seq(Messages)]
      /\ position \in Nat
      /\ conv \in [Runs -> Conversations \cup {NoConversation}] /\ exact \subseteq Runs
      /\ NoConversation \notin Conversations
      /\ events \in [Conversations -> Seq(Events)]
      /\ \A c \in Conversations : Len(events[c]) \in Nat /\ stored[c] \in Nat
      BY ServerAssumption DEF Typed, HistoryTyped, ServerTypeOK, StreamTyped
<1>1. Grows /\ conv' \in [Runs -> Conversations \cup {NoConversation}]
      BY StepGrows, StepTyped DEF Typed, ServerTypeOK
<1>2. CASE UNCHANGED <<messages, stream, position, stored, exact>>
  <2>1. ASSUME NEW r \in exact, NEW c \in Conversations, c = conv'[r],
               NEW n \in {Place(c, stream, position, stored), stored[c]}
        PROVE  TextOf(messages[c], r) = HeardIn(events'[c], r, n)
    <3>0. r \in Runs
          BY <1>0
    <3>1. n \in Nat /\ n <= Len(events[c])
      <4>1. stored[c] <= Len(events[c])
            BY DEF StreamIsSeen
      <4>2. c = stream => position <= Len(events[c])
            BY <1>0 DEF StreamIsSeen
      <4> QED BY <1>0, <2>1, <4>1, <4>2 DEF Place
    <3>2. \A i \in 1 .. n : i \in 1 .. Len(events[c])
          BY <1>0, <3>1
    <3>3. \A i \in 1 .. n : events'[c][i] = events[c][i]
          BY <1>1, <3>2 DEF Grows
    <3>4. HeardIn(events'[c], r, n) = HeardIn(events[c], r, n)
          BY <3>3, HeardSame
    <3>5. CASE Exists(r)
      <4>1. conv[r] = c
            BY <1>1, <2>1, <3>0, <3>5 DEF Grows
      <4>2. TextStands(r, c)
            BY <3>5, <4>1 DEF TextFollows
      <4> QED BY <2>1, <3>4, <4>2 DEF TextStands
    <3>6. CASE ~Exists(r)
      <4>1. TextOf(messages[c], r) = 0
            BY <3>0, <3>6, OneReplyHere
      <4>2. ASSUME NEW i \in 1 .. n, events[c][i] = Event("message.delta", r) PROVE FALSE
        <5>1. events[c][i].run = r
              BY <4>2 DEF Event
        <5>2. conv[r] = c
              BY <3>2, <5>1 DEF ServerOK, EventsBelong
        <5> QED BY <1>0, <3>6, <5>2 DEF Exists
      <4>3. HeardIn(events[c], r, n) = 0
            BY <4>2, HeardNone
      <4> QED BY <3>4, <4>1, <4>3
    <3> QED BY <3>5, <3>6
  <2>2. ASSUME NEW r \in exact', Exists(r)' PROVE TextStands(r, conv[r])'
    <3>1. r \in exact /\ r \in Runs
          BY <1>0, <1>2
    <3>2. PICK c \in Conversations : c = conv'[r]
          BY <1>1, <2>2, <3>1 DEF Exists
    <3>3. \A n \in {Place(c, stream', position', stored'), stored'[c]} :
              TextOf(messages'[c], r) = HeardIn(events'[c], r, n)
          BY <1>2, <2>1, <3>1, <3>2
    <3> QED BY <3>2, <3>3 DEF TextStands
  <2> QED BY <2>2 DEF TextFollows
<1>3. CASE UNCHANGED vars
  <2>1. UNCHANGED <<messages, stream, position, stored, exact>>
        BY <1>3 DEF vars, pageVars, history
  <2> QED BY <1>2, <2>1
<1>4. CASE HandleEvent
      BY <1>4, TextOfEvent
<1>5. CASE ApplyFetch \/ ApplyLoad
  <2>1. /\ exact' = ExactRuns(messages', stream, position, stored)
        /\ UNCHANGED <<serverVars, stream, position, stored>>
        BY <1>5 DEF ApplyFetch, ApplyLoad
  <2>2. exact' \subseteq ExactRuns(messages, stream, position, stored)'
        BY <2>1 DEF ExactRuns, Heard, Exists, serverVars
  <2> QED BY <2>2, TextAnew
<1>6. CASE Reload
  <2>1. /\ exact' = ExactRuns(messages', stream', position', stored)
        /\ UNCHANGED <<serverVars, stored>>
        BY <1>6 DEF Reload
  <2>2. exact' \subseteq ExactRuns(messages, stream, position, stored)'
        BY <2>1 DEF ExactRuns, Heard, Exists, serverVars
  <2> QED BY <2>2, TextAnew
<1>7. ASSUME NEW c \in Conversations, OtherTab(c) PROVE TextFollows'
  <2>1. /\ exact' \subseteq ExactRuns(messages, stream, position, stored')
        /\ UNCHANGED <<serverVars, messages, stream, position>>
        BY <1>7 DEF OtherTab, pageVars
  <2>2. exact' \subseteq ExactRuns(messages, stream, position, stored)'
        BY <2>1 DEF ExactRuns, Heard, Exists, serverVars
  <2> QED BY <2>2, TextAnew
<1>8. ASSUME NEW d \in Conversations \cup {NoConversation}, Follow(d),
             UNCHANGED <<serverVars, messages, stored, exact>>
      PROVE  TextFollows'
  <2>1. UNCHANGED <<conv, events>>
        BY <1>8 DEF serverVars
  <2>2. ASSUME NEW r \in exact, Exists(r) PROVE TextStands(r, conv[r])'
    <3>1. PICK c \in Conversations : c = conv[r]
          BY <1>0, <2>2 DEF Exists
    <3>2. Place(c, stream', position', stored) = stored[c]
          BY <1>0, <1>8 DEF Place, Follow
    <3>3. TextOf(messages[c], r) = HeardIn(events[c], r, stored[c])
          BY <2>2, <3>1 DEF TextFollows, TextStands
    <3> QED BY <1>8, <2>1, <3>1, <3>2, <3>3 DEF TextStands
  <2> QED BY <1>8, <2>1, <2>2 DEF TextFollows, Exists
<1>9. ASSUME NEW a \in Sends, Send(a) \/ ApplySent(a),
             UNCHANGED <<serverVars, stream, position, stored, exact>>
      PROVE  TextFollows'
  <2>1. UNCHANGED <<conv, events>>
        BY <1>9 DEF serverVars
  <2>2. ASSUME NEW r \in exact, Exists(r) PROVE TextStands(r, conv[r])'
    <3>1. PICK c \in Conversations : c = conv[r]
          BY <1>0, <2>2 DEF Exists
    <3>2. TextOf(messages'[c], r) = TextOf(messages[c], r)
          BY <1>0, <1>9, TextOfSend
    <3>3. TextStands(r, c)
          BY <2>2, <3>1 DEF TextFollows
    <3> QED BY <1>9, <2>1, <3>1, <3>2, <3>3 DEF TextStands
  <2> QED BY <1>9, <2>1, <2>2 DEF TextFollows, Exists
<1> QED BY <1>2, <1>3, <1>4, <1>5, <1>6, <1>7, <1>8, <1>9, TextSteps

LEMMA TextFollowsAlways == Spec => []TextFollows
<1>1. Init => TextFollows
      BY TextFollowsInit
<1>2. Typed /\ ServerOK /\ StreamIsSeen /\ AllKeysFit /\ TextFollows /\ [Next]_vars => TextFollows'
      BY TextFollowsStep
<1>3. Spec => []StreamIsSeen
      BY FollowsAlways, PTL
<1> QED BY <1>1, <1>2, <1>3, TypedAlways, ServerOKAlways, KeysFitAlways, PTL DEF Spec

(***************************************************************************)
(* A text that once stood where the stream stands stays there              *)
(* (TextIsExact): an event adds its chunk to the one reply of its run and  *)
(* moves the stored id with it, a switch or a reconnection follows from    *)
(* the stored id, and what the backend does meanwhile comes behind.        *)
(***************************************************************************)
THEOREM TextIsExactAlways == Spec => []TextIsExact
<1>1. TextFollows => TextIsExact
      BY DEF TextFollows, TextStands, TextIsExact, Heard, HeardIn
<1> QED BY <1>1, TextFollowsAlways, PTL
=============================================================================
