------------------------- MODULE HostPanelsProofs --------------------------
(***************************************************************************)
(* The inductive invariants of the panels of the host: the settings of the *)
(* page, the workers and their terminals, the polled panels, and the lights *)
(* of the header.                                                          *)
(***************************************************************************)
EXTENDS Desk, TLAPS

-----------------------------------------------------------------------------
(***************************************************************************)
(* The settings.                                                           *)
(***************************************************************************)

\* A switch is off or on, a choice or a text is something.
Chosen(s, v) == IF s \in Switches THEN v \in {0, 1} ELSE v # 0

ChosenChange(k) ==
    /\ k \in Settings!Changes
    /\ k.op = "set" => k.on \in Settings!Columns /\ Chosen(k.on, k.to) /\ Chosen(k.on, k.was)
    /\ k.op # "set" => k.on \in Chats
    /\ k.op \in {"model", "slash"} => k.to # 0 /\ k.was # 0

ValuesAreChosen ==
    /\ \A k \in calls : ChosenChange(k)
    /\ \A s \in Settings!Columns : Chosen(s, setting[s]) /\ Chosen(s, saved[s])
    /\ model # 0

SettingsTyped == Settings!SettingsTypeOK /\ ValuesAreChosen

Shapes == Settings!SettingsTypeOK /\ Settings!RequestsOK(Settings!Changes)

LEMMA SettingsTypeInit ==
    ASSUME Settings!SettingsInit
    PROVE  SettingsTyped
  <1>1. Settings!RequestsOK(Settings!Changes) /\ calls = {}
    BY RequestsAssumption DEF Settings!SettingsInit, Settings!RequestsInit, Settings!RequestsOK
  <1>2. /\ setting \in [Settings!Columns -> Nat] /\ saved \in [Settings!Columns -> Nat]
        /\ \A s \in Settings!Columns : Chosen(s, saved[s])
    BY DEF Settings!SettingsInit, Settings!Sample, Settings!First, Chosen
  <1>3. \A s \in Settings!Columns : Chosen(s, setting[s])
    BY DeskAssumption
    DEF Settings!SettingsInit, Settings!Sample, Settings!First, Chosen, Settings!SettingsAssumption
  <1>4. own \in Settings!Own /\ kept \in Settings!Own
    BY DEF Settings!SettingsInit, Settings!Own, Settings!NoModel
  <1>5. model \in Nat /\ model # 0 /\ draft \in [Texts -> Nat]
    BY DEF Settings!SettingsInit, Settings!First, Settings!NoModel
  <1>6. /\ present \subseteq Chats /\ current \in Chats \cup {NoChat}
        /\ linked \in BOOLEAN /\ files \in {"unread", "out", "read", "dropped"}
        /\ unsure \subseteq Settings!Columns \cup Chats /\ adrift \in BOOLEAN
    BY DEF Settings!SettingsInit
  <1> QED
    BY <1>1, <1>2, <1>3, <1>4, <1>5, <1>6 DEF SettingsTyped, Settings!SettingsTypeOK, ValuesAreChosen

\* What a change of this act may be.
LEMMA NewChanges ==
    ASSUME SettingsTyped, Settings!Act
    PROVE  /\ acts' \in 0 .. MaxActs
           /\ Settings!New \in Nat /\ Settings!New # 0
           /\ \A s \in Settings!Columns : \A v, w \in Nat :
                Chosen(s, v) /\ Chosen(s, w) => ChosenChange(Settings!Change("set", s, v, w))
           /\ \A c \in Chats : \A v, w \in Nat : \A op \in {"model", "slash", "lock", "summary"} :
                (v # 0 /\ w # 0) \/ op \in {"lock", "summary"} =>
                    ChosenChange(Settings!Change(op, c, v, w))
  <1>1. acts + 1 \in 0 .. MaxActs /\ acts + 1 \in 1 .. MaxActs /\ acts' = acts + 1
    BY RequestsAssumption
    DEF SettingsTyped, Settings!SettingsTypeOK, Settings!RequestsOK, Settings!Act
  <1>2. Settings!New \in Nat /\ Settings!New # 0
    BY <1>1 DEF Settings!New, SettingsTyped, Settings!SettingsTypeOK, Settings!RequestsOK
  <1>3. ASSUME NEW s \in Settings!Columns, NEW v \in Nat, NEW w \in Nat,
               Chosen(s, v), Chosen(s, w)
        PROVE  ChosenChange(Settings!Change("set", s, v, w))
    BY <1>1, <1>3 DEF Settings!Change, Settings!Changes, ChosenChange
  <1>4. ASSUME NEW c \in Chats, NEW v \in Nat, NEW w \in Nat,
               NEW op \in {"model", "slash", "lock", "summary"},
               (v # 0 /\ w # 0) \/ op \in {"lock", "summary"}
        PROVE  ChosenChange(Settings!Change(op, c, v, w))
    BY <1>1, <1>4 DEF Settings!Change, Settings!Changes, ChosenChange
  <1> QED
    BY <1>1, <1>2, <1>3, <1>4

LEMMA TypeOfSet ==
    ASSUME SettingsTyped, Settings!Act, NEW s \in Settings!Columns, NEW v \in Nat, Chosen(s, v),
           Settings!Set(s, v)
    PROVE  /\ setting' \in [Settings!Columns -> Nat]
           /\ \A t \in Settings!Columns : Chosen(t, setting'[t])
           /\ \A k \in calls' : ChosenChange(k)
           /\ calls' \subseteq Settings!Changes
           /\ unsure' \subseteq Settings!Columns \cup Chats
           /\ acts' \in 0 .. MaxActs
  <1>1. setting' = [setting EXCEPT ![s] = v] /\ setting \in [Settings!Columns -> Nat]
    BY DEF Settings!Set, SettingsTyped, Settings!SettingsTypeOK
  <1>2. setting' \in [Settings!Columns -> Nat] /\ \A t \in Settings!Columns : Chosen(t, setting'[t])
    BY <1>1 DEF SettingsTyped, ValuesAreChosen
  <1>3. ChosenChange(Settings!Change("set", s, v, setting[s]))
    BY <1>1, NewChanges DEF SettingsTyped, ValuesAreChosen
  <1>4. calls' \subseteq calls \cup {Settings!Change("set", s, v, setting[s])}
    BY DEF Settings!Set, Settings!Ask
  <1>5. \A k \in calls' : ChosenChange(k)
    BY <1>3, <1>4 DEF SettingsTyped, ValuesAreChosen
  <1>6. calls' \subseteq Settings!Changes
    BY <1>5 DEF ChosenChange
  <1>7. unsure' \subseteq Settings!Columns \cup Chats
    BY DEF Settings!Set, SettingsTyped, Settings!SettingsTypeOK
  <1>8. acts' \in 0 .. MaxActs
    BY NewChanges
  <1> QED
    BY <1>2, <1>5, <1>6, <1>7, <1>8

LEMMA TypeOfSettingClicks ==
    ASSUME SettingsTyped,
           \E s \in Settings!Columns : \/ Settings!Toggle(s) \/ Settings!Choose(s)
                \/ Settings!OpenText(s) \/ Settings!SaveText(s) \/ Settings!CloseText(s)
    PROVE  SettingsTyped'
  <1>0. \A s \in Settings!Columns : setting[s] \in Nat /\ Chosen(s, setting[s])
    BY DEF SettingsTyped, Settings!SettingsTypeOK, ValuesAreChosen
  <1>1. ASSUME NEW s \in Settings!Columns, Settings!Toggle(s) PROVE SettingsTyped'
    <2>1. 1 - setting[s] \in Nat /\ Chosen(s, 1 - setting[s])
      BY <1>0, <1>1 DEF Settings!Toggle, Chosen
    <2>2. Settings!Act /\ Settings!Set(s, 1 - setting[s])
      BY <1>1 DEF Settings!Toggle
    <2>3. /\ setting' \in [Settings!Columns -> Nat]
          /\ \A t \in Settings!Columns : Chosen(t, setting'[t])
          /\ \A k \in calls' : ChosenChange(k)
          /\ calls' \subseteq Settings!Changes
          /\ unsure' \subseteq Settings!Columns \cup Chats
          /\ acts' \in 0 .. MaxActs
      BY <2>1, <2>2, TypeOfSet
    <2> QED
      BY <1>1, <2>3 DEF Settings!Toggle, SettingsTyped, Settings!SettingsTypeOK, Settings!RequestsOK,
                        ValuesAreChosen
  <1>2. ASSUME NEW s \in Settings!Columns, Settings!Choose(s) PROVE SettingsTyped'
    <2>1. Settings!New \in Nat /\ Chosen(s, Settings!New)
      BY <1>2, NewChanges, DeskAssumption
      DEF Settings!Choose, Chosen, Settings!SettingsAssumption
    <2>2. Settings!Act /\ Settings!Set(s, Settings!New)
      BY <1>2 DEF Settings!Choose
    <2>3. /\ setting' \in [Settings!Columns -> Nat]
          /\ \A t \in Settings!Columns : Chosen(t, setting'[t])
          /\ \A k \in calls' : ChosenChange(k)
          /\ calls' \subseteq Settings!Changes
          /\ unsure' \subseteq Settings!Columns \cup Chats
          /\ acts' \in 0 .. MaxActs
      BY <2>1, <2>2, TypeOfSet
    <2> QED
      BY <1>2, <2>3 DEF Settings!Choose, SettingsTyped, Settings!SettingsTypeOK, Settings!RequestsOK,
                        ValuesAreChosen
  <1>3. ASSUME NEW s \in Settings!Columns, Settings!OpenText(s) PROVE SettingsTyped'
    <2>1. draft' \in [Texts -> Nat]
      BY <1>0, <1>3 DEF Settings!OpenText, SettingsTyped, Settings!SettingsTypeOK
    <2> QED
      BY <1>3, <2>1 DEF Settings!OpenText, SettingsTyped, Settings!SettingsTypeOK, Settings!RequestsOK,
                        ValuesAreChosen, Settings!requestVars
  <1>4. ASSUME NEW s \in Settings!Columns, Settings!SaveText(s) PROVE SettingsTyped'
    <2>1. PICK v \in Settings!Drafts(s) : Settings!Set(s, v)
      BY <1>4 DEF Settings!SaveText
    <2>2. v \in Nat /\ v # 0 /\ Settings!Act
      BY <1>4, NewChanges
      DEF Settings!SaveText, Settings!Drafts, Settings!NoModel, SettingsTyped, Settings!SettingsTypeOK
    <2>3. Chosen(s, v)
      BY <1>4, <2>2, DeskAssumption DEF Settings!SaveText, Chosen, Settings!SettingsAssumption
    <2>4. /\ setting' \in [Settings!Columns -> Nat]
          /\ \A t \in Settings!Columns : Chosen(t, setting'[t])
          /\ \A k \in calls' : ChosenChange(k)
          /\ calls' \subseteq Settings!Changes
          /\ unsure' \subseteq Settings!Columns \cup Chats
          /\ acts' \in 0 .. MaxActs
      BY <2>1, <2>2, <2>3, TypeOfSet
    <2>5. draft' \in [Texts -> Nat]
      BY <1>4 DEF Settings!SaveText, Settings!NoModel, SettingsTyped, Settings!SettingsTypeOK
    <2> QED
      BY <1>4, <2>4, <2>5 DEF Settings!SaveText, SettingsTyped, Settings!SettingsTypeOK,
                              Settings!RequestsOK, ValuesAreChosen
  <1>5. ASSUME NEW s \in Settings!Columns, Settings!CloseText(s) PROVE SettingsTyped'
    <2>1. draft' \in [Texts -> Nat]
      BY <1>5 DEF Settings!CloseText, Settings!NoModel, SettingsTyped, Settings!SettingsTypeOK
    <2> QED
      BY <1>5, <2>1 DEF Settings!CloseText, SettingsTyped, Settings!SettingsTypeOK,
                        Settings!RequestsOK, ValuesAreChosen, Settings!requestVars
  <1> QED
    BY <1>1, <1>2, <1>3, <1>4, <1>5

LEMMA OwnTypes ==
    ASSUME NEW f \in Settings!Own
    PROVE  /\ \A c : \A n \in Nat : [f EXCEPT ![c].model = n] \in Settings!Own
           /\ \A c : \A b \in BOOLEAN : [f EXCEPT ![c].unlocked = b] \in Settings!Own
  BY DEF Settings!Own

LEMMA TypeOfChatClicks ==
    ASSUME SettingsTyped,
           \/ \E c \in Chats : Settings!SelectChat(c) \/ Settings!DeleteChat(c) \/ Settings!Summarize(c)
           \/ \E op \in {"model", "slash"} : Settings!ChangeModel(op)
           \/ Settings!UnlockSensitive \/ Settings!LockSensitive
    PROVE  SettingsTyped'
  <1> USE DEF SettingsTyped, Settings!SettingsTypeOK, Settings!RequestsOK, ValuesAreChosen
  <1>0. /\ Settings!Act => acts' \in 0 .. MaxActs
        /\ Settings!Act => Settings!New \in Nat /\ Settings!New # 0
        /\ Settings!Act =>
             \A c \in Chats : \A v, w \in Nat : \A op \in {"model", "slash", "lock", "summary"} :
                (v # 0 /\ w # 0) \/ op \in {"lock", "summary"} =>
                    ChosenChange(Settings!Change(op, c, v, w))
    BY NewChanges
  <1>1. \A k : ChosenChange(k) => k \in Settings!Changes
    BY DEF ChosenChange
  <1>2. ASSUME NEW c \in Chats, Settings!SelectChat(c) PROVE SettingsTyped'
    <2>1. "default" \in Settings!Columns /\ "default" \notin Switches
      BY DeskAssumption DEF Settings!Columns, Settings!Choices, Settings!SettingsAssumption
    <2>2. Settings!ModelOf(c) \in Nat /\ Settings!ModelOf(c) # 0
      BY <2>1 DEF Settings!ModelOf, Settings!NoModel, Settings!Own, Chosen
    <2> QED
      BY <1>2, <2>2 DEF Settings!SelectChat, Settings!requestVars
  <1>3. ASSUME NEW c \in Chats, Settings!DeleteChat(c) PROVE SettingsTyped'
    BY <1>0, <1>3 DEF Settings!DeleteChat
  <1>4. ASSUME NEW c \in Chats, Settings!Summarize(c) PROVE SettingsTyped'
    <2>1. "task" \in Settings!Columns /\ setting["task"] \in Nat
      BY DEF Settings!Columns, Settings!Choices
    <2>2. /\ Settings!Act /\ calls' = calls \cup {Settings!Change("summary", c, setting["task"], 0)}
          /\ UNCHANGED <<faults, setting, saved, own, kept, present, current, model, linked, files,
                         draft, unsure, adrift>>
      BY <1>4 DEF Settings!Summarize, Settings!Ask
    <2>3. ChosenChange(Settings!Change("summary", c, setting["task"], 0))
      BY <1>0, <2>1, <2>2
    <2>4. \A k \in calls' : ChosenChange(k)
      BY <2>2, <2>3
    <2>5. calls' \subseteq Settings!Changes
      BY <1>1, <2>4
    <2> QED
      BY <1>0, <2>2, <2>4, <2>5
  <1>5. ASSUME NEW op \in {"model", "slash"}, Settings!ChangeModel(op) PROVE SettingsTyped'
    <2>1. current \in Chats /\ Settings!Act
      BY <1>5 DEF Settings!ChangeModel
    <2>2. /\ calls' \subseteq calls \cup {Settings!Change(op, current, Settings!New, model)}
          /\ model' = Settings!New
          /\ own' = [own EXCEPT ![current].model = Settings!New]
      BY <1>5 DEF Settings!ChangeModel, Settings!Ask
    <2>3. ChosenChange(Settings!Change(op, current, Settings!New, model))
      BY <1>0, <2>1
    <2>4. \A k \in calls' : ChosenChange(k)
      BY <2>2, <2>3
    <2>5. calls' \subseteq Settings!Changes
      BY <1>1, <2>4
    <2>6. own' \in Settings!Own
      BY <1>0, <2>1, <2>2, OwnTypes
    <2> QED
      BY <1>0, <1>5, <2>1, <2>2, <2>4, <2>5, <2>6 DEF Settings!ChangeModel
  <1>6. ASSUME NEW unlocked \in BOOLEAN, Settings!AskLock(unlocked) PROVE SettingsTyped'
    <2>1. current \in Chats /\ Settings!Act
      BY <1>6 DEF Settings!AskLock
    <2> DEFINE to == IF unlocked THEN 1 ELSE 0
    <2>2. /\ calls' \subseteq calls \cup {Settings!Change("lock", current, to, 0)}
          /\ own' = own \/ own' = [own EXCEPT ![current].unlocked = unlocked]
      BY <1>6 DEF Settings!AskLock, Settings!Ask
    <2>3. ChosenChange(Settings!Change("lock", current, to, 0))
      BY <1>0, <2>1
    <2>4. \A k \in calls' : ChosenChange(k)
      BY <2>2, <2>3
    <2>5. calls' \subseteq Settings!Changes
      BY <1>1, <2>4
    <2>6. own' \in Settings!Own
      <3>1. own \in Settings!Own /\ [own EXCEPT ![current].unlocked = unlocked] \in Settings!Own
        BY <1>6, OwnTypes
      <3> QED
        BY <2>2, <3>1
    <2> HIDE DEF to
    <2> QED
      BY <1>0, <1>6, <2>1, <2>4, <2>5, <2>6 DEF Settings!AskLock
  <1> QED
    BY <1>2, <1>3, <1>4, <1>5, <1>6 DEF Settings!UnlockSensitive, Settings!LockSensitive

LEMMA TypeOfSettingAnswers ==
    ASSUME SettingsTyped, NEW k \in calls,
           \/ Settings!TakeSetting(k) \/ Settings!SettingAnswered(k) \/ Settings!LoseSetting(k)
           \/ Settings!TakeModel(k) \/ Settings!ModelAnswered(k) \/ Settings!LoseModel(k)
           \/ Settings!TakeLock(k) \/ Settings!LockAnswered(k) \/ Settings!LoseLock(k)
           \/ Settings!TakeSummary(k) \/ Settings!SummaryAnswered(k)
    PROVE  SettingsTyped'
  <1> USE DEF SettingsTyped, Settings!SettingsTypeOK, Settings!RequestsOK, ValuesAreChosen
  <1> DEFINE back == [k EXCEPT !.step = "back"]
  <1>0. /\ k \in Settings!Changes /\ k.on \in Settings!Columns \cup Chats
        /\ k.to \in Nat /\ k.was \in Nat
    BY DEF Settings!Changes
  <1>1. ChosenChange(k)
    OBVIOUS
  <1>2. ChosenChange(back) /\ back \in Settings!Changes
    BY <1>0, <1>1 DEF ChosenChange, Settings!Changes
  <1> HIDE DEF back
  <1>3. Settings!Fault \/ UNCHANGED faults => faults' \in 0 .. MaxFaults
    BY RequestsAssumption DEF Settings!Fault
  <1>4. Settings!Becomes(k, back) \/ Settings!Ends(k) =>
           calls' \subseteq Settings!Changes /\ \A j \in calls' : ChosenChange(j)
    BY <1>2 DEF Settings!Becomes, Settings!Ends
  <1>5. unsure \cup {k.on} \subseteq Settings!Columns \cup Chats
    BY <1>0
  <1>6. CASE Settings!TakeSetting(k)
    <2>1. /\ saved' = [saved EXCEPT ![k.on] = k.to] /\ Settings!Becomes(k, back) /\ k.op = "set"
      BY <1>6 DEF Settings!TakeSetting, back
    <2>2. /\ saved' \in [Settings!Columns -> Nat]
          /\ \A s \in Settings!Columns : Chosen(s, saved'[s])
      BY <1>0, <1>1, <2>1 DEF ChosenChange
    <2> QED
      BY <1>4, <1>5, <1>6, <2>1, <2>2 DEF Settings!TakeSetting
  <1>7. CASE Settings!SettingAnswered(k)
    BY <1>4, <1>7 DEF Settings!SettingAnswered
  <1>8. CASE Settings!LoseSetting(k)
    <2>1. /\ setting' = [setting EXCEPT ![k.on] = k.was] /\ k.op = "set"
      BY <1>8 DEF Settings!LoseSetting
    <2>2. /\ setting' \in [Settings!Columns -> Nat]
          /\ \A s \in Settings!Columns : Chosen(s, setting'[s])
      BY <1>0, <1>1, <2>1 DEF ChosenChange
    <2> QED
      BY <1>3, <1>4, <1>5, <1>8, <2>2 DEF Settings!LoseSetting
  <1>9. CASE Settings!TakeModel(k)
    <2>1. Settings!Becomes(k, back)
      BY <1>9 DEF Settings!TakeModel, back
    <2>2. kept' \in Settings!Own
      BY <1>0, <1>9, OwnTypes DEF Settings!TakeModel
    <2> QED
      BY <1>4, <1>5, <1>9, <2>1, <2>2 DEF Settings!TakeModel
  <1>10. CASE Settings!ModelAnswered(k)
    BY <1>4, <1>10 DEF Settings!ModelAnswered
  <1>11. CASE Settings!LoseModel(k)
    <2>1. own' \in Settings!Own
      <3>1. own \in Settings!Own /\ [own EXCEPT ![k.on].model = k.was] \in Settings!Own
        BY <1>0, OwnTypes
      <3> QED
        BY <1>11, <3>1 DEF Settings!LoseModel
    <2>2. model' \in Nat /\ model' # 0
      BY <1>0, <1>1, <1>11 DEF Settings!LoseModel, ChosenChange
    <2> QED
      BY <1>3, <1>4, <1>5, <1>11, <2>1, <2>2 DEF Settings!LoseModel
  <1>12. CASE Settings!TakeLock(k)
    <2>1. Settings!Becomes(k, back)
      BY <1>12 DEF Settings!TakeLock, back
    <2>2. kept' \in Settings!Own
      BY <1>0, <1>12, OwnTypes DEF Settings!TakeLock
    <2> QED
      BY <1>4, <1>5, <1>12, <2>1, <2>2 DEF Settings!TakeLock
  <1>13. CASE Settings!LockAnswered(k)
    <2>1. own' \in Settings!Own
      BY <1>0, <1>13, OwnTypes DEF Settings!LockAnswered
    <2> QED
      BY <1>4, <1>13, <2>1 DEF Settings!LockAnswered
  <1>14. CASE Settings!LoseLock(k)
    BY <1>3, <1>4, <1>5, <1>14 DEF Settings!LoseLock
  <1>15. CASE Settings!TakeSummary(k)
    <2>1. Settings!Becomes(k, back)
      BY <1>15 DEF Settings!TakeSummary, back
    <2>2. kept' \in Settings!Own
      BY <1>0, <1>15, OwnTypes DEF Settings!TakeSummary
    <2> QED
      BY <1>4, <1>15, <2>1, <2>2 DEF Settings!TakeSummary
  <1>16. CASE Settings!SummaryAnswered(k)
    <2>1. own' \in Settings!Own
      BY <1>0, <1>16, OwnTypes DEF Settings!SummaryAnswered
    <2>2. k.on \in Chats
      BY <1>1, <1>16 DEF Settings!SummaryAnswered, ChosenChange
    <2> QED
      BY <1>4, <1>16, <2>1, <2>2 DEF Settings!SummaryAnswered
  <1> QED
    BY <1>6, <1>7, <1>8, <1>9, <1>10, <1>11, <1>12, <1>13, <1>14, <1>15, <1>16

LEMMA TypeOfConnection ==
    ASSUME SettingsTyped, Settings!ReadFiles \/ Settings!DropConnection \/ Settings!Reconnect
    PROVE  SettingsTyped'
  <1> USE DEF SettingsTyped, Settings!SettingsTypeOK, Settings!RequestsOK, ValuesAreChosen
  <1>1. CASE Settings!ReadFiles
    <2>1. /\ setting' \in [Settings!Columns -> Nat]
          /\ \A s \in Settings!Columns : Chosen(s, setting'[s])
      BY <1>1 DEF Settings!ReadFiles
    <2>2. files' \in {"unread", "out", "read", "dropped"}
      BY <1>1 DEF Settings!ReadFiles
    <2> QED
      BY <1>1, <2>1, <2>2 DEF Settings!ReadFiles, Settings!requestVars
  <1>2. CASE Settings!DropConnection
    <2>1. faults' \in 0 .. MaxFaults
      BY <1>2, RequestsAssumption DEF Settings!DropConnection, Settings!Fault
    <2>2. unsure' \subseteq Settings!Columns \cup Chats
      BY <1>2 DEF Settings!DropConnection, Settings!Changes
    <2> QED
      BY <1>2, <2>1, <2>2 DEF Settings!DropConnection
  <1>3. CASE Settings!Reconnect
    <2>1. /\ setting' \in [Settings!Columns -> Nat]
          /\ \A s \in Settings!Columns : Chosen(s, setting'[s])
      BY <1>3 DEF Settings!Reconnect
    <2>2. "default" \in Settings!Columns /\ "default" \notin Switches
      BY DeskAssumption DEF Settings!Columns, Settings!Choices, Settings!SettingsAssumption
    <2>3. model' \in Nat /\ model' # 0 /\ current' \in Chats
      BY <1>3, <2>2 DEF Settings!Reconnect, Settings!NoModel, Settings!Own, Chosen
    <2> QED
      BY <1>3, <2>1, <2>3 DEF Settings!Reconnect, Settings!requestVars
  <1> QED
    BY <1>1, <1>2, <1>3

LEMMA SettingsTypeStep ==
    ASSUME SettingsTyped, [Settings!SettingsNext]_(Settings!settingsVars)
    PROVE  SettingsTyped'
  <1>1. CASE Settings!SettingsNext
    BY <1>1, TypeOfSettingClicks, TypeOfChatClicks, TypeOfSettingAnswers, TypeOfConnection
    DEF Settings!SettingsNext
  <1>2. CASE UNCHANGED Settings!settingsVars
    BY <1>2 DEF Settings!settingsVars, Settings!requestVars, SettingsTyped, Settings!SettingsTypeOK,
                Settings!RequestsOK, ValuesAreChosen
  <1> QED
    BY <1>1, <1>2

LEMMA ModelInit ==
    ASSUME Settings!SettingsInit
    PROVE  Settings!ModelIsOfCurrent
  <1>1. "default" \in Settings!Columns /\ "default" \notin Texts /\ current \in Chats
    BY DeskAssumption
    DEF Settings!Columns, Settings!Choices, Settings!SettingsAssumption, Settings!SettingsInit
  <1>2. own[current].model = Settings!NoModel /\ setting["default"] = Settings!First
    BY <1>1 DEF Settings!SettingsInit
  <1> QED
    BY <1>2 DEF Settings!SettingsInit, Settings!ModelIsOfCurrent, Settings!ModelOf

LEMMA ModelStep ==
    ASSUME SettingsTyped, Settings!ModelIsOfCurrent, [Settings!SettingsNext]_(Settings!settingsVars)
    PROVE  Settings!ModelIsOfCurrent'
  <1> USE DEF SettingsTyped, Settings!SettingsTypeOK, ValuesAreChosen
  <1>1. /\ "default" \in Settings!Columns /\ "default" \notin Switches /\ "default" \notin Texts
        /\ NoChat \notin Chats
    BY DeskAssumption DEF Settings!Columns, Settings!Choices, Settings!SettingsAssumption
  <1>2. ASSUME UNCHANGED <<current, model>>, setting'["default"] = setting["default"],
               adrift' = FALSE => adrift = FALSE,
               current \in Chats => own'[current].model = own[current].model
        PROVE  Settings!ModelIsOfCurrent'
    BY <1>2 DEF Settings!ModelIsOfCurrent, Settings!ModelOf
  <1>3. ASSUME NEW s, NEW v, Settings!Set(s, v), s # "default" PROVE setting'["default"] = setting["default"]
    BY <1>1, <1>3 DEF Settings!Set
  <1>4. adrift' = TRUE => Settings!ModelIsOfCurrent'
    BY DEF Settings!ModelIsOfCurrent
  <1>5. ASSUME NEW s \in Settings!Columns, Settings!Toggle(s) PROVE Settings!ModelIsOfCurrent'
    BY <1>1, <1>2, <1>3, <1>5 DEF Settings!Toggle
  <1>6. ASSUME NEW s \in Settings!Columns, Settings!Choose(s) PROVE Settings!ModelIsOfCurrent'
    <2>1. CASE s = "default"
      BY <1>4, <1>6, <2>1 DEF Settings!Choose
    <2>2. CASE s # "default"
      BY <1>2, <1>3, <1>6, <2>2 DEF Settings!Choose
    <2> QED
      BY <2>1, <2>2
  <1>7. ASSUME NEW s \in Settings!Columns, Settings!OpenText(s) \/ Settings!CloseText(s)
        PROVE  Settings!ModelIsOfCurrent'
    BY <1>2, <1>7 DEF Settings!OpenText, Settings!CloseText
  <1>8. ASSUME NEW s \in Settings!Columns, Settings!SaveText(s) PROVE Settings!ModelIsOfCurrent'
    BY <1>1, <1>2, <1>3, <1>8 DEF Settings!SaveText
  <1>9. ASSUME NEW c \in Chats, Settings!SelectChat(c) PROVE Settings!ModelIsOfCurrent'
    BY <1>9 DEF Settings!SelectChat, Settings!ModelIsOfCurrent, Settings!ModelOf
  <1>10. ASSUME NEW c \in Chats, Settings!DeleteChat(c) PROVE Settings!ModelIsOfCurrent'
    BY <1>2, <1>4, <1>10 DEF Settings!DeleteChat
  <1>11. ASSUME NEW c \in Chats, Settings!Summarize(c) PROVE Settings!ModelIsOfCurrent'
    BY <1>2, <1>11 DEF Settings!Summarize
  <1>12. ASSUME NEW op \in {"model", "slash"}, Settings!ChangeModel(op) PROVE Settings!ModelIsOfCurrent'
    <2>1. /\ current \in Chats /\ Settings!New # Settings!NoModel
          /\ own' = [own EXCEPT ![current].model = Settings!New]
          /\ model' = Settings!New /\ current' = current
      BY <1>12, NewChanges DEF Settings!ChangeModel, Settings!NoModel
    <2>2. own'[current].model = Settings!New
      BY <2>1 DEF Settings!Own
    <2> QED
      BY <2>1, <2>2 DEF Settings!ModelIsOfCurrent, Settings!ModelOf
  <1>13. ASSUME NEW b \in BOOLEAN, Settings!AskLock(b) PROVE Settings!ModelIsOfCurrent'
    <2>1. current \in Chats => own'[current].model = own[current].model
      BY <1>13 DEF Settings!AskLock, Settings!Own
    <2> QED
      BY <1>2, <1>13, <2>1 DEF Settings!AskLock
  <1>14. ASSUME NEW k \in calls,
                \/ Settings!TakeSetting(k) \/ Settings!SettingAnswered(k)
                \/ Settings!TakeModel(k) \/ Settings!ModelAnswered(k)
                \/ Settings!TakeLock(k) \/ Settings!LoseLock(k) \/ Settings!TakeSummary(k)
         PROVE  Settings!ModelIsOfCurrent'
    BY <1>2, <1>14
    DEF Settings!TakeSetting, Settings!SettingAnswered, Settings!TakeModel, Settings!ModelAnswered,
        Settings!TakeLock, Settings!LoseLock, Settings!TakeSummary
  <1>15. ASSUME NEW k \in calls, Settings!LoseSetting(k) PROVE Settings!ModelIsOfCurrent'
    <2>1. CASE k.on = "default"
      BY <1>4, <1>15, <2>1 DEF Settings!LoseSetting
    <2>2. CASE k.on # "default"
      <3>1. setting'["default"] = setting["default"]
        BY <1>1, <1>15, <2>2 DEF Settings!LoseSetting
      <3> QED
        BY <1>2, <1>15, <2>2, <3>1 DEF Settings!LoseSetting
    <2> QED
      BY <2>1, <2>2
  <1>16. ASSUME NEW k \in calls, Settings!LoseModel(k) PROVE Settings!ModelIsOfCurrent'
    <2>1. CASE k.op = "slash"
      BY <1>2, <1>16, <2>1 DEF Settings!LoseModel
    <2>2. CASE k.op = "model" /\ current = k.on
      <3>1. /\ k.was # Settings!NoModel /\ k.on \in Chats
            /\ own' = [own EXCEPT ![k.on].model = k.was] /\ model' = k.was /\ current' = k.on
        BY <1>16, <2>2 DEF Settings!LoseModel, ChosenChange, Settings!NoModel
      <3>2. own'[k.on].model = k.was
        BY <3>1 DEF Settings!Own
      <3> QED
        BY <3>1, <3>2 DEF Settings!ModelIsOfCurrent, Settings!ModelOf
    <2>3. CASE k.op = "model" /\ current # k.on
      BY <1>4, <1>16, <2>3 DEF Settings!LoseModel
    <2> QED
      BY <1>16, <2>1, <2>2, <2>3 DEF Settings!LoseModel
  <1>17. ASSUME NEW k \in calls, Settings!LockAnswered(k) PROVE Settings!ModelIsOfCurrent'
    <2>1. current \in Chats => own'[current].model = own[current].model
      BY <1>17 DEF Settings!LockAnswered, Settings!Own
    <2> QED
      BY <1>2, <1>17, <2>1 DEF Settings!LockAnswered
  <1>18. ASSUME NEW k \in calls, Settings!SummaryAnswered(k) PROVE Settings!ModelIsOfCurrent'
    BY <1>4, <1>18 DEF Settings!SummaryAnswered
  <1>19. CASE Settings!ReadFiles
    BY <1>1, <1>2, <1>19 DEF Settings!ReadFiles
  <1>20. CASE Settings!DropConnection
    BY <1>2, <1>20 DEF Settings!DropConnection
  <1>21. CASE Settings!Reconnect
    BY <1>1, <1>21 DEF Settings!Reconnect, Settings!ModelIsOfCurrent, Settings!ModelOf
  <1>22. CASE UNCHANGED Settings!settingsVars
    BY <1>2, <1>22 DEF Settings!settingsVars
  <1> QED
    BY <1>5, <1>6, <1>7, <1>8, <1>9, <1>10, <1>11, <1>12, <1>13, <1>14, <1>15, <1>16, <1>17, <1>18,
       <1>19, <1>20, <1>21, <1>22
    DEF Settings!SettingsNext, Settings!UnlockSensitive, Settings!LockSensitive

(* Requests of one thing that are still out, each made on what the one before it set. *)
ChainFits(K, now, then) ==
    /\ K = {} => now = then
    /\ \A k \in K : (\A j \in K : k.id <= j.id) => k.was = then
    /\ \A k \in K : (\A j \in K : j.id <= k.id) => k.to = now
    /\ \A j, k \in K : (j.id < k.id /\ \A i \in K : i.id <= j.id \/ k.id <= i.id) => k.was = j.to

LEMMA ChainGrows ==
    ASSUME NEW K, NEW now, NEW then, NEW r, r.id \in Nat, \A k \in K : k.id \in Nat /\ k.id < r.id,
           r.was = now, ChainFits(K, now, then)
    PROVE  ChainFits(K \cup {r}, r.to, then)
  <1>1. ASSUME NEW k \in K \cup {r}, \A j \in K \cup {r} : k.id <= j.id
        PROVE  k.was = then
    <2>1. CASE k = r
      <3>1. K = {}
        BY <1>1, <2>1
      <3> QED
        BY <2>1, <3>1 DEF ChainFits
    <2>2. CASE k \in K
      BY <1>1, <2>2 DEF ChainFits
    <2> QED
      BY <2>1, <2>2
  <1>2. ASSUME NEW k \in K \cup {r}, \A j \in K \cup {r} : j.id <= k.id
        PROVE  k.to = r.to
    BY <1>2
  <1>3. ASSUME NEW j \in K \cup {r}, NEW k \in K \cup {r}, j.id < k.id,
               \A i \in K \cup {r} : i.id <= j.id \/ k.id <= i.id
        PROVE  k.was = j.to
    <2>1. j \in K
      BY <1>3
    <2>2. CASE k = r
      <3>1. \A i \in K : i.id <= j.id
        BY <1>3, <2>2
      <3> QED
        BY <2>1, <2>2, <3>1 DEF ChainFits
    <2>3. CASE k \in K
      BY <1>3, <2>1, <2>3 DEF ChainFits
    <2> QED
      BY <2>2, <2>3
  <1> QED
    BY <1>1, <1>2, <1>3 DEF ChainFits

LEMMA ChainTaken ==
    ASSUME NEW K, NEW now, NEW then, NEW k \in K, \A j \in K : j.id \in Nat /\ k.id <= j.id,
           \A j \in K : j.id = k.id => j = k, ChainFits(K, now, then)
    PROVE  ChainFits(K \ {k}, now, k.to)
  <1>1. K \ {k} = {} => now = k.to
    BY DEF ChainFits
  <1>2. ASSUME NEW l \in K \ {k}, \A j \in K \ {k} : l.id <= j.id
        PROVE  l.was = k.to
    <2>1. k.id < l.id /\ \A i \in K : i.id <= k.id \/ l.id <= i.id
      BY <1>2
    <2> QED
      BY <2>1 DEF ChainFits
  <1>3. ASSUME NEW l \in K \ {k}, \A j \in K \ {k} : j.id <= l.id
        PROVE  l.to = now
    <2>1. \A j \in K : j.id <= l.id
      BY <1>3
    <2> QED
      BY <2>1 DEF ChainFits
  <1>4. ASSUME NEW j \in K \ {k}, NEW l \in K \ {k}, j.id < l.id,
               \A i \in K \ {k} : i.id <= j.id \/ l.id <= i.id
        PROVE  l.was = j.to
    <2>1. \A i \in K : i.id <= j.id \/ l.id <= i.id
      BY <1>4
    <2> QED
      BY <1>4, <2>1 DEF ChainFits
  <1> QED
    BY <1>1, <1>2, <1>3, <1>4 DEF ChainFits

-----------------------------------------------------------------------------
(* What a step does to the requests. *)

SettingSent(r) ==
    /\ calls' = calls \cup {r} /\ acts' = acts + 1 /\ r.id = acts + 1 /\ r.step = "out"
SettingTaken(k, later) ==
    /\ calls' = (calls \ {k}) \cup {later} /\ acts' = acts
    /\ k.step = "out" /\ later.step = "back"
    /\ later.id = k.id /\ later.on = k.on /\ later.op = k.op /\ later.to = k.to
SettingEnded(k) == calls' = calls \ {k} /\ acts' = acts
SettingKept == calls' = calls /\ acts' \in {acts, acts + 1}

LEMMA ChangeFields ==
    ASSUME NEW op, NEW on, NEW to, NEW was
    PROVE  LET r == Settings!Change(op, on, to, was)
           IN  /\ r.id = acts + 1 /\ r.step = "out" /\ r.op = op /\ r.on = on /\ r.to = to
               /\ r.was = was
  BY DEF Settings!Change

LEMMA SettingTakes ==
    ASSUME SettingsTyped, NEW k \in calls,
           \/ Settings!TakeSetting(k) \/ Settings!TakeModel(k) \/ Settings!TakeLock(k)
           \/ Settings!TakeSummary(k)
    PROVE  \E later : SettingTaken(k, later)
  <1>1. k \in Settings!Changes
    BY DEF SettingsTyped, ValuesAreChosen, ChosenChange
  <1> DEFINE later == [k EXCEPT !.step = "back"]
  <1>2. /\ later.step = "back" /\ later.id = k.id /\ later.on = k.on /\ later.op = k.op
        /\ later.to = k.to
    BY <1>1 DEF Settings!Changes
  <1>3. calls' = (calls \ {k}) \cup {later} /\ acts' = acts /\ k.step = "out"
    BY DEF Settings!TakeSetting, Settings!TakeModel, Settings!TakeLock, Settings!TakeSummary,
           Settings!Becomes
  <1> HIDE DEF later
  <1> QED
    BY <1>2, <1>3 DEF SettingTaken

LEMMA SettingEnds ==
    ASSUME NEW k \in calls,
           \/ Settings!SettingAnswered(k) \/ Settings!LoseSetting(k) \/ Settings!ModelAnswered(k)
           \/ Settings!LoseModel(k) \/ Settings!LockAnswered(k) \/ Settings!LoseLock(k)
           \/ Settings!SummaryAnswered(k)
    PROVE  SettingEnded(k)
  BY DEF Settings!SettingAnswered, Settings!LoseSetting, Settings!ModelAnswered, Settings!LoseModel,
         Settings!LockAnswered, Settings!LoseLock, Settings!SummaryAnswered, Settings!Ends,
         SettingEnded

\* A handler sends what it has to, when there is a connection, or nothing.
LEMMA SettingSends ==
    ASSUME \/ \E s \in Settings!Columns : Settings!Toggle(s) \/ Settings!Choose(s) \/ Settings!SaveText(s)
           \/ \E op \in {"model", "slash"} : Settings!ChangeModel(op)
           \/ \E b \in BOOLEAN : Settings!AskLock(b)
           \/ \E c \in Chats : Settings!Summarize(c) \/ Settings!DeleteChat(c)
    PROVE  (\E r : SettingSent(r)) \/ SettingKept
  <1>1. \A s, v : (Settings!Set(s, v) /\ Settings!Act) => (\E r : SettingSent(r)) \/ SettingKept
    BY ChangeFields DEF Settings!Set, Settings!Act, Settings!Ask, SettingSent, SettingKept
  <1>2. \A op : Settings!ChangeModel(op) => (\E r : SettingSent(r)) \/ SettingKept
    BY ChangeFields DEF Settings!ChangeModel, Settings!Act, Settings!Ask, SettingSent, SettingKept
  <1>3. \A b : Settings!AskLock(b) => (\E r : SettingSent(r)) \/ SettingKept
    BY ChangeFields DEF Settings!AskLock, Settings!Act, Settings!Ask, SettingSent, SettingKept
  <1>4. \A c : Settings!Summarize(c) \/ Settings!DeleteChat(c) => (\E r : SettingSent(r)) \/ SettingKept
    BY ChangeFields
    DEF Settings!Summarize, Settings!DeleteChat, Settings!Act, Settings!Ask, SettingSent, SettingKept
  <1>5. \A s : Settings!Toggle(s) \/ Settings!Choose(s) \/ Settings!SaveText(s) =>
                  Settings!Act /\ \E v : Settings!Set(s, v)
    BY DEF Settings!Toggle, Settings!Choose, Settings!SaveText
  <1> QED
    BY <1>1, <1>2, <1>3, <1>4, <1>5

\* An id is of one request, and ids grow.
IdsAreUnique ==
    /\ acts \in Nat
    /\ \A k \in calls : k.id \in Nat /\ k.id <= acts
    /\ \A j, k \in calls : j.id = k.id => j = k

LEMMA SettingIds ==
    ASSUME SettingsTyped, IdsAreUnique, Settings!SettingsNext
    PROVE  IdsAreUnique'
  <1>1. CASE \E r : SettingSent(r)
    BY <1>1 DEF SettingSent, IdsAreUnique
  <1>2. CASE \E k \in calls : \E later : SettingTaken(k, later)
    BY <1>2 DEF SettingTaken, IdsAreUnique
  <1>3. CASE \E k \in calls : SettingEnded(k)
    BY <1>3 DEF SettingEnded, IdsAreUnique
  <1>4. CASE SettingKept
    BY <1>4 DEF SettingKept, IdsAreUnique
  <1>5. \A s, c :
           (\/ Settings!OpenText(s) \/ Settings!CloseText(s) \/ Settings!SelectChat(c)
            \/ Settings!ReadFiles \/ Settings!DropConnection \/ Settings!Reconnect) => SettingKept
    BY DEF Settings!OpenText, Settings!CloseText, Settings!SelectChat, Settings!ReadFiles,
           Settings!DropConnection, Settings!Reconnect, Settings!requestVars, SettingKept
  <1> QED
    BY <1>1, <1>2, <1>3, <1>4, <1>5, SettingTakes, SettingEnds, SettingSends
    DEF Settings!SettingsNext, Settings!UnlockSensitive, Settings!LockSensitive

OutOn(s) == {k \in calls : k.on = s /\ k.step = "out"}
\* What is edited is sent: a text once it has been read.
Told(s) == IF s \in Texts THEN files = "read" ELSE linked
SettingFits(s) ==
    /\ (~linked \/ ~Told(s)) => \A k \in calls : k.on # s
    /\ Told(s) => ChainFits(OutOn(s), setting[s], saved[s])
SettingsFit == \A s \in Settings!Columns \ unsure : SettingFits(s)

\* A step that leaves a setting and its requests alone.
LEMMA SettingAside ==
    ASSUME NEW s, SettingFits(s), setting'[s] = setting[s], saved'[s] = saved[s],
           linked' = linked, Told(s)' = Told(s), OutOn(s)' = OutOn(s),
           \A k \in calls' : k.on = s => \E j \in calls : j.on = s
    PROVE  SettingFits(s)'
  <1>1. (~linked' \/ ~Told(s)') => \A k \in calls' : k.on # s
    BY DEF SettingFits
  <1>2. Told(s)' => ChainFits(OutOn(s)', setting'[s], saved'[s])
    BY DEF SettingFits
  <1> QED
    BY <1>1, <1>2 DEF SettingFits

\* No request is of a setting that has none, and it shows what is saved.
LEMMA SettingQuiet ==
    ASSUME NEW s, \A k \in calls' : k.on # s, Told(s)' => setting'[s] = saved'[s]
    PROVE  SettingFits(s)'
  <1>1. OutOn(s)' = {}
    BY DEF OutOn
  <1>2. Told(s)' => ChainFits(OutOn(s)', setting'[s], saved'[s])
    BY <1>1 DEF ChainFits
  <1> QED
    BY <1>2 DEF SettingFits

\* A request that is not of the setting, or was answered already.
LEMMA SettingOthers ==
    ASSUME NEW s, SettingFits(s), setting'[s] = setting[s], saved'[s] = saved[s],
           UNCHANGED <<linked, files>>,
           \/ \E r : SettingSent(r) /\ r.on # s
           \/ SettingKept
           \/ \E k \in calls : \E later : SettingTaken(k, later) /\ k.on # s
           \/ \E k \in calls : SettingEnded(k) /\ (k.on # s \/ k.step = "back")
    PROVE  SettingFits(s)'
  <1>1. Told(s)' = Told(s)
    BY DEF Told
  <1>2. OutOn(s)' = OutOn(s)
    <2>1. \A k : (k \in calls' /\ k.on = s /\ k.step = "out") <=> (k \in calls /\ k.on = s /\ k.step = "out")
      BY DEF SettingSent, SettingKept, SettingTaken, SettingEnded
    <2> QED
      BY <2>1 DEF OutOn
  <1>3. \A k \in calls' : k.on = s => \E j \in calls : j.on = s
    BY DEF SettingSent, SettingKept, SettingTaken, SettingEnded
  <1> QED
    BY <1>1, <1>2, <1>3, SettingAside

\* A setting is edited.
LEMMA SettingEdited ==
    ASSUME SettingsTyped, IdsAreUnique, NEW t \in Settings!Columns, NEW v, Settings!Set(t, v),
           Settings!Act, UNCHANGED <<saved, linked, files>>,
           NEW s \in Settings!Columns \ unsure', SettingFits(s)
    PROVE  SettingFits(s)'
  <1> DEFINE r == Settings!Change("set", t, v, setting[t])
  <1>1. r.on = t /\ r.id = acts + 1 /\ r.step = "out" /\ r.to = v /\ r.was = setting[t]
    BY ChangeFields
  <1>2. /\ setting' = [setting EXCEPT ![t] = v] /\ setting \in [Settings!Columns -> Nat]
        /\ calls' = calls \cup (IF linked THEN {r} ELSE {}) /\ acts' = acts + 1
    BY DEF Settings!Set, Settings!Ask, Settings!Act, SettingsTyped, Settings!SettingsTypeOK
  <1> HIDE DEF r
  <1>3. CASE s # t
    <2>1. setting'[s] = setting[s]
      BY <1>2, <1>3
    <2>2. SettingSent(r) \/ SettingKept
      BY <1>1, <1>2 DEF SettingSent, SettingKept
    <2> QED
      BY <1>1, <1>3, <2>1, <2>2, SettingOthers
  <1>4. CASE s = t /\ ~linked
    <2>1. s \notin Texts
      BY <1>4 DEF Settings!Set
    <2> QED
      BY <1>2, <1>4, <2>1 DEF SettingFits, Told
  <1>5. CASE s = t /\ linked
    <2>1. Told(s) /\ Told(s)' /\ linked'
      BY <1>5 DEF Settings!Set, Told
    <2>2. OutOn(s)' = OutOn(s) \cup {r}
      BY <1>1, <1>2, <1>5 DEF OutOn
    <2>3. r.id \in Nat /\ \A k \in OutOn(s) : k.id \in Nat /\ k.id < r.id
      BY <1>1 DEF IdsAreUnique, OutOn
    <2>4. ChainFits(OutOn(s), setting[s], saved[s])
      BY <2>1 DEF SettingFits
    <2>5. r.was = setting[s] /\ r.to = setting'[s]
      BY <1>1, <1>2, <1>5
    <2>6. ChainFits(OutOn(s) \cup {r}, r.to, saved[s])
      BY <2>3, <2>4, <2>5, ChainGrows
    <2> QED
      BY <2>1, <2>2, <2>5, <2>6 DEF SettingFits
  <1> QED
    BY <1>3, <1>4, <1>5

LEMMA SettingTakenFits ==
    ASSUME SettingsTyped, IdsAreUnique, NEW k \in calls, Settings!TakeSetting(k),
           NEW s \in Settings!Columns \ unsure', SettingFits(s)
    PROVE  SettingFits(s)'
  <1>1. PICK later : SettingTaken(k, later)
    BY SettingTakes
  <1>2. /\ k.on \in Settings!Columns /\ saved \in [Settings!Columns -> Nat] /\ k.step = "out"
        /\ saved' = [saved EXCEPT ![k.on] = k.to] /\ UNCHANGED <<setting, linked, files>>
    BY DEF Settings!TakeSetting, SettingsTyped, Settings!SettingsTypeOK, ValuesAreChosen, ChosenChange
  <1>3. CASE s # k.on
    BY <1>1, <1>2, <1>3, SettingOthers
  <1>4. CASE s = k.on
    <2>1. linked /\ Told(s) /\ Told(s)'
      BY <1>2, <1>4 DEF SettingFits, Told
    <2>2. k \in OutOn(s) /\ OutOn(s)' = OutOn(s) \ {k}
      BY <1>1, <1>2, <1>4 DEF OutOn, SettingTaken
    <2>3. \A j \in OutOn(s) : j.id \in Nat /\ k.id <= j.id
      BY <1>4 DEF OutOn, IdsAreUnique, Settings!TakeSetting
    <2>4. \A j \in OutOn(s) : j.id = k.id => j = k
      BY DEF OutOn, IdsAreUnique
    <2>5. ChainFits(OutOn(s), setting[s], saved[s])
      BY <2>1 DEF SettingFits
    <2>6. ChainFits(OutOn(s) \ {k}, setting[s], k.to)
      BY <2>2, <2>3, <2>4, <2>5, ChainTaken
    <2>7. saved'[s] = k.to /\ setting'[s] = setting[s]
      BY <1>2, <1>4
    <2> QED
      BY <1>2, <2>1, <2>2, <2>6, <2>7 DEF SettingFits
  <1> QED
    BY <1>3, <1>4

LEMMA SettingLostFits ==
    ASSUME SettingsTyped, NEW k \in calls, Settings!LoseSetting(k),
           NEW s \in Settings!Columns \ unsure', SettingFits(s)
    PROVE  SettingFits(s)'
  <1>1. SettingEnded(k)
    BY SettingEnds
  <1>2. /\ k.on \in Settings!Columns /\ setting \in [Settings!Columns -> Nat]
        /\ k \in Settings!Changes
        /\ setting' = [setting EXCEPT ![k.on] = k.was] /\ UNCHANGED <<saved, linked, files>>
    BY DEF Settings!LoseSetting, SettingsTyped, Settings!SettingsTypeOK, ValuesAreChosen, ChosenChange
  <1>3. CASE s # k.on
    <2>1. setting'[s] = setting[s]
      BY <1>2, <1>3
    <2> QED
      BY <1>1, <1>2, <1>3, <2>1, SettingOthers
  <1>4. CASE s = k.on
    <2>1. k.step = "out" /\ \A j \in calls : j.on = s => j = k
      BY <1>2, <1>4 DEF Settings!LoseSetting, Settings!Shares, Settings!Changes
    <2>2. Told(s)
      BY <1>4 DEF SettingFits
    <2>3. OutOn(s) = {k}
      BY <1>4, <2>1 DEF OutOn
    <2>4. k.was = saved[s]
      <3>1. \A j \in OutOn(s) : k.id <= j.id
        BY <1>2, <2>3 DEF Settings!Changes
      <3> QED
        BY <2>2, <2>3, <3>1 DEF SettingFits, ChainFits
    <2>5. \A j \in calls' : j.on # s
      BY <1>1, <2>1 DEF SettingEnded
    <2>6. setting'[s] = saved'[s]
      BY <1>2, <1>4, <2>4
    <2> QED
      BY <2>5, <2>6, SettingQuiet
  <1> QED
    BY <1>3, <1>4

LEMMA SettingsFitStep ==
    ASSUME SettingsTyped, IdsAreUnique, SettingsFit, Settings!SettingsNext
    PROVE  SettingsFit'
  <1> SUFFICES ASSUME NEW s \in Settings!Columns, s \notin unsure' PROVE SettingFits(s)'
    BY DEF SettingsFit
  <1> USE DEF SettingsTyped
  <1>1. s \notin Chats /\ \A k \in calls : k.op # "set" => k.on \in Chats
    BY DeskAssumption DEF Settings!SettingsAssumption, ValuesAreChosen, ChosenChange
  <1>2. s \notin unsure => SettingFits(s)
    BY DEF SettingsFit
  <1>3. ASSUME NEW t \in Settings!Columns, Settings!Toggle(t) \/ Settings!Choose(t) \/ Settings!SaveText(t)
        PROVE  SettingFits(s)'
    <2>1. /\ Settings!Act /\ UNCHANGED <<saved, linked, files>>
          /\ \E v : Settings!Set(t, v)
      BY <1>3 DEF Settings!Toggle, Settings!Choose, Settings!SaveText
    <2>2. s \notin unsure
      BY <2>1 DEF Settings!Set
    <2> QED
      BY <1>2, <2>1, <2>2, SettingEdited
  <1>4. ASSUME NEW t \in Settings!Columns, Settings!OpenText(t) \/ Settings!CloseText(t)
        PROVE  SettingFits(s)'
    BY <1>2, <1>4, SettingOthers
    DEF Settings!OpenText, Settings!CloseText, Settings!requestVars, SettingKept
  <1>5. ASSUME NEW c \in Chats,
               \/ Settings!SelectChat(c) \/ Settings!DeleteChat(c) \/ Settings!Summarize(c)
        PROVE  SettingFits(s)'
    <2>1. UNCHANGED <<setting, saved, linked, files, unsure>>
      BY <1>5 DEF Settings!SelectChat, Settings!DeleteChat, Settings!Summarize
    <2>2. (\E r : SettingSent(r) /\ r.on # s) \/ SettingKept
      BY <1>1, <1>5, ChangeFields
      DEF Settings!SelectChat, Settings!DeleteChat, Settings!Summarize, Settings!Act, Settings!Ask,
          Settings!requestVars, SettingSent, SettingKept
    <2> QED
      BY <1>2, <2>1, <2>2, SettingOthers
  <1>6. current # NoChat => current \in Chats
    BY DEF Settings!SettingsTypeOK
  <1>7. ASSUME NEW op \in {"model", "slash"}, Settings!ChangeModel(op) PROVE SettingFits(s)'
    <2>1. UNCHANGED <<setting, saved, linked, files, unsure>>
      BY <1>7 DEF Settings!ChangeModel
    <2>2. (\E r : SettingSent(r) /\ r.on # s) \/ SettingKept
      BY <1>1, <1>6, <1>7, ChangeFields
      DEF Settings!ChangeModel, Settings!Act, Settings!Ask, SettingSent, SettingKept
    <2> QED
      BY <1>2, <2>1, <2>2, SettingOthers
  <1>8. ASSUME NEW b \in BOOLEAN, Settings!AskLock(b) PROVE SettingFits(s)'
    <2>1. UNCHANGED <<setting, saved, linked, files, unsure>>
      BY <1>8 DEF Settings!AskLock
    <2>2. (\E r : SettingSent(r) /\ r.on # s) \/ SettingKept
      BY <1>1, <1>6, <1>8, ChangeFields
      DEF Settings!AskLock, Settings!Act, Settings!Ask, SettingSent, SettingKept
    <2> QED
      BY <1>2, <2>1, <2>2, SettingOthers
  <1>9. ASSUME NEW k \in calls, Settings!TakeSetting(k) PROVE SettingFits(s)'
    BY <1>2, <1>9, SettingTakenFits DEF Settings!TakeSetting
  <1>10. ASSUME NEW k \in calls, Settings!LoseSetting(k) PROVE SettingFits(s)'
    BY <1>2, <1>10, SettingLostFits DEF Settings!LoseSetting
  <1>11. ASSUME NEW k \in calls, Settings!SettingAnswered(k) PROVE SettingFits(s)'
    BY <1>2, <1>11, SettingEnds, SettingOthers DEF Settings!SettingAnswered
  <1>12. ASSUME NEW k \in calls,
                Settings!TakeModel(k) \/ Settings!TakeLock(k) \/ Settings!TakeSummary(k)
         PROVE  SettingFits(s)'
    <2>1. UNCHANGED <<setting, saved, linked, files>> /\ k.on # s /\ s \notin unsure
      BY <1>1, <1>12 DEF Settings!TakeModel, Settings!TakeLock, Settings!TakeSummary
    <2> QED
      BY <1>2, <1>12, <2>1, SettingTakes, SettingOthers
  <1>13. ASSUME NEW k \in calls,
                \/ Settings!ModelAnswered(k) \/ Settings!LoseModel(k) \/ Settings!LockAnswered(k)
                \/ Settings!LoseLock(k) \/ Settings!SummaryAnswered(k)
         PROVE  SettingFits(s)'
    <2>1. UNCHANGED <<setting, saved, linked, files>> /\ k.on # s /\ s \notin unsure
      BY <1>1, <1>13 DEF Settings!ModelAnswered, Settings!LoseModel, Settings!LockAnswered,
                         Settings!LoseLock, Settings!SummaryAnswered
    <2> QED
      BY <1>2, <1>13, <2>1, SettingEnds, SettingOthers
  <1>14. CASE Settings!ReadFiles
    <2>1. /\ linked /\ files # "read" /\ UNCHANGED <<calls, saved, linked, unsure>>
          /\ s \notin Texts => setting'[s] = setting[s]
          /\ (s \in Texts /\ files' = "read") => setting'[s] = saved[s]
      BY <1>14 DEF Settings!ReadFiles, Settings!requestVars
    <2>2. CASE s \in Texts
      <3>1. \A k \in calls' : k.on # s
        BY <1>2, <2>1, <2>2 DEF SettingFits, Told
      <3> QED
        BY <2>1, <2>2, <3>1, SettingQuiet DEF Told
    <2>3. CASE s \notin Texts
      BY <1>2, <2>1, <2>3, SettingAside DEF Told, OutOn
    <2> QED
      BY <2>2, <2>3
  <1>15. CASE Settings!DropConnection
    <2>1. /\ \A k \in calls' : k.on # s
          /\ UNCHANGED <<calls, setting, saved>> /\ s \notin unsure /\ linked
          /\ linked' = FALSE /\ (files' = "read" => files = "read")
      BY <1>15 DEF Settings!DropConnection
    <2>2. OutOn(s) = {}
      BY <2>1 DEF OutOn
    <2>3. Told(s)' => setting[s] = saved[s]
      BY <1>2, <2>1, <2>2 DEF SettingFits, Told, ChainFits
    <2> QED
      BY <2>1, <2>3, SettingQuiet
  <1>16. CASE Settings!Reconnect
    <2>1. /\ ~linked /\ UNCHANGED <<calls, saved, files, unsure>>
          /\ s \in Texts => setting'[s] = setting[s]
          /\ s \notin Texts => setting'[s] = saved[s]
      BY <1>16 DEF Settings!Reconnect, Settings!requestVars
    <2>2. \A k \in calls' : k.on # s
      BY <1>2, <2>1 DEF SettingFits
    <2>3. OutOn(s) = {}
      BY <2>1, <2>2 DEF OutOn
    <2>4. Told(s)' => setting'[s] = saved'[s]
      BY <1>2, <2>1, <2>3 DEF SettingFits, Told, ChainFits
    <2> QED
      BY <2>2, <2>4, SettingQuiet
  <1> QED
    BY <1>3, <1>4, <1>5, <1>7, <1>8, <1>9, <1>10, <1>11, <1>12, <1>13, <1>14, <1>15, <1>16
    DEF Settings!SettingsNext, Settings!UnlockSensitive, Settings!LockSensitive

(* The requests K of one conversation, what the page has of it (o) and what the backend (p). *)
Models(k) == k.step = "out" /\ k.op \in {"model", "slash"}
Made(k) == k.step = "back" /\ k.op = "summary"
Locks(k) == k.step = "back" /\ k.op = "lock"
ChatChain(K, o, p, here) ==
    /\ (\A k \in K : ~Models(k) /\ ~Made(k)) => o.model = p.model
    /\ \A k \in K : (Models(k) /\ \A j \in K : Models(j) => j.id <= k.id) => k.to = o.model
    /\ \A k \in K : Made(k) => p.model = k.to
    /\ \A k \in K : k.op = "summary" => ~here /\ \A j \in K : j = k
    /\ (\A k \in K : ~Locks(k)) => (o.unlocked <=> p.unlocked)
    /\ \A k \in K : Locks(k) => (p.unlocked <=> k.to = 1) /\ \A j \in K : Locks(j) => j = k

AskedOf(c) == {k \in calls : k.on = c}
ChatFits(c) ==
    /\ ~linked => AskedOf(c) = {}
    /\ linked => ChatChain(AskedOf(c), own[c], kept[c], c \in present)
ChatsFit == \A c \in Chats \ unsure : ChatFits(c)

LEMMA ChatAside ==
    ASSUME NEW c, ChatFits(c), own'[c] = own[c], kept'[c] = kept[c], linked' = linked,
           c \in present' => c \in present, AskedOf(c)' = AskedOf(c)
    PROVE  ChatFits(c)'
  <1>1. linked' => ChatChain(AskedOf(c)', own'[c], kept'[c], c \in present')
    BY DEF ChatFits, ChatChain
  <1> QED
    BY <1>1 DEF ChatFits

\* A step that is not of the conversation, or brings an answer that changes nothing of it.
LEMMA ChatOthers ==
    ASSUME NEW c, ChatFits(c), own'[c] = own[c], kept'[c] = kept[c],
           linked' = linked, c \in present' => c \in present,
           \/ \E r : SettingSent(r) /\ r.on # c
           \/ SettingKept
           \/ \E k \in calls : \E later : SettingTaken(k, later) /\ k.on # c
           \/ \E k \in calls : SettingEnded(k) /\ (k.on # c \/ (~Models(k) /\ ~Made(k) /\ ~Locks(k)))
    PROVE  ChatFits(c)'
  <1>1. CASE \E k \in calls : SettingEnded(k) /\ k.on = c /\ ~Models(k) /\ ~Made(k) /\ ~Locks(k)
    <2>1. PICK k \in calls : SettingEnded(k) /\ k.on = c /\ ~Models(k) /\ ~Made(k) /\ ~Locks(k)
      BY <1>1
    <2>2. AskedOf(c)' = AskedOf(c) \ {k} /\ k \in AskedOf(c)
      BY <2>1 DEF AskedOf, SettingEnded
    <2>3. linked => ChatChain(AskedOf(c) \ {k}, own[c], kept[c], c \in present')
      BY <2>1, <2>2 DEF ChatFits, ChatChain, Models
    <2> QED
      BY <2>2, <2>3 DEF ChatFits
  <1>2. CASE ~\E k \in calls : SettingEnded(k) /\ k.on = c /\ ~Models(k) /\ ~Made(k) /\ ~Locks(k)
    <2>1. \A k : (k \in calls' /\ k.on = c) <=> (k \in calls /\ k.on = c)
      BY <1>2 DEF SettingSent, SettingKept, SettingTaken, SettingEnded
    <2>2. AskedOf(c)' = AskedOf(c)
      BY <2>1 DEF AskedOf
    <2> QED
      BY <2>2, ChatAside
  <1> QED
    BY <1>1, <1>2

LEMMA OwnChanges ==
    ASSUME NEW f \in Settings!Own, NEW c \in Chats, NEW m, NEW b
    PROVE  /\ [f EXCEPT ![c].model = m][c].model = m
           /\ [f EXCEPT ![c].model = m][c].unlocked = f[c].unlocked
           /\ [f EXCEPT ![c].unlocked = b][c].unlocked = b
           /\ [f EXCEPT ![c].unlocked = b][c].model = f[c].model
           /\ \A d \in Chats \ {c} : /\ [f EXCEPT ![c].model = m][d] = f[d]
                                     /\ [f EXCEPT ![c].unlocked = b][d] = f[d]
  BY DEF Settings!Own

\* What the user asks of the active conversation.
LEMMA ChatAsked ==
    ASSUME SettingsTyped, IdsAreUnique, current \in present, NEW c \in Chats, ChatFits(c), NEW r,
           SettingSent(r), r.on = current, linked, UNCHANGED <<kept, present, linked>>,
           r.op # "summary",
           \A d \in Chats \ {current} : own'[d] = own[d],
           own'[current].unlocked <=> own[current].unlocked,
           IF Models(r) THEN own'[current].model = r.to ELSE own'[current].model = own[current].model
    PROVE  ChatFits(c)'
  <1>1. CASE c # current
    BY <1>1, ChatOthers
  <1>2. CASE c = current
    <2>1. AskedOf(c)' = AskedOf(c) \cup {r} /\ r.step = "out"
      BY <1>2 DEF AskedOf, SettingSent
    <2>2. ChatChain(AskedOf(c), own[c], kept[c], TRUE)
      BY <1>2 DEF ChatFits
    <2>3. r.id \in Nat /\ \A k \in AskedOf(c) : k.id \in Nat /\ k.id < r.id
      BY DEF AskedOf, IdsAreUnique, SettingSent
    <2>4. \A k \in AskedOf(c) : k.op # "summary"
      BY <2>2 DEF ChatChain
    <2> DEFINE K == AskedOf(c) \cup {r}
    <2>5. (\A k \in K : ~Models(k) /\ ~Made(k)) => own'[c].model = kept[c].model
      BY <1>2, <2>2 DEF ChatChain
    <2>6. \A k \in K : (Models(k) /\ \A j \in K : Models(j) => j.id <= k.id) => k.to = own'[c].model
      <3>1. ASSUME NEW k \in K, Models(k), \A j \in K : Models(j) => j.id <= k.id
            PROVE  k.to = own'[c].model
        <4>1. CASE k = r
          BY <1>2, <3>1, <4>1
        <4>2. CASE k # r
          <5>1. k \in AskedOf(c) /\ ~Models(r)
            BY <2>3, <3>1, <4>2
          <5> QED
            BY <1>2, <2>2, <3>1, <5>1 DEF ChatChain
        <4> QED
          BY <4>1, <4>2
      <3> QED
        BY <3>1
    <2>7. \A k \in K : ~Made(k) /\ k.op # "summary"
      BY <2>1, <2>4 DEF Made
    <2>8. (\A k \in K : ~Locks(k)) => (own'[c].unlocked <=> kept[c].unlocked)
      BY <1>2, <2>2 DEF ChatChain
    <2>9. \A k \in K : Locks(k) => (kept[c].unlocked <=> k.to = 1) /\ \A j \in K : Locks(j) => j = k
      BY <2>1, <2>2 DEF ChatChain, Locks
    <2>10. ChatChain(K, own'[c], kept'[c], c \in present')
      BY <2>5, <2>6, <2>7, <2>8, <2>9 DEF ChatChain
    <2> QED
      BY <2>1, <2>10 DEF ChatFits
  <1> QED
    BY <1>1, <1>2

LEMMA ChatModelTaken ==
    ASSUME SettingsTyped, IdsAreUnique, NEW k \in calls, Settings!TakeModel(k),
           NEW c \in Chats \ unsure', ChatFits(c)
    PROVE  ChatFits(c)'
  <1>1. PICK later : SettingTaken(k, later)
    BY SettingTakes
  <1>2. /\ k.on \in Chats /\ kept \in Settings!Own /\ k.step = "out" /\ k.op \in {"model", "slash"}
        /\ kept' = [kept EXCEPT ![k.on].model = k.to] /\ UNCHANGED <<own, linked, present>>
    BY DEF Settings!TakeModel, SettingsTyped, Settings!SettingsTypeOK, ValuesAreChosen, ChosenChange
  <1>3. CASE c # k.on
    BY <1>1, <1>2, <1>3, OwnChanges, ChatOthers
  <1>4. CASE c = k.on
    <2>1. linked /\ ChatChain(AskedOf(c), own[c], kept[c], c \in present)
      BY <1>4 DEF ChatFits, AskedOf
    <2>2. k \in AskedOf(c) /\ AskedOf(c)' = (AskedOf(c) \ {k}) \cup {later}
      BY <1>1, <1>4 DEF AskedOf, SettingTaken
    <2>3. \A j \in AskedOf(c) : /\ j.id \in Nat /\ j.id = k.id => j = k
                                /\ Models(j) => k.id <= j.id
      BY <1>4 DEF AskedOf, IdsAreUnique, Settings!TakeModel, Models
    <2>4. ~Models(later) /\ ~Made(later) /\ ~Locks(later) /\ later.op # "summary"
      BY <1>1, <1>2 DEF SettingTaken, Models, Made, Locks
    <2>5. \A j \in AskedOf(c) : j.op # "summary"
      BY <1>2, <2>1, <2>2 DEF ChatChain
    <2>6. kept'[c].model = k.to /\ (kept'[c].unlocked <=> kept[c].unlocked)
      BY <1>2, <1>4, OwnChanges
    <2> DEFINE K == (AskedOf(c) \ {k}) \cup {later}
    <2>7. (\A j \in K : ~Models(j)) => own[c].model = k.to
      <3>1. ASSUME \A j \in K : ~Models(j) PROVE own[c].model = k.to
        <4>1. Models(k) /\ \A j \in AskedOf(c) : Models(j) => j.id <= k.id
          BY <1>2, <2>2, <2>3, <3>1 DEF Models
        <4> QED
          BY <2>1, <2>2, <4>1 DEF ChatChain
      <3> QED
        BY <3>1
    <2>8. \A l \in K : (Models(l) /\ \A j \in K : Models(j) => j.id <= l.id) => l.to = own[c].model
      <3>1. ASSUME NEW l \in K, Models(l), \A j \in K : Models(j) => j.id <= l.id
            PROVE  l.to = own[c].model
        <4>1. l \in AskedOf(c) /\ \A j \in AskedOf(c) : Models(j) => j.id <= l.id
          BY <2>3, <2>4, <3>1
        <4> QED
          BY <2>1, <3>1, <4>1 DEF ChatChain
      <3> QED
        BY <3>1
    <2>9. \A j \in K : ~Made(j) /\ j.op # "summary"
      BY <2>4, <2>5 DEF Made
    <2>10. \A j : (j \in K /\ Locks(j)) <=> (j \in AskedOf(c) /\ Locks(j))
      BY <1>2, <2>4 DEF Locks
    <2>11. /\ (\A j \in K : ~Locks(j)) => (own[c].unlocked <=> kept'[c].unlocked)
           /\ \A j \in K : Locks(j) => (kept'[c].unlocked <=> j.to = 1) /\ \A i \in K : Locks(i) => i = j
      BY <2>1, <2>6, <2>10 DEF ChatChain
    <2>12. ChatChain(K, own'[c], kept'[c], c \in present')
      BY <1>2, <2>6, <2>7, <2>8, <2>9, <2>11 DEF ChatChain
    <2> QED
      BY <1>2, <2>1, <2>2, <2>12 DEF ChatFits
  <1> QED
    BY <1>3, <1>4

\* The one request of a conversation ends, and page and backend agree.
LEMMA ChatSettled ==
    ASSUME NEW c, AskedOf(c)' = {}, linked' => own'[c].model = kept'[c].model,
           linked' => (own'[c].unlocked <=> kept'[c].unlocked)
    PROVE  ChatFits(c)'
  <1>1. linked' => ChatChain(AskedOf(c)', own'[c], kept'[c], c \in present')
    BY DEF ChatChain
  <1> QED
    BY <1>1 DEF ChatFits

LEMMA ChatModelLost ==
    ASSUME SettingsTyped, NEW k \in calls, Settings!LoseModel(k), NEW c \in Chats \ unsure', ChatFits(c)
    PROVE  ChatFits(c)'
  <1>1. SettingEnded(k)
    BY SettingEnds
  <1>2. /\ k.on \in Chats /\ own \in Settings!Own /\ UNCHANGED <<kept, linked, present>>
        /\ k.op = "model" => own' = [own EXCEPT ![k.on].model = k.was]
        /\ k.op # "model" => UNCHANGED own
    BY DEF Settings!LoseModel, SettingsTyped, Settings!SettingsTypeOK, ValuesAreChosen, ChosenChange
  <1>3. CASE c # k.on
    <2>1. own'[c] = own[c]
      BY <1>2, <1>3, OwnChanges
    <2> QED
      BY <1>1, <1>2, <1>3, <2>1, ChatOthers
  <1>4. CASE c = k.on
    <2>1. /\ k.op = "model" /\ kept[c].model = k.was
          /\ \A j \in calls : j.on = c => j = k
      BY <1>4 DEF Settings!LoseModel, Settings!Shares
    <2>2. AskedOf(c)' = {} /\ AskedOf(c) = {k}
      BY <1>1, <1>4, <2>1 DEF AskedOf, SettingEnded
    <2>3. linked => (own[c].unlocked <=> kept[c].unlocked)
      BY <2>1, <2>2 DEF ChatFits, ChatChain, Locks
    <2>4. own'[c].model = k.was /\ (own'[c].unlocked <=> own[c].unlocked)
      <3>1. own' = [own EXCEPT ![c].model = k.was]
        BY <1>2, <1>4, <2>1
      <3> QED
        BY <1>2, <3>1, OwnChanges
    <2>5. own'[c].model = kept'[c].model /\ (linked => (own'[c].unlocked <=> kept'[c].unlocked))
      BY <1>2, <2>1, <2>3, <2>4
    <2> QED
      BY <1>2, <2>2, <2>5, ChatSettled
  <1> QED
    BY <1>3, <1>4

LEMMA ChatLockTaken ==
    ASSUME SettingsTyped, NEW k \in calls, Settings!TakeLock(k), NEW c \in Chats \ unsure', ChatFits(c)
    PROVE  ChatFits(c)'
  <1>1. PICK later : SettingTaken(k, later)
    BY SettingTakes
  <1>2. /\ k.on \in Chats /\ kept \in Settings!Own /\ k.op = "lock" /\ k.step = "out"
        /\ kept' = [kept EXCEPT ![k.on].unlocked = (k.to = 1)] /\ UNCHANGED <<own, linked, present>>
    BY DEF Settings!TakeLock, SettingsTyped, Settings!SettingsTypeOK, ValuesAreChosen, ChosenChange
  <1>3. CASE c # k.on
    <2>1. kept'[c] = kept[c]
      BY <1>2, <1>3, OwnChanges
    <2> QED
      BY <1>1, <1>2, <1>3, <2>1, ChatOthers
  <1>4. CASE c = k.on
    <2>1. \A j \in calls : j.on = c => j = k
      BY <1>4 DEF Settings!TakeLock, Settings!Shares
    <2>2. AskedOf(c)' = {later} /\ AskedOf(c) = {k}
      BY <1>1, <1>4, <2>1 DEF AskedOf, SettingTaken
    <2>3. linked => own[c].model = kept[c].model
      BY <1>2, <2>2 DEF ChatFits, ChatChain, Models, Made
    <2>4. (kept'[c].unlocked <=> k.to = 1) /\ kept'[c].model = kept[c].model
      <3>1. PICK b : b = (k.to = 1)
        OBVIOUS
      <3>2. kept' = [kept EXCEPT ![c].unlocked = b]
        BY <1>2, <1>4, <3>1
      <3>3. kept'[c].unlocked = b /\ kept'[c].model = kept[c].model
        <4>1. [kept EXCEPT ![c].unlocked = b][c].unlocked = b
          BY <1>2, OwnChanges
        <4>2. [kept EXCEPT ![c].unlocked = b][c].model = kept[c].model
          BY <1>2, OwnChanges
        <4> QED
          BY <3>2, <4>1, <4>2
      <3>4. kept'[c].unlocked = (k.to = 1)
        BY <3>1, <3>3, Zenon
      <3>5. kept'[c].unlocked <=> k.to = 1
        BY <3>4, Zenon
      <3> QED
        BY <3>3, <3>5
    <2>5. later.op = "lock" /\ later.step = "back" /\ later.to = k.to
      BY <1>1, <1>2 DEF SettingTaken
    <2>6. linked => ChatChain({later}, own[c], kept'[c], c \in present)
      BY <2>3, <2>4, <2>5 DEF ChatChain, Models, Made, Locks
    <2>7. linked
      BY <2>2 DEF ChatFits
    <2> QED
      BY <1>2, <2>2, <2>6, <2>7 DEF ChatFits
  <1> QED
    BY <1>3, <1>4

LEMMA ChatLockAnswered ==
    ASSUME SettingsTyped, NEW k \in calls, Settings!LockAnswered(k), NEW c \in Chats \ unsure', ChatFits(c)
    PROVE  ChatFits(c)'
  <1>1. SettingEnded(k)
    BY SettingEnds
  <1>2. /\ k.on \in Chats /\ own \in Settings!Own /\ k.op = "lock" /\ k.step = "back"
        /\ own' = [own EXCEPT ![k.on].unlocked = (k.to = 1)] /\ UNCHANGED <<kept, linked, present>>
    BY DEF Settings!LockAnswered, SettingsTyped, Settings!SettingsTypeOK, ValuesAreChosen, ChosenChange
  <1>3. CASE c # k.on
    <2>1. own'[c] = own[c]
      BY <1>2, <1>3, OwnChanges
    <2> QED
      BY <1>1, <1>2, <1>3, <2>1, ChatOthers
  <1>4. CASE c = k.on
    <2>1. AskedOf(c)' = AskedOf(c) \ {k} /\ k \in AskedOf(c)
      BY <1>1, <1>4 DEF AskedOf, SettingEnded
    <2>2. (own'[c].unlocked <=> k.to = 1) /\ own'[c].model = own[c].model
      <3>1. PICK b : b = (k.to = 1)
        OBVIOUS
      <3>2. own' = [own EXCEPT ![c].unlocked = b]
        BY <1>2, <1>4, <3>1
      <3>3. own'[c].unlocked = b /\ own'[c].model = own[c].model
        <4>1. [own EXCEPT ![c].unlocked = b][c].unlocked = b
          BY <1>2, OwnChanges
        <4>2. [own EXCEPT ![c].unlocked = b][c].model = own[c].model
          BY <1>2, OwnChanges
        <4> QED
          BY <3>2, <4>1, <4>2
      <3>4. own'[c].unlocked = (k.to = 1)
        BY <3>1, <3>3, Zenon
      <3>5. own'[c].unlocked <=> k.to = 1
        BY <3>4, Zenon
      <3> QED
        BY <3>3, <3>5
    <2>3. linked /\ ChatChain(AskedOf(c), own[c], kept[c], c \in present)
      BY <2>1 DEF ChatFits
    <2>4. /\ ~Models(k) /\ ~Made(k) /\ Locks(k)
      BY <1>2 DEF Models, Made, Locks
    <2>5. (own'[c].unlocked <=> kept[c].unlocked) /\ \A j \in AskedOf(c) : Locks(j) => j = k
      BY <2>1, <2>2, <2>3, <2>4 DEF ChatChain
    <2> DEFINE K == AskedOf(c) \ {k}
    <2>6. /\ (\A j \in K : ~Models(j) /\ ~Made(j)) => own'[c].model = kept[c].model
          /\ \A l \in K : (Models(l) /\ \A j \in K : Models(j) => j.id <= l.id) => l.to = own'[c].model
          /\ \A j \in K : Made(j) => kept[c].model = j.to
          /\ \A l \in K : l.op = "summary" => c \notin present /\ \A j \in K : j = l
      BY <2>2, <2>3, <2>4 DEF ChatChain
    <2>7. ChatChain(K, own'[c], kept[c], c \in present)
      BY <2>5, <2>6 DEF ChatChain
    <2> QED
      BY <1>2, <2>1, <2>3, <2>7 DEF ChatFits
  <1> QED
    BY <1>3, <1>4

LEMMA ChatSummaries ==
    ASSUME SettingsTyped, NEW k \in calls, Settings!TakeSummary(k) \/ Settings!SummaryAnswered(k),
           NEW c \in Chats \ unsure', ChatFits(c)
    PROVE  ChatFits(c)'
  <1>1. k.on \in Chats /\ own \in Settings!Own /\ kept \in Settings!Own /\ k.op = "summary"
    BY DEF Settings!TakeSummary, Settings!SummaryAnswered, SettingsTyped, Settings!SettingsTypeOK,
           ValuesAreChosen, ChosenChange
  <1>2. c = k.on => /\ linked /\ \A j \in AskedOf(c) : j = k
                    /\ ChatChain(AskedOf(c), own[c], kept[c], c \in present)
                    /\ k \in AskedOf(c) /\ c \notin present
    BY <1>1 DEF ChatFits, ChatChain, AskedOf
  <1>3. CASE Settings!TakeSummary(k)
    <2>1. PICK later : SettingTaken(k, later)
      BY <1>3, SettingTakes
    <2>2. kept' = [kept EXCEPT ![k.on].model = k.to] /\ UNCHANGED <<own, linked, present>>
      BY <1>3 DEF Settings!TakeSummary
    <2>3. CASE c # k.on
      <3>1. kept'[c] = kept[c]
        BY <1>1, <2>2, <2>3, OwnChanges
      <3> QED
        BY <2>1, <2>2, <2>3, <3>1, ChatOthers
    <2>4. CASE c = k.on
      <3>1. AskedOf(c)' = {later}
        BY <1>2, <2>1, <2>4 DEF AskedOf, SettingTaken
      <3>2. later.op = "summary" /\ later.step = "back" /\ later.to = k.to
        BY <1>1, <2>1 DEF SettingTaken
      <3>3. kept'[c].model = k.to /\ (kept'[c].unlocked <=> kept[c].unlocked)
        BY <1>1, <2>2, <2>4, OwnChanges
      <3>4. own[c].unlocked <=> kept[c].unlocked
        BY <1>1, <1>2, <2>4 DEF ChatChain, Locks
      <3>5. ChatChain({later}, own[c], kept'[c], c \in present)
        BY <1>2, <2>4, <3>2, <3>3, <3>4 DEF ChatChain, Models, Made, Locks
      <3> QED
        BY <1>2, <2>2, <2>4, <3>1, <3>5 DEF ChatFits
    <2> QED
      BY <2>3, <2>4
  <1>4. CASE Settings!SummaryAnswered(k)
    <2>1. SettingEnded(k)
      BY <1>4, SettingEnds
    <2>2. /\ own' = [own EXCEPT ![k.on].model = k.to] /\ UNCHANGED <<kept, linked>>
          /\ present' = present \cup {k.on} /\ k.step = "back"
      BY <1>4 DEF Settings!SummaryAnswered
    <2>3. CASE c # k.on
      <3>1. own'[c] = own[c]
        BY <1>1, <2>2, <2>3, OwnChanges
      <3> QED
        BY <2>1, <2>2, <2>3, <3>1, ChatOthers
    <2>4. CASE c = k.on
      <3>1. AskedOf(c)' = {}
        BY <1>2, <2>1, <2>4 DEF AskedOf, SettingEnded
      <3>2. own'[c].model = k.to /\ (own'[c].unlocked <=> own[c].unlocked)
        BY <1>1, <2>2, <2>4, OwnChanges
      <3>3. /\ kept[c].model = k.to
            /\ own[c].unlocked <=> kept[c].unlocked
        BY <1>1, <1>2, <2>2, <2>4 DEF ChatChain, Locks, Made
      <3> QED
        BY <2>2, <3>1, <3>2, <3>3, ChatSettled
    <2> QED
      BY <2>3, <2>4
  <1> QED
    BY <1>3, <1>4

LEMMA ChatSummarized ==
    ASSUME SettingsTyped, NEW d \in Chats, Settings!Summarize(d), NEW c \in Chats, ChatFits(c)
    PROVE  ChatFits(c)'
  <1> DEFINE r == Settings!Change("summary", d, setting["task"], 0)
  <1>1. SettingSent(r) /\ r.on = d /\ r.op = "summary" /\ r.step = "out"
    BY ChangeFields DEF Settings!Summarize, Settings!Act, Settings!Ask, SettingSent
  <1>2. UNCHANGED <<own, kept, present, linked>> /\ linked /\ d \notin present
    BY DEF Settings!Summarize
  <1> HIDE DEF r
  <1>3. CASE c # d
    BY <1>1, <1>2, <1>3, ChatOthers
  <1>4. CASE c = d
    <2>1. AskedOf(c) = {} /\ AskedOf(c)' = {r}
      BY <1>1, <1>4 DEF AskedOf, SettingSent, Settings!Summarize
    <2>2. own[c].model = kept[c].model /\ (own[c].unlocked <=> kept[c].unlocked)
      BY <1>2, <2>1 DEF ChatFits, ChatChain
    <2>3. ChatChain({r}, own[c], kept[c], c \in present)
      BY <1>1, <1>2, <1>4, <2>2 DEF ChatChain, Models, Made, Locks
    <2> QED
      BY <1>2, <2>1, <2>3 DEF ChatFits
  <1> QED
    BY <1>3, <1>4

LEMMA CurrentStaysPresent ==
    ASSUME SettingsTyped, current \in present, Settings!SettingsNext
    PROVE  current' \in present'
  <1>1. \A k \in calls : Settings!SummaryAnswered(k) => current' \in present'
    BY DEF Settings!SummaryAnswered
  <1>2. \A c : Settings!DeleteChat(c) => current' \in present'
    BY DEF Settings!DeleteChat
  <1>3. \A c : Settings!SelectChat(c) => current' \in present'
    BY DEF Settings!SelectChat
  <1>4. Settings!Reconnect => current' \in present'
    BY DEF Settings!Reconnect
  <1>5. /\ \A s : (\/ Settings!Toggle(s) \/ Settings!Choose(s) \/ Settings!SaveText(s)
                  \/ Settings!OpenText(s) \/ Settings!CloseText(s)) => UNCHANGED <<current, present>>
        /\ \A c : Settings!Summarize(c) => UNCHANGED <<current, present>>
        /\ \A op : Settings!ChangeModel(op) => UNCHANGED <<current, present>>
        /\ \A b \in BOOLEAN : Settings!AskLock(b) => UNCHANGED <<current, present>>
        /\ \A k : (\/ Settings!TakeSetting(k) \/ Settings!SettingAnswered(k) \/ Settings!LoseSetting(k)
                  \/ Settings!TakeModel(k) \/ Settings!ModelAnswered(k) \/ Settings!LoseModel(k)
                  \/ Settings!TakeLock(k) \/ Settings!LockAnswered(k) \/ Settings!LoseLock(k)
                  \/ Settings!TakeSummary(k)) => UNCHANGED <<current, present>>
        /\ (Settings!ReadFiles \/ Settings!DropConnection) => UNCHANGED <<current, present>>
    BY DEF Settings!Toggle, Settings!Choose, Settings!SaveText, Settings!OpenText, Settings!CloseText,
        Settings!Summarize, Settings!ChangeModel, Settings!AskLock, Settings!TakeSetting,
        Settings!SettingAnswered, Settings!LoseSetting, Settings!TakeModel, Settings!ModelAnswered,
        Settings!LoseModel, Settings!TakeLock, Settings!LockAnswered, Settings!LoseLock,
        Settings!TakeSummary, Settings!ReadFiles, Settings!DropConnection
  <1>6. UNCHANGED <<current, present>> => current' \in present'
    OBVIOUS
  <1>7. Settings!UnlockSensitive \/ Settings!LockSensitive => UNCHANGED <<current, present>>
    BY <1>5 DEF Settings!UnlockSensitive, Settings!LockSensitive
  <1> QED
    BY <1>1, <1>2, <1>3, <1>4, <1>5, <1>6, <1>7 DEF Settings!SettingsNext

LEMMA ChatsFitStep ==
    ASSUME SettingsTyped, IdsAreUnique, current \in present, ChatsFit, Settings!SettingsNext
    PROVE  ChatsFit'
  <1> SUFFICES ASSUME NEW c \in Chats, c \notin unsure' PROVE ChatFits(c)'
    BY DEF ChatsFit
  <1> USE DEF SettingsTyped
  <1>1. c \notin Settings!Columns /\ \A k \in calls : k.op = "set" => k.on \in Settings!Columns
    BY DeskAssumption DEF Settings!SettingsAssumption, ValuesAreChosen, ChosenChange
  <1>2. c \notin unsure => ChatFits(c)
    BY DEF ChatsFit
  <1>3. ASSUME NEW t \in Settings!Columns, Settings!Toggle(t) \/ Settings!Choose(t) \/ Settings!SaveText(t)
        PROVE  ChatFits(c)'
    <2>1. /\ Settings!Act /\ UNCHANGED <<own, kept, linked, present>>
          /\ \E v : Settings!Set(t, v)
      BY <1>3 DEF Settings!Toggle, Settings!Choose, Settings!SaveText
    <2>2. c \notin unsure /\ ((\E r : SettingSent(r) /\ r.on # c) \/ SettingKept)
      BY <1>1, <2>1, ChangeFields
      DEF Settings!Set, Settings!Act, Settings!Ask, SettingSent, SettingKept
    <2> QED
      BY <1>2, <2>1, <2>2, ChatOthers
  <1>4. ASSUME NEW t \in Settings!Columns, Settings!OpenText(t) \/ Settings!CloseText(t)
        PROVE  ChatFits(c)'
    BY <1>2, <1>4, ChatOthers
    DEF Settings!OpenText, Settings!CloseText, Settings!requestVars, SettingKept
  <1>5. ASSUME NEW d \in Chats, Settings!SelectChat(d) \/ Settings!DeleteChat(d)
        PROVE  ChatFits(c)'
    <2>1. /\ UNCHANGED <<own, kept, linked, unsure>> /\ (c \in present' => c \in present)
          /\ SettingKept
      BY <1>5 DEF Settings!SelectChat, Settings!DeleteChat, Settings!Act, Settings!requestVars,
                  SettingKept
    <2> QED
      BY <1>2, <2>1, ChatOthers
  <1>6. ASSUME NEW d \in Chats, Settings!Summarize(d) PROVE ChatFits(c)'
    BY <1>2, <1>6, ChatSummarized DEF Settings!Summarize
  <1>7. current \in Chats /\ own \in Settings!Own
    BY DEF Settings!SettingsTypeOK
  <1>8. ASSUME NEW op \in {"model", "slash"}, Settings!ChangeModel(op) PROVE ChatFits(c)'
    <2>1. /\ UNCHANGED <<kept, linked, present, unsure>> /\ Settings!Act
          /\ own' = [own EXCEPT ![current].model = Settings!New]
          /\ Settings!Ask(IF linked THEN {Settings!Change(op, current, Settings!New, model)} ELSE {})
      BY <1>8 DEF Settings!ChangeModel
    <2>2. CASE ~linked
      BY <1>2, <2>1, <2>2 DEF ChatFits, AskedOf, Settings!Ask
    <2>3. CASE linked
      <3> DEFINE r == Settings!Change(op, current, Settings!New, model)
      <3>1. /\ SettingSent(r) /\ r.on = current /\ r.op # "summary" /\ Models(r)
            /\ r.to = Settings!New
        BY <2>1, <2>3, ChangeFields DEF Settings!Act, Settings!Ask, SettingSent, Models
      <3> HIDE DEF r
      <3>2. /\ own'[current].model = Settings!New /\ own'[current].unlocked = own[current].unlocked
            /\ \A d \in Chats \ {current} : own'[d] = own[d]
        BY <1>7, <2>1, OwnChanges
      <3> QED
        BY <1>2, <2>1, <2>3, <3>1, <3>2, ChatAsked
    <2> QED
      BY <2>2, <2>3
  <1>9. ASSUME NEW b \in BOOLEAN, Settings!AskLock(b) PROVE ChatFits(c)'
    <2>1. UNCHANGED <<kept, linked, present, unsure>> /\ Settings!Act
      BY <1>9 DEF Settings!AskLock
    <2>2. CASE ~linked
      <3>1. UNCHANGED calls
        BY <1>9, <2>2 DEF Settings!AskLock
      <3> QED
        BY <1>2, <2>1, <2>2, <3>1 DEF ChatFits, AskedOf
    <2>3. CASE linked
      <3>1. PICK r : SettingSent(r) /\ r.on = current /\ r.op = "lock" /\ UNCHANGED own
        <4>1. /\ UNCHANGED own
              /\ Settings!Ask({Settings!Change("lock", current, IF b THEN 1 ELSE 0, 0)})
          BY <1>9, <2>3 DEF Settings!AskLock
        <4> QED
          BY <2>1, <4>1, ChangeFields DEF Settings!Act, Settings!Ask, SettingSent
      <3>2. ~Models(r)
        BY <3>1 DEF Models
      <3> QED
        BY <1>2, <2>1, <2>3, <3>1, <3>2, ChatAsked
    <2> QED
      BY <2>2, <2>3
  <1>10. ASSUME NEW k \in calls, Settings!TakeSetting(k) PROVE ChatFits(c)'
    <2>1. UNCHANGED <<own, kept, linked, present>> /\ k.on # c /\ c \notin unsure
      BY <1>1, <1>10 DEF Settings!TakeSetting
    <2> QED
      BY <1>2, <1>10, <2>1, SettingTakes, ChatOthers
  <1>11. ASSUME NEW k \in calls, Settings!LoseSetting(k) \/ Settings!SettingAnswered(k)
         PROVE  ChatFits(c)'
    <2>1. UNCHANGED <<own, kept, linked, present>> /\ k.on # c /\ c \notin unsure
      BY <1>1, <1>11 DEF Settings!LoseSetting, Settings!SettingAnswered
    <2> QED
      BY <1>2, <1>11, <2>1, SettingEnds, ChatOthers
  <1>12. ASSUME NEW k \in calls, Settings!TakeModel(k) PROVE ChatFits(c)'
    BY <1>2, <1>12, ChatModelTaken DEF Settings!TakeModel
  <1>13. ASSUME NEW k \in calls, Settings!LoseModel(k) PROVE ChatFits(c)'
    BY <1>2, <1>13, ChatModelLost DEF Settings!LoseModel
  <1>14. ASSUME NEW k \in calls, Settings!ModelAnswered(k) PROVE ChatFits(c)'
    <2>1. /\ UNCHANGED <<own, kept, linked, present, unsure>>
          /\ ~Models(k) /\ ~Made(k) /\ ~Locks(k)
      BY <1>14 DEF Settings!ModelAnswered, Models, Made, Locks
    <2> QED
      BY <1>2, <1>14, <2>1, SettingEnds, ChatOthers
  <1>15. ASSUME NEW k \in calls, Settings!TakeLock(k) PROVE ChatFits(c)'
    BY <1>2, <1>15, ChatLockTaken DEF Settings!TakeLock
  <1>16. ASSUME NEW k \in calls, Settings!LockAnswered(k) PROVE ChatFits(c)'
    BY <1>2, <1>16, ChatLockAnswered DEF Settings!LockAnswered
  <1>17. ASSUME NEW k \in calls, Settings!LoseLock(k) PROVE ChatFits(c)'
    <2>1. /\ UNCHANGED <<own, kept, linked, present>> /\ c \notin unsure
          /\ k.on # c \/ (~Models(k) /\ ~Made(k) /\ ~Locks(k))
      BY <1>17 DEF Settings!LoseLock, Models, Made, Locks
    <2> QED
      BY <1>2, <1>17, <2>1, SettingEnds, ChatOthers
  <1>18. ASSUME NEW k \in calls, Settings!TakeSummary(k) \/ Settings!SummaryAnswered(k)
         PROVE  ChatFits(c)'
    BY <1>2, <1>18, ChatSummaries DEF Settings!TakeSummary, Settings!SummaryAnswered
  <1>19. CASE Settings!ReadFiles
    BY <1>2, <1>19, ChatOthers DEF Settings!ReadFiles, Settings!requestVars, SettingKept
  <1>20. CASE Settings!DropConnection
    <2>1. /\ \A k \in calls' : k.on # c
          /\ linked' = FALSE
      BY <1>20 DEF Settings!DropConnection
    <2> QED
      BY <2>1 DEF ChatFits, AskedOf
  <1>21. CASE Settings!Reconnect
    <2>1. ~linked /\ own' = kept /\ UNCHANGED <<calls, kept, unsure>>
      BY <1>21 DEF Settings!Reconnect, Settings!requestVars
    <2>2. AskedOf(c)' = {}
      BY <1>2, <2>1 DEF ChatFits, AskedOf
    <2> QED
      BY <2>1, <2>2, ChatSettled
  <1> QED
    BY <1>3, <1>4, <1>5, <1>6, <1>8, <1>9, <1>10, <1>11, <1>12, <1>13, <1>14, <1>15, <1>16, <1>17,
       <1>18, <1>19, <1>20, <1>21
    DEF Settings!SettingsNext, Settings!UnlockSensitive, Settings!LockSensitive

-----------------------------------------------------------------------------
SettingsInv ==
    /\ SettingsTyped /\ Settings!ModelIsOfCurrent
    /\ IdsAreUnique /\ current \in present
    /\ SettingsFit /\ ChatsFit

LEMMA SettingsInvInit ==
    ASSUME Settings!SettingsInit
    PROVE  SettingsInv
  <1>1. calls = {} /\ acts = 0 /\ current \in present /\ own = kept /\ files = "unread"
    BY DEF Settings!SettingsInit, Settings!RequestsInit
  <1>2. \A s \in Settings!Columns : s \notin Texts => setting[s] = saved[s]
    BY DEF Settings!SettingsInit
  <1>3. SettingsFit
    BY <1>1, <1>2 DEF SettingsFit, SettingFits, Told, OutOn, ChainFits
  <1>4. ChatsFit
    BY <1>1 DEF ChatsFit, ChatFits, AskedOf, ChatChain
  <1>5. IdsAreUnique
    BY <1>1 DEF IdsAreUnique
  <1> QED
    BY <1>1, <1>3, <1>4, <1>5, SettingsTypeInit, ModelInit DEF SettingsInv

LEMMA SettingsInvStep ==
    ASSUME SettingsInv, Settings!SettingsNext
    PROVE  SettingsInv'
  BY SettingsTypeStep, ModelStep, SettingIds, CurrentStaysPresent, SettingsFitStep, ChatsFitStep
  DEF SettingsInv

LEMMA SettingsHold ==
    ASSUME SettingsInv
    PROVE  Settings!SettingsTypeOK /\ Settings!ModelIsOfCurrent /\ Settings!SettingsAgree
  <1>1. ASSUME calls = {}, linked, NEW s \in Settings!Columns \ unsure, s \in Texts => files = "read"
        PROVE  setting[s] = saved[s]
    <2>1. Told(s) /\ OutOn(s) = {}
      BY <1>1 DEF Told, OutOn
    <2> QED
      BY <2>1 DEF SettingsInv, SettingsFit, SettingFits, ChainFits
  <1>2. ASSUME calls = {}, linked, NEW c \in present \ unsure
        PROVE  own[c] = kept[c]
    <2>1. c \in Chats /\ own \in Settings!Own /\ kept \in Settings!Own
      BY DEF SettingsInv, SettingsTyped, Settings!SettingsTypeOK
    <2>2. AskedOf(c) = {}
      BY <1>2 DEF AskedOf
    <2>3. own[c].model = kept[c].model /\ (own[c].unlocked <=> kept[c].unlocked)
      BY <1>2, <2>1, <2>2 DEF SettingsInv, ChatsFit, ChatFits, ChatChain
    <2>4. own[c].unlocked = kept[c].unlocked
      BY <2>1, <2>3 DEF Settings!Own
    <2> QED
      BY <2>1, <2>3, <2>4 DEF Settings!Own
  <1> QED
    BY <1>1, <1>2 DEF SettingsInv, SettingsTyped, Settings!SettingsAgree

-----------------------------------------------------------------------------
(***************************************************************************)
(* The workers.                                                            *)
(***************************************************************************)

SetupSteps == {"import", "opening", "open", "broken", "shut", "plain", "closing"}
PanesConnected == {"opening", "open", "broken"}

\* Whoever is current belongs to the pane that is there, and to the card as it is now; a
\* socket that is left behind is closing.
SoundSetup(s) ==
    /\ s.current => connection[s.on] # "none" /\ s.live = Panes!Live(cards[s.on])
    /\ s.step \in PanesConnected => s.current /\ s.live
    /\ s.step = "closing" => ~s.current

OnePane == \A r, s \in setups : (r.on = s.on /\ r.current /\ s.current) => r = s

PanesAreSound == (\A s \in setups : SoundSetup(s)) /\ OnePane

-----------------------------------------------------------------------------
(* The effect of a pane. *)

LEMMA SetupFields ==
    ASSUME NEW s \in Panes!Setups
    PROVE  /\ s.on \in Workers /\ s.live \in BOOLEAN /\ s.current \in BOOLEAN
           /\ s.text \in Panes!Stamps /\ s.step \in SetupSteps
  BY DEF Panes!Setups, SetupSteps

\* What a pane leaves behind is not current: an import that will find so, or a closing socket.
LEMMA DisposeEffect ==
    ASSUME Panes!WorkersTypeOK, PanesAreSound, NEW w \in Workers
    PROVE  /\ Panes!Dispose(w) \subseteq Panes!Setups
           /\ \A r \in Panes!Dispose(w) :
                 \/ r \in setups /\ r.on # w
                 \/ r.on = w /\ ~r.current /\ r.step \in {"import", "closing"}
  <1>1. ASSUME NEW s \in setups, s.on = w, s.step \notin {"plain", "shut"}
        PROVE  /\ Panes!Disposed(s) \in Panes!Setups
               /\ Panes!Disposed(s).on = w /\ ~Panes!Disposed(s).current
               /\ Panes!Disposed(s).step \in {"import", "closing"}
    <2>1. s \in Panes!Setups /\ s.step \in SetupSteps
      BY SetupFields DEF Panes!WorkersTypeOK
    <2>2. CASE s.step = "import"
      BY <1>1, <2>1, <2>2 DEF Panes!Disposed, Panes!Setups
    <2>3. CASE s.step \in {"opening", "open", "broken"}
      BY <1>1, <2>1, <2>3 DEF Panes!Disposed, Panes!Setups
    <2>4. CASE s.step = "closing"
      BY <1>1, <2>1, <2>4 DEF Panes!Disposed, PanesAreSound, SoundSetup
    <2> QED
      BY <1>1, <2>1, <2>2, <2>3, <2>4 DEF SetupSteps
  <1>2. \A r \in Panes!Dispose(w) :
           \/ r \in setups /\ r.on # w
           \/ \E s \in setups : s.on = w /\ s.step \notin {"plain", "shut"} /\ r = Panes!Disposed(s)
    BY DEF Panes!Dispose
  <1> QED
    BY <1>1, <1>2 DEF Panes!WorkersTypeOK

LEMMA SetupOfCard ==
    ASSUME NEW w \in Workers, NEW card \in Panes!Cards
    PROVE  /\ Panes!Setup(w, card) \in Panes!Setups
           /\ Panes!Setup(w, card).on = w /\ Panes!Setup(w, card).current /\ Panes!Setup(w, card).step = "import"
           /\ Panes!Setup(w, card).live = Panes!Live(card)
  <1>1. 0 \in Panes!Stamps /\ card.output \in Panes!Stamps /\ Panes!Live(card) \in BOOLEAN
    BY RequestsAssumption DEF Panes!Stamps, Panes!Cards, Panes!Live
  <1> QED
    BY <1>1 DEF Panes!Setup, Panes!Setups

\* Only the text changes.
LEMMA CaptureEffect ==
    ASSUME NEW s \in Panes!Setups, NEW card \in Panes!Cards, NEW label
    PROVE  /\ Panes!ShowCapture(s, card, label) \in Panes!Setups
           /\ Panes!ShowCapture(s, card, label).on = s.on
           /\ Panes!ShowCapture(s, card, label).live = s.live
           /\ Panes!ShowCapture(s, card, label).current = s.current
           /\ Panes!ShowCapture(s, card, label).step = s.step
  <1>1. card.output \in Panes!Stamps
    BY DEF Panes!Cards
  <1> QED
    BY <1>1 DEF Panes!ShowCapture, Panes!Setups

\* A pane is set up anew, or left with none, and the others stay.
LEMMA DisposeKeepsPanes ==
    ASSUME Panes!WorkersTypeOK, PanesAreSound, NEW w \in Workers, NEW card \in Panes!Cards,
           \/ setups' = Panes!Dispose(w)
           \/ setups' = Panes!Dispose(w) \cup {Panes!Setup(w, card)} /\ connection'[w] # "none" /\ cards'[w] = card,
           \A q \in Workers \ {w} : connection'[q] = connection[q] /\ cards'[q] = cards[q]
    PROVE  setups' \subseteq Panes!Setups /\ PanesAreSound'
  <1> DEFINE new == Panes!Setup(w, card)
  <1>1. /\ Panes!Dispose(w) \subseteq Panes!Setups
        /\ \A r \in Panes!Dispose(w) :
              \/ r \in setups /\ r.on # w
              \/ r.on = w /\ ~r.current /\ r.step \in {"import", "closing"}
    BY DisposeEffect
  <1>2. /\ new \in Panes!Setups /\ new.on = w /\ new.current /\ new.step = "import"
        /\ new.live = Panes!Live(card)
    BY SetupOfCard
  <1> HIDE DEF new
  <1>3. ASSUME NEW r \in setups, r.on # w PROVE SoundSetup(r)'
    <2>1. r.on \in Workers \ {w} /\ SoundSetup(r)
      BY <1>3, SetupFields DEF Panes!WorkersTypeOK, PanesAreSound
    <2> QED
      BY <2>1 DEF SoundSetup, Panes!Live
  <1>4. ASSUME NEW r, r.on = w, ~r.current, r.step \in {"import", "closing"} PROVE SoundSetup(r)'
    BY <1>4 DEF SoundSetup, PanesConnected
  <1>5. CASE setups' = Panes!Dispose(w)
    <2>1. \A r \in setups' : SoundSetup(r)'
      BY <1>1, <1>3, <1>4, <1>5
    <2>2. OnePane'
      BY <1>1, <1>5 DEF PanesAreSound, OnePane
    <2> QED
      BY <1>1, <1>5, <2>1, <2>2 DEF PanesAreSound
  <1>6. CASE setups' = Panes!Dispose(w) \cup {new} /\ connection'[w] # "none" /\ cards'[w] = card
    <2>1. ASSUME NEW r, r = new PROVE SoundSetup(r)'
      BY <1>2, <1>6, <2>1 DEF SoundSetup, PanesConnected, Panes!Live
    <2>2. \A r \in setups' : SoundSetup(r)'
      BY <1>1, <1>3, <1>4, <1>6, <2>1
    <2>3. OnePane'
      BY <1>1, <1>2, <1>6 DEF PanesAreSound, OnePane
    <2> QED
      BY <1>1, <1>2, <1>6, <2>2, <2>3 DEF PanesAreSound
  <1> QED
    BY <1>5, <1>6 DEF new

\* A card changes; its pane follows, if there is one.
LEMMA CardEffect ==
    ASSUME Panes!WorkersTypeOK, PanesAreSound, NEW w \in Workers, NEW card \in Panes!Cards,
           Panes!CardBecomes(w, card), UNCHANGED connection
    PROVE  cards' \in [Workers -> Panes!Cards] /\ setups' \subseteq Panes!Setups /\ PanesAreSound'
  <1>1. /\ cards' = [cards EXCEPT ![w] = card]
        /\ cards' \in [Workers -> Panes!Cards] /\ cards'[w] = card
        /\ \A q \in Workers \ {w} : cards'[q] = cards[q]
    BY DEF Panes!CardBecomes, Panes!WorkersTypeOK
  <1>2. CASE connection[w] # "none" /\ (\/ Panes!Live(card) # Panes!Live(cards[w])
                                        \/ ~Panes!Live(card) /\ card.output # cards[w].output)
    <2>1. setups' = Panes!Dispose(w) \cup {Panes!Setup(w, card)}
      BY <1>2 DEF Panes!CardBecomes
    <2> QED
      BY <1>1, <1>2, <2>1, DisposeKeepsPanes
  <1>3. CASE ~(connection[w] # "none" /\ (\/ Panes!Live(card) # Panes!Live(cards[w])
                                          \/ ~Panes!Live(card) /\ card.output # cards[w].output))
    <2> DEFINE Shown(s) == IF s.on = w THEN Panes!ShowCapture(s, card, connection[w]) ELSE s
    <2>1. setups' = {Shown(s) : s \in setups}
      BY <1>3 DEF Panes!CardBecomes
    <2>2. \A s \in setups : s \in Panes!Setups
      BY DEF Panes!WorkersTypeOK
    <2>3. \A s \in setups :
             /\ Shown(s) \in Panes!Setups
             /\ Shown(s).on = s.on /\ Shown(s).live = s.live /\ Shown(s).current = s.current
             /\ Shown(s).step = s.step
      BY <2>2, CaptureEffect
    <2> HIDE DEF Shown
    <2>4. ASSUME NEW s \in setups
          PROVE  s.current => connection'[s.on] # "none" /\ s.live = Panes!Live(cards'[s.on])
      <3>1. SoundSetup(s) /\ s.on \in Workers
        BY <2>2, SetupFields DEF PanesAreSound
      <3>2. CASE s.on = w
        BY <1>1, <1>3, <3>1, <3>2 DEF SoundSetup
      <3>3. CASE s.on # w
        BY <1>1, <3>1, <3>3 DEF SoundSetup
      <3> QED
        BY <3>2, <3>3
    <2>5. \A r \in setups' : SoundSetup(r)'
      <3> SUFFICES ASSUME NEW r \in setups' PROVE SoundSetup(r)'
        OBVIOUS
      <3>1. PICK s \in setups : r = Shown(s)
        BY <2>1
      <3>2. /\ SoundSetup(s) /\ r.on = s.on /\ r.live = s.live /\ r.current = s.current
            /\ r.step = s.step
        BY <2>3, <3>1 DEF PanesAreSound
      <3> QED
        BY <2>4, <3>2 DEF SoundSetup, Panes!Live
    <2>6. OnePane'
      BY <2>1, <2>3 DEF PanesAreSound, OnePane
    <2> QED
      BY <1>1, <2>1, <2>3, <2>5, <2>6 DEF PanesAreSound
  <1> QED
    BY <1>2, <1>3
-----------------------------------------------------------------------------
(* What the setups come to. *)

LEMMA BecomesKeepsPanes ==
    ASSUME Panes!WorkersTypeOK, PanesAreSound, UNCHANGED cards, NEW s \in setups, NEW later \in Panes!Setups,
           Panes!SetupBecomes(s, later), UNCHANGED connection \/ \E label \in Panes!Labels : Panes!Label(s, label),
           later.on = s.on, later.live = s.live, later.current = s.current,
           later.step \in PanesConnected => s.current /\ s.live, later.step # "closing"
    PROVE  /\ setups' \subseteq Panes!Setups /\ connection' \in [Workers -> Panes!Labels \cup {"none"}]
           /\ PanesAreSound'
  <1>1. "none" \notin Panes!Labels
    BY DEF Panes!Labels
  <1>2. /\ connection' \in [Workers -> Panes!Labels \cup {"none"}]
        /\ \A q \in Workers : connection[q] # "none" => connection'[q] # "none"
    BY <1>1 DEF Panes!Label, Panes!WorkersTypeOK
  <1>3. setups' = (setups \ {s}) \cup {later} /\ setups' \subseteq Panes!Setups
    BY DEF Panes!SetupBecomes, Panes!WorkersTypeOK
  <1>4. \A r \in setups' : SoundSetup(r)'
    <2> SUFFICES ASSUME NEW r \in setups' PROVE SoundSetup(r)'
      OBVIOUS
    <2>1. CASE r \in setups
      <3>1. SoundSetup(r) /\ r.on \in Workers
        BY <2>1, SetupFields DEF PanesAreSound, Panes!WorkersTypeOK
      <3> QED
        BY <1>2, <3>1 DEF SoundSetup, Panes!Live
    <2>2. CASE r = later
      <3>1. SoundSetup(s) /\ s.on \in Workers
        BY SetupFields DEF PanesAreSound, Panes!WorkersTypeOK
      <3> QED
        BY <1>2, <2>2, <3>1 DEF SoundSetup, Panes!Live
    <2> QED
      BY <1>3, <2>1, <2>2
  <1>5. OnePane'
    BY <1>3 DEF PanesAreSound, OnePane
  <1> QED
    BY <1>2, <1>3, <1>4, <1>5 DEF PanesAreSound

LEMMA FewerPanes ==
    ASSUME Panes!WorkersTypeOK, PanesAreSound, UNCHANGED <<cards, connection>>, setups' \subseteq setups
    PROVE  PanesAreSound'
  <1>1. \A r \in setups' : SoundSetup(r)'
    BY DEF PanesAreSound, SoundSetup, Panes!Live
  <1> QED
    BY <1>1 DEF PanesAreSound, OnePane

\* The record of a setup that takes a step.
LEMMA StepFields ==
    ASSUME NEW s \in Panes!Setups, NEW step \in SetupSteps
    PROVE  /\ [s EXCEPT !.step = step] \in Panes!Setups
           /\ [s EXCEPT !.step = step].on = s.on /\ [s EXCEPT !.step = step].live = s.live
           /\ [s EXCEPT !.step = step].current = s.current
           /\ [s EXCEPT !.step = step].step = step
  BY DEF Panes!Setups, SetupSteps

LEMMA SetupsStep ==
    ASSUME Panes!WorkersTypeOK, PanesAreSound, NEW s \in setups,
           \/ Panes!Imported(s) \/ Panes!SocketOpens(s) \/ Panes!SocketErrors(s) \/ Panes!SocketCloses(s)
           \/ Panes!LoseSocket(s) \/ Panes!ClosesLate(s)
    PROVE  Panes!WorkersTypeOK' /\ PanesAreSound'
  <1>1. s \in Panes!Setups /\ SoundSetup(s)
    BY DEF Panes!WorkersTypeOK, PanesAreSound
  <1>2. UNCHANGED <<calls, acts, cards, registry, astray>> /\ faults' \in 0 .. MaxFaults
    BY RequestsAssumption DEF Panes!Imported, Panes!SocketOpens, Panes!SocketErrors, Panes!SocketCloses, Panes!LoseSocket, Panes!ClosesLate,
       Panes!requestVars, Panes!Fault, Panes!WorkersTypeOK, Panes!RequestsOK
  <1>3. ASSUME setups' \subseteq Panes!Setups, connection' \in [Workers -> Panes!Labels \cup {"none"}]
        PROVE  Panes!WorkersTypeOK'
    BY <1>2, <1>3 DEF Panes!WorkersTypeOK, Panes!RequestsOK
  <1>4. ASSUME setups' = setups \ {s}, UNCHANGED connection PROVE Panes!WorkersTypeOK' /\ PanesAreSound'
    BY <1>2, <1>3, <1>4, FewerPanes DEF Panes!WorkersTypeOK
  <1>5. ASSUME NEW step \in {"broken", "shut"}, Panes!SocketClosed(s, step), s.current, s.live
        PROVE  Panes!WorkersTypeOK' /\ PanesAreSound'
    <2> DEFINE ended == [s EXCEPT !.step = step]
    <2> DEFINE later == Panes!ShowCapture(ended, cards[s.on], "closed")
    <2>1. cards[s.on] \in Panes!Cards
      BY <1>1, SetupFields DEF Panes!WorkersTypeOK
    <2>2. step \in SetupSteps /\ step # "closing"
      BY DEF SetupSteps
    <2>3. /\ later \in Panes!Setups /\ later.on = s.on /\ later.live = s.live
          /\ later.current = s.current /\ later.step = step
      <3>1. /\ ended \in Panes!Setups /\ ended.on = s.on /\ ended.live = s.live
            /\ ended.current = s.current /\ ended.step = step
        BY <1>1, <2>2, StepFields
      <3> HIDE DEF ended
      <3> QED
        BY <2>1, <3>1, CaptureEffect
    <2>4. Panes!SetupBecomes(s, later) /\ \E label \in Panes!Labels : Panes!Label(s, label)
      BY <1>5 DEF Panes!SocketClosed, Panes!Labels
    <2> HIDE DEF later
    <2> QED
      BY <1>2, <1>3, <1>5, <2>2, <2>3, <2>4, BecomesKeepsPanes
  <1>6. CASE Panes!Imported(s)
    <2>1. CASE ~s.current
      BY <1>4, <1>6, <2>1 DEF Panes!Imported
    <2>2. CASE s.current /\ s.live
      <3>1. Panes!SetupBecomes(s, [s EXCEPT !.step = "opening"]) /\ UNCHANGED connection
        BY <1>6, <2>2 DEF Panes!Imported
      <3>2. "opening" \in SetupSteps /\ "opening" # "closing"
        BY DEF SetupSteps
      <3> QED
        BY <1>1, <1>2, <1>3, <2>2, <3>1, <3>2, StepFields, BecomesKeepsPanes
    <2>3. CASE s.current /\ ~s.live
      <3>1. Panes!SetupBecomes(s, [s EXCEPT !.step = "plain"]) /\ \E label \in Panes!Labels : Panes!Label(s, label)
        BY <1>6, <2>3 DEF Panes!Imported, Panes!Labels
      <3>2. "plain" \in SetupSteps /\ "plain" # "closing" /\ "plain" \notin PanesConnected
        BY DEF SetupSteps, PanesConnected
      <3> QED
        BY <1>1, <1>2, <1>3, <3>1, <3>2, StepFields, BecomesKeepsPanes
    <2> QED
      BY <2>1, <2>2, <2>3
  <1>7. CASE Panes!SocketOpens(s)
    <2>1. Panes!SetupBecomes(s, [s EXCEPT !.step = "open"]) /\ \E label \in Panes!Labels : Panes!Label(s, label)
      BY <1>7 DEF Panes!SocketOpens, Panes!Labels
    <2>2. s.current /\ s.live /\ "open" \in SetupSteps /\ "open" # "closing"
      BY <1>1, <1>7 DEF Panes!SocketOpens, SoundSetup, PanesConnected, SetupSteps
    <2> QED
      BY <1>1, <1>2, <1>3, <2>1, <2>2, StepFields, BecomesKeepsPanes
  <1>8. CASE Panes!SocketErrors(s) \/ Panes!SocketCloses(s) \/ Panes!LoseSocket(s)
    BY <1>1, <1>5, <1>8 DEF Panes!SocketErrors, Panes!SocketCloses, Panes!LoseSocket, SoundSetup, PanesConnected
  <1>9. CASE Panes!ClosesLate(s)
    BY <1>4, <1>9 DEF Panes!ClosesLate
  <1> QED
    BY <1>6, <1>7, <1>8, <1>9
-----------------------------------------------------------------------------
(* The handlers. *)

LEMMA CardTypes ==
    /\ \A row \in Panes!Rows, output \in Panes!Stamps : Panes!CardOf(row, output) \in Panes!Cards
    /\ \A card \in Panes!Cards : [card EXCEPT !.status = "stopped"] \in Panes!Cards
    /\ \A card \in Panes!Cards, output \in Panes!Stamps : [card EXCEPT !.output = output] \in Panes!Cards
  <1>1. \A row \in Panes!Rows, output \in Panes!Stamps : Panes!CardOf(row, output) \in Panes!Cards
    BY DEF Panes!CardOf, Panes!Rows, Panes!Cards
  <1>2. \A card \in Panes!Cards : [card EXCEPT !.status = "stopped"] \in Panes!Cards
    BY DEF Panes!Cards
  <1>3. \A card \in Panes!Cards, output \in Panes!Stamps : [card EXCEPT !.output = output] \in Panes!Cards
    BY DEF Panes!Cards
  <1> QED
    BY <1>1, <1>2, <1>3

LEMMA PanesStay ==
    ASSUME PanesAreSound, UNCHANGED <<cards, connection, setups>>
    PROVE  PanesAreSound'
  BY DEF PanesAreSound, OnePane, SoundSetup, Panes!Live

LEMMA PanesClicksStep ==
    ASSUME Panes!WorkersTypeOK, PanesAreSound, NEW w \in Workers,
           \/ Panes!OpenPane(w) \/ Panes!HidePane(w) \/ Panes!StartWorker(w) \/ Panes!WorkerExits(w)
           \/ \E op \in {"rename", "stop", "kill", "capture"} : Panes!WorkerAction(op, w)
    PROVE  Panes!WorkersTypeOK' /\ PanesAreSound'
  <1>1. cards[w] \in Panes!Cards /\ "none" \notin Panes!Labels
    BY DEF Panes!WorkersTypeOK, Panes!Labels
  <1>2. Panes!Act => acts' \in 0 .. (MaxActs + 1) /\ acts + 1 \in 1 .. (MaxActs + 1)
    BY RequestsAssumption DEF Panes!Act, Panes!WorkersTypeOK, Panes!RequestsOK
  <1>3. CASE Panes!OpenPane(w)
    <2>1. /\ Panes!Act /\ UNCHANGED <<calls, faults, cards, registry, astray>>
          /\ \E label \in Panes!Labels : connection' = [connection EXCEPT ![w] = label]
          /\ setups' = Panes!Dispose(w) \cup {Panes!Setup(w, cards[w])}
      BY <1>3 DEF Panes!OpenPane, Panes!Labels
    <2>2. /\ connection' \in [Workers -> Panes!Labels \cup {"none"}] /\ connection'[w] # "none"
          /\ \A q \in Workers \ {w} : connection'[q] = connection[q] /\ cards'[q] = cards[q]
      BY <1>1, <2>1 DEF Panes!WorkersTypeOK
    <2>3. setups' \subseteq Panes!Setups /\ PanesAreSound'
      BY <1>1, <2>1, <2>2, DisposeKeepsPanes
    <2> QED
      BY <1>2, <2>1, <2>2, <2>3 DEF Panes!WorkersTypeOK, Panes!RequestsOK
  <1>4. CASE Panes!HidePane(w)
    <2>1. /\ Panes!Act /\ UNCHANGED <<calls, faults, cards, registry, astray>>
          /\ connection' = [connection EXCEPT ![w] = "none"]
          /\ setups' = Panes!Dispose(w)
      BY <1>4 DEF Panes!HidePane
    <2>2. /\ connection' \in [Workers -> Panes!Labels \cup {"none"}]
          /\ \A q \in Workers \ {w} : connection'[q] = connection[q] /\ cards'[q] = cards[q]
      BY <2>1 DEF Panes!WorkersTypeOK
    <2>3. setups' \subseteq Panes!Setups /\ PanesAreSound'
      BY <1>1, <2>1, <2>2, DisposeKeepsPanes
    <2> QED
      BY <1>2, <2>1, <2>2, <2>3 DEF Panes!WorkersTypeOK, Panes!RequestsOK
  <1>5. ASSUME NEW op \in {"start", "rename", "stop", "kill", "capture"}, Panes!AskFor(op, w),
               cards' \in [Workers -> Panes!Cards], setups' \subseteq Panes!Setups
        PROVE  Panes!WorkersTypeOK'
    <2>1. /\ acts' \in 0 .. (MaxActs + 1) /\ acts + 1 \in 1 .. (MaxActs + 1)
          /\ calls' = calls \cup {[id |-> acts + 1, step |-> "out", op |-> op, on |-> w, got |-> Panes!NoRow]}
          /\ UNCHANGED <<faults, registry, connection>> /\ astray' \subseteq Workers
      BY <1>2, <1>5 DEF Panes!AskFor, Panes!Ask, Panes!WorkersTypeOK
    <2>2. Panes!NoRow \in Panes!Rows
      BY RequestsAssumption DEF Panes!NoRow, Panes!Rows, Panes!Stamps
    <2>3. calls' \subseteq Panes!Requests
      BY <2>1, <2>2 DEF Panes!Requests, Panes!WorkersTypeOK, Panes!RequestsOK
    <2> QED
      BY <1>5, <2>1, <2>3 DEF Panes!WorkersTypeOK, Panes!RequestsOK
  <1>6. CASE Panes!StartWorker(w)
    <2>1. Panes!AskFor("start", w) /\ UNCHANGED <<cards, setups, connection>>
      BY <1>6 DEF Panes!StartWorker, Panes!AskFor
    <2> QED
      BY <1>5, <2>1, PanesStay DEF Panes!WorkersTypeOK
  <1>7. ASSUME NEW op \in {"rename", "stop", "kill", "capture"}, Panes!WorkerAction(op, w)
        PROVE  Panes!WorkersTypeOK' /\ PanesAreSound'
    <2>1. Panes!AskFor(op, w) /\ UNCHANGED connection
      BY <1>7 DEF Panes!WorkerAction, Panes!AskFor
    <2>2. CASE op \in {"stop", "kill"}
      <3>1. Panes!CardBecomes(w, [cards[w] EXCEPT !.status = "stopped"])
        BY <1>7, <2>2 DEF Panes!WorkerAction
      <3>2. cards' \in [Workers -> Panes!Cards] /\ setups' \subseteq Panes!Setups /\ PanesAreSound'
        BY <1>1, <2>1, <3>1, CardTypes, CardEffect
      <3> QED
        BY <1>5, <2>1, <3>2
    <2>3. CASE op \notin {"stop", "kill"}
      <3>1. UNCHANGED <<cards, setups>>
        BY <1>7, <2>3 DEF Panes!WorkerAction
      <3> QED
        BY <1>5, <2>1, <3>1, PanesStay DEF Panes!WorkersTypeOK
    <2> QED
      BY <2>2, <2>3
  <1>8. CASE Panes!WorkerExits(w)
    <2>1. /\ UNCHANGED <<calls, acts, cards, connection, setups>> /\ faults' \in 0 .. MaxFaults
          /\ astray' \subseteq Workers
      BY <1>8, RequestsAssumption DEF Panes!WorkerExits, Panes!Fault, Panes!WorkersTypeOK, Panes!RequestsOK
    <2>2. registry' \in [Workers -> Panes!Rows]
      <3>1. registry' = [registry EXCEPT ![w] = [registry[w] EXCEPT !.status = "stopped"]]
        BY <1>8 DEF Panes!WorkerExits
      <3>2. [registry[w] EXCEPT !.status = "stopped"] \in Panes!Rows
        BY DEF Panes!WorkersTypeOK, Panes!Rows
      <3> QED
        BY <3>1, <3>2 DEF Panes!WorkersTypeOK
    <2>3. Panes!WorkersTypeOK'
      BY <2>1, <2>2 DEF Panes!WorkersTypeOK, Panes!RequestsOK
    <2> QED
      BY <2>1, <2>3, PanesStay
  <1> QED
    BY <1>3, <1>4, <1>6, <1>7, <1>8

LEMMA PanesRequestsStep ==
    ASSUME Panes!WorkersTypeOK, PanesAreSound, NEW k \in calls, Panes!TakeRequest(k) \/ Panes!Answered(k) \/ Panes!LoseWork(k)
    PROVE  Panes!WorkersTypeOK' /\ PanesAreSound'
  <1>1. /\ k \in Panes!Requests /\ k.on \in Workers /\ k.got \in Panes!Rows /\ k.id \in Panes!Stamps /\ 0 \in Panes!Stamps
        /\ k.op \in {"start", "rename", "stop", "kill", "capture"}
    BY RequestsAssumption DEF Panes!WorkersTypeOK, Panes!RequestsOK, Panes!Requests, Panes!Stamps
  <1>2. cards[k.on] \in Panes!Cards /\ registry[k.on] \in Panes!Rows
    BY <1>1 DEF Panes!WorkersTypeOK
  <1>3. CASE Panes!TakeRequest(k)
    <2>1. PICK row \in Panes!Outcomes(k) :
             /\ registry' = [registry EXCEPT ![k.on] = row]
             /\ astray' = IF row.status = "stopping" THEN astray \cup {k.on} ELSE astray
             /\ IF k.op \in {"stop", "kill"} THEN Panes!Ends(k)
                ELSE Panes!Becomes(k, [k EXCEPT !.step = "back", !.got = row])
      BY <1>3 DEF Panes!TakeRequest
    <2>2. row \in Panes!Rows
      <3>1. \A st \in {"running", "stopped"} : [status |-> st, name |-> k.id] \in Panes!Rows
        BY <1>1 DEF Panes!Rows
      <3>2. /\ [registry[k.on] EXCEPT !.name = k.id] \in Panes!Rows
            /\ \A st \in {"stopping", "stopped"} : [registry[k.on] EXCEPT !.status = st] \in Panes!Rows
        BY <1>1, <1>2 DEF Panes!Rows
      <3> QED
        BY <1>1, <1>2, <3>1, <3>2 DEF Panes!Outcomes
    <2>3. [k EXCEPT !.step = "back", !.got = row] \in Panes!Requests
      BY <1>1, <2>2 DEF Panes!Requests
    <2>4. /\ UNCHANGED <<acts, faults, cards, connection, setups>>
          /\ calls' \subseteq Panes!Requests /\ registry' \in [Workers -> Panes!Rows] /\ astray' \subseteq Workers
      <3>1. UNCHANGED <<acts, faults, cards, connection, setups>>
        BY <1>3 DEF Panes!TakeRequest
      <3>2. calls' \subseteq Panes!Requests
        BY <2>1, <2>3 DEF Panes!Becomes, Panes!Ends, Panes!WorkersTypeOK, Panes!RequestsOK
      <3>3. registry' \in [Workers -> Panes!Rows]
        BY <2>1, <2>2 DEF Panes!WorkersTypeOK
      <3>4. astray' \subseteq Workers
        BY <1>1, <2>1 DEF Panes!WorkersTypeOK
      <3> QED
        BY <3>1, <3>2, <3>3, <3>4
    <2>5. Panes!WorkersTypeOK'
      BY <2>4 DEF Panes!WorkersTypeOK, Panes!RequestsOK
    <2> QED
      BY <2>4, <2>5, PanesStay
  <1>4. CASE Panes!Answered(k)
    <2>1. /\ UNCHANGED <<acts, faults, registry, connection, astray>> /\ calls' = calls \ {k}
      BY <1>4 DEF Panes!Answered, Panes!Ends
    <2>2. (\E card \in Panes!Cards : Panes!CardBecomes(k.on, card)) \/ UNCHANGED <<cards, setups>>
      <3>1. Panes!CardOf(k.got, 0) \in Panes!Cards /\ Panes!CardOf(k.got, cards[k.on].output) \in Panes!Cards
        <4>1. cards[k.on].output \in Panes!Stamps
          BY <1>2 DEF Panes!Cards
        <4> QED
          BY <1>1, <4>1, CardTypes
      <3>2. [cards[k.on] EXCEPT !.output = IF k.got.status = "stopped" THEN 0 ELSE k.id] \in Panes!Cards
        BY <1>1, <1>2, CardTypes
      <3> QED
        BY <1>4, <3>1, <3>2 DEF Panes!Answered
    <2>3. cards' \in [Workers -> Panes!Cards] /\ setups' \subseteq Panes!Setups /\ PanesAreSound'
      BY <1>1, <2>1, <2>2, CardEffect, PanesStay DEF Panes!WorkersTypeOK
    <2> QED
      BY <2>1, <2>3 DEF Panes!WorkersTypeOK, Panes!RequestsOK
  <1>5. CASE Panes!LoseWork(k)
    <2>1. /\ UNCHANGED <<acts, cards, registry, connection, setups>> /\ calls' \subseteq Panes!Requests
          /\ faults' \in 0 .. MaxFaults /\ astray' \subseteq Workers
      BY <1>1, <1>5, RequestsAssumption DEF Panes!LoseWork, Panes!Ends, Panes!Fault, Panes!WorkersTypeOK, Panes!RequestsOK
    <2>2. Panes!WorkersTypeOK'
      BY <2>1 DEF Panes!WorkersTypeOK, Panes!RequestsOK
    <2> QED
      BY <2>1, <2>2, PanesStay
  <1> QED
    BY <1>3, <1>4, <1>5

LEMMA PanesInitIsSound ==
    ASSUME Panes!WorkersInit
    PROVE  Panes!WorkersTypeOK /\ PanesAreSound
  <1>1. calls = {} /\ acts \in 0 .. (MaxActs + 1) /\ faults \in 0 .. MaxFaults /\ setups = {} /\ astray = {}
    BY RequestsAssumption DEF Panes!WorkersInit, Panes!RequestsInit
  <1>2. registry \in [Workers -> Panes!Rows]
    <2>1. \A st \in {"none", "running", "stopped"} : [Panes!NoRow EXCEPT !.status = st] \in Panes!Rows
      BY RequestsAssumption DEF Panes!NoRow, Panes!Rows, Panes!Stamps
    <2> QED
      BY <2>1 DEF Panes!WorkersInit
  <1>3. cards \in [Workers -> Panes!Cards]
    <2>1. 0 \in Panes!Stamps
      BY RequestsAssumption DEF Panes!Stamps
    <2> QED
      BY <1>2, <2>1, CardTypes DEF Panes!WorkersInit
  <1>4. connection \in [Workers -> Panes!Labels \cup {"none"}]
    BY DEF Panes!WorkersInit
  <1> QED
    BY <1>1, <1>2, <1>3, <1>4 DEF Panes!WorkersTypeOK, Panes!RequestsOK, PanesAreSound, OnePane

\* What the pane of a current setup says, and the text it holds.
PaneTells(s) ==
    /\ s.step = "open" => connection[s.on] = "connected"
    /\ s.step \in {"broken", "shut"} =>
          /\ connection[s.on] = "closed"
          /\ cards[s.on].output # 0 => s.text = cards[s.on].output
    /\ s.step = "plain" => ~s.live /\ connection[s.on] = "fallback"
    /\ (s.step \in {"import", "plain"} /\ ~s.live) => s.text = cards[s.on].output
PanesTell == \A s \in setups : s.current => PaneTells(s)

LEMMA PanesTellStay ==
    ASSUME PanesTell, UNCHANGED <<cards, connection>>, setups' \subseteq setups
    PROVE  PanesTell'
  BY DEF PanesTell, PaneTells

LEMMA DisposeTells ==
    ASSUME Panes!WorkersTypeOK, PanesAreSound, PanesTell, NEW w \in Workers, NEW card \in Panes!Cards,
           \/ setups' = Panes!Dispose(w)
           \/ setups' = Panes!Dispose(w) \cup {Panes!Setup(w, card)} /\ cards'[w] = card,
           \A q \in Workers \ {w} : connection'[q] = connection[q] /\ cards'[q] = cards[q]
    PROVE  PanesTell'
  <1> DEFINE new == Panes!Setup(w, card)
  <1>1. \A r \in Panes!Dispose(w) :
              \/ r \in setups /\ r.on # w
              \/ r.on = w /\ ~r.current /\ r.step \in {"import", "closing"}
    BY DisposeEffect
  <1>2. /\ new.on = w /\ new.step = "import"
        /\ ~new.live => new.text = card.output
    BY DEF Panes!Setup
  <1> HIDE DEF new
  <1> SUFFICES ASSUME NEW r \in setups', r.current PROVE PaneTells(r)'
    BY DEF PanesTell
  <1>3. CASE r \in setups /\ r.on # w
    <2>1. r.on \in Workers \ {w} /\ PaneTells(r)
      BY <1>3, SetupFields DEF Panes!WorkersTypeOK, PanesTell
    <2> QED
      BY <2>1 DEF PaneTells
  <1>4. CASE r = new /\ cards'[w] = card
    BY <1>2, <1>4 DEF PaneTells
  <1> QED
    BY <1>1, <1>3, <1>4 DEF new

LEMMA CardTells ==
    ASSUME Panes!WorkersTypeOK, PanesAreSound, PanesTell, NEW w \in Workers, NEW card \in Panes!Cards,
           Panes!CardBecomes(w, card), UNCHANGED connection
    PROVE  PanesTell'
  <1>1. /\ cards' = [cards EXCEPT ![w] = card] /\ cards'[w] = card
        /\ \A q \in Workers \ {w} : cards'[q] = cards[q]
    BY DEF Panes!CardBecomes, Panes!WorkersTypeOK
  <1>2. CASE connection[w] # "none" /\ (\/ Panes!Live(card) # Panes!Live(cards[w])
                                        \/ ~Panes!Live(card) /\ card.output # cards[w].output)
    <2>1. setups' = Panes!Dispose(w) \cup {Panes!Setup(w, card)}
      BY <1>2 DEF Panes!CardBecomes
    <2> QED
      BY <1>1, <2>1, DisposeTells
  <1>3. CASE ~(connection[w] # "none" /\ (\/ Panes!Live(card) # Panes!Live(cards[w])
                                          \/ ~Panes!Live(card) /\ card.output # cards[w].output))
    <2> SUFFICES ASSUME NEW r \in setups', r.current PROVE PaneTells(r)'
      BY DEF PanesTell
    <2>1. PICK s \in setups : r = IF s.on = w THEN Panes!ShowCapture(s, card, connection[w]) ELSE s
      BY <1>3 DEF Panes!CardBecomes
    <2>2. s \in Panes!Setups /\ SoundSetup(s) /\ s.on \in Workers
      BY SetupFields DEF Panes!WorkersTypeOK, PanesAreSound
    <2>3. CASE s.on # w
      BY <1>1, <2>1, <2>2, <2>3 DEF PanesTell, PaneTells
    <2>4. CASE s.on = w
      <3>1. r = Panes!ShowCapture(s, card, connection[w])
        BY <2>1, <2>4
      <3>2. /\ r.on = w /\ r.live = s.live /\ r.current = s.current /\ r.step = s.step
        BY <2>2, <2>4, <3>1, CaptureEffect
      <3>3. r.text = IF connection[w] = "closed" /\ card.output # 0 THEN card.output ELSE s.text
        BY <2>2, <3>1, <3>2 DEF Panes!ShowCapture, Panes!Setups
      <3>4. /\ s.live = Panes!Live(card)
            /\ ~s.live => card.output = cards[w].output
        BY <1>3, <2>2, <2>4, <3>2 DEF SoundSetup
      <3>5. PaneTells(s)
        BY <3>2 DEF PanesTell
      <3> QED
        BY <1>1, <2>4, <3>2, <3>3, <3>4, <3>5 DEF PaneTells
    <2> QED
      BY <2>3, <2>4
  <1> QED
    BY <1>2, <1>3

LEMMA BecomesTells ==
    ASSUME Panes!WorkersTypeOK, PanesAreSound, PanesTell, UNCHANGED cards,
           NEW s \in setups, s.current, NEW later,
           Panes!SetupBecomes(s, later), UNCHANGED connection \/ \E label : Panes!Label(s, label),
           PaneTells(later)'
    PROVE  PanesTell'
  <1> SUFFICES ASSUME NEW r \in setups \ {s}, r.current PROVE PaneTells(r)'
    BY DEF PanesTell, Panes!SetupBecomes
  <1>1. r.on # s.on /\ r.on \in Workers /\ PaneTells(r)
    BY SetupFields DEF Panes!WorkersTypeOK, PanesAreSound, OnePane, PanesTell
  <1>2. connection'[r.on] = connection[r.on]
    BY <1>1 DEF Panes!Label, Panes!WorkersTypeOK
  <1> QED
    BY <1>1, <1>2 DEF PaneTells

LEMMA SetupsTell ==
    ASSUME Panes!WorkersTypeOK, PanesAreSound, PanesTell, NEW s \in setups,
           \/ Panes!Imported(s) \/ Panes!SocketOpens(s) \/ Panes!SocketErrors(s) \/ Panes!SocketCloses(s)
           \/ Panes!LoseSocket(s) \/ Panes!ClosesLate(s)
    PROVE  PanesTell'
  <1>1. s \in Panes!Setups /\ s.on \in Workers /\ SoundSetup(s) /\ UNCHANGED cards
    BY SetupFields DEF Panes!WorkersTypeOK, PanesAreSound, Panes!Imported, Panes!SocketOpens,
       Panes!SocketErrors, Panes!SocketCloses, Panes!LoseSocket, Panes!ClosesLate
  <1>2. \A label : Panes!Label(s, label) => connection'[s.on] = label
    BY <1>1 DEF Panes!Label, Panes!WorkersTypeOK
  <1>3. \A step \in SetupSteps :
           /\ [s EXCEPT !.step = step].on = s.on /\ [s EXCEPT !.step = step].live = s.live
           /\ [s EXCEPT !.step = step].step = step /\ [s EXCEPT !.step = step].text = s.text
           /\ [s EXCEPT !.step = step].current = s.current
           /\ [s EXCEPT !.step = step] \in Panes!Setups
    BY <1>1 DEF Panes!Setups, SetupSteps
  <1>4. ASSUME NEW step \in {"broken", "shut"}, Panes!SocketClosed(s, step), s.current
        PROVE  PanesTell'
    <2> DEFINE ended == [s EXCEPT !.step = step]
    <2>1. cards[s.on] \in Panes!Cards /\ step \in SetupSteps
      BY <1>1 DEF Panes!WorkersTypeOK, SetupSteps
    <2>2. /\ ended \in Panes!Setups /\ ended.on = s.on /\ ended.current /\ ended.step = step
      BY <1>3, <1>4, <2>1
    <2> HIDE DEF ended
    <2>3. PICK later : later = Panes!ShowCapture(ended, cards[s.on], "closed")
      OBVIOUS
    <2>4. later.on = s.on /\ later.step = step
      BY <2>1, <2>2, <2>3, CaptureEffect
    <2>5. cards[s.on].output # 0 => later.text = cards[s.on].output
      BY <2>2, <2>3 DEF Panes!ShowCapture, Panes!Setups
    <2>6. connection'[s.on] = "closed"
      BY <1>2, <1>4 DEF Panes!SocketClosed
    <2>7. Panes!SetupBecomes(s, later) /\ \E label : Panes!Label(s, label)
      BY <1>4, <2>3 DEF Panes!SocketClosed, ended
    <2>8. PaneTells(later)'
      BY <1>1, <1>4, <2>4, <2>5, <2>6 DEF PaneTells
    <2> QED
      BY <1>1, <1>4, <2>7, <2>8, BecomesTells
  <1>5. CASE Panes!Imported(s)
    <2>1. CASE ~s.current
      BY <1>1, <1>5, <2>1, PanesTellStay DEF Panes!Imported
    <2>2. CASE s.current /\ s.live
      <3> DEFINE later == [s EXCEPT !.step = "opening"]
      <3>1. Panes!SetupBecomes(s, later) /\ UNCHANGED connection
        BY <1>5, <2>2 DEF Panes!Imported
      <3>2. later.step = "opening"
        BY <1>3 DEF SetupSteps
      <3> HIDE DEF later
      <3>3. PaneTells(later)'
        BY <3>2 DEF PaneTells
      <3> QED
        BY <1>1, <2>2, <3>1, <3>3, BecomesTells
    <2>3. CASE s.current /\ ~s.live
      <3> DEFINE later == [s EXCEPT !.step = "plain"]
      <3>1. Panes!SetupBecomes(s, later) /\ Panes!Label(s, "fallback") /\ s.step = "import"
        BY <1>5, <2>3 DEF Panes!Imported
      <3>2. later.step = "plain" /\ later.on = s.on /\ later.live = s.live /\ later.text = s.text
        BY <1>3 DEF SetupSteps
      <3>3. s.text = cards[s.on].output
        BY <2>3, <3>1 DEF PanesTell, PaneTells
      <3> HIDE DEF later
      <3>4. PaneTells(later)'
        BY <1>1, <1>2, <2>3, <3>1, <3>2, <3>3 DEF PaneTells
      <3> QED
        BY <1>1, <2>3, <3>1, <3>4, BecomesTells
    <2> QED
      BY <2>1, <2>2, <2>3
  <1>6. CASE Panes!SocketOpens(s)
    <2> DEFINE later == [s EXCEPT !.step = "open"]
    <2>1. Panes!SetupBecomes(s, later) /\ Panes!Label(s, "connected") /\ s.current
      BY <1>1, <1>6 DEF Panes!SocketOpens, SoundSetup, PanesConnected
    <2>2. later.step = "open" /\ later.on = s.on
      BY <1>3 DEF SetupSteps
    <2> HIDE DEF later
    <2>3. PaneTells(later)'
      BY <1>2, <2>1, <2>2 DEF PaneTells
    <2> QED
      BY <1>1, <2>1, <2>3, BecomesTells
  <1>7. CASE Panes!SocketErrors(s) \/ Panes!SocketCloses(s) \/ Panes!LoseSocket(s)
    BY <1>1, <1>4, <1>7 DEF Panes!SocketErrors, Panes!SocketCloses, Panes!LoseSocket, SoundSetup, PanesConnected
  <1>8. CASE Panes!ClosesLate(s)
    BY <1>1, <1>8, PanesTellStay DEF Panes!ClosesLate
  <1> QED
    BY <1>5, <1>6, <1>7, <1>8

LEMMA PanesTellStep ==
    ASSUME Panes!WorkersTypeOK, PanesAreSound, PanesTell, Panes!WorkersNext
    PROVE  PanesTell'
  <1>1. ASSUME NEW w \in Workers, Panes!OpenPane(w) \/ Panes!HidePane(w) PROVE PanesTell'
    <2>1. /\ UNCHANGED cards /\ \E label : connection' = [connection EXCEPT ![w] = label]
          /\ \/ setups' = Panes!Dispose(w)
             \/ setups' = Panes!Dispose(w) \cup {Panes!Setup(w, cards[w])}
      BY <1>1 DEF Panes!OpenPane, Panes!HidePane
    <2>2. cards[w] \in Panes!Cards /\ \A q \in Workers \ {w} : connection'[q] = connection[q]
      BY <2>1 DEF Panes!WorkersTypeOK
    <2> QED
      BY <2>1, <2>2, DisposeTells
  <1>2. ASSUME NEW w \in Workers, Panes!StartWorker(w) \/ Panes!WorkerExits(w) PROVE PanesTell'
    <2>1. UNCHANGED <<cards, connection, setups>>
      BY <1>2 DEF Panes!StartWorker, Panes!WorkerExits, Panes!AskFor
    <2> QED
      BY <2>1, PanesTellStay
  <1>3. ASSUME NEW w \in Workers, NEW op \in {"rename", "stop", "kill", "capture"}, Panes!WorkerAction(op, w)
        PROVE  PanesTell'
    <2>1. UNCHANGED connection /\ cards[w] \in Panes!Cards
      BY <1>3 DEF Panes!WorkerAction, Panes!AskFor, Panes!WorkersTypeOK
    <2>2. Panes!CardBecomes(w, [cards[w] EXCEPT !.status = "stopped"]) \/ UNCHANGED <<cards, setups>>
      BY <1>3 DEF Panes!WorkerAction
    <2>3. [cards[w] EXCEPT !.status = "stopped"] \in Panes!Cards
      BY <2>1, CardTypes
    <2> QED
      BY <2>1, <2>2, <2>3, CardTells, PanesTellStay
  <1>4. ASSUME NEW k \in calls, Panes!TakeRequest(k) \/ Panes!LoseWork(k) PROVE PanesTell'
    <2>1. UNCHANGED <<cards, connection, setups>>
      BY <1>4 DEF Panes!TakeRequest, Panes!LoseWork
    <2> QED
      BY <2>1, PanesTellStay
  <1>5. ASSUME NEW k \in calls, Panes!Answered(k) PROVE PanesTell'
    <2>1. k.on \in Workers /\ k.got \in Panes!Rows /\ k.id \in Panes!Stamps /\ 0 \in Panes!Stamps
      BY RequestsAssumption DEF Panes!WorkersTypeOK, Panes!RequestsOK, Panes!Requests, Panes!Stamps
    <2>2. cards[k.on] \in Panes!Cards /\ cards[k.on].output \in Panes!Stamps
      BY <2>1 DEF Panes!WorkersTypeOK, Panes!Cards
    <2>3. Panes!CardOf(k.got, 0) \in Panes!Cards /\ Panes!CardOf(k.got, cards[k.on].output) \in Panes!Cards
      BY <2>1, <2>2, CardTypes
    <2>4. [cards[k.on] EXCEPT !.output = IF k.got.status = "stopped" THEN 0 ELSE k.id] \in Panes!Cards
      BY <2>1, <2>2, CardTypes
    <2>5. (\E card \in Panes!Cards : Panes!CardBecomes(k.on, card)) \/ UNCHANGED <<cards, setups>>
      BY <1>5, <2>3, <2>4 DEF Panes!Answered
    <2>6. UNCHANGED connection
      BY <1>5 DEF Panes!Answered
    <2> QED
      BY <2>1, <2>5, <2>6, CardTells, PanesTellStay
  <1> QED
    BY <1>1, <1>2, <1>3, <1>4, <1>5, SetupsTell DEF Panes!WorkersNext

-----------------------------------------------------------------------------
(***************************************************************************)
(* A worker no two requests have met on has one on its way or none.  With  *)
(* none its card is its row; else the request knows what it has made of    *)
(* the row, or will make, and what its answer will show of it.             *)
(***************************************************************************)
RowAgrees(w) == cards[w].status = registry[w].status /\ cards[w].name = registry[w].name
WorkFit(w, k) ==
    /\ (k.op = "start" /\ k.step = "back") => registry[w] = k.got /\ k.got.status # "stopping"
    /\ (k.op = "capture" \/ (k.op = "rename" /\ k.step = "out")) => RowAgrees(w)
    /\ (k.op = "rename" /\ k.step = "back") =>
          /\ registry[w] = k.got /\ cards[w].status = k.got.status
          /\ k.got.name # k.id => cards[w].name = k.got.name
    /\ k.op \in {"stop", "kill"} =>
          /\ k.step = "out" /\ cards[w].status = "stopped" /\ cards[w].name = registry[w].name
          /\ k.op = "stop" => registry[w].status = "running"
WorkFits(w) ==
    /\ \A j, k \in calls : (j.on = w /\ k.on = w) => j = k
    /\ (\A k \in calls : k.on # w) => RowAgrees(w)
    /\ \A k \in calls : k.on = w => WorkFit(w, k)
WorksFit == \A w \in Workers \ astray : WorkFits(w)

LEMMA WorkAside ==
    ASSUME NEW w, WorkFits(w), cards'[w] = cards[w], registry'[w] = registry[w],
           \A k \in calls : k.on = w => k \in calls', \A k \in calls' : k.on = w => k \in calls
    PROVE  WorkFits(w)'
  BY DEF WorkFits, WorkFit, RowAgrees

LEMMA WorkInit ==
    ASSUME Panes!WorkersInit
    PROVE  WorksFit
  <1> SUFFICES ASSUME NEW w \in Workers PROVE RowAgrees(w)
    BY DEF WorksFit, WorkFits, Panes!WorkersInit, Panes!RequestsInit
  <1>1. cards[w] = Panes!CardOf(registry[w], 0) /\ registry[w].status \in {"none", "running", "stopped"}
    BY DEF Panes!WorkersInit, Panes!NoRow
  <1> QED
    BY <1>1 DEF RowAgrees, Panes!CardOf

LEMMA WorkAsked ==
    ASSUME Panes!WorkersTypeOK, WorksFit, NEW w \in Workers, NEW op, Panes!AskFor(op, w),
           \A q \in Workers \ {w} : cards'[q] = cards[q],
           NEW v \in Workers \ astray',
           (\A k \in calls : k.on # w) /\ v = w =>
              WorkFit(w, [id |-> acts + 1, step |-> "out", op |-> op, on |-> w, got |-> Panes!NoRow])'
    PROVE  WorkFits(v)'
  <1>1. PICK new : new = [id |-> acts + 1, step |-> "out", op |-> op, on |-> w, got |-> Panes!NoRow]
    OBVIOUS
  <1>2. /\ calls' = calls \cup {new} /\ new.on = w /\ UNCHANGED registry
        /\ astray' = IF \E k \in calls : k.on = w THEN astray \cup {w} ELSE astray
    BY <1>1 DEF Panes!AskFor, Panes!Ask
  <1>3. WorkFits(v)
    BY <1>2 DEF WorksFit
  <1>4. CASE v # w
    BY <1>2, <1>3, <1>4, WorkAside
  <1>5. CASE v = w
    <2>1. \A k \in calls : k.on # w
      BY <1>2, <1>5
    <2>2. WorkFit(w, [id |-> acts + 1, step |-> "out", op |-> op, on |-> w, got |-> Panes!NoRow])'
      BY <1>5, <2>1
    <2>3. WorkFit(w, new)'
      BY <1>1, <2>2 DEF WorkFit, RowAgrees, Panes!AskFor
    <2>4. \A k \in calls' : k.on = w => k = new
      BY <1>2, <2>1
    <2>5. new \in calls'
      BY <1>2
    <2> QED
      BY <1>2, <1>5, <2>3, <2>4, <2>5 DEF WorkFits
  <1> QED
    BY <1>4, <1>5

LEMMA WorkOfClicks ==
    ASSUME Panes!WorkersTypeOK, WorksFit, NEW w \in Workers,
           Panes!StartWorker(w) \/ \E op \in {"rename", "stop", "kill", "capture"} : Panes!WorkerAction(op, w)
    PROVE  WorksFit'
  <1> SUFFICES ASSUME NEW v \in Workers \ astray' PROVE WorkFits(v)'
    BY DEF WorksFit
  <1>1. (\A k \in calls : k.on # w) /\ w \notin astray' => RowAgrees(w)
    BY DEF WorksFit, WorkFits, Panes!StartWorker, Panes!WorkerAction, Panes!AskFor
  <1>2. CASE Panes!StartWorker(w)
    <2>1. Panes!AskFor("start", w) /\ UNCHANGED cards
      BY <1>2 DEF Panes!StartWorker
    <2>2. WorkFit(w, [id |-> acts + 1, step |-> "out", op |-> "start", on |-> w, got |-> Panes!NoRow])'
      BY DEF WorkFit
    <2> QED
      BY <2>1, <2>2, WorkAsked
  <1>3. ASSUME NEW op \in {"rename", "capture"}, Panes!WorkerAction(op, w) PROVE WorkFits(v)'
    <2>1. Panes!AskFor(op, w) /\ UNCHANGED <<cards, registry>>
      BY <1>3 DEF Panes!WorkerAction, Panes!AskFor
    <2>2. RowAgrees(w) =>
             WorkFit(w, [id |-> acts + 1, step |-> "out", op |-> op, on |-> w, got |-> Panes!NoRow])'
      BY <2>1 DEF WorkFit, RowAgrees
    <2> QED
      BY <1>1, <2>1, <2>2, WorkAsked
  <1>4. ASSUME NEW op \in {"stop", "kill"}, Panes!WorkerAction(op, w) PROVE WorkFits(v)'
    <2>1. /\ Panes!AskFor(op, w) /\ UNCHANGED registry
          /\ op = "stop" => cards[w].status = "running"
          /\ cards' = [cards EXCEPT ![w] = [cards[w] EXCEPT !.status = "stopped"]]
      BY <1>4 DEF Panes!WorkerAction, Panes!AskFor, Panes!CardBecomes, Panes!Live
    <2>2. cards \in [Workers -> Panes!Cards] /\ cards[w] \in Panes!Cards
      BY DEF Panes!WorkersTypeOK
    <2>3. cards'[w].status = "stopped" /\ cards'[w].name = cards[w].name
          /\ \A q \in Workers \ {w} : cards'[q] = cards[q]
      BY <2>1, <2>2 DEF Panes!Cards
    <2>4. RowAgrees(w) =>
             WorkFit(w, [id |-> acts + 1, step |-> "out", op |-> op, on |-> w, got |-> Panes!NoRow])'
      BY <2>1, <2>3 DEF WorkFit, RowAgrees
    <2> QED
      BY <1>1, <2>1, <2>3, <2>4, WorkAsked
  <1> QED
    BY <1>2, <1>3, <1>4

LEMMA WorkTaken ==
    ASSUME Panes!WorkersTypeOK, WorksFit, NEW k \in calls, Panes!TakeRequest(k)
    PROVE  WorksFit'
  <1> SUFFICES ASSUME NEW w \in Workers \ astray' PROVE WorkFits(w)'
    BY DEF WorksFit
  <1>1. k \in Panes!Requests /\ k.on \in Workers /\ k.step = "out" /\ UNCHANGED cards
    BY DEF Panes!WorkersTypeOK, Panes!RequestsOK, Panes!Requests, Panes!TakeRequest
  <1>2. PICK row \in Panes!Outcomes(k) :
             /\ registry' = [registry EXCEPT ![k.on] = row]
             /\ astray' = IF row.status = "stopping" THEN astray \cup {k.on} ELSE astray
             /\ IF k.op \in {"stop", "kill"} THEN Panes!Ends(k)
                ELSE Panes!Becomes(k, [k EXCEPT !.step = "back", !.got = row])
    BY DEF Panes!TakeRequest
  <1>3. PICK back : back = [k EXCEPT !.step = "back", !.got = row]
    OBVIOUS
  <1>4. /\ back.on = k.on /\ back.op = k.op /\ back.id = k.id /\ back.step = "back" /\ back.got = row
    BY <1>1, <1>3 DEF Panes!Requests
  <1>5. calls' = IF k.op \in {"stop", "kill"} THEN calls \ {k} ELSE (calls \ {k}) \cup {back}
    BY <1>2, <1>3 DEF Panes!Ends, Panes!Becomes
  <1>6. WorkFits(w) /\ registry \in [Workers -> Panes!Rows] /\ registry[k.on] \in Panes!Rows
    BY <1>1, <1>2 DEF WorksFit, Panes!WorkersTypeOK
  <1>7. CASE w # k.on
    BY <1>1, <1>2, <1>4, <1>5, <1>6, <1>7, WorkAside
  <1>8. CASE w = k.on
    <2>1. /\ registry'[w] = row /\ row.status # "stopping" /\ WorkFit(w, k)
          /\ \A j \in calls : j.on = w => j = k
      BY <1>2, <1>6, <1>8 DEF WorkFits
    <2>2. CASE k.op \in {"stop", "kill"}
      <3>1. row.status = "stopped" /\ row.name = registry[w].name
        BY <1>6, <1>8, <2>1, <2>2 DEF Panes!Outcomes, WorkFit, Panes!Rows
      <3>2. RowAgrees(w)'
        BY <1>1, <2>1, <2>2, <3>1 DEF RowAgrees, WorkFit
      <3>3. \A j \in calls' : j.on # w
        BY <1>5, <2>1, <2>2
      <3> QED
        BY <3>2, <3>3 DEF WorkFits
    <2>3. CASE k.op \notin {"stop", "kill"}
      <3>1. back \in calls' /\ \A j \in calls' : j.on = w => j = back
        BY <1>5, <2>1, <2>3
      <3>2. CASE k.op = "start"
        <4>1. WorkFit(w, back)'
          BY <1>4, <2>1, <3>2 DEF WorkFit
        <4> QED
          BY <1>4, <1>8, <3>1, <4>1 DEF WorkFits
      <3>3. CASE k.op = "rename"
        <4>1. row.status = registry[w].status /\ (row.name # k.id => row = registry[w])
          BY <1>1, <1>6, <1>8, <3>3 DEF Panes!Outcomes, Panes!Rows
        <4>2. RowAgrees(w)
          BY <1>1, <2>1, <3>3 DEF WorkFit
        <4>3. WorkFit(w, back)'
          BY <1>1, <1>4, <2>1, <3>3, <4>1, <4>2 DEF WorkFit, RowAgrees
        <4> QED
          BY <1>4, <1>8, <3>1, <4>3 DEF WorkFits
      <3>4. CASE k.op = "capture"
        <4>1. row = registry[w]
          BY <1>8, <3>4 DEF Panes!Outcomes
        <4>2. RowAgrees(w)
          BY <2>1, <3>4 DEF WorkFit
        <4>3. WorkFit(w, back)'
          BY <1>1, <1>4, <2>1, <3>4, <4>1, <4>2 DEF WorkFit, RowAgrees
        <4> QED
          BY <1>4, <1>8, <3>1, <4>3 DEF WorkFits
      <3> QED
        BY <1>1, <2>3, <3>2, <3>3, <3>4 DEF Panes!Requests
    <2> QED
      BY <2>2, <2>3
  <1> QED
    BY <1>7, <1>8

LEMMA WorkAnswered ==
    ASSUME Panes!WorkersTypeOK, WorksFit, NEW k \in calls, Panes!Answered(k)
    PROVE  WorksFit'
  <1> SUFFICES ASSUME NEW w \in Workers \ astray' PROVE WorkFits(w)'
    BY DEF WorksFit
  <1>1. /\ k \in Panes!Requests /\ k.on \in Workers /\ k.step = "back" /\ UNCHANGED <<registry, astray>>
        /\ calls' = calls \ {k}
    BY DEF Panes!WorkersTypeOK, Panes!RequestsOK, Panes!Requests, Panes!Answered, Panes!Ends
  <1>2. WorkFits(w) /\ cards \in [Workers -> Panes!Cards] /\ cards[k.on] \in Panes!Cards
    BY <1>1 DEF WorksFit, Panes!WorkersTypeOK
  <1>3. UNCHANGED cards \/ \E card : cards' = [cards EXCEPT ![k.on] = card]
    BY DEF Panes!Answered, Panes!CardBecomes
  <1>4. CASE w # k.on
    <2>1. cards'[w] = cards[w]
      BY <1>2, <1>3, <1>4
    <2> QED
      BY <1>1, <1>2, <1>4, <2>1, WorkAside
  <1>5. CASE w = k.on
    <2>1. WorkFit(w, k) /\ \A j \in calls' : j.on # w
      BY <1>1, <1>2, <1>5 DEF WorkFits
    <2>2. CASE k.op = "start"
      <3>1. cards'[w] = Panes!CardOf(k.got, 0)
        BY <1>2, <1>5, <2>2 DEF Panes!Answered, Panes!CardBecomes
      <3>2. RowAgrees(w)'
        BY <1>1, <2>1, <2>2, <3>1 DEF WorkFit, RowAgrees, Panes!CardOf
      <3> QED
        BY <2>1, <3>2 DEF WorkFits
    <2>3. CASE k.op = "capture"
      <3>1. cards'[w] = [cards[w] EXCEPT !.output = IF k.got.status = "stopped" THEN 0 ELSE k.id]
        BY <1>2, <1>5, <2>3 DEF Panes!Answered, Panes!CardBecomes
      <3>2. cards'[w].status = cards[w].status /\ cards'[w].name = cards[w].name
        BY <1>2, <1>5, <3>1 DEF Panes!Cards
      <3>3. RowAgrees(w)'
        BY <1>1, <2>1, <2>3, <3>2 DEF WorkFit, RowAgrees
      <3> QED
        BY <2>1, <3>3 DEF WorkFits
    <2>4. CASE k.op = "rename"
      <3>1. /\ registry[w] = k.got /\ cards[w].status = k.got.status
            /\ k.got.name # k.id => cards[w].name = k.got.name
        BY <1>1, <2>1, <2>4 DEF WorkFit
      <3>2. CASE k.got.name = k.id
        <4>1. cards'[w] = Panes!CardOf(k.got, cards[w].output)
          BY <1>2, <1>5, <2>4, <3>2 DEF Panes!Answered, Panes!CardBecomes
        <4>2. k.got.status # "stopping"
          BY <1>2, <1>5, <3>1 DEF Panes!Cards
        <4>3. RowAgrees(w)'
          BY <1>1, <3>1, <4>1, <4>2 DEF RowAgrees, Panes!CardOf
        <4> QED
          BY <2>1, <4>3 DEF WorkFits
      <3>3. CASE k.got.name # k.id
        <4>1. UNCHANGED cards
          BY <2>4, <3>3 DEF Panes!Answered
        <4>2. RowAgrees(w)'
          BY <1>1, <3>1, <3>3, <4>1 DEF RowAgrees
        <4> QED
          BY <2>1, <4>2 DEF WorkFits
      <3> QED
        BY <3>2, <3>3
    <2>5. k.op \notin {"stop", "kill"}
      BY <1>1, <2>1 DEF WorkFit
    <2> QED
      BY <1>1, <2>2, <2>3, <2>4, <2>5 DEF Panes!Requests
  <1> QED
    BY <1>4, <1>5

LEMMA WorksStep ==
    ASSUME Panes!WorkersTypeOK, WorksFit, Panes!WorkersNext
    PROVE  WorksFit'
  <1>1. ASSUME UNCHANGED <<calls, cards, registry, astray>> PROVE WorksFit'
    BY <1>1, WorkAside DEF WorksFit
  <1>2. ASSUME NEW w \in Workers, Panes!OpenPane(w) \/ Panes!HidePane(w) PROVE WorksFit'
    BY <1>1, <1>2 DEF Panes!OpenPane, Panes!HidePane
  <1>3. ASSUME NEW s \in setups,
           \/ Panes!Imported(s) \/ Panes!SocketOpens(s) \/ Panes!SocketErrors(s) \/ Panes!SocketCloses(s)
           \/ Panes!LoseSocket(s) \/ Panes!ClosesLate(s)
        PROVE  WorksFit'
    BY <1>1, <1>3 DEF Panes!Imported, Panes!SocketOpens, Panes!SocketErrors, Panes!SocketCloses,
       Panes!LoseSocket, Panes!ClosesLate, Panes!requestVars
  <1>4. ASSUME NEW v \in Workers, Panes!WorkerExits(v) PROVE WorksFit'
    <2> SUFFICES ASSUME NEW w \in Workers \ astray' PROVE WorkFits(w)'
      BY DEF WorksFit
    <2>1. /\ UNCHANGED <<calls, cards>> /\ astray' = astray \cup {v}
          /\ registry' = [registry EXCEPT ![v].status = "stopped"]
      BY <1>4 DEF Panes!WorkerExits
    <2>2. w # v /\ WorkFits(w) /\ registry'[w] = registry[w]
      BY <2>1 DEF WorksFit, Panes!WorkersTypeOK
    <2> QED
      BY <2>1, <2>2, WorkAside
  <1>5. ASSUME NEW k \in calls, Panes!LoseWork(k) PROVE WorksFit'
    <2> SUFFICES ASSUME NEW w \in Workers \ astray' PROVE WorkFits(w)'
      BY DEF WorksFit
    <2>1. UNCHANGED <<cards, registry>> /\ astray' = astray \cup {k.on} /\ calls' = calls \ {k}
      BY <1>5 DEF Panes!LoseWork, Panes!Ends
    <2>2. w # k.on /\ WorkFits(w)
      BY <2>1 DEF WorksFit
    <2> QED
      BY <2>1, <2>2, WorkAside
  <1> QED
    BY <1>2, <1>3, <1>4, <1>5, WorkOfClicks, WorkTaken, WorkAnswered DEF Panes!WorkersNext

-----------------------------------------------------------------------------
PanesInv == Panes!WorkersTypeOK /\ PanesAreSound /\ PanesTell /\ WorksFit

LEMMA PanesInvInit ==
    ASSUME Panes!WorkersInit
    PROVE  PanesInv
  <1>1. PanesTell
    BY DEF PanesTell, Panes!WorkersInit
  <1> QED
    BY <1>1, PanesInitIsSound, WorkInit DEF PanesInv

LEMMA PanesInvStep ==
    ASSUME PanesInv, Panes!WorkersNext
    PROVE  PanesInv'
  <1>1. Panes!WorkersTypeOK' /\ PanesAreSound'
    BY PanesClicksStep, SetupsStep, PanesRequestsStep DEF PanesInv, Panes!WorkersNext
  <1> QED
    BY <1>1, PanesTellStep, WorksStep DEF PanesInv

LEMMA PanesHold ==
    ASSUME PanesInv
    PROVE  /\ Panes!WorkersTypeOK /\ Panes!SocketsHavePanes /\ Panes!PaneTellsItsState
           /\ Panes!WorkersAgree
  <1>1. Panes!SocketsHavePanes
    <2>1. ASSUME NEW s \in setups, s.step \in {"opening", "open", "broken"}
          PROVE  s.current /\ connection[s.on] # "none" /\ Panes!Live(cards[s.on])
      BY <2>1 DEF PanesInv, PanesAreSound, SoundSetup, PanesConnected
    <2>2. \A r, s \in setups : (r.on = s.on /\ r.current /\ s.current) => r = s
      BY DEF PanesInv, PanesAreSound, OnePane
    <2> QED
      BY <2>1, <2>2 DEF Panes!SocketsHavePanes
  <1>2. Panes!PaneTellsItsState
    BY DEF Panes!PaneTellsItsState, PanesInv, PanesTell, PaneTells
  <1>3. Panes!WorkersAgree
    BY DEF Panes!WorkersAgree, PanesInv, WorksFit, WorkFits, RowAgrees
  <1> QED
    BY <1>1, <1>2, <1>3 DEF PanesInv

-----------------------------------------------------------------------------
(***************************************************************************)
(* The polled panels.                                                      *)
(***************************************************************************)

\* A request is about what its kind is about.
FitErrand(k) ==
    /\ k \in Feeds!Polls \cup Feeds!Errands
    /\ k.op = "resolve" => k.on \in Conflicts
    /\ k.op \in {"run", "mock"} => k.on \in Actions
FeedsTyped == Feeds!FeedsTypeOK /\ \A k \in calls : FitErrand(k)

LEMMA NewErrand ==
    ASSUME acts \in 0 .. MaxActs, Feeds!Act,
           NEW op \in {"resolve", "run", "mock"}, NEW on \in Conflicts \cup Actions,
           NEW to \in Feeds!Resolutions \cup {"show"},
           op = "resolve" => on \in Conflicts, op \in {"run", "mock"} => on \in Actions
    PROVE  FitErrand(Feeds!Errand(op, on, to))
  <1>1. acts + 1 \in 1 .. MaxActs
    BY RequestsAssumption DEF Feeds!Act
  <1>2. Feeds!Errand(op, on, to) \in Feeds!Errands
    BY <1>1 DEF Feeds!Errand, Feeds!Errands
  <1>3. Feeds!Errand(op, on, to).op = op /\ Feeds!Errand(op, on, to).on = on
    BY DEF Feeds!Errand
  <1> QED
    BY <1>2, <1>3 DEF FitErrand

LEMMA FeedsTypeInit ==
    ASSUME Feeds!FeedsInit
    PROVE  FeedsTyped
  <1>1. calls = {} /\ acts = 0 /\ faults = 0
    BY DEF Feeds!FeedsInit, Feeds!RequestsInit
  <1>2. 0 \in 0 .. MaxActs /\ 0 \in 0 .. MaxFaults
    BY RequestsAssumption
  <1> QED
    BY <1>1, <1>2 DEF Feeds!FeedsInit, FeedsTyped, Feeds!FeedsTypeOK, Feeds!RequestsOK

LEMMA TypeOfPolls ==
    ASSUME FeedsTyped,
           \/ Feeds!Poll \/ Feeds!Recover \/ Feeds!WorldTurns
           \/ \E p \in Feeds!Panels : Feeds!OpenPanel(p)
           \/ \E k \in calls : Feeds!TakePoll(k) \/ Feeds!PollAnswered(k) \/ Feeds!LosePoll(k)
    PROVE  FeedsTyped'
  <1> USE DEF FeedsTyped, Feeds!FeedsTypeOK, Feeds!RequestsOK
  <1>1. Feeds!Fault \/ UNCHANGED faults => faults' \in 0 .. MaxFaults
    BY RequestsAssumption DEF Feeds!Fault
  <1>2. ASSUME NEW request, calls' \subseteq calls \cup {request}, FitErrand(request)
        PROVE  calls' \subseteq Feeds!Polls \cup Feeds!Errands /\ \A k \in calls' : FitErrand(k)
    BY <1>2 DEF FitErrand
  <1>3. \A k \in calls : k.op = "poll" => k \in Feeds!Polls
    BY DEF FitErrand, Feeds!Errands
  <1>4. ASSUME NEW k \in Feeds!Polls PROVE FitErrand(k)
    BY <1>4 DEF FitErrand, Feeds!Polls
  <1>5. CASE Feeds!Poll
    <2> DEFINE ask == [id |-> 0, step |-> "out", op |-> "poll", on |-> open, to |-> "show",
                       got |-> Feeds!Nothing]
    <2>1. ask \in Feeds!Polls
      BY DEF Feeds!Polls, Feeds!Nothing, Feeds!Worlds
    <2>2. calls' \subseteq calls \cup {ask}
      BY <1>5 DEF Feeds!Poll, Feeds!Ask
    <2> HIDE DEF ask
    <2>3. calls' \subseteq Feeds!Polls \cup Feeds!Errands /\ \A k \in calls' : FitErrand(k)
      BY <1>2, <1>4, <2>1, <2>2
    <2> QED
      BY <1>5, <2>3 DEF Feeds!Poll
  <1>6. CASE Feeds!Recover
    <2>1. {k.on : k \in {j \in calls : j.op \in {"run", "mock"}}} \subseteq Actions
      BY DEF FitErrand
    <2> QED
      BY <1>6, <2>1 DEF Feeds!Recover, Feeds!requestVars
  <1>7. CASE Feeds!WorldTurns
    <2>1. \A h, u \in 0 .. 1 : [world EXCEPT !.health = h, !.usage = u] \in Feeds!Worlds
      BY DEF Feeds!Worlds
    <2>2. \A c \in Conflicts : [world EXCEPT !.conflicts = @ \cup {c}] \in Feeds!Worlds
      BY DEF Feeds!Worlds
    <2>3. world' \in Feeds!Worlds
      BY <1>7, <2>1, <2>2 DEF Feeds!WorldTurns
    <2> QED
      BY <1>1, <1>7, <2>3 DEF Feeds!WorldTurns
  <1>8. ASSUME NEW p \in Feeds!Panels, Feeds!OpenPanel(p) PROVE FeedsTyped'
    BY <1>8, RequestsAssumption DEF Feeds!OpenPanel, Feeds!Act
  <1>9. ASSUME NEW k \in calls, Feeds!TakePoll(k) PROVE FeedsTyped'
    <2> DEFINE back == [k EXCEPT !.step = "back", !.got = world]
    <2>1. k \in Feeds!Polls
      BY <1>3, <1>9 DEF Feeds!TakePoll
    <2>2. back \in Feeds!Polls
      BY <2>1 DEF Feeds!Polls
    <2>3. calls' \subseteq calls \cup {back}
      BY <1>9 DEF Feeds!TakePoll, Feeds!Becomes
    <2> HIDE DEF back
    <2>4. calls' \subseteq Feeds!Polls \cup Feeds!Errands /\ \A j \in calls' : FitErrand(j)
      BY <1>2, <1>4, <2>2, <2>3
    <2> QED
      BY <1>9, <2>4 DEF Feeds!TakePoll
  <1>10. ASSUME NEW k \in calls, Feeds!PollAnswered(k) PROVE FeedsTyped'
    <2>1. k \in Feeds!Polls
      BY <1>3, <1>10 DEF Feeds!PollAnswered
    <2>2. k.got \in Feeds!Worlds /\ k.on \in Feeds!Panels
      BY <2>1 DEF Feeds!Polls
    <2>3. shown' \in Feeds!Worlds
      BY <1>10, <2>2 DEF Feeds!PollAnswered, Feeds!Worlds, Feeds!Panels
    <2> QED
      BY <1>10, <2>3 DEF Feeds!PollAnswered, Feeds!Ends
  <1>11. ASSUME NEW k \in calls, Feeds!LosePoll(k) PROVE FeedsTyped'
    BY <1>1, <1>11 DEF Feeds!LosePoll, Feeds!Ends
  <1> QED
    BY <1>5, <1>6, <1>7, <1>8, <1>9, <1>10, <1>11

LEMMA TypeOfErrands ==
    ASSUME FeedsTyped,
           \/ Feeds!ConfirmResolution \/ Feeds!CancelResolution
           \/ \E c \in Conflicts, to \in Feeds!Resolutions : Feeds!RequestResolution(c, to)
           \/ \E a \in Actions : Feeds!RunAction(a)
           \/ \E k \in calls : \/ Feeds!TakeResolution(k) \/ Feeds!ResolutionAnswered(k)
                               \/ Feeds!LoseResolution(k) \/ Feeds!ActionAnswered(k)
                               \/ Feeds!LoseAction(k)
    PROVE  FeedsTyped'
  <1> USE DEF FeedsTyped, Feeds!FeedsTypeOK, Feeds!RequestsOK
  <1>1. Feeds!Fault \/ UNCHANGED faults => faults' \in 0 .. MaxFaults
    BY RequestsAssumption DEF Feeds!Fault
  <1>2. ASSUME NEW request, calls' \subseteq calls \cup {request}, FitErrand(request)
        PROVE  calls' \subseteq Feeds!Polls \cup Feeds!Errands /\ \A k \in calls' : FitErrand(k)
    BY <1>2 DEF FitErrand
  <1>3. ASSUME calls' \subseteq calls
        PROVE  calls' \subseteq Feeds!Polls \cup Feeds!Errands /\ \A k \in calls' : FitErrand(k)
    BY <1>3
  <1>4. Feeds!Act => acts' \in 0 .. MaxActs
    BY RequestsAssumption DEF Feeds!Act
  <1>5. ASSUME NEW c \in Conflicts, NEW to \in Feeds!Resolutions, Feeds!Resolve(c, to), Feeds!Act
        PROVE  calls' \subseteq Feeds!Polls \cup Feeds!Errands /\ \A k \in calls' : FitErrand(k)
    <2>1. FitErrand(Feeds!Errand("resolve", c, to))
      BY <1>5, NewErrand
    <2> QED
      BY <1>2, <1>5, <2>1 DEF Feeds!Resolve, Feeds!Ask
  <1>6. CASE Feeds!ConfirmResolution
    <2>1. pending \in Conflicts \X Feeds!Destructive
      BY <1>6 DEF Feeds!ConfirmResolution
    <2>2. pending[1] \in Conflicts /\ pending[2] \in Feeds!Resolutions
      BY <2>1 DEF Feeds!Resolutions
    <2>3. calls' \subseteq Feeds!Polls \cup Feeds!Errands /\ \A k \in calls' : FitErrand(k)
      BY <1>5, <1>6, <2>2 DEF Feeds!ConfirmResolution
    <2> QED
      BY <1>4, <1>6, <2>3 DEF Feeds!ConfirmResolution
  <1>7. CASE Feeds!CancelResolution
    BY <1>7 DEF Feeds!CancelResolution, Feeds!requestVars
  <1>8. ASSUME NEW c \in Conflicts, NEW to \in Feeds!Resolutions, Feeds!RequestResolution(c, to)
        PROVE  FeedsTyped'
    <2>1. calls' \subseteq Feeds!Polls \cup Feeds!Errands /\ \A k \in calls' : FitErrand(k)
      BY <1>3, <1>5, <1>8 DEF Feeds!RequestResolution
    <2>2. pending' \in (Conflicts \X Feeds!Destructive) \cup {Closed}
      BY <1>8 DEF Feeds!RequestResolution
    <2> QED
      BY <1>4, <1>8, <2>1, <2>2 DEF Feeds!RequestResolution
  <1>9. ASSUME NEW a \in Actions, Feeds!RunAction(a) PROVE FeedsTyped'
    <2> DEFINE op == IF live THEN "run" ELSE "mock"
    <2>1. Feeds!Act /\ calls' = calls \cup {Feeds!Errand(op, a, "show")}
      BY <1>9 DEF Feeds!RunAction, Feeds!Ask
    <2>2. op \in {"run", "mock"}
      OBVIOUS
    <2> HIDE DEF op
    <2>3. FitErrand(Feeds!Errand(op, a, "show"))
      BY <2>1, <2>2, NewErrand
    <2>4. calls' \subseteq Feeds!Polls \cup Feeds!Errands /\ \A k \in calls' : FitErrand(k)
      BY <1>2, <2>1, <2>3
    <2>5. status' \in [Actions -> {"idle", "running", "done", "error"}]
      BY <1>9 DEF Feeds!RunAction
    <2> QED
      BY <1>4, <1>9, <2>4, <2>5 DEF Feeds!RunAction
  <1>10. ASSUME NEW k \in calls PROVE FitErrand(k) /\ FitErrand([k EXCEPT !.step = "back"])
    <2>1. FitErrand(k)
      OBVIOUS
    <2>2. CASE k \in Feeds!Polls
      BY <2>1, <2>2 DEF FitErrand, Feeds!Polls
    <2>3. CASE k \in Feeds!Errands
      BY <2>1, <2>3 DEF FitErrand, Feeds!Errands
    <2> QED
      BY <2>1, <2>2, <2>3 DEF FitErrand
  <1>11. ASSUME NEW k \in calls, Feeds!TakeResolution(k) PROVE FeedsTyped'
    <2>1. calls' \subseteq calls \cup {[k EXCEPT !.step = "back"]}
      BY <1>11 DEF Feeds!TakeResolution, Feeds!Becomes, Feeds!Ends
    <2>2. calls' \subseteq Feeds!Polls \cup Feeds!Errands /\ \A j \in calls' : FitErrand(j)
      BY <1>2, <1>10, <2>1
    <2>3. world' \in Feeds!Worlds
      BY <1>11 DEF Feeds!TakeResolution, Feeds!Worlds
    <2> QED
      BY <1>11, <2>2, <2>3 DEF Feeds!TakeResolution
  <1>12. ASSUME NEW k \in calls, Feeds!ResolutionAnswered(k) PROVE FeedsTyped'
    <2>1. shown' \in Feeds!Worlds
      BY <1>12 DEF Feeds!ResolutionAnswered, Feeds!Worlds
    <2> QED
      BY <1>12, <2>1 DEF Feeds!ResolutionAnswered, Feeds!Ends
  <1>13. ASSUME NEW k \in calls, Feeds!LoseResolution(k) PROVE FeedsTyped'
    BY <1>1, <1>13 DEF Feeds!LoseResolution, Feeds!Ends
  <1>14. ASSUME NEW k \in calls, Feeds!ActionAnswered(k) PROVE FeedsTyped'
    <2>1. status' \in [Actions -> {"idle", "running", "done", "error"}]
      BY <1>14 DEF Feeds!ActionAnswered
    <2> QED
      BY <1>14, <2>1 DEF Feeds!ActionAnswered, Feeds!Ends
  <1>15. ASSUME NEW k \in calls, Feeds!LoseAction(k) PROVE FeedsTyped'
    <2>1. calls' \subseteq calls \cup {[k EXCEPT !.step = "back"]}
      BY <1>15 DEF Feeds!LoseAction, Feeds!Becomes
    <2>2. calls' \subseteq Feeds!Polls \cup Feeds!Errands /\ \A j \in calls' : FitErrand(j)
      BY <1>2, <1>10, <2>1
    <2>3. k.on \in Actions
      BY <1>10, <1>15 DEF FitErrand, Feeds!LoseAction
    <2>4. status' \in [Actions -> {"idle", "running", "done", "error"}] /\ doubtful' \subseteq Actions
      BY <1>15, <2>3 DEF Feeds!LoseAction
    <2> QED
      BY <1>1, <1>15, <2>2, <2>4 DEF Feeds!LoseAction
  <1> QED
    BY <1>6, <1>7, <1>8, <1>9, <1>11, <1>12, <1>13, <1>14, <1>15

-----------------------------------------------------------------------------
\* An action that runs, or pretends to, spins, and there is one of it.
Runs(a) == {k \in calls : k.op \in {"run", "mock"} /\ k.on = a}
RunFits(a) ==
    /\ \A k \in Runs(a) : status[a] = "running" /\ k.step = "out"
    /\ \A j, k \in Runs(a) : j = k
RunsFit == \A a \in Actions \ doubtful : RunFits(a)

LEMMA RunAside ==
    ASSUME NEW a, RunFits(a), Runs(a)' \subseteq Runs(a), status'[a] = status[a]
    PROVE  RunFits(a)'
  BY DEF RunFits

LEMMA RunsStep ==
    ASSUME FeedsTyped, RunsFit, Feeds!FeedsNext
    PROVE  RunsFit'
  <1> SUFFICES ASSUME NEW a \in Actions \ doubtful' PROVE RunFits(a)'
    BY DEF RunsFit
  <1>1. status \in [Actions -> {"idle", "running", "done", "error"}]
    BY DEF FeedsTyped, Feeds!FeedsTypeOK
  <1>2. \A k \in calls : k \in Feeds!Polls \cup Feeds!Errands
    BY DEF FeedsTyped, FitErrand
  <1>3. ASSUME UNCHANGED <<status, doubtful>>, Runs(a)' \subseteq Runs(a) PROVE RunFits(a)'
    BY <1>3, RunAside DEF RunsFit
  <1>4. ASSUME UNCHANGED <<status, doubtful>>, NEW k, Feeds!Ends(k) PROVE RunFits(a)'
    <2>1. Runs(a)' \subseteq Runs(a)
      BY <1>4 DEF Runs, Feeds!Ends
    <2> QED
      BY <1>3, <1>4, <2>1
  <1>5. CASE Feeds!Poll
    <2>1. Runs(a)' \subseteq Runs(a)
      BY <1>5 DEF Runs, Feeds!Poll, Feeds!Ask
    <2> QED
      BY <1>3, <1>5, <2>1 DEF Feeds!Poll
  <1>6. CASE Feeds!Recover
    <2>1. Runs(a)' = {}
      BY <1>6 DEF Feeds!Recover, Feeds!requestVars, Runs
    <2> QED
      BY <2>1 DEF RunFits
  <1>7. CASE Feeds!WorldTurns \/ Feeds!CancelResolution \/ \E p \in Feeds!Panels : Feeds!OpenPanel(p)
    <2>1. UNCHANGED <<calls, status, doubtful>>
      BY <1>7 DEF Feeds!WorldTurns, Feeds!CancelResolution, Feeds!OpenPanel, Feeds!requestVars
    <2> QED
      BY <1>3, <2>1 DEF Runs
  <1>8. ASSUME NEW c, NEW to, Feeds!Resolve(c, to) PROVE Runs(a)' \subseteq Runs(a)
    BY <1>8 DEF Runs, Feeds!Resolve, Feeds!Ask, Feeds!Errand
  <1>9. CASE Feeds!ConfirmResolution \/
             \E c \in Conflicts, to \in Feeds!Resolutions : Feeds!RequestResolution(c, to)
    <2>1. Runs(a)' \subseteq Runs(a)
      BY <1>8, <1>9 DEF Feeds!ConfirmResolution, Feeds!RequestResolution, Runs
    <2> QED
      BY <1>3, <1>9, <2>1 DEF Feeds!ConfirmResolution, Feeds!RequestResolution
  <1>10. ASSUME NEW k \in calls,
                Feeds!PollAnswered(k) \/ Feeds!LosePoll(k) \/ Feeds!ResolutionAnswered(k) \/ Feeds!LoseResolution(k)
         PROVE  RunFits(a)'
    BY <1>4, <1>10 DEF Feeds!PollAnswered, Feeds!LosePoll, Feeds!ResolutionAnswered, Feeds!LoseResolution
  <1>11. ASSUME NEW k \in calls, Feeds!TakePoll(k) \/ Feeds!TakeResolution(k)
         PROVE  RunFits(a)'
    <2>1. k \in Feeds!Polls \/ k \in Feeds!Errands
      BY <1>2
    <2>2. [k EXCEPT !.step = "back", !.got = world].op = k.op /\ [k EXCEPT !.step = "back"].op = k.op
      BY <2>1 DEF Feeds!Polls, Feeds!Errands
    <2>3. Runs(a)' \subseteq Runs(a)
      BY <1>11, <2>2 DEF Runs, Feeds!TakePoll, Feeds!TakeResolution, Feeds!Becomes, Feeds!Ends
    <2> QED
      BY <1>3, <1>11, <2>3 DEF Feeds!TakePoll, Feeds!TakeResolution
  <1>12. ASSUME NEW b \in Actions, Feeds!RunAction(b) PROVE RunFits(a)'
    <2> DEFINE run == Feeds!Errand(IF live THEN "run" ELSE "mock", b, "show")
    <2>1. /\ status[b] # "running" /\ status' = [status EXCEPT ![b] = "running"] /\ UNCHANGED doubtful
          /\ calls' = calls \cup {run}
      BY <1>12 DEF Feeds!RunAction, Feeds!Offered, Feeds!Ask
    <2>2. run.on = b /\ run.step = "out" /\ run.op \in {"run", "mock"}
      BY DEF Feeds!Errand
    <2> HIDE DEF run
    <2>3. RunFits(a)
      BY <2>1 DEF RunsFit
    <2>4. CASE a = b
      <3>1. Runs(a) = {}
        BY <2>1, <2>3, <2>4 DEF RunFits
      <3>2. Runs(a)' = {run}
        BY <2>1, <2>2, <2>4, <3>1 DEF Runs
      <3> QED
        BY <1>1, <2>1, <2>2, <2>4, <3>2 DEF RunFits
    <2>5. CASE a # b
      <3>1. Runs(a)' \subseteq Runs(a) /\ status'[a] = status[a]
        BY <1>1, <2>1, <2>2, <2>5 DEF Runs
      <3> QED
        BY <2>3, <3>1, RunAside
    <2> QED
      BY <2>4, <2>5
  <1>13. ASSUME NEW k \in calls, Feeds!ActionAnswered(k) PROVE RunFits(a)'
    <2>1. /\ calls' = calls \ {k} /\ k.op \in {"run", "mock"} /\ UNCHANGED doubtful
          /\ \E end \in {"done", "error"} :
                status' = IF k.step = "back" THEN status ELSE [status EXCEPT ![k.on] = end]
      BY <1>13 DEF Feeds!ActionAnswered, Feeds!Ends
    <2>2. RunFits(a)
      BY <2>1 DEF RunsFit
    <2>3. Runs(a)' \subseteq Runs(a)
      BY <2>1 DEF Runs
    <2>4. CASE k.on = a
      <3>1. Runs(a)' = {}
        BY <2>1, <2>2, <2>4 DEF RunFits, Runs
      <3> QED
        BY <3>1 DEF RunFits
    <2>5. CASE k.on # a
      <3>1. status'[a] = status[a]
        BY <1>1, <2>1, <2>5
      <3> QED
        BY <2>2, <2>3, <3>1, RunAside
    <2> QED
      BY <2>4, <2>5
  <1>14. ASSUME NEW k \in calls, Feeds!LoseAction(k) PROVE RunFits(a)'
    <2> DEFINE lost == [k EXCEPT !.step = "back"]
    <2>1. /\ calls' = (calls \ {k}) \cup {lost} /\ doubtful' = doubtful \cup {k.on}
          /\ status' = [status EXCEPT ![k.on] = "error"]
      BY <1>14 DEF Feeds!LoseAction, Feeds!Becomes
    <2>2. lost.on = k.on
      BY <1>2 DEF Feeds!Polls, Feeds!Errands
    <2> HIDE DEF lost
    <2>3. a # k.on /\ RunFits(a)
      BY <2>1 DEF RunsFit
    <2>4. Runs(a)' \subseteq Runs(a) /\ status'[a] = status[a]
      BY <1>1, <2>1, <2>2, <2>3 DEF Runs
    <2> QED
      BY <2>3, <2>4, RunAside
  <1> QED
    BY <1>5, <1>6, <1>7, <1>9, <1>10, <1>11, <1>12, <1>13, <1>14 DEF Feeds!FeedsNext

-----------------------------------------------------------------------------
FeedsInv == FeedsTyped /\ RunsFit

LEMMA FeedsInvInit ==
    ASSUME Feeds!FeedsInit
    PROVE  FeedsInv
  BY FeedsTypeInit DEF FeedsInv, RunsFit, RunFits, Runs, Feeds!FeedsInit, Feeds!RequestsInit

LEMMA FeedsInvStep ==
    ASSUME FeedsInv, Feeds!FeedsNext
    PROVE  FeedsInv'
  BY TypeOfPolls, TypeOfErrands, RunsStep DEF FeedsInv, Feeds!FeedsNext

LEMMA FeedsHold ==
    ASSUME FeedsInv
    PROVE  Feeds!FeedsTypeOK /\ Feeds!ActionsRunAlone
  BY DEF FeedsInv, FeedsTyped, RunsFit, RunFits, Runs, Feeds!ActionsRunAlone

-----------------------------------------------------------------------------
(***************************************************************************)
(* The status panels.                                                      *)
(***************************************************************************)

LEMMA StatusTypeInit ==
    ASSUME Status!StatusInit
    PROVE  Status!StatusTypeOK
  <1>1. calls = {} /\ acts = 0 /\ faults = 0
    BY DEF Status!StatusInit, Status!RequestsInit
  <1>2. Status!RequestsOK({})
    BY <1>1, RequestsAssumption DEF Status!RequestsOK
  <1>3. PICK n \in Percents :
            host = [db |-> TRUE, library |-> TRUE, helper |-> TRUE, spent |-> n,
                    signed |-> Status!Subscribed, copies |-> Copies,
                    report |-> [h \in Hosts |-> [up |-> "yes", trouble |-> "none"]]]
    BY DEF Status!StatusInit
  <1>4. [h \in Hosts |-> [up |-> "yes", trouble |-> "none"]] \in [Hosts -> Status!Reports]
    BY DEF Status!Reports
  <1>5. host \in Status!Worlds
    BY <1>3, <1>4 DEF Status!Worlds
  <1>6. DOMAIN told = Status!Parts /\ \A part \in Status!Parts : told[part] \in {{}, {host}}
    BY DEF Status!StatusInit
  <1>7. \A part \in Status!Parts : told[part] \subseteq Status!Worlds /\ \A v, w \in told[part] : v = w
    BY <1>5, <1>6
  <1> QED
    BY <1>2, <1>5, <1>6, <1>7 DEF Status!StatusInit, Status!StatusTypeOK

LEMMA StatusTypeStep ==
    ASSUME Status!StatusTypeOK, Status!StatusNext
    PROVE  Status!StatusTypeOK'
  <1> USE DEF Status!StatusTypeOK, Status!RequestsOK
  <1>1. Status!Act => acts' \in 0 .. MaxActs + 1
    BY RequestsAssumption DEF Status!Act
  <1>2. Status!Fault => faults' \in 0 .. MaxFaults
    BY RequestsAssumption DEF Status!Fault
  <1>3. UNCHANGED told => Status!Cards' = Status!Cards
    BY DEF Status!Cards
  <1>4. ASSUME NEW w \in Status!Worlds, Status!Turns(w) PROVE Status!StatusTypeOK'
    BY <1>2, <1>3, <1>4 DEF Status!Turns
  <1>5. CASE Status!HostTurns
    <2> USE DEF Status!Worlds
    <2>1. \A on \in BOOLEAN : /\ [host EXCEPT !.db = on] \in Status!Worlds
                              /\ [host EXCEPT !.library = on] \in Status!Worlds
                              /\ [host EXCEPT !.helper = on] \in Status!Worlds
      OBVIOUS
    <2>2. \A n \in Percents : [host EXCEPT !.spent = n] \in Status!Worlds
      OBVIOUS
    <2>3. \A some \in SUBSET Status!Subscribed : [host EXCEPT !.signed = some] \in Status!Worlds
      OBVIOUS
    <2>4. \A some \in SUBSET Copies : [host EXCEPT !.copies = some] \in Status!Worlds
      OBVIOUS
    <2>5. ASSUME NEW h \in Hosts, NEW report \in Status!Reports
          PROVE  [host EXCEPT !.report[h] = report] \in Status!Worlds
      <3>1. [host.report EXCEPT ![h] = report] \in [Hosts -> Status!Reports]
        OBVIOUS
      <3>2. [host EXCEPT !.report[h] = report] = [host EXCEPT !.report = [host.report EXCEPT ![h] = report]]
        OBVIOUS
      <3> QED
        BY <3>1, <3>2
    <2> HIDE DEF Status!Worlds, Status!StatusTypeOK
    <2>6. \E w \in Status!Worlds : Status!Turns(w)
      BY <1>5, <2>1, <2>2, <2>3, <2>4, <2>5 DEF Status!HostTurns
    <2> QED
      BY <1>4, <2>6
  <1>6. ASSUME NEW p \in Status!Parts, Status!OpenPanel(p) PROVE Status!StatusTypeOK'
    BY <1>1, <1>6 DEF Status!OpenPanel
  <1>7. CASE Status!HeaderButtons \/ Status!OpenSyncthing
    BY <1>6, <1>7 DEF Status!HeaderButtons, Status!OpenSyncthing, Status!Parts
  <1>8. CASE Status!ClosePanel
    BY <1>8 DEF Status!ClosePanel, Status!requestVars
  <1>9. ASSUME NEW part \in Status!Parts, NEW w \in Status!Worlds, told' = [told EXCEPT ![part] = {w}]
        PROVE  /\ DOMAIN told' = Status!Parts
               /\ \A p \in Status!Parts : told'[p] \subseteq Status!Worlds /\ \A v, u \in told'[p] : v = u
    BY <1>9
  <1>10. CASE Status!RefreshHealth
    <2>1. "health" \in Status!Parts /\ told' = [told EXCEPT !["health"] = {host}]
      BY <1>10 DEF Status!RefreshHealth, Status!Parts
    <2>2. /\ DOMAIN told' = Status!Parts
          /\ \A p \in Status!Parts : told'[p] \subseteq Status!Worlds /\ \A v, u \in told'[p] : v = u
      BY <1>9, <2>1
    <2> QED
      BY <1>10, <2>2 DEF Status!RefreshHealth, Status!requestVars
  <1>11. CASE Status!RefreshSyncthing
    <2>1. "syncthing" \in Status!Parts /\ told' = [told EXCEPT !["syncthing"] = {host}]
      BY <1>11 DEF Status!RefreshSyncthing, Status!Parts
    <2>2. /\ DOMAIN told' = Status!Parts
          /\ \A p \in Status!Parts : told'[p] \subseteq Status!Worlds /\ \A v, u \in told'[p] : v = u
      BY <1>9, <2>1
    <2>3. told'["syncthing"] = {host}
      BY <2>1
    <2>4. Status!Cards' = Hosts \cup host.copies
      BY <1>11, <2>3 DEF Status!Cards, Status!RefreshSyncthing
    <2> QED
      BY <1>11, <2>2, <2>4 DEF Status!RefreshSyncthing, Status!requestVars
  <1>12. CASE Status!RefreshUsage
    <2>1. PICK signed \in {host.signed} \cup {w.signed : w \in told.usage} :
              told' = [told EXCEPT !.usage = {[host EXCEPT !.signed = signed]}]
      BY <1>12 DEF Status!RefreshUsage
    <2>2. "usage" \in Status!Parts /\ told["usage"] \subseteq Status!Worlds
      BY DEF Status!Parts
    <2>3. signed \in SUBSET Status!Subscribed
      BY <2>2 DEF Status!Worlds
    <2>4. [host EXCEPT !.signed = signed] \in Status!Worlds
      BY <2>3 DEF Status!Worlds
    <2>5. /\ DOMAIN told' = Status!Parts
          /\ \A p \in Status!Parts : told'[p] \subseteq Status!Worlds /\ \A v, u \in told'[p] : v = u
      BY <1>9, <2>1, <2>2, <2>4
    <2> QED
      BY <1>12, <2>5 DEF Status!RefreshUsage, Status!requestVars
  <1>13. ASSUME NEW card \in Status!Cards, Status!Turn(card) PROVE Status!StatusTypeOK'
    BY <1>1, <1>3, <1>13 DEF Status!Turn
  <1>14. CASE Status!TurnDevice \/ Status!TurnConflict
    BY <1>13, <1>14 DEF Status!TurnDevice, Status!TurnConflict
  <1> QED
    BY <1>5, <1>7, <1>8, <1>10, <1>11, <1>12, <1>14 DEF Status!StatusNext

-----------------------------------------------------------------------------
LEMMA HealthLightTells ==
    Status!HealthLight <=> \E name \in {"service", "helper", "budget", "other"} :
                              \E e \in Status!Section(name, Status!Entries) : Status!EntryTone(e) = "pink"
  <1>1. \A e : Status!EntryTone(e) = "pink" <=> e.status \notin {"ok", "unknown"}
    BY DEF Status!EntryTone
  <1>2. ASSUME NEW e \in Status!Entries
        PROVE  \E name \in {"service", "helper", "budget", "other"} : e \in Status!Section(name, Status!Entries)
    <2>1. CASE e.id \in {"backend", "sqlite", "litellm"}
      BY <2>1 DEF Status!Section
    <2>2. CASE e.id = "helper-now"
      BY <2>2 DEF Status!Section
    <2>3. CASE e.id = "copilot-budget"
      BY <2>3 DEF Status!Section
    <2>4. CASE e.id \notin {"backend", "sqlite", "litellm", "helper-now", "copilot-budget"}
      BY <2>4 DEF Status!Section
    <2> QED
      BY <2>1, <2>2, <2>3, <2>4
  <1>3. \A name : Status!Section(name, Status!Entries) \subseteq Status!Entries
    BY DEF Status!Section
  <1> QED
    BY <1>1, <1>2, <1>3 DEF Status!HealthLight

\* Of a world: only the copilot's card has a bar, and its share is an alert.
LEMMA UsageAlertsTell ==
    ASSUME NEW w \in Status!Worlds
    PROVE  /\ Status!UsageAlerts(w) # {} <=>
                 \/ \E p \in Status!UsageCards(Status!Providers(w)) : \E n \in Status!Bar(p) : n >= 90
                 \/ \E s \in Status!Subscriptions(w) : Status!UsageTone(s.status) # "green"
           /\ Status!BudgetStatus(w) = "hard" => Status!UsageAlerts(w) # {}
  <1> DEFINE copilot == Status!Provider("copilot", TRUE, {w.spent}, Status!BudgetStatus(w))
  <1>1. w.spent \in Nat /\ Soft \in Nat /\ Hard \in Nat /\ Hard >= 90
    BY DeskAssumption DEF Status!StatusAssumption, Status!Worlds
  <1>2. /\ copilot \in Status!Providers(w) /\ copilot.wired = TRUE /\ copilot.percent = {w.spent}
        /\ copilot.provider = "copilot"
    BY DEF Status!Providers, Status!Provider
  <1>3. ASSUME NEW p \in Status!Providers(w) PROVE p = copilot \/ (p.wired = FALSE /\ p.percent = {})
    BY DEF Status!Providers, Status!Provider
  <1>4. ASSUME NEW s \in Status!Subscriptions(w)
        PROVE  s.status # "ok" <=> Status!UsageTone(s.status) # "green"
    BY DEF Status!Subscriptions, Status!UsageTone
  <1> HIDE DEF copilot
  <1>5. Status!Bar(copilot) = {IF w.spent > 100 THEN 100 ELSE w.spent}
    BY <1>2 DEF Status!Bar
  <1>6. (\E n \in Status!Bar(copilot) : n >= 90) <=> w.spent >= 90
    BY <1>1, <1>5
  <1>7. \A p \in Status!Providers(w) : p # copilot => Status!Bar(p) = {}
    BY <1>3 DEF Status!Bar
  <1>8. copilot \in Status!UsageCards(Status!Providers(w)) /\
        Status!UsageCards(Status!Providers(w)) \subseteq Status!Providers(w)
    BY <1>2 DEF Status!UsageCards
  <1>9. (\E p \in Status!UsageCards(Status!Providers(w)) : \E n \in Status!Bar(p) : n >= 90) <=> w.spent >= 90
    BY <1>6, <1>7, <1>8
  <1>10. (\E p \in Status!Providers(w) : p.wired /\ \E n \in p.percent : n >= 90) <=> w.spent >= 90
    BY <1>1, <1>2, <1>3
  <1>11. Status!UsageAlerts(w) # {} <=>
            \/ \E p \in Status!Providers(w) : p.wired /\ \E n \in p.percent : n >= 90
            \/ \E s \in Status!Subscriptions(w) : s.status # "ok"
    BY DEF Status!UsageAlerts
  <1>12. Status!BudgetStatus(w) = "hard" => w.spent >= 90
    BY <1>1 DEF Status!BudgetStatus
  <1> QED
    BY <1>4, <1>9, <1>10, <1>11, <1>12

LEMMA ErroredFoldersTell ==
    ASSUME NEW w \in Status!Worlds, NEW h \in Status!ErroredFolders(w)
    PROVE  /\ h \in CardHosts => Status!SummaryCard(w)[h] # "green"
           /\ Status!FolderTone(w.report[h]) = "pink"
  BY DEF Status!ErroredFolders, Status!SummaryCard, Status!DeviceTone, Status!DeviceStatus,
         Status!FolderTone, Status!Worlds, Status!Reports

LEMMA StatusHolds ==
    ASSUME Status!StatusTypeOK
    PROVE  Status!LightsTellOfPanels
  <1>1. told.usage \subseteq Status!Worlds /\ told.syncthing \subseteq Status!Worlds
    BY DEF Status!StatusTypeOK, Status!Parts
  <1>2. Status!UsageLight <=> \E w \in told.usage :
                \/ \E p \in Status!UsageCards(Status!Providers(w)) : \E n \in Status!Bar(p) : n >= 90
                \/ \E s \in Status!Subscriptions(w) : Status!UsageTone(s.status) # "green"
    BY <1>1, UsageAlertsTell DEF Status!UsageLight
  <1>3. \A w \in told.usage : Status!BudgetStatus(w) = "hard" => Status!UsageLight
    BY <1>1, UsageAlertsTell DEF Status!UsageLight
  <1>4. \A w \in told.syncthing : \A h \in Status!ErroredFolders(w) :
          /\ h \in CardHosts => Status!SummaryCard(w)[h] # "green"
          /\ Status!FolderTone(w.report[h]) = "pink"
    BY <1>1, ErroredFoldersTell
  <1> QED
    BY <1>2, <1>3, <1>4, HealthLightTells DEF Status!LightsTellOfPanels
=============================================================================
