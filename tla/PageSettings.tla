---------------------------- MODULE PageSettings ----------------------------
(***************************************************************************)
(* The settings a page shows: those of the backend, the two context files  *)
(* and the model of the active conversation, with the handlers of          *)
(* useDelamainBackend that edit them, the effect of ChatLayout that loads  *)
(* the files, SettingsPanel and ContextEditor.  A value is a number; a     *)
(* conversation without a model of its own has NoModel.                    *)
(***************************************************************************)
EXTENDS PageRequests

CONSTANTS
    Chats, NoChat,
    Switches,   \* title generation, the hard override, the context mode, each tool
    Texts       \* system context and short-term continuity, which are files

Choices == {"default", "task"}      \* models
Columns == Switches \cup Choices \cup Texts

SettingsAssumption ==
    /\ NoChat \notin Chats
    /\ Switches \cap Texts = {} /\ Choices \cap (Switches \cup Texts) = {}
    /\ Chats \cap Columns = {}

NoModel == 0

VARIABLES
    setting,    \* state.defaultModel, titleGeneration, systemContext ...
    saved,      \* the same in the backend
    own,        \* the model and the lock of each conversation of the page
    kept,       \* the same in the backend
    present,    \* the conversations of the page
    current,    \* state.activeConversationId
    model,      \* state.model
    linked,     \* state.connection is "connected"
    files,      \* the context files: "unread", "out", "read", "dropped"
    draft,      \* what a panel opened on a text would save; NoModel when closed
    unsure,     \* history: what is shown need not be what is saved
    adrift      \* history: model was not taken from current

settingsVars == <<requestVars, setting, saved, own, kept, present, current, model, linked,
                  files, draft, unsure, adrift>>

Own == [Chats -> [model: Nat, unlocked: BOOLEAN]]
Changes ==
    [id: 1 .. MaxActs, step: {"out", "back"}, op: {"set", "model", "slash", "lock", "summary"},
     on: Columns \cup Chats, to: Nat, was: Nat]
Change(op, on, to, was) ==
    [id |-> acts + 1, step |-> "out", op |-> op, on |-> on, to |-> to, was |-> was]

SettingsTypeOK ==
    /\ RequestsOK(Changes)
    /\ setting \in [Columns -> Nat] /\ saved \in [Columns -> Nat]
    /\ own \in Own /\ kept \in Own
    /\ present \subseteq Chats /\ current \in Chats \cup {NoChat}
    /\ model \in Nat
    /\ linked \in BOOLEAN /\ files \in {"unread", "out", "read", "dropped"}
    /\ draft \in [Texts -> Nat]
    /\ unsure \subseteq Columns \cup Chats /\ adrift \in BOOLEAN

Sample == 2     \* what systemContext is before it is read
First == 1      \* any other first value
New == acts + 3 \* a value nobody has chosen before

SettingsInit ==
    /\ RequestsInit
    /\ saved = [s \in Columns |-> First]
    /\ setting = [s \in Columns |-> IF s \in Texts THEN Sample ELSE First]
    /\ kept = [c \in Chats |-> [model |-> NoModel, unlocked |-> FALSE]] /\ own = kept
    /\ present \in SUBSET Chats \ {{}} /\ current \in present
    /\ model = First /\ linked = TRUE /\ files = "unread"
    /\ draft = [t \in Texts |-> NoModel]
    /\ unsure = {} /\ adrift = FALSE

Shares(k) == \E j \in calls \ {k} : j.on = k.on

-----------------------------------------------------------------------------
(* Settings. *)

\* Shown at once; sent when there is a connection.  The load of a new one reads all but texts.
Set(s, v) ==
    /\ setting' = [setting EXCEPT ![s] = v]
    /\ Ask(IF linked THEN {Change("set", s, v, setting[s])} ELSE {})
    /\ unsure' = IF s \in Texts /\ (~linked \/ files # "read")
                 THEN unsure \cup {s} ELSE unsure

\* handleToggleTool, handleToggleTitleGeneration, handleSetContextMode ...
Toggle(s) ==
    /\ s \in Switches
    /\ Act
    /\ Set(s, 1 - setting[s])
    /\ UNCHANGED <<faults, saved, own, kept, present, current, model, linked, files, draft, adrift>>

\* handleChangeDefaultModel, handleChangeTaskModel: the model shown stays.
Choose(s) ==
    /\ s \in Choices
    /\ Act
    /\ Set(s, New)
    /\ adrift' = (adrift \/ s = "default")
    /\ UNCHANGED <<faults, saved, own, kept, present, current, model, linked, files, draft>>

\* SettingsPanel takes its drafts when it opens, ContextEditor when a file is clicked.
OpenText(t) ==
    /\ t \in Texts
    /\ draft[t] = NoModel
    /\ draft' = [draft EXCEPT ![t] = setting[t]]
    /\ UNCHANGED <<requestVars, setting, saved, own, kept, present, current, model, linked, files,
                   unsure, adrift>>

\* What the editor may hold: what was typed, or the text as it was when it opened.
Drafts(t) == {New, draft[t]}

SaveText(t) ==
    /\ t \in Texts
    /\ draft[t] # NoModel
    /\ Act
    /\ \E v \in Drafts(t) : Set(t, v)
    /\ draft' = [draft EXCEPT ![t] = NoModel]
    /\ UNCHANGED <<faults, saved, own, kept, present, current, model, linked, files, adrift>>

\* Escape, a click beside the editor, its cross: what was typed is lost.
CloseText(t) ==
    /\ t \in Texts
    /\ draft[t] # NoModel
    /\ draft' = [draft EXCEPT ![t] = NoModel]
    /\ UNCHANGED <<requestVars, setting, saved, own, kept, present, current, model, linked, files,
                   unsure, adrift>>

\* patch_settings, patch_tool, patch_context_file.
TakeSetting(k) ==
    /\ k.op = "set" /\ k.step = "out"
    /\ saved' = [saved EXCEPT ![k.on] = k.to]
    /\ Becomes(k, [k EXCEPT !.step = "back"])
    /\ unsure' = IF \E j \in calls : j.on = k.on /\ j.step = "out" /\ j.id < k.id
                 THEN unsure \cup {k.on} ELSE unsure
    /\ UNCHANGED <<acts, faults, setting, own, kept, present, current, model, linked, files, draft,
                   adrift>>

SettingAnswered(k) ==
    /\ k.op = "set" /\ k.step = "back"
    /\ Ends(k)
    /\ UNCHANGED <<acts, faults, setting, saved, own, kept, present, current, model, linked, files,
                   draft, unsure, adrift>>

\* Mutant: what was shown before is not shown again.
LoseSettingKeeping(k) ==
    /\ k.op = "set"
    /\ Fault
    /\ Ends(k)
    /\ unsure' = IF k.step = "back" \/ Shares(k) THEN unsure \cup {k.on} ELSE unsure
    /\ adrift' = (adrift \/ k.on = "default")
    /\ UNCHANGED <<acts, setting, saved, own, kept, present, current, model, linked, files, draft>>

\* An error takes the value back to that of the render of the click, whatever came since.
LoseSetting(k) ==
    /\ k.op = "set"
    /\ Fault
    /\ setting' = [setting EXCEPT ![k.on] = k.was]
    /\ Ends(k)
    /\ unsure' = IF k.step = "back" \/ Shares(k) THEN unsure \cup {k.on} ELSE unsure
    /\ adrift' = (adrift \/ k.on = "default")
    /\ UNCHANGED <<acts, saved, own, kept, present, current, model, linked, files, draft>>

-----------------------------------------------------------------------------
(* The context files, and the connection. *)

\* The effect runs once for the page; a connection lost meanwhile cancels it for good.
ReadFiles ==
    /\ linked
    /\ \/ files = "unread" /\ files' = "out" /\ UNCHANGED setting
       \/ /\ files = "out" /\ files' = "read"
          /\ setting' = [s \in Columns |-> IF s \in Texts THEN saved[s] ELSE setting[s]]
    /\ UNCHANGED <<requestVars, saved, own, kept, present, current, model, linked, draft, unsure,
                   adrift>>

DropConnection ==
    /\ linked
    /\ Fault
    /\ linked' = FALSE
    /\ files' = IF files = "out" THEN "dropped" ELSE files
    /\ unsure' = unsure \cup {k.on : k \in calls}
    /\ UNCHANGED <<calls, acts, setting, saved, own, kept, present, current, model, draft, adrift>>

\* The load of a new connection: all settings but the files, all conversations, the first of them.
Reconnect ==
    /\ ~linked
    /\ linked' = TRUE
    /\ setting' = [s \in Columns |-> IF s \in Texts THEN setting[s] ELSE saved[s]]
    /\ own' = kept
    /\ \E c \in present : /\ current' = c
                          /\ model' = IF kept[c].model = NoModel THEN saved["default"]
                                      ELSE kept[c].model
    /\ adrift' = FALSE
    /\ UNCHANGED <<requestVars, saved, kept, present, files, draft, unsure>>

-----------------------------------------------------------------------------
(* The conversations. *)

\* handleSelectConversation.
ModelOf(c) == IF own[c].model = NoModel THEN setting["default"] ELSE own[c].model

\* Mutant: the model of the conversation left stays when the one entered has none.
SelectChatKeeping(c) ==
    /\ c \in present \ {current}
    /\ current' = c
    /\ model' = IF own[c].model = NoModel THEN model ELSE own[c].model
    /\ adrift' = FALSE
    /\ UNCHANGED <<requestVars, setting, saved, own, kept, present, linked, files, draft, unsure>>

SelectChat(c) ==
    /\ c \in present \ {current}
    /\ current' = c
    /\ model' = ModelOf(c)
    /\ adrift' = FALSE
    /\ UNCHANGED <<requestVars, setting, saved, own, kept, present, linked, files, draft, unsure>>

\* handleChangeModel, and /model and /escalate, which take nothing back.
ChangeModel(op) ==
    /\ current # NoChat
    /\ Act
    /\ model' = New
    /\ own' = [own EXCEPT ![current].model = New]
    /\ Ask(IF linked THEN {Change(op, current, New, model)} ELSE {})
    /\ adrift' = FALSE
    /\ UNCHANGED <<faults, setting, saved, kept, present, current, linked, files, draft, unsure>>

\* update_conversation.
TakeModel(k) ==
    /\ k.op \in {"model", "slash"} /\ k.step = "out"
    /\ kept' = [kept EXCEPT ![k.on].model = k.to]
    /\ Becomes(k, [k EXCEPT !.step = "back"])
    /\ unsure' = IF \E j \in calls : j.on = k.on /\ j.step = "out" /\ j.id < k.id
                 THEN unsure \cup {k.on} ELSE unsure
    /\ UNCHANGED <<acts, faults, setting, saved, own, present, current, model, linked, files, draft,
                   adrift>>

ModelAnswered(k) ==
    /\ k.op \in {"model", "slash"} /\ k.step = "back"
    /\ Ends(k)
    /\ UNCHANGED <<acts, faults, setting, saved, own, kept, present, current, model, linked, files,
                   draft, unsure, adrift>>

\* An error shows the model of the click again, whichever conversation is active by now.
LoseModel(k) ==
    /\ k.op \in {"model", "slash"}
    /\ Fault
    /\ Ends(k)
    /\ IF k.op = "model"
       THEN /\ model' = k.was
            /\ own' = [own EXCEPT ![k.on].model = k.was]
            /\ adrift' = (adrift \/ current # k.on)
            /\ unsure' = IF kept[k.on].model # k.was \/ Shares(k)
                         THEN unsure \cup {k.on} ELSE unsure
       ELSE /\ unsure' = unsure \cup {k.on}
            /\ UNCHANGED <<model, own, adrift>>
    /\ UNCHANGED <<acts, setting, saved, kept, present, current, linked, files, draft>>

\* The badge: an effect takes it from the active conversation, whatever an answer has set.
BadgeUnlocked == own[current].unlocked

\* Sent, and shown with the answer; off line at once.
AskLock(unlocked) ==
    /\ current # NoChat
    /\ Act
    /\ IF linked
       THEN /\ Ask({Change("lock", current, IF unlocked THEN 1 ELSE 0, 0)})
            /\ UNCHANGED own
       ELSE /\ own' = [own EXCEPT ![current].unlocked = unlocked]
            /\ UNCHANGED calls
    /\ UNCHANGED <<faults, setting, saved, kept, present, current, model, linked, files, draft,
                   unsure, adrift>>

\* toggleSensitive.
UnlockSensitive == ~BadgeUnlocked /\ AskLock(TRUE)
LockSensitive == BadgeUnlocked /\ AskLock(FALSE)

TakeLock(k) ==
    /\ k.op = "lock" /\ k.step = "out"
    /\ kept' = [kept EXCEPT ![k.on].unlocked = (k.to = 1)]
    /\ Becomes(k, [k EXCEPT !.step = "back"])
    /\ unsure' = IF Shares(k) THEN unsure \cup {k.on} ELSE unsure
    /\ UNCHANGED <<acts, faults, setting, saved, own, present, current, model, linked, files, draft,
                   adrift>>

LockAnswered(k) ==
    /\ k.op = "lock" /\ k.step = "back"
    /\ own' = [own EXCEPT ![k.on].unlocked = (k.to = 1)]
    /\ Ends(k)
    /\ UNCHANGED <<acts, faults, setting, saved, kept, present, current, model, linked, files,
                   draft, unsure, adrift>>

LoseLock(k) ==
    /\ k.op \in {"lock", "summary"}
    /\ Fault
    /\ Ends(k)
    /\ unsure' = IF k.step = "back" THEN unsure \cup {k.on} ELSE unsure
    /\ UNCHANGED <<acts, setting, saved, own, kept, present, current, model, linked, files, draft,
                   adrift>>

\* handleDeleteConversation: the first of the others is active, with the model of the one deleted.
DeleteChat(c) ==
    /\ c \in present /\ present # {c}
    /\ Act
    /\ present' = present \ {c}
    /\ IF c = current THEN current' \in present' /\ adrift' = TRUE ELSE UNCHANGED <<current, adrift>>
    /\ UNCHANGED <<calls, faults, setting, saved, own, kept, model, linked, files, draft, unsure>>

\* handleSummarizeWorker: a conversation of the task model becomes active; the model shown stays.
Summarize(c) ==
    /\ linked
    /\ c \notin present /\ kept[c].model = NoModel /\ \A k \in calls : k.on # c
    /\ Act
    /\ Ask({Change("summary", c, setting["task"], 0)})
    /\ UNCHANGED <<faults, setting, saved, own, kept, present, current, model, linked, files, draft,
                   unsure, adrift>>

TakeSummary(k) ==
    /\ k.op = "summary" /\ k.step = "out"
    /\ kept' = [kept EXCEPT ![k.on].model = k.to]
    /\ Becomes(k, [k EXCEPT !.step = "back"])
    /\ UNCHANGED <<acts, faults, setting, saved, own, present, current, model, linked, files, draft,
                   unsure, adrift>>

SummaryAnswered(k) ==
    /\ k.op = "summary" /\ k.step = "back"
    /\ Ends(k)
    /\ present' = present \cup {k.on} /\ current' = k.on
    /\ own' = [own EXCEPT ![k.on].model = k.to]
    /\ adrift' = TRUE
    /\ UNCHANGED <<acts, faults, setting, saved, kept, model, linked, files, draft, unsure>>

SettingsNext ==
    \/ \E s \in Columns : Toggle(s) \/ Choose(s) \/ OpenText(s) \/ SaveText(s) \/ CloseText(s)
    \/ \E c \in Chats : SelectChat(c) \/ DeleteChat(c) \/ Summarize(c)
    \/ \E op \in {"model", "slash"} : ChangeModel(op)
    \/ UnlockSensitive \/ LockSensitive
    \/ \E k \in calls :
          \/ TakeSetting(k) \/ SettingAnswered(k) \/ LoseSetting(k)
          \/ TakeModel(k) \/ ModelAnswered(k) \/ LoseModel(k)
          \/ TakeLock(k) \/ LockAnswered(k) \/ LoseLock(k)
          \/ TakeSummary(k) \/ SummaryAnswered(k)
    \/ ReadFiles \/ DropConnection \/ Reconnect

SettingsSpec == SettingsInit /\ [][SettingsNext]_settingsVars

-----------------------------------------------------------------------------
(* Properties. *)

(***************************************************************************)
(* When all requests have ended a page on line shows what is saved: an     *)
(* edit that failed is taken back and one that succeeded stays, over every *)
(* order of edits, answers and reconnections.  Not so, by the code, after  *)
(* edits of one thing that crossed each other, an answer lost, a command   *)
(* that failed, or a connection lost under a request; and a context file   *)
(* must have been read.                                                    *)
(***************************************************************************)
SettingsAgree ==
    (calls = {} /\ linked) =>
        /\ \A s \in Columns \ unsure :
              (s \in Texts => files = "read") => setting[s] = saved[s]
        /\ \A c \in present \ unsure : own[c] = kept[c]

(***************************************************************************)
(* The model shown, which prompts are sent with, is that of the active     *)
(* conversation: over switches, edits and answers in any order, unless a   *)
(* conversation was deleted or made for a summary, the default changed, or *)
(* an edit failed after a switch, since the last switch.                   *)
(***************************************************************************)
ModelIsOfCurrent ==
    (current # NoChat /\ ~adrift) => model = ModelOf(current)
=============================================================================
