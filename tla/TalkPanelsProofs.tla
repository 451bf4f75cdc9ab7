------------------------- MODULE TalkPanelsProofs --------------------------
(***************************************************************************)
(* The inductive invariants of the panels beside the conversation: the     *)
(* composer with its context tray, and the sidebar.  Each has a lemma for  *)
(* the initial states, one for the steps, and one for what it implies.     *)
(***************************************************************************)
EXTENDS Desk, TLAPS

-----------------------------------------------------------------------------
(***************************************************************************)
(* The composer.                                                           *)
(***************************************************************************)

\* Only notes are pinned; the context ups are what a preview lists.
PinsNameNotes == \A k \in calls : k.op = "pin" => k.paths \subseteq Pinnable

Trays == [Input!ContextPaths -> {"pinned", "suggested", "no"}]

-----------------------------------------------------------------------------
(* Types. *)

LEMMA TrayTypes ==
    ASSUME tray \in Trays
    PROVE  /\ \A paths : Input!Tray(paths) \in Trays
           /\ \A notes : Input!Suggest(notes) \in Trays
           /\ \A p : [tray EXCEPT ![p] = "pinned"] \in Trays /\ [tray EXCEPT ![p] = "no"] \in Trays
           /\ Input!Pinned \in SUBSET Input!ContextPaths
  BY DEF Trays, Input!Tray, Input!Suggest, Input!Pinned

LEMMA ErrandTypes ==
    ASSUME Input!ComposerTypeOK, Input!Act
    PROVE  /\ acts' \in 0 .. (MaxActs + 1)
           /\ \A c \in Talks : Input!Pass(acts + 1, c) \in Input!Errands
           /\ \A op \in {"pin", "unpin", "draft", "upload", "prompt"}, c \in Talks,
                 paths \in SUBSET Input!ContextPaths, ups \in SUBSET Attachable :
                    Input!Errand(op, c, paths, ups) \in Input!Errands
  <1>1. acts + 1 \in 0 .. (MaxActs + 1) /\ acts + 1 \in 1 .. (MaxActs + 1)
    BY RequestsAssumption DEF Input!ComposerTypeOK, Input!RequestsOK, Input!Act
  <1>2. {} \in SUBSET Input!ContextPaths /\ {} \in SUBSET Attachable
    OBVIOUS
  <1>3. acts' \in 0 .. (MaxActs + 1)
    BY <1>1 DEF Input!Act
  <1>4. \A c \in Talks : Input!Pass(acts + 1, c) \in Input!Errands
    BY <1>1, <1>2 DEF Input!Pass, Input!Errands
  <1>5. \A op \in {"pin", "unpin", "draft", "upload", "prompt"}, c \in Talks,
           paths \in SUBSET Input!ContextPaths, ups \in SUBSET Attachable :
              Input!Errand(op, c, paths, ups) \in Input!Errands
    BY <1>1 DEF Input!Errand, Input!Errands
  <1> QED
    BY <1>3, <1>4, <1>5

LEMMA ComposerTypeInit ==
    ASSUME Input!ComposerInit
    PROVE  Input!ComposerTypeOK
  <1>1. Input!RequestsOK(Input!Errands)
    BY RequestsAssumption DEF Input!ComposerInit, Input!RequestsInit, Input!RequestsOK
  <1>2. tray \in Trays
    BY DEF Input!ComposerInit, Input!Tray, Trays
  <1>3. pins \in [Talks -> SUBSET Pinnable] /\ wished \in [Talks -> SUBSET Pinnable]
    BY DEF Input!ComposerInit
  <1>4. /\ attached \in [Attachable -> {"uploading", "ready", "out", "failed", "no"}]
        /\ carried \in [Attachable -> Nat]
    BY DEF Input!ComposerInit
  <1>5. talk \in Talks /\ joined \in BOOLEAN /\ stale \subseteq Talks /\ waived \subseteq Attachable
    BY DEF Input!ComposerInit
  <1> QED
    BY <1>1, <1>2, <1>3, <1>4, <1>5 DEF Input!ComposerTypeOK, Trays

\* What the user does to the tray and the conversations.
LEMMA TypeOfTrayClicks ==
    ASSUME Input!ComposerTypeOK,
           \/ \E c \in Talks : Input!SelectTalk(c) \/ Input!Rejoin(c)
           \/ \E n \in Pinnable : Input!Pin(n)
           \/ \E p \in Input!ContextPaths : Input!Unpin(p)
           \/ Input!TypeDraft \/ Input!Leave
    PROVE  Input!ComposerTypeOK'
  <1>1. /\ Input!Act => acts' \in 0 .. (MaxActs + 1)
        /\ Input!Act => \A c \in Talks : Input!Pass(acts + 1, c) \in Input!Errands
        /\ Input!Act => \A op \in {"pin", "unpin", "draft", "upload", "prompt"}, c \in Talks,
                     paths \in SUBSET Input!ContextPaths, ups \in SUBSET Attachable :
                        Input!Errand(op, c, paths, ups) \in Input!Errands
    BY ErrandTypes
  <1> USE DEF Input!ComposerTypeOK, Input!RequestsOK
  <1>2. /\ \A paths : Input!Tray(paths) \in Trays
        /\ \A notes : Input!Suggest(notes) \in Trays
        /\ \A p : [tray EXCEPT ![p] = "pinned"] \in Trays /\ [tray EXCEPT ![p] = "no"] \in Trays
    BY TrayTypes DEF Trays
  <1>3. \A p \in Input!ContextPaths : {p} \in SUBSET Input!ContextPaths
    OBVIOUS
  <1>4. {} \in SUBSET Input!ContextPaths /\ {} \in SUBSET Attachable /\ Pinnable \subseteq Input!ContextPaths
    BY DEF Input!ContextPaths
  <1>5. ASSUME NEW c \in Talks, Input!SelectTalk(c) PROVE Input!ComposerTypeOK'
    <2>1. tray' \in Trays
      BY <1>2, <1>5 DEF Input!SelectTalk
    <2> QED
      BY <1>1, <1>5, <2>1 DEF Input!SelectTalk, Input!Ask, Trays
  <1>6. ASSUME NEW c \in Talks, Input!Rejoin(c) PROVE Input!ComposerTypeOK'
    <2>1. tray' \in Trays
      BY <1>2, <1>6 DEF Input!Rejoin
    <2> QED
      BY <1>1, <1>6, <2>1 DEF Input!Rejoin, Input!Ask, Trays
  <1>7. ASSUME NEW n \in Pinnable, Input!Pin(n) PROVE Input!ComposerTypeOK'
    <2>1. tray' \in Trays
      BY <1>2, <1>7 DEF Input!Pin
    <2>2. Input!Act /\ Input!Ask(IF joined THEN {Input!Errand("pin", talk, {n}, {})} ELSE {})
      BY <1>7 DEF Input!Pin
    <2>3. acts' \in 0 .. (MaxActs + 1) /\ calls' \subseteq Input!Errands
      BY <1>1, <1>3, <1>4, <2>2 DEF Input!Ask
    <2>4. wished' \in [Talks -> SUBSET Pinnable]
      BY <1>7 DEF Input!Pin
    <2> QED
      BY <1>7, <2>1, <2>3, <2>4 DEF Input!Pin, Trays
  <1>8. ASSUME NEW p \in Input!ContextPaths, Input!Unpin(p) PROVE Input!ComposerTypeOK'
    <2>1. tray' \in Trays
      BY <1>2, <1>8 DEF Input!Unpin
    <2>2. Input!Act /\ Input!Ask(IF joined THEN {Input!Errand("unpin", talk, {p}, {})} ELSE {})
      BY <1>8 DEF Input!Unpin
    <2>3. acts' \in 0 .. (MaxActs + 1) /\ calls' \subseteq Input!Errands
      BY <1>1, <1>3, <1>4, <2>2 DEF Input!Ask
    <2> QED
      BY <1>8, <2>1, <2>3 DEF Input!Unpin, Trays
  <1>9. CASE Input!TypeDraft
    <2>1. tray' \in Trays
      BY <1>2, <1>9 DEF Input!TypeDraft, Trays
    <2>2. calls' \subseteq Input!Errands
      BY <1>1, <1>4, <1>9 DEF Input!TypeDraft, Input!Ask
    <2> QED
      BY <1>1, <1>9, <2>1, <2>2 DEF Input!TypeDraft, Trays
  <1>10. CASE Input!Leave
    <2>1. tray' \in Trays /\ faults' \in 0 .. MaxFaults
      BY <1>2, <1>10, RequestsAssumption DEF Input!Leave, Input!Fault
    <2> QED
      BY <1>10, <2>1 DEF Input!Leave, Trays
  <1> QED
    BY <1>5, <1>6, <1>7, <1>8, <1>9, <1>10

\* What the user does to the input.
LEMMA TypeOfInputClicks ==
    ASSUME Input!ComposerTypeOK,
           Input!SendPrompt \/ \E u \in Attachable : Input!Attach(u) \/ Input!Detach(u) \/ Input!ToggleInclude(u)
    PROVE  Input!ComposerTypeOK'
  <1>1. /\ Input!Act => acts' \in 0 .. (MaxActs + 1)
        /\ Input!Act => \A op \in {"pin", "unpin", "draft", "upload", "prompt"}, c \in Talks,
                     paths \in SUBSET Input!ContextPaths, ups \in SUBSET Attachable :
                        Input!Errand(op, c, paths, ups) \in Input!Errands
    BY ErrandTypes
  <1> USE DEF Input!ComposerTypeOK, Input!RequestsOK
  <1>2. Input!Pinned \in SUBSET Input!ContextPaths /\ {} \in SUBSET Input!ContextPaths
    BY TrayTypes DEF Trays
  <1>3. Input!Ready \in SUBSET Attachable /\ Input!Out \in SUBSET Attachable
    BY DEF Input!Ready, Input!Out
  <1>4. CASE Input!SendPrompt
    BY <1>1, <1>2, <1>3, <1>4 DEF Input!SendPrompt, Input!Ask
  <1>5. ASSUME NEW u \in Attachable, Input!Attach(u) PROVE Input!ComposerTypeOK'
    <2>1. attached' \in [Attachable -> {"uploading", "ready", "out", "failed", "no"}]
      BY <1>5 DEF Input!Attach
    <2>2. Input!Act /\ Input!Ask({Input!Errand("upload", talk, {}, {u})})
      BY <1>5 DEF Input!Attach
    <2>3. {u} \in SUBSET Attachable
      OBVIOUS
    <2>4. acts' \in 0 .. (MaxActs + 1) /\ calls' \subseteq Input!Errands
      BY <1>1, <1>2, <2>2, <2>3 DEF Input!Ask
    <2> QED
      BY <1>5, <2>1, <2>4 DEF Input!Attach
  <1>6. ASSUME NEW u \in Attachable, Input!Detach(u) PROVE Input!ComposerTypeOK'
    BY <1>6 DEF Input!Detach, Input!requestVars
  <1>7. ASSUME NEW u \in Attachable, Input!ToggleInclude(u) PROVE Input!ComposerTypeOK'
    BY <1>7 DEF Input!ToggleInclude, Input!requestVars
  <1> QED
    BY <1>4, <1>5, <1>6, <1>7

\* What becomes of the requests.
LEMMA TypeOfAnswers ==
    ASSUME Input!ComposerTypeOK, PinsNameNotes, NEW k \in calls,
           \/ Input!ReadPins(k) \/ Input!PinsAnswered(k) \/ Input!PreviewAnswered(k) \/ Input!LosePass(k)
           \/ Input!TakePin(k) \/ Input!PinAnswered(k) \/ Input!LosePin(k)
           \/ Input!SuggestionsAnswered(k) \/ Input!UploadEnds(k)
           \/ Input!TakePrompt(k) \/ Input!PromptAnswered(k) \/ Input!LosePrompt(k)
    PROVE  Input!ComposerTypeOK'
  <1> USE DEF Input!ComposerTypeOK, Input!RequestsOK
  <1>1. /\ \A paths : Input!Tray(paths) \in Trays
        /\ \A notes : Input!Suggest(notes) \in Trays
        /\ tray \in Trays
    BY TrayTypes DEF Trays
  <1>2. k \in Input!Errands /\ k.on \in Talks /\ k.files \subseteq Attachable /\ k.paths \subseteq Input!ContextPaths
    BY DEF Input!Errands
  <1>3. \A step \in {"out", "back", "preview"} : [k EXCEPT !.step = step] \in Input!Errands
    BY <1>2 DEF Input!Errands
  <1>4. Input!Fault \/ UNCHANGED faults => faults' \in 0 .. MaxFaults
    BY RequestsAssumption DEF Input!Fault
  <1>5. CASE Input!ReadPins(k)
    <2>1. pins[k.on] \in SUBSET Input!ContextPaths
      BY <1>2 DEF Input!ContextPaths
    <2>2. [k EXCEPT !.step = "back", !.paths = pins[k.on]] \in Input!Errands
      BY <1>2, <2>1 DEF Input!Errands
    <2> QED
      BY <1>5, <2>2 DEF Input!ReadPins, Input!Becomes
  <1>6. CASE Input!PinsAnswered(k)
    <2>1. calls' \subseteq Input!Errands
      BY <1>3, <1>6 DEF Input!PinsAnswered, Input!Becomes, Input!Ends
    <2>2. tray' \in Trays
      BY <1>1, <1>6 DEF Input!PinsAnswered
    <2> QED
      BY <1>6, <2>1, <2>2 DEF Input!PinsAnswered, Trays
  <1>7. CASE Input!PreviewAnswered(k)
    <2>1. tray' \in Trays
      BY <1>1, <1>7 DEF Input!PreviewAnswered
    <2> QED
      BY <1>7, <2>1 DEF Input!PreviewAnswered, Input!Ends, Trays
  <1>8. CASE Input!LosePass(k)
    <2>1. tray' \in Trays
      BY <1>1, <1>8 DEF Input!LosePass
    <2>2. faults' \in 0 .. MaxFaults
      BY <1>4, <1>8 DEF Input!LosePass
    <2> QED
      BY <1>2, <1>8, <2>1, <2>2 DEF Input!LosePass, Input!Ends, Trays
  <1>9. CASE Input!TakePin(k)
    <2>1. k.op = "pin" => k.paths \subseteq Pinnable
      BY DEF PinsNameNotes
    <2>2. pins' \in [Talks -> SUBSET Pinnable]
      BY <1>2, <1>9, <2>1 DEF Input!TakePin
    <2> QED
      BY <1>2, <1>3, <1>9, <2>2 DEF Input!TakePin, Input!Becomes
  <1>10. CASE Input!PinAnswered(k)
    <2>1. Input!Pass(k.id, k.on) \in Input!Errands
      BY <1>2 DEF Input!Pass, Input!Errands
    <2> QED
      BY <1>10, <2>1 DEF Input!PinAnswered, Input!Becomes
  <1>11. CASE Input!LosePin(k)
    BY <1>2, <1>4, <1>11 DEF Input!LosePin, Input!Ends
  <1>12. CASE Input!SuggestionsAnswered(k)
    <2>1. tray' \in Trays
      BY <1>1, <1>12 DEF Input!SuggestionsAnswered
    <2> QED
      BY <1>12, <2>1 DEF Input!SuggestionsAnswered, Input!Ends, Trays
  <1>13. CASE Input!UploadEnds(k)
    <2>1. /\ attached' \in [Attachable -> {"uploading", "ready", "out", "failed", "no"}]
          /\ Input!Fault \/ UNCHANGED faults
      BY <1>13 DEF Input!UploadEnds
    <2> QED
      BY <1>4, <1>13, <2>1 DEF Input!UploadEnds, Input!Ends
  <1>14. CASE Input!TakePrompt(k)
    <2>1. carried' \in [Attachable -> Nat]
      BY <1>14 DEF Input!TakePrompt
    <2> QED
      BY <1>3, <1>14, <2>1 DEF Input!TakePrompt, Input!Becomes
  <1>15. CASE Input!PromptAnswered(k)
    BY <1>15 DEF Input!PromptAnswered, Input!Ends
  <1>16. CASE Input!LosePrompt(k)
    BY <1>2, <1>4, <1>16 DEF Input!LosePrompt, Input!Ends
  <1> QED
    BY <1>5, <1>6, <1>7, <1>8, <1>9, <1>10, <1>11, <1>12, <1>13, <1>14, <1>15, <1>16

LEMMA ComposerTypeStep ==
    ASSUME Input!ComposerTypeOK, PinsNameNotes, [Input!ComposerNext]_(Input!composerVars)
    PROVE  Input!ComposerTypeOK'
  <1>1. CASE Input!ComposerNext
    BY <1>1, TypeOfTrayClicks, TypeOfInputClicks, TypeOfAnswers DEF Input!ComposerNext
  <1>2. CASE UNCHANGED Input!composerVars
    BY <1>2 DEF Input!composerVars, Input!requestVars, Input!ComposerTypeOK, Input!RequestsOK
  <1> QED
    BY <1>1, <1>2

-----------------------------------------------------------------------------
(* A note goes nowhere but where it was wished: from the tray to a request *)
(* for the same conversation, to its pins, to the pass that reads them,    *)
(* and to the tray if the conversation is still the active one.            *)

TrayIsWished == Input!Pinned \cap Pinnable \subseteq wished[talk]
PinsAreWished == \A c \in Talks : pins[c] \subseteq wished[c]
RequestsAreWished ==
    \A k \in calls : k.op \in {"refresh", "pin", "prompt"} => k.paths \cap Pinnable \subseteq wished[k.on]

Wished == PinsNameNotes /\ TrayIsWished /\ PinsAreWished /\ RequestsAreWished

\* What may be among the requests after a step.
Rightful(r) ==
    /\ r.op = "pin" => r.paths \subseteq Pinnable
    /\ r.op \in {"refresh", "pin", "prompt"} => r.paths \cap Pinnable \subseteq wished'[r.on]

LEMMA WishesGrow ==
    ASSUME Input!ComposerTypeOK, [Input!ComposerNext]_(Input!composerVars)
    PROVE  \A c \in Talks : wished[c] \subseteq wished'[c]
  <1>1. ASSUME NEW n \in Pinnable, Input!Pin(n) PROVE \A c \in Talks : wished[c] \subseteq wished'[c]
    BY <1>1 DEF Input!Pin, Input!ComposerTypeOK
  <1>2. (\E n \in Pinnable : Input!Pin(n)) \/ UNCHANGED wished
    BY DEF Input!ComposerNext, Input!SelectTalk, Input!Rejoin, Input!Unpin, Input!TypeDraft, Input!Leave, Input!SendPrompt, Input!Attach, Input!Detach,
           Input!ToggleInclude, Input!ReadPins, Input!PinsAnswered, Input!PreviewAnswered, Input!LosePass, Input!TakePin, Input!PinAnswered,
           Input!LosePin, Input!SuggestionsAnswered, Input!UploadEnds, Input!TakePrompt, Input!PromptAnswered, Input!LosePrompt,
           Input!composerVars
  <1> QED
    BY <1>1, <1>2

LEMMA TrayOf ==
    ASSUME NEW paths, tray' = Input!Tray(paths)
    PROVE  Input!Pinned' = Input!ContextPaths \cap paths
  <1>1. Input!Pinned' = {p \in Input!ContextPaths : tray'[p] = "pinned"}
    BY DEF Input!Pinned
  <1>2. \A p \in Input!ContextPaths : tray'[p] = "pinned" <=> p \in paths
    BY DEF Input!Tray
  <1> QED
    BY <1>1, <1>2

LEMMA SuggestOf ==
    ASSUME NEW notes, tray' = Input!Suggest(notes)
    PROVE  Input!Pinned' = Input!Pinned
  <1>1. Input!Pinned' = {p \in Input!ContextPaths : tray'[p] = "pinned"}
    BY DEF Input!Pinned
  <1>2. \A p \in Input!ContextPaths : tray'[p] = "pinned" <=> tray[p] = "pinned"
    BY DEF Input!Suggest
  <1> QED
    BY <1>1, <1>2 DEF Input!Pinned

\* The tray shows nothing else than before, or what was wished for the active conversation.
LEMMA TrayStep ==
    ASSUME Input!ComposerAssumption, Input!ComposerTypeOK, Wished, Input!ComposerNext
    PROVE  TrayIsWished'
  <1>1. \A c \in Talks : wished[c] \subseteq wished'[c]
    BY WishesGrow
  <1>2. talk \in Talks /\ \A k \in calls : k.on \in Talks
    BY DEF Input!ComposerTypeOK, Input!RequestsOK, Input!Errands
  <1>3. ASSUME UNCHANGED talk, Input!Pinned' \subseteq Input!Pinned PROVE TrayIsWished'
    BY <1>1, <1>2, <1>3 DEF Wished, TrayIsWished
  <1>4. UNCHANGED tray => Input!Pinned' = Input!Pinned
    BY DEF Input!Pinned
  <1>5. ASSUME tray' = Input!Tray({}) PROVE TrayIsWished'
    <2>1. Input!Pinned' = {}
      BY <1>5, TrayOf
    <2> QED
      BY <2>1 DEF TrayIsWished
  <1>6. ASSUME NEW k \in calls, k.op = "refresh", talk = k.on, UNCHANGED talk,
               tray' = Input!Tray(k.paths) \/ tray' = Input!Tray(k.paths \cup Defaults)
        PROVE  TrayIsWished'
    <2>1. Input!Pinned' \subseteq k.paths \cup Defaults
      BY <1>6, TrayOf
    <2>2. Input!Pinned' \cap Pinnable \subseteq k.paths \cap Pinnable
      BY <2>1 DEF Input!ComposerAssumption
    <2>3. k.paths \cap Pinnable \subseteq wished[talk]
      BY <1>6 DEF Wished, RequestsAreWished
    <2> QED
      BY <1>1, <1>2, <1>6, <2>2, <2>3 DEF TrayIsWished
  <1>7. CASE \E c \in Talks : Input!SelectTalk(c) \/ Input!Rejoin(c)
    BY <1>5, <1>7 DEF Input!SelectTalk, Input!Rejoin
  <1>8. ASSUME NEW n \in Pinnable, Input!Pin(n) PROVE TrayIsWished'
    <2>1. tray' = [tray EXCEPT ![n] = "pinned"] /\ talk' = talk
      BY <1>8 DEF Input!Pin
    <2>2. wished' = [wished EXCEPT ![talk] = wished[talk] \cup {n}]
      BY <1>8 DEF Input!Pin
    <2>3. wished'[talk] = wished[talk] \cup {n}
      BY <1>2, <2>2 DEF Input!ComposerTypeOK
    <2>4. Input!Pinned' \subseteq Input!Pinned \cup {n}
      <3>1. Input!Pinned' = {p \in Input!ContextPaths : tray'[p] = "pinned"}
        BY DEF Input!Pinned
      <3> QED
        BY <2>1, <3>1 DEF Input!Pinned, Input!ComposerTypeOK
    <2> QED
      BY <2>1, <2>3, <2>4 DEF Wished, TrayIsWished
  <1>9. ASSUME NEW p \in Input!ContextPaths, Input!Unpin(p) PROVE TrayIsWished'
    <2>1. tray' = [tray EXCEPT ![p] = "no"] /\ talk' = talk
      BY <1>9 DEF Input!Unpin
    <2>2. Input!Pinned' \subseteq Input!Pinned
      <3>1. Input!Pinned' = {q \in Input!ContextPaths : tray'[q] = "pinned"}
        BY DEF Input!Pinned
      <3> QED
        BY <2>1, <3>1 DEF Input!Pinned, Input!ComposerTypeOK
    <2> QED
      BY <1>3, <2>1, <2>2
  <1>10. CASE Input!TypeDraft
    BY <1>3, <1>4, <1>10, SuggestOf DEF Input!TypeDraft
  <1>11. CASE Input!Leave
    BY <1>5, <1>11 DEF Input!Leave
  <1>12. CASE Input!SendPrompt \/ \E u \in Attachable : Input!Attach(u) \/ Input!Detach(u) \/ Input!ToggleInclude(u)
    BY <1>3, <1>4, <1>12 DEF Input!SendPrompt, Input!Attach, Input!Detach, Input!ToggleInclude
  <1>13. ASSUME NEW k \in calls,
                \/ Input!ReadPins(k) \/ Input!TakePin(k) \/ Input!PinAnswered(k) \/ Input!LosePin(k) \/ Input!UploadEnds(k)
                \/ Input!TakePrompt(k) \/ Input!PromptAnswered(k) \/ Input!LosePrompt(k)
         PROVE  TrayIsWished'
    BY <1>3, <1>4, <1>13 DEF Input!ReadPins, Input!TakePin, Input!PinAnswered, Input!LosePin, Input!UploadEnds, Input!TakePrompt,
                             Input!PromptAnswered, Input!LosePrompt
  <1>14. ASSUME NEW k \in calls, Input!PinsAnswered(k) PROVE TrayIsWished'
    <2>1. talk' = talk /\ (UNCHANGED tray \/ tray' = Input!Tray({}))
      BY <1>14 DEF Input!PinsAnswered
    <2> QED
      BY <1>3, <1>4, <1>5, <2>1
  <1>15. ASSUME NEW k \in calls, Input!PreviewAnswered(k) PROVE TrayIsWished'
    BY <1>3, <1>4, <1>6, <1>15 DEF Input!PreviewAnswered
  <1>16. ASSUME NEW k \in calls, Input!LosePass(k) PROVE TrayIsWished'
    BY <1>3, <1>4, <1>6, <1>16 DEF Input!LosePass
  <1>17. ASSUME NEW k \in calls, Input!SuggestionsAnswered(k) PROVE TrayIsWished'
    BY <1>3, <1>4, <1>17, SuggestOf DEF Input!SuggestionsAnswered
  <1> QED
    BY <1>7, <1>8, <1>9, <1>10, <1>11, <1>12, <1>13, <1>14, <1>15, <1>16, <1>17 DEF Input!ComposerNext

\* The pins of the backend change by what was asked for.
LEMMA PinsStep ==
    ASSUME Input!ComposerTypeOK, Wished, Input!ComposerNext
    PROVE  PinsAreWished'
  <1>1. \A c \in Talks : wished[c] \subseteq wished'[c]
    BY WishesGrow
  <1>2. ASSUME NEW k \in calls, Input!TakePin(k) PROVE PinsAreWished'
    <2>1. /\ pins' = [pins EXCEPT ![k.on] = IF k.op = "pin" THEN pins[k.on] \cup k.paths
                                                        ELSE pins[k.on] \ k.paths]
          /\ wished' = wished
      BY <1>2 DEF Input!TakePin
    <2>2. k.op = "pin" => k.paths \subseteq wished[k.on]
      BY DEF Wished, PinsNameNotes, RequestsAreWished
    <2> QED
      BY <2>1, <2>2 DEF Wished, PinsAreWished, Input!ComposerTypeOK
  <1>3. (\E k \in calls : Input!TakePin(k)) \/ UNCHANGED pins
    BY DEF Input!ComposerNext, Input!SelectTalk, Input!Rejoin, Input!Pin, Input!Unpin, Input!TypeDraft, Input!Leave, Input!SendPrompt, Input!Attach, Input!Detach,
           Input!ToggleInclude, Input!ReadPins, Input!PinsAnswered, Input!PreviewAnswered, Input!LosePass, Input!PinAnswered,
           Input!LosePin, Input!SuggestionsAnswered, Input!UploadEnds, Input!TakePrompt, Input!PromptAnswered, Input!LosePrompt
  <1> QED
    BY <1>1, <1>2, <1>3 DEF Wished, PinsAreWished

LEMMA ComposerRequestsStep ==
    ASSUME Input!ComposerTypeOK, Wished, Input!ComposerNext
    PROVE  \A r \in calls' : Rightful(r)
  <1>1. \A c \in Talks : wished[c] \subseteq wished'[c]
    BY WishesGrow
  <1>2. talk \in Talks /\ \A k \in calls : k \in Input!Errands /\ k.on \in Talks
    BY DEF Input!ComposerTypeOK, Input!RequestsOK, Input!Errands
  <1>3. \A k \in calls : Rightful(k)
    BY <1>1, <1>2 DEF Wished, PinsNameNotes, RequestsAreWished, Rightful
  <1>4. \A id, c : Rightful(Input!Pass(id, c))
    BY DEF Input!Pass, Rightful
  <1>5. \A op \in {"unpin", "draft", "upload"} : \A c, paths, ups : Rightful(Input!Errand(op, c, paths, ups))
    BY DEF Input!Errand, Rightful
  <1>6. \A k \in calls : \A step : Rightful([k EXCEPT !.step = step])
    BY <1>2, <1>3 DEF Rightful, Input!Errands
  <1>7. CASE \E c \in Talks : Input!SelectTalk(c) \/ Input!Rejoin(c)
    BY <1>3, <1>4, <1>7 DEF Input!SelectTalk, Input!Rejoin, Input!Ask
  <1>8. ASSUME NEW n \in Pinnable, Input!Pin(n) PROVE \A r \in calls' : Rightful(r)
    <2>1. /\ calls' \subseteq calls \cup {Input!Errand("pin", talk, {n}, {})}
          /\ wished' = [wished EXCEPT ![talk] = wished[talk] \cup {n}]
      BY <1>8 DEF Input!Pin, Input!Ask
    <2>2. n \in wished'[talk]
      BY <1>2, <2>1 DEF Input!ComposerTypeOK
    <2>3. Rightful(Input!Errand("pin", talk, {n}, {}))
      BY <2>2 DEF Input!Errand, Rightful
    <2> QED
      BY <1>3, <2>1, <2>3
  <1>9. ASSUME NEW p \in Input!ContextPaths, Input!Unpin(p) PROVE \A r \in calls' : Rightful(r)
    BY <1>3, <1>5, <1>9 DEF Input!Unpin, Input!Ask
  <1>10. CASE Input!TypeDraft
    BY <1>3, <1>5, <1>10 DEF Input!TypeDraft, Input!Ask
  <1>11. CASE Input!Leave
    BY <1>3, <1>11 DEF Input!Leave
  <1>12. CASE Input!SendPrompt
    <2>1. Rightful(Input!Errand("prompt", talk, Input!Pinned, Input!Ready))
      BY <1>1, <1>2 DEF Wished, TrayIsWished, Input!Errand, Rightful
    <2> QED
      BY <1>3, <1>12, <2>1 DEF Input!SendPrompt, Input!Ask
  <1>13. ASSUME NEW u \in Attachable, Input!Attach(u) \/ Input!Detach(u) \/ Input!ToggleInclude(u)
         PROVE  \A r \in calls' : Rightful(r)
    BY <1>3, <1>5, <1>13 DEF Input!Attach, Input!Detach, Input!ToggleInclude, Input!Ask, Input!requestVars
  <1>14. ASSUME NEW k \in calls, Input!ReadPins(k) PROVE \A r \in calls' : Rightful(r)
    <2> DEFINE read == [k EXCEPT !.step = "back", !.paths = pins[k.on]]
    <2>1. calls' = (calls \ {k}) \cup {read} /\ k.op = "refresh"
      BY <1>14 DEF Input!ReadPins, Input!Becomes
    <2>2. read.op = "refresh" /\ read.on = k.on /\ read.paths = pins[k.on]
      BY <1>2, <2>1 DEF Input!Errands
    <2>3. pins[k.on] \subseteq wished'[k.on]
      BY <1>1, <1>2 DEF Wished, PinsAreWished
    <2> HIDE DEF read
    <2>4. Rightful(read)
      BY <2>2, <2>3 DEF Rightful
    <2> QED
      BY <1>3, <2>1, <2>4
  <1>15. ASSUME NEW k \in calls, Input!PinsAnswered(k) \/ Input!TakePin(k) \/ Input!PinAnswered(k) \/ Input!TakePrompt(k)
         PROVE  \A r \in calls' : Rightful(r)
    BY <1>3, <1>4, <1>6, <1>15 DEF Input!PinsAnswered, Input!TakePin, Input!PinAnswered, Input!TakePrompt, Input!Becomes, Input!Ends
  <1>16. ASSUME NEW k \in calls,
                \/ Input!PreviewAnswered(k) \/ Input!LosePass(k) \/ Input!LosePin(k) \/ Input!SuggestionsAnswered(k)
                \/ Input!UploadEnds(k) \/ Input!PromptAnswered(k) \/ Input!LosePrompt(k)
         PROVE  \A r \in calls' : Rightful(r)
    BY <1>3, <1>16 DEF Input!PreviewAnswered, Input!LosePass, Input!LosePin, Input!SuggestionsAnswered, Input!UploadEnds,
                       Input!PromptAnswered, Input!LosePrompt, Input!Ends
  <1> QED
    BY <1>7, <1>8, <1>9, <1>10, <1>11, <1>12, <1>13, <1>14, <1>15, <1>16 DEF Input!ComposerNext

LEMMA WishedStep ==
    ASSUME Input!ComposerAssumption, Input!ComposerTypeOK, Wished, [Input!ComposerNext]_(Input!composerVars)
    PROVE  Wished'
  <1>1. CASE Input!ComposerNext
    <2>1. TrayIsWished' /\ PinsAreWished' /\ \A r \in calls' : Rightful(r)
      BY <1>1, TrayStep, PinsStep, ComposerRequestsStep
    <2> QED
      BY <2>1 DEF Rightful, Wished, PinsNameNotes, RequestsAreWished
  <1>2. CASE UNCHANGED Input!composerVars
    BY <1>2 DEF Input!composerVars, Input!requestVars, Wished, PinsNameNotes, TrayIsWished, PinsAreWished,
                RequestsAreWished, Input!Pinned
  <1> QED
    BY <1>1, <1>2

LEMMA InitIsWished ==
    ASSUME Input!ComposerAssumption, Input!ComposerInit
    PROVE  Wished
  <1>1. calls = {} /\ wished = pins
    BY DEF Input!ComposerInit, Input!RequestsInit
  <1>2. Input!Pinned \subseteq pins[talk] \cup Defaults
    BY DEF Input!ComposerInit, Input!Tray, Input!Pinned
  <1> QED
    BY <1>1, <1>2 DEF Input!ComposerAssumption, Wished, PinsNameNotes, TrayIsWished, PinsAreWished,
                      RequestsAreWished

\* A pass is on its way to the tray, or an edit that a pass follows.
Filling == \E k \in calls : k.on = talk /\ k.op \in {"refresh", "pin", "unpin"}
TrayFits == (joined /\ talk \notin stale) => (Input!Pinned \cap Pinnable = pins[talk] \/ Filling)

\* A pass that has read shows what is still pinned.
PassFits(k) ==
    k.op = "refresh" =>
        /\ k.step = "out" => k.paths = {}
        /\ (k.step # "out" /\ k.on \notin stale) => k.paths = pins[k.on]
PassesFit == \A k \in calls : PassFits(k)
TrayInv == TrayFits /\ PassesFit

LEMMA TrayInit ==
    ASSUME Input!ComposerAssumption, Input!ComposerInit
    PROVE  TrayInv
  <1>1. calls = {} /\ pins[talk] \subseteq Pinnable
    BY DEF Input!ComposerInit, Input!RequestsInit
  <1>2. Input!Pinned = Input!ContextPaths \cap (IF pins[talk] = {} THEN {} ELSE pins[talk] \cup Defaults)
    BY DEF Input!ComposerInit, Input!Tray, Input!Pinned
  <1>3. Input!Pinned \cap Pinnable = pins[talk]
    BY <1>1, <1>2 DEF Input!ComposerAssumption, Input!ContextPaths
  <1> QED
    BY <1>1, <1>3 DEF TrayInv, TrayFits, PassesFit

LEMMA PinnedKept ==
    ASSUME UNCHANGED tray
    PROVE  Input!Pinned' = Input!Pinned
  BY DEF Input!Pinned

\* Requests that do not fill the tray come and go.
LEMMA TrayAside ==
    ASSUME Input!ComposerTypeOK, TrayInv, UNCHANGED <<talk, joined, pins, stale>>,
           Input!Pinned' = Input!Pinned,
           \A k \in calls : k.op \in {"refresh", "pin", "unpin"} => k \in calls',
           \A k \in calls' : k.op = "refresh" => k \in calls
    PROVE  TrayInv'
  <1>1. PassesFit'
    BY DEF TrayInv, PassesFit, PassFits
  <1>2. Filling => Filling'
    BY DEF Filling
  <1> QED
    BY <1>1, <1>2 DEF TrayInv, TrayFits

LEMMA TrayOfClicks ==
    ASSUME Input!ComposerAssumption, Input!ComposerTypeOK, TrayInv,
           \/ \E c \in Talks : Input!SelectTalk(c) \/ Input!Rejoin(c)
           \/ \E n \in Pinnable : Input!Pin(n)
           \/ \E p \in Input!ContextPaths : Input!Unpin(p)
           \/ Input!TypeDraft \/ Input!Leave
           \/ Input!SendPrompt
           \/ \E u \in Attachable : Input!Attach(u) \/ Input!Detach(u) \/ Input!ToggleInclude(u)
    PROVE  TrayInv'
  <1>1. ASSUME NEW c \in Talks, Input!SelectTalk(c) \/ Input!Rejoin(c) PROVE TrayInv'
    <2>1. /\ talk' = c /\ calls' = calls \cup {Input!Pass(acts + 1, c)} /\ pins' = pins
          /\ stale' = stale \/ (stale' = stale \ {c} /\
                \A k \in calls : ~(k.on = c /\ k.op \in {"refresh", "pin", "unpin"}))
      BY <1>1 DEF Input!SelectTalk, Input!Rejoin, Input!Ask
    <2>3. \A k \in calls : PassFits(k)'
      BY <2>1 DEF TrayInv, PassesFit, PassFits
    <2>4. Filling'
      <3>1. /\ Input!Pass(acts + 1, c) \in calls' /\ Input!Pass(acts + 1, c).on = talk'
            /\ Input!Pass(acts + 1, c).op = "refresh"
        BY <2>1 DEF Input!Pass
      <3> QED
        BY <3>1 DEF Filling
    <2>5. \A k \in calls' : PassFits(k)'
      <3>2. \A stepped : stepped = Input!Pass(acts + 1, c) => PassFits(stepped)'
        BY DEF PassFits, Input!Pass
      <3> QED
        BY <2>1, <2>3, <3>2
    <2> QED
      BY <2>4, <2>5 DEF TrayInv, TrayFits, PassesFit
  <1>2. ASSUME NEW op \in {"pin", "unpin"}, NEW paths, UNCHANGED <<talk, joined, pins, stale>>,
               Input!Ask(IF joined THEN {Input!Errand(op, talk, paths, {})} ELSE {})
        PROVE  TrayInv'
    <2>1. \A k \in calls' : k.op = "refresh" => k \in calls
      BY <1>2 DEF Input!Ask, Input!Errand
    <2>2. PassesFit'
      BY <1>2, <2>1 DEF TrayInv, PassesFit, PassFits
    <2>3. joined => Filling'
      <3>1. /\ joined => Input!Errand(op, talk, paths, {}) \in calls'
            /\ Input!Errand(op, talk, paths, {}).on = talk'
            /\ Input!Errand(op, talk, paths, {}).op \in {"pin", "unpin"}
        BY <1>2 DEF Input!Ask, Input!Errand
      <3> QED
        BY <3>1 DEF Filling
    <2> QED
      BY <1>2, <2>2, <2>3 DEF TrayInv, TrayFits
  <1>3. ASSUME NEW n \in Pinnable, Input!Pin(n) PROVE TrayInv'
    BY <1>2, <1>3 DEF Input!Pin
  <1>4. ASSUME NEW p \in Input!ContextPaths, Input!Unpin(p) PROVE TrayInv'
    BY <1>2, <1>4 DEF Input!Unpin
  <1>5. ASSUME NEW requests, Input!Ask(requests), \A k \in requests : k.op \in {"draft", "upload", "prompt"}
        PROVE  /\ \A k \in calls : k.op \in {"refresh", "pin", "unpin"} => k \in calls'
               /\ \A k \in calls' : k.op = "refresh" => k \in calls
    BY <1>5 DEF Input!Ask
  <1>6. \A op, paths, ups : Input!Errand(op, talk, paths, ups).op = op
    BY DEF Input!Errand
  <1>7. CASE Input!TypeDraft
    <2>1. Input!Pinned' = Input!Pinned
      BY <1>7, SuggestOf, PinnedKept DEF Input!TypeDraft
    <2>2. /\ \A k \in calls : k.op \in {"refresh", "pin", "unpin"} => k \in calls'
          /\ \A k \in calls' : k.op = "refresh" => k \in calls
      <3>1. UNCHANGED calls \/ Input!Ask({Input!Errand("draft", talk, {}, {})})
        BY <1>7 DEF Input!TypeDraft
      <3>2. \A k \in {Input!Errand("draft", talk, {}, {})} : k.op \in {"draft", "upload", "prompt"}
        BY <1>6
      <3> QED
        BY <1>5, <3>1, <3>2
    <2> QED
      BY <1>7, <2>1, <2>2, TrayAside DEF Input!TypeDraft
  <1>8. CASE Input!Leave
    BY <1>8 DEF Input!Leave, TrayInv, TrayFits, PassesFit, PassFits
  <1>9. CASE Input!SendPrompt
    <2>1. UNCHANGED calls \/ Input!Ask({Input!Errand("prompt", talk, Input!Pinned, Input!Ready)})
      BY <1>9 DEF Input!SendPrompt
    <2>2. \A k \in {Input!Errand("prompt", talk, Input!Pinned, Input!Ready)} : k.op \in {"draft", "upload", "prompt"}
      BY <1>6
    <2>3. /\ \A k \in calls : k.op \in {"refresh", "pin", "unpin"} => k \in calls'
          /\ \A k \in calls' : k.op = "refresh" => k \in calls
      BY <1>5, <2>1, <2>2
    <2> QED
      BY <1>9, <2>3, TrayAside, PinnedKept DEF Input!SendPrompt
  <1>10. ASSUME NEW u \in Attachable, Input!Attach(u) PROVE TrayInv'
    <2>1. Input!Ask({Input!Errand("upload", talk, {}, {u})})
      BY <1>10 DEF Input!Attach
    <2>2. \A k \in {Input!Errand("upload", talk, {}, {u})} : k.op \in {"draft", "upload", "prompt"}
      BY <1>6
    <2>3. /\ \A k \in calls : k.op \in {"refresh", "pin", "unpin"} => k \in calls'
          /\ \A k \in calls' : k.op = "refresh" => k \in calls
      BY <1>5, <2>1, <2>2
    <2> QED
      BY <1>10, <2>3, TrayAside, PinnedKept DEF Input!Attach
  <1>11. ASSUME NEW u \in Attachable, Input!Detach(u) \/ Input!ToggleInclude(u) PROVE TrayInv'
    BY <1>11, TrayAside, PinnedKept DEF Input!Detach, Input!ToggleInclude, Input!requestVars
  <1> QED
    BY <1>1, <1>3, <1>4, <1>7, <1>8, <1>9, <1>10, <1>11

\* The tray once a pass has ended with the paths it had read.
LEMMA TrayShown ==
    ASSUME Input!ComposerAssumption, Input!ComposerTypeOK, TrayInv, NEW k \in calls, k.op = "refresh",
           k.step # "out", talk = k.on, UNCHANGED <<talk, pins, stale>>,
           tray' = Input!Tray(k.paths) \/ tray' = Input!Tray(k.paths \cup Defaults)
    PROVE  talk' \notin stale' => Input!Pinned' \cap Pinnable = pins'[talk']
  <1>1. Input!Pinned' = Input!ContextPaths \cap k.paths \/ Input!Pinned' = Input!ContextPaths \cap (k.paths \cup Defaults)
    BY TrayOf
  <1>2. talk \notin stale => k.paths = pins[talk]
    BY DEF TrayInv, PassesFit, PassFits
  <1>3. pins[talk] \subseteq Pinnable
    BY DEF Input!ComposerTypeOK
  <1> QED
    BY <1>1, <1>2, <1>3 DEF Input!ComposerAssumption, Input!ContextPaths

LEMMA TrayOfAnswers ==
    ASSUME Input!ComposerAssumption, Input!ComposerTypeOK, TrayInv, NEW k \in calls,
           \/ Input!ReadPins(k) \/ Input!PinsAnswered(k) \/ Input!PreviewAnswered(k) \/ Input!LosePass(k)
           \/ Input!TakePin(k) \/ Input!PinAnswered(k) \/ Input!LosePin(k)
           \/ Input!SuggestionsAnswered(k) \/ Input!UploadEnds(k)
           \/ Input!TakePrompt(k) \/ Input!PromptAnswered(k) \/ Input!LosePrompt(k)
    PROVE  TrayInv'
  <1>1. k \in Input!Errands
    BY DEF Input!ComposerTypeOK, Input!RequestsOK
  <1>2. ASSUME Input!Ends(k), k.on # talk, UNCHANGED talk
        PROVE  Filling => Filling'
    BY <1>2 DEF Input!Ends, Filling
  <1>3. ASSUME NEW later, Input!Becomes(k, later), UNCHANGED talk, later.on = k.on, later.op = k.op
                 \/ later.op = "refresh"
        PROVE  Filling => Filling'
    <2>1. later.op \in {"refresh", "pin", "unpin"} \/ later.op = k.op
      BY <1>3
    <2> QED
      BY <1>3, <2>1 DEF Input!Becomes, Filling
  <1>4. ASSUME calls' \subseteq calls, UNCHANGED pins, stale \subseteq stale'
        PROVE  PassesFit'
    BY <1>4 DEF TrayInv, PassesFit, PassFits
  <1>5. CASE Input!ReadPins(k)
    <2> DEFINE read == [k EXCEPT !.step = "back", !.paths = pins[k.on]]
    <2>1. /\ Input!Becomes(k, read) /\ UNCHANGED <<talk, joined, tray, pins, stale>> /\ k.op = "refresh"
      BY <1>5 DEF Input!ReadPins
    <2>2. read.op = k.op /\ read.on = k.on /\ read.step = "back" /\ read.paths = pins[k.on]
      BY <1>1 DEF Input!Errands
    <2> HIDE DEF read
    <2>4. PassesFit'
      <3>1. \A j \in calls : PassFits(j)'
        BY <2>1 DEF TrayInv, PassesFit, PassFits
      <3>2. \A j : j = read => PassFits(j)'
        BY <2>1, <2>2 DEF PassFits
      <3> QED
        BY <2>1, <3>1, <3>2 DEF PassesFit, Input!Becomes
    <2>5. Filling => Filling'
      BY <1>3, <2>1, <2>2
    <2> QED
      BY <2>1, <2>4, <2>5, PinnedKept DEF TrayInv, TrayFits
  <1>6. CASE Input!PinsAnswered(k)
    <2>0. k.op = "refresh" /\ k.step = "back" /\ UNCHANGED <<talk, joined, pins, stale>>
      BY <1>6 DEF Input!PinsAnswered
    <2>1. CASE talk = k.on /\ k.paths # {}
      <3> DEFINE later == [k EXCEPT !.step = "preview"]
      <3>1. Input!Becomes(k, later) /\ UNCHANGED tray
        BY <1>6, <2>1 DEF Input!PinsAnswered
      <3>2. later.op = k.op /\ later.on = k.on /\ later.step = "preview" /\ later.paths = k.paths
        BY <1>1 DEF Input!Errands
      <3> HIDE DEF later
      <3>3. PassesFit'
        <4>1. \A j \in calls : PassFits(j)'
          BY <2>0 DEF TrayInv, PassesFit, PassFits
        <4>2. PassFits(k)
          BY DEF TrayInv, PassesFit
        <4>3. \A j : j = later => PassFits(j)'
          BY <2>0, <3>2, <4>2 DEF PassFits
        <4> QED
          BY <3>1, <4>1, <4>3 DEF PassesFit, Input!Becomes
      <3>4. Filling => Filling'
        BY <1>3, <2>0, <3>1, <3>2
      <3> QED
        BY <2>0, <3>1, <3>3, <3>4, PinnedKept DEF TrayInv, TrayFits
    <2>2. CASE talk = k.on /\ k.paths = {}
      <3>1. Input!Ends(k) /\ tray' = Input!Tray(k.paths)
        BY <1>6, <2>2 DEF Input!PinsAnswered
      <3>2. talk' \notin stale' => Input!Pinned' \cap Pinnable = pins'[talk']
        BY <2>0, <2>2, <3>1, TrayShown
      <3>3. PassesFit'
        BY <1>4, <2>0, <3>1 DEF Input!Ends
      <3> QED
        BY <3>2, <3>3 DEF TrayInv, TrayFits
    <2>3. CASE talk # k.on
      <3>1. Input!Ends(k) /\ UNCHANGED tray
        BY <1>6, <2>3 DEF Input!PinsAnswered
      <3>2. PassesFit'
        BY <1>4, <2>0, <3>1 DEF Input!Ends
      <3> QED
        BY <1>2, <2>0, <2>3, <3>1, <3>2, PinnedKept DEF TrayInv, TrayFits
    <2> QED
      BY <2>1, <2>2, <2>3
  <1>7. CASE Input!PreviewAnswered(k) \/ (Input!LosePass(k) /\ k.step = "preview")
    <2>0. /\ k.op = "refresh" /\ k.step = "preview" /\ UNCHANGED <<talk, joined, pins, stale>>
          /\ Input!Ends(k)
          /\ talk = k.on => tray' = Input!Tray(k.paths) \/ tray' = Input!Tray(k.paths \cup Defaults)
          /\ talk # k.on => tray' = tray
      BY <1>7 DEF Input!PreviewAnswered, Input!LosePass
    <2>1. PassesFit'
      BY <1>4, <2>0 DEF Input!Ends
    <2>2. CASE talk = k.on
      <3>1. talk' \notin stale' => Input!Pinned' \cap Pinnable = pins'[talk']
        BY <2>0, <2>2, TrayShown
      <3> QED
        BY <2>1, <3>1 DEF TrayInv, TrayFits
    <2>3. CASE talk # k.on
      BY <1>2, <2>0, <2>1, <2>3, PinnedKept DEF TrayInv, TrayFits
    <2> QED
      BY <2>2, <2>3
  <1>8. CASE (Input!LosePass(k) /\ k.step # "preview") \/ Input!LosePin(k)
    <2>0. /\ UNCHANGED <<talk, joined, pins, tray>> /\ Input!Ends(k) /\ stale' = stale \cup {k.on}
      BY <1>8 DEF Input!LosePass, Input!LosePin
    <2>1. PassesFit'
      BY <1>4, <2>0 DEF Input!Ends
    <2> QED
      BY <1>2, <2>0, <2>1, PinnedKept DEF TrayInv, TrayFits
  <1>9. CASE Input!TakePin(k)
    <2> DEFINE later == [k EXCEPT !.step = "back"]
    <2>1. /\ Input!Becomes(k, later) /\ UNCHANGED <<talk, joined, tray>> /\ k.op \in {"pin", "unpin"}
          /\ stale' = IF \E j \in calls : j.op = "refresh" /\ j.on = k.on /\ j.step # "out"
                      THEN stale \cup {k.on} ELSE stale
          /\ \A c \in Talks \ {k.on} : pins'[c] = pins[c]
      BY <1>9 DEF Input!TakePin, Input!ComposerTypeOK
    <2>2. later.op = k.op /\ later.on = k.on
      BY <1>1 DEF Input!Errands
    <2> HIDE DEF later
    <2>3. PassesFit'
      <3>1. \A j \in calls : PassFits(j)'
        <4> SUFFICES ASSUME NEW j \in calls, j.op = "refresh" PROVE PassFits(j)'
          BY DEF PassFits
        <4>1. j.on \in Talks /\ PassFits(j)
          BY DEF TrayInv, PassesFit, Input!ComposerTypeOK, Input!RequestsOK, Input!Errands
        <4> QED
          BY <2>1, <4>1 DEF PassFits
      <3>2. \A j : j = later => PassFits(j)'
        BY <2>1, <2>2 DEF PassFits
      <3> QED
        BY <2>1, <3>1, <3>2 DEF PassesFit, Input!Becomes
    <2>4. CASE talk = k.on
      <3>1. Filling'
        BY <2>1, <2>2, <2>4 DEF Filling, Input!Becomes
      <3> QED
        BY <2>3, <3>1 DEF TrayInv, TrayFits
    <2>5. CASE talk # k.on
      <3>1. pins'[talk] = pins[talk]
        BY <2>1, <2>5 DEF Input!ComposerTypeOK
      <3>2. Filling => Filling'
        BY <1>3, <2>1, <2>2
      <3>3. talk' \notin stale' => talk \notin stale
        BY <2>1
      <3> QED
        BY <2>1, <2>3, <3>1, <3>2, <3>3, PinnedKept DEF TrayInv, TrayFits
    <2> QED
      BY <2>4, <2>5
  <1>10. CASE Input!PinAnswered(k)
    <2>1. /\ Input!Becomes(k, Input!Pass(k.id, k.on)) /\ UNCHANGED <<talk, joined, tray, pins, stale>>
      BY <1>10 DEF Input!PinAnswered
    <2>2. /\ Input!Pass(k.id, k.on).op = "refresh" /\ Input!Pass(k.id, k.on).on = k.on
          /\ \A j : j = Input!Pass(k.id, k.on) => PassFits(j)'
      BY DEF Input!Pass, PassFits
    <2>3. PassesFit'
      <3>1. \A j \in calls : PassFits(j)'
        BY <2>1 DEF TrayInv, PassesFit, PassFits
      <3> QED
        BY <2>1, <2>2, <3>1 DEF PassesFit, Input!Becomes
    <2>4. Filling => Filling'
      BY <1>3, <2>1, <2>2
    <2> QED
      BY <2>1, <2>3, <2>4, PinnedKept DEF TrayInv, TrayFits
  <1>11. CASE Input!SuggestionsAnswered(k)
    <2>1. Input!Pinned' = Input!Pinned
      BY <1>11, SuggestOf, PinnedKept DEF Input!SuggestionsAnswered
    <2> QED
      BY <1>11, <2>1, TrayAside DEF Input!SuggestionsAnswered, Input!Ends
  <1>12. CASE Input!UploadEnds(k) \/ Input!PromptAnswered(k) \/ Input!LosePrompt(k)
    BY <1>12, TrayAside, PinnedKept DEF Input!UploadEnds, Input!PromptAnswered, Input!LosePrompt, Input!Ends
  <1>13. CASE Input!TakePrompt(k)
    <2> DEFINE later == [k EXCEPT !.step = "back"]
    <2>1. calls' = (calls \ {k}) \cup {later} /\ k.op = "prompt"
      BY <1>13 DEF Input!TakePrompt, Input!Becomes
    <2>2. later.op = k.op
      BY <1>1 DEF Input!Errands
    <2> HIDE DEF later
    <2>3. /\ \A j \in calls : j.op \in {"refresh", "pin", "unpin"} => j \in calls'
          /\ \A j \in calls' : j.op = "refresh" => j \in calls
      BY <2>1, <2>2
    <2> QED
      BY <1>13, <2>3, TrayAside, PinnedKept DEF Input!TakePrompt
  <1> QED
    BY <1>5, <1>6, <1>7, <1>8, <1>9, <1>10, <1>11, <1>12, <1>13 DEF Input!LosePass

LEMMA TrayInvStep ==
    ASSUME Input!ComposerAssumption, Input!ComposerTypeOK, TrayInv,
           [Input!ComposerNext]_(Input!composerVars)
    PROVE  TrayInv'
  <1>1. CASE Input!ComposerNext
    BY <1>1, TrayOfClicks, TrayOfAnswers DEF Input!ComposerNext
  <1>2. CASE UNCHANGED Input!composerVars
    BY <1>2 DEF Input!composerVars, Input!requestVars, TrayInv, TrayFits, PassesFit, PassFits,
                Filling, Input!Pinned
  <1> QED
    BY <1>1, <1>2

(***************************************************************************)
(* An upload is attached until a prompt has taken it, and any prompt on    *)
(* its way will take it; once taken it is in no other prompt, and what is  *)
(* still attached is cleared with the answer.                              *)
(***************************************************************************)
ToBeTaken(u) ==
    carried[u] = 0 =>
        /\ attached[u] # "no"
        /\ \A k \in calls : k.op = "prompt" => k.step = "out" /\ u \in k.files
        /\ \A j, k \in calls : (j.op = "prompt" /\ k.op = "prompt") => j = k
Taken(u) ==
    carried[u] # 0 =>
        /\ carried[u] = 1
        /\ \A k \in calls : (k.op = "prompt" /\ u \in k.files) => k.step # "out"
        /\ attached[u] # "no" =>
             \E k \in calls : k.op = "prompt" /\ k.step = "back" /\ u \in k.files
AttachedFits == \A u \in Attachable \ waived : ToBeTaken(u) /\ Taken(u)

LEMMA AttachedInit ==
    ASSUME Input!ComposerInit
    PROVE  AttachedFits
  BY DEF Input!ComposerInit, AttachedFits

\* Nothing happens to the prompts; an upload attached stays so, one cleared stays cleared.
LEMMA AttachedAside ==
    ASSUME AttachedFits, UNCHANGED carried, waived \subseteq waived',
           \A k \in calls : k.op = "prompt" => k \in calls',
           \A k \in calls' : k.op = "prompt" => k \in calls,
           \A u \in Attachable \ waived' : attached'[u] = "no" <=> attached[u] = "no"
    PROVE  AttachedFits'
  <1> SUFFICES ASSUME NEW u \in Attachable \ waived' PROVE ToBeTaken(u)' /\ Taken(u)'
    BY DEF AttachedFits
  <1>1. ToBeTaken(u) /\ Taken(u) /\ (attached'[u] = "no" <=> attached[u] = "no")
    BY DEF AttachedFits
  <1>2. ToBeTaken(u)'
    BY <1>1 DEF ToBeTaken
  <1>3. Taken(u)'
    BY <1>1 DEF Taken
  <1> QED
    BY <1>2, <1>3

LEMMA AttachedOfClicks ==
    ASSUME Input!ComposerTypeOK, AttachedFits,
           \/ \E c \in Talks : Input!SelectTalk(c) \/ Input!Rejoin(c)
           \/ \E n \in Pinnable : Input!Pin(n)
           \/ \E p \in Input!ContextPaths : Input!Unpin(p)
           \/ Input!TypeDraft \/ Input!Leave
           \/ \E u \in Attachable : Input!Detach(u) \/ Input!ToggleInclude(u)
    PROVE  AttachedFits'
  <1>1. \A c : Input!Pass(acts + 1, c).op # "prompt"
    BY DEF Input!Pass
  <1>2. \A op \in {"pin", "unpin", "draft", "upload"} : \A paths, ups :
           Input!Errand(op, talk, paths, ups).op # "prompt"
    BY DEF Input!Errand
  <1>3. ASSUME NEW c \in Talks, Input!SelectTalk(c) \/ Input!Rejoin(c) PROVE AttachedFits'
    BY <1>1, <1>3, AttachedAside DEF Input!SelectTalk, Input!Rejoin, Input!Ask
  <1>4. ASSUME NEW n \in Pinnable, Input!Pin(n) PROVE AttachedFits'
    BY <1>2, <1>4, AttachedAside DEF Input!Pin, Input!Ask
  <1>5. ASSUME NEW p \in Input!ContextPaths, Input!Unpin(p) PROVE AttachedFits'
    BY <1>2, <1>5, AttachedAside DEF Input!Unpin, Input!Ask
  <1>6. CASE Input!TypeDraft \/ Input!Leave
    BY <1>2, <1>6, AttachedAside DEF Input!TypeDraft, Input!Leave, Input!Ask
  <1>7. ASSUME NEW u \in Attachable, Input!Detach(u) PROVE AttachedFits'
    <2>1. /\ UNCHANGED <<calls, carried>> /\ waived' = waived \cup {u}
          /\ attached' = [attached EXCEPT ![u] = "no"]
      BY <1>7 DEF Input!Detach, Input!requestVars
    <2> QED
      BY <2>1, AttachedAside DEF Input!ComposerTypeOK
  <1>8. ASSUME NEW u \in Attachable, Input!ToggleInclude(u) PROVE AttachedFits'
    <2>1. /\ UNCHANGED <<calls, carried, waived>> /\ attached[u] \in {"ready", "out"}
          /\ attached' = [attached EXCEPT ![u] = IF attached[u] = "ready" THEN "out" ELSE "ready"]
      BY <1>8 DEF Input!ToggleInclude, Input!requestVars, Input!Ready, Input!Out
    <2> QED
      BY <2>1, AttachedAside DEF Input!ComposerTypeOK
  <1> QED
    BY <1>3, <1>4, <1>5, <1>6, <1>7, <1>8

LEMMA AttachedOfAttach ==
    ASSUME Input!ComposerTypeOK, AttachedFits, NEW v \in Attachable, Input!Attach(v)
    PROVE  AttachedFits'
  <1> DEFINE upload == Input!Errand("upload", talk, {}, {v})
  <1>1. /\ attached[v] = "no" /\ carried[v] = 0 /\ UNCHANGED carried
        /\ attached' = [attached EXCEPT ![v] = "uploading"]
        /\ calls' = calls \cup {upload}
        /\ waived' = IF \E k \in calls : k.op = "prompt" THEN waived ELSE waived \ {v}
    BY DEF Input!Attach, Input!Ask
  <1>2. upload.op = "upload"
    BY DEF Input!Errand
  <1> HIDE DEF upload
  <1> SUFFICES ASSUME NEW u \in Attachable \ waived' PROVE ToBeTaken(u)' /\ Taken(u)'
    BY DEF AttachedFits
  <1>3. \A k \in calls' : k.op = "prompt" => k \in calls
    BY <1>1, <1>2
  <1>4. CASE u = v
    <2>1. v \in waived
      BY <1>1, <1>4 DEF AttachedFits, ToBeTaken
    <2>2. \A k \in calls : k.op # "prompt"
      BY <1>1, <1>4, <2>1
    <2>3. attached'[v] # "no"
      BY <1>1 DEF Input!ComposerTypeOK
    <2> QED
      BY <1>1, <1>3, <1>4, <2>2, <2>3 DEF ToBeTaken, Taken
  <1>5. CASE u # v
    <2>1. ToBeTaken(u) /\ Taken(u) /\ attached'[u] = attached[u] /\ carried'[u] = carried[u]
      BY <1>1, <1>5 DEF AttachedFits, Input!ComposerTypeOK
    <2>2. calls \subseteq calls'
      BY <1>1
    <2> QED
      BY <1>3, <2>1, <2>2 DEF ToBeTaken, Taken
  <1> QED
    BY <1>4, <1>5

LEMMA AttachedOfSend ==
    ASSUME Input!ComposerTypeOK, AttachedFits, Input!SendPrompt
    PROVE  AttachedFits'
  <1> SUFFICES ASSUME NEW u \in Attachable \ waived' PROVE ToBeTaken(u)' /\ Taken(u)'
    BY DEF AttachedFits
  <1>1. attached[u] \in {"ready", "out", "no"} /\ UNCHANGED carried /\ waived \subseteq waived'
    BY DEF Input!SendPrompt, Input!CanSend
  <1>2. ToBeTaken(u) /\ Taken(u)
    BY <1>1 DEF AttachedFits
  <1>3. CASE joined
    <2> DEFINE prompt == Input!Errand("prompt", talk, Input!Pinned, Input!Ready)
    <2>1. /\ calls' = calls \cup {prompt} /\ UNCHANGED attached
          /\ waived' = waived \cup Input!Out \cup
                          (IF \E k \in calls : k.op = "prompt" THEN Input!Ready ELSE {})
      BY <1>3 DEF Input!SendPrompt, Input!Ask
    <2>2. prompt.op = "prompt" /\ prompt.step = "out" /\ prompt.files = Input!Ready
      BY DEF Input!Errand
    <2> HIDE DEF prompt
    <2>3. u \notin Input!Out /\ (u \in Input!Ready => \A k \in calls : k.op # "prompt")
      BY <2>1
    <2>4. CASE attached[u] = "ready"
      <3>1. u \in Input!Ready /\ carried[u] = 0
        BY <1>2, <2>3, <2>4 DEF Input!Ready, Taken
      <3> QED
        BY <1>1, <1>2, <2>1, <2>2, <2>3, <2>4, <3>1 DEF ToBeTaken, Taken
    <2>5. CASE attached[u] = "no"
      <3>1. u \notin Input!Ready /\ carried[u] # 0
        BY <1>2, <2>5 DEF Input!Ready, ToBeTaken
      <3> QED
        BY <1>1, <1>2, <2>1, <2>2, <2>5, <3>1 DEF ToBeTaken, Taken
    <2>6. CASE attached[u] = "out"
      BY <2>3, <2>6 DEF Input!Out
    <2> QED
      BY <1>1, <2>4, <2>5, <2>6
  <1>4. CASE ~joined
    <2>1. /\ UNCHANGED calls /\ attached' = [v \in Attachable |-> "no"]
          /\ waived' = waived \cup Input!Out \cup Input!Ready
      BY <1>4 DEF Input!SendPrompt
    <2>2. attached[u] = "no"
      BY <1>1, <2>1 DEF Input!Out, Input!Ready
    <2>3. carried[u] # 0
      BY <1>2, <2>2 DEF ToBeTaken
    <2> QED
      BY <1>1, <1>2, <2>1, <2>3 DEF ToBeTaken, Taken
  <1> QED
    BY <1>3, <1>4

LEMMA AttachedOfAnswers ==
    ASSUME Input!ComposerTypeOK, AttachedFits, NEW k \in calls,
           \/ Input!ReadPins(k) \/ Input!PinsAnswered(k) \/ Input!PreviewAnswered(k) \/ Input!LosePass(k)
           \/ Input!TakePin(k) \/ Input!PinAnswered(k) \/ Input!LosePin(k)
           \/ Input!SuggestionsAnswered(k) \/ Input!UploadEnds(k)
    PROVE  AttachedFits'
  <1>1. k \in Input!Errands
    BY DEF Input!ComposerTypeOK, Input!RequestsOK
  <1>2. ASSUME Input!Ends(k), k.op # "prompt"
        PROVE  /\ \A j \in calls : j.op = "prompt" => j \in calls'
               /\ \A j \in calls' : j.op = "prompt" => j \in calls
    BY <1>2 DEF Input!Ends
  <1>3. ASSUME NEW later, Input!Becomes(k, later), k.op # "prompt", later.op # "prompt"
        PROVE  /\ \A j \in calls : j.op = "prompt" => j \in calls'
               /\ \A j \in calls' : j.op = "prompt" => j \in calls
    BY <1>3 DEF Input!Becomes
  <1>4. \A id, c : Input!Pass(id, c).op # "prompt"
    BY DEF Input!Pass
  <1>5. \A step : [k EXCEPT !.step = step].op = k.op
    BY <1>1 DEF Input!Errands
  <1>6. \A paths : [k EXCEPT !.step = "back", !.paths = paths].op = k.op
    BY <1>1 DEF Input!Errands
  <1>7. CASE Input!ReadPins(k)
    <2>1. Input!Becomes(k, [k EXCEPT !.step = "back", !.paths = pins[k.on]]) /\ k.op = "refresh"
      BY <1>7 DEF Input!ReadPins
    <2>2. /\ \A j \in calls : j.op = "prompt" => j \in calls'
          /\ \A j \in calls' : j.op = "prompt" => j \in calls
      BY <1>3, <1>6, <2>1
    <2> QED
      BY <1>7, <2>2, AttachedAside DEF Input!ReadPins
  <1>8. CASE Input!PinsAnswered(k)
    <2>1. k.op = "refresh" /\ (Input!Becomes(k, [k EXCEPT !.step = "preview"]) \/ Input!Ends(k))
      BY <1>8 DEF Input!PinsAnswered
    <2>2. /\ \A j \in calls : j.op = "prompt" => j \in calls'
          /\ \A j \in calls' : j.op = "prompt" => j \in calls
      BY <1>2, <1>3, <1>5, <2>1
    <2> QED
      BY <1>8, <2>2, AttachedAside DEF Input!PinsAnswered
  <1>9. CASE Input!TakePin(k) \/ Input!PinAnswered(k)
    <2>1. /\ k.op # "prompt"
          /\ Input!Becomes(k, [k EXCEPT !.step = "back"]) \/ Input!Becomes(k, Input!Pass(k.id, k.on))
      BY <1>9 DEF Input!TakePin, Input!PinAnswered
    <2>2. /\ \A j \in calls : j.op = "prompt" => j \in calls'
          /\ \A j \in calls' : j.op = "prompt" => j \in calls
      BY <1>3, <1>4, <1>5, <2>1
    <2> QED
      BY <1>9, <2>2, AttachedAside DEF Input!TakePin, Input!PinAnswered
  <1>10. CASE \/ Input!PreviewAnswered(k) \/ Input!LosePass(k) \/ Input!LosePin(k)
              \/ Input!SuggestionsAnswered(k)
    <2>1. k.op # "prompt" /\ Input!Ends(k)
      BY <1>10 DEF Input!PreviewAnswered, Input!LosePass, Input!LosePin, Input!SuggestionsAnswered
    <2>2. /\ \A j \in calls : j.op = "prompt" => j \in calls'
          /\ \A j \in calls' : j.op = "prompt" => j \in calls
      BY <1>2, <2>1
    <2> QED
      BY <1>10, <2>2, AttachedAside
      DEF Input!PreviewAnswered, Input!LosePass, Input!LosePin, Input!SuggestionsAnswered
  <1>11. CASE Input!UploadEnds(k)
    <2>1. k.op # "prompt" /\ Input!Ends(k) /\ UNCHANGED <<carried, waived>>
      BY <1>11 DEF Input!UploadEnds
    <2>2. /\ \A j \in calls : j.op = "prompt" => j \in calls'
          /\ \A j \in calls' : j.op = "prompt" => j \in calls
      BY <1>2, <2>1
    <2>3. \A u \in Attachable : attached'[u] = "no" <=> attached[u] = "no"
      BY <1>11 DEF Input!UploadEnds
    <2> QED
      BY <2>1, <2>2, <2>3, AttachedAside
  <1> QED
    BY <1>7, <1>8, <1>9, <1>10, <1>11

LEMMA AttachedOfPrompts ==
    ASSUME Input!ComposerTypeOK, AttachedFits, NEW k \in calls,
           Input!TakePrompt(k) \/ Input!PromptAnswered(k) \/ Input!LosePrompt(k)
    PROVE  AttachedFits'
  <1> SUFFICES ASSUME NEW u \in Attachable \ waived' PROVE ToBeTaken(u)' /\ Taken(u)'
    BY DEF AttachedFits
  <1>1. k \in Input!Errands /\ k.op = "prompt" /\ u \in Attachable \ waived
    BY DEF Input!ComposerTypeOK, Input!RequestsOK, Input!TakePrompt, Input!PromptAnswered,
           Input!LosePrompt
  <1>2. ToBeTaken(u) /\ Taken(u)
    BY <1>1 DEF AttachedFits
  <1>3. CASE Input!TakePrompt(k)
    <2> DEFINE later == [k EXCEPT !.step = "back"]
    <2>1. /\ calls' = (calls \ {k}) \cup {later} /\ UNCHANGED attached /\ k.step = "out"
          /\ carried'[u] = IF u \in k.files THEN carried[u] + 1 ELSE carried[u]
      BY <1>3 DEF Input!TakePrompt, Input!Becomes
    <2>2. later.op = "prompt" /\ later.step = "back" /\ later.files = k.files
      BY <1>1 DEF Input!Errands
    <2> HIDE DEF later
    <2>3. CASE carried[u] = 0
      <3>1. u \in k.files /\ carried'[u] = 1 /\ \A j \in calls : j.op = "prompt" => j = k
        BY <1>1, <1>2, <2>1, <2>3 DEF ToBeTaken
      <3>2. \A j \in calls' : j.op = "prompt" => j = later
        BY <2>1, <3>1
      <3> QED
        BY <2>1, <2>2, <3>1, <3>2 DEF ToBeTaken, Taken
    <2>4. CASE carried[u] # 0
      <3>1. u \notin k.files /\ carried'[u] = carried[u] /\ carried[u] = 1
        BY <1>1, <1>2, <2>1, <2>4 DEF Taken
      <3> QED
        BY <1>2, <2>1, <2>2, <2>4, <3>1 DEF ToBeTaken, Taken
    <2> QED
      BY <2>3, <2>4
  <1>4. CASE Input!PromptAnswered(k)
    <2>1. /\ calls' = calls \ {k} /\ UNCHANGED carried /\ attached'[u] = "no" /\ k.step = "back"
      BY <1>4 DEF Input!PromptAnswered, Input!Ends
    <2>2. carried[u] # 0
      BY <1>1, <1>2, <2>1 DEF ToBeTaken
    <2> QED
      BY <1>2, <2>1, <2>2 DEF ToBeTaken, Taken
  <1>5. CASE Input!LosePrompt(k)
    <2>1. /\ calls' = calls \ {k} /\ UNCHANGED <<carried, attached>>
          /\ k.step = "back" => u \notin k.files
      BY <1>5 DEF Input!LosePrompt, Input!Ends
    <2> QED
      BY <1>2, <2>1 DEF ToBeTaken, Taken
  <1> QED
    BY <1>3, <1>4, <1>5

LEMMA AttachedStep ==
    ASSUME Input!ComposerTypeOK, AttachedFits, [Input!ComposerNext]_(Input!composerVars)
    PROVE  AttachedFits'
  <1>1. CASE Input!ComposerNext
    BY <1>1, AttachedOfClicks, AttachedOfAttach, AttachedOfSend, AttachedOfAnswers, AttachedOfPrompts
    DEF Input!ComposerNext
  <1>2. CASE UNCHANGED Input!composerVars
    BY <1>2 DEF Input!composerVars, Input!requestVars, AttachedFits, ToBeTaken, Taken
  <1> QED
    BY <1>1, <1>2

\* What the composer keeps.
ComposerInv == Input!ComposerTypeOK /\ Wished /\ TrayInv /\ AttachedFits

LEMMA ComposerInvInit ==
    ASSUME Input!ComposerAssumption, Input!ComposerInit
    PROVE  ComposerInv
  BY ComposerTypeInit, InitIsWished, TrayInit, AttachedInit DEF ComposerInv

LEMMA ComposerInvStep ==
    ASSUME Input!ComposerAssumption, ComposerInv, [Input!ComposerNext]_(Input!composerVars)
    PROVE  ComposerInv'
  BY ComposerTypeStep, WishedStep, TrayInvStep, AttachedStep DEF ComposerInv, Wished

LEMMA ComposerHolds ==
    ASSUME ComposerInv
    PROVE  Input!PromptsCarryTheirPins /\ Input!TrayIsOfActive /\ Input!AttachedOnce
  <1>1. Input!PromptsCarryTheirPins
    BY DEF ComposerInv, Wished, RequestsAreWished, Input!PromptsCarryTheirPins
  <1>2. Input!TrayIsOfActive
    BY DEF ComposerInv, TrayInv, TrayFits, Filling, Input!TrayIsOfActive
  <1>3. Input!AttachedOnce
    BY DEF ComposerInv, AttachedFits, ToBeTaken, Taken, Input!AttachedOnce
  <1> QED
    BY <1>1, <1>2, <1>3

-----------------------------------------------------------------------------
(***************************************************************************)
(* The sidebar.                                                            *)
(***************************************************************************)

\* An edit of a text carries a text, a move a folder; only folders are made.
EditsFit ==
    \A k \in calls :
        /\ k.op = "text" => k.to \in Nat
        /\ k.op = "place" => k.to \in Folders \cup {Root}
        /\ k.op = "create" => k.on \in Folders

\* What may be among the requests.
FitEdit(k) ==
    /\ k \in Bar!Edits
    /\ k.op = "text" => k.to \in Nat
    /\ k.op = "place" => k.to \in Folders \cup {Root}
    /\ k.op = "create" => k.on \in Folders

SidebarTyped == Bar!SidebarTypeOK /\ EditsFit

LEMMA NewEditsFit ==
    ASSUME SidebarTyped, Bar!Act
    PROVE  /\ acts' \in 0 .. MaxActs
           /\ \A x \in Bar!Things : /\ FitEdit(Bar!Edit("text", x, acts + 1))
                                    /\ FitEdit(Bar!Edit("delete", x, Root))
                                    /\ \A to \in Folders \cup {Root} : FitEdit(Bar!Edit("place", x, to))
           /\ \A f \in Folders : FitEdit(Bar!Edit("create", f, Root))
  <1>1. acts + 1 \in 0 .. MaxActs /\ acts + 1 \in 1 .. MaxActs /\ acts + 1 \in Nat /\ acts' = acts + 1
    BY RequestsAssumption DEF SidebarTyped, Bar!SidebarTypeOK, Bar!RequestsOK, Bar!Act
  <1>2. ASSUME NEW x \in Bar!Things
        PROVE  FitEdit(Bar!Edit("text", x, acts + 1)) /\ FitEdit(Bar!Edit("delete", x, Root))
    BY <1>1 DEF Bar!Edit, Bar!Edits, FitEdit
  <1>3. ASSUME NEW x \in Bar!Things, NEW to \in Folders \cup {Root}
        PROVE  FitEdit(Bar!Edit("place", x, to))
    BY <1>1 DEF Bar!Edit, Bar!Edits, FitEdit
  <1>4. ASSUME NEW f \in Folders
        PROVE  FitEdit(Bar!Edit("create", f, Root))
    BY <1>1 DEF Bar!Edit, Bar!Edits, FitEdit, Bar!Things
  <1> QED
    BY <1>1, <1>2, <1>3, <1>4

\* A view stays one whatever is edited in it.
LEMMA ViewTypes ==
    ASSUME NEW view \in Bar!Views
    PROVE  /\ \A x : \A n \in Nat : [view EXCEPT !.text[x] = n] \in Bar!Views
           /\ \A x : \A to \in Folders \cup {Root} : Bar!SetPlace(view, x, to) \in Bar!Views
           /\ \A gone : [view EXCEPT !.there = view.there \ gone] \in Bar!Views
           /\ \A place \in [Bar!Things -> Folders \cup {Root}] : [view EXCEPT !.place = place] \in Bar!Views
           /\ \A x \in Bar!Things : [view EXCEPT !.there = view.there \cup {x}, !.place[x] = Root, !.text[x] = 0] \in Bar!Views
  BY DEF Bar!Views, Bar!SetPlace

LEMMA SidebarTypeInit ==
    ASSUME Bar!SidebarInit
    PROVE  SidebarTyped
  <1>1. Bar!RequestsOK(Bar!Edits)
    BY RequestsAssumption DEF Bar!SidebarInit, Bar!RequestsInit, Bar!RequestsOK
  <1>2. EditsFit
    BY DEF Bar!SidebarInit, Bar!RequestsInit, EditsFit
  <1>3. table \in Bar!Views
    <2>1. table \in [there: {Bar!Things \ Fresh}, text: {[x \in Bar!Things |-> 0]},
                     place: [Bar!Things -> (Folders \ Fresh) \cup {Root}]]
      BY DEF Bar!SidebarInit
    <2>2. [x \in Bar!Things |-> 0] \in [Bar!Things -> Nat]
      OBVIOUS
    <2>3. [Bar!Things -> (Folders \ Fresh) \cup {Root}] \subseteq [Bar!Things -> Folders \cup {Root}]
      OBVIOUS
    <2> QED
      BY <2>1, <2>2, <2>3 DEF Bar!Views
  <1>4. Fresh \subseteq Folders
    BY DeskAssumption DEF Bar!SidebarAssumption
  <1> QED
    BY <1>1, <1>2, <1>3, <1>4 DEF Bar!SidebarInit, SidebarTyped, Bar!SidebarTypeOK

LEMMA TypeOfShown ==
    ASSUME SidebarTyped, NEW view \in Bar!Views, NEW requests,
           Bar!Act => \A k \in requests : FitEdit(k),
           Bar!Act, list' = view, calls' \subseteq calls \cup requests,
           UNCHANGED <<faults, table, online, lists, unborn, strayed, tangled>>
    PROVE  SidebarTyped'
  <1>1. acts' \in 0 .. MaxActs
    BY NewEditsFit
  <1>2. \A k \in calls' : FitEdit(k)
    BY DEF SidebarTyped, Bar!SidebarTypeOK, Bar!RequestsOK, EditsFit, FitEdit
  <1>3. calls' \subseteq Bar!Edits /\ EditsFit'
    BY <1>2 DEF EditsFit, FitEdit
  <1> QED
    BY <1>1, <1>3 DEF SidebarTyped, Bar!SidebarTypeOK, Bar!RequestsOK

LEMMA TypeOfSidebarClicks ==
    ASSUME SidebarTyped,
           \/ \E x \in Bar!Things : Bar!RenameRow(x)
           \/ \E c \in Conversations : Bar!RenameInSidebar(c)
           \/ \E to \in Folders \cup {Root} :
                 \/ \E c \in Conversations : Bar!MoveConversation(c, to)
                 \/ \E cs \in SUBSET Conversations : Bar!BulkMove(cs, to)
                 \/ \E f \in Folders : Bar!MoveFolder(f, to)
           \/ \E cs \in SUBSET Conversations : Bar!DeleteConversations(cs)
           \/ \E f \in Folders : Bar!DeleteFolder(f) \/ Bar!CreateFolder(f)
    PROVE  SidebarTyped'
  <1>1. list \in Bar!Views /\ acts \in Nat
    BY DEF SidebarTyped, Bar!SidebarTypeOK, Bar!RequestsOK
  <1>2. /\ \A x : \A n \in Nat : [list EXCEPT !.text[x] = n] \in Bar!Views
        /\ \A x : \A to \in Folders \cup {Root} : Bar!SetPlace(list, x, to) \in Bar!Views
        /\ \A gone : [list EXCEPT !.there = list.there \ gone] \in Bar!Views
        /\ \A place \in [Bar!Things -> Folders \cup {Root}] : [list EXCEPT !.place = place] \in Bar!Views
    BY <1>1, ViewTypes
  <1>3. /\ Bar!Act => \A x \in Bar!Things :
                         /\ FitEdit(Bar!Edit("text", x, acts + 1))
                         /\ FitEdit(Bar!Edit("delete", x, Root))
                         /\ \A to \in Folders \cup {Root} : FitEdit(Bar!Edit("place", x, to))
        /\ Bar!Act => \A f \in Folders : FitEdit(Bar!Edit("create", f, Root))
        /\ Bar!Act => acts' \in 0 .. MaxActs
    BY NewEditsFit
  <1>4. Conversations \subseteq Bar!Things /\ Folders \subseteq Bar!Things
    BY DEF Bar!Things
  <1>5. acts + 1 \in Nat
    BY <1>1
  <1>6. ASSUME NEW view, NEW requests, Bar!Shown(view, requests), view \in Bar!Views,
               Bar!Act => \A k \in requests : FitEdit(k)
        PROVE  SidebarTyped'
    BY <1>6, TypeOfShown DEF Bar!Shown, Bar!Ask
  <1>7. ASSUME NEW x \in Bar!Things, Bar!RenameRow(x) PROVE SidebarTyped'
    <2>1. Bar!Shown([list EXCEPT !.text[x] = acts + 1], {Bar!Edit("text", x, acts + 1)})
      BY <1>7 DEF Bar!RenameRow
    <2>2. [list EXCEPT !.text[x] = acts + 1] \in Bar!Views
      BY <1>2, <1>5
    <2> QED
      BY <1>3, <1>6, <2>1, <2>2
  <1>8. ASSUME NEW c \in Conversations, Bar!RenameInSidebar(c) PROVE SidebarTyped'
    <2>1. list' = [list EXCEPT !.text[c] = acts + 1] /\ calls' = calls \cup {Bar!Edit("text", c, acts + 1)}
          /\ Bar!Act /\ UNCHANGED <<faults, table, online, lists, unborn, strayed, tangled>>
      BY <1>8 DEF Bar!RenameInSidebar, Bar!Ask
    <2>2. [list EXCEPT !.text[c] = acts + 1] \in Bar!Views
      BY <1>2, <1>5
    <2>3. \A k \in {Bar!Edit("text", c, acts + 1)} : FitEdit(k)
      BY <1>3, <1>4, <2>1
    <2> QED
      BY <2>1, <2>2, <2>3, TypeOfShown
  <1>9. ASSUME NEW x \in Bar!Things, NEW to \in Folders \cup {Root},
               Bar!Shown(Bar!SetPlace(list, x, to), {Bar!Edit("place", x, to)})
        PROVE  SidebarTyped'
    BY <1>2, <1>3, <1>6, <1>9
  <1>10. ASSUME NEW c \in Conversations, NEW to \in Folders \cup {Root}, Bar!MoveConversation(c, to)
         PROVE  SidebarTyped'
    BY <1>4, <1>9, <1>10 DEF Bar!MoveConversation
  <1>11. ASSUME NEW f \in Folders, NEW to \in Folders \cup {Root}, Bar!MoveFolder(f, to)
         PROVE  SidebarTyped'
    BY <1>4, <1>9, <1>11 DEF Bar!MoveFolder
  <1>12. ASSUME NEW cs \in SUBSET Conversations, NEW to \in Folders \cup {Root}, Bar!BulkMove(cs, to)
         PROVE  SidebarTyped'
    <2> DEFINE place == [x \in Bar!Things |-> IF x \in cs THEN to ELSE list.place[x]]
    <2>1. Bar!Shown([list EXCEPT !.place = place], {Bar!Edit("place", c, to) : c \in cs})
      BY <1>12 DEF Bar!BulkMove
    <2>2. place \in [Bar!Things -> Folders \cup {Root}]
      BY <1>1 DEF Bar!Views
    <2>3. [list EXCEPT !.place = place] \in Bar!Views
      BY <1>2, <2>2
    <2>4. Bar!Act => \A k \in {Bar!Edit("place", c, to) : c \in cs} : FitEdit(k)
      BY <1>3, <1>4
    <2> HIDE DEF place
    <2> QED
      BY <1>6, <2>1, <2>3, <2>4
  <1>13. ASSUME NEW cs \in SUBSET Conversations, Bar!DeleteConversations(cs)
         PROVE  SidebarTyped'
    <2>1. Bar!Shown([list EXCEPT !.there = list.there \ cs], {Bar!Edit("delete", c, Root) : c \in cs})
      BY <1>13 DEF Bar!DeleteConversations
    <2>2. [list EXCEPT !.there = list.there \ cs] \in Bar!Views
      BY <1>2
    <2>3. Bar!Act => \A k \in {Bar!Edit("delete", c, Root) : c \in cs} : FitEdit(k)
      BY <1>3, <1>4
    <2> QED
      BY <1>6, <2>1, <2>2, <2>3
  <1>14. ASSUME NEW f \in Folders, Bar!DeleteFolder(f) PROVE SidebarTyped'
    <2> DEFINE place == [x \in Bar!Things |-> IF x \in Conversations /\ list.place[x] = f
                                              THEN Root ELSE list.place[x]]
               view == [Bar!DropRow(list, f) EXCEPT !.place = place]
    <2>1. Bar!Shown(view, {Bar!Edit("delete", f, Root)})
      <3>1. Bar!DropRow(list, f).place = list.place
        BY <1>1 DEF Bar!DropRow, Bar!Views
      <3> QED
        BY <1>14, <3>1 DEF Bar!DeleteFolder
    <2>2. place \in [Bar!Things -> Folders \cup {Root}]
      BY <1>1 DEF Bar!Views
    <2>3. view \in Bar!Views
      BY <1>1, <2>2 DEF Bar!Views, Bar!DropRow
    <2>4. Bar!Act => \A k \in {Bar!Edit("delete", f, Root)} : FitEdit(k)
      BY <1>3, <1>4
    <2> HIDE DEF view
    <2> QED
      BY <1>6, <2>1, <2>3, <2>4
  <1>15. ASSUME NEW f \in Folders, Bar!CreateFolder(f) PROVE SidebarTyped'
    <2>1. /\ Bar!Act /\ calls' = calls \cup {Bar!Edit("create", f, Root)}
          /\ unborn' = unborn \ {f}
          /\ UNCHANGED <<faults, list, table, online, lists, strayed, tangled>>
      BY <1>15 DEF Bar!CreateFolder, Bar!Ask
    <2>2. \A k \in calls' : FitEdit(k)
      BY <1>3, <2>1 DEF SidebarTyped, Bar!SidebarTypeOK, Bar!RequestsOK, EditsFit, FitEdit
    <2>3. calls' \subseteq Bar!Edits /\ EditsFit'
      BY <2>2 DEF EditsFit, FitEdit
    <2> QED
      BY <1>3, <2>1, <2>3 DEF SidebarTyped, Bar!SidebarTypeOK, Bar!RequestsOK
  <1> QED
    BY <1>7, <1>8, <1>10, <1>11, <1>12, <1>13, <1>14, <1>15

LEMMA TypeOfSidebarRest ==
    ASSUME SidebarTyped,
           \/ \E k \in calls : Bar!TakeEdit(k) \/ Bar!ApplyCreated(k) \/ Bar!LoseEdit(k)
           \/ \E f, to \in Folders : Bar!OtherMoves(f, to)
           \/ Bar!DropConnection \/ Bar!ReadLists \/ Bar!ApplyLists
    PROVE  SidebarTyped'
  <1> USE DEF SidebarTyped, Bar!SidebarTypeOK, Bar!RequestsOK
  <1>1. Bar!Fault \/ UNCHANGED faults => faults' \in 0 .. MaxFaults
    BY RequestsAssumption DEF Bar!Fault
  <1>2. ASSUME NEW k \in calls, Bar!TakeEdit(k) PROVE SidebarTyped'
    <2>1. k \in Bar!Edits /\ k.on \in Bar!Things
      BY DEF Bar!Edits
    <2>2. [k EXCEPT !.step = "back"] \in Bar!Edits /\ [k EXCEPT !.step = "back"].op = k.op
          /\ [k EXCEPT !.step = "back"].on = k.on /\ [k EXCEPT !.step = "back"].to = k.to
      BY <2>1 DEF Bar!Edits
    <2>3. calls' \subseteq (calls \ {k}) \cup {[k EXCEPT !.step = "back"]}
      BY <1>2 DEF Bar!TakeEdit, Bar!Becomes, Bar!Ends
    <2>4. calls' \subseteq Bar!Edits /\ EditsFit'
      BY <2>2, <2>3 DEF EditsFit
    <2>5. Bar!After(k) \in Bar!Views
      <3>1. CASE k.op = "text"
        BY <2>1, <3>1 DEF EditsFit, Bar!After, Bar!Views
      <3>2. CASE k.op = "place"
        BY <2>1, <3>2 DEF EditsFit, Bar!After, Bar!SetPlace, Bar!Views
      <3>3. CASE k.op = "create"
        <4>1. Bar!After(k) = [table EXCEPT !.there = table.there \cup {k.on}, !.place[k.on] = Root,
                                          !.text[k.on] = 0]
          BY <3>3 DEF Bar!After
        <4> QED
          BY <2>1, <4>1, ViewTypes
      <3>4. CASE k.op = "delete"
        <4>1. Bar!DropRow(table, k.on).place = table.place
          BY DEF Bar!DropRow, Bar!Views
        <4>2. [x \in Bar!Things |-> IF table.place[x] = k.on THEN Root ELSE table.place[x]]
                 \in [Bar!Things -> Folders \cup {Root}]
          BY DEF Bar!Views
        <4> QED
          BY <2>1, <3>4, <4>1, <4>2 DEF Bar!After, Bar!DropRow, Bar!Views
      <3> QED
        BY <2>1, <3>1, <3>2, <3>3, <3>4 DEF Bar!Edits
    <2>6. table' \in Bar!Views /\ strayed' \in BOOLEAN
      BY <1>2, <2>5 DEF Bar!TakeEdit
    <2> QED
      BY <1>2, <2>4, <2>6 DEF Bar!TakeEdit
  <1>3. ASSUME NEW k \in calls, Bar!ApplyCreated(k) PROVE SidebarTyped'
    <2>1. k.on \in Bar!Things
      BY DEF Bar!Edits
    <2>2. list' = [list EXCEPT !.there = list.there \cup {k.on}, !.place[k.on] = Root, !.text[k.on] = 0]
      BY <1>3 DEF Bar!ApplyCreated
    <2>3. list' \in Bar!Views
      BY <2>1, <2>2, ViewTypes
    <2> QED
      BY <1>3, <2>3 DEF Bar!ApplyCreated, Bar!Ends, EditsFit
  <1>4. ASSUME NEW k \in calls, Bar!LoseEdit(k) PROVE SidebarTyped'
    BY <1>1, <1>4 DEF Bar!LoseEdit, Bar!Ends, EditsFit
  <1>5. ASSUME NEW f \in Folders, NEW to \in Folders, Bar!OtherMoves(f, to) PROVE SidebarTyped'
    <2>1. table' \in Bar!Views
      BY <1>5, ViewTypes DEF Bar!OtherMoves
    <2> QED
      BY <1>1, <1>5, <2>1 DEF Bar!OtherMoves, EditsFit
  <1>6. CASE Bar!DropConnection
    BY <1>1, <1>6 DEF Bar!DropConnection, EditsFit
  <1>7. CASE Bar!ReadLists
    BY <1>7 DEF Bar!ReadLists, EditsFit, Bar!requestVars
  <1>8. CASE Bar!ApplyLists
    BY <1>8 DEF Bar!ApplyLists, EditsFit, Bar!requestVars
  <1> QED
    BY <1>2, <1>3, <1>4, <1>5, <1>6, <1>7, <1>8

LEMMA SidebarTypeStep ==
    ASSUME SidebarTyped, [Bar!SidebarNext]_(Bar!sidebarVars)
    PROVE  SidebarTyped'
  <1>1. CASE Bar!SidebarNext
    BY <1>1, TypeOfSidebarClicks, TypeOfSidebarRest DEF Bar!SidebarNext
  <1>2. CASE UNCHANGED Bar!sidebarVars
    BY <1>2 DEF Bar!sidebarVars, Bar!requestVars, SidebarTyped, Bar!SidebarTypeOK, Bar!RequestsOK, EditsFit
  <1> QED
    BY <1>1, <1>2

\* No folders lie in each other.
Whole(view) ==
    ~\E S \in SUBSET Folders :
        S # {} /\ S \subseteq view.there /\ \A y \in S : Bar!ShownPlace(view, y) \in S

\* Everything is in a folder that there is, or at the root.
Placed(view) == \A x \in Bar!Things : view.place[x] \in view.there \cup {Root}

LEMMA ShownPlaces ==
    ASSUME NEW view \in Bar!Views, NEW x \in Bar!Things
    PROVE  /\ Bar!ShownPlace(view, x) \in Folders \cup {Root}
           /\ Bar!ShownPlace(view, x) # Root =>
                 Bar!ShownPlace(view, x) = view.place[x] /\ view.place[x] \in view.there
           /\ Placed(view) => Bar!ShownPlace(view, x) = view.place[x]
  BY DEF Bar!ShownPlace, Bar!Views, Placed

LEMMA WholeIsInTree ==
    ASSUME NEW view \in Bar!Views, Whole(view), NEW x \in view.there
    PROVE  Bar!InTree(view, x)
  <1>1. Root \notin Bar!Things /\ x \in Bar!Things
    BY DeskAssumption DEF Bar!SidebarAssumption, Bar!Views
  <1> SUFFICES ASSUME NEW below \in SUBSET Bar!Things, x \in below,
                      \A y \in below : Bar!ShownPlace(view, y) \in below
               PROVE  FALSE
    BY DEF Bar!InTree
  <1>2. \A y \in below : Bar!ShownPlace(view, y) \in below \cap Folders \cap view.there
    BY <1>1, ShownPlaces
  <1> QED
    BY <1>2 DEF Whole

LEMMA TreeIsWholeAtFirst ==
    ASSUME NEW view, \A f \in Folders : Bar!InTree(view, f)
    PROVE  Whole(view)
  BY DEF Whole, Bar!InTree, Bar!Things

\* A tree stays whole when folders only leave it or come out to the root.
LEMMA LooserIsWhole ==
    ASSUME NEW v, NEW w, Whole(v),
           \A y \in Folders \cap w.there :
              \/ Bar!ShownPlace(w, y) = Root
              \/ y \in v.there /\ Bar!ShownPlace(v, y) = Bar!ShownPlace(w, y)
    PROVE  Whole(w)
  <1>1. Root \notin Folders
    BY DeskAssumption DEF Bar!SidebarAssumption, Bar!Things
  <1> SUFFICES ASSUME NEW S \in SUBSET Folders, S # {}, S \subseteq w.there,
                      \A y \in S : Bar!ShownPlace(w, y) \in S
               PROVE  FALSE
    BY DEF Whole
  <1>2. \A y \in S : y \in v.there /\ Bar!ShownPlace(v, y) \in S
    BY <1>1
  <1> QED
    BY <1>2 DEF Whole

\* A move into a folder that is not below the one moved makes no cycle.
LEMMA MoveIsWhole ==
    ASSUME list \in Bar!Views, Whole(list), NEW f \in Folders, f \in list.there,
           NEW to \in (Folders \cap list.there) \cup {Root},
           to # Root => ~Bar!IsDescendant(to, f)
    PROVE  Whole(Bar!SetPlace(list, f, to))
  <1>1. Root \notin Folders /\ Folders \subseteq Bar!Things
    BY DeskAssumption DEF Bar!SidebarAssumption, Bar!Things
  <1>2. PICK w : w = Bar!SetPlace(list, f, to)
    OBVIOUS
  <1>3. /\ w.there = list.there
        /\ \A y \in Folders \ {f} : Bar!ShownPlace(w, y) = Bar!ShownPlace(list, y)
        /\ Bar!ShownPlace(w, f) = to
    BY <1>1, <1>2 DEF Bar!SetPlace, Bar!ShownPlace, Bar!Views
  <1> SUFFICES ASSUME NEW S \in SUBSET Folders, S # {}, S \subseteq w.there,
                      \A y \in S : Bar!ShownPlace(w, y) \in S
               PROVE  FALSE
    BY <1>2 DEF Whole
  <1>4. CASE f \notin S
    BY <1>3, <1>4 DEF Whole
  <1>5. CASE f \in S
    <2>1. to \in S /\ to # Root
      BY <1>1, <1>3, <1>5
    <2>2. PICK above \in SUBSET Folders :
             /\ to \in above /\ f \notin above
             /\ \A x \in above : Bar!ShownPlace(list, x) \in above \cup {Root}
      BY <2>1 DEF Bar!IsDescendant
    <2>3. \A y \in S \cap above : Bar!ShownPlace(list, y) \in S \cap above
      BY <1>1, <1>3, <2>2
    <2>4. S \cap above \in SUBSET Folders /\ S \cap above # {} /\ S \cap above \subseteq list.there
      BY <1>3, <2>1, <2>2
    <2> QED
      BY <2>3, <2>4 DEF Whole
  <1> QED
    BY <1>4, <1>5

\* w is v after the edits sent, which are of one click.
Follows(v, sent, w) ==
    /\ \A k \in sent : /\ k.op = "text" => w.text[k.on] = k.to
                       /\ k.op = "place" => w.place[k.on] = k.to
                       /\ k.op = "create" => /\ k.on \in w.there
                                             /\ w.place[k.on] = Root /\ w.text[k.on] = 0
                       /\ k.op = "delete" => k.on \notin w.there
    /\ \A x \in Bar!Things :
          /\ (\A k \in sent : k.op \in {"text", "create"} => k.on # x) => w.text[x] = v.text[x]
          /\ (\A k \in sent : k.op \in {"delete", "create"} => k.on # x) =>
                (x \in w.there <=> x \in v.there)
          /\ (\A k \in sent : k.op \in {"place", "create"} => k.on # x) =>
                w.place[x] = IF \E k \in sent : k.op = "delete" /\ k.on = v.place[x]
                             THEN Root ELSE v.place[x]

\* What is listed is v, but for the folders whose creation has not been answered.
Matches(v) ==
    /\ \A x \in Bar!Things :
          x \in list.there <=> (x \in v.there /\ \A k \in calls : k.op = "create" => k.on # x)
    /\ \A k \in calls : k.op = "create" =>
          /\ k.on \in v.there /\ v.place[k.on] = Root /\ v.text[k.on] = 0
          /\ \A x \in Bar!Things : list.place[x] # k.on
    /\ \A x \in list.there :
          list.text[x] = v.text[x] /\ Bar!ShownPlace(list, x) = v.place[x]

OutAt(n) == {k \in calls : k.step = "out" /\ k.id = n}

(***************************************************************************)
(* What the edits on their way make of the table when they are taken in    *)
(* order: plan[n] has those of the first n clicks.  No folder is ever in   *)
(* itself there, and on line the last one is what the page lists.          *)
(***************************************************************************)
Planned(plan) ==
    /\ plan[0] = table
    /\ \A m, n \in Nat :
          (m <= n /\ \A k \in calls : k.step = "out" => (k.id <= m \/ k.id > n)) =>
             plan[n] = plan[m]
    /\ \A n \in Nat : Follows(plan[n], OutAt(n + 1), plan[n + 1])
    /\ \A n \in Nat : Placed(plan[n]) /\ (~tangled => Whole(plan[n]))
    /\ online => Matches(plan[acts])

OnPlan == ~strayed => \E plan \in [Nat -> Bar!Views] : Planned(plan)

\* Only the edits of a bulk have one id, and a folder is created once.
EditsApart ==
    /\ \A k \in calls : k.id <= acts /\ (k.step = "back" => k.op = "create")
    /\ \A j, k \in calls : (j.id = k.id /\ j # k) =>
          /\ j.op \in {"place", "delete"} /\ j.op = k.op
          /\ j.on \in Conversations /\ j.on # k.on
    /\ \A j, k \in calls : (j.op = "create" /\ k.op = "create" /\ j.on = k.on) => j = k

Unnamed(view, f) == f \notin view.there /\ \A x \in Bar!Things : view.place[x] # f

\* A folder that was never created is nowhere.
UnbornUnknown ==
    \A f \in unborn :
        /\ Unnamed(list, f) /\ Unnamed(table, f) /\ (lists # NoLists => Unnamed(lists, f))
        /\ \A k \in calls : k.on # f /\ (k.op = "place" => k.to # f)

TreesWhole == ~tangled => Whole(list) /\ (lists # NoLists => Whole(lists))

SidebarInv ==
    SidebarTyped /\ EditsApart /\ UnbornUnknown /\ Placed(table) /\ TreesWhole /\ OnPlan

\* What a click with the edits sent does.
Click(sent) ==
    /\ acts' = acts + 1 /\ calls' = calls \cup sent
    /\ UNCHANGED <<table, online, lists, strayed, tangled>>
    /\ unborn' \subseteq unborn
    /\ \A k \in sent :
          /\ k.id = acts + 1 /\ k.step = "out"
          /\ k.on \in Bar!Things \ unborn' /\ (k.op = "place" => k.to \notin unborn')
          /\ k.op = "create" => k.on \in unborn
    /\ \A j, k \in sent : j # k =>
          /\ j.op \in {"place", "delete"} /\ j.op = k.op
          /\ j.on \in Conversations /\ j.on # k.on
    /\ \A f \in unborn' : Unnamed(list', f)
    /\ Whole(list) => Whole(list')
    /\ \A v \in Bar!Views : Placed(v) /\ online /\ Matches(v) =>
          \E w \in Bar!Views : Follows(v, sent, w) /\ Placed(w) /\ Matches(w)'
    /\ \A v \in Bar!Views : Placed(v) /\ ~online =>
          \E w \in Bar!Views : Follows(v, sent, w) /\ Placed(w) /\ (Whole(v) => Whole(w))

\* Off line nothing is sent.
LEMMA NothingFollows ==
    ASSUME NEW v \in Bar!Views
    PROVE  Follows(v, {}, v)
  BY DEF Follows

\* The edits of a click make one view of another.
LEMMA SameFollows ==
    ASSUME NEW v \in Bar!Views, NEW w \in Bar!Views, Follows(v, {}, w)
    PROVE  w = v
  BY DEF Follows, Bar!Views

LEMMA TextClick ==
    ASSUME SidebarInv, NEW x \in Bar!Things, x \in list.there, Bar!Act,
           NEW sent \in {{}, {Bar!Edit("text", x, acts + 1)}}, online => sent # {},
           calls' = calls \cup sent, list' = [list EXCEPT !.text[x] = acts + 1],
           UNCHANGED <<table, online, lists, unborn, strayed, tangled>>
    PROVE  Click(sent)
  <1>1. list \in Bar!Views /\ acts + 1 \in Nat
    BY DEF SidebarInv, SidebarTyped, Bar!SidebarTypeOK, Bar!RequestsOK
  <1>2. list'.there = list.there /\ list'.place = list.place
        /\ list'.text[x] = acts + 1 /\ \A y \in Bar!Things \ {x} : list'.text[y] = list.text[y]
    BY <1>1 DEF Bar!Views
  <1>3. \A k \in sent : /\ k.op = "text" /\ k.on = x /\ k.to = acts + 1
                        /\ k.id = acts + 1 /\ k.step = "out"
    BY DEF Bar!Edit
  <1>4. \A f \in unborn : x # f
    BY DEF SidebarInv, UnbornUnknown, Unnamed
  <1>5. \A f \in unborn' : Unnamed(list', f)
    BY <1>2 DEF SidebarInv, UnbornUnknown, Unnamed
  <1>6. Whole(list) => Whole(list')
    BY <1>2 DEF Whole, Bar!ShownPlace
  <1>7. ASSUME NEW v \in Bar!Views, Placed(v), online, Matches(v)
        PROVE  \E w \in Bar!Views : Follows(v, sent, w) /\ Placed(w) /\ Matches(w)'
    <2>1. PICK w : w = [v EXCEPT !.text[x] = acts + 1]
      OBVIOUS
    <2>2. w \in Bar!Views /\ w.there = v.there /\ w.place = v.place
          /\ w.text[x] = acts + 1 /\ \A y \in Bar!Things \ {x} : w.text[y] = v.text[y]
      BY <1>1, <2>1 DEF Bar!Views
    <2>3. Follows(v, sent, w)
      BY <1>3, <1>7, <2>2 DEF Follows
    <2>4. Matches(w)'
      BY <1>1, <1>2, <1>3, <1>7, <2>2 DEF Matches, Bar!ShownPlace, Bar!Views
    <2> QED
      BY <1>7, <2>2, <2>3, <2>4 DEF Placed
  <1>8. ASSUME NEW v \in Bar!Views, Placed(v)
        PROVE  \E w \in Bar!Views : Follows(v, sent, w) /\ Placed(w) /\ (Whole(v) => Whole(w))
    <2>1. CASE sent = {}
      BY <1>8, <2>1, NothingFollows
    <2>2. CASE sent # {}
      <3>1. PICK w : w = [v EXCEPT !.text[x] = acts + 1]
        OBVIOUS
      <3>2. w \in Bar!Views /\ w.there = v.there /\ w.place = v.place
            /\ w.text[x] = acts + 1 /\ \A y \in Bar!Things \ {x} : w.text[y] = v.text[y]
        BY <1>1, <3>1 DEF Bar!Views
      <3>3. Follows(v, sent, w)
        BY <1>3, <2>2, <3>2 DEF Follows
      <3>4. Placed(w) /\ (Whole(v) => Whole(w))
        BY <1>8, <3>2 DEF Placed, Whole, Bar!ShownPlace
      <3> QED
        BY <3>2, <3>3, <3>4
    <2> QED
      BY <2>1, <2>2
  <1> QED
    BY <1>3, <1>4, <1>5, <1>6, <1>7, <1>8 DEF Click, Bar!Act

LEMMA PlaceClick ==
    ASSUME SidebarInv, NEW to \in (Folders \cap list.there) \cup {Root},
           NEW moved \in SUBSET list.there, moved \subseteq Conversations \/ \E x : moved = {x},
           Bar!Act, NEW sent,
           sent = IF online THEN {Bar!Edit("place", x, to) : x \in moved} ELSE {},
           calls' = calls \cup sent, list' \in Bar!Views,
           list'.there = list.there, list'.text = list.text,
           \A x \in Bar!Things : list'.place[x] = IF x \in moved THEN to ELSE list.place[x],
           Whole(list) => Whole(list'),
           UNCHANGED <<table, online, lists, unborn, strayed, tangled>>
    PROVE  Click(sent)
  <1>1. list \in Bar!Views /\ moved \subseteq Bar!Things /\ unborn \subseteq Folders
        /\ Root \notin Bar!Things /\ Folders \subseteq Bar!Things
    BY DeskAssumption DEF SidebarInv, SidebarTyped, Bar!SidebarTypeOK, Bar!Views,
                          Bar!SidebarAssumption, Bar!Things
  <1>2. \A k \in sent : /\ k.op = "place" /\ k.on \in moved /\ k.to = to
                        /\ k.id = acts + 1 /\ k.step = "out"
    BY DEF Bar!Edit
  <1>3. \A j, k \in sent : j # k => j.on \in Conversations /\ j.on # k.on
    BY DEF Bar!Edit
  <1>4. \A f \in unborn : /\ f # to /\ f \notin moved
    BY <1>1 DEF SidebarInv, UnbornUnknown, Unnamed
  <1>5. \A f \in unborn' : Unnamed(list', f)
    BY <1>4 DEF SidebarInv, UnbornUnknown, Unnamed
  <1>6. ASSUME NEW v \in Bar!Views, Placed(v), online, Matches(v)
        PROVE  \E w \in Bar!Views : Follows(v, sent, w) /\ Placed(w) /\ Matches(w)'
    <2>1. PICK w : w = [v EXCEPT !.place = [x \in Bar!Things |-> IF x \in moved THEN to
                                                                 ELSE v.place[x]]]
      OBVIOUS
    <2>2. w \in Bar!Views /\ w.there = v.there /\ w.text = v.text
          /\ \A x \in Bar!Things : w.place[x] = IF x \in moved THEN to ELSE v.place[x]
      BY <1>1, <2>1 DEF Bar!Views
    <2>3. \A x \in moved : \E k \in sent : k.on = x /\ k.op = "place"
      <3>1. \A x \in moved : Bar!Edit("place", x, to) \in sent
        BY <1>6
      <3>2. \A x : Bar!Edit("place", x, to).on = x /\ Bar!Edit("place", x, to).op = "place"
        BY DEF Bar!Edit
      <3> QED
        BY <3>1, <3>2
    <2>4. Follows(v, sent, w)
      <3>1. ASSUME NEW x \in Bar!Things, \A k \in sent : k.op \in {"place", "create"} => k.on # x
            PROVE  w.place[x] = v.place[x] /\ ~\E k \in sent : k.op = "delete" /\ k.on = v.place[x]
        BY <1>2, <2>2, <2>3, <3>1
      <3> QED
        BY <1>1, <1>2, <2>2, <3>1 DEF Follows
    <2>5. Placed(w)
      BY <1>1, <1>6, <2>2 DEF Placed, Matches
    <2>6. \A k \in calls' : k.op = "create" => k \in calls
      BY <1>2
    <2>7. \A k \in calls : k.op = "create" => k.on # to
      BY <1>1, <1>6 DEF Matches, SidebarInv, SidebarTyped, EditsFit
    <2>8. \A x \in list.there : Bar!ShownPlace(list', x) = w.place[x]
      BY <1>1, <1>6, <2>2 DEF Matches, Bar!ShownPlace, Bar!Views
    <2>9. Matches(w)'
      <3>1. \A x \in Bar!Things :
               x \in list'.there <=> (x \in w.there /\ \A k \in calls' : k.op = "create" => k.on # x)
        BY <1>2, <1>6, <2>2, <2>6 DEF Matches
      <3>2. \A k \in calls' : k.op = "create" =>
               /\ k.on \in w.there /\ w.place[k.on] = Root /\ w.text[k.on] = 0
               /\ \A x \in Bar!Things : list'.place[x] # k.on
        <4> SUFFICES ASSUME NEW k \in calls, k.op = "create"
                     PROVE  /\ k.on \in w.there /\ w.place[k.on] = Root /\ w.text[k.on] = 0
                            /\ \A x \in Bar!Things : list'.place[x] # k.on
          BY <2>6
        <4>1. k.on \in Bar!Things /\ k.on \notin moved
          BY <1>1, <1>6 DEF Matches, SidebarInv, SidebarTyped, EditsFit
        <4> QED
          BY <1>6, <2>2, <2>7, <4>1 DEF Matches
      <3>3. \A x \in list'.there : list'.text[x] = w.text[x] /\ Bar!ShownPlace(list', x) = w.place[x]
        BY <1>6, <2>2, <2>8 DEF Matches
      <3> QED
        BY <3>1, <3>2, <3>3 DEF Matches
    <2> QED
      BY <2>2, <2>4, <2>5, <2>9
  <1>7. ASSUME NEW v \in Bar!Views, Placed(v), ~online
        PROVE  \E w \in Bar!Views : Follows(v, sent, w) /\ Placed(w) /\ (Whole(v) => Whole(w))
    BY <1>7, NothingFollows
  <1> QED
    BY <1>1, <1>2, <1>3, <1>4, <1>5, <1>6, <1>7 DEF Click, Bar!Act

LEMMA DropClick ==
    ASSUME SidebarInv,
           NEW gone \in SUBSET list.there, gone \subseteq Conversations \/ \E x : gone = {x},
           Bar!Act, NEW sent,
           sent = IF online THEN {Bar!Edit("delete", x, Root) : x \in gone} ELSE {},
           calls' = calls \cup sent, list' \in Bar!Views,
           list'.there = list.there \ gone, list'.text = list.text,
           \A x \in Bar!Things :
              \/ list'.place[x] = list.place[x] /\ (x \in Conversations => list.place[x] \notin gone)
              \/ list'.place[x] = Root /\ list.place[x] \in gone,
           UNCHANGED <<table, online, lists, unborn, strayed, tangled>>
    PROVE  Click(sent)
  <1>1. list \in Bar!Views /\ gone \subseteq Bar!Things /\ unborn \subseteq Folders
        /\ Root \notin Bar!Things /\ Folders \subseteq Bar!Things
    BY DeskAssumption DEF SidebarInv, SidebarTyped, Bar!SidebarTypeOK, Bar!Views,
                          Bar!SidebarAssumption, Bar!Things
  <1>2. \A k \in sent : /\ k.op = "delete" /\ k.on \in gone
                        /\ k.id = acts + 1 /\ k.step = "out"
    BY DEF Bar!Edit
  <1>3. \A j, k \in sent : j # k => j.on \in Conversations /\ j.on # k.on
    BY DEF Bar!Edit
  <1>4. \A f \in unborn : f \notin gone
    BY <1>1 DEF SidebarInv, UnbornUnknown, Unnamed
  <1>5. \A f \in unborn' : Unnamed(list', f)
    BY <1>1, <1>4 DEF SidebarInv, UnbornUnknown, Unnamed
  <1>6. \A x \in list'.there : Bar!ShownPlace(list', x) =
           IF Bar!ShownPlace(list, x) \in gone THEN Root ELSE Bar!ShownPlace(list, x)
    BY <1>1 DEF Bar!ShownPlace, Bar!Views
  <1>7. Whole(list) => Whole(list')
    BY <1>1, <1>6, LooserIsWhole DEF Bar!Views
  <1>8. ASSUME NEW v \in Bar!Views, Placed(v), online, Matches(v)
        PROVE  \E w \in Bar!Views : Follows(v, sent, w) /\ Placed(w) /\ Matches(w)'
    <2>1. PICK w : w = [v EXCEPT !.there = v.there \ gone,
                                 !.place = [x \in Bar!Things |-> IF v.place[x] \in gone THEN Root
                                                                 ELSE v.place[x]]]
      OBVIOUS
    <2>2. w \in Bar!Views /\ w.there = v.there \ gone /\ w.text = v.text
          /\ \A x \in Bar!Things : w.place[x] = IF v.place[x] \in gone THEN Root ELSE v.place[x]
      BY <1>1, <2>1 DEF Bar!Views
    <2>3. \A x : x \in gone <=> \E k \in sent : k.on = x /\ k.op = "delete"
      <3>1. \A x \in gone : Bar!Edit("delete", x, Root) \in sent
        BY <1>8
      <3>2. \A x : Bar!Edit("delete", x, Root).on = x /\ Bar!Edit("delete", x, Root).op = "delete"
        BY DEF Bar!Edit
      <3> QED
        BY <1>2, <3>1, <3>2
    <2>4. Follows(v, sent, w)
      <3>1. \A x : (\E k \in sent : k.op = "delete" /\ k.on = x) <=> x \in gone
        BY <2>3
      <3>2. \A x \in Bar!Things : (\A k \in sent : k.op \in {"delete", "create"} => k.on # x) =>
                                   (x \in w.there <=> x \in v.there)
        BY <2>2, <3>1
      <3>3. \A x \in Bar!Things : w.place[x] = IF \E k \in sent : k.op = "delete" /\ k.on = v.place[x]
                                               THEN Root ELSE v.place[x]
        BY <2>2, <3>1
      <3> QED
        BY <1>2, <2>2, <3>2, <3>3 DEF Follows
    <2>5. Placed(w)
      BY <1>1, <1>8, <2>2 DEF Placed
    <2>6. \A k \in calls' : k.op = "create" => k \in calls
      BY <1>2
    <2>7. \A x \in Bar!Things :
             x \in list'.there <=> (x \in w.there /\ \A k \in calls' : k.op = "create" => k.on # x)
      BY <1>2, <1>8, <2>2, <2>6 DEF Matches
    <2>8. \A k \in calls' : k.op = "create" =>
             /\ k.on \in w.there /\ w.place[k.on] = Root /\ w.text[k.on] = 0
             /\ \A x \in Bar!Things : list'.place[x] # k.on
      <3> SUFFICES ASSUME NEW k \in calls, k.op = "create"
                   PROVE  /\ k.on \in w.there /\ w.place[k.on] = Root /\ w.text[k.on] = 0
                          /\ \A x \in Bar!Things : list'.place[x] # k.on
        BY <2>6
      <3>1. k.on \in Bar!Things /\ k.on \notin gone /\ k.on # Root
        BY <1>1, <1>8 DEF Matches, SidebarInv, SidebarTyped, EditsFit
      <3> QED
        BY <1>8, <2>2, <3>1 DEF Matches
    <2>9. \A x \in list'.there : list'.text[x] = w.text[x] /\ Bar!ShownPlace(list', x) = w.place[x]
      BY <1>1, <1>6, <1>8, <2>2 DEF Matches, Bar!Views
    <2>10. Matches(w)'
      BY <2>7, <2>8, <2>9 DEF Matches
    <2> QED
      BY <2>2, <2>4, <2>5, <2>10
  <1>9. ASSUME NEW v \in Bar!Views, Placed(v), ~online
        PROVE  \E w \in Bar!Views : Follows(v, sent, w) /\ Placed(w) /\ (Whole(v) => Whole(w))
    BY <1>9, NothingFollows
  <1> QED
    BY <1>1, <1>2, <1>3, <1>4, <1>5, <1>7, <1>8, <1>9 DEF Click, Bar!Act

LEMMA CreateClick ==
    ASSUME SidebarInv, NEW f \in Folders, Bar!CreateFolder(f)
    PROVE  Click({Bar!Edit("create", f, Root)})
  <1>1. /\ Bar!Act /\ calls' = calls \cup {Bar!Edit("create", f, Root)} /\ f \in unborn
        /\ unborn' = unborn \ {f} /\ online
        /\ UNCHANGED <<list, table, online, lists, strayed, tangled>>
    BY DEF Bar!CreateFolder, Bar!Ask
  <1>2. list \in Bar!Views /\ Root \notin Bar!Things /\ f \in Bar!Things
    BY DeskAssumption DEF SidebarInv, SidebarTyped, Bar!SidebarTypeOK, Bar!SidebarAssumption,
                          Bar!Things
  <1>3. PICK k : k = Bar!Edit("create", f, Root)
    OBVIOUS
  <1>4. k.op = "create" /\ k.on = f /\ k.id = acts + 1 /\ k.step = "out"
    BY <1>3 DEF Bar!Edit
  <1>5. Unnamed(list, f) /\ \A j \in calls : j.on # f
    BY <1>1 DEF SidebarInv, UnbornUnknown
  <1>6. \A g \in unborn' : Unnamed(list', g)
    BY <1>1 DEF SidebarInv, UnbornUnknown, Unnamed
  <1>7. ASSUME NEW v \in Bar!Views, Placed(v), Matches(v)
        PROVE  \E w \in Bar!Views : Follows(v, {k}, w) /\ Placed(w) /\ Matches(w)'
    <2>1. PICK w : w = [v EXCEPT !.there = v.there \cup {f}, !.place[f] = Root, !.text[f] = 0]
      OBVIOUS
    <2>2. w \in Bar!Views /\ w.there = v.there \cup {f} /\ w.place[f] = Root /\ w.text[f] = 0
          /\ \A x \in Bar!Things \ {f} : w.place[x] = v.place[x] /\ w.text[x] = v.text[x]
      BY <1>2, <2>1 DEF Bar!Views
    <2>3. Follows(v, {k}, w)
      BY <1>4, <2>2 DEF Follows
    <2>4. Placed(w)
      BY <1>7, <2>2 DEF Placed
    <2>5. Matches(w)'
      BY <1>1, <1>2, <1>3, <1>4, <1>5, <1>7, <2>2 DEF Matches, Unnamed, Bar!Views
    <2> QED
      BY <2>2, <2>3, <2>4, <2>5
  <1> QED
    BY <1>1, <1>2, <1>3, <1>4, <1>6, <1>7 DEF Click, Bar!Act

SidebarClicks ==
    \/ \E x \in Bar!Things : Bar!RenameRow(x)
    \/ \E c \in Conversations : Bar!RenameInSidebar(c)
    \/ \E to \in Folders \cup {Root} :
          \/ \E c \in Conversations : Bar!MoveConversation(c, to)
          \/ \E cs \in SUBSET Conversations : Bar!BulkMove(cs, to)
          \/ \E f \in Folders : Bar!MoveFolder(f, to)
    \/ \E cs \in SUBSET Conversations : Bar!DeleteConversations(cs)
    \/ \E f \in Folders : Bar!DeleteFolder(f) \/ Bar!CreateFolder(f)

LEMMA SidebarClicksAreClicks ==
    ASSUME SidebarInv, SidebarClicks
    PROVE  \E sent : Click(sent)
  <1>1. /\ list \in Bar!Views /\ Conversations \subseteq Bar!Things /\ Folders \subseteq Bar!Things
        /\ Root \notin Bar!Things /\ Conversations \cap Folders = {}
    BY DeskAssumption DEF SidebarInv, SidebarTyped, Bar!SidebarTypeOK, Bar!SidebarAssumption,
                          Bar!Things
  <1>2. ASSUME NEW x \in Bar!Things, Bar!RenameRow(x) PROVE \E sent : Click(sent)
    <2>1. /\ x \in list.there /\ Bar!Act /\ list' = [list EXCEPT !.text[x] = acts + 1]
          /\ calls' = calls \cup (IF online THEN {Bar!Edit("text", x, acts + 1)} ELSE {})
          /\ UNCHANGED <<table, online, lists, unborn, strayed, tangled>>
      BY <1>2 DEF Bar!RenameRow, Bar!Shown, Bar!Ask
    <2> QED
      BY <2>1, TextClick
  <1>3. ASSUME NEW c \in Conversations, Bar!RenameInSidebar(c) PROVE \E sent : Click(sent)
    <2>1. /\ c \in list.there /\ Bar!Act /\ list' = [list EXCEPT !.text[c] = acts + 1]
          /\ calls' = calls \cup {Bar!Edit("text", c, acts + 1)}
          /\ UNCHANGED <<table, online, lists, unborn, strayed, tangled>>
      BY <1>3 DEF Bar!RenameInSidebar, Bar!Ask
    <2> QED
      BY <1>1, <2>1, TextClick
  <1>4. ASSUME NEW x \in list.there, NEW to \in (Folders \cap list.there) \cup {Root},
               Bar!Shown(Bar!SetPlace(list, x, to), {Bar!Edit("place", x, to)}),
               Whole(list) => Whole(Bar!SetPlace(list, x, to))
        PROVE  \E sent : Click(sent)
    <2>1. /\ Bar!Act /\ list' = Bar!SetPlace(list, x, to)
          /\ calls' = calls \cup (IF online THEN {Bar!Edit("place", x, to)} ELSE {})
          /\ UNCHANGED <<table, online, lists, unborn, strayed, tangled>>
      BY <1>4 DEF Bar!Shown, Bar!Ask
    <2>2. x \in Bar!Things
      BY <1>1 DEF Bar!Views
    <2>3. /\ list' \in Bar!Views /\ list'.there = list.there /\ list'.text = list.text
          /\ \A y \in Bar!Things : list'.place[y] = IF y \in {x} THEN to ELSE list.place[y]
      BY <1>1, <2>1, <2>2 DEF Bar!SetPlace, Bar!Views
    <2>4. {Bar!Edit("place", y, to) : y \in {x}} = {Bar!Edit("place", x, to)}
      OBVIOUS
    <2>5. Whole(list) => Whole(list')
      BY <1>4, <2>1
    <2>6. {x} \in SUBSET list.there
      OBVIOUS
    <2>7. PICK sent : sent = IF online THEN {Bar!Edit("place", y, to) : y \in {x}} ELSE {}
      OBVIOUS
    <2>8. calls' = calls \cup sent
      BY <2>1, <2>4, <2>7
    <2>9. Click(sent)
      BY <2>1, <2>3, <2>5, <2>6, <2>7, <2>8, PlaceClick
    <2> QED
      BY <2>9
  <1>5. ASSUME NEW to \in Folders \cup {Root}, NEW c \in Conversations, Bar!MoveConversation(c, to)
        PROVE  \E sent : Click(sent)
    <2>1. /\ c \in list.there /\ to \in (Folders \cap list.there) \cup {Root}
          /\ Bar!Shown(Bar!SetPlace(list, c, to), {Bar!Edit("place", c, to)})
      BY <1>5 DEF Bar!MoveConversation, Bar!MenuTargets
    <2>2. PICK w : w = Bar!SetPlace(list, c, to)
      OBVIOUS
    <2>3. w.there = list.there /\ \A y \in Folders : w.place[y] = list.place[y]
      BY <1>1, <2>2 DEF Bar!SetPlace, Bar!Views
    <2>4. Whole(list) => Whole(w)
      BY <2>3, LooserIsWhole DEF Bar!ShownPlace
    <2> QED
      BY <1>4, <2>1, <2>2, <2>4
  <1>6. ASSUME NEW to \in Folders \cup {Root}, NEW cs \in SUBSET Conversations, Bar!BulkMove(cs, to)
        PROVE  \E sent : Click(sent)
    <2>1. PICK place : place = [x \in Bar!Things |-> IF x \in cs THEN to ELSE list.place[x]]
      OBVIOUS
    <2>2. /\ cs \subseteq list.there /\ to \in (Folders \cap list.there) \cup {Root}
          /\ Bar!Act /\ list' = [list EXCEPT !.place = place]
          /\ calls' = calls \cup (IF online THEN {Bar!Edit("place", c, to) : c \in cs} ELSE {})
          /\ UNCHANGED <<table, online, lists, unborn, strayed, tangled>>
      BY <1>6, <2>1 DEF Bar!BulkMove, Bar!Shown, Bar!Ask
    <2>3. place \in [Bar!Things -> Folders \cup {Root}]
      BY <1>1, <2>1 DEF Bar!Views
    <2>4. /\ list' \in Bar!Views /\ list'.there = list.there /\ list'.text = list.text
          /\ \A y \in Bar!Things : list'.place[y] = IF y \in cs THEN to ELSE list.place[y]
      BY <1>1, <2>1, <2>2, <2>3 DEF Bar!Views
    <2>5. Whole(list) => Whole(list')
      BY <1>1, <2>4, LooserIsWhole DEF Bar!ShownPlace
    <2> QED
      BY <2>2, <2>4, <2>5, PlaceClick
  <1>7. ASSUME NEW to \in Folders \cup {Root}, NEW f \in Folders, Bar!MoveFolder(f, to)
        PROVE  \E sent : Click(sent)
    <2>1. /\ f \in list.there /\ to \in (Folders \cap list.there) \cup {Root}
          /\ to # Root => ~Bar!IsDescendant(to, f)
          /\ Bar!Shown(Bar!SetPlace(list, f, to), {Bar!Edit("place", f, to)})
      BY <1>7 DEF Bar!MoveFolder
    <2> QED
      BY <1>1, <1>4, <2>1, MoveIsWhole
  <1>8. ASSUME NEW cs \in SUBSET Conversations, Bar!DeleteConversations(cs)
        PROVE  \E sent : Click(sent)
    <2>1. /\ cs \subseteq list.there /\ Bar!Act /\ list' = [list EXCEPT !.there = list.there \ cs]
          /\ calls' = calls \cup (IF online THEN {Bar!Edit("delete", c, Root) : c \in cs} ELSE {})
          /\ UNCHANGED <<table, online, lists, unborn, strayed, tangled>>
      BY <1>8 DEF Bar!DeleteConversations, Bar!Shown, Bar!Ask
    <2>2. /\ list' \in Bar!Views /\ list'.there = list.there \ cs /\ list'.text = list.text
          /\ \A x \in Bar!Things : list'.place[x] = list.place[x] /\ list.place[x] \notin cs
      BY <1>1, <2>1 DEF Bar!Views, Bar!Things
    <2> QED
      BY <2>1, <2>2, DropClick
  <1>9. ASSUME NEW f \in Folders, Bar!DeleteFolder(f) PROVE \E sent : Click(sent)
    <2>1. Bar!DropRow(list, f).place = list.place
      BY <1>1 DEF Bar!DropRow, Bar!Views
    <2>2. PICK place : place = [x \in Bar!Things |-> IF x \in Conversations /\ list.place[x] = f
                                                     THEN Root ELSE list.place[x]]
      OBVIOUS
    <2>3. /\ f \in list.there /\ Bar!Act
          /\ list' = [Bar!DropRow(list, f) EXCEPT !.place = place]
          /\ calls' = calls \cup (IF online THEN {Bar!Edit("delete", f, Root)} ELSE {})
          /\ UNCHANGED <<table, online, lists, unborn, strayed, tangled>>
      BY <1>9, <2>1, <2>2 DEF Bar!DeleteFolder, Bar!Shown, Bar!Ask
    <2>4. place \in [Bar!Things -> Folders \cup {Root}]
      BY <1>1, <2>2 DEF Bar!Views
    <2>5. /\ list' \in Bar!Views /\ list'.there = list.there \ {f} /\ list'.text = list.text
          /\ list'.place = place
      BY <1>1, <2>3, <2>4 DEF Bar!Views, Bar!DropRow
    <2>6. \A x \in Bar!Things :
             \/ list'.place[x] = list.place[x] /\ (x \in Conversations => list.place[x] \notin {f})
             \/ list'.place[x] = Root /\ list.place[x] \in {f}
      BY <2>2, <2>5
    <2>7. {Bar!Edit("delete", x, Root) : x \in {f}} = {Bar!Edit("delete", f, Root)}
      OBVIOUS
    <2>8. {f} \in SUBSET list.there
      BY <2>3
    <2> QED
      BY <2>3, <2>5, <2>6, <2>7, <2>8, DropClick
  <1>10. ASSUME NEW f \in Folders, Bar!CreateFolder(f) PROVE \E sent : Click(sent)
    BY <1>10, CreateClick
  <1> QED
    BY <1>2, <1>3, <1>5, <1>6, <1>7, <1>8, <1>9, <1>10 DEF SidebarClicks

LEMMA EditNumbers ==
    ASSUME SidebarInv
    PROVE  /\ acts \in Nat
           /\ \A k \in calls : k.id \in Nat \ {0} /\ k.id <= acts /\ k.step \in {"out", "back"}
           /\ \A n \in Nat : n >= acts => OutAt(n + 1) = {}
  <1>1. acts \in Nat /\ calls \subseteq Bar!Edits /\ \A k \in calls : k.id <= acts
    BY DEF SidebarInv, SidebarTyped, Bar!SidebarTypeOK, Bar!RequestsOK, EditsApart
  <1>2. \A k \in calls : k.id \in Nat \ {0} /\ k.step \in {"out", "back"}
    BY <1>1 DEF Bar!Edits
  <1> QED
    BY <1>1, <1>2 DEF OutAt

\* The edits of a click come last in the plan.
LEMMA ClickOnPlan ==
    ASSUME SidebarInv, NEW sent, Click(sent), ~strayed,
           NEW plan \in [Nat -> Bar!Views], Planned(plan), TreesWhole'
    PROVE  \E later \in [Nat -> Bar!Views] : Planned(later)'
  <1>1. /\ acts \in Nat /\ acts' = acts + 1
        /\ \A k \in calls : k.id \in Nat \ {0} /\ k.id <= acts
        /\ calls' = calls \cup sent /\ \A k \in sent : k.id = acts + 1 /\ k.step = "out"
        /\ table' = table /\ online' = online /\ tangled' = tangled
    BY EditNumbers DEF Click
  <1>2. PICK v : v = plan[acts]
    OBVIOUS
  <1>3. v \in Bar!Views /\ Placed(v) /\ (~tangled => Whole(v)) /\ (online => Matches(v))
    BY <1>1, <1>2 DEF Planned
  <1>4. PICK w \in Bar!Views : /\ Follows(v, sent, w) /\ Placed(w) /\ (~tangled => Whole(w))
                               /\ online => Matches(w)'
    <2>1. CASE online
      <3>1. PICK w \in Bar!Views : Follows(v, sent, w) /\ Placed(w) /\ Matches(w)'
        BY <1>3, <2>1 DEF Click
      <3>2. ~tangled => Whole(list')
        BY <1>1 DEF TreesWhole
      <3>3. \A y \in Folders \cap w.there :
               \/ Bar!ShownPlace(w, y) = Root
               \/ y \in list'.there /\ Bar!ShownPlace(list', y) = Bar!ShownPlace(w, y)
        BY <3>1, ShownPlaces DEF Matches, Bar!Things
      <3>4. ~tangled => Whole(w)
        BY <3>2, <3>3, LooserIsWhole
      <3> QED
        BY <3>1, <3>4
    <2>2. CASE ~online
      BY <1>3, <2>2 DEF Click
    <2> QED
      BY <2>1, <2>2
  <1>5. PICK later : later = [n \in Nat |-> IF n <= acts THEN plan[n] ELSE w]
    OBVIOUS
  <1>6. /\ later \in [Nat -> Bar!Views]
        /\ \A n \in Nat : n <= acts => later[n] = plan[n]
        /\ \A n \in Nat : n > acts => later[n] = w
    BY <1>1, <1>5
  <1>7. \A n \in Nat : OutAt(n + 1)' = IF n = acts THEN sent ELSE OutAt(n + 1)
    BY <1>1 DEF OutAt
  <1>8. \A n \in Nat : Follows(later[n], OutAt(n + 1)', later[n + 1])
    <2> SUFFICES ASSUME NEW n \in Nat
                 PROVE  Follows(later[n], OutAt(n + 1)', later[n + 1])
      OBVIOUS
    <2>1. CASE n < acts
      BY <1>1, <1>6, <1>7, <2>1 DEF Planned
    <2>2. CASE n = acts
      BY <1>1, <1>2, <1>4, <1>6, <1>7, <2>2
    <2>3. CASE n > acts
      <3>1. OutAt(n + 1) = {} /\ OutAt(n + 1)' = OutAt(n + 1)
        BY <1>1, <1>7, <2>3, EditNumbers
      <3>2. later[n] = w /\ later[n + 1] = w
        BY <1>1, <1>6, <2>3
      <3> QED
        BY <3>1, <3>2, NothingFollows
    <2> QED
      BY <1>1, <2>1, <2>2, <2>3
  <1>9. ASSUME NEW m \in Nat, NEW n \in Nat, m <= n,
               \A k \in calls' : k.step = "out" => (k.id <= m \/ k.id > n)
        PROVE  later[n] = later[m]
    <2>1. CASE n <= acts
      BY <1>1, <1>6, <1>9, <2>1 DEF Planned
    <2>2. CASE m > acts
      BY <1>1, <1>6, <1>9, <2>2
    <2>3. CASE m <= acts /\ acts < n
      <3>1. sent = {}
        BY <1>1, <1>9, <2>3
      <3>2. w = v
        BY <1>3, <1>4, <3>1, SameFollows
      <3>3. plan[acts] = plan[m]
        <4>1. \A k \in calls : k.step = "out" => (k.id <= m \/ k.id > acts)
          BY <1>1, <1>9, <2>3
        <4> QED
          BY <1>1, <2>3, <4>1 DEF Planned
      <3> QED
        BY <1>1, <1>2, <1>6, <2>3, <3>2, <3>3
    <2> QED
      BY <1>1, <2>1, <2>2, <2>3
  <1>10. \A n \in Nat : Placed(later[n]) /\ (~tangled' => Whole(later[n]))
    <2> SUFFICES ASSUME NEW n \in Nat
                 PROVE  Placed(later[n]) /\ (~tangled' => Whole(later[n]))
      OBVIOUS
    <2>1. CASE n <= acts
      BY <1>1, <1>6, <2>1 DEF Planned
    <2>2. CASE n > acts
      BY <1>1, <1>4, <1>6, <2>2
    <2> QED
      BY <1>1, <2>1, <2>2
  <1>11. later[0] = table' /\ (online' => Matches(later[acts])')
    <2>1. later[acts'] = w
      BY <1>1, <1>6
    <2>2. later[0] = table'
      BY <1>1, <1>6 DEF Planned
    <2> QED
      BY <1>1, <1>4, <2>1, <2>2 DEF Matches
  <1>12. Planned(later)'
    BY <1>8, <1>9, <1>10, <1>11 DEF Planned
  <1> QED
    BY <1>6, <1>12

LEMMA ClickKeeps ==
    ASSUME SidebarInv, SidebarTyped', NEW sent, Click(sent)
    PROVE  SidebarInv'
  <1>1. EditsApart'
    <2>1. \A k \in calls' : k.id <= acts' /\ (k.step = "back" => k.op = "create")
      BY EditNumbers DEF SidebarInv, EditsApart, Click
    <2>2. \A j, k \in calls' : (j.id = k.id /\ j # k) =>
             /\ j.op \in {"place", "delete"} /\ j.op = k.op
             /\ j.on \in Conversations /\ j.on # k.on
      <3>1. \A j \in calls, k \in sent : j.id # k.id
        BY EditNumbers DEF Click
      <3> QED
        BY <3>1 DEF SidebarInv, EditsApart, Click
    <2>3. \A j, k \in calls' : (j.op = "create" /\ k.op = "create" /\ j.on = k.on) => j = k
      <3>1. \A j \in calls, k \in sent : k.op = "create" => j.on # k.on
        BY DEF SidebarInv, UnbornUnknown, Click
      <3> QED
        BY <3>1 DEF SidebarInv, EditsApart, Click
    <2> QED
      BY <2>1, <2>2, <2>3 DEF EditsApart
  <1>2. UnbornUnknown'
    BY DEF SidebarInv, UnbornUnknown, Unnamed, Click
  <1>3. Placed(table)'
    BY DEF SidebarInv, Placed, Click
  <1>4. TreesWhole'
    BY DEF SidebarInv, TreesWhole, Click
  <1>5. OnPlan'
    BY <1>4, ClickOnPlan DEF SidebarInv, OnPlan, Click
  <1> QED
    BY <1>1, <1>2, <1>3, <1>4, <1>5 DEF SidebarInv

\* The edits of one click may be taken one by one.
LEMMA RestFollows ==
    ASSUME NEW v \in Bar!Views, NEW one \in Bar!Views, NEW w \in Bar!Views,
           NEW some, NEW k \in some, Follows(v, some, w), Follows(v, {k}, one),
           k.op \in {"text", "place", "create", "delete"}, k.on \in Bar!Things,
           \A i, j \in some : i # j => /\ i.op \in {"place", "delete"} /\ i.op = j.op
                                       /\ i.on \in Conversations /\ i.on # j.on
    PROVE  Follows(one, some \ {k}, w)
  <1>1. Conversations \cap Folders = {} /\ Root \notin Bar!Things /\ Conversations \subseteq Bar!Things
    BY DeskAssumption DEF Bar!SidebarAssumption, Bar!Things
  <1>2. CASE \A j \in some : j = k
    <2>1. some = {k} /\ some \ {k} = {}
      BY <1>2
    <2>2. \A x \in Bar!Things : w.text[x] = one.text[x]
      BY <2>1 DEF Follows
    <2>3. \A x \in Bar!Things : x \in w.there <=> x \in one.there
      BY <2>1 DEF Follows
    <2>4. \A x \in Bar!Things : w.place[x] = one.place[x]
      BY <2>1 DEF Follows
    <2> QED
      BY <2>1, <2>2, <2>3, <2>4 DEF Follows
  <1>3. ASSUME NEW j \in some, j # k
        PROVE  Follows(one, some \ {k}, w)
    <2>1. /\ \A i \in some : i.op = k.op /\ (i # k => i.on # k.on)
          /\ k.op \in {"place", "delete"} /\ \A i \in some : i.on \in Conversations
      BY <1>3
    <2>2. \A x \in Bar!Things : one.text[x] = v.text[x] /\ w.text[x] = v.text[x]
      BY <2>1 DEF Follows
    <2>3. CASE k.op = "place"
      <3>1. \A x \in Bar!Things : /\ x \in one.there <=> x \in v.there
                                  /\ x \in w.there <=> x \in v.there
        BY <2>1, <2>3 DEF Follows
      <3>2. /\ \A i \in some : w.place[i.on] = i.to /\ one.place[k.on] = k.to
            /\ \A x \in Bar!Things : (\A i \in some : i.on # x) => w.place[x] = v.place[x]
            /\ \A x \in Bar!Things : x # k.on => one.place[x] = v.place[x]
        BY <2>1, <2>3 DEF Follows
      <3>3. \A x \in Bar!Things : (\A i \in some \ {k} : i.on # x) => w.place[x] = one.place[x]
        BY <3>2
      <3> QED
        BY <2>1, <2>2, <2>3, <3>1, <3>2, <3>3 DEF Follows
    <2>4. CASE k.op = "delete"
      <3>1. /\ \A i \in some : i.on \notin w.there
            /\ \A x \in Bar!Things : (\A i \in some : i.on # x) => (x \in w.there <=> x \in v.there)
            /\ k.on \notin one.there
            /\ \A x \in Bar!Things : x # k.on => (x \in one.there <=> x \in v.there)
        BY <2>1, <2>4 DEF Follows
      <3>2. \A x \in Bar!Things : \A i \in some : i.on # v.place[x]
        BY <1>1, <2>1 DEF Bar!Views
      <3>3. \A x \in Bar!Things : w.place[x] = v.place[x] /\ one.place[x] = v.place[x]
        BY <2>1, <2>4, <3>2 DEF Follows
      <3>4. \A x \in Bar!Things : (\A i \in some \ {k} : i.on # x) => (x \in w.there <=> x \in one.there)
        BY <3>1
      <3> QED
        BY <2>1, <2>2, <2>4, <3>1, <3>2, <3>3, <3>4 DEF Follows
    <2> QED
      BY <2>1, <2>3, <2>4
  <1> QED
    BY <1>2, <1>3

LEMMA AfterFollows ==
    ASSUME SidebarTyped, NEW k \in calls, NEW w, w = Bar!After(k)
    PROVE  /\ Follows(table, {k}, w)
           /\ (\A x \in Bar!Things : table.place[x] \in table.there \cup {Root}) /\ Bar!Accepted(k)
                 => Placed(w)
  <1>1. /\ table \in Bar!Views /\ k \in Bar!Edits /\ k.on \in Bar!Things
        /\ k.op \in {"text", "place", "create", "delete"}
    BY DEF SidebarTyped, Bar!SidebarTypeOK, Bar!RequestsOK, Bar!Edits
  <1>2. CASE k.op = "text"
    <2>1. /\ w.there = table.there /\ w.place = table.place /\ w.text[k.on] = k.to
          /\ \A x \in Bar!Things \ {k.on} : w.text[x] = table.text[x]
      BY <1>1, <1>2 DEF Bar!After, Bar!Views
    <2> QED
      BY <1>2, <2>1 DEF Follows, Placed
  <1>3. CASE k.op = "place"
    <2>1. /\ w.there = table.there /\ w.text = table.text /\ w.place[k.on] = k.to
          /\ \A x \in Bar!Things \ {k.on} : w.place[x] = table.place[x]
      BY <1>1, <1>3 DEF Bar!After, Bar!SetPlace, Bar!Views
    <2> QED
      BY <1>3, <2>1 DEF Follows, Placed, Bar!Accepted
  <1>4. CASE k.op = "create"
    <2>1. w = [table EXCEPT !.there = table.there \cup {k.on}, !.place[k.on] = Root, !.text[k.on] = 0]
      BY <1>4 DEF Bar!After
    <2>2. /\ w.there = table.there \cup {k.on} /\ w.place[k.on] = Root /\ w.text[k.on] = 0
          /\ \A x \in Bar!Things \ {k.on} : w.place[x] = table.place[x] /\ w.text[x] = table.text[x]
      BY <1>1, <2>1 DEF Bar!Views
    <2> QED
      BY <1>4, <2>2 DEF Follows, Placed
  <1>5. CASE k.op = "delete"
    <2>1. Bar!DropRow(table, k.on).place = table.place
      BY <1>1 DEF Bar!DropRow, Bar!Views
    <2>2. PICK place : place = [x \in Bar!Things |-> IF table.place[x] = k.on THEN Root
                                                     ELSE table.place[x]]
      OBVIOUS
    <2>3. w = [Bar!DropRow(table, k.on) EXCEPT !.place = place]
      BY <1>1, <1>5, <2>1, <2>2 DEF Bar!After
    <2>4. w.there = table.there \ {k.on} /\ w.text = table.text /\ w.place = place
      BY <1>1, <2>3 DEF Bar!DropRow, Bar!Views
    <2> QED
      BY <1>5, <2>2, <2>4 DEF Follows, Placed
  <1> QED
    BY <1>1, <1>2, <1>3, <1>4, <1>5

\* An edit taken in its turn is the first of the plan.
LEMMA TakeOnPlan ==
    ASSUME SidebarInv, NEW k \in calls, Bar!TakeEdit(k), SidebarTyped', Placed(table)', ~strayed',
           NEW plan \in [Nat -> Bar!Views], Planned(plan)
    PROVE  \E later \in [Nat -> Bar!Views] : Planned(later)'
  <1>1. /\ acts \in Nat /\ k.id \in Nat \ {0} /\ k.id <= acts
        /\ \A j \in calls : j.id \in Nat \ {0} /\ j.id <= acts
    BY EditNumbers
  <1>2. /\ k.step = "out" /\ Bar!Accepted(k) /\ table' = Bar!After(k)
        /\ \A j \in calls : j.step = "out" => ~(j.id < k.id)
        /\ UNCHANGED <<acts, list, online, tangled>>
        /\ calls' = (IF k.op = "create" THEN (calls \ {k}) \cup {[k EXCEPT !.step = "back"]}
                     ELSE calls \ {k})
    BY DEF Bar!TakeEdit, Bar!Overtakes, Bar!Becomes, Bar!Ends
  <1>3. /\ table \in Bar!Views /\ table' \in Bar!Views /\ k \in Bar!Edits /\ k.on \in Bar!Things
        /\ k.op \in {"text", "place", "create", "delete"}
    BY DEF SidebarInv, SidebarTyped, Bar!SidebarTypeOK, Bar!RequestsOK, Bar!Edits
  <1>4. [k EXCEPT !.step = "back"].step = "back" /\ [k EXCEPT !.step = "back"].op = k.op
        /\ [k EXCEPT !.step = "back"].on = k.on
    BY <1>3 DEF Bar!Edits
  <1>5. \A n \in Nat : OutAt(n)' = OutAt(n) \ {k}
    BY <1>2, <1>4 DEF OutAt
  <1>6. PICK one : one = table'
    OBVIOUS
  <1>7. Follows(table, {k}, one) /\ Placed(one)
    BY <1>2, <1>6, AfterFollows DEF SidebarInv, Placed
  <1>8. plan[k.id - 1] = table /\ k.id - 1 \in Nat /\ (k.id - 1) + 1 = k.id
    <2>1. k.id - 1 \in Nat /\ 0 <= k.id - 1 /\ (k.id - 1) + 1 = k.id
      BY <1>1
    <2>2. \A j \in calls : j.step = "out" => (j.id <= 0 \/ j.id > k.id - 1)
      BY <1>1, <1>2
    <2> QED
      BY <2>1, <2>2 DEF Planned
  <1>9. k \in OutAt(k.id) /\ Follows(table, OutAt(k.id), plan[k.id])
    <2>1. Follows(plan[k.id - 1], OutAt((k.id - 1) + 1), plan[(k.id - 1) + 1])
      BY <1>8 DEF Planned
    <2>2. k \in OutAt(k.id)
      BY <1>2 DEF OutAt
    <2> QED
      BY <1>8, <2>1, <2>2
  <1>10. \A i, j \in OutAt(k.id) : i # j => /\ i.op \in {"place", "delete"} /\ i.op = j.op
                                            /\ i.on \in Conversations /\ i.on # j.on
    BY DEF SidebarInv, EditsApart, OutAt
  <1>11. Follows(one, OutAt(k.id) \ {k}, plan[k.id])
    BY <1>1, <1>3, <1>6, <1>7, <1>9, <1>10, RestFollows
  <1>12. OutAt(k.id) = {k} => one = plan[k.id]
    <2> SUFFICES ASSUME OutAt(k.id) = {k} PROVE one = plan[k.id]
      OBVIOUS
    <2>1. OutAt(k.id) \ {k} = {}
      OBVIOUS
    <2> QED
      BY <1>1, <1>3, <1>6, <1>11, <2>1, SameFollows
  <1>13. ~tangled => Whole(one)
    <2> SUFFICES ASSUME ~tangled PROVE Whole(one)
      OBVIOUS
    <2>1. CASE k.on \in Folders
      <3>1. OutAt(k.id) = {k}
        BY <1>9, <1>10, <2>1, DeskAssumption DEF Bar!SidebarAssumption
      <3> QED
        BY <1>1, <1>12, <3>1 DEF Planned
    <2>2. CASE k.on \in Conversations
      <3>1. Conversations \cap Folders = {} /\ Root \notin Bar!Things /\ Folders \subseteq Bar!Things
        BY DeskAssumption DEF Bar!SidebarAssumption, Bar!Things
      <3>2. k.op # "create"
        BY <2>2, <3>1 DEF SidebarInv, SidebarTyped, EditsFit
      <3>3. \A y \in Folders : one.place[y] = table.place[y] /\ (y \in one.there <=> y \in table.there)
        <4> SUFFICES ASSUME NEW y \in Folders
                     PROVE  one.place[y] = table.place[y] /\ (y \in one.there <=> y \in table.there)
          OBVIOUS
        <4>1. k.on # y /\ k.on # table.place[y]
          BY <1>3, <2>2, <3>1 DEF Bar!Views
        <4> QED
          BY <1>7, <3>1, <4>1 DEF Follows
      <3>4. \A y \in Folders : Bar!ShownPlace(one, y) = one.place[y]
                               /\ Bar!ShownPlace(table, y) = table.place[y]
        BY <1>3, <1>6, <1>7, <3>1, ShownPlaces DEF SidebarInv
      <3>5. Whole(table)
        BY DEF Planned
      <3> QED
        BY <3>3, <3>4, <3>5, LooserIsWhole
    <2> QED
      BY <1>3, <2>1, <2>2 DEF Bar!Things
  <1>14. PICK later : later = [n \in Nat |-> IF n < k.id THEN one ELSE plan[n]]
    OBVIOUS
  <1>15. /\ later \in [Nat -> Bar!Views]
         /\ \A n \in Nat : n < k.id => later[n] = one
         /\ \A n \in Nat : n >= k.id => later[n] = plan[n]
    BY <1>1, <1>3, <1>6, <1>14
  <1>16. \A n \in Nat : Follows(later[n], OutAt(n + 1)', later[n + 1])
    <2> SUFFICES ASSUME NEW n \in Nat
                 PROVE  Follows(later[n], OutAt(n + 1)', later[n + 1])
      OBVIOUS
    <2>1. CASE n + 1 < k.id
      <3>1. OutAt(n + 1)' = {}
        BY <1>1, <1>2, <1>5, <2>1 DEF OutAt
      <3>2. later[n] = one /\ later[n + 1] = one
        BY <1>1, <1>15, <2>1
      <3> QED
        BY <1>3, <1>6, <3>1, <3>2, NothingFollows
    <2>2. CASE n + 1 = k.id
      <3>1. OutAt(n + 1)' = OutAt(k.id) \ {k}
        BY <1>1, <1>5, <2>2
      <3>2. later[n] = one /\ later[n + 1] = plan[k.id]
        BY <1>1, <1>15, <2>2
      <3> QED
        BY <1>11, <3>1, <3>2
    <2>3. CASE n + 1 > k.id
      <3>1. OutAt(n + 1)' = OutAt(n + 1)
        BY <1>1, <1>5, <2>3 DEF OutAt
      <3>2. later[n] = plan[n] /\ later[n + 1] = plan[n + 1]
        BY <1>1, <1>15, <2>3
      <3> QED
        BY <3>1, <3>2 DEF Planned
    <2> QED
      BY <1>1, <2>1, <2>2, <2>3
  <1>17. ASSUME NEW m \in Nat, NEW n \in Nat, m <= n,
                \A j \in calls' : j.step = "out" => (j.id <= m \/ j.id > n)
         PROVE  later[n] = later[m]
    <2>1. CASE n < k.id
      BY <1>1, <1>15, <1>17, <2>1
    <2>2. CASE m >= k.id
      <3>1. \A j \in calls : j.step = "out" => (j.id <= m \/ j.id > n)
        BY <1>1, <1>2, <1>17, <2>2
      <3> QED
        BY <1>1, <1>15, <1>17, <2>2, <3>1 DEF Planned
    <2>3. CASE m < k.id /\ k.id <= n
      <3>1. OutAt(k.id)' = {}
        BY <1>1, <1>17, <2>3 DEF OutAt
      <3>2. one = plan[k.id]
        BY <1>1, <1>5, <1>9, <1>12, <3>1
      <3>3. \A j \in calls : j.step = "out" => (j.id <= k.id \/ j.id > n)
        BY <1>1, <1>2, <1>17, <2>3
      <3>4. plan[n] = plan[k.id]
        BY <1>1, <2>3, <3>3 DEF Planned
      <3> QED
        BY <1>1, <1>15, <2>3, <3>2, <3>4
    <2> QED
      BY <1>1, <2>1, <2>2, <2>3
  <1>18. \A n \in Nat : Placed(later[n]) /\ (~tangled' => Whole(later[n]))
    <2> SUFFICES ASSUME NEW n \in Nat
                 PROVE  Placed(later[n]) /\ (~tangled' => Whole(later[n]))
      OBVIOUS
    <2>1. CASE n < k.id
      BY <1>2, <1>7, <1>13, <1>15, <2>1
    <2>2. CASE n >= k.id
      BY <1>2, <1>15, <2>2 DEF Planned
    <2> QED
      BY <1>1, <2>1, <2>2
  <1>19. later[0] = table'
    BY <1>1, <1>6, <1>15
  <1>20. online' => Matches(later[acts])'
    <2> SUFFICES ASSUME online PROVE Matches(later[acts])'
      BY <1>2
    <2>1. later[acts] = plan[acts] /\ acts' = acts /\ list' = list
      BY <1>1, <1>2, <1>15
    <2>2. Matches(plan[acts])
      BY DEF Planned
    <2>3. \A x : (\A j \in calls' : j.op = "create" => j.on # x) <=> (\A j \in calls : j.op = "create" => j.on # x)
      BY <1>2, <1>4
    <2>4. PICK w : w = plan[acts]
      OBVIOUS
    <2>5. \A j \in calls' : j.op = "create" =>
             /\ j.on \in w.there /\ w.place[j.on] = Root /\ w.text[j.on] = 0
             /\ \A x \in Bar!Things : list'.place[x] # j.on
      <3>1. \A j \in calls' : j.op = "create" => \E i \in calls : i.op = "create" /\ i.on = j.on
        BY <1>2, <1>4
      <3> QED
        BY <2>1, <2>2, <2>4, <3>1 DEF Matches
    <2>6. Matches(w)'
      BY <2>1, <2>2, <2>3, <2>4, <2>5 DEF Matches
    <2> QED
      BY <1>2, <2>1, <2>4, <2>6 DEF Matches
  <1>21. Planned(later)'
    BY <1>2, <1>16, <1>17, <1>18, <1>19, <1>20 DEF Planned
  <1> QED
    BY <1>15, <1>21

LEMMA SidebarFacts ==
    ASSUME SidebarInv
    PROVE  /\ list \in Bar!Views /\ table \in Bar!Views /\ lists \in Bar!Views \cup {NoLists}
           /\ calls \subseteq Bar!Edits /\ unborn \subseteq Folders
           /\ Root \notin Bar!Things /\ Folders \subseteq Bar!Things
           /\ \A k \in calls : k.on \in Bar!Things
  BY DeskAssumption DEF SidebarInv, SidebarTyped, Bar!SidebarTypeOK, Bar!RequestsOK, Bar!Edits,
                        Bar!SidebarAssumption, Bar!Things

LEMMA TakeKeeps ==
    ASSUME SidebarInv, SidebarTyped', NEW k \in calls, Bar!TakeEdit(k)
    PROVE  SidebarInv'
  <1>1. k \in Bar!Edits /\ k.on \in Bar!Things /\ k.op \in {"text", "place", "create", "delete"}
    BY SidebarFacts DEF Bar!Edits
  <1>2. PICK back : back = [k EXCEPT !.step = "back"]
    OBVIOUS
  <1>3. back.id = k.id /\ back.step = "back" /\ back.op = k.op /\ back.on = k.on /\ back.to = k.to
    BY <1>1, <1>2 DEF Bar!Edits
  <1>4. /\ table' = (IF Bar!Accepted(k) THEN Bar!After(k) ELSE table)
        /\ calls' = (IF k.op = "create" THEN (calls \ {k}) \cup {back} ELSE calls \ {k})
        /\ UNCHANGED <<acts, list, online, lists, unborn, tangled>>
        /\ ~strayed' => ~strayed
    BY <1>2 DEF Bar!TakeEdit, Bar!Becomes, Bar!Ends
  <1>5. Placed(table)'
    <2>1. CASE Bar!Accepted(k)
      <3>1. PICK w : w = Bar!After(k)
        OBVIOUS
      <3>2. Placed(w)
        BY <2>1, <3>1, AfterFollows DEF SidebarInv, Placed
      <3> QED
        BY <1>4, <2>1, <3>1, <3>2 DEF Placed
    <2>2. CASE ~Bar!Accepted(k)
      BY <1>4, <2>2 DEF SidebarInv, Placed
    <2> QED
      BY <2>1, <2>2
  <1>6. EditsApart'
    <2>1. \A j \in calls' : j.id <= acts' /\ (j.step = "back" => j.op = "create")
      BY <1>3, <1>4 DEF SidebarInv, EditsApart
    <2>2. \A i, j \in calls' : (i.id = j.id /\ i # j) =>
             /\ i.op \in {"place", "delete"} /\ i.op = j.op
             /\ i.on \in Conversations /\ i.on # j.on
      BY <1>3, <1>4 DEF SidebarInv, EditsApart
    <2>3. \A i, j \in calls' : (i.op = "create" /\ j.op = "create" /\ i.on = j.on) => i = j
      BY <1>3, <1>4 DEF SidebarInv, EditsApart
    <2> QED
      BY <2>1, <2>2, <2>3 DEF EditsApart
  <1>7. UnbornUnknown'
    <2> SUFFICES ASSUME NEW f \in unborn
                 PROVE  /\ Unnamed(list, f) /\ Unnamed(table', f)
                        /\ lists # NoLists => Unnamed(lists, f)
                        /\ \A j \in calls' : j.on # f /\ (j.op = "place" => j.to # f)
      BY <1>4 DEF UnbornUnknown, Unnamed
    <2>1. /\ Unnamed(list, f) /\ Unnamed(table, f) /\ (lists # NoLists => Unnamed(lists, f))
          /\ \A j \in calls : j.on # f /\ (j.op = "place" => j.to # f)
      BY DEF SidebarInv, UnbornUnknown
    <2>2. \A j \in calls' : j.on # f /\ (j.op = "place" => j.to # f)
      BY <1>3, <1>4, <2>1
    <2>3. Unnamed(table', f)
      <3>1. CASE ~Bar!Accepted(k)
        BY <1>4, <2>1, <3>1
      <3>2. CASE Bar!Accepted(k)
        <4>1. PICK w : w = Bar!After(k)
          OBVIOUS
        <4>2. Follows(table, {k}, w) /\ w = table'
          BY <1>4, <3>2, <4>1, AfterFollows DEF SidebarInv
        <4>3. f # Root /\ f \in Bar!Things
          BY SidebarFacts
        <4>4. f \notin w.there
          BY <2>1, <4>2, <4>3 DEF Follows, Unnamed
        <4>5. \A x \in Bar!Things : w.place[x] # f
          <5> SUFFICES ASSUME NEW x \in Bar!Things PROVE w.place[x] # f
            OBVIOUS
          <5>1. CASE k.op = "place" /\ k.on = x
            BY <2>1, <4>2, <5>1 DEF Follows
          <5>2. CASE k.op = "create" /\ k.on = x
            BY <4>2, <4>3, <5>2 DEF Follows
          <5>3. CASE ~(k.op \in {"place", "create"} /\ k.on = x)
            BY <2>1, <4>2, <4>3, <5>3 DEF Follows, Unnamed
          <5> QED
            BY <5>1, <5>2, <5>3
        <4> QED
          BY <4>2, <4>4, <4>5 DEF Unnamed
      <3> QED
        BY <3>1, <3>2
    <2> QED
      BY <2>1, <2>2, <2>3
  <1>8. TreesWhole'
    BY <1>4 DEF SidebarInv, TreesWhole
  <1>9. OnPlan'
    BY <1>4, <1>5, TakeOnPlan DEF SidebarInv, OnPlan
  <1> QED
    BY <1>5, <1>6, <1>7, <1>8, <1>9 DEF SidebarInv

LEMMA CreatedKeeps ==
    ASSUME SidebarInv, SidebarTyped', NEW k \in calls, Bar!ApplyCreated(k)
    PROVE  SidebarInv'
  <1>1. /\ k.step = "back" /\ calls' = calls \ {k}
        /\ list' = [list EXCEPT !.there = list.there \cup {k.on}, !.place[k.on] = Root,
                                !.text[k.on] = 0]
        /\ UNCHANGED <<acts, faults, table, online, lists, unborn, strayed, tangled>>
    BY DEF Bar!ApplyCreated, Bar!Ends
  <1>2. k.op = "create" /\ k.on \in Bar!Things /\ list \in Bar!Views /\ Root \notin Bar!Things
    BY <1>1, SidebarFacts DEF SidebarInv, EditsApart
  <1>3. /\ list'.there = list.there \cup {k.on} /\ list'.place[k.on] = Root /\ list'.text[k.on] = 0
        /\ \A x \in Bar!Things \ {k.on} : list'.place[x] = list.place[x] /\ list'.text[x] = list.text[x]
    BY <1>1, <1>2 DEF Bar!Views
  <1>4. EditsApart'
    BY <1>1 DEF SidebarInv, EditsApart
  <1>5. UnbornUnknown'
    <2> SUFFICES ASSUME NEW f \in unborn
                 PROVE  /\ Unnamed(list', f) /\ Unnamed(table, f)
                        /\ lists # NoLists => Unnamed(lists, f)
                        /\ \A j \in calls' : j.on # f /\ (j.op = "place" => j.to # f)
      BY <1>1 DEF UnbornUnknown, Unnamed
    <2>1. /\ Unnamed(list, f) /\ Unnamed(table, f) /\ (lists # NoLists => Unnamed(lists, f))
          /\ \A j \in calls : j.on # f /\ (j.op = "place" => j.to # f)
      BY DEF SidebarInv, UnbornUnknown
    <2>2. f # Root
      BY SidebarFacts
    <2> QED
      BY <1>1, <1>3, <2>1, <2>2 DEF Unnamed
  <1>6. Placed(table)' /\ (Whole(list) => Whole(list'))
    <2>1. ASSUME NEW y \in Folders \cap list'.there
          PROVE  \/ Bar!ShownPlace(list', y) = Root
                 \/ Bar!ShownPlace(list', y) = k.on
                 \/ y \in list.there /\ Bar!ShownPlace(list, y) = Bar!ShownPlace(list', y)
      BY <1>2, <1>3, SidebarFacts DEF Bar!ShownPlace
    <2>2. Bar!ShownPlace(list', k.on) = Root
      BY <1>3 DEF Bar!ShownPlace
    <2>3. Whole(list) => Whole(list')
      <3> SUFFICES ASSUME Whole(list), NEW S \in SUBSET Folders, S # {}, S \subseteq list'.there,
                          \A y \in S : Bar!ShownPlace(list', y) \in S
                   PROVE  FALSE
        BY DEF Whole
      <3>1. Root \notin S /\ k.on \notin S
        BY <2>2, SidebarFacts
      <3>2. \A y \in S : y \in list.there /\ Bar!ShownPlace(list, y) \in S
        BY <2>1, <3>1
      <3> QED
        BY <3>2 DEF Whole
    <2> QED
      BY <1>1, <2>3 DEF SidebarInv, Placed
  <1>7. TreesWhole'
    BY <1>1, <1>6 DEF SidebarInv, TreesWhole
  <1>8. ASSUME NEW v \in Bar!Views, Matches(v) PROVE Matches(v)'
    <2>1. \A j \in calls : j.op = "create" /\ j # k => j.on # k.on
      BY <1>2 DEF SidebarInv, EditsApart
    <2>2. k.on \in v.there /\ v.place[k.on] = Root /\ v.text[k.on] = 0
          /\ \A x \in Bar!Things : list.place[x] # k.on
      BY <1>2, <1>8 DEF Matches
    <2>3. \A x \in Bar!Things :
             x \in list'.there <=> (x \in v.there /\ \A j \in calls' : j.op = "create" => j.on # x)
      BY <1>1, <1>2, <1>3, <1>8, <2>1, <2>2 DEF Matches
    <2>4. \A j \in calls' : j.op = "create" =>
             /\ j.on \in v.there /\ v.place[j.on] = Root /\ v.text[j.on] = 0
             /\ \A x \in Bar!Things : list'.place[x] # j.on
      BY <1>1, <1>2, <1>3, <1>8, SidebarFacts DEF Matches
    <2>5. \A x \in list'.there : list'.text[x] = v.text[x] /\ Bar!ShownPlace(list', x) = v.place[x]
      <3> SUFFICES ASSUME NEW x \in list'.there
                   PROVE  list'.text[x] = v.text[x] /\ Bar!ShownPlace(list', x) = v.place[x]
        OBVIOUS
      <3>1. CASE x = k.on
        BY <1>3, <2>2, <3>1 DEF Bar!ShownPlace
      <3>2. CASE x # k.on
        <4>1. x \in list.there /\ x \in Bar!Things
          BY <1>2, <1>3, <3>2 DEF Bar!Views
        <4> QED
          BY <1>3, <1>8, <2>2, <3>2, <4>1 DEF Matches, Bar!ShownPlace
      <3> QED
        BY <3>1, <3>2
    <2> QED
      BY <2>3, <2>4, <2>5 DEF Matches
  <1>9. \A n : OutAt(n)' = OutAt(n)
    BY <1>1 DEF OutAt
  <1>10. OnPlan'
    <2> SUFFICES ASSUME ~strayed PROVE \E plan \in [Nat -> Bar!Views] : Planned(plan)'
      BY <1>1 DEF OnPlan
    <2>1. PICK plan \in [Nat -> Bar!Views] : Planned(plan)
      BY DEF SidebarInv, OnPlan
    <2>2. acts \in Nat /\ acts' = acts
      BY <1>1, EditNumbers
    <2>3. online => Matches(plan[acts])'
      BY <1>8, <2>1, <2>2 DEF Planned
    <2>4. \A j \in calls : j.step = "out" => j \in calls'
      BY <1>1
    <2>5. Planned(plan)'
      BY <1>1, <1>9, <2>1, <2>2, <2>3, <2>4 DEF Planned, Matches
    <2> QED
      BY <2>5
  <1> QED
    BY <1>4, <1>5, <1>6, <1>7, <1>10 DEF SidebarInv

LEMMA LoadKeeps ==
    ASSUME SidebarInv, SidebarTyped', Bar!ApplyLists
    PROVE  SidebarInv'
  <1>1. /\ lists # NoLists /\ list' = lists /\ lists' = NoLists /\ online' = TRUE
        /\ ~strayed' => calls = {} /\ lists = table
        /\ UNCHANGED <<calls, acts, table, unborn, tangled>>
    BY DEF Bar!ApplyLists, Bar!requestVars
  <1>2. EditsApart' /\ Placed(table)'
    BY <1>1 DEF SidebarInv, EditsApart, Placed
  <1>3. UnbornUnknown'
    BY <1>1 DEF SidebarInv, UnbornUnknown, Unnamed
  <1>4. TreesWhole'
    BY <1>1 DEF SidebarInv, TreesWhole
  <1>5. OnPlan'
    <2> SUFFICES ASSUME ~strayed' PROVE \E plan \in [Nat -> Bar!Views] : Planned(plan)'
      BY DEF OnPlan
    <2>1. calls' = {} /\ list' = table /\ Placed(table) /\ table \in Bar!Views
          /\ (~tangled => Whole(table))
      BY <1>1, SidebarFacts DEF SidebarInv, TreesWhole
    <2>2. PICK plan : plan = [n \in Nat |-> table]
      OBVIOUS
    <2>3. plan \in [Nat -> Bar!Views] /\ \A n \in Nat : plan[n] = table
      BY <2>1, <2>2
    <2>4. \A n \in Nat : OutAt(n + 1)' = {}
      BY <2>1 DEF OutAt
    <2>5. \A n \in Nat : Follows(plan[n], OutAt(n + 1)', plan[n + 1])
      BY <2>1, <2>3, <2>4, NothingFollows
    <2>6. acts \in Nat
      BY EditNumbers
    <2>7. \A x \in list'.there : Bar!ShownPlace(list', x) = table.place[x]
      BY <2>1, ShownPlaces DEF Bar!Views
    <2>8. Matches(table)'
      BY <1>1, <2>1, <2>7 DEF Matches
    <2>9. online' => Matches(plan[acts])'
      BY <1>1, <2>3, <2>6, <2>8 DEF Matches
    <2>10. Planned(plan)'
      BY <1>1, <2>1, <2>3, <2>5, <2>9 DEF Planned
    <2> QED
      BY <2>3, <2>10
  <1> QED
    BY <1>2, <1>3, <1>4, <1>5 DEF SidebarInv

LEMMA OtherSidebarKeeps ==
    ASSUME SidebarInv, SidebarTyped',
           \/ \E k \in calls : Bar!LoseEdit(k)
           \/ \E f, to \in Folders : Bar!OtherMoves(f, to)
           \/ Bar!DropConnection \/ Bar!ReadLists \/ UNCHANGED Bar!sidebarVars
    PROVE  SidebarInv'
  <1>1. ASSUME NEW k \in calls, Bar!LoseEdit(k) PROVE SidebarInv'
    <2>1. calls' = calls \ {k} /\ strayed' = TRUE
          /\ UNCHANGED <<acts, list, table, online, lists, unborn, tangled>>
      BY <1>1 DEF Bar!LoseEdit, Bar!Ends
    <2>2. EditsApart'
      BY <2>1 DEF SidebarInv, EditsApart
    <2>3. UnbornUnknown' /\ Placed(table)' /\ TreesWhole' /\ OnPlan'
      BY <2>1 DEF SidebarInv, UnbornUnknown, Unnamed, Placed, TreesWhole, OnPlan
    <2> QED
      BY <2>2, <2>3 DEF SidebarInv
  <1>2. ASSUME NEW f \in Folders, NEW to \in Folders, Bar!OtherMoves(f, to) PROVE SidebarInv'
    <2>1. /\ to \in table.there /\ table' = Bar!SetPlace(table, f, to) /\ strayed' = TRUE
          /\ UNCHANGED <<calls, acts, list, online, lists, unborn, tangled>>
      BY <1>2 DEF Bar!OtherMoves
    <2>2. table'.there = table.there
          /\ \A x \in Bar!Things : table'.place[x] \in {table.place[x], to}
      BY <2>1, SidebarFacts DEF Bar!SetPlace, Bar!Views
    <2>3. EditsApart' /\ TreesWhole' /\ OnPlan'
      BY <2>1 DEF SidebarInv, EditsApart, TreesWhole, OnPlan
    <2>4. Placed(table)'
      BY <2>1, <2>2 DEF SidebarInv, Placed
    <2>5. UnbornUnknown'
      BY <2>1, <2>2 DEF SidebarInv, UnbornUnknown, Unnamed
    <2> QED
      BY <2>3, <2>4, <2>5 DEF SidebarInv
  <1>3. ASSUME UNCHANGED <<calls, acts, list, table, unborn, strayed>>,
               online' => online,
               lists' = lists \/ (lists' = table /\ (~tangled' => ~strayed)),
               ~tangled' => ~tangled, ~strayed => (tangled' <=> tangled)
        PROVE  SidebarInv'
    <2>1. EditsApart' /\ Placed(table)'
      BY <1>3 DEF SidebarInv, EditsApart, Placed
    <2>2. UnbornUnknown'
      BY <1>3 DEF SidebarInv, UnbornUnknown, Unnamed
    <2>3. ~strayed /\ ~tangled => Whole(table)
      BY DEF SidebarInv, OnPlan, Planned
    <2>4. TreesWhole'
      BY <1>3, <2>3 DEF SidebarInv, TreesWhole
    <2>5. OnPlan'
      <3>1. \A n : OutAt(n)' = OutAt(n)
        BY <1>3 DEF OutAt
      <3>2. \A v : Matches(v)' <=> Matches(v)
        BY <1>3 DEF Matches
      <3> SUFFICES ASSUME ~strayed PROVE \E plan \in [Nat -> Bar!Views] : Planned(plan)'
        BY <1>3 DEF OnPlan
      <3>3. PICK plan \in [Nat -> Bar!Views] : Planned(plan)
        BY DEF SidebarInv, OnPlan
      <3>4. Matches(plan[acts]) => Matches(plan[acts])'
        BY <1>3 DEF Matches
      <3>5. Planned(plan)'
        BY <1>3, <3>1, <3>3, <3>4 DEF Planned
      <3> QED
        BY <3>5
    <2> QED
      BY <2>1, <2>2, <2>4, <2>5 DEF SidebarInv
  <1>4. CASE Bar!DropConnection
    BY <1>3, <1>4 DEF Bar!DropConnection
  <1>5. CASE Bar!ReadLists
    BY <1>3, <1>5 DEF Bar!ReadLists, Bar!requestVars
  <1>6. CASE UNCHANGED Bar!sidebarVars
    BY <1>3, <1>6 DEF Bar!sidebarVars, Bar!requestVars
  <1> QED
    BY <1>1, <1>2, <1>4, <1>5, <1>6

LEMMA SidebarInvInit ==
    ASSUME Bar!SidebarInit
    PROVE  SidebarInv
  <1>1. /\ calls = {} /\ acts = 0 /\ list = table /\ online = TRUE /\ lists = NoLists
        /\ unborn = Fresh /\ strayed = FALSE /\ tangled = FALSE
        /\ \A f \in Folders : Bar!InTree(table, f)
        /\ table.there = Bar!Things \ Fresh
        /\ table.place \in [Bar!Things -> (Folders \ Fresh) \cup {Root}]
    BY DEF Bar!SidebarInit, Bar!RequestsInit
  <1>2. /\ Root \notin Bar!Things /\ Folders \subseteq Bar!Things /\ Fresh \subseteq Folders
        /\ SidebarTyped /\ table \in Bar!Views
    BY <1>1, SidebarTypeInit, DeskAssumption
    DEF Bar!SidebarAssumption, Bar!Things, SidebarTyped, Bar!SidebarTypeOK
  <1>3. Placed(table)
    BY <1>1, <1>2 DEF Placed
  <1>4. EditsApart
    BY <1>1 DEF EditsApart
  <1>5. UnbornUnknown
    <2> SUFFICES ASSUME NEW f \in Fresh PROVE Unnamed(table, f)
      BY <1>1 DEF UnbornUnknown
    <2> QED
      BY <1>1, <1>2 DEF Unnamed
  <1>6. Whole(table)
    BY <1>1, TreeIsWholeAtFirst
  <1>7. TreesWhole
    BY <1>1, <1>6 DEF TreesWhole
  <1>8. OnPlan
    <2>1. PICK plan : plan = [n \in Nat |-> table]
      OBVIOUS
    <2>2. plan \in [Nat -> Bar!Views] /\ \A n \in Nat : plan[n] = table
      BY <1>2, <2>1
    <2>3. \A n \in Nat : OutAt(n + 1) = {}
      BY <1>1 DEF OutAt
    <2>4. \A n \in Nat : Follows(plan[n], OutAt(n + 1), plan[n + 1])
      BY <1>2, <2>2, <2>3, NothingFollows
    <2>5. \A x \in list.there : Bar!ShownPlace(list, x) = table.place[x]
      BY <1>1, <1>2, <1>3, ShownPlaces DEF Bar!Views
    <2>6. Matches(table)
      BY <1>1, <2>5 DEF Matches
    <2>7. Planned(plan)
      BY <1>1, <1>3, <1>6, <2>2, <2>4, <2>6 DEF Planned
    <2> QED
      BY <2>2, <2>7 DEF OnPlan
  <1> QED
    BY <1>2, <1>3, <1>4, <1>5, <1>7, <1>8 DEF SidebarInv

LEMMA SidebarInvStep ==
    ASSUME SidebarInv, [Bar!SidebarNext]_(Bar!sidebarVars)
    PROVE  SidebarInv'
  <1>1. SidebarTyped'
    BY SidebarTypeStep DEF SidebarInv
  <1>2. CASE SidebarClicks
    BY <1>1, <1>2, SidebarClicksAreClicks, ClickKeeps
  <1>3. CASE \E k \in calls : Bar!TakeEdit(k) \/ Bar!ApplyCreated(k)
    BY <1>1, <1>3, TakeKeeps, CreatedKeeps
  <1>4. CASE Bar!ApplyLists
    BY <1>1, <1>4, LoadKeeps
  <1> QED
    BY <1>1, <1>2, <1>3, <1>4, OtherSidebarKeeps DEF Bar!SidebarNext, SidebarClicks

LEMMA SidebarHolds ==
    ASSUME SidebarInv
    PROVE  Bar!SidebarTypeOK /\ Bar!SidebarAgrees /\ Bar!TreeIsWhole
  <1>1. ASSUME calls = {}, online, ~strayed
        PROVE  /\ list.there = table.there
               /\ \A x \in list.there :
                     /\ list.text[x] = table.text[x]
                     /\ Bar!ShownPlace(list, x) = Bar!ShownPlace(table, x)
    <2>1. PICK plan \in [Nat -> Bar!Views] : Planned(plan)
      BY <1>1 DEF SidebarInv, OnPlan
    <2>2. acts \in Nat
      BY EditNumbers
    <2>3. plan[acts] = table
      BY <1>1, <2>1, <2>2 DEF Planned
    <2>4. Matches(table)
      BY <1>1, <2>1, <2>3 DEF Planned
    <2>5. /\ table \in Bar!Views /\ list \in Bar!Views
          /\ \A x \in Bar!Things : Bar!ShownPlace(table, x) = table.place[x]
      BY SidebarFacts, ShownPlaces DEF SidebarInv
    <2>6. list.there = table.there
      BY <1>1, <2>4, <2>5 DEF Matches, Bar!Views
    <2> QED
      BY <2>4, <2>5, <2>6 DEF Matches, Bar!Views
  <1>2. ~tangled => \A x \in list.there : Bar!InTree(list, x)
    BY SidebarFacts, WholeIsInTree DEF SidebarInv, TreesWhole
  <1> QED
    BY <1>1, <1>2 DEF Bar!SidebarAgrees, Bar!TreeIsWhole, SidebarInv, SidebarTyped
=============================================================================
