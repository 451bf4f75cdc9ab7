------------------------------ MODULE Composer ------------------------------
(***************************************************************************)
(* The tray of context above the input, with the handlers and the effect   *)
(* of useDelamainBackend that fill it, and the input with its attachments  *)
(* (InputBar).  The backend keeps the pins of each conversation.           *)
(***************************************************************************)
EXTENDS PageRequests

CONSTANTS
    Talks,      \* conversations
    Notes,      \* what can be pinned
    Defaults,   \* the context files every preview lists
    Uploads     \* files the user attaches

ComposerAssumption == Notes \cap Defaults = {}

ContextPaths == Notes \cup Defaults

VARIABLES
    talk,       \* state.activeConversationId
    joined,     \* state.connection is "connected"
    tray,       \* state.vaultContextItems: "pinned", "suggested", or not there ("no")
    pins,       \* the pins the backend has
    attached,   \* attachments of the input: "ready" and "out" when uploaded, "no" when not there
    wished,     \* history: the notes pinned to each conversation, ever
    stale,      \* history: conversations whose tray need not become their pins
    carried,    \* history: how many prompts took each upload
    waived      \* history: uploads not attached yet, removed, sent again, or lost sight of

composerVars == <<requestVars, talk, joined, tray, pins, attached, wished, stale, carried, waived>>

Errands ==
    [id: 1 .. MaxActs, step: {"out", "back", "preview"},
     op: {"refresh", "pin", "unpin", "draft", "upload", "prompt"},
     on: Talks, paths: SUBSET ContextPaths, files: SUBSET Uploads]
Errand(op, on, paths, files) ==
    [id |-> acts + 1, step |-> "out", op |-> op, on |-> on, paths |-> paths, files |-> files]
Pass(id, on) ==
    [id |-> id, step |-> "out", op |-> "refresh", on |-> on, paths |-> {}, files |-> {}]

ComposerTypeOK ==
    /\ RequestsOK(Errands)
    /\ talk \in Talks /\ joined \in BOOLEAN
    /\ tray \in [ContextPaths -> {"pinned", "suggested", "no"}]
    /\ pins \in [Talks -> SUBSET Notes]
    /\ attached \in [Uploads -> {"uploading", "ready", "out", "failed", "no"}]
    /\ wished \in [Talks -> SUBSET Notes] /\ stale \subseteq Talks
    /\ carried \in [Uploads -> Nat] /\ waived \subseteq Uploads

Tray(paths) == [p \in ContextPaths |-> IF p \in paths THEN "pinned" ELSE "no"]
Pinned == {p \in ContextPaths : tray[p] = "pinned"}

ComposerInit ==
    /\ RequestsInit
    /\ pins \in [Talks -> {{}} \cup {{n} : n \in Notes}]
    /\ talk \in Talks /\ joined = TRUE
    /\ tray = Tray(IF pins[talk] = {} THEN {} ELSE pins[talk] \cup Defaults)
    /\ attached = [u \in Uploads |-> "no"]
    /\ wished = pins /\ stale = {}
    /\ carried = [u \in Uploads |-> 0] /\ waived = Uploads

-----------------------------------------------------------------------------
(* The tray. *)

\* The effect on the active conversation: an empty tray, and a pass that fills it.
SelectTalk(c) ==
    /\ joined /\ c # talk
    /\ Act
    /\ talk' = c
    /\ tray' = Tray({})
    /\ Ask({Pass(acts + 1, c)})
    /\ stale' = IF \E k \in calls : k.on = c /\ k.op \in {"refresh", "pin", "unpin"}
                THEN stale ELSE stale \ {c}
    /\ UNCHANGED <<faults, joined, pins, attached, wished, carried, waived>>

\* list_context_pins.
ReadPins(k) ==
    /\ k.op = "refresh" /\ k.step = "out"
    /\ Becomes(k, [k EXCEPT !.step = "back", !.paths = pins[k.on]])
    /\ UNCHANGED <<acts, faults, talk, joined, tray, pins, attached, wished, stale, carried, waived>>

\* Pins read: nothing to preview, or the preview is asked for.
PinsAnswered(k) ==
    /\ k.op = "refresh" /\ k.step = "back"
    /\ IF talk = k.on /\ k.paths # {}
       THEN Becomes(k, [k EXCEPT !.step = "preview"]) /\ UNCHANGED tray
       ELSE Ends(k) /\ tray' = IF talk = k.on THEN Tray({}) ELSE tray
    /\ UNCHANGED <<acts, faults, talk, joined, pins, attached, wished, stale, carried, waived>>

\* Mutant: an answer for another conversation is shown.
PreviewAnsweredToAll(k) ==
    /\ k.op = "refresh" /\ k.step = "preview"
    /\ Ends(k)
    /\ tray' = Tray(k.paths \cup Defaults)
    /\ UNCHANGED <<acts, faults, talk, joined, pins, attached, wished, stale, carried, waived>>

\* What the preview lists is pinned, the context files too.
PreviewAnswered(k) ==
    /\ k.op = "refresh" /\ k.step = "preview"
    /\ Ends(k)
    /\ tray' = IF talk = k.on THEN Tray(k.paths \cup Defaults) ELSE tray
    /\ UNCHANGED <<acts, faults, talk, joined, pins, attached, wished, stale, carried, waived>>

\* Without the preview the pins are shown; without the pins the tray stays.
LosePass(k) ==
    /\ k.op = "refresh"
    /\ Fault
    /\ Ends(k)
    /\ tray' = IF k.step = "preview" /\ talk = k.on THEN Tray(k.paths) ELSE tray
    /\ stale' = IF k.step = "preview" THEN stale ELSE stale \cup {k.on}
    /\ UNCHANGED <<acts, talk, joined, pins, attached, wished, carried, waived>>

\* handleAddVaultContext.
Pin(p) ==
    /\ Act
    /\ tray' = [tray EXCEPT ![p] = "pinned"]
    /\ Ask(IF joined THEN {Errand("pin", talk, {p}, {})} ELSE {})
    /\ wished' = [wished EXCEPT ![talk] = @ \cup {p}]
    /\ UNCHANGED <<faults, talk, joined, pins, attached, stale, carried, waived>>

\* Each has its cross, a suggestion too.
Chips == {p \in ContextPaths : tray[p] # "no"}

\* handleRemoveVaultContext.
Unpin(p) ==
    /\ p \in Chips
    /\ Act
    /\ tray' = [tray EXCEPT ![p] = "no"]
    /\ Ask(IF joined THEN {Errand("unpin", talk, {p}, {})} ELSE {})
    /\ UNCHANGED <<faults, talk, joined, pins, attached, wished, stale, carried, waived>>

TakePin(k) ==
    /\ k.op \in {"pin", "unpin"} /\ k.step = "out"
    /\ pins' = [pins EXCEPT ![k.on] = IF k.op = "pin" THEN @ \cup k.paths ELSE @ \ k.paths]
    /\ Becomes(k, [k EXCEPT !.step = "back"])
    /\ stale' = IF \E j \in calls : j.op = "refresh" /\ j.on = k.on /\ j.step # "out"
                THEN stale \cup {k.on} ELSE stale
    /\ UNCHANGED <<acts, faults, talk, joined, tray, attached, wished, carried, waived>>

\* Mutant: the pins are not read again.
PinAnsweredOnly(k) ==
    /\ k.op \in {"pin", "unpin"} /\ k.step = "back"
    /\ Ends(k)
    /\ UNCHANGED <<acts, faults, talk, joined, tray, pins, attached, wished, stale, carried, waived>>

PinAnswered(k) ==
    /\ k.op \in {"pin", "unpin"} /\ k.step = "back"
    /\ Becomes(k, Pass(k.id, k.on))
    /\ UNCHANGED <<acts, faults, talk, joined, tray, pins, attached, wished, stale, carried, waived>>

LosePin(k) ==
    /\ k.op \in {"pin", "unpin"}
    /\ Fault
    /\ Ends(k)
    /\ stale' = stale \cup {k.on}
    /\ UNCHANGED <<acts, talk, joined, tray, pins, attached, wished, carried, waived>>

\* handlePreviewVaultContext: suggestions for what is typed, or none for a short text.
Suggest(notes) ==
    [p \in ContextPaths |-> CASE tray[p] = "pinned" -> "pinned"
                       [] tray[p] # "pinned" /\ p \in notes -> "suggested"
                       [] OTHER -> "no"]

TypeDraft ==
    /\ joined
    /\ Act
    /\ \/ tray' = Suggest({}) /\ UNCHANGED calls
       \/ Ask({Errand("draft", talk, {}, {})}) /\ UNCHANGED tray
    /\ UNCHANGED <<faults, talk, joined, pins, attached, wished, stale, carried, waived>>

SuggestionsAnswered(k) ==
    /\ k.op = "draft"
    /\ \E n \in Notes : tray' = IF talk = k.on THEN Suggest({n}) ELSE tray
    /\ Ends(k)
    /\ UNCHANGED <<acts, faults, talk, joined, pins, attached, wished, stale, carried, waived>>

Leave ==
    /\ joined
    /\ Fault
    /\ joined' = FALSE
    /\ tray' = Tray({})
    /\ UNCHANGED <<calls, acts, talk, pins, attached, wished, stale, carried, waived>>

\* A load picks the conversation, and the effect fills the tray.
Rejoin(c) ==
    /\ ~joined
    /\ Act
    /\ joined' = TRUE
    /\ talk' = c
    /\ tray' = Tray({})
    /\ Ask({Pass(acts + 1, c)})
    /\ UNCHANGED <<faults, pins, attached, wished, stale, carried, waived>>

-----------------------------------------------------------------------------
(* The input. *)

\* uploadOneFile.
Attach(u) ==
    /\ attached[u] = "no" /\ carried[u] = 0
    /\ \A k \in calls : u \notin k.files
    /\ Act
    /\ attached' = [attached EXCEPT ![u] = "uploading"]
    /\ Ask({Errand("upload", talk, {}, {u})})
    /\ waived' = IF \E k \in calls : k.op = "prompt" THEN waived ELSE waived \ {u}
    /\ UNCHANGED <<faults, talk, joined, tray, pins, wished, stale, carried>>

UploadEnds(k) ==
    /\ k.op = "upload"
    /\ \E end \in {"ready", "failed"} :
          /\ attached' = [u \in Uploads |-> IF u \in k.files /\ attached[u] = "uploading"
                                            THEN end ELSE attached[u]]
          /\ IF end = "failed" THEN Fault ELSE UNCHANGED faults
    /\ Ends(k)
    /\ UNCHANGED <<acts, talk, joined, tray, pins, wished, stale, carried, waived>>

Detach(u) ==
    /\ attached[u] # "no"
    /\ attached' = [attached EXCEPT ![u] = "no"]
    /\ waived' = waived \cup {u}
    /\ UNCHANGED <<requestVars, talk, joined, tray, pins, wished, stale, carried>>

Ready == {u \in Uploads : attached[u] = "ready"}
Out == {u \in Uploads : attached[u] = "out"}

\* The switch of its chip: the prompt names what is out, but does not include it.
ToggleInclude(u) ==
    /\ u \in Ready \cup Out
    /\ attached' = [attached EXCEPT ![u] = IF @ = "ready" THEN "out" ELSE "ready"]
    /\ UNCHANGED <<requestVars, talk, joined, tray, pins, wished, stale, carried, waived>>

CanSend == \A u \in Uploads : attached[u] \in {"ready", "out", "no"}

\* Enter sends again while a prompt is on its way.  Off line it counts as sent.
SendPrompt ==
    /\ CanSend
    /\ Act
    /\ IF joined
       THEN /\ Ask({Errand("prompt", talk, Pinned, Ready)})
            /\ waived' = waived \cup Out \cup
                            (IF \E k \in calls : k.op = "prompt" THEN Ready ELSE {})
            /\ UNCHANGED attached
       ELSE /\ attached' = [u \in Uploads |-> "no"]
            /\ waived' = waived \cup Out \cup Ready
            /\ UNCHANGED calls
    /\ UNCHANGED <<faults, talk, joined, tray, pins, wished, stale, carried>>

\* submit_prompt.
TakePrompt(k) ==
    /\ k.op = "prompt" /\ k.step = "out"
    /\ carried' = [u \in Uploads |-> IF u \in k.files THEN carried[u] + 1 ELSE carried[u]]
    /\ Becomes(k, [k EXCEPT !.step = "back"])
    /\ UNCHANGED <<acts, faults, talk, joined, tray, pins, attached, wished, stale, waived>>

\* Mutant: the attachments stay.
PromptAnsweredKeeping(k) ==
    /\ k.op = "prompt" /\ k.step = "back"
    /\ Ends(k)
    /\ UNCHANGED <<acts, faults, talk, joined, tray, pins, attached, wished, stale, carried, waived>>

\* Whatever is attached by now is cleared.
PromptAnswered(k) ==
    /\ k.op = "prompt" /\ k.step = "back"
    /\ attached' = [u \in Uploads |-> "no"]
    /\ Ends(k)
    /\ UNCHANGED <<acts, faults, talk, joined, tray, pins, wished, stale, carried, waived>>

LosePrompt(k) ==
    /\ k.op = "prompt"
    /\ Fault
    /\ Ends(k)
    /\ waived' = IF k.step = "back" THEN waived \cup k.files ELSE waived
    /\ UNCHANGED <<acts, talk, joined, tray, pins, attached, wished, stale, carried>>

ComposerNext ==
    \/ \E c \in Talks : SelectTalk(c) \/ Rejoin(c)
    \/ \E n \in Notes : Pin(n)
    \/ \E p \in ContextPaths : Unpin(p)
    \/ TypeDraft \/ Leave \/ SendPrompt
    \/ \E u \in Uploads : Attach(u) \/ Detach(u) \/ ToggleInclude(u)
    \/ \E k \in calls :
          \/ ReadPins(k) \/ PinsAnswered(k) \/ PreviewAnswered(k) \/ LosePass(k)
          \/ TakePin(k) \/ PinAnswered(k) \/ LosePin(k)
          \/ SuggestionsAnswered(k) \/ UploadEnds(k)
          \/ TakePrompt(k) \/ PromptAnswered(k) \/ LosePrompt(k)

ComposerSpec == ComposerInit /\ [][ComposerNext]_composerVars

-----------------------------------------------------------------------------
(* Properties. *)

(***************************************************************************)
(* When all requests have ended the notes pinned in the tray are those     *)
(* pinned to the active conversation, over switches back and forth while   *)
(* passes and edits are on their way; unless an edit met a pass that had   *)
(* already read, or one of them was lost.                                  *)
(***************************************************************************)
TrayIsOfActive ==
    (calls = {} /\ joined /\ talk \notin stale) => Pinned \cap Notes = pins[talk]

(***************************************************************************)
(* A prompt never carries a note that nobody pinned to its conversation:   *)
(* one only suggested, or one pinned to another conversation.              *)
(***************************************************************************)
PromptsCarryTheirPins ==
    \A k \in calls : k.op = "prompt" => k.paths \cap Notes \subseteq wished[k.on]

(***************************************************************************)
(* An upload stays attached until a prompt has taken it, and goes with one *)
(* prompt; unless it was removed, left out, sent again, attached           *)
(* while a prompt was on its way, or sent off line, or an answer was lost. *)
(***************************************************************************)
AttachedOnce ==
    \A u \in Uploads \ waived :
        IF carried[u] = 0 THEN attached[u] # "no"
        ELSE carried[u] = 1 /\ (calls = {} => attached[u] = "no")
=============================================================================
