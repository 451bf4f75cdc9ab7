---------------------------- MODULE WorkersPanel ----------------------------
(***************************************************************************)
(* The workers panel (frontend/components/chat/WorkersPanel.tsx), the live *)
(* panes in its cards (WorkerTerminalXterm.tsx: an import, a socket and a  *)
(* label that outlive the render that started them) and the worker         *)
(* handlers of useDelamainBackend.  Of the backend (workers/manager.py,    *)
(* module Workers) only what it answers.                                   *)
(***************************************************************************)
EXTENDS PageRequests

CONSTANT Workers

VARIABLES
    cards,      \* state.workers; those not listed as "none"
    registry,   \* the rows of the backend
    connection, \* the label of each card's pane; "none" without a pane
    setups,     \* what the effects of the panes have under way
    astray      \* history: workers whose row the panel need not show

workerVars == <<requestVars, cards, registry, connection, setups, astray>>

\* Names and captured output are known by the act they come from.
Stamps == 0 .. MaxActs
Rows == [status: {"none", "running", "stopping", "stopped"}, name: Stamps]
Cards == [status: {"none", "running", "idle", "stopped"}, name: Stamps, output: Stamps]
NoRow == [status |-> "none", name |-> 0]

\* Mutant: the status is taken as it comes.
CardAsTold(row, output) == [status |-> row.status, name |-> row.name, output |-> output]

\* toUIWorker.
CardOf(row, output) ==
    [status |-> IF row.status = "stopping" THEN "idle" ELSE row.status,
     name |-> row.name, output |-> output]

Requests == [id: 1 .. MaxActs, step: {"out", "back"}, on: Workers, got: Rows,
             op: {"start", "rename", "stop", "kill", "capture"}]
Labels == {"connecting", "connected", "closed", "fallback"}
Setups == [on: Workers, live: BOOLEAN, current: BOOLEAN, text: Stamps,
           step: {"import", "opening", "open", "broken", "shut", "plain", "closing"}]

WorkersTypeOK ==
    /\ RequestsOK(Requests)
    /\ cards \in [Workers -> Cards]
    /\ registry \in [Workers -> Rows]
    /\ connection \in [Workers -> Labels \cup {"none"}]
    /\ setups \subseteq Setups
    /\ astray \subseteq Workers

WorkersInit ==
    /\ RequestsInit
    /\ registry \in [Workers -> {[NoRow EXCEPT !.status = st] : st \in {"none", "running", "stopped"}}]
    /\ cards = [w \in Workers |-> CardOf(registry[w], 0)]
    /\ connection = [w \in Workers |-> "none"]
    /\ setups = {} /\ astray = {}

-----------------------------------------------------------------------------
(* The effect of a pane: its cleanup, and its next setup. *)

Live(card) == card.status = "running"

\* A socket not yet closed is closed; an import goes on, and finds it is disposed.
Disposed(s) ==
    CASE s.step = "import" -> [s EXCEPT !.current = FALSE]
      [] s.step \in {"opening", "open", "broken"} -> [s EXCEPT !.current = FALSE, !.step = "closing"]
      [] OTHER -> s
Dispose(w) ==
    {IF s.on = w THEN Disposed(s) ELSE s :
        s \in {r \in setups : r.on # w \/ r.step \notin {"plain", "shut"}}}

Setup(w, card) ==
    [on |-> w, live |-> Live(card), current |-> TRUE, step |-> "import",
     text |-> IF Live(card) THEN 0 ELSE card.output]

\* A pane whose label is "closed" shows what was captured.
ShowCapture(s, card, label) ==
    IF s.current /\ label = "closed" /\ card.output # 0 THEN [s EXCEPT !.text = card.output] ELSE s

\* Mutant: the pane does not look at its worker again.
CardBecomesUnseen(w, card) ==
    /\ cards' = [cards EXCEPT ![w] = card]
    /\ UNCHANGED setups

\* The card changes; its pane is set up anew when the worker's state or its snapshot did.
CardBecomes(w, card) ==
    /\ cards' = [cards EXCEPT ![w] = card]
    /\ setups' =
          IF connection[w] # "none" /\ (\/ Live(card) # Live(cards[w])
                                        \/ ~Live(card) /\ card.output # cards[w].output)
          THEN Dispose(w) \cup {Setup(w, card)}
          ELSE {IF s.on = w THEN ShowCapture(s, card, connection[w]) ELSE s : s \in setups}

\* "Live pane", and the way in and out of full screen: another place, so another pane.
OpenPane(w) ==
    /\ cards[w].status # "none"
    /\ Act
    /\ connection' = [connection EXCEPT ![w] = IF Live(cards[w]) THEN "connecting" ELSE "fallback"]
    /\ setups' = Dispose(w) \cup {Setup(w, cards[w])}
    /\ UNCHANGED <<calls, faults, cards, registry, astray>>

HidePane(w) ==
    /\ connection[w] # "none"
    /\ Act
    /\ connection' = [connection EXCEPT ![w] = "none"]
    /\ setups' = Dispose(w)
    /\ UNCHANGED <<calls, faults, cards, registry, astray>>

-----------------------------------------------------------------------------
(* What the setups come to.  One that is disposed says nothing. *)

SetupBecomes(s, later) == setups' = (setups \ {s}) \cup {later}
Label(s, label) == connection' = [connection EXCEPT ![s.on] = label]

\* Mutant: it is not seen after the import that the pane is gone.
ImportedUnchecked(s) ==
    /\ s.step = "import"
    /\ SetupBecomes(s, [s EXCEPT !.step = IF s.live THEN "opening" ELSE "plain"])
    /\ IF ~s.live /\ s.current THEN Label(s, "fallback") ELSE UNCHANGED connection
    /\ UNCHANGED <<requestVars, cards, registry, astray>>

Imported(s) ==
    /\ s.step = "import"
    /\ CASE ~s.current -> setups' = setups \ {s} /\ UNCHANGED connection
         [] s.current /\ s.live -> SetupBecomes(s, [s EXCEPT !.step = "opening"]) /\ UNCHANGED connection
         [] OTHER -> SetupBecomes(s, [s EXCEPT !.step = "plain"]) /\ Label(s, "fallback")
    /\ UNCHANGED <<requestVars, cards, registry, astray>>

\* worker_pty accepts, and then looks for the session.
SocketOpens(s) ==
    /\ s.step = "opening"
    /\ SetupBecomes(s, [s EXCEPT !.step = "open"])
    /\ Label(s, "connected")
    /\ UNCHANGED <<requestVars, cards, registry, astray>>

SocketClosed(s, step) ==
    /\ SetupBecomes(s, ShowCapture([s EXCEPT !.step = step], cards[s.on], "closed"))
    /\ Label(s, "closed")

SocketErrors(s) ==
    /\ s.step = "open"
    /\ registry[s.on].status \notin {"running", "stopping"}
    /\ SocketClosed(s, "broken")
    /\ UNCHANGED <<requestVars, cards, registry, astray>>

SocketCloses(s) ==
    /\ s.step = "broken"
    /\ SocketClosed(s, "shut")
    /\ UNCHANGED <<requestVars, cards, registry, astray>>

LoseSocket(s) ==
    /\ s.step \in {"opening", "open"}
    /\ Fault
    /\ SocketClosed(s, "shut")
    /\ UNCHANGED <<calls, acts, cards, registry, astray>>

\* Mutant: the close of a socket left behind is heard by the pane that is there now.
ClosesLateHeard(s) ==
    /\ s.step = "closing"
    /\ setups' = setups \ {s}
    /\ IF connection[s.on] # "none" THEN Label(s, "closed") ELSE UNCHANGED connection
    /\ UNCHANGED <<requestVars, cards, registry, astray>>

ClosesLate(s) ==
    /\ s.step = "closing"
    /\ setups' = setups \ {s}
    /\ UNCHANGED <<requestVars, connection, cards, registry, astray>>

-----------------------------------------------------------------------------
(* The handlers.  Two requests for one worker may end in any order. *)

AskFor(op, w) ==
    /\ Act
    /\ Ask({[id |-> acts + 1, step |-> "out", op |-> op, on |-> w, got |-> NoRow]})
    /\ astray' = IF \E k \in calls : k.on = w THEN astray \cup {w} ELSE astray
    /\ UNCHANGED <<faults, registry, connection>>

\* handleStartWorker: listed with the answer.
StartWorker(w) ==
    /\ cards[w].status = "none" /\ registry[w].status = "none" /\ \A k \in calls : k.on # w
    /\ AskFor("start", w)
    /\ UNCHANGED <<cards, setups>>

\* Mutant: a stop is shown when it has been answered.
WorkerActionLater(op, w) ==
    /\ cards[w].status # "none"
    /\ op = "stop" => Live(cards[w])
    /\ AskFor(op, w)
    /\ UNCHANGED <<cards, setups>>

\* handleWorkerAction: a stop and a kill are shown before they are sent; handleRenameWorker is not.
WorkerAction(op, w) ==
    /\ cards[w].status # "none"
    /\ op = "stop" => Live(cards[w])
    /\ AskFor(op, w)
    /\ IF op \in {"stop", "kill"} THEN CardBecomes(w, [cards[w] EXCEPT !.status = "stopped"])
       ELSE UNCHANGED <<cards, setups>>

\* What the backend may make of a row: a stop may find the session still there.
Outcomes(k) ==
    LET row == registry[k.on]
    IN  CASE k.op = "start" -> {[status |-> st, name |-> k.id] : st \in {"running", "stopped"}}
          [] k.op = "rename" -> {[row EXCEPT !.name = k.id], row}
          [] k.op = "stop" /\ row.status = "running" ->
                {[row EXCEPT !.status = st] : st \in {"stopping", "stopped"}}
          [] k.op = "kill" /\ row.status # "stopped" -> {[row EXCEPT !.status = "stopped"]}
          [] OTHER -> {row}

TakeRequest(k) ==
    /\ k.step = "out"
    /\ \E row \in Outcomes(k) :
          /\ registry' = [registry EXCEPT ![k.on] = row]
          /\ astray' = IF row.status = "stopping" THEN astray \cup {k.on} ELSE astray
          /\ IF k.op \in {"stop", "kill"} THEN Ends(k)
             ELSE Becomes(k, [k EXCEPT !.step = "back", !.got = row])
    /\ UNCHANGED <<acts, faults, cards, connection, setups>>

\* A start is listed and a capture kept; a rename brings the whole row; one refused,
\* nothing.  There is nothing to capture of a session that is gone.
Answered(k) ==
    /\ k.step = "back"
    /\ LET card == cards[k.on]
       IN  CASE k.op = "start" -> CardBecomes(k.on, CardOf(k.got, 0))
             [] k.op = "capture" ->
                   CardBecomes(k.on, [card EXCEPT !.output = IF k.got.status = "stopped" THEN 0 ELSE k.id])
             [] k.op = "rename" /\ k.got.name = k.id -> CardBecomes(k.on, CardOf(k.got, card.output))
             [] OTHER -> UNCHANGED <<cards, setups>>
    /\ Ends(k)
    /\ UNCHANGED <<acts, faults, registry, connection, astray>>

LoseWork(k) ==
    /\ Fault
    /\ Ends(k)
    /\ astray' = astray \cup {k.on}
    /\ UNCHANGED <<acts, cards, registry, connection, setups>>

\* The session exits by itself, and the backend finds out.
WorkerExits(w) ==
    /\ registry[w].status \in {"running", "stopping"}
    /\ Fault
    /\ registry' = [registry EXCEPT ![w].status = "stopped"]
    /\ astray' = astray \cup {w}
    /\ UNCHANGED <<calls, acts, cards, connection, setups>>

WorkersNext ==
    \/ \E w \in Workers :
          \/ OpenPane(w) \/ HidePane(w)
          \/ StartWorker(w)
          \/ \E op \in {"rename", "stop", "kill", "capture"} : WorkerAction(op, w)
          \/ WorkerExits(w)
    \/ \E s \in setups :
          \/ Imported(s) \/ SocketOpens(s) \/ SocketErrors(s) \/ SocketCloses(s)
          \/ LoseSocket(s) \/ ClosesLate(s)
    \/ \E k \in calls : TakeRequest(k) \/ Answered(k) \/ LoseWork(k)

WorkersSpec == WorkersInit /\ [][WorkersNext]_workerVars

-----------------------------------------------------------------------------
(* Properties. *)

(***************************************************************************)
(* No socket to a worker's terminal is open, or being opened, but that of  *)
(* the pane now in the card: no import that ends after its pane was hidden *)
(* or set up anew opens one that nobody will close, and no two panes type  *)
(* into one worker.                                                        *)
(***************************************************************************)
SocketsHavePanes ==
    /\ \A s \in setups : s.step \in {"opening", "open", "broken"} =>
          s.current /\ connection[s.on] # "none" /\ Live(cards[s.on])
    /\ \A r, s \in setups : (r.on = s.on /\ r.current /\ s.current) => r = s

(***************************************************************************)
(* A pane that is not being set up says what it is: connected with its     *)
(* socket open, closed when that failed, and otherwise a snapshot, the     *)
(* last one captured; no socket left behind changes the label.             *)
(***************************************************************************)
PaneTellsItsState ==
    \A s \in setups : s.current =>
        /\ s.step = "open" => connection[s.on] = "connected"
        /\ s.step \in {"broken", "shut"} => connection[s.on] = "closed"
        /\ s.step = "plain" => connection[s.on] = "fallback" /\ s.text = cards[s.on].output
        /\ (s.step = "shut" /\ cards[s.on].output # 0) => s.text = cards[s.on].output

(***************************************************************************)
(* When all requests have ended the cards show the workers of the backend, *)
(* with their names; unless requests for a worker met, one was lost, a     *)
(* stop left it running, or its session exited by itself.                  *)
(***************************************************************************)
WorkersAgree ==
    calls = {} => \A w \in Workers \ astray :
        cards[w].status = registry[w].status /\ cards[w].name = registry[w].name
=============================================================================
