----------------------------- MODULE PanelFeeds -----------------------------
(***************************************************************************)
(* What the right panels poll while they are open (HealthPanel, UsagePanel,*)
(* SyncthingPanel), the resolution of sync conflicts, and direct actions,  *)
(* with their handlers in useDelamainBackend.                              *)
(***************************************************************************)
EXTENDS PageRequests

CONSTANTS
    Conflicts,  \* conflicting copies of files
    Actions,    \* direct actions
    Closed      \* no confirmation is open

FeedsAssumption ==
    Conflicts \cap Actions = {} /\ (Conflicts \cup Actions) \cap {"health", "usage", "conflicts"} = {}

Panels == {"health", "usage", "conflicts"}
Destructive == {"keep_canonical", "keep_conflict"}
Resolutions == Destructive \cup {"keep_both", "stage_review"}
Worlds == [health: 0 .. 1, usage: 0 .. 1, conflicts: SUBSET Conflicts]

VARIABLES
    live,       \* state.connection is "connected"
    open,       \* state.rightPanel
    world,      \* the health, the usage and the files there are
    shown,      \* what the page shows of them
    pending,    \* the resolution to confirm
    status,     \* the status of each direct action
    doubtful    \* history: actions that may run though they are offered

feedVars == <<requestVars, live, open, world, shown, pending, status, doubtful>>

Nothing == [health |-> 0, usage |-> 0, conflicts |-> {}]
Polls == [id: {0}, step: {"out", "back"}, op: {"poll"}, on: Panels, to: {"show"}, got: Worlds]
Errands == [id: 1 .. MaxActs, step: {"out", "back"}, op: {"resolve", "run", "mock"},
            on: Conflicts \cup Actions, to: Resolutions \cup {"show"}, got: {Nothing}]
Errand(op, on, to) ==
    [id |-> acts + 1, step |-> "out", op |-> op, on |-> on, to |-> to, got |-> Nothing]

FeedsTypeOK ==
    /\ RequestsOK(Polls \cup Errands)
    /\ live \in BOOLEAN /\ open \in Panels
    /\ world \in Worlds /\ shown \in Worlds
    /\ pending \in (Conflicts \X Destructive) \cup {Closed}
    /\ status \in [Actions -> {"idle", "running", "done", "error"}]
    /\ doubtful \subseteq Actions

FeedsInit ==
    /\ RequestsInit
    /\ live = TRUE /\ open \in Panels
    /\ world \in {w \in Worlds : w.health = 0 /\ w.usage = 0} /\ shown = world
    /\ pending = Closed
    /\ status = [a \in Actions |-> "idle"] /\ doubtful = {}

-----------------------------------------------------------------------------
(* Polls. *)

\* The interval of the open panel, or its refresh button.
Poll ==
    /\ live
    /\ \A k \in calls : ~(k.op = "poll" /\ k.step = "out")
    /\ Ask({[id |-> 0, step |-> "out", op |-> "poll", on |-> open, to |-> "show",
             got |-> Nothing]})
    /\ UNCHANGED <<acts, faults, live, open, world, shown, pending, status, doubtful>>

TakePoll(k) ==
    /\ k.op = "poll" /\ k.step = "out"
    /\ Becomes(k, [k EXCEPT !.step = "back", !.got = world])
    /\ UNCHANGED <<acts, faults, live, open, world, shown, pending, status, doubtful>>

\* Mutant: a conflict once gone stays gone.
PollAnsweredMerging(k) ==
    /\ k.op = "poll" /\ k.step = "back"
    /\ Ends(k)
    /\ shown' = [shown EXCEPT ![k.on] =
                    IF k.on = "conflicts" THEN @ \cap k.got.conflicts ELSE k.got[k.on]]
    /\ UNCHANGED <<acts, faults, live, open, world, pending, status, doubtful>>

\* Shown however old; only the part that the panel polls.
PollAnswered(k) ==
    /\ k.op = "poll" /\ k.step = "back"
    /\ Ends(k)
    /\ shown' = [shown EXCEPT ![k.on] = k.got[k.on]]
    /\ UNCHANGED <<acts, faults, live, open, world, pending, status, doubtful>>

\* A health poll that fails takes the page off line; the others are ignored.
LosePoll(k) ==
    /\ k.op = "poll"
    /\ Fault
    /\ Ends(k)
    /\ live' = (live /\ k.on # "health")
    /\ UNCHANGED <<acts, open, world, shown, pending, status, doubtful>>

\* The load that follows: everything, and every action offered again.
Recover ==
    /\ ~live
    /\ live' = TRUE
    /\ shown' = world
    /\ status' = [a \in Actions |-> "idle"]
    /\ doubtful' = doubtful \cup {k.on : k \in {j \in calls : j.op \in {"run", "mock"}}}
    /\ UNCHANGED <<requestVars, open, world, pending>>

OpenPanel(p) ==
    /\ open # p
    /\ Act
    /\ open' = p
    /\ pending' = Closed
    /\ UNCHANGED <<calls, faults, live, world, shown, status, doubtful>>

\* The backend's host: its health, its bill, a file with two versions.
WorldTurns ==
    /\ Fault
    /\ \/ \E h, u \in 0 .. 1 : world' = [world EXCEPT !.health = h, !.usage = u]
       \/ \E c \in Conflicts : world' = [world EXCEPT !.conflicts = @ \cup {c}]
    /\ world' # world
    /\ UNCHANGED <<calls, acts, live, open, shown, pending, status, doubtful>>

-----------------------------------------------------------------------------
(* Conflicts. *)

Resolve(c, to) == Ask(IF live THEN {Errand("resolve", c, to)} ELSE {})

\* handleRequestAction: a destructive one is confirmed first.
RequestResolution(c, to) ==
    /\ open = "conflicts" /\ pending = Closed
    /\ c \in shown.conflicts
    /\ Act
    /\ IF to \in Destructive THEN pending' = <<c, to>> /\ UNCHANGED calls
       ELSE Resolve(c, to) /\ UNCHANGED pending
    /\ UNCHANGED <<faults, live, open, world, shown, status, doubtful>>

\* The confirmation stays open when a poll takes the conflict away.
ConfirmResolution ==
    /\ pending # Closed
    /\ pending' = Closed
    /\ Act
    /\ Resolve(pending[1], pending[2])
    /\ UNCHANGED <<faults, live, open, world, shown, status, doubtful>>

CancelResolution ==
    /\ pending # Closed
    /\ pending' = Closed
    /\ UNCHANGED <<requestVars, live, open, world, shown, status, doubtful>>

\* resolve_syncthing_conflict: what is staged stays where it was.
TakeResolution(k) ==
    /\ k.op = "resolve" /\ k.step = "out"
    /\ IF k.on \in world.conflicts
       THEN /\ Becomes(k, [k EXCEPT !.step = "back"])
            /\ world' = [world EXCEPT !.conflicts = IF k.to = "stage_review" THEN @ ELSE @ \ {k.on}]
       ELSE Ends(k) /\ UNCHANGED world
    /\ UNCHANGED <<acts, faults, live, open, shown, pending, status, doubtful>>

ResolutionAnswered(k) ==
    /\ k.op = "resolve" /\ k.step = "back"
    /\ Ends(k)
    /\ shown' = [shown EXCEPT !.conflicts = @ \ {k.on}]
    /\ UNCHANGED <<acts, faults, live, open, world, pending, status, doubtful>>

LoseResolution(k) ==
    /\ k.op = "resolve"
    /\ Fault
    /\ Ends(k)
    /\ UNCHANGED <<acts, live, open, world, shown, pending, status, doubtful>>

-----------------------------------------------------------------------------
(* Direct actions. *)

\* The button is disabled while it spins.
Offered(a) == status[a] # "running"

\* Mutant: the button is not disabled.
RunActionAgain(a) ==
    /\ Act
    /\ status' = [status EXCEPT ![a] = "running"]
    /\ Ask({Errand(IF live THEN "run" ELSE "mock", a, "show")})
    /\ UNCHANGED <<faults, live, open, world, shown, pending, doubtful>>

\* Off line the page pretends.
RunAction(a) ==
    /\ Offered(a)
    /\ Act
    /\ status' = [status EXCEPT ![a] = "running"]
    /\ Ask({Errand(IF live THEN "run" ELSE "mock", a, "show")})
    /\ UNCHANGED <<faults, live, open, world, shown, pending, doubtful>>

\* ActionRunner.execute answers when the action has ended.
ActionAnswered(k) ==
    /\ k.op \in {"run", "mock"}
    /\ Ends(k)
    /\ \E end \in {"done", "error"} :
          /\ k.op = "mock" => end = "done"
          /\ status' = IF k.step = "back" THEN status ELSE [status EXCEPT ![k.on] = end]
    /\ UNCHANGED <<acts, faults, live, open, world, shown, pending, doubtful>>

\* The page hears of an error; the action may go on.
LoseAction(k) ==
    /\ k.op = "run"
    /\ k.step = "out"
    /\ Fault
    /\ Becomes(k, [k EXCEPT !.step = "back"])
    /\ status' = [status EXCEPT ![k.on] = "error"]
    /\ doubtful' = doubtful \cup {k.on}
    /\ UNCHANGED <<acts, live, open, world, shown, pending>>

FeedsNext ==
    \/ Poll \/ Recover \/ WorldTurns \/ ConfirmResolution \/ CancelResolution
    \/ \E p \in Panels : OpenPanel(p)
    \/ \E c \in Conflicts, to \in Resolutions : RequestResolution(c, to)
    \/ \E a \in Actions : RunAction(a)
    \/ \E k \in calls :
          \/ TakePoll(k) \/ PollAnswered(k) \/ LosePoll(k)
          \/ TakeResolution(k) \/ ResolutionAnswered(k) \/ LoseResolution(k)
          \/ ActionAnswered(k) \/ LoseAction(k)

\* The interval goes on, requests end, and a page off line probes and loads.
FeedsFairness ==
    /\ WF_feedVars(Poll) /\ WF_feedVars(Recover)
    /\ WF_feedVars(\E k \in calls : TakePoll(k))
    /\ WF_feedVars(\E k \in calls : TakeResolution(k) \/ ResolutionAnswered(k))
    /\ \A w \in Worlds, p \in Panels :
          WF_feedVars(\E k \in calls : k.got = w /\ k.on = p /\ PollAnswered(k))

FeedsSpec == FeedsInit /\ [][FeedsNext]_feedVars /\ FeedsFairness

-----------------------------------------------------------------------------
(* Properties. *)

(***************************************************************************)
(* The open panel comes to show what there is, and stays so: polls may     *)
(* answer in any order, take the page off line, or bring back a conflict   *)
(* that was resolved, and one staged for review is dropped though it is    *)
(* still there.                                                            *)
(***************************************************************************)
OpenShowsWorld == shown[open] = world[open]
PollsCatchUp == <>[]OpenShowsWorld

(***************************************************************************)
(* A direct action runs once at a time, unless its request was lost or the *)
(* page reconnected while it ran.                                          *)
(***************************************************************************)
ActionsRunAlone ==
    \A a \in Actions \ doubtful :
        \A j, k \in calls : (j.op = "run" /\ k.op = "run" /\ j.on = a /\ k.on = a) => j = k
=============================================================================
