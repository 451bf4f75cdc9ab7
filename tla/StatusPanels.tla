---------------------------- MODULE StatusPanels ----------------------------
(***************************************************************************)
(* What the Health, the Usage and the Syncthing panel and the lights of    *)
(* the header make of the backend's answers: lib/mappers.ts, HealthPanel,  *)
(* UsagePanel, SyncthingPanel and the header of ChatLayout.  Answers that  *)
(* cross are the matter of PanelFeeds; here one is heard as it is given.   *)
(***************************************************************************)
EXTENDS PageRequests

CONSTANTS
    Hosts,      \* hosts that report to sync guard
    CardHosts,  \* those that the Health panel's card has a light for
    Copies,     \* conflicting copies of files
    Percents,   \* shares of the copilot budget that may be spent
    Soft, Hard, \* copilot_budget: soft_threshold_percent, hard_threshold_percent
    Closed      \* no panel is open

\* config/defaults.yaml has 60 and 90.
StatusAssumption ==
    /\ CardHosts \subseteq Hosts /\ Hosts \cap Copies = {}
    /\ Percents \subseteq Nat /\ Soft \in Nat /\ Hard \in Nat
    /\ Soft <= Hard /\ 90 <= Hard

Subscribed == {"codex", "claude"}
Reports == [up: {"yes", "no", "unsaid"}, trouble: {"none", "conflict_count", "need", "errors"}]
Worlds == [db: BOOLEAN, library: BOOLEAN, helper: BOOLEAN, spent: Percents,
           signed: SUBSET Subscribed, report: [Hosts -> Reports], copies: SUBSET Copies]
Parts == {"health", "usage", "syncthing"}

VARIABLES
    host,       \* what the backend's host is like
    told,       \* per part what the page last heard of it: at most one answer
    side,       \* state.rightPanel
    turned      \* the cards folded or unfolded by hand

statusVars == <<requestVars, host, told, side, turned>>

-----------------------------------------------------------------------------
(* Answers and what is drawn of them. *)

BudgetStatus(w) == IF w.spent >= Hard THEN "hard" ELSE IF w.spent >= Soft THEN "soft" ELSE "ok"

Entry(id, well, otherwise) == [id |-> id, status |-> IF well THEN "ok" ELSE otherwise]

\* The budget's entry looks for "hard_limit" and "soft_limit", which no answer says.
HealthEntries(w) ==
    {Entry("backend", w.db /\ w.library, "degraded"), Entry("sqlite", w.db, "error"),
     Entry("litellm", w.library, "degraded"), Entry("helper-now", w.helper, "degraded"),
     Entry("copilot-budget", BudgetStatus(w) \notin {"hard_limit", "soft_limit"},
           IF BudgetStatus(w) = "hard_limit" THEN "error" ELSE "degraded")}

Section(name, entries) ==
    {e \in entries : name = CASE e.id \in {"backend", "sqlite", "litellm"} -> "service"
                              [] e.id \in {"helper-now"} -> "helper"
                              [] e.id = "copilot-budget" -> "budget"
                              [] OTHER -> "other"}

EntryTone(e) ==
    CASE e.status = "ok" -> "green" [] e.status = "unknown" -> "grey" [] OTHER -> "pink"

\* percent is empty where the backend has none.
Provider(name, wired, percent, status) ==
    [provider |-> name, wired |-> wired, percent |-> percent, status |-> status]

Providers(w) ==
    {Provider("copilot", TRUE, {w.spent}, BudgetStatus(w)),
     Provider("openrouter", FALSE, {}, "not_configured")} \cup
    {Provider(p, FALSE, {}, IF p \in w.signed THEN "auth_ok_billing_not_configured"
                            ELSE "not_configured") : p \in Subscribed}

Subscriptions(w) ==
    {[provider |-> p, status |-> IF p \in w.signed THEN "ok" ELSE "unavailable"] : p \in Subscribed}

UsageTone(status) ==
    CASE status = "ok" -> "green" [] status = "degraded" -> "blue"
      [] status \in {"unavailable", "error"} -> "pink" [] OTHER -> "grey"

\* The cards of these providers only, and the bar of those with a limit.
UsageCards(providers) ==
    {p \in providers : p.provider \in {"copilot", "openrouter", "claude", "codex"}}
Bar(p) == {IF n > 100 THEN 100 ELSE n : n \in p.percent}

DeviceStatus(report) ==
    CASE report.up = "unsaid" -> "unknown"
      [] report.up = "no" -> "unavailable"
      [] OTHER -> IF report.trouble = "none" THEN "ok" ELSE "degraded"

DeviceTone(status) ==
    CASE status = "ok" -> "green" [] status = "unavailable" -> "pink"
      [] status = "unknown" -> "grey" [] OTHER -> "blue"

FolderTone(report) ==
    CASE report.trouble = "errors" -> "pink" [] report.trouble = "need" -> "blue" [] OTHER -> "green"

ErroredFolders(w) == {h \in Hosts : w.report[h].trouble = "errors"}

\* The card of the Health panel; a host it has no light for is left out.
SummaryCard(w) == [h \in CardHosts |-> DeviceTone(DeviceStatus(w.report[h]))]

Cards == UNION {Hosts \cup w.copies : w \in told.syncthing}

-----------------------------------------------------------------------------
(* The lights of the header. *)

Entries == UNION {HealthEntries(w) : w \in told.health}
HealthLight == \E e \in Entries : e.status \notin {"ok", "unknown"}

\* Mutant: a budget is an alert when it is overdrawn.
UsageAlertsOverdrawn(w) ==
    {p \in Providers(w) : p.wired /\ \E n \in p.percent : n > 100}
        \cup {s \in Subscriptions(w) : s.status # "ok"}

UsageAlerts(w) ==
    {p \in Providers(w) : p.wired /\ \E n \in p.percent : n >= 90}
        \cup {s \in Subscriptions(w) : s.status # "ok"}

UsageLight == \E w \in told.usage : UsageAlerts(w) # {}

-----------------------------------------------------------------------------
StatusTypeOK ==
    /\ RequestsOK({})
    /\ host \in Worlds
    /\ DOMAIN told = Parts
    /\ \A part \in Parts : told[part] \subseteq Worlds /\ \A v, w \in told[part] : v = w
    /\ side \in Parts \cup {Closed}
    /\ turned \subseteq (IF side = "syncthing" THEN Cards ELSE {})

\* load: health is asked for before all else, the rest may be missing.
StatusInit ==
    /\ RequestsInit
    /\ host \in {[db |-> TRUE, library |-> TRUE, helper |-> TRUE, spent |-> n,
                  signed |-> Subscribed, copies |-> Copies,
                  report |-> [h \in Hosts |-> [up |-> "yes", trouble |-> "none"]]] :
                    n \in Percents}
    /\ told \in [Parts -> {{}, {host}}] /\ told.health = {host}
    /\ side = Closed /\ turned = {}

Turns(w) ==
    /\ Fault
    /\ w # host /\ host' = w
    /\ UNCHANGED <<calls, acts, told, side, turned>>

HostTurns ==
    \/ \E on \in BOOLEAN :
          \/ Turns([host EXCEPT !.db = on]) \/ Turns([host EXCEPT !.library = on])
          \/ Turns([host EXCEPT !.helper = on])
    \/ \E n \in Percents : Turns([host EXCEPT !.spent = n])
    \/ \E some \in SUBSET Subscribed : Turns([host EXCEPT !.signed = some])
    \/ \E h \in Hosts, report \in Reports : Turns([host EXCEPT !.report[h] = report])
    \/ \E some \in SUBSET Copies : Turns([host EXCEPT !.copies = some])

\* openPanel: the button of the open panel closes it; leaving a panel forgets its folds.
OpenPanel(p) ==
    /\ Act
    /\ side' = IF side = p THEN Closed ELSE p
    /\ turned' = {}
    /\ UNCHANGED <<calls, faults, host, told>>

ClosePanel ==
    /\ side # Closed
    /\ side' = Closed
    /\ turned' = {}
    /\ UNCHANGED <<requestVars, host, told>>

HeaderButtons == \E p \in {"health", "usage"} : OpenPanel(p)

\* The card of the Health panel opens the Syncthing panel; the header has no button for it.
OpenSyncthing == side = "health" /\ OpenPanel("syncthing")

\* The intervals of the open panels.
RefreshHealth ==
    /\ side = "health"
    /\ told' = [told EXCEPT !.health = {host}]
    /\ UNCHANGED <<requestVars, host, side, turned>>

\* A card that is gone loses its fold.
RefreshSyncthing ==
    /\ side = "syncthing"
    /\ told' = [told EXCEPT !.syncthing = {host}]
    /\ turned' = turned \cap (Hosts \cup host.copies)
    /\ UNCHANGED <<requestVars, host, side>>

\* Sign-ins are probed once a minute at most, unless their own button is used.
RefreshUsage ==
    /\ side = "usage"
    /\ \E signed \in {host.signed} \cup {w.signed : w \in told.usage} :
          told' = [told EXCEPT !.usage = {[host EXCEPT !.signed = signed]}]
    /\ UNCHANGED <<requestVars, host, side, turned>>

Turn(card) ==
    /\ side = "syncthing"
    /\ Act
    /\ turned' = IF card \in turned THEN turned \ {card} ELSE turned \cup {card}
    /\ UNCHANGED <<calls, faults, host, told, side>>

\* The card of a device is unfolded at first, that of a conflict folded.
TurnDevice == \E h \in Cards \cap Hosts : Turn(h)
TurnConflict == \E c \in Cards \cap Copies : Turn(c)

StatusNext ==
    \/ HostTurns \/ HeaderButtons \/ OpenSyncthing \/ ClosePanel
    \/ RefreshHealth \/ RefreshSyncthing \/ RefreshUsage
    \/ TurnDevice \/ TurnConflict

StatusSpec == StatusInit /\ [][StatusNext]_statusVars

-----------------------------------------------------------------------------
(* Properties. *)

(***************************************************************************)
(* A light in the header is explained in the panel it is the button of,    *)
(* and what is drawn there as an alert lights it; a spent budget shows in  *)
(* the light of the Usage panel, as it shows nowhere else; a host with     *)
(* folder errors is green neither in the card nor in its rows.             *)
(***************************************************************************)
LightsTellOfPanels ==
    /\ HealthLight <=> \E name \in {"service", "helper", "budget", "other"} :
                          \E e \in Section(name, Entries) : EntryTone(e) = "pink"
    /\ UsageLight <=> \E w \in told.usage :
                          \/ \E p \in UsageCards(Providers(w)) : \E n \in Bar(p) : n >= 90
                          \/ \E s \in Subscriptions(w) : UsageTone(s.status) # "green"
    /\ \A w \in told.usage : BudgetStatus(w) = "hard" => UsageLight
    /\ \A w \in told.syncthing : \A h \in ErroredFolders(w) :
          /\ h \in CardHosts => SummaryCard(w)[h] # "green"
          /\ FolderTone(w.report[h]) = "pink"
=============================================================================
