----------------------------- MODULE VaultPanel -----------------------------
(***************************************************************************)
(* The review and maintenance tabs of the vault panel (frontend/components *)
(* /chat/VaultPanel.tsx): loads of its lists, exclusions, proposals with   *)
(* their patches, decisions on generated relations, the batch and folders; *)
(* and what the backend (api/vault.py) does of each request.               *)
(***************************************************************************)
EXTENDS PageRequests

CONSTANTS
    Paths,      \* notes that can be excluded
    Within,     \* pairs of paths, the first a part of the second as a text
    Proposals,  \* each replaces one text of the vault
    Relations

VaultAssumption ==
    /\ Within \subseteq Paths \X Paths
    /\ \A p \in Paths : <<p, p>> \in Within
    /\ Proposals \cap Relations = {} /\ Paths \cap (Proposals \cup Relations) = {}
    /\ "panel" \notin Paths \cup Proposals \cup Relations

Statuses == {"proposed", "applied", "rejected", "reverted"}
Decisions == {"none", "accepted", "rejected"}
Lists == {"exclusions", "proposals", "relations"}

VARIABLES
    body,       \* state.kind: "loading", "loaded", "error"
    badge,      \* metadataStatus
    excluded,   \* exclusions shown
    policy,     \* the lines of vault_policy.md
    proposals,  \* status shown of each proposal: "running" and "error" too
    rows,       \* the status the backend has
    replaced,   \* the proposals whose text is in the vault
    relations,  \* decision shown of each relation
    feedback,   \* the decision the backend has
    deciding,   \* relationBusy
    batch,      \* enrichmentBusy
    folder,     \* folderInitStatus is "running"
    slipped     \* history: what two requests met on, or a lost one was about

vaultVars == <<requestVars, body, badge, excluded, policy, proposals, rows, replaced, relations,
               feedback, deciding, batch, folder, slipped>>
vaultRows == <<policy, rows, replaced, feedback>>

\* What a load has read so far.
Views == [exclusions: SUBSET Paths, proposals: [Proposals -> Statuses],
          relations: [Relations -> Decisions], read: SUBSET Lists, missed: SUBSET Lists]
View(read, missed) ==
    [exclusions |-> policy, proposals |-> rows, relations |-> feedback,
     read |-> read, missed |-> missed]
Things == Paths \cup Proposals \cup Relations \cup {"panel"}

Requests ==
    [id: 0 .. MaxActs, step: {"out", "back"},
     op: {"load", "metadata", "exclude", "act", "decide", "batch", "folder"}, on: Things,
     to: Statuses \cup Decisions \cup {"excluded", "admitted"}, got: Views]
Request(id, op, on, to) ==
    [id |-> id, step |-> "out", op |-> op, on |-> on, to |-> to,
     got |-> [View({}, {}) EXCEPT !.exclusions = {}, !.proposals = [p \in Proposals |-> "proposed"],
                                  !.relations = [r \in Relations |-> "none"]]]
Load(id, on) == Request(id, "load", on, "none")

VaultTypeOK ==
    /\ RequestsOK(Requests)
    /\ body \in {"loading", "loaded", "error"} /\ badge \in {"loading", "idle", "degraded"}
    /\ excluded \subseteq Paths /\ policy \subseteq Paths
    /\ proposals \in [Proposals -> Statuses \cup {"running", "error"}]
    /\ rows \in [Proposals -> Statuses] /\ replaced \subseteq Proposals
    /\ relations \in [Relations -> Decisions] /\ feedback \in [Relations -> Decisions]
    /\ deciding \in [Relations -> Decisions]
    /\ batch \in BOOLEAN /\ folder \in BOOLEAN
    /\ slipped \subseteq Things

VaultInit ==
    /\ acts = 0 /\ faults = 0
    /\ policy \in SUBSET Paths /\ excluded = {}
    /\ rows = [p \in Proposals |-> "proposed"] /\ proposals = rows /\ replaced = {}
    /\ feedback = [r \in Relations |-> "none"] /\ relations = feedback /\ deciding = feedback
    /\ body = "loading" /\ badge = "loading" /\ calls = {Load(0, "panel")}
    /\ batch = FALSE /\ folder = FALSE /\ slipped = {}

-----------------------------------------------------------------------------
(* Loads. *)

\* The reload button is offered while another load runs.
Reload ==
    /\ Act
    /\ body' = "loading" /\ badge' = "loading"
    /\ Ask({Load(acts + 1, "panel")})
    /\ UNCHANGED <<faults, vaultRows, excluded, proposals, relations, deciding, batch, folder, slipped>>

\* load reads all lists, refreshGeneratedMetadata the relations; each may fail by itself.
Wanted(k) == (IF k.op = "load" THEN Lists ELSE {"relations"}) \ (k.got.read \cup k.got.missed)

OfList(list) ==
    CASE list = "exclusions" -> Paths
      [] list = "proposals" -> Proposals
      [] list = "relations" -> Relations

ReadList(k, list) ==
    /\ k.op \in {"load", "metadata"} /\ list \in Wanted(k)
    /\ \/ /\ Becomes(k, [k EXCEPT !.got[list] = View({}, {})[list],
                                  !.got.read = k.got.read \cup {list}])
          /\ UNCHANGED <<faults, slipped>>
       \/ /\ Fault
          /\ Becomes(k, [k EXCEPT !.got.missed = k.got.missed \cup {list}])
          /\ slipped' = slipped \cup OfList(list)
    /\ UNCHANGED <<acts, vaultRows, body, badge, excluded, proposals, relations, deciding, batch,
                   folder>>

\* Relations and batches are busy until the load after them has ended.
Released(k) ==
    /\ deciding' = [r \in Relations |-> IF r = k.on THEN "none" ELSE deciding[r]]
    /\ batch' = (batch /\ k.op # "metadata")

\* What a load is about to show that is not so any more, or will soon not be.
Passed(k) ==
    {p \in Paths : "exclusions" \in k.got.read /\
        ((p \in k.got.exclusions) # (p \in policy) \/ \E j \in calls : j.op = "exclude" /\ j.on = p)}
    \cup {p \in Proposals : "proposals" \in k.got.read /\
        (k.got.proposals[p] # rows[p] \/ \E j \in calls : j.op = "act" /\ j.on = p)}
    \cup {r \in Relations : "relations" \in k.got.read /\
        (k.got.relations[r] # feedback[r] \/ \E j \in calls : j.op = "decide" /\ j.on = r)}

\* Mutant: a busy relation stays busy.
LoadAnsweredBusy(k) ==
    /\ k.op = "load" /\ Wanted(k) = {}
    /\ Ends(k)
    /\ body' = "loaded"
    /\ excluded' = IF "exclusions" \in k.got.read THEN k.got.exclusions ELSE excluded
    /\ proposals' = IF "proposals" \in k.got.read THEN k.got.proposals ELSE proposals
    /\ relations' = IF "relations" \in k.got.read THEN k.got.relations ELSE relations
    /\ badge' = IF k.got.missed = {} THEN "idle" ELSE "degraded"
    /\ slipped' = slipped \cup Passed(k)
    /\ UNCHANGED <<acts, faults, vaultRows, folder, deciding, batch>>

LoadAnswered(k) ==
    /\ k.op = "load" /\ Wanted(k) = {}
    /\ Ends(k)
    /\ body' = "loaded"
    /\ excluded' = IF "exclusions" \in k.got.read THEN k.got.exclusions ELSE excluded
    /\ proposals' = IF "proposals" \in k.got.read THEN k.got.proposals ELSE proposals
    /\ relations' = IF "relations" \in k.got.read THEN k.got.relations ELSE relations
    /\ badge' = IF k.got.missed = {} THEN "idle" ELSE "degraded"
    /\ Released(k)
    /\ slipped' = slipped \cup Passed(k)
    /\ UNCHANGED <<acts, faults, vaultRows, folder>>

MetadataAnswered(k) ==
    /\ k.op = "metadata" /\ Wanted(k) = {}
    /\ Ends(k)
    /\ relations' = IF "relations" \in k.got.read THEN k.got.relations ELSE relations
    /\ badge' = IF k.got.missed = {} THEN "idle" ELSE "degraded"
    /\ Released(k)
    /\ slipped' = slipped \cup Passed(k)
    /\ UNCHANGED <<acts, faults, vaultRows, body, excluded, proposals, folder>>

\* Without the graph there is no panel.
LoseLoad(k) ==
    /\ k.op = "load"
    /\ Fault
    /\ Ends(k)
    /\ body' = "error" /\ badge' = "degraded"
    /\ Released(k)
    /\ UNCHANGED <<acts, vaultRows, excluded, proposals, relations, folder, slipped>>

-----------------------------------------------------------------------------
(* Exclusions: shown at once and not taken back. *)

ToggleExclusion(p) ==
    /\ body = "loaded"
    /\ Act
    /\ excluded' = IF p \in excluded THEN excluded \ {p} ELSE excluded \cup {p}
    /\ Ask({Request(acts + 1, "exclude", p, IF p \in excluded THEN "admitted" ELSE "excluded")})
    /\ UNCHANGED <<faults, vaultRows, body, badge, proposals, relations, deciding, batch, folder,
                   slipped>>

\* The policy is searched as a text: a path is found in a longer one.
Holding(p) == {q \in policy : <<p, q>> \in Within}

TakeExclusion(k) ==
    /\ k.op = "exclude" /\ k.step = "out"
    /\ policy' = IF k.to = "admitted" THEN policy \ Holding(k.on)
                 ELSE IF Holding(k.on) = {} THEN policy \cup {k.on} ELSE policy
    /\ slipped' = slipped \cup (Holding(k.on) \ {k.on})
                    \cup {p \in {k.on} : Holding(p) \ {p} # {} \/ \E j \in calls \ {k} : j.on = p}
    /\ Becomes(k, [k EXCEPT !.step = "back"])
    /\ UNCHANGED <<acts, faults, rows, replaced, feedback, body, badge, excluded, proposals,
                   relations, deciding, batch, folder>>

ExclusionAnswered(k) ==
    /\ k.op = "exclude" /\ k.step = "back"
    /\ Ends(k)
    /\ UNCHANGED <<acts, faults, vaultRows, body, badge, excluded, proposals, relations, deciding,
                   batch, folder, slipped>>

-----------------------------------------------------------------------------
(* Proposals. *)

\* Mutant: an applied proposal can be rejected.
OfferedAlways(p, to) ==
    IF to = "reverted" THEN proposals[p] = "applied" ELSE proposals[p] \notin {"running", "rejected"}

\* The buttons: revert after apply, the others before.
Offered(p, to) ==
    IF to = "reverted" THEN proposals[p] = "applied" ELSE proposals[p] \in {"proposed", "error"}

ActOn(p, to) ==
    /\ body = "loaded"
    /\ Offered(p, to)
    /\ Act
    /\ proposals' = [proposals EXCEPT ![p] = "running"]
    /\ Ask({Request(acts + 1, "act", p, to)})
    /\ UNCHANGED <<faults, vaultRows, body, badge, excluded, relations, deciding, batch, folder,
                   slipped>>

\* The patch must fit the text; the status in the row is not looked at.
Fits(k) == CASE k.to = "applied" -> k.on \notin replaced
             [] k.to = "reverted" -> k.on \in replaced
             [] OTHER -> TRUE

TakeAct(k) ==
    /\ k.op = "act" /\ k.step = "out"
    /\ IF Fits(k)
       THEN /\ rows' = [rows EXCEPT ![k.on] = k.to]
            /\ replaced' = CASE k.to = "applied" -> replaced \cup {k.on}
                             [] k.to = "reverted" -> replaced \ {k.on}
                             [] OTHER -> replaced
            /\ Becomes(k, [k EXCEPT !.step = "back"])
            /\ UNCHANGED proposals
       ELSE /\ proposals' = [proposals EXCEPT ![k.on] = "error"]
            /\ Ends(k)
            /\ UNCHANGED <<rows, replaced>>
    /\ UNCHANGED <<acts, faults, policy, feedback, body, badge, excluded, relations, deciding,
                   batch, folder, slipped>>

ActAnswered(k) ==
    /\ k.op = "act" /\ k.step = "back"
    /\ proposals' = [proposals EXCEPT ![k.on] = k.to]
    /\ Becomes(k, Load(k.id, "panel"))
    /\ body' = "loading" /\ badge' = "loading"
    /\ UNCHANGED <<acts, faults, vaultRows, excluded, relations, deciding, batch, folder, slipped>>

-----------------------------------------------------------------------------
(* Relations, batches, folders. *)

Decide(r, to) ==
    /\ body = "loaded"
    /\ deciding[r] = "none" /\ to # relations[r]
    /\ Act
    /\ deciding' = [deciding EXCEPT ![r] = to]
    /\ Ask({Request(acts + 1, "decide", r, to)})
    /\ UNCHANGED <<faults, vaultRows, body, badge, excluded, proposals, relations, batch, folder,
                   slipped>>

TakeDecision(k) ==
    /\ k.op = "decide" /\ k.step = "out"
    /\ feedback' = [feedback EXCEPT ![k.on] = k.to]
    /\ Becomes(k, [k EXCEPT !.step = "back", !.got.relations = feedback'])
    /\ UNCHANGED <<acts, faults, policy, rows, replaced, body, badge, excluded, proposals,
                   relations, deciding, batch, folder, slipped>>

DecisionAnswered(k) ==
    /\ k.op = "decide" /\ k.step = "back"
    /\ relations' = k.got.relations
    /\ Becomes(k, Load(k.id, k.on))
    /\ body' = "loading" /\ badge' = "loading"
    /\ UNCHANGED <<acts, faults, vaultRows, excluded, proposals, deciding, batch, folder, slipped>>

StartBatch ==
    /\ body = "loaded" /\ ~batch
    /\ Act
    /\ batch' = TRUE /\ badge' = "loading"
    /\ Ask({Request(acts + 1, "batch", "panel", "none")})
    /\ UNCHANGED <<faults, vaultRows, body, excluded, proposals, relations, deciding, folder, slipped>>

BatchAnswered(k) ==
    /\ k.op = "batch"
    /\ Becomes(k, Request(k.id, "metadata", "panel", "none"))
    /\ badge' = "loading"
    /\ UNCHANGED <<acts, faults, vaultRows, body, excluded, proposals, relations, deciding, batch,
                   folder, slipped>>

\* Enter in the name field sends it again while one is on its way.
InitFolder ==
    /\ body = "loaded"
    /\ Act
    /\ folder' = TRUE
    /\ Ask({Request(acts + 1, "folder", "panel", "none")})
    /\ UNCHANGED <<faults, vaultRows, body, badge, excluded, proposals, relations, deciding, batch,
                   slipped>>

FolderAnswered(k) ==
    /\ k.op = "folder"
    /\ folder' = FALSE
    /\ Becomes(k, Load(k.id, "panel"))
    /\ body' = "loading" /\ badge' = "loading"
    /\ UNCHANGED <<acts, faults, vaultRows, excluded, proposals, relations, deciding, batch, slipped>>

\* Every handler shows the panel degraded, its proposal failed, and is busy no more.
LoseRequest(k) ==
    /\ k.op \in {"exclude", "act", "decide", "batch", "folder"}
    /\ Fault
    /\ Ends(k)
    /\ badge' = "degraded"
    /\ proposals' = [p \in Proposals |-> IF p = k.on THEN "error" ELSE proposals[p]]
    /\ deciding' = [r \in Relations |-> IF r = k.on THEN "none" ELSE deciding[r]]
    /\ batch' = (batch /\ k.op # "batch") /\ folder' = (folder /\ k.op # "folder")
    /\ slipped' = slipped \cup ({k.on} \ {"panel"})
    /\ UNCHANGED <<acts, vaultRows, body, excluded, relations>>

\* What goes on without the user.
VaultProgress ==
    \E k \in calls :
        \/ \E list \in Lists : ReadList(k, list)
        \/ LoadAnswered(k) \/ MetadataAnswered(k) \/ LoseLoad(k)
        \/ TakeExclusion(k) \/ ExclusionAnswered(k)
        \/ TakeAct(k) \/ ActAnswered(k)
        \/ TakeDecision(k) \/ DecisionAnswered(k)
        \/ BatchAnswered(k) \/ FolderAnswered(k) \/ LoseRequest(k)

VaultNext ==
    \/ Reload \/ StartBatch \/ InitFolder
    \/ \E p \in Paths : ToggleExclusion(p)
    \/ \E p \in Proposals, to \in Statuses \ {"proposed"} : ActOn(p, to)
    \/ \E r \in Relations, to \in Decisions \ {"none"} : Decide(r, to)
    \/ VaultProgress

VaultSpec == VaultInit /\ [][VaultNext]_vaultVars /\ WF_vaultVars(VaultProgress)

-----------------------------------------------------------------------------
(* Properties. *)

(***************************************************************************)
(* When all requests have ended the lists shown are the backend's, or a    *)
(* proposal shows its failure: also when edits, decisions and the loads    *)
(* they start cross each other; but not for what a load passed or missed   *)
(* (a later one may show the panel well again), what was lost, or a path   *)
(* found in a longer one.                                                  *)
(***************************************************************************)
VaultAgrees ==
    (calls = {} /\ badge = "idle") =>
        /\ \A p \in Paths \ slipped : p \in excluded <=> p \in policy
        /\ \A p \in Proposals \ slipped : proposals[p] \in {rows[p], "error"}
        /\ \A r \in Relations \ slipped : relations[r] = feedback[r]

(***************************************************************************)
(* A proposal rejected or reverted has not changed the vault, one applied  *)
(* has, and can be reverted: the backend does not look at the status, so   *)
(* the buttons must not offer what would come between.  They do when a     *)
(* load passes an action on its way, or an answer is lost.                 *)
(***************************************************************************)
RejectedIsUntouched ==
    \A p \in Proposals \ slipped : p \in replaced <=> rows[p] = "applied"

(***************************************************************************)
(* No spinner for ever: every load ends, and every button that was busy    *)
(* is offered again, whatever fails.                                       *)
(***************************************************************************)
VaultRests ==
    /\ body # "loading" /\ badge # "loading" /\ ~batch /\ ~folder
    /\ \A r \in Relations : deciding[r] = "none"
VaultBusyEnds == <>[]VaultRests
=============================================================================
