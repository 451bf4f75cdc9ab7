-------------------------------- MODULE Desk --------------------------------
(***************************************************************************)
(* The parts of the page that are not the stream of a conversation.  They  *)
(* share no state but the requests' bounds, so a behaviour is a visit to   *)
(* one of them; the variables of the others are Away.                      *)
(***************************************************************************)
EXTENDS PageRequests

CONSTANTS
    Conversations, Folders, Fresh, Root, NoLists,   \* of the sidebar
    Chats, NoChat, Switches, Texts,                 \* of the settings
    Talks, Pinnable, Defaults, Attachable,          \* of the composer
    Paths, Within, Proposals, Relations,            \* of the vault's maintenance
    Notes, NoNote, Facets, Shows,                   \* of the vault's notes
    Conflicts, Actions, Closed,                     \* of the polled panels
    Uploads,                                        \* of the uploads
    Workers,                                        \* of the workers
    Hosts, CardHosts, Copies, Percents, Soft, Hard, \* of the status panels
    Away                                            \* not a panel in view

Panels == {"sidebar", "settings", "composer", "vault", "notes", "feeds", "uploads", "workers",
           "status"}

VARIABLES
    panel,
    list, table, online, lists, unborn, strayed, tangled,
    setting, saved, own, kept, present, current, model, linked, files, draft, unsure, adrift,
    talk, joined, tray, pins, attached, wished, stale, carried, waived,
    body, badge, excluded, policy, proposals, rows, replaced, relations, feedback, deciding,
    batch, folder, slipped,
    tab, filters, held, selected, note, noteLoading, latest, near, nearStatus, drawn, mounts,
    live, open, world, shown, pending, status, doubtful,
    listed, stored, previews, loading, busy, crossed,
    cards, registry, connection, setups, astray,
    host, told, side, turned

Bar == INSTANCE Sidebar
Settings == INSTANCE PageSettings
Input == INSTANCE Composer WITH
    Notes <- Pinnable, Uploads <- Attachable, MaxActs <- MaxActs + 1
Vault == INSTANCE VaultPanel
Reader == INSTANCE VaultNotes WITH MaxActs <- MaxActs + 2
Feeds == INSTANCE PanelFeeds
Shelf == INSTANCE UploadsPanel
Panes == INSTANCE WorkersPanel WITH MaxActs <- MaxActs + 1
Status == INSTANCE StatusPanels WITH MaxActs <- MaxActs + 1

ASSUME DeskAssumption ==
    /\ Bar!SidebarAssumption /\ Settings!SettingsAssumption /\ Input!ComposerAssumption
    /\ Vault!VaultAssumption /\ Reader!NotesAssumption /\ Feeds!FeedsAssumption
    /\ Shelf!UploadsAssumption /\ Status!StatusAssumption

barVars == <<list, table, online, lists, unborn, strayed, tangled>>
settingsVars == <<setting, saved, own, kept, present, current, model, linked, files, draft,
                  unsure, adrift>>
inputVars == <<talk, joined, tray, pins, attached, wished, stale, carried, waived>>
vaultVars == <<body, badge, excluded, policy, proposals, rows, replaced, relations, feedback,
               deciding, batch, folder, slipped>>
notesVars == <<tab, filters, held, selected, note, noteLoading, latest, near, nearStatus,
               drawn, mounts>>
feedVars == <<live, open, world, shown, pending, status, doubtful>>
uploadVars == <<listed, stored, previews, loading, busy, crossed>>
paneVars == <<cards, registry, connection, setups, astray>>
statusVars == <<host, told, side, turned>>
deskVars == <<requestVars, panel, barVars, settingsVars, inputVars, vaultVars, notesVars,
              feedVars, uploadVars, paneVars, statusVars>>

BarAway ==
    /\ list = Away /\ table = Away /\ online = Away /\ lists = Away /\ unborn = Away
    /\ strayed = Away /\ tangled = Away
SettingsAway ==
    /\ setting = Away /\ saved = Away /\ own = Away /\ kept = Away /\ present = Away
    /\ current = Away /\ model = Away /\ linked = Away /\ files = Away /\ draft = Away
    /\ unsure = Away /\ adrift = Away
InputAway ==
    /\ talk = Away /\ joined = Away /\ tray = Away /\ pins = Away /\ attached = Away
    /\ wished = Away /\ stale = Away /\ carried = Away /\ waived = Away
VaultAway ==
    /\ body = Away /\ badge = Away /\ excluded = Away /\ policy = Away /\ proposals = Away
    /\ rows = Away /\ replaced = Away /\ relations = Away /\ feedback = Away
    /\ deciding = Away /\ batch = Away /\ folder = Away /\ slipped = Away
NotesAway ==
    /\ tab = Away /\ filters = Away /\ held = Away /\ selected = Away /\ note = Away
    /\ noteLoading = Away /\ latest = Away /\ near = Away /\ nearStatus = Away
    /\ drawn = Away /\ mounts = Away
FeedsAway ==
    /\ live = Away /\ open = Away /\ world = Away /\ shown = Away /\ pending = Away
    /\ status = Away /\ doubtful = Away
UploadsAway ==
    /\ listed = Away /\ stored = Away /\ previews = Away /\ loading = Away /\ busy = Away
    /\ crossed = Away
PanesAway ==
    cards = Away /\ registry = Away /\ connection = Away /\ setups = Away /\ astray = Away
StatusAway == host = Away /\ told = Away /\ side = Away /\ turned = Away

DeskInit ==
    /\ panel \in Panels
    /\ IF panel = "sidebar" THEN Bar!SidebarInit ELSE BarAway
    /\ IF panel = "settings" THEN Settings!SettingsInit ELSE SettingsAway
    /\ IF panel = "composer" THEN Input!ComposerInit ELSE InputAway
    /\ IF panel = "vault" THEN Vault!VaultInit ELSE VaultAway
    /\ IF panel = "notes" THEN Reader!NotesInit ELSE NotesAway
    /\ IF panel = "feeds" THEN Feeds!FeedsInit ELSE FeedsAway
    /\ IF panel = "uploads" THEN Shelf!UploadsInit ELSE UploadsAway
    /\ IF panel = "workers" THEN Panes!WorkersInit ELSE PanesAway
    /\ IF panel = "status" THEN Status!StatusInit ELSE StatusAway

\* Nothing changes but what belongs to the panel it.
At(it) ==
    /\ panel = it /\ panel' = it
    /\ it # "sidebar" => UNCHANGED barVars
    /\ it # "settings" => UNCHANGED settingsVars
    /\ it # "composer" => UNCHANGED inputVars
    /\ it # "vault" => UNCHANGED vaultVars
    /\ it # "notes" => UNCHANGED notesVars
    /\ it # "feeds" => UNCHANGED feedVars
    /\ it # "uploads" => UNCHANGED uploadVars
    /\ it # "workers" => UNCHANGED paneVars
    /\ it # "status" => UNCHANGED statusVars

DeskNext ==
    \/ At("sidebar") /\ Bar!SidebarNext
    \/ At("settings") /\ Settings!SettingsNext
    \/ At("composer") /\ Input!ComposerNext
    \/ At("vault") /\ Vault!VaultNext
    \/ At("notes") /\ Reader!NotesNext
    \/ At("feeds") /\ Feeds!FeedsNext
    \/ At("uploads") /\ Shelf!UploadsNext
    \/ At("workers") /\ Panes!WorkersNext
    \/ At("status") /\ Status!StatusNext

\* The requests of a panel that waits for them end; the scheduling of Feeds is its own.
DeskProgress ==
    \/ At("vault") /\ Vault!VaultProgress
    \/ At("notes") /\ Reader!NotesProgress
    \/ At("uploads") /\ Shelf!UploadsProgress

DeskFairness ==
    /\ WF_deskVars(DeskProgress)
    /\ WF_deskVars(At("feeds") /\ Feeds!Poll) /\ WF_deskVars(At("feeds") /\ Feeds!Recover)
    /\ WF_deskVars(At("feeds") /\ \E k \in calls : Feeds!TakePoll(k))
    /\ WF_deskVars(At("feeds") /\ \E k \in calls :
                      Feeds!TakeResolution(k) \/ Feeds!ResolutionAnswered(k))
    /\ \A seen \in Feeds!Worlds, on \in Feeds!Panels :
          WF_deskVars(At("feeds") /\ \E k \in calls :
                        k.got = seen /\ k.on = on /\ Feeds!PollAnswered(k))

DeskSpec == DeskInit /\ [][DeskNext]_deskVars /\ DeskFairness

-----------------------------------------------------------------------------
(* Properties. *)

\* Every variable of the panel in view has its type.
TypeOK ==
    CASE panel = "sidebar" -> Bar!SidebarTypeOK
      [] panel = "settings" -> Settings!SettingsTypeOK
      [] panel = "composer" -> Input!ComposerTypeOK
      [] panel = "vault" -> Vault!VaultTypeOK
      [] panel = "notes" -> Reader!NotesTypeOK
      [] panel = "feeds" -> Feeds!FeedsTypeOK
      [] panel = "uploads" -> Shelf!UploadsTypeOK
      [] panel = "workers" -> Panes!WorkersTypeOK
      [] panel = "status" -> Status!StatusTypeOK

(***************************************************************************)
(* When all requests of a panel have ended it shows what the backend has,  *)
(* in everything but what its module names: requests that met, were lost   *)
(* or refused.  The edits are shown before they are sent (useDelamain-     *)
(* Backend, VaultPanel) or with the answer (UploadsPanel, workers).        *)
(***************************************************************************)
SettledAgree ==
    CASE panel = "sidebar" -> Bar!SidebarAgrees
      [] panel = "settings" -> Settings!SettingsAgree
      [] panel = "vault" -> Vault!VaultAgrees
      [] panel = "uploads" -> Shelf!UploadsAgree
      [] panel = "workers" -> Panes!WorkersAgree
      [] OTHER -> TRUE

(***************************************************************************)
(* What is shown beside a selection belongs to it, whatever was selected   *)
(* while its answer was on the way: the model and the tray of the active   *)
(* conversation, the note in the preview, the canvas of the filters, the   *)
(* label and the snapshot of a terminal, and the panel that a light of the *)
(* header is on.                                                           *)
(***************************************************************************)
ShownIsOfSelected ==
    CASE panel = "settings" -> Settings!ModelIsOfCurrent
      [] panel = "composer" -> Input!TrayIsOfActive
      [] panel = "notes" -> Reader!NoteIsOfSelected /\ Reader!CanvasIsCurrent
      [] panel = "workers" -> Panes!PaneTellsItsState
      [] panel = "status" -> Status!LightsTellOfPanels
      [] OTHER -> TRUE

\* No folder of the sidebar is lost in a cycle (Sidebar.tsx, buildTree).
TreeIsWhole == panel = "sidebar" => Bar!TreeIsWhole

\* A prompt carries notes its own conversation had pinned (handleSend), and no other's.
PromptsCarryTheirPins == panel = "composer" => Input!PromptsCarryTheirPins

(***************************************************************************)
(* What is to happen once does: an attachment goes with one prompt, a      *)
(* rejected proposal was not applied, an action, a conversion or a         *)
(* promotion does not run twice at once, a worker has one terminal.        *)
(***************************************************************************)
OnlyOnce ==
    CASE panel = "composer" -> Input!AttachedOnce
      [] panel = "vault" -> Vault!RejectedIsUntouched
      [] panel = "feeds" -> Feeds!ActionsRunAlone
      [] panel = "uploads" -> Shelf!UploadsBusyAlone
      [] panel = "workers" -> Panes!SocketsHavePanes
      [] OTHER -> TRUE

\* Spinners and busy buttons end whatever fails, and a polled panel comes to show what there is.
BusyEnds ==
    <>[](CASE panel = "vault" -> Vault!VaultRests
           [] panel = "notes" -> Reader!NotesRest
           [] panel = "feeds" -> Feeds!OpenShowsWorld
           [] panel = "uploads" -> Shelf!UploadsRest
           [] OTHER -> TRUE)
=============================================================================
