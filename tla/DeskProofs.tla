----------------------------- MODULE DeskProofs -----------------------------
(***************************************************************************)
(* Theorems about the panels of the page (Desk), for any conversations,    *)
(* folders, notes, uploads, workers and hosts, any number of clicks and    *)
(* any number of requests lost: the inductive invariant of the panel in    *)
(* view is kept by what happens in it and by all that happens elsewhere.   *)
(***************************************************************************)
EXTENDS TalkPanelsProofs, VaultPanelsProofs, HostPanelsProofs

-----------------------------------------------------------------------------
(* Nothing happens. *)

LEMMA SettingsInvStays ==
    ASSUME SettingsInv, UNCHANGED Settings!settingsVars
    PROVE  SettingsInv'
  <1>1. /\ UNCHANGED <<setting, saved, own, kept, present, current, linked, files, unsure>>
        /\ SettingKept
    BY DEF Settings!settingsVars, Settings!requestVars, SettingKept
  <1>2. \A s \in Settings!Columns \ unsure : SettingFits(s)'
    BY <1>1, SettingOthers DEF SettingsInv, SettingsFit
  <1>3. \A c \in Chats \ unsure : ChatFits(c)'
    BY <1>1, ChatOthers DEF SettingsInv, ChatsFit
  <1>4. SettingsFit' /\ ChatsFit'
    BY <1>1, <1>2, <1>3 DEF SettingsFit, ChatsFit
  <1>5. IdsAreUnique'
    BY DEF SettingsInv, IdsAreUnique, Settings!settingsVars, Settings!requestVars
  <1> QED
    BY <1>1, <1>4, <1>5, SettingsTypeStep, ModelStep DEF SettingsInv

LEMMA UploadsInvStays ==
    ASSUME UploadsInv, UNCHANGED Shelf!uploadVars
    PROVE  UploadsInv'
  <1>1. UNCHANGED <<calls, acts, faults, listed, stored, previews, loading, busy, crossed>>
    BY DEF Shelf!uploadVars, Shelf!requestVars
  <1>2. Shelf!UploadsTypeOK'
    BY <1>1 DEF UploadsInv, Shelf!UploadsTypeOK, Shelf!RequestsOK
  <1>3. UploadsAlone'
    BY AloneStep DEF UploadsInv
  <1>4. WorkIsSound'
    BY <1>1 DEF UploadsInv, WorkIsSound
  <1>5. \A u \in Uploads \ crossed : UploadFits(u)'
    BY <1>1, UploadAside DEF UploadsInv, UploadsFit
  <1>6. UploadsFit'
    BY <1>1, <1>5 DEF UploadsFit
  <1> QED
    BY <1>2, <1>3, <1>4, <1>6 DEF UploadsInv

LEMMA FeedsInvStays ==
    ASSUME FeedsInv, UNCHANGED Feeds!feedVars
    PROVE  FeedsInv'
  <1>1. UNCHANGED <<calls, acts, faults, live, open, world, shown, pending, status, doubtful>>
    BY DEF Feeds!feedVars, Feeds!requestVars
  <1>2. FeedsTyped'
    BY <1>1 DEF FeedsInv, FeedsTyped, Feeds!FeedsTypeOK, Feeds!RequestsOK
  <1>3. RunsFit'
    BY <1>1 DEF FeedsInv, RunsFit, RunFits, Runs
  <1> QED
    BY <1>2, <1>3 DEF FeedsInv

LEMMA PanesInvStays ==
    ASSUME PanesInv, UNCHANGED Panes!workerVars
    PROVE  PanesInv'
  <1>1. UNCHANGED <<calls, acts, faults, cards, registry, connection, setups, astray>>
    BY DEF Panes!workerVars, Panes!requestVars
  <1>2. Panes!WorkersTypeOK'
    BY <1>1 DEF PanesInv, Panes!WorkersTypeOK, Panes!RequestsOK
  <1>3. PanesAreSound'
    BY <1>1 DEF PanesInv, PanesAreSound, SoundSetup, OnePane
  <1>4. PanesTell'
    BY <1>1 DEF PanesInv, PanesTell, PaneTells
  <1>5. WorksFit'
    BY <1>1 DEF PanesInv, WorksFit, WorkFits, WorkFit, RowAgrees
  <1> QED
    BY <1>2, <1>3, <1>4, <1>5 DEF PanesInv

LEMMA StatusTypeStays ==
    ASSUME Status!StatusTypeOK, UNCHANGED Status!statusVars
    PROVE  Status!StatusTypeOK'
  <1>1. UNCHANGED <<calls, acts, faults, host, told, side, turned>>
    BY DEF Status!statusVars, Status!requestVars
  <1>2. calls' \subseteq {} /\ acts' \in 0 .. MaxActs + 1 /\ faults' \in 0 .. MaxFaults /\ host' \in Status!Worlds
    BY <1>1 DEF Status!StatusTypeOK, Status!RequestsOK
  <1>3. /\ DOMAIN told' = Status!Parts
        /\ \A part \in Status!Parts : /\ told'[part] \subseteq Status!Worlds
                                      /\ \A v, w \in told'[part] : v = w
    BY <1>1 DEF Status!StatusTypeOK
  <1>4. /\ side' \in Status!Parts \cup {Closed}
        /\ turned' \subseteq (IF side' = "syncthing" THEN Status!Cards' ELSE {})
    BY <1>1 DEF Status!StatusTypeOK, Status!Cards
  <1> QED
    BY <1>2, <1>3, <1>4 DEF Status!StatusTypeOK, Status!RequestsOK

LEMMA VaultInvStays ==
    ASSUME VaultInv, UNCHANGED Vault!vaultVars
    PROVE  VaultInv'
  <1>1. UNCHANGED <<calls, acts, faults, body, badge, excluded, policy, proposals, rows, replaced,
                    relations, feedback, deciding, batch, folder, slipped>>
    BY DEF Vault!vaultVars, Vault!requestVars
  <1>2. VaultTyped'
    BY VaultTypeStep DEF VaultInv
  <1>3. ActsFit'
    BY <1>1 DEF VaultInv, ActsFit, ActFits
  <1>4. Missed'
    BY <1>1 DEF VaultInv, Missed
  <1>5. PathsFit'
    BY <1>1 DEF VaultInv, PathsFit, PathFits, ExcludeOut, Unread
  <1>6. RelationsFit'
    BY <1>1 DEF VaultInv, RelationsFit, RelationFits
  <1> QED
    BY <1>2, <1>3, <1>4, <1>5, <1>6 DEF VaultInv

-----------------------------------------------------------------------------
(* The panel in view. *)

DeskInv ==
    /\ panel \in Panels
    /\ panel = "sidebar" => SidebarInv
    /\ panel = "settings" => SettingsInv
    /\ panel = "composer" => ComposerInv
    /\ panel = "vault" => VaultInv
    /\ panel = "notes" => NotesInv
    /\ panel = "feeds" => FeedsInv
    /\ panel = "uploads" => UploadsInv
    /\ panel = "workers" => PanesInv
    /\ panel = "status" => Status!StatusTypeOK

LEMMA DeskInvInit ==
    ASSUME DeskInit
    PROVE  DeskInv
  BY DeskAssumption, SidebarInvInit, SettingsInvInit, ComposerInvInit, VaultInvInit, NotesInvInit,
     FeedsInvInit, UploadsInvInit, PanesInvInit, StatusTypeInit
  DEF DeskInit, DeskInv

LEMMA DeskInvStays ==
    ASSUME DeskInv, UNCHANGED deskVars
    PROVE  DeskInv'
  <1>1. UNCHANGED panel
    BY DEF deskVars
  <1>2. /\ UNCHANGED Bar!sidebarVars /\ UNCHANGED Settings!settingsVars
        /\ UNCHANGED Input!composerVars
    BY DEF deskVars, barVars, settingsVars, inputVars, requestVars, Bar!sidebarVars, Bar!requestVars,
           Settings!settingsVars, Settings!requestVars, Input!composerVars, Input!requestVars
  <1>3. /\ UNCHANGED Vault!vaultVars /\ UNCHANGED Reader!notesVars /\ UNCHANGED Shelf!uploadVars
    BY DEF deskVars, vaultVars, notesVars, uploadVars, requestVars, Vault!vaultVars,
           Vault!requestVars, Reader!notesVars, Reader!requestVars, Shelf!uploadVars,
           Shelf!requestVars
  <1>4. /\ UNCHANGED Feeds!feedVars /\ UNCHANGED Panes!workerVars /\ UNCHANGED Status!statusVars
    BY DEF deskVars, feedVars, paneVars, statusVars, requestVars, Feeds!feedVars, Feeds!requestVars,
           Panes!workerVars, Panes!requestVars, Status!statusVars, Status!requestVars
  <1> QED
    BY <1>1, <1>2, <1>3, <1>4, DeskAssumption, SidebarInvStep, SettingsInvStays, ComposerInvStep,
       VaultInvStays, NotesInvStep, FeedsInvStays, UploadsInvStays, PanesInvStays, StatusTypeStays
    DEF DeskInv

LEMMA DeskInvStep ==
    ASSUME DeskInv, [DeskNext]_deskVars
    PROVE  DeskInv'
  <1>1. CASE At("sidebar") /\ Bar!SidebarNext
    BY <1>1, SidebarInvStep DEF At, DeskInv
  <1>2. CASE At("settings") /\ Settings!SettingsNext
    BY <1>2, SettingsInvStep DEF At, DeskInv
  <1>3. CASE At("composer") /\ Input!ComposerNext
    BY <1>3, ComposerInvStep, DeskAssumption DEF At, DeskInv
  <1>4. CASE At("vault") /\ Vault!VaultNext
    BY <1>4, VaultInvStep DEF At, DeskInv
  <1>5. CASE At("notes") /\ Reader!NotesNext
    BY <1>5, NotesInvStep DEF At, DeskInv
  <1>6. CASE At("feeds") /\ Feeds!FeedsNext
    BY <1>6, FeedsInvStep DEF At, DeskInv
  <1>7. CASE At("uploads") /\ Shelf!UploadsNext
    BY <1>7, UploadsInvStep DEF At, DeskInv
  <1>8. CASE At("workers") /\ Panes!WorkersNext
    BY <1>8, PanesInvStep DEF At, DeskInv
  <1>9. CASE At("status") /\ Status!StatusNext
    BY <1>9, StatusTypeStep DEF At, DeskInv
  <1>10. CASE UNCHANGED deskVars
    BY <1>10, DeskInvStays
  <1> QED
    BY <1>1, <1>2, <1>3, <1>4, <1>5, <1>6, <1>7, <1>8, <1>9, <1>10 DEF DeskNext

LEMMA DeskInvAlways == DeskSpec => []DeskInv
  <1>1. DeskInit => DeskInv
    BY DeskInvInit
  <1>2. DeskInv /\ [DeskNext]_deskVars => DeskInv'
    BY DeskInvStep
  <1> QED
    BY <1>1, <1>2, PTL DEF DeskSpec

-----------------------------------------------------------------------------
(* Theorems. *)

\* Every variable of the panel in view keeps its type, whatever the answers and their order.
THEOREM TypeCorrect == DeskSpec => []TypeOK
  <1>1. DeskInv => TypeOK
    BY SidebarHolds, SettingsHold, VaultHolds, NotesHold, FeedsHold, UploadsHold, PanesHold
    DEF DeskInv, ComposerInv, TypeOK, Panels
  <1> QED
    BY <1>1, DeskInvAlways, PTL

(***************************************************************************)
(* When the requests of a panel have ended it shows what the backend has,  *)
(* but for what was lost, refused or overtaken: the edits of               *)
(* useDelamainBackend and VaultPanel, shown before they are sent, and the  *)
(* rows of UploadsPanel and WorkersPanel, which come with the answers.     *)
(***************************************************************************)
THEOREM SettledAgreeAlways == DeskSpec => []SettledAgree
  <1>1. DeskInv => SettledAgree
    BY SidebarHolds, SettingsHold, VaultHolds, UploadsHold, PanesHold
    DEF DeskInv, SettledAgree, Panels
  <1> QED
    BY <1>1, DeskInvAlways, PTL

(***************************************************************************)
(* Every folder that is listed is drawn (Sidebar.tsx, buildTree and        *)
(* isDescendant): no moves make a cycle, in whatever order they are taken  *)
(* and answered, unless a load met another tab's or disordered edits.      *)
(***************************************************************************)
THEOREM TreeIsWholeAlways == DeskSpec => []TreeIsWhole
  <1>1. DeskInv => TreeIsWhole
    BY SidebarHolds DEF DeskInv, TreeIsWhole
  <1> QED
    BY <1>1, DeskInvAlways, PTL

(***************************************************************************)
(* A prompt carries only notes that its own conversation had pinned        *)
(* (ChatLayout, handleSend), whatever was selected, pinned and answered    *)
(* between the click and the request.                                      *)
(***************************************************************************)
THEOREM PromptsCarryTheirPinsAlways == DeskSpec => []PromptsCarryTheirPins
  <1>1. DeskInv => PromptsCarryTheirPins
    BY ComposerHolds DEF DeskInv, PromptsCarryTheirPins
  <1> QED
    BY <1>1, DeskInvAlways, PTL

(***************************************************************************)
(* What is to happen once happens once (ChatLayout's attachments,          *)
(* VaultPanel's decisions, the panels' actions, UploadsPanel's busy files, *)
(* the sockets of the terminals), however clicks and answers interleave.   *)
(***************************************************************************)
THEOREM OnlyOnceAlways == DeskSpec => []OnlyOnce
  <1>1. DeskInv => OnlyOnce
    BY ComposerHolds, VaultHolds, FeedsHold, UploadsHold, PanesHold DEF DeskInv, OnlyOnce, Panels
  <1> QED
    BY <1>1, DeskInvAlways, PTL

(***************************************************************************)
(* What is shown beside a selection belongs to it (the model and tray of   *)
(* the active conversation, the note previewed, the canvas of the filters, *)
(* the label of a terminal, the lights of the header), though its answer   *)
(* may come after other selections.                                        *)
(***************************************************************************)
THEOREM ShownIsOfSelectedAlways == DeskSpec => []ShownIsOfSelected
  <1>1. DeskInv => ShownIsOfSelected
    BY ComposerHolds, SettingsHold, NotesHold, PanesHold, StatusHolds
    DEF DeskInv, ShownIsOfSelected, Panels
  <1> QED
    BY <1>1, DeskInvAlways, PTL
=============================================================================
