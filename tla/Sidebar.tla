------------------------------ MODULE Sidebar ------------------------------
(***************************************************************************)
(* Conversations and folders in the sidebar (frontend/components/chat/     *)
(* Sidebar.tsx) with the handlers of useDelamainBackend and ChatLayout     *)
(* behind it: an edit is shown at once, sent, and never taken back.  The   *)
(* backend (api/folders.py, api/conversations.py) keeps the tables.        *)
(***************************************************************************)
EXTENDS PageRequests

CONSTANTS
    Conversations, Folders,
    Fresh,      \* the folders that do not exist yet
    Root, NoLists

Things == Conversations \cup Folders

SidebarAssumption ==
    /\ Root \notin Things
    /\ Conversations \cap Folders = {}
    /\ Fresh \subseteq Folders

\* The rows that exist, their title or name, and the folder each is in.
Views == [there: SUBSET Things, text: [Things -> Nat], place: [Things -> Folders \cup {Root}]]

VARIABLES
    list,       \* state.conversations and state.folders
    table,      \* the rows of the backend
    online,     \* state.connection is "connected"
    lists,      \* the lists a load has read; NoLists when none is under way
    unborn,     \* the folders never created
    strayed,    \* history: list need not become table when all requests end
    tangled     \* history: a load read tables written while strayed

sidebarVars == <<requestVars, list, table, online, lists, unborn, strayed, tangled>>

Edits == [id: 1 .. MaxActs, step: {"out", "back"}, op: {"text", "place", "delete", "create"},
          on: Things, to: Nat \cup Folders \cup {Root}]
Edit(op, on, to) == [id |-> acts + 1, step |-> "out", op |-> op, on |-> on, to |-> to]

SidebarTypeOK ==
    /\ RequestsOK(Edits)
    /\ list \in Views /\ table \in Views
    /\ lists \in Views \cup {NoLists}
    /\ online \in BOOLEAN /\ unborn \subseteq Folders
    /\ strayed \in BOOLEAN /\ tangled \in BOOLEAN

-----------------------------------------------------------------------------
(* The tree. *)

\* buildTree: what names no folder of the list is at the root.
ShownPlace(view, x) == IF view.place[x] \in view.there THEN view.place[x] ELSE Root

\* isDescendant: f is met on the way up from candidate, as it is in every set of folders with
\* candidate that one does not leave on the way up.
IsDescendant(candidate, f) ==
    \A above \in SUBSET Folders :
        (candidate \in above /\ \A x \in above : ShownPlace(list, x) \in above \cup {Root}) =>
            f \in above

\* renderFolderNode starts from the roots: it does not come to what is in a cycle or below one.
InTree(view, x) ==
    ~\E below \in SUBSET Things : x \in below /\ \A y \in below : ShownPlace(view, y) \in below

SidebarInit ==
    /\ RequestsInit
    /\ table \in [there: {Things \ Fresh}, text: {[x \in Things |-> 0]},
                  place: [Things -> (Folders \ Fresh) \cup {Root}]]
    /\ \A x \in Conversations \cup Fresh : table.place[x] = Root
    /\ \A f \in Folders : InTree(table, f)
    /\ list = table
    /\ online = TRUE /\ lists = NoLists /\ unborn = Fresh
    /\ strayed = FALSE /\ tangled = FALSE

-----------------------------------------------------------------------------
(* Edits: shown at once and, on line, sent. *)

Shown(view, requests) ==
    /\ Act
    /\ list' = view
    /\ Ask(IF online THEN requests ELSE {})
    /\ UNCHANGED <<faults, table, online, lists, unborn, strayed, tangled>>

SetPlace(view, x, to) == [view EXCEPT !.place[x] = to]
DropRow(view, x) == [view EXCEPT !.there = @ \ {x}]

\* handleRenameFolder, commitTitle.
RenameRow(x) ==
    /\ x \in list.there
    /\ Shown([list EXCEPT !.text[x] = acts + 1], {Edit("text", x, acts + 1)})

\* ChatLayout.handleRenameConversation: sent off line too.
RenameInSidebar(c) ==
    /\ c \in Conversations \cap list.there
    /\ Act
    /\ list' = [list EXCEPT !.text[c] = acts + 1]
    /\ Ask({Edit("text", c, acts + 1)})
    /\ UNCHANGED <<faults, table, online, lists, unborn, strayed, tangled>>

\* The menu of a conversation does not offer the folder it is in; a bulk move and a drop do.
MenuTargets(c) == ((Folders \cap list.there) \cup {Root}) \ {list.place[c]}

MoveConversation(c, to) ==
    /\ c \in Conversations \cap list.there
    /\ to \in MenuTargets(c)
    /\ Shown(SetPlace(list, c, to), {Edit("place", c, to)})

BulkMove(cs, to) ==
    /\ cs \subseteq list.there /\ cs # {}
    /\ to \in (Folders \cap list.there) \cup {Root}
    /\ Shown([list EXCEPT !.place = [x \in Things |-> IF x \in cs THEN to ELSE @[x]]],
             {Edit("place", c, to) : c \in cs})

\* Mutant: only the folder itself is refused.
MoveFolderCarelessly(f, to) ==
    /\ f \in list.there
    /\ to \in (Folders \cap list.there) \cup {Root}
    /\ to # f
    /\ Shown(SetPlace(list, f, to), {Edit("place", f, to)})

\* handleDrop of a folder.
MoveFolder(f, to) ==
    /\ f \in list.there
    /\ to \in (Folders \cap list.there) \cup {Root}
    /\ to # Root => ~IsDescendant(to, f)
    /\ Shown(SetPlace(list, f, to), {Edit("place", f, to)})

DeleteConversations(cs) ==
    /\ cs \subseteq list.there /\ cs # {}
    /\ Shown([list EXCEPT !.there = @ \ cs], {Edit("delete", c, Root) : c \in cs})

\* Mutant: the conversations of a folder go with it.
DeleteFolderWhole(f) ==
    /\ f \in list.there
    /\ Shown([list EXCEPT !.there = @ \ ({f} \cup {c \in Conversations : list.place[c] = f})],
             {Edit("delete", f, Root)})

\* handleDeleteFolder: its conversations go to the root; its folders name one that is gone.
DeleteFolder(f) ==
    /\ f \in list.there
    /\ Shown([DropRow(list, f) EXCEPT
                 !.place = [x \in Things |-> IF x \in Conversations /\ @[x] = f
                                             THEN Root ELSE @[x]]],
             {Edit("delete", f, Root)})

\* handleCreateFolder: shown with the answer.
CreateFolder(f) ==
    /\ online
    /\ f \in unborn
    /\ unborn' = unborn \ {f}
    /\ Act
    /\ Ask({Edit("create", f, Root)})
    /\ UNCHANGED <<faults, list, table, online, lists, strayed, tangled>>

-----------------------------------------------------------------------------
(* The backend. *)

\* update_folder, update_conversation, delete_folder: 404 for what is not there.
Accepted(k) ==
    /\ k.op # "create" => k.on \in table.there
    /\ k.op = "place" => k.to \in table.there \cup {Root}

After(k) ==
    CASE k.op = "text" -> [table EXCEPT !.text[k.on] = k.to]
      [] k.op = "place" -> SetPlace(table, k.on, k.to)
      [] k.op = "create" -> [table EXCEPT !.there = @ \cup {k.on}, !.place[k.on] = Root,
                                          !.text[k.on] = 0]
      [] OTHER -> [DropRow(table, k.on) EXCEPT
                      !.place = [x \in Things |-> IF @[x] = k.on THEN Root ELSE @[x]]]

TakeEdit(k) ==
    /\ k.step = "out"
    /\ table' = IF Accepted(k) THEN After(k) ELSE table
    /\ strayed' = (strayed \/ Overtakes(k) \/ ~Accepted(k))
    /\ IF k.op = "create" THEN Becomes(k, [k EXCEPT !.step = "back"]) ELSE Ends(k)
    /\ UNCHANGED <<acts, faults, list, online, lists, unborn, tangled>>

ApplyCreated(k) ==
    /\ k.step = "back"
    /\ list' = [list EXCEPT !.there = @ \cup {k.on}, !.place[k.on] = Root, !.text[k.on] = 0]
    /\ Ends(k)
    /\ UNCHANGED <<acts, faults, table, online, lists, unborn, strayed, tangled>>

\* The request, or its answer, is lost: the error is ignored.
LoseEdit(k) ==
    /\ Fault
    /\ Ends(k)
    /\ strayed' = TRUE
    /\ UNCHANGED <<acts, list, table, online, lists, unborn, tangled>>

\* Another tab has its own view of the tree: the backend refuses a folder in itself, no more.
OtherMoves(f, to) ==
    /\ Fault
    /\ f \in table.there /\ to \in table.there \cap Folders /\ to # f
    /\ table' = SetPlace(table, f, to)
    /\ strayed' = TRUE
    /\ UNCHANGED <<calls, acts, list, online, lists, unborn, tangled>>

DropConnection ==
    /\ online
    /\ Fault
    /\ online' = FALSE
    /\ UNCHANGED <<calls, acts, list, table, lists, unborn, strayed, tangled>>

\* The load that follows reads the lists, and puts them in place of what is shown.
ReadLists ==
    /\ ~online /\ lists = NoLists
    /\ lists' = table
    /\ tangled' = (tangled \/ strayed)
    /\ UNCHANGED <<requestVars, list, table, online, unborn, strayed>>

ApplyLists ==
    /\ lists # NoLists
    /\ list' = lists /\ lists' = NoLists
    /\ online' = TRUE
    /\ strayed' = (calls # {} \/ lists # table)
    /\ UNCHANGED <<requestVars, table, unborn, tangled>>

SidebarNext ==
    \/ \E x \in Things : RenameRow(x)
    \/ \E c \in Conversations : RenameInSidebar(c)
    \/ \E to \in Folders \cup {Root} :
          \/ \E c \in Conversations : MoveConversation(c, to)
          \/ \E cs \in SUBSET Conversations : BulkMove(cs, to)
          \/ \E f \in Folders : MoveFolder(f, to)
    \/ \E cs \in SUBSET Conversations : DeleteConversations(cs)
    \/ \E f \in Folders : DeleteFolder(f) \/ CreateFolder(f)
    \/ \E k \in calls : TakeEdit(k) \/ ApplyCreated(k) \/ LoseEdit(k)
    \/ \E f, to \in Folders : OtherMoves(f, to)
    \/ DropConnection \/ ReadLists \/ ApplyLists

SidebarSpec == SidebarInit /\ [][SidebarNext]_sidebarVars

-----------------------------------------------------------------------------
(* Properties. *)

(***************************************************************************)
(* When all requests have ended the sidebar shows what the backend has,    *)
(* though folders deleted are still named by the folders that were in      *)
(* them; unless requests overtook each other, one was lost or refused, or  *)
(* a load crossed one.                                                     *)
(***************************************************************************)
SidebarAgrees ==
    (calls = {} /\ online /\ ~strayed) =>
        /\ list.there = table.there
        /\ \A x \in list.there :
              list.text[x] = table.text[x] /\ ShownPlace(list, x) = ShownPlace(table, x)

(***************************************************************************)
(* Every folder listed is in the tree shown: no moves, of whatever folders *)
(* in whatever order, make a cycle, unless the page loaded what another    *)
(* tab or requests out of order had left.                                  *)
(***************************************************************************)
TreeIsWhole == tangled \/ \A x \in list.there : InTree(list, x)
=============================================================================
