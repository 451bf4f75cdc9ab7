----------------------------- MODULE VaultNotes -----------------------------
(***************************************************************************)
(* Reading the vault (frontend/components/chat/VaultPanel.tsx): the graph  *)
(* and the list with their filters, the note in the preview with its       *)
(* neighborhood, and the canvas (VaultGraphCanvas.tsx), which is built     *)
(* when its library has been imported.                                     *)
(***************************************************************************)
EXTENDS PageRequests

CONSTANTS
    Notes, NoNote,
    Facets,     \* what a filter asks of a note, each of a group of its own; "pinned" is one
    Shows       \* pairs of a note and a facet it has for good

NotesAssumption ==
    NoNote \notin Notes /\ "pinned" \in Facets /\ Shows \subseteq Notes \X (Facets \ {"pinned"})

Undrawn == [of |-> {}, there |-> FALSE]
Canvases == [of: SUBSET Notes, there: BOOLEAN]

VARIABLES
    tab,
    filters,    \* the filters that are set
    held,       \* pinnedItems
    selected,   \* selectedPath
    note,       \* the note shown in the preview
    noteLoading,
    latest,     \* noteRequestRef
    near,       \* the note whose neighborhood is shown
    nearStatus, \* neighborhoodStatus
    drawn,      \* cyRef
    mounts      \* effects of the canvas waiting for the import

notesVars == <<requestVars, tab, filters, held, selected, note, noteLoading, latest,
               near, nearStatus, drawn, mounts>>
previewVars == <<selected, note, noteLoading, latest, near, nearStatus>>

Requests == [id: 1 .. MaxActs, step: {"out"}, op: {"note", "near"}, on: Notes]
Request(op, n) == [id |-> acts + 1, step |-> "out", op |-> op, on |-> n]
Mounts == [of: SUBSET Notes, current: BOOLEAN]

NotesTypeOK ==
    /\ RequestsOK(Requests)
    /\ tab \in {"graph", "list", "preview"}
    /\ filters \subseteq Facets /\ held \subseteq Notes
    /\ selected \in Notes \cup {NoNote} /\ note \in Notes \cup {NoNote}
    /\ near \in Notes \cup {NoNote} /\ nearStatus \in {"idle", "loading", "error"}
    /\ noteLoading \in BOOLEAN /\ latest \in 0 .. MaxActs
    /\ drawn \in Canvases /\ mounts \subseteq Mounts

-----------------------------------------------------------------------------
(* The graph and the list. *)

HasFacet(n, facet, pinned) == IF facet = "pinned" THEN n \in pinned ELSE <<n, facet>> \in Shows

\* The nodes memo: every filter that is set must let a note through.
Passing(set, pinned) == {n \in Notes : \A facet \in set : HasFacet(n, facet, pinned)}

NotesInit ==
    /\ RequestsInit
    /\ tab = "graph" /\ filters = {} /\ held \in SUBSET Notes
    /\ selected = NoNote /\ note = NoNote /\ noteLoading = FALSE /\ latest = 0
    /\ near = NoNote /\ nearStatus = "idle"
    /\ drawn = Undrawn /\ mounts = {[of |-> Notes, current |-> TRUE]}

\* The effect of the canvas on other nodes: what was drawn is destroyed, and drawn anew.
Redraw(there, nodes) ==
    /\ drawn' = Undrawn
    /\ mounts' = {[m EXCEPT !.current = FALSE] : m \in mounts} \cup
                   (IF there THEN {[of |-> nodes, current |-> TRUE]} ELSE {})

ShowTab(t) ==
    /\ t # tab
    /\ Act
    /\ tab' = t
    /\ IF "graph" \in {tab, t} THEN Redraw(t = "graph", Passing(filters, held))
       ELSE UNCHANGED <<drawn, mounts>>
    /\ UNCHANGED <<calls, faults, filters, held, previewVars>>

\* The chips of a group: what some note has, and what is pinned.
OfferedFacets == {facet \in Facets : facet = "pinned" \/ \E n \in Notes : <<n, facet>> \in Shows}
Toggled(facet) == IF facet \in filters THEN filters \ {facet} ELSE filters \cup {facet}

\* A chip is clicked; clearGraphFilters takes all back.
SetFilters(set) ==
    /\ set = {} \/ \E facet \in OfferedFacets : set = Toggled(facet)
    /\ set # filters
    /\ Act
    /\ filters' = set
    /\ IF tab = "graph" THEN Redraw(TRUE, Passing(set, held)) ELSE UNCHANGED <<drawn, mounts>>
    /\ UNCHANGED <<calls, faults, tab, held, previewVars>>

\* The composer's pins change, by a pin of this panel too.
PinsChange(n) ==
    /\ Act
    /\ \E p \in {held \cup {n}, held \ {n}} :
          /\ held' = p
          /\ IF tab = "graph" THEN Redraw(TRUE, Passing(filters, p))
             ELSE UNCHANGED <<drawn, mounts>>
    /\ UNCHANGED <<calls, faults, tab, filters, previewVars>>

\* Mutant: the effect does not see that it was cleaned up.
DrawUnchecked(m) ==
    /\ drawn' = [of |-> m.of, there |-> TRUE]
    /\ mounts' = mounts \ {m}
    /\ UNCHANGED <<requestVars, tab, filters, held, previewVars>>

Draw(m) ==
    /\ drawn' = IF m.current THEN [of |-> m.of, there |-> TRUE] ELSE drawn
    /\ mounts' = mounts \ {m}
    /\ UNCHANGED <<requestVars, tab, filters, held, previewVars>>

-----------------------------------------------------------------------------
(* The preview. *)

\* Every note that can be selected: of the canvas, the list, or named in the preview.
Selectable ==
    CASE tab = "graph" -> drawn.of
      [] tab = "list" -> Passing(filters, held)
      [] OTHER -> Notes

LoadNote(n) ==
    /\ n \in Selectable
    /\ Act
    /\ Ask({Request("note", n)})
    /\ latest' = acts + 1
    /\ selected' = n /\ tab' = "preview" /\ noteLoading' = TRUE
    /\ near' = NoNote /\ nearStatus' = "idle"
    /\ IF tab = "graph" THEN Redraw(FALSE, {}) ELSE UNCHANGED <<drawn, mounts>>
    /\ UNCHANGED <<faults, filters, held, note>>

\* Mutant: an answer for a note selected before is shown.
NoteAnsweredLate(k) ==
    /\ k.op = "note"
    /\ note' = k.on /\ noteLoading' = FALSE
    /\ Ends(k)
    /\ UNCHANGED <<acts, tab, filters, held, selected, latest, near, nearStatus, drawn, mounts>>

\* One that failed is shown with its path and without content.
NoteAnswered(k) ==
    /\ k.op = "note"
    /\ IF k.id = latest THEN note' = k.on /\ noteLoading' = FALSE
       ELSE UNCHANGED <<note, noteLoading>>
    /\ Ends(k)
    /\ UNCHANGED <<acts, tab, filters, held, selected, latest, near, nearStatus, drawn, mounts>>

LoadNeighborhood ==
    /\ tab = "preview" /\ selected # NoNote
    /\ Act
    /\ Ask({Request("near", selected)})
    /\ nearStatus' = "loading"
    /\ UNCHANGED <<faults, tab, filters, held, selected, note, noteLoading, latest, near, drawn, mounts>>

\* Whatever has been selected since.
NeighborhoodAnswered(k, fails) ==
    /\ k.op = "near"
    /\ near' = IF fails THEN NoNote ELSE k.on
    /\ nearStatus' = IF fails THEN "error" ELSE "idle"
    /\ Ends(k)
    /\ UNCHANGED <<acts, tab, filters, held, selected, note, noteLoading, latest, drawn, mounts>>

AnswersOf(k) ==
    \/ NoteAnswered(k) /\ UNCHANGED faults
    \/ NoteAnswered(k) /\ Fault
    \/ NeighborhoodAnswered(k, FALSE) /\ UNCHANGED faults
    \/ NeighborhoodAnswered(k, TRUE) /\ Fault

NotesProgress ==
    \/ \E k \in calls : AnswersOf(k)
    \/ \E m \in mounts : Draw(m)

NotesNext ==
    \/ \E t \in {"graph", "list", "preview"} : ShowTab(t)
    \/ \E set \in SUBSET Facets : SetFilters(set)
    \/ \E n \in Notes : PinsChange(n) \/ LoadNote(n)
    \/ LoadNeighborhood
    \/ NotesProgress

NotesSpec == NotesInit /\ [][NotesNext]_notesVars /\ WF_notesVars(NotesProgress)

-----------------------------------------------------------------------------
(* Properties. *)

(***************************************************************************)
(* A note shown without "Loading note..." is the one selected, however     *)
(* many are selected before the first has come and in whatever order their *)
(* answers come (noteRequestRef).                                          *)
(***************************************************************************)
NoteIsOfSelected == (selected # NoNote /\ ~noteLoading) => note = selected

(***************************************************************************)
(* Once the imports have ended the canvas shows the notes that pass the    *)
(* filters now, and only in its own tab is there a canvas.                 *)
(***************************************************************************)
CanvasIsCurrent ==
    /\ tab # "graph" => drawn = Undrawn /\ \A m \in mounts : ~m.current
    /\ (tab = "graph" /\ mounts = {}) => drawn = [of |-> Passing(filters, held), there |-> TRUE]

\* The preview stops loading, whatever is selected in between.
NotesRest == ~noteLoading /\ mounts = {}
NotesBusyEnds == <>[]NotesRest
=============================================================================
