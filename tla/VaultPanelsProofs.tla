------------------------- MODULE VaultPanelsProofs -------------------------
(***************************************************************************)
(* The inductive invariants of the panels of the vault: its notes and      *)
(* their canvas, its maintenance, and the uploads.                         *)
(***************************************************************************)
EXTENDS Desk, TLAPS

-----------------------------------------------------------------------------
(***************************************************************************)
(* The notes.                                                              *)
(***************************************************************************)

-----------------------------------------------------------------------------
(* The canvas is drawn anew on some nodes, or stays. *)

NotesStays == UNCHANGED <<drawn, mounts>>

LEMMA PassingAreNotes ==
    ASSUME NEW set, NEW pinned
    PROVE  Reader!Passing(set, pinned) \in SUBSET Notes
  BY DEF Reader!Passing

\* A mount that is still to draw is the one of the last effect.
LEMMA RedrawEffect ==
    ASSUME Reader!NotesTypeOK, NEW there \in BOOLEAN, NEW nodes \in SUBSET Notes, Reader!Redraw(there, nodes)
    PROVE  /\ drawn' = Reader!Undrawn
           /\ drawn' \in Reader!Canvases
           /\ mounts' \subseteq Reader!Mounts
           /\ \A m \in mounts' : m.current => there /\ m.of = nodes
           /\ there => \E m \in mounts' : m.current
  <1> DEFINE Old == {[m EXCEPT !.current = FALSE] : m \in mounts}
  <1> DEFINE New == [of |-> nodes, current |-> TRUE]
  <1>1. /\ drawn' = Reader!Undrawn
        /\ mounts' = Old \cup (IF there THEN {New} ELSE {})
    BY DEF Reader!Redraw
  <1>2. Reader!Undrawn \in Reader!Canvases
    BY DEF Reader!Undrawn, Reader!Canvases
  <1>3. \A m \in Old : m \in Reader!Mounts /\ ~m.current
    <2>1. \A m \in mounts : m \in Reader!Mounts
      BY DEF Reader!NotesTypeOK
    <2> QED
      BY <2>1 DEF Reader!Mounts
  <1>4. New \in Reader!Mounts /\ New.current /\ New.of = nodes
    BY DEF Reader!Mounts
  <1> HIDE DEF Old, New
  <1> QED
    BY <1>1, <1>2, <1>3, <1>4

-----------------------------------------------------------------------------
(* Types. *)

LEMMA NotesTypeInit ==
    ASSUME Reader!NotesAssumption, Reader!NotesInit
    PROVE  Reader!NotesTypeOK
  <1>1. [of |-> Notes, current |-> TRUE] \in Reader!Mounts /\ Reader!Undrawn \in Reader!Canvases
    BY DEF Reader!Mounts, Reader!Undrawn, Reader!Canvases
  <1>2. Reader!RequestsOK(Reader!Requests) /\ 0 \in 0 .. (MaxActs + 2)
    BY RequestsAssumption DEF Reader!NotesInit, Reader!RequestsInit, Reader!RequestsOK
  <1>3. mounts = {[of |-> Notes, current |-> TRUE]} /\ held \in SUBSET Notes
    BY DEF Reader!NotesInit
  <1> QED
    BY <1>1, <1>2, <1>3 DEF Reader!NotesInit, Reader!NotesTypeOK

LEMMA NotesTypeStep ==
    ASSUME Reader!NotesAssumption, Reader!NotesTypeOK, [Reader!NotesNext]_(Reader!notesVars)
    PROVE  Reader!NotesTypeOK'
  <1> USE RequestsAssumption
  <1> USE DEF Reader!NotesTypeOK, Reader!RequestsOK
  <1>1. /\ Reader!Passing(filters, held) \in SUBSET Notes
        /\ \A set, p : Reader!Passing(set, p) \in SUBSET Notes
        /\ {} \in SUBSET Notes
    BY PassingAreNotes
  <1>2. ASSUME NEW op \in {"note", "near"}, NEW n \in Notes, Reader!Act, Reader!Ask({Reader!Request(op, n)})
        PROVE  calls' \subseteq Reader!Requests /\ acts' \in 0 .. (MaxActs + 2) /\ acts + 1 \in 0 .. (MaxActs + 2)
    BY <1>2 DEF Reader!Ask, Reader!Act, Reader!Request, Reader!Requests
  <1>3. ASSUME Reader!Act PROVE acts' \in 0 .. (MaxActs + 2)
    BY <1>3 DEF Reader!Act
  <1>4. ASSUME Reader!Fault \/ UNCHANGED faults PROVE faults' \in 0 .. MaxFaults
    BY <1>4 DEF Reader!Fault
  <1>5. ASSUME NEW t \in {"graph", "list", "preview"}, Reader!ShowTab(t) PROVE Reader!NotesTypeOK'
    <2>1. drawn' \in Reader!Canvases /\ mounts' \subseteq Reader!Mounts
      BY <1>1, <1>5, RedrawEffect DEF Reader!ShowTab
    <2> QED
      BY <1>3, <1>5, <2>1 DEF Reader!ShowTab, Reader!previewVars
  <1>6. ASSUME NEW set \in SUBSET Facets, Reader!SetFilters(set) PROVE Reader!NotesTypeOK'
    <2>1. drawn' \in Reader!Canvases /\ mounts' \subseteq Reader!Mounts
      BY <1>1, <1>6, RedrawEffect DEF Reader!SetFilters
    <2> QED
      BY <1>3, <1>6, <2>1 DEF Reader!SetFilters, Reader!previewVars
  <1>7. ASSUME NEW n \in Notes, Reader!PinsChange(n) PROVE Reader!NotesTypeOK'
    <2>1. PICK p \in {held \cup {n}, held \ {n}} :
             /\ held' = p
             /\ IF tab = "graph" THEN Reader!Redraw(TRUE, Reader!Passing(filters, p))
                ELSE UNCHANGED <<drawn, mounts>>
      BY <1>7 DEF Reader!PinsChange
    <2>2. drawn' \in Reader!Canvases /\ mounts' \subseteq Reader!Mounts
      BY <1>1, <2>1, RedrawEffect
    <2> QED
      BY <1>3, <1>7, <2>1, <2>2 DEF Reader!PinsChange, Reader!previewVars
  <1>8. ASSUME NEW n \in Notes, Reader!LoadNote(n) PROVE Reader!NotesTypeOK'
    <2>1. drawn' \in Reader!Canvases /\ mounts' \subseteq Reader!Mounts
      BY <1>1, <1>8, RedrawEffect DEF Reader!LoadNote
    <2>2. calls' \subseteq Reader!Requests /\ acts' \in 0 .. (MaxActs + 2) /\ acts + 1 \in 0 .. (MaxActs + 2)
      BY <1>2, <1>8 DEF Reader!LoadNote
    <2> QED
      BY <1>8, <2>1, <2>2 DEF Reader!LoadNote
  <1>9. ASSUME Reader!LoadNeighborhood PROVE Reader!NotesTypeOK'
    <2>1. selected \in Notes
      BY <1>9 DEF Reader!LoadNeighborhood
    <2>2. calls' \subseteq Reader!Requests /\ acts' \in 0 .. (MaxActs + 2)
      BY <1>2, <1>9, <2>1 DEF Reader!LoadNeighborhood
    <2> QED
      BY <1>9, <2>2 DEF Reader!LoadNeighborhood
  <1>10. ASSUME NEW k \in calls, Reader!AnswersOf(k) PROVE Reader!NotesTypeOK'
    <2>1. k.on \in Notes
      BY DEF Reader!Requests
    <2>2. faults' \in 0 .. MaxFaults
      BY <1>4, <1>10 DEF Reader!AnswersOf
    <2>3. CASE Reader!NoteAnswered(k)
      BY <2>1, <2>2, <2>3 DEF Reader!NoteAnswered, Reader!Ends
    <2>4. ASSUME NEW fails \in BOOLEAN, Reader!NeighborhoodAnswered(k, fails) PROVE Reader!NotesTypeOK'
      BY <2>1, <2>2, <2>4 DEF Reader!NeighborhoodAnswered, Reader!Ends
    <2> QED
      BY <1>10, <2>3, <2>4 DEF Reader!AnswersOf
  <1>11. ASSUME NEW m \in mounts, Reader!Draw(m) PROVE Reader!NotesTypeOK'
    <2>1. m.of \in SUBSET Notes
      BY DEF Reader!Mounts
    <2>2. drawn' \in Reader!Canvases /\ mounts' \subseteq Reader!Mounts
      BY <1>11, <2>1 DEF Reader!Draw, Reader!Canvases
    <2> QED
      BY <1>11, <2>2 DEF Reader!Draw, Reader!requestVars, Reader!previewVars
  <1>12. CASE UNCHANGED Reader!notesVars
    BY <1>12 DEF Reader!notesVars, Reader!requestVars
  <1> QED
    BY <1>5, <1>6, <1>7, <1>8, <1>9, <1>10, <1>11, <1>12 DEF Reader!NotesNext, Reader!NotesProgress
-----------------------------------------------------------------------------
(* The preview: an answer that is still awaited is for the note selected. *)

\* Only the newest request for a note has the number that the answer is compared with.
LatestIsOfSelected == \A k \in calls : (k.op = "note" /\ k.id = latest) => k.on = selected
SentBefore == latest <= acts /\ \A k \in calls : k.id <= acts

PreviewHolds == LatestIsOfSelected /\ SentBefore /\ Reader!NoteIsOfSelected

LEMMA PreviewStep ==
    ASSUME Reader!NotesTypeOK, PreviewHolds, [Reader!NotesNext]_(Reader!notesVars)
    PROVE  PreviewHolds'
  <1> USE DEF PreviewHolds, LatestIsOfSelected, SentBefore, Reader!NoteIsOfSelected
  <1>1. acts \in Nat /\ latest \in Nat /\ \A k \in calls : k.id \in Nat
    BY RequestsAssumption DEF Reader!NotesTypeOK, Reader!RequestsOK, Reader!Requests
  <1>2. ASSUME NEW op \in {"note", "near"}, NEW n, Reader!Act, Reader!Ask({Reader!Request(op, n)})
        PROVE  /\ acts' = acts + 1
               /\ \A k \in calls' : \/ k \in calls /\ k.id <= acts
                                    \/ k.id = acts + 1 /\ k.op = op /\ k.on = n
    BY <1>2 DEF Reader!Act, Reader!Ask, Reader!Request
  <1>3. ASSUME UNCHANGED <<calls, selected, note, noteLoading, latest>>, acts' \in {acts, acts + 1}
        PROVE  PreviewHolds'
    BY <1>1, <1>3
  <1>4. ASSUME NEW n \in Notes, Reader!LoadNote(n) PROVE PreviewHolds'
    BY <1>1, <1>2, <1>4 DEF Reader!LoadNote
  <1>5. ASSUME Reader!LoadNeighborhood PROVE PreviewHolds'
    BY <1>1, <1>2, <1>5 DEF Reader!LoadNeighborhood
  <1>6. ASSUME NEW k \in calls, Reader!AnswersOf(k) PROVE PreviewHolds'
    <2>1. CASE Reader!NoteAnswered(k)
      BY <1>1, <2>1 DEF Reader!NoteAnswered, Reader!Ends
    <2>2. ASSUME NEW fails \in BOOLEAN, Reader!NeighborhoodAnswered(k, fails) PROVE PreviewHolds'
      BY <1>1, <2>2 DEF Reader!NeighborhoodAnswered, Reader!Ends
    <2> QED
      BY <1>6, <2>1, <2>2 DEF Reader!AnswersOf
  <1>7. CASE Reader!NotesNext
    <2>1. ASSUME NEW t \in {"graph", "list", "preview"}, Reader!ShowTab(t) PROVE PreviewHolds'
      BY <1>3, <2>1 DEF Reader!ShowTab, Reader!previewVars, Reader!Act
    <2>2. ASSUME NEW set \in SUBSET Facets, Reader!SetFilters(set) PROVE PreviewHolds'
      BY <1>3, <2>2 DEF Reader!SetFilters, Reader!previewVars, Reader!Act
    <2>3. ASSUME NEW n \in Notes, Reader!PinsChange(n) PROVE PreviewHolds'
      BY <1>3, <2>3 DEF Reader!PinsChange, Reader!previewVars, Reader!Act
    <2>4. ASSUME NEW m \in mounts, Reader!Draw(m) PROVE PreviewHolds'
      BY <1>3, <2>4 DEF Reader!Draw, Reader!previewVars, Reader!requestVars
    <2> QED
      BY <1>4, <1>5, <1>6, <1>7, <2>1, <2>2, <2>3, <2>4 DEF Reader!NotesNext, Reader!NotesProgress
  <1>8. CASE UNCHANGED Reader!notesVars
    BY <1>3, <1>8 DEF Reader!notesVars, Reader!requestVars
  <1> QED
    BY <1>7, <1>8

-----------------------------------------------------------------------------
(* The canvas: an import that will draw draws what passes now. *)

MountIsCurrent ==
    \A m \in mounts : m.current => tab = "graph" /\ m.of = Reader!Passing(filters, held)
DrawnOrAbout ==
    /\ tab # "graph" => drawn = Reader!Undrawn
    /\ tab = "graph" => \/ \E m \in mounts : m.current
                        \/ drawn = [of |-> Reader!Passing(filters, held), there |-> TRUE]

CanvasHolds == MountIsCurrent /\ DrawnOrAbout

\* The effect runs on whatever tab, filters and pins a step leaves.
LEMMA RedrawKeepsCanvas ==
    ASSUME Reader!NotesTypeOK, NEW nodes \in SUBSET Notes, Reader!Redraw(tab' = "graph", nodes),
           tab' = "graph" => nodes = Reader!Passing(filters', held')
    PROVE  CanvasHolds'
  <1>1. /\ drawn' = Reader!Undrawn
        /\ \A m \in mounts' : m.current => tab' = "graph" /\ m.of = nodes
        /\ tab' = "graph" => \E m \in mounts' : m.current
    BY RedrawEffect
  <1>2. Reader!Passing(filters, held)' = Reader!Passing(filters', held')
    BY DEF Reader!Passing, Reader!HasFacet
  <1> QED
    BY <1>1, <1>2 DEF CanvasHolds, MountIsCurrent, DrawnOrAbout

LEMMA CanvasStays ==
    ASSUME CanvasHolds, UNCHANGED <<filters, held, drawn, mounts>>,
           tab' = tab \/ (tab # "graph" /\ tab' # "graph")
    PROVE  CanvasHolds'
  <1>1. Reader!Passing(filters, held)' = Reader!Passing(filters, held)
    BY DEF Reader!Passing, Reader!HasFacet
  <1> QED
    BY <1>1 DEF CanvasHolds, MountIsCurrent, DrawnOrAbout

LEMMA CanvasStep ==
    ASSUME Reader!NotesTypeOK, CanvasHolds, [Reader!NotesNext]_(Reader!notesVars)
    PROVE  CanvasHolds'
  <1>1. {} \in SUBSET Notes /\ \A set, p : Reader!Passing(set, p) \in SUBSET Notes
    BY PassingAreNotes
  <1>2. ASSUME UNCHANGED <<drawn, mounts>>, tab # "graph", tab' # "graph" PROVE CanvasHolds'
    BY <1>2 DEF CanvasHolds, MountIsCurrent, DrawnOrAbout
  <1>3. ASSUME NEW t \in {"graph", "list", "preview"}, Reader!ShowTab(t) PROVE CanvasHolds'
    <2>1. CASE "graph" \in {tab, t}
      <3>1. Reader!Redraw(tab' = "graph", Reader!Passing(filters, held)) /\ UNCHANGED <<filters, held>>
        BY <1>3, <2>1 DEF Reader!ShowTab
      <3> QED
        BY <1>1, <3>1, RedrawKeepsCanvas
    <2>2. CASE "graph" \notin {tab, t}
      BY <1>2, <1>3, <2>2 DEF Reader!ShowTab
    <2> QED
      BY <2>1, <2>2
  <1>4. ASSUME NEW set \in SUBSET Facets, Reader!SetFilters(set) PROVE CanvasHolds'
    <2>1. CASE tab = "graph"
      <3>1. (tab' = "graph") = TRUE /\ Reader!Redraw(TRUE, Reader!Passing(set, held)) /\ filters' = set /\ held' = held
        BY <1>4, <2>1 DEF Reader!SetFilters
      <3> QED
        BY <1>1, <3>1, RedrawKeepsCanvas
    <2>2. CASE tab # "graph"
      BY <1>2, <1>4, <2>2 DEF Reader!SetFilters
    <2> QED
      BY <2>1, <2>2
  <1>5. ASSUME NEW n \in Notes, Reader!PinsChange(n) PROVE CanvasHolds'
    <2>1. PICK p \in {held \cup {n}, held \ {n}} :
             /\ held' = p
             /\ IF tab = "graph" THEN Reader!Redraw(TRUE, Reader!Passing(filters, p))
                ELSE UNCHANGED <<drawn, mounts>>
      BY <1>5 DEF Reader!PinsChange
    <2>2. tab' = tab /\ filters' = filters
      BY <1>5 DEF Reader!PinsChange
    <2>3. CASE tab = "graph"
      <3>1. (tab' = "graph") = TRUE /\ Reader!Redraw(TRUE, Reader!Passing(filters, p))
        BY <2>1, <2>2, <2>3
      <3> QED
        BY <1>1, <2>1, <2>2, <3>1, RedrawKeepsCanvas
    <2>4. CASE tab # "graph"
      BY <1>2, <2>1, <2>2, <2>4
    <2> QED
      BY <2>3, <2>4
  <1>6. ASSUME NEW n \in Notes, Reader!LoadNote(n) PROVE CanvasHolds'
    <2>1. CASE tab = "graph"
      <3>1. (tab' = "graph") = FALSE /\ Reader!Redraw(FALSE, {})
        BY <1>6, <2>1 DEF Reader!LoadNote
      <3> QED
        BY <1>1, <3>1, RedrawKeepsCanvas
    <2>2. CASE tab # "graph"
      BY <1>2, <1>6, <2>2 DEF Reader!LoadNote
    <2> QED
      BY <2>1, <2>2
  <1>7. CASE Reader!LoadNeighborhood
    BY <1>7, CanvasStays DEF Reader!LoadNeighborhood
  <1>8. ASSUME NEW k \in calls, Reader!AnswersOf(k) PROVE CanvasHolds'
    BY <1>8, CanvasStays DEF Reader!AnswersOf, Reader!NoteAnswered, Reader!NeighborhoodAnswered
  <1>9. ASSUME NEW m \in mounts, Reader!Draw(m) PROVE CanvasHolds'
    <2>1. UNCHANGED <<tab, filters, held>> /\ mounts' = mounts \ {m}
      BY <1>9 DEF Reader!Draw
    <2>2. Reader!Passing(filters, held)' = Reader!Passing(filters, held)
      BY <2>1 DEF Reader!Passing, Reader!HasFacet
    <2>3. CASE m.current
      <3>1. drawn' = [of |-> Reader!Passing(filters, held), there |-> TRUE] /\ tab = "graph"
        BY <1>9, <2>3 DEF Reader!Draw, CanvasHolds, MountIsCurrent
      <3> QED
        BY <2>1, <2>2, <3>1 DEF CanvasHolds, MountIsCurrent, DrawnOrAbout
    <2>4. CASE ~m.current
      <3>1. drawn' = drawn
        BY <1>9, <2>4 DEF Reader!Draw
      <3> QED
        BY <2>1, <2>2, <2>4, <3>1 DEF CanvasHolds, MountIsCurrent, DrawnOrAbout
    <2> QED
      BY <2>3, <2>4
  <1>10. CASE UNCHANGED Reader!notesVars
    BY <1>10, CanvasStays DEF Reader!notesVars
  <1> QED
    BY <1>3, <1>4, <1>5, <1>6, <1>7, <1>8, <1>9, <1>10 DEF Reader!NotesNext, Reader!NotesProgress

NotesInv == Reader!NotesTypeOK /\ PreviewHolds /\ CanvasHolds

LEMMA NotesInvInit ==
    ASSUME Reader!NotesInit
    PROVE  NotesInv
  <1>1. Reader!NotesTypeOK
    BY NotesTypeInit, DeskAssumption
  <1>2. PreviewHolds
    BY RequestsAssumption DEF Reader!NotesInit, Reader!RequestsInit, PreviewHolds, LatestIsOfSelected,
                              SentBefore, Reader!NoteIsOfSelected
  <1>3. CanvasHolds
    BY DEF Reader!NotesInit, CanvasHolds, MountIsCurrent, DrawnOrAbout, Reader!Passing
  <1> QED
    BY <1>1, <1>2, <1>3 DEF NotesInv

LEMMA NotesInvStep ==
    ASSUME NotesInv, [Reader!NotesNext]_(Reader!notesVars)
    PROVE  NotesInv'
  BY NotesTypeStep, PreviewStep, CanvasStep, DeskAssumption DEF NotesInv

LEMMA NotesHold ==
    ASSUME NotesInv
    PROVE  Reader!NotesTypeOK /\ Reader!NoteIsOfSelected /\ Reader!CanvasIsCurrent
  BY DEF NotesInv, PreviewHolds, CanvasHolds, MountIsCurrent, DrawnOrAbout, Reader!CanvasIsCurrent

-----------------------------------------------------------------------------
(***************************************************************************)
(* The maintenance.                                                        *)
(***************************************************************************)

\* A request is about what its kind is about.
FitRequest(k) ==
    /\ k \in Vault!Requests
    /\ k.op = "act" => k.on \in Proposals /\ k.to \in {"applied", "rejected", "reverted"}
    /\ k.op = "decide" => k.on \in Relations /\ k.to \in Vault!Decisions
    /\ k.op = "exclude" => k.on \in Paths /\ k.to \in {"excluded", "admitted"}

VaultTyped == Vault!VaultTypeOK /\ \A k \in calls : FitRequest(k)

\* The lists of the backend have their types.
RowsTyped ==
    /\ policy \subseteq Paths /\ rows \in [Proposals -> Vault!Statuses]
    /\ feedback \in [Relations -> Vault!Decisions]

\* What no list has been read into.
Blank == [Vault!View({}, {}) EXCEPT !.exclusions = {}, !.proposals = [p \in Proposals |-> "proposed"],
                                    !.relations = [r \in Relations |-> "none"]]

LEMMA BlankView ==
    ASSUME RowsTyped
    PROVE  Blank \in Vault!Views /\ Blank.read = {} /\ Blank.missed = {}
  <1>1. Vault!View({}, {}) \in Vault!Views /\ Vault!View({}, {}).read = {} /\ Vault!View({}, {}).missed = {}
    BY DEF RowsTyped, Vault!Views, Vault!View
  <1>2. [p \in Proposals |-> "proposed"] \in [Proposals -> Vault!Statuses]
    BY DEF Vault!Statuses
  <1>3. [r \in Relations |-> "none"] \in [Relations -> Vault!Decisions]
    BY DEF Vault!Decisions
  <1> QED
    BY <1>1, <1>2, <1>3 DEF Blank, Vault!Views

LEMMA NewRequests ==
    ASSUME RowsTyped, NEW id \in 0 .. MaxActs
    PROVE  /\ \A on \in Vault!Things : FitRequest(Vault!Load(id, on))
           /\ \A op \in {"metadata", "batch", "folder"} : FitRequest(Vault!Request(id, op, "panel", "none"))
           /\ \A p \in Paths, to \in {"excluded", "admitted"} : FitRequest(Vault!Request(id, "exclude", p, to))
           /\ \A p \in Proposals, to \in {"applied", "rejected", "reverted"} :
                 FitRequest(Vault!Request(id, "act", p, to))
           /\ \A r \in Relations, to \in Vault!Decisions : FitRequest(Vault!Request(id, "decide", r, to))
  <1>1. \A op, on, to : Vault!Request(id, op, on, to) =
                [id |-> id, step |-> "out", op |-> op, on |-> on, to |-> to, got |-> Blank]
    BY DEF Vault!Request, Blank
  <1>2. Blank \in Vault!Views
    BY BlankView
  <1> USE DEF Vault!Requests, FitRequest, Vault!Things, Vault!Statuses, Vault!Decisions
  <1>3. \A on \in Vault!Things : FitRequest(Vault!Load(id, on))
    BY <1>1, <1>2 DEF Vault!Load
  <1>4. \A op \in {"metadata", "batch", "folder"} : FitRequest(Vault!Request(id, op, "panel", "none"))
    BY <1>1, <1>2
  <1>5. \A p \in Paths, to \in {"excluded", "admitted"} : FitRequest(Vault!Request(id, "exclude", p, to))
    BY <1>1, <1>2
  <1>6. \A p \in Proposals, to \in {"applied", "rejected", "reverted"} :
           FitRequest(Vault!Request(id, "act", p, to))
    BY <1>1, <1>2
  <1>7. \A r \in Relations, to \in Vault!Decisions : FitRequest(Vault!Request(id, "decide", r, to))
    BY <1>1, <1>2
  <1> QED
    BY <1>3, <1>4, <1>5, <1>6, <1>7

LEMMA VaultTypeInit ==
    ASSUME Vault!VaultInit
    PROVE  VaultTyped
  <1>1. acts = 0 /\ faults = 0 /\ calls = {Vault!Load(0, "panel")}
    BY DEF Vault!VaultInit
  <1>2. 0 \in 0 .. MaxActs /\ 0 \in 0 .. MaxFaults
    BY RequestsAssumption
  <1>3. \A k \in calls : FitRequest(k)
    <2>1. RowsTyped
      BY DEF Vault!VaultInit, RowsTyped, Vault!Statuses, Vault!Decisions
    <2> QED
      BY <1>1, <1>2, <2>1, NewRequests DEF Vault!Things
  <1>4. Vault!RequestsOK(Vault!Requests)
    BY <1>1, <1>2, <1>3 DEF Vault!RequestsOK, FitRequest
  <1>5. /\ rows \in [Proposals -> Vault!Statuses] /\ rows = proposals
        /\ proposals \in [Proposals -> Vault!Statuses \cup {"running", "error"}]
        /\ relations \in [Relations -> Vault!Decisions] /\ relations = feedback /\ deciding = feedback
    BY DEF Vault!VaultInit, Vault!Statuses, Vault!Decisions
  <1> QED
    BY <1>3, <1>4, <1>5 DEF VaultTyped, Vault!VaultTypeOK, Vault!VaultInit

LEMMA TypeOfVaultClicks ==
    ASSUME VaultTyped,
           \/ Vault!Reload \/ Vault!StartBatch \/ Vault!InitFolder
           \/ \E p \in Paths : Vault!ToggleExclusion(p)
           \/ \E p \in Proposals, to \in Vault!Statuses \ {"proposed"} : Vault!ActOn(p, to)
           \/ \E r \in Relations, to \in Vault!Decisions \ {"none"} : Vault!Decide(r, to)
    PROVE  VaultTyped'
  <1> USE DEF VaultTyped, Vault!VaultTypeOK, Vault!RequestsOK
  <1>1. Vault!Act => acts + 1 \in 0 .. MaxActs /\ acts' \in 0 .. MaxActs
    BY RequestsAssumption DEF Vault!Act
  <1>2. /\ Vault!Act => FitRequest(Vault!Load(acts + 1, "panel"))
        /\ Vault!Act => \A op \in {"metadata", "batch", "folder"} :
                           FitRequest(Vault!Request(acts + 1, op, "panel", "none"))
        /\ Vault!Act => \A p \in Paths, to \in {"excluded", "admitted"} :
                           FitRequest(Vault!Request(acts + 1, "exclude", p, to))
        /\ Vault!Act => \A p \in Proposals, to \in {"applied", "rejected", "reverted"} :
                           FitRequest(Vault!Request(acts + 1, "act", p, to))
        /\ Vault!Act => \A r \in Relations, to \in Vault!Decisions :
                           FitRequest(Vault!Request(acts + 1, "decide", r, to))
    <2>1. RowsTyped
      BY DEF RowsTyped
    <2> QED
      BY <1>1, <2>1, NewRequests DEF Vault!Things
  <1>3. ASSUME NEW request, Vault!Ask({request}), FitRequest(request)
        PROVE  calls' \subseteq Vault!Requests /\ \A k \in calls' : FitRequest(k)
    BY <1>3 DEF Vault!Ask, FitRequest
  <1>4. CASE Vault!Reload
    <2>1. calls' \subseteq Vault!Requests /\ \A k \in calls' : FitRequest(k)
      BY <1>2, <1>3, <1>4 DEF Vault!Reload
    <2> QED
      BY <1>1, <1>4, <2>1 DEF Vault!Reload, Vault!vaultRows
  <1>5. CASE Vault!StartBatch
    <2>1. calls' \subseteq Vault!Requests /\ \A k \in calls' : FitRequest(k)
      BY <1>2, <1>3, <1>5 DEF Vault!StartBatch
    <2> QED
      BY <1>1, <1>5, <2>1 DEF Vault!StartBatch, Vault!vaultRows
  <1>6. CASE Vault!InitFolder
    <2>1. calls' \subseteq Vault!Requests /\ \A k \in calls' : FitRequest(k)
      BY <1>2, <1>3, <1>6 DEF Vault!InitFolder
    <2> QED
      BY <1>1, <1>6, <2>1 DEF Vault!InitFolder, Vault!vaultRows
  <1>7. ASSUME NEW p \in Paths, Vault!ToggleExclusion(p) PROVE VaultTyped'
    <2>1. calls' \subseteq Vault!Requests /\ \A k \in calls' : FitRequest(k)
      BY <1>2, <1>3, <1>7 DEF Vault!ToggleExclusion
    <2>2. excluded' \subseteq Paths
      BY <1>7 DEF Vault!ToggleExclusion
    <2> QED
      BY <1>1, <1>7, <2>1, <2>2 DEF Vault!ToggleExclusion, Vault!vaultRows
  <1>8. ASSUME NEW p \in Proposals, NEW to \in Vault!Statuses \ {"proposed"}, Vault!ActOn(p, to)
        PROVE  VaultTyped'
    <2>1. calls' \subseteq Vault!Requests /\ \A k \in calls' : FitRequest(k)
      BY <1>2, <1>3, <1>8 DEF Vault!ActOn, Vault!Statuses
    <2> QED
      BY <1>1, <1>8, <2>1 DEF Vault!ActOn, Vault!vaultRows
  <1>9. ASSUME NEW r \in Relations, NEW to \in Vault!Decisions \ {"none"}, Vault!Decide(r, to)
        PROVE  VaultTyped'
    <2>1. calls' \subseteq Vault!Requests /\ \A k \in calls' : FitRequest(k)
      BY <1>2, <1>3, <1>9 DEF Vault!Decide
    <2> QED
      BY <1>1, <1>9, <2>1 DEF Vault!Decide, Vault!vaultRows
  <1> QED
    BY <1>4, <1>5, <1>6, <1>7, <1>8, <1>9

\* A load that has read one list more.
LEMMA ReadTypes ==
    ASSUME VaultTyped, NEW k \in calls, NEW l \in Vault!Lists
    PROVE  /\ FitRequest([k EXCEPT !.got[l] = Vault!View({}, {})[l], !.got.read = k.got.read \cup {l}])
           /\ FitRequest([k EXCEPT !.got.missed = k.got.missed \cup {l}])
  <1>1. FitRequest(k) /\ k \in Vault!Requests /\ k.got \in Vault!Views
    BY DEF VaultTyped, FitRequest, Vault!Requests
  <1>2. policy \subseteq Paths /\ rows \in [Proposals -> Vault!Statuses] /\ feedback \in [Relations -> Vault!Decisions]
    BY DEF VaultTyped, Vault!VaultTypeOK
  <1>3. [k.got EXCEPT ![l] = Vault!View({}, {})[l], !.read = k.got.read \cup {l}] \in Vault!Views
    <2>1. CASE l = "exclusions"
      BY <1>1, <1>2, <2>1 DEF Vault!Views, Vault!View, Vault!Lists
    <2>2. CASE l = "proposals"
      BY <1>1, <1>2, <2>2 DEF Vault!Views, Vault!View, Vault!Lists
    <2>3. CASE l = "relations"
      BY <1>1, <1>2, <2>3 DEF Vault!Views, Vault!View, Vault!Lists
    <2> QED
      BY <2>1, <2>2, <2>3 DEF Vault!Lists
  <1>4. [k.got EXCEPT !.missed = k.got.missed \cup {l}] \in Vault!Views
    BY <1>1 DEF Vault!Views
  <1>5. \A got \in Vault!Views : FitRequest([k EXCEPT !.got = got])
    BY <1>1 DEF FitRequest, Vault!Requests
  <1>6. [k EXCEPT !.got[l] = Vault!View({}, {})[l], !.got.read = k.got.read \cup {l}]
           = [k EXCEPT !.got = [k.got EXCEPT ![l] = Vault!View({}, {})[l], !.read = k.got.read \cup {l}]]
    BY <1>1 DEF Vault!Requests
  <1>7. [k EXCEPT !.got.missed = k.got.missed \cup {l}]
           = [k EXCEPT !.got = [k.got EXCEPT !.missed = k.got.missed \cup {l}]]
    BY <1>1 DEF Vault!Requests
  <1> QED
    BY <1>3, <1>4, <1>5, <1>6, <1>7

LEMMA TypeOfVaultLoads ==
    ASSUME VaultTyped, NEW k \in calls,
           \/ \E l \in Vault!Lists : Vault!ReadList(k, l)
           \/ Vault!LoadAnswered(k) \/ Vault!MetadataAnswered(k) \/ Vault!LoseLoad(k)
    PROVE  VaultTyped'
  <1> USE DEF VaultTyped, Vault!VaultTypeOK, Vault!RequestsOK
  <1>1. /\ FitRequest(k) /\ k \in Vault!Requests /\ k.got \in Vault!Views
        /\ k.on \in Vault!Things /\ k.id \in 0 .. MaxActs
    BY DEF FitRequest, Vault!Requests
  <1>2. /\ k.got.exclusions \subseteq Paths /\ k.got.proposals \in [Proposals -> Vault!Statuses]
        /\ k.got.relations \in [Relations -> Vault!Decisions]
    BY <1>1 DEF Vault!Views
  <1>3. Vault!Passed(k) \subseteq Vault!Things
    BY DEF Vault!Passed, Vault!Things
  <1>4. Vault!Fault \/ UNCHANGED faults => faults' \in 0 .. MaxFaults
    BY RequestsAssumption DEF Vault!Fault
  <1>5. Vault!Ends(k) => calls' \subseteq Vault!Requests /\ \A j \in calls' : FitRequest(j)
    BY DEF Vault!Ends
  <1>6. Vault!Released(k) => deciding' \in [Relations -> Vault!Decisions] /\ batch' \in BOOLEAN
    BY DEF Vault!Released, Vault!Decisions
  <1>7. ASSUME NEW l \in Vault!Lists, Vault!ReadList(k, l) PROVE VaultTyped'
    <2>1. /\ FitRequest([k EXCEPT !.got[l] = Vault!View({}, {})[l], !.got.read = k.got.read \cup {l}])
          /\ FitRequest([k EXCEPT !.got.missed = k.got.missed \cup {l}])
      BY ReadTypes
    <2>2. \/ Vault!Becomes(k, [k EXCEPT !.got[l] = Vault!View({}, {})[l], !.got.read = k.got.read \cup {l}])
          \/ Vault!Becomes(k, [k EXCEPT !.got.missed = k.got.missed \cup {l}])
      BY <1>7 DEF Vault!ReadList
    <2>3. \A j \in calls' : FitRequest(j)
      BY <2>1, <2>2 DEF Vault!Becomes
    <2>4. calls' \subseteq Vault!Requests
      BY <2>3 DEF FitRequest
    <2>5. Vault!OfList(l) \subseteq Vault!Things
      BY DEF Vault!OfList, Vault!Things, Vault!Lists
    <2>6. slipped' \subseteq Vault!Things /\ faults' \in 0 .. MaxFaults
      BY <1>4, <1>7, <2>5 DEF Vault!ReadList
    <2> QED
      BY <1>7, <2>3, <2>4, <2>6 DEF Vault!ReadList, Vault!vaultRows
  <1>8. CASE Vault!LoadAnswered(k)
    <2>1. /\ excluded' \subseteq Paths
          /\ proposals' \in [Proposals -> Vault!Statuses \cup {"running", "error"}]
          /\ relations' \in [Relations -> Vault!Decisions]
      BY <1>2, <1>8 DEF Vault!LoadAnswered
    <2>2. /\ body' \in {"loading", "loaded", "error"} /\ badge' \in {"loading", "idle", "degraded"}
          /\ slipped' \subseteq Vault!Things
      BY <1>3, <1>8 DEF Vault!LoadAnswered
    <2> QED
      BY <1>5, <1>6, <1>8, <2>1, <2>2 DEF Vault!LoadAnswered, Vault!vaultRows
  <1>9. CASE Vault!MetadataAnswered(k)
    <2>1. relations' \in [Relations -> Vault!Decisions]
      BY <1>2, <1>9 DEF Vault!MetadataAnswered
    <2>2. badge' \in {"loading", "idle", "degraded"} /\ slipped' \subseteq Vault!Things
      BY <1>3, <1>9 DEF Vault!MetadataAnswered
    <2> QED
      BY <1>5, <1>6, <1>9, <2>1, <2>2 DEF Vault!MetadataAnswered, Vault!vaultRows
  <1>10. CASE Vault!LoseLoad(k)
    BY <1>4, <1>5, <1>6, <1>10 DEF Vault!LoseLoad, Vault!vaultRows
  <1> QED
    BY <1>7, <1>8, <1>9, <1>10

LEMMA TypeOfVaultAnswers ==
    ASSUME VaultTyped, NEW k \in calls,
           \/ Vault!TakeExclusion(k) \/ Vault!ExclusionAnswered(k)
           \/ Vault!TakeAct(k) \/ Vault!ActAnswered(k)
           \/ Vault!TakeDecision(k) \/ Vault!DecisionAnswered(k)
           \/ Vault!BatchAnswered(k) \/ Vault!FolderAnswered(k) \/ Vault!LoseRequest(k)
    PROVE  VaultTyped'
  <1> USE DEF VaultTyped, Vault!VaultTypeOK, Vault!RequestsOK
  <1> DEFINE back == [k EXCEPT !.step = "back"]
  <1>1. /\ FitRequest(k) /\ k \in Vault!Requests /\ k.got \in Vault!Views
        /\ k.on \in Vault!Things /\ k.id \in 0 .. MaxActs
    BY DEF FitRequest, Vault!Requests
  <1>2. /\ FitRequest(Vault!Load(k.id, "panel")) /\ FitRequest(Vault!Load(k.id, k.on))
        /\ FitRequest(Vault!Request(k.id, "metadata", "panel", "none"))
    <2>1. RowsTyped
      BY DEF RowsTyped
    <2> QED
      BY <1>1, <2>1, NewRequests DEF Vault!Things
  <1>3. FitRequest(back)
    BY <1>1 DEF FitRequest, Vault!Requests
  <1> HIDE DEF back
  <1>4. Vault!Fault \/ UNCHANGED faults => faults' \in 0 .. MaxFaults
    BY RequestsAssumption DEF Vault!Fault
  <1>5. Vault!Ends(k) => calls' \subseteq Vault!Requests /\ \A j \in calls' : FitRequest(j)
    BY DEF Vault!Ends
  <1>6. ASSUME NEW later, Vault!Becomes(k, later), FitRequest(later)
        PROVE  calls' \subseteq Vault!Requests /\ \A j \in calls' : FitRequest(j)
    BY <1>6 DEF Vault!Becomes, FitRequest
  <1>7. CASE Vault!TakeExclusion(k)
    <2>1. Vault!Becomes(k, back) /\ k.op = "exclude"
      BY <1>7 DEF Vault!TakeExclusion, back
    <2>2. calls' \subseteq Vault!Requests /\ \A j \in calls' : FitRequest(j)
      BY <1>3, <1>6, <2>1
    <2>3. k.on \in Paths
      BY <1>1, <2>1 DEF FitRequest
    <2>4. policy' \subseteq Paths /\ slipped' \subseteq Vault!Things
      BY <1>7, <2>3 DEF Vault!TakeExclusion, Vault!Holding, Vault!Things
    <2> QED
      BY <1>7, <2>2, <2>4 DEF Vault!TakeExclusion
  <1>8. CASE Vault!ExclusionAnswered(k)
    BY <1>5, <1>8 DEF Vault!ExclusionAnswered, Vault!vaultRows
  <1>9. CASE Vault!TakeAct(k)
    <2>1. (Vault!Becomes(k, back) \/ Vault!Ends(k)) /\ k.op = "act"
      BY <1>9 DEF Vault!TakeAct, back
    <2>2. calls' \subseteq Vault!Requests /\ \A j \in calls' : FitRequest(j)
      BY <1>3, <1>5, <1>6, <2>1
    <2>3. k.on \in Proposals /\ k.to \in Vault!Statuses
      BY <1>1, <2>1 DEF FitRequest, Vault!Statuses
    <2>4. rows' \in [Proposals -> Vault!Statuses]
      BY <1>9, <2>3 DEF Vault!TakeAct
    <2>5. proposals' \in [Proposals -> Vault!Statuses \cup {"running", "error"}]
      BY <1>9, <2>3 DEF Vault!TakeAct
    <2>6. replaced' \subseteq Proposals
      BY <1>9, <2>3 DEF Vault!TakeAct
    <2> QED
      BY <1>9, <2>2, <2>4, <2>5, <2>6 DEF Vault!TakeAct
  <1>10. CASE Vault!ActAnswered(k)
    <2>1. Vault!Becomes(k, Vault!Load(k.id, "panel")) /\ k.op = "act"
      BY <1>10 DEF Vault!ActAnswered
    <2>2. calls' \subseteq Vault!Requests /\ \A j \in calls' : FitRequest(j)
      BY <1>2, <1>6, <2>1
    <2>3. k.to \in Vault!Statuses
      BY <1>1, <2>1 DEF FitRequest, Vault!Statuses
    <2>4. proposals' \in [Proposals -> Vault!Statuses \cup {"running", "error"}]
      BY <1>10, <2>3 DEF Vault!ActAnswered
    <2> QED
      BY <1>10, <2>2, <2>4 DEF Vault!ActAnswered, Vault!vaultRows
  <1>11. CASE Vault!TakeDecision(k)
    <2> DEFINE decided == [k EXCEPT !.step = "back", !.got.relations = feedback']
    <2>1. Vault!Becomes(k, decided) /\ k.op = "decide" /\ feedback' = [feedback EXCEPT ![k.on] = k.to]
      BY <1>11 DEF Vault!TakeDecision
    <2>2. feedback' \in [Relations -> Vault!Decisions]
      BY <1>1, <2>1 DEF FitRequest
    <2>3. [k.got EXCEPT !.relations = feedback'] \in Vault!Views
      BY <1>1, <2>2 DEF Vault!Views
    <2>4. decided = [k EXCEPT !.step = "back", !.got = [k.got EXCEPT !.relations = feedback']]
      BY <1>1 DEF Vault!Requests
    <2>5. FitRequest(decided)
      BY <1>1, <2>3, <2>4 DEF FitRequest, Vault!Requests
    <2> HIDE DEF decided
    <2>6. calls' \subseteq Vault!Requests /\ \A j \in calls' : FitRequest(j)
      BY <1>6, <2>1, <2>5
    <2> QED
      BY <1>11, <2>2, <2>6 DEF Vault!TakeDecision
  <1>12. CASE Vault!DecisionAnswered(k)
    <2>1. Vault!Becomes(k, Vault!Load(k.id, k.on)) /\ relations' = k.got.relations
      BY <1>12 DEF Vault!DecisionAnswered
    <2>2. calls' \subseteq Vault!Requests /\ \A j \in calls' : FitRequest(j)
      BY <1>2, <1>6, <2>1
    <2>3. relations' \in [Relations -> Vault!Decisions]
      BY <1>1, <2>1 DEF Vault!Views
    <2> QED
      BY <1>12, <2>2, <2>3 DEF Vault!DecisionAnswered, Vault!vaultRows
  <1>13. CASE Vault!BatchAnswered(k)
    <2>1. calls' \subseteq Vault!Requests /\ \A j \in calls' : FitRequest(j)
      BY <1>2, <1>6, <1>13 DEF Vault!BatchAnswered
    <2> QED
      BY <1>13, <2>1 DEF Vault!BatchAnswered, Vault!vaultRows
  <1>14. CASE Vault!FolderAnswered(k)
    <2>1. calls' \subseteq Vault!Requests /\ \A j \in calls' : FitRequest(j)
      BY <1>2, <1>6, <1>14 DEF Vault!FolderAnswered
    <2> QED
      BY <1>14, <2>1 DEF Vault!FolderAnswered, Vault!vaultRows
  <1>15. CASE Vault!LoseRequest(k)
    <2>1. proposals' \in [Proposals -> Vault!Statuses \cup {"running", "error"}]
      BY <1>15 DEF Vault!LoseRequest
    <2>2. deciding' \in [Relations -> Vault!Decisions]
      BY <1>15 DEF Vault!LoseRequest, Vault!Decisions
    <2>3. slipped' \subseteq Vault!Things
      BY <1>1, <1>15 DEF Vault!LoseRequest
    <2>4. batch' \in BOOLEAN /\ folder' \in BOOLEAN /\ badge' \in {"loading", "idle", "degraded"}
      BY <1>15 DEF Vault!LoseRequest
    <2> QED
      BY <1>4, <1>5, <1>15, <2>1, <2>2, <2>3, <2>4 DEF Vault!LoseRequest, Vault!vaultRows
  <1> QED
    BY <1>7, <1>8, <1>9, <1>10, <1>11, <1>12, <1>13, <1>14, <1>15

LEMMA VaultTypeStep ==
    ASSUME VaultTyped, [Vault!VaultNext]_(Vault!vaultVars)
    PROVE  VaultTyped'
  <1>1. CASE Vault!VaultNext
    BY <1>1, TypeOfVaultClicks, TypeOfVaultLoads, TypeOfVaultAnswers
    DEF Vault!VaultNext, Vault!VaultProgress
  <1>2. CASE UNCHANGED Vault!vaultVars
    BY <1>2 DEF Vault!vaultVars, Vault!requestVars, VaultTyped, Vault!VaultTypeOK, Vault!RequestsOK
  <1> QED
    BY <1>1, <1>2

\* The requests of one kind are those before.
Same(op) ==
    /\ \A k \in calls : k.op = op => k \in calls'
    /\ \A k \in calls' : k.op = op => k \in calls

LEMMA SameBy ==
    ASSUME NEW op
    PROVE  /\ \A k : Vault!Ends(k) /\ k.op # op => Same(op)
           /\ \A k, later : Vault!Becomes(k, later) /\ k.op # op /\ later.op # op => Same(op)
           /\ \A later : Vault!Ask({later}) /\ later.op # op => Same(op)
           /\ UNCHANGED calls => Same(op)
  BY DEF Same, Vault!Ends, Vault!Becomes, Vault!Ask

LEMMA OpsOf ==
           /\ \A id, op, on, to : /\ Vault!Request(id, op, on, to).op = op
                                  /\ Vault!Request(id, op, on, to).step = "out"
                                  /\ Vault!Request(id, op, on, to).on = on
                                  /\ Vault!Request(id, op, on, to).to = to
           /\ \A id, on : Vault!Load(id, on).op = "load"
           /\ \A k \in Vault!Requests :
                /\ [k EXCEPT !.step = "back"].op = k.op /\ [k EXCEPT !.step = "back"].on = k.on
                /\ [k EXCEPT !.step = "back"].to = k.to /\ [k EXCEPT !.step = "back"].step = "back"
                /\ [k EXCEPT !.step = "back"].got = k.got
           /\ \A k \in Vault!Requests : \A l, seen, read : [k EXCEPT !.got[l] = seen, !.got.read = read].op = k.op
           /\ \A k \in Vault!Requests : \A missed : [k EXCEPT !.got.missed = missed].op = k.op
           /\ \A k \in Vault!Requests : \A seen :
                /\ [k EXCEPT !.step = "back", !.got.relations = seen].op = k.op
                /\ [k EXCEPT !.step = "back", !.got.relations = seen].on = k.on
                /\ [k EXCEPT !.step = "back", !.got.relations = seen].step = "back"
  BY DEF Vault!Request, Vault!Load, Vault!Requests

\* What leaves the requests of a kind alone.
LEMMA VaultSame ==
    ASSUME VaultTyped, Vault!VaultNext
    PROVE  /\ \/ Same("act")
              \/ \E p \in Proposals, to \in Vault!Statuses \ {"proposed"} : Vault!ActOn(p, to)
              \/ \E k \in calls : k.op = "act" /\
                    (Vault!TakeAct(k) \/ Vault!ActAnswered(k) \/ Vault!LoseRequest(k))
           /\ \/ Same("exclude")
              \/ \E p \in Paths : Vault!ToggleExclusion(p)
              \/ \E k \in calls : k.op = "exclude" /\
                    (Vault!TakeExclusion(k) \/ Vault!ExclusionAnswered(k) \/ Vault!LoseRequest(k))
           /\ \/ Same("decide")
              \/ \E r \in Relations, to \in Vault!Decisions \ {"none"} : Vault!Decide(r, to)
              \/ \E k \in calls : k.op = "decide" /\
                    (Vault!TakeDecision(k) \/ Vault!DecisionAnswered(k) \/ Vault!LoseRequest(k))
  <1>1. \A k \in calls : k \in Vault!Requests
    BY DEF VaultTyped, Vault!VaultTypeOK, Vault!RequestsOK
  <1>2. \A op : /\ \A k : Vault!Ends(k) /\ k.op # op => Same(op)
                /\ \A k, later : Vault!Becomes(k, later) /\ k.op # op /\ later.op # op => Same(op)
                /\ \A later : Vault!Ask({later}) /\ later.op # op => Same(op)
    BY SameBy
  <1>3. CASE Vault!Reload
    BY <1>2, <1>3, OpsOf DEF Vault!Reload
  <1>4. CASE Vault!StartBatch
    BY <1>2, <1>4, OpsOf DEF Vault!StartBatch
  <1>5. CASE Vault!InitFolder
    BY <1>2, <1>5, OpsOf DEF Vault!InitFolder
  <1>6. ASSUME NEW p \in Paths, Vault!ToggleExclusion(p) PROVE Same("act") /\ Same("decide")
    BY <1>2, <1>6, OpsOf DEF Vault!ToggleExclusion
  <1>7. ASSUME NEW p \in Proposals, NEW to \in Vault!Statuses \ {"proposed"}, Vault!ActOn(p, to)
        PROVE  Same("exclude") /\ Same("decide")
    BY <1>2, <1>7, OpsOf DEF Vault!ActOn
  <1>8. ASSUME NEW r \in Relations, NEW to \in Vault!Decisions \ {"none"}, Vault!Decide(r, to)
        PROVE  Same("act") /\ Same("exclude")
    BY <1>2, <1>8, OpsOf DEF Vault!Decide
  <1>9. ASSUME NEW k \in calls, NEW l \in Vault!Lists, Vault!ReadList(k, l)
        PROVE  Same("act") /\ Same("exclude") /\ Same("decide")
    <2>1. \/ Vault!Becomes(k, [k EXCEPT !.got[l] = Vault!View({}, {})[l], !.got.read = k.got.read \cup {l}])
          \/ Vault!Becomes(k, [k EXCEPT !.got.missed = k.got.missed \cup {l}])
      BY <1>9 DEF Vault!ReadList
    <2>2. k.op \in {"load", "metadata"} /\ k \in Vault!Requests
      BY <1>1, <1>9 DEF Vault!ReadList
    <2>3. /\ [k EXCEPT !.got[l] = Vault!View({}, {})[l], !.got.read = k.got.read \cup {l}].op = k.op
          /\ [k EXCEPT !.got.missed = k.got.missed \cup {l}].op = k.op
      BY <2>2, OpsOf
    <2> QED
      BY <1>2, <2>1, <2>2, <2>3
  <1>10. ASSUME NEW k \in calls, Vault!LoadAnswered(k) \/ Vault!MetadataAnswered(k) \/ Vault!LoseLoad(k)
         PROVE  Same("act") /\ Same("exclude") /\ Same("decide")
    BY <1>2, <1>10 DEF Vault!LoadAnswered, Vault!MetadataAnswered, Vault!LoseLoad
  <1>11. ASSUME NEW k \in calls, Vault!TakeExclusion(k)
         PROVE  k.op = "exclude" /\ Same("act") /\ Same("decide")
    BY <1>1, <1>2, <1>11, OpsOf DEF Vault!TakeExclusion
  <1>12. ASSUME NEW k \in calls, Vault!ExclusionAnswered(k)
         PROVE  k.op = "exclude" /\ Same("act") /\ Same("decide")
    BY <1>2, <1>12 DEF Vault!ExclusionAnswered
  <1>13. ASSUME NEW k \in calls, Vault!TakeAct(k)
         PROVE  k.op = "act" /\ Same("exclude") /\ Same("decide")
    <2>1. (Vault!Becomes(k, [k EXCEPT !.step = "back"]) \/ Vault!Ends(k)) /\ k.op = "act"
      BY <1>13 DEF Vault!TakeAct
    <2>2. [k EXCEPT !.step = "back"].op = k.op
      BY <1>1, OpsOf
    <2> QED
      BY <1>2, <2>1, <2>2
  <1>14. ASSUME NEW k \in calls, Vault!ActAnswered(k)
         PROVE  k.op = "act" /\ Same("exclude") /\ Same("decide")
    BY <1>2, <1>14, OpsOf DEF Vault!ActAnswered
  <1>15. ASSUME NEW k \in calls, Vault!TakeDecision(k)
         PROVE  k.op = "decide" /\ Same("act") /\ Same("exclude")
    <2>1. /\ Vault!Becomes(k, [k EXCEPT !.step = "back", !.got.relations = feedback'])
          /\ k.op = "decide"
      BY <1>15 DEF Vault!TakeDecision
    <2>2. [k EXCEPT !.step = "back", !.got.relations = feedback'].op = k.op
      BY <1>1, OpsOf
    <2> QED
      BY <1>2, <2>1, <2>2
  <1>16. ASSUME NEW k \in calls, Vault!DecisionAnswered(k)
         PROVE  k.op = "decide" /\ Same("act") /\ Same("exclude")
    BY <1>2, <1>16, OpsOf DEF Vault!DecisionAnswered
  <1>17. ASSUME NEW k \in calls, Vault!BatchAnswered(k) \/ Vault!FolderAnswered(k)
         PROVE  Same("act") /\ Same("exclude") /\ Same("decide")
    BY <1>2, <1>17, OpsOf DEF Vault!BatchAnswered, Vault!FolderAnswered
  <1>18. ASSUME NEW k \in calls, Vault!LoseRequest(k)
         PROVE  /\ k.op # "act" => Same("act")
                /\ k.op # "exclude" => Same("exclude")
                /\ k.op # "decide" => Same("decide")
    BY <1>2, <1>18 DEF Vault!LoseRequest
  <1> QED
    BY <1>3, <1>4, <1>5, <1>6, <1>7, <1>8, <1>9, <1>10, <1>11, <1>12, <1>13, <1>14, <1>15, <1>16,
       <1>17, <1>18
    DEF Vault!VaultNext, Vault!VaultProgress

LEMMA SlippedGrows ==
    ASSUME Vault!VaultNext
    PROVE  slipped \subseteq slipped'
  <1>1. (\/ Vault!Reload \/ Vault!StartBatch \/ Vault!InitFolder
         \/ \E p \in Paths : Vault!ToggleExclusion(p)
         \/ \E p \in Proposals, to \in Vault!Statuses \ {"proposed"} : Vault!ActOn(p, to)
         \/ \E r \in Relations, to \in Vault!Decisions \ {"none"} : Vault!Decide(r, to)) =>
        slipped' = slipped
    BY DEF Vault!Reload, Vault!StartBatch, Vault!InitFolder, Vault!ToggleExclusion, Vault!ActOn,
           Vault!Decide
  <1>2. ASSUME NEW k, NEW l, Vault!ReadList(k, l) PROVE slipped \subseteq slipped'
    BY <1>2 DEF Vault!ReadList
  <1>3. ASSUME NEW k, Vault!LoadAnswered(k) \/ Vault!MetadataAnswered(k) \/ Vault!LoseLoad(k)
        PROVE  slipped \subseteq slipped'
    BY <1>3 DEF Vault!LoadAnswered, Vault!MetadataAnswered, Vault!LoseLoad
  <1>4. ASSUME NEW k, Vault!TakeExclusion(k) PROVE slipped \subseteq slipped'
    <2>1. \E more, yet : slipped' = slipped \cup more \cup yet
      BY <1>4 DEF Vault!TakeExclusion
    <2> QED
      BY <2>1
  <1>5. ASSUME NEW k, Vault!LoseRequest(k) PROVE slipped \subseteq slipped'
    BY <1>5 DEF Vault!LoseRequest
  <1>6. ASSUME NEW k, \/ Vault!ExclusionAnswered(k) \/ Vault!TakeAct(k) \/ Vault!ActAnswered(k)
                      \/ Vault!TakeDecision(k) \/ Vault!DecisionAnswered(k)
                      \/ Vault!BatchAnswered(k) \/ Vault!FolderAnswered(k)
        PROVE  slipped \subseteq slipped'
    BY <1>6 DEF Vault!ExclusionAnswered, Vault!TakeAct, Vault!ActAnswered, Vault!TakeDecision,
           Vault!DecisionAnswered, Vault!BatchAnswered, Vault!FolderAnswered
  <1> QED
    BY <1>1, <1>2, <1>3, <1>4, <1>5, <1>6 DEF Vault!VaultNext, Vault!VaultProgress

-----------------------------------------------------------------------------
(***************************************************************************)
(* A proposal has one act on its way or none: while it runs the button     *)
(* said what fits the row, once taken the row says what will be shown, and *)
(* the text is in the vault as the row says.                               *)
(***************************************************************************)
ActFits(p) ==
    /\ \A j, k \in calls : (j.op = "act" /\ k.op = "act" /\ j.on = p /\ k.on = p) => j = k
    /\ (\A k \in calls : ~(k.op = "act" /\ k.on = p)) => proposals[p] = rows[p]
    /\ \A k \in calls : (k.op = "act" /\ k.on = p) =>
         /\ proposals[p] = "running"
         /\ k.step = "out" => (k.to = "reverted" <=> rows[p] = "applied")
         /\ k.step = "back" => k.to = rows[p]
    /\ (p \in replaced <=> rows[p] = "applied")
ActsFit == \A p \in Proposals \ slipped : ActFits(p)

LEMMA ActsAside ==
    ASSUME NEW p, ActFits(p), Same("act"), rows'[p] = rows[p], p \in replaced' <=> p \in replaced,
           proposals'[p] = proposals[p]
    PROVE  ActFits(p)'
  <1>1. /\ \A j, k \in calls' : (j.op = "act" /\ k.op = "act" /\ j.on = p /\ k.on = p) => j = k
        /\ (\A k \in calls' : ~(k.op = "act" /\ k.on = p)) => proposals'[p] = rows'[p]
    BY DEF ActFits, Same
  <1>2. \A k \in calls' : (k.op = "act" /\ k.on = p) =>
         /\ proposals'[p] = "running"
         /\ k.step = "out" => (k.to = "reverted" <=> rows'[p] = "applied")
         /\ k.step = "back" => k.to = rows'[p]
    BY DEF ActFits, Same
  <1>3. p \in replaced' <=> rows'[p] = "applied"
    BY DEF ActFits
  <1> QED
    BY <1>1, <1>2, <1>3 DEF ActFits

LEMMA ActsInit ==
    ASSUME Vault!VaultInit
    PROVE  ActsFit
  <1>1. calls = {Vault!Load(0, "panel")} /\ Vault!Load(0, "panel").op = "load"
    BY OpsOf DEF Vault!VaultInit
  <1> QED
    BY <1>1 DEF Vault!VaultInit, ActsFit, ActFits

LEMMA ActsOfLoad ==
    ASSUME VaultTyped, ActsFit, NEW k \in calls, Vault!LoadAnswered(k), NEW p \in Proposals \ slipped'
    PROVE  ActFits(p)'
  <1>1. /\ UNCHANGED <<rows, replaced>> /\ calls' \subseteq calls /\ p \notin slipped
        /\ p \notin Vault!Passed(k)
        /\ proposals' = IF "proposals" \in k.got.read THEN k.got.proposals ELSE proposals
    BY DEF Vault!LoadAnswered, Vault!vaultRows, Vault!Ends
  <1>2. ActFits(p)
    BY <1>1 DEF ActsFit
  <1>3. CASE "proposals" \in k.got.read
    <2>1. k.got.proposals[p] = rows[p] /\ \A j \in calls : ~(j.op = "act" /\ j.on = p)
      BY <1>1, <1>3 DEF Vault!Passed
    <2>2. proposals'[p] = rows'[p] /\ \A j \in calls' : ~(j.op = "act" /\ j.on = p)
      BY <1>1, <1>3, <2>1
    <2> QED
      BY <1>1, <1>2, <2>2 DEF ActFits
  <1>4. CASE "proposals" \notin k.got.read
    <2>1. Same("act")
      BY SameBy DEF Vault!LoadAnswered
    <2> QED
      BY <1>1, <1>2, <1>4, <2>1, ActsAside
  <1> QED
    BY <1>3, <1>4

LEMMA ActsOfClick ==
    ASSUME VaultTyped, ActsFit, NEW q \in Proposals, NEW to \in Vault!Statuses \ {"proposed"},
           Vault!ActOn(q, to), NEW p \in Proposals \ slipped'
    PROVE  ActFits(p)'
  <1> DEFINE act == Vault!Request(acts + 1, "act", q, to)
  <1>1. /\ Vault!Offered(q, to) /\ proposals' = [proposals EXCEPT ![q] = "running"]
        /\ calls' = calls \cup {act} /\ UNCHANGED <<rows, replaced, slipped>>
    BY DEF Vault!ActOn, Vault!Ask, Vault!vaultRows
  <1>2. act.op = "act" /\ act.on = q /\ act.to = to /\ act.step = "out"
    BY OpsOf
  <1> HIDE DEF act
  <1>3. ActFits(p) /\ proposals \in [Proposals -> Vault!Statuses \cup {"running", "error"}]
        /\ rows \in [Proposals -> Vault!Statuses]
    BY <1>1 DEF ActsFit, VaultTyped, Vault!VaultTypeOK
  <1>4. CASE p = q
    <2>1. proposals[p] # "running" /\ proposals'[p] = "running"
      BY <1>1, <1>3, <1>4 DEF Vault!Offered
    <2>2. \A k \in calls : ~(k.op = "act" /\ k.on = p)
      BY <1>3, <2>1 DEF ActFits
    <2>3. proposals[p] = rows[p]
      BY <1>3, <2>2 DEF ActFits
    <2>4. to = "reverted" <=> rows[p] = "applied"
      BY <1>1, <1>3, <1>4, <2>3 DEF Vault!Offered, Vault!Statuses
    <2>5. \A k \in calls' : (k.op = "act" /\ k.on = p) => k = act
      BY <1>1, <2>2
    <2> QED
      BY <1>1, <1>2, <1>3, <1>4, <2>1, <2>4, <2>5 DEF ActFits
  <1>5. CASE p # q
    <2>1. proposals'[p] = proposals[p]
      BY <1>1, <1>3, <1>5
    <2>2. \A k \in calls' : (k.op = "act" /\ k.on = p) => k \in calls
      BY <1>1, <1>2, <1>5
    <2>3. calls \subseteq calls'
      BY <1>1
    <2> QED
      BY <1>1, <1>3, <2>1, <2>2, <2>3 DEF ActFits
  <1> QED
    BY <1>4, <1>5

LEMMA ActsOfAnswers ==
    ASSUME VaultTyped, ActsFit, NEW k \in calls, k.op = "act",
           Vault!TakeAct(k) \/ Vault!ActAnswered(k) \/ Vault!LoseRequest(k),
           NEW p \in Proposals \ slipped'
    PROVE  ActFits(p)'
  <1>1. /\ k \in Vault!Requests /\ k.on \in Proposals /\ k.to \in {"applied", "rejected", "reverted"}
        /\ proposals \in [Proposals -> Vault!Statuses \cup {"running", "error"}]
        /\ rows \in [Proposals -> Vault!Statuses]
    BY DEF VaultTyped, FitRequest, Vault!VaultTypeOK
  <1>2. p \notin slipped /\ ActFits(p)
    BY DEF ActsFit, Vault!TakeAct, Vault!ActAnswered, Vault!LoseRequest
  <1>3. CASE Vault!TakeAct(k)
    <2> DEFINE back == [k EXCEPT !.step = "back"]
    <2>1. back.op = "act" /\ back.on = k.on /\ back.to = k.to /\ back.step = "back"
      BY <1>1, OpsOf
    <2>2. /\ k.step = "out"
          /\ IF Vault!Fits(k)
             THEN /\ rows' = [rows EXCEPT ![k.on] = k.to]
                  /\ replaced' = CASE k.to = "applied" -> replaced \cup {k.on}
                                   [] k.to = "reverted" -> replaced \ {k.on}
                                   [] OTHER -> replaced
                  /\ calls' = (calls \ {k}) \cup {back}
                  /\ UNCHANGED proposals
             ELSE /\ proposals' = [proposals EXCEPT ![k.on] = "error"]
                  /\ calls' = calls \ {k}
                  /\ UNCHANGED <<rows, replaced>>
      BY <1>3 DEF Vault!TakeAct, Vault!Becomes, Vault!Ends
    <2> HIDE DEF back
    <2>3. CASE p = k.on
      <3>1. /\ proposals[p] = "running"
            /\ (k.to = "reverted" <=> rows[p] = "applied")
            /\ (p \in replaced <=> rows[p] = "applied")
            /\ \A j \in calls : (j.op = "act" /\ j.on = p) => j = k
        BY <1>2, <2>2, <2>3 DEF ActFits
      <3>2. Vault!Fits(k)
        BY <1>1, <2>3, <3>1 DEF Vault!Fits
      <3>3. rows'[p] = k.to /\ proposals'[p] = "running"
        BY <1>1, <2>2, <2>3, <3>1, <3>2
      <3>4. p \in replaced' <=> rows'[p] = "applied"
        BY <1>1, <2>2, <2>3, <3>1, <3>2, <3>3
      <3>5. \A j \in calls' : (j.op = "act" /\ j.on = p) => j = back
        BY <2>2, <3>1, <3>2
      <3>6. back \in calls'
        BY <2>2, <3>2
      <3> QED
        BY <2>1, <2>3, <3>3, <3>4, <3>5, <3>6 DEF ActFits
    <2>4. CASE p # k.on
      <3>1. /\ rows'[p] = rows[p] /\ proposals'[p] = proposals[p]
            /\ (p \in replaced' <=> p \in replaced)
        BY <1>1, <2>2, <2>4
      <3>2. \A j \in calls' : (j.op = "act" /\ j.on = p) => j \in calls
        BY <2>1, <2>2, <2>4
      <3>3. \A j \in calls : (j.op = "act" /\ j.on = p) => j \in calls'
        BY <2>2, <2>4
      <3> QED
        BY <1>2, <3>1, <3>2, <3>3 DEF ActFits
    <2> QED
      BY <2>3, <2>4
  <1>4. CASE Vault!ActAnswered(k)
    <2>1. /\ k.step = "back" /\ proposals' = [proposals EXCEPT ![k.on] = k.to]
          /\ calls' = (calls \ {k}) \cup {Vault!Load(k.id, "panel")}
          /\ UNCHANGED <<rows, replaced>>
      BY <1>4 DEF Vault!ActAnswered, Vault!Becomes, Vault!vaultRows
    <2>2. \A j \in calls' : j.op = "act" => j \in calls /\ j # k
      BY <2>1, OpsOf
    <2>3. CASE p = k.on
      <3>1. k.to = rows[p] /\ \A j \in calls : (j.op = "act" /\ j.on = p) => j = k
        BY <1>2, <2>1, <2>3 DEF ActFits
      <3>2. proposals'[p] = rows'[p]
        BY <1>1, <2>1, <2>3, <3>1
      <3>3. \A j \in calls' : ~(j.op = "act" /\ j.on = p)
        BY <2>2, <3>1
      <3> QED
        BY <1>2, <2>1, <3>2, <3>3 DEF ActFits
    <2>4. CASE p # k.on
      <3>1. proposals'[p] = proposals[p]
        BY <1>1, <2>1, <2>4
      <3>2. \A j \in calls : (j.op = "act" /\ j.on = p) => j \in calls'
        BY <2>1, <2>4
      <3> QED
        BY <1>2, <2>1, <2>2, <3>1, <3>2 DEF ActFits
    <2> QED
      BY <2>3, <2>4
  <1>5. CASE Vault!LoseRequest(k)
    <2>1. /\ calls' = calls \ {k} /\ UNCHANGED <<rows, replaced>>
          /\ proposals' = [q \in Proposals |-> IF q = k.on THEN "error" ELSE proposals[q]]
          /\ slipped' = slipped \cup ({k.on} \ {"panel"})
      BY <1>5 DEF Vault!LoseRequest, Vault!Ends, Vault!vaultRows
    <2>2. k.on # "panel"
      BY <1>1, DeskAssumption DEF Vault!VaultAssumption
    <2>3. p # k.on
      BY <2>1, <2>2
    <2>4. proposals'[p] = proposals[p]
      BY <2>1, <2>3
    <2>5. \A j \in calls : (j.op = "act" /\ j.on = p) => j \in calls'
      BY <2>1, <2>3
    <2> QED
      BY <1>2, <2>1, <2>4, <2>5 DEF ActFits
  <1> QED
    BY <1>3, <1>4, <1>5

LEMMA ActsStep ==
    ASSUME VaultTyped, ActsFit, Vault!VaultNext
    PROVE  ActsFit'
  <1> SUFFICES ASSUME NEW p \in Proposals \ slipped' PROVE ActFits(p)'
    BY DEF ActsFit
  <1>1. ActFits(p)
    BY SlippedGrows DEF ActsFit
  <1>2. CASE \E q \in Proposals, to \in Vault!Statuses \ {"proposed"} : Vault!ActOn(q, to)
    BY <1>2, ActsOfClick
  <1>3. CASE \E k \in calls : k.op = "act" /\
                (Vault!TakeAct(k) \/ Vault!ActAnswered(k) \/ Vault!LoseRequest(k))
    BY <1>3, ActsOfAnswers
  <1>4. CASE \E k \in calls : Vault!LoadAnswered(k)
    BY <1>4, ActsOfLoad
  <1>5. CASE Same("act") /\ \E k \in calls : Vault!LoseRequest(k)
    <2>1. PICK k \in calls : Vault!LoseRequest(k)
      BY <1>5
    <2>2. /\ UNCHANGED <<rows, replaced>>
          /\ proposals' = [q \in Proposals |-> IF q = k.on THEN "error" ELSE proposals[q]]
          /\ slipped' = slipped \cup ({k.on} \ {"panel"})
      BY <2>1 DEF Vault!LoseRequest, Vault!vaultRows
    <2>3. p # k.on
      BY <2>2, DeskAssumption DEF Vault!VaultAssumption
    <2>4. proposals'[p] = proposals[p]
      BY <2>2, <2>3
    <2> QED
      BY <1>1, <1>5, <2>2, <2>4, ActsAside
  <1>6. \/ UNCHANGED <<rows, replaced, proposals>>
        \/ \E q \in Proposals, to \in Vault!Statuses \ {"proposed"} : Vault!ActOn(q, to)
        \/ \E k \in calls : Vault!LoadAnswered(k) \/ Vault!LoseRequest(k)
        \/ \E k \in calls : k.op = "act" /\ (Vault!TakeAct(k) \/ Vault!ActAnswered(k))
    BY DEF Vault!VaultNext, Vault!VaultProgress, Vault!Reload, Vault!StartBatch, Vault!InitFolder,
         Vault!ToggleExclusion, Vault!ActOn, Vault!Decide, Vault!ReadList,
         Vault!MetadataAnswered, Vault!LoseLoad, Vault!TakeExclusion, Vault!ExclusionAnswered,
         Vault!TakeAct, Vault!ActAnswered, Vault!TakeDecision, Vault!DecisionAnswered,
         Vault!BatchAnswered, Vault!FolderAnswered, Vault!vaultRows
  <1>7. CASE Same("act") /\ UNCHANGED <<rows, replaced, proposals>>
    BY <1>1, <1>7, ActsAside
  <1> QED
    BY <1>2, <1>3, <1>4, <1>5, <1>6, <1>7, VaultSame

\* A list that could not be read is known to be unknown.
Missed == \A k \in calls : \A l \in k.got.missed : Vault!OfList(l) \subseteq slipped

LEMMA MissedKept ==
    ASSUME Missed, slipped \subseteq slipped',
           \A j \in calls' : j \in calls \/ j.got.missed = {} \/ \E k \in calls : j.got.missed = k.got.missed
    PROVE  Missed'
  <1> SUFFICES ASSUME NEW j \in calls', NEW l \in j.got.missed PROVE Vault!OfList(l) \subseteq slipped'
    BY DEF Missed, Vault!OfList
  <1> QED
    BY DEF Missed

LEMMA NoneMissed ==
    ASSUME VaultTyped
    PROVE  /\ \A id, op, on, to : Vault!Request(id, op, on, to).got.missed = {}
           /\ \A id, on : Vault!Load(id, on).got.missed = {}
  <1>1. RowsTyped
    BY DEF VaultTyped, Vault!VaultTypeOK, RowsTyped
  <1>2. Blank.missed = {}
    BY <1>1, BlankView
  <1>3. \A id, op, on, to : Vault!Request(id, op, on, to).got = Blank
    BY DEF Vault!Request, Blank
  <1>4. \A id, on : Vault!Load(id, on).got = Blank
    BY <1>3 DEF Vault!Load
  <1> QED
    BY <1>2, <1>3, <1>4

LEMMA MissedInit ==
    ASSUME Vault!VaultInit
    PROVE  Missed
  <1>1. calls = {Vault!Load(0, "panel")}
    BY DEF Vault!VaultInit
  <1>2. Vault!Load(0, "panel").got.missed = {}
    BY VaultTypeInit, NoneMissed
  <1> QED
    BY <1>1, <1>2 DEF Missed

LEMMA MissedOfRead ==
    ASSUME VaultTyped, Missed, NEW k \in calls, NEW l \in Vault!Lists, Vault!ReadList(k, l)
    PROVE  Missed'
  <1>1. k \in Vault!Requests /\ k.got \in Vault!Views
    BY DEF VaultTyped, FitRequest, Vault!Requests
  <1>2. [k EXCEPT !.got[l] = Vault!View({}, {})[l], !.got.read = k.got.read \cup {l}].got.missed = k.got.missed
    <2>1. l # "missed"
      BY DEF Vault!Lists
    <2> QED
      BY <1>1, <2>1 DEF Vault!Requests, Vault!Views
  <1>3. [k EXCEPT !.got.missed = k.got.missed \cup {l}].got.missed = k.got.missed \cup {l}
    BY <1>1 DEF Vault!Requests, Vault!Views
  <1>4. slipped \subseteq slipped'
    BY DEF Vault!ReadList
  <1>5. CASE Vault!Becomes(k, [k EXCEPT !.got[l] = Vault!View({}, {})[l], !.got.read = k.got.read \cup {l}])
    <2>1. \A j \in calls' : j \in calls \/ j.got.missed = k.got.missed
      BY <1>2, <1>5 DEF Vault!Becomes
    <2> QED
      BY <1>4, <2>1, MissedKept
  <1>6. CASE /\ Vault!Becomes(k, [k EXCEPT !.got.missed = k.got.missed \cup {l}])
             /\ slipped' = slipped \cup Vault!OfList(l)
    <2> SUFFICES ASSUME NEW j \in calls', NEW m \in j.got.missed PROVE Vault!OfList(m) \subseteq slipped'
      BY DEF Missed, Vault!OfList
    <2>1. j \in calls \/ j.got.missed = k.got.missed \cup {l}
      BY <1>3, <1>6 DEF Vault!Becomes
    <2> QED
      BY <1>6, <2>1 DEF Missed
  <1> QED
    BY <1>5, <1>6 DEF Vault!ReadList

LEMMA MissedStep ==
    ASSUME VaultTyped, Missed, Vault!VaultNext
    PROVE  Missed'
  <1>1. slipped \subseteq slipped'
    BY SlippedGrows
  <1>2. \A k \in calls : k \in Vault!Requests /\ k.got \in Vault!Views
    BY DEF VaultTyped, FitRequest, Vault!Requests
  <1>3. /\ \A id, op, on, to : Vault!Request(id, op, on, to).got.missed = {}
        /\ \A id, on : Vault!Load(id, on).got.missed = {}
    BY NoneMissed
  <1>4. ASSUME NEW request, Vault!Ask({request}), request.got.missed = {} PROVE Missed'
    <2>1. \A j \in calls' : j \in calls \/ j.got.missed = {}
      BY <1>4 DEF Vault!Ask
    <2> QED
      BY <1>1, <2>1, MissedKept
  <1>5. ASSUME NEW k \in calls, NEW later, Vault!Becomes(k, later),
               later.got.missed = {} \/ later.got.missed = k.got.missed
        PROVE  Missed'
    <2>1. \A j \in calls' : j \in calls \/ j.got.missed = {} \/ j.got.missed = k.got.missed
      BY <1>5 DEF Vault!Becomes
    <2> QED
      BY <1>1, <2>1, MissedKept
  <1>6. ASSUME NEW k, Vault!Ends(k) PROVE Missed'
    <2>1. \A j \in calls' : j \in calls
      BY <1>6 DEF Vault!Ends
    <2> QED
      BY <1>1, <2>1, MissedKept
  <1>7. CASE Vault!Reload
    BY <1>3, <1>4, <1>7 DEF Vault!Reload
  <1>8. CASE Vault!StartBatch
    BY <1>3, <1>4, <1>8 DEF Vault!StartBatch
  <1>9. CASE Vault!InitFolder
    BY <1>3, <1>4, <1>9 DEF Vault!InitFolder
  <1>10. ASSUME NEW p \in Paths, Vault!ToggleExclusion(p) PROVE Missed'
    BY <1>3, <1>4, <1>10 DEF Vault!ToggleExclusion
  <1>11. ASSUME NEW p, NEW to, Vault!ActOn(p, to) PROVE Missed'
    BY <1>3, <1>4, <1>11 DEF Vault!ActOn
  <1>12. ASSUME NEW r, NEW to, Vault!Decide(r, to) PROVE Missed'
    BY <1>3, <1>4, <1>12 DEF Vault!Decide
  <1>13. ASSUME NEW k \in calls, \/ Vault!LoadAnswered(k) \/ Vault!MetadataAnswered(k)
                                 \/ Vault!LoseLoad(k) \/ Vault!ExclusionAnswered(k)
                                 \/ Vault!LoseRequest(k)
         PROVE  Missed'
    <2>1. Vault!Ends(k)
      BY <1>13 DEF Vault!LoadAnswered, Vault!MetadataAnswered, Vault!LoseLoad,
                   Vault!ExclusionAnswered, Vault!LoseRequest
    <2> QED
      BY <1>6, <2>1
  <1>14. ASSUME NEW k \in calls, Vault!TakeExclusion(k) \/ Vault!TakeAct(k) PROVE Missed'
    <2>1. Vault!Becomes(k, [k EXCEPT !.step = "back"]) \/ Vault!Ends(k)
      BY <1>14 DEF Vault!TakeExclusion, Vault!TakeAct
    <2>2. [k EXCEPT !.step = "back"].got = k.got
      BY <1>2, OpsOf
    <2> QED
      BY <1>5, <1>6, <2>1, <2>2
  <1>15. ASSUME NEW k \in calls, Vault!TakeDecision(k) PROVE Missed'
    <2>1. Vault!Becomes(k, [k EXCEPT !.step = "back", !.got.relations = feedback'])
      BY <1>15 DEF Vault!TakeDecision
    <2>2. [k EXCEPT !.step = "back", !.got.relations = feedback'].got.missed = k.got.missed
      BY <1>2 DEF Vault!Requests, Vault!Views
    <2> QED
      BY <1>5, <2>1, <2>2
  <1>16. ASSUME NEW k \in calls, \/ Vault!ActAnswered(k) \/ Vault!DecisionAnswered(k)
                                 \/ Vault!BatchAnswered(k) \/ Vault!FolderAnswered(k)
         PROVE  Missed'
    BY <1>3, <1>5, <1>16 DEF Vault!ActAnswered, Vault!DecisionAnswered, Vault!BatchAnswered,
                             Vault!FolderAnswered
  <1>17. ASSUME NEW k \in calls, NEW l \in Vault!Lists, Vault!ReadList(k, l) PROVE Missed'
    BY <1>17, MissedOfRead
  <1> QED
    BY <1>7, <1>8, <1>9, <1>10, <1>11, <1>12, <1>13, <1>14, <1>15, <1>16, <1>17
    DEF Vault!VaultNext, Vault!VaultProgress

-----------------------------------------------------------------------------
(***************************************************************************)
(* Before the first load has ended nothing can be edited.  After it a path *)
(* with one request to come is shown as that one says, and one with none   *)
(* as in the policy.                                                       *)
(***************************************************************************)
Unread == body # "loaded" /\ badge # "idle" /\ \A k \in calls : k.op = "load"
ExcludeOut(p) == {k \in calls : k.op = "exclude" /\ k.step = "out" /\ k.on = p}
PathFits(p) ==
    /\ ExcludeOut(p) = {} => (p \in excluded <=> p \in policy)
    /\ \A k \in ExcludeOut(p) : ExcludeOut(p) = {k} => (p \in excluded <=> k.to = "excluded")
PathsFit == Unread \/ \A p \in Paths \ slipped : PathFits(p)

LEMMA PathsAside ==
    ASSUME NEW p, PathFits(p), ExcludeOut(p)' = ExcludeOut(p),
           p \in excluded' <=> p \in excluded, p \in policy' <=> p \in policy
    PROVE  PathFits(p)'
  BY DEF PathFits

LEMMA SameExcludes ==
    ASSUME Same("exclude"), NEW p
    PROVE  ExcludeOut(p)' = ExcludeOut(p)
  BY DEF Same, ExcludeOut

LEMMA PathsOfLoad ==
    ASSUME Missed, NEW k \in calls, Vault!LoadAnswered(k), NEW p \in Paths \ slipped'
    PROVE  PathFits(p)'
  <1>1. /\ UNCHANGED policy /\ calls' \subseteq calls /\ p \notin slipped
        /\ p \notin Vault!Passed(k) /\ k.op = "load" /\ Vault!Wanted(k) = {}
        /\ excluded' = IF "exclusions" \in k.got.read THEN k.got.exclusions ELSE excluded
    BY DEF Vault!LoadAnswered, Vault!vaultRows, Vault!Ends
  <1>2. "exclusions" \in k.got.read
    <2>1. "exclusions" \in k.got.read \cup k.got.missed
      BY <1>1 DEF Vault!Wanted, Vault!Lists
    <2>2. Vault!OfList("exclusions") = Paths
      BY DEF Vault!OfList
    <2>3. "exclusions" \notin k.got.missed
      BY <1>1, <2>2 DEF Missed
    <2> QED
      BY <2>1, <2>3
  <1>3. (p \in k.got.exclusions <=> p \in policy) /\ \A j \in calls : ~(j.op = "exclude" /\ j.on = p)
    BY <1>1, <1>2 DEF Vault!Passed
  <1>4. (p \in excluded' <=> p \in policy') /\ ExcludeOut(p)' = {}
    BY <1>1, <1>2, <1>3 DEF ExcludeOut
  <1> QED
    BY <1>4 DEF PathFits

LEMMA PathsOfToggle ==
    ASSUME VaultTyped, NEW q \in Paths, Vault!ToggleExclusion(q), NEW p \in Paths, PathFits(p)
    PROVE  PathFits(p)'
  <1> DEFINE to == IF q \in excluded THEN "admitted" ELSE "excluded"
             edit == Vault!Request(acts + 1, "exclude", q, to)
  <1>1. /\ excluded' = IF q \in excluded THEN excluded \ {q} ELSE excluded \cup {q}
        /\ calls' = calls \cup {edit} /\ UNCHANGED policy
    BY DEF Vault!ToggleExclusion, Vault!Ask, Vault!vaultRows
  <1>2. edit.op = "exclude" /\ edit.step = "out" /\ edit.on = q /\ edit.to = to
    BY OpsOf
  <1>3. q \in excluded' <=> to = "excluded"
    BY <1>1
  <1> HIDE DEF edit, to
  <1>4. CASE p # q
    <2>1. ExcludeOut(p)' = ExcludeOut(p)
      BY <1>1, <1>2, <1>4 DEF ExcludeOut
    <2> QED
      BY <1>1, <1>4, <2>1, PathsAside
  <1>5. CASE p = q
    <2>1. edit \in ExcludeOut(p)'
      BY <1>1, <1>2, <1>5 DEF ExcludeOut
    <2> QED
      BY <1>2, <1>3, <1>5, <2>1 DEF PathFits
  <1> QED
    BY <1>4, <1>5

LEMMA PathsOfTaken ==
    ASSUME VaultTyped, NEW k \in calls, Vault!TakeExclusion(k), NEW p \in Paths \ slipped', PathFits(p)
    PROVE  PathFits(p)'
  <1> DEFINE back == [k EXCEPT !.step = "back"]
  <1>1. /\ k.op = "exclude" /\ k.step = "out" /\ UNCHANGED excluded
        /\ policy' = IF k.to = "admitted" THEN policy \ Vault!Holding(k.on)
                     ELSE IF Vault!Holding(k.on) = {} THEN policy \cup {k.on} ELSE policy
        /\ slipped' = slipped \cup (Vault!Holding(k.on) \ {k.on})
                    \cup {q \in {k.on} : Vault!Holding(q) \ {q} # {} \/ \E j \in calls \ {k} : j.on = q}
        /\ calls' = (calls \ {k}) \cup {back}
    BY DEF Vault!TakeExclusion, Vault!Becomes
  <1>2. k \in Vault!Requests /\ k.on \in Paths /\ k.to \in {"excluded", "admitted"}
    BY <1>1 DEF VaultTyped, FitRequest
  <1>3. back.step = "back"
    BY <1>2, OpsOf
  <1> HIDE DEF back
  <1>4. p \notin Vault!Holding(k.on) \ {k.on}
    BY <1>1
  <1>5. CASE p # k.on
    <2>1. ExcludeOut(p)' = ExcludeOut(p)
      BY <1>1, <1>3, <1>5 DEF ExcludeOut
    <2>2. p \in policy' <=> p \in policy
      BY <1>1, <1>4, <1>5
    <2> QED
      BY <1>1, <2>1, <2>2, PathsAside
  <1>6. CASE p = k.on
    <2>1. Vault!Holding(p) \subseteq {p} /\ \A j \in calls \ {k} : j.on # p
      BY <1>1, <1>6
    <2>2. ExcludeOut(p) = {k} /\ ExcludeOut(p)' = {}
      BY <1>1, <1>3, <1>6, <2>1 DEF ExcludeOut
    <2>3. p \in excluded <=> k.to = "excluded"
      BY <2>2 DEF PathFits
    <2>4. <<p, p>> \in Within
      BY DeskAssumption DEF Vault!VaultAssumption
    <2>5. p \in policy' <=> k.to = "excluded"
      BY <1>1, <1>2, <1>6, <2>1, <2>4 DEF Vault!Holding
    <2> QED
      BY <1>1, <2>2, <2>3, <2>5 DEF PathFits
  <1> QED
    BY <1>5, <1>6

LEMMA PathsStep ==
    ASSUME VaultTyped, Missed, PathsFit, Vault!VaultNext
    PROVE  PathsFit'
  <1>1. CASE \E k \in calls : Vault!LoadAnswered(k)
    BY <1>1, PathsOfLoad DEF PathsFit
  <1>2. CASE Unread /\ ~\E k \in calls : Vault!LoadAnswered(k)
    <2>1. \/ Vault!Reload
          \/ \E k \in calls : Vault!LoseLoad(k)
          \/ \E k \in calls : \E l \in Vault!Lists : Vault!ReadList(k, l)
      BY <1>2 DEF Unread, Vault!VaultNext, Vault!VaultProgress, Vault!StartBatch, Vault!InitFolder,
         Vault!ToggleExclusion, Vault!ActOn, Vault!Decide,
         Vault!MetadataAnswered, Vault!TakeExclusion, Vault!ExclusionAnswered,
         Vault!TakeAct, Vault!ActAnswered, Vault!TakeDecision, Vault!DecisionAnswered,
         Vault!BatchAnswered, Vault!FolderAnswered, Vault!LoseRequest
    <2>2. CASE Vault!Reload
      <3>1. body' = "loading" /\ badge' = "loading" /\ calls' = calls \cup {Vault!Load(acts + 1, "panel")}
        BY <2>2 DEF Vault!Reload, Vault!Ask
      <3>2. Vault!Load(acts + 1, "panel").op = "load"
        BY OpsOf
      <3> QED
        BY <1>2, <3>1, <3>2 DEF Unread, PathsFit
    <2>3. ASSUME NEW k \in calls, Vault!LoseLoad(k) PROVE PathsFit'
      BY <1>2, <2>3 DEF Unread, PathsFit, Vault!LoseLoad, Vault!Ends
    <2>4. ASSUME NEW k \in calls, NEW l \in Vault!Lists, Vault!ReadList(k, l) PROVE PathsFit'
      <3>1. /\ UNCHANGED <<body, badge>>
            /\ \/ Vault!Becomes(k, [k EXCEPT !.got[l] = Vault!View({}, {})[l], !.got.read = k.got.read \cup {l}])
               \/ Vault!Becomes(k, [k EXCEPT !.got.missed = k.got.missed \cup {l}])
        BY <2>4 DEF Vault!ReadList
      <3>2. k \in Vault!Requests
        BY DEF VaultTyped, FitRequest
      <3>3. /\ [k EXCEPT !.got[l] = Vault!View({}, {})[l], !.got.read = k.got.read \cup {l}].op = k.op
            /\ [k EXCEPT !.got.missed = k.got.missed \cup {l}].op = k.op
        BY <3>2, OpsOf
      <3>4. \A j \in calls' : j.op = "load"
        BY <1>2, <3>1, <3>3 DEF Unread, Vault!Becomes
      <3> QED
        BY <1>2, <3>1, <3>4 DEF Unread, PathsFit
    <2> QED
      BY <2>1, <2>2, <2>3, <2>4
  <1>3. CASE ~Unread /\ ~\E k \in calls : Vault!LoadAnswered(k)
    <2> SUFFICES ASSUME NEW p \in Paths \ slipped' PROVE PathFits(p)'
      BY DEF PathsFit
    <2>1. PathFits(p)
      BY <1>3, SlippedGrows DEF PathsFit
    <2>2. CASE \E q \in Paths : Vault!ToggleExclusion(q)
      BY <2>1, <2>2, PathsOfToggle
    <2>3. CASE \E k \in calls : Vault!TakeExclusion(k)
      BY <2>1, <2>3, PathsOfTaken
    <2>4. ASSUME NEW k \in calls, k.op = "exclude", Vault!ExclusionAnswered(k) PROVE PathFits(p)'
      <3>1. k.step = "back" /\ calls' = calls \ {k} /\ UNCHANGED <<excluded, policy>>
        BY <2>4 DEF Vault!ExclusionAnswered, Vault!Ends, Vault!vaultRows
      <3>2. ExcludeOut(p)' = ExcludeOut(p)
        BY <3>1 DEF ExcludeOut
      <3> QED
        BY <2>1, <3>1, <3>2, PathsAside
    <2>5. ASSUME NEW k \in calls, k.op = "exclude", Vault!LoseRequest(k) PROVE PathFits(p)'
      <3>1. /\ calls' = calls \ {k} /\ UNCHANGED <<excluded, policy>>
            /\ slipped' = slipped \cup ({k.on} \ {"panel"})
        BY <2>5 DEF Vault!LoseRequest, Vault!Ends, Vault!vaultRows
      <3>2. p # k.on
        BY <3>1, DeskAssumption DEF Vault!VaultAssumption
      <3>3. ExcludeOut(p)' = ExcludeOut(p)
        BY <3>1, <3>2 DEF ExcludeOut
      <3> QED
        BY <2>1, <3>1, <3>3, PathsAside
    <2>6. \/ UNCHANGED <<excluded, policy>>
          \/ \E q \in Paths : Vault!ToggleExclusion(q)
          \/ \E k \in calls : Vault!TakeExclusion(k)
      BY <1>3 DEF Vault!VaultNext, Vault!VaultProgress, Vault!Reload, Vault!StartBatch, Vault!InitFolder,
         Vault!ActOn, Vault!Decide, Vault!ReadList,
         Vault!MetadataAnswered, Vault!LoseLoad, Vault!ExclusionAnswered,
         Vault!TakeAct, Vault!ActAnswered, Vault!TakeDecision, Vault!DecisionAnswered,
         Vault!BatchAnswered, Vault!FolderAnswered, Vault!LoseRequest, Vault!vaultRows
    <2>7. CASE Same("exclude") /\ UNCHANGED <<excluded, policy>>
      BY <2>1, <2>7, PathsAside, SameExcludes
    <2> QED
      BY <2>2, <2>3, <2>4, <2>5, <2>6, <2>7, VaultSame
  <1> QED
    BY <1>1, <1>2, <1>3

-----------------------------------------------------------------------------
(***************************************************************************)
(* While the badge says the panel is well a relation shows the backend's   *)
(* decision, or the answer that will show it is on its way.                *)
(***************************************************************************)
RelationFits(r) ==
    badge = "idle" => \/ relations[r] = feedback[r]
                      \/ \E k \in calls : k.op = "decide" /\ k.step = "back" /\ k.on = r
RelationsFit == \A r \in Relations \ slipped : RelationFits(r)

LEMMA RelationsStep ==
    ASSUME VaultTyped, RelationsFit, Vault!VaultNext
    PROVE  RelationsFit'
  <1> SUFFICES ASSUME NEW r \in Relations \ slipped', badge' = "idle"
               PROVE  RelationFits(r)'
    BY DEF RelationsFit, RelationFits
  <1>1. RelationFits(r)
    BY SlippedGrows DEF RelationsFit
  <1>2. ASSUME NEW k \in calls, Vault!LoadAnswered(k) \/ Vault!MetadataAnswered(k)
        PROVE  RelationFits(r)'
    <2>1. /\ k.op \in {"load", "metadata"} /\ Vault!Wanted(k) = {} /\ k.got.missed = {}
          /\ relations' = IF "relations" \in k.got.read THEN k.got.relations ELSE relations
          /\ UNCHANGED feedback /\ r \notin Vault!Passed(k)
      BY <1>2 DEF Vault!LoadAnswered, Vault!MetadataAnswered, Vault!vaultRows
    <2>2. "relations" \in k.got.read
      BY <2>1 DEF Vault!Wanted, Vault!Lists
    <2>3. k.got.relations[r] = feedback[r]
      BY <2>1, <2>2 DEF Vault!Passed
    <2> QED
      BY <2>1, <2>2, <2>3 DEF RelationFits
  <1>3. ASSUME NEW k \in calls, Vault!TakeDecision(k) PROVE RelationFits(r)'
    <2> DEFINE back == [k EXCEPT !.step = "back", !.got.relations = feedback']
    <2>1. /\ calls' = (calls \ {k}) \cup {back} /\ UNCHANGED <<relations, badge>> /\ k.step = "out"
          /\ feedback' = [feedback EXCEPT ![k.on] = k.to] /\ k.op = "decide"
      BY <1>3 DEF Vault!TakeDecision, Vault!Becomes
    <2>2. k \in Vault!Requests /\ feedback \in [Relations -> Vault!Decisions]
      BY DEF VaultTyped, FitRequest, Vault!VaultTypeOK
    <2>3. back.op = k.op /\ back.step = "back" /\ back.on = k.on
      BY <2>2, OpsOf
    <2> HIDE DEF back
    <2>4. CASE r = k.on
      BY <2>1, <2>3, <2>4 DEF RelationFits
    <2>5. CASE r # k.on
      <3>1. feedback'[r] = feedback[r]
        BY <2>1, <2>2, <2>5
      <3>2. \A j \in calls : j.step = "back" => j \in calls'
        BY <2>1
      <3> QED
        BY <1>1, <2>1, <3>1, <3>2 DEF RelationFits
    <2> QED
      BY <2>4, <2>5
  <1>4. \/ UNCHANGED <<badge, relations, feedback>>
        \/ \E k \in calls : Vault!LoadAnswered(k) \/ Vault!MetadataAnswered(k)
        \/ \E k \in calls : Vault!TakeDecision(k)
    BY DEF Vault!VaultNext, Vault!VaultProgress, Vault!Reload, Vault!StartBatch, Vault!InitFolder,
         Vault!ToggleExclusion, Vault!ActOn, Vault!Decide, Vault!ReadList,
         Vault!LoseLoad, Vault!TakeExclusion, Vault!ExclusionAnswered,
         Vault!TakeAct, Vault!ActAnswered, Vault!DecisionAnswered,
         Vault!BatchAnswered, Vault!FolderAnswered, Vault!LoseRequest, Vault!vaultRows
  <1>5. CASE Same("decide") /\ UNCHANGED <<badge, relations, feedback>>
    BY <1>1, <1>5 DEF RelationFits, Same
  <1>6. ASSUME NEW q, NEW to, Vault!Decide(q, to) PROVE RelationFits(r)'
    <2>1. calls \subseteq calls' /\ UNCHANGED <<badge, relations, feedback>>
      BY <1>6 DEF Vault!Decide, Vault!Ask, Vault!vaultRows
    <2> QED
      BY <1>1, <2>1 DEF RelationFits
  <1>7. \A k : ~Vault!DecisionAnswered(k) /\ ~Vault!LoseRequest(k)
    BY DEF Vault!DecisionAnswered, Vault!LoseRequest
  <1> QED
    BY <1>2, <1>3, <1>4, <1>5, <1>6, <1>7, VaultSame

-----------------------------------------------------------------------------
VaultInv == VaultTyped /\ ActsFit /\ Missed /\ PathsFit /\ RelationsFit

LEMMA VaultInvInit ==
    ASSUME Vault!VaultInit
    PROVE  VaultInv
  <1>1. Unread
    <2>1. calls = {Vault!Load(0, "panel")} /\ Vault!Load(0, "panel").op = "load"
      BY OpsOf DEF Vault!VaultInit
    <2> QED
      BY <2>1 DEF Vault!VaultInit, Unread
  <1>2. RelationsFit
    BY DEF RelationsFit, RelationFits, Vault!VaultInit
  <1> QED
    BY <1>1, <1>2, VaultTypeInit, ActsInit, MissedInit DEF VaultInv, PathsFit

LEMMA VaultInvStep ==
    ASSUME VaultInv, Vault!VaultNext
    PROVE  VaultInv'
  BY VaultTypeStep, ActsStep, MissedStep, PathsStep, RelationsStep DEF VaultInv

LEMMA VaultHolds ==
    ASSUME VaultInv
    PROVE  Vault!VaultTypeOK /\ Vault!VaultAgrees /\ Vault!RejectedIsUntouched
  <1>1. Vault!VaultAgrees
    <2> SUFFICES ASSUME calls = {}, badge = "idle"
                 PROVE  /\ \A p \in Paths \ slipped : p \in excluded <=> p \in policy
                        /\ \A p \in Proposals \ slipped : proposals[p] \in {rows[p], "error"}
                        /\ \A r \in Relations \ slipped : relations[r] = feedback[r]
      BY DEF Vault!VaultAgrees
    <2>1. \A p \in Paths \ slipped : ExcludeOut(p) = {} /\ PathFits(p)
      BY DEF VaultInv, PathsFit, Unread, ExcludeOut
    <2>2. \A p \in Proposals \ slipped : proposals[p] = rows[p]
      BY DEF VaultInv, ActsFit, ActFits
    <2> QED
      BY <2>1, <2>2 DEF VaultInv, PathFits, RelationsFit, RelationFits
  <1>2. Vault!RejectedIsUntouched
    BY DEF Vault!RejectedIsUntouched, VaultInv, ActsFit, ActFits
  <1> QED
    BY <1>1, <1>2 DEF VaultInv, VaultTyped

-----------------------------------------------------------------------------
(***************************************************************************)
(* The uploads.                                                            *)
(***************************************************************************)

\* What is not a list is asked of one upload: its row is there to be read.
WorkIsOnOne == \A k \in calls : k.op \in {"convert", "promote", "delete"} => k.on \in Uploads

-----------------------------------------------------------------------------
(* Types. *)

LEMMA UploadsTypeInit ==
    ASSUME Shelf!UploadsInit
    PROVE  Shelf!UploadsTypeOK
  <1>1. Shelf!None \in Shelf!Rows
    BY DEF Shelf!None, Shelf!Rows, Shelf!Statuses
  <1>2. Shelf!Request(0, "list", Shelf!All) \in Shelf!Requests
    BY <1>1, RequestsAssumption DEF Shelf!Request, Shelf!Requests
  <1>3. Shelf!RequestsOK(Shelf!Requests)
    BY <1>2, RequestsAssumption DEF Shelf!UploadsInit, Shelf!RequestsOK
  <1> QED
    BY <1>1, <1>3 DEF Shelf!UploadsInit, Shelf!UploadsTypeOK

LEMMA RequestsAreTyped ==
    ASSUME Shelf!UploadsTypeOK, Shelf!Act
    PROVE  /\ acts' \in 0 .. MaxActs
           /\ \A op \in {"list", "convert", "promote", "delete", "clear"}, on \in Uploads \cup {Shelf!All} :
                 Shelf!Request(acts + 1, op, on) \in Shelf!Requests
  <1>1. Shelf!None \in Shelf!Rows
    BY DEF Shelf!None, Shelf!Rows, Shelf!Statuses
  <1>2. acts + 1 \in 0 .. MaxActs
    BY RequestsAssumption DEF Shelf!UploadsTypeOK, Shelf!RequestsOK, Shelf!Act
  <1> QED
    BY <1>1, <1>2 DEF Shelf!Act, Shelf!Request, Shelf!Requests

LEMMA UploadsTypeOfClicks ==
    ASSUME Shelf!UploadsTypeOK,
           Shelf!Refresh \/ Shelf!Clear \/ \E u \in Uploads, op \in {"convert", "promote", "delete"} : Shelf!ActOnUpload(u, op)
    PROVE  Shelf!UploadsTypeOK'
  <1> USE DEF Shelf!UploadsTypeOK, Shelf!RequestsOK
  <1>1. Shelf!Act => /\ acts' \in 0 .. MaxActs
               /\ \A op \in {"list", "convert", "promote", "delete", "clear"}, on \in Uploads \cup {Shelf!All} :
                     Shelf!Request(acts + 1, op, on) \in Shelf!Requests
    BY RequestsAreTyped
  <1>2. CASE Shelf!Refresh
    BY <1>1, <1>2 DEF Shelf!Refresh, Shelf!Ask
  <1>3. CASE Shelf!Clear
    BY <1>1, <1>3 DEF Shelf!Clear, Shelf!Ask
  <1>4. ASSUME NEW u \in Uploads, NEW op \in {"convert", "promote", "delete"}, Shelf!ActOnUpload(u, op)
        PROVE  Shelf!UploadsTypeOK'
    BY <1>1, <1>4 DEF Shelf!ActOnUpload, Shelf!Ask
  <1> QED
    BY <1>2, <1>3, <1>4

LEMMA UploadsTypeOfProgress ==
    ASSUME Shelf!UploadsTypeOK, WorkIsOnOne, Shelf!UploadsProgress
    PROVE  Shelf!UploadsTypeOK'
  <1> USE DEF Shelf!UploadsTypeOK, Shelf!RequestsOK
  <1>1. Shelf!None \in Shelf!Rows /\ "gone" \in Shelf!Statuses
    BY DEF Shelf!None, Shelf!Rows, Shelf!Statuses
  <1>2. PICK k \in calls :
           \/ Shelf!TakeList(k) \/ Shelf!ListAnswered(k) \/ Shelf!ReadPreviews(k) \/ Shelf!ShowPreviews(k)
           \/ Shelf!Refused(k) \/ Shelf!StartWork(k) \/ Shelf!EndWork(k) \/ Shelf!TakeDelete(k)
           \/ Shelf!ConvertAnswered(k) \/ Shelf!PromoteAnswered(k) \/ Shelf!DeleteAnswered(k)
           \/ Shelf!BeginClear(k) \/ (\E u \in Uploads : Shelf!ClearOne(k, u)) \/ Shelf!ClearAnswered(k)
           \/ Shelf!LoseUpload(k)
    BY DEF Shelf!UploadsProgress
  <1>3. k \in Shelf!Requests /\ k.on \in Uploads \cup {Shelf!All} /\ k.got \in Shelf!Rows
    BY DEF Shelf!Requests
  <1>4. ASSUME NEW step \in {"out", "work", "back", "ask", "show"}
        PROVE  [k EXCEPT !.step = step] \in Shelf!Requests
    BY <1>3 DEF Shelf!Requests
  <1>5. ASSUME NEW step \in {"out", "work", "back", "ask", "show"}, NEW given \in Shelf!Rows
        PROVE  [k EXCEPT !.step = step, !.got = given] \in Shelf!Requests
    BY <1>3 DEF Shelf!Requests
  <1>6. Shelf!Here(k.got) \subseteq Uploads /\ Shelf!Here(stored) \subseteq Uploads /\ Shelf!Disputed(k) \subseteq Uploads
    BY DEF Shelf!Here, Shelf!Disputed
  <1>7. k.op \in {"convert", "promote", "delete"} => k.on \in Uploads
    BY DEF WorkIsOnOne
  <1>8. CASE Shelf!TakeList(k) \/ Shelf!ListAnswered(k)
    BY <1>3, <1>4, <1>5, <1>6, <1>8 DEF Shelf!TakeList, Shelf!ListAnswered, Shelf!Becomes
  <1>9. CASE Shelf!ReadPreviews(k)
    <2>1. [u \in Uploads |-> IF stored[u] = "gone" THEN "gone" ELSE k.got[u]] \in Shelf!Rows
      BY <1>1, <1>3 DEF Shelf!Rows
    <2>2. [k EXCEPT !.step = "show", !.got = [u \in Uploads |-> IF stored[u] = "gone" THEN "gone" ELSE @[u]]]
            \in Shelf!Requests
      BY <1>3, <2>1 DEF Shelf!Requests
    <2> QED
      BY <1>9, <2>2 DEF Shelf!ReadPreviews, Shelf!Becomes
  <1>10. CASE Shelf!ShowPreviews(k)
    BY <1>6, <1>10 DEF Shelf!ShowPreviews, Shelf!Ends
  <1>11. CASE Shelf!Refused(k)
    BY <1>7, <1>11 DEF Shelf!Refused, Shelf!Ends
  <1>12. CASE Shelf!StartWork(k)
    BY <1>4, <1>12 DEF Shelf!StartWork, Shelf!Becomes
  <1>13. CASE Shelf!EndWork(k)
    <2> DEFINE now == CASE stored[k.on] = "gone" -> "gone"
                        [] stored[k.on] = "promoted" \/ (stored[k.on] # "gone" /\ k.op = "promote") -> "promoted"
                        [] OTHER -> "converted"
    <2>1. now \in Shelf!Statuses /\ stored' = [stored EXCEPT ![k.on] = now]
      BY <1>13 DEF Shelf!EndWork, Shelf!Statuses
    <2>2. stored' \in Shelf!Rows
      <3> HIDE DEF now
      <3> QED
        BY <2>1 DEF Shelf!Rows
    <2>3. [Shelf!None EXCEPT ![k.on] = stored'[k.on]] \in Shelf!Rows
      BY <1>1, <1>7, <1>13, <2>2 DEF Shelf!EndWork, Shelf!Rows
    <2> QED
      BY <1>5, <1>13, <2>2, <2>3 DEF Shelf!EndWork, Shelf!Becomes
  <1>14. CASE Shelf!TakeDelete(k)
    <2>1. stored' \in Shelf!Rows
      BY <1>1, <1>14 DEF Shelf!TakeDelete, Shelf!Rows
    <2> QED
      BY <1>4, <1>14, <2>1 DEF Shelf!TakeDelete, Shelf!Becomes
  <1>15. k.op \in {"convert", "promote"} => /\ Shelf!Relist(k) => listed' \in Shelf!Rows
                                            /\ Shelf!Met(k) => crossed' \subseteq Uploads
    <2>1. k.op \in {"convert", "promote"} => k.got[k.on] \in Shelf!Statuses
      BY <1>3, <1>7 DEF Shelf!Rows
    <2> QED
      BY <1>7, <2>1 DEF Shelf!Relist, Shelf!Met, Shelf!Rows
  <1>16. CASE Shelf!ConvertAnswered(k)
    BY <1>4, <1>15, <1>16 DEF Shelf!ConvertAnswered, Shelf!Becomes
  <1>17. CASE Shelf!PromoteAnswered(k)
    <2>1. Shelf!Request(k.id, "list", k.on) \in Shelf!Requests
      BY <1>1, <1>3 DEF Shelf!Request, Shelf!Requests
    <2> QED
      BY <1>15, <1>17, <2>1 DEF Shelf!PromoteAnswered, Shelf!Becomes, Shelf!Ends
  <1>18. CASE Shelf!DeleteAnswered(k)
    <2>1. listed' \in Shelf!Rows
      BY <1>1, <1>18 DEF Shelf!DeleteAnswered, Shelf!Rows
    <2> QED
      BY <1>18, <2>1 DEF Shelf!DeleteAnswered, Shelf!Ends
  <1>19. CASE Shelf!BeginClear(k)
    <2>1. [u \in Uploads |-> IF stored[u] = "promoted" THEN "gone" ELSE stored[u]] \in Shelf!Rows
      BY <1>1 DEF Shelf!Rows
    <2> QED
      BY <1>5, <1>19, <2>1 DEF Shelf!BeginClear, Shelf!Becomes
  <1>20. ASSUME NEW u \in Uploads, Shelf!ClearOne(k, u) PROVE Shelf!UploadsTypeOK'
    <2>1. stored' \in Shelf!Rows
      BY <1>1, <1>20 DEF Shelf!ClearOne, Shelf!Rows
    <2>2. [k EXCEPT !.got[u] = "gone"] \in Shelf!Requests
      BY <1>1, <1>3 DEF Shelf!Requests, Shelf!Rows
    <2> QED
      BY <1>20, <2>1, <2>2 DEF Shelf!ClearOne, Shelf!Becomes
  <1>21. CASE Shelf!ClearAnswered(k)
    BY <1>1, <1>6, <1>21 DEF Shelf!ClearAnswered, Shelf!Ends
  <1>22. CASE Shelf!LoseUpload(k)
    <2>1. faults' \in 0 .. MaxFaults
      BY <1>22, RequestsAssumption DEF Shelf!LoseUpload, Shelf!Fault
    <2>2. crossed' \subseteq Uploads
      BY <1>3, <1>22 DEF Shelf!LoseUpload
    <2> QED
      BY <1>22, <2>1, <2>2 DEF Shelf!LoseUpload, Shelf!Ends
  <1> QED
    BY <1>2, <1>8, <1>9, <1>10, <1>11, <1>12, <1>13, <1>14, <1>16, <1>17, <1>18, <1>19, <1>20,
       <1>21, <1>22
-----------------------------------------------------------------------------
(* What a step does to the requests and the busy given. *)

\* A request is sent, of all uploads or of one whose row was not busy.
UploadsAsks(r) ==
    /\ calls' = calls \cup {r}
    /\ r.op \in {"convert", "promote", "delete"} => r.on \in Uploads
    /\ r.on = Shelf!All \/ (r.on \notin busy /\ r.on \in busy')
    /\ busy \subseteq busy'

\* A request goes on; it still asks the same of the same, or has become a list.
UploadsGoesOn(k, later) ==
    /\ calls' = (calls \ {k}) \cup {later}
    /\ later.on = k.on /\ later.op \in {k.op, "list"}
    /\ busy' = busy

\* A request ends, and its row is no longer busy.
UploadsOver(k) == calls' = calls \ {k} /\ busy \ {k.on} \subseteq busy'

LEMMA UploadsStepKinds ==
    ASSUME Shelf!UploadsTypeOK, Shelf!UploadsNext
    PROVE  \/ \E r : UploadsAsks(r)
           \/ \E k \in calls : \E later : UploadsGoesOn(k, later)
           \/ \E k \in calls : UploadsOver(k)
  <1>1. CASE Shelf!Refresh \/ Shelf!Clear
    <2>1. PICK op \in {"list", "clear"} : /\ calls' = calls \cup {Shelf!Request(acts + 1, op, Shelf!All)}
                                          /\ busy' = busy
      BY <1>1 DEF Shelf!Refresh, Shelf!Clear, Shelf!Ask
    <2>2. UploadsAsks(Shelf!Request(acts + 1, op, Shelf!All))
      BY <2>1 DEF UploadsAsks, Shelf!Request
    <2> QED
      BY <2>2
  <1>2. ASSUME NEW u \in Uploads, NEW op \in {"convert", "promote", "delete"}, Shelf!ActOnUpload(u, op)
        PROVE  \E r : UploadsAsks(r)
    <2>1. UploadsAsks(Shelf!Request(acts + 1, op, u))
      BY <1>2 DEF Shelf!ActOnUpload, Shelf!Ask, UploadsAsks, Shelf!Request
    <2> QED
      BY <2>1
  <1>3. ASSUME NEW k \in calls,
               \/ Shelf!ShowPreviews(k) \/ Shelf!Refused(k) \/ Shelf!DeleteAnswered(k) \/ Shelf!ClearAnswered(k) \/ Shelf!LoseUpload(k)
        PROVE  UploadsOver(k)
    BY <1>3 DEF Shelf!ShowPreviews, Shelf!Refused, Shelf!DeleteAnswered, Shelf!ClearAnswered, Shelf!LoseUpload, Shelf!Ends, UploadsOver
  <1>4. ASSUME NEW k \in calls, NEW later, Shelf!Becomes(k, later), busy' = busy,
               later.on = k.on, later.op \in {k.op, "list"}
        PROVE  UploadsGoesOn(k, later)
    BY <1>4 DEF Shelf!Becomes, UploadsGoesOn
  <1>5. ASSUME NEW k \in calls,
               \/ Shelf!TakeList(k) \/ Shelf!ListAnswered(k) \/ Shelf!ReadPreviews(k)
               \/ Shelf!StartWork(k) \/ Shelf!EndWork(k) \/ Shelf!TakeDelete(k)
               \/ Shelf!ConvertAnswered(k) \/ Shelf!BeginClear(k) \/ (\E u \in Uploads : Shelf!ClearOne(k, u))
        PROVE  \E later : UploadsGoesOn(k, later)
    <2>1. k \in Shelf!Requests
      BY DEF Shelf!UploadsTypeOK, Shelf!RequestsOK
    <2>2. \A step, given :
             /\ [k EXCEPT !.step = step].on = k.on /\ [k EXCEPT !.step = step].op = k.op
             /\ [k EXCEPT !.got = given].on = k.on
             /\ [k EXCEPT !.got = given].op = k.op
      BY <2>1 DEF Shelf!Requests
    <2>3. busy' = busy
      BY <1>5 DEF Shelf!TakeList, Shelf!ListAnswered, Shelf!ReadPreviews, Shelf!StartWork, Shelf!EndWork, Shelf!TakeDelete,
                  Shelf!ConvertAnswered, Shelf!BeginClear, Shelf!ClearOne
    <2>4. ASSUME NEW step, Shelf!Becomes(k, [k EXCEPT !.step = step])
          PROVE  \E later : Shelf!Becomes(k, later) /\ later.on = k.on /\ later.op = k.op
      BY <2>2, <2>4
    <2>5. ASSUME NEW step, NEW given, Shelf!Becomes(k, [k EXCEPT !.step = step, !.got = given])
          PROVE  \E later : Shelf!Becomes(k, later) /\ later.on = k.on /\ later.op = k.op
      <3> DEFINE new == [k EXCEPT !.step = step, !.got = given]
      <3>1. Shelf!Becomes(k, new)
        BY <2>5
      <3>2. new.on = k.on /\ new.op = k.op
        BY <2>1 DEF Shelf!Requests
      <3> HIDE DEF new
      <3> QED
        BY <3>1, <3>2
    <2>6. \E later : Shelf!Becomes(k, later) /\ later.on = k.on /\ later.op = k.op
      <3>1. CASE Shelf!TakeList(k)
        BY <2>5, <3>1 DEF Shelf!TakeList
      <3>2. CASE Shelf!ListAnswered(k) \/ Shelf!ConvertAnswered(k)
        BY <2>4, <3>2 DEF Shelf!ListAnswered, Shelf!ConvertAnswered
      <3>3. CASE Shelf!StartWork(k) \/ Shelf!TakeDelete(k)
        BY <2>4, <3>3 DEF Shelf!StartWork, Shelf!TakeDelete
      <3>4. CASE Shelf!ReadPreviews(k)
        <4> DEFINE given == [u \in Uploads |-> IF stored[u] = "gone" THEN "gone" ELSE k.got[u]]
        <4>1. Shelf!Becomes(k, [k EXCEPT !.step = "show", !.got = given])
          BY <3>4 DEF Shelf!ReadPreviews
        <4> QED
          BY <2>5, <4>1
      <3>5. CASE Shelf!EndWork(k)
        <4> DEFINE given == [Shelf!None EXCEPT ![k.on] = stored'[k.on]]
        <4>1. Shelf!Becomes(k, [k EXCEPT !.step = "back", !.got = given])
          BY <3>5 DEF Shelf!EndWork
        <4> QED
          BY <2>5, <4>1
      <3>6. CASE Shelf!BeginClear(k)
        <4> DEFINE given == [u \in Uploads |-> IF stored[u] = "promoted" THEN "gone" ELSE stored[u]]
        <4>1. Shelf!Becomes(k, [k EXCEPT !.step = "work", !.got = given])
          BY <3>6 DEF Shelf!BeginClear
        <4> QED
          BY <2>5, <4>1
      <3>7. ASSUME NEW u \in Uploads, Shelf!ClearOne(k, u)
            PROVE  \E later : Shelf!Becomes(k, later) /\ later.on = k.on /\ later.op = k.op
        <4>1. Shelf!Becomes(k, [k EXCEPT !.got = [k.got EXCEPT ![u] = "gone"]])
          BY <3>7 DEF Shelf!ClearOne
        <4> QED
          BY <2>2, <4>1
      <3> QED
        BY <1>5, <3>1, <3>2, <3>3, <3>4, <3>5, <3>6, <3>7
    <2> QED
      BY <1>4, <2>3, <2>6
  <1>6. ASSUME NEW k \in calls, Shelf!PromoteAnswered(k)
        PROVE  (\E later : UploadsGoesOn(k, later)) \/ UploadsOver(k)
    <2>1. CASE k.got[k.on] = "gone"
      <3>1. UploadsGoesOn(k, Shelf!Request(k.id, "list", k.on))
        BY <1>6, <2>1 DEF Shelf!PromoteAnswered, Shelf!Becomes, UploadsGoesOn, Shelf!Request
      <3> QED
        BY <3>1
    <2>2. CASE k.got[k.on] # "gone"
      BY <1>6, <2>2 DEF Shelf!PromoteAnswered, Shelf!Ends, UploadsOver
    <2> QED
      BY <2>1, <2>2
  <1> QED
    BY <1>1, <1>2, <1>3, <1>5, <1>6 DEF Shelf!UploadsNext, Shelf!UploadsProgress

-----------------------------------------------------------------------------
(* Each request of an upload keeps its row busy, and so the next one out. *)

RowsAreBusy == \A k \in calls : k.on = Shelf!All \/ k.on \in busy
UploadsAlone == WorkIsOnOne /\ RowsAreBusy /\ Shelf!UploadsBusyAlone

LEMMA AloneStep ==
    ASSUME Shelf!UploadsTypeOK, UploadsAlone, [Shelf!UploadsNext]_(Shelf!uploadVars)
    PROVE  UploadsAlone'
  <1> USE DEF UploadsAlone, WorkIsOnOne, RowsAreBusy, Shelf!UploadsBusyAlone
  <1>1. ASSUME NEW r, UploadsAsks(r) PROVE UploadsAlone'
    BY <1>1 DEF UploadsAsks
  <1>2. ASSUME NEW k \in calls, NEW later, UploadsGoesOn(k, later) PROVE UploadsAlone'
    BY <1>2 DEF UploadsGoesOn
  <1>3. ASSUME NEW k \in calls, UploadsOver(k) PROVE UploadsAlone'
    BY <1>3 DEF UploadsOver
  <1>4. CASE UNCHANGED Shelf!uploadVars
    BY <1>4 DEF Shelf!uploadVars, Shelf!requestVars
  <1> QED
    BY <1>1, <1>2, <1>3, <1>4, UploadsStepKinds

LEMMA UploadsInitIsAlone ==
    ASSUME Shelf!UploadsInit
    PROVE  UploadsAlone
  BY DEF Shelf!UploadsInit, Shelf!Request, UploadsAlone, WorkIsOnOne, RowsAreBusy, Shelf!UploadsBusyAlone

\* A clearing is of all, a conversion that has ended found its row, and only lists and
\* conversions go on to the previews.
WorkIsSound ==
    \A k \in calls : /\ k.op = "clear" => k.on = Shelf!All
                     /\ (k.op = "convert" /\ k.step = "back") => k.got[k.on] # "gone"
                     /\ k.step \in {"ask", "show"} => k.op \in {"list", "convert"}

\* What is on its way that will bring the panel's row in line, or take its preview.
Pends(k, u) ==
    \/ k.on = Shelf!All /\ (k.op = "clear" \/ (k.op = "list" /\ k.step \in {"out", "back"}))
    \/ k.on = u /\ \/ k.op = "list" /\ k.step \in {"out", "back"}
                   \/ k.op \in {"convert", "promote", "delete"} /\ k.step = "back"
Voids(k, u) == k.op = "clear" \/ (k.on = u /\ k.op = "delete" /\ k.step = "back")

UploadFits(u) ==
    /\ listed[u] = stored[u] \/ \E k \in calls : Pends(k, u)
    /\ (u \in previews /\ stored[u] = "gone") => \E k \in calls : Voids(k, u)
    /\ \A k \in calls : (k.on = u /\ k.op # "list") => listed[u] # "gone"
    /\ \A k \in calls : (k.on = u /\ k.op = "delete" /\ k.step = "back") => stored[u] = "gone"
UploadsFit == \A u \in Uploads \ crossed : UploadFits(u)

\* A request that goes on.
LEMMA LaterFields ==
    ASSUME NEW k \in Shelf!Requests, NEW step, NEW given
    PROVE  /\ [k EXCEPT !.step = step].op = k.op /\ [k EXCEPT !.step = step].on = k.on
           /\ [k EXCEPT !.step = step].step = step /\ [k EXCEPT !.step = step].got = k.got
           /\ [k EXCEPT !.step = step, !.got = given].op = k.op
           /\ [k EXCEPT !.step = step, !.got = given].on = k.on
           /\ [k EXCEPT !.step = step, !.got = given].step = step
           /\ [k EXCEPT !.step = step, !.got = given].got = given
           /\ [k EXCEPT !.got = given].op = k.op /\ [k EXCEPT !.got = given].on = k.on
           /\ [k EXCEPT !.got = given].step = k.step
  BY DEF Shelf!Requests

LEMMA RequestFields ==
    \A id, op, on : /\ Shelf!Request(id, op, on).op = op /\ Shelf!Request(id, op, on).on = on
                    /\ Shelf!Request(id, op, on).step = "out"
  BY DEF Shelf!Request

LEMMA WorkSoundStep ==
    ASSUME Shelf!UploadsTypeOK, WorkIsOnOne, WorkIsSound, Shelf!UploadsNext
    PROVE  WorkIsSound'
  <1> DEFINE Sound(k) == /\ k.op = "clear" => k.on = Shelf!All
                         /\ (k.op = "convert" /\ k.step = "back") => k.got[k.on] # "gone"
                         /\ k.step \in {"ask", "show"} => k.op \in {"list", "convert"}
  <1>1. WorkIsSound' = \A k \in calls' : Sound(k)
    BY DEF WorkIsSound
  <1>2. \A k \in calls : Sound(k) /\ k \in Shelf!Requests
    BY DEF WorkIsSound, Shelf!UploadsTypeOK, Shelf!RequestsOK
  <1>3. ASSUME NEW request, Shelf!Ask({request}), request.step = "out",
               request.op = "clear" => request.on = Shelf!All
        PROVE  WorkIsSound'
    BY <1>1, <1>2, <1>3 DEF Shelf!Ask
  <1>4. ASSUME NEW k, Shelf!Ends(k) PROVE WorkIsSound'
    BY <1>1, <1>2, <1>4 DEF Shelf!Ends
  <1>5. ASSUME NEW k \in calls, NEW later, Shelf!Becomes(k, later), later.on = k.on, later.op = k.op,
               later.op # "convert" \/ later.step # "back" \/ later.got[later.on] # "gone",
               later.step \in {"ask", "show"} => k.op \in {"list", "convert"}
        PROVE  WorkIsSound'
    BY <1>1, <1>2, <1>5 DEF Shelf!Becomes
  <1> HIDE DEF Sound
  <1>6. CASE Shelf!Refresh \/ Shelf!Clear
    BY <1>3, <1>6, RequestFields DEF Shelf!Refresh, Shelf!Clear
  <1>7. ASSUME NEW u \in Uploads, NEW op \in {"convert", "promote", "delete"}, Shelf!ActOnUpload(u, op)
        PROVE  WorkIsSound'
    BY <1>3, <1>7, RequestFields DEF Shelf!ActOnUpload
  <1>8. ASSUME NEW k \in calls,
               \/ Shelf!ShowPreviews(k) \/ Shelf!Refused(k) \/ Shelf!DeleteAnswered(k)
               \/ Shelf!ClearAnswered(k) \/ Shelf!LoseUpload(k)
        PROVE  WorkIsSound'
    BY <1>4, <1>8 DEF Shelf!ShowPreviews, Shelf!Refused, Shelf!DeleteAnswered, Shelf!ClearAnswered,
                      Shelf!LoseUpload
  <1>9. ASSUME NEW k \in calls,
               \/ Shelf!ListAnswered(k) \/ Shelf!StartWork(k) \/ Shelf!TakeDelete(k) \/ Shelf!ConvertAnswered(k)
        PROVE  WorkIsSound'
    <2>1. PICK step \in {"ask", "work", "back"} : Shelf!Becomes(k, [k EXCEPT !.step = step])
              /\ (step = "back" => k.op = "delete")
              /\ (step = "ask" => k.op \in {"list", "convert"})
      BY <1>9 DEF Shelf!ListAnswered, Shelf!StartWork, Shelf!TakeDelete, Shelf!ConvertAnswered
    <2>2. /\ [k EXCEPT !.step = step].on = k.on /\ [k EXCEPT !.step = step].op = k.op
          /\ [k EXCEPT !.step = step].step = step
      BY <1>2, LaterFields
    <2> QED
      BY <1>5, <2>1, <2>2
  <1>10. ASSUME NEW k \in calls, NEW step, NEW given, Shelf!Becomes(k, [k EXCEPT !.step = step, !.got = given]),
                k.op # "convert" \/ step # "back" \/ given[k.on] # "gone",
                step \in {"ask", "show"} => k.op \in {"list", "convert"}
         PROVE  WorkIsSound'
    <2> DEFINE later == [k EXCEPT !.step = step, !.got = given]
    <2>1. later.on = k.on /\ later.op = k.op /\ later.step = step /\ later.got = given
      BY <1>2, LaterFields
    <2>2. Shelf!Becomes(k, later)
      BY <1>10
    <2> HIDE DEF later
    <2> QED
      BY <1>5, <1>10, <2>1, <2>2
  <1>11. ASSUME NEW k \in calls, Shelf!TakeList(k) PROVE WorkIsSound'
    BY <1>10, <1>11 DEF Shelf!TakeList
  <1>12. ASSUME NEW k \in calls, Shelf!ReadPreviews(k) PROVE WorkIsSound'
    <2>1. PICK given : Shelf!Becomes(k, [k EXCEPT !.step = "show", !.got = given])
      BY <1>12 DEF Shelf!ReadPreviews
    <2>2. k.op \in {"list", "convert"}
      BY <1>12 DEF Shelf!ReadPreviews, WorkIsSound
    <2> QED
      BY <1>10, <2>1, <2>2
  <1>13. ASSUME NEW k \in calls, Shelf!BeginClear(k) PROVE WorkIsSound'
    <2>1. PICK given : Shelf!Becomes(k, [k EXCEPT !.step = "work", !.got = given])
      BY <1>13 DEF Shelf!BeginClear
    <2> QED
      BY <1>10, <2>1
  <1>14. ASSUME NEW k \in calls, NEW u \in Uploads, Shelf!ClearOne(k, u) PROVE WorkIsSound'
    <2> DEFINE later == [k EXCEPT !.got = [k.got EXCEPT ![u] = "gone"]]
    <2>1. Shelf!Becomes(k, later) /\ k.op = "clear" /\ k.step = "work"
      BY <1>14 DEF Shelf!ClearOne
    <2>2. later.on = k.on /\ later.op = k.op /\ later.step = k.step
      BY <1>2, LaterFields
    <2> HIDE DEF later
    <2> QED
      BY <1>5, <2>1, <2>2
  <1>15. ASSUME NEW k \in calls, Shelf!EndWork(k) PROVE WorkIsSound'
    <2>1. PICK now : now = stored'[k.on]
      OBVIOUS
    <2>2. /\ Shelf!Becomes(k, [k EXCEPT !.step = "back", !.got = [Shelf!None EXCEPT ![k.on] = now]])
          /\ k.op \in {"convert", "promote"}
      BY <1>15, <2>1 DEF Shelf!EndWork
    <2>3. k.on \in Uploads
      BY <2>2 DEF WorkIsOnOne
    <2>4. k.op = "convert" => now # "gone"
      BY <1>15, <2>1, <2>3 DEF Shelf!EndWork, Shelf!UploadsTypeOK, Shelf!Rows
    <2>5. [Shelf!None EXCEPT ![k.on] = now][k.on] = now
      BY <2>3 DEF Shelf!None
    <2> QED
      BY <1>10, <2>2, <2>4, <2>5
  <1>16. ASSUME NEW k \in calls, Shelf!PromoteAnswered(k) PROVE WorkIsSound'
    <2>1. CASE Shelf!Becomes(k, Shelf!Request(k.id, "list", k.on))
      BY <1>1, <1>2, <2>1, RequestFields DEF Shelf!Becomes, Sound
    <2>2. CASE Shelf!Ends(k)
      BY <1>4, <2>2
    <2> QED
      BY <1>16, <2>1, <2>2 DEF Shelf!PromoteAnswered
  <1> QED
    BY <1>6, <1>7, <1>8, <1>9, <1>11, <1>12, <1>13, <1>14, <1>15, <1>16
    DEF Shelf!UploadsNext, Shelf!UploadsProgress

-----------------------------------------------------------------------------
\* What leaves an upload and its requests alone.
LEMMA UploadAside ==
    ASSUME NEW u, UploadFits(u), listed'[u] = listed[u], stored'[u] = stored[u],
           u \in previews' => u \in previews,
           \A k \in calls : Pends(k, u) => \E j \in calls' : Pends(j, u),
           \A k \in calls : Voids(k, u) => \E j \in calls' : Voids(j, u),
           \A j \in calls' : (j.on = u /\ j.op # "list") => \E k \in calls : k.on = u /\ k.op # "list",
           \A j \in calls' : (j.on = u /\ j.op = "delete" /\ j.step = "back") =>
              \E k \in calls : k.on = u /\ k.op = "delete" /\ k.step = "back"
    PROVE  UploadFits(u)'
  <1>1. listed'[u] = stored'[u] \/ \E k \in calls' : Pends(k, u)
    BY DEF UploadFits
  <1>2. (u \in previews' /\ stored'[u] = "gone") => \E k \in calls' : Voids(k, u)
    BY DEF UploadFits
  <1>3. \A k \in calls' : (k.on = u /\ k.op # "list") => listed'[u] # "gone"
    BY DEF UploadFits
  <1>4. \A k \in calls' : (k.on = u /\ k.op = "delete" /\ k.step = "back") => stored'[u] = "gone"
    BY DEF UploadFits
  <1> QED
    BY <1>1, <1>2, <1>3, <1>4 DEF UploadFits, Pends, Voids

\* A request goes on, and is as much on its way.
LEMMA UploadGoesOn ==
    ASSUME NEW u, UploadFits(u), UNCHANGED <<listed, stored, previews>>,
           NEW k \in calls, NEW later, Shelf!Becomes(k, later), later.on = k.on, later.op = k.op,
           k.op # "delete", Pends(k, u) => Pends(later, u)
    PROVE  UploadFits(u)'
  <1>1. \A j \in calls : Pends(j, u) => \E i \in calls' : Pends(i, u)
    BY DEF Shelf!Becomes
  <1>2. \A j \in calls : Voids(j, u) => \E i \in calls' : Voids(i, u)
    BY DEF Shelf!Becomes, Voids
  <1>3. /\ \A j \in calls' : (j.on = u /\ j.op # "list") => \E i \in calls : i.on = u /\ i.op # "list"
        /\ \A j \in calls' : (j.on = u /\ j.op = "delete" /\ j.step = "back") =>
              \E i \in calls : i.on = u /\ i.op = "delete" /\ i.step = "back"
    BY DEF Shelf!Becomes
  <1> QED
    BY <1>1, <1>2, <1>3, UploadAside

\* A request ends that was not about it.
LEMMA UploadEndsAside ==
    ASSUME NEW u, UploadFits(u), listed'[u] = listed[u], stored'[u] = stored[u],
           u \in previews' => u \in previews,
           NEW k \in calls, Shelf!Ends(k), ~Pends(k, u), ~Voids(k, u)
    PROVE  UploadFits(u)'
  <1>1. /\ \A j \in calls : Pends(j, u) => j \in calls'
        /\ \A j \in calls : Voids(j, u) => j \in calls'
        /\ calls' \subseteq calls
    BY DEF Shelf!Ends
  <1> QED
    BY <1>1, UploadAside

LEMMA UploadsOfClicks ==
    ASSUME Shelf!UploadsTypeOK, UploadsFit, NEW u \in Uploads \ crossed',
           \/ Shelf!Refresh \/ Shelf!Clear
           \/ \E v \in Uploads, op \in {"convert", "promote", "delete"} : Shelf!ActOnUpload(v, op)
    PROVE  UploadFits(u)'
  <1>1. /\ UNCHANGED <<listed, stored, previews, crossed>>
        /\ \E new : calls' = calls \cup {new} /\ new.step = "out" /\ (new.on = u => listed[u] # "gone")
    <2>1. CASE Shelf!Refresh \/ Shelf!Clear
      <3>1. u # Shelf!All
        BY DeskAssumption DEF Shelf!UploadsAssumption
      <3> QED
        BY <2>1, <3>1, RequestFields DEF Shelf!Refresh, Shelf!Clear, Shelf!Ask
    <2>2. ASSUME NEW v \in Uploads, NEW op \in {"convert", "promote", "delete"}, Shelf!ActOnUpload(v, op)
          PROVE  /\ UNCHANGED <<listed, stored, previews, crossed>>
                 /\ \E new : calls' = calls \cup {new} /\ new.step = "out" /\ (new.on = u => listed[u] # "gone")
      BY <2>2, RequestFields DEF Shelf!ActOnUpload, Shelf!Ask
    <2> QED
      BY <2>1, <2>2
  <1>2. UploadFits(u)
    BY <1>1 DEF UploadsFit
  <1>3. PICK new : calls' = calls \cup {new} /\ new.step = "out" /\ (new.on = u => listed[u] # "gone")
    BY <1>1
  <1>4. /\ listed'[u] = stored'[u] \/ \E k \in calls' : Pends(k, u)
        /\ (u \in previews' /\ stored'[u] = "gone") => \E k \in calls' : Voids(k, u)
    BY <1>1, <1>2, <1>3 DEF UploadFits
  <1>5. /\ \A k \in calls' : (k.on = u /\ k.op # "list") => listed'[u] # "gone"
        /\ \A k \in calls' : (k.on = u /\ k.op = "delete" /\ k.step = "back") => stored'[u] = "gone"
    BY <1>1, <1>2, <1>3 DEF UploadFits
  <1> QED
    BY <1>4, <1>5 DEF UploadFits, Pends, Voids

LEMMA UploadsOfLists ==
    ASSUME Shelf!UploadsTypeOK, UploadsAlone, WorkIsSound, UploadsFit, NEW u \in Uploads \ crossed',
           NEW k \in calls,
           \/ Shelf!TakeList(k) \/ Shelf!ListAnswered(k) \/ Shelf!ReadPreviews(k) \/ Shelf!ShowPreviews(k)
    PROVE  UploadFits(u)'
  <1>1. k \in Shelf!Requests /\ u # Shelf!All
    BY DeskAssumption DEF Shelf!UploadsTypeOK, Shelf!RequestsOK, Shelf!UploadsAssumption
  <1>2. UploadFits(u)
    BY DEF UploadsFit, Shelf!TakeList, Shelf!ListAnswered, Shelf!ReadPreviews, Shelf!ShowPreviews
  <1>3. ASSUME NEW step, NEW given, Shelf!Becomes(k, [k EXCEPT !.step = step, !.got = given]),
               k.op # "delete", UNCHANGED <<listed, stored, previews>>,
               k.step \notin {"out", "back"} \/ (step = "back" /\ k.op = "list")
        PROVE  UploadFits(u)'
    <2> DEFINE later == [k EXCEPT !.step = step, !.got = given]
    <2>1. later.on = k.on /\ later.op = k.op /\ later.step = step
      BY <1>1, LaterFields
    <2>2. Shelf!Becomes(k, later)
      BY <1>3
    <2> HIDE DEF later
    <2>3. Pends(k, u) => Pends(later, u)
      BY <1>3, <2>1 DEF Pends
    <2> QED
      BY <1>2, <1>3, <2>1, <2>2, <2>3, UploadGoesOn
  <1>4. CASE Shelf!TakeList(k)
    <2>1. /\ k.op = "list" /\ Shelf!Becomes(k, [k EXCEPT !.step = "back", !.got = stored])
          /\ UNCHANGED <<listed, stored, previews>>
      BY <1>4 DEF Shelf!TakeList
    <2> QED
      BY <1>3, <2>1
  <1>5. CASE Shelf!ReadPreviews(k)
    <2>1. k.step = "ask" /\ UNCHANGED <<listed, stored, previews>>
      BY <1>5 DEF Shelf!ReadPreviews
    <2>2. PICK given : Shelf!Becomes(k, [k EXCEPT !.step = "show", !.got = given])
      BY <1>5 DEF Shelf!ReadPreviews
    <2>3. k.op # "delete"
      BY <2>1 DEF WorkIsSound
    <2> QED
      BY <1>3, <2>1, <2>2, <2>3
  <1>6. CASE Shelf!ListAnswered(k)
    <2> DEFINE later == [k EXCEPT !.step = "ask"]
    <2>1. /\ k.op = "list" /\ listed' = k.got /\ UNCHANGED <<stored, previews>>
          /\ calls' = (calls \ {k}) \cup {later}
          /\ k.got[u] = stored[u] /\ u \notin Shelf!Disputed(k)
      BY <1>6 DEF Shelf!ListAnswered, Shelf!Becomes
    <2>2. later.op = "list" /\ later.on = k.on
      BY <1>1, <2>1, LaterFields
    <2> HIDE DEF later
    <2>3. \A j \in calls' : j.on = u => j.op = "list"
      BY <2>1, <2>2 DEF Shelf!Disputed
    <2>4. \A j \in calls : Voids(j, u) => j \in calls'
      BY <2>1 DEF Voids
    <2>5. listed'[u] = stored'[u]
      BY <2>1
    <2> QED
      BY <1>2, <2>1, <2>3, <2>4, <2>5 DEF UploadFits, Voids
  <1>7. CASE Shelf!ShowPreviews(k)
    <2>1. /\ k.step = "show" /\ previews' = previews \cup Shelf!Here(k.got) /\ Shelf!Ends(k)
          /\ UNCHANGED <<listed, stored>>
          /\ u \in Shelf!Here(k.got) => stored[u] # "gone"
          /\ u \in Shelf!Here(k.got) => u \notin Shelf!Disputed(k)
      BY <1>7 DEF Shelf!ShowPreviews
    <2>2. k.op \in {"list", "convert"} /\ ~Pends(k, u) /\ ~Voids(k, u)
      BY <2>1 DEF WorkIsSound, Pends, Voids
    <2>3. CASE u \notin Shelf!Here(k.got)
      BY <1>2, <2>1, <2>2, <2>3, UploadEndsAside
    <2>4. CASE u \in Shelf!Here(k.got)
      <3>1. /\ \A j \in calls : Pends(j, u) => j \in calls'
            /\ calls' \subseteq calls
        BY <2>1, <2>2 DEF Shelf!Ends
      <3> QED
        BY <1>2, <2>1, <2>4, <3>1 DEF UploadFits, Pends, Voids
    <2> QED
      BY <2>3, <2>4
  <1> QED
    BY <1>4, <1>5, <1>6, <1>7

\* What is done of one upload leaves the others as they were.
LEMMA UploadOthers ==
    ASSUME NEW u, UploadFits(u), listed'[u] = listed[u], stored'[u] = stored[u],
           u \in previews' => u \in previews,
           NEW k \in calls, k.on # u, k.op # "clear", k.on # Shelf!All,
           Shelf!Ends(k) \/ \E later : Shelf!Becomes(k, later) /\ later.on = k.on
    PROVE  UploadFits(u)'
  <1>1. \A j \in calls : Pends(j, u) => j # k
    BY DEF Pends
  <1>2. \A j \in calls : Voids(j, u) => j # k
    BY DEF Voids
  <1>3. /\ \A j \in calls : j # k => j \in calls'
        /\ \A j \in calls' : j.on = u => j \in calls
    BY DEF Shelf!Ends, Shelf!Becomes
  <1> QED
    BY <1>1, <1>2, <1>3, UploadAside

\* The row shows what is stored, and there it is.
LEMMA UploadInLine ==
    ASSUME NEW u, UploadFits(u), listed'[u] = stored'[u], UNCHANGED stored, stored[u] # "gone",
           \A j \in calls' : (j.on = u /\ j.op = "delete") => j \in calls
    PROVE  UploadFits(u)'
  BY DEF UploadFits, Pends, Voids

\* A request has been done with and its answer will bring the row in line.
LEMMA UploadPends ==
    ASSUME NEW u, UploadFits(u), UNCHANGED <<listed, previews>>, NEW k \in calls, NEW later,
           Shelf!Becomes(k, later), later.on = k.on, Pends(later, u),
           ~Voids(k, u) \/ Voids(later, u), later.op \in {k.op, "list"},
           stored'[u] = stored[u] \/ (stored'[u] = "gone" /\ Voids(later, u)) \/
              (stored'[u] # "gone" /\ ~\E j \in calls' : j.on = u /\ j.op = "delete"),
           (later.on = u /\ later.op = "delete") => stored'[u] = "gone"
    PROVE  UploadFits(u)'
  <1>1. \E j \in calls' : Pends(j, u)
    BY DEF Shelf!Becomes
  <1>2. (u \in previews' /\ stored'[u] = "gone") => \E j \in calls' : Voids(j, u)
    <2>1. Voids(later, u) => \E j \in calls' : Voids(j, u)
      BY DEF Shelf!Becomes
    <2>2. CASE stored'[u] = stored[u] /\ ~Voids(k, u)
      <3>1. \A j \in calls : Voids(j, u) => j \in calls'
        BY <2>2 DEF Shelf!Becomes
      <3> QED
        BY <2>2, <3>1 DEF UploadFits
    <2> QED
      BY <2>1, <2>2
  <1>3. \A j \in calls' : (j.on = u /\ j.op # "list") => listed'[u] # "gone"
    BY DEF UploadFits, Shelf!Becomes
  <1>4. \A j \in calls' : (j.on = u /\ j.op = "delete" /\ j.step = "back") => stored'[u] = "gone"
    BY DEF UploadFits, Shelf!Becomes
  <1> QED
    BY <1>1, <1>2, <1>3, <1>4 DEF UploadFits, Pends, Voids

LEMMA UploadsOfWork ==
    ASSUME Shelf!UploadsTypeOK, UploadsAlone, WorkIsSound, UploadsFit, NEW u \in Uploads \ crossed',
           NEW k \in calls,
           \/ Shelf!Refused(k) \/ Shelf!StartWork(k) \/ Shelf!EndWork(k) \/ Shelf!TakeDelete(k)
    PROVE  UploadFits(u)'
  <1>1. k \in Shelf!Requests /\ u # Shelf!All /\ stored \in Shelf!Rows
    BY DeskAssumption DEF Shelf!UploadsTypeOK, Shelf!RequestsOK, Shelf!UploadsAssumption
  <1>2. UploadFits(u)
    BY DEF UploadsFit, Shelf!Refused, Shelf!StartWork, Shelf!EndWork, Shelf!TakeDelete
  <1>3. k.op \in {"convert", "promote", "delete"}
    BY DEF Shelf!Refused, Shelf!StartWork, Shelf!EndWork, Shelf!TakeDelete
  <1>4. k.on \in Uploads /\ k.on # Shelf!All
    BY <1>3, DeskAssumption DEF UploadsAlone, WorkIsOnOne, Shelf!UploadsAssumption
  <1>5. \A j \in calls : j.on = k.on => j = k
    BY <1>4 DEF UploadsAlone, Shelf!UploadsBusyAlone
  <1>6. CASE Shelf!Refused(k)
    BY <1>2, <1>3, <1>4, <1>6, UploadOthers DEF Shelf!Refused
  <1>7. CASE Shelf!StartWork(k)
    <2> DEFINE later == [k EXCEPT !.step = "work"]
    <2>1. later.on = k.on /\ later.op = k.op
      BY <1>1, LaterFields
    <2>2. /\ Shelf!Becomes(k, later) /\ k.op # "delete" /\ UNCHANGED <<listed, stored, previews>>
          /\ ~Pends(k, u)
      BY <1>4, <1>7 DEF Shelf!StartWork, Pends
    <2> HIDE DEF later
    <2> QED
      BY <1>2, <2>1, <2>2, UploadGoesOn
  <1>8. CASE Shelf!EndWork(k)
    <2>1. PICK given : given = [Shelf!None EXCEPT ![k.on] = stored'[k.on]]
      OBVIOUS
    <2> DEFINE later == [k EXCEPT !.step = "back", !.got = given]
    <2>2. later.on = k.on /\ later.op = k.op /\ later.step = "back"
      BY <1>1, LaterFields
    <2>3. Shelf!Becomes(k, later) /\ UNCHANGED <<listed, previews>> /\ k.op \in {"convert", "promote"}
      BY <1>8, <2>1 DEF Shelf!EndWork
    <2> HIDE DEF later
    <2>4. /\ \A v \in Uploads \ {k.on} : stored'[v] = stored[v]
          /\ stored'[k.on] = "gone" <=> stored[k.on] = "gone"
      BY <1>1, <1>4, <1>8 DEF Shelf!EndWork, Shelf!Rows
    <2>5. CASE u # k.on
      BY <1>2, <1>3, <1>4, <2>2, <2>3, <2>4, <2>5, UploadOthers
    <2>6. CASE u = k.on
      <3>1. Pends(later, u) /\ ~Voids(k, u)
        BY <2>2, <2>3, <2>6 DEF Pends, Voids
      <3>2. ~\E j \in calls' : j.on = u /\ j.op = "delete"
        BY <1>5, <2>2, <2>3, <2>6 DEF Shelf!Becomes
      <3> QED
        BY <1>2, <2>2, <2>3, <2>4, <2>6, <3>1, <3>2, UploadPends
    <2> QED
      BY <2>5, <2>6
  <1>9. CASE Shelf!TakeDelete(k)
    <2> DEFINE later == [k EXCEPT !.step = "back"]
    <2>1. later.on = k.on /\ later.op = k.op /\ later.step = "back"
      BY <1>1, LaterFields
    <2>2. Shelf!Becomes(k, later) /\ UNCHANGED <<listed, previews>> /\ k.op = "delete"
      BY <1>9 DEF Shelf!TakeDelete
    <2> HIDE DEF later
    <2>3. stored'[k.on] = "gone" /\ \A v \in Uploads \ {k.on} : stored'[v] = stored[v]
      BY <1>1, <1>4, <1>9 DEF Shelf!TakeDelete, Shelf!Rows
    <2>4. CASE u # k.on
      BY <1>2, <1>3, <1>4, <2>1, <2>2, <2>3, <2>4, UploadOthers
    <2>5. CASE u = k.on
      <3>1. Pends(later, u) /\ Voids(later, u)
        BY <2>1, <2>2, <2>5 DEF Pends, Voids
      <3> QED
        BY <1>2, <2>1, <2>2, <2>3, <2>5, <3>1, UploadPends
    <2> QED
      BY <2>4, <2>5
  <1> QED
    BY <1>6, <1>7, <1>8, <1>9

LEMMA UploadsOfAnswers ==
    ASSUME Shelf!UploadsTypeOK, UploadsAlone, WorkIsSound, UploadsFit, NEW u \in Uploads \ crossed',
           NEW k \in calls,
           Shelf!ConvertAnswered(k) \/ Shelf!PromoteAnswered(k) \/ Shelf!DeleteAnswered(k)
    PROVE  UploadFits(u)'
  <1>1. k \in Shelf!Requests /\ u # Shelf!All /\ listed \in Shelf!Rows
    BY DeskAssumption DEF Shelf!UploadsTypeOK, Shelf!RequestsOK, Shelf!UploadsAssumption
  <1>2. UploadFits(u)
    BY DEF UploadsFit, Shelf!ConvertAnswered, Shelf!PromoteAnswered, Shelf!DeleteAnswered, Shelf!Met
  <1>3. k.op \in {"convert", "promote", "delete"} /\ k.step = "back"
    BY DEF Shelf!ConvertAnswered, Shelf!PromoteAnswered, Shelf!DeleteAnswered
  <1>4. k.on \in Uploads /\ k.on # Shelf!All
    BY <1>3, DeskAssumption DEF UploadsAlone, WorkIsOnOne, Shelf!UploadsAssumption
  <1>5. \A j \in calls : j.on = k.on => j = k
    BY <1>4 DEF UploadsAlone, Shelf!UploadsBusyAlone
  <1>6. Shelf!Relist(k) => /\ \A v \in Uploads \ {k.on} : listed'[v] = listed[v]
                           /\ listed[k.on] # "gone" => listed'[k.on] = k.got[k.on]
    BY <1>1, <1>4 DEF Shelf!Relist, Shelf!Rows
  <1>7. (u = k.on /\ Shelf!Relist(k) /\ Shelf!Met(k)) => listed'[u] = stored[u] /\ k.got[u] = stored[u]
    BY <1>2, <1>3, <1>6 DEF UploadFits, Shelf!Met
  <1>8. CASE Shelf!ConvertAnswered(k)
    <2> DEFINE later == [k EXCEPT !.step = "ask"]
    <2>1. later.on = k.on /\ later.op = k.op
      BY <1>1, LaterFields
    <2>2. /\ Shelf!Becomes(k, later) /\ UNCHANGED <<stored, previews>> /\ k.op = "convert"
          /\ Shelf!Relist(k) /\ Shelf!Met(k)
      BY <1>8 DEF Shelf!ConvertAnswered
    <2> HIDE DEF later
    <2>3. CASE u # k.on
      BY <1>2, <1>3, <1>4, <1>6, <2>1, <2>2, <2>3, UploadOthers
    <2>4. CASE u = k.on
      <3>1. stored[u] # "gone"
        BY <1>3, <1>7, <2>2, <2>4 DEF WorkIsSound
      <3>2. \A j \in calls' : (j.on = u /\ j.op = "delete") => j \in calls
        BY <2>1, <2>2 DEF Shelf!Becomes
      <3> QED
        BY <1>2, <1>7, <2>2, <2>4, <3>1, <3>2, UploadInLine
    <2> QED
      BY <2>3, <2>4
  <1>9. CASE Shelf!PromoteAnswered(k) /\ k.got[k.on] = "gone"
    <2> DEFINE later == Shelf!Request(k.id, "list", k.on)
    <2>1. later.on = k.on /\ later.op = "list" /\ later.step = "out"
      BY RequestFields
    <2>2. Shelf!Becomes(k, later) /\ UNCHANGED <<listed, stored, previews>> /\ k.op = "promote"
      BY <1>9 DEF Shelf!PromoteAnswered
    <2> HIDE DEF later
    <2>3. CASE u # k.on
      BY <1>2, <1>3, <1>4, <2>1, <2>2, <2>3, UploadOthers
    <2>4. CASE u = k.on
      <3>1. Pends(later, u) /\ ~Voids(k, u)
        BY <2>1, <2>2, <2>4 DEF Pends, Voids
      <3> QED
        BY <1>2, <2>1, <2>2, <3>1, UploadPends
    <2> QED
      BY <2>3, <2>4
  <1>10. CASE Shelf!PromoteAnswered(k) /\ k.got[k.on] # "gone"
    <2>1. Shelf!Ends(k) /\ UNCHANGED <<stored, previews>> /\ Shelf!Relist(k) /\ Shelf!Met(k) /\ k.op = "promote"
      BY <1>10 DEF Shelf!PromoteAnswered
    <2>2. CASE u # k.on
      BY <1>2, <1>3, <1>4, <1>6, <2>1, <2>2, UploadOthers
    <2>3. CASE u = k.on
      <3>1. \A j \in calls' : j \in calls
        BY <2>1 DEF Shelf!Ends
      <3> QED
        BY <1>2, <1>7, <1>10, <2>1, <2>3, <3>1, UploadInLine
    <2> QED
      BY <2>2, <2>3
  <1>11. CASE Shelf!DeleteAnswered(k)
    <2>1. Shelf!Ends(k) /\ UNCHANGED stored /\ previews' = previews \ {k.on} /\ k.op = "delete"
      BY <1>11 DEF Shelf!DeleteAnswered
    <2>2. listed'[k.on] = "gone" /\ \A v \in Uploads \ {k.on} : listed'[v] = listed[v]
      BY <1>1, <1>4, <1>11 DEF Shelf!DeleteAnswered, Shelf!Rows
    <2>3. CASE u # k.on
      BY <1>2, <1>3, <1>4, <2>1, <2>2, <2>3, UploadOthers
    <2>4. CASE u = k.on
      <3>1. listed'[u] = stored'[u] /\ u \notin previews'
        BY <1>2, <1>3, <2>1, <2>2, <2>4 DEF UploadFits
      <3>2. \A j \in calls' : j.on # u
        BY <1>5, <2>1, <2>4 DEF Shelf!Ends
      <3> QED
        BY <3>1, <3>2 DEF UploadFits, Pends, Voids
    <2> QED
      BY <2>3, <2>4
  <1> QED
    BY <1>8, <1>9, <1>10, <1>11

LEMMA UploadsOfClear ==
    ASSUME Shelf!UploadsTypeOK, UploadsAlone, WorkIsSound, UploadsFit, NEW u \in Uploads \ crossed',
           NEW k \in calls,
           \/ Shelf!BeginClear(k) \/ (\E v \in Uploads : Shelf!ClearOne(k, v))
           \/ Shelf!ClearAnswered(k) \/ Shelf!LoseUpload(k)
    PROVE  UploadFits(u)'
  <1>1. k \in Shelf!Requests /\ u # Shelf!All /\ stored \in Shelf!Rows
    BY DeskAssumption DEF Shelf!UploadsTypeOK, Shelf!RequestsOK, Shelf!UploadsAssumption
  <1>2. UploadFits(u)
    BY DEF UploadsFit, Shelf!BeginClear, Shelf!ClearOne, Shelf!ClearAnswered, Shelf!LoseUpload
  <1>3. k.op = "clear" => k.on = Shelf!All
    BY DEF WorkIsSound
  <1>4. CASE Shelf!BeginClear(k)
    <2>1. PICK given : /\ Shelf!Becomes(k, [k EXCEPT !.step = "work", !.got = given])
                       /\ UNCHANGED <<listed, stored, previews>> /\ k.op = "clear"
      BY <1>4 DEF Shelf!BeginClear
    <2> DEFINE later == [k EXCEPT !.step = "work", !.got = given]
    <2>2. later.on = k.on /\ later.op = k.op
      BY <1>1, LaterFields
    <2>3. Shelf!Becomes(k, later)
      BY <2>1
    <2> HIDE DEF later
    <2>4. Pends(k, u) => Pends(later, u)
      BY <1>3, <2>1, <2>2 DEF Pends
    <2> QED
      BY <1>2, <2>1, <2>2, <2>3, <2>4, UploadGoesOn
  <1>5. ASSUME NEW v \in Uploads, Shelf!ClearOne(k, v) PROVE UploadFits(u)'
    <2> DEFINE later == [k EXCEPT !.got = [k.got EXCEPT ![v] = "gone"]]
    <2>1. Shelf!Becomes(k, later) /\ UNCHANGED <<listed, previews>> /\ k.op = "clear"
      BY <1>5 DEF Shelf!ClearOne
    <2>2. later.on = k.on /\ later.op = k.op
      BY <1>1, LaterFields
    <2> HIDE DEF later
    <2>3. stored'[u] = stored[u] \/ stored'[u] = "gone"
      BY <1>1, <1>5 DEF Shelf!ClearOne, Shelf!Rows
    <2>4. Pends(later, u) /\ Voids(later, u)
      BY <1>3, <2>1, <2>2 DEF Pends, Voids
    <2> QED
      BY <1>2, <2>1, <2>2, <2>3, <2>4, UploadPends
  <1>6. CASE Shelf!ClearAnswered(k)
    <2>1. /\ Shelf!Ends(k) /\ previews' = {} /\ UNCHANGED stored
          /\ u \notin Shelf!Here(stored) /\ u \notin Shelf!Disputed(k) /\ listed' = Shelf!None
          /\ k.op = "clear"
      BY <1>6 DEF Shelf!ClearAnswered
    <2>2. listed'[u] = stored'[u]
      BY <2>1 DEF Shelf!Here, Shelf!None
    <2>3. \A j \in calls' : j.on # u
      BY <2>1 DEF Shelf!Disputed, Shelf!Ends
    <2> QED
      BY <2>1, <2>2, <2>3 DEF UploadFits, Pends, Voids
  <1>7. CASE Shelf!LoseUpload(k)
    <2>1. /\ Shelf!Ends(k) /\ UNCHANGED <<listed, stored, previews>> /\ k.on # Shelf!All
          /\ k.on # u
      BY <1>7 DEF Shelf!LoseUpload
    <2> QED
      BY <1>2, <1>3, <2>1, UploadOthers
  <1> QED
    BY <1>4, <1>5, <1>6, <1>7

-----------------------------------------------------------------------------
UploadsInv == Shelf!UploadsTypeOK /\ UploadsAlone /\ WorkIsSound /\ UploadsFit

LEMMA UploadsInvInit ==
    ASSUME Shelf!UploadsInit
    PROVE  UploadsInv
  <1>1. WorkIsSound
    BY RequestFields DEF Shelf!UploadsInit, WorkIsSound
  <1>2. ASSUME NEW u \in Uploads PROVE UploadFits(u)
    <2>1. \E k \in calls : Pends(k, u)
      BY RequestFields DEF Shelf!UploadsInit, Pends
    <2>2. \A k \in calls : k.op = "list"
      BY RequestFields DEF Shelf!UploadsInit
    <2> QED
      BY <2>1, <2>2 DEF Shelf!UploadsInit, UploadFits
  <1> QED
    BY <1>1, <1>2, UploadsTypeInit, UploadsInitIsAlone DEF UploadsInv, UploadsFit

LEMMA UploadsInvStep ==
    ASSUME UploadsInv, Shelf!UploadsNext
    PROVE  UploadsInv'
  <1>1. Shelf!UploadsTypeOK' /\ UploadsAlone'
    BY UploadsTypeOfClicks, UploadsTypeOfProgress, AloneStep DEF UploadsInv, UploadsAlone, Shelf!UploadsNext
  <1>2. WorkIsSound'
    BY WorkSoundStep DEF UploadsInv, UploadsAlone
  <1>3. ASSUME NEW u \in Uploads \ crossed' PROVE UploadFits(u)'
    BY <1>3, UploadsOfClicks, UploadsOfLists, UploadsOfWork, UploadsOfAnswers, UploadsOfClear
    DEF UploadsInv, Shelf!UploadsNext, Shelf!UploadsProgress
  <1>4. UploadsFit'
    BY <1>3 DEF UploadsFit
  <1> QED
    BY <1>1, <1>2, <1>4 DEF UploadsInv

LEMMA UploadsHold ==
    ASSUME UploadsInv
    PROVE  Shelf!UploadsTypeOK /\ Shelf!UploadsAgree /\ Shelf!UploadsBusyAlone
  BY DEF UploadsInv, UploadsAlone, UploadsFit, UploadFits, Shelf!UploadsAgree
=============================================================================
