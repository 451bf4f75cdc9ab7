---------------------------- MODULE UploadsPanel ----------------------------
(***************************************************************************)
(* The uploads panel (frontend/components/chat/UploadsPanel.tsx) and what  *)
(* the backend does of its requests (delamain_backend/uploads.py), where   *)
(* conversions and promotions take time and clearing goes row by row.      *)
(***************************************************************************)
EXTENDS PageRequests

CONSTANT Uploads

Statuses == {"pending", "converted", "promoted", "gone"}
Rows == [Uploads -> Statuses]
None == [u \in Uploads |-> "gone"]
All == "all uploads"

UploadsAssumption == All \notin Uploads

VARIABLES
    listed,     \* uploads of the panel, those not listed as "gone"
    stored,     \* the rows of the backend
    previews,   \* uploads with a preview
    loading, busy,
    crossed     \* history: uploads on which two requests met, or whose request was lost

uploadVars == <<requestVars, listed, stored, previews, loading, busy, crossed>>

Requests == [id: 0 .. MaxActs, step: {"out", "work", "back", "ask", "show"},
             op: {"list", "convert", "promote", "delete", "clear"}, on: Uploads \cup {All}, got: Rows]
Request(id, op, on) == [id |-> id, step |-> "out", op |-> op, on |-> on, got |-> None]

UploadsTypeOK ==
    /\ RequestsOK(Requests)
    /\ listed \in Rows /\ stored \in Rows
    /\ previews \subseteq Uploads /\ busy \subseteq Uploads /\ crossed \subseteq Uploads
    /\ loading \in BOOLEAN

\* The panel lists the uploads when it opens.
UploadsInit ==
    /\ acts = 0 /\ faults = 0
    /\ stored \in Rows /\ listed = None /\ previews = {}
    /\ calls = {Request(0, "list", All)} /\ loading = TRUE
    /\ busy = {} /\ crossed = {}

Here(rows) == {u \in Uploads : rows[u] # "gone"}
Disputed(k) == {u \in Uploads : \E j \in calls \ {k} : j.on = u}

-----------------------------------------------------------------------------
(* The list and the previews. *)

Refresh ==
    /\ ~loading
    /\ Act
    /\ loading' = TRUE
    /\ Ask({Request(acts + 1, "list", All)})
    /\ UNCHANGED <<faults, listed, stored, previews, busy, crossed>>

TakeList(k) ==
    /\ k.op = "list" /\ k.step = "out"
    /\ Becomes(k, [k EXCEPT !.step = "back", !.got = stored])
    /\ UNCHANGED <<acts, faults, listed, stored, previews, loading, busy, crossed>>

ListAnswered(k) ==
    /\ k.op = "list" /\ k.step = "back"
    /\ listed' = k.got
    /\ Becomes(k, [k EXCEPT !.step = "ask"])
    /\ crossed' = crossed \cup Disputed(k) \cup {u \in Uploads : k.got[u] # stored[u]}
    /\ UNCHANGED <<acts, faults, stored, previews, loading, busy>>

\* Previews of what was listed, or of the one converted; one that is gone has none.
ReadPreviews(k) ==
    /\ k.step = "ask"
    /\ Becomes(k, [k EXCEPT !.step = "show",
                            !.got = [u \in Uploads |-> IF stored[u] = "gone" THEN "gone" ELSE @[u]]])
    /\ UNCHANGED <<acts, faults, listed, stored, previews, loading, busy, crossed>>

ShowPreviews(k) ==
    /\ k.step = "show"
    /\ previews' = previews \cup Here(k.got)
    /\ Ends(k)
    /\ loading' = (loading /\ k.op # "list")
    /\ busy' = busy \ {k.on}
    /\ crossed' = crossed \cup {u \in Here(k.got) : stored[u] = "gone"} \cup
                    (Disputed(k) \cap Here(k.got))
    /\ UNCHANGED <<acts, faults, listed, stored>>

-----------------------------------------------------------------------------
(* One upload. *)

\* Mutant: the buttons of a busy row are offered.
ActOnBusyUpload(u, op) ==
    /\ listed[u] # "gone"
    /\ Act
    /\ busy' = busy \cup {u}
    /\ Ask({Request(acts + 1, op, u)})
    /\ UNCHANGED <<faults, listed, stored, previews, loading, crossed>>

ActOnUpload(u, op) ==
    /\ listed[u] # "gone" /\ u \notin busy
    /\ Act
    /\ busy' = busy \cup {u}
    /\ Ask({Request(acts + 1, op, u)})
    /\ UNCHANGED <<faults, listed, stored, previews, loading, crossed>>

\* Without a row it fails, and the row of the panel stays.
Refused(k) ==
    /\ k.op \in {"convert", "promote", "delete"}
    /\ stored[k.on] = "gone"
    /\ k.step = "out" \/ (k.op = "convert" /\ k.step = "work")
    /\ Ends(k)
    /\ busy' = busy \ {k.on}
    /\ crossed' = crossed \cup {k.on}
    /\ UNCHANGED <<acts, faults, listed, stored, previews, loading>>

StartWork(k) ==
    /\ k.op \in {"convert", "promote"} /\ k.step = "out"
    /\ stored[k.on] # "gone"
    /\ Becomes(k, [k EXCEPT !.step = "work"])
    /\ UNCHANGED <<acts, faults, listed, stored, previews, loading, busy, crossed>>

\* A conversion of a promoted upload leaves it promoted; a promotion of one gone has no row.
EndWork(k) ==
    /\ k.op \in {"convert", "promote"} /\ k.step = "work"
    /\ k.op = "convert" => stored[k.on] # "gone"
    /\ stored' = [stored EXCEPT ![k.on] =
                    CASE @ = "gone" -> "gone"
                      [] @ = "promoted" \/ (@ # "gone" /\ k.op = "promote") -> "promoted"
                      [] OTHER -> "converted"]
    /\ Becomes(k, [k EXCEPT !.step = "back", !.got = [None EXCEPT ![k.on] = stored'[k.on]]])
    /\ UNCHANGED <<acts, faults, listed, previews, loading, busy, crossed>>

TakeDelete(k) ==
    /\ k.op = "delete" /\ k.step = "out"
    /\ stored[k.on] # "gone"
    /\ stored' = [stored EXCEPT ![k.on] = "gone"]
    /\ Becomes(k, [k EXCEPT !.step = "back"])
    /\ UNCHANGED <<acts, faults, listed, previews, loading, busy, crossed>>

\* The row, if it is still listed, is replaced.
Relist(k) == listed' = [listed EXCEPT ![k.on] = IF @ = "gone" THEN @ ELSE k.got[k.on]]
Met(k) == crossed' = IF k.got[k.on] # stored[k.on] THEN crossed \cup {k.on} ELSE crossed

ConvertAnswered(k) ==
    /\ k.op = "convert" /\ k.step = "back"
    /\ Relist(k) /\ Met(k)
    /\ Becomes(k, [k EXCEPT !.step = "ask"])
    /\ UNCHANGED <<acts, faults, stored, previews, loading, busy>>

PromoteAnswered(k) ==
    /\ k.op = "promote" /\ k.step = "back"
    /\ IF k.got[k.on] = "gone"
       THEN /\ Becomes(k, Request(k.id, "list", k.on))
            /\ loading' = TRUE
            /\ UNCHANGED <<listed, busy, crossed>>
       ELSE /\ Relist(k) /\ Met(k)
            /\ busy' = busy \ {k.on}
            /\ Ends(k)
            /\ UNCHANGED loading
    /\ UNCHANGED <<acts, faults, stored, previews>>

\* Mutant: the preview stays.
DeleteAnsweredOnly(k) ==
    /\ k.op = "delete" /\ k.step = "back"
    /\ listed' = [listed EXCEPT ![k.on] = "gone"]
    /\ busy' = busy \ {k.on}
    /\ Ends(k)
    /\ UNCHANGED <<acts, faults, stored, previews, loading, crossed>>

DeleteAnswered(k) ==
    /\ k.op = "delete" /\ k.step = "back"
    /\ listed' = [listed EXCEPT ![k.on] = "gone"]
    /\ previews' = previews \ {k.on}
    /\ busy' = busy \ {k.on}
    /\ Ends(k)
    /\ UNCHANGED <<acts, faults, stored, loading, crossed>>

-----------------------------------------------------------------------------
(* Clear all. *)

Clear ==
    /\ ~loading /\ Here(listed) # {}
    /\ Act
    /\ loading' = TRUE
    /\ Ask({Request(acts + 1, "clear", All)})
    /\ UNCHANGED <<faults, listed, stored, previews, busy, crossed>>

\* clear_uploads: the rows not promoted when it began, one after the other.
BeginClear(k) ==
    /\ k.op = "clear" /\ k.step = "out"
    /\ Becomes(k, [k EXCEPT !.step = "work",
                            !.got = [u \in Uploads |-> IF stored[u] = "promoted" THEN "gone"
                                                       ELSE stored[u]]])
    /\ UNCHANGED <<acts, faults, listed, stored, previews, loading, busy, crossed>>

ClearOne(k, u) ==
    /\ k.op = "clear" /\ k.step = "work"
    /\ k.got[u] # "gone"
    /\ stored' = [stored EXCEPT ![u] = "gone"]
    /\ Becomes(k, [k EXCEPT !.got[u] = "gone"])
    /\ UNCHANGED <<acts, faults, listed, previews, loading, busy, crossed>>

\* The answer counts rows and lists none: the panel shows none, the promoted ones neither.
ClearAnswered(k) ==
    /\ k.op = "clear" /\ k.step = "work" /\ Here(k.got) = {}
    /\ listed' = None /\ previews' = {}
    /\ loading' = FALSE
    /\ Ends(k)
    /\ crossed' = crossed \cup Here(stored) \cup Disputed(k)
    /\ UNCHANGED <<acts, faults, stored, busy>>

LoseUpload(k) ==
    /\ k.step \in {"out", "back"}
    /\ Fault
    /\ Ends(k)
    /\ loading' = (loading /\ k.op \notin {"list", "clear"})
    /\ busy' = busy \ {k.on}
    /\ crossed' = IF k.on = All THEN Uploads ELSE crossed \cup {k.on}
    /\ UNCHANGED <<acts, listed, stored, previews>>

UploadsProgress ==
    \E k \in calls :
        \/ TakeList(k) \/ ListAnswered(k) \/ ReadPreviews(k) \/ ShowPreviews(k)
        \/ Refused(k) \/ StartWork(k) \/ EndWork(k) \/ TakeDelete(k)
        \/ ConvertAnswered(k) \/ PromoteAnswered(k) \/ DeleteAnswered(k)
        \/ BeginClear(k) \/ (\E u \in Uploads : ClearOne(k, u)) \/ ClearAnswered(k)
        \/ LoseUpload(k)

UploadsNext ==
    \/ Refresh \/ Clear
    \/ \E u \in Uploads, op \in {"convert", "promote", "delete"} : ActOnUpload(u, op)
    \/ UploadsProgress

UploadsSpec == UploadsInit /\ [][UploadsNext]_uploadVars /\ WF_uploadVars(UploadsProgress)

-----------------------------------------------------------------------------
(* Properties. *)

(***************************************************************************)
(* When all requests have ended the panel lists the uploads there are, as  *)
(* they are, and has no preview of one that is not there; unless requests  *)
(* met on an upload, one was lost or found no row, or clearing hid it.     *)
(***************************************************************************)
UploadsAgree ==
    calls = {} => \A u \in Uploads \ crossed :
        listed[u] = stored[u] /\ (u \in previews => stored[u] # "gone")

(***************************************************************************)
(* Nothing is converted, promoted or deleted twice at once: a row is busy  *)
(* until what was asked of it has ended, lists in between included.        *)
(***************************************************************************)
UploadsBusyAlone ==
    \A j, k \in calls : (j.on = k.on /\ j.on # All) => j = k

\* The spinner and the busy rows end, whatever fails.
UploadsRest == ~loading /\ busy = {}
UploadsBusyEnds == <>[]UploadsRest
=============================================================================
