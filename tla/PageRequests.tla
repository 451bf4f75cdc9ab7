---------------------------- MODULE PageRequests ----------------------------
(***************************************************************************)
(* The requests of a page (frontend/lib/api.ts) as its panels see them: a  *)
(* handler sends a request and goes on, the backend takes requests in any  *)
(* order, and the promise ends with an answer or, when the backend was not *)
(* reached or the answer is lost, with an error.  A request is a record    *)
(* with at least an id, in the order sent, and a step: "out" until the     *)
(* backend takes it, "back" while its answer is on the way.                *)
(***************************************************************************)
EXTENDS Naturals, FiniteSets

CONSTANTS
    MaxActs,    \* bound: what the user does in a panel
    MaxFaults   \* bound: requests lost, connections dropped, acts of another tab

ASSUME RequestsAssumption == MaxActs \in Nat /\ MaxFaults \in Nat

VARIABLES
    calls,      \* the requests on their way
    acts,       \* how often the user acted; the id of the last act's requests
    faults      \* how often something went wrong

requestVars == <<calls, acts, faults>>

RequestsInit == calls = {} /\ acts = 0 /\ faults = 0
RequestsOK(Requests) ==
    /\ calls \subseteq Requests
    /\ acts \in 0 .. MaxActs
    /\ faults \in 0 .. MaxFaults

Act == acts < MaxActs /\ acts' = acts + 1
Fault == faults < MaxFaults /\ faults' = faults + 1

Ask(requests) == calls' = calls \cup requests
Becomes(k, later) == calls' = (calls \ {k}) \cup {later}
Ends(k) == calls' = calls \ {k}

\* A request sent before k is still to be taken.
Overtakes(k) == \E j \in calls : j.step = "out" /\ j.id < k.id
=============================================================================
