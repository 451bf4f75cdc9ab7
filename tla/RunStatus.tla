------------------------------ MODULE RunStatus ------------------------------
(***************************************************************************)
(* What RunManager promises of a run, in the words of frontend_contract.md *)
(* ("Run Statuses"): a run is queued, runs, may pause for approval, and    *)
(* ends once; a conversation has one active run; the end, when it is       *)
(* announced, is announced once and truly.  RunLifecycle implements it     *)
(* where the configuration keeps the unguarded writes of the code away     *)
(* from a cancelled run.                                                   *)
(***************************************************************************)
EXTENDS FiniteSets

CONSTANTS Runs, ConvOf

VARIABLES
    state,      \* the status the API reports of a run
    announced   \* the outcome of its run.completed event, "none" before it

vars == <<state, announced>>

Ended == {"completed", "failed", "interrupted", "cancelled"}
Busy == {"running", "waiting_approval"}

Init ==
    /\ state = [r \in Runs |-> "absent"]
    /\ announced = [r \in Runs |-> "none"]

Move(r, from, to) ==
    /\ state[r] \in from
    /\ state' = [state EXCEPT ![r] = to]
    /\ UNCHANGED announced

Submit(r) == Move(r, {"absent"}, "queued")

\* Runs of one conversation are serialised.
Start(r) ==
    /\ \A q \in Runs : ConvOf[q] = ConvOf[r] => state[q] \notin Busy
    /\ Move(r, {"queued"}, "running")

Pause(r) == Move(r, {"running"}, "waiting_approval")
Resume(r) == Move(r, {"waiting_approval"}, "running")
Complete(r) == Move(r, {"running"}, "completed")
Fail(r) == Move(r, Busy, "failed")
Cancel(r) == Move(r, {"queued"} \cup Busy, "cancelled")

\* A restart interrupts what was active; queued runs wait for the new process.
Interrupt(R) ==
    /\ \A r \in R : state[r] \in Busy
    /\ state' = [r \in Runs |-> IF r \in R THEN "interrupted" ELSE state[r]]
    /\ UNCHANGED announced

\* An interrupted run is not announced, nor is one whose process dies first.
Announce(r) ==
    /\ state[r] \in Ended \ {"interrupted"}
    /\ announced[r] = "none"
    /\ announced' = [announced EXCEPT ![r] = state[r]]
    /\ UNCHANGED state

Next ==
    \/ \E r \in Runs :
        Submit(r) \/ Start(r) \/ Pause(r) \/ Resume(r)
            \/ Complete(r) \/ Fail(r) \/ Cancel(r) \/ Announce(r)
    \/ \E R \in SUBSET Runs : Interrupt(R)

Spec == Init /\ [][Next]_vars

-----------------------------------------------------------------------------
(* What the promise implies: an ended run stays as it is.                  *)

EndedIsFinal == [][\A r \in Runs : state[r] \in Ended => state'[r] = state[r]]_vars
=============================================================================
