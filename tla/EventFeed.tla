------------------------------ MODULE EventFeed ------------------------------
(***************************************************************************)
(* What the event stream promises a client: the events of its topic, each  *)
(* at most once and in the order of their ids, whatever connections carry  *)
(* them; an event is left out only if it is declared missed before.        *)
(***************************************************************************)
EXTENDS Naturals, Sequences

CONSTANTS
    Topic,      \* "conversation": every event; "run": those of one run
    Kinds       \* what an event is about: the run, or its conversation only

VARIABLES
    log,        \* the events so far; an event's id is its index
    received,   \* ids the client received
    missed      \* ids it may never receive

vars == <<log, received, missed>>

Wanted(i) == Topic = "conversation" \/ log[i] = "run"
Newest(ids) == IF ids = <<>> THEN 0 ELSE ids[Len(ids)]

Init == log = <<>> /\ received = <<>> /\ missed = {}

Publish(kind) ==
    /\ log' = Append(log, kind)
    /\ UNCHANGED <<received, missed>>

Deliver(i) ==
    /\ Wanted(i)
    /\ i > Newest(received)
    /\ \A j \in DOMAIN log : Newest(received) < j /\ j < i /\ Wanted(j) => j \in missed
    /\ received' = Append(received, i)
    /\ UNCHANGED <<log, missed>>

Miss(i) ==
    /\ missed' = missed \cup {i}
    /\ UNCHANGED <<log, received>>

Next ==
    \/ \E kind \in Kinds : Publish(kind)
    \/ \E i \in DOMAIN log : Deliver(i) \/ Miss(i)

Spec == Init /\ [][Next]_vars
=============================================================================
