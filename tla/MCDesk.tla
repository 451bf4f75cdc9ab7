------------------------------- MODULE MCDesk -------------------------------
(* An instance of Desk for TLC.                                             *)
EXTENDS Desk

CONSTANTS n1, n2    \* model values

\* The text of one path is a part of the other's, and so is each of its own.
Nested == {<<n1, n1>>, <<n2, n2>>, <<n1, n2>>}
Tagged == {<<n1, "tag">>}
=============================================================================
