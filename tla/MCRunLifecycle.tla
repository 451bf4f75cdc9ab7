--------------------------- MODULE MCRunLifecycle ---------------------------
(* Instances of RunLifecycle for TLC.                                      *)
EXTENDS RunLifecycle, TLC

\* Every run in one conversation, or each in a conversation of its own.
Shared == [r \in Runs |-> CHOOSE c \in Conversations : TRUE]
AnyOrder == Permutations(Clients) \cup Permutations(Runs)
=============================================================================
