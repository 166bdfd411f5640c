------------------------ MODULE MCCommitTransactions ------------------------
(***************************************************************************)
(* Instances of CommitTransactions for TLC.                                *)
(***************************************************************************)
EXTENDS CommitTransactions

OwnNames == [c \in Client |-> {c}]
SharedName == [c \in Client |-> {CHOOSE d \in Client : TRUE}]

Calm == [loads |-> FALSE, faults |-> {"reject"}]
Rough == [loads |-> TRUE, faults |-> {"reject", "io_error", "crash"}]
CalmOrRough == {Calm, Rough}
OnlyCalm == {Calm}
AddFails == {[loads |-> FALSE, faults |-> {"io_error"}]}
=============================================================================
