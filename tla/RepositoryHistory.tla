-------------------------- MODULE RepositoryHistory ---------------------------
(***************************************************************************)
(* What the repository promises its callers, without files, tables or      *)
(* locks: one working tree that edits change, and an append-only history   *)
(* of trees.  A commit takes the working tree as it is at one instant;     *)
(* edits may go on while it is stored; what it took becomes the next       *)
(* revision, and no revision ever changes.                                 *)
(***************************************************************************)
EXTENDS TreeDelta, Sequences, Integers

CONSTANT Idle    \* no commit is being stored

VARIABLES
    work,     \* the working tree
    taken,    \* the tree a commit in progress took, or Idle
    history   \* history[r] : the tree of revision r

historyVars == <<work, taken, history>>

HistoryInit ==
    /\ work = EmptyTree
    /\ taken = Idle
    /\ history = <<>>

Put(p, e) ==
    /\ work' = [work EXCEPT ![p] = e]
    /\ UNCHANGED <<taken, history>>

Remove(p) ==
    /\ work' = [q \in Path |-> IF q = p \/ <<p, q>> \in Below THEN NoEntry ELSE work[q]]
    /\ UNCHANGED <<taken, history>>

Take ==
    /\ taken = Idle
    /\ taken' = work
    /\ UNCHANGED <<work, history>>

Record ==
    /\ taken # Idle
    /\ history' = Append(history, taken)
    /\ taken' = Idle
    /\ UNCHANGED work

(***************************************************************************)
(* A commit that is given up leaves no trace.                              *)
(***************************************************************************)
Abandon ==
    /\ taken # Idle
    /\ taken' = Idle
    /\ UNCHANGED <<work, history>>

HistoryNext ==
    \/ \E p \in Path, e \in Entry : Put(p, e)
    \/ \E p \in Path : Remove(p)
    \/ Take
    \/ Record
    \/ Abandon

HistorySpec == HistoryInit /\ [][HistoryNext]_historyVars
=============================================================================
