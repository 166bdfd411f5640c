------------------------------ MODULE TreeReplay ------------------------------
(***************************************************************************)
(* The inner loop of SqliteRepository::get_tree_at_rev: the changes of one *)
(* delta applied to a tree, one change per step, in the order in which     *)
(* conn_collect_pending wrote them (ORDER BY path).                        *)
(***************************************************************************)
EXTENDS TreeDelta, Integers, Sequences

CONSTANT PathOrder   \* the paths in SQLite's BINARY order

(***************************************************************************)
(* Every path occurs once, and a path comes after the ones it is below: a  *)
(* proper prefix sorts first.                                              *)
(***************************************************************************)
ASSUME OrderAssumption ==
    /\ PathOrder \in Seq(Path)
    /\ \A p \in Path : \E i \in 1..Len(PathOrder) : PathOrder[i] = p
    /\ \A i, j \in 1..Len(PathOrder) : PathOrder[i] = PathOrder[j] => i = j
    /\ \A i, j \in 1..Len(PathOrder) :
          <<PathOrder[i], PathOrder[j]>> \in Below => i < j

VARIABLES
    base,      \* the tree the loop starts from
    delta,     \* the delta it applies
    tree,      \* the loop's tree so far
    next       \* index in PathOrder of the next change

loopVars == <<base, delta, tree, next>>

LoopTypeOK ==
    /\ base \in Tree
    /\ delta \in Delta
    /\ tree \in Tree
    /\ next \in 1..(Len(PathOrder) + 1)

LoopInit ==
    /\ base \in Tree
    /\ delta \in Delta
    /\ tree = base
    /\ next = 1

(***************************************************************************)
(* A replay that forgets `tree.retain`: what a deleted directory held      *)
(* survives it.                                                            *)
(***************************************************************************)
ReplayOneKeepsChildren(t, p, change) ==
    IF change \in Entry THEN [t EXCEPT ![p] = change]
    ELSE IF change = Delete THEN [t EXCEPT ![p] = NoEntry] ELSE t

(***************************************************************************)
(* One turn of the loop: TreeChange::Upsert inserts the entry;             *)
(* TreeChange::Delete removes the path and everything below it.  A path    *)
(* the delta does not mention is not in its list.                          *)
(***************************************************************************)
ReplayOne(t, p, change) ==
    IF change \in Entry THEN [t EXCEPT ![p] = change]
    ELSE IF change = Delete
    THEN [q \in Path |-> IF q = p \/ <<p, q>> \in Below THEN NoEntry ELSE t[q]]
    ELSE t

ApplyChange ==
    /\ next <= Len(PathOrder)
    /\ tree' = ReplayOne(tree, PathOrder[next], delta[PathOrder[next]])
    /\ next' = next + 1
    /\ UNCHANGED <<base, delta>>

LoopNext == ApplyChange

LoopSpec == LoopInit /\ [][LoopNext]_loopVars

Visited(p) == \E i \in 1..(next - 1) : PathOrder[i] = p

(***************************************************************************)
(* The part of the delta the loop has gone through.                        *)
(***************************************************************************)
AppliedSoFar == [p \in Path |-> IF Visited(p) THEN delta[p] ELSE NoChange]

(***************************************************************************)
(* At every turn the loop's tree is the base tree with the changes seen so *)
(* far applied all at once: no later change undoes an earlier one, because *)
(* a deleted directory always precedes what was put back below it.  This   *)
(* is what lets get_tree_at_rev replay a delta change by change.           *)
(***************************************************************************)
LoopInvariant == tree = ApplyDelta(base, AppliedSoFar)

(***************************************************************************)
(* When the loop of get_tree_at_rev ends its tree is ApplyDelta(base,      *)
(* delta), the function the other modules use for a replay.                *)
(***************************************************************************)
ReplayIsApplyDelta == next = Len(PathOrder) + 1 => tree = ApplyDelta(base, delta)
=============================================================================
