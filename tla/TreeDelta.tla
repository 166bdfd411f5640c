------------------------------ MODULE TreeDelta ------------------------------
(***************************************************************************)
(* Trees and the deltas between them.                                      *)
(*                                                                         *)
(* A revision's tree is flat: one row per path, files and directories      *)
(* alike (object.rs Tree, the tree_entries table).  It is modelled as a    *)
(* total function from the paths to the entry stored there, or NoEntry.    *)
(* An entry stands for the triple (object id, kind, mode).                 *)
(*                                                                         *)
(* A DeltaTree holds at most one change per path (pending_changes has the  *)
(* path as its primary key), so it is a function too: an entry for         *)
(* TreeChange::Upsert, Delete for TreeChange::Delete, NoChange elsewhere.  *)
(***************************************************************************)

CONSTANTS
    Path,        \* the paths in play
    Below,       \* {<<p, q>>} : q starts with p followed by "/"
    LikeBelow,   \* {<<p, q>>} : q LIKE 'p/%' as SQLite evaluates it
    Entry,       \* what a row may hold: object id, kind and mode
    NoEntry,     \* no row at this path
    NoChange,    \* the delta does not mention this path
    Delete       \* TreeChange::Delete

(***************************************************************************)
(* The paths below p all match 'p/%'; LIKE may match more, because _ and % *)
(* in p are wildcards and ASCII letters compare without case.  No path is  *)
(* below itself and a path below q is below all that q is below.           *)
(***************************************************************************)
ASSUME PathAssumption ==
    /\ Below \subseteq Path \X Path
    /\ LikeBelow \subseteq Path \X Path
    /\ Below \subseteq LikeBelow
    /\ \A p \in Path : <<p, p>> \notin LikeBelow
    /\ \A p, q, r \in Path :
          <<p, q>> \in Below /\ <<q, r>> \in Below => <<p, r>> \in Below

ASSUME MarkerAssumption ==
    /\ NoEntry \notin Entry
    /\ NoChange \notin Entry
    /\ Delete \notin Entry
    /\ NoChange # Delete

Tree == [Path -> Entry \cup {NoEntry}]
Delta == [Path -> Entry \cup {NoChange, Delete}]

EmptyTree == [p \in Path |-> NoEntry]
EmptyDelta == [p \in Path |-> NoChange]

(***************************************************************************)
(* What the replay loop of get_tree_at_rev makes of a tree: the change at  *)
(* a path decides the path, else a deleted directory above it takes it     *)
(* along, else the row stays.  TreeReplay shows that the loop, which walks *)
(* the changes one by one in path order, computes this.                    *)
(***************************************************************************)
ApplyDelta(t, d) ==
    [p \in Path |->
        IF d[p] \in Entry THEN d[p]
        ELSE IF d[p] = Delete \/ \E a \in Path : <<a, p>> \in Below /\ d[a] = Delete
        THEN NoEntry
        ELSE t[p]]

(***************************************************************************)
(* The three SQL statements that edit tree_entries (conn_tree_insert and   *)
(* conn_tree_remove).                                                      *)
(***************************************************************************)
UpsertRow(t, p, e) == [t EXCEPT ![p] = e]
DeleteRow(t, p) == [t EXCEPT ![p] = NoEntry]
DeleteLike(t, p) == [q \in Path |-> IF <<p, q>> \in LikeBelow THEN NoEntry ELSE t[q]]

(***************************************************************************)
(* The objects a tree or a delta names.                                    *)
(***************************************************************************)
TreeObjects(t) == {t[p] : p \in Path} \cap Entry
DeltaObjects(d) == {d[p] : p \in Path} \cap Entry
=============================================================================
