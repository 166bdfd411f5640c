------------------------ MODULE SqliteRepositoryProofs ------------------------
(***************************************************************************)
(* Theorems about SqliteRepository and the loop in which it replays a      *)
(* delta (TreeReplay), for every set of clients, paths and entries, every  *)
(* snapshot interval and any number of revisions.                          *)
(***************************************************************************)
EXTENDS SqliteRepository, TreeReplay, WellFoundedInduction, TLAPS

(***************************************************************************)
(* The replay loop of get_tree_at_rev computes ApplyDelta, for every set   *)
(* of paths, every base tree and every delta.                              *)
(*                                                                         *)
(* Trees that agree at every path are equal.                               *)
(***************************************************************************)
LEMMA TreeEquality ==
    ASSUME NEW t \in Tree, NEW u \in Tree, \A p \in Path : t[p] = u[p]
    PROVE  t = u
BY DEF Tree

(***************************************************************************)
(* ApplyDelta yields a tree.                                               *)
(***************************************************************************)
LEMMA ApplyDeltaType ==
    ASSUME NEW t \in Tree, NEW d \in Delta
    PROVE  ApplyDelta(t, d) \in Tree
BY DEF ApplyDelta, Tree, Delta

(***************************************************************************)
(* One turn of the loop keeps the tree a tree.                             *)
(***************************************************************************)
LEMMA ReplayOneType ==
    ASSUME NEW t \in Tree, NEW p \in Path, NEW c
    PROVE  ReplayOne(t, p, c) \in Tree
BY DEF ReplayOne, Tree

(***************************************************************************)
(* The loop of get_tree_at_rev stays within its types.                     *)
(***************************************************************************)
THEOREM LoopTypeCorrect == LoopSpec => []LoopTypeOK
<1>1. LoopInit => LoopTypeOK
  BY OrderAssumption DEF LoopInit, LoopTypeOK
<1>2. LoopTypeOK /\ [LoopNext]_loopVars => LoopTypeOK'
  <2> SUFFICES ASSUME LoopTypeOK, ApplyChange PROVE LoopTypeOK'
    BY DEF LoopNext, LoopTypeOK, loopVars
  <2>1. PathOrder[next] \in Path
    BY OrderAssumption DEF LoopTypeOK, ApplyChange
  <2>2. tree' \in Tree
    BY <2>1, ReplayOneType DEF LoopTypeOK, ApplyChange
  <2> QED
    BY <2>2, OrderAssumption DEF LoopTypeOK, ApplyChange
<1> QED BY <1>1, <1>2, PTL DEF LoopSpec

(***************************************************************************)
(* The heart of the argument: applying the change at a path none of whose  *)
(* descendants has been visited is the same as adding the change to the    *)
(* set applied so far.                                                     *)
(***************************************************************************)
LEMMA ExtendDelta ==
    ASSUME NEW t \in Tree, NEW d \in Delta, NEW p \in Path,
           NEW c \in Entry \cup {NoChange, Delete},
           d[p] = NoChange,
           \A q \in Path : <<p, q>> \in Below => d[q] = NoChange
    PROVE  ReplayOne(ApplyDelta(t, d), p, c) = ApplyDelta(t, [d EXCEPT ![p] = c])
<1> DEFINE dd == [d EXCEPT ![p] = c]
           L == ReplayOne(ApplyDelta(t, d), p, c)
           R == ApplyDelta(t, dd)
<1>0. ApplyDelta(t, d) \in Tree
  BY ApplyDeltaType
<1>1. /\ dd \in Delta
      /\ dd[p] = c
      /\ \A q \in Path : q # p => dd[q] = d[q]
  BY DEF Delta
<1>2. L \in Tree /\ R \in Tree
  BY <1>0, <1>1, ReplayOneType, ApplyDeltaType
<1>3. ASSUME NEW q \in Path PROVE L[q] = R[q]
  <2>1. CASE q = p
    <3>1. CASE c = NoChange
      BY <2>1, <3>1, <1>0, <1>1, MarkerAssumption, PathAssumption DEF ReplayOne, ApplyDelta, Tree, Delta
    <3>2. CASE c # NoChange
      BY <2>1, <3>2, <1>0, <1>1, MarkerAssumption DEF ReplayOne, ApplyDelta, Tree, Delta
    <3> QED BY <3>1, <3>2
  <2>2. CASE q # p /\ <<p, q>> \in Below
    BY <2>2, <1>0, <1>1, MarkerAssumption DEF ReplayOne, ApplyDelta, Tree, Delta
  <2>3. CASE q # p /\ <<p, q>> \notin Below
    <3>1. (\E a \in Path : <<a, q>> \in Below /\ d[a] = Delete)
          <=> (\E a \in Path : <<a, q>> \in Below /\ dd[a] = Delete)
      BY <2>3, <1>1
    <3> QED
      BY <2>3, <3>1, <1>0, <1>1, MarkerAssumption DEF ReplayOne, ApplyDelta, Tree, Delta
  <2> QED BY <2>1, <2>2, <2>3
<1> HIDE DEF L, R, dd
<1>4. L = R BY <1>2, <1>3, TreeEquality
<1> QED BY <1>4 DEF L, R, dd

(***************************************************************************)
(* At every turn the loop's tree is ApplyDelta of the changes gone         *)
(* through: the ORDER BY path of conn_collect_pending is what makes it so. *)
(***************************************************************************)
THEOREM LoopCorrect == LoopSpec => []LoopInvariant
<1>1. LoopInit => LoopInvariant
  <2> SUFFICES ASSUME LoopInit PROVE LoopInvariant
    OBVIOUS
  <2>1. \A p \in Path : AppliedSoFar[p] = NoChange
    BY DEF LoopInit, AppliedSoFar, Visited
  <2>2. ApplyDelta(base, AppliedSoFar) \in Tree
    BY <2>1, ApplyDeltaType DEF LoopInit, AppliedSoFar, Delta
  <2>3. \A p \in Path : ApplyDelta(base, AppliedSoFar)[p] = base[p]
    BY <2>1, MarkerAssumption DEF ApplyDelta
  <2> QED BY <2>2, <2>3 DEF LoopInit, LoopInvariant, Tree
<1>2. LoopTypeOK /\ LoopInvariant /\ [LoopNext]_loopVars => LoopInvariant'
  <2> SUFFICES ASSUME LoopTypeOK, LoopInvariant, [LoopNext]_loopVars PROVE LoopInvariant'
    OBVIOUS
  <2>1. CASE UNCHANGED loopVars
    BY <2>1 DEF loopVars, LoopInvariant, AppliedSoFar, Visited
  <2>2. CASE ApplyChange
    <3> DEFINE p == PathOrder[next]
               old == AppliedSoFar
    <3>1. /\ next \in 1..Len(PathOrder)
          /\ p \in Path
          /\ next' = next + 1
          /\ delta' = delta /\ base' = base
      BY <2>2, OrderAssumption DEF LoopTypeOK, ApplyChange
    <3>2. old \in Delta
      BY DEF AppliedSoFar, Delta, LoopTypeOK
    <3>3. ~Visited(p)
      BY <3>1, OrderAssumption DEF Visited, LoopTypeOK
    <3>4. \A q \in Path : <<p, q>> \in Below => ~Visited(q)
      <4> SUFFICES ASSUME NEW q \in Path, <<p, q>> \in Below, Visited(q)
                   PROVE  FALSE
        OBVIOUS
      <4>1. PICK i \in 1..(next - 1) : PathOrder[i] = q
        BY DEF Visited
      <4>2. i \in 1..Len(PathOrder) /\ i < next
        BY <4>1, <3>1, OrderAssumption
      <4>3. <<PathOrder[next], PathOrder[i]>> \in Below
        BY <4>1
      <4>4. next < i
        BY <4>2, <4>3, <3>1, OrderAssumption
      <4> QED BY <4>2, <4>4, <3>1, OrderAssumption
    <3>5. \A q \in Path : Visited(q)' <=> (Visited(q) \/ q = p)
      <4> SUFFICES ASSUME NEW q \in Path PROVE Visited(q)' <=> (Visited(q) \/ q = p)
        OBVIOUS
      <4>1. Visited(q)' <=> \E i \in 1..next : PathOrder[i] = q
        BY <3>1, OrderAssumption DEF Visited, LoopTypeOK
      <4>2. (\E i \in 1..next : PathOrder[i] = q) <=> (Visited(q) \/ q = p)
        BY <3>1, OrderAssumption DEF Visited, LoopTypeOK
      <4> QED BY <4>1, <4>2
    <3>6. AppliedSoFar' = [old EXCEPT ![p] = delta[p]]
      <4>1. AppliedSoFar' = [q \in Path |-> IF Visited(q)' THEN delta[q] ELSE NoChange]
        BY <3>1 DEF AppliedSoFar
      <4> QED BY <4>1, <3>1, <3>5 DEF AppliedSoFar
    <3>7. old[p] = NoChange /\ \A q \in Path : <<p, q>> \in Below => old[q] = NoChange
      BY <3>1, <3>3, <3>4 DEF AppliedSoFar
    <3>8. delta[p] \in Entry \cup {NoChange, Delete}
      BY <3>1 DEF LoopTypeOK, Delta
    <3> HIDE DEF p, old
    <3>9. ReplayOne(ApplyDelta(base, old), p, delta[p]) = ApplyDelta(base, [old EXCEPT ![p] = delta[p]])
      BY <3>1, <3>2, <3>7, <3>8, ExtendDelta DEF LoopTypeOK
    <3> USE DEF p, old
    <3> QED
      BY <2>2, <3>1, <3>6, <3>9 DEF LoopInvariant, ApplyChange
  <2> QED BY <2>1, <2>2 DEF LoopNext
<1> QED BY <1>1, <1>2, LoopTypeCorrect, PTL DEF LoopSpec

(***************************************************************************)
(* When the loop ends it has applied the whole delta.                      *)
(***************************************************************************)
THEOREM ReplayCorrect == LoopSpec => []ReplayIsApplyDelta
<1>1. LoopTypeOK /\ LoopInvariant => ReplayIsApplyDelta
  <2> SUFFICES ASSUME LoopTypeOK, LoopInvariant, next = Len(PathOrder) + 1
               PROVE  tree = ApplyDelta(base, delta)
    BY DEF ReplayIsApplyDelta
  <2>1. \A p \in Path : Visited(p)
    <3>1. Len(PathOrder) \in Nat /\ next - 1 = Len(PathOrder)
      BY OrderAssumption
    <3> QED BY <3>1, OrderAssumption DEF Visited
  <2>2. AppliedSoFar = delta
    BY <2>1 DEF AppliedSoFar, LoopTypeOK, Delta
  <2> QED BY <2>2 DEF LoopInvariant
<1> QED BY <1>1, LoopTypeCorrect, LoopCorrect, PTL

-----------------------------------------------------------------------------
(***************************************************************************)
(* The repository: what every step keeps, whatever fails.                  *)
(***************************************************************************)

(***************************************************************************)
(* commit_lock is held exactly by the client inside a commit, and there is *)
(* a revision left for it.                                                 *)
(***************************************************************************)
LockInv ==
    /\ \A c \in Client : pc[c] \in Committing <=> commitLock = c
    /\ phase # "up" => \A c \in Client : pc[c] = "idle"
    /\ (\E c \in Client : pc[c] \in Committing \ {"post_hook"}) => currentRev < MaxRev

(***************************************************************************)
(* A client inside an edit knows its row.                                  *)
(***************************************************************************)
ArgInv ==
    \A c \in Client :
        /\ pc[c] \in {"insert", "log_upsert"} => arg[c] \in [path : Path, entry : Entry]
        /\ pc[c] \in {"remove_children", "log_delete"} => arg[c] \in [path : Path, entry : {NoEntry}]

(***************************************************************************)
(* Types, and what they need to be inductive: it holds with every fault.   *)
(***************************************************************************)
BasicInv == TypeOK /\ LockInv /\ ArgInv

(***************************************************************************)
(* refs/head is the revision in memory, except inside save_head and        *)
(* between save_head and the assignment of current_rev.                    *)
(***************************************************************************)
HeadInv ==
    /\ headFile = Torn <=> \E c \in Client : pc[c] = "write_head"
    /\ phase # "down" /\ headFile # Torn =>
          headFile = IF \E c \in Client : pc[c] = "publish" THEN NewRev ELSE currentRev

(***************************************************************************)
(* How far the files of the next revision have come when the committer is  *)
(* at a given point.                                                       *)
(***************************************************************************)
FilesInv ==
    \A c \in Client :
        /\ pc[c] = "store_snapshot" => SnapshotDue
        /\ \/ pc[c] \in {"store_delta", "truncate_head", "write_head", "publish"}
           \/ pc[c] = "store_snapshot" /\ mode = "async"
           => commits[NewRev] # NoTree
        /\ \/ pc[c] \in {"truncate_head", "write_head", "publish"}
           \/ pc[c] = "store_snapshot" /\ mode = "async"
           => deltas[NewRev] # NoDelta
        /\ \/ pc[c] \in {"truncate_head", "write_head", "publish"}
           \/ pc[c] \in {"store_commit", "store_delta"} /\ mode = "sync"
           => (SnapshotDue => snapshots[NewRev] # NoTree)

(***************************************************************************)
(* What makes history durable: it holds with every fault but a torn head.  *)
(***************************************************************************)
DurableInv == BasicInv /\ HeadInv /\ FilesInv /\ RevisionsComplete

-----------------------------------------------------------------------------

(***************************************************************************)
(* Types of the operators on trees and of the revision numbers.            *)
(***************************************************************************)
LEMMA TreeTypes ==
    /\ EmptyTree \in Tree
    /\ EmptyDelta \in Delta
    /\ \A t \in Tree, d \in Delta : ApplyDelta(t, d) \in Tree
    /\ \A t \in Tree, p \in Path, e \in Entry : UpsertRow(t, p, e) \in Tree
    /\ \A t \in Tree, p \in Path : DeleteRow(t, p) \in Tree
    /\ \A t \in Tree, p \in Path : DeleteLike(t, p) \in Tree
BY DEF Tree, Delta, EmptyTree, EmptyDelta, ApplyDelta, UpsertRow, DeleteRow, DeleteLike

LEMMA BasicInit == Init => BasicInv
<1> SUFFICES ASSUME Init PROVE BasicInv
  OBVIOUS
<1>0. NothingSaved \in [live : Tree, pending : Delta]
  BY TreeTypes DEF NothingSaved
<1>1. TypeOK
  <2>1. "idle" \in PC
    BY DEF PC
  <2>2. /\ pc \in [Client -> PC]
        /\ arg \in [Client -> [path : Path, entry : Entry \cup {NoEntry}] \cup {NoArg}]
    BY <2>1 DEF Init
  <2>3. seen \in [0..MaxRev -> Tree \cup {NoTree}]
    BY TreeTypes DEF Init
  <2>4. /\ commits \in [Revision -> Tree \cup {NoTree, DeltaId}]
        /\ deltas \in [Revision -> Delta \cup {NoDelta}]
        /\ snapshots \in [Revision -> Tree \cup {NoTree}]
    BY DEF Init
  <2>5. currentRev \in 0..MaxRev /\ headFile \in 0..MaxRev
    BY RepositoryAssumption DEF Init
  <2>6. live \in Tree /\ root \in Tree /\ pending \in Delta /\ changes \in Delta
    BY TreeTypes DEF Init
  <2>7. saved \in [live : Tree, pending : Delta]
    BY <1>0 DEF Init
  <2>8. strays \subseteq Path /\ drift \in [Revision -> SUBSET Path]
    BY DEF Init
  <2> QED BY <2>2, <2>3, <2>4, <2>5, <2>6, <2>7, <2>8 DEF Init, TypeOK
<1>2. LockInv
  BY RepositoryAssumption DEF Init, LockInv, Committing, Storing
<1>3. ArgInv
  BY DEF Init, ArgInv
<1> QED BY <1>1, <1>2, <1>3 DEF BasicInv

(***************************************************************************)
(* The history variables.                                                  *)
(***************************************************************************)
LEMMA AstrayTypes ==
    ASSUME BasicInv, [Next]_vars
    PROVE  strays' \subseteq Path /\ drift' \in [Revision -> SUBSET Path]
<1>0. strays \subseteq Path /\ drift \in [Revision -> SUBSET Path]
  BY DEF BasicInv, TypeOK
<1>1. \A c \in Client : LeftBehind(c) \subseteq Path
  BY DEF LeftBehind
<1>2. \A p \in Path : Revived(p) \subseteq Path /\ ClearedOnly(p) \subseteq Path
  BY DEF Revived, ClearedOnly
<1>3. CASE UNCHANGED astray
  BY <1>0, <1>3 DEF astray
<1>4. ASSUME NEW c \in Client, InsertEntry(c) PROVE strays' \subseteq Path /\ drift' \in [Revision -> SUBSET Path]
  <2>1. arg[c].path \in Path
    BY <1>4 DEF InsertEntry, BasicInv, ArgInv
  <2> QED BY <1>0, <1>2, <1>4, <2>1 DEF InsertEntry
<1>5. ASSUME NEW c \in Client, NEW p \in Path, RemoveEntry(c, p) PROVE strays' \subseteq Path /\ drift' \in [Revision -> SUBSET Path]
  BY <1>0, <1>2, <1>5 DEF RemoveEntry
<1>6. ASSUME NEW c \in Client, PreCommitAccepts(c) PROVE strays' \subseteq Path /\ drift' \in [Revision -> SUBSET Path]
  BY <1>0, <1>6 DEF PreCommitAccepts
<1>7. ASSUME NEW c \in Client, PreCommitRejects(c) \/ Fail(c) PROVE strays' \subseteq Path /\ drift' \in [Revision -> SUBSET Path]
  BY <1>0, <1>1, <1>7 DEF PreCommitRejects, Fail
<1>8. CASE Crash
  BY <1>0, <1>1, <1>8 DEF Crash
<1>9. ASSUME NEW p \in Path, NEW e \in Entry, PopulateRow(p, e) PROVE strays' \subseteq Path /\ drift' \in [Revision -> SUBSET Path]
  BY <1>0, <1>9 DEF PopulateRow
<1>10. ASSUME NEW c \in Client,
              \/ \E p \in Path, e \in Entry : StoreObject(c, p, e)
              \/ BeginBatch(c) \/ EndBatch(c)
              \/ LogUpsert(c) \/ RemoveChildren(c) \/ LogDelete(c)
       PROVE  UNCHANGED astray
  BY <1>10 DEF StoreObject, BeginBatch, EndBatch, LogUpsert, RemoveChildren, LogDelete
<1>11. ASSUME NEW c \in Client,
              \/ \E m \in Modes : AcquireCommitLock(c, m)
              \/ CollectPending(c) \/ StoreCommit(c) \/ StoreDelta(c) \/ StoreSnapshot(c)
              \/ TruncateHead(c) \/ WriteHead(c) \/ Publish(c) \/ PostCommit(c)
       PROVE  UNCHANGED astray
  BY <1>11 DEF AcquireCommitLock, CollectPending, StoreCommit, StoreDelta, StoreSnapshot,
               TruncateHead, WriteHead, Publish, PostCommit
<1>12. ASSUME Open \/ Initialized PROVE UNCHANGED astray
  BY <1>12 DEF Open, Initialized
<1>13. ASSUME UNCHANGED vars PROVE UNCHANGED astray
  BY <1>13 DEF vars
<1> QED BY <1>3, <1>4, <1>5, <1>6, <1>7, <1>8, <1>9, <1>10, <1>11, <1>12, <1>13
        DEF Next, Edit, Continue, Restart

LEMMA BasicStep == BasicInv /\ [Next]_vars => BasicInv'
<1> SUFFICES ASSUME BasicInv, [Next]_vars PROVE BasicInv'
  OBVIOUS
<1>s. strays' \subseteq Path /\ drift' \in [Revision -> SUBSET Path]
  BY AstrayTypes
<1> USE DEF BasicInv, disk, db, memory, commitLocals
<1>1. ASSUME NEW c \in Client, NEW p \in Path, NEW e \in Entry, StoreObject(c, p, e) PROVE  BasicInv'
  <2>1. TypeOK'
    BY <1>s, <1>1, TreeTypes, RepositoryAssumption DEF StoreObject, TypeOK, Goto, PC, InConn, Storing, Committing, NothingSaved, Revision, NewRev
  <2>2. LockInv'
    BY <1>1, RepositoryAssumption DEF StoreObject, TypeOK, LockInv, Goto, Committing, Storing
  <2>3. ArgInv'
    BY <1>1 DEF StoreObject, TypeOK, ArgInv, Goto
  <2> QED BY <2>1, <2>2, <2>3 DEF BasicInv
<1>2. ASSUME NEW c \in Client, InsertEntry(c) PROVE  BasicInv'
  <2>0. live' \in Tree
    BY <1>2, TreeTypes DEF InsertEntry, TypeOK, ArgInv
  <2>1. TypeOK'
    BY <1>s, <1>2, <2>0, TreeTypes, RepositoryAssumption DEF InsertEntry, TypeOK, Goto, PC, InConn, Storing, Committing, NothingSaved, Revision, NewRev
  <2>2. LockInv'
    BY <1>2, RepositoryAssumption DEF InsertEntry, TypeOK, LockInv, Goto, Committing, Storing
  <2>3. ArgInv'
    BY <1>2 DEF InsertEntry, TypeOK, ArgInv, Goto
  <2> QED BY <2>1, <2>2, <2>3 DEF BasicInv
<1>3. ASSUME NEW c \in Client, LogUpsert(c) PROVE  BasicInv'
  <2>0. pending' \in Delta
    BY <1>3 DEF LogUpsert, TypeOK, ArgInv, Delta
  <2>1. TypeOK'
    BY <1>s, <1>3, <2>0, TreeTypes, RepositoryAssumption DEF LogUpsert, TypeOK, Goto, PC, InConn, Storing, Committing, NothingSaved, Revision, NewRev
  <2>2. LockInv'
    BY <1>3, RepositoryAssumption DEF LogUpsert, TypeOK, LockInv, Goto, Committing, Storing
  <2>3. ArgInv'
    BY <1>3 DEF LogUpsert, TypeOK, ArgInv, Goto
  <2> QED BY <2>1, <2>2, <2>3 DEF BasicInv
<1>4. ASSUME NEW c \in Client, NEW p \in Path, RemoveEntry(c, p) PROVE  BasicInv'
  <2>1. TypeOK'
    BY <1>s, <1>4, TreeTypes, RepositoryAssumption DEF RemoveEntry, TypeOK, Goto, PC, InConn, Storing, Committing, NothingSaved, Revision, NewRev
  <2>2. LockInv'
    BY <1>4, RepositoryAssumption DEF RemoveEntry, TypeOK, LockInv, Goto, Committing, Storing
  <2>3. ArgInv'
    BY <1>4 DEF RemoveEntry, TypeOK, ArgInv, Goto
  <2> QED BY <2>1, <2>2, <2>3 DEF BasicInv
<1>5. ASSUME NEW c \in Client, RemoveChildren(c) PROVE  BasicInv'
  <2>0. live' \in Tree
    BY <1>5, TreeTypes DEF RemoveChildren, TypeOK, ArgInv
  <2>1. TypeOK'
    BY <1>s, <1>5, <2>0, TreeTypes, RepositoryAssumption DEF RemoveChildren, TypeOK, Goto, PC, InConn, Storing, Committing, NothingSaved, Revision, NewRev
  <2>2. LockInv'
    BY <1>5, RepositoryAssumption DEF RemoveChildren, TypeOK, LockInv, Goto, Committing, Storing
  <2>3. ArgInv'
    BY <1>5 DEF RemoveChildren, TypeOK, ArgInv, Goto
  <2> QED BY <2>1, <2>2, <2>3 DEF BasicInv
<1>6. ASSUME NEW c \in Client, LogDelete(c) PROVE  BasicInv'
  <2>0. pending' \in Delta
    BY <1>6 DEF LogDelete, TypeOK, ArgInv, Delta
  <2>1. TypeOK'
    BY <1>s, <1>6, <2>0, TreeTypes, RepositoryAssumption DEF LogDelete, TypeOK, Goto, PC, InConn, Storing, Committing, NothingSaved, Revision, NewRev
  <2>2. LockInv'
    BY <1>6, RepositoryAssumption DEF LogDelete, TypeOK, LockInv, Goto, Committing, Storing
  <2>3. ArgInv'
    BY <1>6 DEF LogDelete, TypeOK, ArgInv, Goto
  <2> QED BY <2>1, <2>2, <2>3 DEF BasicInv
<1>7. ASSUME NEW c \in Client, BeginBatch(c) PROVE  BasicInv'
  <2>1. TypeOK'
    BY <1>s, <1>7, TreeTypes, RepositoryAssumption DEF BeginBatch, TypeOK, Goto, PC, InConn, Storing, Committing, NothingSaved, Revision, NewRev
  <2>2. LockInv'
    BY <1>7, RepositoryAssumption DEF BeginBatch, TypeOK, LockInv, Goto, Committing, Storing
  <2>3. ArgInv'
    BY <1>7 DEF BeginBatch, TypeOK, ArgInv, Goto
  <2> QED BY <2>1, <2>2, <2>3 DEF BasicInv
<1>8. ASSUME NEW c \in Client, EndBatch(c) PROVE  BasicInv'
  <2>1. TypeOK'
    BY <1>s, <1>8, TreeTypes, RepositoryAssumption DEF EndBatch, TypeOK, Goto, PC, InConn, Storing, Committing, NothingSaved, Revision, NewRev
  <2>2. LockInv'
    BY <1>8, RepositoryAssumption DEF EndBatch, TypeOK, LockInv, Goto, Committing, Storing
  <2>3. ArgInv'
    BY <1>8 DEF EndBatch, TypeOK, ArgInv, Goto
  <2> QED BY <2>1, <2>2, <2>3 DEF BasicInv
<1>9. ASSUME NEW c \in Client, NEW m \in Modes, AcquireCommitLock(c, m) PROVE  BasicInv'
  <2>1. TypeOK'
    BY <1>s, <1>9, TreeTypes, RepositoryAssumption DEF AcquireCommitLock, TypeOK, Goto, PC, InConn, Storing, Committing, NothingSaved, Revision, NewRev
  <2>2. LockInv'
    BY <1>9, RepositoryAssumption DEF AcquireCommitLock, TypeOK, LockInv, Goto, Committing, Storing
  <2>3. ArgInv'
    BY <1>9 DEF AcquireCommitLock, TypeOK, ArgInv, Goto
  <2> QED BY <2>1, <2>2, <2>3 DEF BasicInv
<1>10. ASSUME NEW c \in Client, CollectPending(c) PROVE  BasicInv'
  <2>1. TypeOK'
    BY <1>s, <1>10, TreeTypes, RepositoryAssumption DEF CollectPending, TypeOK, Goto, PC, InConn, Storing, Committing, NothingSaved, Revision, NewRev
  <2>2. LockInv'
    BY <1>10, RepositoryAssumption DEF CollectPending, TypeOK, LockInv, Goto, Committing, Storing
  <2>3. ArgInv'
    BY <1>10 DEF CollectPending, TypeOK, ArgInv, Goto
  <2> QED BY <2>1, <2>2, <2>3 DEF BasicInv
<1>11. ASSUME NEW c \in Client, PreCommitAccepts(c) PROVE  BasicInv'
  <2>1. TypeOK'
    BY <1>s, <1>11, TreeTypes, RepositoryAssumption DEF PreCommitAccepts, TypeOK, Goto, PC, InConn, Storing, Committing, NothingSaved, Revision, NewRev
  <2>2. LockInv'
    BY <1>11, RepositoryAssumption DEF PreCommitAccepts, TypeOK, LockInv, Goto, Committing, Storing
  <2>3. ArgInv'
    BY <1>11 DEF PreCommitAccepts, TypeOK, ArgInv, Goto
  <2> QED BY <2>1, <2>2, <2>3 DEF BasicInv
<1>12. ASSUME NEW c \in Client, PreCommitRejects(c) PROVE  BasicInv'
  <2>1. TypeOK'
    BY <1>s, <1>12, TreeTypes, RepositoryAssumption DEF PreCommitRejects, TypeOK, Goto, PC, InConn, Storing, Committing, NothingSaved, Revision, NewRev
  <2>2. LockInv'
    BY <1>12, RepositoryAssumption DEF PreCommitRejects, TypeOK, LockInv, Goto, Committing, Storing
  <2>3. ArgInv'
    BY <1>12 DEF PreCommitRejects, TypeOK, ArgInv, Goto
  <2> QED BY <2>1, <2>2, <2>3 DEF BasicInv
<1>13. ASSUME NEW c \in Client, StoreCommit(c) PROVE  BasicInv'
  <2>1. TypeOK'
    BY <1>s, <1>13, TreeTypes, RepositoryAssumption DEF StoreCommit, TypeOK, Goto, PC, InConn, Storing, Committing, NothingSaved, Revision, NewRev
  <2>2. LockInv'
    BY <1>13, RepositoryAssumption DEF StoreCommit, TypeOK, LockInv, Goto, Committing, Storing
  <2>3. ArgInv'
    BY <1>13 DEF StoreCommit, TypeOK, ArgInv, Goto
  <2> QED BY <2>1, <2>2, <2>3 DEF BasicInv
<1>14. ASSUME NEW c \in Client, StoreDelta(c) PROVE  BasicInv'
  <2>1. TypeOK'
    BY <1>s, <1>14, TreeTypes, RepositoryAssumption DEF StoreDelta, TypeOK, Goto, PC, InConn, Storing, Committing, NothingSaved, Revision, NewRev
  <2>2. LockInv'
    BY <1>14, RepositoryAssumption DEF StoreDelta, TypeOK, LockInv, Goto, Committing, Storing
  <2>3. ArgInv'
    BY <1>14 DEF StoreDelta, TypeOK, ArgInv, Goto
  <2> QED BY <2>1, <2>2, <2>3 DEF BasicInv
<1>15. ASSUME NEW c \in Client, StoreSnapshot(c) PROVE  BasicInv'
  <2>1. TypeOK'
    BY <1>s, <1>15, TreeTypes, RepositoryAssumption DEF StoreSnapshot, TypeOK, Goto, PC, InConn, Storing, Committing, NothingSaved, Revision, NewRev
  <2>2. LockInv'
    BY <1>15, RepositoryAssumption DEF StoreSnapshot, TypeOK, LockInv, Goto, Committing, Storing
  <2>3. ArgInv'
    BY <1>15 DEF StoreSnapshot, TypeOK, ArgInv, Goto
  <2> QED BY <2>1, <2>2, <2>3 DEF BasicInv
<1>16. ASSUME NEW c \in Client, TruncateHead(c) PROVE  BasicInv'
  <2>1. TypeOK'
    BY <1>s, <1>16, TreeTypes, RepositoryAssumption DEF TruncateHead, TypeOK, Goto, PC, InConn, Storing, Committing, NothingSaved, Revision, NewRev
  <2>2. LockInv'
    BY <1>16, RepositoryAssumption DEF TruncateHead, TypeOK, LockInv, Goto, Committing, Storing
  <2>3. ArgInv'
    BY <1>16 DEF TruncateHead, TypeOK, ArgInv, Goto
  <2> QED BY <2>1, <2>2, <2>3 DEF BasicInv
<1>17. ASSUME NEW c \in Client, WriteHead(c) PROVE  BasicInv'
  <2>0. currentRev < MaxRev
    BY <1>17 DEF WriteHead, LockInv, Committing, Storing
  <2>1. TypeOK'
    BY <1>s, <1>17, <2>0, TreeTypes, RepositoryAssumption DEF WriteHead, TypeOK, Goto, PC, InConn, Storing, Committing, NothingSaved, Revision, NewRev
  <2>2. LockInv'
    BY <1>17, RepositoryAssumption DEF WriteHead, TypeOK, LockInv, Goto, Committing, Storing
  <2>3. ArgInv'
    BY <1>17 DEF WriteHead, TypeOK, ArgInv, Goto
  <2> QED BY <2>1, <2>2, <2>3 DEF BasicInv
<1>18. ASSUME NEW c \in Client, Publish(c) PROVE  BasicInv'
  <2>0. currentRev < MaxRev
    BY <1>18 DEF Publish, LockInv, Committing, Storing
  <2>1. TypeOK'
    BY <1>s, <1>18, <2>0, TreeTypes, RepositoryAssumption DEF Publish, TypeOK, Goto, PC, InConn, Storing, Committing, NothingSaved, Revision, NewRev
  <2>2. LockInv'
    BY <1>18, RepositoryAssumption DEF Publish, TypeOK, LockInv, Goto, Committing, Storing
  <2>3. ArgInv'
    BY <1>18 DEF Publish, TypeOK, ArgInv, Goto
  <2> QED BY <2>1, <2>2, <2>3 DEF BasicInv
<1>19. ASSUME NEW c \in Client, PostCommit(c) PROVE  BasicInv'
  <2>1. TypeOK'
    BY <1>s, <1>19, TreeTypes, RepositoryAssumption DEF PostCommit, TypeOK, Goto, PC, InConn, Storing, Committing, NothingSaved, Revision, NewRev
  <2>2. LockInv'
    BY <1>19, RepositoryAssumption DEF PostCommit, TypeOK, LockInv, Goto, Committing, Storing
  <2>3. ArgInv'
    BY <1>19 DEF PostCommit, TypeOK, ArgInv, Goto
  <2> QED BY <2>1, <2>2, <2>3 DEF BasicInv
<1>20. ASSUME NEW c \in Client, Fail(c) PROVE  BasicInv'
  <2>1. TypeOK'
    BY <1>s, <1>20, TreeTypes, RepositoryAssumption DEF Fail, TypeOK, Goto, PC, InConn, Storing, Committing, NothingSaved, Revision, NewRev
  <2>2. LockInv'
    BY <1>20, RepositoryAssumption DEF Fail, TypeOK, LockInv, Goto, Committing, Storing
  <2>3. ArgInv'
    BY <1>20 DEF Fail, TypeOK, ArgInv, Goto
  <2> QED BY <2>1, <2>2, <2>3 DEF BasicInv
<1>21. ASSUME Crash PROVE  BasicInv'
  <2>0. live' \in Tree /\ pending' \in Delta
    BY <1>21 DEF Crash, TypeOK
  <2>1. TypeOK'
    <3>1. NothingSaved \in [live : Tree, pending : Delta]
      BY TreeTypes DEF NothingSaved
    <3>2. "idle" \in PC
      BY DEF PC
    <3>3. /\ pc' \in [Client -> PC]
          /\ arg' \in [Client -> [path : Path, entry : Entry \cup {NoEntry}] \cup {NoArg}]
      BY <1>21, <3>2 DEF Crash
    <3>4. currentRev' \in 0..MaxRev
      BY <1>21, RepositoryAssumption DEF Crash
    <3>5. saved' \in [live : Tree, pending : Delta]
      BY <1>21, <3>1 DEF Crash
    <3>6. root' \in Tree /\ changes' \in Delta
      BY <1>21, TreeTypes DEF Crash
    <3> QED BY <1>s, <1>21, <2>0, <3>3, <3>4, <3>5, <3>6 DEF Crash, TypeOK
  <2>2. LockInv'
    BY <1>21, RepositoryAssumption DEF Crash, TypeOK, LockInv, Goto, Committing, Storing
  <2>3. ArgInv'
    BY <1>21 DEF Crash, TypeOK, ArgInv, Goto
  <2> QED BY <2>1, <2>2, <2>3 DEF BasicInv
<1>22. ASSUME Open PROVE  BasicInv'
  <2>1. TypeOK'
    BY <1>s, <1>22, TreeTypes, RepositoryAssumption DEF Open, TypeOK, Goto, PC, InConn, Storing, Committing, NothingSaved, Revision, NewRev
  <2>2. LockInv'
    BY <1>22, RepositoryAssumption DEF Open, TypeOK, LockInv, Goto, Committing, Storing
  <2>3. ArgInv'
    BY <1>22 DEF Open, TypeOK, ArgInv, Goto
  <2> QED BY <2>1, <2>2, <2>3 DEF BasicInv
<1>23. ASSUME NEW p \in Path, NEW e \in Entry, PopulateRow(p, e) PROVE  BasicInv'
  <2>1. TypeOK'
    BY <1>s, <1>23, TreeTypes, RepositoryAssumption DEF PopulateRow, TypeOK, Goto, PC, InConn, Storing, Committing, NothingSaved, Revision, NewRev
  <2>2. LockInv'
    BY <1>23, RepositoryAssumption DEF PopulateRow, TypeOK, LockInv, Goto, Committing, Storing
  <2>3. ArgInv'
    BY <1>23 DEF PopulateRow, TypeOK, ArgInv, Goto
  <2> QED BY <2>1, <2>2, <2>3 DEF BasicInv
<1>24. ASSUME Initialized PROVE  BasicInv'
  <2>1. TypeOK'
    BY <1>s, <1>24, TreeTypes, RepositoryAssumption DEF Initialized, TypeOK, Goto, PC, InConn, Storing, Committing, NothingSaved, Revision, NewRev
  <2>2. LockInv'
    BY <1>24, RepositoryAssumption DEF Initialized, TypeOK, LockInv, Goto, Committing, Storing
  <2>3. ArgInv'
    BY <1>24 DEF Initialized, TypeOK, ArgInv, Goto
  <2> QED BY <2>1, <2>2, <2>3 DEF BasicInv
<1>25. CASE UNCHANGED vars
  BY <1>s, <1>25 DEF vars, TypeOK, LockInv, ArgInv
<1> QED
  BY <1>1, <1>2, <1>3, <1>4, <1>5, <1>6, <1>7, <1>8, <1>9, <1>10, <1>11, <1>12, <1>13,
     <1>14, <1>15, <1>16, <1>17, <1>18, <1>19, <1>20, <1>21, <1>22, <1>23, <1>24, <1>25
     DEF Next, Edit, Continue, Restart

(***************************************************************************)
(* Type correctness of the repository, whatever fails and whenever it      *)
(* crashes: in particular no revision number passes the bound and no       *)
(* client edits a row it does not know.                                    *)
(***************************************************************************)
THEOREM TypeCorrect == Spec => []TypeOK
<1>1. BasicInv => TypeOK
  BY DEF BasicInv
<1> QED BY <1>1, BasicInit, BasicStep, PTL DEF Spec

-----------------------------------------------------------------------------
(***************************************************************************)
(* Durability.  Most steps are quiet: they touch neither the files of the  *)
(* revisions nor the head, and move no client into or within the stages    *)
(* that store a commit.                                                    *)
(***************************************************************************)
Quiet ==
    /\ UNCHANGED <<commits, deltas, snapshots, headFile, currentRev, mode>>
    /\ phase' = "down" <=> phase = "down"
    /\ \A c \in Client :
          /\ pc'[c] \in Storing => pc'[c] = pc[c]
          /\ pc[c] \in {"write_head", "publish"} => pc'[c] = pc[c]

(***************************************************************************)
(* What a step must establish, next to BasicInv'.                          *)
(***************************************************************************)
DurableNext ==
    /\ HeadInv' /\ FilesInv' /\ RevisionsComplete'
    /\ HistoryStep

LEMMA QuietSteps ==
    ASSUME "torn_head" \notin Faults, BasicInv, NEW c \in Client,
           \/ \E p \in Path, e \in Entry : StoreObject(c, p, e)
           \/ \E p \in Path : RemoveEntry(c, p)
           \/ BeginBatch(c) \/ EndBatch(c)
           \/ InsertEntry(c) \/ LogUpsert(c) \/ RemoveChildren(c) \/ LogDelete(c)
           \/ CollectPending(c) \/ PreCommitRejects(c) \/ PostCommit(c) \/ Fail(c)
    PROVE  Quiet
<1> USE DEF Quiet, BasicInv, TypeOK, Goto, Storing, disk, db, memory, commitLocals
<1>1. ASSUME NEW p \in Path, NEW e \in Entry, StoreObject(c, p, e) PROVE Quiet
  BY <1>1 DEF StoreObject
<1>2. ASSUME NEW p \in Path, RemoveEntry(c, p) PROVE Quiet
  BY <1>2 DEF RemoveEntry
<1>3. CASE BeginBatch(c) \/ EndBatch(c)
  BY <1>3 DEF BeginBatch, EndBatch
<1>4. CASE InsertEntry(c) \/ LogUpsert(c)
  BY <1>4 DEF InsertEntry, LogUpsert
<1>5. CASE RemoveChildren(c) \/ LogDelete(c)
  BY <1>5 DEF RemoveChildren, LogDelete
<1>6. CASE CollectPending(c)
  BY <1>6 DEF CollectPending
<1>7. CASE PreCommitRejects(c) \/ PostCommit(c)
  BY <1>7 DEF PreCommitRejects, PostCommit
<1>8. CASE Fail(c)
  BY <1>8 DEF Fail
<1> QED BY <1>1, <1>2, <1>3, <1>4, <1>5, <1>6, <1>7, <1>8

LEMMA QuietIsDurable ==
    ASSUME DurableInv, Quiet
    PROVE  DurableNext
<1> USE DEF DurableInv, BasicInv, Quiet
<1>1. HeadRev' = HeadRev /\ NewRev' = NewRev /\ SnapshotDue' = SnapshotDue
  BY DEF HeadRev, NewRev, SnapshotDue
<1>2. HeadInv'
  BY <1>1 DEF HeadInv, Storing
<1>3. FilesInv'
  <2> SUFFICES ASSUME NEW c \in Client PROVE FilesInv!(c)'
    BY DEF FilesInv
  <2>1. CASE pc'[c] \in Storing
    BY <2>1, <1>1 DEF FilesInv
  <2>2. CASE pc'[c] \notin Storing
    BY <2>2 DEF Storing
  <2> QED BY <2>1, <2>2
<1>4. RevisionsComplete'
  BY <1>1 DEF RevisionsComplete
<1>5. HistoryStep
  <2>1. HeadRev \in Int
    BY RepositoryAssumption DEF HeadRev, TypeOK
  <2> QED BY <1>1, <2>1 DEF HistoryStep
<1> QED BY <1>2, <1>3, <1>4, <1>5 DEF DurableNext

(***************************************************************************)
(* A client inside a commit is alone there, and the revision it stores is  *)
(* the one after the head until save_head is done.                         *)
(***************************************************************************)
LEMMA Committer ==
    ASSUME DurableInv, NEW c \in Client, pc[c] \in Committing
    PROVE  /\ \A d \in Client : d # c => pc[d] \notin Committing /\ pc[d] \notin Storing
           /\ phase = "up"
           /\ currentRev \in Nat /\ NewRev \in Nat
           /\ pc[c] # "post_hook" => NewRev \in Revision
           /\ pc[c] # "publish" => HeadRev = currentRev
<1> USE DEF DurableInv, BasicInv
<1>1. \A d \in Client : d # c => pc[d] \notin Committing /\ pc[d] \notin Storing
  BY DEF LockInv, Committing
<1>2. phase = "up"
  BY DEF LockInv, TypeOK, Committing, Storing
<1>3. currentRev \in Nat /\ NewRev \in Nat /\ currentRev \in 0..MaxRev
  BY RepositoryAssumption DEF TypeOK, NewRev
<1>4. ASSUME pc[c] # "post_hook" PROVE NewRev \in Revision
  BY <1>3, <1>4, RepositoryAssumption DEF LockInv, NewRev, Revision
<1>5. ASSUME pc[c] # "publish" PROVE HeadRev = currentRev
  BY <1>1, <1>2, <1>5 DEF HeadInv, HeadRev, Storing, Committing
<1> QED BY <1>1, <1>2, <1>3, <1>4, <1>5

LEMMA AcquireIsDurable ==
    ASSUME DurableInv, NEW c \in Client, NEW m \in Modes, AcquireCommitLock(c, m)
    PROVE  DurableNext
<1> USE DEF DurableInv, BasicInv, AcquireCommitLock, disk, memory
<1>1. \A d \in Client : pc[d] \notin Committing
  BY RepositoryAssumption DEF LockInv
<1>2. \A d \in Client : pc'[d] \notin Storing
  BY <1>1 DEF Goto, TypeOK, Storing, Committing
<1>3. HeadRev' = HeadRev /\ NewRev' = NewRev
  BY DEF HeadRev, NewRev
<1>4. HeadInv'
  BY <1>1, <1>2, <1>3 DEF HeadInv, Storing, Committing
<1>5. FilesInv'
  BY <1>2 DEF FilesInv, Storing
<1>6. RevisionsComplete' /\ HistoryStep
  <2>1. HeadRev \in Int
    BY RepositoryAssumption DEF HeadRev, TypeOK
  <2> QED BY <1>3, <2>1 DEF RevisionsComplete, HistoryStep
<1> QED BY <1>4, <1>5, <1>6 DEF DurableNext

LEMMA AcceptIsDurable ==
    ASSUME DurableInv, NEW c \in Client, PreCommitAccepts(c)
    PROVE  DurableNext
<1> USE DEF DurableInv, BasicInv, PreCommitAccepts, disk, memory
<1>1. pc[c] \in Committing
  BY DEF Committing
<1>2. HeadRev' = HeadRev /\ NewRev' = NewRev /\ SnapshotDue' = SnapshotDue
  BY DEF HeadRev, NewRev, SnapshotDue
<1>3. \A d \in Client : d # c => pc'[d] = pc[d] /\ pc[d] \notin Storing
  BY <1>1, Committer DEF Goto, TypeOK
<1>4. pc'[c] \in {"store_snapshot", "store_commit"}
      /\ (pc'[c] = "store_snapshot" => mode = "sync" /\ SnapshotDue)
      /\ (pc'[c] = "store_commit" => ~(mode = "sync" /\ SnapshotDue))
  BY DEF Goto, TypeOK
<1>5. HeadInv'
  BY <1>2, <1>3, <1>4 DEF HeadInv, Storing
<1>6. FilesInv'
  <2> SUFFICES ASSUME NEW d \in Client PROVE FilesInv!(d)'
    BY DEF FilesInv
  <2>1. CASE d = c
    BY <2>1, <1>2, <1>4
  <2>2. CASE d # c
    BY <2>2, <1>3 DEF Storing
  <2> QED BY <2>1, <2>2
<1>7. RevisionsComplete' /\ HistoryStep
  <2>1. HeadRev \in Int
    BY RepositoryAssumption DEF HeadRev, TypeOK
  <2> QED BY <1>2, <2>1 DEF RevisionsComplete, HistoryStep
<1> QED BY <1>5, <1>6, <1>7 DEF DurableNext

(***************************************************************************)
(* The three file writes go to the revision after the head.                *)
(***************************************************************************)
LEMMA StoreIsDurable ==
    ASSUME DurableInv, NEW c \in Client,
           StoreCommit(c) \/ StoreDelta(c) \/ StoreSnapshot(c)
    PROVE  DurableNext
<1> USE DEF DurableInv, BasicInv
<1>1. pc[c] \in {"store_commit", "store_delta", "store_snapshot"}
  BY DEF StoreCommit, StoreDelta, StoreSnapshot
<1>2. /\ pc[c] \in Committing
      /\ \A d \in Client : d # c => pc[d] \notin Storing
      /\ NewRev \in Revision /\ HeadRev = currentRev /\ currentRev \in Nat
  BY <1>1, Committer DEF Committing, Storing
<1>3. /\ UNCHANGED <<headFile, currentRev, mode, phase>>
      /\ HeadRev' = HeadRev /\ NewRev' = NewRev /\ SnapshotDue' = SnapshotDue
      /\ \A d \in Client : d # c => pc'[d] = pc[d]
  BY DEF StoreCommit, StoreDelta, StoreSnapshot, Goto, TypeOK, HeadRev, NewRev, SnapshotDue,
         memory, commitLocals
<1>4. root # NoTree /\ DeltaId # NoTree /\ changes # NoDelta
  BY RepositoryAssumption DEF TypeOK
<1>5. /\ StoreCommit(c) => /\ commits'[NewRev] # NoTree
                           /\ UNCHANGED <<deltas, snapshots>>
                           /\ \A r \in Revision : r # NewRev => commits'[r] = commits[r]
      /\ StoreDelta(c) => /\ deltas'[NewRev] # NoDelta
                          /\ UNCHANGED <<commits, snapshots>>
                          /\ \A r \in Revision : r # NewRev => deltas'[r] = deltas[r]
      /\ StoreSnapshot(c) => /\ snapshots'[NewRev] # NoTree
                             /\ UNCHANGED <<commits, deltas>>
                             /\ \A r \in Revision : r # NewRev => snapshots'[r] = snapshots[r]
  BY <1>2, <1>4 DEF StoreCommit, StoreDelta, StoreSnapshot, TypeOK
<1>6. pc'[c] \in {"store_delta", "store_snapshot", "store_commit", "truncate_head"}
  BY DEF StoreCommit, StoreDelta, StoreSnapshot, Goto, TypeOK
<1>7. HeadInv'
  BY <1>1, <1>2, <1>3, <1>6 DEF HeadInv, Storing
<1>8. FilesInv'
  <2> SUFFICES ASSUME NEW d \in Client PROVE FilesInv!(d)'
    BY DEF FilesInv
  <2>1. CASE d # c
    BY <2>1, <1>2, <1>3 DEF Storing
  <2>2. CASE d = c /\ StoreCommit(c)
    <3>1. pc[c] = "store_commit" /\ pc'[c] = "store_delta"
      BY <2>2 DEF StoreCommit, Goto, TypeOK
    <3> QED BY <2>2, <3>1, <1>3, <1>5 DEF FilesInv
  <2>3. CASE d = c /\ StoreDelta(c)
    <3>1. pc[c] = "store_delta" /\ pc'[c] = IF mode = "async" /\ SnapshotDue THEN "store_snapshot" ELSE "truncate_head"
      BY <2>3 DEF StoreDelta, Goto, TypeOK
    <3> QED BY <2>3, <3>1, <1>3, <1>5 DEF FilesInv, TypeOK
  <2>4. CASE d = c /\ StoreSnapshot(c)
    <3>1. pc[c] = "store_snapshot" /\ pc'[c] = IF mode = "sync" THEN "store_commit" ELSE "truncate_head"
      BY <2>4 DEF StoreSnapshot, Goto, TypeOK
    <3> QED BY <2>4, <3>1, <1>3, <1>5 DEF FilesInv, TypeOK
  <2> QED BY <2>1, <2>2, <2>3, <2>4
<1>9. \A r \in 1..HeadRev : r \in Revision /\ r # NewRev
  BY <1>2, RepositoryAssumption DEF NewRev, Revision
<1>10. RevisionsComplete' /\ HistoryStep
  BY <1>2, <1>3, <1>5, <1>9 DEF RevisionsComplete, HistoryStep
<1> QED BY <1>7, <1>8, <1>10 DEF DurableNext

(***************************************************************************)
(* save_head publishes a complete revision; current_rev follows.           *)
(***************************************************************************)
LEMMA SaveHeadIsDurable ==
    ASSUME DurableInv, NEW c \in Client,
           TruncateHead(c) \/ WriteHead(c) \/ Publish(c)
    PROVE  DurableNext
<1> USE DEF DurableInv, BasicInv
<1>1. pc[c] \in {"truncate_head", "write_head", "publish"}
  BY DEF TruncateHead, WriteHead, Publish
<1>2. /\ pc[c] \in Committing /\ phase = "up"
      /\ \A d \in Client : d # c => pc[d] \notin Storing
      /\ NewRev \in Revision /\ NewRev \in Nat /\ currentRev \in Nat
  BY <1>1, Committer DEF Committing, Storing
<1>3. /\ UNCHANGED <<commits, deltas, snapshots, mode, phase>>
      /\ \A d \in Client : d # c => pc'[d] = pc[d]
  BY DEF TruncateHead, WriteHead, Publish, Goto, TypeOK, disk, memory, commitLocals
<1>4. /\ commits[NewRev] # NoTree /\ deltas[NewRev] # NoDelta
      /\ SnapshotDue => snapshots[NewRev] # NoTree
  BY <1>1 DEF FilesInv
<1>5. CASE TruncateHead(c)
  <2>1. /\ pc[c] = "truncate_head" /\ pc'[c] = "write_head" /\ headFile' = Torn
        /\ currentRev' = currentRev /\ HeadRev = currentRev /\ HeadRev' = currentRev
        /\ NewRev' = NewRev /\ SnapshotDue' = SnapshotDue
    BY <1>5, <1>2, Committer DEF TruncateHead, Goto, TypeOK, memory, HeadRev, NewRev, SnapshotDue
  <2>2. HeadInv'
    BY <2>1 DEF HeadInv
  <2>3. FilesInv'
    BY <2>1, <1>2, <1>3, <1>4 DEF FilesInv, Storing
  <2>4. RevisionsComplete' /\ HistoryStep
    BY <2>1, <1>2, <1>3 DEF RevisionsComplete, HistoryStep
  <2> QED BY <2>2, <2>3, <2>4 DEF DurableNext
<1>6. CASE WriteHead(c)
  <2>1. /\ pc[c] = "write_head" /\ pc'[c] = "publish" /\ headFile' = NewRev
        /\ currentRev' = currentRev /\ HeadRev = currentRev
        /\ NewRev' = NewRev /\ SnapshotDue' = SnapshotDue
    BY <1>6, <1>2, Committer DEF WriteHead, Goto, TypeOK, memory, NewRev, SnapshotDue
  <2>2. HeadRev' = NewRev /\ headFile' # Torn
    BY <2>1, <1>2, RepositoryAssumption DEF HeadRev
  <2>3. HeadInv'
    BY <2>1, <2>2, <1>2, <1>3 DEF HeadInv, Storing
  <2>4. FilesInv'
    BY <2>1, <1>2, <1>3, <1>4 DEF FilesInv, Storing
  <2>5. HistoryStep
    BY <2>1, <2>2, <1>2, <1>3 DEF HistoryStep, NewRev
  <2>6. RevisionsComplete'
    <3> SUFFICES ASSUME NEW r \in 1..NewRev PROVE RevisionsComplete!(r)'
      BY <2>2 DEF RevisionsComplete
    <3>1. r \in 1..HeadRev \/ r = NewRev
      BY <2>1, <1>2 DEF NewRev
    <3> QED BY <3>1, <1>3, <1>4 DEF RevisionsComplete, SnapshotDue
  <2> QED BY <2>3, <2>4, <2>5, <2>6 DEF DurableNext
<1>7. CASE Publish(c)
  <2>1. /\ pc[c] = "publish" /\ pc'[c] = "post_hook" /\ headFile' = headFile
        /\ currentRev' = NewRev
    BY <1>7 DEF Publish, Goto, TypeOK, disk
  <2>2. headFile # Torn /\ headFile = NewRev
    BY <2>1, <1>2 DEF HeadInv, Storing
  <2>3. HeadRev = NewRev /\ HeadRev' = NewRev
    BY <2>1, <2>2 DEF HeadRev
  <2>4. HeadInv'
    BY <2>1, <2>2, <1>2, <1>3 DEF HeadInv, Storing
  <2>5. FilesInv'
    BY <2>1, <1>2, <1>3 DEF FilesInv, Storing
  <2>6. RevisionsComplete' /\ HistoryStep
    BY <2>3, <1>2, <1>3 DEF RevisionsComplete, HistoryStep
  <2> QED BY <2>4, <2>5, <2>6 DEF DurableNext
<1> QED BY <1>5, <1>6, <1>7

(***************************************************************************)
(* A crash leaves the files alone, and a restart reads the head back.      *)
(***************************************************************************)
LEMMA RestartIsDurable ==
    ASSUME "torn_head" \notin Faults, DurableInv, Crash \/ Restart
    PROVE  DurableNext
<1> USE DEF DurableInv, BasicInv
<1>0. HeadRev \in Int
  BY RepositoryAssumption DEF HeadRev, TypeOK
<1>1. CASE Crash
  <2>1. /\ UNCHANGED <<commits, deltas, snapshots, headFile>>
        /\ headFile # Torn /\ phase' = "down"
        /\ \A c \in Client : pc'[c] = "idle"
    BY <1>1 DEF Crash, disk
  <2>2. HeadRev' = HeadRev
    BY <2>1 DEF HeadRev
  <2> QED BY <2>1, <2>2, <1>0
         DEF DurableNext, HeadInv, FilesInv, RevisionsComplete, HistoryStep
<1>2. CASE Open
  <2>1. /\ UNCHANGED <<commits, deltas, snapshots, headFile, pc>>
        /\ \A c \in Client : pc[c] = "idle"
    BY <1>2 DEF Open, disk, LockInv
  <2>2. headFile # Torn
    BY <2>1 DEF HeadInv
  <2>3. HeadRev' = HeadRev /\ currentRev' = headFile
    BY <1>2, <2>1, <2>2 DEF HeadRev, Open
  <2> QED BY <2>1, <2>2, <2>3, <1>0
         DEF DurableNext, HeadInv, FilesInv, RevisionsComplete, HistoryStep
<1>3. ASSUME NEW p \in Path, NEW e \in Entry, PopulateRow(p, e) PROVE DurableNext
  <2>1. Quiet
    BY <1>3 DEF PopulateRow, Quiet, disk, memory, commitLocals
  <2> QED BY <2>1, QuietIsDurable
<1>4. CASE Initialized
  <2>1. Quiet
    BY <1>4 DEF Initialized, Quiet, disk, commitLocals
  <2> QED BY <2>1, QuietIsDurable
<1> QED BY <1>1, <1>2, <1>3, <1>4 DEF Restart

LEMMA DurableInit == Init => DurableInv
<1> SUFFICES ASSUME Init PROVE DurableInv
  OBVIOUS
<1>1. HeadRev = 0
  BY RepositoryAssumption DEF Init, HeadRev
<1>2. HeadInv
  BY RepositoryAssumption DEF Init, HeadInv
<1>3. FilesInv
  BY DEF Init, FilesInv
<1>4. RevisionsComplete
  BY <1>1 DEF RevisionsComplete
<1> QED BY <1>2, <1>3, <1>4, BasicInit DEF DurableInv

LEMMA DurableStep ==
    ASSUME "torn_head" \notin Faults
    PROVE  DurableInv /\ [Next]_vars => DurableInv' /\ [HistoryStep]_vars
<1> SUFFICES ASSUME DurableInv, [Next]_vars PROVE DurableInv' /\ [HistoryStep]_vars
  OBVIOUS
<1>1. BasicInv'
  BY BasicStep DEF DurableInv
<1>2. CASE UNCHANGED vars
  <2>1. Quiet
    BY <1>2 DEF vars, Quiet, disk, memory, commitLocals
  <2> QED BY <1>1, <2>1, QuietIsDurable DEF DurableNext, DurableInv
<1>3. CASE Next
  <2>1. DurableNext
    BY <1>3, QuietSteps, QuietIsDurable, AcquireIsDurable, AcceptIsDurable, StoreIsDurable,
       SaveHeadIsDurable, RestartIsDurable DEF Next, Edit, Continue, DurableInv
  <2> QED BY <1>1, <2>1 DEF DurableNext, DurableInv
<1> QED BY <1>2, <1>3

(***************************************************************************)
(* Unless refs/head is torn, every published revision keeps its commit,    *)
(* delta and snapshot files through any rejection, failed write, crash and *)
(* restart: they are written before save_head.                             *)
(***************************************************************************)
THEOREM CompleteHistory ==
    ASSUME "torn_head" \notin Faults
    PROVE  Spec => []RevisionsComplete
<1>1. DurableInv => RevisionsComplete
  BY DEF DurableInv
<1>2. DurableInv /\ [Next]_vars => DurableInv'
  BY DurableStep
<1> QED BY <1>1, <1>2, DurableInit, PTL DEF Spec

(***************************************************************************)
(* Unless refs/head is torn, history is append-only: no commit, failure,   *)
(* crash or restart moves the head back or rewrites a published revision.  *)
(***************************************************************************)
THEOREM AppendOnlyHistory ==
    ASSUME "torn_head" \notin Faults
    PROVE  Spec => HistoryImmutable
<1>1. DurableInv /\ [Next]_vars => DurableInv' /\ [HistoryStep]_vars
  BY DurableStep
<1> QED BY <1>1, DurableInit, PTL DEF Spec, HistoryImmutable

-----------------------------------------------------------------------------
(***************************************************************************)
(* Objects.  Objects are only ever added, so it is enough that every entry *)
(* the working tree, a rollback of it, the pending changes, an edit or a   *)
(* commit in progress, and the files hold has its object.  This needs no   *)
(* assumption on what fails.                                               *)
(***************************************************************************)
Kept(t) == TreeObjects(t) \subseteq objects
KeptDelta(d) == DeltaObjects(d) \subseteq objects

(***************************************************************************)
(* A revision at or below any head that can be read has its delta, so that *)
(* initialize never fills the table from anything but deltas and           *)
(* snapshots.                                                              *)
(***************************************************************************)
DeltasInv ==
    /\ \A r \in 1..currentRev : deltas[r] # NoDelta
    /\ headFile # Torn => \A r \in 1..headFile : deltas[r] # NoDelta
    /\ \A c \in Client :
          \/ pc[c] \in {"truncate_head", "write_head", "publish"}
          \/ pc[c] = "store_snapshot" /\ mode = "async"
          => deltas[NewRev] # NoDelta
    /\ phase = "populating" /\ headFile # Torn => currentRev = headFile

EntriesInv ==
    /\ Kept(live) /\ Kept(root) /\ Kept(saved.live)
    /\ KeptDelta(pending) /\ KeptDelta(changes) /\ KeptDelta(saved.pending)
    /\ \A c \in Client : pc[c] \in {"insert", "log_upsert"} => arg[c].entry \in objects

StoredInv ==
    \A r \in Revision :
        /\ deltas[r] # NoDelta => KeptDelta(deltas[r])
        /\ snapshots[r] # NoTree => Kept(snapshots[r])

ObjectInv == BasicInv /\ DeltasInv /\ EntriesInv /\ StoredInv

(***************************************************************************)
(* What the statements add to the objects a tree or a delta names.         *)
(***************************************************************************)
LEMMA NamedObjects ==
    /\ TreeObjects(EmptyTree) = {} /\ DeltaObjects(EmptyDelta) = {}
    /\ \A t \in Tree, p \in Path, e \in Entry :
          TreeObjects(UpsertRow(t, p, e)) \subseteq TreeObjects(t) \cup {e}
    /\ \A t \in Tree, p \in Path :
          /\ TreeObjects(DeleteRow(t, p)) \subseteq TreeObjects(t)
          /\ TreeObjects(DeleteLike(t, p)) \subseteq TreeObjects(t)
    /\ \A d \in Delta, p \in Path, e \in Entry :
          DeltaObjects([d EXCEPT ![p] = e]) \subseteq DeltaObjects(d) \cup {e}
    /\ \A d \in Delta, p \in Path :
          DeltaObjects([d EXCEPT ![p] = Delete]) \subseteq DeltaObjects(d)
<1> USE MarkerAssumption DEF Tree, Delta, TreeObjects, DeltaObjects
<1>1. TreeObjects(EmptyTree) = {} /\ DeltaObjects(EmptyDelta) = {}
  BY DEF EmptyTree, EmptyDelta
<1>2. ASSUME NEW t \in Tree, NEW p \in Path, NEW e \in Entry
      PROVE  TreeObjects(UpsertRow(t, p, e)) \subseteq TreeObjects(t) \cup {e}
  BY DEF UpsertRow
<1>3. ASSUME NEW t \in Tree, NEW p \in Path
      PROVE  TreeObjects(DeleteRow(t, p)) \subseteq TreeObjects(t)
  BY DEF DeleteRow
<1>4. ASSUME NEW t \in Tree, NEW p \in Path
      PROVE  TreeObjects(DeleteLike(t, p)) \subseteq TreeObjects(t)
  BY DEF DeleteLike
<1>5. ASSUME NEW d \in Delta, NEW p \in Path, NEW e \in Entry
      PROVE  DeltaObjects([d EXCEPT ![p] = e]) \subseteq DeltaObjects(d) \cup {e}
  OBVIOUS
<1>6. ASSUME NEW d \in Delta, NEW p \in Path
      PROVE  DeltaObjects([d EXCEPT ![p] = Delete]) \subseteq DeltaObjects(d)
  OBVIOUS
<1> QED BY <1>1, <1>2, <1>3, <1>4, <1>5, <1>6

(***************************************************************************)
(* One revision of get_tree_at_rev: what its files say, on top of the      *)
(* parent's tree.                                                          *)
(***************************************************************************)
ReadFiles(parent, r) ==
    IF r = 0 THEN EmptyTree
    ELSE IF snapshots[r] # NoTree THEN snapshots[r]
    ELSE IF deltas[r] # NoDelta THEN ApplyDelta(parent, deltas[r])
    ELSE commits[r]

LEMMA LeastElement ==
    ASSUME NEW T, T \subseteq Nat, T # {}
    PROVE  \E x \in T : \A y \in T : ~(y < x)
<1>1. PICK x \in T : \A y \in T : ~(<<y, x>> \in OpToRel(<, Nat))
  BY WFMin, NatLessThanWellFounded
<1> QED BY <1>1 DEF OpToRel

(***************************************************************************)
(* The recursion of get_tree_at_rev is well defined: a function that obeys *)
(* it up to a revision extends to the next one.                            *)
(***************************************************************************)
LEMMA TreeEquation ==
    ASSUME HeadRev \in Nat
    PROVE  TreeAtRev = [r \in 0..HeadRev |-> ReadFiles(TreeAtRev[r - 1], r)]
<1> DEFINE Solves(f, n) == f = [r \in 0..n |-> ReadFiles(f[r - 1], r)]
           Unsolved == {n \in Nat : ~\E f : Solves(f, n)}
<1>1. Unsolved = {}
  <2> SUFFICES ASSUME Unsolved # {} PROVE FALSE
    OBVIOUS
  <2>0. Unsolved \subseteq Nat
    OBVIOUS
  <2> HIDE DEF Unsolved
  <2>1. PICK m \in Unsolved : \A k \in Unsolved : ~(k < m)
    BY <2>0, LeastElement
  <2>2. m \in Nat /\ ~\E f : Solves(f, m)
    BY <2>1 DEF Unsolved
  <2>3. CASE m = 0
    <3> DEFINE f == [r \in 0..0 |-> EmptyTree]
    <3>1. Solves(f, 0)
      BY DEF ReadFiles
    <3> QED BY <3>1, <2>2, <2>3
  <2>4. CASE m # 0
    <3>1. m - 1 \in Nat /\ m - 1 < m
      BY <2>2, <2>4
    <3>2. m - 1 \notin Unsolved
      BY <3>1, <2>1
    <3>3. PICK f : Solves(f, m - 1)
      BY <3>1, <3>2 DEF Unsolved
    <3> DEFINE g == [r \in 0..m |-> IF r = m THEN ReadFiles(f[m - 1], m) ELSE f[r]]
    <3>4. \A r \in 0..m : g[r] = ReadFiles(g[r - 1], r)
      <4> SUFFICES ASSUME NEW r \in 0..m PROVE g[r] = ReadFiles(g[r - 1], r)
        OBVIOUS
      <4>1. CASE r = 0
        <5>1. r \in 0..(m - 1) /\ r # m
          BY <4>1, <3>1
        <5>2. g[r] = f[r] /\ f[r] = ReadFiles(f[r - 1], r)
          BY <5>1, <3>3
        <5> QED BY <4>1, <5>2 DEF ReadFiles
      <4>2. CASE r # 0
        <5>1. r - 1 \in 0..m /\ r - 1 # m
          BY <4>2, <2>2
        <5>2. g[r - 1] = f[r - 1]
          BY <5>1
        <5>3. CASE r = m
          BY <5>2, <5>3
        <5>4. CASE r # m
          <6>1. r \in 0..(m - 1)
            BY <5>4, <2>2
          <6>2. g[r] = f[r] /\ f[r] = ReadFiles(f[r - 1], r)
            BY <6>1, <5>4, <3>3
          <6> QED BY <6>2, <5>2
        <5> QED BY <5>3, <5>4
      <4> QED BY <4>1, <4>2
    <3>5. Solves(g, m)
      BY <3>4
    <3> QED BY <3>5, <2>2
  <2> QED BY <2>3, <2>4
<1>2. PICK f : Solves(f, HeadRev)
  BY <1>1
<1> DEFINE Body(h, r) == 
             IF r = 0 THEN EmptyTree
             ELSE IF snapshots[r] # NoTree THEN snapshots[r]
             ELSE IF deltas[r] # NoDelta THEN ApplyDelta(h[r - 1], deltas[r])
             ELSE commits[r]
<1>3. f = [r \in 0..HeadRev |-> Body(f, r)]
  BY <1>2 DEF ReadFiles
<1>4. TreeAtRev = [r \in 0..HeadRev |-> Body(TreeAtRev, r)]
  BY <1>3 DEF TreeAtRev
<1> QED BY <1>4 DEF ReadFiles

(***************************************************************************)
(* What initialize fills the table from has its objects.                   *)
(***************************************************************************)
LEMMA PopulatedIsKept ==
    ASSUME ObjectInv, phase = "populating", NEW p \in Path, NEW e \in Entry,
           TreeAtRev[currentRev][p] = e
    PROVE  e \in objects
<1> USE DEF ObjectInv, BasicInv
<1>1. HeadRev \in Nat /\ HeadRev = currentRev /\ HeadRev <= MaxRev
  BY RepositoryAssumption DEF HeadRev, TypeOK, DeltasInv
<1>2. TreeAtRev = [r \in 0..HeadRev |-> ReadFiles(TreeAtRev[r - 1], r)]
  BY <1>1, TreeEquation
<1> DEFINE Bad == {r \in 0..HeadRev : ~(\A q \in Path : TreeAtRev[r][q] \in Entry => TreeAtRev[r][q] \in objects)}
<1> SUFFICES ASSUME e \notin objects PROVE FALSE
  OBVIOUS
<1>3. Bad \subseteq Nat /\ Bad # {}
  BY <1>1
<1> HIDE DEF Bad
<1>4. PICK m \in Bad : \A k \in Bad : ~(k < m)
  BY <1>3, LeastElement
<1>5. m \in 0..HeadRev /\ ~(\A q \in Path : TreeAtRev[m][q] \in Entry => TreeAtRev[m][q] \in objects)
  BY <1>4 DEF Bad
<1>6. PICK q \in Path : TreeAtRev[m][q] \in Entry /\ TreeAtRev[m][q] \notin objects
  BY <1>5
<1>7. TreeAtRev[m] = ReadFiles(TreeAtRev[m - 1], m)
  BY <1>2, <1>5
<1>8. m # 0
  BY <1>6, <1>7, MarkerAssumption DEF ReadFiles, EmptyTree
<1>9. m \in 1..HeadRev /\ m \in 1..currentRev /\ m \in Revision /\ m - 1 \in 0..HeadRev /\ m - 1 < m
  BY <1>1, <1>5, <1>8, RepositoryAssumption DEF Revision
<1>10. TreeAtRev[m - 1][q] \in Entry => TreeAtRev[m - 1][q] \in objects
  BY <1>9, <1>4 DEF Bad
<1>11. deltas[m] # NoDelta
  BY <1>9 DEF DeltasInv
<1>12. snapshots[m] = NoTree
  BY <1>6, <1>7, <1>8, <1>9 DEF ReadFiles, StoredInv, Kept, TreeObjects
<1>13. TreeAtRev[m] = ApplyDelta(TreeAtRev[m - 1], deltas[m])
  BY <1>7, <1>8, <1>11, <1>12 DEF ReadFiles
<1>14. DeltaObjects(deltas[m]) \subseteq objects
  BY <1>9, <1>11 DEF StoredInv, KeptDelta
<1> HIDE DEF ObjectInv, BasicInv
<1>15. TreeAtRev[m][q] = deltas[m][q] \/ TreeAtRev[m][q] = NoEntry \/ TreeAtRev[m][q] = TreeAtRev[m - 1][q]
  BY <1>13 DEF ApplyDelta
<1> QED BY <1>6, <1>10, <1>14, <1>15, MarkerAssumption DEF DeltaObjects

(***************************************************************************)
(* A step that only adds objects keeps what the files name, unless it      *)
(* writes one.                                                             *)
(***************************************************************************)
LEMMA FilesKept ==
    ASSUME StoredInv, objects \subseteq objects', UNCHANGED <<deltas, snapshots>>
    PROVE  StoredInv'
BY DEF StoredInv, Kept, KeptDelta

(***************************************************************************)
(* An edit stores the object before the row that names it.                 *)
(***************************************************************************)
LEMMA EditKeepsObjects ==
    ASSUME ObjectInv, NEW c \in Client,
           \/ \E p \in Path, e \in Entry : StoreObject(c, p, e)
           \/ \E p \in Path : RemoveEntry(c, p)
           \/ BeginBatch(c) \/ EndBatch(c)
           \/ InsertEntry(c) \/ LogUpsert(c) \/ RemoveChildren(c) \/ LogDelete(c)
    PROVE  EntriesInv' /\ StoredInv'
<1> USE DEF ObjectInv, BasicInv, disk, db, memory, commitLocals
<1>1. ASSUME NEW p \in Path, NEW e \in Entry, StoreObject(c, p, e) PROVE EntriesInv' /\ StoredInv'
  <2>1. objects \subseteq objects' /\ UNCHANGED <<deltas, snapshots>>
    BY <1>1 DEF StoreObject
  <2>2. /\ Kept(live)' /\ Kept(root)' /\ Kept(saved.live)'
        /\ KeptDelta(pending)' /\ KeptDelta(changes)' /\ KeptDelta(saved.pending)'
    BY <1>1, <2>1 DEF StoreObject, EntriesInv, Kept, KeptDelta
  <2>3. \A d \in Client : pc'[d] \in {"insert", "log_upsert"} => arg'[d].entry \in objects'
    BY <1>1 DEF StoreObject, EntriesInv, TypeOK, Goto
  <2> QED BY <2>1, <2>2, <2>3, FilesKept DEF EntriesInv
<1>2. ASSUME NEW p \in Path, RemoveEntry(c, p) PROVE EntriesInv' /\ StoredInv'
  <2>1. objects' = objects /\ UNCHANGED <<deltas, snapshots>>
    BY <1>2 DEF RemoveEntry
  <2>2. TreeObjects(live') \subseteq TreeObjects(live)
    BY <1>2, NamedObjects DEF RemoveEntry, TypeOK
  <2>3. /\ Kept(live)' /\ Kept(root)' /\ Kept(saved.live)'
        /\ KeptDelta(pending)' /\ KeptDelta(changes)' /\ KeptDelta(saved.pending)'
    BY <1>2, <2>1, <2>2 DEF RemoveEntry, EntriesInv, Kept, KeptDelta
  <2>4. \A d \in Client : pc'[d] \in {"insert", "log_upsert"} => arg'[d].entry \in objects'
    BY <1>2, <2>1 DEF RemoveEntry, EntriesInv, TypeOK, Goto
  <2> QED BY <2>1, <2>3, <2>4, FilesKept DEF EntriesInv
<1>3. CASE BeginBatch(c) \/ EndBatch(c)
  <2>1. objects' = objects /\ UNCHANGED <<deltas, snapshots, live, pending, root, changes, pc, arg>>
    BY <1>3 DEF BeginBatch, EndBatch
  <2>2. \/ saved'.live = live /\ saved'.pending = pending
        \/ saved'.live = EmptyTree /\ saved'.pending = EmptyDelta
    BY <1>3 DEF BeginBatch, EndBatch, NothingSaved
  <2> QED BY <2>1, <2>2, NamedObjects, FilesKept DEF EntriesInv, Kept, KeptDelta
<1>4. CASE InsertEntry(c) \/ RemoveChildren(c)
  <2>1. objects' = objects /\ UNCHANGED <<deltas, snapshots, saved, pending, root, changes, arg>>
    BY <1>4 DEF InsertEntry, RemoveChildren
  <2>2. TreeObjects(live') \subseteq objects
    <3>1. CASE InsertEntry(c)
      <4>1. arg[c].path \in Path /\ arg[c].entry \in Entry /\ arg[c].entry \in objects
        BY <3>1 DEF InsertEntry, ArgInv, EntriesInv
      <4> QED BY <3>1, <4>1, NamedObjects DEF InsertEntry, TypeOK, EntriesInv, Kept
    <3>2. CASE RemoveChildren(c)
      <4>1. arg[c].path \in Path
        BY <3>2 DEF RemoveChildren, ArgInv
      <4> QED BY <3>2, <4>1, NamedObjects DEF RemoveChildren, TypeOK, EntriesInv, Kept
    <3> QED BY <1>4, <3>1, <3>2
  <2>3. \A d \in Client : pc'[d] \in {"insert", "log_upsert"} => pc[d] \in {"insert", "log_upsert"}
    BY <1>4 DEF InsertEntry, RemoveChildren, TypeOK, Goto
  <2> QED BY <2>1, <2>2, <2>3, FilesKept DEF EntriesInv, Kept, KeptDelta
<1>5. CASE LogUpsert(c) \/ LogDelete(c)
  <2>1. objects' = objects /\ UNCHANGED <<deltas, snapshots, saved, live, root, changes>>
    BY <1>5 DEF LogUpsert, LogDelete
  <2>2. DeltaObjects(pending') \subseteq objects
    <3>1. CASE LogUpsert(c)
      <4>1. arg[c].path \in Path /\ arg[c].entry \in Entry /\ arg[c].entry \in objects
        BY <3>1 DEF LogUpsert, ArgInv, EntriesInv
      <4>2. pending' = [pending EXCEPT ![arg[c].path] = arg[c].entry] /\ pending \in Delta
        BY <3>1 DEF LogUpsert, TypeOK
      <4>3. DeltaObjects(pending) \subseteq objects
        BY DEF EntriesInv, KeptDelta
      <4> HIDE DEF ObjectInv, BasicInv
      <4>4. \A d \in Delta, p \in Path, e \in Entry :
                DeltaObjects([d EXCEPT ![p] = e]) \subseteq DeltaObjects(d) \cup {e}
        BY NamedObjects
      <4>5. DeltaObjects([pending EXCEPT ![arg[c].path] = arg[c].entry])
              \subseteq DeltaObjects(pending) \cup {arg[c].entry}
        BY <4>1, <4>2, <4>4
      <4> QED BY <4>1, <4>2, <4>3, <4>5
    <3>2. CASE LogDelete(c)
      <4>1. arg[c].path \in Path
        BY <3>2 DEF LogDelete, ArgInv
      <4>2. pending' = [pending EXCEPT ![arg[c].path] = Delete] /\ pending \in Delta
        BY <3>2 DEF LogDelete, TypeOK
      <4>3. DeltaObjects(pending) \subseteq objects
        BY DEF EntriesInv, KeptDelta
      <4> HIDE DEF ObjectInv, BasicInv
      <4> QED BY <4>1, <4>2, <4>3, NamedObjects
    <3> QED BY <1>5, <3>1, <3>2
  <2>3. \A d \in Client : pc'[d] \in {"insert", "log_upsert"} =>
            pc[d] \in {"insert", "log_upsert"} /\ arg'[d] = arg[d]
    BY <1>5 DEF LogUpsert, LogDelete, TypeOK, Goto
  <2> QED BY <2>1, <2>2, <2>3, FilesKept DEF EntriesInv, Kept, KeptDelta
<1> QED BY <1>1, <1>2, <1>3, <1>4, <1>5

(***************************************************************************)
(* A commit moves the entries on: table to tree, pending changes to delta, *)
(* both to files.  A failure forgets, a crash brings back what was saved.  *)
(***************************************************************************)
LEMMA CommitKeepsObjects ==
    ASSUME ObjectInv, NEW c \in Client,
           \/ \E m \in Modes : AcquireCommitLock(c, m)
           \/ CollectPending(c) \/ PreCommitAccepts(c) \/ PreCommitRejects(c)
           \/ StoreCommit(c) \/ StoreDelta(c) \/ StoreSnapshot(c)
           \/ TruncateHead(c) \/ WriteHead(c) \/ Publish(c) \/ PostCommit(c) \/ Fail(c)
    PROVE  EntriesInv' /\ StoredInv'
<1> USE DEF ObjectInv, BasicInv, disk, db, memory, commitLocals
<1>1. objects' = objects /\ live' = live /\ saved' = saved
  BY DEF AcquireCommitLock, CollectPending, PreCommitAccepts, PreCommitRejects, StoreCommit, StoreDelta,
         StoreSnapshot, TruncateHead, WriteHead, Publish, PostCommit, Fail
<1>2. /\ pending' \in {pending, EmptyDelta}
      /\ changes' \in {pending, changes, EmptyDelta}
      /\ root' \in {live, root, EmptyTree}
  BY DEF AcquireCommitLock, CollectPending, PreCommitAccepts, PreCommitRejects, StoreCommit, StoreDelta,
         StoreSnapshot, TruncateHead, WriteHead, Publish, PostCommit, Fail
<1>3. \A d \in Client : pc'[d] \in {"insert", "log_upsert"} =>
          pc[d] \in {"insert", "log_upsert"} /\ arg'[d] = arg[d]
  BY DEF AcquireCommitLock, CollectPending, PreCommitAccepts, PreCommitRejects, StoreCommit, StoreDelta,
         StoreSnapshot, TruncateHead, WriteHead, Publish, PostCommit, Fail, TypeOK, Goto
<1>4. EntriesInv'
  BY <1>1, <1>2, <1>3, NamedObjects DEF EntriesInv, Kept, KeptDelta
<1>5. StoredInv'
  <2>1. CASE StoreDelta(c)
    <3>1. \A r \in Revision : deltas'[r] \in {deltas[r], changes} /\ snapshots'[r] = snapshots[r]
      BY <2>1 DEF StoreDelta, TypeOK
    <3>2. DeltaObjects(changes) \subseteq objects
      BY DEF EntriesInv, KeptDelta
    <3> QED BY <1>1, <3>1, <3>2 DEF StoredInv, Kept, KeptDelta
  <2>2. CASE StoreSnapshot(c)
    <3>1. \A r \in Revision : snapshots'[r] \in {snapshots[r], root} /\ deltas'[r] = deltas[r]
      BY <2>2 DEF StoreSnapshot, TypeOK
    <3>2. TreeObjects(root) \subseteq objects
      BY DEF EntriesInv, Kept
    <3> QED BY <1>1, <3>1, <3>2 DEF StoredInv, Kept, KeptDelta
  <2>3. CASE ~StoreDelta(c) /\ ~StoreSnapshot(c)
    <3>1. UNCHANGED <<deltas, snapshots>>
      BY <2>3 DEF AcquireCommitLock, CollectPending, PreCommitAccepts, PreCommitRejects, StoreCommit,
         TruncateHead, WriteHead, Publish, PostCommit, Fail
    <3> QED BY <1>1, <3>1, FilesKept
  <2> QED BY <2>1, <2>2, <2>3
<1> QED BY <1>4, <1>5

LEMMA RestartKeepsObjects ==
    ASSUME ObjectInv, Crash \/ Restart
    PROVE  EntriesInv' /\ StoredInv'
<1> USE DEF ObjectInv, BasicInv, disk, db, memory, commitLocals
<1>1. CASE Crash
  <2>1. objects' = objects /\ UNCHANGED <<deltas, snapshots>>
    BY <1>1 DEF Crash
  <2>2. /\ live' \in {live, saved.live} /\ pending' \in {pending, saved.pending}
        /\ changes' = EmptyDelta /\ root' = EmptyTree
        /\ saved'.live = EmptyTree /\ saved'.pending = EmptyDelta
        /\ \A d \in Client : pc'[d] = "idle"
    BY <1>1 DEF Crash, NothingSaved
  <2> QED BY <2>1, <2>2, NamedObjects, FilesKept DEF EntriesInv, Kept, KeptDelta
<1>2. CASE Open \/ Initialized
  <2>1. objects' = objects /\ UNCHANGED <<deltas, snapshots, live, pending, saved, root, changes, pc, arg>>
    BY <1>2 DEF Open, Initialized
  <2> QED BY <2>1, FilesKept DEF EntriesInv, Kept, KeptDelta
<1>3. ASSUME NEW p \in Path, NEW e \in Entry, PopulateRow(p, e) PROVE EntriesInv' /\ StoredInv'
  <2>1. objects' = objects /\ UNCHANGED <<deltas, snapshots, pending, saved, root, changes, pc, arg>>
    BY <1>3 DEF PopulateRow
  <2>2. e \in objects
    BY <1>3, PopulatedIsKept DEF PopulateRow
  <2>3. TreeObjects(live') \subseteq objects
    BY <1>3, <2>2, NamedObjects DEF PopulateRow, TypeOK, EntriesInv, Kept
  <2> QED BY <2>1, <2>3, FilesKept DEF EntriesInv, Kept, KeptDelta
<1> QED BY <1>1, <1>2, <1>3 DEF Restart

(***************************************************************************)
(* The committer has stored the delta of the next revision.                *)
(***************************************************************************)
DeltaStored(c) ==
    \/ pc[c] \in {"truncate_head", "write_head", "publish"}
    \/ pc[c] = "store_snapshot" /\ mode = "async"

LEMMA OneCommitter ==
    ASSUME BasicInv, NEW c \in Client, pc[c] \in Committing
    PROVE  /\ \A d \in Client : d # c => pc[d] \notin Committing /\ ~DeltaStored(d)
           /\ phase = "up"
           /\ pc[c] # "post_hook" => NewRev \in Revision
<1> USE DEF BasicInv
<1>1. \A d \in Client : d # c => pc[d] \notin Committing /\ ~DeltaStored(d)
  BY DEF LockInv, Committing, Storing, DeltaStored
<1>2. phase = "up"
  BY DEF LockInv, Committing, Storing
<1>3. currentRev \in 0..MaxRev
  BY DEF TypeOK
<1>4. pc[c] # "post_hook" => currentRev < MaxRev
  BY DEF LockInv
<1> QED BY <1>1, <1>2, <1>3, <1>4, RepositoryAssumption DEF NewRev, Revision

(***************************************************************************)
(* Most steps touch neither the deltas nor the revision numbers.           *)
(***************************************************************************)
LEMMA DeltasUntouched ==
    ASSUME DeltasInv, UNCHANGED <<deltas, currentRev>>, headFile' \in {headFile, Torn},
           phase' = "populating" => phase = "populating",
           phase = "populating" => headFile' = headFile,
           \A d \in Client : DeltaStored(d)' => DeltaStored(d)
    PROVE  DeltasInv'
BY DEF DeltasInv, DeltaStored, NewRev

LEMMA UntouchedSteps ==
    ASSUME ObjectInv, NEW c \in Client,
           \/ \E p \in Path, e \in Entry : StoreObject(c, p, e)
           \/ \E p \in Path : RemoveEntry(c, p)
           \/ BeginBatch(c) \/ EndBatch(c)
           \/ InsertEntry(c) \/ LogUpsert(c) \/ RemoveChildren(c) \/ LogDelete(c)
           \/ CollectPending(c) \/ PreCommitAccepts(c) \/ PreCommitRejects(c)
           \/ StoreCommit(c) \/ StoreSnapshot(c) \/ PostCommit(c) \/ Fail(c)
    PROVE  DeltasInv'
<1> USE DEF ObjectInv, BasicInv, disk, db, memory, commitLocals
<1>1. /\ UNCHANGED <<deltas, currentRev, headFile, phase, mode>>
      /\ \A d \in Client : d # c => pc'[d] = pc[d]
  <2>1. CASE \/ \E p \in Path, e \in Entry : StoreObject(c, p, e)
             \/ \E p \in Path : RemoveEntry(c, p)
             \/ BeginBatch(c) \/ EndBatch(c)
    BY <2>1 DEF StoreObject, RemoveEntry, BeginBatch, EndBatch, Goto, TypeOK
  <2>2. CASE InsertEntry(c) \/ LogUpsert(c) \/ RemoveChildren(c) \/ LogDelete(c)
    BY <2>2 DEF InsertEntry, LogUpsert, RemoveChildren, LogDelete, Goto, TypeOK
  <2>3. CASE \/ CollectPending(c) \/ PreCommitAccepts(c) \/ PreCommitRejects(c)
             \/ StoreCommit(c) \/ StoreSnapshot(c) \/ PostCommit(c) \/ Fail(c)
    BY <2>3 DEF CollectPending, PreCommitAccepts, PreCommitRejects, StoreCommit, StoreSnapshot,
                PostCommit, Fail, Goto, TypeOK
  <2> QED BY <2>1, <2>2, <2>3
<1>2. DeltaStored(c)' => DeltaStored(c)
  <2>1. CASE \/ \E p \in Path, e \in Entry : StoreObject(c, p, e)
             \/ \E p \in Path : RemoveEntry(c, p)
             \/ BeginBatch(c) \/ EndBatch(c)
    BY <2>1 DEF StoreObject, RemoveEntry, BeginBatch, EndBatch, Goto, TypeOK, DeltaStored
  <2>2. CASE InsertEntry(c) \/ LogUpsert(c) \/ RemoveChildren(c) \/ LogDelete(c)
    BY <2>2 DEF InsertEntry, LogUpsert, RemoveChildren, LogDelete, Goto, TypeOK, DeltaStored
  <2>3. CASE CollectPending(c) \/ PreCommitRejects(c) \/ StoreCommit(c) \/ PostCommit(c) \/ Fail(c)
    BY <2>3 DEF CollectPending, PreCommitRejects, StoreCommit, PostCommit, Fail, Goto, TypeOK, DeltaStored
  <2>4. CASE PreCommitAccepts(c)
    BY <2>4 DEF PreCommitAccepts, Goto, TypeOK, DeltaStored
  <2>5. CASE StoreSnapshot(c)
    BY <2>5 DEF StoreSnapshot, Goto, TypeOK, DeltaStored
  <2> QED BY <2>1, <2>2, <2>3, <2>4, <2>5
<1>3. \A d \in Client : DeltaStored(d)' => DeltaStored(d)
  BY <1>1, <1>2 DEF DeltaStored
<1> QED BY <1>1, <1>3, DeltasUntouched

(***************************************************************************)
(* The delta is on disk before the head that counts on it.                 *)
(***************************************************************************)
LEMMA CommitKeepsDeltas ==
    ASSUME ObjectInv, NEW c \in Client,
           \/ \E m \in Modes : AcquireCommitLock(c, m)
           \/ StoreDelta(c) \/ TruncateHead(c) \/ WriteHead(c) \/ Publish(c)
    PROVE  DeltasInv'
<1> USE DEF ObjectInv, BasicInv, disk, db, memory, commitLocals
<1>t. currentRev \in Nat /\ NewRev = currentRev + 1
  BY RepositoryAssumption DEF TypeOK, NewRev
<1>1. ASSUME NEW m \in Modes, AcquireCommitLock(c, m) PROVE DeltasInv'
  <2>1. /\ UNCHANGED <<deltas, currentRev, headFile, phase>>
        /\ \A d \in Client : d # c => pc'[d] = pc[d]
        /\ pc'[c] = "collect"
    BY <1>1 DEF AcquireCommitLock, Goto, TypeOK
  <2>2. \A d \in Client : pc[d] \notin Committing
    BY <1>1, RepositoryAssumption DEF AcquireCommitLock, LockInv
  <2>3. \A d \in Client : ~DeltaStored(d)'
    BY <2>1, <2>2 DEF DeltaStored, Committing, Storing
  <2> QED BY <2>1, <2>3, DeltasUntouched
<1>2. CASE StoreDelta(c)
  <2>1. /\ \A d \in Client : d # c => ~DeltaStored(d)
        /\ phase = "up" /\ NewRev \in Revision
    BY <1>2, OneCommitter DEF StoreDelta, Committing, Storing
  <2>2. /\ UNCHANGED <<currentRev, headFile, phase, mode>> /\ NewRev' = NewRev
        /\ \A r \in Revision : deltas[r] # NoDelta => deltas'[r] # NoDelta
        /\ deltas'[NewRev] # NoDelta
    BY <1>2, <2>1, RepositoryAssumption DEF StoreDelta, TypeOK, NewRev
  <2>3. \A d \in Client : d # c => ~DeltaStored(d)'
    BY <1>2, <2>1, <2>2 DEF StoreDelta, Goto, TypeOK, DeltaStored
  <2>4. \A r \in 1..currentRev : r \in Revision
    BY RepositoryAssumption DEF TypeOK, Revision
  <2>5. headFile # Torn => \A r \in 1..headFile : r \in Revision
    BY RepositoryAssumption DEF TypeOK, Revision
  <2>6. /\ \A r \in 1..currentRev : deltas[r] # NoDelta
        /\ headFile # Torn => \A r \in 1..headFile : deltas[r] # NoDelta
    BY DEF DeltasInv
  <2> HIDE DEF ObjectInv, BasicInv
  <2> QED BY <2>1, <2>2, <2>3, <2>4, <2>5, <2>6 DEF DeltasInv, DeltaStored
<1>3. CASE TruncateHead(c)
  <2>1. /\ UNCHANGED <<deltas, currentRev, phase, mode>> /\ headFile' = Torn
        /\ \A d \in Client : d # c => pc'[d] = pc[d]
        /\ pc[c] = "truncate_head"
    BY <1>3 DEF TruncateHead, Goto, TypeOK
  <2>2. phase = "up"
    BY <2>1, OneCommitter DEF Committing, Storing
  <2> QED BY <2>1, <2>2, DeltasUntouched DEF DeltaStored
<1>4. CASE WriteHead(c)
  <2>1. /\ UNCHANGED <<deltas, currentRev, phase, mode>> /\ headFile' = NewRev /\ NewRev' = NewRev
        /\ \A d \in Client : d # c => pc'[d] = pc[d]
        /\ pc[c] = "write_head"
    BY <1>4 DEF WriteHead, Goto, TypeOK, NewRev
  <2>2. phase = "up" /\ \A d \in Client : d # c => ~DeltaStored(d)
    BY <2>1, OneCommitter DEF Committing, Storing
  <2>3. deltas[NewRev] # NoDelta /\ \A r \in 1..currentRev : deltas[r] # NoDelta
    BY <2>1 DEF DeltasInv
  <2>4. \A r \in 1..NewRev : r \in 1..currentRev \/ r = NewRev
    BY <1>t
  <2>5. \A d \in Client : d # c => ~DeltaStored(d)'
    BY <2>1, <2>2 DEF DeltaStored
  <2> HIDE DEF ObjectInv, BasicInv
  <2> QED BY <2>1, <2>2, <2>3, <2>4, <2>5 DEF DeltasInv, DeltaStored
<1>5. CASE Publish(c)
  <2>1. /\ UNCHANGED <<deltas, headFile, phase, mode>> /\ currentRev' = NewRev
        /\ \A d \in Client : d # c => pc'[d] = pc[d]
        /\ pc[c] = "publish" /\ pc'[c] = "post_hook"
    BY <1>5 DEF Publish, Goto, TypeOK
  <2>2. phase = "up" /\ \A d \in Client : d # c => ~DeltaStored(d)
    BY <2>1, OneCommitter DEF Committing, Storing
  <2>3. deltas[NewRev] # NoDelta /\ \A r \in 1..currentRev : deltas[r] # NoDelta
    BY <2>1 DEF DeltasInv
  <2>4. \A r \in 1..NewRev : r \in 1..currentRev \/ r = NewRev
    BY <1>t
  <2>5. \A d \in Client : ~DeltaStored(d)'
    BY <2>1, <2>2 DEF DeltaStored
  <2>6. headFile # Torn => \A r \in 1..headFile : deltas[r] # NoDelta
    BY DEF DeltasInv
  <2> HIDE DEF ObjectInv, BasicInv
  <2> QED BY <2>1, <2>2, <2>3, <2>4, <2>5, <2>6 DEF DeltasInv, DeltaStored
<1> QED BY <1>1, <1>2, <1>3, <1>4, <1>5

LEMMA RestartKeepsDeltas ==
    ASSUME ObjectInv, Crash \/ Restart
    PROVE  DeltasInv'
<1> USE DEF ObjectInv, BasicInv, disk, db, memory, commitLocals
<1>1. CASE Crash
  <2>1. /\ UNCHANGED <<deltas, headFile>> /\ currentRev' = 0 /\ phase' = "down"
        /\ \A d \in Client : ~DeltaStored(d)'
    BY <1>1 DEF Crash, DeltaStored
  <2>2. \A r \in 1..currentRev' : FALSE
    BY <2>1
  <2> QED BY <2>1, <2>2 DEF DeltasInv, DeltaStored
<1>2. CASE Open
  <2>1. /\ UNCHANGED <<deltas, headFile, pc, mode>>
        /\ currentRev' = IF headFile = Torn THEN 0 ELSE headFile
        /\ \A d \in Client : ~DeltaStored(d)
    BY <1>2 DEF Open, DeltaStored, LockInv
  <2>2. headFile = Torn => \A r \in 1..currentRev' : FALSE
    BY <2>1
  <2>3. \A d \in Client : ~DeltaStored(d)'
    BY <2>1 DEF DeltaStored
  <2> QED BY <2>1, <2>2, <2>3 DEF DeltasInv, DeltaStored
<1>3. CASE Initialized \/ \E p \in Path, e \in Entry : PopulateRow(p, e)
  <2>1. UNCHANGED <<deltas, currentRev, headFile, pc, mode>> /\ phase = "populating"
    BY <1>3 DEF Initialized, PopulateRow
  <2> QED BY <2>1, DeltasUntouched DEF DeltaStored
<1> QED BY <1>1, <1>2, <1>3 DEF Restart

LEMMA ObjectInit == Init => ObjectInv
<1> SUFFICES ASSUME Init PROVE ObjectInv
  OBVIOUS
<1>1. DeltasInv
  BY RepositoryAssumption DEF Init, DeltasInv
<1>2. EntriesInv
  BY NamedObjects DEF Init, EntriesInv, Kept, KeptDelta, NothingSaved
<1>3. StoredInv
  BY DEF Init, StoredInv
<1> QED BY <1>1, <1>2, <1>3, BasicInit DEF ObjectInv

LEMMA ObjectStep == ObjectInv /\ [Next]_vars => ObjectInv'
<1> SUFFICES ASSUME ObjectInv, [Next]_vars PROVE ObjectInv'
  OBVIOUS
<1>1. BasicInv'
  BY BasicStep DEF ObjectInv
<1>2. CASE UNCHANGED vars
  <2>1. UNCHANGED <<objects, deltas, snapshots, headFile, live, pending, saved, phase, currentRev,
                    pc, arg, mode, changes, root>>
    BY <1>2 DEF vars, disk, db, memory, commitLocals
  <2>2. DeltasInv'
    BY <2>1 DEF ObjectInv, DeltasInv, NewRev
  <2>3. EntriesInv' /\ StoredInv'
    BY <2>1, FilesKept DEF ObjectInv, EntriesInv, Kept, KeptDelta
  <2> QED BY <1>1, <2>2, <2>3 DEF ObjectInv
<1>3. CASE Next
  <2>1. DeltasInv'
    BY <1>3, UntouchedSteps, CommitKeepsDeltas, RestartKeepsDeltas DEF Next, Edit, Continue
  <2>2. EntriesInv' /\ StoredInv'
    BY <1>3, EditKeepsObjects, CommitKeepsObjects, RestartKeepsObjects DEF Next, Edit, Continue
  <2> QED BY <1>1, <2>1, <2>2 DEF ObjectInv
<1> QED BY <1>2, <1>3

(***************************************************************************)
(* Every entry in the working tree, in the pending changes and in any      *)
(* delta or snapshot file names a stored object, through every rejection,  *)
(* failed write, crash, rollback and restart, a torn head included:        *)
(* add_file and mkdir store the object first and nothing deletes objects.  *)
(***************************************************************************)
THEOREM EntriesHaveObjects == Spec => []NoDanglingEntry
<1>1. ObjectInv => NoDanglingEntry
  BY DEF ObjectInv, EntriesInv, StoredInv, Kept, KeptDelta, NoDanglingEntry
<1> QED BY <1>1, ObjectInit, ObjectStep, PTL DEF Spec

-----------------------------------------------------------------------------
(***************************************************************************)
(* Replay is faithful: at every path that is not astray, the deltas of a   *)
(* repository lead to exactly the rows that were committed, however edits  *)
(* and commits of many clients interleave, are rejected, fail and die.     *)
(* Only a torn refs/head is left out, as for durability.                   *)
(*                                                                         *)
(* Who holds the connection: an editor between its statements, or a        *)
(* committer, until it has built the tree (commit) or returns              *)
(* (commit_sync).                                                          *)
(***************************************************************************)
NeedsConn(c) ==
    \/ pc[c] \in InConn
    \/ mode = "sync" /\ pc[c] \in Storing \cup {"post_hook"}

ConnInv == \A c \in Client : NeedsConn(c) <=> conn = c

(***************************************************************************)
(* A row that is not astray is what the base and the pending changes say,  *)
(* once the edit or the commit that holds the connection is counted in.    *)
(***************************************************************************)
Agree(t, u) == \A p \in Path \ strays : t[p] = u[p]

WorkInv ==
    /\ (\A c \in Client : pc[c] \notin InConn) => Agree(live, ApplyDelta(PendingBase, pending))
    /\ \A c \in Client :
          /\ pc[c] = "log_upsert" =>
                Agree(live, ApplyDelta(PendingBase, [pending EXCEPT ![arg[c].path] = arg[c].entry]))
          /\ pc[c] = "remove_children" =>
                Agree(DeleteLike(live, arg[c].path),
                      ApplyDelta(PendingBase, [pending EXCEPT ![arg[c].path] = Delete]))
          /\ pc[c] = "log_delete" =>
                Agree(live, ApplyDelta(PendingBase, [pending EXCEPT ![arg[c].path] = Delete]))
          /\ pc[c] = "pre_hook" =>
                /\ Agree(live, ApplyDelta(PendingBase, changes))
                /\ pending = EmptyDelta

(***************************************************************************)
(* The commit being stored.  A snapshot beyond the head may be left from a *)
(* commit that failed; it lies on the interval, so the next one rewrites   *)
(* it before save_head.                                                    *)
(***************************************************************************)
StagedInv ==
    /\ seen[0] = EmptyTree
    /\ \A r \in 0..HeadRev : seen[r] \in Tree
    /\ \A c \in Client :
          /\ pc[c] \in Storing =>
                \A p \in Path \ drift[NewRev] : root[p] = ApplyDelta(seen[currentRev], changes)[p]
          /\ \/ pc[c] \in {"store_delta", "truncate_head", "write_head", "publish"}
             \/ pc[c] = "store_snapshot" /\ mode = "async"
             => seen[NewRev] = root /\ commits[NewRev] \in {root, DeltaId}
          /\ \/ pc[c] \in {"truncate_head", "write_head", "publish"}
             \/ pc[c] = "store_snapshot" /\ mode = "async"
             => deltas[NewRev] = changes
          /\ \/ pc[c] \in {"truncate_head", "write_head", "publish"}
             \/ pc[c] \in {"store_commit", "store_delta"} /\ mode = "sync"
             => (SnapshotDue => snapshots[NewRev] = root)
    /\ \A r \in Revision : snapshots[r] # NoTree => r % SnapshotInterval = 0

ReplayInv ==
    /\ DurableInv
    /\ ConnInv /\ WorkInv /\ StagedInv
    /\ RevisionIsReplay

(***************************************************************************)
(* What a step must establish, next to DurableInv'.                        *)
(***************************************************************************)
ReplayNext == ConnInv' /\ WorkInv' /\ StagedInv' /\ RevisionIsReplay'

-----------------------------------------------------------------------------
(***************************************************************************)
(* Replay works path by path: the row at q depends on the row of the base  *)
(* at q, and a delta that does not touch q keeps it.                       *)
(***************************************************************************)
LEMMA ReplayLocal ==
    ASSUME NEW t, NEW u, NEW d, NEW q \in Path, t[q] = u[q]
    PROVE  ApplyDelta(t, d)[q] = ApplyDelta(u, d)[q]
BY DEF ApplyDelta

LEMMA ReplayUntouched ==
    ASSUME NEW t, NEW d, NEW q \in Path \ Touched(d)
    PROVE  ApplyDelta(t, d)[q] = t[q]
BY MarkerAssumption DEF ApplyDelta, Touched

LEMMA ApplyNothing ==
    ASSUME NEW t, NEW q \in Path
    PROVE  ApplyDelta(t, EmptyDelta)[q] = t[q]
BY MarkerAssumption DEF ApplyDelta, EmptyDelta

(***************************************************************************)
(* conn_tree_insert: what logging the upsert does to the replay.           *)
(***************************************************************************)
LEMMA UpsertReplay ==
    ASSUME NEW t, NEW d \in Delta, NEW p \in Path, NEW e \in Entry, NEW q \in Path
    PROVE  /\ q = p => ApplyDelta(t, [d EXCEPT ![p] = e])[q] = e
           /\ q # p /\ ~(/\ d[p] = Delete /\ <<p, q>> \in Below
                         /\ d[q] = NoChange /\ t[q] # NoEntry)
              => ApplyDelta(t, [d EXCEPT ![p] = e])[q] = ApplyDelta(t, d)[q]
<1> DEFINE dd == [d EXCEPT ![p] = e]
<1>1. dd \in Delta /\ dd[p] = e /\ \A x \in Path : x # p => dd[x] = d[x]
  BY DEF Delta
<1> HIDE DEF dd
<1>2. q = p => ApplyDelta(t, dd)[q] = e
  BY <1>1 DEF ApplyDelta
<1>3. ASSUME q # p, ~(/\ d[p] = Delete /\ <<p, q>> \in Below
                      /\ d[q] = NoChange /\ t[q] # NoEntry)
      PROVE  ApplyDelta(t, dd)[q] = ApplyDelta(t, d)[q]
  <2>0. dd[q] = d[q] /\ e # Delete
    BY <1>1, <1>3, MarkerAssumption
  <2>1. CASE d[q] # NoChange
    BY <2>0, <2>1 DEF ApplyDelta, Delta
  <2>2. CASE d[q] = NoChange /\ t[q] = NoEntry
    BY <2>0, <2>2, MarkerAssumption DEF ApplyDelta
  <2>3. CASE d[q] = NoChange /\ t[q] # NoEntry
    <3>1. ~(d[p] = Delete /\ <<p, q>> \in Below)
      BY <1>3, <2>3
    <3>2. \A a \in Path : <<a, q>> \in Below => (dd[a] = Delete <=> d[a] = Delete)
      BY <1>1, <2>0, <3>1
    <3> QED BY <2>0, <3>2 DEF ApplyDelta
  <2> QED BY <2>1, <2>2, <2>3
<1> QED BY <1>2, <1>3 DEF dd

(***************************************************************************)
(* conn_tree_remove: likewise.                                             *)
(***************************************************************************)
LEMMA DeleteReplay ==
    ASSUME NEW t, NEW d \in Delta, NEW p \in Path, NEW q \in Path
    PROVE  /\ q = p \/ (<<p, q>> \in Below /\ d[q] \notin Entry)
              => ApplyDelta(t, [d EXCEPT ![p] = Delete])[q] = NoEntry
           /\ q # p /\ <<p, q>> \notin Below
              => ApplyDelta(t, [d EXCEPT ![p] = Delete])[q] = ApplyDelta(t, d)[q]
<1> DEFINE dd == [d EXCEPT ![p] = Delete]
<1>1. dd \in Delta /\ dd[p] = Delete /\ \A x \in Path : x # p => dd[x] = d[x]
  BY DEF Delta
<1> HIDE DEF dd
<1>2. ASSUME q = p PROVE ApplyDelta(t, dd)[q] = NoEntry
  BY <1>1, <1>2, MarkerAssumption DEF ApplyDelta
<1>3. ASSUME q # p, <<p, q>> \in Below, d[q] \notin Entry PROVE ApplyDelta(t, dd)[q] = NoEntry
  BY <1>1, <1>3 DEF ApplyDelta
<1>4. ASSUME q # p, <<p, q>> \notin Below PROVE ApplyDelta(t, dd)[q] = ApplyDelta(t, d)[q]
  <2>1. dd[q] = d[q] /\ \A a \in Path : <<a, q>> \in Below => dd[a] = d[a]
    BY <1>1, <1>4
  <2> QED BY <2>1 DEF ApplyDelta
<1> QED BY <1>2, <1>3, <1>4 DEF dd

-----------------------------------------------------------------------------
(***************************************************************************)
(* Frames.  A step that keeps the head and the files, and the locals of a  *)
(* commit in the stages that store it, keeps what is known of them.        *)
(***************************************************************************)
LEMMA HistoryKept ==
    ASSUME StagedInv, RevisionIsReplay,
           HeadRev' = HeadRev, UNCHANGED <<commits, deltas, snapshots, seen, drift>>,
           \A c \in Client : pc'[c] \in Storing =>
              pc'[c] = pc[c] /\ UNCHANGED <<mode, changes, root, currentRev>>
    PROVE  StagedInv' /\ RevisionIsReplay'
<1>1. \A c \in Client : StagedInv!3!(c)'
  <2> SUFFICES ASSUME NEW c \in Client PROVE StagedInv!3!(c)'
    OBVIOUS
  <2>1. CASE pc'[c] \in Storing
    <3>1. NewRev' = NewRev /\ SnapshotDue' = SnapshotDue
      BY <2>1 DEF NewRev, SnapshotDue
    <3> QED BY <2>1, <3>1 DEF StagedInv
  <2>2. CASE pc'[c] \notin Storing
    BY <2>2 DEF Storing
  <2> QED BY <2>1, <2>2
<1>2. StagedInv'
  BY <1>1 DEF StagedInv
<1>3. RevisionIsReplay'
  BY DEF RevisionIsReplay
<1> QED BY <1>2, <1>3

(***************************************************************************)
(* A step that leaves the tables and whoever holds the connection alone,   *)
(* and moves the base at most at paths that are astray afterwards.         *)
(***************************************************************************)
LEMMA WorkKept ==
    ASSUME WorkInv, UNCHANGED <<live, pending>>, strays \subseteq strays',
           \A q \in Path \ strays' : PendingBase'[q] = PendingBase[q],
           \A c \in Client :
              /\ pc[c] \in InConn <=> pc'[c] \in InConn
              /\ pc'[c] \in InConn => pc'[c] = pc[c] /\ arg'[c] = arg[c]
              /\ pc'[c] = "pre_hook" => changes' = changes
    PROVE  WorkInv'
<1>1. \A d, q : q \in Path \ strays' => ApplyDelta(PendingBase', d)[q] = ApplyDelta(PendingBase, d)[q]
  BY ReplayLocal
<1>2. ASSUME \A c \in Client : pc'[c] \notin InConn PROVE Agree(live, ApplyDelta(PendingBase, pending))'
  <2>1. Agree(live, ApplyDelta(PendingBase, pending))
    BY <1>2 DEF WorkInv
  <2> QED BY <1>1, <2>1 DEF Agree
<1>3. ASSUME NEW c \in Client PROVE WorkInv!2!(c)'
  <2>1. CASE pc'[c] \notin InConn
    BY <2>1 DEF InConn
  <2>2. CASE pc'[c] \in InConn
    <3>1. pc'[c] = pc[c] /\ arg'[c] = arg[c] /\ WorkInv!2!(c)
      BY <2>2 DEF WorkInv
    <3>2. CASE pc[c] = "log_upsert"
      <4>1. PICK d : d = [pending EXCEPT ![arg[c].path] = arg[c].entry]
        OBVIOUS
      <4>2. d = [pending' EXCEPT ![arg'[c].path] = arg'[c].entry]
        BY <3>1, <4>1
      <4>3. Agree(live, ApplyDelta(PendingBase, d))
        BY <3>1, <3>2, <4>1
      <4>4. \A q \in Path \ strays' : live'[q] = ApplyDelta(PendingBase', d)[q]
        BY <1>1, <4>3 DEF Agree
      <4> QED BY <3>1, <3>2, <4>2, <4>4 DEF Agree
    <3>3. CASE pc[c] \in {"remove_children", "log_delete"}
      <4>1. PICK d : d = [pending EXCEPT ![arg[c].path] = Delete]
        OBVIOUS
      <4>2. d = [pending' EXCEPT ![arg'[c].path] = Delete]
        BY <3>1, <4>1
      <4>3. PICK t : t = IF pc[c] = "log_delete" THEN live ELSE DeleteLike(live, arg[c].path)
        OBVIOUS
      <4>4. t = IF pc'[c] = "log_delete" THEN live' ELSE DeleteLike(live', arg'[c].path)
        BY <3>1, <4>3
      <4>5. Agree(t, ApplyDelta(PendingBase, d))
        BY <3>1, <3>3, <4>1, <4>3
      <4>6. \A q \in Path \ strays' : t[q] = ApplyDelta(PendingBase', d)[q]
        BY <1>1, <4>5 DEF Agree
      <4> QED BY <3>1, <3>3, <4>2, <4>4, <4>6 DEF Agree
    <3>4. CASE pc[c] = "pre_hook"
      BY <1>1, <3>1, <3>4 DEF Agree
    <3> QED BY <2>2, <3>1, <3>2, <3>3, <3>4 DEF InConn
  <2> QED BY <2>1, <2>2
<1> QED BY <1>2, <1>3 DEF WorkInv

-----------------------------------------------------------------------------
(***************************************************************************)
(* Editors.  An editor's step leaves the files, the commit in progress and *)
(* the base of the pending changes alone.                                  *)
(***************************************************************************)
EditorStep ==
    /\ UNCHANGED <<commits, deltas, snapshots, headFile, currentRev, phase, mode, changes, root, seen, drift>>
    /\ \A c \in Client : pc[c] \in Committing \/ pc'[c] \in Committing => pc'[c] = pc[c]

LEMMA EditorSteps ==
    ASSUME DurableInv, NEW c \in Client,
           \/ \E p \in Path, e \in Entry : StoreObject(c, p, e)
           \/ \E p \in Path : RemoveEntry(c, p)
           \/ BeginBatch(c) \/ EndBatch(c)
           \/ InsertEntry(c) \/ LogUpsert(c) \/ RemoveChildren(c) \/ LogDelete(c)
    PROVE  EditorStep
<1> USE DEF EditorStep, DurableInv, BasicInv, TypeOK, Goto, Storing, Committing,
            disk, db, memory, commitLocals, astray
<1>1. ASSUME NEW p \in Path, NEW e \in Entry, StoreObject(c, p, e) PROVE EditorStep
  BY <1>1 DEF StoreObject
<1>2. ASSUME NEW p \in Path, RemoveEntry(c, p) PROVE EditorStep
  BY <1>2 DEF RemoveEntry
<1>3. CASE BeginBatch(c) \/ EndBatch(c)
  BY <1>3 DEF BeginBatch, EndBatch
<1>4. CASE InsertEntry(c) \/ LogUpsert(c)
  BY <1>4 DEF InsertEntry, LogUpsert
<1>5. CASE RemoveChildren(c) \/ LogDelete(c)
  BY <1>5 DEF RemoveChildren, LogDelete
<1> QED BY <1>1, <1>2, <1>3, <1>4, <1>5

LEMMA EditorKeepsHistory ==
    ASSUME ReplayInv, EditorStep
    PROVE  /\ HeadRev' = HeadRev
           /\ PendingBase' = PendingBase
           /\ StagedInv' /\ RevisionIsReplay'
<1> USE DEF ReplayInv, EditorStep
<1>1. HeadRev' = HeadRev
  BY DEF HeadRev
<1>2. \A c \in Client : pc[c] \in Storing \/ pc'[c] \in Storing => pc'[c] = pc[c]
  BY DEF Committing
<1>3. PendingBase' = PendingBase
  BY <1>1, <1>2 DEF PendingBase
<1> QED BY <1>1, <1>2, <1>3, HistoryKept

(***************************************************************************)
(* An insert, and what it does to the row and to the replay.               *)
(***************************************************************************)
LEMMA InsertReplay ==
    ASSUME ReplayInv, NEW c \in Client, InsertEntry(c)
    PROVE  ConnInv' /\ WorkInv'
<1> USE DEF ReplayInv, DurableInv, BasicInv
<1> DEFINE p == arg[c].path
           e == arg[c].entry
<1>0. EditorStep /\ PendingBase' = PendingBase
  BY EditorSteps, EditorKeepsHistory
<1>1. /\ UNCHANGED <<pending, arg, mode>> /\ conn = NoClient /\ conn' = c
      /\ pc'[c] = "log_upsert"
      /\ live' = UpsertRow(live, p, e)
      /\ \A d \in Client : d # c => pc'[d] = pc[d]
      /\ strays' = (strays \ {p}) \cup Revived(p)
  BY DEF InsertEntry, Goto, TypeOK, commitLocals
<1>2. p \in Path /\ e \in Entry /\ pending \in Delta /\ live \in Tree
  BY DEF InsertEntry, ArgInv, TypeOK
<1>3. \A d \in Client : ~NeedsConn(d)
  BY <1>1, RepositoryAssumption DEF ConnInv
<1>4. ConnInv'
  BY <1>1, <1>3, RepositoryAssumption DEF ConnInv, NeedsConn, InConn
<1>5. Agree(live, ApplyDelta(PendingBase, pending))
  BY <1>3 DEF WorkInv, NeedsConn
<1> HIDE DEF p, e
<1>6. ASSUME NEW q \in Path \ strays'
      PROVE  live'[q] = ApplyDelta(PendingBase, [pending EXCEPT ![p] = e])[q]
  <2>1. CASE q = p
    <3>1. live'[q] = e
      BY <1>1, <1>2, <2>1 DEF UpsertRow, Tree
    <3>2. ApplyDelta(PendingBase, [pending EXCEPT ![p] = e])[p] = e
      BY <1>2 DEF ApplyDelta, Delta
    <3> QED BY <3>1, <3>2, <2>1
  <2>2. CASE q # p
    <3>1. q \notin strays /\ q \notin Revived(p)
      BY <1>1, <1>6, <2>2
    <3>2. live'[q] = live[q]
      BY <1>1, <1>2, <2>2 DEF UpsertRow, Tree
    <3>3. live[q] = ApplyDelta(PendingBase, pending)[q]
      BY <1>5, <3>1 DEF Agree
    <3>4. ~(/\ pending[p] = Delete /\ <<p, q>> \in Below
            /\ pending[q] = NoChange /\ PendingBase[q] # NoEntry)
      BY <3>1 DEF Revived
    <3> QED BY <3>2, <3>3, <3>4, <2>2, <1>2, UpsertReplay
  <2> QED BY <2>1, <2>2
<1>7. WorkInv'
  <2>1. \A d \in Client : pc'[d] \in InConn => d = c
    BY <1>1, <1>3 DEF NeedsConn
  <2>2. Agree(live, ApplyDelta(PendingBase, [pending EXCEPT ![arg[c].path] = arg[c].entry]))'
    BY <1>0, <1>1, <1>6 DEF Agree, p, e
  <2> QED BY <1>1, <2>1, <2>2 DEF WorkInv, InConn
<1> QED BY <1>4, <1>7

(***************************************************************************)
(* A delete, counted in from its first statement on.                       *)
(***************************************************************************)
LEMMA RemoveReplay ==
    ASSUME ReplayInv, NEW c \in Client, NEW p \in Path, RemoveEntry(c, p)
    PROVE  ConnInv' /\ WorkInv'
<1> USE DEF ReplayInv, DurableInv, BasicInv
<1>0. EditorStep /\ PendingBase' = PendingBase
  BY EditorSteps, EditorKeepsHistory
<1>1. /\ UNCHANGED <<pending, mode>> /\ conn = NoClient /\ conn' = c
      /\ pc'[c] = "remove_children" /\ arg'[c].path = p
      /\ live' = DeleteRow(live, p)
      /\ \A d \in Client : d # c => pc'[d] = pc[d]
      /\ strays' = (strays \ ClearedByBoth(p)) \cup ClearedOnly(p)
  BY DEF RemoveEntry, Goto, TypeOK, commitLocals
<1>2. pending \in Delta /\ live \in Tree
  BY DEF TypeOK
<1>3. \A d \in Client : ~NeedsConn(d)
  BY <1>1, RepositoryAssumption DEF ConnInv
<1>4. ConnInv'
  BY <1>1, <1>3, RepositoryAssumption DEF ConnInv, NeedsConn, InConn
<1>5. Agree(live, ApplyDelta(PendingBase, pending))
  BY <1>3 DEF WorkInv, NeedsConn
<1>6. ASSUME NEW q \in Path \ strays'
      PROVE  DeleteLike(live', p)[q] = ApplyDelta(PendingBase, [pending EXCEPT ![p] = Delete])[q]
  <2>0. q \notin ClearedOnly(p) /\ (q \in strays => q \in ClearedByBoth(p))
    BY <1>1, <1>6
  <2>1. DeleteLike(live', p)[q] = IF q = p \/ <<p, q>> \in LikeBelow THEN NoEntry ELSE live[q]
    BY <1>1, <1>2 DEF DeleteLike, DeleteRow, Tree
  <2>2. CASE q = p
    <3>1. \A x \in Path : x = p => ApplyDelta(PendingBase, [pending EXCEPT ![p] = Delete])[x] = NoEntry
      BY <1>2, DeleteReplay
    <3> QED BY <2>1, <2>2, <3>1
  <2>3. CASE q # p /\ <<p, q>> \in Below
    <3>1. <<p, q>> \in LikeBelow
      BY <2>3, PathAssumption
    <3>2. pending[q] \notin Entry
      <4>1. SUFFICES ASSUME pending[q] \in Entry PROVE FALSE
        OBVIOUS
      <4>2. live[q] = NoEntry
        BY <4>1, <3>1, <2>0 DEF ClearedOnly
      <4>3. q \notin strays
        BY <4>1, <2>0, <2>3 DEF ClearedByBoth
      <4>4. live[q] = pending[q]
        BY <4>1, <4>3, <1>5 DEF Agree, ApplyDelta
      <4> QED BY <4>1, <4>2, <4>4, MarkerAssumption
    <3> QED BY <3>1, <3>2, <2>1, <2>3, <1>2, DeleteReplay
  <2>4. CASE q # p /\ <<p, q>> \notin Below
    <3>1. q \notin strays
      BY <2>0, <2>4 DEF ClearedByBoth
    <3>2. live[q] = ApplyDelta(PendingBase, pending)[q]
      BY <1>5, <3>1 DEF Agree
    <3>3. DeleteLike(live', p)[q] = live[q]
      BY <2>0, <2>1, <2>4 DEF ClearedOnly
    <3> QED BY <3>2, <3>3, <2>4, <1>2, DeleteReplay
  <2> QED BY <2>2, <2>3, <2>4
<1>7. WorkInv'
  <2>1. \A d \in Client : pc'[d] \in InConn => d = c
    BY <1>1, <1>3 DEF NeedsConn
  <2>2. Agree(DeleteLike(live, arg[c].path),
              ApplyDelta(PendingBase, [pending EXCEPT ![arg[c].path] = Delete]))'
    BY <1>0, <1>1, <1>6 DEF Agree
  <2> QED BY <1>1, <2>1, <2>2 DEF WorkInv, InConn
<1> QED BY <1>4, <1>7

LEMMA EditsReplay ==
    ASSUME ReplayInv, NEW c \in Client,
           \/ \E p \in Path, e \in Entry : StoreObject(c, p, e)
           \/ \E p \in Path : RemoveEntry(c, p)
           \/ BeginBatch(c) \/ EndBatch(c)
           \/ InsertEntry(c) \/ LogUpsert(c) \/ RemoveChildren(c) \/ LogDelete(c)
    PROVE  ReplayNext
<1> USE DEF ReplayInv, DurableInv, BasicInv
<1>0. /\ EditorStep /\ PendingBase' = PendingBase
      /\ StagedInv' /\ RevisionIsReplay'
      /\ UNCHANGED <<mode, changes>>
  BY EditorSteps, EditorKeepsHistory DEF EditorStep
<1>t. pc \in [Client -> PC] /\ NoClient \notin Client /\ live \in Tree /\ pending \in Delta
  BY RepositoryAssumption DEF TypeOK
<1>1. ASSUME \/ \E p \in Path, e \in Entry : StoreObject(c, p, e)
             \/ BeginBatch(c) \/ EndBatch(c)
      PROVE  ConnInv' /\ WorkInv'
  <2>1. /\ UNCHANGED <<live, pending, conn, strays>>
        /\ \A d \in Client : \/ pc'[d] = pc[d] /\ arg'[d] = arg[d]
                             \/ pc[d] = "idle" /\ pc'[d] = "insert"
    <3>1. CASE BeginBatch(c) \/ EndBatch(c)
      BY <3>1 DEF BeginBatch, EndBatch, astray
    <3>2. ASSUME NEW p \in Path, NEW e \in Entry, StoreObject(c, p, e) PROVE 
                 /\ UNCHANGED <<live, pending, conn, strays>>
                 /\ \A d \in Client : \/ pc'[d] = pc[d] /\ arg'[d] = arg[d]
                                      \/ pc[d] = "idle" /\ pc'[d] = "insert"
      <4>1. UNCHANGED <<live, pending, conn, strays>>
        BY <3>2 DEF StoreObject, db, astray
      <4>2. pc[c] = "idle" /\ pc' = [pc EXCEPT ![c] = "insert"]
        BY <3>2 DEF StoreObject, Goto
      <4>3. \A d \in Client : d # c => arg'[d] = arg[d]
        BY <3>2 DEF StoreObject, TypeOK
      <4> QED BY <4>1, <4>2, <4>3, <1>t
    <3> QED BY <1>1, <3>1, <3>2
  <2>2. ConnInv'
    BY <2>1, <1>0 DEF ConnInv, NeedsConn, InConn, Storing
  <2>3. WorkInv'
    BY <2>1, <1>0, WorkKept DEF InConn
  <2> QED BY <2>2, <2>3
<1>2. ASSUME LogUpsert(c) \/ LogDelete(c) PROVE ConnInv' /\ WorkInv'
  <2>1. /\ UNCHANGED <<live, strays>> /\ conn' = NoClient
        /\ pc[c] \in {"log_upsert", "log_delete"} /\ pc'[c] = "idle"
        /\ pending' = [pending EXCEPT ![arg[c].path] = IF pc[c] = "log_upsert" THEN arg[c].entry ELSE Delete]
        /\ \A d \in Client : d # c => pc'[d] = pc[d]
    BY <1>2, <1>t DEF LogUpsert, LogDelete, Goto, astray
  <2>2. conn = c /\ \A d \in Client : d # c => ~NeedsConn(d)
    BY <2>1 DEF ConnInv, NeedsConn, InConn
  <2>3. ConnInv'
    BY <2>1, <2>2, <1>0, <1>t DEF ConnInv, NeedsConn, InConn, Storing
  <2>4. Agree(live, ApplyDelta(PendingBase, pending'))
    BY <2>1 DEF WorkInv
  <2>5. Agree(live, ApplyDelta(PendingBase, pending))'
    BY <2>1, <2>4, <1>0 DEF Agree
  <2>6. \A d \in Client : pc'[d] \notin InConn
    BY <2>1, <2>2 DEF NeedsConn, InConn
  <2>7. WorkInv'
    BY <2>5, <2>6 DEF WorkInv, InConn
  <2> QED BY <2>3, <2>7
<1>3. ASSUME RemoveChildren(c) PROVE ConnInv' /\ WorkInv'
  <2>1. /\ UNCHANGED <<pending, conn, arg, strays>>
        /\ pc[c] = "remove_children" /\ pc'[c] = "log_delete"
        /\ live' = DeleteLike(live, arg[c].path)
        /\ \A d \in Client : d # c => pc'[d] = pc[d]
    BY <1>3, <1>t DEF RemoveChildren, Goto, astray
  <2>2. conn = c /\ \A d \in Client : d # c => ~NeedsConn(d)
    BY <2>1 DEF ConnInv, NeedsConn, InConn
  <2>3. ConnInv'
    BY <2>1, <2>2, <1>0, <1>t DEF ConnInv, NeedsConn, InConn
  <2>4. Agree(live', ApplyDelta(PendingBase, [pending EXCEPT ![arg[c].path] = Delete]))
    BY <2>1 DEF WorkInv
  <2>5. Agree(live, ApplyDelta(PendingBase, [pending EXCEPT ![arg[c].path] = Delete]))'
    BY <2>1, <2>4, <1>0 DEF Agree
  <2>6. \A d \in Client : pc'[d] \in InConn => d = c
    BY <2>1, <2>2 DEF NeedsConn
  <2>7. WorkInv'
    BY <2>1, <2>5, <2>6 DEF WorkInv, InConn
  <2> QED BY <2>3, <2>7
<1> QED BY <1>0, <1>1, <1>2, <1>3, InsertReplay, RemoveReplay DEF ReplayNext

-----------------------------------------------------------------------------
(***************************************************************************)
(* The steps of a commit.                                                  *)
(***************************************************************************)
LEMMA AcquireReplay ==
    ASSUME ReplayInv, NEW c \in Client, NEW m \in Modes, AcquireCommitLock(c, m)
    PROVE  ReplayNext
<1> USE DEF ReplayInv, DurableInv, BasicInv
<1>1. \A d \in Client : pc[d] \notin Committing /\ pc[d] \notin Storing
  BY RepositoryAssumption DEF AcquireCommitLock, LockInv, Committing
<1>2. /\ UNCHANGED <<commits, deltas, snapshots, headFile, currentRev, changes, root, seen, drift>>
      /\ UNCHANGED <<live, pending, conn, arg, strays>>
      /\ pc[c] = "idle" /\ pc'[c] = "collect"
      /\ \A d \in Client : d # c => pc'[d] = pc[d]
  BY DEF AcquireCommitLock, Goto, TypeOK, disk, db, memory, astray
<1>3. \A d \in Client : /\ pc'[d] \notin Storing /\ pc'[d] # "post_hook"
                        /\ pc'[d] \in InConn <=> pc[d] \in InConn
  BY <1>1, <1>2 DEF Storing, Committing, InConn
<1>4. HeadRev' = HeadRev /\ PendingBase' = PendingBase
  BY <1>1, <1>2, <1>3 DEF HeadRev, PendingBase
<1>5. ConnInv'
  BY <1>1, <1>2, <1>3 DEF ConnInv, NeedsConn, Committing
<1>6. WorkInv'
  BY <1>2, <1>3, <1>4, WorkKept DEF InConn
<1>7. StagedInv' /\ RevisionIsReplay'
  BY <1>2, <1>3, <1>4, HistoryKept
<1> QED BY <1>5, <1>6, <1>7 DEF ReplayNext

(***************************************************************************)
(* Collecting moves the pending changes into the commit: the live tree is  *)
(* now the last revision plus `changes`.                                   *)
(***************************************************************************)
LEMMA CollectReplay ==
    ASSUME ReplayInv, NEW c \in Client, CollectPending(c)
    PROVE  ReplayNext
<1> USE DEF ReplayInv, DurableInv, BasicInv
<1>1. \A d \in Client : pc[d] \notin Storing /\ (d # c => pc[d] \notin Committing)
  BY Committer DEF CollectPending, Committing, Storing
<1>2. /\ UNCHANGED <<commits, deltas, snapshots, headFile, currentRev, mode, root, seen, live, strays, drift>>
      /\ pc[c] = "collect" /\ pc'[c] = "pre_hook"
      /\ conn = NoClient /\ conn' = c
      /\ changes' = pending /\ pending' = EmptyDelta
      /\ \A d \in Client : d # c => pc'[d] = pc[d]
  BY DEF CollectPending, Goto, TypeOK, disk, memory, astray
<1>3. \A d \in Client : ~NeedsConn(d)
  BY <1>2, RepositoryAssumption DEF ConnInv
<1>4. \A d \in Client : pc'[d] \notin Storing
  BY <1>1, <1>2 DEF Storing
<1>5. HeadRev' = HeadRev /\ PendingBase' = PendingBase
  BY <1>1, <1>2, <1>4 DEF HeadRev, PendingBase
<1>6. ConnInv'
  BY <1>2, <1>3, RepositoryAssumption DEF ConnInv, NeedsConn, InConn
<1>7. Agree(live, ApplyDelta(PendingBase, pending))
  BY <1>3 DEF WorkInv, NeedsConn
<1>8. Agree(live, ApplyDelta(PendingBase, changes))'
  BY <1>2, <1>5, <1>7 DEF Agree
<1>9. WorkInv'
  BY <1>2, <1>3, <1>8 DEF WorkInv, NeedsConn, InConn
<1>10. StagedInv' /\ RevisionIsReplay'
  BY <1>2, <1>4, <1>5, HistoryKept
<1> QED BY <1>6, <1>9, <1>10 DEF ReplayNext

(***************************************************************************)
(* From here on the pending changes are relative to the tree being stored, *)
(* and what was astray is part of it.                                      *)
(***************************************************************************)
LEMMA AcceptReplay ==
    ASSUME ReplayInv, NEW c \in Client, PreCommitAccepts(c)
    PROVE  ReplayNext
<1> USE DEF ReplayInv, DurableInv, BasicInv
<1>1. /\ \A d \in Client : pc[d] \notin Storing /\ (d # c => pc[d] \notin Committing)
      /\ HeadRev = currentRev /\ NewRev \in Revision /\ NewRev \in Nat /\ currentRev \in Nat
  BY Committer DEF PreCommitAccepts, Committing, Storing
<1>2. /\ UNCHANGED <<commits, deltas, snapshots, headFile, currentRev, mode, changes, seen, live, pending, arg>>
      /\ pc[c] = "pre_hook"
      /\ pc'[c] = IF mode = "sync" /\ SnapshotDue THEN "store_snapshot" ELSE "store_commit"
      /\ root' = live
      /\ conn' = IF mode = "async" THEN NoClient ELSE conn
      /\ \A d \in Client : d # c => pc'[d] = pc[d]
      /\ strays' = {}
      /\ drift'[NewRev] = strays /\ \A r \in Revision : r # NewRev => drift'[r] = drift[r]
  BY <1>1 DEF PreCommitAccepts, Goto, TypeOK, disk, db, memory
<1>3. conn = c /\ \A d \in Client : d # c => ~NeedsConn(d)
  BY <1>2 DEF ConnInv, NeedsConn, InConn
<1>4. /\ HeadRev' = HeadRev /\ NewRev' = NewRev /\ SnapshotDue' = SnapshotDue
      /\ PendingBase' = live /\ PendingBase = seen[currentRev]
  BY <1>1, <1>2 DEF HeadRev, NewRev, SnapshotDue, PendingBase, Storing
<1>5. ConnInv'
  BY <1>2, <1>3, RepositoryAssumption DEF ConnInv, NeedsConn, InConn, Storing, TypeOK
<1>6. /\ \A p \in Path \ strays : live[p] = ApplyDelta(seen[currentRev], changes)[p]
      /\ pending = EmptyDelta
  BY <1>2, <1>4 DEF WorkInv, Agree
<1>7. WorkInv'
  <2>1. \A d \in Client : pc'[d] \notin InConn
    BY <1>2, <1>3 DEF NeedsConn, InConn
  <2>2. Agree(live, ApplyDelta(PendingBase, pending))'
    BY <1>2, <1>4, <1>6, ApplyNothing DEF Agree
  <2> QED BY <2>1, <2>2 DEF WorkInv, InConn
<1>8. StagedInv'
  <2>1. ASSUME NEW d \in Client PROVE StagedInv!3!(d)'
    <3>1. CASE d = c
      BY <1>2, <1>4, <1>6, <3>1 DEF Storing
    <3>2. CASE d # c
      BY <1>1, <1>2, <3>2 DEF Storing
    <3> QED BY <3>1, <3>2
  <2> QED BY <2>1, <1>2, <1>4 DEF StagedInv
<1>9. RevisionIsReplay'
  <2>1. \A r \in 1..HeadRev : r \in Revision /\ r # NewRev
    BY <1>1, RepositoryAssumption DEF NewRev, Revision
  <2> QED BY <2>1, <1>2, <1>4 DEF RevisionIsReplay
<1> QED BY <1>5, <1>7, <1>8, <1>9 DEF ReplayNext

(***************************************************************************)
(* A committer that stores keeps the connection, the working tree and the  *)
(* base as they are.                                                       *)
(***************************************************************************)
LEMMA StoringKeepsWork ==
    ASSUME ReplayInv, NEW c \in Client, pc[c] \in Storing, pc'[c] \in Storing,
           UNCHANGED <<live, pending, arg, conn, root, changes, mode, strays>>,
           \A d \in Client : d # c => pc'[d] = pc[d]
    PROVE  ConnInv' /\ WorkInv'
<1> USE DEF ReplayInv
<1>1. PendingBase = root /\ PendingBase' = root
  BY DEF PendingBase
<1>2. \A d \in Client : /\ pc[d] \in InConn <=> pc'[d] \in InConn
                        /\ pc'[d] \in InConn => pc'[d] = pc[d]
  BY DEF InConn, Storing
<1>3. ConnInv'
  BY <1>2 DEF ConnInv, NeedsConn
<1>4. WorkInv'
  BY <1>1, <1>2, WorkKept
<1> QED BY <1>3, <1>4

LEMMA StoreReplay ==
    ASSUME ReplayInv, NEW c \in Client,
           StoreCommit(c) \/ StoreDelta(c) \/ StoreSnapshot(c)
    PROVE  ReplayNext
<1> USE DEF ReplayInv, DurableInv, BasicInv
<1>1. pc[c] \in Storing /\ pc[c] # "publish"
  BY DEF StoreCommit, StoreDelta, StoreSnapshot, Storing
<1>2. /\ \A d \in Client : d # c => pc[d] \notin Storing
      /\ NewRev \in Revision /\ NewRev \in Nat /\ currentRev \in Nat /\ HeadRev = currentRev
  BY <1>1, Committer DEF Committing, Storing
<1>3. /\ UNCHANGED <<headFile, currentRev, live, pending, arg, conn, root, changes, mode, strays, drift>>
      /\ \A d \in Client : d # c => pc'[d] = pc[d]
      /\ pc'[c] \in Storing
  BY DEF StoreCommit, StoreDelta, StoreSnapshot, Goto, TypeOK, Storing, db, memory, commitLocals, astray
<1>4. ConnInv' /\ WorkInv'
  BY <1>1, <1>3, StoringKeepsWork
<1>5. HeadRev' = HeadRev /\ NewRev' = NewRev /\ SnapshotDue' = SnapshotDue
  BY <1>3 DEF HeadRev, NewRev, SnapshotDue
<1>6. NewRev \in 0..MaxRev /\ NewRev # 0 /\ \A r \in 0..currentRev : r # NewRev
  BY <1>2, RepositoryAssumption DEF NewRev, Revision
<1>d. \A d \in Client : d # c => StagedInv!3!(d)'
  BY <1>2, <1>3 DEF Storing
<1>7. CASE StoreCommit(c)
  <2>1. /\ pc[c] = "store_commit" /\ pc'[c] = "store_delta"
        /\ UNCHANGED <<deltas, snapshots>>
        /\ commits'[NewRev] \in {root, DeltaId} /\ seen'[NewRev] = root
        /\ \A r \in Revision : r # NewRev => commits'[r] = commits[r]
        /\ \A r \in 0..MaxRev : r # NewRev => seen'[r] = seen[r]
    BY <1>7, <1>2, <1>6 DEF StoreCommit, Goto, TypeOK
  <2>2. \A r \in 0..currentRev : r \in 0..MaxRev /\ seen'[r] = seen[r]
    BY <2>1, <1>6, <1>2, RepositoryAssumption DEF TypeOK
  <2>3. StagedInv'
    <3>0. currentRev \in 0..currentRev /\ 0 \in 0..currentRev
      BY <1>2
    <3>1. StagedInv!3!(c)'
      BY <2>1, <2>2, <3>0, <1>3, <1>5, <1>1 DEF StagedInv, Storing
    <3> QED BY <3>0, <3>1, <1>d, <2>1, <2>2, <1>2, <1>5 DEF StagedInv
  <2>4. RevisionIsReplay'
    <3> SUFFICES ASSUME NEW r \in 1..HeadRev PROVE RevisionIsReplay!(r)'
      BY <1>5 DEF RevisionIsReplay
    <3>1. r \in 0..currentRev /\ r - 1 \in 0..currentRev /\ r \in Revision /\ r # NewRev
      BY <1>2, <1>6, RepositoryAssumption DEF TypeOK, Revision
    <3> QED BY <3>1, <2>1, <2>2, <1>3 DEF RevisionIsReplay
  <2> QED BY <2>3, <2>4, <1>4 DEF ReplayNext
<1>8. CASE StoreDelta(c)
  <2>1. /\ pc[c] = "store_delta"
        /\ pc'[c] = IF mode = "async" /\ SnapshotDue THEN "store_snapshot" ELSE "truncate_head"
        /\ UNCHANGED <<commits, snapshots, seen>>
        /\ deltas'[NewRev] = changes
        /\ \A r \in Revision : r # NewRev => deltas'[r] = deltas[r]
    BY <1>8, <1>2 DEF StoreDelta, Goto, TypeOK
  <2>2. StagedInv'
    <3>1. StagedInv!3!(c)'
      BY <2>1, <1>3, <1>5, <1>1 DEF StagedInv, Storing, TypeOK
    <3> QED BY <3>1, <1>d, <2>1, <1>5 DEF StagedInv
  <2>3. RevisionIsReplay'
    <3> SUFFICES ASSUME NEW r \in 1..HeadRev PROVE RevisionIsReplay!(r)'
      BY <1>5 DEF RevisionIsReplay
    <3>1. r \in 0..currentRev /\ r \in Revision /\ r # NewRev
      BY <1>2, <1>6, RepositoryAssumption DEF TypeOK, Revision
    <3> QED BY <3>1, <2>1, <1>3 DEF RevisionIsReplay
  <2> QED BY <2>2, <2>3, <1>4 DEF ReplayNext
<1>9. CASE StoreSnapshot(c)
  <2>1. /\ pc[c] = "store_snapshot" /\ SnapshotDue
        /\ pc'[c] = IF mode = "sync" THEN "store_commit" ELSE "truncate_head"
        /\ UNCHANGED <<commits, deltas, seen>>
        /\ snapshots'[NewRev] = root
        /\ \A r \in Revision : r # NewRev => snapshots'[r] = snapshots[r]
    BY <1>9, <1>2 DEF StoreSnapshot, Goto, TypeOK, FilesInv
  <2>2. StagedInv'
    <3>1. StagedInv!3!(c)'
      BY <2>1, <1>3, <1>5, <1>1 DEF StagedInv, Storing, TypeOK
    <3>2. \A r \in Revision : snapshots'[r] # NoTree => r % SnapshotInterval = 0
      BY <2>1 DEF StagedInv, SnapshotDue
    <3> QED BY <3>1, <3>2, <1>d, <2>1, <1>5 DEF StagedInv
  <2>3. RevisionIsReplay'
    <3> SUFFICES ASSUME NEW r \in 1..HeadRev PROVE RevisionIsReplay!(r)'
      BY <1>5 DEF RevisionIsReplay
    <3>1. r \in 0..currentRev /\ r \in Revision /\ r # NewRev
      BY <1>2, <1>6, RepositoryAssumption DEF TypeOK, Revision
    <3> QED BY <3>1, <2>1, <1>3 DEF RevisionIsReplay
  <2> QED BY <2>2, <2>3, <1>4 DEF ReplayNext
<1> QED BY <1>7, <1>8, <1>9

LEMMA SaveHeadReplay ==
    ASSUME ReplayInv, NEW c \in Client, TruncateHead(c) \/ WriteHead(c)
    PROVE  ReplayNext
<1> USE DEF ReplayInv, DurableInv, BasicInv
<1>1. pc[c] \in {"truncate_head", "write_head"} /\ pc[c] \in Storing
  BY DEF TruncateHead, WriteHead, Storing
<1>2. /\ \A d \in Client : d # c => pc[d] \notin Storing
      /\ NewRev \in Revision /\ NewRev \in Nat /\ currentRev \in Nat /\ HeadRev = currentRev
  BY <1>1, Committer DEF Committing, Storing
<1>3. /\ UNCHANGED <<commits, deltas, snapshots, seen, currentRev, drift>>
      /\ UNCHANGED <<live, pending, arg, conn, root, changes, mode, strays>>
      /\ \A d \in Client : d # c => pc'[d] = pc[d]
      /\ pc'[c] \in {"write_head", "publish"} /\ pc'[c] \in Storing
  BY DEF TruncateHead, WriteHead, Goto, TypeOK, Storing, db, memory, commitLocals, astray
<1>4. ConnInv' /\ WorkInv'
  BY <1>1, <1>3, StoringKeepsWork
<1>5. NewRev' = NewRev /\ SnapshotDue' = SnapshotDue
  BY <1>3 DEF NewRev, SnapshotDue
<1>6. \A d \in Client : StagedInv!3!(d)'
  <2>1. StagedInv!3!(c)'
    BY <1>1, <1>3, <1>5 DEF StagedInv, Storing
  <2>2. \A d \in Client : d # c => StagedInv!3!(d)'
    BY <1>2, <1>3 DEF Storing
  <2> QED BY <2>1, <2>2
<1>s. /\ seen[NewRev] = root /\ root \in Tree
      /\ \A p \in Path \ drift[NewRev] : root[p] = ApplyDelta(seen[currentRev], changes)[p]
      /\ deltas[NewRev] = changes
      /\ commits[NewRev] \in {root, DeltaId}
      /\ SnapshotDue => snapshots[NewRev] = root
  BY <1>1 DEF StagedInv, TypeOK
<1>7. CASE TruncateHead(c)
  <2>1. HeadRev' = HeadRev
    BY <1>7, <1>2, <1>3 DEF TruncateHead, HeadRev
  <2>2. StagedInv' /\ RevisionIsReplay'
    BY <2>1, <1>3, <1>6 DEF StagedInv, RevisionIsReplay
  <2> QED BY <2>2, <1>4 DEF ReplayNext
<1>8. CASE WriteHead(c)
  <2>1. HeadRev' = NewRev
    BY <1>8, <1>2, RepositoryAssumption DEF WriteHead, HeadRev
  <2>2. snapshots[NewRev] \in {root, NoTree}
    BY <1>s, <1>2 DEF StagedInv, SnapshotDue
  <2>3. \A r \in 0..NewRev : r \in 0..HeadRev \/ r = NewRev
    BY <1>2 DEF NewRev
  <2>4. StagedInv'
    BY <2>1, <2>3, <1>s, <1>3, <1>6 DEF StagedInv
  <2>5. RevisionIsReplay'
    <3> SUFFICES ASSUME NEW r \in 1..NewRev PROVE RevisionIsReplay!(r)'
      BY <2>1 DEF RevisionIsReplay
    <3>1. CASE r \in 1..HeadRev
      BY <3>1, <1>3 DEF RevisionIsReplay
    <3>2. CASE r \notin 1..HeadRev
      <4>1. r = NewRev /\ r - 1 = currentRev
        BY <3>2, <1>2 DEF NewRev
      <4> QED BY <4>1, <2>2, <1>s, <1>3
    <3> QED BY <3>1, <3>2
  <2> QED BY <2>4, <2>5, <1>4 DEF ReplayNext
<1> QED BY <1>7, <1>8

(***************************************************************************)
(* current_rev moves on, and with it the base: from the tree being stored  *)
(* to the tree of the new revision, which is the same.                     *)
(***************************************************************************)
LEMMA PublishReplay ==
    ASSUME ReplayInv, NEW c \in Client, Publish(c)
    PROVE  ReplayNext
<1> USE DEF ReplayInv, DurableInv, BasicInv
<1>1. pc[c] = "publish" /\ pc[c] \in Storing
  BY DEF Publish, Storing
<1>2. /\ \A d \in Client : d # c => pc[d] \notin Storing /\ pc[d] \notin Committing
      /\ NewRev \in Revision /\ NewRev \in Nat /\ currentRev \in Nat /\ phase = "up"
  BY <1>1, Committer DEF Committing, Storing
<1>3. /\ UNCHANGED <<commits, deltas, snapshots, seen, headFile, drift>>
      /\ UNCHANGED <<live, pending, arg, conn, root, changes, mode, strays>>
      /\ \A d \in Client : d # c => pc'[d] = pc[d]
      /\ pc'[c] = "post_hook" /\ currentRev' = NewRev
  BY DEF Publish, Goto, TypeOK, disk, db, commitLocals, astray
<1>4. headFile = NewRev /\ headFile # Torn
  BY <1>1, <1>2 DEF HeadInv, Storing
<1>5. HeadRev = NewRev /\ HeadRev' = NewRev
  BY <1>3, <1>4 DEF HeadRev
<1>6. seen[NewRev] = root
  BY <1>1 DEF StagedInv
<1>7. \A d \in Client : pc'[d] \notin Storing
  BY <1>2, <1>3 DEF Storing
<1>8. PendingBase = root /\ PendingBase' = root
  BY <1>1, <1>3, <1>5, <1>6, <1>7 DEF PendingBase
<1>9. \A d \in Client : /\ pc[d] \in InConn <=> pc'[d] \in InConn
                        /\ pc'[d] \in InConn => pc'[d] = pc[d]
  BY <1>1, <1>3 DEF InConn
<1>10. ConnInv'
  BY <1>1, <1>3, <1>9 DEF ConnInv, NeedsConn
<1>11. WorkInv'
  BY <1>3, <1>8, <1>9, WorkKept
<1>12. StagedInv' /\ RevisionIsReplay'
  BY <1>3, <1>5, <1>7, HistoryKept
<1> QED BY <1>10, <1>11, <1>12 DEF ReplayNext

LEMMA PostCommitReplay ==
    ASSUME ReplayInv, NEW c \in Client, PostCommit(c)
    PROVE  ReplayNext
<1> USE DEF ReplayInv, DurableInv, BasicInv
<1>1. \A d \in Client : pc[d] \notin Storing /\ (d # c => pc[d] \notin Committing)
  BY Committer DEF PostCommit, Committing, Storing
<1>2. /\ UNCHANGED <<commits, deltas, snapshots, headFile, currentRev, mode, seen, drift>>
      /\ UNCHANGED <<live, pending, arg, strays>>
      /\ pc[c] = "post_hook" /\ pc'[c] = "idle"
      /\ conn' = IF mode = "sync" THEN NoClient ELSE conn
      /\ \A d \in Client : d # c => pc'[d] = pc[d]
  BY DEF PostCommit, Goto, TypeOK, disk, db, memory, astray
<1>3. \A d \in Client : /\ pc'[d] \notin Storing /\ pc'[d] # "pre_hook"
                        /\ pc[d] \in InConn <=> pc'[d] \in InConn
                        /\ pc'[d] \in InConn => pc'[d] = pc[d]
  BY <1>1, <1>2 DEF Storing, InConn, Committing
<1>4. HeadRev' = HeadRev /\ PendingBase' = PendingBase
  BY <1>1, <1>2, <1>3 DEF HeadRev, PendingBase
<1>5. ConnInv'
  <2>1. mode = "sync" => conn = c
    BY <1>2 DEF ConnInv, NeedsConn
  <2>2. mode # "sync" => conn # c
    BY <1>2 DEF ConnInv, NeedsConn, InConn
  <2> QED BY <1>1, <1>2, <1>3, <2>1, <2>2, RepositoryAssumption DEF ConnInv, NeedsConn, Committing, InConn
<1>6. WorkInv'
  BY <1>2, <1>3, <1>4, WorkKept
<1>7. StagedInv' /\ RevisionIsReplay'
  BY <1>2, <1>3, <1>4, HistoryKept
<1> QED BY <1>5, <1>6, <1>7 DEF ReplayNext

-----------------------------------------------------------------------------
(***************************************************************************)
(* Clients that stop.  An editor or a committer in its hook holds back     *)
(* nothing at the paths it does not leave behind.                          *)
(***************************************************************************)
LEMMA EditLeft ==
    ASSUME ReplayInv, NEW c \in Client, pc[c] \in InConn,
           NEW q \in Path \ (strays \cup LeftBehind(c))
    PROVE  live[q] = ApplyDelta(PendingBase, pending)[q]
<1> USE DEF ReplayInv, DurableInv, BasicInv
<1>t. live \in Tree /\ pending \in Delta
  BY DEF TypeOK
<1>1. ASSUME pc[c] \in {"log_upsert", "remove_children", "log_delete"}
      PROVE  live[q] = ApplyDelta(PendingBase, pending)[q]
  <2>1. PICK p \in Path : p = arg[c].path
    BY <1>1 DEF ArgInv
  <2>2. q # p /\ <<p, q>> \notin LikeBelow /\ <<p, q>> \notin Below
    BY <1>1, <2>1, PathAssumption DEF LeftBehind
  <2>3. CASE pc[c] = "log_upsert"
    <3>1. PICK e \in Entry : e = arg[c].entry
      BY <2>3 DEF ArgInv
    <3>2. live[q] = ApplyDelta(PendingBase, [pending EXCEPT ![p] = e])[q]
      BY <2>3, <2>1, <3>1 DEF WorkInv, Agree
    <3> QED BY <3>2, <2>2, <1>t, UpsertReplay
  <2>4. CASE pc[c] \in {"remove_children", "log_delete"}
    <3>1. DeleteLike(live, p)[q] = live[q]
      BY <2>2 DEF DeleteLike
    <3>2. live[q] = ApplyDelta(PendingBase, [pending EXCEPT ![p] = Delete])[q]
      BY <2>4, <2>1, <3>1 DEF WorkInv, Agree
    <3> QED BY <3>2, <2>2, <1>t, DeleteReplay
  <2> QED BY <1>1, <2>3, <2>4
<1>2. ASSUME pc[c] = "pre_hook" PROVE live[q] = ApplyDelta(PendingBase, pending)[q]
  <2>1. q \notin Touched(changes)
    BY <1>2 DEF LeftBehind
  <2>2. pending = EmptyDelta /\ live[q] = ApplyDelta(PendingBase, changes)[q]
    BY <1>2 DEF WorkInv, Agree
  <2> QED BY <2>1, <2>2, ReplayUntouched, ApplyNothing
<1> QED BY <1>1, <1>2 DEF InConn

(***************************************************************************)
(* Nor does a committer that stores: there, the tree it was storing is the *)
(* last revision.                                                          *)
(***************************************************************************)
LEMMA CommitLeft ==
    ASSUME ReplayInv, NEW c \in Client, pc[c] \in Storing, NEW q \in Path \ LeftBehind(c)
    PROVE  root[q] = seen[HeadRev][q]
<1> USE DEF ReplayInv, DurableInv, BasicInv
<1>1. CASE pc[c] = "publish"
  <2>1. headFile = NewRev /\ headFile # Torn
    <3>1. phase = "up" /\ \A d \in Client : pc[d] # "write_head"
      BY <1>1, Committer DEF Committing, Storing
    <3> QED BY <1>1, <3>1 DEF HeadInv
  <2>2. seen[NewRev] = root
    BY <1>1 DEF StagedInv
  <2> QED BY <2>1, <2>2 DEF HeadRev
<1>2. CASE pc[c] # "publish"
  <2>1. HeadRev = currentRev
    BY <1>2, Committer DEF Committing
  <2>2. q \notin Touched(changes) /\ q \notin drift[NewRev]
    BY <1>2 DEF LeftBehind
  <2>3. root[q] = ApplyDelta(seen[currentRev], changes)[q]
    BY <2>2 DEF StagedInv
  <2> QED BY <2>1, <2>2, <2>3, ReplayUntouched
<1> QED BY <1>1, <1>2

(***************************************************************************)
(* `?` and a rejection: one client returns, its guards drop.               *)
(***************************************************************************)
LEMMA StopsReplay ==
    ASSUME ReplayInv, NEW c \in Client, pc[c] # "idle", pc[c] # "post_hook",
           UNCHANGED <<commits, deltas, snapshots, headFile, currentRev, mode, seen, drift>>,
           UNCHANGED <<live, pending>>,
           pc' = [pc EXCEPT ![c] = "idle"],
           conn' = IF conn = c THEN NoClient ELSE conn,
           commitLock # c => UNCHANGED <<changes, root>>,
           \A d \in Client : d # c => arg'[d] = arg[d],
           strays' = strays \cup LeftBehind(c)
    PROVE  ReplayNext
<1> USE DEF ReplayInv, DurableInv, BasicInv
<1>1. pc'[c] = "idle" /\ \A d \in Client : d # c => pc'[d] = pc[d]
  BY DEF TypeOK
<1>2. \A d \in Client : d # c /\ pc[d] \in Committing => UNCHANGED <<changes, root>>
  BY DEF LockInv
<1>3. ConnInv'
  BY <1>1, RepositoryAssumption DEF ConnInv, NeedsConn, InConn, Storing
<1>4. HeadRev' = HeadRev
  BY DEF HeadRev
<1>5. StagedInv' /\ RevisionIsReplay'
  BY <1>1, <1>2, <1>4, HistoryKept DEF Committing, Storing
<1>6. CASE pc[c] \in Storing
  <2>1. \A d \in Client : d # c => pc[d] \notin Committing /\ pc[d] \notin Storing
    BY <1>6, Committer DEF Committing
  <2>2. PendingBase = root /\ PendingBase' = seen[HeadRev]
    BY <1>6, <1>1, <1>4, <2>1 DEF PendingBase, Storing
  <2>3. \A q \in Path \ strays' : PendingBase'[q] = PendingBase[q]
    BY <1>6, <2>2, CommitLeft
  <2>4. \A d \in Client : /\ pc[d] \in InConn <=> pc'[d] \in InConn
                          /\ pc'[d] \in InConn => pc'[d] = pc[d] /\ arg'[d] = arg[d]
                          /\ pc'[d] # "pre_hook"
    BY <1>6, <1>1, <2>1 DEF InConn, Storing, Committing
  <2>5. WorkInv'
    BY <2>3, <2>4, WorkKept
  <2> QED BY <1>3, <1>5, <2>5 DEF ReplayNext
<1>7. CASE pc[c] \notin Storing
  <2>1. PendingBase' = PendingBase
    <3>1. \A d \in Client : pc'[d] \in Storing <=> pc[d] \in Storing
      BY <1>1, <1>7 DEF Storing
    <3>2. (\E d \in Client : pc[d] \in Storing) => root' = root
      BY <1>2, <1>7 DEF Committing
    <3> QED BY <1>4, <3>1, <3>2 DEF PendingBase
  <2>2. CASE pc[c] \in InConn
    <3>1. \A d \in Client : pc'[d] \notin InConn
      BY <2>2, <1>1 DEF ConnInv, NeedsConn, InConn
    <3>2. Agree(live, ApplyDelta(PendingBase, pending))'
      BY <2>1, <2>2, EditLeft DEF Agree
    <3>3. WorkInv'
      BY <3>1, <3>2 DEF WorkInv, InConn
    <3> QED BY <1>3, <1>5, <3>3 DEF ReplayNext
  <2>3. CASE pc[c] \notin InConn
    <3>1. \A d \in Client : /\ pc[d] \in InConn <=> pc'[d] \in InConn
                            /\ pc'[d] \in InConn => pc'[d] = pc[d] /\ arg'[d] = arg[d]
                            /\ pc'[d] = "pre_hook" => changes' = changes
      BY <2>3, <1>1, <1>2 DEF InConn, Committing
    <3>2. WorkInv'
      BY <2>1, <3>1, WorkKept
    <3> QED BY <1>3, <1>5, <3>2 DEF ReplayNext
  <2> QED BY <2>2, <2>3
<1> QED BY <1>6, <1>7

LEMMA FailReplay ==
    ASSUME ReplayInv, NEW c \in Client, PreCommitRejects(c) \/ Fail(c)
    PROVE  ReplayNext
<1> USE DEF ReplayInv, DurableInv, BasicInv
<1>1. CASE PreCommitRejects(c)
  <2>1. conn = c /\ commitLock = c
    BY <1>1 DEF PreCommitRejects, ConnInv, NeedsConn, InConn, LockInv, Committing
  <2>2. /\ UNCHANGED <<commits, deltas, snapshots, headFile, currentRev, mode, seen, drift>>
        /\ UNCHANGED <<live, pending, arg>>
        /\ pc[c] = "pre_hook" /\ pc' = [pc EXCEPT ![c] = "idle"]
        /\ conn' = NoClient /\ strays' = strays \cup LeftBehind(c)
    BY <1>1 DEF PreCommitRejects, Goto, disk, db, memory
  <2> QED BY <2>1, <2>2, StopsReplay
<1>2. CASE Fail(c)
  <2>1. /\ UNCHANGED <<commits, deltas, snapshots, headFile, currentRev, mode, seen, drift>>
        /\ UNCHANGED <<live, pending>>
        /\ pc[c] # "idle" /\ pc[c] # "post_hook"
        /\ pc' = [pc EXCEPT ![c] = "idle"]
        /\ conn' = IF conn = c THEN NoClient ELSE conn
        /\ commitLock # c => UNCHANGED <<changes, root>>
        /\ strays' = strays \cup LeftBehind(c)
    BY <1>2 DEF Fail, Goto, disk, db, memory
  <2>2. \A d \in Client : d # c => arg'[d] = arg[d]
    BY <1>2 DEF Fail, TypeOK
  <2> QED BY <2>1, <2>2, StopsReplay
<1> QED BY <1>1, <1>2

(***************************************************************************)
(* All clients stop at once.  A transaction that rolls back leaves every   *)
(* path astray; without one the two tables stay as they are.               *)
(***************************************************************************)
LEMMA CrashReplay ==
    ASSUME "torn_head" \notin Faults, ReplayInv, Crash
    PROVE  ReplayNext
<1> USE DEF ReplayInv, DurableInv, BasicInv
<1>1. /\ UNCHANGED <<commits, deltas, snapshots, headFile, seen, drift>>
      /\ headFile # Torn /\ conn' = NoClient
      /\ \A d \in Client : pc'[d] = "idle"
  BY DEF Crash, disk
<1>2. HeadRev' = HeadRev /\ PendingBase' = seen[HeadRev]
  BY <1>1 DEF HeadRev, PendingBase, Storing
<1>3. ConnInv'
  BY <1>1, RepositoryAssumption DEF ConnInv, NeedsConn, InConn, Storing
<1>4. StagedInv' /\ RevisionIsReplay'
  BY <1>1, <1>2, HistoryKept DEF Storing
<1>5. Agree(live, ApplyDelta(PendingBase, pending))'
  <2>1. CASE tx
    <3>1. strays' = Path
      BY <2>1 DEF Crash
    <3> QED BY <3>1 DEF Agree
  <2>2. CASE ~tx
    <3>1. /\ UNCHANGED <<live, pending>>
          /\ strays' = strays \cup UNION {LeftBehind(c) : c \in Client}
      BY <2>2 DEF Crash
    <3>2. SUFFICES ASSUME NEW q \in Path \ strays'
                   PROVE  live[q] = ApplyDelta(seen[HeadRev], pending)[q]
      BY <3>1, <1>2 DEF Agree
    <3>3. q \notin strays /\ \A c \in Client : q \notin LeftBehind(c)
      BY <3>1, <3>2
    <3>4. live[q] = ApplyDelta(PendingBase, pending)[q]
      <4>1. CASE \E c \in Client : pc[c] \in InConn
        BY <4>1, <3>3, EditLeft
      <4>2. CASE \A c \in Client : pc[c] \notin InConn
        BY <4>2, <3>3 DEF WorkInv, Agree
      <4> QED BY <4>1, <4>2
    <3>5. PendingBase[q] = seen[HeadRev][q]
      <4>1. CASE \E c \in Client : pc[c] \in Storing
        <5>1. PendingBase = root
          BY <4>1 DEF PendingBase
        <5> QED BY <4>1, <5>1, <3>3, CommitLeft
      <4>2. CASE ~\E c \in Client : pc[c] \in Storing
        BY <4>2 DEF PendingBase
      <4> QED BY <4>1, <4>2
    <3> QED BY <3>4, <3>5, ReplayLocal
  <2> QED BY <2>1, <2>2
<1>6. WorkInv'
  BY <1>1, <1>5 DEF WorkInv, InConn
<1> QED BY <1>3, <1>4, <1>6 DEF ReplayNext

(***************************************************************************)
(* open and initialize.  A row that initialize puts back is astray: no     *)
(* change accounts for it.                                                 *)
(***************************************************************************)
LEMMA RestartReplay ==
    ASSUME "torn_head" \notin Faults, ReplayInv, Restart
    PROVE  ReplayNext
<1> USE DEF ReplayInv, DurableInv, BasicInv
<1>1. /\ UNCHANGED <<commits, deltas, snapshots, headFile, seen, drift>>
      /\ UNCHANGED <<pending, pc, arg, conn, mode, changes, root>>
      /\ \A d \in Client : pc[d] = "idle"
      /\ headFile # Torn
  <2>1. /\ UNCHANGED <<commits, deltas, snapshots, headFile, seen, drift>>
        /\ UNCHANGED <<pending, pc, arg, conn, mode, changes, root>>
        /\ phase # "up"
    BY DEF Restart, Open, PopulateRow, Initialized, disk, db, commitLocals, astray
  <2> QED BY <2>1 DEF LockInv, HeadInv
<1>2. HeadRev' = HeadRev /\ PendingBase' = PendingBase
  BY <1>1 DEF HeadRev, PendingBase
<1>3. ConnInv'
  BY <1>1 DEF ConnInv, NeedsConn
<1>4. StagedInv' /\ RevisionIsReplay'
  BY <1>1, <1>2, HistoryKept DEF Storing
<1>5. Agree(live, ApplyDelta(PendingBase, pending))
  BY <1>1 DEF WorkInv, InConn
<1>6. Agree(live, ApplyDelta(PendingBase, pending))'
  <2>1. CASE Open \/ Initialized
    <3>1. UNCHANGED <<live, strays>>
      BY <2>1 DEF Open, Initialized, db, astray
    <3> QED BY <3>1, <1>1, <1>2, <1>5 DEF Agree
  <2>2. ASSUME NEW p \in Path, NEW e \in Entry, PopulateRow(p, e)
        PROVE  Agree(live, ApplyDelta(PendingBase, pending))'
    <3>1. strays' = strays \cup {p} /\ live' = UpsertRow(live, p, e)
      BY <2>2 DEF PopulateRow
    <3>2. \A q \in Path \ strays' : live'[q] = live[q] /\ q \notin strays
      BY <3>1 DEF UpsertRow, TypeOK, Tree
    <3> QED BY <3>2, <1>1, <1>2, <1>5 DEF Agree
  <2> QED BY <2>1, <2>2 DEF Restart
<1>7. WorkInv'
  BY <1>1, <1>6 DEF WorkInv, InConn
<1> QED BY <1>3, <1>4, <1>7 DEF ReplayNext

-----------------------------------------------------------------------------
LEMMA ReplayInit == Init => ReplayInv
<1> SUFFICES ASSUME Init PROVE ReplayInv
  OBVIOUS
<1>1. HeadRev = 0 /\ PendingBase = EmptyTree
  BY RepositoryAssumption DEF Init, HeadRev, PendingBase, Storing
<1>2. ConnInv
  BY RepositoryAssumption DEF Init, ConnInv, NeedsConn, InConn, Storing
<1>3. WorkInv
  BY <1>1, ApplyNothing DEF Init, WorkInv, Agree, InConn
<1>4. StagedInv
  BY <1>1, TreeTypes, RepositoryAssumption DEF Init, StagedInv, Storing
<1>5. RevisionIsReplay
  BY <1>1 DEF RevisionIsReplay
<1> QED BY <1>2, <1>3, <1>4, <1>5, DurableInit DEF ReplayInv

LEMMA ReplayStep ==
    ASSUME "torn_head" \notin Faults
    PROVE  ReplayInv /\ [Next]_vars => ReplayInv'
<1> SUFFICES ASSUME ReplayInv, [Next]_vars PROVE ReplayInv'
  OBVIOUS
<1>1. DurableInv'
  BY DurableStep DEF ReplayInv
<1>2. CASE UNCHANGED vars
  <2>0. /\ UNCHANGED <<commits, deltas, snapshots, headFile, currentRev, seen, drift>>
        /\ UNCHANGED <<live, pending, pc, arg, conn, mode, changes, root, strays>>
    BY <1>2 DEF vars, disk, db, memory, commitLocals, astray
  <2>1. UNCHANGED <<HeadRev, PendingBase>>
    BY <2>0 DEF HeadRev, PendingBase
  <2>2. ConnInv'
    BY <2>0 DEF ReplayInv, ConnInv, NeedsConn
  <2>3. WorkInv'
    BY <2>0, <2>1, WorkKept DEF ReplayInv
  <2>4. StagedInv' /\ RevisionIsReplay'
    BY <2>0, <2>1, HistoryKept DEF ReplayInv
  <2> QED BY <1>1, <2>2, <2>3, <2>4 DEF ReplayInv
<1>3. CASE Next
  <2>1. ReplayNext
    BY <1>3, EditsReplay, AcquireReplay, CollectReplay, AcceptReplay, StoreReplay, SaveHeadReplay,
       PublishReplay, PostCommitReplay, FailReplay, CrashReplay, RestartReplay DEF Next, Edit, Continue
  <2> QED BY <1>1, <2>1 DEF ReplayNext, ReplayInv
<1> QED BY <1>2, <1>3

(***************************************************************************)
(* Unless refs/head is torn, every delta leads from the tree of its parent *)
(* to the tree its commit was taken from at every path that was not astray *)
(* then, and snapshots and tree objects are that tree: for any number of   *)
(* clients that edit, delete whole directories and commit concurrently,    *)
(* and through any rejection, failed write, crash and restart.             *)
(***************************************************************************)
THEOREM ReplayFaithful ==
    ASSUME "torn_head" \notin Faults
    PROVE  Spec => []RevisionIsReplay
<1>1. ReplayInv => RevisionIsReplay
  BY DEF ReplayInv
<1>2. ReplayInv /\ [Next]_vars => ReplayInv'
  BY ReplayStep
<1> QED BY <1>1, <1>2, ReplayInit, PTL DEF Spec

(***************************************************************************)
(* Under the same condition tree_entries holds, at every path that is not  *)
(* astray, what the last revision and pending_changes say whenever the     *)
(* connection is free.                                                     *)
(***************************************************************************)
THEOREM WorkingTreeFaithful ==
    ASSUME "torn_head" \notin Faults
    PROVE  Spec => []WorkingTreeAgrees
<1>1. ASSUME ReplayInv PROVE WorkingTreeAgrees
  <2>1. SUFFICES ASSUME conn = NoClient PROVE Agree(live, ApplyDelta(PendingBase, pending))
    BY DEF WorkingTreeAgrees, Agree
  <2>2. \A c \in Client : pc[c] \notin InConn
    BY <1>1, <2>1, RepositoryAssumption DEF ReplayInv, ConnInv, NeedsConn
  <2> QED BY <1>1, <2>2 DEF ReplayInv, WorkInv
<1>2. ReplayInv /\ [Next]_vars => ReplayInv'
  BY ReplayStep
<1> QED BY <1>1, <1>2, ReplayInit, PTL DEF Spec

-----------------------------------------------------------------------------
(***************************************************************************)
(* get_tree_at_rev.  Without a snapshot a revision inherits what drifted   *)
(* before it, and adds its own.                                            *)
(***************************************************************************)
LEMMA DriftGrows ==
    ASSUME NEW m \in Nat, m # 0, snapshots[m] = NoTree
    PROVE  drift[m] \subseteq Drifted(m) /\ Drifted(m - 1) \subseteq Drifted(m)
<1>1. m \in 1..m /\ \A j \in m..m : snapshots[j] = NoTree
  OBVIOUS
<1>2. drift[m] \subseteq Drifted(m)
  BY <1>1 DEF Drifted
<1>3. ASSUME NEW i \in 1..(m - 1), \A j \in i..(m - 1) : snapshots[j] = NoTree
      PROVE  i \in 1..m /\ \A j \in i..m : snapshots[j] = NoTree
  <2>1. \A j \in i..m : j \in i..(m - 1) \/ j = m
    OBVIOUS
  <2> QED BY <1>3, <2>1
<1>4. Drifted(m - 1) \subseteq Drifted(m)
  BY <1>3 DEF Drifted
<1> QED BY <1>2, <1>4

(***************************************************************************)
(* A least revision that is reconstructed otherwise than it was seen has a *)
(* parent that is not.                                                     *)
(***************************************************************************)
LEMMA ReconstructionIsSeen ==
    ASSUME ReplayInv
    PROVE  ReconstructionFaithful
<1> USE DEF ReplayInv, DurableInv, BasicInv
<1>1. HeadRev \in Nat
  BY RepositoryAssumption DEF HeadRev, TypeOK
<1>2. TreeAtRev = [r \in 0..HeadRev |-> ReadFiles(TreeAtRev[r - 1], r)]
  BY <1>1, TreeEquation
<1>3. SUFFICES ASSUME NEW n \in 0..HeadRev, NEW q \in Path \ Drifted(n), TreeAtRev[n][q] # seen[n][q]
               PROVE  FALSE
  BY DEF ReconstructionFaithful
<1> DEFINE D == {r \in 0..HeadRev : q \notin Drifted(r) /\ TreeAtRev[r][q] # seen[r][q]}
<1>4. D \subseteq Nat /\ D # {}
  BY <1>1, <1>3
<1> HIDE DEF D
<1>5. PICK m \in D : \A k \in D : ~(k < m)
  BY <1>4, LeastElement
<1>6. m \in 0..HeadRev /\ m \in Nat /\ q \notin Drifted(m) /\ TreeAtRev[m][q] # seen[m][q]
  BY <1>5, <1>1 DEF D
<1>7. TreeAtRev[m] = ReadFiles(TreeAtRev[m - 1], m)
  BY <1>2, <1>6
<1>8. CASE m = 0
  BY <1>6, <1>7, <1>8 DEF ReadFiles, StagedInv
<1>9. CASE m # 0
  <2>1. m \in 1..HeadRev /\ m - 1 \in 0..HeadRev /\ m - 1 < m
    BY <1>6, <1>9, <1>1
  <2>2. CASE snapshots[m] # NoTree
    <3>1. snapshots[m] = seen[m]
      BY <2>1, <2>2 DEF RevisionIsReplay
    <3> QED BY <1>6, <1>7, <1>9, <2>2, <3>1 DEF ReadFiles
  <2>3. CASE snapshots[m] = NoTree
    <3>1. q \notin drift[m] /\ q \notin Drifted(m - 1)
      BY <1>6, <1>9, <2>3, DriftGrows
    <3>2. deltas[m] # NoDelta
      BY <2>1 DEF RevisionsComplete
    <3>3. TreeAtRev[m - 1][q] = seen[m - 1][q]
      BY <2>1, <3>1, <1>5 DEF D
    <3>4. seen[m][q] = ApplyDelta(seen[m - 1], deltas[m])[q]
      BY <2>1, <3>1 DEF RevisionIsReplay
    <3>5. TreeAtRev[m] = ApplyDelta(TreeAtRev[m - 1], deltas[m])
      BY <1>7, <1>9, <2>3, <3>2 DEF ReadFiles
    <3>6. ApplyDelta(TreeAtRev[m - 1], deltas[m])[q] = ApplyDelta(seen[m - 1], deltas[m])[q]
      BY <3>3, ReplayLocal
    <3> QED BY <3>4, <3>5, <3>6, <1>6
  <2> QED BY <2>2, <2>3
<1> QED BY <1>8, <1>9

(***************************************************************************)
(* Unless refs/head is torn, get_tree_at_rev returns for every revision    *)
(* what was live when its commit collected it, at every path that did not  *)
(* go astray since the nearest snapshot: what a rejection, a failure, a    *)
(* crash or a deleted directory spoils is its own paths, until the next    *)
(* snapshot.                                                               *)
(***************************************************************************)
THEOREM ReconstructionCorrect ==
    ASSUME "torn_head" \notin Faults
    PROVE  Spec => []ReconstructionFaithful
<1>1. ReplayInv => ReconstructionFaithful
  BY ReconstructionIsSeen
<1>2. ReplayInv /\ [Next]_vars => ReplayInv'
  BY ReplayStep
<1> QED BY <1>1, <1>2, ReplayInit, PTL DEF Spec

-----------------------------------------------------------------------------
(***************************************************************************)
(* The repository implements RepositoryHistory, for every instance, in     *)
(* every step between two states where no path is astray.                  *)
(***************************************************************************)
HView == <<WorkTree, TakenTree, StoredHistory>>

(***************************************************************************)
(* In such a state the stored history is the trees seen.                   *)
(***************************************************************************)
HistoryIsSeen ==
    /\ HeadRev \in Nat
    /\ StoredHistory = [r \in 1..HeadRev |-> seen[r]]

LEMMA StoredIsSeen == ReplayInv /\ Settled => HistoryIsSeen
<1> SUFFICES ASSUME ReplayInv, Settled PROVE HistoryIsSeen
  OBVIOUS
<1> USE DEF ReplayInv, DurableInv, BasicInv
<1>1. HeadRev \in Nat /\ HeadRev \in 0..MaxRev
  BY RepositoryAssumption DEF TypeOK, HeadRev
<1>2. TreeAtRev = [r \in 0..HeadRev |-> ReadFiles(TreeAtRev[r - 1], r)]
  BY <1>1, TreeEquation
<1>3. ReconstructionFaithful
  BY ReconstructionIsSeen
<1> HIDE DEF ReplayInv, DurableInv, BasicInv
<1>4. ASSUME NEW r \in 1..HeadRev PROVE TreeAtRev[r] = seen[r]
  <2>1. r \in 0..HeadRev /\ r # 0 /\ r \in Revision
    BY <1>1, RepositoryAssumption DEF Revision
  <2>2. seen[r] \in Tree
    BY <2>1 DEF ReplayInv, StagedInv
  <2>3. TreeAtRev[r] = ReadFiles(TreeAtRev[r - 1], r)
    BY <1>2, <2>1
  <2>4. CASE snapshots[r] # NoTree
    BY <1>4, <2>1, <2>3, <2>4 DEF ReadFiles, ReplayInv, RevisionIsReplay
  <2>5. CASE snapshots[r] = NoTree
    <3>1. deltas[r] # NoDelta
      BY <1>4 DEF ReplayInv, DurableInv, RevisionsComplete
    <3>2. TreeAtRev[r] = ApplyDelta(TreeAtRev[r - 1], deltas[r])
      BY <2>1, <2>3, <2>5, <3>1 DEF ReadFiles
    <3>3. Drifted(r) = {}
      <4>1. \A k \in 1..r : k \in Revision
        BY <1>1, RepositoryAssumption DEF Revision
      <4> QED BY <4>1 DEF Drifted, Settled
    <3>4. \A p \in Path : TreeAtRev[r][p] = seen[r][p]
      BY <1>3, <2>1, <3>3 DEF ReconstructionFaithful
    <3>5. TreeAtRev[r] = [p \in Path |-> TreeAtRev[r][p]]
      BY <3>2 DEF ApplyDelta
    <3>6. seen[r] = [p \in Path |-> seen[r][p]]
      BY <2>2 DEF Tree
    <3> QED BY <3>4, <3>5, <3>6
  <2> QED BY <2>4, <2>5
<1> QED BY <1>1, <1>4 DEF StoredHistory, HistoryIsSeen

LEMMA StoredIsSeenNext == ReplayInv' /\ Settled' => HistoryIsSeen'
BY StoredIsSeen, PTL

(***************************************************************************)
(* A step that keeps the head and the trees seen so far keeps the history. *)
(***************************************************************************)
LEMMA HistoryUnchanged ==
    ASSUME ReplayInv, ReplayInv', Settled, Settled', HeadRev' = HeadRev,
           \A r \in 1..HeadRev : seen'[r] = seen[r]
    PROVE  StoredHistory' = StoredHistory
BY StoredIsSeen, StoredIsSeenNext DEF HistoryIsSeen

(***************************************************************************)
(* The working tree.  Outside a delete it is tree_entries.                 *)
(***************************************************************************)
LEMMA WorkIsLive ==
    ASSUME live \in Tree, \A d \in Client : pc[d] # "remove_children"
    PROVE  WorkTree = live
<1>1. WorkTree = [p \in Path |-> live[p]]
  BY DEF WorkTree
<1> QED BY <1>1 DEF Tree

LEMMA WorkIsLiveNext ==
    (live \in Tree)' /\ (\A d \in Client : pc[d] # "remove_children")' => (WorkTree = live)'
<1>1. live \in Tree /\ (\A d \in Client : pc[d] # "remove_children") => WorkTree = live
  BY WorkIsLive
<1> QED BY <1>1, PTL

LEMMA WorkKeeps ==
    ASSUME live' = live,
           \A d \in Client : pc[d] = "remove_children" \/ pc'[d] = "remove_children"
                             => pc'[d] = pc[d] /\ arg'[d] = arg[d]
    PROVE  WorkTree' = WorkTree
<1>1. \A p : (\E d \in Client : pc'[d] = "remove_children" /\ <<arg'[d].path, p>> \in LikeBelow)
             <=> (\E d \in Client : pc[d] = "remove_children" /\ <<arg[d].path, p>> \in LikeBelow)
  OBVIOUS
<1> QED BY <1>1 DEF WorkTree

(***************************************************************************)
(* Editors: an insert is a Put, the first statement of a delete is the     *)
(* Remove, the rest stutters.                                              *)
(***************************************************************************)
LEMMA EditsRefine ==
    ASSUME ReplayInv, ReplayInv', Settled, Settled', NEW c \in Client,
           \/ \E p \in Path, e \in Entry : StoreObject(c, p, e)
           \/ \E p \in Path : RemoveEntry(c, p)
           \/ BeginBatch(c) \/ EndBatch(c)
           \/ InsertEntry(c) \/ LogUpsert(c) \/ RemoveChildren(c) \/ LogDelete(c)
    PROVE  History!HistoryNext \/ UNCHANGED HView
<1>1. EditorStep
  BY EditorSteps DEF ReplayInv
<1>2. TakenTree' = TakenTree /\ StoredHistory' = StoredHistory
  <2>1. HeadRev' = HeadRev
    BY <1>1 DEF EditorStep, HeadRev
  <2>2. StoredHistory' = StoredHistory
    BY <1>1, <2>1, HistoryUnchanged DEF EditorStep
  <2>3. \A d \in Client : pc[d] \in Storing \/ pc'[d] \in Storing => pc'[d] = pc[d]
    BY <1>1 DEF EditorStep, Committing
  <2>4. TakenTree' = TakenTree
    BY <1>1, <2>3 DEF TakenTree, EditorStep
  <2> QED BY <2>2, <2>4
<1>t. /\ live \in Tree /\ live' \in Tree /\ pc \in [Client -> PC]
      /\ arg \in [Client -> [path : Path, entry : Entry \cup {NoEntry}] \cup {NoArg}]
  BY DEF ReplayInv, DurableInv, BasicInv, TypeOK
<1>c. conn = NoClient => \A d \in Client : pc[d] \notin InConn
  BY RepositoryAssumption DEF ReplayInv, ConnInv, NeedsConn
<1>3. CASE \/ \E p \in Path, e \in Entry : StoreObject(c, p, e)
           \/ BeginBatch(c) \/ EndBatch(c) \/ LogUpsert(c) \/ LogDelete(c)
  <2>1. /\ live' = live
        /\ \A d \in Client : pc[d] = "remove_children" \/ pc'[d] = "remove_children"
                             => pc'[d] = pc[d] /\ arg'[d] = arg[d]
    BY <1>3, <1>t DEF StoreObject, BeginBatch, EndBatch, LogUpsert, LogDelete, Goto, db
  <2> QED BY <1>2, <2>1, WorkKeeps DEF HView
<1>4. CASE InsertEntry(c)
  <2>1. arg[c].path \in Path /\ arg[c].entry \in Entry
    BY <1>4 DEF InsertEntry, ReplayInv, DurableInv, BasicInv, ArgInv
  <2>2. /\ live' = UpsertRow(live, arg[c].path, arg[c].entry)
        /\ \A d \in Client : pc[d] # "remove_children" /\ pc'[d] # "remove_children"
    BY <1>4, <1>c, <1>t DEF InsertEntry, Goto, InConn
  <2>3. WorkTree = live /\ WorkTree' = live'
    BY <2>2, <1>t, WorkIsLive, WorkIsLiveNext
  <2>4. History!Put(arg[c].path, arg[c].entry)
    BY <1>2, <2>2, <2>3 DEF History!Put, UpsertRow
  <2> QED BY <2>1, <2>4 DEF History!HistoryNext
<1>5. ASSUME NEW p \in Path, RemoveEntry(c, p) PROVE History!HistoryNext
  <2>1. /\ live' = DeleteRow(live, p)
        /\ pc'[c] = "remove_children" /\ arg'[c].path = p
        /\ \A d \in Client : pc[d] # "remove_children"
        /\ \A d \in Client : d # c => pc'[d] # "remove_children"
        /\ ClearedOnly(p) \subseteq strays'
    BY <1>5, <1>c, <1>t DEF RemoveEntry, Goto, InConn
  <2>2. WorkTree = live
    BY <2>1, <1>t, WorkIsLive
  <2>3. WorkTree' = [q \in Path |-> IF <<p, q>> \in LikeBelow THEN NoEntry ELSE live'[q]]
    BY <2>1 DEF WorkTree
  <2>4. ASSUME NEW q \in Path
        PROVE  (IF <<p, q>> \in LikeBelow THEN NoEntry ELSE live'[q])
               = IF q = p \/ <<p, q>> \in Below THEN NoEntry ELSE live[q]
    <3>1. live'[q] = IF q = p THEN NoEntry ELSE live[q]
      BY <2>1, <1>t DEF DeleteRow, Tree
    <3>2. <<p, q>> \in LikeBelow /\ <<p, q>> \notin Below => live[q] = NoEntry
      BY <2>1 DEF ClearedOnly, Settled
    <3>3. <<p, q>> \in Below => <<p, q>> \in LikeBelow
      BY PathAssumption
    <3> QED BY <3>1, <3>2, <3>3
  <2>5. WorkTree' = [q \in Path |-> IF q = p \/ <<p, q>> \in Below THEN NoEntry ELSE live[q]]
    BY <2>3, <2>4
  <2>6. History!Remove(p)
    BY <1>2, <2>2, <2>5 DEF History!Remove
  <2> QED BY <2>6 DEF History!HistoryNext
<1>6. CASE RemoveChildren(c)
  <2>1. /\ live' = DeleteLike(live, arg[c].path)
        /\ pc[c] = "remove_children"
        /\ \A d \in Client : d # c => pc[d] \notin InConn
        /\ \A d \in Client : pc'[d] # "remove_children"
    BY <1>6, <1>t DEF RemoveChildren, Goto, InConn, ReplayInv, ConnInv, NeedsConn
  <2>2. WorkTree = [q \in Path |-> IF <<arg[c].path, q>> \in LikeBelow THEN NoEntry ELSE live[q]]
    BY <2>1 DEF WorkTree, InConn
  <2>3. WorkTree' = live'
    BY <2>1, <1>t, WorkIsLiveNext
  <2> QED BY <1>2, <2>1, <2>2, <2>3 DEF HView, DeleteLike
<1> QED BY <1>3, <1>4, <1>5, <1>6

(***************************************************************************)
(* Committers: building the root tree is the Take, writing refs/head the   *)
(* Record, the rest stutters.                                              *)
(***************************************************************************)
LEMMA CommitStutters ==
    ASSUME ReplayInv, ReplayInv', Settled, Settled', NEW c \in Client,
           \/ \E m \in Modes : AcquireCommitLock(c, m)
           \/ CollectPending(c) \/ StoreCommit(c) \/ StoreDelta(c) \/ StoreSnapshot(c)
           \/ TruncateHead(c) \/ Publish(c) \/ PostCommit(c)
    PROVE  UNCHANGED HView
<1> USE DEF ReplayInv, DurableInv, BasicInv
<1> DEFINE Taking == Storing \ {"publish"}
<1>1. /\ live' = live /\ arg' = arg
      /\ (pc[c] \in Taking <=> pc'[c] \in Taking)
      /\ (pc[c] \in Taking => root' = root)
      /\ pc[c] # "remove_children" /\ pc'[c] # "remove_children"
      /\ \A d \in Client : d # c => pc'[d] = pc[d]
  BY DEF AcquireCommitLock, CollectPending, StoreCommit, StoreDelta, StoreSnapshot, TruncateHead,
         Publish, PostCommit, Goto, TypeOK, Storing, db, commitLocals
<1>2. pc[c] \in Committing => \A d \in Client : d # c => pc[d] \notin Storing
  BY Committer
<1>3. pc[c] \notin Committing => root' = root
  BY DEF AcquireCommitLock, CollectPending, StoreCommit, StoreDelta, StoreSnapshot, TruncateHead,
         Publish, PostCommit, Storing, Committing, commitLocals
<1>4. TakenTree' = TakenTree
  BY <1>1, <1>2, <1>3 DEF TakenTree
<1>w. WorkTree' = WorkTree
  BY <1>1, WorkKeeps
<1>5. HeadRev' = HeadRev /\ \A r \in 1..HeadRev : seen'[r] = seen[r]
  <2>1. CASE TruncateHead(c) \/ Publish(c)
    <3>1. CASE TruncateHead(c)
      <4>1. HeadRev = currentRev
        BY <3>1, Committer DEF TruncateHead, Committing, Storing
      <4> QED BY <3>1, <4>1 DEF TruncateHead, HeadRev, memory
    <3>2. CASE Publish(c)
      <4>1. pc[c] = "publish" /\ pc[c] \in Committing
        BY <3>2 DEF Publish, Committing, Storing
      <4>2. headFile = NewRev /\ headFile # Torn
        BY <4>1, <1>2, Committer DEF HeadInv, Storing
      <4> QED BY <3>2, <4>2 DEF Publish, HeadRev, disk
    <3> QED BY <2>1, <3>1, <3>2
  <2>2. CASE StoreCommit(c)
    <3>1. HeadRev = currentRev /\ currentRev \in Nat
      BY <2>2, Committer DEF StoreCommit, Committing, Storing
    <3>2. HeadRev' = HeadRev
      BY <2>2 DEF StoreCommit, HeadRev, memory
    <3>3. \A r \in 1..HeadRev : r # NewRev
      BY <3>1 DEF NewRev
    <3>4. seen' = [seen EXCEPT ![NewRev] = root]
      BY <2>2 DEF StoreCommit
    <3> QED BY <3>1, <3>2, <3>3, <3>4, RepositoryAssumption DEF TypeOK
  <2>3. CASE \/ \E m \in Modes : AcquireCommitLock(c, m)
             \/ CollectPending(c) \/ StoreDelta(c) \/ StoreSnapshot(c) \/ PostCommit(c)
    BY <2>3 DEF AcquireCommitLock, CollectPending, StoreDelta, StoreSnapshot, PostCommit,
                HeadRev, disk, memory
  <2> QED BY <2>1, <2>2, <2>3
<1>6. StoredHistory' = StoredHistory
  BY <1>5, HistoryUnchanged
<1> QED BY <1>w, <1>4, <1>6 DEF HView

LEMMA TakeRefines ==
    ASSUME ReplayInv, ReplayInv', Settled, Settled', NEW c \in Client, PreCommitAccepts(c)
    PROVE  History!Take
<1> USE DEF ReplayInv, DurableInv, BasicInv
<1>1. \A d \in Client : pc[d] \notin Storing
  BY Committer DEF PreCommitAccepts, Committing, Storing
<1>2. /\ live' = live /\ root' = live /\ arg' = arg
      /\ pc[c] = "pre_hook" /\ pc'[c] \in {"store_snapshot", "store_commit"}
      /\ \A d \in Client : d # c => pc'[d] = pc[d]
  BY DEF PreCommitAccepts, Goto, TypeOK, db
<1>3. TakenTree = NoTree /\ TakenTree' = live
  BY <1>1, <1>2 DEF TakenTree, Storing
<1>4. \A d \in Client : pc[d] # "remove_children"
  BY <1>2 DEF ConnInv, NeedsConn, InConn
<1>5. WorkTree = live /\ WorkTree' = WorkTree
  <2>1. live \in Tree
    BY DEF TypeOK
  <2>2. WorkTree = live
    BY <1>4, <2>1, WorkIsLive
  <2>3. WorkTree' = WorkTree
    BY <1>2, WorkKeeps
  <2> QED BY <2>2, <2>3
<1>6. HeadRev' = HeadRev /\ seen' = seen
  BY DEF PreCommitAccepts, HeadRev, disk, memory
<1>7. StoredHistory' = StoredHistory
  BY <1>6, HistoryUnchanged
<1> QED BY <1>3, <1>5, <1>7 DEF History!Take

LEMMA RecordRefines ==
    ASSUME ReplayInv, ReplayInv', Settled, Settled', NEW c \in Client, WriteHead(c)
    PROVE  History!Record
<1> USE DEF ReplayInv, DurableInv, BasicInv
<1>1. /\ pc[c] = "write_head" /\ pc'[c] = "publish" /\ headFile' = NewRev
      /\ live' = live /\ seen' = seen /\ root' = root /\ arg' = arg
      /\ \A d \in Client : d # c => pc'[d] = pc[d]
  BY DEF WriteHead, Goto, TypeOK, db, commitLocals
<1>2. /\ \A d \in Client : d # c => pc[d] \notin Storing
      /\ HeadRev = currentRev /\ currentRev \in Nat /\ NewRev \in Nat
  BY <1>1, Committer DEF Committing, Storing
<1>3. HeadRev' = HeadRev + 1
  BY <1>1, <1>2, RepositoryAssumption DEF HeadRev, NewRev
<1>4. TakenTree = root /\ TakenTree' = NoTree /\ root # NoTree
  BY <1>1, <1>2, RepositoryAssumption DEF TakenTree, Storing, TypeOK
<1>5. seen[HeadRev + 1] = root
  BY <1>1, <1>2 DEF StagedInv, NewRev
<1>6. /\ StoredHistory = [r \in 1..HeadRev |-> seen[r]]
      /\ StoredHistory' = [r \in 1..(HeadRev + 1) |-> seen[r]]
  BY <1>1, <1>3, StoredIsSeen, StoredIsSeenNext DEF HistoryIsSeen
<1>7. StoredHistory' = Append(StoredHistory, root)
  BY <1>2, <1>5, <1>6
<1>8. WorkTree' = WorkTree
  BY <1>1, WorkKeeps
<1> QED BY <1>4, <1>7, <1>8 DEF History!Record

(***************************************************************************)
(* A client that stops, or all of them: if no path is left astray, at most *)
(* a commit was given up.                                                  *)
(***************************************************************************)
LEMMA StopsRefine ==
    ASSUME "torn_head" \notin Faults, ReplayInv, ReplayInv', Settled, Settled',
           Crash \/ \E c \in Client : PreCommitRejects(c) \/ Fail(c)
    PROVE  History!HistoryNext \/ UNCHANGED HView
<1> USE DEF ReplayInv, DurableInv, BasicInv
<1>t. live \in Tree /\ live' \in Tree
  BY DEF TypeOK
<1>1. CASE Path = {}
  <2>1. WorkTree' = WorkTree
    BY <1>1 DEF WorkTree
  <2>2. /\ HeadRev' = HeadRev /\ seen' = seen
        /\ TakenTree' \in {TakenTree, NoTree}
    <3>1. CASE Crash
      BY <3>1 DEF Crash, HeadRev, TakenTree, Storing, disk
    <3>2. ASSUME NEW c \in Client, PreCommitRejects(c) \/ Fail(c)
          PROVE  HeadRev' = HeadRev /\ seen' = seen /\ TakenTree' \in {TakenTree, NoTree}
      <4>1. /\ HeadRev' = HeadRev /\ seen' = seen /\ pc' = [pc EXCEPT ![c] = "idle"]
            /\ pc[c] \notin Committing => root' = root
        BY <3>2 DEF PreCommitRejects, Fail, HeadRev, Goto, disk, memory, LockInv, Committing
      <4>2. pc[c] \in Committing => \A d \in Client : d # c => pc[d] \notin Storing
        BY Committer
      <4>3. pc'[c] = "idle" /\ \A d \in Client : d # c => pc'[d] = pc[d]
        BY <4>1 DEF TypeOK
      <4> QED BY <4>1, <4>2, <4>3 DEF TakenTree, Storing, Committing
    <3> QED BY <3>1, <3>2
  <2>3. StoredHistory' = StoredHistory
    BY <2>2, HistoryUnchanged
  <2> QED BY <2>1, <2>2, <2>3 DEF HView, History!HistoryNext, History!Abandon
<1>2. CASE Path # {}
  <2>1. CASE Crash
    <3>1. ~tx /\ \A c \in Client : LeftBehind(c) = {}
      BY <1>2, <2>1 DEF Crash, Settled
    <3>2. live' = live /\ HeadRev' = HeadRev /\ seen' = seen /\ TakenTree' = NoTree
          /\ \A d \in Client : pc'[d] = "idle"
      BY <2>1, <3>1 DEF Crash, HeadRev, TakenTree, Storing, disk
    <3>3. \A d \in Client : pc[d] # "remove_children"
      BY <3>1 DEF LeftBehind, ArgInv
    <3>4. WorkTree = live /\ WorkTree' = live'
      BY <1>t, <3>2, <3>3, WorkIsLive, WorkIsLiveNext
    <3>5. StoredHistory' = StoredHistory
      BY <3>2, HistoryUnchanged
    <3> QED BY <3>2, <3>4, <3>5 DEF HView, History!HistoryNext, History!Abandon
  <2>2. ASSUME NEW c \in Client, PreCommitRejects(c) \/ Fail(c)
        PROVE  History!HistoryNext \/ UNCHANGED HView
    <3>1. /\ live' = live /\ HeadRev' = HeadRev /\ seen' = seen
          /\ pc' = [pc EXCEPT ![c] = "idle"]
          /\ \A d \in Client : d # c => arg'[d] = arg[d]
          /\ pc[c] \notin Committing => root' = root
          /\ LeftBehind(c) = {}
      BY <2>2 DEF PreCommitRejects, Fail, HeadRev, Goto, TypeOK, disk, db, memory, LockInv, Committing, Settled
    <3>2. pc'[c] = "idle" /\ \A d \in Client : d # c => pc'[d] = pc[d]
      BY <3>1 DEF TypeOK
    <3>3. pc[c] # "remove_children"
      BY <3>1 DEF LeftBehind, ArgInv
    <3>4. WorkTree' = WorkTree
      BY <3>1, <3>2, <3>3, WorkKeeps
    <3>5. StoredHistory' = StoredHistory
      BY <3>1, HistoryUnchanged
    <3>6. pc[c] \in Committing => \A d \in Client : d # c => pc[d] \notin Storing
      BY Committer
    <3>7. TakenTree' \in {TakenTree, NoTree}
      BY <3>1, <3>2, <3>6 DEF TakenTree, Storing, Committing
    <3> QED BY <3>4, <3>5, <3>7 DEF HView, History!HistoryNext, History!Abandon
  <2> QED BY <2>1, <2>2
<1> QED BY <1>1, <1>2

(***************************************************************************)
(* A restart that puts no row back changes nothing a client sees.          *)
(***************************************************************************)
LEMMA RestartRefines ==
    ASSUME "torn_head" \notin Faults, ReplayInv, ReplayInv', Settled, Settled', Restart
    PROVE  UNCHANGED HView
<1> USE DEF ReplayInv, DurableInv, BasicInv
<1>1. ~\E p \in Path, e \in Entry : PopulateRow(p, e)
  BY DEF PopulateRow, Settled
<1>2. Open \/ Initialized
  BY <1>1 DEF Restart
<1>3. UNCHANGED <<live, pc, arg, root, seen, headFile>> /\ phase # "up"
  BY <1>2 DEF Open, Initialized, disk, db, commitLocals
<1>4. headFile # Torn
  BY <1>3 DEF LockInv, HeadInv
<1>5. HeadRev' = HeadRev
  BY <1>3, <1>4 DEF HeadRev
<1>6. StoredHistory' = StoredHistory
  BY <1>3, <1>5, HistoryUnchanged
<1>7. WorkTree' = WorkTree /\ TakenTree' = TakenTree
  BY <1>3 DEF WorkTree, TakenTree
<1> QED BY <1>6, <1>7 DEF HView

LEMMA RefinementStep ==
    ASSUME "torn_head" \notin Faults
    PROVE  ReplayInv /\ ReplayInv' /\ [Next]_vars
           => [Settled /\ Settled' => History!HistoryNext]_HView
<1> SUFFICES ASSUME ReplayInv, ReplayInv', Settled, Settled', [Next]_vars
             PROVE  History!HistoryNext \/ UNCHANGED HView
  OBVIOUS
<1>1. CASE UNCHANGED vars
  <2>1. UNCHANGED <<live, pc, arg, root, seen, HeadRev>>
    BY <1>1 DEF vars, disk, db, memory, commitLocals, HeadRev
  <2>2. StoredHistory' = StoredHistory
    BY <2>1, HistoryUnchanged
  <2> QED BY <2>1, <2>2 DEF HView, TakenTree, WorkTree
<1>2. CASE Next
  BY <1>2, EditsRefine, CommitStutters, TakeRefines, RecordRefines, StopsRefine, RestartRefines
     DEF Next, Edit, Continue, History!HistoryNext
<1> QED BY <1>1, <1>2

LEMMA RefinementInit == Init => History!HistoryInit
<1> SUFFICES ASSUME Init PROVE History!HistoryInit
  OBVIOUS
<1>1. TakenTree = NoTree
  BY DEF Init, TakenTree, Storing
<1>2. HeadRev = 0
  BY RepositoryAssumption DEF Init, HeadRev
<1>3. StoredHistory = <<>>
  BY <1>2 DEF StoredHistory
<1>4. live \in Tree /\ \A d \in Client : pc[d] # "remove_children"
  BY TreeTypes DEF Init
<1>5. WorkTree = live
  BY <1>4, WorkIsLive
<1> QED BY <1>1, <1>3, <1>5 DEF Init, History!HistoryInit, EmptyTree, History!EmptyTree

(***************************************************************************)
(* Unless refs/head is torn, the repository, with its tables, files,       *)
(* locks, deltas and snapshots, implements the append-only history of      *)
(* trees as long as no path is astray: for any number of clients, through  *)
(* commits that fail or die between any two writes, deleted directories    *)
(* and restarts.                                                           *)
(***************************************************************************)
THEOREM RepositoryImplementsHistory ==
    ASSUME "torn_head" \notin Faults
    PROVE  Spec => ImplementsHistory
<1>1. ReplayInv /\ [Next]_vars => ReplayInv'
  BY ReplayStep
<1>2. ReplayInv /\ ReplayInv' /\ [Next]_vars
      => [Settled /\ Settled' => History!HistoryNext]_HView
  BY RefinementStep
<1> QED BY <1>1, <1>2, ReplayInit, RefinementInit, PTL DEF Spec, ImplementsHistory, HView
=============================================================================
