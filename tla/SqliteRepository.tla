--------------------------- MODULE SqliteRepository ---------------------------
(***************************************************************************)
(* dsvn-core/src/sqlite_repository.rs: the repository behind the server    *)
(* and the command-line tools.                                             *)
(*                                                                         *)
(* Durable state: tree_entries and pending_changes (SQLite), one commit,   *)
(* delta and snapshot file per revision, the content-addressed objects and *)
(* refs/head.  Clients edit the shared working tree through one SQLite     *)
(* connection guarded by a mutex; a commit turns the pending changes into  *)
(* the next revision under commit_lock.  Each SQL statement and each file  *)
(* write is a step: a crash may fall between any two of them, and other    *)
(* clients run whenever the code holds no lock that stops them.            *)
(***************************************************************************)
EXTENDS TreeDelta, Integers, Sequences

CONSTANTS
    Client,            \* threads and requests that use the repository
    NoClient,          \* the lock is free
    MaxRev,            \* bound: highest revision created
    SnapshotInterval,  \* SNAPSHOT_INTERVAL
    Modes,             \* which of commit() ("async") and commit_sync() ("sync") are called
    Batches,           \* may begin_batch and end_batch be called
    Faults,            \* what may go wrong: "reject", "io_error", "crash", "torn_head"
    NoTree, NoDelta,   \* the file does not exist
    DeltaId,           \* a tree id computed from the delta: it names no tree object
    Torn,              \* refs/head truncated and not yet rewritten
    NoArg              \* the client is not editing

ASSUME RepositoryAssumption ==
    /\ NoClient \notin Client
    /\ MaxRev \in Nat
    /\ SnapshotInterval \in Nat \ {0}
    /\ Modes \subseteq {"async", "sync"}
    /\ Batches \in BOOLEAN
    /\ Faults \subseteq {"reject", "io_error", "crash", "torn_head"}
    /\ NoTree \notin Tree /\ NoDelta \notin Delta
    /\ DeltaId \notin Tree /\ DeltaId # NoTree
    /\ Torn \notin Nat

VARIABLES
    objects,      \* objects/: the blobs and trees entries name
    commits,      \* commits/N.bin: the tree id of the commit
    deltas,       \* tree_deltas/N.bin
    snapshots,    \* trees/N.bin
    headFile,     \* refs/head
    live,         \* tree_entries, as the connection sees it
    pending,      \* pending_changes, as the connection sees it
    tx,           \* the connection has an open transaction (BEGIN)
    saved,        \* what a rollback of that transaction brings back
    phase,        \* "up", "down" or "populating" (initialize)
    currentRev,   \* current_rev, in memory
    conn,         \* holder of the tree_conn mutex
    commitLock,   \* holder of commit_lock
    pc, arg,      \* where each client is, and the row it is editing
    mode,         \* the committer's function
    changes,      \* the committer's `changes`
    root,         \* the committer's `root_tree`
    seen,         \* history variable: the live tree each revision was taken from
    strays,       \* history variable: the paths whose row no change accounts for
    drift         \* history variable: the paths that were astray when a revision took its tree

disk == <<objects, commits, deltas, snapshots, headFile>>
db == <<live, pending, tx, saved>>
memory == <<phase, currentRev>>
commitLocals == <<mode, changes, root>>
astray == <<strays, drift>>
vars == <<disk, db, memory, conn, commitLock, pc, arg, commitLocals, seen, astray>>

Revision == 1..MaxRev

InConn == {"log_upsert", "remove_children", "log_delete", "pre_hook"}
Storing == {"store_commit", "store_delta", "store_snapshot", "truncate_head", "write_head", "publish"}
Committing == {"collect", "pre_hook", "post_hook"} \cup Storing
PC == {"idle", "insert"} \cup InConn \cup Committing

NothingSaved == [live |-> EmptyTree, pending |-> EmptyDelta]

TypeOK ==
    /\ objects \subseteq Entry
    /\ commits \in [Revision -> Tree \cup {NoTree, DeltaId}]
    /\ deltas \in [Revision -> Delta \cup {NoDelta}]
    /\ snapshots \in [Revision -> Tree \cup {NoTree}]
    /\ headFile \in 0..MaxRev \cup {Torn}
    /\ live \in Tree
    /\ pending \in Delta
    /\ tx \in BOOLEAN
    /\ saved \in [live : Tree, pending : Delta]
    /\ phase \in {"up", "down", "populating"}
    /\ currentRev \in 0..MaxRev
    /\ conn \in Client \cup {NoClient}
    /\ commitLock \in Client \cup {NoClient}
    /\ pc \in [Client -> PC]
    /\ arg \in [Client -> [path : Path, entry : Entry \cup {NoEntry}] \cup {NoArg}]
    /\ mode \in {"async", "sync"}
    /\ changes \in Delta
    /\ root \in Tree
    /\ seen \in [0..MaxRev -> Tree \cup {NoTree}]
    /\ strays \subseteq Path
    /\ drift \in [Revision -> SUBSET Path]

(***************************************************************************)
(* A repository fresh out of initialize(): revision 0 is the empty tree.   *)
(***************************************************************************)
Init ==
    /\ objects = {}
    /\ commits = [r \in Revision |-> NoTree]
    /\ deltas = [r \in Revision |-> NoDelta]
    /\ snapshots = [r \in Revision |-> NoTree]
    /\ headFile = 0
    /\ live = EmptyTree
    /\ pending = EmptyDelta
    /\ tx = FALSE
    /\ saved = NothingSaved
    /\ phase = "up"
    /\ currentRev = 0
    /\ conn = NoClient
    /\ commitLock = NoClient
    /\ pc = [c \in Client |-> "idle"]
    /\ arg = [c \in Client |-> NoArg]
    /\ mode = "async"
    /\ changes = EmptyDelta
    /\ root = EmptyTree
    /\ seen = [r \in 0..MaxRev |-> IF r = 0 THEN EmptyTree ELSE NoTree]
    /\ strays = {}
    /\ drift = [r \in Revision |-> {}]

Goto(c, l) == pc' = [pc EXCEPT ![c] = l]

NewRev == currentRev + 1
SnapshotDue == NewRev % SnapshotInterval = 0

(***************************************************************************)
(* The last revision the repository has: what refs/head says, and while    *)
(* save_head rewrites the file, what the process knows.                    *)
(***************************************************************************)
HeadRev == IF headFile = Torn THEN currentRev ELSE headFile

(***************************************************************************)
(* The tree the pending changes apply to: that of the commit being stored, *)
(* or of the last revision.                                                *)
(***************************************************************************)
PendingBase == IF \E c \in Client : pc[c] \in Storing THEN root ELSE seen[HeadRev]

-----------------------------------------------------------------------------
(***************************************************************************)
(* Astray.  tree_entries and pending_changes are two tables that several   *)
(* statements of several functions keep in step.  The history variable     *)
(* strays collects the paths for which they are out of step for good: the  *)
(* row at the path is not what the last revision and the pending changes   *)
(* say.  A commit takes them into its tree: drift.                         *)
(*                                                                         *)
(* What a lost delta would have changed.                                   *)
(***************************************************************************)
Touched(d) ==
    {p \in Path : d[p] # NoChange \/ \E a \in Path : <<a, p>> \in Below /\ d[a] = Delete}

(***************************************************************************)
(* pending_changes has one row per path: putting back a deleted path       *)
(* overwrites the Delete that hid the rows below it.                       *)
(***************************************************************************)
Revived(p) ==
    {q \in Path : /\ pending[p] = Delete
                  /\ <<p, q>> \in Below
                  /\ pending[q] = NoChange
                  /\ PendingBase[q] # NoEntry}

(***************************************************************************)
(* Deleting p clears with LIKE what replay keeps: a row that only matches  *)
(* the pattern, and a row below p whose own pending change comes after the *)
(* deletion in path order.  The rest below p is deleted by both.           *)
(***************************************************************************)
ClearedOnly(p) ==
    {q \in Path : /\ <<p, q>> \in LikeBelow
                  /\ live[q] # NoEntry
                  /\ <<p, q>> \notin Below \/ pending[q] \in Entry}
ClearedByBoth(p) ==
    {p} \cup {q \in Path : <<p, q>> \in Below /\ pending[q] \notin Entry}

(***************************************************************************)
(* What a client that stops where it is leaves behind: an edit whose       *)
(* change is not logged, a delta that was collected and is not published.  *)
(***************************************************************************)
LeftBehind(c) ==
    {p \in Path :
        \/ /\ pc[c] \in {"log_upsert", "remove_children", "log_delete"}
           /\ p = arg[c].path \/ <<arg[c].path, p>> \in LikeBelow
        \/ pc[c] \in {"pre_hook"} \cup (Storing \ {"publish"}) /\ p \in Touched(changes)
        \/ pc[c] \in Storing \ {"publish"} /\ p \in drift[NewRev]}

-----------------------------------------------------------------------------
(***************************************************************************)
(* Mutant: the row is inserted without its object having been stored.      *)
(***************************************************************************)
StoreObjectSkipped(c, p, e) ==
    /\ phase = "up" /\ pc[c] = "idle"
    /\ arg' = [arg EXCEPT ![c] = [path |-> p, entry |-> e]]
    /\ Goto(c, "insert")
    /\ UNCHANGED <<disk, db, memory, conn, commitLock, commitLocals, seen, astray>>

(***************************************************************************)
(* add_file and mkdir (and their _sync twins): store_object, then the two  *)
(* statements of conn_tree_insert under the connection mutex.              *)
(***************************************************************************)
StoreObject(c, p, e) ==
    /\ phase = "up" /\ pc[c] = "idle"
    /\ objects' = objects \cup {e}
    /\ arg' = [arg EXCEPT ![c] = [path |-> p, entry |-> e]]
    /\ Goto(c, "insert")
    /\ UNCHANGED <<commits, deltas, snapshots, headFile, db, memory, conn, commitLock, commitLocals, seen, astray>>

InsertEntry(c) ==
    /\ pc[c] = "insert" /\ conn = NoClient
    /\ conn' = c
    /\ live' = UpsertRow(live, arg[c].path, arg[c].entry)
    /\ Goto(c, "log_upsert")
    /\ strays' = (strays \ {arg[c].path}) \cup Revived(arg[c].path)
    /\ UNCHANGED <<disk, pending, tx, saved, memory, commitLock, arg, commitLocals, seen, drift>>

(***************************************************************************)
(* Mutant: conn_tree_insert without its second statement.                  *)
(***************************************************************************)
LogUpsertForgotten(c) ==
    /\ pc[c] = "log_upsert"
    /\ conn' = NoClient
    /\ arg' = [arg EXCEPT ![c] = NoArg]
    /\ Goto(c, "idle")
    /\ UNCHANGED <<disk, db, memory, commitLock, commitLocals, seen, astray>>

LogUpsert(c) ==
    /\ pc[c] = "log_upsert"
    /\ pending' = [pending EXCEPT ![arg[c].path] = arg[c].entry]
    /\ conn' = NoClient
    /\ arg' = [arg EXCEPT ![c] = NoArg]
    /\ Goto(c, "idle")
    /\ UNCHANGED <<disk, live, tx, saved, memory, commitLock, commitLocals, seen, astray>>

(***************************************************************************)
(* delete_file: the three statements of conn_tree_remove.  The code does   *)
(* not look whether anything lies below the path.                          *)
(***************************************************************************)
RemoveEntry(c, p) ==
    /\ phase = "up" /\ pc[c] = "idle" /\ conn = NoClient
    /\ conn' = c
    /\ live' = DeleteRow(live, p)
    /\ arg' = [arg EXCEPT ![c] = [path |-> p, entry |-> NoEntry]]
    /\ Goto(c, "remove_children")
    /\ strays' = (strays \ ClearedByBoth(p)) \cup ClearedOnly(p)
    /\ UNCHANGED <<disk, pending, tx, saved, memory, commitLock, commitLocals, seen, drift>>

RemoveChildren(c) ==
    /\ pc[c] = "remove_children"
    /\ live' = DeleteLike(live, arg[c].path)
    /\ Goto(c, "log_delete")
    /\ UNCHANGED <<disk, pending, tx, saved, memory, conn, commitLock, arg, commitLocals, seen, astray>>

(***************************************************************************)
(* Mutant: the deletion is logged as a row without an entry.               *)
(***************************************************************************)
LogDeleteAsNull(c) ==
    /\ pc[c] = "log_delete"
    /\ pending' = [pending EXCEPT ![arg[c].path] = NoEntry]
    /\ conn' = NoClient
    /\ arg' = [arg EXCEPT ![c] = NoArg]
    /\ Goto(c, "idle")
    /\ UNCHANGED <<disk, live, tx, saved, memory, commitLock, commitLocals, seen, astray>>

LogDelete(c) ==
    /\ pc[c] = "log_delete"
    /\ pending' = [pending EXCEPT ![arg[c].path] = Delete]
    /\ conn' = NoClient
    /\ arg' = [arg EXCEPT ![c] = NoArg]
    /\ Goto(c, "idle")
    /\ UNCHANGED <<disk, live, tx, saved, memory, commitLock, commitLocals, seen, astray>>

(***************************************************************************)
(* begin_batch and end_batch.  BEGIN inside a transaction and COMMIT       *)
(* outside one fail, and the error is ignored.                             *)
(***************************************************************************)
BeginBatch(c) ==
    /\ Batches /\ phase = "up" /\ pc[c] = "idle" /\ conn = NoClient /\ ~tx
    /\ tx' = TRUE
    /\ saved' = [live |-> live, pending |-> pending]
    /\ UNCHANGED <<disk, live, pending, memory, conn, commitLock, pc, arg, commitLocals, seen, astray>>

EndBatch(c) ==
    /\ phase = "up" /\ pc[c] = "idle" /\ conn = NoClient /\ tx
    /\ tx' = FALSE
    /\ saved' = NothingSaved
    /\ UNCHANGED <<disk, live, pending, memory, conn, commitLock, pc, arg, commitLocals, seen, astray>>

-----------------------------------------------------------------------------
(***************************************************************************)
(* commit() and commit_sync().  The read of current_rev and its assignment *)
(* take an RwLock for that one access and hold it over nothing else, so    *)
(* they are part of AcquireCommitLock and Publish.                         *)
(***************************************************************************)
AcquireCommitLock(c, m) ==
    /\ phase = "up" /\ pc[c] = "idle" /\ commitLock = NoClient
    /\ currentRev < MaxRev
    /\ commitLock' = c
    /\ mode' = m
    /\ Goto(c, "collect")
    /\ UNCHANGED <<disk, db, memory, conn, arg, changes, root, seen, astray>>

(***************************************************************************)
(* Mutant: the connection guard is dropped between collecting the changes  *)
(* and building the tree.                                                  *)
(***************************************************************************)
CollectPendingUnguarded(c) ==
    /\ pc[c] = "collect" /\ conn = NoClient
    /\ changes' = pending
    /\ pending' = EmptyDelta
    /\ Goto(c, "pre_hook")
    /\ UNCHANGED <<disk, live, tx, saved, memory, conn, commitLock, arg, mode, root, seen, astray>>

(***************************************************************************)
(* conn_collect_pending reads the pending changes and empties the table.   *)
(***************************************************************************)
CollectPending(c) ==
    /\ pc[c] = "collect" /\ conn = NoClient
    /\ conn' = c
    /\ changes' = pending
    /\ pending' = EmptyDelta
    /\ Goto(c, "pre_hook")
    /\ UNCHANGED <<disk, live, tx, saved, memory, commitLock, arg, mode, root, seen, astray>>

(***************************************************************************)
(* run_pre_commit succeeds and conn_build_tree reads the live tree.        *)
(* commit() then drops the connection guard; commit_sync() keeps it and    *)
(* writes a due snapshot before the commit file.                           *)
(***************************************************************************)
PreCommitAccepts(c) ==
    /\ pc[c] = "pre_hook"
    /\ root' = live
    /\ conn' = IF mode = "async" THEN NoClient ELSE conn
    /\ Goto(c, IF mode = "sync" /\ SnapshotDue THEN "store_snapshot" ELSE "store_commit")
    /\ drift' = [drift EXCEPT ![NewRev] = strays]
    /\ strays' = {}
    /\ UNCHANGED <<disk, db, memory, commitLock, arg, mode, changes, seen>>

(***************************************************************************)
(* run_pre_commit fails and `?` leaves the function: both guards drop, the *)
(* collected changes are gone from pending_changes and stay in             *)
(* tree_entries.                                                           *)
(***************************************************************************)
PreCommitRejects(c) ==
    /\ "reject" \in Faults
    /\ pc[c] = "pre_hook"
    /\ conn' = NoClient
    /\ commitLock' = NoClient
    /\ changes' = EmptyDelta
    /\ root' = EmptyTree
    /\ strays' = strays \cup LeftBehind(c)
    /\ Goto(c, "idle")
    /\ UNCHANGED <<disk, db, memory, arg, mode, seen, drift>>

(***************************************************************************)
(* The commit file names the tree object, or, from commit_sync() when no   *)
(* snapshot is due, the hash of the delta.                                 *)
(***************************************************************************)
StoreCommit(c) ==
    /\ pc[c] = "store_commit"
    /\ commits' = [commits EXCEPT ![NewRev] = IF mode = "async" \/ SnapshotDue THEN root ELSE DeltaId]
    /\ seen' = [seen EXCEPT ![NewRev] = root]
    /\ Goto(c, "store_delta")
    /\ UNCHANGED <<objects, deltas, snapshots, headFile, db, memory, conn, commitLock, arg, commitLocals, astray>>

(***************************************************************************)
(* Mutant: the periodic snapshot of commit() is forgotten.                 *)
(***************************************************************************)
StoreDeltaNoSnapshot(c) ==
    /\ pc[c] = "store_delta"
    /\ deltas' = [deltas EXCEPT ![NewRev] = changes]
    /\ Goto(c, "truncate_head")
    /\ UNCHANGED <<objects, commits, snapshots, headFile, db, memory, conn, commitLock, arg, commitLocals, seen, astray>>

StoreDelta(c) ==
    /\ pc[c] = "store_delta"
    /\ deltas' = [deltas EXCEPT ![NewRev] = changes]
    /\ Goto(c, IF mode = "async" /\ SnapshotDue THEN "store_snapshot" ELSE "truncate_head")
    /\ UNCHANGED <<objects, commits, snapshots, headFile, db, memory, conn, commitLock, arg, commitLocals, seen, astray>>

(***************************************************************************)
(* Mutants: the snapshot is built again from the table, after the guard    *)
(* was dropped; a snapshot file that is already there is kept.             *)
(***************************************************************************)
StoreSnapshotRebuilt(c) ==
    /\ pc[c] = "store_snapshot"
    /\ snapshots' = [snapshots EXCEPT ![NewRev] = live]
    /\ Goto(c, IF mode = "sync" THEN "store_commit" ELSE "truncate_head")
    /\ UNCHANGED <<objects, commits, deltas, headFile, db, memory, conn, commitLock, arg, commitLocals, seen, astray>>

StoreSnapshotOnce(c) ==
    /\ pc[c] = "store_snapshot"
    /\ snapshots' = IF snapshots[NewRev] # NoTree THEN snapshots
                    ELSE [snapshots EXCEPT ![NewRev] = root]
    /\ Goto(c, IF mode = "sync" THEN "store_commit" ELSE "truncate_head")
    /\ UNCHANGED <<objects, commits, deltas, headFile, db, memory, conn, commitLock, arg, commitLocals, seen, astray>>

StoreSnapshot(c) ==
    /\ pc[c] = "store_snapshot"
    /\ snapshots' = [snapshots EXCEPT ![NewRev] = root]
    /\ Goto(c, IF mode = "sync" THEN "store_commit" ELSE "truncate_head")
    /\ UNCHANGED <<objects, commits, deltas, headFile, db, memory, conn, commitLock, arg, commitLocals, seen, astray>>

(***************************************************************************)
(* save_head: fs::write truncates refs/head, then writes the number.       *)
(***************************************************************************)
TruncateHead(c) ==
    /\ pc[c] = "truncate_head"
    /\ headFile' = Torn
    /\ Goto(c, "write_head")
    /\ UNCHANGED <<objects, commits, deltas, snapshots, db, memory, conn, commitLock, arg, commitLocals, seen, astray>>

WriteHead(c) ==
    /\ pc[c] = "write_head"
    /\ headFile' = NewRev
    /\ Goto(c, "publish")
    /\ UNCHANGED <<objects, commits, deltas, snapshots, db, memory, conn, commitLock, arg, commitLocals, seen, astray>>

(***************************************************************************)
(* Mutant: the revision in memory is not advanced.                         *)
(***************************************************************************)
PublishForgotten(c) ==
    /\ pc[c] = "publish"
    /\ Goto(c, "post_hook")
    /\ UNCHANGED <<disk, db, memory, conn, commitLock, arg, commitLocals, seen, astray>>

Publish(c) ==
    /\ pc[c] = "publish"
    /\ currentRev' = NewRev
    /\ Goto(c, "post_hook")
    /\ UNCHANGED <<disk, db, phase, conn, commitLock, arg, commitLocals, seen, astray>>

(***************************************************************************)
(* run_post_commit swallows its errors; the guards drop on return.         *)
(***************************************************************************)
PostCommit(c) ==
    /\ pc[c] = "post_hook"
    /\ conn' = IF mode = "sync" THEN NoClient ELSE conn
    /\ commitLock' = NoClient
    /\ changes' = EmptyDelta
    /\ root' = EmptyTree
    /\ Goto(c, "idle")
    /\ UNCHANGED <<disk, db, memory, arg, mode, seen, astray>>

(***************************************************************************)
(* `?` on a statement or a file write that fails: the function returns,    *)
(* its guards drop, and what it had done so far stays.  save_head may fail *)
(* after the truncation; nothing fails after it but the post-commit hook.  *)
(***************************************************************************)
Fail(c) ==
    /\ "io_error" \in Faults
    /\ pc[c] \in PC \ {"idle", "publish", "post_hook"}
    /\ pc[c] = "write_head" => "torn_head" \in Faults
    /\ conn' = IF conn = c THEN NoClient ELSE conn
    /\ commitLock' = IF commitLock = c THEN NoClient ELSE commitLock
    /\ changes' = IF commitLock = c THEN EmptyDelta ELSE changes
    /\ root' = IF commitLock = c THEN EmptyTree ELSE root
    /\ arg' = [arg EXCEPT ![c] = NoArg]
    /\ strays' = strays \cup LeftBehind(c)
    /\ Goto(c, "idle")
    /\ UNCHANGED <<disk, db, memory, mode, seen, drift>>

-----------------------------------------------------------------------------
(***************************************************************************)
(* The process dies: an open SQLite transaction rolls back, the files and  *)
(* the committed statements stay.  A rollback takes both tables behind the *)
(* revisions committed since BEGIN: any row may be astray then.            *)
(***************************************************************************)
Crash ==
    /\ "crash" \in Faults
    /\ phase # "down"
    /\ headFile = Torn => "torn_head" \in Faults
    /\ phase' = "down"
    /\ currentRev' = 0
    /\ live' = IF tx THEN saved.live ELSE live
    /\ pending' = IF tx THEN saved.pending ELSE pending
    /\ tx' = FALSE
    /\ saved' = NothingSaved
    /\ conn' = NoClient
    /\ commitLock' = NoClient
    /\ pc' = [c \in Client |-> "idle"]
    /\ arg' = [c \in Client |-> NoArg]
    /\ mode' = "async"
    /\ changes' = EmptyDelta
    /\ root' = EmptyTree
    /\ strays' = IF tx THEN Path ELSE strays \cup UNION {LeftBehind(c) : c \in Client}
    /\ UNCHANGED <<disk, seen, drift>>

(***************************************************************************)
(* open() and initialize() on an existing repository: a head that does not *)
(* parse counts as 0, and an empty tree_entries is filled again.           *)
(***************************************************************************)
Open ==
    /\ phase = "down"
    /\ currentRev' = IF headFile = Torn THEN 0 ELSE headFile
    /\ phase' = IF live = EmptyTree THEN "populating" ELSE "up"
    /\ UNCHANGED <<disk, db, conn, commitLock, pc, arg, commitLocals, seen, astray>>

(***************************************************************************)
(* get_tree_at_rev on a cold cache: the snapshot, else the delta on top of *)
(* the parent's tree, else (no delta file) the tree object of a commit.    *)
(* The code then takes the commit of the revision it was first asked for,  *)
(* not that of the revision it has walked to; up to the head there always  *)
(* is a delta (RevisionsComplete), so the two never differ here.           *)
(* TreeReader has the walk itself, the cache and the revisions beyond the  *)
(* head.                                                                   *)
(***************************************************************************)
TreeAtRev[r \in 0..HeadRev] ==
    IF r = 0 THEN EmptyTree
    ELSE IF snapshots[r] # NoTree THEN snapshots[r]
    ELSE IF deltas[r] # NoDelta THEN ApplyDelta(TreeAtRev[r - 1], deltas[r])
    ELSE commits[r]

(***************************************************************************)
(* conn_populate inserts one row per statement, whatever pending_changes   *)
(* says of it.                                                             *)
(***************************************************************************)
PopulateRow(p, e) ==
    /\ phase = "populating"
    /\ live[p] = NoEntry
    /\ TreeAtRev[currentRev][p] = e
    /\ live' = UpsertRow(live, p, e)
    /\ strays' = strays \cup {p}
    /\ UNCHANGED <<disk, pending, tx, saved, memory, conn, commitLock, pc, arg, commitLocals, seen, drift>>

Initialized ==
    /\ phase = "populating"
    /\ \A p \in Path : live[p] = TreeAtRev[currentRev][p]
    /\ phase' = "up"
    /\ UNCHANGED <<disk, db, currentRev, conn, commitLock, pc, arg, commitLocals, seen, astray>>

-----------------------------------------------------------------------------
Edit(c) ==
    \/ \E p \in Path, e \in Entry : StoreObject(c, p, e)
    \/ \E p \in Path : RemoveEntry(c, p)
    \/ BeginBatch(c) \/ EndBatch(c)

(***************************************************************************)
(* What a client does once it has begun an edit or a commit.               *)
(***************************************************************************)
Continue(c) ==
    \/ InsertEntry(c) \/ LogUpsert(c) \/ RemoveChildren(c) \/ LogDelete(c)
    \/ CollectPending(c) \/ PreCommitAccepts(c) \/ PreCommitRejects(c)
    \/ StoreCommit(c) \/ StoreDelta(c) \/ StoreSnapshot(c)
    \/ TruncateHead(c) \/ WriteHead(c) \/ Publish(c) \/ PostCommit(c)

Restart ==
    \/ Open
    \/ \E p \in Path, e \in Entry : PopulateRow(p, e)
    \/ Initialized

Next ==
    \/ \E c \in Client : Edit(c) \/ Continue(c) \/ Fail(c)
    \/ \E c \in Client, m \in Modes : AcquireCommitLock(c, m)
    \/ Crash
    \/ Restart

Spec == Init /\ [][Next]_vars

-----------------------------------------------------------------------------
(***************************************************************************)
(* Every revision up to the head has its commit file, its delta and, on    *)
(* the interval, its snapshot: commit() and commit_sync() write all of     *)
(* them before save_head, so neither a crash nor a failed write leaves a   *)
(* published revision that get_tree_at_rev cannot load.                    *)
(***************************************************************************)
RevisionsComplete ==
    \A r \in 1..HeadRev :
        /\ commits[r] # NoTree
        /\ deltas[r] # NoDelta
        /\ r % SnapshotInterval = 0 => snapshots[r] # NoTree

(***************************************************************************)
(* History is append-only: no step of commit(), commit_sync(), a failure,  *)
(* a crash or a restart moves the head back or rewrites a file of a        *)
(* revision up to the head.                                                *)
(***************************************************************************)
HistoryStep ==
    /\ HeadRev' >= HeadRev
    /\ \A r \in 1..HeadRev :
          /\ commits'[r] = commits[r]
          /\ deltas'[r] = deltas[r]
          /\ snapshots'[r] = snapshots[r]
HistoryImmutable == [][HistoryStep]_vars

(***************************************************************************)
(* Each revision's delta leads from the tree its parent was taken from to  *)
(* its own at every path that was not astray when it was taken, and a      *)
(* stored snapshot or tree object is that tree whole: whatever edits of    *)
(* other clients come between collect and save_head, and whatever commits  *)
(* were rejected, failed or died before, pending_changes and tree_entries  *)
(* tell one story of all other paths.                                      *)
(***************************************************************************)
RevisionIsReplay ==
    \A r \in 1..HeadRev :
        /\ \A p \in Path \ drift[r] : seen[r][p] = ApplyDelta(seen[r - 1], deltas[r])[p]
        /\ commits[r] \in {seen[r], DeltaId}
        /\ snapshots[r] \in {seen[r], NoTree}

(***************************************************************************)
(* The paths that went astray since the last snapshot at or before r.      *)
(***************************************************************************)
Drifted(r) ==
    UNION {drift[k] : k \in {i \in 1..r : \A j \in i..r : snapshots[j] = NoTree}}

(***************************************************************************)
(* get_tree_at_rev, replaying from the nearest snapshot, returns for every *)
(* revision what was live when its commit collected it, at every path but  *)
(* those that went astray since that snapshot: a rejected commit, a failed *)
(* write, a crash or a deleted directory does no harm beyond its own paths *)
(* and none beyond the next snapshot.                                      *)
(***************************************************************************)
ReconstructionFaithful ==
    \A r \in 0..HeadRev : \A p \in Path \ Drifted(r) : TreeAtRev[r][p] = seen[r][p]

(***************************************************************************)
(* Whenever the connection is free, each row of tree_entries that is not   *)
(* astray is what the last revision (or the one being stored) and the      *)
(* pending changes say: nothing sits in the working tree that no later     *)
(* commit would record, after a crash and a restart too.                   *)
(***************************************************************************)
WorkingTreeAgrees ==
    conn = NoClient =>
        \A p \in Path \ strays : live[p] = ApplyDelta(PendingBase, pending)[p]

(***************************************************************************)
(* What the code does not do: reconstruct every path of every revision.    *)
(***************************************************************************)
EveryTreeFaithful ==
    \A r \in 0..HeadRev : TreeAtRev[r] = seen[r]

(***************************************************************************)
(* Every entry in the working tree, in the pending changes and in any      *)
(* delta or snapshot file names a stored object: add_file and mkdir store  *)
(* the object first, and nothing deletes objects.  This must survive any   *)
(* crash, rollback or restart.                                             *)
(***************************************************************************)
NoDanglingEntry ==
    /\ TreeObjects(live) \subseteq objects
    /\ DeltaObjects(pending) \subseteq objects
    /\ \A r \in Revision :
          /\ deltas[r] # NoDelta => DeltaObjects(deltas[r]) \subseteq objects
          /\ snapshots[r] # NoTree => TreeObjects(snapshots[r]) \subseteq objects

-----------------------------------------------------------------------------
(***************************************************************************)
(* The repository implements the append-only history of RepositoryHistory: *)
(* the working tree is tree_entries (a delete counts as done with its      *)
(* first statement: the connection mutex hides the second), the tree a     *)
(* commit took is the committer's root tree until save_head, and the       *)
(* history is what get_tree_at_rev reconstructs from the files.            *)
(***************************************************************************)
WorkTree ==
    [p \in Path |->
        IF \E c \in Client : pc[c] = "remove_children" /\ <<arg[c].path, p>> \in LikeBelow
        THEN NoEntry ELSE live[p]]

TakenTree ==
    IF \E c \in Client : pc[c] \in Storing \ {"publish"} THEN root ELSE NoTree

StoredHistory == [r \in 1..HeadRev |-> TreeAtRev[r]]

History == INSTANCE RepositoryHistory
           WITH Idle <- NoTree,
                work <- WorkTree,
                taken <- TakenTree,
                history <- StoredHistory

(***************************************************************************)
(* No path is astray, in the working tree or in a revision.                *)
(***************************************************************************)
Settled == strays = {} /\ \A r \in Revision : drift[r] = {}

(***************************************************************************)
(* As long as no path is astray, a client of the repository cannot tell it *)
(* from one that keeps every tree: what get_tree_at_rev returns for a      *)
(* revision is the working tree at one instant of its commit, and never    *)
(* changes afterwards.                                                     *)
(***************************************************************************)
ImplementsHistory ==
    /\ History!HistoryInit
    /\ [][Settled /\ Settled' => History!HistoryNext]_<<WorkTree, TakenTree, StoredHistory>>
=============================================================================
