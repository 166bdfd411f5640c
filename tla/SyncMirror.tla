------------------------------ MODULE SyncMirror ------------------------------
(***************************************************************************)
(* dsvnsync: how one repository is copied into another.                    *)
(*                                                                         *)
(* `dsvnsync sync` and `svnsync-sync` read the source's files              *)
(* (protocol.rs), replay its revisions into the destination one by one,    *)
(* inside one SQLite transaction, and record in sync-state.json how far    *)
(* they have come (core sync.rs).  Only svnsync-sync takes svn:sync-lock   *)
(* (compat.rs).  `dsvnsync pull` asks the source's server for the          *)
(* revisions (remote.rs, sync_handlers.rs), and dies at the first commit:  *)
(* it calls commit_sync, which waits for a lock with blocking_lock, from   *)
(* an async function of the runtime, where that panics; the other two      *)
(* commands run sync() under block_in_place.                               *)
(*                                                                         *)
(* Commit, delta and snapshot files, refs/head and sync-state.json are     *)
(* durable as soon as they are written; the rows of tree_entries are       *)
(* rolled back when the process ends inside its transaction.  That is what *)
(* makes a run that dies, and the run that resumes it, interesting.        *)
(*                                                                         *)
(* The source's revisions are a frozen sequence of deltas of which the     *)
(* first srcHead are committed.  SqliteRepository models the inside of     *)
(* commit_sync; here it is one step.  A property file (revprops/0.json) is *)
(* read and written in one step.                                           *)
(***************************************************************************)
EXTENDS TreeDelta, Integers, Sequences, FiniteSets

CONSTANTS
    Mirror,             \* dsvnsync processes
    MaxHead,            \* bound: highest revision of the destination
    MaxFaults,          \* bound: crashes, failures and cleanups
    CheckpointInterval, \* revisions between two checkpoints (100)
    SnapshotInterval,   \* SNAPSHOT_INTERVAL
    Settings,           \* the settings to consider, see `setting`
    Nobody,             \* no process
    None, NoTree, NoDelta   \* no such file, property or value

Kind == {"sync", "svnsync", "pull"}

ASSUME MirrorAssumption ==
    /\ MaxHead \in Nat /\ MaxFaults \in Nat
    /\ CheckpointInterval \in Nat \ {0} /\ SnapshotInterval \in Nat \ {0}
    /\ IsFiniteSet(Mirror) /\ Nobody \notin Mirror
    /\ None \notin Nat /\ None \notin [last : Nat, checkpoint : Nat \cup {None}]
    /\ \A s \in Settings :
          /\ s.source \in Seq(Delta) /\ Len(s.source) <= MaxHead
          /\ s.kinds \subseteq Kind /\ s.mirrors \subseteq Mirror /\ s.allowEmpty \in BOOLEAN
          /\ s.faults \subseteq {"crash", "error", "corrupt", "disable", "cleanup"}

VARIABLES
    setting,    \* the source's revisions; kinds of run; processes; allow_empty; what goes wrong
    srcHead,                     \* refs/head of the source
    enabled,                     \* SyncConfig.enabled of the source's server
    deltas, snapshots, headFile, \* the destination's tree_deltas/, trees/ and refs/head
    revprops,                    \* revprops/N.json: the source revision it was copied from, or 0
    objects,                     \* the destination's objects/: "absent", "torn" or "whole"
    rows, writer, saved,         \* tree_entries; the process whose transaction is open; its rollback
    state,                       \* sync-state.json
    replLog,                     \* repl-log/: the ranges logged
    mirror, lock, lastMerged,    \* svn:sync-from-url is set; svn:sync-lock; svn:sync-last-merged-rev
    pc, run,                     \* where each process is, and its variables, see Run
    faulty,                      \* history variable: crashes, failures and cleanups so far
    origin                       \* history variable: the source revision of each destination revision

sourceVars == <<srcHead, enabled>>
files == <<deltas, snapshots, headFile, revprops, objects>>
db == <<rows, writer, saved>>
props == <<mirror, lock, lastMerged>>
history == <<faulty, origin>>
vars == <<setting, sourceVars, files, db, state, replLog, props, pc, run, history>>

DestRev == 1..MaxHead
source == setting.source
MaxRev == Len(source)
State == [last : 0..MaxRev, checkpoint : 0..MaxRev \cup {None}]

(***************************************************************************)
(* The command, its SqliteRepository's current_rev, last_synced_rev in its *)
(* copy of the state, the first, current and last revision of its range,   *)
(* and revisions_synced.                                                   *)
(***************************************************************************)
Run == [kind : Kind, rev : 0..MaxHead, last : 0..MaxRev,
        from : 0..MaxRev, cur : 0..MaxRev + 1, to : 0..MaxRev, count : 0..MaxRev]
NoRun == [kind |-> "sync", rev |-> 0, last |-> 0, from |-> 0, cur |-> 0, to |-> 0, count |-> 0]
PC == {"idle", "check_lock", "set_lock", "load", "fetch", "store", "apply", "commit",
       "props", "checkpoint", "end_batch", "log", "complete", "merged", "unlock"}

TypeOK ==
    /\ setting \in Settings
    /\ srcHead \in 0..MaxRev /\ enabled \in BOOLEAN
    /\ deltas \in [DestRev -> Delta \cup {NoDelta}]
    /\ snapshots \in [DestRev -> Tree \cup {NoTree}]
    /\ headFile \in 0..MaxHead
    /\ revprops \in [DestRev -> 0..MaxRev]
    /\ objects \in [Entry -> {"absent", "torn", "whole"}]
    /\ rows \in Tree
    /\ writer \in Mirror \cup {Nobody}
    /\ saved \in Tree \cup {NoTree} /\ (saved = NoTree <=> writer = Nobody)
    /\ state \in State \cup {None}
    /\ replLog \subseteq (1..MaxRev) \X (1..MaxRev)
    /\ mirror \in BOOLEAN /\ lock \in Mirror \cup {Nobody} /\ lastMerged \in 0..MaxRev
    /\ pc \in [Mirror -> PC] /\ run \in [Mirror -> Run]
    /\ faulty \in 0..MaxFaults
    /\ origin \in [DestRev -> 0..MaxRev]

(***************************************************************************)
(* A fresh destination that is not yet a mirror.                           *)
(***************************************************************************)
Init ==
    /\ setting \in Settings
    /\ srcHead = 0 /\ enabled = TRUE
    /\ deltas = [n \in DestRev |-> NoDelta]
    /\ snapshots = [n \in DestRev |-> NoTree]
    /\ headFile = 0
    /\ revprops = [n \in DestRev |-> 0]
    /\ objects = [e \in Entry |-> "absent"]
    /\ rows = EmptyTree /\ writer = Nobody /\ saved = NoTree
    /\ state = None
    /\ replLog = {}
    /\ mirror = FALSE /\ lock = Nobody /\ lastMerged = 0
    /\ pc = [m \in Mirror |-> "idle"] /\ run = [m \in Mirror |-> NoRun]
    /\ faulty = 0
    /\ origin = [n \in DestRev |-> 0]

\* SyncState::new
NewState == [last |-> 0, checkpoint |-> None]

\* protocol.rs copies from files, remote.rs asks over HTTP
Local(m) == run[m].kind # "pull"

\* the process goes on at l with its variables as they are; none are left when it ends
Goto(m, l) ==
    /\ pc' = [pc EXCEPT ![m] = l]
    /\ run' = IF l = "idle" THEN [run EXCEPT ![m] = NoRun] ELSE run

(***************************************************************************)
(* Trees as the two repositories reconstruct them.                         *)
(***************************************************************************)
SourceTree[r \in 0..MaxRev] ==
    IF r = 0 THEN EmptyTree ELSE ApplyDelta(SourceTree[r - 1], source[r])

DestTree[n \in 0..MaxHead] ==
    IF n = 0 THEN EmptyTree
    ELSE IF snapshots[n] # NoTree THEN snapshots[n]
    ELSE ApplyDelta(DestTree[n - 1], deltas[n])

\* extract_revision_data, for a local run: the delta's blobs ...
Objects(r) == DeltaObjects(source[r])
\* ... and build_revision_data, for the server: whether there is no change at all
EmptyCommit(r) == source[r] = EmptyDelta

\* verify_sync: no path missing, extra or with another object at this revision
Verified(r) == \A p \in Path : DestTree[r][p] = SourceTree[r][p]

\* SyncState::effective_start_rev
EffectiveStart(s) == IF s.checkpoint = None THEN s.last ELSE s.checkpoint

-----------------------------------------------------------------------------
(***************************************************************************)
(* The source goes on committing; its server may be told to refuse sync    *)
(* requests, after which POST /sync/config is refused as well.             *)
(***************************************************************************)
SourceCommit ==
    /\ srcHead < MaxRev
    /\ srcHead' = srcHead + 1
    /\ UNCHANGED <<setting, enabled, files, db, state, replLog, props, pc, run, history>>

\* handle_sync_request answers 403 on every endpoint once sync is disabled
Serves == enabled

SetConfig ==
    /\ "disable" \in setting.faults /\ Serves
    /\ enabled' = FALSE
    /\ UNCHANGED <<setting, srcHead, files, db, state, replLog, props, pc, run, history>>

\* LocalSync::init: the state file and the svn:sync-* properties of revision 0
InitMirror ==
    /\ state = None
    /\ state' = NewState
    /\ mirror' = TRUE /\ lastMerged' = 0
    /\ UNCHANGED <<setting, sourceVars, files, db, replLog, lock, pc, run, history>>

\* cmd_cleanup: the state, the replication log and every svn:sync-* property
Cleanup ==
    /\ "cleanup" \in setting.faults /\ faulty < MaxFaults
    /\ state # None
    /\ state' = None
    /\ replLog' = {}
    /\ mirror' = FALSE /\ lock' = Nobody /\ lastMerged' = 0
    /\ faulty' = faulty + 1
    /\ UNCHANGED <<setting, sourceVars, files, db, pc, run, origin>>

-----------------------------------------------------------------------------
(***************************************************************************)
(* SqliteRepository::open and initialize at the start of every command:    *)
(* current_rev is read from refs/head, and an empty tree_entries is filled *)
(* from the tree of that revision.                                         *)
(***************************************************************************)
Open(m, k) ==
    /\ pc[m] = "idle" /\ m \in setting.mirrors /\ k \in setting.kinds
    /\ run' = [run EXCEPT ![m].kind = k, ![m].rev = headFile]
    /\ rows' = IF rows = EmptyTree /\ writer = Nobody THEN DestTree[headFile] ELSE rows
    /\ pc' = [pc EXCEPT ![m] = IF k = "svnsync" THEN "check_lock" ELSE "load"]
    /\ UNCHANGED <<setting, sourceVars, files, writer, saved, state, replLog, props, history>>

\* acquire_lock: the property is read ...
CheckLock(m) ==
    /\ pc[m] = "check_lock"
    /\ Goto(m, IF lock = Nobody THEN "set_lock" ELSE "idle")
    /\ UNCHANGED <<setting, sourceVars, files, db, state, replLog, props, history>>

\* ... and then set
SetLock(m) ==
    /\ pc[m] = "set_lock"
    /\ lock' = m
    /\ Goto(m, "load")
    /\ UNCHANGED <<setting, sourceVars, files, db, state, replLog, mirror, lastMerged, history>>

\* Mutant: a run with nothing to do returns without releasing the lock.
AfterRunKeepsLock(m) == "idle"

AfterRun(m) == IF run[m].kind = "svnsync" THEN "unlock" ELSE "idle"

(***************************************************************************)
(* The head of sync() and pull(): the state is loaded (pull makes one when *)
(* there is none), the source's head is read once, and the range to copy   *)
(* is what lies above the checkpoint, or above the last completed run.     *)
(* begin_sync rewrites the state with a flag nothing reads; BEGIN takes no *)
(* lock until the first write.                                             *)
(***************************************************************************)
LoadState(m) ==
    /\ pc[m] = "load"
    /\ \/ state # None /\ state' = state
       \/ state = None /\ ~Local(m) /\ state' = NewState
    /\ Local(m) \/ Serves
    /\ LET first == EffectiveStart(state') + 1 IN
          \/ first > srcHead /\ Goto(m, AfterRun(m))
          \/ /\ first <= srcHead
             /\ run' = [run EXCEPT ![m].last = state'.last, ![m].from = first, ![m].cur = first,
                                   ![m].to = srcHead]
             /\ pc' = [pc EXCEPT ![m] = IF Local(m) THEN "store" ELSE "fetch"]
    /\ UNCHANGED <<setting, sourceVars, files, db, replLog, props, history>>

\* not a mirror, or the server refuses: sync() and pull() return an error
LoadFails(m) ==
    /\ pc[m] = "load"
    /\ \/ state = None /\ Local(m)
       \/ ~Local(m) /\ ~Serves
    /\ Goto(m, AfterRun(m))
    /\ UNCHANGED <<setting, sourceVars, files, db, state, replLog, props, history>>

-----------------------------------------------------------------------------
(***************************************************************************)
(* One revision is copied.  pull first asks for the list of the revisions  *)
(* of a batch and then for their data.  An empty list would end its loop,  *)
(* but the server has what lies between the checkpoint and its head.       *)
(***************************************************************************)
Fetch(m) ==
    /\ pc[m] = "fetch" /\ Serves
    /\ Goto(m, "store")
    /\ UNCHANGED <<setting, sourceVars, files, db, state, replLog, props, history>>

Skipped(r) == EmptyCommit(r) /\ ~setting.allowEmpty

(***************************************************************************)
(* apply_revision_data skips an empty revision when the destination's      *)
(* configuration says so; pull never looks.  Otherwise the blobs that have *)
(* no file yet are written to their final place.                           *)
(***************************************************************************)
StoreObjects(m) ==
    /\ pc[m] = "store"
    /\ IF Skipped(run[m].cur) /\ Local(m)
       THEN Goto(m, "checkpoint") /\ objects' = objects
       ELSE /\ objects' = [e \in Entry |->
                              IF e \in Objects(run[m].cur) /\ objects[e] = "absent" THEN "whole" ELSE objects[e]]
            /\ Goto(m, "apply")
    /\ UNCHANGED <<setting, sourceVars, deltas, snapshots, headFile, revprops, db, state, replLog, props,
                   history>>

\* add_file_sync, mkdir_sync and delete_file_sync for each change; the first
\* write of a transaction waits for the other process's to end
ApplyChanges(m) ==
    /\ pc[m] = "apply" /\ writer \in {Nobody, m}
    /\ writer' = m
    /\ saved' = IF writer = Nobody THEN rows ELSE saved
    /\ rows' = ApplyDelta(rows, source[run[m].cur])
    /\ Goto(m, "commit")
    /\ UNCHANGED <<setting, sourceVars, files, state, replLog, props, history>>

\* Mutant: the periodic snapshot is taken from the tree before the batch.
CommitStaleSnapshot(m) ==
    LET nr == run[m].rev + 1 IN
    /\ pc[m] = "commit" /\ Local(m) /\ nr <= MaxHead
    /\ deltas' = [deltas EXCEPT ![nr] = source[run[m].cur]]
    /\ snapshots' = [snapshots EXCEPT ![nr] = IF nr % SnapshotInterval = 0 THEN saved ELSE @]
    /\ headFile' = nr
    /\ run' = [run EXCEPT ![m].rev = nr]
    /\ origin' = [origin EXCEPT ![nr] = run[m].cur]
    /\ pc' = [pc EXCEPT ![m] = "props"]
    /\ UNCHANGED <<setting, sourceVars, revprops, objects, db, state, replLog, props, faulty>>

\* commit_sync: the revision after the one this process believes to be the head
Commit(m) ==
    LET nr == run[m].rev + 1 IN
    /\ pc[m] = "commit" /\ Local(m) /\ nr <= MaxHead
    /\ deltas' = [deltas EXCEPT ![nr] = source[run[m].cur]]
    /\ snapshots' = [snapshots EXCEPT ![nr] = IF nr % SnapshotInterval = 0 THEN rows ELSE @]
    /\ headFile' = nr
    /\ run' = [run EXCEPT ![m].rev = nr]
    /\ origin' = [origin EXCEPT ![nr] = run[m].cur]
    /\ pc' = [pc EXCEPT ![m] = "props"]
    /\ UNCHANGED <<setting, sourceVars, revprops, objects, db, state, replLog, props, faulty>>

\* Mutant: the properties are filed under the source's number.
SaveRevpropsBySource(m) ==
    /\ pc[m] = "props"
    /\ revprops' = [revprops EXCEPT ![run[m].cur] = run[m].cur]
    /\ Goto(m, "checkpoint")
    /\ UNCHANGED <<setting, sourceVars, deltas, snapshots, headFile, objects, db, state, replLog, props,
                   history>>

\* the properties are filed under the number commit_sync returned
SaveRevprops(m) ==
    /\ pc[m] = "props"
    /\ revprops' = [revprops EXCEPT ![run[m].rev] = run[m].cur]
    /\ Goto(m, "checkpoint")
    /\ UNCHANGED <<setting, sourceVars, deltas, snapshots, headFile, objects, db, state, replLog, props,
                   history>>

\* Mutant: the checkpoint names the revision that comes next.
CheckpointEarly(m) ==
    /\ pc[m] = "checkpoint"
    /\ run' = [run EXCEPT ![m].count = @ + 1, ![m].cur = @ + 1]
    /\ state' = [last |-> run[m].last, checkpoint |-> IF run[m].cur = run[m].to THEN run[m].cur ELSE run[m].cur + 1]
    /\ pc' = [pc EXCEPT ![m] = IF run[m].cur = run[m].to THEN "end_batch" ELSE "store"]
    /\ UNCHANGED <<setting, sourceVars, files, db, replLog, props, history>>

(***************************************************************************)
(* The end of the loop's body: a checkpoint every CheckpointInterval       *)
(* revisions.  The process saves its own copy of the state, whatever the   *)
(* file says now.                                                          *)
(***************************************************************************)
CheckpointDue(m) == (run[m].count + 1) % CheckpointInterval = 0

Checkpoint(m) ==
    /\ pc[m] = "checkpoint"
    /\ run' = [run EXCEPT ![m].count = @ + 1, ![m].cur = @ + 1]
    /\ state' = IF CheckpointDue(m) THEN [last |-> run[m].last, checkpoint |-> run[m].cur] ELSE state
    /\ pc' = [pc EXCEPT ![m] = IF run[m].cur = run[m].to THEN "end_batch" ELSE "store"]
    /\ UNCHANGED <<setting, sourceVars, files, db, replLog, props, history>>

-----------------------------------------------------------------------------
(***************************************************************************)
(* The end of a run: COMMIT, the replication log, the state, the svnsync   *)
(* properties and the lock.                                                *)
(***************************************************************************)
EndBatch(m) ==
    /\ pc[m] = "end_batch"
    /\ IF writer = m THEN writer' = Nobody /\ saved' = NoTree ELSE UNCHANGED <<writer, saved>>
    /\ Goto(m, "log")
    /\ UNCHANGED <<setting, sourceVars, files, rows, state, replLog, props, history>>

AppendLog(m) ==
    /\ pc[m] = "log"
    /\ replLog' = replLog \cup {<<run[m].from, run[m].to>>}
    /\ Goto(m, "complete")
    /\ UNCHANGED <<setting, sourceVars, files, db, state, props, history>>

\* Mutant: the source's head is read again instead of the one the run started with.
CompleteSyncAtHead(m) ==
    /\ pc[m] = "complete"
    /\ state' = [last |-> srcHead, checkpoint |-> None]
    /\ Goto(m, "merged")
    /\ UNCHANGED <<setting, sourceVars, files, db, replLog, props, history>>

CompleteSync(m) ==
    /\ pc[m] = "complete"
    /\ state' = [last |-> run[m].to, checkpoint |-> None]
    /\ Goto(m, "merged")
    /\ UNCHANGED <<setting, sourceVars, files, db, replLog, props, history>>

SetLastMerged(m) ==
    /\ pc[m] = "merged"
    /\ lastMerged' = IF mirror \/ run[m].kind = "svnsync" THEN run[m].to ELSE lastMerged
    /\ Goto(m, AfterRun(m))
    /\ UNCHANGED <<setting, sourceVars, files, db, state, replLog, mirror, lock, history>>

\* release_lock deletes the property, whoever set it
ReleaseLock(m) ==
    /\ pc[m] = "unlock"
    /\ lock' = Nobody
    /\ Goto(m, "idle")
    /\ UNCHANGED <<setting, sourceVars, files, db, state, replLog, mirror, lastMerged, history>>

-----------------------------------------------------------------------------
(***************************************************************************)
(* What goes wrong.  A process that ends inside its transaction loses what *)
(* it did to the rows and nothing else; one that ends while it writes an   *)
(* object file may leave it torn.                                          *)
(***************************************************************************)
Rollback(m) ==
    IF writer = m THEN rows' = saved /\ writer' = Nobody /\ saved' = NoTree
    ELSE UNCHANGED db

LeaveObjects(m) ==
    \E torn \in SUBSET {e \in Entry : pc[m] = "store" /\ e \in Objects(run[m].cur) /\ objects[e] = "absent"} :
        objects' = [e \in Entry |-> IF e \in torn THEN "torn" ELSE objects[e]]

InSync == {"load", "fetch", "store", "apply", "commit", "props", "checkpoint", "end_batch", "log", "complete"}

Crash(m) ==
    /\ "crash" \in setting.faults /\ faulty < MaxFaults
    /\ pc[m] # "idle"
    /\ Goto(m, "idle")
    /\ Rollback(m)
    /\ LeaveObjects(m)
    /\ faulty' = faulty + 1
    /\ UNCHANGED <<setting, sourceVars, deltas, snapshots, headFile, revprops, state, replLog, props,
                   origin>>

\* a `?` of sync() or pull(): the batch is never ended, svnsync-sync gives its
\* lock back; a `?` after that leaves the lock behind
Fail(m) ==
    /\ "error" \in setting.faults /\ faulty < MaxFaults
    /\ \/ pc[m] \in InSync /\ Goto(m, AfterRun(m)) /\ LeaveObjects(m)
       \/ pc[m] \in {"merged", "unlock"} /\ Goto(m, "idle") /\ objects' = objects
    /\ Rollback(m)
    /\ faulty' = faulty + 1
    /\ UNCHANGED <<setting, sourceVars, deltas, snapshots, headFile, revprops, state, replLog, props,
                   origin>>

\* pull meets a content hash that does not match and ends its batch, in which
\* it has written nothing yet
HashMismatch(m) ==
    /\ "corrupt" \in setting.faults
    /\ pc[m] = "store" /\ ~Local(m)
    /\ Goto(m, "idle")
    /\ UNCHANGED <<setting, sourceVars, files, db, state, replLog, props, history>>

\* pull calls commit_sync inside the runtime: the process dies in its transaction
CommitPanics(m) ==
    /\ pc[m] = "commit" /\ ~Local(m)
    /\ Goto(m, "idle")
    /\ Rollback(m)
    /\ UNCHANGED <<setting, sourceVars, files, state, replLog, props, history>>

\* the server refuses a batch, or SQLite has waited long enough for the other writer
GiveUp(m) ==
    /\ \/ pc[m] = "fetch" /\ ~Serves
       \/ pc[m] = "apply" /\ writer \notin {Nobody, m}
    /\ Goto(m, AfterRun(m))
    /\ Rollback(m)
    /\ UNCHANGED <<setting, sourceVars, files, state, replLog, props, history>>

-----------------------------------------------------------------------------
(***************************************************************************)
(* The functions as they are in the code: apply_revision_data, LocalSync:: *)
(* sync, RemotePull::pull as far as it gets, and what the commands do      *)
(* around them.                                                            *)
(***************************************************************************)
ApplyRevision(m) == StoreObjects(m) \/ ApplyChanges(m) \/ Commit(m) \/ SaveRevprops(m)
Finish(m) == EndBatch(m) \/ AppendLog(m) \/ CompleteSync(m)

Sync(m) ==
    /\ Local(m)
    /\ \/ LoadState(m) \/ LoadFails(m)
       \/ ApplyRevision(m) \/ Checkpoint(m)
       \/ Finish(m) \/ GiveUp(m)

Pull(m) ==
    /\ ~Local(m)
    /\ \/ LoadState(m) \/ LoadFails(m) \/ Fetch(m)
       \/ StoreObjects(m) \/ ApplyChanges(m) \/ CommitPanics(m) \/ GiveUp(m)

Command(m) == CheckLock(m) \/ SetLock(m) \/ SetLastMerged(m) \/ ReleaseLock(m)

Continue(m) == Command(m) \/ Sync(m) \/ Pull(m)

Next ==
    \/ SourceCommit \/ SetConfig \/ InitMirror \/ Cleanup
    \/ \E m \in Mirror, k \in Kind : Open(m, k)
    \/ \E m \in Mirror : Continue(m) \/ Crash(m) \/ Fail(m) \/ HashMismatch(m)

Spec == Init /\ [][Next]_vars

(***************************************************************************)
(* A process that runs is scheduled and its calls return.  Nothing obliges *)
(* anybody to start one.                                                   *)
(***************************************************************************)
FairSpec == Spec /\ \A m \in Mirror : WF_vars(Continue(m))

-----------------------------------------------------------------------------
(***************************************************************************)
(* Runs follow one another, as an operator would schedule them.            *)
(***************************************************************************)
Apart == Cardinality(setting.mirrors) = 1
Copied(r) == Skipped(r) \/ \E n \in 1..headFile : origin[n] = r

Claimed ==
    (IF state = None THEN {} ELSE 1..EffectiveStart(state))
    \cup (UNION {l[1]..l[2] : l \in replLog})
    \cup 1..lastMerged

(***************************************************************************)
(* Whatever dies when, sync-state.json, the replication log and            *)
(* svn:sync-last-merged-rev never claim a revision the destination does    *)
(* not have: the checkpoint of protocol.rs:281 follows the commits it      *)
(* covers, and refs/head is never behind it.                               *)
(***************************************************************************)
ClaimedIsCopied == Apart => \A r \in Claimed : Copied(r)

(***************************************************************************)
(* The destination holds the source's revisions in order: a revision       *)
(* continues where its predecessor stopped or goes back to one that is     *)
(* copied again (after a crash, a failure or a cleanup), and passes over   *)
(* only revisions allow_empty = false skips.  Nothing is ever left out.    *)
(***************************************************************************)
InOrder ==
    Apart =>
        \A n \in 1..headFile :
            LET before == IF n = 1 THEN 0 ELSE origin[n - 1] IN
            \A r \in before + 1..origin[n] - 1 : Skipped(r)

(***************************************************************************)
(* As long as nothing went wrong and no revision is skipped, every         *)
(* revision keeps its number, whatever pulls die in between; and whatever  *)
(* dies, fails or is skipped, the properties of a revision are those of    *)
(* the source revision it was copied from (protocol.rs:143-168).           *)
(***************************************************************************)
NumbersKept ==
    Apart =>
        /\ faulty = 0 /\ setting.allowEmpty => \A n \in 1..headFile : origin[n] = n
        /\ \A n \in 1..headFile : revprops[n] \in {0, origin[n]}

DeltaTree[n \in 0..MaxHead] ==
    IF n = 0 THEN EmptyTree ELSE ApplyDelta(DeltaTree[n - 1], deltas[n])

(***************************************************************************)
(* The step that declares a run complete (sync.rs complete_sync) finds the *)
(* source's tree in the destination: its deltas replay to it even when     *)
(* revisions were copied twice, and the tree get_tree_at_rev returns, with *)
(* its snapshots, and the working tree are that tree too, with every       *)
(* object whole, if nothing but pulls ever died.  Then `sync --verify`,    *)
(* which looks at the same number on both sides, succeeds unless an empty  *)
(* revision was skipped.                                                   *)
(***************************************************************************)
MirrorFaithful ==
    [][\A m \in Mirror : Apart /\ CompleteSync(m) =>
        /\ DeltaTree[headFile] = SourceTree[run[m].to]
        /\ faulty = 0 =>
              /\ DestTree[headFile] = SourceTree[run[m].to]
              /\ rows = SourceTree[run[m].to]
              /\ \A e \in TreeObjects(rows) : objects[e] = "whole"
              /\ setting.allowEmpty => Verified(run[m].to)]_vars

(***************************************************************************)
(* A run ends, and when it is neither killed nor fails it leaves no lock   *)
(* behind: no run waits for another for ever, not even when two of them    *)
(* write to the same destination.                                          *)
(***************************************************************************)
RunEnds ==
    \A m \in Mirror :
        pc[m] # "idle" ~> pc[m] = "idle" /\ (faulty = 0 => lock # m)

(***************************************************************************)
(* compat.rs:84 says that the lock "prevents concurrent svnsync            *)
(* operations": a revision the destination has is never written again.     *)
(***************************************************************************)
NeverOverwritten ==
    [][\A n \in 1..headFile : origin'[n] = origin[n]]_vars
=============================================================================
