------------------------------ MODULE TreeReader ------------------------------
(***************************************************************************)
(* SqliteRepository::get_tree_at_rev: readers that rebuild a revision's    *)
(* tree from the LRU cache, the snapshots and the deltas, while a commit   *)
(* stores the next revision.  The cache mutex is taken for one lookup or   *)
(* one insertion at a time, and the function takes no other lock.          *)
(*                                                                         *)
(* What a delta changes is abstracted to the attempt that wrote it: a tree *)
(* is the sequence of the attempts whose deltas it has been through, so    *)
(* two trees are equal here exactly when they come from the same deltas.   *)
(* Whether the full tree a commit writes is the one its deltas lead to is  *)
(* the subject of SqliteRepository; here it is.                            *)
(***************************************************************************)
EXTENDS Integers, SequencesExt

CONSTANTS
    Reader,            \* concurrent calls of get_tree_at_rev
    MaxRev,            \* bound: highest revision
    MaxAttempts,       \* bound: commits begun, those that fail included
    SnapshotInterval,  \* SNAPSHOT_INTERVAL
    CacheCapacity,     \* TREE_CACHE_CAPACITY
    Modes,             \* commit() is "async", commit_sync() is "sync"
    Settings,          \* the settings to consider, see `setting`
    None               \* no file, no tree

ASSUME ReaderAssumption ==
    /\ MaxRev \in Nat /\ MaxAttempts \in Nat
    /\ SnapshotInterval \in Nat \ {0}
    /\ CacheCapacity \in Nat \ {0}
    /\ Modes \subseteq {"async", "sync"}
    /\ Settings \subseteq [ahead : BOOLEAN, faults : SUBSET {"io_error", "crash"}]

VARIABLES
    setting,     \* ahead: callers may name a revision beyond the head (the update
                 \* report does not clamp it); faults: commits fail, the process dies
    head,        \* current_rev and refs/head
    attempt,     \* number of commits begun
    stage, mode, \* where the committer is, and in which function
    commits,     \* commits/N.bin: the tree object it names, or None
    deltas,      \* tree_deltas/N.bin: the attempt that wrote it, or None
    snapshots,   \* trees/N.bin
    cache,       \* tree_cache: [rev, tree], most recently used first
    pc, rev,     \* per reader: where it is, and its argument
    cur, chain,  \* per reader: the walk, and the deltas collected, newest first
    tree         \* per reader: `tree`, at the end the result

files == <<commits, deltas, snapshots>>
committer == <<setting, head, attempt, stage, mode>>
readers == <<pc, rev, cur, chain, tree>>
vars == <<committer, files, cache, readers>>

Revision == 1..MaxRev
Trees == UNION {[1..n -> 1..MaxAttempts] : n \in 0..MaxRev}
Link == [rev : Revision, delta : 1..MaxAttempts]

TypeOK ==
    /\ setting \in Settings
    /\ head \in 0..MaxRev
    /\ attempt \in 0..MaxAttempts
    /\ stage \in {"idle", "commit", "delta", "snapshot", "publish"}
    /\ mode \in {"async", "sync"}
    /\ commits \in [Revision -> Trees \cup {None}]
    /\ deltas \in [Revision -> 1..MaxAttempts \cup {None}]
    /\ snapshots \in [Revision -> Trees \cup {None}]
    /\ cache \in Seq([rev : Revision, tree : Trees])
    /\ Len(cache) <= CacheCapacity
    /\ pc \in [Reader -> {"idle", "lookup", "snapshot", "walk", "files", "legacy", "base", "apply", "done", "error"}]
    /\ rev \in [Reader -> 0..MaxRev]
    /\ cur \in [Reader -> 0..MaxRev]
    /\ chain \in [Reader -> Seq(Link)]
    /\ tree \in [Reader -> Trees]

Init ==
    /\ setting \in Settings
    /\ head = 0 /\ attempt = 0
    /\ stage = "idle" /\ mode = "async"
    /\ commits = [r \in Revision |-> None]
    /\ deltas = [r \in Revision |-> None]
    /\ snapshots = [r \in Revision |-> None]
    /\ cache = <<>>
    /\ pc = [k \in Reader |-> "idle"]
    /\ rev = [k \in Reader |-> 0]
    /\ cur = [k \in Reader |-> 0]
    /\ chain = [k \in Reader |-> <<>>]
    /\ tree = [k \in Reader |-> <<>>]

-----------------------------------------------------------------------------
(***************************************************************************)
(* The committer, one file per step, in the order of commit() and of       *)
(* commit_sync() (which writes the snapshot first, and whose commit names  *)
(* no tree object otherwise).                                              *)
(***************************************************************************)
NewRev == head + 1
SnapshotDue == NewRev % SnapshotInterval = 0
TreeOf(r) == [i \in 1..r |-> deltas[i]]
NewTree == Append(TreeOf(head), attempt)

BeginCommit(m) ==
    /\ stage = "idle" /\ head < MaxRev /\ attempt < MaxAttempts
    /\ attempt' = attempt + 1
    /\ mode' = m
    /\ stage' = IF m = "sync" /\ SnapshotDue THEN "snapshot" ELSE "commit"
    /\ UNCHANGED <<setting, head, files, cache, readers>>

StoreCommit ==
    /\ stage = "commit"
    /\ commits' = [commits EXCEPT ![NewRev] = IF mode = "async" \/ SnapshotDue THEN NewTree ELSE None]
    /\ stage' = "delta"
    /\ UNCHANGED <<setting, head, attempt, mode, deltas, snapshots, cache, readers>>

StoreDelta ==
    /\ stage = "delta"
    /\ deltas' = [deltas EXCEPT ![NewRev] = attempt]
    /\ stage' = IF mode = "async" /\ SnapshotDue THEN "snapshot" ELSE "publish"
    /\ UNCHANGED <<setting, head, attempt, mode, commits, snapshots, cache, readers>>

StoreSnapshot ==
    /\ stage = "snapshot"
    /\ snapshots' = [snapshots EXCEPT ![NewRev] = NewTree]
    /\ stage' = IF mode = "sync" THEN "commit" ELSE "publish"
    /\ UNCHANGED <<setting, head, attempt, mode, commits, deltas, cache, readers>>

(***************************************************************************)
(* save_head and current_rev.                                              *)
(***************************************************************************)
Publish ==
    /\ stage = "publish"
    /\ head' = NewRev
    /\ stage' = "idle"
    /\ UNCHANGED <<setting, attempt, mode, files, cache, readers>>

FailCommit ==
    /\ "io_error" \in setting.faults /\ stage # "idle"
    /\ stage' = "idle"
    /\ UNCHANGED <<setting, head, attempt, mode, files, cache, readers>>

Crash ==
    /\ "crash" \in setting.faults
    /\ stage' = "idle"
    /\ cache' = <<>>
    /\ pc' = [k \in Reader |-> "idle"]
    /\ rev' = [k \in Reader |-> 0]
    /\ cur' = [k \in Reader |-> 0]
    /\ chain' = [k \in Reader |-> <<>>]
    /\ tree' = [k \in Reader |-> <<>>]
    /\ UNCHANGED <<setting, head, attempt, mode, files>>

-----------------------------------------------------------------------------
(***************************************************************************)
(* lru::LruCache: get moves the entry to the front, put inserts at the     *)
(* front and drops the least recently used entry when it is full.          *)
(***************************************************************************)
Cached(r) == \E i \in DOMAIN cache : cache[i].rev = r
CachedTree(r) == cache[CHOOSE i \in DOMAIN cache : cache[i].rev = r].tree
Without(r) ==
    IF Cached(r) THEN RemoveAt(cache, CHOOSE i \in DOMAIN cache : cache[i].rev = r) ELSE cache
Touch(r) == <<[rev |-> r, tree |-> CachedTree(r)]>> \o Without(r)

Put(r, t) ==
    LET full == <<[rev |-> r, tree |-> t]>> \o Without(r)
    IN  SubSeq(full, 1, Min({Len(full), CacheCapacity}))

-----------------------------------------------------------------------------
(***************************************************************************)
(* One reader.  A step is a lookup or an insertion in the cache, or what   *)
(* the code reads from the disk between two of them.                       *)
(***************************************************************************)
Goto(k, l) == pc' = [pc EXCEPT ![k] = l]

Finish(k, t) ==
    /\ tree' = [tree EXCEPT ![k] = t]
    /\ Goto(k, "done")

Start(k, r) ==
    /\ pc[k] = "idle"
    /\ setting.ahead \/ r <= head
    /\ rev' = [rev EXCEPT ![k] = r]
    /\ Goto(k, IF r = 0 THEN "done" ELSE "lookup")
    /\ UNCHANGED <<committer, files, cache, cur, chain, tree>>

Lookup(k) ==
    /\ pc[k] = "lookup"
    /\ IF Cached(rev[k])
       THEN cache' = Touch(rev[k]) /\ Finish(k, CachedTree(rev[k]))
       ELSE Goto(k, "snapshot") /\ UNCHANGED <<cache, tree>>
    /\ UNCHANGED <<committer, files, rev, cur, chain>>

TrySnapshot(k) ==
    /\ pc[k] = "snapshot"
    /\ IF snapshots[rev[k]] # None
       THEN /\ cache' = Put(rev[k], snapshots[rev[k]])
            /\ Finish(k, snapshots[rev[k]])
            /\ UNCHANGED cur
       ELSE /\ cur' = [cur EXCEPT ![k] = rev[k]]
            /\ Goto(k, "walk")
            /\ UNCHANGED <<cache, tree>>
    /\ UNCHANGED <<committer, files, rev, chain>>

(***************************************************************************)
(* The walk back along parent_rev stops at revision 0, at a revision that  *)
(* is cached now, or at a snapshot.                                        *)
(***************************************************************************)
Walk(k) ==
    /\ pc[k] = "walk"
    /\ IF cur[k] = 0
       THEN Goto(k, "base") /\ UNCHANGED cache
       ELSE IF Cached(cur[k])
       THEN Goto(k, "base") /\ cache' = Touch(cur[k])
       ELSE Goto(k, "files") /\ UNCHANGED cache
    /\ UNCHANGED <<committer, files, rev, cur, chain, tree>>

(***************************************************************************)
(* Mutant: the walk does not move on to the parent.                        *)
(***************************************************************************)
WalkFilesStuck(k) ==
    /\ pc[k] = "files"
    /\ Goto(k, IF snapshots[cur[k]] # None THEN "base"
               ELSE IF deltas[cur[k]] # None THEN "walk" ELSE "legacy")
    /\ UNCHANGED <<committer, files, cache, rev, cur, chain, tree>>

WalkFiles(k) ==
    /\ pc[k] = "files"
    /\ IF snapshots[cur[k]] # None
       THEN Goto(k, "base") /\ UNCHANGED <<cur, chain>>
       ELSE IF deltas[cur[k]] # None
       THEN /\ chain' = [chain EXCEPT ![k] = Append(@, [rev |-> cur[k], delta |-> deltas[cur[k]]])]
            /\ cur' = [cur EXCEPT ![k] = @ - 1]
            /\ Goto(k, "walk")
       ELSE Goto(k, "legacy") /\ UNCHANGED <<cur, chain>>
    /\ UNCHANGED <<committer, files, cache, rev, tree>>

(***************************************************************************)
(* get_tree_at_rev_legacy: the tree object the commit file names, if both  *)
(* are there.                                                              *)
(***************************************************************************)
Legacy(k) ==
    /\ pc[k] = "legacy"
    /\ IF commits[rev[k]] # None
       THEN cache' = Put(rev[k], commits[rev[k]]) /\ Finish(k, commits[rev[k]])
       ELSE Goto(k, "error") /\ UNCHANGED <<cache, tree>>
    /\ UNCHANGED <<committer, files, rev, cur, chain>>

(***************************************************************************)
(* The base of the chain is looked up again: the lock on the cache was     *)
(* dropped since the walk stopped here.                                    *)
(***************************************************************************)
AfterBase(k) == IF chain[k] = <<>> THEN "done" ELSE "apply"

Base(k) ==
    /\ pc[k] = "base"
    /\ \/ /\ cur[k] = 0
          /\ Goto(k, AfterBase(k))
          /\ UNCHANGED <<cache, tree>>
       \/ /\ cur[k] # 0 /\ Cached(cur[k])
          /\ cache' = Touch(cur[k])
          /\ tree' = [tree EXCEPT ![k] = CachedTree(cur[k])]
          /\ Goto(k, AfterBase(k))
       \/ /\ cur[k] # 0 /\ ~Cached(cur[k]) /\ snapshots[cur[k]] # None
          /\ cache' = Put(cur[k], snapshots[cur[k]])
          /\ tree' = [tree EXCEPT ![k] = snapshots[cur[k]]]
          /\ Goto(k, AfterBase(k))
       \/ /\ cur[k] # 0 /\ ~Cached(cur[k]) /\ snapshots[cur[k]] = None
          /\ Goto(k, "error")
          /\ UNCHANGED <<cache, tree>>
    /\ UNCHANGED <<committer, files, rev, cur, chain>>

(***************************************************************************)
(* Mutants: the deltas are applied newest first; the tree is cached under  *)
(* the revision asked for before all its deltas are in.                    *)
(***************************************************************************)
ApplyNewestFirst(k) ==
    /\ pc[k] = "apply"
    /\ LET link == Head(chain[k])
           next == Append(tree[k], link.delta)
       IN  /\ tree' = [tree EXCEPT ![k] = next]
           /\ cache' = Put(link.rev, next)
    /\ chain' = [chain EXCEPT ![k] = Tail(@)]
    /\ Goto(k, IF Len(chain[k]) = 1 THEN "done" ELSE "apply")
    /\ UNCHANGED <<committer, files, rev, cur>>

ApplyCachesEarly(k) ==
    /\ pc[k] = "apply"
    /\ LET next == Append(tree[k], Last(chain[k]).delta)
       IN  /\ tree' = [tree EXCEPT ![k] = next]
           /\ cache' = Put(rev[k], next)
    /\ chain' = [chain EXCEPT ![k] = Front(@)]
    /\ Goto(k, IF Len(chain[k]) = 1 THEN "done" ELSE "apply")
    /\ UNCHANGED <<committer, files, rev, cur>>

ApplyOne(k) ==
    /\ pc[k] = "apply"
    /\ LET link == Last(chain[k])
           next == Append(tree[k], link.delta)
       IN  /\ tree' = [tree EXCEPT ![k] = next]
           /\ cache' = Put(link.rev, next)
    /\ chain' = [chain EXCEPT ![k] = Front(@)]
    /\ Goto(k, IF Len(chain[k]) = 1 THEN "done" ELSE "apply")
    /\ UNCHANGED <<committer, files, rev, cur>>

(***************************************************************************)
(* fs::write is not atomic: a file that exists and is being written does   *)
(* not deserialize, and `?` ends the read.                                 *)
(***************************************************************************)
TornRead(k) ==
    /\ \/ pc[k] = "snapshot" /\ stage = "snapshot" /\ rev[k] = NewRev
       \/ pc[k] = "files" /\ stage = "delta" /\ cur[k] = NewRev
       \/ pc[k] = "legacy" /\ stage = "commit" /\ rev[k] = NewRev
       \/ pc[k] = "base" /\ stage = "snapshot" /\ cur[k] = NewRev
    /\ Goto(k, "error")
    /\ UNCHANGED <<committer, files, cache, rev, cur, chain, tree>>

Return(k) ==
    /\ pc[k] \in {"done", "error"}
    /\ Goto(k, "idle")
    /\ rev' = [rev EXCEPT ![k] = 0]
    /\ cur' = [cur EXCEPT ![k] = 0]
    /\ chain' = [chain EXCEPT ![k] = <<>>]
    /\ tree' = [tree EXCEPT ![k] = <<>>]
    /\ UNCHANGED <<committer, files, cache>>

Read(k) ==
    \/ Lookup(k) \/ TrySnapshot(k) \/ Walk(k) \/ WalkFiles(k)
    \/ Legacy(k) \/ Base(k) \/ ApplyOne(k) \/ TornRead(k)

Commit ==
    \/ \E m \in Modes : BeginCommit(m)
    \/ StoreCommit \/ StoreDelta \/ StoreSnapshot \/ Publish

Next ==
    \/ Commit \/ FailCommit \/ Crash
    \/ \E k \in Reader : Read(k) \/ Return(k)
    \/ \E k \in Reader, r \in 0..MaxRev : Start(k, r)

Spec == Init /\ [][Next]_vars

(***************************************************************************)
(* A reader inside get_tree_at_rev is scheduled: it waits for nothing but  *)
(* the cache mutex, which is never held across a step.                     *)
(***************************************************************************)
FairSpec == Spec /\ \A k \in Reader : WF_vars(Read(k))

-----------------------------------------------------------------------------
(***************************************************************************)
(* get_tree_at_rev of a published revision returns the tree its deltas     *)
(* lead to, whichever cache entries other readers put or evicted on the    *)
(* way and whichever commits were stored, failed or died meanwhile.        *)
(***************************************************************************)
ReadCorrect ==
    \A k \in Reader : pc[k] = "done" /\ rev[k] <= head => tree[k] = TreeOf(rev[k])

(***************************************************************************)
(* Every cached tree is the tree of its revision, the one now being stored *)
(* included: nothing ever removes a cache entry but the LRU policy, so an  *)
(* entry put too early is served for good once the revision is published.  *)
(***************************************************************************)
CacheCoherent ==
    \A i \in DOMAIN cache : cache[i].rev <= head => cache[i].tree = TreeOf(cache[i].rev)

(***************************************************************************)
(* get_tree_at_rev of a published revision never fails: "No base tree"     *)
(* cannot happen, since the walk only stops where there is a base.         *)
(***************************************************************************)
NoSpuriousError == \A k \in Reader : pc[k] = "error" => rev[k] > head

(***************************************************************************)
(* Every call of get_tree_at_rev returns, with a tree or an error.         *)
(***************************************************************************)
ReadTerminates ==
    \A k \in Reader : pc[k] \notin {"idle", "done", "error"} ~> pc[k] \in {"idle", "done", "error"}
=============================================================================
