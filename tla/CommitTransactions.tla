-------------------------- MODULE CommitTransactions --------------------------
(***************************************************************************)
(* dsvn-webdav/src/handlers.rs: how an svn commit travels over HTTP.       *)
(*                                                                         *)
(* POST create-txn or MKACTIVITY opens a transaction in the in-memory      *)
(* TRANSACTIONS table, PUT and PROPPATCH stage files and the log message   *)
(* in it, MERGE removes it from the table and turns it into a revision     *)
(* under COMMIT_LOCK, DELETE aborts it.  handle_load writes to the same    *)
(* working tree without that lock.  Requests of different clients          *)
(* interleave at every await.                                              *)
(*                                                                         *)
(* The content of a staged file is abstracted to the client that sent it.  *)
(* The repository is reduced to its working tree, its pending changes and  *)
(* its revisions; repo.commit() is one step, SqliteRepository models its   *)
(* inside, and so are create-txn, whose awaits change nothing, and a       *)
(* load's commit with the end of its batch.  The base revision and the     *)
(* author are never read again and are left out.                           *)
(***************************************************************************)
EXTENDS Integers, Sequences, FiniteSets

CONSTANTS
    Client,      \* HTTP clients; each has one request under way
    Path,        \* the paths they commit to
    Named,       \* Named[c] : the activity names client c makes up itself
    MaxTxns,     \* bound: transactions ever opened
    MaxLoads,    \* bound: loads of a dumped revision begun
    Settings,    \* the settings to consider, see `setting`
    Nobody,      \* no client, no content
    NoTxn        \* no transaction

Name == UNION {Named[c] : c \in Client}
GenName == Nat \X Nat    \* "{current_rev}-{seq}"
Id == Name \cup GenName

ASSUME TransactionAssumption ==
    /\ IsFiniteSet(Client)
    /\ Named \in [Client -> SUBSET Name]
    /\ MaxTxns \in Nat /\ MaxLoads \in Nat
    /\ Nobody \notin Client \cup Id
    /\ Settings \subseteq [loads : BOOLEAN, faults : SUBSET {"reject", "io_error", "crash"}]

VARIABLES
    setting,   \* loads: dumps are loaded meanwhile; faults: the pre-commit hook
               \* rejects, a step of a MERGE or a load fails, the server dies
    txns,      \* TRANSACTIONS
    counter,   \* TXN_COUNTER
    pc, arg,   \* where each client's request is, and the name it is about
    mine,      \* the transaction a MERGE has taken out of the table
    guard,     \* holder of COMMIT_LOCK
    rows,      \* the working tree, tree_entries: who wrote each path
    pending,   \* the pending changes: who wrote each path since the last commit
    saved,     \* both at begin_batch, Nobody when no batch is open
    revs,      \* the revisions: the transaction, its changes, its tree and its log message
    loaded,    \* loads begun so far
    told,      \* the transaction name each client uses: the last one it was given
    births,    \* history variable: transactions opened so far
    owner,     \* history variable: who opened each
    acked,     \* history variable: what was staged in each and answered 201 or 207
    aborted,   \* history variable: the ones DELETE answered 204 for
    strays,    \* history variable: what a failed commit left in the working tree, and
               \* the revision whose tree it gets into
    calm       \* history variable: no load, no failed add_file and no restart so far

server == <<txns, counter, guard>>
requests == <<pc, arg, mine>>
repository == <<rows, pending, saved, revs, loaded>>
history == <<told, births, owner, acked, aborted>>
mishaps == <<strays, calm>>
vars == <<setting, server, requests, repository, history, mishaps>>

Birth == 1..MaxTxns
Changes == [Path -> Client \cup {Nobody}]
NoChanges == [p \in Path |-> Nobody]
Txn == [birth : Birth, files : Changes, log : BOOLEAN]
Revision == [birth : 0..MaxTxns, changes : Changes, tree : Changes, log : BOOLEAN]   \* birth 0 : a load

Merging == {"merge_lock", "merge_add"}

TypeOK ==
    /\ setting \in Settings
    /\ \A i \in DOMAIN txns : i \in Id /\ txns[i] \in Txn
    /\ counter \in Nat
    /\ pc \in [Client -> {"idle", "mk_insert", "loading"} \cup Merging]
    /\ arg \in [Client -> Id \cup {Nobody}]
    /\ mine \in [Client -> Txn \cup {NoTxn}]
    /\ guard \in Client \cup {Nobody}
    /\ rows \in Changes /\ pending \in Changes
    /\ saved \in [rows : Changes, pending : Changes] \cup {Nobody}
    /\ revs \in Seq(Revision)
    /\ loaded \in 0..MaxLoads
    /\ told \in [Client -> Id \cup {Nobody}]
    /\ births \in 0..MaxTxns
    /\ owner \in [Birth -> Client \cup {Nobody}]
    /\ acked \in [Birth -> [files : Changes, log : BOOLEAN]]
    /\ aborted \subseteq Birth
    /\ strays \subseteq Nat \X Path /\ calm \in BOOLEAN

Init ==
    /\ setting \in Settings
    /\ txns = <<>>
    /\ counter = 0
    /\ pc = [c \in Client |-> "idle"]
    /\ arg = [c \in Client |-> Nobody]
    /\ mine = [c \in Client |-> NoTxn]
    /\ guard = Nobody
    /\ rows = NoChanges /\ pending = NoChanges
    /\ saved = Nobody
    /\ revs = <<>>
    /\ loaded = 0
    /\ told = [c \in Client |-> Nobody]
    /\ births = 0
    /\ owner = [b \in Birth |-> Nobody]
    /\ acked = [b \in Birth |-> [files |-> NoChanges, log |-> FALSE]]
    /\ aborted = {}
    /\ strays = {} /\ calm = TRUE

Goto(c, l) == pc' = [pc EXCEPT ![c] = l]

-----------------------------------------------------------------------------
(***************************************************************************)
(* Clients make their activity names up apart from each other (svn sends   *)
(* UUIDs), and never in the form of the server's own.                      *)
(***************************************************************************)
PrivateNames ==
    \A c, d \in Client : Named[c] \cap GenName = {} /\ (c # d => Named[c] \cap Named[d] = {})

(***************************************************************************)
(* HashMap::insert replaces what was there; HashMap::remove.               *)
(***************************************************************************)
Insert(i, t) == [j \in DOMAIN txns \cup {i} |-> IF j = i THEN t ELSE txns[j]]
Without(i) == [j \in DOMAIN txns \ {i} |-> txns[j]]

GeneratedName == <<Len(revs), counter>>

Inserting == {c \in Client : pc[c] = "mk_insert"}
MayOpen == births + Cardinality(Inserting) < MaxTxns

OpenTransaction(c, i) ==
    /\ births' = births + 1
    /\ owner' = [owner EXCEPT ![births'] = c]
    /\ told' = [told EXCEPT ![c] = i]
    /\ txns' = Insert(i, [birth |-> births', files |-> NoChanges, log |-> FALSE])
    /\ UNCHANGED <<acked, aborted>>

(***************************************************************************)
(* POST !svn/me create-txn.                                                *)
(***************************************************************************)
CreateTxn(c) ==
    /\ pc[c] = "idle" /\ MayOpen
    /\ OpenTransaction(c, GeneratedName)
    /\ counter' = counter + 1
    /\ UNCHANGED <<setting, guard, requests, repository, mishaps>>

(***************************************************************************)
(* Mutant: MKACTIVITY does not look the name up.                           *)
(***************************************************************************)
MkactivityUnchecked(c, i) ==
    /\ pc[c] = "idle" /\ MayOpen
    /\ counter' = IF i = GeneratedName THEN counter + 1 ELSE counter
    /\ arg' = [arg EXCEPT ![c] = i]
    /\ Goto(c, "mk_insert")
    /\ UNCHANGED <<setting, txns, guard, mine, repository, history, mishaps>>

(***************************************************************************)
(* MKACTIVITY looks the name up under the read lock, and inserts under the *)
(* write lock, later.  A name that is taken is answered 405.               *)
(***************************************************************************)
Mkactivity(c, i) ==
    /\ pc[c] = "idle" /\ MayOpen
    /\ i \notin DOMAIN txns
    /\ counter' = IF i = GeneratedName THEN counter + 1 ELSE counter
    /\ arg' = [arg EXCEPT ![c] = i]
    /\ Goto(c, "mk_insert")
    /\ UNCHANGED <<setting, txns, guard, mine, repository, history, mishaps>>

InsertActivity(c) ==
    /\ pc[c] = "mk_insert"
    /\ OpenTransaction(c, arg[c])
    /\ arg' = [arg EXCEPT ![c] = Nobody]
    /\ Goto(c, "idle")
    /\ UNCHANGED <<setting, counter, guard, mine, repository, mishaps>>

(***************************************************************************)
(* PUT !svn/txr/{txn}/{path} and PROPPATCH !svn/txn/{txn}: the lookup and  *)
(* the change happen under one write lock.                                 *)
(***************************************************************************)
Put(c, p) ==
    /\ pc[c] = "idle" /\ told[c] \in DOMAIN txns
    /\ txns' = [txns EXCEPT ![told[c]].files[p] = c]
    /\ acked' = [acked EXCEPT ![txns[told[c]].birth].files[p] = c]
    /\ UNCHANGED <<setting, counter, guard, requests, repository, told, births, owner, aborted, mishaps>>

SetLog(c) ==
    /\ pc[c] = "idle" /\ told[c] \in DOMAIN txns
    /\ txns' = [txns EXCEPT ![told[c]].log = TRUE]
    /\ acked' = [acked EXCEPT ![txns[told[c]].birth].log = TRUE]
    /\ UNCHANGED <<setting, counter, guard, requests, repository, told, births, owner, aborted, mishaps>>

(***************************************************************************)
(* DELETE !svn/act/{txn}.                                                  *)
(***************************************************************************)
Abort(c) ==
    /\ pc[c] = "idle" /\ told[c] \in DOMAIN txns
    /\ txns' = Without(told[c])
    /\ aborted' = aborted \cup {txns[told[c]].birth}
    /\ UNCHANGED <<setting, counter, guard, requests, repository, told, births, owner, acked, mishaps>>

(***************************************************************************)
(* PUT, MERGE and DELETE of a name the table does not hold: 404.           *)
(***************************************************************************)
NotFound(c) ==
    /\ pc[c] = "idle" /\ told[c] \notin DOMAIN txns
    /\ UNCHANGED vars

-----------------------------------------------------------------------------
(***************************************************************************)
(* Mutant: MERGE copies the transaction and leaves it in the table.        *)
(***************************************************************************)
MergeCopies(c) ==
    /\ pc[c] = "idle" /\ told[c] \in DOMAIN txns
    /\ mine' = [mine EXCEPT ![c] = txns[told[c]]]
    /\ Goto(c, "merge_lock")
    /\ UNCHANGED <<setting, server, arg, repository, history, mishaps>>

(***************************************************************************)
(* MERGE removes the transaction first, then waits for COMMIT_LOCK, adds   *)
(* the staged files in the order of the HashMap and commits.               *)
(***************************************************************************)
MergeTake(c) ==
    /\ pc[c] = "idle" /\ told[c] \in DOMAIN txns
    /\ mine' = [mine EXCEPT ![c] = txns[told[c]]]
    /\ txns' = Without(told[c])
    /\ Goto(c, "merge_lock")
    /\ UNCHANGED <<setting, counter, guard, arg, repository, history, mishaps>>

(***************************************************************************)
(* Mutant: COMMIT_LOCK is not taken.                                       *)
(***************************************************************************)
MergeUnlocked(c) ==
    /\ pc[c] = "merge_lock"
    /\ Goto(c, "merge_add")
    /\ UNCHANGED <<setting, server, arg, mine, repository, history, mishaps>>

MergeLock(c) ==
    /\ pc[c] = "merge_lock" /\ guard = Nobody
    /\ guard' = c
    /\ Goto(c, "merge_add")
    /\ UNCHANGED <<setting, txns, counter, arg, mine, repository, history, mishaps>>

MergeAdd(c, p) ==
    /\ pc[c] = "merge_add" /\ mine[c].files[p] # Nobody
    /\ rows' = [rows EXCEPT ![p] = mine[c].files[p]]
    /\ pending' = [pending EXCEPT ![p] = mine[c].files[p]]
    /\ mine' = [mine EXCEPT ![c].files[p] = Nobody]
    /\ UNCHANGED <<setting, server, pc, arg, saved, revs, loaded, history, mishaps>>

(***************************************************************************)
(* Mutant: the guard of COMMIT_LOCK is leaked.                             *)
(***************************************************************************)
LeaveMergeLocked(c) ==
    /\ mine' = [mine EXCEPT ![c] = NoTxn]
    /\ Goto(c, "idle")
    /\ UNCHANGED <<setting, server, arg, rows, saved, loaded, history>>

LeaveMerge(c) ==
    /\ guard' = Nobody
    /\ mine' = [mine EXCEPT ![c] = NoTxn]
    /\ Goto(c, "idle")
    /\ UNCHANGED <<setting, txns, counter, arg, rows, saved, loaded, history>>

(***************************************************************************)
(* commit() takes the pending changes for the delta of the revision, and   *)
(* builds the root tree it stores from all the rows there are.             *)
(***************************************************************************)
MergeCommit(c) ==
    /\ pc[c] = "merge_add" /\ mine[c].files = NoChanges
    /\ revs' = Append(revs, [birth |-> mine[c].birth, changes |-> pending, tree |-> rows, log |-> mine[c].log])
    /\ pending' = NoChanges
    /\ LeaveMerge(c)
    /\ UNCHANGED mishaps

(***************************************************************************)
(* repo.commit() fails, by the hook or an I/O error: the pending changes   *)
(* have been collected by then and are gone, while their rows stay in the  *)
(* working tree, where the next commit finds them.                         *)
(***************************************************************************)
LoseChanges ==
    /\ pending' = NoChanges
    /\ strays' = strays \cup {<<Len(revs) + 1, p>> : p \in {q \in Path : pending[q] # Nobody}}

MergeCommitFails(c) ==
    /\ setting.faults \cap {"reject", "io_error"} # {}
    /\ pc[c] = "merge_add" /\ mine[c].files = NoChanges
    /\ LoseChanges
    /\ UNCHANGED <<revs, calm>>
    /\ LeaveMerge(c)

(***************************************************************************)
(* add_file fails and `?` leaves the handler: the files added so far stay  *)
(* in the working tree, and the transaction is gone.                       *)
(***************************************************************************)
MergeAddFails(c) ==
    /\ "io_error" \in setting.faults
    /\ pc[c] = "merge_add" /\ mine[c].files # NoChanges
    /\ calm' = FALSE
    /\ UNCHANGED <<pending, revs, strays>>
    /\ LeaveMerge(c)

-----------------------------------------------------------------------------
(***************************************************************************)
(* handle_load: begin_batch, the nodes of a dumped revision one by one,    *)
(* commit_sync() and end_batch.  COMMIT_LOCK is not taken, and the batch   *)
(* is a transaction of the one connection: what other clients write        *)
(* meanwhile is part of it.  BEGIN inside a batch fails unnoticed.         *)
(***************************************************************************)
LoadNode(c, p) ==
    /\ setting.loads
    /\ \/ pc[c] = "idle" /\ loaded < MaxLoads /\ loaded' = loaded + 1
       \/ pc[c] = "loading" /\ loaded' = loaded
    /\ saved' = IF pc[c] = "idle" /\ saved = Nobody THEN [rows |-> rows, pending |-> pending] ELSE saved
    /\ rows' = [rows EXCEPT ![p] = c]
    /\ pending' = [pending EXCEPT ![p] = c]
    /\ calm' = FALSE
    /\ Goto(c, "loading")
    /\ UNCHANGED <<setting, server, arg, mine, revs, history, strays>>

LoadCommit(c) ==
    /\ pc[c] = "loading"
    /\ revs' = Append(revs, [birth |-> 0, changes |-> pending, tree |-> rows, log |-> TRUE])
    /\ pending' = NoChanges
    /\ saved' = Nobody
    /\ Goto(c, "idle")
    /\ UNCHANGED <<setting, server, arg, mine, rows, loaded, history, mishaps>>

(***************************************************************************)
(* A node fails, or commit_sync() does, after it collected the changes:    *)
(* end_batch is not reached and the batch stays open.                      *)
(***************************************************************************)
LoadFails(c) ==
    /\ setting.faults \cap {"reject", "io_error"} # {}
    /\ pc[c] = "loading"
    /\ UNCHANGED <<pending, strays>> \/ LoseChanges
    /\ Goto(c, "idle")
    /\ UNCHANGED <<setting, server, arg, mine, rows, saved, revs, loaded, history, calm>>

(***************************************************************************)
(* The server dies: its tables and counters are in memory, the working     *)
(* tree and the revisions are not, and clients remember the names.  An     *)
(* open batch rolls back.                                                  *)
(***************************************************************************)
Crash ==
    /\ "crash" \in setting.faults
    /\ txns' = <<>>
    /\ counter' = 0
    /\ pc' = [c \in Client |-> "idle"]
    /\ arg' = [c \in Client |-> Nobody]
    /\ mine' = [c \in Client |-> NoTxn]
    /\ guard' = Nobody
    /\ IF saved = Nobody THEN UNCHANGED <<rows, pending>>
       ELSE rows' = saved.rows /\ pending' = saved.pending
    /\ saved' = Nobody
    /\ calm' = FALSE
    /\ UNCHANGED <<setting, revs, loaded, history, strays>>

-----------------------------------------------------------------------------
Stage(c) ==
    \/ CreateTxn(c) \/ InsertActivity(c)
    \/ \E i \in Named[c] \cup {GeneratedName} : Mkactivity(c, i)
    \/ \E p \in Path : Put(c, p)
    \/ SetLog(c) \/ Abort(c) \/ NotFound(c) \/ MergeTake(c)

Merge(c) ==
    \/ MergeLock(c) \/ MergeCommit(c) \/ MergeCommitFails(c) \/ MergeAddFails(c)
    \/ \E p \in Path : MergeAdd(c, p)

Load(c) ==
    \/ LoadCommit(c) \/ LoadFails(c)
    \/ \E p \in Path : LoadNode(c, p)

Next ==
    \/ \E c \in Client : Stage(c) \/ Merge(c) \/ Load(c)
    \/ Crash

Spec == Init /\ [][Next]_vars

(***************************************************************************)
(* A MERGE under way is scheduled, and tokio's mutex hands COMMIT_LOCK to  *)
(* its waiters.                                                            *)
(***************************************************************************)
FairSpec == Spec /\ \A c \in Client : WF_vars(Merge(c))

-----------------------------------------------------------------------------
(***************************************************************************)
(* A transaction has one fate: it is in the table, or in the hands of one  *)
(* MERGE, or a revision, or aborted, whichever of MERGE, DELETE, their     *)
(* retries and a crash race for it.  None is committed twice, and none     *)
(* whose DELETE was answered 204 is committed at all.                      *)
(***************************************************************************)
Fates(b) ==
    Cardinality({i \in DOMAIN txns : txns[i].birth = b})
    + Cardinality({c \in Client : mine[c] # NoTxn /\ mine[c].birth = b})
    + Cardinality({n \in DOMAIN revs : revs[n].birth = b})
    + IF b \in aborted THEN 1 ELSE 0

OneFate == \A b \in Birth : Fates(b) <= 1

(***************************************************************************)
(* The revision a MERGE makes changes exactly the paths whose PUT was      *)
(* acknowledged in its transaction, all of them sent by the client that    *)
(* opened it, and has its log message.                                     *)
(***************************************************************************)
ChangesIsolated ==
    \A n \in DOMAIN revs :
        LET rev == revs[n] IN
        rev.birth # 0 =>
            /\ rev.changes = acked[rev.birth].files
            /\ rev.log = acked[rev.birth].log
            /\ \A p \in Path : rev.changes[p] \in {owner[rev.birth], Nobody}

(***************************************************************************)
(* The tree it stores differs from its predecessor's by those changes      *)
(* alone, except where a commit that failed just before left its rows      *)
(* (sqlite_repository.rs:391-414).                                         *)
(***************************************************************************)
TreeBefore(n) == IF n = 1 THEN NoChanges ELSE revs[n - 1].tree

TreesFollow ==
    \A n \in DOMAIN revs, p \in Path :
        revs[n].birth # 0 /\ <<n, p>> \notin strays =>
            revs[n].tree[p] = IF revs[n].changes[p] # Nobody THEN revs[n].changes[p] ELSE TreeBefore(n)[p]

(***************************************************************************)
(* The comment on COMMIT_LOCK: the sequence "stage files -> commit" is not *)
(* interleaved with another.                                               *)
(***************************************************************************)
MergesIsolated == ChangesIsolated /\ TreesFollow

(***************************************************************************)
(* That isolation holds until a dump is loaded, a MERGE fails between two  *)
(* add_file calls or the server restarts, with any interleaving of the     *)
(* handlers and any number of commits that fail, by the hook or otherwise. *)
(***************************************************************************)
IsolatedWhenCalm == calm => MergesIsolated

(***************************************************************************)
(* An open transaction leaves the table by MERGE, DELETE or a crash, and   *)
(* is never replaced by another one of the same name: what a client has    *)
(* staged cannot vanish under it.  MKACTIVITY checks the name for this.    *)
(***************************************************************************)
NeverReplaced ==
    [][\A i \in DOMAIN txns : i \in DOMAIN txns' => txns'[i].birth = txns[i].birth]_vars

(***************************************************************************)
(* A MERGE that has taken its transaction is answered: every holder of     *)
(* COMMIT_LOCK lets go of it.  (The waits for the repository's own locks   *)
(* inside add_file and commit are SqliteRepository's.)                     *)
(***************************************************************************)
MergeEnds == \A c \in Client : pc[c] \in Merging ~> pc[c] = "idle"
=============================================================================
