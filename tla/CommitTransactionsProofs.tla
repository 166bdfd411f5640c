----------------------- MODULE CommitTransactionsProofs -----------------------
(***************************************************************************)
(* Proofs about the commit protocol of CommitTransactions, for any number  *)
(* of clients, paths and transactions.                                     *)
(***************************************************************************)
EXTENDS CommitTransactions, FiniteSetTheorems, TLAPS

(***************************************************************************)
(* The types, room for the transactions that MKACTIVITY has yet to insert, *)
(* and a transaction in the hands of each MERGE under way.                 *)
(***************************************************************************)
TypeInv ==
    /\ TypeOK
    /\ txns = [i \in DOMAIN txns |-> txns[i]]
    /\ births + Cardinality(Inserting) <= MaxTxns
    /\ \A c \in Client :
        /\ pc[c] = "mk_insert" => arg[c] # Nobody
        /\ IF pc[c] \in Merging THEN mine[c] \in Txn ELSE mine[c] = NoTxn

(***************************************************************************)
(* Every transaction anyone knows of was opened, and two places that hold  *)
(* one are the same place.                                                 *)
(***************************************************************************)
Opened == 1..births

FateInv ==
    /\ \A i \in DOMAIN txns :
        /\ txns[i].birth \in Opened \ aborted
        /\ \A j \in DOMAIN txns : txns[i].birth = txns[j].birth => i = j
        /\ \A c \in Client : pc[c] \in Merging => mine[c].birth # txns[i].birth
    /\ \A c \in Client :
        pc[c] \in Merging =>
            /\ mine[c].birth \in Opened \ aborted
            /\ \A d \in Client :
                pc[d] \in Merging /\ mine[c].birth = mine[d].birth => c = d
    /\ \A n \in DOMAIN revs :
        revs[n].birth # 0 =>
            /\ revs[n].birth \in Opened \ aborted
            /\ \A m \in DOMAIN revs : revs[n].birth = revs[m].birth => n = m
            /\ \A i \in DOMAIN txns : revs[n].birth # txns[i].birth
            /\ \A c \in Client : pc[c] \in Merging => revs[n].birth # mine[c].birth
    /\ aborted \subseteq Opened

(***************************************************************************)
(* A name is in the hands of one client, and is free while its MKACTIVITY  *)
(* waits to insert it.                                                     *)
(***************************************************************************)
Fresh(i) == i \in GenName => i[2] < counter

NameInv ==
    /\ \A i \in DOMAIN txns : Fresh(i)
    /\ \A c \in Client :
        /\ arg[c] \in Named[c] \cup GenName \cup {Nobody}
        /\ told[c] \in Named[c] \cup GenName \cup {Nobody}
        /\ Fresh(arg[c])
        /\ pc[c] = "mk_insert" => arg[c] \notin DOMAIN txns
        /\ \A d \in Client : c # d /\ arg[c] = arg[d] => arg[c] = Nobody

(***************************************************************************)
(* While nothing disturbs the server: a name leads its client to its own   *)
(* transaction; what was acknowledged is what is staged, or, under         *)
(* COMMIT_LOCK, what is left to add over what is pending.                  *)
(***************************************************************************)
Held(c) == Named[c] \cup {told[c], arg[c]}

OwnInv ==
    /\ \A c \in Client : pc[c] # "loading" /\ Fresh(told[c])
    /\ \A c, d \in Client : c # d => Held(c) \cap Held(d) \subseteq {Nobody}
    /\ \A i \in DOMAIN txns : \A c \in Client : i \in Held(c) => owner[txns[i].birth] = c
    /\ \A b \in Birth :
        /\ b > births => acked[b] = [files |-> NoChanges, log |-> FALSE]
        /\ \A p \in Path : acked[b].files[p] \in {owner[b], Nobody}

StagedInv ==
    /\ \A i \in DOMAIN txns :
        /\ txns[i].files = acked[txns[i].birth].files
        /\ txns[i].log = acked[txns[i].birth].log
    /\ \A c \in Client : pc[c] \in Merging =>
        /\ mine[c].log = acked[mine[c].birth].log
        /\ pc[c] = "merge_lock" => mine[c].files = acked[mine[c].birth].files
        /\ pc[c] = "merge_add" =>
            /\ guard = c
            /\ \A p \in Path :
                acked[mine[c].birth].files[p] =
                    IF mine[c].files[p] # Nobody THEN mine[c].files[p] ELSE pending[p]
    /\ guard = Nobody => pending = NoChanges
    /\ ChangesIsolated

(***************************************************************************)
(* The rows are the tree of the last revision with the pending changes,    *)
(* and so the tree stored by the next commit; failed commits excepted.     *)
(***************************************************************************)
RowsFollow ==
    \A p \in Path :
        <<Len(revs) + 1, p>> \notin strays =>
            rows[p] = IF pending[p] # Nobody THEN pending[p] ELSE TreeBefore(Len(revs) + 1)[p]

IsolationInv == calm => OwnInv /\ StagedInv /\ RowsFollow /\ TreesFollow

-----------------------------------------------------------------------------

LEMMA NoChangesType == NoChanges \in Changes
  BY DEF NoChanges, Changes

LEMMA InsertingFinite == IsFiniteSet(Inserting) /\ Cardinality(Inserting) \in Nat
  <1>1. IsFiniteSet(Inserting)
    BY TransactionAssumption, FS_Subset, Inserting \subseteq Client DEF Inserting
  <1> QED  BY <1>1, FS_CardinalityType

(***************************************************************************)
(* How a step of one client changes the set of those about to insert.      *)
(***************************************************************************)
LEMMA InsertingKept ==
  ASSUME TypeOK, NEW c \in Client, NEW l, Goto(c, l),
         pc[c] # "mk_insert", l # "mk_insert"
  PROVE  Inserting' = Inserting
  BY DEF TypeOK, Goto, Inserting

LEMMA InsertingGrows ==
  ASSUME TypeOK, NEW c \in Client, Goto(c, "mk_insert"), pc[c] = "idle"
  PROVE  Cardinality(Inserting') = Cardinality(Inserting) + 1
  <1>1. Inserting' = Inserting \cup {c} /\ c \notin Inserting
    BY DEF TypeOK, Goto, Inserting
  <1> QED  BY <1>1, InsertingFinite, FS_AddElement

LEMMA InsertingShrinks ==
  ASSUME TypeOK, NEW c \in Client, Goto(c, "idle"), pc[c] = "mk_insert"
  PROVE  Cardinality(Inserting') = Cardinality(Inserting) - 1
  <1>1. Inserting' = Inserting \ {c} /\ c \in Inserting
    BY DEF TypeOK, Goto, Inserting
  <1> QED  BY <1>1, InsertingFinite, FS_RemoveElement

-----------------------------------------------------------------------------
LEMMA TypeInit == Init => TypeInv
  <1> SUFFICES ASSUME Init PROVE TypeInv  OBVIOUS
  <1>1. Inserting = {}
    BY DEF Init, Inserting
  <1>2. Cardinality(Inserting) = 0
    BY <1>1, FS_EmptySet
  <1>3. TypeOK
    BY TransactionAssumption, NoChangesType DEF Init, TypeOK
  <1> QED
    BY <1>2, <1>3, TransactionAssumption DEF Init, TypeInv, Merging

(***************************************************************************)
(* Opening a transaction that there is room for keeps the types.           *)
(***************************************************************************)
LEMMA OpenType ==
  ASSUME TypeInv, NEW c \in Client, NEW i \in Id, births < MaxTxns, OpenTransaction(c, i)
  PROVE  /\ births' = births + 1 /\ births' \in Birth
         /\ \A j \in DOMAIN txns' : j \in Id /\ txns'[j] \in Txn
         /\ txns' = [j \in DOMAIN txns' |-> txns'[j]]
         /\ told' \in [Client -> Id \cup {Nobody}]
         /\ owner' \in [Birth -> Client \cup {Nobody}]
         /\ acked' = acked /\ aborted' = aborted
  <1> USE TransactionAssumption
  <1>1. births' = births + 1 /\ births' \in Birth
    BY DEF OpenTransaction, Birth, TypeInv, TypeOK
  <1>2. [birth |-> births', files |-> NoChanges, log |-> FALSE] \in Txn
    BY <1>1, NoChangesType DEF Txn
  <1>3. \A j \in DOMAIN txns' : j \in Id /\ txns'[j] \in Txn
    BY <1>2 DEF OpenTransaction, Insert, TypeInv, TypeOK
  <1>4. txns' = [j \in DOMAIN txns' |-> txns'[j]]
    BY DEF OpenTransaction, Insert
  <1>5. told' \in [Client -> Id \cup {Nobody}] /\ owner' \in [Birth -> Client \cup {Nobody}]
    BY <1>1 DEF OpenTransaction, TypeInv, TypeOK
  <1> QED
    BY <1>1, <1>3, <1>4, <1>5 DEF OpenTransaction

(***************************************************************************)
(* Leaving a MERGE gives the transaction and COMMIT_LOCK back.             *)
(***************************************************************************)
LEMMA LeaveType ==
  ASSUME TypeInv, NEW c \in Client, pc[c] \in Merging, LeaveMerge(c),
         pending' \in Changes, revs' \in Seq(Revision),
         strays' \subseteq Nat \X Path, calm' \in BOOLEAN
  PROVE  TypeInv'
  <1>1. TypeOK'
    BY DEF TypeInv, TypeOK, LeaveMerge, Goto, history
  <1>2. Inserting' = Inserting
    BY InsertingKept DEF TypeInv, LeaveMerge, Merging
  <1>3. txns' = txns /\ births' = births /\ arg' = arg
    BY DEF LeaveMerge, history
  <1>4. \A d \in Client : IF d = c THEN pc'[d] = "idle" /\ mine'[d] = NoTxn
                                    ELSE pc'[d] = pc[d] /\ mine'[d] = mine[d]
    BY DEF TypeInv, TypeOK, LeaveMerge, Goto
  <1>5. ASSUME NEW d \in Client
        PROVE  /\ pc'[d] = "mk_insert" => arg'[d] # Nobody
               /\ IF pc'[d] \in Merging THEN mine'[d] \in Txn ELSE mine'[d] = NoTxn
    BY <1>3, <1>4 DEF TypeInv, Merging
  <1>6. /\ txns' = [i \in DOMAIN txns' |-> txns'[i]]
        /\ births' + Cardinality(Inserting') <= MaxTxns
    BY <1>2, <1>3 DEF TypeInv
  <1> QED
    BY <1>1, <1>5, <1>6 DEF TypeInv, Merging

(***************************************************************************)
(* A commit that fails leaves no pending change.                           *)
(***************************************************************************)
LEMMA LosingType ==
  ASSUME TypeOK, LoseChanges
  PROVE  pending' \in Changes /\ strays' \subseteq Nat \X Path
  BY NoChangesType DEF TypeOK, LoseChanges

LEMMA StageType ==
  ASSUME TypeInv, NEW c \in Client, Stage(c)
  PROVE  TypeInv'
  <1> USE DEF server, requests, repository, history, mishaps
  <1>g. GeneratedName \in GenName /\ GeneratedName \in Id
    BY DEF GeneratedName, GenName, Id, TypeInv, TypeOK
  <1>1. CASE CreateTxn(c)
    <2>1. births < MaxTxns /\ births + 1 + Cardinality(Inserting) <= MaxTxns
      BY <1>1, InsertingFinite, TransactionAssumption DEF CreateTxn, MayOpen, TypeInv, TypeOK
    <2>2. Inserting' = Inserting
      BY <1>1 DEF CreateTxn, Inserting
    <2>3. TypeOK'
      BY <1>1, <1>g, <2>1, OpenType DEF CreateTxn, TypeInv, TypeOK, Birth
    <2> QED
      BY <1>1, <1>g, <2>1, <2>2, <2>3, OpenType DEF CreateTxn, TypeInv, TypeOK
  <1>2. CASE InsertActivity(c)
    <2>1. Cardinality(Inserting') = Cardinality(Inserting) - 1 /\ Cardinality(Inserting') \in Nat
      <3>1. Goto(c, "idle") /\ pc[c] = "mk_insert"
        BY <1>2 DEF InsertActivity
      <3>2. Cardinality(Inserting') = Cardinality(Inserting) - 1
        BY <3>1, InsertingShrinks DEF TypeInv
      <3>3. c \in Inserting
        BY <3>1 DEF Inserting
      <3>4. Cardinality(Inserting) # 0
        BY <3>3, InsertingFinite, FS_EmptySet
      <3> QED  BY <3>2, <3>4, InsertingFinite
    <2>2. births < MaxTxns
      BY <2>1, InsertingFinite, TransactionAssumption DEF TypeInv, TypeOK
    <2>3. arg[c] \in Id
      BY <1>2 DEF InsertActivity, TypeInv, TypeOK
    <2>4. OpenTransaction(c, arg[c])
      BY <1>2 DEF InsertActivity
    <2>5. TypeOK'
      BY <1>2, <2>2, <2>3, <2>4, OpenType DEF InsertActivity, Goto, TypeInv, TypeOK, Birth
    <2>6. births' + Cardinality(Inserting') <= MaxTxns
      BY <2>1, <2>2, <2>3, <2>4, OpenType, InsertingFinite, TransactionAssumption DEF TypeInv, TypeOK
    <2> QED
      BY <1>2, <2>2, <2>3, <2>4, <2>5, <2>6, OpenType
      DEF InsertActivity, Goto, TypeInv, TypeOK, Merging
  <1>3. ASSUME NEW i \in Named[c] \cup {GeneratedName}, Mkactivity(c, i)
        PROVE  TypeInv'
    <2>1. i \in Id
      BY <1>g, TransactionAssumption DEF Id, Name
    <2>2. Cardinality(Inserting') = Cardinality(Inserting) + 1
      BY <1>3, InsertingGrows DEF Mkactivity, TypeInv
    <2>3. TypeOK'
      BY <1>3, <2>1 DEF Mkactivity, Goto, TypeInv, TypeOK
    <2>4. births' + Cardinality(Inserting') <= MaxTxns
      BY <1>3, <2>2, InsertingFinite, TransactionAssumption DEF Mkactivity, MayOpen, TypeInv, TypeOK
    <2> QED
      BY <1>3, <2>1, <2>3, <2>4, TransactionAssumption DEF Mkactivity, Goto, TypeInv, TypeOK, Merging
  <1>4. ASSUME NEW p \in Path, Put(c, p)
        PROVE  TypeInv'
    <2>1. told[c] \in DOMAIN txns /\ txns[told[c]] \in Txn
      BY <1>4 DEF Put, TypeInv, TypeOK
    <2>2. [txns[told[c]] EXCEPT !.files[p] = c] \in Txn
      BY <2>1 DEF Txn, Changes
    <2>3. DOMAIN txns' = DOMAIN txns /\ \A i \in DOMAIN txns' : i \in Id /\ txns'[i] \in Txn
      BY <1>4, <2>1, <2>2 DEF Put, TypeInv, TypeOK
    <2>4. acked' \in [Birth -> [files : Changes, log : BOOLEAN]]
      <3> DEFINE b == txns[told[c]].birth
      <3>1. b \in Birth
        BY <2>1 DEF Txn
      <3>2. [acked[b] EXCEPT !.files[p] = c] \in [files : Changes, log : BOOLEAN]
        <4>1. acked[b] \in [files : Changes, log : BOOLEAN]
          BY <3>1 DEF TypeInv, TypeOK
        <4> QED  BY <4>1 DEF Changes
      <3>3. acked' = [acked EXCEPT ![b] = [acked[b] EXCEPT !.files[p] = c]]
        BY <1>4, <3>1 DEF Put, TypeInv, TypeOK
      <3> HIDE DEF b
      <3> QED  BY <3>1, <3>2, <3>3 DEF TypeInv, TypeOK
    <2>5. txns' = [i \in DOMAIN txns' |-> txns'[i]]
      BY <1>4 DEF Put
    <2>6. Inserting' = Inserting
      BY <1>4 DEF Put, Inserting
    <2> QED
      BY <1>4, <2>3, <2>4, <2>5, <2>6 DEF Put, TypeInv, TypeOK
  <1>5. CASE SetLog(c)
    <2>1. told[c] \in DOMAIN txns /\ txns[told[c]] \in Txn
      BY <1>5 DEF SetLog, TypeInv, TypeOK
    <2>2. [txns[told[c]] EXCEPT !.log = TRUE] \in Txn
      BY <2>1 DEF Txn
    <2>3. DOMAIN txns' = DOMAIN txns /\ \A i \in DOMAIN txns' : i \in Id /\ txns'[i] \in Txn
      BY <1>5, <2>1, <2>2 DEF SetLog, TypeInv, TypeOK
    <2>4. acked' \in [Birth -> [files : Changes, log : BOOLEAN]]
      BY <1>5, <2>1 DEF SetLog, TypeInv, TypeOK, Txn
    <2>5. txns' = [i \in DOMAIN txns' |-> txns'[i]]
      BY <1>5 DEF SetLog
    <2>6. Inserting' = Inserting
      BY <1>5 DEF SetLog, Inserting
    <2> QED
      BY <1>5, <2>3, <2>4, <2>5, <2>6 DEF SetLog, TypeInv, TypeOK
  <1>6. CASE Abort(c)
    <2>1. txns[told[c]].birth \in Birth
      BY <1>6 DEF Abort, TypeInv, TypeOK, Txn
    <2>2. Inserting' = Inserting
      BY <1>6 DEF Abort, Inserting
    <2>3. txns' = [i \in DOMAIN txns' |-> txns'[i]]
      BY <1>6 DEF Abort, Without
    <2> QED
      BY <1>6, <2>1, <2>2, <2>3 DEF Abort, Without, TypeInv, TypeOK
  <1>7. CASE NotFound(c)
    BY <1>7 DEF NotFound, vars, TypeInv, TypeOK, Inserting
  <1>8. CASE MergeTake(c)
    <2>1. Inserting' = Inserting
      BY <1>8, InsertingKept DEF MergeTake, TypeInv
    <2>2. txns' = [i \in DOMAIN txns' |-> txns'[i]]
      BY <1>8 DEF MergeTake, Without
    <2>3. txns[told[c]] \in Txn
      BY <1>8 DEF MergeTake, TypeInv, TypeOK
    <2>4. TypeOK'
      BY <1>8, <2>3 DEF MergeTake, Without, Goto, TypeInv, TypeOK, Merging
    <2> QED
      BY <1>8, <2>1, <2>2, <2>3, <2>4 DEF MergeTake, Goto, TypeInv, TypeOK, Merging
  <1> QED
    BY <1>1, <1>2, <1>3, <1>4, <1>5, <1>6, <1>7, <1>8 DEF Stage

LEMMA MergeType ==
  ASSUME TypeInv, NEW c \in Client, Merge(c)
  PROVE  TypeInv'
  <1> USE DEF server, history, mishaps
  <1>1. CASE MergeLock(c)
    <2>1. Inserting' = Inserting
      BY <1>1, InsertingKept DEF MergeLock, TypeInv
    <2>2. TypeOK'
      BY <1>1 DEF MergeLock, repository, Goto, TypeInv, TypeOK, Merging
    <2> QED
      BY <1>1, <2>1, <2>2 DEF MergeLock, repository, Goto, TypeInv, TypeOK, Merging
  <1>2. CASE MergeCommit(c)
    <2>1. mine[c] \in Txn /\ pc[c] \in Merging
      BY <1>2 DEF MergeCommit, TypeInv, Merging
    <2>2. mine[c].birth \in 0..MaxTxns /\ mine[c].log \in BOOLEAN
      BY <2>1, TransactionAssumption DEF Txn, Birth
    <2>3. [birth |-> mine[c].birth, changes |-> pending, tree |-> rows, log |-> mine[c].log] \in Revision
      BY <2>2 DEF Revision, TypeInv, TypeOK
    <2>4. revs' \in Seq(Revision) /\ pending' \in Changes
      BY <1>2, <2>3, NoChangesType DEF MergeCommit, TypeInv, TypeOK
    <2> QED  BY <1>2, <2>1, <2>4, LeaveType DEF MergeCommit, TypeInv, TypeOK
  <1>3. CASE MergeCommitFails(c)
    BY <1>3, LosingType, LeaveType DEF MergeCommitFails, Merging, TypeInv, TypeOK
  <1>4. CASE MergeAddFails(c)
    BY <1>4, LeaveType DEF MergeAddFails, Merging, TypeInv, TypeOK
  <1>5. ASSUME NEW p \in Path, MergeAdd(c, p)
        PROVE  TypeInv'
    <2>1. mine[c] \in Txn /\ pc[c] \in Merging
      BY <1>5 DEF MergeAdd, TypeInv, Merging
    <2>2. [mine[c] EXCEPT !.files[p] = Nobody] \in Txn /\ mine[c].files[p] \in Client \cup {Nobody}
      BY <2>1 DEF Txn, Changes
    <2>3. mine' = [mine EXCEPT ![c] = [mine[c] EXCEPT !.files[p] = Nobody]]
      BY <1>5 DEF MergeAdd, TypeInv, TypeOK
    <2>4. pending' \in Changes /\ rows' \in Changes
      BY <1>5, <2>2 DEF MergeAdd, TypeInv, TypeOK, Changes
    <2>5. Inserting' = Inserting
      BY <1>5 DEF MergeAdd, Inserting
    <2>6. TypeOK'
      BY <1>5, <2>2, <2>3, <2>4 DEF MergeAdd, TypeInv, TypeOK
    <2>7. txns' = txns /\ births' = births /\ arg' = arg /\ pc' = pc
      BY <1>5 DEF MergeAdd
    <2>8. \A d \in Client : mine'[d] \in Txn <=> mine[d] \in Txn
      BY <2>1, <2>2, <2>3 DEF TypeInv, TypeOK
    <2>9. \A d \in Client : pc[d] \notin Merging => mine'[d] = mine[d]
      BY <2>1, <2>3 DEF TypeInv, TypeOK
    <2> QED
      BY <2>5, <2>6, <2>7, <2>8, <2>9 DEF TypeInv
  <1> QED
    BY <1>1, <1>2, <1>3, <1>4, <1>5 DEF Merge

LEMMA LoadType ==
  ASSUME TypeInv, NEW c \in Client, Load(c)
  PROVE  TypeInv'
  <1> USE DEF server, history, mishaps
  <1>1. CASE LoadCommit(c)
    <2>1. Inserting' = Inserting
      BY <1>1, InsertingKept DEF LoadCommit, TypeInv
    <2>2. [birth |-> 0, changes |-> pending, tree |-> rows, log |-> TRUE] \in Revision
      BY TransactionAssumption DEF Revision, TypeInv, TypeOK
    <2>3. TypeOK'
      BY <1>1, <2>2, NoChangesType, TransactionAssumption DEF LoadCommit, Goto, TypeInv, TypeOK
    <2> QED
      BY <1>1, <2>1, <2>3 DEF LoadCommit, Goto, TypeInv, TypeOK, Merging
  <1>2. CASE LoadFails(c)
    <2>1. Inserting' = Inserting
      BY <1>2, InsertingKept DEF LoadFails, TypeInv
    <2>2. TypeOK'
      BY <1>2, LosingType DEF LoadFails, Goto, TypeInv, TypeOK
    <2> QED
      BY <1>2, <2>1, <2>2 DEF LoadFails, Goto, TypeInv, TypeOK, Merging
  <1>3. ASSUME NEW p \in Path, LoadNode(c, p)
        PROVE  TypeInv'
    <2>1. Inserting' = Inserting
      BY <1>3, InsertingKept DEF LoadNode, TypeInv
    <2>2. pending' \in Changes /\ rows' \in Changes
      BY <1>3 DEF LoadNode, TypeInv, TypeOK, Changes
    <2>s. saved' \in [rows : Changes, pending : Changes] \cup {Nobody}
      BY <1>3 DEF LoadNode, TypeInv, TypeOK
    <2>3. TypeOK'
      <3>1. calm' \in BOOLEAN
        BY <1>3 DEF LoadNode
      <3>2. loaded' \in 0..MaxLoads
        BY <1>3, TransactionAssumption DEF LoadNode, TypeInv, TypeOK
      <3>3. pc' \in [Client -> {"idle", "mk_insert", "loading"} \cup Merging]
        BY <1>3 DEF LoadNode, Goto, TypeInv, TypeOK
      <3> QED  BY <1>3, <2>2, <2>s, <3>1, <3>2, <3>3 DEF LoadNode, TypeInv, TypeOK
    <2> QED
      BY <1>3, <2>1, <2>3 DEF LoadNode, Goto, TypeInv, TypeOK, Merging
  <1> QED
    BY <1>1, <1>2, <1>3 DEF Load

LEMMA TypeNext == TypeInv /\ [Next]_vars => TypeInv'
  <1> SUFFICES ASSUME TypeInv, [Next]_vars PROVE TypeInv'  OBVIOUS
  <1>1. CASE Crash
    <2>1. Inserting' = {}
      BY <1>1 DEF Crash, Inserting
    <2>2. Cardinality(Inserting') = 0
      BY <2>1, FS_EmptySet
    <2>s. rows' \in Changes /\ pending' \in Changes
      BY <1>1 DEF Crash, TypeInv, TypeOK
    <2>3. TypeOK'
      <3>1. calm' \in BOOLEAN
        BY <1>1 DEF Crash
      <3>2. /\ txns' = <<>> /\ counter' = 0 /\ saved' = Nobody /\ guard' = Nobody
            /\ UNCHANGED <<setting, revs, loaded, told, births, owner, acked, aborted, strays>>
        BY <1>1 DEF Crash, history
      <3>3. /\ pc' \in [Client -> {"idle", "mk_insert", "loading"} \cup Merging]
            /\ arg' \in [Client -> Id \cup {Nobody}]
            /\ mine' \in [Client -> Txn \cup {NoTxn}]
        BY <1>1 DEF Crash
      <3> QED  BY <2>s, <3>1, <3>2, <3>3 DEF TypeInv, TypeOK
    <2> QED
      BY <1>1, <2>2, <2>3 DEF Crash, TypeInv, TypeOK, Merging, history
  <1>2. CASE UNCHANGED vars
    BY <1>2 DEF vars, server, requests, repository, history, mishaps, TypeInv, TypeOK, Inserting
  <1> QED
    BY <1>1, <1>2, StageType, MergeType, LoadType DEF Next

(***************************************************************************)
(* The tables of the server, the requests under way and the repository     *)
(* have the types the handlers rely on: a MERGE holds a transaction,       *)
(* MKACTIVITY a name.                                                      *)
(***************************************************************************)
THEOREM TypeCorrect == Spec => []TypeInv
  BY TypeInit, TypeNext, PTL DEF Spec

-----------------------------------------------------------------------------
LEMMA FateInit == Init => FateInv
  BY DEF Init, FateInv, Opened, Merging

(***************************************************************************)
(* A step that opens, takes, commits and aborts no transaction, though it  *)
(* may lose some, keeps their fates apart.                                 *)
(***************************************************************************)
LEMMA FateKept ==
  ASSUME TypeInv, FateInv, births' = births, aborted' = aborted,
         \A i \in DOMAIN txns' : i \in DOMAIN txns /\ txns'[i].birth = txns[i].birth,
         \A c \in Client : pc'[c] \in Merging =>
             pc[c] \in Merging /\ mine'[c].birth = mine[c].birth,
         \A n \in DOMAIN revs' : revs'[n].birth # 0 =>
             n \in DOMAIN revs /\ revs'[n].birth = revs[n].birth
  PROVE  FateInv'
  <1>1. Opened' = Opened
    BY DEF Opened
  <1>2. ASSUME NEW i \in DOMAIN txns'
        PROVE  /\ txns'[i].birth \in Opened' \ aborted'
               /\ \A j \in DOMAIN txns' : txns'[i].birth = txns'[j].birth => i = j
               /\ \A c \in Client : pc'[c] \in Merging => mine'[c].birth # txns'[i].birth
    BY <1>1 DEF FateInv
  <1>3. ASSUME NEW c \in Client, pc'[c] \in Merging
        PROVE  /\ mine'[c].birth \in Opened' \ aborted'
               /\ \A d \in Client :
                   pc'[d] \in Merging /\ mine'[c].birth = mine'[d].birth => c = d
    BY <1>1, <1>3 DEF FateInv
  <1>4. ASSUME NEW n \in DOMAIN revs', revs'[n].birth # 0
        PROVE  /\ revs'[n].birth \in Opened' \ aborted'
               /\ \A m \in DOMAIN revs' : revs'[n].birth = revs'[m].birth => n = m
               /\ \A i \in DOMAIN txns' : revs'[n].birth # txns'[i].birth
               /\ \A c \in Client : pc'[c] \in Merging => revs'[n].birth # mine'[c].birth
    BY <1>1, <1>4 DEF FateInv
  <1> QED  BY <1>1, <1>2, <1>3, <1>4 DEF FateInv, Merging

(***************************************************************************)
(* A new transaction is born after all the others.                         *)
(***************************************************************************)
LEMMA FateOpened ==
  ASSUME TypeInv, FateInv, NEW c \in Client, NEW i, OpenTransaction(c, i),
         mine' = mine, revs' = revs,
         \A d \in Client : pc'[d] \in Merging => pc[d] \in Merging
  PROVE  FateInv'
  <1> DEFINE b == births + 1
  <1>1. /\ births' = b /\ aborted' = aborted
        /\ DOMAIN txns' = DOMAIN txns \cup {i}
        /\ txns'[i].birth = b
        /\ \A j \in DOMAIN txns : j # i => txns'[j].birth = txns[j].birth
    BY DEF OpenTransaction, Insert
  <1>2. births \in Nat /\ Opened' = Opened \cup {b} /\ b \notin Opened /\ b # 0
    BY <1>1, TransactionAssumption DEF Opened, TypeInv, TypeOK
  <1>a. b \notin aborted
    BY <1>2 DEF FateInv
  <1> HIDE DEF b
  <1>3. ASSUME NEW j \in DOMAIN txns'
        PROVE  /\ txns'[j].birth \in Opened' \ aborted'
               /\ \A k \in DOMAIN txns' : txns'[j].birth = txns'[k].birth => j = k
               /\ \A d \in Client : pc'[d] \in Merging => mine'[d].birth # txns'[j].birth
    BY <1>1, <1>2, <1>a DEF FateInv
  <1>4. ASSUME NEW d \in Client, pc'[d] \in Merging
        PROVE  /\ mine'[d].birth \in Opened' \ aborted'
               /\ \A e \in Client :
                   pc'[e] \in Merging /\ mine'[d].birth = mine'[e].birth => d = e
    BY <1>1, <1>2, <1>4 DEF FateInv
  <1>5. ASSUME NEW n \in DOMAIN revs', revs'[n].birth # 0
        PROVE  /\ revs'[n].birth \in Opened' \ aborted'
               /\ \A m \in DOMAIN revs' : revs'[n].birth = revs'[m].birth => n = m
               /\ \A j \in DOMAIN txns' : revs'[n].birth # txns'[j].birth
               /\ \A d \in Client : pc'[d] \in Merging => revs'[n].birth # mine'[d].birth
    BY <1>1, <1>2, <1>5 DEF FateInv
  <1>6. aborted' \subseteq Opened'
    BY <1>1, <1>2 DEF FateInv
  <1> QED  BY <1>3, <1>4, <1>5, <1>6 DEF FateInv, Merging

LEMMA FateStage ==
  ASSUME TypeInv, FateInv, NEW c \in Client, Stage(c)
  PROVE  FateInv'
  <1> USE DEF server, requests, repository, history, mishaps
  <1>1. CASE CreateTxn(c)
    BY <1>1, FateOpened DEF CreateTxn
  <1>2. CASE InsertActivity(c)
    <2>1. \A d \in Client : pc'[d] \in Merging => pc[d] \in Merging
      BY <1>2 DEF InsertActivity, Goto, Merging, TypeInv, TypeOK
    <2> QED  BY <1>2, <2>1, FateOpened DEF InsertActivity
  <1>3. ASSUME NEW i \in Named[c] \cup {GeneratedName}, Mkactivity(c, i)
        PROVE  FateInv'
    <2>1. \A d \in Client : pc'[d] \in Merging => pc[d] \in Merging
      BY <1>3 DEF Mkactivity, Goto, Merging, TypeInv, TypeOK
    <2> QED  BY <1>3, <2>1, FateKept DEF Mkactivity
  <1>4. ASSUME NEW p \in Path, Put(c, p)
        PROVE  FateInv'
    <2>1. \A i \in DOMAIN txns' : i \in DOMAIN txns /\ txns'[i].birth = txns[i].birth
      BY <1>4 DEF Put, TypeInv, TypeOK, Txn
    <2> QED  BY <1>4, <2>1, FateKept DEF Put
  <1>5. CASE SetLog(c)
    <2>1. \A i \in DOMAIN txns' : i \in DOMAIN txns /\ txns'[i].birth = txns[i].birth
      BY <1>5 DEF SetLog, TypeInv, TypeOK, Txn
    <2> QED  BY <1>5, <2>1, FateKept DEF SetLog
  <1>6. CASE Abort(c)
    <2> DEFINE t == told[c]
    <2>1. /\ t \in DOMAIN txns /\ DOMAIN txns' = DOMAIN txns \ {t}
          /\ \A i \in DOMAIN txns' : txns'[i] = txns[i]
          /\ aborted' = aborted \cup {txns[t].birth}
          /\ births' = births /\ revs' = revs /\ mine' = mine /\ pc' = pc
      BY <1>6 DEF Abort, Without
    <2>2. Opened' = Opened
      BY <2>1 DEF Opened
    <2> HIDE DEF t
    <2> QED  BY <2>1, <2>2 DEF FateInv, Merging
  <1>7. CASE NotFound(c)
    BY <1>7, FateKept DEF NotFound, vars
  <1>8. CASE MergeTake(c)
    <2> DEFINE t == told[c]
    <2>1. /\ t \in DOMAIN txns /\ DOMAIN txns' = DOMAIN txns \ {t}
          /\ \A i \in DOMAIN txns' : txns'[i] = txns[i]
          /\ aborted' = aborted /\ births' = births /\ revs' = revs
          /\ mine'[c] = txns[t]
          /\ \A d \in Client : d # c => mine'[d] = mine[d] /\ pc'[d] = pc[d]
      BY <1>8 DEF MergeTake, Without, Goto, TypeInv, TypeOK
    <2>2. Opened' = Opened
      BY <2>1 DEF Opened
    <2> HIDE DEF t
    <2>3. ASSUME NEW i \in DOMAIN txns'
          PROVE  /\ txns'[i].birth \in Opened' \ aborted'
                 /\ \A j \in DOMAIN txns' : txns'[i].birth = txns'[j].birth => i = j
                 /\ \A d \in Client : pc'[d] \in Merging => mine'[d].birth # txns'[i].birth
      BY <2>1, <2>2 DEF FateInv
    <2>4. ASSUME NEW d \in Client, pc'[d] \in Merging
          PROVE  /\ mine'[d].birth \in Opened' \ aborted'
                 /\ \A e \in Client :
                     pc'[e] \in Merging /\ mine'[d].birth = mine'[e].birth => d = e
      BY <2>1, <2>2, <2>4 DEF FateInv
    <2>5. ASSUME NEW n \in DOMAIN revs', revs'[n].birth # 0
          PROVE  /\ revs'[n].birth \in Opened' \ aborted'
                 /\ \A m \in DOMAIN revs' : revs'[n].birth = revs'[m].birth => n = m
                 /\ \A j \in DOMAIN txns' : revs'[n].birth # txns'[j].birth
                 /\ \A d \in Client : pc'[d] \in Merging => revs'[n].birth # mine'[d].birth
      BY <2>1, <2>2, <2>5 DEF FateInv
    <2> QED  BY <2>1, <2>2, <2>3, <2>4, <2>5 DEF FateInv, Merging
  <1> QED
    BY <1>1, <1>2, <1>3, <1>4, <1>5, <1>6, <1>7, <1>8 DEF Stage

(***************************************************************************)
(* Leaving a MERGE takes its transaction out of the hands of its client.   *)
(***************************************************************************)
LEMMA LeaveSteps ==
  ASSUME TypeInv, NEW c \in Client, LeaveMerge(c)
  PROVE  /\ txns' = txns /\ births' = births /\ aborted' = aborted
         /\ pc'[c] = "idle" /\ pc'[c] \notin Merging
         /\ \A d \in Client \ {c} : pc'[d] = pc[d] /\ mine'[d] = mine[d]
  BY DEF LeaveMerge, Goto, history, TypeInv, TypeOK, Merging

LEMMA FateMerge ==
  ASSUME TypeInv, FateInv, NEW c \in Client, Merge(c)
  PROVE  FateInv'
  <1> USE DEF server, repository, history, mishaps
  <1>1. CASE MergeLock(c)
    <2>1. \A d \in Client : pc'[d] \in Merging => pc[d] \in Merging
      BY <1>1 DEF MergeLock, Goto, Merging, TypeInv, TypeOK
    <2> QED  BY <1>1, <2>1, FateKept DEF MergeLock
  <1>2. CASE MergeCommit(c)
    <2> DEFINE b == mine[c].birth
    <2>1. pc[c] \in Merging /\ LeaveMerge(c)
      BY <1>2 DEF MergeCommit, Merging
    <2>2. /\ DOMAIN revs' = DOMAIN revs \cup {Len(revs) + 1} /\ Len(revs) + 1 \notin DOMAIN revs
          /\ revs'[Len(revs) + 1].birth = b
          /\ \A n \in DOMAIN revs : revs'[n] = revs[n]
      BY <1>2 DEF MergeCommit, TypeInv, TypeOK
    <2>3. Opened' = Opened /\ b # 0
      BY <2>1, LeaveSteps DEF Opened, FateInv
    <2>4. \A n \in DOMAIN revs : revs[n].birth # b
      BY <2>1, <2>3 DEF FateInv
    <2> HIDE DEF b
    <2>5. ASSUME NEW i \in DOMAIN txns'
          PROVE  /\ txns'[i].birth \in Opened' \ aborted'
                 /\ \A j \in DOMAIN txns' : txns'[i].birth = txns'[j].birth => i = j
                 /\ \A d \in Client : pc'[d] \in Merging => mine'[d].birth # txns'[i].birth
      BY <2>1, <2>3, LeaveSteps DEF FateInv
    <2>6. ASSUME NEW d \in Client, pc'[d] \in Merging
          PROVE  /\ mine'[d].birth \in Opened' \ aborted'
                 /\ mine'[d].birth # b
                 /\ \A e \in Client :
                     pc'[e] \in Merging /\ mine'[d].birth = mine'[e].birth => d = e
      BY <2>1, <2>3, <2>6, LeaveSteps DEF FateInv, b
    <2>7. ASSUME NEW n \in DOMAIN revs', revs'[n].birth # 0
          PROVE  /\ revs'[n].birth \in Opened' \ aborted'
                 /\ \A m \in DOMAIN revs' : revs'[n].birth = revs'[m].birth => n = m
                 /\ \A i \in DOMAIN txns' : revs'[n].birth # txns'[i].birth
                 /\ \A d \in Client : pc'[d] \in Merging => revs'[n].birth # mine'[d].birth
      <3>1. CASE n = Len(revs) + 1
        <4>1. revs'[n].birth = b
          BY <3>1, <2>2
        <4>2. b \in Opened \ aborted /\ \A i \in DOMAIN txns : b # txns[i].birth
          BY <2>1 DEF FateInv, b
        <4> QED  BY <3>1, <4>1, <4>2, <2>1, <2>2, <2>3, <2>4, <2>6, LeaveSteps
      <3>2. CASE n \in DOMAIN revs
        <4>1. revs'[n] = revs[n]
          BY <3>2, <2>2
        <4> QED  BY <3>2, <4>1, <2>1, <2>2, <2>3, <2>4, <2>7, LeaveSteps DEF FateInv
      <3> QED  BY <3>1, <3>2, <2>2
    <2>8. aborted' \subseteq Opened'
      BY <2>1, <2>3, LeaveSteps DEF FateInv
    <2> QED  BY <2>5, <2>6, <2>7, <2>8 DEF FateInv, Merging
  <1>3. CASE MergeCommitFails(c) \/ MergeAddFails(c)
    <2>1. LeaveMerge(c) /\ revs' = revs
      BY <1>3 DEF MergeCommitFails, MergeAddFails
    <2> QED  BY <2>1, LeaveSteps, FateKept
  <1>4. ASSUME NEW p \in Path, MergeAdd(c, p)
        PROVE  FateInv'
    <2>1. mine[c] \in Txn
      BY <1>4 DEF MergeAdd, TypeInv, Merging
    <2>2. \A d \in Client : pc'[d] \in Merging =>
              pc[d] \in Merging /\ mine'[d].birth = mine[d].birth
      BY <1>4, <2>1 DEF MergeAdd, TypeInv, TypeOK, Txn
    <2> QED  BY <1>4, <2>2, FateKept DEF MergeAdd
  <1> QED  BY <1>1, <1>2, <1>3, <1>4 DEF Merge

LEMMA FateNext == TypeInv /\ FateInv /\ [Next]_vars => FateInv'
  <1> SUFFICES ASSUME TypeInv, FateInv, [Next]_vars PROVE FateInv'  OBVIOUS
  <1> USE DEF server, requests, repository, history, mishaps
  <1>1. ASSUME NEW c \in Client, Load(c)
        PROVE  FateInv'
    <2>1. /\ txns' = txns /\ births' = births /\ aborted' = aborted /\ mine' = mine
          /\ \A d \in Client : pc'[d] \in Merging => pc[d] \in Merging
      BY <1>1 DEF Load, LoadCommit, LoadFails, LoadNode, Goto, Merging, TypeInv, TypeOK
    <2>2. \A n \in DOMAIN revs' : revs'[n].birth # 0 =>
              n \in DOMAIN revs /\ revs'[n].birth = revs[n].birth
      <3>1. CASE LoadCommit(c)
        BY <3>1 DEF LoadCommit, TypeInv, TypeOK
      <3>2. CASE revs' = revs
        BY <3>2
      <3> QED  BY <1>1, <3>1, <3>2 DEF Load, LoadFails, LoadNode
    <2> QED  BY <2>1, <2>2, FateKept
  <1>2. CASE Crash
    <2>1. /\ DOMAIN txns' = {} /\ births' = births /\ aborted' = aborted /\ revs' = revs
          /\ \A d \in Client : pc'[d] \notin Merging
      BY <1>2 DEF Crash, Merging
    <2> QED  BY <2>1, FateKept
  <1>3. CASE UNCHANGED vars
    BY <1>3, FateKept DEF vars
  <1> QED  BY <1>1, <1>2, <1>3, FateStage, FateMerge DEF Next

(***************************************************************************)
(* A set whose members are all the same has at most one.                   *)
(***************************************************************************)
LEMMA AtMostOne ==
  ASSUME NEW S, \A x, y \in S : x = y
  PROVE  Cardinality(S) \in {0, 1} /\ (Cardinality(S) = 1 => S # {})
  <1>1. CASE S = {}
    BY <1>1, FS_EmptySet
  <1>2. CASE S # {}
    <2> PICK x \in S : S = {x}  BY <1>2
    <2> QED  BY FS_Singleton
  <1> QED  BY <1>1, <1>2

LEMMA FateOne == TypeInv /\ FateInv => OneFate
  <1> SUFFICES ASSUME TypeInv, FateInv, NEW b \in Birth PROVE Fates(b) <= 1
    BY DEF OneFate
  <1> DEFINE T == {i \in DOMAIN txns : txns[i].birth = b}
             M == {c \in Client : mine[c] # NoTxn /\ mine[c].birth = b}
             R == {n \in DOMAIN revs : revs[n].birth = b}
  <1>0. b # 0 /\ \A c \in M : pc[c] \in Merging
    BY DEF Birth, TypeInv
  <1>1. /\ \A x, y \in T : x = y
        /\ \A x, y \in M : x = y
        /\ \A x, y \in R : x = y
    BY <1>0 DEF FateInv
  <1>2. /\ T # {} => M = {} /\ R = {} /\ b \notin aborted
        /\ M # {} => R = {} /\ b \notin aborted
        /\ R # {} => b \notin aborted
    BY <1>0 DEF FateInv
  <1>3. Fates(b) = Cardinality(T) + Cardinality(M) + Cardinality(R) + IF b \in aborted THEN 1 ELSE 0
    BY DEF Fates
  <1> HIDE DEF T, M, R
  <1>4. /\ Cardinality(T) \in {0, 1} /\ (Cardinality(T) = 1 => T # {})
        /\ Cardinality(M) \in {0, 1} /\ (Cardinality(M) = 1 => M # {})
        /\ Cardinality(R) \in {0, 1} /\ (Cardinality(R) = 1 => R # {})
    BY <1>1, AtMostOne
  <1> QED  BY <1>2, <1>3, <1>4, FS_EmptySet

(***************************************************************************)
(* Every transaction has one fate: MERGE, DELETE, their retries and a      *)
(* crash may race for it in any order, and it is committed at most once,   *)
(* and not at all once DELETE has been answered.                           *)
(***************************************************************************)
THEOREM FateUnique == Spec => []OneFate
  <1>1. Spec => [](TypeInv /\ FateInv)
    BY TypeInit, TypeNext, FateInit, FateNext, PTL DEF Spec
  <1> QED  BY <1>1, FateOne, PTL

-----------------------------------------------------------------------------
LEMMA GeneratedIsNew ==
  ASSUME TypeInv
  PROVE  /\ GeneratedName \in GenName /\ GeneratedName[2] = counter /\ counter \in Nat
         /\ Nobody \notin GenName /\ \A c \in Client : Nobody \notin Named[c]
         /\ \A i : Fresh(i) => i # GeneratedName
  <1>1. GeneratedName \in GenName /\ GeneratedName[2] = counter /\ counter \in Nat
    BY DEF GeneratedName, GenName, TypeInv, TypeOK
  <1>2. Nobody \notin GenName /\ \A c \in Client : Nobody \notin Named[c]
    BY TransactionAssumption DEF Id, Name
  <1> QED  BY <1>1, <1>2 DEF Fresh

LEMMA NameInit == Init => NameInv
  <1> SUFFICES ASSUME Init PROVE NameInv  OBVIOUS
  <1>1. Nobody \notin GenName
    BY TransactionAssumption DEF Id
  <1> QED  BY <1>1 DEF Init, NameInv, Fresh

(***************************************************************************)
(* A step that gives no name to anyone.                                    *)
(***************************************************************************)
LEMMA NameKept ==
  ASSUME NameInv, DOMAIN txns' \subseteq DOMAIN txns,
         counter' = counter, arg' = arg, told' = told,
         \A c \in Client : pc'[c] = "mk_insert" => pc[c] = "mk_insert"
  PROVE  NameInv'
  <1>1. \A i : Fresh(i) => Fresh(i)'
    BY DEF Fresh
  <1>2. \A i \in DOMAIN txns' : Fresh(i)'
    BY <1>1 DEF NameInv
  <1>3. ASSUME NEW c \in Client
        PROVE  Fresh(arg[c])'
    BY <1>1 DEF NameInv, Fresh
  <1> QED  BY <1>2, <1>3 DEF NameInv, Fresh

LEMMA NameStage ==
  ASSUME PrivateNames, TypeInv, NameInv, NEW c \in Client, Stage(c)
  PROVE  NameInv'
  <1> USE DEF server, requests, repository, history, mishaps
  <1>1. CASE CreateTxn(c)
    <2>1. /\ DOMAIN txns' = DOMAIN txns \cup {GeneratedName}
          /\ counter' = counter + 1 /\ arg' = arg /\ pc' = pc
          /\ told' = [told EXCEPT ![c] = GeneratedName]
      BY <1>1 DEF CreateTxn, OpenTransaction, Insert
    <2>2. \A i : Fresh(i) => (i \in GenName => i[2] < counter')
      BY <2>1, GeneratedIsNew DEF Fresh, GenName
    <2>3. \A i \in DOMAIN txns' : i \in GenName => i[2] < counter'
      BY <2>1, <2>2, GeneratedIsNew DEF NameInv
    <2>4. \A d \in Client :
              /\ arg[d] \in GenName => arg[d][2] < counter'
              /\ pc[d] = "mk_insert" => arg[d] \notin DOMAIN txns'
      BY <2>1, <2>2, GeneratedIsNew DEF NameInv
    <2>5. \A d \in Client : told'[d] \in Named[d] \cup GenName \cup {Nobody}
      BY <2>1, GeneratedIsNew DEF NameInv, TypeInv, TypeOK
    <2>6. ASSUME NEW d \in Client
          PROVE  /\ arg'[d] \in Named[d] \cup GenName \cup {Nobody}
                 /\ arg'[d] \in GenName => arg'[d][2] < counter'
                 /\ pc'[d] = "mk_insert" => arg'[d] \notin DOMAIN txns'
                 /\ \A e \in Client : d # e /\ arg'[d] = arg'[e] => arg'[d] = Nobody
      BY <2>1, <2>4 DEF NameInv
    <2> QED  BY <2>3, <2>5, <2>6 DEF NameInv, Fresh
  <1>2. CASE InsertActivity(c)
    <2>1. /\ DOMAIN txns' = DOMAIN txns \cup {arg[c]} /\ pc[c] = "mk_insert"
          /\ counter' = counter /\ told' = [told EXCEPT ![c] = arg[c]]
          /\ arg' = [arg EXCEPT ![c] = Nobody] /\ pc' = [pc EXCEPT ![c] = "idle"]
      BY <1>2 DEF InsertActivity, OpenTransaction, Insert, Goto
    <2>2. \A i : Fresh(i)' <=> Fresh(i)
      BY <2>1 DEF Fresh
    <2>3. \A i \in DOMAIN txns' : i \in GenName => i[2] < counter'
      BY <2>1 DEF NameInv, Fresh
    <2>4. \A d \in Client : IF d = c THEN arg'[d] = Nobody /\ pc'[d] = "idle" /\ told'[d] = arg[d]
                                      ELSE arg'[d] = arg[d] /\ pc'[d] = pc[d] /\ told'[d] = told[d]
      BY <2>1 DEF TypeInv, TypeOK
    <2>5. arg[c] # Nobody
      BY <2>1 DEF TypeInv
    <2>6. ASSUME NEW d \in Client
          PROVE  /\ arg'[d] \in Named[d] \cup GenName \cup {Nobody}
                 /\ told'[d] \in Named[d] \cup GenName \cup {Nobody}
                 /\ arg'[d] \in GenName => arg'[d][2] < counter'
                 /\ pc'[d] = "mk_insert" => arg'[d] \notin DOMAIN txns'
                 /\ \A e \in Client : d # e /\ arg'[d] = arg'[e] => arg'[d] = Nobody
      BY <2>1, <2>4, <2>5, GeneratedIsNew DEF NameInv, Fresh
    <2> QED  BY <2>3, <2>6 DEF NameInv, Fresh
  <1>3. ASSUME NEW i \in Named[c] \cup {GeneratedName}, Mkactivity(c, i)
        PROVE  NameInv'
    <2>1. /\ txns' = txns /\ i \notin DOMAIN txns /\ told' = told
          /\ counter' = IF i = GeneratedName THEN counter + 1 ELSE counter
          /\ arg' = [arg EXCEPT ![c] = i] /\ pc' = [pc EXCEPT ![c] = "mk_insert"]
      BY <1>3 DEF Mkactivity, Goto
    <2>2. \A j : Fresh(j) => (j \in GenName => j[2] < counter')
      BY <2>1, GeneratedIsNew DEF Fresh, GenName
    <2>3. i \in GenName => i[2] < counter'
      BY <2>1, GeneratedIsNew DEF PrivateNames
    <2>4. \A d \in Client : d # c => arg[d] # i
      BY GeneratedIsNew DEF PrivateNames, NameInv
    <2>5. \A d \in Client : IF d = c THEN arg'[d] = i ELSE arg'[d] = arg[d] /\ pc'[d] = pc[d]
      BY <2>1 DEF TypeInv, TypeOK
    <2>6. ASSUME NEW d \in Client
          PROVE  /\ arg'[d] \in Named[d] \cup GenName \cup {Nobody}
                 /\ arg'[d] \in GenName => arg'[d][2] < counter'
                 /\ pc'[d] = "mk_insert" => arg'[d] \notin DOMAIN txns'
                 /\ \A e \in Client : d # e /\ arg'[d] = arg'[e] => arg'[d] = Nobody
      BY <2>1, <2>2, <2>3, <2>4, <2>5, GeneratedIsNew DEF NameInv
    <2>7. \A j \in DOMAIN txns' : j \in GenName => j[2] < counter'
      BY <2>1, <2>2 DEF NameInv
    <2> QED  BY <2>1, <2>6, <2>7 DEF NameInv, Fresh
  <1>4. CASE \E p \in Path : Put(c, p)
    <2>1. DOMAIN txns' = DOMAIN txns
      BY <1>4 DEF Put
    <2> QED  BY <1>4, <2>1, NameKept DEF Put
  <1>5. CASE SetLog(c)
    <2>1. DOMAIN txns' = DOMAIN txns
      BY <1>5 DEF SetLog
    <2> QED  BY <1>5, <2>1, NameKept DEF SetLog
  <1>6. CASE Abort(c)
    BY <1>6, NameKept DEF Abort, Without
  <1>7. CASE NotFound(c)
    BY <1>7, NameKept DEF NotFound, vars
  <1>8. CASE MergeTake(c)
    <2>1. \A d \in Client : pc'[d] = "mk_insert" => pc[d] = "mk_insert"
      BY <1>8 DEF MergeTake, Goto, TypeInv, TypeOK
    <2> QED  BY <1>8, <2>1, NameKept DEF MergeTake, Without
  <1> QED
    BY <1>1, <1>2, <1>3, <1>4, <1>5, <1>6, <1>7, <1>8 DEF Stage

(***************************************************************************)
(* MERGE and load leave the table and the names alone.                     *)
(***************************************************************************)
LEMMA NamesLeftAlone ==
  ASSUME TypeInv, NEW c \in Client, Merge(c) \/ Load(c)
  PROVE  /\ txns' = txns /\ counter' = counter /\ arg' = arg /\ told' = told
         /\ births' = births /\ owner' = owner /\ acked' = acked
         /\ \A d \in Client : pc'[d] = "mk_insert" => pc[d] = "mk_insert"
  <1> USE DEF server, requests, repository, history, mishaps, Goto, TypeInv, TypeOK
  <1>1. CASE MergeLock(c)
    BY <1>1 DEF MergeLock
  <1>2. CASE MergeCommit(c) \/ MergeCommitFails(c) \/ MergeAddFails(c)
    BY <1>2 DEF MergeCommit, MergeCommitFails, MergeAddFails, LeaveMerge
  <1>3. CASE \E p \in Path : MergeAdd(c, p)
    BY <1>3 DEF MergeAdd
  <1>4. CASE Load(c)
    BY <1>4 DEF Load, LoadCommit, LoadFails, LoadNode
  <1> QED  BY <1>1, <1>2, <1>3, <1>4 DEF Merge

LEMMA NameNext ==
  ASSUME PrivateNames
  PROVE  TypeInv /\ NameInv /\ [Next]_vars => NameInv'
  <1> SUFFICES ASSUME TypeInv, NameInv, [Next]_vars PROVE NameInv'  OBVIOUS
  <1>1. ASSUME NEW c \in Client, Merge(c) \/ Load(c)
        PROVE  NameInv'
    BY <1>1, NamesLeftAlone, NameKept
  <1>2. CASE Crash
    <2>1. DOMAIN txns' = {} /\ told' = told /\ \A c \in Client : arg'[c] = Nobody /\ pc'[c] = "idle"
      BY <1>2 DEF Crash, history
    <2> QED  BY <2>1, GeneratedIsNew DEF NameInv, Fresh
  <1>3. CASE UNCHANGED vars
    BY <1>3, NameKept DEF vars, server, requests, history
  <1> QED  BY <1>1, <1>2, <1>3, NameStage DEF Next

(***************************************************************************)
(* When clients make up different names, an open transaction is never      *)
(* replaced by another of its name, though MKACTIVITY looks the name up    *)
(* and inserts it under two locks and the counter starts again after a     *)
(* crash.                                                                  *)
(***************************************************************************)
THEOREM TransactionsKept ==
  ASSUME PrivateNames
  PROVE  Spec => NeverReplaced
  <1> DEFINE Same == \A i \in DOMAIN txns : i \in DOMAIN txns' => txns'[i].birth = txns[i].birth
  <1>1. Spec => [](TypeInv /\ NameInv)
    BY TypeInit, TypeNext, NameInit, NameNext, PTL DEF Spec
  <1>2. TypeInv /\ NameInv /\ [Next]_vars => [Same]_vars
    <2> SUFFICES ASSUME TypeInv, NameInv, Next PROVE Same
      OBVIOUS
    <2> USE DEF server, requests, repository, history, mishaps
    <2>1. ASSUME NEW c \in Client, Stage(c)
          PROVE  Same
      <3>1. CASE CreateTxn(c)
        <4>1. GeneratedName \notin DOMAIN txns
          BY GeneratedIsNew DEF NameInv
        <4> QED  BY <3>1, <4>1 DEF CreateTxn, OpenTransaction, Insert
      <3>2. CASE InsertActivity(c)
        <4>1. arg[c] \notin DOMAIN txns
          BY <3>2 DEF InsertActivity, NameInv
        <4> QED  BY <3>2, <4>1 DEF InsertActivity, OpenTransaction, Insert
      <3>3. CASE \E p \in Path : Put(c, p)
        BY <3>3 DEF Put, TypeInv, TypeOK, Txn
      <3>4. CASE SetLog(c)
        BY <3>4 DEF SetLog, TypeInv, TypeOK, Txn
      <3>5. CASE Abort(c) \/ MergeTake(c)
        BY <3>5 DEF Abort, MergeTake, Without
      <3>6. CASE NotFound(c) \/ \E i \in Named[c] \cup {GeneratedName} : Mkactivity(c, i)
        BY <3>6 DEF NotFound, Mkactivity, vars
      <3> QED  BY <2>1, <3>1, <3>2, <3>3, <3>4, <3>5, <3>6 DEF Stage
    <2>2. CASE Crash
      BY <2>2 DEF Crash
    <2> QED  BY <2>1, <2>2, NamesLeftAlone DEF Next
  <1> QED  BY <1>1, <1>2, PTL DEF Spec, NeverReplaced

-----------------------------------------------------------------------------
LEMMA IsolationInit ==
  ASSUME PrivateNames
  PROVE  Init => IsolationInv
  <1> SUFFICES ASSUME Init PROVE OwnInv /\ StagedInv /\ RowsFollow /\ TreesFollow
    BY DEF IsolationInv
  <1>1. Nobody \notin GenName
    BY TransactionAssumption DEF Id
  <1>2. \A c \in Client : Held(c) = Named[c] \cup {Nobody}
    BY DEF Init, Held
  <1>3. \A c, d \in Client : c # d => Held(c) \cap Held(d) \subseteq {Nobody}
    BY <1>2 DEF PrivateNames
  <1>4. \A b \in Birth : /\ acked[b] = [files |-> NoChanges, log |-> FALSE]
                         /\ \A p \in Path : acked[b].files[p] = Nobody
    BY DEF Init, NoChanges
  <1>5. OwnInv
    BY <1>1, <1>3, <1>4 DEF Init, OwnInv, Fresh
  <1>6. StagedInv
    BY DEF Init, StagedInv, ChangesIsolated, Merging
  <1>7. RowsFollow /\ TreesFollow
    BY DEF Init, RowsFollow, TreesFollow, TreeBefore, NoChanges
  <1> QED  BY <1>5, <1>6, <1>7

(***************************************************************************)
(* What a client holds is not a name the server would generate now.        *)
(***************************************************************************)
LEMMA HeldIsOld ==
  ASSUME PrivateNames, TypeInv, NameInv, OwnInv, NEW c \in Client, NEW i \in Held(c)
  PROVE  Fresh(i) /\ i # GeneratedName
  <1>1. Fresh(i)
    BY DEF Held, PrivateNames, NameInv, OwnInv, Fresh
  <1> QED  BY <1>1, GeneratedIsNew

(***************************************************************************)
(* A step that gives out no name and acknowledges nothing.                 *)
(***************************************************************************)
LEMMA OwnKept ==
  ASSUME OwnInv, counter' = counter, arg' = arg, told' = told, births' = births,
         owner' = owner, acked' = acked,
         \A i \in DOMAIN txns' : i \in DOMAIN txns /\ txns'[i].birth = txns[i].birth,
         \A c \in Client : pc'[c] # "loading"
  PROVE  OwnInv'
  <1>1. \A c \in Client : Held(c)' = Held(c) /\ (Fresh(told[c])' <=> Fresh(told[c]))
    BY DEF Held, Fresh
  <1>2. \A c \in Client : pc'[c] # "loading" /\ Fresh(told[c])'
    BY <1>1 DEF OwnInv
  <1>3. \A c, d \in Client : c # d => Held(c)' \cap Held(d)' \subseteq {Nobody}
    BY <1>1 DEF OwnInv
  <1>4. \A i \in DOMAIN txns' : \A c \in Client : i \in Held(c)' => owner'[txns'[i].birth] = c
    BY <1>1 DEF OwnInv
  <1>5. \A b \in Birth :
          /\ b > births' => acked'[b] = [files |-> NoChanges, log |-> FALSE]
          /\ \A p \in Path : acked'[b].files[p] \in {owner'[b], Nobody}
    BY DEF OwnInv
  <1> QED  BY <1>2, <1>3, <1>4, <1>5 DEF OwnInv, NoChanges, Birth

(***************************************************************************)
(* A new transaction belongs to the client that is told its name.          *)
(***************************************************************************)
LEMMA OwnOpened ==
  ASSUME PrivateNames, TypeInv, FateInv, NameInv, OwnInv,
         NEW c \in Client, NEW i, i # Nobody, births + 1 \in Birth, OpenTransaction(c, i),
         \A d \in Client : pc'[d] # "loading" /\ Fresh(told[d])',
         \A d \in Client : d # c => i \notin Held(d) /\ Held(d)' = Held(d),
         Held(c)' \subseteq Held(c) \cup {i, Nobody}
  PROVE  OwnInv'
  <1>1. /\ births' = births + 1 /\ acked' = acked
        /\ DOMAIN txns' = DOMAIN txns \cup {i} /\ txns'[i].birth = births + 1
        /\ \A j \in DOMAIN txns : j # i => txns'[j].birth = txns[j].birth
        /\ owner'[births + 1] = c
        /\ \A b \in Birth : b # births + 1 => owner'[b] = owner[b]
    BY DEF OpenTransaction, Insert, TypeInv, TypeOK
  <1>2. births \in Nat /\ \A j \in DOMAIN txns : txns[j].birth \in Birth /\ txns[j].birth # births + 1
    BY TransactionAssumption DEF FateInv, Opened, TypeInv, TypeOK, Txn
  <1>3. \A d, e \in Client : d # e => Held(d)' \cap Held(e)' \subseteq {Nobody}
    BY DEF OwnInv
  <1>n. Nobody \notin DOMAIN txns
    BY TransactionAssumption DEF TypeInv, TypeOK
  <1>4. ASSUME NEW j \in DOMAIN txns', NEW d \in Client, j \in Held(d)'
        PROVE  owner'[txns'[j].birth] = d
    <2>1. CASE j = i
      BY <1>1, <1>4, <2>1
    <2>2. CASE j # i
      <3>1. j \in DOMAIN txns /\ j \in Held(d)
        BY <1>1, <1>4, <1>n, <2>2
      <3> QED  BY <1>1, <1>2, <2>2, <3>1 DEF OwnInv
    <2> QED  BY <2>1, <2>2
  <1>5. \A b \in Birth :
          /\ b > births' => acked'[b] = [files |-> NoChanges, log |-> FALSE]
          /\ \A p \in Path : acked'[b].files[p] \in {owner'[b], Nobody}
    <2> SUFFICES ASSUME NEW b \in Birth
                 PROVE  /\ b > births' => acked[b] = [files |-> NoChanges, log |-> FALSE]
                        /\ \A p \in Path : acked[b].files[p] \in {owner'[b], Nobody}
      BY <1>1
    <2>1. b > births' => b > births
      BY <1>1, <1>2, TransactionAssumption DEF Birth
    <2>2. b = births + 1 => b > births
      BY <1>2
    <2>3. b = births + 1 => \A p \in Path : acked[b].files[p] = Nobody
      BY <2>2 DEF OwnInv, NoChanges
    <2> QED  BY <1>1, <2>1, <2>3 DEF OwnInv
  <1> QED  BY <1>3, <1>4, <1>5 DEF OwnInv, NoChanges, Birth

LEMMA OwnStage ==
  ASSUME PrivateNames, TypeInv, TypeInv', FateInv, NameInv, NameInv', OwnInv,
         NEW c \in Client, Stage(c)
  PROVE  OwnInv'
  <1> USE DEF server, requests, repository, history, mishaps
  <1>l. \A d \in Client : pc[d] # "loading"
    BY DEF OwnInv
  <1>1. CASE CreateTxn(c)
    <2>1. /\ OpenTransaction(c, GeneratedName) /\ births' = births + 1
          /\ counter' = counter + 1 /\ arg' = arg /\ pc' = pc
          /\ told' = [told EXCEPT ![c] = GeneratedName]
      BY <1>1 DEF CreateTxn, OpenTransaction
    <2>2. births + 1 \in Birth
      BY <1>1, <2>1, InsertingFinite, TransactionAssumption
      DEF CreateTxn, MayOpen, Birth, TypeInv, TypeOK
    <2>3. GeneratedName # Nobody
      BY GeneratedIsNew
    <2>4. \A d \in Client : told'[d] = IF d = c THEN GeneratedName ELSE told[d]
      BY <2>1 DEF TypeInv, TypeOK
    <2>5. \A d \in Client : d # c => GeneratedName \notin Held(d) /\ Held(d)' = Held(d)
      BY <2>1, <2>4, HeldIsOld DEF Held
    <2>6. Held(c)' \subseteq Held(c) \cup {GeneratedName, Nobody}
      BY <2>1, <2>4 DEF Held
    <2>7. ASSUME NEW d \in Client
          PROVE  Fresh(told[d])'
      <3>1. told[d] \in GenName => told[d][2] < counter
        BY DEF OwnInv, Fresh
      <3> QED  BY <2>1, <2>4, <3>1, GeneratedIsNew DEF Fresh, GenName
    <2> QED  BY <1>l, <2>1, <2>2, <2>3, <2>5, <2>6, <2>7, OwnOpened
  <1>2. CASE InsertActivity(c)
    <2> DEFINE i == arg[c]
    <2>1. /\ OpenTransaction(c, i) /\ births' = births + 1 /\ pc[c] = "mk_insert"
          /\ counter' = counter /\ told' = [told EXCEPT ![c] = i]
          /\ arg' = [arg EXCEPT ![c] = Nobody] /\ pc' = [pc EXCEPT ![c] = "idle"]
      BY <1>2 DEF InsertActivity, OpenTransaction, Goto
    <2>2. births + 1 \in Birth
      BY <2>1, TransactionAssumption DEF Birth, TypeInv, TypeOK
    <2>3. i # Nobody /\ i \in Held(c)
      BY <2>1 DEF TypeInv, Held
    <2>4. \A d \in Client : IF d = c THEN arg'[d] = Nobody /\ told'[d] = i /\ pc'[d] = "idle"
                                      ELSE arg'[d] = arg[d] /\ told'[d] = told[d] /\ pc'[d] = pc[d]
      BY <2>1 DEF TypeInv, TypeOK
    <2>5. \A d \in Client : d # c => i \notin Held(d) /\ Held(d)' = Held(d)
      BY <2>3, <2>4 DEF Held, OwnInv
    <2>6. Held(c)' \subseteq Held(c) \cup {i, Nobody}
      BY <2>4 DEF Held
    <2>7. \A d \in Client : pc'[d] # "loading" /\ Fresh(told[d])'
      BY <1>l, <2>1, <2>4 DEF OwnInv, NameInv, Fresh
    <2> HIDE DEF i
    <2> QED  BY <2>1, <2>2, <2>3, <2>5, <2>6, <2>7, OwnOpened
  <1>3. ASSUME NEW i \in Named[c] \cup {GeneratedName}, Mkactivity(c, i)
        PROVE  OwnInv'
    <2>1. /\ txns' = txns /\ i \notin DOMAIN txns /\ told' = told /\ births' = births
          /\ owner' = owner /\ acked' = acked
          /\ counter' = IF i = GeneratedName THEN counter + 1 ELSE counter
          /\ arg' = [arg EXCEPT ![c] = i] /\ pc' = [pc EXCEPT ![c] = "mk_insert"]
      BY <1>3 DEF Mkactivity, Goto
    <2>2. \A d \in Client : IF d = c THEN arg'[d] = i /\ pc'[d] = "mk_insert"
                                      ELSE arg'[d] = arg[d] /\ pc'[d] = pc[d]
      BY <2>1 DEF TypeInv, TypeOK
    <2>3. /\ Held(c)' \subseteq Held(c) \cup {i}
          /\ \A d \in Client : d # c => Held(d)' = Held(d)
      BY <2>1, <2>2 DEF Held
    <2>4. \A d \in Client : d # c /\ i \in Held(d) => i = Nobody
      <3>1. CASE i = GeneratedName
        BY <3>1, HeldIsOld
      <3>2. CASE i \in Named[c]
        BY <3>2 DEF Held, OwnInv
      <3> QED  BY <3>1, <3>2
    <2>5. \A d, e \in Client : d # e => Held(d)' \cap Held(e)' \subseteq {Nobody}
      BY <2>3, <2>4 DEF OwnInv
    <2>6. \A j \in DOMAIN txns' : \A d \in Client : j \in Held(d)' => owner'[txns'[j].birth] = d
      BY <2>1, <2>3 DEF OwnInv
    <2>7. ASSUME NEW d \in Client
          PROVE  pc'[d] # "loading" /\ Fresh(told[d])'
      <3>1. told[d] \in GenName => told[d][2] < counter
        BY DEF OwnInv, Fresh
      <3> QED  BY <1>l, <2>1, <2>2, <3>1, GeneratedIsNew DEF Fresh, GenName
    <2>8. \A b \in Birth :
            /\ b > births' => acked'[b] = [files |-> NoChanges, log |-> FALSE]
            /\ \A p \in Path : acked'[b].files[p] \in {owner'[b], Nobody}
      BY <2>1 DEF OwnInv
    <2> QED  BY <2>5, <2>6, <2>7, <2>8 DEF OwnInv, NoChanges, Birth
  <1>4. CASE SetLog(c) \/ \E p \in Path : Put(c, p)
    <2> DEFINE b == txns[told[c]].birth
    <2>1. /\ told' = told /\ arg' = arg /\ counter' = counter /\ births' = births
          /\ owner' = owner /\ pc' = pc /\ told[c] \in DOMAIN txns
      BY <1>4 DEF SetLog, Put
    <2>2. DOMAIN txns' = DOMAIN txns /\ \A i \in DOMAIN txns' : txns'[i].birth = txns[i].birth
      <3>1. CASE SetLog(c)
        BY <3>1 DEF SetLog, TypeInv, TypeOK, Txn
      <3>2. CASE \E p \in Path : Put(c, p)
        BY <3>2 DEF Put, TypeInv, TypeOK, Txn
      <3> QED  BY <1>4, <3>1, <3>2
    <2>3. b \in Birth /\ b <= births /\ owner[b] = c
      <3>1. told[c] \in Held(c)
        BY DEF Held
      <3> QED  BY <2>1, <3>1, TransactionAssumption
               DEF OwnInv, FateInv, Opened, TypeInv, TypeOK, Txn
    <2>4. \A d \in Birth : d # b => acked'[d] = acked[d]
      <3>1. CASE SetLog(c)
        BY <2>3, <3>1 DEF SetLog, TypeInv, TypeOK
      <3>2. CASE \E p \in Path : Put(c, p)
        BY <2>3, <3>2 DEF Put, TypeInv, TypeOK
      <3> QED  BY <1>4, <3>1, <3>2
    <2>5. \A p \in Path : acked'[b].files[p] \in {c, acked[b].files[p]}
      <3>1. acked[b] \in [files : Changes, log : BOOLEAN]
        BY <2>3 DEF TypeInv, TypeOK
      <3>2. CASE SetLog(c)
        <4>1. acked'[b] = [acked[b] EXCEPT !.log = TRUE]
          BY <2>3, <3>2 DEF SetLog, TypeInv, TypeOK
        <4> QED  BY <3>1, <4>1
      <3>3. ASSUME NEW p \in Path, Put(c, p)
            PROVE  \A q \in Path : acked'[b].files[q] \in {c, acked[b].files[q]}
        <4>1. acked'[b] = [acked[b] EXCEPT !.files[p] = c]
          BY <2>3, <3>3 DEF Put, TypeInv, TypeOK
        <4> QED  BY <3>1, <4>1 DEF Changes
      <3> QED  BY <1>4, <3>2, <3>3
    <2> HIDE DEF b
    <2>6. \A d \in Birth :
            /\ d > births' => acked'[d] = [files |-> NoChanges, log |-> FALSE]
            /\ \A p \in Path : acked'[d].files[p] \in {owner'[d], Nobody}
      <3> SUFFICES ASSUME NEW d \in Birth
                   PROVE  /\ d > births => acked'[d] = [files |-> NoChanges, log |-> FALSE]
                          /\ \A p \in Path : acked'[d].files[p] \in {owner[d], Nobody}
        BY <2>1
      <3>1. CASE d = b
        <4>1. ~(d > births)
          BY <2>3, <3>1, TransactionAssumption DEF Birth, TypeInv, TypeOK
        <4> QED  BY <2>3, <2>5, <3>1, <4>1 DEF OwnInv
      <3>2. CASE d # b
        BY <2>4, <3>2 DEF OwnInv
      <3> QED  BY <3>1, <3>2
    <2>7. \A d \in Client : Held(d)' = Held(d) /\ pc'[d] # "loading" /\ Fresh(told[d])'
      BY <1>l, <2>1 DEF Held, Fresh, OwnInv
    <2>8. /\ \A d, e \in Client : d # e => Held(d)' \cap Held(e)' \subseteq {Nobody}
          /\ \A j \in DOMAIN txns' : \A d \in Client : j \in Held(d)' => owner'[txns'[j].birth] = d
      BY <2>1, <2>2, <2>7 DEF OwnInv
    <2> QED  BY <2>6, <2>7, <2>8 DEF OwnInv, NoChanges, Birth
  <1>5. CASE Abort(c)
    BY <1>l, <1>5, OwnKept DEF Abort, Without
  <1>6. CASE NotFound(c)
    BY <1>l, <1>6, OwnKept DEF NotFound, vars
  <1>7. CASE MergeTake(c)
    <2>1. \A d \in Client : pc'[d] # "loading"
      BY <1>l, <1>7 DEF MergeTake, Goto, TypeInv, TypeOK
    <2> QED  BY <1>7, <2>1, OwnKept DEF MergeTake, Without
  <1> QED
    BY <1>1, <1>2, <1>3, <1>4, <1>5, <1>6, <1>7 DEF Stage

(***************************************************************************)
(* A step after which the table, the MERGEs under way, the revisions and   *)
(* the acknowledgements are what they were, though transactions may have   *)
(* left the table.                                                         *)
(***************************************************************************)
LEMMA StagedKept ==
  ASSUME StagedInv, FateInv, mine' = mine, acked' = acked, guard' = guard,
         pending' = pending, revs' = revs,
         \A b \in Opened : owner'[b] = owner[b],
         \A i \in DOMAIN txns' : i \in DOMAIN txns /\ txns'[i] = txns[i],
         \A c \in Client : pc'[c] \in Merging \/ pc[c] \in Merging => pc'[c] = pc[c]
  PROVE  StagedInv'
  <1>1. \A i \in DOMAIN txns' :
          /\ txns'[i].files = acked'[txns'[i].birth].files
          /\ txns'[i].log = acked'[txns'[i].birth].log
    BY DEF StagedInv
  <1>2. \A c \in Client : pc'[c] \in Merging =>
          /\ mine'[c].log = acked'[mine'[c].birth].log
          /\ pc'[c] = "merge_lock" => mine'[c].files = acked'[mine'[c].birth].files
          /\ pc'[c] = "merge_add" =>
              /\ guard' = c
              /\ \A p \in Path :
                  acked'[mine'[c].birth].files[p] =
                      IF mine'[c].files[p] # Nobody THEN mine'[c].files[p] ELSE pending'[p]
    BY DEF StagedInv
  <1>3. ChangesIsolated'
    BY DEF StagedInv, ChangesIsolated, FateInv
  <1>4. guard' = Nobody => pending' = NoChanges
    BY DEF StagedInv
  <1> QED  BY <1>1, <1>2, <1>3, <1>4 DEF StagedInv, Merging, NoChanges

(***************************************************************************)
(* A new transaction has nothing staged and nothing acknowledged.          *)
(***************************************************************************)
LEMMA StagedOpened ==
  ASSUME TypeInv, FateInv, OwnInv, StagedInv,
         NEW c \in Client, NEW i, births + 1 \in Birth, OpenTransaction(c, i),
         mine' = mine, guard' = guard, pending' = pending, revs' = revs,
         \A d \in Client : pc'[d] \in Merging \/ pc[d] \in Merging => pc'[d] = pc[d]
  PROVE  StagedInv'
  <1>1. /\ acked' = acked /\ DOMAIN txns' = DOMAIN txns \cup {i}
        /\ txns'[i] = [birth |-> births + 1, files |-> NoChanges, log |-> FALSE]
        /\ \A j \in DOMAIN txns : j # i => txns'[j] = txns[j]
        /\ \A b \in Birth : b # births + 1 => owner'[b] = owner[b]
    BY DEF OpenTransaction, Insert, TypeInv, TypeOK
  <1>2. births \in Nat /\ births + 1 > births
        /\ \A b \in Opened : b \in Birth /\ b # births + 1
    BY TransactionAssumption DEF Opened, Birth, TypeInv, TypeOK
  <1>3. acked[births + 1] = [files |-> NoChanges, log |-> FALSE]
    BY <1>2 DEF OwnInv
  <1>4. \A j \in DOMAIN txns' :
          /\ txns'[j].files = acked'[txns'[j].birth].files
          /\ txns'[j].log = acked'[txns'[j].birth].log
    <2>1. ASSUME NEW j \in DOMAIN txns'
          PROVE  /\ txns'[j].files = acked[txns'[j].birth].files
                 /\ txns'[j].log = acked[txns'[j].birth].log
      <3>1. CASE j = i
        <4>1. txns'[j].birth = births + 1 /\ txns'[j].files = NoChanges /\ txns'[j].log = FALSE
          BY <1>1, <3>1
        <4>2. acked[births + 1].files = NoChanges /\ acked[births + 1].log = FALSE
          BY <1>3
        <4> QED  BY <4>1, <4>2, Zenon
      <3>2. CASE j # i
        <4>1. j \in DOMAIN txns /\ txns'[j] = txns[j]
          BY <1>1, <3>2
        <4> QED  BY <4>1 DEF StagedInv
      <3> QED  BY <3>1, <3>2
    <2> QED  BY <1>1, <2>1
  <1>5. \A d \in Client : pc'[d] \in Merging =>
          /\ mine'[d].log = acked'[mine'[d].birth].log
          /\ pc'[d] = "merge_lock" => mine'[d].files = acked'[mine'[d].birth].files
          /\ pc'[d] = "merge_add" =>
              /\ guard' = d
              /\ \A p \in Path :
                  acked'[mine'[d].birth].files[p] =
                      IF mine'[d].files[p] # Nobody THEN mine'[d].files[p] ELSE pending'[p]
    BY <1>1 DEF StagedInv
  <1>6. ChangesIsolated'
    BY <1>1, <1>2 DEF StagedInv, ChangesIsolated, FateInv
  <1>7. guard' = Nobody => pending' = NoChanges
    BY DEF StagedInv
  <1> QED  BY <1>4, <1>5, <1>6, <1>7 DEF StagedInv, Merging, NoChanges

(***************************************************************************)
(* PUT and PROPPATCH change a transaction in the table and what is         *)
(* acknowledged of it alike; no MERGE and no revision has that birth.      *)
(***************************************************************************)
LEMMA StagedChanged ==
  ASSUME TypeInv, FateInv, StagedInv, NEW c \in Client,
         SetLog(c) \/ \E p \in Path : Put(c, p)
  PROVE  StagedInv'
  <1> USE DEF server, requests, repository, history, mishaps
  <1> DEFINE t == told[c]
             b == txns[t].birth
  <1>1. /\ t \in DOMAIN txns /\ txns[t] \in Txn /\ b \in Birth
        /\ acked[b] \in [files : Changes, log : BOOLEAN]
        /\ txns[t].files = acked[b].files /\ txns[t].log = acked[b].log
    BY DEF SetLog, Put, TypeInv, TypeOK, Txn, StagedInv
  <1>2. /\ mine' = mine /\ guard' = guard /\ pending' = pending /\ revs' = revs
        /\ pc' = pc /\ owner' = owner
    BY DEF SetLog, Put
  <1>3. /\ DOMAIN txns' = DOMAIN txns
        /\ \A i \in DOMAIN txns : i # t => txns'[i] = txns[i]
        /\ \A d \in Birth : d # b => acked'[d] = acked[d]
        /\ txns'[t].birth = b
        /\ txns'[t].files = acked'[b].files /\ txns'[t].log = acked'[b].log
    <2>1. CASE SetLog(c)
      <3>1. /\ txns'[t] = [txns[t] EXCEPT !.log = TRUE]
            /\ acked'[b] = [acked[b] EXCEPT !.log = TRUE]
            /\ DOMAIN txns' = DOMAIN txns
            /\ \A i \in DOMAIN txns : i # t => txns'[i] = txns[i]
            /\ \A d \in Birth : d # b => acked'[d] = acked[d]
        BY <1>1, <2>1 DEF SetLog, TypeInv, TypeOK
      <3> QED  BY <1>1, <3>1 DEF Txn
    <2>2. ASSUME NEW p \in Path, Put(c, p)
          PROVE  /\ DOMAIN txns' = DOMAIN txns
                 /\ \A i \in DOMAIN txns : i # t => txns'[i] = txns[i]
                 /\ \A d \in Birth : d # b => acked'[d] = acked[d]
                 /\ txns'[t].birth = b
                 /\ txns'[t].files = acked'[b].files /\ txns'[t].log = acked'[b].log
      <3>1. /\ txns'[t] = [txns[t] EXCEPT !.files[p] = c]
            /\ acked'[b] = [acked[b] EXCEPT !.files[p] = c]
            /\ DOMAIN txns' = DOMAIN txns
            /\ \A i \in DOMAIN txns : i # t => txns'[i] = txns[i]
            /\ \A d \in Birth : d # b => acked'[d] = acked[d]
        BY <1>1, <2>2 DEF Put, TypeInv, TypeOK
      <3> QED  BY <1>1, <3>1 DEF Txn
    <2> QED  BY <2>1, <2>2
  <1>4. /\ \A i \in DOMAIN txns : i # t => txns[i].birth # b /\ txns[i].birth \in Birth
        /\ \A d \in Client : pc[d] \in Merging => mine[d].birth # b /\ mine[d].birth \in Birth
        /\ \A n \in DOMAIN revs : revs[n].birth # 0 => revs[n].birth # b /\ revs[n].birth \in Birth
    BY <1>1, TransactionAssumption DEF FateInv, Opened, Birth, TypeInv, TypeOK
  <1> HIDE DEF t, b
  <1>5. \A i \in DOMAIN txns' :
          /\ txns'[i].files = acked'[txns'[i].birth].files
          /\ txns'[i].log = acked'[txns'[i].birth].log
    BY <1>3, <1>4 DEF StagedInv
  <1>6. \A d \in Client : pc'[d] \in Merging =>
          /\ mine'[d].log = acked'[mine'[d].birth].log
          /\ pc'[d] = "merge_lock" => mine'[d].files = acked'[mine'[d].birth].files
          /\ pc'[d] = "merge_add" =>
              /\ guard' = d
              /\ \A p \in Path :
                  acked'[mine'[d].birth].files[p] =
                      IF mine'[d].files[p] # Nobody THEN mine'[d].files[p] ELSE pending'[p]
    BY <1>2, <1>3, <1>4 DEF StagedInv
  <1>7. ChangesIsolated'
    BY <1>2, <1>3, <1>4 DEF StagedInv, ChangesIsolated
  <1>8. guard' = Nobody => pending' = NoChanges
    BY <1>2 DEF StagedInv
  <1> QED  BY <1>5, <1>6, <1>7, <1>8 DEF StagedInv, Merging, NoChanges

LEMMA StagedStage ==
  ASSUME TypeInv, TypeInv', FateInv, OwnInv, StagedInv, NEW c \in Client, Stage(c)
  PROVE  StagedInv'
  <1> USE DEF server, requests, repository, history, mishaps
  <1>1. CASE CreateTxn(c)
    <2>1. births + 1 \in Birth
      BY <1>1, InsertingFinite, TransactionAssumption DEF CreateTxn, MayOpen, Birth, TypeInv, TypeOK
    <2> QED  BY <1>1, <2>1, StagedOpened DEF CreateTxn
  <1>2. CASE InsertActivity(c)
    <2>1. births + 1 \in Birth
      BY <1>2, TransactionAssumption DEF InsertActivity, OpenTransaction, Birth, TypeInv, TypeOK
    <2>2. \A d \in Client : pc'[d] \in Merging \/ pc[d] \in Merging => pc'[d] = pc[d]
      BY <1>2 DEF InsertActivity, Goto, Merging, TypeInv, TypeOK
    <2> QED  BY <1>2, <2>1, <2>2, StagedOpened DEF InsertActivity
  <1>3. CASE \E i \in Named[c] \cup {GeneratedName} : Mkactivity(c, i)
    <2>1. \A d \in Client : pc'[d] \in Merging \/ pc[d] \in Merging => pc'[d] = pc[d]
      BY <1>3 DEF Mkactivity, Goto, Merging, TypeInv, TypeOK
    <2> QED  BY <1>3, <2>1, StagedKept DEF Mkactivity
  <1>4. CASE SetLog(c) \/ \E p \in Path : Put(c, p)
    BY <1>4, StagedChanged
  <1>5. CASE Abort(c)
    BY <1>5, StagedKept DEF Abort, Without
  <1>6. CASE NotFound(c)
    BY <1>6, StagedKept DEF NotFound, vars
  <1>7. CASE MergeTake(c)
    <2> DEFINE t == told[c]
    <2>1. /\ t \in DOMAIN txns /\ DOMAIN txns' \subseteq DOMAIN txns
          /\ \A i \in DOMAIN txns' : txns'[i] = txns[i]
          /\ guard' = guard /\ pending' = pending /\ revs' = revs /\ acked' = acked /\ owner' = owner
          /\ mine'[c] = txns[t] /\ pc'[c] = "merge_lock" /\ pc[c] = "idle"
          /\ \A d \in Client : d # c => mine'[d] = mine[d] /\ pc'[d] = pc[d]
      BY <1>7 DEF MergeTake, Without, Goto, TypeInv, TypeOK
    <2> HIDE DEF t
    <2>2. \A i \in DOMAIN txns' :
            /\ txns'[i].files = acked'[txns'[i].birth].files
            /\ txns'[i].log = acked'[txns'[i].birth].log
      BY <2>1 DEF StagedInv
    <2>3. \A d \in Client : pc'[d] \in Merging =>
            /\ mine'[d].log = acked'[mine'[d].birth].log
            /\ pc'[d] = "merge_lock" => mine'[d].files = acked'[mine'[d].birth].files
            /\ pc'[d] = "merge_add" =>
                /\ guard' = d
                /\ \A p \in Path :
                    acked'[mine'[d].birth].files[p] =
                        IF mine'[d].files[p] # Nobody THEN mine'[d].files[p] ELSE pending'[p]
      BY <2>1 DEF StagedInv
    <2>4. ChangesIsolated' /\ (guard' = Nobody => pending' = NoChanges)
      BY <2>1 DEF StagedInv, ChangesIsolated
    <2> QED  BY <2>2, <2>3, <2>4 DEF StagedInv, Merging, NoChanges
  <1> QED  BY <1>1, <1>2, <1>3, <1>4, <1>5, <1>6, <1>7 DEF Stage

(***************************************************************************)
(* Under COMMIT_LOCK one MERGE adds its files to a clean working tree, and *)
(* hands a clean one back.                                                 *)
(***************************************************************************)
LEMMA StagedMerge ==
  ASSUME TypeInv, FateInv, OwnInv, StagedInv, calm', NEW c \in Client, Merge(c)
  PROVE  StagedInv'
  <1> USE DEF server, repository, history, mishaps
  <1>n. c # Nobody /\ \A d \in Client : d # Nobody
    BY TransactionAssumption
  <1>m. txns' = txns /\ acked' = acked /\ owner' = owner
    BY NamesLeftAlone
  <1>t. \A i \in DOMAIN txns' :
          /\ txns'[i].files = acked'[txns'[i].birth].files
          /\ txns'[i].log = acked'[txns'[i].birth].log
    BY <1>m DEF StagedInv
  <1>1. CASE MergeLock(c)
    <2>1. /\ pc[c] = "merge_lock" /\ guard = Nobody /\ guard' = c
          /\ mine' = mine /\ pending' = pending /\ revs' = revs /\ pc'[c] = "merge_add"
          /\ \A d \in Client : d # c => pc'[d] = pc[d]
      BY <1>1 DEF MergeLock, Goto, TypeInv, TypeOK
    <2>2. \A d \in Client : pc[d] # "merge_add"
      BY <1>n, <2>1 DEF StagedInv, Merging
    <2>3. pending = NoChanges /\ \A p \in Path : pending[p] = Nobody
      BY <2>1 DEF StagedInv, NoChanges
    <2>4. /\ mine[c].log = acked[mine[c].birth].log
          /\ mine[c].files = acked[mine[c].birth].files
      BY <2>1 DEF StagedInv, Merging
    <2>5. \A d \in Client : pc'[d] \in Merging =>
            /\ mine'[d].log = acked'[mine'[d].birth].log
            /\ pc'[d] = "merge_lock" => mine'[d].files = acked'[mine'[d].birth].files
            /\ pc'[d] = "merge_add" =>
                /\ guard' = d
                /\ \A p \in Path :
                    acked'[mine'[d].birth].files[p] =
                        IF mine'[d].files[p] # Nobody THEN mine'[d].files[p] ELSE pending'[p]
      <3> SUFFICES ASSUME NEW d \in Client, pc'[d] \in Merging
                   PROVE  /\ mine[d].log = acked[mine[d].birth].log
                          /\ pc'[d] = "merge_lock" => mine[d].files = acked[mine[d].birth].files
                          /\ pc'[d] = "merge_add" =>
                              /\ c = d
                              /\ \A p \in Path :
                                  acked[mine[d].birth].files[p] =
                                      IF mine[d].files[p] # Nobody THEN mine[d].files[p] ELSE pending[p]
        BY <1>m, <2>1
      <3>1. CASE d = c
        BY <2>1, <2>3, <2>4, <3>1
      <3>2. CASE d # c
        BY <2>1, <2>2, <3>2 DEF StagedInv
      <3> QED  BY <3>1, <3>2
    <2>6. ChangesIsolated' /\ (guard' = Nobody => pending' = NoChanges)
      BY <1>m, <1>n, <2>1 DEF StagedInv, ChangesIsolated
    <2> QED  BY <1>t, <2>5, <2>6 DEF StagedInv, Merging, NoChanges
  <1>2. ASSUME NEW p \in Path, MergeAdd(c, p)
        PROVE  StagedInv'
    <2>1. /\ pc[c] = "merge_add" /\ guard' = guard /\ revs' = revs /\ pc' = pc
          /\ mine[c].files[p] # Nobody
          /\ pending' = [pending EXCEPT ![p] = mine[c].files[p]]
      BY <1>2 DEF MergeAdd
    <2>2. mine[c] \in Txn /\ pending \in Changes
      BY <2>1 DEF TypeInv, TypeOK, Merging
    <2>3. guard = c /\ \A d \in Client : d # c => pc[d] # "merge_add"
      BY <2>1 DEF StagedInv, Merging
    <2>4. /\ mine'[c] = [mine[c] EXCEPT !.files[p] = Nobody]
          /\ \A d \in Client : d # c => mine'[d] = mine[d]
      BY <1>2 DEF MergeAdd, TypeInv, TypeOK
    <2>5. /\ mine'[c].birth = mine[c].birth /\ mine'[c].log = mine[c].log
          /\ \A q \in Path : mine'[c].files[q] = IF q = p THEN Nobody ELSE mine[c].files[q]
          /\ \A q \in Path : pending'[q] = IF q = p THEN mine[c].files[p] ELSE pending[q]
      BY <2>1, <2>2, <2>4 DEF Txn, Changes
    <2>6. \A d \in Client : pc'[d] \in Merging =>
            /\ mine'[d].log = acked'[mine'[d].birth].log
            /\ pc'[d] = "merge_lock" => mine'[d].files = acked'[mine'[d].birth].files
            /\ pc'[d] = "merge_add" =>
                /\ guard' = d
                /\ \A q \in Path :
                    acked'[mine'[d].birth].files[q] =
                        IF mine'[d].files[q] # Nobody THEN mine'[d].files[q] ELSE pending'[q]
      <3> SUFFICES ASSUME NEW d \in Client, pc[d] \in Merging
                   PROVE  /\ mine'[d].log = acked[mine'[d].birth].log
                          /\ pc[d] = "merge_lock" => mine'[d].files = acked[mine'[d].birth].files
                          /\ pc[d] = "merge_add" =>
                              /\ guard = d
                              /\ \A q \in Path :
                                  acked[mine'[d].birth].files[q] =
                                      IF mine'[d].files[q] # Nobody
                                      THEN mine'[d].files[q] ELSE pending'[q]
        BY <1>m, <2>1
      <3>1. CASE d = c
        <4>1. /\ mine[c].log = acked[mine[c].birth].log
              /\ \A q \in Path :
                  acked[mine[c].birth].files[q] =
                      IF mine[c].files[q] # Nobody THEN mine[c].files[q] ELSE pending[q]
          BY <2>1 DEF StagedInv, Merging
        <4> QED  BY <2>1, <2>3, <2>5, <3>1, <4>1
      <3>2. CASE d # c
        BY <2>3, <2>4, <3>2 DEF StagedInv
      <3> QED  BY <3>1, <3>2
    <2>7. ChangesIsolated' /\ (guard' = Nobody => pending' = NoChanges)
      BY <1>m, <1>n, <2>1, <2>3 DEF StagedInv, ChangesIsolated
    <2> QED  BY <1>t, <2>6, <2>7 DEF StagedInv, Merging, NoChanges
  <1>3. CASE MergeCommit(c) \/ MergeCommitFails(c)
    <2>1. /\ pc[c] = "merge_add" /\ pending' = NoChanges /\ LeaveMerge(c)
          /\ mine[c].files = NoChanges
      BY <1>3 DEF MergeCommit, MergeCommitFails, LoseChanges
    <2>2. \A d \in Client : d # c => pc[d] # "merge_add"
      BY <2>1 DEF StagedInv, Merging
    <2>3. \A d \in Client : pc'[d] \in Merging =>
            /\ mine'[d].log = acked'[mine'[d].birth].log
            /\ pc'[d] = "merge_lock" => mine'[d].files = acked'[mine'[d].birth].files
            /\ pc'[d] # "merge_add"
      BY <1>m, <2>1, <2>2, LeaveSteps DEF StagedInv
    <2>4. ChangesIsolated'
      <3>1. CASE revs' = revs
        BY <1>m, <3>1 DEF StagedInv, ChangesIsolated
      <3>2. CASE MergeCommit(c)
        <4> DEFINE b == mine[c].birth
        <4>1. mine[c] \in Txn /\ b \in Birth
          BY <2>1 DEF TypeInv, Merging, Txn
        <4>2. acked[b].files \in Changes /\ pending \in Changes
          BY <4>1 DEF TypeInv, TypeOK
        <4>3. \A p \in Path : acked[b].files[p] = pending[p]
          BY <2>1 DEF StagedInv, Merging, NoChanges
        <4>4. pending = acked[b].files
          BY <4>2, <4>3 DEF Changes
        <4>5. mine[c].log = acked[b].log
          BY <2>1 DEF StagedInv, Merging
        <4>6. \A p \in Path : pending[p] \in {owner[b], Nobody}
          BY <4>1, <4>4 DEF OwnInv
        <4>7. /\ DOMAIN revs' = DOMAIN revs \cup {Len(revs) + 1}
              /\ revs'[Len(revs) + 1] = [birth |-> b, changes |-> pending, tree |-> rows, log |-> mine[c].log]
              /\ \A n \in DOMAIN revs : revs'[n] = revs[n]
          BY <3>2 DEF MergeCommit, TypeInv, TypeOK
        <4> HIDE DEF b
        <4>8. ASSUME NEW n \in DOMAIN revs', revs'[n].birth # 0
              PROVE  /\ revs'[n].changes = acked[revs'[n].birth].files
                     /\ revs'[n].log = acked[revs'[n].birth].log
                     /\ \A p \in Path : revs'[n].changes[p] \in {owner[revs'[n].birth], Nobody}
          <5>1. CASE n = Len(revs) + 1
            <6>1. revs'[n].birth = b /\ revs'[n].changes = pending /\ revs'[n].log = mine[c].log
              BY <4>7, <5>1
            <6> QED  BY <4>4, <4>5, <4>6, <6>1
          <5>2. CASE n \in DOMAIN revs
            <6>1. revs'[n] = revs[n]
              BY <4>7, <5>2
            <6> QED  BY <4>8, <5>2, <6>1 DEF StagedInv, ChangesIsolated
          <5> QED  BY <4>7, <5>1, <5>2
        <4> QED  BY <1>m, <4>8 DEF ChangesIsolated
      <3> QED  BY <1>3, <3>1, <3>2 DEF MergeCommitFails
    <2> QED  BY <1>t, <2>1, <2>3, <2>4 DEF StagedInv, Merging, NoChanges
  <1>4. CASE MergeAddFails(c)
    BY <1>4 DEF MergeAddFails
  <1> QED  BY <1>1, <1>2, <1>3, <1>4 DEF Merge

(***************************************************************************)
(* Whatever adds to the pending changes writes the same row, and a commit  *)
(* stores the rows: of all steps, only a restart parts the two.            *)
(***************************************************************************)
LEMMA TreesKept ==
  ASSUME TypeInv, RowsFollow, TreesFollow, revs' = revs,
         strays \subseteq strays',
         \A p \in Path :
            <<Len(revs) + 1, p>> \notin strays' =>
                \/ rows'[p] = rows[p] /\ pending'[p] = pending[p]
                \/ rows'[p] = pending'[p] /\ pending'[p] # Nobody
  PROVE  RowsFollow' /\ TreesFollow'
  <1>1. \A n : TreeBefore(n)' = TreeBefore(n)
    BY DEF TreeBefore
  <1>2. RowsFollow'
    BY <1>1 DEF RowsFollow
  <1>3. TreesFollow'
    BY <1>1 DEF TreesFollow
  <1> QED  BY <1>2, <1>3

LEMMA TreesCommitted ==
  ASSUME TypeInv, RowsFollow, TreesFollow, NEW b, NEW l,
         revs' = Append(revs, [birth |-> b, changes |-> pending, tree |-> rows, log |-> l]),
         pending' = NoChanges, rows' = rows, strays' = strays
  PROVE  RowsFollow' /\ TreesFollow'
  <1>0. PICK N \in Nat : N = Len(revs)
    <2>1. Len(revs) \in Nat
      BY DEF TypeInv, TypeOK
    <2> QED  BY <2>1
  <1> DEFINE r == [birth |-> b, changes |-> pending, tree |-> rows, log |-> l]
  <1>1. revs \in Seq(Revision) /\ N \in Nat /\ DOMAIN revs = 1..N
    BY <1>0 DEF TypeInv, TypeOK
  <1>2. /\ Len(revs') = N + 1 /\ DOMAIN revs' = 1..N + 1
        /\ \A n \in 1..N : revs'[n] = revs[n]
        /\ revs'[N + 1] = r
    <2> HIDE DEF r
    <2> QED  BY <1>0, <1>1 DEF r
  <1>3. r.changes = pending /\ r.tree = rows
    OBVIOUS
  <1> HIDE DEF r
  <1>4. /\ \A n \in 1..N + 1 : TreeBefore(n)' = TreeBefore(n)
        /\ TreeBefore(N + 2)' = rows
    <2>1. \A n \in 1..N + 1 : n = 1 \/ n - 1 \in 1..N
      BY <1>1
    <2>2. ASSUME NEW n \in 1..N + 1
          PROVE  TreeBefore(n)' = TreeBefore(n)
      BY <1>2, <2>1 DEF TreeBefore
    <2>3. PICK k \in Nat : k = N + 2 /\ k # 1 /\ k - 1 = N + 1
      BY <1>1
    <2>4. TreeBefore(k)' = revs'[k - 1].tree
      BY <2>3 DEF TreeBefore
    <2>5. TreeBefore(N + 2)' = revs'[N + 1].tree
      BY <2>3, <2>4
    <2>6. TreeBefore(N + 2)' = rows
      BY <1>2, <1>3, <2>5
    <2> QED  BY <2>2, <2>6
  <1>5. RowsFollow'
    <2>1. Len(revs') + 1 = N + 2
      BY <1>1, <1>2
    <2>2. \A p \in Path : pending'[p] = Nobody
      BY DEF NoChanges
    <2>3. (TreeBefore(Len(revs) + 1))' = rows
      BY <1>1, <1>2, <1>3, <2>1 DEF TreeBefore
    <2> QED  BY <2>2, <2>3 DEF RowsFollow
  <1>6. TreesFollow'
    <2> SUFFICES ASSUME NEW n \in DOMAIN revs', NEW p \in Path, revs'[n].birth # 0, <<n, p>> \notin strays
                 PROVE  revs'[n].tree[p] = IF revs'[n].changes[p] # Nobody THEN revs'[n].changes[p]
                                           ELSE (TreeBefore(n)')[p]
      BY DEF TreesFollow
    <2>1. CASE n = N + 1
      <3>1. rows[p] = IF pending[p] # Nobody THEN pending[p] ELSE TreeBefore(N + 1)[p]
        BY <1>0, <2>1 DEF RowsFollow
      <3>2. TreeBefore(n)' = TreeBefore(N + 1)
        BY <1>1, <1>4, <2>1
      <3> QED  BY <1>2, <1>3, <2>1, <3>1, <3>2
    <2>2. CASE n \in 1..N
      <3>1. revs'[n] = revs[n] /\ TreeBefore(n)' = TreeBefore(n)
        BY <1>1, <1>2, <1>4, <2>2
      <3> QED  BY <1>1, <2>2, <3>1 DEF TreesFollow
    <2> QED  BY <1>1, <1>2, <2>1, <2>2
  <1> QED  BY <1>5, <1>6

LEMMA LosingKeeps ==
  ASSUME TypeInv, RowsFollow, TreesFollow, revs' = revs, rows' = rows, LoseChanges
  PROVE  RowsFollow' /\ TreesFollow'
  <1>1. strays \subseteq strays'
    BY DEF LoseChanges
  <1>2. ASSUME NEW p \in Path, <<Len(revs) + 1, p>> \notin strays'
        PROVE  pending[p] = Nobody /\ pending'[p] = Nobody
    <2>1. pending[p] = Nobody
      BY <1>2 DEF LoseChanges
    <2>2. pending'[p] = Nobody
      BY DEF LoseChanges, NoChanges
    <2> QED  BY <2>1, <2>2
  <1> QED  BY <1>1, <1>2, TreesKept

LEMMA TreesNext ==
  ASSUME TypeInv, RowsFollow, TreesFollow, [Next]_vars, calm'
  PROVE  RowsFollow' /\ TreesFollow'
  <1> USE DEF server, requests, repository, history, mishaps
  <1>1. ASSUME NEW c \in Client, Stage(c)
        PROVE  rows' = rows /\ pending' = pending /\ revs' = revs /\ strays' = strays
    BY <1>1 DEF Stage, CreateTxn, InsertActivity, Mkactivity, Put, SetLog, Abort, NotFound, MergeTake, vars
  <1>2. ASSUME NEW c \in Client, Merge(c)
        PROVE  RowsFollow' /\ TreesFollow'
    <2>1. CASE MergeLock(c)
      BY <2>1, TreesKept DEF MergeLock
    <2>2. CASE MergeCommit(c)
      BY <2>2, TreesCommitted DEF MergeCommit, LeaveMerge
    <2>3. CASE MergeCommitFails(c)
      <3>1. revs' = revs /\ rows' = rows /\ LoseChanges
        BY <2>3 DEF MergeCommitFails, LeaveMerge
      <3> QED  BY <3>1, LosingKeeps
    <2>4. CASE MergeAddFails(c)
      BY <2>4 DEF MergeAddFails
    <2>5. ASSUME NEW p \in Path, MergeAdd(c, p)
          PROVE  RowsFollow' /\ TreesFollow'
      <3>1. \A q \in Path : IF q = p THEN rows'[q] = pending'[q] /\ pending'[q] # Nobody
                                      ELSE rows'[q] = rows[q] /\ pending'[q] = pending[q]
        BY <2>5 DEF MergeAdd, TypeInv, TypeOK, Changes
      <3>2. revs' = revs /\ strays' = strays
        BY <2>5 DEF MergeAdd
      <3> QED  BY <3>1, <3>2, TreesKept
    <2> QED  BY <1>2, <2>1, <2>2, <2>3, <2>4, <2>5 DEF Merge
  <1>3. ASSUME NEW c \in Client, Load(c)
        PROVE  RowsFollow' /\ TreesFollow'
    <2>1. CASE LoadCommit(c)
      BY <2>1, TreesCommitted DEF LoadCommit
    <2>2. CASE LoadFails(c)
      <3>1. CASE LoseChanges
        BY <2>2, <3>1, LosingKeeps DEF LoadFails
      <3>2. CASE pending' = pending /\ strays' = strays
        BY <2>2, <3>2, TreesKept DEF LoadFails
      <3> QED  BY <2>2, <3>1, <3>2 DEF LoadFails
    <2>3. ASSUME NEW p \in Path, LoadNode(c, p)
          PROVE  FALSE
      BY <2>3 DEF LoadNode
    <2> QED  BY <1>3, <2>1, <2>2, <2>3 DEF Load
  <1>4. CASE Crash
    BY <1>4 DEF Crash
  <1>5. CASE UNCHANGED vars
    BY <1>5, TreesKept DEF vars
  <1>6. ASSUME NEW c \in Client, Stage(c)
        PROVE  RowsFollow' /\ TreesFollow'
    BY <1>1, <1>6, TreesKept
  <1> QED  BY <1>2, <1>3, <1>4, <1>5, <1>6 DEF Next

LEMMA IsolationNext ==
  ASSUME PrivateNames
  PROVE  /\ TypeInv /\ TypeInv' /\ FateInv /\ NameInv /\ NameInv' /\ IsolationInv
         /\ [Next]_vars
         => IsolationInv'
  <1> SUFFICES ASSUME TypeInv, TypeInv', FateInv, NameInv, NameInv', IsolationInv, [Next]_vars,
                      calm'
               PROVE  OwnInv' /\ StagedInv' /\ RowsFollow' /\ TreesFollow'
    BY DEF IsolationInv
  <1>0. calm
    <2> USE DEF mishaps
    <2>1. ASSUME NEW c \in Client, Stage(c)
          PROVE  calm
      BY <2>1 DEF Stage, CreateTxn, InsertActivity, Mkactivity, Put, SetLog, Abort, NotFound,
                  MergeTake, vars
    <2>2. ASSUME NEW c \in Client, Merge(c)
          PROVE  calm
      BY <2>2 DEF Merge, MergeLock, MergeCommit, MergeCommitFails, MergeAddFails, MergeAdd
    <2>3. ASSUME NEW c \in Client, Load(c)
          PROVE  calm
      BY <2>3 DEF Load, LoadCommit, LoadFails, LoadNode
    <2> QED  BY <2>1, <2>2, <2>3 DEF Next, Crash, vars
  <1>1. OwnInv /\ StagedInv /\ RowsFollow /\ TreesFollow
    BY <1>0 DEF IsolationInv
  <1>t. RowsFollow' /\ TreesFollow'
    BY <1>1, TreesNext
  <1>2. ASSUME NEW c \in Client, Stage(c)
        PROVE  OwnInv' /\ StagedInv'
    BY <1>1, <1>2, OwnStage, StagedStage
  <1>3. ASSUME NEW c \in Client, Merge(c)
        PROVE  OwnInv' /\ StagedInv'
    <2>1. \A d \in Client : pc'[d] # "loading"
      BY <1>1, <1>3 DEF Merge, MergeLock, MergeCommit, MergeCommitFails, MergeAddFails, MergeAdd,
                        LeaveMerge, Goto, OwnInv, TypeInv, TypeOK
    <2>2. OwnInv'
      BY <1>1, <1>3, <2>1, NamesLeftAlone, OwnKept
    <2> QED  BY <1>1, <1>3, <2>2, StagedMerge
  <1>4. ASSUME NEW c \in Client, Load(c)
        PROVE  FALSE
    BY <1>1, <1>4 DEF Load, LoadCommit, LoadFails, LoadNode, OwnInv
  <1>5. CASE Crash
    BY <1>5 DEF Crash
  <1>6. CASE UNCHANGED vars
    <2>0. UNCHANGED <<txns, counter, guard, pc, arg, mine, pending, revs, told, births, owner, acked>>
      BY <1>6 DEF vars, server, requests, repository, history
    <2>1. OwnInv'
      BY <1>1, <2>0, OwnKept DEF OwnInv
    <2>2. StagedInv'
      BY <1>1, <2>0, StagedKept
    <2> QED  BY <1>t, <2>1, <2>2
  <1> QED  BY <1>2, <1>3, <1>4, <1>5, <1>6, <1>t DEF Next

(***************************************************************************)
(* What COMMIT_LOCK is for: until a dump is loaded, an add_file fails or   *)
(* the server restarts, the revision a MERGE makes changes exactly what    *)
(* the client that opened its transaction was acknowledged, and its tree   *)
(* is its predecessor's with those changes, save where a commit rejected   *)
(* or failed just before left its rows; for any number of clients, of      *)
(* failed commits, and any interleaving of the requests.                   *)
(***************************************************************************)
THEOREM CommitsIsolated ==
  ASSUME PrivateNames
  PROVE  Spec => []IsolatedWhenCalm
  <1>1. IsolationInv => IsolatedWhenCalm
    BY DEF IsolationInv, IsolatedWhenCalm, StagedInv, MergesIsolated
  <1>2. Spec => [](TypeInv /\ FateInv /\ NameInv /\ IsolationInv)
    BY TypeInit, TypeNext, FateInit, FateNext, NameInit, NameNext, IsolationInit, IsolationNext, PTL
    DEF Spec
  <1> QED  BY <1>1, <1>2, PTL

=============================================================================
