--------------------------- MODULE AdminToolsProofs ---------------------------
(***************************************************************************)
(* Theorems about AdminTools, for any number of commands at a time,        *)
(* revisions, properties, stops of the server and deaths of commands.      *)
(***************************************************************************)
EXTENDS AdminTools, NaturalsInduction, WellFoundedInduction, TLAPS

RevpropPc == {"read", "hook", "load", "truncate", "write"}
PackPc == {"remove_tmp", "vacuum", "remove_wal"}
Pcs == {"none", "copy", "visit"} \cup RevpropPc \cup PackPc

RevpropTask ==
    [command : {"revprop"}, op : {"set", "delete"}, rev : Rev, name : Name,
     value : Value \cup {NoValue}, held : CommitFile \cup RevpropsFile \cup {NoFile}]
CopyTask ==
    [command : {"hotcopy"}, todo : SUBSET Slot, headFirst : BOOLEAN, published : BOOLEAN,
     skipped : BOOLEAN, torn : SUBSET Rev]
VerifyTask ==
    [command : {"verify"}, place : {"main", "copy"}, from : Rev, next : Nat \ {0}, upto : 0..MaxRev,
     cached : SUBSET Rev, missing : SUBSET Rev, errors : BOOLEAN, warned : BOOLEAN,
     replaced : BOOLEAN, torn : SUBSET Rev]
PackTask == [command : {"pack"}]

(***************************************************************************)
(* Each command has the variables of its kind.                             *)
(***************************************************************************)
TaskOK(l, t) ==
    /\ l = "none" => t = Idle
    /\ l \in RevpropPc => t \in RevpropTask
    /\ l = "copy" => t \in CopyTask
    /\ l = "visit" => t \in VerifyTask
    /\ l \in PackPc => t \in PackTask

(***************************************************************************)
(* A revprop command is about a published revision, and holds the content  *)
(* of the file it changes.                                                 *)
(***************************************************************************)
HeldOK(l, t, h) ==
    /\ l \in RevpropPc => t.rev <= h
    /\ l = "read" => t.name \in InCommit
    /\ l = "hook" /\ t.held # NoFile => t.name \in InCommit /\ t.held \in CommitFile
    /\ l \in {"truncate", "write"} =>
          t.held \in (IF t.name \in InCommit THEN CommitFile ELSE RevpropsFile)

TasksInv ==
    /\ TypeOK
    /\ plan \in [{"first", "last", "revprop", "hotcopy", "verify", "pack",
                  "together", "faults"} -> Nat]
    /\ plan.last <= MaxRev
    /\ task = [a \in Admin |-> task[a]]
    /\ \A a \in Admin : TaskOK(pc[a], task[a]) /\ HeldOK(pc[a], task[a], main.head)

(***************************************************************************)
(* The files of the served directory: a published revision has all of its  *)
(* own, and the server's commit those it has written.                      *)
(***************************************************************************)
ServerInv ==
    /\ server # "down" => rev = main.head
    /\ server \notin {"down", "idle"} => rev < MaxRev
    /\ server \in {"object", "row", "tree", "commit", "delta"} => main.blobs[rev + 1] # NoFile
    /\ server \in {"tree", "commit", "delta"} => rev + 1 \in main.trees
    /\ server \in {"commit", "delta"} => main.commits[rev + 1] = AsCommitted
    /\ server = "delta" => rev + 1 \in main.deltas

PublishedInv ==
    \A r \in 1..main.head :
        /\ r \in main.deltas /\ r \in main.trees
        /\ main.blobs[r] # NoFile /\ main.commits[r] # NoFile

FilesInv == TasksInv /\ ServerInv /\ PublishedInv

-----------------------------------------------------------------------------
(***************************************************************************)
(* Revision properties.  A command alone on its revision finds there what  *)
(* was intended, and holds that with its change made.                      *)
(***************************************************************************)
CommitPart(r) == [n \in InCommit |-> intended[r][n]]
ExtraPart(r) == [n \in Extra |-> intended[r][n]]
Writing(r, N) == \E a \in Admin : pc[a] = "write" /\ task[a].rev = r /\ task[a].name \in N

UntouchedInv ==
    /\ clashed \subseteq 1..main.head
    /\ \A r \in Rev : r > main.head => intended[r] = Original /\ main.revprops[r] = NoFile

SingleInv ==
    \A a, b \in Admin :
        a # b /\ pc[a] \in RevpropPc /\ pc[b] \in RevpropPc /\ task[a].rev = task[b].rev
            => task[a].rev \in clashed

KeptInv ==
    \A r \in (1..main.head) \ clashed :
        /\ Writing(r, InCommit) \/ main.commits[r] = CommitPart(r)
        /\ Writing(r, Extra) \/ LoadRevprops(r) = ExtraPart(r)

Expected(t) == IF t.name \in InCommit THEN CommitPart(t.rev) ELSE ExtraPart(t.rev)

Holds(l, t) ==
    /\ l = "hook" /\ t.held # NoFile => t.held = CommitPart(t.rev)
    /\ l \in {"truncate", "write"} => t.held = [Expected(t) EXCEPT ![t.name] = t.value]

HeldInv ==
    \A a \in Admin : pc[a] \in RevpropPc /\ task[a].rev \notin clashed => Holds(pc[a], task[a])

RevpropInv == UntouchedInv /\ SingleInv /\ KeptInv /\ HeldInv

-----------------------------------------------------------------------------
(***************************************************************************)
(* Rows.  As long as a pack has the repository to itself, nothing is in    *)
(* the WAL when it removes it.                                             *)
(***************************************************************************)
AloneInv ==
    \A a \in Admin : pc[a] \in PackPc =>
        ~OthersOpen(a) /\ \A b \in Admin \ {a} : pc[b] \notin PackPc

RowsInv ==
    ~beside =>
        /\ AloneInv
        /\ ~unlinked
        /\ 1..main.head \subseteq main.rows \cup wal
        /\ server \in {"row", "tree", "commit", "delta"} => rev + 1 \in main.rows \cup wal
        /\ \A a \in Admin : pc[a] = "remove_wal" => wal = {}

-----------------------------------------------------------------------------
(***************************************************************************)
(* hotcopy.  What the walk has passed is in the copy, for the revisions    *)
(* that the head, copied or still to be copied, will name.                 *)
(***************************************************************************)
HeadSlot == <<"refs", "head", 0>>
RowsSlot == <<"tree.sqlite", "rows", 0>>
CommitSlot(r) == <<"commits", "commits", r>>
DeltaSlot(r) == <<"tree_deltas", "deltas", r>>
BlobSlot(r) == <<"objects", "blobs", r>>

TornInv ==
    \A a \in Admin : pc[a] \in {"copy", "visit"} =>
        \A r \in Rev : main.commits[r] = Torn => r \in task[a].torn

OneWalk == \A a, b \in Admin : pc[a] = "copy" /\ pc[b] = "copy" => a = b

Reach(a) == IF task[a].published THEN copy.head ELSE main.head

Passed(a) ==
    /\ \A r \in 1..Reach(a) :
          /\ CommitSlot(r) \notin task[a].todo =>
                copy.commits[r] # NoFile /\ (copy.commits[r] = Torn => r \in task[a].torn)
          /\ DeltaSlot(r) \notin task[a].todo => r \in copy.deltas
          /\ BlobSlot(r) \notin task[a].todo => copy.blobs[r] # NoFile
    /\ RowsSlot \notin task[a].todo /\ ~task[a].skipped /\ ~beside => 1..Reach(a) \subseteq copy.rows

WalkInv(a) ==
    /\ report.printed = "nothing"
    /\ copy.head <= main.head
    /\ HeadSlot \in task[a].todo => copy.head = 0 /\ ~task[a].headFirst
    /\ HeadSlot \notin task[a].todo /\ ~task[a].published => copy.head = main.head
    /\ \A r \in Rev :
          /\ CommitSlot(r) \in task[a].todo => copy.commits[r] = NoFile
          /\ BlobSlot(r) \in task[a].todo => copy.blobs[r] = NoFile \/ main.blobs[r] # NoFile
    /\ task[a].headFirst \/ ~task[a].published => Passed(a)

CopyInv ==
    /\ TornInv /\ OneWalk
    /\ \A a \in Admin : pc[a] = "copy" => WalkInv(a)
    /\ CopyReadable

-----------------------------------------------------------------------------
(***************************************************************************)
(* verify.  What it has visited without an error is there: without a delta *)
(* it has a tree object.                                                   *)
(***************************************************************************)
There(r) ==
    HasCommit(copy, r) /\ (r \in copy.deltas \/ r \in copy.trees) /\ MissingBlobs(copy, r) = {}

VisitInv(a) ==
    /\ task[a].from <= task[a].next
    /\ task[a].from < task[a].next => task[a].next <= task[a].upto + 1
    /\ task[a].place = "main" =>
          task[a].upto <= main.head /\ (task[a].errors => task[a].torn # {})
    /\ \A k \in task[a].cached : k < task[a].next
    /\ task[a].place = "copy" /\ ~task[a].errors /\ ~task[a].replaced =>
          \A r \in task[a].from..(task[a].next - 1) : There(r)

VerdictInv ==
    verdict.printed # "nothing" =>
        /\ verdict.place \in {"main", "copy"} /\ verdict.from \in Rev /\ verdict.upto \in 0..MaxRev
        /\ verdict.place = "main" =>
              verdict.upto <= main.head /\ (verdict.printed = "errors" => verdict.torn # {})
        /\ verdict.place = "copy" /\ verdict.printed = "healthy" /\ ~verdict.replaced =>
              \A r \in verdict.from..verdict.upto : There(r)

VerifyInv == VerdictInv /\ \A a \in Admin : pc[a] = "visit" => VisitInv(a)

-----------------------------------------------------------------------------
(***************************************************************************)
(* Opening and closing the database.                                       *)
(***************************************************************************)
SameFiles(d, e) ==
    /\ d.head = e.head /\ d.commits = e.commits /\ d.revprops = e.revprops
    /\ d.deltas = e.deltas /\ d.trees = e.trees /\ d.blobs = e.blobs

LEMMA PcSet ==
    Pcs = {"none", "read", "hook", "load", "truncate", "write", "copy", "visit",
           "remove_tmp", "vacuum", "remove_wal"}
BY DEF Pcs, RevpropPc, PackPc

LEMMA ClosedMain ==
    ASSUME NEW a \in Admin, NEW d \in Directory, wal \subseteq Rev, unlinked \in BOOLEAN,
           CloseMain(a, d)
    PROVE  /\ main' \in Directory /\ SameFiles(main', d)
           /\ wal' \subseteq Rev /\ unlinked' \in BOOLEAN /\ (unlinked' => unlinked)
           /\ main'.rows \cup wal' = d.rows \cup wal
           /\ ~OthersOpen(a) => wal' = {}
<1>1. CASE OthersOpen(a)
  BY <1>1 DEF CloseMain, SameFiles, dbVars
<1>2. CASE ~OthersOpen(a)
  <2>1. main' = [d EXCEPT !.rows = @ \cup wal] /\ wal' = {} /\ unlinked' = FALSE
    BY <1>2 DEF CloseMain
  <2>2. d.rows \cup wal \subseteq Rev
    BY DEF Directory
  <2>3. main' \in Directory /\ main'.rows = d.rows \cup wal
    BY <2>1, <2>2 DEF Directory
  <2>4. SameFiles(main', d)
    BY <2>1 DEF SameFiles, Directory
  <2> QED BY <2>1, <2>3, <2>4
<1> QED BY <1>1, <1>2

LEMMA FilledRows ==
    ASSUME NEW d \in Directory, NEW rows \in SUBSET Rev
    PROVE  Filled(d, rows) \subseteq Rev /\ rows \subseteq Filled(d, rows)
<1>1. d.head \in 0..MaxRev /\ MaxRev \in Nat
  BY AdminAssumption DEF Directory
<1>2. 1..d.head \subseteq Rev
  BY <1>1 DEF Rev
<1> QED BY <1>2 DEF Filled

LEMMA OpenedMain ==
    ASSUME main \in Directory, wal \subseteq Rev, unlinked \in BOOLEAN, beside \in BOOLEAN,
           OpenMain
    PROVE  /\ wal' \subseteq Rev /\ unlinked' = unlinked /\ beside' \in BOOLEAN
           /\ main.rows \cup wal \subseteq main.rows \cup wal'
           /\ beside' = (beside \/ Packing)
<1>1. main.rows \cup wal \subseteq Rev
  BY DEF Directory
<1>2. Filled(main, main.rows \cup wal) \subseteq Rev
      /\ main.rows \cup wal \subseteq Filled(main, main.rows \cup wal)
  BY <1>1, FilledRows
<1>3. Packing \in BOOLEAN
  BY DEF Packing
<1> QED BY <1>2, <1>3 DEF OpenMain

LEMMA RevOfTask == \A t \in RevpropTask : t.rev \in Rev /\ t.rev \in Int
BY DEF RevpropTask, Rev

(***************************************************************************)
(* One command moves on, and no revision is unpublished.                   *)
(***************************************************************************)
LEMMA CommandMoves ==
    ASSUME TasksInv, NEW a \in Admin, NEW l \in Pcs, NEW t, Goto(a, l, t),
           main' \in Directory, main'.head >= main.head,
           TaskOK(l, t), HeldOK(l, t, main'.head)
    PROVE  /\ pc' \in [Admin -> Pcs]
           /\ task' = [b \in Admin |-> task'[b]]
           /\ \A b \in Admin : TaskOK(pc'[b], task'[b]) /\ HeldOK(pc'[b], task'[b], main'.head)
<1>1. pc' = [pc EXCEPT ![a] = l] /\ task' = [task EXCEPT ![a] = t]
  BY DEF Goto
<1>2. pc \in [Admin -> Pcs]
  BY PcSet DEF TasksInv, TypeOK
<1>3. task = [b \in Admin |-> task[b]]
  BY DEF TasksInv
<1>4. task' = [b \in Admin |-> task'[b]] /\ task'[a] = t /\ \A b \in Admin \ {a} : task'[b] = task[b]
  BY <1>1, <1>3
<1>5. pc' \in [Admin -> Pcs] /\ pc'[a] = l /\ \A b \in Admin \ {a} : pc'[b] = pc[b]
  BY <1>1, <1>2
<1>6. ASSUME NEW b \in Admin \ {a} PROVE TaskOK(pc'[b], task'[b]) /\ HeldOK(pc'[b], task'[b], main'.head)
  <2>1. TaskOK(pc[b], task[b]) /\ HeldOK(pc[b], task[b], main.head)
    BY DEF TasksInv
  <2>2. main.head \in Int /\ main'.head \in Int
    BY DEF TasksInv, TypeOK, Directory
  <2>3. pc[b] \in RevpropPc => task[b].rev \in Int
    BY <2>1, RevOfTask DEF TaskOK
  <2> QED BY <1>4, <1>5, <2>1, <2>2, <2>3 DEF HeldOK
<1> QED BY <1>4, <1>5, <1>6

LEMMA CommandEnds ==
    ASSUME TasksInv, NEW a \in Admin, End(a), main' \in Directory, main'.head >= main.head
    PROVE  /\ pc' \in [Admin -> Pcs]
           /\ task' = [b \in Admin |-> task'[b]]
           /\ \A b \in Admin : TaskOK(pc'[b], task'[b]) /\ HeldOK(pc'[b], task'[b], main'.head)
<1>1. "none" \in Pcs /\ Goto(a, "none", Idle)
  BY DEF End, Goto, Pcs
<1>2. TaskOK("none", Idle) /\ HeldOK("none", Idle, main'.head)
  BY DEF TaskOK, HeldOK, RevpropPc, PackPc
<1> QED BY <1>1, <1>2, CommandMoves

LEMMA CommandsStay ==
    ASSUME TasksInv, UNCHANGED <<pc, task>>, main' \in Directory, main'.head >= main.head
    PROVE  /\ pc' \in [Admin -> Pcs]
           /\ task' = [b \in Admin |-> task'[b]]
           /\ \A b \in Admin : TaskOK(pc'[b], task'[b]) /\ HeldOK(pc'[b], task'[b], main'.head)
<1>1. pc \in [Admin -> Pcs]
  BY PcSet DEF TasksInv, TypeOK
<1>2. task = [b \in Admin |-> task[b]]
  BY DEF TasksInv
<1>3. ASSUME NEW b \in Admin PROVE TaskOK(pc[b], task[b]) /\ HeldOK(pc[b], task[b], main'.head)
  <2>1. TaskOK(pc[b], task[b]) /\ HeldOK(pc[b], task[b], main.head)
    BY DEF TasksInv
  <2>2. main.head \in Int /\ main'.head \in Int
    BY DEF TasksInv, TypeOK, Directory
  <2>3. pc[b] \in RevpropPc => task[b].rev \in Int
    BY <2>1, RevOfTask DEF TaskOK
  <2> QED BY <2>1, <2>2, <2>3 DEF HeldOK
<1> QED BY <1>1, <1>2, <1>3

(***************************************************************************)
(* Steps that leave the server and all files but the rows alone.           *)
(***************************************************************************)
LEMMA FilesStay ==
    ASSUME ServerInv, PublishedInv, SameFiles(main', main), UNCHANGED <<server, rev>>
    PROVE  ServerInv' /\ PublishedInv'
BY DEF ServerInv, PublishedInv, SameFiles

LEMMA Integers0 ==
    ASSUME TasksInv
    PROVE  /\ MaxRev \in Nat /\ main.head \in 0..MaxRev /\ copy.head \in 0..MaxRev /\ rev \in 0..MaxRev
           /\ Rev = 1..MaxRev
BY AdminAssumption DEF TasksInv, TypeOK, Directory, Rev

LEMMA FileFacts == \A c \in CommitFile \cup RevpropsFile : c # NoFile /\ c # Torn
BY FileAssumption

LEMMA FilesInit == Init => FilesInv
<1> SUFFICES ASSUME Init PROVE FilesInv
  OBVIOUS
<1>1. PICK p \in Plans : plan = p
  BY DEF Init
<1>2. /\ plan \in [{"first", "last", "revprop", "hotcopy", "verify", "pack", "together", "faults"} -> Nat]
      /\ plan.first <= plan.last /\ plan.last <= MaxRev /\ MaxRev \in Nat
      /\ plan.first \in Nat /\ plan.last \in Nat
  BY <1>1, AdminAssumption
<1>3. plan.first \in 0..MaxRev /\ 1..plan.first \subseteq Rev
  BY <1>2 DEF Rev
<1>4. AsCommitted \in CommitFile
  BY DEF AsCommitted, CommitFile
<1>5. NoDir \in Directory
  BY <1>2 DEF NoDir, Directory
<1>6. /\ main \in Directory
      /\ main.head = plan.first /\ main.deltas = 1..plan.first /\ main.trees = 1..plan.first
      /\ main.commits = [r \in Rev |-> IF r <= plan.first THEN AsCommitted ELSE NoFile]
      /\ main.blobs = [r \in Rev |-> IF r <= plan.first THEN "blob" ELSE NoFile]
  BY <1>3, <1>4, <1>5 DEF Init, Directory
<1>7. TypeOK
  <2>1. Original \in [Name -> Value \cup {NoValue, Given}]
    BY DEF Original, Name
  <2>2. pc \in [Admin -> Pcs]
    BY DEF Init, Pcs
  <2>3. intended \in [Rev -> [Name -> Value \cup {NoValue, Given}]]
    BY <2>1 DEF Init
  <2>4. wal = {} /\ unlinked = FALSE /\ tmp = FALSE /\ server = "down" /\ rev = 0
        /\ clashed = {} /\ beside = FALSE /\ copy \in Directory
    BY <1>5 DEF Init
  <2>5. rev \in 0..MaxRev
    BY <1>2, <2>4
  <2> QED BY <1>6, <2>2, <2>3, <2>4, <2>5, PcSet DEF TypeOK
<1>8. task = [a \in Admin |-> task[a]] /\ \A a \in Admin : pc[a] = "none" /\ task[a] = Idle
  BY DEF Init
<1>9. \A a \in Admin : TaskOK(pc[a], task[a]) /\ HeldOK(pc[a], task[a], main.head)
  BY <1>8 DEF TaskOK, HeldOK, RevpropPc, PackPc
<1>10. TasksInv
  BY <1>2, <1>7, <1>8, <1>9 DEF TasksInv
<1>11. ServerInv
  BY DEF Init, ServerInv
<1>12. PublishedInv
  <2> SUFFICES ASSUME NEW r \in 1..main.head
               PROVE  /\ r \in main.deltas /\ r \in main.trees
                      /\ main.blobs[r] # NoFile /\ main.commits[r] # NoFile
    BY DEF PublishedInv
  <2>1. r \in Rev /\ r <= plan.first
    BY <1>3, <1>6
  <2>2. "blob" # NoFile /\ AsCommitted # NoFile
    BY <1>4, AdminAssumption, FileFacts
  <2>3. r \in main.deltas /\ r \in main.trees
    BY <1>6
  <2>4. main.blobs[r] = "blob" /\ main.commits[r] = AsCommitted
    BY <1>6, <2>1
  <2> QED BY <2>2, <2>3, <2>4
<1> QED BY <1>10, <1>11, <1>12 DEF FilesInv

(***************************************************************************)
(* The server.                                                             *)
(***************************************************************************)
LEMMA FilesServerIdle ==
    ASSUME FilesInv, Start \/ Stop
    PROVE  FilesInv'
<1> USE DEF FilesInv
<1>1. CASE Start
  <2>1. UNCHANGED <<main, copy, tmp, pc, task, plan, intended, clashed>> /\ server' = "idle" /\ rev' = main.head /\ OpenMain
    BY <1>1 DEF Start
  <2>2. wal' \subseteq Rev /\ unlinked' \in BOOLEAN /\ beside' \in BOOLEAN
    BY <2>1, OpenedMain DEF TasksInv, TypeOK
  <2>3. TypeOK'
    BY <2>1, <2>2, Integers0 DEF TasksInv, TypeOK
  <2>4. TasksInv'
    BY <2>1, <2>3 DEF TasksInv
  <2> QED BY <2>1, <2>4 DEF ServerInv, PublishedInv
<1>2. CASE Stop
  <2>1. UNCHANGED <<main, copy, rev, tmp, pc, task, intended, clashed, beside>> /\ server' = "down"
        /\ wal' \in {wal, {}} /\ unlinked' = FALSE /\ plan' = [plan EXCEPT !.faults = @ - 1] /\ plan.faults > 0
    BY <1>2 DEF Stop, history
  <2>2. TypeOK'
    BY <2>1 DEF TasksInv, TypeOK
  <2>3. plan' \in [{"first", "last", "revprop", "hotcopy", "verify", "pack", "together", "faults"} -> Nat]
        /\ plan'.last = plan.last
    BY <2>1 DEF TasksInv
  <2>4. TasksInv'
    BY <2>1, <2>2, <2>3 DEF TasksInv
  <2> QED BY <2>1, <2>4 DEF ServerInv, PublishedInv
<1> QED BY <1>1, <1>2

LEMMA ServerWrites ==
    ASSUME FilesInv, NEW from, NEW to, NEW d \in Directory, d.head = main.head, Files(from, to, d),
           UNCHANGED <<task, intended>>, wal' \subseteq Rev, unlinked' \in BOOLEAN, tmp' \in BOOLEAN,
           to \in {"idle", "tmp", "object", "row", "tree", "commit", "delta"}
    PROVE  /\ TasksInv'
           /\ server = from /\ server' = to /\ main' = d /\ rev' = rev
<1>1. server = from /\ server' = to /\ main' = d /\ UNCHANGED <<copy, rev, pc, plan, clashed, beside>>
  BY DEF Files
<1>2. main.head \in Int
  BY DEF FilesInv, TasksInv, TypeOK, Directory
<1>3. /\ pc' \in [Admin -> Pcs]
      /\ task' = [b \in Admin |-> task'[b]]
      /\ \A b \in Admin : TaskOK(pc'[b], task'[b]) /\ HeldOK(pc'[b], task'[b], main'.head)
  BY <1>1, <1>2, CommandsStay DEF FilesInv
<1>4. TypeOK'
  BY <1>1, <1>3, PcSet DEF FilesInv, TasksInv, TypeOK
<1> QED BY <1>1, <1>3, <1>4 DEF FilesInv, TasksInv

LEMMA FilesObject ==
    ASSUME FilesInv, StoreObject \/ RenameObject
    PROVE  FilesInv'
<1> USE DEF FilesInv
<1>0. main \in Directory /\ wal \subseteq Rev /\ unlinked \in BOOLEAN /\ tmp \in BOOLEAN
      /\ rev \in 0..MaxRev /\ MaxRev \in Nat /\ plan.last \in Nat /\ plan.last <= MaxRev
  BY Integers0 DEF TasksInv, TypeOK
<1>1. CASE StoreObject
  <2>1. rev < plan.last /\ UNCHANGED <<wal, unlinked, task, intended>>
    BY <1>1 DEF StoreObject, dbVars
  <2>2. \/ main.blobs[rev + 1] = NoFile /\ Files("idle", "tmp", main) /\ tmp' = TRUE
        \/ main.blobs[rev + 1] # NoFile /\ Files("idle", "object", main) /\ UNCHANGED tmp
    BY <1>1 DEF StoreObject
  <2>3. /\ TasksInv' /\ main' = main /\ rev' = rev /\ server = "idle"
        /\ server' = "tmp" \/ (server' = "object" /\ main.blobs[rev + 1] # NoFile)
    BY <2>1, <2>2, <1>0, ServerWrites
  <2> QED BY <1>0, <2>1, <2>3 DEF ServerInv, PublishedInv
<1>2. CASE RenameObject
  <2>1. tmp' = FALSE /\ UNCHANGED <<wal, unlinked, task, intended>>
    BY <1>2 DEF RenameObject, dbVars
  <2> DEFINE d == [main EXCEPT !.blobs[rev + 1] = "blob"]
  <2>2. d \in Directory /\ d.head = main.head
    BY <1>0 DEF Directory
  <2>3. CASE tmp /\ Files("tmp", "object", d)
    <3>1. TasksInv' /\ main' = d /\ rev' = rev /\ server = "tmp" /\ server' = "object"
      BY <2>1, <2>2, <2>3, <1>0, ServerWrites
    <3>2. rev = main.head /\ rev < MaxRev /\ rev + 1 \in Rev
      BY <1>0, <3>1 DEF ServerInv, Rev
    <3>3. main'.blobs[rev + 1] = "blob" /\ \A r \in 1..main.head : main'.blobs[r] = main.blobs[r]
      BY <1>0, <3>1, <3>2 DEF Directory
    <3>4. main'.head = main.head /\ main'.commits = main.commits /\ main'.deltas = main.deltas /\ main'.trees = main.trees
      BY <1>0, <3>1 DEF Directory
    <3>5. "blob" # NoFile
      BY AdminAssumption
    <3> QED BY <3>1, <3>2, <3>3, <3>4, <3>5 DEF ServerInv, PublishedInv
  <2>4. CASE ~tmp /\ Files("tmp", "idle", main)
    <3>1. TasksInv' /\ main' = main /\ rev' = rev /\ server = "tmp" /\ server' = "idle"
      BY <2>1, <2>4, <1>0, ServerWrites
    <3> QED BY <3>1 DEF ServerInv, PublishedInv
  <2> QED BY <1>2, <2>3, <2>4 DEF RenameObject
<1> QED BY <1>1, <1>2

LEMMA FilesRowTree ==
    ASSUME FilesInv, InsertRow \/ StoreTree
    PROVE  FilesInv'
<1> USE DEF FilesInv
<1>0. main \in Directory /\ wal \subseteq Rev /\ unlinked \in BOOLEAN /\ tmp \in BOOLEAN
      /\ rev \in 0..MaxRev /\ MaxRev \in Nat
  BY Integers0 DEF TasksInv, TypeOK
<1>1. CASE InsertRow
  <2> DEFINE d == [main EXCEPT !.rows = @ \cup wal \cup {rev + 1}]
  <2>1. UNCHANGED <<unlinked, tmp, task, intended>>
    BY <1>1 DEF InsertRow
  <2>2. \/ Files("object", "row", main) /\ wal' = wal \cup {rev + 1}
        \/ Files("object", "row", d) /\ wal' = {}
    BY <1>1 DEF InsertRow
  <2>3. server = "object" /\ rev + 1 \in Rev
    BY <1>0, <2>2 DEF Files, ServerInv, Rev
  <2>4. d \in Directory /\ SameFiles(d, main) /\ SameFiles(main, main)
    BY <1>0, <2>3 DEF Directory, SameFiles
  <2>5. d.head = main.head
    BY <2>4 DEF SameFiles
  <2> HIDE DEF d
  <2>6. TasksInv' /\ SameFiles(main', main) /\ rev' = rev /\ server' = "row"
    BY <1>0, <2>1, <2>2, <2>3, <2>4, <2>5, ServerWrites
  <2> QED BY <2>3, <2>6 DEF ServerInv, PublishedInv, SameFiles
<1>2. CASE StoreTree
  <2> DEFINE d == [main EXCEPT !.trees = @ \cup {rev + 1}]
  <2>1. Files("row", "tree", d) /\ UNCHANGED <<wal, unlinked, tmp, task, intended>>
    BY <1>2 DEF StoreTree, dbVars
  <2>2. server = "row" /\ rev + 1 \in Rev
    BY <1>0, <2>1 DEF Files, ServerInv, Rev
  <2>3. d \in Directory /\ d.head = main.head
    BY <1>0, <2>2 DEF Directory
  <2>4. TasksInv' /\ main' = d /\ rev' = rev /\ server' = "tree"
    BY <1>0, <2>1, <2>3, ServerWrites
  <2>5. main'.head = main.head /\ main'.commits = main.commits /\ main'.deltas = main.deltas
        /\ main'.blobs = main.blobs /\ main'.trees = main.trees \cup {rev + 1}
    BY <1>0, <2>4 DEF Directory
  <2> QED BY <2>2, <2>4, <2>5 DEF ServerInv, PublishedInv
<1> QED BY <1>1, <1>2

LEMMA FilesCommitDelta ==
    ASSUME FilesInv, StoreCommit \/ StoreDelta
    PROVE  FilesInv'
<1> USE DEF FilesInv
<1>0. main \in Directory /\ wal \subseteq Rev /\ unlinked \in BOOLEAN /\ tmp \in BOOLEAN
      /\ rev \in 0..MaxRev /\ MaxRev \in Nat
  BY Integers0 DEF TasksInv, TypeOK
<1>1. CASE StoreCommit
  <2> DEFINE d == [main EXCEPT !.commits[rev + 1] = AsCommitted]
  <2>1. Files("tree", "commit", d) /\ UNCHANGED <<wal, unlinked, tmp, task, intended>>
    BY <1>1 DEF StoreCommit, dbVars
  <2>2. server = "tree" /\ rev + 1 \in Rev /\ rev = main.head
    BY <1>0, <2>1 DEF Files, ServerInv, Rev
  <2>3. AsCommitted \in CommitFile
    BY DEF AsCommitted, CommitFile
  <2>4. d \in Directory /\ d.head = main.head
    BY <1>0, <2>2, <2>3 DEF Directory
  <2>5. TasksInv' /\ main' = d /\ rev' = rev /\ server' = "commit"
    BY <1>0, <2>1, <2>4, ServerWrites
  <2>6. main'.head = main.head /\ main'.deltas = main.deltas
        /\ main'.blobs = main.blobs /\ main'.trees = main.trees
    BY <1>0, <2>5 DEF Directory
  <2>7. main'.commits[rev + 1] = AsCommitted /\ \A r \in 1..main.head : main'.commits[r] = main.commits[r]
    BY <1>0, <2>2, <2>5 DEF Directory
  <2> QED BY <2>2, <2>5, <2>6, <2>7 DEF ServerInv, PublishedInv
<1>2. CASE StoreDelta
  <2> DEFINE d == [main EXCEPT !.deltas = @ \cup {rev + 1}]
  <2>1. Files("commit", "delta", d) /\ UNCHANGED <<wal, unlinked, tmp, task, intended>>
    BY <1>2 DEF StoreDelta, dbVars
  <2>2. server = "commit" /\ rev + 1 \in Rev
    BY <1>0, <2>1 DEF Files, ServerInv, Rev
  <2>3. d \in Directory /\ d.head = main.head
    BY <1>0, <2>2 DEF Directory
  <2>4. TasksInv' /\ main' = d /\ rev' = rev /\ server' = "delta"
    BY <1>0, <2>1, <2>3, ServerWrites
  <2>5. main'.head = main.head /\ main'.commits = main.commits /\ main'.trees = main.trees
        /\ main'.blobs = main.blobs /\ main'.deltas = main.deltas \cup {rev + 1}
    BY <1>0, <2>4 DEF Directory
  <2> QED BY <2>2, <2>4, <2>5 DEF ServerInv, PublishedInv
<1> QED BY <1>1, <1>2

(***************************************************************************)
(* Steps that mark the commands that watch them: each keeps its kind.      *)
(***************************************************************************)
LEMMA CommandsMarked ==
    ASSUME TasksInv, pc' = pc, task' = [b \in Admin |-> task'[b]],
           main' \in Directory, main'.head >= main.head,
           \A b \in Admin : \/ task'[b] = task[b]
                            \/ pc[b] = "copy" /\ task'[b] \in CopyTask
                            \/ pc[b] = "visit" /\ task'[b] \in VerifyTask
    PROVE  /\ pc' \in [Admin -> Pcs]
           /\ \A b \in Admin : TaskOK(pc'[b], task'[b]) /\ HeldOK(pc'[b], task'[b], main'.head)
<1>1. pc \in [Admin -> Pcs]
  BY PcSet DEF TasksInv, TypeOK
<1>2. ASSUME NEW b \in Admin PROVE TaskOK(pc[b], task'[b]) /\ HeldOK(pc[b], task'[b], main'.head)
  <2>1. TaskOK(pc[b], task[b]) /\ HeldOK(pc[b], task[b], main.head)
    BY DEF TasksInv
  <2>2. main.head \in Int /\ main'.head \in Int
    BY DEF TasksInv, TypeOK, Directory
  <2>3. pc[b] \in RevpropPc => task[b].rev \in Int
    BY <2>1, RevOfTask DEF TaskOK
  <2>4. CASE task'[b] = task[b]
    BY <2>1, <2>2, <2>3, <2>4 DEF HeldOK
  <2>5. CASE pc[b] = "copy" /\ task'[b] \in CopyTask
    BY <2>5 DEF TaskOK, HeldOK, RevpropPc, PackPc
  <2>6. CASE pc[b] = "visit" /\ task'[b] \in VerifyTask
    BY <2>6 DEF TaskOK, HeldOK, RevpropPc, PackPc
  <2> QED BY <2>4, <2>5, <2>6
<1> QED BY <1>1, <1>2

LEMMA FilesPublish ==
    ASSUME FilesInv, SaveHead
    PROVE  FilesInv'
<1> USE DEF FilesInv
<1>0. main \in Directory /\ rev \in 0..MaxRev /\ MaxRev \in Nat
  BY Integers0 DEF TasksInv, TypeOK
<1>1. /\ server = "delta" /\ server' = "idle" /\ rev' = rev + 1
      /\ main' = [main EXCEPT !.head = rev + 1]
      /\ task' = [a \in Admin |-> IF pc[a] = "copy" THEN [task[a] EXCEPT !.published = TRUE]
                                                    ELSE task[a]]
      /\ UNCHANGED <<copy, wal, unlinked, tmp, pc, plan, intended, clashed, beside>>
  BY DEF SaveHead, Published, dbVars, history
<1>2. rev = main.head /\ rev < MaxRev
  BY <1>1 DEF ServerInv
<1>3. rev + 1 \in 0..MaxRev /\ rev + 1 \in Rev
  BY <1>0, <1>2 DEF Rev
<1>4. main' \in Directory /\ main'.head = rev + 1
  BY <1>0, <1>1, <1>3 DEF Directory
<1>5. main'.commits = main.commits /\ main'.deltas = main.deltas /\ main'.trees = main.trees /\ main'.blobs = main.blobs
  BY <1>0, <1>1 DEF Directory
<1>6. task' = [b \in Admin |-> task'[b]]
  BY <1>1
<1>7. ASSUME NEW b \in Admin PROVE task'[b] = task[b] \/ (pc[b] = "copy" /\ task'[b] \in CopyTask)
  <2>1. pc[b] = "copy" => task[b] \in CopyTask
    BY DEF TasksInv, TaskOK
  <2>2. CASE pc[b] = "copy"
    <3>1. task'[b] = [task[b] EXCEPT !.published = TRUE]
      BY <1>1, <2>2
    <3> QED BY <2>1, <2>2, <3>1 DEF CopyTask
  <2>3. CASE pc[b] # "copy"
    <3>1. task' = [a \in Admin |-> IF pc[a] = "copy" THEN [task[a] EXCEPT !.published = TRUE]
                                                     ELSE task[a]]
      BY <1>1
    <3>2. task'[b] = task[b]
      BY <2>3, <3>1, Zenon
    <3> QED BY <3>2
  <2> QED BY <2>2, <2>3
<1>8. pc' \in [Admin -> Pcs] /\ \A b \in Admin : TaskOK(pc'[b], task'[b]) /\ HeldOK(pc'[b], task'[b], main'.head)
  BY <1>0, <1>1, <1>2, <1>4, <1>6, <1>7, CommandsMarked
<1>9. TypeOK'
  BY <1>1, <1>3, <1>4, <1>8, PcSet DEF TasksInv, TypeOK
<1>10. TasksInv'
  BY <1>1, <1>6, <1>8, <1>9 DEF TasksInv
<1>11. PublishedInv'
  <2> SUFFICES ASSUME NEW r \in 1..main'.head
               PROVE  /\ r \in main.deltas /\ r \in main.trees
                      /\ main.blobs[r] # NoFile /\ main.commits[r] # NoFile
    BY <1>5 DEF PublishedInv
  <2>1. r \in 1..main.head \/ r = rev + 1
    BY <1>0, <1>2, <1>4
  <2>2. CASE r \in 1..main.head
    BY <2>2 DEF PublishedInv
  <2>3. CASE r = rev + 1
    <3>1. AsCommitted \in CommitFile
      BY DEF AsCommitted, CommitFile
    <3> QED BY <1>1, <2>3, <3>1, FileFacts DEF ServerInv
  <2> QED BY <2>1, <2>2, <2>3
<1>12. ServerInv'
  BY <1>1, <1>4 DEF ServerInv
<1> QED BY <1>10, <1>11, <1>12

(***************************************************************************)
(* A command that does not change the server or the files, as far as its   *)
(* database may not.                                                       *)
(***************************************************************************)
LEMMA FilesCommand ==
    ASSUME FilesInv, main' \in Directory, SameFiles(main', main), copy' \in Directory,
           wal' \subseteq Rev, unlinked' \in BOOLEAN, tmp' \in BOOLEAN, beside' \in BOOLEAN,
           UNCHANGED <<server, rev>>,
           plan' \in [{"first", "last", "revprop", "hotcopy", "verify", "pack", "together", "faults"} -> Nat],
           plan'.last = plan.last,
           intended' \in [Rev -> [Name -> Value \cup {NoValue, Given}]], clashed' \subseteq Rev,
           pc' \in [Admin -> Pcs], task' = [b \in Admin |-> task'[b]],
           \A b \in Admin : TaskOK(pc'[b], task'[b]) /\ HeldOK(pc'[b], task'[b], main'.head)
    PROVE  FilesInv'
<1>1. TypeOK'
  BY PcSet DEF FilesInv, TasksInv, TypeOK
<1>2. TasksInv'
  BY <1>1 DEF FilesInv, TasksInv
<1> QED BY <1>2, FilesStay DEF FilesInv

LEMMA CommandFacts ==
    ASSUME TasksInv, NEW a \in Admin, NEW kind \in {"revprop", "hotcopy", "verify", "pack"}, Command(a, kind)
    PROVE  /\ plan' \in [{"first", "last", "revprop", "hotcopy", "verify", "pack", "together", "faults"} -> Nat]
           /\ plan'.last = plan.last
           /\ pc[a] = "none"
BY DEF Command, TasksInv

(***************************************************************************)
(* The commands.                                                           *)
(***************************************************************************)
LEMMA Types ==
    ASSUME FilesInv
    PROVE  /\ main \in Directory /\ copy \in Directory /\ wal \subseteq Rev
           /\ unlinked \in BOOLEAN /\ tmp \in BOOLEAN /\ beside \in BOOLEAN
           /\ pc \in [Admin -> Pcs] /\ task = [b \in Admin |-> task[b]]
           /\ intended \in [Rev -> [Name -> Value \cup {NoValue, Given}]] /\ clashed \subseteq Rev
           /\ plan \in [{"first", "last", "revprop", "hotcopy", "verify", "pack", "together", "faults"} -> Nat]
           /\ MaxRev \in Nat /\ main.head \in 0..MaxRev /\ copy.head \in 0..MaxRev /\ rev \in 0..MaxRev
BY PcSet, Integers0 DEF FilesInv, TasksInv, TypeOK

LEMMA TaskKinds ==
    ASSUME FilesInv, NEW a \in Admin
    PROVE  /\ pc[a] \in RevpropPc =>
                 task[a] \in RevpropTask /\ task[a].rev \in Rev /\ task[a].rev <= main.head
                 /\ task[a].command = "revprop"
           /\ pc[a] = "copy" => task[a] \in CopyTask
           /\ pc[a] = "visit" => task[a] \in VerifyTask
           /\ pc[a] \in PackPc => task[a] \in PackTask
           /\ pc[a] = "none" => task[a] = Idle
           /\ TaskOK(pc[a], task[a]) /\ HeldOK(pc[a], task[a], main.head)
<1>1. TaskOK(pc[a], task[a]) /\ HeldOK(pc[a], task[a], main.head)
  BY DEF FilesInv, TasksInv
<1>2. pc[a] \in RevpropPc => task[a] \in RevpropTask /\ task[a].rev <= main.head
  BY <1>1 DEF TaskOK, HeldOK
<1>3. pc[a] \in RevpropPc => task[a].rev \in Rev /\ task[a].command = "revprop"
  BY <1>2 DEF RevpropTask
<1>4. (pc[a] = "copy" => task[a] \in CopyTask) /\ (pc[a] = "visit" => task[a] \in VerifyTask)
      /\ (pc[a] \in PackPc => task[a] \in PackTask) /\ (pc[a] = "none" => task[a] = Idle)
  BY <1>1 DEF TaskOK
<1> QED BY <1>1, <1>2, <1>3, <1>4

LEMMA SameFilesSelf == SameFiles(main, main)
BY DEF SameFiles

LEMMA CommandStep ==
    ASSUME FilesInv, NEW a \in Admin, NEW l \in Pcs, NEW t, Goto(a, l, t),
           TaskOK(l, t), HeldOK(l, t, main.head),
           main' \in Directory, SameFiles(main', main), copy' \in Directory,
           wal' \subseteq Rev, unlinked' \in BOOLEAN, tmp' \in BOOLEAN, beside' \in BOOLEAN,
           UNCHANGED <<server, rev>>,
           plan' \in [{"first", "last", "revprop", "hotcopy", "verify", "pack", "together", "faults"} -> Nat],
           plan'.last = plan.last,
           intended' \in [Rev -> [Name -> Value \cup {NoValue, Given}]], clashed' \subseteq Rev
    PROVE  FilesInv'
<1>1. main'.head = main.head /\ main.head \in Int
  BY Types DEF SameFiles
<1>2. /\ pc' \in [Admin -> Pcs]
      /\ task' = [b \in Admin |-> task'[b]]
      /\ \A b \in Admin : TaskOK(pc'[b], task'[b]) /\ HeldOK(pc'[b], task'[b], main'.head)
  BY <1>1, CommandMoves DEF FilesInv
<1> QED BY <1>2, FilesCommand

LEMMA CommandStays ==
    ASSUME FilesInv, NEW a \in Admin, NEW l \in Pcs, NEW t, Stay(a, l, t), TaskOK(l, t),
           HeldOK(l, t, main.head), UNCHANGED <<Aside, intended>>
    PROVE  FilesInv'
<1>1. Goto(a, l, t)
      /\ UNCHANGED <<main, wal, unlinked, copy, server, rev, tmp, plan, clashed, beside, intended>>
  BY DEF Stay, Aside, dbVars, serverVars
<1>2. SameFiles(main', main)
  BY <1>1, SameFilesSelf
<1> QED BY <1>1, <1>2, Types, CommandStep

LEMMA CommandRefused ==
    ASSUME FilesInv, NEW a \in Admin, Refuse(a), UNCHANGED <<Aside, intended>>
    PROVE  FilesInv'
<1>1. UNCHANGED <<copy, server, rev, tmp, plan, clashed, beside, intended>> /\ CloseMain(a, main)
  BY DEF Refuse, Aside, serverVars
<1>2. Goto(a, "none", Idle) /\ "none" \in Pcs
  BY DEF Refuse, End, Goto, Pcs
<1>3. TaskOK("none", Idle) /\ HeldOK("none", Idle, main.head)
  BY DEF TaskOK, HeldOK, RevpropPc, PackPc
<1>4. main' \in Directory /\ SameFiles(main', main) /\ wal' \subseteq Rev /\ unlinked' \in BOOLEAN
  BY <1>1, Types, ClosedMain
<1> QED BY <1>1, <1>2, <1>3, <1>4, Types, CommandStep

LEMMA FilesChange ==
    ASSUME FilesInv, NEW a \in Admin, NEW op \in {"set", "delete"}, NEW r \in Rev, NEW n \in Name,
           NEW v \in Value \cup {NoValue}, Change(a, op, r, n, v)
    PROVE  FilesInv'
<1> DEFINE l == IF op = "set" /\ n \in InCommit THEN "read" ELSE "hook"
           t == [command |-> "revprop", op |-> op, rev |-> r, name |-> n, value |-> v, held |-> NoFile]
<1>1. Goto(a, l, t) /\ Command(a, "revprop") /\ r <= main.head /\ OpenMain
      /\ UNCHANGED <<main, copy, server, rev, tmp, intended>>
  BY DEF Change, serverVars
<1>2. clashed' = clashed \cup {task[b].rev : b \in {c \in Admin :
                      task[c].command = "revprop" /\ task[c].rev = r}}
  BY DEF Change
<1>3. clashed' \subseteq Rev
  <2>1. clashed \subseteq Rev
    BY Types
  <2> QED BY <1>2, <2>1
<1>4. plan' \in [{"first", "last", "revprop", "hotcopy", "verify", "pack", "together", "faults"} -> Nat]
      /\ plan'.last = plan.last
  BY <1>1, CommandFacts DEF FilesInv
<1>5. t \in RevpropTask /\ l \in {"read", "hook"} /\ (l = "read" => n \in InCommit)
      /\ t.rev = r /\ t.name = n /\ t.held = NoFile
  BY DEF RevpropTask
<1> HIDE DEF l, t
<1>6. TaskOK(l, t) /\ HeldOK(l, t, main.head) /\ l \in Pcs
  BY <1>1, <1>5 DEF TaskOK, HeldOK, RevpropPc, PackPc, Pcs
<1>7. wal' \subseteq Rev /\ unlinked' \in BOOLEAN /\ beside' \in BOOLEAN
  BY <1>1, Types, OpenedMain
<1>8. SameFiles(main', main) /\ main' \in Directory
  BY <1>1, SameFilesSelf, Types
<1> QED BY <1>1, <1>3, <1>4, <1>6, <1>7, <1>8, Types, CommandStep

LEMMA ReadFile ==
    ASSUME FilesInv, NEW r \in Rev
    PROVE  /\ HasCommit(main, r) => main.commits[r] \in CommitFile
           /\ LoadRevprops(r) \in RevpropsFile
           /\ NoRevprops \in RevpropsFile
<1>1. main \in Directory
  BY Types
<1>2. main.commits[r] \in CommitFile \cup {NoFile, Torn} /\ main.revprops[r] \in RevpropsFile \cup {NoFile, Torn}
  BY <1>1 DEF Directory
<1>3. NoRevprops \in RevpropsFile
  BY DEF NoRevprops, RevpropsFile
<1> QED BY <1>2, <1>3 DEF HasCommit, LoadRevprops

\* the content of the file a task changes, with the change made
LEMMA ChangedFile ==
    ASSUME NEW a \in Admin, task[a] \in RevpropTask,
           NEW file \in IF task[a].name \in InCommit THEN CommitFile ELSE RevpropsFile
    PROVE  Changed(a, file) \in (IF task[a].name \in InCommit THEN CommitFile ELSE RevpropsFile)
<1>1. task[a].name \in Name /\ task[a].value \in Value \cup {NoValue}
  BY DEF RevpropTask
<1>2. CASE task[a].name \in InCommit
  <2>1. file \in [InCommit -> Value \cup {NoValue, Given}]
    BY <1>2 DEF CommitFile
  <2> QED BY <1>1, <1>2, <2>1 DEF Changed, CommitFile
<1>3. CASE task[a].name \notin InCommit
  <2>1. file \in [Extra -> Value \cup {NoValue}]
    BY <1>3 DEF RevpropsFile
  <2> QED BY <1>1, <1>3, <2>1 DEF Changed, RevpropsFile
<1> QED BY <1>2, <1>3

LEMMA HeldTask ==
    ASSUME NEW t \in RevpropTask, NEW f \in CommitFile \cup RevpropsFile
    PROVE  LET u == [t EXCEPT !.held = f]
           IN  /\ u \in RevpropTask /\ u.held = f
               /\ u.op = t.op /\ u.rev = t.rev /\ u.name = t.name /\ u.value = t.value
BY DEF RevpropTask

LEMMA RevpropTaskOK ==
    ASSUME FilesInv, NEW t \in RevpropTask, NEW l \in RevpropPc, t.rev <= main.head,
           l # "read",
           l = "hook" => t.name \in InCommit /\ t.held \in CommitFile,
           l \in {"truncate", "write"} => t.held \in (IF t.name \in InCommit THEN CommitFile ELSE RevpropsFile)
    PROVE  TaskOK(l, t) /\ HeldOK(l, t, main.head) /\ l \in Pcs
BY DEF TaskOK, HeldOK, RevpropPc, PackPc, Pcs

LEMMA FilesRead ==
    ASSUME FilesInv, NEW a \in Admin, ReadCommit(a)
    PROVE  FilesInv'
<1>1. pc[a] = "read" /\ UNCHANGED <<Aside, intended>>
  BY DEF ReadCommit
<1>2. task[a] \in RevpropTask /\ task[a].rev \in Rev /\ task[a].rev <= main.head /\ task[a].name \in InCommit
  BY <1>1, TaskKinds DEF RevpropPc, HeldOK
<1>3. CASE HasCommit(main, task[a].rev)
  <2> DEFINE f == main.commits[task[a].rev]
             u == [task[a] EXCEPT !.held = f]
  <2>1. Stay(a, "hook", u)
    BY <1>3 DEF ReadCommit
  <2>2. f \in CommitFile
    BY <1>2, <1>3, ReadFile
  <2>3. u \in RevpropTask /\ u.held = f /\ u.rev = task[a].rev /\ u.name = task[a].name
    BY <1>2, <2>2, HeldTask
  <2> HIDE DEF u, f
  <2>4. "hook" \in RevpropPc
    BY DEF RevpropPc
  <2>5. TaskOK("hook", u) /\ HeldOK("hook", u, main.head) /\ "hook" \in Pcs
    BY <1>2, <2>2, <2>3, <2>4, RevpropTaskOK
  <2> QED BY <1>1, <2>1, <2>5, CommandStays
<1>4. CASE ~HasCommit(main, task[a].rev)
  BY <1>1, <1>4, CommandRefused DEF ReadCommit
<1> QED BY <1>3, <1>4

LEMMA FilesHook ==
    ASSUME FilesInv, NEW a \in Admin, HookAccepts(a) \/ HookRejects(a)
    PROVE  FilesInv'
<1>1. pc[a] = "hook" /\ UNCHANGED <<Aside, intended>>
  BY DEF HookAccepts, HookRejects
<1>2. task[a] \in RevpropTask /\ task[a].rev \in Rev /\ task[a].rev <= main.head
      /\ (task[a].held # NoFile => task[a].name \in InCommit /\ task[a].held \in CommitFile)
  BY <1>1, TaskKinds DEF RevpropPc, HeldOK
<1>3. CASE HookRejects(a)
  BY <1>1, <1>3, CommandRefused DEF HookRejects
<1>4. CASE HookAccepts(a) /\ task[a].held = NoFile
  <2>1. Stay(a, "load", task[a])
    BY <1>4 DEF HookAccepts
  <2>2. TaskOK("load", task[a]) /\ HeldOK("load", task[a], main.head) /\ "load" \in Pcs
    BY <1>2, RevpropTaskOK DEF RevpropPc
  <2> QED BY <1>1, <2>1, <2>2, CommandStays
<1>5. CASE HookAccepts(a) /\ task[a].held # NoFile /\ Refuse(a)
  BY <1>1, <1>5, CommandRefused
<1>6. CASE HookAccepts(a) /\ task[a].held # NoFile /\ ~Refuse(a)
  <2> DEFINE f == Changed(a, task[a].held)
             u == [task[a] EXCEPT !.held = f]
  <2>1. Stay(a, "truncate", [task[a] EXCEPT !.held = Changed(a, @)])
    BY <1>6 DEF HookAccepts
  <2>2. [task[a] EXCEPT !.held = Changed(a, @)] = u
    BY <1>2
  <2>3. f \in CommitFile
    BY <1>2, <1>6, ChangedFile
  <2>4. u \in RevpropTask /\ u.held = f /\ u.rev = task[a].rev /\ u.name = task[a].name
    BY <1>2, <2>3, HeldTask
  <2>5. Stay(a, "truncate", u)
    BY <2>1, <2>2
  <2> HIDE DEF u, f
  <2>6. "truncate" \in RevpropPc
    BY DEF RevpropPc
  <2>7. TaskOK("truncate", u) /\ HeldOK("truncate", u, main.head) /\ "truncate" \in Pcs
    BY <1>2, <1>6, <2>3, <2>4, <2>6, RevpropTaskOK
  <2> QED BY <1>1, <2>5, <2>7, CommandStays
<1> QED BY <1>3, <1>4, <1>5, <1>6

LEMMA FilesLoad ==
    ASSUME FilesInv, NEW a \in Admin, Load(a)
    PROVE  FilesInv'
<1> DEFINE file == IF task[a].name \in InCommit THEN main.commits[task[a].rev] ELSE LoadRevprops(task[a].rev)
<1>1. pc[a] = "load" /\ UNCHANGED <<Aside, intended>>
  BY DEF Load
<1>2. task[a] \in RevpropTask /\ task[a].rev \in Rev /\ task[a].rev <= main.head
  BY <1>1, TaskKinds DEF RevpropPc
<1>3. Refuse(a) \/ (file \notin {NoFile, Torn} /\ Stay(a, "truncate", [task[a] EXCEPT !.held = Changed(a, file)]))
  BY DEF Load
<1>4. CASE Refuse(a)
  BY <1>1, <1>4, CommandRefused
<1>5. CASE file \notin {NoFile, Torn} /\ Stay(a, "truncate", [task[a] EXCEPT !.held = Changed(a, file)])
  <2> DEFINE u == [task[a] EXCEPT !.held = Changed(a, file)]
  <2>1. file \in (IF task[a].name \in InCommit THEN CommitFile ELSE RevpropsFile)
    BY <1>2, <1>5, ReadFile DEF HasCommit
  <2> HIDE DEF file
  <2>2. Changed(a, file) \in (IF task[a].name \in InCommit THEN CommitFile ELSE RevpropsFile)
    BY <1>2, <2>1, ChangedFile
  <2>3. Changed(a, file) \in CommitFile \cup RevpropsFile
    BY <2>2
  <2>4. u \in RevpropTask /\ u.held = Changed(a, file) /\ u.rev = task[a].rev /\ u.name = task[a].name
    BY <1>2, <2>3, HeldTask
  <2>5. Stay(a, "truncate", u)
    BY <1>5
  <2> HIDE DEF u
  <2>6. TaskOK("truncate", u) /\ HeldOK("truncate", u, main.head) /\ "truncate" \in Pcs
    BY <1>2, <2>2, <2>4, RevpropTaskOK DEF RevpropPc
  <2> QED BY <1>1, <2>5, <2>6, CommandStays
<1> QED BY <1>3, <1>4, <1>5

FitsFile(t, content) ==
    IF t.name \in InCommit THEN content \in CommitFile \cup {Torn}
                           ELSE content \in RevpropsFile \cup {NoFile, Torn}

LEMMA PutFacts ==
    ASSUME FilesInv, NEW a \in Admin, pc[a] \in {"truncate", "write"},
           NEW content, FitsFile(task[a], content), NEW d, d = Put(task[a], content)
    PROVE  /\ d \in Directory
           /\ d.head = main.head /\ d.deltas = main.deltas /\ d.trees = main.trees
           /\ d.blobs = main.blobs /\ d.rows = main.rows
           /\ \A r \in Rev : r # task[a].rev =>
                 d.commits[r] = main.commits[r] /\ d.revprops[r] = main.revprops[r]
           /\ task[a].name \in InCommit =>
                 d.commits[task[a].rev] = content /\ d.revprops = main.revprops
           /\ task[a].name \notin InCommit =>
                 d.revprops[task[a].rev] = content /\ d.commits = main.commits
<1>1. main \in Directory /\ task[a].rev \in Rev
  BY Types, TaskKinds DEF RevpropPc
<1>2. CASE task[a].name \in InCommit
  <2>1. d = [main EXCEPT !.commits[task[a].rev] = content] /\ content \in CommitFile \cup {NoFile, Torn}
    BY <1>2 DEF Put, FitsFile
  <2> QED BY <1>1, <1>2, <2>1 DEF Directory
<1>3. CASE task[a].name \notin InCommit
  <2>1. d = [main EXCEPT !.revprops[task[a].rev] = content] /\ content \in RevpropsFile \cup {NoFile, Torn}
    BY <1>3 DEF Put, FitsFile
  <2> QED BY <1>1, <1>3, <2>1 DEF Directory
<1> QED BY <1>2, <1>3

LEMMA FilesPut ==
    ASSUME FilesInv, NEW a \in Admin, pc[a] \in {"truncate", "write"},
           NEW content, FitsFile(task[a], content), SameFiles(main', Put(task[a], content)),
           UNCHANGED <<server, rev>>
    PROVE  ServerInv' /\ PublishedInv'
<1> DEFINE d == Put(task[a], content)
<1>1. /\ main'.head = main.head /\ main'.deltas = main.deltas /\ main'.trees = main.trees
      /\ main'.blobs = main.blobs /\ main'.commits = d.commits
  BY PutFacts DEF SameFiles
<1>2. /\ \A r \in Rev : r # task[a].rev => d.commits[r] = main.commits[r]
      /\ task[a].name \in InCommit => d.commits[task[a].rev] = content
      /\ task[a].name \notin InCommit => d.commits = main.commits
  BY PutFacts
<1>3. task[a].rev \in Rev /\ task[a].rev <= main.head /\ main.head \in 0..MaxRev /\ rev \in 0..MaxRev /\ MaxRev \in Nat
  BY Types, TaskKinds DEF RevpropPc
<1>4. ServerInv'
  <2>1. server \notin {"down", "idle"} => rev + 1 \in Rev /\ rev + 1 # task[a].rev
    BY <1>3 DEF FilesInv, ServerInv, Rev
  <2>2. server \notin {"down", "idle"} => d.commits[rev + 1] = main.commits[rev + 1]
    BY <1>2, <2>1
  <2> QED BY <1>1, <2>2 DEF FilesInv, ServerInv
<1>5. PublishedInv'
  <2>1. content = Torn \/ content \in CommitFile \/ task[a].name \notin InCommit
    BY DEF FitsFile
  <2>2. task[a].name \in InCommit => content # NoFile
    BY <2>1, FileFacts, AdminAssumption
  <2>3. \A r \in 1..main.head : r \in Rev /\ main.commits[r] # NoFile
    BY <1>3 DEF FilesInv, PublishedInv, Rev
  <2>4. \A r \in 1..main.head : d.commits[r] # NoFile
    BY <1>2, <2>2, <2>3
  <2> QED BY <1>1, <2>4 DEF FilesInv, PublishedInv
<1> QED BY <1>4, <1>5

LEMMA FilesFinish ==
    ASSUME FilesInv, NEW a \in Admin, pc[a] \in {"truncate", "write"},
           NEW content, FitsFile(task[a], content), Finish(a, content), UNCHANGED Aside
    PROVE  FilesInv'
<1>1. UNCHANGED <<copy, server, rev, tmp, plan, clashed, beside>>
  BY DEF Aside, serverVars
<1>2. CloseMain(a, Put(task[a], content)) /\ End(a)
      /\ intended' = [intended EXCEPT ![task[a].rev] = Changed(a, @)]
  BY DEF Finish
<1>3. Put(task[a], content) \in Directory /\ Put(task[a], content).head = main.head
  BY PutFacts
<1>4. main' \in Directory /\ SameFiles(main', Put(task[a], content)) /\ wal' \subseteq Rev /\ unlinked' \in BOOLEAN
  BY <1>2, <1>3, Types, ClosedMain
<1>5. main'.head = main.head /\ main.head \in Int
  BY <1>3, <1>4, Types DEF SameFiles
<1>6. /\ pc' \in [Admin -> Pcs]
      /\ task' = [b \in Admin |-> task'[b]]
      /\ \A b \in Admin : TaskOK(pc'[b], task'[b]) /\ HeldOK(pc'[b], task'[b], main'.head)
  BY <1>2, <1>4, <1>5, CommandEnds DEF FilesInv
<1>7. intended' \in [Rev -> [Name -> Value \cup {NoValue, Given}]]
  <2>1. intended \in [Rev -> [Name -> Value \cup {NoValue, Given}]]
    BY Types
  <2>2. task[a].rev \in Rev /\ task[a].name \in Name /\ task[a].value \in Value \cup {NoValue}
    BY TaskKinds DEF RevpropPc, RevpropTask
  <2>3. Changed(a, intended[task[a].rev]) \in [Name -> Value \cup {NoValue, Given}]
    BY <2>1, <2>2 DEF Changed
  <2> QED BY <1>2, <2>1, <2>2, <2>3
<1>8. TypeOK'
  BY <1>1, <1>4, <1>6, <1>7, PcSet DEF FilesInv, TasksInv, TypeOK
<1>9. TasksInv'
  BY <1>1, <1>6, <1>8 DEF FilesInv, TasksInv
<1> QED BY <1>1, <1>4, <1>9, FilesPut DEF FilesInv

LEMMA FilesTruncate ==
    ASSUME FilesInv, NEW a \in Admin, TruncateFile(a)
    PROVE  FilesInv'
<1>1. pc[a] = "truncate" /\ UNCHANGED Aside
  BY DEF TruncateFile
<1>2. task[a] \in RevpropTask /\ task[a].rev <= main.head /\ task[a].rev \in Rev
      /\ task[a].held \in (IF task[a].name \in InCommit THEN CommitFile ELSE RevpropsFile)
  BY <1>1, TaskKinds DEF RevpropPc, HeldOK
<1>3. CASE task[a].held = NoRevprops /\ Finish(a, NoFile)
  <2>1. task[a].name \notin InCommit
    <3>1. DOMAIN NoRevprops = Extra
      BY DEF NoRevprops
    <3>2. task[a].name \in InCommit => DOMAIN task[a].held = InCommit
      BY <1>2 DEF CommitFile
    <3>3. Extra # InCommit
      BY AdminAssumption DEF InCommit
    <3> QED BY <1>3, <3>1, <3>2, <3>3
  <2>2. FitsFile(task[a], NoFile)
    BY <2>1 DEF FitsFile
  <2> QED BY <1>1, <1>3, <2>2, FilesFinish
<1>4. CASE task[a].held # NoRevprops
  <2>1. main' = Put(task[a], Torn) /\ pc' = [pc EXCEPT ![a] = "write"]
        /\ UNCHANGED <<wal, unlinked, intended, copy, server, rev, tmp, plan, clashed, beside>>
    BY <1>4 DEF TruncateFile, Aside, dbVars, serverVars
  <2>2. task' = [b \in Admin |-> IF pc[b] \in {"copy", "visit"} /\ task[a].name \in InCommit
                                 THEN [task[b] EXCEPT !.torn = @ \cup {task[a].rev}] ELSE task[b]]
    BY <1>4 DEF TruncateFile
  <2>3. FitsFile(task[a], Torn)
    BY DEF FitsFile
  <2>4. main' \in Directory /\ main'.head = main.head /\ SameFiles(main', Put(task[a], Torn))
    <3>1. Put(task[a], Torn) \in Directory /\ Put(task[a], Torn).head = main.head
      BY <1>1, <2>3, PutFacts
    <3> QED BY <2>1, <3>1 DEF SameFiles
  <2>5. pc' \in [Admin -> Pcs] /\ pc'[a] = "write" /\ \A b \in Admin \ {a} : pc'[b] = pc[b]
    BY <2>1, Types DEF Pcs, RevpropPc
  <2>6. task' = [b \in Admin |-> task'[b]] /\ task'[a] = task[a]
    BY <1>1, <2>2
  <2>7. ASSUME NEW b \in Admin
        PROVE  TaskOK(pc'[b], task'[b]) /\ HeldOK(pc'[b], task'[b], main'.head)
    <3>1. CASE b = a
      <4>1. TaskOK("write", task[a]) /\ HeldOK("write", task[a], main.head)
        BY <1>2, RevpropTaskOK DEF RevpropPc
      <4> QED BY <2>4, <2>5, <2>6, <3>1, <4>1
    <3>2. CASE b # a /\ task'[b] = task[b]
      BY <2>4, <2>5, <3>2, TaskKinds
    <3>3. CASE b # a /\ task'[b] # task[b]
      <4>1. pc[b] \in {"copy", "visit"} /\ task'[b] = [task[b] EXCEPT !.torn = @ \cup {task[a].rev}]
        BY <2>2, <3>3
      <4>2. pc[b] = "copy" => task'[b] \in CopyTask
        BY <1>2, <4>1, TaskKinds DEF CopyTask
      <4>3. pc[b] = "visit" => task'[b] \in VerifyTask
        BY <1>2, <4>1, TaskKinds DEF VerifyTask
      <4>4. pc'[b] = pc[b]
        BY <2>5, <3>3
      <4> HIDE DEF CopyTask, VerifyTask
      <4> QED BY <4>1, <4>2, <4>3, <4>4 DEF TaskOK, HeldOK, RevpropPc, PackPc
    <3> QED BY <3>1, <3>2, <3>3
  <2>8. TypeOK'
    BY <2>1, <2>4, <2>5, PcSet DEF FilesInv, TasksInv, TypeOK
  <2>9. TasksInv'
    BY <2>1, <2>6, <2>7, <2>8 DEF FilesInv, TasksInv
  <2> QED BY <1>1, <2>1, <2>3, <2>4, <2>9, FilesPut DEF FilesInv
<1> QED BY <1>3, <1>4 DEF TruncateFile

LEMMA FilesWrite ==
    ASSUME FilesInv, NEW a \in Admin, WriteFile(a)
    PROVE  FilesInv'
<1>1. pc[a] = "write" /\ UNCHANGED Aside /\ Finish(a, task[a].held)
  BY DEF WriteFile
<1>2. FitsFile(task[a], task[a].held)
  BY <1>1, TaskKinds DEF HeldOK, FitsFile
<1> QED BY <1>1, <1>2, FilesFinish

(***************************************************************************)
(* hotcopy: the files it walks through, and what is copied of each.        *)
(***************************************************************************)
TreeSlot(r) == <<"objects", "trees", r>>

LEMMA SlotKinds ==
    \A s \in Slot : \/ s = HeadSlot \/ s = RowsSlot
                    \/ \E r \in Rev : s = CommitSlot(r) \/ s = DeltaSlot(r) \/ s = BlobSlot(r) \/ s = TreeSlot(r)
<1> SUFFICES ASSUME NEW s \in Slot
             PROVE  \/ s = HeadSlot \/ s = RowsSlot
                    \/ \E r \in Rev : s = CommitSlot(r) \/ s = DeltaSlot(r) \/ s = BlobSlot(r) \/ s = TreeSlot(r)
  OBVIOUS
<1>1. CASE s \in {<<"refs", "head", 0>>, <<"tree.sqlite", "rows", 0>>}
  BY <1>1 DEF HeadSlot, RowsSlot
<1>2. CASE s \in {"commits"} \X {"commits"} \X Rev
  <2>1. s[3] \in Rev /\ s = CommitSlot(s[3])
    BY <1>2 DEF CommitSlot
  <2> QED BY <2>1
<1>3. CASE s \in {"tree_deltas"} \X {"deltas"} \X Rev
  <2>1. s[3] \in Rev /\ s = DeltaSlot(s[3])
    BY <1>3 DEF DeltaSlot
  <2> QED BY <2>1
<1>4. CASE s \in {"objects"} \X {"trees", "blobs"} \X Rev
  <2>1. s[3] \in Rev /\ (s = TreeSlot(s[3]) \/ s = BlobSlot(s[3]))
    BY <1>4 DEF TreeSlot, BlobSlot
  <2> QED BY <2>1
<1> QED BY <1>1, <1>2, <1>3, <1>4 DEF Slot

LEMMA SlotsIn ==
    /\ HeadSlot \in Slot /\ RowsSlot \in Slot
    /\ \A r \in Rev : CommitSlot(r) \in Slot /\ DeltaSlot(r) \in Slot /\ BlobSlot(r) \in Slot /\ TreeSlot(r) \in Slot
BY DEF HeadSlot, RowsSlot, CommitSlot, DeltaSlot, BlobSlot, TreeSlot, Slot

LEMMA SlotsDiffer ==
    /\ HeadSlot # RowsSlot
    /\ \A r, q \in Rev :
       /\ HeadSlot # CommitSlot(r) /\ HeadSlot # DeltaSlot(r)
       /\ HeadSlot # BlobSlot(r) /\ HeadSlot # TreeSlot(r)
       /\ RowsSlot # CommitSlot(r) /\ RowsSlot # DeltaSlot(r) /\ RowsSlot # BlobSlot(r) /\ RowsSlot # TreeSlot(r)
       /\ CommitSlot(r) # DeltaSlot(q) /\ CommitSlot(r) # BlobSlot(q) /\ CommitSlot(r) # TreeSlot(q)
       /\ DeltaSlot(r) # BlobSlot(q) /\ DeltaSlot(r) # TreeSlot(q) /\ BlobSlot(r) # TreeSlot(q)
       /\ (CommitSlot(r) = CommitSlot(q) => r = q) /\ (DeltaSlot(r) = DeltaSlot(q) => r = q)
       /\ (BlobSlot(r) = BlobSlot(q) => r = q) /\ (TreeSlot(r) = TreeSlot(q) => r = q)
BY DEF HeadSlot, RowsSlot, CommitSlot, DeltaSlot, BlobSlot, TreeSlot

LEMMA SlotNames ==
    /\ HeadSlot[2] = "head" /\ RowsSlot[2] = "rows"
    /\ \A r \in Rev : /\ CommitSlot(r)[2] = "commits" /\ CommitSlot(r)[3] = r
                      /\ DeltaSlot(r)[2] = "deltas" /\ DeltaSlot(r)[3] = r
                      /\ BlobSlot(r)[2] = "blobs" /\ BlobSlot(r)[3] = r
                      /\ TreeSlot(r)[2] = "trees" /\ TreeSlot(r)[3] = r
BY DEF HeadSlot, RowsSlot, CommitSlot, DeltaSlot, BlobSlot, TreeSlot

LEMMA CopiedForms ==
    /\ Copied(HeadSlot) = [copy EXCEPT !.head = main.head]
    /\ Copied(RowsSlot) = [copy EXCEPT !.rows = main.rows]
    /\ \A r \in Rev :
          /\ Copied(CommitSlot(r)) = [copy EXCEPT !.commits[r] = main.commits[r]]
          /\ Copied(DeltaSlot(r)) = [copy EXCEPT !.deltas = @ \cup ({r} \cap main.deltas)]
          /\ Copied(BlobSlot(r)) = [copy EXCEPT !.blobs[r] = main.blobs[r]]
          /\ Copied(TreeSlot(r)) = [copy EXCEPT !.trees = @ \cup ({r} \cap main.trees)]
BY SlotNames, Zenon DEF Copied

IsCopied(d, s) ==
    /\ d \in Directory
    /\ d.head = (IF s = HeadSlot THEN main.head ELSE copy.head)
    /\ d.rows = (IF s = RowsSlot THEN main.rows ELSE copy.rows)
    /\ \A r \in Rev :
          /\ d.commits[r] = (IF s = CommitSlot(r) THEN main.commits[r] ELSE copy.commits[r])
          /\ d.blobs[r] = (IF s = BlobSlot(r) THEN main.blobs[r] ELSE copy.blobs[r])
          /\ r \in d.deltas <=> (r \in copy.deltas \/ (s = DeltaSlot(r) /\ r \in main.deltas))

LEMMA CopiedFacts ==
    ASSUME main \in Directory, copy \in Directory, NEW s \in Slot
    PROVE  IsCopied(Copied(s), s)
<1> DEFINE d == Copied(s)
<1> HIDE DEF d
<1>1. ASSUME s = HeadSlot PROVE IsCopied(d, s)
  <2>1. d = [copy EXCEPT !.head = main.head]
    BY <1>1, CopiedForms DEF d
  <2>2. /\ d \in Directory /\ d.head = main.head /\ d.rows = copy.rows /\ d.commits = copy.commits
        /\ d.blobs = copy.blobs /\ d.deltas = copy.deltas
    BY <2>1 DEF Directory
  <2> QED BY <1>1, <2>2, SlotsDiffer DEF IsCopied
<1>2. ASSUME s = RowsSlot PROVE IsCopied(d, s)
  <2>1. d = [copy EXCEPT !.rows = main.rows]
    BY <1>2, CopiedForms DEF d
  <2>2. /\ d \in Directory /\ d.head = copy.head /\ d.rows = main.rows /\ d.commits = copy.commits
        /\ d.blobs = copy.blobs /\ d.deltas = copy.deltas
    BY <2>1 DEF Directory
  <2> QED BY <1>2, <2>2, SlotsDiffer DEF IsCopied
<1>3. ASSUME NEW q \in Rev, s = CommitSlot(q) PROVE IsCopied(d, s)
  <2>1. d = [copy EXCEPT !.commits[q] = main.commits[q]]
    BY <1>3, CopiedForms DEF d
  <2>2. /\ d \in Directory /\ d.head = copy.head /\ d.rows = copy.rows
        /\ d.blobs = copy.blobs /\ d.deltas = copy.deltas
    BY <2>1 DEF Directory
  <2>3. \A r \in Rev : d.commits[r] = IF r = q THEN main.commits[r] ELSE copy.commits[r]
    BY <2>1 DEF Directory
  <2>9. s # HeadSlot /\ s # RowsSlot
    BY <1>3, SlotsDiffer
  <2> QED BY <1>3, <2>2, <2>3, <2>9, SlotsDiffer DEF IsCopied
<1>4. ASSUME NEW q \in Rev, s = BlobSlot(q) PROVE IsCopied(d, s)
  <2>1. d = [copy EXCEPT !.blobs[q] = main.blobs[q]]
    BY <1>4, CopiedForms DEF d
  <2>2. /\ d \in Directory /\ d.head = copy.head /\ d.rows = copy.rows
        /\ d.commits = copy.commits /\ d.deltas = copy.deltas
    BY <2>1 DEF Directory
  <2>3. \A r \in Rev : d.blobs[r] = IF r = q THEN main.blobs[r] ELSE copy.blobs[r]
    BY <2>1 DEF Directory
  <2>9. s # HeadSlot /\ s # RowsSlot
    BY <1>4, SlotsDiffer
  <2> QED BY <1>4, <2>2, <2>3, <2>9, SlotsDiffer DEF IsCopied
<1>5. ASSUME NEW q \in Rev, s = DeltaSlot(q) PROVE IsCopied(d, s)
  <2>1. d = [copy EXCEPT !.deltas = @ \cup ({q} \cap main.deltas)]
    BY <1>5, CopiedForms DEF d
  <2>2. /\ d \in Directory /\ d.head = copy.head /\ d.rows = copy.rows
        /\ d.commits = copy.commits /\ d.blobs = copy.blobs
    BY <2>1 DEF Directory
  <2>3. \A r \in Rev : r \in d.deltas <=> r \in copy.deltas \/ (r = q /\ r \in main.deltas)
    BY <2>1 DEF Directory
  <2>9. s # HeadSlot /\ s # RowsSlot
    BY <1>5, SlotsDiffer
  <2> QED BY <1>5, <2>2, <2>3, <2>9, SlotsDiffer DEF IsCopied
<1>6. ASSUME NEW q \in Rev, s = TreeSlot(q) PROVE IsCopied(d, s)
  <2>1. d = [copy EXCEPT !.trees = @ \cup ({q} \cap main.trees)]
    BY <1>6, CopiedForms DEF d
  <2>2. /\ d \in Directory /\ d.head = copy.head /\ d.rows = copy.rows
        /\ d.commits = copy.commits /\ d.blobs = copy.blobs
    BY <2>1 DEF Directory
  <2>3. d.deltas = copy.deltas
    BY <2>1 DEF Directory
  <2>9. s # HeadSlot /\ s # RowsSlot
    BY <1>6, SlotsDiffer
  <2> QED BY <1>6, <2>2, <2>3, <2>9, SlotsDiffer DEF IsCopied
<1> QED BY <1>1, <1>2, <1>3, <1>4, <1>5, <1>6, SlotKinds DEF d

LEMMA CopiedTrees ==
    ASSUME copy \in Directory, NEW s \in Slot
    PROVE  copy.trees \subseteq Copied(s).trees
<1> DEFINE d == Copied(s)
<1>1. CASE \E q \in Rev : s = TreeSlot(q)
  <2>1. PICK q \in Rev : s = TreeSlot(q)
    BY <1>1
  <2>2. Copied(s) = [copy EXCEPT !.trees = @ \cup ({q} \cap main.trees)]
    BY <2>1, CopiedForms
  <2> QED BY <2>2 DEF Directory
<1>2. CASE s = HeadSlot \/ s = RowsSlot
  <2>1. d = [copy EXCEPT !.head = main.head] \/ d = [copy EXCEPT !.rows = main.rows]
    BY <1>2, CopiedForms
  <2> HIDE DEF d
  <2>2. d.trees = copy.trees
    BY <2>1 DEF Directory
  <2> QED BY <2>2 DEF d
<1>3. CASE \E q \in Rev : s = CommitSlot(q) \/ s = BlobSlot(q) \/ s = DeltaSlot(q)
  <2>1. PICK q \in Rev : s = CommitSlot(q) \/ s = BlobSlot(q) \/ s = DeltaSlot(q)
    BY <1>3
  <2>2. \/ d = [copy EXCEPT !.commits[q] = main.commits[q]]
        \/ d = [copy EXCEPT !.blobs[q] = main.blobs[q]]
        \/ d = [copy EXCEPT !.deltas = @ \cup ({q} \cap main.deltas)]
    BY <2>1, CopiedForms
  <2> HIDE DEF d
  <2>3. d.trees = copy.trees
    BY <2>2 DEF Directory
  <2> QED BY <2>3 DEF d
<1> QED BY <1>1, <1>2, <1>3, SlotKinds

LEMMA CopyFileTask ==
    ASSUME FilesInv, NEW a \in Admin, NEW s \in Slot, CopyFile(a, s)
    PROVE  /\ pc[a] = "copy" /\ s \in task[a].todo /\ task[a] \in CopyTask
           /\ task'[a] \in CopyTask
           /\ task'[a].todo = task[a].todo \ {s}
           /\ task'[a].headFirst = (IF s = HeadSlot THEN task[a].todo = Slot ELSE task[a].headFirst)
           /\ task'[a].skipped = (IF s = RowsSlot THEN wal # {} ELSE task[a].skipped)
           /\ task'[a].published = task[a].published /\ task'[a].torn = task[a].torn
           /\ task' = [b \in Admin |-> task'[b]]
           /\ \A b \in Admin \ {a} : task'[b] = task[b]
<1> DEFINE h == IF s[2] = "head" THEN task[a].todo = Slot ELSE task[a].headFirst
           k == IF s[2] = "rows" THEN wal # {} ELSE task[a].skipped
<1>1. pc[a] = "copy" /\ s \in task[a].todo
  BY DEF CopyFile
<1>2. task[a] \in CopyTask
  BY <1>1, TaskKinds
<1>3. task = [b \in Admin |-> task[b]]
  BY Types
<1>4. task' = [task EXCEPT ![a].todo = @ \ {s}, ![a].headFirst = IF s[2] = "head" THEN task[a].todo = Slot ELSE @,
                           ![a].skipped = IF s[2] = "rows" THEN wal # {} ELSE @]
  BY DEF CopyFile
<1>5. (s[2] = "head") = (s = HeadSlot) /\ (s[2] = "rows") = (s = RowsSlot)
  BY SlotKinds, SlotNames
<1>6. task' = [task EXCEPT ![a] = [task[a] EXCEPT !.todo = @ \ {s}, !.headFirst = h, !.skipped = k]]
  BY <1>2, <1>3, <1>4 DEF CopyTask
<1>7. h \in BOOLEAN /\ k \in BOOLEAN
  BY <1>2 DEF CopyTask
<1>8. h = (IF s = HeadSlot THEN task[a].todo = Slot ELSE task[a].headFirst)
      /\ k = (IF s = RowsSlot THEN wal # {} ELSE task[a].skipped)
  BY <1>5
<1> HIDE DEF h, k
<1>9. task'[a] = [task[a] EXCEPT !.todo = @ \ {s}, !.headFirst = h, !.skipped = k]
      /\ task' = [b \in Admin |-> task'[b]]
      /\ \A b \in Admin \ {a} : task'[b] = task[b]
  BY <1>3, <1>6
<1>10. /\ task'[a] \in CopyTask
       /\ task'[a].todo = task[a].todo \ {s} /\ task'[a].headFirst = h /\ task'[a].skipped = k
       /\ task'[a].published = task[a].published /\ task'[a].torn = task[a].torn
  BY <1>2, <1>7, <1>9 DEF CopyTask
<1> QED BY <1>1, <1>2, <1>8, <1>9, <1>10

LEMMA FilesCopyFile ==
    ASSUME FilesInv, NEW a \in Admin, NEW s \in Slot, CopyFile(a, s)
    PROVE  FilesInv'
<1>1. copy' = Copied(s) /\ UNCHANGED <<main, wal, unlinked, server, rev, tmp, pc, plan, intended, clashed, beside>>
  BY DEF CopyFile, dbVars, serverVars, history
<1>2. copy' \in Directory
  BY <1>1, Types, CopiedFacts DEF IsCopied
<1>3. SameFiles(main', main) /\ main' \in Directory /\ main.head \in Int
  BY <1>1, SameFilesSelf, Types
<1>4. task' = [b \in Admin |-> task'[b]] /\ \A b \in Admin : task'[b] = task[b] \/ (pc[b] = "copy" /\ task'[b] \in CopyTask)
  BY CopyFileTask
<1>5. pc' \in [Admin -> Pcs] /\ \A b \in Admin : TaskOK(pc'[b], task'[b]) /\ HeldOK(pc'[b], task'[b], main'.head)
  BY <1>1, <1>3, <1>4, CommandsMarked DEF FilesInv
<1> QED BY <1>1, <1>2, <1>3, <1>4, <1>5, Types, FilesCommand

LEMMA HotCopyTask ==
    ASSUME FilesInv, NEW a \in Admin, HotCopy(a)
    PROVE  /\ pc[a] = "none" /\ pc' \in [Admin -> Pcs]
           /\ pc'[a] = "copy" /\ \A b \in Admin \ {a} : pc'[b] = pc[b] /\ pc[b] # "copy"
           /\ task' = [b \in Admin |-> task'[b]]
           /\ task'[a] \in CopyTask
           /\ task'[a].todo = Slot /\ ~task'[a].headFirst /\ ~task'[a].published
           /\ ~task'[a].skipped /\ task'[a].torn = {r \in Rev : main.commits[r] = Torn}
           /\ \A b \in Admin \ {a} :
                 IF pc[b] = "visit"
                 THEN task'[b] \in VerifyTask /\ task'[b] = [task[b] EXCEPT !.replaced = (task[b].place = "copy")]
                 ELSE task'[b] = task[b]
<1> DEFINE t == [command |-> "hotcopy", todo |-> Slot, headFirst |-> FALSE, published |-> FALSE, skipped |-> FALSE,
                 torn |-> {r \in Rev : main.commits[r] = Torn}]
<1>1. pc[a] = "none" /\ \A b \in Admin : pc[b] # "copy"
  BY DEF HotCopy, Command
<1>2. task' = [b \in Admin |-> IF b = a THEN t
                               ELSE IF pc[b] = "visit" THEN [task[b] EXCEPT !.replaced = (task[b].place = "copy")]
                               ELSE task[b]]
  BY DEF HotCopy
<1>3. pc' = [pc EXCEPT ![a] = "copy"]
  BY DEF HotCopy
<1>4. t \in CopyTask /\ t.todo = Slot /\ t.headFirst = FALSE /\ t.published = FALSE /\ t.skipped = FALSE
      /\ t.torn = {r \in Rev : main.commits[r] = Torn}
  BY DEF CopyTask
<1> HIDE DEF t
<1>5. pc' \in [Admin -> Pcs] /\ pc'[a] = "copy" /\ \A b \in Admin \ {a} : pc'[b] = pc[b]
  BY <1>3, Types DEF Pcs
<1>6. task' = [b \in Admin |-> task'[b]] /\ task'[a] = t
  BY <1>2
<1>7. ASSUME NEW b \in Admin \ {a}
      PROVE  IF pc[b] = "visit"
             THEN task'[b] \in VerifyTask /\ task'[b] = [task[b] EXCEPT !.replaced = (task[b].place = "copy")]
             ELSE task'[b] = task[b]
  <2>1. task'[b] = IF pc[b] = "visit" THEN [task[b] EXCEPT !.replaced = (task[b].place = "copy")]
                   ELSE task[b]
    BY <1>2
  <2>2. pc[b] = "visit" => task[b] \in VerifyTask
    BY TaskKinds
  <2>3. pc[b] = "visit" => [task[b] EXCEPT !.replaced = (task[b].place = "copy")] \in VerifyTask
    BY <2>2 DEF VerifyTask
  <2> QED BY <2>1, <2>3
<1> QED BY <1>1, <1>4, <1>5, <1>6, <1>7

LEMMA FilesHotCopy ==
    ASSUME FilesInv, NEW a \in Admin, HotCopy(a)
    PROVE  FilesInv'
<1>1. copy' = NoDir /\ Command(a, "hotcopy")
      /\ UNCHANGED <<main, wal, unlinked, server, rev, tmp, intended, clashed, beside>>
  BY DEF HotCopy, dbVars, serverVars, history
<1>2. copy' \in Directory
  BY <1>1, Types DEF NoDir, Directory
<1>3. SameFiles(main', main) /\ main' \in Directory
  BY <1>1, SameFilesSelf, Types
<1>4. plan' \in [{"first", "last", "revprop", "hotcopy", "verify", "pack", "together", "faults"} -> Nat]
      /\ plan'.last = plan.last
  BY <1>1, CommandFacts DEF FilesInv
<1>5. ASSUME NEW b \in Admin PROVE TaskOK(pc'[b], task'[b]) /\ HeldOK(pc'[b], task'[b], main'.head)
  <2>1. CASE b = a
    BY <2>1, HotCopyTask DEF TaskOK, HeldOK, RevpropPc, PackPc
  <2>2. CASE b # a /\ pc[b] = "visit"
    <3>1. pc'[b] = "visit" /\ task'[b] \in VerifyTask
      BY <2>2, HotCopyTask
    <3> QED BY <3>1 DEF TaskOK, HeldOK, RevpropPc, PackPc
  <2>3. CASE b # a /\ pc[b] # "visit"
    <3>1. pc'[b] = pc[b] /\ task'[b] = task[b]
      BY <2>3, HotCopyTask
    <3> QED BY <1>1, <3>1, TaskKinds
  <2> QED BY <2>1, <2>2, <2>3
<1>6. pc' \in [Admin -> Pcs] /\ task' = [b \in Admin |-> task'[b]]
  BY HotCopyTask
<1> QED BY <1>1, <1>2, <1>3, <1>4, <1>5, <1>6, Types, FilesCommand

LEMMA FilledDir ==
    ASSUME NEW d \in Directory
    PROVE  LET e == [d EXCEPT !.rows = Filled(d, @)]
           IN  e \in Directory /\ SameFiles(e, d) /\ e.rows = Filled(d, d.rows)
<1>1. Filled(d, d.rows) \subseteq Rev
  BY FilledRows DEF Directory
<1> QED BY <1>1 DEF Directory, SameFiles

LEMMA EndCopyMain ==
    ASSUME FilesInv, NEW a \in Admin, EndCopy(a)
    PROVE  /\ main' \in Directory /\ SameFiles(main', main)
           /\ wal' \subseteq Rev /\ unlinked' \in BOOLEAN /\ (unlinked' => unlinked)
           /\ main.rows \cup wal \subseteq main'.rows \cup wal'
           /\ copy' \in Directory /\ SameFiles(copy', copy) /\ copy'.rows = Filled(copy, copy.rows)
<1> DEFINE e == [main EXCEPT !.rows = @ \cup (Filled(main, @ \cup wal) \ wal)]
<1>1. main \in Directory /\ copy \in Directory /\ wal \subseteq Rev /\ main.rows \subseteq Rev
  BY Types DEF Directory
<1>2. Filled(main, main.rows \cup wal) \subseteq Rev
  BY <1>1, FilledRows
<1>3. e \in Directory /\ SameFiles(e, main) /\ main.rows \subseteq e.rows
  BY <1>1, <1>2 DEF Directory, SameFiles
<1>4. CloseMain(a, e) /\ copy' = [copy EXCEPT !.rows = Filled(copy, @)]
  BY DEF EndCopy
<1> HIDE DEF e
<1>5. /\ main' \in Directory /\ SameFiles(main', e)
      /\ wal' \subseteq Rev /\ unlinked' \in BOOLEAN /\ (unlinked' => unlinked)
      /\ main'.rows \cup wal' = e.rows \cup wal
  BY <1>1, <1>3, <1>4, Types, ClosedMain
<1>6. SameFiles(main', main)
  BY <1>3, <1>5 DEF SameFiles
<1>7. copy' \in Directory /\ SameFiles(copy', copy) /\ copy'.rows = Filled(copy, copy.rows)
  BY <1>1, <1>4, FilledDir
<1> QED BY <1>3, <1>5, <1>6, <1>7

LEMMA FilesEndCopy ==
    ASSUME FilesInv, NEW a \in Admin, EndCopy(a)
    PROVE  FilesInv'
<1>1. beside' = (beside \/ Packing) /\ End(a) /\ UNCHANGED <<server, rev, tmp, plan, intended, clashed>>
  BY DEF EndCopy, serverVars
<1>2. Goto(a, "none", Idle) /\ "none" \in Pcs
  BY <1>1 DEF End, Goto, Pcs
<1>3. TaskOK("none", Idle) /\ HeldOK("none", Idle, main.head)
  BY DEF TaskOK, HeldOK, RevpropPc, PackPc
<1>4. beside' \in BOOLEAN
  BY <1>1
<1> QED BY <1>1, <1>2, <1>3, <1>4, EndCopyMain, Types, CommandStep

Started(t, p, from) ==
    /\ t.place = p /\ t.from = from /\ t.next = from
    /\ t.upto <= (IF p = "main" THEN main.head ELSE copy.head)
    /\ t.errors = FALSE /\ t.cached = {} /\ t.torn = {r \in Rev : main.commits[r] = Torn}

LEMMA VerifyTaskStarts ==
    ASSUME FilesInv, NEW a \in Admin, NEW p \in {"main", "copy"}, NEW from \in Rev, NEW to \in Rev, Verify(a, p, from, to)
    PROVE  /\ pc[a] = "none" /\ pc' = [pc EXCEPT ![a] = "visit"]
           /\ \E t \in VerifyTask : Goto(a, "visit", t) /\ Started(t, p, from)
<1> DEFINE u == IF to < Place(p).head THEN to ELSE Place(p).head
           torn == {r \in Rev : main.commits[r] = Torn}
           t == [command |-> "verify", place |-> p, from |-> from, next |-> from, upto |-> u,
                 cached |-> {}, missing |-> {}, errors |-> FALSE, warned |-> FALSE,
                 replaced |-> FALSE, torn |-> torn]
<1>1. u \in 0..MaxRev /\ u <= (IF p = "main" THEN main.head ELSE copy.head)
  BY Types DEF Place, Rev
<1>2. Goto(a, "visit", t) /\ pc[a] = "none"
  BY DEF Verify, Command
<1>5. from \in Nat \ {0} /\ torn \subseteq Rev
  BY Types DEF Rev
<1> HIDE DEF u, torn
<1>6. t.place = p /\ t.from = from /\ t.next = from /\ t.upto = u /\ t.errors = FALSE
      /\ t.cached = {} /\ t.torn = torn
  OBVIOUS
<1>3. t \in VerifyTask
  BY <1>1, <1>5 DEF VerifyTask
<1>4. pc' = [pc EXCEPT ![a] = "visit"]
  BY <1>2 DEF Goto
<1> HIDE DEF t
<1>7. Started(t, p, from)
  BY <1>1, <1>6 DEF Started, torn
<1> QED BY <1>2, <1>3, <1>4, <1>7

LEMMA FilesVerify ==
    ASSUME FilesInv, NEW a \in Admin, NEW p \in {"main", "copy"}, NEW from \in Rev, NEW to \in Rev, Verify(a, p, from, to)
    PROVE  FilesInv'
<1>1. PICK t \in VerifyTask : Goto(a, "visit", t)
  BY VerifyTaskStarts
<1>2. TaskOK("visit", t) /\ HeldOK("visit", t, main.head) /\ "visit" \in Pcs
  BY DEF TaskOK, HeldOK, RevpropPc, PackPc, Pcs
<1>3. Command(a, "verify") /\ UNCHANGED <<main, server, rev, tmp, intended, clashed>>
  BY DEF Verify, serverVars
<1>4. plan' \in [{"first", "last", "revprop", "hotcopy", "verify", "pack", "together", "faults"} -> Nat]
      /\ plan'.last = plan.last
  BY <1>3, CommandFacts DEF FilesInv
<1>5. main' \in Directory /\ SameFiles(main', main)
  BY <1>3, SameFilesSelf, Types
<1>6. copy' \in Directory /\ wal' \subseteq Rev /\ unlinked' \in BOOLEAN /\ beside' \in BOOLEAN
  <2>1. CASE OpenMain /\ UNCHANGED copy
    BY <2>1, Types, OpenedMain
  <2>2. CASE copy' = [copy EXCEPT !.rows = Filled(copy, @)] /\ UNCHANGED <<dbVars, beside>>
    BY <2>2, Types, FilledDir DEF dbVars
  <2> QED BY <2>1, <2>2 DEF Verify
<1> QED BY <1>1, <1>2, <1>3, <1>4, <1>5, <1>6, Types, CommandStep

LEMMA MissingIn ==
    ASSUME NEW d, NEW r \in Rev
    PROVE  MissingBlobs(d, r) \subseteq Rev
<1>1. MaxRev \in Nat /\ 1..r \subseteq Rev
  BY AdminAssumption DEF Rev
<1> QED BY <1>1 DEF MissingBlobs

LEMMA VisitRevTask ==
    ASSUME FilesInv, NEW a \in Admin, VisitRev(a)
    PROVE  LET r == task[a].next
               d == Place(task[a].place)
               found == HasCommit(d, r) /\ TreeFound(d, r, task[a].cached)
           IN  /\ pc[a] = "visit" /\ task[a] \in VerifyTask /\ r \in Rev /\ r <= task[a].upto
               /\ task'[a] \in VerifyTask
               /\ task'[a].next = r + 1
               /\ task'[a].cached = (IF found THEN task[a].cached \cup {r} ELSE task[a].cached)
               /\ task'[a].errors = (task[a].errors \/ ~found \/ MissingBlobs(d, r) # {})
               /\ task'[a].warned = (task[a].warned \/ Warns(d, r))
               /\ task'[a].place = task[a].place /\ task'[a].from = task[a].from /\ task'[a].upto = task[a].upto
               /\ task'[a].replaced = task[a].replaced /\ task'[a].torn = task[a].torn
               /\ task' = [b \in Admin |-> task'[b]]
               /\ \A b \in Admin \ {a} : task'[b] = task[b]
<1> DEFINE r == task[a].next
           d == Place(task[a].place)
           found == HasCommit(d, r) /\ TreeFound(d, r, task[a].cached)
           ca == IF found THEN task[a].cached \cup {r} ELSE task[a].cached
           mi == IF found THEN task[a].missing \cup MissingBlobs(d, r) ELSE task[a].missing
           er == task[a].errors \/ ~found \/ MissingBlobs(d, r) # {}
           wa == task[a].warned \/ Warns(d, r)
           t == [task[a] EXCEPT !.next = r + 1, !.cached = ca, !.missing = mi, !.errors = er, !.warned = wa]
<1>1. pc[a] = "visit" /\ r <= task[a].upto
  BY DEF VisitRev
<1>2. task[a] \in VerifyTask /\ task = [b \in Admin |-> task[b]]
  BY <1>1, TaskKinds, Types
<1>3. r \in Rev /\ MaxRev \in Nat
  <2>1. r \in Nat \ {0} /\ task[a].upto \in 0..MaxRev
    BY <1>2 DEF VerifyTask
  <2> QED BY <1>1, <2>1, Types DEF Rev
<1>4. task' = [task EXCEPT ![a].next = r + 1,
                           ![a].cached = IF found THEN @ \cup {r} ELSE @,
                           ![a].missing = IF found THEN @ \cup MissingBlobs(d, r) ELSE @,
                           ![a].errors = @ \/ ~found \/ MissingBlobs(d, r) # {},
                           ![a].warned = @ \/ Warns(d, r)]
  BY DEF VisitRev
<1>5. MissingBlobs(d, r) \subseteq Rev
  BY <1>3, MissingIn
<1> HIDE DEF d, found
<1>6. task' = [task EXCEPT ![a] = t]
  BY <1>2, <1>4 DEF VerifyTask
<1>7. ca \subseteq Rev /\ mi \subseteq Rev /\ er \in BOOLEAN /\ wa \in BOOLEAN
  BY <1>2, <1>3, <1>5 DEF VerifyTask
<1> HIDE DEF ca, mi, er, wa
<1>8. /\ t \in VerifyTask /\ t.next = r + 1 /\ t.cached = ca /\ t.errors = er /\ t.warned = wa
      /\ t.place = task[a].place /\ t.from = task[a].from /\ t.upto = task[a].upto
      /\ t.replaced = task[a].replaced /\ t.torn = task[a].torn
  <2>1. r + 1 \in Nat \ {0}
    BY <1>3 DEF Rev
  <2> DEFINE q == r + 1
  <2> HIDE DEF q
  <2>2. q \in Nat \ {0} /\ t = [task[a] EXCEPT !.next = q, !.cached = ca, !.missing = mi, !.errors = er, !.warned = wa]
    BY <2>1 DEF q
  <2> HIDE DEF t
  <2>3. t \in VerifyTask
    BY <1>2, <1>7, <2>2 DEF VerifyTask
  <2>4. /\ t.next = q /\ t.cached = ca /\ t.errors = er /\ t.warned = wa
        /\ t.place = task[a].place /\ t.from = task[a].from /\ t.upto = task[a].upto
        /\ t.replaced = task[a].replaced /\ t.torn = task[a].torn
    BY <1>2, <2>2 DEF VerifyTask
  <2> QED BY <2>3, <2>4 DEF q
<1> HIDE DEF t
<1>9. task'[a] = t /\ task' = [b \in Admin |-> task'[b]] /\ \A b \in Admin \ {a} : task'[b] = task[b]
  BY <1>2, <1>6
<1> QED BY <1>1, <1>2, <1>3, <1>8, <1>9 DEF ca, er, wa, found, d

LEMMA FilesVisit ==
    ASSUME FilesInv, NEW a \in Admin, VisitRev(a)
    PROVE  FilesInv'
<1>1. UNCHANGED <<main, copy, wal, unlinked, server, rev, tmp, pc, plan, intended, clashed, beside>>
  BY DEF VisitRev, dbVars, serverVars, history
<1>2. task' = [b \in Admin |-> task'[b]] /\ \A b \in Admin : task'[b] = task[b] \/ (pc[b] = "visit" /\ task'[b] \in VerifyTask)
  BY VisitRevTask
<1>3. SameFiles(main', main) /\ main' \in Directory /\ main.head \in Int
  BY <1>1, SameFilesSelf, Types
<1>4. pc' \in [Admin -> Pcs] /\ \A b \in Admin : TaskOK(pc'[b], task'[b]) /\ HeldOK(pc'[b], task'[b], main'.head)
  BY <1>1, <1>2, <1>3, CommandsMarked DEF FilesInv
<1> QED BY <1>1, <1>2, <1>3, <1>4, Types, FilesCommand

LEMMA FetchedFacts ==
    ASSUME FilesInv, NEW a \in Admin
    PROVE  /\ Fetched(a) \in Directory
           /\ Fetched(a).head = copy.head /\ Fetched(a).rows = copy.rows /\ Fetched(a).commits = copy.commits
           /\ Fetched(a).deltas = copy.deltas /\ Fetched(a).trees = copy.trees
           /\ \A k \in Rev : copy.blobs[k] # NoFile => Fetched(a).blobs[k] # NoFile
           /\ \A k \in Rev : Fetched(a).blobs[k] # NoFile => copy.blobs[k] # NoFile \/ main.blobs[k] # NoFile
<1> DEFINE bl == [k \in Rev |-> IF k \in task[a].missing /\ main.blobs[k] # NoFile
                                THEN "blob_in_blob" ELSE copy.blobs[k]]
<1>1. copy \in Directory
  BY Types
<1>2. Fetched(a) = [copy EXCEPT !.blobs = bl]
  BY DEF Fetched
<1>3. bl \in [Rev -> {NoFile, "blob", "blob_in_blob"}]
  BY <1>1 DEF Directory
<1>4. \A k \in Rev : /\ copy.blobs[k] # NoFile => bl[k] # NoFile
                     /\ bl[k] # NoFile => copy.blobs[k] # NoFile \/ main.blobs[k] # NoFile
  BY AdminAssumption
<1> HIDE DEF bl
<1> QED BY <1>1, <1>2, <1>3, <1>4 DEF Directory

LEMMA FilesEndVerify ==
    ASSUME FilesInv, NEW a \in Admin, NEW transfer \in BOOLEAN, EndVerify(a, transfer)
    PROVE  FilesInv'
<1>1. End(a) /\ UNCHANGED <<server, rev, tmp, plan, intended, clashed, beside>>
      /\ copy' = IF transfer THEN Fetched(a) ELSE copy
  BY DEF EndVerify, serverVars, history
<1>2. Goto(a, "none", Idle) /\ "none" \in Pcs
  BY <1>1 DEF End, Goto, Pcs
<1>3. TaskOK("none", Idle) /\ HeldOK("none", Idle, main.head)
  BY DEF TaskOK, HeldOK, RevpropPc, PackPc
<1>4. copy' \in Directory
  BY <1>1, Types, FetchedFacts
<1>5. main' \in Directory /\ SameFiles(main', main) /\ wal' \subseteq Rev /\ unlinked' \in BOOLEAN
  <2>1. CASE CloseMain(a, main)
    BY <2>1, Types, ClosedMain
  <2>2. CASE UNCHANGED <<main, dbVars>>
    BY <2>2, Types, SameFilesSelf DEF dbVars
  <2> QED BY <2>1, <2>2 DEF EndVerify
<1> QED BY <1>1, <1>2, <1>3, <1>4, <1>5, Types, CommandStep

LEMMA PackMoves ==
    ASSUME FilesInv, NEW a \in Admin, NEW l \in PackPc, NEW t \in PackTask, Goto(a, l, t),
           main' \in Directory, SameFiles(main', main), wal' \subseteq Rev, unlinked' \in BOOLEAN,
           tmp' \in BOOLEAN, beside' \in BOOLEAN,
           plan' \in [{"first", "last", "revprop", "hotcopy", "verify", "pack", "together", "faults"} -> Nat],
           plan'.last = plan.last, UNCHANGED <<copy, server, rev, intended, clashed>>
    PROVE  FilesInv'
<1>1. TaskOK(l, t) /\ HeldOK(l, t, main.head) /\ l \in Pcs
  BY DEF TaskOK, HeldOK, RevpropPc, PackPc, Pcs
<1> QED BY <1>1, Types, CommandStep

LEMMA FilesPack ==
    ASSUME FilesInv, NEW a \in Admin, Pack(a) \/ RemoveTmp(a) \/ Vacuum(a) \/ RemoveWal(a)
    PROVE  FilesInv'
<1>1. CASE Pack(a)
  <2>1. Goto(a, "remove_tmp", [command |-> "pack"]) /\ Command(a, "pack")
        /\ wal' = (IF unlinked THEN wal ELSE Filled(main, main.rows \cup wal) \ main.rows)
        /\ beside' = (beside \/ Packing \/ OthersOpen(a))
        /\ UNCHANGED <<main, copy, unlinked, server, rev, tmp, intended, clashed>>
    BY <1>1 DEF Pack, serverVars
  <2>2. main.rows \cup wal \subseteq Rev
    BY Types DEF Directory
  <2>3. Filled(main, main.rows \cup wal) \subseteq Rev
    BY <2>2, Types, FilledRows
  <2>4. [command |-> "pack"] \in PackTask /\ "remove_tmp" \in PackPc
    BY DEF PackTask, PackPc
  <2>5. main' \in Directory /\ SameFiles(main', main)
    BY <2>1, Types, SameFilesSelf
  <2>6. plan' \in [{"first", "last", "revprop", "hotcopy", "verify", "pack", "together", "faults"} -> Nat]
        /\ plan'.last = plan.last
    BY <2>1, CommandFacts DEF FilesInv
  <2>7. wal' \subseteq Rev /\ beside' \in BOOLEAN /\ unlinked' \in BOOLEAN /\ tmp' \in BOOLEAN
    BY <2>1, <2>3, Types
  <2> QED BY <2>1, <2>4, <2>5, <2>6, <2>7, PackMoves
<1>2. CASE RemoveTmp(a)
  <2>1. pc[a] = "remove_tmp" /\ tmp' = FALSE /\ Goto(a, "vacuum", task[a])
        /\ UNCHANGED <<main, copy, wal, unlinked, server, rev, plan, intended, clashed, beside>>
    BY <1>2 DEF RemoveTmp, dbVars, history
  <2>2. task[a] \in PackTask /\ "vacuum" \in PackPc
    BY <2>1, TaskKinds DEF PackPc
  <2>3. main' \in Directory /\ SameFiles(main', main)
    BY <2>1, Types, SameFilesSelf
  <2> QED BY <2>1, <2>2, <2>3, Types, PackMoves
<1>3. CASE Vacuum(a)
  <2>1. pc[a] = "vacuum" /\ CloseMain(a, main) /\ (Goto(a, "remove_wal", task[a]) \/ End(a))
        /\ UNCHANGED <<copy, server, rev, tmp, plan, intended, clashed, beside>>
    BY <1>3 DEF Vacuum, serverVars, history
  <2>2. task[a] \in PackTask /\ "remove_wal" \in PackPc
    BY <2>1, TaskKinds DEF PackPc
  <2>3. main' \in Directory /\ SameFiles(main', main) /\ wal' \subseteq Rev /\ unlinked' \in BOOLEAN
    BY <2>1, Types, ClosedMain
  <2>4. CASE Goto(a, "remove_wal", task[a])
    BY <2>1, <2>2, <2>3, <2>4, Types, PackMoves
  <2>5. CASE End(a)
    <3>1. Goto(a, "none", Idle) /\ "none" \in Pcs
      BY <2>5 DEF End, Goto, Pcs
    <3>2. TaskOK("none", Idle) /\ HeldOK("none", Idle, main.head)
      BY DEF TaskOK, HeldOK, RevpropPc, PackPc
    <3> QED BY <2>1, <2>3, <3>1, <3>2, Types, CommandStep
  <2> QED BY <2>1, <2>4, <2>5
<1>4. CASE RemoveWal(a)
  <2>1. End(a) /\ wal' \in {wal, {}} /\ unlinked' \in {unlinked, TRUE}
        /\ UNCHANGED <<main, copy, server, rev, tmp, plan, intended, clashed, beside>>
    BY <1>4 DEF RemoveWal, serverVars, history
  <2>2. Goto(a, "none", Idle) /\ "none" \in Pcs
    BY <2>1 DEF End, Goto, Pcs
  <2>3. TaskOK("none", Idle) /\ HeldOK("none", Idle, main.head)
    BY DEF TaskOK, HeldOK, RevpropPc, PackPc
  <2>4. main' \in Directory /\ SameFiles(main', main) /\ wal' \subseteq Rev /\ unlinked' \in BOOLEAN
    BY <2>1, Types, SameFilesSelf
  <2> QED BY <2>1, <2>2, <2>3, <2>4, Types, CommandStep
<1> QED BY <1>1, <1>2, <1>3, <1>4

LEMMA FilesDie ==
    ASSUME FilesInv, NEW a \in Admin, Die(a)
    PROVE  FilesInv'
<1>1. End(a) /\ plan.faults > 0 /\ plan' = [plan EXCEPT !.faults = @ - 1]
      /\ UNCHANGED <<main, copy, wal, unlinked, server, rev, tmp, intended, beside>>
  BY DEF Die, dbVars, serverVars
<1>2. Goto(a, "none", Idle) /\ "none" \in Pcs
  BY <1>1 DEF End, Goto, Pcs
<1>3. TaskOK("none", Idle) /\ HeldOK("none", Idle, main.head)
  BY DEF TaskOK, HeldOK, RevpropPc, PackPc
<1>4. main' \in Directory /\ SameFiles(main', main)
  BY <1>1, Types, SameFilesSelf
<1>5. plan' \in [{"first", "last", "revprop", "hotcopy", "verify", "pack", "together", "faults"} -> Nat]
      /\ plan'.last = plan.last
  BY <1>1, Types
<1>6. clashed' \subseteq Rev
  <2>1. clashed' = (IF pc[a] = "write" THEN clashed \cup {task[a].rev} ELSE clashed)
    BY DEF Die
  <2>2. pc[a] = "write" => task[a].rev \in Rev
    BY TaskKinds DEF RevpropPc
  <2> QED BY <2>1, <2>2, Types
<1> QED BY <1>1, <1>2, <1>3, <1>4, <1>5, <1>6, Types, CommandStep

(***************************************************************************)
(* The steps of the server, and those of a command.                        *)
(***************************************************************************)
ServerStep ==
    \/ Start \/ Stop
    \/ StoreObject \/ RenameObject \/ InsertRow \/ StoreTree \/ StoreCommit \/ StoreDelta \/ SaveHead

CommandStepOf(a) ==
    \/ \E op \in {"set", "delete"}, r \in Rev, n \in Name, v \in Value \cup {NoValue} : Change(a, op, r, n, v)
    \/ ReadCommit(a) \/ HookAccepts(a) \/ HookRejects(a) \/ Load(a)
    \/ TruncateFile(a) \/ WriteFile(a)
    \/ HotCopy(a) \/ (\E s \in Slot : CopyFile(a, s)) \/ EndCopy(a)
    \/ \E p \in {"main", "copy"}, from, to \in Rev : Verify(a, p, from, to)
    \/ VisitRev(a) \/ (\E transfer \in BOOLEAN : EndVerify(a, transfer))
    \/ Pack(a) \/ RemoveTmp(a) \/ Vacuum(a) \/ RemoveWal(a)
    \/ Die(a)

LEMMA Steps == Next => ServerStep \/ \E a \in Admin : CommandStepOf(a)
<1> SUFFICES ASSUME Next, ~ServerStep PROVE \E a \in Admin : CommandStepOf(a)
  OBVIOUS
<1>1. PICK a \in Admin :
          \/ \E r \in Rev, n \in Name, v \in Value : SetRevprop(a, r, n, v)
          \/ \E r \in Rev, n \in Name : DelRevprop(a, r, n)
          \/ ReadCommit(a) \/ HookAccepts(a) \/ HookRejects(a) \/ Load(a)
          \/ TruncateFile(a) \/ WriteFile(a)
          \/ HotCopy(a) \/ (\E s \in Slot : CopyFile(a, s)) \/ EndCopy(a)
          \/ \E p \in {"main", "copy"}, from, to \in Rev : Verify(a, p, from, to)
          \/ VisitRev(a) \/ (\E transfer \in BOOLEAN : EndVerify(a, transfer))
          \/ Pack(a) \/ RemoveTmp(a) \/ Vacuum(a) \/ RemoveWal(a)
          \/ Die(a)
  BY DEF Next, ServerStep
<1>2. CASE \E r \in Rev, n \in Name, v \in Value : SetRevprop(a, r, n, v)
  BY <1>2 DEF SetRevprop, CommandStepOf
<1>3. CASE \E r \in Rev, n \in Name : DelRevprop(a, r, n)
  BY <1>3 DEF DelRevprop, CommandStepOf
<1> QED BY <1>1, <1>2, <1>3 DEF CommandStepOf

LEMMA FilesServerStep ==
    ASSUME FilesInv, ServerStep
    PROVE  FilesInv'
BY FilesServerIdle, FilesObject, FilesRowTree, FilesCommitDelta, FilesPublish DEF ServerStep

LEMMA FilesCommandStep ==
    ASSUME FilesInv, NEW a \in Admin, CommandStepOf(a)
    PROVE  FilesInv'
BY FilesChange, FilesRead, FilesHook, FilesLoad, FilesTruncate, FilesWrite, FilesHotCopy, FilesCopyFile,
   FilesEndCopy, FilesVerify, FilesVisit, FilesEndVerify, FilesPack, FilesDie DEF CommandStepOf

LEMMA FilesUnchanged ==
    ASSUME FilesInv, UNCHANGED vars
    PROVE  FilesInv'
BY DEF FilesInv, TasksInv, TypeOK, TaskOK, HeldOK, ServerInv, PublishedInv, vars, dbVars, serverVars, history

LEMMA FilesNext == FilesInv /\ [Next]_vars => FilesInv'
BY Steps, FilesServerStep, FilesCommandStep, FilesUnchanged

(***************************************************************************)
(* A published revision keeps every file it was published with: no command *)
(* beside the server removes one, and none of them is published unwritten. *)
(***************************************************************************)
THEOREM FilesInvariant == Spec => []FilesInv
BY FilesInit, FilesNext, PTL DEF Spec

-----------------------------------------------------------------------------
(***************************************************************************)
(* Revision properties.  First, steps that leave the properties of         *)
(* published revisions and the revprop commands alone, or end some.        *)
(***************************************************************************)
LEMMA HeadRevs ==
    ASSUME FilesInv
    PROVE  /\ 1..main.head \subseteq Rev
           /\ \A r \in Rev : r > main.head \/ r \in 1..main.head
BY Types DEF Rev

LEMMA RevpropFrame ==
    ASSUME FilesInv, RevpropInv, main'.head = main.head,
           \A r \in 1..main.head : main'.commits[r] = main.commits[r],
           main'.revprops = main.revprops, intended' = intended,
           clashed \subseteq clashed', clashed' \subseteq 1..main.head,
           \A b \in Admin : pc'[b] \in RevpropPc => pc'[b] = pc[b] /\ task'[b] = task[b],
           \A b \in Admin : pc[b] = "write" => pc'[b] = "write" \/ task[b].rev \in clashed'
    PROVE  RevpropInv'
<1>1. UntouchedInv'
  BY DEF RevpropInv, UntouchedInv
<1>2. SingleInv'
  <2> SUFFICES ASSUME NEW a \in Admin, NEW b \in Admin, a # b, pc'[a] \in RevpropPc, pc'[b] \in RevpropPc,
                      task'[a].rev = task'[b].rev
               PROVE  task'[a].rev \in clashed'
    BY DEF SingleInv
  <2>1. pc[a] \in RevpropPc /\ pc[b] \in RevpropPc /\ task'[a] = task[a] /\ task'[b] = task[b]
    OBVIOUS
  <2> QED BY <2>1 DEF RevpropInv, SingleInv
<1>3. KeptInv'
  <2> SUFFICES ASSUME NEW r \in (1..main'.head) \ clashed'
               PROVE  /\ Writing(r, InCommit)' \/ main'.commits[r] = CommitPart(r)'
                      /\ Writing(r, Extra)' \/ LoadRevprops(r)' = ExtraPart(r)'
    BY DEF KeptInv
  <2>1. r \in (1..main.head) \ clashed /\ main'.commits[r] = main.commits[r]
    OBVIOUS
  <2>2. CommitPart(r)' = CommitPart(r) /\ ExtraPart(r)' = ExtraPart(r) /\ LoadRevprops(r)' = LoadRevprops(r)
    BY DEF CommitPart, ExtraPart, LoadRevprops, NoRevprops
  <2>3. ASSUME NEW N, Writing(r, N) PROVE Writing(r, N)'
    <3>1. PICK a \in Admin : pc[a] = "write" /\ task[a].rev = r /\ task[a].name \in N
      BY <2>3 DEF Writing
    <3>2. pc'[a] = "write" /\ "write" \in RevpropPc
      BY <3>1 DEF RevpropPc
    <3>3. task'[a] = task[a]
      BY <3>2
    <3> QED BY <3>1, <3>2, <3>3 DEF Writing
  <2>4. (Writing(r, InCommit) => Writing(r, InCommit)') /\ (Writing(r, Extra) => Writing(r, Extra)')
    BY <2>3
  <2>5. (Writing(r, InCommit) \/ main.commits[r] = CommitPart(r)) /\ (Writing(r, Extra) \/ LoadRevprops(r) = ExtraPart(r))
    BY <2>1 DEF RevpropInv, KeptInv
  <2> QED BY <2>1, <2>2, <2>4, <2>5
<1>4. HeldInv'
  <2> SUFFICES ASSUME NEW a \in Admin, pc'[a] \in RevpropPc, task'[a].rev \notin clashed'
               PROVE  Holds(pc[a], task[a])'
    BY DEF HeldInv
  <2>1. pc'[a] = pc[a] /\ task'[a] = task[a] /\ task[a].rev \notin clashed
    OBVIOUS
  <2>2. Holds(pc[a], task[a])
    BY <2>1 DEF RevpropInv, HeldInv
  <2> QED BY <2>1, <2>2 DEF Holds, Expected, CommitPart, ExtraPart
<1> QED BY <1>1, <1>2, <1>3, <1>4 DEF RevpropInv

LEMMA GotoFacts ==
    ASSUME FilesInv, NEW a \in Admin, NEW l, NEW t, Goto(a, l, t)
    PROVE  /\ pc'[a] = l /\ task'[a] = t
           /\ \A b \in Admin \ {a} : pc'[b] = pc[b] /\ task'[b] = task[b]
<1>1. pc \in [Admin -> Pcs] /\ task = [b \in Admin |-> task[b]]
  BY Types
<1> QED BY <1>1 DEF Goto

LEMMA EndFacts ==
    ASSUME FilesInv, NEW a \in Admin, End(a)
    PROVE  /\ pc'[a] = "none" /\ task'[a] = Idle
           /\ \A b \in Admin \ {a} : pc'[b] = pc[b] /\ task'[b] = task[b]
BY GotoFacts DEF End, Goto

LEMMA OtherPcs == /\ {"none", "copy", "visit", "remove_tmp", "vacuum", "remove_wal"} \cap RevpropPc = {}
                  /\ {"read", "hook", "load", "truncate", "write"} = RevpropPc
                  /\ {"remove_tmp", "vacuum", "remove_wal"} = PackPc
                  /\ {"none", "copy", "visit"} \cap PackPc = {} /\ RevpropPc \cap PackPc = {}
BY DEF RevpropPc, PackPc

SameRevprops ==
    /\ main'.head = main.head /\ main'.revprops = main.revprops
    /\ \A r \in 1..main.head : main'.commits[r] = main.commits[r]

LEMMA SameRevpropsFiles ==
    ASSUME SameFiles(main', main) \/ main' = main
    PROVE  SameRevprops
BY DEF SameRevprops, SameFiles

\* a command that is not writing goes, or moves among states that change no property
LEMMA RevpropAside ==
    ASSUME FilesInv, RevpropInv, SameRevprops, UNCHANGED <<intended, clashed>>, NEW a \in Admin,
           pc[a] # "write", pc'[a] \notin RevpropPc,
           \A b \in Admin \ {a} : \/ pc'[b] = pc[b] /\ task'[b] = task[b]
                                  \/ pc'[b] = pc[b] /\ pc[b] \notin RevpropPc
    PROVE  RevpropInv'
<1>1. \A b \in Admin : pc'[b] \in RevpropPc => pc'[b] = pc[b] /\ task'[b] = task[b]
  OBVIOUS
<1>2. \A b \in Admin : pc[b] = "write" => pc'[b] = "write"
  OBVIOUS
<1>3. clashed \subseteq 1..main.head
  BY DEF RevpropInv, UntouchedInv
<1> QED BY <1>1, <1>2, <1>3, RevpropFrame DEF SameRevprops

LEMMA RevpropCopies ==
    ASSUME FilesInv, RevpropInv, NEW a \in Admin, HotCopy(a) \/ (\E s \in Slot : CopyFile(a, s)) \/ EndCopy(a)
    PROVE  RevpropInv'
<1>1. CASE HotCopy(a)
  <2>1. SameRevprops /\ UNCHANGED <<intended, clashed>>
    BY <1>1, SameRevpropsFiles DEF HotCopy, history
  <2>2. pc[a] = "none" /\ pc'[a] = "copy"
    BY <1>1, HotCopyTask
  <2>3. ASSUME NEW b \in Admin \ {a}
        PROVE  (pc'[b] = pc[b] /\ task'[b] = task[b]) \/ (pc'[b] = pc[b] /\ pc[b] \notin RevpropPc)
    BY <1>1, HotCopyTask, OtherPcs
  <2> QED BY <2>1, <2>2, <2>3, OtherPcs, RevpropAside
<1>2. ASSUME NEW s \in Slot, CopyFile(a, s) PROVE RevpropInv'
  <2>1. SameRevprops /\ UNCHANGED <<intended, clashed, pc>>
    BY <1>2, SameRevpropsFiles DEF CopyFile, history
  <2>2. pc[a] = "copy" /\ \A b \in Admin \ {a} : task'[b] = task[b]
    BY <1>2, CopyFileTask
  <2> QED BY <2>1, <2>2, OtherPcs, RevpropAside
<1>3. CASE EndCopy(a)
  <2>1. End(a) /\ UNCHANGED <<intended, clashed>> /\ pc[a] = "copy"
    BY <1>3 DEF EndCopy
  <2>2. SameRevprops
    BY <1>3, EndCopyMain, SameRevpropsFiles
  <2> QED BY <2>1, <2>2, EndFacts, OtherPcs, RevpropAside
<1> QED BY <1>1, <1>2, <1>3

LEMMA RevpropVerifies ==
    ASSUME FilesInv, RevpropInv, NEW a \in Admin,
           \/ \E p \in {"main", "copy"}, from, to \in Rev : Verify(a, p, from, to)
           \/ VisitRev(a) \/ (\E transfer \in BOOLEAN : EndVerify(a, transfer))
    PROVE  RevpropInv'
<1>1. ASSUME NEW p \in {"main", "copy"}, NEW from \in Rev, NEW to \in Rev, Verify(a, p, from, to) PROVE RevpropInv'
  <2>1. SameRevprops /\ UNCHANGED <<intended, clashed>>
    BY <1>1, SameRevpropsFiles DEF Verify
  <2>2. PICK t \in VerifyTask : pc[a] = "none" /\ Goto(a, "visit", t)
    BY <1>1, VerifyTaskStarts
  <2> QED BY <2>1, <2>2, GotoFacts, OtherPcs, RevpropAside
<1>2. CASE VisitRev(a)
  <2>1. SameRevprops /\ UNCHANGED <<intended, clashed, pc>>
    BY <1>2, SameRevpropsFiles DEF VisitRev, history
  <2>2. pc[a] = "visit" /\ \A b \in Admin \ {a} : task'[b] = task[b]
    BY <1>2, VisitRevTask
  <2> QED BY <2>1, <2>2, OtherPcs, RevpropAside
<1>3. ASSUME NEW transfer \in BOOLEAN, EndVerify(a, transfer) PROVE RevpropInv'
  <2>1. End(a) /\ UNCHANGED <<intended, clashed>> /\ pc[a] = "visit"
    BY <1>3 DEF EndVerify, history
  <2>2. CASE CloseMain(a, main)
    <3>1. SameRevprops
      BY <2>2, Types, ClosedMain, SameRevpropsFiles
    <3> QED BY <2>1, <3>1, EndFacts, OtherPcs, RevpropAside
  <2>3. CASE UNCHANGED <<main, dbVars>>
    <3>1. SameRevprops
      BY <2>3, SameRevpropsFiles
    <3> QED BY <2>1, <3>1, EndFacts, OtherPcs, RevpropAside
  <2> QED BY <1>3, <2>2, <2>3 DEF EndVerify
<1> QED BY <1>1, <1>2, <1>3

LEMMA RevpropPacks ==
    ASSUME FilesInv, RevpropInv, NEW a \in Admin, Pack(a) \/ RemoveTmp(a) \/ Vacuum(a) \/ RemoveWal(a)
    PROVE  RevpropInv'
<1>1. CASE Pack(a)
  <2>1. UNCHANGED <<main, intended, clashed>> /\ Goto(a, "remove_tmp", [command |-> "pack"]) /\ pc[a] = "none"
    BY <1>1 DEF Pack, Command
  <2> QED BY <2>1, GotoFacts, OtherPcs, SameRevpropsFiles, RevpropAside
<1>2. CASE RemoveTmp(a)
  <2>1. UNCHANGED <<main, intended, clashed>> /\ Goto(a, "vacuum", task[a]) /\ pc[a] = "remove_tmp"
    BY <1>2 DEF RemoveTmp, history
  <2> QED BY <2>1, GotoFacts, OtherPcs, SameRevpropsFiles, RevpropAside
<1>3. CASE Vacuum(a)
  <2>1. CloseMain(a, main) /\ UNCHANGED <<intended, clashed>> /\ pc[a] = "vacuum"
        /\ (Goto(a, "remove_wal", task[a]) \/ End(a))
    BY <1>3 DEF Vacuum, history
  <2>2. SameRevprops
    BY <2>1, Types, ClosedMain, SameRevpropsFiles
  <2>3. CASE Goto(a, "remove_wal", task[a])
    BY <2>1, <2>2, <2>3, GotoFacts, OtherPcs, RevpropAside
  <2>4. CASE End(a)
    BY <2>1, <2>2, <2>4, EndFacts, OtherPcs, RevpropAside
  <2> QED BY <2>1, <2>3, <2>4
<1>4. CASE RemoveWal(a)
  <2>1. UNCHANGED <<main, intended, clashed>> /\ End(a) /\ pc[a] = "remove_wal"
    BY <1>4 DEF RemoveWal, history
  <2> QED BY <2>1, EndFacts, OtherPcs, SameRevpropsFiles, RevpropAside
<1> QED BY <1>1, <1>2, <1>3, <1>4

LEMMA OriginalParts ==
    /\ [n \in InCommit |-> Original[n]] = AsCommitted
    /\ [n \in Extra |-> Original[n]] = NoRevprops
<1>1. \A n \in Extra : n \notin InCommit
  BY AdminAssumption DEF InCommit
<1> QED BY <1>1 DEF Original, AsCommitted, NoRevprops, Name

LEMMA RevpropServer ==
    ASSUME FilesInv, RevpropInv, ServerStep
    PROVE  RevpropInv'
<1>0. main \in Directory /\ rev \in 0..MaxRev /\ MaxRev \in Nat /\ main.head \in 0..MaxRev
  BY Types
<1>1. clashed \subseteq 1..main.head
  BY DEF RevpropInv, UntouchedInv
<1>2. ASSUME SameRevprops, UNCHANGED <<intended, clashed, pc, task>> PROVE RevpropInv'
  BY <1>1, <1>2, RevpropFrame DEF SameRevprops
<1>3. CASE Start \/ Stop
  <2>1. UNCHANGED <<main, intended, clashed, pc, task>>
    BY <1>3 DEF Start, Stop, history
  <2> QED BY <1>2, <2>1, SameRevpropsFiles
<1>4. CASE StoreObject
  <2>1. UNCHANGED <<main, intended, clashed, pc, task>>
    BY <1>4 DEF StoreObject, Files
  <2> QED BY <1>2, <2>1, SameRevpropsFiles
<1>5. CASE RenameObject
  <2>1. UNCHANGED <<intended, clashed, pc, task>> /\ (main' = main \/ main' = [main EXCEPT !.blobs[rev + 1] = "blob"])
    BY <1>5 DEF RenameObject, Files
  <2>2. SameRevprops
    BY <1>0, <2>1 DEF SameRevprops, Directory
  <2> QED BY <1>2, <2>1, <2>2
<1>6. CASE InsertRow
  <2>1. UNCHANGED <<intended, clashed, pc, task>> /\ (main' = main \/ main' = [main EXCEPT !.rows = @ \cup wal \cup {rev + 1}])
    BY <1>6 DEF InsertRow, Files
  <2>2. SameRevprops
    BY <1>0, <2>1 DEF SameRevprops, Directory
  <2> QED BY <1>2, <2>1, <2>2
<1>7. CASE StoreTree
  <2>1. UNCHANGED <<intended, clashed, pc, task>> /\ main' = [main EXCEPT !.trees = @ \cup {rev + 1}]
    BY <1>7 DEF StoreTree, Files
  <2>2. SameRevprops
    BY <1>0, <2>1 DEF SameRevprops, Directory
  <2> QED BY <1>2, <2>1, <2>2
<1>8. CASE StoreCommit
  <2>1. UNCHANGED <<intended, clashed, pc, task>> /\ main' = [main EXCEPT !.commits[rev + 1] = AsCommitted] /\ server = "tree"
    BY <1>8 DEF StoreCommit, Files
  <2>2. rev = main.head
    BY <2>1 DEF FilesInv, ServerInv
  <2>3. SameRevprops
    BY <1>0, <2>1, <2>2 DEF SameRevprops, Directory
  <2> QED BY <1>2, <2>1, <2>3
<1>9. CASE StoreDelta
  <2>1. UNCHANGED <<intended, clashed, pc, task>> /\ main' = [main EXCEPT !.deltas = @ \cup {rev + 1}]
    BY <1>9 DEF StoreDelta, Files
  <2>2. SameRevprops
    BY <1>0, <2>1 DEF SameRevprops, Directory
  <2> QED BY <1>2, <2>1, <2>2
<1>10. CASE SaveHead
  <2>1. UNCHANGED <<intended, clashed, pc>> /\ main' = [main EXCEPT !.head = rev + 1] /\ server = "delta"
    BY <1>10 DEF SaveHead, Published, history
  <2>2. rev = main.head /\ rev < MaxRev /\ main.commits[rev + 1] = AsCommitted
    BY <2>1 DEF FilesInv, ServerInv
  <2>3. main'.head = main.head + 1 /\ main'.commits = main.commits /\ main'.revprops = main.revprops
    BY <1>0, <2>1, <2>2 DEF Directory
  <2>4. main.head + 1 \in Rev
    BY <1>0, <2>2 DEF Rev
  <2>5. \A b \in Admin : pc[b] \in RevpropPc => task'[b] = task[b]
    <3>1. task' = [a \in Admin |-> IF pc[a] = "copy" THEN [task[a] EXCEPT !.published = TRUE] ELSE task[a]]
      BY <1>10 DEF SaveHead, Published
    <3>2. \A b \in Admin : pc[b] \in RevpropPc => pc[b] # "copy"
      BY OtherPcs
    <3> QED BY <3>1, <3>2, Zenon
  <2>6. UntouchedInv'
    <3>1. \A r \in Rev : r > main.head + 1 => intended[r] = Original /\ main.revprops[r] = NoFile
      BY <1>0 DEF RevpropInv, UntouchedInv, Rev
    <3>2. 1..main.head \subseteq 1..(main.head + 1)
      BY <1>0
    <3> QED BY <2>1, <2>3, <3>1, <3>2 DEF RevpropInv, UntouchedInv
  <2>7. SingleInv'
    BY <2>1, <2>5 DEF RevpropInv, SingleInv
  <2>8. HeldInv'
    BY <2>1, <2>5 DEF RevpropInv, HeldInv, Holds, Expected, CommitPart, ExtraPart
  <2>9. KeptInv'
    <3> SUFFICES ASSUME NEW r \in (1..main'.head) \ clashed'
                 PROVE  /\ Writing(r, InCommit)' \/ main'.commits[r] = CommitPart(r)'
                        /\ Writing(r, Extra)' \/ LoadRevprops(r)' = ExtraPart(r)'
      BY DEF KeptInv
    <3>1. CommitPart(r)' = CommitPart(r) /\ ExtraPart(r)' = ExtraPart(r) /\ LoadRevprops(r)' = LoadRevprops(r)
          /\ main'.commits[r] = main.commits[r]
      BY <2>1, <2>3 DEF CommitPart, ExtraPart, LoadRevprops, NoRevprops
    <3>2. CASE r \in 1..main.head
      <4>1. (Writing(r, InCommit) \/ main.commits[r] = CommitPart(r)) /\ (Writing(r, Extra) \/ LoadRevprops(r) = ExtraPart(r))
        BY <2>1, <3>2 DEF RevpropInv, KeptInv
      <4>2. ASSUME NEW N, Writing(r, N) PROVE Writing(r, N)'
        BY <2>1, <2>5, <4>2, OtherPcs DEF Writing
      <4>3. (Writing(r, InCommit) => Writing(r, InCommit)') /\ (Writing(r, Extra) => Writing(r, Extra)')
        BY <4>2
      <4> QED BY <3>1, <4>1, <4>3
    <3>3. CASE r = main.head + 1
      <4>1. main.commits[r] = AsCommitted
        BY <2>2, <3>3
      <4>2. r > main.head
        BY <1>0, <3>3
      <4>3. intended[r] = Original /\ main.revprops[r] = NoFile
        BY <2>4, <3>3, <4>2 DEF RevpropInv, UntouchedInv
      <4>4. CommitPart(r) = AsCommitted /\ ExtraPart(r) = NoRevprops /\ LoadRevprops(r) = NoRevprops
        BY <4>3, OriginalParts DEF CommitPart, ExtraPart, LoadRevprops
      <4> QED BY <3>1, <4>1, <4>4
    <3> QED BY <1>0, <2>3, <3>2, <3>3
  <2> QED BY <2>6, <2>7, <2>8, <2>9 DEF RevpropInv
<1> QED BY <1>3, <1>4, <1>5, <1>6, <1>7, <1>8, <1>9, <1>10 DEF ServerStep

LEMMA RevpropDies ==
    ASSUME FilesInv, RevpropInv, NEW a \in Admin, Die(a)
    PROVE  RevpropInv'
<1>1. UNCHANGED <<main, intended>> /\ End(a) /\ clashed' = (IF pc[a] = "write" THEN clashed \cup {task[a].rev} ELSE clashed)
  BY DEF Die
<1>2. clashed \subseteq 1..main.head
  BY DEF RevpropInv, UntouchedInv
<1>3. pc[a] = "write" => task[a].rev \in 1..main.head
  BY TaskKinds, Types DEF RevpropPc, Rev
<1>4. clashed \subseteq clashed' /\ clashed' \subseteq 1..main.head
  BY <1>1, <1>2, <1>3
<1>5. \A b \in Admin : pc'[b] \in RevpropPc => pc'[b] = pc[b] /\ task'[b] = task[b]
  BY <1>1, EndFacts, OtherPcs
<1>6. \A b \in Admin : pc[b] = "write" => pc'[b] = "write" \/ task[b].rev \in clashed'
  BY <1>1, EndFacts
<1> QED BY <1>1, <1>4, <1>5, <1>6, RevpropFrame

LEMMA RevpropRefused ==
    ASSUME FilesInv, RevpropInv, NEW a \in Admin, pc[a] # "write", Refuse(a), UNCHANGED <<Aside, intended>>
    PROVE  RevpropInv'
<1>1. CloseMain(a, main) /\ End(a) /\ UNCHANGED <<intended, clashed>>
  BY DEF Refuse, Aside
<1>2. SameRevprops
  BY <1>1, Types, ClosedMain, SameRevpropsFiles
<1> QED BY <1>1, <1>2, EndFacts, OtherPcs, RevpropAside

(***************************************************************************)
(* A command that has its revision to itself finds what was intended.      *)
(***************************************************************************)
LEMMA AloneOnRevision ==
    ASSUME FilesInv, RevpropInv, NEW a \in Admin, pc[a] \in RevpropPc, task[a].rev \notin clashed,
           NEW N, pc[a] # "write" \/ task[a].name \notin N
    PROVE  ~Writing(task[a].rev, N)
<1> SUFFICES ASSUME Writing(task[a].rev, N) PROVE FALSE
  OBVIOUS
<1>1. PICK b \in Admin : pc[b] = "write" /\ task[b].rev = task[a].rev /\ task[b].name \in N
  BY DEF Writing
<1>2. a # b /\ pc[b] \in RevpropPc
  BY <1>1, OtherPcs
<1> QED BY <1>1, <1>2 DEF RevpropInv, SingleInv

LEMMA FoundAsExpected ==
    ASSUME FilesInv, RevpropInv, NEW a \in Admin, pc[a] \in RevpropPc, task[a].rev \notin clashed
    PROVE  /\ pc[a] # "write" \/ task[a].name \notin InCommit => main.commits[task[a].rev] = CommitPart(task[a].rev)
           /\ pc[a] # "write" \/ task[a].name \notin Extra => LoadRevprops(task[a].rev) = ExtraPart(task[a].rev)
<1>1. task[a].rev \in (1..main.head) \ clashed
  BY TaskKinds, Types DEF Rev
<1> QED BY <1>1, AloneOnRevision DEF RevpropInv, KeptInv

LEMMA RevpropMoves ==
    ASSUME FilesInv, RevpropInv, NEW a \in Admin, pc[a] \in RevpropPc, pc[a] # "write",
           NEW l \in RevpropPc, l # "write", NEW t, Stay(a, l, t), UNCHANGED <<Aside, intended>>,
           t.rev = task[a].rev, t.rev \notin clashed => Holds(l, t)
    PROVE  RevpropInv'
<1>1. Goto(a, l, t) /\ UNCHANGED <<main, intended, clashed>>
  BY DEF Stay, Aside
<1>2. pc'[a] = l /\ task'[a] = t /\ \A b \in Admin \ {a} : pc'[b] = pc[b] /\ task'[b] = task[b]
  BY <1>1, GotoFacts
<1>3. UntouchedInv'
  BY <1>1 DEF RevpropInv, UntouchedInv
<1>4. \A b \in Admin : task'[b].rev = task[b].rev /\ (pc'[b] \in RevpropPc <=> pc[b] \in RevpropPc)
  BY <1>2
<1>5. SingleInv'
  BY <1>1, <1>4 DEF RevpropInv, SingleInv
<1>6. ASSUME NEW r \in 1..main.head, NEW N, Writing(r, N) PROVE Writing(r, N)'
  BY <1>2, <1>6 DEF Writing
<1>7. KeptInv'
  <2> SUFFICES ASSUME NEW r \in (1..main'.head) \ clashed'
               PROVE  /\ Writing(r, InCommit)' \/ main'.commits[r] = CommitPart(r)'
                      /\ Writing(r, Extra)' \/ LoadRevprops(r)' = ExtraPart(r)'
    BY DEF KeptInv
  <2>1. r \in (1..main.head) \ clashed
    BY <1>1
  <2>2. CommitPart(r)' = CommitPart(r) /\ ExtraPart(r)' = ExtraPart(r) /\ LoadRevprops(r)' = LoadRevprops(r)
        /\ main'.commits[r] = main.commits[r]
    BY <1>1 DEF CommitPart, ExtraPart, LoadRevprops, NoRevprops
  <2>3. (Writing(r, InCommit) => Writing(r, InCommit)') /\ (Writing(r, Extra) => Writing(r, Extra)')
    BY <1>6, <2>1
  <2>4. (Writing(r, InCommit) \/ main.commits[r] = CommitPart(r)) /\ (Writing(r, Extra) \/ LoadRevprops(r) = ExtraPart(r))
    BY <2>1 DEF RevpropInv, KeptInv
  <2> QED BY <2>2, <2>3, <2>4
<1>8. HeldInv'
  <2> SUFFICES ASSUME NEW b \in Admin, pc'[b] \in RevpropPc, task'[b].rev \notin clashed'
               PROVE  Holds(pc[b], task[b])'
    BY DEF HeldInv
  <2>1. Holds(pc'[b], task'[b])
    <3>1. CASE b = a
      BY <1>1, <1>2, <3>1
    <3>2. CASE b # a
      BY <1>1, <1>2, <3>2 DEF RevpropInv, HeldInv
    <3> QED BY <3>1, <3>2
  <2> QED BY <1>1, <2>1 DEF Holds, Expected, CommitPart, ExtraPart
<1> QED BY <1>3, <1>5, <1>7, <1>8 DEF RevpropInv

LEMMA RevpropRead ==
    ASSUME FilesInv, RevpropInv, NEW a \in Admin, ReadCommit(a)
    PROVE  RevpropInv'
<1>1. pc[a] = "read" /\ UNCHANGED <<Aside, intended>> /\ pc[a] \in RevpropPc
  BY OtherPcs DEF ReadCommit
<1>2. task[a] \in RevpropTask /\ task[a].rev \in Rev
  BY <1>1, TaskKinds
<1>3. CASE HasCommit(main, task[a].rev)
  <2> DEFINE f == main.commits[task[a].rev]
             u == [task[a] EXCEPT !.held = f]
  <2>1. Stay(a, "hook", u)
    BY <1>3 DEF ReadCommit
  <2>2. f \in CommitFile
    BY <1>2, <1>3, ReadFile
  <2>3. u.held = f /\ u.rev = task[a].rev
    BY <1>2, <2>2, HeldTask
  <2>4. task[a].rev \notin clashed => f = CommitPart(task[a].rev)
    BY <1>1, FoundAsExpected
  <2> HIDE DEF u, f
  <2>5. u.rev \notin clashed => Holds("hook", u)
    BY <2>3, <2>4 DEF Holds
  <2> QED BY <1>1, <2>1, <2>3, <2>5, RevpropMoves, OtherPcs
<1>4. CASE ~HasCommit(main, task[a].rev)
  BY <1>1, <1>4, RevpropRefused DEF ReadCommit
<1> QED BY <1>3, <1>4

LEMMA RevpropHook ==
    ASSUME FilesInv, RevpropInv, NEW a \in Admin, HookAccepts(a) \/ HookRejects(a)
    PROVE  RevpropInv'
<1>1. pc[a] = "hook" /\ UNCHANGED <<Aside, intended>> /\ pc[a] \in RevpropPc
  BY OtherPcs DEF HookAccepts, HookRejects
<1>2. task[a] \in RevpropTask /\ task[a].rev \in Rev
      /\ (task[a].held # NoFile => task[a].name \in InCommit /\ task[a].held \in CommitFile)
  BY <1>1, TaskKinds DEF HeldOK
<1>3. CASE HookRejects(a)
  BY <1>1, <1>3, RevpropRefused DEF HookRejects
<1>4. CASE HookAccepts(a) /\ task[a].held = NoFile
  <2>1. Stay(a, "load", task[a])
    BY <1>4 DEF HookAccepts
  <2>2. Holds("load", task[a])
    BY DEF Holds
  <2> QED BY <1>1, <2>1, <2>2, RevpropMoves, OtherPcs
<1>5. CASE HookAccepts(a) /\ task[a].held # NoFile /\ Refuse(a)
  BY <1>1, <1>5, RevpropRefused
<1>6. CASE HookAccepts(a) /\ task[a].held # NoFile /\ ~Refuse(a)
  <2> DEFINE f == Changed(a, task[a].held)
             u == [task[a] EXCEPT !.held = f]
  <2>1. Stay(a, "truncate", [task[a] EXCEPT !.held = Changed(a, @)])
    BY <1>6 DEF HookAccepts
  <2>2. [task[a] EXCEPT !.held = Changed(a, @)] = u
    BY <1>2
  <2>3. f \in CommitFile
    BY <1>2, <1>6, ChangedFile
  <2>4. u.held = f /\ u.rev = task[a].rev /\ u.name = task[a].name /\ u.value = task[a].value
    BY <1>2, <2>3, HeldTask
  <2>5. task[a].rev \notin clashed => task[a].held = CommitPart(task[a].rev)
    BY <1>1, <1>6 DEF RevpropInv, HeldInv, Holds
  <2>6. Stay(a, "truncate", u)
    BY <2>1, <2>2
  <2> HIDE DEF u
  <2>7. u.rev \notin clashed => u.held = [Expected(u) EXCEPT ![u.name] = u.value]
    BY <1>2, <1>6, <2>4, <2>5 DEF Expected, Changed
  <2>8. u.rev \notin clashed => Holds("truncate", u)
    BY <2>7 DEF Holds
  <2> QED BY <1>1, <2>4, <2>6, <2>8, RevpropMoves, OtherPcs
<1> QED BY <1>3, <1>4, <1>5, <1>6

LEMMA RevpropLoad ==
    ASSUME FilesInv, RevpropInv, NEW a \in Admin, Load(a)
    PROVE  RevpropInv'
<1> DEFINE file == IF task[a].name \in InCommit THEN main.commits[task[a].rev] ELSE LoadRevprops(task[a].rev)
<1>1. pc[a] = "load" /\ UNCHANGED <<Aside, intended>> /\ pc[a] \in RevpropPc
  BY OtherPcs DEF Load
<1>2. task[a] \in RevpropTask /\ task[a].rev \in Rev
  BY <1>1, TaskKinds
<1>3. Refuse(a) \/ (file \notin {NoFile, Torn} /\ Stay(a, "truncate", [task[a] EXCEPT !.held = Changed(a, file)]))
  BY DEF Load
<1>4. CASE Refuse(a)
  BY <1>1, <1>4, RevpropRefused
<1>5. CASE file \notin {NoFile, Torn} /\ Stay(a, "truncate", [task[a] EXCEPT !.held = Changed(a, file)])
  <2> DEFINE u == [task[a] EXCEPT !.held = Changed(a, file)]
  <2>1. file \in (IF task[a].name \in InCommit THEN CommitFile ELSE RevpropsFile)
    BY <1>2, <1>5, ReadFile DEF HasCommit
  <2>2. task[a].rev \notin clashed => file = Expected(task[a])
    BY <1>1, FoundAsExpected DEF Expected
  <2> HIDE DEF file
  <2>3. Changed(a, file) \in CommitFile \cup RevpropsFile
    BY <1>2, <2>1, ChangedFile
  <2>4. u.held = Changed(a, file) /\ u.rev = task[a].rev /\ u.name = task[a].name /\ u.value = task[a].value
    BY <1>2, <2>3, HeldTask
  <2>5. Stay(a, "truncate", u)
    BY <1>5
  <2> HIDE DEF u
  <2>6. Expected(u) = Expected(task[a])
    BY <2>4 DEF Expected
  <2>7. u.rev \notin clashed => u.held = [Expected(u) EXCEPT ![u.name] = u.value]
    BY <2>2, <2>4, <2>6 DEF Changed
  <2>8. u.rev \notin clashed => Holds("truncate", u)
    BY <2>7 DEF Holds
  <2> QED BY <1>1, <2>4, <2>5, <2>8, RevpropMoves, OtherPcs
<1> QED BY <1>3, <1>4, <1>5

LEMMA RevpropTasks ==
    ASSUME FilesInv, NEW a \in Admin
    PROVE  task[a].command = "revprop" <=> pc[a] \in RevpropPc
<1>1. pc[a] \in Pcs
  BY Types
<1>2. CASE pc[a] \in RevpropPc
  BY <1>2, TaskKinds
<1>3. CASE pc[a] = "none"
  BY <1>3, TaskKinds, OtherPcs DEF Idle
<1>4. CASE pc[a] = "copy"
  <2>1. task[a].command = "hotcopy"
    BY <1>4, TaskKinds DEF CopyTask
  <2> QED BY <1>4, <2>1, OtherPcs
<1>5. CASE pc[a] = "visit"
  <2>1. task[a].command = "verify"
    BY <1>5, TaskKinds DEF VerifyTask
  <2> QED BY <1>5, <2>1, OtherPcs
<1>6. CASE pc[a] \in PackPc
  <2>1. task[a].command = "pack"
    BY <1>6, TaskKinds DEF PackTask
  <2> QED BY <1>6, <2>1, OtherPcs
<1> QED BY <1>1, <1>2, <1>3, <1>4, <1>5, <1>6 DEF Pcs

LEMMA RevpropChange ==
    ASSUME FilesInv, RevpropInv, NEW a \in Admin, NEW op \in {"set", "delete"}, NEW r \in Rev, NEW n \in Name,
           NEW v \in Value \cup {NoValue}, Change(a, op, r, n, v)
    PROVE  RevpropInv'
<1> DEFINE l == IF op = "set" /\ n \in InCommit THEN "read" ELSE "hook"
           t == [command |-> "revprop", op |-> op, rev |-> r, name |-> n, value |-> v, held |-> NoFile]
<1>1. Goto(a, l, t) /\ pc[a] = "none" /\ r <= main.head /\ UNCHANGED <<main, intended>>
  BY DEF Change, Command
<1>2. clashed' = clashed \cup {task[b].rev : b \in {c \in Admin : task[c].command = "revprop" /\ task[c].rev = r}}
  BY DEF Change
<1>3. l \in {"read", "hook"} /\ t.rev = r /\ t.held = NoFile
  OBVIOUS
<1> HIDE DEF l, t
<1>4. pc'[a] = l /\ task'[a] = t /\ \A b \in Admin \ {a} : pc'[b] = pc[b] /\ task'[b] = task[b]
  BY <1>1, GotoFacts
<1>5. clashed \subseteq clashed' /\ clashed' \subseteq clashed \cup {r}
      /\ \A b \in Admin : pc[b] \in RevpropPc /\ task[b].rev = r => r \in clashed'
  BY <1>2, RevpropTasks
<1>6. UntouchedInv'
  <2>1. r \in 1..main.head
    BY <1>1, Types DEF Rev
  <2> QED BY <1>1, <1>5, <2>1 DEF RevpropInv, UntouchedInv
<1>7. SingleInv'
  <2> SUFFICES ASSUME NEW b \in Admin, NEW c \in Admin, b # c, pc'[b] \in RevpropPc, pc'[c] \in RevpropPc,
                      task'[b].rev = task'[c].rev
               PROVE  task'[b].rev \in clashed'
    BY DEF SingleInv
  <2>1. CASE b = a
    BY <1>3, <1>4, <1>5, <2>1
  <2>2. CASE c = a
    BY <1>3, <1>4, <1>5, <2>2
  <2>3. CASE b # a /\ c # a
    BY <1>4, <1>5, <2>3 DEF RevpropInv, SingleInv
  <2> QED BY <2>1, <2>2, <2>3
<1>8. KeptInv'
  <2> SUFFICES ASSUME NEW q \in (1..main'.head) \ clashed'
               PROVE  /\ Writing(q, InCommit)' \/ main'.commits[q] = CommitPart(q)'
                      /\ Writing(q, Extra)' \/ LoadRevprops(q)' = ExtraPart(q)'
    BY DEF KeptInv
  <2>1. q \in (1..main.head) \ clashed
    BY <1>1, <1>5
  <2>2. CommitPart(q)' = CommitPart(q) /\ ExtraPart(q)' = ExtraPart(q) /\ LoadRevprops(q)' = LoadRevprops(q)
        /\ main'.commits[q] = main.commits[q]
    BY <1>1 DEF CommitPart, ExtraPart, LoadRevprops, NoRevprops
  <2>3. ASSUME NEW N, Writing(q, N) PROVE Writing(q, N)'
    BY <1>1, <1>4, <2>3 DEF Writing
  <2>4. (Writing(q, InCommit) => Writing(q, InCommit)') /\ (Writing(q, Extra) => Writing(q, Extra)')
    BY <2>3
  <2>5. (Writing(q, InCommit) \/ main.commits[q] = CommitPart(q)) /\ (Writing(q, Extra) \/ LoadRevprops(q) = ExtraPart(q))
    BY <2>1 DEF RevpropInv, KeptInv
  <2> QED BY <2>2, <2>4, <2>5
<1>9. HeldInv'
  <2> SUFFICES ASSUME NEW b \in Admin, pc'[b] \in RevpropPc, task'[b].rev \notin clashed'
               PROVE  Holds(pc[b], task[b])'
    BY DEF HeldInv
  <2>1. Holds(pc'[b], task'[b])
    <3>1. CASE b = a
      BY <1>3, <1>4, <3>1 DEF Holds
    <3>2. CASE b # a
      BY <1>4, <1>5, <3>2 DEF RevpropInv, HeldInv
    <3> QED BY <3>1, <3>2
  <2> QED BY <1>1, <2>1 DEF Holds, Expected, CommitPart, ExtraPart
<1> QED BY <1>6, <1>7, <1>8, <1>9 DEF RevpropInv

LEMMA NamesDiffer == \A n \in Name : n \in InCommit <=> n \notin Extra
<1>1. Extra \cap InCommit = {}
  BY AdminAssumption DEF InCommit
<1> QED BY <1>1 DEF Name

\* A command is done with revision r of task[a]: its file has the content, or
\* reads as if it had.
LEMMA RevpropFinish ==
    ASSUME FilesInv, RevpropInv, NEW a \in Admin, pc[a] \in {"truncate", "write"},
           NEW content, FitsFile(task[a], content), content # Torn,
           content = task[a].held \/ (content = NoFile /\ task[a].held = NoRevprops),
           Finish(a, content), UNCHANGED Aside
    PROVE  RevpropInv'
<1> DEFINE d == Put(task[a], content)
           r0 == task[a].rev
<1>1. CloseMain(a, d) /\ End(a) /\ intended' = [intended EXCEPT ![r0] = Changed(a, @)] /\ clashed' = clashed
  BY DEF Finish, Aside
<1>2. /\ d \in Directory /\ d.head = main.head
      /\ \A r \in Rev : r # r0 => d.commits[r] = main.commits[r] /\ d.revprops[r] = main.revprops[r]
      /\ task[a].name \in InCommit => d.commits[r0] = content /\ d.revprops = main.revprops
      /\ task[a].name \notin InCommit => d.revprops[r0] = content /\ d.commits = main.commits
  BY PutFacts
<1> HIDE DEF d
<1>3. SameFiles(main', d)
  BY <1>1, <1>2, Types, ClosedMain
<1>4. main'.head = main.head /\ main'.commits = d.commits /\ main'.revprops = d.revprops
  BY <1>2, <1>3 DEF SameFiles
<1>5. pc'[a] = "none" /\ \A b \in Admin \ {a} : pc'[b] = pc[b] /\ task'[b] = task[b]
  BY <1>1, EndFacts
<1>6. pc[a] \in RevpropPc /\ task[a] \in RevpropTask /\ r0 \in Rev /\ r0 <= main.head
  BY TaskKinds, OtherPcs
<1>7. intended \in [Rev -> [Name -> Value \cup {NoValue, Given}]] /\ task[a].name \in Name
  BY <1>6, Types DEF RevpropTask
<1>8. intended'[r0] = [intended[r0] EXCEPT ![task[a].name] = task[a].value]
      /\ \A r \in Rev : r # r0 => intended'[r] = intended[r]
  BY <1>1, <1>6, <1>7 DEF Changed
<1>9. UntouchedInv'
  <2>1. \A r \in Rev : r > main.head => r # r0
    BY <1>6, Types DEF Rev
  <2> QED BY <1>1, <1>2, <1>4, <1>8, <2>1 DEF RevpropInv, UntouchedInv
<1>10. SingleInv'
  BY <1>1, <1>5, OtherPcs DEF RevpropInv, SingleInv
<1>11. \A r \in Rev : r # r0 => CommitPart(r)' = CommitPart(r) /\ ExtraPart(r)' = ExtraPart(r)
  BY <1>8 DEF CommitPart, ExtraPart
<1>12. HeldInv'
  <2> SUFFICES ASSUME NEW b \in Admin, pc'[b] \in RevpropPc, task'[b].rev \notin clashed'
               PROVE  Holds(pc[b], task[b])'
    BY DEF HeldInv
  <2>1. b # a
    BY <1>5, OtherPcs
  <2>2. pc[b] \in RevpropPc /\ pc'[b] = pc[b] /\ task'[b] = task[b] /\ task[b].rev \notin clashed
    BY <1>1, <1>5, <2>1
  <2>3. task[b].rev # r0 /\ task[b].rev \in Rev
    BY <1>6, <2>1, <2>2, TaskKinds DEF RevpropInv, SingleInv
  <2>4. Holds(pc[b], task[b])
    BY <2>2 DEF RevpropInv, HeldInv
  <2>5. CommitPart(task[b].rev)' = CommitPart(task[b].rev) /\ ExtraPart(task[b].rev)' = ExtraPart(task[b].rev)
    <3>1. CommitPart(task[b].rev)' = [n \in InCommit |-> intended'[task[b].rev][n]]
          /\ ExtraPart(task[b].rev)' = [n \in Extra |-> intended'[task[b].rev][n]]
      BY <2>2 DEF CommitPart, ExtraPart
    <3>2. intended'[task[b].rev] = intended[task[b].rev]
      BY <1>8, <2>3
    <3> QED BY <3>1, <3>2 DEF CommitPart, ExtraPart
  <2>6. Expected(task[b])' = Expected(task[b])
    BY <2>2, <2>5 DEF Expected
  <2> QED BY <2>2, <2>4, <2>5, <2>6 DEF Holds
<1>13. KeptInv'
  <2> SUFFICES ASSUME NEW r \in (1..main'.head) \ clashed'
               PROVE  /\ Writing(r, InCommit)' \/ main'.commits[r] = CommitPart(r)'
                      /\ Writing(r, Extra)' \/ LoadRevprops(r)' = ExtraPart(r)'
    BY DEF KeptInv
  <2>1. r \in (1..main.head) \ clashed /\ r \in Rev
    BY <1>1, <1>4, HeadRevs
  <2>2. LoadRevprops(r)' = IF d.revprops[r] \in {NoFile, Torn} THEN NoRevprops ELSE d.revprops[r]
    BY <1>4 DEF LoadRevprops, NoRevprops
  <2>3. CASE r # r0
    <3>1. ASSUME NEW N, Writing(r, N) PROVE Writing(r, N)'
      BY <1>5, <2>3, <3>1 DEF Writing
    <3>2. (Writing(r, InCommit) => Writing(r, InCommit)') /\ (Writing(r, Extra) => Writing(r, Extra)')
      BY <3>1
    <3>3. main'.commits[r] = main.commits[r] /\ LoadRevprops(r)' = LoadRevprops(r)
      BY <1>2, <1>4, <2>1, <2>2, <2>3 DEF LoadRevprops
    <3>4. (Writing(r, InCommit) \/ main.commits[r] = CommitPart(r)) /\ (Writing(r, Extra) \/ LoadRevprops(r) = ExtraPart(r))
      BY <2>1 DEF RevpropInv, KeptInv
    <3>5. CommitPart(r)' = CommitPart(r) /\ ExtraPart(r)' = ExtraPart(r)
      BY <1>11, <2>1, <2>3
    <3> QED BY <3>2, <3>3, <3>4, <3>5
  <2>4. CASE r = r0
    <3>1. task[a].held = [Expected(task[a]) EXCEPT ![task[a].name] = task[a].value]
      BY <1>6, <2>1, <2>4 DEF RevpropInv, HeldInv, Holds
    <3>2. CommitPart(r)' = [n \in InCommit |-> intended'[r0][n]] /\ ExtraPart(r)' = [n \in Extra |-> intended'[r0][n]]
      BY <2>4 DEF CommitPart, ExtraPart
    <3>3. CASE task[a].name \in InCommit
      <4>1. task[a].held = [CommitPart(r0) EXCEPT ![task[a].name] = task[a].value]
        BY <3>1, <3>3 DEF Expected
      <4>2. [CommitPart(r0) EXCEPT ![task[a].name] = task[a].value] = [n \in InCommit |-> intended'[r0][n]]
        <5>1. \A n \in InCommit : n \in Name
          BY DEF Name
        <5>2. \A n \in InCommit : intended'[r0][n] = IF n = task[a].name THEN task[a].value ELSE intended[r0][n]
          BY <1>6, <1>7, <1>8, <5>1
        <5>3. [CommitPart(r0) EXCEPT ![task[a].name] = task[a].value]
                = [n \in InCommit |-> IF n = task[a].name THEN task[a].value ELSE intended[r0][n]]
          BY DEF CommitPart
        <5> QED BY <5>2, <5>3
      <4>3. content = task[a].held
        BY <3>3, FileFacts, AdminAssumption DEF FitsFile
      <4>4. main'.commits[r] = CommitPart(r)'
        BY <1>2, <1>4, <2>4, <3>2, <3>3, <4>1, <4>2, <4>3
      <4>5. LoadRevprops(r0) = ExtraPart(r0)
        BY <1>6, <2>1, <2>4, <3>3, <1>7, NamesDiffer, FoundAsExpected
      <4>6. LoadRevprops(r)' = LoadRevprops(r0)
        BY <1>2, <2>2, <2>4, <3>3 DEF LoadRevprops
      <4>7. [n \in Extra |-> intended'[r0][n]] = ExtraPart(r0)
        <5>1. \A n \in Extra : n # task[a].name /\ n \in Name
          BY <1>7, <3>3, NamesDiffer DEF Name
        <5>2. \A n \in Extra : intended'[r0][n] = intended[r0][n]
          BY <1>6, <1>7, <1>8, <5>1
        <5> QED BY <5>2 DEF ExtraPart
      <4> QED BY <3>2, <4>4, <4>5, <4>6, <4>7
    <3>4. CASE task[a].name \notin InCommit
      <4>0. task[a].name \in Extra
        BY <1>7, <3>4, NamesDiffer
      <4>1. task[a].held = [ExtraPart(r0) EXCEPT ![task[a].name] = task[a].value]
        BY <3>1, <3>4 DEF Expected
      <4>2. [ExtraPart(r0) EXCEPT ![task[a].name] = task[a].value] = [n \in Extra |-> intended'[r0][n]]
        <5>1. \A n \in Extra : n \in Name
          BY DEF Name
        <5>2. \A n \in Extra : intended'[r0][n] = IF n = task[a].name THEN task[a].value ELSE intended[r0][n]
          BY <1>6, <1>7, <1>8, <5>1
        <5>3. [ExtraPart(r0) EXCEPT ![task[a].name] = task[a].value]
                = [n \in Extra |-> IF n = task[a].name THEN task[a].value ELSE intended[r0][n]]
          BY DEF ExtraPart
        <5> QED BY <5>2, <5>3
      <4>3. task[a].held \in RevpropsFile
        BY <1>6, <3>4, TaskKinds DEF HeldOK
      <4>4. LoadRevprops(r)' = task[a].held
        <5>1. d.revprops[r] = content
          BY <1>2, <2>4, <3>4
        <5>2. CASE content = task[a].held
          BY <2>2, <4>3, <5>1, <5>2, FileFacts
        <5>3. CASE content = NoFile /\ task[a].held = NoRevprops
          BY <2>2, <5>1, <5>3
        <5> QED BY <5>2, <5>3
      <4>5. main.commits[r0] = CommitPart(r0)
        BY <1>6, <2>1, <2>4, <3>4, FoundAsExpected
      <4>6. [n \in InCommit |-> intended'[r0][n]] = CommitPart(r0)
        <5>1. \A n \in InCommit : n # task[a].name /\ n \in Name
          BY <3>4 DEF Name
        <5>2. \A n \in InCommit : intended'[r0][n] = intended[r0][n]
          BY <1>6, <1>7, <1>8, <5>1
        <5> QED BY <5>2 DEF CommitPart
      <4>7. main'.commits[r] = main.commits[r0]
        BY <1>2, <1>4, <2>4, <3>4
      <4> QED BY <3>2, <4>1, <4>2, <4>4, <4>5, <4>6, <4>7
    <3> QED BY <3>3, <3>4
  <2> QED BY <2>3, <2>4
<1> QED BY <1>9, <1>10, <1>12, <1>13 DEF RevpropInv

LEMMA RevpropWrite ==
    ASSUME FilesInv, RevpropInv, NEW a \in Admin, WriteFile(a)
    PROVE  RevpropInv'
<1>1. pc[a] = "write" /\ UNCHANGED Aside /\ Finish(a, task[a].held)
  BY DEF WriteFile
<1>2. task[a].held \in (IF task[a].name \in InCommit THEN CommitFile ELSE RevpropsFile)
  BY <1>1, TaskKinds DEF HeldOK
<1>3. FitsFile(task[a], task[a].held) /\ task[a].held # Torn
  BY <1>2, FileFacts DEF FitsFile
<1> QED BY <1>1, <1>3, RevpropFinish

LEMMA RevpropTruncate ==
    ASSUME FilesInv, RevpropInv, NEW a \in Admin, TruncateFile(a)
    PROVE  RevpropInv'
<1>1. pc[a] = "truncate" /\ UNCHANGED Aside /\ pc[a] \in RevpropPc
  BY OtherPcs DEF TruncateFile
<1>2. task[a] \in RevpropTask /\ task[a].rev <= main.head /\ task[a].rev \in Rev /\ task[a].name \in Name
      /\ task[a].held \in (IF task[a].name \in InCommit THEN CommitFile ELSE RevpropsFile)
  BY <1>1, TaskKinds DEF HeldOK, RevpropTask
<1>3. CASE task[a].held = NoRevprops /\ Finish(a, NoFile)
  <2>1. task[a].name \notin InCommit
    <3>1. DOMAIN NoRevprops = Extra
      BY DEF NoRevprops
    <3>2. task[a].name \in InCommit => DOMAIN task[a].held = InCommit
      BY <1>2 DEF CommitFile
    <3>3. Extra # InCommit
      BY AdminAssumption DEF InCommit
    <3> QED BY <1>3, <3>1, <3>2, <3>3
  <2>2. FitsFile(task[a], NoFile) /\ NoFile # Torn
    BY <2>1, AdminAssumption DEF FitsFile
  <2> QED BY <1>1, <1>3, <2>2, RevpropFinish
<1>4. CASE task[a].held # NoRevprops
  <2> DEFINE d == Put(task[a], Torn)
  <2>1. main' = d /\ pc' = [pc EXCEPT ![a] = "write"] /\ UNCHANGED <<intended, clashed>>
    BY <1>4 DEF TruncateFile, Aside
  <2>2. task' = [b \in Admin |-> IF pc[b] \in {"copy", "visit"} /\ task[a].name \in InCommit
                                 THEN [task[b] EXCEPT !.torn = @ \cup {task[a].rev}] ELSE task[b]]
    BY <1>4 DEF TruncateFile
  <2>3. FitsFile(task[a], Torn)
    BY DEF FitsFile
  <2>4. /\ d.head = main.head
        /\ \A r \in Rev : r # task[a].rev => d.commits[r] = main.commits[r] /\ d.revprops[r] = main.revprops[r]
        /\ task[a].name \in InCommit => d.revprops = main.revprops
        /\ task[a].name \notin InCommit => d.commits = main.commits
    BY <1>1, <2>3, PutFacts
  <2> HIDE DEF d
  <2>5. pc'[a] = "write" /\ \A b \in Admin \ {a} : pc'[b] = pc[b]
    BY <2>1, Types
  <2>6. \A b \in Admin : pc[b] \in RevpropPc => task'[b] = task[b]
    <3>1. \A b \in Admin : pc[b] \in RevpropPc => pc[b] \notin {"copy", "visit"}
      BY OtherPcs
    <3> QED BY <2>2, <3>1, Zenon
  <2>7. \A b \in Admin : /\ pc'[b] \in RevpropPc <=> pc[b] \in RevpropPc
                         /\ pc'[b] \in RevpropPc => task'[b] = task[b]
                         /\ pc[b] = "write" => pc'[b] = "write"
    BY <1>1, <2>5, <2>6, OtherPcs
  <2>8. UntouchedInv'
    <3>1. \A r \in Rev : r > main.head => r # task[a].rev
      BY <1>2, Types DEF Rev
    <3> QED BY <2>1, <2>4, <3>1 DEF RevpropInv, UntouchedInv
  <2>9. SingleInv'
    BY <2>1, <2>7 DEF RevpropInv, SingleInv
  <2>10. HeldInv'
    <3> SUFFICES ASSUME NEW b \in Admin, pc'[b] \in RevpropPc, task'[b].rev \notin clashed'
                 PROVE  Holds(pc[b], task[b])'
      BY DEF HeldInv
    <3>1. pc[b] \in RevpropPc /\ task'[b] = task[b] /\ Holds(pc[b], task[b])
      BY <2>1, <2>7 DEF RevpropInv, HeldInv
    <3>2. Holds(pc'[b], task[b])
      <4>1. CASE b = a
        BY <1>1, <2>5, <3>1, <4>1 DEF Holds
      <4>2. CASE b # a
        BY <2>5, <3>1, <4>2
      <4> QED BY <4>1, <4>2
    <3> QED BY <2>1, <3>1, <3>2 DEF Holds, Expected, CommitPart, ExtraPart
  <2>11. KeptInv'
    <3> SUFFICES ASSUME NEW r \in (1..main'.head) \ clashed'
                 PROVE  /\ Writing(r, InCommit)' \/ main'.commits[r] = CommitPart(r)'
                        /\ Writing(r, Extra)' \/ LoadRevprops(r)' = ExtraPart(r)'
      BY DEF KeptInv
    <3>1. r \in (1..main.head) \ clashed /\ r \in Rev
      BY <2>1, <2>4, HeadRevs
    <3>2. CommitPart(r)' = CommitPart(r) /\ ExtraPart(r)' = ExtraPart(r)
      BY <2>1 DEF CommitPart, ExtraPart
    <3>3. (Writing(r, InCommit) \/ main.commits[r] = CommitPart(r)) /\ (Writing(r, Extra) \/ LoadRevprops(r) = ExtraPart(r))
      BY <3>1 DEF RevpropInv, KeptInv
    <3>4. ASSUME NEW N, Writing(r, N) PROVE Writing(r, N)'
      BY <2>7, <3>4, OtherPcs DEF Writing
    <3>5. (Writing(r, InCommit) => Writing(r, InCommit)') /\ (Writing(r, Extra) => Writing(r, Extra)')
      BY <3>4
    <3>6. ASSUME NEW N, task[a].name \in N, r = task[a].rev PROVE Writing(r, N)'
      <4>1. pc'[a] = "write" /\ task'[a] = task[a]
        BY <1>1, <2>5, <2>6
      <4> QED BY <3>6, <4>1 DEF Writing
    <3>7. Writing(r, InCommit)' \/ main'.commits[r] = main.commits[r]
      BY <2>1, <2>4, <3>1, <3>6
    <3>8. Writing(r, Extra)' \/ main'.revprops[r] = main.revprops[r]
      BY <1>2, <2>1, <2>4, <3>1, <3>6, NamesDiffer
    <3>9. Writing(r, Extra)' \/ LoadRevprops(r)' = LoadRevprops(r)
      BY <3>8 DEF LoadRevprops, NoRevprops
    <3> QED BY <3>2, <3>3, <3>5, <3>7, <3>9
  <2> QED BY <2>8, <2>9, <2>10, <2>11 DEF RevpropInv
<1> QED BY <1>3, <1>4 DEF TruncateFile

LEMMA RevpropInit == Init => RevpropInv
<1> SUFFICES ASSUME Init PROVE RevpropInv
  OBVIOUS
<1>1. FilesInv
  BY FilesInit
<1>2. NoDir \in Directory
  BY <1>1, Types DEF NoDir, Directory
<1>3. /\ main.head = plan.first
      /\ main.commits = [r \in Rev |-> IF r <= plan.first THEN AsCommitted ELSE NoFile]
      /\ main.revprops = [r \in Rev |-> NoFile]
  BY <1>2 DEF Init, Directory, NoDir
<1>4. intended = [r \in Rev |-> Original] /\ clashed = {} /\ \A a \in Admin : pc[a] = "none"
  BY DEF Init
<1>5. \A a \in Admin : pc[a] \notin RevpropPc
  BY <1>4, OtherPcs
<1>6. UntouchedInv
  BY <1>3, <1>4 DEF UntouchedInv
<1>7. KeptInv
  <2> SUFFICES ASSUME NEW r \in 1..main.head
               PROVE  main.commits[r] = CommitPart(r) /\ LoadRevprops(r) = ExtraPart(r)
    BY DEF KeptInv
  <2>1. r \in Rev /\ r <= plan.first
    BY <1>1, <1>3, HeadRevs, Types
  <2> QED BY <1>3, <1>4, <2>1, OriginalParts DEF CommitPart, ExtraPart, LoadRevprops
<1> QED BY <1>5, <1>6, <1>7 DEF RevpropInv, SingleInv, HeldInv

LEMMA RevpropUnchanged ==
    ASSUME RevpropInv, UNCHANGED vars
    PROVE  RevpropInv'
BY DEF RevpropInv, UntouchedInv, SingleInv, KeptInv, HeldInv, Holds, Expected, Writing, CommitPart, ExtraPart,
       LoadRevprops, vars, dbVars, serverVars, history

LEMMA RevpropCommandStep ==
    ASSUME FilesInv, RevpropInv, NEW a \in Admin, CommandStepOf(a)
    PROVE  RevpropInv'
BY RevpropChange, RevpropRead, RevpropHook, RevpropLoad, RevpropTruncate, RevpropWrite, RevpropCopies,
   RevpropVerifies, RevpropPacks, RevpropDies DEF CommandStepOf

LEMMA RevpropNext == FilesInv /\ RevpropInv /\ [Next]_vars => RevpropInv'
BY Steps, RevpropServer, RevpropCommandStep, RevpropUnchanged

LEMMA RevpropGives == RevpropInv => RevpropsKept
<1> SUFFICES ASSUME RevpropInv, NEW r \in (1..main.head) \ clashed,
                    \A a \in Admin : pc[a] = "write" => task[a].rev # r
             PROVE  /\ main.commits[r] = [n \in InCommit |-> intended[r][n]]
                    /\ LoadRevprops(r) = [n \in Extra |-> intended[r][n]]
  BY DEF RevpropsKept
<1>1. ASSUME NEW N PROVE ~Writing(r, N)
  BY DEF Writing
<1> QED BY <1>1 DEF RevpropInv, KeptInv, CommitPart, ExtraPart

(***************************************************************************)
(* setrevprop and delrevprop: however many of them run beside the server   *)
(* and beside each other, are refused by the hook or die before they write *)
(* a revision whose changes did not overlap has the properties that the    *)
(* completed commands gave it.                                             *)
(***************************************************************************)
THEOREM RevpropsSafe == Spec => []RevpropsKept
<1>1. Init => FilesInv /\ RevpropInv
  BY FilesInit, RevpropInit
<1>2. FilesInv /\ RevpropInv /\ [Next]_vars => (FilesInv /\ RevpropInv)'
  BY FilesNext, RevpropNext
<1> QED BY <1>1, <1>2, RevpropGives, PTL DEF Spec

-----------------------------------------------------------------------------
(***************************************************************************)
(* Rows.  Whoever else has main open, no pack is running.                  *)
(***************************************************************************)
LEMMA PackingIs == Packing <=> \E a \in Admin : pc[a] \in PackPc
BY DEF Packing, PackPc

LEMMA NotPacking ==
    ASSUME RowsInv, ~beside, server # "down" \/ \E a \in Admin : HasOpen(a) /\ pc[a] \notin PackPc
    PROVE  \A b \in Admin : pc[b] \notin PackPc
<1> SUFFICES ASSUME NEW b \in Admin, pc[b] \in PackPc PROVE FALSE
  OBVIOUS
<1>1. ~OthersOpen(b)
  BY DEF RowsInv, AloneInv
<1> QED BY <1>1 DEF OthersOpen

\* steps that open nothing: packs run on
LEMMA RowsStay ==
    ASSUME RowsInv, ~beside' => ~beside, server' = server \/ server' = "down", rev' = rev,
           main'.head = main.head,
           ~beside => main.rows \cup wal \subseteq main'.rows \cup wal' /\ wal' \subseteq wal /\ (unlinked' => unlinked),
           \A b \in Admin : HasOpen(b)' => HasOpen(b),
           \A b \in Admin : pc'[b] \in PackPc => pc'[b] = pc[b]
    PROVE  RowsInv'
<1> SUFFICES ASSUME ~beside'
             PROVE  /\ AloneInv' /\ ~unlinked' /\ 1..main'.head \subseteq main'.rows \cup wal'
                    /\ server' \in {"row", "tree", "commit", "delta"} => rev' + 1 \in main'.rows \cup wal'
                    /\ \A a \in Admin : pc'[a] = "remove_wal" => wal' = {}
  BY DEF RowsInv
<1>1. /\ AloneInv /\ ~unlinked /\ 1..main.head \subseteq main.rows \cup wal
      /\ server \in {"row", "tree", "commit", "delta"} => rev + 1 \in main.rows \cup wal
      /\ \A a \in Admin : pc[a] = "remove_wal" => wal = {}
  BY DEF RowsInv
<1>2. AloneInv'
  <2> SUFFICES ASSUME NEW a \in Admin, pc'[a] \in PackPc
               PROVE  ~OthersOpen(a)' /\ \A b \in Admin \ {a} : pc'[b] \notin PackPc
    BY DEF AloneInv
  <2>1. ~OthersOpen(a) /\ \A b \in Admin \ {a} : pc[b] \notin PackPc
    BY <1>1 DEF AloneInv
  <2>2. server = "down" /\ \A b \in Admin \ {a} : ~HasOpen(b)
    BY <2>1 DEF OthersOpen
  <2>3. ~OthersOpen(a)'
    BY <2>2 DEF OthersOpen
  <2> QED BY <2>1, <2>3
<1>3. \A a \in Admin : pc'[a] = "remove_wal" => wal' = {}
  <2>1. "remove_wal" \in PackPc
    BY DEF PackPc
  <2> QED BY <1>1, <2>1
<1> QED BY <1>1, <1>2, <1>3

\* steps while no pack runs
LEMMA RowsAlone ==
    ASSUME RowsInv,
           ~beside' => /\ ~beside /\ \A b \in Admin : pc'[b] \notin PackPc
                       /\ main.rows \cup wal \subseteq main'.rows \cup wal' /\ (unlinked' => unlinked)
                       /\ 1..main'.head \subseteq main'.rows \cup wal'
                       /\ server' \in {"row", "tree", "commit", "delta"} => rev' + 1 \in main'.rows \cup wal'
    PROVE  RowsInv'
<1> SUFFICES ASSUME ~beside'
             PROVE  /\ AloneInv' /\ ~unlinked' /\ 1..main'.head \subseteq main'.rows \cup wal'
                    /\ server' \in {"row", "tree", "commit", "delta"} => rev' + 1 \in main'.rows \cup wal'
                    /\ \A a \in Admin : pc'[a] = "remove_wal" => wal' = {}
  BY DEF RowsInv
<1>1. "remove_wal" \in PackPc
  BY DEF PackPc
<1>2. ~unlinked
  BY DEF RowsInv
<1> QED BY <1>1, <1>2 DEF AloneInv

LEMMA RowsServer ==
    ASSUME FilesInv, RowsInv, ServerStep
    PROVE  RowsInv'
<1>0. main \in Directory /\ rev \in 0..MaxRev /\ MaxRev \in Nat /\ main.head \in 0..MaxRev
      /\ wal \subseteq Rev /\ unlinked \in BOOLEAN /\ beside \in BOOLEAN
  BY Types
<1>1. ~beside => /\ 1..main.head \subseteq main.rows \cup wal
                 /\ server \in {"row", "tree", "commit", "delta"} => rev + 1 \in main.rows \cup wal
  BY DEF RowsInv
<1>2. CASE Start
  <2>1. UNCHANGED <<main, pc>> /\ OpenMain /\ server' = "idle"
    BY <1>2 DEF Start
  <2>2. unlinked' = unlinked /\ main.rows \cup wal \subseteq main.rows \cup wal' /\ beside' = (beside \/ Packing)
    BY <1>0, <2>1, OpenedMain
  <2>3. ~beside' => ~beside /\ \A b \in Admin : pc'[b] \notin PackPc
    BY <2>1, <2>2, PackingIs
  <2> QED BY <1>1, <2>1, <2>2, <2>3, RowsAlone
<1>3. CASE Stop
  <2>1. UNCHANGED <<main, rev, pc, task, beside>> /\ server' = "down"
        /\ wal' = (IF unlinked THEN {} ELSE wal) /\ unlinked' = FALSE
    BY <1>3 DEF Stop, history
  <2>2. ~beside => ~unlinked
    BY DEF RowsInv
  <2>3. \A b \in Admin : HasOpen(b)' => HasOpen(b)
    BY <2>1 DEF HasOpen
  <2> QED BY <2>1, <2>2, <2>3, RowsStay
<1>4. ASSUME server # "down", UNCHANGED <<pc, beside, unlinked>>,
             main.rows \cup wal \subseteq main'.rows \cup wal',
             ~beside => 1..main'.head \subseteq main'.rows \cup wal',
             ~beside => (server' \in {"row", "tree", "commit", "delta"} => rev' + 1 \in main'.rows \cup wal')
      PROVE  RowsInv'
  <2>1. ~beside => \A b \in Admin : pc[b] \notin PackPc
    BY <1>4, NotPacking
  <2> QED BY <1>4, <2>1, RowsAlone
<1>5. CASE StoreObject
  <2>1. UNCHANGED <<pc, beside, unlinked, main, wal, rev>> /\ server = "idle" /\ server' \in {"tmp", "object"}
    BY <1>5 DEF StoreObject, Files, dbVars
  <2> QED BY <1>1, <1>4, <2>1
<1>6. CASE RenameObject
  <2>1. UNCHANGED <<pc, beside, unlinked, wal, rev>> /\ server = "tmp" /\ server' \in {"object", "idle"}
        /\ (main' = main \/ main' = [main EXCEPT !.blobs[rev + 1] = "blob"])
    BY <1>6 DEF RenameObject, Files, dbVars
  <2>2. main'.head = main.head /\ main'.rows = main.rows
    BY <1>0, <2>1 DEF Directory
  <2> QED BY <1>1, <1>4, <2>1, <2>2
<1>7. CASE InsertRow
  <2>1. UNCHANGED <<pc, beside, unlinked, rev>> /\ server = "object" /\ server' = "row"
    BY <1>7 DEF InsertRow, Files
  <2>2. \/ main' = main /\ wal' = wal \cup {rev + 1}
        \/ main' = [main EXCEPT !.rows = @ \cup wal \cup {rev + 1}] /\ wal' = {}
    BY <1>7 DEF InsertRow, Files
  <2>3. main'.head = main.head /\ main'.rows \cup wal' = main.rows \cup wal \cup {rev + 1}
    <3>1. CASE main' = main /\ wal' = wal \cup {rev + 1}
      BY <3>1
    <3>2. CASE main' = [main EXCEPT !.rows = @ \cup wal \cup {rev + 1}] /\ wal' = {}
      <4>1. main'.head = main.head /\ main'.rows = main.rows \cup wal \cup {rev + 1}
        BY <1>0, <3>2 DEF Directory
      <4> QED BY <3>2, <4>1
    <3> QED BY <2>2, <3>1, <3>2
  <2> QED BY <1>1, <1>4, <2>1, <2>3
<1>8. CASE StoreTree
  <2>1. UNCHANGED <<pc, beside, unlinked, wal, rev>> /\ server = "row" /\ server' = "tree"
        /\ main' = [main EXCEPT !.trees = @ \cup {rev + 1}]
    BY <1>8 DEF StoreTree, Files, dbVars
  <2>2. main'.head = main.head /\ main'.rows = main.rows
    BY <1>0, <2>1 DEF Directory
  <2> QED BY <1>1, <1>4, <2>1, <2>2
<1>9. CASE StoreCommit
  <2>1. UNCHANGED <<pc, beside, unlinked, wal, rev>> /\ server = "tree" /\ server' = "commit"
        /\ main' = [main EXCEPT !.commits[rev + 1] = AsCommitted]
    BY <1>9 DEF StoreCommit, Files, dbVars
  <2>2. main'.head = main.head /\ main'.rows = main.rows
    BY <1>0, <2>1 DEF Directory
  <2> QED BY <1>1, <1>4, <2>1, <2>2
<1>10. CASE StoreDelta
  <2>1. UNCHANGED <<pc, beside, unlinked, wal, rev>> /\ server = "commit" /\ server' = "delta"
        /\ main' = [main EXCEPT !.deltas = @ \cup {rev + 1}]
    BY <1>10 DEF StoreDelta, Files, dbVars
  <2>2. main'.head = main.head /\ main'.rows = main.rows
    BY <1>0, <2>1 DEF Directory
  <2> QED BY <1>1, <1>4, <2>1, <2>2
<1>11. CASE SaveHead
  <2>1. UNCHANGED <<pc, beside, unlinked, wal>> /\ server = "delta" /\ server' = "idle"
        /\ main' = [main EXCEPT !.head = rev + 1]
    BY <1>11 DEF SaveHead, Published, dbVars, history
  <2>2. main'.head = rev + 1 /\ main'.rows = main.rows
    BY <1>0, <2>1 DEF Directory
  <2>3. rev = main.head
    BY <2>1 DEF FilesInv, ServerInv
  <2>4. ~beside => 1..(rev + 1) \subseteq main.rows \cup wal
    BY <1>0, <1>1, <2>1, <2>3
  <2> QED BY <1>4, <2>1, <2>2, <2>4
<1> QED BY <1>2, <1>3, <1>5, <1>6, <1>7, <1>8, <1>9, <1>10, <1>11 DEF ServerStep

LEMMA RowsClose ==
    ASSUME FilesInv, RowsInv, NEW a \in Admin, HasOpen(a), pc[a] \notin PackPc,
           NEW d \in Directory, d.head = main.head, d.rows = main.rows, CloseMain(a, d),
           End(a), UNCHANGED <<server, rev, beside>>
    PROVE  RowsInv'
<1>1. main'.head = main.head /\ main'.rows \cup wal' = main.rows \cup wal /\ (unlinked' => unlinked)
  BY Types, ClosedMain DEF SameFiles
<1>2. ~beside => \A b \in Admin : pc'[b] \notin PackPc
  BY EndFacts, NotPacking, OtherPcs
<1>3. ~beside => /\ 1..main.head \subseteq main.rows \cup wal
                 /\ server \in {"row", "tree", "commit", "delta"} => rev + 1 \in main.rows \cup wal
  BY DEF RowsInv
<1> QED BY <1>1, <1>2, <1>3, RowsAlone

LEMMA RowsOpen ==
    ASSUME FilesInv, RowsInv, NEW a \in Admin, NEW l, NEW t, Goto(a, l, t), l \notin PackPc, OpenMain,
           UNCHANGED <<main, server, rev>>
    PROVE  RowsInv'
<1>1. unlinked' = unlinked /\ main.rows \cup wal \subseteq main.rows \cup wal' /\ beside' = (beside \/ Packing)
  BY Types, OpenedMain
<1>2. ~beside' => ~beside /\ \A b \in Admin : pc'[b] \notin PackPc
  BY <1>1, GotoFacts, PackingIs
<1>3. ~beside => /\ 1..main.head \subseteq main.rows \cup wal
                 /\ server \in {"row", "tree", "commit", "delta"} => rev + 1 \in main.rows \cup wal
  BY DEF RowsInv
<1> QED BY <1>1, <1>2, <1>3, RowsAlone

LEMMA RevpropOpen ==
    ASSUME NEW a \in Admin, pc[a] \in RevpropPc
    PROVE  HasOpen(a) /\ pc[a] \notin PackPc
BY OtherPcs DEF HasOpen

LEMMA RowsMove ==
    ASSUME FilesInv, RowsInv, NEW a \in Admin, pc[a] \in RevpropPc, NEW l \in RevpropPc, NEW t,
           Stay(a, l, t), UNCHANGED <<Aside, intended>>
    PROVE  RowsInv'
<1>1. Goto(a, l, t) /\ UNCHANGED <<main, wal, unlinked, server, rev, beside>>
  BY DEF Stay, Aside, dbVars, serverVars
<1>2. \A b \in Admin : HasOpen(b)' => HasOpen(b)
  <2>1. HasOpen(a)
    BY RevpropOpen
  <2> QED BY <1>1, <2>1, GotoFacts DEF HasOpen
<1>3. \A b \in Admin : pc'[b] \in PackPc => pc'[b] = pc[b]
  BY <1>1, GotoFacts, OtherPcs
<1> QED BY <1>1, <1>2, <1>3, RowsStay

LEMMA RowsRefused ==
    ASSUME FilesInv, RowsInv, NEW a \in Admin, pc[a] \in RevpropPc, Refuse(a), UNCHANGED <<Aside, intended>>
    PROVE  RowsInv'
<1>1. CloseMain(a, main) /\ End(a) /\ UNCHANGED <<server, rev, beside>>
  BY DEF Refuse, Aside, serverVars
<1> QED BY <1>1, Types, RevpropOpen, RowsClose

LEMMA RowsFinish ==
    ASSUME FilesInv, RowsInv, NEW a \in Admin, pc[a] \in {"truncate", "write"},
           NEW content, FitsFile(task[a], content), Finish(a, content), UNCHANGED Aside
    PROVE  RowsInv'
<1>1. CloseMain(a, Put(task[a], content)) /\ End(a) /\ UNCHANGED <<server, rev, beside>>
  BY DEF Finish, Aside, serverVars
<1>2. Put(task[a], content) \in Directory /\ Put(task[a], content).head = main.head /\ Put(task[a], content).rows = main.rows
  BY PutFacts
<1>3. pc[a] \in RevpropPc
  BY OtherPcs
<1> QED BY <1>1, <1>2, <1>3, RevpropOpen, RowsClose

LEMMA RowsRevprop ==
    ASSUME FilesInv, RowsInv, NEW a \in Admin,
           \/ \E op \in {"set", "delete"}, r \in Rev, n \in Name, v \in Value \cup {NoValue} : Change(a, op, r, n, v)
           \/ ReadCommit(a) \/ HookAccepts(a) \/ HookRejects(a) \/ Load(a)
    PROVE  RowsInv'
<1>1. ASSUME NEW op \in {"set", "delete"}, NEW r \in Rev, NEW n \in Name, NEW v \in Value \cup {NoValue}, Change(a, op, r, n, v)
      PROVE  RowsInv'
  <2> DEFINE l == IF op = "set" /\ n \in InCommit THEN "read" ELSE "hook"
             t == [command |-> "revprop", op |-> op, rev |-> r, name |-> n, value |-> v, held |-> NoFile]
  <2>1. Goto(a, l, t) /\ OpenMain /\ UNCHANGED <<main, server, rev>>
    BY <1>1 DEF Change, serverVars
  <2>2. l \notin PackPc
    BY DEF PackPc
  <2> HIDE DEF l, t
  <2> QED BY <2>1, <2>2, RowsOpen
<1>2. CASE ReadCommit(a)
  <2>1. pc[a] \in RevpropPc /\ "hook" \in RevpropPc /\ UNCHANGED <<Aside, intended>>
    BY <1>2, OtherPcs DEF ReadCommit
  <2>2. Refuse(a) \/ \E t : Stay(a, "hook", t)
    BY <1>2 DEF ReadCommit
  <2> QED BY <2>1, <2>2, RowsRefused, RowsMove
<1>3. CASE HookAccepts(a)
  <2>1. pc[a] \in RevpropPc /\ "load" \in RevpropPc /\ "truncate" \in RevpropPc /\ UNCHANGED <<Aside, intended>>
    BY <1>3, OtherPcs DEF HookAccepts
  <2>2. Refuse(a) \/ (\E t : Stay(a, "load", t)) \/ (\E t : Stay(a, "truncate", t))
    BY <1>3 DEF HookAccepts
  <2> QED BY <2>1, <2>2, RowsRefused, RowsMove
<1>4. CASE HookRejects(a)
  BY <1>4, RowsRefused, OtherPcs DEF HookRejects
<1>5. CASE Load(a)
  <2>1. pc[a] \in RevpropPc /\ "truncate" \in RevpropPc /\ UNCHANGED <<Aside, intended>>
    BY <1>5, OtherPcs DEF Load
  <2>2. Refuse(a) \/ \E t : Stay(a, "truncate", t)
    BY <1>5 DEF Load
  <2> QED BY <2>1, <2>2, RowsRefused, RowsMove
<1> QED BY <1>1, <1>2, <1>3, <1>4, <1>5

LEMMA EmptyIsExtra ==
    ASSUME FilesInv, NEW a \in Admin, pc[a] = "truncate", task[a].held = NoRevprops
    PROVE  task[a].name \notin InCommit /\ FitsFile(task[a], NoFile)
<1>1. task[a].held \in (IF task[a].name \in InCommit THEN CommitFile ELSE RevpropsFile)
  BY TaskKinds DEF HeldOK
<1>2. DOMAIN NoRevprops = Extra
  BY DEF NoRevprops
<1>3. task[a].name \in InCommit => DOMAIN task[a].held = InCommit
  BY <1>1 DEF CommitFile
<1>4. Extra # InCommit
  BY AdminAssumption DEF InCommit
<1> QED BY <1>2, <1>3, <1>4 DEF FitsFile

LEMMA RowsWrites ==
    ASSUME FilesInv, RowsInv, NEW a \in Admin, TruncateFile(a) \/ WriteFile(a)
    PROVE  RowsInv'
<1>1. CASE WriteFile(a)
  <2>1. pc[a] = "write" /\ UNCHANGED Aside /\ Finish(a, task[a].held)
    BY <1>1 DEF WriteFile
  <2>2. FitsFile(task[a], task[a].held)
    BY <2>1, TaskKinds DEF HeldOK, FitsFile
  <2> QED BY <2>1, <2>2, RowsFinish
<1>2. CASE TruncateFile(a) /\ task[a].held = NoRevprops
  <2>1. pc[a] = "truncate" /\ UNCHANGED Aside /\ Finish(a, NoFile)
    BY <1>2 DEF TruncateFile
  <2> QED BY <1>2, <2>1, EmptyIsExtra, RowsFinish
<1>3. CASE TruncateFile(a) /\ task[a].held # NoRevprops
  <2>1. main' = Put(task[a], Torn) /\ pc' = [pc EXCEPT ![a] = "write"] /\ pc[a] = "truncate"
        /\ UNCHANGED <<wal, unlinked, server, rev, beside>>
    BY <1>3 DEF TruncateFile, Aside, dbVars, serverVars
  <2>2. task' = [b \in Admin |-> IF pc[b] \in {"copy", "visit"} /\ task[a].name \in InCommit
                                 THEN [task[b] EXCEPT !.torn = @ \cup {task[a].rev}] ELSE task[b]]
    BY <1>3 DEF TruncateFile
  <2>3. FitsFile(task[a], Torn)
    BY DEF FitsFile
  <2>4. main'.head = main.head /\ main'.rows = main.rows
    BY <2>1, <2>3, PutFacts
  <2>5. pc'[a] = "write" /\ \A b \in Admin \ {a} : pc'[b] = pc[b]
    BY <2>1, Types
  <2>6. \A b \in Admin : pc[b] = "visit" => task'[b].place = task[b].place
    <3>1. ASSUME NEW b \in Admin, pc[b] = "visit" PROVE task'[b].place = task[b].place
      <4>1. task[b] \in VerifyTask
        BY <3>1, TaskKinds
      <4>2. task'[b] = task[b] \/ task'[b] = [task[b] EXCEPT !.torn = @ \cup {task[a].rev}]
        BY <2>2
      <4> QED BY <4>1, <4>2 DEF VerifyTask
    <3> QED BY <3>1
  <2>7. \A b \in Admin : HasOpen(b)' => HasOpen(b)
    <3>1. HasOpen(a)
      BY <2>1 DEF HasOpen
    <3> QED BY <2>5, <2>6, <3>1 DEF HasOpen
  <2>8. \A b \in Admin : pc'[b] \in PackPc => pc'[b] = pc[b]
    BY <2>5, OtherPcs
  <2> QED BY <2>1, <2>4, <2>7, <2>8, RowsStay
<1> QED BY <1>1, <1>2, <1>3

LEMMA RowsCopies ==
    ASSUME FilesInv, RowsInv, NEW a \in Admin, HotCopy(a) \/ (\E s \in Slot : CopyFile(a, s)) \/ EndCopy(a)
    PROVE  RowsInv'
<1>1. CASE HotCopy(a)
  <2>1. UNCHANGED <<main, wal, unlinked, server, rev, beside>>
    BY <1>1 DEF HotCopy, dbVars, serverVars, history
  <2>2. \A b \in Admin : HasOpen(b)' => HasOpen(b)
    <3>1. ~HasOpen(a)'
      BY <1>1, HotCopyTask DEF HasOpen
    <3>2. ASSUME NEW b \in Admin \ {a} PROVE pc'[b] = pc[b] /\ (pc[b] = "visit" => task'[b].place = task[b].place)
      <4>1. pc'[b] = pc[b] /\ (pc[b] = "visit" => task'[b] = [task[b] EXCEPT !.replaced = (task[b].place = "copy")])
        BY <1>1, HotCopyTask
      <4>2. pc[b] = "visit" => task[b] \in VerifyTask
        BY TaskKinds
      <4> QED BY <4>1, <4>2 DEF VerifyTask
    <3> QED BY <3>1, <3>2 DEF HasOpen
  <2>3. \A b \in Admin : pc'[b] \in PackPc => pc'[b] = pc[b]
    BY <1>1, HotCopyTask, OtherPcs
  <2> QED BY <2>1, <2>2, <2>3, RowsStay
<1>2. ASSUME NEW s \in Slot, CopyFile(a, s) PROVE RowsInv'
  <2>1. UNCHANGED <<main, wal, unlinked, server, rev, beside, pc>>
    BY <1>2 DEF CopyFile, dbVars, serverVars, history
  <2>2. pc[a] = "copy" /\ \A b \in Admin \ {a} : task'[b] = task[b]
    BY <1>2, CopyFileTask
  <2>3. \A b \in Admin : HasOpen(b)' => HasOpen(b)
    BY <2>1, <2>2 DEF HasOpen
  <2> QED BY <2>1, <2>3, RowsStay
<1>3. CASE EndCopy(a)
  <2>1. End(a) /\ beside' = (beside \/ Packing) /\ UNCHANGED <<server, rev>>
    BY <1>3 DEF EndCopy, serverVars
  <2>2. SameFiles(main', main) /\ (unlinked' => unlinked) /\ main.rows \cup wal \subseteq main'.rows \cup wal'
    BY <1>3, EndCopyMain
  <2>3. main'.head = main.head
    BY <2>2 DEF SameFiles
  <2>4. ~beside' => ~beside /\ \A b \in Admin : pc'[b] \notin PackPc
    BY <2>1, EndFacts, PackingIs, OtherPcs
  <2>5. ~beside => /\ 1..main.head \subseteq main.rows \cup wal
                   /\ server \in {"row", "tree", "commit", "delta"} => rev + 1 \in main.rows \cup wal
    BY DEF RowsInv
  <2> QED BY <2>1, <2>2, <2>3, <2>4, <2>5, RowsAlone
<1> QED BY <1>1, <1>2, <1>3

LEMMA RowsVerifies ==
    ASSUME FilesInv, RowsInv, NEW a \in Admin,
           \/ \E p \in {"main", "copy"}, from, to \in Rev : Verify(a, p, from, to)
           \/ VisitRev(a) \/ (\E transfer \in BOOLEAN : EndVerify(a, transfer))
    PROVE  RowsInv'
<1>1. ASSUME NEW p \in {"main", "copy"}, NEW from \in Rev, NEW to \in Rev, Verify(a, p, from, to) PROVE RowsInv'
  <2>0. PICK t \in VerifyTask : Goto(a, "visit", t) /\ Started(t, p, from)
    BY <1>1, VerifyTaskStarts
  <2>1. Goto(a, "visit", t) /\ t.place = p
    BY <2>0 DEF Started
  <2>2. UNCHANGED <<main, server, rev>>
    BY <1>1 DEF Verify, serverVars
  <2>3. "visit" \notin PackPc
    BY OtherPcs
  <2>4. CASE OpenMain
    BY <2>1, <2>2, <2>3, <2>4, RowsOpen
  <2>5. CASE p = "copy" /\ UNCHANGED <<dbVars, beside>>
    <3>1. UNCHANGED <<wal, unlinked, beside>>
      BY <2>5 DEF dbVars
    <3>2. pc'[a] = "visit" /\ task'[a].place = "copy" /\ \A b \in Admin \ {a} : pc'[b] = pc[b] /\ task'[b] = task[b]
      BY <2>1, <2>5, GotoFacts
    <3>3. \A b \in Admin : HasOpen(b)' => HasOpen(b)
      BY <3>2 DEF HasOpen
    <3>4. \A b \in Admin : pc'[b] \in PackPc => pc'[b] = pc[b]
      BY <2>3, <3>2
    <3> QED BY <2>2, <3>1, <3>3, <3>4, RowsStay
  <2> QED BY <1>1, <2>4, <2>5 DEF Verify
<1>2. CASE VisitRev(a)
  <2>1. UNCHANGED <<main, wal, unlinked, server, rev, beside, pc>>
    BY <1>2 DEF VisitRev, dbVars, serverVars, history
  <2>2. task'[a].place = task[a].place /\ \A b \in Admin \ {a} : task'[b] = task[b]
    BY <1>2, VisitRevTask
  <2>3. \A b \in Admin : HasOpen(b)' => HasOpen(b)
    BY <2>1, <2>2 DEF HasOpen
  <2> QED BY <2>1, <2>3, RowsStay
<1>3. ASSUME NEW transfer \in BOOLEAN, EndVerify(a, transfer) PROVE RowsInv'
  <2>1. End(a) /\ pc[a] = "visit" /\ UNCHANGED <<server, rev, beside>>
    BY <1>3 DEF EndVerify, serverVars, history
  <2>2. CASE task[a].place = "main"
    <3>1. CloseMain(a, main) /\ HasOpen(a)
      BY <1>3, <2>1, <2>2 DEF EndVerify, HasOpen
    <3> QED BY <2>1, <3>1, Types, OtherPcs, RowsClose
  <2>3. CASE task[a].place # "main"
    <3>1. UNCHANGED <<main, wal, unlinked>>
      BY <1>3, <2>3 DEF EndVerify, dbVars
    <3>2. \A b \in Admin : HasOpen(b)' => HasOpen(b)
      BY <2>1, EndFacts DEF HasOpen
    <3>3. \A b \in Admin : pc'[b] \in PackPc => pc'[b] = pc[b]
      BY <2>1, EndFacts, OtherPcs
    <3> QED BY <2>1, <3>1, <3>2, <3>3, RowsStay
  <2> QED BY <2>2, <2>3
<1> QED BY <1>1, <1>2, <1>3

LEMMA RowsDies ==
    ASSUME FilesInv, RowsInv, NEW a \in Admin, Die(a)
    PROVE  RowsInv'
<1>1. End(a) /\ UNCHANGED <<main, wal, unlinked, server, rev, beside>>
  BY DEF Die, dbVars, serverVars
<1>2. \A b \in Admin : HasOpen(b)' => HasOpen(b)
  BY <1>1, EndFacts DEF HasOpen
<1>3. \A b \in Admin : pc'[b] \in PackPc => pc'[b] = pc[b]
  BY <1>1, EndFacts, OtherPcs
<1> QED BY <1>1, <1>2, <1>3, RowsStay

LEMMA RowsPacks ==
    ASSUME FilesInv, RowsInv, NEW a \in Admin, Pack(a) \/ RemoveTmp(a) \/ Vacuum(a) \/ RemoveWal(a)
    PROVE  RowsInv'
<1> SUFFICES ASSUME ~beside'
             PROVE  /\ AloneInv' /\ ~unlinked' /\ 1..main'.head \subseteq main'.rows \cup wal'
                    /\ server' \in {"row", "tree", "commit", "delta"} => rev' + 1 \in main'.rows \cup wal'
                    /\ \A b \in Admin : pc'[b] = "remove_wal" => wal' = {}
  BY DEF RowsInv
<1>1. ~beside
  BY DEF Pack, RemoveTmp, Vacuum, RemoveWal, history
<1>2. /\ AloneInv /\ ~unlinked /\ 1..main.head \subseteq main.rows \cup wal
      /\ server \in {"row", "tree", "commit", "delta"} => rev + 1 \in main.rows \cup wal
      /\ \A b \in Admin : pc[b] = "remove_wal" => wal = {}
  BY <1>1 DEF RowsInv
<1>3. UNCHANGED <<server, rev>>
  BY DEF Pack, RemoveTmp, Vacuum, RemoveWal, serverVars
<1>4. ASSUME ~OthersOpen(a), \A b \in Admin \ {a} : pc[b] \notin PackPc,
             \A b \in Admin \ {a} : pc'[b] = pc[b] /\ task'[b] = task[b]
      PROVE  AloneInv'
  <2> SUFFICES ASSUME NEW b \in Admin, pc'[b] \in PackPc
               PROVE  ~OthersOpen(b)' /\ \A c \in Admin \ {b} : pc'[c] \notin PackPc
    BY DEF AloneInv
  <2>1. b = a
    BY <1>4
  <2>2. server = "down" /\ \A c \in Admin \ {a} : ~HasOpen(c)
    BY <1>4 DEF OthersOpen
  <2>3. \A c \in Admin \ {a} : ~HasOpen(c)'
    BY <1>4, <2>2 DEF HasOpen
  <2> QED BY <1>3, <1>4, <2>1, <2>2, <2>3 DEF OthersOpen
<1>5. CASE Pack(a)
  <2>1. Goto(a, "remove_tmp", [command |-> "pack"]) /\ UNCHANGED <<main, unlinked>>
        /\ wal' = (IF unlinked THEN wal ELSE Filled(main, main.rows \cup wal) \ main.rows)
        /\ ~Packing /\ ~OthersOpen(a)
    BY <1>5 DEF Pack
  <2>2. main.rows \cup wal \subseteq Rev /\ main \in Directory
    BY Types DEF Directory
  <2>3. main.rows \cup wal \subseteq main.rows \cup wal'
    BY <1>2, <2>1, <2>2, FilledRows
  <2>4. \A b \in Admin : pc[b] \notin PackPc
    BY <2>1, PackingIs
  <2>5. pc'[a] = "remove_tmp" /\ \A b \in Admin \ {a} : pc'[b] = pc[b] /\ task'[b] = task[b]
    BY <2>1, GotoFacts
  <2>6. \A b \in Admin : pc'[b] # "remove_wal"
    BY <2>4, <2>5, OtherPcs
  <2> QED BY <1>2, <1>3, <1>4, <2>1, <2>3, <2>4, <2>5, <2>6
<1>6. CASE RemoveTmp(a)
  <2>1. Goto(a, "vacuum", task[a]) /\ pc[a] = "remove_tmp" /\ UNCHANGED <<main, wal, unlinked>>
    BY <1>6 DEF RemoveTmp, dbVars
  <2>2. pc'[a] = "vacuum" /\ \A b \in Admin \ {a} : pc'[b] = pc[b] /\ task'[b] = task[b]
    BY <2>1, GotoFacts
  <2>3. ~OthersOpen(a) /\ \A b \in Admin \ {a} : pc[b] \notin PackPc
    BY <1>2, <2>1, OtherPcs DEF AloneInv
  <2>4. \A b \in Admin : pc'[b] # "remove_wal"
    BY <2>2, <2>3, OtherPcs
  <2> QED BY <1>2, <1>3, <1>4, <2>1, <2>2, <2>3, <2>4
<1>7. CASE Vacuum(a)
  <2>1. pc[a] = "vacuum" /\ CloseMain(a, main)
    BY <1>7 DEF Vacuum
  <2>3. ~OthersOpen(a) /\ \A b \in Admin \ {a} : pc[b] \notin PackPc
    BY <1>2, <2>1, OtherPcs DEF AloneInv
  <2>2. \A b \in Admin \ {a} : pc'[b] = pc[b] /\ task'[b] = task[b]
    BY <1>7, <2>3, GotoFacts DEF Vacuum
  <2>4. main'.head = main.head /\ main'.rows \cup wal' = main.rows \cup wal /\ (unlinked' => unlinked) /\ wal' = {}
    BY <2>1, <2>3, Types, ClosedMain DEF SameFiles
  <2> QED BY <1>2, <1>3, <1>4, <2>2, <2>3, <2>4
<1>8. CASE RemoveWal(a)
  <2>1. End(a) /\ pc[a] = "remove_wal" /\ UNCHANGED main
    BY <1>8 DEF RemoveWal
  <2>2. \A b \in Admin \ {a} : pc'[b] = pc[b] /\ task'[b] = task[b]
    BY <2>1, EndFacts
  <2>3. ~OthersOpen(a) /\ \A b \in Admin \ {a} : pc[b] \notin PackPc
    BY <1>2, <2>1, OtherPcs DEF AloneInv
  <2>4. wal = {} /\ wal' = {} /\ unlinked' = unlinked
    BY <1>2, <1>8, <2>1, <2>3 DEF RemoveWal
  <2> QED BY <1>2, <1>3, <1>4, <2>1, <2>2, <2>3, <2>4
<1> QED BY <1>5, <1>6, <1>7, <1>8

LEMMA RowsInit == Init => RowsInv
<1> SUFFICES ASSUME Init PROVE RowsInv
  OBVIOUS
<1>1. FilesInv
  BY FilesInit
<1>2. NoDir \in Directory
  BY <1>1, Types DEF NoDir, Directory
<1>3. main.head = plan.first /\ main.rows = 1..plan.first
  BY <1>2 DEF Init, Directory
<1>4. \A a \in Admin : pc[a] = "none"
  BY DEF Init
<1>5. \A a \in Admin : pc[a] \notin PackPc /\ pc[a] # "remove_wal"
  BY <1>4, OtherPcs
<1> QED BY <1>3, <1>5 DEF Init, RowsInv, AloneInv

LEMMA RowsUnchanged ==
    ASSUME RowsInv, UNCHANGED vars
    PROVE  RowsInv'
BY DEF RowsInv, AloneInv, OthersOpen, HasOpen, vars, dbVars, serverVars, history

LEMMA RowsCommandStep ==
    ASSUME FilesInv, RowsInv, NEW a \in Admin, CommandStepOf(a)
    PROVE  RowsInv'
BY RowsRevprop, RowsWrites, RowsCopies, RowsVerifies, RowsPacks, RowsDies DEF CommandStepOf

LEMMA RowsNext == FilesInv /\ RowsInv /\ [Next]_vars => RowsInv'
BY Steps, RowsServer, RowsCommandStep, RowsUnchanged

(***************************************************************************)
(* pack: the rows of every published path survive the server's stops, the  *)
(* checkpoints and the removal of the WAL, as long as no other process has *)
(* the database open while a pack runs.                                    *)
(***************************************************************************)
THEOREM RowsSafe == Spec => []RowsKept
<1>1. Init => FilesInv /\ RowsInv
  BY FilesInit, RowsInit
<1>2. FilesInv /\ RowsInv /\ [Next]_vars => (FilesInv /\ RowsInv)'
  BY FilesNext, RowsNext
<1>3. RowsInv => RowsKept
  BY DEF RowsInv, RowsKept
<1> QED BY <1>1, <1>2, <1>3, PTL DEF Spec

-----------------------------------------------------------------------------
(***************************************************************************)
(* hotcopy and verify.  Most steps take nothing away from either           *)
(* directory, and leave the walks and the visits where they are.           *)
(***************************************************************************)
ObjectsStay ==
    /\ main'.head = main.head
    /\ \A k \in Rev : main.blobs[k] # NoFile => main'.blobs[k] # NoFile

MainGrows ==
    /\ ObjectsStay
    /\ \A r \in Rev : main'.commits[r] = Torn => main.commits[r] = Torn

CopyGrows ==
    /\ copy'.head = copy.head /\ copy'.commits = copy.commits
    /\ copy'.deltas = copy.deltas /\ copy'.trees = copy.trees
    /\ copy.rows \subseteq copy'.rows
    /\ \A k \in Rev : copy.blobs[k] # NoFile => copy'.blobs[k] # NoFile
    /\ \A k \in Rev : copy'.blobs[k] # NoFile => copy.blobs[k] # NoFile \/ main.blobs[k] # NoFile

SameWalk(b) ==
    pc'[b] = "copy" =>
        /\ pc[b] = "copy" /\ task'[b].todo = task[b].todo /\ task'[b].headFirst = task[b].headFirst
        /\ task'[b].published = task[b].published /\ task'[b].skipped = task[b].skipped
        /\ task[b].torn \subseteq task'[b].torn

SameVisit(b) ==
    pc'[b] = "visit" =>
        /\ pc[b] = "visit" /\ task'[b].place = task[b].place /\ task'[b].from = task[b].from
        /\ task'[b].next = task[b].next /\ task'[b].upto = task[b].upto
        /\ task'[b].errors = task[b].errors /\ task'[b].warned = task[b].warned
        /\ task'[b].replaced = task[b].replaced /\ task[b].torn \subseteq task'[b].torn
        /\ task'[b].cached = task[b].cached

PlainStep ==
    /\ MainGrows /\ CopyGrows /\ (beside => beside')
    /\ UNCHANGED <<report, verdict>>
    /\ \A b \in Admin : SameWalk(b) /\ SameVisit(b)

LEMMA TornStays ==
    ASSUME TornInv, \A r \in Rev : main'.commits[r] = Torn => main.commits[r] = Torn,
           \A b \in Admin : pc'[b] \in {"copy", "visit"} => pc'[b] = pc[b] /\ task[b].torn \subseteq task'[b].torn
    PROVE  TornInv'
BY DEF TornInv

LEMMA SlotBounds ==
    ASSUME FilesInv, NEW a \in Admin, copy.head <= main.head
    PROVE  /\ Reach(a) \in 0..MaxRev /\ Reach(a) <= main.head
           /\ 1..Reach(a) \subseteq 1..main.head /\ 1..Reach(a) \subseteq Rev
<1>1. copy.head \in 0..MaxRev /\ main.head \in 0..MaxRev /\ MaxRev \in Nat
  BY Types
<1>2. Reach(a) = copy.head \/ Reach(a) = main.head
  BY DEF Reach
<1> QED BY <1>1, <1>2 DEF Rev

LEMMA WholeStays ==
    ASSUME CopyGrows, NEW r \in Rev, Whole(copy, r)
    PROVE  Whole(copy, r)'
<1>1. HasCommit(copy, r)'
  BY DEF CopyGrows, Whole, HasCommit
<1>2. TreeFound(copy, r, {})'
  BY <1>1 DEF CopyGrows, Whole, TreeFound, HasCommit
<1>3. MissingBlobs(copy, r)' = {}
  <2>1. \A k \in 1..r : k \in Rev /\ copy.blobs[k] # NoFile
    BY AdminAssumption DEF Whole, MissingBlobs, Rev
  <2>2. \A k \in 1..r : copy'.blobs[k] # NoFile
    BY <2>1 DEF CopyGrows
  <2> QED BY <2>2 DEF MissingBlobs
<1> QED BY <1>1, <1>2, <1>3 DEF Whole

LEMMA WalkStays ==
    ASSUME FilesInv, CopyInv, ObjectsStay, CopyGrows, beside => beside', report' = report,
           \A b \in Admin : SameWalk(b), TornInv'
    PROVE  CopyInv'
<1>1. OneWalk'
  BY DEF CopyInv, OneWalk, SameWalk
<1>2. ASSUME NEW a \in Admin, pc'[a] = "copy" PROVE WalkInv(a)'
  <2>1. pc[a] = "copy" /\ WalkInv(a)
    BY <1>2 DEF SameWalk, CopyInv
  <2>2. /\ task'[a].todo = task[a].todo /\ task'[a].headFirst = task[a].headFirst
        /\ task'[a].published = task[a].published /\ task'[a].skipped = task[a].skipped
        /\ task[a].torn \subseteq task'[a].torn
    BY <1>2 DEF SameWalk
  <2>3. copy.head <= main.head
    BY <2>1 DEF WalkInv
  <2>4. Reach(a)' = Reach(a)
    BY <2>2 DEF Reach, ObjectsStay, CopyGrows
  <2>5. 1..Reach(a) \subseteq Rev
    BY <2>3, SlotBounds
  <2>6. Passed(a) => Passed(a)'
    <3> SUFFICES ASSUME Passed(a) PROVE Passed(a)'
      OBVIOUS
    <3>1. ASSUME NEW r \in 1..Reach(a)
          PROVE  /\ CommitSlot(r) \notin task'[a].todo =>
                       copy'.commits[r] # NoFile /\ (copy'.commits[r] = Torn => r \in task'[a].torn)
                 /\ DeltaSlot(r) \notin task'[a].todo => r \in copy'.deltas
                 /\ BlobSlot(r) \notin task'[a].todo => copy'.blobs[r] # NoFile
      <4>1. r \in Rev
        BY <2>5
      <4> QED BY <2>2, <4>1 DEF Passed, CopyGrows
    <3>2. RowsSlot \notin task'[a].todo /\ ~task'[a].skipped /\ ~beside' => 1..Reach(a) \subseteq copy'.rows
      BY <2>2 DEF Passed, CopyGrows
    <3> QED BY <2>4, <3>1, <3>2 DEF Passed
  <2>7. \A r \in Rev :
          /\ CommitSlot(r) \in task'[a].todo => copy'.commits[r] = NoFile
          /\ BlobSlot(r) \in task'[a].todo => copy'.blobs[r] = NoFile \/ main'.blobs[r] # NoFile
    BY <2>1, <2>2 DEF WalkInv, CopyGrows, ObjectsStay
  <2>8. report'.printed = "nothing" /\ copy'.head <= main'.head
        /\ (HeadSlot \in task'[a].todo => copy'.head = 0 /\ ~task'[a].headFirst)
        /\ (HeadSlot \notin task'[a].todo /\ ~task'[a].published => copy'.head = main'.head)
    BY <2>1, <2>2 DEF WalkInv, CopyGrows, ObjectsStay
  <2>9. task'[a].headFirst \/ ~task'[a].published => Passed(a)'
    BY <2>1, <2>2, <2>6 DEF WalkInv
  <2> QED BY <2>7, <2>8, <2>9 DEF WalkInv
<1>3. CopyReadable'
  <2> SUFFICES ASSUME report.printed # "nothing", report.headFirst \/ ~report.published
               PROVE  /\ \A r \in 1..copy.head : r \notin report.torn => Whole(copy, r)'
                      /\ report.skipped \/ beside' \/ 1..copy.head \subseteq copy'.rows
    BY DEF CopyReadable, CopyGrows
  <2>1. /\ \A r \in 1..copy.head : r \notin report.torn => Whole(copy, r)
        /\ report.skipped \/ beside \/ 1..copy.head \subseteq copy.rows
    BY DEF CopyInv, CopyReadable
  <2>2. 1..copy.head \subseteq Rev
    BY Types DEF Rev
  <2>3. \A r \in 1..copy.head : r \notin report.torn => Whole(copy, r)'
    BY <2>1, <2>2, WholeStays
  <2> QED BY <2>1, <2>3 DEF CopyGrows
<1> QED BY <1>1, <1>2, <1>3 DEF CopyInv

LEMMA GrowsSelf ==
    /\ SameFiles(main', main) \/ main' = main => MainGrows
    /\ copy' = copy => CopyGrows
BY DEF SameFiles, MainGrows, ObjectsStay, CopyGrows

LEMMA CopyPlain ==
    ASSUME FilesInv, CopyInv, PlainStep
    PROVE  CopyInv'
<1>1. \A b \in Admin : pc'[b] \in {"copy", "visit"} => pc'[b] = pc[b] /\ task[b].torn \subseteq task'[b].torn
  BY DEF PlainStep, SameWalk, SameVisit
<1>2. TornInv'
  BY <1>1, TornStays DEF CopyInv, PlainStep, MainGrows, ObjectsStay
<1> QED BY <1>2, WalkStays DEF PlainStep, MainGrows

\* one command moves, to or from no walk and no visit
LEMMA PlainMove ==
    ASSUME FilesInv, MainGrows, UNCHANGED <<copy, report, verdict>>, beside => beside', NEW a \in Admin,
           pc'[a] \notin {"copy", "visit"},
           \A b \in Admin \ {a} : pc'[b] = pc[b] /\ task'[b] = task[b]
    PROVE  PlainStep
<1>1. \A b \in Admin : SameWalk(b) /\ SameVisit(b)
  BY DEF SameWalk, SameVisit
<1> QED BY <1>1, GrowsSelf DEF PlainStep

LEMMA PlainServer ==
    ASSUME FilesInv, ServerStep, ~SaveHead
    PROVE  PlainStep
<1>0. main \in Directory /\ rev \in 0..MaxRev /\ MaxRev \in Nat
  BY Types
<1>1. ASSUME MainGrows, UNCHANGED <<copy, report, verdict, pc, task>>, beside => beside' PROVE PlainStep
  <2>1. \A b \in Admin : SameWalk(b) /\ SameVisit(b)
    BY <1>1 DEF SameWalk, SameVisit
  <2> QED BY <1>1, <2>1, GrowsSelf DEF PlainStep
<1>2. CASE Start
  <2>1. UNCHANGED <<main, copy, report, verdict, pc, task>> /\ beside' = (beside \/ Packing)
    BY <1>2 DEF Start, OpenMain
  <2> QED BY <1>1, <2>1, GrowsSelf
<1>3. CASE Stop
  <2>1. UNCHANGED <<main, copy, report, verdict, pc, task, beside>>
    BY <1>3 DEF Stop, history
  <2> QED BY <1>1, <2>1, GrowsSelf
<1>4. CASE StoreObject
  <2>1. UNCHANGED <<main, copy, report, verdict, pc, task, beside>>
    BY <1>4 DEF StoreObject, Files
  <2> QED BY <1>1, <2>1, GrowsSelf
<1>5. CASE RenameObject
  <2>1. UNCHANGED <<copy, report, verdict, pc, task, beside>> /\ (main' = main \/ main' = [main EXCEPT !.blobs[rev + 1] = "blob"])
    BY <1>5 DEF RenameObject, Files
  <2>2. CASE main' = main
    BY <1>1, <2>1, <2>2, GrowsSelf
  <2>3. CASE main' = [main EXCEPT !.blobs[rev + 1] = "blob"]
    <3>1. main'.head = main.head /\ main'.commits = main.commits
          /\ \A k \in Rev : main'.blobs[k] = main.blobs[k] \/ main'.blobs[k] = "blob"
      BY <1>0, <2>3 DEF Directory
    <3>2. "blob" # NoFile
      BY AdminAssumption
    <3>3. MainGrows
      BY <3>1, <3>2 DEF MainGrows, ObjectsStay
    <3> QED BY <1>1, <2>1, <3>3
  <2> QED BY <2>1, <2>2, <2>3
<1>6. CASE InsertRow
  <2>1. UNCHANGED <<copy, report, verdict, pc, task, beside>> /\ (main' = main \/ main' = [main EXCEPT !.rows = @ \cup wal \cup {rev + 1}])
    BY <1>6 DEF InsertRow, Files
  <2>2. MainGrows
    BY <1>0, <2>1 DEF MainGrows, ObjectsStay, Directory
  <2> QED BY <1>1, <2>1, <2>2
<1>7. CASE StoreTree
  <2>1. UNCHANGED <<copy, report, verdict, pc, task, beside>> /\ main' = [main EXCEPT !.trees = @ \cup {rev + 1}]
    BY <1>7 DEF StoreTree, Files
  <2>2. MainGrows
    BY <1>0, <2>1 DEF MainGrows, ObjectsStay, Directory
  <2> QED BY <1>1, <2>1, <2>2
<1>8. CASE StoreCommit
  <2>1. UNCHANGED <<copy, report, verdict, pc, task, beside>> /\ main' = [main EXCEPT !.commits[rev + 1] = AsCommitted]
    BY <1>8 DEF StoreCommit, Files
  <2>2. main'.head = main.head /\ main'.blobs = main.blobs
        /\ \A r \in Rev : main'.commits[r] = main.commits[r] \/ main'.commits[r] = AsCommitted
    BY <1>0, <2>1 DEF Directory
  <2>3. AsCommitted \in CommitFile
    BY DEF AsCommitted, CommitFile
  <2>4. MainGrows
    BY <2>2, <2>3, FileFacts DEF MainGrows, ObjectsStay
  <2> QED BY <1>1, <2>1, <2>4
<1>9. CASE StoreDelta
  <2>1. UNCHANGED <<copy, report, verdict, pc, task, beside>> /\ main' = [main EXCEPT !.deltas = @ \cup {rev + 1}]
    BY <1>9 DEF StoreDelta, Files
  <2>2. MainGrows
    BY <1>0, <2>1 DEF MainGrows, ObjectsStay, Directory
  <2> QED BY <1>1, <2>1, <2>2
<1> QED BY <1>2, <1>3, <1>4, <1>5, <1>6, <1>7, <1>8, <1>9 DEF ServerStep

LEMMA PlainRefused ==
    ASSUME FilesInv, NEW a \in Admin, Refuse(a), UNCHANGED <<Aside, intended>>
    PROVE  PlainStep
<1>1. CloseMain(a, main) /\ End(a) /\ UNCHANGED <<copy, report, verdict, beside>>
  BY DEF Refuse, Aside
<1>2. MainGrows
  BY <1>1, Types, ClosedMain, GrowsSelf
<1> QED BY <1>1, <1>2, EndFacts, PlainMove

LEMMA PlainStay ==
    ASSUME FilesInv, NEW a \in Admin, NEW l \in RevpropPc, NEW t, Stay(a, l, t), UNCHANGED <<Aside, intended>>
    PROVE  PlainStep
<1>1. Goto(a, l, t) /\ UNCHANGED <<main, copy, report, verdict, beside>>
  BY DEF Stay, Aside
<1> QED BY <1>1, GotoFacts, GrowsSelf, OtherPcs, PlainMove

LEMMA PlainFinish ==
    ASSUME FilesInv, NEW a \in Admin, pc[a] \in {"truncate", "write"},
           NEW content, FitsFile(task[a], content), content # Torn, Finish(a, content), UNCHANGED Aside
    PROVE  PlainStep
<1> DEFINE d == Put(task[a], content)
<1>1. CloseMain(a, d) /\ End(a) /\ UNCHANGED <<copy, report, verdict, beside>>
  BY DEF Finish, Aside
<1>2. /\ d \in Directory /\ d.head = main.head /\ d.blobs = main.blobs
      /\ \A r \in Rev : r # task[a].rev => d.commits[r] = main.commits[r]
      /\ task[a].name \in InCommit => d.commits[task[a].rev] = content
      /\ task[a].name \notin InCommit => d.commits = main.commits
  BY PutFacts
<1> HIDE DEF d
<1>3. SameFiles(main', d)
  BY <1>1, <1>2, Types, ClosedMain
<1>4. MainGrows
  BY <1>2, <1>3 DEF MainGrows, ObjectsStay, SameFiles
<1> QED BY <1>1, <1>4, EndFacts, PlainMove

LEMMA PlainCommand ==
    ASSUME FilesInv, NEW a \in Admin,
           \/ \E op \in {"set", "delete"}, r \in Rev, n \in Name, v \in Value \cup {NoValue} : Change(a, op, r, n, v)
           \/ ReadCommit(a) \/ HookAccepts(a) \/ HookRejects(a) \/ Load(a) \/ WriteFile(a)
           \/ Pack(a) \/ RemoveTmp(a) \/ Vacuum(a) \/ RemoveWal(a) \/ Die(a)
    PROVE  PlainStep
<1>1. ASSUME NEW op \in {"set", "delete"}, NEW r \in Rev, NEW n \in Name, NEW v \in Value \cup {NoValue}, Change(a, op, r, n, v)
      PROVE  PlainStep
  <2> DEFINE l == IF op = "set" /\ n \in InCommit THEN "read" ELSE "hook"
             t == [command |-> "revprop", op |-> op, rev |-> r, name |-> n, value |-> v, held |-> NoFile]
  <2>1. Goto(a, l, t) /\ UNCHANGED <<main, copy, report, verdict>> /\ beside' = (beside \/ Packing)
    BY <1>1 DEF Change, OpenMain
  <2>2. l \notin {"copy", "visit"}
    OBVIOUS
  <2> HIDE DEF l, t
  <2> QED BY <2>1, <2>2, GotoFacts, GrowsSelf, PlainMove
<1>2. CASE ReadCommit(a)
  <2>1. UNCHANGED <<Aside, intended>> /\ (Refuse(a) \/ \E t : Stay(a, "hook", t))
    BY <1>2 DEF ReadCommit
  <2> QED BY <2>1, PlainRefused, PlainStay, OtherPcs
<1>3. CASE HookAccepts(a)
  <2>1. UNCHANGED <<Aside, intended>>
        /\ (Refuse(a) \/ (\E t : Stay(a, "load", t)) \/ (\E t : Stay(a, "truncate", t)))
    BY <1>3 DEF HookAccepts
  <2> QED BY <2>1, PlainRefused, PlainStay, OtherPcs
<1>4. CASE HookRejects(a)
  BY <1>4, PlainRefused DEF HookRejects
<1>5. CASE Load(a)
  <2>1. UNCHANGED <<Aside, intended>> /\ (Refuse(a) \/ \E t : Stay(a, "truncate", t))
    BY <1>5 DEF Load
  <2> QED BY <2>1, PlainRefused, PlainStay, OtherPcs
<1>6. CASE WriteFile(a)
  <2>1. pc[a] = "write" /\ UNCHANGED Aside /\ Finish(a, task[a].held)
    BY <1>6 DEF WriteFile
  <2>2. task[a].held \in (IF task[a].name \in InCommit THEN CommitFile ELSE RevpropsFile)
    BY <2>1, TaskKinds DEF HeldOK
  <2>3. FitsFile(task[a], task[a].held) /\ task[a].held # Torn
    BY <2>2, FileFacts DEF FitsFile
  <2> QED BY <2>1, <2>3, PlainFinish
<1>7. CASE Pack(a)
  <2>1. Goto(a, "remove_tmp", [command |-> "pack"]) /\ UNCHANGED <<main, copy, report, verdict>> /\ (beside => beside')
    BY <1>7 DEF Pack
  <2> QED BY <2>1, GotoFacts, GrowsSelf, PlainMove
<1>8. CASE RemoveTmp(a)
  <2>1. Goto(a, "vacuum", task[a]) /\ UNCHANGED <<main, copy, report, verdict, beside>>
    BY <1>8 DEF RemoveTmp, history
  <2> QED BY <2>1, GotoFacts, GrowsSelf, PlainMove
<1>9. CASE Vacuum(a)
  <2>1. (Goto(a, "remove_wal", task[a]) \/ End(a)) /\ CloseMain(a, main)
        /\ UNCHANGED <<copy, report, verdict, beside>>
    BY <1>9 DEF Vacuum, history
  <2>2. MainGrows
    BY <2>1, Types, ClosedMain, GrowsSelf
  <2>3. pc'[a] \notin {"copy", "visit"} /\ \A b \in Admin \ {a} : pc'[b] = pc[b] /\ task'[b] = task[b]
    BY <2>1, GotoFacts, EndFacts
  <2> QED BY <2>1, <2>2, <2>3, PlainMove
<1>10. CASE RemoveWal(a)
  <2>1. End(a) /\ UNCHANGED <<main, copy, report, verdict, beside>>
    BY <1>10 DEF RemoveWal, history
  <2> QED BY <2>1, EndFacts, GrowsSelf, PlainMove
<1>11. CASE Die(a)
  <2>1. End(a) /\ UNCHANGED <<main, copy, report, verdict, beside>>
    BY <1>11 DEF Die
  <2> QED BY <2>1, EndFacts, GrowsSelf, PlainMove
<1> QED BY <1>1, <1>2, <1>3, <1>4, <1>5, <1>6, <1>7, <1>8, <1>9, <1>10, <1>11

LEMMA CopyPublish ==
    ASSUME FilesInv, CopyInv, SaveHead
    PROVE  CopyInv'
<1>1. main' = [main EXCEPT !.head = rev + 1] /\ server = "delta" /\ UNCHANGED <<copy, pc, report, beside>>
      /\ task' = [a \in Admin |-> IF pc[a] = "copy" THEN [task[a] EXCEPT !.published = TRUE] ELSE task[a]]
  BY DEF SaveHead, Published, history
<1>2. main \in Directory /\ rev = main.head /\ main.head \in 0..MaxRev /\ MaxRev \in Nat
  BY <1>1, Types DEF FilesInv, ServerInv
<1>3. main'.head = main.head + 1 /\ main'.commits = main.commits /\ main'.blobs = main.blobs
  BY <1>1, <1>2 DEF Directory
<1>4. ASSUME NEW b \in Admin
      PROVE  /\ pc[b] = "copy" => /\ task'[b].todo = task[b].todo /\ task'[b].headFirst = task[b].headFirst
                                  /\ task'[b].published = TRUE /\ task'[b].skipped = task[b].skipped
                                  /\ task'[b].torn = task[b].torn
             /\ pc[b] # "copy" => task'[b] = task[b]
  <2>1. CASE pc[b] = "copy"
    <3>1. task'[b] = [task[b] EXCEPT !.published = TRUE] /\ task[b] \in CopyTask
      BY <1>1, <2>1, TaskKinds
    <3> QED BY <2>1, <3>1 DEF CopyTask
  <2>2. CASE pc[b] # "copy"
    <3>1. task' = [a \in Admin |-> IF pc[a] = "copy" THEN [task[a] EXCEPT !.published = TRUE] ELSE task[a]]
      BY <1>1
    <3>2. task'[b] = task[b]
      BY <2>2, <3>1, Zenon
    <3> QED BY <2>2, <3>2
  <2> QED BY <2>1, <2>2
<1>5. TornInv'
  <2>1. \A b \in Admin : pc'[b] \in {"copy", "visit"} => pc'[b] = pc[b] /\ task[b].torn \subseteq task'[b].torn
    BY <1>1, <1>4
  <2> QED BY <1>3, <2>1, TornStays DEF CopyInv
<1>6. OneWalk'
  BY <1>1 DEF CopyInv, OneWalk
<1>7. ASSUME NEW a \in Admin, pc'[a] = "copy" PROVE WalkInv(a)'
  <2>1. pc[a] = "copy" /\ WalkInv(a)
    BY <1>1, <1>7 DEF CopyInv
  <2>2. /\ task'[a].todo = task[a].todo /\ task'[a].headFirst = task[a].headFirst
        /\ task'[a].published = TRUE /\ task'[a].skipped = task[a].skipped /\ task'[a].torn = task[a].torn
    BY <1>4, <2>1
  <2>3. copy.head <= main.head + 1
    BY <1>2, <2>1, Types DEF WalkInv
  <2>4. task[a].headFirst => Passed(a)'
    <3> SUFFICES ASSUME task[a].headFirst PROVE Passed(a)'
      OBVIOUS
    <3>1. Passed(a) /\ HeadSlot \notin task[a].todo
      BY <2>1 DEF WalkInv
    <3>2. Reach(a) = copy.head
      BY <2>1, <3>1 DEF WalkInv, Reach
    <3>3. Reach(a)' = copy.head
      BY <1>1, <2>2 DEF Reach
    <3> QED BY <1>1, <2>2, <3>1, <3>2, <3>3 DEF Passed
  <2> QED BY <1>1, <1>3, <2>1, <2>2, <2>3, <2>4 DEF WalkInv
<1>8. CopyReadable'
  BY <1>1 DEF CopyInv, CopyReadable, Whole, HasCommit, TreeFound, MissingBlobs
<1> QED BY <1>5, <1>6, <1>7, <1>8 DEF CopyInv

TruncateTorn(a) ==
    /\ TruncateFile(a) /\ task[a].held # NoRevprops

LEMMA PlainTruncate ==
    ASSUME FilesInv, NEW a \in Admin, TruncateFile(a), task[a].held = NoRevprops
    PROVE  PlainStep
<1>1. pc[a] = "truncate" /\ UNCHANGED Aside /\ Finish(a, NoFile)
  BY DEF TruncateFile
<1>2. FitsFile(task[a], NoFile) /\ NoFile # Torn
  BY <1>1, EmptyIsExtra, AdminAssumption
<1> QED BY <1>1, <1>2, PlainFinish

LEMMA TruncateMarks ==
    ASSUME FilesInv, NEW a \in Admin, TruncateTorn(a)
    PROVE  /\ ObjectsStay /\ UNCHANGED <<copy, report, verdict, beside>>
           /\ \A r \in Rev : main'.commits[r] = Torn => main.commits[r] = Torn \/ (r = task[a].rev /\ task[a].name \in InCommit)
           /\ \A b \in Admin : SameWalk(b) /\ SameVisit(b)
           /\ \A b \in Admin : pc'[b] \in {"copy", "visit"} /\ task[a].name \in InCommit => task[a].rev \in task'[b].torn
<1>1. main' = Put(task[a], Torn) /\ pc' = [pc EXCEPT ![a] = "write"] /\ pc[a] = "truncate"
      /\ UNCHANGED <<copy, report, verdict, beside>>
  BY DEF TruncateTorn, TruncateFile, Aside
<1>2. task' = [b \in Admin |-> IF pc[b] \in {"copy", "visit"} /\ task[a].name \in InCommit
                               THEN [task[b] EXCEPT !.torn = @ \cup {task[a].rev}] ELSE task[b]]
  BY DEF TruncateTorn, TruncateFile
<1>3. FitsFile(task[a], Torn)
  BY DEF FitsFile
<1>4. /\ main'.head = main.head /\ main'.blobs = main.blobs
      /\ \A r \in Rev : r # task[a].rev => main'.commits[r] = main.commits[r]
      /\ task[a].name \notin InCommit => main'.commits = main.commits
  BY <1>1, <1>3, PutFacts
<1>5. pc'[a] = "write" /\ \A b \in Admin \ {a} : pc'[b] = pc[b]
  BY <1>1, Types
<1>6. ASSUME NEW b \in Admin
      PROVE  /\ SameWalk(b) /\ SameVisit(b)
             /\ pc'[b] \in {"copy", "visit"} /\ task[a].name \in InCommit => task[a].rev \in task'[b].torn
  <2>1. CASE pc'[b] = "copy"
    <3>1. pc[b] = "copy" /\ task[b] \in CopyTask
      BY <1>5, <2>1, TaskKinds
    <3>2. task'[b] = IF task[a].name \in InCommit THEN [task[b] EXCEPT !.torn = @ \cup {task[a].rev}] ELSE task[b]
      BY <1>2, <3>1
    <3>3. /\ task'[b].todo = task[b].todo /\ task'[b].headFirst = task[b].headFirst
          /\ task'[b].published = task[b].published /\ task'[b].skipped = task[b].skipped
          /\ task[b].torn \subseteq task'[b].torn /\ (task[a].name \in InCommit => task[a].rev \in task'[b].torn)
      BY <3>1, <3>2 DEF CopyTask
    <3> QED BY <2>1, <3>1, <3>3 DEF SameWalk, SameVisit
  <2>2. CASE pc'[b] = "visit"
    <3>1. pc[b] = "visit" /\ task[b] \in VerifyTask
      BY <1>5, <2>2, TaskKinds
    <3>2. task'[b] = IF task[a].name \in InCommit THEN [task[b] EXCEPT !.torn = @ \cup {task[a].rev}] ELSE task[b]
      BY <1>2, <3>1
    <3>3. /\ task'[b].place = task[b].place /\ task'[b].from = task[b].from
          /\ task'[b].next = task[b].next /\ task'[b].upto = task[b].upto
          /\ task'[b].errors = task[b].errors /\ task'[b].warned = task[b].warned
          /\ task'[b].replaced = task[b].replaced /\ task'[b].cached = task[b].cached
          /\ task[b].torn \subseteq task'[b].torn /\ (task[a].name \in InCommit => task[a].rev \in task'[b].torn)
      BY <3>1, <3>2 DEF VerifyTask
    <3> QED BY <2>2, <3>1, <3>3 DEF SameWalk, SameVisit
  <2>3. CASE pc'[b] \notin {"copy", "visit"}
    BY <2>3 DEF SameWalk, SameVisit
  <2> QED BY <2>1, <2>2, <2>3
<1>7. ObjectsStay
  BY <1>4 DEF ObjectsStay
<1>8. \A r \in Rev : main'.commits[r] = Torn => main.commits[r] = Torn \/ (r = task[a].rev /\ task[a].name \in InCommit)
  BY <1>4
<1> QED BY <1>1, <1>6, <1>7, <1>8

LEMMA CopyTruncate ==
    ASSUME FilesInv, CopyInv, NEW a \in Admin, TruncateTorn(a)
    PROVE  CopyInv'
<1>1. TornInv'
  <2> SUFFICES ASSUME NEW b \in Admin, pc'[b] \in {"copy", "visit"}, NEW r \in Rev, main'.commits[r] = Torn
               PROVE  r \in task'[b].torn
    BY DEF TornInv
  <2>1. pc[b] \in {"copy", "visit"} /\ task[b].torn \subseteq task'[b].torn
    BY TruncateMarks DEF SameWalk, SameVisit
  <2>2. main.commits[r] = Torn => r \in task[b].torn
    BY <2>1 DEF CopyInv, TornInv
  <2> QED BY <2>1, <2>2, TruncateMarks
<1> QED BY <1>1, TruncateMarks, GrowsSelf, WalkStays

LEMMA CopyStarts ==
    ASSUME FilesInv, CopyInv, NEW a \in Admin, HotCopy(a)
    PROVE  CopyInv'
<1>1. copy' = NoDir /\ report' = [printed |-> "nothing"] /\ UNCHANGED <<main, beside>>
  BY DEF HotCopy, history
<1>2. copy'.head = 0 /\ \A r \in Rev : copy'.commits[r] = NoFile /\ copy'.blobs[r] = NoFile
  BY <1>1 DEF NoDir
<1>3. TornInv'
  <2> SUFFICES ASSUME NEW b \in Admin, pc'[b] \in {"copy", "visit"}, NEW r \in Rev, main.commits[r] = Torn
               PROVE  r \in task'[b].torn
    BY <1>1 DEF TornInv
  <2>1. CASE b = a
    BY <2>1, HotCopyTask
  <2>2. CASE b # a
    <3>1. pc[b] = "visit" /\ task'[b] = [task[b] EXCEPT !.replaced = (task[b].place = "copy")]
      BY <2>2, HotCopyTask
    <3>2. task[b] \in VerifyTask
      BY <3>1, TaskKinds
    <3>3. task'[b].torn = task[b].torn
      BY <3>1, <3>2 DEF VerifyTask
    <3> QED BY <3>1, <3>3 DEF CopyInv, TornInv
  <2> QED BY <2>1, <2>2
<1>4. OneWalk'
  BY HotCopyTask DEF OneWalk
<1>5. ASSUME NEW b \in Admin, pc'[b] = "copy" PROVE WalkInv(b)'
  <2>1. b = a
    BY <1>5, HotCopyTask
  <2>2. task'[b].todo = Slot /\ ~task'[b].headFirst /\ ~task'[b].published
    BY <2>1, HotCopyTask
  <2>3. Reach(b)' = main.head /\ 1..main.head \subseteq Rev /\ main.head >= 0
    BY <1>1, <2>2, HeadRevs, Types DEF Reach
  <2>4. Passed(b)'
    BY <2>2, <2>3, SlotsIn DEF Passed
  <2> QED BY <1>1, <1>2, <2>2, <2>3, <2>4, SlotsIn DEF WalkInv
<1>6. CopyReadable'
  BY <1>1 DEF CopyReadable
<1> QED BY <1>3, <1>4, <1>5, <1>6 DEF CopyInv

LEMMA CopyWalks ==
    ASSUME FilesInv, RowsInv, CopyInv, NEW a \in Admin, NEW s \in Slot, CopyFile(a, s)
    PROVE  CopyInv'
<1>1. copy' = Copied(s) /\ UNCHANGED <<main, pc, report, beside>>
  BY DEF CopyFile, history
<1>2. IsCopied(copy', s)
  BY <1>1, Types, CopiedFacts
<1>3. /\ pc[a] = "copy" /\ s \in task[a].todo
      /\ task'[a].todo = task[a].todo \ {s}
      /\ task'[a].headFirst = (IF s = HeadSlot THEN task[a].todo = Slot ELSE task[a].headFirst)
      /\ task'[a].skipped = (IF s = RowsSlot THEN wal # {} ELSE task[a].skipped)
      /\ task'[a].published = task[a].published /\ task'[a].torn = task[a].torn
      /\ \A b \in Admin \ {a} : task'[b] = task[b]
  BY CopyFileTask
<1>4. WalkInv(a) /\ copy.head <= main.head /\ report.printed = "nothing"
  BY <1>3 DEF CopyInv, WalkInv
<1>5. copy'.head = (IF s = HeadSlot THEN main.head ELSE copy.head) /\ copy'.rows = (IF s = RowsSlot THEN main.rows ELSE copy.rows)
  BY <1>2 DEF IsCopied
<1>6. \A r \in Rev :
         /\ copy'.commits[r] = (IF s = CommitSlot(r) THEN main.commits[r] ELSE copy.commits[r])
         /\ copy'.blobs[r] = (IF s = BlobSlot(r) THEN main.blobs[r] ELSE copy.blobs[r])
         /\ r \in copy'.deltas <=> (r \in copy.deltas \/ (s = DeltaSlot(r) /\ r \in main.deltas))
  BY <1>2 DEF IsCopied
<1>7. TornInv'
  <2>1. \A b \in Admin : task[b].torn \subseteq task'[b].torn
    BY <1>3
  <2> QED BY <1>1, <2>1, TornStays DEF CopyInv
<1>8. OneWalk'
  BY <1>1 DEF CopyInv, OneWalk
<1>9. CopyReadable'
  BY <1>1, <1>4 DEF CopyReadable
<1>10. WalkInv(a)'
  <2>1. main.head \in Int /\ copy.head \in Int /\ 1..main.head \subseteq Rev
    BY Types, HeadRevs
  <2>2. copy'.head <= main.head
    BY <1>4, <1>5, <2>1
  <2>3. HeadSlot \in task'[a].todo => copy'.head = 0 /\ ~task'[a].headFirst
    BY <1>3, <1>4, <1>5 DEF WalkInv
  <2>4. HeadSlot \notin task'[a].todo /\ ~task'[a].published => copy'.head = main.head
    BY <1>3, <1>4, <1>5 DEF WalkInv
  <2>5. \A r \in Rev :
          /\ CommitSlot(r) \in task'[a].todo => copy'.commits[r] = NoFile
          /\ BlobSlot(r) \in task'[a].todo => copy'.blobs[r] = NoFile \/ main.blobs[r] # NoFile
    BY <1>3, <1>4, <1>6 DEF WalkInv
  <2>6. CASE s = HeadSlot /\ task[a].todo = Slot
    <3>1. 1..Reach(a)' \subseteq Rev
      BY <1>1, <1>5, <2>1, <2>6 DEF Reach
    <3>2. RowsSlot \in task'[a].todo
          /\ \A r \in Rev : CommitSlot(r) \in task'[a].todo /\ DeltaSlot(r) \in task'[a].todo /\ BlobSlot(r) \in task'[a].todo
      BY <1>3, <2>6, SlotsIn, SlotsDiffer
    <3>3. Passed(a)'
      BY <3>1, <3>2 DEF Passed
    <3> QED BY <1>1, <1>4, <2>2, <2>3, <2>4, <2>5, <3>3 DEF WalkInv
  <2>7. CASE ~(s = HeadSlot /\ task[a].todo = Slot)
    <3>1. ASSUME task'[a].headFirst \/ ~task'[a].published PROVE Passed(a)'
      <4>1. Passed(a)
        BY <1>3, <1>4, <2>7, <3>1 DEF WalkInv
      <4>2. Reach(a)' = Reach(a)
        <5>1. CASE s = HeadSlot
          <6>1. ~task[a].published
            BY <1>3, <2>7, <3>1, <5>1
          <6> QED BY <1>1, <1>3, <6>1 DEF Reach
        <5>2. CASE s # HeadSlot
          BY <1>1, <1>3, <1>5, <5>2 DEF Reach
        <5> QED BY <5>1, <5>2
      <4>3. 1..Reach(a) \subseteq 1..main.head /\ 1..Reach(a) \subseteq Rev
        BY <1>4, SlotBounds
      <4>4. ASSUME NEW r \in 1..Reach(a)
            PROVE  /\ CommitSlot(r) \notin task'[a].todo =>
                         copy'.commits[r] # NoFile /\ (copy'.commits[r] = Torn => r \in task'[a].torn)
                   /\ DeltaSlot(r) \notin task'[a].todo => r \in copy'.deltas
                   /\ BlobSlot(r) \notin task'[a].todo => copy'.blobs[r] # NoFile
        <5>1. r \in Rev /\ r \in main.deltas /\ main.blobs[r] # NoFile /\ main.commits[r] # NoFile
          BY <4>3 DEF FilesInv, PublishedInv
        <5>2. main.commits[r] = Torn => r \in task[a].torn
          BY <1>3, <5>1 DEF CopyInv, TornInv
        <5>3. /\ CommitSlot(r) \notin task[a].todo =>
                    copy.commits[r] # NoFile /\ (copy.commits[r] = Torn => r \in task[a].torn)
              /\ DeltaSlot(r) \notin task[a].todo => r \in copy.deltas
              /\ BlobSlot(r) \notin task[a].todo => copy.blobs[r] # NoFile
          BY <4>1 DEF Passed
        <5> QED BY <1>3, <1>6, <5>1, <5>2, <5>3
      <4>5. RowsSlot \notin task'[a].todo /\ ~task'[a].skipped /\ ~beside => 1..Reach(a) \subseteq copy'.rows
        <5> SUFFICES ASSUME RowsSlot \notin task'[a].todo, ~task'[a].skipped, ~beside
                     PROVE  1..Reach(a) \subseteq copy'.rows
          OBVIOUS
        <5>1. CASE s = RowsSlot
          <6>1. wal = {} /\ 1..main.head \subseteq main.rows \cup wal
            BY <1>3, <5>1 DEF RowsInv
          <6> QED BY <1>5, <4>3, <5>1, <6>1
        <5>2. CASE s # RowsSlot
          BY <1>3, <1>5, <4>1, <5>2 DEF Passed
        <5> QED BY <5>1, <5>2
      <4> QED BY <1>1, <4>2, <4>4, <4>5 DEF Passed
    <3> QED BY <1>1, <1>4, <2>2, <2>3, <2>4, <2>5, <3>1 DEF WalkInv
  <2> QED BY <2>6, <2>7
<1>11. ASSUME NEW b \in Admin, pc'[b] = "copy" PROVE WalkInv(b)'
  <2>1. b = a
    BY <1>1, <1>3, <1>11 DEF CopyInv, OneWalk
  <2> QED BY <1>10, <2>1
<1> QED BY <1>7, <1>8, <1>9, <1>11 DEF CopyInv

LEMMA WholeFrom ==
    ASSUME NEW d \in Directory, NEW h \in 0..MaxRev, NEW r \in 1..h,
           HasCommit(d, r), \A k \in 1..h : k \in d.deltas /\ d.blobs[k] # NoFile
    PROVE  Whole(d, r)
<1>1. MaxRev \in Nat /\ r \in Int /\ r >= 1 /\ \A k \in 1..r : k \in 1..h
  BY AdminAssumption
<1>2. 0 <= r /\ (0 + 1)..r \subseteq d.deltas
  BY <1>1
<1>3. TreeFound(d, r, {})
  BY <1>2 DEF TreeFound
<1>4. MissingBlobs(d, r) = {}
  BY <1>1 DEF MissingBlobs
<1> QED BY <1>3, <1>4 DEF Whole

LEMMA CopyEnds ==
    ASSUME FilesInv, CopyInv, NEW a \in Admin, EndCopy(a)
    PROVE  CopyInv'
<1>1. pc[a] = "copy" /\ task[a].todo = {} /\ End(a) /\ beside' = (beside \/ Packing)
      /\ report'.headFirst = task[a].headFirst /\ report'.published = task[a].published
      /\ report'.skipped = task[a].skipped /\ report'.torn = task[a].torn
  BY DEF EndCopy
<1>2. pc'[a] = "none" /\ \A b \in Admin \ {a} : pc'[b] = pc[b] /\ task'[b] = task[b]
  BY <1>1, EndFacts
<1>3. SameFiles(main', main) /\ copy' \in Directory /\ SameFiles(copy', copy) /\ copy'.rows = Filled(copy, copy.rows)
  BY EndCopyMain
<1>4. copy \in Directory /\ copy.head \in 0..MaxRev /\ MaxRev \in Nat
  BY Types
<1>5. WalkInv(a) /\ 1..copy.head \subseteq Rev
  BY <1>1, <1>4 DEF CopyInv, Rev
<1>6. \A b \in Admin : pc'[b] # "copy"
  BY <1>1, <1>2 DEF CopyInv, OneWalk
<1>7. TornInv'
  BY <1>2, <1>3, TornStays DEF CopyInv, SameFiles
<1>8. OneWalk'
  BY <1>6 DEF OneWalk
<1>9. CopyReadable'
  <2> SUFFICES ASSUME task[a].headFirst \/ ~task[a].published
               PROVE  /\ \A r \in 1..copy.head : r \notin task[a].torn => Whole(copy', r)
                      /\ task[a].skipped \/ beside' \/ 1..copy.head \subseteq copy'.rows
    BY <1>1, <1>3 DEF CopyReadable, SameFiles
  <2>1. Passed(a) /\ Reach(a) = copy.head
    BY <1>1, <1>5 DEF WalkInv, Reach
  <2>2. \A r \in 1..copy.head : /\ copy.commits[r] # NoFile /\ (copy.commits[r] = Torn => r \in task[a].torn)
                                /\ r \in copy.deltas /\ copy.blobs[r] # NoFile
    BY <1>1, <2>1 DEF Passed
  <2>3. \A k \in 1..copy.head : k \in copy'.deltas /\ copy'.blobs[k] # NoFile
    BY <1>3, <2>2 DEF SameFiles
  <2>4. ASSUME NEW r \in 1..copy.head, r \notin task[a].torn PROVE Whole(copy', r)
    <3>1. HasCommit(copy', r)
      BY <1>3, <2>2, <2>4 DEF HasCommit, SameFiles
    <3> QED BY <1>3, <1>4, <2>3, <3>1, WholeFrom
  <2>5. copy.rows \subseteq copy'.rows
    <3>1. copy.rows \in SUBSET Rev
      BY <1>4 DEF Directory
    <3> QED BY <1>3, <1>4, <3>1, FilledRows
  <2>6. task[a].skipped \/ beside \/ 1..copy.head \subseteq copy.rows
    BY <1>1, <2>1 DEF Passed
  <2> QED BY <1>1, <2>4, <2>5, <2>6
<1> QED BY <1>6, <1>7, <1>8, <1>9 DEF CopyInv

\* opening the copy only adds rows to it
LEMMA CopyOpened ==
    ASSUME FilesInv, copy' = [copy EXCEPT !.rows = Filled(copy, @)]
    PROVE  CopyGrows
<1>1. copy \in Directory /\ copy.rows \in SUBSET Rev
  BY Types DEF Directory
<1>2. SameFiles(copy', copy) /\ copy'.rows = Filled(copy, copy.rows)
  BY <1>1, FilledDir
<1> QED BY <1>1, <1>2, FilledRows DEF CopyGrows, SameFiles

LEMMA VerifyDirs ==
    ASSUME FilesInv, NEW a \in Admin, NEW p \in {"main", "copy"}, NEW from \in Rev, NEW to \in Rev, Verify(a, p, from, to)
    PROVE  MainGrows /\ CopyGrows /\ (beside => beside') /\ UNCHANGED <<main, report, verdict>>
<1>1. UNCHANGED <<main, report, verdict>>
  BY DEF Verify
<1>2. CopyGrows /\ (beside => beside')
  <2>1. CASE OpenMain /\ UNCHANGED copy
    BY <2>1, GrowsSelf DEF OpenMain
  <2>2. CASE copy' = [copy EXCEPT !.rows = Filled(copy, @)] /\ UNCHANGED beside
    BY <2>2, CopyOpened
  <2> QED BY <2>1, <2>2 DEF Verify
<1> QED BY <1>1, <1>2, GrowsSelf

LEMMA CopyVerifyStarts ==
    ASSUME FilesInv, CopyInv, NEW a \in Admin, NEW p \in {"main", "copy"}, NEW from \in Rev, NEW to \in Rev, Verify(a, p, from, to)
    PROVE  CopyInv'
<1>1. PICK t \in VerifyTask : Goto(a, "visit", t) /\ Started(t, p, from)
  BY VerifyTaskStarts
<1>2. /\ pc'[a] = "visit" /\ task'[a] = t
      /\ \A b \in Admin \ {a} : pc'[b] = pc[b] /\ task'[b] = task[b]
  BY <1>1, GotoFacts
<1>3. \A b \in Admin : SameWalk(b)
  BY <1>2 DEF SameWalk
<1>4. TornInv'
  <2> SUFFICES ASSUME NEW b \in Admin, pc'[b] \in {"copy", "visit"}, NEW r \in Rev, main.commits[r] = Torn
               PROVE  r \in task'[b].torn
    BY VerifyDirs DEF TornInv
  <2>1. CASE b = a
    BY <1>1, <1>2, <2>1 DEF Started
  <2>2. CASE b # a
    BY <1>2, <2>2 DEF CopyInv, TornInv
  <2> QED BY <2>1, <2>2
<1> QED BY <1>3, <1>4, VerifyDirs, WalkStays DEF MainGrows

LEMMA CopyVisits ==
    ASSUME FilesInv, CopyInv, NEW a \in Admin, VisitRev(a)
    PROVE  CopyInv'
<1>1. UNCHANGED <<main, copy, pc, report, beside>>
  BY DEF VisitRev, history
<1>2. pc[a] = "visit" /\ task'[a].torn = task[a].torn /\ \A b \in Admin \ {a} : task'[b] = task[b]
  BY VisitRevTask
<1>3. \A b \in Admin : SameWalk(b) /\ task[b].torn \subseteq task'[b].torn
  BY <1>1, <1>2 DEF SameWalk
<1>4. TornInv'
  BY <1>1, <1>3, TornStays DEF CopyInv
<1> QED BY <1>1, <1>3, <1>4, GrowsSelf, WalkStays DEF MainGrows

LEMMA EndVerifyDirs ==
    ASSUME FilesInv, NEW a \in Admin, NEW transfer \in BOOLEAN, EndVerify(a, transfer)
    PROVE  /\ MainGrows /\ CopyGrows /\ UNCHANGED <<beside, report>>
           /\ pc'[a] = "none" /\ \A b \in Admin \ {a} : pc'[b] = pc[b] /\ task'[b] = task[b]
<1>1. End(a) /\ UNCHANGED <<beside, report>> /\ copy' = IF transfer THEN Fetched(a) ELSE copy
  BY DEF EndVerify, history
<1>2. MainGrows
  <2>1. CASE CloseMain(a, main)
    BY <2>1, Types, ClosedMain, GrowsSelf
  <2>2. CASE UNCHANGED main
    BY <2>2, GrowsSelf
  <2> QED BY <2>1, <2>2 DEF EndVerify
<1>3. CopyGrows
  <2>1. CASE copy' = Fetched(a)
    BY <2>1, FetchedFacts DEF CopyGrows
  <2>2. CASE copy' = copy
    BY <2>2, GrowsSelf
  <2> QED BY <1>1, <2>1, <2>2
<1> QED BY <1>1, <1>2, <1>3, EndFacts

LEMMA CopyVerifyEnds ==
    ASSUME FilesInv, CopyInv, NEW a \in Admin, NEW transfer \in BOOLEAN, EndVerify(a, transfer)
    PROVE  CopyInv'
<1>1. \A b \in Admin : SameWalk(b)
  BY EndVerifyDirs DEF SameWalk
<1>2. TornInv'
  BY EndVerifyDirs, TornStays DEF CopyInv, MainGrows
<1> QED BY <1>1, <1>2, EndVerifyDirs, WalkStays DEF MainGrows

LEMMA CopyInit == Init => CopyInv
<1> SUFFICES ASSUME Init PROVE CopyInv
  OBVIOUS
<1>1. report.printed = "nothing" /\ \A a \in Admin : pc[a] = "none"
  BY DEF Init
<1> QED BY <1>1 DEF CopyInv, TornInv, OneWalk, CopyReadable

LEMMA CopyUnchanged ==
    ASSUME FilesInv, CopyInv, UNCHANGED vars
    PROVE  CopyInv'
<1>1. UNCHANGED <<main, copy, report, verdict, pc, task, beside>>
  BY DEF vars, history
<1>2. PlainStep
  BY <1>1, GrowsSelf DEF PlainStep, SameWalk, SameVisit
<1> QED BY <1>2, CopyPlain

\* the steps of a command that are neither of a walk nor of a visit
PlainStepOf(a) ==
    \/ \E op \in {"set", "delete"}, r \in Rev, n \in Name, v \in Value \cup {NoValue} : Change(a, op, r, n, v)
    \/ ReadCommit(a) \/ HookAccepts(a) \/ HookRejects(a) \/ Load(a) \/ WriteFile(a)
    \/ Pack(a) \/ RemoveTmp(a) \/ Vacuum(a) \/ RemoveWal(a) \/ Die(a)

LEMMA CommandKinds ==
    ASSUME FilesInv, NEW a \in Admin, CommandStepOf(a)
    PROVE  \/ PlainStep \/ TruncateTorn(a)
           \/ HotCopy(a) \/ (\E s \in Slot : CopyFile(a, s)) \/ EndCopy(a)
           \/ \E p \in {"main", "copy"}, from, to \in Rev : Verify(a, p, from, to)
           \/ VisitRev(a) \/ (\E transfer \in BOOLEAN : EndVerify(a, transfer))
<1>1. PlainStepOf(a) => PlainStep
  BY PlainCommand DEF PlainStepOf
<1>2. TruncateFile(a) => PlainStep \/ TruncateTorn(a)
  BY PlainTruncate DEF TruncateTorn
<1> QED BY <1>1, <1>2 DEF CommandStepOf, PlainStepOf

LEMMA CopyCommandStep ==
    ASSUME FilesInv, RowsInv, CopyInv, NEW a \in Admin, CommandStepOf(a)
    PROVE  CopyInv'
BY CommandKinds, CopyPlain, CopyTruncate, CopyStarts, CopyWalks, CopyEnds, CopyVerifyStarts, CopyVisits,
   CopyVerifyEnds

LEMMA CopyServerStep ==
    ASSUME FilesInv, CopyInv, ServerStep
    PROVE  CopyInv'
BY PlainServer, CopyPlain, CopyPublish

LEMMA CopyNext == FilesInv /\ RowsInv /\ CopyInv /\ [Next]_vars => CopyInv'
BY Steps, CopyServerStep, CopyCommandStep, CopyUnchanged

(***************************************************************************)
(* hotcopy beside a committing server: a copy whose head was copied first, *)
(* or during which nothing was published, can be read back up to its head, *)
(* in whatever order the walk lists the other directories and files and    *)
(* whatever else runs meanwhile.                                           *)
(***************************************************************************)
THEOREM CopySafe == Spec => []CopyReadable
<1>1. Init => FilesInv /\ RowsInv /\ CopyInv
  BY FilesInit, RowsInit, CopyInit
<1>2. FilesInv /\ RowsInv /\ CopyInv /\ [Next]_vars => (FilesInv /\ RowsInv /\ CopyInv)'
  BY FilesNext, RowsNext, CopyNext
<1>3. CopyInv => CopyReadable
  BY DEF CopyInv
<1> QED BY <1>1, <1>2, <1>3, PTL DEF Spec

-----------------------------------------------------------------------------
(***************************************************************************)
(* verify.  Only a hotcopy takes away what a visit has found in the copy.  *)
(***************************************************************************)
LEMMA ThereStays ==
    ASSUME CopyGrows, NEW r \in Rev, There(r)
    PROVE  There(r)'
<1>1. \A k \in 1..r : k \in Rev /\ copy.blobs[k] # NoFile
  BY AdminAssumption DEF There, MissingBlobs, Rev
<1>2. \A k \in 1..r : copy'.blobs[k] # NoFile
  BY <1>1 DEF CopyGrows
<1>3. MissingBlobs(copy, r)' = {}
  BY <1>2 DEF MissingBlobs
<1>4. HasCommit(copy, r)' /\ (r \in copy'.deltas \/ r \in copy'.trees)
  BY DEF CopyGrows, There, HasCommit
<1> QED BY <1>3, <1>4 DEF There

LEMMA VisitKept ==
    ASSUME FilesInv, NEW b \in Admin, pc'[b] = "visit", SameVisit(b), VisitInv(b),
           main'.head >= main.head, main'.head \in Int,
           \A r \in Rev : There(r) => There(r)'
    PROVE  VisitInv(b)'
<1>1. /\ pc[b] = "visit" /\ task'[b].place = task[b].place /\ task'[b].from = task[b].from
      /\ task'[b].next = task[b].next /\ task'[b].upto = task[b].upto
      /\ task'[b].errors = task[b].errors /\ task'[b].warned = task[b].warned
      /\ task'[b].replaced = task[b].replaced /\ task[b].torn \subseteq task'[b].torn
      /\ task'[b].cached = task[b].cached
  BY DEF SameVisit
<1>2. task[b] \in VerifyTask
  BY <1>1, TaskKinds
<1>3. task[b].from \in Rev /\ task[b].next \in Nat /\ task[b].upto \in 0..MaxRev /\ MaxRev \in Nat /\ main.head \in Int
  BY <1>2, Types DEF VerifyTask
<1>4. \A r \in task[b].from..(task[b].next - 1) : r \in Rev
  BY <1>3 DEF VisitInv, Rev
<1>5. task[b].upto <= main.head => task[b].upto <= main'.head
  BY <1>3
<1> QED BY <1>1, <1>4, <1>5 DEF VisitInv

LEMMA VerdictKept ==
    ASSUME FilesInv, VerdictInv, verdict' = verdict, main'.head >= main.head, main'.head \in Int,
           \A r \in Rev : There(r) => There(r)'
    PROVE  VerdictInv'
<1> SUFFICES ASSUME verdict.printed # "nothing"
             PROVE  /\ verdict.place \in {"main", "copy"} /\ verdict.from \in Rev /\ verdict.upto \in 0..MaxRev
                    /\ verdict.place = "main" =>
                          verdict.upto <= main'.head /\ (verdict.printed = "errors" => verdict.torn # {})
                    /\ verdict.place = "copy" /\ verdict.printed = "healthy" /\ ~verdict.replaced =>
                          \A r \in verdict.from..verdict.upto : There(r)'
  BY DEF VerdictInv
<1>1. verdict.place \in {"main", "copy"} /\ verdict.from \in Rev /\ verdict.upto \in 0..MaxRev
  BY DEF VerdictInv
<1>2. verdict.upto <= main.head => verdict.upto <= main'.head
  BY <1>1, Types
<1>3. \A r \in verdict.from..verdict.upto : r \in Rev
  <2> DEFINE f == verdict.from
             u == verdict.upto
  <2>1. f \in 1..MaxRev /\ u \in 0..MaxRev /\ MaxRev \in Nat
    BY <1>1, Types DEF Rev
  <2> HIDE DEF f, u
  <2>2. \A r \in f..u : r \in 1..MaxRev
    BY <2>1
  <2> QED BY <2>2 DEF f, u, Rev
<1> QED BY <1>1, <1>2, <1>3 DEF VerdictInv

LEMMA VerifyKept ==
    ASSUME FilesInv, VerifyInv, verdict' = verdict, main'.head >= main.head, main'.head \in Int,
           \A r \in Rev : There(r) => There(r)', \A b \in Admin : SameVisit(b)
    PROVE  VerifyInv'
<1>1. \A b \in Admin : pc'[b] = "visit" => VisitInv(b)
  BY DEF VerifyInv, SameVisit
<1> QED BY <1>1, VisitKept, VerdictKept DEF VerifyInv

LEMMA VerifyPlain ==
    ASSUME FilesInv, VerifyInv, PlainStep
    PROVE  VerifyInv'
<1>1. main'.head = main.head /\ main.head \in Int
  BY Types DEF PlainStep, MainGrows, ObjectsStay
<1> QED BY <1>1, ThereStays, VerifyKept DEF PlainStep

LEMMA VerifyPublish ==
    ASSUME FilesInv, VerifyInv, SaveHead
    PROVE  VerifyInv'
<1>1. main' = [main EXCEPT !.head = rev + 1] /\ server = "delta" /\ UNCHANGED <<copy, pc, verdict>>
      /\ task' = [a \in Admin |-> IF pc[a] = "copy" THEN [task[a] EXCEPT !.published = TRUE] ELSE task[a]]
  BY DEF SaveHead, Published
<1>2. main \in Directory /\ rev = main.head /\ main.head \in 0..MaxRev
  BY <1>1, Types DEF FilesInv, ServerInv
<1>3. main'.head = main.head + 1
  BY <1>1, <1>2 DEF Directory
<1>4. \A b \in Admin : pc[b] = "visit" => task'[b] = task[b]
  BY <1>1, Zenon
<1>5. \A b \in Admin : SameVisit(b)
  BY <1>1, <1>4 DEF SameVisit
<1> QED BY <1>1, <1>2, <1>3, <1>5, GrowsSelf, ThereStays, VerifyKept

LEMMA VerifyTruncate ==
    ASSUME FilesInv, VerifyInv, NEW a \in Admin, TruncateTorn(a)
    PROVE  VerifyInv'
<1>1. main'.head = main.head /\ main.head \in Int /\ CopyGrows
  BY TruncateMarks, GrowsSelf, Types DEF ObjectsStay
<1> QED BY <1>1, TruncateMarks, ThereStays, VerifyKept

LEMMA ThereWalked ==
    ASSUME FilesInv, CopyInv, NEW a \in Admin, NEW s \in Slot, CopyFile(a, s), NEW r \in Rev, There(r)
    PROVE  There(r)'
<1>1. copy' = Copied(s)
  BY DEF CopyFile
<1>2. IsCopied(copy', s)
  BY <1>1, Types, CopiedFacts
<1>3. pc[a] = "copy" /\ s \in task[a].todo
  BY DEF CopyFile
<1>4. \A k \in Rev : /\ CommitSlot(k) \in task[a].todo => copy.commits[k] = NoFile
                     /\ BlobSlot(k) \in task[a].todo => copy.blobs[k] = NoFile \/ main.blobs[k] # NoFile
  BY <1>3 DEF CopyInv, WalkInv
<1>5. copy.commits[r] \notin {NoFile, Torn} /\ (r \in copy.deltas \/ r \in copy.trees)
  BY DEF There, HasCommit
<1>6. copy'.commits[r] = copy.commits[r] /\ (r \in copy'.deltas \/ r \in copy'.trees)
  <2>1. copy'.commits[r] = copy.commits[r] /\ (r \in copy.deltas => r \in copy'.deltas)
    BY <1>2, <1>3, <1>4, <1>5 DEF IsCopied
  <2>2. copy.trees \subseteq copy'.trees
    BY <1>1, Types, CopiedTrees
  <2> QED BY <1>5, <2>1, <2>2
<1>7. \A k \in 1..r : k \in Rev /\ copy.blobs[k] # NoFile
  BY AdminAssumption DEF There, MissingBlobs, Rev
<1>8. \A k \in 1..r : copy'.blobs[k] # NoFile
  BY <1>2, <1>3, <1>4, <1>7 DEF IsCopied
<1>9. MissingBlobs(copy, r)' = {}
  BY <1>8 DEF MissingBlobs
<1> QED BY <1>5, <1>6, <1>9 DEF There, HasCommit

LEMMA VerifyWalks ==
    ASSUME FilesInv, CopyInv, VerifyInv, NEW a \in Admin, NEW s \in Slot, CopyFile(a, s)
    PROVE  VerifyInv'
<1>1. UNCHANGED <<main, pc, verdict>>
  BY DEF CopyFile
<1>2. pc[a] = "copy" /\ \A b \in Admin \ {a} : task'[b] = task[b]
  BY CopyFileTask
<1>3. \A b \in Admin : SameVisit(b)
  BY <1>1, <1>2 DEF SameVisit
<1>4. main'.head >= main.head /\ main'.head \in Int
  BY <1>1, Types
<1> QED BY <1>1, <1>3, <1>4, ThereWalked, VerifyKept

LEMMA VerifyCopyEnds ==
    ASSUME FilesInv, VerifyInv, NEW a \in Admin, EndCopy(a)
    PROVE  VerifyInv'
<1>1. End(a) /\ verdict' = verdict /\ copy' = [copy EXCEPT !.rows = Filled(copy, @)]
  BY DEF EndCopy
<1>2. pc'[a] = "none" /\ \A b \in Admin \ {a} : pc'[b] = pc[b] /\ task'[b] = task[b]
  BY <1>1, EndFacts
<1>3. \A b \in Admin : SameVisit(b)
  BY <1>2 DEF SameVisit
<1>4. main'.head >= main.head /\ main'.head \in Int
  BY EndCopyMain, Types DEF SameFiles
<1>5. CopyGrows
  BY <1>1, CopyOpened
<1> QED BY <1>1, <1>3, <1>4, <1>5, ThereStays, VerifyKept

\* a new copy: no verdict on the old one is left, and its visits are marked
LEMMA VerifyCopyStarts ==
    ASSUME FilesInv, VerifyInv, NEW a \in Admin, HotCopy(a)
    PROVE  VerifyInv'
<1>1. main' = main /\ main.head \in Int
  BY Types DEF HotCopy
<1>2. VerdictInv'
  <2>1. CASE verdict.printed # "nothing" /\ verdict.place = "copy"
    <3>1. verdict' = [printed |-> "nothing"]
      BY <2>1 DEF HotCopy
    <3>2. verdict'.printed = "nothing"
      BY <3>1
    <3> QED BY <3>2 DEF VerdictInv
  <2>2. CASE ~(verdict.printed # "nothing" /\ verdict.place = "copy")
    <3>1. verdict' = verdict
      BY <2>2 DEF HotCopy
    <3> QED BY <1>1, <2>2, <3>1 DEF VerifyInv, VerdictInv
  <2> QED BY <2>1, <2>2
<1>3. ASSUME NEW b \in Admin, pc'[b] = "visit" PROVE VisitInv(b)'
  <2>1. pc[b] = "visit" /\ task'[b] = [task[b] EXCEPT !.replaced = (task[b].place = "copy")]
    BY <1>3, HotCopyTask
  <2>2. task[b] \in VerifyTask /\ VisitInv(b)
    BY <2>1, TaskKinds DEF VerifyInv
  <2>3. /\ task'[b].place = task[b].place /\ task'[b].from = task[b].from /\ task'[b].next = task[b].next
        /\ task'[b].upto = task[b].upto /\ task'[b].errors = task[b].errors /\ task'[b].torn = task[b].torn
        /\ task'[b].cached = task[b].cached /\ (task[b].place = "copy" => task'[b].replaced)
    BY <2>1, <2>2 DEF VerifyTask
  <2> QED BY <1>1, <2>2, <2>3 DEF VisitInv
<1> QED BY <1>2, <1>3 DEF VerifyInv

LEMMA VerifyStarts ==
    ASSUME FilesInv, VerifyInv, NEW a \in Admin, NEW p \in {"main", "copy"}, NEW from \in Rev, NEW to \in Rev, Verify(a, p, from, to)
    PROVE  VerifyInv'
<1>1. PICK t \in VerifyTask : Goto(a, "visit", t) /\ Started(t, p, from)
  BY VerifyTaskStarts
<1>2. /\ pc'[a] = "visit" /\ task'[a] = t
      /\ \A b \in Admin \ {a} : pc'[b] = pc[b] /\ task'[b] = task[b]
  BY <1>1, GotoFacts
<1>3. main' = main /\ verdict' = verdict /\ main.head \in Int /\ \A r \in Rev : There(r) => There(r)'
  BY VerifyDirs, ThereStays, Types
<1>4. VerdictInv'
  BY <1>3, VerdictKept DEF VerifyInv
<1>5. ASSUME NEW b \in Admin, b # a, pc'[b] = "visit" PROVE VisitInv(b)'
  <2>1. SameVisit(b) /\ VisitInv(b)
    BY <1>2, <1>5 DEF SameVisit, VerifyInv
  <2> QED BY <1>3, <1>5, <2>1, VisitKept
<1>6. VisitInv(a)'
  <2>1. from \in Int /\ \A r : r \notin from..(from - 1)
    BY DEF Rev
  <2> QED BY <1>1, <1>2, <1>3, <2>1 DEF Started, VisitInv
<1> QED BY <1>4, <1>5, <1>6 DEF VerifyInv

\* what is published in the served directory is found there, but for a torn commit file
LEMMA MainFound ==
    ASSUME FilesInv, NEW r \in 1..main.head, NEW cached
    PROVE  TreeFound(main, r, cached) /\ MissingBlobs(main, r) = {} /\ (HasCommit(main, r) \/ main.commits[r] = Torn)
<1>1. main.head \in 0..MaxRev /\ MaxRev \in Nat
  BY Types
<1>2. 0 <= r /\ \A k \in 1..r : k \in 1..main.head
  BY <1>1
<1>3. (0 + 1)..r \subseteq main.deltas /\ MissingBlobs(main, r) = {}
  BY <1>2 DEF FilesInv, PublishedInv, MissingBlobs
<1>4. TreeFound(main, r, cached)
  BY <1>2, <1>3 DEF TreeFound
<1>5. HasCommit(main, r) \/ main.commits[r] = Torn
  BY DEF FilesInv, PublishedInv, HasCommit
<1> QED BY <1>3, <1>4, <1>5

LEMMA VerifyVisits ==
    ASSUME FilesInv, CopyInv, VerifyInv, NEW a \in Admin, VisitRev(a)
    PROVE  VerifyInv'
<1> DEFINE r == task[a].next
           d == Place(task[a].place)
           found == HasCommit(d, r) /\ TreeFound(d, r, task[a].cached)
<1>1. UNCHANGED <<main, copy, pc, verdict>> /\ main.head \in Int
  <2>1. UNCHANGED <<main, copy, pc, verdict>>
    BY DEF VisitRev
  <2>2. main.head \in Int
    BY Types
  <2> QED BY <2>1, <2>2
<1>2. /\ pc[a] = "visit" /\ task[a] \in VerifyTask /\ r \in Rev /\ r <= task[a].upto
      /\ task'[a].next = r + 1
      /\ task'[a].cached = (IF found THEN task[a].cached \cup {r} ELSE task[a].cached)
      /\ task'[a].errors = (task[a].errors \/ ~found \/ MissingBlobs(d, r) # {})
      /\ task'[a].place = task[a].place /\ task'[a].from = task[a].from /\ task'[a].upto = task[a].upto
      /\ task'[a].replaced = task[a].replaced /\ task'[a].torn = task[a].torn
      /\ \A b \in Admin \ {a} : task'[b] = task[b]
  BY VisitRevTask
<1>3. \A k \in Rev : There(k) => There(k)'
  BY <1>1, GrowsSelf, ThereStays
<1>4. VerdictInv'
  BY <1>1, <1>3, VerdictKept DEF VerifyInv
<1>5. ASSUME NEW b \in Admin, b # a, pc'[b] = "visit" PROVE VisitInv(b)'
  <2>1. SameVisit(b) /\ VisitInv(b)
    BY <1>1, <1>2, <1>5 DEF SameVisit, VerifyInv
  <2> QED BY <1>1, <1>3, <1>5, <2>1, VisitKept
<1>6. VisitInv(a)'
  <2>1. VisitInv(a) /\ task[a].from \in Rev /\ task[a].upto \in 0..MaxRev /\ MaxRev \in Nat
    BY <1>2, Types DEF VerifyInv, VerifyTask
  <2>2. r \in Int /\ task[a].from <= r + 1 /\ r + 1 <= task[a].upto + 1
    BY <1>2, <2>1 DEF VisitInv, Rev
  <2>3. ASSUME task[a].place = "main", task'[a].errors PROVE task[a].torn # {}
    <3>1. d = main /\ r \in 1..main.head
      BY <1>1, <1>2, <2>1, <2>2, <2>3 DEF Place, VisitInv, Rev
    <3>2. TreeFound(d, r, task[a].cached) /\ MissingBlobs(d, r) = {} /\ (HasCommit(d, r) \/ main.commits[r] = Torn)
      BY <3>1, MainFound
    <3>3. CASE task[a].errors
      BY <2>1, <2>3, <3>3 DEF VisitInv
    <3>4. CASE main.commits[r] = Torn
      BY <1>2, <3>4 DEF CopyInv, TornInv
    <3> QED BY <1>2, <2>3, <3>2, <3>3, <3>4
  <2>4. ASSUME task[a].place = "copy", ~task'[a].errors, ~task[a].replaced,
               NEW k \in task[a].from..r
        PROVE  There(k)
    <3>1. d = copy /\ ~task[a].errors /\ found /\ MissingBlobs(d, r) = {}
      BY <1>2, <2>4 DEF Place
    <3>2. CASE k = r
      <4>1. \A b \in task[a].cached \cup {0} : b \in Int /\ b < r
        BY <1>2, <2>1 DEF VisitInv, VerifyTask, Rev
      <4>2. \A b \in task[a].cached \cup {0} : r \in (b + 1)..r
        BY <2>2, <4>1
      <4>3. r \in copy.deltas \/ r \in copy.trees
        BY <3>1, <4>2 DEF TreeFound
      <4> QED BY <3>1, <3>2, <4>3 DEF There
    <3>3. CASE k # r
      <4>1. k \in task[a].from..(r - 1)
        BY <2>1, <2>2, <3>3 DEF Rev
      <4> QED BY <2>1, <2>4, <3>1, <4>1 DEF VisitInv
    <3> QED BY <3>2, <3>3
  <2>5. (r + 1) - 1 = r
    BY <2>2
  <2>6. \A k : There(k)' = There(k)
    BY <1>1 DEF There, HasCommit, MissingBlobs
  <2> HIDE DEF found, d, r
  <2>7. task'[a].next - 1 = r /\ task'[a].next = r + 1
    BY <1>2, <2>5
  <2>8. task[a].place = "main" => task[a].upto <= main.head
    BY <2>1 DEF VisitInv
  <2>9. \A k \in task'[a].cached : k < task'[a].next
    <3>1. task'[a].cached \subseteq task[a].cached \cup {r} /\ r \in Int
      BY <1>2, <2>2
    <3>2. \A k \in task[a].cached : k \in Int /\ k < r
      BY <1>2, <2>1 DEF VisitInv, VerifyTask, Rev, r
    <3> QED BY <2>7, <3>1, <3>2
  <2> QED BY <1>1, <1>2, <2>2, <2>3, <2>4, <2>6, <2>7, <2>8, <2>9 DEF VisitInv
<1> QED BY <1>4, <1>5, <1>6 DEF VerifyInv

LEMMA VerifyEnds ==
    ASSUME FilesInv, VerifyInv, NEW a \in Admin, NEW transfer \in BOOLEAN, EndVerify(a, transfer)
    PROVE  VerifyInv'
<1>1. /\ pc[a] = "visit" /\ task[a].next > task[a].upto
      /\ verdict' = [printed |-> IF task[a].errors THEN "errors" ELSE "healthy", place |-> task[a].place,
                     warned |-> task[a].warned, replaced |-> task[a].replaced,
                     from |-> task[a].from, upto |-> task[a].upto, torn |-> task[a].torn]
  BY DEF EndVerify
<1>2. /\ verdict'.printed = (IF task[a].errors THEN "errors" ELSE "healthy") /\ verdict'.place = task[a].place
      /\ verdict'.warned = task[a].warned /\ verdict'.replaced = task[a].replaced
      /\ verdict'.from = task[a].from /\ verdict'.upto = task[a].upto /\ verdict'.torn = task[a].torn
  BY <1>1
<1>3. pc'[a] = "none" /\ \A b \in Admin \ {a} : pc'[b] = pc[b] /\ task'[b] = task[b]
  BY EndVerifyDirs
<1>4. main'.head = main.head /\ main.head \in Int /\ \A r \in Rev : There(r) => There(r)'
  BY EndVerifyDirs, ThereStays, Types DEF MainGrows, ObjectsStay
<1>5. ASSUME NEW b \in Admin, pc'[b] = "visit" PROVE VisitInv(b)'
  <2>1. SameVisit(b) /\ VisitInv(b)
    BY <1>3, <1>5 DEF SameVisit, VerifyInv
  <2> QED BY <1>4, <1>5, <2>1, VisitKept
<1>6. VerdictInv'
  <2>1. /\ VisitInv(a) /\ task[a].place \in {"main", "copy"} /\ task[a].from \in Rev /\ task[a].upto \in 0..MaxRev
        /\ task[a].next \in Nat /\ MaxRev \in Nat
    BY <1>1, TaskKinds, Types DEF VerifyInv, VerifyTask
  <2>2. \A r \in task[a].from..task[a].upto : r \in Rev /\ r \in task[a].from..(task[a].next - 1)
    BY <1>1, <2>1 DEF Rev
  <2>3. task[a].place = "copy" /\ ~task[a].errors /\ ~task[a].replaced =>
           \A r \in task[a].from..task[a].upto : There(r)'
    BY <1>4, <2>1, <2>2 DEF VisitInv
  <2>4. task[a].place = "main" => task[a].upto <= main'.head /\ (task[a].errors => task[a].torn # {})
    BY <1>4, <2>1 DEF VisitInv
  <2>5. (verdict'.printed = "errors" => task[a].errors) /\ (verdict'.printed = "healthy" => ~task[a].errors)
    BY <1>2
  <2> QED BY <1>2, <2>1, <2>3, <2>4, <2>5 DEF VerdictInv
<1> QED BY <1>5, <1>6 DEF VerifyInv

LEMMA VerifyInit == Init => VerifyInv
<1> SUFFICES ASSUME Init PROVE VerifyInv
  OBVIOUS
<1>1. verdict.printed = "nothing" /\ \A a \in Admin : pc[a] = "none"
  BY DEF Init
<1> QED BY <1>1 DEF VerifyInv, VerdictInv

LEMMA VerifyUnchanged ==
    ASSUME FilesInv, VerifyInv, UNCHANGED vars
    PROVE  VerifyInv'
<1>1. UNCHANGED <<main, copy, report, verdict, pc, task, beside>>
  BY DEF vars, history
<1>2. PlainStep
  BY <1>1, GrowsSelf DEF PlainStep, SameWalk, SameVisit
<1> QED BY <1>2, VerifyPlain

LEMMA VerifyCommandStep ==
    ASSUME FilesInv, CopyInv, VerifyInv, NEW a \in Admin, CommandStepOf(a)
    PROVE  VerifyInv'
BY CommandKinds, VerifyPlain, VerifyTruncate, VerifyCopyStarts, VerifyWalks, VerifyCopyEnds, VerifyStarts,
   VerifyVisits, VerifyEnds

LEMMA VerifyServerStep ==
    ASSUME FilesInv, VerifyInv, ServerStep
    PROVE  VerifyInv'
BY PlainServer, VerifyPlain, VerifyPublish

LEMMA VerifyNext == FilesInv /\ CopyInv /\ VerifyInv /\ [Next]_vars => VerifyInv'
BY Steps, VerifyServerStep, VerifyCommandStep, VerifyUnchanged

LEMMA LowestOf ==
    ASSUME NEW T, T \subseteq Nat, T # {}
    PROVE  \E x \in T : \A y \in T : ~(y < x)
<1>1. PICK x \in T : \A y \in T : ~(<<y, x>> \in OpToRel(<, Nat))
  BY WFMin, NatLessThanWellFounded
<1> QED BY <1>1 DEF OpToRel

\* between two numbers, the last one that is not in a set, if there is one
LEMMA LastGap ==
    ASSUME NEW S, NEW f \in Int, NEW r \in Int, f <= r, ~(f..r \subseteq S)
    PROVE  \E k \in f..r : k \notin S /\ (k + 1)..r \subseteq S
<1> DEFINE T == {j \in Nat : j <= r - f /\ r - j \notin S}
<1>1. PICK g \in f..r : g \notin S
  OBVIOUS
<1>2. r - g \in T
  BY <1>1
<1>3. T \subseteq Nat /\ T # {}
  BY <1>2
<1> HIDE DEF T
<1>4. PICK x \in T : \A y \in T : ~(y < x)
  BY <1>3, LowestOf
<1>5. x \in Nat /\ x <= r - f /\ r - x \notin S
  BY <1>4 DEF T
<1>6. ASSUME NEW k \in ((r - x) + 1)..r PROVE k \in S
  <2>1. r - k \in Nat /\ r - k < x /\ r - k <= r - f
    BY <1>5
  <2>2. r - k \notin T
    BY <1>4, <2>1
  <2>3. r - (r - k) = k
    OBVIOUS
  <2> QED BY <2>1, <2>2, <2>3 DEF T
<1>7. r - x \in f..r
  BY <1>5
<1> QED BY <1>5, <1>6, <1>7

LEMMA VerifyGives == FilesInv /\ VerifyInv => VerifyTruthful
<1> SUFFICES ASSUME FilesInv, VerifyInv PROVE VerifyTruthful
  OBVIOUS
<1>1. ASSUME verdict.printed = "healthy", ~verdict.replaced, NEW r \in verdict.from..verdict.upto
      PROVE  LET d == Place(verdict.place) IN
             \/ d.commits[r] = Torn
             \/ HasCommit(d, r) /\ TreeFound(d, r, Anchors(d, r)) /\ MissingBlobs(d, r) = {}
  <2>1. /\ verdict.place \in {"main", "copy"} /\ verdict.from \in Rev /\ verdict.upto \in 0..MaxRev
        /\ MaxRev \in Nat /\ main.head \in Int
    BY <1>1, Types DEF VerifyInv, VerdictInv
  <2>2. CASE verdict.place = "main"
    <3>1. Place(verdict.place) = main /\ r \in 1..main.head
      BY <1>1, <2>1, <2>2 DEF Place, VerifyInv, VerdictInv, Rev
    <3> QED BY <3>1, MainFound
  <2>3. CASE verdict.place = "copy"
    <3>1. Place(verdict.place) = copy /\ \A k \in verdict.from..verdict.upto : There(k)
      BY <1>1, <2>3 DEF Place, VerifyInv, VerdictInv
    <3> DEFINE f == verdict.from
    <3>2. f \in Int /\ r \in Int /\ f <= r /\ r \in f..verdict.upto /\ verdict.upto \in Int
      BY <2>1 DEF Rev
    <3> HIDE DEF f
    <3>3. There(r)
      BY <3>1
    <3>4. ASSUME r \in copy.deltas PROVE TreeFound(copy, r, Anchors(copy, r))
      <4>1. CASE f..r \subseteq copy.deltas
        <5>1. f - 1 \in Anchors(copy, r) /\ f - 1 <= r /\ (f - 1) + 1 = f
          BY <3>2 DEF Anchors, f
        <5> QED BY <4>1, <5>1 DEF TreeFound
      <4>2. CASE ~(f..r \subseteq copy.deltas)
        <5>1. PICK k \in f..r : k \notin copy.deltas /\ (k + 1)..r \subseteq copy.deltas
          BY <3>2, <4>2, LastGap
        <5>2. k # r /\ k \in f..(r - 1) /\ k <= r /\ k \in f..verdict.upto
          BY <3>2, <3>4, <5>1
        <5>3. k \in copy.trees
          BY <3>1, <5>1, <5>2 DEF There, f
        <5>4. k \in Anchors(copy, r)
          BY <5>1, <5>2, <5>3 DEF Anchors, f
        <5> QED BY <5>1, <5>2, <5>4 DEF TreeFound
      <4> QED BY <4>1, <4>2
    <3>5. ASSUME r \notin copy.deltas PROVE TreeFound(copy, r, Anchors(copy, r))
      BY <3>3, <3>5 DEF TreeFound, There
    <3> QED BY <3>1, <3>3, <3>4, <3>5 DEF There
  <2> QED BY <2>1, <2>2, <2>3
<1>2. verdict.printed = "errors" /\ verdict.place = "main" => verdict.torn # {}
  BY DEF VerifyInv, VerdictInv
<1> QED BY <1>1, <1>2 DEF VerifyTruthful

(***************************************************************************)
(* verify: what it calls healthy, with warnings or without, has its        *)
(* commits and its blobs, and its trees can be read back by whoever reads  *)
(* the revisions without a delta first; that they are readable with a cold *)
(* cache does not follow, and is not true.  In the served repository the   *)
(* only errors it ever finds are commit files a revprop command has        *)
(* truncated, whatever commits are under way.                              *)
(***************************************************************************)
THEOREM VerifySafe == Spec => []VerifyTruthful
<1>1. Init => FilesInv /\ RowsInv /\ CopyInv /\ VerifyInv
  BY FilesInit, RowsInit, CopyInit, VerifyInit
<1>2. FilesInv /\ RowsInv /\ CopyInv /\ VerifyInv /\ [Next]_vars => (FilesInv /\ RowsInv /\ CopyInv /\ VerifyInv)'
  BY FilesNext, RowsNext, CopyNext, VerifyNext
<1> QED BY <1>1, <1>2, VerifyGives, PTL DEF Spec
=============================================================================
