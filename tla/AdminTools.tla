------------------------------ MODULE AdminTools ------------------------------
(***************************************************************************)
(* dsvn-admin on a repository a server is committing to: hotcopy, verify,  *)
(* pack, setrevprop and delrevprop.  None of them takes a lock the server  *)
(* knows of, so all they share is the files.                               *)
(*                                                                         *)
(* Revision r adds one path with one new blob, both named r here.  The     *)
(* server's commit is reduced to the files it writes, in their order; what *)
(* can happen inside it is in SqliteRepository.  Revision 0, snapshots     *)
(* (every 1000 revisions) and files nothing below reads are left out.      *)
(*                                                                         *)
(* SQLite is external: rows reach tree.sqlite-wal first, a checkpoint      *)
(* moves them to tree.sqlite, and the last connection to close makes one.  *)
(***************************************************************************)
EXTENDS Integers, FiniteSets

CONSTANTS
    Admin,          \* dsvn-admin processes
    Extra,          \* names of revision properties kept in revprops/
    Value,          \* values of properties
    BadDate,        \* a value that is not a date
    NoValue,        \* the property is not set, or is empty
    Given,          \* the log message, author and date of the commit itself
    NoFile, Torn,   \* there is no such file; a file that was truncated and not yet written
    MaxRev,         \* bound: revisions
    Plans           \* bounds: the revisions there are at first and in the end, the
                    \* commands of each kind, how many of them at a time, and the
                    \* stops of the server and deaths of commands

ASSUME AdminAssumption ==
    /\ MaxRev \in Nat
    /\ Plans \subseteq [{"first", "last", "revprop", "hotcopy", "verify", "pack",
                         "together", "faults"} -> Nat]
    /\ \A p \in Plans : p.first <= p.last /\ p.last <= MaxRev
    /\ BadDate \in Value /\ NoValue \notin Value /\ Given \notin Value \cup {NoValue}
    /\ Extra \cap {"svn:log", "svn:author", "svn:date"} = {}
    /\ NoFile # Torn /\ NoFile \notin {"blob", "blob_in_blob"}

VARIABLES
    main,       \* the directory the server has open
    copy,       \* the destination of hotcopy
    wal,        \* rows in tree.sqlite-wal of main
    unlinked,   \* the WAL was removed while a process had it open
    tmp,        \* the .tmp file of the object the server is storing
    server,     \* the server: "down", "idle", or the last file its commit wrote
    rev,        \* its current_rev
    pc, task,   \* where each command is, and its variables
    plan,       \* commands and faults still to come
    report,     \* what the last hotcopy printed, and what happened meanwhile
    verdict,    \* what the last verify printed
    intended,   \* history variable: properties as completed commands leave them
    clashed,    \* history variable: revisions two commands changed at a time
    beside      \* history variable: a pack ran while something else had main open

serverVars == <<server, rev, tmp>>
dbVars == <<wal, unlinked>>
history == <<intended, clashed, beside>>
vars == <<main, copy, dbVars, serverVars, pc, task, plan, report, verdict, history>>

Rev == 1..MaxRev
InCommit == {"svn:log", "svn:author", "svn:date"}
Name == InCommit \cup Extra
Idle == [command |-> "none"]

AsCommitted == [n \in InCommit |-> Given]
Original == [n \in Name |-> IF n \in InCommit THEN Given ELSE NoValue]
NoDir == [head |-> 0, commits |-> [r \in Rev |-> NoFile], revprops |-> [r \in Rev |-> NoFile],
          deltas |-> {}, trees |-> {}, blobs |-> [r \in Rev |-> NoFile], rows |-> {}]

\* a commit file and a revprops file, as the properties they hold
CommitFile == [InCommit -> Value \cup {NoValue, Given}]
RevpropsFile == [Extra -> Value \cup {NoValue}]
Directory == [head : 0..MaxRev,
              commits : [Rev -> CommitFile \cup {NoFile, Torn}],
              revprops : [Rev -> RevpropsFile \cup {NoFile, Torn}],
              deltas : SUBSET Rev, trees : SUBSET Rev,
              blobs : [Rev -> {NoFile, "blob", "blob_in_blob"}],
              rows : SUBSET Rev]

ASSUME FileAssumption == {NoFile, Torn} \cap (CommitFile \cup RevpropsFile) = {}

TypeOK ==
    /\ main \in Directory /\ copy \in Directory
    /\ wal \subseteq Rev /\ unlinked \in BOOLEAN /\ tmp \in BOOLEAN
    /\ server \in {"down", "idle", "tmp", "object", "row", "tree", "commit", "delta"}
    /\ rev \in 0..MaxRev
    /\ pc \in [Admin -> {"none", "read", "hook", "load", "truncate", "write", "copy", "visit",
                         "remove_tmp", "vacuum", "remove_wal"}]
    /\ intended \in [Rev -> [Name -> Value \cup {NoValue, Given}]]
    /\ clashed \subseteq Rev /\ beside \in BOOLEAN

-----------------------------------------------------------------------------
(***************************************************************************)
(* Reading a directory.                                                    *)
(***************************************************************************)
HasCommit(d, r) == d.commits[r] \notin {NoFile, Torn}

\* get_tree_at_rev: along the deltas to a tree in the cache, or to revision 0;
\* where a delta is missing, the tree object of the commit
TreeFound(d, r, cached) ==
    \/ \E b \in cached \cup {0} : b <= r /\ (b + 1)..r \subseteq d.deltas
    \/ HasCommit(d, r) /\ r \in d.trees

MissingBlobs(d, r) == {k \in 1..r : d.blobs[k] = NoFile}

\* revision r can be read back
Whole(d, r) == HasCommit(d, r) /\ TreeFound(d, r, {}) /\ MissingBlobs(d, r) = {}

\* initialize(): an empty working tree is filled from the head
Filled(d, rows) == IF rows = {} /\ TreeFound(d, d.head, {}) THEN 1..d.head ELSE rows

\* Who has the database of main open: verify of main, a revprop command, and
\* pack until it closes; hotcopy opens it only in its last step.
HasOpen(a) ==
    \/ pc[a] \in {"read", "hook", "load", "truncate", "write", "remove_tmp", "vacuum"}
    \/ pc[a] = "visit" /\ task[a].place = "main"
OthersOpen(a) == server # "down" \/ \E b \in Admin \ {a} : HasOpen(b)

Packing == \E a \in Admin : pc[a] \in {"remove_tmp", "vacuum", "remove_wal"}

\* open() and initialize() of main by a command
OpenMain ==
    /\ wal' = IF unlinked THEN wal ELSE Filled(main, main.rows \cup wal) \ main.rows
    /\ beside' = (beside \/ Packing)
    /\ UNCHANGED unlinked

\* The connection of a is closed; d is main with what else the step changes.
CloseMain(a, d) ==
    IF OthersOpen(a) THEN main' = d /\ UNCHANGED dbVars
    ELSE main' = [d EXCEPT !.rows = @ \cup wal] /\ wal' = {} /\ unlinked' = FALSE

End(a) == pc' = [pc EXCEPT ![a] = "none"] /\ task' = [task EXCEPT ![a] = Idle]

Goto(a, l, t) == pc' = [pc EXCEPT ![a] = l] /\ task' = [task EXCEPT ![a] = t]

Command(a, kind) ==
    /\ pc[a] = "none"
    /\ plan[kind] > 0 /\ plan' = [plan EXCEPT ![kind] = @ - 1]
    /\ Cardinality({b \in Admin : pc[b] # "none"}) < plan.together

Init ==
    /\ plan \in Plans
    /\ main = [NoDir EXCEPT !.head = plan.first, !.deltas = 1..plan.first, !.trees = 1..plan.first,
                            !.commits = [r \in Rev |-> IF r <= plan.first THEN AsCommitted ELSE NoFile],
                            !.blobs = [r \in Rev |-> IF r <= plan.first THEN "blob" ELSE NoFile],
                            !.rows = 1..plan.first]
    /\ copy = NoDir
    /\ wal = {} /\ unlinked = FALSE /\ tmp = FALSE
    /\ server = "down" /\ rev = 0
    /\ pc = [a \in Admin |-> "none"]
    /\ task = [a \in Admin |-> Idle]
    /\ report = [printed |-> "nothing"]
    /\ verdict = [printed |-> "nothing"]
    /\ intended = [r \in Rev |-> Original]
    /\ clashed = {} /\ beside = FALSE

-----------------------------------------------------------------------------
(***************************************************************************)
(* The server: a commit of revision rev + 1, one file at a time.  Each of  *)
(* its fs::write calls is one step here (SqliteRepository has the torn     *)
(* refs/head): that a command reads a file of the server half written is   *)
(* left out.                                                               *)
(***************************************************************************)
Start ==
    /\ server = "down"
    /\ server' = "idle"
    /\ rev' = main.head
    /\ OpenMain
    /\ UNCHANGED <<main, copy, tmp, pc, task, plan, report, verdict, intended, clashed>>

\* Nothing closes the connection: the WAL stays as it is.
Stop ==
    /\ server # "down" /\ plan.faults > 0
    /\ server' = "down"
    /\ plan' = [plan EXCEPT !.faults = @ - 1]
    /\ wal' = IF unlinked THEN {} ELSE wal
    /\ unlinked' = FALSE
    /\ UNCHANGED <<main, copy, rev, tmp, pc, task, report, verdict, history>>

Files(from, to, d) ==
    /\ server = from
    /\ server' = to
    /\ main' = d
    /\ UNCHANGED <<copy, rev, pc, plan, report, verdict, clashed, beside>>

\* store_object: an object that is there is not written again
StoreObject ==
    /\ rev < plan.last
    /\ \/ /\ main.blobs[rev + 1] = NoFile
          /\ Files("idle", "tmp", main)
          /\ tmp' = TRUE
       \/ /\ main.blobs[rev + 1] # NoFile
          /\ Files("idle", "object", main)
          /\ UNCHANGED tmp
    /\ UNCHANGED <<dbVars, task, intended>>

\* Without its .tmp file the rename fails, and with it the request.
RenameObject ==
    /\ \/ tmp /\ Files("tmp", "object", [main EXCEPT !.blobs[rev + 1] = "blob"])
       \/ ~tmp /\ Files("tmp", "idle", main)
    /\ tmp' = FALSE
    /\ UNCHANGED <<dbVars, task, intended>>

\* The row is in the WAL; SQLite makes a checkpoint when the WAL has grown.
InsertRow ==
    /\ \/ /\ Files("object", "row", main)
          /\ wal' = wal \cup {rev + 1}
       \/ /\ Files("object", "row", [main EXCEPT !.rows = @ \cup wal \cup {rev + 1}])
          /\ wal' = {}
    /\ UNCHANGED <<unlinked, tmp, task, intended>>

\* The tree's object is written like a blob's; that it may lose its .tmp file
\* to pack, which fails the commit here, is left out.
StoreTree ==
    /\ Files("row", "tree", [main EXCEPT !.trees = @ \cup {rev + 1}])
    /\ UNCHANGED <<dbVars, tmp, task, intended>>

StoreCommit ==
    /\ Files("tree", "commit", [main EXCEPT !.commits[rev + 1] = AsCommitted])
    /\ UNCHANGED <<dbVars, tmp, task, intended>>

StoreDelta ==
    /\ Files("commit", "delta", [main EXCEPT !.deltas = @ \cup {rev + 1}])
    /\ UNCHANGED <<dbVars, tmp, task, intended>>

\* the hot copies under way learn of a publication
Published ==
    [a \in Admin |-> IF pc[a] = "copy" THEN [task[a] EXCEPT !.published = TRUE] ELSE task[a]]

\* Mutant: the head moves before the commit file and the delta are written.
SaveHeadEarly ==
    /\ \/ /\ server = "tree" /\ main.head = rev
          /\ main' = [main EXCEPT !.head = rev + 1]
          /\ task' = Published
          /\ UNCHANGED <<server, rev>>
       \/ /\ server = "delta" /\ main.head = rev + 1
          /\ server' = "idle"
          /\ rev' = rev + 1
          /\ UNCHANGED <<main, task>>
    /\ UNCHANGED <<copy, dbVars, tmp, pc, plan, report, verdict, history>>

SaveHead ==
    /\ server = "delta"
    /\ server' = "idle"
    /\ rev' = rev + 1
    /\ main' = [main EXCEPT !.head = rev + 1]
    /\ task' = Published
    /\ UNCHANGED <<copy, dbVars, tmp, pc, plan, report, verdict, history>>

-----------------------------------------------------------------------------
(***************************************************************************)
(* setrevprop and delrevprop.  The log message, author and date are in the *)
(* commit file; a set reads it before the pre-revprop-change hook runs, a  *)
(* delete after.  Other properties are in a file of their own, read after  *)
(* the hook.  Both files are written in place.                             *)
(***************************************************************************)
Change(a, op, r, n, v) ==
    /\ Command(a, "revprop")
    /\ r <= main.head
    /\ Goto(a, IF op = "set" /\ n \in InCommit THEN "read" ELSE "hook",
            [command |-> "revprop", op |-> op, rev |-> r, name |-> n, value |-> v, held |-> NoFile])
    /\ OpenMain
    /\ clashed' = clashed \cup {task[b].rev : b \in {c \in Admin :
                      task[c].command = "revprop" /\ task[c].rev = r}}
    /\ UNCHANGED <<main, copy, serverVars, report, verdict, intended>>

SetRevprop(a, r, n, v) == Change(a, "set", r, n, v)

\* svn:date cannot be deleted
DelRevprop(a, r, n) == n # "svn:date" /\ Change(a, "delete", r, n, NoValue)

\* the command returns an error; nothing was written
Refuse(a) == CloseMain(a, main) /\ End(a)

Changed(a, file) == [file EXCEPT ![task[a].name] = task[a].value]

Stay(a, l, t) == Goto(a, l, t) /\ UNCHANGED <<main, dbVars>>

Aside == <<copy, serverVars, plan, report, verdict, clashed, beside>>

ReadCommit(a) ==
    /\ pc[a] = "read"
    /\ IF HasCommit(main, task[a].rev)
       THEN Stay(a, "hook", [task[a] EXCEPT !.held = main.commits[task[a].rev]])
       ELSE Refuse(a)
    /\ UNCHANGED <<Aside, intended>>

\* run_pre_revprop_change lets the change pass; then the date is parsed
HookAccepts(a) ==
    /\ pc[a] = "hook"
    /\ IF task[a].held = NoFile THEN Stay(a, "load", task[a])
       ELSE IF task[a].name = "svn:date" /\ task[a].value = BadDate THEN Refuse(a)
       ELSE Stay(a, "truncate", [task[a] EXCEPT !.held = Changed(a, @)])
    /\ UNCHANGED <<Aside, intended>>

\* Mutant: the file is opened for writing before the hook is asked.
HookRejectsTruncated(a) ==
    /\ pc[a] = "hook"
    /\ CloseMain(a, IF task[a].held = NoFile THEN main ELSE [main EXCEPT !.commits[task[a].rev] = Torn])
    /\ End(a)
    /\ UNCHANGED <<Aside, intended>>

HookRejects(a) ==
    /\ pc[a] = "hook"
    /\ Refuse(a)
    /\ UNCHANGED <<Aside, intended>>

NoRevprops == [n \in Extra |-> NoValue]

\* load_revprops: a file that does not parse counts as no properties
LoadRevprops(r) == IF main.revprops[r] \in {NoFile, Torn} THEN NoRevprops ELSE main.revprops[r]

Load(a) ==
    /\ pc[a] = "load"
    /\ LET t == task[a]
           file == IF t.name \in InCommit THEN main.commits[t.rev] ELSE LoadRevprops(t.rev)
       IN  IF file \in {NoFile, Torn} \/ (t.name \in Extra /\ t.op = "delete" /\ file[t.name] = NoValue)
           THEN Refuse(a)
           ELSE Stay(a, "truncate", [t EXCEPT !.held = Changed(a, file)])
    /\ UNCHANGED <<Aside, intended>>

Put(t, content) ==
    IF t.name \in InCommit THEN [main EXCEPT !.commits[t.rev] = content]
                           ELSE [main EXCEPT !.revprops[t.rev] = content]

\* the change is made: the post-revprop-change hook cannot undo it
Finish(a, content) ==
    /\ CloseMain(a, Put(task[a], content))
    /\ End(a)
    /\ intended' = [intended EXCEPT ![task[a].rev] = Changed(a, @)]

\* fs::write: the file is empty, then written; save_revprops removes an empty set
TruncateFile(a) ==
    /\ pc[a] = "truncate"
    /\ \/ /\ task[a].held = NoRevprops
          /\ Finish(a, NoFile)
       \/ /\ task[a].held # NoRevprops
          /\ main' = Put(task[a], Torn)
          /\ pc' = [pc EXCEPT ![a] = "write"]
          /\ task' = [b \in Admin |->
                        IF pc[b] \in {"copy", "visit"} /\ task[a].name \in InCommit
                        THEN [task[b] EXCEPT !.torn = @ \cup {task[a].rev}] ELSE task[b]]
          /\ UNCHANGED <<dbVars, intended>>
    /\ UNCHANGED <<Aside>>

WriteFile(a) ==
    /\ pc[a] = "write"
    /\ Finish(a, task[a].held)
    /\ UNCHANGED <<Aside>>

\* A command dies: the operating system closes its connection without SQLite.
Die(a) ==
    /\ pc[a] # "none" /\ plan.faults > 0
    /\ plan' = [plan EXCEPT !.faults = @ - 1]
    /\ End(a)
    /\ clashed' = IF pc[a] = "write" THEN clashed \cup {task[a].rev} ELSE clashed
    /\ UNCHANGED <<main, copy, dbVars, serverVars, report, verdict, intended, beside>>

-----------------------------------------------------------------------------
(***************************************************************************)
(* hotcopy: copy_dir_recursive goes through one directory after the other, *)
(* in whatever order they are listed, and through each file by file.  What *)
(* is written during the walk is copied or not, depending on when the walk *)
(* comes by; what ends in -wal, -shm or .tmp is not.  A file is copied in  *)
(* one step: a tree.sqlite copied across a checkpoint is left out.         *)
(***************************************************************************)
Slot ==
    {<<"refs", "head", 0>>, <<"tree.sqlite", "rows", 0>>}
        \cup ({"commits"} \X {"commits"} \X Rev) \cup ({"tree_deltas"} \X {"deltas"} \X Rev)
        \cup ({"objects"} \X {"trees", "blobs"} \X Rev)

\* --clean removes an older destination, whoever is reading it
HotCopy(a) ==
    /\ Command(a, "hotcopy")
    /\ \A b \in Admin : pc[b] # "copy"
    /\ copy' = NoDir
    /\ pc' = [pc EXCEPT ![a] = "copy"]
    /\ task' = [b \in Admin |->
                  IF b = a
                  THEN [command |-> "hotcopy", todo |-> Slot, headFirst |-> FALSE,
                        published |-> FALSE, skipped |-> FALSE,
                        torn |-> {r \in Rev : main.commits[r] = Torn}]
                  ELSE IF pc[b] = "visit" THEN [task[b] EXCEPT !.replaced = (task[b].place = "copy")]
                  ELSE task[b]]
    /\ report' = [printed |-> "nothing"]
    /\ verdict' = IF verdict.printed # "nothing" /\ verdict.place = "copy"
                  THEN [printed |-> "nothing"] ELSE verdict
    /\ UNCHANGED <<main, dbVars, serverVars, history>>

Copied(s) ==
    LET r == s[3]
    IN  CASE s[2] = "head" -> [copy EXCEPT !.head = main.head]
          [] s[2] = "rows" -> [copy EXCEPT !.rows = main.rows]
          [] s[2] = "commits" -> [copy EXCEPT !.commits[r] = main.commits[r]]
          [] s[2] = "blobs" -> [copy EXCEPT !.blobs[r] = main.blobs[r]]
          [] s[2] = "deltas" -> [copy EXCEPT !.deltas = @ \cup ({r} \cap main.deltas)]
          [] s[2] = "trees" -> [copy EXCEPT !.trees = @ \cup ({r} \cap main.trees)]

CopyFile(a, s) ==
    /\ pc[a] = "copy" /\ s \in task[a].todo
    /\ \A d \in Slot \ task[a].todo, t \in task[a].todo : d[1] = t[1] => s[1] = t[1]
    /\ copy' = Copied(s)
    /\ task' = [task EXCEPT
                  ![a].todo = @ \ {s},
                  ![a].headFirst = IF s[2] = "head" THEN task[a].todo = Slot ELSE @,
                  ![a].skipped = IF s[2] = "rows" THEN wal # {} ELSE @]
    /\ UNCHANGED <<main, dbVars, serverVars, pc, plan, report, verdict, history>>

\* Both directories are opened, which fills a working tree without rows, and
\* their heads compared; "Status: OK" or a warning is printed.
EndCopy(a) ==
    /\ pc[a] = "copy" /\ task[a].todo = {}
    /\ copy' = [copy EXCEPT !.rows = Filled(copy, @)]
    /\ CloseMain(a, [main EXCEPT !.rows = @ \cup (Filled(main, @ \cup wal) \ wal)])
    /\ beside' = (beside \/ Packing)
    /\ report' = [printed |-> IF copy.head = main.head THEN "OK" ELSE "WARNING",
                  headFirst |-> task[a].headFirst, published |-> task[a].published,
                  skipped |-> task[a].skipped, torn |-> task[a].torn]
    /\ End(a)
    /\ UNCHANGED <<serverVars, plan, verdict, intended, clashed>>

-----------------------------------------------------------------------------
(***************************************************************************)
(* verify, of main or of the copy; with --transfer, blobs the copy misses  *)
(* are fetched from the server of main.                                    *)
(***************************************************************************)
Place(p) == IF p = "main" THEN main ELSE copy

Verify(a, p, from, to) ==
    /\ Command(a, "verify")
    /\ \/ p = "main" /\ OpenMain /\ UNCHANGED copy
       \/ /\ p = "copy" /\ copy # NoDir
          /\ copy' = [copy EXCEPT !.rows = Filled(copy, @)]
          /\ UNCHANGED <<dbVars, beside>>
    /\ Goto(a, "visit", [command |-> "verify", place |-> p, from |-> from, next |-> from,
                         upto |-> IF to < Place(p).head THEN to ELSE Place(p).head,
                         cached |-> {}, missing |-> {}, errors |-> FALSE, warned |-> FALSE,
                         replaced |-> FALSE, torn |-> {r \in Rev : main.commits[r] = Torn}])
    /\ UNCHANGED <<main, serverVars, report, verdict, intended, clashed>>

\* warnings: an empty author, and a delta that is missing (the tree may be
\* found without it)
Warns(d, r) == HasCommit(d, r) /\ (d.commits[r]["svn:author"] = NoValue \/ r \notin d.deltas)

\* Mutant: missing blobs are listed, and not counted as errors.
VisitRevUncounted(a) ==
    /\ pc[a] = "visit" /\ task[a].next <= task[a].upto
    /\ LET r == task[a].next
           d == Place(task[a].place)
           found == HasCommit(d, r) /\ TreeFound(d, r, task[a].cached)
       IN  task' = [task EXCEPT
                      ![a].next = r + 1,
                      ![a].cached = IF found THEN @ \cup {r} ELSE @,
                      ![a].missing = IF found THEN @ \cup MissingBlobs(d, r) ELSE @,
                      ![a].errors = @ \/ ~found,
                      ![a].warned = @ \/ Warns(d, r)]
    /\ UNCHANGED <<main, copy, dbVars, serverVars, pc, plan, report, verdict, history>>

\* One revision: its commit, its tree, and every blob in the tree.
VisitRev(a) ==
    /\ pc[a] = "visit" /\ task[a].next <= task[a].upto
    /\ LET r == task[a].next
           d == Place(task[a].place)
           found == HasCommit(d, r) /\ TreeFound(d, r, task[a].cached)
       IN  task' = [task EXCEPT
                      ![a].next = r + 1,
                      ![a].cached = IF found THEN @ \cup {r} ELSE @,
                      ![a].missing = IF found THEN @ \cup MissingBlobs(d, r) ELSE @,
                      ![a].errors = @ \/ ~found \/ MissingBlobs(d, r) # {},
                      ![a].warned = @ \/ Warns(d, r)]
    /\ UNCHANGED <<main, copy, dbVars, serverVars, pc, plan, report, verdict, history>>

\* handle_objects answers with the object's file, in which the blob is
\* serialized; the client takes that for the blob's data and serializes it again.
Fetched(a) ==
    [copy EXCEPT !.blobs = [k \in Rev |-> IF k \in task[a].missing /\ main.blobs[k] # NoFile
                                          THEN "blob_in_blob" ELSE @[k]]]

\* A request that fails leaves the copy as it is; either way errors found before
\* the transfer are reported.
EndVerify(a, transfer) ==
    /\ pc[a] = "visit" /\ task[a].next > task[a].upto
    /\ transfer => server # "down" /\ task[a].place = "copy" /\ task[a].missing # {}
    /\ copy' = IF transfer THEN Fetched(a) ELSE copy
    /\ verdict' = [printed |-> IF task[a].errors THEN "errors" ELSE "healthy", place |-> task[a].place,
                   warned |-> task[a].warned, replaced |-> task[a].replaced,
                   from |-> task[a].from, upto |-> task[a].upto, torn |-> task[a].torn]
    /\ IF task[a].place = "main" THEN CloseMain(a, main) ELSE UNCHANGED <<main, dbVars>>
    /\ End(a)
    /\ UNCHANGED <<serverVars, plan, report, history>>

-----------------------------------------------------------------------------
(***************************************************************************)
(* pack: .tmp files are removed, the database is closed, compacted and     *)
(* closed again, and what is left of the WAL is removed.                   *)
(***************************************************************************)
Pack(a) ==
    /\ Command(a, "pack")
    /\ Goto(a, "remove_tmp", [command |-> "pack"])
    /\ wal' = IF unlinked THEN wal ELSE Filled(main, main.rows \cup wal) \ main.rows
    /\ beside' = (beside \/ Packing \/ OthersOpen(a))
    /\ UNCHANGED <<main, copy, unlinked, serverVars, report, verdict, intended, clashed>>

\* Mutant: the WAL goes with the temporary files.
RemoveTmpAndWal(a) ==
    /\ pc[a] = "remove_tmp"
    /\ tmp' = FALSE
    /\ wal' = {}
    /\ Goto(a, "vacuum", task[a])
    /\ UNCHANGED <<main, copy, unlinked, server, rev, plan, report, verdict, history>>

RemoveTmp(a) ==
    /\ pc[a] = "remove_tmp"
    /\ tmp' = FALSE
    /\ Goto(a, "vacuum", task[a])
    /\ UNCHANGED <<main, copy, dbVars, server, rev, plan, report, verdict, history>>

\* VACUUM fails on a database someone else has locked, and with it the command.
Vacuum(a) ==
    /\ pc[a] = "vacuum"
    /\ CloseMain(a, main)
    /\ \/ Goto(a, "remove_wal", task[a])
       \/ OthersOpen(a) /\ End(a)
    /\ UNCHANGED <<copy, serverVars, plan, report, verdict, history>>

RemoveWal(a) ==
    /\ pc[a] = "remove_wal"
    /\ IF OthersOpen(a) THEN unlinked' = TRUE /\ UNCHANGED wal ELSE wal' = {} /\ UNCHANGED unlinked
    /\ End(a)
    /\ UNCHANGED <<main, copy, serverVars, plan, report, verdict, history>>

-----------------------------------------------------------------------------
Next ==
    \/ Start \/ Stop
    \/ StoreObject \/ RenameObject \/ InsertRow \/ StoreTree \/ StoreCommit \/ StoreDelta \/ SaveHead
    \/ \E a \in Admin :
          \/ \E r \in Rev, n \in Name, v \in Value : SetRevprop(a, r, n, v)
          \/ \E r \in Rev, n \in Name : DelRevprop(a, r, n)
          \/ ReadCommit(a) \/ HookAccepts(a) \/ HookRejects(a) \/ Load(a)
          \/ TruncateFile(a) \/ WriteFile(a)
          \/ HotCopy(a) \/ (\E s \in Slot : CopyFile(a, s)) \/ EndCopy(a)
          \/ \E p \in {"main", "copy"}, from, to \in Rev : Verify(a, p, from, to)
          \/ VisitRev(a) \/ (\E transfer \in BOOLEAN : EndVerify(a, transfer))
          \/ Pack(a) \/ RemoveTmp(a) \/ Vacuum(a) \/ RemoveWal(a)
          \/ Die(a)

Spec == Init /\ [][Next]_vars

-----------------------------------------------------------------------------
(***************************************************************************)
(* Properties.                                                             *)
(***************************************************************************)
\* A hot copy made while the server commits can be read back up to its head,
\* if refs/ was copied before everything else or nothing was published
\* meanwhile; revisions whose commit file a revprop command had truncated are
\* excepted.  Its working tree has every path of its head, if moreover no row
\* was in the WAL, which is not copied, when tree.sqlite was, and none was lost
\* to a pack (RowsKept).
CopyReadable ==
    report.printed # "nothing" /\ (report.headFirst \/ ~report.published) =>
        /\ \A r \in 1..copy.head : r \notin report.torn => Whole(copy, r)
        /\ report.skipped \/ beside \/ 1..copy.head \subseteq copy.rows

\* The revisions of a verdict whose tree a reader must have in its cache for the
\* later ones: the one before the first, which verify was not asked for, and those
\* without a delta, for which a later reader has no way past them.
Anchors(d, r) ==
    {verdict.from - 1} \cup {k \in verdict.from..(r - 1) : k \notin d.deltas /\ k \in d.trees}

\* What verify calls healthy, with or without warnings, has every commit and every
\* blob, and the tree of every revision can be read back by whoever has first read
\* the revisions without a delta: verify, which goes upwards with one cache, does
\* not notice that a reader with a cold cache could not (HealthyIsWhole), and its
\* verdict is wrong about nothing else.  A copy that a hotcopy replaced meanwhile
\* is excepted.  And verify finds errors in the served repository only where a
\* revprop command has truncated a commit file, however many commits are under way
\* or were cut short.
VerifyTruthful ==
    /\ verdict.printed = "healthy" /\ ~verdict.replaced =>
           LET d == Place(verdict.place) IN
           \A r \in verdict.from..verdict.upto :
               \/ d.commits[r] = Torn
               \/ HasCommit(d, r) /\ TreeFound(d, r, Anchors(d, r)) /\ MissingBlobs(d, r) = {}
    /\ verdict.printed = "errors" /\ verdict.place = "main" => verdict.torn # {}

\* A revision's properties are what the completed commands made them: a command
\* that was rejected, refused or killed before it wrote has changed nothing.
\* Revisions on which two commands overlapped, or one died writing, are excepted.
RevpropsKept ==
    \A r \in (1..main.head) \ clashed :
        (\A a \in Admin : pc[a] = "write" => task[a].rev # r) =>
            /\ main.commits[r] = [n \in InCommit |-> intended[r][n]]
            /\ LoadRevprops(r) = [n \in Extra |-> intended[r][n]]

\* The rows of every published path survive stops, checkpoints and pack, as long
\* as pack has the repository to itself.
RowsKept == ~beside => 1..main.head \subseteq main.rows \cup wal

(***************************************************************************)
(* What the messages of the commands say, and the files do not bear out:   *)
(* each of these has a counterexample.                                     *)
(***************************************************************************)
\* "Status: OK": the copy can be read back.  (Only the heads were compared.)
OkIsWhole == report.printed = "OK" => \A r \in 1..copy.head : r \notin report.torn => Whole(copy, r)

\* "Repository is healthy": every revision can be read.  (Where a delta is
\* missing, verify finds the tree of the next revision in its cache only.)
HealthyIsWhole ==
    verdict.printed = "healthy" =>
        \A r \in verdict.from..verdict.upto :
            Place(verdict.place).commits[r] = Torn \/ Whole(Place(verdict.place), r)

\* "Repository is healthy": the blobs are those that were committed.  (What
\* verify --transfer fetches is a blob in a blob.)
HealthyIsGenuine ==
    verdict.printed = "healthy" =>
        \A k \in 1..verdict.upto : Place(verdict.place).blobs[k] = "blob"
=============================================================================
