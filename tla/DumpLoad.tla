------------------------------ MODULE DumpLoad ------------------------------
(***************************************************************************)
(* Dumping one repository and loading the stream into another.             *)
(*                                                                         *)
(* The HTTP server dumps with generate_dump and loads with handle_load     *)
(* (dump_handlers.rs); the Dump command of dsvn-admin dies at its first    *)
(* revision, and its Load command is load_dump_file (main.rs, dump.rs,     *)
(* load.rs).  A loader parses the stream line by line and, for each        *)
(* revision it has read, opens a batch (a SQL transaction), makes the      *)
(* changes in the working tree, commits, and ends the batch.  The HTTP     *)
(* loader runs in the server without the lock MERGE takes, so a MERGE may  *)
(* interleave; a failure leaves its batch open until the server stops or   *)
(* another load ends its own.                                              *)
(*                                                                         *)
(* The deltas of both repositories are exact here (SqliteRepository shows  *)
(* when they are); commit and commit_sync are one step each.               *)
(***************************************************************************)
EXTENDS DumpStream

CONSTANTS
    Settings,   \* the settings to consider, see `setting`
    MergeEntry, \* what a concurrent MERGE writes, see MergeAdd
    MergePath,
    MaxMerges,  \* bound: MERGEs
    NoTree      \* no transaction is open

VARIABLES
    setting,    \* history, lost: entries whose object cannot be read; start, end: the range;
                \* writer, loader: "webdav" or "admin"; cut: lines of the stream that are lost; faults
    stream, pos,    \* the dump, and the line the loader reads next
    parser, inMemory,   \* the loader's parser, and parse_dump_file on the same lines
    pc, nodes, changed, \* the loader; the nodes left in this revision; has_changes
    rows, pending, saved,   \* tree_entries, pending_changes; both as BEGIN found them
    revs,       \* the destination's revisions: [author, message, delta]
    merging, merges,    \* a MERGE has added its file and not yet committed
    calm        \* history variable: no MERGE, no failure

source == <<setting, stream>>
db == <<rows, pending, saved>>
server == <<merging, merges>>
vars == <<source, pos, parser, inMemory, pc, nodes, changed, db, revs, server, calm>>

Revision == [author : Author, message : Message, delta : Delta]

TypeOK ==
    /\ setting \in Settings
    /\ pos \in 0..Len(stream) + 1
    /\ pc \in {"dump", "parse", "begin", "apply", "commit", "end", "done", "failed"}
    /\ changed \in BOOLEAN
    /\ rows \in Tree /\ pending \in Delta
    /\ saved = NoTree \/ saved \in [rows : Tree, pending : Delta]
    /\ revs \in Seq(Revision)
    /\ merging \in BOOLEAN /\ merges \in 0..MaxMerges /\ calm \in BOOLEAN
    /\ nodes # << >> => pc = "apply"
    /\ pc \in {"apply", "commit", "end"} => saved # NoTree

Init ==
    /\ setting \in Settings
    /\ stream = << >> /\ pos = 0
    /\ parser = ParserInit /\ inMemory = FileInit
    /\ pc = "dump" /\ nodes = << >> /\ changed = FALSE
    /\ rows = EmptyTree /\ pending = EmptyDelta /\ saved = NoTree
    /\ revs = << >>
    /\ merging = FALSE /\ merges = 0
    /\ calm = TRUE

-----------------------------------------------------------------------------
Head0 == Len(setting.history)
DumpRange ==
    IF setting.writer = "webdav" THEN WebdavRange(setting.start, setting.end, Head0)
    ELSE AdminRange(setting.start, setting.end, Head0)

\* handle_dump and the Dump command; the file may reach the loader cut short
DoDump ==
    /\ pc = "dump"
    /\ setting.writer = "admin" => setting.start <= Head0
    /\ LET whole == IF setting.writer = "webdav" THEN Dump(setting.history, DumpRange, setting.lost)
                    ELSE AdminDump(DumpRange)
       IN stream' = SubSeq(whole, 1, Len(whole) - setting.cut)
    /\ pos' = 1
    /\ pc' = "parse"
    /\ UNCHANGED <<setting, parser, inMemory, nodes, changed, db, revs, server, calm>>

DumpRefused ==
    /\ pc = "dump" /\ setting.writer = "admin" /\ setting.start > Head0
    /\ pc' = "failed"
    /\ UNCHANGED <<source, pos, parser, inMemory, nodes, changed, db, revs, server, calm>>

(***************************************************************************)
(* The loader reads a line.  A revision that is complete is handed to the  *)
(* closure first, which ignores revision 0 and revisions without nodes.    *)
(***************************************************************************)
Line0 == stream[pos]
Ignored(rev) == rev.num = 0 \/ rev.nodes = << >>
MustLoad(p) == p.rev # NoProp /\ ~Ignored(p.rev)

ReadLine ==
    /\ pc = "parse" /\ pos <= Len(stream)
    /\ Flushes(parser, Line0) => Ignored(parser.rev)
    /\ parser' = ParseLine(setting.loader, parser, Line0)
    /\ inMemory' = FileLine(inMemory, Line0)
    /\ pos' = pos + 1
    /\ UNCHANGED <<source, pc, nodes, changed, db, revs, server, calm>>

Flush ==
    /\ pc = "parse"
    /\ \/ pos <= Len(stream) /\ Flushes(parser, Line0) /\ UNCHANGED <<parser, inMemory>>
       \/ /\ pos > Len(stream) /\ ~FailsAtEnd(parser)
          /\ parser' = AtEnd(parser) /\ inMemory' = FileAtEnd(inMemory)
    /\ IF MustLoad(parser') THEN pc' = "begin" ELSE pos > Len(stream) /\ pc' = "done"
    /\ UNCHANGED <<source, pos, nodes, changed, db, revs, server, calm>>

\* the stream ends where a block is due: the last revision is not loaded
EndsEarly ==
    /\ pc = "parse" /\ pos > Len(stream) /\ FailsAtEnd(parser)
    /\ pc' = "failed"
    /\ UNCHANGED <<source, pos, parser, inMemory, nodes, changed, db, revs, server, calm>>

-----------------------------------------------------------------------------
\* begin_batch: a BEGIN inside a transaction fails and is ignored
Begin == saved' = IF saved = NoTree THEN [rows |-> rows, pending |-> pending] ELSE saved

BeginBatch ==
    /\ pc = "begin"
    /\ Begin
    /\ nodes' = parser.rev.nodes /\ changed' = FALSE
    /\ pc' = "apply"
    /\ UNCHANGED <<source, pos, parser, inMemory, rows, pending, revs, server, calm>>

InsertEntry(p, e) ==
    /\ rows' = UpsertRow(rows, p, e)
    /\ pending' = [pending EXCEPT ![p] = e]
RemoveEntry(p) ==
    /\ rows' = DeleteLike(DeleteRow(rows, p), p)
    /\ pending' = [pending EXCEPT ![p] = Delete]
Plain(text) == [kind |-> "file", text |-> text, exec |-> FALSE]

(***************************************************************************)
(* What a node does.  dsvn-admin leaves copies out; a change is a new text *)
(* and an empty text is no change.                                         *)
(***************************************************************************)
Adds(node) ==
    /\ node.action \in {"add", "replace"}
    /\ ~(setting.loader = "admin" /\ node.copied)
WritesFile(node) ==
    \/ Adds(node) /\ (node.kind = "file" \/ (node.kind = NoProp /\ node.text # EmptyText))
    \/ node.action = "change" /\ node.text # EmptyText
MakesDir(node) == Adds(node) /\ node.kind = "dir"

Effective(node) == WritesFile(node) \/ MakesDir(node) \/ node.action = "delete"

ApplyNode ==
    /\ pc = "apply" /\ nodes # << >>
    /\ LET node == Head(nodes) IN
          /\ CASE node.action = "delete" -> RemoveEntry(node.path)
               [] MakesDir(node) -> InsertEntry(node.path, DirEntry)
               [] WritesFile(node) -> InsertEntry(node.path, Plain(node.text))
               [] OTHER -> UNCHANGED <<rows, pending>>
          /\ changed' = (changed \/ Effective(node))
    /\ nodes' = Tail(nodes)
    /\ UNCHANGED <<source, pos, parser, inMemory, pc, saved, revs, server, calm>>

AllApplied ==
    /\ pc = "apply" /\ nodes = << >>
    /\ pc' = IF changed THEN "commit" ELSE "end"
    /\ UNCHANGED <<source, pos, parser, inMemory, nodes, changed, db, revs, server, calm>>

\* commit and commit_sync: everything that is pending is the new revision
Commit(author, message) ==
    /\ revs' = Append(revs, [author |-> author, message |-> message, delta |-> pending])
    /\ pending' = EmptyDelta

CommitLoaded ==
    /\ pc = "commit"
    /\ Commit(parser.rev.author, parser.rev.message)
    /\ pc' = "end"
    /\ UNCHANGED <<source, pos, parser, inMemory, nodes, changed, rows, saved, server, calm>>

\* Mutant: the batch is ended only when there was something to commit.
EndBatchIfChanged ==
    /\ pc = "end"
    /\ saved' = IF changed THEN NoTree ELSE saved
    /\ parser' = [parser EXCEPT !.rev = NoProp]
    /\ pc' = "parse"
    /\ UNCHANGED <<source, pos, inMemory, nodes, changed, rows, pending, revs, server, calm>>

\* end_batch
EndBatch ==
    /\ pc = "end"
    /\ saved' = NoTree
    /\ parser' = [parser EXCEPT !.rev = NoProp]
    /\ pc' = "parse"
    /\ UNCHANGED <<source, pos, inMemory, nodes, changed, rows, pending, revs, server, calm>>

-----------------------------------------------------------------------------
(***************************************************************************)
(* A `?` in the closure ends the load without ending its batch: a node     *)
(* cannot be stored, or the pre-commit hook rejects the revision, by which *)
(* time pending_changes is empty.  dsvn-admin exits, and its transaction   *)
(* is rolled back.                                                         *)
(***************************************************************************)
LoadFails ==
    /\ "fail" \in setting.faults
    /\ pc \in {"apply", "commit"}
    /\ calm' = FALSE
    /\ pc' = "failed" /\ nodes' = << >>
    /\ LET left == IF pc = "commit" THEN EmptyDelta ELSE pending IN
       IF setting.loader = "admin"
       THEN rows' = saved.rows /\ pending' = saved.pending /\ saved' = NoTree
       ELSE pending' = left /\ UNCHANGED <<rows, saved>>
    /\ UNCHANGED <<source, pos, parser, inMemory, changed, revs, server>>

\* a MERGE of another client in the same server: add_file, then commit
MergeAdd ==
    /\ "merge" \in setting.faults /\ setting.loader = "webdav"
    /\ ~merging /\ merges < MaxMerges
    /\ merging' = TRUE /\ merges' = merges + 1
    /\ InsertEntry(MergePath, MergeEntry)
    /\ calm' = FALSE
    /\ UNCHANGED <<source, pos, parser, inMemory, pc, nodes, changed, saved, revs>>

MergeCommit ==
    /\ merging
    /\ Commit(Unknown, Empty)
    /\ merging' = FALSE
    /\ UNCHANGED <<source, pos, parser, inMemory, pc, nodes, changed, rows, saved, merges, calm>>

Next ==
    \/ DoDump \/ DumpRefused \/ ReadLine \/ Flush \/ EndsEarly
    \/ BeginBatch \/ ApplyNode \/ AllApplied \/ CommitLoaded \/ EndBatch
    \/ LoadFails \/ MergeAdd \/ MergeCommit

Spec == Init /\ [][Next]_vars

-----------------------------------------------------------------------------
(***************************************************************************)
(* The revisions a dump is asked for, whatever range the program makes of  *)
(* the request.                                                            *)
(***************************************************************************)
Between(a, b) == IF a <= b THEN a..b ELSE b..a
Asked == SelectSeq([r \in 1..Head0 |-> r], LAMBDA r : r \in Between(setting.start, setting.end))

(***************************************************************************)
(* What gets lost on the way: an object that cannot be read is left out of *)
(* the stream, and a change that brings no text to a path that exists (a   *)
(* file emptied, a file that becomes a directory) is dumped as a "change"  *)
(* the loaders take for none (dump_handlers.rs:395); executable bits, all  *)
(* lines of a message but the first, and an empty author.                  *)
(***************************************************************************)
Loses(r, p) ==
    LET e == setting.history[r].delta[p] IN
    /\ e \in Entry
    /\ \/ e \in setting.lost
       \/ r > 1 /\ e.text = EmptyText /\ SourceTree(setting.history)[r - 1][p] # NoEntry

WithoutBits(e) == IF e \in Entry /\ e.kind = "file" THEN Plain(e.text) ELSE e

Survives(r) ==
    [author |-> IF setting.history[r].author = Empty THEN Unknown ELSE setting.history[r].author,
     message |-> FirstLine[setting.history[r].message],
     delta |-> [p \in Path |-> IF Loses(r, p) THEN NoChange ELSE WithoutBits(setting.history[r].delta[p])]]

Surviving ==
    LET rs == SelectSeq(Asked, LAMBDA r : Survives(r).delta # EmptyDelta)
    IN [i \in DOMAIN rs |-> Survives(rs[i])]

(***************************************************************************)
(* A load of an HTTP dump that nothing disturbs makes the revisions the    *)
(* dump was asked for, in order, each with its author, its message and all *)
(* its changes but what Loses names; a revision left without changes is    *)
(* not made.  A request for revisions above the head alone is excepted: it *)
(* is turned round and yields the head (dump_handlers.rs:53-54).  While a  *)
(* load runs, and when a stream is cut short or comes from dsvn-admin,     *)
(* every revision but the last is one of those, whole; the last may lack   *)
(* changes, or the text of a file, and no other change is ever made.       *)
(***************************************************************************)
RoundTrip ==
    calm /\ (setting.start <= Head0 \/ setting.end <= Head0) =>
        /\ pc = "done" /\ setting.cut = 0 /\ setting.writer = "webdav" => revs = Surviving
        /\ Len(revs) <= Len(Surviving)
        /\ \A i \in DOMAIN revs : i < Len(revs) => revs[i] = Surviving[i]
        /\ \A i \in DOMAIN revs, p \in Path :
              revs[i].delta[p] \in {NoChange, Surviving[i].delta[p], Plain(EmptyText)}

(***************************************************************************)
(* The HTTP loader, dsvn-admin's streaming parser and its in-memory parser *)
(* read the same revisions out of every stream the program writes: the     *)
(* last group of the in-memory entries is the revision being collected.    *)
(***************************************************************************)
ParsersAgree ==
    pc \in {"parse", "begin"} /\ parser.rev # NoProp /\ parser.mode = "top" =>
        LET es == FileEntries(inMemory)
            own == SelectSeq(es, LAMBDA e : e.num = parser.rev.num /\ "node" \in DOMAIN e)
        IN /\ Last(es) = RevEntry(parser.rev)
           /\ [i \in DOMAIN own |-> own[i].node] = parser.rev.nodes

HeadTree ==
    LET T[r \in 0..Len(revs)] == IF r = 0 THEN EmptyTree ELSE ApplyDelta(T[r - 1], revs[r].delta)
    IN T[Len(revs)]

(***************************************************************************)
(* Whatever MERGEs interleave with a load, no change is lost or made       *)
(* twice: the rows are the head's tree with what is pending on top, and    *)
(* once the load is over and nothing is pending the database's durable     *)
(* rows are the head's tree.  Only a load that failed can break it.        *)
(***************************************************************************)
ChangesConserved ==
    pc # "failed" =>
        /\ rows = ApplyDelta(HeadTree, pending)
        /\ pc = "done" /\ ~merging => saved = NoTree /\ rows = HeadTree
=============================================================================
