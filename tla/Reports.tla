------------------------------- MODULE Reports -------------------------------
(***************************************************************************)
(* The read side of the WebDAV server (handlers.rs): REPORT, PROPFIND,     *)
(* OPTIONS and GET, answered while a commit writes its files, publishes    *)
(* its revision or fails.                                                  *)
(*                                                                         *)
(* A handler reads current_rev once and then one file after the other: the *)
(* loop over revisions is one step per revision, so that a commit may land *)
(* between any two of them.  An answer is the list of facts it states, not *)
(* its XML.  A path is the sequence of its names; paths are listed in the  *)
(* order in which the handlers sort them.                                  *)
(***************************************************************************)
EXTENDS TreeDelta, Integers, Sequences, FiniteSets, SequencesExt

CONSTANTS
    MaxRev,     \* bound: revisions
    MaxClock,   \* bound: seconds
    Dir,        \* the entries of kind Tree, the others are files
    Edits,      \* the deltas a commit may have
    Dates,      \* the timestamps that dumps, mirrors and setrevprop bring in
    PathOrder,  \* the paths in the order of their strings
    Request,    \* what clients may ask
    Absent,     \* an element the request leaves out
    None        \* nothing there

ASSUME ReportAssumption ==
    /\ MaxRev \in Nat /\ MaxClock \in Nat
    /\ Dir \subseteq Entry
    /\ Edits \subseteq Delta /\ Dates \subseteq 0 .. MaxClock
    /\ PathOrder \in Seq(Path) /\ ToSet(PathOrder) = Path
    /\ IsInjective(PathOrder)
    /\ \A p \in Path : p \in Seq(STRING) /\ p # <<>>
    /\ None \notin Delta /\ None \notin [time : 0 .. MaxClock, tree : Tree]

VARIABLES
    head,       \* current_rev
    commits,    \* commits/<rev>.bin: its timestamp and its tree, or None
    deltas,     \* tree_deltas/<rev>.bin, or None
    pend,       \* the commit being written, or None
    clock,      \* the wall clock, in seconds
    headAt,     \* history: the head when the clock left each second
    imported,   \* history: the revisions whose timestamp the clock did not give
    rq,         \* the request being answered, or None
    rp          \* the handler's local state and the answer so far

repoVars == <<head, commits, deltas, pend, clock, headAt, imported>>
vars == <<head, commits, deltas, pend, clock, headAt, imported, rq, rp>>

Rev == 0 .. MaxRev
Least(a, b) == IF a <= b THEN a ELSE b
Given(x, default) == IF x = Absent THEN default ELSE x
Files == Entry \ Dir
FilesOf(t) == {p \in Path : t[p] \in Files}

(***************************************************************************)
(* Committing, as far as a reader of files can tell: the timestamp is      *)
(* given by the caller, the commit file is written before the delta, both  *)
(* before the head moves.  A failed commit leaves its files.  MERGE gives  *)
(* the clock's time; the load handler that of the dump and dsvnsync that   *)
(* of its source, whatever it is; dsvn-admin setrevprop svn:date writes    *)
(* another one into the commit file of a published revision, in one step   *)
(* here (AdminTools has what may come between).                            *)
(***************************************************************************)
Init ==
    /\ head = 0
    /\ commits = [r \in Rev |-> IF r = 0 THEN [time |-> 0, tree |-> EmptyTree] ELSE None]
    /\ deltas = [r \in Rev |-> IF r = 0 THEN EmptyDelta ELSE None]
    /\ pend = None
    /\ clock = 0
    /\ headAt = [t \in 0 .. MaxClock |-> 0]
    /\ imported = {}
    /\ rq = None
    /\ rp = None

Tick ==
    /\ clock < MaxClock
    /\ clock' = clock + 1
    /\ headAt' = [headAt EXCEPT ![clock] = head]
    /\ UNCHANGED <<head, commits, deltas, pend, imported, rq, rp>>

BeginCommit(d) ==
    /\ pend = None
    /\ head < MaxRev
    /\ pend' = [pc |-> "commit", time |-> clock, delta |-> d]
    /\ imported' = imported \ {head + 1}
    /\ UNCHANGED <<head, commits, deltas, clock, headAt, rq, rp>>

BeginImport(d, t) ==
    /\ pend = None
    /\ head < MaxRev
    /\ pend' = [pc |-> "commit", time |-> t, delta |-> d]
    /\ imported' = imported \cup {head + 1}
    /\ UNCHANGED <<head, commits, deltas, clock, headAt, rq, rp>>

StoreCommit ==
    /\ pend # None /\ pend.pc = "commit"
    /\ commits' = [commits EXCEPT ![head + 1] =
                      [time |-> pend.time, tree |-> ApplyDelta(commits[head].tree, pend.delta)]]
    /\ pend' = [pend EXCEPT !.pc = "delta"]
    /\ UNCHANGED <<head, deltas, clock, headAt, imported, rq, rp>>

StoreDelta ==
    /\ pend # None /\ pend.pc = "delta"
    /\ deltas' = [deltas EXCEPT ![head + 1] = pend.delta]
    /\ pend' = [pend EXCEPT !.pc = "publish"]
    /\ UNCHANGED <<head, commits, clock, headAt, imported, rq, rp>>

Publish ==
    /\ pend # None /\ pend.pc = "publish"
    /\ head' = head + 1
    /\ pend' = None
    /\ UNCHANGED <<commits, deltas, clock, headAt, imported, rq, rp>>

FailCommit ==
    /\ pend # None
    /\ pend' = None
    /\ UNCHANGED <<head, commits, deltas, clock, headAt, imported, rq, rp>>

SetDate(r, t) ==
    /\ r <= head /\ commits[r] # None
    /\ commits' = [commits EXCEPT ![r].time = t]
    /\ imported' = imported \cup {r}
    /\ UNCHANGED <<head, deltas, pend, clock, headAt, rq, rp>>

(***************************************************************************)
(* report_handler picks the report by words in the body, in this order: a  *)
(* body that holds "log" anywhere, in a path too, is a log report unless   *)
(* it asks for locations.  What no branch knows is answered 501.           *)
(***************************************************************************)
Dispatch(q) ==
    IF q.kind \in {"update", "locations"} THEN q.kind
    ELSE IF q.mentionsLog THEN "log"
    ELSE q.kind

Empty == {"mergeinfo", "locks", "inherited"}

(***************************************************************************)
(* extract_text_between finds an element of the body only under the name   *)
(* the handler looks for: a request of another kind has none of them.      *)
(***************************************************************************)
Field(q, f) == IF f \in DOMAIN q THEN q[f] ELSE Absent

(***************************************************************************)
(* Elements that hold numbers are parsed as such; each handler finds those *)
(* its report has.  Seconds are counted from the creation of the           *)
(* repository.                                                             *)
(***************************************************************************)
NumberOrAbsent == Nat \cup {Absent}

ASSUME RequestAssumption ==
    /\ Absent \notin Nat /\ None \notin Request
    /\ \A q \in Request :
          /\ \A f \in {"start", "end", "limit", "target", "rev"} : Field(q, f) \in NumberOrAbsent
          /\ q.method = "REPORT" /\ q.kind = "update" => q.target \in NumberOrAbsent
          /\ q.method = "REPORT" /\ q.kind = "dated" => q.date \in NumberOrAbsent
          /\ q.method = "REPORT" /\ q.kind = "locations" => q.revs \in Seq(Nat)
          /\ q.method = "REPORT" /\ q.kind = "deleted" =>
                q.path \in Path /\ q.peg \in NumberOrAbsent /\ q.end \in NumberOrAbsent
          /\ q.method = "PROPFIND" => "rev" \in DOMAIN q

(***************************************************************************)
(* parse_log_range: the range is turned round when it descends.            *)
(***************************************************************************)
LogRangeOpen(q, cur) ==
    LET s == Given(Field(q, "start"), 1)
        e == Given(Field(q, "end"), MaxRev)
    IN  IF s > e THEN [first |-> e, last |-> s, reverse |-> TRUE]
        ELSE [first |-> s, last |-> e, reverse |-> FALSE]

LogRange(q, cur) ==
    LET s == Given(Field(q, "start"), 1)
        e == Given(Field(q, "end"), cur)
    IN  IF s > e THEN [first |-> e, last |-> s, reverse |-> TRUE]
        ELSE [first |-> s, last |-> e, reverse |-> FALSE]

Answer(status, out) == [rp EXCEPT !.pc = "done", !.status = status, !.out = out]
Started(kind, first, last) ==
    [pc |-> kind, as |-> kind, cur |-> head, at |-> first, last |-> last,
     target |-> 0, tree |-> EmptyTree, opened |-> {}, status |-> 200, out |-> <<>>]

(***************************************************************************)
(* The handlers' first steps: read current_rev and the request's elements. *)
(***************************************************************************)
StartLog(q) ==
    LET range == LogRange(q, head) IN Started("log", range.first, range.last)

StartLocations(q) == Started("locations", 1, Len(q.revs))
StartDated(q) == Started("dated", head, 0)
StartReplay(q) == Started("replay", Given(q.rev, head), 0)
StartDeleted(q) ==
    Started("deleted", Given(q.peg, head) + 1, Least(Given(q.end, head), head))

(***************************************************************************)
(* handle_update_report reads the tree of the target revision first and    *)
(* fails if it cannot; an update that is not a fresh checkout gets only    *)
(* the frame.                                                              *)
(***************************************************************************)
Fresh(q) == q.src \in {Absent, 0}
StartUpdate(q) ==
    LET target == Given(q.target, head)
        start  == Started("update", 1, Len(PathOrder))
    IN  IF target \notin Rev \/ commits[target] = None
        THEN [start EXCEPT !.pc = "done", !.status = 500]
        ELSE IF ~Fresh(q) THEN [start EXCEPT !.pc = "done"]
        ELSE [start EXCEPT !.target = target, !.tree = commits[target].tree]

Start(q) ==
    CASE Dispatch(q) = "update"    -> StartUpdate(q)
      [] Dispatch(q) = "log"       -> StartLog(q)
      [] Dispatch(q) = "locations" -> StartLocations(q)
      [] Dispatch(q) = "dated"     -> StartDated(q)
      [] Dispatch(q) = "replay"    -> StartReplay(q)
      [] Dispatch(q) = "deleted"   -> StartDeleted(q)
      [] Dispatch(q) \in Empty     -> [Started(q.kind, 0, 0) EXCEPT !.pc = "done"]
      [] OTHER                     -> [Started("unsupported", 0, 0) EXCEPT !.pc = "done", !.status = 501]

ReceiveReport(q) ==
    /\ rq = None
    /\ q.method = "REPORT"
    /\ rq' = q
    /\ rp' = Start(q)
    /\ UNCHANGED repoVars

(***************************************************************************)
(* handle_update_report: one <add-file> per file, after an <add-directory> *)
(* for every parent that has none yet.  The elements stay open: all        *)
(* </add-directory> are written after the last file.  The content is read  *)
(* again from the target revision.                                         *)
(***************************************************************************)
Parents(p) == [i \in 1 .. Len(p) - 1 |-> SubSeq(p, 1, i)]
Unopened(p, opened) == SelectSeq(Parents(p), LAMBDA d : d \notin opened)
OpenDir(d) == [tag |-> "open", name |-> Last(d)]
AddFileOfHead(p) ==
    LET t == commits[head].tree
    IN  [tag |-> "file", name |-> Last(p), text |-> IF t[p] \in Files THEN t[p] ELSE None]

AddFile(p) ==
    LET t == commits[rp.target].tree
    IN  [tag |-> "file", name |-> Last(p), text |-> IF t[p] \in Files THEN t[p] ELSE None]

SendFile(p, new) ==
    rp' = [rp EXCEPT !.at = @ + 1,
                     !.opened = @ \cup ToSet(new),
                     !.out = @ \o [i \in 1 .. Len(new) |-> OpenDir(new[i])] \o <<AddFile(p)>>]

UpdateEntry ==
    /\ rq # None /\ rp.pc = "update" /\ rp.at <= rp.last
    /\ LET p == PathOrder[rp.at]
       IN  IF rp.tree[p] \in Files
           THEN SendFile(p, Unopened(p, rp.opened))
           ELSE rp' = [rp EXCEPT !.at = @ + 1]
    /\ UNCHANGED <<repoVars, rq>>

UpdateEnd ==
    /\ rq # None /\ rp.pc = "update" /\ rp.at > rp.last
    /\ rp' = Answer(200, rp.out \o [i \in 1 .. Cardinality(rp.opened) |-> [tag |-> "close"]])
    /\ UNCHANGED <<repoVars, rq>>

(***************************************************************************)
(* handle_log_report: ascending, whatever the direction asked for, until   *)
(* the limit; a revision whose commit file cannot be read is skipped.  The *)
(* changed paths are those of the delta file, if it can be read; an added  *)
(* path is listed as modified.                                             *)
(***************************************************************************)
ChangedPathsUpserts(r) ==
    IF r = 0 \/ deltas[r] = None THEN {}
    ELSE {[path |-> p, deleted |-> FALSE] : p \in {x \in Path : deltas[r][x] \in Entry}}

ChangedPaths(r) ==
    IF r = 0 \/ deltas[r] = None THEN {}
    ELSE {[path |-> p, deleted |-> deltas[r][p] = Delete] :
             p \in {x \in Path : deltas[r][x] # NoChange}}

LogItem(r) ==
    [rev |-> r, paths |-> IF Field(rq, "paths") = TRUE THEN ChangedPaths(r) ELSE {}]

LogMore ==
    /\ rp.at <= rp.last
    /\ Field(rq, "limit") # Absent => Len(rp.out) < rq.limit

LogRevision ==
    /\ rq # None /\ rp.pc = "log" /\ LogMore
    /\ rp' = [rp EXCEPT !.at = @ + 1,
                        !.out = IF rp.at \in Rev /\ commits[rp.at] # None
                                THEN Append(@, LogItem(rp.at)) ELSE @]
    /\ UNCHANGED <<repoVars, rq>>

LogEnd ==
    /\ rq # None /\ rp.pc = "log" /\ ~LogMore
    /\ rp' = Answer(200, IF LogRange(rq, rp.cur).reverse THEN Reverse(rp.out) ELSE rp.out)
    /\ UNCHANGED <<repoVars, rq>>

(***************************************************************************)
(* handle_get_locations_report: each revision asked for, clamped to the    *)
(* head; the root exists up to the peg revision.                           *)
(***************************************************************************)
Located(r) ==
    IF rq.path = <<>> THEN r <= Given(rq.peg, rp.cur)
    ELSE commits[r].tree[rq.path] # NoEntry

Locate ==
    /\ rq # None /\ rp.pc = "locations" /\ rp.at <= rp.last
    /\ LET r == Least(rq.revs[rp.at], rp.cur)
       IN  rp' = [rp EXCEPT !.at = @ + 1,
                            !.out = IF Located(r) THEN Append(@, r) ELSE @]
    /\ UNCHANGED <<repoVars, rq>>

LocateEnd ==
    /\ rq # None /\ rp.pc = "locations" /\ rp.at > rp.last
    /\ rp' = Answer(200, rp.out)
    /\ UNCHANGED <<repoVars, rq>>

(***************************************************************************)
(* handle_dated_rev_report: down from the head to the first revision whose *)
(* timestamp is not after the date; 0 when there is none.  A date that     *)
(* cannot be parsed is the far future.                                     *)
(***************************************************************************)
OldEnoughStrictly(r) == Given(rq.date, MaxClock + 1) > commits[r].time

OldEnough(r) == Given(rq.date, MaxClock) >= commits[r].time
DatedRevision ==
    /\ rq # None /\ rp.pc = "dated"
    /\ rp' = IF OldEnough(rp.at) THEN Answer(200, <<rp.at>>)
             ELSE IF rp.at = 0 THEN Answer(200, <<0>>)
             ELSE [rp EXCEPT !.at = @ - 1]
    /\ UNCHANGED <<repoVars, rq>>

(***************************************************************************)
(* handle_replay_report: the changes of one delta, none if it cannot be    *)
(* read.                                                                   *)
(***************************************************************************)
ReplayRevision ==
    /\ rq # None /\ rp.pc = "replay"
    /\ rp' = Answer(200, <<IF rp.at \in Rev /\ deltas[rp.at] # None THEN deltas[rp.at] ELSE EmptyDelta>>)
    /\ UNCHANGED <<repoVars, rq>>

(***************************************************************************)
(* handle_get_deleted_rev_report: up from the peg revision to the first    *)
(* delta that deletes the path or a directory above it; 0 when none does.  *)
(***************************************************************************)
DeletedInExactly(r, p) == deltas[r] # None /\ deltas[r][p] = Delete

DeletedIn(r, p) ==
    /\ deltas[r] # None
    /\ \E a \in Path : deltas[r][a] = Delete /\ (a = p \/ <<a, p>> \in Below)

DeletedRevision ==
    /\ rq # None /\ rp.pc = "deleted"
    /\ rp' = IF rp.at > rp.last THEN Answer(200, <<0>>)
             ELSE IF DeletedIn(rp.at, rq.path) THEN Answer(200, <<rp.at>>)
             ELSE [rp EXCEPT !.at = @ + 1]
    /\ UNCHANGED <<repoVars, rq>>

(***************************************************************************)
(* OPTIONS and PROPFIND of the root name the head; handle_svn_special_     *)
(* propfind names the head for the version controlled configuration and    *)
(* repeats the revision of the URL for the rest; 404 for what it does not  *)
(* know.                                                                   *)
(***************************************************************************)
SpecialPropfind(q) ==
    CASE q.what = "vcc"           -> <<207, head>>
      [] q.what \in {"bln", "bc"} -> <<207, q.rev>>
      [] q.what \in {"rvr", "ver"} -> <<207, Absent>>
      [] OTHER                    -> <<404, Absent>>

Propfind(q) == IF q.what = "root" THEN <<207, head>> ELSE SpecialPropfind(q)

Options(q) == <<200, IF q.collections THEN head ELSE Absent>>

ReceivePropfind(q) ==
    /\ rq = None
    /\ q.method \in {"PROPFIND", "OPTIONS"}
    /\ rq' = q
    /\ LET a == IF q.method = "OPTIONS" THEN Options(q) ELSE Propfind(q)
       IN  rp' = [Started(q.method, 0, 0) EXCEPT !.pc = "done", !.status = a[1], !.out = <<a[2]>>]
    /\ UNCHANGED repoVars

(***************************************************************************)
(* get_handler: the head is read first, the file from that revision's tree *)
(* after it.  get_file is given the path as it is in the URL: under the    *)
(* prefix /svn, which no path of a tree has, there is no file.             *)
(***************************************************************************)
ReceiveGet(q) ==
    /\ rq = None
    /\ q.method = "GET"
    /\ rq' = q
    /\ rp' = Started("GET", head, 0)
    /\ UNCHANGED repoVars

ReadFile ==
    /\ rq # None /\ rp.pc = "GET"
    /\ LET e == commits[rp.at].tree[rq.path]
       IN  rp' = IF ~rq.prefixed /\ e \in Files THEN Answer(200, <<e>>) ELSE Answer(404, <<>>)
    /\ UNCHANGED <<repoVars, rq>>

(***************************************************************************)
(* The client has its answer and may ask again.                            *)
(***************************************************************************)
Respond ==
    /\ rq # None /\ rp.pc = "done"
    /\ rq' = None /\ rp' = None
    /\ UNCHANGED repoVars

CommitStep ==
    \/ \E d \in Edits : BeginCommit(d) \/ \E t \in Dates : BeginImport(d, t)
    \/ \E r \in Rev, t \in Dates : SetDate(r, t)
    \/ StoreCommit \/ StoreDelta \/ Publish \/ FailCommit

ReportStep ==
    \/ UpdateEntry \/ UpdateEnd
    \/ LogRevision \/ LogEnd
    \/ Locate \/ LocateEnd
    \/ DatedRevision \/ ReplayRevision \/ DeletedRevision

Next ==
    \/ Tick
    \/ CommitStep
    \/ \E q \in Request : ReceiveReport(q) \/ ReceivePropfind(q) \/ ReceiveGet(q)
    \/ ReportStep
    \/ ReadFile
    \/ Respond

Spec == Init /\ [][Next]_vars

-----------------------------------------------------------------------------
Done(kind) == rq # None /\ rp.pc = "done" /\ rp.as = kind /\ rp.status = 200

(***************************************************************************)
(* What the variables may hold.                                            *)
(***************************************************************************)
TypeOK ==
    /\ head \in Rev
    /\ \A r \in Rev : commits[r] # None => commits[r].tree \in Tree /\ commits[r].time \in 0 .. MaxClock
    /\ \A r \in Rev : deltas[r] # None => deltas[r] \in Delta
    /\ clock \in 0 .. MaxClock
    /\ headAt \in [0 .. MaxClock -> Rev] /\ imported \subseteq Rev
    /\ rq \in Request \cup {None}

(***************************************************************************)
(* handle_log_report: whatever is committed meanwhile, the answer lists    *)
(* revisions of the range in the direction asked for, none twice; an       *)
(* answer that is not cut by the limit leaves out none that was published  *)
(* at the start, and an ascending one that is cut leaves out only later    *)
(* ones than it lists; and the changed paths it lists for a revision       *)
(* account for every path that differs from the revision before.  Nothing  *)
(* is said of what a descending log leaves out at its limit: the loop goes *)
(* up from the low end and turns the list round afterwards, so it leaves   *)
(* out the newest revisions, which were asked for first.                   *)
(***************************************************************************)
Accounts(item) ==
    \A p \in Path :
        commits[item.rev].tree[p] # commits[item.rev - 1].tree[p] =>
            \E c \in item.paths :
                c.path = p \/ (c.deleted /\ <<c.path, p>> \in Below)

LogFaithful ==
    Done("log") =>
        LET range == LogRange(rq, rp.cur)
            n     == Len(rp.out)
            full  == Field(rq, "limit") = Absent \/ n < rq.limit
            step  == IF range.reverse THEN -1 ELSE 1
        IN  /\ Field(rq, "limit") # Absent => n <= rq.limit
            /\ \A i \in 1 .. n - 1 : step * rp.out[i].rev < step * rp.out[i + 1].rev
            /\ \A i \in 1 .. n : rp.out[i].rev \in range.first .. range.last
            /\ \A r \in range.first .. Least(range.last, rp.cur) :
                   full \/ (~range.reverse /\ \E i \in 1 .. n : rp.out[i].rev > r)
                       => \E i \in 1 .. n : rp.out[i].rev = r
            /\ Field(rq, "paths") = TRUE =>
                   \A i \in 1 .. n : rp.out[i].rev \in 1 .. rp.cur => Accounts(rp.out[i])

(***************************************************************************)
(* No handler shows work in progress: an answer names no revision beyond   *)
(* the head it read, although the files of one may already be there, as    *)
(* long as the request asks for none beyond it.  A log report asks from    *)
(* revision 1 by default: in a repository at revision 0 that is beyond the *)
(* head, the range turns round, and revision 1 is shown half committed.    *)
(***************************************************************************)
Named(q) ==
    ({Field(q, f) : f \in {"start", "end", "target", "rev"}} \ {Absent})
        \cup (IF rp.as = "log" THEN {Given(Field(q, "start"), 1)} ELSE {})
Stated ==
    CASE rp.as = "log" -> {rp.out[i].rev : i \in DOMAIN rp.out}
      [] rp.as \in {"locations", "dated", "deleted", "PROPFIND", "OPTIONS"} -> ToSet(rp.out) \ {Absent}
      [] OTHER -> {}
OnlyPublished ==
    rq # None /\ rp.pc = "done" /\ (\A r \in Named(rq) : r <= rp.cur)
        => \A r \in Stated : r <= rp.cur

(***************************************************************************)
(* handle_get_deleted_rev_report: a path of the peg revision that is gone  *)
(* at a later revision of the range was deleted by then, and the answer    *)
(* says in which revision; there the path is gone, or the commit that      *)
(* deleted it put it back.                                                 *)
(***************************************************************************)
DeletedRevFound ==
    Done("deleted") =>
        LET peg  == Given(rq.peg, rp.cur)
            last == Least(Given(rq.end, rp.cur), rp.cur)
            ans  == rp.out[1]
        IN  /\ peg <= rp.cur /\ commits[peg].tree[rq.path] # NoEntry =>
                   \A r \in peg + 1 .. last :
                       commits[r].tree[rq.path] = NoEntry => ans \in peg + 1 .. r
            /\ ans # 0 => \/ commits[ans].tree[rq.path] = NoEntry
                          \/ deltas[ans][rq.path] \in Entry

(***************************************************************************)
(* handle_dated_rev_report "returns the revision number that was current   *)
(* at a given date/time", as far as timestamps come from the clock: a      *)
(* revision that was published by the date is passed over for an older one *)
(* only if its own timestamp was imported or set, although commits take    *)
(* theirs before they are published and setrevprop may change one that is  *)
(* still to be looked at.                                                  *)
(***************************************************************************)
DatedRevWasCurrent ==
    Done("dated") /\ rq.date # Absent /\ rq.date < clock
        => \A r \in rp.out[1] + 1 .. Least(headAt[rq.date], rp.cur) : r \in imported

(***************************************************************************)
(* What a client makes of a checkout: an element belongs to the directory  *)
(* elements open around it.                                                *)
(***************************************************************************)
OpenAround(out, i) ==
    LET opens == SelectSeq(SubSeq(out, 1, i), LAMBDA e : e.tag = "open")
    IN  [j \in DOMAIN opens |-> opens[j].name]
FileEvents(out) == {i \in DOMAIN out : out[i].tag = "file"}
ClientFiles(out) ==
    {<<Append(OpenAround(out, i), out[i].name), out[i].text>> : i \in FileEvents(out)}
TreeFiles(t) == {<<p, t[p]>> : p \in FilesOf(t)}
CheckedOut == Done("update") /\ Fresh(rq) /\ rp.target <= rp.cur

(***************************************************************************)
(* The directories of the files, in the order they are sent, lead ever     *)
(* deeper.                                                                 *)
(***************************************************************************)
OneChain(t) ==
    \A p, q \in FilesOf(t) :
        LET i == CHOOSE k \in DOMAIN PathOrder : PathOrder[k] = p
            j == CHOOSE k \in DOMAIN PathOrder : PathOrder[k] = q
        IN  i < j => IsPrefix(Front(p), Front(q))

(***************************************************************************)
(* handle_update_report: a checkout sends every file of the revision once, *)
(* under its own name with its own content, and closes what it opens; if   *)
(* the tree is one chain of directories the client gets exactly the tree.  *)
(***************************************************************************)
CheckoutSends ==
    CheckedOut =>
        LET t == commits[rp.target].tree
            n(tag) == Cardinality({i \in DOMAIN rp.out : rp.out[i].tag = tag})
        IN  /\ n("open") = n("close")
            /\ n("file") = Cardinality(FilesOf(t))
            /\ \A p \in FilesOf(t) :
                   \E i \in FileEvents(rp.out) :
                       /\ rp.out[i].name = Last(p) /\ rp.out[i].text = t[p]
                       /\ ToSet(p) \subseteq ToSet(OpenAround(rp.out, i)) \cup {Last(p)}
            /\ OneChain(t) => ClientFiles(rp.out) = TreeFiles(t)

(***************************************************************************)
(* handlers.rs:686 "It sends the full tree content to the client": the     *)
(* client of a checkout gets the files of the revision, where they are.    *)
(***************************************************************************)
CheckoutFaithful ==
    CheckedOut => ClientFiles(rp.out) = TreeFiles(commits[rp.target].tree)
=============================================================================
