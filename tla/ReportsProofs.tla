----------------------------- MODULE ReportsProofs -----------------------------
(***************************************************************************)
(* Theorems about Reports, for every set of paths and requests, any number *)
(* of revisions and any sequence of commits beside the handlers.           *)
(***************************************************************************)
EXTENDS Reports, TLAPS

CommitFile == [time : 0 .. MaxClock, tree : Tree]
Pending == [pc : {"commit", "delta", "publish"}, time : 0 .. MaxClock, delta : Delta]

(***************************************************************************)
(* What a handler may count on: every published revision has its commit    *)
(* file, not from the future if the clock dated it, and its delta leads    *)
(* there from the revision before.                                         *)
(***************************************************************************)
FileTypes ==
    /\ head \in Rev /\ clock \in 0 .. MaxClock /\ headAt \in [0 .. MaxClock -> Rev]
    /\ commits \in [Rev -> CommitFile \cup {None}]
    /\ deltas \in [Rev -> Delta \cup {None}]
    /\ pend # None => pend \in Pending /\ head < MaxRev /\ (head + 1 \notin imported => pend.time <= clock)

HistoryInv ==
    /\ \A r \in 0 .. head : commits[r] # None /\ (r \notin imported => commits[r].time <= clock)
    /\ \A r \in 1 .. head :
          deltas[r] # None /\ commits[r].tree = ApplyDelta(commits[r - 1].tree, deltas[r])

(***************************************************************************)
(* A commit in progress has written the files of its state.                *)
(***************************************************************************)
PendingInv ==
    pend # None =>
        /\ pend.pc \in {"delta", "publish"} =>
              commits[head + 1] = [time |-> pend.time, tree |-> ApplyDelta(commits[head].tree, pend.delta)]
        /\ pend.pc = "publish" => deltas[head + 1] = pend.delta

(***************************************************************************)
(* What was published when the clock left a second has no later time, if   *)
(* the clock dated it.                                                     *)
(***************************************************************************)
ClockInv ==
    \A t \in 0 .. MaxClock : t < clock =>
        headAt[t] <= head /\ \A r \in 0 .. headAt[t] : r \notin imported => commits[r].time <= t

RepoInv == FileTypes /\ HistoryInv /\ PendingInv /\ ClockInv

(***************************************************************************)
(* The handler has its variables, and the revision it read is published.   *)
(***************************************************************************)
Shaped(h) ==
    h = [pc |-> h.pc, as |-> h.as, cur |-> h.cur, at |-> h.at, last |-> h.last,
         target |-> h.target, tree |-> h.tree, opened |-> h.opened, status |-> h.status, out |-> h.out]

Reporting(q, kind) == q.method = "REPORT" /\ q.kind = kind

HandlerInv ==
    /\ rq \in Request
    /\ Shaped(rp) /\ rp.cur \in 0 .. head
    /\ rp.as \in {"dated", "deleted", "locations"} => Reporting(rq, rp.as)
    /\ rp.pc \in {"update", "log", "locations", "dated", "replay", "deleted", "GET", "done"}
    /\ rp.pc # "done" => rp.as = rp.pc

(***************************************************************************)
(* log: what was collected is in order, lies in the part of the range gone *)
(* through, and misses no revision that was published at the start.        *)
(***************************************************************************)
Item == [rev : Nat, paths : SUBSET [path : Path, deleted : BOOLEAN]]

Collected(out, at) ==
    LET range == LogRange(rq, rp.cur) IN
    /\ out \in Seq(Item)
    /\ Field(rq, "limit") # Absent => Len(out) <= Field(rq, "limit")
    /\ at \in Nat /\ range.first <= at
    /\ \A i, j \in 1 .. Len(out) : i < j => out[i].rev < out[j].rev
    /\ \A i \in 1 .. Len(out) : out[i].rev \in range.first .. range.last /\ out[i].rev < at
    /\ \A r \in range.first .. range.last : r < at /\ r <= rp.cur => \E i \in 1 .. Len(out) : out[i].rev = r
    /\ Field(rq, "paths") = TRUE =>
          \A i \in 1 .. Len(out) : out[i].rev \in 1 .. rp.cur => Accounts(out[i])

Reported(out) ==
    LET range == LogRange(rq, rp.cur)
        forth == IF range.reverse THEN Reverse(out) ELSE out
    IN  \E at \in Nat :
           /\ out \in Seq(Item) /\ Collected(forth, at)
           /\ at > range.last \/ (Field(rq, "limit") # Absent /\ Len(out) >= Field(rq, "limit"))

LogInv ==
    rp.as = "log" =>
        /\ rp.pc = "log" => rp.last = LogRange(rq, rp.cur).last /\ Collected(rp.out, rp.at)
        /\ rp.pc = "done" => Reported(rp.out)

(***************************************************************************)
(* dated: every revision passed is too young, unless it was dated since.   *)
(***************************************************************************)
TooYoung(r) == r \in imported \/ ~OldEnough(r)

DatedInv ==
    rp.as = "dated" =>
        /\ rp.pc = "dated" => rp.at \in 0 .. rp.cur /\ \A r \in rp.at + 1 .. rp.cur : TooYoung(r)
        /\ rp.pc = "done" =>
              \E d \in 0 .. rp.cur : rp.out = <<d>> /\ \A r \in d + 1 .. rp.cur : TooYoung(r)

(***************************************************************************)
(* deleted: if the path was there in the peg revision it is there in every *)
(* revision passed.                                                        *)
(***************************************************************************)
Peg == Given(rq.peg, rp.cur)
Until == Least(Given(rq.end, rp.cur), rp.cur)
StillThere(n) ==
    Peg <= rp.cur /\ commits[Peg].tree[rq.path] # NoEntry =>
        \A r \in Peg .. n : r <= rp.cur => commits[r].tree[rq.path] # NoEntry

DeletedInv ==
    rp.as = "deleted" =>
        /\ rp.pc = "deleted" => /\ rp.last = Until /\ rp.at \in Nat /\ Peg < rp.at
                                /\ StillThere(rp.at - 1)
        /\ rp.pc = "done" =>
              \/ rp.out = <<0>> /\ StillThere(Until)
              \/ \E d \in Peg + 1 .. Until :
                    rp.out = <<d>> /\ DeletedIn(d, rq.path) /\ StillThere(d - 1)

LocationsInv ==
    rp.as = "locations" =>
        rp.out \in Seq(0 .. rp.cur) /\ (rp.pc = "locations" => rp.at \in Nat \ {0} /\ rp.last = Len(rq.revs))

PropfindInv ==
    rp.as \in {"PROPFIND", "OPTIONS"} =>
        /\ rp.pc = "done"
        /\ \/ rp.out \in {<<rp.cur>>, <<Absent>>}
           \/ rq.method = "PROPFIND" /\ rp.out = <<rq.rev>>

AnswerInv ==
    rq # None => HandlerInv /\ LogInv /\ DatedInv /\ DeletedInv /\ LocationsInv /\ PropfindInv

Inv == RepoInv /\ AnswerInv

-----------------------------------------------------------------------------
(***************************************************************************)
(* Commits: the files of published revisions stay as they are.             *)
(***************************************************************************)
LEMMA ApplyDeltaType ==
    ASSUME NEW t \in Tree, NEW d \in Delta
    PROVE  ApplyDelta(t, d) \in Tree
BY DEF ApplyDelta, Tree, Delta

LEMMA Bounds ==
    ASSUME FileTypes
    PROVE  /\ MaxRev \in Nat /\ MaxClock \in Nat /\ head \in Nat /\ clock \in Nat /\ head <= MaxRev
           /\ 0 .. head \subseteq Rev /\ 1 .. head \subseteq Rev
           /\ \A r \in 1 .. head : r - 1 \in 0 .. head
           /\ \A r \in Rev : r \in Nat
BY ReportAssumption DEF FileTypes, Rev

LEMMA Published ==
    ASSUME FileTypes, HistoryInv, NEW r \in 0 .. head
    PROVE  commits[r] \in CommitFile /\ commits[r].tree \in Tree /\ commits[r].time \in 0 .. MaxClock
<1>1. r \in Rev /\ commits[r] # None
  BY Bounds DEF HistoryInv
<1>2. commits[r] \in CommitFile
  BY <1>1 DEF FileTypes
<1> QED BY <1>2 DEF CommitFile

\* the head does not go back, and up to it nothing changes but dates
Stable ==
    /\ head' \in Nat /\ head <= head'
    /\ \A r \in 0 .. head :
          /\ commits'[r].tree = commits[r].tree /\ deltas'[r] = deltas[r]
          /\ r \notin imported' => r \notin imported /\ commits'[r] = commits[r]

LEMMA RepoInit == Init => RepoInv
<1> SUFFICES ASSUME Init PROVE RepoInv
  OBVIOUS
<1>1. MaxRev \in Nat /\ MaxClock \in Nat /\ 0 \in Rev
  BY ReportAssumption DEF Rev
<1>2. EmptyTree \in Tree /\ EmptyDelta \in Delta
  BY DEF EmptyTree, EmptyDelta, Tree, Delta
<1>3. head = 0 /\ clock = 0 /\ pend = None
  BY DEF Init
<1>4. [time |-> 0, tree |-> EmptyTree] \in CommitFile
  BY <1>1, <1>2 DEF CommitFile
<1>5. commits \in [Rev -> CommitFile \cup {None}] /\ commits[0] = [time |-> 0, tree |-> EmptyTree]
  BY <1>1, <1>4 DEF Init
<1>6. deltas \in [Rev -> Delta \cup {None}]
  BY <1>2 DEF Init
<1>7. headAt \in [0 .. MaxClock -> Rev]
  BY <1>1 DEF Init
<1>8. FileTypes
  BY <1>1, <1>3, <1>5, <1>6, <1>7 DEF FileTypes
<1>9. HistoryInv
  <2>1. commits[0] # None /\ commits[0].time = 0
    BY <1>4, <1>5, ReportAssumption DEF CommitFile
  <2> QED BY <1>3, <2>1 DEF HistoryInv
<1>10. PendingInv /\ ClockInv
  BY <1>1, <1>3 DEF PendingInv, ClockInv
<1> QED BY <1>8, <1>9, <1>10 DEF RepoInv

LEMMA RepoTick ==
    ASSUME RepoInv, Tick
    PROVE  RepoInv' /\ Stable
<1>1. clock < MaxClock /\ clock' = clock + 1 /\ headAt' = [headAt EXCEPT ![clock] = head]
      /\ UNCHANGED <<head, commits, deltas, pend, imported>>
  BY DEF Tick
<1>2. FileTypes /\ HistoryInv /\ PendingInv /\ ClockInv
  BY DEF RepoInv
<1>3. FileTypes'
  <2>1. clock' \in 0 .. MaxClock /\ \A x \in Int : x <= clock => x <= clock'
    BY <1>1, <1>2, Bounds
  <2>2. headAt' \in [0 .. MaxClock -> Rev]
    BY <1>1, <1>2 DEF FileTypes
  <2>3. pend' # None => pend' \in Pending /\ head < MaxRev /\ (head + 1 \notin imported => pend'.time <= clock')
    <3>1. pend # None => pend \in Pending /\ head < MaxRev /\ (head + 1 \notin imported => pend.time <= clock)
      BY <1>2 DEF FileTypes
    <3>2. pend \in Pending => pend.time \in Int
      BY DEF Pending
    <3> QED BY <1>1, <2>1, <3>1, <3>2
  <2> QED BY <1>1, <1>2, <2>1, <2>2, <2>3 DEF FileTypes
<1>4. HistoryInv'
  <2>1. \A r \in 0 .. head : r \notin imported => commits[r].time <= clock'
    BY <1>1, <1>2, Published, Bounds DEF HistoryInv
  <2> QED BY <1>1, <1>2, <2>1 DEF HistoryInv
<1>5. PendingInv'
  BY <1>1, <1>2 DEF PendingInv
<1>6. ClockInv'
  <2> SUFFICES ASSUME NEW t \in 0 .. MaxClock, t < clock'
               PROVE  headAt'[t] <= head /\ \A r \in 0 .. headAt'[t] : r \notin imported => commits[r].time <= t
    BY <1>1 DEF ClockInv
  <2>1. CASE t = clock
    <3>1. headAt'[t] = head
      BY <1>1, <1>2, <2>1 DEF FileTypes
    <3>2. head <= head
      BY <1>2, Bounds
    <3> QED BY <1>2, <2>1, <3>1, <3>2 DEF HistoryInv
  <2>2. CASE t # clock
    <3>1. headAt'[t] = headAt[t] /\ t < clock
      BY <1>1, <1>2, <2>2, Bounds DEF FileTypes
    <3> QED BY <1>2, <3>1 DEF ClockInv
  <2> QED BY <2>1, <2>2
<1>7. Stable
  BY <1>1, <1>2, Bounds DEF Stable
<1> QED BY <1>3, <1>4, <1>5, <1>6, <1>7 DEF RepoInv

\* the clock and the head's files are as they were
LEMMA ClockStays ==
    ASSUME RepoInv, Stable, UNCHANGED <<clock, headAt>>
    PROVE  ClockInv'
<1> SUFFICES ASSUME NEW t \in 0 .. MaxClock, t < clock
             PROVE  headAt[t] <= head' /\ \A r \in 0 .. headAt[t] : r \notin imported' => commits'[r].time <= t
  BY DEF ClockInv
<1>1. headAt[t] \in Nat /\ headAt[t] <= head
      /\ \A r \in 0 .. headAt[t] : r \notin imported => commits[r].time <= t
  BY Bounds DEF RepoInv, ClockInv, FileTypes
<1>2. head \in Nat /\ headAt[t] <= head'
  BY <1>1, Bounds DEF RepoInv, Stable
<1>3. \A r \in 0 .. headAt[t] : r \in 0 .. head
  BY <1>1, <1>2
<1> QED BY <1>1, <1>2, <1>3 DEF Stable

\* whoever gives the time
LEMMA RepoBegin ==
    ASSUME RepoInv, NEW d \in Edits, NEW t \in 0 .. MaxClock, head < MaxRev,
           pend' = [pc |-> "commit", time |-> t, delta |-> d],
           \/ t <= clock /\ imported' = imported \ {head + 1}
           \/ imported' = imported \cup {head + 1},
           UNCHANGED <<head, commits, deltas, clock, headAt>>
    PROVE  RepoInv' /\ Stable
<1>1. FileTypes /\ HistoryInv
  BY DEF RepoInv
<1>2. d \in Delta /\ head \in Nat
  BY <1>1, Bounds, ReportAssumption
<1>3. pend' \in Pending /\ pend'.time = t /\ pend'.pc = "commit"
  BY <1>2 DEF Pending
<1>4. head + 1 \notin imported' => t <= clock
  OBVIOUS
<1>5. FileTypes'
  BY <1>1, <1>3, <1>4 DEF FileTypes
<1>6. \A r \in 0 .. head : r \in imported' <=> r \in imported
  BY <1>2
<1>7. Stable
  BY <1>1, <1>2, <1>6, Bounds DEF Stable
<1>8. HistoryInv' /\ PendingInv'
  BY <1>1, <1>3, <1>6 DEF HistoryInv, PendingInv
<1> QED BY <1>5, <1>7, <1>8, ClockStays DEF RepoInv

LEMMA RepoSetDate ==
    ASSUME RepoInv, NEW r \in Rev, NEW t \in Dates, SetDate(r, t)
    PROVE  RepoInv' /\ Stable
<1>1. r <= head /\ commits[r] # None /\ commits' = [commits EXCEPT ![r].time = t]
      /\ imported' = imported \cup {r} /\ UNCHANGED <<head, deltas, pend, clock, headAt>>
  BY DEF SetDate
<1>2. FileTypes /\ HistoryInv /\ PendingInv
  BY DEF RepoInv
<1>3. t \in 0 .. MaxClock /\ commits[r] \in CommitFile /\ head \in Nat
  BY <1>1, <1>2, Bounds, ReportAssumption DEF FileTypes
<1>4. commits'[r] \in CommitFile /\ commits'[r].tree = commits[r].tree
  BY <1>1, <1>2, <1>3 DEF CommitFile, FileTypes
<1>5. \A x \in Rev : x # r => commits'[x] = commits[x]
  BY <1>1, <1>2 DEF FileTypes
<1>6. \A x \in Rev : commits'[x].tree = commits[x].tree
  BY <1>4, <1>5
<1>7. commits' \in [Rev -> CommitFile \cup {None}]
  BY <1>1, <1>2, <1>4, <1>5 DEF FileTypes
<1>8. FileTypes'
  BY <1>1, <1>2, <1>7 DEF FileTypes
<1>9. \A x \in 0 .. head : x \in Rev /\ commits'[x] # None
  BY <1>2, <1>4, <1>5, Bounds, ReportAssumption DEF HistoryInv, CommitFile
<1>10. HistoryInv'
  <2>1. \A x \in 0 .. head : x \notin imported' => commits'[x].time <= clock
    BY <1>1, <1>2, <1>5, <1>9 DEF HistoryInv
  <2>2. \A x \in 1 .. head : x \in Rev /\ x - 1 \in Rev
    BY <1>2, Bounds
  <2> QED BY <1>1, <1>2, <1>6, <1>9, <2>1, <2>2 DEF HistoryInv
<1>11. PendingInv'
  <2>1. pend # None => head + 1 \in Rev /\ head + 1 # r /\ head \in Rev
    BY <1>1, <1>2, <1>3, Bounds DEF FileTypes, Rev
  <2> QED BY <1>1, <1>2, <1>5, <1>6, <2>1 DEF PendingInv
<1>12. Stable
  BY <1>1, <1>3, <1>5, <1>6, <1>9 DEF Stable
<1> QED BY <1>1, <1>8, <1>10, <1>11, <1>12, ClockStays DEF RepoInv

LEMMA RepoStoreCommit ==
    ASSUME RepoInv, StoreCommit
    PROVE  RepoInv' /\ Stable
<1> DEFINE c == [time |-> pend.time, tree |-> ApplyDelta(commits[head].tree, pend.delta)]
<1>1. pend # None /\ pend.pc = "commit" /\ commits' = [commits EXCEPT ![head + 1] = c]
      /\ pend' = [pend EXCEPT !.pc = "delta"] /\ UNCHANGED <<head, deltas, clock, headAt, imported>>
  BY DEF StoreCommit
<1>2. FileTypes /\ HistoryInv
  BY DEF RepoInv
<1>3. pend \in Pending /\ head < MaxRev /\ (head + 1 \notin imported => pend.time <= clock)
  BY <1>1, <1>2 DEF FileTypes
<1>4. head \in 0 .. head /\ head + 1 \in Rev /\ head + 1 \notin 0 .. head
  BY <1>2, <1>3, Bounds DEF Rev
<1>5. pend.time \in 0 .. MaxClock /\ pend.delta \in Delta
  BY <1>3 DEF Pending
<1>6. commits[head].tree \in Tree
  BY <1>2, <1>4, Published
<1>7. c \in CommitFile
  BY <1>5, <1>6, ApplyDeltaType DEF CommitFile
<1> HIDE DEF c
<1>8. commits' \in [Rev -> CommitFile \cup {None}] /\ commits'[head + 1] = c
      /\ \A r \in 0 .. head : commits'[r] = commits[r]
  BY <1>1, <1>2, <1>4, <1>7, Bounds DEF FileTypes
<1>9. pend' \in Pending /\ pend'.time = pend.time /\ pend'.delta = pend.delta /\ pend'.pc = "delta"
  BY <1>1, <1>3 DEF Pending
<1>10. FileTypes'
  BY <1>1, <1>2, <1>3, <1>8, <1>9 DEF FileTypes
<1>11. Stable
  BY <1>1, <1>2, <1>8, Bounds DEF Stable
<1>12. HistoryInv'
  BY <1>1, <1>2, <1>8, Bounds DEF HistoryInv
<1>13. PendingInv'
  BY <1>1, <1>4, <1>8, <1>9 DEF PendingInv, c
<1> QED BY <1>1, <1>10, <1>11, <1>12, <1>13, ClockStays DEF RepoInv

LEMMA RepoStoreDelta ==
    ASSUME RepoInv, StoreDelta
    PROVE  RepoInv' /\ Stable
<1>1. pend # None /\ pend.pc = "delta" /\ deltas' = [deltas EXCEPT ![head + 1] = pend.delta]
      /\ pend' = [pend EXCEPT !.pc = "publish"] /\ UNCHANGED <<head, commits, clock, headAt, imported>>
  BY DEF StoreDelta
<1>2. FileTypes /\ HistoryInv /\ PendingInv
  BY DEF RepoInv
<1>3. pend \in Pending /\ head < MaxRev /\ (head + 1 \notin imported => pend.time <= clock)
  BY <1>1, <1>2 DEF FileTypes
<1>4. head + 1 \in Rev /\ head + 1 \notin 0 .. head
  BY <1>2, <1>3, Bounds DEF Rev
<1>5. pend.delta \in Delta
  BY <1>3 DEF Pending
<1>6. deltas' \in [Rev -> Delta \cup {None}] /\ deltas'[head + 1] = pend.delta
      /\ \A r \in 0 .. head : deltas'[r] = deltas[r]
  BY <1>1, <1>2, <1>4, <1>5, Bounds DEF FileTypes
<1>7. pend' \in Pending /\ pend'.time = pend.time /\ pend'.delta = pend.delta /\ pend'.pc = "publish"
  BY <1>1, <1>3 DEF Pending
<1>8. FileTypes'
  BY <1>1, <1>2, <1>3, <1>6, <1>7 DEF FileTypes
<1>9. Stable
  BY <1>1, <1>2, <1>6, Bounds DEF Stable
<1>10. HistoryInv'
  <2>1. \A r \in 1 .. head : r \in 0 .. head
    OBVIOUS
  <2> QED BY <1>1, <1>2, <1>6, <2>1 DEF HistoryInv
<1>11. PendingInv'
  BY <1>1, <1>2, <1>6, <1>7 DEF PendingInv
<1> QED BY <1>1, <1>8, <1>9, <1>10, <1>11, ClockStays DEF RepoInv

LEMMA RepoPublish ==
    ASSUME RepoInv, Publish
    PROVE  RepoInv' /\ Stable
<1>1. pend # None /\ pend.pc = "publish" /\ head' = head + 1 /\ pend' = None
      /\ UNCHANGED <<commits, deltas, clock, headAt, imported>>
  BY DEF Publish
<1>2. FileTypes /\ HistoryInv /\ PendingInv
  BY DEF RepoInv
<1>3. pend \in Pending /\ head < MaxRev /\ (head + 1 \notin imported => pend.time <= clock)
      /\ pend.time \in 0 .. MaxClock /\ pend.delta \in Delta
  BY <1>1, <1>2 DEF FileTypes, Pending
<1>4. head' \in Rev /\ head \in Nat
  BY <1>1, <1>2, <1>3, Bounds DEF Rev
<1>5. commits[head + 1] = [time |-> pend.time, tree |-> ApplyDelta(commits[head].tree, pend.delta)]
      /\ deltas[head + 1] = pend.delta
  BY <1>1, <1>2 DEF PendingInv
<1>6. commits[head + 1] \in CommitFile
  <2>1. commits[head].tree \in Tree
    BY <1>2, <1>4, Published
  <2> QED BY <1>3, <1>5, <2>1, ApplyDeltaType DEF CommitFile
<1>7. commits[head + 1] # None /\ (head + 1 \notin imported => commits[head + 1].time <= clock)
      /\ deltas[head + 1] # None /\ commits[head + 1].tree = ApplyDelta(commits[head].tree, deltas[head + 1])
  BY <1>3, <1>5, <1>6, ReportAssumption DEF CommitFile
<1>8. (\A r \in 0 .. head' : r \in 0 .. head \/ r = head + 1) /\ (\A r \in 1 .. head' : r \in 1 .. head \/ r = head + 1)
      /\ (head + 1) - 1 = head
  BY <1>1, <1>4
<1>9. HistoryInv'
  BY <1>1, <1>2, <1>7, <1>8 DEF HistoryInv
<1>10. FileTypes'
  BY <1>1, <1>2, <1>4 DEF FileTypes
<1>11. Stable
  BY <1>1, <1>4 DEF Stable
<1> QED BY <1>1, <1>9, <1>10, <1>11, ClockStays DEF RepoInv, PendingInv

LEMMA RepoFail ==
    ASSUME RepoInv, FailCommit
    PROVE  RepoInv' /\ Stable
<1>1. pend' = None /\ UNCHANGED <<head, commits, deltas, clock, headAt, imported>>
  BY DEF FailCommit
<1>2. FileTypes' /\ HistoryInv' /\ PendingInv' /\ Stable
  BY <1>1, Bounds DEF RepoInv, FileTypes, HistoryInv, PendingInv, Stable
<1> QED BY <1>1, <1>2, ClockStays DEF RepoInv

LEMMA RepoUnchanged ==
    ASSUME RepoInv, UNCHANGED repoVars
    PROVE  RepoInv' /\ Stable
<1>1. UNCHANGED <<head, commits, deltas, pend, clock, headAt, imported>>
  BY DEF repoVars
<1>2. RepoInv'
  BY <1>1 DEF RepoInv, FileTypes, HistoryInv, PendingInv, ClockInv
<1>3. Stable
  BY <1>1, Bounds DEF Stable, RepoInv
<1> QED BY <1>2, <1>3

LEMMA RepoStep ==
    ASSUME RepoInv, Tick \/ CommitStep
    PROVE  RepoInv' /\ Stable /\ UNCHANGED <<rq, rp>>
<1>1. ASSUME NEW d \in Edits, BeginCommit(d)
      PROVE  RepoInv' /\ Stable
  <2>1. clock \in 0 .. MaxClock /\ clock <= clock
    BY DEF RepoInv, FileTypes
  <2> QED BY <1>1, <2>1, RepoBegin DEF BeginCommit
<1>2. ASSUME NEW d \in Edits, NEW t \in Dates, BeginImport(d, t)
      PROVE  RepoInv' /\ Stable
  <2>1. t \in 0 .. MaxClock
    BY ReportAssumption
  <2> QED BY <1>2, <2>1, RepoBegin DEF BeginImport
<1>3. RepoInv' /\ Stable
  BY <1>1, <1>2, RepoTick, RepoStoreCommit, RepoStoreDelta, RepoPublish, RepoFail, RepoSetDate DEF CommitStep
<1>4. UNCHANGED <<rq, rp>>
  BY DEF Tick, CommitStep, BeginCommit, BeginImport, StoreCommit, StoreDelta, Publish, FailCommit, SetDate
<1> QED BY <1>3, <1>4

-----------------------------------------------------------------------------
(***************************************************************************)
(* Whatever is committed meanwhile, what an answer says of published       *)
(* revisions stays true.                                                   *)
(***************************************************************************)
LEMMA LogRangeFacts ==
    ASSUME NEW q \in Request, NEW cur \in Nat
    PROVE  /\ LogRange(q, cur).first \in Nat /\ LogRange(q, cur).last \in Nat
           /\ LogRange(q, cur).first <= LogRange(q, cur).last
           /\ \/ /\ LogRange(q, cur).first = Given(Field(q, "start"), 1)
                 /\ LogRange(q, cur).last = Given(Field(q, "end"), cur)
              \/ /\ LogRange(q, cur).first = Given(Field(q, "end"), cur)
                 /\ LogRange(q, cur).last = Given(Field(q, "start"), 1)
<1> DEFINE s == Given(Field(q, "start"), 1)
           e == Given(Field(q, "end"), cur)
<1>1. s \in Nat /\ e \in Nat
  BY RequestAssumption DEF Given, NumberOrAbsent
<1>2. LogRange(q, cur) = IF s > e THEN [first |-> e, last |-> s, reverse |-> TRUE]
                         ELSE [first |-> s, last |-> e, reverse |-> FALSE]
  BY DEF LogRange
<1> HIDE DEF s, e
<1>3. /\ LogRange(q, cur).first \in Nat /\ LogRange(q, cur).last \in Nat
      /\ LogRange(q, cur).first <= LogRange(q, cur).last
      /\ \/ LogRange(q, cur).first = s /\ LogRange(q, cur).last = e
         \/ LogRange(q, cur).first = e /\ LogRange(q, cur).last = s
  BY <1>1, <1>2
<1> QED BY <1>3 DEF s, e

LEMMA DeletedBounds ==
    ASSUME HandlerInv, RepoInv, rp.as = "deleted"
    PROVE  /\ Peg \in Nat /\ Until \in Nat /\ Until <= rp.cur /\ rq.path \in Path
           /\ rp.cur \in Nat /\ rp.cur <= head
<1>1. rq \in Request /\ Reporting(rq, "deleted") /\ rp.cur \in Nat /\ rp.cur <= head
  BY Bounds DEF HandlerInv, RepoInv
<1>2. rq.path \in Path /\ rq.peg \in NumberOrAbsent /\ rq.end \in NumberOrAbsent
  BY <1>1, RequestAssumption DEF Reporting
<1> QED BY <1>1, <1>2 DEF Peg, Until, Given, Least, NumberOrAbsent

LEMMA AccountsStay ==
    ASSUME RepoInv, Stable, NEW item, item.rev \in 1 .. head, Accounts(item)
    PROVE  Accounts(item)'
<1>1. item.rev \in 0 .. head /\ item.rev - 1 \in 0 .. head
  BY Bounds DEF RepoInv
<1>2. commits'[item.rev].tree = commits[item.rev].tree /\ commits'[item.rev - 1].tree = commits[item.rev - 1].tree
  BY <1>1 DEF Stable
<1> QED BY <1>2 DEF Accounts

LEMMA CollectedStays ==
    ASSUME RepoInv, HandlerInv, Stable, UNCHANGED <<rq, rp>>, NEW out, NEW at, Collected(out, at)
    PROVE  Collected(out, at)'
<1>1. \A k : k \in 1 .. rp.cur => k \in 1 .. head
  BY Bounds DEF HandlerInv, RepoInv
<1>2. ASSUME Field(rq, "paths") = TRUE, NEW i \in 1 .. Len(out), out[i].rev \in 1 .. rp.cur
      PROVE  Accounts(out[i])'
  <2>1. Accounts(out[i]) /\ out[i].rev \in 1 .. head
    BY <1>1, <1>2 DEF Collected
  <2> QED BY <2>1, AccountsStay
<1> QED BY <1>2 DEF Collected

LEMMA StillThereStays ==
    ASSUME RepoInv, HandlerInv, rp.as = "deleted", Stable, UNCHANGED <<rq, rp>>, NEW n \in Int, StillThere(n)
    PROVE  StillThere(n)'
<1>1. Peg' = Peg /\ Peg \in Nat /\ rp.cur \in Nat /\ rp.cur <= head
  BY DeletedBounds DEF Peg
<1>2. \A r \in Nat : r <= rp.cur => commits'[r].tree = commits[r].tree
  BY <1>1, Bounds DEF Stable, RepoInv
<1>3. \A r \in Peg .. n : r \in Nat
  BY <1>1
<1> QED BY <1>1, <1>2, <1>3 DEF StillThere

LEMMA AnswerStays ==
    ASSUME RepoInv, AnswerInv, Stable, UNCHANGED <<rq, rp>>
    PROVE  AnswerInv'
<1> SUFFICES ASSUME rq # None
             PROVE  HandlerInv' /\ LogInv' /\ DatedInv' /\ DeletedInv' /\ LocationsInv' /\ PropfindInv'
  BY DEF AnswerInv
<1>1. HandlerInv /\ LogInv /\ DatedInv /\ DeletedInv /\ LocationsInv /\ PropfindInv
  BY DEF AnswerInv
<1>2. rp.cur \in Nat /\ rp.cur <= head /\ head \in Nat /\ rp.cur \in 0 .. head'
  BY <1>1, Bounds DEF HandlerInv, RepoInv, Stable
<1>3. HandlerInv'
  BY <1>1, <1>2 DEF HandlerInv, Shaped, Reporting
<1>4. LogInv'
  <2>1. rp.as = "log" /\ rp.pc = "log" => Collected(rp.out, rp.at)'
    BY <1>1, CollectedStays DEF LogInv
  <2>2. rp.as = "log" /\ rp.pc = "done" => Reported(rp.out)'
    <3> SUFFICES ASSUME rp.as = "log", rp.pc = "done" PROVE Reported(rp.out)'
      OBVIOUS
    <3> DEFINE range == LogRange(rq, rp.cur)
               forth == IF range.reverse THEN Reverse(rp.out) ELSE rp.out
    <3>1. PICK at \in Nat :
             /\ rp.out \in Seq(Item) /\ Collected(forth, at)
             /\ at > range.last \/ (Field(rq, "limit") # Absent /\ Len(rp.out) >= Field(rq, "limit"))
      BY <1>1 DEF LogInv, Reported
    <3>2. Collected(forth, at)'
      <4> HIDE DEF forth
      <4>1. forth' = forth
        BY DEF forth
      <4> QED BY <1>1, <3>1, <4>1, CollectedStays DEF Collected
    <3>3. range' = range
      OBVIOUS
    <3> QED BY <3>1, <3>2, <3>3 DEF Reported
  <2> QED BY <1>1, <2>1, <2>2 DEF LogInv
<1>5. DatedInv'
  <2>1. \A r \in Nat : r <= rp.cur /\ TooYoung(r) => TooYoung(r)'
    BY <1>2 DEF TooYoung, OldEnough, Stable
  <2> QED BY <1>1, <1>2, <2>1 DEF DatedInv
<1>6. DeletedInv'
  <2> SUFFICES ASSUME rp.as = "deleted"
               PROVE /\ rp.pc = "deleted" => /\ rp.last = Until' /\ rp.at \in Nat /\ Peg' < rp.at
                                             /\ StillThere(rp.at - 1)'
                     /\ rp.pc = "done" =>
                            \/ rp.out = <<0>> /\ StillThere(Until)'
                            \/ \E d \in Peg + 1 .. Until :
                                  rp.out = <<d>> /\ DeletedIn(d, rq.path)' /\ StillThere(d - 1)'
    BY DEF DeletedInv, Peg, Until
  <2>1. Peg \in Nat /\ Until \in Nat /\ Until <= rp.cur /\ Peg' = Peg /\ Until' = Until
    BY <1>1, DeletedBounds DEF Peg, Until
  <2>2. \A d \in Peg + 1 .. Until : d \in Int /\ d - 1 \in Int /\ d \in 0 .. head
    BY <1>2, <2>1
  <2>3. \A d \in Peg + 1 .. Until : DeletedIn(d, rq.path) => DeletedIn(d, rq.path)'
    BY <2>2 DEF DeletedIn, Stable
  <2>4. \A n \in Int : StillThere(n) => StillThere(n)'
    BY <1>1, StillThereStays
  <2>5. rp.pc = "deleted" => rp.at - 1 \in Int
    BY <1>1 DEF DeletedInv
  <2> QED BY <1>1, <2>1, <2>2, <2>3, <2>4, <2>5 DEF DeletedInv
<1>7. LocationsInv' /\ PropfindInv'
  BY <1>1 DEF LocationsInv, PropfindInv
<1> QED BY <1>3, <1>4, <1>5, <1>6, <1>7

-----------------------------------------------------------------------------
(***************************************************************************)
(* Requests: what a handler starts from.                                   *)
(***************************************************************************)
LEMMA StartedFields ==
    ASSUME NEW k, NEW first, NEW last
    PROVE  LET s == Started(k, first, last)
           IN  /\ Shaped(s) /\ s.pc = k /\ s.as = k /\ s.cur = head /\ s.at = first /\ s.last = last
               /\ s.out = <<>> /\ s.status = 200
BY DEF Started, Shaped

LEMMA CurHead ==
    ASSUME RepoInv, UNCHANGED repoVars
    PROVE  head' = head /\ head \in Nat /\ head \in 0 .. head' /\ UNCHANGED <<commits, deltas, imported>>
BY Bounds DEF RepoInv, repoVars

\* a handler whose answer no property is about
LEMMA OtherAnswer ==
    ASSUME RepoInv, UNCHANGED repoVars, NEW q \in Request, rq' = q, Shaped(rp'), rp'.cur \in 0 .. head,
           rp'.as \notin {"log", "dated", "deleted", "locations", "PROPFIND", "OPTIONS"},
           rp'.pc \in {"update", "replay", "GET", "done"}, rp'.pc # "done" => rp'.as = rp'.pc
    PROVE  AnswerInv'
<1>1. HandlerInv'
  BY CurHead DEF HandlerInv, Shaped
<1>2. LogInv' /\ DatedInv' /\ DeletedInv' /\ LocationsInv' /\ PropfindInv'
  BY DEF LogInv, DatedInv, DeletedInv, LocationsInv, PropfindInv
<1> QED BY <1>1, <1>2 DEF AnswerInv

LEMMA DispatchKinds ==
    ASSUME NEW q, Dispatch(q) # "log"
    PROVE  Dispatch(q) = q.kind
BY DEF Dispatch

LEMMA BeginLog ==
    ASSUME RepoInv, NEW q \in Request, UNCHANGED repoVars, rq' = q, rp' = StartLog(q)
    PROVE  AnswerInv'
<1> DEFINE range == LogRange(q, head)
<1>1. rp' = Started("log", range.first, range.last)
  BY DEF StartLog
<1>2. /\ Shaped(rp') /\ rp'.pc = "log" /\ rp'.as = "log" /\ rp'.cur = head /\ rp'.at = range.first
      /\ rp'.last = range.last /\ rp'.out = <<>>
  BY <1>1, StartedFields
<1>3. head' = head /\ head \in Nat /\ head \in 0 .. head'
  BY CurHead
<1>4. LogRange(rq, rp.cur)' = range /\ range.first \in Nat /\ range.last \in Nat
  <2>1. range.first \in Nat /\ range.last \in Nat
    BY <1>3, LogRangeFacts
  <2>2. LogRange(rq, rp.cur)' = LogRange(q, head)
    BY <1>2 DEF LogRange, Given, Field
  <2> QED BY <2>1, <2>2
<1> HIDE DEF range
<1>5. HandlerInv'
  BY <1>2, <1>3 DEF HandlerInv, Shaped
<1>6. Collected(rp.out, rp.at)'
  <2>1. <<>> \in Seq(Item) /\ Len(<<>>) = 0
    OBVIOUS
  <2>2. range.first <= range.first /\ \A r \in range.first .. range.last : ~(r < range.first)
    BY <1>4
  <2>3. Field(q, "limit") # Absent => 0 <= Field(q, "limit")
    BY RequestAssumption DEF NumberOrAbsent
  <2>4. Field(rq, "limit")' = Field(q, "limit")
    BY DEF Field
  <2>5. 1 .. 0 = {}
    OBVIOUS
  <2> QED BY <1>2, <1>4, <2>1, <2>2, <2>3, <2>4, <2>5 DEF Collected
<1>7. LogInv' /\ DatedInv' /\ DeletedInv' /\ LocationsInv' /\ PropfindInv'
  BY <1>2, <1>4, <1>6 DEF LogInv, DatedInv, DeletedInv, LocationsInv, PropfindInv
<1> QED BY <1>5, <1>7 DEF AnswerInv

LEMMA BeginDated ==
    ASSUME RepoInv, NEW q \in Request, Reporting(q, "dated"), UNCHANGED repoVars, rq' = q, rp' = StartDated(q)
    PROVE  AnswerInv'
<1>1. Shaped(rp') /\ rp'.pc = "dated" /\ rp'.as = "dated" /\ rp'.cur = head /\ rp'.at = head
  BY StartedFields DEF StartDated
<1>2. head' = head /\ head \in Nat /\ head \in 0 .. head'
  BY CurHead
<1>3. HandlerInv'
  BY <1>1, <1>2 DEF HandlerInv, Shaped, Reporting
<1>4. DatedInv'
  <2>1. head + 1 .. head = {}
    BY <1>2
  <2> QED BY <1>1, <1>2, <2>1 DEF DatedInv
<1>5. LogInv' /\ DeletedInv' /\ LocationsInv' /\ PropfindInv'
  BY <1>1 DEF LogInv, DeletedInv, LocationsInv, PropfindInv
<1> QED BY <1>3, <1>4, <1>5 DEF AnswerInv

LEMMA BeginLocations ==
    ASSUME RepoInv, NEW q \in Request, Reporting(q, "locations"), UNCHANGED repoVars, rq' = q, rp' = StartLocations(q)
    PROVE  AnswerInv'
<1>1. Shaped(rp') /\ rp'.pc = "locations" /\ rp'.as = "locations" /\ rp'.cur = head /\ rp'.at = 1 /\ rp'.out = <<>>
      /\ rp'.last = Len(q.revs)
  BY StartedFields DEF StartLocations
<1>2. HandlerInv'
  BY <1>1, CurHead DEF HandlerInv, Shaped, Reporting
<1>3. LogInv' /\ DatedInv' /\ DeletedInv' /\ LocationsInv' /\ PropfindInv'
  BY <1>1 DEF LogInv, DatedInv, DeletedInv, LocationsInv, PropfindInv
<1> QED BY <1>2, <1>3 DEF AnswerInv

LEMMA BeginDeleted ==
    ASSUME RepoInv, NEW q \in Request, Reporting(q, "deleted"), UNCHANGED repoVars, rq' = q, rp' = StartDeleted(q)
    PROVE  AnswerInv'
<1>1. /\ Shaped(rp') /\ rp'.pc = "deleted" /\ rp'.as = "deleted" /\ rp'.cur = head
      /\ rp'.at = Given(q.peg, head) + 1 /\ rp'.last = Least(Given(q.end, head), head)
  BY StartedFields DEF StartDeleted
<1>2. HandlerInv'
  BY <1>1, CurHead DEF HandlerInv, Shaped, Reporting
<1>3. Peg' = Given(q.peg, head) /\ Until' = Least(Given(q.end, head), head) /\ Given(q.peg, head) \in Nat
  <2>1. q.peg \in NumberOrAbsent /\ head \in Nat
    BY CurHead, RequestAssumption DEF Reporting
  <2> QED BY <1>1, <2>1 DEF Peg, Until, Given, NumberOrAbsent
<1>4. rp'.at - 1 = Peg' /\ rp'.at \in Nat /\ Peg' < rp'.at /\ Peg' \in Nat
  BY <1>1, <1>3
<1>5. StillThere(rp.at - 1)'
  <2>1. \A r \in Peg' .. Peg' : r = Peg'
    BY <1>4
  <2> QED BY <1>4, <2>1 DEF StillThere
<1>6. DeletedInv'
  BY <1>1, <1>3, <1>4, <1>5 DEF DeletedInv
<1>7. LogInv' /\ DatedInv' /\ LocationsInv' /\ PropfindInv'
  BY <1>1 DEF LogInv, DatedInv, LocationsInv, PropfindInv
<1> QED BY <1>2, <1>6, <1>7 DEF AnswerInv

LEMMA BeginUpdate ==
    ASSUME RepoInv, NEW q \in Request, UNCHANGED repoVars, rq' = q, rp' = StartUpdate(q)
    PROVE  AnswerInv'
<1> DEFINE start == Started("update", 1, Len(PathOrder))
           target == Given(q.target, head)
<1>1. \/ rp' = [start EXCEPT !.pc = "done", !.status = 500]
      \/ rp' = [start EXCEPT !.pc = "done"]
      \/ rp' = [start EXCEPT !.target = target, !.tree = commits[target].tree]
  BY DEF StartUpdate
<1>2. Shaped(rp') /\ rp'.as = "update" /\ rp'.cur = head /\ rp'.pc \in {"update", "done"}
  BY <1>1 DEF Started, Shaped
<1> QED BY <1>2, OtherAnswer, CurHead

LEMMA StartIs ==
    ASSUME NEW q
    PROVE  /\ Dispatch(q) = "update" => Start(q) = StartUpdate(q)
           /\ Dispatch(q) = "log" => Start(q) = StartLog(q)
           /\ Dispatch(q) = "locations" => Start(q) = StartLocations(q)
           /\ Dispatch(q) = "dated" => Start(q) = StartDated(q)
           /\ Dispatch(q) = "replay" => Start(q) = StartReplay(q)
           /\ Dispatch(q) = "deleted" => Start(q) = StartDeleted(q)
           /\ Dispatch(q) \in Empty => Start(q) = [Started(q.kind, 0, 0) EXCEPT !.pc = "done"]
           /\ Dispatch(q) \notin {"update", "log", "locations", "dated", "replay", "deleted"} \cup Empty =>
                 Start(q) = [Started("unsupported", 0, 0) EXCEPT !.pc = "done", !.status = 501]
BY DEF Start, Started, Empty

LEMMA AnswerReport ==
    ASSUME RepoInv, NEW q \in Request, ReceiveReport(q)
    PROVE  AnswerInv'
<1>1. q.method = "REPORT" /\ rq' = q /\ rp' = Start(q) /\ UNCHANGED repoVars
  BY DEF ReceiveReport
<1>2. CASE Dispatch(q) = "update"
  BY <1>1, <1>2, BeginUpdate, StartIs
<1>3. CASE Dispatch(q) = "log"
  BY <1>1, <1>3, BeginLog, StartIs
<1>4. CASE Dispatch(q) = "locations"
  BY <1>1, <1>4, BeginLocations, DispatchKinds, StartIs DEF Reporting
<1>5. CASE Dispatch(q) = "dated"
  BY <1>1, <1>5, BeginDated, DispatchKinds, StartIs DEF Reporting
<1>6. CASE Dispatch(q) = "replay"
  <2>1. rp' = Started("replay", Given(q.rev, head), 0)
    BY <1>1, <1>6, StartIs DEF StartReplay
  <2>2. Shaped(rp') /\ rp'.as = "replay" /\ rp'.pc = "replay" /\ rp'.cur = head
    BY <2>1, StartedFields
  <2> QED BY <1>1, <2>2, OtherAnswer, CurHead
<1>7. CASE Dispatch(q) = "deleted"
  BY <1>1, <1>7, BeginDeleted, DispatchKinds, StartIs DEF Reporting
<1>8. CASE Dispatch(q) \in Empty
  <2>1. rp' = [Started(q.kind, 0, 0) EXCEPT !.pc = "done"] /\ q.kind \in Empty
    BY <1>1, <1>8, DispatchKinds, StartIs DEF Empty
  <2>2. Shaped(rp') /\ rp'.as \in Empty /\ rp'.pc = "done" /\ rp'.cur = head
    BY <2>1 DEF Started, Shaped
  <2> QED BY <1>1, <2>2, OtherAnswer, CurHead DEF Empty
<1>9. CASE Dispatch(q) \notin {"update", "log", "locations", "dated", "replay", "deleted"} \cup Empty
  <2>1. rp' = [Started("unsupported", 0, 0) EXCEPT !.pc = "done", !.status = 501]
    BY <1>1, <1>9, StartIs
  <2>2. Shaped(rp') /\ rp'.as = "unsupported" /\ rp'.pc = "done" /\ rp'.cur = head
    BY <2>1 DEF Started, Shaped
  <2> QED BY <1>1, <2>2, OtherAnswer, CurHead
<1> QED BY <1>2, <1>3, <1>4, <1>5, <1>6, <1>7, <1>8, <1>9

LEMMA AnswerPropfind ==
    ASSUME RepoInv, NEW q \in Request, ReceivePropfind(q)
    PROVE  AnswerInv'
<1> DEFINE a == IF q.method = "OPTIONS" THEN Options(q) ELSE Propfind(q)
<1>1. /\ q.method \in {"PROPFIND", "OPTIONS"} /\ rq' = q /\ UNCHANGED repoVars
      /\ rp' = [Started(q.method, 0, 0) EXCEPT !.pc = "done", !.status = a[1], !.out = <<a[2]>>]
  BY DEF ReceivePropfind
<1>2. a[2] \in {head, Absent} \/ (q.method = "PROPFIND" /\ a[2] = q.rev)
  <2>1. CASE q.method = "OPTIONS"
    BY <2>1 DEF Options
  <2>2. CASE q.method = "PROPFIND"
    <3>1. Propfind(q) \in {<<207, head>>, <<207, q.rev>>, <<207, Absent>>, <<404, Absent>>}
      BY DEF Propfind, SpecialPropfind
    <3> QED BY <2>2, <3>1
  <2> QED BY <1>1, <2>1, <2>2
<1> HIDE DEF a
<1>3. Shaped(rp') /\ rp'.pc = "done" /\ rp'.as = q.method /\ rp'.cur = head /\ rp'.out = <<a[2]>>
  BY <1>1 DEF Started, Shaped
<1>4. HandlerInv'
  BY <1>1, <1>3, CurHead DEF HandlerInv, Shaped
<1>5. PropfindInv'
  BY <1>1, <1>2, <1>3 DEF PropfindInv
<1>6. LogInv' /\ DatedInv' /\ DeletedInv' /\ LocationsInv'
  BY <1>1, <1>3 DEF LogInv, DatedInv, DeletedInv, LocationsInv
<1> QED BY <1>4, <1>5, <1>6 DEF AnswerInv

LEMMA AnswerGet ==
    ASSUME RepoInv, NEW q \in Request, ReceiveGet(q)
    PROVE  AnswerInv'
<1>1. rq' = q /\ rp' = Started("GET", head, 0) /\ UNCHANGED repoVars
  BY DEF ReceiveGet
<1>2. Shaped(rp') /\ rp'.as = "GET" /\ rp'.pc = "GET" /\ rp'.cur = head
  BY <1>1, StartedFields
<1> QED BY <1>1, <1>2, OtherAnswer, CurHead

-----------------------------------------------------------------------------
(***************************************************************************)
(* The handlers' steps.                                                    *)
(***************************************************************************)
LEMMA Answered ==
    ASSUME Shaped(rp), NEW st, NEW o, rp' = Answer(st, o)
    PROVE  Shaped(rp') /\ rp'.pc = "done" /\ rp'.as = rp.as /\ rp'.cur = rp.cur /\ rp'.out = o
BY DEF Answer, Shaped

LEMMA Moved ==
    ASSUME Shaped(rp), NEW x, NEW o, rp' = [rp EXCEPT !.at = x, !.out = o]
    PROVE  /\ Shaped(rp') /\ rp'.pc = rp.pc /\ rp'.as = rp.as /\ rp'.cur = rp.cur /\ rp'.last = rp.last
           /\ rp'.at = x /\ rp'.out = o
BY DEF Shaped

LEMMA Stepped ==
    ASSUME Shaped(rp), NEW x, rp' = [rp EXCEPT !.at = x]
    PROVE  /\ Shaped(rp') /\ rp'.pc = rp.pc /\ rp'.as = rp.as /\ rp'.cur = rp.cur /\ rp'.last = rp.last
           /\ rp'.at = x /\ rp'.out = rp.out
BY DEF Shaped

LEMMA Sent ==
    ASSUME Shaped(rp), NEW x, NEW o, NEW d, rp' = [rp EXCEPT !.at = x, !.opened = d, !.out = o]
    PROVE  Shaped(rp') /\ rp'.pc = rp.pc /\ rp'.as = rp.as /\ rp'.cur = rp.cur
BY DEF Shaped

LEMMA HandlerKept ==
    ASSUME RepoInv, HandlerInv, UNCHANGED <<repoVars, rq>>, Shaped(rp'), rp'.as = rp.as, rp'.cur = rp.cur,
           rp'.pc \in {rp.pc, "done"}
    PROVE  HandlerInv' /\ head' = head /\ rp.cur \in Nat /\ rp.cur <= head /\ head \in Nat
<1>1. head' = head /\ head \in Nat
  BY CurHead
<1>2. HandlerInv'
  BY <1>1 DEF HandlerInv, Shaped, Reporting
<1> QED BY <1>1, <1>2 DEF HandlerInv

\* a step of a handler whose answer no property is about
LEMMA OtherStep ==
    ASSUME RepoInv, AnswerInv, rq # None, UNCHANGED <<repoVars, rq>>, rp.as \in {"update", "replay", "GET"},
           Shaped(rp'), rp'.as = rp.as, rp'.cur = rp.cur, rp'.pc \in {rp.pc, "done"}
    PROVE  AnswerInv'
<1>1. HandlerInv
  BY DEF AnswerInv
<1>2. rp'.cur \in 0 .. head /\ rq \in Request /\ rq' = rq /\ UNCHANGED repoVars
  BY <1>1 DEF HandlerInv
<1>3. rp'.pc \in {"update", "replay", "GET", "done"} /\ (rp'.pc # "done" => rp'.as = rp'.pc)
  BY <1>1 DEF HandlerInv
<1>4. rp'.as \notin {"log", "dated", "deleted", "locations", "PROPFIND", "OPTIONS"}
  OBVIOUS
<1> QED BY <1>2, <1>3, <1>4, OtherAnswer

LEMMA AnswerUpdateEntry ==
    ASSUME RepoInv, AnswerInv, UpdateEntry
    PROVE  AnswerInv'
<1>1. rq # None /\ rp.pc = "update" /\ UNCHANGED <<repoVars, rq>>
  BY DEF UpdateEntry
<1>2. HandlerInv /\ Shaped(rp) /\ rp.as = "update"
  BY <1>1 DEF AnswerInv, HandlerInv
<1>3. \/ \E o, d : rp' = [rp EXCEPT !.at = rp.at + 1, !.opened = d, !.out = o]
      \/ rp' = [rp EXCEPT !.at = rp.at + 1]
  BY DEF UpdateEntry, SendFile
<1>4. Shaped(rp') /\ rp'.as = rp.as /\ rp'.cur = rp.cur /\ rp'.pc = rp.pc
  BY <1>2, <1>3, Sent, Stepped
<1> QED BY <1>1, <1>2, <1>4, OtherStep

LEMMA AnswerOther ==
    ASSUME RepoInv, AnswerInv, UpdateEnd \/ ReplayRevision \/ ReadFile
    PROVE  AnswerInv'
<1>1. rq # None /\ rp.pc \in {"update", "replay", "GET"} /\ UNCHANGED <<repoVars, rq>>
  BY DEF UpdateEnd, ReplayRevision, ReadFile
<1>2. HandlerInv /\ Shaped(rp) /\ rp.as = rp.pc
  BY <1>1 DEF AnswerInv, HandlerInv
<1>3. \E st, o : rp' = Answer(st, o)
  BY DEF UpdateEnd, ReplayRevision, ReadFile
<1>4. Shaped(rp') /\ rp'.as = rp.as /\ rp'.cur = rp.cur /\ rp'.pc = "done"
  BY <1>2, <1>3, Answered
<1> QED BY <1>1, <1>2, <1>4, OtherStep

LEMMA AnswerRespond ==
    ASSUME Respond
    PROVE  AnswerInv'
BY DEF Respond, AnswerInv

LEMMA AnswerLocate ==
    ASSUME RepoInv, AnswerInv, Locate \/ LocateEnd
    PROVE  AnswerInv'
<1>1. rq # None /\ rp.pc = "locations" /\ UNCHANGED <<repoVars, rq>> /\ rq' = rq
  BY DEF Locate, LocateEnd
<1>2. HandlerInv /\ LocationsInv /\ Shaped(rp) /\ rp.as = "locations" /\ rq \in Request /\ Reporting(rq, "locations")
  BY <1>1 DEF AnswerInv, HandlerInv
<1>3. /\ rp.out \in Seq(0 .. rp.cur) /\ rp.at \in Nat \ {0} /\ rp.last = Len(rq.revs)
      /\ rq.revs \in Seq(Nat) /\ rp.cur \in Nat
  BY <1>1, <1>2, RequestAssumption, Bounds DEF LocationsInv, Reporting, HandlerInv, RepoInv
<1>4. CASE Locate
  <2> DEFINE r == Least(rq.revs[rp.at], rp.cur)
             o == IF Located(r) THEN Append(rp.out, r) ELSE rp.out
  <2>1. rp' = [rp EXCEPT !.at = rp.at + 1, !.out = o]
    BY <1>4 DEF Locate
  <2>2. rp.at \in 1 .. Len(rq.revs)
    BY <1>3, <1>4 DEF Locate
  <2>3. rq.revs[rp.at] \in Nat
    BY <1>3, <2>2
  <2>4. r \in 0 .. rp.cur
    BY <1>3, <2>3 DEF Least
  <2>5. o \in Seq(0 .. rp.cur)
    <3>1. Append(rp.out, r) \in Seq(0 .. rp.cur)
      <4> HIDE DEF r
      <4> QED BY <1>3, <2>4
    <3> QED BY <1>3, <3>1
  <2> HIDE DEF o
  <2>6. /\ Shaped(rp') /\ rp'.pc = rp.pc /\ rp'.as = rp.as /\ rp'.cur = rp.cur /\ rp'.last = rp.last
        /\ rp'.at = rp.at + 1 /\ rp'.out = o
    BY <1>2, <2>1, Moved
  <2>7. HandlerInv' /\ LocationsInv'
    BY <1>1, <1>2, <1>3, <2>5, <2>6, HandlerKept DEF LocationsInv
  <2>8. LogInv' /\ DatedInv' /\ DeletedInv' /\ PropfindInv'
    BY <1>2, <2>6 DEF LogInv, DatedInv, DeletedInv, PropfindInv
  <2> QED BY <2>7, <2>8 DEF AnswerInv
<1>5. CASE LocateEnd
  <2>1. rp' = Answer(200, rp.out)
    BY <1>5 DEF LocateEnd
  <2>2. Shaped(rp') /\ rp'.pc = "done" /\ rp'.as = rp.as /\ rp'.cur = rp.cur /\ rp'.out = rp.out
    BY <1>2, <2>1, Answered
  <2>3. HandlerInv' /\ LocationsInv'
    BY <1>1, <1>2, <1>3, <2>2, HandlerKept DEF LocationsInv
  <2>4. LogInv' /\ DatedInv' /\ DeletedInv' /\ PropfindInv'
    BY <1>2, <2>2 DEF LogInv, DatedInv, DeletedInv, PropfindInv
  <2> QED BY <2>3, <2>4 DEF AnswerInv
<1> QED BY <1>4, <1>5

LEMMA AnswerDated ==
    ASSUME RepoInv, AnswerInv, DatedRevision
    PROVE  AnswerInv'
<1>1. rq # None /\ rp.pc = "dated" /\ UNCHANGED <<repoVars, rq>> /\ rq' = rq
  BY DEF DatedRevision
<1>2. HandlerInv /\ DatedInv /\ Shaped(rp) /\ rp.as = "dated" /\ rp.cur \in Nat
  BY <1>1, Bounds DEF AnswerInv, HandlerInv, RepoInv
<1>3. rp.at \in 0 .. rp.cur /\ \A r \in rp.at + 1 .. rp.cur : TooYoung(r)
  BY <1>1, <1>2 DEF DatedInv
<1>4. \A r : TooYoung(r)' = TooYoung(r)
  BY <1>1, CurHead DEF TooYoung, OldEnough
<1>5. \/ rp' = Answer(200, <<rp.at>>)
      \/ TooYoung(rp.at) /\ rp.at # 0 /\ rp' = [rp EXCEPT !.at = rp.at - 1]
  BY DEF DatedRevision, TooYoung
<1>6. CASE rp' = Answer(200, <<rp.at>>)
  <2>1. Shaped(rp') /\ rp'.pc = "done" /\ rp'.as = rp.as /\ rp'.cur = rp.cur /\ rp'.out = <<rp.at>>
    BY <1>2, <1>6, Answered
  <2>2. HandlerInv' /\ DatedInv'
    BY <1>1, <1>2, <1>3, <1>4, <2>1, HandlerKept DEF DatedInv
  <2>3. LogInv' /\ LocationsInv' /\ DeletedInv' /\ PropfindInv'
    BY <1>2, <2>1 DEF LogInv, LocationsInv, DeletedInv, PropfindInv
  <2> QED BY <2>2, <2>3 DEF AnswerInv
<1>7. CASE TooYoung(rp.at) /\ rp.at # 0 /\ rp' = [rp EXCEPT !.at = rp.at - 1]
  <2>1. /\ Shaped(rp') /\ rp'.pc = rp.pc /\ rp'.as = rp.as /\ rp'.cur = rp.cur
        /\ rp'.at = rp.at - 1 /\ rp'.out = rp.out
    BY <1>2, <1>7, Stepped
  <2>2. rp'.at \in 0 .. rp.cur /\ \A r \in rp'.at + 1 .. rp.cur : r = rp.at \/ r \in rp.at + 1 .. rp.cur
    BY <1>2, <1>3, <1>7, <2>1
  <2>3. HandlerInv' /\ DatedInv'
    BY <1>1, <1>2, <1>3, <1>4, <1>7, <2>1, <2>2, HandlerKept DEF DatedInv
  <2>4. LogInv' /\ LocationsInv' /\ DeletedInv' /\ PropfindInv'
    BY <1>2, <2>1 DEF LogInv, LocationsInv, DeletedInv, PropfindInv
  <2> QED BY <2>3, <2>4 DEF AnswerInv
<1> QED BY <1>5, <1>6, <1>7

LEMMA AnswerDeleted ==
    ASSUME RepoInv, AnswerInv, DeletedRevision
    PROVE  AnswerInv'
<1>1. rq # None /\ rp.pc = "deleted" /\ UNCHANGED <<repoVars, rq>> /\ rq' = rq
  BY DEF DeletedRevision
<1>2. HandlerInv /\ DeletedInv /\ Shaped(rp) /\ rp.as = "deleted"
  BY <1>1 DEF AnswerInv, HandlerInv
<1>3. rp.last = Until /\ rp.at \in Nat /\ Peg < rp.at /\ StillThere(rp.at - 1)
  BY <1>1, <1>2 DEF DeletedInv
<1>4. Peg \in Nat /\ Until \in Nat /\ Until <= rp.cur /\ rq.path \in Path /\ rp.cur \in Nat /\ rp.cur <= head
  BY <1>2, DeletedBounds
<1>5. UNCHANGED <<commits, deltas>>
  BY <1>1, CurHead
<1>6. \/ rp.at > rp.last /\ rp' = Answer(200, <<0>>)
      \/ ~(rp.at > rp.last) /\ DeletedIn(rp.at, rq.path) /\ rp' = Answer(200, <<rp.at>>)
      \/ ~(rp.at > rp.last) /\ ~DeletedIn(rp.at, rq.path) /\ rp' = [rp EXCEPT !.at = rp.at + 1]
  BY DEF DeletedRevision
<1>7. ASSUME rp'.cur = rp.cur
      PROVE  Peg' = Peg /\ Until' = Until /\ (\A n : StillThere(n)' = StillThere(n))
             /\ \A d : DeletedIn(d, rq.path)' = DeletedIn(d, rq.path)
  BY <1>1, <1>5, <1>7 DEF Peg, Until, StillThere, DeletedIn
<1>8. CASE rp.at > rp.last /\ rp' = Answer(200, <<0>>)
  <2>1. Shaped(rp') /\ rp'.pc = "done" /\ rp'.as = rp.as /\ rp'.cur = rp.cur /\ rp'.out = <<0>>
    BY <1>2, <1>8, Answered
  <2>2. StillThere(Until)
    <3>1. \A r \in Peg .. Until : r \in Peg .. rp.at - 1
      BY <1>3, <1>4, <1>8
    <3> QED BY <1>3, <3>1 DEF StillThere
  <2>3. HandlerInv' /\ DeletedInv'
    BY <1>1, <1>2, <1>7, <2>1, <2>2, HandlerKept DEF DeletedInv
  <2>4. LogInv' /\ DatedInv' /\ LocationsInv' /\ PropfindInv'
    BY <1>2, <2>1 DEF LogInv, DatedInv, LocationsInv, PropfindInv
  <2> QED BY <2>3, <2>4 DEF AnswerInv
<1>9. CASE ~(rp.at > rp.last) /\ DeletedIn(rp.at, rq.path) /\ rp' = Answer(200, <<rp.at>>)
  <2>1. Shaped(rp') /\ rp'.pc = "done" /\ rp'.as = rp.as /\ rp'.cur = rp.cur /\ rp'.out = <<rp.at>>
    BY <1>2, <1>9, Answered
  <2>2. rp.at \in Peg + 1 .. Until
    BY <1>3, <1>4, <1>9
  <2>3. HandlerInv' /\ DeletedInv'
    BY <1>1, <1>2, <1>3, <1>7, <1>9, <2>1, <2>2, HandlerKept DEF DeletedInv
  <2>4. LogInv' /\ DatedInv' /\ LocationsInv' /\ PropfindInv'
    BY <1>2, <2>1 DEF LogInv, DatedInv, LocationsInv, PropfindInv
  <2> QED BY <2>3, <2>4 DEF AnswerInv
<1>10. CASE ~(rp.at > rp.last) /\ ~DeletedIn(rp.at, rq.path) /\ rp' = [rp EXCEPT !.at = rp.at + 1]
  <2>1. /\ Shaped(rp') /\ rp'.pc = rp.pc /\ rp'.as = rp.as /\ rp'.cur = rp.cur /\ rp'.last = rp.last
        /\ rp'.at = rp.at + 1 /\ rp'.out = rp.out
    BY <1>2, <1>10, Stepped
  <2>2. rp.at \in 1 .. head /\ rp.at \in Rev /\ rp.at - 1 \in 0 .. head /\ rp.at - 1 \in Peg .. rp.at - 1 /\ rp.at - 1 <= rp.cur
    BY <1>3, <1>4, <1>10, Bounds DEF RepoInv
  <2>3. /\ deltas[rp.at] # None /\ deltas[rp.at] \in Delta
        /\ commits[rp.at].tree = ApplyDelta(commits[rp.at - 1].tree, deltas[rp.at])
    BY <2>2 DEF RepoInv, HistoryInv, FileTypes
  <2>4. commits[rp.at - 1].tree[rq.path] # NoEntry => commits[rp.at].tree[rq.path] # NoEntry
    <3>1. /\ deltas[rp.at][rq.path] # Delete
          /\ ~ \E a \in Path : <<a, rq.path>> \in Below /\ deltas[rp.at][a] = Delete
      BY <1>4, <1>10, <2>3 DEF DeletedIn
    <3> QED BY <1>4, <2>3, <3>1, MarkerAssumption DEF ApplyDelta
  <2>5. StillThere(rp.at)
    <3>1. \A r \in Peg .. rp.at : r \in Peg .. rp.at - 1 \/ r = rp.at
      BY <1>3, <1>4
    <3> QED BY <1>3, <2>2, <2>4, <3>1 DEF StillThere
  <2>6. rp.at + 1 \in Nat /\ (rp.at + 1) - 1 = rp.at /\ Peg < rp.at + 1
    BY <1>3, <1>4
  <2>7. HandlerInv' /\ DeletedInv'
    BY <1>1, <1>2, <1>3, <1>7, <2>1, <2>5, <2>6, HandlerKept DEF DeletedInv
  <2>8. LogInv' /\ DatedInv' /\ LocationsInv' /\ PropfindInv'
    BY <1>2, <2>1 DEF LogInv, DatedInv, LocationsInv, PropfindInv
  <2> QED BY <2>7, <2>8 DEF AnswerInv
<1> QED BY <1>6, <1>8, <1>9, <1>10

-----------------------------------------------------------------------------
(***************************************************************************)
(* The log report: a revision more.                                        *)
(***************************************************************************)
LEMMA LogItemFacts ==
    ASSUME RepoInv, NEW r \in Rev
    PROVE  LogItem(r) \in Item /\ LogItem(r).rev = r
<1>1. r \in Nat /\ deltas[r] \in Delta \cup {None}
  BY Bounds DEF RepoInv, FileTypes
<1>2. ChangedPaths(r) \in SUBSET [path : Path, deleted : BOOLEAN]
  <2>1. {} \in SUBSET [path : Path, deleted : BOOLEAN]
    OBVIOUS
  <2>2. \A p \in Path : [path |-> p, deleted |-> deltas[r][p] = Delete] \in [path : Path, deleted : BOOLEAN]
    OBVIOUS
  <2> QED BY <2>1, <2>2 DEF ChangedPaths
<1> QED BY <1>1, <1>2 DEF LogItem, Item

LEMMA LogItemAccounts ==
    ASSUME RepoInv, NEW r \in 1 .. head, Field(rq, "paths") = TRUE
    PROVE  Accounts(LogItem(r))
<1>1. r # 0 /\ r \in Rev
  BY Bounds DEF RepoInv
<1>2. deltas[r] # None /\ deltas[r] \in Delta /\ commits[r].tree = ApplyDelta(commits[r - 1].tree, deltas[r])
  BY <1>1 DEF RepoInv, HistoryInv, FileTypes
<1>3. LogItem(r).rev = r /\ LogItem(r).paths = ChangedPaths(r)
  BY DEF LogItem
<1>4. \A p \in Path : deltas[r][p] # NoChange => [path |-> p, deleted |-> deltas[r][p] = Delete] \in ChangedPaths(r)
  BY <1>1, <1>2 DEF ChangedPaths
<1>5. ASSUME NEW p \in Path, commits[r].tree[p] # commits[r - 1].tree[p]
      PROVE  \E c \in ChangedPaths(r) : c.path = p \/ (c.deleted /\ <<c.path, p>> \in Below)
  <2>1. \/ deltas[r][p] \in Entry \cup {Delete}
        \/ \E a \in Path : <<a, p>> \in Below /\ deltas[r][a] = Delete
    BY <1>2, <1>5 DEF ApplyDelta
  <2>2. CASE deltas[r][p] \in Entry \cup {Delete}
    BY <1>4, <2>2, MarkerAssumption
  <2>3. CASE \E a \in Path : <<a, p>> \in Below /\ deltas[r][a] = Delete
    <3>1. PICK a \in Path : <<a, p>> \in Below /\ deltas[r][a] = Delete
      BY <2>3
    <3>2. [path |-> a, deleted |-> TRUE] \in ChangedPaths(r)
      BY <1>4, <3>1, MarkerAssumption
    <3> QED BY <3>1, <3>2
  <2> QED BY <2>1, <2>2, <2>3
<1> QED BY <1>3, <1>5 DEF Accounts

LEMMA CollectedMore ==
    ASSUME RepoInv, HandlerInv, NEW out, NEW at, Collected(out, at), at <= LogRange(rq, rp.cur).last,
           Field(rq, "limit") # Absent => Len(out) < Field(rq, "limit")
    PROVE  Collected(IF at \in Rev /\ commits[at] # None THEN Append(out, LogItem(at)) ELSE out, at + 1)
<1> DEFINE range == LogRange(rq, rp.cur)
<1>1. rp.cur \in Nat /\ rp.cur <= head /\ rq \in Request /\ head \in Nat
  BY Bounds DEF HandlerInv, RepoInv
<1>2. range.first \in Nat /\ range.last \in Nat
  BY <1>1, LogRangeFacts
<1>3. Field(rq, "limit") # Absent => Field(rq, "limit") \in Nat
  BY <1>1, RequestAssumption DEF NumberOrAbsent
<1>4. /\ out \in Seq(Item) /\ at \in Nat /\ range.first <= at /\ at <= range.last
      /\ \A i, j \in 1 .. Len(out) : i < j => out[i].rev < out[j].rev
      /\ \A i \in 1 .. Len(out) : out[i].rev \in range.first .. range.last /\ out[i].rev < at
      /\ \A r \in range.first .. range.last : r < at /\ r <= rp.cur => \E i \in 1 .. Len(out) : out[i].rev = r
      /\ Field(rq, "paths") = TRUE =>
            \A i \in 1 .. Len(out) : out[i].rev \in 1 .. rp.cur => Accounts(out[i])
  BY DEF Collected
<1> HIDE DEF range
<1>5. CASE at \in Rev /\ commits[at] # None
  <2> DEFINE it == LogItem(at)
             o == Append(out, it)
  <2>1. it \in Item /\ it.rev = at
    BY <1>5, LogItemFacts
  <2>2. Field(rq, "paths") = TRUE /\ at \in 1 .. rp.cur => Accounts(it)
    <3>1. at \in 1 .. rp.cur => at \in 1 .. head
      BY <1>1
    <3> QED BY <3>1, LogItemAccounts
  <2> HIDE DEF it
  <2>3. /\ o \in Seq(Item) /\ Len(o) = Len(out) + 1 /\ Len(out) \in Nat /\ o[Len(out) + 1] = it
        /\ \A i \in 1 .. Len(out) : o[i] = out[i]
    BY <1>4, <2>1
  <2> HIDE DEF o
  <2>4. \A i \in 1 .. Len(o) : i \in 1 .. Len(out) \/ i = Len(out) + 1
    BY <2>3
  <2>5. Field(rq, "limit") # Absent => Len(o) <= Field(rq, "limit")
    BY <1>3, <2>3
  <2>6. \A i \in 1 .. Len(o) : o[i].rev \in range.first .. range.last /\ o[i].rev < at + 1 /\ o[i].rev \in Nat
    <3> SUFFICES ASSUME NEW i \in 1 .. Len(o)
                 PROVE  o[i].rev \in range.first .. range.last /\ o[i].rev < at + 1 /\ o[i].rev \in Nat
      OBVIOUS
    <3>1. CASE i \in 1 .. Len(out)
      BY <1>2, <1>4, <2>3, <3>1
    <3>2. CASE i = Len(out) + 1
      BY <1>2, <1>4, <2>1, <2>3, <3>2
    <3> QED BY <2>4, <3>1, <3>2
  <2>7. ASSUME NEW i \in 1 .. Len(o), NEW j \in 1 .. Len(o), i < j
        PROVE  o[i].rev < o[j].rev
    <3>1. i \in 1 .. Len(out)
      BY <2>3, <2>7
    <3>2. CASE j \in 1 .. Len(out)
      BY <1>4, <2>3, <2>7, <3>1, <3>2
    <3>3. CASE j = Len(out) + 1
      BY <1>4, <2>1, <2>3, <3>1, <3>3
    <3> QED BY <2>4, <3>2, <3>3
  <2>8. ASSUME NEW r \in range.first .. range.last, r < at + 1, r <= rp.cur
        PROVE  \E i \in 1 .. Len(o) : o[i].rev = r
    <3>1. CASE r < at
      <4>1. PICK i \in 1 .. Len(out) : out[i].rev = r
        BY <1>4, <2>8, <3>1
      <4> QED BY <2>3, <4>1
    <3>2. CASE r = at
      BY <2>1, <2>3, <3>2
    <3> QED BY <1>2, <1>4, <2>8, <3>1, <3>2
  <2>9. ASSUME Field(rq, "paths") = TRUE, NEW i \in 1 .. Len(o), o[i].rev \in 1 .. rp.cur
        PROVE  Accounts(o[i])
    <3>1. CASE i \in 1 .. Len(out)
      BY <1>4, <2>3, <2>9, <3>1
    <3>2. CASE i = Len(out) + 1
      BY <2>1, <2>2, <2>3, <2>9, <3>2
    <3> QED BY <2>4, <3>1, <3>2
  <2>10. at + 1 \in Nat /\ range.first <= at + 1
    BY <1>2, <1>4
  <2>11. Collected(o, at + 1)
    BY <2>3, <2>5, <2>6, <2>7, <2>8, <2>9, <2>10 DEF Collected, range
  <2> QED BY <1>5, <2>11 DEF o, it
<1>6. CASE ~(at \in Rev /\ commits[at] # None)
  <2>1. at > rp.cur
    <3>1. at <= rp.cur => at \in 0 .. head
      BY <1>1, <1>4
    <3>2. at \in 0 .. head => at \in Rev /\ commits[at] # None
      BY Bounds DEF RepoInv, HistoryInv
    <3> QED BY <1>1, <1>4, <1>6, <3>1, <3>2
  <2>2. ASSUME NEW r \in range.first .. range.last, r < at + 1, r <= rp.cur
        PROVE  \E i \in 1 .. Len(out) : out[i].rev = r
    <3>1. r < at
      BY <1>1, <1>2, <1>4, <2>1, <2>2
    <3> QED BY <1>4, <2>2, <3>1
  <2>3. \A i \in 1 .. Len(out) : out[i].rev < at + 1
    BY <1>2, <1>4
  <2>4. at + 1 \in Nat /\ range.first <= at + 1
    BY <1>2, <1>4
  <2>5. Field(rq, "limit") # Absent => Len(out) <= Field(rq, "limit")
    BY DEF Collected
  <2>6. Collected(out, at + 1)
    BY <1>4, <2>2, <2>3, <2>4, <2>5 DEF Collected, range
  <2> QED BY <1>6, <2>6
<1> QED BY <1>5, <1>6

\* a step of the handler changes neither the files nor the request
LEMMA CollectedSame ==
    ASSUME UNCHANGED <<repoVars, rq>>, rp'.cur = rp.cur, NEW out, NEW at, Collected(out, at)
    PROVE  Collected(out, at)'
<1>1. UNCHANGED <<commits, rq>>
  BY DEF repoVars
<1>2. \A item : Accounts(item)' = Accounts(item)
  BY <1>1 DEF Accounts
<1> QED BY <1>1, <1>2 DEF Collected

LEMMA ReverseTwice ==
    ASSUME NEW S, NEW s \in Seq(S)
    PROVE  /\ Reverse(s) \in Seq(S) /\ Len(Reverse(s)) = Len(s) /\ Reverse(Reverse(s)) = s
           /\ \A i \in 1 .. Len(s) : Reverse(s)[i] = s[Len(s) - i + 1]
<1>1. Len(s) \in Nat /\ \A i \in 1 .. Len(s) : Len(s) - i + 1 \in 1 .. Len(s)
  OBVIOUS
<1>2. /\ Reverse(s) \in Seq(S) /\ Len(Reverse(s)) = Len(s)
      /\ \A i \in 1 .. Len(s) : Reverse(s)[i] = s[Len(s) - i + 1]
  BY <1>1 DEF Reverse
<1>3. /\ Reverse(Reverse(s)) \in Seq(S) /\ Len(Reverse(Reverse(s))) = Len(s)
      /\ \A i \in 1 .. Len(s) : Reverse(Reverse(s))[i] = Reverse(s)[Len(s) - i + 1]
  BY <1>1, <1>2 DEF Reverse
<1>4. \A i \in 1 .. Len(s) : Reverse(Reverse(s))[i] = s[i]
  <2> TAKE i \in 1 .. Len(s)
  <2>1. Len(s) - (Len(s) - i + 1) + 1 = i
    BY <1>1
  <2> QED BY <1>1, <1>2, <1>3, <2>1
<1> QED BY <1>1, <1>2, <1>3, <1>4

LEMMA AnswerLogRevision ==
    ASSUME RepoInv, AnswerInv, LogRevision
    PROVE  AnswerInv'
<1> DEFINE o == IF rp.at \in Rev /\ commits[rp.at] # None THEN Append(rp.out, LogItem(rp.at)) ELSE rp.out
<1>1. rq # None /\ rp.pc = "log" /\ UNCHANGED <<repoVars, rq>> /\ rq' = rq /\ LogMore
      /\ rp' = [rp EXCEPT !.at = rp.at + 1, !.out = o]
  BY DEF LogRevision
<1>2. HandlerInv /\ LogInv /\ Shaped(rp) /\ rp.as = "log"
  BY <1>1 DEF AnswerInv, HandlerInv
<1>3. rp.last = LogRange(rq, rp.cur).last /\ Collected(rp.out, rp.at)
  BY <1>1, <1>2 DEF LogInv
<1>4. rp.at <= rp.last /\ (Field(rq, "limit") # Absent => Len(rp.out) < Field(rq, "limit"))
  BY <1>1 DEF LogMore, Field
<1>5. Collected(o, rp.at + 1)
  BY <1>2, <1>3, <1>4, CollectedMore
<1> HIDE DEF o
<1>6. /\ Shaped(rp') /\ rp'.pc = rp.pc /\ rp'.as = rp.as /\ rp'.cur = rp.cur /\ rp'.last = rp.last
      /\ rp'.at = rp.at + 1 /\ rp'.out = o
  BY <1>1, <1>2, Moved
<1>7. \A item : Accounts(item)' = Accounts(item)
  BY <1>1 DEF Accounts, repoVars
<1>8. Collected(rp.out, rp.at)'
  BY <1>1, <1>5, <1>6, <1>7 DEF Collected
<1>9. HandlerInv' /\ LogInv'
  BY <1>1, <1>2, <1>3, <1>6, <1>8, HandlerKept DEF LogInv
<1>10. DatedInv' /\ DeletedInv' /\ LocationsInv' /\ PropfindInv'
  BY <1>2, <1>6 DEF DatedInv, DeletedInv, LocationsInv, PropfindInv
<1> QED BY <1>9, <1>10 DEF AnswerInv

LEMMA AnswerLogEnd ==
    ASSUME RepoInv, AnswerInv, LogEnd
    PROVE  AnswerInv'
<1> DEFINE range == LogRange(rq, rp.cur)
           o == IF range.reverse THEN Reverse(rp.out) ELSE rp.out
           forth == IF range.reverse THEN Reverse(o) ELSE o
<1>1. rq # None /\ rp.pc = "log" /\ UNCHANGED <<repoVars, rq>> /\ rq' = rq /\ ~LogMore /\ rp' = Answer(200, o)
  BY DEF LogEnd
<1>2. HandlerInv /\ LogInv /\ Shaped(rp) /\ rp.as = "log" /\ rp.cur \in Nat /\ rq \in Request
  BY <1>1, Bounds DEF AnswerInv, HandlerInv, RepoInv
<1>3. rp.last = range.last /\ Collected(rp.out, rp.at) /\ rp.out \in Seq(Item) /\ rp.at \in Nat
  BY <1>1, <1>2 DEF LogInv, Collected
<1>4. o \in Seq(Item) /\ Len(o) = Len(rp.out) /\ Len(o) \in Nat /\ forth = rp.out
  BY <1>3, ReverseTwice
<1>5. rp.at > range.last \/ (Field(rq, "limit") # Absent /\ Len(o) >= Field(rq, "limit"))
  <2>1. range.last \in Nat
    BY <1>2, LogRangeFacts
  <2>2. Field(rq, "limit") # Absent => Field(rq, "limit") \in Nat /\ Field(rq, "limit") = rq.limit
    BY <1>2, RequestAssumption DEF NumberOrAbsent, Field
  <2>3. ~(rp.at <= range.last) \/ (Field(rq, "limit") # Absent /\ ~(Len(rp.out) < rq.limit))
    BY <1>1, <1>3 DEF LogMore
  <2> QED BY <1>3, <1>4, <2>1, <2>2, <2>3
<1>6. Reported(o)
  BY <1>3, <1>4, <1>5 DEF Reported
<1> HIDE DEF o
<1>7. Shaped(rp') /\ rp'.pc = "done" /\ rp'.as = rp.as /\ rp'.cur = rp.cur /\ rp'.out = o
  BY <1>1, <1>2, Answered
<1>8. Reported(rp.out)'
  <2>1. \A x, y : Collected(x, y) => Collected(x, y)'
    BY <1>1, <1>7, CollectedSame
  <2> QED BY <1>1, <1>6, <1>7, <2>1 DEF Reported
<1>9. HandlerInv' /\ LogInv'
  BY <1>1, <1>2, <1>7, <1>8, HandlerKept DEF LogInv
<1>10. DatedInv' /\ DeletedInv' /\ LocationsInv' /\ PropfindInv'
  BY <1>2, <1>7 DEF DatedInv, DeletedInv, LocationsInv, PropfindInv
<1> QED BY <1>9, <1>10 DEF AnswerInv

LEMMA AnswerStep ==
    ASSUME RepoInv, AnswerInv, ReportStep \/ ReadFile \/ Respond
    PROVE  AnswerInv' /\ UNCHANGED repoVars
<1>1. AnswerInv'
  BY AnswerUpdateEntry, AnswerOther, AnswerRespond, AnswerLocate, AnswerDated, AnswerDeleted,
     AnswerLogRevision, AnswerLogEnd
     DEF ReportStep
<1>2. UNCHANGED repoVars
  BY DEF ReportStep, ReadFile, Respond, UpdateEntry, UpdateEnd, LogRevision, LogEnd, Locate, LocateEnd,
         DatedRevision, ReplayRevision, DeletedRevision
<1> QED BY <1>1, <1>2

LEMMA InvStep ==
    ASSUME Inv, [Next]_vars
    PROVE  Inv'
<1>1. RepoInv /\ AnswerInv
  BY DEF Inv
<1>2. CASE Tick \/ CommitStep
  BY <1>1, <1>2, RepoStep, AnswerStays DEF Inv
<1>3. CASE \E q \in Request : ReceiveReport(q) \/ ReceivePropfind(q) \/ ReceiveGet(q)
  <2>1. AnswerInv'
    BY <1>1, <1>3, AnswerReport, AnswerPropfind, AnswerGet
  <2>2. UNCHANGED repoVars
    BY <1>3 DEF ReceiveReport, ReceivePropfind, ReceiveGet
  <2> QED BY <1>1, <2>1, <2>2, RepoUnchanged DEF Inv
<1>4. CASE ReportStep \/ ReadFile \/ Respond
  BY <1>1, <1>4, AnswerStep, RepoUnchanged DEF Inv
<1>5. CASE UNCHANGED vars
  <2>1. UNCHANGED repoVars /\ UNCHANGED <<rq, rp>>
    BY <1>5 DEF vars, repoVars
  <2> QED BY <1>1, <2>1, RepoUnchanged, AnswerStays DEF Inv
<1> QED BY <1>2, <1>3, <1>4, <1>5 DEF Next

(***************************************************************************)
(* At any time, whatever is being committed or has failed, a handler of    *)
(* handlers.rs finds the files of every revision up to the head it read,   *)
(* and its loop has kept what it collected in step with them.              *)
(***************************************************************************)
THEOREM ReportsInvariant == Spec => []Inv
<1>1. Init => Inv
  BY RepoInit DEF Inv, AnswerInv, Init
<1>2. Inv /\ [Next]_vars => Inv'
  BY InvStep
<1> QED BY <1>1, <1>2, PTL DEF Spec

-----------------------------------------------------------------------------
(***************************************************************************)
(* What the invariant says of a finished answer.                           *)
(***************************************************************************)
LEMMA LogIsFaithful ==
    ASSUME Inv
    PROVE  LogFaithful
<1> SUFFICES ASSUME Done("log") PROVE LogFaithful
  BY DEF LogFaithful
<1> DEFINE range == LogRange(rq, rp.cur)
           out == rp.out
           n == Len(out)
           full == Field(rq, "limit") = Absent \/ n < rq.limit
           step == IF range.reverse THEN -1 ELSE 1
           forth == IF range.reverse THEN Reverse(out) ELSE out
<1>1. RepoInv /\ HandlerInv /\ LogInv /\ rq \in Request /\ rp.cur \in Nat
  BY Bounds DEF Done, Inv, AnswerInv, HandlerInv, RepoInv
<1>2. PICK at \in Nat :
         /\ out \in Seq(Item) /\ Collected(forth, at)
         /\ at > range.last \/ (Field(rq, "limit") # Absent /\ n >= Field(rq, "limit"))
  BY <1>1 DEF LogInv, Reported, Done
<1>3. range.first \in Nat /\ range.last \in Nat
  BY <1>1, LogRangeFacts
<1>4. Field(rq, "limit") # Absent => Field(rq, "limit") \in Nat /\ Field(rq, "limit") = rq.limit
  BY <1>1, RequestAssumption DEF NumberOrAbsent, Field
<1>5. forth \in Seq(Item) /\ Len(forth) = n /\ n \in Nat
  BY <1>2, ReverseTwice
<1>6. /\ Field(rq, "limit") # Absent => n <= Field(rq, "limit")
      /\ \A i, j \in 1 .. n : i < j => forth[i].rev < forth[j].rev
      /\ \A i \in 1 .. n : forth[i].rev \in range.first .. range.last /\ forth[i].rev < at
      /\ \A r \in range.first .. range.last : r < at /\ r <= rp.cur => \E i \in 1 .. n : forth[i].rev = r
      /\ Field(rq, "paths") = TRUE =>
            \A i \in 1 .. n : forth[i].rev \in 1 .. rp.cur => Accounts(forth[i])
  BY <1>2, <1>5 DEF Collected
<1>7. range.reverse => \A i \in 1 .. n : n - i + 1 \in 1 .. n /\ forth[i] = out[n - i + 1] /\ out[i] = forth[n - i + 1]
  <2> SUFFICES ASSUME range.reverse, NEW i \in 1 .. n
               PROVE  n - i + 1 \in 1 .. n /\ forth[i] = out[n - i + 1] /\ out[i] = forth[n - i + 1]
    OBVIOUS
  <2>1. n - i + 1 \in 1 .. n /\ n - (n - i + 1) + 1 = i
    BY <1>5
  <2> QED BY <1>2, <1>5, <2>1, ReverseTwice
<1>8. (\A i \in 1 .. n : \E j \in 1 .. n : out[i] = forth[j]) /\ (\A j \in 1 .. n : \E i \in 1 .. n : out[i] = forth[j])
  BY <1>5, <1>7
<1>9. ASSUME NEW i \in 1 .. n - 1
      PROVE  step * out[i].rev < step * out[i + 1].rev
  <2>1. i \in 1 .. n /\ i + 1 \in 1 .. n /\ i < i + 1
    BY <1>5
  <2>2. CASE range.reverse
    <3>1. out[i] = forth[n - i + 1] /\ out[i + 1] = forth[n - (i + 1) + 1]
      BY <1>7, <2>1, <2>2
    <3>2. n - i + 1 \in 1 .. n /\ n - (i + 1) + 1 \in 1 .. n /\ n - (i + 1) + 1 < n - i + 1
      BY <1>5, <2>1
    <3>3. out[i + 1].rev < out[i].rev /\ out[i].rev \in Nat /\ out[i + 1].rev \in Nat
      <4> HIDE DEF forth, out, n, range
      <4> QED BY <1>3, <1>6, <3>1, <3>2
    <3>4. (-1) * out[i].rev < (-1) * out[i + 1].rev
      <4> HIDE DEF out, n
      <4> QED BY <3>3
    <3> QED BY <2>2, <3>4
  <2>3. CASE ~range.reverse
    <3>1. out[i].rev < out[i + 1].rev /\ out[i].rev \in Nat /\ out[i + 1].rev \in Nat
      BY <1>3, <1>6, <2>1, <2>3
    <3>2. 1 * out[i].rev < 1 * out[i + 1].rev
      <4> HIDE DEF out, n
      <4> QED BY <3>1
    <3> QED BY <2>3, <3>2
  <2> QED BY <2>2, <2>3
<1> HIDE DEF forth, out, range
<1>10. ASSUME NEW i \in 1 .. n
       PROVE  /\ out[i].rev \in range.first .. range.last /\ out[i].rev < at
              /\ Field(rq, "paths") = TRUE /\ out[i].rev \in 1 .. rp.cur => Accounts(out[i])
  BY <1>6, <1>8, <1>10
<1>11. ASSUME NEW r \in range.first .. Least(range.last, rp.cur),
              full \/ (~range.reverse /\ \E i \in 1 .. n : out[i].rev > r)
       PROVE  \E i \in 1 .. n : out[i].rev = r
  <2>1. r \in range.first .. range.last /\ r <= rp.cur /\ r \in Nat
    BY <1>1, <1>3, <1>11 DEF Least
  <2>2. r < at
    <3>1. CASE at > range.last
      BY <1>2, <1>3, <2>1, <3>1
    <3>2. CASE Field(rq, "limit") # Absent /\ n >= Field(rq, "limit")
      <4>1. ~full
        BY <1>4, <1>5, <3>2
      <4>2. PICK i \in 1 .. n : out[i].rev > r
        BY <1>11, <4>1
      <4>3. out[i].rev < at /\ out[i].rev \in range.first .. range.last
        BY <1>10
      <4> QED BY <1>2, <1>3, <2>1, <4>2, <4>3
    <3> QED BY <1>2, <3>1, <3>2
  <2>3. PICK j \in 1 .. n : forth[j].rev = r
    BY <1>6, <2>1, <2>2
  <2> QED BY <1>8, <2>3
<1>12. Field(rq, "limit") # Absent => n <= rq.limit
  BY <1>4, <1>6
<1> QED BY <1>9, <1>10, <1>11, <1>12 DEF LogFaithful, out, range

LEMMA DatedIsCurrent ==
    ASSUME Inv
    PROVE  DatedRevWasCurrent
<1> SUFFICES ASSUME Done("dated"), rq.date # Absent, rq.date < clock,
                    NEW m \in rp.out[1] + 1 .. Least(headAt[rq.date], rp.cur)
             PROVE  m \in imported
  BY DEF DatedRevWasCurrent
<1>1. RepoInv /\ HandlerInv /\ DatedInv /\ rq \in Request /\ rp.cur \in Nat /\ Reporting(rq, "dated")
  BY Bounds DEF Done, Inv, AnswerInv, HandlerInv, RepoInv
<1>2. PICK d \in 0 .. rp.cur : rp.out = <<d>> /\ \A r \in d + 1 .. rp.cur : TooYoung(r)
  BY <1>1 DEF DatedInv, Done
<1>3. rq.date \in Nat
  BY <1>1, RequestAssumption DEF Reporting, NumberOrAbsent
<1>4. rq.date \in 0 .. MaxClock
  BY <1>1, <1>3, Bounds DEF RepoInv, FileTypes
<1> DEFINE h == headAt[rq.date]
<1>5. h \in Nat /\ h <= head /\ \A r \in 0 .. h : r \notin imported => commits[r].time <= rq.date
  BY <1>1, <1>4, Bounds DEF RepoInv, ClockInv, FileTypes
<1>6. m \in d + 1 .. Least(h, rp.cur)
  BY <1>2
<1> HIDE DEF h
<1>7. m \in 0 .. h /\ m \in d + 1 .. rp.cur /\ m \in 0 .. head
  BY <1>1, <1>2, <1>5, <1>6, Bounds DEF Least, RepoInv
<1>8. commits[m].time \in 0 .. MaxClock /\ TooYoung(m)
  BY <1>1, <1>2, <1>7, Published DEF RepoInv
<1>9. commits[m].time <= rq.date => OldEnough(m)
  BY <1>3, <1>8, ReportAssumption DEF OldEnough, Given
<1> QED BY <1>5, <1>7, <1>8, <1>9 DEF TooYoung

LEMMA DeletedIsFound ==
    ASSUME Inv
    PROVE  DeletedRevFound
<1> SUFFICES ASSUME Done("deleted")
             PROVE  /\ Peg <= rp.cur /\ commits[Peg].tree[rq.path] # NoEntry =>
                           \A r \in Peg + 1 .. Until :
                               commits[r].tree[rq.path] = NoEntry => rp.out[1] \in Peg + 1 .. r
                    /\ rp.out[1] # 0 => \/ commits[rp.out[1]].tree[rq.path] = NoEntry
                                        \/ deltas[rp.out[1]][rq.path] \in Entry
  BY DEF DeletedRevFound, Peg, Until
<1>1. RepoInv /\ HandlerInv /\ DeletedInv /\ rp.as = "deleted" /\ rp.pc = "done"
  BY DEF Done, Inv, AnswerInv
<1>2. Peg \in Nat /\ Until \in Nat /\ Until <= rp.cur /\ rq.path \in Path /\ rp.cur \in Nat /\ rp.cur <= head
  BY <1>1, DeletedBounds
<1>3. CASE rp.out = <<0>> /\ StillThere(Until)
  <2>1. \A r \in Peg + 1 .. Until : r \in Peg .. Until /\ r <= rp.cur
    BY <1>2
  <2> QED BY <1>3, <2>1 DEF StillThere
<1>4. CASE \E d \in Peg + 1 .. Until : rp.out = <<d>> /\ DeletedIn(d, rq.path) /\ StillThere(d - 1)
  <2>1. PICK d \in Peg + 1 .. Until : rp.out = <<d>> /\ DeletedIn(d, rq.path) /\ StillThere(d - 1)
    BY <1>4
  <2>2. \A r \in Peg + 1 .. Until : r <= rp.cur /\ (r \in Peg .. d - 1 \/ d \in Peg + 1 .. r)
    BY <1>2
  <2>3. d \in 1 .. head
    BY <1>2, Bounds, <1>1 DEF RepoInv
  <2>4. commits[d].tree = ApplyDelta(commits[d - 1].tree, deltas[d])
    BY <1>1, <2>3 DEF RepoInv, HistoryInv
  <2>5. commits[d].tree[rq.path] = NoEntry \/ deltas[d][rq.path] \in Entry
    BY <1>2, <2>1, <2>4 DEF ApplyDelta, DeletedIn
  <2> QED BY <2>1, <2>2, <2>5 DEF StillThere
<1> QED BY <1>1, <1>3, <1>4 DEF DeletedInv

LEMMA OnlyPublishedStated ==
    ASSUME Inv
    PROVE  OnlyPublished
<1> SUFFICES ASSUME rq # None, rp.pc = "done", \A r \in Named(rq) : r <= rp.cur, NEW r \in Stated
             PROVE  r <= rp.cur
  BY DEF OnlyPublished
<1>1. /\ RepoInv /\ HandlerInv /\ LogInv /\ DatedInv /\ DeletedInv /\ LocationsInv /\ PropfindInv
      /\ rq \in Request /\ rp.cur \in Nat
  BY Bounds DEF Inv, AnswerInv, HandlerInv, RepoInv
<1>2. \A f \in {"start", "end", "target", "rev"} : Field(rq, f) # Absent => Field(rq, f) <= rp.cur
  BY DEF Named
<1>3. CASE rp.as = "log"
  <2> DEFINE range == LogRange(rq, rp.cur)
             forth == IF range.reverse THEN Reverse(rp.out) ELSE rp.out
  <2>1. range.first \in Nat /\ range.last \in Nat
    BY <1>1, LogRangeFacts
  <2>2. range.last <= rp.cur
    <3>1. Given(Field(rq, "start"), 1) <= rp.cur
      BY <1>3 DEF Named
    <3>2. Given(Field(rq, "end"), rp.cur) <= rp.cur
      BY <1>1, <1>2 DEF Given
    <3> QED BY <1>1, <3>1, <3>2, LogRangeFacts
  <2>3. PICK i \in DOMAIN rp.out : r = rp.out[i].rev
    BY <1>3 DEF Stated
  <2>4. PICK at \in Nat : rp.out \in Seq(Item) /\ Collected(forth, at)
    BY <1>1, <1>3 DEF LogInv, Reported
  <2>5. \E j \in 1 .. Len(forth) : rp.out[i] = forth[j]
    <3>1. i \in 1 .. Len(rp.out) /\ Len(rp.out) \in Nat
      BY <2>3, <2>4
    <3>2. CASE range.reverse
      <4>1. Len(rp.out) - i + 1 \in 1 .. Len(rp.out) /\ Len(rp.out) - (Len(rp.out) - i + 1) + 1 = i
        BY <3>1
      <4> QED BY <2>4, <3>1, <3>2, <4>1, ReverseTwice
    <3> QED BY <3>1, <3>2
  <2>6. r \in range.first .. range.last
    BY <2>3, <2>4, <2>5 DEF Collected
  <2> QED BY <1>1, <2>1, <2>2, <2>6
<1>4. CASE rp.as \in {"locations", "dated", "deleted", "PROPFIND", "OPTIONS"}
  <2>1. r \in ToSet(rp.out) /\ r # Absent
    BY <1>4 DEF Stated
  <2>2. PICK i \in DOMAIN rp.out : r = rp.out[i]
    BY <2>1 DEF ToSet
  <2>3. CASE rp.as = "locations"
    BY <1>1, <2>2, <2>3 DEF LocationsInv
  <2>4. CASE rp.as = "dated"
    BY <1>1, <2>2, <2>4 DEF DatedInv
  <2>5. CASE rp.as = "deleted"
    <3>1. Peg \in Nat /\ Until \in Nat /\ Until <= rp.cur
      BY <1>1, <2>5, DeletedBounds
    <3>2. rp.out = <<0>> \/ \E d \in Peg + 1 .. Until : rp.out = <<d>>
      BY <1>1, <2>5 DEF DeletedInv
    <3> QED BY <1>1, <2>2, <3>1, <3>2
  <2>6. CASE rp.as \in {"PROPFIND", "OPTIONS"}
    <3>1. rq.method = "PROPFIND" => rq.rev = Field(rq, "rev")
      BY <1>1, RequestAssumption DEF Field
    <3> QED BY <1>1, <1>2, <2>1, <2>2, <2>6, <3>1 DEF PropfindInv
  <2> QED BY <1>4, <2>3, <2>4, <2>5, <2>6
<1>5. rp.as = "log" \/ rp.as \in {"locations", "dated", "deleted", "PROPFIND", "OPTIONS"}
  BY DEF Stated
<1> QED BY <1>3, <1>4, <1>5

-----------------------------------------------------------------------------
(***************************************************************************)
(* handle_log_report, for any range, limit and number of commits that land *)
(* between two turns of its loop: the answer keeps to the limit and to the *)
(* range and goes in the direction asked for; uncut by the limit it leaves *)
(* out no revision that was published at the start, cut while ascending    *)
(* only later ones than it lists; and its changed paths account for all    *)
(* that differs.  A descending log cut by its limit leaves out the newest. *)
(***************************************************************************)
THEOREM LogSafe == Spec => []LogFaithful
<1>1. Inv => LogFaithful
  BY LogIsFaithful
<1> QED BY <1>1, ReportsInvariant, PTL

(***************************************************************************)
(* No handler names a revision beyond the head it read, although commit    *)
(* and delta files of one may be there, unless the request asks for it.    *)
(***************************************************************************)
THEOREM PublishedSafe == Spec => []OnlyPublished
<1>1. Inv => OnlyPublished
  BY OnlyPublishedStated
<1> QED BY <1>1, ReportsInvariant, PTL

(***************************************************************************)
(* handle_get_deleted_rev_report finds a deletion no later than the first  *)
(* revision of the range in which the path is gone, for any tree of paths  *)
(* and any history of deltas.                                              *)
(***************************************************************************)
THEOREM DeletedRevSafe == Spec => []DeletedRevFound
<1>1. Inv => DeletedRevFound
  BY DeletedIsFound
<1> QED BY <1>1, ReportsInvariant, PTL

(***************************************************************************)
(* handle_dated_rev_report passes over a revision that was published by    *)
(* the date for an older one only if the timestamp of that revision did    *)
(* not come from the clock: with any dates loaded, mirrored or set by      *)
(* setrevprop, before and during the report.                               *)
(***************************************************************************)
THEOREM DatedRevSafe == Spec => []DatedRevWasCurrent
<1>1. Inv => DatedRevWasCurrent
  BY DatedIsCurrent
<1> QED BY <1>1, ReportsInvariant, PTL
=============================================================================
