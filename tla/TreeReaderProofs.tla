--------------------------- MODULE TreeReaderProofs ---------------------------
(***************************************************************************)
(* Theorems about TreeReader, for any number of readers, revisions and     *)
(* commit attempts, every snapshot interval and every cache capacity.      *)
(***************************************************************************)
EXTENDS TreeReader, SequenceTheorems, TLAPS

(***************************************************************************)
(* Callers that name revisions beyond the head meet no failing commit.     *)
(* With both, a tree read from a commit that then fails stays in the cache *)
(* and is served once the revision exists.                                 *)
(***************************************************************************)
OneHazard == \A s \in Settings : ~s.ahead \/ s.faults = {}

-----------------------------------------------------------------------------
(***************************************************************************)
(* The tree (delta) a revision will always have: it is published, or being *)
(* stored by a commit that nothing can stop.                               *)
(***************************************************************************)
Underway == setting.faults = {} /\ stage # "idle"

Settled(r, t) ==
    \/ r \in 0..head /\ t = TreeOf(r)
    \/ Underway /\ r = NewRev /\ t = NewTree

SettledDelta(r, d) ==
    \/ r \in 1..head /\ d = deltas[r]
    \/ Underway /\ r = NewRev /\ d = attempt

(***************************************************************************)
(* A commit has room for its revision; published revisions have deltas.    *)
(***************************************************************************)
RoomInv ==
    /\ stage # "idle" => head < MaxRev /\ attempt > 0
    /\ stage = "snapshot" => SnapshotDue
    /\ \A r \in 1..head : deltas[r] \in 1..MaxAttempts

(***************************************************************************)
(* What the committer has written of its revision so far.  The files of an *)
(* earlier, failed attempt may still be there.                             *)
(***************************************************************************)
StagedInv ==
    /\ stage \in {"delta", "publish"} \/ (stage = "snapshot" /\ mode = "async")
          => commits[NewRev] \in {None, NewTree}
    /\ stage = "publish" \/ (stage = "snapshot" /\ mode = "async")
          => deltas[NewRev] = attempt
    /\ stage = "publish" \/ (stage \in {"commit", "delta"} /\ mode = "sync")
          => (SnapshotDue => snapshots[NewRev] = NewTree)
    /\ \A r \in Revision : snapshots[r] # None => r % SnapshotInterval = 0

(***************************************************************************)
(* A file a reader may open holds the tree or the delta of its revision.   *)
(***************************************************************************)
FilesInv ==
    \A r \in Revision : r <= head \/ setting.faults = {} =>
        /\ commits[r] # None => Settled(r, commits[r])
        /\ snapshots[r] # None => Settled(r, snapshots[r])
        /\ deltas[r] # None => SettledDelta(r, deltas[r])

CacheInv == \A i \in DOMAIN cache : Settled(cache[i].rev, cache[i].tree)

(***************************************************************************)
(* A reader's deltas are those from its revision downwards, and the tree   *)
(* it has is the one they start from.                                      *)
(***************************************************************************)
ChainInv(k) ==
    /\ pc[k] \in {"idle", "lookup", "snapshot"} => chain[k] = <<>>
    /\ pc[k] \in {"walk", "files", "base"} => Len(chain[k]) = rev[k] - cur[k]
    /\ \A i \in 1..Len(chain[k]) :
          chain[k][i].rev = rev[k] - i + 1 /\ SettledDelta(rev[k] - i + 1, chain[k][i].delta)

ReaderInv(k) ==
    /\ ~setting.ahead => rev[k] <= head
    /\ pc[k] \notin {"idle", "done", "error"} => rev[k] > 0
    /\ pc[k] = "files" => cur[k] > 0
    /\ pc[k] \notin {"apply", "done"} => tree[k] = <<>>
    /\ pc[k] = "apply" => Len(chain[k]) > 0 /\ Settled(rev[k] - Len(chain[k]), tree[k])
    /\ pc[k] = "done" => Settled(rev[k], tree[k])

IInv ==
    /\ TypeOK /\ RoomInv /\ StagedInv /\ FilesInv /\ CacheInv
    /\ \A k \in Reader : ChainInv(k) /\ ReaderInv(k)

-----------------------------------------------------------------------------
(***************************************************************************)
(* Trees as sequences.                                                     *)
(***************************************************************************)
LEMMA AppendFcn ==
    ASSUME NEW f, NEW n \in Nat, NEW d
    PROVE  Append([i \in 1..n |-> f[i]], d) = [i \in 1..(n + 1) |-> IF i = n + 1 THEN d ELSE f[i]]
<1> DEFINE S == {f[i] : i \in 1..n} \cup {d}
<1> DEFINE s == [i \in 1..n |-> f[i]]
<1> DEFINE t == [i \in 1..(n + 1) |-> IF i = n + 1 THEN d ELSE f[i]]
<1>1. s \in Seq(S) /\ Len(s) = n
  OBVIOUS
<1>2. t \in Seq(S) /\ Len(t) = n + 1
  OBVIOUS
<1>3. d \in S
  OBVIOUS
<1>4. /\ Append(s, d) \in Seq(S)
      /\ Len(Append(s, d)) = n + 1
      /\ \A i \in 1..n : Append(s, d)[i] = s[i]
      /\ Append(s, d)[n + 1] = d
  BY <1>1, <1>3, AppendProperties
<1>5. \A i \in 1..Len(t) : Append(s, d)[i] = t[i]
  BY <1>2, <1>4
<1> QED  BY <1>2, <1>4, <1>5, SeqEqual

(***************************************************************************)
(* Replaying a settled delta on a settled tree gives a settled tree.       *)
(***************************************************************************)
LEMMA Extend ==
    ASSUME head \in Nat, NEW r \in Nat \ {0}, NEW t, NEW d, Settled(r - 1, t), SettledDelta(r, d)
    PROVE  Settled(r, Append(t, d))
<1>1. CASE r \in 1..head /\ d = deltas[r]
  <2>1. t = TreeOf(r - 1)
    BY <1>1 DEF Settled, NewRev
  <2>2. Append(t, d) = [i \in 1..(r - 1 + 1) |-> IF i = r - 1 + 1 THEN d ELSE deltas[i]]
    BY <2>1, AppendFcn DEF TreeOf
  <2>3. Append(t, d) = TreeOf(r)
    BY <1>1, <2>2 DEF TreeOf
  <2> QED BY <1>1, <2>3 DEF Settled
<1>2. CASE Underway /\ r = NewRev /\ d = attempt
  <2>1. t = TreeOf(head)
    BY <1>2 DEF Settled, NewRev
  <2> QED BY <1>2, <2>1 DEF Settled, NewTree
<1> QED BY <1>1, <1>2 DEF SettledDelta

(***************************************************************************)
(* What is settled is well typed.                                          *)
(***************************************************************************)
LEMMA NewTreeFcn ==
    ASSUME head \in Nat
    PROVE  NewTree = [i \in 1..(head + 1) |-> IF i = head + 1 THEN attempt ELSE deltas[i]]
BY AppendFcn DEF NewTree, TreeOf

LEMMA EmptyTyped == <<>> \in Trees
BY ReaderAssumption DEF Trees

LEMMA SettledTyped ==
    ASSUME TypeOK, RoomInv
    PROVE  /\ \A r, t : Settled(r, t) => r \in 0..MaxRev /\ t \in Trees
           /\ \A r, d : SettledDelta(r, d) => r \in Revision /\ d \in 1..MaxAttempts
           /\ stage # "idle" => NewTree \in Trees /\ NewRev \in Revision /\ attempt \in 1..MaxAttempts
<1>0. head \in 0..MaxRev /\ MaxRev \in Nat /\ MaxAttempts \in Nat /\ attempt \in 0..MaxAttempts
  BY ReaderAssumption DEF TypeOK
<1>1. \A r \in 0..head : TreeOf(r) \in Trees
  <2> SUFFICES ASSUME NEW r \in 0..head PROVE TreeOf(r) \in Trees
    OBVIOUS
  <2>1. TreeOf(r) \in [1..r -> 1..MaxAttempts]
    BY <1>0 DEF TreeOf, RoomInv
  <2>2. r \in 0..MaxRev
    BY <1>0
  <2> QED BY <2>1, <2>2 DEF Trees
<1>2. stage # "idle" => NewTree \in Trees /\ NewRev \in Revision /\ attempt \in 1..MaxAttempts
  <2> SUFFICES ASSUME stage # "idle"
               PROVE  NewTree \in Trees /\ NewRev \in Revision /\ attempt \in 1..MaxAttempts
    OBVIOUS
  <2>1. head < MaxRev /\ attempt \in 1..MaxAttempts
    BY <1>0 DEF RoomInv
  <2>2. NewTree \in [1..(head + 1) -> 1..MaxAttempts]
    BY <1>0, <2>1, NewTreeFcn DEF RoomInv
  <2>3. head + 1 \in 0..MaxRev
    BY <1>0, <2>1
  <2> QED BY <1>0, <2>1, <2>2, <2>3 DEF Trees, NewRev, Revision
<1>3. \A r \in 1..head : deltas[r] \in 1..MaxAttempts /\ r \in Revision
  BY <1>0 DEF RoomInv, Revision
<1>4. \A r, t : Settled(r, t) => r \in 0..MaxRev /\ t \in Trees
  BY <1>0, <1>1, <1>2 DEF Settled, Underway, Revision
<1>5. \A r, d : SettledDelta(r, d) => r \in Revision /\ d \in 1..MaxAttempts
  BY <1>2, <1>3 DEF SettledDelta, Underway
<1> QED BY <1>2, <1>4, <1>5

-----------------------------------------------------------------------------
(***************************************************************************)
(* The cache.  An entry of the cache after get or put is the entry at its  *)
(* front or one of the old ones, and the capacity is respected.            *)
(***************************************************************************)
Entries == [rev : Revision, tree : Trees]

LEMMA MinOfTwo ==
    ASSUME NEW a \in Nat, NEW b \in Nat
    PROVE  Min({a, b}) = IF a <= b THEN a ELSE b
BY DEF Min

LEMMA WithoutKeeps ==
    ASSUME TypeOK, NEW r
    PROVE  /\ Without(r) \in Seq(Entries)
           /\ Len(Without(r)) = IF Cached(r) THEN Len(cache) - 1 ELSE Len(cache)
           /\ \A i \in 1..Len(Without(r)) : \E j \in DOMAIN cache : Without(r)[i] = cache[j]
<1>0. cache \in Seq(Entries) /\ Len(cache) \in Nat /\ DOMAIN cache = 1..Len(cache)
  BY DEF TypeOK, Entries
<1>1. CASE ~Cached(r)
  BY <1>0, <1>1 DEF Without
<1>2. CASE Cached(r)
  <2> DEFINE x == CHOOSE i \in DOMAIN cache : cache[i].rev = r
  <2> DEFINE a == SubSeq(cache, 1, x - 1)
  <2> DEFINE b == SubSeq(cache, x + 1, Len(cache))
  <2>1. x \in 1..Len(cache)
    BY <1>0, <1>2 DEF Cached
  <2>2. Without(r) = a \o b
    BY <1>2 DEF Without, RemoveAt
  <2> HIDE DEF x
  <2>3. a \in Seq(Entries) /\ Len(a) = x - 1 /\ \A i \in 1..(x - 1) : a[i] = cache[i]
    BY <1>0, <2>1, SubSeqProperties
  <2>4. b \in Seq(Entries) /\ Len(b) = Len(cache) - x /\ \A i \in 1..(Len(cache) - x) : b[i] = cache[x + i]
    <3>1. x \in Int /\ Len(cache) \in Int /\ \A i \in (x + 1)..Len(cache) : cache[i] \in Entries
      BY <1>0, <2>1
    <3>2. /\ b \in Seq(Entries)
          /\ Len(b) = IF x + 1 <= Len(cache) THEN Len(cache) - (x + 1) + 1 ELSE 0
          /\ \A i \in 1..(Len(cache) - (x + 1) + 1) : b[i] = cache[x + 1 + i - 1]
      BY <3>1, SubSeqProperties
    <3> HIDE DEF b
    <3>3. Len(b) = Len(cache) - x
      <4>1. CASE x + 1 <= Len(cache)
        BY <3>1, <3>2, <4>1
      <4>2. CASE ~(x + 1 <= Len(cache))
        <5>1. Len(b) = 0
          BY <3>2, <4>2
        <5>2. Len(cache) \in Nat
          BY <1>0
        <5>3. x = Len(cache)
          BY <2>1, <4>2, <5>2
        <5> QED BY <5>1, <5>2, <5>3
      <4> QED BY <4>1, <4>2
    <3>4. ASSUME NEW i \in 1..(Len(cache) - x) PROVE b[i] = cache[x + i]
      <4>1. i \in 1..(Len(cache) - (x + 1) + 1) /\ x + 1 + i - 1 = x + i
        BY <3>1
      <4> QED BY <3>2, <4>1
    <3> QED BY <3>2, <3>3, <3>4
  <2> HIDE DEF a, b
  <2>5. a \o b \in Seq(Entries) /\ Len(a \o b) = Len(cache) - 1
    <3>1. a \o b \in Seq(Entries) /\ Len(a \o b) = Len(a) + Len(b)
      BY <2>3, <2>4, ConcatProperties
    <3> QED BY <1>0, <2>1, <2>3, <2>4, <3>1
  <2>6. \A i \in 1..Len(a \o b) : (a \o b)[i] = IF i <= x - 1 THEN cache[i] ELSE cache[i + 1]
    <3> SUFFICES ASSUME NEW i \in 1..Len(a \o b)
                 PROVE  (a \o b)[i] = IF i <= x - 1 THEN cache[i] ELSE cache[i + 1]
      OBVIOUS
    <3>1. (a \o b)[i] = IF i <= Len(a) THEN a[i] ELSE b[i - Len(a)]
      BY <1>0, <2>3, <2>4, <2>5, ConcatProperties
    <3> QED BY <1>0, <2>1, <2>3, <2>4, <2>5, <3>1
  <2>7. \A i \in 1..Len(a \o b) : \E j \in 1..Len(cache) : (a \o b)[i] = cache[j]
    <3> SUFFICES ASSUME NEW i \in 1..Len(a \o b)
                 PROVE  \E j \in 1..Len(cache) : (a \o b)[i] = cache[j]
      OBVIOUS
    <3>1. i \in 1..Len(cache) /\ i + 1 \in 1..Len(cache)
      BY <1>0, <2>1, <2>5
    <3> QED BY <2>6, <3>1
  <2> QED BY <1>0, <1>2, <2>2, <2>5, <2>7
<1> QED BY <1>1, <1>2

LEMMA FrontKeeps ==
    ASSUME TypeOK, NEW r \in Revision, NEW t \in Trees
    PROVE  LET c == <<[rev |-> r, tree |-> t]>> \o Without(r)
           IN  /\ c \in Seq(Entries)
               /\ Len(c) = 1 + Len(Without(r)) /\ Len(Without(r)) \in Nat
               /\ \A i \in 1..Len(c) : \/ c[i] = [rev |-> r, tree |-> t]
                                       \/ \E j \in DOMAIN cache : c[i] = cache[j]
<1> DEFINE e == [rev |-> r, tree |-> t]
<1> DEFINE w == Without(r)
<1>1. <<e>> \in Seq(Entries) /\ Len(<<e>>) = 1 /\ <<e>>[1] = e
  BY DEF Entries
<1>2. w \in Seq(Entries) /\ Len(w) \in Nat
  BY WithoutKeeps
<1>3. /\ <<e>> \o w \in Seq(Entries)
      /\ Len(<<e>> \o w) = 1 + Len(w)
      /\ \A i \in 1..(1 + Len(w)) : (<<e>> \o w)[i] = IF i <= 1 THEN <<e>>[i] ELSE w[i - 1]
  BY <1>1, <1>2, ConcatProperties
<1>4. ASSUME NEW i \in 1..Len(<<e>> \o w)
      PROVE  (<<e>> \o w)[i] = e \/ \E j \in DOMAIN cache : (<<e>> \o w)[i] = cache[j]
  <2>1. CASE i = 1
    BY <1>1, <1>3, <2>1
  <2>2. CASE i # 1
    <3>1. i - 1 \in 1..Len(w) /\ (<<e>> \o w)[i] = w[i - 1]
      BY <1>2, <1>3, <2>2
    <3> QED BY <3>1, WithoutKeeps
  <2> QED BY <2>1, <2>2
<1> QED BY <1>2, <1>3, <1>4

LEMMA PutKeeps ==
    ASSUME TypeOK, NEW r \in Revision, NEW t \in Trees
    PROVE  /\ Put(r, t) \in Seq(Entries) /\ Len(Put(r, t)) <= CacheCapacity
           /\ \A i \in 1..Len(Put(r, t)) : \/ Put(r, t)[i] = [rev |-> r, tree |-> t]
                                           \/ \E j \in DOMAIN cache : Put(r, t)[i] = cache[j]
<1> DEFINE c == <<[rev |-> r, tree |-> t]>> \o Without(r)
<1> DEFINE n == IF Len(c) <= CacheCapacity THEN Len(c) ELSE CacheCapacity
<1>1. /\ c \in Seq(Entries) /\ Len(c) \in Nat \ {0}
      /\ \A i \in 1..Len(c) : \/ c[i] = [rev |-> r, tree |-> t]
                              \/ \E j \in DOMAIN cache : c[i] = cache[j]
  BY FrontKeeps
<1>2. Put(r, t) = SubSeq(c, 1, n)
  BY <1>1, MinOfTwo, ReaderAssumption DEF Put
<1> HIDE DEF c
<1>3. n \in 1..Len(c) /\ n <= CacheCapacity
  BY <1>1, ReaderAssumption
<1> HIDE DEF n
<1>4. /\ SubSeq(c, 1, n) \in Seq(Entries) /\ Len(SubSeq(c, 1, n)) = n
      /\ \A i \in 1..n : SubSeq(c, 1, n)[i] = c[i]
  BY <1>1, <1>3, SubSeqProperties
<1> QED BY <1>1, <1>2, <1>3, <1>4

LEMMA TouchKeeps ==
    ASSUME TypeOK, NEW r, Cached(r)
    PROVE  /\ CachedTree(r) \in Trees /\ r \in Revision
           /\ \E j \in DOMAIN cache : cache[j] = [rev |-> r, tree |-> CachedTree(r)]
           /\ Touch(r) \in Seq(Entries) /\ Len(Touch(r)) <= CacheCapacity
           /\ \A i \in 1..Len(Touch(r)) : \E j \in DOMAIN cache : Touch(r)[i] = cache[j]
<1> DEFINE x == CHOOSE i \in DOMAIN cache : cache[i].rev = r
<1>1. x \in DOMAIN cache /\ cache[x].rev = r
  BY DEF Cached
<1>3. CachedTree(r) = cache[x].tree
  BY DEF CachedTree
<1> HIDE DEF x
<1>2. cache[x] \in Entries
  <2>1. cache \in Seq(Entries)
    BY DEF TypeOK, Entries
  <2> QED BY <1>1, <2>1
<1>4. CachedTree(r) \in Trees /\ r \in Revision /\ cache[x] = [rev |-> r, tree |-> CachedTree(r)]
  BY <1>1, <1>2, <1>3 DEF Entries
<1>5. /\ Touch(r) \in Seq(Entries)
      /\ Len(Touch(r)) = 1 + Len(Without(r))
      /\ \A i \in 1..Len(Touch(r)) : \E j \in DOMAIN cache : Touch(r)[i] = cache[j]
  BY <1>1, <1>4, FrontKeeps DEF Touch
<1>6. Len(Touch(r)) <= CacheCapacity
  BY <1>5, WithoutKeeps, ReaderAssumption DEF TypeOK
<1> QED BY <1>1, <1>4, <1>5, <1>6

-----------------------------------------------------------------------------
(***************************************************************************)
(* What is settled stays as it is: a commit writes only files of the next  *)
(* revision, and publishes the tree and the delta it has announced.        *)
(***************************************************************************)
CommitterStep == Commit \/ FailCommit \/ Crash

LEMMA SettledKept ==
    ASSUME IInv, CommitterStep
    PROVE  /\ setting' = setting /\ head' \in Nat /\ head <= head'
           /\ \A r, t : Settled(r, t) => Settled(r, t)'
           /\ \A r, d : SettledDelta(r, d) => SettledDelta(r, d)'
<1>0. /\ head \in Nat /\ MaxRev \in Nat /\ head <= MaxRev
      /\ NewRev \notin 0..head /\ DOMAIN deltas = Revision
  BY ReaderAssumption DEF IInv, TypeOK, NewRev
<1>1. CASE \/ \E m \in Modes : BeginCommit(m)
           \/ FailCommit
           \/ Crash
  <2>1. ~Underway /\ head' = head /\ deltas' = deltas /\ setting' = setting
    BY <1>1 DEF BeginCommit, FailCommit, Crash, Underway, files
  <2> QED BY <1>0, <2>1 DEF Settled, SettledDelta, TreeOf
<1>2. CASE StoreCommit \/ StoreSnapshot \/ StoreDelta
  <2>1. /\ head' = head /\ attempt' = attempt /\ setting' = setting
        /\ stage # "idle" /\ stage' # "idle"
    BY <1>2 DEF StoreCommit, StoreSnapshot, StoreDelta
  <2>2. \A r \in 1..head : deltas'[r] = deltas[r]
    BY <1>0, <1>2 DEF StoreCommit, StoreSnapshot, StoreDelta, NewRev, Revision
  <2>3. \A r \in 0..head : TreeOf(r)' = TreeOf(r)
    BY <1>0, <2>2 DEF TreeOf
  <2>4. NewTree' = NewTree /\ NewRev' = NewRev /\ Underway' = Underway
    BY <1>0, <2>1, <2>3 DEF NewTree, NewRev, Underway, TreeOf
  <2> QED BY <1>0, <2>1, <2>2, <2>3, <2>4 DEF Settled, SettledDelta, TreeOf
<1>3. CASE Publish
  <2>1. /\ head' = head + 1 /\ attempt' = attempt /\ setting' = setting /\ deltas' = deltas
        /\ deltas[head + 1] = attempt
    BY <1>3 DEF Publish, IInv, StagedInv, NewRev, files
  <2>2. \A r \in Nat : TreeOf(r)' = TreeOf(r)
    BY <2>1 DEF TreeOf
  <2>3. NewTree = TreeOf(head + 1)
    BY <1>0, <2>1, NewTreeFcn DEF TreeOf
  <2>4. ASSUME NEW r, NEW t, Settled(r, t) PROVE Settled(r, t)'
    BY <1>0, <2>1, <2>2, <2>3, <2>4 DEF Settled, NewRev, TreeOf
  <2>5. ASSUME NEW r, NEW d, SettledDelta(r, d) PROVE SettledDelta(r, d)'
    BY <1>0, <2>1, <2>5 DEF SettledDelta, NewRev
  <2> QED BY <1>0, <2>1, <2>4, <2>5
<1> QED BY <1>1, <1>2, <1>3 DEF CommitterStep, Commit

(***************************************************************************)
(* The committer's own steps.                                              *)
(***************************************************************************)
LEMMA CommitTypes ==
    ASSUME IInv, CommitterStep
    PROVE  TypeOK' /\ RoomInv'
<1> USE ReaderAssumption
<1>0. /\ TypeOK /\ RoomInv /\ head \in 0..MaxRev /\ attempt \in 0..MaxAttempts
      /\ (stage # "idle" => NewTree \in Trees /\ NewRev \in Revision /\ attempt \in 1..MaxAttempts)
  BY SettledTyped DEF IInv, TypeOK
<1>1. CASE \E m \in Modes : BeginCommit(m)
  <2>1. PICK m \in Modes : BeginCommit(m)
    BY <1>1
  <2>2. UNCHANGED <<setting, head, commits, deltas, snapshots, cache, pc, rev, cur, chain, tree>>
    BY <2>1 DEF BeginCommit, files, readers
  <2>3. /\ attempt' \in 1..MaxAttempts /\ mode' \in {"async", "sync"}
        /\ stage' \in {"snapshot", "commit"} /\ (stage' = "snapshot" => SnapshotDue) /\ head < MaxRev
    BY <1>0, <2>1 DEF BeginCommit
  <2>4. TypeOK'
    BY <1>0, <2>2, <2>3 DEF TypeOK
  <2>5. RoomInv'
    BY <1>0, <2>2, <2>3 DEF RoomInv, SnapshotDue, NewRev
  <2> QED BY <2>4, <2>5
<1>2. CASE StoreCommit
  <2>1. UNCHANGED <<setting, head, attempt, mode, deltas, snapshots, cache, pc, rev, cur, chain, tree>>
    BY <1>2 DEF StoreCommit, readers
  <2>2. commits' \in [Revision -> Trees \cup {None}]
    BY <1>0, <1>2 DEF StoreCommit, TypeOK
  <2>3. stage # "idle" /\ stage' = "delta"
    BY <1>2 DEF StoreCommit
  <2> QED BY <1>0, <2>1, <2>2, <2>3 DEF TypeOK, RoomInv
<1>3. CASE StoreDelta
  <2>1. UNCHANGED <<setting, head, attempt, mode, commits, snapshots, cache, pc, rev, cur, chain, tree>>
    BY <1>3 DEF StoreDelta, readers
  <2>2. deltas' \in [Revision -> 1..MaxAttempts \cup {None}]
    BY <1>0, <1>3 DEF StoreDelta, TypeOK
  <2>3. stage # "idle" /\ stage' \in {"snapshot", "publish"} /\ (stage' = "snapshot" => SnapshotDue)
    BY <1>3 DEF StoreDelta
  <2>4. \A r \in 1..head : deltas'[r] = deltas[r]
    BY <1>0, <1>3 DEF StoreDelta, TypeOK, NewRev
  <2> QED BY <1>0, <2>1, <2>2, <2>3, <2>4 DEF TypeOK, RoomInv, SnapshotDue, NewRev
<1>4. CASE StoreSnapshot
  <2>1. UNCHANGED <<setting, head, attempt, mode, commits, deltas, cache, pc, rev, cur, chain, tree>>
    BY <1>4 DEF StoreSnapshot, readers
  <2>2. snapshots' \in [Revision -> Trees \cup {None}]
    BY <1>0, <1>4 DEF StoreSnapshot, TypeOK
  <2>3. stage # "idle" /\ stage' \in {"commit", "publish"}
    BY <1>4 DEF StoreSnapshot
  <2> QED BY <1>0, <2>1, <2>2, <2>3 DEF TypeOK, RoomInv
<1>5. CASE Publish
  <2>1. UNCHANGED <<setting, attempt, mode, commits, deltas, snapshots, cache, pc, rev, cur, chain, tree>>
    BY <1>5 DEF Publish, readers, files
  <2>2. head' = head + 1 /\ stage' = "idle" /\ head < MaxRev /\ deltas[head + 1] \in 1..MaxAttempts
    BY <1>0, <1>5 DEF Publish, RoomInv, IInv, StagedInv, NewRev
  <2>3. TypeOK'
    BY <1>0, <2>1, <2>2 DEF TypeOK
  <2>4. RoomInv'
    BY <1>0, <2>1, <2>2 DEF RoomInv
  <2> QED BY <2>3, <2>4
<1>6. CASE FailCommit
  <2>1. /\ UNCHANGED <<setting, head, attempt, mode, commits, deltas, snapshots, cache>>
        /\ UNCHANGED <<pc, rev, cur, chain, tree>>
        /\ stage' = "idle"
    BY <1>6 DEF FailCommit, readers, files
  <2> QED BY <1>0, <2>1 DEF TypeOK, RoomInv
<1>7. CASE Crash
  <2>1. UNCHANGED <<setting, head, attempt, mode, commits, deltas, snapshots>> /\ stage' = "idle"
    BY <1>7 DEF Crash, files
  <2>2. /\ cache' = <<>>
        /\ pc' = [k \in Reader |-> "idle"]
        /\ rev' = [k \in Reader |-> 0] /\ cur' = [k \in Reader |-> 0]
        /\ chain' = [k \in Reader |-> <<>>] /\ tree' = [k \in Reader |-> <<>>]
    BY <1>7 DEF Crash
  <2>3. <<>> \in Trees
    BY EmptyTyped
  <2>4. <<>> \in Seq([rev : Revision, tree : Trees]) /\ Len(<<>>) <= CacheCapacity /\ <<>> \in Seq(Link)
    OBVIOUS
  <2>5. 0 \in 0..MaxRev
    OBVIOUS
  <2>6. /\ cache' \in Seq([rev : Revision, tree : Trees]) /\ Len(cache') <= CacheCapacity
        /\ chain' \in [Reader -> Seq(Link)] /\ tree' \in [Reader -> Trees]
        /\ rev' \in [Reader -> 0..MaxRev] /\ cur' \in [Reader -> 0..MaxRev]
    BY <2>2, <2>3, <2>4, <2>5
  <2> QED BY <1>0, <2>1, <2>2, <2>6 DEF TypeOK, RoomInv
<1> QED BY <1>1, <1>2, <1>3, <1>4, <1>5, <1>6, <1>7 DEF CommitterStep, Commit

LEMMA CommitStaged ==
    ASSUME IInv, CommitterStep
    PROVE  StagedInv'
<1> USE ReaderAssumption
<1>0. /\ TypeOK /\ RoomInv /\ StagedInv /\ head \in 0..MaxRev
      /\ DOMAIN deltas = Revision /\ DOMAIN commits = Revision /\ DOMAIN snapshots = Revision
      /\ (stage # "idle" => NewRev \in Revision)
  BY SettledTyped DEF IInv, TypeOK
<1>1. CASE \E m \in Modes : BeginCommit(m)
  <2>1. PICK m \in Modes : BeginCommit(m)
    BY <1>1
  <2>2. head' = head /\ snapshots' = snapshots
    BY <2>1 DEF BeginCommit, files
  <2>3. /\ mode' = m
        /\ stage' = IF m = "sync" /\ SnapshotDue THEN "snapshot" ELSE "commit"
    BY <2>1 DEF BeginCommit
  <2> QED BY <1>0, <2>2, <2>3 DEF StagedInv, SnapshotDue, NewRev
<1>2. CASE StoreCommit
  <2>1. /\ head' = head /\ attempt' = attempt /\ mode' = mode /\ deltas' = deltas /\ snapshots' = snapshots
        /\ stage = "commit" /\ stage' = "delta"
    BY <1>2 DEF StoreCommit
  <2>2. commits'[NewRev] \in {None, NewTree}
    BY <1>0, <1>2 DEF StoreCommit
  <2> QED BY <1>0, <2>1, <2>2 DEF StagedInv, SnapshotDue, NewRev, NewTree, TreeOf
<1>3. CASE StoreDelta
  <2>1. /\ head' = head /\ attempt' = attempt /\ mode' = mode /\ commits' = commits
        /\ snapshots' = snapshots
        /\ stage = "delta" /\ stage' = IF mode = "async" /\ SnapshotDue THEN "snapshot" ELSE "publish"
    BY <1>3 DEF StoreDelta
  <2>2. deltas'[NewRev] = attempt /\ NewRev' = NewRev /\ SnapshotDue' = SnapshotDue
    BY <1>0, <1>3 DEF StoreDelta, NewRev, SnapshotDue
  <2>3. \A r \in 1..head : deltas'[r] = deltas[r]
    BY <1>0, <1>3 DEF StoreDelta, NewRev, Revision
  <2>4. NewTree' = NewTree
    BY <1>0, <2>1, <2>3 DEF NewTree, TreeOf
  <2>5. commits[NewRev] \in {None, NewTree}
    BY <1>0, <2>1 DEF StagedInv
  <2>6. mode \in {"async", "sync"}
    BY <1>0 DEF TypeOK
  <2>7. stage' = "publish" /\ SnapshotDue => snapshots[NewRev] = NewTree
    BY <1>0, <2>1, <2>6 DEF StagedInv
  <2> QED BY <1>0, <2>1, <2>2, <2>4, <2>5, <2>7 DEF StagedInv
<1>4. CASE StoreSnapshot
  <2>1. /\ head' = head /\ attempt' = attempt /\ mode' = mode /\ commits' = commits
        /\ deltas' = deltas
        /\ stage = "snapshot" /\ stage' = IF mode = "sync" THEN "commit" ELSE "publish"
        /\ snapshots' = [snapshots EXCEPT ![NewRev] = NewTree]
    BY <1>4 DEF StoreSnapshot
  <2>2. NewRev' = NewRev /\ NewTree' = NewTree /\ SnapshotDue' = SnapshotDue
    BY <2>1 DEF NewRev, NewTree, TreeOf, SnapshotDue
  <2>3. snapshots'[NewRev] = NewTree /\ \A r \in Revision : r # NewRev => snapshots'[r] = snapshots[r]
    BY <1>0, <2>1
  <2>4. SnapshotDue /\ (SnapshotDue => NewRev % SnapshotInterval = 0)
    BY <1>0, <2>1 DEF RoomInv, SnapshotDue
  <2>5. mode \in {"async", "sync"}
    BY <1>0 DEF TypeOK
  <2> QED BY <1>0, <2>1, <2>2, <2>3, <2>4, <2>5 DEF StagedInv
<1>5. CASE Publish \/ FailCommit \/ Crash
  <2>1. stage' = "idle" /\ snapshots' = snapshots
    BY <1>5 DEF Publish, FailCommit, Crash, files
  <2> QED BY <1>0, <2>1 DEF StagedInv
<1> QED BY <1>1, <1>2, <1>3, <1>4, <1>5 DEF CommitterStep, Commit

LEMMA CommitFiles ==
    ASSUME IInv, CommitterStep
    PROVE  FilesInv'
<1> USE ReaderAssumption
<1>0. /\ TypeOK /\ RoomInv /\ StagedInv /\ FilesInv /\ head \in 0..MaxRev /\ MaxRev \in Nat
      /\ DOMAIN deltas = Revision /\ DOMAIN commits = Revision /\ DOMAIN snapshots = Revision
      /\ (stage # "idle" => NewRev \in Revision)
  BY SettledTyped DEF IInv, TypeOK
<1>k. /\ setting' = setting
      /\ \A r, t : Settled(r, t) => Settled(r, t)'
      /\ \A r, d : SettledDelta(r, d) => SettledDelta(r, d)'
  BY SettledKept
<1>2. CASE (\E m \in Modes : BeginCommit(m)) \/ FailCommit \/ Crash
  <2>1. head' = head /\ commits' = commits /\ deltas' = deltas /\ snapshots' = snapshots
    BY <1>2 DEF BeginCommit, FailCommit, Crash, files
  <2> QED BY <1>0, <1>k, <2>1 DEF FilesInv
<1>3. CASE StoreCommit
  <2>1. /\ head' = head /\ deltas' = deltas /\ snapshots' = snapshots /\ stage # "idle"
        /\ \A r \in Revision : r # NewRev => commits'[r] = commits[r]
        /\ commits'[NewRev] \in {NewTree, None}
    BY <1>0, <1>3 DEF StoreCommit
  <2>2. setting.faults = {} => Settled(NewRev, NewTree)
    BY <2>1 DEF Settled, Underway
  <2>3. ASSUME NEW r \in Revision, r <= head' \/ setting'.faults = {}
        PROVE  /\ commits'[r] # None => Settled(r, commits'[r])
               /\ snapshots'[r] # None => Settled(r, snapshots'[r])
               /\ deltas'[r] # None => SettledDelta(r, deltas'[r])
    <3>1. CASE r = NewRev
      BY <1>0, <1>k, <2>1, <2>2, <2>3, <3>1 DEF FilesInv, NewRev
    <3>2. CASE r # NewRev
      BY <1>0, <1>k, <2>1, <2>3, <3>2 DEF FilesInv
    <3> QED BY <3>1, <3>2
  <2> QED BY <1>k, <2>3 DEF FilesInv
<1>4. CASE StoreDelta
  <2>1. /\ head' = head /\ commits' = commits /\ snapshots' = snapshots /\ stage # "idle"
        /\ \A r \in Revision : r # NewRev => deltas'[r] = deltas[r]
        /\ deltas'[NewRev] = attempt
    BY <1>0, <1>4 DEF StoreDelta
  <2>2. setting.faults = {} => SettledDelta(NewRev, attempt)
    BY <2>1 DEF SettledDelta, Underway
  <2>3. ASSUME NEW r \in Revision, r <= head' \/ setting'.faults = {}
        PROVE  /\ commits'[r] # None => Settled(r, commits'[r])
               /\ snapshots'[r] # None => Settled(r, snapshots'[r])
               /\ deltas'[r] # None => SettledDelta(r, deltas'[r])
    <3>1. CASE r = NewRev
      BY <1>0, <1>k, <2>1, <2>2, <2>3, <3>1 DEF FilesInv, NewRev
    <3>2. CASE r # NewRev
      BY <1>0, <1>k, <2>1, <2>3, <3>2 DEF FilesInv
    <3> QED BY <3>1, <3>2
  <2> QED BY <1>k, <2>3 DEF FilesInv
<1>5. CASE StoreSnapshot
  <2>1. /\ head' = head /\ commits' = commits /\ deltas' = deltas /\ stage # "idle"
        /\ \A r \in Revision : r # NewRev => snapshots'[r] = snapshots[r]
        /\ snapshots'[NewRev] = NewTree
    BY <1>0, <1>5 DEF StoreSnapshot
  <2>2. setting.faults = {} => Settled(NewRev, NewTree)
    BY <2>1 DEF Settled, Underway
  <2>3. ASSUME NEW r \in Revision, r <= head' \/ setting'.faults = {}
        PROVE  /\ commits'[r] # None => Settled(r, commits'[r])
               /\ snapshots'[r] # None => Settled(r, snapshots'[r])
               /\ deltas'[r] # None => SettledDelta(r, deltas'[r])
    <3>1. CASE r = NewRev
      BY <1>0, <1>k, <2>1, <2>2, <2>3, <3>1 DEF FilesInv, NewRev
    <3>2. CASE r # NewRev
      BY <1>0, <1>k, <2>1, <2>3, <3>2 DEF FilesInv
    <3> QED BY <3>1, <3>2
  <2> QED BY <1>k, <2>3 DEF FilesInv
<1>6. CASE Publish
  <2>1. /\ head' = head + 1 /\ commits' = commits /\ deltas' = deltas /\ snapshots' = snapshots
        /\ stage = "publish" /\ attempt' = attempt
    BY <1>6 DEF Publish, files, NewRev
  <2>2. /\ commits[NewRev] \in {None, NewTree} /\ deltas[NewRev] = attempt
        /\ snapshots[NewRev] \in {None, NewTree}
    BY <1>0, <2>1 DEF StagedInv, SnapshotDue
  <2>3. NewTree = TreeOf(head + 1)
    BY <1>0, <2>2, NewTreeFcn DEF TreeOf, NewRev
  <2>4. \A r, t : r = NewRev /\ t = NewTree => Settled(r, t)'
    BY <1>0, <2>1, <2>3 DEF Settled, TreeOf, NewRev
  <2>5. \A r, d : r = NewRev /\ d = attempt => SettledDelta(r, d)'
    BY <1>0, <2>1, <2>2 DEF SettledDelta, NewRev
  <2>6. ASSUME NEW r \in Revision, r <= head' \/ setting'.faults = {}
        PROVE  /\ commits[r] # None => Settled(r, commits[r])'
               /\ snapshots[r] # None => Settled(r, snapshots[r])'
               /\ deltas[r] # None => SettledDelta(r, deltas[r])'
    <3>1. CASE r = NewRev
      BY <2>1, <2>2, <2>4, <2>5, <3>1
    <3>2. CASE r # NewRev
      <4>1. r <= head \/ setting.faults = {}
        BY <1>0, <1>k, <2>1, <2>6, <3>2 DEF NewRev, Revision
      <4> QED BY <1>0, <1>k, <2>1, <4>1 DEF FilesInv
    <3> QED BY <3>1, <3>2
  <2> QED BY <1>k, <2>1, <2>6 DEF FilesInv
<1> QED BY <1>2, <1>3, <1>4, <1>5, <1>6 DEF CommitterStep, Commit

(***************************************************************************)
(* Readers and cache while the committer works; after a crash there are    *)
(* none.                                                                   *)
(***************************************************************************)
LEMMA CommitReaders ==
    ASSUME IInv, CommitterStep
    PROVE  CacheInv' /\ \A k \in Reader : ChainInv(k)' /\ ReaderInv(k)'
<1>k. /\ setting' = setting /\ head' \in Nat /\ head <= head'
      /\ \A r, t : Settled(r, t) => Settled(r, t)'
      /\ \A r, d : SettledDelta(r, d) => SettledDelta(r, d)'
  BY SettledKept
<1>0. TypeOK /\ CacheInv /\ \A k \in Reader : ChainInv(k) /\ ReaderInv(k)
  BY DEF IInv
<1>1. CASE Crash
  <2>1. cache' = <<>> /\ DOMAIN cache' = {}
    BY <1>1 DEF Crash
  <2>2. \A k \in Reader : /\ pc'[k] = "idle" /\ rev'[k] = 0
                          /\ chain'[k] = <<>> /\ tree'[k] = <<>>
    BY <1>1 DEF Crash
  <2>3. CacheInv'
    BY <2>1 DEF CacheInv
  <2>4. \A k \in Reader : ChainInv(k)'
    BY <2>2 DEF ChainInv
  <2>5. \A k \in Reader : ReaderInv(k)'
    BY <1>k, <2>2 DEF ReaderInv
  <2> QED BY <2>3, <2>4, <2>5
<1>2. CASE ~Crash
  <2>1. UNCHANGED <<cache, pc, rev, cur, chain, tree>>
    BY <1>2 DEF CommitterStep, Commit, FailCommit, BeginCommit, StoreCommit, StoreDelta, StoreSnapshot,
                Publish, readers
  <2>2. CacheInv'
    BY <1>0, <1>k, <2>1 DEF CacheInv
  <2>3. ASSUME NEW k \in Reader PROVE ChainInv(k)'
    BY <1>0, <1>k, <2>1 DEF ChainInv
  <2>4. ASSUME NEW k \in Reader PROVE ReaderInv(k)'
    <3>1. rev[k] \in Nat /\ head \in Nat
      BY <1>0, ReaderAssumption DEF TypeOK
    <3> QED BY <1>0, <1>k, <2>1, <3>1 DEF ReaderInv
  <2> QED BY <2>2, <2>3, <2>4
<1> QED BY <1>1, <1>2

LEMMA CommitterKeeps ==
    ASSUME IInv, CommitterStep
    PROVE  IInv'
BY CommitTypes, CommitStaged, CommitFiles, CommitReaders DEF IInv

-----------------------------------------------------------------------------
(***************************************************************************)
(* A step of reader k: the committer, the files and the other readers are  *)
(* as before, the cache holds settled trees, and k keeps its promises.     *)
(***************************************************************************)
OnlyReader(k) ==
    /\ UNCHANGED <<setting, head, attempt, stage, mode, commits, deltas, snapshots>>
    /\ \A j \in Reader \ {k} : /\ pc'[j] = pc[j] /\ rev'[j] = rev[j] /\ cur'[j] = cur[j]
                               /\ chain'[j] = chain[j] /\ tree'[j] = tree[j]

ReaderTypes ==
    /\ cache \in Seq(Entries) /\ Len(cache) <= CacheCapacity
    /\ pc \in [Reader -> {"idle", "lookup", "snapshot", "walk", "files", "legacy", "base", "apply", "done", "error"}]
    /\ rev \in [Reader -> 0..MaxRev]
    /\ cur \in [Reader -> 0..MaxRev]
    /\ chain \in [Reader -> Seq(Link)]
    /\ tree \in [Reader -> Trees]

LEMMA ReaderKeeps ==
    ASSUME IInv, NEW k \in Reader, OnlyReader(k), ReaderTypes',
           CacheInv', ChainInv(k)', ReaderInv(k)'
    PROVE  IInv'
<1>1. TypeOK'
  BY DEF IInv, TypeOK, OnlyReader, ReaderTypes, Entries
<1>2. /\ \A r, t : Settled(r, t)' <=> Settled(r, t)
      /\ \A r, d : SettledDelta(r, d)' <=> SettledDelta(r, d)
  BY DEF OnlyReader, Settled, SettledDelta, TreeOf, NewTree, NewRev, Underway
<1>3. RoomInv' /\ StagedInv'
  BY DEF OnlyReader, IInv, RoomInv, StagedInv, TreeOf, NewTree, NewRev, SnapshotDue
<1>4. FilesInv'
  BY <1>2 DEF OnlyReader, IInv, FilesInv
<1>5. ASSUME NEW j \in Reader PROVE ChainInv(j)'
  <2>1. CASE j = k
    BY <2>1
  <2>2. CASE j # k
    BY <1>2, <2>2 DEF OnlyReader, IInv, ChainInv
  <2> QED BY <2>1, <2>2
<1>6. ASSUME NEW j \in Reader PROVE ReaderInv(j)'
  <2>1. CASE j = k
    BY <2>1
  <2>2. CASE j # k
    BY <1>2, <2>2 DEF OnlyReader, IInv, ReaderInv
  <2> QED BY <2>1, <2>2
<1> QED BY <1>1, <1>3, <1>4, <1>5, <1>6 DEF IInv

(***************************************************************************)
(* The three things a reader does to the cache.                            *)
(***************************************************************************)
LEMMA TouchSettled ==
    ASSUME IInv, NEW r, Cached(r), cache' = Touch(r),
           UNCHANGED <<setting, head, attempt, stage, deltas>>
    PROVE  /\ cache' \in Seq(Entries) /\ Len(cache') <= CacheCapacity /\ CacheInv'
           /\ Settled(r, CachedTree(r)) /\ CachedTree(r) \in Trees
<1>1. TypeOK /\ CacheInv
  BY DEF IInv
<1>2. /\ CachedTree(r) \in Trees
      /\ \E j \in DOMAIN cache : cache[j] = [rev |-> r, tree |-> CachedTree(r)]
      /\ Touch(r) \in Seq(Entries) /\ Len(Touch(r)) <= CacheCapacity
      /\ \A i \in 1..Len(Touch(r)) : \E j \in DOMAIN cache : Touch(r)[i] = cache[j]
  BY <1>1, TouchKeeps
<1>3. \A q, t : Settled(q, t)' <=> Settled(q, t)
  BY DEF Settled, TreeOf, NewTree, NewRev, Underway
<1>4. Settled(r, CachedTree(r))
  BY <1>1, <1>2 DEF CacheInv
<1>5. ASSUME NEW i \in DOMAIN cache' PROVE Settled(cache'[i].rev, cache'[i].tree)
  <2>1. i \in 1..Len(Touch(r))
    BY <1>2
  <2> QED BY <1>1, <1>2, <2>1 DEF CacheInv
<1>6. CacheInv'
  BY <1>3, <1>5 DEF CacheInv
<1> QED BY <1>2, <1>4, <1>6

LEMMA PutSettled ==
    ASSUME IInv, NEW r \in Revision, NEW t \in Trees, Settled(r, t), cache' = Put(r, t),
           UNCHANGED <<setting, head, attempt, stage, deltas>>
    PROVE  cache' \in Seq(Entries) /\ Len(cache') <= CacheCapacity /\ CacheInv'
<1>1. TypeOK /\ CacheInv
  BY DEF IInv
<1>2. /\ Put(r, t) \in Seq(Entries) /\ Len(Put(r, t)) <= CacheCapacity
      /\ \A i \in 1..Len(Put(r, t)) : \/ Put(r, t)[i] = [rev |-> r, tree |-> t]
                                      \/ \E j \in DOMAIN cache : Put(r, t)[i] = cache[j]
  BY <1>1, PutKeeps
<1>3. \A q, u : Settled(q, u)' <=> Settled(q, u)
  BY DEF Settled, TreeOf, NewTree, NewRev, Underway
<1>5. ASSUME NEW i \in DOMAIN cache' PROVE Settled(cache'[i].rev, cache'[i].tree)
  <2>1. i \in 1..Len(Put(r, t))
    BY <1>2
  <2> QED BY <1>1, <1>2, <2>1 DEF CacheInv
<1>6. CacheInv'
  BY <1>3, <1>5 DEF CacheInv
<1> QED BY <1>2, <1>6

LEMMA SameSettled ==
    ASSUME IInv, UNCHANGED <<cache, setting, head, attempt, stage, deltas>>
    PROVE  cache' \in Seq(Entries) /\ Len(cache') <= CacheCapacity /\ CacheInv'
BY DEF IInv, TypeOK, Entries, CacheInv, Settled, TreeOf, NewTree, NewRev, Underway

(***************************************************************************)
(* A file at or below the revision a reader was asked for is settled.      *)
(***************************************************************************)
LEMMA OpenedFile ==
    ASSUME IInv, OneHazard, NEW k \in Reader, NEW r \in 1..rev[k]
    PROVE  /\ r \in Revision
           /\ commits[r] # None => Settled(r, commits[r]) /\ commits[r] \in Trees
           /\ snapshots[r] # None => Settled(r, snapshots[r]) /\ snapshots[r] \in Trees
           /\ deltas[r] # None => SettledDelta(r, deltas[r]) /\ deltas[r] \in 1..MaxAttempts
<1>1. /\ TypeOK /\ RoomInv /\ FilesInv /\ rev[k] \in 0..MaxRev /\ MaxRev \in Nat /\ head \in 0..MaxRev
      /\ setting \in Settings /\ (~setting.ahead => rev[k] <= head)
  BY ReaderAssumption DEF IInv, TypeOK, ReaderInv
<1>2. r \in Revision
  BY <1>1 DEF Revision
<1>3. ~setting.ahead \/ setting.faults = {}
  BY <1>1 DEF OneHazard
<1>4. r <= head \/ setting.faults = {}
  BY <1>1, <1>3
<1> QED BY <1>1, <1>2, <1>4, SettledTyped DEF FilesInv

(***************************************************************************)
(* What holds of reader k before its step, and what its step cannot        *)
(* change.                                                                 *)
(***************************************************************************)
ReaderFacts(k) ==
    /\ rev[k] \in 0..MaxRev /\ cur[k] \in 0..MaxRev /\ MaxRev \in Nat /\ head \in 0..MaxRev
    /\ chain[k] \in Seq(Link) /\ tree[k] \in Trees
    /\ ChainInv(k) /\ ReaderInv(k)
    /\ pc \in [Reader -> {"idle", "lookup", "snapshot", "walk", "files", "legacy", "base", "apply", "done", "error"}]
    /\ rev \in [Reader -> 0..MaxRev] /\ cur \in [Reader -> 0..MaxRev]
    /\ chain \in [Reader -> Seq(Link)] /\ tree \in [Reader -> Trees]

LEMMA Before ==
    ASSUME IInv, NEW k \in Reader
    PROVE  ReaderFacts(k)
BY ReaderAssumption DEF IInv, TypeOK, ReaderFacts

LEMMA SameWhenQuiet ==
    ASSUME UNCHANGED <<setting, head, attempt, stage, deltas>>
    PROVE  /\ \A r, t : Settled(r, t)' <=> Settled(r, t)
           /\ \A r, d : SettledDelta(r, d)' <=> SettledDelta(r, d)
BY DEF Settled, SettledDelta, TreeOf, NewTree, NewRev, Underway

LEMMA StartKeeps ==
    ASSUME IInv, NEW k \in Reader, NEW r \in 0..MaxRev, Start(k, r)
    PROVE  IInv'
<1>b. ReaderFacts(k)
  BY Before
<1> USE <1>b DEF ReaderFacts
<1>1. OnlyReader(k) /\ UNCHANGED <<setting, head, attempt, stage, deltas, cache>>
  BY DEF Start, Goto, OnlyReader, committer, files
<1>2. cache' \in Seq(Entries) /\ Len(cache') <= CacheCapacity /\ CacheInv'
  BY <1>1, SameSettled
<1>3. ReaderTypes'
  BY <1>2 DEF Start, Goto, ReaderTypes
<1>4. /\ pc[k] = "idle" /\ rev'[k] = r /\ chain'[k] = <<>> /\ tree'[k] = <<>>
      /\ pc'[k] = IF r = 0 THEN "done" ELSE "lookup"
      /\ setting.ahead \/ r <= head
  BY DEF Start, Goto, ChainInv, ReaderInv
<1>5. ChainInv(k)'
  BY <1>4 DEF ChainInv
<1>6. Settled(0, <<>>)
  BY DEF Settled, TreeOf
<1>7. ReaderInv(k)'
  BY <1>1, <1>4, <1>6, SameWhenQuiet DEF ReaderInv
<1> QED BY <1>1, <1>2, <1>3, <1>5, <1>7, ReaderKeeps

LEMMA LookupKeeps ==
    ASSUME IInv, NEW k \in Reader, Lookup(k)
    PROVE  IInv'
<1>b. ReaderFacts(k)
  BY Before
<1> USE <1>b DEF ReaderFacts
<1>1. OnlyReader(k) /\ UNCHANGED <<setting, head, attempt, stage, deltas, rev, cur, chain>> /\ pc[k] = "lookup"
  BY DEF Lookup, Finish, Goto, OnlyReader, committer, files
<1>2. CASE Cached(rev[k])
  <2>1. /\ cache' = Touch(rev[k])
        /\ pc' = [pc EXCEPT ![k] = "done"] /\ tree' = [tree EXCEPT ![k] = CachedTree(rev[k])]
    BY <1>2 DEF Lookup, Finish, Goto
  <2>2. /\ cache' \in Seq(Entries) /\ Len(cache') <= CacheCapacity /\ CacheInv'
        /\ Settled(rev[k], CachedTree(rev[k])) /\ CachedTree(rev[k]) \in Trees
    BY <1>1, <1>2, <2>1, TouchSettled
  <2>3. ReaderTypes'
    BY <1>1, <2>1, <2>2 DEF ReaderTypes
  <2>4. pc'[k] = "done" /\ tree'[k] = CachedTree(rev[k])
    BY <2>1
  <2>5. ChainInv(k)'
    BY <1>1, <2>4, SameWhenQuiet DEF ChainInv
  <2>6. ReaderInv(k)'
    BY <1>1, <2>2, <2>4, SameWhenQuiet DEF ReaderInv
  <2> QED BY <1>1, <2>2, <2>3, <2>5, <2>6, ReaderKeeps
<1>3. CASE ~Cached(rev[k])
  <2>1. cache' = cache /\ tree' = tree /\ pc' = [pc EXCEPT ![k] = "snapshot"] /\ pc'[k] = "snapshot"
    BY <1>3 DEF Lookup, Goto
  <2>2. cache' \in Seq(Entries) /\ Len(cache') <= CacheCapacity /\ CacheInv'
    BY <1>1, <2>1, SameSettled
  <2>3. ReaderTypes'
    BY <1>1, <2>1, <2>2 DEF ReaderTypes
  <2>5. ChainInv(k)'
    BY <1>1, <2>1, SameWhenQuiet DEF ChainInv
  <2>6. ReaderInv(k)'
    BY <1>1, <2>1, SameWhenQuiet DEF ReaderInv
  <2> QED BY <1>1, <2>2, <2>3, <2>5, <2>6, ReaderKeeps
<1> QED BY <1>2, <1>3

LEMMA TrySnapshotKeeps ==
    ASSUME IInv, OneHazard, NEW k \in Reader, TrySnapshot(k)
    PROVE  IInv'
<1>b. ReaderFacts(k)
  BY Before
<1> USE <1>b DEF ReaderFacts
<1>1. /\ OnlyReader(k) /\ UNCHANGED <<setting, head, attempt, stage, deltas, rev, chain>>
      /\ pc[k] = "snapshot" /\ rev[k] \in 1..rev[k]
  <2>1. UNCHANGED <<setting, head, attempt, stage, mode, commits, deltas, snapshots, rev, chain>>
    BY DEF TrySnapshot, committer, files
  <2>2. pc[k] = "snapshot" /\ rev[k] > 0
    BY DEF TrySnapshot, ReaderInv
  <2>3. \A j \in Reader \ {k} : pc'[j] = pc[j] /\ cur'[j] = cur[j] /\ tree'[j] = tree[j]
    BY DEF TrySnapshot, Finish, Goto
  <2> QED BY <2>1, <2>2, <2>3 DEF OnlyReader
<1>2. CASE snapshots[rev[k]] # None
  <2> DEFINE t == snapshots[rev[k]]
  <2>1. /\ cache' = Put(rev[k], t) /\ cur' = cur
        /\ pc' = [pc EXCEPT ![k] = "done"] /\ tree' = [tree EXCEPT ![k] = t]
    BY <1>2 DEF TrySnapshot, Finish, Goto
  <2>2. rev[k] \in Revision /\ Settled(rev[k], t) /\ t \in Trees
    BY <1>1, <1>2, OpenedFile
  <2>3. cache' \in Seq(Entries) /\ Len(cache') <= CacheCapacity /\ CacheInv'
    BY <1>1, <2>1, <2>2, PutSettled
  <2>4. pc'[k] = "done" /\ tree'[k] = t
    BY <2>1
  <2>5. ReaderTypes'
    BY <1>1, <2>1, <2>2, <2>3 DEF ReaderTypes
  <2>6. ChainInv(k)'
    BY <1>1, <2>4, SameWhenQuiet DEF ChainInv
  <2>7. ReaderInv(k)'
    BY <1>1, <2>2, <2>4, SameWhenQuiet DEF ReaderInv
  <2> QED BY <1>1, <2>3, <2>5, <2>6, <2>7, ReaderKeeps
<1>3. CASE snapshots[rev[k]] = None
  <2>1. /\ cache' = cache /\ tree' = tree /\ cur' = [cur EXCEPT ![k] = rev[k]]
        /\ pc' = [pc EXCEPT ![k] = "walk"] /\ pc'[k] = "walk" /\ cur'[k] = rev[k]
    BY <1>3 DEF TrySnapshot, Goto
  <2>2. cache' \in Seq(Entries) /\ Len(cache') <= CacheCapacity /\ CacheInv'
    BY <1>1, <2>1, SameSettled
  <2>3. ReaderTypes'
    BY <1>1, <2>1, <2>2 DEF ReaderTypes
  <2>4. chain'[k] = <<>>
    BY <1>1 DEF ChainInv
  <2>5. ChainInv(k)'
    BY <1>1, <2>1, <2>4 DEF ChainInv
  <2>6. ReaderInv(k)'
    BY <1>1, <2>1, SameWhenQuiet DEF ReaderInv
  <2> QED BY <1>1, <2>2, <2>3, <2>5, <2>6, ReaderKeeps
<1> QED BY <1>2, <1>3

LEMMA WalkKeeps ==
    ASSUME IInv, NEW k \in Reader, Walk(k)
    PROVE  IInv'
<1>b. ReaderFacts(k)
  BY Before
<1> USE <1>b DEF ReaderFacts
<1>1. /\ OnlyReader(k) /\ UNCHANGED <<setting, head, attempt, stage, deltas, rev, cur, chain, tree>>
      /\ pc[k] = "walk" /\ pc'[k] \in {"base", "files"} /\ (pc'[k] = "files" => cur[k] # 0)
  <2>1. /\ UNCHANGED <<setting, head, attempt, stage, mode, commits, deltas, snapshots>>
        /\ UNCHANGED <<rev, cur, chain, tree>>
    BY DEF Walk, committer, files
  <2>2. pc[k] = "walk" /\ pc'[k] \in {"base", "files"} /\ (pc'[k] = "files" => cur[k] # 0)
    BY DEF Walk, Goto
  <2>3. \A j \in Reader \ {k} : pc'[j] = pc[j]
    BY DEF Walk, Goto
  <2> QED BY <2>1, <2>2, <2>3 DEF OnlyReader
<1>2. \/ cache' = cache
      \/ Cached(cur[k]) /\ cache' = Touch(cur[k])
  BY DEF Walk
<1>3. cache' \in Seq(Entries) /\ Len(cache') <= CacheCapacity /\ CacheInv'
  BY <1>1, <1>2, SameSettled, TouchSettled
<1>4. ReaderTypes'
  BY <1>1, <1>3 DEF ReaderTypes, Walk, Goto
<1>5. ChainInv(k)'
  BY <1>1, SameWhenQuiet DEF ChainInv
<1>6. ReaderInv(k)'
  BY <1>1, SameWhenQuiet DEF ReaderInv
<1> QED BY <1>1, <1>3, <1>4, <1>5, <1>6, ReaderKeeps

LEMMA WalkFilesKeeps ==
    ASSUME IInv, OneHazard, NEW k \in Reader, WalkFiles(k)
    PROVE  IInv'
<1>b. ReaderFacts(k)
  BY Before
<1> USE <1>b DEF ReaderFacts
<1>1. /\ UNCHANGED <<setting, head, attempt, stage, mode, commits, deltas, snapshots>>
      /\ UNCHANGED <<cache, rev, tree>>
      /\ pc[k] = "files" /\ cur[k] > 0
      /\ Len(chain[k]) = rev[k] - cur[k] /\ Len(chain[k]) \in Nat
  BY DEF WalkFiles, committer, files, ReaderInv, ChainInv
<1>2. \A j \in Reader \ {k} : pc'[j] = pc[j] /\ cur'[j] = cur[j] /\ chain'[j] = chain[j]
  BY DEF WalkFiles, Goto
<1>3. OnlyReader(k)
  BY <1>1, <1>2 DEF OnlyReader
<1>4. cache' \in Seq(Entries) /\ Len(cache') <= CacheCapacity /\ CacheInv'
  BY <1>1, SameSettled
<1>5. cur[k] \in 1..rev[k]
  BY <1>1
<1>6. CASE snapshots[cur[k]] = None /\ deltas[cur[k]] # None
  <2> DEFINE link == [rev |-> cur[k], delta |-> deltas[cur[k]]]
  <2>1. /\ chain' = [chain EXCEPT ![k] = Append(chain[k], link)]
        /\ cur' = [cur EXCEPT ![k] = cur[k] - 1]
        /\ pc' = [pc EXCEPT ![k] = "walk"]
    BY <1>6 DEF WalkFiles, Goto
  <2>2. cur[k] \in Revision /\ SettledDelta(cur[k], deltas[cur[k]]) /\ deltas[cur[k]] \in 1..MaxAttempts
    BY <1>5, <1>6, OpenedFile
  <2>3. link \in Link
    BY <2>2 DEF Link
  <2>4. /\ Append(chain[k], link) \in Seq(Link) /\ Len(Append(chain[k], link)) = Len(chain[k]) + 1
        /\ \A i \in 1..Len(chain[k]) : Append(chain[k], link)[i] = chain[k][i]
        /\ Append(chain[k], link)[Len(chain[k]) + 1] = link
    BY <2>3, AppendProperties
  <2>5. cur[k] - 1 \in 0..MaxRev
    BY <1>1
  <2>6. /\ chain'[k] = Append(chain[k], link) /\ cur'[k] = cur[k] - 1 /\ pc'[k] = "walk"
    BY <2>1
  <2>7. ReaderTypes'
    BY <1>1, <1>4, <2>1, <2>4, <2>5 DEF ReaderTypes
  <2>8. Len(chain'[k]) = rev[k] - cur'[k]
    BY <1>1, <2>4, <2>6
  <2>9. ASSUME NEW i \in 1..Len(chain'[k])
        PROVE  chain'[k][i].rev = rev[k] - i + 1 /\ SettledDelta(rev[k] - i + 1, chain'[k][i].delta)
    <3>1. CASE i \in 1..Len(chain[k])
      BY <2>4, <2>6, <3>1 DEF ChainInv
    <3>2. CASE i = Len(chain[k]) + 1
      <4>1. rev[k] - i + 1 = cur[k] /\ chain'[k][i] = link
        BY <1>1, <2>4, <2>6, <3>2
      <4> QED BY <2>2, <4>1
    <3> QED BY <1>1, <2>4, <2>6, <3>1, <3>2
  <2>10. ChainInv(k)'
    BY <1>1, <2>6, <2>8, <2>9, SameWhenQuiet DEF ChainInv
  <2>11. ReaderInv(k)'
    BY <1>1, <2>6, SameWhenQuiet DEF ReaderInv
  <2> QED BY <1>3, <1>4, <2>7, <2>10, <2>11, ReaderKeeps
<1>7. CASE snapshots[cur[k]] # None \/ deltas[cur[k]] = None
  <2>1. cur' = cur /\ chain' = chain
    BY <1>7 DEF WalkFiles
  <2>2. PICK l \in {"base", "legacy"} : pc' = [pc EXCEPT ![k] = l]
    BY <1>7 DEF WalkFiles, Goto
  <2>3. ReaderTypes'
    BY <1>1, <1>4, <2>1, <2>2 DEF ReaderTypes
  <2>4. pc'[k] = l
    BY <2>2
  <2>5. ChainInv(k)'
    BY <1>1, <2>1, <2>4, SameWhenQuiet DEF ChainInv
  <2>6. ReaderInv(k)'
    BY <1>1, <2>1, <2>4, SameWhenQuiet DEF ReaderInv
  <2> QED BY <1>3, <1>4, <2>3, <2>5, <2>6, ReaderKeeps
<1> QED BY <1>6, <1>7

LEMMA LegacyKeeps ==
    ASSUME IInv, OneHazard, NEW k \in Reader, Legacy(k)
    PROVE  IInv'
<1>b. ReaderFacts(k)
  BY Before
<1> USE <1>b DEF ReaderFacts
<1>1. /\ UNCHANGED <<setting, head, attempt, stage, mode, commits, deltas, snapshots>>
      /\ UNCHANGED <<rev, cur, chain>>
      /\ pc[k] = "legacy" /\ rev[k] \in 1..rev[k]
  BY DEF Legacy, committer, files, ReaderInv
<1>2. \A j \in Reader \ {k} : pc'[j] = pc[j] /\ tree'[j] = tree[j]
  BY DEF Legacy, Finish, Goto
<1>3. OnlyReader(k)
  BY <1>1, <1>2 DEF OnlyReader
<1>4. CASE commits[rev[k]] # None
  <2> DEFINE t == commits[rev[k]]
  <2>1. /\ cache' = Put(rev[k], t)
        /\ pc' = [pc EXCEPT ![k] = "done"] /\ tree' = [tree EXCEPT ![k] = t]
    BY <1>4 DEF Legacy, Finish, Goto
  <2>2. rev[k] \in Revision /\ Settled(rev[k], t) /\ t \in Trees
    BY <1>1, <1>4, OpenedFile
  <2>3. cache' \in Seq(Entries) /\ Len(cache') <= CacheCapacity /\ CacheInv'
    BY <1>1, <2>1, <2>2, PutSettled
  <2>4. pc'[k] = "done" /\ tree'[k] = t
    BY <2>1
  <2>5. ReaderTypes'
    BY <1>1, <2>1, <2>2, <2>3 DEF ReaderTypes
  <2>6. ChainInv(k)'
    BY <1>1, <2>4, SameWhenQuiet DEF ChainInv
  <2>7. ReaderInv(k)'
    BY <1>1, <2>2, <2>4, SameWhenQuiet DEF ReaderInv
  <2> QED BY <1>3, <2>3, <2>5, <2>6, <2>7, ReaderKeeps
<1>5. CASE commits[rev[k]] = None
  <2>1. cache' = cache /\ tree' = tree /\ pc' = [pc EXCEPT ![k] = "error"] /\ pc'[k] = "error"
    BY <1>5 DEF Legacy, Goto
  <2>2. cache' \in Seq(Entries) /\ Len(cache') <= CacheCapacity /\ CacheInv'
    BY <1>1, <2>1, SameSettled
  <2>3. ReaderTypes'
    BY <1>1, <2>1, <2>2 DEF ReaderTypes
  <2>5. ChainInv(k)'
    BY <1>1, <2>1, SameWhenQuiet DEF ChainInv
  <2>6. ReaderInv(k)'
    BY <1>1, <2>1, SameWhenQuiet DEF ReaderInv
  <2> QED BY <1>3, <2>2, <2>3, <2>5, <2>6, ReaderKeeps
<1> QED BY <1>4, <1>5

LEMMA BaseKeeps ==
    ASSUME IInv, OneHazard, NEW k \in Reader, Base(k)
    PROVE  IInv'
<1>b. ReaderFacts(k)
  BY Before
<1> USE <1>b DEF ReaderFacts
<1>1. /\ UNCHANGED <<setting, head, attempt, stage, mode, commits, deltas, snapshots>>
      /\ UNCHANGED <<rev, cur, chain>>
      /\ pc[k] = "base" /\ rev[k] > 0 /\ tree[k] = <<>>
      /\ Len(chain[k]) = rev[k] - cur[k] /\ Len(chain[k]) \in Nat
  BY DEF Base, committer, files, ReaderInv, ChainInv
<1>2. \A j \in Reader \ {k} : pc'[j] = pc[j] /\ tree'[j] = tree[j]
  BY DEF Base, Goto
<1>3. OnlyReader(k)
  BY <1>1, <1>2 DEF OnlyReader
<1>4. ASSUME NEW t \in Trees, Settled(cur[k], t),
             pc' = [pc EXCEPT ![k] = AfterBase(k)], tree' = [tree EXCEPT ![k] = t],
             cache' \in Seq(Entries), Len(cache') <= CacheCapacity, CacheInv'
      PROVE  IInv'
  <2>1. AfterBase(k) \in {"done", "apply"} /\ pc'[k] = AfterBase(k) /\ tree'[k] = t
    BY <1>4 DEF AfterBase
  <2>2. ReaderTypes'
    BY <1>1, <1>4, <2>1 DEF ReaderTypes
  <2>3. ChainInv(k)'
    BY <1>1, <2>1, SameWhenQuiet DEF ChainInv
  <2>4. CASE chain[k] = <<>>
    <3>1. pc'[k] = "done" /\ rev[k] = cur[k]
      BY <1>1, <2>1, <2>4 DEF AfterBase
    <3>2. ReaderInv(k)'
      BY <1>1, <1>4, <2>1, <3>1, SameWhenQuiet DEF ReaderInv
    <3> QED BY <1>3, <1>4, <2>2, <2>3, <3>2, ReaderKeeps
  <2>5. CASE chain[k] # <<>>
    <3>1. pc'[k] = "apply" /\ Len(chain[k]) > 0 /\ rev[k] - Len(chain[k]) = cur[k]
      BY <1>1, <2>1, <2>5 DEF AfterBase
    <3>2. ReaderInv(k)'
      BY <1>1, <1>4, <2>1, <3>1, SameWhenQuiet DEF ReaderInv
    <3> QED BY <1>3, <1>4, <2>2, <2>3, <3>2, ReaderKeeps
  <2> QED BY <2>4, <2>5
<1>5. CASE cur[k] = 0 /\ pc' = [pc EXCEPT ![k] = AfterBase(k)] /\ UNCHANGED <<cache, tree>>
  <2>1. <<>> \in Trees /\ tree' = [tree EXCEPT ![k] = <<>>]
    BY <1>1, <1>5
  <2>2. Settled(cur[k], <<>>)
    BY <1>5 DEF Settled, TreeOf
  <2>3. cache' \in Seq(Entries) /\ Len(cache') <= CacheCapacity /\ CacheInv'
    BY <1>1, <1>5, SameSettled
  <2> QED BY <1>4, <1>5, <2>1, <2>2, <2>3
<1>6. CASE /\ Cached(cur[k])
           /\ cache' = Touch(cur[k])
           /\ tree' = [tree EXCEPT ![k] = CachedTree(cur[k])]
           /\ pc' = [pc EXCEPT ![k] = AfterBase(k)]
  <2>1. /\ cache' \in Seq(Entries) /\ Len(cache') <= CacheCapacity /\ CacheInv'
        /\ Settled(cur[k], CachedTree(cur[k])) /\ CachedTree(cur[k]) \in Trees
    BY <1>1, <1>6, TouchSettled
  <2> QED BY <1>4, <1>6, <2>1
<1>7. CASE /\ cur[k] # 0 /\ snapshots[cur[k]] # None
           /\ cache' = Put(cur[k], snapshots[cur[k]])
           /\ tree' = [tree EXCEPT ![k] = snapshots[cur[k]]]
           /\ pc' = [pc EXCEPT ![k] = AfterBase(k)]
  <2>1. cur[k] \in 1..rev[k]
    BY <1>1, <1>7
  <2>2. cur[k] \in Revision /\ Settled(cur[k], snapshots[cur[k]]) /\ snapshots[cur[k]] \in Trees
    BY <1>7, <2>1, OpenedFile
  <2>3. cache' \in Seq(Entries) /\ Len(cache') <= CacheCapacity /\ CacheInv'
    BY <1>1, <1>7, <2>2, PutSettled
  <2> QED BY <1>4, <1>7, <2>2, <2>3
<1>8. CASE pc' = [pc EXCEPT ![k] = "error"] /\ UNCHANGED <<cache, tree>>
  <2>1. pc'[k] = "error"
    BY <1>8
  <2>2. cache' \in Seq(Entries) /\ Len(cache') <= CacheCapacity /\ CacheInv'
    BY <1>1, <1>8, SameSettled
  <2>3. ReaderTypes'
    BY <1>1, <1>8, <2>2 DEF ReaderTypes
  <2>5. ChainInv(k)'
    BY <1>1, <2>1, SameWhenQuiet DEF ChainInv
  <2>6. ReaderInv(k)'
    BY <1>1, <1>8, <2>1, SameWhenQuiet DEF ReaderInv
  <2> QED BY <1>3, <2>2, <2>3, <2>5, <2>6, ReaderKeeps
<1> QED BY <1>5, <1>6, <1>7, <1>8 DEF Base, Goto

LEMMA OneLeft == \A n \in Nat : n > 0 /\ ~(1 <= n - 1) => n = 1
OBVIOUS

LEMMA DropLast ==
    ASSUME NEW S, NEW s \in Seq(S), Len(s) > 0
    PROVE  LET n == Len(s) IN
           /\ SubSeq(s, 1, n - 1) \in Seq(S) /\ Len(SubSeq(s, 1, n - 1)) = n - 1
           /\ \A i \in 1..(n - 1) : SubSeq(s, 1, n - 1)[i] = s[i]
<1>1. Len(s) \in Nat /\ Len(s) - 1 \in Nat /\ \A i \in 1..(Len(s) - 1) : s[i] \in S
  OBVIOUS
<1>2. /\ SubSeq(s, 1, Len(s) - 1) \in Seq(S)
      /\ Len(SubSeq(s, 1, Len(s) - 1)) = IF 1 <= Len(s) - 1 THEN (Len(s) - 1) - 1 + 1 ELSE 0
      /\ \A i \in 1..((Len(s) - 1) - 1 + 1) : SubSeq(s, 1, Len(s) - 1)[i] = s[1 + i - 1]
  BY <1>1, SubSeqProperties
<1>3. Len(SubSeq(s, 1, Len(s) - 1)) = Len(s) - 1
  <2>1. Len(s) \in Nat
    OBVIOUS
  <2>2. CASE 1 <= Len(s) - 1
    BY <1>2, <2>1, <2>2
  <2>3. CASE ~(1 <= Len(s) - 1)
    <3>1. Len(s) = 1
      BY <2>1, <2>3, OneLeft
    <3> QED BY <1>2, <3>1
  <2> QED BY <2>2, <2>3
<1>4. ASSUME NEW i \in 1..(Len(s) - 1) PROVE SubSeq(s, 1, Len(s) - 1)[i] = s[i]
  <2>1. i \in 1..((Len(s) - 1) - 1 + 1) /\ 1 + i - 1 = i
    BY <1>1
  <2> QED BY <1>2, <2>1
<1> QED BY <1>2, <1>3, <1>4

(***************************************************************************)
(* One delta is replayed: the oldest link of the chain belongs to the      *)
(* revision after the tree's.                                              *)
(***************************************************************************)
LEMMA ApplyOneKeeps ==
    ASSUME IInv, NEW k \in Reader, ApplyOne(k)
    PROVE  IInv'
<1>b. ReaderFacts(k)
  BY Before
<1> USE <1>b DEF ReaderFacts
<1> DEFINE n == Len(chain[k])
<1> DEFINE link == chain[k][n]
<1> DEFINE t == Append(tree[k], link.delta)
<1>1. /\ UNCHANGED <<setting, head, attempt, stage, mode, commits, deltas, snapshots>>
      /\ UNCHANGED <<rev, cur>>
      /\ pc[k] = "apply" /\ rev[k] > 0
      /\ n \in Nat /\ n > 0 /\ Settled(rev[k] - n, tree[k])
  BY DEF ApplyOne, committer, files, ReaderInv
<1>2. \A j \in Reader \ {k} : pc'[j] = pc[j] /\ tree'[j] = tree[j] /\ chain'[j] = chain[j]
  BY DEF ApplyOne, Goto
<1>3. OnlyReader(k)
  BY <1>1, <1>2 DEF OnlyReader
<1>4. /\ tree' = [tree EXCEPT ![k] = t]
      /\ cache' = Put(link.rev, t)
      /\ chain' = [chain EXCEPT ![k] = SubSeq(chain[k], 1, n - 1)]
      /\ pc' = [pc EXCEPT ![k] = IF n = 1 THEN "done" ELSE "apply"]
  BY DEF ApplyOne, Goto, Last, Front
<1>5. link.rev = rev[k] - n + 1 /\ SettledDelta(rev[k] - n + 1, link.delta)
  BY <1>1 DEF ChainInv
<1>6. TypeOK /\ RoomInv
  BY DEF IInv
<1>7. rev[k] - n \in 0..MaxRev /\ rev[k] - n + 1 \in Revision /\ rev[k] - n + 1 \in Nat \ {0}
  BY <1>1, <1>5, <1>6, SettledTyped DEF Revision
<1>8. Settled(rev[k] - n + 1, t) /\ t \in Trees
  <2>1. (rev[k] - n + 1) - 1 = rev[k] - n /\ head \in Nat
    BY <1>7
  <2>2. Settled(rev[k] - n + 1, t)
    BY <1>1, <1>5, <1>7, <2>1, Extend
  <2> QED BY <1>6, <2>2, SettledTyped
<1>9. cache' \in Seq(Entries) /\ Len(cache') <= CacheCapacity /\ CacheInv'
  BY <1>1, <1>4, <1>5, <1>7, <1>8, PutSettled
<1>10. /\ SubSeq(chain[k], 1, n - 1) \in Seq(Link) /\ Len(SubSeq(chain[k], 1, n - 1)) = n - 1
       /\ \A i \in 1..(n - 1) : SubSeq(chain[k], 1, n - 1)[i] = chain[k][i]
  BY <1>1, DropLast
<1>11. /\ chain'[k] = SubSeq(chain[k], 1, n - 1) /\ tree'[k] = t
       /\ pc'[k] = IF n = 1 THEN "done" ELSE "apply"
  BY <1>4
<1>12. ReaderTypes'
  BY <1>1, <1>4, <1>8, <1>9, <1>10 DEF ReaderTypes
<1> HIDE DEF t
<1>13. ChainInv(k)'
  <2>1. ASSUME NEW i \in 1..(n - 1)
        PROVE  chain'[k][i].rev = rev[k] - i + 1 /\ SettledDelta(rev[k] - i + 1, chain'[k][i].delta)
    <3>1. i \in 1..n
      BY <1>1
    <3> QED BY <1>10, <1>11, <3>1 DEF ChainInv
  <2>2. Len(chain'[k]) = n - 1
    BY <1>10, <1>11
  <2> QED BY <1>1, <1>11, <2>1, <2>2, SameWhenQuiet DEF ChainInv
<1>14. Len(chain'[k]) = n - 1
  BY <1>10, <1>11
<1>15. CASE n = 1
  <2>1. pc'[k] = "done" /\ rev[k] - n + 1 = rev[k]
    BY <1>11, <1>15
  <2>2. ReaderInv(k)'
    BY <1>1, <1>8, <1>11, <2>1, SameWhenQuiet DEF ReaderInv
  <2> QED BY <1>3, <1>9, <1>12, <1>13, <2>2, ReaderKeeps
<1>16. CASE n # 1
  <2>1. pc'[k] = "apply" /\ Len(chain'[k]) > 0 /\ rev[k] - n + 1 = rev[k] - Len(chain'[k])
    BY <1>1, <1>11, <1>14, <1>16
  <2>2. ReaderInv(k)'
    BY <1>1, <1>8, <1>11, <2>1, SameWhenQuiet DEF ReaderInv
  <2> QED BY <1>3, <1>9, <1>12, <1>13, <2>2, ReaderKeeps
<1> QED BY <1>15, <1>16

LEMMA TornReadKeeps ==
    ASSUME IInv, NEW k \in Reader, TornRead(k)
    PROVE  IInv'
<1>b. ReaderFacts(k)
  BY Before
<1> USE <1>b DEF ReaderFacts
<1>1. /\ UNCHANGED <<setting, head, attempt, stage, mode, commits, deltas, snapshots>>
      /\ UNCHANGED <<cache, rev, cur, chain, tree>>
      /\ pc' = [pc EXCEPT ![k] = "error"]
      /\ pc[k] \in {"snapshot", "files", "legacy", "base"}
  BY DEF TornRead, Goto, committer, files
<1>2. OnlyReader(k) /\ pc'[k] = "error"
  BY <1>1 DEF OnlyReader
<1>3. cache' \in Seq(Entries) /\ Len(cache') <= CacheCapacity /\ CacheInv'
  BY <1>1, SameSettled
<1>4. ReaderTypes'
  BY <1>1, <1>3 DEF ReaderTypes
<1>5. ChainInv(k)'
  BY <1>1, <1>2, SameWhenQuiet DEF ChainInv
<1>6. ReaderInv(k)'
  BY <1>1, <1>2, SameWhenQuiet DEF ReaderInv
<1> QED BY <1>2, <1>3, <1>4, <1>5, <1>6, ReaderKeeps

LEMMA ReturnKeeps ==
    ASSUME IInv, NEW k \in Reader, Return(k)
    PROVE  IInv'
<1>b. ReaderFacts(k)
  BY Before
<1> USE <1>b DEF ReaderFacts
<1>1. /\ UNCHANGED <<setting, head, attempt, stage, mode, commits, deltas, snapshots, cache>>
      /\ pc' = [pc EXCEPT ![k] = "idle"]
      /\ rev' = [rev EXCEPT ![k] = 0] /\ cur' = [cur EXCEPT ![k] = 0]
      /\ chain' = [chain EXCEPT ![k] = <<>>] /\ tree' = [tree EXCEPT ![k] = <<>>]
  BY DEF Return, Goto, committer, files
<1>2. /\ OnlyReader(k) /\ pc'[k] = "idle" /\ rev'[k] = 0
      /\ chain'[k] = <<>> /\ tree'[k] = <<>>
  BY <1>1 DEF OnlyReader
<1>3. cache' \in Seq(Entries) /\ Len(cache') <= CacheCapacity /\ CacheInv'
  BY <1>1, SameSettled
<1>4. <<>> \in Trees /\ <<>> \in Seq(Link) /\ 0 \in 0..MaxRev
  <2>1. <<>> \in Trees
    BY EmptyTyped
  <2>2. <<>> \in Seq(Link)
    OBVIOUS
  <2> QED BY <2>1, <2>2
<1>5. ReaderTypes'
  BY <1>1, <1>3, <1>4 DEF ReaderTypes
<1>6. ChainInv(k)'
  BY <1>2 DEF ChainInv
<1>7. ReaderInv(k)'
  BY <1>1, <1>2 DEF ReaderInv
<1> QED BY <1>2, <1>3, <1>5, <1>6, <1>7, ReaderKeeps

-----------------------------------------------------------------------------
LEMMA InvInit == Init => IInv
<1> SUFFICES ASSUME Init PROVE IInv
  OBVIOUS
<1> USE ReaderAssumption
<1>1. <<>> \in Trees
  BY EmptyTyped
<1>2. TypeOK
  BY <1>1 DEF Init, TypeOK
<1>3. RoomInv /\ StagedInv /\ FilesInv
  BY DEF Init, RoomInv, StagedInv, FilesInv
<1>4. CacheInv
  BY DEF Init, CacheInv
<1>5. \A k \in Reader : ChainInv(k) /\ ReaderInv(k)
  BY DEF Init, ChainInv, ReaderInv
<1> QED BY <1>2, <1>3, <1>4, <1>5 DEF IInv

LEMMA InvStep ==
    ASSUME OneHazard, IInv, [Next]_vars
    PROVE  IInv'
<1>1. CASE CommitterStep
  BY <1>1, CommitterKeeps
<1>2. CASE \E k \in Reader : Read(k) \/ Return(k)
  <2>1. PICK k \in Reader : Read(k) \/ Return(k)
    BY <1>2
  <2> QED BY <2>1, LookupKeeps, TrySnapshotKeeps, WalkKeeps, WalkFilesKeeps, LegacyKeeps, BaseKeeps,
             ApplyOneKeeps, TornReadKeeps, ReturnKeeps DEF Read
<1>3. CASE \E k \in Reader, r \in 0..MaxRev : Start(k, r)
  BY <1>3, StartKeeps
<1>4. CASE UNCHANGED vars
  <2>1. /\ UNCHANGED <<setting, head, attempt, stage, mode, commits, deltas, snapshots>>
        /\ UNCHANGED <<cache, pc, rev, cur, chain, tree>>
    BY <1>4 DEF vars, committer, files, readers
  <2>2. TypeOK' /\ RoomInv' /\ StagedInv'
    BY <2>1 DEF IInv, TypeOK, RoomInv, StagedInv, SnapshotDue, NewRev, NewTree, TreeOf
  <2>3. FilesInv' /\ CacheInv'
    BY <2>1, SameWhenQuiet DEF IInv, FilesInv, CacheInv
  <2>4. ASSUME NEW k \in Reader PROVE ChainInv(k)' /\ ReaderInv(k)'
    <3>1. ChainInv(k)'
      BY <2>1, SameWhenQuiet DEF IInv, ChainInv
    <3>2. ReaderInv(k)'
      BY <2>1, SameWhenQuiet DEF IInv, ReaderInv
    <3> QED BY <3>1, <3>2
  <2> QED BY <2>2, <2>3, <2>4 DEF IInv
<1> QED BY <1>1, <1>2, <1>3, <1>4 DEF Next, CommitterStep

(***************************************************************************)
(* The inductive invariant holds of every reachable state.                 *)
(***************************************************************************)
THEOREM InvHolds ==
    ASSUME OneHazard
    PROVE  Spec => []IInv
<1>1. IInv /\ [Next]_vars => IInv'
  BY InvStep
<1> QED BY <1>1, InvInit, PTL DEF Spec

(***************************************************************************)
(* The types of TreeReader, the capacity of the cache among them.          *)
(***************************************************************************)
THEOREM TypeCorrect ==
    ASSUME OneHazard
    PROVE  Spec => []TypeOK
<1>1. IInv => TypeOK
  BY DEF IInv
<1> QED BY <1>1, InvHolds, PTL

(***************************************************************************)
(* get_tree_at_rev of a published revision returns the tree its deltas     *)
(* lead to.  A settled tree of a published revision is that revision's.    *)
(***************************************************************************)
THEOREM ReadsCorrect ==
    ASSUME OneHazard
    PROVE  Spec => []ReadCorrect
<1>1. IInv => ReadCorrect
  <2> SUFFICES ASSUME IInv, NEW k \in Reader, pc[k] = "done", rev[k] <= head
               PROVE  tree[k] = TreeOf(rev[k])
    BY DEF ReadCorrect
  <2>1. Settled(rev[k], tree[k]) /\ rev[k] \in Nat /\ head \in Nat
    BY ReaderAssumption DEF IInv, ReaderInv, TypeOK
  <2> QED BY <2>1 DEF Settled, NewRev
<1> QED BY <1>1, InvHolds, PTL

(***************************************************************************)
(* No entry of tree_cache is ever wrong for a published revision.          *)
(***************************************************************************)
THEOREM CacheStaysCoherent ==
    ASSUME OneHazard
    PROVE  Spec => []CacheCoherent
<1>1. IInv => CacheCoherent
  <2> SUFFICES ASSUME IInv, NEW i \in DOMAIN cache, cache[i].rev <= head
               PROVE  cache[i].tree = TreeOf(cache[i].rev)
    BY DEF CacheCoherent
  <2>1. Settled(cache[i].rev, cache[i].tree) /\ head \in Nat
    BY ReaderAssumption DEF IInv, CacheInv, TypeOK
  <2> QED BY <2>1 DEF Settled, NewRev
<1> QED BY <1>1, InvHolds, PTL
=============================================================================
