------------------------- MODULE ServerRegistryProofs -------------------------
(***************************************************************************)
(* For every set of names and directories and any number of commits:       *)
(* commits land where their name is configured, and a directory open for   *)
(* one use never loses a revision.                                         *)
(***************************************************************************)
EXTENDS ServerRegistry, TLAPS

(***************************************************************************)
(* The inductive invariant.                                                *)
(***************************************************************************)
\* the repositories open so far: all the server serves, but those the loop of
\* the first phase has not reached
OpenSlots ==
    IF pc = "down" THEN {}
    ELSE IF pc = "opening" THEN Slots(serving) \ todo
    ELSE Slots(serving)

\* the registry is the configuration the server was started with
RegistryInv ==
    /\ served = OpenSlots \cap Name
    /\ \A s \in OpenSlots : repo[s] \in Repo /\ repo[s].dir = DirOf(serving, s)
    /\ \A s \in Slot \ OpenSlots : repo[s] = NoRepo

\* requests under way belong to a server that is up
RequestInv ==
    /\ todo \subseteq Slots(serving)
    /\ pc \in {"down", "up"} => todo = {}
    /\ pc # "up" => waiting = {} /\ creating = {}
    /\ \A w \in waiting : w.slot \in Slots(serving) /\ w.want = DirOf(serving, w.slot)

\* a repository in one use knows the head of its directory
HeadInv ==
    alone =>
        /\ pc # "down" => tool = NoRepo /\ OneUseEach(serving)
        /\ tool # NoRepo => tool.rev = head[tool.dir]
        /\ \A s \in OpenSlots : repo[s].rev = ReadHead(repo[s].dir)
        /\ pc \in {"initialising", "up"} =>
               \A s \in OpenSlots \ todo : head[repo[s].dir] # NoHead
        /\ \A c \in creating : c.fresh =>
               /\ head[c.dir] \in {NoHead, 0}
               /\ \A s \in OpenSlots : repo[s].dir # c.dir

IInv == TypeOK /\ RegistryInv /\ RequestInv /\ HeadInv /\ RoutedAsNamed

-----------------------------------------------------------------------------
(***************************************************************************)
(* Lemmas.                                                                 *)
(***************************************************************************)
\* What a configuration serves has a name and a directory.
LEMMA SlotsTyped ==
    ASSUME NEW c \in Config
    PROVE  /\ Slots(c) \subseteq Slot
           /\ \A s \in Slots(c) : DirOf(c, s) \in Dir
BY RegistryAssumption DEF Slots, Configured, MultiRepo, DirOf, Slot, Config

\* refs/head, read as a revision number.
LEMMA ReadHeadTyped ==
    ASSUME TypeOK, NEW d \in Dir
    PROVE  ReadHead(d) \in 0..MaxRev
BY RegistryAssumption DEF TypeOK, ReadHead, NoHead

\* While the server is up, a request is routed to a repository it serves, and
\* that is the one it belongs to.
LEMMA RouteIsWant ==
    ASSUME TypeOK, RegistryInv, pc = "up", NEW n \in Name \cup {Unknown}, Route(n) # NoSlot
    PROVE  /\ Route(n) \in Slots(serving)
           /\ Want(n) = DirOf(serving, Route(n))
<1>1. CASE ~MultiRepo(serving)
    BY <1>1 DEF Route, Want, Slots, DirOf
<1>2. CASE MultiRepo(serving)
    <2>1. served = Configured(serving)
        BY <1>2 DEF RegistryInv, OpenSlots, Slots, Configured
    <2>2. \A m \in Name : DirOf(serving, m) = serving.repositories[m]
        BY RegistryAssumption DEF DirOf
    <2>3. CASE n \in served
        BY <1>2, <2>1, <2>2, <2>3 DEF Route, Want, Slots, Configured
    <2>4. CASE n \notin served
        <3>1. \E m \in Name : served = {m}
            BY <1>2, <2>4 DEF Route
        <3>2. PICK m \in Name : m = CHOOSE k \in Name : served = {k}
            BY <3>1
        <3>3. served = {m}
            BY <3>1, <3>2
        <3>4. Route(n) = m /\ Want(n) = serving.repositories[m]
            BY <1>2, <2>1, <2>4, <3>1, <3>2 DEF Route, Want
        <3> QED
            BY <1>2, <2>1, <2>2, <3>3, <3>4 DEF Slots
    <2> QED
        BY <2>3, <2>4
<1> QED
    BY <1>1, <1>2

\* A commit writes one revision and the head of one directory.
LEMMA StoreTyped ==
    ASSUME TypeOK, NEW r \in Repo, NEW want \in Dir \cup {NoDir}, Store(r, want)
    PROVE  /\ head' \in [Dir -> NoHead..MaxRev]
           /\ revs' \in [Dir -> [1..MaxRev -> Commit \cup {NoCommit}]]
           /\ made' \in 0..MaxCommits
           /\ r.rev + 1 \in 1..MaxRev
           /\ \A d \in Dir : d # r.dir => head'[d] = head[d] /\ revs'[d] = revs[d]
           /\ head'[r.dir] = r.rev + 1
           /\ \A k \in 1..MaxRev : k # r.rev + 1 => revs'[r.dir][k] = revs[r.dir][k]
           /\ revs'[r.dir][r.rev + 1].want = want
<1>1. r.dir \in Dir /\ r.rev \in 0..MaxRev
    BY DEF Repo
<1>2. r.rev + 1 \in 1..MaxRev /\ made + 1 \in 1..MaxCommits
    BY <1>1, RegistryAssumption DEF TypeOK, Store
<1> DEFINE c == [id |-> made + 1, want |-> want]
<1>3. c \in Commit
    BY <1>2 DEF Commit
<1>4. revs[r.dir] \in [1..MaxRev -> Commit \cup {NoCommit}]
    BY <1>1 DEF TypeOK
<1>5. [revs[r.dir] EXCEPT ![r.rev + 1] = c] \in [1..MaxRev -> Commit \cup {NoCommit}]
    BY <1>2, <1>3, <1>4
<1>6. revs' = [revs EXCEPT ![r.dir] = [revs[r.dir] EXCEPT ![r.rev + 1] = c]]
    BY DEF Store
<1>7. revs' \in [Dir -> [1..MaxRev -> Commit \cup {NoCommit}]]
    BY <1>1, <1>5, <1>6 DEF TypeOK
<1>8. revs'[r.dir] = [revs[r.dir] EXCEPT ![r.rev + 1] = c]
    BY <1>1, <1>6 DEF TypeOK
<1>9. head' \in [Dir -> NoHead..MaxRev] /\ made' \in 0..MaxCommits
    BY <1>1, <1>2, RegistryAssumption DEF TypeOK, Store, NoHead
<1>10. /\ \A d \in Dir : d # r.dir => head'[d] = head[d] /\ revs'[d] = revs[d]
       /\ head'[r.dir] = r.rev + 1
    BY <1>1, <1>6 DEF TypeOK, Store
<1>11. \A k \in 1..MaxRev : k # r.rev + 1 => revs'[r.dir][k] = revs[r.dir][k]
    BY <1>4, <1>8
<1>12. revs'[r.dir][r.rev + 1] = c
    BY <1>2, <1>4, <1>8
<1> QED
    BY <1>2, <1>7, <1>9, <1>10, <1>11, <1>12

\* A commit in the directory it is wanted in.
LEMMA StoreRouted ==
    ASSUME TypeOK, RoutedAsNamed, NEW r \in Repo, Store(r, r.dir)
    PROVE  RoutedAsNamed'
<1>1. r.dir \in Dir
    BY DEF Repo
<1> QED
    BY <1>1, StoreTyped DEF RoutedAsNamed

-----------------------------------------------------------------------------
(***************************************************************************)
(* The invariant holds initially.                                          *)
(***************************************************************************)
LEMMA InitInv == Init => IInv
<1> SUFFICES ASSUME Init PROVE IInv
    OBVIOUS
<1>1. head \in [Dir -> NoHead..MaxRev] /\ made \in 0..MaxCommits
    BY RegistryAssumption DEF Init, NoHead
<1>2. revs \in [Dir -> [1..MaxRev -> Commit \cup {NoCommit}]]
    BY DEF Init
<1>3. TypeOK
    BY <1>1, <1>2 DEF Init, TypeOK
<1>4. RegistryInv /\ RequestInv
    BY DEF Init, RegistryInv, RequestInv, OpenSlots
<1>5. HeadInv
    BY DEF Init, HeadInv, OpenSlots
<1>6. RoutedAsNamed
    BY DEF Init, RoutedAsNamed
<1> QED
    BY <1>3, <1>4, <1>5, <1>6 DEF IInv

-----------------------------------------------------------------------------
(***************************************************************************)
(* The start and the end of the server.  None of these writes a revision.  *)
(***************************************************************************)
LEMMA ConfigureInv == ASSUME IInv, NEW c \in Config, Configure(c) PROVE IInv' /\ Kept
<1>1. TypeOK'
    BY DEF IInv, TypeOK, Configure, disk, server
<1>2. RegistryInv' /\ RequestInv'
    BY DEF IInv, RegistryInv, RequestInv, OpenSlots, Configure, server
<1>3. HeadInv'
    BY DEF IInv, HeadInv, OpenSlots, ReadHead, Configure, disk, server
<1>4. RoutedAsNamed' /\ Kept
    BY DEF IInv, TypeOK, NoHead, RoutedAsNamed, Kept, Configure, disk
<1> QED
    BY <1>1, <1>2, <1>3, <1>4 DEF IInv

LEMMA StartInv == ASSUME IInv, Start PROVE IInv' /\ Kept
<1>1. TypeOK'
    BY SlotsTyped DEF IInv, TypeOK, Start, disk
<1>2. OpenSlots = {} /\ OpenSlots' = {}
    BY DEF OpenSlots, Start
<1>3. RegistryInv' /\ RequestInv'
    BY <1>2 DEF IInv, RegistryInv, RequestInv, Start
<1>4. HeadInv'
    BY <1>2 DEF IInv, HeadInv, RequestInv, Start, disk
<1>5. RoutedAsNamed' /\ Kept
    BY DEF IInv, TypeOK, NoHead, RoutedAsNamed, Kept, Start, disk
<1> QED
    BY <1>1, <1>3, <1>4, <1>5 DEF IInv

LEMMA OpenInv == ASSUME IInv, NEW s \in Slot, Open(s) PROVE IInv' /\ Kept
<1> DEFINE d == DirOf(serving, s)
           r == [dir |-> d, rev |-> ReadHead(d)]
<1>1. s \in Slots(serving) /\ d \in Dir /\ Slots(serving) \subseteq Slot
    BY SlotsTyped DEF IInv, RequestInv, TypeOK, Open
<1>2. r \in Repo
    BY <1>1, ReadHeadTyped DEF IInv, Repo
<1>3. TypeOK'
    BY <1>2 DEF IInv, TypeOK, Open, disk
<1>4. OpenSlots' = OpenSlots \cup {s}
    BY <1>1 DEF OpenSlots, Open
<1>5. repo'[s] = r /\ \A t \in Slot : t # s => repo'[t] = repo[t]
    BY DEF IInv, TypeOK, Open
<1>6. OpenSlots \subseteq Slot
    BY <1>1 DEF OpenSlots
<1>7. RegistryInv'
    BY <1>2, <1>4, <1>5, <1>6 DEF IInv, RegistryInv, Open, DirOf
<1>8. RequestInv'
    BY DEF IInv, RequestInv, Open
<1>9. HeadInv'
    BY <1>4, <1>5, <1>6 DEF IInv, HeadInv, RequestInv, ReadHead, Open, disk
<1>10. RoutedAsNamed' /\ Kept
    BY DEF IInv, TypeOK, NoHead, RoutedAsNamed, Kept, Open, disk
<1> QED
    BY <1>3, <1>7, <1>8, <1>9, <1>10 DEF IInv

LEMMA OpenedInv == ASSUME IInv, Opened PROVE IInv' /\ Kept
<1>1. TypeOK'
    BY SlotsTyped DEF IInv, TypeOK, Opened, disk
<1>2. OpenSlots' = OpenSlots /\ OpenSlots' \ todo' = {}
    BY DEF OpenSlots, Opened
<1>3. RegistryInv' /\ RequestInv'
    BY <1>2 DEF IInv, RegistryInv, RequestInv, Opened
<1>4. HeadInv'
    BY <1>2 DEF IInv, HeadInv, RequestInv, ReadHead, Opened, disk
<1>5. RoutedAsNamed' /\ Kept
    BY DEF IInv, TypeOK, NoHead, RoutedAsNamed, Kept, Opened, disk
<1> QED
    BY <1>1, <1>3, <1>4, <1>5 DEF IInv

LEMMA ListenInv == ASSUME IInv, Listen PROVE IInv' /\ Kept
<1>1. TypeOK'
    BY DEF IInv, TypeOK, Listen, disk
<1>2. OpenSlots' = OpenSlots
    BY DEF OpenSlots, Listen
<1>3. RegistryInv' /\ RequestInv'
    BY <1>2 DEF IInv, RegistryInv, RequestInv, Listen
<1>4. HeadInv'
    BY <1>2 DEF IInv, HeadInv, RequestInv, ReadHead, Listen, disk
<1>5. RoutedAsNamed' /\ Kept
    BY DEF IInv, TypeOK, NoHead, RoutedAsNamed, Kept, Listen, disk
<1> QED
    BY <1>1, <1>3, <1>4, <1>5 DEF IInv

LEMMA StopInv == ASSUME IInv, Stop PROVE IInv' /\ Kept
<1>1. TypeOK'
    BY DEF IInv, TypeOK, Stop, Down, disk
<1>2. OpenSlots' = {}
    BY DEF OpenSlots, Stop, Down
<1>3. RegistryInv' /\ RequestInv'
    BY <1>2 DEF RegistryInv, RequestInv, Stop, Down
<1>4. HeadInv'
    BY <1>2 DEF IInv, HeadInv, Stop, Down, disk
<1>5. RoutedAsNamed' /\ Kept
    BY DEF IInv, TypeOK, NoHead, RoutedAsNamed, Kept, Stop, disk
<1> QED
    BY <1>1, <1>3, <1>4, <1>5 DEF IInv

\* initialize() only turns a missing head into revision 0.
LEMMA InitializeInv == ASSUME IInv, NEW s \in Slot, Initialize(s) PROVE IInv' /\ Kept
<1> DEFINE d == repo[s].dir
<1>1. s \in OpenSlots /\ OpenSlots \subseteq Slot /\ OpenSlots' = OpenSlots
    BY SlotsTyped DEF IInv, RequestInv, TypeOK, OpenSlots, Initialize
<1>2. repo[s] \in Repo /\ d \in Dir /\ ReadHead(d) \in 0..MaxRev
    BY <1>1, ReadHeadTyped DEF IInv, RegistryInv, Repo
<1>3. head' \in [Dir -> NoHead..MaxRev]
    BY <1>2, RegistryAssumption DEF IInv, TypeOK, NoHead, Initialize
<1>4. /\ repo'[s] = [repo[s] EXCEPT !.rev = ReadHead(d)]
      /\ \A t \in Slot : t # s => repo'[t] = repo[t]
    BY DEF IInv, TypeOK, Initialize
<1>5. repo'[s] \in Repo /\ repo'[s].dir = d /\ repo'[s].rev = ReadHead(d)
    BY <1>2, <1>4 DEF Repo
<1>6. TypeOK'
    BY <1>3, <1>5 DEF IInv, TypeOK, Initialize
<1>7. head'[d] = ReadHead(d) /\ \A e \in Dir : e # d => head'[e] = head[e]
    BY <1>2 DEF IInv, TypeOK, Initialize
<1>8. \A e \in Dir : ReadHead(e)' = ReadHead(e) /\ (head[e] # NoHead => head'[e] = head[e])
    BY <1>2, <1>7 DEF ReadHead
<1>9. head'[d] # NoHead
    BY <1>2, <1>7, RegistryAssumption DEF NoHead
<1>10. RegistryInv'
    BY <1>1, <1>4, <1>5 DEF IInv, RegistryInv, Initialize, DirOf
<1>11. RequestInv'
    BY DEF IInv, RequestInv, Initialize
<1>12. HeadInv'
    <2>1. \A t \in OpenSlots : repo[t] \in Repo /\ repo[t].dir \in Dir
        BY DEF IInv, RegistryInv, Repo
    <2>2. \A t \in OpenSlots : repo'[t].dir = repo[t].dir
        BY <1>1, <1>4, <1>5
    <2>3. ASSUME alone PROVE \A t \in OpenSlots : repo'[t].rev = ReadHead(repo[t].dir)
        BY <1>1, <1>4, <1>5, <2>3 DEF IInv, HeadInv
    <2>4. ASSUME alone PROVE \A t \in OpenSlots \ todo' : head'[repo[t].dir] # NoHead
        BY <1>1, <1>8, <1>9, <2>1, <2>4 DEF IInv, HeadInv, Initialize
    <2> QED
        BY <1>1, <1>8, <2>1, <2>2, <2>3, <2>4 DEF IInv, HeadInv, RequestInv, Initialize
<1>13. RoutedAsNamed' /\ Kept
    BY <1>2, <1>7 DEF IInv, TypeOK, NoHead, ReadHead, RoutedAsNamed, Kept, Initialize
<1> QED
    BY <1>6, <1>10, <1>11, <1>12, <1>13 DEF IInv

-----------------------------------------------------------------------------
(***************************************************************************)
(* Requests.                                                               *)
(***************************************************************************)
LEMMA MergeInv == ASSUME IInv, NEW n \in Name \cup {Unknown}, Merge(n) PROVE IInv' /\ Kept
<1>1. Route(n) \in Slots(serving) /\ Want(n) = DirOf(serving, Route(n))
    BY RouteIsWant DEF IInv, Merge
<1>2. Route(n) \in Slot /\ Want(n) \in Dir
    BY <1>1, SlotsTyped DEF IInv, TypeOK
<1>3. TypeOK'
    BY <1>2 DEF IInv, TypeOK, Merge, disk
<1>4. OpenSlots' = OpenSlots
    BY DEF OpenSlots, Merge
<1>5. RegistryInv'
    BY <1>4 DEF IInv, RegistryInv, Merge
<1>6. RequestInv'
    BY <1>1 DEF IInv, RequestInv, Merge, DirOf
<1>7. HeadInv'
    BY <1>4 DEF IInv, HeadInv, ReadHead, Merge, disk
<1>8. RoutedAsNamed' /\ Kept
    BY DEF IInv, TypeOK, NoHead, RoutedAsNamed, Kept, Merge, disk
<1> QED
    BY <1>3, <1>5, <1>6, <1>7, <1>8 DEF IInv

\* A commit by the server's repository of slot s.
LEMMA ServerStore ==
    ASSUME IInv, NEW s \in OpenSlots, pc = "up",
           Store(repo[s], DirOf(serving, s)),
           repo' = [repo EXCEPT ![s].rev = @ + 1],
           waiting' \subseteq waiting,
           UNCHANGED <<config, pc, serving, todo, served, creating, tool, alone>>
    PROVE  IInv' /\ (alone' => Kept)
<1> DEFINE r == repo[s]
<1>1. OpenSlots \subseteq Slot /\ OpenSlots' = OpenSlots
    BY SlotsTyped DEF IInv, TypeOK, OpenSlots
<1>2. \A t \in OpenSlots : repo[t] \in Repo /\ repo[t].dir \in Dir /\ repo[t].rev \in 0..MaxRev
    BY DEF IInv, RegistryInv, Repo
<1>3. r \in Repo /\ r.dir = DirOf(serving, s) /\ r.dir \in Dir
    BY <1>2 DEF IInv, RegistryInv
<1>4. Store(r, r.dir) /\ TypeOK
    BY <1>3 DEF IInv
<1>5. /\ head' \in [Dir -> NoHead..MaxRev]
      /\ revs' \in [Dir -> [1..MaxRev -> Commit \cup {NoCommit}]]
      /\ made' \in 0..MaxCommits
      /\ r.rev + 1 \in 1..MaxRev
      /\ \A d \in Dir : d # r.dir => head'[d] = head[d] /\ revs'[d] = revs[d]
      /\ head'[r.dir] = r.rev + 1
      /\ \A k \in 1..MaxRev : k # r.rev + 1 => revs'[r.dir][k] = revs[r.dir][k]
    BY <1>3, <1>4, StoreTyped
<1>6. /\ repo'[s] = [r EXCEPT !.rev = @ + 1]
      /\ \A t \in Slot : t # s => repo'[t] = repo[t]
      /\ DOMAIN repo' = Slot
    BY <1>1 DEF IInv, TypeOK
<1>7. repo'[s] \in Repo /\ repo'[s].dir = r.dir /\ repo'[s].rev = r.rev + 1
    BY <1>3, <1>5, <1>6 DEF Repo
<1>8. repo' \in [Slot -> Repo \cup {NoRepo}]
    BY <1>1, <1>6, <1>7 DEF IInv, TypeOK
<1>9. TypeOK'
    BY <1>5, <1>8 DEF IInv, TypeOK
<1>10. RegistryInv'
    BY <1>1, <1>3, <1>6, <1>7 DEF IInv, RegistryInv, DirOf
<1>11. RequestInv'
    BY DEF IInv, RequestInv, DirOf
<1>12. ASSUME alone
       PROVE  /\ tool = NoRepo /\ OneUseEach(serving)
              /\ r.rev = ReadHead(r.dir) /\ head[r.dir] # NoHead
              /\ \A t \in OpenSlots : repo[t].rev = ReadHead(repo[t].dir) /\ head[repo[t].dir] # NoHead
              /\ \A c \in creating : c.fresh =>
                    head[c.dir] \in {NoHead, 0} /\ \A t \in OpenSlots : repo[t].dir # c.dir
    BY <1>12 DEF IInv, HeadInv, RequestInv
<1>13. ASSUME alone PROVE \A t \in OpenSlots : t # s => repo[t].dir # r.dir
    BY <1>12, <1>13 DEF IInv, RegistryInv, OneUseEach, OpenSlots
<1>14. HeadInv'
    <2> SUFFICES ASSUME alone'
                 PROVE  /\ pc' # "down" => tool' = NoRepo /\ OneUseEach(serving)'
                        /\ tool' # NoRepo => tool'.rev = head'[tool'.dir]
                        /\ \A t \in OpenSlots : repo'[t].rev = ReadHead(repo[t].dir)'
                                                /\ repo'[t].dir = repo[t].dir
                        /\ \A t \in OpenSlots : head'[repo[t].dir] # NoHead
                        /\ \A c \in creating : c.fresh =>
                              /\ head'[c.dir] \in {NoHead, 0}
                              /\ \A t \in OpenSlots : repo[t].dir # c.dir
        BY <1>1 DEF HeadInv, ReadHead
    <2>1. alone
        OBVIOUS
    <2>2. \A c \in creating : c.fresh => head'[c.dir] = head[c.dir]
        BY <1>5, <1>12, <2>1 DEF IInv, TypeOK
    <2>3. \A t \in OpenSlots : t # s => head'[repo[t].dir] = head[repo[t].dir] /\ repo'[t] = repo[t]
        BY <1>1, <1>2, <1>5, <1>6, <1>13, <2>1
    <2>4. head'[r.dir] # NoHead
        BY <1>5 DEF NoHead
    <2>5. \A t \in OpenSlots : repo'[t].rev = ReadHead(repo[t].dir)' /\ repo'[t].dir = repo[t].dir
        <3> SUFFICES ASSUME NEW t \in OpenSlots
                     PROVE  /\ repo'[t].rev = IF head'[repo[t].dir] = NoHead THEN 0 ELSE head'[repo[t].dir]
                            /\ repo'[t].dir = repo[t].dir
            BY <1>7, <2>3 DEF ReadHead
        <3>1. CASE t = s
            BY <1>5, <1>7, <2>4, <3>1
        <3>2. CASE t # s
            BY <1>12, <2>1, <2>3, <3>2 DEF ReadHead
        <3> QED
            BY <3>1, <3>2
    <2>6. \A t \in OpenSlots : head'[repo[t].dir] # NoHead
        BY <1>12, <2>1, <2>3, <2>4
    <2>7. \A c \in creating : c.fresh =>
              head'[c.dir] \in {NoHead, 0} /\ \A t \in OpenSlots : repo[t].dir # c.dir
        BY <1>12, <2>1, <2>2
    <2>8. OneUseEach(serving)'
        BY <1>12, <2>1 DEF OneUseEach, DirOf
    <2> QED
        BY <1>12, <2>1, <2>5, <2>6, <2>7, <2>8
<1>15. RoutedAsNamed'
    BY <1>3, <1>4, StoreRouted DEF IInv
<1>16. alone' => Kept
    <2> SUFFICES ASSUME alone', NEW d \in Dir
                 PROVE  head'[d] >= head[d] /\ \A k \in 1..head[d] : revs'[d][k] = revs[d][k]
        BY DEF Kept
    <2>1. head[d] \in NoHead..MaxRev
        BY DEF IInv, TypeOK
    <2>2. CASE d # r.dir
        BY <1>5, <2>1, <2>2 DEF NoHead
    <2>3. CASE d = r.dir
        <3>1. head[d] = r.rev
            BY <1>12, <2>3 DEF ReadHead
        <3> QED
            BY <1>5, <2>1, <2>3, <3>1, RegistryAssumption DEF NoHead
    <2> QED
        BY <2>2, <2>3
<1> QED
    BY <1>9, <1>10, <1>11, <1>14, <1>15, <1>16 DEF IInv

LEMMA CommitMergeInv ==
    ASSUME IInv, NEW w \in waiting, CommitMerge(w) PROVE IInv' /\ (alone' => Kept)
<1>1. w.slot \in OpenSlots /\ w.want = DirOf(serving, w.slot)
    BY DEF IInv, RequestInv, OpenSlots, CommitMerge
<1> QED
    BY <1>1, ServerStore DEF CommitMerge

LEMMA LoadInv == ASSUME IInv, Load PROVE IInv' /\ (alone' => Kept)
<1>1. Single \in OpenSlots /\ DirOf(serving, Single) = RepoRoot
    BY DEF IInv, RegistryInv, Load, Slot, DirOf
<1> QED
    BY <1>1, ServerStore DEF Load

LEMMA BeginCreateInv ==
    ASSUME IInv, NEW n \in Name, NEW d \in Dir, BeginCreate(n, d) PROVE IInv' /\ Kept
<1> DEFINE c == [name |-> n, dir |-> d, fresh |-> head[d] = NoHead]
<1>1. c \in [name : Name, dir : Dir, fresh : BOOLEAN]
    OBVIOUS
<1>2. TypeOK'
    BY <1>1 DEF IInv, TypeOK, BeginCreate, disk
<1>3. OpenSlots' = OpenSlots
    BY DEF OpenSlots, BeginCreate
<1>4. RegistryInv' /\ RequestInv'
    BY <1>3 DEF IInv, RegistryInv, RequestInv, BeginCreate, DirOf
<1>5. HeadInv'
    <2>1. ASSUME alone, c.fresh
          PROVE  head[c.dir] \in {NoHead, 0} /\ \A s \in OpenSlots : repo[s].dir # c.dir
        BY <2>1 DEF IInv, HeadInv, RequestInv, BeginCreate
    <2>2. creating' = creating \cup {c}
        BY DEF BeginCreate
    <2> QED
        BY <1>3, <2>1, <2>2 DEF IInv, HeadInv, ReadHead, BeginCreate, disk
<1>6. RoutedAsNamed' /\ Kept
    BY DEF IInv, TypeOK, NoHead, RoutedAsNamed, Kept, BeginCreate, disk
<1> QED
    BY <1>2, <1>4, <1>5, <1>6 DEF IInv

\* A directory that is created is in no other use and has no revision yet.
LEMMA FinishCreateInv ==
    ASSUME IInv, NEW c \in creating, FinishCreate(c) PROVE IInv' /\ (alone' => Kept)
<1>1. c \in [name : Name, dir : Dir, fresh : BOOLEAN]
    BY DEF IInv, TypeOK
<1>2. head' \in [Dir -> NoHead..MaxRev]
    BY <1>1, RegistryAssumption DEF IInv, TypeOK, NoHead, FinishCreate
<1>3. TypeOK'
    BY <1>2 DEF IInv, TypeOK, FinishCreate
<1>4. OpenSlots' = OpenSlots
    BY DEF OpenSlots, FinishCreate
<1>5. RegistryInv' /\ RequestInv'
    BY <1>4 DEF IInv, RegistryInv, RequestInv, FinishCreate, DirOf
<1>6. \A d \in Dir : IF c.fresh /\ d = c.dir THEN head'[d] = 0 ELSE head'[d] = head[d]
    BY <1>1 DEF IInv, TypeOK, FinishCreate
<1>7. HeadInv'
    <2> SUFFICES ASSUME alone PROVE HeadInv'
        BY DEF HeadInv, FinishCreate
    <2>1. \A s \in OpenSlots : repo[s].dir \in Dir
        BY DEF IInv, RegistryInv, Repo
    <2>2. \A s \in OpenSlots : head'[repo[s].dir] = head[repo[s].dir]
        BY <1>6, <2>1 DEF IInv, HeadInv
    <2>3. \A k \in creating : k.dir \in Dir
        BY DEF IInv, TypeOK
    <2>4. \A k \in creating : head[k.dir] \in {NoHead, 0} => head'[k.dir] \in {NoHead, 0}
        BY <1>6, <2>3
    <2>5. tool = NoRepo /\ OneUseEach(serving)
        BY DEF IInv, HeadInv, RequestInv
    <2> QED
        BY <1>4, <2>2, <2>4, <2>5 DEF IInv, HeadInv, ReadHead, OneUseEach, DirOf, FinishCreate
<1>8. RoutedAsNamed'
    BY DEF IInv, RoutedAsNamed, FinishCreate
<1>9. alone' => Kept
    <2> SUFFICES ASSUME alone PROVE Kept
        BY DEF FinishCreate
    <2>1. c.fresh => head[c.dir] \in {NoHead, 0}
        BY DEF IInv, HeadInv
    <2> QED
        BY <1>6, <2>1 DEF IInv, TypeOK, NoHead, Kept, FinishCreate
<1> QED
    BY <1>3, <1>5, <1>7, <1>8, <1>9 DEF IInv

-----------------------------------------------------------------------------
(***************************************************************************)
(* The command-line tools.                                                 *)
(***************************************************************************)
LEMMA ToolOpenInv == ASSUME IInv, NEW d \in Dir, ToolOpen(d) PROVE IInv' /\ Kept
<1>1. ReadHead(d) \in 0..MaxRev
    BY ReadHeadTyped DEF IInv
<1>2. head' \in [Dir -> NoHead..MaxRev] /\ tool' \in Repo
    BY <1>1, RegistryAssumption DEF IInv, TypeOK, NoHead, Repo, ToolOpen
<1>3. alone' \in BOOLEAN /\ (alone' => alone /\ pc = "down")
    BY DEF ToolOpen
<1>4. TypeOK'
    BY <1>2, <1>3 DEF IInv, TypeOK, ToolOpen, server
<1>5. OpenSlots' = OpenSlots
    BY DEF OpenSlots, ToolOpen, server
<1>6. RegistryInv' /\ RequestInv'
    BY <1>5 DEF IInv, RegistryInv, RequestInv, ToolOpen, server, DirOf
<1>7. head'[d] = ReadHead(d) /\ \A e \in Dir : e # d => head'[e] = head[e]
    BY DEF IInv, TypeOK, ToolOpen
<1>8. HeadInv'
    <2> SUFFICES ASSUME alone' PROVE HeadInv'
        BY DEF HeadInv
    <2>1. pc = "down" /\ pc' = "down" /\ OpenSlots' = {} /\ creating' = {}
        BY <1>3 DEF IInv, RequestInv, OpenSlots, ToolOpen, server
    <2>2. tool'.rev = head'[tool'.dir]
        BY <1>7 DEF ToolOpen
    <2> QED
        BY <2>1, <2>2 DEF HeadInv
<1>9. RoutedAsNamed' /\ Kept
    BY <1>7 DEF IInv, TypeOK, NoHead, ReadHead, RoutedAsNamed, Kept, ToolOpen
<1> QED
    BY <1>4, <1>6, <1>8, <1>9 DEF IInv

LEMMA ToolCommitInv == ASSUME IInv, ToolCommit PROVE IInv' /\ (alone' => Kept)
<1>1. tool \in Repo /\ tool.dir \in Dir /\ tool.rev \in 0..MaxRev /\ TypeOK
    BY DEF IInv, TypeOK, ToolCommit, Repo
<1>2. /\ head' \in [Dir -> NoHead..MaxRev]
      /\ revs' \in [Dir -> [1..MaxRev -> Commit \cup {NoCommit}]]
      /\ made' \in 0..MaxCommits
      /\ tool.rev + 1 \in 1..MaxRev
      /\ \A d \in Dir : d # tool.dir => head'[d] = head[d] /\ revs'[d] = revs[d]
      /\ head'[tool.dir] = tool.rev + 1
      /\ \A k \in 1..MaxRev : k # tool.rev + 1 => revs'[tool.dir][k] = revs[tool.dir][k]
    BY <1>1, StoreTyped DEF ToolCommit
<1>3. tool' \in Repo /\ tool'.dir = tool.dir /\ tool'.rev = tool.rev + 1
    BY <1>1, <1>2 DEF ToolCommit, Repo
<1>4. TypeOK'
    BY <1>2, <1>3 DEF IInv, TypeOK, ToolCommit, server
<1>5. OpenSlots' = OpenSlots
    BY DEF OpenSlots, ToolCommit, server
<1>6. RegistryInv' /\ RequestInv'
    BY <1>5 DEF IInv, RegistryInv, RequestInv, ToolCommit, server, DirOf
<1>7. HeadInv'
    <2> SUFFICES ASSUME alone PROVE HeadInv'
        BY DEF HeadInv, ToolCommit
    <2>1. pc = "down" /\ pc' = "down" /\ OpenSlots' = {} /\ creating' = {}
        BY DEF IInv, HeadInv, RequestInv, OpenSlots, ToolCommit, server
    <2>2. tool'.rev = head'[tool'.dir]
        BY <1>2, <1>3
    <2> QED
        BY <2>1, <2>2 DEF HeadInv
<1>8. RoutedAsNamed'
    BY <1>1, StoreRouted DEF IInv, ToolCommit
<1>9. alone' => Kept
    <2> SUFFICES ASSUME alone PROVE Kept
        BY DEF ToolCommit
    <2>1. tool.rev = head[tool.dir]
        BY DEF IInv, HeadInv, ToolCommit
    <2> SUFFICES ASSUME NEW d \in Dir
                 PROVE  head'[d] >= head[d] /\ \A k \in 1..head[d] : revs'[d][k] = revs[d][k]
        BY DEF Kept
    <2>2. head[d] \in NoHead..MaxRev
        BY DEF IInv, TypeOK
    <2>3. CASE d # tool.dir
        BY <1>2, <2>2, <2>3 DEF NoHead
    <2>4. CASE d = tool.dir
        BY <1>1, <1>2, <2>1, <2>4, RegistryAssumption
    <2> QED
        BY <2>3, <2>4
<1> QED
    BY <1>4, <1>6, <1>7, <1>8, <1>9 DEF IInv

LEMMA ToolCloseInv == ASSUME IInv, ToolClose PROVE IInv' /\ Kept
<1>1. TypeOK'
    BY DEF IInv, TypeOK, ToolClose, disk, server
<1>2. OpenSlots' = OpenSlots
    BY DEF OpenSlots, ToolClose, server
<1>3. RegistryInv' /\ RequestInv'
    BY <1>2 DEF IInv, RegistryInv, RequestInv, ToolClose, server, DirOf
<1>4. HeadInv'
    BY <1>2 DEF IInv, HeadInv, ReadHead, OneUseEach, DirOf, ToolClose, disk, server
<1>5. RoutedAsNamed' /\ Kept
    BY DEF IInv, TypeOK, NoHead, RoutedAsNamed, Kept, ToolClose, disk
<1> QED
    BY <1>1, <1>3, <1>4, <1>5 DEF IInv

LEMMA UnchangedInv == ASSUME IInv, UNCHANGED vars PROVE IInv' /\ Kept
<1>1. TypeOK'
    BY DEF IInv, TypeOK, vars, disk, server
<1>2. OpenSlots' = OpenSlots
    BY DEF OpenSlots, vars, server
<1>3. RegistryInv' /\ RequestInv'
    BY <1>2 DEF IInv, RegistryInv, RequestInv, vars, server, DirOf
<1>4. HeadInv'
    BY <1>2 DEF IInv, HeadInv, ReadHead, OneUseEach, DirOf, vars, disk, server
<1>5. RoutedAsNamed' /\ Kept
    BY DEF IInv, TypeOK, NoHead, RoutedAsNamed, Kept, vars, disk
<1> QED
    BY <1>1, <1>3, <1>4, <1>5 DEF IInv

-----------------------------------------------------------------------------
(***************************************************************************)
(* Every step keeps the invariant, and history where it is promised.       *)
(***************************************************************************)
LEMMA NextInv == IInv /\ [Next]_vars => IInv' /\ (alone' => Kept)
<1> SUFFICES ASSUME IInv, [Next]_vars PROVE IInv' /\ (alone' => Kept)
    OBVIOUS
<1>1. ASSUME NEW c \in Config, Configure(c) PROVE IInv' /\ (alone' => Kept)
    BY <1>1, ConfigureInv
<1>2. CASE Start
    BY <1>2, StartInv
<1>3. ASSUME NEW s \in Slot, Open(s) PROVE IInv' /\ (alone' => Kept)
    BY <1>3, OpenInv
<1>4. CASE Opened
    BY <1>4, OpenedInv
<1>5. ASSUME NEW s \in Slot, Initialize(s) PROVE IInv' /\ (alone' => Kept)
    BY <1>5, InitializeInv
<1>6. CASE Listen
    BY <1>6, ListenInv
<1>7. CASE Stop
    BY <1>7, StopInv
<1>8. ASSUME NEW n \in Name \cup {Unknown}, Merge(n) PROVE IInv' /\ (alone' => Kept)
    BY <1>8, MergeInv
<1>9. ASSUME NEW w \in waiting, CommitMerge(w) PROVE IInv' /\ (alone' => Kept)
    BY <1>9, CommitMergeInv
<1>10. CASE Load
    BY <1>10, LoadInv
<1>11. ASSUME NEW n \in Name, NEW d \in Dir, BeginCreate(n, d) PROVE IInv' /\ (alone' => Kept)
    BY <1>11, BeginCreateInv
<1>12. ASSUME NEW c \in creating, FinishCreate(c) PROVE IInv' /\ (alone' => Kept)
    BY <1>12, FinishCreateInv
<1>13. ASSUME NEW n \in Name, DeleteRepo(n) PROVE IInv' /\ (alone' => Kept)
    BY <1>13, UnchangedInv DEF DeleteRepo
<1>14. ASSUME NEW d \in Dir, ToolOpen(d) PROVE IInv' /\ (alone' => Kept)
    BY <1>14, ToolOpenInv
<1>15. CASE ToolCommit
    BY <1>15, ToolCommitInv
<1>16. CASE ToolClose
    BY <1>16, ToolCloseInv
<1>17. CASE UNCHANGED vars
    BY <1>17, UnchangedInv
<1> QED
    BY <1>1, <1>2, <1>3, <1>4, <1>5, <1>6, <1>7, <1>8, <1>9, <1>10, <1>11, <1>12, <1>13,
       <1>14, <1>15, <1>16, <1>17 DEF Next

-----------------------------------------------------------------------------
(***************************************************************************)
(* Every commit is in the directory its name is configured for, whatever   *)
(* the configurations of successive starts, the management API's calls and *)
(* the tools run beside the server.                                        *)
(***************************************************************************)
THEOREM CommitsRouted == Spec => []RoutedAsNamed
<1>1. IInv => RoutedAsNamed
    BY DEF IInv
<1>2. IInv /\ [Next]_vars => IInv'
    BY NextInv
<1> QED
    BY <1>1, <1>2, InitInv, PTL DEF Spec

(***************************************************************************)
(* As long as no directory is open for two uses, no head goes back and no  *)
(* commit, creation or initialize() touches a published revision.          *)
(***************************************************************************)
THEOREM OneUseKeepsHistory == Spec => HistoryKept
<1>1. IInv /\ [Next]_vars => IInv' /\ [alone' => Kept]_vars
    BY NextInv
<1> QED
    BY <1>1, InitInv, PTL DEF Spec, HistoryKept
=============================================================================
