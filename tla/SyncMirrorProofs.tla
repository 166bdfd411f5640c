--------------------------- MODULE SyncMirrorProofs ---------------------------
(***************************************************************************)
(* Theorems about SyncMirror, for every source, every mix of commands, any *)
(* checkpoint interval and any number of crashes, failures and cleanups,   *)
(* when runs follow one another (Apart).                                   *)
(***************************************************************************)
EXTENDS SyncMirror, FiniteSetTheorems, WellFoundedInduction, TLAPS

Copying == {"fetch", "store", "apply", "commit", "props", "checkpoint"}
Ending == {"end_batch", "log", "complete"}

(***************************************************************************)
(* The numbers: what TypeOK says of everything but trees and objects.      *)
(***************************************************************************)
NumbersOK ==
    /\ setting \in Settings
    /\ srcHead \in 0..MaxRev
    /\ headFile \in 0..MaxHead
    /\ revprops \in [DestRev -> 0..MaxRev]
    /\ writer \in Mirror \cup {Nobody}
    /\ state \in State \cup {None}
    /\ replLog \subseteq (1..MaxRev) \X (1..MaxRev)
    /\ lastMerged \in 0..MaxRev
    /\ pc \in [Mirror -> PC] /\ run \in [Mirror -> Run]
    /\ faulty \in Nat
    /\ origin \in [DestRev -> 0..MaxRev]

(***************************************************************************)
(* The revisions a run has dealt with, and the source revision the         *)
(* destination's head was copied from.                                     *)
(***************************************************************************)
Handled(m) == IF pc[m] \in {"props", "checkpoint"} THEN run[m].cur ELSE run[m].cur - 1
LastOrigin == IF headFile = 0 THEN 0 ELSE origin[headFile]

(***************************************************************************)
(* Revisions up to k are in the destination, and those above the one the   *)
(* head was copied from were skipped.                                      *)
(***************************************************************************)
Covers(k) ==
    /\ \A r \in 1..k : Copied(r)
    /\ \A r \in LastOrigin + 1..k : Skipped(r)

Bounds(m) ==
    /\ pc[m] \in Copying =>
          /\ 1 <= run[m].from /\ run[m].from <= run[m].cur /\ run[m].cur <= run[m].to
          /\ run[m].count <= run[m].cur - run[m].from
    /\ pc[m] \in Ending \cup {"merged"} =>
          1 <= run[m].from /\ run[m].from <= run[m].to /\ run[m].cur = run[m].to + 1
    /\ pc[m] \in {"check_lock", "set_lock", "load"} => run[m].count = 0
    /\ pc[m] = "idle" => run[m] = NoRun
    /\ pc[m] # "idle" => m \in setting.mirrors /\ run[m].kind \in setting.kinds
    /\ pc[m] \in {"props", "checkpoint"} \cup Ending => Local(m)
    /\ pc[m] = "fetch" => ~Local(m)

(***************************************************************************)
(* A pull has committed nothing: it dies where it would.                   *)
(***************************************************************************)
Pulls(m) == pc[m] \in Copying /\ ~Local(m)

BoundsInv == \A m \in Mirror : Bounds(m)

(***************************************************************************)
(* What a run knows, when it is the only one.                              *)
(***************************************************************************)
Knows(m) ==
    /\ pc[m] # "idle" => run[m].rev = headFile
    /\ pc[m] \in Copying \cup Ending =>
          /\ Covers(Handled(m))
          /\ state # None => EffectiveStart(state) <= Handled(m)
    /\ pc[m] = "props" => headFile # 0 /\ origin[headFile] = run[m].cur
    /\ pc[m] = "merged" => \A r \in 1..run[m].to : Copied(r)

(***************************************************************************)
(* The claims, kept so that a new run can rely on them.                    *)
(***************************************************************************)
StateInv == state # None => Covers(EffectiveStart(state))
LogInv ==
    /\ \A l \in replLog : \A r \in l[1]..l[2] : Copied(r)
    /\ \A r \in 1..lastMerged : Copied(r)
WriterInv ==
    writer # Nobody =>
        /\ pc[writer] \in Copying \cup {"end_batch"}
        /\ Local(writer) \/ pc[writer] = "commit"

CopyInv == Apart => StateInv /\ LogInv /\ InOrder /\ \A m \in Mirror : Knows(m)

(***************************************************************************)
(* Why numbers are kept: without faults and skips the destination's head   *)
(* is the number of revisions dealt with, and a run that is not under way  *)
(* left a state that says so.                                              *)
(***************************************************************************)
Straight == Apart /\ faulty = 0 /\ setting.allowEmpty
Start == IF state = None THEN 0 ELSE EffectiveStart(state)
StraightInv ==
    Straight =>
        /\ \A n \in 1..headFile : origin[n] = n
        /\ \A m \in Mirror : pc[m] \in Copying \cup Ending => headFile = Handled(m) /\ state # None
        /\ \A m \in Mirror : Pulls(m) => Start = headFile
        /\ (\A m \in Mirror : pc[m] \notin Copying \cup Ending) => Start = headFile

FiledInv ==
    Apart => \A n \in DestRev : revprops[n] = 0 \/ (n <= headFile /\ revprops[n] = origin[n])

MirrorInv == NumbersOK /\ BoundsInv /\ WriterInv /\ CopyInv /\ StraightInv /\ FiledInv

-----------------------------------------------------------------------------
(***************************************************************************)
(* Facts about the constants, and the types of a run.                      *)
(***************************************************************************)
Basics ==
    /\ MaxHead \in Nat /\ MaxRev \in Nat /\ MaxRev <= MaxHead
    /\ Nobody \notin Mirror
    /\ None \notin State
    /\ \A m \in Mirror :
          /\ pc[m] \in PC /\ run[m] \in Run
          /\ run[m].rev \in 0..MaxHead /\ run[m].last \in 0..MaxRev /\ run[m].from \in 0..MaxRev
          /\ run[m].cur \in 0..MaxRev + 1 /\ run[m].to \in 0..MaxRev /\ run[m].count \in 0..MaxRev
    /\ \A s \in State : s.last \in 0..MaxRev /\ s.checkpoint \in 0..MaxRev \cup {None}
                        /\ EffectiveStart(s) \in 0..MaxRev
    /\ NewState \in State /\ EffectiveStart(NewState) = 0
    /\ NoRun \in Run

LEMMA SourceLength ==
    ASSUME setting \in Settings
    PROVE  MaxRev \in Nat /\ MaxRev <= MaxHead
<1>1. setting.source \in Seq(Delta) /\ Len(setting.source) <= MaxHead
  BY MirrorAssumption
<1>2. Len(setting.source) \in Nat
  BY <1>1
<1> QED BY <1>1, <1>2 DEF MaxRev, source

LEMMA BasicFacts == NumbersOK => Basics
<1> SUFFICES ASSUME NumbersOK PROVE Basics
  OBVIOUS
<1>1. MaxHead \in Nat /\ MaxRev \in Nat /\ MaxRev <= MaxHead
  BY SourceLength, MirrorAssumption DEF NumbersOK
<1>2. None \notin State
  <2>1. \A s \in State : s \in [last : Nat, checkpoint : Nat \cup {None}]
    BY <1>1 DEF State
  <2> QED BY <2>1, MirrorAssumption
<1>3. \A s \in State : s.last \in 0..MaxRev /\ s.checkpoint \in 0..MaxRev \cup {None}
                        /\ EffectiveStart(s) \in 0..MaxRev
  BY DEF State, EffectiveStart
<1>4. NewState \in State /\ EffectiveStart(NewState) = 0
  BY <1>1 DEF State, NewState, EffectiveStart
<1>5. NoRun \in Run
  BY <1>1 DEF NoRun, Run, Kind
<1>6. ASSUME NEW m \in Mirror
      PROVE  /\ pc[m] \in PC /\ run[m] \in Run
             /\ run[m].rev \in 0..MaxHead /\ run[m].last \in 0..MaxRev /\ run[m].from \in 0..MaxRev
             /\ run[m].cur \in 0..MaxRev + 1 /\ run[m].to \in 0..MaxRev /\ run[m].count \in 0..MaxRev
  <2>1. pc[m] \in PC /\ run[m] \in Run
    BY DEF NumbersOK
  <2> QED BY <2>1 DEF Run
<1> QED BY <1>1, <1>2, <1>3, <1>4, <1>5, <1>6, MirrorAssumption DEF Basics

(***************************************************************************)
(* When runs follow one another, one process at most is under way.         *)
(***************************************************************************)
LEMMA OneRun ==
    ASSUME NumbersOK, Apart
    PROVE  \A m, d \in setting.mirrors : m = d
<1>1. setting.mirrors \subseteq Mirror
  BY MirrorAssumption DEF NumbersOK
<1>2. IsFiniteSet(setting.mirrors)
  BY <1>1, FS_Subset, MirrorAssumption
<1>3. \E x : setting.mirrors = {x}
  BY <1>2, FS_Singleton DEF Apart
<1> QED BY <1>3

(***************************************************************************)
(* Nothing but a commit touches the revisions and where they came from; as *)
(* long as they stay, so does what they cover.                             *)
(***************************************************************************)
Frame ==
    /\ MaxRev' = MaxRev /\ State' = State /\ Run' = Run
    /\ Apart' <=> Apart
    /\ \A r : Skipped(r)' <=> Skipped(r)

LEMMA SettingStays == setting' = setting => Frame
BY DEF Frame, MaxRev, source, State, Run, Apart, Skipped, EmptyCommit

Still == /\ Frame
         /\ LastOrigin' = LastOrigin
         /\ \A r : Copied(r)' <=> Copied(r)
         /\ \A k : Covers(k)' <=> Covers(k)

LEMMA StillCovered ==
    ASSUME setting' = setting, headFile' = headFile, origin' = origin
    PROVE  Still
<1>1. Frame
  BY SettingStays
<1>2. LastOrigin' = LastOrigin
  BY DEF LastOrigin
<1>3. \A r : Copied(r)' <=> Copied(r)
  BY <1>1 DEF Copied, Frame
<1>4. \A k : Covers(k)' <=> Covers(k)
  BY <1>1, <1>2, <1>3 DEF Covers, Frame
<1> QED BY <1>1, <1>2, <1>3, <1>4 DEF Still

LEMMA OrderStays ==
    ASSUME setting' = setting, headFile' = headFile, origin' = origin, InOrder
    PROVE  InOrder'
<1>1. Frame
  BY SettingStays
<1> QED BY <1>1 DEF InOrder, Frame

LEMMA ClaimsStay ==
    ASSUME setting' = setting, headFile' = headFile, origin' = origin,
           UNCHANGED <<replLog, lastMerged>>, LogInv
    PROVE  LogInv'
<1>1. Still
  BY StillCovered
<1> QED BY <1>1 DEF LogInv, Still

LEMMA FilingStays ==
    ASSUME setting' = setting, headFile' = headFile, origin' = origin, revprops' = revprops,
           FiledInv
    PROVE  FiledInv'
<1>1. Frame
  BY SettingStays
<1> QED BY <1>1 DEF FiledInv, Frame

LEMMA LastOriginType == NumbersOK => LastOrigin \in 0..MaxRev
<1> SUFFICES ASSUME NumbersOK PROVE LastOrigin \in 0..MaxRev
  OBVIOUS
<1>1. Basics
  BY BasicFacts
<1>2. headFile # 0 => headFile \in DestRev
  BY <1>1 DEF NumbersOK, Basics, DestRev
<1> QED BY <1>1, <1>2 DEF NumbersOK, Basics, LastOrigin

(***************************************************************************)
(* A skipped revision counts as copied.                                    *)
(***************************************************************************)
LEMMA SkipCovers ==
    ASSUME NEW k \in Nat, LastOrigin \in Nat, Covers(k - 1), Skipped(k)
    PROVE  Covers(k)
<1>1. ASSUME NEW r \in 1..k PROVE Copied(r)
  <2>1. r = k \/ r \in 1..k - 1
    OBVIOUS
  <2> QED BY <2>1 DEF Covers, Copied
<1>2. ASSUME NEW r \in LastOrigin + 1..k PROVE Skipped(r)
  <2>1. r = k \/ r \in LastOrigin + 1..k - 1
    OBVIOUS
  <2> QED BY <2>1 DEF Covers
<1> QED BY <1>1, <1>2 DEF Covers

(***************************************************************************)
(* The steps of a process that move it on, or end it, and leave its        *)
(* variables, the revisions and the state alone.                           *)
(***************************************************************************)
Edge(m, l) ==
    \/ l \in {"idle", "unlock"}
    \/ pc[m] = "check_lock" /\ l = "set_lock"
    \/ pc[m] = "set_lock" /\ l = "load"
    \/ pc[m] = "fetch" /\ l = "store"
    \/ pc[m] = "store" /\ l = "apply"
    \/ pc[m] = "store" /\ l = "checkpoint" /\ Skipped(run[m].cur) /\ Local(m)
    \/ pc[m] = "apply" /\ l = "commit"
    \/ pc[m] = "props" /\ l = "checkpoint"
    \/ pc[m] = "end_batch" /\ l = "log"
    \/ pc[m] = "log" /\ l = "complete"

Pass(m, l) ==
    /\ pc[m] # "idle"
    /\ Goto(m, l)
    /\ Edge(m, l)
    /\ UNCHANGED <<setting, srcHead, headFile, origin, state>>

Others(m) == \A d \in Mirror : d # m => pc'[d] = pc[d] /\ run'[d] = run[d]

LEMMA PassMoves ==
    ASSUME MirrorInv, NEW m \in Mirror, NEW l, Pass(m, l)
    PROVE  /\ l \in PC /\ pc'[m] = l
           /\ run'[m] = IF l = "idle" THEN NoRun ELSE run[m]
           /\ Others(m)
           /\ pc' \in [Mirror -> PC] /\ run' \in [Mirror -> Run]
<1>1. l \in PC
  BY DEF Pass, Edge, PC
<1>2. pc \in [Mirror -> PC] /\ run \in [Mirror -> Run] /\ NoRun \in Run
  BY BasicFacts DEF MirrorInv, NumbersOK, Basics
<1> QED BY <1>1, <1>2 DEF Pass, Goto, Others

LEMMA PassBounds ==
    ASSUME MirrorInv, NEW m \in Mirror, NEW l, Pass(m, l)
    PROVE  BoundsInv'
<1>1. /\ pc'[m] = l /\ run'[m] = IF l = "idle" THEN NoRun ELSE run[m]
      /\ Others(m)
  BY PassMoves
<1>2. setting' = setting
  BY DEF Pass
<1>3. \A d \in Mirror : d # m => Bounds(d)'
  BY <1>1, <1>2 DEF MirrorInv, BoundsInv, Bounds, Others, Local
<1>4. Bounds(m)'
  <2>1. CASE l \in {"idle", "unlock"}
    BY <1>1, <1>2, <2>1 DEF MirrorInv, BoundsInv, Bounds, Pass, Copying, Ending, Local
  <2>2. CASE l \notin {"idle", "unlock"}
    BY <1>1, <1>2, <2>2 DEF MirrorInv, BoundsInv, Bounds, Pass, Edge, Copying, Ending, Local
  <2> QED BY <2>1, <2>2
<1> QED BY <1>3, <1>4 DEF BoundsInv

LEMMA Alone ==
    ASSUME NumbersOK, BoundsInv, Apart, NEW m \in Mirror, m \in setting.mirrors
    PROVE  \A d \in Mirror : d # m => pc[d] = "idle"
BY OneRun DEF BoundsInv, Bounds

LEMMA PassKnows ==
    ASSUME MirrorInv, NEW m \in Mirror, NEW l, Pass(m, l), Apart
    PROVE  StateInv' /\ InOrder' /\ \A d \in Mirror : Knows(d)'
<1>1. /\ pc'[m] = l /\ run'[m] = IF l = "idle" THEN NoRun ELSE run[m]
      /\ Others(m)
  BY PassMoves
<1>2. UNCHANGED <<setting, headFile, origin, state>> /\ Still
  BY StillCovered DEF Pass
<1>3. StateInv'
  BY <1>2 DEF MirrorInv, CopyInv, StateInv, Still
<1>4. InOrder'
  BY <1>2, OrderStays DEF MirrorInv, CopyInv
<1>5. \A d \in Mirror : d # m => pc[d] = "idle"
  BY Alone DEF MirrorInv, BoundsInv, Bounds, Pass
<1>6. \A d \in Mirror : d # m => Knows(d)'
  BY <1>1, <1>5 DEF Knows, Others, Copying, Ending
<1>7. Knows(m) /\ Basics /\ LastOrigin \in 0..MaxRev
  BY BasicFacts, LastOriginType DEF MirrorInv, CopyInv
<1>8. Knows(m)'
  <2>1. CASE l \in {"idle", "unlock"}
    BY <1>1, <1>2, <1>7, <2>1 DEF Knows, Pass, Copying, Ending
  <2>2. CASE pc[m] = "store" /\ l = "checkpoint"
    <3>1. Skipped(run[m].cur) /\ Covers(run[m].cur - 1)
      BY <1>7, <2>2 DEF Pass, Edge, Knows, Handled, Copying, Ending
    <3>2. run[m].cur \in Nat /\ LastOrigin \in Nat
      BY <1>7 DEF Basics
    <3>3. Covers(run[m].cur)
      BY <3>1, <3>2, SkipCovers
    <3>4. state # None => EffectiveStart(state) <= run[m].cur - 1 /\ EffectiveStart(state) \in Nat
      BY <1>7, <2>2 DEF Knows, Handled, Copying, Basics, MirrorInv, NumbersOK
    <3>5. Handled(m)' = run[m].cur
      BY <1>1, <2>2 DEF Handled
    <3>6. Covers(Handled(m))'
      BY <3>3, <3>5, <1>2 DEF Still, Frame, Covers
    <3>7. state # None => EffectiveStart(state) <= run[m].cur
      BY <3>2, <3>4
    <3>8. (state # None => EffectiveStart(state) <= Handled(m))'
      BY <1>2, <3>5, <3>7 DEF EffectiveStart
    <3> QED BY <1>1, <1>2, <1>7, <2>2, <3>6, <3>8 DEF Knows, Pass
  <2>3. CASE l \notin {"idle", "unlock"} /\ ~(pc[m] = "store" /\ l = "checkpoint")
    <3>1. run'[m] = run[m] /\ Handled(m)' = Handled(m)
      BY <1>1, <2>3 DEF Handled, Pass, Edge
    <3>2. Covers(Handled(m)) => Covers(Handled(m))'
      BY <1>2, <3>1 DEF Still, Frame, Covers
    <3>3. l # "props" /\ l # "merged" /\ (l \in Copying \cup Ending => pc[m] \in Copying \cup Ending)
      BY <2>3 DEF Pass, Edge, Copying, Ending
    <3> QED BY <1>1, <1>2, <1>7, <2>3, <3>1, <3>2, <3>3 DEF Knows, Pass, EffectiveStart
  <2> QED BY <2>1, <2>2, <2>3
<1> QED BY <1>3, <1>4, <1>6, <1>8

(***************************************************************************)
(* Without faults and skips a run ends early only where a batch begins.    *)
(***************************************************************************)
LEMMA PassStraight ==
    ASSUME MirrorInv, NEW m \in Mirror, NEW l, Pass(m, l),
           faulty' \in Nat, faulty' >= faulty,
           Straight /\ faulty' = 0 =>
              /\ l \in {"idle", "unlock"} => Pulls(m) \/ pc[m] \notin Copying \cup Ending
              /\ ~(pc[m] = "store" /\ l = "checkpoint")
    PROVE  StraightInv'
<1> SUFFICES ASSUME Straight' PROVE StraightInv'
  BY DEF StraightInv
<1>1. UNCHANGED <<setting, headFile, origin, state>> /\ Still
  BY StillCovered DEF Pass
<1>2. Straight /\ faulty' = 0
  BY <1>1 DEF Straight, Still, Frame, MirrorInv, NumbersOK
<1>3. Start' = Start /\ headFile' = headFile
  BY <1>1 DEF Start, EffectiveStart
<1>4. /\ pc'[m] = l /\ run'[m] = IF l = "idle" THEN NoRun ELSE run[m]
      /\ Others(m)
  BY PassMoves
<1>5. \A d \in Mirror : d # m => pc[d] = "idle" /\ pc'[d] = "idle"
  BY <1>2, <1>4, Alone DEF MirrorInv, BoundsInv, Bounds, Pass, Straight, Others
<1>6. /\ \A n \in 1..headFile : origin[n] = n
      /\ pc[m] \in Copying \cup Ending => headFile = Handled(m) /\ state # None
      /\ Pulls(m) => Start = headFile
      /\ pc[m] \notin Copying \cup Ending => Start = headFile
  BY <1>2, <1>5 DEF MirrorInv, StraightInv, Copying, Ending
<1>p. \A d \in Mirror : Pulls(d)' => d = m
  BY <1>5 DEF Pulls, Copying
<1>7. CASE l \in {"idle", "unlock"}
  <2>1. Start = headFile
    BY <1>2, <1>6, <1>7
  <2>2. ~Pulls(m)'
    BY <1>4, <1>7 DEF Pulls, Copying
  <2> QED BY <1>1, <1>3, <1>4, <1>5, <1>6, <1>7, <1>p, <2>1, <2>2 DEF StraightInv, Copying, Ending
<1>8. CASE l \notin {"idle", "unlock"}
  <2>1. (l \in Copying \cup Ending <=> pc[m] \in Copying \cup Ending) /\ run'[m] = run[m]
    BY <1>4, <1>8, <1>2 DEF Pass, Edge, Copying, Ending
  <2>p. Pulls(m)' => Pulls(m)
    BY <1>4, <1>8, <2>1 DEF Pulls, Local, Pass, Edge, Copying
  <2>2. Handled(m)' = Handled(m)
    BY <1>2, <1>4, <1>8 DEF Handled, Pass, Edge
  <2>3. \A d \in Mirror : pc'[d] \in Copying \cup Ending => d = m
    BY <1>5 DEF Copying, Ending
  <2> QED BY <1>1, <1>3, <1>4, <1>5, <1>6, <1>8, <1>p, <2>1, <2>2, <2>3, <2>p DEF StraightInv
<1> QED BY <1>7, <1>8

LEMMA PassKeeps ==
    ASSUME MirrorInv, NEW m \in Mirror, NEW l, Pass(m, l),
           revprops' \in [DestRev -> 0..MaxRev],
           replLog' \subseteq (1..MaxRev) \X (1..MaxRev),
           lastMerged' \in 0..MaxRev,
           Apart => LogInv', FiledInv',
           faulty' \in {faulty, faulty + 1},
           writer' \in {writer, Nobody, m},
           writer' = m => l \in Copying \cup {"end_batch"} /\ (Local(m) \/ l = "commit"),
           Straight /\ faulty' = 0 =>
              /\ l \in {"idle", "unlock"} => Pulls(m) \/ pc[m] \notin Copying \cup Ending
              /\ ~(pc[m] = "store" /\ l = "checkpoint")
    PROVE  MirrorInv'
<1>1. faulty \in Nat /\ faulty' \in Nat /\ faulty' >= faulty
  BY DEF MirrorInv, NumbersOK
<1>2. UNCHANGED <<setting, srcHead, headFile, origin, state>> /\ Still
  BY StillCovered DEF Pass
<1>3. /\ l \in PC /\ pc'[m] = l /\ Others(m)
      /\ pc' \in [Mirror -> PC] /\ run' \in [Mirror -> Run]
  BY PassMoves
<1>4. NumbersOK'
  BY <1>1, <1>2, <1>3 DEF MirrorInv, NumbersOK, Still, Frame
<1>5. WriterInv'
  <2>1. writer' = m => run'[m] = run[m]
    BY PassMoves DEF Copying
  <2>2. \A d \in Mirror : d # m => Local(d)' = Local(d)
    BY <1>3 DEF Others, Local
  <2>3. writer' = m => Local(m)' = Local(m)
    BY <2>1 DEF Local
  <2> QED BY <1>3, <2>2, <2>3 DEF MirrorInv, NumbersOK, WriterInv, Others
<1>6. CopyInv'
  <2> SUFFICES ASSUME Apart' PROVE CopyInv'
    BY DEF CopyInv
  <2>1. Apart
    BY <1>2 DEF Still, Frame
  <2> QED BY <2>1, PassKnows DEF CopyInv
<1>7. StraightInv'
  BY <1>1, PassStraight
<1> QED BY <1>4, <1>5, <1>6, <1>7, PassBounds DEF MirrorInv

LEMMA PassStep ==
    ASSUME MirrorInv, NEW m \in Mirror, NEW l, Pass(m, l),
           UNCHANGED <<revprops, replLog, lastMerged>>,
           faulty' \in {faulty, faulty + 1},
           writer' \in {writer, Nobody, m},
           writer' = m => l \in Copying \cup {"end_batch"} /\ (Local(m) \/ l = "commit"),
           Straight /\ faulty' = 0 =>
              /\ l \in {"idle", "unlock"} => Pulls(m) \/ pc[m] \notin Copying \cup Ending
              /\ ~(pc[m] = "store" /\ l = "checkpoint")
    PROVE  MirrorInv'
<1>1. faulty \in Nat /\ faulty' \in Nat /\ faulty' >= faulty
  BY DEF MirrorInv, NumbersOK
<1>2. UNCHANGED <<setting, headFile, origin>>
  BY DEF Pass
<1>3. /\ revprops' \in [DestRev -> 0..MaxRev]
      /\ replLog' \subseteq (1..MaxRev) \X (1..MaxRev)
      /\ lastMerged' \in 0..MaxRev
  BY DEF MirrorInv, NumbersOK
<1>4. Apart => LogInv'
  BY <1>2, ClaimsStay DEF MirrorInv, CopyInv
<1>5. FiledInv'
  BY <1>2, FilingStays DEF MirrorInv
<1> QED BY <1>3, <1>4, <1>5, PassKeeps

LEMMA AfterRunEnds == \A m \in Mirror : AfterRun(m) \in {"idle", "unlock"}
BY DEF AfterRun

LEMMA WriterIsCopying ==
    ASSUME MirrorInv, NEW m \in Mirror, writer = m
    PROVE  pc[m] \in Copying \cup {"end_batch"} /\ (Local(m) \/ pc[m] = "commit")
BY MirrorAssumption DEF MirrorInv, WriterInv

(***************************************************************************)
(* The steps that pass.                                                    *)
(***************************************************************************)
LEMMA CommandStep ==
    ASSUME MirrorInv, NEW m \in Mirror,
           CheckLock(m) \/ SetLock(m) \/ ReleaseLock(m) \/ LoadFails(m)
    PROVE  MirrorInv'
<1> USE DEF sourceVars, files, db, props, history
<1>1. pc[m] \in {"check_lock", "set_lock", "unlock", "load"}
  BY DEF CheckLock, SetLock, ReleaseLock, LoadFails
<1>2. UNCHANGED <<setting, srcHead, headFile, origin, state, revprops, replLog, lastMerged, faulty, writer>>
  BY DEF CheckLock, SetLock, ReleaseLock, LoadFails
<1>3. \E l : Goto(m, l) /\ Edge(m, l)
  BY AfterRunEnds DEF CheckLock, SetLock, ReleaseLock, LoadFails, Edge
<1>4. PICK l : Pass(m, l)
  BY <1>1, <1>2, <1>3 DEF Pass
<1>5. writer' # m
  BY <1>1, <1>2, WriterIsCopying DEF Copying
<1>6. pc[m] \notin Copying \cup Ending /\ pc[m] # "store"
  BY <1>1 DEF Copying, Ending
<1> QED BY <1>2, <1>4, <1>5, <1>6, PassStep

LEMMA CopyingStep ==
    ASSUME MirrorInv, NEW m \in Mirror,
           Fetch(m) \/ StoreObjects(m) \/ ApplyChanges(m) \/ EndBatch(m)
    PROVE  MirrorInv'
<1> USE DEF sourceVars, files, db, props, history
<1>1. UNCHANGED <<setting, srcHead, headFile, origin, state, revprops, replLog, lastMerged, faulty>>
  BY DEF Fetch, StoreObjects, ApplyChanges, EndBatch
<1>2. CASE Fetch(m)
  <2>1. Pass(m, "store") /\ writer' = writer /\ pc[m] = "fetch"
    BY <1>1, <1>2 DEF Fetch, Pass, Edge
  <2> QED BY <1>1, <2>1, PassStep, WriterIsCopying DEF Copying
<1>3. CASE StoreObjects(m) /\ Skipped(run[m].cur) /\ Local(m)
  <2>1. Pass(m, "checkpoint") /\ writer' = writer
    BY <1>1, <1>3 DEF StoreObjects, Pass, Edge
  <2>2. ~Straight
    BY <1>3 DEF StoreObjects, Straight, Skipped, Local, MirrorInv, BoundsInv, Bounds
  <2> QED BY <1>1, <1>3, <2>1, <2>2, PassStep DEF Copying
<1>4. CASE StoreObjects(m) /\ ~(Skipped(run[m].cur) /\ Local(m))
  <2>1. Pass(m, "apply") /\ writer' = writer /\ pc[m] = "store"
    BY <1>1, <1>4 DEF StoreObjects, Pass, Edge
  <2> QED BY <1>1, <2>1, PassStep, WriterIsCopying DEF Copying
<1>5. CASE ApplyChanges(m)
  <2>1. Pass(m, "commit") /\ writer' = m
    BY <1>1, <1>5 DEF ApplyChanges, Pass, Edge
  <2> QED BY <1>1, <2>1, PassStep DEF Copying
<1>6. CASE EndBatch(m)
  <2>1. Pass(m, "log") /\ writer' \in {writer, Nobody} /\ writer' # m
    BY <1>1, <1>6, MirrorAssumption DEF EndBatch, Pass, Edge
  <2> QED BY <1>1, <2>1, PassStep
<1> QED BY <1>2, <1>3, <1>4, <1>5, <1>6

(***************************************************************************)
(* A run that ends before its time.                                        *)
(***************************************************************************)
LEMMA AbortStep ==
    ASSUME MirrorInv, NEW m \in Mirror,
           Crash(m) \/ Fail(m) \/ HashMismatch(m) \/ CommitPanics(m) \/ GiveUp(m)
    PROVE  MirrorInv'
<1> USE DEF sourceVars, files, db, props, history
<1>1. UNCHANGED <<setting, srcHead, headFile, origin, state, revprops, replLog, lastMerged>>
  BY DEF Crash, Fail, HashMismatch, CommitPanics, GiveUp
<1>2. \E l \in {"idle", "unlock"} : Goto(m, l)
  BY AfterRunEnds DEF Crash, Fail, HashMismatch, CommitPanics, GiveUp
<1>3. pc[m] # "idle"
  BY DEF Crash, Fail, HashMismatch, CommitPanics, GiveUp, InSync
<1>4. PICK l \in {"idle", "unlock"} : Pass(m, l)
  BY <1>1, <1>2, <1>3 DEF Pass, Edge
<1>5. writer' \in {writer, Nobody} /\ writer' # m
  <2>1. CASE HashMismatch(m)
    BY <2>1, WriterIsCopying DEF HashMismatch
  <2>2. CASE ~HashMismatch(m)
    BY <2>2, MirrorAssumption DEF Crash, Fail, CommitPanics, GiveUp, Rollback
  <2> QED BY <2>1, <2>2
<1>6. CASE Crash(m) \/ Fail(m)
  <2>1. faulty' = faulty + 1 /\ faulty' # 0
    BY <1>6 DEF Crash, Fail, MirrorInv, NumbersOK
  <2> QED BY <1>1, <1>4, <1>5, <2>1, PassStep
<1>7. CASE GiveUp(m)
  <2>1. faulty' = faulty
    BY <1>7 DEF GiveUp
  <2>2. CASE pc[m] = "fetch"
    <3>1. Pulls(m)
      BY <2>2 DEF Pulls, Copying, MirrorInv, BoundsInv, Bounds
    <3> QED BY <1>1, <1>4, <1>5, <2>1, <2>2, <3>1, PassStep
  <2>3. CASE pc[m] = "apply" /\ writer \notin {Nobody, m}
    <3>1. writer \in Mirror /\ pc[writer] # "idle"
      BY <2>3 DEF MirrorInv, NumbersOK, WriterInv, Copying
    <3>2. ~Apart
      BY <2>3, <3>1, Alone DEF MirrorInv, BoundsInv, Bounds
    <3> QED BY <1>1, <1>4, <1>5, <2>1, <3>2, PassStep DEF Straight
  <2> QED BY <1>7, <2>2, <2>3 DEF GiveUp
<1>8. CASE HashMismatch(m) \/ CommitPanics(m)
  <2>1. faulty' = faulty /\ Pulls(m)
    BY <1>8 DEF HashMismatch, CommitPanics, Pulls, Copying
  <2> QED BY <1>1, <1>4, <1>5, <2>1, PassStep DEF Copying
<1> QED BY <1>6, <1>7, <1>8

(***************************************************************************)
(* The steps that file something.                                          *)
(***************************************************************************)
LEMMA FileStep ==
    ASSUME MirrorInv, NEW m \in Mirror,
           AppendLog(m) \/ SetLastMerged(m) \/ SaveRevprops(m)
    PROVE  MirrorInv'
<1> USE DEF sourceVars, files, db, props, history
<1>0. Basics
  BY BasicFacts DEF MirrorInv
<1>1. /\ pc[m] \in {"log", "merged", "props"}
      /\ UNCHANGED <<setting, srcHead, headFile, origin, state, faulty, writer>>
  BY DEF AppendLog, SetLastMerged, SaveRevprops
<1>2. Still
  BY <1>1, StillCovered
<1>3. Bounds(m) /\ (Apart => Knows(m) /\ LogInv)
  BY DEF MirrorInv, BoundsInv, CopyInv
<1>4. CASE AppendLog(m)
  <2>1. Pass(m, "complete") /\ UNCHANGED <<revprops, lastMerged>> /\ pc[m] = "log"
        /\ replLog' = replLog \cup {<<run[m].from, run[m].to>>}
    BY <1>1, <1>4 DEF AppendLog, Pass, Edge
  <2>2. run[m].from \in 1..MaxRev /\ run[m].to \in 1..MaxRev /\ run[m].cur = run[m].to + 1
    BY <1>0, <1>3, <2>1 DEF Basics, Bounds, Ending
  <2>3. replLog' \subseteq (1..MaxRev) \X (1..MaxRev)
    BY <2>1, <2>2 DEF MirrorInv, NumbersOK
  <2>4. Apart => LogInv'
    <3> SUFFICES ASSUME Apart PROVE LogInv'
      OBVIOUS
    <3>1. Handled(m) = run[m].to
      BY <2>1, <2>2, <1>0 DEF Handled, Basics
    <3>2. \A r \in 1..run[m].to : Copied(r)
      BY <1>3, <2>1, <3>1 DEF Knows, Covers, Ending
    <3>3. \A r \in run[m].from..run[m].to : Copied(r)
      BY <2>2, <3>2
    <3>4. \A k \in replLog' : k \in replLog \/ (k[1] = run[m].from /\ k[2] = run[m].to)
      BY <2>1
    <3> QED BY <1>2, <1>3, <2>1, <3>3, <3>4 DEF LogInv, Still
  <2>5. FiledInv'
    BY <1>1, <2>1, FilingStays DEF MirrorInv
  <2>6. writer # m
    BY <2>1, WriterIsCopying DEF Copying
  <2>7. revprops' \in [DestRev -> 0..MaxRev] /\ lastMerged' \in 0..MaxRev
    BY <2>1 DEF MirrorInv, NumbersOK
  <2> QED BY <1>1, <2>1, <2>3, <2>4, <2>5, <2>6, <2>7, PassKeeps
<1>5. CASE SetLastMerged(m)
  <2>1. /\ pc[m] = "merged" /\ UNCHANGED <<revprops, replLog>>
        /\ lastMerged' \in {lastMerged, run[m].to}
    BY <1>5 DEF SetLastMerged
  <2>2. PICK l \in {"idle", "unlock"} : Pass(m, l)
    BY <1>1, <1>5, <2>1, AfterRunEnds DEF SetLastMerged, Pass, Edge
  <2>3. /\ revprops' \in [DestRev -> 0..MaxRev]
        /\ replLog' \subseteq (1..MaxRev) \X (1..MaxRev)
        /\ lastMerged' \in 0..MaxRev
    BY <1>0, <2>1 DEF MirrorInv, NumbersOK, Basics
  <2>4. Apart => LogInv'
    BY <1>2, <1>3, <2>1 DEF LogInv, Still, Knows
  <2>5. FiledInv'
    BY <1>1, <2>1, FilingStays DEF MirrorInv
  <2>6. writer # m /\ pc[m] \notin Copying \cup Ending
    BY <2>1, WriterIsCopying DEF Copying, Ending
  <2> QED BY <1>1, <2>1, <2>2, <2>3, <2>4, <2>5, <2>6, PassKeeps
<1>6. CASE SaveRevprops(m)
  <2>1. /\ Pass(m, "checkpoint") /\ UNCHANGED <<lastMerged, replLog>> /\ pc[m] = "props"
        /\ revprops' = [revprops EXCEPT ![run[m].rev] = run[m].cur]
    BY <1>1, <1>6 DEF SaveRevprops, Pass, Edge
  <2>2. run[m].cur \in 0..MaxRev
    BY <1>0, <1>3, <2>1 DEF Basics, Bounds, Copying
  <2>3. /\ revprops' \in [DestRev -> 0..MaxRev]
        /\ replLog' \subseteq (1..MaxRev) \X (1..MaxRev)
        /\ lastMerged' \in 0..MaxRev
    BY <2>1, <2>2 DEF MirrorInv, NumbersOK
  <2>4. Apart => LogInv'
    BY <1>1, <1>3, <2>1, ClaimsStay
  <2>5. FiledInv'
    <3> SUFFICES ASSUME Apart', NEW n \in DestRev
                 PROVE  (revprops[n] = 0 \/ (n <= headFile /\ revprops[n] = origin[n]))'
      BY DEF FiledInv
    <3>1. Apart
      BY <1>2 DEF Still, Frame
    <3>2. revprops[n] = 0 \/ (n <= headFile /\ revprops[n] = origin[n])
      BY <3>1 DEF MirrorInv, FiledInv
    <3>3. /\ run[m].rev = headFile /\ headFile # 0 /\ origin[headFile] = run[m].cur
          /\ headFile \in Nat /\ headFile <= headFile
      BY <1>3, <2>1, <3>1, <1>0 DEF Knows, MirrorInv, NumbersOK, Basics
    <3>5. n = headFile => revprops'[n] = run[m].cur
      BY <2>1, <3>3 DEF MirrorInv, NumbersOK
    <3>6. n # headFile => revprops'[n] = revprops[n]
      BY <2>1, <3>3 DEF MirrorInv, NumbersOK
    <3> QED BY <1>1, <3>2, <3>3, <3>5, <3>6
  <2>6. writer' \in {writer, Nobody, m} /\ "checkpoint" \in Copying /\ Local(m)
    BY <1>1, <1>3, <2>1 DEF Copying, Bounds
  <2> QED BY <1>1, <2>1, <2>3, <2>4, <2>5, <2>6, PassKeeps
<1> QED BY <1>4, <1>5, <1>6

(***************************************************************************)
(* A new state claims nothing.                                             *)
(***************************************************************************)
LEMMA NothingCovered ==
    ASSUME NumbersOK, Still, EffectiveStart(state)' = 0
    PROVE  Covers(EffectiveStart(state))'
<1>1. LastOrigin \in Nat
  BY BasicFacts, LastOriginType DEF Basics
<1>2. Covers(0)
  BY <1>1 DEF Covers
<1>3. 1..0 = {}
  OBVIOUS
<1>4. \A r \in LastOrigin' + 1..0 : Skipped(r)'
  BY <1>2 DEF Still, Frame, Covers
<1> QED BY <1>3, <1>4 DEF Covers

-----------------------------------------------------------------------------
(***************************************************************************)
(* What happens around the runs: the source commits, sync is disabled, the *)
(* mirror is initialised or cleaned up.                                    *)
(***************************************************************************)
LEMMA AroundStep ==
    ASSUME MirrorInv, SourceCommit \/ SetConfig \/ InitMirror \/ Cleanup
    PROVE  MirrorInv'
<1> USE DEF sourceVars, files, db, props, history
<1>0. Basics
  BY BasicFacts DEF MirrorInv
<1>1. UNCHANGED <<setting, headFile, origin, revprops, pc, run, writer>>
  BY DEF SourceCommit, SetConfig, InitMirror, Cleanup
<1>2. Still
  BY <1>1, StillCovered
<1>3. /\ srcHead' \in 0..MaxRev
      /\ state' \in {state, NewState, None}
      /\ replLog' \in {replLog, {}}
      /\ lastMerged' \in {lastMerged, 0}
      /\ faulty' \in {faulty, faulty + 1}
  BY <1>0 DEF SourceCommit, SetConfig, InitMirror, Cleanup, MirrorInv, NumbersOK, Basics
<1>4. NumbersOK'
  <2>1. faulty' \in Nat
    BY <1>3 DEF MirrorInv, NumbersOK
  <2>2. lastMerged' \in 0..MaxRev /\ replLog' \subseteq (1..MaxRev) \X (1..MaxRev)
    BY <1>0, <1>3 DEF MirrorInv, NumbersOK, Basics
  <2>3. state' \in State \cup {None}
    BY <1>0, <1>3 DEF MirrorInv, NumbersOK, Basics
  <2> QED BY <1>1, <1>2, <1>3, <2>1, <2>2, <2>3 DEF MirrorInv, NumbersOK, Still, Frame
<1>5. BoundsInv' /\ WriterInv'
  BY <1>1 DEF MirrorInv, BoundsInv, Bounds, WriterInv, Local
<1>6. CopyInv'
  <2> SUFFICES ASSUME Apart' PROVE CopyInv'
    BY DEF CopyInv
  <2>1. StateInv /\ LogInv /\ InOrder /\ \A m \in Mirror : Knows(m)
    BY <1>2 DEF Still, Frame, MirrorInv, CopyInv
  <2>2. InOrder'
    BY <1>1, <2>1, OrderStays
  <2>3. LogInv'
    BY <1>2, <1>3, <2>1 DEF LogInv, Still
  <2>4. state' = NewState => EffectiveStart(state') = 0
    BY <1>0 DEF Basics
  <2>5. StateInv'
    <3>1. CASE state' = state
      BY <1>2, <2>1, <3>1 DEF StateInv, Still, Frame, Covers, EffectiveStart
    <3>2. CASE state' = None
      BY <3>2 DEF StateInv
    <3>3. CASE state' = NewState
      <4>1. EffectiveStart(state)' = 0
        BY <2>4, <3>3 DEF EffectiveStart
      <4> QED BY <1>2, <4>1, NothingCovered DEF StateInv, MirrorInv
    <3> QED BY <1>3, <3>1, <3>2, <3>3
  <2>6. ASSUME NEW m \in Mirror PROVE Knows(m)'
    <3>1. Handled(m)' = Handled(m)
      BY <1>1 DEF Handled
    <3>2. pc[m] \in Copying \cup Ending => Handled(m) \in Nat
      BY <1>0 DEF MirrorInv, BoundsInv, Bounds, Handled, Basics, Copying, Ending
    <3>3. Covers(Handled(m)) => Covers(Handled(m))'
      BY <1>2, <3>1 DEF Covers, Still, Frame
    <3>4. pc[m] \in Copying \cup Ending => (state # None => EffectiveStart(state) <= Handled(m))'
      <4>1. CASE state' = state
        BY <2>1, <3>1, <4>1 DEF Knows, EffectiveStart
      <4>2. CASE state' = None
        BY <4>2
      <4>3. CASE state' = NewState
        BY <2>4, <3>1, <3>2, <4>3 DEF EffectiveStart
      <4> QED BY <1>3, <4>1, <4>2, <4>3
    <3>5. (\A r \in 1..run[m].to : Copied(r)) => (\A r \in 1..run[m].to : Copied(r))'
      BY <1>1, <1>2 DEF Still
    <3> QED BY <1>1, <2>1, <3>3, <3>4, <3>5 DEF Knows
  <2> QED BY <2>2, <2>3, <2>5, <2>6 DEF CopyInv
<1>7. StraightInv'
  <2> SUFFICES ASSUME Straight' PROVE StraightInv'
    BY DEF StraightInv
  <2>1. faulty' = 0 /\ faulty \in Nat
    BY DEF Straight, MirrorInv, NumbersOK
  <2>2. faulty = 0 /\ ~Cleanup
    BY <1>3, <2>1 DEF Cleanup
  <2>3. Straight
    BY <1>1, <1>2, <2>2 DEF Straight, Still, Frame
  <2>4. state' = state \/ (state = None /\ state' = NewState)
    BY <2>2 DEF SourceCommit, SetConfig, InitMirror
  <2>5. Start' = Start /\ (state # None => state' # None)
    BY <2>4, <1>0 DEF Start, EffectiveStart, Basics
  <2>6. \A m \in Mirror : Handled(m)' = Handled(m) /\ Pulls(m)' = Pulls(m)
    BY <1>1 DEF Handled, Pulls, Local
  <2> QED BY <1>1, <2>3, <2>5, <2>6 DEF MirrorInv, StraightInv
<1>8. FiledInv'
  BY <1>1, FilingStays DEF MirrorInv
<1> QED BY <1>4, <1>5, <1>6, <1>7, <1>8 DEF MirrorInv

(***************************************************************************)
(* A command starts from the head as it is.                                *)
(***************************************************************************)
LEMMA OpenStep ==
    ASSUME MirrorInv, NEW m \in Mirror, NEW k \in Kind, Open(m, k)
    PROVE  MirrorInv'
<1> USE DEF sourceVars, files, db, props, history
<1>0. Basics
  BY BasicFacts DEF MirrorInv
<1>1. /\ UNCHANGED <<setting, srcHead, headFile, origin, revprops, writer, state, replLog, lastMerged, faulty>>
      /\ pc[m] = "idle" /\ m \in setting.mirrors /\ k \in setting.kinds
      /\ pc' = [pc EXCEPT ![m] = IF k = "svnsync" THEN "check_lock" ELSE "load"]
  BY DEF Open
<1>2. Still
  BY <1>1, StillCovered
<1>3. run[m] = NoRun /\ pc \in [Mirror -> PC] /\ run \in [Mirror -> Run] /\ headFile \in 0..MaxHead
  BY <1>1 DEF MirrorInv, BoundsInv, Bounds, NumbersOK
<1>4. run' = [run EXCEPT ![m] = [run[m] EXCEPT !.kind = k, !.rev = headFile]]
  BY DEF Open
<1>5. /\ run'[m] \in Run /\ run'[m].rev = headFile /\ run'[m].kind = k /\ run'[m].count = 0
      /\ run' \in [Mirror -> Run]
  <2> DEFINE new == [NoRun EXCEPT !.kind = k, !.rev = headFile]
  <2>1. new \in Run /\ new.rev = headFile /\ new.kind = k /\ new.count = 0
    BY <1>0, <1>3 DEF Basics, Run, NoRun
  <2> HIDE DEF new
  <2>2. run' = [run EXCEPT ![m] = new]
    BY <1>3, <1>4 DEF new
  <2> QED BY <1>3, <2>1, <2>2
<1>6. /\ pc'[m] \in {"check_lock", "load"} /\ Others(m) /\ pc' \in [Mirror -> PC]
  BY <1>1, <1>3, <1>4 DEF Others, PC
<1>7. NumbersOK'
  BY <1>1, <1>2, <1>5, <1>6 DEF MirrorInv, NumbersOK, Still, Frame
<1>8. BoundsInv'
  <2>1. Bounds(m)'
    BY <1>1, <1>5, <1>6 DEF Bounds, Copying, Ending, Local
  <2>2. \A d \in Mirror : d # m => Bounds(d)'
    BY <1>1, <1>6 DEF MirrorInv, BoundsInv, Bounds, Others, Local
  <2> QED BY <2>1, <2>2 DEF BoundsInv
<1>9. WriterInv'
  <2>1. writer # m
    BY <1>1, WriterIsCopying DEF Copying
  <2> QED BY <1>1, <1>6, <2>1 DEF MirrorInv, NumbersOK, WriterInv, Others, Local
<1>10. Apart => \A d \in Mirror : d # m => pc[d] = "idle" /\ pc'[d] = "idle"
  BY <1>1, <1>6, Alone DEF MirrorInv, Others
<1>11. CopyInv'
  <2> SUFFICES ASSUME Apart' PROVE CopyInv'
    BY DEF CopyInv
  <2>1. Apart /\ StateInv /\ LogInv /\ InOrder
    BY <1>2 DEF Still, Frame, MirrorInv, CopyInv
  <2>2. InOrder' /\ LogInv'
    BY <1>1, <2>1, OrderStays, ClaimsStay
  <2>3. StateInv'
    BY <1>1, <1>2, <2>1 DEF StateInv, Still, Frame, Covers, EffectiveStart
  <2>4. \A d \in Mirror : d # m => Knows(d)'
    BY <1>10, <2>1 DEF Knows, Copying, Ending
  <2>5. Knows(m)'
    BY <1>1, <1>5, <1>6 DEF Knows, Copying, Ending
  <2> QED BY <2>2, <2>3, <2>4, <2>5 DEF CopyInv
<1>12. StraightInv'
  <2> SUFFICES ASSUME Straight' PROVE StraightInv'
    BY DEF StraightInv
  <2>1. Straight /\ Apart
    BY <1>1, <1>2 DEF Straight, Still, Frame
  <2>2. \A d \in Mirror : pc[d] = "idle"
    BY <1>1, <1>10, <2>1
  <2>3. Start = headFile /\ Start' = Start
    BY <1>1, <2>1, <2>2 DEF MirrorInv, StraightInv, Copying, Ending, Start, EffectiveStart
  <2>4. \A d \in Mirror : pc'[d] \notin Copying \cup Ending
    BY <1>6, <1>10, <2>1 DEF Copying, Ending
  <2>5. \A n \in 1..headFile : origin[n] = n
    BY <2>1 DEF MirrorInv, StraightInv
  <2> QED BY <1>1, <2>3, <2>4, <2>5 DEF StraightInv, Pulls
<1>13. FiledInv'
  BY <1>1, FilingStays DEF MirrorInv
<1> QED BY <1>7, <1>8, <1>9, <1>11, <1>12, <1>13 DEF MirrorInv

(***************************************************************************)
(* The range of a run begins above what the state says is copied.          *)
(***************************************************************************)
LEMMA LoadStep ==
    ASSUME MirrorInv, NEW m \in Mirror, LoadState(m)
    PROVE  MirrorInv'
<1> USE DEF sourceVars, files, db, props, history
<1>0. Basics
  BY BasicFacts DEF MirrorInv
<1>1. /\ UNCHANGED <<setting, srcHead, headFile, origin, revprops, writer, replLog, lastMerged, faulty>>
      /\ pc[m] = "load"
      /\ (state # None /\ state' = state) \/ (state = None /\ state' = NewState)
  BY DEF LoadState
<1>2. Still
  BY <1>1, StillCovered
<1> DEFINE first == EffectiveStart(state') + 1
<1>3. /\ state' \in State /\ state' # None /\ EffectiveStart(state') \in 0..MaxRev
      /\ first \in 1..MaxRev + 1 /\ Start = EffectiveStart(state') /\ Start' = Start
      /\ LastOrigin \in 0..MaxRev /\ MaxRev \in Nat
  <2>1. state' \in State /\ state' # None
    BY <1>0, <1>1 DEF MirrorInv, NumbersOK, Basics
  <2>2. EffectiveStart(state') \in 0..MaxRev /\ MaxRev \in Nat
    BY <1>0, <2>1 DEF Basics
  <2>3. LastOrigin \in 0..MaxRev
    BY LastOriginType DEF MirrorInv
  <2>4. Start = EffectiveStart(state') /\ Start' = Start
    BY <1>0, <1>1, <2>1 DEF Start, Basics, EffectiveStart
  <2> QED BY <2>1, <2>2, <2>3, <2>4
<1>4. pc \in [Mirror -> PC] /\ run \in [Mirror -> Run] /\ run[m].count = 0
      /\ srcHead \in 0..MaxRev /\ m \in setting.mirrors /\ run[m].kind \in setting.kinds
  BY <1>1 DEF MirrorInv, BoundsInv, Bounds, NumbersOK
<1>s. EffectiveStart(state)' = EffectiveStart(state')
  BY DEF EffectiveStart
<1>5. CASE first > srcHead /\ Goto(m, AfterRun(m))
  <2>1. PICK l \in {"idle", "unlock"} : Goto(m, l)
    BY <1>5, AfterRunEnds
  <2>2. /\ pc'[m] = l /\ Others(m) /\ pc' \in [Mirror -> PC] /\ run' \in [Mirror -> Run]
        /\ run'[m] = IF l = "idle" THEN NoRun ELSE run[m]
    BY <1>0, <1>4, <2>1 DEF Goto, Others, PC, Basics
  <2>3. NumbersOK'
    BY <1>1, <1>2, <1>3, <2>2 DEF MirrorInv, NumbersOK, Still, Frame
  <2>4. BoundsInv'
    <3>1. Bounds(m)'
      BY <1>1, <1>4, <2>2 DEF Bounds, Copying, Ending, Local
    <3>2. \A d \in Mirror : d # m => Bounds(d)'
      BY <1>1, <2>2 DEF MirrorInv, BoundsInv, Bounds, Others, Local
    <3> QED BY <3>1, <3>2 DEF BoundsInv
  <2>5. WriterInv'
    <3>1. writer # m
      BY <1>1, WriterIsCopying DEF Copying
    <3> QED BY <1>1, <2>2, <3>1 DEF MirrorInv, NumbersOK, WriterInv, Others, Local
  <2>6. Apart => \A d \in Mirror : d # m => pc[d] = "idle" /\ pc'[d] = "idle"
    BY <1>4, <2>2, Alone DEF MirrorInv, Others
  <2>7. CopyInv'
    <3> SUFFICES ASSUME Apart' PROVE CopyInv'
      BY DEF CopyInv
    <3>1. Apart /\ StateInv /\ LogInv /\ InOrder /\ Knows(m)
      BY <1>2 DEF Still, Frame, MirrorInv, CopyInv
    <3>2. InOrder' /\ LogInv'
      BY <1>1, <3>1, OrderStays, ClaimsStay
    <3>3. StateInv'
      <4>1. CASE state' = state
        BY <1>2, <3>1, <4>1 DEF StateInv, Still, Frame, Covers, EffectiveStart
      <4>2. CASE state' = NewState
        <5>1. EffectiveStart(state)' = 0
          BY <1>0, <1>s, <4>2 DEF Basics
        <5> QED BY <1>2, <5>1, NothingCovered DEF StateInv, MirrorInv
      <4> QED BY <1>1, <4>1, <4>2
    <3>4. \A d \in Mirror : d # m => Knows(d)'
      BY <2>6, <3>1 DEF Knows, Copying, Ending
    <3>5. Knows(m)'
      BY <1>1, <2>2, <3>1 DEF Knows, Copying, Ending
    <3> QED BY <3>2, <3>3, <3>4, <3>5 DEF CopyInv
  <2>8. StraightInv'
    <3> SUFFICES ASSUME Straight' PROVE StraightInv'
      BY DEF StraightInv
    <3>1. Straight /\ Apart
      BY <1>1, <1>2 DEF Straight, Still, Frame
    <3>2. Start = headFile
      BY <1>1, <2>6, <3>1 DEF MirrorInv, StraightInv, Copying, Ending
    <3>3. \A d \in Mirror : pc'[d] \notin Copying \cup Ending
      BY <2>2, <2>6, <3>1 DEF Copying, Ending
    <3>4. \A n \in 1..headFile : origin[n] = n
      BY <3>1 DEF MirrorInv, StraightInv
    <3> QED BY <1>1, <1>3, <3>2, <3>3, <3>4 DEF StraightInv, Pulls
  <2>9. FiledInv'
    BY <1>1, FilingStays DEF MirrorInv
  <2> QED BY <2>3, <2>4, <2>5, <2>7, <2>8, <2>9 DEF MirrorInv
<1>6. CASE ~(first > srcHead /\ Goto(m, AfterRun(m)))
  <2> DEFINE new == [run[m] EXCEPT !.last = state'.last, !.from = first, !.cur = first, !.to = srcHead]
  <2>1. /\ first <= srcHead
        /\ run' = [run EXCEPT ![m] = new]
        /\ pc' = [pc EXCEPT ![m] = IF Local(m) THEN "store" ELSE "fetch"]
    BY <1>6 DEF LoadState
  <2>2. /\ new \in Run /\ new.from = first /\ new.cur = first /\ new.to = srcHead
        /\ new.count = 0 /\ new.kind = run[m].kind /\ new.rev = run[m].rev
    <3>1. state'.last \in 0..MaxRev /\ first \in 0..MaxRev /\ first \in 0..MaxRev + 1
      BY <1>0, <1>3, <1>4, <2>1 DEF Basics
    <3>2. run[m] \in Run
      BY <1>4
    <3> HIDE DEF first
    <3> QED BY <1>4, <3>1, <3>2 DEF Run
  <2> HIDE DEF new
  <2>3. /\ run'[m] = new /\ run' \in [Mirror -> Run] /\ Others(m)
        /\ pc'[m] \in {"store", "fetch"} /\ pc' \in [Mirror -> PC]
        /\ pc'[m] = "fetch" => ~Local(m)'
    BY <1>4, <2>1, <2>2 DEF Others, PC, Local
  <2>4. NumbersOK'
    BY <1>1, <1>2, <1>3, <2>3 DEF MirrorInv, NumbersOK, Still, Frame
  <2>5. BoundsInv'
    <3>1. Bounds(m)'
      BY <1>1, <1>3, <1>4, <2>1, <2>2, <2>3 DEF Bounds, Copying, Ending
    <3>2. \A d \in Mirror : d # m => Bounds(d)'
      BY <1>1, <2>3 DEF MirrorInv, BoundsInv, Bounds, Others, Local
    <3> QED BY <3>1, <3>2 DEF BoundsInv
  <2>6. WriterInv'
    <3>1. writer # m
      BY <1>1, WriterIsCopying DEF Copying
    <3> QED BY <1>1, <2>3, <3>1 DEF MirrorInv, NumbersOK, WriterInv, Others, Local
  <2>7. Apart => \A d \in Mirror : d # m => pc[d] = "idle" /\ pc'[d] = "idle"
    BY <1>4, <2>3, Alone DEF MirrorInv, Others
  <2>8. Handled(m)' = EffectiveStart(state')
    BY <1>3, <2>2, <2>3 DEF Handled
  <2>9. CopyInv'
    <3> SUFFICES ASSUME Apart' PROVE CopyInv'
      BY DEF CopyInv
    <3>1. Apart /\ StateInv /\ LogInv /\ InOrder /\ Knows(m)
      BY <1>2 DEF Still, Frame, MirrorInv, CopyInv
    <3>2. InOrder' /\ LogInv'
      BY <1>1, <3>1, OrderStays, ClaimsStay
    <3>3. StateInv' /\ Covers(EffectiveStart(state))'
      <4>1. CASE state' = state
        BY <1>1, <1>2, <1>3, <3>1, <4>1 DEF StateInv, Still, Frame, Covers, EffectiveStart
      <4>2. CASE state' = NewState
        <5>1. EffectiveStart(state)' = 0
          BY <1>0, <1>s, <4>2 DEF Basics
        <5> QED BY <1>2, <5>1, NothingCovered DEF StateInv, MirrorInv
      <4> QED BY <1>1, <4>1, <4>2
    <3>4. \A d \in Mirror : d # m => Knows(d)'
      BY <2>7, <3>1 DEF Knows, Copying, Ending
    <3>5. Covers(Handled(m))'
      BY <3>3, <2>8, <1>s DEF Covers
    <3>6. (state # None => EffectiveStart(state) <= Handled(m))'
      BY <1>3, <1>s, <2>8
    <3>7. run'[m].rev = headFile'
      BY <1>1, <2>2, <2>3, <3>1 DEF Knows
    <3>8. Knows(m)'
      BY <2>3, <3>5, <3>6, <3>7 DEF Knows
    <3> QED BY <3>2, <3>3, <3>4, <3>8 DEF CopyInv
  <2>10. StraightInv'
    <3> SUFFICES ASSUME Straight' PROVE StraightInv'
      BY DEF StraightInv
    <3>1. Straight /\ Apart
      BY <1>1, <1>2 DEF Straight, Still, Frame
    <3>2. Start = headFile
      BY <1>1, <2>7, <3>1 DEF MirrorInv, StraightInv, Copying, Ending
    <3>3. \A d \in Mirror : d # m => pc'[d] \notin Copying \cup Ending
      BY <2>7, <3>1 DEF Copying, Ending
    <3>4. \A n \in 1..headFile : origin[n] = n
      BY <3>1 DEF MirrorInv, StraightInv
    <3>5. headFile' = Handled(m)' /\ state' # None /\ Start' = headFile'
      BY <1>1, <1>3, <2>8, <3>2
    <3> QED BY <1>1, <3>3, <3>4, <3>5 DEF StraightInv, Pulls
  <2>11. FiledInv'
    BY <1>1, FilingStays DEF MirrorInv
  <2> QED BY <2>4, <2>5, <2>6, <2>9, <2>10, <2>11 DEF MirrorInv
<1> QED BY <1>5, <1>6

(***************************************************************************)
(* A commit puts the revision the run is at behind those it has dealt      *)
(* with.                                                                   *)
(***************************************************************************)
LEMMA CommitGrows ==
    ASSUME MirrorInv, Apart, NEW m \in Mirror, Commit(m)
    PROVE  /\ headFile' = headFile + 1 /\ headFile \in 0..MaxHead /\ headFile' \in DestRev
           /\ origin'[headFile + 1] = run[m].cur
           /\ \A n \in 1..headFile : origin'[n] = origin[n]
           /\ \A r : Copied(r) => Copied(r)'
           /\ Copied(run[m].cur)'
           /\ LastOrigin' = run[m].cur
           /\ Covers(run[m].cur - 1)
<1>0. Basics
  BY BasicFacts DEF MirrorInv
<1>1. Knows(m) /\ pc[m] = "commit" /\ setting' = setting
  BY DEF MirrorInv, CopyInv, Commit
<1>2. run[m].rev = headFile /\ Covers(run[m].cur - 1)
  BY <1>1 DEF Knows, Handled, Copying
<1>3. headFile' = headFile + 1 /\ headFile \in 0..MaxHead /\ headFile' \in DestRev
  BY <1>0, <1>2 DEF Commit, MirrorInv, NumbersOK, Basics, DestRev
<1>4. origin' = [origin EXCEPT ![headFile + 1] = run[m].cur]
  BY <1>2 DEF Commit
<1>5. origin'[headFile + 1] = run[m].cur
  BY <1>3, <1>4 DEF MirrorInv, NumbersOK
<1>6. ASSUME NEW n \in 1..headFile PROVE origin'[n] = origin[n]
  <2>1. n \in DestRev /\ n # headFile + 1
    BY <1>0, <1>3 DEF Basics, DestRev
  <2> QED BY <1>4, <2>1 DEF MirrorInv, NumbersOK
<1>7. Frame
  BY <1>1, SettingStays
<1>8. ASSUME NEW r, Copied(r) PROVE Copied(r)'
  <2>1. \A n \in 1..headFile : n \in 1..headFile'
    BY <1>3
  <2> QED BY <1>6, <1>7, <1>8, <2>1 DEF Copied, Frame
<1>9. Copied(run[m].cur)'
  <2>1. headFile' \in 1..headFile' /\ origin'[headFile'] = run[m].cur
    BY <1>3, <1>5 DEF DestRev
  <2>2. \E n \in 1..headFile' : origin'[n] = run[m].cur
    BY <2>1
  <2>3. run'[m].cur = run[m].cur
    BY DEF Commit, MirrorInv, NumbersOK
  <2> QED BY <2>2, <2>3 DEF Copied
<1>10. LastOrigin' = run[m].cur
  BY <1>3, <1>5 DEF LastOrigin, DestRev
<1> QED BY <1>2, <1>3, <1>5, <1>6, <1>8, <1>9, <1>10

LEMMA CommitCovers ==
    ASSUME MirrorInv, Apart, NEW m \in Mirror, Commit(m), NEW k \in 0..run[m].cur
    PROVE  Covers(k)'
<1>1. run[m].cur \in Nat
  BY BasicFacts DEF MirrorInv, Basics
<1>2. /\ \A r : Copied(r) => Copied(r)'
      /\ Copied(run[m].cur)' /\ LastOrigin' = run[m].cur /\ Covers(run[m].cur - 1)
  BY CommitGrows
<1>3. run'[m].cur = run[m].cur
  BY DEF Commit, MirrorInv, NumbersOK
<1>4. ASSUME NEW r \in 1..k PROVE Copied(r)'
  <2>1. r = run[m].cur \/ r \in 1..run[m].cur - 1
    BY <1>1
  <2>2. r \in 1..run[m].cur - 1 => Copied(r)
    BY <1>2 DEF Covers
  <2> QED BY <1>2, <1>3, <2>1, <2>2 DEF Copied
<1>5. \A r \in LastOrigin' + 1..k : Skipped(r)'
  BY <1>1, <1>2
<1> QED BY <1>4, <1>5 DEF Covers

LEMMA CommitOrder ==
    ASSUME MirrorInv, Apart, NEW m \in Mirror, Commit(m)
    PROVE  InOrder'
<1> DEFINE before(n) == IF n = 1 THEN 0 ELSE origin[n - 1]
<1>1. /\ headFile' = headFile + 1 /\ headFile \in Nat
      /\ origin'[headFile + 1] = run[m].cur
      /\ \A n \in 1..headFile : origin'[n] = origin[n]
      /\ Covers(run[m].cur - 1)
  BY CommitGrows, BasicFacts DEF MirrorInv, Basics
<1>2. Frame
  BY SettingStays DEF Commit
<1>3. \A n \in 1..headFile : \A r \in before(n) + 1..origin[n] - 1 : Skipped(r)
  BY DEF MirrorInv, CopyInv, InOrder
<1>4. ASSUME NEW n \in 1..headFile + 1, NEW r \in (before(n))' + 1..origin'[n] - 1
      PROVE  Skipped(r)'
  <2>1. (before(n))' = before(n)
    <3>1. n # 1 => n - 1 \in 1..headFile
      BY <1>1
    <3> QED BY <1>1, <3>1
  <2>2. CASE n \in 1..headFile
    BY <1>1, <1>2, <1>3, <2>1, <2>2 DEF Frame
  <2>3. CASE n = headFile + 1
    <3>1. before(n) = LastOrigin
      <4>1. n = 1 <=> headFile = 0
        BY <1>1, <2>3
      <4>2. n - 1 = headFile
        BY <1>1, <2>3
      <4> QED BY <4>1, <4>2 DEF LastOrigin
    <3>2. r \in LastOrigin + 1..run[m].cur - 1
      BY <1>1, <1>4, <2>1, <2>3, <3>1
    <3> QED BY <1>1, <1>2, <3>2 DEF Covers, Frame
  <2> QED BY <1>1, <2>2, <2>3
<1> QED BY <1>1, <1>4 DEF InOrder

LEMMA CommitStep ==
    ASSUME MirrorInv, NEW m \in Mirror, Commit(m)
    PROVE  MirrorInv'
<1> USE DEF sourceVars, files, db, props, history
<1>0. Basics
  BY BasicFacts DEF MirrorInv
<1> DEFINE nr == run[m].rev + 1
           new == [run[m] EXCEPT !.rev = nr]
<1>1. /\ pc[m] = "commit" /\ Local(m) /\ nr <= MaxHead
      /\ UNCHANGED <<setting, srcHead, revprops, writer, state, replLog, lastMerged, faulty>>
      /\ headFile' = nr
      /\ run' = [run EXCEPT ![m] = new]
      /\ origin' = [origin EXCEPT ![nr] = run[m].cur]
      /\ pc' = [pc EXCEPT ![m] = "props"]
  BY DEF Commit
<1>2. Frame
  BY <1>1, SettingStays
<1>3. /\ nr \in 1..MaxHead /\ MaxHead \in Nat
      /\ run[m].cur \in 1..MaxRev /\ run[m].cur <= run[m].to
      /\ m \in setting.mirrors
  BY <1>0, <1>1 DEF Basics, MirrorInv, BoundsInv, Bounds, Copying
<1>4. /\ new \in Run /\ new.rev = nr /\ new.cur = run[m].cur /\ new.from = run[m].from
      /\ new.to = run[m].to /\ new.count = run[m].count /\ new.kind = run[m].kind
  BY <1>0, <1>3 DEF Basics, Run
<1> HIDE DEF new
<1>5. /\ run'[m] = new /\ run' \in [Mirror -> Run] /\ Others(m)
      /\ pc'[m] = "props" /\ pc' \in [Mirror -> PC]
  BY <1>1, <1>4 DEF MirrorInv, NumbersOK, Others, PC
<1>6. NumbersOK'
  <2>1. nr \in 0..MaxHead /\ nr \in DestRev /\ run[m].cur \in 0..MaxRev
    BY <1>0, <1>3 DEF DestRev, Basics
  <2> HIDE DEF nr
  <2> QED BY <1>1, <1>2, <1>5, <2>1 DEF MirrorInv, NumbersOK, Frame
<1>7. BoundsInv'
  <2>1. Bounds(m)'
    BY <1>1, <1>4, <1>5 DEF MirrorInv, BoundsInv, Bounds, Copying, Ending, Local
  <2>2. \A d \in Mirror : d # m => Bounds(d)'
    BY <1>1, <1>5 DEF MirrorInv, BoundsInv, Bounds, Others, Local
  <2> QED BY <2>1, <2>2 DEF BoundsInv
<1>8. WriterInv'
  BY <1>1, <1>4, <1>5 DEF MirrorInv, NumbersOK, WriterInv, Others, Copying, Local
<1>9. Apart => \A d \in Mirror : d # m => pc[d] = "idle" /\ pc'[d] = "idle"
  BY <1>3, <1>5, Alone DEF MirrorInv, Others
<1>10. Handled(m)' = run[m].cur /\ Handled(m) = run[m].cur - 1
  BY <1>1, <1>4, <1>5 DEF Handled
<1>11. CopyInv'
  <2> SUFFICES ASSUME Apart' PROVE CopyInv'
    BY DEF CopyInv
  <2>1. Apart /\ StateInv /\ LogInv /\ Knows(m)
    BY <1>2 DEF Frame, MirrorInv, CopyInv
  <2>2. InOrder'
    BY <2>1, CommitOrder
  <2>3. LogInv'
    <3>1. \A r : Copied(r) => Copied(r)'
      BY <2>1, CommitGrows
    <3> QED BY <1>1, <2>1, <3>1 DEF LogInv
  <2>4. state # None => EffectiveStart(state) \in 0..run[m].cur - 1 /\ EffectiveStart(state) \in 0..run[m].cur
    <3> SUFFICES ASSUME state # None
                 PROVE  EffectiveStart(state) \in 0..run[m].cur - 1 /\ EffectiveStart(state) \in 0..run[m].cur
      OBVIOUS
    <3>1. EffectiveStart(state) \in 0..MaxRev
      BY <1>0 DEF Basics, MirrorInv, NumbersOK
    <3>2. EffectiveStart(state) <= run[m].cur - 1
      BY <1>1, <1>10, <2>1 DEF Knows, Copying
    <3> QED BY <1>0, <1>3, <3>1, <3>2 DEF Basics
  <2>5. EffectiveStart(state)' = EffectiveStart(state)
    BY <1>1 DEF EffectiveStart
  <2>6. StateInv'
    <3>1. state # None => Covers(EffectiveStart(state))'
      <4> SUFFICES ASSUME state # None PROVE Covers(EffectiveStart(state))'
        OBVIOUS
      <4>1. \A k \in 0..run[m].cur : Covers(k)'
        BY <2>1, CommitCovers
      <4> QED BY <4>1, <2>4, <2>5 DEF Covers
    <3> QED BY <1>1, <3>1 DEF StateInv
  <2>7. Covers(Handled(m))'
    <3>1. run[m].cur \in 0..run[m].cur
      BY <1>0, <1>3 DEF Basics
    <3>2. \A k \in 0..run[m].cur : Covers(k)'
      BY <2>1, CommitCovers
    <3> QED BY <1>10, <3>1, <3>2 DEF Covers
  <2>8. (state # None => EffectiveStart(state) <= Handled(m))'
    BY <1>0, <1>1, <1>3, <1>10, <2>4, <2>5 DEF Basics
  <2>9. headFile' # 0 /\ origin'[headFile'] = run'[m].cur /\ run'[m].rev = headFile'
    <3>1. nr \in DestRev /\ nr # 0
      BY <1>3 DEF DestRev
    <3> HIDE DEF nr
    <3> QED BY <1>1, <1>4, <1>5, <3>1 DEF MirrorInv, NumbersOK
  <2>10. Knows(m)'
    BY <1>5, <2>7, <2>8, <2>9 DEF Knows
  <2>11. \A d \in Mirror : d # m => Knows(d)'
    BY <1>9, <2>1 DEF Knows, Copying, Ending
  <2> QED BY <2>2, <2>3, <2>6, <2>10, <2>11 DEF CopyInv
<1>12. StraightInv'
  <2> SUFFICES ASSUME Straight' PROVE StraightInv'
    BY DEF StraightInv
  <2>1. Straight /\ Apart
    BY <1>1, <1>2 DEF Straight, Frame
  <2>2. /\ headFile' = headFile + 1 /\ headFile \in 0..MaxHead
        /\ origin'[headFile + 1] = run[m].cur
        /\ \A n \in 1..headFile : origin'[n] = origin[n]
    BY <2>1, CommitGrows
  <2>3. headFile = run[m].cur - 1 /\ state # None /\ \A n \in 1..headFile : origin[n] = n
    BY <1>1, <1>10, <2>1 DEF MirrorInv, StraightInv, Copying
  <2>4. headFile' = run[m].cur
    BY <1>0, <1>3, <2>2, <2>3 DEF Basics
  <2>5. ASSUME NEW n \in 1..headFile' PROVE origin'[n] = n
    <3>1. n \in 1..headFile \/ n = headFile + 1
      BY <1>3, <2>2
    <3> QED BY <2>2, <2>3, <2>4, <3>1
  <2>6. \A d \in Mirror : pc'[d] \in Copying \cup Ending => d = m
    BY <1>9, <2>1 DEF Copying, Ending
  <2>7. pc'[m] \in Copying /\ ~Pulls(m)'
    BY <1>1, <1>4, <1>5 DEF Copying, Pulls, Local
  <2>8. \A d \in Mirror : ~Pulls(d)'
    BY <2>6, <2>7 DEF Pulls
  <2> QED BY <1>1, <1>10, <2>3, <2>4, <2>5, <2>6, <2>7, <2>8 DEF StraightInv
<1>13. FiledInv'
  <2> SUFFICES ASSUME Apart', NEW n \in DestRev
               PROVE  (revprops[n] = 0 \/ (n <= headFile /\ revprops[n] = origin[n]))'
    BY DEF FiledInv
  <2>1. Apart
    BY <1>2 DEF Frame
  <2>2. revprops[n] = 0 \/ (n <= headFile /\ revprops[n] = origin[n])
    BY <2>1 DEF MirrorInv, FiledInv
  <2>3. headFile' = headFile + 1 /\ headFile \in 0..MaxHead /\ \A i \in 1..headFile : origin'[i] = origin[i]
    BY <2>1, CommitGrows
  <2>4. n <= headFile => n \in 1..headFile /\ n <= headFile'
    BY <1>3, <2>3 DEF DestRev
  <2> QED BY <1>1, <2>2, <2>3, <2>4
<1> QED BY <1>6, <1>7, <1>8, <1>11, <1>12, <1>13 DEF MirrorInv

(***************************************************************************)
(* The checkpoint names the revision just dealt with.                      *)
(***************************************************************************)
LEMMA CheckpointStep ==
    ASSUME MirrorInv, NEW m \in Mirror, Checkpoint(m)
    PROVE  MirrorInv'
<1> USE DEF sourceVars, files, db, props, history
<1>0. Basics
  BY BasicFacts DEF MirrorInv
<1> DEFINE new == [run[m] EXCEPT !.count = run[m].count + 1, !.cur = run[m].cur + 1]
           chk == [last |-> run[m].last, checkpoint |-> run[m].cur]
<1>1. /\ pc[m] = "checkpoint"
      /\ UNCHANGED <<setting, srcHead, headFile, origin, revprops, writer, replLog, lastMerged, faulty>>
      /\ state' = IF CheckpointDue(m) THEN chk ELSE state
      /\ pc' = [pc EXCEPT ![m] = IF run[m].cur = run[m].to THEN "end_batch" ELSE "store"]
  BY DEF Checkpoint
<1>2. Still
  BY <1>1, StillCovered
<1>3. /\ MaxRev \in Nat
      /\ run[m].from \in 1..MaxRev /\ run[m].cur \in 1..MaxRev /\ run[m].to \in 1..MaxRev
      /\ run[m].count \in Nat /\ run[m].from <= run[m].cur /\ run[m].cur <= run[m].to
      /\ run[m].count <= run[m].cur - run[m].from
      /\ m \in setting.mirrors /\ run[m].kind \in setting.kinds /\ Local(m)
  BY <1>0, <1>1 DEF Basics, MirrorInv, BoundsInv, Bounds, Copying
<1>4. /\ new \in Run /\ new.rev = run[m].rev /\ new.cur = run[m].cur + 1 /\ new.from = run[m].from
      /\ new.to = run[m].to /\ new.count = run[m].count + 1 /\ new.kind = run[m].kind
  <2>1. run[m].count + 1 \in 0..MaxRev /\ run[m].cur + 1 \in 0..MaxRev + 1
    BY <1>3
  <2> QED BY <1>0, <2>1 DEF Basics, Run
<1>5. run' = [run EXCEPT ![m] = new]
  BY DEF Checkpoint
<1> HIDE DEF new
<1>6. /\ run'[m] = new /\ run' \in [Mirror -> Run] /\ Others(m)
      /\ pc'[m] \in {"end_batch", "store"} /\ pc' \in [Mirror -> PC]
      /\ pc'[m] = "end_batch" <=> run[m].cur = run[m].to
  BY <1>1, <1>4, <1>5 DEF MirrorInv, NumbersOK, Others, PC
<1>7. chk \in State /\ chk # None /\ EffectiveStart(chk) = run[m].cur
  <2>1. chk \in State
    BY <1>0, <1>3 DEF State, Basics
  <2>2. run[m].cur # None
    BY <1>3, MirrorAssumption
  <2> QED BY <1>0, <2>1, <2>2 DEF Basics, EffectiveStart
<1> HIDE DEF chk
<1>8. NumbersOK'
  <2>1. state' \in State \cup {None}
    BY <1>1, <1>7 DEF MirrorInv, NumbersOK
  <2> QED BY <1>1, <1>2, <1>6, <2>1 DEF MirrorInv, NumbersOK, Still, Frame
<1>9. BoundsInv'
  <2>1. Bounds(m)'
    BY <1>1, <1>3, <1>4, <1>6 DEF Bounds, Copying, Ending, Local
  <2>2. \A d \in Mirror : d # m => Bounds(d)'
    BY <1>1, <1>6 DEF MirrorInv, BoundsInv, Bounds, Others, Local
  <2> QED BY <2>1, <2>2 DEF BoundsInv
<1>l. Local(m)'
  BY <1>3, <1>4, <1>6 DEF Local
<1>10. WriterInv'
  BY <1>1, <1>6, <1>l DEF MirrorInv, NumbersOK, WriterInv, Others, Copying, Local
<1>11. Apart => \A d \in Mirror : d # m => pc[d] = "idle" /\ pc'[d] = "idle"
  BY <1>3, <1>6, Alone DEF MirrorInv, Others
<1>12. Handled(m)' = run[m].cur /\ Handled(m) = run[m].cur
  BY <1>1, <1>3, <1>4, <1>6 DEF Handled
<1>13. state' = chk \/ state' = state
  BY <1>1
<1>14. EffectiveStart(state)' = EffectiveStart(state')
  BY DEF EffectiveStart
<1>15. CopyInv'
  <2> SUFFICES ASSUME Apart' PROVE CopyInv'
    BY DEF CopyInv
  <2>1. Apart /\ StateInv /\ LogInv /\ InOrder /\ Knows(m)
    BY <1>2 DEF Still, Frame, MirrorInv, CopyInv
  <2>2. InOrder' /\ LogInv'
    BY <1>1, <2>1, OrderStays, ClaimsStay
  <2>3. /\ Covers(run[m].cur) /\ run[m].rev = headFile
        /\ state # None => EffectiveStart(state) <= run[m].cur
    BY <1>1, <1>12, <2>1 DEF Knows, Copying
  <2>4. StateInv'
    <3>1. CASE state' = state
      BY <1>2, <2>1, <3>1 DEF StateInv, Still, Frame, Covers, EffectiveStart
    <3>2. CASE state' = chk
      <4>1. EffectiveStart(state)' = run[m].cur
        BY <1>7, <1>14, <3>2
      <4> QED BY <1>2, <2>3, <4>1 DEF StateInv, Still, Frame, Covers
    <3> QED BY <1>13, <3>1, <3>2
  <2>5. Covers(Handled(m))'
    BY <1>2, <1>12, <2>3 DEF Still, Frame, Covers
  <2>6. (state # None => EffectiveStart(state) <= Handled(m))'
    BY <1>3, <1>7, <1>12, <1>13, <1>14, <2>3
  <2>7. Knows(m)'
    BY <1>1, <1>4, <1>6, <2>3, <2>5, <2>6 DEF Knows
  <2>8. \A d \in Mirror : d # m => Knows(d)'
    BY <1>11, <2>1 DEF Knows, Copying, Ending
  <2> QED BY <2>2, <2>4, <2>7, <2>8 DEF CopyInv
<1>16. StraightInv'
  <2> SUFFICES ASSUME Straight' PROVE StraightInv'
    BY DEF StraightInv
  <2>1. Straight /\ Apart
    BY <1>1, <1>2 DEF Straight, Still, Frame
  <2>2. headFile = run[m].cur /\ state # None /\ \A n \in 1..headFile : origin[n] = n
    BY <1>1, <1>12, <2>1 DEF MirrorInv, StraightInv, Copying
  <2>3. state' # None
    BY <1>7, <1>13, <2>2
  <2>5. \A d \in Mirror : pc'[d] \in Copying \cup Ending => d = m
    BY <1>11, <2>1 DEF Copying, Ending
  <2>6. pc'[m] \in Copying \cup Ending
    BY <1>6 DEF Copying, Ending
  <2>7. \A d \in Mirror : ~Pulls(d)'
    BY <1>l, <2>5 DEF Pulls
  <2> QED BY <1>1, <1>12, <2>2, <2>3, <2>5, <2>6, <2>7 DEF StraightInv
<1>17. FiledInv'
  BY <1>1, FilingStays DEF MirrorInv
<1> QED BY <1>8, <1>9, <1>10, <1>15, <1>16, <1>17 DEF MirrorInv

(***************************************************************************)
(* A complete run has dealt with all of its range.                         *)
(***************************************************************************)
LEMMA CompleteStep ==
    ASSUME MirrorInv, NEW m \in Mirror, CompleteSync(m)
    PROVE  MirrorInv'
<1> USE DEF sourceVars, files, db, props, history
<1>0. Basics
  BY BasicFacts DEF MirrorInv
<1> DEFINE done == [last |-> run[m].to, checkpoint |-> None]
<1>1. /\ pc[m] = "complete" /\ state' = done
      /\ UNCHANGED <<setting, srcHead, headFile, origin, revprops, writer, replLog, lastMerged, faulty>>
  BY DEF CompleteSync
<1>2. PICK l \in {"merged"} : Goto(m, l)
  BY DEF CompleteSync
<1>3. Still
  BY <1>1, StillCovered
<1>4. /\ MaxRev \in Nat /\ run[m].to \in 1..MaxRev
      /\ run[m].cur = run[m].to + 1 /\ run[m].from >= 1 /\ run[m].from <= run[m].to
      /\ m \in setting.mirrors /\ run[m].kind \in setting.kinds
  BY <1>0, <1>1 DEF Basics, MirrorInv, BoundsInv, Bounds, Ending
<1>5. /\ pc'[m] = l /\ Others(m) /\ pc' \in [Mirror -> PC] /\ run' \in [Mirror -> Run]
      /\ run'[m] = IF l = "idle" THEN NoRun ELSE run[m]
  BY <1>0, <1>2 DEF Goto, Others, PC, Basics, MirrorInv, NumbersOK
<1>6. done \in State /\ done # None /\ EffectiveStart(done) = run[m].to
  <2>1. done \in State
    BY <1>0, <1>4 DEF State, Basics
  <2> QED BY <1>0, <2>1 DEF Basics, EffectiveStart
<1> HIDE DEF done
<1>7. Start' = run[m].to /\ state' # None /\ EffectiveStart(state)' = run[m].to
  BY <1>1, <1>6 DEF Start, EffectiveStart
<1>8. NumbersOK'
  BY <1>1, <1>3, <1>5, <1>6 DEF MirrorInv, NumbersOK, Still, Frame
<1>9. BoundsInv'
  <2>1. Bounds(m)'
    BY <1>1, <1>4, <1>5 DEF Bounds, Copying, Ending, Local
  <2>2. \A d \in Mirror : d # m => Bounds(d)'
    BY <1>1, <1>5 DEF MirrorInv, BoundsInv, Bounds, Others, Local
  <2> QED BY <2>1, <2>2 DEF BoundsInv
<1>10. WriterInv'
  <2>1. writer # m
    BY <1>1, WriterIsCopying DEF Copying
  <2> QED BY <1>1, <1>5, <2>1 DEF MirrorInv, NumbersOK, WriterInv, Others, Local
<1>11. Apart => \A d \in Mirror : d # m => pc[d] = "idle" /\ pc'[d] = "idle"
  BY <1>4, <1>5, Alone DEF MirrorInv, Others
<1>12. Handled(m) = run[m].to
  BY <1>1, <1>4 DEF Handled
<1>13. CopyInv'
  <2> SUFFICES ASSUME Apart' PROVE CopyInv'
    BY DEF CopyInv
  <2>1. Apart /\ LogInv /\ InOrder /\ Knows(m)
    BY <1>3 DEF Still, Frame, MirrorInv, CopyInv
  <2>2. InOrder' /\ LogInv'
    BY <1>1, <2>1, OrderStays, ClaimsStay
  <2>3. Covers(run[m].to) /\ run[m].rev = headFile
    BY <1>1, <1>12, <2>1 DEF Knows, Ending
  <2>4. StateInv'
    BY <1>3, <1>7, <2>3 DEF StateInv, Still, Frame, Covers
  <2>5. l = "merged" => (\A r \in 1..run[m].to : Copied(r))'
    BY <1>3, <1>5, <2>3 DEF Covers, Still
  <2>6. Knows(m)'
    BY <1>1, <1>5, <2>3, <2>5 DEF Knows, Copying, Ending
  <2>7. \A d \in Mirror : d # m => Knows(d)'
    BY <1>11, <2>1 DEF Knows, Copying, Ending
  <2> QED BY <2>2, <2>4, <2>6, <2>7 DEF CopyInv
<1>14. StraightInv'
  <2> SUFFICES ASSUME Straight' PROVE StraightInv'
    BY DEF StraightInv
  <2>1. Straight /\ Apart
    BY <1>1, <1>3 DEF Straight, Still, Frame
  <2>2. headFile = run[m].to /\ \A n \in 1..headFile : origin[n] = n
    BY <1>1, <1>12, <2>1 DEF MirrorInv, StraightInv, Ending
  <2>3. \A d \in Mirror : pc'[d] \notin Copying \cup Ending
    BY <1>5, <1>11, <2>1 DEF Copying, Ending
  <2> QED BY <1>1, <1>7, <2>2, <2>3 DEF StraightInv, Pulls
<1>15. FiledInv'
  BY <1>1, FilingStays DEF MirrorInv
<1> QED BY <1>8, <1>9, <1>10, <1>13, <1>14, <1>15 DEF MirrorInv

-----------------------------------------------------------------------------
LEMMA MirrorInit == Init => MirrorInv
<1> SUFFICES ASSUME Init PROVE MirrorInv
  OBVIOUS
<1>0. MaxHead \in Nat /\ MaxRev \in Nat
  BY SourceLength, MirrorAssumption DEF Init
<1>1. NumbersOK
  <2>1. NoRun \in Run
    BY <1>0 DEF NoRun, Run, Kind
  <2> QED BY <1>0, <2>1 DEF Init, NumbersOK, PC, DestRev
<1>2. BoundsInv /\ WriterInv
  BY DEF Init, BoundsInv, Bounds, WriterInv, Copying, Ending
<1>3. CopyInv
  <2>1. StateInv
    BY DEF Init, StateInv
  <2>2. LogInv
    <3>1. 1..0 = {}
      OBVIOUS
    <3> QED BY <3>1 DEF Init, LogInv
  <2>3. InOrder
    <3>1. 1..0 = {}
      OBVIOUS
    <3> QED BY <3>1 DEF Init, InOrder
  <2>4. \A m \in Mirror : Knows(m)
    BY DEF Init, Knows, Copying, Ending
  <2> QED BY <2>1, <2>2, <2>3, <2>4 DEF CopyInv
<1>4. StraightInv
  <2>1. 1..0 = {}
    OBVIOUS
  <2> QED BY <2>1 DEF Init, StraightInv, Start, Pulls, Copying, Ending
<1>5. FiledInv
  BY DEF Init, FiledInv
<1> QED BY <1>1, <1>2, <1>3, <1>4, <1>5 DEF MirrorInv

LEMMA MirrorStutter == MirrorInv /\ UNCHANGED vars => MirrorInv'
<1> SUFFICES ASSUME MirrorInv, UNCHANGED vars PROVE MirrorInv'
  OBVIOUS
<1>1. /\ UNCHANGED <<setting, srcHead, headFile, origin, revprops, writer, state, replLog, lastMerged, faulty>>
      /\ UNCHANGED <<pc, run>>
  BY DEF vars, sourceVars, files, db, props, history
<1>2. Still
  BY <1>1, StillCovered
<1>3. NumbersOK'
  BY <1>1, <1>2 DEF MirrorInv, NumbersOK, Still, Frame
<1>4. BoundsInv' /\ WriterInv'
  BY <1>1 DEF MirrorInv, BoundsInv, Bounds, WriterInv, Local
<1>5. \A m \in Mirror : Handled(m)' = Handled(m) /\ Pulls(m)' = Pulls(m)
  BY <1>1 DEF Handled, Pulls, Local
<1>6. CopyInv'
  <2> SUFFICES ASSUME Apart' PROVE CopyInv'
    BY DEF CopyInv
  <2>1. StateInv /\ LogInv /\ InOrder /\ \A m \in Mirror : Knows(m)
    BY <1>2 DEF Still, Frame, MirrorInv, CopyInv
  <2>2. InOrder' /\ LogInv'
    BY <1>1, <2>1, OrderStays, ClaimsStay
  <2>3. StateInv'
    BY <1>1, <1>2, <2>1 DEF StateInv, Still, Frame, Covers, EffectiveStart
  <2>4. ASSUME NEW m \in Mirror PROVE Knows(m)'
    <3>1. Covers(Handled(m)) => Covers(Handled(m))'
      BY <1>2, <1>5 DEF Still, Frame, Covers
    <3>2. (\A r \in 1..run[m].to : Copied(r)) => (\A r \in 1..run[m].to : Copied(r))'
      BY <1>1, <1>2 DEF Still
    <3> QED BY <1>1, <1>5, <2>1, <3>1, <3>2 DEF Knows, EffectiveStart
  <2> QED BY <2>2, <2>3, <2>4 DEF CopyInv
<1>7. StraightInv'
  <2> SUFFICES ASSUME Straight' PROVE StraightInv'
    BY DEF StraightInv
  <2>1. Straight
    BY <1>1, <1>2 DEF Straight, Still, Frame
  <2>2. Start' = Start
    BY <1>1 DEF Start, EffectiveStart
  <2> QED BY <1>1, <1>5, <2>1, <2>2 DEF MirrorInv, StraightInv
<1>8. FiledInv'
  BY <1>1, FilingStays DEF MirrorInv
<1> QED BY <1>3, <1>4, <1>6, <1>7, <1>8 DEF MirrorInv

LEMMA MirrorStep == MirrorInv /\ [Next]_vars => MirrorInv'
<1> SUFFICES ASSUME MirrorInv, [Next]_vars PROVE MirrorInv'
  OBVIOUS
<1>1. CASE SourceCommit \/ SetConfig \/ InitMirror \/ Cleanup
  BY <1>1, AroundStep
<1>2. ASSUME NEW m \in Mirror, NEW k \in Kind, Open(m, k) PROVE MirrorInv'
  BY <1>2, OpenStep
<1>3. ASSUME NEW m \in Mirror, Continue(m) PROVE MirrorInv'
  <2>1. CASE Command(m)
    BY <2>1, CommandStep, FileStep DEF Command
  <2>2. CASE LoadState(m) \/ LoadFails(m) \/ Fetch(m) \/ GiveUp(m) \/ CommitPanics(m)
    BY <2>2, LoadStep, CommandStep, CopyingStep, AbortStep
  <2>3. CASE ApplyRevision(m)
    BY <2>3, CopyingStep, CommitStep, FileStep DEF ApplyRevision
  <2>4. CASE Checkpoint(m)
    BY <2>4, CheckpointStep
  <2>5. CASE Finish(m)
    BY <2>5, CopyingStep, FileStep, CompleteStep DEF Finish
  <2>6. CASE Sync(m)
    BY <2>2, <2>3, <2>4, <2>5, <2>6 DEF Sync
  <2>7. CASE Pull(m)
    BY <2>2, <2>3, <2>7 DEF Pull, ApplyRevision
  <2> QED BY <1>3, <2>1, <2>6, <2>7 DEF Continue
<1>4. ASSUME NEW m \in Mirror, Crash(m) \/ Fail(m) \/ HashMismatch(m) PROVE MirrorInv'
  BY <1>4, AbortStep
<1>5. CASE UNCHANGED vars
  BY <1>5, MirrorStutter
<1> QED BY <1>1, <1>2, <1>3, <1>4, <1>5 DEF Next

LEMMA MirrorInvHolds == Spec => []MirrorInv
<1> QED BY MirrorInit, MirrorStep, PTL DEF Spec

-----------------------------------------------------------------------------
(***************************************************************************)
(* When runs follow one another, sync-state.json, the replication log and  *)
(* svn:sync-last-merged-rev never claim a revision the destination does    *)
(* not have: not after a crash or a failure between any two steps of       *)
(* LocalSync::sync, not after a pull that died, and not after a cleanup in *)
(* the middle of a run.                                                    *)
(***************************************************************************)
THEOREM ClaimsAreCopied == Spec => []ClaimedIsCopied
<1>1. MirrorInv => ClaimedIsCopied
  <2> SUFFICES ASSUME MirrorInv, Apart, NEW r \in Claimed PROVE Copied(r)
    BY DEF ClaimedIsCopied
  <2>1. StateInv /\ LogInv
    BY DEF MirrorInv, CopyInv
  <2> DEFINE claimedByState == IF state = None THEN {} ELSE 1..EffectiveStart(state)
             logged == UNION {l[1]..l[2] : l \in replLog}
             merged == 1..lastMerged
  <2>2. \A i \in claimedByState : Copied(i)
    BY <2>1 DEF StateInv, Covers
  <2>3. \A i \in logged : Copied(i)
    BY <2>1 DEF LogInv
  <2>4. \A i \in merged : Copied(i)
    BY <2>1 DEF LogInv
  <2>5. Claimed = claimedByState \cup logged \cup merged
    BY DEF Claimed
  <2> HIDE DEF claimedByState, logged, merged
  <2> QED BY <2>2, <2>3, <2>4, <2>5
<1> QED BY <1>1, MirrorInvHolds, PTL

(***************************************************************************)
(* When runs follow one another, commit_sync appends the source's          *)
(* revisions in order: every destination revision continues where its      *)
(* predecessor stopped or copies an earlier one again, and what lies       *)
(* between was skipped as empty.                                           *)
(***************************************************************************)
THEOREM CopiesInOrder == Spec => []InOrder
<1>1. MirrorInv => InOrder
  BY DEF MirrorInv, CopyInv, InOrder
<1> QED BY <1>1, MirrorInvHolds, PTL

(***************************************************************************)
(* Revisions keep their numbers as long as nothing went wrong and none is  *)
(* skipped, whatever pulls die in between; and after any crash, failure or *)
(* cleanup, whether numbers are kept or not, the properties                *)
(* apply_revision_data saves are filed under the revision they belong to.  *)
(***************************************************************************)
THEOREM NumbersAreKept == Spec => []NumbersKept
<1>1. MirrorInv => NumbersKept
  <2> SUFFICES ASSUME MirrorInv PROVE NumbersKept
    OBVIOUS
  <2>1. Straight => \A n \in 1..headFile : origin[n] = n
    BY DEF MirrorInv, StraightInv
  <2>2. \A n \in 1..headFile : n \in DestRev
    BY BasicFacts DEF MirrorInv, NumbersOK, Basics, DestRev
  <2>3. Apart => \A n \in 1..headFile : revprops[n] \in {0, origin[n]}
    BY <2>2 DEF MirrorInv, FiledInv
  <2> QED BY <2>1, <2>3 DEF NumbersKept, Straight
<1> QED BY <1>1, MirrorInvHolds, PTL

-----------------------------------------------------------------------------
(***************************************************************************)
(* What a complete run leaves behind (MirrorFaithful).                     *)
(*                                                                         *)
(* Revisions that are copied again are replayed on a tree that has them    *)
(* already.  Where the destination differs from the source revision its    *)
(* head was copied from, a revision that is still to be copied again       *)
(* settles the path.                                                       *)
(***************************************************************************)
Touches(d, p) == d[p] # NoChange \/ \E a \in Path : <<a, p>> \in Below /\ d[a] = Delete

Drift ==
    \A p \in Path :
        \/ DeltaTree[headFile][p] = SourceTree[LastOrigin][p]
        \/ \E r \in LastOrigin + 1..MaxRev : Copied(r) /\ Touches(source[r], p)

OriginInv ==
    \A n \in 1..headFile : origin[n] \in 1..srcHead /\ \A r \in 1..origin[n] : Copied(r)

RangeInv ==
    \A m \in Mirror : pc[m] \in Copying \cup Ending =>
        run[m].to <= srcHead /\ \A n \in 1..headFile : origin[n] <= run[m].to

DriftInv == Apart => OriginInv /\ RangeInv /\ Drift

(***************************************************************************)
(* Until something goes wrong nothing is copied again: a run that is not   *)
(* under way left a state that covers the head, what can be reconstructed  *)
(* is the source's tree, the rows are the tree of the revisions dealt      *)
(* with, and their objects are whole.                                      *)
(***************************************************************************)
Calm == Apart /\ faulty = 0
Resting == \A m \in Mirror : pc[m] \notin Copying \cup Ending

AheadInv ==
    /\ \A m \in Mirror : pc[m] \in Copying \cup Ending => state # None /\ LastOrigin <= Handled(m)
    /\ \A m \in Mirror : Pulls(m) => Start = Handled(m)
    /\ Resting => LastOrigin <= Start

DestInv ==
    \A n \in DestRev :
        IF n <= headFile THEN DestTree[n] = SourceTree[origin[n]] ELSE snapshots[n] = NoTree

RowsAt(m) == IF pc[m] = "commit" THEN run[m].cur ELSE Handled(m)
RowsInv ==
    /\ \A m \in Mirror : pc[m] \in Copying \cup Ending => rows = SourceTree[RowsAt(m)]
    /\ Resting => rows = SourceTree[LastOrigin]
    /\ \A m \in Mirror : Pulls(m) /\ pc[m] = "commit" => writer = m /\ saved = SourceTree[Handled(m)]

WholeInv ==
    /\ \A e \in Entry : objects[e] \in {"absent", "whole"}
    /\ \A e \in TreeObjects(SourceTree[LastOrigin]) : objects[e] = "whole"
    /\ \A m \in Mirror : pc[m] \in {"apply", "commit"} =>
          \A e \in Objects(run[m].cur) : objects[e] = "whole"

CalmInv == Calm => AheadInv /\ DestInv /\ RowsInv /\ WholeInv

FilesInv ==
    deltas = [n \in DestRev |-> deltas[n]] /\ snapshots = [n \in DestRev |-> snapshots[n]]

FaithInv == MirrorInv /\ FilesInv /\ DriftInv /\ CalmInv

(***************************************************************************)
(* The three recursions of the model, as one.                              *)
(***************************************************************************)
Replayed(f, d, s, n) ==
    IF n = 0 THEN EmptyTree ELSE IF s[n] # NoTree THEN s[n] ELSE ApplyDelta(f[n - 1], d[n])
IsReplay(f, d, s, k) == f = [n \in 0..k |-> Replayed(f, d, s, n)]
NoSnapshots == [n \in Nat |-> NoTree]

LEMMA LeastElement ==
    ASSUME NEW T, T \subseteq Nat, T # {}
    PROVE  \E x \in T : \A y \in T : ~(y < x)
<1>1. PICK x \in T : \A y \in T : ~(<<y, x>> \in OpToRel(<, Nat))
  BY WFMin, NatLessThanWellFounded
<1> QED BY <1>1 DEF OpToRel

LEMMA ReplayExists ==
    ASSUME NEW d, NEW s, NEW k \in Nat
    PROVE  \E f : IsReplay(f, d, s, k)
<1> DEFINE Unsolved == {n \in Nat : ~\E f : IsReplay(f, d, s, n)}
<1> SUFFICES ASSUME Unsolved # {} PROVE FALSE
  OBVIOUS
<1>0. Unsolved \subseteq Nat
  OBVIOUS
<1> HIDE DEF Unsolved
<1>1. PICK m \in Unsolved : \A i \in Unsolved : ~(i < m)
  BY <1>0, LeastElement
<1>2. m \in Nat /\ ~\E f : IsReplay(f, d, s, m)
  BY <1>1 DEF Unsolved
<1>3. CASE m = 0
  <2> DEFINE f == [n \in 0..0 |-> EmptyTree]
  <2>1. IsReplay(f, d, s, 0)
    BY DEF IsReplay, Replayed
  <2> QED BY <2>1, <1>2, <1>3
<1>4. CASE m # 0
  <2>1. m - 1 \in Nat /\ m - 1 < m
    BY <1>2, <1>4
  <2>2. m - 1 \notin Unsolved
    BY <2>1, <1>1
  <2>3. PICK f : IsReplay(f, d, s, m - 1)
    BY <2>1, <2>2 DEF Unsolved
  <2> DEFINE g == [n \in 0..m |-> IF n = m THEN Replayed(f, d, s, m) ELSE f[n]]
  <2>4. ASSUME NEW n \in 0..m PROVE g[n] = Replayed(g, d, s, n)
    <3>1. CASE n = 0
      <4>1. n \in 0..(m - 1) /\ n # m
        BY <3>1, <2>1
      <4>2. g[n] = f[n] /\ f[n] = Replayed(f, d, s, n)
        BY <4>1, <2>3 DEF IsReplay
      <4> QED BY <3>1, <4>2 DEF Replayed
    <3>2. CASE n # 0
      <4>1. n - 1 \in 0..m /\ n - 1 # m
        BY <3>2, <1>2
      <4>2. g[n - 1] = f[n - 1]
        BY <4>1
      <4>3. CASE n = m
        BY <3>2, <4>2, <4>3 DEF Replayed
      <4>4. CASE n # m
        <5>1. n \in 0..(m - 1)
          BY <4>4, <1>2
        <5>2. g[n] = f[n] /\ f[n] = Replayed(f, d, s, n)
          BY <5>1, <4>4, <2>3 DEF IsReplay
        <5> QED BY <3>2, <5>2, <4>2 DEF Replayed
      <4> QED BY <4>3, <4>4
    <3> QED BY <3>1, <3>2
  <2>5. IsReplay(g, d, s, m)
    BY <2>4 DEF IsReplay
  <2> QED BY <2>5, <1>2
<1> QED BY <1>3, <1>4

LEMMA SourceReplay ==
    ASSUME MaxRev \in Nat
    PROVE  IsReplay(SourceTree, source, NoSnapshots, MaxRev)
<1> DEFINE Body(h, r) == IF r = 0 THEN EmptyTree ELSE ApplyDelta(h[r - 1], source[r])
<1>1. PICK f : IsReplay(f, source, NoSnapshots, MaxRev)
  BY ReplayExists
<1>2. \A h : \A r \in 0..MaxRev : Replayed(h, source, NoSnapshots, r) = Body(h, r)
  BY DEF Replayed, NoSnapshots
<1>3. f = [r \in 0..MaxRev |-> Body(f, r)]
  BY <1>1, <1>2 DEF IsReplay
<1>4. SourceTree = [r \in 0..MaxRev |-> Body(SourceTree, r)]
  BY <1>3 DEF SourceTree
<1> QED BY <1>2, <1>4 DEF IsReplay

LEMMA DeltaReplay == IsReplay(DeltaTree, deltas, NoSnapshots, MaxHead)
<1> DEFINE Body(h, r) == IF r = 0 THEN EmptyTree ELSE ApplyDelta(h[r - 1], deltas[r])
<1>1. PICK f : IsReplay(f, deltas, NoSnapshots, MaxHead)
  BY ReplayExists, MirrorAssumption
<1>2. \A h : \A r \in 0..MaxHead : Replayed(h, deltas, NoSnapshots, r) = Body(h, r)
  BY MirrorAssumption DEF Replayed, NoSnapshots
<1>3. f = [r \in 0..MaxHead |-> Body(f, r)]
  BY <1>1, <1>2 DEF IsReplay
<1>4. DeltaTree = [r \in 0..MaxHead |-> Body(DeltaTree, r)]
  BY <1>3 DEF DeltaTree
<1> QED BY <1>2, <1>4 DEF IsReplay

LEMMA DestReplay == IsReplay(DestTree, deltas, snapshots, MaxHead)
<1> DEFINE Body(h, r) ==
             IF r = 0 THEN EmptyTree
             ELSE IF snapshots[r] # NoTree THEN snapshots[r] ELSE ApplyDelta(h[r - 1], deltas[r])
<1>1. PICK f : IsReplay(f, deltas, snapshots, MaxHead)
  BY ReplayExists, MirrorAssumption
<1>2. \A h : \A r \in 0..MaxHead : Replayed(h, deltas, snapshots, r) = Body(h, r)
  BY DEF Replayed
<1>3. f = [r \in 0..MaxHead |-> Body(f, r)]
  BY <1>1, <1>2 DEF IsReplay
<1>4. DestTree = [r \in 0..MaxHead |-> Body(DestTree, r)]
  BY <1>3 DEF DestTree
<1> QED BY <1>2, <1>4 DEF IsReplay

(***************************************************************************)
(* Replays of the same files are the same.                                 *)
(***************************************************************************)
LEMMA SameReplay ==
    ASSUME NEW k \in Nat, NEW i \in Nat, NEW j \in Nat, k <= i, k <= j,
           NEW d, NEW s, NEW e, NEW t, NEW f, NEW g,
           IsReplay(f, d, s, i), IsReplay(g, e, t, j),
           \A n \in 1..k : d[n] = e[n] /\ s[n] = t[n]
    PROVE  \A n \in 0..k : f[n] = g[n]
<1> DEFINE Bad == {n \in 0..k : f[n] # g[n]}
<1> SUFFICES ASSUME Bad # {} PROVE FALSE
  OBVIOUS
<1>0. Bad \subseteq Nat
  OBVIOUS
<1> HIDE DEF Bad
<1>1. PICK n \in Bad : \A y \in Bad : ~(y < n)
  BY <1>0, LeastElement
<1>2. n \in 0..k /\ f[n] # g[n] /\ n \in 0..i /\ n \in 0..j
  BY <1>1 DEF Bad
<1>3. f[n] = Replayed(f, d, s, n) /\ g[n] = Replayed(g, e, t, n)
  BY <1>2 DEF IsReplay
<1>4. n # 0
  BY <1>2, <1>3 DEF Replayed
<1>5. n - 1 \in 0..k /\ n - 1 < n /\ n \in 1..k
  BY <1>2, <1>4
<1>6. f[n - 1] = g[n - 1]
  BY <1>1, <1>5 DEF Bad
<1> QED BY <1>2, <1>3, <1>4, <1>5, <1>6 DEF Replayed

LEMMA SourceFacts ==
    ASSUME NumbersOK
    PROVE  /\ SourceTree[0] = EmptyTree
           /\ \A r \in 1..MaxRev : source[r] \in Delta /\ SourceTree[r] = ApplyDelta(SourceTree[r - 1], source[r])
<1>1. MaxRev \in Nat
  BY BasicFacts DEF Basics
<1>2. IsReplay(SourceTree, source, NoSnapshots, MaxRev)
  BY <1>1, SourceReplay
<1>3. SourceTree[0] = EmptyTree
  <2>1. 0 \in 0..MaxRev
    BY <1>1
  <2>2. SourceTree[0] = Replayed(SourceTree, source, NoSnapshots, 0)
    BY <1>2, <2>1 DEF IsReplay
  <2> QED BY <2>2 DEF Replayed
<1>4. ASSUME NEW r \in 1..MaxRev
      PROVE  source[r] \in Delta /\ SourceTree[r] = ApplyDelta(SourceTree[r - 1], source[r])
  <2>1. r \in 0..MaxRev /\ r # 0 /\ r \in Nat
    BY <1>1
  <2>2. SourceTree[r] = Replayed(SourceTree, source, NoSnapshots, r)
    BY <1>2, <2>1 DEF IsReplay
  <2>3. source \in Seq(Delta)
    BY MirrorAssumption DEF NumbersOK, source
  <2>4. source[r] \in Delta
    BY <2>3 DEF MaxRev
  <2> QED BY <2>1, <2>2, <2>4 DEF Replayed, NoSnapshots
<1> QED BY <1>3, <1>4

(***************************************************************************)
(* A delta decides the paths it touches and leaves the others alone.       *)
(***************************************************************************)
LEMMA Applied ==
    ASSUME NEW d \in Delta, NEW t, NEW u, NEW p \in Path
    PROVE  /\ Touches(d, p) => ApplyDelta(t, d)[p] = ApplyDelta(u, d)[p]
           /\ ~Touches(d, p) => ApplyDelta(t, d)[p] = t[p]
<1>1. ApplyDelta(t, d)[p] = IF d[p] \in Entry THEN d[p]
        ELSE IF d[p] = Delete \/ \E a \in Path : <<a, p>> \in Below /\ d[a] = Delete
        THEN NoEntry ELSE t[p]
  BY DEF ApplyDelta
<1>2. ApplyDelta(u, d)[p] = IF d[p] \in Entry THEN d[p]
        ELSE IF d[p] = Delete \/ \E a \in Path : <<a, p>> \in Below /\ d[a] = Delete
        THEN NoEntry ELSE u[p]
  BY DEF ApplyDelta
<1>3. d[p] \in Entry \/ d[p] = NoChange \/ d[p] = Delete
  BY DEF Delta
<1> QED BY <1>1, <1>2, <1>3, MarkerAssumption DEF Touches

LEMMA EmptyTouchesNothing ==
    ASSUME NEW r, Skipped(r), NEW p \in Path
    PROVE  ~Touches(source[r], p)
BY MarkerAssumption, PathAssumption DEF Skipped, EmptyCommit, EmptyDelta, Touches

LEMMA Between ==
    ASSUME NumbersOK, NEW p \in Path, NEW i \in 0..MaxRev, NEW j \in i..MaxRev
    PROVE  \/ SourceTree[j][p] = SourceTree[i][p]
           \/ \E r \in i + 1..j : Touches(source[r], p)
<1> DEFINE Bad == {k \in i..MaxRev : SourceTree[k][p] # SourceTree[i][p]
                                     /\ ~\E r \in i + 1..k : Touches(source[r], p)}
<1> SUFFICES ASSUME Bad # {} PROVE FALSE
  OBVIOUS
<1>0. MaxRev \in Nat
  BY BasicFacts DEF Basics
<1>1. Bad \subseteq Nat
  BY <1>0
<1> HIDE DEF Bad
<1>2. PICK k \in Bad : \A y \in Bad : ~(y < k)
  BY <1>1, LeastElement
<1>3. /\ k \in i..MaxRev /\ SourceTree[k][p] # SourceTree[i][p]
      /\ \A r \in i + 1..k : ~Touches(source[r], p)
  BY <1>2 DEF Bad
<1>4. k # i /\ k \in 1..MaxRev /\ k \in i + 1..k /\ k - 1 \in i..MaxRev /\ k - 1 < k
      /\ \A r \in i + 1..k - 1 : r \in i + 1..k
  BY <1>0, <1>3
<1>5. SourceTree[k - 1][p] = SourceTree[i][p]
  BY <1>2, <1>3, <1>4 DEF Bad
<1>6. SourceTree[k] = ApplyDelta(SourceTree[k - 1], source[k]) /\ source[k] \in Delta
  BY <1>4, SourceFacts
<1>7. SourceTree[k][p] = SourceTree[k - 1][p]
  <2>1. ~Touches(source[k], p)
    BY <1>3, <1>4
  <2>2. ApplyDelta(SourceTree[k - 1], source[k])[p] = SourceTree[k - 1][p]
    BY <1>6, <2>1, Applied
  <2> QED BY <1>6, <2>2
<1> QED BY <1>3, <1>5, <1>7

LEMMA SourceIsFcn ==
    ASSUME NumbersOK, NEW r \in 0..MaxRev
    PROVE  SourceTree[r] = [p \in Path |-> SourceTree[r][p]]
<1>0. MaxRev \in Nat
  BY BasicFacts DEF Basics
<1>1. CASE r = 0
  BY <1>1, SourceFacts DEF EmptyTree
<1>2. CASE r # 0
  <2>1. r \in 1..MaxRev
    BY <1>0, <1>2
  <2>2. SourceTree[r] = ApplyDelta(SourceTree[r - 1], source[r])
    BY <2>1, SourceFacts
  <2> QED BY <2>2 DEF ApplyDelta
<1> QED BY <1>1, <1>2

LEMMA Gap ==
    ASSUME NumbersOK, NEW i \in 0..MaxRev, NEW j \in i..MaxRev, \A r \in i + 1..j : Skipped(r)
    PROVE  SourceTree[j] = SourceTree[i]
<1>0. MaxRev \in Nat /\ j \in 0..MaxRev
  BY BasicFacts DEF Basics
<1>1. ASSUME NEW p \in Path PROVE SourceTree[j][p] = SourceTree[i][p]
  <2>1. \A r \in i + 1..j : ~Touches(source[r], p)
    BY EmptyTouchesNothing
  <2> QED BY <2>1, Between
<1>2. SourceTree[i] = [p \in Path |-> SourceTree[i][p]] /\ SourceTree[j] = [p \in Path |-> SourceTree[j][p]]
  BY <1>0, SourceIsFcn
<1> QED BY <1>1, <1>2

(***************************************************************************)
(* Trees while their files stay.                                           *)
(***************************************************************************)
LEMMA SourceStays ==
    ASSUME setting' = setting
    PROVE  SourceTree' = SourceTree /\ source' = source
BY DEF SourceTree, source, MaxRev

LEMMA TreesStay ==
    ASSUME deltas' = deltas, snapshots' = snapshots
    PROVE  DeltaTree' = DeltaTree /\ DestTree' = DestTree
BY DEF DeltaTree, DestTree

(***************************************************************************)
(* What a commit adds to the two reconstructions.                          *)
(***************************************************************************)
LEMMA ReplaysNext ==
    /\ IsReplay(DeltaTree, deltas, NoSnapshots, MaxHead)'
    /\ IsReplay(DestTree, deltas, snapshots, MaxHead)'
BY DeltaReplay, DestReplay, PTL

LEMMA CommitTrees ==
    ASSUME MirrorInv, FilesInv, Apart, NEW m \in Mirror, Commit(m)
    PROVE  /\ \A n \in 0..headFile : DeltaTree'[n] = DeltaTree[n] /\ DestTree'[n] = DestTree[n]
           /\ DeltaTree'[headFile'] = ApplyDelta(DeltaTree[headFile], source[run[m].cur])
           /\ DestTree'[headFile'] = IF snapshots'[headFile'] # NoTree THEN snapshots'[headFile']
                                     ELSE ApplyDelta(DestTree[headFile], source[run[m].cur])
           /\ snapshots'[headFile'] \in {rows, snapshots[headFile']}
           /\ \A n \in DestRev : n # headFile' => snapshots'[n] = snapshots[n]
           /\ SourceTree' = SourceTree /\ source' = source
           /\ FilesInv'
<1>1. /\ headFile' = headFile + 1 /\ headFile \in 0..MaxHead /\ headFile' \in DestRev
      /\ MaxHead \in Nat
  BY CommitGrows, MirrorAssumption
<1>2. run[m].rev = headFile /\ setting' = setting
  <2>1. pc[m] # "idle" /\ setting' = setting
    BY DEF Commit
  <2> QED BY <2>1 DEF MirrorInv, CopyInv, Knows
<1>3. /\ deltas' = [deltas EXCEPT ![headFile'] = source[run[m].cur]]
      /\ snapshots' = [snapshots EXCEPT ![headFile'] =
                          IF headFile' % SnapshotInterval = 0 THEN rows ELSE @]
  BY <1>1, <1>2 DEF Commit
<1>4. /\ deltas'[headFile'] = source[run[m].cur]
      /\ snapshots'[headFile'] \in {rows, snapshots[headFile']}
      /\ \A n \in DestRev : n # headFile' => deltas'[n] = deltas[n] /\ snapshots'[n] = snapshots[n]
      /\ FilesInv'
  BY <1>1, <1>3 DEF FilesInv
<1>5. \A n \in 1..headFile : n \in DestRev /\ n # headFile'
  BY <1>1 DEF DestRev
<1>6. \A n \in 1..headFile : deltas[n] = deltas'[n] /\ snapshots[n] = snapshots'[n]
  BY <1>4, <1>5
<1>7. \A n \in 0..headFile : DeltaTree[n] = DeltaTree'[n]
  <2>1. \A n \in 1..headFile : deltas[n] = deltas'[n] /\ NoSnapshots[n] = NoSnapshots[n]
    BY <1>6
  <2>2. IsReplay(DeltaTree, deltas, NoSnapshots, MaxHead) /\ IsReplay(DeltaTree', deltas', NoSnapshots, MaxHead)
    BY DeltaReplay, ReplaysNext
  <2>3. headFile \in Nat /\ MaxHead \in Nat /\ headFile <= MaxHead
    BY <1>1
  <2> QED BY <2>1, <2>2, <2>3, SameReplay
<1>8. \A n \in 0..headFile : DestTree[n] = DestTree'[n]
  <2>2. IsReplay(DestTree, deltas, snapshots, MaxHead) /\ IsReplay(DestTree', deltas', snapshots', MaxHead)
    BY DestReplay, ReplaysNext
  <2>3. headFile \in Nat /\ MaxHead \in Nat /\ headFile <= MaxHead
    BY <1>1
  <2> QED BY <1>6, <2>2, <2>3, SameReplay
<1>9. headFile' \in 0..MaxHead /\ headFile' # 0 /\ headFile' - 1 = headFile /\ headFile \in 0..headFile
      /\ headFile' \in Nat
  BY <1>1 DEF DestRev
<1>10. /\ DeltaTree'[headFile'] = Replayed(DeltaTree', deltas', NoSnapshots, headFile')
       /\ DestTree'[headFile'] = Replayed(DestTree', deltas', snapshots', headFile')
  BY <1>9, ReplaysNext DEF IsReplay
<1>11. DeltaTree'[headFile'] = ApplyDelta(DeltaTree[headFile], source[run[m].cur])
  BY <1>4, <1>7, <1>9, <1>10 DEF Replayed, NoSnapshots
<1>12. DestTree'[headFile'] = IF snapshots'[headFile'] # NoTree THEN snapshots'[headFile']
                              ELSE ApplyDelta(DestTree[headFile], source[run[m].cur])
  BY <1>4, <1>8, <1>9, <1>10 DEF Replayed
<1> QED BY <1>2, <1>4, <1>7, <1>8, <1>11, <1>12, SourceStays

(***************************************************************************)
(* Copying a revision, for the first time or again, settles the paths it   *)
(* touches; the others were settled before or will be.                     *)
(***************************************************************************)
LEMMA CommitDrift ==
    ASSUME MirrorInv, FilesInv, DriftInv, Apart, NEW m \in Mirror, Commit(m)
    PROVE  DriftInv'
<1> DEFINE cur == run[m].cur
           last == LastOrigin
<1>0. /\ MaxRev \in Nat /\ cur \in 1..MaxRev /\ cur <= run[m].to /\ last \in 0..MaxRev
      /\ m \in setting.mirrors /\ srcHead \in 0..MaxRev /\ run[m].to \in 0..MaxRev
      /\ pc[m] \in Copying
  BY BasicFacts, LastOriginType DEF Basics, MirrorInv, NumbersOK, BoundsInv, Bounds, Copying, Commit
<1>1. OriginInv /\ RangeInv /\ Drift
  BY DEF DriftInv
<1>2. /\ headFile' = headFile + 1 /\ headFile \in 0..MaxHead
      /\ origin'[headFile + 1] = cur
      /\ \A n \in 1..headFile : origin'[n] = origin[n]
      /\ \A r : Copied(r) => Copied(r)'
      /\ LastOrigin' = cur
      /\ Covers(cur - 1)
  BY CommitGrows
<1>3. \A r \in 1..cur : Copied(r)'
  <2>1. cur \in 0..cur
    BY <1>0
  <2>2. \A k \in 0..cur : Covers(k)'
    BY CommitCovers
  <2>3. Covers(cur)'
    <3>1. cur' = cur
      BY DEF Commit, MirrorInv, NumbersOK
    <3> QED BY <2>1, <2>2, <3>1 DEF Covers
  <2>4. cur' = cur
    BY DEF Commit, MirrorInv, NumbersOK
  <2> QED BY <2>3, <2>4 DEF Covers
<1>4. setting' = setting /\ srcHead' = srcHead /\ Frame
  BY SettingStays DEF Commit, sourceVars
<1>5. cur <= srcHead /\ cur \in 1..srcHead
  BY <1>0, <1>1 DEF RangeInv
<1> HIDE DEF cur
<1>6. OriginInv'
  <2> SUFFICES ASSUME NEW n \in 1..headFile'
               PROVE  origin'[n] \in 1..srcHead' /\ \A r \in 1..origin'[n] : Copied(r)'
    BY DEF OriginInv
  <2>1. n \in 1..headFile \/ n = headFile + 1
    BY <1>2, MirrorAssumption
  <2> QED BY <1>1, <1>2, <1>3, <1>4, <1>5, <2>1 DEF OriginInv
<1>7. RangeInv'
  <2>1. Others(m) /\ run'[m].to = run[m].to
    BY DEF Commit, MirrorInv, NumbersOK, Others
  <2>2. \A d \in Mirror : d # m => pc'[d] = "idle"
    BY <1>0, <2>1, Alone DEF MirrorInv, Others
  <2>3. ASSUME NEW n \in 1..headFile' PROVE origin'[n] <= run[m].to
    <3>1. n \in 1..headFile \/ n = headFile + 1
      BY <1>2, MirrorAssumption
    <3> QED BY <1>0, <1>1, <1>2, <3>1 DEF RangeInv, cur
  <2>4. run[m].to <= srcHead
    BY <1>0, <1>1 DEF RangeInv
  <2> QED BY <1>4, <2>1, <2>2, <2>3, <2>4 DEF RangeInv, Copying, Ending
<1>8. Drift'
  <2>1. /\ DeltaTree'[headFile'] = ApplyDelta(DeltaTree[headFile], source[cur])
        /\ SourceTree' = SourceTree /\ source' = source
    BY CommitTrees DEF cur
  <2>2. source[cur] \in Delta /\ SourceTree[cur] = ApplyDelta(SourceTree[cur - 1], source[cur])
    BY <1>0, SourceFacts DEF MirrorInv
  <2>3. ASSUME NEW p \in Path
        PROVE  \/ DeltaTree'[headFile'][p] = SourceTree[cur][p]
               \/ \E r \in cur + 1..MaxRev : Copied(r)' /\ Touches(source[r], p)
    <3>1. CASE Touches(source[cur], p)
      BY <2>1, <2>2, <3>1, Applied
    <3>2. CASE ~Touches(source[cur], p)
      <4>1. DeltaTree'[headFile'][p] = DeltaTree[headFile][p]
        BY <2>1, <2>2, <3>2, Applied
      <4>2. SourceTree[cur][p] = SourceTree[cur - 1][p]
        BY <2>2, <3>2, Applied
      <4>3. CASE \E r \in last + 1..MaxRev : Copied(r) /\ Touches(source[r], p)
        <5>1. PICK r \in last + 1..MaxRev : Copied(r) /\ Touches(source[r], p)
          BY <4>3
        <5>2. r # cur
          BY <3>2, <5>1
        <5>3. ~(r \in last + 1..cur - 1)
          BY <1>2, <5>1, EmptyTouchesNothing DEF Covers
        <5>4. r \in cur + 1..MaxRev
          BY <1>0, <5>2, <5>3
        <5> QED BY <1>2, <5>1, <5>4
      <4>4. CASE DeltaTree[headFile][p] = SourceTree[last][p]
        <5>1. CASE last <= cur - 1
          <6>1. cur - 1 \in last..MaxRev /\ \A r \in last + 1..cur - 1 : Skipped(r)
            BY <1>0, <1>2, <5>1 DEF Covers
          <6>2. SourceTree[cur - 1] = SourceTree[last]
            BY <1>0, <6>1, Gap DEF MirrorInv
          <6> QED BY <4>1, <4>2, <4>4, <6>2
        <5>2. CASE ~(last <= cur - 1)
          <6>1. cur \in 0..MaxRev /\ last \in cur..MaxRev
            BY <1>0, <5>2
          <6>2. CASE SourceTree[last][p] = SourceTree[cur][p]
            BY <4>1, <4>4, <6>2
          <6>3. CASE \E r \in cur + 1..last : Touches(source[r], p)
            <7>1. PICK r \in cur + 1..last : Touches(source[r], p)
              BY <6>3
            <7>2. headFile \in 1..headFile /\ origin[headFile] = last
              <8>1. headFile # 0
                BY <1>0, <6>1 DEF LastOrigin
              <8> QED BY <1>2, <8>1, MirrorAssumption DEF LastOrigin
            <7>3. r \in 1..last /\ r \in cur + 1..MaxRev
              BY <1>0, <7>1
            <7>4. Copied(r)
              BY <1>1, <7>2, <7>3 DEF OriginInv
            <7> QED BY <1>2, <7>1, <7>3, <7>4
          <6> HIDE DEF last
          <6> QED BY <6>1, <6>2, <6>3, Between DEF MirrorInv
        <5> QED BY <5>1, <5>2
      <4> QED BY <1>1, <4>3, <4>4 DEF Drift
    <3> QED BY <3>1, <3>2
  <2> QED BY <1>2, <1>4, <2>1, <2>3 DEF Drift, Frame
<1> QED BY <1>6, <1>7, <1>8 DEF DriftInv

(***************************************************************************)
(* Every other step leaves the revisions alone, and a run enters its range *)
(* with the source's head as its end.                                      *)
(***************************************************************************)
Quiet ==
    /\ UNCHANGED <<setting, headFile, origin, deltas, snapshots>>
    /\ srcHead' \in {srcHead, srcHead + 1}
    /\ \A d \in Mirror : pc'[d] \in Copying \cup Ending =>
          (pc[d] \in Copying \cup Ending /\ run'[d].to = run[d].to) \/ run'[d].to = srcHead

LEMMA QuietAround ==
    ASSUME SourceCommit \/ SetConfig \/ InitMirror \/ Cleanup \/ UNCHANGED vars
    PROVE  Quiet
BY DEF SourceCommit, SetConfig, InitMirror, Cleanup, Quiet, vars, sourceVars, files, db, props, history

LEMMA QuietMoves ==
    ASSUME MirrorInv, NEW m \in Mirror, NEW l \in PC, Goto(m, l),
           UNCHANGED <<setting, srcHead, headFile, origin, deltas, snapshots>>,
           l \in Copying \cup Ending => pc[m] \in Copying \cup Ending
    PROVE  Quiet
<1>1. pc \in [Mirror -> PC] /\ run \in [Mirror -> Run]
  BY DEF MirrorInv, NumbersOK
<1>2. \A d \in Mirror : pc'[d] \in Copying \cup Ending => pc[d] \in Copying \cup Ending /\ pc'[d] # "idle"
  BY <1>1 DEF Goto, Copying, Ending
<1>3. \A d \in Mirror : pc'[d] # "idle" => run'[d] = run[d]
  BY <1>1 DEF Goto
<1> QED BY <1>2, <1>3 DEF Quiet

LEMMA QuietRun ==
    ASSUME MirrorInv, NEW m \in Mirror,
           Command(m) \/ LoadFails(m) \/ Fetch(m) \/ StoreObjects(m) \/ ApplyChanges(m) \/ SaveRevprops(m)
           \/ Finish(m) \/ GiveUp(m) \/ Crash(m) \/ Fail(m) \/ HashMismatch(m) \/ CommitPanics(m)
    PROVE  Quiet
<1> USE DEF sourceVars, files, db, props, history
<1>1. UNCHANGED <<setting, srcHead, headFile, origin, deltas, snapshots>>
  BY DEF Command, CheckLock, SetLock, SetLastMerged, ReleaseLock, LoadFails, Fetch, StoreObjects,
         ApplyChanges, SaveRevprops, Finish, EndBatch, AppendLog, CompleteSync, GiveUp, Crash, Fail, HashMismatch,
         CommitPanics
<1>2. CASE Command(m) \/ LoadFails(m) \/ GiveUp(m) \/ Crash(m) \/ Fail(m) \/ HashMismatch(m) \/ CommitPanics(m)
  <2>1. \E l \in {"idle", "set_lock", "load", "unlock"} : Goto(m, l)
    BY <1>2, AfterRunEnds DEF Command, CheckLock, SetLock, SetLastMerged, ReleaseLock, LoadFails, GiveUp,
         Crash, Fail, HashMismatch, CommitPanics
  <2> QED BY <1>1, <2>1, QuietMoves DEF PC, Copying, Ending
<1>3. CASE Fetch(m) \/ StoreObjects(m) \/ ApplyChanges(m) \/ SaveRevprops(m) \/ Finish(m)
  <2>1. pc[m] \in Copying \cup Ending
    BY <1>3 DEF Fetch, StoreObjects, ApplyChanges, SaveRevprops, Finish, EndBatch, AppendLog, CompleteSync,
         Copying, Ending
  <2>2. \E l \in PC : Goto(m, l)
    BY <1>3 DEF Fetch, StoreObjects, ApplyChanges, SaveRevprops, Finish, EndBatch, AppendLog, CompleteSync, PC
  <2> QED BY <1>1, <2>1, <2>2, QuietMoves
<1> QED BY <1>2, <1>3

LEMMA QuietStart ==
    ASSUME MirrorInv, NEW m \in Mirror, (\E k \in Kind : Open(m, k)) \/ LoadState(m) \/ Checkpoint(m)
    PROVE  Quiet
<1> USE DEF sourceVars, files, db, props, history
<1>0. pc \in [Mirror -> PC] /\ run \in [Mirror -> Run]
  BY DEF MirrorInv, NumbersOK
<1>1. UNCHANGED <<setting, srcHead, headFile, origin, deltas, snapshots>>
  BY DEF Open, LoadState, Checkpoint
<1>2. CASE \E k \in Kind : Open(m, k)
  <2>1. pc'[m] \notin Copying \cup Ending /\ Others(m)
    BY <1>0, <1>2 DEF Open, Others, Copying, Ending
  <2> QED BY <1>1, <2>1 DEF Quiet, Others
<1>3. CASE LoadState(m)
  <2>1. CASE Goto(m, AfterRun(m))
    <3>1. \E l \in {"idle", "unlock"} : Goto(m, l)
      BY <2>1, AfterRunEnds
    <3> QED BY <1>1, <3>1, QuietMoves DEF PC, Copying, Ending
  <2>2. CASE ~Goto(m, AfterRun(m))
    <3>1. Others(m)
      BY <1>0, <1>3, <2>2 DEF LoadState, Others
    <3>2. run'[m].to = srcHead
      <4>1. PICK f, k : run' = [run EXCEPT ![m].last = k, ![m].from = f, ![m].cur = f, ![m].to = srcHead]
        BY <1>3, <2>2 DEF LoadState
      <4>2. run[m] \in Run
        BY <1>0
      <4>3. run'[m] = [run[m] EXCEPT !.last = k, !.from = f, !.cur = f, !.to = srcHead]
        BY <1>0, <4>1
      <4> QED BY <4>2, <4>3 DEF Run
    <3> QED BY <1>1, <3>1, <3>2 DEF Quiet, Others
  <2> QED BY <2>1, <2>2
<1>4. CASE Checkpoint(m)
  <2>1. Others(m) /\ pc[m] \in Copying \cup Ending
    BY <1>0, <1>4 DEF Checkpoint, Others, Copying
  <2>2. run'[m].to = run[m].to
    BY <1>0, <1>4 DEF Checkpoint, Run
  <2> QED BY <1>1, <2>1, <2>2 DEF Quiet, Others
<1> QED BY <1>2, <1>3, <1>4

LEMMA QuietKeepsDrift ==
    ASSUME MirrorInv, FilesInv, DriftInv, Quiet
    PROVE  FilesInv' /\ DriftInv'
<1>1. Still /\ SourceTree' = SourceTree /\ source' = source /\ DeltaTree' = DeltaTree
      /\ UNCHANGED <<headFile, origin, deltas, snapshots>>
  BY StillCovered, SourceStays, TreesStay DEF Quiet
<1>2. srcHead \in Nat /\ srcHead' \in Nat /\ srcHead <= srcHead'
  BY BasicFacts DEF Quiet, MirrorInv, NumbersOK, Basics
<1>3. FilesInv'
  BY <1>1 DEF FilesInv
<1>4. ASSUME Apart' PROVE OriginInv' /\ RangeInv' /\ Drift'
  <2>1. OriginInv /\ RangeInv /\ Drift
    BY <1>1, <1>4 DEF DriftInv, Still, Frame
  <2>2. OriginInv'
    BY <1>1, <1>2, <2>1 DEF OriginInv, Still
  <2>3. RangeInv'
    <3> SUFFICES ASSUME NEW d \in Mirror, pc'[d] \in Copying \cup Ending
                 PROVE  run'[d].to <= srcHead' /\ \A n \in 1..headFile : origin[n] <= run'[d].to
      BY <1>1 DEF RangeInv
    <3>1. CASE pc[d] \in Copying \cup Ending /\ run'[d].to = run[d].to
      <4>1. run[d].to \in Nat
        BY BasicFacts DEF MirrorInv, Basics
      <4> QED BY <1>2, <2>1, <3>1, <4>1 DEF RangeInv
    <3>2. CASE run'[d].to = srcHead
      BY <1>2, <2>1, <3>2 DEF OriginInv
    <3> QED BY <3>1, <3>2 DEF Quiet
  <2>4. Drift'
    BY <1>1, <2>1 DEF Drift, Still, Frame
  <2> QED BY <2>2, <2>3, <2>4
<1> QED BY <1>3, <1>4 DEF DriftInv

(***************************************************************************)
(* The trees at rest.                                                      *)
(***************************************************************************)
LEMMA HeadTree ==
    ASSUME MirrorInv, DestInv
    PROVE  DestTree[headFile] = SourceTree[LastOrigin]
<1>1. headFile \in 0..MaxHead /\ MaxHead \in Nat
  BY MirrorAssumption DEF MirrorInv, NumbersOK
<1>2. CASE headFile = 0
  <2>1. 0 \in 0..MaxHead
    BY <1>1
  <2>2. DestTree[0] = Replayed(DestTree, deltas, snapshots, 0)
    BY <2>1, DestReplay DEF IsReplay
  <2>3. DestTree[0] = EmptyTree /\ SourceTree[0] = EmptyTree
    BY <2>2, SourceFacts DEF Replayed, MirrorInv
  <2> QED BY <1>2, <2>3 DEF LastOrigin
<1>3. CASE headFile # 0
  <2>1. headFile \in DestRev /\ headFile <= headFile
    BY <1>1, <1>3 DEF DestRev
  <2> QED BY <1>3, <2>1 DEF DestInv, LastOrigin
<1> QED BY <1>2, <1>3

LEMMA StartTree ==
    ASSUME MirrorInv, Calm, AheadInv, Resting
    PROVE  Start \in 0..MaxRev /\ LastOrigin <= Start /\ SourceTree[Start] = SourceTree[LastOrigin]
<1>1. LastOrigin \in 0..MaxRev /\ MaxRev \in Nat /\ LastOrigin <= Start
  BY BasicFacts, LastOriginType DEF MirrorInv, Basics, AheadInv
<1>2. CASE state = None
  <2>1. Start = 0
    BY <1>2 DEF Start
  <2>2. LastOrigin = 0
    BY <1>1, <2>1
  <2> QED BY <1>1, <2>1, <2>2
<1>3. CASE state # None
  <2>1. Start = EffectiveStart(state) /\ Covers(Start) /\ Start \in 0..MaxRev
    BY <1>3, BasicFacts DEF Start, MirrorInv, NumbersOK, CopyInv, StateInv, Calm, Basics
  <2>2. Start \in LastOrigin..MaxRev /\ \A r \in LastOrigin + 1..Start : Skipped(r)
    BY <1>1, <2>1 DEF Covers
  <2>3. SourceTree[Start] = SourceTree[LastOrigin]
    <3>1. NumbersOK
      BY DEF MirrorInv
    <3> QED BY <1>1, <2>2, <3>1, Gap
  <2> QED BY <1>1, <2>1, <2>3
<1> QED BY <1>2, <1>3

(***************************************************************************)
(* A run that deals with no revision, or no more.                          *)
(***************************************************************************)
LEMMA LeaveKeeps ==
    ASSUME MirrorInv, CalmInv, Calm, Quiet, Resting', objects' = objects,
           LastOrigin <= Start', rows' = SourceTree[LastOrigin]
    PROVE  CalmInv'
<1>1. DestInv /\ WholeInv
  BY DEF CalmInv
<1>2. Still /\ SourceTree' = SourceTree /\ DestTree' = DestTree /\ UNCHANGED <<headFile, origin, snapshots>>
  BY StillCovered, SourceStays, TreesStay DEF Quiet
<1>3. LastOrigin' = LastOrigin
  BY <1>2 DEF Still
<1>4. DestInv'
  BY <1>1, <1>2 DEF DestInv
<1>5. WholeInv'
  BY <1>1, <1>2, <1>3 DEF WholeInv, Resting, Copying
<1>6. AheadInv'
  BY <1>3 DEF AheadInv, Resting, Pulls
<1>7. RowsInv'
  BY <1>2, <1>3 DEF RowsInv, Resting, Pulls
<1> QED BY <1>4, <1>5, <1>6, <1>7 DEF CalmInv

(***************************************************************************)
(* A run that deals with its revisions.                                    *)
(***************************************************************************)
LEMMA InsideKeeps ==
    ASSUME MirrorInv, CalmInv, Calm, Quiet,
           NEW m \in Mirror, m \in setting.mirrors, Others(m), pc'[m] \in Copying \cup Ending,
           NEW h, NEW k, Handled(m)' = h, RowsAt(m)' = k,
           state' # None, LastOrigin <= h, Pulls(m)' => Start' = h,
           Pulls(m)' /\ pc'[m] = "commit" => writer' = m /\ saved' = SourceTree[h],
           rows' = SourceTree[k],
           \A e \in Entry : objects'[e] \in {"absent", "whole"} /\ (objects[e] = "whole" => objects'[e] = "whole"),
           pc'[m] \in {"apply", "commit"} => \A e \in Objects(run[m].cur) : objects'[e] = "whole",
           pc'[m] \in {"apply", "commit"} => run'[m] = run[m]
    PROVE  CalmInv'
<1>1. DestInv /\ WholeInv
  BY DEF CalmInv
<1>2. Still /\ SourceTree' = SourceTree /\ DestTree' = DestTree /\ source' = source
      /\ UNCHANGED <<headFile, origin, snapshots>>
  BY StillCovered, SourceStays, TreesStay DEF Quiet
<1>3. LastOrigin' = LastOrigin
  BY <1>2 DEF Still
<1>4. \A d \in Mirror : d # m => pc'[d] = "idle"
  BY Alone DEF Calm, MirrorInv, Others
<1>5. \A d \in Mirror : pc'[d] \in Copying \cup Ending => d = m
  BY <1>4 DEF Copying, Ending
<1>6. DestInv'
  BY <1>1, <1>2 DEF DestInv
<1>7. WholeInv'
  <2>1. \A e \in TreeObjects(SourceTree[LastOrigin]) : e \in Entry /\ objects'[e] = "whole"
    BY <1>1 DEF WholeInv, TreeObjects
  <2>2. \A d \in Mirror : pc'[d] \in {"apply", "commit"} =>
            \A e \in Objects(run[d].cur) : objects'[e] = "whole"
    BY <1>5 DEF Copying
  <2>3. \A d \in Mirror : pc'[d] \in {"apply", "commit"} => run'[d] = run[d]
    BY <1>5 DEF Copying
  <2>4. \A d \in Mirror : pc'[d] \in {"apply", "commit"} =>
            \A e \in Objects(run[d].cur)' : objects'[e] = "whole"
    BY <1>2, <2>2, <2>3 DEF Objects
  <2> QED BY <1>2, <1>3, <2>1, <2>4 DEF WholeInv
<1>p. \A d \in Mirror : Pulls(d)' => d = m
  BY <1>5 DEF Pulls
<1>8. AheadInv'
  BY <1>3, <1>5, <1>p DEF AheadInv, Resting
<1>9. RowsInv'
  BY <1>2, <1>5, <1>p DEF RowsInv, Resting
<1> QED BY <1>6, <1>7, <1>8, <1>9 DEF CalmInv

(***************************************************************************)
(* One lemma for each group of steps.                                      *)
(***************************************************************************)
LEMMA CalmAround ==
    ASSUME MirrorInv, CalmInv, SourceCommit \/ SetConfig \/ InitMirror \/ Cleanup \/ UNCHANGED vars
    PROVE  CalmInv'
<1> USE DEF vars, sourceVars, files, db, props, history
<1> SUFFICES ASSUME Calm' PROVE CalmInv'
  BY DEF CalmInv
<1>0. Basics /\ Quiet /\ faulty \in Nat
  BY BasicFacts, QuietAround DEF MirrorInv, NumbersOK
<1>1. UNCHANGED <<pc, run, rows, writer, saved, objects>>
  BY DEF SourceCommit, SetConfig, InitMirror, Cleanup
<1>2. ~Cleanup /\ faulty' = faulty
  BY <1>0 DEF Calm, SourceCommit, SetConfig, InitMirror, Cleanup
<1>3. Still /\ SourceTree' = SourceTree /\ DestTree' = DestTree /\ source' = source
      /\ UNCHANGED <<headFile, origin, snapshots>>
  BY <1>0, StillCovered, SourceStays, TreesStay DEF Quiet
<1>4. Calm
  BY <1>2, <1>3 DEF Calm, Still, Frame
<1>5. AheadInv /\ DestInv /\ RowsInv /\ WholeInv
  BY <1>4 DEF CalmInv
<1>6. Start' = Start /\ (state # None => state' # None)
  BY <1>0, <1>2 DEF Start, EffectiveStart, Basics, SourceCommit, SetConfig, InitMirror
<1>7. LastOrigin' = LastOrigin /\ (Resting' <=> Resting)
  BY <1>1, <1>3 DEF Still, Resting
<1>8. \A m \in Mirror : Handled(m)' = Handled(m) /\ RowsAt(m)' = RowsAt(m) /\ Pulls(m)' = Pulls(m)
  BY <1>1 DEF Handled, RowsAt, Pulls, Local
<1>9. AheadInv'
  BY <1>1, <1>5, <1>6, <1>7, <1>8 DEF AheadInv
<1>10. DestInv'
  BY <1>3, <1>5 DEF DestInv
<1>11. RowsInv'
  <2>1. \A m \in Mirror : Pulls(m)' /\ pc'[m] = "commit" => writer' = m /\ saved' = SourceTree'[Handled(m)']
    BY <1>1, <1>3, <1>5, <1>8 DEF RowsInv
  <2>2. \A m \in Mirror : pc'[m] \in Copying \cup Ending => rows' = SourceTree'[RowsAt(m)']
    BY <1>1, <1>3, <1>5, <1>8 DEF RowsInv
  <2>3. Resting' => rows' = SourceTree'[LastOrigin']
    BY <1>1, <1>3, <1>5, <1>7 DEF RowsInv
  <2> QED BY <2>1, <2>2, <2>3 DEF RowsInv
<1>12. WholeInv'
  BY <1>1, <1>3, <1>5, <1>7 DEF WholeInv, Objects
<1> QED BY <1>9, <1>10, <1>11, <1>12 DEF CalmInv

LEMMA RestingAfter ==
    ASSUME MirrorInv, Apart, NEW m \in Mirror, m \in setting.mirrors, Others(m),
           pc'[m] \notin Copying \cup Ending
    PROVE  Resting' /\ (pc[m] \notin Copying \cup Ending => Resting)
<1>1. \A d \in Mirror : d # m => pc[d] = "idle" /\ pc'[d] = "idle"
  BY Alone DEF MirrorInv, Others
<1> QED BY <1>1 DEF Resting, Copying, Ending

LEMMA GotoMoves ==
    ASSUME MirrorInv, NEW m \in Mirror, NEW l, Goto(m, l)
    PROVE  /\ pc'[m] = l /\ Others(m)
           /\ l # "idle" => run'[m] = run[m]
BY DEF Goto, Others, MirrorInv, NumbersOK

LEMMA CalmCommand ==
    ASSUME MirrorInv, CalmInv, NEW m \in Mirror, Command(m) \/ LoadFails(m)
    PROVE  CalmInv'
<1> USE DEF sourceVars, files, db, props, history
<1> SUFFICES ASSUME Calm' PROVE CalmInv'
  BY DEF CalmInv
<1>1. /\ UNCHANGED <<setting, rows, state, objects, enabled, faulty>> /\ Quiet
      /\ pc[m] \in {"check_lock", "set_lock", "merged", "unlock", "load"}
  BY QuietRun DEF Command, CheckLock, SetLock, SetLastMerged, ReleaseLock, LoadFails
<1>2. PICK l \in {"idle", "set_lock", "load", "unlock"} : Goto(m, l)
  BY AfterRunEnds DEF Command, CheckLock, SetLock, SetLastMerged, ReleaseLock, LoadFails
<1>3. Calm
  BY <1>1, SettingStays DEF Calm, Frame
<1>4. pc'[m] \notin Copying \cup Ending /\ pc[m] \notin Copying \cup Ending /\ Others(m)
  BY <1>1, <1>2, GotoMoves DEF Copying, Ending
<1>5. m \in setting.mirrors
  BY <1>1 DEF MirrorInv, BoundsInv, Bounds
<1>6. Resting' /\ Resting
  BY <1>3, <1>4, <1>5, RestingAfter DEF Calm
<1>7. Start' = Start
  BY <1>1 DEF Start, EffectiveStart
<1>8. LastOrigin <= Start' /\ rows = SourceTree[LastOrigin]
  BY <1>3, <1>6, <1>7 DEF CalmInv, AheadInv, RowsInv
<1> QED BY <1>1, <1>3, <1>6, <1>8, LeaveKeeps

LEMMA CalmOpen ==
    ASSUME MirrorInv, CalmInv, NEW m \in Mirror, NEW k \in Kind, Open(m, k)
    PROVE  CalmInv'
<1> USE DEF sourceVars, files, db, props, history
<1> SUFFICES ASSUME Calm' PROVE CalmInv'
  BY DEF CalmInv
<1>1. /\ UNCHANGED <<setting, state, objects, enabled, faulty>> /\ Quiet
      /\ pc[m] = "idle" /\ m \in setting.mirrors
      /\ rows' \in {rows, DestTree[headFile]}
  BY QuietStart DEF Open
<1>2. Calm
  BY <1>1, SettingStays DEF Calm, Frame
<1>3. pc'[m] \notin Copying \cup Ending /\ pc[m] \notin Copying \cup Ending /\ Others(m)
  BY <1>1 DEF Open, Others, Copying, Ending, MirrorInv, NumbersOK
<1>4. Resting' /\ Resting
  BY <1>1, <1>2, <1>3, RestingAfter DEF Calm
<1>5. Start' = Start
  BY <1>1 DEF Start, EffectiveStart
<1>6. LastOrigin <= Start' /\ rows = SourceTree[LastOrigin]
  BY <1>2, <1>4, <1>5 DEF CalmInv, AheadInv, RowsInv
<1>7. DestTree[headFile] = SourceTree[LastOrigin]
  BY <1>2, HeadTree DEF CalmInv
<1> QED BY <1>1, <1>2, <1>4, <1>6, <1>7, LeaveKeeps

(***************************************************************************)
(* A run that ends.                                                        *)
(***************************************************************************)
LEMMA CalmEnd ==
    ASSUME MirrorInv, CalmInv, NEW m \in Mirror,
           CompleteSync(m) \/ GiveUp(m) \/ Crash(m) \/ Fail(m) \/ HashMismatch(m) \/ CommitPanics(m)
    PROVE  CalmInv'
<1> USE DEF sourceVars, files, db, props, history
<1> SUFFICES ASSUME Calm' PROVE CalmInv'
  BY DEF CalmInv
<1>0. faulty \in Nat
  BY DEF MirrorInv, NumbersOK
<1>1. CompleteSync(m) \/ GiveUp(m) \/ HashMismatch(m) \/ CommitPanics(m)
  BY <1>0 DEF Calm, Crash, Fail
<1>2. /\ UNCHANGED <<setting, objects, faulty>> /\ Quiet
      /\ pc[m] \in {"complete", "fetch", "store", "apply", "commit"}
  BY <1>1, QuietRun DEF CompleteSync, GiveUp, HashMismatch, CommitPanics, Finish
<1>3. Calm /\ m \in setting.mirrors
  BY <1>2, SettingStays DEF Calm, Frame, MirrorInv, BoundsInv, Bounds
<1>4. PICK l \in {"idle", "merged", "unlock"} : Goto(m, l)
  BY <1>1, AfterRunEnds DEF CompleteSync, GiveUp, HashMismatch, CommitPanics
<1>5. pc'[m] \notin Copying \cup Ending /\ Others(m)
  BY <1>4, GotoMoves DEF Copying, Ending
<1>6. Resting'
  BY <1>3, <1>5, RestingAfter DEF Calm
<1>7. AheadInv /\ RowsInv /\ LastOrigin \in 0..MaxRev /\ MaxRev \in Nat /\ Basics
  BY <1>3, BasicFacts, LastOriginType DEF CalmInv, MirrorInv, Basics
<1>8. CASE CompleteSync(m)
  <2>1. /\ pc[m] = "complete" /\ state' = [last |-> run[m].to, checkpoint |-> None] /\ rows' = rows
    BY <1>8 DEF CompleteSync
  <2>2. run[m].to \in 1..MaxRev /\ run[m].cur = run[m].to + 1
    BY <1>7, <2>1 DEF Basics, MirrorInv, BoundsInv, Bounds, Ending
  <2>3. Handled(m) = run[m].to /\ RowsAt(m) = run[m].to
    BY <1>7, <2>1, <2>2 DEF Handled, RowsAt
  <2>4. Start' = run[m].to
    <3>1. [last |-> run[m].to, checkpoint |-> None] \in State
      BY <1>7, <2>2 DEF State
    <3>2. state' # None
      BY <1>7, <2>1, <3>1 DEF Basics
    <3> QED BY <2>1, <3>2 DEF Start, EffectiveStart
  <2>5. LastOrigin <= run[m].to /\ rows = SourceTree[run[m].to] /\ Covers(run[m].to)
    BY <1>3, <1>7, <2>1, <2>3 DEF AheadInv, RowsInv, Ending, MirrorInv, CopyInv, Calm, Knows
  <2>6. run[m].to \in LastOrigin..MaxRev /\ \A r \in LastOrigin + 1..run[m].to : Skipped(r)
    BY <1>7, <2>2, <2>5 DEF Covers
  <2>7. SourceTree[run[m].to] = SourceTree[LastOrigin]
    <3>1. NumbersOK
      BY DEF MirrorInv
    <3> QED BY <1>7, <2>6, <3>1, Gap
  <2> QED BY <1>2, <1>3, <1>6, <2>1, <2>4, <2>5, <2>7, LeaveKeeps
<1>9. CASE GiveUp(m) \/ HashMismatch(m) \/ CommitPanics(m)
  <2>1. state' = state
    BY <1>9 DEF GiveUp, HashMismatch, CommitPanics
  <2>2. Pulls(m) /\ pc[m] \in {"fetch", "store", "commit"}
    <3>1. CASE GiveUp(m) /\ pc[m] = "apply" /\ writer \notin {Nobody, m}
      <4>1. writer \in Mirror /\ pc[writer] # "idle"
        BY <3>1 DEF MirrorInv, NumbersOK, WriterInv, Copying
      <4> QED BY <1>3, <3>1, <4>1, Alone DEF MirrorInv, Calm
    <3>2. CASE pc[m] = "fetch"
      BY <3>2 DEF Pulls, Copying, MirrorInv, BoundsInv, Bounds
    <3>3. CASE HashMismatch(m) \/ CommitPanics(m)
      BY <3>3 DEF HashMismatch, CommitPanics, Pulls, Copying
    <3> QED BY <1>9, <3>1, <3>2, <3>3 DEF GiveUp
  <2>3. /\ Start' = Start /\ Start = Handled(m) /\ LastOrigin <= Handled(m)
        /\ Covers(Handled(m)) /\ Handled(m) \in 0..MaxRev
    BY <1>3, <1>7, <2>1, <2>2 DEF Start, EffectiveStart, AheadInv, Pulls, Handled, Copying, Basics,
       MirrorInv, BoundsInv, Bounds, CopyInv, Calm, Knows
  <2>4. rows' = SourceTree[Handled(m)]
    <3>1. CASE pc[m] = "commit"
      <4>1. writer = m /\ saved = SourceTree[Handled(m)]
        BY <1>7, <2>2, <3>1 DEF RowsInv
      <4> QED BY <1>9, <3>1, <4>1 DEF GiveUp, HashMismatch, CommitPanics, Rollback
    <3>2. CASE pc[m] # "commit"
      <4>1. writer # m
        BY <2>2, <3>2, WriterIsCopying DEF Pulls
      <4>2. rows' = rows
        BY <1>9, <3>2, <4>1 DEF GiveUp, HashMismatch, CommitPanics, Rollback
      <4> QED BY <1>7, <2>2, <3>2, <4>2 DEF RowsInv, RowsAt, Pulls
    <3> QED BY <3>1, <3>2
  <2>5. SourceTree[Handled(m)] = SourceTree[LastOrigin]
    <3>1. NumbersOK
      BY DEF MirrorInv
    <3>2. Handled(m) \in LastOrigin..MaxRev /\ \A r \in LastOrigin + 1..Handled(m) : Skipped(r)
      BY <1>7, <2>3 DEF Covers
    <3> QED BY <1>7, <3>1, <3>2, Gap
  <2> QED BY <1>2, <1>3, <1>6, <2>3, <2>4, <2>5, LeaveKeeps
<1> QED BY <1>1, <1>8, <1>9

(***************************************************************************)
(* A run enters its range: the rows are the tree of what the state covers. *)
(***************************************************************************)
LEMMA LoadMoves ==
    ASSUME MirrorInv, NEW m \in Mirror, LoadState(m)
    PROVE  /\ Others(m) /\ Start' = Start /\ state' # None
           /\ \/ pc'[m] \notin Copying \cup Ending
              \/ pc'[m] \in {"store", "fetch"} /\ run'[m].cur = Start + 1
<1>0. Basics /\ pc \in [Mirror -> PC] /\ run \in [Mirror -> Run]
  BY BasicFacts DEF MirrorInv, NumbersOK
<1>1. (state # None /\ state' = state) \/ (state = None /\ state' = NewState)
  BY DEF LoadState
<1>2. state' # None /\ Start = EffectiveStart(state') /\ Start' = Start
  BY <1>0, <1>1 DEF Start, Basics, EffectiveStart
<1>3. CASE Goto(m, AfterRun(m))
  <2>1. PICK l \in {"idle", "unlock"} : Goto(m, l)
    BY <1>3, AfterRunEnds
  <2> QED BY <1>2, <2>1, GotoMoves DEF Copying, Ending
<1>4. CASE ~Goto(m, AfterRun(m))
  <2> DEFINE first == EffectiveStart(state') + 1
             new == [run[m] EXCEPT !.last = state'.last, !.from = first, !.cur = first, !.to = srcHead]
  <2>1. /\ run' = [run EXCEPT ![m] = new]
        /\ pc' = [pc EXCEPT ![m] = IF Local(m) THEN "store" ELSE "fetch"]
    BY <1>4 DEF LoadState
  <2>2. new.cur = first
    <3>1. run[m] \in Run
      BY <1>0
    <3> HIDE DEF first
    <3> QED BY <3>1 DEF Run
  <2>3. first = Start + 1
    BY <1>2
  <2> HIDE DEF new, first
  <2> QED BY <1>0, <1>2, <2>1, <2>2, <2>3 DEF Others
<1> QED BY <1>3, <1>4

LEMMA CalmLoad ==
    ASSUME MirrorInv, CalmInv, NEW m \in Mirror, LoadState(m)
    PROVE  CalmInv'
<1> USE DEF sourceVars, files, db, props, history
<1> SUFFICES ASSUME Calm' PROVE CalmInv'
  BY DEF CalmInv
<1>1. UNCHANGED <<setting, rows, objects, enabled, faulty>> /\ Quiet /\ pc[m] = "load"
  BY QuietStart DEF LoadState
<1>2. Calm /\ m \in setting.mirrors /\ run[m].kind \in setting.kinds
  BY <1>1, SettingStays DEF Calm, Frame, MirrorInv, BoundsInv, Bounds
<1>3. /\ Others(m) /\ Start' = Start /\ state' # None
      /\ pc'[m] \notin Copying \cup Ending \/ (pc'[m] \in {"store", "fetch"} /\ run'[m].cur = Start + 1)
  BY LoadMoves
<1>4. Resting
  <2>1. \A d \in Mirror : d # m => pc[d] = "idle"
    BY <1>2, Alone DEF MirrorInv, Calm
  <2> QED BY <1>1, <2>1 DEF Resting, Copying, Ending
<1>5. AheadInv /\ RowsInv /\ WholeInv
  BY <1>2 DEF CalmInv
<1>6. Start \in 0..MaxRev /\ LastOrigin <= Start /\ SourceTree[Start] = SourceTree[LastOrigin]
  BY <1>2, <1>4, <1>5, StartTree
<1>7. CASE pc'[m] \notin Copying \cup Ending
  <2>1. Resting'
    BY <1>2, <1>3, <1>7, RestingAfter DEF Calm
  <2>2. rows' = SourceTree[LastOrigin]
    BY <1>1, <1>4, <1>5 DEF RowsInv
  <2> QED BY <1>1, <1>2, <1>3, <1>6, <2>1, <2>2, LeaveKeeps
<1>8. CASE pc'[m] \in {"store", "fetch"} /\ run'[m].cur = Start + 1
  <2>2. Start \in Nat
    BY <1>6, BasicFacts DEF MirrorInv, Basics
  <2>3. Handled(m)' = Start /\ RowsAt(m)' = Start
    BY <1>8, <2>2 DEF Handled, RowsAt
  <2>4. rows' = SourceTree[Start]
    BY <1>1, <1>4, <1>5, <1>6 DEF RowsInv
  <2>5. \A e \in Entry : objects'[e] \in {"absent", "whole"}
    BY <1>1, <1>5 DEF WholeInv
  <2>6. pc'[m] \in Copying \cup Ending
    BY <1>8 DEF Copying
  <2> QED BY <1>1, <1>2, <1>3, <1>6, <1>8, <2>3, <2>4, <2>5, <2>6, InsideKeeps
<1> QED BY <1>3, <1>7, <1>8

(***************************************************************************)
(* A run deals with a revision.                                            *)
(***************************************************************************)
LEMMA CalmCopy ==
    ASSUME MirrorInv, CalmInv, NEW m \in Mirror,
           \/ Fetch(m) \/ StoreObjects(m) \/ ApplyChanges(m) \/ SaveRevprops(m)
           \/ Checkpoint(m) \/ EndBatch(m) \/ AppendLog(m)
    PROVE  CalmInv'
<1> USE DEF sourceVars, files, db, props, history
<1> DEFINE cur == run[m].cur
<1> SUFFICES ASSUME Calm' PROVE CalmInv'
  BY DEF CalmInv
<1>1. /\ UNCHANGED <<setting, faulty>> /\ Quiet
      /\ pc[m] \in (Copying \ {"commit"}) \cup {"end_batch", "log"}
  BY QuietRun, QuietStart DEF Fetch, StoreObjects, ApplyChanges, SaveRevprops, Checkpoint, EndBatch, AppendLog,
     Finish, Copying
<1>2. Calm /\ m \in setting.mirrors
  BY <1>1, SettingStays DEF Calm, Frame, MirrorInv, BoundsInv, Bounds, Copying
<1>3. AheadInv /\ RowsInv /\ WholeInv
  BY <1>2 DEF CalmInv
<1>4. /\ state # None /\ LastOrigin <= Handled(m) /\ rows = SourceTree[RowsAt(m)]
      /\ RowsAt(m) = Handled(m) /\ (Pulls(m) => Start = Handled(m))
  BY <1>1, <1>3 DEF AheadInv, RowsInv, RowsAt, Copying, Ending
<1>5. /\ MaxRev \in Nat /\ cur \in 1..MaxRev + 1 /\ LastOrigin \in 0..MaxRev /\ NumbersOK
      /\ pc[m] \in Copying => cur \in 1..MaxRev
  BY <1>1, BasicFacts, LastOriginType DEF Basics, MirrorInv, BoundsInv, Bounds, Copying, Ending
<1>6. \A e \in Entry : objects[e] \in {"absent", "whole"}
  BY <1>3 DEF WholeInv
<1>7. CASE Fetch(m) \/ SaveRevprops(m) \/ EndBatch(m) \/ AppendLog(m)
  <2>1. /\ UNCHANGED <<rows, objects, state>>
        /\ \/ pc[m] = "fetch" /\ Goto(m, "store")
           \/ pc[m] = "props" /\ Goto(m, "checkpoint")
           \/ pc[m] = "end_batch" /\ Goto(m, "log")
           \/ pc[m] = "log" /\ Goto(m, "complete")
    BY <1>7 DEF Fetch, SaveRevprops, EndBatch, AppendLog
  <2>2. Others(m) /\ run'[m] = run[m] /\ pc'[m] \in {"store", "checkpoint", "log", "complete"}
    BY <2>1, GotoMoves
  <2>3. Handled(m)' = Handled(m) /\ RowsAt(m)' = Handled(m)
    BY <2>1, <2>2, GotoMoves DEF Handled, RowsAt
  <2>4. pc'[m] \in Copying \cup Ending
    BY <2>2 DEF Copying, Ending
  <2>5. Start' = Start /\ (Pulls(m)' => Pulls(m))
    <3>1. Local(m)' <=> Local(m)
      BY <2>2 DEF Local
    <3>2. pc[m] \notin Copying => Local(m)
      BY <1>1 DEF MirrorInv, BoundsInv, Bounds, Ending
    <3>3. Start' = Start
      BY <2>1 DEF Start, EffectiveStart
    <3> QED BY <3>1, <3>2, <3>3 DEF Pulls
  <2> QED BY <1>1, <1>2, <1>4, <1>6, <2>1, <2>2, <2>3, <2>4, <2>5, InsideKeeps
<1>8. CASE StoreObjects(m) /\ Skipped(cur) /\ Local(m)
  <2>1. UNCHANGED <<rows, objects, state>> /\ pc[m] = "store" /\ Goto(m, "checkpoint")
    BY <1>8 DEF StoreObjects
  <2>2. Others(m) /\ run'[m] = run[m] /\ pc'[m] = "checkpoint"
    BY <2>1, GotoMoves
  <2>3. Handled(m)' = cur /\ RowsAt(m)' = cur /\ Handled(m) = cur - 1
    BY <2>1, <2>2 DEF Handled, RowsAt
  <2>4. cur \in 1..MaxRev /\ cur - 1 \in 0..MaxRev /\ cur \in cur - 1..MaxRev
        /\ (\A r \in cur - 1 + 1..cur : r = cur)
    BY <1>5, <2>1 DEF Copying
  <2>5. SourceTree[cur] = SourceTree[cur - 1]
    BY <1>5, <1>8, <2>4, Gap
  <2>6. LastOrigin <= cur
    BY <1>4, <1>5, <2>3
  <2>7. pc'[m] \in Copying \cup Ending /\ ~Pulls(m)'
    BY <1>8, <2>2 DEF Copying, Pulls, Local
  <2> QED BY <1>1, <1>2, <1>4, <1>6, <2>1, <2>2, <2>3, <2>5, <2>6, <2>7, InsideKeeps
<1>9. CASE StoreObjects(m) /\ ~(Skipped(cur) /\ Local(m))
  <2>1. /\ UNCHANGED <<rows, state>> /\ pc[m] = "store" /\ Goto(m, "apply")
        /\ objects' = [e \in Entry |-> IF e \in Objects(cur) /\ objects[e] = "absent" THEN "whole" ELSE objects[e]]
    BY <1>9 DEF StoreObjects
  <2>2. Others(m) /\ run'[m] = run[m] /\ pc'[m] = "apply"
    BY <2>1, GotoMoves
  <2>3. Handled(m)' = Handled(m) /\ RowsAt(m)' = Handled(m)
    BY <2>1, <2>2 DEF Handled, RowsAt
  <2>5. \A e \in Entry : objects'[e] \in {"absent", "whole"} /\ (objects[e] = "whole" => objects'[e] = "whole")
    BY <1>6, <2>1
  <2>6. \A e \in Objects(cur) : objects'[e] = "whole"
    BY <1>6, <2>1 DEF Objects, DeltaObjects
  <2>7. pc'[m] \in Copying \cup Ending /\ Start' = Start /\ (Pulls(m)' => Pulls(m))
    BY <2>1, <2>2 DEF Copying, Start, EffectiveStart, Pulls, Local
  <2> QED BY <1>1, <1>2, <1>4, <2>1, <2>2, <2>3, <2>5, <2>6, <2>7, InsideKeeps
<1>10. CASE ApplyChanges(m)
  <2>1. /\ UNCHANGED <<objects, state>> /\ pc[m] = "apply" /\ Goto(m, "commit")
        /\ rows' = ApplyDelta(rows, source[cur])
        /\ writer' = m /\ (writer # m => saved' = rows)
    BY <1>10 DEF ApplyChanges
  <2>2. Others(m) /\ run'[m] = run[m] /\ pc'[m] = "commit"
    BY <2>1, GotoMoves
  <2>3. Handled(m)' = cur - 1 /\ RowsAt(m)' = cur /\ Handled(m) = cur - 1
    BY <2>1, <2>2 DEF Handled, RowsAt
  <2>4. SourceTree[cur] = ApplyDelta(SourceTree[cur - 1], source[cur])
    BY <1>5, <2>1, SourceFacts DEF Copying
  <2>5. rows' = SourceTree[cur]
    BY <1>4, <2>1, <2>3, <2>4
  <2>6. \A e \in Objects(cur) : objects'[e] = "whole"
    BY <1>3, <2>1 DEF WholeInv
  <2>7. pc'[m] \in Copying \cup Ending /\ Start' = Start /\ (Pulls(m)' => Pulls(m))
    BY <2>1, <2>2 DEF Copying, Start, EffectiveStart, Pulls, Local
  <2>8. Pulls(m) => saved' = SourceTree[cur - 1]
    BY <1>4, <2>1, <2>3, WriterIsCopying DEF Pulls
  <2> QED BY <1>1, <1>2, <1>4, <1>6, <2>1, <2>2, <2>3, <2>5, <2>6, <2>7, <2>8, InsideKeeps
<1>11. CASE Checkpoint(m)
  <2> DEFINE chk == [last |-> run[m].last, checkpoint |-> cur]
             new == [run[m] EXCEPT !.count = run[m].count + 1, !.cur = cur + 1]
  <2>1. /\ UNCHANGED <<rows, objects>> /\ pc[m] = "checkpoint"
        /\ run' = [run EXCEPT ![m] = new]
        /\ state' = IF CheckpointDue(m) THEN chk ELSE state
        /\ pc' = [pc EXCEPT ![m] = IF cur = run[m].to THEN "end_batch" ELSE "store"]
    BY <1>11 DEF Checkpoint
  <2>2. new.cur = cur + 1 /\ new.kind = run[m].kind
    <3>1. run[m] \in Run
      BY DEF MirrorInv, NumbersOK
    <3> QED BY <3>1 DEF Run
  <2> HIDE DEF new
  <2>3. /\ Others(m) /\ run'[m].cur = cur + 1 /\ pc'[m] \in {"end_batch", "store"}
        /\ run'[m].kind = run[m].kind
    BY <2>1, <2>2 DEF Others, MirrorInv, NumbersOK
  <2>4. Handled(m)' = cur /\ RowsAt(m)' = cur /\ Handled(m) = cur
    BY <1>5, <2>1, <2>3 DEF Handled, RowsAt
  <2>5. chk # None
    <3>1. chk \in State
      BY <1>5, <2>1, BasicFacts DEF State, Basics, Copying
    <3> QED BY <1>5, <3>1, BasicFacts DEF Basics
  <2> HIDE DEF chk
  <2>6. state' # None /\ ~Pulls(m)'
    BY <1>4, <2>1, <2>3, <2>5 DEF Pulls, Local, MirrorInv, BoundsInv, Bounds
  <2>7. pc'[m] \in Copying \cup Ending /\ pc'[m] \notin {"apply", "commit"}
    BY <2>3 DEF Copying, Ending
  <2> QED BY <1>1, <1>2, <1>4, <1>6, <2>1, <2>3, <2>4, <2>6, <2>7, InsideKeeps
<1> QED BY <1>7, <1>8, <1>9, <1>10, <1>11

(***************************************************************************)
(* A commit publishes the tree of its revision.                            *)
(***************************************************************************)
LEMMA CalmCommit ==
    ASSUME MirrorInv, FilesInv, CalmInv, NEW m \in Mirror, Commit(m)
    PROVE  CalmInv'
<1> USE DEF sourceVars, files, db, props, history
<1> DEFINE cur == run[m].cur
<1> SUFFICES ASSUME Calm' PROVE CalmInv'
  BY DEF CalmInv
<1>1. UNCHANGED <<setting, faulty, objects, state, rows>> /\ pc[m] = "commit" /\ Local(m)
  BY DEF Commit
<1>2. Calm /\ m \in setting.mirrors
  BY <1>1, SettingStays DEF Calm, Frame, MirrorInv, BoundsInv, Bounds
<1>3. AheadInv /\ DestInv /\ RowsInv /\ WholeInv
  BY <1>2 DEF CalmInv
<1>4. /\ headFile' = headFile + 1 /\ headFile \in 0..MaxHead /\ headFile' \in DestRev /\ MaxHead \in Nat
      /\ origin'[headFile'] = cur
      /\ \A n \in 1..headFile : origin'[n] = origin[n]
      /\ LastOrigin' = cur /\ Covers(cur - 1)
  BY <1>2, CommitGrows, MirrorAssumption DEF Calm
<1>5. /\ \A n \in 0..headFile : DestTree'[n] = DestTree[n]
      /\ DestTree'[headFile'] = IF snapshots'[headFile'] # NoTree THEN snapshots'[headFile']
                                ELSE ApplyDelta(DestTree[headFile], source[cur])
      /\ snapshots'[headFile'] \in {rows, snapshots[headFile']}
      /\ \A n \in DestRev : n # headFile' => snapshots'[n] = snapshots[n]
      /\ SourceTree' = SourceTree /\ source' = source
  BY <1>2, CommitTrees DEF Calm
<1>6. /\ MaxRev \in Nat /\ cur \in 1..MaxRev /\ LastOrigin \in 0..MaxRev /\ NumbersOK
  BY <1>1, BasicFacts, LastOriginType DEF Basics, MirrorInv, BoundsInv, Bounds, Copying
<1>7. rows = SourceTree[cur] /\ state # None /\ LastOrigin <= cur - 1
  BY <1>1, <1>3 DEF RowsInv, RowsAt, AheadInv, Handled, Copying
<1>8. SourceTree[cur] = ApplyDelta(SourceTree[LastOrigin], source[cur])
  <2>1. cur - 1 \in LastOrigin..MaxRev /\ \A r \in LastOrigin + 1..cur - 1 : Skipped(r)
    BY <1>4, <1>6, <1>7 DEF Covers
  <2>2. SourceTree[cur - 1] = SourceTree[LastOrigin]
    BY <1>6, <2>1, Gap
  <2> QED BY <1>6, <2>2, SourceFacts
<1>9. Others(m) /\ pc'[m] = "props" /\ run'[m].cur = cur /\ run'[m].kind = run[m].kind
  BY DEF Commit, MirrorInv, NumbersOK, Others, Run
<1>10. \A d \in Mirror : pc'[d] \in Copying \cup Ending => d = m
  <2>1. \A d \in Mirror : d # m => pc'[d] = "idle"
    BY <1>2, <1>9, Alone DEF MirrorInv, Calm, Others
  <2> QED BY <2>1 DEF Copying, Ending
<1>p. \A d \in Mirror : ~Pulls(d)'
  BY <1>1, <1>9, <1>10 DEF Pulls, Local
<1>11. Handled(m)' = cur /\ RowsAt(m)' = cur
  BY <1>9 DEF Handled, RowsAt
<1>12. ~Resting'
  BY <1>9 DEF Resting, Copying
<1> HIDE DEF cur
<1>13. DestInv'
  <2> SUFFICES ASSUME NEW n \in DestRev
               PROVE  IF n <= headFile' THEN DestTree'[n] = SourceTree[origin'[n]] ELSE snapshots'[n] = NoTree
    BY <1>5 DEF DestInv
  <2>1. CASE n = headFile'
    <3>1. snapshots[headFile'] = NoTree
      BY <1>3, <1>4 DEF DestInv
    <3>2. DestTree[headFile] = SourceTree[LastOrigin]
      BY <1>3, HeadTree
    <3>3. DestTree'[headFile'] = SourceTree[cur]
      BY <1>5, <1>7, <1>8, <3>1, <3>2
    <3>4. headFile' <= headFile'
      BY <1>4
    <3> QED BY <1>4, <2>1, <3>3, <3>4
  <2>2. CASE n # headFile' /\ n <= headFile'
    <3>1. n \in 1..headFile /\ n \in 0..headFile /\ n <= headFile
      BY <1>4, <2>2 DEF DestRev
    <3> QED BY <1>3, <1>4, <1>5, <2>2, <3>1 DEF DestInv
  <2>3. CASE ~(n <= headFile')
    <3>1. ~(n <= headFile) /\ n # headFile'
      BY <1>4, <2>3 DEF DestRev
    <3> QED BY <1>3, <1>5, <2>3, <3>1 DEF DestInv
  <2> QED BY <2>1, <2>2, <2>3
<1>14. WholeInv'
  <2>1. ASSUME NEW e \in TreeObjects(SourceTree[cur]) PROVE objects[e] = "whole"
    <3>1. PICK p \in Path : e = SourceTree[cur][p] /\ e \in Entry
      BY DEF TreeObjects
    <3>2. e = source[cur][p] \/ e = NoEntry \/ e = SourceTree[LastOrigin][p]
      BY <1>8, <3>1 DEF ApplyDelta
    <3>3. CASE e = source[cur][p]
      <4>1. e \in Objects(cur)
        BY <3>1, <3>3 DEF Objects, DeltaObjects
      <4> QED BY <1>1, <1>3, <4>1 DEF WholeInv, cur
    <3>4. CASE e = SourceTree[LastOrigin][p]
      <4>1. e \in TreeObjects(SourceTree[LastOrigin])
        BY <3>1, <3>4 DEF TreeObjects
      <4> QED BY <1>3, <4>1 DEF WholeInv
    <3> QED BY <3>1, <3>2, <3>3, <3>4, MarkerAssumption
  <2>2. \A d \in Mirror : pc'[d] \notin {"apply", "commit"}
    BY <1>9, <1>10 DEF Copying
  <2> QED BY <1>1, <1>3, <1>4, <1>5, <2>1, <2>2 DEF WholeInv
<1>15. AheadInv'
  <2>2. LastOrigin' <= Handled(m)'
    BY <1>4, <1>6, <1>11
  <2> QED BY <1>1, <1>7, <1>10, <1>12, <1>p, <2>2 DEF AheadInv
<1>16. RowsInv'
  BY <1>1, <1>5, <1>7, <1>10, <1>11, <1>12, <1>p DEF RowsInv
<1> QED BY <1>13, <1>14, <1>15, <1>16 DEF CalmInv

-----------------------------------------------------------------------------
LEMMA FaithInit == Init => FaithInv
<1> SUFFICES ASSUME Init PROVE FaithInv
  OBVIOUS
<1>1. MirrorInv
  BY MirrorInit
<1>2. FilesInv
  BY DEF Init, FilesInv
<1>3. /\ headFile = 0 /\ LastOrigin = 0 /\ MaxRev \in Nat
      /\ \A m \in Mirror : pc[m] = "idle"
      /\ SourceTree[0] = EmptyTree
  BY <1>1, SourceFacts, BasicFacts DEF Init, LastOrigin, MirrorInv, Basics
<1>4. DeltaTree[0] = EmptyTree
  <2>1. 0 \in 0..MaxHead
    BY MirrorAssumption
  <2>2. DeltaTree[0] = Replayed(DeltaTree, deltas, NoSnapshots, 0)
    BY <2>1, DeltaReplay DEF IsReplay
  <2> QED BY <2>2 DEF Replayed
<1>5. DriftInv
  BY <1>3, <1>4 DEF DriftInv, OriginInv, RangeInv, Drift, Copying, Ending
<1>6. CalmInv
  <2>1. AheadInv
    <3>1. Start = 0
      BY DEF Init, Start
    <3> QED BY <1>3, <3>1 DEF AheadInv, Pulls, Copying, Ending
  <2>2. DestInv
    <3>1. \A n \in DestRev : ~(n <= 0)
      BY MirrorAssumption DEF DestRev
    <3> QED BY <3>1 DEF Init, DestInv
  <2>3. RowsInv
    BY <1>3 DEF Init, RowsInv, Pulls, Copying, Ending
  <2>4. WholeInv
    <3>1. TreeObjects(EmptyTree) = {}
      BY MarkerAssumption DEF TreeObjects, EmptyTree
    <3> QED BY <1>3, <3>1 DEF Init, WholeInv
  <2> QED BY <2>1, <2>2, <2>3, <2>4 DEF CalmInv
<1> QED BY <1>1, <1>2, <1>5, <1>6 DEF FaithInv

LEMMA FaithStep ==
    ASSUME FaithInv, [Next]_vars
    PROVE  FaithInv'
<1>0. MirrorInv /\ FilesInv /\ DriftInv /\ CalmInv
  BY DEF FaithInv
<1>1. MirrorInv'
  BY <1>0, MirrorStep
<1>2. Quiet /\ CalmInv' => FaithInv'
  BY <1>0, <1>1, QuietKeepsDrift DEF FaithInv
<1>3. CASE SourceCommit \/ SetConfig \/ InitMirror \/ Cleanup \/ UNCHANGED vars
  BY <1>0, <1>2, <1>3, QuietAround, CalmAround
<1>4. ASSUME NEW m \in Mirror, NEW k \in Kind, Open(m, k) PROVE FaithInv'
  BY <1>0, <1>2, <1>4, QuietStart, CalmOpen
<1>5. ASSUME NEW m \in Mirror, Crash(m) \/ Fail(m) \/ HashMismatch(m) \/ GiveUp(m) \/ CommitPanics(m)
      PROVE  FaithInv'
  BY <1>0, <1>2, <1>5, QuietRun, CalmEnd
<1>6. ASSUME NEW m \in Mirror, Continue(m) PROVE FaithInv'
  <2>1. CASE Command(m) \/ LoadFails(m)
    BY <1>0, <1>2, <2>1, QuietRun, CalmCommand
  <2>2. CASE LoadState(m)
    BY <1>0, <1>2, <2>2, QuietStart, CalmLoad
  <2>3. CASE Checkpoint(m)
    BY <1>0, <1>2, <2>3, QuietStart, CalmCopy
  <2>4. CASE Fetch(m) \/ StoreObjects(m) \/ ApplyChanges(m) \/ SaveRevprops(m)
    BY <1>0, <1>2, <2>4, QuietRun, CalmCopy
  <2>5. CASE Finish(m)
    <3>1. Quiet
      BY <1>0, <2>5, QuietRun
    <3>2. CalmInv'
      BY <1>0, <2>5, CalmCopy, CalmEnd DEF Finish
    <3> QED BY <1>2, <3>1, <3>2
  <2>6. CASE Commit(m)
    <3>1. CASE Apart
      <4>1. DriftInv' /\ FilesInv' /\ CalmInv'
        BY <1>0, <2>6, <3>1, CommitDrift, CommitTrees, CalmCommit
      <4> QED BY <1>1, <4>1 DEF FaithInv
    <3>2. CASE ~Apart
      <4>1. ~Apart' /\ FilesInv'
        BY <1>0, <2>6, <3>2, SettingStays DEF Commit, Frame, FilesInv
      <4> QED BY <1>1, <4>1 DEF FaithInv, DriftInv, CalmInv, Calm
    <3> QED BY <3>1, <3>2
  <2>7. CASE ApplyRevision(m)
    BY <2>4, <2>6, <2>7 DEF ApplyRevision
  <2>8. CASE GiveUp(m) \/ CommitPanics(m)
    BY <1>5, <2>8
  <2>9. CASE Sync(m)
    BY <2>1, <2>2, <2>3, <2>5, <2>7, <2>8, <2>9 DEF Sync
  <2>10. CASE Pull(m)
    BY <2>1, <2>2, <2>4, <2>8, <2>10 DEF Pull
  <2> QED BY <1>6, <2>1, <2>9, <2>10 DEF Continue
<1> QED BY <1>3, <1>4, <1>5, <1>6 DEF Next

(***************************************************************************)
(* A run that is complete has nothing left to settle.                      *)
(***************************************************************************)
LEMMA CompleteTrees ==
    ASSUME FaithInv, Apart, NEW m \in Mirror, pc[m] = "complete"
    PROVE  /\ SourceTree[LastOrigin] = SourceTree[run[m].to]
           /\ DeltaTree[headFile] = SourceTree[run[m].to]
<1> DEFINE to == run[m].to
<1>0. MirrorInv /\ NumbersOK /\ OriginInv /\ RangeInv /\ Drift /\ Knows(m) /\ Basics
  BY BasicFacts DEF FaithInv, MirrorInv, DriftInv, CopyInv
<1>1. MaxRev \in Nat /\ to \in 1..MaxRev /\ run[m].cur = to + 1 /\ LastOrigin \in 0..MaxRev
  BY <1>0, LastOriginType DEF Basics, MirrorInv, BoundsInv, Bounds, Ending
<1>2. Covers(to)
  <2>1. Handled(m) = to
    BY <1>1 DEF Handled
  <2> QED BY <1>0, <2>1 DEF Knows, Ending
<1>3. \A n \in 1..headFile : origin[n] <= to
  BY <1>0 DEF RangeInv, Ending
<1>4. headFile \in 0..MaxHead /\ MaxHead \in Nat
  BY <1>0, MirrorAssumption DEF NumbersOK
<1> HIDE DEF to
<1>5. LastOrigin <= to
  <2>1. headFile # 0 => headFile \in 1..headFile
    BY <1>4
  <2> QED BY <1>1, <1>3, <2>1 DEF LastOrigin
<1>6. to \in LastOrigin..MaxRev /\ \A r \in LastOrigin + 1..to : Skipped(r)
  BY <1>1, <1>2, <1>5 DEF Covers
<1>7. SourceTree[to] = SourceTree[LastOrigin]
  BY <1>0, <1>1, <1>6, Gap
<1>8. ASSUME NEW p \in Path PROVE DeltaTree[headFile][p] = SourceTree[to][p]
  <2>1. ASSUME NEW r \in LastOrigin + 1..MaxRev, Copied(r), Touches(source[r], p) PROVE FALSE
    <3>1. ~Skipped(r)
      BY <2>1, EmptyTouchesNothing
    <3>2. PICK n \in 1..headFile : origin[n] = r
      BY <2>1, <3>1 DEF Copied
    <3>3. r \in LastOrigin + 1..to
      BY <1>1, <1>3, <3>2
    <3> QED BY <1>6, <3>1, <3>3
  <2>2. DeltaTree[headFile][p] = SourceTree[LastOrigin][p]
    BY <1>0, <2>1 DEF Drift
  <2> QED BY <1>7, <2>2
<1>9. DeltaTree[headFile] = [p \in Path |-> DeltaTree[headFile][p]]
  <2>1. DeltaTree[headFile] = Replayed(DeltaTree, deltas, NoSnapshots, headFile)
    BY <1>4, DeltaReplay DEF IsReplay
  <2>2. headFile \in Nat
    BY <1>4
  <2> QED BY <2>1, <2>2 DEF Replayed, NoSnapshots, EmptyTree, ApplyDelta
<1>10. SourceTree[to] = [p \in Path |-> SourceTree[to][p]]
  <2>1. to \in 0..MaxRev
    BY <1>1
  <2> QED BY <1>0, <2>1, SourceIsFcn
<1>11. DeltaTree[headFile] = SourceTree[to]
  BY <1>8, <1>9, <1>10
<1> QED BY <1>7, <1>11 DEF to

LEMMA CalmTrees ==
    ASSUME FaithInv, Calm, NEW m \in Mirror, pc[m] = "complete"
    PROVE  /\ DestTree[headFile] = SourceTree[run[m].to]
           /\ rows = SourceTree[run[m].to]
           /\ \A e \in TreeObjects(rows) : objects[e] = "whole"
           /\ setting.allowEmpty => Verified(run[m].to)
<1>0. MirrorInv /\ DestInv /\ RowsInv /\ WholeInv /\ Apart /\ Basics
  BY BasicFacts DEF FaithInv, CalmInv, Calm, MirrorInv
<1>1. SourceTree[LastOrigin] = SourceTree[run[m].to]
  BY <1>0, CompleteTrees
<1>2. run[m].to \in 0..MaxRev /\ MaxRev \in Nat /\ run[m].cur = run[m].to + 1
  BY <1>0 DEF Basics, MirrorInv, BoundsInv, Bounds, Ending
<1>3. Handled(m) = run[m].to /\ RowsAt(m) = run[m].to
  BY <1>2 DEF Handled, RowsAt
<1>4. DestTree[headFile] = SourceTree[run[m].to]
  BY <1>0, <1>1, HeadTree
<1>5. rows = SourceTree[run[m].to]
  BY <1>0, <1>3 DEF RowsInv, Ending
<1>6. \A e \in TreeObjects(rows) : objects[e] = "whole"
  BY <1>0, <1>1, <1>5 DEF WholeInv
<1>7. ASSUME setting.allowEmpty PROVE Verified(run[m].to)
  <2>1. Straight
    BY <1>7 DEF Straight, Calm
  <2>2. headFile = run[m].to
    BY <1>0, <1>3, <2>1 DEF MirrorInv, StraightInv, Ending
  <2> QED BY <1>4, <2>2 DEF Verified
<1> QED BY <1>4, <1>5, <1>6, <1>7

LEMMA FaithInvHolds == Spec => []FaithInv
<1>1. Init => FaithInv
  BY FaithInit
<1>2. FaithInv /\ [Next]_vars => FaithInv'
  BY FaithStep
<1> QED BY <1>1, <1>2, PTL DEF Spec

(***************************************************************************)
(* The step in which complete_sync declares a run complete finds the       *)
(* source's tree in the destination's deltas, whatever was copied twice    *)
(* after crashes, failures and cleanups.  If nothing went wrong but pulls, *)
(* which die at their first commit and are rolled back, get_tree_at_rev    *)
(* with its snapshots returns that tree, the rows are that tree with every *)
(* object whole, and verify_sync would succeed unless an empty revision    *)
(* was skipped.                                                            *)
(***************************************************************************)
THEOREM CompleteRunsFaithful == Spec => MirrorFaithful
<1> DEFINE Complete ==
             \A m \in Mirror : Apart /\ CompleteSync(m) =>
                /\ DeltaTree[headFile] = SourceTree[run[m].to]
                /\ faulty = 0 =>
                      /\ DestTree[headFile] = SourceTree[run[m].to]
                      /\ rows = SourceTree[run[m].to]
                      /\ \A e \in TreeObjects(rows) : objects[e] = "whole"
                      /\ setting.allowEmpty => Verified(run[m].to)
<1>1. FaithInv => Complete
  <2> SUFFICES ASSUME FaithInv, NEW m \in Mirror, Apart, CompleteSync(m)
               PROVE  /\ DeltaTree[headFile] = SourceTree[run[m].to]
                      /\ faulty = 0 =>
                            /\ DestTree[headFile] = SourceTree[run[m].to]
                            /\ rows = SourceTree[run[m].to]
                            /\ \A e \in TreeObjects(rows) : objects[e] = "whole"
                            /\ setting.allowEmpty => Verified(run[m].to)
    OBVIOUS
  <2>1. pc[m] = "complete"
    BY DEF CompleteSync
  <2> QED BY <2>1, CompleteTrees, CalmTrees DEF Calm
<1> HIDE DEF Complete
<1>2. Spec => []FaithInv
  BY FaithInvHolds
<1>3. Spec => [][Complete]_vars
  BY <1>1, <1>2, PTL
<1> QED BY <1>3 DEF MirrorFaithful, Complete
=============================================================================
