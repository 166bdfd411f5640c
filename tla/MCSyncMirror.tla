---------------------------- MODULE MCSyncMirror ----------------------------
(***************************************************************************)
(* Instances of SyncMirror for TLC.                                        *)
(***************************************************************************)
EXTENDS SyncMirror

CONSTANTS a, b, e1, e2, m1, m2

Paths == {a, b}
NoneBelow == {}
Change(p, c) == [EmptyDelta EXCEPT ![p] = c]

(***************************************************************************)
(* A file is added, another one is added, and the first one goes; or a     *)
(* revision without changes lies between two changes of a file.            *)
(***************************************************************************)
Edits == <<Change(a, e1), Change(b, e2), Change(a, Delete)>>
WithEmpty == <<Change(a, e1), EmptyDelta, Change(a, e2)>>

Setting(src, kinds, mirrors, allowEmpty, faults) ==
    [source |-> src, kinds |-> kinds, mirrors |-> mirrors, allowEmpty |-> allowEmpty, faults |-> faults]

Scheduled ==
    { Setting(Edits, {"sync", "svnsync"}, {m1}, TRUE, {"crash"}),
      Setting(WithEmpty, {"sync"}, {m1}, FALSE, {"error", "cleanup"}),
      Setting(Edits, {"pull", "sync"}, {m1}, TRUE, {"crash", "corrupt", "disable"}),
      Setting(WithEmpty, {"pull", "sync"}, {m1}, FALSE, {}),
      Setting(<<Change(a, e1), Change(a, e2)>>, {"svnsync", "pull"}, {m1, m2}, TRUE, {}) }
Concurrent == { Setting(Edits, {"svnsync"}, {m1, m2}, TRUE, {}) }
=============================================================================
