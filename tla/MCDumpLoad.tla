----------------------------- MODULE MCDumpLoad -----------------------------
(***************************************************************************)
(* An instance of DumpLoad for TLC: a directory d with a file f in it, and *)
(* a file g.                                                               *)
(***************************************************************************)
EXTENDS DumpLoad

CONSTANTS d, f, g, t, alice, multi, single

Paths == {d, f, g}
PathOrder == <<d, f, g>>
InD == {<<d, f>>}
File(text, exec) == [kind |-> "file", text |-> text, exec |-> exec]
Entries == {DirEntry} \cup {File(x, b) : x \in {t, BadText, EmptyText}, b \in BOOLEAN}
Firsts == [m \in {multi, single, Empty} |-> IF m = multi THEN single ELSE m]

Rev(author, message, changes) ==
    [author |-> author, message |-> message, delta |-> changes @@ EmptyDelta]

(***************************************************************************)
(* A directory and an executable file in it, the file emptied while an     *)
(* empty one is added, the directory deleted; and a revision without       *)
(* changes between one that adds a file and one that makes it a directory. *)
(***************************************************************************)
Edits ==
    << Rev(Empty, multi, d :> DirEntry @@ f :> File(t, TRUE)),
       Rev(alice, Empty, f :> File(EmptyText, FALSE) @@ g :> File(EmptyText, FALSE)),
       Rev(alice, single, d :> Delete @@ g :> File(t, FALSE)) >>
Gap ==
    << Rev(alice, single, g :> File(t, FALSE)),
       Rev(alice, single, EmptyDelta),
       Rev(Empty, single, g :> DirEntry) >>

Setting(history, loader) ==
    [history |-> history, lost |-> {}, start |-> 0, end |-> 3, writer |-> "webdav", loader |-> loader,
     cut |-> 0, faults |-> {}]
Whole == {Setting(h, l) : h \in {Edits, Gap}, l \in {"webdav", "admin"}}
Ranges == {[s EXCEPT !.start = a, !.end = b] : s \in Whole, a \in 1..4, b \in {0, 1, 2, 5}}
AdminDumps == {[s EXCEPT !.writer = "admin"] : s \in Whole \cup Ranges}
Cuts == {[s EXCEPT !.cut = n] : s \in Whole, n \in 1..60}
Lost == {[s EXCEPT !.lost = {File(t, TRUE)}] : s \in Whole}
Disturbed == {[s EXCEPT !.faults = x] : s \in Whole, x \in {{"merge"}, {"fail"}, {"merge", "fail"}}}
AllSettings == Whole \cup Ranges \cup AdminDumps \cup Cuts \cup Lost \cup Disturbed
=============================================================================
