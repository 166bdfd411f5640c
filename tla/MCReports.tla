------------------------------ MODULE MCReports ------------------------------
(***************************************************************************)
(* A file c, a directory d with a file after it in the order of paths, and *)
(* a file e/g whose directory has no entry of its own.                     *)
(***************************************************************************)
EXTENDS Reports

CONSTANTS f1, f2, dir

d == <<"d">>
df == <<"d", "f">>
eg == <<"e", "g">>
c == <<"c">>

MCPath == {c, d, df, eg}
MCOrder == <<c, d, df, eg>>
MCBelow == {<<d, df>>}
MCDir == {dir}

Changes(S) == [p \in MCPath |-> IF p \in DOMAIN S THEN S[p] ELSE NoChange]
MCEdits == {
    Changes(d :> dir @@ df :> f1),
    Changes(c :> f2 @@ d :> Delete @@ eg :> f1),
    Changes(c :> Delete @@ d :> Delete @@ df :> f2)}

Report(kind, log) == [method |-> "REPORT", kind |-> kind, mentionsLog |-> log]
MCRequest ==
    {Report("update", FALSE) @@ [target |-> t, src |-> s] :
        t \in {Absent, 2}, s \in {0, 1}}
    \cup {Report("log", TRUE) @@ [start |-> s, end |-> e, limit |-> l, paths |-> TRUE] :
        s \in {Absent, 0, 3}, e \in {1}, l \in {Absent, 1}}
    \cup {Report("log", TRUE) @@ [start |-> s, end |-> Absent, limit |-> Absent, paths |-> TRUE] :
        s \in {Absent, 0}}
    \cup {Report("locations", FALSE) @@ [path |-> p, peg |-> Absent, revs |-> <<1, 3>>] : p \in {<<>>, df}}
    \cup {Report("dated", FALSE) @@ [date |-> x] : x \in {Absent, 0}}
    \cup {Report("deleted", FALSE) @@ [path |-> p, peg |-> 1, end |-> e] : p \in {d, df}, e \in {Absent, 2}}
    \cup {Report("replay", FALSE) @@ [rev |-> x] : x \in {Absent, 1}}
    \cup {Report(k, l) : k \in {"mergeinfo", "inherited"}, l \in BOOLEAN}
    \cup {Report("unknown", FALSE)}
    \cup {[method |-> "PROPFIND", what |-> w, rev |-> 1] : w \in {"root", "vcc", "bln", "ver", "other"}}
    \cup {[method |-> "OPTIONS", collections |-> x] : x \in BOOLEAN}
    \cup [method : {"GET"}, path : {df}, prefixed : BOOLEAN]
=============================================================================
