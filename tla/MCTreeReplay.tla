----------------------------- MODULE MCTreeReplay -----------------------------
(***************************************************************************)
(* A directory, a file in it, a directory in it with a file of its own,    *)
(* and a sibling that SQLite sorts between "d" and "d/": every base tree   *)
(* and every delta over these paths.                                       *)
(***************************************************************************)
EXTENDS TreeReplay

MCPathOrder == <<"d", "d-x", "d/e", "d/e/f">>
MCPath == {"d", "d-x", "d/e", "d/e/f"}
MCBelow == {<<"d", "d/e">>, <<"d", "d/e/f">>, <<"d/e", "d/e/f">>}
=============================================================================
