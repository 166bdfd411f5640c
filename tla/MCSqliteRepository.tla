-------------------------- MODULE MCSqliteRepository --------------------------
(***************************************************************************)
(* Small instances of SqliteRepository: a directory and a file in it; and  *)
(* a path with a LIKE wildcard next to one it matches.                     *)
(***************************************************************************)
EXTENDS SqliteRepository, TLC

Symmetry == Permutations(Client)

NestedPath == {"d", "d/f"}
NestedBelow == {<<"d", "d/f">>}

OnePath == {"a"}
WildPath == {"a_b", "axb/f"}
WildLike == {<<"a_b", "axb/f">>}
NoneBelow == {}
=============================================================================
