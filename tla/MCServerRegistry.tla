--------------------------- MODULE MCServerRegistry ---------------------------
(***************************************************************************)
(* An instance of ServerRegistry for TLC: two names, two directories, one  *)
(* of them the root of single-repository mode.                             *)
(***************************************************************************)
EXTENDS ServerRegistry, TLC

CONSTANTS repo1, repo2, main, other

\* nothing tells one name from the other
SymmetricNames == Permutations({repo1, repo2})
=============================================================================
