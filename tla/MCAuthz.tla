------------------------------- MODULE MCAuthz -------------------------------
(***************************************************************************)
(* An instance of Authz for TLC: the root, a directory named "*", one in   *)
(* it, a file there, and the empty path.                                   *)
(***************************************************************************)
EXTENDS Authz, TLC

CONSTANTS alice, bob, devs, root, star, dir, file, empty

AncestorsOf ==
    root :> <<root>> @@ star :> <<root>> @@ dir :> <<star, root>>
        @@ file :> <<dir, star, root>> @@ empty :> << >>

\* nothing tells one user from the other
SymmetricUsers == Permutations({alice, bob})
=============================================================================
