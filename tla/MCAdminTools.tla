----------------------------- MODULE MCAdminTools -----------------------------
(***************************************************************************)
(* An instance of AdminTools for TLC: two commands at a time beside the    *)
(* server.                                                                 *)
(***************************************************************************)
EXTENDS AdminTools, TLC

Symmetry == Permutations(Admin)

Plan(first, last, r, h, v, p, t, f) ==
    [first |-> first, last |-> last, revprop |-> r, hotcopy |-> h, verify |-> v, pack |-> p,
     together |-> t, faults |-> f]

\* two revprop commands; one, or a pack, beside verify; a copy that is verified
\* twice, one beside a revprop command, and one with a stop or a death; a copy that
\* replaces the one being verified; and one after a pack
Few == {
    Plan(0, 2, 2, 0, 0, 0, 2, 1),
    Plan(0, 2, 1, 0, 1, 0, 2, 1),
    Plan(0, 2, 0, 0, 1, 1, 2, 2),
    Plan(0, 2, 0, 1, 1, 0, 1, 0),
    Plan(1, 2, 0, 1, 2, 0, 1, 0),
    Plan(0, 1, 1, 1, 0, 0, 2, 0),
    Plan(0, 1, 0, 1, 0, 0, 1, 1),
    Plan(1, 1, 0, 2, 1, 0, 2, 0),
    Plan(1, 2, 0, 1, 0, 1, 1, 1)}

CopyDies == {Plan(1, 2, 0, 1, 1, 0, 1, 1)}
=============================================================================
