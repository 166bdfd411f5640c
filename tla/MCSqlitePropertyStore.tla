----------------------- MODULE MCSqlitePropertyStore -----------------------
(***************************************************************************)
(* An instance of SqlitePropertyStore for TLC: a body that sets a property *)
(* and removes another, one that sets one, one that removes two, one       *)
(* without white space, and one that changes nothing.                      *)
(***************************************************************************)
EXTENDS SqlitePropertyStore

CONSTANTS x, y, slashX

Names == {x, y, slashX}
GarbledNames == [n \in Names |-> slashX]

Elem(n) == [name |-> n, value |-> "v", bare |-> FALSE]
Spaced(op, n) == [op |-> op, props |-> <<Elem(n)>>, tight |-> FALSE]
MCBodies ==
    { <<Spaced("remove", x), Spaced("set", y)>>,
      <<Spaced("set", x)>>,
      <<Spaced("remove", x), Spaced("remove", y)>>,
      <<[Spaced("set", x) EXCEPT !.tight = TRUE, !.props = <<[Elem(x) EXCEPT !.bare = TRUE], Elem(y)>>]>>,
      <<[Spaced("set", x) EXCEPT !.tight = TRUE, !.props = << >>]>> }
=============================================================================
