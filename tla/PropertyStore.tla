---------------------------- MODULE PropertyStore ----------------------------
(***************************************************************************)
(* What a property store promises: the in-memory store of properties.rs, a *)
(* map from paths to property sets behind one lock.  Every call takes the  *)
(* lock for its whole duration and is therefore one step.                  *)
(***************************************************************************)
EXTENDS Naturals

CONSTANTS
    Path,       \* paths with properties
    Name,       \* property names
    Value,      \* property values
    NoValue     \* the property is not there

VARIABLE properties

PropertySet == [Name -> Value \cup {NoValue}]

\* PropertySet::new, set, remove and list
NewSet == [n \in Name |-> NoValue]
SetIn(ps, n, v) == [ps EXCEPT ![n] = v]
RemoveIn(ps, n) == [ps EXCEPT ![n] = NoValue]
ListOf(ps) == {n \in Name : ps[n] # NoValue}

Init == properties = [p \in Path |-> NewSet]

\* PropertyStore::set; an unknown path gets a new set first
Set(p, n, v) == properties' = [properties EXCEPT ![p] = SetIn(@, n, v)]

\* PropertyStore::remove; nothing happens at an unknown path
Remove(p, n) == properties' = [properties EXCEPT ![p] = RemoveIn(@, n)]

\* PropertyStore::get, list and contains
Get(p) == properties[p]
List(p) == ListOf(Get(p))
Contains(p, n) == n \in List(p)

Next == \E p \in Path, n \in Name : (\E v \in Value : Set(p, n, v)) \/ Remove(p, n)

Spec == Init /\ [][Next]_properties
=============================================================================
