------------------------------- MODULE Sorting -------------------------------
(***************************************************************************)
(* Python's list.sort(key=...): the one stable rearrangement of a list into *)
(* ascending order of its keys.  fanout.py sorts results by agent name and  *)
(* registry.py a roster by lower-cased name.                               *)
(***************************************************************************)
EXTENDS Naturals, Sequences

\* p[k] is the old position of the element that ends up at k.
Permutes(p, m) ==
    /\ p \in [1 .. m -> 1 .. m]
    /\ {p[k] : k \in 1 .. m} = 1 .. m

\* keys: the sequence of the elements' keys; equal keys keep their old order.
Orders(p, keys) ==
    \A j, k \in 1 .. Len(keys) : j < k =>
        \/ keys[p[j]] < keys[p[k]]
        \/ keys[p[j]] = keys[p[k]] /\ p[j] < p[k]

\* There is exactly one.
StableOrders(keys) ==
    {p \in [1 .. Len(keys) -> 1 .. Len(keys)] : Permutes(p, Len(keys)) /\ Orders(p, keys)}

Rearranged(s, p) == [k \in 1 .. Len(s) |-> s[p[k]]]
===============================================================================
