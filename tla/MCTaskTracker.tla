---------------------------- MODULE MCTaskTracker ----------------------------
(***************************************************************************)
(* Instances of TaskTracker for TLC.                                       *)
(***************************************************************************)
EXTENDS TaskTracker, TLC

CONSTANTS p1, p2, c1, c2

TwoPeers   == {p1, p2}
TwoCallers == {c1, c2}

TwoNames == {<<"a">>, <<"b">>}
OneName  == {<<"a">>}
TwoIds   == {<<"1">>, <<"2">>}
OneId    == {<<"1">>}

RosterOf(a, b) == [n \in TwoNames |-> IF n = <<"a">> THEN a ELSE b]

\* Each peer has a name of its own; p2 comes and goes.
NamedApart == {RosterOf(p1, p2), RosterOf(p1, NoPeer)}

\* Two peers serve cards with the same name: get(name) returns the one that sorts
\* first, and the other one when the first is not reachable.
NamedAlike == {[n \in OneName |-> p] : p \in TwoPeers}

CallersAlike == Permutations(Callers)
===============================================================================
