------------------------------- MODULE MCChain -------------------------------
(***************************************************************************)
(* Instances of Chain for TLC.                                             *)
(***************************************************************************)
EXTENDS Chain

CONSTANTS p1, p2

TwoPeers == {p1, p2}
TwoNames == {"a", "b"}

\* "b" comes, goes and changes peers while "a" stays.
Changing == {[n \in TwoNames |-> IF n = "a" THEN p1 ELSE b] : b \in {p1, p2, NoPeer}}
===============================================================================
