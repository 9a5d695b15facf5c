---------------------------- MODULE MCMdnsListener ----------------------------
(***************************************************************************)
(* Instances of MdnsListener for TLC: a service of each type, under the     *)
(* same label.  The first announces one address or another, or none; the    *)
(* second comes with the path hint or without.                             *)
(***************************************************************************)
EXTENDS MdnsListener

CONSTANTS s1, s2, t1, t2

TwoThreads  == {t1, t2}
TwoServices == {s1, s2}
TwoTypes    == <<"_a2a", "_http">>
OneOfEach   == [s \in TwoServices |-> IF s = s1 THEN "_a2a" ELSE "_http"]
At(h, hint) == [host |-> h, port |-> 8000, hint |-> hint]
OneThere    == {[s \in TwoServices |-> IF s = s1 THEN At("x", FALSE) ELSE Gone]}
AnyOrHinted ==
    [s \in TwoServices |->
        IF s = s1
        THEN {At("x", FALSE), At("y", FALSE), At(NoHost, FALSE)}
        ELSE {At("x", TRUE), At("x", FALSE)}]
SameLabel   == [s \in TwoServices |-> "agent"]
===============================================================================
