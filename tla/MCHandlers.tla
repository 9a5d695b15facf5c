------------------------------ MODULE MCHandlers ------------------------------
(***************************************************************************)
(* An instance of Handlers for TLC: files that are sound, cannot be loaded, *)
(* or carry limits nobody wants.                                           *)
(***************************************************************************)
EXTENDS Handlers

CONSTANTS t1, t2

TwoThreads == {t1, t2}

Of(kind) == [kind |-> kind, n |-> 0]
Halves(k) == [kind |-> "num", n |-> k]
File(max, timeout, deadline) ==
    [readable |-> TRUE, max_concurrency |-> max, timeout |-> timeout, deadline |-> deadline]

MCRaws ==
    {File(Num(2), Num(700), Num(-1)),
     File(Num(0), Of("junk"), Of("nan")),
     File(Of("inf"), Absent, Absent),
     [File(Absent, Absent, Absent) EXCEPT !.readable = FALSE]}

Ask(max, timeout, deadline) ==
    [max_concurrency |-> max, timeout |-> timeout, deadline |-> deadline]

MCRequests ==
    {Ask(Absent, Absent, Num(0)), Ask(Num(3), Num(9), Of("inf")),
     Ask(Num(-1), Num(0), Of("junk")), Ask(Halves(3), Halves(1), Halves(1)),
     Ask(Num(1), Of("nan"), Absent), Ask(Of("inf"), Absent, Of("nan"))}
===============================================================================
