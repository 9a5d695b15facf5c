-------------------------------- MODULE Batch --------------------------------
(***************************************************************************)
(* What a scatter-gather call promises its caller (the docstrings of       *)
(* fanout.py and types.FanResult), without threads, queues or clocks: every *)
(* item is settled once and for good, by its own answer as long as the call *)
(* waits and by one label, the same for all, once it has stopped waiting;   *)
(* the call returns when every item is settled.                            *)
(***************************************************************************)
EXTENDS Naturals

CONSTANT MaxItems

VARIABLES
    size,      \* the number of items
    stop,      \* return at the first success
    settled,   \* the pairs <<item, verdict>> decided so far
    status     \* "open", "returned" or "raised"

vars == <<size, stop, settled, status>>

AnswerVerdicts == {"ok", "failed", "error"}

Settled(i)   == \E p \in settled : p[1] = i
Given(v)     == \E p \in settled : p[2] = v
Succeeded    == stop /\ Given("ok")
GivingUp     == Given("abandoned") \/ Given("deadline")

Init ==
    /\ size \in 0 .. MaxItems
    /\ stop \in BOOLEAN
    /\ settled = {}
    /\ status = "open"

\* An item is settled by its own answer, while the call is still waiting.
Answer(i, v) ==
    /\ status = "open"
    /\ ~Settled(i)
    /\ ~GivingUp /\ ~Succeeded
    /\ settled' = settled \cup {<<i, v>>}
    /\ UNCHANGED <<size, stop, status>>

\* An item nobody waits for any more: because one succeeded, or else because the
\* deadline passed, and never both in one call.
Abandon(i) ==
    /\ status = "open"
    /\ ~Settled(i)
    /\ Succeeded
    /\ ~Given("deadline")
    /\ settled' = settled \cup {<<i, "abandoned">>}
    /\ UNCHANGED <<size, stop, status>>

CutOff(i) ==
    /\ status = "open"
    /\ ~Settled(i)
    /\ ~Succeeded
    /\ ~Given("abandoned")
    /\ settled' = settled \cup {<<i, "deadline">>}
    /\ UNCHANGED <<size, stop, status>>

Return ==
    /\ status = "open"
    /\ \A i \in 1 .. size : Settled(i)
    /\ status' = "returned"
    /\ UNCHANGED <<size, stop, settled>>

\* Only a deadline the platform cannot wait for, or a thread it cannot start, makes
\* the call raise instead.
Raise ==
    /\ status = "open"
    /\ ~GivingUp
    /\ status' = "raised"
    /\ UNCHANGED <<size, stop, settled>>

Next ==
    \/ \E i \in 1 .. size :
          \/ \E v \in AnswerVerdicts : Answer(i, v)
          \/ Abandon(i)
          \/ CutOff(i)
    \/ Return
    \/ Raise

Spec == Init /\ [][Next]_vars
===============================================================================
