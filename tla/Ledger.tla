-------------------------------- MODULE Ledger --------------------------------
(***************************************************************************)
(* What submit and poll promise together (the comments on _tasks in         *)
(* tools.py): a task that was handed out can be polled until it is over, or *)
(* until it is the oldest of a full ledger and a new one needs the room.    *)
(* Each task is handed out once, and one that has left does not come back.  *)
(* There are no callers, handles, names or registry here.                  *)
(***************************************************************************)
EXTENDS Naturals

CONSTANTS
    Tasks,    \* what a peer may be working on
    Limit     \* how many tasks are remembered

VARIABLES
    kept,     \* the pairs <<task, turn>> that can be polled
    size,     \* how many these are
    given,    \* the tasks handed out so far
    over,     \* the tasks that reached a final state
    turn      \* the turn of the next task

vars == <<kept, size, given, over, turn>>

Init ==
    /\ kept = {}
    /\ size = 0
    /\ given = {}
    /\ over = {}
    /\ turn = 0

\* A new task is handed out; in a full ledger it takes the place of the oldest one.
Take(t) ==
    /\ t \in Tasks \ given
    /\ \/ /\ size < Limit
          /\ kept' = kept \cup {<<t, turn>>}
          /\ size' = size + 1
       \/ /\ size = Limit
          /\ \E first \in kept :
                /\ \A k \in kept : first[2] <= k[2]
                /\ kept' = (kept \ {first}) \cup {<<t, turn>>}
          /\ UNCHANGED size
    /\ given' = given \cup {t}
    /\ turn' = turn + 1
    /\ UNCHANGED over

\* A task that is over may be forgotten.
Forget(k) ==
    /\ k \in kept
    /\ k[1] \in over
    /\ kept' = kept \ {k}
    /\ size' = size - 1
    /\ UNCHANGED <<given, over, turn>>

\* The peers go on, and what is over stays over.
Work ==
    /\ over \subseteq over'
    /\ over' \subseteq Tasks
    /\ UNCHANGED <<kept, size, given, turn>>

Next ==
    \/ \E t \in Tasks : Take(t)
    \/ \E k \in kept : Forget(k)
    \/ Work

Spec == Init /\ [][Next]_vars
===============================================================================
