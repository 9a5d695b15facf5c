----------------------------- MODULE TaskTracker -----------------------------
(***************************************************************************)
(* The async submit/poll tracker (tools.py, a2a_fleet_submit and            *)
(* a2a_fleet_poll): concurrent handler calls that share the table _tasks    *)
(* under _tasks_lock, and the peers whose tasks it remembers.               *)
(*                                                                         *)
(* A handler holds the lock only while it touches the table; the network    *)
(* exchange lies outside, so the registry, the table and the remote task    *)
(* can all change between the steps of one call.                           *)
(*                                                                         *)
(* The registry is seen as what get(name) returns at the moment, the roster. *)
(* A peer is its rpc_url with the auth recorded for it.  Names and task ids *)
(* are sequences, because the handle is their concatenation around a "#".   *)
(***************************************************************************)
EXTENDS Naturals, Sequences, FiniteSets, A2AOutcome

CONSTANTS
    Callers,             \* the threads that may be inside a handler
    Names,               \* the agent names the registry may know
    Peers,               \* the peers
    Ids,                 \* the task ids a peer hands out, unique per peer only
    States,              \* the states a task may be in
    Rosters,             \* the rosters the registry may go through
    MAX_TRACKED_TASKS    \* the bound on the table

NoPeer == "no peer"
Absent == "absent"

ASSUME TrackerAssumption ==
    /\ MAX_TRACKED_TASKS \in Nat \ {0}
    /\ Names \subseteq Seq(STRING)
    /\ Ids \subseteq Seq(STRING)
    /\ Rosters \subseteq [Names -> Peers \cup {NoPeer}]
    /\ NoPeer \notin Peers
    /\ Absent \notin States
    /\ NoId \notin Ids

VARIABLES
    roster,    \* the peer get(name) returns, by name
    remote,    \* remote[p][id]: the state of peer p's task id
    tasks,     \* _tasks: the tracked entries by handle
    stamp,     \* counts insertions: a dict keeps its keys in insertion order
    job,       \* what each caller is in the middle of
    issued     \* history: the handles given to users, with what they stood for

vars == <<roster, remote, tasks, stamp, job, issued>>

Handle(agent, id) == agent \o <<"#">> \o id
Handles == {Handle(n, i) : n \in Names, i \in Ids}

\* What the code takes for granted of its inputs, and nothing enforces: a name means
\* one peer for the life of the process, and a handle can be read in one way only.
StableNames ==
    \A r, s \in Rosters : \A n \in Names :
        r[n] # NoPeer /\ s[n] # NoPeer => r[n] = s[n]

DistinctHandles ==
    \A m, n \in Names : \A i, j \in Ids :
        Handle(m, i) = Handle(n, j) => m = n /\ i = j

Idle == [op |-> "idle"]

Jobs ==
    {Idle}
    \cup [op : {"sending"}, agent : Names, peer : Peers]
    \cup [op : {"tracking"}, agent : Names, peer : Peers, id : Ids]
    \cup [op : {"polling", "untracking"}, handle : Handles, peer : Peers, id : Ids]

Entries == [peer : Peers, agent : Names, id : Ids, born : Nat]
Issues  == [handle : Handles, peer : Peers, id : Ids]

Init ==
    /\ roster \in Rosters
    /\ remote = [p \in Peers |-> [i \in Ids |-> Absent]]
    /\ tasks = [h \in {} |-> Idle]
    /\ stamp = 0
    /\ job = [c \in Callers |-> Idle]
    /\ issued = {}

-------------------------------------------------------------------------------
(***************************************************************************)
(* a2a_fleet_submit.                                                       *)
(***************************************************************************)

\* reg.get(agent) resolves the name now; an unknown name returns at once.
SubmitResolve(c, n) ==
    /\ job[c] = Idle
    /\ roster[n] # NoPeer
    /\ job' = [job EXCEPT ![c] = [op |-> "sending", agent |-> n, peer |-> roster[n]]]
    /\ UNCHANGED <<roster, remote, tasks, stamp, issued>>

\* What the handler tracks: a task that has an id and is in no final state.
Trackable(x) ==
    /\ ~x.lost
    /\ ~Undecodable(x)
    /\ interpret_result(x).kind # "error"
    /\ interpret_result(x).task_id # NoId
    /\ interpret_result(x).state \notin DONE_STATES

\* The exchanges a peer may answer with: no task, or a task under an id it has
\* not used yet.
Answers(p) ==
    {Lost, RpcError, Message("text")}
    \cup {Task(i, s) : i \in {j \in Ids : remote[p][j] = Absent}, s \in States}

Created(p, x) ==
    IF x.id = NoId THEN remote ELSE [remote EXCEPT ![p][x.id] = x.state]

\* The peer answers; the handler returns unless there is something to track.
SubmitAnswer(c, x) ==
    /\ job[c].op = "sending"
    /\ x \in Answers(job[c].peer)
    /\ remote' = Created(job[c].peer, x)
    /\ job' = [job EXCEPT ![c] =
                  IF Trackable(x)
                  THEN [op |-> "tracking", agent |-> @.agent, peer |-> @.peer, id |-> x.id]
                  ELSE Idle]
    /\ UNCHANGED <<roster, tasks, stamp, issued>>

\* The peer accepts the task, but its answer is lost or cannot be decoded: the
\* task runs and nobody has a handle for it.
SubmitOrphan(c, i) ==
    /\ job[c].op = "sending"
    /\ remote[job[c].peer][i] = Absent
    /\ \E s \in States : remote' = [remote EXCEPT ![job[c].peer][i] = s]
    /\ job' = [job EXCEPT ![c] = Idle]
    /\ UNCHANGED <<roster, tasks, stamp, issued>>

Without(t, h) == [g \in DOMAIN t \ {h} |-> t[g]]

\* next(iter(_tasks)): the key inserted first.
Oldest(t) == CHOOSE h \in DOMAIN t : \A g \in DOMAIN t : t[h].born <= t[g].born

EvictAt(t, limit) == IF Cardinality(DOMAIN t) >= limit THEN Without(t, Oldest(t)) ELSE t
Evict_TooEarly(t) == EvictAt(t, MAX_TRACKED_TASKS - 1)  \* mutant
Evict_TooLate(t)  == EvictAt(t, MAX_TRACKED_TASKS + 1)  \* mutant

\* mutant: the newest entry goes instead of the oldest
Evict_Newest(t) ==
    IF Cardinality(DOMAIN t) >= MAX_TRACKED_TASKS
    THEN Without(t, CHOOSE h \in DOMAIN t : \A g \in DOMAIN t : t[h].born >= t[g].born)
    ELSE t

Evict(t) == EvictAt(t, MAX_TRACKED_TASKS)

\* _tasks[h] = entry: an existing key keeps its place in the order.
Store(t, h, e) ==
    [g \in DOMAIN t \cup {h} |->
        IF g # h THEN t[g]
        ELSE IF h \in DOMAIN t THEN [e EXCEPT !.born = t[h].born] ELSE e]

\* mutant: the bare task id as the key
TrackKey_TaskId(agent, id) == Handle(<<>>, id)
TrackKey(agent, id) == Handle(agent, id)

\* One critical section: make room, then insert; the handle goes to the user.
Track(c) ==
    /\ job[c].op = "tracking"
    /\ LET h == TrackKey(job[c].agent, job[c].id)
           e == [peer |-> job[c].peer, agent |-> job[c].agent, id |-> job[c].id, born |-> stamp]
       IN  /\ tasks' = Store(Evict(tasks), h, e)
           /\ issued' = issued \cup {[handle |-> h, peer |-> e.peer, id |-> e.id]}
    /\ stamp' = stamp + 1
    /\ job' = [job EXCEPT ![c] = Idle]
    /\ UNCHANGED <<roster, remote>>

-------------------------------------------------------------------------------
(***************************************************************************)
(* a2a_fleet_poll.                                                         *)
(***************************************************************************)

\* First critical section: read the entry.  An unknown handle returns at once.
PollLookup(c, h) ==
    /\ job[c] = Idle
    /\ h \in DOMAIN tasks
    /\ job' = [job EXCEPT ![c] = [op |-> "polling", handle |-> h,
                                  peer |-> tasks[h].peer, id |-> tasks[h].id]]
    /\ UNCHANGED <<roster, remote, tasks, stamp, issued>>

\* The peer of the entry answers for the task of the entry, or the exchange fails
\* (lost, an error, undecodable), whatever state the task is in.
PollAnswers(p, i) ==
    {Lost, RpcError, Malformed} \cup {Task(i, s) : s \in {remote[p][i]} \ {Absent}}

\* mutant: a failed exchange ends the task
PollDone_OnError(x) ==
    x.lost \/ Undecodable(x) \/ x.error \/ interpret_result(x).state \in DONE_STATES

PollDone(x) ==
    /\ ~x.lost
    /\ ~Undecodable(x)
    /\ interpret_result(x).kind # "error"
    /\ interpret_result(x).state \in DONE_STATES

PollAnswer(c, x) ==
    /\ job[c].op = "polling"
    /\ x \in PollAnswers(job[c].peer, job[c].id)
    /\ job' = [job EXCEPT ![c] = IF PollDone(x) THEN [@ EXCEPT !.op = "untracking"] ELSE Idle]
    /\ UNCHANGED <<roster, remote, tasks, stamp, issued>>

\* Second critical section: stop tracking, if somebody else has not already.
Untrack(c) ==
    /\ job[c].op = "untracking"
    /\ tasks' = Without(tasks, job[c].handle)
    /\ job' = [job EXCEPT ![c] = Idle]
    /\ UNCHANGED <<roster, remote, stamp, issued>>

-------------------------------------------------------------------------------
(***************************************************************************)
(* The environment: the registry refreshes, and the peers' tasks go on      *)
(* until they reach a final state.                                         *)
(***************************************************************************)

Refresh ==
    /\ roster' \in Rosters \ {roster}
    /\ UNCHANGED <<remote, tasks, stamp, job, issued>>

Progress(p, i) ==
    /\ remote[p][i] # Absent
    /\ remote[p][i] \notin DONE_STATES
    /\ \E s \in States : remote' = [remote EXCEPT ![p][i] = s]
    /\ UNCHANGED <<roster, tasks, stamp, job, issued>>

Submit(c) ==
    \/ \E n \in Names : SubmitResolve(c, n)
    \/ job[c].op = "sending" /\ \E x \in Answers(job[c].peer) : SubmitAnswer(c, x)
    \/ \E i \in Ids : SubmitOrphan(c, i)
    \/ Track(c)

Poll(c) ==
    \/ \E h \in DOMAIN tasks : PollLookup(c, h)
    \/ job[c].op = "polling" /\ \E x \in PollAnswers(job[c].peer, job[c].id) : PollAnswer(c, x)
    \/ Untrack(c)

Next ==
    \/ \E c \in Callers : Submit(c) \/ Poll(c)
    \/ Refresh
    \/ \E p \in Peers, i \in Ids : Progress(p, i)

Spec == Init /\ [][Next]_vars

-------------------------------------------------------------------------------
(***************************************************************************)
(* Properties.                                                             *)
(***************************************************************************)

TypeOK ==
    /\ roster \in [Names -> Peers \cup {NoPeer}]
    /\ remote \in [Peers -> [Ids -> States \cup {Absent}]]
    /\ DOMAIN tasks \subseteq Handles
    /\ \A h \in DOMAIN tasks : tasks[h] \in Entries
    /\ stamp \in Nat
    /\ job \in [Callers -> Jobs]
    /\ issued \subseteq Issues

\* "Bounded so a never-polled flood cannot grow without limit": however many calls
\* are in flight, the table never holds more than the limit.
Bounded == Cardinality(DOMAIN tasks) <= MAX_TRACKED_TASKS

\* The peers' tasks that a user's handle h was given for.
Meant(h) == {<<i.peer, i.id>> : i \in {j \in issued : j.handle = h}}

\* "A submitted task must be polled against the SAME peer that created it": every
\* handle was issued for one task of one peer only, the entry of a handle names
\* that task and that peer, and so does every poll on its way, whatever the
\* registry has come to say of the name since.
PolledWhereCreated ==
    /\ \A h \in DOMAIN tasks : Meant(h) = {<<tasks[h].peer, tasks[h].id>>}
    /\ \A c \in Callers :
          job[c].op \in {"polling", "untracking"} =>
              Meant(job[c].handle) = {<<job[c].peer, job[c].id>>}

Finished(p, i) == remote[p][i] \in DONE_STATES

\* An entry leaves the table only because its task reached a final state or, when
\* the table is full, because no entry has been there longer.
LeavesWhenDoneOrOldest ==
    [][\A h \in DOMAIN tasks \ DOMAIN tasks' :
          \/ Finished(tasks[h].peer, tasks[h].id)
          \/ /\ Cardinality(DOMAIN tasks) = MAX_TRACKED_TASKS
             /\ \A g \in DOMAIN tasks : tasks[h].born <= tasks[g].born]_vars

\* As long as no more tasks were submitted than the table can hold, every task
\* that has not reached a final state can still be polled under its handle.
NoneLostBelowLimit ==
    Cardinality(issued) <= MAX_TRACKED_TASKS =>
        \A i \in issued : Finished(i.peer, i.id) \/ i.handle \in DOMAIN tasks

\* The handlers, whatever the interleaving of their calls, keep a plain ledger of tasks:
\* a handle is as good as the task it was issued for.
Turn(h) == <<<<tasks[h].peer, tasks[h].id>>, tasks[h].born>>

Abstract == INSTANCE Ledger WITH
    Tasks <- Peers \X Ids,
    Limit <- MAX_TRACKED_TASKS,
    kept  <- {Turn(h) : h \in DOMAIN tasks},
    size  <- Cardinality(DOMAIN tasks),
    given <- {<<i.peer, i.id>> : i \in issued},
    over  <- {t \in Peers \X Ids : Finished(t[1], t[2])},
    turn  <- stamp

ImplementsLedger == Abstract!Spec
===============================================================================
