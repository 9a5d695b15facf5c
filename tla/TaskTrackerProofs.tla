-------------------------- MODULE TaskTrackerProofs --------------------------
(***************************************************************************)
(* Proofs about TaskTracker, for every set of callers, names, peers and     *)
(* ids and every limit of the table.                                       *)
(***************************************************************************)
EXTENDS TaskTracker, SortingProofs, FiniteSetTheorems, SequenceTheorems, TLAPS

(***************************************************************************)
(* The inductive invariant.                                                *)
(***************************************************************************)

Reaches(n, p) == \E r \in Rosters : r[n] = p

Issue(h, p, i) == [handle |-> h, peer |-> p, id |-> i]

\* Where everything in flight came from: a name leads to its peer in some roster, a
\* handle was built from such a name, and an entry or a poll from an issued handle.
Provenance ==
    /\ \A c \in Callers :
          job[c].op \in {"sending", "tracking"} => Reaches(job[c].agent, job[c].peer)
    /\ \A i \in issued : \E n \in Names : i.handle = Handle(n, i.id) /\ Reaches(n, i.peer)
    /\ \A h \in DOMAIN tasks : Issue(h, tasks[h].peer, tasks[h].id) \in issued
    /\ \A c \in Callers :
          job[c].op \in {"polling", "untracking"} =>
              Issue(job[c].handle, job[c].peer, job[c].id) \in issued

\* A caller about to stop tracking a task has seen it in a final state, and final
\* states stay.
UntrackedAreFinished ==
    \A c \in Callers : job[c].op = "untracking" => Finished(job[c].peer, job[c].id)

\* A task has one handle: what is being tracked exists and has not been issued, and
\* two callers never track the same task.
TrackedOnce ==
    /\ \A i \in issued : remote[i.peer][i.id] # Absent
    /\ \A c \in Callers : job[c].op = "tracking" =>
          /\ remote[job[c].peer][job[c].id] # Absent
          /\ \A i \in issued : ~ (i.peer = job[c].peer /\ i.id = job[c].id)
          /\ \A d \in Callers \ {c} :
                job[d].op = "tracking" => ~ (job[d].peer = job[c].peer /\ job[d].id = job[c].id)

IndInv ==
    /\ TypeOK
    /\ roster \in Rosters
    /\ IsFiniteSet(DOMAIN tasks)
    /\ Bounded
    /\ IsFiniteSet(issued)
    /\ Provenance
    /\ UntrackedAreFinished
    /\ TrackedOnce

-------------------------------------------------------------------------------
(***************************************************************************)
(* The table.                                                              *)
(***************************************************************************)

\* A table of entries: what the handlers keep _tasks to.
Tables(t) ==
    /\ DOMAIN t \subseteq Handles
    /\ \A h \in DOMAIN t : t[h] \in Entries

\* In a table that is not empty, Oldest is an entry inserted no later than any.
LEMMA OldestIsOldest ==
    ASSUME NEW t, Tables(t), DOMAIN t # {}
    PROVE  /\ Oldest(t) \in DOMAIN t
           /\ \A g \in DOMAIN t : t[Oldest(t)].born <= t[g].born
<1> DEFINE T == {t[h].born : h \in DOMAIN t}
<1>1. T \subseteq Nat /\ T # {}
  BY DEF Tables, Entries
<1>2. PICK x \in T : \A y \in T : x <= y
  <2> HIDE DEF T
  <2> QED BY <1>1, Least
<1>3. PICK h \in DOMAIN t : t[h].born = x
  BY <1>2
<1>4. \A g \in DOMAIN t : t[h].born <= t[g].born
  BY <1>2, <1>3
<1> QED
  BY <1>3, <1>4 DEF Oldest

\* Evict takes the oldest entry out of a full table, and nothing else.
LEMMA EvictTakesOldest ==
    ASSUME NEW t, Tables(t), IsFiniteSet(DOMAIN t),
           Cardinality(DOMAIN t) <= MAX_TRACKED_TASKS
    PROVE  /\ Tables(Evict(t))
           /\ DOMAIN Evict(t) \subseteq DOMAIN t
           /\ \A g \in DOMAIN Evict(t) : Evict(t)[g] = t[g]
           /\ IsFiniteSet(DOMAIN Evict(t))
           /\ Cardinality(DOMAIN Evict(t)) < MAX_TRACKED_TASKS
           /\ \A h \in DOMAIN t \ DOMAIN Evict(t) :
                 /\ Cardinality(DOMAIN t) = MAX_TRACKED_TASKS
                 /\ \A g \in DOMAIN t : t[h].born <= t[g].born
<1>1. MAX_TRACKED_TASKS \in Nat \ {0}
  BY TrackerAssumption
<1>2. Cardinality(DOMAIN t) \in Nat
  BY FS_CardinalityType
<1>3. CASE Cardinality(DOMAIN t) >= MAX_TRACKED_TASKS
  <2>1. DOMAIN t # {}
    BY <1>1, <1>3, FS_EmptySet
  <2>2. /\ Oldest(t) \in DOMAIN t
        /\ \A g \in DOMAIN t : t[Oldest(t)].born <= t[g].born
    BY <2>1, OldestIsOldest
  <2>3. Evict(t) = Without(t, Oldest(t))
    BY <1>3 DEF Evict, EvictAt
  <2>4. DOMAIN Evict(t) = DOMAIN t \ {Oldest(t)}
    BY <2>3 DEF Without
  <2>5. \A g \in DOMAIN Evict(t) : Evict(t)[g] = t[g]
    BY <2>3 DEF Without
  <2>6. /\ IsFiniteSet(DOMAIN Evict(t))
        /\ Cardinality(DOMAIN Evict(t)) = Cardinality(DOMAIN t) - 1
    BY <2>2, <2>4, FS_RemoveElement
  <2>7. Tables(Evict(t))
    BY <2>4, <2>5 DEF Tables
  <2>8. Cardinality(DOMAIN t) = MAX_TRACKED_TASKS
    BY <1>1, <1>2, <1>3
  <2>9. Cardinality(DOMAIN Evict(t)) < MAX_TRACKED_TASKS
    BY <1>1, <2>6, <2>8
  <2> QED
    BY <2>2, <2>4, <2>5, <2>6, <2>7, <2>8, <2>9
<1>4. CASE ~ (Cardinality(DOMAIN t) >= MAX_TRACKED_TASKS)
  <2>1. Evict(t) = t
    BY <1>4 DEF Evict, EvictAt
  <2>2. Cardinality(DOMAIN t) < MAX_TRACKED_TASKS
    BY <1>1, <1>2, <1>4
  <2> QED
    BY <2>1, <2>2
<1> QED
  BY <1>3, <1>4

\* Two entries for the same task of the same peer.
SameTask(d, e) == d.peer = e.peer /\ d.agent = e.agent /\ d.id = e.id

\* Storing an entry adds its handle, and changes no other entry.
LEMMA StoreAdds ==
    ASSUME NEW t, Tables(t), NEW h \in Handles, NEW e \in Entries
    PROVE  /\ Tables(Store(t, h, e))
           /\ DOMAIN Store(t, h, e) = DOMAIN t \cup {h}
           /\ \A g \in DOMAIN t \ {h} : Store(t, h, e)[g] = t[g]
           /\ SameTask(Store(t, h, e)[h], e)
<1> DEFINE s == Store(t, h, e)
<1>1. DOMAIN s = DOMAIN t \cup {h}
  BY DEF Store
<1>2. \A g \in DOMAIN t \ {h} : s[g] = t[g]
  BY DEF Store
<1>3. s[h] = IF h \in DOMAIN t THEN [e EXCEPT !.born = t[h].born] ELSE e
  BY DEF Store
<1>4. s[h] \in Entries /\ SameTask(s[h], e)
  BY <1>3 DEF Entries, Tables, SameTask
<1>5. Tables(s)
  BY <1>1, <1>2, <1>4 DEF Tables
<1> QED
  BY <1>1, <1>2, <1>4, <1>5

-------------------------------------------------------------------------------
(***************************************************************************)
(* Type correctness.                                                       *)
(***************************************************************************)

\* An answer to a submit either names no task or one under an unused id, and the
\* handler only tracks the latter.
LEMMA AnswerShape ==
    ASSUME NEW p, NEW x \in Answers(p)
    PROVE  /\ x.id # NoId => /\ x.id \in Ids
                             /\ x.state \in States
                             /\ remote[p][x.id] = Absent
           /\ Trackable(x) => x.id # NoId
<1>1. CASE x \in {Lost, RpcError, Message("text")}
  <2>1. x.id = NoId
    BY <1>1 DEF Lost, RpcError, Message, Blank
  <2>2. ~ Trackable(x)
    BY <2>1 DEF Trackable, interpret_result
  <2> QED
    BY <2>1, <2>2
<1>2. CASE \E i \in {j \in Ids : remote[p][j] = Absent}, s \in States : x = Task(i, s)
  <2>1. PICK i \in {j \in Ids : remote[p][j] = Absent}, s \in States : x = Task(i, s)
    BY <1>2
  <2>2. x.id = i /\ x.state = s
    BY <2>1 DEF Task, Blank
  <2> QED
    BY <2>2, TrackerAssumption
<1> QED
  BY <1>1, <1>2 DEF Answers

LEMMA HandleType ==
    ASSUME NEW n \in Names, NEW i \in Ids
    PROVE  TrackKey(n, i) \in Handles
BY DEF TrackKey, Handles

\* Every step keeps the types, the roster one of the registry's, and the table
\* finite and within its limit.
Shape == TypeOK /\ roster \in Rosters /\ IsFiniteSet(DOMAIN tasks) /\ Bounded

LEMMA ShapeStep ==
    ASSUME Shape, [Next]_vars
    PROVE  Shape'
<1> USE DEF TypeOK, Shape
<1>1. ASSUME NEW c \in Callers, NEW n \in Names, SubmitResolve(c, n)
      PROVE  Shape'
  <2>1. roster[n] \in Peers
    BY <1>1 DEF SubmitResolve
  <2>2. [op |-> "sending", agent |-> n, peer |-> roster[n]] \in Jobs
    BY <2>1 DEF Jobs
  <2>3. job' \in [Callers -> Jobs]
    BY <1>1, <2>2 DEF SubmitResolve
  <2> QED
    BY <1>1, <2>3 DEF SubmitResolve, Bounded
<1>2. ASSUME NEW c \in Callers, job[c].op = "sending",
             NEW x \in Answers(job[c].peer), SubmitAnswer(c, x)
      PROVE  Shape'
  <2>1. job[c].agent \in Names /\ job[c].peer \in Peers
    BY <1>2 DEF Jobs, Idle
  <2>2. x.id # NoId => x.id \in Ids /\ x.state \in States
    BY <1>2, AnswerShape
  <2>3. remote' \in [Peers -> [Ids -> States \cup {Absent}]]
    BY <1>2, <2>1, <2>2 DEF SubmitAnswer, Created
  <2>4. Trackable(x) =>
           [op |-> "tracking", agent |-> job[c].agent, peer |-> job[c].peer, id |-> x.id] \in Jobs
    BY <1>2, <2>1, <2>2, AnswerShape DEF Jobs
  <2>5. job' \in [Callers -> Jobs]
    BY <1>2, <2>4 DEF SubmitAnswer, Jobs
  <2> QED
    BY <1>2, <2>3, <2>5 DEF SubmitAnswer, Bounded
<1>3. ASSUME NEW c \in Callers, NEW i \in Ids, SubmitOrphan(c, i)
      PROVE  Shape'
  <2>1. job[c].peer \in Peers
    BY <1>3 DEF SubmitOrphan, Jobs, Idle
  <2>2. remote' \in [Peers -> [Ids -> States \cup {Absent}]]
    BY <1>3, <2>1 DEF SubmitOrphan
  <2>3. job' \in [Callers -> Jobs]
    BY <1>3 DEF SubmitOrphan, Jobs
  <2> QED
    BY <1>3, <2>2, <2>3 DEF SubmitOrphan, Bounded
<1>4. ASSUME NEW c \in Callers, Track(c)
      PROVE  Shape'
  <2> DEFINE h == TrackKey(job[c].agent, job[c].id)
             e == [peer |-> job[c].peer, agent |-> job[c].agent, id |-> job[c].id,
                   born |-> stamp]
  <2>1. job[c].agent \in Names /\ job[c].peer \in Peers /\ job[c].id \in Ids
    BY <1>4 DEF Track, Jobs, Idle
  <2>2. h \in Handles /\ e \in Entries
    BY <2>1, HandleType DEF Entries
  <2>3. Tables(tasks)
    BY DEF Tables
  <2>4. /\ Tables(Evict(tasks))
        /\ IsFiniteSet(DOMAIN Evict(tasks))
        /\ Cardinality(DOMAIN Evict(tasks)) < MAX_TRACKED_TASKS
    BY <2>3, EvictTakesOldest DEF Bounded
  <2>5. tasks' = Store(Evict(tasks), h, e)
    BY <1>4 DEF Track
  <2>6. Tables(tasks') /\ DOMAIN tasks' = DOMAIN Evict(tasks) \cup {h}
    <3> HIDE DEF h, e
    <3> QED BY <2>2, <2>4, <2>5, StoreAdds
  <2>7. IsFiniteSet(DOMAIN tasks') /\ Cardinality(DOMAIN tasks') <= MAX_TRACKED_TASKS
    <3> HIDE DEF h
    <3>1. Cardinality(DOMAIN Evict(tasks)) \in Nat /\ MAX_TRACKED_TASKS \in Nat
      BY <2>4, FS_CardinalityType, TrackerAssumption
    <3> DEFINE D == DOMAIN Evict(tasks)
    <3>2. /\ IsFiniteSet(D \cup {h})
          /\ Cardinality(D \cup {h}) = IF h \in D THEN Cardinality(D) ELSE Cardinality(D) + 1
      BY <2>4, FS_AddElement
    <3>3. Cardinality(D \cup {h}) <= MAX_TRACKED_TASKS
      BY <2>4, <3>1, <3>2
    <3> QED
      BY <2>6, <3>2, <3>3
  <2>8. issued' \subseteq Issues
    <3>1. issued' = issued \cup {[handle |-> h, peer |-> job[c].peer, id |-> job[c].id]}
      BY <1>4 DEF Track
    <3>2. [handle |-> h, peer |-> job[c].peer, id |-> job[c].id] \in Issues
      <4> HIDE DEF h
      <4> QED BY <2>1, <2>2 DEF Issues
    <3> QED
      BY <3>1, <3>2
  <2>9. job' \in [Callers -> Jobs]
    BY <1>4 DEF Track, Jobs
  <2> QED
    BY <1>4, <2>6, <2>7, <2>8, <2>9 DEF Track, Tables, Bounded
<1>5. ASSUME NEW c \in Callers, NEW h \in DOMAIN tasks, PollLookup(c, h)
      PROVE  Shape'
  <2>1. [op |-> "polling", handle |-> h, peer |-> tasks[h].peer, id |-> tasks[h].id] \in Jobs
    BY DEF Jobs, Entries
  <2>2. job' \in [Callers -> Jobs]
    BY <1>5, <2>1 DEF PollLookup
  <2> QED
    BY <1>5, <2>2 DEF PollLookup, Bounded
<1>6. ASSUME NEW c \in Callers, NEW x, PollAnswer(c, x)
      PROVE  Shape'
  <2>1. [job[c] EXCEPT !.op = "untracking"] \in Jobs
    BY <1>6 DEF PollAnswer, Jobs, Idle
  <2>2. job' \in [Callers -> Jobs]
    BY <1>6, <2>1 DEF PollAnswer, Jobs
  <2> QED
    BY <1>6, <2>2 DEF PollAnswer, Bounded
<1>7. ASSUME NEW c \in Callers, Untrack(c)
      PROVE  Shape'
  <2>1. /\ DOMAIN tasks' = DOMAIN tasks \ {job[c].handle}
        /\ \A g \in DOMAIN tasks' : tasks'[g] = tasks[g]
    BY <1>7 DEF Untrack, Without
  <2>2. /\ IsFiniteSet(DOMAIN tasks')
        /\ Cardinality(DOMAIN tasks') <= Cardinality(DOMAIN tasks)
    BY <2>1, FS_Subset
  <2>3. Cardinality(DOMAIN tasks) \in Nat /\ Cardinality(DOMAIN tasks') \in Nat
    BY <2>2, FS_CardinalityType
  <2>4. Cardinality(DOMAIN tasks') <= MAX_TRACKED_TASKS
    BY <2>2, <2>3, TrackerAssumption DEF Bounded
  <2>5. job' \in [Callers -> Jobs]
    BY <1>7 DEF Untrack, Jobs
  <2> QED
    BY <1>7, <2>1, <2>2, <2>4, <2>5 DEF Untrack, Bounded
<1>8. CASE Refresh
  BY <1>8, TrackerAssumption DEF Refresh, Bounded
<1>9. ASSUME NEW p \in Peers, NEW i \in Ids, Progress(p, i)
      PROVE  Shape'
  BY <1>9 DEF Progress, Bounded
<1>10. CASE UNCHANGED vars
  BY <1>10 DEF vars, Bounded
<1> QED
  BY <1>1, <1>2, <1>3, <1>4, <1>5, <1>6, <1>7, <1>8, <1>9, <1>10 DEF Next, Submit, Poll

-------------------------------------------------------------------------------
(***************************************************************************)
(* Where entries and polls come from.                                      *)
(***************************************************************************)

LEMMA ProvenanceStep ==
    ASSUME Shape, Provenance, [Next]_vars
    PROVE  Provenance'
<1> USE DEF Shape, TypeOK
<1>1. ASSUME NEW c \in Callers, NEW n \in Names, SubmitResolve(c, n)
      PROVE  Provenance'
  <2>1. Reaches(n, roster[n])
    BY DEF Reaches
  <2>2. job' = [job EXCEPT ![c] = [op |-> "sending", agent |-> n, peer |-> roster[n]]]
    BY <1>1 DEF SubmitResolve
  <2> QED
    BY <1>1, <2>1, <2>2 DEF SubmitResolve, Provenance
<1>2. ASSUME NEW c \in Callers, job[c].op = "sending", NEW x, SubmitAnswer(c, x)
      PROVE  Provenance'
  <2>1. Reaches(job[c].agent, job[c].peer)
    BY <1>2 DEF Provenance
  <2>2. job' = [job EXCEPT ![c] =
           IF Trackable(x)
           THEN [op |-> "tracking", agent |-> job[c].agent, peer |-> job[c].peer, id |-> x.id]
           ELSE Idle]
    BY <1>2 DEF SubmitAnswer
  <2> QED
    BY <1>2, <2>1, <2>2 DEF SubmitAnswer, Provenance, Idle
<1>3. ASSUME NEW c \in Callers, NEW i \in Ids, SubmitOrphan(c, i)
      PROVE  Provenance'
  BY <1>3 DEF SubmitOrphan, Provenance, Idle
<1>4. ASSUME NEW c \in Callers, Track(c)
      PROVE  Provenance'
  <2> DEFINE h == TrackKey(job[c].agent, job[c].id)
             e == [peer |-> job[c].peer, agent |-> job[c].agent, id |-> job[c].id,
                   born |-> stamp]
             s == Store(Evict(tasks), h, e)
  <2>1. job[c].agent \in Names /\ job[c].peer \in Peers /\ job[c].id \in Ids
    BY <1>4 DEF Track, Jobs, Idle
  <2>2. /\ h = Handle(job[c].agent, job[c].id)
        /\ Reaches(job[c].agent, job[c].peer)
    BY <1>4 DEF TrackKey, Track, Provenance
  <2>3. /\ tasks' = s
        /\ issued' = issued \cup {Issue(h, job[c].peer, job[c].id)}
        /\ job' = [job EXCEPT ![c] = Idle]
    BY <1>4 DEF Track, Issue
  <2>4. h \in Handles /\ e \in Entries /\ e.peer = job[c].peer /\ e.id = job[c].id
    BY <2>1, HandleType DEF Entries
  <2>5. /\ Tables(Evict(tasks))
        /\ DOMAIN Evict(tasks) \subseteq DOMAIN tasks
        /\ \A g \in DOMAIN Evict(tasks) : Evict(tasks)[g] = tasks[g]
    BY EvictTakesOldest DEF Tables, Bounded
  <2>6. /\ DOMAIN s = DOMAIN Evict(tasks) \cup {h}
        /\ \A g \in DOMAIN Evict(tasks) \ {h} : s[g] = Evict(tasks)[g]
        /\ s[h].peer = e.peer /\ s[h].id = e.id
    <3> DEFINE t == Evict(tasks)
    <3>1. Tables(t) /\ h \in Handles /\ e \in Entries
      BY <2>4, <2>5
    <3> HIDE DEF h, e, t
    <3>2. /\ DOMAIN Store(t, h, e) = DOMAIN t \cup {h}
          /\ \A g \in DOMAIN t \ {h} : Store(t, h, e)[g] = t[g]
          /\ SameTask(Store(t, h, e)[h], e)
      BY <3>1, StoreAdds
    <3> QED
      BY <3>2 DEF t, SameTask
  <2>7. \A g \in DOMAIN s : Issue(g, s[g].peer, s[g].id) \in issued'
    <3>1. ASSUME NEW g \in DOMAIN s, g # h
          PROVE  Issue(g, s[g].peer, s[g].id) \in issued
      <4>1. g \in DOMAIN tasks /\ s[g] = tasks[g]
        <5> HIDE DEF h, e, s
        <5> QED BY <2>5, <2>6, <3>1
      <4> QED
        BY <4>1 DEF Provenance
    <3>2. Issue(h, s[h].peer, s[h].id) = Issue(h, job[c].peer, job[c].id)
      BY <2>4, <2>6
    <3> HIDE DEF h, e, s
    <3> QED
      BY <2>3, <3>1, <3>2
  <2>8. ASSUME NEW i \in issued'
        PROVE  \E n \in Names : i.handle = Handle(n, i.id) /\ Reaches(n, i.peer)
    <3>1. CASE i \in issued
      BY <3>1 DEF Provenance
    <3>2. CASE i = Issue(h, job[c].peer, job[c].id)
      BY <2>1, <2>2, <3>2 DEF Issue
    <3> QED
      BY <2>3, <3>1, <3>2
  <2>9. \A d \in Callers :
           /\ job'[d].op \in {"sending", "tracking"} => Reaches(job'[d].agent, job'[d].peer)
           /\ job'[d].op \in {"polling", "untracking"} =>
                 Issue(job'[d].handle, job'[d].peer, job'[d].id) \in issued'
    BY <2>3 DEF Provenance, Idle
  <2> HIDE DEF h, e, s
  <2> QED
    BY <2>3, <2>7, <2>8, <2>9 DEF Provenance
<1>5. ASSUME NEW c \in Callers, NEW h \in DOMAIN tasks, PollLookup(c, h)
      PROVE  Provenance'
  <2>1. job' = [job EXCEPT ![c] = [op |-> "polling", handle |-> h,
                                   peer |-> tasks[h].peer, id |-> tasks[h].id]]
    BY <1>5 DEF PollLookup
  <2>2. Issue(h, tasks[h].peer, tasks[h].id) \in issued
    BY DEF Provenance
  <2> QED
    BY <1>5, <2>1, <2>2 DEF PollLookup, Provenance
<1>6. ASSUME NEW c \in Callers, NEW x, PollAnswer(c, x)
      PROVE  Provenance'
  <2>1. Issue(job[c].handle, job[c].peer, job[c].id) \in issued
    BY <1>6 DEF PollAnswer, Provenance
  <2>2. /\ job' = [job EXCEPT ![c] =
              IF PollDone(x) THEN [job[c] EXCEPT !.op = "untracking"] ELSE Idle]
        /\ UNCHANGED <<tasks, issued>>
    BY <1>6 DEF PollAnswer
  <2>3. job[c] \in Jobs /\ job[c].op = "polling"
    BY <1>6 DEF PollAnswer
  <2>4. LET j == [job[c] EXCEPT !.op = "untracking"] IN
        /\ j.op = "untracking"
        /\ j.handle = job[c].handle /\ j.peer = job[c].peer /\ j.id = job[c].id
    BY <2>3 DEF Jobs, Idle
  <2>5. \A d \in Callers :
           /\ job'[d].op \in {"sending", "tracking"} => Reaches(job'[d].agent, job'[d].peer)
           /\ job'[d].op \in {"polling", "untracking"} =>
                 Issue(job'[d].handle, job'[d].peer, job'[d].id) \in issued
    BY <2>1, <2>2, <2>4 DEF Provenance, Idle
  <2> QED
    BY <2>2, <2>5 DEF Provenance
<1>7. ASSUME NEW c \in Callers, Untrack(c)
      PROVE  Provenance'
  BY <1>7 DEF Untrack, Without, Provenance, Idle
<1>8. CASE Refresh
  BY <1>8 DEF Refresh, Provenance
<1>9. ASSUME NEW p \in Peers, NEW i \in Ids, Progress(p, i)
      PROVE  Provenance'
  BY <1>9 DEF Progress, Provenance
<1>10. CASE UNCHANGED vars
  BY <1>10 DEF vars, Provenance
<1> QED
  BY <1>1, <1>2, <1>3, <1>4, <1>5, <1>6, <1>7, <1>8, <1>9, <1>10 DEF Next, Submit, Poll

-------------------------------------------------------------------------------
(***************************************************************************)
(* Final states.                                                           *)
(***************************************************************************)

\* No step takes a task out of a final state.
LEMMA FinalStays ==
    ASSUME Shape, [Next]_vars, NEW p \in Peers, NEW i \in Ids, Finished(p, i)
    PROVE  Finished(p, i)'
<1> USE DEF Shape, TypeOK
<1>1. remote[p][i] \in DONE_STATES /\ remote[p][i] # Absent
  BY DEF Finished, DONE_STATES, TERMINAL_STATES, Absent
<1>2. ASSUME NEW c \in Callers, job[c].op = "sending",
             NEW x \in Answers(job[c].peer), SubmitAnswer(c, x)
      PROVE  remote'[p][i] = remote[p][i]
  <2>1. job[c].peer \in Peers
    BY <1>2 DEF Jobs, Idle
  <2>2. x.id # NoId => x.id \in Ids /\ remote[job[c].peer][x.id] = Absent
    BY AnswerShape
  <2> QED
    BY <1>1, <1>2, <2>1, <2>2 DEF SubmitAnswer, Created
<1>3. ASSUME NEW c \in Callers, NEW j \in Ids, SubmitOrphan(c, j)
      PROVE  remote'[p][i] = remote[p][i]
  <2>1. job[c].peer \in Peers
    BY <1>3 DEF SubmitOrphan, Jobs, Idle
  <2> QED
    BY <1>1, <1>3, <2>1 DEF SubmitOrphan
<1>4. ASSUME NEW q \in Peers, NEW j \in Ids, Progress(q, j)
      PROVE  remote'[p][i] = remote[p][i]
  BY <1>1, <1>4 DEF Progress
<1>5. remote'[p][i] = remote[p][i]
  BY <1>2, <1>3, <1>4
     DEF Next, Submit, Poll, vars, SubmitResolve, Track, PollLookup, PollAnswer, Untrack, Refresh
<1> QED
  BY <1>1, <1>5 DEF Finished

LEMMA UntrackedStep ==
    ASSUME Shape, UntrackedAreFinished, [Next]_vars
    PROVE  UntrackedAreFinished'
<1> USE DEF Shape, TypeOK
<1>1. SUFFICES ASSUME NEW c \in Callers, job'[c].op = "untracking"
               PROVE  remote'[job'[c].peer][job'[c].id] \in DONE_STATES
  BY DEF UntrackedAreFinished, Finished
<1>2. CASE job'[c] = job[c]
  <2>1. Finished(job[c].peer, job[c].id)
    BY <1>1, <1>2 DEF UntrackedAreFinished
  <2>2. job[c].peer \in Peers /\ job[c].id \in Ids
    BY <1>1, <1>2 DEF Jobs, Idle
  <2> QED
    BY <1>2, <2>1, <2>2, FinalStays DEF Finished
<1>3. ASSUME NEW x \in PollAnswers(job[c].peer, job[c].id), PollAnswer(c, x)
      PROVE  remote'[job'[c].peer][job'[c].id] \in DONE_STATES
  <2>1. PollDone(x)
    BY <1>1, <1>3 DEF PollAnswer, Idle
  <2>2. x.state = remote[job[c].peer][job[c].id]
    <3>1. ~ x.lost /\ ~ x.malformed /\ ~ x.error
      BY <2>1 DEF PollDone, Undecodable, interpret_result
    <3>2. x = Task(job[c].id, remote[job[c].peer][job[c].id])
      BY <1>3, <3>1 DEF PollAnswers, Lost, RpcError, Malformed, Blank
    <3> QED
      BY <3>2 DEF Task, Blank
  <2>3. x.state \in DONE_STATES
    BY <2>1 DEF PollDone, interpret_result
  <2>4. job[c] \in Jobs /\ job[c].op = "polling"
    BY <1>3 DEF PollAnswer
  <2>5. job[c].peer \in Peers /\ job[c].id \in Ids
    BY <2>4 DEF Jobs, Idle
  <2>6. job'[c].peer = job[c].peer /\ job'[c].id = job[c].id
    BY <1>3, <2>1, <2>4 DEF PollAnswer, Jobs, Idle
  <2>7. remote' = remote
    BY <1>3 DEF PollAnswer
  <2> QED
    BY <2>2, <2>3, <2>6, <2>7
<1>4. ASSUME NEW d \in Callers, Submit(d)
      PROVE  job'[c] = job[c]
  <2>1. job'[c] = job[c] \/ c = d
    BY <1>4 DEF Submit, SubmitResolve, SubmitAnswer, SubmitOrphan, Track
  <2>2. c # d
    BY <1>1, <1>4 DEF Submit, SubmitResolve, SubmitAnswer, SubmitOrphan, Track, Idle
  <2> QED
    BY <2>1, <2>2
<1>5. ASSUME NEW d \in Callers, Poll(d)
      PROVE  \/ job'[c] = job[c]
             \/ \E x \in PollAnswers(job[c].peer, job[c].id) : PollAnswer(c, x)
  <2>1. job'[c] = job[c] \/ c = d
    BY <1>5 DEF Poll, PollLookup, PollAnswer, Untrack
  <2>2. ~ Untrack(c) /\ \A h \in DOMAIN tasks : ~ PollLookup(c, h)
    BY <1>1 DEF Untrack, PollLookup, Idle
  <2> QED
    BY <1>5, <2>1, <2>2 DEF Poll
<1> QED
  BY <1>2, <1>3, <1>4, <1>5 DEF Next, Refresh, Progress, vars

-------------------------------------------------------------------------------
(***************************************************************************)
(* One handle for each task.                                               *)
(***************************************************************************)

\* No step takes a task away from its peer.
LEMMA TasksStay ==
    ASSUME Shape, [Next]_vars, NEW p \in Peers, NEW i \in Ids, remote[p][i] # Absent
    PROVE  remote'[p][i] # Absent
<1> USE DEF Shape, TypeOK
<1>1. Absent \notin States
  BY TrackerAssumption
<1>2. ASSUME NEW c \in Callers, job[c].op = "sending",
             NEW x \in Answers(job[c].peer), SubmitAnswer(c, x)
      PROVE  remote'[p][i] = remote[p][i]
  <2>1. job[c].peer \in Peers
    BY <1>2 DEF Jobs, Idle
  <2>2. x.id # NoId => x.id \in Ids /\ remote[job[c].peer][x.id] = Absent
    BY AnswerShape
  <2> QED
    BY <1>2, <2>1, <2>2 DEF SubmitAnswer, Created
<1>3. ASSUME NEW c \in Callers, NEW j \in Ids, SubmitOrphan(c, j)
      PROVE  remote'[p][i] = remote[p][i]
  <2>1. job[c].peer \in Peers
    BY <1>3 DEF SubmitOrphan, Jobs, Idle
  <2> QED
    BY <1>3, <2>1 DEF SubmitOrphan
<1>4. ASSUME NEW q \in Peers, NEW j \in Ids, Progress(q, j)
      PROVE  remote'[p][i] # Absent
  BY <1>1, <1>4 DEF Progress
<1> QED
  BY <1>2, <1>3, <1>4
     DEF Next, Submit, Poll, vars, SubmitResolve, Track, PollLookup, PollAnswer, Untrack, Refresh

\* Only an answer makes a caller track a task: one that its peer did not have before.
LEMMA NewlyTracked ==
    ASSUME Shape, [Next]_vars, NEW c \in Callers, job'[c].op = "tracking"
    PROVE  \/ job'[c] = job[c]
           \/ /\ \A d \in Callers \ {c} : job'[d] = job[d]
              /\ issued' = issued
              /\ job'[c].peer \in Peers /\ job'[c].id \in Ids
              /\ remote[job'[c].peer][job'[c].id] = Absent
              /\ remote'[job'[c].peer][job'[c].id] # Absent
<1> USE DEF Shape, TypeOK
<1>1. SUFFICES ASSUME job'[c] # job[c]
               PROVE  /\ \A d \in Callers \ {c} : job'[d] = job[d]
                      /\ issued' = issued
                      /\ job'[c].peer \in Peers /\ job'[c].id \in Ids
                      /\ remote[job'[c].peer][job'[c].id] = Absent
                      /\ remote'[job'[c].peer][job'[c].id] # Absent
  OBVIOUS
<1>2. ASSUME NEW d \in Callers, Poll(d)
      PROVE  FALSE
  BY <1>1, <1>2 DEF Poll, PollLookup, PollAnswer, Untrack, Idle, Jobs
<1>3. PICK d \in Callers : Submit(d)
  BY <1>1, <1>2 DEF Next, Refresh, Progress, vars
<1>4. PICK x \in Answers(job[c].peer) : job[c].op = "sending" /\ SubmitAnswer(c, x)
  BY <1>1, <1>3 DEF Submit, SubmitResolve, SubmitAnswer, SubmitOrphan, Track, Idle
<1>5. /\ job' = [job EXCEPT ![c] = [op |-> "tracking", agent |-> job[c].agent,
                                    peer |-> job[c].peer, id |-> x.id]]
      /\ Trackable(x)
  BY <1>1, <1>4 DEF SubmitAnswer, Idle
<1>6. x.id \in Ids /\ x.state \in States /\ remote[job[c].peer][x.id] = Absent /\ x.id # NoId
  BY <1>4, <1>5, AnswerShape
<1>7. job[c].peer \in Peers
  BY <1>4 DEF Jobs, Idle
<1>8. remote' = [remote EXCEPT ![job[c].peer][x.id] = x.state] /\ issued' = issued
  BY <1>4, <1>6 DEF SubmitAnswer, Created
<1> QED
  BY <1>5, <1>6, <1>7, <1>8, TrackerAssumption

\* A handle is issued only by the caller that was tracking the task.
LEMMA NewlyIssued ==
    ASSUME Shape, [Next]_vars, NEW i \in issued', i \notin issued
    PROVE  \E c \in Callers :
              /\ job[c].op = "tracking" /\ i.peer = job[c].peer /\ i.id = job[c].id
              /\ job' = [job EXCEPT ![c] = Idle]
<1>1. PICK c \in Callers : Track(c)
  BY DEF Next, Submit, Poll, vars, SubmitResolve, SubmitAnswer, SubmitOrphan, PollLookup,
         PollAnswer, Untrack, Refresh, Progress
<1>2. i = [handle |-> TrackKey(job[c].agent, job[c].id), peer |-> job[c].peer, id |-> job[c].id]
  BY <1>1 DEF Track
<1> QED
  BY <1>1, <1>2 DEF Track

LEMMA TrackedOnceStep ==
    ASSUME Shape, TrackedOnce, [Next]_vars
    PROVE  TrackedOnce'
<1> USE DEF Shape, TypeOK
<1>1. ASSUME NEW c \in Callers, job[c].op = "tracking"
      PROVE  job[c].peer \in Peers /\ job[c].id \in Ids
  BY <1>1 DEF Jobs, Idle
<1>2. ASSUME NEW i \in issued' PROVE remote'[i.peer][i.id] # Absent
  <2>1. CASE i \in issued
    <3>1. i.peer \in Peers /\ i.id \in Ids /\ remote[i.peer][i.id] # Absent
      BY <2>1 DEF Issues, TrackedOnce
    <3> QED
      BY <3>1, TasksStay
  <2>2. CASE i \notin issued
    BY <1>1, <2>2, NewlyIssued, TasksStay DEF TrackedOnce
  <2> QED
    BY <2>1, <2>2
<1>3. ASSUME NEW c \in Callers, job'[c].op = "tracking"
      PROVE  remote'[job'[c].peer][job'[c].id] # Absent
  BY <1>1, <1>3, NewlyTracked, TasksStay DEF TrackedOnce
<1>4. ASSUME NEW c \in Callers, job'[c].op = "tracking", NEW i \in issued'
      PROVE  ~ (i.peer = job'[c].peer /\ i.id = job'[c].id)
  <2>1. CASE i \in issued
    BY <1>4, <2>1, NewlyTracked DEF TrackedOnce
  <2>2. CASE i \notin issued
    <3>1. PICK d \in Callers :
              /\ job[d].op = "tracking" /\ i.peer = job[d].peer /\ i.id = job[d].id
              /\ job' = [job EXCEPT ![d] = Idle]
      BY <2>2, NewlyIssued
    <3>2. c # d /\ job'[c] = job[c]
      BY <1>4, <3>1 DEF Idle
    <3> QED
      BY <1>4, <3>1, <3>2 DEF TrackedOnce
  <2> QED
    BY <2>1, <2>2
<1>5. ASSUME NEW c \in Callers, job'[c].op = "tracking",
             NEW d \in Callers \ {c}, job'[d].op = "tracking"
      PROVE  ~ (job'[d].peer = job'[c].peer /\ job'[d].id = job'[c].id)
  <2>1. CASE job'[c] = job[c] /\ job'[d] = job[d]
    BY <1>5, <2>1 DEF TrackedOnce
  <2>2. CASE job'[c] # job[c]
    BY <1>5, <2>2, NewlyTracked DEF TrackedOnce
  <2>3. CASE job'[d] # job[d]
    BY <1>5, <2>3, NewlyTracked DEF TrackedOnce
  <2> QED
    BY <2>1, <2>2, <2>3
<1> QED
  BY <1>2, <1>3, <1>4, <1>5 DEF TrackedOnce

LEMMA IssuedFinite ==
    ASSUME IsFiniteSet(issued), [Next]_vars
    PROVE  IsFiniteSet(issued')
<1>1. ASSUME NEW c \in Callers, Track(c)
      PROVE  IsFiniteSet(issued')
  BY <1>1, FS_AddElement DEF Track
<1> QED
  BY <1>1 DEF Next, Submit, Poll, vars, SubmitResolve, SubmitAnswer, SubmitOrphan, PollLookup,
              PollAnswer, Untrack, Refresh, Progress

-------------------------------------------------------------------------------
(***************************************************************************)
(* The invariant, and what follows from it.                                *)
(***************************************************************************)

LEMMA InitInv == Init => IndInv
<1> SUFFICES ASSUME Init PROVE IndInv
  OBVIOUS
<1>1. DOMAIN tasks = {}
  BY DEF Init
<1>2. TypeOK /\ roster \in Rosters
  BY TrackerAssumption DEF Init, TypeOK, Jobs
<1>3. IsFiniteSet(DOMAIN tasks) /\ Bounded
  BY <1>1, FS_EmptySet, TrackerAssumption DEF Bounded
<1>4. Provenance /\ UntrackedAreFinished /\ TrackedOnce
  BY <1>1 DEF Init, Idle, Provenance, UntrackedAreFinished, TrackedOnce
<1>5. IsFiniteSet(issued)
  BY FS_EmptySet DEF Init
<1> QED
  BY <1>2, <1>3, <1>4, <1>5 DEF IndInv

\* IndInv holds of every reachable state: types, a table within its limit, the origin
\* of everything in flight, and one handle for each task.
THEOREM Invariance == Spec => []IndInv
<1>1. IndInv /\ [Next]_vars => IndInv'
  BY ShapeStep, ProvenanceStep, UntrackedStep, TrackedOnceStep, IssuedFinite DEF IndInv, Shape
<1> QED
  BY InitInv, <1>1, PTL DEF Spec

\* Every variable keeps its type.
THEOREM TypeCorrect == Spec => []TypeOK
<1>1. IndInv => TypeOK
  BY DEF IndInv
<1> QED
  BY Invariance, <1>1, PTL

\* The table never holds more than MAX_TRACKED_TASKS entries.
THEOREM TableBounded == Spec => []Bounded
<1>1. IndInv => Bounded
  BY DEF IndInv
<1> QED
  BY Invariance, <1>1, PTL

\* An issued handle stands for one task of one peer, when names keep their peers
\* and handles can be read in one way only.
LEMMA IssuedOnce ==
    ASSUME IndInv, StableNames, DistinctHandles,
           NEW i \in issued, NEW j \in issued, i.handle = j.handle
    PROVE  i.peer = j.peer /\ i.id = j.id
<1>1. i \in Issues /\ j \in Issues
  BY DEF IndInv, TypeOK
<1>2. PICK m \in Names : i.handle = Handle(m, i.id) /\ Reaches(m, i.peer)
  BY DEF IndInv, Provenance
<1>3. PICK n \in Names : j.handle = Handle(n, j.id) /\ Reaches(n, j.peer)
  BY DEF IndInv, Provenance
<1>4. m = n /\ i.id = j.id
  <2>1. i.id \in Ids /\ j.id \in Ids
    BY <1>1 DEF Issues
  <2>2. Handle(m, i.id) = Handle(n, j.id)
    BY <1>2, <1>3
  <2> QED
    BY <2>1, <2>2 DEF DistinctHandles
<1>5. i.peer = j.peer
  BY <1>1, <1>2, <1>3, <1>4, TrackerAssumption DEF Reaches, StableNames, Issues
<1> QED
  BY <1>4, <1>5

LEMMA MeantIsOne ==
    ASSUME IndInv, StableNames, DistinctHandles,
           NEW h, NEW p, NEW i, Issue(h, p, i) \in issued
    PROVE  Meant(h) = {<<p, i>>}
<1>1. ASSUME NEW j \in issued, j.handle = h
      PROVE  j.peer = p /\ j.id = i
  BY <1>1, IssuedOnce DEF Issue
<1>2. /\ Issue(h, p, i).handle = h
      /\ Issue(h, p, i).peer = p
      /\ Issue(h, p, i).id = i
  BY DEF Issue
<1> QED
  BY <1>1, <1>2 DEF Meant

LEMMA RoutesAreRight ==
    ASSUME IndInv, StableNames, DistinctHandles
    PROVE  PolledWhereCreated
<1>1. \A h \in DOMAIN tasks : Meant(h) = {<<tasks[h].peer, tasks[h].id>>}
  BY MeantIsOne DEF IndInv, Provenance
<1>2. \A c \in Callers :
         job[c].op \in {"polling", "untracking"} =>
             Meant(job[c].handle) = {<<job[c].peer, job[c].id>>}
  BY MeantIsOne DEF IndInv, Provenance
<1> QED
  BY <1>1, <1>2 DEF PolledWhereCreated

\* A handle is polled at the peer that created its task, for that task, as long as
\* names keep their peers and handles can be read in one way only.
THEOREM PollsReachTheirPeer ==
    ASSUME StableNames, DistinctHandles
    PROVE  Spec => []PolledWhereCreated
<1>1. IndInv => PolledWhereCreated
  BY RoutesAreRight
<1> QED
  BY Invariance, <1>1, PTL

LEMMA LeaveStep ==
    ASSUME IndInv, StableNames, DistinctHandles, [Next]_vars,
           NEW h \in DOMAIN tasks \ DOMAIN tasks'
    PROVE  \/ Finished(tasks[h].peer, tasks[h].id)
           \/ /\ Cardinality(DOMAIN tasks) = MAX_TRACKED_TASKS
              /\ \A g \in DOMAIN tasks : tasks[h].born <= tasks[g].born
<1> DEFINE Goal == \/ Finished(tasks[h].peer, tasks[h].id)
                   \/ /\ Cardinality(DOMAIN tasks) = MAX_TRACKED_TASKS
                      /\ \A g \in DOMAIN tasks : tasks[h].born <= tasks[g].born
<1>1. ASSUME NEW c \in Callers, Track(c)
      PROVE  Goal
  <2>1. \E k, e : tasks' = Store(Evict(tasks), k, e)
    BY <1>1 DEF Track
  <2>2. h \notin DOMAIN Evict(tasks)
    BY <2>1 DEF Store
  <2>3. Tables(tasks)
    BY DEF IndInv, TypeOK, Tables
  <2> QED
    BY <2>2, <2>3, EvictTakesOldest DEF IndInv, Bounded
<1>2. ASSUME NEW c \in Callers, Untrack(c)
      PROVE  Goal
  <2>1. h = job[c].handle /\ job[c].op = "untracking"
    BY <1>2 DEF Untrack, Without
  <2>2. Finished(job[c].peer, job[c].id)
    BY <2>1 DEF IndInv, UntrackedAreFinished
  <2>3. /\ Meant(h) = {<<tasks[h].peer, tasks[h].id>>}
        /\ Meant(h) = {<<job[c].peer, job[c].id>>}
    BY <2>1, RoutesAreRight DEF PolledWhereCreated
  <2>4. <<tasks[h].peer, tasks[h].id>> \in {<<job[c].peer, job[c].id>>}
    BY <2>3
  <2>5. tasks[h].peer = job[c].peer /\ tasks[h].id = job[c].id
    BY <2>4
  <2> QED
    BY <2>2, <2>5
<1>3. ASSUME UNCHANGED tasks
      PROVE  Goal
  BY <1>3
<1> QED
  BY <1>1, <1>2, <1>3
     DEF Next, Submit, Poll, vars, SubmitResolve, SubmitAnswer, SubmitOrphan, PollLookup,
         PollAnswer, Refresh, Progress

\* An entry leaves the table only when its task is over or when the table is full
\* and it is the oldest, under the same two conditions.
THEOREM EntriesLeave ==
    ASSUME StableNames, DistinctHandles
    PROVE  Spec => LeavesWhenDoneOrOldest
<1> DEFINE A == \A h \in DOMAIN tasks \ DOMAIN tasks' :
                   \/ Finished(tasks[h].peer, tasks[h].id)
                   \/ /\ Cardinality(DOMAIN tasks) = MAX_TRACKED_TASKS
                      /\ \A g \in DOMAIN tasks : tasks[h].born <= tasks[g].born
<1>1. IndInv /\ [Next]_vars => A
  BY LeaveStep
<1>2. IndInv /\ [Next]_vars => [A]_vars
  BY <1>1
<1> QED
  BY Invariance, <1>2, PTL DEF Spec, LeavesWhenDoneOrOldest

\* The handle of an entry determines the issue of the entry.
LEMMA EntriesAreIssued ==
    ASSUME IndInv
    PROVE  Cardinality(DOMAIN tasks) <= Cardinality(issued)
<1> DEFINE H == {i.handle : i \in issued}
<1>1. DOMAIN tasks \subseteq H
  BY DEF IndInv, Provenance, Issue
<1>2. IsFiniteSet(issued)
  BY DEF IndInv
<1>3. IsFiniteSet(H) /\ Cardinality(H) <= Cardinality(issued)
  <2> DEFINE f == [i \in issued |-> i.handle]
  <2>1. f \in Surjection(issued, H)
    BY DEF Surjection
  <2> HIDE DEF f, H
  <2> QED
    BY <1>2, <2>1, FS_Surjection
<1>4. IsFiniteSet(DOMAIN tasks) /\ Cardinality(DOMAIN tasks) <= Cardinality(H)
  <2> HIDE DEF H
  <2> QED
    BY <1>1, <1>3, FS_Subset
<1>5. /\ Cardinality(DOMAIN tasks) \in Nat /\ Cardinality(H) \in Nat
      /\ Cardinality(issued) \in Nat
  <2> HIDE DEF H
  <2> QED
    BY <1>2, <1>3, <1>4, FS_CardinalityType
<1> HIDE DEF H
<1> QED
  BY <1>3, <1>4, <1>5

LEMMA BelowLimitStep ==
    ASSUME IndInv, StableNames, DistinctHandles, NoneLostBelowLimit, [Next]_vars
    PROVE  NoneLostBelowLimit'
<1> SUFFICES ASSUME Cardinality(issued') <= MAX_TRACKED_TASKS, NEW i \in issued'
             PROVE  Finished(i.peer, i.id)' \/ i.handle \in DOMAIN tasks'
  BY DEF NoneLostBelowLimit
<1>0. Shape
  BY DEF IndInv, Shape
<1>1. \A p \in Peers, j \in Ids : Finished(p, j) => Finished(p, j)'
  BY <1>0, FinalStays
<1>2. issued \subseteq Issues /\ IsFiniteSet(issued)
  BY DEF IndInv, TypeOK
<1>3. ASSUME NEW c \in Callers, Track(c)
      PROVE  Finished(i.peer, i.id)' \/ i.handle \in DOMAIN tasks'
  <2> DEFINE h == TrackKey(job[c].agent, job[c].id)
             new == [handle |-> h, peer |-> job[c].peer, id |-> job[c].id]
  <2>1. issued' = issued \cup {new} /\ \E e : tasks' = Store(Evict(tasks), h, e)
    BY <1>3 DEF Track
  <2>2. new \notin issued
    BY <1>3 DEF Track, IndInv, TrackedOnce
  <2> HIDE DEF h
  <2>3. Cardinality(issued') = Cardinality(issued) + 1
    BY <1>2, <2>1, <2>2, FS_AddElement
  <2>4. Cardinality(issued) \in Nat /\ MAX_TRACKED_TASKS \in Nat
    BY <1>2, FS_CardinalityType, TrackerAssumption
  <2>5. Cardinality(DOMAIN tasks) \in Nat /\ Cardinality(DOMAIN tasks) <= Cardinality(issued)
    BY EntriesAreIssued, FS_CardinalityType DEF IndInv
  <2>6. Evict(tasks) = tasks
    BY <2>3, <2>4, <2>5 DEF Evict, EvictAt
  <2>7. DOMAIN tasks' = DOMAIN tasks \cup {h}
    BY <2>1, <2>6 DEF Store
  <2>8. CASE i = new
    BY <2>7, <2>8
  <2>9. CASE i \in issued
    <3>1. Finished(i.peer, i.id) \/ i.handle \in DOMAIN tasks
      BY <2>3, <2>4, <2>9 DEF NoneLostBelowLimit
    <3> QED
      BY <1>1, <1>2, <2>7, <2>9, <3>1 DEF Issues
  <2> QED
    BY <2>1, <2>8, <2>9
<1>4. ASSUME NEW c \in Callers, Untrack(c)
      PROVE  Finished(i.peer, i.id)' \/ i.handle \in DOMAIN tasks'
  <2>1. issued' = issued /\ DOMAIN tasks' = DOMAIN tasks \ {job[c].handle}
    BY <1>4 DEF Untrack, Without
  <2>2. Finished(i.peer, i.id) \/ i.handle \in DOMAIN tasks
    BY <2>1 DEF NoneLostBelowLimit
  <2>3. ASSUME i.handle = job[c].handle
        PROVE  Finished(i.peer, i.id)
    <3> DEFINE mine == Issue(job[c].handle, job[c].peer, job[c].id)
    <3>1. mine \in issued /\ Finished(job[c].peer, job[c].id)
      BY <1>4 DEF Untrack, IndInv, Provenance, UntrackedAreFinished
    <3>2. mine.handle = job[c].handle /\ mine.peer = job[c].peer /\ mine.id = job[c].id
      BY DEF Issue
    <3> HIDE DEF mine
    <3>3. i.peer = mine.peer /\ i.id = mine.id
      BY <2>1, <2>3, <3>1, <3>2, IssuedOnce
    <3> QED
      BY <3>1, <3>2, <3>3
  <2> QED
    BY <1>1, <1>2, <2>1, <2>2, <2>3 DEF Issues
<1>5. ASSUME UNCHANGED <<tasks, issued>>
      PROVE  Finished(i.peer, i.id)' \/ i.handle \in DOMAIN tasks'
  BY <1>1, <1>2, <1>5 DEF NoneLostBelowLimit, Issues
<1> QED
  BY <1>3, <1>4, <1>5
     DEF Next, Submit, Poll, vars, SubmitResolve, SubmitAnswer, SubmitOrphan, PollLookup,
         PollAnswer, Refresh, Progress

\* While no more handles were issued than the table holds, no unfinished task is lost,
\* under the same two conditions.
THEOREM NoneLost ==
    ASSUME StableNames, DistinctHandles
    PROVE  Spec => []NoneLostBelowLimit
<1>1. Init => NoneLostBelowLimit
  BY DEF Init, NoneLostBelowLimit
<1>2. IndInv /\ NoneLostBelowLimit /\ [Next]_vars => NoneLostBelowLimit'
  BY BelowLimitStep
<1> QED
  BY Invariance, <1>1, <1>2, PTL DEF Spec

-------------------------------------------------------------------------------
(***************************************************************************)
(* The handlers keep the ledger.                                           *)
(***************************************************************************)

\* The turns of the entries are past and different.
Turns ==
    /\ \A h \in DOMAIN tasks : tasks[h].born < stamp
    /\ \A g, h \in DOMAIN tasks : tasks[g].born = tasks[h].born => g = h

LEMMA TurnsStep ==
    ASSUME IndInv, Turns, [Next]_vars
    PROVE  Turns'
<1>1. /\ Tables(tasks) /\ stamp \in Nat /\ IsFiniteSet(DOMAIN tasks)
      /\ Cardinality(DOMAIN tasks) <= MAX_TRACKED_TASKS
      /\ \A h \in DOMAIN tasks : tasks[h].born \in Nat
  BY DEF IndInv, TypeOK, Tables, Bounded, Entries
<1>2. ASSUME NEW c \in Callers, Track(c) PROVE Turns'
  <2> DEFINE k == TrackKey(job[c].agent, job[c].id)
             e == [peer |-> job[c].peer, agent |-> job[c].agent, id |-> job[c].id, born |-> stamp]
             t == Evict(tasks)
  <2>1. /\ DOMAIN t \subseteq DOMAIN tasks
        /\ \A g \in DOMAIN t : t[g] = tasks[g]
    BY <1>1, EvictTakesOldest
  <2>2. tasks' = Store(t, k, e) /\ stamp' = stamp + 1
    BY <1>2 DEF Track
  <2> HIDE DEF k, t
  <2>3. /\ DOMAIN tasks' = DOMAIN t \cup {k}
        /\ \A g \in DOMAIN t : tasks'[g].born = tasks[g].born
        /\ k \notin DOMAIN t => tasks'[k].born = stamp
    BY <2>1, <2>2 DEF Store
  <2>4. \A g \in DOMAIN tasks' : tasks'[g].born < stamp'
    BY <1>1, <2>1, <2>2, <2>3 DEF Turns
  <2>5. \A g, h \in DOMAIN tasks' : tasks'[g].born = tasks'[h].born => g = h
    BY <1>1, <2>1, <2>3 DEF Turns
  <2> QED
    BY <2>4, <2>5 DEF Turns
<1>3. ASSUME NEW c \in Callers, Untrack(c) PROVE Turns'
  BY <1>3 DEF Untrack, Without, Turns
<1>4. CASE UNCHANGED <<tasks, stamp>>
  BY <1>4 DEF Turns
<1> QED
  BY <1>2, <1>3, <1>4
     DEF Next, Submit, Poll, vars, SubmitResolve, SubmitAnswer, SubmitOrphan, PollLookup,
         PollAnswer, Refresh, Progress

\* What the ledger keeps, as a set of its own.
Kept == {Turn(h) : h \in DOMAIN tasks}

\* A task that is about to be tracked has no entry, under this handle or another.
LEMMA NewHandle ==
    ASSUME IndInv, StableNames, DistinctHandles, NEW c \in Callers, Track(c)
    PROVE  /\ TrackKey(job[c].agent, job[c].id) \notin DOMAIN tasks
           /\ job[c].peer \in Peers /\ job[c].agent \in Names /\ job[c].id \in Ids
           /\ \A i \in issued : <<i.peer, i.id>> # <<job[c].peer, job[c].id>>
<1>1. job[c].op = "tracking" /\ job[c] \in Jobs
  BY DEF Track, IndInv, TypeOK
<1>2. job[c].peer \in Peers /\ job[c].agent \in Names /\ job[c].id \in Ids
  BY <1>1 DEF Jobs, Idle
<1>3. \A i \in issued : ~ (i.peer = job[c].peer /\ i.id = job[c].id)
  BY <1>1 DEF IndInv, TrackedOnce
<1>4. ASSUME TrackKey(job[c].agent, job[c].id) \in DOMAIN tasks PROVE FALSE
  <2> DEFINE h == TrackKey(job[c].agent, job[c].id)
             i == Issue(h, tasks[h].peer, tasks[h].id)
  <2>1. h \in DOMAIN tasks /\ h = Handle(job[c].agent, job[c].id)
    BY <1>4 DEF TrackKey
  <2>2. i \in issued /\ i.handle = h /\ i.id = tasks[h].id /\ i.peer = tasks[h].peer
    <3> HIDE DEF h
    <3> QED
      BY <2>1 DEF IndInv, Provenance, Issue
  <2>3. i.id \in Ids /\ i.peer \in Peers
    <3> HIDE DEF i
    <3> QED
      BY <2>2 DEF IndInv, TypeOK, Issues
  <2> HIDE DEF h, i
  <2>4. PICK n \in Names : i.handle = Handle(n, i.id) /\ Reaches(n, i.peer)
    BY <2>2 DEF IndInv, Provenance
  <2>5. n = job[c].agent /\ i.id = job[c].id
    <3>1. Handle(n, i.id) = Handle(job[c].agent, job[c].id)
      BY <2>1, <2>2, <2>4
    <3> QED
      BY <1>2, <2>3, <3>1 DEF DistinctHandles
  <2>6. Reaches(n, job[c].peer)
    BY <1>1, <2>5 DEF IndInv, Provenance
  <2>7. i.peer = job[c].peer
    BY <1>2, <2>3, <2>4, <2>6, TrackerAssumption DEF Reaches, StableNames
  <2> QED
    BY <1>3, <2>2, <2>5, <2>7
<1> QED
  BY <1>2, <1>3, <1>4

LEMMA TrackTakes ==
    ASSUME IndInv, Turns, StableNames, DistinctHandles, NEW c \in Callers, Track(c),
           NEW task, task = <<job[c].peer, job[c].id>>
    PROVE  Abstract!Take(task)
<1> DEFINE k == TrackKey(job[c].agent, job[c].id)
           e == [peer |-> job[c].peer, agent |-> job[c].agent, id |-> job[c].id, born |-> stamp]
           t == Evict(tasks)
<1>1. /\ k \notin DOMAIN tasks /\ task \in Peers \X Ids
      /\ task \notin {<<i.peer, i.id>> : i \in issued}
  BY NewHandle
<1>2. /\ tasks' = Store(t, k, e) /\ stamp' = stamp + 1 /\ remote' = remote
      /\ issued' = issued \cup {[handle |-> k, peer |-> job[c].peer, id |-> job[c].id]}
  BY DEF Track
<1>3. {<<i.peer, i.id>> : i \in issued'} = {<<i.peer, i.id>> : i \in issued} \cup {task}
  <2> DEFINE new == [handle |-> k, peer |-> job[c].peer, id |-> job[c].id]
  <2>1. <<new.peer, new.id>> = task /\ issued' = issued \cup {new}
    BY <1>2
  <2> HIDE DEF new
  <2> QED
    BY <2>1
<1>4. {p \in Peers \X Ids : Finished(p[1], p[2])'} = {p \in Peers \X Ids : Finished(p[1], p[2])}
  BY <1>2 DEF Finished
<1>5. /\ DOMAIN t \subseteq DOMAIN tasks
      /\ \A g \in DOMAIN t : t[g] = tasks[g]
  BY EvictTakesOldest DEF IndInv, TypeOK, Tables, Bounded
<1>6. e.peer = job[c].peer /\ e.id = job[c].id /\ e.born = stamp
  OBVIOUS
<1> HIDE DEF k, e
<1>7. {Turn(h) : h \in DOMAIN tasks}' = {Turn(h) : h \in DOMAIN t} \cup {<<task, stamp>>}
  <2> HIDE DEF t
  <2>1. /\ DOMAIN tasks' = DOMAIN t \cup {k}
        /\ \A g \in DOMAIN t : tasks'[g] = tasks[g]
        /\ tasks'[k] = e
    BY <1>1, <1>2, <1>5 DEF Store
  <2>2. {Turn(h) : h \in DOMAIN tasks}'
           = {<<<<tasks'[h].peer, tasks'[h].id>>, tasks'[h].born>> : h \in DOMAIN tasks'}
    BY DEF Turn
  <2>3. {Turn(h) : h \in DOMAIN t} = {<<<<tasks[h].peer, tasks[h].id>>, tasks[h].born>> : h \in DOMAIN t}
    BY DEF Turn
  <2> QED
    BY <1>6, <2>1, <2>2, <2>3
<1>8. /\ IsFiniteSet(DOMAIN tasks) /\ Cardinality(DOMAIN tasks) \in Nat
      /\ Cardinality(DOMAIN tasks) <= MAX_TRACKED_TASKS /\ MAX_TRACKED_TASKS \in Nat \ {0}
  BY FS_CardinalityType, TrackerAssumption DEF IndInv, Bounded
<1>9. DOMAIN tasks' = DOMAIN t \cup {k} /\ k \notin DOMAIN t
  BY <1>1, <1>2, <1>5 DEF Store
<1>10. CASE Cardinality(DOMAIN tasks) < MAX_TRACKED_TASKS
  <2>1. t = tasks
    BY <1>8, <1>10 DEF Evict, EvictAt
  <2> HIDE DEF t
  <2>2. Cardinality(DOMAIN tasks') = Cardinality(DOMAIN tasks) + 1
    BY <1>8, <1>9, <2>1, FS_AddElement
  <2>3. {Turn(h) : h \in DOMAIN tasks}' = {Turn(h) : h \in DOMAIN tasks} \cup {<<task, stamp>>}
    BY <1>7, <2>1
  <2> QED
    BY <1>1, <1>2, <1>3, <1>4, <1>10, <2>2, <2>3 DEF Abstract!Take
<1>11. CASE Cardinality(DOMAIN tasks) = MAX_TRACKED_TASKS
  <2>1. DOMAIN tasks # {}
    BY <1>8, <1>11, FS_EmptySet
  <2> DEFINE o == Oldest(tasks)
  <2>2. o \in DOMAIN tasks /\ \A g \in DOMAIN tasks : tasks[o].born <= tasks[g].born
    BY <2>1, OldestIsOldest DEF IndInv, TypeOK, Tables
  <2>3. DOMAIN t = DOMAIN tasks \ {o}
    BY <1>8, <1>11 DEF Evict, EvictAt, Without
  <2> HIDE DEF o, t
  <2>4. Cardinality(DOMAIN tasks') = Cardinality(DOMAIN tasks)
    <3>1. IsFiniteSet(DOMAIN t) /\ Cardinality(DOMAIN t) = Cardinality(DOMAIN tasks) - 1
      BY <1>8, <2>2, <2>3, FS_RemoveElement
    <3>2. Cardinality(DOMAIN tasks') = Cardinality(DOMAIN t) + 1
      BY <1>9, <3>1, FS_AddElement
    <3> QED
      BY <1>8, <3>1, <3>2
  <2>5. {Turn(h) : h \in DOMAIN t} = Kept \ {Turn(o)}
    <3>1. \A h \in DOMAIN tasks : Turn(h) = Turn(o) => h = o
      BY <2>2 DEF Turn, Turns
    <3> QED
      BY <2>2, <2>3, <3>1 DEF Kept
  <2>6. Turn(o) \in Kept /\ \A x \in Kept : Turn(o)[2] <= x[2]
    BY <2>2 DEF Kept, Turn
  <2>7. {Turn(h) : h \in DOMAIN tasks}' = (Kept \ {Turn(o)}) \cup {<<task, stamp>>}
    BY <1>7, <2>5
  <2> QED
    BY <1>1, <1>2, <1>3, <1>4, <1>11, <2>4, <2>6, <2>7 DEF Abstract!Take, Kept
<1> QED
  BY <1>8, <1>10, <1>11

LEMMA UntrackForgets ==
    ASSUME IndInv, Turns, StableNames, DistinctHandles, NEW c \in Callers, Untrack(c)
    PROVE  [Abstract!Next]_(Abstract!vars)
<1> DEFINE h == job[c].handle
<1>1. /\ tasks' = [g \in DOMAIN tasks \ {h} |-> tasks[g]]
      /\ stamp' = stamp /\ issued' = issued /\ remote' = remote
      /\ job[c].op = "untracking"
  BY DEF Untrack, Without
<1>2. {p \in Peers \X Ids : Finished(p[1], p[2])'} = {p \in Peers \X Ids : Finished(p[1], p[2])}
  BY <1>1 DEF Finished
<1>3. {Turn(g) : g \in DOMAIN tasks}' = {Turn(g) : g \in DOMAIN tasks \ {h}}
  <2>1. DOMAIN tasks' = DOMAIN tasks \ {h} /\ \A g \in DOMAIN tasks' : tasks'[g] = tasks[g]
    BY <1>1
  <2> QED
    BY <2>1 DEF Turn
<1>4. CASE h \notin DOMAIN tasks
  <2>1. {Turn(g) : g \in DOMAIN tasks}' = Kept
    BY <1>3, <1>4 DEF Kept
  <2>2. DOMAIN tasks' = DOMAIN tasks
    BY <1>1, <1>4
  <2> QED
    BY <1>1, <1>2, <2>1, <2>2 DEF Abstract!vars, Kept
<1>5. CASE h \in DOMAIN tasks
  <2>1. tasks[h].peer = job[c].peer /\ tasks[h].id = job[c].id
    <3>1. /\ Meant(h) = {<<tasks[h].peer, tasks[h].id>>}
          /\ Meant(h) = {<<job[c].peer, job[c].id>>}
      BY <1>1, <1>5, RoutesAreRight DEF PolledWhereCreated
    <3>2. <<tasks[h].peer, tasks[h].id>> \in {<<job[c].peer, job[c].id>>}
      BY <3>1
    <3> QED
      BY <3>2
  <2>2. Finished(tasks[h].peer, tasks[h].id) /\ tasks[h].peer \in Peers /\ tasks[h].id \in Ids
    BY <1>1, <1>5, <2>1 DEF IndInv, UntrackedAreFinished, TypeOK, Entries
  <2> HIDE DEF h
  <2>3. Turn(h) \in Kept /\ Turn(h)[1] \in {p \in Peers \X Ids : Finished(p[1], p[2])}
    BY <1>5, <2>2 DEF Kept, Turn
  <2>4. {Turn(g) : g \in DOMAIN tasks}' = Kept \ {Turn(h)}
    <3>1. \A g \in DOMAIN tasks : Turn(g) = Turn(h) => g = h
      BY <1>5 DEF Turn, Turns
    <3> QED
      BY <1>3, <1>5, <3>1 DEF Kept
  <2>5. Cardinality(DOMAIN tasks') = Cardinality(DOMAIN tasks) - 1
    <3>1. IsFiniteSet(DOMAIN tasks) /\ DOMAIN tasks' = DOMAIN tasks \ {h}
      BY <1>1 DEF IndInv
    <3> QED
      BY <1>5, <3>1, FS_RemoveElement
  <2>6. Abstract!Forget(Turn(h))
    BY <1>1, <1>2, <2>3, <2>4, <2>5 DEF Abstract!Forget, Kept
  <2> QED
    BY <2>3, <2>6 DEF Abstract!Next, Kept
<1> QED
  BY <1>4, <1>5

LEMMA LedgerStep ==
    ASSUME IndInv, Turns, StableNames, DistinctHandles, [Next]_vars
    PROVE  [Abstract!Next]_(Abstract!vars)
<1>1. ASSUME NEW c \in Callers, Track(c) PROVE [Abstract!Next]_(Abstract!vars)
  <2>1. PICK task \in Peers \X Ids : task = <<job[c].peer, job[c].id>>
    BY <1>1, NewHandle
  <2>2. Abstract!Take(task)
    BY <1>1, <2>1, TrackTakes
  <2> QED
    BY <2>2 DEF Abstract!Next
<1>2. ASSUME UNCHANGED <<tasks, stamp, issued>> PROVE [Abstract!Next]_(Abstract!vars)
  <2>1. \A p \in Peers, i \in Ids : Finished(p, i) => Finished(p, i)'
    BY FinalStays DEF IndInv, Shape
  <2>2. {p \in Peers \X Ids : Finished(p[1], p[2])}
           \subseteq {p \in Peers \X Ids : Finished(p[1], p[2])'}
    BY <2>1
  <2>3. {Turn(h) : h \in DOMAIN tasks}' = {Turn(h) : h \in DOMAIN tasks}
    BY <1>2 DEF Turn
  <2>4. Abstract!Work
    BY <1>2, <2>2, <2>3 DEF Abstract!Work
  <2> QED
    BY <2>4 DEF Abstract!Next
<1> QED
  BY <1>1, <1>2, UntrackForgets
     DEF Next, Submit, Poll, vars, SubmitResolve, SubmitAnswer, SubmitOrphan, PollLookup,
         PollAnswer, Refresh, Progress

\* "A submitted task must be polled against the SAME peer that created it", "Bounded so
\* a never-polled flood cannot grow without limit" (tools.py): under the same two
\* conditions the handlers keep a plain ledger, however their calls interleave.
THEOREM KeepsTheLedger ==
    ASSUME StableNames, DistinctHandles
    PROVE  Spec => ImplementsLedger
<1>1. Init => Abstract!Init
  <2> SUFFICES ASSUME Init PROVE Abstract!Init
    OBVIOUS
  <2>1. DOMAIN tasks = {} /\ issued = {} /\ stamp = 0
    BY DEF Init
  <2>2. \A p \in Peers \X Ids : ~ Finished(p[1], p[2])
    BY DEF Init, Finished, DONE_STATES, TERMINAL_STATES, Absent
  <2> QED
    BY <2>1, <2>2, FS_EmptySet DEF Abstract!Init
<1>2. Init => Turns
  BY DEF Init, Turns
<1>3. IndInv /\ Turns /\ [Next]_vars => Turns'
  BY TurnsStep
<1>4. IndInv /\ Turns /\ [Next]_vars => [Abstract!Next]_(Abstract!vars)
  BY LedgerStep
<1> QED
  BY <1>1, <1>2, <1>3, <1>4, Invariance, PTL DEF Spec, ImplementsLedger, Abstract!Spec

-------------------------------------------------------------------------------
\* Handles can be read in one way only as soon as no name contains the separator.
THEOREM HandlesDistinct ==
    ASSUME \A n \in Names : \A k \in 1 .. Len(n) : n[k] # "#"
    PROVE  DistinctHandles
<1> SUFFICES ASSUME NEW m \in Names, NEW n \in Names, NEW i \in Ids, NEW j \in Ids,
                    Handle(m, i) = Handle(n, j)
             PROVE  m = n /\ i = j
  BY DEF DistinctHandles
<1>1. /\ m \in Seq(STRING) /\ n \in Seq(STRING)
      /\ i \in Seq(STRING) /\ j \in Seq(STRING)
  BY TrackerAssumption
<1> DEFINE H == Handle(m, i)
<1>2. /\ Len(H) = Len(m) + 1 + Len(i)
      /\ \A k \in 1 .. Len(m) : H[k] = m[k]
      /\ H[Len(m) + 1] = "#"
      /\ \A k \in 1 .. Len(i) : H[Len(m) + 1 + k] = i[k]
  BY <1>1 DEF Handle
<1>3. /\ Len(H) = Len(n) + 1 + Len(j)
      /\ \A k \in 1 .. Len(n) : H[k] = n[k]
      /\ H[Len(n) + 1] = "#"
      /\ \A k \in 1 .. Len(j) : H[Len(n) + 1 + k] = j[k]
  <2>1. H = n \o <<"#">> \o j
    BY DEF Handle
  <2> HIDE DEF H
  <2> QED
    BY <1>1, <2>1
<1> HIDE DEF H
<1>4. Len(m) = Len(n)
  <2>1. Len(m) \in Nat /\ Len(n) \in Nat
    BY <1>1
  <2>2. ASSUME Len(m) < Len(n)
        PROVE  FALSE
    <3>1. Len(m) + 1 \in 1 .. Len(n)
      BY <2>1, <2>2
    <3>2. n[Len(m) + 1] # "#"
      BY <3>1
    <3> QED
      BY <1>2, <1>3, <3>1, <3>2
  <2>3. ASSUME Len(n) < Len(m)
        PROVE  FALSE
    <3>1. Len(n) + 1 \in 1 .. Len(m)
      BY <2>1, <2>3
    <3>2. m[Len(n) + 1] # "#"
      BY <3>1
    <3> QED
      BY <1>2, <1>3, <3>1, <3>2
  <2> QED
    BY <2>1, <2>2, <2>3
<1>5. m = n
  <2>1. \A k \in 1 .. Len(m) : m[k] = n[k]
    BY <1>2, <1>3, <1>4
  <2> QED
    BY <1>1, <1>4, <2>1, SeqEqual
<1>6. i = j
  <2>1. Len(i) = Len(j)
    BY <1>1, <1>2, <1>3, <1>4
  <2>2. \A k \in 1 .. Len(i) : i[k] = j[k]
    BY <1>2, <1>3, <1>4, <2>1
  <2> QED
    BY <1>1, <2>1, <2>2, SeqEqual
<1> QED
  BY <1>5, <1>6
===============================================================================
