-------------------------- MODULE MdnsListenerProofs --------------------------
(***************************************************************************)
(* Proofs about MdnsListener, for every set of threads and services, every  *)
(* list of service types, all announced data, and any number of changes on  *)
(* the network and of starts that fail.                                     *)
(***************************************************************************)
EXTENDS MdnsListener, SortingProofs, Integers, FiniteSetTheorems, SequenceTheorems, TLAPS

Kinds  == {"add", "update", "remove"}
Event  == [kind : Kinds, service : Services]
Held   == [service : Services, ref : AgentRefs]
Places == {"idle", "start", "open", "browse", "settled", "snapshot", "empty"}

\* Browser b has a report of one of these kinds about s to deliver.
Queued(b, s, kinds) ==
    \E k \in 1 .. Len(events[b]) : events[b][k].service = s /\ events[b][k].kind \in kinds

AllBrowsed == \A k \in 1 .. Len(Types) : \E b \in Browsers : b[2] = Types[k]

(***************************************************************************)
(* The inductive invariant.  Starting: the thread inside the lock is the    *)
(* only one that starts the listener, and the flags are set after the       *)
(* browsers are there.  Routed: a browser reports and stores services of    *)
(* its own type.  Parting: what a service announced before it left is gone, *)
(* or its goodbye is on the way.  Arriving: what it announces now is there, *)
(* or on the way, or was missed.                                           *)
(***************************************************************************)
Starting ==
    /\ \A t \in Threads : at[t] \in {"open", "browse", "settled"} <=> lock = t
    /\ \A t \in Threads : at[t] \in {"open", "browse"} => ~started
    /\ \A t \in Threads : at[t] = "settled" => started /\ AllBrowsed
    /\ \A t \in Threads : at[t] = "snapshot" => AllBrowsed
    /\ available => started /\ AllBrowsed
    /\ \A t \in Threads : at[t] = "browse" => 1 <= opened /\ opened <= fails + 1
    /\ started => opened <= fails + 1
    /\ ~started /\ (\A t \in Threads : at[t] # "browse") => opened <= fails

Routed ==
    /\ \A b \in Browsers : \A k \in 1 .. Len(events[b]) : TypeOf[events[b][k].service] = b[2]
    /\ \A b \in Browsers : hand[b] # Empty => TypeOf[hand[b].service] = b[2]
    /\ \A s \in DOMAIN peers : BrowserOf(s) # {}
    /\ \A s \in Services : Described(s, net[s]) \subseteq life[s]

\* A ref about to be stored under s, and an entry stored there, are of its present life.
HandParts(b, s) ==
    hand[b] # Empty /\ hand[b].service = s =>
        hand[b].ref \in life[s] \/ Queued(b, s, {"remove"})

EntryParts(s) ==
    s \in DOMAIN peers =>
        peers[s] \in life[s] \/ \E b \in Browsers : Queued(b, s, {"remove"})

Parting == \A s \in Services : EntryParts(s) /\ \A b \in Browsers : HandParts(b, s)

OnTheWay(b, s) ==
    \/ <<b, s>> \in missed
    \/ Queued(b, s, {"add", "update"})
    \/ hand[b] # Empty /\ hand[b].service = s /\ hand[b].ref \in Described(s, net[s])

\* A report of s that is out of date is followed by one that is not.
EventArrives(b, s) ==
    net[s] # Gone =>
        \A k \in 1 .. Len(events[b]) : events[b][k].service = s =>
            \E j \in k .. Len(events[b]) : events[b][j].service = s /\ events[b][j].kind # "remove"

HandArrives(b, s) ==
    hand[b] # Empty /\ hand[b].service = s =>
        hand[b].ref \in Described(s, net[s]) \/ Queued(b, s, Kinds)

EntryArrives(s) ==
    Described(s, net[s]) # {} /\ BrowserOf(s) # {} =>
        \/ s \in DOMAIN peers /\ peers[s] \in Described(s, net[s])
        \/ \E b \in BrowserOf(s) : OnTheWay(b, s)

Arriving ==
    \A s \in Services :
        EntryArrives(s) /\ \A b \in Browsers : EventArrives(b, s) /\ HandArrives(b, s)

ListenerInv == TypeOK /\ Starting /\ Routed /\ Parting /\ Arriving

-------------------------------------------------------------------------------
(***************************************************************************)
(* The data.                                                               *)
(***************************************************************************)

\* What the assumption says of the types.
LEMMA TypesShape ==
    /\ Len(Types) \in Nat
    /\ ToSet(Types) = {Types[k] : k \in 1 .. Len(Types)}
    /\ \A s \in Services : TypeOf[s] \in ToSet(Types)
<1>1. Types \in Seq(STRING) /\ TypeOf \in [Services -> ToSet(Types)]
  BY ListenerAssumption
<1>2. Len(Types) \in Nat /\ DOMAIN Types = 1 .. Len(Types)
  BY <1>1, LenProperties
<1> QED
  BY <1>1, <1>2 DEF ToSet

\* A ref made of what a service announces is an AgentRef, and a described one.
LEMMA RefShape ==
    ASSUME NEW s \in Services, NEW info \in Announced \cup {Nothing},
           _service_to_ref(s, info) # NoRef
    PROVE  /\ info \in Announced
           /\ _service_to_ref(s, info) \in AgentRefs
<1>1. IsPeer(s, info)
  BY DEF _service_to_ref
<1>2. info \in Announced /\ info # Nothing
  BY <1>1 DEF IsPeer
<1>3. info \in Infos
  BY <1>2, ListenerAssumption DEF Announced
<1> QED
  BY <1>1, <1>2, <1>3 DEF IsPeer, _service_to_ref, AgentRefs, Infos

\* What a service describes is an AgentRef or nothing.
LEMMA DescribedShape ==
    ASSUME NEW s \in Services, NEW info \in Announced \cup {Gone}
    PROVE  /\ Described(s, info) \subseteq AgentRefs
           /\ info = Gone => Described(s, info) = {}
           /\ info # Gone => \A r : r \in Described(s, info) <=> r = _service_to_ref(s, info) /\ r # NoRef
<1>1. ASSUME NEW r \in Described(s, info) PROVE r \in AgentRefs
  BY <1>1, RefShape DEF Described
<1> QED
  BY <1>1 DEF Described

\* A listing of a finite set has each of its members once.
LEMMA Listing ==
    ASSUME NEW S, IsFiniteSet(S), NEW order \in SetToSeqs(S)
    PROVE  /\ order \in Seq(S)
           /\ Len(order) \in Nat
           /\ \A x \in S : \E k \in 1 .. Len(order) : order[k] = x
<1>1. Cardinality(S) \in Nat
  BY FS_CardinalityType
<1> DEFINE D == 1 .. Cardinality(S)
<1>2. order \in [D -> S] /\ \A i, j \in D : i # j => order[i] # order[j]
  BY DEF SetToSeqs
<1>3. order \in Seq(S) /\ Len(order) = Cardinality(S)
  BY <1>1, <1>2
<1>4. order \in Injection(D, S)
  BY <1>2 DEF Injection, IsInjective
<1>5. IsFiniteSet(D) /\ Cardinality(D) = Cardinality(S)
  BY <1>1, FS_Interval
<1>6. order \in Surjection(D, S)
  <2> HIDE DEF D
  <2> QED
    BY <1>4, <1>5, FS_Injection
<1> QED
  BY <1>1, <1>3, <1>6 DEF Surjection

-------------------------------------------------------------------------------
(***************************************************************************)
(* What the steps do to the browsers and their queues.                     *)
(***************************************************************************)

\* A new browser has a report for each service of its type that is there.
LEMMA BrowseEffect ==
    ASSUME TypeOK, Starting, NEW t \in Threads, Browse(t)
    PROVE  \E b :
              /\ b \notin Browsers
              /\ b \in (1 .. opened) \X ToSet(Types)
              /\ Browsers' = Browsers \cup {b} /\ DOMAIN hand' = Browsers'
              /\ \A c \in Browsers : events'[c] = events[c] /\ hand'[c] = hand[c]
              /\ hand'[b] = Empty
              /\ events'[b] \in Seq(Event)
              /\ \A n \in 1 .. Len(events'[b]) :
                    events'[b][n].kind = "add" /\ TypeOf[events'[b][n].service] = b[2]
              /\ \A s \in Services :
                    TypeOf[s] = b[2] /\ net[s] # Gone =>
                        \E n \in 1 .. Len(events'[b]) : events'[b][n].service = s
              /\ UNCHANGED <<startVars, peers, missed, netVars>>
<1>1. PICK k \in Unbrowsed :
         LET b == <<opened, Types[k]>>
             there == {s \in Services : TypeOf[s] = Types[k] /\ net[s] # Gone}
         IN
         /\ \E order \in SetToSeqs(there) :
               events' = [c \in Browsers \cup {b} |->
                             IF c = b
                             THEN [n \in 1 .. Len(order) |-> [kind |-> "add", service |-> order[n]]]
                             ELSE events[c]]
         /\ hand' = [c \in Browsers \cup {b} |-> IF c = b THEN Empty ELSE hand[c]]
  BY DEF Browse
<1> DEFINE b == <<opened, Types[k]>>
           there == {s \in Services : TypeOf[s] = Types[k] /\ net[s] # Gone}
<1>2. PICK order \in SetToSeqs(there) :
         events' = [c \in Browsers \cup {b} |->
                       IF c = b
                       THEN [n \in 1 .. Len(order) |-> [kind |-> "add", service |-> order[n]]]
                       ELSE events[c]]
  BY <1>1
<1>3. k \in 1 .. Len(Types) /\ b \notin Browsers
  BY DEF Unbrowsed
<1>4. IsFiniteSet(there)
  BY FS_Subset, ListenerAssumption
<1>5. /\ order \in Seq(there) /\ Len(order) \in Nat
      /\ \A s \in there : \E n \in 1 .. Len(order) : order[n] = s
  <2> HIDE DEF there
  <2> QED
    BY <1>4, Listing
<1>6. \A n \in 1 .. Len(order) : order[n] \in there
  BY <1>5, ElementOfSeq
<1> DEFINE q == [n \in 1 .. Len(order) |-> [kind |-> "add", service |-> order[n]]]
<1>7. \A n \in 1 .. Len(order) : q[n] = [kind |-> "add", service |-> order[n]] /\ q[n] \in Event
  BY <1>6 DEF Event, Kinds
<1>8. q \in Seq(Event) /\ Len(q) = Len(order)
  BY <1>5, <1>7
<1>9. b \in (1 .. opened) \X ToSet(Types)
  <2>1. opened \in Nat /\ 1 <= opened
    BY DEF Browse, Starting, TypeOK
  <2> QED
    BY <1>3, <2>1, TypesShape
<1>10. /\ Browsers' = Browsers \cup {b}
       /\ \A c \in Browsers : events'[c] = events[c]
       /\ events'[b] = q
  BY <1>2, <1>3 DEF Browsers
<1>11. /\ DOMAIN hand' = Browsers \cup {b}
       /\ \A c \in Browsers : hand'[c] = hand[c]
       /\ hand'[b] = Empty
  BY <1>1, <1>3
<1>12. \A n \in 1 .. Len(q) : q[n].kind = "add" /\ TypeOf[q[n].service] = Types[k]
  BY <1>6, <1>7, <1>8
<1>13. \A s \in Services : TypeOf[s] = Types[k] /\ net[s] # Gone =>
          \E n \in 1 .. Len(q) : q[n].service = s
  BY <1>5, <1>7, <1>8
<1>14. UNCHANGED <<startVars, peers, missed, netVars>> /\ b[2] = Types[k]
  BY DEF Browse
<1> HIDE DEF b, there, q
<1> QED
  BY <1>3, <1>8, <1>9, <1>10, <1>11, <1>12, <1>13, <1>14 DEF b

\* A callback takes the first report off its browser's queue.
LEMMA PopEffect ==
    ASSUME TypeOK, NEW b \in Browsers, NEW kinds, Due(b, kinds),
           events' = [events EXCEPT ![b] = Tail(@)]
    PROVE  /\ Browsers' = Browsers
           /\ hand[b] = Empty
           /\ Head(events[b]) \in Event /\ Head(events[b]).kind \in kinds
           /\ Len(events[b]) \in Nat \ {0} /\ events[b][1] = Head(events[b])
           /\ \A c \in Browsers \ {b} : events'[c] = events[c]
           /\ events'[b] \in Seq(Event) /\ Len(events'[b]) = Len(events[b]) - 1
           /\ \A k \in 1 .. Len(events'[b]) : events'[b][k] = events[b][k + 1]
<1>1. events[b] \in Seq(Event) /\ events[b] # <<>> /\ hand[b] = Empty
      /\ Head(events[b]).kind \in kinds
  BY DEF TypeOK, Due, Event, Kinds
<1>2. /\ Head(events[b]) \in Event /\ Tail(events[b]) \in Seq(Event)
      /\ Len(Tail(events[b])) = Len(events[b]) - 1
      /\ \A k \in 1 .. Len(Tail(events[b])) : Tail(events[b])[k] = events[b][k + 1]
  BY <1>1, HeadTailProperties
<1>3. Len(events[b]) \in Nat \ {0} /\ events[b][1] = Head(events[b])
  BY <1>1, EmptySeq, LenProperties
<1>4. Browsers' = Browsers /\ events'[b] = Tail(events[b])
      /\ \A c \in Browsers \ {b} : events'[c] = events[c]
  BY DEF Browsers
<1> QED
  BY <1>1, <1>2, <1>3, <1>4

\* What is queued stays queued, except the report taken off; nothing else appears.
LEMMA PopKeeps ==
    ASSUME TypeOK, NEW b \in Browsers, NEW kinds, Due(b, kinds),
           events' = [events EXCEPT ![b] = Tail(@)],
           NEW c \in Browsers, NEW s, NEW some,
           Queued(c, s, some),
           c # b \/ s # Head(events[b]).service \/ some \cap kinds = {}
    PROVE  Queued(c, s, some)'
<1>1. /\ Head(events[b]).kind \in kinds
      /\ Len(events[b]) \in Nat \ {0} /\ events[b][1] = Head(events[b])
      /\ \A d \in Browsers \ {b} : events'[d] = events[d]
      /\ Len(events'[b]) = Len(events[b]) - 1
      /\ \A k \in 1 .. Len(events'[b]) : events'[b][k] = events[b][k + 1]
  BY PopEffect
<1>2. PICK k \in 1 .. Len(events[c]) : events[c][k].service = s /\ events[c][k].kind \in some
  BY DEF Queued
<1>3. CASE c # b
  BY <1>1, <1>2, <1>3 DEF Queued
<1>4. CASE c = b
  <2>1. k # 1
    BY <1>1, <1>2, <1>4
  <2>2. k - 1 \in 1 .. Len(events'[b]) /\ events'[b][k - 1] = events[b][k]
    BY <1>1, <1>2, <1>4, <2>1
  <2> QED
    BY <1>2, <1>4, <2>2 DEF Queued
<1> QED
  BY <1>3, <1>4

\* A change on the network is the last report of every browser of the service's type.
LEMMA ChangeEffect ==
    ASSUME TypeOK, NEW s \in Services, NEW i \in Data[s] \cup {Gone}, Change(s, i)
    PROVE  /\ Browsers' = Browsers
           /\ \A b \in Browsers :
                 /\ events'[b] \in Seq(Event)
                 /\ Len(events[b]) \in Nat
                 /\ b[2] # TypeOf[s] => events'[b] = events[b]
                 /\ b[2] = TypeOf[s] =>
                       /\ Len(events'[b]) = Len(events[b]) + 1
                       /\ \A k \in 1 .. Len(events[b]) : events'[b][k] = events[b][k]
                       /\ events'[b][Len(events[b]) + 1].service = s
                       /\ events'[b][Len(events[b]) + 1].kind \in Kinds
                       /\ events'[b][Len(events[b]) + 1].kind = "remove" <=> i = Gone
<1> DEFINE kind == IF i = Gone THEN "remove" ELSE IF net[s] = Gone THEN "add" ELSE "update"
           e == [kind |-> kind, service |-> s]
<1>1. events' = [b \in Browsers |-> IF b \in BrowserOf(s) THEN Append(events[b], e) ELSE events[b]]
  BY DEF Change
<1>2. e \in Event /\ e.service = s /\ e.kind \in Kinds /\ (e.kind = "remove" <=> i = Gone)
  BY DEF Event, Kinds
<1> HIDE DEF e
<1>3. Browsers' = Browsers
  BY <1>1 DEF Browsers
<1>4. ASSUME NEW b \in Browsers
      PROVE  /\ events'[b] \in Seq(Event)
             /\ Len(events[b]) \in Nat
             /\ b[2] # TypeOf[s] => events'[b] = events[b]
             /\ b[2] = TypeOf[s] =>
                   /\ Len(events'[b]) = Len(events[b]) + 1
                   /\ \A k \in 1 .. Len(events[b]) : events'[b][k] = events[b][k]
                   /\ events'[b][Len(events[b]) + 1] = e
  <2>1. events[b] \in Seq(Event)
    BY DEF TypeOK, Event, Kinds
  <2>2. Len(events[b]) \in Nat
    BY <2>1, LenProperties
  <2>3. /\ Append(events[b], e) \in Seq(Event)
        /\ Len(Append(events[b], e)) = Len(events[b]) + 1
        /\ \A k \in 1 .. Len(events[b]) : Append(events[b], e)[k] = events[b][k]
        /\ Append(events[b], e)[Len(events[b]) + 1] = e
    BY <1>2, <2>1, AppendProperties
  <2>4. CASE b[2] = TypeOf[s]
    <3>1. events'[b] = Append(events[b], e)
      BY <1>1, <2>4 DEF BrowserOf
    <3> QED
      BY <2>2, <2>3, <2>4, <3>1
  <2>5. CASE b[2] # TypeOf[s]
    <3>1. events'[b] = events[b]
      BY <1>1, <2>5 DEF BrowserOf
    <3> QED
      BY <2>1, <2>2, <2>5, <3>1
  <2> QED
    BY <2>4, <2>5
<1> QED
  BY <1>2, <1>3, <1>4

\* The network changes in Change alone, the browsers in Browse, the callbacks and Change.
LEMMA StepKinds ==
    ASSUME [Next]_vars
    PROVE  \/ \E t \in Threads : Browse(t)
           \/ \E b \in Browsers, info \in Announced \cup {Nothing} : Resolve(b, info)
           \/ \E b \in Browsers : Put(b) \/ RemoveService(b)
           \/ \E s \in Services : \E i \in Data[s] \cup {Gone} : Change(s, i)
           \/ UNCHANGED <<browserVars, netVars>>
BY DEF Next, vars, Discover, Callback, Enter, Locked, TakeLock, NotInstalled, Open, OpenWith, Fail,
   FailAnd, Settle, Available, Return, startVars

-------------------------------------------------------------------------------
(***************************************************************************)
(* Types.                                                                  *)
(***************************************************************************)

\* Every step keeps the types.
LEMMA TypeStep ==
    ASSUME TypeOK, Starting, [Next]_vars
    PROVE  TypeOK'
<1> USE DEF startVars, browserVars, netVars, Goto, Places
<1>1. /\ at \in [Threads -> Places] /\ opened \in Nat /\ fails \in 0 .. MaxFails
      /\ MaxFails \in Nat /\ MaxChanges \in Nat /\ changes \in 0 .. MaxChanges
      /\ Browsers \subseteq (1 .. opened) \X ToSet(Types) /\ DOMAIN hand = Browsers
      /\ \A b \in Browsers : events[b] \in Seq(Event) /\ (hand[b] # Empty => hand[b] \in Held)
  BY ListenerAssumption DEF TypeOK, Event, Kinds, Held
<1>2. CASE UNCHANGED <<browserVars, netVars>>
            /\ \E t \in Threads : Enter(t) \/ Locked(t) \/ NotInstalled(t) \/ Open(t)
                                  \/ Settle(t) \/ Available(t) \/ Return(t) \/ Fail(t)
  <2>1. PICK t \in Threads : Enter(t) \/ Locked(t) \/ NotInstalled(t) \/ Open(t)
                             \/ Settle(t) \/ Available(t) \/ Return(t) \/ Fail(t)
    BY <1>2
  <2>2. /\ installed' \in BOOLEAN /\ started' \in BOOLEAN /\ available' \in BOOLEAN
        /\ lock' \in Threads \cup {NoOne}
    BY <2>1 DEF TypeOK, Enter, Locked, TakeLock, NotInstalled, Open, OpenWith, Settle, Available,
       Return, Fail, FailAnd
  <2>3. at' \in [Threads -> Places]
    BY <1>1, <2>1 DEF Enter, Locked, TakeLock, NotInstalled, Open, OpenWith, Settle, Available,
       Return, Fail, FailAnd, AfterStart
  <2>4. /\ opened' \in Nat /\ opened <= opened' /\ fails' \in 0 .. MaxFails
    BY <1>1, <2>1 DEF Enter, Locked, TakeLock, NotInstalled, Open, OpenWith, Settle, Available,
       Return, Fail, FailAnd
  <2>5. Browsers' = Browsers /\ Browsers \subseteq (1 .. opened') \X ToSet(Types)
    <3>1. 1 .. opened \subseteq 1 .. opened'
      BY <1>1, <2>4
    <3> QED
      BY <1>1, <1>2, <3>1 DEF Browsers
  <2> QED
    BY <1>2, <2>2, <2>3, <2>4, <2>5 DEF TypeOK
<1>3. ASSUME NEW t \in Threads, Browse(t) PROVE TypeOK'
  <2>1. PICK b :
           /\ b \in (1 .. opened) \X ToSet(Types)
           /\ Browsers' = Browsers \cup {b} /\ DOMAIN hand' = Browsers'
           /\ \A c \in Browsers : events'[c] = events[c] /\ hand'[c] = hand[c]
           /\ hand'[b] = Empty
           /\ events'[b] \in Seq(Event)
           /\ UNCHANGED <<startVars, peers, missed, netVars>>
    BY <1>3, BrowseEffect
  <2>2. \A c \in Browsers' : events'[c] \in Seq(Event) /\ (hand'[c] # Empty => hand'[c] \in Held)
    BY <1>1, <2>1
  <2>3. missed' \subseteq Browsers' \X Services
    BY <2>1 DEF TypeOK
  <2> QED
    BY <1>1, <2>1, <2>2, <2>3 DEF TypeOK, Event, Kinds, Held
<1>4. ASSUME NEW b \in Browsers, NEW info \in Announced \cup {Nothing}, Resolve(b, info)
      PROVE  TypeOK'
  <2> DEFINE s == Head(events[b]).service
             ref == _service_to_ref(s, info)
  <2>1. /\ Due(b, {"add", "update"}) /\ events' = [events EXCEPT ![b] = Tail(@)]
        /\ hand' = [hand EXCEPT ![b] = IF ref = NoRef THEN Empty ELSE [service |-> s, ref |-> ref]]
        /\ missed' \subseteq missed \cup {<<b, s>>}
        /\ UNCHANGED <<startVars, peers, netVars>>
    BY <1>4 DEF Resolve
  <2>2. /\ Browsers' = Browsers /\ s \in Services
        /\ \A c \in Browsers : events'[c] \in Seq(Event)
    BY <1>1, <2>1, PopEffect DEF Event
  <2>3. ref # NoRef => [service |-> s, ref |-> ref] \in Held
    BY <2>2, RefShape DEF Held
  <2> HIDE DEF s, ref
  <2>4. DOMAIN hand' = Browsers /\ \A c \in Browsers : hand'[c] # Empty => hand'[c] \in Held
    BY <1>1, <2>1, <2>3
  <2>5. missed' \subseteq Browsers \X Services
    BY <2>1, <2>2 DEF TypeOK
  <2> QED
    BY <1>1, <2>1, <2>2, <2>4, <2>5 DEF TypeOK, Event, Kinds, Held
<1>5. ASSUME NEW b \in Browsers, Put(b) PROVE TypeOK'
  <2>1. /\ hand[b] \in Held
        /\ peers' = [x \in DOMAIN peers \cup {hand[b].service} |->
                        IF x = hand[b].service THEN hand[b].ref ELSE peers[x]]
        /\ hand' = [hand EXCEPT ![b] = Empty]
        /\ UNCHANGED <<startVars, events, missed, netVars>>
    BY <1>1, <1>5 DEF Put, Key
  <2>2. DOMAIN peers' \subseteq Services /\ \A s \in DOMAIN peers' : peers'[s] \in AgentRefs
    BY <2>1 DEF TypeOK, Held
  <2>3. DOMAIN hand' = Browsers /\ \A c \in Browsers : hand'[c] # Empty => hand'[c] \in Held
    BY <1>1, <2>1
  <2>4. Browsers' = Browsers
    BY <2>1 DEF Browsers
  <2> QED
    BY <1>1, <2>1, <2>2, <2>3, <2>4 DEF TypeOK, Event, Kinds, Held
<1>6. ASSUME NEW b \in Browsers, RemoveService(b) PROVE TypeOK'
  <2>1. /\ Due(b, {"remove"}) /\ events' = [events EXCEPT ![b] = Tail(@)]
        /\ UNCHANGED <<startVars, hand, missed, netVars>>
        /\ DOMAIN peers' \subseteq DOMAIN peers /\ \A x \in DOMAIN peers' : peers'[x] = peers[x]
    BY <1>6 DEF RemoveService, RemoveIf, Without
  <2>2. Browsers' = Browsers /\ \A c \in Browsers : events'[c] \in Seq(Event)
    BY <1>1, <2>1, PopEffect
  <2> QED
    BY <1>1, <2>1, <2>2 DEF TypeOK, Event, Kinds, Held
<1>7. ASSUME NEW s \in Services, NEW i \in Data[s] \cup {Gone}, Change(s, i) PROVE TypeOK'
  <2>1. /\ net' = [net EXCEPT ![s] = i] /\ changes' = changes + 1 /\ changes < MaxChanges
        /\ life' = [life EXCEPT ![s] = IF i = Gone THEN {} ELSE @ \cup Described(s, i)]
        /\ UNCHANGED <<startVars, hand, peers, missed>>
    BY <1>7 DEF Change
  <2>2. i \in Announced \cup {Gone}
    BY DEF Announced
  <2>3. net' \in [Services -> Announced \cup {Gone}] /\ life' \in [Services -> SUBSET AgentRefs]
    BY <2>1, <2>2, DescribedShape DEF TypeOK
  <2>4. changes' \in 0 .. MaxChanges
    BY <1>1, <2>1
  <2>5. Browsers' = Browsers /\ \A b \in Browsers : events'[b] \in Seq(Event)
    BY <1>7, ChangeEffect
  <2> QED
    BY <1>1, <2>1, <2>3, <2>4, <2>5 DEF TypeOK, Event, Kinds, Held
<1>8. CASE UNCHANGED vars
  BY <1>8 DEF vars, TypeOK, Browsers
<1>9. ASSUME NEW t \in Threads, Enter(t) \/ Discover(t) \/ Fail(t)
      PROVE  Browse(t) \/ UNCHANGED <<browserVars, netVars>>
  BY <1>9 DEF Discover, Enter, Locked, TakeLock, NotInstalled, Open, OpenWith, Settle, Available,
     Return, Fail, FailAnd
<1> QED
  BY <1>2, <1>3, <1>4, <1>5, <1>6, <1>7, <1>8, <1>9 DEF Next, Discover, Callback, Infos

-------------------------------------------------------------------------------
(***************************************************************************)
(* The start.                                                              *)
(***************************************************************************)

\* Browsers stay, so what is browsed stays browsed.
LEMMA BrowsersStay ==
    ASSUME TypeOK, Starting, [Next]_vars
    PROVE  Browsers \subseteq Browsers' /\ (AllBrowsed => AllBrowsed')
<1>1. Browsers \subseteq Browsers'
  <2>1. CASE \E t \in Threads : Browse(t)
    BY <2>1, BrowseEffect
  <2>2. CASE \E b \in Browsers, info \in Announced \cup {Nothing} : Resolve(b, info)
    BY <2>2 DEF Resolve, Browsers
  <2>3. CASE \E b \in Browsers : Put(b) \/ RemoveService(b)
    BY <2>3 DEF Put, RemoveService, RemoveIf, Browsers
  <2>4. CASE \E s \in Services : \E i \in Data[s] \cup {Gone} : Change(s, i)
    BY <2>4 DEF Change, Browsers
  <2>5. CASE UNCHANGED <<browserVars, netVars>>
    BY <2>5 DEF browserVars, Browsers
  <2> QED
    BY <2>1, <2>2, <2>3, <2>4, <2>5, StepKinds
<1> QED
  BY <1>1 DEF AllBrowsed

\* One thread starts the listener at a time, and says so when all is browsed.
LEMMA StartingStep ==
    ASSUME TypeOK, Starting, [Next]_vars
    PROVE  Starting'
<1> USE DEF Goto, startVars
<1>1. /\ at \in [Threads -> Places] /\ opened \in Nat /\ fails \in Nat /\ NoOne \notin Threads
      /\ lock \in Threads \cup {NoOne} /\ started \in BOOLEAN /\ available \in BOOLEAN
  BY ListenerAssumption DEF TypeOK, Places
<1>2. AllBrowsed => AllBrowsed'
  BY BrowsersStay
<1>3. CASE UNCHANGED startVars
  BY <1>2, <1>3 DEF Starting
<1>4. ASSUME NEW t \in Threads, Enter(t) \/ Locked(t) \/ Return(t) PROVE Starting'
  <2>1. UNCHANGED <<started, available, opened, fails>>
    BY <1>4 DEF Enter, Locked, TakeLock, Return
  <2>2. \/ /\ at[t] \notin {"open", "browse", "settled"} /\ lock' = lock
           /\ \E place : /\ at' = [at EXCEPT ![t] = place]
                         /\ \/ place \in {"idle", "start", "empty"}
                            \/ place = "snapshot" /\ available
        \/ /\ at[t] = "start" /\ lock = NoOne /\ lock' = t /\ ~started
           /\ at' = [at EXCEPT ![t] = "open"]
    <3>1. CASE Enter(t)
      <4>1. PICK place : place = (IF started THEN AfterStart ELSE "start")
                         /\ at' = [at EXCEPT ![t] = place]
        BY <3>1 DEF Enter
      <4>2. place \in {"start", "empty"} \/ (place = "snapshot" /\ available)
        BY <4>1 DEF AfterStart
      <4>3. at[t] = "idle" /\ lock' = lock
        BY <1>1, <3>1, <4>1 DEF Enter
      <4> QED
        BY <4>1, <4>2, <4>3
    <3>2. CASE Locked(t)
      <4>1. CASE started
        <5>1. at' = [at EXCEPT ![t] = AfterStart] /\ at[t] = "start" /\ lock' = lock
          BY <3>2, <4>1 DEF Locked, TakeLock
        <5>2. AfterStart = "empty" \/ (AfterStart = "snapshot" /\ available)
          BY DEF AfterStart
        <5> QED
          BY <5>1, <5>2
      <4>2. CASE ~started
        BY <3>2, <4>2 DEF Locked, TakeLock
      <4> QED
        BY <4>1, <4>2
    <3>3. CASE Return(t)
      <4>1. at' = [at EXCEPT ![t] = "idle"] /\ at[t] \in {"snapshot", "empty"} /\ lock' = lock
        BY <3>3 DEF Return
      <4> QED
        BY <4>1
    <3> QED
      BY <1>4, <3>1, <3>2, <3>3
  <2> QED
    BY <1>1, <1>2, <2>1, <2>2 DEF Starting
<1>5. ASSUME NEW t \in Threads, NotInstalled(t) PROVE Starting'
  BY <1>1, <1>2, <1>5 DEF NotInstalled, Starting
<1>6. ASSUME NEW t \in Threads, Open(t) PROVE Starting'
  BY <1>1, <1>2, <1>6 DEF Open, OpenWith, Starting
<1>7. ASSUME NEW t \in Threads, Fail(t) PROVE Starting'
  BY <1>1, <1>2, <1>7 DEF Fail, FailAnd, Starting
<1>8. ASSUME NEW t \in Threads, Settle(t) PROVE Starting'
  <2>1. AllBrowsed
    <3>1. ASSUME NEW k \in 1 .. Len(Types) PROVE \E b \in Browsers : b[2] = Types[k]
      <4>1. <<opened, Types[k]>> \in Browsers
        BY <1>8 DEF Settle, Unbrowsed
      <4> QED
        BY <4>1
    <3> QED
      BY <3>1 DEF AllBrowsed
  <2> QED
    BY <1>1, <1>2, <1>8, <2>1 DEF Settle, Starting
<1>9. ASSUME NEW t \in Threads, Available(t) PROVE Starting'
  BY <1>1, <1>2, <1>9 DEF Available, Starting
<1>10. ASSUME NEW t \in Threads, Browse(t) PROVE UNCHANGED startVars
  BY <1>10 DEF Browse
<1>11. ASSUME NEW b \in Browsers, Callback(b) PROVE UNCHANGED startVars
  BY <1>11 DEF Callback, Resolve, Put, RemoveService, RemoveIf
<1>12. ASSUME NEW s, NEW i, Change(s, i) PROVE UNCHANGED startVars
  BY <1>12 DEF Change
<1> QED
  BY <1>3, <1>4, <1>5, <1>6, <1>7, <1>8, <1>9, <1>10, <1>11, <1>12 DEF Next, Discover, vars

-------------------------------------------------------------------------------
(***************************************************************************)
(* The live set.                                                           *)
(***************************************************************************)

\* What a change reports is queued, and what was queued still is.
LEMMA ChangeQueues ==
    ASSUME TypeOK, NEW s \in Services, NEW i \in Data[s] \cup {Gone}, Change(s, i),
           NEW b \in Browsers
    PROVE  /\ b[2] = TypeOf[s] =>
                 Queued(b, s, IF i = Gone THEN {"remove"} ELSE {"add", "update"})'
           /\ \A x, kinds : Queued(b, x, kinds) => Queued(b, x, kinds)'
<1>1. /\ Len(events[b]) \in Nat
      /\ b[2] # TypeOf[s] => events'[b] = events[b]
      /\ b[2] = TypeOf[s] =>
            /\ Len(events'[b]) = Len(events[b]) + 1
            /\ \A k \in 1 .. Len(events[b]) : events'[b][k] = events[b][k]
            /\ events'[b][Len(events[b]) + 1].service = s
            /\ events'[b][Len(events[b]) + 1].kind \in Kinds
            /\ events'[b][Len(events[b]) + 1].kind = "remove" <=> i = Gone
  BY ChangeEffect
<1>2. ASSUME b[2] = TypeOf[s]
      PROVE  Queued(b, s, IF i = Gone THEN {"remove"} ELSE {"add", "update"})'
  <2>1. Len(events[b]) + 1 \in 1 .. Len(events'[b])
    BY <1>1, <1>2
  <2> QED
    BY <1>1, <1>2, <2>1 DEF Queued, Kinds
<1>3. ASSUME NEW x, NEW kinds, Queued(b, x, kinds) PROVE Queued(b, x, kinds)'
  <2>1. PICK k \in 1 .. Len(events[b]) : events[b][k].service = x /\ events[b][k].kind \in kinds
    BY <1>3 DEF Queued
  <2>2. k \in 1 .. Len(events'[b]) /\ events'[b][k] = events[b][k]
    BY <1>1, <2>1
  <2> QED
    BY <2>1, <2>2 DEF Queued
<1> QED
  BY <1>2, <1>3

\* Every browser keeps to its own type.
LEMMA RoutedStep ==
    ASSUME TypeOK, Starting, Routed, [Next]_vars
    PROVE  Routed'
<1> USE DEF startVars, browserVars, netVars
<1>1. CASE UNCHANGED <<browserVars, netVars>>
  BY <1>1 DEF Routed, Browsers, BrowserOf
<1>2. ASSUME NEW t \in Threads, Browse(t) PROVE Routed'
  <2>1. PICK b :
           /\ Browsers' = Browsers \cup {b}
           /\ \A c \in Browsers : events'[c] = events[c] /\ hand'[c] = hand[c]
           /\ hand'[b] = Empty
           /\ \A n \in 1 .. Len(events'[b]) :
                 events'[b][n].kind = "add" /\ TypeOf[events'[b][n].service] = b[2]
           /\ UNCHANGED <<startVars, peers, missed, netVars>>
    BY <1>2, BrowseEffect
  <2>2. \A s \in DOMAIN peers' : BrowserOf(s)' # {}
    BY <2>1 DEF Routed, BrowserOf
  <2> QED
    BY <2>1, <2>2 DEF Routed
<1>3. ASSUME NEW b \in Browsers, NEW kinds, Due(b, kinds),
             events' = [events EXCEPT ![b] = Tail(@)]
      PROVE  /\ Browsers' = Browsers
             /\ \A c \in Browsers : \A k \in 1 .. Len(events'[c]) :
                   TypeOf[events'[c][k].service] = c[2]
             /\ TypeOf[Head(events[b]).service] = b[2]
  <2>1. /\ Browsers' = Browsers
        /\ Len(events[b]) \in Nat \ {0} /\ events[b][1] = Head(events[b])
        /\ \A c \in Browsers \ {b} : events'[c] = events[c]
        /\ Len(events'[b]) = Len(events[b]) - 1
        /\ \A k \in 1 .. Len(events'[b]) : events'[b][k] = events[b][k + 1]
    BY <1>3, PopEffect
  <2>2. \A k \in 1 .. Len(events'[b]) : k + 1 \in 1 .. Len(events[b])
    BY <2>1
  <2>3. 1 \in 1 .. Len(events[b])
    BY <2>1
  <2>4. TypeOf[events[b][1].service] = b[2]
    BY <2>3 DEF Routed
  <2>5. \A k \in 1 .. Len(events'[b]) : TypeOf[events[b][k + 1].service] = b[2]
    BY <2>2 DEF Routed
  <2>6. \A c \in Browsers \ {b} : \A k \in 1 .. Len(events'[c]) :
           TypeOf[events'[c][k].service] = c[2]
    BY <2>1 DEF Routed
  <2>7. \A k \in 1 .. Len(events'[b]) : TypeOf[events'[b][k].service] = b[2]
    BY <2>1, <2>5
  <2> QED
    BY <2>1, <2>4, <2>6, <2>7
<1>4. ASSUME NEW b \in Browsers, NEW info \in Announced \cup {Nothing}, Resolve(b, info)
      PROVE  Routed'
  <2>1. /\ Due(b, {"add", "update"}) /\ events' = [events EXCEPT ![b] = Tail(@)]
        /\ hand' = [hand EXCEPT ![b] =
                       IF _service_to_ref(Head(events[b]).service, info) = NoRef
                       THEN Empty
                       ELSE [service |-> Head(events[b]).service,
                             ref |-> _service_to_ref(Head(events[b]).service, info)]]
        /\ UNCHANGED <<startVars, peers, netVars>>
    BY <1>4 DEF Resolve
  <2>2. /\ Browsers' = Browsers /\ TypeOf[Head(events[b]).service] = b[2]
        /\ \A c \in Browsers : \A k \in 1 .. Len(events'[c]) :
              TypeOf[events'[c][k].service] = c[2]
    BY <1>3, <2>1
  <2> DEFINE s == Head(events[b]).service
             ref == _service_to_ref(s, info)
  <2>3. \A c \in Browsers : hand'[c] # Empty => TypeOf[hand'[c].service] = c[2]
    <3>1. /\ hand' = [hand EXCEPT ![b] = IF ref = NoRef THEN Empty ELSE [service |-> s, ref |-> ref]]
          /\ TypeOf[s] = b[2] /\ DOMAIN hand = Browsers
          /\ \A c \in Browsers : hand[c] # Empty => TypeOf[hand[c].service] = c[2]
      BY <2>1, <2>2 DEF Routed, TypeOK
    <3> HIDE DEF s, ref
    <3> QED
      BY <3>1
  <2> QED
    BY <2>1, <2>2, <2>3 DEF Routed, BrowserOf
<1>5. ASSUME NEW b \in Browsers, Put(b) PROVE Routed'
  <2>1. /\ hand[b] # Empty
        /\ DOMAIN peers' = DOMAIN peers \cup {hand[b].service}
        /\ hand' = [hand EXCEPT ![b] = Empty]
        /\ UNCHANGED <<startVars, events, missed, netVars>>
    BY <1>5 DEF Put, Key
  <2>2. b \in BrowserOf(hand[b].service)
    BY <2>1 DEF Routed, BrowserOf
  <2>3. Browsers' = Browsers /\ \A s : BrowserOf(s)' = BrowserOf(s)
    BY <2>1 DEF Browsers, BrowserOf
  <2>4. \A c \in Browsers : hand'[c] # Empty => hand'[c] = hand[c]
    BY <2>1 DEF TypeOK
  <2>5. \A s \in DOMAIN peers' : BrowserOf(s) # {}
    BY <2>1, <2>2 DEF Routed
  <2>6. \A c \in Browsers : hand'[c] # Empty => TypeOf[hand'[c].service] = c[2]
    BY <2>4 DEF Routed
  <2> QED
    BY <2>1, <2>3, <2>5, <2>6 DEF Routed
<1>6. ASSUME NEW b \in Browsers, RemoveService(b) PROVE Routed'
  <2>1. /\ Due(b, {"remove"}) /\ events' = [events EXCEPT ![b] = Tail(@)]
        /\ UNCHANGED <<startVars, hand, missed, netVars>> /\ DOMAIN peers' \subseteq DOMAIN peers
    BY <1>6 DEF RemoveService, RemoveIf, Without
  <2> QED
    BY <1>3, <2>1 DEF Routed, BrowserOf
<1>7. ASSUME NEW s \in Services, NEW i \in Data[s] \cup {Gone}, Change(s, i) PROVE Routed'
  <2>1. /\ net' = [net EXCEPT ![s] = i]
        /\ life' = [life EXCEPT ![s] = IF i = Gone THEN {} ELSE @ \cup Described(s, i)]
        /\ UNCHANGED <<startVars, hand, peers, missed>>
    BY <1>7 DEF Change
  <2>2. Browsers' = Browsers
    BY <1>7, ChangeEffect
  <2>3. ASSUME NEW b \in Browsers, NEW k \in 1 .. Len(events'[b])
        PROVE  TypeOf[events'[b][k].service] = b[2]
    <3>1. /\ Len(events[b]) \in Nat
          /\ b[2] # TypeOf[s] => events'[b] = events[b]
          /\ b[2] = TypeOf[s] =>
                /\ Len(events'[b]) = Len(events[b]) + 1
                /\ \A n \in 1 .. Len(events[b]) : events'[b][n] = events[b][n]
                /\ events'[b][Len(events[b]) + 1].service = s
      BY <1>7, ChangeEffect
    <3>2. CASE k \in 1 .. Len(events[b])
      <4>1. events'[b][k] = events[b][k]
        BY <3>1, <3>2
      <4> QED
        BY <3>2, <4>1 DEF Routed
    <3>3. CASE k \notin 1 .. Len(events[b])
      <4>1. b[2] = TypeOf[s] /\ k = Len(events[b]) + 1
        BY <3>1, <3>3
      <4> QED
        BY <3>1, <4>1
    <3> QED
      BY <3>2, <3>3
  <2>4. \A x \in Services : Described(x, net'[x]) \subseteq life'[x]
    BY <2>1, DescribedShape DEF Routed, TypeOK
  <2> QED
    BY <2>1, <2>2, <2>3, <2>4 DEF Routed, BrowserOf
<1> QED
  BY <1>1, <1>2, <1>4, <1>5, <1>6, <1>7, StepKinds

\* Nothing of a service that left stays without its goodbye on the way.
LEMMA PartingStep ==
    ASSUME TypeOK, Starting, Routed, Parting, [Next]_vars
    PROVE  Parting'
<1> USE DEF startVars, browserVars, netVars
<1>0. /\ \A s \in Services : EntryParts(s)
      /\ \A s \in Services : \A b \in Browsers : HandParts(b, s)
      /\ DOMAIN hand = Browsers
  BY DEF Parting, TypeOK
<1>1. CASE UNCHANGED <<browserVars, netVars>>
  BY <1>1 DEF Parting, HandParts, EntryParts, Browsers, Queued
<1>2. ASSUME NEW t \in Threads, Browse(t) PROVE Parting'
  <2>1. PICK b :
           /\ Browsers' = Browsers \cup {b}
           /\ \A c \in Browsers : events'[c] = events[c] /\ hand'[c] = hand[c]
           /\ hand'[b] = Empty
           /\ UNCHANGED <<startVars, peers, missed, netVars>>
    BY <1>2, BrowseEffect
  <2>2. \A c \in Browsers : \A s, kinds : Queued(c, s, kinds) => Queued(c, s, kinds)'
    BY <2>1 DEF Queued
  <2>3. ASSUME NEW c \in Browsers', NEW s \in Services PROVE HandParts(c, s)'
    BY <1>0, <2>1, <2>2 DEF HandParts
  <2>4. ASSUME NEW s \in Services PROVE EntryParts(s)'
    BY <1>0, <2>1, <2>2 DEF EntryParts
  <2> QED
    BY <2>3, <2>4 DEF Parting
<1>3. ASSUME NEW b \in Browsers, NEW info \in Announced \cup {Nothing}, Resolve(b, info)
      PROVE  Parting'
  <2> DEFINE s == Head(events[b]).service
             ref == _service_to_ref(s, info)
  <2>1. /\ Due(b, {"add", "update"}) /\ events' = [events EXCEPT ![b] = Tail(@)]
        /\ hand' = [hand EXCEPT ![b] = IF ref = NoRef THEN Empty ELSE [service |-> s, ref |-> ref]]
        /\ info = Nothing \/ (info = net[s] /\ info # Gone)
        /\ UNCHANGED <<startVars, peers, netVars>>
    BY <1>3 DEF Resolve
  <2>2. Browsers' = Browsers /\ s \in Services
    BY <2>1, PopEffect DEF Event
  <2>3. \A c \in Browsers : \A x : Queued(c, x, {"remove"}) => Queued(c, x, {"remove"})'
    <3>1. {"remove"} \cap {"add", "update"} = {}
      OBVIOUS
    <3> QED
      BY <2>1, <3>1, PopKeeps
  <2>4. ref # NoRef => ref \in life[s]
    <3>1. ASSUME ref # NoRef PROVE ref \in life[s]
      <4>1. info # Nothing
        BY <3>1 DEF _service_to_ref, IsPeer
      <4>2. ref \in Described(s, net[s])
        BY <2>1, <3>1, <4>1 DEF Described
      <4> QED
        BY <2>2, <4>2 DEF Routed
    <3> QED
      BY <3>1
  <2> HIDE DEF s, ref
  <2>5. ASSUME NEW c \in Browsers, NEW x \in Services PROVE HandParts(c, x)'
    <3>1. CASE c = b
      <4>1. hand'[b] = IF ref = NoRef THEN Empty ELSE [service |-> s, ref |-> ref]
        BY <1>0, <2>1
      <4> QED
        BY <2>1, <2>4, <3>1, <4>1 DEF HandParts
    <3>2. CASE c # b
      <4>1. hand'[c] = hand[c]
        BY <2>1, <3>2
      <4> QED
        BY <1>0, <2>1, <2>3, <4>1 DEF HandParts
    <3> QED
      BY <3>1, <3>2
  <2>6. ASSUME NEW x \in Services PROVE EntryParts(x)'
    BY <1>0, <2>1, <2>2, <2>3 DEF EntryParts
  <2> QED
    BY <2>2, <2>5, <2>6 DEF Parting
<1>4. ASSUME NEW b \in Browsers, Put(b) PROVE Parting'
  <2> DEFINE s == hand[b].service
  <2>1. /\ hand[b] # Empty
        /\ peers' = [x \in DOMAIN peers \cup {s} |-> IF x = s THEN hand[b].ref ELSE peers[x]]
        /\ hand' = [hand EXCEPT ![b] = Empty]
        /\ UNCHANGED <<startVars, events, missed, netVars>>
    BY <1>4 DEF Put, Key
  <2>2. /\ Browsers' = Browsers
        /\ \A c \in Browsers : \A x, kinds : Queued(c, x, kinds) => Queued(c, x, kinds)'
    BY <2>1 DEF Browsers, Queued
  <2>3. \A c \in Browsers : hand'[c] # Empty => hand'[c] = hand[c]
    BY <1>0, <2>1
  <2>4. s \in Services => hand[b].ref \in life[s] \/ Queued(b, s, {"remove"})
    BY <1>0, <2>1 DEF HandParts
  <2> HIDE DEF s
  <2>5. ASSUME NEW c \in Browsers, NEW x \in Services PROVE HandParts(c, x)'
    BY <1>0, <2>1, <2>2, <2>3 DEF HandParts
  <2>6. ASSUME NEW x \in Services PROVE EntryParts(x)'
    BY <1>0, <2>1, <2>2, <2>4 DEF EntryParts
  <2> QED
    BY <2>2, <2>5, <2>6 DEF Parting
<1>5. ASSUME NEW b \in Browsers, RemoveService(b) PROVE Parting'
  <2> DEFINE s == Head(events[b]).service
  <2>1. /\ Due(b, {"remove"}) /\ events' = [events EXCEPT ![b] = Tail(@)]
        /\ UNCHANGED <<startVars, hand, missed, netVars>>
        /\ s \in Services => peers' = [x \in DOMAIN peers \ {s} |-> peers[x]]
    BY <1>5 DEF RemoveService, RemoveIf, Without, Key
  <2>2. Browsers' = Browsers /\ s \in Services /\ hand[b] = Empty
    BY <2>1, PopEffect DEF Event
  <2>3. ASSUME NEW c \in Browsers, NEW x, Queued(c, x, {"remove"}), c # b \/ x # s
        PROVE  Queued(c, x, {"remove"})'
    BY <2>1, <2>3, PopKeeps
  <2> HIDE DEF s
  <2>4. ASSUME NEW c \in Browsers, NEW x \in Services PROVE HandParts(c, x)'
    BY <1>0, <2>1, <2>2, <2>3 DEF HandParts
  <2>5. ASSUME NEW x \in Services PROVE EntryParts(x)'
    BY <1>0, <2>1, <2>2, <2>3 DEF EntryParts
  <2> QED
    BY <2>2, <2>4, <2>5 DEF Parting
<1>6. ASSUME NEW s \in Services, NEW i \in Data[s] \cup {Gone}, Change(s, i) PROVE Parting'
  <2>1. /\ life' = [life EXCEPT ![s] = IF i = Gone THEN {} ELSE @ \cup Described(s, i)]
        /\ UNCHANGED <<startVars, hand, peers, missed>>
    BY <1>6 DEF Change
  <2>2. Browsers' = Browsers
    BY <1>6, ChangeEffect
  <2>3. ASSUME NEW b \in Browsers
        PROVE  /\ b[2] = TypeOf[s] /\ i = Gone => Queued(b, s, {"remove"})'
               /\ \A x : Queued(b, x, {"remove"}) => Queued(b, x, {"remove"})'
    BY <1>6, ChangeQueues
  <2>4. /\ \A x : x # s => life'[x] = life[x]
        /\ i # Gone => life[s] \subseteq life'[s]
    BY <2>1 DEF TypeOK
  <2>5. ASSUME NEW b \in Browsers, NEW x \in Services PROVE HandParts(b, x)'
    <3>1. hand[b] # Empty /\ hand[b].service = x => TypeOf[x] = b[2]
      BY DEF Routed
    <3>2. HandParts(b, x)
      BY <1>0
    <3> QED
      BY <2>1, <2>3, <2>4, <3>1, <3>2 DEF HandParts
  <2>6. ASSUME NEW x \in Services PROVE EntryParts(x)'
    <3>1. x \in DOMAIN peers => \E b \in Browsers : b[2] = TypeOf[x]
      BY DEF Routed, BrowserOf
    <3>2. EntryParts(x)
      BY <1>0
    <3> QED
      BY <2>1, <2>2, <2>3, <2>4, <3>1, <3>2 DEF EntryParts
  <2> QED
    BY <2>2, <2>5, <2>6 DEF Parting
<1> QED
  BY <1>1, <1>2, <1>3, <1>4, <1>5, <1>6, StepKinds

\* A callback takes a report off without leaving an older one behind it uncovered.
LEMMA PopArrives ==
    ASSUME TypeOK, NEW b \in Browsers, NEW kinds, Due(b, kinds),
           events' = [events EXCEPT ![b] = Tail(@)], UNCHANGED netVars,
           NEW c \in Browsers, NEW s \in Services, EventArrives(c, s)
    PROVE  EventArrives(c, s)'
<1>1. /\ Len(events[b]) \in Nat \ {0}
      /\ \A d \in Browsers \ {b} : events'[d] = events[d]
      /\ Len(events'[b]) = Len(events[b]) - 1
      /\ \A k \in 1 .. Len(events'[b]) : events'[b][k] = events[b][k + 1]
      /\ net' = net
  BY PopEffect DEF netVars
<1>2. CASE c # b
  BY <1>1, <1>2 DEF EventArrives
<1>3. CASE c = b
  <2>1. ASSUME net[s] # Gone, NEW k \in 1 .. Len(events'[b]), events'[b][k].service = s
        PROVE  \E j \in k .. Len(events'[b]) : events'[b][j].service = s /\ events'[b][j].kind # "remove"
    <3>1. k + 1 \in 1 .. Len(events[b]) /\ events[b][k + 1].service = s
      BY <1>1, <2>1
    <3>2. PICK j \in k + 1 .. Len(events[b]) : events[b][j].service = s /\ events[b][j].kind # "remove"
      BY <1>3, <2>1, <3>1 DEF EventArrives
    <3>3. j - 1 \in k .. Len(events'[b]) /\ j - 1 \in 1 .. Len(events'[b]) /\ (j - 1) + 1 = j
      BY <1>1, <3>2
    <3>4. events'[b][j - 1] = events[b][j]
      BY <1>1, <3>3
    <3> QED
      <4>1. events'[b][j - 1].service = s /\ events'[b][j - 1].kind # "remove"
        BY <3>2, <3>4
      <4> QED
        BY <3>3, <4>1
  <2>2. net'[s] # Gone =>
           \A k \in 1 .. Len(events'[b]) : events'[b][k].service = s =>
               \E j \in k .. Len(events'[b]) : events'[b][j].service = s /\ events'[b][j].kind # "remove"
    <3>1. net'[s] = net[s]
      BY <1>1
    <3> QED
      BY <2>1, <3>1, Zenon
  <2>3. EventArrives(b, s)'
    BY <2>2, Zenon DEF EventArrives
  <2> QED
    BY <1>3, <2>3
<1> QED
  BY <1>2, <1>3

\* A report of a service that is there has one behind it that resolves.
LEMMA StillComing ==
    ASSUME TypeOK, NEW b \in Browsers, NEW s \in Services, EventArrives(b, s),
           net[s] # Gone, Queued(b, s, Kinds)
    PROVE  Queued(b, s, {"add", "update"})
<1>1. PICK k \in 1 .. Len(events[b]) : events[b][k].service = s
  BY DEF Queued
<1>2. PICK j \in k .. Len(events[b]) : events[b][j].service = s /\ events[b][j].kind # "remove"
  BY <1>1 DEF EventArrives
<1>3. events[b] \in Seq(Event) /\ Len(events[b]) \in Nat
  BY LenProperties DEF TypeOK, Event, Kinds
<1>4. j \in 1 .. Len(events[b])
  BY <1>2, <1>3
<1>5. events[b][j] \in Event
  BY <1>3, <1>4, ElementOfSeq
<1> QED
  BY <1>2, <1>4, <1>5 DEF Queued, Event, Kinds

\* What a service announces now is there, or on the way, or was missed.
LEMMA ArrivingStep ==
    ASSUME TypeOK, Starting, Routed, Arriving, [Next]_vars
    PROVE  Arriving'
<1> USE DEF startVars, browserVars, netVars
<1>0. /\ \A s \in Services : EntryArrives(s)
      /\ \A s \in Services : \A b \in Browsers : EventArrives(b, s) /\ HandArrives(b, s)
      /\ DOMAIN hand = Browsers
  BY DEF Arriving, TypeOK
<1>1. CASE UNCHANGED <<browserVars, netVars>>
  <2>1. /\ UNCHANGED <<events, hand, peers, missed, net>> /\ Browsers' = Browsers
        /\ \A s : BrowserOf(s)' = BrowserOf(s)
    BY <1>1 DEF Browsers, BrowserOf
  <2>2. \A b, s : OnTheWay(b, s) => OnTheWay(b, s)'
    BY <2>1 DEF OnTheWay, Queued
  <2>3. ASSUME NEW b \in Browsers, NEW s \in Services PROVE EventArrives(b, s)' /\ HandArrives(b, s)'
    BY <1>0, <2>1 DEF EventArrives, HandArrives, Queued
  <2>4. ASSUME NEW s \in Services PROVE EntryArrives(s)'
    BY <1>0, <2>1, <2>2 DEF EntryArrives
  <2> QED
    BY <2>1, <2>3, <2>4 DEF Arriving
<1>2. ASSUME NEW t \in Threads, Browse(t) PROVE Arriving'
  <2>1. PICK b :
           /\ b \notin Browsers
           /\ Browsers' = Browsers \cup {b}
           /\ \A c \in Browsers : events'[c] = events[c] /\ hand'[c] = hand[c]
           /\ hand'[b] = Empty
           /\ \A n \in 1 .. Len(events'[b]) :
                 events'[b][n].kind = "add" /\ TypeOf[events'[b][n].service] = b[2]
           /\ \A s \in Services :
                 TypeOf[s] = b[2] /\ net[s] # Gone =>
                     \E n \in 1 .. Len(events'[b]) : events'[b][n].service = s
           /\ events'[b] \in Seq(Event)
           /\ UNCHANGED <<startVars, peers, missed, netVars>>
    BY <1>2, BrowseEffect
  <2>2. \A c \in Browsers : \A s, kinds : Queued(c, s, kinds) => Queued(c, s, kinds)'
    BY <2>1 DEF Queued
  <2>3. ASSUME NEW c \in Browsers', NEW s \in Services PROVE EventArrives(c, s)'
    <3>1. CASE c = b
      <4>1. Len(events'[b]) \in Nat
        BY <2>1, LenProperties
      <4>2. \A k \in 1 .. Len(events'[b]) : k \in k .. Len(events'[b]) /\ events'[b][k].kind # "remove"
        BY <2>1, <4>1
      <4> QED
        BY <3>1, <4>2 DEF EventArrives
    <3>2. CASE c # b
      BY <1>0, <2>1, <3>2 DEF EventArrives
    <3> QED
      BY <3>1, <3>2
  <2>4. ASSUME NEW c \in Browsers', NEW s \in Services PROVE HandArrives(c, s)'
    BY <1>0, <2>1, <2>2 DEF HandArrives
  <2>5. ASSUME NEW s \in Services PROVE EntryArrives(s)'
    <3>1. \A c \in Browsers : OnTheWay(c, s) => OnTheWay(c, s)'
      BY <2>1, <2>2 DEF OnTheWay
    <3>2. CASE BrowserOf(s) # {}
      BY <1>0, <2>1, <3>1, <3>2 DEF EntryArrives, BrowserOf
    <3>3. CASE BrowserOf(s) = {}
      <4>1. ASSUME Described(s, net[s]) # {}, b[2] = TypeOf[s] PROVE OnTheWay(b, s)'
        <5>1. net[s] # Gone
          BY <4>1 DEF Described
        <5>2. Queued(b, s, {"add", "update"})'
          BY <2>1, <4>1, <5>1 DEF Queued
        <5> QED
          BY <5>2 DEF OnTheWay
      <4> QED
        BY <2>1, <3>3, <4>1 DEF EntryArrives, BrowserOf
    <3> QED
      BY <3>2, <3>3
  <2> QED
    BY <2>3, <2>4, <2>5 DEF Arriving
<1>3. ASSUME NEW b \in Browsers, NEW info \in Announced \cup {Nothing}, Resolve(b, info)
      PROVE  Arriving'
  <2> DEFINE s == Head(events[b]).service
             ref == _service_to_ref(s, info)
  <2>1. /\ Due(b, {"add", "update"}) /\ events' = [events EXCEPT ![b] = Tail(@)]
        /\ hand' = [hand EXCEPT ![b] = IF ref = NoRef THEN Empty ELSE [service |-> s, ref |-> ref]]
        /\ info = Nothing \/ (info = net[s] /\ info # Gone)
        /\ missed' = IF info = Nothing THEN missed \cup {<<b, s>>} ELSE missed \ {<<b, s>>}
        /\ UNCHANGED <<startVars, peers, netVars>>
    BY <1>3 DEF Resolve
  <2>2. Browsers' = Browsers /\ s \in Services /\ hand[b] = Empty
    BY <2>1, PopEffect DEF Event
  <2>3. ASSUME NEW c \in Browsers, NEW x, NEW kinds, Queued(c, x, kinds), c # b \/ x # s
        PROVE  Queued(c, x, kinds)'
    BY <2>1, <2>3, PopKeeps
  <2>4. ASSUME NEW c \in Browsers, NEW x \in Services PROVE EventArrives(c, x)'
    BY <1>0, <2>1, PopArrives
  <2>5. /\ ref # NoRef => ref \in Described(s, net[s])
        /\ info # Nothing /\ Described(s, net[s]) # {} => ref # NoRef
    <3>1. ref # NoRef => info # Nothing
      BY DEF _service_to_ref, IsPeer
    <3> QED
      BY <2>1, <3>1 DEF Described
  <2>6. hand'[b] = IF ref = NoRef THEN Empty ELSE [service |-> s, ref |-> ref]
    BY <1>0, <2>1
  <2>7. \A c \in Browsers : c # b => hand'[c] = hand[c]
    BY <2>1
  <2>8. UNCHANGED <<net, peers>>
    BY <2>1
  <2> HIDE DEF s, ref
  <2>9. ASSUME NEW c \in Browsers, NEW x \in Services PROVE HandArrives(c, x)'
    <3>1. CASE c = b
      BY <2>5, <2>6, <2>8, <3>1 DEF HandArrives
    <3>2. CASE c # b
      BY <1>0, <2>3, <2>7, <2>8, <3>2 DEF HandArrives
    <3> QED
      BY <3>1, <3>2
  <2>10. ASSUME NEW x \in Services, Described(x, net[x]) # {}, NEW c \in Browsers, OnTheWay(c, x)
         PROVE  OnTheWay(c, x)'
    <3>1. CASE c = b /\ x = s
      <4>1. CASE info = Nothing
        BY <2>1, <3>1, <4>1 DEF OnTheWay
      <4>2. CASE info # Nothing
        <5>1. hand'[b] = [service |-> s, ref |-> ref] /\ ref \in Described(s, net[s])
          BY <2>5, <2>6, <2>10, <3>1, <4>2
        <5>2. hand'[b] # Empty
          <6>1. ref # NoRef
            BY <2>5, <2>10, <3>1, <4>2
          <6> QED
            BY <5>1, <6>1 DEF Empty
        <5> QED
          BY <2>8, <3>1, <5>1, <5>2 DEF OnTheWay
      <4> QED
        BY <4>1, <4>2
    <3>2. CASE c # b \/ x # s
      <4>1. <<c, x>> \in missed => <<c, x>> \in missed'
        BY <2>1, <3>2
      <4>2. c = b => hand[c] = Empty
        BY <2>2
      <4> QED
        BY <2>3, <2>7, <2>8, <2>10, <3>2, <4>1, <4>2 DEF OnTheWay
    <3> QED
      BY <3>1, <3>2
  <2>11. ASSUME NEW x \in Services PROVE EntryArrives(x)'
    <3>1. EntryArrives(x)
      BY <1>0
    <3>2. BrowserOf(x)' = BrowserOf(x) /\ BrowserOf(x) \subseteq Browsers
      BY <2>2 DEF BrowserOf
    <3> QED
      BY <2>8, <2>10, <3>1, <3>2 DEF EntryArrives
  <2> QED
    BY <2>2, <2>4, <2>9, <2>11 DEF Arriving
<1>4. ASSUME NEW b \in Browsers, Put(b) PROVE Arriving'
  <2> DEFINE s == hand[b].service
  <2>1. /\ hand[b] # Empty
        /\ peers' = [x \in DOMAIN peers \cup {s} |-> IF x = s THEN hand[b].ref ELSE peers[x]]
        /\ hand' = [hand EXCEPT ![b] = Empty]
        /\ UNCHANGED <<startVars, events, missed, netVars>>
    BY <1>4 DEF Put, Key
  <2>2. /\ Browsers' = Browsers
        /\ \A x : BrowserOf(x)' = BrowserOf(x)
        /\ \A c \in Browsers : \A x, kinds : Queued(c, x, kinds) => Queued(c, x, kinds)'
    BY <2>1 DEF Browsers, BrowserOf, Queued
  <2>3. \A c \in Browsers : c # b => hand'[c] = hand[c]
    BY <2>1
  <2>4. hand'[b] = Empty /\ UNCHANGED <<net, missed>>
    BY <1>0, <2>1
  <2>5. ASSUME NEW c \in Browsers, NEW x \in Services PROVE EventArrives(c, x)'
    BY <1>0, <2>1 DEF EventArrives
  <2>6. ASSUME NEW c \in Browsers, NEW x \in Services PROVE HandArrives(c, x)'
    BY <1>0, <2>2, <2>3, <2>4 DEF HandArrives
  <2>7. ASSUME NEW x \in Services, Described(x, net[x]) # {}, BrowserOf(x) # {}
        PROVE  \/ x \in DOMAIN peers' /\ peers'[x] \in Described(x, net[x])
               \/ \E c \in BrowserOf(x) : OnTheWay(c, x)'
    <3>1. CASE x = s
      <4>1. CASE hand[b].ref \in Described(x, net[x])
        BY <2>1, <3>1, <4>1
      <4>2. CASE hand[b].ref \notin Described(x, net[x])
        <5>1. Queued(b, x, Kinds) /\ EventArrives(b, x)
          BY <1>0, <2>1, <3>1, <4>2 DEF HandArrives
        <5>2. net[x] # Gone
          BY <2>7 DEF Described
        <5>3. Queued(b, x, {"add", "update"})
          BY <5>1, <5>2, StillComing
        <5>4. b \in BrowserOf(x)
          BY <2>1, <3>1 DEF Routed, BrowserOf
        <5> QED
          BY <2>2, <5>3, <5>4 DEF OnTheWay
      <4> QED
        BY <4>1, <4>2
    <3>2. CASE x # s
      <4>1. CASE x \in DOMAIN peers /\ peers[x] \in Described(x, net[x])
        <5> HIDE DEF s
        <5> QED
          BY <2>1, <3>2, <4>1
      <4>2. ASSUME NEW c \in BrowserOf(x), OnTheWay(c, x) PROVE OnTheWay(c, x)'
        <5>1. c \in Browsers
          BY DEF BrowserOf
        <5>2. hand[c] # Empty /\ hand[c].service = x => c # b
          BY <3>2
        <5> QED
          BY <2>2, <2>3, <2>4, <4>2, <5>1, <5>2 DEF OnTheWay
      <4> QED
        BY <1>0, <2>7, <4>1, <4>2 DEF EntryArrives
    <3> QED
      BY <3>1, <3>2
  <2>8. ASSUME NEW x \in Services PROVE EntryArrives(x)'
    BY <2>2, <2>4, <2>7 DEF EntryArrives
  <2> QED
    BY <2>2, <2>5, <2>6, <2>8 DEF Arriving
<1>5. ASSUME NEW b \in Browsers, RemoveService(b) PROVE Arriving'
  <2> DEFINE s == Head(events[b]).service
  <2>1. /\ Due(b, {"remove"}) /\ events' = [events EXCEPT ![b] = Tail(@)]
        /\ UNCHANGED <<startVars, hand, missed, netVars>>
        /\ s \in Services => peers' = [x \in DOMAIN peers \ {s} |-> peers[x]]
    BY <1>5 DEF RemoveService, RemoveIf, Without, Key
  <2>2. /\ Browsers' = Browsers /\ s \in Services /\ hand[b] = Empty
        /\ Len(events[b]) \in Nat \ {0} /\ events[b][1] = Head(events[b])
        /\ Head(events[b]).kind \in Kinds
    BY <2>1, PopEffect DEF Event
  <2>3. \A c \in Browsers : \A x :
           Queued(c, x, {"add", "update"}) => Queued(c, x, {"add", "update"})'
    <3>1. {"add", "update"} \cap {"remove"} = {}
      OBVIOUS
    <3> QED
      BY <2>1, <3>1, PopKeeps
  <2>4. ASSUME NEW c \in Browsers, NEW x, Queued(c, x, Kinds), c # b PROVE Queued(c, x, Kinds)'
    BY <2>1, <2>4, PopKeeps
  <2>5. ASSUME NEW c \in Browsers, NEW x \in Services PROVE EventArrives(c, x)'
    BY <1>0, <2>1, PopArrives
  <2>6. ASSUME NEW c \in Browsers, NEW x \in Services PROVE HandArrives(c, x)'
    BY <1>0, <2>1, <2>2, <2>4 DEF HandArrives
  <2>7. net[s] # Gone => Queued(b, s, {"add", "update"}) /\ b \in BrowserOf(s)
    <3>1. 1 \in 1 .. Len(events[b]) /\ events[b][1].service = s
      BY <2>2
    <3>2. Queued(b, s, Kinds) /\ TypeOf[s] = b[2]
      BY <2>2, <3>1 DEF Queued, Routed
    <3> QED
      BY <1>0, <2>2, <3>2, StillComing DEF BrowserOf
  <2> HIDE DEF s
  <2>8. ASSUME NEW x \in Services PROVE EntryArrives(x)'
    <3>1. \A c \in Browsers : OnTheWay(c, x) => OnTheWay(c, x)'
      BY <2>1, <2>3 DEF OnTheWay
    <3>2. BrowserOf(x)' = BrowserOf(x) /\ BrowserOf(x) \subseteq Browsers /\ net' = net
      BY <2>1, <2>2 DEF BrowserOf
    <3>3. Described(x, net[x]) # {} => net[x] # Gone
      BY DEF Described
    <3>4. CASE x = s
      BY <2>3, <2>7, <3>2, <3>3, <3>4 DEF EntryArrives, OnTheWay
    <3>5. CASE x # s
      BY <1>0, <2>1, <2>2, <3>1, <3>2, <3>5 DEF EntryArrives
    <3> QED
      BY <3>4, <3>5
  <2> QED
    BY <2>2, <2>5, <2>6, <2>8 DEF Arriving
<1>6. ASSUME NEW s \in Services, NEW i \in Data[s] \cup {Gone}, Change(s, i) PROVE Arriving'
  <2>1. /\ net' = [net EXCEPT ![s] = i]
        /\ UNCHANGED <<startVars, hand, peers, missed>>
    BY <1>6 DEF Change
  <2>2. /\ Browsers' = Browsers /\ \A x : BrowserOf(x)' = BrowserOf(x)
        /\ net'[s] = i /\ \A x \in Services : x # s => net'[x] = net[x]
    BY <1>6, <2>1, ChangeEffect DEF BrowserOf, TypeOK
  <2>3. ASSUME NEW b \in Browsers
        PROVE  /\ b[2] = TypeOf[s] =>
                     Queued(b, s, IF i = Gone THEN {"remove"} ELSE {"add", "update"})'
               /\ \A x, kinds : Queued(b, x, kinds) => Queued(b, x, kinds)'
    BY <1>6, ChangeQueues
  <2>4. ASSUME NEW b \in Browsers, NEW x \in Services PROVE EventArrives(b, x)'
    <3>1. /\ Len(events[b]) \in Nat
          /\ b[2] # TypeOf[s] => events'[b] = events[b]
          /\ b[2] = TypeOf[s] =>
                /\ Len(events'[b]) = Len(events[b]) + 1
                /\ \A k \in 1 .. Len(events[b]) : events'[b][k] = events[b][k]
                /\ events'[b][Len(events[b]) + 1].service = s
                /\ events'[b][Len(events[b]) + 1].kind = "remove" <=> i = Gone
      BY <1>6, ChangeEffect
    <3> DEFINE last == Len(events[b]) + 1
    <3>2. CASE b[2] = TypeOf[s] /\ x = s
      <4>1. \A k \in 1 .. Len(events'[b]) : last \in k .. Len(events'[b])
        BY <3>1, <3>2
      <4> HIDE DEF last
      <4>2. events'[b][last].service = s /\ (i # Gone => events'[b][last].kind # "remove")
        BY <3>1, <3>2 DEF last
      <4> QED
        BY <2>2, <3>2, <4>1, <4>2 DEF EventArrives
    <3>3. CASE b[2] = TypeOf[s] /\ x # s
      <4>1. ASSUME net[x] # Gone, NEW k \in 1 .. Len(events'[b]), events'[b][k].service = x
            PROVE  \E j \in k .. Len(events'[b]) : events'[b][j].service = x /\ events'[b][j].kind # "remove"
        <5>1. k # last
          BY <3>1, <3>3, <4>1
        <5>2. k \in 1 .. Len(events[b]) /\ events[b][k].service = x
          BY <3>1, <3>3, <4>1, <5>1
        <5>3. PICK j \in k .. Len(events[b]) : events[b][j].service = x /\ events[b][j].kind # "remove"
          BY <1>0, <4>1, <5>2 DEF EventArrives
        <5>4. j \in k .. Len(events'[b]) /\ j \in 1 .. Len(events[b])
          BY <3>1, <3>3, <5>2
        <5>5. events'[b][j] = events[b][j]
          BY <3>1, <3>3, <5>4
        <5> QED
          BY <5>3, <5>4, <5>5
      <4> QED
        BY <2>2, <3>3, <4>1 DEF EventArrives
    <3>4. CASE b[2] # TypeOf[s]
      <4>1. CASE x # s
        BY <1>0, <2>2, <3>1, <3>4, <4>1 DEF EventArrives
      <4>2. CASE x = s
        <5>1. \A k \in 1 .. Len(events[b]) : events[b][k].service # s
          BY <3>4 DEF Routed
        <5> QED
          BY <3>1, <3>4, <4>2, <5>1 DEF EventArrives
      <4> QED
        BY <4>1, <4>2
    <3> QED
      BY <3>2, <3>3, <3>4
  <2>5. ASSUME NEW b \in Browsers, NEW x \in Services PROVE HandArrives(b, x)'
    <3>1. CASE x = s
      <4>1. hand[b] # Empty /\ hand[b].service = s => b[2] = TypeOf[s]
        BY DEF Routed
      <4>2. b[2] = TypeOf[s] => Queued(b, s, Kinds)'
        BY <2>3 DEF Queued, Kinds
      <4> QED
        BY <2>1, <3>1, <4>1, <4>2 DEF HandArrives
    <3>2. CASE x # s
      BY <1>0, <2>1, <2>2, <2>3, <3>2 DEF HandArrives
    <3> QED
      BY <3>1, <3>2
  <2>6. ASSUME NEW x \in Services PROVE EntryArrives(x)'
    <3>1. CASE x = s
      <4>1. Described(s, i) # {} => i # Gone
        BY DEF Described
      <4>2. \A b \in BrowserOf(s) : b \in Browsers /\ b[2] = TypeOf[s]
        BY DEF BrowserOf
      <4>3. i # Gone => \A b \in BrowserOf(s) : Queued(b, s, {"add", "update"})'
        BY <2>3, <4>2
      <4> QED
        BY <2>2, <3>1, <4>1, <4>3 DEF EntryArrives, OnTheWay
    <3>2. CASE x # s
      <4>1. \A b \in Browsers : OnTheWay(b, x) => OnTheWay(b, x)'
        BY <2>1, <2>2, <2>3, <3>2 DEF OnTheWay
      <4>2. BrowserOf(x) \subseteq Browsers /\ EntryArrives(x)
        BY <1>0 DEF BrowserOf
      <4> QED
        BY <2>1, <2>2, <3>2, <4>1, <4>2 DEF EntryArrives
    <3> QED
      BY <3>1, <3>2
  <2> QED
    BY <2>2, <2>4, <2>5, <2>6 DEF Arriving
<1> QED
  BY <1>1, <1>2, <1>3, <1>4, <1>5, <1>6, StepKinds

-------------------------------------------------------------------------------
(***************************************************************************)
(* The theorems.                                                           *)
(***************************************************************************)

\* Before the first discover there is no browser, and nothing in the live set.
LEMMA Initially == Init => ListenerInv
<1> SUFFICES ASSUME Init PROVE ListenerInv
  OBVIOUS
<1>1. /\ installed \in BOOLEAN /\ started = FALSE /\ available = FALSE /\ lock = NoOne
      /\ at = [t \in Threads |-> "idle"] /\ opened = 0 /\ fails = 0 /\ changes = 0
      /\ events = [b \in {} |-> <<>>] /\ hand = [b \in {} |-> Empty]
      /\ peers = [s \in {} |-> NoRef] /\ missed = {}
      /\ net \in Present /\ life = [s \in Services |-> Described(s, net[s])]
  BY DEF Init
<1>2. Browsers = {} /\ DOMAIN hand = {} /\ DOMAIN peers = {} /\ NoOne \notin Threads
      /\ MaxChanges \in Nat /\ MaxFails \in Nat
  BY <1>1, ListenerAssumption DEF Browsers
<1>3. net \in [Services -> Announced \cup {Gone}]
  BY <1>1, ListenerAssumption
<1>4. life \in [Services -> SUBSET AgentRefs]
  BY <1>1, <1>3, DescribedShape
<1>5. TypeOK
  <2>1. at \in [Threads -> Places]
    BY <1>1 DEF Places
  <2>2. fails \in 0 .. MaxFails /\ changes \in 0 .. MaxChanges /\ opened \in Nat
    BY <1>1, <1>2
  <2> QED
    BY <1>1, <1>2, <1>3, <1>4, <2>1, <2>2, Zenon DEF TypeOK, Places
<1>6. Starting
  BY <1>1, <1>2 DEF Starting
<1>7. Routed
  <2>1. \A s \in Services : Described(s, net[s]) \subseteq life[s]
    BY <1>1
  <2> QED
    BY <1>2, <2>1, Zenon DEF Routed
<1>8. Parting
  BY <1>2 DEF Parting, EntryParts
<1>9. Arriving
  <2>1. \A s : BrowserOf(s) = {}
    BY <1>2 DEF BrowserOf
  <2> QED
    BY <1>2, <2>1 DEF Arriving, EntryArrives
<1> QED
  BY <1>5, <1>6, <1>7, <1>8, <1>9 DEF ListenerInv

\* Every reachable state satisfies the inductive invariant.
THEOREM Invariance == Spec => []ListenerInv
<1>1. Init => ListenerInv
  BY Initially
<1>2. ListenerInv /\ [Next]_vars => ListenerInv'
  BY TypeStep, StartingStep, RoutedStep, PartingStep, ArrivingStep DEF ListenerInv
<1> QED
  BY <1>1, <1>2, PTL DEF Spec

\* Types: in particular, only refs with an address and a port are in the live set.
THEOREM TypeCorrect == Spec => []TypeOK
<1>1. ListenerInv => TypeOK
  BY DEF ListenerInv
<1> QED
  BY <1>1, Invariance, PTL

\* However many threads call first and however often a start raises, no two threads
\* start the listener: there is one Zeroconf, and one more for each failed start.
THEOREM OneIsOpened == Spec => []OneZeroconf
<1>1. ListenerInv => OneZeroconf
  <2> SUFFICES ASSUME ListenerInv PROVE opened <= 1 + fails
    BY DEF OneZeroconf
  <2>1. opened \in Nat /\ fails \in Nat /\ started \in BOOLEAN
    BY ListenerAssumption DEF ListenerInv, TypeOK
  <2> QED
    BY <2>1 DEF ListenerInv, Starting
<1> QED
  BY <1>1, Invariance, PTL

\* A thread about to snapshot has every service type browsed.
THEOREM AllTypesListen == Spec => []StartedMeansListening
<1>1. ListenerInv => StartedMeansListening
  BY DEF ListenerInv, Starting, AllBrowsed, StartedMeansListening
<1> QED
  BY <1>1, Invariance, PTL

\* Once the browsers have caught up, no entry has outlived a goodbye.
THEOREM GoodbyesTakeEffect == Spec => []NoGhosts
<1>1. ListenerInv => NoGhosts
  <2> SUFFICES ASSUME ListenerInv, CaughtUp, NEW s \in DOMAIN peers PROVE peers[s] \in life[s]
    BY DEF NoGhosts
  <2>1. s \in Services
    BY DEF ListenerInv, TypeOK
  <2>2. \A b \in Browsers : ~Queued(b, s, {"remove"})
    BY DEF CaughtUp, Queued
  <2> QED
    BY <2>1, <2>2 DEF ListenerInv, Parting, EntryParts
<1> QED
  BY <1>1, Invariance, PTL

\* Once they have caught up, a service is there as it announces itself now, unless the
\* last attempt to resolve it went unanswered.
THEOREM AnnouncementsTakeEffect == Spec => []PeersAreCurrent
<1>1. ListenerInv => PeersAreCurrent
  <2> SUFFICES ASSUME ListenerInv, CaughtUp, NEW s \in Services,
                      Described(s, net[s]) # {}, BrowserOf(s) # {}
               PROVE  \/ s \in DOMAIN peers /\ peers[s] \in Described(s, net[s])
                      \/ \E b \in BrowserOf(s) : <<b, s>> \in missed
    BY DEF PeersAreCurrent
  <2>1. EntryArrives(s)
    BY DEF ListenerInv, Arriving
  <2>2. \A b \in BrowserOf(s) : OnTheWay(b, s) => <<b, s>> \in missed
    BY DEF CaughtUp, OnTheWay, Queued, BrowserOf
  <2> QED
    BY <2>1, <2>2 DEF EntryArrives
<1> QED
  BY <1>1, Invariance, PTL
-------------------------------------------------------------------------------
(***************************************************************************)
(* A discover is never stuck: it can go on, or the thread that holds the    *)
(* lock can, and every step of its own brings it nearer to its end while    *)
(* nobody else's takes it further away.  Can has the guards of the steps of *)
(* Discover, as the proof system has no ENABLED.                           *)
(***************************************************************************)

Reporting(k) == {s \in Services : TypeOf[s] = Types[k] /\ net[s] # Gone}

Can(t) ==
    \/ at[t] = "start" /\ lock = NoOne
    \/ at[t] = "open" /\ installed
    \/ at[t] = "open" /\ ~installed
    \/ /\ at[t] = "browse"
       /\ \E k \in Unbrowsed : (\A j \in Unbrowsed : k <= j) /\ SetToSeqs(Reporting(k)) # {}
    \/ at[t] = "browse" /\ Unbrowsed = {}
    \/ at[t] \in {"settled", "snapshot", "empty"}

Unstuck == \A t \in Threads : at[t] # "idle" => Can(t) \/ (lock \in Threads \ {t} /\ Can(lock))

\* What is there can be reported in some order.
LEMMA CanReport == \A k : SetToSeqs(Reporting(k)) # {}
<1> SUFFICES ASSUME NEW k PROVE SetToSeqs(Reporting(k)) # {}
  OBVIOUS
<1> DEFINE S == Reporting(k)
<1>1. IsFiniteSet(S)
  BY ListenerAssumption, FS_Subset DEF Reporting
<1> HIDE DEF S
<1>2. PICK f : f \in Bijection(1 .. Cardinality(S), S)
  BY <1>1, FS_CardinalityType DEF ExistsBijection
<1>3. /\ f \in [1 .. Cardinality(S) -> S]
      /\ \A i, j \in 1 .. Cardinality(S) : i # j => f[i] # f[j]
  BY <1>2 DEF Bijection, Injection, IsInjective
<1>4. f \in SetToSeqs(S)
  BY <1>3 DEF SetToSeqs
<1> QED
  BY <1>4 DEF S

\* "Idempotent + thread-safe" (mdns_source.py): the start lock never leaves the threads
\* waiting for each other, whoever starts the listener and however often that fails.
THEOREM NeverDeadlocked == Spec => []Unstuck
<1>1. ListenerInv => Unstuck
  <2> SUFFICES ASSUME ListenerInv, NEW t \in Threads, at[t] # "idle"
               PROVE  Can(t) \/ (lock \in Threads \ {t} /\ Can(lock))
    BY DEF Unstuck
  <2>1. at \in [Threads -> Places] /\ lock \in Threads \cup {NoOne} /\ installed \in BOOLEAN
    BY DEF ListenerInv, TypeOK, Places
  <2>2. ASSUME NEW u \in Threads, at[u] \in {"open", "browse", "settled"} PROVE Can(u)
    <3>1. CASE at[u] = "browse" /\ Unbrowsed # {}
      <4>1. Unbrowsed \in SUBSET Nat
        BY TypesShape DEF Unbrowsed
      <4>2. \E k \in Unbrowsed : \A j \in Unbrowsed : k <= j
        BY <3>1, <4>1, Least
      <4> QED
        BY <3>1, <4>2, CanReport DEF Can
    <3> QED
      BY <2>1, <2>2, <3>1 DEF Can
  <2>3. CASE at[t] = "start" /\ lock # NoOne
    BY <2>1, <2>2, <2>3 DEF ListenerInv, Starting
  <2>4. CASE at[t] \in {"open", "browse", "settled"}
    BY <2>2, <2>4
  <2>5. CASE at[t] \in {"snapshot", "empty"} \/ (at[t] = "start" /\ lock = NoOne)
    BY <2>5 DEF Can
  <2> QED
    BY <2>1, <2>3, <2>4, <2>5 DEF Places
<1> QED
  BY <1>1, Invariance, PTL

\* The steps a discover may still take.
Left(t) ==
    [start |-> Len(Types) + 5, open |-> Len(Types) + 4, browse |-> Cardinality(Unbrowsed) + 3,
     settled |-> 2, snapshot |-> 1, empty |-> 1, idle |-> 0][at[t]]

\* Each type lacks a browser or has one, now and after the step.
LEMMA PositionsShape ==
    ASSUME NEW S \in SUBSET (1 .. Len(Types))
    PROVE  IsFiniteSet(S) /\ Cardinality(S) \in 0 .. Len(Types)
<1>1. Len(Types) \in Nat
  BY TypesShape
<1>2. IsFiniteSet(1 .. Len(Types))
  BY <1>1, FS_Interval
<1>3. Cardinality(1 .. Len(Types)) = Len(Types)
  <2>1. Cardinality(1 .. Len(Types)) = IF 1 > Len(Types) THEN 0 ELSE Len(Types) - 1 + 1
    BY <1>1, FS_Interval
  <2> QED
    BY <1>1, <2>1
<1>4. IsFiniteSet(S) /\ Cardinality(S) <= Len(Types)
  BY <1>2, <1>3, FS_Subset
<1> QED
  BY <1>1, <1>4, FS_CardinalityType

LEMMA UnbrowsedShape ==
    /\ IsFiniteSet(Unbrowsed) /\ Cardinality(Unbrowsed) \in 0 .. Len(Types)
    /\ IsFiniteSet(Unbrowsed') /\ Cardinality(Unbrowsed') \in 0 .. Len(Types)
<1>1. Unbrowsed \in SUBSET (1 .. Len(Types)) /\ Unbrowsed' \in SUBSET (1 .. Len(Types))
  BY DEF Unbrowsed
<1> QED
  BY <1>1, PositionsShape

LEMMA OwnStepTells ==
    ASSUME ListenerInv, NEW t \in Threads, Discover(t) \/ Fail(t)
    PROVE  Left(t)' < Left(t)
<1>1. /\ at \in [Threads -> Places] /\ Len(Types) \in Nat
      /\ Cardinality(Unbrowsed) \in 0 .. Len(Types) /\ Cardinality(Unbrowsed') \in 0 .. Len(Types)
  BY TypesShape, UnbrowsedShape DEF ListenerInv, TypeOK, Places
<1>2. Left(t)' = [start |-> Len(Types) + 5, open |-> Len(Types) + 4,
                  browse |-> Cardinality(Unbrowsed') + 3,
                  settled |-> 2, snapshot |-> 1, empty |-> 1, idle |-> 0][at'[t]]
  BY DEF Left
<1>3. CASE Browse(t)
  <2>1. PICK k \in Unbrowsed : DOMAIN events' = Browsers \cup {<<opened, Types[k]>>}
    BY <1>3 DEF Browse
  <2>2. opened' = opened /\ at' = at /\ at[t] = "browse"
    BY <1>3 DEF Browse, startVars
  <2>3. Unbrowsed' \in SUBSET (Unbrowsed \ {k})
    BY <2>1, <2>2 DEF Unbrowsed, Browsers
  <2>4. IsFiniteSet(Unbrowsed \ {k}) /\ Cardinality(Unbrowsed \ {k}) = Cardinality(Unbrowsed) - 1
    BY UnbrowsedShape, FS_RemoveElement
  <2>5. Cardinality(Unbrowsed') <= Cardinality(Unbrowsed) - 1
    BY <2>3, <2>4, FS_Subset
  <2> QED
    BY <1>1, <1>2, <2>2, <2>5 DEF Left
<1>4. CASE Fail(t)
  BY <1>1, <1>2, <1>4 DEF Fail, FailAnd, Goto, Left
<1>5. CASE Locked(t)
  BY <1>1, <1>2, <1>5 DEF Locked, TakeLock, AfterStart, Goto, Left
<1>6. CASE NotInstalled(t) \/ Open(t)
  BY <1>1, <1>2, <1>6 DEF NotInstalled, Open, OpenWith, Goto, Left
<1>7. CASE Settle(t) \/ Available(t) \/ Return(t)
  BY <1>1, <1>2, <1>7 DEF Settle, Available, Return, Goto, Left
<1> QED
  BY <1>3, <1>4, <1>5, <1>6, <1>7 DEF Discover

LEMMA OthersStepTells ==
    ASSUME ListenerInv, [Next]_vars, NEW t \in Threads, at[t] # "idle", ~(Discover(t) \/ Fail(t))
    PROVE  Left(t)' <= Left(t)
<1>1. /\ at \in [Threads -> Places] /\ Len(Types) \in Nat
      /\ Cardinality(Unbrowsed) \in 0 .. Len(Types) /\ Cardinality(Unbrowsed') \in 0 .. Len(Types)
  BY TypesShape, UnbrowsedShape DEF ListenerInv, TypeOK, Places
<1>2. Left(t)' = [start |-> Len(Types) + 5, open |-> Len(Types) + 4,
                  browse |-> Cardinality(Unbrowsed') + 3,
                  settled |-> 2, snapshot |-> 1, empty |-> 1, idle |-> 0][at'[t]]
  BY DEF Left
<1>3. /\ at'[t] = at[t]
      /\ Browsers \subseteq Browsers'
      /\ at[t] = "browse" => opened' = opened
  <2>1. ASSUME NEW u \in Threads, Enter(u) \/ Discover(u) \/ Fail(u)
        PROVE  u # t /\ at'[t] = at[t] /\ Browsers \subseteq Browsers'
               /\ (at[t] = "browse" => opened' = opened)
    <3>1. u # t
      BY <2>1 DEF Enter
    <3>2. CASE Open(u)
      <4>1. at[t] # "browse"
        BY <3>1, <3>2 DEF Open, OpenWith, ListenerInv, Starting
      <4> QED
        BY <1>1, <3>1, <3>2, <4>1 DEF Open, OpenWith, Goto, browserVars, Browsers
    <3>3. CASE Browse(u)
      BY <3>1, <3>3 DEF Browse, startVars, Browsers
    <3>4. CASE Enter(u) \/ Locked(u) \/ NotInstalled(u) \/ Settle(u)
      BY <1>1, <3>1, <3>4 DEF Enter, Locked, TakeLock, NotInstalled, Settle, Goto, browserVars, Browsers
    <3>5. CASE Available(u) \/ Return(u) \/ Fail(u)
      BY <1>1, <3>1, <3>5 DEF Available, Return, Fail, FailAnd, Goto, browserVars, Browsers
    <3> QED
      BY <2>1, <3>1, <3>2, <3>3, <3>4, <3>5 DEF Discover
  <2>2. ASSUME NEW b \in Browsers, Callback(b) PROVE UNCHANGED startVars /\ Browsers \subseteq Browsers'
    BY <2>2 DEF Callback, Resolve, Put, RemoveService, RemoveIf, Browsers
  <2>3. ASSUME NEW s, NEW i, Change(s, i) PROVE UNCHANGED startVars /\ Browsers \subseteq Browsers'
    BY <2>3 DEF Change, Browsers
  <2>4. CASE UNCHANGED vars
    BY <2>4 DEF vars, startVars, browserVars, Browsers
  <2> QED
    BY <2>1, <2>2, <2>3, <2>4 DEF Next, startVars
<1>4. at[t] = "browse" => Cardinality(Unbrowsed') <= Cardinality(Unbrowsed)
  <2>1. at[t] = "browse" => Unbrowsed' \in SUBSET Unbrowsed
    BY <1>3 DEF Unbrowsed
  <2> QED
    BY <2>1, UnbrowsedShape, FS_Subset
<1> QED
  BY <1>1, <1>2, <1>3, <1>4 DEF Left, Places

\* A discover has at most Len(Types) + 5 steps to take, whatever the other threads, the
\* callbacks and the network do; what it waits for is the lock of one that has no more.
StepsTell ==
    [][\A t \in Threads :
          /\ Discover(t) \/ Fail(t) => Left(t)' < Left(t) /\ Left(t) <= Len(Types) + 5
          /\ at[t] # "idle" => Left(t)' <= Left(t) /\ Left(t)' >= 0]_vars

THEOREM EveryStepTells == Spec => StepsTell
<1> DEFINE A == \A t \in Threads :
                    /\ Discover(t) \/ Fail(t) => Left(t)' < Left(t) /\ Left(t) <= Len(Types) + 5
                    /\ at[t] # "idle" => Left(t)' <= Left(t) /\ Left(t)' >= 0
<1>1. ListenerInv => \A t \in Threads : Left(t) \in 0 .. Len(Types) + 5
  <2> SUFFICES ASSUME ListenerInv, NEW t \in Threads PROVE Left(t) \in 0 .. Len(Types) + 5
    OBVIOUS
  <2>1. at[t] \in Places /\ Len(Types) \in Nat /\ Cardinality(Unbrowsed) \in 0 .. Len(Types)
    BY TypesShape, UnbrowsedShape DEF ListenerInv, TypeOK, Places
  <2> QED
    BY <2>1 DEF Left, Places
<1>2. ListenerInv' => (\A t \in Threads : Left(t) \in 0 .. Len(Types) + 5)'
  BY <1>1, PTL
<1>3. ListenerInv /\ ListenerInv' /\ [Next]_vars => A
  <2> SUFFICES ASSUME ListenerInv, ListenerInv', [Next]_vars, NEW t \in Threads
               PROVE  /\ Discover(t) \/ Fail(t) => Left(t)' < Left(t) /\ Left(t) <= Len(Types) + 5
                      /\ at[t] # "idle" => Left(t)' <= Left(t) /\ Left(t)' >= 0
    OBVIOUS
  <2>1. Left(t) \in 0 .. Len(Types) + 5 /\ Left(t)' \in 0 .. Len(Types) + 5 /\ Len(Types) \in Nat
    BY <1>1, <1>2, TypesShape
  <2>2. Discover(t) \/ Fail(t) => Left(t)' < Left(t)
    BY OwnStepTells
  <2>3. at[t] # "idle" /\ ~(Discover(t) \/ Fail(t)) => Left(t)' <= Left(t)
    BY OthersStepTells
  <2> QED
    BY <2>1, <2>2, <2>3
<1> HIDE DEF A
<1>4. Spec => [][A]_vars
  BY <1>3, Invariance, PTL DEF Spec
<1> QED
  BY <1>4 DEF A, StepsTell
===============================================================================
