----------------------------- MODULE MdnsListener -----------------------------
(***************************************************************************)
(* The continuous mDNS listener (sources/mdns_source.py): threads that call *)
(* discover start one Zeroconf between them and snapshot the live set; the  *)
(* browsers' own threads keep that set up to date while services announce   *)
(* themselves, change and leave.                                           *)
(*                                                                         *)
(* Zeroconf is not in this repository.  It is modelled by how the code uses *)
(* it: a ServiceBrowser is a thread that first reports the services there   *)
(* are and then every change, one callback at a time and in order, while    *)
(* get_service_info answers for the moment it is called at, or not at all.  *)
(* Nothing in the program calls close.                                     *)
(***************************************************************************)
EXTENDS Naturals, Sequences, FiniteSets, SequencesExt

CONSTANTS
    Threads,      \* the threads that may be inside discover
    Services,     \* the service names that may appear
    Types,        \* _SERVICE_TYPES, in order
    AgentTypes,   \* the types that begin with _a2a
    TypeOf,       \* TypeOf[s]: the service type of s
    Label,        \* Label[s]: the first label of the name s
    Hosts,        \* the addresses a service may announce
    Data,         \* Data[s]: the data s may announce
    Present,      \* what the services announce to begin with, one way or another
    MaxChanges,   \* bound on the announcements, changes and goodbyes
    MaxFails      \* bound on the failures of Zeroconf() and ServiceBrowser()

NoOne   == "no one"
NoHost  == "no address"
NoPort  == 0
Gone    == [host |-> "gone"]
Nothing == [host |-> "no answer"]
NoRef   == [name |-> "no peer"]
Empty   == [service |-> "nothing", ref |-> NoRef]

\* Resolved service data: the first address, the port, and whether the TXT path
\* contains "agent".
Infos == [host : Hosts \cup {NoHost}, port : Nat, hint : BOOLEAN]
Announced == UNION {Data[s] : s \in Services}

\* mutant: data without an address will do
IsPeer_AnyHost(s, info) ==
    /\ info # Nothing
    /\ info.port # NoPort
    /\ TypeOf[s] \in AgentTypes \/ info.hint

\* An _a2a service always is a peer, an _http service only with the path hint.
IsPeer(s, info) ==
    /\ info # Nothing
    /\ info.host # NoHost
    /\ info.port # NoPort
    /\ TypeOf[s] \in AgentTypes \/ info.hint

_service_to_ref(s, info) ==
    IF IsPeer(s, info) THEN [name |-> Label[s], host |-> info.host, port |-> info.port] ELSE NoRef

AgentRefs == [name : {Label[s] : s \in Services}, host : Hosts, port : Nat]

ASSUME ListenerAssumption ==
    /\ IsFiniteSet(Services)
    /\ Types \in Seq(STRING) /\ Types # <<>>
    /\ AgentTypes \subseteq ToSet(Types)
    /\ TypeOf \in [Services -> ToSet(Types)]
    /\ \A s \in Services : Data[s] \subseteq Infos
    /\ Present \subseteq [Services -> Announced \cup {Gone}]
    /\ NoOne \notin Threads /\ NoHost \notin Hosts
    /\ MaxChanges \in Nat /\ MaxFails \in Nat

VARIABLES
    installed,  \* the zeroconf package can be imported
    started,    \* _started
    available,  \* _available
    lock,       \* the thread inside _start_lock, or NoOne
    at,         \* where each thread is in discover
    opened,     \* the number of Zeroconf objects made
    fails,      \* the number of starts that raised
    events,     \* events[b]: what browser b has to report still
    hand,       \* hand[b]: the resolved service b's callback is about to store, or Empty
    peers,      \* _peers
    net,        \* net[s]: the data s announces, or Gone
    changes,    \* how often net has changed
    life,       \* history: life[s], the peers s has announced since it last came
    missed      \* history: pairs <<b, s>>, b's last resolve of s got no answer

startVars   == <<installed, started, available, lock, at, opened, fails>>
browserVars == <<events, hand, peers, missed>>
netVars     == <<net, changes, life>>
vars == <<startVars, browserVars, netVars>>

\* A browser is named by its Zeroconf's number and its service type.
Browsers == DOMAIN events
BrowserOf(s) == {b \in Browsers : b[2] = TypeOf[s]}

\* The peers, one or none, that s describes by what it announces.
Described(s, info) == IF info = Gone THEN {} ELSE {_service_to_ref(s, info)} \ {NoRef}

Init ==
    /\ installed \in BOOLEAN
    /\ started = FALSE
    /\ available = FALSE
    /\ lock = NoOne
    /\ at = [t \in Threads |-> "idle"]
    /\ opened = 0
    /\ fails = 0
    /\ events = [b \in {} |-> <<>>]
    /\ hand = [b \in {} |-> Empty]
    /\ peers = [s \in {} |-> NoRef]
    /\ net \in Present
    /\ changes = 0
    /\ life = [s \in Services |-> Described(s, net[s])]
    /\ missed = {}

-------------------------------------------------------------------------------
(***************************************************************************)
(* discover, with the listener's start.                                    *)
(***************************************************************************)

Goto(t, place) == at' = [at EXCEPT ![t] = place]

\* start() has returned _available: discover snapshots, or returns an empty list.
AfterStart == IF available THEN "snapshot" ELSE "empty"

\* _get_listener has one listener for all.  The first test of _started takes no lock.
Enter(t) ==
    /\ at[t] = "idle"
    /\ Goto(t, IF started THEN AfterStart ELSE "start")
    /\ UNCHANGED <<installed, started, available, lock, opened, fails, browserVars, netVars>>

TakeLock(t, done) ==
    /\ at[t] = "start"
    /\ lock = NoOne
    /\ IF done
       THEN Goto(t, AfterStart) /\ UNCHANGED lock
       ELSE Goto(t, "open") /\ lock' = t
    /\ UNCHANGED <<installed, started, available, opened, fails, browserVars, netVars>>

Locked_NoSecondTest(t) == TakeLock(t, FALSE)  \* mutant
Locked(t) == TakeLock(t, started)

\* import zeroconf raises: mDNS is off for good.
NotInstalled(t) ==
    /\ at[t] = "open"
    /\ ~installed
    /\ started' = TRUE
    /\ available' = FALSE
    /\ lock' = NoOne
    /\ Goto(t, "empty")
    /\ UNCHANGED <<installed, opened, fails, browserVars, netVars>>

OpenWith(t, flag) ==
    /\ at[t] = "open"
    /\ installed
    /\ opened' = opened + 1
    /\ started' = flag /\ available' = flag
    /\ Goto(t, "browse")
    /\ UNCHANGED <<installed, lock, fails, browserVars, netVars>>

Open_Flags(t) == OpenWith(t, TRUE)  \* mutant: the flags are set too early
Open(t) == OpenWith(t, FALSE)

\* The positions of the types the newest Zeroconf has no browser for yet.
Unbrowsed == {k \in 1 .. Len(Types) : <<opened, Types[k]>> \notin Browsers}

\* Zeroconf() or ServiceBrowser() raises: so does discover.  The lock is released,
\* and what was opened stays open.
FailAnd(t, released) ==
    /\ at[t] \in {"open", "browse"}
    /\ installed
    /\ at[t] = "open" \/ Unbrowsed # {}
    /\ fails < MaxFails
    /\ fails' = fails + 1
    /\ lock' = released
    /\ Goto(t, "idle")
    /\ UNCHANGED <<installed, started, available, opened, browserVars, netVars>>

Fail_KeepsLock(t) == FailAnd(t, lock)  \* mutant
Fail(t) == FailAnd(t, NoOne)

\* ServiceBrowser(), for the next type: it reports what is there, in any order.
Browse(t) ==
    /\ at[t] = "browse"
    /\ \E k \in Unbrowsed :
          LET b == <<opened, Types[k]>>
              there == {s \in Services : TypeOf[s] = Types[k] /\ net[s] # Gone}
          IN
          /\ \A j \in Unbrowsed : k <= j
          /\ \E order \in SetToSeqs(there) :
                events' = [c \in Browsers \cup {b} |->
                              IF c = b
                              THEN [n \in 1 .. Len(order) |-> [kind |-> "add", service |-> order[n]]]
                              ELSE events[c]]
          /\ hand' = [c \in Browsers \cup {b} |-> IF c = b THEN Empty ELSE hand[c]]
    /\ UNCHANGED <<startVars, peers, missed, netVars>>

\* After a sleep, so that the first announcements are in, the two flags are set one
\* after the other, and start() is done.
Settle(t) ==
    /\ at[t] = "browse"
    /\ Unbrowsed = {}
    /\ started' = TRUE
    /\ Goto(t, "settled")
    /\ UNCHANGED <<installed, available, lock, opened, fails, browserVars, netVars>>

Available(t) ==
    /\ at[t] = "settled"
    /\ available' = TRUE
    /\ lock' = NoOne
    /\ Goto(t, "snapshot")
    /\ UNCHANGED <<installed, started, opened, fails, browserVars, netVars>>

\* discover returns: snapshot(), a copy of the live set under its lock, or nothing.
Return(t) ==
    /\ at[t] \in {"snapshot", "empty"}
    /\ Goto(t, "idle")
    /\ UNCHANGED <<installed, started, available, lock, opened, fails, browserVars, netVars>>

-------------------------------------------------------------------------------
(***************************************************************************)
(* The browsers' threads and their callbacks.                              *)
(***************************************************************************)

Due(b, kinds) == hand[b] = Empty /\ events[b] # <<>> /\ Head(events[b]).kind \in kinds

\* add_service, up to the lock: resolve the name over the network, and turn the data
\* into a ref.  update_service is the same.  Only what describes an A2A peer is kept.
Resolve(b, info) ==
    /\ Due(b, {"add", "update"})
    /\ LET s == Head(events[b]).service
           ref == _service_to_ref(s, info)
       IN
       /\ info = Nothing \/ (info = net[s] /\ info # Gone)
       /\ hand' = [hand EXCEPT ![b] = IF ref = NoRef THEN Empty ELSE [service |-> s, ref |-> ref]]
       /\ missed' = IF info = Nothing THEN missed \cup {<<b, s>>} ELSE missed \ {<<b, s>>}
    /\ events' = [events EXCEPT ![b] = Tail(@)]
    /\ UNCHANGED <<startVars, peers, netVars>>

Key_Label(s) == Label[s]  \* mutant: the display name as the key
Key(s) == s

Without(f, k) == [x \in DOMAIN f \ {k} |-> f[x]]

\* add_service, under the lock.
Put(b) ==
    /\ hand[b] # Empty
    /\ LET k == Key(hand[b].service) IN
       peers' = [x \in DOMAIN peers \cup {k} |-> IF x = k THEN hand[b].ref ELSE peers[x]]
    /\ hand' = [hand EXCEPT ![b] = Empty]
    /\ UNCHANGED <<startVars, events, missed, netVars>>

\* remove_service.
RemoveIf(b, sure) ==
    /\ Due(b, {"remove"})
    /\ LET s == Head(events[b]).service IN
       peers' = IF s \in sure THEN Without(peers, Key(s)) ELSE peers
    /\ events' = [events EXCEPT ![b] = Tail(@)]
    /\ UNCHANGED <<startVars, hand, missed, netVars>>

RemoveService_Resolves(b) == RemoveIf(b, {s \in Services : net[s] # Gone})  \* mutant: resolves it first
RemoveService(b) == RemoveIf(b, Services)

-------------------------------------------------------------------------------
(***************************************************************************)
(* The network.                                                            *)
(***************************************************************************)

\* Service s announces i, or changes to it, or says goodbye: its browsers report it.
Change(s, i) ==
    /\ changes < MaxChanges
    /\ i # net[s]
    /\ net' = [net EXCEPT ![s] = i]
    /\ changes' = changes + 1
    /\ life' = [life EXCEPT ![s] = IF i = Gone THEN {} ELSE @ \cup Described(s, i)]
    /\ LET kind == IF i = Gone THEN "remove" ELSE IF net[s] = Gone THEN "add" ELSE "update" IN
       events' = [b \in Browsers |->
                     IF b \in BrowserOf(s)
                     THEN Append(events[b], [kind |-> kind, service |-> s])
                     ELSE events[b]]
    /\ UNCHANGED <<startVars, hand, peers, missed>>

Discover(t) ==
    Locked(t) \/ NotInstalled(t) \/ Open(t) \/ Browse(t) \/ Settle(t) \/ Available(t) \/ Return(t)

Callback(b) ==
    \/ \E info \in Announced \cup {Nothing} : Resolve(b, info)
    \/ Put(b)
    \/ RemoveService(b)

Next ==
    \/ \E t \in Threads : Enter(t) \/ Discover(t) \/ Fail(t)
    \/ \E b \in Browsers : Callback(b)
    \/ \E s \in Services : \E i \in Data[s] \cup {Gone} : Change(s, i)

Spec == Init /\ [][Next]_vars

\* A thread inside discover goes on, and takes the lock if it stays free.  Nobody
\* has to call, and no start has to fail.
FairSpec == Spec /\ \A t \in Threads : WF_vars(Discover(t))

-------------------------------------------------------------------------------
(***************************************************************************)
(* Properties.                                                             *)
(***************************************************************************)

TypeOK ==
    /\ installed \in BOOLEAN /\ started \in BOOLEAN /\ available \in BOOLEAN
    /\ lock \in Threads \cup {NoOne}
    /\ at \in [Threads -> {"idle", "start", "open", "browse", "settled", "snapshot", "empty"}]
    /\ opened \in Nat /\ fails \in 0 .. MaxFails /\ changes \in 0 .. MaxChanges
    /\ Browsers \subseteq (1 .. opened) \X ToSet(Types)
    /\ DOMAIN hand = Browsers
    /\ \A b \in Browsers :
          /\ events[b] \in Seq([kind : {"add", "update", "remove"}, service : Services])
          /\ hand[b] # Empty => hand[b] \in [service : Services, ref : AgentRefs]
    /\ DOMAIN peers \subseteq Services
    /\ \A s \in DOMAIN peers : peers[s] \in AgentRefs
    /\ net \in [Services -> Announced \cup {Gone}]
    /\ life \in [Services -> SUBSET AgentRefs]
    /\ missed \subseteq Browsers \X Services

\* Every change has been reported and every callback is over.
CaughtUp == \A b \in Browsers : events[b] = <<>> /\ hand[b] = Empty

\* "a goodbye (remove_service) deletes exactly the entry an announce created": once
\* the browsers have caught up, every entry of the live set is a peer its service has
\* announced since it last came.  An entry may be out of date, since an update that no
\* longer describes a peer, or is not resolved, leaves it; but none outlives a goodbye,
\* also when the service left and came back while it was being resolved, or a failed
\* start has left a second browser behind that feeds the same set.
NoGhosts == CaughtUp => \A s \in DOMAIN peers : peers[s] \in life[s]

\* "a peer that joins is reflected in real time": once the browsers have all
\* caught up, every A2A service is in the live set with the data it announces
\* now, unless a last attempt to resolve it got no answer.
PeersAreCurrent ==
    CaughtUp =>
        \A s \in Services :
            Described(s, net[s]) # {} /\ BrowserOf(s) # {} =>
                \/ s \in DOMAIN peers /\ peers[s] \in Described(s, net[s])
                \/ \E b \in BrowserOf(s) : <<b, s>> \in missed

\* "never create two browsers on a concurrent first call": there is one Zeroconf,
\* and one more for each start that raised.
OneZeroconf == opened <= 1 + fails

\* A thread that start() told mDNS is available has all service types browsed, also
\* when another thread did the starting.
StartedMeansListening ==
    \A t \in Threads :
        at[t] = "snapshot" => \A k \in 1 .. Len(Types) : \E b \in Browsers : b[2] = Types[k]

\* Every discover returns or raises, whichever thread starts the listener and however
\* often that fails.
DiscoverReturns == \A t \in Threads : at[t] # "idle" ~> at[t] = "idle"

(***************************************************************************)
(* What the documentation says and the code does not do: checked to fail.  *)
(***************************************************************************)

\* "Idempotent + thread-safe. Returns True if mDNS is available": a discover that
\* returns an empty list without a look at the live set means that zeroconf is not
\* installed.
EmptyMeansUnavailable == \A t \in Threads : at[t] = "empty" => ~installed
===============================================================================
