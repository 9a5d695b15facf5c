------------------------------- MODULE Registry -------------------------------
(***************************************************************************)
(* The registry (registry.py, Registry): threads that list or refresh the   *)
(* fleet share one cached roster and one time stamp, without a lock.  A     *)
(* refresh asks every source, drops repeated URLs, verifies what is left    *)
(* over the network, sorts, and writes the cache and then the stamp.        *)
(*                                                                         *)
(* The world (what the sources see and what cards the URLs serve) changes   *)
(* while sweeps are under way.  The clock is abstracted to whether the      *)
(* stamp is younger than the ttl: it may outlive it at any moment.          *)
(*                                                                         *)
(* get(name) is list() and a scan of what it returned, so a get is a list.  *)
(* Capability filters and descriptions are left out.                        *)
(***************************************************************************)
EXTENDS Sequences, Sorting, Urls

CONSTANTS
    Threads,           \* the threads that may be inside list or get
    Bases,             \* the normalized base URLs (of paths that differ in capitals, one)
    Names,             \* the names a card may carry that are strings
    OddName,           \* a card name that is no string
    Lower,             \* Lower[n]: the rank of n.lower()
    Sources,           \* the kinds of the sources, in the configured order
    Tokens,            \* auth_hosts: the fleet's tokens by host and port, or host
    DefaultToken,      \* auth_default, or NoAuth
    DropUnreachable,   \* drop_unreachable
    CacheLives,        \* ttl > 0
    World,             \* World[w]: what the network looks like in the world named w
    MaxDrifts          \* bound on how often the world changes

DISCOVERED_SOURCES == {"mdns", "tailnet"}

\* The labels a source puts on its refs, in order: the static source reads two lists.
Labels(s) == IF Sources[s] = "static" THEN <<"static", "static:a2a">> ELSE <<Sources[s]>>

CardNames == Names \cup {OddName}

\* AgentRef.  An rpc_url that is not known yet is NoUrl, an auth without token NoAuth.
Ref == {r \in [name : CardNames, url : Url, rpc : Url, auth : STRING,
                source : {"static", "static:a2a"} \cup DISCOVERED_SOURCES] :
           _norm_url(r.url) \in Bases}

\* Label a comes before label b, or they are the same, in the order of the sources.
Precedes(a, b) ==
    \E s, r \in 1 .. Len(Sources) :
        \E j \in 1 .. Len(Labels(s)), k \in 1 .. Len(Labels(r)) :
            /\ Labels(s)[j] = a /\ Labels(r)[k] = b
            /\ s < r \/ (s = r /\ j <= k)

\* What discover() of source s does (see Sources).  Its refs bear its labels, in order;
\* they have no rpc path yet, and only static ones have an auth of their own.
IsOffer(s, offer) ==
    /\ offer \in [raises : BOOLEAN, refs : Seq(Ref)]
    /\ \A k \in 1 .. Len(offer.refs) :
          LET ref == offer.refs[k] IN
          /\ ref.rpc = NoUrl
          /\ \E j \in 1 .. Len(Labels(s)) : ref.source = Labels(s)[j]
          /\ ref.source \in DISCOVERED_SOURCES => ref.auth = NoAuth
          /\ \A j \in 1 .. k : Precedes(offer.refs[j].source, ref.source)

Card == [kind : {"card"}, name : CardNames, url : Url, needs : STRING]

Worlds == DOMAIN World

\* A world: what each source offers, and the card at each base URL.  A "bad" card makes
\* verification raise; a "card" is served to whoever has the auth it needs.
IsWorld(w) ==
    /\ \A s \in 1 .. Len(Sources) : IsOffer(s, w.offer[s])
    /\ \A u \in Bases : w.card[u].kind \in {"none", "bad"} \/ w.card[u] \in Card

ASSUME RegistryAssumption ==
    /\ Sources \in Seq({"static"} \cup DISCOVERED_SOURCES)
    /\ Bases \subseteq Url
    /\ \A key \in DOMAIN Tokens : Tokens[key] \in STRING
    /\ DefaultToken \in STRING
    /\ OddName \notin Names
    /\ Lower \in [Names -> Nat]
    /\ DropUnreachable \in BOOLEAN /\ CacheLives \in BOOLEAN
    /\ \A w \in Worlds : IsWorld(World[w])
    /\ MaxDrifts \in Nat

VARIABLES
    world,      \* what the network looks like now
    drifts,     \* how often it has changed
    cache,      \* _cache
    stamp,      \* _fetched_at: "never", "fresh" or "stale"
    filled,     \* history: some refresh has written the cache
    job,        \* what each thread is in the middle of
    seen        \* history: the worlds that held during each thread's call

vars == <<world, drifts, cache, stamp, filled, job, seen>>
shared == <<cache, stamp, filled>>
nature == <<world, drifts>>

Idle == [pc |-> "idle"]

Init ==
    /\ world \in Worlds
    /\ drifts = 0
    /\ cache = <<>>
    /\ stamp = "never"
    /\ filled = FALSE
    /\ job = [t \in Threads |-> Idle]
    /\ seen = [t \in Threads |-> {}]

-------------------------------------------------------------------------------
(***************************************************************************)
(* What a refresh computes.                                                *)
(***************************************************************************)

\* Only discovered peers get a token from the resolver, and only without their own.
AuthFor(ref) ==
    IF ref.auth # NoAuth \/ ref.source \notin DISCOVERED_SOURCES
    THEN ref.auth
    ELSE resolve(ref.url, Tokens, DefaultToken)

\* fetch_card.
CardOf(ref, w) == World[w].card[_norm_url(ref.url)]
Served(ref, card) == card.kind # "none" /\ card.needs \in {NoAuth, AuthFor(ref)}

RpcIf(trusted, ref, card) ==
    IF card.url = NoUrl THEN ref.url
    ELSE IF trusted THEN card.url ELSE _reorigin(card.url, ref.url)

RpcFor_AnyPort(ref, card) == RpcIf(SameOrigin_AnyPort(card.url, ref.url), ref, card)  \* mutant

\* The card's URL is trusted if it has the origin that was reached.
RpcFor(ref, card) == RpcIf(_same_origin(card.url, ref.url), ref, card)

\* mutant: forgets the peers that serve no card
_verify_Unchecked(ref, w) ==
    IF CardOf(ref, w).kind = "bad" THEN <<>>
    ELSE <<[ref EXCEPT !.name = CardOf(ref, w).name, !.auth = AuthFor(ref)]>>

\* _verify, and the except around it: the verified ref, or nothing.
_verify(ref, w) ==
    LET card == CardOf(ref, w) IN
    IF ref.source \in DISCOVERED_SOURCES /\ ~Resolvable(ref.url) THEN <<>>
    ELSE IF ~Served(ref, card) THEN IF DropUnreachable THEN <<>> ELSE <<ref>>
    ELSE IF card.kind = "bad" THEN <<>>
    ELSE <<[ref EXCEPT !.name = card.name, !.rpc = RpcFor(ref, card), !.auth = AuthFor(ref)]>>

dedupe_None(refs) == 1 .. Len(refs)  \* mutant

\* mutant: the last offer of a URL wins
dedupe_Last(refs) ==
    {k \in 1 .. Len(refs) :
        \A j \in k + 1 .. Len(refs) : _norm_url(refs[j].url) # _norm_url(refs[k].url)}

\* The positions of the refs that are kept: they have a base URL, and no ref before them
\* has the same.
dedupe_by_url(refs) ==
    {k \in 1 .. Len(refs) :
        /\ _norm_url(refs[k].url) # NoUrl
        /\ \A j \in 1 .. k - 1 : _norm_url(refs[j].url) # _norm_url(refs[k].url)}

\* r.name.lower() raises on a name that is not a string.
Sortable(refs) == \A k \in 1 .. Len(refs) : refs[k].name \in Names

SortKeys(refs) == [k \in 1 .. Len(refs) |-> Lower[refs[k].name]]

-------------------------------------------------------------------------------
(***************************************************************************)
(* The calls.                                                              *)
(***************************************************************************)

\* The start of a sweep: no source asked yet.
Sweep(op) == [pc |-> IF Sources = <<>> THEN "verify" ELSE "ask", op |-> op,
              asked |-> 0, refs |-> <<>>, todo |-> {}, good |-> <<>>]

Go(t, j) == job' = [job EXCEPT ![t] = j]

\* list(refresh=True) does not look at the stamp.
Discover(t) ==
    /\ job[t] = Idle
    /\ Go(t, Sweep("discover"))
    /\ seen' = [seen EXCEPT ![t] = {world}]
    /\ UNCHANGED <<nature, shared>>

List(t) ==
    /\ job[t] = Idle
    /\ Go(t, [pc |-> "check", op |-> "list"])
    /\ seen' = [seen EXCEPT ![t] = {world}]
    /\ UNCHANGED <<nature, shared>>

Fresh_BeforeFirst == stamp # "stale"   \* mutant: forgets "is not None"
Fresh_Forever     == stamp # "never"   \* mutant: forgets the ttl
_fresh == stamp = "fresh"

Check(t) ==
    /\ job[t].pc = "check"
    /\ Go(t, IF _fresh THEN [pc |-> "read", op |-> "list"] ELSE Sweep("list"))
    /\ UNCHANGED <<nature, shared, seen>>

\* src.discover(): a source that raises contributes nothing and stops nobody.  The
\* answer of the last source completes the candidates, which are deduplicated.
Ask(t) ==
    /\ job[t].pc = "ask"
    /\ LET s    == job[t].asked + 1
           got  == World[world].offer[s]
           refs == IF got.raises THEN job[t].refs ELSE job[t].refs \o got.refs
       IN  Go(t, IF s < Len(Sources)
                 THEN [job[t] EXCEPT !.asked = s, !.refs = refs]
                 ELSE [job[t] EXCEPT !.asked = s, !.refs = refs, !.todo = dedupe_by_url(refs),
                                       !.pc = "verify"])
    /\ UNCHANGED <<nature, shared, seen>>

\* The next candidate is verified over the network, or dropped.
Verify(t) ==
    /\ job[t].pc = "verify"
    /\ \E k \in job[t].todo :
          /\ \A j \in job[t].todo : k <= j
          /\ Go(t, [job[t] EXCEPT !.todo = @ \ {k}, !.good = @ \o _verify(job[t].refs[k], world)])
    /\ UNCHANGED <<nature, shared, seen>>

\* The sort is outside every try: it ends the call and leaves cache and stamp alone.
SortRaises(t) ==
    /\ job[t].pc = "verify"
    /\ job[t].todo = {}
    /\ ~Sortable(job[t].good)
    /\ Go(t, [pc |-> "raised", op |-> job[t].op])
    /\ UNCHANGED <<nature, shared, seen>>

\* self._cache = verified, now sorted; the stamp comes in the next statement.
Publish(t) ==
    /\ job[t].pc = "verify"
    /\ job[t].todo = {}
    /\ Sortable(job[t].good)
    /\ \E p \in StableOrders(SortKeys(job[t].good)) : cache' = Rearranged(job[t].good, p)
    /\ filled' = TRUE
    /\ Go(t, [pc |-> "stamp", op |-> job[t].op])
    /\ UNCHANGED <<nature, stamp, seen>>

Stamp(t) ==
    /\ job[t].pc = "stamp"
    /\ stamp' = IF CacheLives THEN "fresh" ELSE "stale"
    /\ Go(t, [pc |-> "read", op |-> job[t].op])
    /\ UNCHANGED <<nature, cache, filled, seen>>

\* The call reads self._cache again, whoever wrote it last, and returns; or it
\* has raised.
Return(t) ==
    /\ job[t].pc \in {"read", "raised"}
    /\ Go(t, Idle)
    /\ seen' = [seen EXCEPT ![t] = {}]
    /\ UNCHANGED <<nature, shared>>

-------------------------------------------------------------------------------
\* The ttl runs out.
Expire ==
    /\ stamp = "fresh"
    /\ stamp' = "stale"
    /\ UNCHANGED <<nature, cache, filled, job, seen>>

\* Peers come, go and change their cards.
Drift ==
    /\ drifts < MaxDrifts
    /\ world' \in Worlds \ {world}
    /\ drifts' = drifts + 1
    /\ seen' = [t \in Threads |-> IF job[t] = Idle THEN {} ELSE seen[t] \cup {world'}]
    /\ UNCHANGED <<shared, job>>

Work(t) ==
    Check(t) \/ Ask(t) \/ Verify(t) \/ SortRaises(t) \/ Publish(t) \/ Stamp(t) \/ Return(t)

Next ==
    \/ \E t \in Threads : Discover(t) \/ List(t) \/ Work(t)
    \/ Expire
    \/ Drift

Spec == Init /\ [][Next]_vars

\* A call that has begun goes on to its end (every request has a timeout), and time
\* passes.  Nothing makes anybody call, and nothing makes the world change.
FairSpec ==
    /\ Spec
    /\ \A t \in Threads : WF_vars(Work(t))
    /\ WF_vars(Expire)

-------------------------------------------------------------------------------
(***************************************************************************)
(* Properties.                                                             *)
(***************************************************************************)

Ops == {"list", "discover"}

Job ==
    {Idle} \cup [pc : {"check", "stamp", "read", "raised"}, op : Ops]
    \cup [pc : {"ask", "verify"}, op : Ops, asked : 0 .. Len(Sources), refs : Seq(Ref),
          todo : SUBSET Nat, good : Seq(Ref)]

TypeOK ==
    /\ world \in Worlds
    /\ drifts \in 0 .. MaxDrifts
    /\ cache \in Seq(Ref)
    /\ stamp \in {"never", "fresh", "stale"}
    /\ filled \in BOOLEAN
    /\ job \in [Threads -> Job]
    /\ seen \in [Threads -> SUBSET Worlds]

\* "no two refs with the same normalized URL", sorted by name, and under one name
\* the peer of the source configured first comes first, which is the one get(name)
\* finds: true of whatever any interleaving of sweeps and drifting worlds publishes.
RosterSound ==
    \A j, k \in 1 .. Len(cache) : j < k =>
        /\ _norm_url(cache[j].url) # _norm_url(cache[k].url)
        /\ Lower[cache[j].name] <= Lower[cache[k].name]
        /\ cache[j].name = cache[k].name => Precedes(cache[j].source, cache[k].source)

\* Where a handler posts to: rpc_url or url.
Target(ref) == IF ref.rpc = NoUrl THEN ref.url ELSE ref.rpc

\* The auth some source brought along with the ref, whatever the world.
Brought(ref, auth) ==
    \E w \in Worlds : \E s \in 1 .. Len(Sources) : \E k \in 1 .. Len(World[w].offer[s].refs) :
        LET own == World[w].offer[s].refs[k] IN
        own.url = ref.url /\ own.source = ref.source /\ own.auth = auth

\* "send the bearer token to a different host" never happens: whatever URL a card
\* advertises and whatever sources offer the same peer, what a ref in the roster is
\* called at has the origin it was verified at, and the token sent there is the most
\* specific one for that very host and port.  "the fleet default token never leaks to a
\* static/third-party URL": a static peer has the auth of its own entry and no other.
TokensStayHome ==
    \A k \in 1 .. Len(cache) :
        LET ref == cache[k]
            to  == Target(ref)
        IN  /\ SameHost(to, ref.url) /\ to.port = ref.url.port
            /\ \/ ref.source \in DISCOVERED_SOURCES /\ Resolvable(to)
                  /\ ref.auth = resolve(to, Tokens, DefaultToken)
               \/ Brought(ref, ref.auth)

\* No call returns the roster of before the first refresh, however many threads
\* make their first call at once and whichever of them raises: list() refreshes if the
\* cache is not fresh.  a2a_fleet_list calls it as it is, and so sweeps the network,
\* though tools.py says that it will "show the cached fleet" with "no network call".
NeverUnfilled == \A t \in Threads : job[t].pc = "read" => filled

\* The roster of a world that stands still: for each URL the first offer of it, of
\* the sources that answer, provided its verification keeps it.
Offers(w) ==
    UNION {{s} \X (1 .. Len(World[w].offer[s].refs)) :
              s \in {s \in 1 .. Len(Sources) : ~World[w].offer[s].raises}}

Offered(w, o) == World[w].offer[o[1]].refs[o[2]]

Sooner(o, q) == o[1] < q[1] \/ (o[1] = q[1] /\ o[2] < q[2])

FirstOffers(w) ==
    {o \in Offers(w) :
        /\ _norm_url(Offered(w, o).url) # NoUrl
        /\ \A q \in Offers(w) :
              Sooner(q, o) => _norm_url(Offered(w, q).url) # _norm_url(Offered(w, o).url)}

Entries(refs) == {refs[k] : k \in 1 .. Len(refs)}

Roster(w) == UNION {Entries(_verify(Offered(w, o), w)) : o \in FirstOffers(w)}

\* Entry r is what verification in some world of the call makes of an offer of another.
Sighted(t, r) ==
    \E w, v \in seen[t] : \E o \in Offers(w) : r \in Entries(_verify(Offered(w, o), v))

\* However the world changed under its feet, whatever the other threads published
\* meanwhile: a sweep publishes nothing it has not seen itself during this very call,
\* and if the world stood still it publishes exactly the roster of that world.
PublishesWhatItSaw ==
    [][\A t \in Threads : Publish(t) =>
          /\ \A r \in Entries(cache') : Sighted(t, r)
          /\ seen[t] = {world} => Entries(cache') = Roster(world)]_vars

\* As long as the fleet is used, the roster comes to be that of the world once the
\* world stands still, and stays so: a source that fails, a peer that cannot be
\* verified and sweeps that overtake each other delay it and do not prevent it.  A
\* card whose name is no string does, though "one malformed peer (e.g. a bad card) must
\* not sink the refresh": the sort is outside the loop that drops such a peer.
Converges ==
    (\E t \in Threads : []<>(job[t].pc = "check")) =>
        <>[](Entries(cache) = Roster(world) \/ (\E r \in Roster(world) : r.name = OddName))

(***************************************************************************)
(* What the documentation says and the code does not do: checked to fail.  *)
(***************************************************************************)

\* tools.py: a2a_fleet_discover will "refresh discovery, list reachable A2A peers".
\* Every peer it lists served its card at some moment of the call.
DiscoverListsReachable ==
    \A t \in Threads :
        job[t].pc = "read" /\ job[t].op = "discover" =>
            \A k \in 1 .. Len(cache) :
                \E w \in seen[t] : CardOf(cache[k], w).kind = "card"
===============================================================================
