----------------------------- MODULE RegistryProofs -----------------------------
(***************************************************************************)
(* Proofs about Registry, for every set of threads, any list of sources,    *)
(* all tokens, and every way the network may look and change.              *)
(***************************************************************************)
EXTENDS Registry, SortingProofs, Integers, SequenceTheorems, TLAPS

(***************************************************************************)
(* The inductive invariant.  Filled: a stamp is only set on a cache.        *)
(* Kept: the cache is a sound roster whose entries go home.  A sweep        *)
(* gathers refs as the sources offered them, in the sources' order; then    *)
(* no two of those still to be verified have the same URL, and what has     *)
(* been verified goes home, repeats no URL, not even one that is still to   *)
(* be verified, and is in the sources' order too.                          *)
(***************************************************************************)
AskJob ==
    [pc : {"ask", "verify"}, op : Ops, asked : 0 .. Len(Sources), refs : Seq(Ref),
     todo : SUBSET Nat, good : Seq(Ref)]

Sweeping(t) == job[t].pc \in {"ask", "verify"}

Filled ==
    /\ stamp = "fresh" => filled
    /\ \A t \in Threads : job[t].pc \in {"stamp", "read"} => filled

AsOffered(ref) ==
    /\ ref.rpc = NoUrl
    /\ ref.source \in DISCOVERED_SOURCES => ref.auth = NoAuth
    /\ Brought(ref, ref.auth)

\* What TokensStayHome says of an entry.
Home(ref) ==
    /\ SameHost(Target(ref), ref.url) /\ Target(ref).port = ref.url.port
    /\ \/ /\ ref.source \in DISCOVERED_SOURCES /\ Resolvable(Target(ref))
          /\ ref.auth = resolve(Target(ref), Tokens, DefaultToken)
       \/ Brought(ref, ref.auth)

Kept == RosterSound /\ \A k \in 1 .. Len(cache) : Home(cache[k])

\* The refs of the first sources.
Gathered(refs, asked) ==
    /\ \A k \in 1 .. Len(refs) :
          /\ AsOffered(refs[k])
          /\ \E s \in 1 .. asked : \E n \in 1 .. Len(Labels(s)) : refs[k].source = Labels(s)[n]
    /\ \A i, k \in 1 .. Len(refs) : i < k => Precedes(refs[i].source, refs[k].source)

\* Two refs as a roster has them, before it is sorted.
Apart(a, b) == _norm_url(a.url) # _norm_url(b.url) /\ Precedes(a.source, b.source)

Drafted(good) ==
    /\ \A k \in 1 .. Len(good) : Home(good[k])
    /\ \A i, k \in 1 .. Len(good) : i < k => Apart(good[i], good[k])

Swept(j) ==
    /\ j.pc = "ask" => j.asked < Len(Sources) /\ j.todo = {} /\ j.good = <<>>
    /\ Gathered(j.refs, j.asked)
    /\ Drafted(j.good)
    /\ j.todo \subseteq 1 .. Len(j.refs)
    /\ \A i, k \in j.todo : i # k => _norm_url(j.refs[i].url) # _norm_url(j.refs[k].url)
    /\ \A i \in 1 .. Len(j.good) : \A k \in j.todo : Apart(j.good[i], j.refs[k])

RegistryInv == TypeOK /\ Filled /\ Kept /\ \A t \in Threads : Sweeping(t) => Swept(job[t])

-------------------------------------------------------------------------------
(***************************************************************************)
(* URLs and refs.                                                          *)
(***************************************************************************)

\* Where a verified ref is called: at the host and port it was verified at.
LEMMA RpcStays ==
    ASSUME NEW ref \in Ref, NEW card \in Card
    PROVE  /\ RpcFor(ref, card) \in Url
           /\ RpcFor(ref, card) # NoUrl =>
                 SameHost(RpcFor(ref, card), ref.url) /\ RpcFor(ref, card).port = ref.url.port
<1>1. ref.url \in Url /\ card.url \in Url
  BY DEF Ref, Card
<1>2. CASE card.url = NoUrl
  BY <1>1, <1>2 DEF RpcFor, RpcIf, SameHost
<1>3. CASE card.url # NoUrl /\ _same_origin(card.url, ref.url)
  BY <1>1, <1>3 DEF RpcFor, RpcIf, _same_origin, SameHost
<1>4. CASE card.url # NoUrl /\ ~_same_origin(card.url, ref.url)
  <2>1. RpcFor(ref, card) = _reorigin(card.url, ref.url)
    BY <1>4 DEF RpcFor, RpcIf
  <2>2. CASE card.url.path = NoPath
    BY <1>1, <2>1, <2>2 DEF _reorigin, SameHost
  <2>3. CASE card.url.path # NoPath
    BY <1>1, <2>1, <2>3 DEF _reorigin, SameHost, Url
  <2> QED
    BY <2>2, <2>3
<1> QED
  BY <1>2, <1>3, <1>4

\* The resolver looks at nothing but the host and the port.
LEMMA SameToken ==
    ASSUME NEW a, NEW b, a.host = b.host, a.port = b.port, NEW tokens, NEW default
    PROVE  resolve(a, tokens, default) = resolve(b, tokens, default) /\ Resolvable(a) = Resolvable(b)
BY DEF resolve, _host_keys, Resolvable

\* A token is a string.
LEMMA TokenShape ==
    ASSUME NEW u
    PROVE  resolve(u, Tokens, DefaultToken) \in STRING
<1>1. /\ \A key \in DOMAIN Tokens : Tokens[key] \in STRING
      /\ DefaultToken \in STRING
  BY RegistryAssumption
<1> DEFINE known == _host_keys(u) \cap DOMAIN Tokens
<1>2. CASE <<u.host, u.port>> \in known
  BY <1>1, <1>2 DEF resolve
<1>3. CASE <<u.host, u.port>> \notin known /\ <<u.host>> \in known
  BY <1>1, <1>3 DEF resolve
<1>4. CASE <<u.host, u.port>> \notin known /\ <<u.host>> \notin known
  BY <1>1, <1>4 DEF resolve
<1> QED
  BY <1>2, <1>3, <1>4

\* What verification makes of a ref, and the fields of a ref.
Completed(ref, name, rpc, auth) == [ref EXCEPT !.name = name, !.rpc = rpc, !.auth = auth]

LEMMA RefFields ==
    ASSUME NEW ref \in Ref
    PROVE  /\ ref.name \in CardNames /\ ref.url \in Url /\ ref.rpc \in Url /\ ref.auth \in STRING
           /\ ref.source \in {"static", "static:a2a"} \cup DISCOVERED_SOURCES
           /\ _norm_url(ref.url) \in Bases
           /\ \A name \in CardNames : \A rpc \in Url : \A auth \in STRING :
                 /\ Completed(ref, name, rpc, auth) \in Ref
                 /\ Completed(ref, name, rpc, auth).url = ref.url
                 /\ Completed(ref, name, rpc, auth).source = ref.source
                 /\ Completed(ref, name, rpc, auth).rpc = rpc
                 /\ Completed(ref, name, rpc, auth).auth = auth
<1> DEFINE Fields == [name : CardNames, url : Url, rpc : Url, auth : STRING,
                      source : {"static", "static:a2a"} \cup DISCOVERED_SOURCES]
<1>1. ref \in Fields /\ _norm_url(ref.url) \in Bases
  BY DEF Ref
<1>2. ASSUME NEW name \in CardNames, NEW rpc \in Url, NEW auth \in STRING
      PROVE  /\ Completed(ref, name, rpc, auth) \in Ref
             /\ Completed(ref, name, rpc, auth).url = ref.url
             /\ Completed(ref, name, rpc, auth).source = ref.source
             /\ Completed(ref, name, rpc, auth).rpc = rpc
             /\ Completed(ref, name, rpc, auth).auth = auth
  <2> DEFINE v == Completed(ref, name, rpc, auth)
  <2>1. v \in Fields /\ v.url = ref.url /\ v.source = ref.source /\ v.rpc = rpc /\ v.auth = auth
    BY <1>1 DEF Completed
  <2> HIDE DEF v
  <2>2. v \in Ref
    BY <1>1, <2>1 DEF Ref
  <2> QED
    BY <2>1, <2>2 DEF v
<1> QED
  BY <1>1, <1>2

\* Verification keeps a ref, drops it, or completes it; what it makes of a ref that is
\* as a source offered it goes home.
LEMMA VerifyShape ==
    ASSUME NEW ref \in Ref, NEW w \in Worlds
    PROVE  \/ _verify(ref, w) = <<>>
           \/ \E v \in Ref : /\ _verify(ref, w) = <<v>>
                             /\ v.url = ref.url /\ v.source = ref.source
                             /\ AsOffered(ref) => Home(v)
<1> DEFINE card == CardOf(ref, w)
<1>1. card.kind \in {"none", "bad"} \/ card \in Card
  BY RegistryAssumption, RefFields DEF CardOf, IsWorld
<1>2. CASE _verify(ref, w) = <<ref>>
  <2>1. AsOffered(ref) => Home(ref)
    BY DEF AsOffered, Home, Target, SameHost
  <2> QED
    BY <1>2, <2>1
<1>3. CASE _verify(ref, w) # <<>> /\ _verify(ref, w) # <<ref>>
  <2>1. /\ Served(ref, card) /\ card.kind # "bad"
        /\ ref.source \in DISCOVERED_SOURCES => Resolvable(ref.url)
        /\ _verify(ref, w) =
              <<[ref EXCEPT !.name = card.name, !.rpc = RpcFor(ref, card), !.auth = AuthFor(ref)]>>
    BY <1>3 DEF _verify
  <2>2. card \in Card
    BY <1>1, <2>1 DEF Served
  <2>3. card.name \in CardNames /\ RpcFor(ref, card) \in Url
    BY <2>2, RpcStays DEF Card
  <2>4. AuthFor(ref) \in STRING
    BY RefFields, TokenShape DEF AuthFor
  <2> DEFINE v == Completed(ref, card.name, RpcFor(ref, card), AuthFor(ref))
  <2>5. /\ v \in Ref /\ v.url = ref.url /\ v.source = ref.source
        /\ v.rpc = RpcFor(ref, card) /\ v.auth = AuthFor(ref)
    <3>1. \A name \in CardNames : \A rpc \in Url : \A auth \in STRING :
             /\ Completed(ref, name, rpc, auth) \in Ref
             /\ Completed(ref, name, rpc, auth).url = ref.url
             /\ Completed(ref, name, rpc, auth).source = ref.source
             /\ Completed(ref, name, rpc, auth).rpc = rpc
             /\ Completed(ref, name, rpc, auth).auth = auth
      BY RefFields
    <3> QED
      BY <2>3, <2>4, <3>1
  <2>8. _verify(ref, w) = <<v>>
    BY <2>1 DEF Completed
  <2> HIDE DEF v, card
  <2>6. /\ SameHost(Target(v), ref.url) /\ Target(v).port = ref.url.port
    BY <2>2, <2>5, RpcStays DEF Target, SameHost
  <2>7. AsOffered(ref) => Home(v)
    <3>1. ASSUME AsOffered(ref), ref.source \in DISCOVERED_SOURCES
          PROVE  Resolvable(Target(v)) /\ v.auth = resolve(Target(v), Tokens, DefaultToken)
      <4>1. v.auth = resolve(ref.url, Tokens, DefaultToken)
        BY <2>5, <3>1 DEF AsOffered, AuthFor
      <4>2. Target(v).host = ref.url.host /\ Target(v).port = ref.url.port
        BY <2>6 DEF SameHost
      <4> QED
        BY <2>1, <3>1, <4>1, <4>2, SameToken
    <3>2. ASSUME AsOffered(ref), ref.source \notin DISCOVERED_SOURCES
          PROVE  Brought(v, v.auth)
      <4>1. v.auth = ref.auth
        BY <2>5, <3>2 DEF AuthFor
      <4> QED
        BY <2>5, <3>2, <4>1 DEF AsOffered, Brought
    <3> QED
      BY <2>5, <2>6, <3>1, <3>2 DEF Home
  <2> QED
    BY <2>5, <2>7, <2>8
<1> QED
  BY <1>2, <1>3

\* One more at the end of a list.
LEMMA OneMore ==
    ASSUME NEW S, NEW s \in Seq(S), NEW v \in S
    PROVE  /\ s \o <<v>> \in Seq(S)
           /\ Len(s) \in Nat /\ Len(s \o <<v>>) = Len(s) + 1
           /\ \A k \in 1 .. Len(s) : (s \o <<v>>)[k] = s[k]
           /\ (s \o <<v>>)[Len(s) + 1] = v
<1>1. <<v>> \in Seq(S) /\ Len(<<v>>) = 1 /\ <<v>>[1] = v /\ Len(s) \in Nat
  OBVIOUS
<1>2. /\ s \o <<v>> \in Seq(S)
      /\ Len(s \o <<v>>) = Len(s) + Len(<<v>>)
      /\ \A i \in 1 .. Len(s) + Len(<<v>>) :
            (s \o <<v>>)[i] = IF i <= Len(s) THEN s[i] ELSE <<v>>[i - Len(s)]
  BY <1>1, ConcatProperties
<1> QED
  BY <1>1, <1>2

\* What a source offers.
LEMMA OfferShape ==
    ASSUME NEW w \in Worlds, NEW s \in 1 .. Len(Sources)
    PROVE  LET refs == World[w].offer[s].refs IN
           /\ refs \in Seq(Ref)
           /\ \A k \in 1 .. Len(refs) :
                 /\ AsOffered(refs[k])
                 /\ \E n \in 1 .. Len(Labels(s)) : refs[k].source = Labels(s)[n]
                 /\ \A j \in 1 .. k : Precedes(refs[j].source, refs[k].source)
<1> DEFINE refs == World[w].offer[s].refs
<1>1. IsOffer(s, World[w].offer[s])
  BY RegistryAssumption DEF IsWorld
<1>2. refs \in Seq(Ref)
  BY <1>1 DEF IsOffer
<1>3. ASSUME NEW k \in 1 .. Len(refs)
      PROVE  /\ AsOffered(refs[k])
             /\ \E n \in 1 .. Len(Labels(s)) : refs[k].source = Labels(s)[n]
             /\ \A j \in 1 .. k : Precedes(refs[j].source, refs[k].source)
  <2>1. Brought(refs[k], refs[k].auth)
    BY DEF Brought
  <2> QED
    BY <1>1, <2>1 DEF IsOffer, AsOffered
<1> QED
  BY <1>2, <1>3

-------------------------------------------------------------------------------
(***************************************************************************)
(* What a sweep does to its lists.                                         *)
(***************************************************************************)

\* Labels of an earlier source come before those of a later one.
LEMMA LaterSource ==
    ASSUME NEW s \in 1 .. Len(Sources), NEW r \in 1 .. Len(Sources), s < r,
           NEW j \in 1 .. Len(Labels(s)), NEW k \in 1 .. Len(Labels(r))
    PROVE  Precedes(Labels(s)[j], Labels(r)[k])
BY DEF Precedes

\* Once the next source has answered, its refs are gathered with the others.
LEMMA Gathering ==
    ASSUME NEW w \in Worlds, NEW asked \in 0 .. Len(Sources), asked < Len(Sources),
           NEW refs \in Seq(Ref), Gathered(refs, asked)
    PROVE  LET got  == World[w].offer[asked + 1]
               more == IF got.raises THEN refs ELSE refs \o got.refs
           IN  more \in Seq(Ref) /\ Gathered(more, asked + 1)
<1> DEFINE got  == World[w].offer[asked + 1]
           new  == got.refs
           more == IF got.raises THEN refs ELSE refs \o new
<1>1. Len(Sources) \in Nat
  BY RegistryAssumption, LenProperties
<1>2. asked + 1 \in 1 .. Len(Sources) /\ 1 .. asked \subseteq 1 .. Len(Sources)
      /\ 1 .. asked \subseteq 1 .. asked + 1 /\ asked + 1 \in 1 .. asked + 1
  BY <1>1
<1>3. /\ new \in Seq(Ref)
      /\ \A k \in 1 .. Len(new) :
            /\ AsOffered(new[k])
            /\ \E n \in 1 .. Len(Labels(asked + 1)) : new[k].source = Labels(asked + 1)[n]
            /\ \A j \in 1 .. k : Precedes(new[j].source, new[k].source)
  BY <1>2, OfferShape
<1> HIDE DEF new
<1>4. CASE got.raises
  BY <1>2, <1>4 DEF Gathered
<1>5. CASE ~got.raises
  <2> DEFINE all == refs \o new
  <2>1. /\ Len(refs) \in Nat /\ Len(new) \in Nat
        /\ all \in Seq(Ref) /\ Len(all) = Len(refs) + Len(new)
        /\ \A i \in 1 .. Len(refs) + Len(new) :
              all[i] = IF i <= Len(refs) THEN refs[i] ELSE new[i - Len(refs)]
    BY <1>3, ConcatProperties, LenProperties
  <2> HIDE DEF all
  <2>2. ASSUME NEW k \in 1 .. Len(all)
        PROVE  \/ k \in 1 .. Len(refs) /\ all[k] = refs[k]
               \/ k - Len(refs) \in 1 .. Len(new) /\ all[k] = new[k - Len(refs)] /\ k > Len(refs)
    BY <2>1
  <2>3. ASSUME NEW k \in 1 .. Len(all)
        PROVE  /\ AsOffered(all[k])
               /\ \E s \in 1 .. asked + 1 : \E n \in 1 .. Len(Labels(s)) : all[k].source = Labels(s)[n]
    <3>1. CASE k \in 1 .. Len(refs) /\ all[k] = refs[k]
      BY <1>2, <3>1 DEF Gathered
    <3>2. CASE k - Len(refs) \in 1 .. Len(new) /\ all[k] = new[k - Len(refs)]
      <4>1. AsOffered(all[k]) /\ \E n \in 1 .. Len(Labels(asked + 1)) : all[k].source = Labels(asked + 1)[n]
        BY <1>3, <3>2
      <4> QED
        BY <1>2, <4>1
    <3> QED
      BY <2>2, <3>1, <3>2
  <2>4. ASSUME NEW i \in 1 .. Len(all), NEW k \in 1 .. Len(all), i < k
        PROVE  Precedes(all[i].source, all[k].source)
    <3>1. CASE k \in 1 .. Len(refs) /\ all[k] = refs[k]
      <4>1. i \in 1 .. Len(refs) /\ all[i] = refs[i]
        BY <2>1, <2>4, <3>1
      <4> QED
        BY <2>4, <3>1, <4>1 DEF Gathered
    <3>2. CASE /\ i \in 1 .. Len(refs) /\ all[i] = refs[i]
               /\ k - Len(refs) \in 1 .. Len(new) /\ all[k] = new[k - Len(refs)]
      <4>1. PICK s \in 1 .. asked : \E n \in 1 .. Len(Labels(s)) : all[i].source = Labels(s)[n]
        BY <3>2 DEF Gathered
      <4>2. \E n \in 1 .. Len(Labels(asked + 1)) : all[k].source = Labels(asked + 1)[n]
        BY <1>3, <3>2
      <4>3. s < asked + 1 /\ s \in 1 .. Len(Sources)
        BY <1>1, <1>2
      <4> QED
        BY <1>2, <4>1, <4>2, <4>3, LaterSource
    <3>3. CASE /\ i - Len(refs) \in 1 .. Len(new) /\ all[i] = new[i - Len(refs)]
               /\ k - Len(refs) \in 1 .. Len(new) /\ all[k] = new[k - Len(refs)]
      <4>1. i - Len(refs) \in 1 .. k - Len(refs)
        BY <2>1, <2>4, <3>3
      <4> QED
        BY <1>3, <3>3, <4>1
    <3> QED
      BY <2>2, <3>1, <3>2, <3>3
  <2>5. Gathered(all, asked + 1)
    BY <2>3, <2>4 DEF Gathered
  <2>6. more = all
    BY <1>5 DEF all
  <2> QED
    BY <2>1, <2>5, <2>6 DEF new
<1> QED
  BY <1>4, <1>5 DEF new

\* Deduplication leaves positions of different URLs.
LEMMA Deduplicated ==
    ASSUME NEW refs \in Seq(Ref)
    PROVE  /\ dedupe_by_url(refs) \subseteq 1 .. Len(refs)
           /\ \A i, k \in dedupe_by_url(refs) :
                 i # k => _norm_url(refs[i].url) # _norm_url(refs[k].url)
<1>1. Len(refs) \in Nat
  BY LenProperties
<1>2. ASSUME NEW i \in dedupe_by_url(refs), NEW k \in dedupe_by_url(refs), i < k
      PROVE  _norm_url(refs[i].url) # _norm_url(refs[k].url)
  <2>1. i \in 1 .. k - 1
    BY <1>1, <1>2 DEF dedupe_by_url
  <2> QED
    BY <2>1 DEF dedupe_by_url
<1>3. dedupe_by_url(refs) \subseteq 1 .. Len(refs)
  BY DEF dedupe_by_url
<1>4. \A i, k \in dedupe_by_url(refs) : i # k => i < k \/ k < i
  BY <1>1, <1>3
<1> QED
  BY <1>2, <1>3, <1>4

\* What has been verified and is sorted is a sound roster.
LEMMA Published ==
    ASSUME NEW good \in Seq(Ref), Sortable(good), Drafted(good),
           NEW p \in StableOrders(SortKeys(good))
    PROVE  LET c == Rearranged(good, p) IN
           /\ c \in Seq(Ref)
           /\ \A k \in 1 .. Len(c) : Home(c[k])
           /\ \A j, k \in 1 .. Len(c) : j < k =>
                 /\ _norm_url(c[j].url) # _norm_url(c[k].url)
                 /\ Lower[c[j].name] <= Lower[c[k].name]
                 /\ c[j].name = c[k].name => Precedes(c[j].source, c[k].source)
<1> DEFINE c == Rearranged(good, p)
           m == Len(good)
           keys == SortKeys(good)
<1>1. m \in Nat /\ \A k \in 1 .. m : good[k] \in Ref /\ good[k].name \in Names
  BY LenProperties, ElementOfSeq DEF Sortable
<1>2. \A n \in Names : Lower[n] \in Nat
  BY RegistryAssumption
<1>3. keys = [k \in 1 .. m |-> Lower[good[k].name]] /\ keys \in Seq(Nat) /\ Len(keys) = m
  BY <1>1, <1>2 DEF SortKeys
<1>4. /\ p \in [1 .. m -> 1 .. m]
      /\ \A j, k \in 1 .. m : j < k =>
            \/ keys[p[j]] < keys[p[k]]
            \/ keys[p[j]] = keys[p[k]] /\ p[j] < p[k]
  BY <1>3 DEF StableOrders, Permutes, Orders
<1>5. c = [k \in 1 .. m |-> good[p[k]]]
  BY DEF Rearranged
<1> HIDE DEF c, keys, m
<1>6. c \in Seq(Ref) /\ Len(c) = m
  BY <1>1, <1>4, <1>5
<1>7. \A k \in 1 .. m : p[k] \in 1 .. m /\ c[k] = good[p[k]]
  BY <1>4, <1>5
<1>8. \A k \in 1 .. m : Home(c[k])
  BY <1>7 DEF Drafted, m
<1>9. ASSUME NEW j \in 1 .. m, NEW k \in 1 .. m, j < k
      PROVE  /\ _norm_url(c[j].url) # _norm_url(c[k].url)
             /\ Lower[c[j].name] <= Lower[c[k].name]
             /\ c[j].name = c[k].name => Precedes(c[j].source, c[k].source)
  <2>1. /\ keys[p[j]] = Lower[c[j].name] /\ keys[p[k]] = Lower[c[k].name]
        /\ Lower[c[j].name] \in Nat /\ Lower[c[k].name] \in Nat
    BY <1>1, <1>2, <1>3, <1>7
  <2>2. /\ Lower[c[j].name] <= Lower[c[k].name]
        /\ p[j] # p[k]
        /\ c[j].name = c[k].name => p[j] < p[k]
    <3>1. p[j] \in Int /\ p[k] \in Int
      BY <1>1, <1>7
    <3>2. CASE keys[p[j]] < keys[p[k]]
      <4>1. Lower[c[j].name] < Lower[c[k].name]
        BY <2>1, <3>2
      <4>2. p[j] # p[k]
        BY <2>1, <3>2
      <4>3. c[j].name # c[k].name
        BY <2>1, <4>1
      <4> QED
        BY <2>1, <4>1, <4>2, <4>3
    <3>3. CASE keys[p[j]] = keys[p[k]] /\ p[j] < p[k]
      BY <2>1, <3>1, <3>3
    <3> QED
      BY <1>4, <1>9, <3>2, <3>3
  <2>3. /\ p[j] < p[k] => Apart(good[p[j]], good[p[k]])
        /\ p[k] < p[j] => Apart(good[p[k]], good[p[j]])
        /\ p[j] < p[k] \/ p[k] < p[j]
    BY <1>1, <1>7, <2>2 DEF Drafted, m
  <2> QED
    BY <1>7, <2>2, <2>3 DEF Apart
<1> QED
  BY <1>6, <1>8, <1>9 DEF c

\* A sweep starts with nothing.
LEMMA SweepShape ==
    ASSUME NEW op \in Ops
    PROVE  Sweep(op) \in Job /\ Swept(Sweep(op)) /\ Sweep(op).pc \in {"ask", "verify"}
<1>1. Len(Sources) \in Nat /\ (Sources # <<>> => 0 < Len(Sources))
  BY RegistryAssumption, LenProperties, EmptySeq
<1>2. /\ Sweep(op) \in AskJob
      /\ Sweep(op).asked = 0 /\ Sweep(op).refs = <<>> /\ Sweep(op).todo = {} /\ Sweep(op).good = <<>>
      /\ Sweep(op).pc = IF Sources = <<>> THEN "verify" ELSE "ask"
  BY <1>1 DEF Sweep, AskJob
<1>3. Gathered(<<>>, 0) /\ Drafted(<<>>)
  BY DEF Gathered, Drafted
<1>4. Swept(Sweep(op))
  BY <1>1, <1>2, <1>3 DEF Swept
<1> QED
  BY <1>2, <1>4 DEF Job, AskJob

\* A sweeping job is a record of lists.
LEMMA JobShape ==
    ASSUME TypeOK, NEW t \in Threads
    PROVE  job[t] \in Job /\ (Sweeping(t) => job[t] \in AskJob)
<1>1. job[t] \in Job
  BY DEF TypeOK
<1>2. Sweeping(t) => job[t] \in AskJob
  BY <1>1 DEF Sweeping, Job, AskJob, Idle
<1> QED
  BY <1>1, <1>2

\* The answer of the next source.
LEMMA AskStep ==
    ASSUME RegistryInv, NEW t \in Threads, Ask(t)
    PROVE  \E j \in Job : Go(t, j) /\ Swept(j) /\ j.pc \in {"ask", "verify"}
<1> DEFINE s    == job[t].asked + 1
           got  == World[world].offer[s]
           refs == IF got.raises THEN job[t].refs ELSE job[t].refs \o got.refs
           ask  == [job[t] EXCEPT !.asked = s, !.refs = refs]
           last == [job[t] EXCEPT !.asked = s, !.refs = refs, !.todo = dedupe_by_url(refs), !.pc = "verify"]
<1>1. job[t] \in AskJob /\ Swept(job[t]) /\ job[t].pc = "ask"
  BY JobShape DEF RegistryInv, Ask, Sweeping
<1>2. /\ world \in Worlds /\ job[t].asked \in 0 .. Len(Sources) /\ job[t].asked < Len(Sources)
      /\ job[t].refs \in Seq(Ref) /\ Gathered(job[t].refs, job[t].asked)
      /\ job[t].todo = {} /\ job[t].good = <<>>
  BY <1>1 DEF AskJob, Swept, RegistryInv, TypeOK
<1>3. refs \in Seq(Ref) /\ Gathered(refs, s)
  BY <1>2, Gathering
<1>4. s \in 0 .. Len(Sources) /\ Len(Sources) \in Nat
  BY <1>2, RegistryAssumption, LenProperties
<1> HIDE DEF refs, s
<1>5. /\ dedupe_by_url(refs) \subseteq 1 .. Len(refs)
      /\ \A i, k \in dedupe_by_url(refs) : i # k => _norm_url(refs[i].url) # _norm_url(refs[k].url)
      /\ dedupe_by_url(refs) \in SUBSET Nat
  BY <1>3, Deduplicated
<1>6. Drafted(<<>>)
  BY DEF Drafted
<1>7. CASE s < Len(Sources)
  <2>1. Go(t, ask)
    BY <1>7 DEF Ask, refs, s
  <2>2. /\ ask \in AskJob /\ ask.pc = "ask" /\ ask.asked = s /\ ask.refs = refs
        /\ ask.todo = {} /\ ask.good = <<>>
    BY <1>1, <1>2, <1>3, <1>4 DEF AskJob
  <2> HIDE DEF ask
  <2>3. Swept(ask)
    BY <1>3, <1>6, <1>7, <2>2 DEF Swept
  <2> QED
    BY <2>1, <2>2, <2>3 DEF Job, AskJob
<1>8. CASE ~(s < Len(Sources))
  <2>1. Go(t, last)
    BY <1>8 DEF Ask, refs, s
  <2>2. /\ last \in AskJob /\ last.pc = "verify" /\ last.asked = s /\ last.refs = refs
        /\ last.todo = dedupe_by_url(refs) /\ last.good = <<>>
    BY <1>1, <1>2, <1>3, <1>4, <1>5 DEF AskJob
  <2> HIDE DEF last
  <2>3. Swept(last)
    BY <1>3, <1>5, <1>6, <2>2 DEF Swept
  <2> QED
    BY <2>1, <2>2, <2>3 DEF Job, AskJob
<1> QED
  BY <1>7, <1>8

\* The verification of the next candidate.
LEMMA VerifyStep ==
    ASSUME RegistryInv, NEW t \in Threads, Verify(t)
    PROVE  \E j \in Job : Go(t, j) /\ Swept(j) /\ j.pc \in {"ask", "verify"}
<1>1. PICK k \in job[t].todo :
         /\ \A j \in job[t].todo : k <= j
         /\ Go(t, [job[t] EXCEPT !.todo = @ \ {k}, !.good = @ \o _verify(job[t].refs[k], world)])
  BY DEF Verify
<1> DEFINE old  == job[t]
           ref  == old.refs[k]
           good == old.good \o _verify(ref, world)
           new  == [old EXCEPT !.todo = @ \ {k}, !.good = @ \o _verify(ref, world)]
<1>2. old \in AskJob /\ Swept(old) /\ old.pc = "verify"
  BY JobShape DEF RegistryInv, Verify, Sweeping
<1> HIDE DEF old
<1>3. /\ world \in Worlds /\ old.refs \in Seq(Ref) /\ old.good \in Seq(Ref) /\ old.todo \subseteq Nat
      /\ old.todo \subseteq 1 .. Len(old.refs) /\ k \in old.todo
      /\ Gathered(old.refs, old.asked) /\ Drafted(old.good)
      /\ \A i, n \in old.todo : i # n => _norm_url(old.refs[i].url) # _norm_url(old.refs[n].url)
      /\ \A i \in 1 .. Len(old.good) : \A n \in old.todo : Apart(old.good[i], old.refs[n])
  BY <1>1, <1>2 DEF AskJob, Swept, RegistryInv, TypeOK, old
<1>4. ref \in Ref /\ AsOffered(ref)
  BY <1>3, ElementOfSeq DEF Gathered
<1>5. ASSUME NEW n \in old.todo \ {k} PROVE Apart(ref, old.refs[n])
  <2>1. k < n /\ k \in 1 .. Len(old.refs) /\ n \in 1 .. Len(old.refs)
    BY <1>1, <1>3 DEF old
  <2> QED
    BY <1>3, <2>1 DEF Apart, Gathered
<1> HIDE DEF ref
<1>6. /\ good \in Seq(Ref) /\ Drafted(good)
      /\ \A i \in 1 .. Len(good) : \A n \in old.todo \ {k} : Apart(good[i], old.refs[n])
  <2>1. CASE _verify(ref, world) = <<>>
    <3>1. good = old.good
      BY <1>3, <2>1, ConcatEmptySeq
    <3> QED
      BY <1>3, <3>1
  <2>2. CASE _verify(ref, world) # <<>>
    <3>1. PICK v \in Ref : /\ _verify(ref, world) = <<v>>
                           /\ v.url = ref.url /\ v.source = ref.source /\ Home(v)
      BY <1>3, <1>4, <2>2, VerifyShape
    <3>2. /\ good \in Seq(Ref)
          /\ Len(old.good) \in Nat /\ Len(good) = Len(old.good) + 1
          /\ \A i \in 1 .. Len(old.good) : good[i] = old.good[i]
          /\ good[Len(old.good) + 1] = v
      BY <1>3, <3>1, OneMore
    <3> HIDE DEF good
    <3>3. \A n \in old.todo \ {k} : Apart(v, old.refs[n])
      BY <1>5, <3>1 DEF Apart
    <3>4. \A i \in 1 .. Len(old.good) : Apart(old.good[i], v)
      BY <1>3, <3>1 DEF Apart, ref
    <3>5. ASSUME NEW i \in 1 .. Len(good)
          PROVE  \/ i \in 1 .. Len(old.good) /\ good[i] = old.good[i]
                 \/ i = Len(old.good) + 1 /\ good[i] = v
      BY <3>2
    <3>6. \A i \in 1 .. Len(good) : Home(good[i])
      BY <1>3, <3>1, <3>5 DEF Drafted
    <3>7. ASSUME NEW i \in 1 .. Len(good), NEW n \in 1 .. Len(good), i < n
          PROVE  Apart(good[i], good[n])
      <4>1. i \in 1 .. Len(old.good) /\ good[i] = old.good[i]
        BY <3>2, <3>5, <3>7
      <4> QED
        BY <1>3, <3>4, <3>5, <3>7, <4>1 DEF Drafted
    <3>8. \A i \in 1 .. Len(good) : \A n \in old.todo \ {k} : Apart(good[i], old.refs[n])
      BY <1>3, <3>3, <3>5
    <3> QED
      BY <3>2, <3>6, <3>7, <3>8 DEF Drafted
  <2> QED
    BY <2>1, <2>2
<1>7. /\ new \in AskJob /\ new.pc = "verify" /\ new.asked = old.asked /\ new.refs = old.refs
      /\ new.todo = old.todo \ {k} /\ new.good = good
  BY <1>2, <1>3, <1>6 DEF AskJob
<1>8. Go(t, new)
  BY <1>1 DEF old, ref
<1> HIDE DEF new, good
<1>9. Swept(new)
  BY <1>3, <1>6, <1>7 DEF Swept
<1> QED
  BY <1>7, <1>8, <1>9 DEF Job, AskJob

-------------------------------------------------------------------------------
(***************************************************************************)
(* The invariant.                                                          *)
(***************************************************************************)

\* What a thread goes on with is its own; the other threads stay where they are.
LEMMA OnlyThatJob ==
    ASSUME RegistryInv, NEW t \in Threads, NEW j \in Job, Go(t, j),
           j.pc \in {"ask", "verify"} => Swept(j),
           filled => filled', j.pc \in {"stamp", "read"} => filled'
    PROVE  /\ job' \in [Threads -> Job]
           /\ \A u \in Threads : Sweeping(u)' => Swept(job'[u])
           /\ \A u \in Threads : job'[u].pc \in {"stamp", "read"} => filled'
<1>1. job \in [Threads -> Job]
  BY DEF RegistryInv, TypeOK
<1>2. job'[t] = j /\ \A u \in Threads \ {t} : job'[u] = job[u]
  BY <1>1 DEF Go
<1>3. job' \in [Threads -> Job]
  BY <1>1 DEF Go
<1> QED
  BY <1>2, <1>3 DEF RegistryInv, Filled, Sweeping

\* A job that does not sweep.
LEMMA PlainJob ==
    ASSUME NEW pc \in {"check", "stamp", "read", "raised"}, NEW op \in Ops
    PROVE  /\ [pc |-> pc, op |-> op] \in Job
           /\ [pc |-> pc, op |-> op].pc = pc /\ [pc |-> pc, op |-> op].op = op
BY DEF Job

\* Every step keeps the invariant.
LEMMA RegistryStep ==
    ASSUME RegistryInv, [Next]_vars
    PROVE  RegistryInv'
<1> USE DEF nature, shared
<1>0. /\ world \in Worlds /\ drifts \in 0 .. MaxDrifts /\ MaxDrifts \in Nat /\ cache \in Seq(Ref)
      /\ stamp \in {"never", "fresh", "stale"} /\ filled \in BOOLEAN
      /\ job \in [Threads -> Job] /\ seen \in [Threads -> SUBSET Worlds]
      /\ stamp = "fresh" => filled
      /\ Kept
      /\ \A u \in Threads : Sweeping(u) => Swept(job[u])
      /\ \A u \in Threads : job[u].pc \in {"stamp", "read"} => filled
  BY RegistryAssumption DEF RegistryInv, TypeOK, Filled
<1>1. ASSUME NEW t \in Threads, NEW j \in Job, Go(t, j), j.pc \in {"ask", "verify"} => Swept(j),
             j.pc \in {"stamp", "read"} => filled,
             UNCHANGED <<nature, shared>>, seen' \in [Threads -> SUBSET Worlds]
      PROVE  RegistryInv'
  <2>1. /\ job' \in [Threads -> Job]
        /\ \A u \in Threads : Sweeping(u)' => Swept(job'[u])
        /\ \A u \in Threads : job'[u].pc \in {"stamp", "read"} => filled'
    BY <1>1, OnlyThatJob
  <2>2. Kept'
    BY <1>0, <1>1 DEF Kept, RosterSound
  <2> QED
    BY <1>0, <1>1, <2>1, <2>2 DEF RegistryInv, TypeOK, Filled
<1>2. ASSUME NEW t \in Threads, Discover(t) \/ List(t) PROVE RegistryInv'
  <2>1. seen' \in [Threads -> SUBSET Worlds] /\ UNCHANGED <<nature, shared>>
    BY <1>0, <1>2 DEF Discover, List
  <2>2. \E j \in Job : Go(t, j) /\ (j.pc \in {"ask", "verify"} => Swept(j)) /\ j.pc \notin {"stamp", "read"}
    <3>1. CASE Discover(t)
      BY <3>1, SweepShape DEF Discover, Ops
    <3>2. CASE List(t)
      BY <3>2, PlainJob DEF List, Ops
    <3> QED
      BY <1>2, <3>1, <3>2
  <2> QED
    BY <1>1, <2>1, <2>2
<1>3. ASSUME NEW t \in Threads, Check(t) PROVE RegistryInv'
  <2>1. UNCHANGED <<nature, shared, seen>>
    BY <1>3 DEF Check
  <2>2. CASE _fresh
    <3>1. Go(t, [pc |-> "read", op |-> "list"]) /\ filled
      BY <1>0, <1>3, <2>2 DEF Check, _fresh
    <3> QED
      BY <1>0, <1>1, <2>1, <3>1, PlainJob DEF Ops
  <2>3. CASE ~_fresh
    <3>1. Go(t, Sweep("list"))
      BY <1>3, <2>3 DEF Check
    <3> QED
      BY <1>0, <1>1, <2>1, <3>1, SweepShape DEF Ops
  <2> QED
    BY <2>2, <2>3
<1>4. ASSUME NEW t \in Threads, Ask(t) \/ Verify(t) PROVE RegistryInv'
  <2>1. UNCHANGED <<nature, shared, seen>>
    BY <1>4 DEF Ask, Verify
  <2>2. PICK j \in Job : Go(t, j) /\ Swept(j) /\ j.pc \in {"ask", "verify"}
    BY <1>4, AskStep, VerifyStep
  <2> QED
    BY <1>0, <1>1, <2>1, <2>2
<1>5. ASSUME NEW t \in Threads, SortRaises(t) PROVE RegistryInv'
  <2>1. Go(t, [pc |-> "raised", op |-> job[t].op]) /\ UNCHANGED <<nature, shared, seen>>
        /\ job[t].op \in Ops
    BY <1>5, JobShape DEF SortRaises, Sweeping, AskJob, RegistryInv
  <2> QED
    BY <1>0, <1>1, <2>1, PlainJob
<1>6. ASSUME NEW t \in Threads, Publish(t) PROVE RegistryInv'
  <2> DEFINE j == [pc |-> "stamp", op |-> job[t].op]
             good == job[t].good
  <2>1. job[t] \in AskJob /\ Swept(job[t])
    BY <1>6, JobShape DEF Publish, Sweeping, RegistryInv
  <2>2. PICK p \in StableOrders(SortKeys(good)) : cache' = Rearranged(good, p)
    BY <1>6 DEF Publish
  <2>3. good \in Seq(Ref) /\ Drafted(good) /\ Sortable(good) /\ job[t].op \in Ops
    BY <1>6, <2>1 DEF AskJob, Swept, Publish
  <2>4. Go(t, j) /\ filled' = TRUE /\ UNCHANGED <<nature, stamp, seen>>
    BY <1>6 DEF Publish
  <2> HIDE DEF good
  <2>5. cache' \in Seq(Ref) /\ Kept'
    BY <2>2, <2>3, Published DEF Kept, RosterSound
  <2>6. /\ job' \in [Threads -> Job]
        /\ \A u \in Threads : Sweeping(u)' => Swept(job'[u])
    BY <2>3, <2>4, OnlyThatJob, PlainJob
  <2> QED
    BY <1>0, <2>4, <2>5, <2>6 DEF RegistryInv, TypeOK, Filled
<1>7. ASSUME NEW t \in Threads, Stamp(t) PROVE RegistryInv'
  <2> DEFINE j == [pc |-> "read", op |-> job[t].op]
  <2>1. job[t].op \in Ops /\ filled
    BY <1>0, <1>7 DEF Stamp, Job, Idle
  <2>2. Go(t, j) /\ UNCHANGED <<nature, cache, filled, seen>> /\ stamp' \in {"fresh", "stale"}
    BY <1>7 DEF Stamp
  <2>3. /\ job' \in [Threads -> Job]
        /\ \A u \in Threads : Sweeping(u)' => Swept(job'[u])
    BY <2>1, <2>2, OnlyThatJob, PlainJob
  <2>4. Kept'
    BY <1>0, <2>2 DEF Kept, RosterSound
  <2> QED
    BY <1>0, <2>1, <2>2, <2>3, <2>4 DEF RegistryInv, TypeOK, Filled
<1>8. ASSUME NEW t \in Threads, Return(t) PROVE RegistryInv'
  <2>1. Idle \in Job /\ Idle.pc = "idle"
    BY DEF Idle, Job
  <2>2. Go(t, Idle) /\ UNCHANGED <<nature, shared>> /\ seen' \in [Threads -> SUBSET Worlds]
    BY <1>0, <1>8 DEF Return
  <2> QED
    BY <1>1, <2>1, <2>2
<1>9. ASSUME Expire PROVE RegistryInv'
  <2>1. stamp' = "stale" /\ UNCHANGED <<nature, cache, filled, job, seen>>
    BY <1>9 DEF Expire
  <2>2. Kept' /\ \A u \in Threads : Sweeping(u)' => Swept(job'[u])
    BY <1>0, <2>1 DEF Kept, RosterSound, Sweeping
  <2> QED
    BY <1>0, <2>1, <2>2 DEF RegistryInv, TypeOK, Filled
<1>10. ASSUME Drift PROVE RegistryInv'
  <2>1. /\ world' \in Worlds /\ drifts' \in 0 .. MaxDrifts /\ UNCHANGED <<shared, job>>
        /\ seen' \in [Threads -> SUBSET Worlds]
    BY <1>0, <1>10 DEF Drift
  <2>2. Kept' /\ \A u \in Threads : Sweeping(u)' => Swept(job'[u])
    BY <1>0, <2>1 DEF Kept, RosterSound, Sweeping
  <2> QED
    BY <1>0, <2>1, <2>2 DEF RegistryInv, TypeOK, Filled
<1>11. CASE UNCHANGED vars
  <2>1. Kept' /\ \A u \in Threads : Sweeping(u)' => Swept(job'[u])
    BY <1>0, <1>11 DEF vars, Kept, RosterSound, Sweeping
  <2> QED
    BY <1>0, <1>11, <2>1 DEF vars, RegistryInv, TypeOK, Filled
<1> QED
  BY <1>2, <1>3, <1>4, <1>5, <1>6, <1>7, <1>8, <1>9, <1>10, <1>11 DEF Next, Work

-------------------------------------------------------------------------------
(***************************************************************************)
(* The theorems.                                                           *)
(***************************************************************************)

\* Before the first call there is nothing.
LEMMA Initially == Init => RegistryInv
<1> SUFFICES ASSUME Init PROVE RegistryInv
  OBVIOUS
<1>1. /\ world \in Worlds /\ drifts = 0 /\ cache = <<>> /\ stamp = "never" /\ filled = FALSE
      /\ job = [t \in Threads |-> Idle] /\ seen = [t \in Threads |-> {}]
  BY DEF Init
<1>2. Idle \in Job /\ Idle.pc = "idle"
  BY DEF Idle, Job
<1>3. TypeOK
  <2>1. drifts \in 0 .. MaxDrifts
    BY <1>1, RegistryAssumption
  <2>2. world \in Worlds
    BY <1>1
  <2>3. cache \in Seq(Ref)
    BY <1>1
  <2>4. filled \in BOOLEAN
    BY <1>1
  <2>5. stamp \in {"never", "fresh", "stale"}
    BY <1>1
  <2>6. job \in [Threads -> Job]
    BY <1>1, <1>2
  <2>7. seen \in [Threads -> SUBSET Worlds]
    BY <1>1
  <2> QED
    BY <2>1, <2>2, <2>3, <2>4, <2>5, <2>6, <2>7 DEF TypeOK
<1>4. Filled /\ \A t \in Threads : ~Sweeping(t)
  BY <1>1, <1>2 DEF Filled, Sweeping
<1>5. Kept
  BY <1>1 DEF Kept, RosterSound
<1> QED
  BY <1>3, <1>4, <1>5 DEF RegistryInv

\* Every reachable state satisfies the inductive invariant.
THEOREM Invariance == Spec => []RegistryInv
BY Initially, RegistryStep, PTL DEF Spec

\* Types: in particular, every entry has a base URL that was reached.
THEOREM TypeCorrect == Spec => []TypeOK
<1>1. RegistryInv => TypeOK
  BY DEF RegistryInv
<1> QED
  BY <1>1, Invariance, PTL

\* However sweeps and changes of the network interleave, the roster has each URL once,
\* sorted by name, and the first source's peer first under a name.
THEOREM RosterIsSound == Spec => []RosterSound
<1>1. RegistryInv => RosterSound
  BY DEF RegistryInv, Kept
<1> QED
  BY <1>1, Invariance, PTL

\* Whatever the cards advertise, a peer is called at the origin it was verified at, with
\* the token of that host and port, or the auth its own entry brought.
THEOREM TokensAtHome == Spec => []TokensStayHome
<1>1. RegistryInv => TokensStayHome
  BY DEF RegistryInv, Kept, Home, TokensStayHome
<1> QED
  BY <1>1, Invariance, PTL

\* No call returns before some refresh has filled the cache.
THEOREM FilledFirst == Spec => []NeverUnfilled
<1>1. RegistryInv => NeverUnfilled
  BY DEF RegistryInv, Filled, NeverUnfilled
<1> QED
  BY <1>1, Invariance, PTL

-------------------------------------------------------------------------------
(***************************************************************************)
(* What a sweep publishes.  Its invariant: the refs gathered were all       *)
(* offered, and the verified ones verified, in worlds of the call.  While   *)
(* the world stands still the refs are the offers of the sources asked so   *)
(* far, one by one and in their order, and the verified ones are what that  *)
(* world makes of the first offers that are no longer to be verified.       *)
(***************************************************************************)

OffersOf(w, asked) == {o \in Offers(w) : o[1] <= asked}

Lists(refs, asked, w) ==
    \E f \in [1 .. Len(refs) -> OffersOf(w, asked)] :
        /\ \A k \in 1 .. Len(refs) : refs[k] = Offered(w, f[k])
        /\ \A i, k \in 1 .. Len(refs) : i < k => Sooner(f[i], f[k])
        /\ \A o \in OffersOf(w, asked) : \E k \in 1 .. Len(refs) : f[k] = o

\* What the world w makes of the refs at some positions.
Made(refs, positions, w) == UNION {Entries(_verify(refs[k], w)) : k \in positions}

Exact(j, w) ==
    /\ Lists(j.refs, j.asked, w)
    /\ j.pc = "verify" =>
          /\ j.asked = Len(Sources)
          /\ j.todo \subseteq dedupe_by_url(j.refs)
          /\ Entries(j.good) = Made(j.refs, dedupe_by_url(j.refs) \ j.todo, w)

WasOffered(S, ref) == \E w \in S : \E o \in Offers(w) : ref = Offered(w, o)

WasMade(S, ref) == \E w, v \in S : \E o \in Offers(w) : ref \in Entries(_verify(Offered(w, o), v))

Saw(j, S, w) ==
    /\ \A k \in 1 .. Len(j.refs) : WasOffered(S, j.refs[k])
    /\ \A ref \in Entries(j.good) : WasMade(S, ref)
    /\ S = {w} => Exact(j, w)

SightInv ==
    \A t \in Threads : job[t] # Idle =>
        world \in seen[t] /\ (Sweeping(t) => Saw(job[t], seen[t], world))

\* An offer is a source that answers and a position in its answer.
LEMMA OfferPair ==
    ASSUME NEW w \in Worlds, NEW o \in Offers(w)
    PROVE  /\ o[1] \in 1 .. Len(Sources) /\ o[1] \in Nat
           /\ ~World[w].offer[o[1]].raises
           /\ o[2] \in 1 .. Len(World[w].offer[o[1]].refs) /\ o[2] \in Nat
           /\ o = <<o[1], o[2]>>
           /\ Offered(w, o) \in Ref
<1>1. PICK s \in 1 .. Len(Sources) :
         ~World[w].offer[s].raises /\ o \in {s} \X (1 .. Len(World[w].offer[s].refs))
  BY DEF Offers
<1>2. o[1] = s /\ o[2] \in 1 .. Len(World[w].offer[s].refs) /\ o = <<o[1], o[2]>>
  BY <1>1
<1>3. World[w].offer[s].refs \in Seq(Ref)
  BY OfferShape
<1> QED
  BY <1>1, <1>2, <1>3, ElementOfSeq DEF Offered

LEMMA PairOffer ==
    ASSUME NEW w \in Worlds, NEW s \in 1 .. Len(Sources), ~World[w].offer[s].raises,
           NEW k \in 1 .. Len(World[w].offer[s].refs)
    PROVE  <<s, k>> \in Offers(w) /\ Offered(w, <<s, k>>) = World[w].offer[s].refs[k]
BY DEF Offers, Offered

\* Of two offers one is sooner, and no offer is sooner than itself.
LEMMA SoonerOrder ==
    ASSUME NEW w \in Worlds, NEW o \in Offers(w), NEW q \in Offers(w)
    PROVE  ~(Sooner(o, q) /\ Sooner(q, o)) /\ ~Sooner(o, o)
BY OfferPair DEF Sooner

\* The entries of two lists put together.
LEMMA AllEntries ==
    ASSUME NEW S, NEW a \in Seq(S), NEW b \in Seq(S)
    PROVE  Entries(a \o b) = Entries(a) \cup Entries(b)
<1>1. /\ Len(a) \in Nat /\ Len(b) \in Nat
      /\ Len(a \o b) = Len(a) + Len(b)
      /\ \A i \in 1 .. Len(a) + Len(b) :
            (a \o b)[i] = IF i <= Len(a) THEN a[i] ELSE b[i - Len(a)]
  BY ConcatProperties, LenProperties
<1> DEFINE c == a \o b
<1> HIDE DEF c
<1>2. /\ Len(c) = Len(a) + Len(b)
      /\ \A i \in 1 .. Len(a) : c[i] = a[i]
      /\ \A i \in 1 .. Len(b) : i + Len(a) \in 1 .. Len(c) /\ c[i + Len(a)] = b[i]
      /\ \A i \in 1 .. Len(c) : i \in 1 .. Len(a) \/ (i - Len(a) \in 1 .. Len(b) /\ c[i] = b[i - Len(a)])
  BY <1>1 DEF c
<1>3. ASSUME NEW e \in Entries(c) PROVE e \in Entries(a) \cup Entries(b)
  BY <1>2 DEF Entries
<1>4. ASSUME NEW e \in Entries(a) PROVE e \in Entries(c)
  <2>1. \A i \in 1 .. Len(a) : i \in 1 .. Len(c)
    BY <1>1, <1>2
  <2> QED
    BY <1>2, <2>1 DEF Entries
<1>5. ASSUME NEW e \in Entries(b) PROVE e \in Entries(c)
  <2>1. PICK i \in 1 .. Len(b) : e = b[i]
    BY DEF Entries
  <2> QED
    BY <1>2, <2>1 DEF Entries
<1> QED
  BY <1>3, <1>4, <1>5 DEF c

\* Sorting changes no entry.
LEMMA SameEntries ==
    ASSUME NEW good \in Seq(Ref), NEW p \in StableOrders(SortKeys(good))
    PROVE  Entries(Rearranged(good, p)) = Entries(good)
<1> DEFINE m == Len(good)
           c == Rearranged(good, p)
<1>1. m \in Nat /\ Len(SortKeys(good)) = m
  BY LenProperties DEF SortKeys
<1>2. /\ p \in [1 .. m -> 1 .. m]
      /\ \A i \in 1 .. m : \E k \in 1 .. m : p[k] = i
  BY <1>1 DEF StableOrders, Permutes
<1>3. c = [k \in 1 .. m |-> good[p[k]]]
  BY DEF Rearranged
<1>4. Len(c) = m /\ \A k \in 1 .. m : c[k] = good[p[k]] /\ p[k] \in 1 .. m
  <2> HIDE DEF m
  <2> QED
    BY <1>1, <1>2, <1>3
<1> HIDE DEF m, c
<1>5. Entries(c) \subseteq {good[i] : i \in 1 .. m}
  BY <1>4 DEF Entries
<1>6. ASSUME NEW i \in 1 .. m PROVE good[i] \in Entries(c)
  <2>1. PICK k \in 1 .. m : p[k] = i
    BY <1>2
  <2>2. good[i] = c[k]
    BY <1>4, <2>1
  <2> QED
    BY <1>4, <2>2 DEF Entries
<1> QED
  BY <1>5, <1>6 DEF Entries, c, m

\* The answer of the next source adds its offers to the list, or none if it raises.
LEMMA MoreListed ==
    ASSUME NEW w \in Worlds, NEW asked \in 0 .. Len(Sources), asked < Len(Sources),
           NEW refs \in Seq(Ref), Lists(refs, asked, w)
    PROVE  LET got == World[w].offer[asked + 1]
           IN  Lists(IF got.raises THEN refs ELSE refs \o got.refs, asked + 1, w)
<1> DEFINE s   == asked + 1
           got == World[w].offer[s]
           new == got.refs
           all == refs \o new
<1>1. /\ Len(Sources) \in Nat /\ asked \in Nat /\ s \in 1 .. Len(Sources)
      /\ s > asked /\ s \in Nat
  BY RegistryAssumption, LenProperties
<1>2. PICK f \in [1 .. Len(refs) -> OffersOf(w, asked)] :
         /\ \A k \in 1 .. Len(refs) : refs[k] = Offered(w, f[k])
         /\ \A i, k \in 1 .. Len(refs) : i < k => Sooner(f[i], f[k])
         /\ \A o \in OffersOf(w, asked) : \E k \in 1 .. Len(refs) : f[k] = o
  BY DEF Lists
<1>3. new \in Seq(Ref)
  BY <1>1, OfferShape
<1> HIDE DEF s
<1>4. \A o \in Offers(w) : o \in OffersOf(w, s) <=> o \in OffersOf(w, asked) \/ o[1] = s
  BY <1>1, OfferPair DEF OffersOf, s
<1>5. CASE got.raises
  <2>1. \A o \in Offers(w) : o[1] # s
    BY <1>1, <1>5, OfferPair
  <2>2. OffersOf(w, s) = OffersOf(w, asked)
    BY <1>4, <2>1 DEF OffersOf
  <2> QED
    BY <1>2, <1>5, <2>2 DEF Lists, s
<1>6. CASE ~got.raises
  <2> HIDE DEF new
  <2>1. /\ Len(refs) \in Nat /\ Len(new) \in Nat
        /\ all \in Seq(Ref) /\ Len(all) = Len(refs) + Len(new)
        /\ \A i \in 1 .. Len(refs) + Len(new) :
              all[i] = IF i <= Len(refs) THEN refs[i] ELSE new[i - Len(refs)]
    BY <1>3, ConcatProperties, LenProperties
  <2> HIDE DEF all, got
  <2> DEFINE g == [k \in 1 .. Len(all) |-> IF k <= Len(refs) THEN f[k] ELSE <<s, k - Len(refs)>>]
  <2>2. ASSUME NEW k \in 1 .. Len(all)
        PROVE  \/ k \in 1 .. Len(refs) /\ all[k] = refs[k] /\ g[k] = f[k]
               \/ /\ k - Len(refs) \in 1 .. Len(new) /\ all[k] = new[k - Len(refs)]
                  /\ k > Len(refs) /\ g[k] = <<s, k - Len(refs)>>
    BY <2>1
  <2> HIDE DEF g
  <2>3. \A k \in 1 .. Len(new) : <<s, k>> \in Offers(w) /\ Offered(w, <<s, k>>) = new[k]
                                 /\ <<s, k>>[1] = s /\ <<s, k>>[2] = k
    BY <1>1, <1>6, PairOffer DEF new, got
  <2>4. \A k \in 1 .. Len(refs) : f[k] \in Offers(w) /\ f[k][1] <= asked /\ f[k] \in OffersOf(w, asked)
    BY <1>2 DEF OffersOf
  <2>5. ASSUME NEW k \in 1 .. Len(all)
        PROVE  g[k] \in OffersOf(w, s) /\ all[k] = Offered(w, g[k])
    <3>1. CASE k \in 1 .. Len(refs) /\ all[k] = refs[k] /\ g[k] = f[k]
      BY <1>2, <1>4, <2>4, <3>1
    <3>2. CASE /\ k - Len(refs) \in 1 .. Len(new) /\ all[k] = new[k - Len(refs)]
               /\ g[k] = <<s, k - Len(refs)>>
      BY <1>4, <2>3, <3>2
    <3> QED
      BY <2>2, <3>1, <3>2
  <2>6. ASSUME NEW i \in 1 .. Len(all), NEW k \in 1 .. Len(all), i < k
        PROVE  Sooner(g[i], g[k])
    <3>1. CASE k \in 1 .. Len(refs) /\ g[k] = f[k]
      <4>1. i \in 1 .. Len(refs) /\ g[i] = f[i]
        BY <2>1, <2>2, <2>6, <3>1
      <4> QED
        BY <1>2, <2>6, <3>1, <4>1
    <3>2. CASE /\ i \in 1 .. Len(refs) /\ g[i] = f[i]
               /\ k - Len(refs) \in 1 .. Len(new) /\ g[k] = <<s, k - Len(refs)>>
      <4>1. g[i][1] <= asked /\ g[k][1] = s /\ g[i][1] \in Nat
        BY <2>3, <2>4, <3>2, OfferPair
      <4> QED
        BY <1>1, <4>1 DEF Sooner
    <3>3. CASE /\ i - Len(refs) \in 1 .. Len(new) /\ g[i] = <<s, i - Len(refs)>>
               /\ k - Len(refs) \in 1 .. Len(new) /\ g[k] = <<s, k - Len(refs)>>
      <4>1. i - Len(refs) < k - Len(refs)
        BY <2>1, <2>6
      <4> QED
        BY <3>3, <4>1 DEF Sooner
    <3> QED
      BY <2>2, <3>1, <3>2, <3>3
  <2>7. ASSUME NEW o \in OffersOf(w, s) PROVE \E k \in 1 .. Len(all) : g[k] = o
    <3>1. o \in Offers(w)
      BY DEF OffersOf
    <3>2. CASE o \in OffersOf(w, asked)
      <4>1. PICK k \in 1 .. Len(refs) : f[k] = o
        BY <1>2, <3>2
      <4>2. k \in 1 .. Len(all) /\ g[k] = f[k]
        BY <2>1 DEF g
      <4> QED
        BY <4>1, <4>2
    <3>3. CASE o[1] = s
      <4>1. o[2] \in 1 .. Len(new) /\ o = <<s, o[2]>>
        BY <3>1, <3>3, OfferPair DEF new, got
      <4>2. /\ o[2] + Len(refs) \in 1 .. Len(all)
            /\ ~(o[2] + Len(refs) <= Len(refs)) /\ o[2] + Len(refs) - Len(refs) = o[2]
        BY <2>1, <4>1
      <4>3. g[o[2] + Len(refs)] = o
        BY <4>1, <4>2 DEF g
      <4> QED
        BY <4>2, <4>3
    <3> QED
      BY <1>4, <3>1, <3>2, <3>3
  <2>8. g \in [1 .. Len(all) -> OffersOf(w, s)]
    BY <2>5 DEF g
  <2>9. Lists(all, s, w)
    BY <2>5, <2>6, <2>7, <2>8 DEF Lists
  <2> QED
    BY <1>6, <2>9 DEF all, new, got, s
<1> QED
  BY <1>5, <1>6

\* A list of all offers, verified where no ref before has the URL, makes up the roster.
LEMMA ListedRoster ==
    ASSUME NEW w \in Worlds, NEW refs \in Seq(Ref), Lists(refs, Len(Sources), w)
    PROVE  Made(refs, dedupe_by_url(refs), w) = Roster(w)
<1> DEFINE m == Len(refs)
           url(o) == _norm_url(Offered(w, o).url)
<1>1. m \in Nat
  BY LenProperties
<1>2. Len(Sources) \in Nat
  BY RegistryAssumption, LenProperties
<1>3. OffersOf(w, Len(Sources)) = Offers(w)
  BY <1>2, OfferPair DEF OffersOf
<1>4. PICK f \in [1 .. m -> Offers(w)] :
         /\ \A k \in 1 .. m : refs[k] = Offered(w, f[k])
         /\ \A i, k \in 1 .. m : i < k => Sooner(f[i], f[k])
         /\ \A o \in Offers(w) : \E k \in 1 .. m : f[k] = o
  BY <1>3 DEF Lists
<1> HIDE DEF m
<1>5. ASSUME NEW i \in 1 .. m, NEW k \in 1 .. m
      PROVE  Sooner(f[i], f[k]) <=> i < k
  <2>1. i < k \/ i = k \/ k < i
    BY <1>1
  <2>2. /\ k < i => Sooner(f[k], f[i])
        /\ i < k => Sooner(f[i], f[k])
        /\ f[i] \in Offers(w) /\ f[k] \in Offers(w)
    BY <1>4
  <2>3. ~(Sooner(f[i], f[k]) /\ Sooner(f[k], f[i])) /\ ~Sooner(f[i], f[i])
    BY <2>2, SoonerOrder
  <2>4. ~(i < k /\ k < i) /\ ~(i < k /\ i = k)
    BY <1>1
  <2> QED
    BY <2>1, <2>2, <2>3, <2>4
<1>6. ASSUME NEW k \in 1 .. m
      PROVE  k \in dedupe_by_url(refs) <=> f[k] \in FirstOffers(w)
  <2>1. f[k] \in FirstOffers(w) <=>
           url(f[k]) # NoUrl /\ \A q \in Offers(w) : Sooner(q, f[k]) => url(q) # url(f[k])
    BY <1>4 DEF FirstOffers
  <2>2. k \in dedupe_by_url(refs) <=>
           url(f[k]) # NoUrl /\ \A j \in 1 .. k - 1 : url(f[j]) # url(f[k])
    <3>1. \A j \in 1 .. k - 1 : j \in 1 .. m
      BY <1>1
    <3> QED
      BY <1>4, <3>1 DEF dedupe_by_url, m
  <2>3. \A j \in 1 .. m : j \in 1 .. k - 1 <=> j < k
    BY <1>1
  <2>4. \A j \in 1 .. k - 1 : j \in 1 .. m
    BY <1>1
  <2> HIDE DEF url
  <2>5. ASSUME \A j \in 1 .. k - 1 : url(f[j]) # url(f[k]), NEW q \in Offers(w), Sooner(q, f[k])
        PROVE  url(q) # url(f[k])
    <3>1. PICK j \in 1 .. m : f[j] = q
      BY <1>4
    <3> QED
      BY <1>5, <2>3, <2>5, <3>1
  <2>6. ASSUME \A q \in Offers(w) : Sooner(q, f[k]) => url(q) # url(f[k]), NEW j \in 1 .. k - 1
        PROVE  url(f[j]) # url(f[k])
    BY <1>4, <1>5, <2>3, <2>4, <2>6
  <2> QED
    BY <2>1, <2>2, <2>5, <2>6
<1>7. ASSUME NEW e \in Made(refs, dedupe_by_url(refs), w) PROVE e \in Roster(w)
  <2>1. PICK k \in dedupe_by_url(refs) : e \in Entries(_verify(refs[k], w))
    BY DEF Made
  <2>2. k \in 1 .. m
    BY DEF dedupe_by_url, m
  <2>3. f[k] \in FirstOffers(w) /\ refs[k] = Offered(w, f[k])
    BY <1>4, <1>6, <2>2
  <2> QED
    BY <2>1, <2>3 DEF Roster
<1>8. ASSUME NEW e \in Roster(w) PROVE e \in Made(refs, dedupe_by_url(refs), w)
  <2>1. PICK o \in FirstOffers(w) : e \in Entries(_verify(Offered(w, o), w))
    BY DEF Roster
  <2>2. PICK k \in 1 .. m : f[k] = o
    BY <1>4 DEF FirstOffers
  <2>3. k \in dedupe_by_url(refs) /\ refs[k] = Offered(w, o)
    BY <1>4, <1>6, <2>2
  <2> QED
    BY <2>1, <2>3 DEF Made
<1> QED
  BY <1>7, <1>8

\* An answer that comes in while the world is w, one of those of the call.
LEMMA AskSaw ==
    ASSUME RegistryInv, NEW t \in Threads, Ask(t), NEW S \in SUBSET Worlds, world \in S,
           Saw(job[t], S, world)
    PROVE  Saw(job'[t], S, world)
<1> DEFINE s    == job[t].asked + 1
           got  == World[world].offer[s]
           refs == IF got.raises THEN job[t].refs ELSE job[t].refs \o got.refs
           ask  == [job[t] EXCEPT !.asked = s, !.refs = refs]
           last == [job[t] EXCEPT !.asked = s, !.refs = refs, !.todo = dedupe_by_url(refs), !.pc = "verify"]
           j    == IF s < Len(Sources) THEN ask ELSE last
<1>1. job[t] \in AskJob /\ Swept(job[t]) /\ job[t].pc = "ask" /\ job \in [Threads -> Job]
  BY JobShape DEF RegistryInv, Ask, Sweeping, TypeOK
<1>2. /\ world \in Worlds /\ job[t].asked \in 0 .. Len(Sources) /\ job[t].asked < Len(Sources)
      /\ job[t].refs \in Seq(Ref) /\ job[t].todo = {} /\ job[t].good = <<>>
  BY <1>1 DEF AskJob, Swept, RegistryInv, TypeOK
<1>3. Len(Sources) \in Nat /\ s \in 1 .. Len(Sources)
  BY <1>2, RegistryAssumption, LenProperties
<1>4. job'[t] = j
  BY <1>1 DEF Ask, Go
<1>5. \A k \in 1 .. Len(refs) : WasOffered(S, refs[k])
  <2>1. CASE got.raises
    BY <2>1 DEF Saw
  <2>2. CASE ~got.raises
    <3> DEFINE new == got.refs
               all == job[t].refs \o new
    <3>1. new \in Seq(Ref) /\ \A k \in 1 .. Len(new) : WasOffered(S, new[k])
      <4>1. \A k \in 1 .. Len(new) : <<s, k>> \in Offers(world) /\ Offered(world, <<s, k>>) = new[k]
        BY <1>2, <1>3, <2>2, PairOffer
      <4> QED
        BY <1>2, <1>3, <4>1, OfferShape DEF WasOffered
    <3> HIDE DEF new
    <3>2. /\ Len(job[t].refs) \in Nat /\ Len(new) \in Nat
          /\ Len(all) = Len(job[t].refs) + Len(new)
          /\ \A i \in 1 .. Len(job[t].refs) + Len(new) :
                all[i] = IF i <= Len(job[t].refs) THEN job[t].refs[i] ELSE new[i - Len(job[t].refs)]
      BY <1>2, <3>1, ConcatProperties, LenProperties
    <3> HIDE DEF all
    <3>3. ASSUME NEW k \in 1 .. Len(all)
          PROVE  \/ k \in 1 .. Len(job[t].refs) /\ all[k] = job[t].refs[k]
                 \/ k - Len(job[t].refs) \in 1 .. Len(new) /\ all[k] = new[k - Len(job[t].refs)]
      BY <3>2
    <3>4. \A k \in 1 .. Len(all) : WasOffered(S, all[k])
      BY <3>1, <3>3 DEF Saw
    <3> QED
      BY <2>2, <3>4 DEF all, new
  <2> QED
    BY <2>1, <2>2
<1>6. refs \in Seq(Ref) /\ (S = {world} => Lists(refs, s, world))
  <2>1. Gathered(job[t].refs, job[t].asked) /\ (S = {world} => Lists(job[t].refs, job[t].asked, world))
    BY <1>1 DEF Swept, Saw, Exact
  <2>2. refs \in Seq(Ref)
    BY <1>2, <2>1, Gathering
  <2>3. S = {world} => Lists(refs, s, world)
    BY <1>2, <2>1, MoreListed
  <2> QED
    BY <2>2, <2>3
<1> HIDE DEF refs, s
<1>7. /\ j.refs = refs /\ j.asked = s /\ j.good = <<>>
      /\ j.pc = "verify" => ~(s < Len(Sources)) /\ j.todo = dedupe_by_url(refs)
  <2>1. CASE s < Len(Sources)
    BY <1>1, <1>2, <2>1 DEF AskJob
  <2>2. CASE ~(s < Len(Sources))
    BY <1>1, <1>2, <2>2 DEF AskJob
  <2> QED
    BY <2>1, <2>2
<1> HIDE DEF j
<1>8. Entries(<<>>) = {} /\ Made(refs, {}, world) = {}
  BY DEF Entries, Made
<1>9. S = {world} => Exact(j, world)
  <2> SUFFICES ASSUME S = {world} PROVE Exact(j, world)
    OBVIOUS
  <2>1. j.pc = "verify" => j.asked = Len(Sources)
    BY <1>3, <1>7
  <2>2. j.pc = "verify" => j.todo \subseteq dedupe_by_url(j.refs)
                           /\ dedupe_by_url(j.refs) \ j.todo = {}
    BY <1>7
  <2> QED
    BY <1>6, <1>7, <1>8, <2>1, <2>2 DEF Exact
<1> QED
  BY <1>4, <1>5, <1>7, <1>8, <1>9 DEF Saw

\* A verification while the world is w.
LEMMA VerifySaw ==
    ASSUME RegistryInv, NEW t \in Threads, Verify(t), NEW S \in SUBSET Worlds, world \in S,
           Saw(job[t], S, world)
    PROVE  Saw(job'[t], S, world)
<1>1. PICK k \in job[t].todo :
         Go(t, [job[t] EXCEPT !.todo = @ \ {k}, !.good = @ \o _verify(job[t].refs[k], world)])
  BY DEF Verify
<1> DEFINE old  == job[t]
           ref  == old.refs[k]
           made == _verify(ref, world)
           new  == [old EXCEPT !.todo = @ \ {k}, !.good = @ \o made]
<1>2. old \in AskJob /\ Swept(old) /\ old.pc = "verify" /\ job \in [Threads -> Job]
  BY JobShape DEF RegistryInv, Verify, Sweeping, TypeOK
<1>3. job'[t] = new
  BY <1>1, <1>2 DEF Go
<1>4. /\ world \in Worlds /\ old.refs \in Seq(Ref) /\ old.good \in Seq(Ref)
      /\ old.todo \subseteq 1 .. Len(old.refs) /\ k \in 1 .. Len(old.refs)
  BY <1>1, <1>2 DEF AskJob, Swept, RegistryInv, TypeOK
<1>5. made \in Seq(Ref)
  <2>1. ref \in Ref
    BY <1>4, ElementOfSeq
  <2> HIDE DEF ref
  <2>2. made = <<>> \/ \E v \in Ref : made = <<v>>
    BY <1>4, <2>1, VerifyShape
  <2> HIDE DEF made
  <2>3. \A v \in Ref : <<v>> \in Seq(Ref)
    OBVIOUS
  <2>4. <<>> \in Seq(Ref)
    OBVIOUS
  <2> QED
    BY <2>2, <2>3, <2>4
<1> HIDE DEF made
<1>6. Entries(old.good \o made) = Entries(old.good) \cup Entries(made)
  BY <1>4, <1>5, AllEntries
<1>7. /\ new.pc = "verify" /\ new.asked = old.asked /\ new.refs = old.refs
      /\ new.todo = old.todo \ {k} /\ new.good = old.good \o made
  BY <1>2 DEF AskJob
<1> HIDE DEF new
<1>8. \A e \in Entries(made) : WasMade(S, e)
  <2>1. PICK w \in S : \E o \in Offers(w) : ref = Offered(w, o)
    BY <1>4 DEF Saw, WasOffered
  <2> QED
    BY <2>1 DEF WasMade, made
<1>9. S = {world} => Exact(new, world)
  <2> SUFFICES ASSUME S = {world} PROVE Exact(new, world)
    OBVIOUS
  <2> DEFINE kept == dedupe_by_url(old.refs)
  <2>1. /\ Lists(old.refs, old.asked, world) /\ old.asked = Len(Sources)
        /\ old.todo \subseteq kept
        /\ Entries(old.good) = Made(old.refs, kept \ old.todo, world)
    BY <1>2 DEF Saw, Exact
  <2> HIDE DEF kept
  <2>2. kept \ new.todo = (kept \ old.todo) \cup {k}
    BY <1>1, <1>7, <2>1
  <2>3. Made(old.refs, (kept \ old.todo) \cup {k}, world)
           = Made(old.refs, kept \ old.todo, world) \cup Entries(made)
    BY DEF Made, made
  <2>4. Entries(new.good) = Made(new.refs, kept \ new.todo, world)
    BY <1>6, <1>7, <2>1, <2>2, <2>3
  <2>5. new.todo \subseteq kept
    BY <1>7, <2>1
  <2> QED
    BY <1>7, <2>1, <2>4, <2>5 DEF Exact, kept
<1>10. /\ \A i \in 1 .. Len(new.refs) : WasOffered(S, new.refs[i])
       /\ \A e \in Entries(new.good) : WasMade(S, e)
  BY <1>6, <1>7, <1>8 DEF Saw
<1> QED
  BY <1>3, <1>9, <1>10 DEF Saw

\* A sweep that begins has seen nothing yet.
LEMMA SweepSaw ==
    ASSUME NEW op \in Ops, NEW S, NEW w \in Worlds
    PROVE  Saw(Sweep(op), S, w)
<1> DEFINE j == Sweep(op)
<1>1. /\ j.asked = 0 /\ j.refs = <<>> /\ j.todo = {} /\ j.good = <<>>
      /\ j.pc = "verify" => Len(Sources) = 0
  BY DEF Sweep
<1> HIDE DEF j
<1>2. OffersOf(w, 0) = {}
  BY OfferPair DEF OffersOf
<1>3. Lists(<<>>, 0, w)
  <2> DEFINE f == [k \in 1 .. Len(<<>>) |-> k]
  <2>1. 1 .. Len(<<>>) = {}
    OBVIOUS
  <2>2. f \in [1 .. Len(<<>>) -> OffersOf(w, 0)]
    BY <2>1
  <2> HIDE DEF f
  <2> QED
    BY <1>2, <2>1, <2>2 DEF Lists
<1>4. dedupe_by_url(<<>>) = {} /\ Entries(<<>>) = {} /\ Made(<<>>, {}, w) = {}
  BY DEF dedupe_by_url, Entries, Made
<1>5. Exact(j, w)
  BY <1>1, <1>3, <1>4 DEF Exact
<1> QED
  BY <1>1, <1>4, <1>5 DEF Saw, j

\* Every step keeps what the sweeps have seen.
LEMMA SightStep ==
    ASSUME RegistryInv, SightInv, [Next]_vars
    PROVE  SightInv'
<1> USE DEF nature, shared
<1>1. job \in [Threads -> Job] /\ seen \in [Threads -> SUBSET Worlds] /\ world \in Worlds
  BY DEF RegistryInv, TypeOK
<1>2. ASSUME NEW t \in Threads, NEW j, Go(t, j), world' = world,
             seen' = seen \/ (\E S : seen' = [seen EXCEPT ![t] = S]),
             j # Idle => /\ world \in seen'[t]
                         /\ j.pc \in {"ask", "verify"} => Saw(j, seen'[t], world)
      PROVE  SightInv'
  <2>1. job'[t] = j /\ \A u \in Threads \ {t} : job'[u] = job[u] /\ seen'[u] = seen[u]
    BY <1>1, <1>2 DEF Go
  <2> QED
    BY <1>2, <2>1 DEF SightInv, Sweeping
<1>3. ASSUME NEW t \in Threads, Discover(t) \/ List(t) PROVE SightInv'
  <2>1. seen' = [seen EXCEPT ![t] = {world}] /\ world' = world /\ seen'[t] = {world}
    BY <1>1, <1>3 DEF Discover, List
  <2>2. CASE Discover(t)
    BY <1>1, <1>2, <2>1, <2>2, SweepSaw DEF Discover, Ops
  <2>3. CASE List(t)
    BY <1>2, <2>1, <2>3 DEF List
  <2> QED
    BY <1>3, <2>2, <2>3
<1>4. ASSUME NEW t \in Threads,
             Check(t) \/ Ask(t) \/ Verify(t) \/ SortRaises(t) \/ Publish(t) \/ Stamp(t)
      PROVE  SightInv'
  <2>1. seen' = seen /\ world' = world
    BY <1>4 DEF Check, Ask, Verify, SortRaises, Publish, Stamp
  <2>2. job[t] # Idle
    <3>1. job[t].pc # "idle"
      BY <1>4 DEF Check, Ask, Verify, SortRaises, Publish, Stamp
    <3> QED
      BY <3>1 DEF Idle
  <2>3. world \in seen[t] /\ seen[t] \in SUBSET Worlds /\ (Sweeping(t) => Saw(job[t], seen[t], world))
    BY <1>1, <2>2 DEF SightInv
  <2>4. CASE Check(t)
    BY <1>1, <1>2, <2>1, <2>3, <2>4, SweepSaw DEF Check, Ops
  <2>5. CASE Ask(t) \/ Verify(t)
    <3>1. Saw(job'[t], seen[t], world)
      BY <2>3, <2>5, AskSaw, VerifySaw DEF Ask, Verify, Sweeping
    <3>2. PICK j : Go(t, j)
      BY <2>5 DEF Ask, Verify
    <3>3. job'[t] = j
      BY <1>1, <3>2 DEF Go
    <3> QED
      BY <1>2, <2>1, <2>3, <3>1, <3>2, <3>3
  <2>6. CASE SortRaises(t) \/ Publish(t) \/ Stamp(t)
    <3>1. \E pc \in {"raised", "stamp", "read"} : Go(t, [pc |-> pc, op |-> job[t].op])
      BY <2>6 DEF SortRaises, Publish, Stamp
    <3> QED
      BY <1>2, <2>1, <2>3, <3>1
  <2> QED
    BY <1>4, <2>4, <2>5, <2>6
<1>5. ASSUME NEW t \in Threads, Return(t) PROVE SightInv'
  BY <1>2, <1>5 DEF Return
<1>6. ASSUME Drift PROVE SightInv'
  <2>1. /\ job' = job /\ world' # world /\ world' \in Worlds
        /\ \A u \in Threads : job[u] # Idle => seen'[u] = seen[u] \cup {world'}
    BY <1>6 DEF Drift
  <2>2. ASSUME NEW u \in Threads, job'[u] # Idle
        PROVE  world' \in seen'[u] /\ (Sweeping(u)' => Saw(job'[u], seen'[u], world'))
    <3>1. world \in seen[u] /\ (Sweeping(u) => Saw(job[u], seen[u], world))
      BY <2>1, <2>2 DEF SightInv
    <3>2. seen'[u] = seen[u] \cup {world'} /\ seen'[u] # {world'}
      BY <2>1, <2>2, <3>1
    <3> QED
      BY <2>1, <3>1, <3>2 DEF Saw, WasOffered, WasMade, Sweeping
  <2> QED
    BY <2>2 DEF SightInv
<1>7. CASE Expire \/ UNCHANGED vars
  BY <1>7 DEF Expire, vars, SightInv, Sweeping
<1> QED
  BY <1>3, <1>4, <1>5, <1>6, <1>7 DEF Next, Work

\* A sweep publishes nothing it has not seen during its own call, whatever changed and
\* whatever other threads published meanwhile, and exactly the world's roster if the
\* world stood still.
THEOREM PublishedIsSeen == Spec => PublishesWhatItSaw
<1>1. Init => SightInv
  BY DEF Init, SightInv
<1>2. RegistryInv /\ SightInv /\ [Next]_vars => SightInv'
  BY SightStep
<1>3. ASSUME RegistryInv, SightInv, NEW t \in Threads, Publish(t)
      PROVE  /\ \A r \in Entries(cache') : Sighted(t, r)
             /\ seen[t] = {world} => Entries(cache') = Roster(world)
  <2>1. job[t] \in AskJob /\ job[t].good \in Seq(Ref) /\ job[t].refs \in Seq(Ref) /\ world \in Worlds
    BY <1>3, JobShape DEF Publish, Sweeping, RegistryInv, AskJob, TypeOK
  <2>2. job[t] # Idle /\ Sweeping(t)
    BY <1>3 DEF Publish, Idle, Sweeping
  <2>3. Saw(job[t], seen[t], world)
    BY <1>3, <2>2 DEF SightInv
  <2>4. Entries(cache') = Entries(job[t].good)
    BY <1>3, <2>1, SameEntries DEF Publish
  <2>5. \A r \in Entries(cache') : Sighted(t, r)
    BY <2>3, <2>4 DEF Saw, WasMade, Sighted
  <2>6. ASSUME seen[t] = {world} PROVE Entries(cache') = Roster(world)
    <3>1. /\ Lists(job[t].refs, Len(Sources), world)
          /\ Entries(job[t].good) = Made(job[t].refs, dedupe_by_url(job[t].refs) \ {}, world)
      BY <1>3, <2>3, <2>6 DEF Saw, Exact, Publish
    <3>2. dedupe_by_url(job[t].refs) \ {} = dedupe_by_url(job[t].refs)
      OBVIOUS
    <3> QED
      BY <2>1, <2>4, <3>1, <3>2, ListedRoster
  <2> QED
    BY <2>5, <2>6
<1>4. RegistryInv /\ SightInv =>
         \A t \in Threads : Publish(t) =>
            /\ \A r \in Entries(cache') : Sighted(t, r)
            /\ seen[t] = {world} => Entries(cache') = Roster(world)
  BY <1>3
<1> QED
  BY <1>1, <1>2, <1>4, Invariance, PTL DEF Spec, PublishesWhatItSaw
-------------------------------------------------------------------------------
(***************************************************************************)
(* The steps of a call.  Can(t): what must hold for thread t to have one,   *)
(* the guards of Work(t) written out.                                      *)
(***************************************************************************)
Can(t) ==
    \/ job[t].pc \in {"check", "ask", "stamp", "read", "raised"}
    \/ job[t].pc = "verify" /\ \E k \in job[t].todo : \A j \in job[t].todo : k <= j
    \/ /\ job[t].pc = "verify" /\ job[t].todo = {}
       /\ Sortable(job[t].good) => StableOrders(SortKeys(job[t].good)) # {}

\* A sortable list has numbers to sort by.
LEMMA KeysShape ==
    ASSUME NEW refs \in Seq(Ref), Sortable(refs)
    PROVE  SortKeys(refs) \in Seq(Nat)
<1>1. Len(refs) \in Nat /\ Lower \in [Names -> Nat]
  BY LenProperties, RegistryAssumption
<1>2. \A k \in 1 .. Len(refs) : Lower[refs[k].name] \in Nat
  BY <1>1 DEF Sortable
<1> QED
  BY <1>1, <1>2 DEF SortKeys

\* A call never gets stuck, whatever the sources offered, whatever the peers answered and
\* whatever the other threads do: it always has a next step of its own.
THEOREM NeverStuck == Spec => [](\A t \in Threads : job[t] # Idle => Can(t))
<1>1. RegistryInv => \A t \in Threads : job[t] # Idle => Can(t)
  <2> SUFFICES ASSUME RegistryInv, NEW t \in Threads, job[t] # Idle PROVE Can(t)
    OBVIOUS
  <2>1. /\ job[t] \in Job
        /\ Sweeping(t) => job[t] \in AskJob /\ Swept(job[t])
    BY JobShape DEF RegistryInv
  <2>2. CASE ~Sweeping(t)
    BY <2>1, <2>2 DEF Job, Can, Sweeping
  <2>3. CASE job[t].pc = "ask"
    BY <2>3 DEF Can
  <2>4. CASE job[t].pc = "verify" /\ job[t].todo # {}
    <3>1. job[t].todo \in SUBSET Nat
      BY <2>1, <2>4 DEF Sweeping, AskJob
    <3>2. \E k \in job[t].todo : \A j \in job[t].todo : k <= j
      BY <2>4, <3>1, Least
    <3> QED
      BY <2>4, <3>2 DEF Can
  <2>5. CASE job[t].pc = "verify" /\ job[t].todo = {}
    <3>1. job[t].good \in Seq(Ref)
      BY <2>1, <2>5 DEF Sweeping, AskJob
    <3>2. Sortable(job[t].good) => StableOrders(SortKeys(job[t].good)) # {}
      BY <3>1, KeysShape, SortsOneWay
    <3> QED
      BY <2>5, <3>2 DEF Can
  <2> QED
    BY <2>2, <2>3, <2>4, <2>5 DEF Sweeping
<1> QED
  BY <1>1, Invariance, PTL

\* How far a call is from its end: the phase it is in, and what is left to do in it.
Phase ==
    [check |-> 5, ask |-> 4, verify |-> 3, stamp |-> 2, read |-> 1, raised |-> 1, idle |-> 0]

Rest(j) ==
    IF j.pc = "ask" THEN Len(Sources) - j.asked
    ELSE IF j.pc = "verify" THEN Cardinality(j.todo) ELSE 0

Nearer(j, k) ==
    /\ Rest(j) \in Nat /\ Rest(k) \in Nat
    /\ Phase[j.pc] < Phase[k.pc] \/ (Phase[j.pc] = Phase[k.pc] /\ Rest(j) < Rest(k))

\* Every step of a call brings it nearer to its end, in an order that does not descend
\* for ever, and nothing others do sets it back: a refresh asks no source twice, verifies
\* no candidate twice and does not start over, however the world changes meanwhile.
GetsOn ==
    [][\A t \in Threads :
          IF Work(t) THEN Nearer(job'[t], job[t])
          ELSE job[t] # Idle => job'[t] = job[t]]_vars

\* What is left of a job.
LEMMA RestShape ==
    ASSUME NEW j \in Job, j.pc \in {"ask", "verify"} => Swept(j)
    PROVE  /\ Rest(j) \in Nat
           /\ j.pc = "verify" => IsFiniteSet(j.todo)
<1>1. Len(Sources) \in Nat
  BY RegistryAssumption, LenProperties
<1>2. CASE j.pc = "ask"
  <2>1. j.asked \in 0 .. Len(Sources)
    BY <1>2 DEF Job, Idle
  <2> QED
    BY <1>1, <1>2, <2>1 DEF Rest
<1>3. CASE j.pc = "verify"
  <2>1. Len(j.refs) \in Nat /\ j.todo \in SUBSET (1 .. Len(j.refs))
    BY <1>3 DEF Job, Idle, Swept
  <2>2. IsFiniteSet(j.todo)
    BY <2>1, UpTo, FS_Subset
  <2> QED
    BY <1>3, <2>2, FS_CardinalityType DEF Rest
<1> QED
  BY <1>2, <1>3 DEF Rest

\* A step of a call brings it nearer its end.
LEMMA WorkNearer ==
    ASSUME RegistryInv, NEW t \in Threads, Work(t)
    PROVE  Nearer(job'[t], job[t]) /\ \A u \in Threads \ {t} : job'[u] = job[u]
<1>1. job \in [Threads -> Job] /\ Len(Sources) \in Nat
  BY RegistryAssumption, LenProperties DEF RegistryInv, TypeOK
<1>2. job[t] \in Job /\ (Sweeping(t) => job[t] \in AskJob /\ Swept(job[t]))
  BY JobShape DEF RegistryInv
<1>3. Rest(job[t]) \in Nat /\ (job[t].pc = "verify" => IsFiniteSet(job[t].todo))
  BY <1>2, RestShape DEF Sweeping
<1>4. ASSUME NEW j, Go(t, j)
      PROVE  job'[t] = j /\ \A u \in Threads \ {t} : job'[u] = job[u]
  BY <1>1, <1>4 DEF Go
<1>5. CASE Check(t)
  <2>1. PICK j \in {[pc |-> "read", op |-> "list"], Sweep("list")} : Go(t, j)
    BY <1>5 DEF Check
  <2>2. j.pc \in {"read", "ask", "verify"} /\ j \in Job /\ (j.pc \in {"ask", "verify"} => Swept(j))
    <3>1. CASE j = Sweep("list")
      BY <3>1, SweepShape DEF Ops
    <3>2. CASE j = [pc |-> "read", op |-> "list"]
      BY <3>2, PlainJob DEF Ops
    <3> QED
      BY <2>1, <3>1, <3>2
  <2>3. Rest(j) \in Nat
    BY <2>2, RestShape
  <2> QED
    BY <1>3, <1>4, <1>5, <2>1, <2>2, <2>3 DEF Check, Nearer, Phase
<1>6. CASE Ask(t)
  <2> DEFINE old == job[t]
  <2>1. PICK j \in Job : Go(t, j) /\ Swept(j) /\ j.pc \in {"ask", "verify"}
    BY <1>6, AskStep
  <2>2. old \in AskJob /\ old.pc = "ask" /\ old.asked \in 0 .. Len(Sources)
    BY <1>2, <1>6 DEF Ask, Sweeping, AskJob
  <2>3. Rest(j) \in Nat
    BY <2>1, RestShape
  <2>4. j.pc = "ask" => j.asked = old.asked + 1
    <3>1. job'[t] = j
      BY <1>4, <2>1
    <3>2. PICK refs : Go(t, IF old.asked + 1 < Len(Sources)
                            THEN [old EXCEPT !.asked = old.asked + 1, !.refs = refs]
                            ELSE [old EXCEPT !.asked = old.asked + 1, !.refs = refs,
                                             !.todo = dedupe_by_url(refs), !.pc = "verify"])
      BY <1>6 DEF Ask
    <3>3. \/ j = [old EXCEPT !.asked = old.asked + 1, !.refs = refs]
          \/ j = [old EXCEPT !.asked = old.asked + 1, !.refs = refs,
                             !.todo = dedupe_by_url(refs), !.pc = "verify"]
      BY <1>4, <3>1, <3>2
    <3> QED
      BY <2>2, <3>3 DEF AskJob
  <2>5. j.pc = "ask" => Rest(j) < Rest(old)
    <3>1. j.pc = "ask" => Rest(j) = Len(Sources) - (old.asked + 1)
      BY <2>4 DEF Rest
    <3>2. Rest(old) = Len(Sources) - old.asked
      BY <2>2 DEF Rest
    <3> QED
      BY <1>1, <2>2, <3>1, <3>2
  <2> QED
    BY <1>3, <1>4, <2>1, <2>2, <2>3, <2>5 DEF Nearer, Phase
<1>7. CASE Verify(t)
  <2> DEFINE old == job[t]
  <2>1. PICK j \in Job : Go(t, j) /\ Swept(j) /\ j.pc \in {"ask", "verify"}
    BY <1>7, VerifyStep
  <2>2. old \in AskJob /\ old.pc = "verify"
    BY <1>2, <1>7 DEF Verify, Sweeping
  <2>3. Rest(j) \in Nat
    BY <2>1, RestShape
  <2>4. PICK k \in old.todo :
           Go(t, [old EXCEPT !.todo = @ \ {k}, !.good = @ \o _verify(old.refs[k], world)])
    BY <1>7 DEF Verify
  <2>5. j = [old EXCEPT !.todo = @ \ {k}, !.good = @ \o _verify(old.refs[k], world)]
    BY <1>4, <2>1, <2>4
  <2>6. j.pc = "verify" /\ j.todo = old.todo \ {k}
    BY <2>2, <2>5 DEF AskJob
  <2>7. Rest(j) < Rest(old)
    <3>1. Cardinality(old.todo \ {k}) = Cardinality(old.todo) - 1 /\ Cardinality(old.todo) \in Nat
      BY <1>3, <2>2, <2>4, FS_RemoveElement, FS_CardinalityType
    <3>2. Rest(j) = Cardinality(old.todo \ {k}) /\ Rest(old) = Cardinality(old.todo)
      BY <2>2, <2>6 DEF Rest
    <3> QED
      BY <3>1, <3>2
  <2> QED
    BY <1>3, <1>4, <2>1, <2>2, <2>3, <2>6, <2>7 DEF Nearer, Phase
<1>8. CASE SortRaises(t) \/ Publish(t) \/ Stamp(t)
  <2>1. PICK pc \in {"raised", "stamp", "read"} :
           /\ Go(t, [pc |-> pc, op |-> job[t].op])
           /\ job[t].pc = IF pc = "read" THEN "stamp" ELSE "verify"
    BY <1>8 DEF SortRaises, Publish, Stamp
  <2>2. job'[t] = [pc |-> pc, op |-> job[t].op]
    BY <1>4, <2>1
  <2>3. job'[t].pc = pc /\ Rest(job'[t]) = 0
    BY <2>1, <2>2 DEF Rest
  <2> QED
    BY <1>3, <1>4, <2>1, <2>3 DEF Nearer, Phase
<1>9. CASE Return(t)
  <2>1. job'[t] = Idle /\ job[t].pc \in {"read", "raised"}
    BY <1>4, <1>9 DEF Return
  <2>2. job'[t].pc = "idle" /\ Rest(job'[t]) = 0
    BY <2>1 DEF Idle, Rest
  <2> QED
    BY <1>3, <1>4, <1>9, <2>1, <2>2 DEF Nearer, Phase, Return
<1> QED
  BY <1>5, <1>6, <1>7, <1>8, <1>9 DEF Work

THEOREM CallsGetOn == Spec => GetsOn
<1>1. ASSUME RegistryInv, [Next]_vars, NEW t \in Threads
      PROVE  IF Work(t) THEN Nearer(job'[t], job[t]) ELSE job[t] # Idle => job'[t] = job[t]
  <2>1. CASE Work(t)
    BY <1>1, <2>1, WorkNearer
  <2>2. CASE ~Work(t)
    <3> SUFFICES ASSUME job[t] # Idle PROVE job'[t] = job[t]
      BY <2>2
    <3>1. ASSUME NEW u \in Threads, Work(u) PROVE job'[t] = job[t]
      BY <1>1, <2>2, <3>1, WorkNearer
    <3>2. ASSUME NEW u \in Threads, Discover(u) \/ List(u) PROVE job'[t] = job[t]
      <4>1. u # t /\ job \in [Threads -> Job]
        BY <1>1, <3>2 DEF Discover, List, RegistryInv, TypeOK
      <4> QED
        BY <3>2, <4>1 DEF Discover, List, Go
    <3>3. CASE Expire \/ Drift \/ UNCHANGED vars
      BY <3>3 DEF Expire, Drift, vars, shared
    <3> QED
      BY <1>1, <3>1, <3>2, <3>3 DEF Next
  <2> QED
    BY <2>1, <2>2
<1>2. RegistryInv /\ [Next]_vars =>
         \A t \in Threads :
            IF Work(t) THEN Nearer(job'[t], job[t]) ELSE job[t] # Idle => job'[t] = job[t]
  BY <1>1
<1> QED
  BY <1>2, Invariance, PTL DEF Spec, GetsOn
===============================================================================
