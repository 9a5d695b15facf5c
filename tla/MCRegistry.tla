------------------------------ MODULE MCRegistry ------------------------------
(***************************************************************************)
(* Instances of Registry for TLC: hosts h1 and h2 with the ports 1 and 2,   *)
(* offered by the tailnet, the static configuration and mDNS.  The offers   *)
(* are those Sources computes.                                             *)
(***************************************************************************)
EXTENDS Registry, Sources

CONSTANTS t1, t2

TwoThreads == {t1, t2}
NodeNames  == {"n", "m"}
PortNames  == {"n:1", "n:2", "m:1", "m:2"}
MCNames    == {"a", "b", "s"} \cup NodeNames \cup PortNames
RankOf     == [n \in MCNames |-> IF n = "a" THEN 1 ELSE IF n = "b" THEN 2 ELSE 3]
MCPortName == [name \in NodeNames, port \in {1, 2} |-> name \o ":" \o (IF port = 1 THEN "1" ELSE "2")]

At(host, port) == [NoUrl EXCEPT !.scheme = "http", !.host = host, !.port = port]
FiveBases  == {At(h, p) : h \in {"h1", "h2"}, p \in {1, 2}} \cup {At("fd7a", MaxPort + 1)}
MCBases    == FiveBases \cup {NoUrl}
Slash(url) == [url EXCEPT !.path.slashes = 1]
A2A(url)   == [url EXCEPT !.path.text = "/a2a"]

\* The fleet has a token for port 1 of h1, one for the rest of h1, and a default.
MCTokens == [key \in {<<"h1", 1>>, <<"h1">>} |-> IF Len(key) = 2 THEN "port token" ELSE "host token"]

-------------------------------------------------------------------------------
\* The configuration: h1:1 is listed twice, with its own token the second time.
Entry(name, url, auth) == [dict |-> TRUE, name |-> name, url |-> url, auth |-> auth, list |-> TRUE]
NoEntry == [dict |-> FALSE, name |-> "x"]
Block(entries) == [dict |-> TRUE, entries |-> entries]
NoBlock == [dict |-> FALSE, entries |-> <<>>]

Agents ==
    Block(<<Entry("s", NoUrl, NoAuth), Entry("s", Slash(NoUrl), NoAuth),
            Entry("s", [At("h2", 2) EXCEPT !.upper = TRUE], NoAuth)>>)
Upstream ==
    Block(<<NoEntry, Entry("s", At("h2", 2), "own token"),
            Entry("b", Slash(At("h1", 1)), "own token")>>)

V4(host) == [v6 |-> FALSE, host |-> host]
V6       == [v6 |-> TRUE, host |-> "fd7a"]
Node(name, ips) == [dict |-> TRUE, name |-> name, ips |-> ips]
Status(peers, self) == [kind |-> "object", peers |-> peers, self |-> self]
NoTailnet == [kind |-> "falsy"]
NoStatus  == [kind |-> "other"]

Tailnet == Status(<<Node("m", <<V6>>), [dict |-> FALSE]>>, <<Node("n", <<V6, V4("h1")>>)>>)

\* Port 0 is listed, and what is no port.
MCPorts == <<[number |-> TRUE, port |-> 0], [number |-> FALSE], [number |-> TRUE, port |-> 2]>>

OfferOf(kind, agents, status, mdns) ==
    CASE kind = "static"  -> StaticOffer(agents, Upstream)
      [] kind = "tailnet" -> TailnetOffer(status, ProbePorts(MCPorts), MCPortName)
      [] kind = "mdns"    -> mdns

WorldOf(agents, status, mdns, card) ==
    [offer |-> [s \in 1 .. Len(Sources) |-> OfferOf(Sources[s], agents, status, mdns)],
     card  |-> card]

-------------------------------------------------------------------------------
Serves(name, url, needs) == [kind |-> "card", name |-> name, url |-> url, needs |-> needs]
Silent  == [Serves(Blank, NoUrl, NoAuth) EXCEPT !.kind = "none"]
Garbled == [Serves(Blank, NoUrl, NoAuth) EXCEPT !.kind = "bad"]

Cards(c11, c12, c22) ==
    [u \in MCBases |->
        CASE u = At("h1", 1) -> c11 [] u = At("h1", 2) -> c12 [] u = At("h2", 2) -> c22
          [] OTHER -> Serves("a", NoUrl, NoAuth)]

Announced == Offering(<<AgentRef("m", At("h2", 2), NoAuth, "mdns"),
                        AgentRef("m", At("h1", 2), NoAuth, "mdns")>>)

\* One name for two peers, of which one advertises the other's origin.
Clashing == WorldOf(Agents, Tailnet, Announced,
                    Cards(Serves("a", A2A(At("h1", 2)), "port token"),
                          Serves("a", NoUrl, "host token"),
                          Serves("b", A2A(At("h2", 2)), NoAuth)))
\* h1:1 is gone.
Leaving  == [Clashing EXCEPT !.card[At("h1", 1)] = Silent]
\* mDNS and the tailnet raise; the static entry of h1:1 is gated by another token.
Broken   == WorldOf(Agents, NoStatus, Raising, Clashing.card)
\* The static source raises, the tailnet is down, and one card is malformed.
Bad      == WorldOf(NoBlock, NoTailnet, Announced,
                    [Clashing.card EXCEPT ![At("h1", 2)] = Garbled])
\* The name of one card is no string.
Odd      == [Clashing EXCEPT !.card[At("h2", 2)].name = OddName]

ThreeSources ==
    AskedSources(<<>>, [set |-> TRUE, names |-> <<"tailnet", "static", "bluetooth", "mdns">>])

Named == [clashing |-> Clashing, leaving |-> Leaving, broken |-> Broken, bad |-> Bad, odd |-> Odd]
Few(names) == [n \in names |-> Named[n]]
TwoWorlds == Few({"clashing", "leaving"})
===============================================================================
