------------------------------- MODULE Sources -------------------------------
(***************************************************************************)
(* What discover() of the static and the tailnet source makes of the        *)
(* configuration and of the status of the tailnet (sources/static_source.py *)
(* and sources/tailnet_source.py).  Both are stateless: an offer is the     *)
(* list of the refs returned, or the fact that discover raises.  Which       *)
(* sources there are and which ports are probed is read off the              *)
(* configuration (config.py, and build_registry in registry.py).             *)
(***************************************************************************)
EXTENDS Sequences, Integers, Urls
LOCAL INSTANCE SequencesExt

\* The sources asked, in order: those listed; if none are, those of the environment
\* variable, which may be set and name none; if it is not set, the default.  A name
\* that is no source's is passed over.
AskedSources(listed, env) ==
    LET chosen == IF listed # <<>> THEN listed
                  ELSE IF env.set THEN env.names
                  ELSE <<"static", "tailnet">>
    IN  SelectSeq(chosen, LAMBDA name : name \in {"static", "mdns", "tailnet"})

Clamped(port) == IF port < 1 THEN 1 ELSE IF port > MaxPort THEN MaxPort ELSE port

\* The ports probed: the int() of each number that is listed, clamped; if there is none,
\* 9900.  A port of inf makes the configuration itself unreadable (see Handlers).
ProbePorts(listed) ==
    LET numbers == SelectSeq(listed, LAMBDA p : p.number) IN
    IF numbers = <<>> THEN <<9900>> ELSE [k \in DOMAIN numbers |-> Clamped(numbers[k].port)]

-------------------------------------------------------------------------------
AgentRef(name, url, auth, source) ==
    [name |-> name, url |-> url, rpc |-> NoUrl, auth |-> auth, source |-> source]

Offering(refs) == [raises |-> FALSE, refs |-> refs]
Raising        == [raises |-> TRUE, refs |-> <<>>]

-------------------------------------------------------------------------------
\* A block: whether it is a mapping (None is one without entries), and its entries.  An
\* entry: a name, whether it is a mapping, and of one that is the URL, the auth and
\* whether its capabilities are a list.
Usable(block) == SelectSeq(block.entries, LAMBDA e : e.dict /\ e.url # NoUrl)

\* What makes _entries_to_refs raise: .items() on the block, or a capability that is
\* looked for in a number.
Unusable(block) == ~block.dict \/ \E k \in DOMAIN Usable(block) : ~Usable(block)[k].list

_entries_to_refs(block, source) ==
    LET usable == Usable(block) IN
    [k \in DOMAIN usable |-> AgentRef(usable[k].name, usable[k].url, usable[k].auth, source)]

\* StaticSource.discover: the plugin's own list first; one of them spoils both.
StaticOffer(agents, a2a_agents) ==
    IF Unusable(agents) \/ Unusable(a2a_agents)
    THEN Raising
    ELSE Offering(_entries_to_refs(agents, "static") \o _entries_to_refs(a2a_agents, "static:a2a"))

-------------------------------------------------------------------------------
\* The first IPv4 address of a node, else its first address.
AddressOf(node) ==
    LET v4 == SelectSeq(node.ips, LAMBDA ip : ~ip.v6) IN
    IF v4 = <<>> THEN Head(node.ips) ELSE Head(v4)

\* A status: its nodes and the own node (a sequence of one, or none).  What is no
\* mapping, or has no address, is left out.
_peers_from_status(status) ==
    SelectSeq(status.peers \o status.self, LAMBDA node : node.dict /\ node.ips # <<>>)

\* http://<ip>:<port>: an unbracketed IPv6 address leaves a port that does not parse.
NodeUrl(ip, port) ==
    [scheme |-> "http", host |-> ip.host, port |-> IF ip.v6 THEN MaxPort + 1 ELSE port,
     path |-> NoPath, upper |-> FALSE]

\* TailnetSource.discover: a ref for each node and probe port.  The name carries the
\* port if there are several.  A status is an "object"; or "falsy", such as that of a
\* machine without tailscale, which is one without nodes; or something "other", on
\* which .get raises.
TailnetOffer(status, probe_ports, PortName) ==
    LET peers == IF status.kind = "falsy" THEN <<>> ELSE _peers_from_status(status)
        Candidate(node, port) ==
            AgentRef(IF Len(probe_ports) > 1 THEN PortName[node.name, port] ELSE node.name,
                     NodeUrl(AddressOf(node), port), NoAuth, "tailnet")
        Candidates(node) == [k \in DOMAIN probe_ports |-> Candidate(node, probe_ports[k])]
    IN  IF status.kind = "other" THEN Raising
        ELSE Offering(FlattenSeq([k \in DOMAIN peers |-> Candidates(peers[k])]))
===============================================================================
