-------------------------------- MODULE Urls --------------------------------
(***************************************************************************)
(* What the registry and the auth resolver read of a URL (registry.py,      *)
(* auth.py).  A URL is the record of what urlparse tells apart; hosts and   *)
(* the texts of paths are compared and never taken to pieces.              *)
(***************************************************************************)
EXTENDS Naturals

NoPort  == 0
MaxPort == 65535

Blank == ""

\* A path: its text, how many slashes trail it, and whether it is written with capitals.
Path   == [text : STRING, slashes : Nat, upper : BOOLEAN]
NoPath == [text |-> Blank, slashes |-> 0, upper |-> FALSE]

\* upper: the host is written with capitals, which urlparse(...).hostname lowers.  A
\* port above MaxPort stands for anything urlparse(...).port raises ValueError on,
\* such as what follows the first colon of an unbracketed IPv6 address.
Url == [scheme : STRING, host : STRING, port : Nat, path : Path, upper : BOOLEAN]

\* The URL that is the empty string.
NoUrl == [scheme |-> Blank, host |-> Blank, port |-> NoPort, path |-> NoPath, upper |-> FALSE]

\* rstrip("/").lower()
_norm_url(u) == [u EXCEPT !.path.slashes = 0, !.path.upper = FALSE, !.upper = FALSE]

SameHost(a, b) == a.scheme = b.scheme /\ a.host = b.host

SameOrigin_AnyPort(a, b) == a.host # Blank /\ SameHost(a, b)  \* mutant

\* Fails closed when a port cannot be parsed.
_same_origin(a, b) ==
    a.host # Blank /\ a.port <= MaxPort /\ b.port <= MaxPort /\ SameHost(a, b) /\ a.port = b.port

\* The path of the foreign URL at the origin of the base.
_reorigin(foreign, base) ==
    IF foreign.path = NoPath THEN base ELSE [base EXCEPT !.path = foreign.path]

-------------------------------------------------------------------------------
(***************************************************************************)
(* The fleet's tokens: a table of <<host, port>> and <<host>>, and a        *)
(* default.                                                                *)
(***************************************************************************)

NoAuth == "no auth"

\* parsed.port raises before any key is looked up.
Resolvable(u) == u.host = Blank \/ u.port <= MaxPort

_host_keys(u) ==
    {key \in {<<u.host, u.port>>, <<u.host>>} : u.host # Blank /\ key # <<u.host, NoPort>>}

\* The most specific key that has a token; the default, which may be NoAuth, if none.
resolve(u, tokens, default) ==
    LET known == _host_keys(u) \cap DOMAIN tokens IN
    CASE <<u.host, u.port>> \in known -> tokens[<<u.host, u.port>>]
      [] <<u.host, u.port>> \notin known /\ <<u.host>> \in known -> tokens[<<u.host>>]
      [] OTHER -> default
===============================================================================
