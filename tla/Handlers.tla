------------------------------- MODULE Handlers -------------------------------
(***************************************************************************)
(* The entry of a tool call (tools.py): concurrent calls build the shared   *)
(* registry, transport and configuration on first use, without a lock, and  *)
(* then resolve the limits of the call from its arguments and the           *)
(* configuration (config.py), either of which may be garbage.              *)
(*                                                                         *)
(* A step of _components is one read or write of a module global.  The      *)
(* three objects are known by who made them.  A call that is refused for    *)
(* its message or its list of agents returns at once and is left out, and   *)
(* so is what a call does after its limits are known: see Scatter, Chain    *)
(* and Registry.                                                           *)
(***************************************************************************)
EXTENDS Integers

CONSTANTS
    Threads,     \* the threads that call tools
    Host,        \* the application, which may inject components of its own
    Raws,        \* the contents the configuration file may have
    Requests,    \* the arguments of a call
    MaxAgents,   \* bound on the number of peers a call selects
    MaxEdits     \* bound on how often the configuration file is edited

\* A Python value: None (or nothing there), a number, counted in halves since int()
\* tells 0.5 from 1, inf, nan, or what no number can be made of.
Values == [kind : {"num"}, n : Int] \cup [kind : {"none", "inf", "nan", "junk"}, n : {0}]
Absent == [kind |-> "none", n |-> 0]
Num(k) == [kind |-> "num", n |-> 2 * k]

\* Not readable: a block that is there but no mapping, such as an empty one, or that
\* lists a port of inf.
Raw     == [readable : BOOLEAN, max_concurrency : Values, timeout : Values, deadline : Values]
Request == [max_concurrency : Values, timeout : Values, deadline : Values]

None  == "None"
NoObj == [by |-> None]

Makers      == Threads \cup {Host}
FleetConfig == [by : Makers, max_concurrency : 1 .. 100, timeout : 1 .. 600, deadline : Values]
A2AClient   == [by : Makers, default_timeout : 1 .. 600]
Registry    == [by : Makers, client : A2AClient, config : FleetConfig]

ASSUME HandlersAssumption ==
    /\ None \notin Makers /\ Host \notin Threads
    /\ Raws \subseteq Raw
    /\ Requests \subseteq Request
    /\ MaxAgents \in Nat /\ MaxEdits \in Nat

VARIABLES
    raw,         \* what the configuration file says
    edits,       \* how often it has been edited
    _registry, _transport, _config,   \* the module globals
    at,          \* where each call is
    held,        \* the objects each call has read or is about to store
    limits,      \* what each call's arguments were resolved to (asked: history, the arguments)
    raced        \* history: two calls were building at the same time

globals == <<_registry, _transport, _config>>
vars == <<raw, edits, globals, at, held, limits, raced>>

Nothing   == [registry |-> NoObj, transport |-> NoObj, config |-> NoObj]
NoRequest == [max_concurrency |-> Absent, timeout |-> Absent, deadline |-> Absent]
NoLimits  == [agents |-> 0, workers |-> 1, timeout |-> 1, deadline |-> Absent, asked |-> NoRequest]

Building ==
    {t \in Threads : at[t] \in {"load", "client", "transport", "build", "compose", "store"}}

Init ==
    /\ raw \in Raws
    /\ edits = 0
    /\ _registry = NoObj /\ _transport = NoObj /\ _config = NoObj
    /\ at = [t \in Threads |-> "idle"]
    /\ held = [t \in Threads |-> Nothing]
    /\ limits = [t \in Threads |-> NoLimits]
    /\ raced = FALSE

-------------------------------------------------------------------------------
(***************************************************************************)
(* Numbers out of values.                                                  *)
(***************************************************************************)

Least(a, b)    == IF a <= b THEN a ELSE b
Greatest(a, b) == IF a >= b THEN a ELSE b

\* int(v) cuts a number towards 0; inf raises OverflowError, nan and junk an error that
\* most callers catch.
int(v) == IF v.n >= 0 THEN v.n \div 2 ELSE -((-v.n) \div 2)
Overflows(v) == v.kind = "inf"
Truthy(v)    == v.kind # "none" /\ v # Num(0)
Positive(v)  == v.kind = "inf" \/ (v.kind = "num" /\ v.n > 0)

\* mutant: the upper limit only
_clamp_NoFloor(v, lo, hi, default) ==
    IF v.kind = "num" THEN Least(int(v), hi) ELSE default

_clamp(v, lo, hi, default) ==
    IF v.kind = "num" THEN Greatest(lo, Least(int(v), hi)) ELSE default

Loadable(r) == r.readable /\ ~Overflows(r.max_concurrency) /\ ~Overflows(r.timeout)

\* Zero and less mean no deadline; nan is neither, and stays.
load_deadline(v) == IF v.kind = "junk" \/ (v.kind = "num" /\ v.n <= 0) THEN Absent ELSE v

load_fleet_config(r, t) ==
    [by |-> t, max_concurrency |-> _clamp(r.max_concurrency, 1, 100, 10),
     timeout |-> _clamp(r.timeout, 1, 600, 30), deadline |-> load_deadline(r.deadline)]

\* mutant: what the docstring says was once forgotten
_resolve_workers_IgnoresRequest(requested, n_agents, cfg_max) ==
    Greatest(1, Least(IF cfg_max > 0 THEN cfg_max ELSE n_agents, n_agents))

_resolve_workers(requested, n_agents, cfg_max) ==
    LET cap  == IF cfg_max > 0 THEN cfg_max ELSE n_agents
        less == IF Truthy(requested) /\ requested.kind = "num" THEN Least(cap, int(requested)) ELSE cap
    IN  Greatest(1, Least(less, n_agents))

_resolve_deadline(requested, cfg_deadline) ==
    IF Positive(requested) THEN requested ELSE cfg_deadline

-------------------------------------------------------------------------------
(***************************************************************************)
(* _components.                                                            *)
(***************************************************************************)

Goto(t, place) == at' = [at EXCEPT ![t] = place]
Hold(t, part, obj) == held' = [held EXCEPT ![t][part] = obj]

Call(t) ==
    /\ at[t] = "idle"
    /\ Goto(t, "test")
    /\ UNCHANGED <<raw, edits, globals, held, limits, raced>>

TestOf(t, global) ==
    /\ at[t] = "test"
    /\ Goto(t, IF global = NoObj THEN "load" ELSE "registry")
    /\ raced' = (raced \/ (global = NoObj /\ Building # {}))
    /\ UNCHANGED <<raw, edits, globals, held, limits>>

Test_Config(t) == TestOf(t, _config)  \* mutant: what is stored first
Test(t) == TestOf(t, _registry)

Load(t) ==
    /\ at[t] = "load"
    /\ Loadable(raw)
    /\ _config' = load_fleet_config(raw, t)
    /\ Goto(t, "client")
    /\ UNCHANGED <<raw, edits, _registry, _transport, held, limits, raced>>

FailTo(t, place) ==
    /\ at[t] = "load"
    /\ ~Loadable(raw)
    /\ Goto(t, place)
    /\ UNCHANGED <<raw, edits, globals, held, limits, raced>>

LoadRaises_Retries(t) == FailTo(t, "load")  \* mutant
\* The exception ends the call; the next one tries again.
LoadRaises(t) == FailTo(t, "raised")

\* A2AClient(default_timeout=_config.timeout)
Client(t) ==
    /\ at[t] = "client"
    /\ Hold(t, "transport", [by |-> t, default_timeout |-> _config.timeout])
    /\ Goto(t, "transport")
    /\ UNCHANGED <<raw, edits, globals, limits, raced>>

Transport(t) ==
    /\ at[t] = "transport"
    /\ _transport' = held[t].transport
    /\ held' = [held EXCEPT ![t] = Nothing]
    /\ Goto(t, "build")
    /\ UNCHANGED <<raw, edits, _registry, _config, limits, raced>>

\* build_registry(_config, client=_transport) reads one global, then the other; the
\* registry keeps the client and takes its settings from the configuration.
BuildWith(t, config) ==
    /\ at[t] = "build"
    /\ Hold(t, "config", config)
    /\ Goto(t, "compose")
    /\ UNCHANGED <<raw, edits, globals, limits, raced>>

Build_LoadsAgain(t) == BuildWith(t, load_fleet_config(raw, t))  \* mutant: is not given the configuration
Build(t) == BuildWith(t, _config)

Compose(t) ==
    /\ at[t] = "compose"
    /\ Hold(t, "registry", [by |-> t, client |-> _transport, config |-> held[t].config])
    /\ Goto(t, "store")
    /\ UNCHANGED <<raw, edits, globals, limits, raced>>

Store(t) ==
    /\ at[t] = "store"
    /\ _registry' = held[t].registry
    /\ held' = [held EXCEPT ![t] = Nothing]
    /\ Goto(t, "registry")
    /\ UNCHANGED <<raw, edits, _transport, _config, limits, raced>>

\* return _registry, _transport, _config: whoever wrote them last.
ReadOf(t, from, part, obj, to) ==
    /\ at[t] = from
    /\ Hold(t, part, obj)
    /\ Goto(t, to)
    /\ UNCHANGED <<raw, edits, globals, limits, raced>>

Read(t) ==
    \/ ReadOf(t, "registry", "registry", _registry, "read_transport")
    \/ ReadOf(t, "read_transport", "transport", _transport, "read_config")
    \/ ReadOf(t, "read_config", "config", _config, "go")

-------------------------------------------------------------------------------
(***************************************************************************)
(* What a call does with them.                                             *)
(***************************************************************************)

\* discover, list and get need the registry only; broadcast is over if no peer is left.
Look(t) ==
    /\ at[t] = "go"
    /\ Goto(t, "done")
    /\ UNCHANGED <<raw, edits, globals, held, limits, raced>>

\* int(args.get("timeout") or cfg.timeout): nothing catches what int raises.
TimeoutRaises(q) == Truthy(q.timeout) /\ q.timeout.kind # "num"
LimitsRaise(q)   == Overflows(q.max_concurrency) \/ TimeoutRaises(q)

\* It can be 0: the client puts its default_timeout in the place of that.
TimeoutOf(q, cfg) == IF Truthy(q.timeout) THEN int(q.timeout) ELSE cfg.timeout

\* broadcast and dispatch, up to the call of scatter, for n selected peers.
Resolve(t, n, q) ==
    /\ at[t] = "go"
    /\ ~LimitsRaise(q)
    /\ LET cfg == held[t].config IN
       limits' = [limits EXCEPT ![t] =
                     [agents   |-> n,
                      workers  |-> _resolve_workers(q.max_concurrency, n, cfg.max_concurrency),
                      timeout  |-> TimeoutOf(q, cfg),
                      deadline |-> _resolve_deadline(q.deadline, cfg.deadline),
                      asked    |-> q]]
    /\ Goto(t, "done")
    /\ UNCHANGED <<raw, edits, globals, held, raced>>

ResolveRaises(t, q) ==
    /\ at[t] = "go"
    /\ LimitsRaise(q)
    /\ Goto(t, "raised")
    /\ UNCHANGED <<raw, edits, globals, held, limits, raced>>

Return(t) ==
    /\ at[t] \in {"done", "raised"}
    /\ Goto(t, "idle")
    /\ held' = [held EXCEPT ![t] = Nothing]
    /\ limits' = [limits EXCEPT ![t] = NoLimits]
    /\ UNCHANGED <<raw, edits, globals, raced>>

-------------------------------------------------------------------------------
\* set_components: the host injects a triple of its own, before it lets anybody call.
Inject ==
    /\ \A t \in Threads : at[t] = "idle"
    /\ Loadable(raw)
    /\ _config' = load_fleet_config(raw, Host)
    /\ _transport' = [by |-> Host, default_timeout |-> _config'.timeout]
    /\ _registry' = [by |-> Host, client |-> _transport', config |-> _config']
    /\ raced' = FALSE
    /\ UNCHANGED <<raw, edits, at, held, limits>>

\* Somebody edits the configuration file.
Edit ==
    /\ edits < MaxEdits
    /\ raw' \in Raws \ {raw}
    /\ edits' = edits + 1
    /\ UNCHANGED <<globals, at, held, limits, raced>>

Components(t) ==
    \/ Test(t) \/ Load(t) \/ LoadRaises(t)
    \/ Client(t) \/ Transport(t) \/ Build(t) \/ Compose(t) \/ Store(t) \/ Read(t)

Run(t) ==
    \/ Look(t)
    \/ \E q \in Requests : (\E n \in 1 .. MaxAgents : Resolve(t, n, q)) \/ ResolveRaises(t, q)
    \/ Return(t)

Next ==
    \/ \E t \in Threads : Call(t) \/ Components(t) \/ Run(t)
    \/ Inject
    \/ Edit

Spec == Init /\ [][Next]_vars

\* A call that has begun goes on: nothing in it waits for another.
FairSpec == Spec /\ \A t \in Threads : WF_vars(Components(t) \/ Run(t))

-------------------------------------------------------------------------------
(***************************************************************************)
(* Properties.                                                             *)
(***************************************************************************)

Places ==
    {"idle", "test", "load", "client", "transport", "build", "compose", "store",
     "registry", "read_transport", "read_config", "go", "done", "raised"}

Limits ==
    [agents : Nat, workers : 1 .. 100, timeout : Int, deadline : Values, asked : Request]

TypeOK ==
    /\ raw \in Raws /\ edits \in 0 .. MaxEdits
    /\ _registry \in Registry \cup {NoObj}
    /\ _transport \in A2AClient \cup {NoObj}
    /\ _config \in FleetConfig \cup {NoObj}
    /\ at \in [Threads -> Places]
    /\ held \in [Threads -> [registry : Registry \cup {NoObj}, transport : A2AClient \cup {NoObj},
                             config : FleetConfig \cup {NoObj}]]
    /\ limits \in [Threads -> Limits]
    /\ raced \in BOOLEAN

\* A call that has its components has all three of them, also when it found a registry
\* that another call had only just stored: the registry is what is tested and comes last.
Complete ==
    \A t \in Threads :
        at[t] = "go" => held[t].registry # NoObj /\ held[t].transport # NoObj /\ held[t].config # NoObj

\* "ONE A2AClient is created here and shared as both the registry's verification client
\* and the fan-out transport": what a call gets belongs together, except after two
\* calls have been building at the same time; only a race of first calls mixes them.
OneTransport ==
    ~raced =>
        \A t \in Threads :
            at[t] = "go" =>
                /\ held[t].registry.client = held[t].transport
                /\ held[t].registry.config = held[t].config
                /\ held[t].transport.default_timeout = held[t].config.timeout

\* "never above the configured cap, the request, or the agent count; never below 1", "a
\* positive number wins", and no deadline that has passed before the call begins: for
\* whatever stands in the arguments and the file, and whichever configuration a race
\* left the call with.
LimitsRespected ==
    \A t \in Threads :
        LET lim == limits[t]
            q   == lim.asked
        IN  lim # NoLimits =>
                /\ lim.workers \in 1 .. Least(lim.agents, held[t].config.max_concurrency)
                /\ Truthy(q.max_concurrency) /\ q.max_concurrency.kind = "num" =>
                       lim.workers <= Greatest(1, int(q.max_concurrency))
                /\ Positive(q.deadline) => lim.deadline = q.deadline
                /\ lim.deadline.kind = "num" => lim.deadline.n > 0

\* Every tool call returns or raises, whatever the configuration file says and however
\* it is edited meanwhile.
CallReturns == \A t \in Threads : at[t] # "idle" ~> at[t] = "idle"
===============================================================================
