----------------------------- MODULE HandlersProofs -----------------------------
(***************************************************************************)
(* Proofs about Handlers, for every set of threads, every content of the    *)
(* configuration file and all arguments, however often the file is edited.  *)
(***************************************************************************)
EXTENDS Handlers, TLAPS

(***************************************************************************)
(* The inductive invariant.  Sound: types, with the ranges that loading a   *)
(* configuration leaves.  Stages: which globals are set once a call has got *)
(* somewhere, and what it holds there.  Alone: as long as no two calls have *)
(* been building at the same time, one call builds, there is no registry    *)
(* yet, and the globals fit together.  Limited: a call's limits are those   *)
(* its configuration allows.                                               *)
(***************************************************************************)
Deadlines  == {v \in Values : v.kind = "num" => v.n > 0}
Configs    == [by : Makers, max_concurrency : 1 .. 100, timeout : 1 .. 600, deadline : Deadlines]
Registries == [by : Makers, client : A2AClient, config : Configs]
Holdings   == [registry : Registries \cup {NoObj}, transport : A2AClient \cup {NoObj},
               config : Configs \cup {NoObj}]

\* What LimitsRespected says of the limits of one call with one configuration.
Respected(lim, config) ==
    /\ lim.workers \in 1 .. Least(lim.agents, config.max_concurrency)
    /\ Truthy(lim.asked.max_concurrency) /\ lim.asked.max_concurrency.kind = "num" =>
          lim.workers <= Greatest(1, int(lim.asked.max_concurrency))
    /\ Positive(lim.asked.deadline) => lim.deadline = lim.asked.deadline
    /\ lim.deadline.kind = "num" => lim.deadline.n > 0

Sound ==
    /\ raw \in Raws /\ edits \in 0 .. MaxEdits /\ raced \in BOOLEAN
    /\ _registry \in Registries \cup {NoObj}
    /\ _transport \in A2AClient \cup {NoObj}
    /\ _config \in Configs \cup {NoObj}
    /\ at \in [Threads -> Places]
    /\ held \in [Threads -> Holdings]
    /\ limits \in [Threads -> Limits]

Started == Places \ {"idle", "test", "load", "raised"}
Served  == {"registry", "read_transport", "read_config", "go", "done"}

Stage(t) ==
    /\ at[t] \in Started => _config # NoObj
    /\ at[t] \in {"build", "compose", "store"} \cup Served => _transport # NoObj
    /\ at[t] \in Served => _registry # NoObj
    /\ at[t] = "transport" => held[t].transport # NoObj
    /\ at[t] = "compose" => held[t].config # NoObj
    /\ at[t] = "store" => held[t].registry # NoObj
    /\ at[t] \in {"read_transport", "read_config", "go", "done"} => held[t].registry # NoObj
    /\ at[t] \in {"read_config", "go", "done"} => held[t].transport # NoObj
    /\ at[t] \in {"go", "done"} => held[t].config # NoObj

Stages ==
    /\ _registry # NoObj => _transport # NoObj /\ _config # NoObj
    /\ \A t \in Threads : Stage(t)

Fits == _transport.default_timeout = _config.timeout
Matching == _registry.client = _transport /\ _registry.config = _config /\ Fits

Builds(t) ==
    /\ at[t] \in {"load", "client", "transport", "build", "compose", "store"} => _registry = NoObj
    /\ at[t] = "transport" => held[t].transport.default_timeout = _config.timeout
    /\ at[t] \in {"build", "compose", "store"} => Fits
    /\ at[t] = "compose" => held[t].config = _config
    /\ at[t] = "store" => held[t].registry.client = _transport /\ held[t].registry.config = _config
    /\ at[t] \in {"read_transport", "read_config", "go"} => held[t].registry = _registry
    /\ at[t] \in {"read_config", "go"} => held[t].transport = _transport
    /\ at[t] = "go" => held[t].config = _config

Alone ==
    ~raced =>
        /\ \A t, u \in Building : t = u
        /\ _registry # NoObj => Matching
        /\ \A t \in Threads : Builds(t)

Limit(t) ==
    /\ at[t] # "done" => limits[t] = NoLimits
    /\ limits[t] # NoLimits => Respected(limits[t], held[t].config)

Limited == \A t \in Threads : Limit(t)

HandlersInv == Sound /\ Stages /\ Alone /\ Limited

-------------------------------------------------------------------------------
(***************************************************************************)
(* Numbers out of values.                                                  *)
(***************************************************************************)

\* int() makes a whole number of a number.
LEMMA Whole ==
    ASSUME NEW v \in Values, v.kind = "num"
    PROVE  int(v) \in Int
<1>1. v.n \in Int
  BY DEF Values
<1> QED
  BY <1>1 DEF int

\* A clamped value is in range.
LEMMA Clamped ==
    ASSUME NEW v \in Values, NEW lo \in Int, NEW hi \in Int, NEW default \in lo .. hi
    PROVE  _clamp(v, lo, hi, default) \in lo .. hi
<1>1. CASE v.kind = "num"
  <2>1. int(v) \in Int
    BY <1>1, Whole
  <2> QED
    BY <1>1, <2>1 DEF _clamp, Greatest, Least
<1>2. CASE v.kind # "num"
  BY <1>2 DEF _clamp
<1> QED
  BY <1>1, <1>2

\* A deadline from the file has not passed before the call begins.
LEMMA LoadedDeadline ==
    ASSUME NEW v \in Values
    PROVE  load_deadline(v) \in Deadlines
<1>1. Absent \in Deadlines
  BY DEF Absent, Deadlines, Values
<1>2. v.kind = "num" => v.n \in Int
  BY DEF Values
<1>3. load_deadline(v) = Absent \/ (load_deadline(v) = v /\ (v.kind = "num" => v.n > 0))
  BY <1>2 DEF load_deadline
<1> QED
  BY <1>1, <1>3 DEF Deadlines

\* What is loaded from a file is a configuration with all its values in range.
LEMMA Loaded ==
    ASSUME NEW r \in Raws, NEW t \in Makers
    PROVE  /\ load_fleet_config(r, t) \in Configs
           /\ load_fleet_config(r, t) # NoObj
<1>1. r.max_concurrency \in Values /\ r.timeout \in Values /\ r.deadline \in Values
  BY HandlersAssumption DEF Raw
<1>2. /\ _clamp(r.max_concurrency, 1, 100, 10) \in 1 .. 100
      /\ _clamp(r.timeout, 1, 600, 30) \in 1 .. 600
      /\ load_deadline(r.deadline) \in Deadlines
  BY <1>1, Clamped, LoadedDeadline
<1>3. load_fleet_config(r, t) \in Configs
  BY <1>2 DEF load_fleet_config, Configs
<1> QED
  BY <1>3, HandlersAssumption DEF Configs, NoObj

\* Nothing is not an object.
LEMMA NoObject ==
    /\ NoObj \notin Configs /\ NoObj \notin A2AClient /\ NoObj \notin Registries
    /\ Nothing \in Holdings
    /\ Nothing.registry = NoObj /\ Nothing.transport = NoObj /\ Nothing.config = NoObj
BY HandlersAssumption DEF NoObj, Configs, A2AClient, Registries, Nothing, Holdings

\* No more workers than the configuration and the request allow and the call can use,
\* and one at least.
LEMMA Workers ==
    ASSUME NEW requested \in Values, NEW n \in Nat \ {0}, NEW cfg_max \in 1 .. 100
    PROVE  /\ _resolve_workers(requested, n, cfg_max) \in 1 .. Least(n, cfg_max)
           /\ Truthy(requested) /\ requested.kind = "num" =>
                 _resolve_workers(requested, n, cfg_max) <= Greatest(1, int(requested))
<1>1. requested.kind = "num" => int(requested) \in Int
  BY Whole
<1> DEFINE less == IF Truthy(requested) /\ requested.kind = "num"
                   THEN Least(cfg_max, int(requested)) ELSE cfg_max
<1>2. /\ less \in Int /\ less <= cfg_max
      /\ Truthy(requested) /\ requested.kind = "num" => less <= int(requested)
  BY <1>1 DEF Least
<1>3. _resolve_workers(requested, n, cfg_max) = Greatest(1, Least(less, n))
  BY DEF _resolve_workers
<1> HIDE DEF less
<1>4. _resolve_workers(requested, n, cfg_max) \in 1 .. Least(n, cfg_max)
  BY <1>2, <1>3 DEF Greatest, Least
<1>5. ASSUME Truthy(requested), requested.kind = "num"
      PROVE  _resolve_workers(requested, n, cfg_max) <= Greatest(1, int(requested))
  BY <1>1, <1>2, <1>3, <1>5 DEF Greatest, Least
<1> QED
  BY <1>4, <1>5

\* The limits a call resolves are of their types and those its configuration and its
\* arguments ask for.
LEMMA Resolved ==
    ASSUME NEW q \in Requests, ~LimitsRaise(q), NEW n \in 1 .. MaxAgents, NEW cfg \in Configs
    PROVE  LET lim == [agents   |-> n,
                       workers  |-> _resolve_workers(q.max_concurrency, n, cfg.max_concurrency),
                       timeout  |-> TimeoutOf(q, cfg),
                       deadline |-> _resolve_deadline(q.deadline, cfg.deadline),
                       asked    |-> q]
           IN  lim \in Limits /\ Respected(lim, cfg)
<1>1. /\ q.max_concurrency \in Values /\ q.timeout \in Values /\ q.deadline \in Values
      /\ n \in Nat \ {0} /\ q \in Request
  BY HandlersAssumption DEF Request
<1>2. cfg.max_concurrency \in 1 .. 100 /\ cfg.timeout \in 1 .. 600 /\ cfg.deadline \in Deadlines
  BY DEF Configs
<1> DEFINE w == _resolve_workers(q.max_concurrency, n, cfg.max_concurrency)
           d == _resolve_deadline(q.deadline, cfg.deadline)
           i == TimeoutOf(q, cfg)
<1>3. /\ w \in 1 .. Least(n, cfg.max_concurrency)
      /\ Truthy(q.max_concurrency) /\ q.max_concurrency.kind = "num" =>
            w <= Greatest(1, int(q.max_concurrency))
  BY <1>1, <1>2, Workers
<1>4. w \in 1 .. 100
  BY <1>1, <1>2, <1>3 DEF Least
<1>5. i \in Int
  <2>1. CASE Truthy(q.timeout)
    BY <1>1, <2>1, Whole DEF LimitsRaise, TimeoutRaises, TimeoutOf
  <2>2. CASE ~Truthy(q.timeout)
    BY <1>2, <2>2 DEF TimeoutOf
  <2> QED
    BY <2>1, <2>2
<1>6. d \in Deadlines /\ (Positive(q.deadline) => d = q.deadline)
  BY <1>1, <1>2 DEF _resolve_deadline, Deadlines, Positive
<1>7. d \in Values /\ (d.kind = "num" => d.n > 0)
  BY <1>6 DEF Deadlines
<1> HIDE DEF w, d, i
<1>8. [agents |-> n, workers |-> w, timeout |-> i, deadline |-> d, asked |-> q] \in Limits
  BY <1>1, <1>4, <1>5, <1>7 DEF Limits
<1>9. Respected([agents |-> n, workers |-> w, timeout |-> i, deadline |-> d, asked |-> q], cfg)
  BY <1>3, <1>6, <1>7 DEF Respected
<1> QED
  BY <1>8, <1>9 DEF w, d, i

-------------------------------------------------------------------------------
(***************************************************************************)
(* The steps.                                                              *)
(***************************************************************************)

\* A call that gets hold of an object keeps the others, and nobody else's change.
LEMMA HoldEffect ==
    ASSUME held \in [Threads -> Holdings], NEW t \in Threads
    PROVE  /\ \A obj \in Registries \cup {NoObj} : Hold(t, "registry", obj) =>
                 /\ held' \in [Threads -> Holdings]
                 /\ \A u \in Threads \ {t} : held'[u] = held[u]
                 /\ held'[t].registry = obj
                 /\ held'[t].transport = held[t].transport /\ held'[t].config = held[t].config
           /\ \A obj \in A2AClient \cup {NoObj} : Hold(t, "transport", obj) =>
                 /\ held' \in [Threads -> Holdings]
                 /\ \A u \in Threads \ {t} : held'[u] = held[u]
                 /\ held'[t].transport = obj
                 /\ held'[t].registry = held[t].registry /\ held'[t].config = held[t].config
           /\ \A obj \in Configs \cup {NoObj} : Hold(t, "config", obj) =>
                 /\ held' \in [Threads -> Holdings]
                 /\ \A u \in Threads \ {t} : held'[u] = held[u]
                 /\ held'[t].config = obj
                 /\ held'[t].registry = held[t].registry /\ held'[t].transport = held[t].transport
<1>1. held[t] \in Holdings
  OBVIOUS
<1>2. ASSUME NEW obj \in Registries \cup {NoObj}, Hold(t, "registry", obj)
      PROVE  /\ held' \in [Threads -> Holdings]
             /\ \A u \in Threads \ {t} : held'[u] = held[u]
             /\ held'[t].registry = obj
             /\ held'[t].transport = held[t].transport /\ held'[t].config = held[t].config
  BY <1>1, <1>2 DEF Hold, Holdings
<1>3. ASSUME NEW obj \in A2AClient \cup {NoObj}, Hold(t, "transport", obj)
      PROVE  /\ held' \in [Threads -> Holdings]
             /\ \A u \in Threads \ {t} : held'[u] = held[u]
             /\ held'[t].transport = obj
             /\ held'[t].registry = held[t].registry /\ held'[t].config = held[t].config
  BY <1>1, <1>3 DEF Hold, Holdings
<1>4. ASSUME NEW obj \in Configs \cup {NoObj}, Hold(t, "config", obj)
      PROVE  /\ held' \in [Threads -> Holdings]
             /\ \A u \in Threads \ {t} : held'[u] = held[u]
             /\ held'[t].config = obj
             /\ held'[t].registry = held[t].registry /\ held'[t].transport = held[t].transport
  BY <1>1, <1>4 DEF Hold, Holdings
<1> QED
  BY <1>2, <1>3, <1>4

\* Once a call reads the globals, they are set.
LEMMA SoundStep ==
    ASSUME Sound, Stages, [Next]_vars
    PROVE  Sound'
<1> USE DEF Goto, globals
<1>0. /\ at \in [Threads -> Places] /\ held \in [Threads -> Holdings]
      /\ limits \in [Threads -> Limits] /\ edits \in 0 .. MaxEdits /\ MaxEdits \in Nat
      /\ _registry \in Registries \cup {NoObj} /\ _transport \in A2AClient \cup {NoObj}
      /\ _config \in Configs \cup {NoObj} /\ raw \in Raws
  BY HandlersAssumption DEF Sound
<1>1. ASSUME NEW t \in Threads, Call(t) \/ Test(t) \/ LoadRaises(t) \/ Look(t)
                                \/ (\E q \in Requests : ResolveRaises(t, q))
      PROVE  Sound'
  <2>1. UNCHANGED <<raw, edits, globals, held, limits>> /\ raced' \in BOOLEAN
    BY <1>1 DEF Sound, Call, Test, TestOf, LoadRaises, FailTo, Look, ResolveRaises
  <2>2. at' \in [Threads -> Places]
    BY <1>0, <1>1 DEF Call, Test, TestOf, LoadRaises, FailTo, Look, ResolveRaises, Places
  <2> QED
    BY <2>1, <2>2 DEF Sound
<1>2. ASSUME NEW t \in Threads, Load(t) PROVE Sound'
  <2>1. _config' \in Configs
    BY <1>0, <1>2, Loaded DEF Load, Makers
  <2>2. at' \in [Threads -> Places]
    BY <1>0, <1>2 DEF Load, Places
  <2> QED
    BY <1>2, <2>1, <2>2 DEF Load, Sound
<1>3. ASSUME NEW t \in Threads, Client(t) PROVE Sound'
  <2>1. _config \in Configs
    BY <1>0, <1>3 DEF Client, Stages, Stage, Started, Places
  <2>2. [by |-> t, default_timeout |-> _config.timeout] \in A2AClient
    BY <2>1 DEF Configs, A2AClient, Makers
  <2>3. held' \in [Threads -> Holdings]
    BY <1>0, <1>3, <2>2, HoldEffect DEF Client
  <2>4. at' \in [Threads -> Places]
    BY <1>0, <1>3 DEF Client, Places
  <2> QED
    BY <1>3, <2>3, <2>4 DEF Client, Sound
<1>4. ASSUME NEW t \in Threads, Transport(t) PROVE Sound'
  <2>1. held[t].transport \in A2AClient \cup {NoObj}
    BY <1>0 DEF Holdings
  <2>2. held' \in [Threads -> Holdings]
    BY <1>0, <1>4, NoObject DEF Transport
  <2>3. at' \in [Threads -> Places]
    BY <1>0, <1>4 DEF Transport, Places
  <2> QED
    BY <1>4, <2>1, <2>2, <2>3 DEF Transport, Sound
<1>5. ASSUME NEW t \in Threads, Build(t) PROVE Sound'
  <2>1. held' \in [Threads -> Holdings]
    BY <1>0, <1>5, HoldEffect DEF Build, BuildWith
  <2>2. at' \in [Threads -> Places]
    BY <1>0, <1>5 DEF Build, BuildWith, Places
  <2> QED
    BY <1>5, <2>1, <2>2 DEF Build, BuildWith, Sound
<1>13. ASSUME NEW t \in Threads, Compose(t) PROVE Sound'
  <2>1. held[t].config \in Configs /\ _transport \in A2AClient
    BY <1>0, <1>13 DEF Compose, Stages, Stage, Places, Holdings
  <2>2. [by |-> t, client |-> _transport, config |-> held[t].config] \in Registries
    BY <2>1 DEF Registries, Makers
  <2>3. held' \in [Threads -> Holdings]
    BY <1>0, <1>13, <2>2, HoldEffect DEF Compose
  <2>4. at' \in [Threads -> Places]
    BY <1>0, <1>13 DEF Compose, Places
  <2> QED
    BY <1>13, <2>3, <2>4 DEF Compose, Sound
<1>6. ASSUME NEW t \in Threads, Store(t) PROVE Sound'
  <2>1. held[t].registry \in Registries \cup {NoObj}
    BY <1>0 DEF Holdings
  <2>2. held' \in [Threads -> Holdings]
    BY <1>0, <1>6, NoObject DEF Store
  <2>3. at' \in [Threads -> Places]
    BY <1>0, <1>6 DEF Store, Places
  <2> QED
    BY <1>6, <2>1, <2>2, <2>3 DEF Store, Sound
<1>7. ASSUME NEW t \in Threads, Read(t) PROVE Sound'
  <2>1. UNCHANGED <<raw, edits, globals, limits, raced>>
    BY <1>7 DEF Read, ReadOf
  <2>2. held' \in [Threads -> Holdings]
    BY <1>0, <1>7, HoldEffect DEF Read, ReadOf
  <2>3. at' \in [Threads -> Places]
    BY <1>0, <1>7 DEF Read, ReadOf, Places
  <2> QED
    BY <2>1, <2>2, <2>3 DEF Sound
<1>8. ASSUME NEW t \in Threads, NEW q \in Requests, NEW n \in 1 .. MaxAgents, Resolve(t, n, q)
      PROVE  Sound'
  <2>1. held[t].config \in Configs
    BY <1>0, <1>8 DEF Resolve, Stages, Stage, Holdings
  <2>2. limits' \in [Threads -> Limits]
    BY <1>0, <1>8, <2>1, Resolved DEF Resolve
  <2>3. at' \in [Threads -> Places]
    BY <1>0, <1>8 DEF Resolve, Places
  <2> QED
    BY <1>8, <2>2, <2>3 DEF Resolve, Sound
<1>9. ASSUME NEW t \in Threads, Return(t) PROVE Sound'
  <2>1. NoLimits \in Limits
    BY DEF NoLimits, Limits, NoRequest, Request, Absent, Values
  <2>2. limits' \in [Threads -> Limits] /\ held' \in [Threads -> Holdings]
    BY <1>0, <1>9, <2>1, NoObject DEF Return
  <2>3. at' \in [Threads -> Places]
    BY <1>0, <1>9 DEF Return, Places
  <2> QED
    BY <1>9, <2>2, <2>3 DEF Return, Sound
<1>10. ASSUME Inject PROVE Sound'
  <2>1. _config' \in Configs
    BY <1>0, <1>10, Loaded DEF Inject, Makers
  <2>2. _transport' \in A2AClient
    BY <1>10, <2>1 DEF Inject, Configs, A2AClient, Makers
  <2>3. _registry' \in Registries
    BY <1>10, <2>1, <2>2 DEF Inject, Registries, Makers
  <2> QED
    BY <1>10, <2>1, <2>2, <2>3 DEF Inject, Sound
<1>11. ASSUME Edit PROVE Sound'
  <2>1. raw' \in Raws /\ edits' \in 0 .. MaxEdits
    BY <1>0, <1>11 DEF Edit
  <2> QED
    BY <1>11, <2>1 DEF Edit, Sound
<1>12. CASE UNCHANGED vars
  BY <1>12 DEF vars, Sound
<1> QED
  BY <1>1, <1>2, <1>3, <1>4, <1>5, <1>6, <1>7, <1>8, <1>9, <1>10, <1>11, <1>12, <1>13
     DEF Next, Components, Run

\* A step of one call leaves what the others are doing alone.
LEMMA OthersStay ==
    ASSUME Sound, NEW t \in Threads, Call(t) \/ Components(t) \/ Run(t),
           NEW u \in Threads, u # t
    PROVE  at'[u] = at[u] /\ held'[u] = held[u] /\ limits'[u] = limits[u]
<1>1. at \in [Threads -> Places] /\ held \in [Threads -> Holdings] /\ limits \in [Threads -> Limits]
  BY DEF Sound
<1>2. CASE Call(t) \/ Test(t) \/ Load(t) \/ LoadRaises(t)
  BY <1>1, <1>2 DEF Call, Test, TestOf, Load, LoadRaises, FailTo, Goto
<1>3. CASE Client(t) \/ Transport(t) \/ Build(t) \/ Compose(t) \/ Store(t) \/ Read(t)
  BY <1>1, <1>3 DEF Client, Transport, Build, BuildWith, Compose, Store, Read, ReadOf, Hold, Goto
<1>4. CASE Run(t)
  BY <1>1, <1>4 DEF Run, Look, Resolve, ResolveRaises, Return, Goto
<1> QED
  BY <1>2, <1>3, <1>4 DEF Components

\* A global that is set stays set, and the registry is set last.
LEMMA GlobalsStay ==
    ASSUME Sound, Stages, [Next]_vars
    PROVE  /\ _config # NoObj => _config' # NoObj
           /\ _transport # NoObj => _transport' # NoObj
           /\ _registry # NoObj => _registry' # NoObj
           /\ _registry' # NoObj => _transport' # NoObj /\ _config' # NoObj
<1> USE DEF globals
<1>0. /\ _registry # NoObj => _transport # NoObj /\ _config # NoObj
      /\ raw \in Raws
  BY DEF Sound, Stages
<1>1. CASE UNCHANGED globals
  BY <1>0, <1>1
<1>2. ASSUME NEW t \in Threads, Load(t)
      PROVE  _config' # NoObj /\ UNCHANGED <<_registry, _transport>>
  BY <1>0, <1>2, Loaded DEF Load, Makers
<1>3. ASSUME NEW t \in Threads, Transport(t)
      PROVE  _transport' # NoObj /\ UNCHANGED <<_registry, _config>>
  BY <1>3 DEF Transport, Stages, Stage
<1>4. ASSUME NEW t \in Threads, Store(t)
      PROVE  /\ _registry' # NoObj /\ UNCHANGED <<_transport, _config>>
             /\ _transport # NoObj /\ _config # NoObj
  BY <1>4 DEF Store, Stages, Stage, Started, Places
<1>5. ASSUME Inject
      PROVE  _config' # NoObj /\ _transport' # NoObj /\ _registry' # NoObj
  <2>1. _config' \in Configs /\ _config' # NoObj
    BY <1>0, <1>5, Loaded DEF Inject, Makers
  <2>2. _transport' \in A2AClient
    BY <1>5, <2>1 DEF Inject, Configs, A2AClient, Makers
  <2>3. _registry' \in Registries
    BY <1>5, <2>1, <2>2 DEF Inject, Registries, Makers
  <2> QED
    BY <2>1, <2>2, <2>3, NoObject
<1>6. ASSUME NEW t \in Threads, Call(t) \/ Test(t) \/ LoadRaises(t) \/ Client(t) \/ Build(t)
                                \/ Compose(t) \/ Read(t) \/ Run(t)
      PROVE  UNCHANGED globals
  BY <1>6 DEF Call, Test, TestOf, LoadRaises, FailTo, Client, Build, BuildWith, Compose, Read,
     ReadOf, Run, Look, Resolve, ResolveRaises, Return
<1>7. ASSUME Edit \/ UNCHANGED vars PROVE UNCHANGED globals
  BY <1>7 DEF Edit, vars
<1> QED
  BY <1>0, <1>1, <1>2, <1>3, <1>4, <1>5, <1>6, <1>7 DEF Next, Components

\* A call goes on with what it needs.
LEMMA StagesStep ==
    ASSUME Sound, Stages, [Next]_vars
    PROVE  Stages'
<1> USE DEF Goto, globals
<1>0. /\ at \in [Threads -> Places] /\ held \in [Threads -> Holdings]
      /\ _registry \in Registries \cup {NoObj} /\ _transport \in A2AClient \cup {NoObj}
      /\ _config \in Configs \cup {NoObj} /\ raw \in Raws
      /\ \A t \in Threads : Stage(t)
  BY DEF Sound, Stages
<1>1. /\ _config # NoObj => _config' # NoObj
      /\ _transport # NoObj => _transport' # NoObj
      /\ _registry # NoObj => _registry' # NoObj
      /\ _registry' # NoObj => _transport' # NoObj /\ _config' # NoObj
  BY GlobalsStay
<1>2. ASSUME NEW t \in Threads, UNCHANGED <<at[t], held[t]>> PROVE Stage(t)'
  BY <1>0, <1>1, <1>2 DEF Stage
<1>3. ASSUME NEW t \in Threads, Call(t) \/ Components(t) \/ Run(t) PROVE Stage(t)'
  <2> USE DEF Stage, Started, Served, Places
  <2>1. CASE Call(t) \/ Test(t) \/ LoadRaises(t)
    BY <1>0, <1>1, <2>1 DEF Call, Test, TestOf, LoadRaises, FailTo
  <2>2. CASE Load(t)
    <3>1. _config' # NoObj
      BY <1>0, <2>2, Loaded DEF Load, Makers
    <3> QED
      BY <1>0, <2>2, <3>1 DEF Load
  <2>3. CASE Client(t)
    <3>1. _config \in Configs /\ _config' = _config
      BY <1>0, <2>3 DEF Client
    <3>2. [by |-> t, default_timeout |-> _config.timeout] \in A2AClient
      BY <3>1 DEF Configs, A2AClient, Makers
    <3>3. held'[t].transport = [by |-> t, default_timeout |-> _config.timeout]
      BY <1>0, <2>3, <3>2, HoldEffect DEF Client
    <3>4. at'[t] = "transport" /\ held'[t].transport # NoObj
      BY <1>0, <2>3, <3>2, <3>3, NoObject DEF Client
    <3> QED
      BY <1>0, <3>1, <3>4, NoObject
  <2>4. CASE Transport(t)
    <3>1. held[t].transport # NoObj /\ at'[t] = "build" /\ _transport' = held[t].transport
          /\ _config # NoObj
      BY <1>0, <2>4 DEF Transport
    <3> QED
      BY <1>1, <3>1
  <2>5. CASE Build(t)
    <3>1. _config # NoObj /\ _transport # NoObj /\ UNCHANGED globals
      BY <1>0, <2>5 DEF Build, BuildWith
    <3>2. at'[t] = "compose" /\ held'[t].config = _config
      BY <1>0, <2>5, HoldEffect DEF Build, BuildWith
    <3> QED
      BY <3>1, <3>2
  <2>9. CASE Compose(t)
    <3>1. held[t].config \in Configs /\ _transport \in A2AClient /\ UNCHANGED globals
      BY <1>0, <2>9 DEF Compose, Holdings
    <3>2. [by |-> t, client |-> _transport, config |-> held[t].config] \in Registries
      BY <3>1 DEF Registries, Makers
    <3>3. held'[t].registry = [by |-> t, client |-> _transport, config |-> held[t].config]
      BY <1>0, <2>9, <3>2, HoldEffect DEF Compose
    <3>4. at'[t] = "store" /\ held'[t].registry # NoObj /\ _config # NoObj
      BY <1>0, <2>9, <3>2, <3>3, NoObject DEF Compose
    <3> QED
      BY <3>1, <3>4, NoObject
  <2>6. CASE Store(t)
    <3>1. at'[t] = "registry" /\ _registry' # NoObj
      BY <1>0, <2>6 DEF Store
    <3> QED
      BY <1>1, <3>1
  <2>7. CASE Read(t)
    <3>0. UNCHANGED globals /\ _registry # NoObj /\ _transport # NoObj /\ _config # NoObj
      BY <1>0, <2>7 DEF Read, ReadOf
    <3>1. CASE ReadOf(t, "registry", "registry", _registry, "read_transport")
      <4>1. at'[t] = "read_transport" /\ held'[t].registry = _registry
        BY <1>0, <3>1, HoldEffect DEF ReadOf
      <4> QED
        BY <3>0, <4>1
    <3>2. CASE ReadOf(t, "read_transport", "transport", _transport, "read_config")
      <4>1. at'[t] = "read_config" /\ held'[t].transport = _transport
            /\ held'[t].registry = held[t].registry /\ held[t].registry # NoObj
        BY <1>0, <3>2, HoldEffect DEF ReadOf
      <4> QED
        BY <3>0, <4>1
    <3>3. CASE ReadOf(t, "read_config", "config", _config, "go")
      <4>1. at'[t] = "go" /\ held'[t].config = _config
            /\ held'[t].registry = held[t].registry /\ held[t].registry # NoObj
            /\ held'[t].transport = held[t].transport /\ held[t].transport # NoObj
        BY <1>0, <3>3, HoldEffect DEF ReadOf
      <4> QED
        BY <3>0, <4>1
    <3> QED
      BY <2>7, <3>1, <3>2, <3>3 DEF Read
  <2>8. CASE Run(t)
    <3>1. UNCHANGED globals
      BY <2>8 DEF Run, Look, Resolve, ResolveRaises, Return
    <3>2. \/ at[t] = "go" /\ at'[t] \in {"done", "raised"} /\ held' = held
          \/ at'[t] = "idle"
      BY <1>0, <2>8 DEF Run, Look, Resolve, ResolveRaises, Return
    <3> QED
      BY <1>0, <3>1, <3>2
  <2> QED
    BY <1>3, <2>1, <2>2, <2>3, <2>4, <2>5, <2>6, <2>7, <2>8, <2>9 DEF Components
<1>4. ASSUME NEW t \in Threads, Call(t) \/ Components(t) \/ Run(t) PROVE Stages'
  BY <1>1, <1>2, <1>3, <1>4, OthersStay DEF Stages
<1>5. CASE Inject \/ Edit \/ UNCHANGED vars
  BY <1>1, <1>2, <1>5 DEF Inject, Edit, vars, Stages
<1> QED
  BY <1>4, <1>5 DEF Next

\* While one call builds alone, the others have not found a registry.
LEMMA BuilderIsAlone ==
    ASSUME Sound, Stages, Alone, ~raced, NEW t \in Building
    PROVE  /\ _registry = NoObj
           /\ \A u \in Threads \ {t} : u \notin Building /\ at[u] \notin Served
<1>1. _registry = NoObj
  BY DEF Building, Alone, Builds
<1> QED
  BY <1>1 DEF Alone, Stages, Stage

\* What a call gets fits together, unless two have been building at once.
LEMMA AloneStep ==
    ASSUME Sound, Stages, Alone, [Next]_vars
    PROVE  Alone'
<1> SUFFICES ASSUME ~raced'
             PROVE  /\ \A t, u \in Building' : t = u
                    /\ _registry' # NoObj => Matching'
                    /\ \A t \in Threads : Builds(t)'
  BY DEF Alone
<1> USE DEF Goto, globals
<1>0. /\ at \in [Threads -> Places] /\ held \in [Threads -> Holdings]
      /\ _registry \in Registries \cup {NoObj} /\ _transport \in A2AClient \cup {NoObj}
      /\ _config \in Configs \cup {NoObj} /\ raw \in Raws
      /\ \A t \in Threads : Stage(t)
  BY DEF Sound, Stages
<1>1. ~raced => /\ \A t, u \in Building : t = u
                /\ _registry # NoObj => Matching
                /\ \A t \in Threads : Builds(t)
  BY DEF Alone
<1>2. ASSUME ~raced, UNCHANGED globals, NEW t \in Threads,
             Call(t) \/ Components(t) \/ Run(t), Builds(t)',
             t \in Building' => t \in Building
      PROVE  /\ \A u, v \in Building' : u = v
             /\ _registry' # NoObj => Matching'
             /\ \A u \in Threads : Builds(u)'
  <2>1. \A u \in Threads \ {t} : at'[u] = at[u] /\ held'[u] = held[u]
    BY <1>2, OthersStay DEF Sound
  <2>2. Building' \subseteq Building
    BY <1>2, <2>1 DEF Building
  <2>3. _registry' # NoObj => Matching'
    BY <1>1, <1>2 DEF Matching, Fits
  <2>4. ASSUME NEW u \in Threads, u # t PROVE Builds(u)'
    <3>1. Builds(u) /\ at'[u] = at[u] /\ held'[u] = held[u]
      BY <1>1, <1>2, <2>1, <2>4
    <3> QED
      BY <1>2, <3>1 DEF Builds, Fits
  <2> QED
    BY <1>1, <1>2, <2>2, <2>3, <2>4
<1>3. ASSUME ~raced, NEW t \in Building, Components(t), Builds(t)', _registry' # NoObj => Matching'
      PROVE  /\ \A u, v \in Building' : u = v
             /\ _registry' # NoObj => Matching'
             /\ \A u \in Threads : Builds(u)'
  <2>1. t \in Threads /\ \A u \in Threads \ {t} : at'[u] = at[u] /\ held'[u] = held[u]
    BY <1>3, OthersStay DEF Building
  <2>2. \A u \in Threads \ {t} : u \notin Building /\ at[u] \notin Served
    BY <1>3, BuilderIsAlone
  <2>3. \A u \in Threads \ {t} : u \notin Building' /\ Builds(u)'
    BY <2>1, <2>2 DEF Building, Builds, Served
  <2> QED
    BY <1>3, <2>1, <2>3 DEF Building
<1>4. ASSUME NEW t \in Threads, Call(t) \/ LoadRaises(t) \/ Run(t) PROVE Alone'
  <2>1. ~raced /\ UNCHANGED globals
        /\ at'[t] \in {"test", "raised", "done", "idle"}
    BY <1>0, <1>4 DEF Call, LoadRaises, FailTo, Run, Look, Resolve, ResolveRaises, Return
  <2>2. Builds(t)' /\ t \notin Building'
    BY <2>1 DEF Builds, Building
  <2> QED
    BY <1>2, <1>4, <2>1, <2>2 DEF Alone, Components
<1>5. ASSUME NEW t \in Threads, Test(t) PROVE Alone'
  <2>1. /\ ~raced /\ UNCHANGED globals
        /\ at' = [at EXCEPT ![t] = IF _registry = NoObj THEN "load" ELSE "registry"]
        /\ at[t] = "test" /\ ~(_registry = NoObj /\ Building # {})
    BY <1>5 DEF Test, TestOf
  <2>2. CASE _registry = NoObj
    <3>1. Building = {} /\ at'[t] = "load" /\ \A u \in Threads \ {t} : at'[u] = at[u] /\ held'[u] = held[u]
      BY <1>0, <1>5, <2>1, <2>2 DEF Test, TestOf
    <3>2. ASSUME NEW u \in Threads, u # t PROVE u \notin Building' /\ Builds(u)'
      <4>1. at[u] \notin Served /\ u \notin Building
        BY <1>0, <2>2, <3>1 DEF Stage
      <4> QED
        BY <3>1, <3>2, <4>1 DEF Building, Builds, Served
    <3>3. Builds(t)'
      BY <2>1, <2>2, <3>1 DEF Builds
    <3>4. \A u, v \in Building' : u = v
      BY <3>2 DEF Building
    <3> QED
      BY <2>1, <2>2, <3>2, <3>3, <3>4 DEF Alone
  <2>3. CASE _registry # NoObj
    <3>1. at'[t] = "registry"
      BY <1>0, <2>1, <2>3
    <3>2. Builds(t)' /\ t \notin Building'
      BY <3>1 DEF Builds, Building
    <3> QED
      BY <1>2, <1>5, <2>1, <3>2 DEF Alone, Components
  <2> QED
    BY <2>2, <2>3
<1>6. ASSUME NEW t \in Threads, Load(t) \/ Client(t) \/ Transport(t) \/ Build(t) \/ Compose(t)
                                \/ Store(t)
      PROVE  Alone'
  <2>1. ~raced /\ t \in Building /\ Components(t)
    BY <1>6 DEF Load, Client, Transport, Build, BuildWith, Compose, Store, Building, Components
  <2>2. _registry = NoObj /\ Builds(t)
    BY <1>1, <2>1, BuilderIsAlone
  <2>3. Builds(t)' /\ (_registry' # NoObj => Matching')
    <3>1. CASE Load(t)
      BY <1>0, <2>2, <3>1 DEF Load, Builds
    <3>2. CASE Client(t)
      <4>1. _config \in Configs
        BY <1>0, <3>2 DEF Client, Stage, Started, Places
      <4>2. [by |-> t, default_timeout |-> _config.timeout] \in A2AClient
        BY <4>1 DEF Configs, A2AClient, Makers
      <4>3. held'[t].transport = [by |-> t, default_timeout |-> _config.timeout]
        BY <1>0, <3>2, <4>2, HoldEffect DEF Client
      <4>4. at'[t] = "transport" /\ UNCHANGED globals
        BY <1>0, <3>2 DEF Client
      <4>5. held'[t].transport.default_timeout = _config'.timeout
        BY <4>3, <4>4
      <4> QED
        BY <2>2, <4>4, <4>5 DEF Builds
    <3>3. CASE Transport(t)
      <4>1. at'[t] = "build" /\ _transport' = held[t].transport /\ UNCHANGED <<_registry, _config>>
        BY <1>0, <3>3 DEF Transport
      <4>2. held[t].transport.default_timeout = _config.timeout
        BY <2>2, <3>3 DEF Transport, Builds
      <4> QED
        BY <2>2, <4>1, <4>2 DEF Builds, Fits
    <3>4. CASE Build(t)
      <4>1. held'[t].config = _config
        BY <1>0, <3>4, HoldEffect DEF Build, BuildWith
      <4>2. at'[t] = "compose" /\ UNCHANGED globals /\ Fits
        BY <1>0, <2>2, <3>4 DEF Build, BuildWith, Builds
      <4>3. held'[t].config = _config' /\ Fits'
        BY <4>1, <4>2 DEF Fits
      <4> QED
        BY <2>2, <4>2, <4>3 DEF Builds
    <3>6. CASE Compose(t)
      <4>1. held[t].config \in Configs /\ _transport \in A2AClient /\ held[t].config = _config
        BY <1>0, <2>2, <3>6 DEF Compose, Stage, Places, Holdings, Builds
      <4>2. [by |-> t, client |-> _transport, config |-> held[t].config] \in Registries
        BY <4>1 DEF Registries, Makers
      <4>3. held'[t].registry = [by |-> t, client |-> _transport, config |-> held[t].config]
        BY <1>0, <3>6, <4>2, HoldEffect DEF Compose
      <4>4. at'[t] = "store" /\ UNCHANGED globals /\ Fits
        BY <1>0, <2>2, <3>6 DEF Compose, Builds
      <4>5. held'[t].registry.client = _transport' /\ held'[t].registry.config = _config' /\ Fits'
        BY <4>1, <4>3, <4>4 DEF Fits
      <4> QED
        BY <2>2, <4>4, <4>5 DEF Builds
    <3>5. CASE Store(t)
      <4>1. at'[t] = "registry" /\ _registry' = held[t].registry /\ UNCHANGED <<_transport, _config>>
        BY <1>0, <3>5 DEF Store
      <4>2. held[t].registry.client = _transport /\ held[t].registry.config = _config /\ Fits
        BY <2>2, <3>5 DEF Store, Builds
      <4> QED
        BY <4>1, <4>2 DEF Builds, Matching, Fits
    <3> QED
      BY <1>6, <3>1, <3>2, <3>3, <3>4, <3>5, <3>6
  <2> QED
    BY <1>3, <2>1, <2>3 DEF Alone
<1>7. ASSUME NEW t \in Threads, Read(t) PROVE Alone'
  <2>1. ~raced /\ UNCHANGED globals /\ Components(t)
    <3>1. Components(t)
      BY <1>7 DEF Components
    <3>2. UNCHANGED <<raw, edits, globals, limits, raced>>
      BY <1>7 DEF Read, ReadOf
    <3>3. UNCHANGED raced /\ UNCHANGED globals
      BY <3>2
    <3> QED
      BY <3>1, <3>3
  <2>2. Builds(t) /\ t \in Threads
    BY <1>1, <2>1
  <2>3. Builds(t)' /\ t \notin Building'
    <3>1. CASE ReadOf(t, "registry", "registry", _registry, "read_transport")
      <4>1. at'[t] = "read_transport" /\ held'[t].registry = _registry
        BY <1>0, <3>1, HoldEffect DEF ReadOf
      <4> QED
        BY <2>1, <4>1 DEF Builds, Building
    <3>2. CASE ReadOf(t, "read_transport", "transport", _transport, "read_config")
      <4>1. at'[t] = "read_config" /\ held'[t].transport = _transport
            /\ held'[t].registry = held[t].registry /\ held[t].registry = _registry
        BY <1>0, <2>2, <3>2, HoldEffect DEF ReadOf, Builds
      <4> QED
        BY <2>1, <4>1 DEF Builds, Building
    <3>3. CASE ReadOf(t, "read_config", "config", _config, "go")
      <4>1. at'[t] = "go" /\ held'[t].config = _config
            /\ held'[t].registry = held[t].registry /\ held[t].registry = _registry
            /\ held'[t].transport = held[t].transport /\ held[t].transport = _transport
        BY <1>0, <2>2, <3>3, HoldEffect DEF ReadOf, Builds
      <4> QED
        BY <2>1, <4>1 DEF Builds, Building
    <3> QED
      BY <1>7, <3>1, <3>2, <3>3 DEF Read
  <2> QED
    BY <1>2, <2>1, <2>3 DEF Alone
<1>8. ASSUME Inject PROVE Alone'
  <2>1. \A t \in Threads : at'[t] = "idle"
    BY <1>8 DEF Inject
  <2>2. Building' = {} /\ \A t \in Threads : Builds(t)'
    BY <2>1 DEF Building, Builds
  <2>3. _config' \in Configs
    BY <1>0, <1>8, Loaded DEF Inject, Makers
  <2>4. Matching'
    BY <1>8, <2>3 DEF Inject, Matching, Fits
  <2> QED
    BY <2>2, <2>4 DEF Alone
<1>9. CASE Edit \/ UNCHANGED vars
  <2>1. ~raced /\ UNCHANGED <<globals, at, held>>
    BY <1>9 DEF Edit, vars
  <2> QED
    BY <1>1, <2>1 DEF Building, Builds, Fits, Matching
<1> QED
  BY <1>4, <1>5, <1>6, <1>7, <1>8, <1>9 DEF Next, Components, Alone

\* A call's limits are set once, from the configuration it holds.
LEMMA LimitedStep ==
    ASSUME Sound, Stages, Limited, [Next]_vars
    PROVE  Limited'
<1> USE DEF Goto
<1>0. /\ at \in [Threads -> Places] /\ held \in [Threads -> Holdings]
      /\ limits \in [Threads -> Limits]
      /\ \A t \in Threads : Stage(t) /\ Limit(t)
  BY DEF Sound, Stages, Limited
<1>1. ASSUME NEW t \in Threads, UNCHANGED <<at[t], held[t], limits[t]>> PROVE Limit(t)'
  BY <1>0, <1>1 DEF Limit
<1>2. ASSUME NEW t \in Threads, Call(t) \/ Components(t) \/ Look(t)
                                \/ (\E q \in Requests : ResolveRaises(t, q))
      PROVE  Limit(t)'
  <2>1. at[t] # "done" /\ limits' = limits
    BY <1>2 DEF Call, Components, Test, TestOf, Load, LoadRaises, FailTo, Client, Transport, Build,
       BuildWith, Compose, Store, Read, ReadOf, Look, ResolveRaises
  <2> QED
    BY <1>0, <2>1 DEF Limit
<1>3. ASSUME NEW t \in Threads, NEW q \in Requests, NEW n \in 1 .. MaxAgents, Resolve(t, n, q)
      PROVE  Limit(t)'
  <2>1. held[t].config \in Configs
    BY <1>0, <1>3 DEF Resolve, Stage, Holdings
  <2>2. limits'[t] \in Limits /\ Respected(limits'[t], held[t].config)
    BY <1>0, <1>3, <2>1, Resolved DEF Resolve
  <2>3. held' = held /\ at'[t] = "done"
    BY <1>0, <1>3 DEF Resolve
  <2> QED
    BY <2>2, <2>3 DEF Limit
<1>4. ASSUME NEW t \in Threads, Return(t) PROVE Limit(t)'
  BY <1>0, <1>4 DEF Return, Limit
<1>5. ASSUME NEW t \in Threads, Call(t) \/ Components(t) \/ Run(t) PROVE Limited'
  <2>1. Limit(t)'
    BY <1>2, <1>3, <1>4, <1>5 DEF Run
  <2>2. \A u \in Threads \ {t} : Limit(u)'
    BY <1>1, <1>5, OthersStay
  <2> QED
    BY <2>1, <2>2 DEF Limited
<1>6. CASE Inject \/ Edit \/ UNCHANGED vars
  BY <1>1, <1>6 DEF Inject, Edit, vars, Limited
<1> QED
  BY <1>5, <1>6 DEF Next

-------------------------------------------------------------------------------
(***************************************************************************)
(* The theorems.                                                           *)
(***************************************************************************)

\* Before the first call there is nothing.
LEMMA Initially == Init => HandlersInv
<1> SUFFICES ASSUME Init PROVE HandlersInv
  OBVIOUS
<1>1. NoLimits \in Limits
  BY DEF NoLimits, Limits, NoRequest, Request, Absent, Values
<1>2. at = [t \in Threads |-> "idle"] /\ held = [t \in Threads |-> Nothing]
      /\ limits = [t \in Threads |-> NoLimits] /\ edits = 0 /\ MaxEdits \in Nat
  BY HandlersAssumption DEF Init
<1>3. at \in [Threads -> Places] /\ held \in [Threads -> Holdings] /\ limits \in [Threads -> Limits]
  BY <1>1, <1>2, NoObject DEF Places
<1>4. Sound
  <2>1. edits \in 0 .. MaxEdits
    BY <1>2
  <2> QED
    BY <1>3, <2>1 DEF Init, Sound
<1>5. Stages
  BY <1>2 DEF Init, Stages, Stage, Started, Served
<1>6. Alone
  BY <1>2 DEF Init, Alone, Builds, Building
<1>7. Limited
  BY <1>2 DEF Limited, Limit
<1> QED
  BY <1>4, <1>5, <1>6, <1>7 DEF HandlersInv

\* Every reachable state satisfies the inductive invariant.
THEOREM Invariance == Spec => []HandlersInv
<1>1. HandlersInv /\ [Next]_vars => HandlersInv'
  BY SoundStep, StagesStep, AloneStep, LimitedStep DEF HandlersInv
<1> QED
  BY <1>1, Initially, PTL DEF Spec

\* Types.
THEOREM TypeCorrect == Spec => []TypeOK
<1>1. Configs \subseteq FleetConfig
  BY DEF Configs, FleetConfig, Deadlines
<1>2. Registries \subseteq Registry
  BY <1>1 DEF Registries, Registry
<1>3. Holdings \subseteq [registry : Registry \cup {NoObj}, transport : A2AClient \cup {NoObj},
                          config : FleetConfig \cup {NoObj}]
  BY <1>1, <1>2 DEF Holdings
<1>4. ASSUME HandlersInv PROVE TypeOK
  BY <1>1, <1>2, <1>3, <1>4 DEF HandlersInv, Sound, TypeOK
<1> QED
  BY <1>4, Invariance, PTL

\* However first calls interleave, a call that goes to work has all its components.
THEOREM AlwaysComplete == Spec => []Complete
<1>1. HandlersInv => Complete
  BY DEF HandlersInv, Stages, Stage, Complete
<1> QED
  BY <1>1, Invariance, PTL

\* They belong together, unless two calls have been building at the same time.
THEOREM AlwaysOneTransport == Spec => []OneTransport
<1>1. ASSUME HandlersInv PROVE OneTransport
  <2> SUFFICES ASSUME ~raced, NEW t \in Threads, at[t] = "go"
               PROVE  /\ held[t].registry.client = held[t].transport
                      /\ held[t].registry.config = held[t].config
                      /\ held[t].transport.default_timeout = held[t].config.timeout
    BY DEF OneTransport
  <2>1. _registry # NoObj
    BY <1>1 DEF HandlersInv, Stages, Stage, Served
  <2>2. Builds(t) /\ Matching
    BY <1>1, <2>1 DEF HandlersInv, Alone
  <2> QED
    BY <2>2 DEF Builds, Matching, Fits
<1> QED
  BY <1>1, Invariance, PTL

\* Nothing in the arguments or the file gets a call more workers than allowed or asked
\* for, none at all, a deadline in the past, or another than the one it asked for.
THEOREM LimitsHold == Spec => []LimitsRespected
<1>1. HandlersInv => LimitsRespected
  BY DEF HandlersInv, Limited, Limit, Respected, LimitsRespected
<1> QED
  BY <1>1, Invariance, PTL

-------------------------------------------------------------------------------
(***************************************************************************)
(* Every call ends.  FairSpec asks weak fairness of each thread's steps.    *)
(* Scheduled is the same with the condition for a step written out instead  *)
(* of ENABLED: a thread with a call under way always has a step to take     *)
(* (NeverBlocked), so it takes steps again and again or is idle again and   *)
(* again.                                                                  *)
(***************************************************************************)
Work(t) == Components(t) \/ Run(t)
Scheduled(t) == []<>(at[t] = "idle") \/ []<><<Work(t)>>_vars

\* The guards of the steps of a call.
Ready(t) ==
    \/ at[t] \in {"test", "client", "transport", "build", "compose", "store", "registry",
                  "read_transport", "read_config", "go", "done", "raised"}
    \/ at[t] = "load" /\ Loadable(raw)
    \/ at[t] = "load" /\ ~Loadable(raw)

\* The number of steps a call may still take.
Left == [place \in Places |->
    CASE place = "idle"           -> 0
      [] place \in {"done", "raised"} -> 1
      [] place = "go"             -> 2
      [] place = "read_config"    -> 3
      [] place = "read_transport" -> 4
      [] place = "registry"       -> 5
      [] place = "store"          -> 6
      [] place = "compose"        -> 7
      [] place = "build"          -> 8
      [] place = "transport"      -> 9
      [] place = "client"         -> 10
      [] place = "load"           -> 11
      [] OTHER                    -> 12]

Within(t, k) == at[t] # "idle" /\ Left[at[t]] <= k
Over(t) == at[t] = "idle"

\* Left, place by place.
LEMMA LeftAt ==
    /\ Left["idle"] = 0 /\ Left["done"] = 1 /\ Left["raised"] = 1
    /\ Left["go"] = 2 /\ Left["read_config"] = 3 /\ Left["read_transport"] = 4
    /\ Left["registry"] = 5 /\ Left["store"] = 6 /\ Left["compose"] = 7
    /\ Left["build"] = 8 /\ Left["transport"] = 9 /\ Left["client"] = 10
    /\ Left["load"] = 11 /\ Left["test"] = 12
  BY DEF Left, Places

\* Whatever the file says at the moment, a call that has begun can take a step.
THEOREM NeverBlocked == Spec => [](\A t \in Threads : at[t] # "idle" => Ready(t))
<1>1. HandlersInv => \A t \in Threads : at[t] # "idle" => Ready(t)
  BY DEF HandlersInv, Sound, Places, Ready
<1> QED
  BY <1>1, Invariance, PTL

\* A step of a call uses one up, also when it skips some.
LEMMA WorkCounts ==
    ASSUME Sound, NEW t \in Threads, Work(t)
    PROVE  Left[at[t]'] < Left[at[t]]
<1>0. at \in [Threads -> Places]
  BY DEF Sound
<1>1. CASE Components(t)
  BY <1>0, <1>1, LeftAt DEF Components, Test, TestOf, Load, LoadRaises, FailTo, Client, Transport,
     Build, BuildWith, Compose, Store, Read, ReadOf, Goto
<1>2. CASE Run(t)
  BY <1>0, <1>2, LeftAt DEF Run, Look, Resolve, ResolveRaises, Return, Goto
<1> QED
  BY <1>1, <1>2 DEF Work

\* No other thread, no injection and no edit gives them back.
LEMMA OthersDoNotCount ==
    ASSUME Sound, [Next]_vars, NEW t \in Threads, at[t] # "idle", ~Work(t)
    PROVE  at'[t] = at[t]
<1>1. ASSUME NEW u \in Threads, Call(u) \/ Components(u) \/ Run(u) PROVE at'[t] = at[t]
  <2>1. CASE u = t
    BY <1>1, <2>1 DEF Call, Work
  <2>2. CASE u # t
    BY <1>1, <2>2, OthersStay
  <2> QED
    BY <2>1, <2>2
<1>2. CASE Inject \/ Edit \/ UNCHANGED vars
  BY <1>2 DEF Inject, Edit, vars
<1> QED
  BY <1>1, <1>2 DEF Next

Descends(t, k, j) ==
    /\ Within(t, k) /\ [Next]_vars => Within(t, k)' \/ Within(t, j)' \/ Over(t)'
    /\ Within(t, k) /\ <<Work(t)>>_vars => Within(t, j)' \/ Over(t)'

\* No step takes a call further from its end, and its own bring it nearer.
LEMMA OneLess ==
    ASSUME NEW t \in Threads, NEW k \in 1 .. 12, NEW j \in 0 .. 11, k = j + 1
    PROVE  HandlersInv => Descends(t, k, j)
<1>0. \A p \in Places : Left[p] \in 0 .. 12
  BY LeftAt DEF Places
<1> SUFFICES ASSUME HandlersInv, Within(t, k), [Next]_vars
             PROVE  /\ Left[at'[t]] <= k
                    /\ Work(t) => Left[at'[t]] <= j
  BY DEF Within, Over, Descends, Next, Work
<1>1. Sound /\ at[t] \in Places /\ Left[at[t]] <= k
  BY DEF HandlersInv, Sound, Within
<1>2. at'[t] \in Places
  BY SoundStep DEF HandlersInv, Sound
<1>3. CASE Work(t)
  BY <1>0, <1>1, <1>2, <1>3, WorkCounts
<1>4. CASE ~Work(t)
  BY <1>1, <1>4, OthersDoNotCount DEF Within
<1> QED
  BY <1>3, <1>4

\* Every call returns or raises, for every set of threads and whatever the file says:
\* it has at most twelve steps to go when it begins.
THEOREM EveryCallEnds == Spec /\ (\A t \in Threads : Scheduled(t)) => CallReturns
<1> SUFFICES ASSUME NEW t \in Threads
             PROVE  Spec /\ Scheduled(t) => (at[t] # "idle" ~> at[t] = "idle")
  BY DEF CallReturns
<1>14. HandlersInv => (at[t] # "idle" => Within(t, 12))
  BY LeftAt DEF HandlersInv, Sound, Within, Places
<1>12. HandlersInv => Descends(t, 12, 11)
  BY OneLess
<1>11. HandlersInv => Descends(t, 11, 10)
  BY OneLess
<1>10. HandlersInv => Descends(t, 10, 9)
  BY OneLess
<1>9. HandlersInv => Descends(t, 9, 8)
  BY OneLess
<1>8. HandlersInv => Descends(t, 8, 7)
  BY OneLess
<1>7. HandlersInv => Descends(t, 7, 6)
  BY OneLess
<1>6. HandlersInv => Descends(t, 6, 5)
  BY OneLess
<1>5. HandlersInv => Descends(t, 5, 4)
  BY OneLess
<1>4. HandlersInv => Descends(t, 4, 3)
  BY OneLess
<1>3. HandlersInv => Descends(t, 3, 2)
  BY OneLess
<1>2. HandlersInv => Descends(t, 2, 1)
  BY OneLess
<1>1. HandlersInv => Descends(t, 1, 0)
  BY OneLess
<1>0. HandlersInv => ~Within(t, 0)
  BY LeftAt DEF HandlersInv, Sound, Within, Places
<1>13. Within(t, 1) => ~(at[t] = "idle")
  BY DEF Within
<1> QED
  BY <1>14, <1>12, <1>11, <1>10, <1>9, <1>8, <1>7, <1>6, <1>5, <1>4, <1>3, <1>2, <1>1, <1>0, Invariance, PTL DEF Spec, Scheduled, Descends, Over
===============================================================================
