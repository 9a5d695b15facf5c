# A2A fleet: TLA+ models, checks and proofs

This directory holds a formal model of `hermes_a2a_fleet`, the plugin that discovers the
A2A agents of a fleet and sends them work. It contains TLA+ modules translated from the
source, TLC configurations that check them on small instances, and TLAPS proofs for every
value of the constants. Line numbers below are those of `src/hermes_a2a_fleet/`.

    tlc -workers 2 -config Scatter.cfg MCScatter      # model-check one instance
    tlapm ScatterProofs.tla                           # check the proofs of one module

`PROJECT.json` lists the runs, the mutants (for each property, a plausible bug in a mapped
definition that makes TLC refute it), the findings, the hazards and, for every definition,
the lines it stands for.

## 1. Inventory

| part | state | operations | who calls it |
|---|---|---|---|
| `tools.py` handlers | `_registry`, `_transport`, `_config` (lazily built, no lock); `_tasks` under `_tasks_lock` | discover, broadcast, dispatch, chain, submit, poll | the host application, from several threads |
| `registry.py` `Registry` | `_cache`, `_fetched_at`: two plain attributes, no lock | `refresh`, `list`, `get` | every handler |
| `sources/` | static and tailnet: none; mDNS: `_started`, `_available`, `_peers` under two locks | `discover` | `Registry.refresh` |
| `auth.py` | none (a closure over two tables) | `resolve(url)` | `Registry._verify`, for discovered peers |
| `client.py` `A2AClient` | none that changes | `send_message`, `get_task`, `fetch_card`, `interpret_result` | registry, scatter, chain, submit, poll |
| `fanout.py` `scatter` | per call: a thread pool, the pending futures, the results | `scatter`, `fan_out` | broadcast and dispatch |
| `chain.py` `run_chain` | per call: the text handed on, the trace | `run_chain` | the chain handler |
| `config.py` | none (reads a file that may be edited) | `load_fleet_config` | the first tool call |
| `types.py`, `__init__.py` | none | records, registration | at start-up |

How they interact. A handler asks the registry for peers (`list`, `get`), which may sweep
all sources and verify each candidate over the network. The handler then posts one message
(submit, poll), a sequence of messages (chain) or a set of them on a thread pool (scatter),
and decodes every response with the same `interpret_result`. Handlers run concurrently and
share the registry's cache, the tracker's table and the mDNS listener. zeroconf's own
threads call back into the listener. The worker threads of a scatter outlive their call.

What is hard, and what makes each part correct:

- **scatter**. Results, the first success, the deadline and the shutdown meet in any order;
  a queued item can be popped while the queue is being drained; a peer that trickles bytes
  is bounded by no socket timeout. *Correct when*: each item gets exactly one result, its own
  answer or the one label that was earned; nothing is posted twice; at most one message per
  thread starts after the shutdown; a call with a deadline ends, and leaves nothing queued.
- **tracker**. The network exchange of a submit or poll lies between critical sections, so
  the entry may be evicted or replaced meanwhile, and names and ids are not unique.
  *Correct when*: the table stays within its limit, an entry leaves only when its task is
  over or it is the oldest of a full table, and a poll reaches the peer that has the task.
- **chain**. The registry may change while names are resolved, and a link can break by
  transport, by outcome or by an answer that is not final. *Correct when*: the trace is what
  happened on the wire, each agent gets the final reply of the one before, and an unknown
  name anywhere means that nobody is contacted.
- **registry**. Sweeps overlap, sources raise, peers come and go, cards advertise any URL, and
  the cache and stamp are written in two statements. *Correct when*: whatever is published has
  one entry per URL in name order, each peer is called at the origin it was verified at with
  the token that is for that origin, no call returns the cache of before the first sweep, and
  the roster comes to be that of a world that stands still.
- **mDNS listener**. Double-checked start with failures half way, and callbacks that race
  the services they describe. *Correct when*: there is one Zeroconf, whoever was told mDNS is
  available is being served, the live set has no ghosts and is current, every discover ends.
- **lazy components and limits**. Two first calls both build the triple; the configuration
  may be garbage or make the loading raise; arguments may be any JSON value. *Correct when*: a
  call has all three components, they belong together unless first calls raced, the pool and
  the deadline are within bounds, and every call returns or raises.
- **sources, auth, configuration** (stateless). Precedence and boundary values: which entry
  of a URL comes first, which token is most specific, which port does not parse.

## 2. Modules

| module | models | proofs | instances |
|---|---|---|---|
| `A2AOutcome` | what one exchange means (`client.py:159-261`) | | used by the next four |
| `Sorting` | `list.sort(key=...)` (`fanout.py:112`, `registry.py:191`) | `SortingProofs` | used by two |
| `Scatter` | `scatter` with its pool (`fanout.py:25-113`) | `ScatterProofs` | `MCScatter` |
| `Batch` | abstract: what a scatter call promises | refined by `Scatter` | |
| `TaskTracker` | submit and poll (`tools.py:33-43`, `203-289`) | `TaskTrackerProofs` | `MCTaskTracker` |
| `Ledger` | abstract: what submit and poll promise together | refined by `TaskTracker` | |
| `Chain` | the chain handler and `run_chain` (`tools.py:186-200`, `chain.py:70-111`) | `ChainProofs` | `MCChain` |
| `Urls` | origins and tokens (`registry.py:33-62`, `auth.py:23-53`) | used in `RegistryProofs` | used by the next two |
| `Sources` | static and tailnet discovery and their configuration (`sources/`, `config.py:61-69`) | | used by `MCRegistry` |
| `Registry` | `refresh`, `list`, `get` (`registry.py:65-208`) | `RegistryProofs` | `MCRegistry` |
| `Handlers` | the components and limits of a call (`tools.py:46-88`, `118-149`, `config.py:25-97`) | `HandlersProofs` | `MCHandlers` |
| `MdnsListener` | the listener (`sources/mdns_source.py:29-178`) | `MdnsListenerProofs` | `MCMdnsListener` |

**A2AOutcome.** An exchange is a record of what the decoding tells apart: lost (the
transport raised), a JSON-RPC error, a body the decoder raises on, or a task id, a task
state and a reply. Two facts of the code matter to the modules above it: a state that is
neither final nor a failure is `ok` but not `final`, and a malformed body raises.

**Scatter.** The items of a call are `1 .. call.n`. `pc` is where the calling thread is:
submitting, in `as_completed` (`yield`: it has futures to hand out, `wait`: blocked),
labelling, in `shutdown`, sorting, or gone. `thread[w]` is the item in the hands of worker
`w`, and `next .. submitted` is the pool's queue: between `Pop` and `Begin` an item is
neither queued nor running, which is the window in which a message can start after the
call is over. `Gather` is one turn of the loop (`fanout.py:94-98`), `TimedOut` the
`except FuturesTimeout` (99-104), `Label` one turn of the loop over what is left (105-106),
`Cancel` and `ShutDown` the `finally` (107-111), `Sort` the last line. `Begin` and `Finish`
are the two ends of `call` (66-86). `call.hung` are the peers that never stop sending.
`alive` counts the threads started: `Submit` queues an item and starts a thread unless one is
idle, and `SubmitFails` is a `Thread.start` that raises out of line 90, before the `try`: the
call is over, nothing is cancelled, and the items that were queued run on.

A deadline is none, one that may pass, one the platform refuses to wait for (`inf`), or `nan`,
which `config.py:75` lets through: it never passes, and a wait for it does not block, so the
caller spins until all peers are done. A wait for `inf` looks first whether an answer has
arrived: then the caller takes it and goes on (`Block`), and raises `OverflowError` only at a
wait that finds none (`Overflow`). `OnlyUnseenCutOff` says what the deadline may cut off:
`as_completed` raises its `TimeoutError` before it looks at what arrived since its last look,
so an answer that came in time can be labelled `deadline`, but only one the caller had not
taken. `types.py:54-55` says less than that of the label, see `scatter_late`.

`ThreadPoolExecutor` and `as_completed` are not in the repository. They are modelled by what
CPython 3.11 does: a FIFO queue, at most `max_workers` threads, cancelling drains the queue
item by item, the timeout runs from the first `next()`, and the clock is looked at only
when there is nothing left to yield. These definitions are marked external.

**TaskTracker.** A handler call is a job of a caller; its steps are the critical sections
under `_tasks_lock` and the network exchanges between them. The registry is reduced to what
`get(name)` returns at the moment (`roster`), which `Refresh` may change at any time.
`stamp` and the field `born` are the insertion order of the dict. `SubmitOrphan` is a task
the peer accepted and whose answer was lost.

`Ledger` is what submit and poll promise together, without callers, handles or names: a task
is handed out once and can be polled until it is over, or until it is the oldest of a full
ledger and a new one needs the room. `ImplementsLedger` maps the table to it: an entry is its
task and its turn, whatever handle it is filed under, and a task is over when the peer says so.

**Chain.** `Resolve` is one `reg.get(name)`, `Send` one turn of the loop of `run_chain` with
the decoding and all its exits. `log` records what was really sent to whom, and what came back;
`TraceIsWhatHappened` compares each step of the trace `steps` with it, field by field, at
every moment and however the chain ends. The timeout is made a number (`tools.py:202`) after
the last name is resolved and before anything is sent, and may raise there.

**Urls** and **Sources** are pure. A URL is the record of what `urlparse` tells apart; a port
above `MaxPort` stands for one that does not parse, which is what the unbracketed IPv6 address
of a tailnet node leaves (`tailnet_source.py:86`). A path has a text, trailing slashes and
capitals, which `_norm_url` takes away; a URL of slashes only is then no URL, and
`dedupe_by_url` drops it. `Sources` computes what the static and the tailnet source offer from
a configuration and a tailnet status; an offer is a list of refs or the fact that `discover`
raises, as on a block that is no mapping or a status that is no object. `MCRegistry` builds
its worlds with it.

**Registry.** A call is a job of a thread: `Discover` (`list(refresh=True)`) or `List`,
`Check` the time stamp, `Ask` each source, `Verify` each candidate, `Publish` the cache,
`Stamp` it, `Return` what the cache holds by then. `Drift` changes the world in the middle.
A world says what each source offers and what card each URL serves, under which name, with
which advertised URL and to whom. `_verify` resolves the token, trusts or re-origins the
card's URL, and drops what raises. The clock is reduced to whether the stamp is younger than
the ttl. `TokensStayHome` relates the roster to the URL each peer was reached at: what a
handler will post to has that host and port, and the token it will send is the resolver's for
that very host and port, or the auth the peer's own entry brought. `seen` remembers the worlds that
held during a call: `PublishesWhatItSaw` says that every entry a sweep publishes is what
verification in one of them makes of an offer of one of them, and that a sweep during which
the world stood still publishes exactly `Roster` of it. `NeverUnfilled` holds because a list
that finds nothing fresh sweeps by itself, which the documentation of `a2a_fleet_list` denies:
see the findings.

**Handlers.** The entry of a tool call. A step is one read or write of a module global
(`tools.py:46-58`; `build_registry` is given one after the other, `Build` and `Compose`); the
three objects are known by who made them, and by what they were made of. `raced` remembers that two calls were building at once: only then can a call get a
registry of one and a transport of another (`OneTransport`), while it always gets all three
(`Complete`), because the registry is what is tested and is stored last. `Load` and
`LoadRaises` read a configuration that is edited meanwhile; a block that is there but empty,
or lists a port of `inf`, makes the loading raise, and the next call tries again. `Resolve` is
the computation of the pool size, the timeout and the deadline of broadcast and dispatch, over
numbers, `inf`, `nan` and junk; `ResolveRaises` is `int()` raising out of the handler. Numbers
are counted in halves, because `int()` cuts off what a deadline keeps: a timeout of 0.5 is
truthy and becomes 0, in whose place the client puts its default. `limits` keeps what was
asked, so that `LimitsRespected` can compare the pool with the request. What the call then does is
`Scatter`, `Chain` or `Registry`. `Inject` is `set_components`, before any call.

**MdnsListener.** `Enter` to `Available` are `start` (111-136) with its unlocked first test, its
lock and its failures; `Resolve` and `Put` are the two halves of `add_service`, before and
under the lock (77-92), `RemoveService` the goodbye. Zeroconf is external: a browser is a
thread that delivers its events one at a time and in order. What a service announces is its
first address, its port and whether the path hint is there; `_service_to_ref` decides whether
that is a peer. An update that no longer describes one leaves the old entry, which the model
keeps: `life` remembers what the service announced since it came, and `NoGhosts` says no entry
is anything else and none outlives the goodbye. The two flag writes at the
end of `start` are two steps (`Settle`, `Available`). The read of both flags is one: what it
reads later is what a later reader reads, as nothing takes the flags back. The listener itself
exists from the beginning: see section 5.

## 3. Runs

| run | instance | distinct states | question |
|---|---|---|---|
| `scatter` | 3 items (2 sharing a name), 2 threads that may fail to start, all deadlines, 4 sets of hanging peers, 3 kinds of answer | 145 801 | accounting, labels, sends, what may be cut off; does the call do what `Batch` says, does every step count, does it end, and what does it leave behind? |
| `tracker` | 2 callers, 2 peers, the same 2 ids at both, table of 2 | 213 992 | bound, routing, eviction; is it a `Ledger`? |
| `chain` | up to 3 agents of 2 names, 3 texts (one empty), a name that comes, goes and moves | 92 940 | trace and text |
| `registry` | 2 threads, 5 base URLs on 3 hosts and one that is none, tailnet, static and mDNS sources, 5 worlds, 1 change | 277 471 | soundness, tokens and convergence of the roster; does a sweep publish what it saw? |
| `handlers` | 2 threads, 4 configuration files, 1 edit, 6 sets of arguments, up to 3 peers | 235 176 | components, limits, termination |
| `listener` | 2 threads, a service of each type under one label, with and without address and hint, 2 changes, 1 failed start | 149 172 | start, ghosts, currency, termination |
| `scatter_first`, `scatter_late`, `tracker_names`, `chain_trace`, `registry_race`, `listener_flags` | smaller | about 100 to 11 000 when the counterexample is found | expected violations: see Findings |

Why the bounds are enough. Scatter: two threads and three items make one item wait in the queue
while both threads are busy, so every window around the shutdown occurs; 0, 1 and 2 items are
in the same run. Of the answers, what scatter tells apart is a success, a failure the peer
reports and a request that raised; `scatter_first` has all seven. With the peers 1 and 2
hanging both threads are taken for good while item 3 waits in the queue. Tracker: two entries
and four tasks fill and overflow the table, two callers race on one entry. Chain: three agents
give a first, a middle and a last link. Registry: two threads overlap two sweeps. One host has
two ports with a token each, one URL comes from all three sources (from one of them twice), one
name is served by two peers, one card advertises another peer's origin, and a node has an IPv6
address only: what the deduplication, the sort, the token lookup and the re-origining have to
tell apart. One change of the world in mid-sweep is what separates a sweep from its world.
Handlers: two first calls race; the files have a cap below and above what is asked for, values
that are clamped, `inf`, `nan`, junk and a block that cannot be loaded, one edit turns any
into any other, and the requests have whole numbers, halves, zero, negative numbers and what
is none. Listener: one failed start leaves a browser behind, and two changes suffice for
a service that comes and leaves, or changes, between a resolve and its store.

Every bound is a constant of its module: `MaxItems`, `MaxWorkers`, `MaxAgents`,
`MAX_TRACKED_TASKS` (the code's 256), `MaxDrifts`, `MaxEdits`, `MaxChanges`, `MaxFails`
(`MaxAgents` is one of `Chain` and of `Handlers`). Threads that
finish stay finished, so all runs say `CHECK_DEADLOCK FALSE`: a call that has returned, a
tracker whose ids are used up and a world that has stopped changing really may stop. What
must not stop is stated by the liveness properties. `tracker` uses symmetry between its
callers, which its properties do not distinguish; it checks no liveness property.

Fairness. `Scatter`: the caller's thread, the clock and each worker thread go on; a request
of a peer outside `call.hung` ends, since each of its socket operations has a timeout. A
hanging peer is not assumed to end. `Registry`: a call that has begun goes on to its end
(sources and requests have timeouts) and time passes; nothing makes anybody call, so
`Converges` has the continued use of the fleet as its premise. `Handlers`: a call that has
begun goes on, as nothing in it waits for another. `MdnsListener`: a thread
inside `discover` goes on and takes the lock if it stays free; nothing is assumed of the
callbacks or the network, and the failures are bounded by `MaxFails`.

### Findings

Six runs check a sentence of the repository that the code does not keep; TLC shows how. Two
more were met in the run that passes because of them.

- `scatter_first`: the first-success exit tests `ok`, which a task that is only submitted or
  working already has (`fanout.py:97`).
- `scatter_late`: an answer that is there before the deadline passes is labelled `deadline` if
  the wait ends before the caller takes it, and `types.py:54-55` gives that label to what had
  not finished (`fanout.py:99`).
- `tracker_names`: two peers of one card name share handles, and a poll can go to the wrong
  one (`tools.py:244`).
- `chain_trace`: a response of unexpected shape makes `run_chain` raise, and the steps so far
  are lost (`chain.py:86`).
- `registry_race`: a discover returns what a slower sweep of another thread left in the
  cache (`registry.py:202`).
- `listener_flags`: a discover that reads the flags of the listener between their two writes
  returns an empty list although mDNS is available (`sources/mdns_source.py:135`).
- `registry`, `NeverUnfilled`: `a2a_fleet_list` is documented to show the cached fleet with no
  network call (`README.md:50`, `tools.py:4`, `tools.py:313`, and `tools.py:114` has an answer
  for a fleet nobody has discovered yet), and sweeps whenever the cache is not fresh
  (`registry.py:199-202`). That is why no call finds the cache unfilled.
- `registry`, `Converges`: one card whose name is not a string makes every sweep raise
  (`registry.py:191`), so the property excepts the worlds that have one.

## 4. Proofs

All proofs hold for every value of the constants, under the assumption named in each module
(`ScatterAssumption`, `TrackerAssumption`, `ChainAssumption`, `RegistryAssumption`,
`HandlersAssumption`, `ListenerAssumption`), which only says what kind of values they are. In
each module `Invariance` proves the inductive invariant, with one lemma or one step per
action, and the theorems about properties follow from it.

**ScatterProofs.** `Invariance` proves the inductive invariant `IndInv`. None of
the properties is inductive: that the returned list is complete needs that every submitted
item is reported or pending and never both (`Accounts`); this needs that the futures
`as_completed` holds are pending (`Gathering`), which needs that what has been reported
while waiting is finished, so that an item a thread still holds is not among it (`Queued`).
That the labels are earned needs the same and the moment the reason is decided
(`Labelling`). The bound on late messages counts the items the threads held at the shutdown
(`Late`, with `Holding`): each late message uses one up. Each conjunct has a lemma with one
step per action (`TypeStep`, `AccountsStep`, `QueuedStep`, `GatheringStep`, `OwnAnswerStep`,
`LabellingStep`, `StopsStep`, `LateStep`, `InOrderStep`). From it follow `TypeCorrect`,
`EveryItemAnswered`, `LabelsTrue`, `OneSuccess`, `AtMostOnce`,
`FewLateSends` and, as a property of steps, `CutOffIsUnseen`. `Implements` proves that the
call, with its threads, queue and clock, refines `Batch` (`settled` is the set of items and
verdicts reported; every other step stutters).

Two more theorems are the safety part of `CallEnds` and `NothingLeftBehind`. `StepsCount`
proves `EveryStepCounts`: `Rank`, a sum of what is left to submit, pop, begin, finish, report
and look at, is at most `7 n + 8` and every step of anybody lowers it. A call whose deadline is
`nan` is excepted, because its wait does not block and the caller goes round until the peers
are done. `NeverStuck` proves `Unstuck`: as long as a call with a deadline is not
over, somebody can take a step, however many peers hang (without a deadline, if none does);
and afterwards a thread can, as long as something handed over to a peer that does not hang is
neither finished nor cancelled. It needs `Attended`: a popped item is in the hands of a thread, an
item is cancelled by the shutdown only, there is a thread for what was submitted, and a caller
that blocks has something to wait for. That somebody can is written out as guards (`CallerCan`,
`ClockCan`, `WorkerCan`) instead of `ENABLED`; on the instance of the run TLC finds the two
equal in every state, and the same of `Can` in `RegistryProofs` and `MdnsListenerProofs`. The
theorem assumes that an exchange has some outcome (`Answers # {}`).

**SortingProofs.** `SortsOneWay`: a list has one stable sort, for lists of any length. The
place of an element is the number of those before it (`Place`); places differ, so each is
taken, and any stable order puts each element at its place. Neither sort of the program can
get stuck or leaves a choice. `Least`, that a set of numbers has a least element, is used by
the other proofs too.

**TaskTrackerProofs.** `Invariance` proves that everything in flight comes from a name the
registry had for that peer, and every entry from an issued handle (`Provenance`). `TypeCorrect`
and `TableBounded` follow. `PollsReachTheirPeer`, `EntriesLeave`, `NoneLost` and
`KeepsTheLedger` need two more assumptions, stated in the theorem because nothing in the code
enforces them: a name means one peer for the life of the process (`StableNames`;
`tracker_names` shows what happens otherwise), and a handle can be read in one way only
(`DistinctHandles`). `HandlesDistinct` proves the second one when no agent name contains `#`.
`NoneLost` proves `NoneLostBelowLimit`: each entry has an issue of its own, so a full table
means as many issues as entries; and each task is tracked once (`TrackedOnce`), so the issue
that would evict one is new and exceeds the limit. `KeepsTheLedger` proves `ImplementsLedger`:
entries have different turns, each lower than the next one (`Turns`), so that forgetting a
handle forgets one entry and evicting the oldest handle evicts the oldest task; a task that is
tracked has not been handed out before; and the answer that ends the tracking was given by a
task that is over. All other steps stutter.

**ChainProofs.** `ChainInv` joins the trace and the text to two facts that make them
inductive: while the chain runs every exchange so far was conclusive (`Conclusions`), and the
agents resolved so far are those the names led to, with nothing sent before all are
(`Resolving`, `Running`). From it: `TypeCorrect`, `TraceTrue`, `Threaded`, `FinalForwarded`
and `AllKnownFirst`, for chains of any length.

**RegistryProofs.** `RegistryInv` says of the cache what the properties say (`Kept`), and of
every sweep under way what makes its result so (`Swept`): what was gathered is as the sources
asked so far offered it, in their order; the candidates still to verify have different URLs;
and the refs verified so far are at home, apart from each other and apart from those
candidates. Sorting a list whose equal keys are in source order keeps that order because
the sort is stable. `Filled` ties the stamp to the first publication. From it: `TypeCorrect`,
`RosterIsSound`, `TokensAtHome`, `FilledFirst`, for every fleet and every number of threads,
sources and worlds. `PublishedIsSeen` needs a second invariant, `SightInv`: each ref of a
sweep was offered, and each verified ref was made of an offer, in a world of the call; and
while the call has seen one world only, the gathered refs are that world's offers in order
(`Lists`) and the verified ones are what verification there makes of the first offers that
are no longer to do (`Exact`). So when nothing is to do they are that world's roster.
`NeverStuck` proves that a call always has a next step, whatever the others do: the guards of
its steps are written out in `Can`, and the sort goes through by `SortsOneWay`. `CallsGetOn`
proves that each of its steps brings it nearer to its end (`Nearer`: a later phase, or the
same one with less to ask or to verify) and that nothing else touches it. Together they are
the safety part of `Converges`: what a sweep does is finite.

**HandlersProofs.** `HandlersInv` says for each place of a call which globals are set and what
the call holds (`Stages`), and, as long as no two calls built at once, that the call that
builds is the only one and the parts stored so far fit (`Alone`). `Loaded` and `Resolved` are
the lemmas about the numbers: a loaded configuration is in range whatever the file holds, and
the limits are those the configuration and the request ask for. From it: `TypeCorrect`,
`AlwaysComplete`, `AlwaysOneTransport` and `LimitsHold`. `NeverBlocked` proves that a call
never waits: at each place the guard of its next step, written out in `Ready`, holds.
`EveryCallEnds` proves the liveness property `CallReturns`, as a call has a fixed number of
places and each step leads to a later one. Its hypothesis `Scheduled(t)` is
the run's weak fairness without the word `ENABLED`: a thread is idle again and again or takes
steps again and again. By `NeverBlocked` a thread that is not idle always can.

**MdnsListenerProofs.** `ListenerInv` has the lock protocol (`Starting`), the routing of
events to the browsers of their type (`Routed`), and two statements about every service: what
is stored or about to be stored is of its present life or a goodbye is on the way (`Parting`),
and what it announces now is stored, on the way, or was missed (`Arriving`). A report that
arrives late is harmless because a browser's events are in order. From it: `TypeCorrect`,
`OneIsOpened`, `AllTypesListen`, `GoodbyesTakeEffect` and `AnnouncementsTakeEffect`.
`NeverDeadlocked` proves that a thread inside `discover` can go on or waits for the lock of
one that can, so the threads never wait for each other; `EveryStepTells` that a discover
takes at most one step per service type and five more (`Left`), and that no step of another
thread, of a callback or of the network gives it more. What is missing to `DiscoverReturns` is
that the lock is not always snatched away, which is a matter of fairness.

Only model-checked: the liveness properties `CallEnds`, `NothingLeftBehind`, `Converges` and
`DiscoverReturns`. The provers decide neither `ENABLED`, which is inside `WF_vars`, nor
induction over the number of steps that are left, which these need and `CallReturns` does not.
The theorems about steps above are what can be proved of them: there is always a next step,
and there are only so many. Every other property of a passing run is a theorem.

## 5. Not modelled

- HTTP itself (redirects, the size cap, JSON parsing): a failure is the exchange `Lost`.
- Rendering (`summarize*`, `partition`, the handlers' texts), logging, tool schemas and
  registration: no state, and no step that anything else depends on.
- Capabilities and descriptions of a peer: nothing but the filter of an answer reads them.
- Running the `tailscale` binary: a status is what it printed, or nothing.
- `MdnsListener.close`, which nothing calls, and the decoding of TXT records, of which only
  the path hint matters.
- `verify_timeout`, `cache_ttl` and `mdns_timeout` of the configuration: clamped like the
  timeout, and present as what they bound (a request ends, the stamp expires, a start settles).
- `_get_listener` (`mdns_source.py:159-165`): the one listener of the process is made under a
  lock with a second test, like the start that `Locked` models, and making it has no other effect.
- `set_components` during a call: the host injects before it lets anybody call. The three
  globals are stored registry first (`tools.py:64`), so an injection during a call could show a
  registry without a transport.

## 6. Plan

Done, in this order: A2AOutcome and Scatter with Batch; TaskTracker; Chain; Registry;
MdnsListener; the refinement of Batch; Urls and Sources with the registry's tokens; Handlers;
a thread that fails to start; proofs about all six state machines; what a sweep publishes;
Ledger and its refinement; the sorts; that no call gets stuck and every step counts, for
scatter, registry, handlers and listener.

Left to prove: that a sweep of the registry implements an abstract one that takes the roster
of some world in one step, as far as `PublishesWhatItSaw` allows; that a chain's steps count
too (each resolves or sends once); what `resolve` and `dedupe_by_url` promise, as lemmas of
their own.

Left to model: `Fleet`, the tracker over the registry module instead of a roster that changes
at will, to see which of the registry's behaviours break `StableNames`. It would show what
`tracker_names` shows with a roster of its own choosing, at the price of the product of both
state spaces.
