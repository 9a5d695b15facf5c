-------------------------------- MODULE Chain --------------------------------
(***************************************************************************)
(* One chain call (tools.py a2a_fleet_chain and chain.py run_chain): the    *)
(* names are resolved one by one against a registry that may refresh in     *)
(* between, then one text is threaded through the peers in order, and the   *)
(* first broken link ends it.                                              *)
(***************************************************************************)
EXTENDS Naturals, Sequences, A2AOutcome

CONSTANTS
    Names,       \* the agent names the registry may know
    Peers,       \* the peers
    MaxAgents,   \* bound on the length of the chain
    Texts,       \* the texts a message or a reply may be
    Rosters      \* the rosters the registry may go through

NoPeer == "no peer"

ASSUME ChainAssumption ==
    /\ MaxAgents \in Nat
    /\ NoPeer \notin Peers
    /\ NoText \in Texts
    /\ Rosters \subseteq [Names -> Peers \cup {NoPeer}]

VARIABLES
    roster,     \* the peer get(name) returns, by name
    agents,     \* the names of the call, in order
    message,    \* the initial text
    pc,         \* "resolve", "run", "returned", "refused" or "raised"
    refs,       \* the peers resolved so far
    current,    \* the text the next peer gets
    steps,      \* the trace, result.steps
    completed,  \* result.completed
    final,      \* result.final
    log         \* history: the exchanges held, <<peer, text sent, exchange>>

vars == <<roster, agents, message, pc, refs, current, steps, completed, final, log>>

Over == {"returned", "refused", "raised"}

AgentLists == UNION {[1 .. n -> Names] : n \in 1 .. MaxAgents}

Exchanges ==
    {Lost, RpcError, Malformed}
    \cup {Message(t) : t \in Texts}
    \cup {TaskReply(NoId, s, t) : s \in {"working", "completed", "failed"}, t \in Texts}

Init ==
    /\ roster \in Rosters
    /\ agents \in AgentLists
    /\ message \in Texts
    /\ pc = "resolve"
    /\ refs = <<>>
    /\ current = message
    /\ steps = <<>>
    /\ completed = FALSE
    /\ final = NoText
    /\ log = <<>>

-------------------------------------------------------------------------------
Refresh ==
    /\ pc = "resolve"
    /\ roster' \in Rosters \ {roster}
    /\ UNCHANGED <<agents, message, pc, refs, current, steps, completed, final, log>>

\* reg.get(name) for the next name: unknown names refuse the whole call.  After the last
\* one int() may raise on the timeout the call came with.
ResolveUntil(enough, unknown) ==
    /\ pc = "resolve"
    /\ LET p == roster[agents[Len(refs) + 1]] IN
       IF p \in unknown
       THEN pc' = "refused" /\ UNCHANGED refs
       ELSE /\ refs' = Append(refs, p)
            /\ pc' \in IF Len(refs') = enough THEN {"run", "raised"} ELSE {"resolve"}
    /\ UNCHANGED <<roster, agents, message, current, steps, completed, final, log>>

Resolve_OneAtATime == ResolveUntil(1, {NoPeer})         \* mutant
Resolve_TakesNone  == ResolveUntil(Len(agents), {})     \* mutant
Resolve == ResolveUntil(Len(agents), {NoPeer})

\* mutant: the next text is set before the step is recorded
Step_SentLate(ok, text) ==
    [agent |-> agents[Len(steps) + 1], ok |-> ok, sent |-> text, reply |-> text]

Step(ok, text) == [agent |-> agents[Len(steps) + 1], ok |-> ok, sent |-> current, reply |-> text]

Stop(s) ==
    /\ steps' = Append(steps, s)
    /\ pc' = "returned"
    /\ UNCHANGED <<current, completed, final>>

\* The last agent succeeded: completed is set and its reply is the output.
Advance(s, next) ==
    /\ steps' = Append(steps, s)
    /\ current' = next
    /\ IF Len(steps') = Len(refs)
       THEN pc' = "returned" /\ completed' = TRUE /\ final' = next
       ELSE UNCHANGED <<pc, completed, final>>

\* An exception of interpret_result is not caught: no result reaches the caller.
Raise == pc' = "raised" /\ UNCHANGED <<current, steps, completed, final>>

\* A task that is not final has no reply to forward.
Broken(x) == ~interpret_result(x).ok \/ ~interpret_result(x).final
Reply(x)  == interpret_result(x).reply

\* What the loop body makes of one exchange: a lost one and a broken one end the
\* chain, any other hands text on to the next agent.
LinkBy(x, lost, broken, text) ==
    IF x.lost THEN lost
    ELSE IF Undecodable(x) THEN Raise
    ELSE IF broken THEN Stop(Step(FALSE, Reply(x)))
    ELSE Advance(Step(TRUE, Reply(x)), text)

LostLink == Stop(Step(FALSE, NoText))

\* mutants: a running task counts as an answer; an empty reply forwards the previous text
Link_AnyOk(x)     == LinkBy(x, LostLink, ~interpret_result(x).ok, Reply(x))
Link_KeepsText(x) == LinkBy(x, LostLink, Broken(x), IF Reply(x) = NoText THEN current ELSE Reply(x))

Link(x) == LinkBy(x, LostLink, Broken(x), Reply(x))

Send(x) ==
    /\ pc = "run"
    /\ log' = Append(log, [peer |-> refs[Len(steps) + 1], text |-> current, exchange |-> x])
    /\ Link(x)
    /\ UNCHANGED <<roster, agents, message, refs>>

Next == Refresh \/ Resolve \/ \E x \in Exchanges : Send(x)

Spec == Init /\ [][Next]_vars

-------------------------------------------------------------------------------
(***************************************************************************)
(* Properties.                                                             *)
(***************************************************************************)

TypeOK ==
    /\ roster \in Rosters
    /\ agents \in AgentLists
    /\ message \in Texts
    /\ pc \in Over \cup {"resolve", "run"}
    /\ refs \in Seq(Peers) /\ Len(refs) <= Len(agents)
    /\ current \in Texts
    /\ steps \in Seq([agent : Names, ok : BOOLEAN, sent : Texts, reply : Texts])
    /\ completed \in BOOLEAN
    /\ final \in Texts
    /\ log \in Seq([peer : Peers, text : Texts, exchange : Exchanges])

\* An answer the chain may go on from, and what an exchange said.
Conclusive(x) == ~x.lost /\ interpret_result(x).ok /\ interpret_result(x).final
Said(x) == IF x.lost THEN NoText ELSE interpret_result(x).reply

\* Step k of the trace is exchange k on the wire: the agent the call named there, at the
\* peer resolved for it, the text it was sent and what it said, and ok exactly if that
\* was conclusive.
Truthful(k) ==
    /\ steps[k].agent = agents[k] /\ log[k].peer = refs[k]
    /\ steps[k].sent = log[k].text
    /\ steps[k].reply = Said(log[k].exchange)
    /\ steps[k].ok <=> Conclusive(log[k].exchange)

\* "the trace records exactly how far it got", and the docstring's first two invariants,
\* against what was really sent: every step tells the truth about its exchange, also in
\* mid-chain, and a call that returns has no exchange without a step.  A completed chain
\* has contacted every agent and its output is what the last one said; one that is not
\* has its only failed step at the end, and no agent after that was contacted.
TraceIsWhatHappened ==
    /\ Len(steps) <= Len(log)
    /\ \A k \in 1 .. Len(steps) : Truthful(k)
    /\ pc = "returned" =>
          /\ Len(steps) = Len(log)
          /\ \A k \in 1 .. Len(log) : steps[k].ok <=> (completed \/ k < Len(log))
          /\ completed => Len(log) = Len(agents) /\ final = log[Len(log)].exchange.reply

\* "steps[i].sent == steps[i-1].reply": on the wire too, every agent gets exactly
\* what the one before it answered, an empty answer included, and the first one
\* gets the caller's message.
TextThreaded ==
    \A k \in 1 .. Len(log) :
        log[k].text = IF k = 1 THEN message ELSE log[k - 1].exchange.reply

\* A text handed on is a final answer, never the progress note of a running task.
OnlyFinalForwarded ==
    \A k \in 2 .. Len(log) : interpret_result(log[k - 1].exchange).final

\* An unknown agent anywhere in the list refuses the call before any peer is
\* contacted, even when the registry forgets a name while the list is resolved.
NothingSentUnlessAllKnown ==
    log # <<>> => Len(refs) = Len(agents) /\ pc # "refused"

\* "the trace records exactly how far it got": checked to fail, since a response
\* that cannot be decoded takes the trace of the finished steps with it.
TraceSurvives == pc \in Over => pc # "raised" \/ log = <<>>
===============================================================================
