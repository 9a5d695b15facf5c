----------------------------- MODULE ChainProofs -----------------------------
(***************************************************************************)
(* Proofs about Chain, for every set of peers and names, every length of   *)
(* chain, every set of texts and every way the registry changes meanwhile. *)
(***************************************************************************)
EXTENDS Chain, Integers, SequenceTheorems, TLAPS

(***************************************************************************)
(* The inductive invariant: names are resolved first and nothing is sent   *)
(* meanwhile; then trace and exchanges grow together, the text at hand is  *)
(* the last answer, and every exchange but the last of a chain that is over *)
(* was conclusive.                                                         *)
(***************************************************************************)
Resolving ==
    /\ pc \in {"resolve", "refused"} => log = <<>> /\ steps = <<>>
    /\ pc = "resolve" => Len(refs) < Len(agents)
    /\ pc \in {"run", "returned", "raised"} => Len(refs) = Len(agents)

Running ==
    /\ pc # "returned" => ~completed
    /\ pc \in {"resolve", "run"} =>
          /\ Len(steps) = Len(log)
          /\ current = IF Len(log) = 0 THEN message ELSE log[Len(log)].exchange.reply
          /\ \A k \in 1 .. Len(steps) : steps[k].ok
    /\ pc = "run" => Len(steps) < Len(refs)

Conclusions ==
    \A k \in 1 .. Len(log) :
        k < Len(log) \/ pc = "run" \/ completed => Conclusive(log[k].exchange)

ChainInv ==
    /\ TypeOK
    /\ Resolving
    /\ Running
    /\ Conclusions
    /\ TextThreaded
    /\ TraceIsWhatHappened

-------------------------------------------------------------------------------
\* One more element at the end.
LEMMA Grow ==
    ASSUME NEW S, NEW s \in Seq(S), NEW e \in S
    PROVE  /\ Append(s, e) \in Seq(S)
           /\ Len(s) \in Nat
           /\ Len(Append(s, e)) = Len(s) + 1
           /\ \A k \in 1 .. Len(s) : Append(s, e)[k] = s[k]
           /\ Append(s, e)[Len(s) + 1] = e
BY AppendProperties, LenProperties

\* What an exchange holds, and that a good outcome's reply is the exchange's own.
LEMMA ExchangeShape ==
    ASSUME NEW x \in Exchanges
    PROVE  /\ x.reply \in Texts
           /\ Said(x) \in Texts
           /\ Conclusive(x) => Said(x) = x.reply
<1>1. NoText \in Texts
  BY ChainAssumption
<1>2. x.reply \in Texts
  <2>1. \A t \in Texts : Message(t).reply = t
    BY DEF Message, Blank
  <2>2. \A state, t : TaskReply(NoId, state, t).reply = t
    BY DEF TaskReply, Task, Blank
  <2>3. \A y \in {Lost, RpcError, Malformed} : y.reply = NoText
    BY DEF Lost, RpcError, Malformed, Blank
  <2> QED
    BY <1>1, <2>1, <2>2, <2>3 DEF Exchanges
<1> QED
  BY <1>1, <1>2 DEF interpret_result, Said, Conclusive

\* A chain has as many agents as the call names, at least one.
LEMMA AgentsShape ==
    ASSUME agents \in AgentLists
    PROVE  /\ agents \in Seq(Names)
           /\ Len(agents) \in Nat \ {0}
           /\ \A k \in 1 .. Len(agents) : agents[k] \in Names
<1>1. PICK n \in 1 .. MaxAgents : agents \in [1 .. n -> Names]
  BY DEF AgentLists
<1>2. n \in Nat \ {0}
  BY <1>1, ChainAssumption
<1>3. agents \in Seq(Names) /\ Len(agents) = n
  BY <1>1, <1>2, IsASeq, LenProperties
<1> QED
  BY <1>1, <1>2, <1>3

\* A step that sends: the log grows by the exchange, the trace by its step unless
\* the call raises, and the chain goes on only from a conclusive answer.
LEMMA SendEffect ==
    ASSUME NEW x, Send(x)
    PROVE  /\ pc = "run" /\ UNCHANGED <<roster, agents, message, refs>>
           /\ log' = Append(log, [peer |-> refs[Len(steps) + 1], text |-> current, exchange |-> x])
           /\ \/ /\ pc' = "raised" /\ UNCHANGED <<current, steps, completed, final>>
              \/ /\ pc' = "returned" /\ UNCHANGED <<current, completed, final>>
                 /\ ~Conclusive(x)
                 /\ steps' = Append(steps, Step(FALSE, Said(x)))
              \/ /\ Conclusive(x)
                 /\ steps' = Append(steps, Step(TRUE, Said(x)))
                 /\ current' = Said(x)
                 /\ IF Len(steps') = Len(refs)
                    THEN pc' = "returned" /\ completed' = TRUE /\ final' = current'
                    ELSE UNCHANGED <<pc, completed, final>>
<1>1. pc = "run" /\ UNCHANGED <<roster, agents, message, refs>>
      /\ log' = Append(log, [peer |-> refs[Len(steps) + 1], text |-> current, exchange |-> x])
      /\ Link(x)
  BY DEF Send
<1>2. CASE x.lost
  BY <1>1, <1>2 DEF Link, LinkBy, LostLink, Stop, Conclusive, Said
<1>3. CASE ~x.lost /\ Undecodable(x)
  BY <1>1, <1>3 DEF Link, LinkBy, Raise
<1>4. CASE ~x.lost /\ ~Undecodable(x) /\ Broken(x)
  BY <1>1, <1>4 DEF Link, LinkBy, Stop, Reply, Broken, Conclusive, Said
<1>5. CASE ~x.lost /\ ~Undecodable(x) /\ ~Broken(x)
  <2>1. Conclusive(x)
    BY <1>5 DEF Conclusive, Broken
  <2> QED
    BY <1>1, <1>5, <2>1 DEF Link, LinkBy, Advance, Reply, Said
<1> QED
  BY <1>2, <1>3, <1>4, <1>5

-------------------------------------------------------------------------------
\* A call starts with nothing resolved and nothing sent.
LEMMA Initially == Init => ChainInv
<1> SUFFICES ASSUME Init PROVE ChainInv
  OBVIOUS
<1>1. Len(agents) \in Nat \ {0}
  BY AgentsShape DEF Init
<1>2. NoText \in Texts
  BY ChainAssumption
<1>3. TypeOK
  <2>1. /\ <<>> \in Seq(Peers)
        /\ <<>> \in Seq([agent : Names, ok : BOOLEAN, sent : Texts, reply : Texts])
        /\ <<>> \in Seq([peer : Peers, text : Texts, exchange : Exchanges])
    OBVIOUS
  <2>2. Len(<<>>) = 0
    OBVIOUS
  <2>3. pc \in Over \cup {"resolve", "run"} /\ completed \in BOOLEAN
    BY DEF Init
  <2> QED
    BY <1>1, <1>2, <2>1, <2>2, <2>3 DEF Init, TypeOK
<1>4. /\ pc = "resolve" /\ log = <<>> /\ steps = <<>> /\ refs = <<>> /\ ~completed
      /\ Len(log) = 0 /\ Len(steps) = 0 /\ Len(refs) = 0 /\ current = message
  BY DEF Init
<1>5. Resolving /\ Running
  BY <1>1, <1>4 DEF Resolving, Running
<1>6. Conclusions /\ TextThreaded /\ TraceIsWhatHappened
  BY <1>4 DEF Conclusions, TextThreaded, TraceIsWhatHappened
<1> QED
  BY <1>3, <1>5, <1>6 DEF ChainInv

\* The registry may change while names are resolved: nothing else does.
LEMMA RefreshStep == ChainInv /\ Refresh => ChainInv'
BY DEF ChainInv, Refresh, TypeOK, Resolving, Running, Conclusions, TextThreaded,
       TraceIsWhatHappened, Truthful

\* Resolving a name sends nothing.
LEMMA ResolveStep == ChainInv /\ Resolve => ChainInv'
<1> SUFFICES ASSUME ChainInv, Resolve PROVE ChainInv'
  OBVIOUS
<1> DEFINE p == roster[agents[Len(refs) + 1]]
<1>1. /\ pc = "resolve" /\ log = <<>> /\ steps = <<>> /\ Len(refs) < Len(agents)
      /\ refs \in Seq(Peers) /\ Len(refs) \in Nat /\ ~completed
      /\ UNCHANGED <<roster, agents, message, current, steps, completed, final, log>>
      /\ \/ pc' = "refused" /\ refs' = refs
         \/ p # NoPeer /\ refs' = Append(refs, p)
            /\ pc' \in IF Len(refs') = Len(agents) THEN {"run", "raised"} ELSE {"resolve"}
  BY LenProperties DEF ChainInv, Resolve, ResolveUntil, Resolving, Running, TypeOK
<1>2. Len(agents) \in Nat /\ \A k \in 1 .. Len(agents) : agents[k] \in Names
  BY AgentsShape DEF ChainInv, TypeOK
<1>3. p \in Peers \cup {NoPeer}
  <2>1. agents[Len(refs) + 1] \in Names
    BY <1>1, <1>2
  <2> QED
    BY <2>1, ChainAssumption DEF ChainInv, TypeOK
<1> HIDE DEF p
<1>4. CASE pc' = "refused" /\ refs' = refs
  BY <1>1, <1>4 DEF ChainInv, TypeOK, Over, Resolving, Running, Conclusions, TextThreaded,
     TraceIsWhatHappened, Truthful
<1>5. CASE p # NoPeer /\ refs' = Append(refs, p)
           /\ pc' \in IF Len(refs') = Len(agents) THEN {"run", "raised"} ELSE {"resolve"}
  <2>1. refs' \in Seq(Peers) /\ Len(refs') = Len(refs) + 1
    BY <1>1, <1>3, <1>5, Grow
  <2>2. TypeOK'
    BY <1>1, <1>2, <1>5, <2>1 DEF ChainInv, TypeOK, Over
  <2>3. Resolving' /\ Running'
    BY <1>1, <1>2, <1>5, <2>1 DEF ChainInv, Resolving, Running
  <2>4. Conclusions' /\ TextThreaded' /\ TraceIsWhatHappened'
    BY <1>1, <1>5 DEF ChainInv, Conclusions, TextThreaded, TraceIsWhatHappened, Truthful
  <2> QED
    BY <2>2, <2>3, <2>4 DEF ChainInv
<1> QED
  BY <1>1, <1>4, <1>5

\* One exchange: what it makes of the text, the trace and the log.
LEMMA SendStep == ASSUME ChainInv, NEW x \in Exchanges, Send(x) PROVE ChainInv'
<1> DEFINE e == [peer |-> refs[Len(steps) + 1], text |-> current, exchange |-> x]
           Entries == [peer : Peers, text : Texts, exchange : Exchanges]
           Links == [agent : Names, ok : BOOLEAN, sent : Texts, reply : Texts]
           n == Len(log)
<1>1. /\ pc = "run" /\ UNCHANGED <<roster, agents, message, refs>> /\ log' = Append(log, e)
  BY SendEffect
<1>2. /\ refs \in Seq(Peers) /\ Len(refs) = Len(agents) /\ Len(steps) = n /\ n < Len(refs)
      /\ steps \in Seq(Links) /\ log \in Seq(Entries) /\ n \in Nat /\ ~completed
      /\ current = IF n = 0 THEN message ELSE log[n].exchange.reply
      /\ current \in Texts /\ NoText \in Texts
      /\ \A k \in 1 .. n : steps[k].ok /\ Conclusive(log[k].exchange)
  BY <1>1, LenProperties, ChainAssumption
     DEF ChainInv, TypeOK, Resolving, Running, Conclusions
<1>3. Len(agents) \in Nat /\ \A k \in 1 .. Len(agents) : agents[k] \in Names
  BY AgentsShape DEF ChainInv, TypeOK
<1>4. refs[n + 1] \in Peers /\ agents[n + 1] \in Names
  BY <1>2, <1>3, ElementOfSeq
<1>5. e \in Entries
  BY <1>2, <1>4
<1>6. /\ log' \in Seq(Entries) /\ Len(log') = n + 1
      /\ \A k \in 1 .. n : log'[k] = log[k]
      /\ log'[n + 1] = e
  <2> HIDE DEF e, Entries
  <2> QED
    BY <1>1, <1>2, <1>5, Grow
<1>7. e.text = current /\ e.exchange = x
  OBVIOUS
<1>8. TextThreaded'
  <2>1. ASSUME NEW k \in 1 .. n + 1
        PROVE  log'[k].text = IF k = 1 THEN message ELSE log'[k - 1].exchange.reply
    <3>1. CASE k = n + 1
      <4>1. n # 0 => n \in 1 .. n
        BY <1>2
      <4>2. k - 1 = n /\ (k = 1 <=> n = 0) /\ log'[k].text = current
        BY <1>2, <1>6, <1>7, <3>1
      <4> QED
        BY <1>2, <1>6, <4>1, <4>2
    <3>2. CASE k \in 1 .. n
      <4>1. k = 1 \/ k - 1 \in 1 .. n
        BY <1>2, <3>2
      <4>2. log[k].text = IF k = 1 THEN message ELSE log[k - 1].exchange.reply
        BY <3>2 DEF ChainInv, TextThreaded
      <4> QED
        BY <1>6, <3>2, <4>1, <4>2
    <3> QED
      BY <1>2, <3>1, <3>2
  <2> QED
    BY <1>1, <1>6, <2>1 DEF TextThreaded
<1>9. x.reply \in Texts /\ Said(x) \in Texts /\ (Conclusive(x) => Said(x) = x.reply)
  BY ExchangeShape
<1>10. \A k \in 1 .. n : Conclusive(log'[k].exchange)
  BY <1>2, <1>6
<1>14. e.peer = refs[n + 1]
  BY <1>2
<1>15. \A k \in 1 .. n : Truthful(k)
  BY <1>2 DEF ChainInv, TraceIsWhatHappened
<1> HIDE DEF e, Entries, Links
<1>16. ASSUME NEW ok \in BOOLEAN, ok <=> Conclusive(x), steps' = Append(steps, Step(ok, Said(x)))
       PROVE  /\ steps' \in Seq(Links) /\ Len(steps') = n + 1
              /\ \A k \in 1 .. n : steps'[k] = steps[k]
              /\ steps'[n + 1].ok <=> ok
              /\ \A k \in 1 .. n + 1 : Truthful(k)'
  <2> DEFINE s == Step(ok, Said(x))
  <2>1. /\ s \in Links /\ s.ok = ok /\ s.agent = agents[n + 1] /\ s.sent = current
        /\ s.reply = Said(x)
    BY <1>2, <1>4, <1>9 DEF Step, Links
  <2> HIDE DEF s
  <2>2. /\ steps' \in Seq(Links) /\ Len(steps') = n + 1
        /\ \A k \in 1 .. n : steps'[k] = steps[k]
        /\ steps'[n + 1] = s
    <3>1. steps \in Seq(Links) /\ s \in Links
      BY <1>2, <2>1
    <3>2. /\ Append(steps, s) \in Seq(Links) /\ Len(Append(steps, s)) = Len(steps) + 1
          /\ \A k \in 1 .. Len(steps) : Append(steps, s)[k] = steps[k]
          /\ Append(steps, s)[Len(steps) + 1] = s
      BY <3>1, Grow
    <3>3. steps' = Append(steps, s) /\ Len(steps) = n
      BY <1>2, <1>16 DEF s
    <3> QED
      BY <3>2, <3>3
  <2>3. ASSUME NEW k \in 1 .. n + 1 PROVE Truthful(k)'
    <3>1. CASE k = n + 1
      BY <1>1, <1>6, <1>7, <1>14, <1>16, <2>1, <2>2, <3>1 DEF Truthful
    <3>2. CASE k \in 1 .. n
      BY <1>1, <1>6, <1>15, <2>2, <3>2 DEF Truthful
    <3> QED
      BY <1>2, <3>1, <3>2
  <2> QED
    BY <2>1, <2>2, <2>3
<1>11. CASE pc' = "raised" /\ UNCHANGED <<current, steps, completed, final>>
  <2>1. TypeOK'
    BY <1>1, <1>2, <1>6, <1>11 DEF ChainInv, TypeOK, Over, Entries
  <2>2. Resolving' /\ Running'
    BY <1>1, <1>2, <1>11 DEF Resolving, Running
  <2>4. TraceIsWhatHappened'
    <3>1. \A k \in 1 .. n : Truthful(k)'
      BY <1>1, <1>6, <1>11, <1>15 DEF Truthful
    <3> QED
      BY <1>2, <1>6, <1>11, <3>1 DEF TraceIsWhatHappened
  <2>3. Conclusions'
    BY <1>2, <1>6, <1>10, <1>11 DEF Conclusions
  <2> QED
    BY <1>8, <2>1, <2>2, <2>3, <2>4 DEF ChainInv
<1>12. ASSUME pc' = "returned", UNCHANGED <<current, completed, final>>, ~Conclusive(x),
              steps' = Append(steps, Step(FALSE, Said(x)))
       PROVE  ChainInv'
  <2>2. /\ steps' \in Seq(Links) /\ Len(steps') = n + 1
        /\ \A k \in 1 .. n : steps'[k] = steps[k]
        /\ ~steps'[n + 1].ok
        /\ \A k \in 1 .. n + 1 : Truthful(k)'
    BY <1>12, <1>16
  <2>1. pc' = "returned" /\ completed' = FALSE
    BY <1>2, <1>12
  <2>3. TypeOK'
    <3>1. steps' \in Seq([agent : Names, ok : BOOLEAN, sent : Texts, reply : Texts])
          /\ log' \in Seq([peer : Peers, text : Texts, exchange : Exchanges])
      BY <1>6, <2>2 DEF Entries, Links
    <3>2. pc' = "returned" /\ UNCHANGED <<roster, agents, message, refs, current, completed, final>>
      BY <1>1, <1>12
    <3> QED
      BY <3>1, <3>2 DEF ChainInv, TypeOK, Over
  <2>4. Resolving' /\ Running'
    BY <1>1, <1>2, <1>12 DEF Resolving, Running
  <2>5. Conclusions'
    BY <1>2, <1>6, <1>10, <2>1 DEF Conclusions
  <2>6. ASSUME NEW k \in 1 .. n + 1
        PROVE  steps'[k].ok <=> k < n + 1
    <3>1. CASE k = n + 1
      BY <1>2, <2>2, <3>1
    <3>2. CASE k \in 1 .. n
      BY <1>2, <2>2, <3>2
    <3> QED
      BY <1>2, <3>1, <3>2
  <2>7. TraceIsWhatHappened'
    BY <1>2, <1>6, <2>1, <2>2, <2>6 DEF TraceIsWhatHappened
  <2> QED
    BY <1>8, <2>3, <2>4, <2>5, <2>7 DEF ChainInv
<1>13. ASSUME Conclusive(x),
              steps' = Append(steps, Step(TRUE, Said(x))),
              current' = Said(x),
              IF Len(steps') = Len(refs)
              THEN pc' = "returned" /\ completed' = TRUE /\ final' = current'
              ELSE UNCHANGED <<pc, completed, final>>
       PROVE  ChainInv'
  <2>2. /\ steps' \in Seq(Links) /\ Len(steps') = n + 1
        /\ \A k \in 1 .. n : steps'[k] = steps[k]
        /\ steps'[n + 1].ok
        /\ \A k \in 1 .. n + 1 : Truthful(k)'
    BY <1>13, <1>16
  <2>3. /\ current' = x.reply /\ current' \in Texts
        /\ \/ n + 1 = Len(refs) /\ pc' = "returned" /\ completed' = TRUE /\ final' = x.reply
           \/ n + 1 < Len(refs) /\ pc' = "run" /\ UNCHANGED <<completed, final>>
    BY <1>1, <1>2, <1>3, <1>9, <1>13, <2>2
  <2>4. TypeOK'
    <3>1. steps' \in Seq([agent : Names, ok : BOOLEAN, sent : Texts, reply : Texts])
          /\ log' \in Seq([peer : Peers, text : Texts, exchange : Exchanges])
      BY <1>6, <2>2 DEF Entries, Links
    <3>2. /\ pc' \in {"returned", "run"} /\ completed' \in BOOLEAN /\ final' \in Texts
          /\ current' \in Texts /\ UNCHANGED <<roster, agents, message, refs>>
      <4>1. final \in Texts /\ completed \in BOOLEAN
        BY DEF ChainInv, TypeOK
      <4> QED
        BY <1>1, <1>9, <2>3, <4>1
    <3> QED
      BY <3>1, <3>2 DEF ChainInv, TypeOK, Over
  <2>5. \A k \in 1 .. n + 1 : steps'[k].ok /\ Conclusive(log'[k].exchange)
    <3>1. \A k \in 1 .. n + 1 : k \in 1 .. n \/ k = n + 1
      BY <1>2
    <3> QED
      BY <1>2, <1>6, <1>7, <1>10, <1>13, <2>2, <3>1
  <2>6. Resolving' /\ Running'
    <3>1. Resolving'
      BY <1>1, <1>2, <2>3 DEF Resolving
    <3>2. n + 1 # 0 /\ log'[n + 1].exchange.reply = x.reply
      BY <1>2, <1>6, <1>7
    <3>3. current' = IF Len(log') = 0 THEN message' ELSE log'[Len(log')].exchange.reply
      BY <1>6, <2>3, <3>2
    <3>4. \A k \in 1 .. Len(steps') : steps'[k].ok
      BY <2>2, <2>5
    <3>5. Running'
      BY <1>1, <1>2, <1>6, <2>2, <2>3, <3>3, <3>4 DEF Running
    <3> QED
      BY <3>1, <3>5
  <2>7. Conclusions'
    BY <1>6, <2>5 DEF Conclusions
  <2>8. TraceIsWhatHappened'
    BY <1>1, <1>2, <1>6, <1>7, <2>2, <2>3, <2>5 DEF TraceIsWhatHappened
  <2> QED
    BY <1>8, <2>4, <2>6, <2>7, <2>8 DEF ChainInv
<1> QED
  BY <1>11, <1>12, <1>13, SendEffect

\* Every step keeps the invariant.
LEMMA Inductive == ChainInv /\ [Next]_vars => ChainInv'
<1> SUFFICES ASSUME ChainInv, [Next]_vars PROVE ChainInv'
  OBVIOUS
<1>1. CASE UNCHANGED vars
  BY <1>1 DEF vars, ChainInv, TypeOK, Resolving, Running, Conclusions, TextThreaded,
     TraceIsWhatHappened, Truthful
<1> QED
  BY <1>1, RefreshStep, ResolveStep, SendStep DEF Next

\* The invariant holds of every chain, whatever the peers answer.
THEOREM Invariance == Spec => []ChainInv
BY Initially, Inductive, PTL DEF Spec

\* Every variable keeps its type.
THEOREM TypeCorrect == Spec => []TypeOK
<1>1. ChainInv => TypeOK
  BY DEF ChainInv
<1> QED
  BY <1>1, Invariance, PTL

\* Each step of the trace names the agent, the text sent and the reply of its exchange,
\* and the trace a caller gets has a step for every exchange, the only failed one last.
THEOREM TraceTrue == Spec => []TraceIsWhatHappened
<1>1. ChainInv => TraceIsWhatHappened
  BY DEF ChainInv
<1> QED
  BY <1>1, Invariance, PTL

\* Each agent was sent what the one before it answered.
THEOREM Threaded == Spec => []TextThreaded
<1>1. ChainInv => TextThreaded
  BY DEF ChainInv
<1> QED
  BY <1>1, Invariance, PTL

\* A text handed on is a final answer.
THEOREM FinalForwarded == Spec => []OnlyFinalForwarded
<1>1. ASSUME ChainInv PROVE OnlyFinalForwarded
  <2>1. Len(log) \in Nat
    BY <1>1, LenProperties DEF ChainInv, TypeOK
  <2>2. \A k \in 2 .. Len(log) : k - 1 \in 1 .. Len(log) /\ k - 1 < Len(log)
    BY <2>1
  <2> QED
    BY <1>1, <2>2 DEF ChainInv, Conclusions, Conclusive, OnlyFinalForwarded
<1> QED
  BY <1>1, Invariance, PTL

\* Nothing is sent unless every name was known.
THEOREM AllKnownFirst == Spec => []NothingSentUnlessAllKnown
<1>1. ChainInv => NothingSentUnlessAllKnown
  BY DEF ChainInv, TypeOK, Over, Resolving, NothingSentUnlessAllKnown
<1> QED
  BY <1>1, Invariance, PTL
===============================================================================
