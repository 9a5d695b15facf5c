------------------------------- MODULE Scatter -------------------------------
(***************************************************************************)
(* The scatter-gather primitive (fanout.py, scatter): one call, its bounded *)
(* thread pool, the peers that answer or do not, and the deadline.          *)
(*                                                                         *)
(* The work items of a call are 1 .. call.n.  The caller submits them in    *)
(* order, waits in as_completed, labels what it stops waiting for, shuts    *)
(* the pool down and sorts.  Meanwhile each worker thread pops an item from *)
(* the pool's FIFO queue, begins it (posts the message) and finishes it.    *)
(* Between the pop and the begin an item is neither queued nor running.     *)
(*                                                                         *)
(* ThreadPoolExecutor and as_completed are not in this repository.  They   *)
(* are modelled by what CPython 3.11 does: a FIFO queue of work items, at   *)
(* most max_workers threads, cancel_futures draining the queue, and an      *)
(* iterator that yields futures already finished in any order, measures its *)
(* timeout from the first next(), and looks at the clock only when it has   *)
(* nothing left to yield.                                                  *)
(***************************************************************************)
EXTENDS Integers, Sequences, FiniteSets, A2AOutcome, Sorting

CONSTANTS
    MaxItems,    \* bound on the work items of one call
    MaxWorkers,  \* max_workers, as requested: may be zero or negative
    Name,        \* Name[i]: the sort key (ref.name) of item i
    Deadlines,   \* the deadlines of a call, see DeadlineKinds
    Hangs,       \* the sets of items whose peer never stops trickling bytes
    Answers      \* the exchanges a peer may end a request with

\* "none": no deadline.  "finite": one the clock may reach during the call.
\* "unrepresentable": inf, or beyond threading.TIMEOUT_MAX; _resolve_deadline
\* lets any positive float through.  "nan": from the configuration file; it never
\* passes, and a wait for it does not block.
DeadlineKinds == {"none", "finite", "unrepresentable", "nan"}

ASSUME ScatterAssumption ==
    /\ MaxItems \in Nat
    /\ MaxWorkers \in Int
    /\ Name \in [1 .. MaxItems -> Nat]
    /\ Deadlines \subseteq DeadlineKinds
    /\ Hangs \subseteq SUBSET (1 .. MaxItems)

VARIABLES
    call,       \* the arguments of the call: never change
    pc,         \* where the calling thread is
    submitted,  \* items 1 .. submitted have been handed to the pool
    alive,      \* the number of worker threads started
    next,       \* items next .. submitted are in the pool's queue
    thread,     \* thread[w]: the item worker thread w holds, or Free
    fut,        \* the state of each item's future
    answer,     \* the exchange each finished item ended with
    sends,      \* how many times each item's message was posted
    late,       \* items begun after the pool was shut down
    pending,    \* the items the caller has no result for
    batch,      \* finished items as_completed holds and has not yielded
    arrived,    \* items that finished since as_completed last looked
    expired,    \* the deadline has passed
    reason,     \* why the wait ended
    results     \* the FanResults, in the order they were appended

callVars == <<submitted, pending, batch, reason, results>>
poolVars == <<alive, next, thread, fut, answer, sends, late>>
vars == <<call, pc, callVars, poolVars, arrived, expired>>

-------------------------------------------------------------------------------
Slots == 1 .. MaxItems
Items == 1 .. call.n
Free  == 0
NoAnswer == Blank

_clamp(value, lo, hi) ==
    LET low == IF value < hi THEN value ELSE hi IN IF lo > low THEN lo ELSE low

Workers == 1 .. _clamp(MaxWorkers, 1, call.n)

FutureStates == {"unsubmitted", "pending", "running", "finished", "cancelled"}
CallerStates == {"submit", "yield", "wait", "label", "shutdown", "sort",
                 "returned", "raised"}
Gone     == {"returned", "raised"}          \* the call is over for its caller
Waiting  == {"yield", "wait"}               \* as_completed's waiter is installed
NoReason == "none"
NoThread == "no thread"                     \* submit raised
Labels   == {"abandoned", "deadline"}
Verdicts == {"ok", "failed", "error"} \cup Labels

Calls == [n : 0 .. MaxItems, stop : BOOLEAN, deadline : Deadlines, hung : Hangs]

\* What call(ref, message) makes of an exchange: every exception, whether of the
\* transport or of the decoding, is the item's own result and no one else's.
FanResult(i, x) ==
    IF x.lost \/ Undecodable(x)
    THEN [item |-> i, ok |-> FALSE, terminal |-> "error"]
    ELSE [item |-> i, ok |-> interpret_result(x).ok, terminal |-> interpret_result(x).kind]

LabelResult(i) == [item |-> i, ok |-> FALSE, terminal |-> reason]

Reported == {results[k].item : k \in 1 .. Len(results)}

Init ==
    /\ call \in Calls
    /\ pc = "submit"
    /\ submitted = 0
    /\ alive = 0
    /\ next = 1
    /\ thread = [w \in Workers |-> Free]
    /\ fut = [i \in Slots |-> "unsubmitted"]
    /\ answer = [i \in Slots |-> NoAnswer]
    /\ sends = [i \in Slots |-> 0]
    /\ late = {}
    /\ pending = {}
    /\ batch = {}
    /\ arrived = {}
    /\ expired = FALSE
    /\ reason = NoReason
    /\ results = <<>>

-------------------------------------------------------------------------------
(***************************************************************************)
(* The calling thread.                                                     *)
(***************************************************************************)

ReturnEmpty ==
    /\ pc = "submit"
    /\ call.n = 0
    /\ pc' = "returned"
    /\ UNCHANGED <<call, callVars, poolVars, arrived, expired>>

\* submit queues the item and then starts a thread for it, unless all are running
\* or one has finished an item and not been counted on since.
Idle == Cardinality({i \in Items : fut[i] = "finished"}) > submitted - alive

Enqueue ==
    /\ pc = "submit"
    /\ submitted < call.n
    /\ submitted' = submitted + 1
    /\ fut' = [fut EXCEPT ![submitted + 1] = "pending"]
    /\ pending' = pending \cup {submitted + 1}
    /\ UNCHANGED <<call, batch, results, next, thread, answer, sends, late, arrived, expired>>

Submit ==
    /\ Enqueue
    /\ \/ alive + 1 \in Workers /\ alive' = alive + 1
       \/ (alive + 1 \notin Workers \/ Idle) /\ UNCHANGED alive
    /\ UNCHANGED <<pc, reason>>

\* Thread.start raises, outside the try: the call is over, the pool is not shut down
\* and the item stays queued.
SubmitFailsAs(r) ==
    /\ Enqueue
    /\ alive + 1 \in Workers
    /\ pc' = "raised"
    /\ reason' = r
    /\ UNCHANGED alive

SubmitFails == SubmitFailsAs(NoThread)

\* The first next() of as_completed: the deadline starts to run, the futures that
\* have finished by now are the first batch, the others will arrive.
Enter ==
    /\ pc = "submit"
    /\ call.n > 0
    /\ submitted = call.n
    /\ pc' = "yield"
    /\ batch' = {i \in Items : fut[i] = "finished"}
    /\ UNCHANGED <<call, submitted, pending, reason, results, poolVars, arrived, expired>>

\* One turn of the loop: take a finished future's result, drop it from the pending
\* ones, and stop at the first success when the call asked for that.
TakeResult(i, left, stops) ==
    /\ pc = "yield"
    /\ i \in batch
    /\ batch' = batch \ {i}
    /\ pending' = left
    /\ results' = Append(results, FanResult(i, answer[i]))
    /\ IF stops
       THEN pc' = "label" /\ reason' = "abandoned"
       ELSE UNCHANGED <<pc, reason>>
    /\ UNCHANGED <<call, submitted, poolVars, arrived, expired>>

Succeeds(i) == call.stop /\ FanResult(i, answer[i]).ok

Gather_KeepsPending(i) == TakeResult(i, pending, Succeeds(i))  \* mutant
Gather_NeverStops(i)   == TakeResult(i, pending \ {i}, FALSE)  \* mutant
Gather(i) == TakeResult(i, pending \ {i}, Succeeds(i))

\* The wait is over, for reason r: what is left gets labelled.
EndWait(r) ==
    /\ pc = "yield"
    /\ batch = {}
    /\ pc' = "label"
    /\ reason' = r
    /\ UNCHANGED <<call, submitted, pending, batch, results, poolVars, arrived, expired>>

\* Every future has been yielded: the loop ends.
AllGathered == pending = {} /\ EndWait("abandoned")

\* as_completed raises TimeoutError before it looks at what has arrived.
TimedOut_ForgetsReason == pending # {} /\ expired /\ EndWait(NoReason)     \* mutant
TimedOut_SaysAbandoned == pending # {} /\ expired /\ EndWait("abandoned")  \* mutant
TimedOut == pending # {} /\ expired /\ EndWait("deadline")

\* With nothing arrived, Event.wait raises OverflowError for a time it cannot
\* represent, which only the outer finally sees.
OverflowWith(r) ==
    /\ pc = "yield"
    /\ batch = {}
    /\ pending # {}
    /\ call.deadline = "unrepresentable"
    /\ arrived = {}
    /\ pc' = "shutdown"
    /\ reason' = r
    /\ UNCHANGED <<call, submitted, pending, batch, results, poolVars, arrived, expired>>

Overflow_Swallowed == OverflowWith("deadline")  \* mutant
Overflow == OverflowWith("overflow")

\* Event.wait looks at its flag before it looks at the time: if something has arrived
\* it returns, whatever the deadline.
Block ==
    /\ pc = "yield"
    /\ batch = {}
    /\ pending # {}
    /\ ~expired
    /\ call.deadline = "unrepresentable" => arrived # {}
    /\ pc' = "wait"
    /\ UNCHANGED <<call, callVars, poolVars, arrived, expired>>

\* The wait ends when something arrived or the time is up, possibly both; a wait
\* for nan ends at once.
WakeOn(event) ==
    /\ pc = "wait"
    /\ event
    /\ pc' = "yield"
    /\ batch' = arrived
    /\ arrived' = {}
    /\ UNCHANGED <<call, submitted, pending, reason, results, poolVars, expired>>

Wake_IgnoresDeadline == WakeOn(arrived # {})  \* mutant
Wake == WakeOn(arrived # {} \/ expired \/ call.deadline = "nan")

\* "for ref in pending.values()": one turn per item left, in submission order.
Label ==
    /\ pc = "label"
    /\ \E i \in pending :
          /\ \A j \in pending : i <= j
          /\ results' = Append(results, LabelResult(i))
          /\ pending' = pending \ {i}
    /\ UNCHANGED <<call, pc, submitted, batch, reason, poolVars, arrived, expired>>

Labelled ==
    /\ pc = "label"
    /\ pending = {}
    /\ pc' = "shutdown"
    /\ UNCHANGED <<call, callVars, poolVars, arrived, expired>>

\* shutdown(cancel_futures=True) drains the queue item by item: worker threads
\* can still pop while it does.
Cancel ==
    /\ pc = "shutdown"
    /\ next <= submitted
    /\ fut' = [fut EXCEPT ![next] = "cancelled"]
    /\ next' = next + 1
    /\ UNCHANGED <<call, pc, callVars, alive, thread, answer, sends, late, arrived, expired>>

ShutDownOnce(drained) ==
    /\ pc = "shutdown"
    /\ drained
    /\ pc' = IF reason = "overflow" THEN "raised" ELSE "sort"
    /\ UNCHANGED <<call, callVars, poolVars, arrived, expired>>

ShutDown_LeavesQueue == ShutDownOnce(TRUE)  \* mutant
ShutDown == ShutDownOnce(next > submitted)

\* results.sort(key=agent)
SortKeys == [k \in 1 .. Len(results) |-> Name[results[k].item]]

Sort ==
    /\ pc = "sort"
    /\ \E p \in StableOrders(SortKeys) : results' = Rearranged(results, p)
    /\ pc' = "returned"
    /\ UNCHANGED <<call, submitted, pending, batch, reason, poolVars, arrived, expired>>

-------------------------------------------------------------------------------
(***************************************************************************)
(* The worker threads.  They outlive the call: nothing stops a running one. *)
(***************************************************************************)

Pop(w) ==
    /\ w <= alive
    /\ thread[w] = Free
    /\ next <= submitted
    /\ thread' = [thread EXCEPT ![w] = next]
    /\ next' = next + 1
    /\ UNCHANGED <<call, pc, callVars, alive, fut, answer, sends, late, arrived, expired>>

ShutDownDone == pc \in {"sort"} \cup Gone /\ reason # NoThread

\* set_running_or_notify_cancel, then call() posts the message.
Begin(w) ==
    /\ thread[w] # Free
    /\ fut[thread[w]] = "pending"
    /\ fut' = [fut EXCEPT ![thread[w]] = "running"]
    /\ sends' = [sends EXCEPT ![thread[w]] = @ + 1]
    /\ late' = IF ShutDownDone THEN late \cup {thread[w]} ELSE late
    /\ UNCHANGED <<call, pc, callVars, alive, next, thread, answer, arrived, expired>>

\* mutant: a lost request is tried again
Finish_Retries(w, x) ==
    /\ thread[w] # Free
    /\ fut[thread[w]] = "running"
    /\ thread[w] \notin call.hung
    /\ fut' = [fut EXCEPT ![thread[w]] = IF x.lost THEN "pending" ELSE "finished"]
    /\ answer' = [answer EXCEPT ![thread[w]] = x]
    /\ thread' = [thread EXCEPT ![w] = IF x.lost THEN @ ELSE Free]
    /\ arrived' = IF pc \in Waiting THEN arrived \cup {thread[w]} ELSE arrived
    /\ UNCHANGED <<call, pc, callVars, alive, next, sends, late, expired>>

\* The request ends, well or badly.  A peer that trickles bytes never ends it: the
\* timeout bounds each socket read and not the exchange.
Finish(w, x) ==
    /\ thread[w] # Free
    /\ fut[thread[w]] = "running"
    /\ thread[w] \notin call.hung
    /\ fut' = [fut EXCEPT ![thread[w]] = "finished"]
    /\ answer' = [answer EXCEPT ![thread[w]] = x]
    /\ thread' = [thread EXCEPT ![w] = Free]
    /\ arrived' = IF pc \in Waiting THEN arrived \cup {thread[w]} ELSE arrived
    /\ UNCHANGED <<call, pc, callVars, alive, next, sends, late, expired>>

(***************************************************************************)
(* The clock.                                                              *)
(***************************************************************************)

Expire ==
    /\ call.deadline = "finite"
    /\ pc \in Waiting
    /\ ~expired
    /\ expired' = TRUE
    /\ UNCHANGED <<call, pc, callVars, poolVars, arrived>>

-------------------------------------------------------------------------------
Caller ==
    \/ ReturnEmpty \/ Submit \/ SubmitFails \/ Enter
    \/ \E i \in batch : Gather(i)
    \/ AllGathered \/ TimedOut \/ Overflow \/ Block \/ Wake
    \/ Label \/ Labelled \/ Cancel \/ ShutDown \/ Sort

Worker(w) == Pop(w) \/ Begin(w) \/ \E x \in Answers : Finish(w, x)

Next == Caller \/ Expire \/ \E w \in Workers : Worker(w)

Spec == Init /\ [][Next]_vars

\* The caller's thread and the clock always go on; a worker thread is scheduled,
\* and a request that does not hang ends within its socket timeouts.
FairSpec ==
    /\ Spec
    /\ WF_vars(Caller)
    /\ WF_vars(Expire)
    /\ \A w \in 1 .. MaxItems : WF_vars(w \in Workers /\ Worker(w))

-------------------------------------------------------------------------------
(***************************************************************************)
(* Properties.                                                             *)
(***************************************************************************)

\* Every variable keeps its type; a FanResult always has one of the verdicts
\* types.FanResult lists.
TypeOK ==
    /\ call \in Calls
    /\ pc \in CallerStates
    /\ submitted \in 0 .. call.n
    /\ alive \in {0} \cup Workers
    /\ next \in 1 .. submitted + 1
    /\ thread \in [Workers -> 0 .. call.n]
    /\ fut \in [Slots -> FutureStates]
    /\ answer \in [Slots -> Answers \cup {NoAnswer}]
    /\ sends \in [Slots -> Nat]
    /\ late \subseteq Items
    /\ pending \subseteq Items
    /\ batch \subseteq Items
    /\ arrived \subseteq Items
    /\ expired \in BOOLEAN
    /\ reason \in Labels \cup {NoReason, NoThread, "overflow"}
    /\ results \in Seq([item : Slots, ok : BOOLEAN, terminal : Verdicts])

\* "len(result) == len(items)", "every item appears once" and "sorted by agent
\* name": whatever the threads, the deadline and the first success did, the list
\* the caller gets has one result per item, in agent order.
OneResultEach ==
    pc = "returned" =>
        /\ Len(results) = call.n
        /\ Reported = Items
        /\ \A j, k \in 1 .. Len(results) :
              j < k => Name[results[j].item] <= Name[results[k].item]

\* "abandoned" is said only after a success the call was told to stop at, and
\* "deadline" only after the deadline, and one call never says both: the reason is
\* decided once for all leftovers, after the last moment either could change.
LabelsEarned ==
    LET Said(v) == \E k \in 1 .. Len(results) : results[k].terminal = v IN
    /\ Said("abandoned") => call.stop /\ \E k \in 1 .. Len(results) : results[k].ok
    /\ Said("deadline") => expired /\ ~(call.stop /\ Said("ok"))
    /\ ~(Said("abandoned") /\ Said("deadline"))

\* "return as soon as one peer SUCCEEDS": however many peers had succeeded when the
\* caller looked, it counts one of them.
StopsAtFirst ==
    call.stop =>
        \A j, k \in 1 .. Len(results) : results[j].ok /\ results[k].ok => j = k

\* "one attempt per peer", "NOT retried": no item's message is posted twice, by the
\* call or by what it leaves behind, and a cancelled item's never is.
OneAttempt ==
    \A i \in Items :
        /\ sends[i] <= 1
        /\ fut[i] = "cancelled" => sends[i] = 0

\* What still starts after the pool was shut down was already in the hands of a
\* worker thread: at most one message per thread, whatever was queued.
LateSendsBounded == Cardinality(late) <= Cardinality(Workers)

\* The call, with all its threads, does what Batch promises.
Settlements == {<<results[k].item, results[k].terminal>> : k \in 1 .. Len(results)}

Abstract == INSTANCE Batch WITH
    size    <- call.n,
    stop    <- call.stop,
    settled <- Settlements,
    status  <- IF pc \in Gone THEN pc ELSE "open"

ImplementsBatch == Abstract!Spec

\* The only answers that are in and reported as cut off nevertheless are those that came
\* after the caller last looked: the deadline never costs one that is in its hands.  (That
\* it costs any is against the docstring: see LateMeansUnfinished.)
OnlyUnseenCutOff ==
    [][reason' = "deadline" =>
          \A i \in pending' : fut[i] = "finished" => reason = "deadline" \/ i \in arrived]_vars

\* What a call and its threads have left to do.  The caller's stages; the wait of a
\* deadline that has passed is as good as over.
Stage ==
    [submit |-> 7, yield |-> IF expired THEN 4 ELSE 6, wait |-> 5, label |-> 3,
     shutdown |-> 2, sort |-> 1, returned |-> 0, raised |-> 0][pc]

ToDo(states) == Cardinality({i \in Items : fut[i] \in states})

\* Items to submit, to pop, to begin, to finish, to report, and to look at.
Rank ==
    4 * (call.n - submitted)
    + (submitted + 1 - next)
    + ToDo({"unsubmitted", "pending"})
    + ToDo({"unsubmitted", "pending", "running"})
    + (call.n - Len(results))
    + 2 * Cardinality(pending \ batch)
    + (IF expired THEN 0 ELSE 1)
    + Stage

\* Nobody goes round in circles: every step of the caller, of a thread it leaves behind
\* or of the clock uses up some of what is left, at most 7 n + 8 in all.  So no wake-up
\* is for nothing and nothing is done twice.  A wait for nan does go round (see Wake).
EveryStepCounts ==
    [][call.deadline # "nan" => Rank' < Rank /\ Rank' >= 0 /\ Rank <= 7 * call.n + 8]_vars

\* "a single hung socket can no longer stall the batch": a call with a deadline that
\* can pass ends however many of its peers hang; another one ends when no peer does.
CallEnds == (call.deadline \notin {"none", "nan"} \/ call.hung = {}) => <>(pc \in Gone)

\* "let any already-running threads finish in the background": once the call is over,
\* every item it handed to the pool is finished or was cancelled, unless its peer hangs:
\* also when the threads are all taken by peers that do.  When starting a thread failed
\* nothing is cancelled, and that takes a thread and peers that do not hang.
NothingLeftBehind ==
    \A i \in Slots :
        (/\ pc \in Gone
         /\ i \in (1 .. submitted) \ call.hung
         /\ reason = NoThread => alive > 0 /\ call.hung = {})
        ~> (fut[i] \in {"finished", "cancelled"})

(***************************************************************************)
(* What the documentation says and the code does not do: checked to fail.  *)
(***************************************************************************)

\* fanout.py: "return as soon as one peer SUCCEEDS", client.py: "'completed' is
\* the only successful terminal".  The success a call stops at is a final answer.
FirstSuccessIsFinal ==
    call.stop =>
        \A k \in 1 .. Len(results) :
            results[k].ok => interpret_result(answer[results[k].item]).final

\* types.py: "``deadline`` (whole-call deadline reached before it finished)".  An item
\* that has finished before the deadline is never reported as cut off by it.
LateMeansUnfinished ==
    \A i \in Slots :
        [](fut[i] = "finished" /\ ~expired
            => [](\A k \in 1 .. Len(results) :
                      results[k].item = i => results[k].terminal # "deadline"))
===============================================================================
