------------------------------ MODULE A2AOutcome ------------------------------
(***************************************************************************)
(* What one A2A exchange means (client.py).                                *)
(*                                                                         *)
(* Every execution mode of the fleet (scatter, chain, submit, poll) posts  *)
(* one JSON-RPC request and decodes what came back with interpret_result.  *)
(* An exchange is abstracted to what that decoding looks at: whether the   *)
(* transport raised, whether the response carries a JSON-RPC error,        *)
(* whether its body has a shape the decoder raises on (a "status" that is  *)
(* not an object, an "artifacts" that is not a list), and the task id, the *)
(* task state and the reply text otherwise.  A bare Message is an exchange *)
(* without an id and without a state.                                      *)
(*                                                                         *)
(* Python's empty string is <<>> for ids, which are sequences here because *)
(* tools.py concatenates them, and NoText for states and replies.          *)
(***************************************************************************)

TERMINAL_STATES == {"failed", "canceled", "cancelled", "rejected"}
DONE_STATES     == {"completed"} \cup TERMINAL_STATES

NoId   == <<>>
NoText == ""

\* The six kinds of exchange.  Lost: the transport raised (refused, timed out,
\* bad JSON, response over the size cap), so there is no response to decode.
Blank == [lost |-> FALSE, error |-> FALSE, malformed |-> FALSE,
          id |-> NoId, state |-> NoText, reply |-> NoText]

Lost             == [Blank EXCEPT !.lost = TRUE]
RpcError         == [Blank EXCEPT !.error = TRUE]
Malformed        == [Blank EXCEPT !.malformed = TRUE]
Message(text)    == [Blank EXCEPT !.reply = text]
Task(id, state)  == [Blank EXCEPT !.id = id, !.state = state]
TaskReply(id, state, text) == [Task(id, state) EXCEPT !.reply = text]

\* interpret_result raises on a malformed body, but looks for "error" first.
Undecodable(x) == x.malformed /\ ~x.error

\* The Outcome of a response that came back and can be decoded.  Any state that
\* is neither a terminal failure, "completed" nor empty is ok but not final.
interpret_result(x) ==
    IF x.error
    THEN [ok |-> FALSE, kind |-> "error", task_id |-> NoId, state |-> NoText,
          reply |-> NoText, final |-> TRUE]
    ELSE [ok      |-> x.state \notin TERMINAL_STATES,
          kind    |-> IF x.state \in TERMINAL_STATES THEN "failed" ELSE "ok",
          task_id |-> x.id,
          state   |-> x.state,
          reply   |-> x.reply,
          final   |-> x.state \in DONE_STATES \cup {NoText}]

===============================================================================
