---------------------------- MODULE CommandPromise ----------------------------
(***************************************************************************)
(* What the gateway promises of a command sent under an idempotency key:   *)
(* it is accepted at most once, for one body; it is settled at most once,  *)
(* by one response; and every answer a client gets is that response, for   *)
(* that body.  Requests, retries, the executor and the lifecycle of the    *)
(* plugin are not part of the promise.                                     *)
(***************************************************************************)
CONSTANTS Keys, Bodies, Replies, Nothing

VARIABLES
  command,  \* body and response of each key, Nothing until there is one
  answers   \* what clients were answered

TypeOK ==
  /\ command \in [Keys -> [body: Bodies \cup {Nothing}, response: Replies \cup {Nothing}]]
  /\ answers \subseteq [key: Keys, body: Bodies, response: Replies]

Init ==
  /\ command = [k \in Keys |-> [body |-> Nothing, response |-> Nothing]]
  /\ answers = {}

Accept(k, b) ==
  /\ command[k].body = Nothing
  /\ command' = [command EXCEPT ![k] = [body |-> b, response |-> Nothing]]
  /\ UNCHANGED answers

Reply(k) ==
  answers' = answers \cup {[key |-> k, body |-> command'[k].body,
                            response |-> command'[k].response]}

\* The request that settles a command is answered at once.
Settle(k, response) ==
  /\ command[k].body # Nothing /\ command[k].response = Nothing
  /\ command' = [command EXCEPT ![k] = [body |-> command[k].body, response |-> response]]
  /\ Reply(k)

Replay(k) ==
  /\ command[k].response # Nothing
  /\ UNCHANGED command
  /\ Reply(k)

Next == \E k \in Keys :
  \/ \E b \in Bodies : Accept(k, b)
  \/ \E response \in Replies : Settle(k, response)
  \/ Replay(k)

Spec == Init /\ [][Next]_<<command, answers>>
=============================================================================
