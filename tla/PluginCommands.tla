---------------------------- MODULE PluginCommands ----------------------------
(***************************************************************************)
(* Commands that the gateway executes for an operator under an             *)
(* idempotency key.  A command is committed as an accepted row before the  *)
(* executor is called, and the response is committed before the client is  *)
(* answered; a request that finds a completed row replays its response.    *)
(*                                                                         *)
(* A request is one invocation of executeRepositoryFirstCommand.  Several  *)
(* may carry the same key: a client that got no answer sends its request   *)
(* again, while the first one may still be at work.  Beside them a managed *)
(* operation drains the plugin, looks for accepted rows and disables it;   *)
(* the compensation that disables without a drain is ManagedPlugin's, and  *)
(* the core component, which is not drained, is left out.                  *)
(***************************************************************************)
EXTENDS Naturals, Sequences

CONSTANTS
  Keys,         \* idempotency keys, operation_id of the rows
  Requests,     \* invocations of the gateway
  Bodies,       \* what a request asks for, by its checksum
  Responses,    \* responses of the executor, by status and checksum
  Ok,           \* those whose status is a success
  Unavailable,  \* the gateway's own 502, TRANSIENT_EXECUTOR_UNAVAILABLE
  Nothing,      \* no body, no response or no key
  MaxSends,     \* bound on requests that are sent
  MaxToggles,   \* bound on enables and disables
  MaxFaults     \* bound on invocations that die and executors that do not answer

ASSUME CommandAssumption ==
  /\ Ok \subseteq Responses
  /\ Unavailable \notin Responses
  /\ Nothing \notin Keys \cup Bodies \cup Responses \cup {Unavailable}
  /\ MaxSends \in Nat /\ MaxToggles \in Nat /\ MaxFaults \in Nat

VARIABLES
  state,     \* lifecycle state of the plugin
  quiet,     \* the drain under way has found no accepted row
  row,       \* superboard_plugin_command_operations
  outbox,    \* event kinds of superboard_plugin_command_outbox, by key
  req,       \* step, key, body and response of each request
  answers,   \* what clients were answered, errors aside
  executed,  \* how often the executor carried out each key's command
  sends,     \* requests that may still be sent
  toggles,   \* enables and disables that may still be asked for
  faults     \* faults that may still happen

vars == <<state, quiet, row, outbox, req, answers, executed, sends, toggles, faults>>

Received == Responses \cup {Unavailable}
Idle == [pc |-> "idle", key |-> Nothing, body |-> Nothing, response |-> Nothing]

Row == [state: {"none", "accepted", "completed", "failed"},
        body: Bodies \cup {Nothing}, response: Received \cup {Nothing}]

Request == [pc: {"idle", "contract", "insert", "load", "dispatch", "complete", "reread"},
            key: Keys \cup {Nothing}, body: Bodies \cup {Nothing},
            response: Received \cup {Nothing}]

TypeOK ==
  /\ state \in {"active", "draining", "disabled"}
  /\ quiet \in BOOLEAN
  /\ row \in [Keys -> Row]
  /\ outbox \in [Keys -> Seq({"accepted", "completed", "failed"})]
  /\ req \in [Requests -> Request]
  /\ answers \subseteq [key: Keys, body: Bodies, response: Received]
  /\ executed \in [Keys -> Nat]
  /\ sends \in Nat
  /\ toggles \in Nat
  /\ faults \in Nat

Settled(k) == row[k].state \in {"completed", "failed"}

Goto(r, pc) == req' = [req EXCEPT ![r] = [req[r] EXCEPT !.pc = pc]]

\* An answer that is an error: the client learns nothing of the command.
Refuse(r) == req' = [req EXCEPT ![r] = Idle] /\ UNCHANGED answers

\* An answer that is the command's.
Answer(r, response) ==
  /\ req' = [req EXCEPT ![r] = Idle]
  /\ answers' = answers \cup {[key |-> req[r].key, body |-> req[r].body,
                               response |-> response]}
------------------------------------------------------------------------------
(* beginRepositoryCommand                                                  *)

Send(r, k, b) ==
  /\ req[r].pc = "idle"
  /\ sends > 0
  /\ sends' = sends - 1
  /\ req' = [req EXCEPT ![r] = [Idle EXCEPT !.pc = "contract", !.key = k, !.body = b]]
  /\ UNCHANGED <<state, quiet, row, outbox, answers, executed, toggles, faults>>

\* assertActiveCommandContract, for replays as well.
Contract(r) ==
  /\ req[r].pc = "contract"
  /\ IF state = "active" THEN Goto(r, "insert") /\ UNCHANGED answers ELSE Refuse(r)
  /\ UNCHANGED <<state, quiet, row, outbox, executed, sends, toggles, faults>>

\* Mutants of Insert: one trusts the contract that was read, the other takes a
\* key that is known for a new one.
InsertUnguarded(r) ==
  LET k == req[r].key IN
  /\ req[r].pc = "insert"
  /\ IF row[k].state # "none"
     THEN Goto(r, "load") /\ UNCHANGED <<row, outbox>>
     ELSE /\ row' = [row EXCEPT ![k] = [state |-> "accepted", body |-> req[r].body,
                                        response |-> Nothing]]
          /\ outbox' = [outbox EXCEPT ![k] = Append(@, "accepted")]
          /\ Goto(r, "dispatch")
  /\ UNCHANGED <<state, quiet, answers, executed, sends, toggles, faults>>

InsertAgain(r) ==
  LET k == req[r].key IN
  /\ req[r].pc = "insert"
  /\ IF state # "active"
     THEN Refuse(r) /\ UNCHANGED <<row, outbox>>
     ELSE /\ row' = [row EXCEPT ![k] = [state |-> "accepted", body |-> req[r].body,
                                        response |-> Nothing]]
          /\ outbox' = [outbox EXCEPT ![k] = Append(@, "accepted")]
          /\ Goto(r, "dispatch")
          /\ UNCHANGED answers
  /\ UNCHANGED <<state, quiet, executed, sends, toggles, faults>>

\* The insertion: its guard aborts it when the plugin is not active, for a key
\* that is known as well, and a trigger leaves the event of its acceptance.
Insert(r) ==
  LET k == req[r].key IN
  /\ req[r].pc = "insert"
  /\ \/ /\ state # "active"
        /\ Refuse(r)
        /\ UNCHANGED <<row, outbox>>
     \/ /\ state = "active" /\ row[k].state # "none"
        /\ Goto(r, "load")
        /\ UNCHANGED <<row, outbox, answers>>
     \/ /\ state = "active" /\ row[k].state = "none"
        /\ row' = [row EXCEPT ![k] = [state |-> "accepted", body |-> req[r].body,
                                      response |-> Nothing]]
        /\ outbox' = [outbox EXCEPT ![k] = Append(@, "accepted")]
        /\ Goto(r, "dispatch")
        /\ UNCHANGED answers
  /\ UNCHANGED <<state, quiet, executed, sends, toggles, faults>>

\* Mutants of Load: one replays a row whether it is settled or not, the other a
\* key whatever it is sent with.
LoadUnsettled(r) ==
  LET found == row[req[r].key] IN
  /\ req[r].pc = "load"
  /\ IF found.body = req[r].body THEN Answer(r, found.response) ELSE Refuse(r)
  /\ UNCHANGED <<state, quiet, row, outbox, executed, sends, toggles, faults>>

LoadAnyBody(r) ==
  LET found == row[req[r].key] IN
  /\ req[r].pc = "load"
  /\ IF found.state = "accepted"
     THEN Goto(r, "dispatch") /\ UNCHANGED answers
     ELSE Answer(r, found.response)
  /\ UNCHANGED <<state, quiet, row, outbox, executed, sends, toggles, faults>>

\* A known key: a conflict, a command to go on with, or a replay.
Load(r) ==
  LET found == row[req[r].key] IN
  /\ req[r].pc = "load"
  /\ \/ found.body # req[r].body /\ Refuse(r)
     \/ /\ found.body = req[r].body /\ found.state = "accepted"
        /\ Goto(r, "dispatch") /\ UNCHANGED answers
     \/ /\ found.body = req[r].body /\ found.state # "accepted"
        /\ Answer(r, found.response)
  /\ UNCHANGED <<state, quiet, row, outbox, executed, sends, toggles, faults>>
------------------------------------------------------------------------------
(* The executor, and completeRepositoryCommand.                            *)

\* The executor carries the command out, again when it is asked again, and answers.
Dispatch(r, response) ==
  /\ req[r].pc = "dispatch"
  /\ executed' = [executed EXCEPT ![req[r].key] = @ + 1]
  /\ req' = [req EXCEPT ![r] = [req[r] EXCEPT !.pc = "complete", !.response = response]]
  /\ UNCHANGED <<state, quiet, row, outbox, answers, sends, toggles, faults>>

\* The call throws, before or after the executor did its work.
DispatchThrows(r, done) ==
  /\ req[r].pc = "dispatch"
  /\ faults > 0
  /\ faults' = faults - 1
  /\ executed' = [executed EXCEPT ![req[r].key] = IF done THEN @ + 1 ELSE @]
  /\ req' = [req EXCEPT ![r] = [req[r] EXCEPT !.pc = "complete", !.response = Unavailable]]
  /\ UNCHANGED <<state, quiet, row, outbox, answers, sends, toggles>>

Outcome(response) == IF response \in Ok THEN "completed" ELSE "failed"

\* Mutant of Complete: the update does not ask for an accepted row.
CompleteAnyway(r) ==
  LET k == req[r].key
      response == req[r].response
  IN  /\ req[r].pc = "complete"
      /\ row' = [row EXCEPT ![k] = [state |-> Outcome(response), body |-> row[k].body,
                                        response |-> response]]
      /\ outbox' = IF row[k].state = "accepted"
                   THEN [outbox EXCEPT ![k] = Append(@, Outcome(response))]
                   ELSE outbox
      /\ Answer(r, response)
      /\ UNCHANGED <<state, quiet, executed, sends, toggles, faults>>

\* The response of the first request to come back settles the command.
Complete(r) ==
  LET k == req[r].key
      response == req[r].response
  IN  /\ req[r].pc = "complete"
      /\ \/ /\ row[k].state = "accepted"
            /\ row' = [row EXCEPT ![k] = [state |-> Outcome(response), body |-> row[k].body,
                                        response |-> response]]
            /\ outbox' = [outbox EXCEPT ![k] = Append(@, Outcome(response))]
            /\ Answer(r, response)
         \/ /\ row[k].state # "accepted"
            /\ Goto(r, "reread")
            /\ UNCHANGED <<row, outbox, answers>>
      /\ UNCHANGED <<state, quiet, executed, sends, toggles, faults>>

\* A later one answers when its response is the same, and conflicts otherwise.
Reread(r) ==
  LET response == req[r].response IN
  /\ req[r].pc = "reread"
  /\ \/ row[req[r].key].response = response /\ Answer(r, response)
     \/ row[req[r].key].response # response /\ Refuse(r)
  /\ UNCHANGED <<state, quiet, row, outbox, executed, sends, toggles, faults>>

\* The invocation dies, or a statement of it fails.
Crash(r) ==
  /\ req[r].pc # "idle"
  /\ faults > 0
  /\ faults' = faults - 1
  /\ Refuse(r)
  /\ UNCHANGED <<state, quiet, row, outbox, executed, sends, toggles>>
------------------------------------------------------------------------------
(* The operation that disables the plugin, and enables it again.           *)

Enable ==
  /\ state = "disabled"
  /\ toggles > 0
  /\ toggles' = toggles - 1
  /\ state' = "active"
  /\ UNCHANGED <<quiet, row, outbox, req, answers, executed, sends, faults>>

Drain ==
  /\ state = "active"
  /\ toggles > 0
  /\ toggles' = toggles - 1
  /\ state' = "draining"
  /\ UNCHANGED <<quiet, row, outbox, req, answers, executed, sends, faults>>

\* The operation fails, and its restoration makes the plugin active again.
Restore ==
  /\ state = "draining"
  /\ state' = "active"
  /\ quiet' = FALSE
  /\ UNCHANGED <<row, outbox, req, answers, executed, sends, toggles, faults>>

\* Accepted rows, whatever their age, refuse the disable (Restore follows).
Busy ==
  /\ state = "draining"
  /\ \A k \in Keys : row[k].state # "accepted"
  /\ quiet' = TRUE
  /\ UNCHANGED <<state, row, outbox, req, answers, executed, sends, toggles, faults>>

\* The release without the plugin is activated, some statements after the look.
Disable ==
  /\ state = "draining" /\ quiet
  /\ state' = "disabled"
  /\ quiet' = FALSE
  /\ UNCHANGED <<row, outbox, req, answers, executed, sends, toggles, faults>>
------------------------------------------------------------------------------
Init ==
  /\ state = "active"
  /\ quiet = FALSE
  /\ row = [k \in Keys |-> [state |-> "none", body |-> Nothing, response |-> Nothing]]
  /\ outbox = [k \in Keys |-> <<>>]
  /\ req = [r \in Requests |-> Idle]
  /\ answers = {}
  /\ executed = [k \in Keys |-> 0]
  /\ sends = MaxSends
  /\ toggles = MaxToggles
  /\ faults = MaxFaults

\* executeRepositoryFirstCommand
Execute(r) ==
  \/ \E k \in Keys, b \in Bodies : Send(r, k, b)
  \/ Contract(r) \/ Insert(r) \/ Load(r)
  \/ \E response \in Responses : Dispatch(r, response)
  \/ \E done \in BOOLEAN : DispatchThrows(r, done)
  \/ Complete(r) \/ Reread(r)

Next ==
  \/ \E r \in Requests : Execute(r) \/ Crash(r)
  \/ Enable \/ Drain \/ Restore \/ Busy \/ Disable

Spec == Init /\ [][Next]_vars
------------------------------------------------------------------------------
(* Properties                                                              *)

\* However often a command is sent, dispatched and retried, every client that is
\* answered gets the one response its row recorded, for the body it sent, and a
\* response of the executor stands for a command it carried out.
AnswersAgree ==
  \A a \in answers : /\ Settled(a.key)
                     /\ row[a.key].body = a.body
                     /\ row[a.key].response = a.response
                     /\ a.response \in Responses => executed[a.key] > 0

\* The outbox tells of each command that it was accepted and then how it ended,
\* once each, and never of a command that is not there.
OutboxFollowsRows ==
  \A k \in Keys : /\ row[k].state = "none" => outbox[k] = <<>>
                  /\ row[k].state = "accepted" => outbox[k] = <<"accepted">>
                  /\ Settled(k) => outbox[k] = <<"accepted", row[k].state>>

\* A request read its contract, and the drain the accepted rows, some statements
\* before either acts on it: a disabled plugin has no command accepted and not settled.
DisabledOwesNothing ==
  state = "disabled" => \A k \in Keys : row[k].state # "accepted"

\* A command is accepted once and settled once, and every answer is the response
\* it was settled with: the rows keep the promise of CommandPromise.
Command == [k \in Keys |-> [body |-> row[k].body, response |-> row[k].response]]
Promise == INSTANCE CommandPromise WITH Replies <- Received, command <- Command
KeepsPromise == Promise!Spec
=============================================================================
