----------------------------- MODULE PluginTasks -----------------------------
(***************************************************************************)
(* Task leases, and the Workflows that wait for their plugin.  A Worker    *)
(* runs a task of a plugin under a lease that the site grants, and a       *)
(* disable of the plugin looks for running leases.  A Workflow whose lease *)
(* is refused leaves a waiter and sleeps until the event of that waiter    *)
(* arrives: once an operation is completed, the core API reads the pending *)
(* waiters, sends their events and marks them notified.                    *)
(*                                                                         *)
(* A request to the site's task authority is one statement here; between   *)
(* two of them the Workers, the core API and the operation interleave.     *)
(* The operation is the one of ManagedPlugin, reduced to the lifecycle     *)
(* state and the running row that leases and waiters depend on.            *)
(***************************************************************************)
EXTENDS Naturals, FiniteSets

CONSTANTS
  Workflows,    \* workflow instances of the plugin
  Leases,       \* lease ids, each drawn once
  Passes,       \* deliveries of wake-ups that may run at the same time
  PageSize,     \* LIMIT of the waiters that one pass reads
  Nothing,      \* no lease, or no waiter
  MaxAttempts,  \* bound on the resumptions of a workflow
  MaxToggles,   \* bound on operations
  MaxFaults     \* bound on crashes, lost answers, expiries and failed activations

Waiters == Workflows \X (0..MaxAttempts)

ASSUME TaskAssumption ==
  /\ PageSize \in Nat \ {0}
  /\ Nothing \notin Leases \cup Waiters
  /\ MaxAttempts \in Nat /\ MaxToggles \in Nat /\ MaxFaults \in Nat

VARIABLES
  state,    \* lifecycle state of the plugin
  oper,     \* step of the managed operation on its package
  lease,    \* superboard_plugin_task_leases
  waiter,   \* superboard_plugin_workflow_waiters
  wf,       \* step, attempt and lease of each workflow
  inbox,    \* events sent to workflows and not consumed
  pass,     \* invocations of drainPluginWorkflowWakeups
  toggles,  \* operations that may still be asked for
  faults    \* faults that may still happen

operation == <<state, oper, toggles>>
tasks == <<lease, wf>>
vars == <<state, oper, lease, waiter, wf, inbox, pass, toggles, faults>>

TypeOK ==
  /\ state \in {"active", "draining", "disabled"}
  /\ oper \in {"idle", "enable", "enabled", "disable", "drained", "commit",
               "disabled", "undo", "complete"}
  /\ lease \in [Leases -> [state: {"free", "running", "finished"}, late: BOOLEAN]]
  /\ waiter \in [Waiters -> {"none", "pending", "notified"}]
  /\ wf \in [Workflows ->
       [pc: {"claim", "register", "paused", "wait", "check", "work", "finish",
             "abort", "finished", "done"},
        attempt: 0..MaxAttempts, lease: Leases \cup {Nothing}]]
  /\ inbox \subseteq Waiters
  /\ pass \in [Passes -> [step: {"idle", "read", "deliver", "done"},
                          todo: SUBSET Waiters, current: Waiters \cup {Nothing}]]
  /\ toggles \in 0..MaxToggles
  /\ faults \in 0..MaxFaults

\* status = 'running' of the operation's row
OperationRuns == oper # "idle"

\* Mutant of Awaited: one event, and one waiter, for all the attempts of a step.
AwaitedOnce(w) == <<w, 0>>

\* The event of a step names the attempt, and so does the id of its waiter.
Awaited(w) == <<w, wf[w].attempt>>

Goto(w, pc) == wf' = [wf EXCEPT ![w].pc = pc]

\* The lease id of a task is known to the invocation that claimed it only.
Leave(w, pc) ==
  wf' = [wf EXCEPT ![w] = [pc |-> pc, attempt |-> @.attempt, lease |-> Nothing]]

Fault == faults > 0 /\ faults' = faults - 1
------------------------------------------------------------------------------
(* The operation that enables or disables the plugin's package.            *)

\* An operation with nothing to change is completed at once.
Begin(action) ==
  /\ oper = "idle"
  /\ toggles > 0
  /\ toggles' = toggles - 1
  /\ oper' = CASE action = "enable" /\ state = "disabled" -> "enable"
               [] action = "disable" /\ state = "active" -> "disable"
               [] OTHER -> "complete"
  /\ UNCHANGED <<state, tasks, waiter, inbox, pass, faults>>

Enable ==
  /\ oper = "enable"
  /\ state' = "active"
  /\ oper' = "enabled"
  /\ UNCHANGED <<tasks, waiter, inbox, pass, toggles, faults>>

Drain ==
  /\ oper = "disable"
  /\ state' = "draining"
  /\ oper' = "drained"
  /\ UNCHANGED <<tasks, waiter, inbox, pass, toggles, faults>>

\* A running lease refuses the disable, past its deadline or not.
Busy ==
  /\ oper = "drained"
  /\ oper' = IF \E l \in Leases : lease[l].state = "running" THEN "undo" ELSE "commit"
  /\ UNCHANGED <<state, tasks, waiter, inbox, pass, toggles, faults>>

Disable ==
  /\ oper = "commit"
  /\ state' = "disabled"
  /\ oper' = "disabled"
  /\ UNCHANGED <<tasks, waiter, inbox, pass, toggles, faults>>

\* A step fails, before or after the release pointer moved.
Fails ==
  /\ oper \in {"enable", "enabled", "disable", "drained", "commit", "disabled"}
  /\ Fault
  /\ oper' = IF oper \in {"enable", "disable"} THEN "complete" ELSE "undo"
  /\ UNCHANGED <<state, tasks, waiter, inbox, pass, toggles>>

\* The restoration or the compensation gives back the state before the operation.
Undo ==
  /\ oper = "undo"
  /\ state' = IF state = "active" THEN "disabled" ELSE "active"
  /\ oper' = "complete"
  /\ UNCHANGED <<tasks, waiter, inbox, pass, toggles, faults>>

\* The row is completed and the core API is asked to deliver the wake-ups.
Complete(d) ==
  /\ oper \in {"enabled", "disabled", "complete"}
  /\ pass[d].step = "idle"
  /\ oper' = "idle"
  /\ pass' = [pass EXCEPT ![d].step = "read"]
  /\ UNCHANGED <<state, tasks, waiter, inbox, toggles, faults>>
------------------------------------------------------------------------------
(* drainPluginWorkflowWakeups in the core API.                             *)

Pending == {x \in Waiters : waiter[x] = "pending"}

\* The oldest pending waiters, as many as a page holds (any of them here), of
\* an active plugin while no operation runs.
ReadWakeups(d, page) ==
  LET readable == IF state = "active" /\ ~OperationRuns THEN Pending ELSE {} IN
  /\ pass[d].step = "read"
  /\ page \subseteq readable
  /\ \/ page = readable /\ Cardinality(page) <= PageSize
     \/ Cardinality(page) = PageSize
  /\ pass' = [pass EXCEPT ![d].step = "deliver", ![d].todo = page]
  /\ UNCHANGED <<operation, tasks, waiter, inbox, faults>>

\* wakePluginWorkflow: an instance that is complete needs no event.
Deliver(d, x) ==
  /\ pass[d].step = "deliver"
  /\ x \in pass[d].todo
  /\ inbox' = IF wf[x[1]].pc = "done" THEN inbox ELSE inbox \cup {x}
  /\ pass' = [pass EXCEPT ![d].step = "done", ![d].current = x, ![d].todo = @ \ {x}]
  /\ UNCHANGED <<operation, tasks, waiter, faults>>

\* wake_done
WakeDone(d) ==
  LET x == pass[d].current IN
  /\ pass[d].step = "done"
  /\ waiter' = [waiter EXCEPT ![x] = IF @ = "pending" THEN "notified" ELSE @]
  /\ pass' = [pass EXCEPT ![d].step = "deliver", ![d].current = Nothing]
  /\ UNCHANGED <<operation, tasks, inbox, faults>>

PassEnds(d) ==
  /\ pass[d].step = "deliver"
  /\ pass[d].todo = {}
  /\ pass' = [pass EXCEPT ![d].step = "idle"]
  /\ UNCHANGED <<operation, tasks, waiter, inbox, faults>>

\* A delivery or its wake_done fails: the loop goes on to the next waiter.
DeliveryFails(d) ==
  /\ \/ pass[d].step = "deliver" /\ \E x \in pass[d].todo :
          pass' = [pass EXCEPT ![d].todo = @ \ {x}]
     \/ /\ pass[d].step = "done"
        /\ pass' = [pass EXCEPT ![d].step = "deliver", ![d].current = Nothing]
  /\ Fault
  /\ UNCHANGED <<operation, tasks, waiter, inbox>>

\* The request never reaches the core API, or the pass dies on its way.
PassDies(d) ==
  /\ pass[d].step # "idle"
  /\ Fault
  /\ pass' = [pass EXCEPT ![d] = [step |-> "idle", todo |-> {}, current |-> Nothing]]
  /\ UNCHANGED <<operation, tasks, waiter, inbox>>
------------------------------------------------------------------------------
(* A step of a workflow, run by runPluginTask.                             *)

\* Mutant of Admitted: leases do not look at the running operation.
AdmittedWhileOperating == state = "active"

\* What the insertion of a lease asks for.
Admitted == state = "active" /\ ~OperationRuns

Claim(w, l) ==
  /\ wf[w].pc = "claim"
  /\ Admitted
  /\ lease[l].state = "free"
  /\ lease' = [lease EXCEPT ![l].state = "running"]
  /\ wf' = [wf EXCEPT ![w].pc = "check", ![w].lease = l]
  /\ UNCHANGED <<operation, waiter, inbox, pass, faults>>

ClaimRefused(w) ==
  /\ wf[w].pc = "claim"
  /\ ~Admitted
  /\ Goto(w, "register")
  /\ UNCHANGED <<operation, lease, waiter, inbox, pass, faults>>

\* Mutant of Register: a waiter that was notified gets a state of its own.
RegisterAgain(w) ==
  /\ wf[w].pc = "register"
  /\ waiter' = [waiter EXCEPT ![Awaited(w)] = IF @ = "notified" THEN "renewed" ELSE "pending"]
  /\ Goto(w, "paused")
  /\ UNCHANGED <<operation, lease, inbox, pass, faults>>

\* The refusal leaves a waiter behind, pending again when there was one.
Register(w) ==
  /\ wf[w].pc = "register"
  /\ waiter' = [waiter EXCEPT ![Awaited(w)] = "pending"]
  /\ Goto(w, "paused")
  /\ UNCHANGED <<operation, lease, inbox, pass, faults>>

\* The result of the step is persisted by the Workflow engine.
Persist(w) ==
  /\ wf[w].pc \in {"paused", "finished"}
  /\ Goto(w, IF wf[w].pc = "paused" THEN "wait" ELSE "done")
  /\ UNCHANGED <<operation, lease, waiter, inbox, pass, faults>>

\* The event, sent before or after the wait began, starts the next attempt.
Resume(w) ==
  /\ wf[w].pc = "wait"
  /\ Awaited(w) \in inbox
  /\ wf[w].attempt < MaxAttempts
  /\ inbox' = inbox \ {Awaited(w)}
  /\ wf' = [wf EXCEPT ![w].pc = "claim", ![w].attempt = @ + 1]
  /\ UNCHANGED <<operation, lease, waiter, pass, faults>>

\* The wait gives up after a year: the next attempt starts without an event.
WaitExpires(w) ==
  /\ wf[w].pc = "wait"
  /\ wf[w].attempt < MaxAttempts
  /\ Fault
  /\ wf' = [wf EXCEPT ![w].pc = "claim", ![w].attempt = @ + 1]
  /\ UNCHANGED <<operation, lease, waiter, inbox, pass>>

\* The checkpoint before the work of the step.
Check(w) ==
  LET held == lease[wf[w].lease] IN
  /\ wf[w].pc = "check"
  /\ Goto(w, IF held.state = "running" /\ ~held.late THEN "work" ELSE "abort")
  /\ UNCHANGED <<operation, lease, waiter, inbox, pass, faults>>

\* The work of the step writes, and returns.
Work(w) ==
  /\ wf[w].pc = "work"
  /\ Goto(w, "finish")
  /\ UNCHANGED <<operation, lease, waiter, inbox, pass, faults>>

\* The lease is finished whatever became of the work; a step that threw is
\* retried by the engine, with a lease of its own.
Finish(w) ==
  /\ wf[w].pc \in {"finish", "abort"}
  /\ lease' = [lease EXCEPT ![wf[w].lease].state = "finished"]
  /\ Leave(w, IF wf[w].pc = "finish" THEN "finished" ELSE "claim")
  /\ UNCHANGED <<operation, waiter, inbox, pass, faults>>

\* The isolate dies, or an answer of the authority is lost: the engine runs the
\* step again, and nobody is left to finish its lease.
StepDies(w) ==
  /\ wf[w].pc \in {"register", "paused", "check", "work", "finish", "abort", "finished"}
  /\ Fault
  /\ Leave(w, "claim")
  /\ UNCHANGED <<operation, lease, waiter, inbox, pass>>

Deadline(l) ==
  /\ lease[l].state = "running"
  /\ ~lease[l].late
  /\ lease' = [lease EXCEPT ![l].late = TRUE]
  /\ UNCHANGED <<operation, wf, waiter, inbox, pass, faults>>
------------------------------------------------------------------------------
Init ==
  /\ state \in {"active", "disabled"}
  /\ oper = "idle"
  /\ lease = [l \in Leases |-> [state |-> "free", late |-> FALSE]]
  /\ waiter = [x \in Waiters |-> "none"]
  /\ wf = [w \in Workflows |-> [pc |-> "claim", attempt |-> 0, lease |-> Nothing]]
  /\ inbox = {}
  /\ pass = [d \in Passes |-> [step |-> "idle", todo |-> {}, current |-> Nothing]]
  /\ toggles = MaxToggles
  /\ faults = MaxFaults

Operate == Enable \/ Drain \/ Busy \/ Disable \/ Undo \/ \E d \in Passes : Complete(d)

Pass(d) ==
  \/ \E page \in SUBSET Waiters : ReadWakeups(d, page)
  \/ \E x \in Waiters : Deliver(d, x)
  \/ WakeDone(d)
  \/ PassEnds(d)

Run(w) ==
  \/ \E l \in Leases : Claim(w, l)
  \/ ClaimRefused(w) \/ Register(w) \/ Persist(w) \/ Resume(w)
  \/ Check(w) \/ Work(w) \/ Finish(w)

Next ==
  \/ \E action \in {"enable", "disable"} : Begin(action)
  \/ Operate \/ Fails
  \/ \E d \in Passes : Pass(d) \/ DeliveryFails(d) \/ PassDies(d)
  \/ \E w \in Workflows : Run(w) \/ WaitExpires(w) \/ StepDies(w)
  \/ \E l \in Leases : Deadline(l)

Spec == Init /\ [][Next]_vars
------------------------------------------------------------------------------
(* Properties                                                              *)

\* A disabled plugin writes nothing: the disable saw every lease whose work is
\* still going on, and no lease is granted to work that a compensation could
\* outrun.
DisabledWritesNothing ==
  state = "disabled" => \A w \in Workflows : wf[w].pc # "work"

\* A wake-up is never lost between the tables and the engine: a workflow that
\* waits has a pending waiter, or the event it waits for has been sent, however
\* passes, refusals, retried steps and wake_done interleave.
WaiterKept ==
  \A w \in Workflows : wf[w].pc = "wait" =>
    waiter[Awaited(w)] = "pending" \/ Awaited(w) \in inbox
=============================================================================
