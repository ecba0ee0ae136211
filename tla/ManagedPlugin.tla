---------------------------- MODULE ManagedPlugin ----------------------------
(***************************************************************************)
(* Enabling and disabling a plugin package: the managed operation that     *)
(* installs components, publishes a Front Release whose lock names them,   *)
(* and undoes both when any step fails, whoever finds it undone.           *)
(*                                                                         *)
(* Requests run on stateless Workers over one D1 database.  Every SQL      *)
(* statement and every db.batch is atomic; anything may happen between     *)
(* two of them, including the death of the request.  An action is one      *)
(* statement or batch, with the reads that directly precede it when only   *)
(* the operation's own rows are involved; reads that a later write relies  *)
(* on are actions of their own and leave what they saw in `req`.           *)
(*                                                                         *)
(* Time advances in lease lengths (leaseMilliseconds), so a lease taken    *)
(* or renewed at `now` expires at now + 1.                                 *)
(***************************************************************************)
EXTENDS PluginLifecycle, FiniteSets

CONSTANTS
  Requests,     \* requests in flight: operator actions and admin page loads
  BusyPlugins,  \* components that commands may be accepted for
  InitialLocks, \* the locks that Base may be active with
  Overrun,      \* a live request may take longer than its lease
  MaxTime,      \* bound on time, in leases
  MaxFaults,    \* bound on crashes, failed statements and evidence expiries
  MaxConsole    \* bound on lifecycle transitions asked for by hand

ASSUME BoundsAssumption ==
  /\ BusyPlugins \subseteq Plugins
  /\ InitialLocks \subseteq SUBSET Plugins
  /\ Overrun \in BOOLEAN
  /\ MaxTime \in Nat /\ MaxFaults \in Nat /\ MaxConsole \in Nat

VARIABLES
  (* Tables *)
  plugin,       \* lifecycle row of each component
  enabled,      \* superboard_plugin_packages.enabled
  pointer,      \* superboard_front_active_releases
  candidate,    \* status of each operation's release candidate
  lock,         \* plugin lock of each compiled release
  recon,        \* superboard_plugin_release_reconciliations
  op,           \* superboard_managed_plugin_operations
  compensated,  \* operations with a completed compensation
  work,         \* accepted commands (task leases are PluginTasks')
  (* Requests *)
  pc,           \* next statement of each request
  req,          \* what each request holds in memory
  console,      \* the lifecycle transition asked for by hand, if any
  (* Environment *)
  now,
  faults        \* faults that may still happen

tables == <<plugin, enabled, pointer, candidate, lock, recon, op, compensated>>
vars == <<plugin, enabled, pointer, candidate, lock, recon, op, compensated,
          work, pc, req, console, now, faults>>

Pointer == [active: Releases \cup {None}, previous: Releases \cup {None},
            revision: Nat]

Snapshot == [plugin: [Plugins -> PluginRow], enabled: [Packages -> BOOLEAN],
             pointer: Pointer]
NoSnapshot == [none |-> TRUE]

OpRow == [status: {"absent", "running", "succeeded", "failed"},
          owner: Requests \cup {None}, expires: Nat, snap: Snapshot \cup {NoSnapshot},
          error: BOOLEAN]

Labels ==
  {"idle", "begin", "classify", "snapshotRead", "snapshotWrite", "plan",
   "renewInstall", "installRead", "installWrite", "renewSlice", "slice",
   "compile", "approve", "drain", "drainWrite", "busy", "renewActivate",
   "preflight", "prepare", "commit", "finalize", "publish", "refused", "threw",
   "recover", "restoreWrite", "renewCompensate", "compensateRead",
   "compensateWrite", "compensateReload", "markRecovery", "sync", "syncWrite",
   "complete"}

Request ==
  [op: Ops \cup {None},             \* the operation it works on
   kind: {"action", "page"},        \* what follows a recovery
   phase: {"try", "catch", "compensate", "recover"},
   action: {"enable", "disable"},
   comps: SUBSET Plugins,           \* components of the request, then those changing
   todo: SUBSET Plugins,            \* components left to install or drain
   seen: SUBSET Plugins,            \* components read active
   snap: Snapshot \cup {NoSnapshot},\* the snapshot before it is written
   lock: SUBSET Plugins,            \* lock of the draft snapshot
   prev: Releases \cup {None},      \* expected_active_release_id
   rev: Nat,                        \* pointer revision a compensation expects
   stamp: Nat,                      \* activatedAt, or the time of a compensation
   after: {"publish", "complete"},  \* where a synchronisation returns
   ok: BOOLEAN]                     \* whether the response is a success

Idle == [op |-> None, kind |-> "page", phase |-> "try", action |-> "enable",
         comps |-> {}, todo |-> {}, seen |-> {}, snap |-> NoSnapshot,
         lock |-> {}, prev |-> None, rev |-> 0, stamp |-> 0,
         after |-> "complete", ok |-> FALSE]

Console ==
  [step: {"idle", "write", "sync", "syncWrite"},
   left: Nat,                       \* transitions that may still be asked for
   plugin: Plugins \cup {None}, from: States, to: States,
   seen: SUBSET Plugins]

TypeOK ==
  /\ plugin \in [Plugins -> PluginRow]
  /\ enabled \in [Packages -> BOOLEAN]
  /\ pointer \in Pointer
  /\ candidate \in [Ops -> {"none", "validated", "approved", "activated", "superseded"}]
  /\ lock \in [Releases -> SUBSET Plugins]
  /\ recon \in [Releases -> {"none", "prepared", "applied"}]
  /\ op \in [Ops -> OpRow]
  /\ compensated \subseteq Ops
  /\ work \in [Plugins -> BOOLEAN]
  /\ pc \in [Requests -> Labels]
  /\ req \in [Requests -> Request]
  /\ console \in Console
  /\ now \in Nat
  /\ faults \in Nat
------------------------------------------------------------------------------
(* What the statements of a request look at.                               *)

Running == {o \in Ops : op[o].status = "running"}

\* WHERE operation_id = ? AND owner_token = ? AND status = 'running'.  An owner
\* token is drawn afresh for every request that begins or claims an operation,
\* so the request that holds it stands for it.
Owns(r) == /\ req[r].op \in Running
           /\ op[req[r].op].owner = r

\* requireManagedPluginOperationAccess
Access(r) == \A o \in Running : /\ req[r].op = o
                                /\ op[o].owner = r
                                /\ op[o].expires > now

Stored(o) == op[o].snap # NoSnapshot

Goto(r, label) == pc' = [pc EXCEPT ![r] = label]

\* A step that only decides where the request goes on.
Decide(r, label) ==
  /\ Goto(r, label)
  /\ UNCHANGED <<tables, work, req, console, now, faults>>

Remember(r, changed) == req' = [req EXCEPT ![r] = changed]
Frame == UNCHANGED <<work, console, now, faults>>

\* A request that answers holds nothing any more.
Answer(r) ==
  /\ Goto(r, "idle")
  /\ Remember(r, Idle)

\* The catch a statement of request r throws into; the request ends with an
\* error when there is none.
Thrown(r) ==
  CASE req[r].phase = "try" /\ pc[r] \notin {"threw", "complete"} -> "threw"
    [] req[r].phase = "compensate" /\ pc[r] \notin {"markRecovery", "complete"} -> "markRecovery"
    [] req[r].phase = "recover" /\ pc[r] # "markRecovery" -> "markRecovery"
    [] OTHER -> "idle"

Throw(r) == IF Thrown(r) = "idle"
            THEN Answer(r)
            ELSE Goto(r, Thrown(r)) /\ UNCHANGED req

\* What a request still needs once its work is refused or has thrown.
Bare(r) == [Idle EXCEPT !.op = req[r].op, !.kind = req[r].kind, !.phase = req[r].phase]

\* An answer that is not a success, given inside the try block.
Refuse(r) ==
  /\ Goto(r, "refused")
  /\ Remember(r, Bare(r))

\* A synchronisation of the package flags, and where it returns.
Synchronize(r, after, ok) ==
  /\ Goto(r, "sync")
  /\ Remember(r, [Bare(r) EXCEPT !.after = after, !.ok = ok])
------------------------------------------------------------------------------
(* Beginning, claiming, renewing and completing an operation.              *)

\* beginManagedPluginOperation: the insert succeeds for a new operation id
\* when the instance has no running operation.
Begin(r, o, action, k) ==
  /\ pc[r] \in {"idle", "begin"}
  /\ op[o].status = "absent"
  /\ Running = {}
  /\ op' = [op EXCEPT ![o] =
               [op[o] EXCEPT !.status = "running", !.owner = r, !.expires = now + 1]]
  /\ Goto(r, "classify")
  /\ Remember(r, [Idle EXCEPT !.op = o, !.action = action, !.comps = Components[k]])
  /\ UNCHANGED <<plugin, enabled, pointer, candidate, lock, recon, compensated>>
  /\ Frame

\* A known id replays its response or conflicts; another one running refuses.
BeginRefused(r) ==
  /\ pc[r] = "begin"
  /\ \E o \in Ops : op[o].status # "absent"
  /\ Answer(r)
  /\ UNCHANGED tables
  /\ Frame

\* Mutants of Claim: a running operation is claimed whatever its lease says, or
\* any operation whose lease ran out, ended or not.
ClaimEnded(r, o, kind) ==
  /\ pc[r] = "idle"
  /\ op[o].status # "absent" /\ op[o].expires <= now
  /\ op' = [op EXCEPT ![o].owner = r, ![o].expires = now + 1]
  /\ Goto(r, "recover")
  /\ Remember(r, [Idle EXCEPT !.op = o, !.kind = kind, !.phase = "recover"])
  /\ UNCHANGED <<plugin, enabled, pointer, candidate, lock, recon, compensated>>
  /\ Frame

ClaimUnexpired(r, o, kind) ==
  /\ pc[r] = "idle"
  /\ o \in Running
  /\ op' = [op EXCEPT ![o].owner = r, ![o].expires = now + 1]
  /\ Goto(r, "recover")
  /\ Remember(r, [Idle EXCEPT !.op = o, !.kind = kind, !.phase = "recover"])
  /\ UNCHANGED <<plugin, enabled, pointer, candidate, lock, recon, compensated>>
  /\ Frame

\* claimExpiredManagedPluginOperation, by an operator action or a page load.
Claim(r, o, kind) ==
  /\ pc[r] = "idle"
  /\ o \in Running
  /\ op[o].expires <= now
  /\ op' = [op EXCEPT ![o].owner = r, ![o].expires = now + 1]
  /\ Goto(r, "recover")
  /\ Remember(r, [Idle EXCEPT !.op = o, !.kind = kind, !.phase = "recover"])
  /\ UNCHANGED <<plugin, enabled, pointer, candidate, lock, recon, compensated>>
  /\ Frame

\* renewManagedPluginOperation throws when the lease is lost or has run out.
Renew(r, from, to) ==
  /\ pc[r] = from
  /\ IF Owns(r) /\ op[req[r].op].expires > now
     THEN /\ op' = [op EXCEPT ![req[r].op].expires = now + 1]
          /\ Goto(r, to)
          /\ UNCHANGED req
     ELSE Throw(r) /\ UNCHANGED op
  /\ UNCHANGED <<plugin, enabled, pointer, candidate, lock, recon, compensated>>
  /\ Frame

\* Mutant of Complete: it forgets the operation that was recovered.
CompleteNotRecovered(r) ==
  /\ pc[r] = "complete"
  /\ op' = IF Owns(r) /\ req[r].phase # "recover"
           THEN [op EXCEPT ![req[r].op].status =
                             IF req[r].ok THEN "succeeded" ELSE "failed"]
           ELSE op
  /\ Answer(r)
  /\ UNCHANGED <<plugin, enabled, pointer, candidate, lock, recon, compensated>>
  /\ Frame

\* completeManagedPluginOperation.  A recovery then lets an operator action
\* begin its own operation; a page load goes on to its page.
Complete(r) ==
  /\ pc[r] = "complete"
  /\ op' = IF Owns(r)
           THEN [op EXCEPT ![req[r].op].status =
                             IF req[r].ok THEN "succeeded" ELSE "failed"]
           ELSE op
  /\ IF req[r].phase = "recover" /\ req[r].kind = "action"
     THEN Goto(r, "begin") /\ Remember(r, [Idle EXCEPT !.kind = "action"])
     ELSE Answer(r)
  /\ UNCHANGED <<plugin, enabled, pointer, candidate, lock, recon, compensated>>
  /\ Frame
------------------------------------------------------------------------------
(* The work of an operation up to the activation of its release.           *)

\* Nothing to do, nothing that can be done, or go on with what is to change.
Classify(r) ==
  LET comps == req[r].comps
      active == InState(plugin, {"active"})
      noop == IF req[r].action = "enable"
              THEN comps \subseteq active \ StaleActive(plugin)
              ELSE comps \subseteq InState(plugin, {"available", "installed", "disabled"})
      changing == IF req[r].action = "enable" THEN comps ELSE comps \cap active
  IN  /\ pc[r] = "classify"
      /\ \/ /\ noop
            /\ Synchronize(r, "complete", TRUE)
         \/ /\ ~noop /\ changing = {}
            /\ Goto(r, "complete")
            /\ Remember(r, Bare(r))
         \/ /\ ~noop /\ changing # {}
            /\ Goto(r, "snapshotRead")
            /\ Remember(r, [req[r] EXCEPT !.comps = changing])
      /\ UNCHANGED tables
      /\ Frame

SnapshotRead(r) ==
  /\ pc[r] = "snapshotRead"
  /\ Goto(r, "snapshotWrite")
  /\ Remember(r, [req[r] EXCEPT !.snap =
                    [plugin |-> plugin, enabled |-> enabled, pointer |-> pointer]])
  /\ UNCHANGED tables
  /\ Frame

\* Mutant of SnapshotWrite: the update does not name the owner.
SnapshotWriteUnowned(r) ==
  /\ pc[r] = "snapshotWrite"
  /\ op' = [op EXCEPT ![req[r].op].snap = req[r].snap]
  /\ Goto(r, "plan")
  /\ Remember(r, [req[r] EXCEPT !.snap = NoSnapshot])
  /\ UNCHANGED <<plugin, enabled, pointer, candidate, lock, recon, compensated>>
  /\ Frame

\* The update says nothing when the operation is not owned any more.
SnapshotWrite(r) ==
  /\ pc[r] = "snapshotWrite"
  /\ op' = IF Owns(r) THEN [op EXCEPT ![req[r].op].snap = req[r].snap] ELSE op
  /\ Goto(r, "plan")
  /\ Remember(r, [req[r] EXCEPT !.snap = NoSnapshot])
  /\ UNCHANGED <<plugin, enabled, pointer, candidate, lock, recon, compensated>>
  /\ Frame

\* The components an enable installs, and the active ones to validate again.
Plan(r) ==
  LET enabling == req[r].action = "enable"
      targets == (StaleActive(plugin) \ IF enabling THEN {} ELSE req[r].comps)
                 \cup IF enabling THEN req[r].comps ELSE {}
  IN  /\ pc[r] = "plan"
      /\ Goto(r, IF targets = {} THEN "renewSlice" ELSE "renewInstall")
      /\ Remember(r, [req[r] EXCEPT !.todo = targets])
      /\ UNCHANGED tables
      /\ Frame

\* plugins/sync up to the states the plan is built from.
InstallRead(r) ==
  /\ pc[r] = "installRead"
  /\ IF Access(r) /\ req[r].todo \cap InState(plugin, {"draining", "quarantined"}) = {}
     THEN /\ Goto(r, "installWrite")
          /\ Remember(r, [req[r] EXCEPT !.seen = req[r].todo \cap InState(plugin, {"active"})])
     ELSE Refuse(r)
  /\ UNCHANGED tables
  /\ Frame

\* The plan's batch; a plan with Workers that are not ready is kept, staged,
\* and answers with a failure.
InstallWrite(r, down) ==
  /\ pc[r] = "installWrite"
  /\ down \subseteq req[r].todo
  /\ plugin' = InstallBatch(plugin, req[r].todo, req[r].seen, down)
  /\ IF down = {}
     THEN /\ Goto(r, "renewSlice")
          /\ Remember(r, [req[r] EXCEPT !.todo = {}, !.seen = {}])
     ELSE Refuse(r)
  /\ UNCHANGED <<enabled, pointer, candidate, lock, recon, op, compensated>>
  /\ Frame

\* releases/user-slice: the predecessor and the plugin lock of the draft.
Slice(r) ==
  LET comps == req[r].comps
      enabling == req[r].action = "enable"
      loads == IF enabling THEN SelectedLockLoads(plugin, comps)
               ELSE ExcludingLockLoads(plugin, comps)
      drawn == IF enabling THEN LockRows(plugin, comps)
               ELSE InState(plugin, {"active"}) \ comps
  IN  /\ pc[r] = "slice"
      /\ IF Access(r) /\ loads
         THEN /\ Goto(r, "compile")
              /\ Remember(r, [req[r] EXCEPT !.prev = pointer.active, !.lock = drawn])
         ELSE Refuse(r)
      /\ UNCHANGED tables
      /\ Frame

\* releases/compile stages the candidate and supersedes the other validated ones.
Compile(r) ==
  /\ pc[r] = "compile"
  /\ IF Access(r) /\ candidate[req[r].op] = "none"
     THEN /\ candidate' = [o \in Ops |->
                            IF o = req[r].op THEN "validated"
                            ELSE IF candidate[o] = "validated" THEN "superseded"
                            ELSE candidate[o]]
          /\ lock' = [lock EXCEPT ![req[r].op] = req[r].lock]
          /\ Goto(r, "approve")
          /\ Remember(r, [req[r] EXCEPT !.lock = {}])
     ELSE Refuse(r) /\ UNCHANGED <<candidate, lock>>
  /\ UNCHANGED <<plugin, enabled, pointer, recon, op, compensated>>
  /\ Frame

\* releases/approve, then the components a disable has to drain.
Approve(r) ==
  /\ pc[r] = "approve"
  /\ IF Access(r) /\ candidate[req[r].op] = "validated"
     THEN /\ candidate' = [candidate EXCEPT ![req[r].op] = "approved"]
          /\ Goto(r, "drain")
          /\ Remember(r, [req[r] EXCEPT !.comps = {}, !.action = "enable",
                            !.todo = IF req[r].action = "disable" THEN req[r].comps ELSE {}])
     ELSE Refuse(r) /\ UNCHANGED candidate
  /\ UNCHANGED <<plugin, enabled, pointer, lock, recon, op, compensated>>
  /\ Frame

\* A step of the release workflow answers with a failure of its own: Workers
\* that cannot be verified, a view that does not load, a check that fails.
Rejected(r) ==
  /\ pc[r] \in {"installRead", "slice", "compile", "approve", "preflight"}
  /\ Refuse(r)
  /\ UNCHANGED tables
  /\ Frame
------------------------------------------------------------------------------
(* Draining the components a disable takes out of the release.             *)

\* The state a drain starts from; a component that is not active is skipped.
Drain(r, p) ==
  /\ pc[r] = "drain"
  /\ p \in req[r].todo
  /\ IF plugin[p].state = "active"
     THEN Goto(r, "drainWrite") /\ Remember(r, [req[r] EXCEPT !.seen = {p}])
     ELSE Goto(r, "drain") /\ Remember(r, [req[r] EXCEPT !.todo = @ \ {p}])
  /\ UNCHANGED tables
  /\ Frame

DrainWrite(r, p) ==
  /\ pc[r] = "drainWrite"
  /\ p \in req[r].seen
  /\ plugin' = TransitionBatch(plugin, p, "active", "draining")
  /\ Goto(r, "busy")
  /\ UNCHANGED <<enabled, pointer, candidate, lock, recon, op, compensated, req>>
  /\ Frame

\* Mutant of Busy: what was accepted before the drain is not looked for.
BusyUnchecked(r, p) ==
  /\ pc[r] = "busy"
  /\ p \in req[r].seen
  /\ Goto(r, "drain")
  /\ Remember(r, [req[r] EXCEPT !.todo = @ \ {p}, !.seen = {}])
  /\ UNCHANGED tables
  /\ Frame

\* Accepted commands refuse the disable (and running task leases, whatever their
\* deadline).
Busy(r, p) ==
  /\ pc[r] = "busy"
  /\ p \in req[r].seen
  /\ IF work[p]
     THEN Refuse(r)
     ELSE /\ Goto(r, "drain")
          /\ Remember(r, [req[r] EXCEPT !.todo = @ \ {p}, !.seen = {}])
  /\ UNCHANGED tables
  /\ Frame

Drained(r) ==
  /\ pc[r] = "drain"
  /\ req[r].todo = {}
  /\ Decide(r, "renewActivate")
------------------------------------------------------------------------------
(* releases/activate                                                       *)

\* The access check, the approval and the time the activation will carry.
Preflight(r) ==
  /\ pc[r] = "preflight"
  /\ IF Access(r) /\ candidate[req[r].op] = "approved"
     THEN Goto(r, "prepare") /\ Remember(r, [req[r] EXCEPT !.stamp = now])
     ELSE Refuse(r)
  /\ UNCHANGED tables
  /\ Frame

\* prepareSuperBoardPluginLifecycleForRelease
Prepare(r) ==
  LET o == req[r].op IN
  /\ pc[r] = "prepare"
  /\ IF /\ SelectedLockLoads(plugin, lock[o])
        /\ InState(plugin, {"active"}) \subseteq lock[o]
     THEN /\ recon' = [recon EXCEPT ![o] = IF @ = "applied" THEN @ ELSE "prepared"]
          /\ Goto(r, "commit")
          /\ UNCHANGED req
     ELSE Throw(r) /\ UNCHANGED recon
  /\ UNCHANGED <<plugin, enabled, pointer, candidate, lock, op, compensated>>
  /\ Frame

\* superboard_managed_plugin_activation_*_guard, for activation "plugin:" o.
ManagedGuard(o, stamp) ==
  \A x \in Running : /\ x = o
                     /\ Stored(o)
                     /\ op[o].expires > stamp
                     /\ ~op[o].error
                     /\ o \notin compensated

\* The guards a new pointer has to pass: the release is approved, no other
\* operation owns the instance, and its lifecycle is prepared and still fresh.
ActivationGuards(o, stamp) ==
  /\ candidate[o] \in {"approved", "activated"}
  /\ ManagedGuard(o, stamp)
  /\ recon[o] = "prepared"
  /\ Fresh(plugin, lock[o])

\* compareAndSwapActive: one batch moves the pointer, and its triggers record
\* the activation and apply the release to the lifecycle.
Commit(r) ==
  LET o == req[r].op IN
  /\ pc[r] = "commit"
  /\ pointer.active = req[r].prev
  /\ ActivationGuards(o, req[r].stamp)
  /\ pointer' = [active |-> o, previous |-> pointer.active,
                 revision |-> pointer.revision + 1]
  /\ candidate' = [candidate EXCEPT ![o] = "activated"]
  /\ plugin' = ApplyRelease(plugin, o, lock[o])
  /\ recon' = [recon EXCEPT ![o] = "applied"]
  /\ Goto(r, "finalize")
  /\ UNCHANGED <<enabled, lock, op, compensated, req>>
  /\ Frame

\* Another release is active: a conflict.  A guard aborts the batch: a throw.
CommitRefused(r) ==
  /\ pc[r] = "commit"
  /\ \/ pointer.active # req[r].prev /\ Refuse(r)
     \/ /\ pointer.active = req[r].prev
        /\ ~ActivationGuards(req[r].op, req[r].stamp)
        /\ Throw(r)
  /\ UNCHANGED tables
  /\ Frame

\* finalizeSuperBoardPluginLifecycleForRelease
Finalize(r) ==
  LET o == req[r].op
      activated == {p \in InState(plugin, {"active"}) : plugin[p].release = o}
  IN  /\ pc[r] = "finalize"
      /\ IF recon[o] = "applied" /\ pointer.active = o /\ activated = lock[o]
         THEN Synchronize(r, "publish", FALSE)
         ELSE Throw(r)
      /\ UNCHANGED tables
      /\ Frame

\* The release read back through the cache has to be the one activated.
Publish(r) ==
  /\ pc[r] = "publish"
  /\ IF pointer.active = req[r].op THEN Synchronize(r, "complete", TRUE) ELSE Refuse(r)
  /\ UNCHANGED tables
  /\ Frame

\* syncInstalledPluginPackages reads the lifecycle, then writes every flag.
SyncRead(r) ==
  /\ pc[r] = "sync"
  /\ Goto(r, "syncWrite")
  /\ Remember(r, [req[r] EXCEPT !.seen = InState(plugin, {"active"})])
  /\ UNCHANGED tables
  /\ Frame

\* Mutant of SyncWrite: flags are set and never cleared.
SyncWriteAdds(r) ==
  /\ pc[r] = "syncWrite"
  /\ enabled' = [k \in Packages |-> enabled[k] \/ EnabledBy(req[r].seen)[k]]
  /\ Goto(r, req[r].after)
  /\ Remember(r, [req[r] EXCEPT !.seen = {}, !.after = "complete"])
  /\ UNCHANGED <<plugin, pointer, candidate, lock, recon, op, compensated>>
  /\ Frame

SyncWrite(r) ==
  /\ pc[r] = "syncWrite"
  /\ enabled' = EnabledBy(req[r].seen)
  /\ Goto(r, req[r].after)
  /\ Remember(r, [req[r] EXCEPT !.seen = {}, !.after = "complete"])
  /\ UNCHANGED <<plugin, pointer, candidate, lock, recon, op, compensated>>
  /\ Frame
------------------------------------------------------------------------------
(* Undoing an operation.                                                   *)

\* restoreManagedPluginOperation up to its batch: nothing to restore for an
\* operation that is not owned or has no snapshot, a throw when its release is
\* the active one.
RestoreRead(r, phase) ==
  LET o == req[r].op
      held == [Bare(r) EXCEPT !.phase = phase]
  IN  IF ~Owns(r) \/ ~Stored(o)
      THEN Goto(r, "sync") /\ Remember(r, held)
      ELSE IF pointer.active = o
           THEN Throw(r)
           ELSE Goto(r, "restoreWrite") /\ Remember(r, held)

\* The answer was not a success.
Refused(r) ==
  /\ pc[r] = "refused"
  /\ RestoreRead(r, "try")
  /\ UNCHANGED tables
  /\ Frame

\* A step threw: compensate the release that was activated, or restore.
Threw(r) ==
  /\ pc[r] = "threw"
  /\ IF pointer.active = req[r].op
     THEN /\ Goto(r, "renewCompensate")
          /\ Remember(r, [Bare(r) EXCEPT !.phase = "compensate"])
     ELSE RestoreRead(r, "catch")
  /\ UNCHANGED tables
  /\ Frame

\* recoverExpiredManagedPluginOperation, once the operation is claimed.
Recover(r) ==
  LET o == req[r].op IN
  /\ pc[r] = "recover"
  /\ IF o \in compensated \/ (Stored(o) /\ pointer.active = o)
     THEN Goto(r, "renewCompensate") /\ UNCHANGED req
     ELSE RestoreRead(r, "recover")
  /\ UNCHANGED tables
  /\ Frame

\* Mutants of RestoreWrite: one keeps the components whose installation was left
\* staged, the other answers with success.
RestoreWriteKeepsStaged(r) ==
  LET snap == op[req[r].op].snap IN
  /\ pc[r] = "restoreWrite"
  /\ plugin' = [p \in Plugins |-> IF plugin[p].state = "staged" THEN plugin[p]
                                 ELSE snap.plugin[p]]
  /\ enabled' = snap.enabled
  /\ Synchronize(r, "complete", FALSE)
  /\ UNCHANGED <<pointer, candidate, lock, recon, op, compensated>>
  /\ Frame

RestoreWriteSucceeds(r) ==
  LET snap == op[req[r].op].snap IN
  /\ pc[r] = "restoreWrite"
  /\ plugin' = snap.plugin
  /\ enabled' = snap.enabled
  /\ Synchronize(r, "complete", TRUE)
  /\ UNCHANGED <<pointer, candidate, lock, recon, op, compensated>>
  /\ Frame

\* The restoring batch names the instance, not the owner of the operation.
RestoreWrite(r) ==
  LET snap == op[req[r].op].snap IN
  /\ pc[r] = "restoreWrite"
  /\ plugin' = snap.plugin
  /\ enabled' = snap.enabled
  /\ Synchronize(r, "complete", FALSE)
  /\ UNCHANGED <<pointer, candidate, lock, recon, op, compensated>>
  /\ Frame

\* compensateManagedPluginActivation up to its batch.
CompensateRead(r) ==
  LET o == req[r].op IN
  /\ pc[r] = "compensateRead"
  /\ IF ~Owns(r) \/ ~Stored(o) \/ (o \notin compensated /\ pointer.active # o)
     THEN Throw(r)
     ELSE IF o \in compensated
          THEN Goto(r, "compensateReload") /\ UNCHANGED req
          ELSE /\ Goto(r, "compensateWrite")
               /\ Remember(r, [req[r] EXCEPT !.rev = pointer.revision, !.stamp = now])
  /\ UNCHANGED tables
  /\ Frame

\* What exempts the compensation's pointer from the activation guards: the row
\* this batch prepares, held by the owner of the running operation.
Exempt(r) ==
  LET o == req[r].op IN
  /\ o \notin compensated
  /\ Owns(r)
  /\ op[o].expires > req[r].stamp

\* Mutant of CompensateWrite: the pointer stays when there is no release to go
\* back to.
CompensateWriteKeepsFirst(r) ==
  LET o == req[r].op
      snap == op[o].snap
      moves == pointer.active = o /\ pointer.revision = req[r].rev
      back == snap.pointer.active
  IN  /\ pc[r] = "compensateWrite"
      /\ moves /\ back # None => Exempt(r)
      /\ pointer' = IF ~moves \/ back = None THEN pointer
                    ELSE [active |-> back, previous |-> o,
                          revision |-> pointer.revision + 1]
      /\ plugin' = snap.plugin
      /\ enabled' = snap.enabled
      /\ compensated' = compensated \cup {o}
      /\ Goto(r, "compensateReload")
      /\ Remember(r, [req[r] EXCEPT !.rev = 0, !.stamp = 0])
      /\ UNCHANGED <<candidate, lock, recon, op>>
      /\ Frame

\* The compensation's batch.  Its pointer statement names the release and the
\* revision that were read; the restoring statements name neither.
CompensateWrite(r) ==
  LET o == req[r].op
      snap == op[o].snap
      moves == pointer.active = o /\ pointer.revision = req[r].rev
      back == snap.pointer.active
  IN  /\ pc[r] = "compensateWrite"
      /\ moves /\ back # None => Exempt(r)
      /\ pointer' = IF ~moves THEN pointer
                    ELSE IF back = None
                         THEN [active |-> None, previous |-> None, revision |-> 0]
                         ELSE [active |-> back, previous |-> o,
                               revision |-> pointer.revision + 1]
      /\ plugin' = snap.plugin
      /\ enabled' = snap.enabled
      /\ compensated' = compensated \cup {o}
      /\ Goto(r, "compensateReload")
      /\ Remember(r, [req[r] EXCEPT !.rev = 0, !.stamp = 0])
      /\ UNCHANGED <<candidate, lock, recon, op>>
      /\ Frame

CompensateAborted(r) ==
  LET o == req[r].op IN
  /\ pc[r] = "compensateWrite"
  /\ pointer.active = o /\ pointer.revision = req[r].rev
  /\ op[o].snap.pointer.active # None
  /\ ~Exempt(r)
  /\ Throw(r)
  /\ UNCHANGED tables
  /\ Frame

\* The restored release is read back through the cache.
CompensateReload(r) ==
  LET back == op[req[r].op].snap.pointer.active IN
  /\ pc[r] = "compensateReload"
  /\ IF back # None /\ pointer.active # back
     THEN Throw(r)
     ELSE Synchronize(r, "complete", FALSE)
  /\ UNCHANGED tables
  /\ Frame

\* Mutant of MarkRecovery: the error is a status of its own.
MarkRecoveryAsStatus(r) ==
  /\ pc[r] = "markRecovery"
  /\ op' = IF Owns(r) THEN [op EXCEPT ![req[r].op].status = "recovery_required"] ELSE op
  /\ Answer(r)
  /\ UNCHANGED <<plugin, enabled, pointer, candidate, lock, recon, compensated>>
  /\ Frame

\* markManagedPluginRecoveryRequired: the operation stays running.
MarkRecovery(r) ==
  /\ pc[r] = "markRecovery"
  /\ op' = IF Owns(r) THEN [op EXCEPT ![req[r].op].error = TRUE] ELSE op
  /\ Answer(r)
  /\ UNCHANGED <<plugin, enabled, pointer, candidate, lock, recon, compensated>>
  /\ Frame
------------------------------------------------------------------------------
(* Faults, the console, the work of the components and time.               *)

\* A statement fails, or its answer is lost after it took effect.
StatementFails(r) ==
  /\ pc[r] \notin {"idle", "begin"}
  /\ faults > 0
  /\ faults' = faults - 1
  /\ Throw(r)
  /\ UNCHANGED <<tables, work, console, now>>

Crash(r) ==
  /\ pc[r] # "idle"
  /\ faults > 0
  /\ faults' = faults - 1
  /\ Answer(r)
  /\ UNCHANGED <<tables, work, console, now>>

\* The evidence of an active component runs out.
EvidenceExpires(p) ==
  /\ plugin[p].state = "active"
  /\ plugin[p].health = "ready"
  /\ faults > 0
  /\ faults' = faults - 1
  /\ plugin' = [plugin EXCEPT ![p].health = "unavailable"]
  /\ UNCHANGED <<enabled, pointer, candidate, lock, recon, op, compensated,
                 work, pc, req, console, now>>

\* A command is accepted for an active component, whatever operation is running.
WorkStart(p) ==
  /\ p \in BusyPlugins
  /\ ~work[p]
  /\ plugin[p].state = "active"
  /\ work' = [work EXCEPT ![p] = TRUE]
  /\ UNCHANGED <<tables, pc, req, console, now, faults>>

WorkEnd(p) ==
  /\ work[p]
  /\ work' = [work EXCEPT ![p] = FALSE]
  /\ UNCHANGED <<tables, pc, req, console, now, faults>>

\* plugins/[pluginId]/lifecycle: a transition asked for by hand.  "active" and
\* "disabled" are left to releases; a running operation is not asked about.
ConsoleRead(p, to) ==
  /\ console.step = "idle"
  /\ console.left > 0
  /\ to \in Transitions[plugin[p].state] \ {"active", "disabled"}
  /\ console' = [console EXCEPT !.step = "write", !.left = @ - 1, !.plugin = p,
                               !.from = plugin[p].state, !.to = to]
  /\ UNCHANGED <<tables, work, pc, req, now, faults>>

ConsoleWrite(p) ==
  /\ console.step = "write"
  /\ p = console.plugin
  /\ plugin' = TransitionBatch(plugin, p, console.from, console.to)
  /\ console' = [console EXCEPT !.step = "sync"]
  /\ UNCHANGED <<enabled, pointer, candidate, lock, recon, op, compensated,
                 work, pc, req, now, faults>>

ConsoleSyncRead ==
  /\ console.step = "sync"
  /\ console' = [console EXCEPT !.step = "syncWrite", !.seen = InState(plugin, {"active"})]
  /\ UNCHANGED <<tables, work, pc, req, now, faults>>

ConsoleSyncWrite ==
  /\ console.step = "syncWrite"
  /\ enabled' = EnabledBy(console.seen)
  /\ console' = [console EXCEPT !.step = "idle", !.plugin = None, !.from = "available",
                               !.to = "available", !.seen = {}]
  /\ UNCHANGED <<plugin, pointer, candidate, lock, recon, op, compensated,
                 work, pc, req, now, faults>>

\* The owner of a running operation is still at work on it.
Attended(o) == req[op[o].owner].op = o

\* A lease of time goes by.  Without Overrun, only the lease of a request that
\* has gone away runs out.
Tick ==
  /\ now < MaxTime
  /\ \E o \in Running : op[o].expires > now
  /\ Overrun \/ \A o \in Running : ~Attended(o)
  /\ now' = now + 1
  /\ UNCHANGED <<tables, work, pc, req, console, faults>>
------------------------------------------------------------------------------
Init ==
  \E L \in InitialLocks, started \in BOOLEAN :
    /\ ~started => L = {}
    /\ plugin = [p \in Plugins |->
                   IF p \in L
                   THEN [state |-> "active", health |-> "ready", manifest |-> TRUE,
                         staged |-> "none", release |-> Base]
                   ELSE [state |-> "available", health |-> "unavailable",
                         manifest |-> FALSE, staged |-> "none", release |-> None]]
    /\ enabled = EnabledBy(L)
    /\ pointer = [active |-> IF started THEN Base ELSE None, previous |-> None,
                  revision |-> IF started THEN 1 ELSE 0]
    /\ candidate = [o \in Ops |-> "none"]
    /\ lock = [x \in Releases |-> IF x = Base THEN L ELSE {}]
    /\ recon = [x \in Releases |-> IF x = Base THEN "applied" ELSE "none"]
    /\ op = [o \in Ops |-> [status |-> "absent", owner |-> None, expires |-> 0,
                            snap |-> NoSnapshot, error |-> FALSE]]
    /\ compensated = {}
    /\ work = [p \in Plugins |-> FALSE]
    /\ pc = [r \in Requests |-> "idle"]
    /\ req = [r \in Requests |-> Idle]
    /\ console = [step |-> "idle", left |-> MaxConsole, plugin |-> None,
                  from |-> "available", to |-> "available", seen |-> {}]
    /\ now = 0
    /\ faults = MaxFaults

\* What a request does when nothing fails.
Step(r) ==
  \/ BeginRefused(r)
  \/ \E o \in Ops, kind \in {"action", "page"} : Claim(r, o, kind)
  \/ Classify(r) \/ SnapshotRead(r) \/ SnapshotWrite(r) \/ Plan(r)
  \/ Renew(r, "renewInstall", "installRead")
  \/ InstallRead(r)
  \/ \E down \in SUBSET Plugins : InstallWrite(r, down)
  \/ Renew(r, "renewSlice", "slice")
  \/ Slice(r) \/ Compile(r) \/ Approve(r) \/ Rejected(r)
  \/ \E p \in Plugins : Drain(r, p) \/ DrainWrite(r, p) \/ Busy(r, p)
  \/ Drained(r)
  \/ Renew(r, "renewActivate", "preflight")
  \/ Preflight(r) \/ Prepare(r) \/ Commit(r) \/ CommitRefused(r)
  \/ Finalize(r) \/ Publish(r) \/ SyncRead(r) \/ SyncWrite(r)
  \/ Refused(r) \/ Threw(r) \/ Recover(r) \/ RestoreWrite(r)
  \/ Renew(r, "renewCompensate", "compensateRead")
  \/ CompensateRead(r) \/ CompensateWrite(r) \/ CompensateAborted(r)
  \/ CompensateReload(r) \/ MarkRecovery(r) \/ Complete(r)

Environment ==
  \/ \E r \in Requests : StatementFails(r) \/ Crash(r)
  \/ \E p \in Plugins : EvidenceExpires(p) \/ WorkStart(p) \/ WorkEnd(p)
  \/ \E p \in Plugins, to \in States : ConsoleRead(p, to)
  \/ \E p \in Plugins : ConsoleWrite(p)
  \/ ConsoleSyncRead \/ ConsoleSyncWrite
  \/ Tick

Next ==
  \/ \E r \in Requests, o \in Ops, action \in {"enable", "disable"}, k \in Packages :
       Begin(r, o, action, k)
  \/ \E r \in Requests : Step(r)
  \/ Environment

Spec == Init /\ [][Next]_vars

\* A live request goes on, time passes, and the admin pages that recover an
\* abandoned operation are loaded again.
Fairness == /\ \A r \in Requests : WF_vars(Step(r))
            /\ WF_vars(Tick)

FairSpec == Spec /\ Fairness
------------------------------------------------------------------------------
(* Properties                                                              *)

\* The components the active release names.
Served == IF pointer.active = None THEN {} ELSE lock[pointer.active]

\* Requests that hold an operation.
Holding == {r \in Requests : req[r].op # None}

\* An instance runs one operation at a time, and the requests that still act
\* for it are one as well (idx_superboard_managed_plugin_operations_running and
\* the owner token; it needs leases that no live request outruns).
OneOperation ==
  /\ \A x, y \in Running : x = y
  /\ \A x, y \in Holding : req[x].op \in Running /\ req[y].op \in Running => x = y

\* The release the instance serves and its lifecycle rows agree at every
\* moment: what the active release's lock names is active or draining, and
\* nothing else is.  An activation, a compensation or a restoration that moved
\* one without the other would leave a release that names a component the
\* lifecycle has disabled, or run a component no release names.
ReleaseMatchesLifecycle == InState(plugin, {"active", "draining"}) = Served

\* A failed operation never leaves its release active, nor a component
\* activated by its release (failures after the pointer moved included).
FailureLeavesNoRelease ==
  \A o \in Ops : op[o].status = "failed" =>
    /\ pointer.active # o
    /\ \A p \in Plugins : plugin[p].state = "active" => plugin[p].release # o

\* An operation that answers with success and had something to change did
\* activate its release, and nobody compensated it behind its back.
SuccessIsPublished ==
  \A o \in Ops : op[o].status = "succeeded" /\ Stored(o) =>
    candidate[o] = "activated" /\ o \notin compensated

\* When nothing runs, the package flags that the admin and the runtime read are
\* those of the lifecycle: a package is enabled when one of its components is
\* active, whichever synchronisation, restoration or compensation wrote last.
PackagesFollowLifecycle ==
  Running = {} => \A k \in Packages :
    enabled[k] <=> \E p \in Components[k] : plugin[p].state = "active"

\* A component is registered with the runtime exactly while it is active: no
\* activation, restoration or compensation leaves an active component without
\* its manifest or keeps the manifest of one that is not.
ManifestsFollowLifecycle == \A p \in Plugins : plugin[p].manifest = (plugin[p].state = "active")

\* Nothing runs that the active release does not name, transitions made by hand
\* while operations run included.
OnlyServedRuns == InState(plugin, {"active", "draining"}) \subseteq Served

\* The release that takes a component out waits for what it accepted: the drain
\* refuses new work first and looks for accepted work afterwards.
DrainWaits ==
  [][\A p \in Plugins : plugin[p].state = "draining" /\ plugin'[p].state = "disabled"
                         => ~work[p]]_vars

\* An operation that fails gives back what it found: the moment its failure is
\* recorded, the lifecycle states and the active release are the snapshot's.
StatesOf(rows) == [p \in Plugins |-> rows[p].state]
FailureRestores ==
  [][\A o \in Ops : op[o].status = "running" /\ op'[o].status = "failed" /\ Stored(o) =>
       /\ StatesOf(plugin) = StatesOf(op[o].snap.plugin)
       /\ pointer.active = op[o].snap.pointer.active]_vars

\* What an operation answered is never changed, by a request that comes back to
\* it after its lease was taken over included; replays answer from the row.
OutcomeIsFinal ==
  [][\A o \in Ops : op[o].status \in {"succeeded", "failed"} => op'[o] = op[o]]_vars

\* An operation that began is finished at last, by its request or by a recovery.
OperationsFinish ==
  \A o \in Ops : op[o].status = "running" ~> op[o].status # "running"
=============================================================================
