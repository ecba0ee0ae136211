------------------------- MODULE PluginTasks_proofs -------------------------
(***************************************************************************)
(* Proofs about the task leases and the waiters of PluginTasks, for any    *)
(* number of workflows, leases and passes.                                 *)
(***************************************************************************)
EXTENDS PluginTasks, TLAPS

\* The row of a workflow and the memory of a pass, as TypeOK has them.
Wf == [pc: {"claim", "register", "paused", "wait", "check", "work", "finish",
            "abort", "finished", "done"},
       attempt: 0..MaxAttempts, lease: Leases \cup {Nothing}]
PassRow == [step: {"idle", "read", "deliver", "done"},
            todo: SUBSET Waiters, current: Waiters \cup {Nothing}]
WfTyped == wf \in [Workflows -> Wf]
PassTyped == pass \in [Passes -> PassRow]

\* A workflow that goes on keeps its attempt and its lease.
LEMMA GotoTyped ==
  ASSUME WfTyped, NEW w \in Workflows,
         NEW pc \in {"register", "paused", "wait", "check", "work", "finish", "abort", "done"},
         Goto(w, pc)
  PROVE  WfTyped'
<1>1. [wf[w] EXCEPT !.pc = pc] \in Wf
  BY DEF WfTyped, Wf
<1>2. wf' = [wf EXCEPT ![w] = [wf[w] EXCEPT !.pc = pc]]
  BY DEF Goto, WfTyped
<1> QED BY <1>1, <1>2 DEF WfTyped

\* A workflow that has claimed works under its new lease.
LEMMA ClaimTyped ==
  ASSUME WfTyped, NEW w \in Workflows, NEW l \in Leases,
         wf' = [wf EXCEPT ![w].pc = "check", ![w].lease = l]
  PROVE  WfTyped'
<1>1. [wf[w] EXCEPT !.pc = "check", !.lease = l] \in Wf
  BY DEF WfTyped, Wf
<1>2. wf' = [wf EXCEPT ![w] = [wf[w] EXCEPT !.pc = "check", !.lease = l]]
  BY DEF WfTyped
<1> QED BY <1>1, <1>2 DEF WfTyped

\* A pass that has read its page, or marked a waiter, delivers.
LEMMA ReadTyped ==
  ASSUME PassTyped, NEW d \in Passes, NEW page \in SUBSET Waiters,
         pass' = [pass EXCEPT ![d].step = "deliver", ![d].todo = page]
  PROVE  PassTyped'
<1>1. [pass[d] EXCEPT !.step = "deliver", !.todo = page] \in PassRow
  BY DEF PassTyped, PassRow
<1>2. pass' = [pass EXCEPT ![d] = [pass[d] EXCEPT !.step = "deliver", !.todo = page]]
  BY DEF PassTyped
<1> QED BY <1>1, <1>2 DEF PassTyped

LEMMA MarkedTyped ==
  ASSUME PassTyped, NEW d \in Passes,
         pass' = [pass EXCEPT ![d].step = "deliver", ![d].current = Nothing]
  PROVE  PassTyped'
<1>1. [pass[d] EXCEPT !.step = "deliver", !.current = Nothing] \in PassRow
  BY DEF PassTyped, PassRow
<1>2. pass' = [pass EXCEPT ![d] = [pass[d] EXCEPT !.step = "deliver", !.current = Nothing]]
  BY DEF PassTyped
<1> QED BY <1>1, <1>2 DEF PassTyped

\* A step that only moves a workflow on is typed.
LEMMA MovedTyped ==
  ASSUME TypeOK, WfTyped', UNCHANGED <<operation, lease, waiter, inbox, pass, faults>>
  PROVE  TypeOK'
BY DEF TypeOK, WfTyped, Wf, operation

\* The steps of the operation, of a pass and of a workflow are typed: the rows
\* and the memories of PluginTasks keep the shape that the tables and the code
\* give them.
THEOREM TypeCorrect == Spec => []TypeOK
<1>1. Init => TypeOK
  BY TaskAssumption DEF Init, TypeOK
<1>2. TypeOK /\ [Next]_vars => TypeOK'
  <2> SUFFICES ASSUME TypeOK, [Next]_vars PROVE TypeOK'
    OBVIOUS
  <2> USE TaskAssumption DEF TypeOK
  <2>1. ASSUME NEW action \in {"enable", "disable"}, Begin(action) PROVE TypeOK'
    BY <2>1 DEF Begin, tasks
  <2>2. CASE Enable
    BY <2>2 DEF Enable, tasks
  <2>3. CASE Drain
    BY <2>3 DEF Drain, tasks
  <2>4. CASE Busy
    BY <2>4 DEF Busy, tasks
  <2>5. CASE Disable
    BY <2>5 DEF Disable, tasks
  <2>6. CASE Undo
    BY <2>6 DEF Undo, tasks
  <2>7. ASSUME NEW d \in Passes, Complete(d) PROVE TypeOK'
    BY <2>7 DEF Complete, tasks
  <2>8. CASE Fails
    BY <2>8 DEF Fails, Fault, tasks
  <2>9. ASSUME NEW d \in Passes, Pass(d) PROVE TypeOK'
    <3>1. ASSUME NEW page \in SUBSET Waiters, ReadWakeups(d, page) PROVE TypeOK'
      <4>1. /\ pass' = [pass EXCEPT ![d].step = "deliver", ![d].todo = page]
            /\ UNCHANGED <<state, oper, toggles, lease, wf, waiter, inbox, faults>>
        BY <3>1 DEF ReadWakeups, operation, tasks
      <4>2. PassTyped'
        BY <4>1, ReadTyped DEF PassTyped, PassRow
      <4> QED BY <4>1, <4>2 DEF PassTyped, PassRow
    <3>2. ASSUME NEW x \in Waiters, Deliver(d, x) PROVE TypeOK'
      BY <3>2 DEF Deliver, operation, tasks
    <3>3. CASE WakeDone(d)
      <4>1. waiter' \in [Waiters -> {"none", "pending", "notified"}]
        BY <3>3 DEF WakeDone
      <4>2. PassTyped'
        BY <3>3, MarkedTyped DEF WakeDone, PassTyped, PassRow
      <4> QED BY <3>3, <4>1, <4>2 DEF WakeDone, PassTyped, PassRow, operation, tasks
    <3>4. CASE PassEnds(d)
      BY <3>4 DEF PassEnds, operation, tasks
    <3> QED BY <2>9, <3>1, <3>2, <3>3, <3>4 DEF Pass
  <2>10. ASSUME NEW d \in Passes, DeliveryFails(d) PROVE TypeOK'
    BY <2>10 DEF DeliveryFails, Fault, operation, tasks
  <2>11. ASSUME NEW d \in Passes, PassDies(d) PROVE TypeOK'
    BY <2>11 DEF PassDies, Fault, operation, tasks
  <2>12. ASSUME NEW w \in Workflows, Run(w) PROVE TypeOK'
    <3>0. WfTyped
      BY DEF WfTyped, Wf
    <3>1. ASSUME NEW l \in Leases, Claim(w, l) PROVE TypeOK'
      <4>1. WfTyped'
        BY <3>0, <3>1, ClaimTyped DEF Claim
      <4>2. lease' \in [Leases -> [state: {"free", "running", "finished"}, late: BOOLEAN]]
        BY <3>1 DEF Claim
      <4> QED BY <3>1, <4>1, <4>2 DEF Claim, WfTyped, Wf, operation
    <3>2. CASE ClaimRefused(w)
      BY <3>0, <3>2, GotoTyped, MovedTyped DEF ClaimRefused
    <3>3. CASE Register(w)
      <4>1. waiter' \in [Waiters -> {"none", "pending", "notified"}]
        BY <3>3 DEF Register
      <4>2. WfTyped'
        BY <3>0, <3>3, GotoTyped DEF Register
      <4> QED BY <3>3, <4>1, <4>2 DEF Register, WfTyped, Wf, operation
    <3>4. CASE Persist(w)
      BY <3>0, <3>4, GotoTyped, MovedTyped DEF Persist
    <3>5. CASE Resume(w)
      BY <3>5 DEF Resume, Awaited, operation
    <3>6. CASE Check(w)
      BY <3>0, <3>6, GotoTyped, MovedTyped DEF Check
    <3>7. CASE Work(w)
      BY <3>0, <3>7, GotoTyped, MovedTyped DEF Work
    <3>8. CASE Finish(w)
      <4>1. lease' \in [Leases -> [state: {"free", "running", "finished"}, late: BOOLEAN]]
        <5> DEFINE held == wf[w].lease
        <5>1. lease' = [lease EXCEPT ![held] = [lease[held] EXCEPT !.state = "finished"]]
          BY <3>8 DEF Finish
        <5>2. ASSUME held \in Leases
              PROVE  [lease[held] EXCEPT !.state = "finished"]
                       \in [state: {"free", "running", "finished"}, late: BOOLEAN]
          BY <5>2
        <5> HIDE DEF held
        <5> QED BY <5>1, <5>2
      <4>2. wf' \in [Workflows ->
              [pc: {"claim", "register", "paused", "wait", "check", "work", "finish",
                    "abort", "finished", "done"},
               attempt: 0..MaxAttempts, lease: Leases \cup {Nothing}]]
        BY <3>8 DEF Finish, Leave
      <4> QED BY <3>8, <4>1, <4>2 DEF Finish, operation
    <3> QED BY <2>12, <3>1, <3>2, <3>3, <3>4, <3>5, <3>6, <3>7, <3>8 DEF Run
  <2>13. ASSUME NEW w \in Workflows, StepDies(w) PROVE TypeOK'
    <3>1. wf' \in [Workflows ->
            [pc: {"claim", "register", "paused", "wait", "check", "work", "finish",
                  "abort", "finished", "done"},
             attempt: 0..MaxAttempts, lease: Leases \cup {Nothing}]]
      BY <2>13 DEF StepDies, Leave
    <3>2. faults' \in 0..MaxFaults
      BY <2>13 DEF StepDies, Fault
    <3> QED BY <2>13, <3>2, <3>1 DEF StepDies, operation
  <2>14. ASSUME NEW l \in Leases, Deadline(l) PROVE TypeOK'
    BY <2>14 DEF Deadline, operation
  <2>15. ASSUME NEW w \in Workflows, WaitExpires(w) PROVE TypeOK'
    <3>1. faults' \in 0..MaxFaults
      BY <2>15 DEF WaitExpires, Fault
    <3> QED BY <2>15, <3>1 DEF WaitExpires, operation
  <2>16. CASE UNCHANGED vars
    BY <2>16 DEF vars
  <2> QED
    BY <2>1, <2>2, <2>3, <2>4, <2>5, <2>6, <2>7, <2>8, <2>9, <2>10, <2>11, <2>12,
       <2>13, <2>14, <2>15, <2>16 DEF Next, Operate
<1> QED BY <1>1, <1>2, PTL DEF Spec
------------------------------------------------------------------------------
(* A disabled plugin writes nothing.                                       *)

\* The lifecycle state that each step of the operation works on.
Phases ==
  /\ oper \in {"enable", "disabled"} => state = "disabled"
  /\ oper \in {"enabled", "disable"} => state = "active"
  /\ oper \in {"drained", "commit"} => state = "draining"
  /\ oper \in {"idle", "complete"} => state # "draining"

\* No lease is running once the disable has looked, nor before an activation is
\* known to stand: an undone activation makes the plugin disabled again.
Barrier ==
  \/ state = "disabled"
  \/ oper \in {"commit", "enabled"}
  \/ oper = "undo" /\ state = "active"
  => \A l \in Leases : lease[l].state # "running"

AtWork == {"check", "work", "finish", "abort"}

\* A workflow works under a running lease that no other workflow holds.
LeaseHeld ==
  \A w \in Workflows : wf[w].pc \in AtWork =>
    /\ wf[w].lease \in Leases
    /\ lease[wf[w].lease].state = "running"
    /\ \A v \in Workflows \ {w} : wf[v].pc \in AtWork => wf[v].lease # wf[w].lease

WriteInv == TypeOK /\ Phases /\ Barrier /\ LeaseHeld

\* The steps of the operation keep the barrier: what makes a plugin disabled
\* comes after the look for running leases, or undoes an enable under which no
\* lease was granted.
LEMMA OperationKeepsBarrier ==
  ASSUME WriteInv,
         Operate \/ Fails \/ \E action \in {"enable", "disable"} : Begin(action)
  PROVE  Phases' /\ Barrier' /\ LeaseHeld'
<1>1. UNCHANGED <<lease, wf>>
  BY DEF Operate, Fails, Begin, Enable, Drain, Busy, Disable, Undo, Complete, tasks
<1>2. LeaseHeld'
  BY <1>1 DEF WriteInv, LeaseHeld
<1>3. Phases' /\ Barrier'
  <2> USE <1>1 DEF WriteInv, TypeOK, Phases, Barrier
  <2>1. CASE Enable
    BY <2>1 DEF Enable
  <2>2. CASE Drain
    BY <2>2 DEF Drain
  <2>3. CASE Busy
    BY <2>3 DEF Busy
  <2>4. CASE Disable
    BY <2>4 DEF Disable
  <2>5. CASE Undo
    BY <2>5 DEF Undo
  <2>6. CASE \E d \in Passes : Complete(d)
    BY <2>6 DEF Complete
  <2>7. CASE Fails
    BY <2>7 DEF Fails
  <2>8. CASE \E action \in {"enable", "disable"} : Begin(action)
    BY <2>8 DEF Begin
  <2> QED BY <2>1, <2>2, <2>3, <2>4, <2>5, <2>6, <2>7, <2>8 DEF Operate
<1> QED BY <1>2, <1>3

\* A step of a workflow takes a lease of its own, or gives it up.
LEMMA WorkflowKeepsLease ==
  ASSUME WriteInv, NEW w \in Workflows, Run(w) \/ WaitExpires(w) \/ StepDies(w)
  PROVE  Phases' /\ Barrier' /\ LeaseHeld'
<1>1. UNCHANGED <<state, oper>>
  BY DEF Run, StepDies, WaitExpires, Claim, ClaimRefused, Register, Persist, Resume,
         Check, Work, Finish, operation
<1>2. Phases'
  BY <1>1 DEF WriteInv, Phases
<1>3. ASSUME NEW l \in Leases, Claim(w, l) PROVE Barrier' /\ LeaseHeld'
  <2>1. state = "active" /\ oper = "idle"
    BY <1>3 DEF Claim, Admitted, OperationRuns
  <2>2. Barrier'
    BY <1>1, <2>1 DEF Barrier
  <2>3. \A v \in Workflows : wf[v].pc \in AtWork => wf[v].lease # l
    BY <1>3 DEF Claim, WriteInv, LeaseHeld
  <2>4. wf'[w].lease = l /\ lease'[l].state = "running"
    BY <1>3 DEF Claim, WriteInv, TypeOK
  <2>5. /\ \A v \in Workflows \ {w} : wf'[v] = wf[v]
        /\ \A k \in Leases \ {l} : lease'[k] = lease[k]
    BY <1>3 DEF Claim, WriteInv, TypeOK
  <2> QED BY <2>2, <2>3, <2>4, <2>5 DEF WriteInv, LeaseHeld
<1>4. CASE Finish(w)
  <2>1. \A l \in Leases : lease'[l].state = "running" => lease[l].state = "running"
    BY <1>4 DEF Finish, WriteInv, TypeOK
  <2>2. Barrier'
    BY <1>1, <2>1 DEF WriteInv, Barrier
  <2>3. \A v \in Workflows \ {w} : wf'[v] = wf[v]
    BY <1>4 DEF Finish, Leave, WriteInv, TypeOK
  <2>4. wf'[w].pc \notin AtWork
    BY <1>4 DEF Finish, Leave, WriteInv, TypeOK, AtWork
  <2>5. \A l \in Leases : l # wf[w].lease => lease'[l] = lease[l]
    BY <1>4 DEF Finish, WriteInv, TypeOK
  <2>6. wf[w].pc \in AtWork
    BY <1>4 DEF Finish, AtWork
  <2>7. ASSUME NEW v \in Workflows \ {w}, wf[v].pc \in AtWork
        PROVE  /\ wf[v].lease \in Leases
               /\ lease'[wf[v].lease].state = "running"
               /\ \A u \in Workflows \ {v} : wf[u].pc \in AtWork => wf[u].lease # wf[v].lease
    BY <2>5, <2>6, <2>7 DEF WriteInv, LeaseHeld
  <2>8. LeaseHeld'
    BY <2>3, <2>4, <2>7 DEF LeaseHeld
  <2> QED BY <1>2, <2>2, <2>8
<1>5. ASSUME UNCHANGED lease,
             \A v \in Workflows \ {w} : wf'[v] = wf[v],
             wf'[w].pc \in AtWork => wf[w].pc \in AtWork /\ wf'[w].lease = wf[w].lease
      PROVE  Barrier' /\ LeaseHeld'
  <2>1. Barrier'
    BY <1>1, <1>5 DEF WriteInv, Barrier
  <2> QED BY <1>5, <2>1 DEF WriteInv, LeaseHeld
<1>6. CASE ClaimRefused(w) \/ Register(w) \/ Persist(w) \/ Resume(w) \/ Check(w)
           \/ Work(w) \/ WaitExpires(w) \/ StepDies(w)
  <2>1. UNCHANGED lease
    BY <1>6 DEF ClaimRefused, Register, Persist, Resume, WaitExpires, Check, Work, StepDies
  <2>2. \A v \in Workflows \ {w} : wf'[v] = wf[v]
    BY <1>6 DEF ClaimRefused, Register, Persist, Resume, WaitExpires, Check, Work, StepDies, Goto,
                Leave, WriteInv, TypeOK
  <2>3. wf'[w].pc \in AtWork => wf[w].pc \in AtWork /\ wf'[w].lease = wf[w].lease
    BY <1>6 DEF ClaimRefused, Register, Persist, Resume, WaitExpires, Check, Work, StepDies, Goto,
                Leave, AtWork, WriteInv, TypeOK
  <2> QED BY <1>2, <1>5, <2>1, <2>2, <2>3
<1> QED BY <1>2, <1>3, <1>4, <1>6 DEF Run

\* A disabled plugin writes nothing: no workflow is at its work while the plugin
\* is disabled, however leases, disables, failed activations and deadlines meet.
THEOREM DisabledIsSilent == Spec => []DisabledWritesNothing
<1>1. Init => WriteInv
  BY TaskAssumption
  DEF Init, WriteInv, TypeOK, Phases, Barrier, LeaseHeld, AtWork
<1>2. WriteInv /\ TypeOK' /\ [Next]_vars => WriteInv'
  <2> SUFFICES ASSUME WriteInv, [Next]_vars PROVE Phases' /\ Barrier' /\ LeaseHeld'
    BY DEF WriteInv
  <2>1. CASE Operate \/ Fails \/ \E action \in {"enable", "disable"} : Begin(action)
    BY <2>1, OperationKeepsBarrier
  <2>2. ASSUME NEW w \in Workflows, Run(w) \/ WaitExpires(w) \/ StepDies(w)
        PROVE  Phases' /\ Barrier' /\ LeaseHeld'
    BY <2>2, WorkflowKeepsLease
  <2>3. ASSUME UNCHANGED <<state, oper, wf>>,
               \A l \in Leases : lease'[l].state = lease[l].state
        PROVE  Phases' /\ Barrier' /\ LeaseHeld'
    BY <2>3 DEF WriteInv, Phases, Barrier, LeaseHeld
  <2>4. CASE \E d \in Passes : Pass(d) \/ DeliveryFails(d) \/ PassDies(d)
    <3>1. UNCHANGED <<state, oper, wf, lease>>
      BY <2>4 DEF Pass, DeliveryFails, PassDies, ReadWakeups, Deliver, WakeDone,
                  PassEnds, operation, tasks
    <3> QED BY <2>3, <3>1
  <2>5. CASE \E l \in Leases : Deadline(l)
    <3>1. UNCHANGED <<state, oper, wf>>
      BY <2>5 DEF Deadline, operation
    <3>2. \A l \in Leases : lease'[l].state = lease[l].state
      BY <2>5 DEF Deadline, WriteInv, TypeOK
    <3> QED BY <2>3, <3>1, <3>2
  <2>6. CASE UNCHANGED vars
    BY <2>3, <2>6 DEF vars
  <2> QED BY <2>1, <2>2, <2>4, <2>5, <2>6 DEF Next
<1>3. WriteInv => DisabledWritesNothing
  BY DEF WriteInv, Barrier, LeaseHeld, DisabledWritesNothing, AtWork
<1> QED BY <1>1, <1>2, <1>3, TypeCorrect, PTL DEF Spec
------------------------------------------------------------------------------
(* A wake-up is never lost between the tables and the engine.              *)

\* The event of x has been sent: it is there to be consumed, the attempt that
\* waited for it is over, or the workflow needs it no more.
Sent(x) == x \in inbox \/ x[2] < wf[x[1]].attempt \/ wf[x[1]].pc = "done"

\* A pass marks what it has sent, and nothing else is marked notified.
MarkedIsSent ==
  /\ \A d \in Passes : pass[d].step = "done" =>
       pass[d].current \in Waiters /\ Sent(pass[d].current)
  /\ \A x \in Waiters : waiter[x] = "notified" => Sent(x)

\* A workflow that is about to wait, or waits, has a waiter.
Registered ==
  \A w \in Workflows : wf[w].pc \in {"paused", "wait"} => waiter[Awaited(w)] # "none"

WaiterInv == TypeOK /\ MarkedIsSent /\ Registered

\* What was sent stays sent.
LEMMA SentIsStable ==
  ASSUME TypeOK, [Next]_vars, NEW x \in Waiters, Sent(x)
  PROVE  Sent(x)'
<1> USE TaskAssumption DEF TypeOK, Waiters, Sent
<1>1. ASSUME NEW w \in Workflows, Resume(w) \/ WaitExpires(w) PROVE Sent(x)'
  BY <1>1 DEF Resume, WaitExpires, Awaited
<1>2. ASSUME inbox \subseteq inbox',
             wf'[x[1]].attempt = wf[x[1]].attempt,
             wf[x[1]].pc = "done" => wf'[x[1]].pc = "done"
      PROVE  Sent(x)'
  BY <1>2
<1>3. ASSUME NEW w \in Workflows,
             ClaimRefused(w) \/ Register(w) \/ Persist(w) \/ Check(w) \/ Work(w)
               \/ Finish(w) \/ StepDies(w) \/ \E l \in Leases : Claim(w, l)
      PROVE  Sent(x)'
  <2>1. UNCHANGED inbox
    BY <1>3 DEF ClaimRefused, Register, Persist, Check, Work, Finish, StepDies, Claim
  <2>2. wf'[x[1]].attempt = wf[x[1]].attempt
    <3>1. CASE x[1] # w
      BY <1>3, <3>1 DEF ClaimRefused, Register, Persist, Check, Work, Finish, StepDies,
                        Claim, Goto, Leave
    <3>2. CASE x[1] = w
      BY <1>3, <3>2 DEF ClaimRefused, Register, Persist, Check, Work, Finish, StepDies,
                        Claim, Goto, Leave
    <3> QED BY <3>1, <3>2
  <2>3. wf[x[1]].pc = "done" => wf'[x[1]].pc = "done"
    BY <1>3 DEF ClaimRefused, Register, Persist, Check, Work, Finish, StepDies, Claim,
                Goto, Leave
  <2> QED BY <1>2, <2>1, <2>2, <2>3
<1>4. CASE UNCHANGED wf /\ inbox \subseteq inbox'
  BY <1>2, <1>4
<1>5. ASSUME NEW w \in Workflows, Run(w) \/ WaitExpires(w) \/ StepDies(w) PROVE Sent(x)'
  BY <1>1, <1>3, <1>5 DEF Run
<1>6. CASE \E d \in Passes : Pass(d) \/ DeliveryFails(d) \/ PassDies(d)
  <2>1. UNCHANGED wf /\ inbox \subseteq inbox'
    BY <1>6 DEF Pass, DeliveryFails, PassDies, ReadWakeups, Deliver, WakeDone, PassEnds,
                tasks
  <2> QED BY <1>4, <2>1
<1>7. CASE \/ Operate \/ Fails \/ UNCHANGED vars
           \/ \E action \in {"enable", "disable"} : Begin(action)
           \/ \E l \in Leases : Deadline(l)
  <2>1. UNCHANGED <<wf, inbox>>
    BY <1>7 DEF Operate, Fails, Begin, Enable, Drain, Busy, Disable, Undo, Complete,
                Deadline, tasks, vars
  <2> QED BY <1>4, <2>1
<1> QED BY <1>5, <1>6, <1>7 DEF Next

\* A pass marks the waiter whose event it has just sent.
LEMMA PassMarksWhatItSent ==
  ASSUME WaiterInv, NEW d \in Passes, [Next]_vars,
         Pass(d) \/ DeliveryFails(d) \/ PassDies(d)
  PROVE  MarkedIsSent'
<1> USE DEF WaiterInv, TypeOK
<1>1. \A x \in Waiters : Sent(x) => Sent(x)'
  BY SentIsStable
<1>2. \A c \in Passes \ {d} : pass'[c] = pass[c]
  BY DEF Pass, DeliveryFails, PassDies, ReadWakeups, Deliver, WakeDone, PassEnds
<1>3. ASSUME UNCHANGED waiter, pass'[d].step # "done"
      PROVE  MarkedIsSent'
  BY <1>1, <1>2, <1>3 DEF MarkedIsSent
<1>4. ASSUME NEW page \in SUBSET Waiters, ReadWakeups(d, page) PROVE MarkedIsSent'
  BY <1>3, <1>4 DEF ReadWakeups
<1>5. ASSUME NEW x \in Waiters, Deliver(d, x) PROVE MarkedIsSent'
  <2>1. Sent(x)'
    BY <1>5 DEF Deliver, Sent, tasks
  <2>2. pass'[d].current = x /\ UNCHANGED waiter
    BY <1>5 DEF Deliver
  <2> QED BY <1>1, <1>2, <2>1, <2>2 DEF MarkedIsSent
<1>6. CASE WakeDone(d)
  <2>1. pass[d].current \in Waiters /\ Sent(pass[d].current)
    BY <1>6 DEF WakeDone, MarkedIsSent
  <2>2. pass'[d].step # "done"
    BY <1>6 DEF WakeDone
  <2>3. \A x \in Waiters : waiter'[x] = "notified"
                             => waiter[x] = "notified" \/ x = pass[d].current
    BY <1>6 DEF WakeDone
  <2> QED BY <1>1, <1>2, <2>1, <2>2, <2>3 DEF MarkedIsSent
<1>7. CASE PassEnds(d)
  BY <1>3, <1>7 DEF PassEnds
<1>8. CASE DeliveryFails(d)
  BY <1>3, <1>8 DEF DeliveryFails
<1>9. CASE PassDies(d)
  BY <1>3, <1>9 DEF PassDies
<1> QED BY <1>4, <1>5, <1>6, <1>7, <1>8, <1>9 DEF Pass

\* A workflow that waits has a pending waiter or the event it waits for: no
\* interleaving of refusals, passes, retried steps and wake_done loses a wake-up.
THEOREM WakeUpsAreKept == Spec => []WaiterKept
<1>1. Init => WaiterInv
  BY TaskAssumption
  DEF Init, WaiterInv, TypeOK, MarkedIsSent, Registered
<1>2. WaiterInv /\ TypeOK' /\ [Next]_vars => WaiterInv'
  <2> SUFFICES ASSUME WaiterInv, [Next]_vars PROVE MarkedIsSent' /\ Registered'
    BY DEF WaiterInv
  <2> USE DEF WaiterInv, TypeOK
  <2>1. \A x \in Waiters : Sent(x) => Sent(x)'
    BY SentIsStable
  <2>2. ASSUME UNCHANGED pass,
               \A x \in Waiters : waiter'[x] = "notified" => waiter[x] = "notified"
        PROVE  MarkedIsSent'
    BY <2>1, <2>2 DEF MarkedIsSent
  <2>3. ASSUME UNCHANGED wf,
               \A x \in Waiters : waiter[x] # "none" => waiter'[x] # "none"
        PROVE  Registered'
    <3>1. \A w \in Workflows : Awaited(w) \in Waiters
      BY DEF Awaited, Waiters
    <3>2. \A w \in Workflows : Awaited(w)' = Awaited(w)
      BY <2>3 DEF Awaited
    <3> QED BY <2>3, <3>1, <3>2 DEF Registered
  <2>4. ASSUME NEW d \in Passes, Pass(d) \/ DeliveryFails(d) \/ PassDies(d)
        PROVE  MarkedIsSent' /\ Registered'
    <3>1. MarkedIsSent'
      BY <2>4, PassMarksWhatItSent
    <3>2. UNCHANGED wf
      BY <2>4 DEF Pass, DeliveryFails, PassDies, ReadWakeups, Deliver, WakeDone,
                  PassEnds, tasks
    <3>3. \A x \in Waiters : waiter[x] # "none" => waiter'[x] # "none"
      BY <2>4 DEF Pass, DeliveryFails, PassDies, ReadWakeups, Deliver, WakeDone, PassEnds
    <3> QED BY <2>3, <3>1, <3>2, <3>3
  <2>5. ASSUME NEW w \in Workflows, Register(w)
        PROVE  MarkedIsSent' /\ Registered'
    <3>1. Awaited(w) \in Waiters /\ Awaited(w)' = Awaited(w)
      BY <2>5, TaskAssumption DEF Register, Goto, Awaited, Waiters
    <3>2. waiter'[Awaited(w)] = "pending"
      BY <2>5, <3>1 DEF Register
    <3>3. \A x \in Waiters \ {Awaited(w)} : waiter'[x] = waiter[x]
      BY <2>5 DEF Register
    <3>4. \A v \in Workflows \ {w} : wf'[v] = wf[v]
      BY <2>5 DEF Register, Goto
    <3>5. MarkedIsSent'
      BY <2>2, <2>5, <3>2, <3>3 DEF Register
    <3>6. ASSUME NEW v \in Workflows \ {w}
          PROVE  Awaited(v) \in Waiters \ {Awaited(w)} /\ Awaited(v)' = Awaited(v)
      BY <3>4 DEF Awaited, Waiters
    <3>7. Registered'
      BY <3>1, <3>2, <3>3, <3>4, <3>6 DEF Registered
    <3> QED BY <3>5, <3>7
  <2>6. ASSUME NEW w \in Workflows, UNCHANGED <<waiter, pass>>,
               \A v \in Workflows \ {w} : wf'[v] = wf[v],
               wf'[w].pc \in {"paused", "wait"} =>
                 wf[w].pc \in {"paused", "wait"} /\ wf'[w].attempt = wf[w].attempt
        PROVE  MarkedIsSent' /\ Registered'
    <3>1. MarkedIsSent'
      BY <2>2, <2>6
    <3>2. Registered'
      BY <2>6 DEF Registered, Awaited
    <3> QED BY <3>1, <3>2
  <2>7. ASSUME NEW w \in Workflows,
               ClaimRefused(w) \/ Persist(w) \/ Resume(w) \/ Check(w) \/ Work(w)
                 \/ WaitExpires(w) \/ Finish(w) \/ StepDies(w) \/ \E l \in Leases : Claim(w, l)
        PROVE  MarkedIsSent' /\ Registered'
    <3>1. UNCHANGED <<waiter, pass>>
      BY <2>7 DEF ClaimRefused, Persist, Resume, WaitExpires, Check, Work, Finish, StepDies, Claim
    <3>2. \A v \in Workflows \ {w} : wf'[v] = wf[v]
      BY <2>7 DEF ClaimRefused, Persist, Resume, WaitExpires, Check, Work, Finish, StepDies, Claim,
                  Goto, Leave
    <3>3. wf'[w].pc \in {"paused", "wait"} =>
            wf[w].pc \in {"paused", "wait"} /\ wf'[w].attempt = wf[w].attempt
      BY <2>7 DEF ClaimRefused, Persist, Resume, WaitExpires, Check, Work, Finish, StepDies, Claim,
                  Goto, Leave
    <3> QED BY <2>6, <3>1, <3>2, <3>3
  <2>8. CASE \/ Operate \/ Fails \/ UNCHANGED vars
             \/ \E action \in {"enable", "disable"} : Begin(action)
             \/ \E l \in Leases : Deadline(l)
    <3>1. UNCHANGED <<wf, waiter>>
      BY <2>8 DEF Operate, Fails, Begin, Enable, Drain, Busy, Disable, Undo, Complete,
                  Deadline, tasks, vars
    <3>2. \A d \in Passes : pass'[d].step = "done"
                              => pass[d].step = "done" /\ pass'[d].current = pass[d].current
      BY <2>8 DEF Operate, Fails, Begin, Enable, Drain, Busy, Disable, Undo, Complete,
                  Deadline, vars
    <3>3. MarkedIsSent'
      BY <2>1, <3>1, <3>2 DEF MarkedIsSent
    <3> QED BY <2>3, <3>1, <3>3
  <2> QED BY <2>4, <2>5, <2>7, <2>8 DEF Next, Run
<1>3. WaiterInv => WaiterKept
  <2> SUFFICES ASSUME WaiterInv, NEW w \in Workflows, wf[w].pc = "wait"
               PROVE  waiter[Awaited(w)] = "pending" \/ Awaited(w) \in inbox
    BY DEF WaiterKept
  <2>1. Awaited(w) \in Waiters /\ waiter[Awaited(w)] \in {"pending", "notified"}
    BY DEF WaiterInv, TypeOK, Registered, Awaited, Waiters
  <2>2. Sent(Awaited(w)) => Awaited(w) \in inbox
    BY TaskAssumption DEF Sent, Awaited, WaiterInv, TypeOK
  <2> QED BY <2>1, <2>2 DEF WaiterInv, MarkedIsSent
<1> QED BY <1>1, <1>2, <1>3, TypeCorrect, PTL DEF Spec
=============================================================================
