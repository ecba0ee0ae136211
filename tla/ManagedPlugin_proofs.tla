------------------------ MODULE ManagedPlugin_proofs ------------------------
(***************************************************************************)
(* Proofs about the managed operations of ManagedPlugin, for any number of *)
(* components, packages, operations and requests, and any bounds.          *)
(***************************************************************************)
EXTENDS ManagedPlugin, TLAPS

\* No record of a snapshot is the absence of one.
LEMMA SnapshotsAreThere == NoSnapshot \notin Snapshot
<1> SUFFICES ASSUME NoSnapshot \in Snapshot PROVE FALSE
  OBVIOUS
<1>1. DOMAIN NoSnapshot = {"none"}
  BY DEF NoSnapshot
<1>2. DOMAIN NoSnapshot = {"plugin", "enabled", "pointer"}
  BY DEF Snapshot
<1> QED BY <1>1, <1>2

------------------------------------------------------------------------------
(* The moves of a request.                                                 *)

\* A request enters these steps only with what they write from.
Writing == {"snapshotWrite", "restoreWrite", "compensateWrite"}

\* What a request has when it is about to write from a snapshot.
Equipped(r) ==
  /\ pc[r] = "snapshotWrite" => req[r].snap \in Snapshot
  /\ pc[r] \in {"restoreWrite", "compensateWrite"} =>
       req[r].op \in Ops /\ op[req[r].op].snap \in Snapshot

\* Request r moved, for the operation it had or for none, and the others did not;
\* it moved to a step that writes from no snapshot.
Moved(r) ==
  /\ pc' \in [Requests -> Labels]
  /\ req' \in [Requests -> Request]
  /\ req'[r].op \in {req[r].op, None}
  /\ \A s \in Requests \ {r} : pc'[s] = pc[s] /\ req'[s] = req[s]

MovedOn(r) == Moved(r) /\ pc'[r] \notin Writing

\* The memory of a request that holds nothing is a request.
LEMMA IdleIsTyped == Idle \in Request
BY DEF Idle, Request

\* What a refused request keeps is a request for the same operation.
LEMMA BareIsTyped ==
  ASSUME TypeOK, NEW r \in Requests
  PROVE  Bare(r) \in Request /\ Bare(r).op = req[r].op
<1>1. req[r] \in Request
  BY DEF TypeOK
<1>2. /\ req[r].op \in Ops \cup {None} /\ req[r].kind \in {"action", "page"}
      /\ req[r].phase \in {"try", "catch", "compensate", "recover"}
  BY <1>1 DEF Request
<1>3. Bare(r).op = req[r].op
  BY DEF Bare, Idle
<1> HIDE DEF Bare
<1>4. Bare(r) \in Request
  BY <1>2, IdleIsTyped DEF Bare, Request
<1> QED BY <1>3, <1>4

\* Goto and Remember move a request.
LEMMA MoveTo ==
  ASSUME TypeOK, NEW r \in Requests, NEW label \in Labels, Goto(r, label),
         \/ UNCHANGED req
         \/ \E x \in Request : x.op \in {req[r].op, None} /\ Remember(r, x)
  PROVE  Moved(r) /\ pc'[r] = label
BY DEF TypeOK, Goto, Remember, Moved

\* A request that answers moves on and holds no operation.
LEMMA AnswerMoves ==
  ASSUME TypeOK, NEW r \in Requests, Answer(r)
  PROVE  MovedOn(r) /\ req'[r].op = None
<1>1. Idle.op = None
  BY DEF Idle
<1>2. "idle" \in Labels \ Writing
  BY DEF Labels, Writing
<1>3. MovedOn(r)
  BY <1>1, <1>2, MoveTo, IdleIsTyped DEF Answer, MovedOn
<1>4. req'[r] = Idle
  BY DEF Answer, Remember, TypeOK
<1> QED BY <1>1, <1>3, <1>4

\* A request whose work is refused moves on.
LEMMA RefuseMoves ==
  ASSUME TypeOK, NEW r \in Requests, Refuse(r)
  PROVE  MovedOn(r)
<1>1. "refused" \in Labels \ Writing
  BY DEF Labels, Writing
<1> QED BY <1>1, MoveTo, BareIsTyped DEF Refuse, MovedOn

\* A request that throws moves on, whichever catch it lands in.
LEMMA ThrowMoves ==
  ASSUME TypeOK, NEW r \in Requests, Throw(r)
  PROVE  MovedOn(r)
<1>1. Thrown(r) \in {"threw", "markRecovery", "idle"}
  BY DEF Thrown
<1>2. {"threw", "markRecovery", "idle"} \subseteq Labels \ Writing
  BY DEF Labels, Writing
<1> QED BY <1>1, <1>2, MoveTo, AnswerMoves DEF Throw, MovedOn

\* A request that starts a synchronisation moves on.
LEMMA SynchronizeMoves ==
  ASSUME TypeOK, NEW r \in Requests, NEW after \in {"publish", "complete"},
         NEW ok \in BOOLEAN, Synchronize(r, after, ok)
  PROVE  MovedOn(r)
<1> DEFINE x == [Bare(r) EXCEPT !.after = after, !.ok = ok]
<1>1. "sync" \in Labels \ Writing
  BY DEF Labels, Writing
<1>2. x \in Request /\ x.op = req[r].op
  <2>1. Bare(r) \in Request /\ Bare(r).op = req[r].op
    BY BareIsTyped
  <2> HIDE DEF TypeOK
  <2> QED BY <2>1 DEF Request
<1>3. Goto(r, "sync") /\ Remember(r, x)
  BY DEF Synchronize
<1> HIDE DEF x
<1> QED BY <1>1, <1>2, <1>3, MoveTo DEF MovedOn

\* The memory of a request with other fields changed keeps its operation.
Same(q, x) == x \in Request /\ x.op = q.op

\* The fields that the steps of a request set, one lemma for all of them.
LEMMA FieldsAreTyped ==
  ASSUME NEW q \in Request
  PROVE  /\ \A S \in SUBSET Plugins : Same(q, [q EXCEPT !.todo = S])
         /\ \A S \in SUBSET Plugins : Same(q, [q EXCEPT !.seen = S])
         /\ \A S \in SUBSET Plugins : Same(q, [q EXCEPT !.comps = S])
         /\ \A S \in SUBSET Plugins : Same(q, [q EXCEPT !.lock = S])
         /\ \A S \in SUBSET Plugins, T \in SUBSET Plugins :
              Same(q, [q EXCEPT !.todo = S, !.seen = T])
         /\ \A S \in SUBSET Plugins :
              Same(q, [q EXCEPT !.seen = S, !.after = "complete"])
         /\ \A S \in SUBSET Plugins :
              Same(q, [q EXCEPT !.comps = {}, !.action = "enable", !.todo = S])
         /\ \A x \in Releases \cup {None}, S \in SUBSET Plugins :
              Same(q, [q EXCEPT !.prev = x, !.lock = S])
         /\ \A z \in Snapshot \cup {NoSnapshot} : Same(q, [q EXCEPT !.snap = z])
         /\ \A t \in Nat : Same(q, [q EXCEPT !.stamp = t])
         /\ \A n \in Nat, t \in Nat : Same(q, [q EXCEPT !.rev = n, !.stamp = t])
<1> USE DEF Same, Request
<1>1. \A S \in SUBSET Plugins : Same(q, [q EXCEPT !.todo = S])
  OBVIOUS
<1>2. \A S \in SUBSET Plugins : Same(q, [q EXCEPT !.seen = S])
  OBVIOUS
<1>3. \A S \in SUBSET Plugins : Same(q, [q EXCEPT !.comps = S])
  OBVIOUS
<1>4. \A S \in SUBSET Plugins : Same(q, [q EXCEPT !.lock = S])
  OBVIOUS
<1>5. \A S \in SUBSET Plugins, T \in SUBSET Plugins :
        Same(q, [q EXCEPT !.todo = S, !.seen = T])
  OBVIOUS
<1>6. \A S \in SUBSET Plugins : Same(q, [q EXCEPT !.seen = S, !.after = "complete"])
  OBVIOUS
<1>7. \A S \in SUBSET Plugins :
        Same(q, [q EXCEPT !.comps = {}, !.action = "enable", !.todo = S])
  OBVIOUS
<1>8. \A x \in Releases \cup {None}, S \in SUBSET Plugins :
        Same(q, [q EXCEPT !.prev = x, !.lock = S])
  OBVIOUS
<1>9. \A z \in Snapshot \cup {NoSnapshot} : Same(q, [q EXCEPT !.snap = z])
  OBVIOUS
<1>10. \A t \in Nat : Same(q, [q EXCEPT !.stamp = t])
  OBVIOUS
<1>11. \A n \in Nat, t \in Nat : Same(q, [q EXCEPT !.rev = n, !.stamp = t])
  OBVIOUS
<1> QED BY <1>1, <1>2, <1>3, <1>4, <1>5, <1>6, <1>7, <1>8, <1>9, <1>10, <1>11

\* A request whose memory changes in some of the fields above moves.
LEMMA MoveWith ==
  ASSUME TypeOK, NEW r \in Requests, NEW label \in Labels, Goto(r, label),
         NEW x, Same(req[r], x), Remember(r, x)
  PROVE  Moved(r) /\ pc'[r] = label /\ req'[r] = x
BY DEF TypeOK, Goto, Remember, Moved, Same

\* The work of an operation up to the approval of its release, InstallWrite and
\* the snapshot excepted.
LEMMA WorkMoves ==
  ASSUME TypeOK, NEW r \in Requests,
         \/ Classify(r) \/ SnapshotWrite(r) \/ Plan(r) \/ InstallRead(r)
         \/ Slice(r) \/ Compile(r) \/ Approve(r) \/ Rejected(r)
  PROVE  MovedOn(r)
<1> DEFINE q == req[r]
<1>1. q \in Request /\ \A rows, S : InState(rows, S) \subseteq Plugins
  BY DEF TypeOK, InState
<1>2. q.comps \subseteq Plugins /\ q.lock \subseteq Plugins /\ q.todo \subseteq Plugins
  BY <1>1 DEF Request
<1>3. ASSUME NEW label \in Labels \ Writing, NEW x, Same(q, x), Goto(r, label), Remember(r, x)
      PROVE  MovedOn(r)
  BY <1>3, MoveWith DEF MovedOn
<1>4. /\ {"complete", "snapshotRead", "plan", "renewSlice", "renewInstall", "installWrite",
          "compile", "approve", "drain"} \subseteq Labels \ Writing
  BY DEF Labels, Writing
<1> HIDE DEF q
<1>5. CASE Classify(r)
  <2>1. CASE Synchronize(r, "complete", TRUE)
    BY <2>1, SynchronizeMoves
  <2>2. CASE Goto(r, "complete") /\ Remember(r, Bare(r))
    BY <2>2, <1>3, <1>4, BareIsTyped DEF Same, q
  <2>3. ASSUME NEW S \in SUBSET Plugins, Goto(r, "snapshotRead"),
               Remember(r, [q EXCEPT !.comps = S])
        PROVE  MovedOn(r)
    BY <1>1, <1>3, <1>4, <2>3, FieldsAreTyped
  <2> QED BY <1>1, <1>2, <1>5, <2>1, <2>2, <2>3 DEF Classify, q
<1>6. CASE SnapshotWrite(r)
  BY <1>1, <1>3, <1>4, <1>6, FieldsAreTyped DEF SnapshotWrite, q
<1>7. CASE Plan(r)
  <2>1. PICK S \in SUBSET Plugins : Remember(r, [q EXCEPT !.todo = S])
    BY <1>2, <1>7 DEF Plan, StaleActive, InState, q
  <2> QED BY <1>1, <1>3, <1>4, <1>7, <2>1, FieldsAreTyped DEF Plan
<1>8. CASE InstallRead(r)
  <2>1. CASE Refuse(r)
    BY <2>1, RefuseMoves
  <2>2. CASE /\ Goto(r, "installWrite")
             /\ Remember(r, [q EXCEPT !.seen = q.todo \cap InState(plugin, {"active"})])
    BY <1>1, <1>2, <1>3, <1>4, <2>2, FieldsAreTyped
  <2> QED BY <1>8, <2>1, <2>2 DEF InstallRead, q
<1>9. CASE Slice(r)
  <2>1. CASE Refuse(r)
    BY <2>1, RefuseMoves
  <2>2. ASSUME NEW S \in SUBSET Plugins, Goto(r, "compile"),
               Remember(r, [q EXCEPT !.prev = pointer.active, !.lock = S])
        PROVE  MovedOn(r)
    <3>1. pointer.active \in Releases \cup {None}
      BY DEF TypeOK, Pointer
    <3> QED BY <1>1, <1>3, <1>4, <2>2, <3>1, FieldsAreTyped
  <2> QED BY <1>1, <1>9, <2>1, <2>2 DEF Slice, LockRows, q
<1>10. CASE Compile(r)
  <2>1. CASE Refuse(r)
    BY <2>1, RefuseMoves
  <2>2. CASE Goto(r, "approve") /\ Remember(r, [q EXCEPT !.lock = {}])
    BY <1>1, <1>3, <1>4, <2>2, FieldsAreTyped
  <2> QED BY <1>10, <2>1, <2>2 DEF Compile, q
<1>11. CASE Approve(r)
  <2>1. CASE Refuse(r)
    BY <2>1, RefuseMoves
  <2>2. ASSUME NEW S \in SUBSET Plugins, Goto(r, "drain"),
               Remember(r, [q EXCEPT !.comps = {}, !.action = "enable", !.todo = S])
        PROVE  MovedOn(r)
    BY <1>1, <1>3, <1>4, <2>2, FieldsAreTyped
  <2>3. (IF q.action = "disable" THEN q.comps ELSE {}) \in SUBSET Plugins
    BY <1>2
  <2> QED BY <1>11, <2>1, <2>2, <2>3 DEF Approve, q
<1>12. CASE Rejected(r)
  BY <1>12, RefuseMoves DEF Rejected
<1> QED BY <1>5, <1>6, <1>7, <1>8, <1>9, <1>10, <1>11, <1>12

\* A renewed lease lets the request go on; a lost one throws.
LEMMA RenewMoves ==
  ASSUME TypeOK, NEW r \in Requests, NEW from, NEW to \in Labels \ Writing,
         Renew(r, from, to)
  PROVE  MovedOn(r)
<1>1. CASE Throw(r)
  BY <1>1, ThrowMoves
<1>2. CASE Goto(r, to) /\ UNCHANGED req
  BY <1>2, MoveTo DEF MovedOn
<1> QED BY <1>1, <1>2 DEF Renew

\* Installing, draining, activating and synchronising.
LEMMA ReleaseMoves ==
  ASSUME TypeOK, NEW r \in Requests,
         \/ \E down \in SUBSET Plugins : InstallWrite(r, down)
         \/ \E p \in Plugins : Drain(r, p) \/ DrainWrite(r, p) \/ Busy(r, p)
         \/ Drained(r) \/ Preflight(r) \/ Prepare(r) \/ Commit(r) \/ CommitRefused(r)
         \/ Finalize(r) \/ Publish(r) \/ SyncRead(r) \/ SyncWrite(r)
  PROVE  MovedOn(r)
<1> DEFINE q == req[r]
<1>1. q \in Request /\ InState(plugin, {"active"}) \subseteq Plugins
  BY DEF TypeOK, InState
<1>2. q.todo \subseteq Plugins /\ q.after \in {"publish", "complete"} /\ now \in Nat
  BY <1>1 DEF Request, TypeOK
<1>3. ASSUME NEW label \in Labels \ Writing, NEW x, Same(q, x), Goto(r, label), Remember(r, x)
      PROVE  MovedOn(r)
  BY <1>3, MoveWith DEF MovedOn
<1>4. ASSUME NEW label \in Labels \ Writing, Goto(r, label), UNCHANGED req
      PROVE  MovedOn(r)
  BY <1>4, MoveTo DEF MovedOn
<1>5. {"renewSlice", "drain", "drainWrite", "busy", "renewActivate", "prepare", "commit",
       "finalize", "syncWrite", "publish", "complete"} \subseteq Labels \ Writing
  BY DEF Labels, Writing
<1>6. Refuse(r) => MovedOn(r)
  BY RefuseMoves
<1>7. Throw(r) => MovedOn(r)
  BY ThrowMoves
<1> HIDE DEF q
<1>8. ASSUME NEW down \in SUBSET Plugins, InstallWrite(r, down) PROVE MovedOn(r)
  <2>1. CASE Goto(r, "renewSlice") /\ Remember(r, [q EXCEPT !.todo = {}, !.seen = {}])
    BY <1>1, <1>3, <1>5, <2>1, FieldsAreTyped
  <2> QED BY <1>6, <1>8, <2>1 DEF InstallWrite, q
<1>9. ASSUME NEW p \in Plugins, Drain(r, p) PROVE MovedOn(r)
  <2>1. CASE Goto(r, "drainWrite") /\ Remember(r, [q EXCEPT !.seen = {p}])
    BY <1>1, <1>3, <1>5, <2>1, FieldsAreTyped
  <2>2. CASE Goto(r, "drain") /\ Remember(r, [q EXCEPT !.todo = @ \ {p}])
    BY <1>1, <1>2, <1>3, <1>5, <2>2, FieldsAreTyped
  <2> QED BY <1>9, <2>1, <2>2 DEF Drain, q
<1>10. ASSUME NEW p \in Plugins, DrainWrite(r, p) PROVE MovedOn(r)
  BY <1>4, <1>5, <1>10 DEF DrainWrite
<1>11. ASSUME NEW p \in Plugins, Busy(r, p) PROVE MovedOn(r)
  <2>1. CASE Goto(r, "drain") /\ Remember(r, [q EXCEPT !.todo = @ \ {p}, !.seen = {}])
    BY <1>1, <1>2, <1>3, <1>5, <2>1, FieldsAreTyped
  <2> QED BY <1>6, <1>11, <2>1 DEF Busy, q
<1>12. CASE Drained(r)
  BY <1>4, <1>5, <1>12 DEF Drained, Decide
<1>13. CASE Preflight(r)
  <2>1. CASE Goto(r, "prepare") /\ Remember(r, [q EXCEPT !.stamp = now])
    BY <1>1, <1>2, <1>3, <1>5, <2>1, FieldsAreTyped
  <2> QED BY <1>6, <1>13, <2>1 DEF Preflight, q
<1>14. CASE Prepare(r)
  BY <1>4, <1>5, <1>7, <1>14 DEF Prepare
<1>15. CASE Commit(r)
  BY <1>4, <1>5, <1>15 DEF Commit
<1>16. CASE CommitRefused(r)
  BY <1>6, <1>7, <1>16 DEF CommitRefused
<1>17. CASE Finalize(r)
  BY <1>7, <1>17, SynchronizeMoves DEF Finalize
<1>18. CASE Publish(r)
  BY <1>6, <1>18, SynchronizeMoves DEF Publish
<1>19. CASE SyncRead(r)
  BY <1>1, <1>3, <1>5, <1>19, FieldsAreTyped DEF SyncRead, q
<1>20. CASE SyncWrite(r)
  <2>1. q.after \in Labels \ Writing
    BY <1>2, <1>5
  <2>2. Goto(r, q.after) /\ Remember(r, [q EXCEPT !.seen = {}, !.after = "complete"])
    BY <1>20 DEF SyncWrite, q
  <2> QED BY <1>1, <1>3, <2>1, <2>2, FieldsAreTyped
<1> QED BY <1>8, <1>9, <1>10, <1>11, <1>12, <1>13, <1>14, <1>15, <1>16, <1>17, <1>18,
           <1>19, <1>20

\* Undoing and completing, the reads before a restoring batch excepted.
LEMMA UndoMoves ==
  ASSUME TypeOK, NEW r \in Requests,
         \/ BeginRefused(r) \/ Complete(r) \/ MarkRecovery(r) \/ RestoreWrite(r)
         \/ CompensateWrite(r) \/ CompensateAborted(r) \/ CompensateReload(r)
         \/ StatementFails(r) \/ Crash(r)
  PROVE  MovedOn(r)
<1>1. Answer(r) => MovedOn(r)
  BY AnswerMoves
<1>2. Throw(r) => MovedOn(r)
  BY ThrowMoves
<1>3. CASE BeginRefused(r) \/ MarkRecovery(r) \/ Crash(r)
  BY <1>1, <1>3 DEF BeginRefused, MarkRecovery, Crash
<1>4. CASE CompensateAborted(r) \/ StatementFails(r)
  BY <1>2, <1>4 DEF CompensateAborted, StatementFails
<1>5. CASE Complete(r)
  <2>1. CASE Goto(r, "begin") /\ Remember(r, [Idle EXCEPT !.kind = "action"])
    <3>1. [Idle EXCEPT !.kind = "action"] \in Request /\ [Idle EXCEPT !.kind = "action"].op = None
      BY DEF Idle, Request
    <3> QED BY <2>1, <3>1, MoveTo DEF MovedOn, Labels, Writing
  <2> QED BY <1>1, <1>5, <2>1 DEF Complete
<1>6. CASE RestoreWrite(r)
  BY <1>6, SynchronizeMoves DEF RestoreWrite
<1>7. CASE CompensateReload(r)
  BY <1>2, <1>7, SynchronizeMoves DEF CompensateReload
<1>8. CASE CompensateWrite(r)
  <2>1. req[r] \in Request
    BY DEF TypeOK
  <2>2. Same(req[r], [req[r] EXCEPT !.rev = 0, !.stamp = 0])
    BY <2>1, FieldsAreTyped
  <2>3. "compensateReload" \in Labels \ Writing
    BY DEF Labels, Writing
  <2>4. /\ Goto(r, "compensateReload")
        /\ Remember(r, [req[r] EXCEPT !.rev = 0, !.stamp = 0])
    BY <1>8 DEF CompensateWrite
  <2> QED BY <2>2, <2>3, <2>4, MoveWith DEF MovedOn
<1> QED BY <1>3, <1>4, <1>5, <1>6, <1>7, <1>8

\* A stored snapshot is one that can be restored.
LEMMA StoredIsSnapshot ==
  ASSUME TypeOK, NEW o \in Ops, Stored(o)
  PROVE  op[o].snap \in Snapshot
BY DEF TypeOK, OpRow, Stored

\* A request goes to a restoring batch for an operation with a snapshot.
LEMMA RestoreReadMoves ==
  ASSUME TypeOK, NEW r \in Requests, NEW phase \in {"try", "catch", "recover"},
         UNCHANGED op, RestoreRead(r, phase)
  PROVE  Moved(r) /\ Equipped(r)'
<1> DEFINE held == [Bare(r) EXCEPT !.phase = phase]
<1>1. Same(req[r], held)
  BY BareIsTyped DEF Same, Request
<1>2. {"sync", "restoreWrite"} \subseteq Labels
  BY DEF Labels
<1> HIDE DEF held
<1>3. CASE Goto(r, "sync") /\ Remember(r, held)
  BY <1>1, <1>2, <1>3, MoveWith DEF Equipped
<1>4. CASE Throw(r)
  BY <1>4, ThrowMoves DEF MovedOn, Writing, Equipped
<1>5. CASE Owns(r) /\ Stored(req[r].op) /\ Goto(r, "restoreWrite") /\ Remember(r, held)
  <2>1. req[r].op \in Ops /\ op'[req[r].op].snap \in Snapshot
    BY <1>5, StoredIsSnapshot DEF Owns, Running
  <2>2. Moved(r) /\ pc'[r] = "restoreWrite" /\ req'[r].op = req[r].op
    BY <1>1, <1>2, <1>5, MoveWith DEF Same
  <2> QED BY <2>1, <2>2 DEF Equipped
<1> QED BY <1>3, <1>4, <1>5 DEF RestoreRead, held

\* The reads that precede a write from a snapshot.
LEMMA ReadMoves ==
  ASSUME TypeOK, NEW r \in Requests,
         SnapshotRead(r) \/ Refused(r) \/ Threw(r) \/ Recover(r) \/ CompensateRead(r)
  PROVE  Moved(r) /\ Equipped(r)' /\ UNCHANGED tables
<1>1. UNCHANGED tables /\ UNCHANGED op
  BY DEF SnapshotRead, Refused, Threw, Recover, CompensateRead, tables
<1>2. ASSUME MovedOn(r) PROVE Moved(r) /\ Equipped(r)'
  BY <1>2 DEF MovedOn, Writing, Equipped
<1>3. "renewCompensate" \in Labels \ Writing
  BY DEF Labels, Writing
<1>4. CASE SnapshotRead(r)
  <2> DEFINE snap == [plugin |-> plugin, enabled |-> enabled, pointer |-> pointer]
  <2>1. snap \in Snapshot
    BY DEF TypeOK, Snapshot
  <2>2. req[r] \in Request
    BY DEF TypeOK
  <2>3. Same(req[r], [req[r] EXCEPT !.snap = snap]) /\ [req[r] EXCEPT !.snap = snap].snap = snap
    BY <2>1, <2>2, FieldsAreTyped DEF Request
  <2>4. Goto(r, "snapshotWrite") /\ Remember(r, [req[r] EXCEPT !.snap = snap])
    BY <1>4 DEF SnapshotRead
  <2> HIDE DEF snap
  <2>5. "snapshotWrite" \in Labels
    BY DEF Labels
  <2>6. Moved(r) /\ pc'[r] = "snapshotWrite" /\ req'[r].snap = snap
    BY <2>3, <2>4, <2>5, MoveWith
  <2> QED BY <1>1, <2>1, <2>6 DEF Equipped
<1>5. CASE Refused(r)
  BY <1>1, <1>5, RestoreReadMoves DEF Refused
<1>6. CASE Threw(r)
  <2>1. CASE /\ Goto(r, "renewCompensate")
             /\ Remember(r, [Bare(r) EXCEPT !.phase = "compensate"])
    <3>1. Same(req[r], [Bare(r) EXCEPT !.phase = "compensate"])
      BY BareIsTyped DEF Same, Request
    <3> QED BY <1>1, <1>2, <1>3, <2>1, <3>1, MoveWith DEF MovedOn
  <2> QED BY <1>1, <1>6, <2>1, RestoreReadMoves DEF Threw
<1>7. CASE Recover(r)
  <2>1. CASE Goto(r, "renewCompensate") /\ UNCHANGED req
    BY <1>1, <1>2, <1>3, <2>1, MoveTo DEF MovedOn
  <2> QED BY <1>1, <1>7, <2>1, RestoreReadMoves DEF Recover
<1>8. CASE CompensateRead(r)
  <2>1. CASE Throw(r)
    BY <1>1, <1>2, <2>1, ThrowMoves
  <2>2. CASE Goto(r, "compensateReload") /\ UNCHANGED req
    BY <1>1, <1>2, <2>2, MoveTo DEF MovedOn, Labels, Writing
  <2>3. CASE /\ Owns(r) /\ Stored(req[r].op)
             /\ Goto(r, "compensateWrite")
             /\ Remember(r, [req[r] EXCEPT !.rev = pointer.revision, !.stamp = now])
    <3>1. req[r] \in Request /\ pointer.revision \in Nat /\ now \in Nat
      BY DEF TypeOK, Pointer
    <3>2. Same(req[r], [req[r] EXCEPT !.rev = pointer.revision, !.stamp = now])
      BY <3>1, FieldsAreTyped
    <3>3. "compensateWrite" \in Labels
      BY DEF Labels
    <3>4. Moved(r) /\ pc'[r] = "compensateWrite" /\ req'[r].op = req[r].op
      BY <2>3, <3>2, <3>3, MoveWith DEF Same
    <3>5. req[r].op \in Ops /\ op'[req[r].op].snap \in Snapshot
      BY <1>1, <2>3, StoredIsSnapshot DEF Owns, Running
    <3> QED BY <1>1, <3>4, <3>5 DEF Equipped
  <2> QED BY <1>8, <2>1, <2>2, <2>3 DEF CompensateRead
<1> QED BY <1>4, <1>5, <1>6, <1>7, <1>8
------------------------------------------------------------------------------
(* The tables.                                                             *)

\* The batches of PluginLifecycle write lifecycle rows.
LEMMA TransitionIsTyped ==
  ASSUME NEW rows \in [Plugins -> PluginRow], NEW p \in Plugins,
         NEW from \in States, NEW to \in States
  PROVE  TransitionBatch(rows, p, from, to) \in [Plugins -> PluginRow]
<1>1. rows[p] \in PluginRow
  OBVIOUS
<1> DEFINE row == [rows[p] EXCEPT
                     !.state = IF rows[p].state = from THEN to ELSE rows[p].state,
                     !.manifest = to = "active" /\ rows[p].manifest,
                     !.health = IF to = "active" THEN rows[p].health ELSE "unavailable"]
<1>2. row \in PluginRow
  BY <1>1 DEF PluginRow, Health
<1>3. TransitionBatch(rows, p, from, to) = [rows EXCEPT ![p] = row]
  BY DEF TransitionBatch
<1> HIDE DEF row
<1> QED BY <1>2, <1>3

\* The batch of an installation leaves lifecycle rows.
LEMMA InstallIsTyped ==
  ASSUME NEW rows \in [Plugins -> PluginRow], NEW targets, NEW wasActive, NEW down
  PROVE  InstallBatch(rows, targets, wasActive, down) \in [Plugins -> PluginRow]
<1> SUFFICES ASSUME NEW p \in Plugins
             PROVE  InstallBatch(rows, targets, wasActive, down)[p] \in PluginRow
  BY DEF InstallBatch
<1>1. rows[p] \in PluginRow
  OBVIOUS
<1> QED BY <1>1 DEF InstallBatch, PluginRow, States, Health

\* Applying a release to the lifecycle leaves lifecycle rows.
LEMMA ApplyIsTyped ==
  ASSUME NEW rows \in [Plugins -> PluginRow], NEW o \in Releases \cup {None}, NEW S
  PROVE  ApplyRelease(rows, o, S) \in [Plugins -> PluginRow]
<1> SUFFICES ASSUME NEW p \in Plugins
             PROVE  ApplyRelease(rows, o, S)[p] \in PluginRow
  BY DEF ApplyRelease
<1>1. rows[p] \in PluginRow
  OBVIOUS
<1> QED BY <1>1 DEF ApplyRelease, PluginRow, States, Health

\* The type invariant, and what the restoring batches write from.
TypeInv == TypeOK /\ \A r \in Requests : Equipped(r)

TablesOK ==
  /\ plugin \in [Plugins -> PluginRow]
  /\ enabled \in [Packages -> BOOLEAN]
  /\ pointer \in Pointer
  /\ candidate \in [Ops -> {"none", "validated", "approved", "activated", "superseded"}]
  /\ lock \in [Releases -> SUBSET Plugins]
  /\ recon \in [Releases -> {"none", "prepared", "applied"}]
  /\ op \in [Ops -> OpRow]
  /\ compensated \subseteq Ops

\* No snapshot that was stored is lost.
SnapshotsStay == \A o \in Ops : op[o].snap \in Snapshot => op'[o].snap \in Snapshot

\* A step of a request keeps the invariant when it keeps the tables typed and
\* the snapshots where they are.
LEMMA RequestKeeps ==
  ASSUME TypeInv, NEW r \in Requests, Moved(r), Equipped(r)', TablesOK', SnapshotsStay,
         UNCHANGED <<work, console, now>>, faults' \in Nat
  PROVE  TypeInv'
<1>1. TypeOK'
  BY DEF TypeInv, TypeOK, TablesOK, Moved
<1>2. ASSUME NEW s \in Requests \ {r} PROVE Equipped(s)'
  BY DEF TypeInv, Equipped, Moved, SnapshotsStay
<1> QED BY <1>1, <1>2 DEF TypeInv

\* A request that moves on keeps the type of the requests.
LEMMA MovedOnKeeps ==
  ASSUME TypeInv, NEW r \in Requests, MovedOn(r), TablesOK', SnapshotsStay,
         UNCHANGED <<work, console, now>>, faults' \in Nat
  PROVE  TypeInv'
BY RequestKeeps DEF MovedOn, Writing, Equipped

\* The statements on the row of an operation.
LEMMA RowKeeps ==
  ASSUME TypeInv, NEW r \in Requests,
         \/ \E from \in Labels, to \in Labels \ Writing : Renew(r, from, to)
         \/ Complete(r) \/ MarkRecovery(r) \/ SnapshotWrite(r)
  PROVE  TypeInv'
<1> USE DEF TypeInv
<1>1. MovedOn(r)
  BY RenewMoves, UndoMoves, WorkMoves
<1>2. /\ UNCHANGED <<plugin, enabled, pointer, candidate, lock, recon, compensated>>
      /\ UNCHANGED <<work, console, now, faults>>
  BY DEF Renew, Complete, MarkRecovery, SnapshotWrite, Frame
<1>3. now + 1 \in Nat
  BY DEF TypeOK
<1>4. op' \in [Ops -> OpRow] /\ SnapshotsStay
  <2> USE DEF TypeOK, SnapshotsStay
  <2>1. ASSUME NEW from \in Labels, NEW to \in Labels \ Writing, Renew(r, from, to)
        PROVE  op' \in [Ops -> OpRow] /\ SnapshotsStay
    <3>1. CASE UNCHANGED op
      BY <3>1
    <3>2. CASE Owns(r) /\ op' = [op EXCEPT ![req[r].op].expires = now + 1]
      <4> DEFINE o == req[r].op
                 row == [op[o] EXCEPT !.expires = now + 1]
      <4>1. o \in Ops /\ op' = [op EXCEPT ![o] = row]
        BY <3>2 DEF Owns, Running
      <4>2. op[o] \in OpRow
        BY <4>1
      <4>3. row \in OpRow /\ row.snap = op[o].snap
        BY <1>3, <4>2 DEF OpRow
      <4> HIDE DEF o, row
      <4> QED BY <4>1, <4>3
    <3> QED BY <2>1, <3>1, <3>2 DEF Renew
  <2>a. ASSUME NEW row \in OpRow, NEW o \in Ops, op' = [op EXCEPT ![o] = row],
               row.snap = op[o].snap \/ row.snap \in Snapshot
        PROVE  op' \in [Ops -> OpRow] /\ SnapshotsStay
    BY <2>a
  <2>b. Owns(r) => req[r].op \in Ops /\ op[req[r].op] \in OpRow
    BY DEF Owns, Running
  <2>2. CASE Complete(r)
    <3>1. CASE Owns(r)
      <4> DEFINE status == IF req[r].ok THEN "succeeded" ELSE "failed"
                 row == [op[req[r].op] EXCEPT !.status = status]
      <4>1. op' = [op EXCEPT ![req[r].op] = row]
        BY <2>2, <2>b, <3>1 DEF Complete
      <4>2. row \in OpRow /\ row.snap = op[req[r].op].snap
        BY <2>b, <3>1 DEF OpRow
      <4> HIDE DEF row
      <4> QED BY <2>a, <2>b, <3>1, <4>1, <4>2
    <3> QED BY <2>2, <3>1 DEF Complete
  <2>3. CASE MarkRecovery(r)
    <3>1. CASE Owns(r)
      <4> DEFINE row == [op[req[r].op] EXCEPT !.error = TRUE]
      <4>1. op' = [op EXCEPT ![req[r].op] = row]
        BY <2>3, <2>b, <3>1 DEF MarkRecovery
      <4>2. row \in OpRow /\ row.snap = op[req[r].op].snap
        BY <2>b, <3>1 DEF OpRow
      <4> HIDE DEF row
      <4> QED BY <2>a, <2>b, <3>1, <4>1, <4>2
    <3> QED BY <2>3, <3>1 DEF MarkRecovery
  <2>4. CASE SnapshotWrite(r)
    <3>0. req[r].snap \in Snapshot
      BY <2>4 DEF SnapshotWrite, Equipped
    <3>1. CASE Owns(r)
      <4> DEFINE row == [op[req[r].op] EXCEPT !.snap = req[r].snap]
      <4>1. op' = [op EXCEPT ![req[r].op] = row]
        BY <2>4, <2>b, <3>1 DEF SnapshotWrite
      <4>2. row \in OpRow /\ row.snap \in Snapshot
        BY <2>b, <3>0, <3>1 DEF OpRow
      <4> HIDE DEF row
      <4> QED BY <2>a, <2>b, <3>1, <4>1, <4>2
    <3> QED BY <2>4, <3>1 DEF SnapshotWrite
  <2> QED BY <2>1, <2>2, <2>3, <2>4
<1>5. TablesOK'
  BY <1>2, <1>4 DEF TablesOK, TypeOK
<1>6. faults' \in Nat
  BY <1>2 DEF TypeOK
<1> QED BY <1>1, <1>2, <1>4, <1>5, <1>6, MovedOnKeeps

\* The requests that begin an operation, or claim one that was abandoned.
LEMMA OwnerKeeps ==
  ASSUME TypeInv, NEW r \in Requests, NEW o \in Ops,
         \/ \E action \in {"enable", "disable"}, k \in Packages : Begin(r, o, action, k)
         \/ \E kind \in {"action", "page"} : Claim(r, o, kind)
  PROVE  TypeInv'
<1> USE ConstantsAssumption DEF TypeInv, TypeOK
<1>1. /\ UNCHANGED <<plugin, enabled, pointer, candidate, lock, recon, compensated>>
      /\ UNCHANGED <<work, console, now, faults>>
  BY DEF Begin, Claim, Frame
<1>2. op' \in [Ops -> OpRow] /\ SnapshotsStay
  <2>1. ASSUME NEW action \in {"enable", "disable"}, NEW k \in Packages, Begin(r, o, action, k)
        PROVE  op' \in [Ops -> OpRow] /\ SnapshotsStay
    <3> DEFINE row == [op[o] EXCEPT !.status = "running", !.owner = r, !.expires = now + 1]
    <3>1. op' = [op EXCEPT ![o] = row]
      BY <2>1 DEF Begin
    <3>2. op[o] \in OpRow /\ now + 1 \in Nat
      OBVIOUS
    <3>3. row \in OpRow /\ row.snap = op[o].snap
      BY <3>2 DEF OpRow
    <3> HIDE DEF row
    <3> QED BY <3>1, <3>3 DEF SnapshotsStay
  <2>2. ASSUME NEW kind \in {"action", "page"}, Claim(r, o, kind)
        PROVE  op' \in [Ops -> OpRow] /\ SnapshotsStay
    BY <2>2 DEF Claim, OpRow, SnapshotsStay
  <2> QED BY <2>1, <2>2
<1>3. PICK label \in Labels \ Writing, x \in Request : Goto(r, label) /\ Remember(r, x)
  <2>0. {"classify", "recover"} \subseteq Labels \ Writing
    BY DEF Labels, Writing
  <2>1. ASSUME NEW action \in {"enable", "disable"}, NEW k \in Packages, Begin(r, o, action, k)
        PROVE  \E label \in Labels \ Writing, x \in Request : Goto(r, label) /\ Remember(r, x)
    <3>1. [Idle EXCEPT !.op = o, !.action = action, !.comps = Components[k]] \in Request
      BY DEF Idle, Request
    <3> QED BY <2>0, <2>1, <3>1 DEF Begin
  <2>2. ASSUME NEW kind \in {"action", "page"}, Claim(r, o, kind)
        PROVE  \E label \in Labels \ Writing, x \in Request : Goto(r, label) /\ Remember(r, x)
    <3>1. [Idle EXCEPT !.op = o, !.kind = kind, !.phase = "recover"] \in Request
      BY DEF Idle, Request
    <3> QED BY <2>0, <2>2, <3>1 DEF Claim
  <2> QED BY <2>1, <2>2
<1>4. pc' \in [Requests -> Labels] /\ req' \in [Requests -> Request]
  BY <1>3 DEF Goto, Remember
<1>5. TypeOK'
  BY <1>1, <1>2, <1>4
<1>6. ASSUME NEW s \in Requests PROVE Equipped(s)'
  <2>1. CASE s = r
    BY <1>3, <2>1 DEF Goto, Writing, Equipped
  <2>2. CASE s # r
    BY <1>2, <1>3, <2>2 DEF Goto, Remember, Equipped, SnapshotsStay
  <2> QED BY <2>1, <2>2
<1> QED BY <1>5, <1>6

\* The statements on the other tables.
LEMMA TableKeeps ==
  ASSUME TypeInv, NEW r \in Requests,
         \/ \E down \in SUBSET Plugins : InstallWrite(r, down)
         \/ \E p \in Plugins : DrainWrite(r, p)
         \/ Compile(r) \/ Approve(r) \/ Prepare(r) \/ Commit(r)
         \/ SyncWrite(r) \/ RestoreWrite(r) \/ CompensateWrite(r)
  PROVE  TypeInv'
<1> USE DEF TypeInv
<1>1. MovedOn(r)
  BY WorkMoves, ReleaseMoves, UndoMoves
<1>2. UNCHANGED op /\ UNCHANGED <<work, console, now, faults>>
  BY DEF InstallWrite, DrainWrite, Compile, Approve, Prepare, Commit, SyncWrite,
         RestoreWrite, CompensateWrite, Frame
<1>3. SnapshotsStay /\ faults' \in Nat
  BY <1>2 DEF SnapshotsStay, TypeOK
<1>4. req[r] \in Request
  BY DEF TypeOK
<1> SUFFICES TablesOK'
  BY <1>1, <1>2, <1>3, MovedOnKeeps
<1> USE <1>2 DEF TypeOK, TablesOK
<1>5. ASSUME NEW down \in SUBSET Plugins, InstallWrite(r, down) PROVE TablesOK'
  BY <1>5, InstallIsTyped DEF InstallWrite
<1>6. ASSUME NEW p \in Plugins, DrainWrite(r, p) PROVE TablesOK'
  BY <1>6, TransitionIsTyped DEF DrainWrite, States
<1>7. CASE Compile(r)
  BY <1>4, <1>7 DEF Compile, Request
<1>8. CASE Approve(r)
  BY <1>8 DEF Approve
<1>9. CASE Prepare(r)
  BY <1>9 DEF Prepare
<1>10. CASE Commit(r)
  <2>1. req[r].op \in Releases \cup {None}
    BY <1>4 DEF Request, Releases
  <2>2. plugin' \in [Plugins -> PluginRow]
    BY <1>10, <2>1, ApplyIsTyped DEF Commit
  <2>3. pointer' \in Pointer
    BY <1>10, <2>1 DEF Commit, Pointer
  <2> QED BY <1>10, <2>2, <2>3 DEF Commit
<1>11. CASE SyncWrite(r)
  BY <1>11 DEF SyncWrite, EnabledBy
<1>12. CASE RestoreWrite(r) \/ CompensateWrite(r)
  <2>1. req[r].op \in Ops /\ op[req[r].op].snap \in Snapshot
    BY <1>12 DEF RestoreWrite, CompensateWrite, Equipped
  <2>2. CASE RestoreWrite(r)
    BY <2>1, <2>2 DEF RestoreWrite, Snapshot
  <2>3. CASE CompensateWrite(r)
    <3>1. pointer' \in Pointer
      BY <2>1, <2>3 DEF CompensateWrite, Snapshot, Pointer, Releases
    <3> QED BY <2>1, <2>3, <3>1 DEF CompensateWrite, Snapshot
  <2> QED BY <1>12, <2>2, <2>3
<1> QED BY <1>5, <1>6, <1>7, <1>8, <1>9, <1>10, <1>11, <1>12

\* What happens beside the requests.
LEMMA EnvironmentKeeps ==
  ASSUME TypeInv,
         \/ \E p \in Plugins : EvidenceExpires(p) \/ WorkStart(p) \/ WorkEnd(p)
         \/ \E p \in Plugins, to \in States : ConsoleRead(p, to)
         \/ \E p \in Plugins : ConsoleWrite(p)
         \/ ConsoleSyncRead \/ ConsoleSyncWrite \/ Tick
         \/ UNCHANGED vars
  PROVE  TypeInv'
<1>1. UNCHANGED <<pc, req, op>>
  BY DEF EvidenceExpires, WorkStart, WorkEnd, ConsoleRead, ConsoleWrite, ConsoleSyncRead,
         ConsoleSyncWrite, Tick, tables, vars
<1>2. \A r \in Requests : Equipped(r)'
  BY <1>1 DEF TypeInv, Equipped
<1>3. TablesOK /\ work \in [Plugins -> BOOLEAN] /\ console \in Console
      /\ now \in Nat /\ faults \in Nat
  BY DEF TypeInv, TypeOK, TablesOK
<1> SUFFICES TablesOK' /\ work' \in [Plugins -> BOOLEAN] /\ console' \in Console
             /\ now' \in Nat /\ faults' \in Nat
  BY <1>1, <1>2 DEF TypeInv, TypeOK, TablesOK
<1> USE <1>3
<1>4. UNCHANGED tables => TablesOK'
  BY DEF tables, TablesOK
<1>5. ASSUME NEW p \in Plugins, EvidenceExpires(p)
      PROVE  TablesOK' /\ UNCHANGED <<work, console, now>> /\ faults' \in Nat
  <2>1. plugin[p] \in PluginRow
    BY DEF TablesOK
  <2>2. [plugin[p] EXCEPT !.health = "unavailable"] \in PluginRow
    BY <2>1 DEF PluginRow, Health
  <2>3. plugin' = [plugin EXCEPT ![p] = [plugin[p] EXCEPT !.health = "unavailable"]]
    BY <1>5 DEF EvidenceExpires
  <2>4. plugin' \in [Plugins -> PluginRow]
    BY <2>2, <2>3 DEF TablesOK
  <2>5. faults' \in Nat
    BY <1>5 DEF EvidenceExpires
  <2> QED BY <1>1, <1>5, <2>4, <2>5 DEF EvidenceExpires, TablesOK
<1>6. ASSUME NEW p \in Plugins, WorkStart(p) \/ WorkEnd(p)
      PROVE  UNCHANGED <<tables, console, now, faults>> /\ work' \in [Plugins -> BOOLEAN]
  BY <1>6 DEF WorkStart, WorkEnd
<1>7. ASSUME NEW p \in Plugins, NEW to \in States, ConsoleRead(p, to)
      PROVE  UNCHANGED <<tables, work, now, faults>> /\ console' \in Console
  <2>1. plugin[p].state \in States
    BY DEF TablesOK, PluginRow
  <2>2. console.left \in Nat /\ console.left > 0
    BY <1>7 DEF Console, ConsoleRead
  <2>3. console.left - 1 \in Nat
    BY <2>2
  <2>4. /\ console' = [console EXCEPT !.step = "write", !.left = console.left - 1,
                         !.plugin = p, !.from = plugin[p].state, !.to = to]
        /\ UNCHANGED <<tables, work, now, faults>>
    BY <1>7 DEF ConsoleRead
  <2> QED BY <2>1, <2>3, <2>4 DEF Console
<1>8. ASSUME NEW p \in Plugins, ConsoleWrite(p)
      PROVE  TablesOK' /\ UNCHANGED <<work, now, faults>> /\ console' \in Console
  <2>1. plugin' \in [Plugins -> PluginRow]
    BY <1>8, TransitionIsTyped DEF ConsoleWrite, Console, TablesOK
  <2> QED BY <1>1, <1>8, <2>1 DEF ConsoleWrite, Console, TablesOK
<1>9. CASE ConsoleSyncRead
  <2>1. console' \in Console
    BY <1>9 DEF ConsoleSyncRead, Console, InState
  <2> QED BY <1>4, <1>9, <2>1 DEF ConsoleSyncRead
<1>10. CASE ConsoleSyncWrite
  <2>1. console' \in Console
    BY <1>10 DEF ConsoleSyncWrite, Console, States
  <2>2. enabled' \in [Packages -> BOOLEAN]
    BY <1>10 DEF ConsoleSyncWrite, EnabledBy
  <2> QED BY <1>1, <1>10, <2>1, <2>2 DEF ConsoleSyncWrite, TablesOK
<1>11. CASE Tick
  BY <1>4, <1>11 DEF Tick
<1>12. CASE UNCHANGED vars
  BY <1>4, <1>12 DEF vars, tables
<1> QED BY <1>4, <1>5, <1>6, <1>7, <1>8, <1>9, <1>10, <1>11, <1>12

\* What a request does of its own, by the table that it writes.
LEMMA StepKeeps ==
  ASSUME TypeInv, NEW r \in Requests, Step(r) \/ StatementFails(r) \/ Crash(r)
  PROVE  TypeInv'
<1>1. ASSUME MovedOn(r), UNCHANGED tables, UNCHANGED <<work, console, now>>, faults' \in Nat
      PROVE  TypeInv'
  BY <1>1, MovedOnKeeps DEF tables, TypeInv, TypeOK, TablesOK, SnapshotsStay
<1>2. faults \in Nat
  BY DEF TypeInv, TypeOK
<1>3. CASE StatementFails(r) \/ Crash(r)
  <2>1. MovedOn(r)
    BY <1>3, UndoMoves DEF TypeInv
  <2>2. UNCHANGED tables /\ UNCHANGED <<work, console, now>> /\ faults' \in Nat
    BY <1>2, <1>3 DEF StatementFails, Crash
  <2> QED BY <1>1, <2>1, <2>2
<1>4. CASE \/ BeginRefused(r) \/ Classify(r) \/ Plan(r) \/ InstallRead(r) \/ Slice(r)
           \/ Rejected(r) \/ Drained(r) \/ Preflight(r) \/ CommitRefused(r)
           \/ Finalize(r) \/ Publish(r) \/ SyncRead(r) \/ CompensateAborted(r)
           \/ CompensateReload(r) \/ \E p \in Plugins : Drain(r, p) \/ Busy(r, p)
  <2>1. MovedOn(r)
    BY <1>4, WorkMoves, ReleaseMoves, UndoMoves DEF TypeInv
  <2>2. UNCHANGED tables /\ UNCHANGED <<work, console, now, faults>>
    BY <1>4 DEF BeginRefused, Classify, Plan, InstallRead, Slice, Rejected, Drained, Decide,
                Preflight, CommitRefused, Finalize, Publish, SyncRead, CompensateAborted,
                CompensateReload, Drain, Busy, Frame
  <2> QED BY <1>1, <1>2, <2>1, <2>2
<1>5. CASE SnapshotRead(r) \/ Refused(r) \/ Threw(r) \/ Recover(r) \/ CompensateRead(r)
  <2>1. Moved(r) /\ Equipped(r)' /\ UNCHANGED tables
    BY <1>5, ReadMoves DEF TypeInv
  <2>2. UNCHANGED <<work, console, now, faults>>
    BY <1>5 DEF SnapshotRead, Refused, Threw, Recover, CompensateRead, Frame
  <2>3. TablesOK' /\ SnapshotsStay
    BY <2>1 DEF tables, TypeInv, TypeOK, TablesOK, SnapshotsStay
  <2> QED BY <1>2, <2>1, <2>2, <2>3, RequestKeeps
<1>6. CASE \/ Renew(r, "renewInstall", "installRead") \/ Renew(r, "renewSlice", "slice")
           \/ Renew(r, "renewActivate", "preflight")
           \/ Renew(r, "renewCompensate", "compensateRead")
           \/ Complete(r) \/ MarkRecovery(r) \/ SnapshotWrite(r)
  <2>1. /\ {"renewInstall", "renewSlice", "renewActivate", "renewCompensate"} \subseteq Labels
        /\ {"installRead", "slice", "preflight", "compensateRead"} \subseteq Labels \ Writing
    BY DEF Labels, Writing
  <2> QED BY <1>6, <2>1, RowKeeps
<1>7. CASE \E o \in Ops, kind \in {"action", "page"} : Claim(r, o, kind)
  BY <1>7, OwnerKeeps
<1>8. CASE \/ \E down \in SUBSET Plugins : InstallWrite(r, down)
           \/ \E p \in Plugins : DrainWrite(r, p)
           \/ Compile(r) \/ Approve(r) \/ Prepare(r) \/ Commit(r)
           \/ SyncWrite(r) \/ RestoreWrite(r) \/ CompensateWrite(r)
  BY <1>8, TableKeeps
<1> QED BY <1>3, <1>4, <1>5, <1>6, <1>7, <1>8 DEF Step

\* The type invariant with what a writing request is equipped with: TypeOK alone
\* does not know that the snapshot written back is one.
LEMMA TypeInvariant == Spec => []TypeInv
<1>1. Init => TypeInv
  <2> SUFFICES ASSUME Init PROVE TypeInv
    OBVIOUS
  <2> USE ConstantsAssumption, BoundsAssumption
  <2>1. pc = [r \in Requests |-> "idle"] /\ req = [r \in Requests |-> Idle]
    BY DEF Init
  <2>2. /\ work \in [Plugins -> BOOLEAN] /\ now \in Nat /\ faults \in Nat
        /\ console \in Console
    BY DEF Init, Console, States
  <2>3. TablesOK
    BY DEF Init, TablesOK, PluginRow, States, Health, Releases, EnabledBy, Pointer, OpRow
  <2>4. TypeOK
    BY <2>1, <2>2, <2>3, IdleIsTyped DEF TypeOK, TablesOK, Labels
  <2>5. \A r \in Requests : Equipped(r)
    BY <2>1 DEF Equipped
  <2> QED BY <2>4, <2>5 DEF TypeInv
<1>2. TypeInv /\ [Next]_vars => TypeInv'
  BY EnvironmentKeeps, StepKeeps, OwnerKeeps DEF Next, Environment
<1> QED BY <1>1, <1>2, PTL DEF Spec

\* The tables and the memory of every request keep the shape the code gives
\* them; a restoring batch always has a snapshot to restore from.
THEOREM TypeCorrect == Spec => []TypeOK
<1>1. TypeInv => TypeOK
  BY DEF TypeInv
<1> QED BY <1>1, TypeInvariant, PTL
------------------------------------------------------------------------------
(* The rows of the operations.                                             *)

\* The statements of a request on the row of the operation it owns.
OwnRow(r) ==
  \/ \E from \in Labels, to \in Labels \ Writing : Renew(r, from, to)
  \/ Complete(r) \/ MarkRecovery(r) \/ SnapshotWrite(r)

\* A request writes superboard_managed_plugin_operations by the statements that
\* are named for it, and takes no time.
LEMMA StepWrites ==
  ASSUME NEW r \in Requests, Step(r) \/ StatementFails(r) \/ Crash(r)
  PROVE  /\ \/ UNCHANGED op
            \/ OwnRow(r)
            \/ \E o \in Ops, kind \in {"action", "page"} : Claim(r, o, kind)
         /\ UNCHANGED now
<1>1. /\ {"renewInstall", "renewSlice", "renewActivate", "renewCompensate"} \subseteq Labels
      /\ {"installRead", "slice", "preflight", "compensateRead"} \subseteq Labels \ Writing
  BY DEF Labels, Writing
<1>2. CASE \/ BeginRefused(r) \/ Classify(r) \/ SnapshotRead(r) \/ Plan(r)
           \/ InstallRead(r) \/ (\E down \in SUBSET Plugins : InstallWrite(r, down))
           \/ Slice(r) \/ Compile(r) \/ Approve(r) \/ Rejected(r)
           \/ \E p \in Plugins : Drain(r, p) \/ DrainWrite(r, p) \/ Busy(r, p)
  BY <1>2 DEF BeginRefused, Classify, SnapshotRead, Plan, InstallRead, InstallWrite, Slice,
              Compile, Approve, Rejected, Drain, DrainWrite, Busy, tables, Frame
<1>3. CASE \/ Drained(r) \/ Preflight(r) \/ Prepare(r) \/ Commit(r) \/ CommitRefused(r)
           \/ Finalize(r) \/ Publish(r) \/ SyncRead(r) \/ SyncWrite(r)
           \/ Refused(r) \/ Threw(r) \/ Recover(r) \/ RestoreWrite(r)
           \/ CompensateRead(r) \/ CompensateWrite(r) \/ CompensateAborted(r)
           \/ CompensateReload(r)
  BY <1>3 DEF Drained, Decide, Preflight, Prepare, Commit, CommitRefused, Finalize,
              Publish, SyncRead, SyncWrite, Refused, Threw, Recover, RestoreWrite,
              CompensateRead, CompensateWrite, CompensateAborted, CompensateReload, tables,
              Frame
<1>4. CASE \/ Renew(r, "renewInstall", "installRead") \/ Renew(r, "renewSlice", "slice")
           \/ Renew(r, "renewActivate", "preflight")
           \/ Renew(r, "renewCompensate", "compensateRead")
  <2>1. OwnRow(r)
    BY <1>1, <1>4 DEF OwnRow
  <2> QED BY <1>4, <2>1 DEF Renew, Frame
<1>5. CASE Complete(r) \/ MarkRecovery(r) \/ SnapshotWrite(r)
  BY <1>5 DEF OwnRow, Complete, MarkRecovery, SnapshotWrite, Frame
<1>6. ASSUME NEW o \in Ops, NEW kind \in {"action", "page"}, Claim(r, o, kind)
      PROVE  UNCHANGED now
  BY <1>6 DEF Claim, Frame
<1>7. CASE StatementFails(r) \/ Crash(r)
  BY <1>7 DEF StatementFails, Crash, tables
<1> QED BY <1>2, <1>3, <1>4, <1>5, <1>6, <1>7 DEF Step

\* Nothing beside the requests writes it.
LEMMA RowWriters ==
  ASSUME [Next]_vars
  PROVE  \/ UNCHANGED op
         \/ \E r \in Requests : OwnRow(r)
         \/ \E r \in Requests, o \in Ops, action \in {"enable", "disable"}, k \in Packages :
              Begin(r, o, action, k)
         \/ \E r \in Requests, o \in Ops, kind \in {"action", "page"} : Claim(r, o, kind)
<1>1. CASE \/ \E p \in Plugins : EvidenceExpires(p) \/ WorkStart(p) \/ WorkEnd(p)
           \/ \E p \in Plugins, to \in States : ConsoleRead(p, to)
           \/ \E p \in Plugins : ConsoleWrite(p)
           \/ ConsoleSyncRead \/ ConsoleSyncWrite \/ Tick \/ UNCHANGED vars
  BY <1>1 DEF EvidenceExpires, WorkStart, WorkEnd, ConsoleRead, ConsoleWrite,
              ConsoleSyncRead, ConsoleSyncWrite, Tick, tables, vars
<1> QED BY <1>1, StepWrites DEF Next, Environment

\* What a request writes on the row that it owns: the row was running, it keeps
\* its owner, and its lease is left alone or renewed.
LEMMA OwnRowWrites ==
  ASSUME TypeInv, NEW r \in Requests, OwnRow(r), NEW o \in Ops
  PROVE  \/ op'[o] = op[o]
         \/ /\ op[o].status = "running"
            /\ op'[o].status \in {"running", "succeeded", "failed"}
            /\ op'[o].owner = op[o].owner
            /\ op'[o].expires = op[o].expires \/ op'[o].expires > now
<1> DEFINE x == req[r].op
<1>1. op \in [Ops -> OpRow] /\ now \in Nat /\ op[o] \in OpRow
  BY DEF TypeInv, TypeOK
<1>2. UNCHANGED op \/ (x \in Ops /\ op[x].status = "running")
  BY DEF OwnRow, Renew, Complete, MarkRecovery, SnapshotWrite, Owns, Running
<1>3. CASE o # x
  BY <1>1, <1>3 DEF OwnRow, Renew, Complete, MarkRecovery, SnapshotWrite
<1>4. CASE UNCHANGED op
  BY <1>4
<1>5. CASE o = x /\ op[o].status = "running"
  <2>1. ASSUME NEW from \in Labels, NEW to \in Labels \ Writing, Renew(r, from, to)
        PROVE  op'[o] = op[o] \/ op'[o] = [op[o] EXCEPT !.expires = now + 1]
    BY <1>1, <1>5, <2>1 DEF Renew
  <2>2. CASE Complete(r)
    BY <1>1, <1>5, <2>2 DEF Complete, OpRow
  <2>3. CASE MarkRecovery(r)
    BY <1>1, <1>5, <2>3 DEF MarkRecovery, OpRow
  <2>4. CASE SnapshotWrite(r)
    <3>1. op'[o] = op[o] \/ op'[o] = [op[o] EXCEPT !.snap = req[r].snap]
      BY <1>1, <1>5, <2>4 DEF SnapshotWrite
    <3>2. CASE op'[o] = [op[o] EXCEPT !.snap = req[r].snap]
      BY <1>1, <1>5, <3>2 DEF OpRow
    <3> QED BY <3>1, <3>2
  <2>5. CASE op'[o] = [op[o] EXCEPT !.expires = now + 1]
    BY <1>1, <1>5, <2>5 DEF OpRow
  <2> QED BY <2>1, <2>2, <2>3, <2>4, <2>5 DEF OwnRow
<1> QED BY <1>2, <1>3, <1>4, <1>5

\* What an operation answered is never changed, by any number of requests and
\* whatever leases they outrun.
THEOREM OutcomesAreFinal == Spec => OutcomeIsFinal
<1>1. ASSUME TypeInv, [Next]_vars, NEW o \in Ops, op[o].status \in {"succeeded", "failed"}
      PROVE  op'[o] = op[o]
  <2>1. op \in [Ops -> OpRow]
    BY <1>1 DEF TypeInv, TypeOK
  <2>2. ASSUME NEW r \in Requests, OwnRow(r) PROVE op'[o] = op[o]
    <3>1. op'[o] = op[o] \/ op[o].status = "running"
      BY <1>1, <2>2, OwnRowWrites
    <3> QED BY <1>1, <3>1
  <2>3. ASSUME NEW r \in Requests, NEW x \in Ops, NEW action, NEW k, Begin(r, x, action, k)
        PROVE  op'[o] = op[o]
    BY <1>1, <2>1, <2>3 DEF Begin
  <2>4. ASSUME NEW r \in Requests, NEW x \in Ops, NEW kind, Claim(r, x, kind)
        PROVE  op'[o] = op[o]
    BY <1>1, <2>1, <2>4 DEF Claim, Running
  <2> QED BY <1>1, <2>2, <2>3, <2>4, RowWriters
<1>2. TypeInv /\ [Next]_vars =>
        [\A o \in Ops : op[o].status \in {"succeeded", "failed"} => op'[o] = op[o]]_vars
  BY <1>1
<1> QED BY <1>2, TypeInvariant, PTL DEF Spec, OutcomeIsFinal
------------------------------------------------------------------------------
(* One operation, one request for it.                                      *)

\* The owner of a running operation is the only request that acts for it, and
\* nobody does once its lease has run out.
OwnersOnly ==
  /\ \A x, y \in Running : x = y
  /\ \A r \in Requests : req[r].op # None =>
       req[r].op \in Ops /\ op[req[r].op].status # "absent"
  /\ \A r \in Requests : req[r].op \in Running => op[req[r].op].owner = r
  /\ \A o \in Running : op[o].expires <= now => \A r \in Requests : req[r].op # o

\* Steps that neither begin nor claim an operation, and take no time.
LEMMA OwnersStay ==
  ASSUME TypeInv, TypeInv', OwnersOnly, UNCHANGED now,
         \A r \in Requests : req'[r].op \in {req[r].op, None},
         \A o \in Ops :
           \/ op'[o] = op[o]
           \/ /\ op[o].status = "running"
              /\ op'[o].status \in {"running", "succeeded", "failed"}
              /\ op'[o].owner = op[o].owner
              /\ op'[o].expires = op[o].expires \/ op'[o].expires > now
  PROVE  OwnersOnly'
<1>1. \A o \in Ops : op[o] \in OpRow
  BY DEF TypeInv, TypeOK
<1>2. Running' \subseteq Running
  BY DEF Running
<1>3. \A r \in Requests : req'[r].op # None => req'[r].op = req[r].op
  OBVIOUS
<1>4. \A o \in Ops : op[o].status # "absent" => op'[o].status # "absent"
  OBVIOUS
<1>5. \A o \in Ops : op'[o].owner = op[o].owner
  OBVIOUS
<1>6. None \notin Ops
  BY ConstantsAssumption
<1>7. \A r \in Requests : req'[r].op \in Running' => op'[req'[r].op].owner = r
  BY <1>2, <1>3, <1>5, <1>6 DEF OwnersOnly, Running
<1>8. ASSUME NEW o \in Running', op'[o].expires <= now', NEW r \in Requests
      PROVE  req'[r].op # o
  <2>1. o \in Ops /\ o \in Running
    BY <1>2, <1>8 DEF Running
  <2>2. op'[o].expires = op[o].expires \/ op'[o].expires > now
    BY <2>1
  <2>3. op[o].expires \in Nat /\ op'[o].expires \in Nat /\ now \in Nat
    BY <2>1 DEF TypeInv, TypeOK, OpRow
  <2>4. op'[o].expires # op[o].expires => ~(op'[o].expires <= now)
    BY <2>2, <2>3
  <2>5. op[o].expires <= now
    BY <1>8, <2>4
  <2> QED BY <1>3, <1>6, <2>1, <2>5 DEF OwnersOnly
<1> QED BY <1>2, <1>3, <1>4, <1>7, <1>8 DEF OwnersOnly

\* A request that begins or claims the operation becomes its only owner.
LEMMA OwnersChange ==
  ASSUME TypeInv, OwnersOnly, NEW r \in Requests, NEW o \in Ops,
         \A x \in Running : x = o,
         \A s \in Requests : req[s].op # o,
         op' = [op EXCEPT ![o] = op'[o]],
         op'[o].status = "running", op'[o].owner = r, op'[o].expires = now + 1,
         UNCHANGED now, req'[r].op = o,
         \A s \in Requests \ {r} : req'[s] = req[s]
  PROVE  OwnersOnly'
<1>1. now \in Nat /\ op \in [Ops -> OpRow]
  BY DEF TypeInv, TypeOK
<1>2. \A x \in Ops \ {o} : op'[x] = op[x]
  BY <1>1
<1>3. Running' = {o}
  BY <1>2 DEF Running
<1>4. \A s \in Requests \ {r} : req'[s].op # o
  OBVIOUS
<1>5. o # None
  BY ConstantsAssumption
<1>6. \A s \in Requests : req'[s].op # None =>
        req'[s].op \in Ops /\ op'[req'[s].op].status # "absent"
  BY <1>2 DEF OwnersOnly
<1>7. ~(op'[o].expires <= now')
  BY <1>1
<1> QED BY <1>3, <1>4, <1>6, <1>7 DEF OwnersOnly

\* A request that begins or claims an operation does what OwnersChange asks for.
LEMMA OwnersChangeBy ==
  ASSUME TypeInv, OwnersOnly, NEW r \in Requests, NEW o \in Ops,
         \/ \E action \in {"enable", "disable"}, k \in Packages : Begin(r, o, action, k)
         \/ \E kind \in {"action", "page"} : Claim(r, o, kind)
  PROVE  OwnersOnly'
<1>1. op \in [Ops -> OpRow] /\ req \in [Requests -> Request]
  BY DEF TypeInv, TypeOK
<1>2. UNCHANGED now
  BY DEF Begin, Claim, Frame
<1>3. CASE \E action \in {"enable", "disable"}, k \in Packages : Begin(r, o, action, k)
  <2>1. PICK action \in {"enable", "disable"}, k \in Packages : Begin(r, o, action, k)
    BY <1>3
  <2> DEFINE row == [op[o] EXCEPT !.status = "running", !.owner = r, !.expires = now + 1]
             x == [Idle EXCEPT !.op = o, !.action = action, !.comps = Components[k]]
  <2>2. Running = {} /\ op[o].status = "absent"
    BY <2>1 DEF Begin
  <2>3. op' = [op EXCEPT ![o] = row] /\ req' = [req EXCEPT ![r] = x]
    BY <2>1 DEF Begin, Remember
  <2>4. row.status = "running" /\ row.owner = r /\ row.expires = now + 1
    BY <1>1 DEF OpRow
  <2>5. x.op = o
    BY DEF Idle
  <2>6. \A s \in Requests : req[s].op # o
    BY <2>2, ConstantsAssumption DEF OwnersOnly
  <2> HIDE DEF row, x
  <2>7. op'[o] = row /\ req'[r] = x /\ \A s \in Requests \ {r} : req'[s] = req[s]
    BY <1>1, <2>3
  <2>8. op' = [op EXCEPT ![o] = op'[o]]
    BY <2>3, <2>7
  <2> QED BY <1>2, <2>2, <2>4, <2>5, <2>6, <2>7, <2>8, OwnersChange
<1>4. CASE \E kind \in {"action", "page"} : Claim(r, o, kind)
  <2>1. PICK kind \in {"action", "page"} : Claim(r, o, kind)
    BY <1>4
  <2> DEFINE row == [op[o] EXCEPT !.owner = r, !.expires = now + 1]
             x == [Idle EXCEPT !.op = o, !.kind = kind, !.phase = "recover"]
  <2>2. o \in Running /\ op[o].status = "running" /\ op[o].expires <= now
    BY <2>1 DEF Claim, Running
  <2>3. op' = [op EXCEPT ![o] = row] /\ req' = [req EXCEPT ![r] = x]
    BY <2>1 DEF Claim, Remember
  <2>4. row.status = "running" /\ row.owner = r /\ row.expires = now + 1
    BY <1>1, <2>2 DEF OpRow
  <2>5. x.op = o
    BY DEF Idle
  <2>6. \A s \in Requests : req[s].op # o
    BY <2>2 DEF OwnersOnly
  <2>7. \A y \in Running : y = o
    BY <2>2 DEF OwnersOnly
  <2> HIDE DEF row, x
  <2>8. op'[o] = row /\ req'[r] = x /\ \A s \in Requests \ {r} : req'[s] = req[s]
    BY <1>1, <2>3
  <2>9. op' = [op EXCEPT ![o] = op'[o]]
    BY <2>3, <2>8
  <2> QED BY <1>2, <2>4, <2>5, <2>6, <2>7, <2>8, <2>9, OwnersChange
<1> QED BY <1>3, <1>4

\* A step of a request that does not claim leaves the requests where they were
\* or lets them go.
LEMMA RequestsStay ==
  ASSUME TypeInv, NEW r \in Requests, Step(r) \/ StatementFails(r) \/ Crash(r),
         ~\E o \in Ops, kind \in {"action", "page"} : Claim(r, o, kind)
  PROVE  Moved(r)
<1>1. MovedOn(r) => Moved(r)
  BY DEF MovedOn
<1>2. CASE SnapshotRead(r) \/ Refused(r) \/ Threw(r) \/ Recover(r) \/ CompensateRead(r)
  BY <1>2, ReadMoves DEF TypeInv
<1>3. CASE \/ Renew(r, "renewInstall", "installRead") \/ Renew(r, "renewSlice", "slice")
           \/ Renew(r, "renewActivate", "preflight")
           \/ Renew(r, "renewCompensate", "compensateRead")
  <2>1. {"installRead", "slice", "preflight", "compensateRead"} \subseteq Labels \ Writing
    BY DEF Labels, Writing
  <2> QED BY <1>1, <1>3, <2>1, RenewMoves DEF TypeInv
<1>4. CASE \/ Classify(r) \/ SnapshotWrite(r) \/ Plan(r) \/ InstallRead(r)
           \/ Slice(r) \/ Compile(r) \/ Approve(r) \/ Rejected(r)
  BY <1>1, <1>4, WorkMoves DEF TypeInv
<1>5. CASE \/ \E down \in SUBSET Plugins : InstallWrite(r, down)
           \/ \E p \in Plugins : Drain(r, p) \/ DrainWrite(r, p) \/ Busy(r, p)
           \/ Drained(r) \/ Preflight(r) \/ Prepare(r) \/ Commit(r) \/ CommitRefused(r)
           \/ Finalize(r) \/ Publish(r) \/ SyncRead(r) \/ SyncWrite(r)
  BY <1>1, <1>5, ReleaseMoves DEF TypeInv
<1>6. CASE \/ BeginRefused(r) \/ Complete(r) \/ MarkRecovery(r) \/ RestoreWrite(r)
           \/ CompensateWrite(r) \/ CompensateAborted(r) \/ CompensateReload(r)
           \/ StatementFails(r) \/ Crash(r)
  BY <1>1, <1>6, UndoMoves DEF TypeInv
<1> QED BY <1>2, <1>3, <1>4, <1>5, <1>6 DEF Step

\* Time passes for a running operation only when its owner has gone away, if no
\* live request outruns its lease.
LEMMA TimeKeepsOwners ==
  ASSUME TypeInv, OwnersOnly, ~Overrun, Tick
  PROVE  OwnersOnly'
<1>1. UNCHANGED <<op, req>>
  BY DEF Tick, tables
<1>2. \A o \in Running : ~Attended(o)
  BY DEF Tick
<1>3. \A o \in Running, r \in Requests : req[r].op # o
  BY <1>2 DEF OwnersOnly, Attended
<1>4. Running' = Running
  BY <1>1 DEF Running
<1> QED BY <1>1, <1>3, <1>4 DEF OwnersOnly

\* The owner of the running operation is the only one that acts for it.
LEMMA OwnersInvariant ==
  ASSUME ~Overrun
  PROVE  Spec => []OwnersOnly
<1>1. Init => OwnersOnly
  BY DEF Init, OwnersOnly, Running, Idle
<1>2. ASSUME TypeInv, TypeInv', OwnersOnly, [Next]_vars PROVE OwnersOnly'
  <2>1. ASSUME NEW r \in Requests, NEW o \in Ops,
               \/ \E action \in {"enable", "disable"}, k \in Packages : Begin(r, o, action, k)
               \/ \E kind \in {"action", "page"} : Claim(r, o, kind)
        PROVE  OwnersOnly'
    BY <1>2, <2>1, OwnersChangeBy
  <2>2. CASE Tick
    BY <1>2, <2>2, TimeKeepsOwners
  <2>3. ASSUME NEW r \in Requests, Step(r) \/ StatementFails(r) \/ Crash(r),
               ~\E o \in Ops, kind \in {"action", "page"} : Claim(r, o, kind)
        PROVE  OwnersOnly'
    <3>1. \A s \in Requests : req'[s].op \in {req[s].op, None}
      BY <1>2, <2>3, RequestsStay DEF Moved
    <3>2. UNCHANGED now /\ (UNCHANGED op \/ OwnRow(r))
      BY <2>3, StepWrites
    <3> QED BY <1>2, <3>1, <3>2, OwnRowWrites, OwnersStay
  <2>4. CASE \/ UNCHANGED vars
             \/ \E p \in Plugins : EvidenceExpires(p) \/ WorkStart(p) \/ WorkEnd(p)
             \/ \E p \in Plugins, to \in States : ConsoleRead(p, to)
             \/ \E p \in Plugins : ConsoleWrite(p)
             \/ ConsoleSyncRead \/ ConsoleSyncWrite
    <3>1. UNCHANGED <<op, req, now>>
      BY <2>4 DEF EvidenceExpires, WorkStart, WorkEnd, ConsoleRead, ConsoleWrite,
                  ConsoleSyncRead, ConsoleSyncWrite, tables, vars
    <3> QED BY <1>2, <3>1, OwnersStay
  <2> QED BY <1>2, <2>1, <2>2, <2>3, <2>4 DEF Next, Environment
<1> QED BY <1>1, <1>2, TypeInvariant, PTL DEF Spec

\* One operation runs at a time, and one request acts for it, when no live
\* request outruns its lease: the unique index and the owner token see to it.
THEOREM OneOperationAtATime ==
  ASSUME ~Overrun
  PROVE  Spec => []OneOperation
<1>1. TypeInv /\ OwnersOnly => OneOperation
  BY DEF OwnersOnly, OneOperation, Holding
<1> QED BY <1>1, TypeInvariant, OwnersInvariant, PTL
=============================================================================
