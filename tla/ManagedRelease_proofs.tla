------------------------- MODULE ManagedRelease_proofs -------------------------
(***************************************************************************)
(* Proofs about what the managed operations of ManagedPlugin publish and   *)
(* undo, for any number of components, packages, operations and requests.  *)
(* They hold while no live request outruns its lease and nobody changes    *)
(* the lifecycle by hand.                                                  *)
(***************************************************************************)
EXTENDS ManagedPlugin_proofs

------------------------------------------------------------------------------
(* The inductive invariant.                                                *)

\* Nothing is on its way out.
Quiet(rows) == \A p \in Plugins : rows[p].state # "draining"

\* The package flags follow the rows.
Follow == enabled = EnabledBy(InState(plugin, {"active"}))

\* Release o is active, or a row says it was its last.
Names(rows, ptr, o) == ptr.active = o \/ \E p \in Plugins : rows[p].release = o

\* Rows and a pointer that fit: the active release's components run, and those
\* that are active are registered.
Coherent(rows, ptr) ==
  /\ \A p \in Plugins : rows[p].manifest = (rows[p].state = "active")
  /\ InState(rows, {"active", "draining"}) =
       IF ptr.active = None THEN {} ELSE lock[ptr.active]

\* A release that was published and stays so.
Lasting(o) == candidate[o] = "activated" /\ o \notin compensated /\ Stored(o)

\* A snapshot that can be restored.
Sound(snap) ==
  /\ Coherent(snap.plugin, snap.pointer)
  /\ Quiet(snap.plugin)
  /\ \A x \in Ops : Names(snap.plugin, snap.pointer, x) =>
       Lasting(x) /\ op[x].status = "succeeded"

\* Operation o left nothing behind.
Undone(o) ==
  /\ ~Names(plugin, pointer, o)
  /\ Stored(o) => /\ StatesOf(plugin) = StatesOf(op[o].snap.plugin)
                  /\ pointer.active = op[o].snap.pointer.active

\* A running operation: its snapshot is sound, and the pointer is where the
\* operation found it or where it put it.
OpHolds(o) ==
  /\ ~Stored(o) => Quiet(plugin)
  /\ Stored(o) => /\ Sound(op[o].snap)
                  /\ pointer.active \in {o, op[o].snap.pointer.active}
  /\ o \in compensated => Stored(o) /\ Undone(o)
  /\ pointer.active = o => Quiet(plugin)

World ==
  /\ Coherent(plugin, pointer)
  /\ \A o \in Ops : Names(plugin, pointer, o) =>
       Lasting(o) /\ op[o].status \in {"running", "succeeded"}
  /\ \A o \in Ops : op[o].status = "succeeded" /\ Stored(o) => Lasting(o)
  /\ \A o \in Ops : op[o].status = "absent" => ~Stored(o) /\ o \notin compensated
  /\ Running = {} => Quiet(plugin) /\ Follow
  /\ \A o \in Running : OpHolds(o)
  /\ console.step = "idle" /\ console.left = 0

\* The steps before the snapshot, up to the drain, and up to the activation.
Starting == {"classify", "snapshotRead", "snapshotWrite"}
Preparing == {"plan", "renewInstall", "installRead", "installWrite", "renewSlice",
              "slice", "compile", "approve"}
Activating == {"drain", "drainWrite", "busy", "renewActivate", "preflight",
               "prepare", "commit"}

\* Request r is about to end its operation with this answer.
Ending(r) == pc[r] = "complete" \/ (pc[r] \in {"sync", "syncWrite"} /\ req[r].after = "complete")
Published(r) == \/ pc[r] \in {"finalize", "publish"}
                \/ pc[r] \in {"sync", "syncWrite"} /\ req[r].after = "publish"

\* What holds at the steps of request r, which works on operation o.
At(r, o) ==
  /\ pc[r] \in Starting => ~Stored(o)
  /\ pc[r] = "classify" => Follow
  /\ pc[r] = "snapshotWrite" => /\ Sound(req[r].snap)
                                /\ req[r].snap.pointer.active = pointer.active
  /\ pc[r] \in Preparing \cup Activating =>
       Stored(o) /\ o \notin compensated /\ pointer.active # o
  /\ pc[r] \in Preparing => Quiet(plugin)
  /\ pc[r] \in Activating => \A p \in Plugins :
       plugin[p].state = "draining" /\ work[p] => pc[r] = "busy" /\ req[r].seen = {p}
  /\ pc[r] \in {"drainWrite", "busy"} => \E p \in Plugins : req[r].seen = {p}
  /\ Published(r) => pointer.active = o /\ Quiet(plugin)
  /\ Ending(r) => IF req[r].ok
                  THEN Quiet(plugin) /\ (Stored(o) => pointer.active = o)
                  ELSE Undone(o)
  /\ pc[r] = "syncWrite" => req[r].seen = InState(plugin, {"active"})
  /\ pc[r] = "complete" => Follow
  /\ pc[r] = "restoreWrite" => Stored(o) /\ pointer.active # o
  /\ pc[r] = "compensateWrite" => pointer.active = o /\ pointer.revision = req[r].rev
  /\ pc[r] = "compensateReload" => o \in compensated

Acting ==
  \A r \in Requests : IF pc[r] \in {"idle", "begin"} THEN req[r].op = None
                      ELSE req[r].op \in Running /\ At(r, req[r].op)

\* The rows and operations look the same to all of this.
Alike ==
  /\ \A p \in Plugins : /\ plugin'[p].state = plugin[p].state
                        /\ plugin'[p].manifest = plugin[p].manifest
                        /\ plugin'[p].release = plugin[p].release
  /\ \A o \in Ops : op'[o].status = op[o].status /\ op'[o].snap = op[o].snap
  /\ UNCHANGED <<enabled, pointer, candidate, lock, compensated, console>>
------------------------------------------------------------------------------
(* What Alike states have in common.                                       *)

\* The operations that run and those with a snapshot.
LEMMA AlikeOps ==
  ASSUME Alike
  PROVE  /\ Running' = Running
         /\ \A o \in Ops : Stored(o)' <=> Stored(o)
         /\ \A o \in Ops : Lasting(o)' <=> Lasting(o)
BY DEF Alike, Running, Stored, Lasting

\* The components in a state, and the releases that are named.
LEMMA AlikeRows ==
  ASSUME Alike
  PROVE  /\ \A S : InState(plugin, S)' = InState(plugin, S)
         /\ Quiet(plugin)' <=> Quiet(plugin)
         /\ Follow' <=> Follow
         /\ \A o \in Ops : Names(plugin, pointer, o)' <=> Names(plugin, pointer, o)
         /\ Coherent(plugin, pointer)' <=> Coherent(plugin, pointer)
         /\ StatesOf(plugin)' = StatesOf(plugin)
<1>1. \A S : InState(plugin, S)' = InState(plugin, S)
  BY DEF Alike, InState
<1>2. Quiet(plugin)' <=> Quiet(plugin)
  BY DEF Alike, Quiet
<1>3. Follow' <=> Follow
  <2>1. InState(plugin, {"active"})' = InState(plugin, {"active"})
    BY <1>1
  <2> QED BY <2>1 DEF Alike, Follow
<1>4. \A o \in Ops : Names(plugin, pointer, o)' <=> Names(plugin, pointer, o)
  BY DEF Alike, Names
<1>5. Coherent(plugin, pointer)' <=> Coherent(plugin, pointer)
  <2>1. InState(plugin, {"active", "draining"})' = InState(plugin, {"active", "draining"})
    BY <1>1
  <2> QED BY <2>1 DEF Alike, Coherent
<1>6. StatesOf(plugin)' = StatesOf(plugin)
  BY DEF Alike, StatesOf
<1> QED BY <1>1, <1>2, <1>3, <1>4, <1>5, <1>6

\* What was undone, and the snapshots that are sound.
LEMMA AlikeUndone ==
  ASSUME Alike, NEW o \in Ops
  PROVE  Undone(o)' <=> Undone(o)
BY AlikeOps, AlikeRows DEF Alike, Undone

LEMMA AlikeSound ==
  ASSUME Alike, NEW snap
  PROVE  Sound(snap)' <=> Sound(snap)
<1>1. Coherent(snap.plugin, snap.pointer)' <=> Coherent(snap.plugin, snap.pointer)
  BY DEF Alike, Coherent
<1>2. \A x \in Ops : (Lasting(x)' <=> Lasting(x)) /\ op'[x].status = op[x].status
  BY AlikeOps DEF Alike
<1> QED BY <1>1, <1>2 DEF Sound, Quiet, Names

\* The invariant of the tables, from one to the other.
LEMMA AlikeWorld ==
  ASSUME World, Alike
  PROVE  World'
<1>1. \A o \in Running' : OpHolds(o)'
  <2> SUFFICES ASSUME NEW o \in Running PROVE OpHolds(o)'
    BY AlikeOps
  <2>1. OpHolds(o) /\ o \in Ops
    BY DEF World, Running
  <2>2. Stored(o) => (Sound(op[o].snap)' <=> Sound(op[o].snap))
    <3>1. op'[o].snap = op[o].snap
      BY <2>1 DEF Alike
    <3>2. PICK snap : snap = op[o].snap
      OBVIOUS
    <3>3. Sound(snap)' <=> Sound(snap)
      BY AlikeSound
    <3> QED BY <3>1, <3>2, <3>3
  <2> QED BY <2>1, <2>2, AlikeOps, AlikeRows, AlikeUndone DEF OpHolds, Alike
<1>2. \A o \in Ops : op'[o].status = op[o].status
  BY DEF Alike
<1> QED BY <1>1, <1>2, AlikeOps, AlikeRows DEF World, Alike
------------------------------------------------------------------------------
(* The one request that acts.                                              *)

\* What holds before a step.
Hold == TypeInv /\ OwnersOnly /\ World /\ Acting

Away == {"idle", "begin"}

\* A request at work has the running operation for itself.
LEMMA AtWork ==
  ASSUME Hold, NEW r \in Requests, pc[r] \notin Away
  PROVE  \E o \in Ops :
           /\ o = req[r].op /\ At(r, o)
           /\ Running = {o} /\ Owns(r) /\ OpHolds(o)
           /\ \A s \in Requests \ {r} : pc[s] \in Away /\ req[s].op = None
<1>1. req[r].op \in Running /\ At(r, req[r].op)
  BY DEF Hold, Acting, Away
<1>2. Running = {req[r].op} /\ op[req[r].op].owner = r
  BY <1>1 DEF Hold, OwnersOnly
<1>3. ASSUME NEW s \in Requests \ {r} PROVE pc[s] \in Away /\ req[s].op = None
  BY <1>2 DEF Hold, Acting, Away, OwnersOnly
<1> QED BY <1>1, <1>2, <1>3 DEF Hold, World, Owns, Running

\* The others stay away, so that only what the request itself relies on is left
\* to show.
LEMMA ActingNext ==
  ASSUME Hold, NEW r \in Requests, pc[r] \notin Away,
         \A s \in Requests \ {r} : pc'[s] = pc[s] /\ req'[s] = req[s],
         \/ pc'[r] \in Away /\ req'[r].op = None
         \/ \E o \in Running' : pc'[r] \notin Away /\ req'[r].op = o /\ At(r, o)'
  PROVE  Acting'
<1>1. \A s \in Requests \ {r} : pc'[s] \in Away /\ req'[s].op = None
  BY AtWork
<1>2. CASE pc'[r] \in Away /\ req'[r].op = None
  BY <1>1, <1>2 DEF Acting, Away
<1>3. ASSUME NEW o \in Running', pc'[r] \notin Away, req'[r].op = o, At(r, o)'
      PROVE  Acting'
  <2>1. req'[r].op \in Running' /\ At(r, req[r].op)'
    BY <1>3
  <2> QED BY <1>1, <1>3, <2>1 DEF Acting, Away
<1> QED BY <1>2, <1>3

\* Where a request goes and what it remembers.
LEMMA GoesTo ==
  ASSUME TypeOK, NEW r \in Requests, NEW label, NEW x, Goto(r, label),
         Remember(r, x) \/ (UNCHANGED req /\ x = req[r])
  PROVE  /\ pc'[r] = label /\ req'[r] = x
         /\ \A s \in Requests \ {r} : pc'[s] = pc[s] /\ req'[s] = req[s]
BY DEF TypeOK, Goto, Remember

\* Steps that nothing is relied on at.
Open == {"refused", "threw", "recover", "renewCompensate", "compensateRead", "markRecovery"}

LEMMA OpenAt ==
  ASSUME NEW r \in Requests, NEW o \in Ops, pc'[r] \in Open
  PROVE  At(r, o)'
BY DEF Open, At, Starting, Preparing, Activating, Published, Ending

\* A request that is refused, throws or answers, whatever it wrote before, as
\* long as its operation still runs.
LEMMA GivesUp ==
  ASSUME Hold, NEW r \in Requests, pc[r] \notin Away, Running' = Running,
         Refuse(r) \/ Throw(r) \/ Answer(r)
  PROVE  Acting'
<1> USE DEF Hold, TypeInv
<1>1. PICK o \in Ops : o = req[r].op /\ Running = {o}
  BY AtWork
<1>2. ASSUME NEW label \in Open, NEW x, x.op = o, Goto(r, label),
             Remember(r, x) \/ (UNCHANGED req /\ x = req[r])
      PROVE  Acting'
  <2>1. /\ pc'[r] = label /\ req'[r] = x
        /\ \A s \in Requests \ {r} : pc'[s] = pc[s] /\ req'[s] = req[s]
    BY <1>2, GoesTo
  <2>2. At(r, o)'
    BY <1>2, <2>1, OpenAt
  <2>3. pc'[r] \notin Away
    BY <2>1 DEF Open, Away
  <2> QED BY <1>1, <1>2, <2>1, <2>2, <2>3, ActingNext
<1>3. CASE Answer(r)
  <2>1. /\ pc'[r] = "idle" /\ req'[r] = Idle
        /\ \A s \in Requests \ {r} : pc'[s] = pc[s] /\ req'[s] = req[s]
    BY <1>3, GoesTo DEF Answer
  <2> QED BY <2>1, ActingNext DEF Away, Idle
<1>4. CASE Refuse(r)
  <2>1. Bare(r).op = o /\ "refused" \in Open
    BY <1>1, BareIsTyped DEF Open
  <2> QED BY <1>2, <1>4, <2>1 DEF Refuse
<1>5. CASE Throw(r)
  <2>1. Thrown(r) \in {"threw", "markRecovery", "idle"}
    BY DEF Thrown
  <2>2. CASE Thrown(r) # "idle"
    BY <1>1, <1>2, <1>5, <2>1, <2>2 DEF Throw, Open
  <2> QED BY <1>3, <1>5, <2>2 DEF Throw
<1> QED BY <1>3, <1>4, <1>5

\* A request that goes on for the same operation.
LEMMA GoesOn ==
  ASSUME Hold, NEW r \in Requests, pc[r] \notin Away, Running' = Running,
         NEW label, label \notin Away, NEW x, x.op = req[r].op, Goto(r, label),
         Remember(r, x) \/ (UNCHANGED req /\ x = req[r]),
         NEW o \in Ops, o = req[r].op, pc'[r] = label /\ req'[r] = x => At(r, o)'
  PROVE  Acting'
<1>1. /\ pc'[r] = label /\ req'[r] = x
      /\ \A s \in Requests \ {r} : pc'[s] = pc[s] /\ req'[s] = req[s]
  BY GoesTo DEF Hold, TypeInv
<1>2. o \in Running'
  BY AtWork
<1> QED BY <1>1, <1>2, ActingNext
------------------------------------------------------------------------------
(* Steps of a request that write no table.                                 *)

Silent == UNCHANGED <<tables, work, console>>

LEMMA SilentAlike ==
  ASSUME Silent
  PROVE  Alike /\ UNCHANGED <<plugin, op, work>>
BY DEF Silent, tables, Alike

\* What a silent step leaves as it is.
LEMMA SilentKeeps ==
  ASSUME Hold, Silent
  PROVE  /\ World' /\ Running' = Running
         /\ \A o \in Ops : (Stored(o)' <=> Stored(o)) /\ (Undone(o)' <=> Undone(o))
         /\ Quiet(plugin)' <=> Quiet(plugin)
         /\ Follow' <=> Follow
         /\ \A S : InState(plugin, S)' = InState(plugin, S)
         /\ UNCHANGED <<pointer, compensated, plugin, work>>
BY SilentAlike, AlikeWorld, AlikeOps, AlikeRows, AlikeUndone DEF Hold, Alike

\* What a synchronisation starts with.
LEMMA Synchronizes ==
  ASSUME Hold, NEW r \in Requests, pc[r] \notin Away, Running' = Running,
         NEW after \in {"publish", "complete"}, NEW ok \in BOOLEAN,
         Synchronize(r, after, ok), NEW o \in Ops, o = req[r].op,
         after = "publish" => (pointer.active = o /\ Quiet(plugin))',
         after = "complete" => (IF ok THEN Quiet(plugin) /\ (Stored(o) => pointer.active = o)
                                ELSE Undone(o))'
  PROVE  Acting'
<1>1. Bare(r) \in Request /\ Bare(r).op = o
  BY BareIsTyped DEF Hold, TypeInv
<1>2. PICK x : x = [Bare(r) EXCEPT !.after = after, !.ok = ok]
  OBVIOUS
<1>3. x.op = o /\ x.after = after /\ x.ok = ok
  BY <1>1, <1>2 DEF Request
<1>4. Goto(r, "sync") /\ Remember(r, x)
  BY <1>2 DEF Synchronize
<1>5. ASSUME pc'[r] = "sync", req'[r] = x PROVE At(r, o)'
  BY <1>3, <1>5 DEF At, Starting, Preparing, Activating, Published, Ending
<1> QED BY <1>3, <1>4, <1>5, GoesOn DEF Away

\* Up to the draft of the release.
LEMMA PreparesSilently ==
  ASSUME Hold, NEW r \in Requests,
         \/ Classify(r) \/ SnapshotRead(r) \/ Plan(r) \/ InstallRead(r) \/ Slice(r)
         \/ Rejected(r)
  PROVE  World' /\ Acting'
<1> DEFINE q == req[r]
<1>1. pc[r] \notin Away
  BY DEF Classify, SnapshotRead, Plan, InstallRead, Slice, Rejected, Away
<1>2. PICK o \in Ops : o = req[r].op /\ At(r, o) /\ OpHolds(o) /\ Running = {o}
  BY <1>1, AtWork
<1>3. Silent
  BY DEF Classify, SnapshotRead, Plan, InstallRead, Slice, Rejected, Silent, Frame
<1>4. World' /\ Running' = Running
  BY <1>3, SilentKeeps
<1>5. q \in Request
  BY DEF Hold, TypeInv, TypeOK
<1>6. Refuse(r) => Acting'
  BY <1>1, <1>4, GivesUp
<1>7. ASSUME NEW label, label \notin Away, NEW x, x.op = o, Goto(r, label), Remember(r, x),
             pc'[r] = label /\ req'[r] = x => At(r, o)'
      PROVE  Acting'
  BY <1>1, <1>2, <1>4, <1>7, GoesOn
<1>8. ~Stored(o) => Quiet(plugin) /\ Undone(o)
  BY <1>2 DEF OpHolds, Undone, Hold, World, Lasting
<1>9. CASE Classify(r)
  <2>1. ~Stored(o) /\ Follow /\ pc[r] = "classify"
    BY <1>2, <1>9 DEF At, Starting, Classify
  <2>2. Quiet(plugin)' /\ Undone(o)' /\ Follow' /\ ~Stored(o)'
    BY <1>3, <1>8, <2>1, SilentKeeps
  <2>3. CASE Synchronize(r, "complete", TRUE)
    BY <1>1, <1>2, <1>4, <2>2, <2>3, Synchronizes
  <2>4. CASE Goto(r, "complete") /\ Remember(r, Bare(r))
    <3>1. PICK x : x = Bare(r)
      OBVIOUS
    <3>2. x.op = o /\ x.ok = FALSE
      BY <1>2, <3>1, BareIsTyped DEF Bare, Idle, Hold, TypeInv
    <3>3. pc'[r] = "complete" /\ req'[r] = x => At(r, o)'
      BY <2>2, <3>2 DEF At, Starting, Preparing, Activating, Published, Ending
    <3> QED BY <1>4, <1>7, <2>4, <3>1, <3>2, <3>3 DEF Away
  <2>5. ASSUME NEW S, Goto(r, "snapshotRead"), Remember(r, [q EXCEPT !.comps = S])
        PROVE  Acting'
    <3>1. [q EXCEPT !.comps = S].op = o
      BY <1>2, <1>5 DEF Request
    <3>2. pc'[r] = "snapshotRead" => At(r, o)'
      BY <2>2 DEF At, Starting, Preparing, Activating, Published, Ending
    <3> QED BY <1>7, <2>5, <3>1, <3>2 DEF Away
  <2> QED BY <1>4, <1>9, <2>3, <2>4, <2>5 DEF Classify
<1>10. CASE SnapshotRead(r)
  <2>1. PICK snap : snap = [plugin |-> plugin, enabled |-> enabled, pointer |-> pointer]
    OBVIOUS
  <2>2. ~Stored(o) /\ Quiet(plugin)
    BY <1>2, <1>8, <1>10 DEF At, Starting, SnapshotRead
  <2>3. Sound(snap)
    <3>1. Coherent(snap.plugin, snap.pointer) /\ Quiet(snap.plugin)
      BY <2>1, <2>2 DEF Hold, World
    <3>2. ASSUME NEW x \in Ops, Names(snap.plugin, snap.pointer, x)
          PROVE  Lasting(x) /\ op[x].status = "succeeded"
      <4>1. Lasting(x) /\ op[x].status \in {"running", "succeeded"}
        BY <2>1, <3>2 DEF Hold, World
      <4>2. x # o
        BY <2>2, <4>1 DEF Lasting
      <4> QED BY <1>2, <4>1, <4>2 DEF Running
    <3> QED BY <3>1, <3>2 DEF Sound
  <2>4. Sound(snap)' /\ snap.pointer.active = pointer'.active /\ ~Stored(o)'
    BY <1>3, <2>1, <2>2, <2>3, SilentAlike, SilentKeeps, AlikeSound
  <2>5. PICK x : x = [q EXCEPT !.snap = snap]
    OBVIOUS
  <2>6. x.op = o /\ x.snap = snap
    BY <1>2, <1>5, <2>5 DEF Request
  <2>7. pc'[r] = "snapshotWrite" /\ req'[r] = x => At(r, o)'
    BY <2>4, <2>6 DEF At, Starting, Preparing, Activating, Published, Ending
  <2>8. Goto(r, "snapshotWrite") /\ Remember(r, x)
    BY <1>10, <2>1, <2>5 DEF SnapshotRead
  <2> QED BY <1>4, <1>7, <2>6, <2>7, <2>8 DEF Away
<1>11. ASSUME pc[r] \in Preparing, NEW label \in Preparing, NEW x, x.op = o,
              Goto(r, label), Remember(r, x)
       PROVE  Acting'
  <2>1. Stored(o) /\ o \notin compensated /\ pointer.active # o /\ Quiet(plugin)
    BY <1>2, <1>11 DEF At
  <2>2. (Stored(o) /\ o \notin compensated /\ pointer.active # o /\ Quiet(plugin))'
    BY <1>3, <2>1, SilentKeeps
  <2>3. pc'[r] = label => At(r, o)'
    BY <1>11, <2>2 DEF At, Starting, Preparing, Activating, Published, Ending
  <2>4. label \notin Away
    BY <1>11 DEF Preparing, Away
  <2> QED BY <1>7, <1>11, <2>3, <2>4
<1>12. CASE Plan(r)
  <2>1. PICK S : Remember(r, [q EXCEPT !.todo = S])
    BY <1>12 DEF Plan
  <2>2. [q EXCEPT !.todo = S].op = o
    BY <1>2, <1>5 DEF Request
  <2>3. pc[r] \in Preparing /\ {"renewSlice", "renewInstall"} \subseteq Preparing
    BY <1>12 DEF Plan, Preparing
  <2>4. Goto(r, "renewSlice") \/ Goto(r, "renewInstall")
    BY <1>12 DEF Plan
  <2> QED BY <1>4, <1>11, <2>1, <2>2, <2>3, <2>4
<1>13. CASE InstallRead(r)
  <2>1. pc[r] \in Preparing /\ "installWrite" \in Preparing
    BY <1>13 DEF InstallRead, Preparing
  <2>2. ASSUME NEW S, Goto(r, "installWrite"), Remember(r, [q EXCEPT !.seen = S])
        PROVE  Acting'
    <3>1. [q EXCEPT !.seen = S].op = o
      BY <1>2, <1>5 DEF Request
    <3> QED BY <1>11, <2>1, <2>2, <3>1
  <2> QED BY <1>4, <1>6, <1>13, <2>2 DEF InstallRead
<1>14. CASE Slice(r)
  <2>1. pc[r] \in Preparing /\ "compile" \in Preparing
    BY <1>14 DEF Slice, Preparing
  <2>2. ASSUME NEW S, Goto(r, "compile"),
               Remember(r, [q EXCEPT !.prev = pointer.active, !.lock = S])
        PROVE  Acting'
    <3>1. [q EXCEPT !.prev = pointer.active, !.lock = S].op = o
      BY <1>2, <1>5 DEF Request
    <3> QED BY <1>11, <2>1, <2>2, <3>1
  <2> QED BY <1>4, <1>6, <1>14, <2>2 DEF Slice
<1>15. CASE Rejected(r)
  BY <1>4, <1>6, <1>15 DEF Rejected
<1> QED BY <1>9, <1>10, <1>12, <1>13, <1>14, <1>15

\* From the draft of the release to its activation.
LEMMA ActivatesSilently ==
  ASSUME Hold, NEW r \in Requests, NEW o \in Ops, o = req[r].op, Silent,
         pc[r] \in Activating, NEW label \in Activating, NEW x, x.op = o,
         Goto(r, label), Remember(r, x) \/ (UNCHANGED req /\ x = req[r]),
         \A p \in Plugins : ~(plugin[p].state = "draining" /\ work[p]),
         label \in {"drainWrite", "busy"} => \E p \in Plugins : x.seen = {p}
  PROVE  World' /\ Acting'
<1>1. pc[r] \notin Away /\ label \notin Away
  BY DEF Activating, Away
<1>2. Stored(o) /\ o \notin compensated /\ pointer.active # o
  BY <1>1, AtWork DEF At
<1>3. (Stored(o) /\ o \notin compensated /\ pointer.active # o)'
  BY <1>2, SilentKeeps
<1>4. \A p \in Plugins : ~(plugin'[p].state = "draining" /\ work'[p])
  BY SilentKeeps
<1>5. ASSUME pc'[r] = label, req'[r] = x PROVE At(r, o)'
  BY <1>3, <1>4, <1>5 DEF At, Starting, Preparing, Activating, Published, Ending
<1>6. World' /\ Running' = Running
  BY SilentKeeps
<1> QED BY <1>1, <1>5, <1>6, GoesOn

LEMMA DrainsSilently ==
  ASSUME Hold, NEW r \in Requests,
         \/ \E p \in Plugins : Drain(r, p) \/ Busy(r, p)
         \/ Drained(r) \/ Preflight(r) \/ CommitRefused(r)
  PROVE  World' /\ Acting'
<1>1. pc[r] \in Activating /\ pc[r] \notin Away
  BY DEF Drain, Busy, Drained, Preflight, CommitRefused, Activating, Away
<1>2. PICK o \in Ops : o = req[r].op /\ At(r, o)
  BY <1>1, AtWork
<1>3. Silent
  BY DEF Drain, Busy, Drained, Preflight, CommitRefused, Decide, Silent, Frame
<1>4. World' /\ Running' = Running
  BY <1>3, SilentKeeps
<1>5. req[r] \in Request
  BY DEF Hold, TypeInv, TypeOK
<1>6. Refuse(r) \/ Throw(r) => Acting'
  BY <1>1, <1>4, GivesUp
<1>7. ASSUME NEW p \in Plugins, plugin[p].state = "draining", work[p]
      PROVE  pc[r] = "busy" /\ req[r].seen = {p}
  BY <1>1, <1>2, <1>7 DEF At
<1>8. {"drain", "drainWrite", "renewActivate", "prepare"} \subseteq Activating
  BY DEF Activating
<1>9. ASSUME NEW p \in Plugins, Drain(r, p) PROVE Acting'
  <2>1. \A y \in Plugins : ~(plugin[y].state = "draining" /\ work[y])
    BY <1>7, <1>9 DEF Drain
  <2>2. [req[r] EXCEPT !.seen = {p}].op = o /\ [req[r] EXCEPT !.seen = {p}].seen = {p}
    BY <1>2, <1>5 DEF Request
  <2>3. [req[r] EXCEPT !.todo = @ \ {p}].op = o
    BY <1>2, <1>5 DEF Request
  <2>4. PICK x, y : x = [req[r] EXCEPT !.seen = {p}] /\ y = [req[r] EXCEPT !.todo = @ \ {p}]
    OBVIOUS
  <2>5. CASE Goto(r, "drainWrite") /\ Remember(r, x)
    BY <1>1, <1>2, <1>3, <1>8, <2>1, <2>2, <2>4, <2>5, ActivatesSilently
  <2>6. CASE Goto(r, "drain") /\ Remember(r, y)
    BY <1>1, <1>2, <1>3, <1>8, <2>1, <2>3, <2>4, <2>6, ActivatesSilently
  <2> QED BY <1>9, <2>4, <2>5, <2>6 DEF Drain
<1>10. ASSUME NEW p \in Plugins, Busy(r, p) PROVE Acting'
  <2>1. CASE work[p]
    BY <1>6, <1>10, <2>1 DEF Busy
  <2>2. CASE ~work[p]
    <3>1. \A y \in Plugins : ~(plugin[y].state = "draining" /\ work[y])
      BY <1>7, <1>10, <2>2 DEF Busy
    <3>2. PICK x : x = [req[r] EXCEPT !.todo = @ \ {p}, !.seen = {}]
      OBVIOUS
    <3>3. x.op = o
      BY <1>2, <1>5, <3>2 DEF Request
    <3>4. Goto(r, "drain") /\ Remember(r, x)
      BY <1>10, <2>2, <3>2 DEF Busy
    <3> QED BY <1>1, <1>2, <1>3, <1>8, <3>1, <3>3, <3>4, ActivatesSilently
  <2> QED BY <2>1, <2>2
<1>11. CASE Drained(r)
  <2>1. \A y \in Plugins : ~(plugin[y].state = "draining" /\ work[y])
    BY <1>7, <1>11 DEF Drained
  <2>2. Goto(r, "renewActivate") /\ UNCHANGED req
    BY <1>11 DEF Drained, Decide
  <2>3. PICK x : x = req[r]
    OBVIOUS
  <2> QED BY <1>1, <1>2, <1>3, <1>8, <2>1, <2>2, <2>3, ActivatesSilently
<1>12. CASE Preflight(r)
  <2>1. \A y \in Plugins : ~(plugin[y].state = "draining" /\ work[y])
    BY <1>7, <1>12 DEF Preflight
  <2>2. PICK x : x = [req[r] EXCEPT !.stamp = now]
    OBVIOUS
  <2>3. x.op = o
    BY <1>2, <1>5, <2>2 DEF Request
  <2>4. CASE Goto(r, "prepare") /\ Remember(r, x)
    BY <1>1, <1>2, <1>3, <1>8, <2>1, <2>3, <2>4, ActivatesSilently
  <2> QED BY <1>4, <1>6, <1>12, <2>2, <2>4 DEF Preflight
<1>13. CASE CommitRefused(r)
  BY <1>4, <1>6, <1>13 DEF CommitRefused
<1> QED BY <1>4, <1>9, <1>10, <1>11, <1>12, <1>13

\* From the activation to the answer.
LEMMA PublishesSilently ==
  ASSUME Hold, NEW r \in Requests, Finalize(r) \/ Publish(r) \/ SyncRead(r)
  PROVE  World' /\ Acting'
<1>1. pc[r] \notin Away
  BY DEF Finalize, Publish, SyncRead, Away
<1>2. PICK o \in Ops : o = req[r].op /\ At(r, o)
  BY <1>1, AtWork
<1>3. Silent
  BY DEF Finalize, Publish, SyncRead, Silent, Frame
<1>4. World' /\ Running' = Running
  BY <1>3, SilentKeeps
<1>5. req[r] \in Request
  BY DEF Hold, TypeInv, TypeOK
<1>6. Refuse(r) \/ Throw(r) => Acting'
  BY <1>1, <1>4, GivesUp
<1>7. Published(r) => (pointer.active = o /\ Quiet(plugin))'
  BY <1>2, <1>3, SilentKeeps DEF At
<1>8. CASE Finalize(r)
  <2>1. (pointer.active = o /\ Quiet(plugin))'
    BY <1>7, <1>8 DEF Finalize, Published
  <2>2. Synchronize(r, "publish", FALSE) => Acting'
    BY <1>1, <1>2, <1>4, <2>1, Synchronizes
  <2> QED BY <1>4, <1>6, <1>8, <2>2 DEF Finalize
<1>9. CASE Publish(r)
  <2>1. (pointer.active = o /\ Quiet(plugin))'
    BY <1>7, <1>9 DEF Publish, Published
  <2>2. Synchronize(r, "complete", TRUE) => Acting'
    BY <1>1, <1>2, <1>4, <2>1, Synchronizes
  <2> QED BY <1>4, <1>6, <1>9, <2>2 DEF Publish
<1>10. CASE SyncRead(r)
  <2>1. PICK x : x = [req[r] EXCEPT !.seen = InState(plugin, {"active"})]
    OBVIOUS
  <2>2. x.op = o /\ x.after = req[r].after /\ x.ok = req[r].ok
        /\ x.seen = InState(plugin, {"active"})
    BY <1>2, <1>5, <2>1 DEF Request
  <2>3. x.seen = InState(plugin, {"active"})'
    BY <1>3, <2>2, SilentKeeps
  <2>4. req[r].after = "publish" => (pointer.active = o /\ Quiet(plugin))'
    BY <1>7, <1>10 DEF SyncRead, Published
  <2>5. req[r].after = "complete" =>
          (IF req[r].ok THEN Quiet(plugin)' /\ (Stored(o)' => pointer'.active = o)
           ELSE Undone(o)')
    BY <1>2, <1>3, <1>10, SilentKeeps DEF SyncRead, At, Ending
  <2>6. ASSUME pc'[r] = "syncWrite", req'[r] = x PROVE At(r, o)'
    BY <2>2, <2>3, <2>4, <2>5, <2>6
       DEF At, Starting, Preparing, Activating, Published, Ending
  <2>7. Goto(r, "syncWrite") /\ Remember(r, x)
    BY <1>10, <2>1 DEF SyncRead
  <2> QED BY <1>1, <1>2, <1>4, <2>2, <2>6, <2>7, GoesOn DEF Away
<1> QED BY <1>8, <1>9, <1>10

------------------------------------------------------------------------------
(* Steps of an undoing request that write no table.                        *)

\* A step that goes on where nothing, or little, is relied on.
LEMMA GoesOnSilently ==
  ASSUME Hold, NEW r \in Requests, pc[r] \notin Away, Silent,
         NEW label, label \notin Away, NEW x, x.op = req[r].op, Goto(r, label),
         Remember(r, x) \/ (UNCHANGED req /\ x = req[r]),
         NEW o \in Ops, o = req[r].op, pc'[r] = label /\ req'[r] = x => At(r, o)'
  PROVE  Acting'
<1>1. Running' = Running
  BY SilentKeeps
<1> QED BY <1>1, GoesOn

\* A restoration begins: by what it writes, or right with the synchronisation
\* when there is nothing to restore.
LEMMA RestoresSilently ==
  ASSUME Hold, NEW r \in Requests, pc[r] \notin Away, Silent,
         NEW phase \in {"try", "catch", "recover"}, RestoreRead(r, phase)
  PROVE  Acting'
<1>1. PICK o \in Ops : o = req[r].op /\ Owns(r) /\ OpHolds(o) /\ Running = {o}
  BY AtWork
<1>2. Running' = Running
  BY SilentKeeps
<1>3. PICK x : x = [Bare(r) EXCEPT !.phase = phase]
  OBVIOUS
<1>4. x.op = o /\ x.after = "complete" /\ x.ok = FALSE
  BY <1>1, <1>3 DEF Bare, Idle
<1>5. CASE ~Stored(o)
  <2>1. Undone(o)'
    BY <1>5, SilentKeeps DEF Undone, Hold, World, Lasting
  <2>2. pc'[r] = "sync" /\ req'[r] = x => At(r, o)'
    BY <1>4, <2>1 DEF At, Starting, Preparing, Activating, Published, Ending
  <2>3. Goto(r, "sync") /\ Remember(r, x)
    BY <1>1, <1>3, <1>5 DEF RestoreRead
  <2> QED BY <1>1, <1>4, <2>2, <2>3, GoesOnSilently DEF Away
<1>6. CASE Stored(o) /\ pointer.active = o
  BY <1>1, <1>2, <1>6, GivesUp DEF RestoreRead
<1>7. CASE Stored(o) /\ pointer.active # o
  <2>1. (Stored(o) /\ pointer.active # o)'
    BY <1>7, SilentKeeps
  <2>2. pc'[r] = "restoreWrite" /\ req'[r] = x => At(r, o)'
    BY <2>1 DEF At, Starting, Preparing, Activating, Published, Ending
  <2>3. Goto(r, "restoreWrite") /\ Remember(r, x)
    BY <1>1, <1>3, <1>7 DEF RestoreRead
  <2> QED BY <1>1, <1>4, <2>2, <2>3, GoesOnSilently DEF Away
<1> QED BY <1>5, <1>6, <1>7

LEMMA UndoesSilently ==
  ASSUME Hold, NEW r \in Requests,
         \/ Refused(r) \/ Threw(r) \/ Recover(r) \/ CompensateRead(r)
         \/ CompensateAborted(r) \/ CompensateReload(r)
  PROVE  World' /\ Acting'
<1>1. pc[r] \notin Away
  BY DEF Refused, Threw, Recover, CompensateRead, CompensateAborted, CompensateReload, Away
<1>2. PICK o \in Ops : o = req[r].op /\ At(r, o) /\ OpHolds(o)
  BY <1>1, AtWork
<1>3. Silent
  BY DEF Refused, Threw, Recover, CompensateRead, CompensateAborted, CompensateReload,
         Silent, Frame
<1>4. World' /\ Running' = Running
  BY <1>3, SilentKeeps
<1>5. req[r] \in Request
  BY DEF Hold, TypeInv, TypeOK
<1>6. Throw(r) => Acting'
  BY <1>1, <1>4, GivesUp
<1>7. ASSUME NEW phase \in {"try", "catch", "recover"}, RestoreRead(r, phase) PROVE Acting'
  BY <1>1, <1>3, <1>7, RestoresSilently
<1>8. ASSUME NEW x, x.op = o, Goto(r, "renewCompensate"),
             Remember(r, x) \/ (UNCHANGED req /\ x = req[r])
      PROVE  Acting'
  <2>1. pc'[r] = "renewCompensate" /\ req'[r] = x => At(r, o)'
    BY OpenAt DEF Open
  <2> QED BY <1>1, <1>2, <1>3, <1>8, <2>1, GoesOnSilently DEF Away
<1>9. CASE Refused(r)
  BY <1>4, <1>7, <1>9 DEF Refused
<1>10. CASE Threw(r)
  <2>1. PICK x : x = [Bare(r) EXCEPT !.phase = "compensate"]
    OBVIOUS
  <2>2. x.op = o
    BY <1>2, <2>1 DEF Bare, Idle
  <2> QED BY <1>4, <1>7, <1>8, <1>10, <2>1, <2>2 DEF Threw
<1>11. CASE Recover(r)
  <2>1. PICK x : x = req[r]
    OBVIOUS
  <2> QED BY <1>2, <1>4, <1>7, <1>8, <1>11, <2>1 DEF Recover
<1>12. CASE CompensateRead(r)
  <2>1. CASE o \in compensated /\ Goto(r, "compensateReload") /\ UNCHANGED req
    <3>1. PICK x : x = req[r]
      OBVIOUS
    <3>2. pc'[r] = "compensateReload" /\ req'[r] = x => At(r, o)'
      BY <1>3, <2>1, SilentKeeps DEF At, Starting, Preparing, Activating, Published, Ending
    <3> QED BY <1>1, <1>2, <1>3, <1>4, <2>1, <3>1, <3>2, GoesOnSilently DEF Away
  <2>2. CASE /\ o \notin compensated /\ pointer.active = o
             /\ Goto(r, "compensateWrite")
             /\ Remember(r, [req[r] EXCEPT !.rev = pointer.revision, !.stamp = now])
    <3>1. PICK x : x = [req[r] EXCEPT !.rev = pointer.revision, !.stamp = now]
      OBVIOUS
    <3>2. x.op = o /\ x.rev = pointer.revision
      BY <1>2, <1>5, <3>1 DEF Request
    <3>3. x.rev = pointer'.revision /\ pointer'.active = o
      BY <1>3, <2>2, <3>2, SilentKeeps
    <3>4. pc'[r] = "compensateWrite" /\ req'[r] = x => At(r, o)'
      BY <3>3 DEF At, Starting, Preparing, Activating, Published, Ending
    <3>5. Goto(r, "compensateWrite") /\ Remember(r, x) /\ "compensateWrite" \notin Away
      BY <2>2, <3>1 DEF Away
    <3> QED BY <1>1, <1>2, <1>3, <1>4, <3>2, <3>4, <3>5, GoesOnSilently
  <2> QED BY <1>2, <1>4, <1>6, <1>12, <2>1, <2>2 DEF CompensateRead
<1>13. CASE CompensateAborted(r)
  BY <1>4, <1>6, <1>13 DEF CompensateAborted
<1>14. CASE CompensateReload(r)
  <2>1. Undone(o)
    BY <1>2, <1>14 DEF CompensateReload, At, OpHolds
  <2>2. Undone(o)'
    BY <1>3, <2>1, SilentKeeps
  <2>3. Synchronize(r, "complete", FALSE) => Acting'
    BY <1>1, <1>2, <1>4, <2>2, Synchronizes
  <2> QED BY <1>4, <1>6, <1>14, <2>3 DEF CompensateReload
<1> QED BY <1>9, <1>10, <1>11, <1>12, <1>13, <1>14
------------------------------------------------------------------------------
(* Steps that leave the requests at work where they are.                   *)

\* No component on its way out takes on work.
NoNewWork == \A p \in Plugins : plugin[p].state = "draining" /\ work'[p] => work[p]

\* What a request relies on stays true when the tables look the same.
LEMMA AlikeAt ==
  ASSUME Hold, Alike, NoNewWork, NEW r \in Requests, NEW o \in Ops, At(r, o),
         pc'[r] = pc[r], req'[r] = req[r]
  PROVE  At(r, o)'
<1>1. PICK snap : snap = req[r].snap
  OBVIOUS
<1>2. Sound(snap)' <=> Sound(snap)
  BY AlikeSound
<1>3. UNCHANGED <<pointer, compensated>> /\ \A p \in Plugins : plugin'[p].state = plugin[p].state
  BY DEF Alike
<1>4. /\ Stored(o)' <=> Stored(o)
      /\ Undone(o)' <=> Undone(o)
      /\ Quiet(plugin)' <=> Quiet(plugin)
      /\ Follow' <=> Follow
      /\ InState(plugin, {"active"})' = InState(plugin, {"active"})
  BY AlikeOps, AlikeRows, AlikeUndone
<1>5. pc[r] = "snapshotWrite" => Sound(req[r].snap)' /\ req'[r].snap.pointer.active = pointer'.active
  BY <1>1, <1>2, <1>3 DEF At
<1>6. \A p \in Plugins : plugin'[p].state = "draining" /\ work'[p] =>
        plugin[p].state = "draining" /\ work[p]
  BY <1>3 DEF NoNewWork
<1>7. (Published(r)' <=> Published(r)) /\ (Ending(r)' <=> Ending(r))
  BY DEF Published, Ending
<1> QED BY <1>3, <1>4, <1>5, <1>6, <1>7 DEF At

\* The requests that are away may come and go, and everything else may look at
\* what it does.
LEMMA OthersStay ==
  ASSUME Hold, Alike, NoNewWork,
         \A r \in Requests : \/ pc'[r] = pc[r] /\ req'[r] = req[r]
                             \/ pc'[r] \in Away /\ req'[r].op = None
  PROVE  World' /\ Acting'
<1>1. World' /\ Running' = Running
  BY AlikeWorld, AlikeOps DEF Hold
<1>2. ASSUME NEW r \in Requests, pc'[r] = pc[r], req'[r] = req[r], pc[r] \notin Away
      PROVE  req'[r].op \in Running' /\ At(r, req[r].op)'
  <2>1. PICK o \in Ops : o = req[r].op /\ At(r, o) /\ o \in Running
    BY <1>2, AtWork
  <2>2. At(r, o)'
    BY <1>2, <2>1, AlikeAt
  <2> QED BY <1>1, <1>2, <2>1, <2>2
<1>3. ASSUME NEW r \in Requests, pc[r] \in Away PROVE req[r].op = None
  BY <1>3 DEF Hold, Acting, Away
<1>4. ASSUME NEW r \in Requests
      PROVE  IF pc'[r] \in {"idle", "begin"} THEN req'[r].op = None
             ELSE req'[r].op \in Running' /\ At(r, req[r].op)'
  <2>1. CASE pc'[r] = pc[r] /\ req'[r] = req[r]
    BY <1>2, <1>3, <2>1 DEF Away
  <2>2. CASE pc'[r] \in Away /\ req'[r].op = None
    BY <2>2 DEF Away
  <2> QED BY <2>1, <2>2
<1> QED BY <1>1, <1>4 DEF Acting

LEMMA EnvironmentHolds ==
  ASSUME Hold, \/ \E p \in Plugins : EvidenceExpires(p) \/ WorkStart(p) \/ WorkEnd(p)
               \/ \E p \in Plugins, to \in States : ConsoleRead(p, to)
               \/ \E p \in Plugins : ConsoleWrite(p)
               \/ ConsoleSyncRead \/ ConsoleSyncWrite
               \/ Tick \/ UNCHANGED vars
  PROVE  World' /\ Acting'
<1>1. console.step = "idle" /\ console.left = 0
  BY DEF Hold, World
<1>2. /\ ~\E p \in Plugins, to \in States : ConsoleRead(p, to)
      /\ ~\E p \in Plugins : ConsoleWrite(p)
      /\ ~ConsoleSyncRead /\ ~ConsoleSyncWrite
  BY <1>1 DEF ConsoleRead, ConsoleWrite, ConsoleSyncRead, ConsoleSyncWrite
<1>3. plugin \in [Plugins -> PluginRow] /\ work \in [Plugins -> BOOLEAN]
  BY DEF Hold, TypeInv, TypeOK
<1>4. CASE \E p \in Plugins : EvidenceExpires(p)
  <2>1. PICK p \in Plugins : EvidenceExpires(p)
    BY <1>4
  <2>2. /\ \A y \in Plugins : /\ plugin'[y].state = plugin[y].state
                             /\ plugin'[y].manifest = plugin[y].manifest
                             /\ plugin'[y].release = plugin[y].release
        /\ UNCHANGED <<enabled, pointer, candidate, lock, op, compensated, console,
                       work, pc, req>>
    BY <1>3, <2>1 DEF EvidenceExpires, PluginRow
  <2>3. Alike /\ NoNewWork
    BY <2>2 DEF Alike, NoNewWork
  <2> QED BY <2>2, <2>3, OthersStay
<1>5. CASE \E p \in Plugins : WorkStart(p) \/ WorkEnd(p)
  <2>1. PICK p \in Plugins : WorkStart(p) \/ WorkEnd(p)
    BY <1>5
  <2>2. UNCHANGED <<tables, pc, req, console>>
    BY <2>1 DEF WorkStart, WorkEnd
  <2>3. NoNewWork
    BY <1>3, <2>1 DEF WorkStart, WorkEnd, NoNewWork
  <2>4. Alike
    BY <2>2 DEF Alike, tables
  <2> QED BY <2>2, <2>3, <2>4, OthersStay
<1>6. CASE Tick \/ UNCHANGED vars
  <2>1. UNCHANGED <<tables, work, pc, req, console>>
    BY <1>6 DEF Tick, vars, tables
  <2>2. Alike /\ NoNewWork
    BY <2>1 DEF Alike, tables, NoNewWork
  <2> QED BY <2>1, <2>2, OthersStay
<1> QED BY <1>2, <1>4, <1>5, <1>6

\* Requests that fail, die, or are refused before they begin.
LEMMA FaultHolds ==
  ASSUME Hold, NEW r \in Requests, StatementFails(r) \/ Crash(r) \/ BeginRefused(r)
  PROVE  World' /\ Acting'
<1>1. Silent
  BY DEF StatementFails, Crash, BeginRefused, Silent, Frame
<1>2. World' /\ Running' = Running
  BY <1>1, SilentKeeps
<1>3. CASE pc[r] \notin Away
  BY <1>2, <1>3, GivesUp DEF StatementFails, Crash, BeginRefused, Away
<1>4. CASE pc[r] \in Away
  <2>1. Answer(r)
    BY <1>4 DEF StatementFails, Crash, BeginRefused, Away
  <2>2. /\ pc'[r] = "idle" /\ req'[r] = Idle
        /\ \A s \in Requests \ {r} : pc'[s] = pc[s] /\ req'[s] = req[s]
    BY <2>1, GoesTo DEF Answer, Hold, TypeInv
  <2>3. Alike /\ NoNewWork
    BY <1>1, SilentAlike DEF NoNewWork
  <2> QED BY <2>2, <2>3, OthersStay DEF Away, Idle
<1> QED BY <1>3, <1>4

------------------------------------------------------------------------------
(* Steps of a request that write what nothing here is about.               *)

\* What stays as it is when the tables look the same.
LEMMA AlikeKeeps ==
  ASSUME Hold, Alike
  PROVE  /\ World' /\ Running' = Running
         /\ \A o \in Ops : Stored(o)' <=> Stored(o)
         /\ Quiet(plugin)' <=> Quiet(plugin)
         /\ UNCHANGED <<pointer, compensated>>
BY AlikeWorld, AlikeOps, AlikeRows DEF Hold, Alike

LEMMA RenewHolds ==
  ASSUME Hold, NEW r \in Requests,
         \/ Renew(r, "renewInstall", "installRead") \/ Renew(r, "renewSlice", "slice")
         \/ Renew(r, "renewActivate", "preflight")
         \/ Renew(r, "renewCompensate", "compensateRead")
  PROVE  World' /\ Acting'
<1>1. PICK from, to : /\ Renew(r, from, to)
                      /\ \/ from \in Preparing /\ to \in Preparing
                         \/ from = "renewActivate" /\ to = "preflight"
                         \/ to = "compensateRead"
                      /\ from \notin Away /\ to \notin Away
  BY DEF Preparing, Away
<1>2. pc[r] \notin Away
  BY <1>1 DEF Renew
<1>3. PICK o \in Ops : o = req[r].op /\ At(r, o)
  BY <1>2, AtWork
<1>4. op \in [Ops -> OpRow]
  BY DEF Hold, TypeInv, TypeOK
<1>5. \/ UNCHANGED op
      \/ op' = [op EXCEPT ![o].expires = now + 1]
  BY <1>1, <1>3 DEF Renew
<1>6. \A x \in Ops : op'[x].status = op[x].status /\ op'[x].snap = op[x].snap
  BY <1>4, <1>5 DEF OpRow
<1>7. UNCHANGED <<plugin, enabled, pointer, candidate, lock, recon, compensated, work, console>>
  BY <1>1 DEF Renew, Frame
<1>8. Alike
  BY <1>6, <1>7 DEF Alike
<1>9. World' /\ Running' = Running
  BY <1>8, AlikeKeeps
<1>10. CASE Throw(r)
  BY <1>2, <1>9, <1>10, GivesUp
<1>11. CASE Goto(r, to) /\ UNCHANGED req
  <2>1. PICK x : x = req[r]
    OBVIOUS
  <2>2. CASE from \in Preparing /\ to \in Preparing
    <3>1. Stored(o) /\ o \notin compensated /\ pointer.active # o /\ Quiet(plugin)
      BY <1>1, <1>3, <2>2 DEF Renew, At
    <3>2. (Stored(o) /\ o \notin compensated /\ pointer.active # o /\ Quiet(plugin))'
      BY <1>8, <3>1, AlikeKeeps
    <3>3. pc'[r] = to /\ req'[r] = x => At(r, o)'
      BY <2>2, <3>2 DEF At, Starting, Preparing, Activating, Published, Ending
    <3>4. Goto(r, to) /\ UNCHANGED req /\ to \notin Away
      BY <1>1, <1>11
    <3> QED BY <1>2, <1>3, <1>9, <2>1, <3>3, <3>4, GoesOn
  <2>3. CASE from = "renewActivate" /\ to = "preflight"
    <3>1. /\ Stored(o) /\ o \notin compensated /\ pointer.active # o
          /\ \A p \in Plugins : ~(plugin[p].state = "draining" /\ work[p])
      BY <1>1, <1>3, <2>3 DEF Renew, At, Activating
    <3>2. (Stored(o) /\ o \notin compensated /\ pointer.active # o)'
      BY <1>8, <3>1, AlikeKeeps
    <3>3. \A p \in Plugins : ~(plugin'[p].state = "draining" /\ work'[p])
      BY <1>7, <3>1
    <3>4. pc'[r] = to /\ req'[r] = x => At(r, o)'
      BY <2>3, <3>2, <3>3 DEF At, Starting, Preparing, Activating, Published, Ending
    <3>5. Goto(r, to) /\ UNCHANGED req /\ to \notin Away
      BY <1>1, <1>11
    <3> QED BY <1>2, <1>3, <1>9, <2>1, <3>4, <3>5, GoesOn
  <2>4. CASE to = "compensateRead"
    <3>1. pc'[r] = to /\ req'[r] = x => At(r, o)'
      BY <2>4, OpenAt DEF Open
    <3>2. Goto(r, to) /\ UNCHANGED req /\ to \notin Away
      BY <1>1, <1>11
    <3> QED BY <1>2, <1>3, <1>9, <2>1, <3>1, <3>2, GoesOn
  <2> QED BY <1>1, <2>2, <2>3, <2>4
<1> QED BY <1>1, <1>9, <1>10, <1>11 DEF Renew

LEMMA PrepareHolds ==
  ASSUME Hold, NEW r \in Requests, Prepare(r)
  PROVE  World' /\ Acting'
<1>1. pc[r] = "prepare" /\ pc[r] \notin Away
  BY DEF Prepare, Away
<1>2. PICK o \in Ops : o = req[r].op /\ At(r, o)
  BY <1>1, AtWork
<1>3. UNCHANGED <<plugin, enabled, pointer, candidate, lock, op, compensated, work, console>>
  BY DEF Prepare, Frame
<1>4. Alike
  BY <1>3 DEF Alike
<1>5. World' /\ Running' = Running
  BY <1>4, AlikeKeeps
<1>6. CASE Throw(r)
  BY <1>1, <1>5, <1>6, GivesUp
<1>7. CASE Goto(r, "commit") /\ UNCHANGED req
  <2>1. /\ Stored(o) /\ o \notin compensated /\ pointer.active # o
        /\ \A p \in Plugins : ~(plugin[p].state = "draining" /\ work[p])
    BY <1>1, <1>2 DEF At, Activating
  <2>2. (Stored(o) /\ o \notin compensated /\ pointer.active # o)'
    BY <1>4, <2>1, AlikeKeeps
  <2>3. \A p \in Plugins : ~(plugin'[p].state = "draining" /\ work'[p])
    BY <1>3, <2>1
  <2>4. PICK x : x = req[r]
    OBVIOUS
  <2>5. pc'[r] = "commit" /\ req'[r] = x => At(r, o)'
    BY <2>2, <2>3 DEF At, Starting, Preparing, Activating, Published, Ending
  <2> QED BY <1>1, <1>2, <1>5, <1>7, <2>4, <2>5, GoesOn DEF Away
<1> QED BY <1>5, <1>6, <1>7 DEF Prepare

LEMMA MarkHolds ==
  ASSUME Hold, NEW r \in Requests, MarkRecovery(r)
  PROVE  World' /\ Acting'
<1>1. pc[r] \notin Away
  BY DEF MarkRecovery, Away
<1>2. op \in [Ops -> OpRow]
  BY DEF Hold, TypeInv, TypeOK
<1>3. PICK o \in Ops : o = req[r].op
  BY <1>1, AtWork
<1>4. \/ UNCHANGED op
      \/ op' = [op EXCEPT ![o].error = TRUE]
  BY <1>3 DEF MarkRecovery
<1>5. \A x \in Ops : op'[x].status = op[x].status /\ op'[x].snap = op[x].snap
  BY <1>2, <1>4 DEF OpRow
<1>6. Alike
  BY <1>5 DEF Alike, MarkRecovery, Frame
<1>7. World' /\ Running' = Running
  BY <1>6, AlikeKeeps
<1> QED BY <1>1, <1>7, GivesUp DEF MarkRecovery
------------------------------------------------------------------------------
(* Requests that take an operation on.                                     *)

LEMMA ClaimHolds ==
  ASSUME Hold, NEW r \in Requests, NEW o \in Ops, NEW kind \in {"action", "page"},
         Claim(r, o, kind)
  PROVE  World' /\ Acting'
<1>1. op \in [Ops -> OpRow] /\ req \in [Requests -> Request]
  BY DEF Hold, TypeInv, TypeOK
<1>2. \A x \in Ops : op'[x].status = op[x].status /\ op'[x].snap = op[x].snap
  BY <1>1 DEF Claim, OpRow
<1>3. Alike
  BY <1>2 DEF Alike, Claim, Frame
<1>4. World' /\ Running' = Running
  BY <1>3, AlikeKeeps
<1>5. PICK x : x = [Idle EXCEPT !.op = o, !.kind = kind, !.phase = "recover"]
  OBVIOUS
<1>6. x.op = o
  BY <1>5 DEF Idle
<1>7. Goto(r, "recover") /\ Remember(r, x)
  BY <1>5 DEF Claim
<1>8. /\ pc'[r] = "recover" /\ req'[r] = x
      /\ \A s \in Requests \ {r} : pc'[s] = pc[s] /\ req'[s] = req[s]
  BY <1>7, GoesTo DEF Hold, TypeInv
<1>9. At(r, o)'
  BY <1>8, OpenAt DEF Open
<1>10. o \in Running /\ \A s \in Requests : req[s].op # o
  BY DEF Claim, Hold, OwnersOnly
<1>11. ASSUME NEW s \in Requests \ {r} PROVE pc[s] \in Away /\ req[s].op = None
  <2>1. pc[s] \in Away
    <3> SUFFICES ASSUME pc[s] \notin Away PROVE FALSE
      OBVIOUS
    <3>1. Running = {req[s].op}
      BY AtWork
    <3> QED BY <1>10, <3>1
  <2> QED BY <2>1 DEF Hold, Acting, Away
<1>12. req'[r].op \in Running' /\ At(r, req[r].op)'
  BY <1>4, <1>6, <1>8, <1>9, <1>10
<1> QED BY <1>4, <1>8, <1>11, <1>12 DEF Acting, Away

LEMMA BeginHolds ==
  ASSUME Hold, NEW r \in Requests, NEW o \in Ops, NEW action \in {"enable", "disable"},
         NEW k \in Packages, Begin(r, o, action, k)
  PROVE  World' /\ Acting'
<1>1. op \in [Ops -> OpRow] /\ req \in [Requests -> Request]
  BY DEF Hold, TypeInv, TypeOK
<1>2. /\ op[o].status = "absent" /\ Running = {}
      /\ UNCHANGED <<plugin, enabled, pointer, candidate, lock, compensated, console>>
  BY DEF Begin, Frame
<1>3. /\ \A x \in Ops \ {o} : op'[x] = op[x]
      /\ op'[o].status = "running" /\ op'[o].snap = op[o].snap
  BY <1>1 DEF Begin, OpRow
<1>4. Quiet(plugin) /\ Follow /\ ~Stored(o) /\ o \notin compensated
  BY <1>2 DEF Hold, World
<1>5. (Quiet(plugin) /\ Follow /\ ~Stored(o) /\ o \notin compensated)'
  BY <1>2, <1>3, <1>4 DEF Quiet, Follow, InState, Stored
<1>6. Running' = {o}
  BY <1>2, <1>3 DEF Running
<1>7. \A x \in Ops : (Stored(x)' <=> Stored(x)) /\ (Lasting(x)' <=> Lasting(x))
  BY <1>2, <1>3 DEF Stored, Lasting
<1>8. Coherent(plugin, pointer)'
  BY <1>2 DEF Hold, World, Coherent, InState
<1>9. ASSUME NEW x \in Ops, Names(plugin, pointer, x)'
      PROVE  Lasting(x)' /\ op'[x].status \in {"running", "succeeded"}
  <2>1. Names(plugin, pointer, x)
    BY <1>2, <1>9 DEF Names
  <2>2. Lasting(x) /\ op[x].status \in {"running", "succeeded"}
    BY <2>1 DEF Hold, World
  <2> QED BY <1>2, <1>3, <1>7, <2>2
<1>10. World'
  <2>1. \A x \in Ops : op'[x].status = "succeeded" /\ Stored(x)' => Lasting(x)'
    BY <1>3, <1>7 DEF Hold, World
  <2>2. \A x \in Ops : op'[x].status = "absent" => ~Stored(x)' /\ x \notin compensated'
    BY <1>2, <1>3, <1>7 DEF Hold, World
  <2>3. OpHolds(o)'
    BY <1>5 DEF OpHolds
  <2>4. console'.step = "idle" /\ console'.left = 0
    BY <1>2 DEF Hold, World
  <2> QED BY <1>6, <1>8, <1>9, <2>1, <2>2, <2>3, <2>4 DEF World
<1>11. PICK x : x = [Idle EXCEPT !.op = o, !.action = action, !.comps = Components[k]]
  OBVIOUS
<1>12. x.op = o
  BY <1>11 DEF Idle
<1>13. Goto(r, "classify") /\ Remember(r, x)
  BY <1>11 DEF Begin
<1>14. /\ pc'[r] = "classify" /\ req'[r] = x
       /\ \A s \in Requests \ {r} : pc'[s] = pc[s] /\ req'[s] = req[s]
  BY <1>13, GoesTo DEF Hold, TypeInv
<1>15. At(r, o)'
  BY <1>5, <1>14 DEF At, Starting, Preparing, Activating, Published, Ending
<1>16. \A s \in Requests \ {r} : pc[s] \in Away /\ req[s].op = None
  BY <1>2 DEF Hold, Acting, Away
<1>17. req'[r].op \in Running' /\ At(r, req[r].op)'
  BY <1>6, <1>12, <1>14, <1>15
<1>18. Acting'
  BY <1>14, <1>16, <1>17 DEF Acting, Away
<1> QED BY <1>10, <1>18

------------------------------------------------------------------------------
(* Steps of a request that write a table.                                  *)

\* A step that writes for the running operation and leaves it running.
LEMMA WorldKept ==
  ASSUME World, NEW o \in Ops, Running = {o}, UNCHANGED console,
         \A x \in Ops : op'[x].status = op[x].status,
         Coherent(plugin, pointer)',
         \A x \in Ops : Names(plugin, pointer, x)' => Lasting(x)' /\ (Lasting(x) \/ x = o),
         \A x \in Ops : x # o => (Stored(x)' <=> Stored(x)) /\ (Lasting(x) => Lasting(x)')
                               /\ (x \in compensated' <=> x \in compensated),
         \A x \in Ops : Names(plugin, pointer, x)' =>
           x = o \/ op[x].status \in {"running", "succeeded"},
         OpHolds(o)'
  PROVE  World' /\ Running' = Running
<1>1. Running' = {o} /\ op[o].status = "running"
  BY DEF Running
<1>2. \A x \in Ops : op'[x].status = "absent" => ~Stored(x)' /\ x \notin compensated'
  BY <1>1 DEF World
<1>3. \A x \in Ops : op'[x].status = "succeeded" /\ Stored(x)' => Lasting(x)'
  BY <1>1 DEF World
<1>4. \A x \in Ops : Names(plugin, pointer, x)' =>
        Lasting(x)' /\ op'[x].status \in {"running", "succeeded"}
  BY <1>1
<1>5. console'.step = "idle" /\ console'.left = 0
  BY DEF World
<1> QED BY <1>1, <1>2, <1>3, <1>4, <1>5 DEF World

\* A sound snapshot stays so while an operation runs: what it names has
\* succeeded before.
LEMMA SoundStays ==
  ASSUME NEW o \in Ops, op[o].status = "running", NEW snap, Sound(snap),
         \A x \in Ops : op'[x].status = op[x].status,
         \A x \in Ops : x # o => (Lasting(x) => Lasting(x)'),
         \A x : x # o => lock'[x] = lock[x]
  PROVE  Sound(snap)'
<1>1. ASSUME NEW x \in Ops, Names(snap.plugin, snap.pointer, x)
      PROVE  Lasting(x)' /\ op'[x].status = "succeeded" /\ x # o
  BY <1>1 DEF Sound
<1>2. snap.pointer.active # o
  BY <1>1 DEF Names
<1>3. Coherent(snap.plugin, snap.pointer)'
  BY <1>2 DEF Sound, Coherent
<1> QED BY <1>1, <1>3 DEF Sound, Quiet, Names

\* The same for the snapshot of the operation.
LEMMA StoredSoundStays ==
  ASSUME NEW o \in Ops, op[o].status = "running", Sound(op[o].snap),
         op'[o].snap = op[o].snap,
         \A x \in Ops : op'[x].status = op[x].status,
         \A x \in Ops : x # o => (Lasting(x) => Lasting(x)'),
         \A x : x # o => lock'[x] = lock[x]
  PROVE  Sound(op[o].snap)'
<1>1. PICK snap : snap = op[o].snap
  OBVIOUS
<1>2. Sound(snap)'
  BY <1>1, SoundStays
<1> QED BY <1>1, <1>2

LEMMA SnapshotHolds ==
  ASSUME Hold, NEW r \in Requests, SnapshotWrite(r)
  PROVE  World' /\ Acting'
<1>1. pc[r] = "snapshotWrite" /\ pc[r] \notin Away
  BY DEF SnapshotWrite, Away
<1>2. PICK o \in Ops : o = req[r].op /\ At(r, o) /\ OpHolds(o) /\ Running = {o} /\ Owns(r)
  BY <1>1, AtWork
<1>3. PICK snap : snap = req[r].snap
  OBVIOUS
<1>4. op \in [Ops -> OpRow] /\ req[r] \in Request
  BY DEF Hold, TypeInv, TypeOK
<1>5. /\ \A x \in Ops \ {o} : op'[x] = op[x]
      /\ op'[o].snap = snap /\ op'[o].status = op[o].status
  BY <1>2, <1>3, <1>4 DEF SnapshotWrite, OpRow
<1>6. UNCHANGED <<plugin, enabled, pointer, candidate, lock, compensated, console>>
  BY DEF SnapshotWrite, Frame
<1>7. snap \in Snapshot /\ Stored(o)'
  BY <1>1, <1>3, <1>5, SnapshotsAreThere DEF Hold, TypeInv, Equipped, Stored
<1>8. ~Stored(o) /\ Sound(snap) /\ snap.pointer.active = pointer.active
  BY <1>1, <1>2, <1>3 DEF At, Starting
<1>9. Quiet(plugin) /\ o \notin compensated /\ ~Lasting(o) /\ op[o].status = "running"
  BY <1>2, <1>8 DEF OpHolds, Lasting, Running
<1>10. ~Names(plugin, pointer, o)
  BY <1>9 DEF Hold, World
<1>11. \A x \in Ops : op'[x].status = op[x].status
  BY <1>5
<1>12. \A x \in Ops : x # o => (Stored(x)' <=> Stored(x)) /\ (Lasting(x)' <=> Lasting(x))
  BY <1>5, <1>6 DEF Stored, Lasting
<1>13. Sound(snap)'
  BY <1>6, <1>8, <1>9, <1>11, <1>12, SoundStays
<1>14. Quiet(plugin)' /\ pointer'.active # o
  BY <1>6, <1>9, <1>10 DEF Quiet, Names
<1>15. OpHolds(o)'
  BY <1>5, <1>6, <1>7, <1>8, <1>9, <1>13, <1>14 DEF OpHolds
<1>16. Coherent(plugin, pointer)'
  BY <1>6 DEF Hold, World, Coherent, InState
<1>17. \A x \in Ops : Names(plugin, pointer, x)' => Names(plugin, pointer, x) /\ x # o
  BY <1>6, <1>10 DEF Names
<1>18. World' /\ Running' = Running
  BY <1>2, <1>6, <1>11, <1>12, <1>15, <1>16, <1>17, WorldKept DEF Hold, World
<1>19. PICK x : x = [req[r] EXCEPT !.snap = NoSnapshot]
  OBVIOUS
<1>20. x.op = o
  BY <1>2, <1>4, <1>19 DEF Request
<1>21. pc'[r] = "plan" /\ req'[r] = x => At(r, o)'
  BY <1>6, <1>7, <1>9, <1>14 DEF At, Starting, Preparing, Activating, Published, Ending
<1>22. Goto(r, "plan") /\ Remember(r, x)
  BY <1>19 DEF SnapshotWrite
<1>23. Acting'
  BY <1>1, <1>2, <1>18, <1>20, <1>21, <1>22, GoesOn DEF Away
<1> QED BY <1>18, <1>23

\* Writes to the rows that neither start nor end a component, before the
\* release is activated.
LEMMA RowsHold ==
  ASSUME Hold, NEW r \in Requests, pc[r] \in Preparing \cup Activating,
         NEW o \in Ops, o = req[r].op,
         UNCHANGED <<enabled, pointer, candidate, lock, recon, op, compensated, console>>,
         \A p \in Plugins :
           /\ plugin'[p].release = plugin[p].release
           /\ plugin'[p].manifest = (plugin'[p].state = "active")
           /\ plugin'[p].state \in {"active", "draining"} <=>
                plugin[p].state \in {"active", "draining"}
  PROVE  /\ World' /\ Running' = Running
         /\ (Stored(o) /\ o \notin compensated /\ pointer.active # o)'
<1>1. pc[r] \notin Away
  BY DEF Preparing, Activating, Away
<1>2. OpHolds(o) /\ Running = {o} /\ At(r, o)
  BY <1>1, AtWork
<1>3. Stored(o) /\ o \notin compensated /\ pointer.active # o
  BY <1>2 DEF At
<1>4. \A x \in Ops : (Stored(x)' <=> Stored(x)) /\ (Lasting(x)' <=> Lasting(x))
  BY DEF Stored, Lasting
<1>5. op[o].status = "running"
  BY <1>2 DEF Running
<1>6. Sound(op[o].snap)'
  BY <1>2, <1>3, <1>4, <1>5, StoredSoundStays DEF OpHolds
<1>7. OpHolds(o)'
  BY <1>2, <1>3, <1>4, <1>6 DEF OpHolds
<1>8. InState(plugin, {"active", "draining"})' = InState(plugin, {"active", "draining"})
  BY DEF InState
<1>9. Coherent(plugin, pointer)'
  BY <1>8 DEF Hold, World, Coherent
<1>10. \A x \in Ops : Names(plugin, pointer, x)' => Names(plugin, pointer, x)
  BY DEF Names
<1>11. World' /\ Running' = Running
  BY <1>2, <1>4, <1>7, <1>9, <1>10, WorldKept DEF Hold, World
<1> QED BY <1>3, <1>4, <1>11

LEMMA InstallHolds ==
  ASSUME Hold, NEW r \in Requests, NEW down \in SUBSET Plugins, InstallWrite(r, down)
  PROVE  World' /\ Acting'
<1>1. pc[r] \in Preparing /\ pc[r] \notin Away
  BY DEF InstallWrite, Preparing, Away
<1>2. PICK o \in Ops : o = req[r].op /\ At(r, o)
  BY <1>1, AtWork
<1>3. Quiet(plugin)
  BY <1>1, <1>2 DEF At
<1>4. plugin \in [Plugins -> PluginRow] /\ req[r] \in Request
  BY DEF Hold, TypeInv, TypeOK
<1>5. \A p \in Plugins : plugin[p].manifest = (plugin[p].state = "active")
  BY DEF Hold, World, Coherent
<1>6. ASSUME NEW p \in Plugins
      PROVE  /\ plugin'[p].release = plugin[p].release
             /\ plugin'[p].manifest = plugin[p].manifest
             /\ \/ plugin'[p].state = plugin[p].state
                \/ plugin[p].state # "active" /\ plugin'[p].state \in {"installed", "staged"}
  BY <1>4 DEF InstallWrite, InstallBatch, PluginRow
<1>7. Quiet(plugin)'
  BY <1>3, <1>6 DEF Quiet
<1>8. ASSUME NEW p \in Plugins
      PROVE  /\ plugin'[p].release = plugin[p].release
             /\ plugin'[p].manifest = (plugin'[p].state = "active")
             /\ plugin'[p].state \in {"active", "draining"} <=>
                  plugin[p].state \in {"active", "draining"}
  BY <1>3, <1>5, <1>6 DEF Quiet
<1>9. UNCHANGED <<enabled, pointer, candidate, lock, recon, op, compensated, console>>
  BY DEF InstallWrite, Frame
<1>10. /\ World' /\ Running' = Running
       /\ (Stored(o) /\ o \notin compensated /\ pointer.active # o)'
  BY <1>1, <1>2, <1>8, <1>9, RowsHold
<1>11. CASE Refuse(r)
  BY <1>1, <1>10, <1>11, GivesUp
<1>12. CASE /\ Goto(r, "renewSlice")
            /\ Remember(r, [req[r] EXCEPT !.todo = {}, !.seen = {}])
  <2>1. PICK x : x = [req[r] EXCEPT !.todo = {}, !.seen = {}]
    OBVIOUS
  <2>2. x.op = o
    BY <1>2, <1>4, <2>1 DEF Request
  <2>3. pc'[r] = "renewSlice" /\ req'[r] = x => At(r, o)'
    BY <1>7, <1>10 DEF At, Starting, Preparing, Activating, Published, Ending
  <2>4. Goto(r, "renewSlice") /\ Remember(r, x) /\ "renewSlice" \notin Away
    BY <1>12, <2>1 DEF Away
  <2>5. Acting'
    BY <1>1, <1>2, <1>10, <2>2, <2>3, <2>4, GoesOn
  <2> QED BY <1>10, <2>5
<1> QED BY <1>10, <1>11, <1>12 DEF InstallWrite

LEMMA DrainWriteHolds ==
  ASSUME Hold, NEW r \in Requests, NEW p \in Plugins, DrainWrite(r, p)
  PROVE  World' /\ Acting'
<1>1. pc[r] = "drainWrite" /\ pc[r] \in Activating /\ pc[r] \notin Away
  BY DEF DrainWrite, Activating, Away
<1>2. PICK o \in Ops : o = req[r].op /\ At(r, o)
  BY <1>1, AtWork
<1>3. req[r].seen = {p} /\ \A y \in Plugins : ~(plugin[y].state = "draining" /\ work[y])
  BY <1>1, <1>2 DEF At, DrainWrite
<1>4. plugin \in [Plugins -> PluginRow]
  BY DEF Hold, TypeInv, TypeOK
<1>5. \A y \in Plugins : plugin[y].manifest = (plugin[y].state = "active")
  BY DEF Hold, World, Coherent
<1>6. \A y \in Plugins \ {p} : plugin'[y] = plugin[y]
  BY <1>4 DEF DrainWrite, TransitionBatch
<1>7. /\ plugin'[p].release = plugin[p].release
      /\ plugin'[p].manifest = FALSE
      /\ plugin'[p].state = IF plugin[p].state = "active" THEN "draining" ELSE plugin[p].state
  BY <1>4 DEF DrainWrite, TransitionBatch, PluginRow
<1>8. ASSUME NEW y \in Plugins
      PROVE  /\ plugin'[y].release = plugin[y].release
             /\ plugin'[y].manifest = (plugin'[y].state = "active")
             /\ plugin'[y].state \in {"active", "draining"} <=>
                  plugin[y].state \in {"active", "draining"}
  BY <1>5, <1>6, <1>7
<1>9. UNCHANGED <<enabled, pointer, candidate, lock, recon, op, compensated, console, work>>
  BY DEF DrainWrite, Frame
<1>10. /\ World' /\ Running' = Running
       /\ (Stored(o) /\ o \notin compensated /\ pointer.active # o)'
  BY <1>1, <1>2, <1>8, <1>9, RowsHold
<1>11. PICK x : x = req[r]
  OBVIOUS
<1>12. \A y \in Plugins : plugin'[y].state = "draining" /\ work'[y] => y = p
  BY <1>3, <1>6, <1>9
<1>13. pc'[r] = "busy" /\ req'[r] = x => At(r, o)'
  BY <1>3, <1>10, <1>11, <1>12 DEF At, Starting, Preparing, Activating, Published, Ending
<1>14. Goto(r, "busy") /\ UNCHANGED req
  BY DEF DrainWrite
<1>15. Acting'
  BY <1>1, <1>2, <1>10, <1>11, <1>13, <1>14, GoesOn DEF Away
<1> QED BY <1>10, <1>15

\* Writes to the candidates before the release is activated.
LEMMA CandidatesHold ==
  ASSUME Hold, NEW r \in Requests, pc[r] \in Preparing,
         NEW o \in Ops, o = req[r].op, ~Lasting(o),
         UNCHANGED <<plugin, enabled, pointer, recon, op, compensated, console, work>>,
         \A x \in Ops : x # o /\ candidate[x] = "activated" => candidate'[x] = "activated",
         \A x : x # o => lock'[x] = lock[x]
  PROVE  /\ World' /\ Running' = Running
         /\ (Stored(o) /\ o \notin compensated /\ pointer.active # o /\ Quiet(plugin))'
         /\ \A p \in Plugins : ~(plugin'[p].state = "draining" /\ work'[p])
<1>1. pc[r] \notin Away
  BY DEF Preparing, Away
<1>2. OpHolds(o) /\ Running = {o} /\ At(r, o)
  BY <1>1, AtWork
<1>3. Stored(o) /\ o \notin compensated /\ pointer.active # o /\ Quiet(plugin)
  BY <1>2 DEF At
<1>4. \A x \in Ops : (Stored(x)' <=> Stored(x)) /\ (x # o /\ Lasting(x) => Lasting(x)')
  BY DEF Stored, Lasting
<1>5. op[o].status = "running"
  BY <1>2 DEF Running
<1>6. Sound(op[o].snap)'
  BY <1>2, <1>3, <1>4, <1>5, StoredSoundStays DEF OpHolds
<1>7. Quiet(plugin)'
  BY <1>3 DEF Quiet
<1>8. OpHolds(o)'
  BY <1>2, <1>3, <1>4, <1>6, <1>7 DEF OpHolds
<1>9. Coherent(plugin, pointer)'
  <2>1. InState(plugin, {"active", "draining"})' = InState(plugin, {"active", "draining"})
    BY DEF InState
  <2> QED BY <1>3, <2>1 DEF Hold, World, Coherent
<1>10. \A x \in Ops : Names(plugin, pointer, x)' => Names(plugin, pointer, x) /\ x # o
  BY DEF Names, Hold, World
<1>11. World' /\ Running' = Running
  <2>1. \A x \in Ops : Names(plugin, pointer, x)' =>
          /\ Lasting(x)' /\ Lasting(x)
          /\ op[x].status \in {"running", "succeeded"}
    BY <1>4, <1>10 DEF Hold, World
  <2>2. \A x \in Ops : op'[x].status = op[x].status
    OBVIOUS
  <2> QED BY <1>2, <1>4, <1>8, <1>9, <2>1, <2>2, WorldKept DEF Hold
<1> QED BY <1>3, <1>4, <1>7, <1>11 DEF Quiet

LEMMA CompileHolds ==
  ASSUME Hold, NEW r \in Requests, Compile(r)
  PROVE  World' /\ Acting'
<1>1. pc[r] \in Preparing /\ pc[r] \notin Away
  BY DEF Compile, Preparing, Away
<1>2. PICK o \in Ops : o = req[r].op
  BY <1>1, AtWork
<1>3. req[r] \in Request /\ lock \in [Releases -> SUBSET Plugins]
  BY DEF Hold, TypeInv, TypeOK
<1>4. UNCHANGED <<plugin, enabled, pointer, recon, op, compensated, console, work>>
  BY DEF Compile, Frame
<1>5. CASE Refuse(r) /\ UNCHANGED <<candidate, lock>>
  <2>1. Silent
    BY <1>4, <1>5 DEF Silent, tables
  <2> QED BY <1>1, <1>5, <2>1, SilentKeeps, GivesUp
<1>6. CASE ~(Refuse(r) /\ UNCHANGED <<candidate, lock>>)
  <2>1. /\ candidate[o] = "none"
        /\ candidate' = [x \in Ops |->
                            IF x = o THEN "validated"
                            ELSE IF candidate[x] = "validated" THEN "superseded"
                            ELSE candidate[x]]
        /\ lock' = [lock EXCEPT ![o] = req[r].lock]
        /\ Goto(r, "approve") /\ Remember(r, [req[r] EXCEPT !.lock = {}])
    BY <1>2, <1>6 DEF Compile
  <2>2. /\ ~Lasting(o)
        /\ \A x \in Ops : x # o /\ candidate[x] = "activated" => candidate'[x] = "activated"
    BY <2>1 DEF Lasting
  <2>3. \A x : x # o => lock'[x] = lock[x]
    BY <1>3, <2>1
  <2>4. /\ World' /\ Running' = Running
        /\ (Stored(o) /\ o \notin compensated /\ pointer.active # o /\ Quiet(plugin))'
    BY <1>1, <1>2, <1>4, <2>2, <2>3, CandidatesHold
  <2>5. PICK x : x = [req[r] EXCEPT !.lock = {}]
    OBVIOUS
  <2>6. x.op = o
    BY <1>2, <1>3, <2>5 DEF Request
  <2>7. pc'[r] = "approve" /\ req'[r] = x => At(r, o)'
    BY <2>4 DEF At, Starting, Preparing, Activating, Published, Ending
  <2>8. Goto(r, "approve") /\ Remember(r, x) /\ "approve" \notin Away
    BY <2>1, <2>5 DEF Away
  <2>9. Acting'
    BY <1>1, <1>2, <2>4, <2>6, <2>7, <2>8, GoesOn
  <2> QED BY <2>4, <2>9
<1> QED BY <1>5, <1>6

LEMMA ApproveHolds ==
  ASSUME Hold, NEW r \in Requests, Approve(r)
  PROVE  World' /\ Acting'
<1>1. pc[r] \in Preparing /\ pc[r] \notin Away
  BY DEF Approve, Preparing, Away
<1>2. PICK o \in Ops : o = req[r].op
  BY <1>1, AtWork
<1>3. req[r] \in Request /\ candidate \in
        [Ops -> {"none", "validated", "approved", "activated", "superseded"}]
  BY DEF Hold, TypeInv, TypeOK
<1>4. UNCHANGED <<plugin, enabled, pointer, lock, recon, op, compensated, console, work>>
  BY DEF Approve, Frame
<1>5. CASE Refuse(r) /\ UNCHANGED candidate
  <2>1. Silent
    BY <1>4, <1>5 DEF Silent, tables
  <2> QED BY <1>1, <1>5, <2>1, SilentKeeps, GivesUp
<1>6. CASE ~(Refuse(r) /\ UNCHANGED candidate)
  <2>1. PICK S : /\ candidate[o] = "validated"
                 /\ candidate' = [candidate EXCEPT ![o] = "approved"]
                 /\ Goto(r, "drain")
                 /\ Remember(r, [req[r] EXCEPT !.comps = {}, !.action = "enable", !.todo = S])
    BY <1>2, <1>6 DEF Approve
  <2>2. /\ ~Lasting(o)
        /\ \A x \in Ops : x # o /\ candidate[x] = "activated" => candidate'[x] = "activated"
    BY <1>3, <2>1 DEF Lasting
  <2>3. /\ World' /\ Running' = Running
        /\ (Stored(o) /\ o \notin compensated /\ pointer.active # o)'
        /\ \A p \in Plugins : ~(plugin'[p].state = "draining" /\ work'[p])
    BY <1>1, <1>2, <1>4, <2>2, CandidatesHold
  <2>4. PICK x : x = [req[r] EXCEPT !.comps = {}, !.action = "enable", !.todo = S]
    OBVIOUS
  <2>5. x.op = o
    BY <1>2, <1>3, <2>4 DEF Request
  <2>6. pc'[r] = "drain" /\ req'[r] = x => At(r, o)'
    BY <2>3 DEF At, Starting, Preparing, Activating, Published, Ending
  <2>7. Goto(r, "drain") /\ Remember(r, x) /\ "drain" \notin Away
    BY <2>1, <2>4 DEF Away
  <2>8. Acting'
    BY <1>1, <1>2, <2>3, <2>5, <2>6, <2>7, GoesOn
  <2> QED BY <2>3, <2>8
<1> QED BY <1>5, <1>6

\* The rows after a release is applied: what its lock names is active and
\* registered, nothing else is, and nothing is on its way out.
LEMMA Applied ==
  ASSUME TypeOK, NEW o, NEW named \in SUBSET Plugins, Fresh(plugin, named),
         \A p \in Plugins : plugin[p].manifest = (plugin[p].state = "active"),
         NEW p \in Plugins
  PROVE  LET row == ApplyRelease(plugin, o, named)[p] IN
         /\ row.manifest = (row.state = "active")
         /\ row.state \in {"active", "draining"} <=> p \in named
         /\ row.state # "draining"
         /\ row.release \in {o, plugin[p].release}
<1>1. plugin[p] \in PluginRow
  BY DEF TypeOK
<1>2. p \in named => plugin[p].state \in {"installed", "active"}
  BY DEF Fresh, InState
<1>3. plugin[p].state = "active" => p \in named
  BY DEF Fresh, InState
<1> QED BY <1>1, <1>2, <1>3 DEF ApplyRelease, PluginRow

LEMMA CommitHolds ==
  ASSUME Hold, NEW r \in Requests, Commit(r)
  PROVE  World' /\ Acting'
<1>1. pc[r] = "commit" /\ pc[r] \notin Away
  BY DEF Commit, Away
<1>2. PICK o \in Ops : o = req[r].op /\ At(r, o) /\ OpHolds(o) /\ Running = {o}
  BY <1>1, AtWork
<1>3. /\ lock \in [Releases -> SUBSET Plugins] /\ lock[o] \in SUBSET Plugins
      /\ candidate \in [Ops -> {"none", "validated", "approved", "activated", "superseded"}]
  BY DEF Hold, TypeInv, TypeOK, Releases
<1>4. /\ Stored(o) /\ o \notin compensated
      /\ Fresh(plugin, lock[o])
      /\ op[o].status = "running"
  BY <1>2 DEF Commit, ActivationGuards, ManagedGuard, Running
<1>5. /\ pointer'.active = o
      /\ candidate' = [candidate EXCEPT ![o] = "activated"]
      /\ plugin' = ApplyRelease(plugin, o, lock[o])
      /\ UNCHANGED <<enabled, lock, op, compensated, req, console>>
  BY <1>2 DEF Commit, Frame
<1>6. \A p \in Plugins : plugin[p].manifest = (plugin[p].state = "active")
  BY DEF Hold, World, Coherent
<1>7. ASSUME NEW p \in Plugins
      PROVE  /\ plugin'[p].manifest = (plugin'[p].state = "active")
             /\ plugin'[p].state \in {"active", "draining"} <=> p \in lock[o]
             /\ plugin'[p].state # "draining"
             /\ plugin'[p].release \in {o, plugin[p].release}
  BY <1>3, <1>4, <1>5, <1>6, Applied DEF Hold, TypeInv
<1>8. Quiet(plugin)'
  BY <1>7 DEF Quiet
<1>9. Coherent(plugin, pointer)'
  <2>1. InState(plugin, {"active", "draining"})' = lock[o]
    BY <1>3, <1>7 DEF InState
  <2>2. o # None
    BY ConstantsAssumption
  <2> QED BY <1>5, <1>7, <2>1, <2>2 DEF Coherent
<1>10. \A x \in Ops : (Stored(x)' <=> Stored(x)) /\ (Lasting(x) => Lasting(x)')
  BY <1>3, <1>5 DEF Stored, Lasting
<1>11. Lasting(o)'
  BY <1>3, <1>4, <1>5 DEF Lasting, Stored
<1>12. ASSUME NEW x \in Ops, Names(plugin, pointer, x)', x # o
       PROVE  Lasting(x) /\ op[x].status \in {"running", "succeeded"}
  <2>1. Names(plugin, pointer, x)
    BY <1>5, <1>7, <1>12 DEF Names
  <2> QED BY <2>1 DEF Hold, World
<1>13. Sound(op[o].snap)'
  BY <1>2, <1>4, <1>5, <1>10, StoredSoundStays DEF OpHolds
<1>14. OpHolds(o)'
  BY <1>4, <1>5, <1>8, <1>10, <1>13 DEF OpHolds
<1>15. World' /\ Running' = Running
  <2>1. \A x \in Ops : op'[x].status = op[x].status
    BY <1>5
  <2>2. \A x \in Ops : Names(plugin, pointer, x)' =>
          /\ Lasting(x)' /\ (Lasting(x) \/ x = o)
          /\ x = o \/ op[x].status \in {"running", "succeeded"}
    BY <1>10, <1>11, <1>12
  <2> QED BY <1>2, <1>5, <1>9, <1>10, <1>14, <2>1, <2>2, WorldKept DEF Hold
<1>16. PICK x : x = req[r]
  OBVIOUS
<1>17. pc'[r] = "finalize" /\ req'[r] = x => At(r, o)'
  BY <1>5, <1>8 DEF At, Starting, Preparing, Activating, Published, Ending
<1>18. Goto(r, "finalize") /\ UNCHANGED req /\ "finalize" \notin Away
  BY DEF Commit, Away
<1>19. Acting'
  BY <1>1, <1>2, <1>15, <1>16, <1>17, <1>18, GoesOn
<1> QED BY <1>15, <1>19

\* The flags are written from rows that have not changed since they were read.
LEMMA SyncHolds ==
  ASSUME Hold, NEW r \in Requests, SyncWrite(r)
  PROVE  World' /\ Acting'
<1>1. pc[r] = "syncWrite" /\ pc[r] \notin Away
  BY DEF SyncWrite, Away
<1>2. PICK o \in Ops : o = req[r].op /\ At(r, o) /\ OpHolds(o) /\ Running = {o}
  BY <1>1, AtWork
<1>3. req[r] \in Request
  BY DEF Hold, TypeInv, TypeOK
<1>4. UNCHANGED <<plugin, pointer, candidate, lock, op, compensated, console>>
  BY DEF SyncWrite, Frame
<1>5. /\ \A x \in Ops : (Stored(x)' <=> Stored(x)) /\ (Lasting(x)' <=> Lasting(x))
      /\ \A x \in Ops : Names(plugin, pointer, x)' <=> Names(plugin, pointer, x)
      /\ Quiet(plugin)' <=> Quiet(plugin)
      /\ Coherent(plugin, pointer)' <=> Coherent(plugin, pointer)
      /\ InState(plugin, {"active"})' = InState(plugin, {"active"})
      /\ StatesOf(plugin)' = StatesOf(plugin)
  BY <1>4 DEF Stored, Lasting, Names, Quiet, Coherent, InState, StatesOf
<1>6. Undone(o)' <=> Undone(o)
  BY <1>4, <1>5 DEF Undone
<1>7. op[o].status = "running"
  BY <1>2 DEF Running
<1>8. Stored(o) => Sound(op[o].snap)'
  BY <1>2, <1>4, <1>5, <1>7, StoredSoundStays DEF OpHolds
<1>9. OpHolds(o)'
  BY <1>2, <1>4, <1>5, <1>6, <1>8 DEF OpHolds
<1>10. World' /\ Running' = Running
  <2>1. \A x \in Ops : Names(plugin, pointer, x) =>
          Lasting(x) /\ op[x].status \in {"running", "succeeded"}
    BY DEF Hold, World
  <2>2. Coherent(plugin, pointer)' /\ \A x \in Ops : op'[x].status = op[x].status
    BY <1>4, <1>5 DEF Hold, World
  <2> QED BY <1>2, <1>4, <1>5, <1>9, <2>1, <2>2, WorldKept DEF Hold
<1>11. Follow'
  BY <1>1, <1>2, <1>5 DEF SyncWrite, At, Follow
<1>12. PICK x : x = [req[r] EXCEPT !.seen = {}, !.after = "complete"]
  OBVIOUS
<1>13. x.op = o /\ x.ok = req[r].ok
  BY <1>2, <1>3, <1>12 DEF Request
<1>14. req[r].after \in {"publish", "complete"}
  BY <1>3 DEF Request
<1>15. Goto(r, req[r].after) /\ Remember(r, x)
  BY <1>12 DEF SyncWrite
<1>16. CASE req[r].after = "publish"
  <2>1. (pointer.active = o /\ Quiet(plugin))'
    BY <1>1, <1>2, <1>4, <1>5, <1>16 DEF At, Published
  <2>2. pc'[r] = "publish" /\ req'[r] = x => At(r, o)'
    BY <2>1 DEF At, Starting, Preparing, Activating, Published, Ending
  <2>3. Goto(r, "publish") /\ "publish" \notin Away
    BY <1>15, <1>16 DEF Away
  <2>4. Acting'
    BY <1>1, <1>2, <1>10, <1>13, <1>15, <2>2, <2>3, GoesOn
  <2> QED BY <1>10, <2>4
<1>17. CASE req[r].after = "complete"
  <2>1. IF req[r].ok THEN Quiet(plugin)' /\ (Stored(o)' => pointer'.active = o)
        ELSE Undone(o)'
    BY <1>1, <1>2, <1>4, <1>5, <1>6, <1>17 DEF At, Ending
  <2>2. pc'[r] = "complete" /\ req'[r] = x => At(r, o)'
    BY <1>11, <1>13, <2>1 DEF At, Starting, Preparing, Activating, Published, Ending
  <2>3. Goto(r, "complete") /\ "complete" \notin Away
    BY <1>15, <1>17 DEF Away
  <2>4. Acting'
    BY <1>1, <1>2, <1>10, <1>13, <1>15, <2>2, <2>3, GoesOn
  <2> QED BY <1>10, <2>4
<1> QED BY <1>14, <1>16, <1>17

\* Writing a snapshot back undoes the operation.
LEMMA Restored ==
  ASSUME Hold, NEW o \in Ops, Running = {o}, Stored(o), OpHolds(o),
         plugin' = op[o].snap.plugin,
         pointer'.active = op[o].snap.pointer.active,
         compensated' \in {compensated, compensated \cup {o}},
         UNCHANGED <<candidate, lock, op, console>>
  PROVE  World' /\ Running' = Running /\ (Stored(o) /\ Undone(o) /\ pointer.active # o)'
<1>1. op[o].status = "running" /\ Sound(op[o].snap)
  BY DEF Running, OpHolds
<1>2. \A x \in Ops : (Stored(x)' <=> Stored(x)) /\ (x # o => (Lasting(x)' <=> Lasting(x)))
  BY DEF Stored, Lasting
<1>3. ASSUME NEW x \in Ops, Names(plugin, pointer, x)'
      PROVE  Lasting(x) /\ op[x].status = "succeeded" /\ x # o
  <2>1. Names(op[o].snap.plugin, op[o].snap.pointer, x)
    BY <1>3 DEF Names
  <2> QED BY <1>1, <2>1 DEF Sound
<1>4. Sound(op[o].snap)'
  BY <1>1, <1>2, StoredSoundStays
<1>5. StatesOf(plugin)' = StatesOf(op[o].snap.plugin)'
  BY DEF StatesOf
<1>6. ~Names(plugin, pointer, o)'
  BY <1>3
<1>7. Undone(o)' /\ Stored(o)' /\ pointer'.active # o
  BY <1>2, <1>5, <1>6 DEF Undone, Names
<1>8. Quiet(plugin)' /\ Coherent(plugin, pointer)'
  <2>1. Coherent(op[o].snap.plugin, op[o].snap.pointer) /\ Quiet(op[o].snap.plugin)
    BY <1>1 DEF Sound
  <2> QED BY <2>1 DEF Coherent, Quiet, InState
<1>9. OpHolds(o)'
  BY <1>4, <1>7, <1>8 DEF OpHolds
<1>10. World' /\ Running' = Running
  <2>1. \A x \in Ops : Names(plugin, pointer, x)' =>
          Lasting(x)' /\ Lasting(x) /\ op[x].status \in {"running", "succeeded"}
    BY <1>2, <1>3
  <2>2. \A x \in Ops : x # o => (x \in compensated' <=> x \in compensated)
    OBVIOUS
  <2>3. \A x \in Ops : op'[x].status = op[x].status
    OBVIOUS
  <2> QED BY <1>2, <1>8, <1>9, <2>1, <2>2, <2>3, WorldKept DEF Hold
<1> QED BY <1>7, <1>10

LEMMA RestoreHolds ==
  ASSUME Hold, NEW r \in Requests, RestoreWrite(r)
  PROVE  World' /\ Acting'
<1>1. pc[r] = "restoreWrite" /\ pc[r] \notin Away
  BY DEF RestoreWrite, Away
<1>2. PICK o \in Ops : o = req[r].op /\ At(r, o) /\ OpHolds(o) /\ Running = {o}
  BY <1>1, AtWork
<1>3. Stored(o) /\ pointer.active = op[o].snap.pointer.active
  BY <1>1, <1>2 DEF At, OpHolds
<1>4. /\ plugin' = op[o].snap.plugin
      /\ UNCHANGED <<pointer, candidate, lock, op, compensated, console>>
  BY <1>2 DEF RestoreWrite, Frame
<1>5. World' /\ Running' = Running /\ Undone(o)'
  BY <1>2, <1>3, <1>4, Restored
<1>6. Acting'
  BY <1>1, <1>2, <1>5, Synchronizes DEF RestoreWrite
<1> QED BY <1>5, <1>6

LEMMA CompensateHolds ==
  ASSUME Hold, NEW r \in Requests, CompensateWrite(r)
  PROVE  World' /\ Acting'
<1>1. pc[r] = "compensateWrite" /\ pc[r] \notin Away
  BY DEF CompensateWrite, Away
<1>2. PICK o \in Ops : o = req[r].op /\ At(r, o) /\ OpHolds(o) /\ Running = {o}
  BY <1>1, AtWork
<1>3. op[o].snap \in Snapshot /\ req[r] \in Request
  BY <1>1, <1>2 DEF Hold, TypeInv, TypeOK, Equipped
<1>4. Stored(o) /\ pointer.active = o /\ pointer.revision = req[r].rev
  BY <1>1, <1>2, <1>3, SnapshotsAreThere DEF At, Stored
<1>5. /\ plugin' = op[o].snap.plugin
      /\ pointer'.active = op[o].snap.pointer.active
      /\ compensated' = compensated \cup {o}
      /\ UNCHANGED <<candidate, lock, op, console>>
  BY <1>2, <1>4 DEF CompensateWrite, Frame
<1>6. World' /\ Running' = Running
  BY <1>2, <1>4, <1>5, Restored
<1>7. PICK x : x = [req[r] EXCEPT !.rev = 0, !.stamp = 0]
  OBVIOUS
<1>8. x.op = o
  BY <1>2, <1>3, <1>7 DEF Request
<1>9. pc'[r] = "compensateReload" /\ req'[r] = x => At(r, o)'
  BY <1>5 DEF At, Starting, Preparing, Activating, Published, Ending
<1>10. Goto(r, "compensateReload") /\ Remember(r, x) /\ "compensateReload" \notin Away
  BY <1>7 DEF CompensateWrite, Away
<1>11. Acting'
  BY <1>1, <1>2, <1>6, <1>8, <1>9, <1>10, GoesOn
<1> QED BY <1>6, <1>11

\* The outcome of an operation that ends.
LEMMA Completes ==
  ASSUME Hold, NEW r \in Requests, Complete(r)
  PROVE  \E o \in Ops :
           /\ o = req[r].op /\ At(r, o) /\ OpHolds(o) /\ Running = {o}
           /\ op'[o].status = IF req[r].ok THEN "succeeded" ELSE "failed"
           /\ op'[o].snap = op[o].snap
           /\ \A x \in Ops \ {o} : op'[x] = op[x]
           /\ pc'[r] \in Away /\ req'[r].op = None
           /\ \A s \in Requests \ {r} : pc'[s] = pc[s] /\ req'[s] = req[s]
<1>1. pc[r] = "complete" /\ pc[r] \notin Away
  BY DEF Complete, Away
<1>2. PICK o \in Ops : o = req[r].op /\ At(r, o) /\ OpHolds(o) /\ Running = {o} /\ Owns(r)
  BY <1>1, AtWork
<1>3. op \in [Ops -> OpRow]
  BY DEF Hold, TypeInv, TypeOK
<1>4. op' = [op EXCEPT ![o].status = IF req[r].ok THEN "succeeded" ELSE "failed"]
  BY <1>2 DEF Complete
<1>5. /\ op'[o].status = (IF req[r].ok THEN "succeeded" ELSE "failed")
      /\ op'[o].snap = op[o].snap
      /\ \A x \in Ops \ {o} : op'[x] = op[x]
  BY <1>3, <1>4 DEF OpRow
<1>6. /\ pc'[r] \in Away /\ req'[r].op = None
      /\ \A s \in Requests \ {r} : pc'[s] = pc[s] /\ req'[s] = req[s]
  <2>1. PICK x, y : x = [Idle EXCEPT !.kind = "action"] /\ y = Idle
    OBVIOUS
  <2>2. x.op = None /\ y.op = None
    BY <2>1 DEF Idle
  <2>3. (Goto(r, "begin") /\ Remember(r, x)) \/ (Goto(r, "idle") /\ Remember(r, y))
    BY <2>1 DEF Complete, Answer
  <2> QED BY <2>2, <2>3, GoesTo DEF Away, Hold, TypeInv
<1> QED BY <1>2, <1>5, <1>6

LEMMA CompleteHolds ==
  ASSUME Hold, NEW r \in Requests, Complete(r)
  PROVE  World' /\ Acting'
<1>1. pc[r] = "complete" /\ pc[r] \notin Away
  BY DEF Complete, Away
<1>2. PICK o \in Ops :
           /\ o = req[r].op /\ At(r, o) /\ OpHolds(o) /\ Running = {o}
           /\ op'[o].status = IF req[r].ok THEN "succeeded" ELSE "failed"
           /\ op'[o].snap = op[o].snap
           /\ \A x \in Ops \ {o} : op'[x] = op[x]
           /\ pc'[r] \in Away /\ req'[r].op = None
           /\ \A s \in Requests \ {r} : pc'[s] = pc[s] /\ req'[s] = req[s]
  BY Completes
<1>3. UNCHANGED <<plugin, enabled, pointer, candidate, lock, compensated, console>>
  BY DEF Complete, Frame
<1>4. op[o].status = "running" /\ Running' = {}
  BY <1>2 DEF Running
<1>5. \A x \in Ops : (Stored(x)' <=> Stored(x)) /\ (Lasting(x)' <=> Lasting(x))
  BY <1>2, <1>3 DEF Stored, Lasting
<1>6. Follow /\ IF req[r].ok THEN Quiet(plugin) /\ (Stored(o) => pointer.active = o)
                ELSE Undone(o)
  BY <1>1, <1>2 DEF At, Ending
<1>7. Quiet(plugin)
  <2>1. CASE req[r].ok \/ ~Stored(o)
    BY <1>2, <1>6, <2>1 DEF OpHolds
  <2>2. CASE ~req[r].ok /\ Stored(o)
    <3>1. StatesOf(plugin) = StatesOf(op[o].snap.plugin) /\ Quiet(op[o].snap.plugin)
      BY <1>2, <1>6, <2>2 DEF Undone, OpHolds, Sound
    <3>2. \A p \in Plugins : /\ StatesOf(plugin)[p] = plugin[p].state
                            /\ StatesOf(op[o].snap.plugin)[p] = op[o].snap.plugin[p].state
      BY DEF StatesOf
    <3> QED BY <3>1, <3>2 DEF Quiet
  <2> QED BY <2>1, <2>2
<1>8. Quiet(plugin)' /\ Follow' /\ Coherent(plugin, pointer)'
  BY <1>3, <1>6, <1>7 DEF Quiet, Follow, InState, Coherent, Hold, World
<1>9. ASSUME NEW x \in Ops, Names(plugin, pointer, x)'
      PROVE  Lasting(x)' /\ op'[x].status \in {"running", "succeeded"}
  <2>1. Names(plugin, pointer, x)
    BY <1>3, <1>9 DEF Names
  <2>2. Lasting(x) /\ op[x].status \in {"running", "succeeded"}
    BY <2>1 DEF Hold, World
  <2>3. x = o => req[r].ok
    BY <1>6, <2>1 DEF Undone
  <2> QED BY <1>2, <1>5, <2>2, <2>3
<1>10. ASSUME NEW x \in Ops, op'[x].status = "succeeded", Stored(x)'
       PROVE  Lasting(x)'
  <2>1. CASE x = o
    <3>1. Names(plugin, pointer, o)
      BY <1>2, <1>5, <1>6, <1>10, <2>1 DEF Names
    <3> QED BY <1>5, <2>1, <3>1 DEF Hold, World
  <2>2. CASE x # o
    BY <1>2, <1>5, <1>10, <2>2 DEF Hold, World
  <2> QED BY <2>1, <2>2
<1>11. ASSUME NEW x \in Ops, op'[x].status = "absent"
       PROVE  ~Stored(x)' /\ x \notin compensated'
  BY <1>2, <1>3, <1>5, <1>11 DEF Hold, World
<1>12. World'
  <2>1. console'.step = "idle" /\ console'.left = 0
    BY <1>3 DEF Hold, World
  <2> QED BY <1>4, <1>8, <1>9, <1>10, <1>11, <2>1 DEF World
<1>13. \A s \in Requests \ {r} : pc[s] \in Away /\ req[s].op = None
  BY <1>1, AtWork
<1>14. Acting'
  BY <1>2, <1>13 DEF Acting, Away
<1> QED BY <1>12, <1>14
------------------------------------------------------------------------------
(* The invariant.                                                          *)

LEMMA InitHolds == MaxConsole = 0 /\ Init => World /\ Acting
<1> SUFFICES ASSUME MaxConsole = 0, Init PROVE World /\ Acting
  OBVIOUS
<1>1. PICK L \in InitialLocks, started \in BOOLEAN :
        /\ ~started => L = {}
        /\ plugin = [p \in Plugins |->
                       IF p \in L
                       THEN [state |-> "active", health |-> "ready", manifest |-> TRUE,
                             staged |-> "none", release |-> Base]
                       ELSE [state |-> "available", health |-> "unavailable",
                             manifest |-> FALSE, staged |-> "none", release |-> None]]
        /\ enabled = EnabledBy(L)
        /\ pointer.active = IF started THEN Base ELSE None
        /\ lock = [x \in Releases |-> IF x = Base THEN L ELSE {}]
  BY DEF Init
<1>2. \A o \in Ops : op[o].status = "absent" /\ op[o].snap = NoSnapshot
  BY DEF Init
<1>3. L \subseteq Plugins
  BY BoundsAssumption
<1>4. \A p \in Plugins : /\ plugin[p].state = IF p \in L THEN "active" ELSE "available"
                        /\ plugin[p].manifest = (plugin[p].state = "active")
                        /\ plugin[p].release \in {Base, None}
  <2>1. ASSUME NEW p \in Plugins, p \in L
        PROVE  plugin[p].state = "active" /\ plugin[p].manifest = TRUE /\ plugin[p].release = Base
    BY <1>1, <2>1
  <2>2. ASSUME NEW p \in Plugins, p \notin L
        PROVE  plugin[p].state = "available" /\ plugin[p].manifest = FALSE
               /\ plugin[p].release = None
    BY <1>1, <2>2
  <2>3. ASSUME NEW p \in Plugins
        PROVE  /\ plugin[p].state = IF p \in L THEN "active" ELSE "available"
               /\ plugin[p].manifest = (plugin[p].state = "active")
               /\ plugin[p].release \in {Base, None}
    <3>1. CASE p \in L
      BY <2>1, <3>1
    <3>2. CASE p \notin L
      BY <2>2, <3>2
    <3> QED BY <3>1, <3>2
  <2> QED BY <2>3
<1>5. InState(plugin, {"active", "draining"}) = L /\ InState(plugin, {"active"}) = L
  BY <1>3, <1>4 DEF InState
<1>6. Base # None /\ Base \in Releases /\ \A o \in Ops : o # Base /\ o # None
  BY ConstantsAssumption DEF Releases
<1>7. lock[Base] = L
  BY <1>1, <1>6
<1>8. Coherent(plugin, pointer)
  BY <1>1, <1>4, <1>5, <1>6, <1>7 DEF Coherent
<1>9. \A o \in Ops : ~Names(plugin, pointer, o)
  BY <1>1, <1>4, <1>6 DEF Names
<1>10. Running = {}
  BY <1>2 DEF Running
<1>11. Quiet(plugin) /\ Follow
  BY <1>1, <1>4, <1>5 DEF Quiet, Follow
<1>12. \A o \in Ops : ~Stored(o) /\ o \notin compensated
  BY <1>2 DEF Stored, Init
<1>13. console.step = "idle" /\ console.left = 0
  BY DEF Init
<1>14. World
  BY <1>2, <1>8, <1>9, <1>10, <1>11, <1>12, <1>13 DEF World
<1>15. Acting
  BY DEF Init, Acting, Idle
<1> QED BY <1>14, <1>15

LEMMA NextHoldsWorld == Hold /\ [Next]_vars => World' /\ Acting'
<1> SUFFICES ASSUME Hold, [Next]_vars PROVE World' /\ Acting'
  OBVIOUS
<1>1. ASSUME NEW r \in Requests, Step(r) PROVE World' /\ Acting'
  <2>1. CASE \/ BeginRefused(r)
             \/ \E o \in Ops, kind \in {"action", "page"} : Claim(r, o, kind)
    BY <2>1, FaultHolds, ClaimHolds
  <2>2. CASE Classify(r) \/ SnapshotRead(r) \/ Plan(r) \/ InstallRead(r) \/ Slice(r)
             \/ Rejected(r)
    BY <2>2, PreparesSilently
  <2>3. CASE SnapshotWrite(r) \/ (\E down \in SUBSET Plugins : InstallWrite(r, down))
             \/ Compile(r) \/ Approve(r) \/ (\E p \in Plugins : DrainWrite(r, p))
    BY <2>3, SnapshotHolds, InstallHolds, CompileHolds, ApproveHolds, DrainWriteHolds
  <2>4. CASE \/ Renew(r, "renewInstall", "installRead") \/ Renew(r, "renewSlice", "slice")
             \/ Renew(r, "renewActivate", "preflight")
             \/ Renew(r, "renewCompensate", "compensateRead")
    BY <2>4, RenewHolds
  <2>5. CASE \/ \E p \in Plugins : Drain(r, p) \/ Busy(r, p)
             \/ Drained(r) \/ Preflight(r) \/ CommitRefused(r)
    BY <2>5, DrainsSilently
  <2>6. CASE Prepare(r) \/ Commit(r) \/ SyncWrite(r) \/ RestoreWrite(r) \/ CompensateWrite(r)
             \/ MarkRecovery(r) \/ Complete(r)
    BY <2>6, PrepareHolds, CommitHolds, SyncHolds, RestoreHolds, CompensateHolds, MarkHolds,
       CompleteHolds
  <2>7. CASE Finalize(r) \/ Publish(r) \/ SyncRead(r)
    BY <2>7, PublishesSilently
  <2>8. CASE \/ Refused(r) \/ Threw(r) \/ Recover(r) \/ CompensateRead(r)
             \/ CompensateAborted(r) \/ CompensateReload(r)
    BY <2>8, UndoesSilently
  <2> QED BY <1>1, <2>1, <2>2, <2>3, <2>4, <2>5, <2>6, <2>7, <2>8 DEF Step
<1>2. ASSUME NEW r \in Requests, NEW o \in Ops, NEW action \in {"enable", "disable"},
             NEW k \in Packages, Begin(r, o, action, k)
      PROVE  World' /\ Acting'
  BY <1>2, BeginHolds
<1>3. CASE Environment \/ UNCHANGED vars
  BY <1>3, EnvironmentHolds, FaultHolds DEF Environment
<1> QED BY <1>1, <1>2, <1>3 DEF Next

LEMMA HoldInvariant ==
  ASSUME ~Overrun, MaxConsole = 0
  PROVE  Spec => []Hold
<1>1. Init => World /\ Acting
  BY InitHolds
<1>2. Hold /\ [Next]_vars => World' /\ Acting'
  BY NextHoldsWorld
<1>3. TypeInv /\ OwnersOnly /\ World /\ Acting => Hold
  BY DEF Hold
<1> QED BY <1>1, <1>2, <1>3, TypeInvariant, OwnersInvariant, PTL DEF Spec
------------------------------------------------------------------------------
(* The theorems.                                                           *)

\* The release that is served and the lifecycle rows agree at every moment.
THEOREM ReleasesMatch ==
  ASSUME ~Overrun, MaxConsole = 0
  PROVE  Spec => []ReleaseMatchesLifecycle
<1>1. Hold => ReleaseMatchesLifecycle
  BY DEF Hold, World, Coherent, ReleaseMatchesLifecycle, Served
<1> QED BY <1>1, HoldInvariant, PTL

\* Nothing runs that the active release does not name.
THEOREM ServedOnly ==
  ASSUME ~Overrun, MaxConsole = 0
  PROVE  Spec => []OnlyServedRuns
<1>1. Hold => OnlyServedRuns
  BY DEF Hold, World, Coherent, OnlyServedRuns, Served
<1> QED BY <1>1, HoldInvariant, PTL

\* A component is registered exactly while it is active.
THEOREM ManifestsMatch ==
  ASSUME ~Overrun, MaxConsole = 0
  PROVE  Spec => []ManifestsFollowLifecycle
<1>1. Hold => ManifestsFollowLifecycle
  BY DEF Hold, World, Coherent, ManifestsFollowLifecycle
<1> QED BY <1>1, HoldInvariant, PTL

\* A failed operation leaves neither its release active nor a component running
\* by it.
THEOREM FailuresLeaveNothing ==
  ASSUME ~Overrun, MaxConsole = 0
  PROVE  Spec => []FailureLeavesNoRelease
<1>1. ASSUME Hold, NEW o \in Ops, op[o].status = "failed"
      PROVE  pointer.active # o /\ \A p \in Plugins : plugin[p].release # o
  BY <1>1 DEF Hold, World, Names
<1>2. Hold => FailureLeavesNoRelease
  BY <1>1 DEF FailureLeavesNoRelease
<1> QED BY <1>2, HoldInvariant, PTL

\* What answered with success was activated and is not compensated.
THEOREM SuccessesArePublished ==
  ASSUME ~Overrun, MaxConsole = 0
  PROVE  Spec => []SuccessIsPublished
<1>1. Hold => SuccessIsPublished
  BY DEF Hold, World, Lasting, SuccessIsPublished
<1> QED BY <1>1, HoldInvariant, PTL

\* The package flags are those of the lifecycle whenever nothing runs.
THEOREM PackagesFollow ==
  ASSUME ~Overrun, MaxConsole = 0
  PROVE  Spec => []PackagesFollowLifecycle
<1>1. ASSUME Hold, Running = {}, NEW k \in Packages
      PROVE  enabled[k] <=> \E p \in Components[k] : plugin[p].state = "active"
  <2>1. enabled[k] = (Components[k] \cap InState(plugin, {"active"}) # {})
    BY <1>1 DEF Hold, World, Follow, EnabledBy
  <2>2. Components[k] \subseteq Plugins
    BY ConstantsAssumption
  <2> QED BY <2>1, <2>2 DEF InState
<1>2. Hold => PackagesFollowLifecycle
  BY <1>1 DEF PackagesFollowLifecycle
<1> QED BY <1>2, HoldInvariant, PTL

\* The moment its failure is recorded, an operation has given back what it found.
THEOREM FailuresRestore ==
  ASSUME ~Overrun, MaxConsole = 0
  PROVE  Spec => FailureRestores
<1>1. ASSUME Hold, [Next]_vars, NEW o \in Ops, op[o].status = "running",
             op'[o].status = "failed", Stored(o)
      PROVE  /\ StatesOf(plugin) = StatesOf(op[o].snap.plugin)
             /\ pointer.active = op[o].snap.pointer.active
  <2>1. op \in [Ops -> OpRow]
    BY <1>1 DEF Hold, TypeInv, TypeOK
  <2>2. ASSUME NEW r \in Requests, Complete(r)
        PROVE  /\ StatesOf(plugin) = StatesOf(op[o].snap.plugin)
               /\ pointer.active = op[o].snap.pointer.active
    <3>1. PICK x \in Ops :
            /\ x = req[r].op /\ At(r, x)
            /\ op'[x].status = IF req[r].ok THEN "succeeded" ELSE "failed"
            /\ \A y \in Ops \ {x} : op'[y] = op[y]
      BY <1>1, <2>2, Completes
    <3>2. x = o /\ ~req[r].ok
      BY <1>1, <3>1
    <3>3. Undone(o)
      BY <2>2, <3>1, <3>2 DEF Complete, At, Ending
    <3> QED BY <1>1, <3>3 DEF Undone
  <2>3. ASSUME NEW r \in Requests, OwnRow(r) PROVE Complete(r)
    <3>1. CASE MarkRecovery(r)
      BY <1>1, <2>1, <3>1 DEF MarkRecovery, OpRow
    <3>2. CASE SnapshotWrite(r)
      BY <1>1, <2>1, <3>2 DEF SnapshotWrite, OpRow
    <3>3. ASSUME NEW from \in Labels, NEW to \in Labels \ Writing, Renew(r, from, to)
          PROVE  FALSE
      <4>1. UNCHANGED op \/ op' = [op EXCEPT ![req[r].op].expires = now + 1]
        BY <3>3 DEF Renew
      <4> QED BY <1>1, <2>1, <4>1 DEF OpRow
    <3> QED BY <2>3, <3>1, <3>2, <3>3 DEF OwnRow
  <2>4. ~\E r \in Requests, x \in Ops, action \in {"enable", "disable"}, k \in Packages :
           Begin(r, x, action, k)
    BY <1>1, <2>1 DEF Begin, OpRow
  <2>5. ASSUME NEW r \in Requests, NEW x \in Ops, NEW kind \in {"action", "page"},
               Claim(r, x, kind)
        PROVE  FALSE
    <3>1. op' = [op EXCEPT ![x].owner = r, ![x].expires = now + 1]
      BY <2>5 DEF Claim
    <3>2. op'[o].status = op[o].status
      BY <2>1, <3>1 DEF OpRow
    <3> QED BY <1>1, <3>2
  <2>6. ~UNCHANGED op
    BY <1>1
  <2> QED BY <1>1, <2>2, <2>3, <2>4, <2>5, <2>6, RowWriters
<1>2. Hold /\ [Next]_vars =>
        [\A o \in Ops : op[o].status = "running" /\ op'[o].status = "failed" /\ Stored(o) =>
           /\ StatesOf(plugin) = StatesOf(op[o].snap.plugin)
           /\ pointer.active = op[o].snap.pointer.active]_vars
  BY <1>1
<1> QED BY <1>2, HoldInvariant, PTL DEF Spec, FailureRestores

\* A restoration disables nothing that is on its way out.
LEMMA RestoringDrains ==
  ASSUME Hold, NEW r \in Requests, RestoreWrite(r) \/ CompensateWrite(r),
         NEW p \in Plugins, plugin[p].state = "draining"
  PROVE  plugin'[p].state # "disabled"
<1>1. pc[r] \notin Away
  BY DEF RestoreWrite, CompensateWrite, Away
<1>2. PICK o \in Ops : o = req[r].op /\ At(r, o) /\ OpHolds(o)
  BY <1>1, AtWork
<1>3. CASE RestoreWrite(r)
  <2>1. Stored(o) /\ pointer.active = op[o].snap.pointer.active /\ Sound(op[o].snap)
    BY <1>2, <1>3 DEF RestoreWrite, At, OpHolds
  <2>2. InState(plugin, {"active", "draining"}) =
          InState(op[o].snap.plugin, {"active", "draining"})
    BY <2>1 DEF Sound, Hold, World, Coherent
  <2>3. op[o].snap.plugin[p].state \in {"active", "draining"}
    BY <2>2 DEF InState
  <2> QED BY <1>2, <1>3, <2>3 DEF RestoreWrite
<1>4. CASE CompensateWrite(r)
  BY <1>2, <1>4 DEF CompensateWrite, At, OpHolds, Quiet
<1> QED BY <1>3, <1>4

\* The release that takes a component out waits for what it accepted.
THEOREM DrainsWait ==
  ASSUME ~Overrun, MaxConsole = 0
  PROVE  Spec => DrainWaits
<1>1. ASSUME Hold, [Next]_vars, NEW p \in Plugins, plugin[p].state = "draining",
             plugin'[p].state = "disabled"
      PROVE  ~work[p]
  <2>1. plugin \in [Plugins -> PluginRow]
    BY <1>1 DEF Hold, TypeInv, TypeOK
  <2>2. console.step = "idle"
    BY <1>1 DEF Hold, World
  <2>3. ASSUME NEW r \in Requests, Commit(r) PROVE ~work[p]
    <3>1. pc[r] = "commit" /\ pc[r] \in Activating /\ pc[r] \notin Away
      BY <2>3 DEF Commit, Activating, Away
    <3>2. PICK o \in Ops : At(r, o)
      BY <1>1, <3>1, AtWork
    <3> QED BY <1>1, <3>1, <3>2 DEF At
  <2>4. ASSUME NEW r \in Requests, NEW down \in SUBSET Plugins, InstallWrite(r, down)
        PROVE  FALSE
    BY <1>1, <2>1, <2>4 DEF InstallWrite, InstallBatch, PluginRow
  <2>5. ASSUME NEW r \in Requests, NEW y \in Plugins, DrainWrite(r, y)
        PROVE  FALSE
    BY <1>1, <2>1, <2>5 DEF DrainWrite, TransitionBatch, PluginRow
  <2>6. ASSUME NEW y \in Plugins, EvidenceExpires(y) PROVE FALSE
    BY <1>1, <2>1, <2>6 DEF EvidenceExpires, PluginRow
  <2>7. ~UNCHANGED plugin
    BY <1>1
  <2>8. ASSUME NEW r \in Requests, Step(r) PROVE ~work[p]
    <3>1. CASE \/ BeginRefused(r) \/ Classify(r) \/ SnapshotRead(r) \/ SnapshotWrite(r)
               \/ (\E o \in Ops, kind \in {"action", "page"} : Claim(r, o, kind))
               \/ Plan(r) \/ InstallRead(r) \/ Slice(r) \/ Compile(r) \/ Approve(r)
               \/ Rejected(r) \/ \E y \in Plugins : Drain(r, y) \/ Busy(r, y)
      BY <2>7, <3>1 DEF BeginRefused, Classify, SnapshotRead, SnapshotWrite, Claim, Plan,
                        InstallRead, Slice, Compile, Approve, Rejected, Drain, Busy, tables
    <3>2. CASE \/ Drained(r) \/ Preflight(r) \/ Prepare(r) \/ CommitRefused(r) \/ Finalize(r)
               \/ Publish(r) \/ SyncRead(r) \/ SyncWrite(r) \/ Refused(r) \/ Threw(r)
               \/ Recover(r) \/ CompensateRead(r) \/ CompensateAborted(r)
               \/ CompensateReload(r) \/ MarkRecovery(r) \/ Complete(r)
               \/ Renew(r, "renewInstall", "installRead") \/ Renew(r, "renewSlice", "slice")
               \/ Renew(r, "renewActivate", "preflight")
               \/ Renew(r, "renewCompensate", "compensateRead")
      BY <2>7, <3>2 DEF Drained, Decide, Preflight, Prepare, CommitRefused, Finalize, Publish,
                        SyncRead, SyncWrite, Refused, Threw, Recover, CompensateRead,
                        CompensateAborted, CompensateReload, MarkRecovery, Complete, Renew,
                        tables
    <3>3. CASE RestoreWrite(r) \/ CompensateWrite(r)
      BY <1>1, <3>3, RestoringDrains
    <3> QED BY <2>3, <2>4, <2>5, <2>8, <3>1, <3>2, <3>3 DEF Step
  <2>9. CASE Environment
    <3>1. CASE \/ \E r \in Requests : StatementFails(r) \/ Crash(r)
               \/ \E y \in Plugins : WorkStart(y) \/ WorkEnd(y)
               \/ \E y \in Plugins, to \in States : ConsoleRead(y, to)
               \/ Tick
      BY <2>7, <3>1 DEF StatementFails, Crash, WorkStart, WorkEnd, ConsoleRead, Tick, tables
    <3>2. CASE (\E y \in Plugins : ConsoleWrite(y)) \/ ConsoleSyncRead \/ ConsoleSyncWrite
      BY <2>2, <3>2 DEF ConsoleWrite, ConsoleSyncRead, ConsoleSyncWrite
    <3> QED BY <2>6, <2>9, <3>1, <3>2 DEF Environment
  <2>10. ~\E r \in Requests, o \in Ops, action \in {"enable", "disable"}, k \in Packages :
            Begin(r, o, action, k)
    BY <2>7 DEF Begin
  <2> QED BY <1>1, <2>7, <2>8, <2>9, <2>10 DEF Next, vars
<1>2. Hold /\ [Next]_vars =>
        [\A p \in Plugins : plugin[p].state = "draining" /\ plugin'[p].state = "disabled"
           => ~work[p]]_vars
  BY <1>1
<1> QED BY <1>2, HoldInvariant, PTL DEF Spec, DrainWaits
=============================================================================
