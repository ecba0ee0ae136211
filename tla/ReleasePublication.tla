-------------------------- MODULE ReleasePublication --------------------------
(***************************************************************************)
(* How the release service publishes the versions of one package to its    *)
(* publisher's personal data server (PDS).  The publisher object keeps the *)
(* intents, a reservation per version, the leased publication operation of *)
(* every intent and the package's coordination lease; a Workflow per       *)
(* intent carries the publication out against them.                        *)
(*                                                                         *)
(* A Workflow step is memoised: its result is stored and a Workflow that   *)
(* crashed runs again from the top, takes the stored results and executes  *)
(* what was not stored, among it all that is not a step: reading the       *)
(* intent, moving it to publishing, closing a failed attempt.  A step may  *)
(* also have its effect and lose its result.  The create request to the    *)
(* PDS outlives the Workflow that sent it.                                 *)
(*                                                                         *)
(* Time is the passing of deadlines: an intent or a lease is unexpired or  *)
(* not.  Tokens and attempt keys are random per attempt and stand for      *)
(* <<run, attempt>>; a token is only ever acquired by one attempt, so the  *)
(* leases' generations, which tell uses of one token apart, are left out.  *)
(* Approval, artifacts, permits and delegations are the choice whether a   *)
(* step lets the publication proceed.                                      *)
(***************************************************************************)
EXTENDS IntentState

CONSTANTS
  Intents,
  Versions,      \* versions of the package, by precedence
  None,          \* nobody and nothing
  Foreign,       \* a record that this service did not write
  MaxAttempts,   \* MAX_PUBLICATION_ATTEMPTS
  LateWrites,    \* a create request may be settled after its record was found
                 \* absent, or after the lease renewed for it has run out
  MaxCrashes,    \* bound on Workflow crashes and lost step results
  MaxRestarts,   \* bound on restarts by an operator
  MaxForeign     \* bound on records written by the publisher itself

ASSUME PublicationAssumption ==
  /\ Versions \subseteq Nat \ {0}
  /\ None \notin Intents /\ Foreign \notin Intents /\ None # Foreign
  /\ MaxAttempts \in Nat \ {0}
  /\ LateWrites \in BOOLEAN
  /\ MaxCrashes \in Nat /\ MaxRestarts \in Nat /\ MaxForeign \in Nat

VARIABLES
  intent,     \* intents
  reserved,   \* release_reservations
  release,    \* the version that each intent releases, and the access baseline
              \* that it was verified against
  op,         \* publication_operations
  coord,      \* publication_coordinations, the row of the package
  wf,         \* the Workflow of each intent
  memo,       \* stored step results of each Workflow, by attempt
  pds,        \* the release record of each version
  inflight,   \* intents with a create request the PDS has not settled
  crashes, restarts, foreigners   \* faults and requests still to come

tables == <<intent, reserved, release, op, coord>>
vars == <<tables, wf, memo, pds, inflight, crashes, restarts, foreigners>>

\* Attempt 0 is what comes before the attempts: the verification of a first
\* run, or the reconciliation of a run that an operator restarted.
Attempts == 0..MaxAttempts
Keys == Nat \X Attempts

Steps == {"load", "policy", "markVerified", "markReady", "coordinate", "verify",
          "finalRelease", "refuse", "begin", "materialize", "create", "release",
          "reconcile", "state", "reconcileRelease", "settle"}
\* What runs between steps, and the calls that the create step makes.
Between == {"look", "publish", "abandon", "close", "latest",
            "renew", "permit", "creating", "send", "await", "ambiguous"}

Results == States \cup {"none", "ok", "refused", "absent", "exact"}
NotStored == [as |-> "none", gen |-> 0]

NoRow == [state |-> "none", gen |-> 0, expired |-> FALSE]
NoOp == [status |-> "none", key |-> <<0, 0>>, gen |-> 0, phase |-> "uploading", live |-> FALSE]
NoCoord == [holder |-> None, key |-> <<0, 0>>, live |-> FALSE]
NoWf == [pc |-> "none", attempt |-> 0, run |-> 0, gen |-> 0, closing |-> "failed"]
NoMemo == [a \in Attempts |-> [s \in Steps |-> NotStored]]

Operation == [status: {"none", "active", "completed"}, key: Keys, gen: Nat,
              phase: {"uploading", "materialized", "creating"}, live: BOOLEAN]
Workflow == [pc: Steps \cup Between \cup {"none", "ended"}, attempt: Attempts,
             run: Nat, gen: Nat, closing: {"blocked", "failed"}]

TypeOK ==
  /\ intent \in [Intents -> Row \cup {NoRow}]
  /\ reserved \in [Versions -> Intents \cup {None}]
  /\ release \in [Intents -> [version: Versions, baseline: Versions \cup {0}]]
  /\ op \in [Intents -> Operation]
  /\ coord \in [holder: Intents \cup {None}, key: Keys, live: BOOLEAN]
  /\ wf \in [Intents -> Workflow]
  /\ memo \in [Intents -> [Attempts -> [Steps -> [as: Results, gen: Nat]]]]
  /\ pds \in [Versions -> Intents \cup {None, Foreign}]
  /\ inflight \subseteq Intents
  /\ crashes \in Nat /\ restarts \in Nat /\ foreigners \in Nat

Init ==
  /\ intent = [i \in Intents |-> NoRow]
  /\ reserved = [v \in Versions |-> None]
  /\ release \in [Intents -> [version: Versions, baseline: {0}]]
  /\ op = [i \in Intents |-> NoOp]
  /\ coord = NoCoord
  /\ wf = [i \in Intents |-> NoWf]
  /\ memo = [i \in Intents |-> NoMemo]
  /\ pds = [v \in Versions |-> None]
  /\ inflight = {}
  /\ crashes = MaxCrashes /\ restarts = MaxRestarts /\ foreigners = MaxForeign
------------------------------------------------------------------------------
(* The publisher object: intents, reservations and their expiry            *)

\* The holder of a reservation that a new intent has to respect.
Protected(i) ==
  \/ intent[i].state \in Active \cup {"published"}
  \/ intent[i].state \in Waiting /\ ~intent[i].expired

Version(i) == release[i].version

\* A transition, repeated or not, as the caller sees it.
Accepts(i, from, gen, to) ==
  CanMove(intent[i], from, gen, to) \/ Repeated(intent[i], gen, to)

Transition(i, from, gen, to) ==
  LET v == Version(i)
      moves == CanMove(intent[i], from, gen, to) IN
  /\ intent' = IF moves THEN [intent EXCEPT ![i] = Moved(intent[i], to)] ELSE intent
  /\ reserved' = IF moves /\ to \in Releasing /\ reserved[v] = i
                 THEN [reserved EXCEPT ![v] = None] ELSE reserved

Submit(i) ==
  LET v == Version(i) IN
  /\ intent[i] = NoRow
  /\ reserved[v] # None => ~Protected(reserved[v])
  /\ intent' = [intent EXCEPT ![i] = [state |-> "received", gen |-> 1, expired |-> FALSE]]
  /\ reserved' = [reserved EXCEPT ![v] = i]
  /\ UNCHANGED <<release, op, coord, wf, memo, pds, inflight, crashes, restarts, foreigners>>

Start(i) ==
  /\ intent[i].state = "received"
  /\ Accepts(i, "received", intent[i].gen, "verifying")
  /\ Transition(i, "received", intent[i].gen, "verifying")
  /\ UNCHANGED <<release, op, coord, wf, memo, pds, inflight, crashes, restarts, foreigners>>

\* The instance is created; the call is made again when it was lost.
CreateInstance(i) ==
  /\ intent[i].state = "verifying"
  /\ wf[i].pc = "none"
  /\ wf' = [wf EXCEPT ![i] = [NoWf EXCEPT !.pc = "load"]]
  /\ UNCHANGED <<tables, memo, pds, inflight, crashes, restarts, foreigners>>

Cancel(i) ==
  /\ intent[i].state \in Waiting
  /\ CanMove(intent[i], intent[i].state, intent[i].gen, "cancelled")
  /\ Transition(i, intent[i].state, intent[i].gen, "cancelled")
  /\ UNCHANGED <<release, op, coord, wf, memo, pds, inflight, crashes, restarts, foreigners>>

DeadlinePasses(i) ==
  /\ intent[i] # NoRow
  /\ ~intent[i].expired
  /\ intent' = [intent EXCEPT ![i].expired = TRUE]
  /\ UNCHANGED <<reserved, release, op, coord, wf, memo, pds, inflight, crashes, restarts,
                 foreigners>>

AlarmExpires(i) ==
  /\ intent[i].state \in Waiting
  /\ intent[i].expired
  /\ Transition(i, intent[i].state, intent[i].gen, "expired")
  /\ UNCHANGED <<release, op, coord, wf, memo, pds, inflight, crashes, restarts, foreigners>>
------------------------------------------------------------------------------
(* The publisher object: leases                                            *)

Key(i) == <<wf[i].run, wf[i].attempt>>

HoldsCoord(i) == coord.holder = i /\ coord.key = Key(i)

\* Mutant of CoordBusy: a lease is taken over while it runs.
NeverBusy(i) == FALSE

CoordBusy(i) == coord.live /\ coord.holder \notin {None, i}

\* Between the renewal of the lease, of minutes, and the answer of the PDS.
Writing(i) == i \in inflight \/ wf[i].pc \in {"permit", "creating", "send"}

CoordLeaseRunsOut ==
  /\ coord.live
  /\ ~LateWrites => \A i \in Intents : coord.holder = i => ~Writing(i)
  /\ coord' = [coord EXCEPT !.live = FALSE]
  /\ UNCHANGED <<intent, reserved, release, op, wf, memo, pds, inflight, crashes, restarts,
                 foreigners>>

OperationRunsOut(i) ==
  /\ op[i].live
  /\ op' = [op EXCEPT ![i].live = FALSE]
  /\ UNCHANGED <<intent, reserved, release, coord, wf, memo, pds, inflight, crashes, restarts,
                 foreigners>>

\* Mutant of Abandoned: a request that may have been sent is left alone.
AbandonedEarly ==
  {i \in Intents : op[i].status = "active" /\ ~op[i].live /\ op[i].phase # "creating"}

Abandoned == {i \in Intents : op[i].status = "active" /\ ~op[i].live}

\* Mutant of AlarmRecovers: every abandoned intent may be tried again.
AlarmRetries ==
  /\ Abandoned # {} \/ (coord.holder # None /\ ~coord.live)
  /\ coord' = IF coord.live THEN coord ELSE NoCoord
  /\ op' = [i \in Intents |-> IF i \in Abandoned THEN [op[i] EXCEPT !.status = "completed"]
                              ELSE op[i]]
  /\ intent' = [i \in Intents |->
                  IF i \in Abandoned /\ intent[i].state = "publishing"
                  THEN Moved(intent[i], "ready") ELSE intent[i]]
  /\ UNCHANGED <<reserved, release, wf, memo, pds, inflight, crashes, restarts, foreigners>>

\* The alarm's two lease passes.
AlarmRecovers ==
  /\ Abandoned # {} \/ (coord.holder # None /\ ~coord.live)
  /\ coord' = IF coord.live THEN coord ELSE NoCoord
  /\ op' = [i \in Intents |-> IF i \in Abandoned THEN [op[i] EXCEPT !.status = "completed"]
                              ELSE op[i]]
  /\ intent' = [i \in Intents |->
                  IF i \in Abandoned /\ intent[i].state = "publishing"
                  THEN Moved(intent[i],
                             IF op[i].phase = "creating" THEN "reconciling" ELSE "ready")
                  ELSE intent[i]]
  /\ UNCHANGED <<reserved, release, wf, memo, pds, inflight, crashes, restarts, foreigners>>

\* The operation is the attempt's own and its intent is still where it was.
OwnsOperation(i) ==
  /\ op[i].status = "active"
  /\ op[i].key = Key(i)
  /\ op[i].gen = memo[i][wf[i].attempt]["begin"].gen
  /\ intent[i].state = "publishing"
  /\ intent[i].gen = op[i].gen

\* Mutant of PhaseAllows: an attempt may be closed whatever it has sent.
AnyPhaseAllows(phase, outcome) == TRUE

PhaseAllows(phase, outcome) ==
  (phase = "creating") = (outcome \in {"published", "ambiguous", "conflict"})

\* Mutant of StateForOutcome: an ambiguous or a blocked attempt has a state of
\* its own.
OutcomeIsState(outcome) == outcome

StateForOutcome(outcome) ==
  CASE outcome = "published" -> "published"
    [] outcome = "ambiguous" -> "reconciling"
    [] outcome = "blocked" -> "ready"
    [] outcome = "conflict" -> "conflict"
    [] outcome = "failed" -> "failed"

CanComplete(i, outcome) ==
  /\ OwnsOperation(i)
  /\ PhaseAllows(op[i].phase, outcome)
  /\ op[i].live \/ outcome \notin {"published", "conflict"}

Complete(i, outcome) ==
  /\ intent' = IF CanComplete(i, outcome)
               THEN [intent EXCEPT ![i] = Moved(intent[i], StateForOutcome(outcome))] ELSE intent
  /\ op' = IF CanComplete(i, outcome) THEN [op EXCEPT ![i].status = "completed"] ELSE op

\* Advancing to a phase, or the same phase again.
CanAdvance(i, phase) ==
  /\ OwnsOperation(i)
  /\ op[i].live
  /\ op[i].phase \in {phase, IF phase = "materialized" THEN "uploading" ELSE "materialized"}
------------------------------------------------------------------------------
(* The Workflow: steps, their stored results and running again             *)

At(i, pc) == wf[i].pc = pc

Stored(i, s) == memo[i][wf[i].attempt][s]

\* At a step whose result is not stored.
Due(i, s) == wf[i].pc = s /\ Stored(i, s) = NotStored

\* Mutant of NextAttempt: the attempts are not counted.
SameAttempt(a) == a

NextAttempt(a) == a + 1

\* Where run() goes once the step's result is there.
After(m, a, s) ==
  LET r == m[a][s].as
      To(pc) == <<pc, a>>
      Attempt(n) == <<"coordinate", n>> IN
  CASE s = "load" -> IF r = "verifying" THEN To("policy")
                     ELSE IF r = "ready" THEN Attempt(1) ELSE To("coordinate")
    [] s = "policy" -> To(IF r = "ok" THEN "markVerified" ELSE "refuse")
    [] s = "markVerified" -> To(IF r = "ok" THEN "markReady" ELSE "ended")
    [] s = "markReady" -> IF r = "ok" THEN Attempt(1) ELSE To("ended")
    [] s = "coordinate" -> To(IF r # "ok" THEN "ended" ELSE IF a = 0 THEN "reconcile"
                              ELSE "verify")
    [] s = "verify" -> To(IF r = "ok" THEN "look" ELSE "finalRelease")
    [] s = "finalRelease" -> To("refuse")
    [] s \in {"refuse", "release"} -> To("ended")
    [] s = "begin" -> To(IF r = "ok" THEN "materialize" ELSE "abandon")
    [] s = "materialize" -> To(IF r = "ok" THEN "create" ELSE "close")
    [] s = "create" -> To(IF r = "reconciling" THEN "reconcile" ELSE "release")
    [] s = "reconcile" -> To(IF a = 0 THEN "settle" ELSE "state")
    [] s = "state" -> To("reconcileRelease")
    [] s = "reconcileRelease" ->
         IF a = 0 THEN IF m[0]["reconcile"].as = "absent" THEN Attempt(1) ELSE To("ended")
         ELSE To(IF m[a]["state"].as = "reconciling" THEN "settle" ELSE "ended")
    [] s = "settle" ->
         IF r # "ok" THEN To("ended")
         ELSE IF a = 0 THEN To("reconcileRelease")
         ELSE IF m[a]["reconcile"].as = "absent" /\ a < MaxAttempts THEN Attempt(NextAttempt(a))
         ELSE To("ended")

Goto(i, pc) == wf' = [wf EXCEPT ![i].pc = pc]

\* With the generation that the intent was read at.
Enter(i, pc, gen) == wf' = [wf EXCEPT ![i] = [wf[i] EXCEPT !.pc = pc, !.gen = gen]]

Proceed(i, m, s) ==
  LET next == After(m, wf[i].attempt, s) IN
  wf' = [wf EXCEPT ![i] = [wf[i] EXCEPT !.pc = next[1], !.attempt = next[2],
                                        !.closing = "failed"]]

FromTheTop(i) == wf' = [wf EXCEPT ![i] = [NoWf EXCEPT !.pc = "load", !.run = wf[i].run]]

\* The step's result is stored, or it is lost with the instance.
Store(i, s, as, gen) ==
  LET m == [memo[i] EXCEPT ![wf[i].attempt] =
              [memo[i][wf[i].attempt] EXCEPT ![s] = [as |-> as, gen |-> gen]]] IN
  \/ /\ memo' = [memo EXCEPT ![i] = m]
     /\ Proceed(i, m, s)
     /\ UNCHANGED crashes
  \/ /\ crashes > 0
     /\ crashes' = crashes - 1
     /\ FromTheTop(i)
     /\ UNCHANGED memo

Replay(i) ==
  /\ wf[i].pc \in Steps
  /\ Stored(i, wf[i].pc) # NotStored
  /\ Proceed(i, memo[i], wf[i].pc)
  /\ UNCHANGED <<tables, memo, pds, inflight, crashes, restarts, foreigners>>

Crash(i) ==
  /\ wf[i].pc \notin {"none", "ended", "load"}
  /\ crashes > 0
  /\ crashes' = crashes - 1
  /\ FromTheTop(i)
  /\ UNCHANGED <<tables, memo, pds, inflight, restarts, foreigners>>

\* A step that keeps failing, or a call outside of a step that fails, ends
\* the Workflow with an error.
GiveUp(i) ==
  /\ wf[i].pc \notin {"none", "ended"}
  /\ ~(wf[i].pc \in Steps /\ Stored(i, wf[i].pc) # NotStored)
  /\ Goto(i, "ended")
  /\ UNCHANGED <<tables, memo, pds, inflight, crashes, restarts, foreigners>>

Restart(i) ==
  /\ restarts > 0
  /\ wf[i].pc = "ended"
  /\ intent[i].state \in {"ready", "reconciling"}
  /\ restarts' = restarts - 1
  /\ wf' = [wf EXCEPT ![i] = [NoWf EXCEPT !.pc = "load", !.run = wf[i].run + 1]]
  /\ memo' = [memo EXCEPT ![i] = NoMemo]
  /\ UNCHANGED <<tables, pds, inflight, crashes, foreigners>>
------------------------------------------------------------------------------
(* What a Workflow reads from the PDS                                      *)

\* The request that a reader made before is settled when it reads, unless
\* the PDS may be late.
Readable(i) == LateWrites \/ i \notin inflight

\* The highest version that is released, the proposed one aside, or 0.
Baseline(i) ==
  LET released == {v \in Versions \ {Version(i)} : pds[v] # None}
      Highest(v) == \A u \in released : u <= v IN
  IF \E v \in released : Highest(v) THEN CHOOSE v \in released : Highest(v) ELSE 0

\* The evidence is still what was verified, as far as it depends on releases.
EvidenceHolds(i) == pds[Version(i)] = None /\ Baseline(i) = release[i].baseline
------------------------------------------------------------------------------
(* The Workflow: until the first attempt                                   *)

Load(i) ==
  /\ Due(i, "load")
  /\ \/ /\ intent[i].state \in {"verifying", "ready", "reconciling"}
        /\ Store(i, "load", intent[i].state, intent[i].gen)
     \/ /\ intent[i].state \notin {"verifying", "ready", "reconciling"}
        /\ Goto(i, "ended")
        /\ UNCHANGED <<memo, crashes>>
  /\ UNCHANGED <<tables, pds, inflight, restarts, foreigners>>

Policy(i) ==
  /\ Due(i, "policy")
  /\ Readable(i)
  /\ \/ /\ pds[Version(i)] = None
        /\ release' = [release EXCEPT ![i].baseline = Baseline(i)]
        /\ Store(i, "policy", "ok", 0)
     \/ /\ Store(i, "policy", "invalid", 0)
        /\ UNCHANGED release
  /\ UNCHANGED <<intent, reserved, op, coord, pds, inflight, restarts, foreigners>>

\* A transition that a step makes and stores.
Mark(i, s, from, gen, to) ==
  /\ Transition(i, from, gen, to)
  /\ Store(i, s, IF Accepts(i, from, gen, to) THEN "ok" ELSE "refused", gen + 1)

MarkVerified(i) ==
  /\ Due(i, "markVerified")
  /\ Mark(i, "markVerified", "verifying", Stored(i, "load").gen, "verified")
  /\ UNCHANGED <<release, op, coord, pds, inflight, restarts, foreigners>>

MarkReady(i) ==
  /\ Due(i, "markReady")
  /\ Mark(i, "markReady", "verified", Stored(i, "markVerified").gen, "ready")
  /\ UNCHANGED <<release, op, coord, pds, inflight, restarts, foreigners>>
------------------------------------------------------------------------------
(* The Workflow: one attempt                                               *)

\* The waits for another intent's lease end with the lease or are given up.
Coordinate(i) ==
  /\ Due(i, "coordinate")
  /\ \/ /\ ~CoordBusy(i)
        /\ coord' = [holder |-> i, key |-> Key(i), live |-> TRUE]
        /\ Store(i, "coordinate", "ok", 0)
     \/ /\ CoordBusy(i)
        /\ Store(i, "coordinate", "refused", 0)
        /\ UNCHANGED coord
  /\ UNCHANGED <<intent, reserved, release, op, pds, inflight, restarts, foreigners>>

ReleaseCoordination(i, s) ==
  /\ Due(i, s)
  /\ coord' = IF HoldsCoord(i) THEN NoCoord ELSE coord
  /\ Store(i, s, "ok", 0)
  /\ UNCHANGED <<intent, reserved, release, op, pds, inflight, restarts, foreigners>>

FinalVerification(i) ==
  /\ Due(i, "verify")
  /\ Readable(i)
  /\ \/ EvidenceHolds(i) /\ Store(i, "verify", "ok", 0)
     \/ pds[Version(i)] # None /\ Store(i, "verify", "conflict", 0)
     \/ pds[Version(i)] = None /\ Store(i, "verify", "invalid", 0)
  /\ UNCHANGED <<tables, pds, inflight, restarts, foreigners>>

\* The verification failed: the intent is read and moved to its end.
Refuse(i) ==
  /\ Due(i, "refuse")
  /\ IF wf[i].attempt = 0
     THEN \E to \in {"invalid", "failed"} :
            Mark(i, "refuse", "verifying", Stored(i, "load").gen, to)
     ELSE Mark(i, "refuse", "ready", intent[i].gen, Stored(i, "verify").as)
  /\ UNCHANGED <<release, op, coord, pds, inflight, restarts, foreigners>>

\* The attempt is over without a request to reconcile.
Over(i) == Goto(i, "release") /\ UNCHANGED <<memo, crashes>>

Look(i) ==
  /\ At(i, "look")
  /\ \/ /\ intent[i].state = "ready"
        /\ IF intent[i].expired
           THEN Transition(i, "ready", intent[i].gen, "expired") /\ Goto(i, "release")
           ELSE /\ Enter(i, "publish", intent[i].gen)
                /\ UNCHANGED <<intent, reserved>>
     \/ /\ intent[i].state = "publishing"
        /\ Enter(i, "begin", intent[i].gen)
        /\ UNCHANGED <<intent, reserved>>
     \/ /\ intent[i].state \notin {"ready", "publishing"}
        /\ Goto(i, IF intent[i].state = "reconciling" THEN "reconcile" ELSE "release")
        /\ UNCHANGED <<intent, reserved>>
  /\ UNCHANGED <<release, op, coord, memo, pds, inflight, crashes, restarts, foreigners>>

\* After the artifacts were staged, by the state read before.
Publish(i) ==
  /\ At(i, "publish")
  /\ Transition(i, "ready", wf[i].gen, "publishing")
  /\ IF Accepts(i, "ready", wf[i].gen, "publishing")
     THEN Enter(i, "begin", wf[i].gen + 1)
     ELSE Goto(i, "release")
  /\ UNCHANGED <<release, op, coord, memo, pds, inflight, crashes, restarts, foreigners>>

\* Another active operation makes the step fail until it is given up.
Begin(i) ==
  LET gen == wf[i].gen
      same == op[i].live /\ op[i].key = Key(i) /\ op[i].gen = gen IN
  /\ Due(i, "begin")
  /\ \/ /\ intent[i].state # "publishing" \/ intent[i].gen # gen
        /\ Store(i, "begin", "refused", gen)
        /\ UNCHANGED op
     \/ /\ intent[i].state = "publishing" /\ intent[i].gen = gen
        /\ op[i].status # "active" \/ same
        /\ op' = IF op[i].status = "active" THEN op
                 ELSE [op EXCEPT ![i] = [status |-> "active", key |-> Key(i), gen |-> gen,
                                         phase |-> "uploading", live |-> TRUE]]
        /\ Store(i, "begin", "ok", gen)
  /\ UNCHANGED <<intent, reserved, release, coord, pds, inflight, restarts, foreigners>>

\* No operation was begun.
Abandon(i) ==
  /\ At(i, "abandon")
  /\ Transition(i, "publishing", wf[i].gen, "failed")
  /\ Goto(i, "release")
  /\ UNCHANGED <<release, op, coord, memo, pds, inflight, crashes, restarts, foreigners>>

Advance(i, phase) ==
  op' = IF CanAdvance(i, phase) THEN [op EXCEPT ![i].phase = phase] ELSE op

\* The blobs are uploaded and the record is complete.
Materialize(i) ==
  /\ Due(i, "materialize")
  /\ Advance(i, "materialized")
  /\ Store(i, "materialize", IF CanAdvance(i, "materialized") THEN "ok" ELSE "refused", 0)
  /\ UNCHANGED <<intent, reserved, release, coord, pds, inflight, restarts, foreigners>>

UploadFails(i) ==
  /\ Due(i, "materialize")
  /\ Goto(i, "close")
  /\ UNCHANGED <<tables, memo, pds, inflight, crashes, restarts, foreigners>>
------------------------------------------------------------------------------
(* The Workflow: closing an attempt before its request                     *)

InCreate(i) == Stored(i, "materialize").as = "ok"

\* The attempt's result, which the create step stores.
AttemptEnds(i, result) ==
  IF InCreate(i) THEN Store(i, "create", result, 0)
  ELSE Goto(i, IF result = "reconciling" THEN "reconcile" ELSE "release")
       /\ UNCHANGED <<memo, crashes>>

Close(i) ==
  /\ At(i, "close")
  /\ Complete(i, wf[i].closing)
  /\ IF CanComplete(i, wf[i].closing) THEN AttemptEnds(i, "ok")
     ELSE Goto(i, "latest") /\ UNCHANGED <<memo, crashes>>
  /\ UNCHANGED <<reserved, release, coord, pds, inflight, restarts, foreigners>>

\* The completion was refused: the state decides.
Latest(i) ==
  /\ At(i, "latest")
  /\ AttemptEnds(i, IF intent[i].state = "reconciling" THEN "reconciling" ELSE "ok")
  /\ UNCHANGED <<tables, pds, inflight, restarts, foreigners>>

Closing(i, outcome) == wf' = [wf EXCEPT ![i].pc = "close", ![i].closing = outcome]
------------------------------------------------------------------------------
(* The Workflow: the create step                                           *)

\* A call before the request fails or refuses.
Refused(i, outcome) ==
  /\ Closing(i, outcome)
  /\ UNCHANGED <<tables, memo, pds, inflight, crashes, restarts, foreigners>>

Evaluate(i) ==
  /\ Due(i, "create")
  /\ Readable(i)
  /\ EvidenceHolds(i)
  /\ Goto(i, "renew")
  /\ UNCHANGED <<tables, memo, pds, inflight, crashes, restarts, foreigners>>

\* A refusal needs no reading of the PDS: the session or the delegation may
\* already fail, also in a step that runs again with its request in flight.
EvaluateRefused(i) == Due(i, "create") /\ Refused(i, "failed")

Renew(i) ==
  /\ At(i, "renew")
  /\ HoldsCoord(i) /\ coord.live
  /\ coord' = [coord EXCEPT !.live = TRUE]
  /\ Goto(i, "permit")
  /\ UNCHANGED <<intent, reserved, release, op, memo, pds, inflight, crashes, restarts,
                 foreigners>>

RenewRefused(i) == At(i, "renew") /\ ~(HoldsCoord(i) /\ coord.live) /\ Refused(i, "blocked")

Permit(i) ==
  /\ At(i, "permit")
  /\ Goto(i, "creating")
  /\ UNCHANGED <<tables, memo, pds, inflight, crashes, restarts, foreigners>>

PermitRefused(i) == At(i, "permit") /\ \E o \in {"blocked", "failed"} : Refused(i, o)

Creating(i) ==
  /\ At(i, "creating")
  /\ CanAdvance(i, "creating")
  /\ Advance(i, "creating")
  /\ Goto(i, "send")
  /\ UNCHANGED <<intent, reserved, release, coord, memo, pds, inflight, crashes, restarts,
                 foreigners>>

\* The phase is refused, by the lease or by the workload policy.
CreatingRefused(i) == At(i, "creating") /\ Refused(i, "failed")

Send(i) ==
  /\ At(i, "send")
  /\ \/ inflight' = inflight \cup {i} /\ Goto(i, "await")
     \/ inflight' = inflight /\ Goto(i, "ambiguous")
  /\ UNCHANGED <<tables, memo, pds, crashes, restarts, foreigners>>

\* The request was answered and the record was read back with its proof.
Proved(i) ==
  /\ At(i, "await")
  /\ pds[Version(i)] = i
  /\ Complete(i, "published")
  /\ IF CanComplete(i, "published") THEN Store(i, "create", "ok", 0)
     ELSE Goto(i, "ambiguous") /\ UNCHANGED <<memo, crashes>>
  /\ UNCHANGED <<reserved, release, coord, pds, inflight, restarts, foreigners>>

RequestFails(i) ==
  /\ At(i, "await")
  /\ Goto(i, "ambiguous")
  /\ UNCHANGED <<tables, memo, pds, inflight, crashes, restarts, foreigners>>

Ambiguous(i) ==
  /\ At(i, "ambiguous")
  /\ Complete(i, "ambiguous")
  /\ Store(i, "create", IF intent[i].state = "published" THEN "ok" ELSE "reconciling", 0)
  /\ UNCHANGED <<reserved, release, coord, pds, inflight, restarts, foreigners>>
------------------------------------------------------------------------------
(* The Workflow: reconciliation                                            *)

\* Mutants of Found: whatever record is there is the release, or is not.
FoundAny(i) == IF pds[Version(i)] = None THEN "absent" ELSE "exact"
FoundNone(i) == IF pds[Version(i)] = None THEN "absent" ELSE "conflict"

Found(i) == IF pds[Version(i)] = None THEN "absent"
            ELSE IF pds[Version(i)] = i THEN "exact" ELSE "conflict"

Reconcile(i) ==
  /\ Due(i, "reconcile")
  /\ Readable(i)
  /\ Store(i, "reconcile", Found(i), 0)
  /\ UNCHANGED <<tables, pds, inflight, restarts, foreigners>>

ReconciliationState(i) ==
  /\ Due(i, "state")
  /\ Store(i, "state", intent[i].state, intent[i].gen)
  /\ UNCHANGED <<tables, pds, inflight, restarts, foreigners>>

SettledAs(i) ==
  LET found == Stored(i, "reconcile").as IN
  IF found = "exact" THEN "published"
  ELSE IF found = "conflict" THEN "conflict"
  ELSE IF wf[i].attempt < MaxAttempts THEN "ready" ELSE "failed"

Settle(i) ==
  /\ Due(i, "settle")
  /\ Mark(i, "settle", "reconciling",
          Stored(i, IF wf[i].attempt = 0 THEN "load" ELSE "state").gen, SettledAs(i))
  /\ UNCHANGED <<release, op, coord, pds, inflight, restarts, foreigners>>
------------------------------------------------------------------------------
(* The PDS                                                                 *)

Land(i) ==
  /\ i \in inflight
  /\ inflight' = inflight \ {i}
  /\ pds' = IF pds[Version(i)] = None THEN [pds EXCEPT ![Version(i)] = i] ELSE pds
  /\ UNCHANGED <<tables, wf, memo, crashes, restarts, foreigners>>

Drop(i) ==
  /\ i \in inflight
  /\ inflight' = inflight \ {i}
  /\ UNCHANGED <<tables, wf, memo, pds, crashes, restarts, foreigners>>

PublisherWrites(v) ==
  /\ foreigners > 0
  /\ pds[v] = None
  /\ foreigners' = foreigners - 1
  /\ pds' = [pds EXCEPT ![v] = Foreign]
  /\ UNCHANGED <<tables, wf, memo, inflight, crashes, restarts>>
------------------------------------------------------------------------------
Run(i) ==
  \/ Replay(i) \/ GiveUp(i)
  \/ Load(i) \/ Policy(i) \/ MarkVerified(i) \/ MarkReady(i)
  \/ Coordinate(i) \/ FinalVerification(i) \/ Refuse(i)
  \/ \E s \in {"finalRelease", "release", "reconcileRelease"} : ReleaseCoordination(i, s)
  \/ Look(i) \/ Publish(i) \/ Begin(i) \/ Abandon(i) \/ Materialize(i) \/ UploadFails(i)
  \/ Close(i) \/ Latest(i)
  \/ Evaluate(i) \/ EvaluateRefused(i) \/ Renew(i) \/ RenewRefused(i)
  \/ Permit(i) \/ PermitRefused(i) \/ Creating(i) \/ CreatingRefused(i)
  \/ Send(i) \/ Proved(i) \/ RequestFails(i) \/ Ambiguous(i)
  \/ Reconcile(i) \/ ReconciliationState(i) \/ Settle(i)

Alarm == AlarmRecovers \/ \E i \in Intents : AlarmExpires(i)

Deadline == CoordLeaseRunsOut \/ \E i \in Intents : OperationRunsOut(i)

Settled(i) == Land(i) \/ Drop(i)

Next ==
  \/ \E i \in Intents :
       \/ Submit(i) \/ Start(i) \/ CreateInstance(i) \/ Cancel(i) \/ DeadlinePasses(i)
       \/ Run(i) \/ Crash(i) \/ Restart(i) \/ Settled(i)
  \/ Alarm \/ Deadline
  \/ \E v \in Versions : PublisherWrites(v)

Spec == Init /\ [][Next]_vars

\* A Workflow that runs goes on, the PDS settles a request, a lease runs out
\* unless it is renewed, and the object's alarm fires when one has run out.
Fairness ==
  /\ \A i \in Intents : WF_vars(Run(i)) /\ WF_vars(Settled(i)) /\ WF_vars(OperationRunsOut(i))
  /\ WF_vars(AlarmRecovers)

FairSpec == Spec /\ Fairness
------------------------------------------------------------------------------
(* Properties                                                              *)

\* An intent that is reported published has its own record on the PDS.
PublishedIsProved ==
  \A i \in Intents : intent[i].state = "published" => pds[Version(i)] = i

\* An intent that was refused, cancelled or failed is not released, and no
\* request of it is left that could still release it.
RefusedIsNotReleased ==
  \A i \in Intents :
    intent[i].state \in Releasing \ {"conflict"} =>
      pds[Version(i)] # i /\ i \notin inflight

\* A conflict is with a record that is not the intent's own.
ConflictIsForeign ==
  \A i \in Intents :
    intent[i].state = "conflict" => pds[Version(i)] \notin {i, None}

\* Of the intents for one version at most one is being published.
ReservationExcludes ==
  \A i, j \in Intents :
    /\ Version(i) = Version(j)
    /\ intent[i].state \in Active \cup {"published"}
    /\ intent[j].state \in Active \cup {"published"}
    => i = j

\* As long as no Workflow crashes, two releases of the service were not both
\* verified against a baseline that lacks the other.  A create step that runs
\* again may be refused with its request in flight, and gives the lease back.
OneBaseline ==
  \A i, j \in Intents :
    /\ pds[Version(i)] = i
    /\ pds[Version(j)] = j
    /\ Version(i) < Version(j)
    => release[i].baseline >= Version(j) \/ release[j].baseline >= Version(i)

\* The outcome of an intent, as the promise knows it.
Outcome(i) ==
  LET s == intent[i].state IN
  IF s \in {"published", "conflict"} THEN s
  ELSE IF s \in Releasing THEN "refused" ELSE "open"

Promise == INSTANCE ReleasePromise WITH
  version <- [i \in Intents |-> Version(i)],
  outcome <- [i \in Intents |-> Outcome(i)],
  record <- pds

\* The publisher object, the Workflow and the PDS together implement the promise:
\* an outcome is final and is decided by the record that is there, and no
\* record of an intent appears after its outcome, whatever crashed on the way.
KeepsPromise == Promise!Spec

\* The publisher object can recover a publication that its Workflow has left:
\* docs/technical-specs/delegated-release-service.md:294 calls it sufficient to
\* "start recovery".  The alarm recovers what has an active operation, and a
\* restart or a cancellation refuses an intent that is publishing.
PublishingIsRecoverable ==
  \A i \in Intents :
    intent[i].state = "publishing" /\ wf[i].pc = "ended" => op[i].status = "active"

\* A publication operation ends, by its attempt or by the alarm when the attempt
\* is gone.
OperationsEnd == \A i \in Intents : op[i].status = "active" ~> op[i].status # "active"
\* A Workflow ends: the attempts are counted, also over what the alarm moved.
WorkflowsEnd == \A i \in Intents : wf[i].pc \notin {"none", "ended"} ~> wf[i].pc = "ended"
==============================================================================
