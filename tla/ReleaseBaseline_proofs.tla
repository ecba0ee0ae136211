------------------------ MODULE ReleaseBaseline_proofs ------------------------
(***************************************************************************)
(* Proof that two releases of ReleasePublication were not both verified    *)
(* against a baseline that lacks the other, for any number of intents,     *)
(* versions, attempts, restarts and records of the publisher, and a PDS    *)
(* that answers in time (~LateWrites).                                     *)
(*                                                                         *)
(* The package's coordination lease is why: who has a create request in    *)
(* flight holds it, so that nothing is released between the renewal of the *)
(* lease and the landing of the request.  That a Workflow which runs again *)
(* from the top does not give the lease of its own request back follows    *)
(* from what it has stored, unless its create step runs again and is       *)
(* refused before it reads the PDS: then the lease is released while the   *)
(* request may still land, and the two releases may miss each other.  The  *)
(* theorems exclude that case, by assumption (BaselinesSettled) or because *)
(* nothing crashes (BaselinesOne).                                         *)
(***************************************************************************)
EXTENDS ReleaseOutcome_proofs

\* The places of the create step from the evaluation on, and those that follow
\* the final verification.
Requesting == {"renew", "permit", "creating"} \cup Sending
Verified == {"look", "publish", "begin", "abandon", "materialize", "create", "close", "latest"}
            \cup Requesting

\* What else has been stored when a Workflow is at a place.
Tracked(m, pc, a) ==
  /\ pc \in {"verify", "reconcile"} \cup Verified => Has(m, a, "coordinate")
  /\ pc \in Verified => Got(m, a, "verify") = "ok"
  /\ pc = "finalRelease" => Got(m, a, "verify") # "ok"
  /\ pc \in {"create"} \cup Requesting => Got(m, a, "materialize") = "ok"
  /\ pc \in Requesting => ~Has(m, a, "create")
  /\ pc \in Sending => ~Has(m, a, "reconcile")
  /\ \A n \in Attempts : Has(m, n, "reconcile") => Has(m, n, "coordinate")

AllTracked == \A i \in Intents : Tracked(memo[i], wf[i].pc, wf[i].attempt)
------------------------------------------------------------------------------
(* The place of a Workflow                                                 *)

\* What a stored or lost result does to the Workflow.
LEMMA StoreMoves ==
  ASSUME TypeOK, NEW i \in Intents, NEW s \in Steps, NEW as \in Results \ {"none"},
         NEW gen \in Nat, Store(i, s, as, gen)
  PROVE  LET a == wf[i].attempt
             p == Put(memo[i], a, s, [as |-> as, gen |-> gen]) IN
         /\ wf'[i].run = wf[i].run
         /\ \/ /\ memo'[i] = p
               /\ wf'[i].pc = After(p, a, s)[1] /\ wf'[i].attempt = After(p, a, s)[2]
            \/ memo'[i] = memo[i] /\ wf'[i].pc = "load" /\ wf'[i].attempt = 0
<1> DEFINE a == wf[i].attempt
           p == Put(memo[i], a, s, [as |-> as, gen |-> gen])
           next == After(p, a, s)
<1>1. \/ memo' = [memo EXCEPT ![i] = p] /\ Proceed(i, p, s)
      \/ FromTheTop(i) /\ UNCHANGED memo
  BY DEF Store, Put
<1>2. CASE memo' = [memo EXCEPT ![i] = p] /\ Proceed(i, p, s)
  <2>1. wf' = [wf EXCEPT ![i] = [wf[i] EXCEPT !.pc = next[1], !.attempt = next[2],
                                              !.closing = "failed"]]
    BY <1>2 DEF Proceed
  <2> HIDE DEF next, p
  <2>2. wf'[i] = [wf[i] EXCEPT !.pc = next[1], !.attempt = next[2], !.closing = "failed"]
    BY <2>1 DEF TypeOK
  <2>3. wf'[i].run = wf[i].run /\ wf'[i].pc = next[1] /\ wf'[i].attempt = next[2]
    BY <2>2, Values DEF Workflow
  <2>4. memo'[i] = p
    BY <1>2 DEF TypeOK
  <2> QED BY <2>3, <2>4 DEF next, p
<1>3. CASE FromTheTop(i) /\ UNCHANGED memo
  BY <1>3 DEF FromTheTop, NoWf, TypeOK
<1> QED BY <1>1, <1>2, <1>3

\* What running a stored step again does to the Workflow.
LEMMA ReplayMoves ==
  ASSUME TypeOK, NEW i \in Intents, Replay(i)
  PROVE  LET a == wf[i].attempt
             s == wf[i].pc IN
         /\ s \in Steps /\ Has(memo[i], a, s) /\ memo' = memo
         /\ wf'[i].run = wf[i].run
         /\ wf'[i].pc = After(memo[i], a, s)[1] /\ wf'[i].attempt = After(memo[i], a, s)[2]
<1> DEFINE s == wf[i].pc
           a == wf[i].attempt
           next == After(memo[i], a, s)
<1>1. s \in Steps /\ Has(memo[i], a, s) /\ Proceed(i, memo[i], s) /\ memo' = memo
  BY DEF Replay, Stored, Has
<1>2. wf' = [wf EXCEPT ![i] = [wf[i] EXCEPT !.pc = next[1], !.attempt = next[2],
                                            !.closing = "failed"]]
  BY <1>1 DEF Proceed
<1> HIDE DEF next
<1>3. wf'[i] = [wf[i] EXCEPT !.pc = next[1], !.attempt = next[2], !.closing = "failed"]
  BY <1>2 DEF TypeOK
<1>4. wf'[i].run = wf[i].run /\ wf'[i].pc = next[1] /\ wf'[i].attempt = next[2]
  BY <1>3, Values DEF Workflow
<1> QED BY <1>1, <1>4 DEF next

LEMMA PutTracked ==
  ASSUME NEW m \in Memo, NEW a \in Attempts, NEW s \in Steps, NEW r \in Result, r # NotStored,
         Tracked(m, s, a), Fresh(m, a, s)
  PROVE  Tracked(Put(m, a, s, r), s, a) /\ Has(Put(m, a, s, r), a, s)
<1> DEFINE p == Put(m, a, s, r)
<1>1. \A n \in Attempts, t \in Steps : p[n][t] = IF n = a /\ t = s THEN r ELSE m[n][t]
  BY PutAt
<1>2. {"coordinate", "verify", "materialize", "create", "reconcile"} \subseteq Steps
      /\ Steps \cap Requesting = {}
  BY DEF Steps, Requesting, Sending
<1> HIDE DEF p
<1>3. \A n \in Attempts : Has(p, n, "reconcile") => Has(p, n, "coordinate")
  BY <1>1, <1>2 DEF Tracked, Has
<1>4. Tracked(p, s, a)
  BY <1>1, <1>2, <1>3 DEF Tracked, Has, Got, Fresh, Verified, Sending, Requesting
<1> QED BY <1>1, <1>4 DEF Has, p

LEMMA AfterTracked ==
  ASSUME NEW m \in Memo, NEW a \in Attempts, NEW s \in Steps, Tracked(m, s, a), Has(m, a, s)
  PROVE  Tracked(m, After(m, a, s)[1], After(m, a, s)[2])
<1> DEFINE next == After(m, a, s)
<1> SUFFICES Tracked(m, next[1], next[2])
  OBVIOUS
<1> USE DEF Requesting, Sending, Verified
<1>1. ASSUME next[1] \notin {"verify", "reconcile", "finalRelease"} \cup Verified
      PROVE  Tracked(m, next[1], next[2])
  BY <1>1 DEF Tracked
<1>2. CASE s \in {"load", "policy", "markVerified", "markReady", "finalRelease", "refuse",
                  "release"}
  <2>1. next[1] \notin {"verify", "reconcile", "finalRelease"} \cup Verified
    BY <1>2 DEF After
  <2> QED BY <1>1, <2>1
<1>3. CASE s \in {"reconcile", "state", "reconcileRelease", "settle"}
  <2>1. next[1] \notin {"verify", "reconcile", "finalRelease"} \cup Verified
    BY <1>3 DEF After
  <2> QED BY <1>1, <2>1
<1>4. CASE s = "coordinate"
  <2>1. next[1] \in {"verify", "reconcile", "ended"} /\ next[2] = a
    BY <1>4 DEF After
  <2> HIDE DEF next
  <2> QED BY <1>4, <2>1 DEF Tracked
<1>5. CASE s = "verify"
  <2>1. next = <<IF Got(m, a, "verify") = "ok" THEN "look" ELSE "finalRelease", a>>
    BY <1>5 DEF After, Got
  <2> HIDE DEF next
  <2> QED BY <1>5, <2>1 DEF Tracked
<1>6. CASE s \in {"begin", "materialize", "create"}
  <2>1. /\ next[2] = a
        /\ next[1] \in {"materialize", "abandon", "create", "close", "reconcile", "release"}
        /\ next[1] = "create" => Got(m, a, "materialize") = "ok"
    BY <1>6 DEF After, Got
  <2> HIDE DEF next
  <2> QED BY <1>6, <2>1 DEF Tracked
<1> QED BY <1>2, <1>3, <1>4, <1>5, <1>6 DEF Steps

\* The Workflow is at another place of the attempt.
Steered(i, pc) ==
  wf'[i].pc = pc /\ wf'[i].attempt = wf[i].attempt /\ wf'[i].run = wf[i].run /\ memo' = memo

LEMMA GotoMoves ==
  ASSUME TypeOK, NEW i \in Intents, memo' = memo
  PROVE  /\ \A pc : Goto(i, pc) => Steered(i, pc)
         /\ \A pc, gen : Enter(i, pc, gen) => Steered(i, pc)
         /\ \A outcome : Closing(i, outcome) => Steered(i, "close")
<1>0. wf[i] \in Workflow /\ wf \in [Intents -> Workflow]
  BY Values DEF TypeOK
<1>1. ASSUME NEW pc, Goto(i, pc)  PROVE Steered(i, pc)
  <2>1. wf'[i] = [wf[i] EXCEPT !.pc = pc]
    BY <1>0, <1>1 DEF Goto
  <2> QED BY <1>0, <2>1 DEF Steered, Workflow
<1>2. ASSUME NEW pc, NEW gen, Enter(i, pc, gen)  PROVE Steered(i, pc)
  <2>1. wf'[i] = [wf[i] EXCEPT !.pc = pc, !.gen = gen]
    BY <1>0, <1>2 DEF Enter
  <2> QED BY <1>0, <2>1 DEF Steered, Workflow
<1>3. ASSUME NEW outcome, Closing(i, outcome)  PROVE Steered(i, "close")
  <2>1. wf'[i] = [wf[i] EXCEPT !.pc = "close", !.closing = outcome]
    BY <1>0, <1>3 DEF Closing
  <2> QED BY <1>0, <2>1 DEF Steered, Workflow
<1> QED BY <1>1, <1>2, <1>3

LEMMA PlaceTracked ==
  ASSUME NEW m, NEW a, NEW pc, NEW to, Tracked(m, pc, a),
         \/ to \in {"ended", "release"}
         \/ pc \in Verified /\ to \in {"publish", "begin", "close", "latest", "reconcile"}
         \/ pc = "create" /\ to = "renew" /\ ~Has(m, a, "create")
         \/ pc = "renew" /\ to = "permit"
         \/ pc = "permit" /\ to = "creating"
         \/ pc = "creating" /\ to = "send" /\ ~Has(m, a, "reconcile")
         \/ pc \in Sending /\ to \in {"await", "ambiguous"}
  PROVE  Tracked(m, to, a)
BY DEF Tracked, Requesting, Sending, Verified

\* How one step of a Workflow moves it: a step runs again, a step's result is
\* stored, or it goes to another place of the attempt.
Steers(i, to) ==
  LET pc == wf[i].pc m == memo[i] a == wf[i].attempt IN
  /\ Steered(i, to)
  /\ \/ to = "ended"
     \/ /\ pc = "look"
        /\ \/ to = "publish" /\ intent[i].state = "ready"
           \/ to = "begin" /\ intent[i].state = "publishing"
           \/ to = "release" /\ intent[i].state \notin {"publishing", "reconciling"}
           \/ to = "reconcile" /\ intent[i].state = "reconciling"
     \/ pc = "publish" /\ to \in {"begin", "release"}
     \/ pc = "abandon" /\ to = "release"
     \/ pc = "materialize" /\ to = "close" /\ ~Has(m, a, "materialize")
     \/ pc = "close" /\ to \in {"latest", "release"}
     \/ pc = "latest" /\ to \in {"release", "reconcile"}
     \/ pc = "create" /\ to = "renew" /\ ~Has(m, a, "create") /\ Readable(i) /\ EvidenceHolds(i)
     \/ pc = "create" /\ to = "close" /\ ~Has(m, a, "create") /\ EvaluateRefused(i)
     \/ pc = "renew" /\ to = "permit" /\ HoldsCoord(i) /\ coord.live
     \/ pc = "renew" /\ to = "close"
     \/ pc = "permit" /\ to \in {"creating", "close"}
     \/ pc = "creating" /\ to = "send" /\ CanAdvance(i, "creating")
     \/ pc = "creating" /\ to = "close"
     \/ pc = "send" /\ to \in {"await", "ambiguous"}
     \/ pc = "await" /\ to = "ambiguous"

\* A step's result is stored; what is known of it.
Keeps(i, s) ==
  \E as \in Results \ {"none"}, gen \in Nat :
    /\ Store(i, s, as, gen)
    /\ s = "load" => as = intent[i].state /\ as \in {"verifying", "ready", "reconciling"}
    /\ s = "reconcile" => Readable(i)
    /\ \/ Due(i, s) /\ s # "create"
       \/ /\ s = "create" /\ wf[i].pc \in {"close", "latest", "await", "ambiguous"}
          /\ wf[i].pc \in {"close", "latest"} => InCreate(i)
          /\ wf[i].pc = "await" => pds[Version(i)] = i
          /\ wf[i].pc = "ambiguous" /\ as # "reconciling" => intent[i].state = "published"

LEMMA RunSteers ==
  ASSUME TypeOK, Submitted, NEW i \in Intents, Run(i)
  PROVE  Replay(i) \/ (\E s \in Steps : Keeps(i, s)) \/ (\E to \in Pcs : Steers(i, to))
<1> DEFINE Goal == Replay(i) \/ (\E s \in Steps : Keeps(i, s)) \/ (\E to \in Pcs : Steers(i, to))
<1>0. /\ Steps \subseteq Pcs /\ Between \cup {"ended"} \subseteq Pcs
      /\ States \cup {"ok", "refused", "absent", "exact"} \subseteq Results \ {"none"}
      /\ {"invalid", "conflict", "reconciling"} \subseteq States
      /\ intent[i].gen \in Nat /\ wf[i].gen \in Nat
      /\ \A s \in Steps : Stored(i, s).gen \in Nat
  <2>1. /\ Steps \subseteq Pcs /\ Between \cup {"ended"} \subseteq Pcs
        /\ States \cup {"ok", "refused", "absent", "exact"} \subseteq Results \ {"none"}
        /\ {"invalid", "conflict", "reconciling"} \subseteq States
    BY DEF Pcs, Results, States, Waiting, Active, Releasing
  <2>2. wf[i].gen \in Nat
    BY Values DEF Workflow
  <2> QED BY <2>1, <2>2, Values, StoredTyped
<1>1. ASSUME NEW s \in Steps, NEW as \in Results \ {"none"}, NEW gen \in Nat,
             Due(i, s), Store(i, s, as, gen),
             s = "load" => as = intent[i].state /\ as \in {"verifying", "ready", "reconciling"},
             s = "reconcile" => Readable(i), s # "create"
      PROVE  Keeps(i, s)
  BY <1>1 DEF Keeps
<1>2. CASE Load(i)
  <2>1. CASE Store(i, "load", intent[i].state, intent[i].gen)
             /\ intent[i].state \in {"verifying", "ready", "reconciling"}
    BY <1>0, <1>1, <1>2, <2>1 DEF Load, Steps, States, Waiting
  <2>2. CASE Goto(i, "ended") /\ memo' = memo
    BY <1>0, <2>2, GotoMoves DEF Steers
  <2> QED BY <1>2, <2>1, <2>2 DEF Load
<1>3. CASE Policy(i) \/ Coordinate(i) \/ FinalVerification(i) \/ Reconcile(i)
           \/ \E s \in {"finalRelease", "release", "reconcileRelease"} : ReleaseCoordination(i, s)
  BY <1>0, <1>1, <1>3
  DEF Policy, Coordinate, FinalVerification, Reconcile, Found, ReleaseCoordination, Steps
<1>4. CASE ReconciliationState(i)
  <2>1. intent[i] \in Row
    BY <1>4 DEF Submitted, ReconciliationState, Due, TypeOK, NoRow
  <2>2. intent[i].state \in Results \ {"none"}
    BY <1>0, <2>1 DEF Row
  <2> QED BY <1>0, <1>1, <1>4, <2>2 DEF ReconciliationState, Steps
<1>5. CASE MarkVerified(i) \/ MarkReady(i) \/ Refuse(i) \/ Settle(i)
  <2>1. PICK s \in {"markVerified", "markReady", "refuse", "settle"}, gen \in Nat,
             as \in {"ok", "refused"} : Due(i, s) /\ Store(i, s, as, gen + 1)
    BY <1>0, <1>5 DEF MarkVerified, MarkReady, Refuse, Settle, Mark, Steps
  <2>2. s \in Steps /\ s \notin {"load", "reconcile", "create"} /\ gen + 1 \in Nat
    BY DEF Steps
  <2>3. as \in Results \ {"none"}
    BY <1>0
  <2> QED BY <1>1, <2>1, <2>2, <2>3
<1>6. CASE Begin(i) \/ Materialize(i)
  BY <1>0, <1>1, <1>6 DEF Begin, Materialize, Steps
<1>7. ASSUME NEW to \in Pcs, Steered(i, to) => Steers(i, to), memo' = memo,
             \/ Goto(i, to) \/ (\E gen : Enter(i, to, gen))
             \/ to = "close" /\ \E outcome : Closing(i, outcome)
      PROVE  Goal
  BY <1>7, GotoMoves
<1>8. CASE GiveUp(i)
  BY <1>0, <1>7, <1>8 DEF GiveUp, Steers
<1>9. CASE Look(i)
  <2>1. wf[i].pc = "look" /\ memo' = memo
    BY <1>9 DEF Look, At
  <2>2. \/ intent[i].state = "ready" /\ Goto(i, "release")
        \/ intent[i].state = "ready" /\ Enter(i, "publish", intent[i].gen)
        \/ intent[i].state = "publishing" /\ Enter(i, "begin", intent[i].gen)
        \/ intent[i].state = "reconciling" /\ Goto(i, "reconcile")
        \/ intent[i].state \notin {"publishing", "reconciling"} /\ Goto(i, "release")
    BY <1>9 DEF Look
  <2>3. {"release", "publish", "begin", "reconcile"} \subseteq Pcs
    BY DEF Pcs, Steps, Between
  <2> QED BY <1>7, <2>1, <2>2, <2>3 DEF Steers
<1>10. CASE Publish(i) \/ Abandon(i)
  <2>1. /\ memo' = memo
        /\ \/ wf[i].pc = "publish" /\ Enter(i, "begin", wf[i].gen + 1)
           \/ wf[i].pc \in {"publish", "abandon"} /\ Goto(i, "release")
    BY <1>10 DEF Publish, Abandon, At
  <2>2. {"release", "begin"} \subseteq Pcs
    BY DEF Pcs, Steps
  <2> QED BY <1>7, <2>1, <2>2 DEF Steers
<1>11. CASE UploadFails(i) \/ Evaluate(i) \/ EvaluateRefused(i)
  <2>1. /\ memo' = memo
        /\ \/ Due(i, "materialize") /\ Goto(i, "close")
           \/ Due(i, "create") /\ Readable(i) /\ EvidenceHolds(i) /\ Goto(i, "renew")
           \/ Due(i, "create") /\ EvaluateRefused(i) /\ Closing(i, "failed")
    BY <1>11 DEF UploadFails, Evaluate, EvaluateRefused, Refused
  <2>2. {"close", "renew"} \subseteq Pcs
    BY DEF Pcs, Between
  <2> QED BY <1>7, <2>1, <2>2 DEF Steers, Due, Stored, Has
<1>12. CASE Renew(i) \/ RenewRefused(i) \/ Permit(i) \/ PermitRefused(i)
            \/ Creating(i) \/ CreatingRefused(i)
  <2>1. /\ memo' = memo
        /\ \/ wf[i].pc = "renew" /\ HoldsCoord(i) /\ coord.live /\ Goto(i, "permit")
           \/ wf[i].pc = "permit" /\ Goto(i, "creating")
           \/ wf[i].pc = "creating" /\ CanAdvance(i, "creating") /\ Goto(i, "send")
           \/ wf[i].pc \in {"renew", "permit", "creating"} /\ \E o : Closing(i, o)
    BY <1>12
    DEF Renew, RenewRefused, Permit, PermitRefused, Creating, CreatingRefused, Refused, At
  <2>2. {"close", "permit", "creating", "send"} \subseteq Pcs
    BY DEF Pcs, Between
  <2> QED BY <1>7, <2>1, <2>2 DEF Steers
<1>13. CASE Send(i) \/ RequestFails(i)
  <2>1. /\ memo' = memo
        /\ \/ wf[i].pc = "send" /\ Goto(i, "await")
           \/ wf[i].pc \in {"send", "await"} /\ Goto(i, "ambiguous")
    BY <1>13 DEF Send, RequestFails, At
  <2>2. {"await", "ambiguous"} \subseteq Pcs
    BY DEF Pcs, Between
  <2> QED BY <1>7, <2>1, <2>2 DEF Steers
<1>14. CASE Close(i) \/ Latest(i)
  <2>1. /\ wf[i].pc \in {"close", "latest"}
        /\ \/ InCreate(i) /\ \E as \in {"ok", "reconciling"} : Store(i, "create", as, 0)
           \/ Goto(i, "release") /\ memo' = memo
           \/ wf[i].pc = "close" /\ Goto(i, "latest") /\ memo' = memo
           \/ wf[i].pc = "latest" /\ Goto(i, "reconcile") /\ memo' = memo
    BY <1>14 DEF Close, Latest, AttemptEnds, At
  <2>2. {"release", "latest", "reconcile"} \subseteq Pcs
    BY DEF Pcs, Steps, Between
  <2>3. CASE InCreate(i) /\ \E as \in {"ok", "reconciling"} : Store(i, "create", as, 0)
    BY <1>0, <2>1, <2>3 DEF Keeps, Steps
  <2> QED BY <1>7, <2>1, <2>2, <2>3 DEF Steers
<1>15. CASE Proved(i) \/ Ambiguous(i)
  <2>1. CASE Proved(i) /\ Store(i, "create", "ok", 0)
    BY <1>0, <2>1 DEF Proved, Keeps, Steps, At
  <2>2. CASE Proved(i) /\ Goto(i, "ambiguous") /\ memo' = memo
    BY <1>0, <1>7, <2>2 DEF Proved, Steers, At, Between
  <2>3. CASE Ambiguous(i)
    BY <1>0, <2>3 DEF Ambiguous, Keeps, Steps, At
  <2> QED BY <1>15, <2>1, <2>2, <2>3 DEF Proved
<1> QED BY <1>2, <1>3, <1>4, <1>5, <1>6, <1>8, <1>9, <1>10, <1>11, <1>12, <1>13, <1>14, <1>15 DEF Run

\* A Workflow starts, for the first time, from the top or as another run.
LEMMA StartMoves ==
  ASSUME TypeOK, NEW i \in Intents, CreateInstance(i) \/ Crash(i) \/ Restart(i)
  PROVE  /\ wf'[i].pc = "load" /\ wf'[i].attempt = 0
         /\ \A j \in Intents \ {i} : wf'[j] = wf[j]
<1>1. ASSUME NEW w, wf' = [wf EXCEPT ![i] = w], w.pc = "load", w.attempt = 0
      PROVE  /\ wf'[i].pc = "load" /\ wf'[i].attempt = 0
             /\ \A j \in Intents \ {i} : wf'[j] = wf[j]
  BY <1>1 DEF TypeOK
<1>2. /\ [NoWf EXCEPT !.pc = "load"].pc = "load" /\ [NoWf EXCEPT !.pc = "load"].attempt = 0
      /\ \A n : /\ [NoWf EXCEPT !.pc = "load", !.run = n].pc = "load"
               /\ [NoWf EXCEPT !.pc = "load", !.run = n].attempt = 0
  BY DEF NoWf
<1>3. CASE CreateInstance(i)
  BY <1>1, <1>2, <1>3 DEF CreateInstance
<1>4. CASE Crash(i)
  BY <1>1, <1>2, <1>4 DEF Crash, FromTheTop
<1>5. CASE Restart(i)
  BY <1>1, <1>2, <1>5 DEF Restart
<1> QED BY <1>3, <1>4, <1>5

TrackedAt(i) == Tracked(memo[i], wf[i].pc, wf[i].attempt)

\* A step is at its place, or is the create step, which stores its result from
\* the places inside it.
LEMMA KeepsFrom ==
  ASSUME NEW i \in Intents, TrackedAt(i), NEW s \in Steps, Keeps(i, s)
  PROVE  Tracked(memo[i], s, wf[i].attempt) /\ Fresh(memo[i], wf[i].attempt, s)
<1>1. CASE Due(i, s)
  BY <1>1 DEF Due, Stored, Has, Fresh, TrackedAt
<1>2. CASE s = "create" /\ wf[i].pc \in {"close", "latest", "await", "ambiguous"}
           /\ (wf[i].pc \in {"close", "latest"} => InCreate(i))
  BY <1>2 DEF Tracked, TrackedAt, Fresh, InCreate, Stored, Got, Verified, Requesting, Sending
<1> QED BY <1>1, <1>2 DEF Keeps

LEMMA RunTracked ==
  ASSUME TypeOK, Submitted, NEW i \in Intents, SoundAt(i), TrackedAt(i), Run(i)
  PROVE  TrackedAt(i)'
<1> DEFINE a == wf[i].attempt
           m == memo[i]
<1>0. m \in Memo /\ a \in Attempts
  BY Values
<1>1. CASE Replay(i)
  BY <1>0, <1>1, ReplayMoves, AfterTracked DEF TrackedAt
<1>2. ASSUME NEW s \in Steps, Keeps(i, s)
      PROVE  TrackedAt(i)'
  <2>1. PICK as \in Results \ {"none"}, gen \in Nat : Store(i, s, as, gen)
    BY <1>2 DEF Keeps
  <2> DEFINE r == [as |-> as, gen |-> gen]
             p == Put(m, a, s, r)
  <2>2. r \in Result /\ r # NotStored
    BY DEF Result, NotStored
  <2>3. Tracked(m, s, a) /\ Fresh(m, a, s)
    BY <1>2, KeepsFrom
  <2> HIDE DEF r
  <2>4. p \in Memo
    BY <1>0, <2>2, PutAt
  <2>5. Tracked(p, s, a) /\ Has(p, a, s)
    BY <1>0, <2>2, <2>3, PutTracked
  <2> HIDE DEF p
  <2>6. Tracked(p, After(p, a, s)[1], After(p, a, s)[2])
    BY <1>0, <2>4, <2>5, AfterTracked
  <2>7. Tracked(m, "load", 0)
    BY <2>3 DEF Tracked, Verified, Requesting, Sending
  <2>8. \/ /\ memo'[i] = p
           /\ wf'[i].pc = After(p, a, s)[1] /\ wf'[i].attempt = After(p, a, s)[2]
        \/ memo'[i] = m /\ wf'[i].pc = "load" /\ wf'[i].attempt = 0
    BY <2>1, StoreMoves DEF p, r
  <2> QED BY <2>6, <2>7, <2>8 DEF TrackedAt
<1>3. ASSUME NEW to \in Pcs, Steers(i, to)
      PROVE  TrackedAt(i)'
  <2>1. wf[i].pc = "creating" /\ to = "send" => ~Has(m, a, "reconcile")
    BY <1>3 DEF Steers, CanAdvance, OwnsOperation, Key, SoundAt, Sound, Owned
  <2>2. Tracked(m, to, a)
    BY <1>3, <2>1, PlaceTracked DEF Steers, TrackedAt, Verified, Requesting, Sending
  <2> QED BY <1>3, <2>2 DEF Steers, Steered, TrackedAt
<1> QED BY <1>1, <1>2, <1>3, RunSteers

LEMMA NextTracked == TypeOK /\ Submitted /\ AllSound /\ AllTracked /\ [Next]_vars => AllTracked'
<1> SUFFICES ASSUME TypeOK, Submitted, AllSound, AllTracked, [Next]_vars, NEW j \in Intents
             PROVE  TrackedAt(j)'
  BY DEF AllTracked, TrackedAt
<1>0. SoundAt(j) /\ TrackedAt(j)
  BY DEF AllSound, AllTracked, TrackedAt
<1>1. ASSUME memo'[j] = memo[j],
             wf'[j] = wf[j] \/ (wf'[j].pc = "load" /\ wf'[j].attempt = 0)
      PROVE  TrackedAt(j)'
  BY <1>0, <1>1 DEF TrackedAt, Tracked, Verified, Requesting, Sending
<1>2. ASSUME NEW i \in Intents, Run(i)
      PROVE  TrackedAt(j)'
  <2>1. CASE j = i
    BY <1>0, <1>2, <2>1, RunTracked
  <2>2. CASE j # i
    <3>1. memo'[j] = memo[j] /\ wf'[j] = wf[j]
      BY <1>2, <2>2, RunAside DEF Same
    <3> QED BY <1>1, <3>1
  <2> QED BY <2>1, <2>2
<1>3. ASSUME NEW i \in Intents, CreateInstance(i) \/ Crash(i)
      PROVE  TrackedAt(j)'
  <2>1. memo'[j] = memo[j]
    BY <1>3 DEF CreateInstance, Crash
  <2>2. wf'[j] = wf[j] \/ (wf'[j].pc = "load" /\ wf'[j].attempt = 0)
    BY <1>3, StartMoves
  <2> QED BY <1>1, <2>1, <2>2
<1>4. ASSUME NEW i \in Intents, Restart(i)
      PROVE  TrackedAt(j)'
  <2>1. CASE j = i
    <3>1. wf'[j].pc = "load" /\ memo'[j] = NoMemo
      BY <1>4, <2>1, StartMoves DEF Restart, TypeOK
    <3>2. \A n \in Attempts : ~Has(NoMemo, n, "reconcile")
      BY DEF NoMemo, Has, Steps
    <3> QED BY <3>1, <3>2 DEF TrackedAt, Tracked, Verified, Requesting, Sending
  <2>2. CASE j # i
    <3>1. memo'[j] = memo[j] /\ wf'[j] = wf[j]
      BY <1>4, <2>2, StartMoves DEF Restart, TypeOK
    <3> QED BY <1>1, <3>1
  <2> QED BY <2>1, <2>2
<1>5. CASE \/ \E i \in Intents : Submit(i) \/ Start(i) \/ Cancel(i) \/ DeadlinePasses(i)
           \/ \E i \in Intents : Settled(i) \/ OperationRunsOut(i) \/ AlarmExpires(i)
           \/ AlarmRecovers \/ CoordLeaseRunsOut \/ UNCHANGED vars
           \/ \E v \in Versions : PublisherWrites(v)
  <2>1. memo'[j] = memo[j] /\ wf'[j] = wf[j]
    BY <1>5
    DEF Submit, Start, Cancel, DeadlinePasses, Settled, Land, Drop, OperationRunsOut, AlarmExpires,
        AlarmRecovers, CoordLeaseRunsOut, vars, PublisherWrites
  <2> QED BY <1>1, <2>1
<1> QED BY <1>2, <1>3, <1>4, <1>5 DEF Next, Alarm, Deadline

LEMMA InitTracked == Init => AllTracked
<1> SUFFICES ASSUME Init, NEW i \in Intents PROVE TrackedAt(i)
  BY DEF AllTracked, TrackedAt
<1>1. wf[i].pc = "none" /\ memo[i] = NoMemo
  BY DEF Init, NoWf
<1>2. \A n \in Attempts : ~Has(NoMemo, n, "reconcile")
  BY DEF NoMemo, Has, Steps
<1> QED BY <1>1, <1>2 DEF TrackedAt, Tracked, Verified, Requesting, Sending

------------------------------------------------------------------------------
(* The coordination lease                                                  *)

\* What a step of a Workflow does to the lease.
LEMMA RunCoord ==
  ASSUME TypeOK, NEW i \in Intents, Run(i)
  PROVE  \/ coord' = coord
         \/ /\ Due(i, "coordinate") /\ ~CoordBusy(i)
            /\ coord' = [holder |-> i, key |-> Key(i), live |-> TRUE]
         \/ /\ \E s \in {"finalRelease", "release", "reconcileRelease"} : Due(i, s)
            /\ HoldsCoord(i) /\ coord' = NoCoord
<1>1. CASE Coordinate(i)
  BY <1>1 DEF Coordinate
<1>2. ASSUME NEW s \in {"finalRelease", "release", "reconcileRelease"}, ReleaseCoordination(i, s)
      PROVE  coord' = coord \/ (Due(i, s) /\ HoldsCoord(i) /\ coord' = NoCoord)
  BY <1>2 DEF ReleaseCoordination
<1>3. CASE Renew(i)
  BY <1>3 DEF Renew, TypeOK
<1>4. CASE Replay(i) \/ GiveUp(i) \/ Load(i) \/ Policy(i) \/ MarkVerified(i) \/ MarkReady(i)
           \/ FinalVerification(i) \/ Refuse(i) \/ Look(i) \/ Publish(i) \/ Begin(i) \/ Abandon(i)
           \/ Materialize(i) \/ UploadFails(i) \/ Close(i) \/ Latest(i)
  BY <1>4
  DEF Replay, GiveUp, Load, Policy, MarkVerified, MarkReady, FinalVerification, Refuse, Look,
      Publish, Begin, Abandon, Materialize, UploadFails, Close, Latest, tables
<1>5. CASE Evaluate(i) \/ EvaluateRefused(i) \/ RenewRefused(i) \/ Permit(i) \/ PermitRefused(i)
           \/ Creating(i) \/ CreatingRefused(i) \/ Send(i) \/ Proved(i) \/ RequestFails(i)
           \/ Ambiguous(i) \/ Reconcile(i) \/ ReconciliationState(i) \/ Settle(i)
  BY <1>5
  DEF Evaluate, EvaluateRefused, RenewRefused, Permit, PermitRefused, Creating, CreatingRefused,
      Refused, Send, Proved, RequestFails, Ambiguous, Reconcile, ReconciliationState, Settle, tables
<1> QED BY <1>1, <1>2, <1>3, <1>4, <1>5 DEF Run

\* While its holder makes its request the lease is nobody else's to take or to
\* end: it does not run out, and who finds it alive waits.
LEMMA LeaseStays ==
  ASSUME TypeOK, ~LateWrites, NEW i \in Intents, coord.holder = i, coord.live, Writing(i),
         [Next]_vars, ~Run(i)
  PROVE  coord' = coord
<1>1. ASSUME NEW j \in Intents, Run(j)
      PROVE  coord' = coord
  <2>1. j # i /\ CoordBusy(j) /\ ~HoldsCoord(j)
    BY <1>1, PublicationAssumption DEF CoordBusy, HoldsCoord
  <2> QED BY <1>1, <2>1, RunCoord
<1>2. CASE AlarmRecovers \/ CoordLeaseRunsOut
  BY <1>2 DEF AlarmRecovers, CoordLeaseRunsOut
<1>3. CASE \/ \E j \in Intents : Submit(j) \/ Start(j) \/ CreateInstance(j) \/ Cancel(j)
           \/ \E j \in Intents : DeadlinePasses(j) \/ Crash(j) \/ Restart(j) \/ Settled(j)
           \/ \E j \in Intents : OperationRunsOut(j) \/ AlarmExpires(j)
           \/ UNCHANGED vars \/ \E v \in Versions : PublisherWrites(v)
  BY <1>3
  DEF Submit, Start, CreateInstance, Cancel, DeadlinePasses, Crash, Restart, Settled, Land, Drop,
      OperationRunsOut, AlarmExpires, vars, PublisherWrites, tables
<1> QED BY <1>1, <1>2, <1>3 DEF Next, Alarm, Deadline

\* Who has renewed the lease holds it.
Renewed(i) == wf[i].pc \in {"permit", "creating", "send"} => HoldsCoord(i) /\ coord.live

\* A request that can still release the version is in flight.
Unlanded(i) == i \in inflight /\ pds[Version(i)] = None

\* A create step that runs again is not refused while it may still.
Unhurried == \A i \in Intents : EvaluateRefused(i) => ~Unlanded(i)

\* The places to which an attempt that has sent its request does not come.
Unsent == {"publish", "release", "close", "latest", "renew", "permit", "creating"}

\* It was made by a run before this one, which will reconcile it, ...
Former(m) == Got(m, 0, "load") \in {"none", "reconciling"} /\ ~Has(m, 0, "reconcile")

\* ... or by the n-th attempt of this one, which holds the lease key and does
\* not get to where it would give it back.
Current(key, w, m, n) ==
  /\ key = <<w.run, n>> /\ Reached(m, n)
  /\ \A s \in {"verify", "begin", "materialize"} : Got(m, n, s) = "ok"
  /\ Has(m, n, "coordinate") /\ ~Has(m, n, "reconcile")
  /\ ~Has(m, n, "create") \/ Got(m, n, "create") = "reconciling"
  /\ w.attempt = n => w.pc \notin Unsent

Sender(key, w, m) == Former(m) \/ \E n \in Attempts \ {0} : Current(key, w, m, n)

\* The lease is held while such a request is in flight.
Kept(i) ==
  Unlanded(i) => coord.holder = i /\ coord.live /\ Sender(coord.key, wf[i], memo[i])

\* The sender of a request that is not settled does not end the lease, and
\* takes it again only after another run has begun.
LEMMA SenderHolds ==
  ASSUME TypeOK, NEW i \in Intents, SoundAt(i), TrackedAt(i), Kept(i), Unlanded(i), Run(i)
  PROVE  /\ coord'.holder = i /\ coord'.live
         /\ coord' = coord \/ Former(memo[i])
<1> DEFINE a == wf[i].attempt
           m == memo[i]
           pc == wf[i].pc
<1>0. /\ PathAt(m, pc, a) /\ Recorded(m) /\ Tracked(m, pc, a) /\ Reached(m, a) /\ a \in Attempts
      /\ coord.holder = i /\ coord.live
  BY Values DEF SoundAt, Sound, PathAt, TrackedAt, Kept
<1>1. CASE Former(m)
  <2>1. ASSUME NEW s \in {"finalRelease", "release", "reconcileRelease"}, Due(i, s)
        PROVE  FALSE
    <3>1. pc = s
      BY <2>1 DEF Due
    <3>2. a # 0
      BY <1>0, <1>1, <3>1 DEF PathAt, OnlyAttempt, Former
    <3>3. Done(m, 0)
      BY <1>0, <3>2, AttemptsType DEF Reached
    <3> QED BY <1>0, <1>1, <3>3, AttemptsType DEF Done, Former, Recorded
  <2> QED BY <1>0, <1>1, <2>1, RunCoord
<1>2. ASSUME NEW n \in Attempts \ {0}, Current(coord.key, wf[i], m, n)
      PROVE  coord' = coord
  <2> USE DEF Current
  <2>1. ASSUME NEW s \in {"finalRelease", "release", "reconcileRelease"}, Due(i, s), HoldsCoord(i)
        PROVE  FALSE
    <3>1. pc = s /\ a = n
      BY <1>2, <2>1 DEF Due, HoldsCoord, Key
    <3> QED BY <1>0, <1>2, <2>1, <3>1 DEF PathAt, Tracked, Unsent
  <2>2. ASSUME Due(i, "coordinate")
        PROVE  FALSE
    <3>1. pc = "coordinate" /\ ~Has(m, a, "coordinate")
      BY <2>2 DEF Due, Stored, Has
    <3>2. CASE a > n
      <4>1. Done(m, n)
        BY <1>0, <3>2, AttemptsType DEF Reached
      <4> QED BY <1>0, <1>2, <4>1 DEF Done, Recorded
    <3>3. CASE a < n
      <4>1. Done(m, a)
        BY <1>0, <1>2, <3>3, AttemptsType DEF Reached
      <4>2. Got(m, a, "settle") = "ok"
        BY <1>0, <3>1, <4>1 DEF Done, PathAt
      <4> QED BY <1>0, <3>1, <4>2 DEF Recorded, Tracked
    <3>4. CASE a = n
      BY <1>2, <3>1, <3>4
    <3>5. a \in Nat /\ n \in Nat
      BY <1>0, AttemptsType
    <3> QED BY <3>2, <3>3, <3>4, <3>5
  <2> QED BY <2>1, <2>2, RunCoord
<1> QED BY <1>0, <1>1, <1>2 DEF Kept, Sender

\* An intent with such a request is being published or reconciled.
LEMMA UnderWay ==
  ASSUME TypeOK, PublishedIsProved, NEW i \in Intents, SoundAt(i), Unlanded(i)
  PROVE  intent[i].state \in {"publishing", "reconciling"}
<1>1. intent[i].state \in States \cup {"none"}
  BY Values DEF Rows, Row, NoRow
<1>2. Decided(i, intent[i], op[i], pds[Version(i)], TRUE)
  BY DEF SoundAt, Sound, Hot, Unlanded
<1> QED BY <1>1, <1>2, PublicationAssumption
    DEF Decided, Unlanded, PublishedIsProved, States, Active

\* From a step, a Workflow comes to those places only when the attempt failed.
LEMMA AfterUnsent ==
  ASSUME NEW m \in Memo, NEW a \in Attempts, NEW s \in Steps, After(m, a, s)[1] \in Unsent
  PROVE  /\ After(m, a, s)[2] = a
         /\ \/ s = "create" /\ Got(m, a, "create") # "reconciling"
            \/ s = "materialize" /\ Got(m, a, "materialize") # "ok"
<1> DEFINE next == After(m, a, s)
<1>1. CASE s \in {"load", "policy", "markVerified", "markReady", "coordinate", "verify",
                  "finalRelease", "refuse", "release"}
  BY <1>1 DEF After, Unsent
<1>2. CASE s \in {"begin", "reconcile", "state", "reconcileRelease", "settle"}
  BY <1>2 DEF After, Unsent
<1>3. CASE s \in {"materialize", "create"}
  BY <1>3 DEF After, Unsent, Got
<1> QED BY <1>1, <1>2, <1>3 DEF Steps

\* The attempt that sent the request stays where it waits for the answer, or a
\* run from the top comes to the places that it has stored.
LEMMA CurrentStays ==
  ASSUME TypeOK, Submitted, ~LateWrites, Unhurried, PublishedIsProved, NEW i \in Intents,
         SoundAt(i), TrackedAt(i), Unlanded(i), Run(i), NEW key, NEW n \in Attempts \ {0},
         Current(key, wf[i], memo[i], n)
  PROVE  Current(key, wf'[i], memo'[i], n)
<1> DEFINE a == wf[i].attempt
           m == memo[i]
           pc == wf[i].pc
<1>0. /\ PathAt(m, pc, a) /\ Tracked(m, pc, a) /\ a \in Attempts /\ m \in Memo
      /\ intent[i].state \in {"publishing", "reconciling"} /\ pds[Version(i)] = None
      /\ ~Readable(i)
  BY Values, UnderWay DEF SoundAt, Sound, TrackedAt, Unlanded, Readable
<1>1. CASE Replay(i)
  <2>1. /\ pc \in Steps /\ Has(m, a, pc) /\ memo'[i] = m /\ wf'[i].run = wf[i].run
        /\ wf'[i].pc = After(m, a, pc)[1] /\ wf'[i].attempt = After(m, a, pc)[2]
    BY <1>1, ReplayMoves
  <2>2. wf'[i].attempt = n => wf'[i].pc \notin Unsent
    <3>1. /\ Got(m, n, "materialize") = "ok"
          /\ ~Has(m, n, "create") \/ Got(m, n, "create") = "reconciling"
      BY DEF Current
    <3>2. After(m, a, pc)[1] \in Unsent
          => /\ After(m, a, pc)[2] = a
             /\ \/ pc = "create" /\ Got(m, a, "create") # "reconciling"
                \/ pc = "materialize" /\ Got(m, a, "materialize") # "ok"
      BY <1>0, <2>1, AfterUnsent
    <3> QED BY <2>1, <3>1, <3>2
  <2> QED BY <2>1, <2>2 DEF Current
<1>2. ASSUME NEW s \in Steps, Keeps(i, s)
      PROVE  Current(key, wf'[i], memo'[i], n)
  <2>1. PICK as \in Results \ {"none"}, gen \in Nat :
          /\ Store(i, s, as, gen) /\ s # "reconcile"
          /\ \/ Due(i, s) /\ s # "create"
             \/ /\ s = "create" /\ pc \in {"close", "latest", "ambiguous"}
                /\ pc = "ambiguous" => as = "reconciling"
    BY <1>0, <1>2, PublicationAssumption DEF Keeps
  <2> DEFINE r == [as |-> as, gen |-> gen]
             p == Put(m, a, s, r)
             next == After(p, a, s)
  <2>2. r \in Result /\ r # NotStored /\ r.as = as
    BY DEF Result, NotStored
  <2>3. Tracked(m, s, a) /\ Fresh(m, a, s)
    BY <1>2, KeepsFrom
  <2>4. s = "create" /\ a = n => as = "reconciling"
    BY <2>1 DEF Current, Unsent
  <2>5. \/ memo'[i] = p /\ wf'[i].pc = next[1] /\ wf'[i].attempt = next[2]
        \/ memo'[i] = m /\ wf'[i].pc = "load" /\ wf'[i].attempt = 0
    BY <2>1, StoreMoves
  <2>6. wf'[i].run = wf[i].run
    BY <2>1, StoreMoves
  <2> HIDE DEF r
  <2>7. p \in Memo /\ \A b \in Attempts, t \in Steps : p[b][t] = IF b = a /\ t = s THEN r ELSE m[b][t]
    BY <1>0, <2>2, PutAt
  <2>8. Reached(p, n)
    BY <1>0, <2>2, <2>3, PutReached DEF Current
  <2> HIDE DEF p
  <2>9. /\ \A t \in {"verify", "begin", "materialize"} : Got(p, n, t) = "ok"
        /\ Has(p, n, "coordinate") /\ ~Has(p, n, "reconcile")
        /\ ~Has(p, n, "create") \/ Got(p, n, "create") = "reconciling"
    <3>1. {"verify", "begin", "materialize", "coordinate", "reconcile", "create"} \subseteq Steps
      BY DEF Steps
    <3>2. \A t \in Steps : Got(m, n, t) = "ok" => Has(m, n, t)
      BY DEF Got, Has, NotStored
    <3>3. \A t \in {"verify", "begin", "materialize", "coordinate"} : p[n][t] = m[n][t]
      BY <2>3, <2>7, <3>1, <3>2 DEF Current, Fresh
    <3>4. p[n]["reconcile"] = m[n]["reconcile"]
      BY <2>1, <2>7, <3>1
    <3>5. p[n]["create"] = m[n]["create"] \/ p[n]["create"].as = "reconciling"
      BY <2>2, <2>4, <2>7, <3>1
    <3> QED BY <3>3, <3>4, <3>5 DEF Current, Got, Has
  <2>10. next[2] = n => next[1] \notin Unsent
    BY <1>0, <2>1, <2>2, <2>4, <2>7, <2>9, AfterUnsent DEF Got, Has
  <2> HIDE DEF next
  <2> QED BY <2>5, <2>6, <2>8, <2>9, <2>10, AttemptsType DEF Current
<1>3. ASSUME NEW to \in Pcs, Steers(i, to)
      PROVE  Current(key, wf'[i], memo'[i], n)
  <2>1. a = n => to \notin Unsent
    BY <1>0, <1>3 DEF Steers, Unhurried, Current, Unsent, PathAt, Got, Has, NotStored
  <2> QED BY <1>3, <2>1 DEF Steers, Steered, Current
<1> QED BY <1>1, <1>2, <1>3, RunSteers

\* A later run knows of the request until it has reconciled it.
LEMMA FormerStays ==
  ASSUME TypeOK, Submitted, ~LateWrites, PublishedIsProved, NEW i \in Intents, SoundAt(i),
         TrackedAt(i), Unlanded(i), Run(i), Former(memo[i])
  PROVE  Former(memo'[i])
<1> DEFINE a == wf[i].attempt
           m == memo[i]
<1>0. /\ a \in Attempts /\ m \in Memo /\ ~Readable(i)
      /\ intent[i].state \in {"publishing", "reconciling"}
  BY Values, UnderWay DEF Unlanded, Readable
<1>1. CASE Replay(i)
  BY <1>1, ReplayMoves
<1>2. ASSUME NEW s \in Steps, Keeps(i, s)
      PROVE  Former(memo'[i])
  <2>1. PICK as \in Results \ {"none"}, gen \in Nat :
          Store(i, s, as, gen) /\ s # "reconcile" /\ (s = "load" => as = "reconciling")
    BY <1>0, <1>2 DEF Keeps
  <2> DEFINE r == [as |-> as, gen |-> gen]
             p == Put(m, a, s, r)
  <2>2. r \in Result /\ r.as = as
    BY DEF Result
  <2>3. memo'[i] = p \/ memo'[i] = m
    BY <2>1, StoreMoves
  <2> HIDE DEF r
  <2>4. p \in Memo /\ \A b \in Attempts, t \in Steps : p[b][t] = IF b = a /\ t = s THEN r ELSE m[b][t]
    BY <1>0, <2>2, PutAt
  <2> HIDE DEF p
  <2>5. p[0]["load"] = m[0]["load"] \/ p[0]["load"].as = "reconciling"
    BY <2>1, <2>2, <2>4, AttemptsType DEF Steps
  <2>6. p[0]["reconcile"] = m[0]["reconcile"]
    BY <2>1, <2>4, AttemptsType DEF Steps
  <2> QED BY <2>3, <2>5, <2>6 DEF Former, Got, Has
<1>3. ASSUME NEW to \in Pcs, Steers(i, to)
      PROVE  Former(memo'[i])
  BY <1>3 DEF Steers, Steered
<1> QED BY <1>1, <1>2, <1>3, RunSteers

\* Only the create step sends a request.
LEMMA RunSends ==
  ASSUME NEW i \in Intents, Run(i)
  PROVE  inflight' = inflight \/ Send(i)
<1>1. CASE Replay(i) \/ GiveUp(i) \/ Load(i) \/ Policy(i) \/ MarkVerified(i) \/ MarkReady(i)
           \/ Coordinate(i) \/ FinalVerification(i) \/ Refuse(i) \/ Look(i) \/ Publish(i)
           \/ Begin(i) \/ Abandon(i) \/ Materialize(i) \/ UploadFails(i) \/ Close(i) \/ Latest(i)
           \/ \E s \in {"finalRelease", "release", "reconcileRelease"} : ReleaseCoordination(i, s)
  BY <1>1
  DEF Replay, GiveUp, Load, Policy, MarkVerified, MarkReady, Coordinate, FinalVerification, Refuse,
      Look, Publish, Begin, Abandon, Materialize, UploadFails, Close, Latest, ReleaseCoordination
<1>2. CASE Evaluate(i) \/ EvaluateRefused(i) \/ Renew(i) \/ RenewRefused(i) \/ Permit(i)
           \/ PermitRefused(i) \/ Creating(i) \/ CreatingRefused(i) \/ Proved(i) \/ RequestFails(i)
           \/ Ambiguous(i) \/ Reconcile(i) \/ ReconciliationState(i) \/ Settle(i)
  BY <1>2
  DEF Evaluate, EvaluateRefused, Renew, RenewRefused, Permit, PermitRefused, Creating,
      CreatingRefused, Refused, Proved, RequestFails, Ambiguous, Reconcile, ReconciliationState,
      Settle
<1> QED BY <1>1, <1>2 DEF Run

\* The places of the create step are come to by its own calls only.
LEMMA RequestingFrom ==
  ASSUME TypeOK, Submitted, NEW i \in Intents, Run(i), wf'[i].pc \in Requesting
  PROVE  \E to \in Requesting : Steers(i, to) /\ wf'[i].pc = to
<1>1. ASSUME NEW m \in Memo, NEW a \in Attempts, NEW s \in Steps
      PROVE  After(m, a, s)[1] \notin Requesting
  <2>1. CASE s \in {"load", "policy", "markVerified", "markReady", "coordinate", "verify",
                    "finalRelease", "refuse", "release"}
    BY <2>1 DEF After, Requesting, Sending
  <2>2. CASE s \in {"begin", "materialize", "create", "reconcile", "state"}
    BY <2>2 DEF After, Requesting, Sending
  <2>3. CASE s \in {"reconcileRelease", "settle"}
    BY <2>3 DEF After, Requesting, Sending
  <2> QED BY <2>1, <2>2, <2>3 DEF Steps
<1>2. ~Replay(i)
  BY <1>1, ReplayMoves, Values
<1>3. ASSUME NEW s \in Steps, Keeps(i, s)
      PROVE  FALSE
  <2>1. PICK as \in Results \ {"none"}, gen \in Nat : Store(i, s, as, gen)
    BY <1>3 DEF Keeps
  <2> DEFINE r == [as |-> as, gen |-> gen]
             p == Put(memo[i], wf[i].attempt, s, r)
  <2>2. r \in Result
    BY DEF Result
  <2>3. wf'[i].pc = After(p, wf[i].attempt, s)[1] \/ wf'[i].pc = "load"
    BY <2>1, StoreMoves
  <2> HIDE DEF r
  <2>4. p \in Memo
    BY <2>2, PutAt, Values
  <2> HIDE DEF p
  <2> QED BY <1>1, <2>3, <2>4, Values DEF Requesting, Sending
<1> QED BY <1>2, <1>3, RunSteers DEF Steers, Steered

LEMMA RunRenewed ==
  ASSUME TypeOK, Submitted, NEW i \in Intents, Renewed(i), Run(i)
  PROVE  Renewed(i)'
<1> SUFFICES ASSUME wf'[i].pc \in {"permit", "creating", "send"}
             PROVE  (HoldsCoord(i) /\ coord.live)'
  BY DEF Renewed
<1>1. PICK to \in Requesting : Steers(i, to) /\ wf'[i].pc = to
  BY RequestingFrom DEF Requesting, Sending
<1>2. wf[i].pc \in {"renew", "permit", "creating"} /\ HoldsCoord(i) /\ coord.live
  BY <1>1 DEF Steers, Renewed
<1>3. coord' = coord
  BY <1>2, RunCoord DEF Due
<1> QED BY <1>1, <1>2, <1>3 DEF HoldsCoord, Key, Steers, Steered

\* Who sends a request holds the lease, for the attempt that sends it.
LEMMA SendKept ==
  ASSUME TypeOK, NEW i \in Intents, SoundAt(i), TrackedAt(i), Renewed(i), Send(i)
  PROVE  Kept(i)'
<1> DEFINE a == wf[i].attempt
           m == memo[i]
<1>1. /\ wf[i].pc = "send" /\ coord' = coord /\ memo' = memo
      /\ \E to \in {"await", "ambiguous"} : Goto(i, to)
  BY DEF Send, At, tables
<1>2. wf'[i].pc \in {"await", "ambiguous"} /\ wf'[i].attempt = a /\ wf'[i].run = wf[i].run
  BY <1>1, GotoMoves DEF Steered
<1>3. coord.holder = i /\ coord.live /\ coord.key = <<wf[i].run, a>>
  BY <1>1 DEF Renewed, HoldsCoord, Key
<1>4. /\ a \in Attempts \ {0} /\ Reached(m, a) /\ Got(m, a, "begin") = "ok"
      /\ Got(m, a, "verify") = "ok" /\ Got(m, a, "materialize") = "ok"
      /\ Has(m, a, "coordinate") /\ ~Has(m, a, "reconcile") /\ ~Has(m, a, "create")
  BY <1>1, Values
  DEF SoundAt, Sound, PathAt, OnlyAttempt, Begun, TrackedAt, Tracked, Verified, Requesting, Sending
<1>5. Current(coord.key, wf'[i], m, a)
  BY <1>2, <1>3, <1>4 DEF Current, Unsent
<1> QED BY <1>1, <1>3, <1>4, <1>5 DEF Kept, Sender

LEMMA RunKept ==
  ASSUME TypeOK, Submitted, ~LateWrites, Unhurried, PublishedIsProved, NEW i \in Intents,
         SoundAt(i), TrackedAt(i), Renewed(i), Kept(i), Run(i)
  PROVE  Kept(i)'
<1>1. CASE Send(i)
  BY <1>1, SendKept
<1>2. CASE ~Send(i)
  <2>1. Unlanded(i)' => Unlanded(i)
    BY <1>2, RunSends, RunKeepsRecords DEF Unlanded, VersionsKept
  <2>2. CASE Unlanded(i)
    <3>1. coord'.holder = i /\ coord'.live /\ (coord' = coord \/ Former(memo[i]))
      BY <2>2, SenderHolds
    <3>2. CASE Former(memo[i])
      BY <2>2, <3>1, <3>2, FormerStays DEF Kept, Sender
    <3>3. ASSUME NEW n \in Attempts \ {0}, Current(coord.key, wf[i], memo[i], n), coord' = coord
          PROVE  Kept(i)'
      <4>1. Current(coord'.key, wf'[i], memo'[i], n)
        BY <2>2, <3>3, CurrentStays
      <4> QED BY <3>1, <4>1 DEF Kept, Sender
    <3> QED BY <2>2, <3>1, <3>2, <3>3 DEF Kept, Sender
  <2> QED BY <2>1, <2>2 DEF Kept
<1> QED BY <1>1, <1>2

AllHeld == \A i \in Intents : Renewed(i) /\ Kept(i)

\* What the others do does not touch the lease of who makes a request.
LEMMA AsideHeld ==
  ASSUME TypeOK, ~LateWrites, NEW j \in Intents, Renewed(j), Kept(j), [Next]_vars, ~Run(j),
         wf'[j] = wf[j], memo'[j] = memo[j], Unlanded(j)' => Unlanded(j)
  PROVE  Renewed(j)' /\ Kept(j)'
<1>1. ASSUME wf[j].pc \in {"permit", "creating", "send"} \/ Unlanded(j)
      PROVE  coord' = coord
  BY <1>1, LeaseStays DEF Renewed, Kept, Writing, HoldsCoord, Unlanded
<1>2. Renewed(j)'
  BY <1>1 DEF Renewed, HoldsCoord, Key
<1>3. Kept(j)'
  BY <1>1 DEF Kept
<1> QED BY <1>2, <1>3

\* A Workflow that starts leaves its former request its lease.
LEMMA StartHeld ==
  ASSUME TypeOK, ~LateWrites, NEW i \in Intents, SoundAt(i), Renewed(i), Kept(i), [Next]_vars,
         CreateInstance(i) \/ Crash(i) \/ Restart(i)
  PROVE  Renewed(i)' /\ Kept(i)'
<1>1. /\ wf'[i].pc = "load" /\ wf'[i].attempt = 0
      /\ inflight' = inflight /\ pds' = pds /\ Version(i)' = Version(i) /\ coord' = coord
  <2>1. wf'[i].pc = "load" /\ wf'[i].attempt = 0
    BY StartMoves
  <2> QED BY <2>1 DEF CreateInstance, Crash, Restart, tables, Version
<1>2. Renewed(i)'
  BY <1>1 DEF Renewed
<1>3. ASSUME Unlanded(i)
      PROVE  coord.holder = i /\ coord.live /\ Sender(coord.key, wf[i], memo[i])
  BY <1>3 DEF Kept
<1>4. CASE CreateInstance(i)
  <2>1. ~Unlanded(i)
    BY <1>4 DEF CreateInstance, SoundAt, Sound, Decided, Hot, Unlanded, Waiting
  <2> QED BY <1>1, <1>2, <2>1 DEF Kept, Unlanded
<1>5. CASE Crash(i)
  <2>1. memo'[i] = memo[i] /\ wf'[i].run = wf[i].run
    BY <1>5 DEF Crash, FromTheTop, NoWf, TypeOK
  <2>2. \A n \in Attempts \ {0} :
          Current(coord.key, wf[i], memo[i], n) => Current(coord.key, wf'[i], memo'[i], n)
    BY <1>1, <2>1 DEF Current
  <2>3. Sender(coord.key, wf[i], memo[i]) => Sender(coord.key, wf'[i], memo'[i])
    BY <2>1, <2>2 DEF Sender
  <2> QED BY <1>1, <1>2, <1>3, <2>3 DEF Kept, Unlanded
<1>6. CASE Restart(i)
  <2>1. memo'[i] = NoMemo
    BY <1>6 DEF Restart, TypeOK
  <2>2. Former(NoMemo)
    BY AttemptsType DEF Former, Got, Has, NoMemo, NotStored, Steps
  <2> QED BY <1>1, <1>2, <1>3, <2>1, <2>2 DEF Kept, Unlanded, Sender
<1> QED BY <1>4, <1>5, <1>6

LEMMA NextHeld ==
  TypeOK /\ Submitted /\ ~LateWrites /\ PublishedIsProved /\ AllSound /\ AllTracked /\ AllHeld
  /\ [Next]_vars /\ [Unhurried]_vars => AllHeld'
<1> SUFFICES ASSUME TypeOK, Submitted, ~LateWrites, PublishedIsProved, AllSound, AllTracked,
                    AllHeld, [Next]_vars, [Unhurried]_vars, NEW j \in Intents
             PROVE  Renewed(j)' /\ Kept(j)'
  BY DEF AllHeld
<1>0. SoundAt(j) /\ TrackedAt(j) /\ Renewed(j) /\ Kept(j) /\ Version(j) \in Versions
  BY DEF AllSound, AllTracked, TrackedAt, AllHeld, TypeOK, Version
<1>1. CASE Run(j)
  <2>1. CASE Unhurried
    BY <1>0, <1>1, <2>1, RunRenewed, RunKept
  <2>2. CASE UNCHANGED vars
    BY <1>0, <2>2
    DEF vars, tables, Renewed, Kept, Unlanded, HoldsCoord, Key, Version
  <2> QED BY <2>1, <2>2
<1>2. CASE CreateInstance(j) \/ Crash(j) \/ Restart(j)
  BY <1>0, <1>2, StartHeld
<1>3. ASSUME ~Run(j), wf'[j] = wf[j], memo'[j] = memo[j], j \in inflight' => j \in inflight,
             Version(j)' = Version(j), pds'[Version(j)] = None => pds[Version(j)] = None
      PROVE  Renewed(j)' /\ Kept(j)'
  BY <1>0, <1>3, AsideHeld DEF Unlanded
<1>4. ASSUME NEW i \in Intents \ {j}, Run(i), ~Run(j)
      PROVE  Renewed(j)' /\ Kept(j)'
  BY <1>3, <1>4, RunAside, RunKeepsRecords DEF Same, VersionsKept
<1>5. ASSUME ~Run(j), NEW i \in Intents \ {j}, CreateInstance(i) \/ Crash(i) \/ Restart(i)
      PROVE  Renewed(j)' /\ Kept(j)'
  <2>1. wf'[j] = wf[j] /\ memo'[j] = memo[j]
    BY <1>5 DEF CreateInstance, Crash, Restart, FromTheTop, TypeOK
  <2> QED BY <1>3, <1>5, <2>1 DEF CreateInstance, Crash, Restart, tables, Version
<1>6. ASSUME ~Run(j), NEW i \in Intents, Land(i) \/ Drop(i)
      PROVE  Renewed(j)' /\ Kept(j)'
  <2>1. /\ wf'[j] = wf[j] /\ memo'[j] = memo[j] /\ Version(j)' = Version(j)
        /\ j \in inflight' => j \in inflight
    BY <1>6 DEF Land, Drop, Version, tables
  <2>2. pds'[Version(j)] = None => pds[Version(j)] = None
    BY <1>0, <1>6, PublicationAssumption DEF Land, Drop, TypeOK
  <2> QED BY <1>3, <1>6, <2>1, <2>2
<1>7. ASSUME ~Run(j), NEW v \in Versions, PublisherWrites(v)
      PROVE  Renewed(j)' /\ Kept(j)'
  <2>1. /\ wf'[j] = wf[j] /\ memo'[j] = memo[j] /\ Version(j)' = Version(j)
        /\ j \in inflight' => j \in inflight
    BY <1>7 DEF PublisherWrites, Version, tables
  <2>2. pds'[Version(j)] = None => pds[Version(j)] = None
    BY <1>0, <1>7, PublicationAssumption DEF PublisherWrites, TypeOK
  <2> QED BY <1>3, <1>7, <2>1, <2>2
<1>8. CASE ~Run(j) /\ \/ \E i \in Intents : Submit(i) \/ Start(i) \/ Cancel(i) \/ DeadlinePasses(i)
                      \/ \E i \in Intents : OperationRunsOut(i) \/ AlarmExpires(i)
                      \/ AlarmRecovers \/ CoordLeaseRunsOut \/ UNCHANGED vars
  <2>1. /\ wf'[j] = wf[j] /\ memo'[j] = memo[j] /\ Version(j)' = Version(j)
        /\ inflight' = inflight /\ pds' = pds
    BY <1>8
    DEF Submit, Start, Cancel, DeadlinePasses, OperationRunsOut, AlarmExpires, AlarmRecovers,
        CoordLeaseRunsOut, vars, tables, Version
  <2> QED BY <1>3, <1>8, <2>1
<1> QED BY <1>1, <1>2, <1>4, <1>5, <1>6, <1>7, <1>8 DEF Next, Alarm, Deadline, Settled
------------------------------------------------------------------------------
(* The baselines                                                           *)

\* The version's baseline is no lower than the other releases.
Newest(i) ==
  \A j \in Intents :
    pds[Version(j)] = j /\ Version(j) # Version(i) => release[i].baseline >= Version(j)

\* From its evaluation, as far as the lease was renewed after it, until the
\* request is settled.
Pending(i) ==
  \/ wf[i].pc \in {"permit", "creating", "send"}
  \/ wf[i].pc = "renew" /\ HoldsCoord(i)
  \/ Unlanded(i)

Evaluated == \A i \in Intents : Pending(i) => Newest(i)

\* Of two releases one was verified against a baseline with the other.
Paired ==
  \A i, j \in Intents :
    /\ pds[Version(i)] = i
    /\ pds[Version(j)] = j
    /\ Version(i) # Version(j)
    => release[i].baseline >= Version(j) \/ release[j].baseline >= Version(i)

\* The releases are finitely many, so that there is a highest.
Others(v) == {u \in Versions \ {v} : pds[u] # None}
HasHighest ==
  \A v \in Versions : Others(v) # {} => \E u \in Others(v) : \A w \in Others(v) : w <= u

\* What the evaluation finds unchanged is no lower than the other releases.
LEMMA HighestIsNewest ==
  ASSUME TypeOK, HasHighest, NEW i \in Intents, EvidenceHolds(i)
  PROVE  Newest(i)
<1> DEFINE R == Others(Version(i))
           Highest(v) == \A u \in R : u <= v
<1> SUFFICES ASSUME NEW j \in Intents, pds[Version(j)] = j, Version(j) # Version(i)
             PROVE  release[i].baseline >= Version(j)
  BY DEF Newest
<1>1. Version(i) \in Versions /\ Version(j) \in Versions
  BY DEF TypeOK, Version
<1>2. Version(j) \in R
  BY <1>1, PublicationAssumption DEF Others
<1>3. \E v \in R : Highest(v)
  BY <1>1, <1>2 DEF HasHighest
<1>4. release[i].baseline = CHOOSE v \in R : Highest(v)
  BY <1>3 DEF EvidenceHolds, Baseline, Others
<1> HIDE DEF R
<1>5. Highest(release[i].baseline) /\ release[i].baseline \in R
  BY <1>3, <1>4
<1>6. Version(j) <= release[i].baseline
  BY <1>2, <1>5
<1>7. Version(j) \in Nat /\ release[i].baseline \in Nat
  BY <1>1, <1>5, PublicationAssumption DEF R, Others
<1> QED BY <1>6, <1>7

\* Another release leaves a highest one.
LEMMA HighestStays ==
  ASSUME TypeOK, HasHighest, NEW v \in Versions, NEW x, x # None, pds' = [pds EXCEPT ![v] = x]
  PROVE  HasHighest'
<1> SUFFICES ASSUME NEW w \in Versions, Others(w)' # {}
             PROVE  \E u \in Others(w)' : \A z \in Others(w)' : z <= u
  BY DEF HasHighest
<1> DEFINE R == Others(w)
           S == Others(w)'
<1>1. /\ S = (IF v = w THEN R ELSE R \cup {v})
      /\ S \subseteq Nat /\ v \in Nat
  <2>1. \A u \in Versions : pds'[u] = IF u = v THEN x ELSE pds[u]
    BY DEF TypeOK
  <2>2. S = {u \in Versions \ {w} : pds'[u] # None}
    BY DEF Others
  <2>3. R = {u \in Versions \ {w} : pds[u] # None}
    BY DEF Others
  <2> HIDE DEF R, S
  <2>4. \A u : u \in S <=> u \in (IF v = w THEN R ELSE R \cup {v})
    BY <2>1, <2>2, <2>3
  <2>5. S = (IF v = w THEN R ELSE R \cup {v})
    BY <2>4
  <2> QED BY <2>2, <2>5, PublicationAssumption
<1>2. R # {} => \E u \in R : \A z \in R : z <= u
  BY DEF HasHighest
<1> HIDE DEF R, S
<1>3. CASE R = {}
  <2>1. \A z \in S : z = v
    BY <1>1, <1>3
  <2> QED BY <1>1, <2>1 DEF S
<1>4. CASE R # {}
  <2>1. PICK u \in R : \A z \in R : z <= u
    BY <1>2, <1>4
  <2>2. u \in S /\ u \in Nat
    BY <1>1, <2>1
  <2>3. CASE \A z \in S : z <= u
    BY <2>2, <2>3 DEF S
  <2>4. CASE \E z \in S : ~(z <= u)
    <3>1. v \in S /\ u < v /\ \A z \in S : z = v \/ z <= u
      BY <1>1, <2>1, <2>2, <2>4
    <3>2. \A z \in S : z <= v
      BY <1>1, <2>2, <3>1
    <3> QED BY <3>1, <3>2 DEF S
  <2> QED BY <2>3, <2>4
<1> QED BY <1>3, <1>4

\* Only the policy step gives a version its baseline.
LEMMA RunBaseline ==
  ASSUME TypeOK, NEW i \in Intents, Run(i)
  PROVE  \/ release' = release
         \/ /\ wf[i].pc = "policy" /\ Readable(i) /\ pds[Version(i)] = None
            /\ \A j \in Intents \ {i} : release'[j] = release[j]
<1>1. CASE Policy(i)
  BY <1>1 DEF Policy, Due, TypeOK
<1>2. CASE Replay(i) \/ GiveUp(i) \/ Load(i) \/ MarkVerified(i) \/ MarkReady(i)
           \/ Coordinate(i) \/ FinalVerification(i) \/ Refuse(i) \/ Look(i) \/ Publish(i)
           \/ Begin(i) \/ Abandon(i) \/ Materialize(i) \/ UploadFails(i) \/ Close(i) \/ Latest(i)
           \/ \E s \in {"finalRelease", "release", "reconcileRelease"} : ReleaseCoordination(i, s)
  BY <1>2
  DEF Replay, GiveUp, Load, MarkVerified, MarkReady, Coordinate, FinalVerification, Refuse, Look,
      Publish, Begin, Abandon, Materialize, UploadFails, Close, Latest, ReleaseCoordination, tables
<1>3. CASE Evaluate(i) \/ EvaluateRefused(i) \/ Renew(i) \/ RenewRefused(i) \/ Permit(i)
           \/ PermitRefused(i) \/ Creating(i) \/ CreatingRefused(i) \/ Send(i) \/ Proved(i)
           \/ RequestFails(i) \/ Ambiguous(i) \/ Reconcile(i) \/ ReconciliationState(i) \/ Settle(i)
  BY <1>3
  DEF Evaluate, EvaluateRefused, Renew, RenewRefused, Permit, PermitRefused, Creating,
      CreatingRefused, Refused, Send, Proved, RequestFails, Ambiguous, Reconcile,
      ReconciliationState, Settle, tables
<1> QED BY <1>1, <1>2, <1>3 DEF Run

\* Nothing changes for what an intent has been evaluated against.
LEMMA StillNewest ==
  ASSUME NEW i \in Intents, Newest(i), pds' = pds, VersionsKept,
         release'[i].baseline = release[i].baseline
  PROVE  Newest(i)'
BY DEF Newest, VersionsKept

LEMMA RunEvaluated ==
  ASSUME TypeOK, Submitted, ~LateWrites, HasHighest, Evaluated, NEW i \in Intents, Run(i),
         NEW j \in Intents, Pending(j)'
  PROVE  Newest(j)'
<1>0. pds' = pds /\ VersionsKept
  BY RunKeepsRecords
<1>1. CASE j = i
  <2>1. ASSUME wf'[i].pc \in Requesting
        PROVE  release' = release
    <3>1. PICK to \in Requesting : Steers(i, to)
      BY <2>1, RequestingFrom
    <3>2. wf[i].pc # "policy"
      BY <3>1 DEF Steers, Requesting, Sending
    <3> QED BY <3>2, RunBaseline
  <2>2. ASSUME wf'[i].pc \in {"renew", "permit", "creating", "send"}
        PROVE  Newest(i)
    <3>1. PICK to \in Requesting : Steers(i, to) /\ wf'[i].pc = to
      BY <2>2, RequestingFrom DEF Requesting, Sending
    <3>2. CASE to = "renew"
      BY <3>1, <3>2, HighestIsNewest DEF Steers
    <3>3. CASE to \in {"permit", "creating", "send"}
      BY <3>1, <3>3 DEF Steers, Evaluated, Pending
    <3> QED BY <2>2, <3>1, <3>2, <3>3
  <2>3. ASSUME Unlanded(i)'
        PROVE  Newest(i) /\ release' = release
    <3>1. pds[Version(i)] = None /\ (inflight' = inflight \/ Send(i))
      BY <1>0, <2>3, RunSends DEF Unlanded, VersionsKept
    <3>2. CASE Send(i)
      BY <3>2 DEF Send, At, Evaluated, Pending, tables
    <3>3. CASE inflight' = inflight
      BY <2>3, <3>1, <3>3, RunBaseline DEF Unlanded, Evaluated, Pending, Readable
    <3> QED BY <3>1, <3>2, <3>3
  <2>4. Newest(i) /\ release' = release
    BY <1>1, <2>1, <2>2, <2>3 DEF Pending, Requesting, Sending
  <2> QED BY <1>0, <1>1, <2>4, StillNewest
<1>2. CASE j # i
  <2>1. wf'[j] = wf[j] /\ (j \in inflight' <=> j \in inflight)
    BY <1>2, RunAside DEF Same
  <2>2. HoldsCoord(j)' => HoldsCoord(j)
    BY <1>2, <2>1, RunCoord, PublicationAssumption DEF HoldsCoord, Key, NoCoord
  <2>3. Pending(j)
    BY <1>0, <2>1, <2>2 DEF Pending, Unlanded, VersionsKept
  <2>4. release'[j] = release[j]
    BY <1>2, RunBaseline
  <2> QED BY <1>0, <2>3, <2>4, StillNewest DEF Evaluated
<1> QED BY <1>1, <1>2

LEMMA RunPaired ==
  ASSUME TypeOK, Paired, NEW i \in Intents, Run(i)
  PROVE  Paired'
<1>1. pds' = pds /\ VersionsKept
  BY RunKeepsRecords
<1>2. \A j \in Intents : pds[Version(j)] = j => release'[j] = release[j]
  BY RunBaseline, PublicationAssumption
<1> QED BY <1>1, <1>2 DEF Paired, VersionsKept

\* A request that releases its version is the only one evaluated: it holds the
\* lease that all others need.
LEMMA LandEvaluated ==
  ASSUME TypeOK, AllHeld, Evaluated, Paired, NEW i \in Intents, Land(i), Unlanded(i)
  PROVE  /\ Paired'
         /\ \A j \in Intents : Pending(j)' => Newest(j)'
<1>1. /\ pds' = [pds EXCEPT ![Version(i)] = i] /\ VersionsKept /\ release' = release
      /\ wf' = wf /\ coord' = coord /\ inflight' = inflight \ {i}
  BY DEF Land, Unlanded, VersionsKept, Version, tables
<1>2. \A j \in Intents : Version(j) \in Versions
  BY DEF TypeOK, Version
<1>3. \A v \in Versions : pds'[v] = IF v = Version(i) THEN i ELSE pds[v]
  BY <1>1 DEF TypeOK
<1>4. Newest(i) /\ coord.holder = i
  BY DEF Evaluated, Pending, AllHeld, Kept
<1>5. Paired'
  <2> SUFFICES ASSUME NEW j \in Intents, NEW k \in Intents, pds'[Version(j)] = j,
                      pds'[Version(k)] = k, Version(j) # Version(k)
               PROVE  release[j].baseline >= Version(k) \/ release[k].baseline >= Version(j)
    BY <1>1 DEF Paired, VersionsKept
  <2>1. CASE Version(j) = Version(i)
    BY <1>2, <1>3, <1>4, <2>1 DEF Newest
  <2>2. CASE Version(k) = Version(i)
    BY <1>2, <1>3, <1>4, <2>2 DEF Newest
  <2>3. CASE Version(j) # Version(i) /\ Version(k) # Version(i)
    BY <1>2, <1>3, <2>3 DEF Paired
  <2> QED BY <2>1, <2>2, <2>3
<1>6. ASSUME NEW j \in Intents, Pending(j)'
      PROVE  Newest(j)'
  <2>1. CASE j = i
    BY <1>1, <1>2, <1>3, <1>4, <2>1 DEF Newest, VersionsKept
  <2>2. CASE j # i
    <3>1. Pending(j)
      BY <1>1, <1>2, <1>3, <1>6, <2>2, PublicationAssumption
      DEF Pending, Unlanded, HoldsCoord, Key, VersionsKept
    <3>2. coord.holder = j
      BY <3>1 DEF Pending, AllHeld, Renewed, Kept, HoldsCoord
    <3> QED BY <1>4, <2>2, <3>2
  <2> QED BY <2>1, <2>2
<1> QED BY <1>5, <1>6

\* A step that releases nothing and evaluates nothing.
LEMMA QuietEvaluated ==
  ASSUME TypeOK, Evaluated, Paired, release' = release, inflight' \subseteq inflight,
         \A j \in Intents : wf'[j] = wf[j] \/ wf'[j].pc = "load",
         \A j \in Intents : HoldsCoord(j)' /\ wf'[j] = wf[j] => HoldsCoord(j),
         \A v \in Versions : pds'[v] = pds[v] \/ (pds[v] = None /\ pds'[v] = Foreign)
  PROVE  Paired' /\ Evaluated'
<1>1. /\ \A j \in Intents : Version(j) \in Versions /\ Version(j)' = Version(j)
      /\ \A j \in Intents : pds'[Version(j)] = j => pds[Version(j)] = j
      /\ \A j \in Intents : pds'[Version(j)] = None => pds[Version(j)] = None
  BY PublicationAssumption DEF TypeOK, Version
<1>2. Paired'
  BY <1>1 DEF Paired
<1>3. ASSUME NEW i \in Intents, Pending(i)'
      PROVE  Newest(i)'
  <2>1. Pending(i)
    BY <1>1, <1>3 DEF Pending, Unlanded
  <2> QED BY <1>1, <2>1 DEF Evaluated, Newest
<1> QED BY <1>2, <1>3 DEF Evaluated

LEMMA NextBaseline ==
  TypeOK /\ Submitted /\ ~LateWrites /\ AllHeld /\ HasHighest /\ Evaluated /\ Paired /\ [Next]_vars
  => HasHighest' /\ Evaluated' /\ Paired'
<1> SUFFICES ASSUME TypeOK, Submitted, ~LateWrites, AllHeld, HasHighest, Evaluated, Paired,
                    [Next]_vars
             PROVE  HasHighest' /\ Evaluated' /\ Paired'
  OBVIOUS
<1>0. pds' = pds => HasHighest'
  BY DEF HasHighest, Others
<1>1. ASSUME NEW i \in Intents, Run(i)
      PROVE  HasHighest' /\ Evaluated' /\ Paired'
  <2>1. \A j \in Intents : Pending(j)' => Newest(j)'
    BY <1>1, RunEvaluated
  <2> QED BY <1>0, <1>1, <2>1, RunPaired, RunKeepsRecords DEF Evaluated
<1>2. ASSUME NEW i \in Intents, Land(i), Unlanded(i)
      PROVE  HasHighest' /\ Evaluated' /\ Paired'
  <2>1. pds' = [pds EXCEPT ![Version(i)] = i] /\ Version(i) \in Versions
    BY <1>2 DEF Land, Unlanded, TypeOK, Version
  <2>2. HasHighest'
    BY <2>1, HighestStays, PublicationAssumption
  <2>3. Paired' /\ \A j \in Intents : Pending(j)' => Newest(j)'
    BY <1>2, LandEvaluated
  <2> QED BY <2>2, <2>3 DEF Evaluated
<1>3. ASSUME NEW v \in Versions, PublisherWrites(v)
      PROVE  HasHighest' /\ Evaluated' /\ Paired'
  <2>1. /\ pds' = [pds EXCEPT ![v] = Foreign] /\ pds[v] = None
        /\ release' = release /\ wf' = wf /\ coord' = coord /\ inflight' = inflight
    BY <1>3 DEF PublisherWrites, tables
  <2>2. HasHighest'
    BY <2>1, HighestStays, PublicationAssumption
  <2>3. \A u \in Versions : pds'[u] = pds[u] \/ (pds[u] = None /\ pds'[u] = Foreign)
    BY <2>1 DEF TypeOK
  <2>4. \A j \in Intents : HoldsCoord(j)' => HoldsCoord(j)
    BY <2>1 DEF HoldsCoord, Key
  <2> QED BY <2>1, <2>2, <2>3, <2>4, QuietEvaluated
<1>4. ASSUME pds' = pds, release' = release, inflight' \subseteq inflight,
             \A j \in Intents : wf'[j] = wf[j] \/ wf'[j].pc = "load",
             coord'.holder = None \/ (coord'.holder = coord.holder /\ coord'.key = coord.key)
      PROVE  HasHighest' /\ Evaluated' /\ Paired'
  <2>1. \A j \in Intents : HoldsCoord(j)' /\ wf'[j] = wf[j] => HoldsCoord(j)
    BY <1>4, PublicationAssumption DEF HoldsCoord, Key
  <2> QED BY <1>0, <1>4, <2>1, QuietEvaluated
<1>5. ASSUME NEW i \in Intents, (Land(i) /\ ~Unlanded(i)) \/ Drop(i)
      PROVE  HasHighest' /\ Evaluated' /\ Paired'
  BY <1>4, <1>5 DEF Land, Drop, Unlanded, tables
<1>6. ASSUME NEW i \in Intents, CreateInstance(i) \/ Crash(i) \/ Restart(i)
      PROVE  HasHighest' /\ Evaluated' /\ Paired'
  <2>1. \A j \in Intents : wf'[j] = wf[j] \/ wf'[j].pc = "load"
    BY <1>6, StartMoves
  <2> QED BY <1>4, <1>6, <2>1 DEF CreateInstance, Crash, Restart, tables
<1>7. CASE AlarmRecovers \/ CoordLeaseRunsOut
  <2>1. coord'.holder = None \/ (coord'.holder = coord.holder /\ coord'.key = coord.key)
    BY <1>7 DEF AlarmRecovers, CoordLeaseRunsOut, NoCoord, TypeOK
  <2> QED BY <1>4, <1>7, <2>1 DEF AlarmRecovers, CoordLeaseRunsOut
<1>8. CASE \/ \E i \in Intents : Submit(i) \/ Start(i) \/ Cancel(i) \/ DeadlinePasses(i)
           \/ \E i \in Intents : OperationRunsOut(i) \/ AlarmExpires(i)
           \/ UNCHANGED vars
  BY <1>4, <1>8
  DEF Submit, Start, Cancel, DeadlinePasses, OperationRunsOut, AlarmExpires, vars, tables
<1> QED BY <1>1, <1>2, <1>3, <1>5, <1>6, <1>7, <1>8 DEF Next, Alarm, Deadline, Settled

LEMMA InitBaseline == Init => AllHeld /\ HasHighest /\ Evaluated /\ Paired
<1> SUFFICES ASSUME Init PROVE AllHeld /\ HasHighest /\ Evaluated /\ Paired
  OBVIOUS
<1>1. /\ inflight = {} /\ \A v \in Versions : pds[v] = None
      /\ \A i \in Intents : wf[i].pc = "none" /\ Version(i) \in Versions
  BY InitTyped DEF Init, NoWf, TypeOK, Version
<1>2. AllHeld
  BY <1>1 DEF AllHeld, Renewed, Kept, Unlanded
<1>3. HasHighest
  BY <1>1 DEF HasHighest, Others
<1>4. Evaluated /\ Paired
  BY <1>1, PublicationAssumption DEF Evaluated, Pending, Unlanded, Paired
<1> QED BY <1>2, <1>3, <1>4

------------------------------------------------------------------------------
(* Requests that go on alone                                               *)

\* Where a Workflow without crashes is while its request may still release the
\* version: at the answer, at the reconciliation that waits for it, at its end,
\* or in a later run that will reconcile it first.
Ahead(w, m) ==
  \/ Former(m)
  \/ w.pc \in {"await", "ambiguous", "ended"}
  \/ w.pc = "reconcile" /\ ~Has(m, w.attempt, "reconcile")
Forward(i) == Unlanded(i) => Ahead(wf[i], memo[i])
AllForward == \A i \in Intents : Forward(i)

\* No step result is lost, and no Workflow crashes.
Uncrashed == crashes = 0

LEMMA RunCrashes ==
  ASSUME TypeOK, Uncrashed, NEW i \in Intents, Run(i)
  PROVE  Uncrashed'
<1>0. ASSUME NEW s, NEW as, NEW gen, Store(i, s, as, gen)
      PROVE  Uncrashed'
  BY <1>0 DEF Store, Uncrashed
<1>1. CASE Load(i) \/ Policy(i) \/ MarkVerified(i) \/ MarkReady(i) \/ Coordinate(i)
           \/ FinalVerification(i) \/ Refuse(i) \/ Begin(i) \/ Materialize(i) \/ Close(i)
           \/ Latest(i) \/ Proved(i) \/ Ambiguous(i) \/ Reconcile(i)
           \/ ReconciliationState(i) \/ Settle(i)
           \/ \E s \in {"finalRelease", "release", "reconcileRelease"} : ReleaseCoordination(i, s)
  <2>1. (\E s, as, gen : Store(i, s, as, gen)) \/ crashes' = crashes
    BY <1>1
    DEF Load, Policy, MarkVerified, MarkReady, Coordinate, FinalVerification, Refuse, Begin,
        Materialize, Close, Latest, AttemptEnds, Proved, Ambiguous, Reconcile,
        ReconciliationState, Settle, Mark, ReleaseCoordination
  <2> QED BY <1>0, <2>1 DEF Uncrashed
<1>2. CASE Replay(i) \/ GiveUp(i) \/ Look(i) \/ Publish(i) \/ Abandon(i) \/ UploadFails(i)
           \/ Evaluate(i) \/ EvaluateRefused(i) \/ Renew(i) \/ RenewRefused(i) \/ Permit(i)
           \/ PermitRefused(i) \/ Creating(i) \/ CreatingRefused(i) \/ Send(i) \/ RequestFails(i)
  BY <1>2
  DEF Replay, GiveUp, Look, Publish, Abandon, UploadFails, Evaluate, EvaluateRefused, Renew,
      RenewRefused, Permit, PermitRefused, Creating, CreatingRefused, Refused, Send, RequestFails,
      Uncrashed
<1> QED BY <1>1, <1>2 DEF Run

LEMMA RunForward ==
  ASSUME TypeOK, Submitted, ~LateWrites, Uncrashed, PublishedIsProved, NEW i \in Intents,
         SoundAt(i), TrackedAt(i), Unlanded(i), Forward(i), Run(i), ~Send(i)
  PROVE  Ahead(wf'[i], memo'[i])
<1> DEFINE a == wf[i].attempt
           m == memo[i]
           pc == wf[i].pc
<1>0. /\ a \in Attempts /\ m \in Memo /\ ~Readable(i) /\ pds[Version(i)] = None
      /\ Tracked(m, pc, a) /\ intent[i].state \in {"publishing", "reconciling"}
  BY Values, UnderWay DEF Unlanded, Readable, TrackedAt
<1>1. CASE Former(m)
  BY <1>1, FormerStays DEF Ahead
<1>2. CASE pc \in {"await", "ambiguous", "ended"}
           \/ (pc = "reconcile" /\ ~Has(m, a, "reconcile"))
  <2>1. ~Replay(i)
    BY <1>2, ReplayMoves DEF Steps
  <2>2. ASSUME NEW s \in Steps, Keeps(i, s)
        PROVE  Ahead(wf'[i], memo'[i])
    <3>1. PICK as \in Results \ {"none"}, gen \in Nat :
            Store(i, s, as, gen) /\ s = "create" /\ pc = "ambiguous" /\ as = "reconciling"
      BY <1>0, <1>2, <2>2, PublicationAssumption DEF Keeps, Due, Steps
    <3> DEFINE r == [as |-> as, gen |-> gen]
               p == Put(m, a, "create", r)
               next == After(p, a, "create")
    <3>2. /\ memo' = [memo EXCEPT ![i] = p]
          /\ Proceed(i, p, "create")
      BY <3>1 DEF Store, Put, Uncrashed
    <3>3. r \in Result /\ r.as = "reconciling"
      BY <3>1 DEF Result
    <3> HIDE DEF r
    <3>4. /\ p \in Memo /\ "create" \in Steps /\ "reconcile" \in Steps
          /\ p[a]["create"] = r /\ p[a]["reconcile"] = m[a]["reconcile"]
      <4>1. "create" \in Steps /\ "reconcile" \in Steps
        BY DEF Steps
      <4>2. /\ p \in Memo
            /\ \A b \in Attempts, t \in Steps :
                 p[b][t] = IF b = a /\ t = "create" THEN r ELSE m[b][t]
        BY <1>0, <3>3, <4>1, PutAt
      <4> HIDE DEF p
      <4> QED BY <1>0, <4>1, <4>2
    <3> HIDE DEF p
    <3>5. next[1] = "reconcile" /\ next[2] = a
      BY <3>3, <3>4 DEF After
    <3>6. ~Has(p, a, "reconcile")
      BY <1>0, <3>1, <3>4 DEF Tracked, Sending, Has
    <3> HIDE DEF next
    <3>7. wf'[i] = [wf[i] EXCEPT !.pc = next[1], !.attempt = next[2], !.closing = "failed"]
      BY <3>2 DEF Proceed, TypeOK, next
    <3>8. wf'[i].pc = "reconcile" /\ wf'[i].attempt = a
      BY <3>5, <3>7, Values DEF Workflow
    <3>9. memo'[i] = p
      BY <3>2 DEF TypeOK
    <3> QED BY <3>6, <3>8, <3>9 DEF Ahead
  <2>3. ASSUME NEW to \in Pcs, Steers(i, to)
        PROVE  Ahead(wf'[i], memo'[i])
    BY <1>2, <2>3 DEF Steers, Steered, Ahead
  <2> QED BY <2>1, <2>2, <2>3, RunSteers
<1> QED BY <1>1, <1>2 DEF Forward, Ahead

LEMMA SendForward ==
  ASSUME TypeOK, NEW i \in Intents, Send(i)
  PROVE  Ahead(wf'[i], memo'[i])
<1>1. memo' = memo /\ \E to \in {"await", "ambiguous"} : Goto(i, to)
  BY DEF Send
<1>2. wf'[i].pc \in {"await", "ambiguous"}
  BY <1>1, GotoMoves DEF Steered
<1> QED BY <1>2 DEF Ahead

LEMMA NextForward ==
  TypeOK /\ Submitted /\ ~LateWrites /\ Uncrashed /\ PublishedIsProved /\ AllSound /\ AllTracked
  /\ AllForward /\ [Next]_vars => AllForward' /\ Uncrashed'
<1> SUFFICES ASSUME TypeOK, Submitted, ~LateWrites, Uncrashed, PublishedIsProved, AllSound,
                    AllTracked, AllForward, [Next]_vars
             PROVE  AllForward' /\ Uncrashed'
  OBVIOUS
<1>0. /\ \A i \in Intents : SoundAt(i) /\ TrackedAt(i) /\ Forward(i)
      /\ \A i \in Intents : Version(i) \in Versions /\ ~Crash(i)
  BY DEF AllSound, AllTracked, TrackedAt, AllForward, TypeOK, Version, Crash, Uncrashed
<1>1. ASSUME NEW j \in Intents, wf'[j] = wf[j], memo'[j] = memo[j],
             j \in inflight' => j \in inflight, Version(j)' = Version(j),
             pds'[Version(j)] = None => pds[Version(j)] = None
      PROVE  Forward(j)'
  BY <1>0, <1>1 DEF Forward, Unlanded
<1>2. ASSUME NEW i \in Intents, Run(i)
      PROVE  AllForward' /\ Uncrashed'
  <2>1. ASSUME NEW j \in Intents \ {i}
        PROVE  Forward(j)'
    BY <1>1, <1>2, RunAside, RunKeepsRecords DEF Same, VersionsKept
  <2>2. Forward(i)'
    <3>1. CASE Send(i)
      BY <3>1, SendForward DEF Forward
    <3>2. CASE ~Send(i)
      <4>1. Unlanded(i)' => Unlanded(i)
        BY <1>2, <3>2, RunSends, RunKeepsRecords DEF Unlanded, VersionsKept
      <4>2. Unlanded(i) => Ahead(wf'[i], memo'[i])
        BY <1>0, <1>2, <3>2, RunForward
      <4> QED BY <4>1, <4>2 DEF Forward
    <3> QED BY <3>1, <3>2
  <2>3. Uncrashed'
    BY <1>2, RunCrashes
  <2> QED BY <2>1, <2>2, <2>3 DEF AllForward
<1>3. ASSUME NEW i \in Intents, CreateInstance(i) \/ Restart(i)
      PROVE  AllForward'
  <2>1. ASSUME NEW j \in Intents \ {i}
        PROVE  Forward(j)'
    <3>1. wf'[j] = wf[j] /\ memo'[j] = memo[j]
      BY <1>3 DEF CreateInstance, Restart, TypeOK
    <3> QED BY <1>1, <1>3, <3>1 DEF CreateInstance, Restart, tables, Version
  <2>2. CASE Restart(i)
    <3>1. memo'[i] = NoMemo
      BY <2>2 DEF Restart, TypeOK
    <3>2. Former(NoMemo)
      BY AttemptsType DEF Former, Got, Has, NoMemo, NotStored, Steps
    <3>3. Forward(i)'
      BY <3>1, <3>2 DEF Forward, Ahead
    <3> QED BY <2>1, <3>3 DEF AllForward
  <2>3. CASE CreateInstance(i)
    <3>1. ~Unlanded(i)
      BY <1>0, <2>3 DEF CreateInstance, SoundAt, Sound, Decided, Hot, Unlanded, Waiting
    <3>2. Forward(i)'
      BY <2>3, <3>1 DEF CreateInstance, Forward, Unlanded, Version, tables
    <3> QED BY <2>1, <3>2 DEF AllForward
  <2> QED BY <1>3, <2>2, <2>3
<1>4. ASSUME NEW i \in Intents, Land(i) \/ Drop(i)
      PROVE  AllForward'
  <2>1. ASSUME NEW j \in Intents
        PROVE  pds'[Version(j)] = None => pds[Version(j)] = None
    BY <1>0, <1>4, PublicationAssumption DEF Land, Drop, TypeOK
  <2> QED BY <1>1, <1>4, <2>1 DEF Land, Drop, Version, tables, AllForward
<1>5. ASSUME NEW v \in Versions, PublisherWrites(v)
      PROVE  AllForward'
  <2>1. ASSUME NEW j \in Intents
        PROVE  pds'[Version(j)] = None => pds[Version(j)] = None
    BY <1>0, <1>5, PublicationAssumption DEF PublisherWrites, TypeOK
  <2> QED BY <1>1, <1>5, <2>1 DEF PublisherWrites, Version, tables, AllForward
<1>6. ASSUME \/ \E i \in Intents : Submit(i) \/ Start(i) \/ Cancel(i) \/ DeadlinePasses(i)
             \/ \E i \in Intents : OperationRunsOut(i) \/ AlarmExpires(i)
             \/ AlarmRecovers \/ CoordLeaseRunsOut \/ UNCHANGED vars
      PROVE  AllForward'
  <2>1. /\ wf' = wf /\ memo' = memo /\ release' = release /\ inflight' = inflight /\ pds' = pds
    BY <1>6
    DEF Submit, Start, Cancel, DeadlinePasses, OperationRunsOut, AlarmExpires, AlarmRecovers,
        CoordLeaseRunsOut, vars, tables
  <2>2. ASSUME NEW j \in Intents
        PROVE  Forward(j)'
    <3>1. Version(j)' = Version(j)
      BY <2>1 DEF Version
    <3>2. pds'[Version(j)] = pds[Version(j)]
      BY <2>1
    <3> QED BY <1>1, <2>1, <3>1, <3>2
  <2> QED BY <2>2 DEF AllForward
<1>7. \/ \E i \in Intents : Run(i)
      \/ crashes' = crashes
  BY <1>0
  DEF Next, Alarm, Deadline, Submit, Start, CreateInstance, Cancel, DeadlinePasses, Restart, Settled,
      Land, Drop, OperationRunsOut, AlarmExpires, AlarmRecovers, CoordLeaseRunsOut, PublisherWrites,
      vars, tables
<1>8. AllForward'
  BY <1>0, <1>2, <1>3, <1>4, <1>5, <1>6 DEF Next, Alarm, Deadline, Settled
<1>9. Uncrashed'
  BY <1>2, <1>7 DEF Uncrashed
<1> QED BY <1>8, <1>9

\* Who is about to ask for the evaluation has no such request.
LEMMA ForwardUnhurried ==
  ASSUME TypeOK, AllSound, AllForward
  PROVE  Unhurried
<1> SUFFICES ASSUME NEW i \in Intents, EvaluateRefused(i), Unlanded(i)
             PROVE  FALSE
  BY DEF Unhurried
<1> DEFINE a == wf[i].attempt
           m == memo[i]
<1>1. wf[i].pc = "create" /\ SoundAt(i) /\ Former(m)
  BY DEF EvaluateRefused, Due, AllSound, AllForward, Forward, Ahead
<1>2. PathAt(m, "create", a) /\ Recorded(m) /\ Reached(m, a) /\ a \in Attempts
  BY <1>1, Values DEF SoundAt, Sound, PathAt
<1>3. a # 0
  BY <1>2 DEF PathAt, OnlyAttempt, Begun
<1>4. Done(m, 0)
  BY <1>2, <1>3, AttemptsType DEF Reached
<1> QED BY <1>1, <1>2, <1>4, AttemptsType DEF Done, Former, Recorded
------------------------------------------------------------------------------
(* The theorems                                                            *)

\* When the PDS answers in time, of two releases of the service at least one was
\* verified against a baseline that has the other, whatever crashed, expired or
\* was restarted between the evaluation and the release, as long as no create
\* step that runs again is refused while its earlier request may still release
\* the version: the coordination lease that is renewed for a request is held
\* until the request is settled.  Such a refusal gives the lease back.
THEOREM BaselinesSettled ==
  ASSUME ~LateWrites
  PROVE  Spec /\ [][Unhurried]_vars => []OneBaseline
<1> DEFINE Inv == AllTracked /\ AllHeld /\ HasHighest /\ Evaluated /\ Paired
<1>1. Init => Inv
  BY InitTracked, InitBaseline
<1>2. TypeOK /\ Submitted /\ AllSound /\ PublishedIsProved /\ Inv /\ [Next]_vars
      /\ [Unhurried]_vars => Inv'
  BY NextTracked, NextHeld, NextBaseline
<1>3. TypeOK /\ Inv => OneBaseline
  <2> SUFFICES ASSUME TypeOK, Paired
               PROVE  OneBaseline
    OBVIOUS
  <2>1. \A i \in Intents : Version(i) \in Nat
    BY PublicationAssumption DEF TypeOK, Version
  <2>2. \A i, j \in Intents : Version(i) < Version(j) => Version(i) # Version(j)
    BY <2>1
  <2> QED BY <2>2 DEF Paired, OneBaseline
<1> HIDE DEF Inv
<1> QED BY <1>1, <1>2, <1>3, SpecSound, PublishedProved, PTL DEF Spec

\* When moreover no Workflow crashes and no step loses its result, no create step
\* runs again while its request is unsettled, so that the same holds of every
\* behaviour.
THEOREM BaselinesOne ==
  ASSUME ~LateWrites, MaxCrashes = 0
  PROVE  Spec => []OneBaseline
<1> DEFINE Inv == AllTracked /\ AllForward /\ Uncrashed
<1>1. Init => Inv
  <2>1. Init => AllForward /\ Uncrashed
    BY DEF Init, AllForward, Forward, Unlanded, Uncrashed
  <2> QED BY <2>1, InitTracked
<1>2. TypeOK /\ Submitted /\ AllSound /\ PublishedIsProved /\ Inv /\ [Next]_vars => Inv'
  BY NextTracked, NextForward
<1>3. TypeOK /\ AllSound /\ Inv /\ [Next]_vars => [Unhurried]_vars
  BY ForwardUnhurried
<1> HIDE DEF Inv
<1>4. Spec => [][Unhurried]_vars
  BY <1>1, <1>2, <1>3, SpecSound, PublishedProved, PTL DEF Spec
<1> QED BY <1>4, BaselinesSettled, PTL
=============================================================================
