---------------------- MODULE ReleasePublication_proofs ----------------------
(***************************************************************************)
(* Proofs about ReleasePublication, for any number of intents, versions,   *)
(* attempts, crashes, restarts and records of the publisher, and for a PDS *)
(* that may be late (LateWrites) or not.                                   *)
(***************************************************************************)
EXTENDS ReleasePublication, TLAPS

Pcs == Steps \cup Between \cup {"none", "ended"}
Result == [as: Results, gen: Nat]
Memo == [Attempts -> [Steps -> Result]]

LEMMA AttemptsType == Attempts \subseteq Nat /\ 0 \in Attempts /\ 1 \in Attempts
BY PublicationAssumption DEF Attempts

\* The place that follows a step is a place of the Workflow.
LEMMA AfterType ==
  ASSUME NEW m \in Memo, NEW a \in Attempts, NEW s \in Steps
  PROVE  After(m, a, s)[1] \in Pcs /\ After(m, a, s)[2] \in Attempts
<1>1. CASE s \in {"load", "policy", "markVerified", "markReady"}
  BY <1>1, AttemptsType DEF After, Pcs, Steps, Between
<1>2. CASE s \in {"coordinate", "verify", "finalRelease", "refuse", "release"}
  BY <1>2, AttemptsType DEF After, Pcs, Steps, Between
<1>3. CASE s \in {"begin", "materialize", "create", "reconcile", "state"}
  BY <1>3, AttemptsType DEF After, Pcs, Steps, Between
<1>4. CASE s = "reconcileRelease"
  BY <1>4, AttemptsType DEF After, Pcs, Steps, Between
<1>5. CASE s = "settle"
  BY <1>5, AttemptsType, PublicationAssumption
  DEF After, Pcs, Steps, Between, Attempts, NextAttempt
<1> QED BY <1>1, <1>2, <1>3, <1>4, <1>5 DEF Steps

------------------------------------------------------------------------------
(* Type correctness                                                        *)

IntentTyped == intent \in [Intents -> Row \cup {NoRow}]
ReservedTyped == reserved \in [Versions -> Intents \cup {None}]
OpTyped == op \in [Intents -> Operation]
WfTyped == wf \in [Intents -> Workflow]
MemoTyped == memo \in [Intents -> [Attempts -> [Steps -> [as: Results, gen: Nat]]]]

LEMMA RowMoves ==
  ASSUME TypeOK, NEW i \in Intents, NEW to \in States, intent[i] # NoRow
  PROVE  [intent EXCEPT ![i] = Moved(intent[i], to)] \in [Intents -> Row \cup {NoRow}]
<1>1. intent[i] \in Row
  BY DEF TypeOK
<1>2. Moved(intent[i], to) \in Row
  BY <1>1 DEF Moved, Row
<1> QED BY <1>2 DEF TypeOK

LEMMA AllowedTyped ==
  ASSUME NEW s \in States
  PROVE  Allowed[s] \subseteq States
BY DEF Allowed, States, Waiting, Active, Releasing

LEMMA TransitionTyped ==
  ASSUME TypeOK, NEW i \in Intents, NEW from \in States, NEW gen \in Nat, NEW to,
         Transition(i, from, gen, to)
  PROVE  IntentTyped' /\ ReservedTyped'
<1>0. CanMove(intent[i], from, gen, to) => to \in States
  BY AllowedTyped DEF CanMove
<1>1. CanMove(intent[i], from, gen, to) => intent[i] # NoRow
  BY DEF CanMove, NoRow, States, Waiting, Active, Releasing
<1>2. IntentTyped'
  BY <1>0, <1>1, RowMoves DEF Transition, IntentTyped, TypeOK
<1>3. ReservedTyped'
  BY DEF Transition, ReservedTyped, TypeOK, Version
<1> QED BY <1>2, <1>3

LEMMA WfSet ==
  ASSUME TypeOK, NEW i \in Intents, NEW w \in Workflow
  PROVE  [wf EXCEPT ![i] = w] \in [Intents -> Workflow]
BY DEF TypeOK

LEMMA GotoTyped ==
  ASSUME TypeOK, NEW i \in Intents, NEW pc \in Pcs, Goto(i, pc)
  PROVE  WfTyped'
<1>1. wf[i] \in Workflow
  BY DEF TypeOK
<1>2. [wf[i] EXCEPT !.pc = pc] \in Workflow
  BY <1>1 DEF Workflow, Pcs
<1> QED BY <1>2, WfSet DEF Goto, WfTyped

LEMMA EnterTyped ==
  ASSUME TypeOK, NEW i \in Intents, NEW pc \in Pcs, NEW gen \in Nat,
         Enter(i, pc, gen)
  PROVE  WfTyped'
<1>1. wf[i] \in Workflow
  BY DEF TypeOK
<1>2. [wf[i] EXCEPT !.pc = pc, !.gen = gen] \in Workflow
  BY <1>1 DEF Workflow, Pcs
<1> QED BY <1>2, WfSet DEF Enter, WfTyped

LEMMA StartTyped ==
  ASSUME NEW n \in Nat
  PROVE  [NoWf EXCEPT !.pc = "load", !.run = n] \in Workflow
BY AttemptsType DEF NoWf, Workflow, Steps, Between

LEMMA TopTyped ==
  ASSUME TypeOK, NEW i \in Intents, FromTheTop(i)
  PROVE  WfTyped'
<1>1. wf[i].run \in Nat
  BY DEF TypeOK, Workflow
<1> QED BY <1>1, StartTyped, WfSet DEF FromTheTop, WfTyped

LEMMA ProceedTyped ==
  ASSUME TypeOK, NEW i \in Intents, NEW m \in Memo, NEW s \in Steps, Proceed(i, m, s)
  PROVE  WfTyped'
<1>1. wf[i] \in Workflow /\ wf[i].attempt \in Attempts
  BY DEF TypeOK, Workflow
<1> DEFINE next == After(m, wf[i].attempt, s)
<1>2. next[1] \in Pcs /\ next[2] \in Attempts
  BY <1>1, AfterType
<1> DEFINE w == [wf[i] EXCEPT !.pc = next[1], !.attempt = next[2], !.closing = "failed"]
<1>3. wf' = [wf EXCEPT ![i] = w]
  BY DEF Proceed
<1> HIDE DEF next
<1>4. w \in Workflow
  BY <1>1, <1>2 DEF Workflow, Pcs
<1> HIDE DEF w
<1> QED BY <1>3, <1>4, WfSet DEF WfTyped

LEMMA StoreTyped ==
  ASSUME TypeOK, NEW i \in Intents, NEW s \in Steps, NEW as \in Results, NEW gen \in Nat,
         Store(i, s, as, gen)
  PROVE  WfTyped' /\ MemoTyped' /\ crashes' \in Nat
<1> DEFINE a == wf[i].attempt
           m == [memo[i] EXCEPT ![a] = [memo[i][a] EXCEPT ![s] = [as |-> as, gen |-> gen]]]
<1>1. a \in Attempts /\ memo[i] \in Memo /\ memo[i][a] \in [Steps -> Result]
  BY DEF TypeOK, Workflow, Memo, Result
<1>2. [as |-> as, gen |-> gen] \in Result
  BY DEF Result
<1>3. m \in Memo
  BY <1>1, <1>2 DEF Memo
<1>4. CASE memo' = [memo EXCEPT ![i] = m] /\ Proceed(i, m, s) /\ UNCHANGED crashes
  <2>1. MemoTyped'
    BY <1>3, <1>4 DEF MemoTyped, TypeOK, Memo, Result
  <2> HIDE DEF m
  <2> QED BY <1>3, <1>4, <2>1, ProceedTyped DEF TypeOK
<1>5. CASE crashes > 0 /\ crashes' = crashes - 1 /\ FromTheTop(i) /\ UNCHANGED memo
  BY <1>5, TopTyped DEF TypeOK, MemoTyped
<1> QED BY <1>4, <1>5 DEF Store

LEMMA StoredTyped ==
  ASSUME TypeOK, NEW i \in Intents, NEW s \in Steps
  PROVE  Stored(i, s).gen \in Nat /\ Stored(i, s).as \in Results
<1>1. wf[i].attempt \in Attempts
  BY DEF TypeOK, Workflow
<1> QED BY <1>1 DEF TypeOK, Stored

LEMMA MarkTyped ==
  ASSUME TypeOK, NEW i \in Intents, NEW s \in Steps, NEW from \in States, NEW gen \in Nat,
         NEW to, Mark(i, s, from, gen, to)
  PROVE  IntentTyped' /\ ReservedTyped' /\ WfTyped' /\ MemoTyped' /\ crashes' \in Nat
<1>1. "ok" \in Results /\ "refused" \in Results /\ gen + 1 \in Nat
  BY DEF Results
<1> QED BY <1>1, TransitionTyped, StoreTyped DEF Mark

LEMMA OpSet ==
  ASSUME TypeOK, NEW i \in Intents, NEW o \in Operation
  PROVE  [op EXCEPT ![i] = o] \in [Intents -> Operation]
BY DEF TypeOK

LEMMA CompleteTyped ==
  ASSUME TypeOK, NEW i \in Intents,
         NEW outcome \in {"published", "ambiguous", "blocked", "conflict", "failed"},
         Complete(i, outcome)
  PROVE  IntentTyped' /\ OpTyped'
<1>1. StateForOutcome(outcome) \in States
  BY DEF StateForOutcome, States, Waiting, Active, Releasing
<1>2. CanComplete(i, outcome) => intent[i] # NoRow
  BY DEF CanComplete, OwnsOperation, NoRow
<1>3. op[i] \in Operation
  BY DEF TypeOK
<1>4. [op[i] EXCEPT !.status = "completed"] \in Operation
  BY <1>3 DEF Operation
<1>5. op' = IF CanComplete(i, outcome)
            THEN [op EXCEPT ![i] = [op[i] EXCEPT !.status = "completed"]] ELSE op
  BY DEF Complete
<1>6. OpTyped'
  BY <1>4, <1>5, OpSet DEF OpTyped, TypeOK
<1>7. IntentTyped'
  BY <1>1, <1>2, RowMoves DEF Complete, IntentTyped, TypeOK
<1> QED BY <1>6, <1>7

LEMMA AdvanceTyped ==
  ASSUME TypeOK, NEW i \in Intents, NEW phase \in {"materialized", "creating"},
         Advance(i, phase)
  PROVE  OpTyped'
<1>1. op[i] \in Operation
  BY DEF TypeOK
<1>2. [op[i] EXCEPT !.phase = phase] \in Operation
  BY <1>1 DEF Operation
<1>3. op' = IF CanAdvance(i, phase) THEN [op EXCEPT ![i] = [op[i] EXCEPT !.phase = phase]] ELSE op
  BY DEF Advance
<1> QED BY <1>2, <1>3, OpSet DEF OpTyped, TypeOK

LEMMA KeyTyped ==
  ASSUME TypeOK, NEW i \in Intents
  PROVE  Key(i) \in Keys
BY DEF TypeOK, Workflow, Key, Keys

\* The steps of a Workflow are typed.
LEMMA RunTyped ==
  ASSUME TypeOK, NEW i \in Intents, Run(i)
  PROVE  TypeOK'
<1> USE DEF IntentTyped, ReservedTyped, OpTyped, WfTyped, MemoTyped
<1>0. /\ {"none", "ok", "refused", "absent", "exact", "conflict", "invalid", "failed",
          "reconciling"} \subseteq Results
      /\ States \subseteq Results
      /\ {"verifying", "verified", "ready", "publishing", "reconciling", "failed", "expired",
          "invalid", "published", "conflict"} \subseteq States
  BY DEF Results, States, Waiting, Active, Releasing
<1>00. wf[i] \in Workflow /\ wf[i].attempt \in Attempts /\ wf[i].gen \in Nat
       /\ wf[i].closing \in {"blocked", "failed"}
  BY DEF TypeOK, Workflow
<1>000. /\ intent[i] \in Row \cup {NoRow} /\ intent[i].gen \in Nat
        /\ intent[i].state \in States \cup {"none"} /\ intent[i].state \in Results
  BY <1>0 DEF TypeOK, Row, NoRow
<1>1. CASE Replay(i)
  <2>1. memo[i] \in Memo
    BY DEF TypeOK, Memo, Result
  <2> QED BY <1>1, <2>1, ProceedTyped DEF Replay, TypeOK, tables
<1>2. CASE GiveUp(i)
  BY <1>2, GotoTyped DEF GiveUp, TypeOK, tables, Pcs
<1>3. CASE Load(i)
  <2>1. CASE Store(i, "load", intent[i].state, intent[i].gen)
    BY <1>3, <2>1, <1>000, StoreTyped DEF Load, TypeOK, tables, Steps
  <2>2. CASE Goto(i, "ended") /\ UNCHANGED <<memo, crashes>>
    BY <1>3, <2>2, GotoTyped DEF Load, TypeOK, tables, Pcs
  <2> QED BY <1>3, <2>1, <2>2 DEF Load
<1>4. CASE Policy(i)
  <2>1. Baseline(i) \in Versions \cup {0}
    BY DEF Baseline
  <2>2. release' \in [Intents -> [version: Versions, baseline: Versions \cup {0}]]
    <3>1. \/ release' = [release EXCEPT ![i].baseline = Baseline(i)]
          \/ release' = release
      BY <1>4 DEF Policy
    <3>2. release \in [Intents -> [version: Versions, baseline: Versions \cup {0}]]
      BY DEF TypeOK
    <3> HIDE DEF IntentTyped, ReservedTyped, OpTyped, WfTyped, MemoTyped
    <3> QED BY <3>1, <3>2, <2>1
  <2>3. \E as \in Results : Store(i, "policy", as, 0)
    BY <1>4, <1>0 DEF Policy
  <2> QED BY <1>4, <2>2, <2>3, StoreTyped DEF Policy, TypeOK, Steps
<1>5. CASE MarkVerified(i)
  BY <1>5, <1>0, StoredTyped, MarkTyped DEF MarkVerified, TypeOK, Steps
<1>6. CASE MarkReady(i)
  BY <1>6, <1>0, StoredTyped, MarkTyped DEF MarkReady, TypeOK, Steps
<1>7. CASE Coordinate(i)
  <2>1. coord' \in [holder: Intents \cup {None}, key: Keys, live: BOOLEAN]
    <3>1. [holder |-> i, key |-> Key(i), live |-> TRUE]
            \in [holder: Intents \cup {None}, key: Keys, live: BOOLEAN]
      BY KeyTyped
    <3> QED BY <1>7, <3>1 DEF Coordinate, TypeOK
  <2>2. \E as \in Results : Store(i, "coordinate", as, 0)
    BY <1>7, <1>0 DEF Coordinate
  <2> QED BY <1>7, <2>1, <2>2, StoreTyped DEF Coordinate, TypeOK, Steps
<1>8. CASE FinalVerification(i)
  <2>1. \E as \in Results : Store(i, "verify", as, 0)
    BY <1>8, <1>0 DEF FinalVerification
  <2> QED BY <1>8, <2>1, StoreTyped DEF FinalVerification, TypeOK, Steps, tables
<1>9. CASE Refuse(i)
  <2>1. CASE wf[i].attempt = 0
    BY <1>9, <2>1, <1>0, StoredTyped, MarkTyped DEF Refuse, TypeOK, Steps
  <2>2. CASE wf[i].attempt # 0
    <3>1. Mark(i, "refuse", "ready", intent[i].gen, Stored(i, "verify").as)
      BY <1>9, <2>2 DEF Refuse
    <3>2. "refuse" \in Steps /\ "ready" \in States
      BY <1>0 DEF Steps
    <3>3. /\ IntentTyped' /\ ReservedTyped' /\ WfTyped' /\ MemoTyped' /\ crashes' \in Nat
      BY <1>000, <3>1, <3>2, MarkTyped
    <3> QED BY <1>9, <3>3 DEF Refuse, TypeOK
  <2> QED BY <2>1, <2>2
<1>10. ASSUME NEW s \in {"finalRelease", "release", "reconcileRelease"}, ReleaseCoordination(i, s)
       PROVE  TypeOK'
  <2>1. NoCoord \in [holder: Intents \cup {None}, key: Keys, live: BOOLEAN]
    BY AttemptsType, PublicationAssumption DEF NoCoord, Keys
  <2> QED BY <1>10, <1>0, <2>1, StoreTyped DEF ReleaseCoordination, TypeOK, Steps
<1>11. CASE Look(i)
  <2>1. CASE intent[i].state = "ready" /\ intent[i].expired
    BY <1>11, <2>1, <1>0, <1>000, TransitionTyped, GotoTyped DEF Look, TypeOK, Pcs, Steps
  <2>3. CASE intent[i].state = "ready" /\ ~intent[i].expired
    BY <1>11, <2>3, <1>000, EnterTyped DEF Look, TypeOK, Pcs, Between
  <2>4. CASE intent[i].state = "publishing"
    BY <1>11, <2>4, <1>000, EnterTyped DEF Look, TypeOK, Pcs, Steps
  <2>5. CASE intent[i].state \notin {"ready", "publishing"}
    BY <1>11, <2>5, GotoTyped DEF Look, TypeOK, Pcs, Steps
  <2> QED BY <2>1, <2>3, <2>4, <2>5
<1>12. CASE Publish(i)
  <2>1. WfTyped'
    BY <1>12, <1>00, EnterTyped, GotoTyped DEF Publish, Pcs, Steps
  <2> QED BY <1>12, <2>1, <1>0, <1>00, TransitionTyped DEF Publish, TypeOK
<1>13. CASE Begin(i)
  <2>1. [status |-> "active", key |-> Key(i), gen |-> wf[i].gen, phase |-> "uploading",
         live |-> TRUE] \in Operation
    BY <1>00, KeyTyped DEF Operation
  <2>2. OpTyped'
    BY <1>13, <2>1, OpSet DEF Begin, TypeOK
  <2>3. \E as \in Results : Store(i, "begin", as, wf[i].gen)
    BY <1>13, <1>0 DEF Begin
  <2> QED BY <1>13, <1>00, <2>2, <2>3, StoreTyped DEF Begin, TypeOK, Steps
<1>14. CASE Abandon(i)
  BY <1>14, <1>0, <1>00, TransitionTyped, GotoTyped DEF Abandon, TypeOK, Pcs, Steps
<1>15. CASE Materialize(i)
  BY <1>15, <1>0, AdvanceTyped, StoreTyped DEF Materialize, TypeOK, Steps
<1>16. CASE UploadFails(i)
  BY <1>16, GotoTyped DEF UploadFails, TypeOK, tables, Pcs, Between
<1>17. ASSUME NEW result \in {"ok", "reconciling"}, AttemptEnds(i, result)
       PROVE  WfTyped' /\ MemoTyped' /\ crashes' \in Nat
  BY <1>17, <1>0, StoreTyped, GotoTyped DEF AttemptEnds, Pcs, Steps, TypeOK
<1>18. CASE Close(i)
  <2>1. wf[i].closing \in {"published", "ambiguous", "blocked", "conflict", "failed"}
    BY <1>00
  <2>2. IntentTyped' /\ OpTyped'
    BY <1>18, <2>1, CompleteTyped DEF Close
  <2>3. WfTyped' /\ MemoTyped' /\ crashes' \in Nat
    BY <1>18, <1>17, GotoTyped DEF Close, Pcs, Between, TypeOK
  <2> QED BY <1>18, <2>2, <2>3 DEF Close, TypeOK
<1>19. CASE Latest(i)
  BY <1>19, <1>17 DEF Latest, TypeOK, tables
<1>20. ASSUME NEW outcome \in {"blocked", "failed"}, Refused(i, outcome)
       PROVE  TypeOK'
  <2>1. [wf[i] EXCEPT !.pc = "close", !.closing = outcome] \in Workflow
    BY <1>00 DEF Workflow, Steps, Between
  <2> QED BY <1>20, <2>1, WfSet DEF Refused, Closing, TypeOK, tables
<1>21. CASE EvaluateRefused(i) \/ RenewRefused(i) \/ PermitRefused(i) \/ CreatingRefused(i)
  BY <1>20, <1>21 DEF EvaluateRefused, RenewRefused, PermitRefused, CreatingRefused
<1>22. CASE Evaluate(i) \/ Permit(i) \/ RequestFails(i)
  BY <1>22, GotoTyped DEF Evaluate, Permit, RequestFails, TypeOK, tables, Pcs, Between
<1>23. CASE Renew(i)
  <2>1. [coord EXCEPT !.live = TRUE] \in [holder: Intents \cup {None}, key: Keys, live: BOOLEAN]
    BY DEF TypeOK
  <2> QED BY <1>23, <2>1, GotoTyped DEF Renew, TypeOK, Pcs, Between
<1>24. CASE Creating(i)
  BY <1>24, AdvanceTyped, GotoTyped DEF Creating, TypeOK, Pcs, Between
<1>25. CASE Send(i)
  BY <1>25, GotoTyped DEF Send, TypeOK, tables, Pcs, Between
<1>26. CASE Proved(i)
  <2>1. WfTyped' /\ MemoTyped' /\ crashes' \in Nat
    BY <1>26, <1>0, StoreTyped, GotoTyped DEF Proved, Pcs, Steps, Between, TypeOK
  <2> QED BY <1>26, <2>1, CompleteTyped DEF Proved, TypeOK
<1>27. CASE Ambiguous(i)
  <2>1. WfTyped' /\ MemoTyped' /\ crashes' \in Nat
    BY <1>27, <1>0, StoreTyped DEF Ambiguous, Steps
  <2> QED BY <1>27, <2>1, CompleteTyped DEF Ambiguous, TypeOK
<1>28. CASE Reconcile(i)
  BY <1>28, <1>0, StoreTyped DEF Reconcile, Found, TypeOK, tables, Steps
<1>29. CASE ReconciliationState(i)
  BY <1>29, <1>000, StoreTyped DEF ReconciliationState, TypeOK, tables, Steps
<1>30. CASE Settle(i)
  BY <1>30, <1>0, StoredTyped, MarkTyped DEF Settle, TypeOK, Steps
<1> QED
  BY <1>1, <1>2, <1>3, <1>4, <1>5, <1>6, <1>7, <1>8, <1>9, <1>10, <1>11, <1>12, <1>13, <1>14,
     <1>15, <1>16, <1>18, <1>19, <1>21, <1>22, <1>23, <1>24, <1>25, <1>26, <1>27, <1>28, <1>29,
     <1>30
  DEF Run

LEMMA NoWorkflowTyped == NoWf \in Workflow
BY AttemptsType DEF NoWf, Workflow

LEMMA NoMemoTyped == NoMemo \in Memo
BY DEF NoMemo, Memo, Result, NotStored, Results

LEMMA InitTyped == Init => TypeOK
<1> SUFFICES ASSUME Init PROVE TypeOK
  OBVIOUS
<1>1. <<0, 0>> \in Keys
  BY AttemptsType DEF Keys
<1>2. NoOp \in Operation
  BY <1>1 DEF NoOp, Operation
<1>3. memo \in [Intents -> [Attempts -> [Steps -> [as: Results, gen: Nat]]]]
  BY NoMemoTyped DEF Init, Memo, Result
<1>4. coord \in [holder: Intents \cup {None}, key: Keys, live: BOOLEAN]
  BY <1>1 DEF Init, NoCoord
<1>5. release \in [Intents -> [version: Versions, baseline: Versions \cup {0}]]
  BY DEF Init
<1> QED BY <1>2, <1>3, <1>4, <1>5, NoWorkflowTyped, PublicationAssumption DEF Init, TypeOK

LEMMA RecoveredTyped ==
  ASSUME TypeOK, NEW i \in Intents, NEW to \in States
  PROVE  /\ intent[i].state = "publishing" => Moved(intent[i], to) \in Row
         /\ [op[i] EXCEPT !.status = "completed"] \in Operation
<1>1. intent[i].state = "publishing" => intent[i] \in Row
  BY DEF TypeOK, NoRow
<1>2. op[i] \in Operation
  BY DEF TypeOK
<1> QED BY <1>1, <1>2 DEF Moved, Row, Operation

LEMMA NextTyped == TypeOK /\ [Next]_vars => TypeOK'
<1> SUFFICES ASSUME TypeOK, [Next]_vars
             PROVE  TypeOK'
  OBVIOUS
<1> USE DEF IntentTyped, ReservedTyped, OpTyped, WfTyped, MemoTyped
<1>0. /\ {"received", "verifying", "ready", "reconciling", "cancelled", "expired"} \subseteq States
      /\ Waiting \subseteq States
  BY DEF States, Waiting, Active, Releasing
<1>00. \A i \in Intents : intent[i].gen \in Nat
  BY DEF TypeOK, Row, NoRow
<1>1. ASSUME NEW i \in Intents, Submit(i) \/ Start(i) \/ Cancel(i) \/ AlarmExpires(i)
      PROVE  TypeOK'
  <2>1. CASE Submit(i)
    <3>1. [state |-> "received", gen |-> 1, expired |-> FALSE] \in Row
      BY <1>0 DEF Row
    <3> QED BY <2>1, <3>1 DEF Submit, TypeOK, Version
  <2>2. CASE Start(i)
    BY <2>2, <1>0, <1>00, TransitionTyped DEF Start, TypeOK
  <2>3. CASE Cancel(i)
    BY <2>3, <1>0, <1>00, TransitionTyped DEF Cancel, TypeOK
  <2>4. CASE AlarmExpires(i)
    BY <2>4, <1>0, <1>00, TransitionTyped DEF AlarmExpires, TypeOK
  <2> QED BY <1>1, <2>1, <2>2, <2>3, <2>4
<1>2. ASSUME NEW i \in Intents, DeadlinePasses(i)
      PROVE  TypeOK'
  <2>1. intent[i] \in Row
    BY <1>2 DEF DeadlinePasses, TypeOK
  <2>2. [intent[i] EXCEPT !.expired = TRUE] \in Row
    BY <2>1 DEF Row
  <2>3. intent' = [intent EXCEPT ![i] = [intent[i] EXCEPT !.expired = TRUE]]
    BY <1>2 DEF DeadlinePasses
  <2> QED BY <1>2, <2>2, <2>3 DEF DeadlinePasses, TypeOK
<1>3. ASSUME NEW i \in Intents, CreateInstance(i) \/ Crash(i) \/ Restart(i)
      PROVE  TypeOK'
  <2>1. CASE CreateInstance(i)
    <3>1. [NoWf EXCEPT !.pc = "load"] \in Workflow
      BY NoWorkflowTyped DEF Workflow, Steps
    <3> QED BY <2>1, <3>1, WfSet DEF CreateInstance, TypeOK, tables
  <2>2. CASE Crash(i)
    BY <2>2, TopTyped DEF Crash, TypeOK, tables
  <2>3. CASE Restart(i)
    <3>1. wf[i].run + 1 \in Nat
      BY DEF TypeOK, Workflow
    <3>2. WfTyped'
      BY <2>3, <3>1, StartTyped, WfSet DEF Restart
    <3>3. MemoTyped'
      BY <2>3, NoMemoTyped DEF Restart, TypeOK, Memo, Result
    <3> QED BY <2>3, <3>2, <3>3 DEF Restart, TypeOK, tables
  <2> QED BY <1>3, <2>1, <2>2, <2>3
<1>4. ASSUME NEW i \in Intents, Settled(i)
      PROVE  TypeOK'
  BY <1>4 DEF Settled, Land, Drop, TypeOK, tables, Version
<1>5. CASE AlarmRecovers
  <2>1. coord' \in [holder: Intents \cup {None}, key: Keys, live: BOOLEAN]
    BY <1>5, AttemptsType, PublicationAssumption DEF AlarmRecovers, NoCoord, Keys, TypeOK
  <2>2. IntentTyped'
    BY <1>5, <1>0, RecoveredTyped DEF AlarmRecovers, TypeOK
  <2>3. OpTyped'
    BY <1>5, <1>0, RecoveredTyped DEF AlarmRecovers, TypeOK
  <2> QED BY <1>5, <2>1, <2>2, <2>3 DEF AlarmRecovers, TypeOK
<1>6. CASE CoordLeaseRunsOut
  <2>1. [coord EXCEPT !.live = FALSE] \in [holder: Intents \cup {None}, key: Keys, live: BOOLEAN]
    BY DEF TypeOK
  <2> QED BY <1>6, <2>1 DEF CoordLeaseRunsOut, TypeOK
<1>7. ASSUME NEW i \in Intents, OperationRunsOut(i)
      PROVE  TypeOK'
  <2>1. op[i] \in Operation
    BY DEF TypeOK
  <2>2. [op[i] EXCEPT !.live = FALSE] \in Operation
    BY <2>1 DEF Operation
  <2>3. op' = [op EXCEPT ![i] = [op[i] EXCEPT !.live = FALSE]]
    BY <1>7 DEF OperationRunsOut
  <2> QED BY <1>7, <2>2, <2>3, OpSet DEF OperationRunsOut, TypeOK
<1>8. ASSUME NEW v \in Versions, PublisherWrites(v)
      PROVE  TypeOK'
  BY <1>8 DEF PublisherWrites, TypeOK, tables
<1>9. CASE UNCHANGED vars
  BY <1>9 DEF vars, tables, TypeOK
<1> QED BY <1>1, <1>2, <1>3, <1>4, <1>5, <1>6, <1>7, <1>8, <1>9, RunTyped
        DEF Next, Alarm, Deadline

\* The tables, the Workflows and the PDS hold values of their types.
THEOREM TypeCorrect == Spec => []TypeOK
<1>1. Init => TypeOK
  BY InitTyped
<1>2. TypeOK /\ [Next]_vars => TypeOK'
  BY NextTyped
<1> QED BY <1>1, <1>2, PTL DEF Spec
------------------------------------------------------------------------------
(* What a step does to the intents                                         *)

VersionsKept == \A j \in Intents : Version(j)' = Version(j)

\* The steps of a Workflow that make no transition.
LEMMA QuietRun ==
  ASSUME TypeOK, NEW i \in Intents,
         \/ Replay(i) \/ GiveUp(i) \/ Load(i) \/ Policy(i) \/ Coordinate(i)
         \/ FinalVerification(i)
         \/ \E s \in {"finalRelease", "release", "reconcileRelease"} : ReleaseCoordination(i, s)
         \/ Begin(i) \/ Materialize(i) \/ UploadFails(i) \/ Latest(i)
         \/ Evaluate(i) \/ EvaluateRefused(i) \/ Renew(i) \/ RenewRefused(i)
         \/ Permit(i) \/ PermitRefused(i) \/ Creating(i) \/ CreatingRefused(i)
         \/ Send(i) \/ RequestFails(i) \/ Reconcile(i) \/ ReconciliationState(i)
  PROVE  UNCHANGED <<intent, reserved>> /\ VersionsKept
<1>1. CASE Policy(i)
  <2>1. ASSUME NEW j \in Intents
        PROVE  release'[j].version = release[j].version
    <3>1. CASE release' = [release EXCEPT ![i] = [release[i] EXCEPT !.baseline = Baseline(i)]]
      <4>1. release[i] \in [version: Versions, baseline: Versions \cup {0}]
        BY DEF TypeOK
      <4>2. [release[i] EXCEPT !.baseline = Baseline(i)].version = release[i].version
        BY <4>1
      <4> QED BY <3>1, <4>2 DEF TypeOK
    <3>2. CASE release' = release
      BY <3>2
    <3> QED BY <1>1, <3>1, <3>2 DEF Policy
  <2> QED BY <1>1, <2>1 DEF Policy, VersionsKept, Version
<1>2. CASE \/ Replay(i) \/ GiveUp(i) \/ Load(i) \/ Coordinate(i) \/ FinalVerification(i)
           \/ \E s \in {"finalRelease", "release", "reconcileRelease"} :
                ReleaseCoordination(i, s)
           \/ Begin(i) \/ Materialize(i) \/ UploadFails(i) \/ Latest(i)
  BY <1>2 DEF Replay, GiveUp, Load, Coordinate, FinalVerification, ReleaseCoordination, Begin,
              Materialize, UploadFails, Latest, tables, VersionsKept, Version
<1>3. CASE \/ Evaluate(i) \/ EvaluateRefused(i) \/ Renew(i) \/ RenewRefused(i)
           \/ Permit(i) \/ PermitRefused(i) \/ Creating(i) \/ CreatingRefused(i)
           \/ Send(i) \/ RequestFails(i) \/ Reconcile(i) \/ ReconciliationState(i)
  BY <1>3 DEF Evaluate, EvaluateRefused, Renew, RenewRefused, Permit, PermitRefused, Creating,
              CreatingRefused, Send, RequestFails, Reconcile, ReconciliationState, Refused,
              tables, VersionsKept, Version
<1> QED BY <1>1, <1>2, <1>3

\* Its transitions, and the completions of its operation.
LEMMA MovingRun ==
  ASSUME TypeOK, NEW i \in Intents,
         \/ MarkVerified(i) \/ MarkReady(i) \/ Refuse(i) \/ Look(i) \/ Publish(i) \/ Abandon(i)
         \/ Settle(i)
  PROVE  /\ VersionsKept
         /\ \/ UNCHANGED <<intent, reserved>>
            \/ \E from \in States, gen \in Nat, to \in Results : Transition(i, from, gen, to)
<1>1. {"verifying", "verified", "ready", "publishing", "reconciling"} \subseteq States
      /\ {"verified", "ready", "publishing", "expired", "invalid", "failed", "published",
          "conflict"} \subseteq Results
  BY DEF Results, States, Waiting, Active, Releasing
<1>2. intent[i].gen \in Nat /\ wf[i].gen \in Nat
  BY DEF TypeOK, Row, NoRow, Workflow
<1>3. VersionsKept
  BY DEF MarkVerified, MarkReady, Refuse, Look, Publish, Abandon, Settle, VersionsKept, Version
<1>4. CASE MarkVerified(i) \/ MarkReady(i)
  BY <1>1, <1>3, <1>4, StoredTyped DEF MarkVerified, MarkReady, Mark, Steps
<1>5. CASE Refuse(i)
  BY <1>1, <1>2, <1>3, <1>5, StoredTyped DEF Refuse, Mark, Steps
<1>6. CASE Look(i)
  BY <1>1, <1>2, <1>3, <1>6 DEF Look
<1>7. CASE Publish(i) \/ Abandon(i)
  BY <1>1, <1>2, <1>3, <1>7 DEF Publish, Abandon
<1>8. CASE Settle(i)
  BY <1>1, <1>3, <1>8, StoredTyped DEF Settle, Mark, Steps, SettledAs
<1> QED BY <1>4, <1>5, <1>6, <1>7, <1>8

LEMMA CompletingRun ==
  ASSUME TypeOK, NEW i \in Intents, Close(i) \/ Proved(i) \/ Ambiguous(i)
  PROVE  /\ VersionsKept /\ reserved' = reserved
         /\ \/ \E outcome \in {"ambiguous", "blocked", "failed"} : Complete(i, outcome)
            \/ Complete(i, "published") /\ pds[Version(i)] = i
<1>1. wf[i].closing \in {"blocked", "failed"}
  BY DEF TypeOK, Workflow
<1> QED BY <1>1 DEF Close, Proved, Ambiguous, VersionsKept, Version
------------------------------------------------------------------------------
(* The reservations                                                        *)

\* An intent that excludes others holds the reservation of its version.
ReservationHeld == \A i \in Intents : Protected(i) => reserved[Version(i)] = i

LEMMA StillHeld ==
  ASSUME ReservationHeld, VersionsKept, reserved' = reserved,
         \A j \in Intents : Protected(j)' => Protected(j)
  PROVE  ReservationHeld'
BY DEF ReservationHeld, VersionsKept

LEMMA StatesApart ==
  /\ Waiting \cap (Active \cup {"published"}) = {}
  /\ Releasing \cap (Waiting \cup Active \cup {"published"}) = {}
BY DEF Waiting, Active, Releasing

LEMMA TransitionHolds ==
  ASSUME TypeOK, ReservationHeld, VersionsKept, NEW i \in Intents, NEW from \in States,
         NEW gen \in Nat, NEW to, Transition(i, from, gen, to)
  PROVE  ReservationHeld'
<1>1. CASE CanMove(intent[i], from, gen, to) /\ to \in Releasing
  <2>1. ~Protected(i)'
    BY <1>1, StatesApart DEF Transition, Protected, Moved, TypeOK
  <2>2. SUFFICES ASSUME NEW j \in Intents, j # i, Protected(j)'
                 PROVE  reserved'[Version(j)] = j
    BY <2>1, <2>2 DEF ReservationHeld, VersionsKept
  <2>3. Protected(j)
    BY <1>1, <2>2 DEF Transition, Protected
  <2>4. reserved[Version(j)] = j /\ Version(j) \in Versions
    BY <2>3 DEF ReservationHeld, Version, TypeOK
  <2> QED BY <1>1, <2>2, <2>4 DEF Transition, TypeOK
<1>2. CASE CanMove(intent[i], from, gen, to) /\ to \notin Releasing
  <2>1. Protected(i)' => Protected(i)
    <3>1. intent'[i] = Moved(intent[i], to)
      BY <1>2 DEF Transition, TypeOK
    <3>2. to # "expired"
      BY <1>2 DEF Releasing
    <3>3. intent[i].state \in States /\ from \notin Releasing \cup {"published"}
      BY <1>2 DEF CanMove, Allowed, Releasing
    <3> QED BY <1>2, <3>1, <3>2, <3>3
            DEF Protected, CanMove, Lapsed, Moved, States
  <2>2. \A j \in Intents \ {i} : Protected(j)' => Protected(j)
    BY <1>2 DEF Transition, Protected
  <2> QED BY <1>2, <2>1, <2>2, StillHeld DEF Transition
<1>3. CASE ~CanMove(intent[i], from, gen, to)
  BY <1>3, StillHeld DEF Transition, Protected
<1> QED BY <1>1, <1>2, <1>3

LEMMA CompleteHolds ==
  ASSUME TypeOK, ReservationHeld, VersionsKept, reserved' = reserved, NEW i \in Intents,
         NEW outcome, Complete(i, outcome)
  PROVE  ReservationHeld'
<1>1. CanComplete(i, outcome) => Protected(i)
  BY DEF CanComplete, OwnsOperation, Protected, Active
<1> QED BY <1>1, StillHeld DEF Complete, Protected, TypeOK

LEMMA NextHolds == TypeOK /\ ReservationHeld /\ [Next]_vars => ReservationHeld'
<1> SUFFICES ASSUME TypeOK, ReservationHeld, [Next]_vars
             PROVE  ReservationHeld'
  OBVIOUS
<1>0. /\ {"received", "verifying"} \cup Waiting \subseteq States
      /\ \A i \in Intents : intent[i].gen \in Nat
  BY DEF States, Waiting, TypeOK, Row, NoRow
<1>1. ASSUME NEW i \in Intents, Run(i)
      PROVE  ReservationHeld'
  <2>1. CASE UNCHANGED <<intent, reserved>> /\ VersionsKept
    BY <2>1, StillHeld DEF Protected
  <2>2. CASE \/ MarkVerified(i) \/ MarkReady(i) \/ Refuse(i) \/ Look(i) \/ Publish(i)
             \/ Abandon(i) \/ Settle(i)
    BY <2>1, <2>2, MovingRun, TransitionHolds
  <2>3. CASE Close(i) \/ Proved(i) \/ Ambiguous(i)
    BY <2>3, CompletingRun, CompleteHolds
  <2> QED BY <1>1, <2>1, <2>2, <2>3, QuietRun DEF Run
<1>2. ASSUME NEW i \in Intents, Submit(i)
      PROVE  ReservationHeld'
  <2>1. SUFFICES ASSUME NEW j \in Intents, Protected(j)'
                 PROVE  reserved'[Version(j)] = j
    BY <1>2 DEF ReservationHeld, Submit, Version
  <2>2. CASE j = i
    BY <1>2, <2>2 DEF Submit, TypeOK, Version
  <2>3. CASE j # i
    <3>1. Protected(j) /\ reserved[Version(j)] = j
      BY <1>2, <2>1, <2>3 DEF Submit, Protected, ReservationHeld, TypeOK
    <3>2. Version(j) # Version(i)
      BY <1>2, <3>1, PublicationAssumption DEF Submit
    <3> QED BY <1>2, <3>1, <3>2 DEF Submit, TypeOK, Version
  <2> QED BY <2>2, <2>3
<1>3. ASSUME NEW i \in Intents, Start(i) \/ Cancel(i) \/ AlarmExpires(i)
      PROVE  ReservationHeld'
  <2>1. VersionsKept
    BY <1>3 DEF Start, Cancel, AlarmExpires, VersionsKept, Version
  <2>2. \E from \in States, gen \in Nat, to \in {"verifying", "cancelled", "expired"} :
          Transition(i, from, gen, to)
    BY <1>0, <1>3 DEF Start, Cancel, AlarmExpires
  <2> QED BY <2>1, <2>2, TransitionHolds
<1>4. ASSUME NEW i \in Intents, DeadlinePasses(i)
      PROVE  ReservationHeld'
  <2>1. \A j \in Intents : Protected(j)' => Protected(j)
    BY <1>4 DEF DeadlinePasses, Protected, TypeOK, Row
  <2> QED BY <1>4, <2>1, StillHeld DEF DeadlinePasses, VersionsKept, Version
<1>5. CASE AlarmRecovers
  <2>1. \A j \in Intents : Protected(j)' => Protected(j)
    BY <1>5 DEF AlarmRecovers, Protected, Moved, Active
  <2> QED BY <1>5, <2>1, StillHeld DEF AlarmRecovers, VersionsKept, Version
<1>6. ASSUME UNCHANGED <<intent, reserved, release>>
      PROVE  ReservationHeld'
  BY <1>6, StillHeld DEF Protected, VersionsKept, Version
<1>7. ASSUME NEW i \in Intents, CreateInstance(i) \/ Crash(i) \/ Restart(i) \/ Settled(i)
                                \/ OperationRunsOut(i)
      PROVE  ReservationHeld'
  BY <1>6, <1>7
  DEF CreateInstance, Crash, Restart, Settled, Land, Drop, OperationRunsOut, tables
<1>8. CASE CoordLeaseRunsOut \/ (\E v \in Versions : PublisherWrites(v)) \/ UNCHANGED vars
  BY <1>6, <1>8 DEF CoordLeaseRunsOut, PublisherWrites, vars, tables
<1> QED BY <1>1, <1>2, <1>3, <1>4, <1>5, <1>7, <1>8 DEF Next, Alarm, Deadline

LEMMA InitHolds == Init => ReservationHeld
BY DEF Init, ReservationHeld, Protected, NoRow, Waiting, Active

\* Of the intents for one version at most one is being published or published,
\* whatever expired, crashed or was recovered.
THEOREM ReservationsExclude == Spec => []ReservationExcludes
<1>1. Init => TypeOK /\ ReservationHeld
  BY InitTyped, InitHolds
<1>2. TypeOK /\ ReservationHeld /\ [Next]_vars => TypeOK' /\ ReservationHeld'
  BY NextTyped, NextHolds
<1>3. ReservationHeld => ReservationExcludes
  BY DEF ReservationHeld, ReservationExcludes, Protected
<1> QED BY <1>1, <1>2, <1>3, PTL DEF Spec
------------------------------------------------------------------------------
(* The proof of a publication                                              *)

\* A record that a Workflow found to be the release is on the PDS.
ExactIsThere ==
  \A i \in Intents, a \in Attempts :
    memo[i][a]["reconcile"].as = "exact" => pds[Version(i)] = i

\* A record is never replaced.
RecordsStay == \A v \in Versions : pds[v] # None => pds'[v] = pds[v]

ReconcileKept ==
  \A j \in Intents, a \in Attempts : memo'[j][a]["reconcile"] = memo[j][a]["reconcile"]

LEMMA StoreKeepsReconcile ==
  ASSUME TypeOK, NEW i \in Intents, NEW s \in Steps \ {"reconcile"}, NEW as, NEW gen,
         Store(i, s, as, gen)
  PROVE  ReconcileKept
<1> DEFINE b == wf[i].attempt
           row == [memo[i][b] EXCEPT ![s] = [as |-> as, gen |-> gen]]
           m == [memo[i] EXCEPT ![b] = row]
<1>1. b \in Attempts /\ memo \in [Intents -> Memo]
  BY DEF TypeOK, Workflow, Memo, Result
<1>2. row["reconcile"] = memo[i][b]["reconcile"]
  BY <1>1 DEF Memo, Steps
<1>3. memo' = [memo EXCEPT ![i] = m] \/ memo' = memo
  BY DEF Store
<1> HIDE DEF row
<1>4. \A a \in Attempts : m[a]["reconcile"] = memo[i][a]["reconcile"]
  BY <1>1, <1>2 DEF Memo
<1> HIDE DEF m
<1> QED BY <1>1, <1>3, <1>4 DEF ReconcileKept

LEMMA ReconcileStores ==
  ASSUME TypeOK, NEW i \in Intents, NEW as, Store(i, "reconcile", as, 0),
         NEW j \in Intents, NEW a \in Attempts
  PROVE  \/ memo'[j][a]["reconcile"] = memo[j][a]["reconcile"]
         \/ j = i /\ memo'[j][a]["reconcile"].as = as
<1> DEFINE b == wf[i].attempt
           row == [memo[i][b] EXCEPT !["reconcile"] = [as |-> as, gen |-> 0]]
           m == [memo[i] EXCEPT ![b] = row]
<1>1. b \in Attempts /\ memo \in [Intents -> Memo]
  BY DEF TypeOK, Workflow, Memo, Result
<1>2. row["reconcile"] = [as |-> as, gen |-> 0]
  BY <1>1 DEF Memo, Steps
<1>3. memo' = [memo EXCEPT ![i] = m] \/ memo' = memo
  BY DEF Store
<1> HIDE DEF row
<1>4. \A c \in Attempts : m[c]["reconcile"] = memo[i][c]["reconcile"]
                          \/ m[c]["reconcile"] = [as |-> as, gen |-> 0]
  BY <1>1, <1>2 DEF Memo
<1> HIDE DEF m
<1>5. ASSUME NEW c \in Attempts, m[c]["reconcile"] # memo[i][c]["reconcile"]
      PROVE  m[c]["reconcile"].as = as
  <2>1. m[c]["reconcile"] = [as |-> as, gen |-> 0]
    BY <1>4, <1>5
  <2> QED BY <2>1
<1> QED BY <1>1, <1>3, <1>5

LEMMA RecordStays ==
  ASSUME TypeOK, RecordsStay, NEW i \in Intents, pds[Version(i)] = i
  PROVE  pds'[Version(i)] = i
<1>1. Version(i) \in Versions
  BY DEF TypeOK, Version
<1> QED BY <1>1, PublicationAssumption DEF RecordsStay

LEMMA ExactStays ==
  ASSUME TypeOK, ExactIsThere, RecordsStay, VersionsKept, ReconcileKept
  PROVE  ExactIsThere'
<1> SUFFICES ASSUME NEW i \in Intents, NEW a \in Attempts,
                    memo'[i][a]["reconcile"].as = "exact"
             PROVE  pds'[Version(i)] = i
  BY DEF ExactIsThere, VersionsKept
<1>1. pds[Version(i)] = i
  BY DEF ReconcileKept, ExactIsThere
<1> QED BY <1>1, RecordStays

LEMMA RunKeepsRecords ==
  ASSUME TypeOK, NEW i \in Intents, Run(i)
  PROVE  pds' = pds /\ VersionsKept
<1>1. CASE \/ MarkVerified(i) \/ MarkReady(i) \/ Refuse(i) \/ Look(i) \/ Publish(i) \/ Abandon(i)
           \/ Settle(i) \/ Close(i) \/ Proved(i) \/ Ambiguous(i)
  BY <1>1, MovingRun, CompletingRun
  DEF MarkVerified, MarkReady, Refuse, Look, Publish, Abandon, Settle, Close, Proved, Ambiguous
<1>2. CASE \/ Replay(i) \/ GiveUp(i) \/ Load(i) \/ Policy(i) \/ Coordinate(i)
           \/ FinalVerification(i)
           \/ \E s \in {"finalRelease", "release", "reconcileRelease"} :
                ReleaseCoordination(i, s)
           \/ Begin(i) \/ Materialize(i) \/ UploadFails(i) \/ Latest(i)
  BY <1>2, QuietRun
  DEF Replay, GiveUp, Load, Policy, Coordinate, FinalVerification, ReleaseCoordination, Begin,
      Materialize, UploadFails, Latest
<1>3. CASE \/ Evaluate(i) \/ EvaluateRefused(i) \/ Renew(i) \/ RenewRefused(i)
           \/ Permit(i) \/ PermitRefused(i) \/ Creating(i) \/ CreatingRefused(i)
           \/ Send(i) \/ RequestFails(i) \/ Reconcile(i) \/ ReconciliationState(i)
  BY <1>3, QuietRun
  DEF Evaluate, EvaluateRefused, Renew, RenewRefused, Permit, PermitRefused, Creating,
      CreatingRefused, Send, RequestFails, Reconcile, ReconciliationState, Refused
<1> QED BY <1>1, <1>2, <1>3 DEF Run

\* Only the reconcile step stores what it found.
LEMMA RunKeepsReconcile ==
  ASSUME TypeOK, NEW i \in Intents, Run(i), ~Reconcile(i)
  PROVE  ReconcileKept
<1> USE DEF Steps
<1>1. CASE memo' = memo
  BY <1>1 DEF ReconcileKept
<1>2. CASE \/ Replay(i) \/ GiveUp(i) \/ Look(i) \/ Publish(i) \/ Abandon(i) \/ UploadFails(i)
           \/ Evaluate(i) \/ EvaluateRefused(i) \/ Renew(i) \/ RenewRefused(i)
           \/ Permit(i) \/ PermitRefused(i) \/ Creating(i) \/ CreatingRefused(i)
           \/ Send(i) \/ RequestFails(i)
  BY <1>1, <1>2
  DEF Replay, GiveUp, Look, Publish, Abandon, UploadFails, Evaluate, EvaluateRefused, Renew,
      RenewRefused, Permit, PermitRefused, Creating, CreatingRefused, Send, RequestFails, Refused
<1>3. CASE Load(i) \/ Policy(i) \/ Coordinate(i) \/ FinalVerification(i)
  BY <1>1, <1>3, StoreKeepsReconcile DEF Load, Policy, Coordinate, FinalVerification
<1>4. CASE MarkVerified(i) \/ MarkReady(i) \/ Refuse(i) \/ Settle(i)
  BY <1>4, StoreKeepsReconcile DEF MarkVerified, MarkReady, Refuse, Settle, Mark
<1>5. CASE \/ \E s \in {"finalRelease", "release", "reconcileRelease"} :
                ReleaseCoordination(i, s)
           \/ Begin(i) \/ Materialize(i) \/ Ambiguous(i) \/ ReconciliationState(i)
  BY <1>5, StoreKeepsReconcile
  DEF ReleaseCoordination, Begin, Materialize, Ambiguous, ReconciliationState
<1>6. CASE Close(i) \/ Latest(i) \/ Proved(i)
  BY <1>1, <1>6, StoreKeepsReconcile DEF Close, Latest, Proved, AttemptEnds
<1> QED BY <1>2, <1>3, <1>4, <1>5, <1>6 DEF Run

LEMMA NextExact == TypeOK /\ ExactIsThere /\ [Next]_vars => ExactIsThere' /\ RecordsStay /\ VersionsKept
<1> SUFFICES ASSUME TypeOK, ExactIsThere, [Next]_vars
             PROVE  ExactIsThere' /\ RecordsStay /\ VersionsKept
  OBVIOUS
<1>1. ASSUME NEW i \in Intents, Run(i)
      PROVE  ExactIsThere' /\ RecordsStay /\ VersionsKept
  <2>1. RecordsStay /\ VersionsKept
    BY <1>1, RunKeepsRecords DEF RecordsStay
  <2>2. CASE ~Reconcile(i)
    BY <1>1, <2>1, <2>2, RunKeepsReconcile, ExactStays
  <2>3. CASE Reconcile(i)
    <3>1. SUFFICES ASSUME NEW j \in Intents, NEW a \in Attempts,
                          memo'[j][a]["reconcile"].as = "exact"
                   PROVE  pds'[Version(j)] = j
      BY <2>1 DEF ExactIsThere, VersionsKept
    <3>2. pds' = pds /\ Store(i, "reconcile", Found(i), 0)
      BY <2>3 DEF Reconcile
    <3>3. CASE memo'[j][a]["reconcile"] = memo[j][a]["reconcile"]
      BY <3>1, <3>2, <3>3 DEF ExactIsThere
    <3>4. CASE j = i /\ memo'[j][a]["reconcile"].as = Found(i)
      BY <3>1, <3>2, <3>4 DEF Found
    <3> QED BY <3>2, <3>3, <3>4, ReconcileStores
  <2> QED BY <2>1, <2>2, <2>3
<1>2. ASSUME NEW i \in Intents, Restart(i)
      PROVE  ExactIsThere' /\ RecordsStay /\ VersionsKept
  <2>1. RecordsStay /\ VersionsKept
    BY <1>2 DEF Restart, RecordsStay, VersionsKept, tables, Version
  <2>2. \A j \in Intents, a \in Attempts :
          memo'[j][a]["reconcile"].as = "exact" => memo[j][a]["reconcile"].as = "exact"
    BY <1>2 DEF Restart, TypeOK, NoMemo, NotStored, Steps
  <2>3. pds' = pds
    BY <1>2 DEF Restart
  <2> QED BY <2>1, <2>2, <2>3 DEF ExactIsThere, VersionsKept
<1>3. ASSUME memo' = memo, release' = release, RecordsStay
      PROVE  ExactIsThere' /\ RecordsStay /\ VersionsKept
  <2>1. VersionsKept /\ ReconcileKept
    BY <1>3 DEF VersionsKept, Version, ReconcileKept
  <2> QED BY <1>3, <2>1, ExactStays
<1>4. ASSUME NEW i \in Intents, \/ Submit(i) \/ Start(i) \/ CreateInstance(i) \/ Cancel(i)
                                \/ DeadlinePasses(i) \/ Crash(i) \/ AlarmExpires(i)
                                \/ OperationRunsOut(i) \/ Drop(i)
      PROVE  ExactIsThere' /\ RecordsStay /\ VersionsKept
  BY <1>3, <1>4
  DEF Submit, Start, CreateInstance, Cancel, DeadlinePasses, Crash, AlarmExpires,
      OperationRunsOut, Drop, tables, RecordsStay
<1>5. ASSUME NEW i \in Intents, Land(i)
      PROVE  ExactIsThere' /\ RecordsStay /\ VersionsKept
  BY <1>3, <1>5 DEF Land, tables, RecordsStay, TypeOK
<1>6. ASSUME NEW v \in Versions, PublisherWrites(v)
      PROVE  ExactIsThere' /\ RecordsStay /\ VersionsKept
  BY <1>3, <1>6 DEF PublisherWrites, tables, RecordsStay, TypeOK
<1>7. CASE AlarmRecovers \/ CoordLeaseRunsOut \/ UNCHANGED vars
  BY <1>3, <1>7 DEF AlarmRecovers, CoordLeaseRunsOut, vars, tables, RecordsStay
<1> QED BY <1>1, <1>2, <1>4, <1>5, <1>6, <1>7 DEF Next, Alarm, Deadline, Settled

LEMMA NextProved ==
  TypeOK /\ ExactIsThere /\ PublishedIsProved /\ [Next]_vars => PublishedIsProved'
<1> SUFFICES ASSUME TypeOK, ExactIsThere, PublishedIsProved, [Next]_vars
             PROVE  PublishedIsProved'
  OBVIOUS
<1>1. RecordsStay /\ VersionsKept
  BY NextExact
<1>2. ASSUME \A j \in Intents : intent'[j].state = "published" =>
                                 intent[j].state = "published" \/ pds[Version(j)] = j
      PROVE  PublishedIsProved'
  BY <1>1, <1>2, RecordStays DEF PublishedIsProved, VersionsKept
<1>3. ASSUME NEW i \in Intents, NEW from \in States, NEW gen, NEW to \in Results \ {"published"},
             Transition(i, from, gen, to)
      PROVE  PublishedIsProved'
  BY <1>2, <1>3 DEF Transition, Moved, TypeOK
<1>4. ASSUME UNCHANGED intent
      PROVE  PublishedIsProved'
  BY <1>2, <1>4
<1>5. ASSUME NEW i \in Intents, Run(i)
      PROVE  PublishedIsProved'
  <2>0. {"verifying", "verified", "ready", "publishing", "reconciling"} \subseteq States
    BY DEF States, Waiting, Active
  <2>1. CASE MarkVerified(i) \/ MarkReady(i) \/ Look(i) \/ Publish(i) \/ Abandon(i)
    BY <1>3, <1>4, <2>0, <2>1
    DEF MarkVerified, MarkReady, Look, Publish, Abandon, Mark, Results, States, Waiting, Active,
        Releasing
  <2>2. CASE Refuse(i)
    <3>1. CASE wf[i].attempt = 0
      BY <1>3, <2>0, <2>2, <3>1 DEF Refuse, Mark, Results, States, Releasing
    <3>2. CASE wf[i].attempt # 0
      <4>1. Transition(i, "ready", intent[i].gen, Stored(i, "verify").as)
        BY <2>2, <3>2 DEF Refuse, Mark
      <4>2. "published" \notin Allowed["ready"]
        BY <2>0 DEF Allowed, Releasing, Waiting, Active
      <4> QED BY <1>2, <4>1, <4>2 DEF Transition, CanMove, Moved, TypeOK
    <3> QED BY <3>1, <3>2
  <2>3. CASE Settle(i)
    <3>1. wf[i].attempt \in Attempts
      BY DEF TypeOK, Workflow
    <3>2. SettledAs(i) = "published" => pds[Version(i)] = i
      BY <3>1 DEF SettledAs, Stored, ExactIsThere
    <3> QED BY <1>2, <2>3, <3>2 DEF Settle, Mark, Transition, Moved, TypeOK
  <2>4. CASE Close(i) \/ Proved(i) \/ Ambiguous(i)
    <3>1. ASSUME NEW outcome \in {"ambiguous", "blocked", "failed"}, Complete(i, outcome)
          PROVE  PublishedIsProved'
      <4>1. StateForOutcome(outcome) # "published"
        BY DEF StateForOutcome
      <4> QED BY <1>2, <3>1, <4>1 DEF Complete, Moved, TypeOK
    <3>2. CASE Complete(i, "published") /\ pds[Version(i)] = i
      BY <1>2, <3>2 DEF Complete, Moved, TypeOK
    <3> QED BY <2>4, <3>1, <3>2, CompletingRun
  <2> QED BY <1>4, <1>5, <2>1, <2>2, <2>3, <2>4, QuietRun DEF Run
<1>6. ASSUME NEW i \in Intents, Submit(i) \/ Start(i) \/ Cancel(i) \/ AlarmExpires(i)
      PROVE  PublishedIsProved'
  <2>1. CASE Submit(i)
    BY <1>2, <2>1 DEF Submit, TypeOK
  <2>2. CASE ~Submit(i)
    <3>1. \E from, gen, to : to # "published" /\ Transition(i, from, gen, to)
      BY <1>6, <2>2 DEF Start, Cancel, AlarmExpires
    <3> QED BY <1>2, <3>1 DEF Transition, Moved, TypeOK
  <2> QED BY <2>1, <2>2
<1>7. ASSUME NEW i \in Intents, DeadlinePasses(i)
      PROVE  PublishedIsProved'
  BY <1>2, <1>7 DEF DeadlinePasses, TypeOK, Row
<1>8. CASE AlarmRecovers
  BY <1>2, <1>8 DEF AlarmRecovers, Moved
<1>9. ASSUME NEW i \in Intents, \/ CreateInstance(i) \/ Crash(i) \/ Restart(i) \/ Settled(i)
                                \/ OperationRunsOut(i)
      PROVE  PublishedIsProved'
  BY <1>4, <1>9 DEF CreateInstance, Crash, Restart, Settled, Land, Drop, OperationRunsOut, tables
<1>10. CASE CoordLeaseRunsOut \/ (\E v \in Versions : PublisherWrites(v)) \/ UNCHANGED vars
  BY <1>4, <1>10 DEF CoordLeaseRunsOut, PublisherWrites, vars, tables
<1> QED BY <1>5, <1>6, <1>7, <1>8, <1>9, <1>10 DEF Next, Alarm, Deadline

\* An intent is reported published only with its own record on the PDS, which
\* stays there: whether the answer of the create request or a reconciliation
\* decided it, and however often the Workflow ran.
THEOREM PublishedProved == Spec => []PublishedIsProved
<1>1. Init => TypeOK /\ ExactIsThere /\ PublishedIsProved
  BY InitTyped DEF Init, ExactIsThere, PublishedIsProved, NoMemo, NotStored, NoRow, Steps
<1>2. TypeOK /\ ExactIsThere /\ PublishedIsProved /\ [Next]_vars
      => TypeOK' /\ ExactIsThere' /\ PublishedIsProved'
  BY NextTyped, NextExact, NextProved
<1> QED BY <1>1, <1>2, PTL DEF Spec
=============================================================================
