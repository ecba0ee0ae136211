------------------------ MODULE ReleaseOutcome_proofs ------------------------
(***************************************************************************)
(* Proofs about how an intent of ReleasePublication ends, for any number   *)
(* of intents, versions, attempts, crashes, restarts and records of the    *)
(* publisher, and a PDS that answers in time (~LateWrites): an intent that *)
(* was refused is not released, then or later, a conflict is with another  *)
(* record, and the publication implements ReleasePromise.                  *)
(*                                                                         *)
(* What a Workflow may do next depends on its stored results alone, so the *)
(* facts about its memo m, its place pc and its attempt a are operators    *)
(* with these as parameters: that a stored result keeps them is proved of  *)
(* values, without a step of the specification.                            *)
(***************************************************************************)
EXTENDS ReleasePublication_proofs

Got(m, n, s) == m[n][s].as
Has(m, n, s) == m[n][s] # NotStored

\* What precedes the attempts, or an attempt, has come to its end and lets
\* the next one begin.
Done(m, n) ==
  \/ n = 0 /\ Got(m, 0, "load") \in {"verifying", "ready"}
  \/ Got(m, n, "settle") = "ok"

Reached(m, n) == \A b \in 0..(n - 1) : Done(m, b)

\* The places before the attempts, those of an attempt whose operation began,
\* and all that are places of an attempt only.
Opening == {"policy", "markVerified", "markReady"}
Begun == {"materialize", "create", "renew", "permit", "creating", "send", "await", "ambiguous",
          "close", "latest"}
OnlyAttempt == Begun \cup {"verify", "look", "publish", "begin", "abandon", "release",
                           "finalRelease", "state"}

\* What has been stored when a Workflow is at a place of an attempt.
PathAt(m, pc, a) ==
  /\ pc \in {"load"} \cup Opening => a = 0
  /\ pc \in OnlyAttempt => a # 0
  /\ pc \in Opening => Got(m, 0, "load") = "verifying"
  /\ pc \in {"coordinate", "reconcile", "settle", "reconcileRelease"} /\ a = 0
       => Got(m, 0, "load") = "reconciling"
  /\ Reached(m, a)
  /\ pc \in Begun \/ (pc = "reconcile" /\ a # 0) => Got(m, a, "begin") = "ok"
  /\ pc = "abandon" => Has(m, a, "begin") /\ Got(m, a, "begin") # "ok"
  /\ pc \in {"settle", "state", "reconcileRelease"} => Has(m, a, "reconcile")
  /\ pc \in {"settle", "reconcileRelease"} /\ a # 0 => Has(m, a, "state")
  /\ pc = "reconcileRelease" /\ a = 0 => Got(m, 0, "settle") = "ok"

\* What has been stored before another result is.
Recorded(m) ==
  /\ Has(m, 0, "load") => Got(m, 0, "load") \in {"verifying", "ready", "reconciling"}
  /\ \A n \in Attempts, s \in Steps : Has(m, n, s) => Reached(m, n)
  /\ Has(m, 0, "reconcile") => Got(m, 0, "load") = "reconciling"
  /\ \A n \in Attempts \ {0} :
       Has(m, n, "reconcile") \/ Got(m, n, "create") = "reconciling" => Got(m, n, "begin") = "ok"
  /\ \A n \in Attempts :
       Has(m, n, "reconcile") => Got(m, n, "reconcile") \in {"absent", "exact", "conflict"}
  /\ \A n \in Attempts : Has(m, n, "state") => Has(m, n, "reconcile")
  /\ \A n \in Attempts :
       Got(m, n, "settle") = "ok" => Has(m, n, "reconcile") /\ (n # 0 => Has(m, n, "state"))
------------------------------------------------------------------------------
(* Stored results                                                          *)

Put(m, a, s, r) == [m EXCEPT ![a] = [m[a] EXCEPT ![s] = r]]

\* A result is stored once, but for that of the create step, which the code
\* inside the step decides.
Fresh(m, a, s) == s = "create" \/ ~Has(m, a, s)

LEMMA PutAt ==
  ASSUME NEW m \in Memo, NEW a \in Attempts, NEW s \in Steps, NEW r \in Result
  PROVE  /\ Put(m, a, s, r) \in Memo
         /\ \A n \in Attempts, t \in Steps :
              Put(m, a, s, r)[n][t] = IF n = a /\ t = s THEN r ELSE m[n][t]
<1>1. m[a] \in [Steps -> Result]
  BY DEF Memo
<1> DEFINE row == [m[a] EXCEPT ![s] = r]
<1>2. row \in [Steps -> Result] /\ \A t \in Steps : row[t] = IF t = s THEN r ELSE m[a][t]
  BY <1>1
<1> HIDE DEF row
<1>3. Put(m, a, s, r) = [m EXCEPT ![a] = row]
  BY DEF Put, row
<1> QED BY <1>2, <1>3 DEF Memo

LEMMA PutReached ==
  ASSUME NEW m \in Memo, NEW a \in Attempts, NEW s \in Steps, NEW r \in Result, Fresh(m, a, s),
         NEW n \in Attempts
  PROVE  Reached(m, n) => Reached(Put(m, a, s, r), n)
<1> DEFINE p == Put(m, a, s, r)
<1>1. \A b \in 0..(n - 1) : b \in Attempts
  BY PublicationAssumption DEF Attempts
<1>2. \A b \in Attempts, t \in Steps : p[b][t] = IF b = a /\ t = s THEN r ELSE m[b][t]
  BY PutAt
<1> HIDE DEF p
<1>3. ASSUME NEW b \in Attempts, Done(m, b)
      PROVE  Done(p, b)
  <2>1. "load" \in Steps /\ "settle" \in Steps
    BY DEF Steps
  <2>2. \A t \in {"load", "settle"} : Got(m, b, t) # "none" => p[b][t] = m[b][t]
    BY <1>2, <2>1 DEF Got, Fresh, Has, NotStored
  <2> QED BY <1>3, <2>2 DEF Done, Got
<1> QED BY <1>1, <1>3 DEF Reached, p

\* Storing the result of the step that the Workflow is at keeps what is known
\* of the stored results and of the place.
LEMMA PutRecorded ==
  ASSUME NEW m \in Memo, NEW a \in Attempts, NEW s \in Steps, NEW r \in Result,
         Recorded(m), PathAt(m, s, a), Fresh(m, a, s),
         s = "load" => r.as \in {"verifying", "ready", "reconciling"},
         s = "reconcile" => r.as \in {"absent", "exact", "conflict"}
  PROVE  Recorded(Put(m, a, s, r))
<1> DEFINE p == Put(m, a, s, r)
<1>1. \A n \in Attempts, t \in Steps : p[n][t] = IF n = a /\ t = s THEN r ELSE m[n][t]
  BY PutAt
<1>2. \A n \in Attempts : Reached(m, n) => Reached(p, n)
  BY PutReached
<1>3. {"load", "begin", "create", "reconcile", "state", "settle"} \subseteq Steps
  BY DEF Steps
<1> HIDE DEF p
<1>4. Reached(m, a)
  BY DEF PathAt
<1>5. \A n \in Attempts, t \in Steps : Has(p, n, t) => Reached(p, n)
  BY <1>1, <1>2, <1>4 DEF Recorded, Has
<1>6. Has(p, 0, "reconcile") => Got(p, 0, "load") = "reconciling"
  BY <1>1, <1>3, AttemptsType DEF Recorded, PathAt, Has, Got, Fresh, NotStored
<1>7. \A n \in Attempts \ {0} :
        Has(p, n, "reconcile") \/ Got(p, n, "create") = "reconciling" => Got(p, n, "begin") = "ok"
  BY <1>1, <1>3 DEF Recorded, PathAt, Has, Got, Fresh, NotStored, Begun
<1>8. \A n \in Attempts :
        Has(p, n, "reconcile") => Got(p, n, "reconcile") \in {"absent", "exact", "conflict"}
  BY <1>1, <1>3 DEF Recorded, Has, Got
<1>9. \A n \in Attempts : Has(p, n, "state") => Has(p, n, "reconcile")
  BY <1>1, <1>3 DEF Recorded, PathAt, Has, Fresh
<1>10. \A n \in Attempts :
         Got(p, n, "settle") = "ok" => Has(p, n, "reconcile") /\ (n # 0 => Has(p, n, "state"))
  BY <1>1, <1>3 DEF Recorded, PathAt, Has, Got, Fresh
<1>11. Has(p, 0, "load") => Got(p, 0, "load") \in {"verifying", "ready", "reconciling"}
  BY <1>1, <1>3, AttemptsType DEF Recorded, Has, Got
<1> QED BY <1>5, <1>6, <1>7, <1>8, <1>9, <1>10, <1>11 DEF Recorded, p

LEMMA PutPath ==
  ASSUME NEW m \in Memo, NEW a \in Attempts, NEW s \in Steps, NEW r \in Result, NEW pc,
         PathAt(m, pc, a), Fresh(m, a, s), s = "begin" => pc # "abandon"
  PROVE  PathAt(Put(m, a, s, r), pc, a)
<1> DEFINE p == Put(m, a, s, r)
<1>1. \A n \in Attempts, t \in Steps : p[n][t] = IF n = a /\ t = s THEN r ELSE m[n][t]
  BY PutAt
<1>2. \A n \in Attempts : Reached(m, n) => Reached(p, n)
  BY PutReached
<1>3. {"load", "begin", "create", "reconcile", "state", "settle"} \subseteq Steps
  BY DEF Steps
<1> HIDE DEF p
<1> QED BY <1>1, <1>2, <1>3, AttemptsType DEF PathAt, Has, Got, Fresh, NotStored, Begun, p

LEMMA NextReached ==
  ASSUME NEW m \in Memo, NEW a \in Attempts, Reached(m, a), Done(m, a)
  PROVE  Reached(m, a + 1)
<1>1. 0..((a + 1) - 1) = 0..(a - 1) \cup {a}
  BY AttemptsType
<1> QED BY <1>1 DEF Reached

\* The step's result stored, the Workflow goes to a place where what is known
\* of that place has been stored.
LEMMA AfterPath ==
  ASSUME NEW m \in Memo, NEW a \in Attempts, NEW s \in Steps,
         Recorded(m), PathAt(m, s, a), Has(m, a, s)
  PROVE  PathAt(m, After(m, a, s)[1], After(m, a, s)[2])
<1> DEFINE next == After(m, a, s)
<1> SUFFICES PathAt(m, next[1], next[2])
  OBVIOUS
<1>0. a \in Nat /\ Reached(m, a) /\ \A n \in Nat : (n = 0) = ~(n # 0)
  BY AttemptsType DEF PathAt
<1>1. ASSUME next[1] \in {"ended", "verify", "look", "finalRelease", "refuse", "begin", "release"},
             next[2] = a, next[1] \notin {"ended", "refuse"} => a # 0
      PROVE  PathAt(m, next[1], next[2])
  BY <1>0, <1>1 DEF PathAt, Opening, OnlyAttempt, Begun
<1>2. ASSUME next = <<"coordinate", a + 1>>, Done(m, a)
      PROVE  PathAt(m, next[1], next[2])
  <2>1. Reached(m, a + 1) /\ a + 1 # 0
    BY <1>0, <1>2, NextReached
  <2> HIDE DEF next
  <2> QED BY <1>2, <2>1 DEF PathAt, Opening, OnlyAttempt, Begun
<1>3. CASE s = "load"
  <2>0. a = 0
    BY <1>3 DEF PathAt
  <2>1. CASE Got(m, 0, "load") = "verifying"
    BY <1>3, <2>0, <2>1, <1>0 DEF After, PathAt, Opening, OnlyAttempt, Begun, Got
  <2>2. CASE Got(m, 0, "load") = "ready"
    <3>1. next = <<"coordinate", a + 1>>
      BY <1>3, <2>0, <2>2 DEF After, Got
    <3> QED BY <1>2, <2>0, <2>2, <3>1 DEF Done
  <2>3. CASE Got(m, 0, "load") = "reconciling"
    BY <1>3, <2>0, <2>3, <1>0 DEF After, PathAt, Opening, OnlyAttempt, Begun, Got
  <2> QED BY <1>3, <2>0, <2>1, <2>2, <2>3 DEF Recorded
<1>4. CASE s \in {"policy", "markVerified", "markReady"}
  <2>0. a = 0 /\ Got(m, 0, "load") = "verifying"
    BY <1>4 DEF PathAt, Opening
  <2>1. CASE next = <<"coordinate", a + 1>>
    BY <1>2, <2>0, <2>1 DEF Done
  <2>2. CASE next[1] \in Opening \cup {"ended", "refuse"} /\ next[2] = a
    <3> HIDE DEF next
    <3> QED BY <2>0, <2>2, <1>0 DEF PathAt, Opening, OnlyAttempt, Begun
  <2>3. CASE s = "policy"
    BY <2>2, <2>3 DEF After, Opening
  <2>4. CASE s = "markVerified"
    BY <2>2, <2>4 DEF After, Opening
  <2>5. CASE s = "markReady"
    BY <2>0, <2>1, <2>2, <2>5 DEF After
  <2> QED BY <1>4, <2>3, <2>4, <2>5
<1>5. CASE s = "coordinate"
  <2>1. CASE next = <<"reconcile", a>> /\ a = 0
    <3> HIDE DEF next
    <3> QED BY <1>5, <2>1 DEF PathAt, Opening, OnlyAttempt, Begun
  <2>2. CASE next = <<"ended", a>> \/ (a # 0 /\ next = <<"verify", a>>)
    BY <1>1, <2>2
  <2> QED BY <1>5, <2>1, <2>2 DEF After
<1>6. CASE s \in {"verify", "finalRelease", "refuse", "release"}
  <2>1. s = "verify" => a # 0
    BY DEF PathAt, OnlyAttempt
  <2> QED BY <1>1, <1>6, <2>1 DEF After
<1>7. CASE s \in {"begin", "materialize", "create"}
  <2>0. a # 0 /\ (s # "begin" => Got(m, a, "begin") = "ok")
    BY <1>7 DEF PathAt, OnlyAttempt, Begun
  <2>1. /\ next[2] = a
        /\ next[1] \in {"materialize", "abandon", "create", "close", "reconcile", "release"}
        /\ next[1] = "abandon" => Has(m, a, "begin") /\ Got(m, a, "begin") # "ok"
        /\ next[1] # "release" /\ next[1] # "abandon" => Got(m, a, "begin") = "ok"
    BY <1>7, <2>0, AttemptsType DEF After, Recorded, Got
  <2> HIDE DEF next
  <2> QED BY <1>0, <2>0, <2>1 DEF PathAt, Opening, OnlyAttempt, Begun
<1>8. CASE s \in {"reconcile", "state"}
  <2>1. /\ next[2] = a
        /\ next[1] \in {"settle", "state", "reconcileRelease"}
        /\ Has(m, a, "reconcile")
        /\ next[1] = "state" <=> s = "reconcile" /\ a # 0
        /\ next[1] = "reconcileRelease" => a # 0 /\ Has(m, a, "state")
        /\ next[1] = "settle" => a = 0 /\ Got(m, 0, "load") = "reconciling"
    BY <1>8, AttemptsType DEF After, PathAt, OnlyAttempt
  <2> HIDE DEF next
  <2> QED BY <1>0, <2>1 DEF PathAt, Opening, OnlyAttempt, Begun
<1>9. CASE s = "reconcileRelease"
  <2>1. CASE next = <<"coordinate", a + 1>> /\ a = 0
    BY <1>2, <1>9, <2>1 DEF PathAt, Done
  <2>2. CASE next = <<"ended", a>>
    BY <1>1, <2>2
  <2>3. CASE next = <<"settle", a>> /\ a # 0
    <3> HIDE DEF next
    <3> QED BY <1>9, <2>3 DEF PathAt, Opening, OnlyAttempt, Begun
  <2> QED BY <1>9, <2>1, <2>2, <2>3, AttemptsType DEF After
<1>10. CASE s = "settle"
  <2>1. CASE next = <<"coordinate", a + 1>> /\ Got(m, a, "settle") = "ok"
    BY <1>2, <2>1 DEF Done
  <2>2. CASE next = <<"ended", a>>
    BY <1>1, <2>2
  <2>3. CASE next = <<"reconcileRelease", a>> /\ a = 0 /\ Got(m, a, "settle") = "ok"
    <3> HIDE DEF next
    <3> QED BY <1>10, <2>3 DEF PathAt, Opening, OnlyAttempt, Begun
  <2> QED BY <1>10, <2>1, <2>2, <2>3, AttemptsType DEF After, NextAttempt, Got
<1> QED BY <1>3, <1>4, <1>5, <1>6, <1>7, <1>8, <1>9, <1>10 DEF Steps
------------------------------------------------------------------------------
(* What is known of one intent: of its row, its operation o, its Workflow  *)
(* w with the memo m, the record v of its version, and whether a create    *)
(* request of it is in flight, f                                           *)

\* The record is there, or a request that can still write it.
Hot(i, pc, v, f) == v = i \/ i \in f \/ pc = "send"

\* A reconciliation was begun and the state that settles it was not read.
Waits(m, n) ==
  IF n = 0 THEN Got(m, 0, "load") = "reconciling" /\ ~Has(m, 0, "reconcile")
  ELSE /\ Has(m, n, "reconcile") \/ Got(m, n, "create") = "reconciling"
       /\ ~Has(m, n, "state")

\* Until it is settled the intent is reconciling, and the attempt whose
\* request made it so had begun.
Unsettled(row, m, w) ==
  /\ \A n \in Attempts : Waits(m, n) => row.state = "reconciling"
  /\ w.pc = "reconcile" /\ ~Has(m, w.attempt, "reconcile") => row.state = "reconciling"
  /\ row.state = "reconciling" =>
       \A n \in Attempts \ {0} : Reached(m, n) => Got(m, n, "begin") = "ok"

\* The generation that a reconciliation is settled at.
SettleGen(m, n) == m[n][IF n = 0 THEN "load" ELSE "state"].gen

\* A record that was found absent stays absent while the reconciliation that
\* found it so can be settled.
AbsentStays(row, m, hot) ==
  /\ \A n \in Attempts : SettleGen(m, n) <= row.gen
  /\ \A n \in Attempts \ {0} : Waits(m, n) /\ Got(m, n, "reconcile") = "absent" => ~hot
  /\ \A n \in Attempts :
       /\ Got(m, n, "reconcile") = "absent"
       /\ n # 0 => Has(m, n, "state")
       /\ row.state = "reconciling"
       /\ SettleGen(m, n) = row.gen
       => ~hot

\* A record that was found in the way is there.
InTheWay(i, m, v) ==
  /\ \A n \in Attempts : Got(m, n, "reconcile") = "conflict" => v \notin {i, None}
  /\ \A n \in Attempts : Got(m, n, "verify") = "conflict" => v # None

\* An active operation is that of an attempt of this run that is not over.
Owned(row, o, w, m) ==
  o.status = "active" =>
    LET n == o.key[2] IN
    /\ row.state = "publishing" /\ row.gen = o.gen
    /\ o.key[1] = w.run /\ n # 0 /\ Reached(m, n)
    /\ o.phase # "uploading" => Got(m, n, "begin") = "ok"
    /\ Has(m, n, "begin") => Got(m, n, "begin") = "ok"
    /\ ~Has(m, n, "reconcile")
    /\ w.pc = "begin" => w.gen = row.gen

\* The places of the create step from the phase that precedes the request.
Sending == {"send", "await", "ambiguous"}

\* The attempt that sends a request has its operation, or is reconciled.
Sent(row, o, w, m) ==
  w.pc \in Sending =>
    \/ row.state = "reconciling"
    \/ /\ o.status = "active" /\ o.phase = "creating"
       /\ o.key = <<w.run, w.attempt>> /\ o.gen = m[w.attempt]["begin"].gen

Decided(i, row, o, v, hot) ==
  /\ row.state \in {"none"} \cup Waiting \cup (Releasing \ {"conflict"}) => ~hot
  /\ row.state = "publishing" /\ hot => o.status = "active" /\ o.phase = "creating"
  /\ row.state = "conflict" => v \notin {i, None}

Sound(i, row, o, w, m, v, f) ==
  /\ PathAt(m, w.pc, w.attempt) /\ Recorded(m)
  /\ Unsettled(row, m, w)
  /\ AbsentStays(row, m, Hot(i, w.pc, v, f))
  /\ InTheWay(i, m, v)
  /\ Owned(row, o, w, m) /\ Sent(row, o, w, m)
  /\ Decided(i, row, o, v, Hot(i, w.pc, v, f))

Rows == Row \cup {NoRow}

\* The Workflow goes elsewhere.
LEMMA Moves ==
  ASSUME NEW i \in Intents, NEW row \in Rows, NEW o \in Operation, NEW w \in Workflow,
         NEW m \in Memo, NEW v, NEW f, Sound(i, row, o, w, m, v, f),
         NEW w2 \in Workflow, o.status = "active" => w2.run = w.run,
         PathAt(m, w2.pc, w2.attempt), w2.pc \notin Sending,
         w2.pc = "begin" => w2.gen = row.gen,
         w2.pc = "reconcile" /\ ~Has(m, w2.attempt, "reconcile") => row.state = "reconciling"
  PROVE  Sound(i, row, o, w2, m, v, f)
<1>1. Hot(i, w2.pc, v, f) => Hot(i, w.pc, v, f)
  BY DEF Hot, Sending
<1>2. Unsettled(row, m, w2)
  BY DEF Sound, Unsettled
<1>3. AbsentStays(row, m, Hot(i, w2.pc, v, f))
  BY <1>1 DEF Sound, AbsentStays
<1>4. Owned(row, o, w2, m)
  BY DEF Sound, Owned
<1>5. Sent(row, o, w2, m)
  BY DEF Sent
<1>6. Decided(i, row, o, v, Hot(i, w2.pc, v, f))
  BY <1>1 DEF Sound, Decided
<1> QED BY <1>2, <1>3, <1>4, <1>5, <1>6 DEF Sound

\* Where a step leads.
LEMMA Leads ==
  ASSUME NEW m \in Memo, NEW a \in Attempts, NEW s \in Steps
  PROVE  /\ After(m, a, s)[1] \notin Sending \cup {"begin"}
         /\ After(m, a, s)[1] = "reconcile" =>
              /\ After(m, a, s)[2] = a
              /\ \/ a = 0 /\ s = "coordinate"
                 \/ s = "create" /\ Got(m, a, "create") = "reconciling"
<1>1. CASE s \in {"load", "policy", "markVerified", "markReady"}
  BY <1>1 DEF After, Sending
<1>2. CASE s = "coordinate"
  BY <1>2 DEF After, Sending
<1>5. CASE s \in {"verify", "finalRelease", "refuse", "release"}
  BY <1>5 DEF After, Sending
<1>3. CASE s \in {"begin", "materialize", "create", "reconcile", "state"}
  BY <1>3 DEF After, Sending, Got
<1>4. CASE s \in {"reconcileRelease", "settle"}
  BY <1>4 DEF After, Sending
<1> QED BY <1>1, <1>2, <1>3, <1>4, <1>5 DEF Steps

\* The Workflow goes where its step leads.
LEMMA Proceeds ==
  ASSUME NEW i \in Intents, NEW row \in Rows, NEW o \in Operation, NEW w \in Workflow,
         NEW m \in Memo, NEW v, NEW f, Sound(i, row, o, w, m, v, f),
         NEW s \in Steps, Has(m, w.attempt, s), PathAt(m, s, w.attempt),
         NEW w2 \in Workflow, w2.run = w.run, w2.pc = After(m, w.attempt, s)[1],
         w2.attempt = After(m, w.attempt, s)[2]
  PROVE  Sound(i, row, o, w2, m, v, f)
<1> DEFINE a == w.attempt
<1>0. a \in Attempts
  BY DEF Workflow
<1>1. PathAt(m, w2.pc, w2.attempt)
  BY <1>0, AfterPath DEF Sound
<1>2. w2.pc \notin Sending \cup {"begin"}
  BY <1>0, Leads
<1>3. ASSUME w2.pc = "reconcile", ~Has(m, w2.attempt, "reconcile")
      PROVE  row.state = "reconciling"
  <2>0. After(m, a, s)[1] = "reconcile"
    BY <1>3
  <2>1. /\ w2.attempt = a
        /\ (a = 0 /\ s = "coordinate") \/ (s = "create" /\ Got(m, a, "create") = "reconciling")
    BY <1>0, <2>0, Leads
  <2>2. CASE a = 0 /\ s = "coordinate"
    <3>1. Waits(m, 0)
      BY <1>3, <2>1, <2>2 DEF PathAt, Waits
    <3> QED BY <3>1, AttemptsType DEF Sound, Unsettled
  <2>3. CASE s = "create" /\ Got(m, a, "create") = "reconciling"
    <3>1. a # 0
      BY <2>3 DEF PathAt, OnlyAttempt, Begun
    <3>2. ~Has(m, a, "state")
      BY <1>0, <1>3, <2>1 DEF Sound, Recorded
    <3>3. Waits(m, a)
      BY <2>3, <3>1, <3>2 DEF Waits
    <3> QED BY <1>0, <3>3 DEF Sound, Unsettled
  <2> QED BY <2>1, <2>2, <2>3
<1> QED BY <1>1, <1>2, <1>3, Moves

\* A Workflow that starts again, from the top.
LEMMA Tops ==
  ASSUME NEW i \in Intents, NEW row \in Rows, NEW o \in Operation, NEW w \in Workflow,
         NEW m \in Memo, NEW v, NEW f, Sound(i, row, o, w, m, v, f),
         NEW w2 \in Workflow, o.status = "active" => w2.run = w.run, w2.pc = "load", w2.attempt = 0
  PROVE  Sound(i, row, o, w2, m, v, f)
<1>1. Reached(m, 0)
  BY DEF Reached
<1>2. PathAt(m, "load", 0)
  BY <1>1 DEF PathAt, Opening, OnlyAttempt, Begun
<1> QED BY <1>2, Moves DEF Sending

\* What a result agrees with when it is stored.
Agrees(i, row, o, w, v, f, s, r) ==
  /\ s = "load" => r.as \in {"verifying", "ready", "reconciling"} /\ r.as = row.state
  /\ s \in {"load", "state"} => r.gen = row.gen
  /\ s = "begin" => r.as = "ok" \/ o.status # "active" \/ o.key # <<w.run, w.attempt>>
  /\ s = "reconcile" =>
       /\ r.as \in {"absent", "exact", "conflict"}
       /\ r.as = "absent" => ~Hot(i, w.pc, v, f)
       /\ r.as = "conflict" => v \notin {i, None}
       /\ row.state = "reconciling"
  /\ s = "create" /\ r.as = "reconciling" => row.state = "reconciling"
  /\ s = "verify" /\ r.as = "conflict" => v # None
  /\ s = "settle" /\ r.as = "ok" => row.state # "reconciling"

\* Storing the result of the step that the Workflow is at.
LEMMA Stores ==
  ASSUME NEW i \in Intents, NEW row \in Rows, NEW o \in Operation, NEW w \in Workflow,
         NEW m \in Memo, NEW v, NEW f, Sound(i, row, o, w, m, v, f),
         NEW s \in Steps, NEW r \in Result, PathAt(m, s, w.attempt), Fresh(m, w.attempt, s),
         Agrees(i, row, o, w, v, f, s, r), s = "begin" => w.pc # "abandon"
  PROVE  Sound(i, row, o, w, Put(m, w.attempt, s, r), v, f)
<1> DEFINE a == w.attempt
           p == Put(m, a, s, r)
           hot == Hot(i, w.pc, v, f)
<1>0. a \in Attempts /\ PathAt(m, w.pc, a) /\ Recorded(m) /\ row.gen \in Nat
  BY DEF Workflow, Sound, Rows, Row, NoRow
<1>1. p \in Memo /\ \A n \in Attempts, t \in Steps : p[n][t] = IF n = a /\ t = s THEN r ELSE m[n][t]
  BY <1>0, PutAt
<1>2. \A n \in Attempts : Reached(m, n) => Reached(p, n)
  BY <1>0, PutReached
<1>3. {"load", "begin", "create", "reconcile", "state", "settle", "verify"} \subseteq Steps
  BY DEF Steps
<1>4. Recorded(p)
  BY <1>0, PutRecorded DEF Agrees
<1>5. PathAt(p, w.pc, a)
  BY <1>0, PutPath
<1>00. s = "reconcile" /\ r.as = "absent" => ~hot
  BY DEF Agrees
<1> HIDE DEF p, hot
<1>6. \A n \in Attempts : Waits(p, n) => Waits(m, n) \/ row.state = "reconciling"
  BY <1>1, <1>3, AttemptsType DEF Waits, Has, Got, Agrees, Fresh
<1>7. ASSUME row.state = "reconciling", NEW n \in Attempts \ {0}, Reached(p, n)
      PROVE  Got(p, n, "begin") = "ok"
  <2>1. ASSUME NEW b \in Attempts, Done(p, b)
        PROVE  Done(m, b)
    BY <1>1, <1>3, <1>7, <2>1, AttemptsType DEF Done, Got, Agrees
  <2>2. \A b \in 0..(n - 1) : b \in Attempts
    BY PublicationAssumption DEF Attempts
  <2>3. Reached(m, n)
    BY <1>7, <2>1, <2>2 DEF Reached
  <2>4. Got(m, n, "begin") = "ok"
    BY <1>7, <2>3 DEF Sound, Unsettled
  <2> QED BY <1>1, <1>3, <2>4 DEF Fresh, Has, Got, NotStored
<1>8. Unsettled(row, p, w)
  <2>1. w.pc = "reconcile" /\ ~Has(p, a, "reconcile") => row.state = "reconciling"
    BY <1>0, <1>1, <1>3 DEF Sound, Unsettled, Has, Fresh
  <2> QED BY <1>6, <1>7, <2>1 DEF Sound, Unsettled
<1>9. AbsentStays(row, p, hot)
  <2>1. \A n \in Attempts : SettleGen(p, n) <= row.gen
    BY <1>0, <1>1, <1>3 DEF Sound, AbsentStays, SettleGen, Agrees
  <2>2. ASSUME NEW n \in Attempts, Got(p, n, "reconcile") = "absent"
        PROVE  \/ s = "reconcile" /\ n = a /\ ~hot
               \/ Got(m, n, "reconcile") = "absent" /\ Has(m, n, "reconcile")
    <3>1. CASE s = "reconcile" /\ n = a
      <4>1. r.as = "absent"
        BY <1>1, <1>3, <2>2, <3>1 DEF Got
      <4> QED BY <3>1, <4>1, <1>00
    <3>2. CASE ~(s = "reconcile" /\ n = a)
      BY <1>1, <1>3, <2>2, <3>2 DEF Got, Has, NotStored
    <3> QED BY <3>1, <3>2
  <2>3. ASSUME NEW n \in Attempts \ {0}, Waits(p, n), Got(p, n, "reconcile") = "absent"
        PROVE  ~hot
    <3>1. CASE Got(m, n, "reconcile") = "absent" /\ Has(m, n, "reconcile")
      <4>1. Waits(m, n)
        BY <1>1, <1>3, <2>3, <3>1 DEF Waits, Has, Fresh
      <4> QED BY <3>1, <4>1 DEF Sound, AbsentStays, hot
    <3> QED BY <2>2, <2>3, <3>1
  <2>4. ASSUME NEW n \in Attempts, Got(p, n, "reconcile") = "absent",
               n # 0 => Has(p, n, "state"), row.state = "reconciling",
               SettleGen(p, n) = row.gen
        PROVE  ~hot
    <3>1. CASE Got(m, n, "reconcile") = "absent" /\ Has(m, n, "reconcile")
      <4>1. CASE n = a /\ s = "load"
        BY <1>0, <3>1, <4>1 DEF PathAt, Recorded, Fresh, Has, Got, NotStored
      <4>2. CASE n = a /\ s = "state"
        <5>1. n # 0 /\ ~Has(m, n, "state")
          BY <4>2 DEF PathAt, OnlyAttempt, Fresh
        <5> QED BY <3>1, <5>1 DEF Sound, AbsentStays, Waits, hot
      <4>3. CASE ~(n = a /\ s \in {"load", "state"})
        <5>1. SettleGen(m, n) = row.gen /\ (n # 0 => Has(m, n, "state"))
          BY <1>1, <1>3, <2>4, <4>3 DEF SettleGen, Has
        <5> QED BY <2>4, <3>1, <5>1 DEF Sound, AbsentStays, hot
      <4> QED BY <4>1, <4>2, <4>3
    <3> QED BY <2>2, <2>4, <3>1
  <2> QED BY <2>1, <2>3, <2>4 DEF AbsentStays
<1>10. InTheWay(i, p, v)
  BY <1>1, <1>3 DEF Sound, InTheWay, Got, Agrees
<1>11. Owned(row, o, w, p)
  <2>1. SUFFICES ASSUME o.status = "active"
                 PROVE  Owned(row, o, w, p)
    BY DEF Owned
  <2> DEFINE n == o.key[2]
  <2>2. /\ n \in Attempts /\ o.key = <<o.key[1], n>> /\ n # 0 /\ Reached(m, n)
        /\ row.state = "publishing" /\ row.gen = o.gen /\ o.key[1] = w.run
        /\ o.phase # "uploading" => Got(m, n, "begin") = "ok"
        /\ Has(m, n, "begin") => Got(m, n, "begin") = "ok"
        /\ ~Has(m, n, "reconcile")
        /\ w.pc = "begin" => w.gen = row.gen
    BY <2>1 DEF Sound, Owned, Operation, Keys
  <2>3. s # "reconcile"
    BY <2>2 DEF Agrees
  <2>4. s = "begin" /\ n = a => r.as = "ok"
    BY <2>1, <2>2 DEF Agrees
  <2> HIDE DEF n
  <2>5. ~Has(p, n, "reconcile") /\ Reached(p, n)
    BY <1>1, <1>2, <1>3, <2>2, <2>3 DEF Has
  <2>6. /\ o.phase # "uploading" => Got(p, n, "begin") = "ok"
        /\ Has(p, n, "begin") => Got(p, n, "begin") = "ok"
    BY <1>1, <1>3, <2>2, <2>4 DEF Has, Got, Fresh, NotStored
  <2> QED BY <2>2, <2>5, <2>6 DEF Owned, n
<1>12. Sent(row, o, w, p)
  <2>1. SUFFICES ASSUME w.pc \in Sending, row.state # "reconciling"
                 PROVE  /\ o.status = "active" /\ o.phase = "creating"
                        /\ o.key = <<w.run, a>> /\ o.gen = p[a]["begin"].gen
    BY DEF Sent
  <2>2. /\ o.status = "active" /\ o.phase = "creating"
        /\ o.key = <<w.run, a>> /\ o.gen = m[a]["begin"].gen
    BY <2>1 DEF Sound, Sent
  <2>3. Got(m, a, "begin") = "ok"
    BY <1>0, <2>1 DEF PathAt, Sending, Begun
  <2> QED BY <1>0, <1>1, <1>3, <2>2, <2>3 DEF Fresh, Has, Got, NotStored
<1> QED BY <1>4, <1>5, <1>8, <1>9, <1>10, <1>11, <1>12 DEF Sound, p, hot

\* A transition from a state other than reconciling.  Only what may have been
\* sent becomes reconciling.
LEMMA Transits ==
  ASSUME NEW i \in Intents, NEW row \in Rows, NEW o \in Operation, NEW w \in Workflow,
         NEW m \in Memo, NEW v, NEW f, Sound(i, row, o, w, m, v, f),
         NEW row2 \in Rows, NEW o2 \in Operation, row2.gen > row.gen, o2.status # "active",
         row.state # "reconciling",
         row2.state = "reconciling" => o.status = "active" /\ o.phase = "creating",
         w.pc \in Sending => row2.state = "reconciling",
         Decided(i, row2, o2, v, Hot(i, w.pc, v, f))
  PROVE  Sound(i, row2, o2, w, m, v, f)
<1>0. row.gen \in Nat /\ row2.gen \in Nat
  BY DEF Rows, Row, NoRow
<1>1. \A n \in Attempts : ~Waits(m, n)
  BY DEF Sound, Unsettled
<1>2. ASSUME row2.state = "reconciling", NEW n \in Attempts \ {0}, Reached(m, n)
      PROVE  Got(m, n, "begin") = "ok"
  <2> DEFINE k == o.key[2]
  <2>1. /\ k \in Attempts /\ k # 0 /\ Reached(m, k) /\ Got(m, k, "begin") = "ok"
        /\ ~Has(m, k, "reconcile")
    BY <1>2 DEF Sound, Owned, Operation, Keys
  <2>2. n \in Nat /\ k \in Nat
    BY <2>1, AttemptsType
  <2> HIDE DEF k
  <2>3. CASE n < k
    <3>1. Done(m, n) /\ n # 0
      BY <2>1, <2>2, <2>3 DEF Reached
    <3>2. Has(m, n, "reconcile")
      BY <3>1 DEF Sound, Recorded, Done
    <3> QED BY <3>2 DEF Sound, Recorded
  <2>4. CASE n > k
    <3>1. Done(m, k)
      BY <1>2, <2>2, <2>4 DEF Reached
    <3> QED BY <2>1, <3>1 DEF Sound, Recorded, Done
  <2> QED BY <2>1, <2>2, <2>3, <2>4
<1>3. Unsettled(row2, m, w)
  BY <1>1, <1>2 DEF Sound, Unsettled
<1>4. AbsentStays(row2, m, Hot(i, w.pc, v, f))
  <2>1. \A n \in Attempts : SettleGen(m, n) \in Nat
    BY DEF SettleGen, Memo, Result, Steps
  <2>2. \A n \in Attempts : SettleGen(m, n) <= row.gen
    BY DEF Sound, AbsentStays
  <2>3. \A n \in Attempts : SettleGen(m, n) <= row2.gen /\ SettleGen(m, n) # row2.gen
    BY <1>0, <2>1, <2>2
  <2> QED BY <1>1, <2>3 DEF AbsentStays
<1> QED BY <1>3, <1>4 DEF Sound, Owned, Sent

\* A reconciliation is settled.
LEMMA Settles ==
  ASSUME NEW i \in Intents, NEW row \in Rows, NEW o \in Operation, NEW w \in Workflow,
         NEW m \in Memo, NEW v, NEW f, Sound(i, row, o, w, m, v, f),
         w.pc = "settle", ~Has(m, w.attempt, "settle"), row.state = "reconciling",
         NEW row2 \in Rows, row2.gen > row.gen, row2.state # "reconciling",
         Decided(i, row2, o, v, Hot(i, w.pc, v, f))
  PROVE  Sound(i, row2, o, w, m, v, f)
<1> DEFINE a == w.attempt
<1>0. a \in Attempts /\ a \in Nat /\ row.gen \in Nat /\ row2.gen \in Nat
  <2>1. row.gen \in Nat /\ row2.gen \in Nat
    BY DEF Rows, Row, NoRow
  <2>2. a \in Attempts
    BY DEF Workflow
  <2> QED BY <2>1, <2>2, AttemptsType
<1>1. ASSUME NEW n \in Attempts, Waits(m, n)
      PROVE  FALSE
  <2>0. n \in Nat
    BY AttemptsType
  <2>1. PathAt(m, "settle", a) /\ Recorded(m)
    BY DEF Sound
  <2>2. CASE n = a
    BY <1>1, <2>1, <2>2 DEF PathAt, Waits
  <2>3. CASE n < a
    <3>1. Done(m, n)
      BY <1>0, <2>0, <2>1, <2>3 DEF PathAt, Reached
    <3> QED BY <1>1, <3>1, <2>1 DEF Waits, Done, Recorded
  <2>4. CASE a < n
    <3>1. Has(m, n, "reconcile") \/ Has(m, n, "create")
      BY <1>0, <1>1, <2>0, <2>4 DEF Waits, Has, Got, NotStored
    <3>2. Reached(m, n)
      BY <2>1, <3>1 DEF Recorded, Steps
    <3>3. Done(m, a)
      BY <1>0, <2>0, <2>4, <3>2 DEF Reached
    <3> QED BY <2>1, <3>3 DEF Done, PathAt, Has, Got, NotStored
  <2> QED BY <1>0, <2>0, <2>2, <2>3, <2>4
<1>2. Unsettled(row2, m, w)
  BY <1>1 DEF Unsettled
<1>3. AbsentStays(row2, m, Hot(i, w.pc, v, f))
  <2>1. \A n \in Attempts : SettleGen(m, n) \in Nat
    BY DEF SettleGen, Memo, Result, Steps
  <2>2. \A n \in Attempts : SettleGen(m, n) <= row.gen
    BY DEF Sound, AbsentStays
  <2>3. \A n \in Attempts : SettleGen(m, n) <= row2.gen
    BY <1>0, <2>1, <2>2
  <2> QED BY <1>1, <2>3 DEF AbsentStays
<1> QED BY <1>2, <1>3 DEF Sound, Owned, Sent, Sending

\* The operation of the attempt is begun.
LEMMA Begins ==
  ASSUME NEW i \in Intents, NEW row \in Rows, NEW o \in Operation, NEW w \in Workflow,
         NEW m \in Memo, NEW v, NEW f, Sound(i, row, o, w, m, v, f),
         w.pc = "begin", ~Has(m, w.attempt, "begin"), w.gen = row.gen,
         row.state = "publishing", o.status # "active",
         NEW o2 \in Operation, o2.key = <<w.run, w.attempt>>, o2.gen = row.gen,
         o2.phase = "uploading"
  PROVE  Sound(i, row, o2, w, m, v, f)
<1>1. ~Hot(i, w.pc, v, f)
  BY DEF Sound, Decided
<1>2. w.attempt \in Attempts /\ w.attempt # 0 /\ Reached(m, w.attempt)
  BY DEF Sound, PathAt, OnlyAttempt, Workflow
<1>3. ~Has(m, w.attempt, "reconcile")
  BY <1>2 DEF Sound, Recorded, Has, Got, NotStored
<1>4. Owned(row, o2, w, m)
  BY <1>2, <1>3 DEF Owned
<1> QED BY <1>1, <1>4 DEF Sound, Sent, Sending, Decided

\* The operation of the attempt goes to another phase, or its lease runs out.
LEMMA Advances ==
  ASSUME NEW i \in Intents, NEW row \in Rows, NEW o \in Operation, NEW w \in Workflow,
         NEW m \in Memo, NEW v, NEW f, Sound(i, row, o, w, m, v, f),
         NEW o2 \in Operation, o2.status = o.status, o2.key = o.key, o2.gen = o.gen,
         o.phase = "creating" => o2.phase = "creating",
         \/ o2.phase = o.phase
         \/ o.key[2] = w.attempt /\ Got(m, w.attempt, "begin") = "ok"
  PROVE  Sound(i, row, o2, w, m, v, f)
BY DEF Sound, Owned, Sent, Decided

\* A record is written, or a request is settled.
LEMMA Lands ==
  ASSUME NEW i \in Intents, NEW row \in Rows, NEW o \in Operation, NEW w \in Workflow,
         NEW m \in Memo, NEW v, NEW f, Sound(i, row, o, w, m, v, f),
         NEW v2, NEW f2, v # None => v2 = v,
         Hot(i, w.pc, v2, f2) => Hot(i, w.pc, v, f)
  PROVE  Sound(i, row, o, w, m, v2, f2)
<1>1. InTheWay(i, m, v2)
  BY DEF Sound, InTheWay
<1>2. AbsentStays(row, m, Hot(i, w.pc, v2, f2))
  BY DEF Sound, AbsentStays
<1>3. Decided(i, row, o, v2, Hot(i, w.pc, v2, f2))
  BY DEF Sound, Decided
<1> QED BY <1>1, <1>2, <1>3 DEF Sound

\* The request is made ready, is sent or has an answer.
LEMMA Requests ==
  ASSUME NEW i \in Intents, NEW row \in Rows, NEW o \in Operation, NEW w \in Workflow,
         NEW m \in Memo, NEW v, NEW f, Sound(i, row, o, w, m, v, f),
         w.pc \in Begun, NEW w2 \in Workflow, w2.run = w.run, w2.attempt = w.attempt,
         w2.pc \in Sending, Sent(row, o, w2, m), NEW f2,
         \/ Hot(i, w2.pc, v, f2) => Hot(i, w.pc, v, f)
         \/ row.state = "publishing" /\ o.status = "active" /\ o.phase = "creating"
  PROVE  Sound(i, row, o, w2, m, v, f2)
<1>1. PathAt(m, w2.pc, w2.attempt)
  BY DEF Sound, PathAt, Begun, OnlyAttempt, Opening, Sending
<1>2. Unsettled(row, m, w2)
  BY DEF Sound, Unsettled, Sending
<1>3. AbsentStays(row, m, Hot(i, w2.pc, v, f2))
  BY DEF Sound, AbsentStays, Unsettled
<1>4. Owned(row, o, w2, m)
  BY DEF Sound, Owned, Sending
<1>5. Decided(i, row, o, v, Hot(i, w2.pc, v, f2))
  BY DEF Sound, Decided, Waiting, Releasing
<1> QED BY <1>1, <1>2, <1>3, <1>4, <1>5 DEF Sound

\* Nothing is known of a Workflow that has stored nothing.
LEMMA Starts ==
  ASSUME NEW i \in Intents, NEW row \in Rows, NEW o \in Operation, NEW w \in Workflow, NEW v, NEW f,
         o.status # "active", w.pc \in {"none", "load"}, w.attempt = 0,
         Decided(i, row, o, v, Hot(i, w.pc, v, f))
  PROVE  Sound(i, row, o, w, NoMemo, v, f)
<1>1. \A n \in Attempts, s \in Steps : NoMemo[n][s] = NotStored
  BY DEF NoMemo
<1>2. {"load", "begin", "create", "reconcile", "state", "settle", "verify"} \subseteq Steps
  BY DEF Steps
<1>3. \A n \in Attempts : Reached(NoMemo, n) => n = 0
  <2>1. ~Done(NoMemo, 0)
    BY <1>1, <1>2, AttemptsType DEF Done, Got, NotStored
  <2>2. \A n \in Attempts : n # 0 => 0 \in 0..(n - 1)
    BY AttemptsType
  <2> QED BY <2>1, <2>2 DEF Reached
<1>4. Reached(NoMemo, 0)
  BY DEF Reached
<1> HIDE DEF NoMemo
<1>5. PathAt(NoMemo, w.pc, w.attempt)
  BY <1>4 DEF PathAt, Opening, OnlyAttempt, Begun
<1>6. Recorded(NoMemo)
  BY <1>1, <1>2, AttemptsType DEF Recorded, Has, Got, NotStored
<1>7. Unsettled(row, NoMemo, w)
  <2>1. Got(NoMemo, 0, "load") = "none"
    BY <1>1, <1>2, AttemptsType DEF Got, NotStored
  <2>2. \A n \in Attempts : ~Has(NoMemo, n, "reconcile") /\ Got(NoMemo, n, "create") = "none"
    BY <1>1, <1>2 DEF Has, Got, NotStored
  <2>3. \A n \in Attempts : ~Waits(NoMemo, n)
    BY <2>1, <2>2 DEF Waits
  <2> QED BY <1>3, <2>3 DEF Unsettled
<1>8. AbsentStays(row, NoMemo, Hot(i, w.pc, v, f))
  <2>1. row.gen \in Nat
    BY DEF Rows, Row, NoRow
  <2>2. \A n \in Attempts : SettleGen(NoMemo, n) = 0 /\ Got(NoMemo, n, "reconcile") = "none"
    BY <1>1, <1>2 DEF SettleGen, Got, NotStored
  <2> QED BY <2>1, <2>2 DEF AbsentStays
<1>9. InTheWay(i, NoMemo, v)
  BY <1>1, <1>2 DEF InTheWay, Got, NotStored
<1> QED BY <1>5, <1>6, <1>7, <1>8, <1>9 DEF Sound, Owned, Sent, Sending
------------------------------------------------------------------------------
(* The steps of one intent                                                 *)

SoundAt(i) == Sound(i, intent[i], op[i], wf[i], memo[i], pds[Version(i)], inflight)

AllSound == \A i \in Intents : SoundAt(i)

LEMMA Values ==
  ASSUME TypeOK, NEW i \in Intents
  PROVE  /\ intent[i] \in Rows /\ op[i] \in Operation /\ wf[i] \in Workflow /\ memo[i] \in Memo
         /\ wf[i].attempt \in Attempts /\ intent[i].gen \in Nat
BY DEF TypeOK, Rows, Row, NoRow, Memo, Result, Workflow

\* The value of a Workflow at another place.
LEMMA Place ==
  ASSUME NEW w \in Workflow, NEW pc \in Pcs
  PROVE  /\ [w EXCEPT !.pc = pc] \in Workflow
         /\ [w EXCEPT !.pc = pc].pc = pc
         /\ [w EXCEPT !.pc = pc].run = w.run
         /\ [w EXCEPT !.pc = pc].attempt = w.attempt
         /\ [w EXCEPT !.pc = pc].gen = w.gen
BY DEF Workflow, Pcs

\* A step's result is stored and the Workflow proceeds, or it is lost and the
\* Workflow starts from the top.
LEMMA StoreSound ==
  ASSUME TypeOK, NEW i \in Intents, NEW s \in Steps, NEW as \in Results \ {"none"},
         NEW gen \in Nat, Store(i, s, as, gen),
         NEW row \in Rows, NEW o \in Operation, NEW w \in Workflow, NEW v, NEW f,
         w.run = wf[i].run, w.attempt = wf[i].attempt,
         Sound(i, row, o, w, memo[i], v, f),
         PathAt(memo[i], s, w.attempt), Fresh(memo[i], w.attempt, s),
         s = "begin" => w.pc # "abandon",
         Agrees(i, row, o, w, v, f, s, [as |-> as, gen |-> gen])
  PROVE  Sound(i, row, o, wf'[i], memo'[i], v, f)
<1> DEFINE a == w.attempt
           r == [as |-> as, gen |-> gen]
           p == Put(memo[i], a, s, r)
<1>1. a \in Attempts /\ memo[i] \in Memo /\ wf[i] \in Workflow /\ r \in Result /\ r # NotStored
  BY Values DEF Result, NotStored
<1>2. WfTyped'
  BY StoreTyped
<1>3. wf'[i] \in Workflow
  BY <1>2 DEF WfTyped
<1>4. Store(i, s, as, gen) <=>
        \/ memo' = [memo EXCEPT ![i] = p] /\ Proceed(i, p, s) /\ UNCHANGED crashes
        \/ crashes > 0 /\ crashes' = crashes - 1 /\ FromTheTop(i) /\ UNCHANGED memo
  BY DEF Store, Put
<1>5. CASE memo' = [memo EXCEPT ![i] = p] /\ Proceed(i, p, s)
  <2>1. p \in Memo /\ \A t \in Steps : p[a][t] = IF t = s THEN r ELSE memo[i][a][t]
    <3> HIDE DEF r, a
    <3>1. /\ p \in Memo
          /\ \A n \in Attempts, t \in Steps : p[n][t] = IF n = a /\ t = s THEN r ELSE memo[i][n][t]
      BY <1>1, PutAt
    <3> HIDE DEF p
    <3> QED BY <1>1, <3>1
  <2>2. Sound(i, row, o, w, p, v, f)
    BY <1>1, Stores
  <2>3. PathAt(p, s, a)
    BY <1>1, PutPath DEF Steps
  <2> HIDE DEF p
  <2>4. memo'[i] = p
    BY <1>5 DEF TypeOK
  <2>5. Has(p, a, s)
    BY <1>1, <2>1 DEF Has
  <2>6. /\ wf'[i].run = w.run /\ wf'[i].pc = After(p, a, s)[1]
        /\ wf'[i].attempt = After(p, a, s)[2]
    <3> DEFINE next == After(p, a, s)
    <3>1. wf' = [wf EXCEPT ![i] = [wf[i] EXCEPT !.pc = next[1], !.attempt = next[2],
                                                !.closing = "failed"]]
      BY <1>5 DEF Proceed
    <3> HIDE DEF next
    <3>2. wf'[i] = [wf[i] EXCEPT !.pc = next[1], !.attempt = next[2], !.closing = "failed"]
      BY <3>1 DEF TypeOK
    <3>3. wf'[i].run = w.run /\ wf'[i].pc = next[1] /\ wf'[i].attempt = next[2]
      BY <1>1, <3>2 DEF Workflow
    <3> QED BY <3>3 DEF next
  <2>7. Sound(i, row, o, wf'[i], p, v, f)
    BY <1>3, <2>1, <2>2, <2>3, <2>5, <2>6, Proceeds
  <2> QED BY <2>4, <2>7
<1>6. CASE FromTheTop(i) /\ UNCHANGED memo
  <2>1. wf'[i].run = w.run /\ wf'[i].pc = "load" /\ wf'[i].attempt = 0
    BY <1>6 DEF FromTheTop, NoWf, TypeOK
  <2> QED BY <1>1, <1>3, <1>6, <2>1, Tops
<1> QED BY <1>4, <1>5, <1>6

\* A transition from a waiting state, or from publishing once the operation
\* is over.
LEMMA TransitionSound ==
  ASSUME TypeOK, NEW i \in Intents, NEW from \in Waiting \cup {"publishing"}, NEW gen, NEW to,
         Transition(i, from, gen, to),
         to = "conflict" => pds[Version(i)] # None,
         from = "publishing" => op[i].status # "active" /\ to # "reconciling", SoundAt(i)
  PROVE  Sound(i, intent'[i], op[i], wf[i], memo[i], pds[Version(i)], inflight)
<1> DEFINE row == intent[i]
           hot == Hot(i, wf[i].pc, pds[Version(i)], inflight)
<1>1. CASE CanMove(row, from, gen, to)
  <2>1. row.state = from /\ to \in States /\ to # "reconciling"
    BY <1>1, AllowedTyped DEF CanMove, Allowed, States, Waiting, Active, Releasing
  <2>2. row \in Row /\ Moved(row, to) \in Rows
    BY <2>1, Values DEF Rows, Row, NoRow, Moved, Waiting
  <2>3. Moved(row, to).gen > row.gen /\ Moved(row, to).state = to
    BY <2>2 DEF Moved, Row
  <2>4. from # "reconciling" /\ op[i].status # "active" /\ ~hot
    BY <2>1 DEF SoundAt, Sound, Owned, Decided, Waiting
  <2>5. wf[i].pc \notin Sending
    BY <2>1, <2>4 DEF SoundAt, Sound, Sent
  <2>6. Decided(i, Moved(row, to), op[i], pds[Version(i)], hot)
    BY <2>3, <2>4 DEF Decided, Hot
  <2>7. intent'[i] = Moved(row, to)
    BY <1>1 DEF Transition, TypeOK
  <2>8. Sound(i, Moved(row, to), op[i], wf[i], memo[i], pds[Version(i)], inflight)
    <3> DEFINE row2 == Moved(row, to)
    <3>1. /\ row.state # "reconciling" /\ row2.state # "reconciling"
          /\ row2 \in Rows /\ row2.gen > row.gen
          /\ Decided(i, row2, op[i], pds[Version(i)], hot)
      BY <2>1, <2>2, <2>3, <2>4, <2>6
    <3> HIDE DEF row2
    <3>2. Sound(i, row2, op[i], wf[i], memo[i], pds[Version(i)], inflight)
      BY <2>4, <2>5, <3>1, Values, Transits DEF SoundAt
    <3> QED BY <3>2 DEF row2
  <2> QED BY <2>7, <2>8
<1>2. CASE ~CanMove(row, from, gen, to)
  BY <1>2 DEF Transition, SoundAt
<1> QED BY <1>1, <1>2

\* The operation is completed with the intent's transition.
LEMMA CompleteSound ==
  ASSUME TypeOK, NEW i \in Intents, NEW outcome \in {"published", "ambiguous", "blocked", "failed"},
         Complete(i, outcome), NEW w \in Workflow, w.pc \notin Sending,
         Sound(i, intent[i], op[i], w, memo[i], pds[Version(i)], inflight)
  PROVE  Sound(i, intent'[i], op'[i], w, memo[i], pds[Version(i)], inflight)
<1> DEFINE to == StateForOutcome(outcome)
           row2 == Moved(intent[i], to)
           o2 == [op[i] EXCEPT !.status = "completed"]
           hot == Hot(i, w.pc, pds[Version(i)], inflight)
<1>1. CASE CanComplete(i, outcome)
  <2>1. /\ intent[i].state = "publishing" /\ op[i].status = "active"
        /\ op[i].phase = "creating" <=> outcome \in {"published", "ambiguous"}
    BY <1>1 DEF CanComplete, OwnsOperation, PhaseAllows
  <2>2. /\ to \in {"published", "reconciling", "ready", "failed"}
        /\ to \in {"ready", "failed"} <=> outcome \in {"blocked", "failed"}
        /\ to = "reconciling" <=> outcome = "ambiguous"
    BY DEF StateForOutcome
  <2> HIDE DEF to
  <2>3. row2 \in Rows /\ row2.gen > intent[i].gen /\ row2.state = to
    BY <2>1, <2>2, Values DEF Rows, Row, NoRow, Moved, States, Waiting, Active, Releasing
  <2>4. o2 \in Operation /\ o2.status = "completed"
    BY Values DEF Operation
  <2>5. Decided(i, row2, o2, pds[Version(i)], hot)
    BY <2>1, <2>2, <2>3 DEF Sound, Decided, Waiting, Releasing
  <2>6. intent'[i] = row2 /\ op'[i] = o2
    BY <1>1 DEF Complete, TypeOK, to
  <2> HIDE DEF row2, o2
  <2>7. Sound(i, row2, o2, w, memo[i], pds[Version(i)], inflight)
    BY <2>1, <2>2, <2>3, <2>4, <2>5, Values, Transits DEF hot
  <2> QED BY <2>6, <2>7
<1>2. CASE ~CanComplete(i, outcome)
  BY <1>2 DEF Complete
<1> QED BY <1>1, <1>2

\* The places that can be gone to from an attempt.
LEMMA Elsewhere ==
  ASSUME NEW m, NEW a, NEW pc, PathAt(m, pc, a)
  PROVE  /\ PathAt(m, "ended", a)
         /\ a # 0 => PathAt(m, "release", a) /\ PathAt(m, "publish", a) /\ PathAt(m, "begin", a)
         /\ pc \in Begun => \A to \in Begun \cup {"reconcile"} : PathAt(m, to, a)
         /\ a # 0 /\ Got(m, a, "begin") = "ok" => PathAt(m, "reconcile", a)
         /\ pc \in OnlyAttempt => a # 0
BY DEF PathAt, Opening, OnlyAttempt, Begun

\* The Workflow goes elsewhere outside of a step.
LEMMA GotoSound ==
  ASSUME TypeOK, NEW i \in Intents, NEW pc \in Pcs \ (Sending \cup {"begin"}), Goto(i, pc),
         NEW row \in Rows, NEW o \in Operation, NEW v, NEW f,
         Sound(i, row, o, wf[i], memo[i], v, f), PathAt(memo[i], pc, wf[i].attempt),
         pc = "reconcile" => row.state = "reconciling"
  PROVE  Sound(i, row, o, wf'[i], memo[i], v, f)
<1> DEFINE w2 == [wf[i] EXCEPT !.pc = pc]
<1>1. wf'[i] = w2
  BY DEF Goto, TypeOK
<1>2. w2 \in Workflow /\ w2.pc = pc /\ w2.run = wf[i].run /\ w2.attempt = wf[i].attempt
  BY Values, Place
<1> HIDE DEF w2
<1>3. Sound(i, row, o, w2, memo[i], v, f)
  BY <1>2, Values, Moves
<1> QED BY <1>1, <1>3

\* The attempt's result, stored in the create step or not.
LEMMA EndsSound ==
  ASSUME TypeOK, NEW i \in Intents, NEW result \in {"ok", "reconciling"}, AttemptEnds(i, result),
         wf[i].pc \in {"close", "latest"},
         NEW row \in Rows, NEW o \in Operation, NEW v, NEW f,
         Sound(i, row, o, wf[i], memo[i], v, f), result = "reconciling" => row.state = "reconciling"
  PROVE  Sound(i, row, o, wf'[i], memo'[i], v, f)
<1>1. /\ PathAt(memo[i], wf[i].pc, wf[i].attempt) /\ wf[i].attempt # 0
      /\ \A to \in Begun \cup {"reconcile", "release"} : PathAt(memo[i], to, wf[i].attempt)
  BY Elsewhere DEF Sound, Begun, OnlyAttempt
<1>2. CASE InCreate(i)
  <2>1. Store(i, "create", result, 0)
    BY <1>2 DEF AttemptEnds
  <2>2. Agrees(i, row, o, wf[i], v, f, "create", [as |-> result, gen |-> 0])
    BY DEF Agrees
  <2>3. result \in Results \ {"none"} /\ "create" \in Steps /\ 0 \in Nat
    BY DEF Results, States, Active, Steps
  <2>4. PathAt(memo[i], "create", wf[i].attempt) /\ Fresh(memo[i], wf[i].attempt, "create")
    BY <1>1 DEF Begun, Fresh
  <2> QED BY <2>1, <2>2, <2>3, <2>4, Values, StoreSound
<1>3. CASE ~InCreate(i)
  <2>1. /\ Goto(i, IF result = "reconciling" THEN "reconcile" ELSE "release")
        /\ memo' = memo
    BY <1>3 DEF AttemptEnds
  <2>2. {"reconcile", "release"} \subseteq Pcs \ (Sending \cup {"begin"})
    BY DEF Pcs, Steps, Sending
  <2>3. Sound(i, row, o, wf'[i], memo[i], v, f)
    BY <1>1, <2>1, <2>2, GotoSound
  <2> QED BY <2>1, <2>3
<1> QED BY <1>2, <1>3
------------------------------------------------------------------------------
(* The Workflow's steps                                                    *)

\* A due step whose result is stored, the row, the operation and the PDS
\* being what they were before.
LEMMA DueSound ==
  ASSUME TypeOK, NEW i \in Intents, NEW s \in Steps, Due(i, s),
         NEW as \in Results \ {"none"}, NEW gen \in Nat, Store(i, s, as, gen),
         NEW row \in Rows, NEW o \in Operation, NEW v, NEW f,
         Sound(i, row, o, wf[i], memo[i], v, f),
         Agrees(i, row, o, wf[i], v, f, s, [as |-> as, gen |-> gen])
  PROVE  Sound(i, row, o, wf'[i], memo'[i], v, f)
<1>1. wf[i].pc = s /\ ~Has(memo[i], wf[i].attempt, s)
  BY DEF Due, Stored, Has
<1>2. PathAt(memo[i], s, wf[i].attempt) /\ Fresh(memo[i], wf[i].attempt, s)
  BY <1>1 DEF Sound, Fresh
<1> QED BY <1>1, <1>2, Values, StoreSound

LEMMA ReplaySound ==
  ASSUME TypeOK, NEW i \in Intents, SoundAt(i), Replay(i)
  PROVE  SoundAt(i)'
<1> DEFINE s == wf[i].pc
           a == wf[i].attempt
           next == After(memo[i], a, s)
<1>1. s \in Steps /\ Has(memo[i], a, s) /\ Proceed(i, memo[i], s)
  BY DEF Replay, Stored, Has
<1>2. wf' = [wf EXCEPT ![i] = [wf[i] EXCEPT !.pc = next[1], !.attempt = next[2],
                                            !.closing = "failed"]]
  BY <1>1 DEF Proceed
<1>3. WfTyped'
  BY <1>1, ProceedTyped, Values
<1> HIDE DEF next
<1>4. wf'[i] = [wf[i] EXCEPT !.pc = next[1], !.attempt = next[2], !.closing = "failed"]
  BY <1>2 DEF TypeOK
<1>5. wf'[i].run = wf[i].run /\ wf'[i].pc = next[1] /\ wf'[i].attempt = next[2]
  BY <1>4, Values DEF Workflow
<1>6. wf'[i] \in Workflow
  BY <1>3 DEF WfTyped
<1>7. Sound(i, intent[i], op[i], wf'[i], memo[i], pds[Version(i)], inflight)
  BY <1>1, <1>5, <1>6, Values, Proceeds DEF SoundAt, Sound, next
<1> QED BY <1>7 DEF Replay, SoundAt, tables, Version

\* The intent, its operation, the PDS and the requests are left alone.
Aside(i) ==
  /\ intent'[i] = intent[i] /\ op'[i] = op[i] /\ pds' = pds /\ inflight' = inflight
  /\ Version(i)' = Version(i)

\* The steps that go elsewhere and store nothing.
LEMMA WalkSound ==
  ASSUME TypeOK, NEW i \in Intents, SoundAt(i),
         \/ GiveUp(i) \/ UploadFails(i) \/ Evaluate(i) \/ Renew(i) \/ Permit(i)
  PROVE  SoundAt(i)'
<1>1. PathAt(memo[i], wf[i].pc, wf[i].attempt)
  BY DEF SoundAt, Sound
<1>2. \E pc \in {"ended", "close", "renew", "permit", "creating"} :
        Goto(i, pc) /\ PathAt(memo[i], pc, wf[i].attempt)
  BY <1>1, Elsewhere DEF GiveUp, UploadFails, Evaluate, Renew, Permit, Due, At, Begun
<1>3. {"ended", "close", "renew", "permit", "creating"} \subseteq Pcs \ (Sending \cup {"begin"})
  BY DEF Pcs, Between, Sending
<1>4. Sound(i, intent[i], op[i], wf'[i], memo[i], pds[Version(i)], inflight)
  BY <1>2, <1>3, Values, GotoSound DEF SoundAt
<1>5. Aside(i) /\ memo' = memo
  BY DEF GiveUp, UploadFails, Evaluate, Renew, Permit, tables, Aside, Version
<1> QED BY <1>4, <1>5 DEF SoundAt, Aside

LEMMA RefusedSound ==
  ASSUME TypeOK, NEW i \in Intents, SoundAt(i),
         \/ EvaluateRefused(i) \/ RenewRefused(i) \/ PermitRefused(i) \/ CreatingRefused(i)
  PROVE  SoundAt(i)'
<1>1. wf[i].pc \in Begun /\ \E o \in {"blocked", "failed"} : Refused(i, o)
  BY DEF EvaluateRefused, RenewRefused, PermitRefused, CreatingRefused, Due, At, Begun
<1>2. PathAt(memo[i], "close", wf[i].attempt)
  BY <1>1, Elsewhere DEF SoundAt, Sound, Begun
<1>3. PICK o \in {"blocked", "failed"} : Refused(i, o)
  BY <1>1
<1> DEFINE w2 == [wf[i] EXCEPT !.pc = "close", !.closing = o]
<1>4. wf'[i] = w2
  BY <1>3 DEF Refused, Closing, TypeOK
<1>5. w2 \in Workflow /\ w2.pc = "close" /\ w2.run = wf[i].run /\ w2.attempt = wf[i].attempt
  BY Values DEF Workflow, Between
<1> HIDE DEF w2
<1>6. Sound(i, intent[i], op[i], w2, memo[i], pds[Version(i)], inflight)
  BY <1>2, <1>5, Values, Moves DEF SoundAt, Sending
<1>7. Aside(i) /\ memo' = memo
  BY <1>3 DEF Refused, tables, Aside, Version
<1> QED BY <1>4, <1>6, <1>7 DEF SoundAt, Aside

\* The steps whose result depends on nothing of the intent.
LEMMA PlainSound ==
  ASSUME TypeOK, NEW i \in Intents, SoundAt(i),
         \/ Policy(i) \/ Coordinate(i)
         \/ \E s \in {"finalRelease", "release", "reconcileRelease"} : ReleaseCoordination(i, s)
  PROVE  SoundAt(i)'
<1>1. PICK s \in {"policy", "coordinate", "finalRelease", "release", "reconcileRelease"},
           as \in {"ok", "invalid", "refused"} : Due(i, s) /\ Store(i, s, as, 0)
  BY DEF Policy, Coordinate, ReleaseCoordination
<1>2. /\ s \in Steps /\ as \in Results \ {"none"}
      /\ Agrees(i, intent[i], op[i], wf[i], pds[Version(i)], inflight, s, [as |-> as, gen |-> 0])
  BY DEF Steps, Results, States, Releasing, Agrees
<1>3. Sound(i, intent[i], op[i], wf'[i], memo'[i], pds[Version(i)], inflight)
  BY <1>1, <1>2, Values, DueSound DEF SoundAt
<1>4. Aside(i)
  BY RunKeepsRecords DEF Policy, Coordinate, ReleaseCoordination, Aside, VersionsKept, Run
<1> QED BY <1>3, <1>4 DEF SoundAt, Aside

LEMMA LoadSound ==
  ASSUME TypeOK, NEW i \in Intents, SoundAt(i), Load(i)
  PROVE  SoundAt(i)'
<1> DEFINE row == intent[i]
<1>1. Aside(i) /\ Due(i, "load")
  BY DEF Load, Aside, tables, Version
<1>2. CASE row.state \in {"verifying", "ready", "reconciling"}
           /\ Store(i, "load", row.state, row.gen)
  <2>1. /\ row.state \in Results \ {"none"} /\ "load" \in Steps
        /\ Agrees(i, row, op[i], wf[i], pds[Version(i)], inflight, "load",
                  [as |-> row.state, gen |-> row.gen])
    BY <1>2 DEF Results, States, Waiting, Active, Steps, Agrees
  <2>2. Sound(i, row, op[i], wf'[i], memo'[i], pds[Version(i)], inflight)
    BY <1>1, <1>2, <2>1, Values, DueSound DEF SoundAt
  <2> QED BY <1>1, <2>2 DEF SoundAt, Aside
<1>3. CASE Goto(i, "ended") /\ memo' = memo
  <2>1. PathAt(memo[i], "ended", wf[i].attempt) /\ "ended" \in Pcs \ (Sending \cup {"begin"})
    BY Elsewhere DEF SoundAt, Sound, Pcs, Sending
  <2>2. Sound(i, row, op[i], wf'[i], memo[i], pds[Version(i)], inflight)
    BY <1>3, <2>1, Values, GotoSound DEF SoundAt
  <2> QED BY <1>1, <1>3, <2>2 DEF SoundAt, Aside
<1> QED BY <1>2, <1>3 DEF Load

LEMMA ReadSound ==
  ASSUME TypeOK, NEW i \in Intents, SoundAt(i), ~LateWrites, intent[i].state # "none",
         FinalVerification(i) \/ Reconcile(i) \/ ReconciliationState(i)
  PROVE  SoundAt(i)'
<1> DEFINE row == intent[i]
           v == pds[Version(i)]
<1>1. Aside(i)
  BY DEF FinalVerification, Reconcile, ReconciliationState, Aside, tables, Version
<1>2. ASSUME NEW s \in Steps, NEW as \in Results \ {"none"}, NEW gen \in Nat, Due(i, s),
             Store(i, s, as, gen),
             Agrees(i, row, op[i], wf[i], v, inflight, s, [as |-> as, gen |-> gen])
      PROVE  SoundAt(i)'
  <2>1. Sound(i, row, op[i], wf'[i], memo'[i], v, inflight)
    BY <1>2, Values, DueSound DEF SoundAt
  <2> QED BY <1>1, <2>1 DEF SoundAt, Aside
<1>3. CASE FinalVerification(i)
  <2>1. \E as \in {"ok", "conflict", "invalid"} :
          Store(i, "verify", as, 0) /\ (as = "conflict" => v # None)
    BY <1>3 DEF FinalVerification
  <2>2. {"ok", "conflict", "invalid"} \subseteq Results \ {"none"} /\ "verify" \in Steps
    BY DEF Results, States, Releasing, Steps
  <2> QED BY <1>2, <1>3, <2>1, <2>2 DEF FinalVerification, Agrees
<1>4. CASE Reconcile(i)
  <2>1. /\ Due(i, "reconcile") /\ Store(i, "reconcile", Found(i), 0) /\ i \notin inflight
        /\ wf[i].pc = "reconcile" /\ ~Has(memo[i], wf[i].attempt, "reconcile")
    BY <1>4 DEF Reconcile, Readable, Due, Stored, Has
  <2>2. row.state = "reconciling"
    BY <2>1 DEF SoundAt, Sound, Unsettled
  <2>3. /\ Found(i) \in {"absent", "exact", "conflict"}
        /\ Found(i) = "absent" => v = None
        /\ Found(i) = "conflict" => v \notin {i, None}
    BY DEF Found
  <2>4. v = None => ~Hot(i, wf[i].pc, v, inflight)
    BY <2>1, PublicationAssumption DEF Hot
  <2>5. {"absent", "exact", "conflict"} \subseteq Results \ {"none"} /\ "reconcile" \in Steps
    BY DEF Results, States, Releasing, Steps
  <2> QED BY <1>2, <2>1, <2>2, <2>3, <2>4, <2>5 DEF Agrees
<1>5. CASE ReconciliationState(i)
  <2>1. Due(i, "state") /\ Store(i, "state", row.state, row.gen)
    BY <1>5 DEF ReconciliationState
  <2>2. row.state \in Results \ {"none"}
    BY Values DEF Rows, Row, NoRow, Results, States
  <2>3. "state" \in Steps /\ row.gen \in Nat
    BY Values DEF Steps
  <2> QED BY <1>2, <2>1, <2>2, <2>3 DEF Agrees
<1> QED BY <1>3, <1>4, <1>5

\* The transitions of the steps before a request.
LEMMA MarkSound ==
  ASSUME TypeOK, NEW i \in Intents, SoundAt(i), MarkVerified(i) \/ MarkReady(i) \/ Refuse(i)
  PROVE  SoundAt(i)'
<1>0. /\ intent[i].gen \in Nat
      /\ \A s \in Steps : Stored(i, s).gen \in Nat
  BY Values, StoredTyped
<1>1. \E s \in {"markVerified", "markReady", "refuse"}, from \in {"verifying", "verified", "ready"},
         gen \in Nat, to \in Results :
        Due(i, s) /\ Mark(i, s, from, gen, to) /\ (to = "conflict" => pds[Version(i)] # None)
  <2>1. CASE MarkVerified(i) \/ MarkReady(i)
    BY <1>0, <2>1 DEF MarkVerified, MarkReady, Results, States, Waiting, Steps
  <2>2. CASE Refuse(i) /\ wf[i].attempt = 0
    BY <1>0, <2>2 DEF Refuse, Results, States, Releasing, Steps
  <2>3. CASE Refuse(i) /\ wf[i].attempt # 0
    <3>1. Stored(i, "verify").as = "conflict" => pds[Version(i)] # None
      BY Values DEF SoundAt, Sound, InTheWay, Stored, Got
    <3>2. Stored(i, "verify").as \in Results
      BY StoredTyped DEF Steps
    <3> QED BY <1>0, <2>3, <3>1, <3>2 DEF Refuse
  <2> QED BY <2>1, <2>2, <2>3
<1>2. PICK s \in {"markVerified", "markReady", "refuse"}, from \in {"verifying", "verified", "ready"},
           gen \in Nat, to \in Results :
        Due(i, s) /\ Mark(i, s, from, gen, to) /\ (to = "conflict" => pds[Version(i)] # None)
  BY <1>1
<1>3. /\ s \in Steps /\ from \in Waiting /\ from \in States
      /\ {"ok", "refused"} \subseteq Results \ {"none"} /\ gen + 1 \in Nat
  BY DEF Steps, Waiting, States, Results
<1>4. IntentTyped'
  BY <1>2, <1>3, MarkTyped
<1>5. intent'[i] \in Rows
  BY <1>4 DEF IntentTyped, Rows
<1>6. Sound(i, intent'[i], op[i], wf[i], memo[i], pds[Version(i)], inflight)
  BY <1>2, <1>3, TransitionSound DEF Mark, Waiting
<1>7. PICK as \in {"ok", "refused"} : Store(i, s, as, gen + 1)
  BY <1>2 DEF Mark
<1>8. Agrees(i, intent'[i], op[i], wf[i], pds[Version(i)], inflight, s,
             [as |-> as, gen |-> gen + 1])
  BY DEF Agrees
<1>9. Sound(i, intent'[i], op[i], wf'[i], memo'[i], pds[Version(i)], inflight)
  BY <1>2, <1>3, <1>5, <1>6, <1>7, <1>8, Values, DueSound
<1> QED BY <1>9 DEF MarkVerified, MarkReady, Refuse, SoundAt, Version

\* The settlement of a reconciliation.
LEMMA SettleSound ==
  ASSUME TypeOK, NEW i \in Intents, SoundAt(i), Settle(i)
  PROVE  SoundAt(i)'
<1> DEFINE row == intent[i]
           v == pds[Version(i)]
           a == wf[i].attempt
           gen == Stored(i, IF a = 0 THEN "load" ELSE "state").gen
           to == SettledAs(i)
           as == IF Accepts(i, "reconciling", gen, to) THEN "ok" ELSE "refused"
           hot == Hot(i, wf[i].pc, v, inflight)
<1>1. /\ Due(i, "settle") /\ Transition(i, "reconciling", gen, to)
      /\ Store(i, "settle", as, gen + 1)
  BY DEF Settle, Mark
<1>2. wf[i].pc = "settle" /\ ~Has(memo[i], a, "settle")
  BY <1>1 DEF Due, Stored, Has
<1>3. /\ a \in Attempts /\ PathAt(memo[i], "settle", a)
      /\ Has(memo[i], a, "reconcile") /\ (a # 0 => Has(memo[i], a, "state"))
      /\ Got(memo[i], a, "reconcile") \in {"absent", "exact", "conflict"}
  BY <1>2, Values DEF SoundAt, Sound, PathAt, Recorded
<1>4. to \in {"published", "conflict", "ready", "failed"}
  BY DEF SettledAs
<1>5. gen = SettleGen(memo[i], a) /\ gen \in Nat
  BY StoredTyped DEF SettleGen, Stored, Steps
<1>6. Sound(i, intent'[i], op[i], wf[i], memo[i], v, inflight)
  <2>1. CASE CanMove(row, "reconciling", gen, to)
    <3>1. row.state = "reconciling" /\ row.gen = gen
      BY <2>1 DEF CanMove
    <3>2. to \in {"ready", "failed"} => ~hot
      <4>1. SUFFICES ASSUME to \in {"ready", "failed"}
                     PROVE  ~hot
        OBVIOUS
      <4>2. Got(memo[i], a, "reconcile") = "absent"
        BY <1>3, <4>1 DEF SettledAs, Stored, Got
      <4> QED BY <1>3, <1>5, <3>1, <4>2 DEF SoundAt, Sound, AbsentStays
    <3>3. to = "conflict" => v \notin {i, None}
      <4>1. to = "conflict" => Got(memo[i], a, "reconcile") = "conflict"
        BY <1>3 DEF SettledAs, Stored, Got
      <4> QED BY <1>3, <4>1 DEF SoundAt, Sound, InTheWay
    <3>4. Moved(row, to) \in Rows /\ Moved(row, to).gen > row.gen /\ Moved(row, to).state = to
      BY <1>4, <3>1, Values DEF Rows, Row, NoRow, Moved, States, Waiting, Active, Releasing
    <3> HIDE DEF to, hot, gen
    <3>5. Decided(i, Moved(row, to), op[i], v, Hot(i, wf[i].pc, v, inflight))
      BY <1>4, <3>2, <3>3, <3>4 DEF Decided, Waiting, Releasing, hot
    <3>6. intent'[i] = Moved(row, to)
      BY <1>1, <2>1 DEF Transition, TypeOK
    <3>7. Sound(i, Moved(row, to), op[i], wf[i], memo[i], v, inflight)
      BY <1>2, <1>4, <3>1, <3>4, <3>5, Values, Settles DEF SoundAt
    <3> QED BY <3>6, <3>7
  <2>2. CASE ~CanMove(row, "reconciling", gen, to)
    BY <1>1, <2>2 DEF Transition, SoundAt
  <2> QED BY <2>1, <2>2
<1>7. as = "ok" => intent'[i].state # "reconciling"
  <2> HIDE DEF to, gen
  <2>1. CASE CanMove(row, "reconciling", gen, to)
    BY <1>1, <1>4, <2>1 DEF Transition, TypeOK, Moved
  <2>2. CASE ~CanMove(row, "reconciling", gen, to) /\ Repeated(row, gen, to)
    BY <1>1, <1>4, <2>2 DEF Transition, Repeated
  <2> QED BY <2>1, <2>2 DEF Accepts
<1>8. /\ as \in Results \ {"none"} /\ gen + 1 \in Nat /\ "settle" \in Steps
      /\ to \in Results /\ "reconciling" \in States
  BY <1>4, <1>5 DEF Results, Steps, States, Active, Releasing, Waiting
<1>9. intent'[i] \in Rows
  <2> HIDE DEF to, gen
  <2>1. IntentTyped'
    BY <1>1, <1>5, <1>8, TransitionTyped
  <2> QED BY <2>1 DEF IntentTyped, Rows
<1> HIDE DEF to, gen, as
<1>10. Agrees(i, intent'[i], op[i], wf[i], v, inflight, "settle", [as |-> as, gen |-> gen + 1])
  BY <1>7 DEF Agrees
<1>11. Sound(i, intent'[i], op[i], wf'[i], memo'[i], v, inflight)
  BY <1>1, <1>6, <1>8, <1>9, <1>10, Values, DueSound
<1> QED BY <1>11 DEF Settle, SoundAt, Version

\* The Workflow goes on with the generation that it read.
LEMMA EnterSound ==
  ASSUME TypeOK, NEW i \in Intents, NEW pc \in {"publish", "begin"}, NEW gen \in Nat,
         Enter(i, pc, gen), NEW row \in Rows, NEW o \in Operation, NEW v, NEW f,
         Sound(i, row, o, wf[i], memo[i], v, f), wf[i].attempt # 0,
         pc = "begin" => gen = row.gen
  PROVE  Sound(i, row, o, wf'[i], memo[i], v, f)
<1> DEFINE w2 == [wf[i] EXCEPT !.pc = pc, !.gen = gen]
<1>1. wf'[i] = w2
  BY DEF Enter, TypeOK
<1>2. /\ w2 \in Workflow /\ w2.pc = pc /\ w2.run = wf[i].run /\ w2.attempt = wf[i].attempt
      /\ w2.gen = gen
  BY Values DEF Workflow, Steps, Between
<1>3. PathAt(memo[i], pc, wf[i].attempt)
  BY Elsewhere DEF Sound
<1> HIDE DEF w2
<1>4. Sound(i, row, o, w2, memo[i], v, f)
  BY <1>2, <1>3, Values, Moves DEF Sending
<1> QED BY <1>1, <1>4

LEMMA LookSound ==
  ASSUME TypeOK, NEW i \in Intents, SoundAt(i), Look(i)
  PROVE  SoundAt(i)'
<1> DEFINE row == intent[i]
           v == pds[Version(i)]
<1>1. /\ op' = op /\ pds' = pds /\ inflight' = inflight /\ memo' = memo
      /\ Version(i)' = Version(i) /\ wf[i].pc = "look"
  BY DEF Look, Version, At
<1>2. wf[i].attempt # 0 /\ PathAt(memo[i], "look", wf[i].attempt)
  BY <1>1 DEF SoundAt, Sound, PathAt, OnlyAttempt
<1>3. {"release", "reconcile"} \subseteq Pcs \ (Sending \cup {"begin"})
      /\ PathAt(memo[i], "release", wf[i].attempt)
  BY <1>2, Elsewhere DEF Pcs, Steps, Sending
<1>4. CASE row.state = "ready" /\ row.expired
  <2>1. Transition(i, "ready", row.gen, "expired") /\ Goto(i, "release")
    BY <1>4 DEF Look
  <2>2. intent'[i] \in Rows
    BY <2>1, Values, TransitionTyped DEF IntentTyped, Rows, States, Waiting
  <2>3. Sound(i, intent'[i], op[i], wf[i], memo[i], v, inflight)
    BY <2>1, TransitionSound DEF Waiting
  <2>4. Sound(i, intent'[i], op[i], wf'[i], memo[i], v, inflight)
    BY <1>3, <2>1, <2>2, <2>3, Values, GotoSound
  <2> QED BY <1>1, <2>4 DEF SoundAt
<1>5. CASE (row.state = "ready" /\ ~row.expired) \/ row.state = "publishing"
  <2>1. intent' = intent /\ \E pc \in {"publish", "begin"} : Enter(i, pc, row.gen)
    BY <1>5 DEF Look
  <2>2. Sound(i, row, op[i], wf'[i], memo[i], v, inflight)
    BY <1>2, <2>1, Values, EnterSound DEF SoundAt
  <2> QED BY <1>1, <2>1, <2>2 DEF SoundAt
<1>6. CASE row.state \notin {"ready", "publishing"}
  <2>1. intent' = intent /\ Goto(i, IF row.state = "reconciling" THEN "reconcile" ELSE "release")
    BY <1>6 DEF Look
  <2>2. row.state = "reconciling" => PathAt(memo[i], "reconcile", wf[i].attempt)
    <3>1. Reached(memo[i], wf[i].attempt)
      BY <1>2 DEF PathAt
    <3>2. row.state = "reconciling" => Got(memo[i], wf[i].attempt, "begin") = "ok"
      BY <1>2, <3>1, Values DEF SoundAt, Sound, Unsettled
    <3> QED BY <1>2, <3>2, Elsewhere
  <2>3. Sound(i, row, op[i], wf'[i], memo[i], v, inflight)
    BY <1>3, <2>1, <2>2, Values, GotoSound DEF SoundAt
  <2> QED BY <1>1, <2>1, <2>3 DEF SoundAt
<1> QED BY <1>4, <1>5, <1>6

LEMMA PublishSound ==
  ASSUME TypeOK, NEW i \in Intents, SoundAt(i), Publish(i) \/ Abandon(i)
  PROVE  SoundAt(i)'
<1> DEFINE row == intent[i]
           v == pds[Version(i)]
           gen == wf[i].gen
<1>1. /\ op' = op /\ pds' = pds /\ inflight' = inflight /\ memo' = memo
      /\ Version(i)' = Version(i) /\ wf[i].pc \in {"publish", "abandon"}
  BY DEF Publish, Abandon, Version, At
<1>2. wf[i].attempt # 0 /\ PathAt(memo[i], wf[i].pc, wf[i].attempt)
  BY <1>1 DEF SoundAt, Sound, PathAt, OnlyAttempt
<1>3. "release" \in Pcs \ (Sending \cup {"begin"}) /\ PathAt(memo[i], "release", wf[i].attempt)
  BY <1>2, Elsewhere DEF Pcs, Steps, Sending
<1>4. gen \in Nat
  BY Values DEF Workflow
<1>5. ASSUME NEW from \in {"ready", "publishing"}, NEW to, Transition(i, from, gen, to),
             to \notin {"reconciling", "conflict"},
             from = "publishing" => op[i].status # "active"
      PROVE  intent'[i] \in Rows /\ Sound(i, intent'[i], op[i], wf[i], memo[i], v, inflight)
  <2>1. intent'[i] \in Rows
    BY <1>4, <1>5, TransitionTyped DEF IntentTyped, Rows, States, Waiting, Active
  <2>2. Sound(i, intent'[i], op[i], wf[i], memo[i], v, inflight)
    BY <1>5, TransitionSound DEF Waiting
  <2> QED BY <2>1, <2>2
<1>6. CASE Publish(i)
  <2>0. Transition(i, "ready", gen, "publishing")
    BY <1>6 DEF Publish
  <2>1. intent'[i] \in Rows /\ Sound(i, intent'[i], op[i], wf[i], memo[i], v, inflight)
    BY <1>5, <2>0
  <2>2. CASE Accepts(i, "ready", gen, "publishing") /\ Enter(i, "begin", gen + 1)
    <3>1. intent'[i].gen = gen + 1
      <4>1. CASE CanMove(row, "ready", gen, "publishing")
        BY <2>0, <4>1 DEF Transition, TypeOK, Moved, CanMove
      <4>2. CASE ~CanMove(row, "ready", gen, "publishing")
        BY <2>0, <2>2, <4>2 DEF Transition, Accepts, Repeated
      <4> QED BY <4>1, <4>2
    <3> DEFINE row2 == intent'[i]
               g == gen + 1
    <3>2. g \in Nat /\ op[i] \in Operation /\ row2.gen = g /\ Enter(i, "begin", g)
      BY <1>4, <2>2, <3>1, Values
    <3>3. row2 \in Rows /\ Sound(i, row2, op[i], wf[i], memo[i], v, inflight)
      BY <2>1
    <3> HIDE DEF row2, g, v
    <3>4. Sound(i, row2, op[i], wf'[i], memo[i], v, inflight)
      BY <1>2, <3>2, <3>3, EnterSound
    <3> QED BY <1>1, <3>4 DEF SoundAt, row2, v
  <2>3. CASE Goto(i, "release")
    <3>1. Sound(i, intent'[i], op[i], wf'[i], memo[i], v, inflight)
      BY <1>3, <2>1, <2>3, Values, GotoSound
    <3> QED BY <1>1, <3>1 DEF SoundAt
  <2> QED BY <1>6, <2>2, <2>3 DEF Publish
<1>7. CASE Abandon(i)
  <2>1. Transition(i, "publishing", gen, "failed") /\ Goto(i, "release")
    BY <1>7 DEF Abandon
  <2>2. op[i].status # "active"
    <3> SUFFICES ASSUME op[i].status = "active"
                 PROVE  FALSE
      OBVIOUS
    <3> DEFINE n == op[i].key[2]
               a == wf[i].attempt
               m == memo[i]
    <3>1. /\ n \in Attempts /\ n # 0 /\ Reached(m, n) /\ ~Has(m, n, "reconcile")
          /\ Has(m, n, "begin") => Got(m, n, "begin") = "ok"
      BY Values DEF SoundAt, Sound, Owned, Operation, Keys
    <3>2. Has(m, a, "begin") /\ Got(m, a, "begin") # "ok" /\ Reached(m, a)
      BY <1>2, <1>7 DEF PathAt, Abandon, At
    <3>3. a \in Nat /\ n \in Nat /\ a # 0 /\ a \in Attempts
      BY <1>2, <3>1, Values, AttemptsType
    <3>4. Recorded(m)
      BY DEF SoundAt, Sound
    <3> HIDE DEF n, a, m
    <3>5. CASE n < a
      <4>1. Done(m, n)
        BY <3>2, <3>3, <3>5 DEF Reached
      <4> QED BY <3>1, <3>4, <4>1 DEF Done, Recorded
    <3>6. CASE a < n
      <4>1. Done(m, a)
        BY <3>1, <3>3, <3>6 DEF Reached
      <4> QED BY <3>2, <3>3, <3>4, <4>1 DEF Done, Recorded
    <3>7. n # a
      BY <3>1, <3>2
    <3> QED BY <3>3, <3>5, <3>6, <3>7
  <2>3. intent'[i] \in Rows /\ Sound(i, intent'[i], op[i], wf[i], memo[i], v, inflight)
    BY <1>5, <2>1, <2>2
  <2>4. Sound(i, intent'[i], op[i], wf'[i], memo[i], v, inflight)
    BY <1>3, <2>1, <2>3, Values, GotoSound
  <2> QED BY <1>1, <2>4 DEF SoundAt
<1> QED BY <1>6, <1>7

LEMMA BeginSound ==
  ASSUME TypeOK, NEW i \in Intents, SoundAt(i), Begin(i)
  PROVE  SoundAt(i)'
<1> DEFINE row == intent[i]
           v == pds[Version(i)]
           gen == wf[i].gen
           a == wf[i].attempt
           key == <<wf[i].run, a>>
           same == op[i].live /\ op[i].key = Key(i) /\ op[i].gen = gen
           new == [status |-> "active", key |-> Key(i), gen |-> gen, phase |-> "uploading",
                   live |-> TRUE]
<1>1. /\ intent' = intent /\ pds' = pds /\ inflight' = inflight /\ Version(i)' = Version(i)
      /\ Due(i, "begin") /\ gen \in Nat
  BY Values DEF Begin, Version, Workflow
<1>2. wf[i].pc = "begin" /\ ~Has(memo[i], a, "begin")
  BY <1>1 DEF Due, Stored, Has
<1>3. {"ok", "refused"} \subseteq Results \ {"none"} /\ "begin" \in Steps
  BY DEF Results, Steps
<1>4. ASSUME NEW o \in Operation, op'[i] = o, NEW as \in {"ok", "refused"},
             Store(i, "begin", as, gen), Sound(i, row, o, wf[i], memo[i], v, inflight),
             as = "ok" \/ o.status # "active"
      PROVE  SoundAt(i)'
  <2>1. Agrees(i, row, o, wf[i], v, inflight, "begin", [as |-> as, gen |-> gen])
    BY <1>4 DEF Agrees
  <2>2. Sound(i, row, o, wf'[i], memo'[i], v, inflight)
    BY <1>1, <1>3, <1>4, <2>1, Values, DueSound
  <2> QED BY <1>1, <1>4, <2>2 DEF SoundAt
<1>5. CASE /\ row.state # "publishing" \/ row.gen # gen
           /\ Store(i, "begin", "refused", gen) /\ op' = op
  <2>1. op[i].status # "active"
    BY <1>2, <1>5 DEF SoundAt, Sound, Owned
  <2> QED BY <1>4, <1>5, <2>1, Values DEF SoundAt
<1>6. CASE /\ row.state = "publishing" /\ row.gen = gen
           /\ op[i].status # "active" \/ same
           /\ op' = IF op[i].status = "active" THEN op ELSE [op EXCEPT ![i] = new]
           /\ Store(i, "begin", "ok", gen)
  <2>1. CASE op[i].status = "active"
    BY <1>4, <1>6, <2>1, Values DEF SoundAt
  <2>2. CASE op[i].status # "active"
    <3>1. new \in Operation /\ new.key = key /\ new.gen = gen /\ new.phase = "uploading"
      BY <1>1, KeyTyped DEF Operation, Key
    <3> HIDE DEF new
    <3>2. Sound(i, row, new, wf[i], memo[i], v, inflight)
      BY <1>2, <1>6, <2>2, <3>1, Values, Begins DEF SoundAt
    <3>3. op'[i] = new
      BY <1>6, <2>2 DEF TypeOK
    <3> QED BY <1>4, <1>6, <3>1, <3>2, <3>3
  <2> QED BY <2>1, <2>2
<1> QED BY <1>5, <1>6 DEF Begin

LEMMA AdvanceSound ==
  ASSUME TypeOK, NEW i \in Intents, SoundAt(i), NEW phase \in {"materialized", "creating"},
         Advance(i, phase), wf[i].pc \in Begun
  PROVE  /\ op'[i] \in Operation
         /\ Sound(i, intent[i], op'[i], wf[i], memo[i], pds[Version(i)], inflight)
<1>1. op'[i] \in Operation
  BY AdvanceTyped DEF OpTyped
<1>2. Got(memo[i], wf[i].attempt, "begin") = "ok"
  BY DEF SoundAt, Sound, PathAt
<1>3. CASE CanAdvance(i, phase)
  <2> DEFINE o == [op[i] EXCEPT !.phase = phase]
  <2>1. op'[i] = o
    BY <1>3 DEF Advance, TypeOK
  <2>2. /\ o \in Operation /\ o.status = op[i].status /\ o.key = op[i].key /\ o.gen = op[i].gen
        /\ o.phase = phase
    BY Values DEF Operation
  <2>3. op[i].key[2] = wf[i].attempt /\ (op[i].phase = "creating" => phase = "creating")
    BY <1>3 DEF CanAdvance, OwnsOperation, Key
  <2> HIDE DEF o
  <2>4. Sound(i, intent[i], o, wf[i], memo[i], pds[Version(i)], inflight)
    BY <1>2, <2>2, <2>3, Values, Advances DEF SoundAt
  <2> QED BY <1>1, <2>1, <2>4
<1>4. CASE ~CanAdvance(i, phase)
  BY <1>1, <1>4 DEF Advance, SoundAt
<1> QED BY <1>3, <1>4

LEMMA MaterializeSound ==
  ASSUME TypeOK, NEW i \in Intents, SoundAt(i), Materialize(i)
  PROVE  SoundAt(i)'
<1>1. /\ intent' = intent /\ pds' = pds /\ inflight' = inflight /\ Version(i)' = Version(i)
      /\ Due(i, "materialize") /\ wf[i].pc \in Begun
  BY DEF Materialize, Version, Due, Begun
<1>2. PICK as \in {"ok", "refused"} : Store(i, "materialize", as, 0)
  BY DEF Materialize
<1>3. /\ op'[i] \in Operation
      /\ Sound(i, intent[i], op'[i], wf[i], memo[i], pds[Version(i)], inflight)
  BY <1>1, AdvanceSound DEF Materialize
<1>4. /\ as \in Results \ {"none"} /\ "materialize" \in Steps
      /\ Agrees(i, intent[i], op'[i], wf[i], pds[Version(i)], inflight, "materialize",
                [as |-> as, gen |-> 0])
  BY DEF Results, Steps, Agrees
<1>5. Sound(i, intent[i], op'[i], wf'[i], memo'[i], pds[Version(i)], inflight)
  BY <1>1, <1>2, <1>3, <1>4, Values, DueSound
<1> QED BY <1>1, <1>5 DEF SoundAt

LEMMA CloseSound ==
  ASSUME TypeOK, NEW i \in Intents, SoundAt(i), Close(i) \/ Latest(i)
  PROVE  SoundAt(i)'
<1> DEFINE v == pds[Version(i)]
<1>1. /\ pds' = pds /\ inflight' = inflight /\ Version(i)' = Version(i)
      /\ wf[i].pc \in {"close", "latest"}
  BY DEF Close, Latest, Version, At, tables
<1>2. CASE Close(i)
  <2>1. wf[i].closing \in {"blocked", "failed"} /\ Complete(i, wf[i].closing)
    BY <1>2, Values DEF Close, Workflow
  <2>2. Sound(i, intent'[i], op'[i], wf[i], memo[i], v, inflight)
    BY <1>1, <2>1, Values, CompleteSound DEF SoundAt, Sending
  <2>3. intent'[i] \in Rows /\ op'[i] \in Operation
    BY <2>1, CompleteTyped DEF IntentTyped, OpTyped, Rows
  <2>4. CASE AttemptEnds(i, "ok")
    <3>1. Sound(i, intent'[i], op'[i], wf'[i], memo'[i], v, inflight)
      BY <1>1, <2>2, <2>3, <2>4, EndsSound
    <3> QED BY <1>1, <3>1 DEF SoundAt
  <2>5. CASE Goto(i, "latest") /\ memo' = memo
    <3>1. PathAt(memo[i], "latest", wf[i].attempt)
      BY <1>1, Elsewhere DEF SoundAt, Sound, Begun
    <3>2. "latest" \in Pcs \ (Sending \cup {"begin"})
      BY DEF Pcs, Between, Sending
    <3>3. Sound(i, intent'[i], op'[i], wf'[i], memo[i], v, inflight)
      BY <2>2, <2>3, <2>5, <3>1, <3>2, GotoSound
    <3> QED BY <1>1, <2>5, <3>3 DEF SoundAt
  <2> QED BY <1>2, <2>4, <2>5 DEF Close
<1>3. CASE Latest(i)
  <2>1. /\ intent' = intent /\ op' = op
        /\ \E result \in {"ok", "reconciling"} :
             AttemptEnds(i, result) /\ (result = "reconciling" => intent[i].state = "reconciling")
    BY <1>3 DEF Latest, tables
  <2>2. Sound(i, intent[i], op[i], wf'[i], memo'[i], v, inflight)
    BY <1>1, <2>1, Values, EndsSound DEF SoundAt
  <2> QED BY <1>1, <2>1, <2>2 DEF SoundAt
<1> QED BY <1>2, <1>3

\* The phase that precedes the request is recorded.
LEMMA CreatingSound ==
  ASSUME TypeOK, NEW i \in Intents, SoundAt(i), Creating(i)
  PROVE  SoundAt(i)'
<1> DEFINE w2 == [wf[i] EXCEPT !.pc = "send"]
           v == pds[Version(i)]
           o2 == op'[i]
<1>1. /\ intent' = intent /\ pds' = pds /\ inflight' = inflight /\ memo' = memo
      /\ Version(i)' = Version(i) /\ wf[i].pc = "creating" /\ wf'[i] = w2
      /\ CanAdvance(i, "creating") /\ Advance(i, "creating")
  BY DEF Creating, Version, At, Goto, TypeOK
<1>2. o2 \in Operation /\ Sound(i, intent[i], o2, wf[i], memo[i], v, inflight)
  BY <1>1, AdvanceSound DEF Begun
<1>3. w2 \in Workflow /\ w2.pc = "send" /\ w2.run = wf[i].run /\ w2.attempt = wf[i].attempt
  BY Values, Place DEF Pcs, Between
<1>4. /\ intent[i].state = "publishing" /\ o2.status = "active" /\ o2.phase = "creating"
      /\ o2.key = <<wf[i].run, wf[i].attempt>> /\ o2.gen = memo[i][wf[i].attempt]["begin"].gen
  <2>1. o2 = [op[i] EXCEPT !.phase = "creating"]
    BY <1>1 DEF Advance, TypeOK
  <2>2. o2.status = op[i].status /\ o2.phase = "creating" /\ o2.key = op[i].key /\ o2.gen = op[i].gen
    BY <2>1, Values DEF Operation
  <2> QED BY <1>1, <2>2 DEF CanAdvance, OwnsOperation, Key
<1> HIDE DEF w2, o2
<1>5. Sent(intent[i], o2, w2, memo[i])
  BY <1>3, <1>4 DEF Sent
<1>6. Sound(i, intent[i], o2, w2, memo[i], v, inflight)
  BY <1>1, <1>2, <1>3, <1>4, <1>5, Values, Requests DEF Begun, Sending
<1> QED BY <1>1, <1>6 DEF SoundAt, o2

LEMMA SendSound ==
  ASSUME TypeOK, NEW i \in Intents, SoundAt(i), Send(i) \/ RequestFails(i)
  PROVE  SoundAt(i)'
<1>1. PICK pc \in {"await", "ambiguous"} : wf' = [wf EXCEPT ![i].pc = pc]
  BY DEF Send, RequestFails, Goto
<1> DEFINE w2 == [wf[i] EXCEPT !.pc = pc]
           v == pds[Version(i)]
<1>2. /\ intent' = intent /\ op' = op /\ pds' = pds /\ memo' = memo /\ Version(i)' = Version(i)
      /\ wf[i].pc \in {"send", "await"} /\ wf'[i] = w2
      /\ wf[i].pc = "send" \/ inflight' = inflight
  BY <1>1 DEF Send, RequestFails, Version, At, tables, TypeOK
<1>3. w2 \in Workflow /\ w2.pc = pc /\ w2.run = wf[i].run /\ w2.attempt = wf[i].attempt
  BY Values, Place DEF Pcs, Between
<1> HIDE DEF w2
<1>4. Sent(intent[i], op[i], w2, memo[i])
  BY <1>2, <1>3 DEF SoundAt, Sound, Sent, Sending
<1>5. Hot(i, w2.pc, v, inflight') => Hot(i, wf[i].pc, v, inflight)
  BY <1>2, <1>3 DEF Hot
<1>6. Sound(i, intent[i], op[i], w2, memo[i], v, inflight')
  BY <1>2, <1>3, <1>4, <1>5, Values, Requests DEF SoundAt, Begun, Sending
<1> QED BY <1>2, <1>6 DEF SoundAt

\* The answer of the request, or the want of it.
LEMMA AnswerSound ==
  ASSUME TypeOK, NEW i \in Intents, SoundAt(i), Proved(i) \/ Ambiguous(i)
  PROVE  SoundAt(i)'
<1> DEFINE v == pds[Version(i)]
           a == wf[i].attempt
           w == [wf[i] EXCEPT !.pc = "create"]
<1>1. /\ pds' = pds /\ inflight' = inflight /\ Version(i)' = Version(i)
      /\ wf[i].pc \in {"await", "ambiguous"}
  BY DEF Proved, Ambiguous, Version, At
<1>2. w \in Workflow /\ w.pc = "create" /\ w.run = wf[i].run /\ w.attempt = a
  BY Values, Place DEF Pcs, Steps
<1>3. PathAt(memo[i], "create", a) /\ Fresh(memo[i], a, "create")
  BY <1>1, Elsewhere DEF SoundAt, Sound, Begun, Fresh
<1> HIDE DEF w
<1>4. Sound(i, intent[i], op[i], w, memo[i], v, inflight)
  BY <1>2, <1>3, Values, Moves DEF SoundAt, Sending
<1>5. ASSUME NEW outcome \in {"published", "ambiguous"}, Complete(i, outcome)
      PROVE  /\ intent'[i] \in Rows /\ op'[i] \in Operation
             /\ Sound(i, intent'[i], op'[i], w, memo[i], v, inflight)
  BY <1>2, <1>4, <1>5, CompleteTyped, CompleteSound DEF IntentTyped, OpTyped, Rows, Sending
<1>6. ASSUME NEW outcome \in {"published", "ambiguous"}, Complete(i, outcome),
             NEW as \in {"ok", "reconciling"}, Store(i, "create", as, 0),
             as = "reconciling" => intent'[i].state = "reconciling"
      PROVE  SoundAt(i)'
  <2>1. /\ as \in Results \ {"none"} /\ "create" \in Steps
        /\ Agrees(i, intent'[i], op'[i], w, v, inflight, "create", [as |-> as, gen |-> 0])
    BY <1>6 DEF Results, States, Active, Steps, Agrees
  <2>2. Sound(i, intent'[i], op'[i], wf'[i], memo'[i], v, inflight)
    BY <1>2, <1>3, <1>5, <1>6, <2>1, StoreSound
  <2> QED BY <1>1, <2>2 DEF SoundAt
<1>7. CASE Proved(i)
  <2>1. Complete(i, "published")
    BY <1>7 DEF Proved
  <2>2. CASE Store(i, "create", "ok", 0)
    BY <1>6, <2>1, <2>2
  <2>3. CASE ~CanComplete(i, "published") /\ Goto(i, "ambiguous") /\ memo' = memo
    <3> DEFINE w2 == [wf[i] EXCEPT !.pc = "ambiguous"]
    <3>1. intent' = intent /\ op' = op /\ wf'[i] = w2
      BY <2>1, <2>3 DEF Complete, Goto, TypeOK
    <3>2. w2 \in Workflow /\ w2.pc = "ambiguous" /\ w2.run = wf[i].run /\ w2.attempt = a
      BY Values, Place DEF Pcs, Between
    <3> HIDE DEF w2
    <3>3. Sent(intent[i], op[i], w2, memo[i])
      BY <1>1, <3>2 DEF SoundAt, Sound, Sent, Sending
    <3>4. Hot(i, w2.pc, v, inflight) => Hot(i, wf[i].pc, v, inflight)
      BY <3>2 DEF Hot
    <3>5. Sound(i, intent[i], op[i], w2, memo[i], v, inflight)
      BY <1>1, <3>2, <3>3, <3>4, Values, Requests DEF SoundAt, Begun, Sending
    <3> QED BY <1>1, <2>3, <3>1, <3>5 DEF SoundAt
  <2> QED BY <1>7, <2>2, <2>3 DEF Proved
<1>8. CASE Ambiguous(i)
  <2>1. /\ Complete(i, "ambiguous")
        /\ Store(i, "create", IF intent[i].state = "published" THEN "ok" ELSE "reconciling", 0)
    BY <1>8 DEF Ambiguous
  <2>2. intent[i].state = "reconciling" \/ (OwnsOperation(i) /\ op[i].phase = "creating")
    BY <1>1 DEF SoundAt, Sound, Sent, Sending, Owned, OwnsOperation, Key
  <2>3. CASE intent[i].state = "reconciling"
    <3>1. intent' = intent
      BY <2>1, <2>3 DEF Complete, CanComplete, OwnsOperation
    <3> QED BY <1>6, <2>1, <2>3, <3>1
  <2>4. CASE OwnsOperation(i) /\ op[i].phase = "creating"
    <3>1. CanComplete(i, "ambiguous")
      BY <2>4 DEF CanComplete, PhaseAllows
    <3>2. intent'[i].state = "reconciling" /\ intent[i].state # "published"
      BY <2>1, <2>4, <3>1 DEF Complete, StateForOutcome, Moved, TypeOK, OwnsOperation
    <3> QED BY <1>6, <2>1, <3>2
  <2> QED BY <2>2, <2>3, <2>4
<1> QED BY <1>7, <1>8

\* An intent that has a running Workflow was submitted.
Submitted == \A i \in Intents : wf[i].pc # "none" => intent[i].state # "none"

LEMMA RunSound ==
  ASSUME TypeOK, Submitted, NEW i \in Intents, SoundAt(i), ~LateWrites, Run(i)
  PROVE  SoundAt(i)'
<1>1. CASE Replay(i) \/ Load(i) \/ Settle(i) \/ Look(i) \/ Begin(i) \/ Materialize(i) \/ Creating(i)
  BY <1>1, ReplaySound, LoadSound, SettleSound, LookSound, BeginSound, MaterializeSound,
     CreatingSound
<1>2. CASE GiveUp(i) \/ UploadFails(i) \/ Evaluate(i) \/ Renew(i) \/ Permit(i)
  BY <1>2, WalkSound
<1>3. CASE EvaluateRefused(i) \/ RenewRefused(i) \/ PermitRefused(i) \/ CreatingRefused(i)
  BY <1>3, RefusedSound
<1>4. CASE Policy(i) \/ Coordinate(i)
           \/ \E s \in {"finalRelease", "release", "reconcileRelease"} : ReleaseCoordination(i, s)
  BY <1>4, PlainSound
<1>5. CASE FinalVerification(i) \/ Reconcile(i) \/ ReconciliationState(i)
  <2>1. intent[i].state # "none"
    BY <1>5 DEF Submitted, FinalVerification, Reconcile, ReconciliationState, Due
  <2> QED BY <1>5, <2>1, ReadSound
<1>6. CASE MarkVerified(i) \/ MarkReady(i) \/ Refuse(i)
  BY <1>6, MarkSound
<1>7. CASE Publish(i) \/ Abandon(i)
  BY <1>7, PublishSound
<1>8. CASE Close(i) \/ Latest(i)
  BY <1>8, CloseSound
<1>9. CASE Send(i) \/ RequestFails(i)
  BY <1>9, SendSound
<1>10. CASE Proved(i) \/ Ambiguous(i)
  BY <1>10, AnswerSound
<1> QED BY <1>1, <1>2, <1>3, <1>4, <1>5, <1>6, <1>7, <1>8, <1>9, <1>10 DEF Run
------------------------------------------------------------------------------
(* The steps of the others                                                 *)

\* A step leaves the intent, its operation and its Workflow alone.
Same(j) ==
  intent'[j] = intent[j] /\ op'[j] = op[j] /\ wf'[j] = wf[j] /\ memo'[j] = memo[j]

LEMMA StoreAside ==
  ASSUME NEW i \in Intents, NEW s, NEW as, NEW gen, TypeOK, Store(i, s, as, gen),
         NEW j \in Intents \ {i}
  PROVE  wf'[j] = wf[j] /\ memo'[j] = memo[j]
BY DEF Store, Proceed, FromTheTop, TypeOK

LEMMA GotoAside ==
  ASSUME NEW i \in Intents, TypeOK, NEW j \in Intents \ {i}
  PROVE  /\ \A pc : Goto(i, pc) => wf'[j] = wf[j]
         /\ \A pc, gen : Enter(i, pc, gen) => wf'[j] = wf[j]
         /\ \A outcome : Closing(i, outcome) => wf'[j] = wf[j]
         /\ \A from, gen, to : Transition(i, from, gen, to) => intent'[j] = intent[j]
         /\ \A outcome : Complete(i, outcome) => intent'[j] = intent[j] /\ op'[j] = op[j]
         /\ \A phase : Advance(i, phase) => op'[j] = op[j]
         /\ FromTheTop(i) => wf'[j] = wf[j]
BY DEF Goto, Enter, Closing, Transition, Complete, Advance, FromTheTop, TypeOK

\* The steps of a Workflow leave the other intents alone.
LEMMA RunAside ==
  ASSUME TypeOK, NEW i \in Intents, Run(i), NEW j \in Intents \ {i}
  PROVE  Same(j) /\ (j \in inflight' <=> j \in inflight)
<1> USE DEF Same
<1>1. CASE Replay(i) \/ GiveUp(i) \/ UploadFails(i) \/ Evaluate(i) \/ Renew(i) \/ Permit(i)
           \/ EvaluateRefused(i) \/ RenewRefused(i) \/ PermitRefused(i) \/ CreatingRefused(i)
           \/ Send(i) \/ RequestFails(i) \/ Creating(i)
  BY <1>1, GotoAside
  DEF Replay, Proceed, GiveUp, UploadFails, Evaluate, Renew, Permit, EvaluateRefused, RenewRefused,
      PermitRefused, CreatingRefused, Refused, Send, RequestFails, Creating, tables, TypeOK
<1>2. CASE Load(i) \/ Policy(i) \/ Coordinate(i) \/ FinalVerification(i)
           \/ \E s \in {"finalRelease", "release", "reconcileRelease"} : ReleaseCoordination(i, s)
           \/ Materialize(i) \/ Reconcile(i) \/ ReconciliationState(i)
  BY <1>2, GotoAside, StoreAside
  DEF Load, Policy, Coordinate, FinalVerification, ReleaseCoordination, Materialize, Reconcile,
      ReconciliationState, tables
<1>3. CASE Begin(i)
  BY <1>3, StoreAside DEF Begin, TypeOK
<1>4. CASE MarkVerified(i) \/ MarkReady(i) \/ Refuse(i) \/ Settle(i)
  BY <1>4, GotoAside, StoreAside DEF MarkVerified, MarkReady, Refuse, Settle, Mark
<1>5. CASE Look(i) \/ Publish(i) \/ Abandon(i)
  BY <1>5, GotoAside DEF Look, Publish, Abandon
<1>6. CASE Close(i) \/ Latest(i) \/ Proved(i) \/ Ambiguous(i)
  BY <1>6, GotoAside, StoreAside
  DEF Close, Latest, Proved, Ambiguous, AttemptEnds, tables
<1> QED BY <1>1, <1>2, <1>3, <1>4, <1>5, <1>6 DEF Run

\* What the others may do to the PDS and to the requests in flight.
Around(j) ==
  /\ Version(j)' = Version(j)
  /\ pds[Version(j)] # None => pds'[Version(j)] = pds[Version(j)]
  /\ pds'[Version(j)] = j => pds[Version(j)] = j \/ j \in inflight
  /\ j \in inflight' => j \in inflight

LEMMA SameSound ==
  ASSUME TypeOK, NEW j \in Intents, SoundAt(j), Same(j), Around(j)
  PROVE  SoundAt(j)'
<1>1. Hot(j, wf[j].pc, pds'[Version(j)], inflight') => Hot(j, wf[j].pc, pds[Version(j)], inflight)
  BY DEF Hot, Around
<1>2. Sound(j, intent[j], op[j], wf[j], memo[j], pds'[Version(j)], inflight')
  BY <1>1, Values, Lands DEF SoundAt, Around
<1> QED BY <1>2 DEF SoundAt, Same, Around

\* What a client or the alarm does to a waiting intent.
LEMMA WaitingSound ==
  ASSUME TypeOK, NEW i \in Intents, SoundAt(i),
         Submit(i) \/ Start(i) \/ Cancel(i) \/ AlarmExpires(i) \/ DeadlinePasses(i)
  PROVE  SoundAt(i)'
<1> DEFINE v == pds[Version(i)]
           row2 == intent'[i]
<1>1. /\ op' = op /\ wf' = wf /\ memo' = memo /\ pds' = pds /\ inflight' = inflight
      /\ Version(i)' = Version(i)
  BY DEF Submit, Start, Cancel, AlarmExpires, DeadlinePasses, Version
<1>2. CASE Submit(i)
  <2>1. intent[i] = NoRow /\ row2 = [state |-> "received", gen |-> 1, expired |-> FALSE]
    BY <1>2 DEF Submit, TypeOK
  <2>2. /\ row2 \in Rows /\ row2.gen > intent[i].gen /\ row2.state = "received"
        /\ intent[i].state = "none"
    BY <2>1 DEF Rows, Row, NoRow, States, Waiting
  <2>3. op[i].status # "active" /\ ~Hot(i, wf[i].pc, v, inflight)
    BY <2>2 DEF SoundAt, Sound, Owned, Decided
  <2>4. wf[i].pc \notin Sending
    BY <2>2, <2>3 DEF SoundAt, Sound, Sent
  <2> HIDE DEF row2
  <2>5. Decided(i, row2, op[i], v, Hot(i, wf[i].pc, v, inflight))
    BY <2>2, <2>3 DEF Decided
  <2>6. Sound(i, row2, op[i], wf[i], memo[i], v, inflight)
    BY <2>2, <2>3, <2>4, <2>5, Values, Transits DEF SoundAt
  <2> QED BY <1>1, <2>6 DEF SoundAt, row2
<1>3. CASE Start(i) \/ Cancel(i) \/ AlarmExpires(i)
  <2>1. \E from \in Waiting : \E to : Transition(i, from, intent[i].gen, to) /\ to # "conflict"
    BY <1>3 DEF Start, Cancel, AlarmExpires, Waiting
  <2>2. Sound(i, row2, op[i], wf[i], memo[i], v, inflight)
    BY <2>1, TransitionSound DEF Waiting
  <2> QED BY <1>1, <2>2 DEF SoundAt
<1>4. CASE DeadlinePasses(i)
  <2>1. row2.state = intent[i].state /\ row2.gen = intent[i].gen
    <3>1. intent[i] \in Row /\ row2 = [intent[i] EXCEPT !.expired = TRUE]
      BY <1>4 DEF DeadlinePasses, TypeOK
    <3> QED BY <3>1 DEF Row
  <2> HIDE DEF row2
  <2>2. Sound(i, row2, op[i], wf[i], memo[i], v, inflight)
    BY <2>1 DEF SoundAt, Sound, Unsettled, AbsentStays, Owned, Sent, Decided
  <2> QED BY <1>1, <2>2 DEF SoundAt, row2
<1> QED BY <1>2, <1>3, <1>4

\* A Workflow is created, crashes or is restarted.
LEMMA InstanceSound ==
  ASSUME TypeOK, NEW i \in Intents, SoundAt(i), CreateInstance(i) \/ Crash(i) \/ Restart(i)
  PROVE  SoundAt(i)'
<1> DEFINE v == pds[Version(i)]
           w2 == wf'[i]
<1>1. /\ intent' = intent /\ op' = op /\ pds' = pds /\ inflight' = inflight
      /\ Version(i)' = Version(i)
  BY DEF CreateInstance, Crash, Restart, Version, tables
<1>2. w2.pc = "load" /\ w2.attempt = 0
  <2>1. \E n : w2 = [NoWf EXCEPT !.pc = "load", !.run = n]
    <3>1. CASE Crash(i)
      <4>1. w2 = [NoWf EXCEPT !.pc = "load", !.run = wf[i].run]
        BY <3>1 DEF Crash, FromTheTop, TypeOK
      <4> QED BY <4>1
    <3>2. CASE Restart(i)
      <4>1. w2 = [NoWf EXCEPT !.pc = "load", !.run = wf[i].run + 1]
        BY <3>2 DEF Restart, TypeOK
      <4> QED BY <4>1
    <3>3. CASE CreateInstance(i)
      <4>1. w2 = [NoWf EXCEPT !.pc = "load"]
        BY <3>3 DEF CreateInstance, TypeOK
      <4>2. w2 = [NoWf EXCEPT !.pc = "load", !.run = 0]
        BY <4>1 DEF NoWf
      <4> QED BY <4>2
    <3> QED BY <3>1, <3>2, <3>3
  <2> QED BY <2>1 DEF NoWf
<1>3. w2 \in Workflow
  <2>1. Next
    BY DEF Next
  <2>2. TypeOK'
    BY <2>1, NextTyped
  <2> QED BY <2>2 DEF TypeOK
<1>4. CASE CreateInstance(i) \/ Crash(i)
  <2>1. op[i].status = "active" => w2.run = wf[i].run
    <3>1. CASE CreateInstance(i)
      BY <3>1 DEF CreateInstance, SoundAt, Sound, Owned
    <3>2. CASE Crash(i)
      BY <3>2 DEF Crash, FromTheTop, NoWf, TypeOK
    <3> QED BY <1>4, <3>1, <3>2
  <2>2. memo' = memo
    BY <1>4 DEF CreateInstance, Crash
  <2> HIDE DEF w2
  <2>3. Sound(i, intent[i], op[i], w2, memo[i], v, inflight)
    BY <1>2, <1>3, <2>1, Values, Tops DEF SoundAt
  <2> QED BY <1>1, <2>2, <2>3 DEF SoundAt, w2
<1>5. CASE Restart(i)
  <2>1. memo'[i] = NoMemo /\ intent[i].state \in {"ready", "reconciling"}
    BY <1>5 DEF Restart, TypeOK
  <2>2. op[i].status # "active"
    BY <2>1 DEF SoundAt, Sound, Owned
  <2> HIDE DEF w2
  <2>3. Decided(i, intent[i], op[i], v, Hot(i, w2.pc, v, inflight))
    BY <1>2 DEF SoundAt, Sound, Decided, Hot
  <2>4. Sound(i, intent[i], op[i], w2, NoMemo, v, inflight)
    BY <1>2, <1>3, <2>2, <2>3, Values, Starts
  <2> QED BY <1>1, <2>1, <2>4 DEF SoundAt, w2
<1> QED BY <1>4, <1>5

\* The alarm moves what was abandoned and may have been sent to reconciling,
\* and makes the rest ready again.
LEMMA AlarmSound ==
  ASSUME TypeOK, NEW i \in Intents, SoundAt(i), AlarmRecovers
  PROVE  SoundAt(i)'
<1> DEFINE v == pds[Version(i)]
           to == IF op[i].phase = "creating" THEN "reconciling" ELSE "ready"
           row2 == Moved(intent[i], to)
           o2 == [op[i] EXCEPT !.status = "completed"]
<1>1. /\ wf' = wf /\ memo' = memo /\ pds' = pds /\ inflight' = inflight /\ Version(i)' = Version(i)
      /\ op'[i] = (IF i \in Abandoned THEN o2 ELSE op[i])
      /\ intent'[i] = (IF i \in Abandoned /\ intent[i].state = "publishing" THEN row2
                       ELSE intent[i])
  BY DEF AlarmRecovers, Version
<1>2. CASE i \in Abandoned
  <2>1. op[i].status = "active" /\ intent[i].state = "publishing"
    BY <1>2 DEF Abandoned, SoundAt, Sound, Owned
  <2>2. /\ to \in {"reconciling", "ready"}
        /\ to = "reconciling" <=> op[i].phase = "creating"
    OBVIOUS
  <2> HIDE DEF to
  <2>3. row2 \in Rows /\ row2.gen > intent[i].gen /\ row2.state = to
    BY <2>1, <2>2, Values DEF Rows, Row, NoRow, Moved, States, Waiting, Active
  <2>4. o2 \in Operation /\ o2.status = "completed"
    BY Values DEF Operation
  <2>5. Decided(i, row2, o2, v, Hot(i, wf[i].pc, v, inflight))
    BY <2>1, <2>2, <2>3 DEF SoundAt, Sound, Decided, Waiting, Releasing
  <2>6. wf[i].pc \in Sending => to = "reconciling"
    BY <2>1, <2>2 DEF SoundAt, Sound, Sent
  <2> HIDE DEF row2, o2
  <2>7. Sound(i, row2, o2, wf[i], memo[i], v, inflight)
    BY <2>1, <2>2, <2>3, <2>4, <2>5, <2>6, Values, Transits DEF SoundAt
  <2> QED BY <1>1, <1>2, <2>1, <2>7 DEF SoundAt
<1>3. CASE i \notin Abandoned
  BY <1>1, <1>3 DEF SoundAt
<1> QED BY <1>2, <1>3

LEMMA MovesOn ==
  ASSUME TypeOK, NEW i \in Intents, NEW j \in Intents, intent[j].state # "none"
  PROVE  /\ \A from \in States : \A gen, to :
              Transition(i, from, gen, to) => intent'[j].state # "none"
         /\ \A outcome \in {"published", "ambiguous", "blocked", "failed"} :
              Complete(i, outcome) => intent'[j].state # "none"
<1>1. ASSUME NEW from \in States, NEW gen, NEW to, Transition(i, from, gen, to)
      PROVE  intent'[j].state # "none"
  <2>1. CanMove(intent[i], from, gen, to) => to # "none"
    BY AllowedTyped DEF CanMove, States, Waiting, Active, Releasing
  <2> QED BY <1>1, <2>1 DEF Transition, Moved, TypeOK
<1>2. ASSUME NEW outcome \in {"published", "ambiguous", "blocked", "failed"}, Complete(i, outcome)
      PROVE  intent'[j].state # "none"
  <2>1. StateForOutcome(outcome) # "none"
    BY DEF StateForOutcome
  <2> QED BY <1>2, <2>1 DEF Complete, Moved, TypeOK
<1> QED BY <1>1, <1>2

LEMMA NextSubmitted == TypeOK /\ Submitted /\ [Next]_vars => Submitted'
<1> SUFFICES ASSUME TypeOK, Submitted, [Next]_vars
             PROVE  Submitted'
  OBVIOUS
<1>1. ASSUME \A j \in Intents : intent[j].state # "none" => intent'[j].state # "none",
             \A j \in Intents : wf'[j].pc # "none" => wf[j].pc # "none" \/ intent[j].state # "none"
      PROVE  Submitted'
  BY <1>1 DEF Submitted
<1>2. ASSUME UNCHANGED intent,
             \A j \in Intents : wf'[j].pc # "none" => wf[j].pc # "none" \/ intent[j].state # "none"
      PROVE  Submitted'
  BY <1>1, <1>2
<1>3. ASSUME NEW i \in Intents, Run(i)
      PROVE  Submitted'
  <2>1. wf[i].pc # "none"
    BY <1>3
    DEF Run, Replay, GiveUp, Load, Policy, MarkVerified, MarkReady, Coordinate, FinalVerification,
        Refuse, ReleaseCoordination, Look, Publish, Begin, Abandon, Materialize, UploadFails, Close,
        Latest, Evaluate, EvaluateRefused, Renew, RenewRefused, Permit, PermitRefused, Creating,
        CreatingRefused, Send, Proved, RequestFails, Ambiguous, Reconcile, ReconciliationState,
        Settle, Due, At, Steps
  <2>2. \A j \in Intents \ {i} : wf'[j] = wf[j]
    BY <1>3, RunAside DEF Same
  <2>3. ASSUME NEW j \in Intents, intent[j].state # "none"
        PROVE  intent'[j].state # "none"
    <3>1. CASE UNCHANGED intent
      BY <2>3, <3>1
    <3>2. CASE \/ MarkVerified(i) \/ MarkReady(i) \/ Refuse(i) \/ Look(i) \/ Publish(i) \/ Abandon(i)
               \/ Settle(i)
      BY <2>3, <3>1, <3>2, MovingRun, MovesOn
    <3>3. CASE Close(i) \/ Proved(i) \/ Ambiguous(i)
      BY <2>3, <3>3, CompletingRun, MovesOn
    <3> QED BY <1>3, <3>1, <3>2, <3>3, QuietRun DEF Run
  <2>4. ASSUME NEW j \in Intents, wf'[j].pc # "none"
        PROVE  wf[j].pc # "none" \/ intent[j].state # "none"
    BY <2>1, <2>2, <2>4
  <2> QED BY <1>1, <2>3, <2>4
<1>4. ASSUME NEW i \in Intents, Submit(i) \/ Start(i) \/ Cancel(i) \/ AlarmExpires(i)
                                \/ DeadlinePasses(i)
      PROVE  Submitted'
  <2>1. wf' = wf
    BY <1>4 DEF Submit, Start, Cancel, AlarmExpires, DeadlinePasses
  <2>2. ASSUME NEW j \in Intents, intent[j].state # "none"
        PROVE  intent'[j].state # "none"
    <3>1. CASE Submit(i)
      BY <2>2, <3>1 DEF Submit, TypeOK
    <3>2. CASE Start(i) \/ Cancel(i) \/ AlarmExpires(i)
      BY <2>2, <3>2, MovesOn DEF Start, Cancel, AlarmExpires, States, Waiting
    <3>3. CASE DeadlinePasses(i)
      BY <2>2, <3>3 DEF DeadlinePasses, TypeOK, Row
    <3> QED BY <1>4, <3>1, <3>2, <3>3
  <2> QED BY <1>1, <2>1, <2>2
<1>5. CASE AlarmRecovers
  <2>1. wf' = wf /\ \A j \in Intents : intent[j].state # "none" => intent'[j].state # "none"
    BY <1>5 DEF AlarmRecovers, Moved
  <2> QED BY <1>1, <2>1
<1>6. ASSUME NEW i \in Intents, CreateInstance(i) \/ Crash(i) \/ Restart(i)
      PROVE  Submitted'
  <2>1. intent' = intent /\ (wf[i].pc # "none" \/ intent[i].state # "none")
        /\ \A j \in Intents \ {i} : wf'[j] = wf[j]
    BY <1>6, GotoAside DEF CreateInstance, Crash, Restart, tables, TypeOK
  <2>2. ASSUME NEW j \in Intents, wf'[j].pc # "none"
        PROVE  wf[j].pc # "none" \/ intent[j].state # "none"
    BY <2>1, <2>2
  <2> QED BY <1>2, <2>1, <2>2
<1>7. ASSUME UNCHANGED <<intent, wf>>
      PROVE  Submitted'
  BY <1>2, <1>7
<1>8. ASSUME NEW i \in Intents, Settled(i) \/ OperationRunsOut(i)
      PROVE  Submitted'
  BY <1>7, <1>8 DEF Settled, Land, Drop, OperationRunsOut, tables
<1>9. CASE CoordLeaseRunsOut \/ (\E v \in Versions : PublisherWrites(v)) \/ UNCHANGED vars
  BY <1>7, <1>9 DEF CoordLeaseRunsOut, PublisherWrites, vars, tables
<1> QED BY <1>3, <1>4, <1>5, <1>6, <1>8, <1>9 DEF Next, Alarm, Deadline

LEMMA NextSound ==
  TypeOK /\ Submitted /\ ~LateWrites /\ AllSound /\ [Next]_vars => AllSound'
<1> SUFFICES ASSUME TypeOK, Submitted, ~LateWrites, AllSound, [Next]_vars, NEW j \in Intents
             PROVE  SoundAt(j)'
  BY DEF AllSound
<1>0. SoundAt(j) /\ Version(j) \in Versions
  BY DEF AllSound, TypeOK, Version
<1>1. ASSUME Same(j), pds' = pds, release' = release, j \in inflight' => j \in inflight
      PROVE  SoundAt(j)'
  BY <1>0, <1>1, SameSound DEF Around, Version
<1>2. ASSUME NEW i \in Intents, Run(i)
      PROVE  SoundAt(j)'
  <2>1. CASE j = i
    BY <1>0, <1>2, <2>1, RunSound
  <2>2. CASE j # i
    <3>1. Same(j) /\ (j \in inflight' <=> j \in inflight)
      BY <1>2, <2>2, RunAside
    <3>2. pds' = pds /\ Version(j)' = Version(j)
      BY <1>2, RunKeepsRecords DEF VersionsKept
    <3> QED BY <1>0, <3>1, <3>2, SameSound DEF Around
  <2> QED BY <2>1, <2>2
<1>3. ASSUME NEW i \in Intents, Submit(i) \/ Start(i) \/ Cancel(i) \/ AlarmExpires(i)
                                \/ DeadlinePasses(i)
      PROVE  SoundAt(j)'
  <2>1. CASE j = i
    BY <1>0, <1>3, <2>1, WaitingSound
  <2>2. CASE j # i
    BY <1>1, <1>3, <2>2, GotoAside
    DEF Submit, Start, Cancel, AlarmExpires, DeadlinePasses, Same, TypeOK
  <2> QED BY <2>1, <2>2
<1>4. ASSUME NEW i \in Intents, CreateInstance(i) \/ Crash(i) \/ Restart(i)
      PROVE  SoundAt(j)'
  <2>1. CASE j = i
    BY <1>0, <1>4, <2>1, InstanceSound
  <2>2. CASE j # i
    BY <1>1, <1>4, <2>2, GotoAside DEF CreateInstance, Crash, Restart, Same, TypeOK, tables
  <2> QED BY <2>1, <2>2
<1>5. ASSUME NEW i \in Intents, Land(i) \/ Drop(i)
      PROVE  SoundAt(j)'
  <2>1. Same(j) /\ Version(j)' = Version(j)
    BY <1>5 DEF Land, Drop, Same, Version, tables
  <2>2. /\ pds[Version(j)] # None => pds'[Version(j)] = pds[Version(j)]
        /\ pds'[Version(j)] = j => pds[Version(j)] = j \/ j \in inflight
        /\ j \in inflight' => j \in inflight
    BY <1>0, <1>5 DEF Land, Drop, TypeOK
  <2> QED BY <1>0, <2>1, <2>2, SameSound DEF Around
<1>6. CASE AlarmRecovers
  BY <1>0, <1>6, AlarmSound
<1>7. ASSUME NEW i \in Intents, OperationRunsOut(i)
      PROVE  SoundAt(j)'
  <2> DEFINE o2 == [op[i] EXCEPT !.live = FALSE]
  <2>1. CASE j = i
    <3>1. op'[i] = o2
      BY <1>7 DEF OperationRunsOut, TypeOK
    <3>2. /\ o2 \in Operation /\ o2.status = op[i].status /\ o2.key = op[i].key
          /\ o2.gen = op[i].gen /\ o2.phase = op[i].phase
      BY Values DEF Operation
    <3> HIDE DEF o2
    <3>3. Sound(i, intent[i], o2, wf[i], memo[i], pds[Version(i)], inflight)
      BY <1>0, <2>1, <3>2, Values, Advances DEF SoundAt
    <3> QED BY <1>7, <2>1, <3>1, <3>3 DEF OperationRunsOut, SoundAt, Version
  <2>2. CASE j # i
    BY <1>1, <1>7, <2>2 DEF OperationRunsOut, Same, TypeOK
  <2> QED BY <2>1, <2>2
<1>8. ASSUME NEW v \in Versions, PublisherWrites(v)
      PROVE  SoundAt(j)'
  <2>1. Same(j) /\ Version(j)' = Version(j)
    BY <1>8 DEF PublisherWrites, Same, Version, tables
  <2>2. /\ pds[Version(j)] # None => pds'[Version(j)] = pds[Version(j)]
        /\ pds'[Version(j)] = j => pds[Version(j)] = j
        /\ inflight' = inflight
    BY <1>0, <1>8, PublicationAssumption DEF PublisherWrites, TypeOK
  <2> QED BY <1>0, <2>1, <2>2, SameSound DEF Around
<1>9. CASE CoordLeaseRunsOut \/ UNCHANGED vars
  BY <1>1, <1>9 DEF CoordLeaseRunsOut, vars, tables, Same
<1> QED BY <1>2, <1>3, <1>4, <1>5, <1>6, <1>7, <1>8, <1>9 DEF Next, Alarm, Deadline, Settled

LEMMA InitSound == Init => Submitted /\ AllSound
<1> SUFFICES ASSUME Init PROVE Submitted /\ AllSound
  OBVIOUS
<1>1. Submitted
  BY DEF Init, Submitted, NoWf
<1>2. ASSUME NEW i \in Intents
      PROVE  SoundAt(i)
  <2>1. /\ intent[i] = NoRow /\ op[i] = NoOp /\ wf[i] = NoWf /\ memo[i] = NoMemo
        /\ pds[Version(i)] = None /\ inflight = {}
    BY DEF Init, Version
  <2>2. /\ NoRow.state = "none" /\ NoOp.status = "none" /\ NoWf.pc = "none" /\ NoWf.attempt = 0
    BY DEF NoRow, NoOp, NoWf
  <2>3. NoRow \in Rows /\ NoOp \in Operation /\ NoWf \in Workflow
    BY InitTyped, Values, <2>1
  <2> HIDE DEF NoRow, NoOp, NoWf
  <2>4. Decided(i, NoRow, NoOp, None, Hot(i, NoWf.pc, None, {}))
    BY <2>2, PublicationAssumption DEF Decided, Hot
  <2>5. Sound(i, NoRow, NoOp, NoWf, NoMemo, None, {})
    BY <2>2, <2>3, <2>4, Starts
  <2> QED BY <2>1, <2>5 DEF SoundAt
<1> QED BY <1>1, <1>2 DEF AllSound

LEMMA SpecSound ==
  ASSUME ~LateWrites
  PROVE  Spec => [](TypeOK /\ Submitted /\ AllSound)
<1>1. Init => TypeOK /\ Submitted /\ AllSound
  BY InitTyped, InitSound
<1>2. TypeOK /\ Submitted /\ AllSound /\ [Next]_vars
      => TypeOK' /\ Submitted' /\ AllSound'
  BY NextTyped, NextSubmitted, NextSound
<1> QED BY <1>1, <1>2, PTL DEF Spec

\* When the PDS answers in time, an intent that was refused, cancelled or has
\* failed is not released and no request of it can still release it, however
\* often its Workflow ran and whatever it lost.
THEOREM RefusedNotReleased ==
  ASSUME ~LateWrites
  PROVE  Spec => []RefusedIsNotReleased
<1>1. AllSound => RefusedIsNotReleased
  BY DEF AllSound, SoundAt, Sound, Decided, Hot, RefusedIsNotReleased
<1> QED BY <1>1, SpecSound, PTL

\* When the PDS answers in time, an intent that ends in conflict has a record
\* of another in its place.
THEOREM ConflictsForeign ==
  ASSUME ~LateWrites
  PROVE  Spec => []ConflictIsForeign
<1>1. AllSound => ConflictIsForeign
  BY DEF AllSound, SoundAt, Sound, Decided, ConflictIsForeign
<1> QED BY <1>1, SpecSound, PTL
------------------------------------------------------------------------------
(* ReleasePromise is implemented: the outcome of an intent is decided once, *)
(* by a step that leaves the repository alone, a request releases only an   *)
(* intent that is still open, and every other step stutters.                *)

\* An outcome is final: nothing leads out of the states that have one.
LEMMA FinalStays ==
  ASSUME TypeOK, NEW i \in Intents, Outcome(i) # "open"
  PROVE  /\ \A from \in States : \A gen, to :
              Transition(i, from, gen, to) => intent'[i] = intent[i]
         /\ \A outcome : Complete(i, outcome) => intent'[i] = intent[i]
<1>1. intent[i].state \in Releasing \cup {"published"}
  BY DEF Outcome, Releasing
<1>2. intent[i].state # "publishing"
  BY <1>1 DEF Releasing
<1>3. \A from \in States : from \in Releasing \cup {"published"} => Allowed[from] = {}
  BY DEF Allowed, Releasing
<1>4. \A from \in States : \A gen, to : ~CanMove(intent[i], from, gen, to)
  BY <1>1, <1>3 DEF CanMove
<1> QED BY <1>2, <1>4 DEF Transition, Complete, CanComplete, OwnsOperation

\* A step that moves one intent decides it, if it has an outcome then.
LEMMA Decides ==
  ASSUME TypeOK, NEW i \in Intents, pds' = pds, VersionsKept,
         \A j \in Intents \ {i} : intent'[j].state = intent[j].state,
         Outcome(i) # "open" => intent'[i].state = intent[i].state,
         PublishedIsProved', RefusedIsNotReleased', ConflictIsForeign'
  PROVE  [Promise!Next]_Promise!vars
<1> DEFINE version == [j \in Intents |-> Version(j)]
           outcome == [j \in Intents |-> Outcome(j)]
<1>1. version' = version
  BY DEF VersionsKept
<1>2. \A j \in Intents \ {i} : Outcome(j)' = Outcome(j)
  BY DEF Outcome
<1>3. CASE Outcome(i)' = Outcome(i)
  <2>1. outcome' = outcome
    BY <1>2, <1>3
  <2> QED BY <1>1, <2>1 DEF Promise!vars
<1>4. CASE Outcome(i)' # Outcome(i)
  <2>1. Outcome(i) = "open"
    BY <1>4 DEF Outcome
  <2>2. outcome[i] = "open" /\ outcome' = [outcome EXCEPT ![i] = Outcome(i)']
    BY <1>2, <2>1
  <2>3. version[i] = Version(i) /\ Version(i)' = Version(i)
    BY DEF VersionsKept
  <2>4. CASE Outcome(i)' = "published"
    <3>1. pds[Version(i)] = i
      BY <2>3, <2>4, PublicationAssumption DEF PublishedIsProved, Outcome, Releasing
    <3>2. Promise!Publish(i)
      BY <1>1, <2>2, <2>3, <2>4, <3>1 DEF Promise!Publish, Promise!Decide
    <3> QED BY <3>2 DEF Promise!Next
  <2>5. CASE Outcome(i)' = "conflict"
    <3>1. pds[Version(i)] \notin {None, i}
      BY <2>3, <2>5 DEF ConflictIsForeign, Outcome, Releasing
    <3>2. Promise!Conflict(i)
      BY <1>1, <2>2, <2>3, <2>5, <3>1 DEF Promise!Conflict, Promise!Decide
    <3> QED BY <3>2 DEF Promise!Next
  <2>6. CASE Outcome(i)' = "refused"
    <3>1. pds[Version(i)] # i
      BY <2>3, <2>6 DEF RefusedIsNotReleased, Outcome, Releasing
    <3>2. Promise!Refuse(i)
      BY <1>1, <2>2, <2>3, <2>6, <3>1 DEF Promise!Refuse, Promise!Decide
    <3> QED BY <3>2 DEF Promise!Next
  <2> QED BY <1>4, <2>1, <2>4, <2>5, <2>6 DEF Outcome
<1> QED BY <1>3, <1>4

LEMMA PromiseInit == Init => Promise!Init
<1> SUFFICES ASSUME Init PROVE Promise!Init
  OBVIOUS
<1>1. \A i \in Intents : Outcome(i) = "open"
  BY DEF Init, Outcome, NoRow, Releasing
<1>2. \A i \in Intents : Version(i) \in Versions
  BY DEF Init, Version
<1> QED BY <1>1, <1>2 DEF Init, Promise!Init

\* A request that the PDS carries out is that of an open intent, or finds a
\* record in its place.
LEMMA PromiseLand ==
  ASSUME TypeOK, NEW i \in Intents, Land(i), PublishedIsProved, RefusedIsNotReleased,
         ConflictIsForeign
  PROVE  [Promise!Next]_Promise!vars
<1> DEFINE version == [j \in Intents |-> Version(j)]
           outcome == [j \in Intents |-> Outcome(j)]
<1>1. version' = version /\ outcome' = outcome
  BY DEF Land, tables, Version, Outcome
<1>2. CASE pds[Version(i)] = None
  <2>1. outcome[i] = "open"
    BY <1>2, PublicationAssumption
    DEF Land, PublishedIsProved, RefusedIsNotReleased, ConflictIsForeign, Outcome
  <2>2. version[i] = Version(i) /\ pds' = [pds EXCEPT ![Version(i)] = i]
    BY <1>2 DEF Land
  <2>3. Promise!Release(i)
    BY <1>1, <1>2, <2>1, <2>2 DEF Promise!Release, Promise!Write
  <2> QED BY <2>3 DEF Promise!Next
<1>3. CASE pds[Version(i)] # None
  BY <1>1, <1>3 DEF Land, Promise!vars
<1> QED BY <1>2, <1>3

LEMMA PromiseNext ==
  ASSUME TypeOK, [Next]_vars, PublishedIsProved, RefusedIsNotReleased, ConflictIsForeign,
         PublishedIsProved', RefusedIsNotReleased', ConflictIsForeign', VersionsKept
  PROVE  [Promise!Next]_Promise!vars
<1>0. States # {} /\ {"received"} \cup Waiting \subseteq States
  BY DEF States, Waiting
<1>1. ASSUME UNCHANGED <<intent, pds>>
      PROVE  [Promise!Next]_Promise!vars
  <2>1. \A j \in Intents : Outcome(j)' = Outcome(j)
    BY <1>1 DEF Outcome
  <2> QED BY <1>1, <2>1 DEF Promise!vars, VersionsKept
<1>2. ASSUME NEW i \in Intents, NEW from \in States, NEW gen, NEW to,
             Transition(i, from, gen, to), pds' = pds
      PROVE  [Promise!Next]_Promise!vars
  BY <1>2, FinalStays, Decides DEF Transition, TypeOK
<1>3. ASSUME NEW i \in Intents, Run(i)
      PROVE  [Promise!Next]_Promise!vars
  <2>0. pds' = pds
    BY <1>3, RunKeepsRecords
  <2>1. CASE UNCHANGED intent
    BY <1>1, <2>0, <2>1
  <2>2. CASE \/ MarkVerified(i) \/ MarkReady(i) \/ Refuse(i) \/ Look(i) \/ Publish(i) \/ Abandon(i)
             \/ Settle(i)
    BY <1>2, <2>0, <2>1, <2>2, MovingRun
  <2>3. CASE Close(i) \/ Proved(i) \/ Ambiguous(i)
    <3>1. \E outcome : Complete(i, outcome)
      BY <2>3, CompletingRun
    <3> QED BY <2>0, <3>1, FinalStays, Decides DEF Complete, TypeOK
  <2> QED BY <1>3, <2>1, <2>2, <2>3, QuietRun DEF Run
<1>4. ASSUME NEW i \in Intents, Start(i) \/ Cancel(i) \/ AlarmExpires(i)
      PROVE  [Promise!Next]_Promise!vars
  BY <1>0, <1>2, <1>4 DEF Start, Cancel, AlarmExpires
<1>5. ASSUME NEW i \in Intents, Submit(i) \/ DeadlinePasses(i)
      PROVE  [Promise!Next]_Promise!vars
  <2>1. pds' = pds /\ \A j \in Intents \ {i} : intent'[j].state = intent[j].state
    BY <1>5 DEF Submit, DeadlinePasses, TypeOK
  <2>2. Outcome(i) # "open" => intent'[i].state = intent[i].state
    BY <1>5 DEF Submit, DeadlinePasses, TypeOK, Outcome, NoRow, Row, Releasing
  <2> QED BY <2>1, <2>2, Decides
<1>6. CASE AlarmRecovers
  <2>1. pds' = pds /\ \A j \in Intents : Outcome(j)' = Outcome(j)
    BY <1>6 DEF AlarmRecovers, Outcome, Moved, Releasing
  <2> QED BY <2>1 DEF Promise!vars, VersionsKept
<1>7. ASSUME NEW i \in Intents, CreateInstance(i) \/ Crash(i) \/ Restart(i) \/ Drop(i)
                                \/ OperationRunsOut(i)
      PROVE  [Promise!Next]_Promise!vars
  BY <1>1, <1>7 DEF CreateInstance, Crash, Restart, Drop, OperationRunsOut, tables
<1>8. CASE CoordLeaseRunsOut \/ UNCHANGED vars
  BY <1>1, <1>8 DEF CoordLeaseRunsOut, vars, tables
<1>9. ASSUME NEW v \in Versions, PublisherWrites(v)
      PROVE  [Promise!Next]_Promise!vars
  <2>1. \A j \in Intents : Outcome(j)' = Outcome(j)
    BY <1>9 DEF PublisherWrites, tables, Outcome
  <2>2. Promise!Write(v, Foreign)
    BY <1>9, <2>1 DEF PublisherWrites, VersionsKept, Promise!Write
  <2> QED BY <2>2 DEF Promise!Next
<1> QED BY <1>3, <1>4, <1>5, <1>6, <1>7, <1>8, <1>9, PromiseLand DEF Next, Alarm, Deadline, Settled

\* When the PDS answers in time, the publisher object, the Workflow and the PDS
\* implement the promise: an outcome is final, is decided by the record that is
\* there, and no record of an intent appears after its outcome.
THEOREM PromiseKept ==
  ASSUME ~LateWrites
  PROVE  Spec => KeepsPromise
<1>1. Init => Promise!Init
  BY PromiseInit
<1>2. TypeOK /\ ExactIsThere /\ [Next]_vars => VersionsKept
  BY NextExact
<1>3. TypeOK /\ VersionsKept /\ [Next]_vars
      /\ PublishedIsProved /\ RefusedIsNotReleased /\ ConflictIsForeign
      /\ PublishedIsProved' /\ RefusedIsNotReleased' /\ ConflictIsForeign'
      => [Promise!Next]_Promise!vars
  BY PromiseNext
<1>4. Spec => [](TypeOK /\ ExactIsThere)
  <2>1. Init => TypeOK /\ ExactIsThere
    BY InitTyped DEF Init, ExactIsThere, NoMemo, NotStored, Steps
  <2>2. TypeOK /\ ExactIsThere /\ [Next]_vars => TypeOK' /\ ExactIsThere'
    BY NextTyped, NextExact
  <2> QED BY <2>1, <2>2, PTL DEF Spec
<1> QED BY <1>1, <1>2, <1>3, <1>4, PublishedProved, RefusedNotReleased, ConflictsForeign, PTL
        DEF Spec, KeepsPromise, Promise!Spec
==============================================================================
