----------------------------- MODULE IntentState -----------------------------
(***************************************************************************)
(* The state machine of a release intent, as the publisher object keeps    *)
(* it.  An intent is a row with its state, the generation that every       *)
(* transition increments, and whether its expires_at has passed; a         *)
(* transition is a compare-and-set on the state and the generation.        *)
(***************************************************************************)
EXTENDS Naturals

Waiting == {"received", "verifying", "verified", "awaiting_approval", "ready"}
Active == {"publishing", "reconciling"}
\* The states that give the version's reservation back.
Releasing == {"invalid", "rejected", "cancelled", "expired", "failed", "conflict"}
States == Waiting \cup Active \cup Releasing \cup {"published"}

Allowed ==
  [s \in States |->
     CASE s = "received" -> {"verifying", "cancelled", "expired"}
       [] s = "verifying" -> {"verified", "invalid", "failed", "cancelled", "expired"}
       [] s = "verified" ->
            {"ready", "awaiting_approval", "invalid", "failed", "cancelled", "expired"}
       [] s = "awaiting_approval" -> {"ready", "rejected", "invalid", "cancelled", "expired"}
       [] s = "ready" -> {"publishing", "invalid", "cancelled", "expired", "conflict"}
       [] s = "publishing" -> {"ready", "published", "reconciling", "failed", "conflict"}
       [] s = "reconciling" -> {"ready", "published", "failed", "conflict"}
       [] s \in Releasing \cup {"published"} -> {}]

Row == [state: States, gen: Nat, expired: BOOLEAN]

\* Mutant of Lapsed: a deadline is only the alarm's business.
NeverLapsed(row, to) == FALSE

\* A lapsed intent may only expire, unless its publication is under way.
Lapsed(row, to) == row.expired /\ row.state \notin Active /\ to # "expired"

CanMove(row, from, gen, to) ==
  /\ ~Lapsed(row, to)
  /\ row.state = from
  /\ row.gen = gen
  /\ to \in Allowed[from]

\* The transition was made before and its answer was lost.  The digest that
\* the code compares is a function of the states and of the generation here.
Repeated(row, gen, to) ==
  /\ ~Lapsed(row, to)
  /\ row.state = to
  /\ row.gen = gen + 1

Moved(row, to) == [state |-> to, gen |-> row.gen + 1, expired |-> row.expired]
==============================================================================
