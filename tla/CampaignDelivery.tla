--------------------------- MODULE CampaignDelivery ---------------------------
(***************************************************************************)
(* The delivery of one e-mail campaign: the Marketing Worker's queue       *)
(* consumers, the campaign's transitions, the queue with its dead letters, *)
(* and the Email Worker, the sole one that opens SMTP connections and that *)
(* keeps one transport row per idempotency key.                            *)
(*                                                                         *)
(* A dispatch job plans a delivery per subscriber and sends one job for    *)
(* each; a delivery job tries the sender profiles in order until one       *)
(* accepts.  The queue delivers at least once, so that every job may come  *)
(* back after its work was done, in full or in part.                       *)
(*                                                                         *)
(* Rendering, tracking, sender quotas, A/B tests, send windows, journeys   *)
(* and double opt-in are left out; a delivery that a translation or the    *)
(* frequency limit suppresses is one of an unsubscribed recipient.         *)
(***************************************************************************)
EXTENDS Integers, Sequences, FiniteSets

CONSTANTS
  Deliveries,  \* one per subscriber that the campaign may reach
  Audience,    \* those whose subscriber is eligible from the start
  Senders,     \* number of sender profiles, tried in order
  Consumers,   \* invocations of the queue handler
  Dispatch,    \* the job marketing.campaign.dispatch
  Page,        \* deliveries that one dispatch selects (1000)
  BatchSize,   \* messages of one queue batch (10)
  FailAfter,   \* attempt that records a failure (5)
  MaxTries,    \* attempts before the dead-letter queue
  Controls,    \* transitions that operators ask for
  MaxControls, \* bound on them
  MaxReplays,  \* bound on dead letters that are replayed
  MaxEvents,   \* bound on provider events
  MaxFaults,   \* bound on failed statements, calls and enqueueings
  MaxCrashes   \* bound on Workers that are killed

ASSUME DeliveryAssumption ==
  /\ Audience \subseteq Deliveries /\ IsFiniteSet(Deliveries)
  /\ Dispatch \notin Deliveries /\ "none" \notin Deliveries \cup {Dispatch} \cup Consumers
  /\ Senders \in Nat \ {0} /\ Page \in Nat \ {0} /\ BatchSize \in Nat \ {0}
  /\ FailAfter \in Nat \ {0} /\ MaxTries \in Nat /\ FailAfter <= MaxTries
  /\ MaxControls \in Nat /\ MaxReplays \in Nat /\ MaxEvents \in Nat
  /\ MaxFaults \in Nat /\ MaxCrashes \in Nat

VARIABLES
  campaign,    \* campaigns.status
  subscribed,  \* subscribers that are enabled, confirmed and not suppressed
  delivery,    \* email_deliveries.status
  queue,       \* messages of the queue, by job and attempt
  dead,        \* messages of the dead-letter queue, by job
  letters,     \* quarantined rows of marketing_dead_letters, by job
  cons,        \* the consumers
  row,         \* email_transport_deliveries, by delivery and sender
  session,     \* SMTP sessions of the Email Worker
  accepted,    \* how often a provider accepted the message of a key
  events,      \* provider events that Marketing has yet to apply
  noted,       \* statuses that handlers of a delayed notice have read, by delivery
  left         \* what operators, providers and faults may still do

tables == <<campaign, subscribed, delivery>>
mail == <<row, session, accepted, events, noted>>
vars == <<tables, queue, dead, letters, cons, mail, left>>

Keys == Deliveries \X (1 .. Senders)
Jobs == Deliveries \cup {Dispatch}
Messages == Jobs \X (1 .. MaxTries)
Outcomes == {"delivered", "bounced", "failed"}
Notices == Outcomes \cup {"delayed"}
Progress == {"none", "pending", "sending", "sent", "suppressed"} \cup Outcomes
Settled == {"sent", "delivered", "bounced"}

Statuses == {"draft", "scheduled", "running", "paused", "finished", "cancelled", "archived"}

OfDispatch == {"plan", "run", "select", "mark", "enqueue", "unmark"}
OfDelivery == {"campaign", "eligible", "send", "await", "record"}

Idle == [pc |-> "idle", job |-> "none", try |-> 1, sender |-> 1, picked |-> {},
         seen |-> "unread", due |-> FALSE, acked |-> <<>>, room |-> BatchSize]

NoRow == [status |-> "none", leased |-> FALSE, known |-> FALSE]
NoSession == [state |-> "none", by |-> "none"]

Consumer ==
  [pc: OfDispatch \cup OfDelivery \cup {"idle", "batch", "throw", "count", "close"},
   job: Jobs \cup {"none"}, try: 1 .. MaxTries, sender: 1 .. Senders, picked: SUBSET Deliveries,
   seen: Statuses \cup {"unread"}, due: BOOLEAN, acked: Seq(Messages), room: 0 .. BatchSize]

Budget == [controls: Nat, replays: Nat, events: Nat, faults: Nat, crashes: Nat]

TypeOK ==
  /\ campaign \in Statuses
  /\ subscribed \subseteq Deliveries
  /\ delivery \in [Deliveries -> Progress]
  /\ queue \in [Messages -> Nat]
  /\ dead \in [Jobs -> Nat]
  /\ letters \in [Jobs -> Nat]
  /\ cons \in [Consumers -> Consumer]
  /\ row \in [Keys -> [status: {"none", "sending", "sent", "failed", "outcome_unknown"},
                       leased: BOOLEAN, known: BOOLEAN]]
  /\ session \in [Keys -> [state: {"none", "open", "accepted", "rejected", "doubtful"},
                           by: Consumers \cup {"none"}]]
  /\ accepted \in [Keys -> Nat]
  /\ events \subseteq Deliveries \X Notices
  /\ noted \subseteq Deliveries \X Progress
  /\ left \in Budget
------------------------------------------------------------------------------
(* The queue and its consumers                                             *)

Sent(q, S) == [m \in Messages |-> IF m \in S THEN q[m] + 1 ELSE q[m]]

\* A message that is not acknowledged comes back with its next attempt, until
\* it goes to the dead-letter queue.
Last(m) == m[2] = MaxTries
Again(m) == <<m[1], m[2] + 1>>

Key(c) == <<cons[c].job, cons[c].sender>>
Message(c) == <<cons[c].job, cons[c].try>>

\* The message is taken and the consumer goes on at pc.
Goto(c, pc) == cons' = [cons EXCEPT ![c] = [cons[c] EXCEPT !.pc = pc]]

\* A consumer at a job; seen, due, acked and room are what the batch remembers.
At(c, pc, job, try) ==
  [pc |-> pc, job |-> job, try |-> try, sender |-> 1, picked |-> {}, seen |-> cons[c].seen,
   due |-> cons[c].due, acked |-> cons[c].acked, room |-> cons[c].room]

\* No message is in hand.
Between(c) == At(c, "batch", "none", 1)

\* message.ack() takes effect when the batch is over; the campaign may be
\* noted, in due, to be finished then.
Acked(c, k, m, due) == cons' = [cons EXCEPT ![c] = [k EXCEPT !.due = k.due \/ due,
                                                             !.acked = Append(k.acked, m)]]
Ack(c) == Acked(c, Between(c), Message(c), FALSE)
AckDue(c) == Acked(c, Between(c), Message(c), TRUE)

\* A message is taken and what it is about is read: a campaign that runs, or a
\* delivery that has no outcome, starts work.
Take(c, m) ==
  LET works == IF m[1] = Dispatch THEN campaign \in {"scheduled", "running"}
                                  ELSE delivery[m[1]] \notin Settled
      first == At(c, IF m[1] = Dispatch THEN "plan" ELSE "campaign", m[1], m[2])
      taken(k) == [k EXCEPT !.room = cons[c].room - 1]
  IN
  /\ cons[c].pc \in {"idle", "batch"}
  /\ cons[c].room > 0
  /\ queue[m] > 0
  /\ queue' = [queue EXCEPT ![m] = queue[m] - 1]
  /\ IF works THEN cons' = [cons EXCEPT ![c] = taken(first)]
              ELSE Acked(c, taken(Between(c)), m, FALSE)
  /\ UNCHANGED <<tables, dead, letters, mail, left>>

\* The last message is done; finishScheduledCampaigns runs if a campaign is due.
EndBatch(c) ==
  /\ cons[c].pc = "batch"
  /\ cons' = [cons EXCEPT ![c] = IF cons[c].due THEN [cons[c] EXCEPT !.pc = "count"] ELSE Idle]
  /\ UNCHANGED <<tables, queue, dead, letters, mail, left>>

\* message.retry(), after the failure of a late attempt was recorded, whatever
\* the delivery has become meanwhile.
Fails(c) == cons[c].job \in Deliveries /\ cons[c].try >= FailAfter
ThrowDue(c, due) ==
  LET k == cons[c] m == Message(c) IN
  /\ k.pc = "throw"
  /\ delivery' = IF Fails(c) THEN [delivery EXCEPT ![k.job] = "failed"] ELSE delivery
  /\ IF Last(m) THEN dead' = [dead EXCEPT ![k.job] = dead[k.job] + 1] /\ queue' = queue
     ELSE queue' = Sent(queue, {Again(m)}) /\ dead' = dead
  /\ cons' = [cons EXCEPT ![c] = [Between(c) EXCEPT !.due = k.due \/ due]]
  /\ UNCHANGED <<campaign, subscribed, letters, mail, left>>

\* Mutant: markDeliveryFailed does not note the campaign.
ThrowForgets(c) == ThrowDue(c, FALSE)
Throw(c) == ThrowDue(c, Fails(c))

\* quarantineMarketingDeadLetter, whatever the delivery has become meanwhile.
\* A mutant writes the status that the outbox of opt-ins has.
QuarantineAsOutbox(j) ==
  /\ dead[j] > 0
  /\ dead' = [dead EXCEPT ![j] = dead[j] - 1]
  /\ letters' = [letters EXCEPT ![j] = letters[j] + 1]
  /\ IF j \in Deliveries THEN delivery' = [delivery EXCEPT ![j] = "dead_letter"]
                         ELSE delivery' = delivery
  /\ UNCHANGED <<campaign, subscribed, queue, cons, mail, left>>

Quarantine(j) ==
  /\ dead[j] > 0
  /\ dead' = [dead EXCEPT ![j] = dead[j] - 1]
  /\ letters' = [letters EXCEPT ![j] = letters[j] + 1]
  /\ IF j \in Deliveries THEN delivery' = [delivery EXCEPT ![j] = "failed"]
                         ELSE delivery' = delivery
  /\ UNCHANGED <<campaign, subscribed, queue, cons, mail, left>>

Replay(j) ==
  /\ letters[j] > 0 /\ left.replays > 0
  /\ letters' = [letters EXCEPT ![j] = letters[j] - 1]
  /\ queue' = Sent(queue, {<<j, 1>>})
  /\ left' = [left EXCEPT !.replays = left.replays - 1]
  /\ UNCHANGED <<tables, dead, cons, mail>>
------------------------------------------------------------------------------
(* dispatchCampaign                                                        *)

\* A delivery per eligible subscriber that has none.
Plan(c) ==
  /\ cons[c].pc = "plan"
  /\ delivery' = [d \in Deliveries |-> IF d \in subscribed /\ delivery[d] = "none"
                                       THEN "pending" ELSE delivery[d]]
  /\ Goto(c, "run")
  /\ UNCHANGED <<campaign, subscribed, queue, dead, letters, mail, left>>

\* The campaign runs, whatever it has become since it was read.
Run(c) ==
  /\ cons[c].pc = "run"
  /\ campaign' = "running"
  /\ Goto(c, "select")
  /\ UNCHANGED <<subscribed, delivery, queue, dead, letters, mail, left>>

Pending == {d \in Deliveries : delivery[d] = "pending"}

Select(c, picked) ==
  /\ cons[c].pc = "select"
  /\ picked \subseteq Pending
  /\ Cardinality(picked) <= Page
  /\ Cardinality(picked) < Page => picked = Pending
  /\ cons' = [cons EXCEPT ![c] = [cons[c] EXCEPT !.picked = picked,
                                  !.pc = IF picked = {} THEN "count" ELSE "mark"]]
  /\ UNCHANGED <<tables, queue, dead, letters, mail, left>>

Moved(S, from, to) ==
  [d \in Deliveries |-> IF d \in S /\ delivery[d] = from THEN to ELSE delivery[d]]

Mark(c) ==
  /\ cons[c].pc = "mark"
  /\ delivery' = Moved(cons[c].picked, "pending", "sending")
  /\ Goto(c, "enqueue")
  /\ UNCHANGED <<campaign, subscribed, queue, dead, letters, mail, left>>

\* A job for every row that was selected, also for one another dispatch marked;
\* after a full page the dispatch is sent again.
Enqueue(c) ==
  LET S == cons[c].picked IN
  /\ cons[c].pc = "enqueue"
  /\ queue' = Sent(queue, {<<d, 1>> : d \in S} \cup
                          (IF Cardinality(S) = Page THEN {<<Dispatch, 1>>} ELSE {}))
  /\ Ack(c)
  /\ UNCHANGED <<tables, dead, letters, mail, left>>

\* sendBatch fails, and may have enqueued all the same; or the dispatch cannot be
\* sent again.
EnqueueFails(c) ==
  LET sent == Sent(queue, {<<d, 1>> : d \in cons[c].picked}) IN
  /\ cons[c].pc = "enqueue"
  /\ left.faults > 0
  /\ left' = [left EXCEPT !.faults = left.faults - 1]
  /\ \/ queue' \in {queue, sent} /\ Goto(c, "unmark")
     \/ Cardinality(cons[c].picked) = Page /\ queue' = sent /\ Goto(c, "throw")
  /\ UNCHANGED <<tables, dead, letters, mail>>

Unmark(c) ==
  /\ cons[c].pc = "unmark"
  /\ delivery' = Moved(cons[c].picked, "sending", "pending")
  /\ Goto(c, "throw")
  /\ UNCHANGED <<campaign, subscribed, queue, dead, letters, mail, left>>

\* finishCampaignIfComplete: after the last message of a batch, or within a
\* dispatch that found nothing to send.
Finished(c) == IF cons[c].job = "none" THEN cons' = [cons EXCEPT ![c] = Idle] ELSE Ack(c)

\* Mutant: deliveries that wait for the next page are not counted.
UnsettledInFlight == {d \in Deliveries : delivery[d] = "sending"}
Unsettled == {d \in Deliveries : delivery[d] \in {"pending", "sending"}}

Count(c) ==
  /\ cons[c].pc = "count"
  /\ IF Unsettled = {} THEN Goto(c, "close") ELSE Finished(c)
  /\ UNCHANGED <<tables, queue, dead, letters, mail, left>>

Close(c) ==
  /\ cons[c].pc = "close"
  /\ campaign' = IF campaign = "running" THEN "finished" ELSE campaign
  /\ Finished(c)
  /\ UNCHANGED <<subscribed, delivery, queue, dead, letters, mail, left>>
------------------------------------------------------------------------------
(* deliverEmail                                                            *)

\* Mutant: the job of a paused campaign is dropped.
PausedDrops(c) == queue' = queue
Paused(c) == queue' = Sent(queue, {<<cons[c].job, 1>>})

\* The campaign is read once for a batch.
Campaign(c) ==
  LET k == cons[c] seen == IF k.seen = "unread" THEN campaign ELSE k.seen IN
  /\ k.pc = "campaign"
  /\ IF seen = "paused" THEN Paused(c) ELSE queue' = queue
  /\ IF seen \in {"cancelled", "archived", "paused"}
     THEN Acked(c, [Between(c) EXCEPT !.seen = seen], Message(c), FALSE)
     ELSE cons' = [cons EXCEPT ![c] = [k EXCEPT !.pc = "eligible", !.seen = seen]]
  /\ UNCHANGED <<tables, dead, letters, mail, left>>

Eligible(c) ==
  LET d == cons[c].job IN
  /\ cons[c].pc = "eligible"
  /\ IF d \in subscribed THEN Goto(c, "send") /\ delivery' = delivery
     ELSE AckDue(c) /\ delivery' = [delivery EXCEPT ![d] = "suppressed"]
  /\ UNCHANGED <<campaign, subscribed, queue, dead, letters, mail, left>>

\* deliverDelegatedSmtp: the key is taken by an insertion, or again after a
\* definite failure; a receipt is repeated; everything else is in doubt.
\* A mutant tries an unknown outcome again.
AvailableInDoubt(i) == row[i].status \in {"none", "failed", "outcome_unknown"}
Available(i) == row[i].status \in {"none", "failed"}

Call(c) ==
  LET i == Key(c) r == row[i] IN
  /\ cons[c].pc = "send"
  /\ IF Available(i)
     THEN /\ row' = [row EXCEPT ![i] = [status |-> "sending", leased |-> TRUE, known |-> FALSE]]
          /\ session' = [session EXCEPT ![i] = [state |-> "open", by |-> c]]
          /\ Goto(c, "await")
     ELSE /\ row' = IF r.status = "sending" /\ ~r.leased
                    THEN [row EXCEPT ![i] = [r EXCEPT !.status = "outcome_unknown"]] ELSE row
          /\ session' = session
          /\ Goto(c, IF r.status = "sent" THEN "record" ELSE "throw")
  /\ UNCHANGED <<tables, queue, dead, letters, accepted, events, noted, left>>

\* The binding fails: the outcome is unknown to the consumer, the Email Worker goes on.
CallFails(c) ==
  /\ cons[c].pc = "await"
  /\ left.faults > 0
  /\ left' = [left EXCEPT !.faults = left.faults - 1]
  /\ Goto(c, "throw")
  /\ UNCHANGED <<tables, queue, dead, letters, mail>>

\* The next profile, or the last error is thrown.
NextSender(k) == IF k.sender < Senders THEN [k EXCEPT !.pc = "send", !.sender = k.sender + 1]
                                       ELSE [k EXCEPT !.pc = "throw"]

Record(c) ==
  /\ cons[c].pc = "record"
  /\ delivery' = [delivery EXCEPT ![cons[c].job] = "sent"]
  /\ AckDue(c)
  /\ UNCHANGED <<campaign, subscribed, queue, dead, letters, mail, left>>

\* The batch that records the send fails, inside the same try as the send.
RecordFails(c) ==
  /\ cons[c].pc = "record"
  /\ left.faults > 0
  /\ left' = [left EXCEPT !.faults = left.faults - 1]
  /\ cons' = [cons EXCEPT ![c] = NextSender(cons[c])]
  /\ UNCHANGED <<tables, queue, dead, letters, mail>>

\* Any other statement of a job fails.
StatementFails(c) ==
  /\ cons[c].pc \in (OfDispatch \ {"enqueue"}) \cup {"campaign", "eligible", "count", "close"}
  /\ cons[c].job # "none"
  /\ left.faults > 0
  /\ left' = [left EXCEPT !.faults = left.faults - 1]
  /\ Goto(c, "throw")
  /\ UNCHANGED <<tables, queue, dead, letters, mail>>

\* A campaign could not be finished after the batch: an error is logged, and no
\* one comes back to it unless another job does.  Counted with the crashes.
FinishFails(c) ==
  /\ cons[c].pc \in {"count", "close"} /\ cons[c].job = "none"
  /\ left.crashes > 0
  /\ left' = [left EXCEPT !.crashes = left.crashes - 1]
  /\ cons' = [cons EXCEPT ![c] = Idle]
  /\ UNCHANGED <<tables, queue, dead, letters, mail>>

\* A Worker is killed: what it took, acknowledged or not, is delivered again.
Crash(c) ==
  LET k == cons[c]
      held == IF k.job = "none" THEN k.acked ELSE Append(k.acked, Message(c))
  IN
  /\ k.pc # "idle"
  /\ left.crashes > 0
  /\ left' = [left EXCEPT !.crashes = left.crashes - 1]
  /\ queue' = [m \in Messages |-> queue[m] +
       Cardinality({n \in DOMAIN held : ~Last(held[n]) /\ Again(held[n]) = m})]
  /\ dead' = [j \in Jobs |-> dead[j] +
       Cardinality({n \in DOMAIN held : Last(held[n]) /\ held[n][1] = j})]
  /\ cons' = [cons EXCEPT ![c] = Idle]
  /\ UNCHANGED <<tables, letters, mail>>
------------------------------------------------------------------------------
(* The Email Worker and the providers                                      *)

\* The provider accepts, refuses, or is not heard after the message was sent.
Provider(i) ==
  /\ session[i].state = "open"
  /\ \E state \in {"accepted", "rejected", "doubtful"} :
       /\ session' = [session EXCEPT ![i] = [session[i] EXCEPT !.state = state]]
       /\ \/ state # "rejected" /\ accepted' = [accepted EXCEPT ![i] = accepted[i] + 1]
          \/ state # "accepted" /\ accepted' = accepted
  /\ UNCHANGED <<tables, queue, dead, letters, cons, row, events, noted, left>>

\* The consumer that still waits for the session gets its answer.
Waits(c, i) == cons[c].pc = "await" /\ Key(c) = i
Answer(i, k) ==
  LET c == session[i].by IN
  /\ cons' = IF Waits(c, i) THEN [cons EXCEPT ![c] = k] ELSE cons
  /\ session' = [session EXCEPT ![i] = NoSession]

Caller(i) == cons[session[i].by]
Doubted(i) == [Caller(i) EXCEPT !.pc = "throw"]

\* What a session found is written if its row is still sending.
Write(i, status, known) ==
  row' = IF row[i].status # "sending" THEN row
         ELSE [row EXCEPT ![i] = [status |-> status, leased |-> FALSE, known |-> known]]

\* The receipt, or a doubt when the row was given up meanwhile.  A mutant
\* answers with its receipt although it was not persisted.
ReceiptAnyway(i) ==
  /\ session[i].state \in {"accepted", "doubtful"}
  /\ Write(i, "sent", TRUE)
  /\ Answer(i, [Caller(i) EXCEPT !.pc = "record"])
  /\ UNCHANGED <<tables, queue, dead, letters, accepted, events, noted, left>>

Receipt(i) ==
  /\ session[i].state = "accepted"
  /\ Write(i, "sent", TRUE)
  /\ Answer(i, IF row[i].status = "sending" THEN [Caller(i) EXCEPT !.pc = "record"] ELSE Doubted(i))
  /\ UNCHANGED <<tables, queue, dead, letters, accepted, events, noted, left>>

Refusal(i) ==
  /\ session[i].state = "rejected"
  /\ Write(i, "failed", FALSE)
  /\ Answer(i, NextSender(Caller(i)))
  /\ UNCHANGED <<tables, queue, dead, letters, accepted, events, noted, left>>

\* Mutant: a doubt is a failure like any other.
DoubtFails(i) ==
  /\ session[i].state = "doubtful"
  /\ Write(i, "failed", FALSE)
  /\ Answer(i, Doubted(i))
  /\ UNCHANGED <<tables, queue, dead, letters, accepted, events, noted, left>>

Doubt(i) ==
  /\ session[i].state = "doubtful"
  /\ Write(i, "outcome_unknown", FALSE)
  /\ Answer(i, Doubted(i))
  /\ UNCHANGED <<tables, queue, dead, letters, accepted, events, noted, left>>

\* The write fails; after an acceptance a second one gives the row up.
PersistFails(i) ==
  /\ session[i].state \in {"accepted", "rejected", "doubtful"}
  /\ left.faults > 0
  /\ left' = [left EXCEPT !.faults = left.faults - 1]
  /\ \/ row' = row
     \/ session[i].state = "accepted" /\ Write(i, "outcome_unknown", TRUE)
  /\ Answer(i, Doubted(i))
  /\ UNCHANGED <<tables, queue, dead, letters, accepted, events, noted>>

SessionDies(i) ==
  /\ session[i].state # "none"
  /\ left.crashes > 0
  /\ left' = [left EXCEPT !.crashes = left.crashes - 1]
  /\ Answer(i, Doubted(i))
  /\ UNCHANGED <<tables, queue, dead, letters, row, accepted, events, noted>>

\* Fifteen minutes after the row was taken, whether or not its session goes on.
LeaseExpires(i) ==
  /\ row[i].status = "sending" /\ row[i].leased
  /\ row' = [row EXCEPT ![i] = [row[i] EXCEPT !.leased = FALSE]]
  /\ UNCHANGED <<tables, queue, dead, letters, cons, session, accepted, events, noted, left>>

\* The provider's notification finds its row by the message identity; a message
\* that was delivered settles a row in doubt.
Notify(i, o) ==
  /\ row[i].known /\ left.events > 0
  /\ left' = [left EXCEPT !.events = left.events - 1]
  /\ row' = IF o = "delivered" /\ row[i].status \in {"sending", "outcome_unknown"}
            THEN [row EXCEPT ![i] = [status |-> "sent", leased |-> FALSE, known |-> TRUE]] ELSE row
  /\ events' = events \cup {<<i[1], o>>}
  /\ UNCHANGED <<tables, queue, dead, letters, cons, session, accepted, noted>>

\* reconcileEmailProviderEvents and processProviderEvent: an outcome is
\* written whatever the delivery is; a hard bounce suppresses the subscriber.
Apply(d, o) ==
  /\ <<d, o>> \in events
  /\ events' = events \ {<<d, o>>}
  /\ delivery' = [delivery EXCEPT ![d] = o]
  /\ \/ subscribed' = subscribed
     \/ o = "bounced" /\ subscribed' = subscribed \ {d}
  /\ UNCHANGED <<campaign, queue, dead, letters, cons, row, session, accepted, noted, left>>

\* A notice that the message is delayed is no outcome: its handler reads the
\* delivery's status, ...
Delayed(d) ==
  /\ <<d, "delayed">> \in events
  /\ events' = events \ {<<d, "delayed">>}
  /\ noted' = noted \cup {<<d, delivery[d]>>}
  /\ UNCHANGED <<tables, queue, dead, letters, cons, row, session, accepted, left>>

\* ... and writes it back in a later statement, whatever the delivery has become.
WriteBack(d, status) ==
  /\ <<d, status>> \in noted
  /\ noted' = noted \ {<<d, status>>}
  /\ delivery' = [delivery EXCEPT ![d] = status]
  /\ UNCHANGED <<campaign, subscribed, queue, dead, letters, cons, row, session, accepted, events,
                 left>>
------------------------------------------------------------------------------
(* What operators and subscribers ask for                                  *)

Asks(control) ==
  /\ control \in Controls
  /\ left.controls > 0
  /\ left' = [left EXCEPT !.controls = left.controls - 1]

Transition(from, to) == campaign \in from /\ campaign' = to

\* start and resume: the transition, then the job; between the two a Worker
\* may be killed.
Start ==
  /\ Asks("start")
  /\ Transition({"draft", "scheduled", "paused"}, "running")
  /\ queue' = Sent(queue, {<<Dispatch, 1>>})
  /\ UNCHANGED <<subscribed, delivery, dead, letters, cons, mail>>

StartDies ==
  /\ left.controls > 0 /\ left.crashes > 0
  /\ left' = [left EXCEPT !.controls = left.controls - 1, !.crashes = left.crashes - 1]
  /\ Transition({"draft", "scheduled", "paused"}, "running")
  /\ UNCHANGED <<subscribed, delivery, queue, dead, letters, cons, mail>>

Moves(control, from, to) ==
  /\ Asks(control)
  /\ Transition(from, to)
  /\ UNCHANGED <<subscribed, delivery, queue, dead, letters, cons, mail>>

Schedule == Moves("schedule", {"draft", "paused"}, "scheduled")
Pause == Moves("pause", {"running", "scheduled"}, "paused")
Cancel == Moves("cancel", {"draft", "scheduled", "running", "paused"}, "cancelled")
Archive == Moves("archive", {"finished", "cancelled"}, "archived")

\* The cron sends the job of a scheduled campaign at every run until it runs.
Cron ==
  /\ Asks("schedule")
  /\ campaign = "scheduled"
  /\ queue' = Sent(queue, {<<Dispatch, 1>>})
  /\ UNCHANGED <<tables, dead, letters, cons, mail>>

Unsubscribe(d) ==
  /\ Asks("unsubscribe")
  /\ d \in subscribed
  /\ subscribed' = subscribed \ {d}
  /\ UNCHANGED <<campaign, delivery, queue, dead, letters, cons, mail>>

Subscribe(d) ==
  /\ Asks("subscribe")
  /\ d \notin subscribed
  /\ subscribed' = subscribed \cup {d}
  /\ UNCHANGED <<campaign, delivery, queue, dead, letters, cons, mail>>
------------------------------------------------------------------------------
Init ==
  /\ campaign = "draft"
  /\ subscribed = Audience
  /\ delivery = [d \in Deliveries |-> "none"]
  /\ queue = [m \in Messages |-> 0]
  /\ dead = [j \in Jobs |-> 0]
  /\ letters = [j \in Jobs |-> 0]
  /\ cons = [c \in Consumers |-> Idle]
  /\ row = [i \in Keys |-> NoRow]
  /\ session = [i \in Keys |-> NoSession]
  /\ accepted = [i \in Keys |-> 0]
  /\ events = {} /\ noted = {}
  /\ left = [controls |-> MaxControls, replays |-> MaxReplays, events |-> MaxEvents,
              faults |-> MaxFaults, crashes |-> MaxCrashes]

\* One statement of a consumer.
Work(c) ==
  \/ \E m \in Messages : Take(c, m)
  \/ EndBatch(c) \/ Throw(c)
  \/ Plan(c) \/ Run(c) \/ (\E S \in SUBSET Deliveries : Select(c, S))
  \/ Mark(c) \/ Enqueue(c) \/ Unmark(c) \/ Count(c) \/ Close(c)
  \/ Campaign(c) \/ Eligible(c) \/ Call(c) \/ Record(c)

\* One step of the Email Worker or its provider.
Settle(i) == Provider(i) \/ Receipt(i) \/ Refusal(i) \/ Doubt(i)

Fault(c) ==
  \/ EnqueueFails(c) \/ CallFails(c) \/ RecordFails(c) \/ StatementFails(c) \/ FinishFails(c)
  \/ Crash(c)

Mail(i) ==
  \/ Settle(i) \/ PersistFails(i) \/ SessionDies(i) \/ LeaseExpires(i)
  \/ \E o \in Notices : Notify(i, o)

Operator ==
  \/ Start \/ StartDies \/ Schedule \/ Pause \/ Cancel \/ Archive \/ Cron
  \/ \E d \in Deliveries : Unsubscribe(d) \/ Subscribe(d)

Next ==
  \/ \E c \in Consumers : Work(c) \/ Fault(c)
  \/ \E j \in Jobs : Quarantine(j) \/ Replay(j)
  \/ \E i \in Keys : Mail(i)
  \/ \E d \in Deliveries, o \in Outcomes : Apply(d, o)
  \/ \E d \in Deliveries : Delayed(d) \/ \E status \in Progress : WriteBack(d, status)
  \/ Operator

Spec == Init /\ [][Next]_vars

\* The queue delivers what it holds, a consumer that took a message goes on,
\* and the Email Worker's sessions come to an end.
FairSpec ==
  /\ Spec
  /\ \A c \in Consumers : WF_vars(Work(c))
  /\ \A i \in Keys : WF_vars(Settle(i))
------------------------------------------------------------------------------
(* Properties                                                              *)

\* "Provider acceptance is the side-effect boundary" (email/README.md): however
\* often a job is delivered, retried, replayed or outlived by its lease, a
\* sender's provider accepts a delivery's message once at most.
AcceptedOnce == \A i \in Keys : accepted[i] <= 1

\* A delivery that is said to be sent, delivered or bounced was accepted by a
\* provider, whatever answer was lost, repeated or late.
SentIsAccepted ==
  \A d \in Deliveries : delivery[d] \in Settled =>
    \E n \in 1 .. Senders : accepted[<<d, n>>] > 0

\* A key that may be taken again, and so sent again, was not accepted.
RetryIsSafe == \A i \in Keys : Available(i) => accepted[i] = 0 /\ session[i].state = "none"

\* finishCampaignIfComplete reads and writes in two statements beside other
\* dispatches: what was planned is settled when the campaign is finished.  Only
\* a subscriber that joined meanwhile may be waiting, or one that left before
\* the first plan and is planned by a later one when he is back.  The handler of
\* a delayed notice is another matter: it may write back that a delivery is
\* sending after the campaign was finished.
FinishedIsSettled ==
  campaign = "finished" => \A d \in Audience : delivery[d] \notin {"pending", "sending"}

\* As long as no Worker is killed, no one ends the campaign, its marks can be
\* undone and no delayed notice writes a stale status back, a delivery that is
\* marked as sending has a job: in the queue, in a consumer, or among the dead
\* letters.
HasJob(d) ==
  \/ \E n \in 1 .. MaxTries : queue[<<d, n>>] > 0
  \/ \E c \in Consumers : \/ cons[c].job = d
                          \/ cons[c].pc \in {"enqueue", "unmark"} /\ d \in cons[c].picked
  \/ dead[d] > 0
NobodyForgotten == \A d \in Deliveries : delivery[d] = "sending" => HasJob(d)

\* As long as no Worker is killed, a campaign that runs ends or is stopped:
\* the consumer of the last delivery, or the last dispatch, finishes it.
CampaignFinishes == campaign = "running" ~> campaign # "running"

\* docs/CLOUDFLARE.md, 112: "Ambiguous binding failures retry the same profile and
\* key before failover, preventing an unconfirmed send from being duplicated."
SentOnce ==
  \A d \in Deliveries : \A n, p \in 1 .. Senders :
    accepted[<<d, n>>] > 0 /\ accepted[<<d, p>>] > 0 => n = p
=============================================================================
