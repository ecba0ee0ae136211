------------------------ MODULE CampaignDelivery_proofs ------------------------
(***************************************************************************)
(* Proofs about CampaignDelivery for any deliveries, senders, consumers,   *)
(* batches and bounds: types, what the Email Worker's rows promise about   *)
(* acceptances, that a delivery which is marked as sending has a job       *)
(* (Orderly), and that the deliveries of a finished campaign are settled   *)
(* (NoReturn); the last two as long as the handlers of delayed notices do  *)
(* not write back a status that has become stale (Timely).                 *)
(***************************************************************************)
EXTENDS CampaignDelivery, FiniteSetTheorems, TLAPS

\* What a consumer has in hand fits its step.
Fits(k) ==
  /\ k.pc \in OfDelivery => k.job \in Deliveries
  /\ k.pc \in OfDispatch \cup {"throw"} => k.job \in Jobs
  /\ k.pc \in {"idle", "batch"} => k.job = "none"

ConsOK == cons \in [Consumers -> Consumer] /\ \A c \in Consumers : Fits(cons[c])

BySomeone == \A i \in Keys : session[i].state # "none" => session[i].by \in Consumers

TypeInv == TypeOK /\ ConsOK /\ BySomeone

USE DeliveryAssumption

LEMMA NoneIsNoJob == "none" \notin Jobs /\ "none" \notin Deliveries /\ Deliveries \subseteq Jobs
  BY DEF Jobs

LEMMA AtType ==
  ASSUME ConsOK, NEW c \in Consumers,
         NEW pc \in OfDispatch \cup OfDelivery \cup {"idle", "batch", "throw", "count", "close"},
         NEW job \in Jobs \cup {"none"}, NEW try \in 1 .. MaxTries
  PROVE  At(c, pc, job, try) \in Consumer
<1>1. cons[c] \in Consumer
  BY DEF ConsOK
<1>2. 1 \in 1 .. Senders
  OBVIOUS
<1> QED
  BY <1>1, <1>2 DEF At, Consumer

LEMMA BetweenType ==
  ASSUME ConsOK, NEW c \in Consumers
  PROVE  Between(c) \in Consumer /\ Between(c).pc = "batch" /\ Between(c).job = "none"
<1>1. 1 \in 1 .. MaxTries
  OBVIOUS
<1>2. Between(c) \in Consumer
  BY <1>1, AtType DEF Between
<1> QED
  BY <1>2 DEF Between, At

LEMMA ConsStep ==
  ASSUME ConsOK, NEW c \in Consumers, NEW k \in Consumer, Fits(k),
         cons' = [cons EXCEPT ![c] = k]
  PROVE  ConsOK'
  BY DEF ConsOK

LEMMA AckedType ==
  ASSUME ConsOK, NEW c \in Consumers, NEW k \in Consumer, k.pc = "batch", k.job = "none",
         NEW m \in Messages, NEW due \in BOOLEAN, Acked(c, k, m, due)
  PROVE  ConsOK'
<1> DEFINE n == [k EXCEPT !.due = k.due \/ due, !.acked = Append(k.acked, m)]
<1>1. k.due \in BOOLEAN /\ k.acked \in Seq(Messages)
  BY DEF Consumer
<1>2. Append(k.acked, m) \in Seq(Messages)
  BY <1>1
<1>3. n \in Consumer /\ n.pc = "batch" /\ n.job = "none"
  BY <1>1, <1>2 DEF Consumer
<1>4. Fits(n)
  BY <1>3 DEF Fits, OfDelivery, OfDispatch
<1>5. cons' = [cons EXCEPT ![c] = n]
  BY DEF Acked
<1> HIDE DEF n
<1> QED
  BY <1>3, <1>4, <1>5, ConsStep

LEMMA GotoType ==
  ASSUME ConsOK, NEW c \in Consumers, NEW pc, Goto(c, pc),
         \/ pc \in OfDelivery /\ cons[c].job \in Deliveries
         \/ pc \in OfDispatch \cup {"throw"} /\ cons[c].job \in Jobs
         \/ pc \in {"count", "close"}
  PROVE  ConsOK'
<1> DEFINE n == [cons[c] EXCEPT !.pc = pc]
<1>1. cons[c] \in Consumer
  BY DEF ConsOK
<1>2. n \in Consumer /\ n.pc = pc /\ n.job = cons[c].job
  BY <1>1 DEF Consumer, OfDelivery, OfDispatch
<1>3. Fits(n)
  BY <1>2, NoneIsNoJob DEF Fits, OfDelivery, OfDispatch
<1>4. cons' = [cons EXCEPT ![c] = n]
  BY DEF Goto
<1> HIDE DEF n
<1> QED
  BY <1>2, <1>3, <1>4, ConsStep

LEMMA MessageType ==
  ASSUME ConsOK, NEW c \in Consumers, cons[c].job \in Jobs
  PROVE  Message(c) \in Messages
<1>1. cons[c].try \in 1 .. MaxTries
  BY DEF ConsOK, Consumer
<1> QED
  BY <1>1 DEF Message, Messages

LEMMA AckType ==
  ASSUME ConsOK, NEW c \in Consumers, cons[c].job \in Jobs, Ack(c) \/ AckDue(c)
  PROVE  ConsOK'
  BY BetweenType, MessageType, AckedType DEF Ack, AckDue

LEMMA SentType ==
  ASSUME NEW q \in [Messages -> Nat], NEW S
  PROVE  Sent(q, S) \in [Messages -> Nat]
  BY DEF Sent

\* A session's answer keeps what consumers have in hand.
LEMMA AnswerType ==
  ASSUME ConsOK, BySomeone, NEW i \in Keys, session[i].state # "none", NEW k \in Consumer,
         Fits(k), Answer(i, k),
         session \in [Keys -> [state: {"none", "open", "accepted", "rejected", "doubtful"},
                               by: Consumers \cup {"none"}]]
  PROVE  /\ ConsOK' /\ BySomeone'
         /\ session' \in [Keys -> [state: {"none", "open", "accepted", "rejected", "doubtful"},
                                   by: Consumers \cup {"none"}]]
<1> DEFINE c == session[i].by
<1>1. c \in Consumers
  BY DEF BySomeone
<1>2. CASE Waits(c, i)
  <2>1. cons' = [cons EXCEPT ![c] = k]
    BY <1>2 DEF Answer
  <2>2. ConsOK'
    BY <1>1, <2>1, ConsStep
  <2> QED
    BY <2>2 DEF Answer, BySomeone, NoSession
<1>3. CASE ~Waits(c, i)
  <2>1. cons' = cons
    BY <1>3 DEF Answer
  <2> QED
    BY <2>1 DEF Answer, BySomeone, NoSession, ConsOK
<1> QED
  BY <1>2, <1>3

LEMMA NextSenderType ==
  ASSUME NEW k \in Consumer, k.job \in Deliveries
  PROVE  NextSender(k) \in Consumer /\ Fits(NextSender(k)) /\ NextSender(k).job = k.job
<1>1. k.sender \in 1 .. Senders
  BY DEF Consumer
<1>2. CASE k.sender < Senders
  <2> DEFINE n == [k EXCEPT !.pc = "send", !.sender = k.sender + 1]
  <2>1. k.sender + 1 \in 1 .. Senders
    BY <1>1, <1>2
  <2>2. n \in Consumer /\ n.pc = "send" /\ n.job = k.job
    BY <2>1 DEF Consumer, OfDelivery
  <2>3. NextSender(k) = n
    BY <1>2 DEF NextSender
  <2> HIDE DEF n
  <2> QED
    BY <2>2, <2>3 DEF Fits, OfDispatch
<1>3. CASE ~(k.sender < Senders)
  <2> DEFINE n == [k EXCEPT !.pc = "throw"]
  <2>1. n \in Consumer /\ n.pc = "throw" /\ n.job = k.job
    BY DEF Consumer
  <2>2. NextSender(k) = n
    BY <1>3 DEF NextSender
  <2> HIDE DEF n
  <2> QED
    BY <2>1, <2>2, NoneIsNoJob DEF Fits, OfDelivery, OfDispatch
<1> QED
  BY <1>2, <1>3

\* A caller that waits has a delivery in hand.
LEMMA CallerType ==
  ASSUME ConsOK, NEW c \in Consumers, cons[c].pc = "await"
  PROVE  /\ cons[c] \in Consumer /\ cons[c].job \in Deliveries
         /\ NextSender(cons[c]) \in Consumer /\ Fits(NextSender(cons[c]))
         /\ \A pc \in {"record", "throw"} : /\ [cons[c] EXCEPT !.pc = pc] \in Consumer
                                           /\ Fits([cons[c] EXCEPT !.pc = pc])
<1>1. cons[c] \in Consumer /\ cons[c].job \in Deliveries
  BY DEF ConsOK, Fits, OfDelivery
<1>2. ASSUME NEW pc \in {"record", "throw"}
      PROVE  [cons[c] EXCEPT !.pc = pc] \in Consumer /\ Fits([cons[c] EXCEPT !.pc = pc])
  <2> DEFINE n == [cons[c] EXCEPT !.pc = pc]
  <2>1. n \in Consumer /\ n.pc = pc /\ n.job = cons[c].job
    BY <1>1 DEF Consumer, OfDelivery
  <2> HIDE DEF n
  <2>2. n \in Consumer /\ Fits(n)
    BY <2>1, <1>1, NoneIsNoJob DEF Fits, OfDelivery, OfDispatch
  <2> QED
    BY <2>2 DEF n
<1> QED
  BY <1>1, <1>2, NextSenderType
------------------------------------------------------------------------------
(* The steps keep the types                                                *)

LEMMA QueueSteps ==
  ASSUME TypeInv, NEW c \in Consumers,
         \/ \E m \in Messages : Take(c, m)
         \/ EndBatch(c) \/ Throw(c)
  PROVE  TypeInv'
<1> USE DEF TypeInv
<1>c. cons[c] \in Consumer
  BY DEF ConsOK
<1>1. ASSUME NEW m \in Messages, Take(c, m)  PROVE TypeInv'
  <2> DEFINE first == At(c, IF m[1] = Dispatch THEN "plan" ELSE "campaign", m[1], m[2])
             k == [first EXCEPT !.room = cons[c].room - 1]
             b == [Between(c) EXCEPT !.room = cons[c].room - 1]
  <2>1. m[1] \in Jobs /\ m[2] \in 1 .. MaxTries
    BY DEF Messages
  <2>2. first \in Consumer /\ first.job = m[1]
        /\ first.pc = IF m[1] = Dispatch THEN "plan" ELSE "campaign"
    <3>1. first \in Consumer
      BY <2>1, AtType DEF OfDispatch, OfDelivery
    <3> QED
      BY <3>1 DEF At
  <2>3. cons[c].room - 1 \in 0 .. BatchSize
    <3>1. cons[c].room \in 0 .. BatchSize
      BY <1>c DEF Consumer
    <3>2. cons[c].room > 0
      BY <1>1 DEF Take
    <3>3. BatchSize \in Nat
      BY DeliveryAssumption
    <3> QED BY <3>1, <3>2, <3>3
  <2> HIDE DEF first
  <2>4. k \in Consumer /\ k.job = m[1] /\ k.pc = first.pc
    BY <2>2, <2>3 DEF Consumer
  <2>5. Fits(k)
    BY <2>1, <2>2, <2>4, NoneIsNoJob DEF Fits, OfDelivery, OfDispatch, Jobs
  <2>6. b \in Consumer /\ b.pc = "batch" /\ b.job = "none"
    BY <2>3, BetweenType DEF Consumer
  <2>7. ConsOK'
    <3>1. CASE cons' = [cons EXCEPT ![c] = k]
      <4> HIDE DEF k
      <4> QED BY <3>1, <2>4, <2>5, ConsStep
    <3>2. CASE Acked(c, b, m, FALSE)
      <4> HIDE DEF b
      <4> QED BY <3>2, <2>6, AckedType
    <3> QED
      BY <1>1, <3>1, <3>2 DEF Take, first
  <2>8. queue' \in [Messages -> Nat]
    BY <1>1 DEF Take, TypeOK
  <2> QED
    BY <1>1, <2>7, <2>8 DEF Take, TypeOK, ConsOK, BySomeone, tables, mail
<1>2. CASE EndBatch(c)
  <2> DEFINE n == IF cons[c].due THEN [cons[c] EXCEPT !.pc = "count"] ELSE Idle
  <2>1. n \in Consumer /\ Fits(n)
    <3>1. CASE cons[c].due
      <4> DEFINE m == [cons[c] EXCEPT !.pc = "count"]
      <4>1. m \in Consumer /\ m.pc = "count"
        BY <1>c DEF Consumer
      <4> HIDE DEF m
      <4>2. m \in Consumer /\ Fits(m)
        BY <4>1 DEF Fits, OfDelivery, OfDispatch
      <4> QED BY <3>1, <4>2 DEF m
    <3>2. CASE ~cons[c].due
      BY <3>2 DEF Idle, Consumer, Fits, OfDelivery, OfDispatch
    <3> QED BY <3>1, <3>2
  <2>2. cons' = [cons EXCEPT ![c] = n]
    BY <1>2 DEF EndBatch
  <2> HIDE DEF n
  <2>3. ConsOK'
    BY <2>1, <2>2, ConsStep
  <2> QED
    BY <1>2, <2>3 DEF EndBatch, TypeOK, ConsOK, BySomeone, tables, mail
<1>3. CASE Throw(c)
  <2> DEFINE fails == Fails(c)
             n == [Between(c) EXCEPT !.due = cons[c].due \/ fails]
  <2>0. fails \in BOOLEAN
    BY DEF Fails
  <2>1. cons[c].job \in Jobs /\ cons[c].due \in BOOLEAN
    BY <1>3, <1>c DEF Throw, ThrowDue, ConsOK, Fits, Consumer
  <2> HIDE DEF fails
  <2>2. n \in Consumer /\ n.pc = "batch" /\ n.job = "none"
    BY <2>0, <2>1, BetweenType DEF Consumer
  <2>3. Fits(n)
    BY <2>2 DEF Fits, OfDelivery, OfDispatch
  <2>4. cons' = [cons EXCEPT ![c] = n]
    BY <1>3 DEF Throw, ThrowDue, fails
  <2> HIDE DEF n
  <2>5. ConsOK'
    BY <2>2, <2>3, <2>4, ConsStep
  <2>6. queue' \in [Messages -> Nat] /\ dead' \in [Jobs -> Nat]
    BY <1>3, <2>1, SentType DEF Throw, ThrowDue, TypeOK
  <2>7. delivery' \in [Deliveries -> Progress]
    BY <1>3 DEF Throw, ThrowDue, TypeOK, Fails, Progress, Outcomes
  <2> QED
    BY <1>3, <2>5, <2>6, <2>7 DEF Throw, ThrowDue, TypeOK, ConsOK, BySomeone, tables, mail
<1> QED
  BY <1>1, <1>2, <1>3

DeliveryTypes == [Deliveries -> Progress]

\* What a statement of a consumer leaves alone.
LEMMA ConsumerFrame ==
  ASSUME TypeInv, ConsOK', campaign' \in Statuses, subscribed' = subscribed,
         delivery' \in DeliveryTypes, queue' \in [Messages -> Nat], dead' \in [Jobs -> Nat],
         UNCHANGED <<letters, mail>>, left' \in Budget
  PROVE  TypeInv'
  BY DEF TypeInv, TypeOK, ConsOK, BySomeone, DeliveryTypes, mail

LEMMA FaultsType ==
  ASSUME left \in Budget
  PROVE  /\ left.faults > 0 => [left EXCEPT !.faults = left.faults - 1] \in Budget
         /\ left.crashes > 0 => [left EXCEPT !.crashes = left.crashes - 1] \in Budget
         /\ left.events > 0 => [left EXCEPT !.events = left.events - 1] \in Budget
         /\ left.replays > 0 => [left EXCEPT !.replays = left.replays - 1] \in Budget
         /\ left.controls > 0 => [left EXCEPT !.controls = left.controls - 1] \in Budget
  BY DEF Budget

\* A job is in hand at every step of a dispatch or of a delivery.
LEMMA InHand ==
  ASSUME ConsOK, NEW c \in Consumers
  PROVE  /\ cons[c] \in Consumer
         /\ cons[c].pc \in OfDelivery => cons[c].job \in Deliveries /\ cons[c].job \in Jobs
         /\ cons[c].pc \in OfDispatch \cup {"throw"} => cons[c].job \in Jobs
         /\ cons[c].job # "none" => cons[c].job \in Jobs
  BY NoneIsNoJob DEF ConsOK, Fits, Consumer

LEMMA IdleType == Idle \in Consumer /\ Fits(Idle)
<1>1. 1 \in 1 .. MaxTries /\ 1 \in 1 .. Senders /\ BatchSize \in 0 .. BatchSize
  OBVIOUS
<1> QED
  BY <1>1 DEF Idle, Consumer, Fits, OfDelivery, OfDispatch

LEMMA FinishedType ==
  ASSUME ConsOK, NEW c \in Consumers, Finished(c)
  PROVE  ConsOK'
<1>1. CASE cons[c].job = "none"
  BY <1>1, IdleType, ConsStep DEF Finished
<1>2. CASE cons[c].job # "none"
  BY <1>2, InHand, AckType DEF Finished
<1> QED
  BY <1>1, <1>2

LEMMA DispatchSteps ==
  ASSUME TypeInv, NEW c \in Consumers,
         \/ Plan(c) \/ Run(c) \/ (\E S \in SUBSET Deliveries : Select(c, S))
         \/ Mark(c) \/ Enqueue(c) \/ Unmark(c) \/ Count(c) \/ Close(c)
  PROVE  TypeInv'
<1>0. /\ ConsOK /\ campaign \in Statuses /\ delivery \in DeliveryTypes /\ left \in Budget
      /\ queue \in [Messages -> Nat] /\ dead \in [Jobs -> Nat]
  BY DEF TypeInv, TypeOK, DeliveryTypes
<1>1. CASE Plan(c)
  <2>1. ConsOK'
    BY <1>0, <1>1, InHand, GotoType DEF Plan, OfDispatch
  <2>2. delivery' \in DeliveryTypes
    BY <1>0, <1>1 DEF Plan, DeliveryTypes, Progress
  <2> QED
    BY <1>0, <1>1, <2>1, <2>2, ConsumerFrame DEF Plan
<1>2. CASE Run(c)
  <2>1. ConsOK'
    BY <1>0, <1>2, InHand, GotoType DEF Run, OfDispatch
  <2>2. campaign' \in Statuses
    BY <1>2 DEF Run, Statuses
  <2> QED
    BY <1>0, <1>2, <2>1, <2>2, ConsumerFrame DEF Run
<1>3. ASSUME NEW S \in SUBSET Deliveries, Select(c, S)  PROVE TypeInv'
  <2> DEFINE n == [cons[c] EXCEPT !.picked = S, !.pc = IF S = {} THEN "count" ELSE "mark"]
  <2>1. cons[c] \in Consumer /\ cons[c].job \in Jobs
    BY <1>0, <1>3, InHand DEF Select, OfDispatch
  <2>2. n \in Consumer /\ n.job = cons[c].job /\ n.pc \in {"count", "mark"}
    BY <2>1 DEF Consumer, OfDispatch
  <2>3. cons' = [cons EXCEPT ![c] = n]
    BY <1>3 DEF Select
  <2> HIDE DEF n
  <2>4. Fits(n)
    BY <2>1, <2>2 DEF Fits, OfDelivery
  <2>5. ConsOK'
    BY <1>0, <2>2, <2>3, <2>4, ConsStep
  <2> QED
    BY <1>0, <1>3, <2>5, ConsumerFrame DEF Select, tables
<1>4. CASE Mark(c)
  <2>1. ConsOK'
    BY <1>0, <1>4, InHand, GotoType DEF Mark, OfDispatch
  <2>2. delivery' \in DeliveryTypes
    BY <1>0, <1>4 DEF Mark, Moved, DeliveryTypes, Progress
  <2> QED
    BY <1>0, <1>4, <2>1, <2>2, ConsumerFrame DEF Mark
<1>5. CASE Enqueue(c)
  <2>1. ConsOK'
    BY <1>0, <1>5, InHand, AckType DEF Enqueue, OfDispatch
  <2>2. queue' \in [Messages -> Nat]
    BY <1>0, <1>5, SentType DEF Enqueue
  <2> QED
    BY <1>0, <1>5, <2>1, <2>2, ConsumerFrame DEF Enqueue, tables
<1>6. CASE Unmark(c)
  <2>1. ConsOK'
    BY <1>0, <1>6, InHand, GotoType DEF Unmark, OfDispatch
  <2>2. delivery' \in DeliveryTypes
    BY <1>0, <1>6 DEF Unmark, Moved, DeliveryTypes, Progress
  <2> QED
    BY <1>0, <1>6, <2>1, <2>2, ConsumerFrame DEF Unmark
<1>7. CASE Count(c)
  <2>1. CASE Goto(c, "close")
    BY <1>0, <1>7, <2>1, GotoType, ConsumerFrame DEF Count, tables
  <2>2. CASE Finished(c)
    BY <1>0, <1>7, <2>2, FinishedType, ConsumerFrame DEF Count, tables
  <2> QED
    BY <1>7, <2>1, <2>2 DEF Count
<1>8. CASE Close(c)
  <2>1. ConsOK'
    BY <1>0, <1>8, FinishedType DEF Close
  <2>2. campaign' \in Statuses
    BY <1>0, <1>8 DEF Close, Statuses
  <2> QED
    BY <1>0, <1>8, <2>1, <2>2, ConsumerFrame DEF Close
<1> QED
  BY <1>1, <1>2, <1>3, <1>4, <1>5, <1>6, <1>7, <1>8

LEMMA DeliverySteps ==
  ASSUME TypeInv, NEW c \in Consumers, Campaign(c) \/ Eligible(c) \/ Record(c)
  PROVE  TypeInv'
<1>0. /\ ConsOK /\ campaign \in Statuses /\ delivery \in DeliveryTypes /\ left \in Budget
      /\ queue \in [Messages -> Nat] /\ dead \in [Jobs -> Nat]
  BY DEF TypeInv, TypeOK, DeliveryTypes
<1>1. CASE Campaign(c)
  <2> DEFINE seen == IF cons[c].seen = "unread" THEN campaign ELSE cons[c].seen
             b == [Between(c) EXCEPT !.seen = seen]
             n == [cons[c] EXCEPT !.pc = "eligible", !.seen = seen]
  <2>1. cons[c] \in Consumer /\ cons[c].job \in Deliveries /\ cons[c].job \in Jobs
    BY <1>0, <1>1, InHand DEF Campaign, OfDelivery
  <2>2. seen \in Statuses
    BY <1>0, <2>1 DEF Consumer
  <2> HIDE DEF seen
  <2>3. b \in Consumer /\ b.pc = "batch" /\ b.job = "none"
    BY <1>0, <2>2, BetweenType DEF Consumer
  <2>4. n \in Consumer /\ n.pc = "eligible" /\ n.job = cons[c].job
    BY <2>1, <2>2 DEF Consumer, OfDelivery
  <2>5. \/ Acked(c, b, Message(c), FALSE)
        \/ cons' = [cons EXCEPT ![c] = n]
    BY <1>1 DEF Campaign, seen
  <2> HIDE DEF n, b
  <2>6. Fits(n)
    BY <2>1, <2>4 DEF Fits, OfDispatch
  <2>7. Message(c) \in Messages
    BY <1>0, <2>1, MessageType
  <2>8. ConsOK'
    <3>1. CASE Acked(c, b, Message(c), FALSE)
      BY <1>0, <2>3, <2>7, <3>1, AckedType
    <3>2. CASE cons' = [cons EXCEPT ![c] = n]
      BY <1>0, <2>4, <2>6, <3>2, ConsStep
    <3> QED
      BY <2>5, <3>1, <3>2
  <2>9. queue' \in [Messages -> Nat]
    BY <1>0, <1>1, SentType DEF Campaign, Paused
  <2> QED
    BY <1>0, <1>1, <2>8, <2>9, ConsumerFrame DEF Campaign, tables
<1>2. CASE Eligible(c)
  <2>1. cons[c].job \in Deliveries /\ cons[c].job \in Jobs
    BY <1>0, <1>2, InHand DEF Eligible, OfDelivery
  <2>2. ConsOK'
    BY <1>0, <1>2, <2>1, GotoType, AckType DEF Eligible, OfDelivery
  <2>3. delivery' \in DeliveryTypes
    BY <1>0, <1>2 DEF Eligible, DeliveryTypes, Progress
  <2> QED
    BY <1>0, <1>2, <2>2, <2>3, ConsumerFrame DEF Eligible
<1>3. CASE Record(c)
  <2>1. cons[c].job \in Jobs
    BY <1>0, <1>3, InHand DEF Record, OfDelivery
  <2>2. ConsOK'
    BY <1>0, <1>3, <2>1, AckType DEF Record
  <2>3. delivery' \in DeliveryTypes
    BY <1>0, <1>3 DEF Record, DeliveryTypes, Progress
  <2> QED
    BY <1>0, <1>3, <2>2, <2>3, ConsumerFrame DEF Record
<1> QED
  BY <1>1, <1>2, <1>3

RowTypes == [Keys -> [status: {"none", "sending", "sent", "failed", "outcome_unknown"},
                      leased: BOOLEAN, known: BOOLEAN]]
SessionTypes == [Keys -> [state: {"none", "open", "accepted", "rejected", "doubtful"},
                          by: Consumers \cup {"none"}]]

\* What a step of the Email Worker leaves alone.
LEMMA MailFrame ==
  ASSUME TypeInv, ConsOK', BySomeone', row' \in RowTypes, session' \in SessionTypes,
         accepted' \in [Keys -> Nat], events' \subseteq Deliveries \X Notices,
         noted' \subseteq Deliveries \X Progress, left' \in Budget,
         UNCHANGED <<tables, queue, dead, letters>>
  PROVE  TypeInv'
  BY DEF TypeInv, TypeOK, ConsOK, BySomeone, RowTypes, SessionTypes, tables

LEMMA CallStep ==
  ASSUME TypeInv, NEW c \in Consumers, Call(c)
  PROVE  TypeInv'
<1> DEFINE i == Key(c)
<1>0. /\ ConsOK /\ BySomeone /\ row \in RowTypes /\ session \in SessionTypes /\ left \in Budget
      /\ accepted \in [Keys -> Nat] /\ events \subseteq Deliveries \X Notices
      /\ noted \subseteq Deliveries \X Progress
  BY DEF TypeInv, TypeOK, RowTypes, SessionTypes
<1>1. cons[c] \in Consumer /\ cons[c].job \in Deliveries /\ cons[c].job \in Jobs
  BY <1>0, InHand DEF Call, OfDelivery
<1>2. i \in Keys
  BY <1>1 DEF Key, Keys, Consumer
<1>3. CASE Available(i)
  <2>1. /\ row' = [row EXCEPT ![i] = [status |-> "sending", leased |-> TRUE, known |-> FALSE]]
        /\ session' = [session EXCEPT ![i] = [state |-> "open", by |-> c]]
        /\ Goto(c, "await")
    BY <1>3 DEF Call
  <2>2. ConsOK'
    BY <1>0, <1>1, <2>1, GotoType DEF OfDelivery
  <2> HIDE DEF i
  <2>3. row' \in RowTypes /\ session' \in SessionTypes /\ BySomeone'
    BY <1>0, <1>2, <2>1 DEF RowTypes, SessionTypes, BySomeone
  <2> QED
    BY <1>0, <2>2, <2>3, MailFrame DEF Call
<1>4. CASE ~Available(i)
  <2> DEFINE r == [row[i] EXCEPT !.status = "outcome_unknown"]
  <2>1. /\ row' = [row EXCEPT ![i] = r] \/ row' = row
        /\ session' = session
        /\ Goto(c, "record") \/ Goto(c, "throw")
    BY <1>4 DEF Call
  <2>2. ConsOK'
    BY <1>0, <1>1, <2>1, GotoType DEF OfDelivery
  <2> HIDE DEF i
  <2>3. r \in [status: {"none", "sending", "sent", "failed", "outcome_unknown"},
               leased: BOOLEAN, known: BOOLEAN]
    BY <1>0, <1>2 DEF RowTypes
  <2> HIDE DEF r
  <2>4. row' \in RowTypes /\ session' \in SessionTypes /\ BySomeone'
    BY <1>0, <1>2, <2>1, <2>3 DEF RowTypes, BySomeone
  <2> QED
    BY <1>0, <2>2, <2>4, MailFrame DEF Call
<1> QED
  BY <1>3, <1>4

LEMMA WriteType ==
  ASSUME row \in RowTypes, NEW i \in Keys, NEW status \in {"sent", "failed", "outcome_unknown"},
         NEW known \in BOOLEAN, Write(i, status, known)
  PROVE  row' \in RowTypes
  BY DEF Write, RowTypes

LEMMA AnswerSteps ==
  ASSUME TypeInv, NEW i \in Keys,
         \/ Receipt(i) \/ Refusal(i) \/ Doubt(i) \/ PersistFails(i) \/ SessionDies(i)
  PROVE  TypeInv'
<1>0. /\ ConsOK /\ BySomeone /\ row \in RowTypes /\ session \in SessionTypes /\ left \in Budget
      /\ accepted \in [Keys -> Nat] /\ events \subseteq Deliveries \X Notices
      /\ noted \subseteq Deliveries \X Progress
  BY DEF TypeInv, TypeOK, RowTypes, SessionTypes
<1>1. session[i].state # "none"
  BY DEF Receipt, Refusal, Doubt, PersistFails, SessionDies
<1>2. session[i].by \in Consumers
  BY <1>0, <1>1 DEF BySomeone
<1>3. row' \in RowTypes
  BY <1>0, WriteType DEF Receipt, Refusal, Doubt, PersistFails, SessionDies
<1>4. left' \in Budget
  BY <1>0, FaultsType DEF Receipt, Refusal, Doubt, PersistFails, SessionDies
<1>5. ASSUME NEW k, Answer(i, k), Caller(i).pc = "await" => k \in Consumer /\ Fits(k)
      PROVE  ConsOK' /\ BySomeone' /\ session' \in SessionTypes
  <2>1. CASE Caller(i).pc = "await"
    BY <1>0, <1>1, <1>5, <2>1, AnswerType DEF SessionTypes
  <2>2. CASE Caller(i).pc # "await"
    <3>1. cons' = cons /\ session' = [session EXCEPT ![i] = NoSession]
      BY <1>5, <2>2 DEF Answer, Waits, Caller
    <3> QED
      BY <1>0, <3>1 DEF ConsOK, BySomeone, SessionTypes, NoSession
  <2> QED
    BY <2>1, <2>2
<1>6. Caller(i).pc = "await" =>
        /\ [Caller(i) EXCEPT !.pc = "record"] \in Consumer /\ Fits([Caller(i) EXCEPT !.pc = "record"])
        /\ Doubted(i) \in Consumer /\ Fits(Doubted(i))
        /\ NextSender(Caller(i)) \in Consumer /\ Fits(NextSender(Caller(i)))
  BY <1>0, <1>2, CallerType DEF Caller, Doubted
<1>7. \E k : Answer(i, k) /\ (Caller(i).pc = "await" => k \in Consumer /\ Fits(k))
  <2>1. CASE Receipt(i)
    <3>1. CASE row[i].status = "sending"
      BY <1>6, <2>1, <3>1 DEF Receipt
    <3>2. CASE row[i].status # "sending"
      BY <1>6, <2>1, <3>2 DEF Receipt
    <3> QED
      BY <3>1, <3>2
  <2>2. CASE Refusal(i)
    BY <1>6, <2>2 DEF Refusal
  <2>3. CASE Doubt(i) \/ PersistFails(i) \/ SessionDies(i)
    BY <1>6, <2>3 DEF Doubt, PersistFails, SessionDies
  <2> QED
    BY <2>1, <2>2, <2>3
<1>8. ConsOK' /\ BySomeone' /\ session' \in SessionTypes
  BY <1>5, <1>7
<1>9. UNCHANGED <<tables, queue, dead, letters, accepted, events, noted>>
  BY DEF Receipt, Refusal, Doubt, PersistFails, SessionDies
<1> QED
  BY <1>0, <1>3, <1>4, <1>8, <1>9, MailFrame

LEMMA MailSteps ==
  ASSUME TypeInv, NEW i \in Keys,
         Provider(i) \/ LeaseExpires(i) \/ \E o \in Notices : Notify(i, o)
  PROVE  TypeInv'
<1>0. /\ ConsOK /\ BySomeone /\ row \in RowTypes /\ session \in SessionTypes /\ left \in Budget
      /\ accepted \in [Keys -> Nat] /\ events \subseteq Deliveries \X Notices
      /\ noted \subseteq Deliveries \X Progress
  BY DEF TypeInv, TypeOK, RowTypes, SessionTypes
<1>1. CASE Provider(i)
  <2>1. PICK state \in {"accepted", "rejected", "doubtful"} :
          /\ session' = [session EXCEPT ![i] = [session[i] EXCEPT !.state = state]]
          /\ \/ state # "rejected" /\ accepted' = [accepted EXCEPT ![i] = accepted[i] + 1]
             \/ state # "accepted" /\ accepted' = accepted
    BY <1>1 DEF Provider
  <2>2. session[i].state # "none" /\ session[i].by \in Consumers
    BY <1>0, <1>1 DEF Provider, BySomeone
  <2>3. session' \in SessionTypes /\ BySomeone'
    BY <1>0, <2>1, <2>2 DEF SessionTypes, BySomeone
  <2>4. accepted' \in [Keys -> Nat]
    BY <1>0, <2>1
  <2> QED
    BY <1>0, <1>1, <2>3, <2>4, MailFrame DEF Provider, ConsOK
<1>2. CASE LeaseExpires(i)
  <2>1. row' \in RowTypes
    BY <1>0, <1>2 DEF LeaseExpires, RowTypes
  <2> QED
    BY <1>0, <1>2, <2>1, MailFrame DEF LeaseExpires, ConsOK, BySomeone
<1>3. ASSUME NEW o \in Notices, Notify(i, o)  PROVE TypeInv'
  <2>1. row' \in RowTypes
    BY <1>0, <1>3 DEF Notify, RowTypes
  <2>2. i[1] \in Deliveries
    BY DEF Keys
  <2>3. events' \subseteq Deliveries \X Notices
    BY <1>0, <1>3, <2>2 DEF Notify
  <2>4. left' \in Budget
    BY <1>0, <1>3, FaultsType DEF Notify
  <2> QED
    BY <1>0, <1>3, <2>1, <2>3, <2>4, MailFrame DEF Notify, ConsOK, BySomeone
<1> QED
  BY <1>1, <1>2, <1>3

\* What was held comes back a finite number of times.
LEMMA CountType ==
  ASSUME NEW s, NEW S \in SUBSET DOMAIN s, IsFiniteSet(DOMAIN s)
  PROVE  Cardinality(S) \in Nat
  BY FS_Subset, FS_CardinalityType

LEMMA FaultSteps ==
  ASSUME TypeInv, NEW c \in Consumers, Fault(c)
  PROVE  TypeInv'
<1>0. /\ ConsOK /\ campaign \in Statuses /\ delivery \in DeliveryTypes /\ left \in Budget
      /\ queue \in [Messages -> Nat] /\ dead \in [Jobs -> Nat]
  BY DEF TypeInv, TypeOK, DeliveryTypes
<1>1. left' \in Budget
  BY <1>0, FaultsType
  DEF Fault, EnqueueFails, CallFails, RecordFails, StatementFails, FinishFails, Crash
<1>2. CASE EnqueueFails(c)
  <2>1. ConsOK'
    BY <1>0, <1>2, InHand, GotoType DEF EnqueueFails, OfDispatch
  <2>2. queue' \in [Messages -> Nat]
    BY <1>0, <1>2, SentType DEF EnqueueFails
  <2> QED
    BY <1>0, <1>1, <1>2, <2>1, <2>2, ConsumerFrame DEF EnqueueFails, tables
<1>3. CASE CallFails(c)
  <2>1. ConsOK'
    BY <1>0, <1>3, InHand, GotoType DEF CallFails, OfDelivery
  <2> QED
    BY <1>0, <1>1, <1>3, <2>1, ConsumerFrame DEF CallFails, tables
<1>4. CASE RecordFails(c)
  <2>1. cons[c] \in Consumer /\ cons[c].job \in Deliveries
    BY <1>0, <1>4, InHand DEF RecordFails, OfDelivery
  <2>2. ConsOK'
    BY <1>0, <1>4, <2>1, NextSenderType, ConsStep DEF RecordFails
  <2> QED
    BY <1>0, <1>1, <1>4, <2>2, ConsumerFrame DEF RecordFails, tables
<1>5. CASE StatementFails(c)
  <2>1. ConsOK'
    BY <1>0, <1>5, InHand, GotoType DEF StatementFails
  <2> QED
    BY <1>0, <1>1, <1>5, <2>1, ConsumerFrame DEF StatementFails, tables
<1>6. CASE FinishFails(c)
  <2>1. ConsOK'
    BY <1>0, <1>6, IdleType, ConsStep DEF FinishFails
  <2> QED
    BY <1>0, <1>1, <1>6, <2>1, ConsumerFrame DEF FinishFails, tables
<1>7. CASE Crash(c)
  <2> DEFINE held == IF cons[c].job = "none" THEN cons[c].acked ELSE Append(cons[c].acked, Message(c))
             Back(m) == {n \in DOMAIN held : ~Last(held[n]) /\ Again(held[n]) = m}
             Dead(j) == {n \in DOMAIN held : Last(held[n]) /\ held[n][1] = j}
  <2>1. cons[c].acked \in Seq(Messages)
    BY <1>0 DEF ConsOK, Consumer
  <2>2. held \in Seq(Messages)
    <3>1. CASE cons[c].job = "none"
      BY <2>1, <3>1
    <3>2. CASE cons[c].job # "none"
      <4>1. Message(c) \in Messages
        BY <1>0, <3>2, InHand, MessageType
      <4> QED
        BY <2>1, <3>2, <4>1
    <3> QED
      BY <3>1, <3>2
  <2>3. /\ queue' = [m \in Messages |-> queue[m] + Cardinality(Back(m))]
        /\ dead' = [j \in Jobs |-> dead[j] + Cardinality(Dead(j))]
    BY <1>7 DEF Crash
  <2>4. ConsOK'
    BY <1>0, <1>7, IdleType, ConsStep DEF Crash
  <2>5. \A m : Back(m) \subseteq DOMAIN held
    OBVIOUS
  <2>6. \A j : Dead(j) \subseteq DOMAIN held
    OBVIOUS
  <2> HIDE DEF held, Back, Dead
  <2>7. IsFiniteSet(DOMAIN held)
    <3>1. DOMAIN held = 1 .. Len(held) /\ Len(held) \in Nat
      BY <2>2
    <3>2. IsFiniteSet(1 .. Len(held))
      BY <3>1, FS_Interval
    <3> QED
      BY <3>1, <3>2
  <2>8. \A m : Cardinality(Back(m)) \in Nat
    BY <2>5, <2>7, CountType
  <2>9. \A j : Cardinality(Dead(j)) \in Nat
    BY <2>6, <2>7, CountType
  <2>10. queue' \in [Messages -> Nat]
    BY <1>0, <2>3, <2>8
  <2>11. dead' \in [Jobs -> Nat]
    BY <1>0, <2>3, <2>9
  <2> QED
    BY <1>0, <1>1, <1>7, <2>4, <2>10, <2>11, ConsumerFrame DEF Crash, tables
<1> QED
  BY <1>2, <1>3, <1>4, <1>5, <1>6, <1>7 DEF Fault

LEMMA LetterSteps ==
  ASSUME TypeInv, NEW j \in Jobs, Quarantine(j) \/ Replay(j)
  PROVE  TypeInv'
<1>1. CASE Quarantine(j)
  <2>1. delivery' \in DeliveryTypes
    BY <1>1 DEF TypeInv, TypeOK, Quarantine, DeliveryTypes, Progress, Outcomes
  <2>2. dead' \in [Jobs -> Nat] /\ letters' \in [Jobs -> Nat]
    BY <1>1 DEF TypeInv, TypeOK, Quarantine
  <2> QED
    BY <1>1, <2>1, <2>2 DEF TypeInv, TypeOK, ConsOK, BySomeone, Quarantine, DeliveryTypes, mail
<1>2. CASE Replay(j)
  <2>1. queue' \in [Messages -> Nat] /\ letters' \in [Jobs -> Nat]
    BY <1>2, SentType DEF TypeInv, TypeOK, Replay
  <2>2. left' \in Budget
    BY <1>2, FaultsType DEF TypeInv, TypeOK, Replay
  <2> QED
    BY <1>2, <2>1, <2>2 DEF TypeInv, TypeOK, ConsOK, BySomeone, Replay, mail, tables
<1> QED
  BY <1>1, <1>2

LEMMA ApplyStep ==
  ASSUME TypeInv, NEW d \in Deliveries, NEW o \in Outcomes, Apply(d, o)
  PROVE  TypeInv'
<1>1. delivery' \in DeliveryTypes /\ subscribed' \subseteq Deliveries
  BY DEF TypeInv, TypeOK, Apply, DeliveryTypes, Progress
<1>2. events' \subseteq Deliveries \X Notices
  BY DEF TypeInv, TypeOK, Apply
<1> QED
  BY <1>1, <1>2 DEF TypeInv, TypeOK, ConsOK, BySomeone, Apply, DeliveryTypes

\* A notice of a delay is read, or the status that its handler read is written.
Tells(d) == Delayed(d) \/ \E status \in Progress : WriteBack(d, status)

LEMMA TellsStep ==
  ASSUME TypeInv, NEW d \in Deliveries, Tells(d)
  PROVE  TypeInv'
<1>1. CASE Delayed(d)
  <2>1. delivery[d] \in Progress
    BY DEF TypeInv, TypeOK
  <2>2. events' \subseteq Deliveries \X Notices /\ noted' \subseteq Deliveries \X Progress
    BY <1>1, <2>1 DEF TypeInv, TypeOK, Delayed
  <2> QED
    BY <1>1, <2>2 DEF TypeInv, TypeOK, ConsOK, BySomeone, Delayed, tables
<1>2. ASSUME NEW status \in Progress, WriteBack(d, status)  PROVE TypeInv'
  <2>1. delivery' \in [Deliveries -> Progress] /\ noted' \subseteq Deliveries \X Progress
    BY <1>2 DEF TypeInv, TypeOK, WriteBack
  <2> QED
    BY <1>2, <2>1 DEF TypeInv, TypeOK, ConsOK, BySomeone, WriteBack
<1> QED
  BY <1>1, <1>2 DEF Tells

LEMMA OperatorSteps ==
  ASSUME TypeInv, Operator
  PROVE  TypeInv'
<1>1. /\ campaign' \in Statuses
      /\ subscribed' \subseteq Deliveries
  BY DEF TypeInv, TypeOK, Operator, Start, StartDies, Schedule, Pause, Cancel, Archive, Cron, Moves,
         Transition, Unsubscribe, Subscribe, Statuses, tables
<1>2. queue' \in [Messages -> Nat]
  BY SentType DEF TypeInv, TypeOK, Operator, Start, StartDies, Schedule, Pause, Cancel, Archive, Cron,
         Moves, Unsubscribe, Subscribe
<1>3. left' \in Budget
  <2>1. CASE StartDies
    <3> DEFINE n == [left EXCEPT !.controls = left.controls - 1, !.crashes = left.crashes - 1]
    <3>1. left \in Budget
      BY DEF TypeInv, TypeOK
    <3>2. left.controls - 1 \in Nat /\ left.crashes - 1 \in Nat
      BY <2>1, <3>1 DEF StartDies, Budget
    <3>3. n \in Budget
      BY <3>1, <3>2 DEF Budget
    <3>4. left' = n
      BY <2>1 DEF StartDies
    <3> HIDE DEF n
    <3> QED
      BY <3>3, <3>4
  <2>2. CASE ~StartDies
    BY <2>2, FaultsType DEF TypeInv, TypeOK, Operator, Start, Schedule, Pause, Cancel, Archive, Cron,
       Moves, Unsubscribe, Subscribe, Asks
  <2> QED
    BY <2>1, <2>2
<1>4. UNCHANGED <<delivery, dead, letters, cons, mail>>
  BY DEF Operator, Start, StartDies, Schedule, Pause, Cancel, Archive, Cron, Moves, Unsubscribe,
         Subscribe, tables
<1> QED
  BY <1>1, <1>2, <1>3, <1>4 DEF TypeInv, TypeOK, ConsOK, BySomeone, mail

LEMMA InitTypeInv == Init => TypeInv
<1> SUFFICES ASSUME Init PROVE TypeInv
  OBVIOUS
<1>1. ConsOK
  BY IdleType DEF Init, ConsOK
<1>2. left \in Budget
  BY DEF Init, Budget
<1>3. delivery \in [Deliveries -> Progress]
  BY DEF Init, Progress
<1>4. row \in RowTypes /\ session \in SessionTypes /\ BySomeone
  BY DEF Init, RowTypes, SessionTypes, BySomeone, NoRow, NoSession
<1>5. /\ queue \in [Messages -> Nat] /\ dead \in [Jobs -> Nat] /\ letters \in [Jobs -> Nat]
      /\ accepted \in [Keys -> Nat]
  BY DEF Init
<1>6. /\ campaign \in Statuses /\ subscribed \subseteq Deliveries
      /\ events \subseteq Deliveries \X Notices /\ noted \subseteq Deliveries \X Progress
  BY DEF Init, Statuses
<1>7. cons \in [Consumers -> Consumer]
  BY <1>1 DEF ConsOK
<1> QED
  BY <1>1, <1>2, <1>3, <1>4, <1>5, <1>6, <1>7 DEF TypeInv, TypeOK, RowTypes, SessionTypes

LEMMA NextTypeInv == TypeInv /\ [Next]_vars => TypeInv'
<1> SUFFICES ASSUME TypeInv, [Next]_vars PROVE TypeInv'
  OBVIOUS
<1>1. CASE UNCHANGED vars
  BY <1>1 DEF vars, tables, mail, TypeInv, TypeOK, ConsOK, BySomeone
<1>2. ASSUME NEW c \in Consumers, Work(c)  PROVE TypeInv'
  BY <1>2, QueueSteps, DispatchSteps, DeliverySteps, CallStep DEF Work
<1>3. ASSUME NEW i \in Keys, Mail(i)  PROVE TypeInv'
  BY <1>3, AnswerSteps, MailSteps DEF Mail, Settle
<1> QED
  BY <1>1, <1>2, <1>3, FaultSteps, LetterSteps, ApplyStep, TellsStep, OperatorSteps DEF Next, Tells

\* Every variable keeps its type, and a consumer that is at a job has one.
THEOREM TypeInvariant == Spec => []TypeInv
BY InitTypeInv, NextTypeInv, PTL DEF Spec

\* Every variable keeps its type, whatever is delivered again, lost or killed.
THEOREM TypeCorrect == Spec => []TypeOK
  BY TypeInvariant, PTL DEF TypeInv
------------------------------------------------------------------------------
(* What the Email Worker's rows promise                                    *)

\* A session is the only one of its key and its row is not available; what is
\* known of the provider's answer is true.
KeyHolds(i) ==
  /\ accepted[i] <= 1
  /\ Available(i) => accepted[i] = 0 /\ session[i].state = "none"
  /\ session[i].state \in {"open", "rejected"} => accepted[i] = 0
  /\ session[i].state = "accepted" => accepted[i] = 1
  /\ session[i].state # "none" => row[i].status \in {"sending", "outcome_unknown"} /\ ~row[i].known
  /\ row[i].status = "sent" \/ row[i].known => accepted[i] = 1

\* A consumer that is to record a send was told of an acceptance.
RecordHolds(c) == cons[c].pc = "record" => accepted[Key(c)] = 1

Was(d) == \E n \in 1 .. Senders : accepted[<<d, n>>] > 0

SafeInv ==
  /\ \A i \in Keys : KeyHolds(i)
  /\ \A c \in Consumers : RecordHolds(c)
  /\ \A d \in Deliveries, o \in Notices : <<d, o>> \in events => Was(d)
  /\ \A d \in Deliveries, status \in Settled : <<d, status>> \in noted => Was(d)
  /\ \A d \in Deliveries : delivery[d] \in Settled => Was(d)

\* The consumer is not about to record, and the others stand where they were.
NotRecord(c) ==
  /\ cons'[c].pc # "record"
  /\ \A x \in Consumers : x # c => cons'[x] = cons[x]

LEMMA GotoNot ==
  ASSUME ConsOK, NEW c \in Consumers, NEW pc, pc # "record", Goto(c, pc)
  PROVE  NotRecord(c)
<1>1. cons'[c] = [cons[c] EXCEPT !.pc = pc] /\ "pc" \in DOMAIN cons[c]
  BY DEF ConsOK, Goto, Consumer
<1>2. cons'[c].pc = pc
  BY <1>1
<1> QED
  BY <1>2 DEF ConsOK, Goto, NotRecord

LEMMA AckedNot ==
  ASSUME ConsOK, NEW c \in Consumers, NEW k \in Consumer, k.pc # "record", NEW m, NEW due,
         Acked(c, k, m, due)
  PROVE  NotRecord(c)
<1> DEFINE n == [k EXCEPT !.due = k.due \/ due, !.acked = Append(k.acked, m)]
<1>1. n.pc = k.pc
  BY DEF Consumer
<1>2. cons' = [cons EXCEPT ![c] = n]
  BY DEF Acked
<1> HIDE DEF n
<1> QED
  BY <1>1, <1>2 DEF ConsOK, NotRecord

LEMMA AckNot ==
  ASSUME ConsOK, NEW c \in Consumers, Ack(c) \/ AckDue(c)
  PROVE  NotRecord(c)
  BY BetweenType, AckedNot DEF Ack, AckDue

LEMMA IdleNot ==
  ASSUME ConsOK, NEW c \in Consumers, cons' = [cons EXCEPT ![c] = Idle]
  PROVE  NotRecord(c)
  BY DEF ConsOK, NotRecord, Idle

LEMMA WorkNot ==
  ASSUME TypeInv, NEW c \in Consumers, Work(c), ~Call(c)
  PROVE  NotRecord(c)
<1>0. ConsOK /\ cons[c] \in Consumer
  BY DEF TypeInv, ConsOK
<1>1. ASSUME NEW m \in Messages, Take(c, m)  PROVE NotRecord(c)
  <2> DEFINE first == At(c, IF m[1] = Dispatch THEN "plan" ELSE "campaign", m[1], m[2])
             k == [first EXCEPT !.room = cons[c].room - 1]
             b == [Between(c) EXCEPT !.room = cons[c].room - 1]
  <2>1. cons' = [cons EXCEPT ![c] = k] \/ Acked(c, b, m, FALSE)
    BY <1>1 DEF Take
  <2>2. k.pc # "record"
    BY DEF At
  <2>3. cons[c].room - 1 \in 0 .. BatchSize
    <3>1. cons[c].room \in 0 .. BatchSize
      BY <1>0 DEF Consumer
    <3>2. cons[c].room > 0
      BY <1>1 DEF Take
    <3>3. BatchSize \in Nat
      BY DeliveryAssumption
    <3> QED BY <3>1, <3>2, <3>3
  <2>4. b \in Consumer /\ b.pc = "batch"
    BY <1>0, <2>3, BetweenType DEF Consumer
  <2> HIDE DEF k, b
  <2> QED
    BY <1>0, <2>1, <2>2, <2>4, AckedNot DEF NotRecord, ConsOK
<1>2. CASE EndBatch(c)
  <2>1. CASE cons[c].due
    BY <1>0, <1>2, <2>1, GotoNot DEF EndBatch, Goto
  <2>2. CASE ~cons[c].due
    BY <1>0, <1>2, <2>2, IdleNot DEF EndBatch
  <2> QED
    BY <2>1, <2>2
<1>3. CASE Throw(c)
  <2> DEFINE n == [Between(c) EXCEPT !.due = cons[c].due \/ Fails(c)]
  <2>1. n.pc # "record"
    BY DEF Between, At
  <2>2. cons' = [cons EXCEPT ![c] = n]
    BY <1>3 DEF Throw, ThrowDue
  <2> HIDE DEF n
  <2> QED
    BY <1>0, <2>1, <2>2 DEF NotRecord, ConsOK
<1>4. ASSUME NEW S \in SUBSET Deliveries, Select(c, S)  PROVE NotRecord(c)
  <2> DEFINE n == [cons[c] EXCEPT !.picked = S, !.pc = IF S = {} THEN "count" ELSE "mark"]
  <2>1. n.pc # "record"
    BY <1>0 DEF Consumer
  <2>2. cons' = [cons EXCEPT ![c] = n]
    BY <1>4 DEF Select
  <2> HIDE DEF n
  <2> QED
    BY <1>0, <2>1, <2>2 DEF NotRecord, ConsOK
<1>5. CASE Campaign(c)
  <2> DEFINE seen == IF cons[c].seen = "unread" THEN campaign ELSE cons[c].seen
             b == [Between(c) EXCEPT !.seen = seen]
             n == [cons[c] EXCEPT !.pc = "eligible", !.seen = seen]
  <2>1. seen \in Statuses
    BY <1>0 DEF Consumer, TypeInv, TypeOK
  <2>2. cons' = [cons EXCEPT ![c] = n] \/ Acked(c, b, Message(c), FALSE)
    BY <1>5 DEF Campaign
  <2> HIDE DEF seen
  <2>3. n.pc # "record"
    BY <1>0 DEF Consumer
  <2>4. b \in Consumer /\ b.pc = "batch"
    BY <1>0, <2>1, BetweenType DEF Consumer
  <2> HIDE DEF n, b
  <2> QED
    BY <1>0, <2>2, <2>3, <2>4, AckedNot DEF NotRecord, ConsOK
<1>6. CASE Count(c) \/ Close(c)
  <2>1. Goto(c, "close") \/ Finished(c)
    BY <1>6 DEF Count, Close
  <2> QED
    BY <1>0, <2>1, GotoNot, AckNot, IdleNot DEF Finished
<1>7. CASE Enqueue(c) \/ Record(c) \/ Eligible(c)
  BY <1>0, <1>7, GotoNot, AckNot DEF Enqueue, Record, Eligible
<1>8. CASE Plan(c) \/ Run(c) \/ Mark(c) \/ Unmark(c)
  BY <1>0, <1>8, GotoNot DEF Plan, Run, Mark, Unmark
<1> QED
  BY <1>1, <1>2, <1>3, <1>4, <1>5, <1>6, <1>7, <1>8 DEF Work

LEMMA FaultNot ==
  ASSUME TypeInv, NEW c \in Consumers, Fault(c)
  PROVE  NotRecord(c)
<1>0. ConsOK /\ cons[c] \in Consumer
  BY DEF TypeInv, ConsOK
<1>1. CASE RecordFails(c)
  <2>1. NextSender(cons[c]).pc \in {"send", "throw"}
    BY <1>0 DEF NextSender, Consumer
  <2> QED
    BY <1>0, <1>1, <2>1 DEF RecordFails, NotRecord, ConsOK
<1> QED
  BY <1>0, <1>1, GotoNot, IdleNot
  DEF Fault, EnqueueFails, CallFails, StatementFails, FinishFails, Crash

\* A statement writes sent after a record was to be made, and no other outcome
\* that is settled.
LEMMA WorkSettles ==
  ASSUME TypeInv, SafeInv, NEW c \in Consumers, Work(c), NEW d \in Deliveries,
         delivery'[d] \in Settled
  PROVE  Was(d)
<1>0. delivery \in DeliveryTypes /\ ConsOK
  BY DEF TypeInv, TypeOK, DeliveryTypes
<1>1. CASE Record(c)
  <2>1. CASE cons[c].job = d
    <3>1. accepted[<<d, cons[c].sender>>] = 1
      BY <1>1, <2>1 DEF SafeInv, RecordHolds, Record, Key
    <3>2. cons[c].sender \in 1 .. Senders
      BY <1>0 DEF ConsOK, Consumer
    <3> QED
      BY <3>1, <3>2 DEF Was
  <2>2. CASE cons[c].job # d
    BY <1>0, <1>1, <2>2 DEF Record, DeliveryTypes, SafeInv
  <2> QED
    BY <2>1, <2>2
<1>2. CASE ~Record(c)
  <2>1. delivery[d] \in Settled
    BY <1>0, <1>2 DEF Work, Take, EndBatch, Throw, ThrowDue, Plan, Run, Select, Mark, Enqueue, Unmark,
       Count, Close, Campaign, Eligible, Call, Moved, tables, DeliveryTypes, Settled
  <2> QED
    BY <2>1 DEF SafeInv
<1> QED
  BY <1>1, <1>2

\* Consumers' own steps leave the mail alone.
LEMMA ConsumerSafe ==
  ASSUME TypeInv, SafeInv, NEW c \in Consumers, NotRecord(c), UNCHANGED mail,
         \A d \in Deliveries : delivery'[d] \in Settled => Was(d)
  PROVE  SafeInv'
<1>1. \A i \in Keys : KeyHolds(i)'
  BY DEF SafeInv, KeyHolds, Available, mail
<1>2. ASSUME NEW x \in Consumers  PROVE RecordHolds(x)'
  BY DEF SafeInv, RecordHolds, NotRecord, Key, mail
<1> QED
  BY <1>1, <1>2 DEF SafeInv, Was, mail

LEMMA WorkSafe ==
  ASSUME TypeInv, SafeInv, NEW c \in Consumers, Work(c), ~Call(c)
  PROVE  SafeInv'
<1>1. UNCHANGED mail
  BY DEF Work, Take, EndBatch, Throw, ThrowDue, Plan, Run, Select, Mark, Enqueue, Unmark, Count, Close,
     Campaign, Eligible, Record
<1> QED
  BY <1>1, WorkNot, WorkSettles, ConsumerSafe

LEMMA FaultSafe ==
  ASSUME TypeInv, SafeInv, NEW c \in Consumers, Fault(c)
  PROVE  SafeInv'
<1>1. UNCHANGED <<mail, delivery>>
  BY DEF Fault, EnqueueFails, CallFails, RecordFails, StatementFails, FinishFails, Crash, tables
<1>2. \A d \in Deliveries : delivery'[d] \in Settled => Was(d)
  BY <1>1 DEF SafeInv
<1> QED
  BY <1>1, <1>2, FaultNot, ConsumerSafe

\* A step of the Email Worker touches one key.
LEMMA OneKey ==
  ASSUME TypeInv, SafeInv, NEW i \in Keys, KeyHolds(i)',
         \A k \in Keys : k # i => /\ row'[k] = row[k] /\ session'[k] = session[k]
                                  /\ accepted'[k] = accepted[k]
  PROVE  \A k \in Keys : KeyHolds(k)'
  BY DEF SafeInv, KeyHolds, Available

\* What was accepted remains so.
LEMMA Monotone ==
  ASSUME TypeInv, SafeInv, \A k \in Keys : KeyHolds(k)', \A k \in Keys : accepted[k] <= accepted'[k],
         accepted' \in [Keys -> Nat], UNCHANGED <<delivery, noted>>,
         \A d \in Deliveries, o \in Notices : <<d, o>> \in events' => <<d, o>> \in events \/ Was(d),
         \A c \in Consumers : cons'[c].pc = "record" =>
           \/ cons'[c] = cons[c]
           \/ Key(c)' \in Keys /\ accepted'[Key(c)'] = 1
  PROVE  SafeInv'
<1>0. accepted \in [Keys -> Nat] /\ ConsOK
  BY DEF TypeInv, TypeOK
<1>1. ASSUME NEW d \in Deliveries, Was(d)  PROVE Was(d)'
  <2>1. PICK n \in 1 .. Senders : accepted[<<d, n>>] > 0
    BY <1>1 DEF Was
  <2>2. <<d, n>> \in Keys
    BY DEF Keys
  <2>3. accepted'[<<d, n>>] > 0
    BY <1>0, <2>1, <2>2
  <2> QED
    BY <2>3 DEF Was
<1>2. ASSUME NEW c \in Consumers, cons'[c].pc = "record"  PROVE accepted'[Key(c)'] = 1
  <2>1. CASE cons'[c] = cons[c]
    <3>1. cons[c].pc = "record" /\ Key(c)' = Key(c) /\ accepted[Key(c)] = 1
      BY <1>2, <2>1 DEF SafeInv, RecordHolds, Key
    <3>2. cons[c].job \in Deliveries /\ cons[c].sender \in 1 .. Senders
      BY <1>0, <3>1, InHand DEF OfDelivery, Consumer
    <3>3. Key(c) \in Keys
      BY <3>2 DEF Key, Keys
    <3>4. accepted'[Key(c)] <= 1 /\ accepted'[Key(c)] >= 1
      BY <1>0, <3>1, <3>3 DEF KeyHolds
    <3> QED
      BY <3>1, <3>3, <3>4
  <2> QED
    BY <1>2, <2>1
<1> QED
  BY <1>1, <1>2 DEF SafeInv, RecordHolds

LEMMA CallSafe ==
  ASSUME TypeInv, SafeInv, NEW c \in Consumers, Call(c)
  PROVE  SafeInv'
<1>0. /\ ConsOK /\ row \in RowTypes /\ session \in SessionTypes /\ accepted \in [Keys -> Nat]
  BY DEF TypeInv, TypeOK, RowTypes, SessionTypes
<1>1. cons[c] \in Consumer /\ cons[c].job \in Deliveries
  BY <1>0, InHand DEF Call, OfDelivery
<1>i. PICK i \in Keys : i = Key(c)
  BY <1>1 DEF Key, Keys, Consumer
<1>2. i \in Keys /\ KeyHolds(i)
  BY DEF SafeInv
<1>3. UNCHANGED <<delivery, accepted, events, noted>>
  BY DEF Call, tables
<1>4. ASSUME NEW pc, Goto(c, pc), pc = "record" => accepted[i] = 1
      PROVE  \A x \in Consumers : cons'[x].pc = "record" =>
               cons'[x] = cons[x] \/ (Key(x)' \in Keys /\ accepted'[Key(x)'] = 1)
  <2> DEFINE n == [cons[c] EXCEPT !.pc = pc]
  <2>1. n.pc = pc /\ n.job = cons[c].job /\ n.sender = cons[c].sender
    BY <1>1 DEF Consumer
  <2>2. cons' = [cons EXCEPT ![c] = n]
    BY <1>4 DEF Goto
  <2> HIDE DEF n
  <2>3. cons'[c] = n /\ \A x \in Consumers : x # c => cons'[x] = cons[x]
    BY <1>0, <2>2 DEF ConsOK
  <2>4. Key(c)' = i
    BY <1>i, <2>1, <2>3 DEF Key
  <2> QED
    BY <1>2, <1>3, <1>4, <2>1, <2>3, <2>4
<1>5. CASE Available(i)
  <2>1. /\ row' = [row EXCEPT ![i] = [status |-> "sending", leased |-> TRUE, known |-> FALSE]]
        /\ session' = [session EXCEPT ![i] = [state |-> "open", by |-> c]]
        /\ Goto(c, "await")
    BY <1>i, <1>5 DEF Call
  <2>2. KeyHolds(i)'
    BY <1>0, <1>2, <1>3, <1>5, <2>1 DEF KeyHolds, Available, RowTypes, SessionTypes
  <2>3. \A k \in Keys : KeyHolds(k)'
    BY <1>0, <1>2, <1>3, <2>1, <2>2, OneKey DEF RowTypes, SessionTypes
  <2> QED
    BY <1>0, <1>3, <1>4, <2>1, <2>3, Monotone
<1>6. CASE ~Available(i)
  <2> DEFINE r == [row[i] EXCEPT !.status = "outcome_unknown"]
  <2>1. /\ \/ row' = row
           \/ row' = [row EXCEPT ![i] = r] /\ row[i].status = "sending"
        /\ session' = session
        /\ Goto(c, IF row[i].status = "sent" THEN "record" ELSE "throw")
    BY <1>i, <1>6 DEF Call
  <2>2. r.status = "outcome_unknown" /\ r.known = row[i].known
    BY <1>0, <1>2 DEF RowTypes
  <2> HIDE DEF r
  <2>3. KeyHolds(i)'
    BY <1>0, <1>2, <1>3, <1>6, <2>1, <2>2 DEF KeyHolds, Available, RowTypes, SessionTypes
  <2>4. \A k \in Keys : KeyHolds(k)'
    BY <1>0, <1>2, <1>3, <2>1, <2>3, OneKey DEF RowTypes, SessionTypes
  <2>5. row[i].status = "sent" => accepted[i] = 1
    BY <1>2 DEF KeyHolds
  <2>6. \A x \in Consumers : cons'[x].pc = "record" =>
           cons'[x] = cons[x] \/ (Key(x)' \in Keys /\ accepted'[Key(x)'] = 1)
    BY <1>4, <2>1, <2>5
  <2> QED
    BY <1>0, <1>3, <2>4, <2>6, Monotone
<1> QED
  BY <1>5, <1>6

LEMMA ProviderSafe ==
  ASSUME TypeInv, SafeInv, NEW i \in Keys, Provider(i)
  PROVE  SafeInv'
<1>0. /\ ConsOK /\ row \in RowTypes /\ session \in SessionTypes /\ accepted \in [Keys -> Nat]
      /\ KeyHolds(i)
  BY DEF TypeInv, TypeOK, RowTypes, SessionTypes, SafeInv
<1>1. PICK state \in {"accepted", "rejected", "doubtful"} :
        /\ session' = [session EXCEPT ![i] = [session[i] EXCEPT !.state = state]]
        /\ \/ state # "rejected" /\ accepted' = [accepted EXCEPT ![i] = accepted[i] + 1]
           \/ state # "accepted" /\ accepted' = accepted
  BY DEF Provider
<1>2. session[i].state = "open" /\ UNCHANGED <<delivery, events, noted, cons, row>>
  BY DEF Provider, tables
<1>3. session'[i].state = state
  BY <1>0, <1>1 DEF SessionTypes
<1>4. KeyHolds(i)'
  BY <1>0, <1>1, <1>2, <1>3 DEF KeyHolds, Available, RowTypes
<1>5. \A k \in Keys : KeyHolds(k)'
  BY <1>0, <1>1, <1>2, <1>4, OneKey DEF RowTypes, SessionTypes
<1>6. accepted' \in [Keys -> Nat] /\ \A k \in Keys : accepted[k] <= accepted'[k]
  BY <1>0, <1>1
<1> QED
  BY <1>2, <1>5, <1>6, Monotone

\* An answer that tells of an acceptance follows one.
LEMMA AnswerRecords ==
  ASSUME TypeInv, NEW i \in Keys, NEW k, Answer(i, k), session[i].state # "none", accepted' = accepted,
         k.pc = "record" => k.job = Caller(i).job /\ k.sender = Caller(i).sender /\ accepted[i] = 1
  PROVE  \A x \in Consumers : cons'[x].pc = "record" =>
           cons'[x] = cons[x] \/ (Key(x)' \in Keys /\ accepted'[Key(x)'] = 1)
<1>c. PICK c \in Consumers : c = session[i].by
  BY DEF TypeInv, BySomeone
<1>1. ConsOK
  BY DEF TypeInv
<1>2. CASE Waits(c, i)
  <2>1. cons' = [cons EXCEPT ![c] = k]
    BY <1>c, <1>2 DEF Answer
  <2>2. cons'[c] = k /\ \A x \in Consumers : x # c => cons'[x] = cons[x]
    BY <1>1, <2>1 DEF ConsOK
  <2>3. k.pc = "record" => Key(c)' = i
    BY <1>c, <1>2, <2>2 DEF Waits, Key, Caller
  <2>4. ASSUME NEW x \in Consumers, cons'[x].pc = "record"
        PROVE  cons'[x] = cons[x] \/ (Key(x)' \in Keys /\ accepted'[Key(x)'] = 1)
    <3>1. CASE x = c
      <4>1. Key(x)' = i /\ accepted[i] = 1
        BY <2>2, <2>3, <2>4, <3>1
      <4> QED
        BY <4>1
    <3>2. CASE x # c
      BY <2>2, <3>2
    <3> QED
      BY <3>1, <3>2
  <2> QED
    BY <2>4
<1>3. CASE ~Waits(c, i)
  BY <1>c, <1>3 DEF Answer
<1> QED
  BY <1>2, <1>3

LEMMA AnswerSafe ==
  ASSUME TypeInv, SafeInv, NEW i \in Keys,
         \/ Receipt(i) \/ Refusal(i) \/ Doubt(i) \/ PersistFails(i) \/ SessionDies(i)
  PROVE  SafeInv'
<1>0. /\ ConsOK /\ row \in RowTypes /\ session \in SessionTypes /\ accepted \in [Keys -> Nat]
      /\ KeyHolds(i)
  BY DEF TypeInv, TypeOK, RowTypes, SessionTypes, SafeInv
<1>1. /\ UNCHANGED <<delivery, accepted, events, noted>>
      /\ session[i].state # "none" /\ session' = [session EXCEPT ![i] = NoSession]
  BY DEF Receipt, Refusal, Doubt, PersistFails, SessionDies, Answer, tables
<1>2. session'[i].state = "none" /\ Caller(i) \in Consumer
  BY <1>0, <1>1 DEF SessionTypes, NoSession, Caller, ConsOK, TypeInv, BySomeone
<1>3. \/ row' = row
      \/ session[i].state = "accepted" /\ Write(i, "sent", TRUE)
      \/ session[i].state = "accepted" /\ Write(i, "outcome_unknown", TRUE)
      \/ session[i].state = "rejected" /\ Write(i, "failed", FALSE)
      \/ session[i].state = "doubtful" /\ Write(i, "outcome_unknown", FALSE)
  BY DEF Receipt, Refusal, Doubt, PersistFails, SessionDies
<1>4. KeyHolds(i)'
  BY <1>0, <1>1, <1>2, <1>3 DEF KeyHolds, Available, RowTypes, Write
<1>5. \A k \in Keys : k # i => /\ row'[k] = row[k] /\ session'[k] = session[k]
                              /\ accepted'[k] = accepted[k]
  BY <1>0, <1>1, <1>3 DEF RowTypes, SessionTypes, Write
<1>6. \A k \in Keys : KeyHolds(k)'
  BY <1>4, <1>5, OneKey
<1>7. \E k : Answer(i, k) /\ (k.pc = "record" => /\ k.job = Caller(i).job /\ k.sender = Caller(i).sender
                                                /\ accepted[i] = 1)
  <2>1. Doubted(i).pc = "throw"
    BY <1>2 DEF Doubted, Consumer
  <2>2. NextSender(Caller(i)).pc \in {"send", "throw"}
    BY <1>2 DEF NextSender, Consumer
  <2>3. CASE Receipt(i) /\ row[i].status = "sending"
    <3> DEFINE k == [Caller(i) EXCEPT !.pc = "record"]
    <3>1. Answer(i, k)
      BY <2>3 DEF Receipt
    <3>2. k.job = Caller(i).job /\ k.sender = Caller(i).sender
      BY <1>2 DEF Consumer
    <3>3. accepted[i] = 1
      BY <1>0, <2>3 DEF Receipt, KeyHolds
    <3> HIDE DEF k
    <3> QED
      BY <3>1, <3>2, <3>3
  <2>4. CASE Refusal(i)
    BY <2>2, <2>4 DEF Refusal
  <2>5. CASE ~Refusal(i) /\ ~(Receipt(i) /\ row[i].status = "sending")
    <3>1. Answer(i, Doubted(i))
      BY <2>5 DEF Receipt, Doubt, PersistFails, SessionDies
    <3> QED
      BY <2>1, <3>1
  <2> QED
    BY <2>3, <2>4, <2>5
<1>8. \A x \in Consumers : cons'[x].pc = "record" =>
        cons'[x] = cons[x] \/ (Key(x)' \in Keys /\ accepted'[Key(x)'] = 1)
  BY <1>1, <1>7, AnswerRecords
<1> QED
  BY <1>0, <1>1, <1>6, <1>8, Monotone

LEMMA RowSafe ==
  ASSUME TypeInv, SafeInv, NEW i \in Keys, LeaseExpires(i) \/ \E o \in Notices : Notify(i, o)
  PROVE  SafeInv'
<1>0. /\ ConsOK /\ row \in RowTypes /\ session \in SessionTypes /\ accepted \in [Keys -> Nat]
      /\ KeyHolds(i)
  BY DEF TypeInv, TypeOK, RowTypes, SessionTypes, SafeInv
<1>1. UNCHANGED <<delivery, accepted, session, cons, noted>>
  BY DEF LeaseExpires, Notify, tables
<1>2. CASE LeaseExpires(i)
  <2> DEFINE r == [row[i] EXCEPT !.leased = FALSE]
  <2>1. r.status = row[i].status /\ r.known = row[i].known
    BY <1>0 DEF RowTypes
  <2>2. row' = [row EXCEPT ![i] = r]
    BY <1>2 DEF LeaseExpires
  <2> HIDE DEF r
  <2>3. KeyHolds(i)'
    BY <1>0, <1>1, <2>1, <2>2 DEF KeyHolds, Available, RowTypes
  <2>4. \A k \in Keys : KeyHolds(k)'
    BY <1>0, <1>1, <2>2, <2>3, OneKey DEF RowTypes
  <2> QED
    BY <1>0, <1>1, <1>2, <2>4, Monotone DEF LeaseExpires
<1>3. ASSUME NEW o \in Notices, Notify(i, o)  PROVE SafeInv'
  <2>1. accepted[i] = 1 /\ i[1] \in Deliveries /\ i[2] \in 1 .. Senders /\ i = <<i[1], i[2]>>
    BY <1>0, <1>3 DEF Notify, KeyHolds, Keys
  <2>2. Was(i[1])
    BY <2>1 DEF Was
  <2>3. KeyHolds(i)'
    BY <1>0, <1>1, <1>3, <2>1 DEF Notify, KeyHolds, Available, RowTypes
  <2>4. \A k \in Keys : k # i => row'[k] = row[k]
    BY <1>0, <1>3 DEF Notify, RowTypes
  <2>5. \A k \in Keys : KeyHolds(k)'
    BY <1>1, <2>3, <2>4, OneKey
  <2>6. \A d \in Deliveries, p \in Notices : <<d, p>> \in events' => <<d, p>> \in events \/ Was(d)
    BY <1>3, <2>2 DEF Notify
  <2> QED
    BY <1>0, <1>1, <2>5, <2>6, Monotone
<1> QED
  BY <1>2, <1>3

\* The other steps touch neither rows nor consumers.
LEMMA OtherSafe ==
  ASSUME TypeInv, SafeInv,
         \/ Operator
         \/ \E j \in Jobs : Quarantine(j) \/ Replay(j)
         \/ \E d \in Deliveries, o \in Outcomes : Apply(d, o)
         \/ \E d \in Deliveries : Tells(d)
  PROVE  SafeInv'
<1>1. UNCHANGED <<cons, row, session, accepted>> /\ events' \subseteq events
  BY DEF Operator, Start, StartDies, Schedule, Pause, Cancel, Archive, Cron, Moves, Unsubscribe,
         Subscribe, Quarantine, Replay, Apply, Tells, Delayed, WriteBack, mail
<1>2. ASSUME NEW d \in Deliveries, delivery'[d] \in Settled  PROVE Was(d)
  <2>1. CASE \E e \in Deliveries, o \in Outcomes : Apply(e, o)
    BY <1>2, <2>1 DEF Apply, SafeInv, TypeInv, TypeOK, Notices
  <2>2. ASSUME NEW e \in Deliveries, NEW status \in Progress, WriteBack(e, status)  PROVE Was(d)
    BY <1>2, <2>2 DEF WriteBack, SafeInv, TypeInv, TypeOK
  <2>3. CASE /\ ~\E e \in Deliveries, o \in Outcomes : Apply(e, o)
             /\ ~\E e \in Deliveries : \E status \in Progress : WriteBack(e, status)
    <3>1. delivery[d] \in Settled
      BY <1>2, <2>3 DEF Operator, Start, StartDies, Schedule, Pause, Cancel, Archive, Cron, Moves,
         Unsubscribe, Subscribe, Quarantine, Replay, Tells, Delayed, Settled, TypeInv,
         TypeOK, tables
    <3> QED
      BY <3>1 DEF SafeInv
  <2> QED
    BY <2>1, <2>2, <2>3
<1>3. \A i \in Keys : KeyHolds(i)'
  BY <1>1 DEF SafeInv, KeyHolds, Available
<1>4. \A c \in Consumers : RecordHolds(c)'
  BY <1>1 DEF SafeInv, RecordHolds, Key
<1>5. ASSUME NEW d \in Deliveries, NEW status \in Settled, <<d, status>> \in noted'  PROVE Was(d)
  <2>1. CASE <<d, status>> \in noted
    BY <1>5, <2>1 DEF SafeInv
  <2>2. CASE \E e \in Deliveries : Delayed(e)
    BY <1>5, <2>2 DEF Delayed, SafeInv
  <2>3. CASE ~\E e \in Deliveries : Delayed(e)
    <3>1. noted' \subseteq noted
      BY <2>3 DEF Operator, Start, StartDies, Schedule, Pause, Cancel, Archive, Cron, Moves,
         Unsubscribe, Subscribe, Quarantine, Replay, Apply, Tells, WriteBack, mail
    <3> QED
      BY <1>5, <3>1 DEF SafeInv
  <2> QED
    BY <2>2, <2>3
<1>6. \A d \in Deliveries : Was(d) = Was(d)'
  BY <1>1 DEF Was
<1>7. \A d \in Deliveries, o \in Notices : <<d, o>> \in events' => Was(d)
  BY <1>1 DEF SafeInv
<1> QED
  BY <1>2, <1>3, <1>4, <1>5, <1>6, <1>7 DEF SafeInv

\* The strengthening of the three properties holds in every state.
THEOREM Safe == Spec => []SafeInv
<1>1. Init => SafeInv
  BY DEF Init, SafeInv, KeyHolds, RecordHolds, Available, NoRow, NoSession, Idle, Settled
<1>2. TypeInv /\ SafeInv /\ [Next]_vars => SafeInv'
  <2> SUFFICES ASSUME TypeInv, SafeInv, [Next]_vars PROVE SafeInv'
    OBVIOUS
  <2>1. CASE UNCHANGED vars
    BY <2>1 DEF vars, tables, mail, SafeInv, KeyHolds, RecordHolds, Available, Was, Key
  <2>2. ASSUME NEW c \in Consumers, Work(c)  PROVE SafeInv'
    BY <2>2, WorkSafe, CallSafe
  <2>3. ASSUME NEW i \in Keys, Mail(i)  PROVE SafeInv'
    BY <2>3, ProviderSafe, AnswerSafe, RowSafe DEF Mail, Settle
  <2> QED
    BY <2>1, <2>2, <2>3, FaultSafe, OtherSafe DEF Next, Tells
<1> QED
  BY <1>1, <1>2, TypeInvariant, PTL DEF Spec

\* A key's message is accepted once at most, for any number of senders,
\* consumers, attempts, replays, faults and crashes.
THEOREM AcceptancesOnce == Spec => []AcceptedOnce
<1>1. SafeInv => AcceptedOnce
  BY DEF SafeInv, KeyHolds, AcceptedOnce
<1> QED
  BY <1>1, Safe, PTL

\* Only a key that no provider accepted is sent again.
THEOREM RetriesSafe == Spec => []RetryIsSafe
<1>1. SafeInv => RetryIsSafe
  BY DEF SafeInv, KeyHolds, RetryIsSafe
<1> QED
  BY <1>1, Safe, PTL

\* What Marketing says was sent, delivered or bounced was accepted.
THEOREM SentAccepted == Spec => []SentIsAccepted
<1>1. SafeInv => SentIsAccepted
  BY DEF SafeInv, Was, SentIsAccepted
<1> QED
  BY <1>1, Safe, PTL

------------------------------------------------------------------------------
(* What a step does to the consumer that takes it                          *)

Others(c) == \A x \in Consumers : x # c => cons'[x] = cons[x]

\* The consumer remembers the same of its batch and has the same in hand.
SameBatch(c) == cons'[c].seen = cons[c].seen /\ cons'[c].acked = cons[c].acked
SameHand(c) == cons'[c].job = cons[c].job /\ cons'[c].picked = cons[c].picked

\* The message m is acknowledged.
Acks(c, m, due) ==
  /\ Others(c)
  /\ cons'[c].pc = "batch" /\ cons'[c].job = "none" /\ cons'[c].picked = {}
  /\ cons'[c].due = (cons[c].due \/ due) /\ cons'[c].acked = Append(cons[c].acked, m)

Goes(c, pc) ==
  /\ Others(c) /\ SameBatch(c) /\ SameHand(c)
  /\ cons'[c].pc = pc /\ cons'[c].due = cons[c].due

Rests(c) == Others(c) /\ cons'[c] = Idle

LEMMA GotoGoes ==
  ASSUME TypeInv, NEW c \in Consumers, NEW pc, Goto(c, pc)
  PROVE  Goes(c, pc)
<1>1. cons[c] \in Consumer /\ cons'[c] = [cons[c] EXCEPT !.pc = pc] /\ Others(c)
  BY DEF TypeInv, ConsOK, Goto, Others
<1> QED BY <1>1 DEF Goes, SameBatch, SameHand, Consumer

LEMMA BetweenFields ==
  ASSUME NEW c \in Consumers
  PROVE  /\ Between(c).pc = "batch" /\ Between(c).job = "none" /\ Between(c).picked = {}
         /\ Between(c).seen = cons[c].seen /\ Between(c).due = cons[c].due
         /\ Between(c).acked = cons[c].acked
BY DEF Between, At

LEMMA AckedAcks ==
  ASSUME TypeInv, NEW c \in Consumers, NEW k \in Consumer, NEW m, NEW due, Acked(c, k, m, due),
         k.pc = "batch", k.job = "none", k.picked = {}, k.due = cons[c].due,
         k.acked = cons[c].acked
  PROVE  Acks(c, m, due) /\ cons'[c].seen = k.seen
<1> DEFINE n == [k EXCEPT !.due = k.due \/ due, !.acked = Append(k.acked, m)]
<1>1. /\ n.pc = k.pc /\ n.job = k.job /\ n.picked = k.picked /\ n.seen = k.seen
      /\ n.due = (k.due \/ due) /\ n.acked = Append(k.acked, m)
  BY DEF Consumer
<1>2. cons'[c] = n /\ Others(c)
  BY DEF TypeInv, ConsOK, Acked, Others
<1> HIDE DEF n
<1> QED BY <1>1, <1>2 DEF Acks

LEMMA AckAcks ==
  ASSUME TypeInv, NEW c \in Consumers
  PROVE  /\ Ack(c) => Acks(c, Message(c), FALSE) /\ cons'[c].seen = cons[c].seen
         /\ AckDue(c) => Acks(c, Message(c), TRUE) /\ cons'[c].seen = cons[c].seen
BY BetweenType, BetweenFields, AckedAcks DEF TypeInv, Ack, AckDue

LEMMA TakeTurns ==
  ASSUME TypeInv, NEW c \in Consumers, NEW m \in Messages, Take(c, m)
  PROVE  /\ cons'[c].seen = cons[c].seen
         /\ \/ /\ m[1] = Dispatch \/ delivery[m[1]] \notin Settled
               /\ Others(c) /\ SameBatch(c) /\ cons'[c].due = cons[c].due
               /\ cons'[c].job = m[1] /\ cons'[c].picked = {}
               /\ cons'[c].pc = IF m[1] = Dispatch THEN "plan" ELSE "campaign"
            \/ Acks(c, m, FALSE) /\ (m[1] = Dispatch \/ delivery[m[1]] \in Settled)
<1> DEFINE first == At(c, IF m[1] = Dispatch THEN "plan" ELSE "campaign", m[1], m[2])
           k == [first EXCEPT !.room = cons[c].room - 1]
           b == [Between(c) EXCEPT !.room = cons[c].room - 1]
<1>0. ConsOK /\ cons[c] \in Consumer
  BY DEF TypeInv, ConsOK
<1>1. /\ k.pc = IF m[1] = Dispatch THEN "plan" ELSE "campaign"
      /\ k.job = m[1] /\ k.picked = {} /\ k.seen = cons[c].seen /\ k.due = cons[c].due
      /\ k.acked = cons[c].acked
  BY DEF At
<1>2. cons[c].room - 1 \in 0 .. BatchSize
  <2>1. cons[c].room \in 0 .. BatchSize /\ cons[c].room > 0 /\ BatchSize \in Nat
    BY <1>0 DEF Consumer, Take
  <2> QED BY <2>1
<1>3. b \in Consumer /\ b.pc = "batch" /\ b.job = "none" /\ b.picked = {}
      /\ b.seen = cons[c].seen /\ b.due = cons[c].due /\ b.acked = cons[c].acked
  <2>1. Between(c) \in Consumer
    BY <1>0, BetweenType
  <2> QED BY <1>2, <2>1, BetweenFields DEF Consumer
<1>4. \/ cons' = [cons EXCEPT ![c] = k] /\ (m[1] = Dispatch \/ delivery[m[1]] \notin Settled)
      \/ Acked(c, b, m, FALSE) /\ (m[1] = Dispatch \/ delivery[m[1]] \in Settled)
  BY DEF Take
<1> HIDE DEF k, b
<1>5. CASE cons' = [cons EXCEPT ![c] = k] /\ (m[1] = Dispatch \/ delivery[m[1]] \notin Settled)
  BY <1>0, <1>1, <1>5 DEF ConsOK, Others, SameBatch
<1>6. CASE Acked(c, b, m, FALSE) /\ (m[1] = Dispatch \/ delivery[m[1]] \in Settled)
  BY <1>3, <1>6, AckedAcks
<1> QED BY <1>4, <1>5, <1>6

LEMMA BatchTurns ==
  ASSUME TypeInv, NEW c \in Consumers
  PROVE  /\ EndBatch(c) => (Goes(c, "count") /\ cons[c].due) \/ Rests(c)
         /\ Throw(c) => /\ Others(c) /\ SameBatch(c)
                        /\ cons'[c].pc = "batch" /\ cons'[c].job = "none" /\ cons'[c].picked = {}
                        /\ cons'[c].due => cons[c].due \/ cons[c].job \in Deliveries
         /\ \A S : Select(c, S) =>
              /\ Others(c) /\ SameBatch(c)
              /\ cons'[c].job = cons[c].job /\ cons'[c].picked = S /\ cons'[c].due = cons[c].due
              /\ cons'[c].pc \in {"count", "mark"}
         /\ Finished(c) => \/ Rests(c)
                           \/ /\ cons[c].job # "none" /\ Acks(c, Message(c), FALSE)
                              /\ cons'[c].seen = cons[c].seen
<1>0. ConsOK /\ cons[c] \in Consumer
  BY DEF TypeInv, ConsOK
<1>1. ASSUME EndBatch(c)
      PROVE  (Goes(c, "count") /\ cons[c].due) \/ Rests(c)
  <2>1. CASE cons[c].due
    BY <1>1, <2>1, GotoGoes DEF EndBatch, Goto
  <2>2. CASE ~cons[c].due
    BY <1>0, <1>1, <2>2 DEF EndBatch, Rests, Others, ConsOK
  <2> QED BY <2>1, <2>2
<1>2. ASSUME Throw(c)
      PROVE  /\ Others(c) /\ SameBatch(c)
             /\ cons'[c].pc = "batch" /\ cons'[c].job = "none" /\ cons'[c].picked = {}
             /\ cons'[c].due => cons[c].due \/ cons[c].job \in Deliveries
  <2> DEFINE n == [Between(c) EXCEPT !.due = cons[c].due \/ Fails(c)]
  <2>1. Between(c) \in Consumer
    BY <1>0, BetweenType
  <2>2. /\ n.pc = "batch" /\ n.job = "none" /\ n.picked = {} /\ n.seen = cons[c].seen
        /\ n.acked = cons[c].acked /\ n.due = (cons[c].due \/ Fails(c))
    BY <2>1, BetweenFields DEF Consumer
  <2>3. cons' = [cons EXCEPT ![c] = n]
    BY <1>2 DEF Throw, ThrowDue
  <2> HIDE DEF n
  <2> QED BY <1>0, <2>2, <2>3 DEF Others, SameBatch, ConsOK, Fails
<1>3. ASSUME NEW S, Select(c, S)
      PROVE  /\ Others(c) /\ SameBatch(c)
             /\ cons'[c].job = cons[c].job /\ cons'[c].picked = S /\ cons'[c].due = cons[c].due
             /\ cons'[c].pc \in {"count", "mark"}
  <2> DEFINE n == [cons[c] EXCEPT !.picked = S, !.pc = IF S = {} THEN "count" ELSE "mark"]
  <2>1. /\ n.pc \in {"count", "mark"} /\ n.job = cons[c].job /\ n.picked = S
        /\ n.seen = cons[c].seen /\ n.acked = cons[c].acked /\ n.due = cons[c].due
    BY <1>0 DEF Consumer
  <2>2. cons' = [cons EXCEPT ![c] = n]
    BY <1>3 DEF Select
  <2> HIDE DEF n
  <2> QED BY <1>0, <2>1, <2>2 DEF Others, SameBatch, ConsOK
<1>4. ASSUME Finished(c)
      PROVE  \/ Rests(c)
             \/ /\ cons[c].job # "none" /\ Acks(c, Message(c), FALSE)
                /\ cons'[c].seen = cons[c].seen
  BY <1>0, <1>4, AckAcks DEF Finished, Rests, Others, ConsOK
<1> QED BY <1>1, <1>2, <1>3, <1>4

\* The campaign's status that a batch goes by is one it read.
LEMMA CampaignTurns ==
  ASSUME TypeInv, NEW c \in Consumers, Campaign(c)
  PROVE  /\ cons'[c].seen \in {campaign, cons[c].seen}
         /\ \/ /\ Acks(c, Message(c), FALSE)
               /\ cons'[c].seen \in {"cancelled", "archived", "paused"}
               /\ cons'[c].seen = "paused" => Paused(c)
            \/ /\ Others(c) /\ SameHand(c) /\ cons'[c].pc = "eligible"
               /\ cons'[c].due = cons[c].due /\ cons'[c].acked = cons[c].acked
<1> DEFINE seen == IF cons[c].seen = "unread" THEN campaign ELSE cons[c].seen
           b == [Between(c) EXCEPT !.seen = seen]
           n == [cons[c] EXCEPT !.pc = "eligible", !.seen = seen]
<1>0. ConsOK /\ cons[c] \in Consumer
  BY DEF TypeInv, ConsOK
<1>1. seen \in Statuses
  BY <1>0 DEF Consumer, TypeInv, TypeOK
<1>2. \/ cons' = [cons EXCEPT ![c] = n]
      \/ /\ Acked(c, b, Message(c), FALSE)
         /\ seen \in {"cancelled", "archived", "paused"} /\ (seen = "paused" => Paused(c))
  BY DEF Campaign
<1>3. seen \in {campaign, cons[c].seen}
  OBVIOUS
<1> HIDE DEF seen
<1>4. /\ n.pc = "eligible" /\ n.job = cons[c].job /\ n.picked = cons[c].picked /\ n.seen = seen
      /\ n.acked = cons[c].acked /\ n.due = cons[c].due
  BY <1>0 DEF Consumer
<1>5. /\ b \in Consumer /\ b.pc = "batch" /\ b.job = "none" /\ b.picked = {} /\ b.seen = seen
      /\ b.due = cons[c].due /\ b.acked = cons[c].acked
  <2>1. Between(c) \in Consumer
    BY <1>0, BetweenType
  <2> QED BY <1>1, <2>1, BetweenFields DEF Consumer
<1> HIDE DEF n, b
<1>6. CASE cons' = [cons EXCEPT ![c] = n]
  BY <1>0, <1>3, <1>4, <1>6 DEF Others, SameHand, ConsOK
<1>7. CASE Acked(c, b, Message(c), FALSE)
  BY <1>2, <1>3, <1>5, <1>6, <1>7, AckedAcks
<1> QED BY <1>2, <1>6, <1>7

\* A sender that failed leads to the next one or to a failure.
LEMMA NextSenderTurns ==
  ASSUME NEW k \in Consumer
  PROVE  /\ NextSender(k).pc \in {"send", "throw"} /\ NextSender(k).job = k.job
         /\ NextSender(k).picked = k.picked /\ NextSender(k).seen = k.seen
         /\ NextSender(k).due = k.due /\ NextSender(k).acked = k.acked
BY DEF NextSender, Consumer

\* A consumer that is answered goes on with what it has in hand.
LEMMA AnswerTurns ==
  ASSUME TypeInv, NEW i \in Keys,
         Receipt(i) \/ Refusal(i) \/ Doubt(i) \/ PersistFails(i) \/ SessionDies(i)
  PROVE  \/ cons' = cons
         \/ \E c \in Consumers :
              /\ Others(c) /\ SameBatch(c) /\ SameHand(c) /\ cons'[c].due = cons[c].due
              /\ cons[c].pc = "await" /\ cons'[c].pc \in {"record", "send", "throw"}
<1> DEFINE c == session[i].by
           Like(k) == /\ k.job = cons[c].job /\ k.picked = cons[c].picked /\ k.seen = cons[c].seen
                      /\ k.acked = cons[c].acked /\ k.due = cons[c].due
                      /\ k.pc \in {"record", "send", "throw"}
<1>1. c \in Consumers
  BY DEF TypeInv, BySomeone, Receipt, Refusal, Doubt, PersistFails, SessionDies
<1>2. cons[c] \in Consumer
  BY <1>1 DEF TypeInv, ConsOK
<1>3. /\ Like([Caller(i) EXCEPT !.pc = "record"]) /\ Like(Doubted(i))
      /\ Like(NextSender(Caller(i)))
  BY <1>2, NextSenderTurns DEF Caller, Doubted, Consumer
<1> HIDE DEF Like
<1>4. \E k : Like(k) /\ Answer(i, k)
  BY <1>3 DEF Receipt, Refusal, Doubt, PersistFails, SessionDies
<1>5. PICK k : Like(k) /\ Answer(i, k)
  BY <1>4
<1>6. CASE ~Waits(c, i)
  BY <1>5, <1>6 DEF Answer
<1>7. CASE Waits(c, i)
  <2>1. cons' = [cons EXCEPT ![c] = k]
    BY <1>5, <1>7 DEF Answer
  <2> QED BY <1>1, <1>5, <1>7, <2>1
          DEF Like, Others, SameBatch, SameHand, Waits, TypeInv, ConsOK
<1> QED BY <1>6, <1>7
------------------------------------------------------------------------------
(* Every delivery that is marked as sending has a job, when no Worker is   *)
(* killed, no one cancels or archives the campaign, and a dispatch that    *)
(* could not enqueue can undo its marks.                                   *)

Orderly ==
  /\ MaxCrashes = 0
  /\ MaxFaults <= 1
  /\ Controls \cap {"cancel", "archive"} = {}

\* No consumer drops its job: a campaign that is stopped is only paused, and
\* the statement that undoes the marks does not fail.
Quiet ==
  /\ left.crashes = 0 /\ left.faults <= 1
  /\ campaign \notin {"cancelled", "archived"}
  /\ \A c \in Consumers :
       /\ cons[c].seen \notin {"cancelled", "archived"}
       /\ cons[c].pc = "unmark" => left.faults = 0
       /\ cons[c].pc \in OfDispatch \cup {"count", "close"} => cons[c].job \notin Deliveries

Queued(d) == \E n \in 1 .. MaxTries : queue[<<d, n>>] > 0

Held(c, d) ==
  \/ cons[c].job = d
  \/ cons[c].pc \in {"enqueue", "unmark"} /\ d \in cons[c].picked

LEMMA Handed ==
  ASSUME NEW c \in Consumers, Others(c), NEW d \in Deliveries, HasJob(d),
         Queued(d) => Queued(d)' \/ Held(c, d)', dead[d] > 0 => dead'[d] > 0,
         Held(c, d) => Held(c, d)' \/ Queued(d)' \/ dead'[d] > 0
  PROVE  HasJob(d)'
BY DEF HasJob, Queued, Held, Others

LEMMA SentHas ==
  ASSUME NEW q \in [Messages -> Nat], NEW S, NEW m \in Messages
  PROVE  Sent(q, S)[m] >= q[m] /\ (m \in S => Sent(q, S)[m] > 0)
BY DEF Sent

\* The queue only grows.
LEMMA Grows ==
  ASSUME TypeInv, NEW S, queue' = Sent(queue, S), NEW d \in Deliveries
  PROVE  /\ Queued(d) => Queued(d)'
         /\ \A n \in 1 .. MaxTries : <<d, n>> \in S => Queued(d)'
<1>1. queue \in [Messages -> Nat] /\ \A n \in 1 .. MaxTries : <<d, n>> \in Messages
  BY DEF TypeInv, TypeOK, Messages, Jobs
<1>2. ASSUME NEW n \in 1 .. MaxTries
      PROVE  (queue[<<d, n>>] > 0 \/ <<d, n>> \in S) => queue'[<<d, n>>] > 0
  BY <1>1, <1>2 DEF Sent
<1> QED BY <1>2 DEF Queued

LEMMA InitQuiet == Orderly /\ Init => Quiet /\ NobodyForgotten
BY DEF Orderly, Init, Quiet, NobodyForgotten, Idle, OfDispatch

LEMMA QuietStep ==
  ASSUME Quiet, left \in Budget, left' \in Budget,
         left'.crashes = 0, left'.faults <= left.faults,
         campaign' \notin {"cancelled", "archived"},
         NEW c \in Consumers, Others(c), cons'[c].seen \notin {"cancelled", "archived"},
         cons'[c].pc = "unmark" => left'.faults = 0,
         cons'[c].pc \in OfDispatch \cup {"count", "close"} => cons'[c].job \notin Deliveries
  PROVE  Quiet'
<1>1. left.faults \in Nat /\ left'.faults \in Nat
  BY DEF Budget
<1>2. left'.faults <= 1 /\ (left.faults = 0 => left'.faults = 0)
  BY <1>1 DEF Quiet
<1> QED BY <1>2 DEF Quiet, Others

LEMMA WorkQuiet ==
  ASSUME TypeInv, Quiet, NEW c \in Consumers, Work(c)
  PROVE  Quiet'
<1>0. /\ left' = left /\ left \in Budget /\ left.faults \in Nat
      /\ "none" \notin Deliveries /\ Dispatch \notin Deliveries
      /\ cons[c].pc \in OfDelivery => cons[c].job \in Deliveries
  BY DEF TypeInv, TypeOK, Budget, Work, Take, EndBatch, Throw, ThrowDue, Plan, Run, Select, Mark,
         Enqueue, Unmark, Count, Close, Campaign, Eligible, Call, Record, ConsOK, Fits
<1>1. campaign' \notin {"cancelled", "archived"}
  BY DEF Quiet, Work, Take, EndBatch, Throw, ThrowDue, Plan, Run, Select, Mark, Enqueue, Unmark,
         Count, Close, Campaign, Eligible, Call, Record, tables
<1>2. ASSUME Others(c), cons'[c].seen \in {cons[c].seen, campaign, "unread"},
             cons'[c].pc # "unmark",
             cons'[c].pc \in OfDispatch \cup {"count", "close"} => cons'[c].job \notin Deliveries
      PROVE  Quiet'
  <2>1. cons'[c].seen \notin {"cancelled", "archived"} /\ left.crashes = 0
    BY <1>2 DEF Quiet
  <2> QED BY <1>0, <1>1, <1>2, <2>1, QuietStep
<1>3. ASSUME Rests(c)
      PROVE  Quiet'
  BY <1>2, <1>3 DEF Rests, Idle, OfDispatch
<1>4. ASSUME NEW m, NEW due, Acks(c, m, due), cons'[c].seen \in {cons[c].seen, campaign}
      PROVE  Quiet'
  BY <1>2, <1>4 DEF Acks, OfDispatch
<1>5. ASSUME NEW pc, Goes(c, pc), pc # "unmark",
             pc \in OfDispatch \cup {"count", "close"} => cons[c].job \notin Deliveries
      PROVE  Quiet'
  BY <1>2, <1>5 DEF Goes, SameBatch, SameHand
<1>6. ASSUME NEW m \in Messages, Take(c, m)
      PROVE  Quiet'
  BY <1>0, <1>2, <1>4, <1>6, TakeTurns DEF SameBatch, OfDispatch
<1>7. CASE EndBatch(c)
  <2>1. cons[c].job = "none"
    BY <1>7 DEF EndBatch, TypeInv, ConsOK, Fits
  <2> QED BY <1>0, <1>3, <1>5, <1>7, <2>1, BatchTurns
<1>8. CASE Throw(c)
  BY <1>2, <1>8, BatchTurns DEF SameBatch, OfDispatch
<1>9. CASE \E S \in SUBSET Deliveries : Select(c, S)
  <2>1. cons[c].job \notin Deliveries
    BY <1>9 DEF Quiet, Select, OfDispatch
  <2> QED BY <1>2, <1>9, <2>1, BatchTurns DEF SameBatch
<1>10. CASE Plan(c) \/ Run(c) \/ Mark(c) \/ Unmark(c)
  <2>1. cons[c].job \notin Deliveries
    BY <1>10 DEF Quiet, Plan, Run, Mark, Unmark, OfDispatch
  <2> QED BY <1>5, <1>10, <2>1, GotoGoes DEF Plan, Run, Mark, Unmark
<1>11. CASE Enqueue(c) \/ Record(c)
  BY <1>4, <1>11, AckAcks DEF Enqueue, Record
<1>12. CASE Count(c) \/ Close(c)
  <2>1. cons[c].job \notin Deliveries
    BY <1>12 DEF Quiet, Count, Close
  <2>2. Goto(c, "close") \/ Finished(c)
    BY <1>12 DEF Count, Close
  <2> QED BY <1>3, <1>4, <1>5, <2>1, <2>2, GotoGoes, BatchTurns
<1>13. CASE Campaign(c)
  BY <1>2, <1>4, <1>13, CampaignTurns DEF OfDispatch
<1>14. CASE Eligible(c) \/ Call(c)
  <2>1. \/ \E pc \in {"send", "await", "record", "throw"} : Goto(c, pc)
        \/ AckDue(c)
    BY <1>14 DEF Eligible, Call
  <2> QED BY <1>4, <1>5, <2>1, GotoGoes, AckAcks DEF OfDispatch
<1> QED BY <1>6, <1>7, <1>8, <1>9, <1>10, <1>11, <1>12, <1>13, <1>14 DEF Work

LEMMA FaultQuiet ==
  ASSUME TypeInv, Quiet, NEW c \in Consumers, Fault(c)
  PROVE  Quiet'
<1>0. /\ left \in Budget /\ left' \in Budget
      /\ cons[c] \in Consumer /\ Fits(cons[c])
  BY FaultSteps DEF TypeInv, TypeOK, ConsOK
<1>1. left.crashes = 0 /\ left.faults \in Nat
  BY <1>0 DEF Quiet, Budget
<1>2. /\ left.faults = 1 /\ left'.faults = 0 /\ left'.crashes = 0
      /\ left' = [left EXCEPT !.faults = left.faults - 1]
  <2>1. left.faults > 0 /\ left' = [left EXCEPT !.faults = left.faults - 1]
    BY <1>1 DEF Fault, EnqueueFails, CallFails, RecordFails, StatementFails, FinishFails, Crash
  <2>2. left.faults = 1
    BY <1>1, <2>1 DEF Quiet
  <2> QED BY <1>0, <1>1, <2>1, <2>2 DEF Budget
<1>3. campaign' = campaign
  BY DEF Fault, EnqueueFails, CallFails, RecordFails, StatementFails, FinishFails, Crash, tables
<1>4. ASSUME NEW pc, Goto(c, pc),
             pc \in OfDispatch \cup {"count", "close"} => cons[c].job \notin Deliveries
      PROVE  Quiet'
  <2>1. Goes(c, pc)
    BY <1>4, GotoGoes
  <2> QED BY <1>0, <1>2, <1>3, <1>4, <2>1, QuietStep DEF Quiet, Goes, SameBatch, SameHand
<1>5. CASE EnqueueFails(c)
  <2>1. cons[c].job \notin Deliveries
    BY <1>5 DEF EnqueueFails, Quiet, OfDispatch
  <2> QED BY <1>4, <1>5, <2>1 DEF EnqueueFails
<1>6. CASE CallFails(c) \/ StatementFails(c)
  BY <1>4, <1>6 DEF CallFails, StatementFails, OfDispatch
<1>7. CASE RecordFails(c)
  <2>1. cons'[c] = NextSender(cons[c]) /\ Others(c)
    BY <1>7 DEF RecordFails, Others, TypeInv, ConsOK
  <2>2. cons'[c].pc \in {"send", "throw"} /\ cons'[c].seen = cons[c].seen
    BY <1>0, <2>1, NextSenderTurns
  <2> QED BY <1>0, <1>2, <1>3, <2>1, <2>2, QuietStep DEF Quiet, OfDispatch
<1> QED BY <1>1, <1>5, <1>6, <1>7 DEF Fault, FinishFails, Crash

\* The handler of a delayed notice that writes back that a delivery has no
\* outcome does so while it still has none.
Timely ==
  \A d \in Deliveries, status \in {"none", "pending", "sending"} :
    WriteBack(d, status) => delivery[d] = status

\* A notice of a delay leaves a delivery as it is or writes an outcome.
LEMMA TellsFrame ==
  ASSUME TypeInv, NEW d \in Deliveries, Tells(d)
  PROVE  /\ UNCHANGED <<campaign, subscribed, queue, dead, letters, cons, left>>
         /\ Timely => \/ delivery' = delivery
                      \/ \E status \in {"sent", "suppressed"} \cup Outcomes :
                           delivery' = [delivery EXCEPT ![d] = status]
<1>1. CASE Delayed(d)
  BY <1>1 DEF Delayed, tables
<1>2. ASSUME NEW status \in Progress, WriteBack(d, status)
      PROVE  /\ UNCHANGED <<campaign, subscribed, queue, dead, letters, cons, left>>
             /\ Timely => \/ delivery' = delivery
                          \/ \E s \in {"sent", "suppressed"} \cup Outcomes :
                               delivery' = [delivery EXCEPT ![d] = s]
  <2>1. delivery \in [Deliveries -> Progress]
    BY DEF TypeInv, TypeOK
  <2>2. CASE status \in {"none", "pending", "sending"}
    <3>1. Timely => delivery[d] = status
      BY <1>2, <2>2 DEF Timely
    <3> QED BY <1>2, <2>1, <3>1 DEF WriteBack
  <2>3. CASE status \in {"sent", "suppressed"} \cup Outcomes
    BY <1>2, <2>3 DEF WriteBack
  <2> QED BY <1>2, <2>2, <2>3 DEF Progress
<1> QED BY <1>1, <1>2 DEF Tells

LEMMA OtherQuiet ==
  ASSUME Orderly, TypeInv, TypeInv', Quiet,
         \/ \E j \in Jobs : Quarantine(j) \/ Replay(j)
         \/ \E i \in Keys : Mail(i)
         \/ \E d \in Deliveries, o \in Outcomes : Apply(d, o)
         \/ \E d \in Deliveries : Tells(d)
         \/ Operator \/ UNCHANGED vars
  PROVE  Quiet'
<1>0. left \in Budget /\ left' \in Budget /\ left.crashes = 0 /\ left.faults \in Nat
  BY DEF TypeInv, TypeOK, Quiet, Budget
<1>1. left'.crashes = 0 /\ left'.faults <= left.faults
  <2>1. ASSUME left' = left
        PROVE  left'.crashes = 0 /\ left'.faults <= left.faults
    BY <1>0, <2>1
  <2>2. ASSUME \/ left' = [left EXCEPT !.replays = left.replays - 1]
               \/ left' = [left EXCEPT !.events = left.events - 1]
               \/ left' = [left EXCEPT !.controls = left.controls - 1]
        PROVE  left'.crashes = 0 /\ left'.faults <= left.faults
    BY <1>0, <2>2 DEF Budget
  <2>3. ASSUME left' = [left EXCEPT !.faults = left.faults - 1]
        PROVE  left'.crashes = 0 /\ left'.faults <= left.faults
    BY <1>0, <2>3 DEF Budget
  <2>4. CASE \/ \E j \in Jobs : Quarantine(j) \/ Replay(j)
             \/ \E d \in Deliveries, o \in Outcomes : Apply(d, o)
             \/ \E d \in Deliveries : Tells(d)
             \/ UNCHANGED vars
    BY <2>1, <2>2, <2>4, TellsFrame DEF Quarantine, Replay, Apply, vars
  <2>5. CASE \E i \in Keys : Mail(i)
    <3>1. PICK i \in Keys : Mail(i)
      BY <2>5
    <3>2. CASE Settle(i) \/ LeaseExpires(i)
      BY <2>1, <3>2 DEF Settle, Provider, Receipt, Refusal, Doubt, LeaseExpires
    <3>3. CASE PersistFails(i)
      BY <2>3, <3>3 DEF PersistFails
    <3>4. CASE SessionDies(i)
      BY <1>0, <3>4 DEF SessionDies
    <3>5. CASE \E o \in Notices : Notify(i, o)
      BY <2>2, <3>5 DEF Notify
    <3> QED BY <3>1, <3>2, <3>3, <3>4, <3>5 DEF Mail
  <2>6. CASE Operator
    BY <1>0, <2>2, <2>6
    DEF Operator, Start, StartDies, Schedule, Pause, Cancel, Archive, Cron, Moves, Unsubscribe,
        Subscribe, Asks
  <2> QED BY <2>4, <2>5, <2>6
<1>2. campaign' \notin {"cancelled", "archived"}
  BY <1>0, TellsFrame
  DEF Quiet, Orderly, Quarantine, Replay, Mail, Settle, Provider, Receipt, Refusal, Doubt,
      PersistFails, SessionDies, LeaseExpires, Notify, Apply, Operator, Start, StartDies, Schedule,
      Pause, Cancel, Archive, Cron, Moves, Transition, Unsubscribe, Subscribe, Asks, tables, vars
<1>3. ASSUME cons' = cons
      PROVE  Quiet'
  <2>1. left'.faults \in Nat
    BY <1>0 DEF Budget
  <2> QED BY <1>0, <1>1, <1>2, <1>3, <2>1 DEF Quiet
<1>4. ASSUME NEW i \in Keys, Receipt(i) \/ Refusal(i) \/ Doubt(i) \/ PersistFails(i) \/ SessionDies(i)
      PROVE  Quiet'
  <2>1. CASE cons' = cons
    BY <1>3, <2>1
  <2>2. ASSUME NEW c \in Consumers, Others(c), SameBatch(c), cons'[c].pc \in {"record", "send", "throw"}
        PROVE  Quiet'
    BY <1>0, <1>1, <1>2, <2>2, QuietStep DEF Quiet, SameBatch, OfDispatch
  <2> QED BY <1>4, <2>1, <2>2, AnswerTurns
<1>5. ASSUME NEW i \in Keys, \/ Provider(i) \/ LeaseExpires(i)
                             \/ \E o \in Notices : Notify(i, o)
      PROVE  Quiet'
  BY <1>3, <1>5 DEF Provider, LeaseExpires, Notify
<1>6. CASE \/ \E j \in Jobs : Quarantine(j) \/ Replay(j)
           \/ \E d \in Deliveries, o \in Outcomes : Apply(d, o)
           \/ \E d \in Deliveries : Tells(d)
           \/ Operator \/ UNCHANGED vars
  BY <1>3, <1>6, TellsFrame
  DEF Quarantine, Replay, Apply, Operator, Start, StartDies, Schedule, Pause, Cancel, Archive, Cron,
      Moves, Unsubscribe, Subscribe, vars
<1> QED BY <1>4, <1>5, <1>6 DEF Mail, Settle

\* A statement of a consumer leaves no delivery that is sending without a job.
LEMMA WorkForgets ==
  ASSUME TypeInv, Quiet, NobodyForgotten, NEW c \in Consumers, Work(c), NEW d \in Deliveries,
         delivery'[d] = "sending"
  PROVE  HasJob(d)'
<1>0. /\ d \in Jobs /\ d # Dispatch /\ d # "none" /\ ConsOK
      /\ delivery \in [Deliveries -> Progress]
      /\ queue \in [Messages -> Nat] /\ dead \in [Jobs -> Nat]
      /\ 1 \in 1 .. MaxTries /\ \A n \in 1 .. MaxTries : <<d, n>> \in Messages
  BY DEF Jobs, TypeInv, TypeOK, Messages
<1>1. ASSUME queue' = queue \/ \E S : queue' = Sent(queue, S)
      PROVE  Queued(d) => Queued(d)'
  BY <1>1, Grows DEF Queued
<1>2. ASSUME delivery[d] = "sending", Others(c), Queued(d) => Queued(d)', dead' = dead,
             Held(c, d) => Held(c, d)' \/ Queued(d)'
      PROVE  HasJob(d)'
  <2>1. HasJob(d)
    BY <1>2 DEF NobodyForgotten
  <2> QED BY <1>2, <2>1, Handed
<1>3. ASSUME NEW m \in Messages, Take(c, m)
      PROVE  HasJob(d)'
  <2>1. delivery[d] = "sending" /\ dead' = dead /\ ~Held(c, d)
    BY <1>0, <1>3 DEF Take, tables, ConsOK, Fits, Held
  <2>2. Others(c) /\ (m[1] = d => cons'[c].job = d)
    BY <1>0, <1>3, <2>1, TakeTurns DEF Acks, Settled
  <2>3. CASE m[1] = d
    BY <2>2, <2>3 DEF HasJob
  <2>4. CASE m[1] # d
    <3>1. \A n \in 1 .. MaxTries : queue'[<<d, n>>] = queue[<<d, n>>]
      BY <1>0, <1>3, <2>4 DEF Take
    <3>2. Queued(d) => Queued(d)'
      BY <3>1 DEF Queued
    <3> QED BY <1>2, <2>1, <2>2, <3>2
  <2> QED BY <2>3, <2>4
<1>4. CASE EndBatch(c)
  <2>1. delivery[d] = "sending" /\ dead' = dead /\ queue' = queue /\ ~Held(c, d)
    BY <1>0, <1>4 DEF EndBatch, tables, ConsOK, Fits, Held
  <2> QED BY <1>1, <1>2, <1>4, <2>1, BatchTurns DEF Goes, Rests
<1>5. CASE Throw(c)
  <2>1. delivery[d] = "sending" /\ (Fails(c) => cons[c].job # d)
    BY <1>0, <1>5 DEF Throw, ThrowDue
  <2>2. HasJob(d) /\ Others(c)
    BY <1>5, <2>1, BatchTurns DEF NobodyForgotten
  <2>3. cons[c].job \in Jobs /\ cons[c].pc = "throw" /\ Message(c) \in Messages
    BY <1>0, <1>5, InHand, MessageType DEF Throw, ThrowDue
  <2>4. CASE Last(Message(c))
    <3>1. dead' = [dead EXCEPT ![cons[c].job] = dead[cons[c].job] + 1] /\ queue' = queue
      BY <1>5, <2>4 DEF Throw, ThrowDue
    <3>2. (dead[d] > 0 => dead'[d] > 0) /\ (cons[c].job = d => dead'[d] > 0)
      BY <1>0, <2>3, <3>1
    <3> QED BY <1>1, <2>2, <2>3, <3>1, <3>2, Handed DEF Held
  <2>5. CASE ~Last(Message(c))
    <3>1. dead' = dead /\ queue' = Sent(queue, {Again(Message(c))})
      BY <1>5, <2>5 DEF Throw, ThrowDue
    <3>2. cons[c].try \in 1 .. MaxTries /\ cons[c].try # MaxTries
      BY <1>0, <2>5 DEF Last, Message, ConsOK, Consumer
    <3>3. cons[c].try + 1 \in 1 .. MaxTries
      BY <3>2
    <3>4. cons[c].job = d => Queued(d)'
      BY <3>1, <3>3, Grows DEF Again, Message
    <3> QED BY <1>1, <2>2, <2>3, <3>1, <3>4, Handed DEF Held
  <2> QED BY <2>4, <2>5
<1>6. CASE Plan(c) \/ Run(c)
  <2>1. delivery[d] = "sending" /\ dead' = dead /\ queue' = queue
    BY <1>6 DEF Plan, Run
  <2>2. \E pc : Goes(c, pc) /\ cons[c].pc \notin {"enqueue", "unmark"}
    BY <1>6, GotoGoes DEF Plan, Run
  <2> QED BY <1>1, <1>2, <2>1, <2>2 DEF Goes, SameHand, Held
<1>7. CASE \E S \in SUBSET Deliveries : Select(c, S)
  <2>1. delivery[d] = "sending" /\ dead' = dead /\ queue' = queue /\ cons[c].pc = "select"
    BY <1>7 DEF Select, tables
  <2>2. Others(c) /\ cons'[c].job = cons[c].job
    BY <1>7, BatchTurns
  <2> QED BY <1>1, <1>2, <2>1, <2>2 DEF Held
<1>8. CASE Mark(c)
  <2>1. Goes(c, "enqueue") /\ dead' = dead /\ queue' = queue /\ cons[c].pc = "mark"
    BY <1>8, GotoGoes DEF Mark
  <2>2. delivery[d] = "sending" \/ d \in cons[c].picked
    BY <1>8 DEF Mark, Moved
  <2>3. CASE d \in cons[c].picked
    BY <2>1, <2>3 DEF Goes, SameHand, HasJob
  <2>4. CASE delivery[d] = "sending"
    BY <1>1, <1>2, <2>1, <2>4 DEF Goes, SameHand, Held
  <2> QED BY <2>2, <2>3, <2>4
<1>9. CASE Unmark(c)
  <2>1. Goes(c, "throw") /\ dead' = dead /\ queue' = queue /\ cons[c].pc = "unmark"
    BY <1>9, GotoGoes DEF Unmark
  <2>2. delivery[d] = "sending" /\ d \notin cons[c].picked
    BY <1>9 DEF Unmark, Moved
  <2> QED BY <1>1, <1>2, <2>1, <2>2 DEF Goes, SameHand, Held
<1>10. CASE Enqueue(c)
  <2>1. /\ delivery[d] = "sending" /\ dead' = dead /\ Acks(c, Message(c), FALSE)
        /\ cons[c].pc = "enqueue"
    BY <1>10, AckAcks DEF Enqueue, tables
  <2>2. PICK S : queue' = Sent(queue, S) /\ {<<e, 1>> : e \in cons[c].picked} \subseteq S
    BY <1>10 DEF Enqueue
  <2>3. ASSUME d \in cons[c].picked
        PROVE  Queued(d)'
    <3>1. <<d, 1>> \in S
      BY <2>2, <2>3
    <3>2. 1 \in 1 .. MaxTries /\ queue' = Sent(queue, S)
      BY <2>2
    <3> QED BY <1>0, <3>1, <3>2, Grows
  <2>4. cons[c].job # d
    BY <2>1 DEF Quiet, OfDispatch
  <2> QED BY <1>1, <1>2, <2>1, <2>2, <2>3, <2>4 DEF Acks, Held
<1>11. CASE Count(c) \/ Close(c)
  <2>1. /\ delivery[d] = "sending" /\ dead' = dead /\ queue' = queue
        /\ cons[c].pc \in {"count", "close"} /\ cons[c].job # d
    BY <1>11 DEF Count, Close, tables, Quiet
  <2>2. Goto(c, "close") \/ Finished(c)
    BY <1>11 DEF Count, Close
  <2> QED BY <1>1, <1>2, <2>1, <2>2, GotoGoes, BatchTurns DEF Goes, Rests, Acks, Held
<1>12. CASE Campaign(c)
  <2>1. /\ delivery[d] = "sending" /\ dead' = dead /\ cons[c].pc = "campaign"
        /\ queue' = queue \/ \E S : queue' = Sent(queue, S)
    BY <1>12 DEF Campaign, tables, Paused
  <2>2. CASE Acks(c, Message(c), FALSE) /\ cons'[c].seen \in {"cancelled", "archived", "paused"}
    <3>1. cons'[c].seen = "paused"
      BY <1>12, <2>2, CampaignTurns DEF Quiet
    <3>2. queue' = Sent(queue, {<<cons[c].job, 1>>})
      BY <1>12, <2>1, <2>2, <3>1, CampaignTurns DEF Paused, Acks
    <3>3. cons[c].job = d => Queued(d)'
      BY <1>0, <3>2, Grows
    <3> QED BY <1>1, <1>2, <2>1, <2>2, <3>3 DEF Acks, Held
  <2>3. CASE Others(c) /\ SameHand(c)
    BY <1>1, <1>2, <2>1, <2>3 DEF SameHand, Held
  <2> QED BY <1>12, <2>2, <2>3, CampaignTurns
<1>13. CASE Eligible(c) \/ Record(c) \/ Call(c)
  <2>1. dead' = dead /\ queue' = queue /\ cons[c].pc \notin {"enqueue", "unmark"}
    BY <1>13 DEF Eligible, Record, Call, tables
  <2>2. CASE \E pc : Goto(c, pc) /\ delivery' = delivery
    BY <1>1, <1>2, <2>1, <2>2, GotoGoes DEF Goes, SameHand, Held
  <2>3. CASE AckDue(c) /\ \E status \in {"suppressed", "sent"} :
                            delivery' = [delivery EXCEPT ![cons[c].job] = status]
    <3>1. delivery[d] = "sending" /\ cons[c].job # d
      BY <1>0, <2>3
    <3> QED BY <1>1, <1>2, <2>1, <2>3, <3>1, AckAcks DEF Acks, Held
  <2> QED BY <1>13, <2>2, <2>3 DEF Eligible, Record, Call, tables
<1> QED BY <1>3, <1>4, <1>5, <1>6, <1>7, <1>8, <1>9, <1>10, <1>11, <1>12, <1>13 DEF Work

LEMMA FaultForgets ==
  ASSUME TypeInv, Quiet, NobodyForgotten, NEW c \in Consumers, Fault(c), NEW d \in Deliveries,
         delivery'[d] = "sending"
  PROVE  HasJob(d)'
<1>0. /\ ConsOK /\ cons[c] \in Consumer /\ left.crashes = 0 /\ left \in Budget
      /\ 1 \in 1 .. MaxTries
  BY DEF TypeInv, TypeOK, ConsOK, Quiet
<1>1. ~FinishFails(c) /\ ~Crash(c) /\ (left.faults > 0 => cons[c].pc # "unmark")
  BY <1>0 DEF FinishFails, Crash, Quiet, Budget
<1>2. HasJob(d) /\ dead' = dead
  BY <1>1
  DEF Fault, EnqueueFails, CallFails, RecordFails, StatementFails, tables, NobodyForgotten
<1>3. CASE EnqueueFails(c)
  <2>1. cons[c].pc = "enqueue"
    BY <1>3 DEF EnqueueFails
  <2>2. cons[c].job # d
    BY <2>1 DEF Quiet, OfDispatch
  <2>3. CASE queue' = queue /\ Goto(c, "unmark")
    <3>1. Goes(c, "unmark")
      BY <2>3, GotoGoes
    <3> QED BY <1>2, <2>1, <2>3, <3>1, Handed DEF Goes, SameHand, Held, Queued
  <2>4. CASE queue' = Sent(queue, {<<e, 1>> : e \in cons[c].picked})
             /\ \E pc : Goto(c, pc)
    <3>1. Others(c)
      BY <2>4, GotoGoes DEF Goes
    <3>2. PICK S : queue' = Sent(queue, S) /\ {<<e, 1>> : e \in cons[c].picked} \subseteq S
      BY <2>4
    <3>3. (Queued(d) => Queued(d)') /\ (d \in cons[c].picked => Queued(d)')
      BY <1>0, <3>2, Grows
    <3> QED BY <1>2, <2>1, <2>2, <3>1, <3>3, Handed DEF Held
  <2> QED BY <1>3, <2>3, <2>4 DEF EnqueueFails
<1>4. CASE CallFails(c) \/ StatementFails(c)
  <2>1. Goes(c, "throw") /\ queue' = queue /\ cons[c].pc \notin {"enqueue", "unmark"}
    BY <1>1, <1>4, GotoGoes DEF CallFails, StatementFails, OfDispatch
  <2> QED BY <1>2, <2>1, Handed DEF Goes, SameHand, Held, Queued
<1>5. CASE RecordFails(c)
  <2>1. cons'[c] = NextSender(cons[c]) /\ Others(c) /\ queue' = queue /\ cons[c].pc = "record"
    BY <1>0, <1>5 DEF RecordFails, Others, ConsOK
  <2>2. cons'[c].job = cons[c].job
    BY <1>0, <2>1, NextSenderTurns
  <2> QED BY <1>2, <2>1, <2>2, Handed DEF Held, Queued
<1> QED BY <1>1, <1>3, <1>4, <1>5 DEF Fault

LEMMA OtherForgets ==
  ASSUME TypeInv, NobodyForgotten, [Timely]_vars, NEW d \in Deliveries, delivery'[d] = "sending",
         \/ \E j \in Jobs : Quarantine(j) \/ Replay(j)
         \/ \E i \in Keys : Mail(i)
         \/ \E e \in Deliveries, o \in Outcomes : Apply(e, o)
         \/ \E e \in Deliveries : Tells(e)
         \/ Operator \/ UNCHANGED vars
  PROVE  HasJob(d)'
<1>0. /\ delivery \in [Deliveries -> Progress]
      /\ dead \in [Jobs -> Nat] /\ d \in Jobs
  BY DEF TypeInv, TypeOK, Jobs
<1>1. ASSUME cons' = cons, dead' = dead, delivery[d] = "sending",
             queue' = queue \/ \E S : queue' = Sent(queue, S)
      PROVE  HasJob(d)'
  <2>1. Queued(d) => Queued(d)'
    BY <1>1, Grows DEF Queued
  <2>2. HasJob(d)
    BY <1>1 DEF NobodyForgotten
  <2> QED BY <1>1, <2>1, <2>2 DEF HasJob, Queued
<1>2. ASSUME NEW j \in Jobs, Quarantine(j)
      PROVE  HasJob(d)'
  <2>1. j # d /\ delivery[d] = "sending"
    BY <1>0, <1>2 DEF Quarantine
  <2>2. HasJob(d) /\ dead'[d] = dead[d] /\ queue' = queue /\ cons' = cons
    BY <1>0, <1>2, <2>1 DEF Quarantine, NobodyForgotten
  <2> QED BY <2>2 DEF HasJob
<1>3. ASSUME NEW j \in Jobs, Replay(j)
      PROVE  HasJob(d)'
  BY <1>1, <1>3 DEF Replay, tables
<1>4. ASSUME NEW i \in Keys, Mail(i)
      PROVE  HasJob(d)'
  <2>1. delivery[d] = "sending" /\ queue' = queue /\ dead' = dead
    BY <1>4 DEF Mail, Settle, Provider, Receipt, Refusal, Doubt, PersistFails, SessionDies,
                LeaseExpires, Notify, tables
  <2>2. CASE cons' = cons
    BY <1>1, <2>1, <2>2
  <2>3. ASSUME NEW c \in Consumers, Others(c), SameHand(c), cons[c].pc = "await"
        PROVE  HasJob(d)'
    <3>1. HasJob(d)
      BY <2>1 DEF NobodyForgotten
    <3> QED BY <2>1, <2>3, <3>1, Handed DEF SameHand, Held, Queued
  <2>4. CASE Provider(i) \/ LeaseExpires(i) \/ \E o \in Notices : Notify(i, o)
    BY <2>2, <2>4 DEF Provider, LeaseExpires, Notify
  <2> QED BY <1>4, <2>2, <2>3, <2>4, AnswerTurns DEF Mail, Settle
<1>5. ASSUME NEW e \in Deliveries, NEW o \in Outcomes, Apply(e, o)
      PROVE  HasJob(d)'
  <2>1. o # "sending"
    BY DEF Outcomes
  <2>2. delivery[d] = "sending"
    BY <1>0, <1>5, <2>1 DEF Apply
  <2> QED BY <1>1, <1>5, <2>2 DEF Apply
<1>6. CASE Operator
  BY <1>1, <1>6
  DEF Operator, Start, StartDies, Schedule, Pause, Cancel, Archive, Cron, Moves, Unsubscribe,
      Subscribe, tables
<1>7. CASE UNCHANGED vars
  BY <1>1, <1>7 DEF vars, tables
<1>8. ASSUME Timely, NEW e \in Deliveries, Tells(e)
      PROVE  HasJob(d)'
  <2>1. delivery[d] = "sending"
    BY <1>0, <1>8, TellsFrame DEF Outcomes
  <2> QED BY <1>1, <1>8, <2>1, TellsFrame
<1> QED BY <1>2, <1>3, <1>4, <1>5, <1>6, <1>7, <1>8

\* A delivery that is marked as sending has a job in the queue, in a consumer
\* or among the dead letters, whatever is retried, paused, replayed or answered
\* late, as long as no Worker is killed, the campaign is not ended by hand and no
\* notice of a delay brings back a delivery that has an outcome.
THEOREM NobodyIsForgotten ==
  ASSUME Orderly
  PROVE  Spec /\ [][Timely]_vars => []NobodyForgotten
<1>1. Init => TypeInv /\ Quiet /\ NobodyForgotten
  BY InitTypeInv, InitQuiet
<1>2. TypeInv /\ Quiet /\ NobodyForgotten /\ [Next]_vars /\ [Timely]_vars
        => TypeInv' /\ Quiet' /\ NobodyForgotten'
  <2> SUFFICES ASSUME TypeInv, Quiet, NobodyForgotten, [Next]_vars, [Timely]_vars
               PROVE  TypeInv' /\ Quiet' /\ NobodyForgotten'
    OBVIOUS
  <2>1. TypeInv'
    BY NextTypeInv
  <2>2. Quiet'
    BY <2>1, WorkQuiet, FaultQuiet, OtherQuiet DEF Next, Tells
  <2>3. ASSUME NEW d \in Deliveries, delivery'[d] = "sending"
        PROVE  HasJob(d)'
    BY <2>3, WorkForgets, FaultForgets, OtherForgets DEF Next, Tells
  <2> QED BY <2>1, <2>2, <2>3 DEF NobodyForgotten
<1> QED BY <1>1, <1>2, PTL DEF Spec
------------------------------------------------------------------------------
(* What was planned is settled when the campaign is finished: a campaign   *)
(* is only finished after a plan, which plans everyone at once, and a      *)
(* delivery that is settled is not planned or marked again.                *)

\* Nobody leaves the list and comes back.
NoReturn == "unsubscribe" \notin Controls \/ "subscribe" \notin Controls

\* Nothing has followed a plan yet: the consumers and the queue know of the
\* dispatch at most.
Blank(k) ==
  /\ k.pc \in {"idle", "batch", "plan", "throw"}
  /\ k.job \notin Deliveries
  /\ ~k.due
  /\ \A n \in 1 .. Len(k.acked) : k.acked[n][1] \notin Deliveries

NoJobs ==
  \A d \in Deliveries :
    dead[d] = 0 /\ letters[d] = 0 /\ \A n \in 1 .. MaxTries : queue[<<d, n>>] = 0

Unplanned == NoJobs /\ \A c \in Consumers : Blank(cons[c])

Planned == \A d \in Audience \cap subscribed : delivery[d] # "none"

\* Those that the plan found are settled; who was not planned has left.
Over ==
  \A d \in Audience : /\ delivery[d] \notin {"pending", "sending"}
                      /\ d \in subscribed => delivery[d] # "none"

Finishing == campaign = "finished" \/ \E c \in Consumers : cons[c].pc = "close"

PlanInv ==
  /\ Unplanned \/ Planned
  /\ Finishing => Over
  /\ \A d \in Audience \ subscribed : delivery[d] = "none" => "unsubscribe" \in Controls

\* How a delivery and its subscriber may move in a step.
DeliveryMoves(d) ==
  \/ delivery'[d] = delivery[d]
  \/ delivery[d] = "none" /\ delivery'[d] = "pending" /\ d \in subscribed
  \/ delivery[d] \in {"pending", "sending"} /\ delivery'[d] # "none"
  \/ delivery'[d] \notin {"none", "pending", "sending"}

SubscriberMoves(d) ==
  /\ d \in subscribed' => d \in subscribed \/ "subscribe" \in Controls
  /\ d \in subscribed => \/ d \in subscribed' \/ "unsubscribe" \in Controls
                         \/ delivery'[d] = "bounced"

LEMMA NextMoves ==
  ASSUME TypeInv, [Next]_vars, [Timely]_vars, NEW d \in Deliveries
  PROVE  DeliveryMoves(d) /\ SubscriberMoves(d)
<1>0. delivery \in [Deliveries -> Progress]
  BY DEF TypeInv, TypeOK
<1>1. ASSUME UNCHANGED <<delivery, subscribed>>
      PROVE  DeliveryMoves(d) /\ SubscriberMoves(d)
  BY <1>1 DEF DeliveryMoves, SubscriberMoves
<1>2. ASSUME subscribed' = subscribed,
             \E e \in Deliveries, status \in {"sent", "suppressed"} \cup Outcomes :
               delivery' = [delivery EXCEPT ![e] = status]
      PROVE  DeliveryMoves(d) /\ SubscriberMoves(d)
  <2>1. delivery'[d] = delivery[d] \/ delivery'[d] \in {"sent", "suppressed"} \cup Outcomes
    BY <1>0, <1>2
  <2> QED BY <1>2, <2>1 DEF DeliveryMoves, SubscriberMoves, Outcomes
<1>3. ASSUME NEW c \in Consumers, Work(c)
      PROVE  DeliveryMoves(d) /\ SubscriberMoves(d)
  <2>1. CASE Plan(c) \/ Mark(c) \/ Unmark(c)
    BY <1>0, <2>1 DEF Plan, Mark, Unmark, Moved, DeliveryMoves, SubscriberMoves
  <2>2. CASE Throw(c)
    BY <1>1, <1>2, <2>2 DEF Throw, ThrowDue, Fails, Outcomes
  <2>3. CASE Eligible(c) \/ Record(c)
    <3>1. cons[c].job \in Deliveries
      BY <2>3 DEF Eligible, Record, TypeInv, ConsOK, Fits, OfDelivery
    <3> QED BY <1>1, <1>2, <2>3, <3>1 DEF Eligible, Record
  <2>4. CASE \/ \E m \in Messages : Take(c, m)
             \/ EndBatch(c) \/ Run(c) \/ (\E S \in SUBSET Deliveries : Select(c, S))
             \/ Enqueue(c) \/ Count(c) \/ Close(c) \/ Campaign(c) \/ Call(c)
    BY <1>1, <2>4 DEF Take, EndBatch, Run, Select, Enqueue, Count, Close, Campaign, Call, tables
  <2> QED BY <1>3, <2>1, <2>2, <2>3, <2>4 DEF Work
<1>4. ASSUME NEW c \in Consumers, Fault(c)
      PROVE  DeliveryMoves(d) /\ SubscriberMoves(d)
  BY <1>1, <1>4
  DEF Fault, EnqueueFails, CallFails, RecordFails, StatementFails, FinishFails, Crash, tables
<1>5. ASSUME NEW j \in Jobs, Quarantine(j) \/ Replay(j)
      PROVE  DeliveryMoves(d) /\ SubscriberMoves(d)
  BY <1>1, <1>2, <1>5 DEF Quarantine, Replay, tables, Outcomes
<1>6. ASSUME NEW i \in Keys, Mail(i)
      PROVE  DeliveryMoves(d) /\ SubscriberMoves(d)
  BY <1>1, <1>6 DEF Mail, Settle, Provider, Receipt, Refusal, Doubt, PersistFails, SessionDies,
                    LeaseExpires, Notify, tables
<1>7. ASSUME NEW e \in Deliveries, NEW o \in Outcomes, Apply(e, o)
      PROVE  DeliveryMoves(d) /\ SubscriberMoves(d)
  <2>1. delivery'[d] = IF d = e THEN o ELSE delivery[d]
    BY <1>0, <1>7 DEF Apply
  <2>2. \/ subscribed' = subscribed
        \/ o = "bounced" /\ subscribed' = subscribed \ {e}
    BY <1>7 DEF Apply
  <2> QED BY <2>1, <2>2 DEF DeliveryMoves, SubscriberMoves, Outcomes
<1>8. CASE Operator
  <2>1. delivery' = delivery
    BY <1>8 DEF Operator, Start, StartDies, Schedule, Pause, Cancel, Archive, Cron, Moves,
                Unsubscribe, Subscribe, tables
  <2>2. SubscriberMoves(d)
    BY <1>8 DEF Operator, Start, StartDies, Schedule, Pause, Cancel, Archive, Cron, Moves,
                Unsubscribe, Subscribe, Asks, tables, SubscriberMoves
  <2> QED BY <2>1, <2>2 DEF DeliveryMoves
<1>9. CASE UNCHANGED vars
  BY <1>1, <1>9 DEF vars, tables
<1>10. ASSUME Timely, NEW e \in Deliveries, Tells(e)
       PROVE  DeliveryMoves(d) /\ SubscriberMoves(d)
  BY <1>1, <1>2, <1>10, TellsFrame
<1> QED BY <1>3, <1>4, <1>5, <1>6, <1>7, <1>8, <1>9, <1>10 DEF Next, Tells

LEMMA PlanStays ==
  ASSUME NoReturn, TypeInv, [Next]_vars, [Timely]_vars,
         \A d \in Audience \ subscribed : delivery[d] = "none" => "unsubscribe" \in Controls
  PROVE  /\ Planned => Planned'
         /\ Over => Over'
         /\ (\A d \in Audience \ subscribed : delivery[d] = "none" => "unsubscribe" \in Controls)'
<1>1. \A d \in Audience : DeliveryMoves(d) /\ SubscriberMoves(d)
  BY NextMoves
<1>2. Planned => Planned'
  BY <1>1 DEF NoReturn, Planned, DeliveryMoves, SubscriberMoves
<1>3. Over => Over'
  BY <1>1 DEF NoReturn, Over, DeliveryMoves, SubscriberMoves
<1>4. ASSUME NEW d \in Audience, d \notin subscribed', delivery'[d] = "none"
      PROVE  "unsubscribe" \in Controls
  BY <1>1, <1>4 DEF DeliveryMoves, SubscriberMoves
<1> QED BY <1>2, <1>3, <1>4

\* A campaign is finished by a consumer that counted no delivery to wait for.
LEMMA NextFinishing ==
  ASSUME TypeInv, [Next]_vars, Finishing'
  PROVE  \/ Finishing
         \/ Unsettled = {} /\ \E c \in Consumers : cons[c].pc = "count"
<1>0. ConsOK
  BY DEF TypeInv
<1>1. ASSUME cons' = cons, campaign' # "finished" \/ campaign' = campaign
      PROVE  Finishing
  BY <1>1 DEF Finishing
<1>2. ASSUME NEW c \in Consumers, Others(c), cons'[c].pc # "close" \/ cons'[c].pc = cons[c].pc,
             campaign' # "finished" \/ campaign' = campaign
      PROVE  Finishing
  BY <1>2 DEF Finishing, Others
<1>3. ASSUME NEW c \in Consumers, Work(c)
      PROVE  \/ Finishing
             \/ Unsettled = {} /\ \E x \in Consumers : cons[x].pc = "count"
  <2>1. CASE Close(c)
    BY <2>1 DEF Close, Finishing
  <2>2. CASE Count(c)
    <3>1. campaign' = campaign /\ cons[c].pc = "count"
      BY <2>2 DEF Count, tables
    <3>2. CASE Unsettled # {}
      <4>1. Others(c) /\ cons'[c].pc # "close"
        BY <2>2, <3>2, BatchTurns DEF Count, Rests, Acks, Idle
      <4> QED BY <1>2, <3>1, <4>1
    <3> QED BY <3>1, <3>2
  <2>3. CASE (\E m \in Messages : Take(c, m)) \/ EndBatch(c) \/ Throw(c)
             \/ (\E S \in SUBSET Deliveries : Select(c, S))
    <3>1. Others(c) /\ cons'[c].pc # "close"
      BY <2>3, TakeTurns, BatchTurns DEF Acks, Goes, Rests, Idle
    <3>2. campaign' = campaign
      BY <2>3 DEF Take, EndBatch, Throw, ThrowDue, Select, tables
    <3> QED BY <1>2, <3>1, <3>2
  <2>4. CASE Plan(c) \/ Run(c) \/ Mark(c) \/ Unmark(c) \/ Call(c)
    <3>1. \E pc \in {"run", "select", "enqueue", "throw", "await", "record"} : Goto(c, pc)
      BY <2>4 DEF Plan, Run, Mark, Unmark, Call
    <3>2. campaign' # "finished" \/ campaign' = campaign
      BY <2>4 DEF Plan, Run, Mark, Unmark, Call, tables
    <3> QED BY <1>2, <3>1, <3>2, GotoGoes DEF Goes
  <2>5. CASE Enqueue(c) \/ Campaign(c) \/ Eligible(c) \/ Record(c)
    <3>1. Others(c) /\ cons'[c].pc # "close"
      BY <2>5, GotoGoes, AckAcks, CampaignTurns DEF Enqueue, Eligible, Record, Acks, Goes
    <3>2. campaign' = campaign
      BY <2>5 DEF Enqueue, Campaign, Eligible, Record, tables
    <3> QED BY <1>2, <3>1, <3>2
  <2> QED BY <1>3, <2>1, <2>2, <2>3, <2>4, <2>5 DEF Work
<1>4. ASSUME NEW c \in Consumers, Fault(c)
      PROVE  Finishing
  <2>1. campaign' = campaign
    BY <1>4 DEF Fault, EnqueueFails, CallFails, RecordFails, StatementFails, FinishFails, Crash,
                tables
  <2>2. CASE EnqueueFails(c) \/ CallFails(c) \/ StatementFails(c)
    <3>1. \E pc \in {"unmark", "throw"} : Goto(c, pc)
      BY <2>2 DEF EnqueueFails, CallFails, StatementFails
    <3> QED BY <1>2, <2>1, <3>1, GotoGoes DEF Goes
  <2>3. CASE RecordFails(c)
    <3>1. Others(c) /\ cons'[c] = NextSender(cons[c]) /\ cons[c] \in Consumer
      BY <1>0, <2>3 DEF RecordFails, ConsOK, Others
    <3> QED BY <1>2, <2>1, <3>1, NextSenderTurns
  <2>4. CASE FinishFails(c) \/ Crash(c)
    <3>1. Others(c) /\ cons'[c] = Idle
      BY <1>0, <2>4 DEF FinishFails, Crash, ConsOK, Others
    <3> QED BY <1>2, <2>1, <3>1 DEF Idle
  <2> QED BY <1>4, <2>2, <2>3, <2>4 DEF Fault
<1>5. ASSUME NEW i \in Keys, Mail(i)
      PROVE  Finishing
  <2>1. campaign' = campaign
    BY <1>5 DEF Mail, Settle, Provider, Receipt, Refusal, Doubt, PersistFails, SessionDies,
                LeaseExpires, Notify, tables
  <2>2. CASE Provider(i) \/ LeaseExpires(i) \/ \E o \in Notices : Notify(i, o)
    BY <1>1, <2>1, <2>2 DEF Provider, LeaseExpires, Notify
  <2> QED BY <1>1, <1>2, <1>5, <2>1, <2>2, AnswerTurns DEF Mail, Settle
<1>6. CASE \/ \E j \in Jobs : Quarantine(j) \/ Replay(j)
           \/ \E d \in Deliveries, o \in Outcomes : Apply(d, o)
           \/ \E d \in Deliveries : Tells(d)
           \/ UNCHANGED vars
  BY <1>1, <1>6, TellsFrame DEF Quarantine, Replay, Apply, vars, tables
<1>7. CASE Operator
  BY <1>1, <1>7
  DEF Operator, Start, StartDies, Schedule, Pause, Cancel, Archive, Cron, Moves, Transition,
      Unsubscribe, Subscribe, tables
<1> QED BY <1>3, <1>4, <1>5, <1>6, <1>7 DEF Next, Tells

LEMMA BlankStep ==
  ASSUME Unplanned, NoJobs', NEW c \in Consumers, Others(c), Blank(cons'[c])
  PROVE  Unplanned'
BY DEF Unplanned, Others

LEMMA BlankAcks ==
  ASSUME TypeInv, NEW c \in Consumers, Blank(cons[c]), NEW m, m[1] \notin Deliveries,
         Acks(c, m, FALSE)
  PROVE  Blank(cons'[c])
<1>1. cons[c].acked \in Seq(Messages)
  BY DEF TypeInv, ConsOK, Consumer
<1>2. PICK s : s = cons[c].acked
  OBVIOUS
<1>3. s \in Seq(Messages) /\ cons'[c].acked = Append(s, m)
  BY <1>1, <1>2 DEF Acks
<1>4. ASSUME NEW n \in 1 .. Len(Append(s, m))
      PROVE  Append(s, m)[n][1] \notin Deliveries
  <2>1. CASE n = Len(s) + 1
    BY <1>3, <2>1
  <2>2. CASE n \in 1 .. Len(s)
    <3>1. Append(s, m)[n] = s[n]
      BY <1>3, <2>2
    <3> QED BY <1>2, <2>2, <3>1 DEF Blank
  <2> QED BY <1>3, <1>4, <2>1, <2>2
<1> QED BY <1>3, <1>4, NoneIsNoJob DEF Acks, Blank

\* A job that is not a delivery's goes from one place to another.
LEMMA NoJobsStays ==
  ASSUME TypeInv, NoJobs, NEW j, j \notin Deliveries,
         \/ queue' = queue
         \/ \E n \in 1 .. MaxTries : queue' = Sent(queue, {<<j, n>>})
         \/ \E n \in 1 .. MaxTries : \E v : queue' = [queue EXCEPT ![<<j, n>>] = v],
         dead' = dead \/ \E v : dead' = [dead EXCEPT ![j] = v],
         letters' = letters \/ \E v : letters' = [letters EXCEPT ![j] = v]
  PROVE  NoJobs'
<1>1. /\ queue \in [Messages -> Nat] /\ dead \in [Jobs -> Nat] /\ letters \in [Jobs -> Nat]
      /\ \A d \in Deliveries : d \in Jobs /\ \A n \in 1 .. MaxTries : <<d, n>> \in Messages
  BY DEF TypeInv, TypeOK, Messages, Jobs
<1>2. ASSUME NEW d \in Deliveries
      PROVE  dead'[d] = dead[d] /\ letters'[d] = letters[d]
  BY <1>1, <1>2
<1>3. ASSUME NEW d \in Deliveries, NEW n \in 1 .. MaxTries
      PROVE  queue'[<<d, n>>] = queue[<<d, n>>]
  <2>1. <<d, n>> \in Messages /\ \A p : <<d, n>> # <<j, p>>
    BY <1>1
  <2>2. CASE \E p \in 1 .. MaxTries : queue' = Sent(queue, {<<j, p>>})
    BY <2>1, <2>2 DEF Sent
  <2>3. CASE \E p \in 1 .. MaxTries : \E v : queue' = [queue EXCEPT ![<<j, p>>] = v]
    BY <1>1, <2>1, <2>3
  <2> QED BY <2>2, <2>3
<1> QED BY <1>2, <1>3 DEF NoJobs

\* A step of a consumer goes on with the dispatch, or plans everyone.
LEMMA WorkPlans ==
  ASSUME TypeInv, Unplanned, NEW c \in Consumers, Work(c)
  PROVE  Unplanned' \/ Planned'
<1>0. Blank(cons[c]) /\ NoJobs /\ cons[c] \in Consumer /\ Fits(cons[c])
  BY DEF Unplanned, TypeInv, ConsOK
<1>1. ASSUME NEW m \in Messages, Take(c, m)
      PROVE  Unplanned'
  <2>1. m = <<m[1], m[2]>> /\ m[1] \in Jobs /\ m[2] \in 1 .. MaxTries
    BY DEF Messages
  <2>2. queue[<<m[1], m[2]>>] # 0
    BY <1>1, <2>1 DEF Take
  <2>3. m[1] = Dispatch /\ m[1] \notin Deliveries
    BY <1>0, <2>1, <2>2 DEF NoJobs, Jobs
  <2>4. NoJobs'
    <3>1. queue' = [queue EXCEPT ![<<m[1], m[2]>>] = queue[m] - 1]
      BY <1>1, <2>1 DEF Take
    <3>2. dead' = dead /\ letters' = letters
      BY <1>1 DEF Take
    <3> QED BY <1>0, <2>1, <2>3, <3>1, <3>2, NoJobsStays
  <2>5. Others(c) /\ Blank(cons'[c])
    <3>1. CASE Acks(c, m, FALSE)
      BY <1>0, <2>3, <3>1, BlankAcks DEF Acks
    <3>2. CASE /\ Others(c) /\ SameBatch(c) /\ cons'[c].due = cons[c].due
               /\ cons'[c].job = m[1] /\ cons'[c].pc = "plan"
      BY <1>0, <2>3, <3>2 DEF SameBatch, Blank
    <3> QED BY <1>1, <2>3, <3>1, <3>2, TakeTurns
  <2> QED BY <2>4, <2>5, BlankStep
<1>2. CASE EndBatch(c)
  <2>1. Rests(c)
    BY <1>0, <1>2, BatchTurns DEF Blank
  <2>2. NoJobs'
    BY <1>0, <1>2 DEF EndBatch, NoJobs
  <2>3. Blank(cons'[c])
    BY <2>1, NoneIsNoJob DEF Rests, Idle, Blank
  <2> QED BY <2>1, <2>2, <2>3, BlankStep DEF Rests
<1>3. CASE Throw(c)
  <2>1. cons[c].job \in Jobs \ Deliveries /\ cons[c].try \in 1 .. MaxTries
    BY <1>0, <1>3 DEF Throw, ThrowDue, Blank, Fits, Consumer
  <2>2. cons[c].try + 1 \in 1 .. MaxTries \/ Last(Message(c))
    BY <2>1 DEF Last, Message
  <2>3. NoJobs'
    <3>1. letters' = letters
      BY <1>3 DEF Throw, ThrowDue
    <3>2. CASE Last(Message(c))
      BY <1>0, <1>3, <2>1, <3>1, <3>2, NoJobsStays DEF Throw, ThrowDue
    <3>3. CASE ~Last(Message(c))
      <4>1. queue' = Sent(queue, {<<cons[c].job, cons[c].try + 1>>}) /\ dead' = dead
        BY <1>3, <3>3 DEF Throw, ThrowDue, Again, Message
      <4> QED BY <1>0, <2>1, <2>2, <3>1, <3>3, <4>1, NoJobsStays
    <3> QED BY <3>2, <3>3
  <2>4. Others(c) /\ Blank(cons'[c])
    BY <1>0, <1>3, <2>1, BatchTurns, NoneIsNoJob DEF SameBatch, Blank
  <2> QED BY <2>3, <2>4, BlankStep
<1>4. CASE Plan(c)
  BY <1>4 DEF Plan, Planned
<1>5. CASE \/ Run(c) \/ (\E S \in SUBSET Deliveries : Select(c, S))
           \/ Mark(c) \/ Enqueue(c) \/ Unmark(c) \/ Count(c) \/ Close(c)
           \/ Campaign(c) \/ Eligible(c) \/ Call(c) \/ Record(c)
  <2>1. CASE \/ Run(c) \/ Mark(c) \/ Enqueue(c) \/ Unmark(c) \/ Count(c) \/ Close(c)
    BY <1>0, <2>1 DEF Blank, Run, Mark, Enqueue, Unmark, Count, Close
  <2>2. CASE Campaign(c) \/ Eligible(c) \/ Call(c) \/ Record(c)
    BY <1>0, <2>2 DEF Blank, Campaign, Eligible, Call, Record
  <2>3. CASE \E S \in SUBSET Deliveries : Select(c, S)
    <3>1. cons[c].pc = "select"
      BY <2>3, Zenon DEF Select
    <3> QED BY <1>0, <3>1 DEF Blank
  <2> QED BY <1>5, <2>1, <2>2, <2>3
<1> QED BY <1>1, <1>2, <1>3, <1>4, <1>5 DEF Work

\* A Worker that is killed gives back the dispatch at most.
LEMMA CrashPlans ==
  ASSUME TypeInv, Unplanned, NEW c \in Consumers, Crash(c)
  PROVE  Unplanned'
<1> DEFINE held == IF cons[c].job = "none" THEN cons[c].acked
                                           ELSE Append(cons[c].acked, Message(c))
<1>0. Blank(cons[c]) /\ NoJobs /\ cons[c].acked \in Seq(Messages)
  BY DEF Unplanned, TypeInv, ConsOK, Consumer
<1>1. \A n \in DOMAIN held : held[n][1] \notin Deliveries
  <2> DEFINE s == cons[c].acked
             m == Message(c)
  <2>1. m[1] \notin Deliveries
    BY <1>0 DEF Message, Blank
  <2>2. s \in Seq(Messages) /\ \A n \in 1 .. Len(s) : s[n][1] \notin Deliveries
    BY <1>0 DEF Blank
  <2>3. held = s \/ held = Append(s, m)
    OBVIOUS
  <2> HIDE DEF held, s, m
  <2>4. CASE held = s
    BY <2>2, <2>4
  <2>5. CASE held = Append(s, m)
    <3>1. ASSUME NEW n \in DOMAIN held
          PROVE  held[n] = m \/ (n \in 1 .. Len(s) /\ held[n] = s[n])
      BY <2>2, <2>5, <3>1
    <3> QED BY <2>1, <2>2, <3>1
  <2> QED BY <2>3, <2>4, <2>5
<1>2. /\ queue' = [m \in Messages |-> queue[m] +
           Cardinality({n \in DOMAIN held : ~Last(held[n]) /\ Again(held[n]) = m})]
      /\ dead' = [j \in Jobs |-> dead[j] +
           Cardinality({n \in DOMAIN held : Last(held[n]) /\ held[n][1] = j})]
      /\ letters' = letters
  BY DEF Crash
<1> HIDE DEF held
<1>3. /\ queue \in [Messages -> Nat] /\ dead \in [Jobs -> Nat]
      /\ \A d \in Deliveries : d \in Jobs /\ \A n \in 1 .. MaxTries : <<d, n>> \in Messages
  BY DEF TypeInv, TypeOK, Messages, Jobs
<1>4. ASSUME NEW d \in Deliveries
      PROVE  dead'[d] = 0
  <2>1. {n \in DOMAIN held : Last(held[n]) /\ held[n][1] = d} = {}
    BY <1>1
  <2>2. dead'[d] = dead[d] + Cardinality({})
    BY <1>2, <1>3, <2>1
  <2>3. Cardinality({}) = 0
    BY FS_EmptySet
  <2> QED BY <1>0, <2>2, <2>3 DEF NoJobs
<1>5. ASSUME NEW d \in Deliveries, NEW x \in 1 .. MaxTries
      PROVE  queue'[<<d, x>>] = 0
  <2>1. {n \in DOMAIN held : ~Last(held[n]) /\ Again(held[n]) = <<d, x>>} = {}
    BY <1>1 DEF Again
  <2>2. queue'[<<d, x>>] = queue[<<d, x>>] + Cardinality({})
    BY <1>2, <1>3, <2>1
  <2> QED BY <1>0, <2>2, FS_EmptySet DEF NoJobs
<1>6. NoJobs'
  BY <1>0, <1>2, <1>4, <1>5 DEF NoJobs
<1>7. Others(c) /\ Blank(cons'[c])
  BY NoneIsNoJob DEF Crash, Others, Idle, Blank, TypeInv, ConsOK
<1> QED BY <1>6, <1>7, BlankStep

LEMMA FaultPlans ==
  ASSUME TypeInv, Unplanned, NEW c \in Consumers, Fault(c)
  PROVE  Unplanned'
<1>0. Blank(cons[c]) /\ NoJobs
  BY DEF Unplanned
<1>1. CASE StatementFails(c)
  <2>1. Goes(c, "throw")
    BY <1>1, GotoGoes DEF StatementFails
  <2>2. Blank(cons'[c])
    BY <1>0, <2>1 DEF Goes, SameBatch, SameHand, Blank
  <2>3. NoJobs'
    BY <1>0, <1>1 DEF StatementFails, NoJobs
  <2> QED BY <2>1, <2>2, <2>3, BlankStep DEF Goes
<1>2. CASE Crash(c)
  BY <1>2, CrashPlans
<1>3. CASE EnqueueFails(c) \/ CallFails(c) \/ RecordFails(c) \/ FinishFails(c)
  BY <1>0, <1>3 DEF Blank, EnqueueFails, CallFails, RecordFails, FinishFails
<1> QED BY <1>1, <1>2, <1>3 DEF Fault

LEMMA OtherPlans ==
  ASSUME TypeInv, Unplanned,
         \/ \E j \in Jobs : Quarantine(j) \/ Replay(j)
         \/ \E i \in Keys : Mail(i)
         \/ \E d \in Deliveries, o \in Outcomes : Apply(d, o)
         \/ \E d \in Deliveries : Tells(d)
         \/ Operator
         \/ UNCHANGED vars
  PROVE  Unplanned'
<1>0. NoJobs /\ 1 \in 1 .. MaxTries /\ Dispatch \notin Deliveries
  BY DEF Unplanned
<1>1. ASSUME cons' = cons, NoJobs'
      PROVE  Unplanned'
  BY <1>1 DEF Unplanned
<1>2. ASSUME cons' = cons, queue' = queue, dead' = dead, letters' = letters
      PROVE  Unplanned'
  BY <1>0, <1>1, <1>2 DEF NoJobs
<1>3. ASSUME NEW j \in Jobs, Quarantine(j) \/ Replay(j)
      PROVE  Unplanned'
  <2>1. dead[j] # 0 \/ letters[j] # 0
    BY <1>3 DEF Quarantine, Replay
  <2>2. j \notin Deliveries
    BY <1>0, <2>1 DEF NoJobs
  <2>3. NoJobs' /\ cons' = cons
    BY <1>0, <1>3, <2>2, NoJobsStays DEF Quarantine, Replay
  <2> QED BY <1>1, <2>3
<1>4. ASSUME NEW i \in Keys, Mail(i)
      PROVE  Unplanned'
  <2>1. queue' = queue /\ dead' = dead /\ letters' = letters
    BY <1>4 DEF Mail, Settle, Provider, Receipt, Refusal, Doubt, PersistFails, SessionDies,
                LeaseExpires, Notify
  <2>2. \A c \in Consumers : cons[c].pc # "await"
    BY DEF Unplanned, Blank
  <2>3. CASE Provider(i) \/ LeaseExpires(i) \/ \E o \in Notices : Notify(i, o)
    BY <1>2, <2>1, <2>3 DEF Provider, LeaseExpires, Notify
  <2> QED BY <1>2, <1>4, <2>1, <2>2, <2>3, AnswerTurns DEF Mail, Settle
<1>5. CASE \/ \E d \in Deliveries, o \in Outcomes : Apply(d, o)
           \/ \E d \in Deliveries : Tells(d)
           \/ UNCHANGED vars
  BY <1>2, <1>5, TellsFrame DEF Apply, vars
<1>6. CASE Operator
  <2>1. cons' = cons /\ dead' = dead /\ letters' = letters
    BY <1>6 DEF Operator, Start, StartDies, Schedule, Pause, Cancel, Archive, Cron, Moves,
                Unsubscribe, Subscribe
  <2>2. queue' = queue \/ queue' = Sent(queue, {<<Dispatch, 1>>})
    BY <1>6 DEF Operator, Start, StartDies, Schedule, Pause, Cancel, Archive, Cron, Moves,
                Unsubscribe, Subscribe
  <2>3. NoJobs'
    BY <1>0, <2>1, <2>2, NoJobsStays
  <2> QED BY <1>1, <2>1, <2>3
<1> QED BY <1>3, <1>4, <1>5, <1>6

\* What was planned is settled when the campaign is finished: no dispatch that
\* counts before, beside or after another finishes a campaign with deliveries to
\* come, whatever is lost, repeated, replayed, paused, cancelled or killed, as
\* long as no notice of a delay brings back a delivery that has an outcome.
THEOREM SettledWhenFinished ==
  ASSUME NoReturn
  PROVE  Spec /\ [][Timely]_vars => []FinishedIsSettled
<1>1. Init => TypeInv /\ PlanInv
  <2>1. Init => TypeInv
    BY InitTypeInv
  <2>2. ASSUME Init
        PROVE  PlanInv
    <3>1. Unplanned
      <4>1. NoJobs
        BY <2>2 DEF Init, NoJobs, Messages, Jobs
      <4>2. Blank(Idle)
        BY NoneIsNoJob DEF Blank, Idle
      <4> QED BY <2>2, <4>1, <4>2 DEF Init, Unplanned
    <3>2. ~Finishing /\ Audience \ subscribed = {}
      BY <2>2 DEF Init, Finishing, Idle
    <3> QED BY <3>1, <3>2 DEF PlanInv
  <2> QED BY <2>1, <2>2
<1>2. TypeInv /\ PlanInv /\ [Next]_vars /\ [Timely]_vars => TypeInv' /\ PlanInv'
  <2> SUFFICES ASSUME TypeInv, PlanInv, [Next]_vars, [Timely]_vars
               PROVE  TypeInv' /\ PlanInv'
    OBVIOUS
  <2>1. TypeInv'
    BY NextTypeInv
  <2>2. /\ Planned => Planned'
        /\ Over => Over'
        /\ (\A d \in Audience \ subscribed : delivery[d] = "none" => "unsubscribe" \in Controls)'
    BY PlanStays DEF PlanInv
  <2>3. (Unplanned \/ Planned)'
    <3>1. Unplanned => Unplanned' \/ Planned'
      BY WorkPlans, FaultPlans, OtherPlans DEF Next, Tells
    <3> QED BY <2>2, <3>1 DEF PlanInv
  <2>4. ASSUME Finishing'
        PROVE  Over'
    <3>1. CASE Finishing
      BY <2>2, <3>1 DEF PlanInv
    <3>2. CASE Unsettled = {} /\ \E c \in Consumers : cons[c].pc = "count"
      <4>1. Planned
        BY <3>2 DEF PlanInv, Unplanned, Blank
      <4>2. Over
        BY <3>2, <4>1 DEF Over, Planned, Unsettled
      <4> QED BY <2>2, <4>2
    <3> QED BY <2>4, <3>1, <3>2, NextFinishing
  <2> QED BY <2>1, <2>2, <2>3, <2>4 DEF PlanInv
<1>3. PlanInv => FinishedIsSettled
  BY DEF PlanInv, Finishing, Over, FinishedIsSettled
<1> QED BY <1>1, <1>2, <1>3, PTL DEF Spec
==============================================================================
