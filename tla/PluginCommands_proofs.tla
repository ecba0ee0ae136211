------------------------- MODULE PluginCommands_proofs -------------------------
(***************************************************************************)
(* What PluginCommands promises for any number of keys, requests, bodies   *)
(* and responses, and any bounds: its types, and that it implements        *)
(* CommandPromise, with the invariant both rest on.                        *)
(***************************************************************************)
EXTENDS PluginCommands, SequenceTheorems, TLAPS

\* The columns of a row agree with its state, and a recorded response of the
\* executor stands for an execution.
RowsHold == \A k \in Keys :
  /\ row[k].state = "none" <=> row[k].body = Nothing
  /\ Settled(k) <=> row[k].response # Nothing
  /\ row[k].response \in Responses => executed[k] > 0

\* What a request knows of its command at each step it reaches.
RequestHolds(r) ==
  LET k == req[r].key IN
  /\ req[r].pc # "idle" => k \in Keys /\ req[r].body \in Bodies
  /\ req[r].pc \in {"load", "dispatch", "complete", "reread"} => row[k].state # "none"
  /\ req[r].pc \in {"dispatch", "complete", "reread"} => row[k].body = req[r].body
  /\ req[r].pc \in {"complete", "reread"} =>
       /\ req[r].response \in Received
       /\ req[r].response \in Responses => executed[k] > 0
  /\ req[r].pc = "reread" => Settled(k)

\* What the drain found stays true until it is acted on.
QuietHolds ==
  quiet => state = "draining" /\ \A k \in Keys : row[k].state # "accepted"

\* The inductive invariant.
Inv == /\ TypeOK
       /\ RowsHold
       /\ \A r \in Requests : RequestHolds(r)
       /\ AnswersAgree
       /\ OutboxFollowsRows
       /\ QuietHolds
       /\ DisabledOwesNothing
------------------------------------------------------------------------------
(* What the steps of a request leave of it. *)

\* Init establishes the invariant.
LEMMA InitInv == Init => Inv
<1> SUFFICES ASSUME Init PROVE Inv
  OBVIOUS
<1>1. TypeOK
  <2>1. row \in [Keys -> Row] /\ req \in [Requests -> Request]
    BY DEF Init, Row, Request, Idle
  <2>2. outbox \in [Keys -> Seq({"accepted", "completed", "failed"})]
    BY DEF Init
  <2>3. answers \subseteq [key: Keys, body: Bodies, response: Received]
    BY DEF Init
  <2>4. state \in {"active", "draining", "disabled"} /\ quiet \in BOOLEAN
    BY DEF Init
  <2>5. /\ executed \in [Keys -> Nat]
        /\ sends \in Nat /\ toggles \in Nat /\ faults \in Nat
    BY CommandAssumption DEF Init
  <2>6. QED
    BY <2>1, <2>2, <2>3, <2>4, <2>5 DEF TypeOK
<1>2. RowsHold /\ QuietHolds /\ DisabledOwesNothing
  BY CommandAssumption DEF Init, RowsHold, QuietHolds, DisabledOwesNothing, Settled
<1>3. AnswersAgree /\ OutboxFollowsRows
  BY DEF Init, AnswersAgree, OutboxFollowsRows, Settled
<1>4. \A r \in Requests : RequestHolds(r)
  BY DEF Init, RequestHolds, Idle
<1>5. QED
  BY <1>1, <1>2, <1>3, <1>4 DEF Inv

\* What is appended to a sequence of one element.
LEMMA AppendTwo ==
  ASSUME NEW S, NEW x \in S, NEW y \in S
  PROVE  Append(<<x>>, y) = <<x, y>> /\ <<x, y>> \in Seq(S)
<1>1. <<x>> \in Seq(S) /\ Append(<<x>>, y) \in Seq(S)
  BY AppendProperties
<1>2. /\ Len(Append(<<x>>, y)) = 2
      /\ Append(<<x>>, y)[1] = x /\ Append(<<x>>, y)[2] = y
  BY <1>1, AppendProperties
<1>3. \A s \in Seq(S) : Len(s) = 2 => s = <<s[1], s[2]>>
  OBVIOUS
<1>4. QED
  BY <1>1, <1>2, <1>3

\* A request that goes on keeps its key, its body and its response.
LEMMA Goes ==
  ASSUME Inv, NEW r \in Requests,
         NEW pc \in {"insert", "load", "dispatch", "reread"}, Goto(r, pc)
  PROVE  /\ req' \in [Requests -> Request]
         /\ \A q \in Requests \ {r} : req'[q] = req[q]
         /\ req'[r].pc = pc /\ req'[r].key = req[r].key
         /\ req'[r].body = req[r].body /\ req'[r].response = req[r].response
<1> DEFINE gone == [req[r] EXCEPT !.pc = pc]
<1>1. req \in [Requests -> Request] /\ req[r] \in Request
  BY DEF Inv, TypeOK
<1>2. /\ gone \in Request
      /\ gone.pc = pc /\ gone.key = req[r].key
      /\ gone.body = req[r].body /\ gone.response = req[r].response
  BY <1>1 DEF Request
<1>3. req' = [req EXCEPT ![r] = gone]
  BY DEF Goto
<1> HIDE DEF gone
<1>4. QED
  BY <1>1, <1>2, <1>3

\* A request that ends is idle.
LEMMA Ends ==
  ASSUME Inv, NEW r \in Requests, req' = [req EXCEPT ![r] = Idle]
  PROVE  /\ req' \in [Requests -> Request]
         /\ \A q \in Requests \ {r} : req'[q] = req[q]
         /\ req'[r].pc = "idle"
<1>1. req \in [Requests -> Request]
  BY DEF Inv, TypeOK
<1>2. Idle \in Request /\ Idle.pc = "idle"
  BY DEF Idle, Request
<1>3. QED
  BY <1>1, <1>2

\* A request that hears of the executor keeps its key and its body.
LEMMA Receives ==
  ASSUME Inv, NEW r \in Requests, NEW response \in Received,
         req' = [req EXCEPT ![r] = [req[r] EXCEPT !.pc = "complete", !.response = response]]
  PROVE  /\ req' \in [Requests -> Request]
         /\ \A q \in Requests \ {r} : req'[q] = req[q]
         /\ req'[r].pc = "complete" /\ req'[r].key = req[r].key
         /\ req'[r].body = req[r].body /\ req'[r].response = response
<1> DEFINE heard == [req[r] EXCEPT !.pc = "complete", !.response = response]
<1>1. req \in [Requests -> Request] /\ req[r] \in Request
  BY DEF Inv, TypeOK
<1>2. /\ heard \in Request
      /\ heard.pc = "complete" /\ heard.key = req[r].key
      /\ heard.body = req[r].body /\ heard.response = response
  BY <1>1 DEF Request
<1> HIDE DEF heard
<1>3. req' = [req EXCEPT ![r] = heard]
  BY DEF heard
<1>4. QED
  BY <1>1, <1>2, <1>3

\* A request at work has a key and a body, and once its row was found or inserted
\* the row has that body.
LEMMA AtWork ==
  ASSUME Inv, NEW r \in Requests, req[r].pc # "idle"
  PROVE  req[r].key \in Keys /\ req[r].body \in Bodies /\ RequestHolds(r)
  BY DEF Inv, RequestHolds

\* A request that ends with the response its row recorded.
LEMMA Replays ==
  ASSUME Inv, NEW r \in Requests, NEW k \in Keys, req[r].key = k, req[r].body \in Bodies,
         Settled(k), row[k].body = req[r].body, Answer(r, row[k].response)
  PROVE  /\ req' \in [Requests -> Request]
         /\ \A q \in Requests \ {r} : req'[q] = req[q]
         /\ req'[r].pc = "idle"
         /\ answers' \subseteq [key: Keys, body: Bodies, response: Received]
         /\ \E j \in Keys : /\ Settled(j)
                            /\ answers' = answers \cup {[key |-> j, body |-> row[j].body,
                                                         response |-> row[j].response]}
<1> DEFINE answer == [key |-> k, body |-> row[k].body, response |-> row[k].response]
<1>1. row[k].response \in Received
  BY DEF Inv, TypeOK, RowsHold, Row
<1>2. answers' = answers \cup {answer} /\ req' = [req EXCEPT ![r] = Idle]
  BY DEF Answer
<1>3. answer \in [key: Keys, body: Bodies, response: Received]
  BY <1>1
<1>4. answers' \subseteq [key: Keys, body: Bodies, response: Received]
  BY <1>2, <1>3 DEF Inv, TypeOK
<1>5. QED
  BY <1>2, <1>4, Ends

\* A step of one request that leaves the rows and the lifecycle alone keeps the
\* invariant when it keeps what the request knows; it may replay a settled row, and
\* the executor may carry commands out.
LEMMA TablesKept ==
  ASSUME Inv, TypeOK', NEW r \in Requests, UNCHANGED <<state, quiet, row, outbox>>,
         \A k \in Keys : executed'[k] >= executed[k],
         \A q \in Requests \ {r} : req'[q] = req[q],
         RequestHolds(r)',
         \/ UNCHANGED answers
         \/ \E k \in Keys : /\ Settled(k)
                            /\ answers' = answers \cup {[key |-> k, body |-> row[k].body,
                                                         response |-> row[k].response]}
  PROVE  Inv'
<1>1. \A k \in Keys : executed[k] \in Nat /\ executed'[k] \in Nat
  BY DEF Inv, TypeOK
<1>2. \A k \in Keys : executed[k] > 0 => executed'[k] > 0
  BY <1>1
<1>3. RowsHold'
  BY <1>2 DEF Inv, RowsHold, Settled
<1>4. ASSUME NEW q \in Requests PROVE RequestHolds(q)'
  <2>1. CASE q = r
    BY <2>1
  <2>2. CASE q # r
    <3>1. req'[q] = req[q] /\ RequestHolds(q)
      BY <2>2 DEF Inv
    <3>2. QED
      BY <3>1, <1>2 DEF RequestHolds, Settled
  <2>3. QED
    BY <2>1, <2>2
<1>5. AnswersAgree'
  <2>1. \A a \in answers : a.key \in Keys
    BY DEF Inv, TypeOK
  <2>2. ASSUME NEW a \in answers
        PROVE  /\ Settled(a.key)' /\ row'[a.key].body = a.body
               /\ row'[a.key].response = a.response
               /\ a.response \in Responses => executed'[a.key] > 0
    BY <2>1, <1>2 DEF Inv, AnswersAgree, Settled
  <2>3. CASE UNCHANGED answers
    BY <2>2, <2>3 DEF AnswersAgree
  <2>4. ASSUME NEW k \in Keys, Settled(k),
               answers' = answers \cup {[key |-> k, body |-> row[k].body,
                                         response |-> row[k].response]}
        PROVE  AnswersAgree'
    <3>1. Settled(k)' /\ (row'[k].response \in Responses => executed'[k] > 0)
      BY <2>4, <1>3 DEF RowsHold, Settled
    <3>2. QED
      BY <2>2, <2>4, <3>1 DEF AnswersAgree
  <2>5. QED
    BY <2>3, <2>4
<1>6. OutboxFollowsRows' /\ QuietHolds' /\ DisabledOwesNothing'
  BY DEF Inv, OutboxFollowsRows, QuietHolds, DisabledOwesNothing, Settled
<1>7. QED
  BY <1>3, <1>4, <1>5, <1>6 DEF Inv
------------------------------------------------------------------------------
(* The actions keep the invariant. *)

\* Sending a request touches no table.
LEMMA SendInv ==
  ASSUME Inv, NEW r \in Requests, NEW k \in Keys, NEW b \in Bodies, Send(r, k, b)
  PROVE  Inv'
<1> DEFINE sent == [Idle EXCEPT !.pc = "contract", !.key = k, !.body = b]
<1>1. sent \in Request /\ sent.pc = "contract" /\ sent.key = k /\ sent.body = b
  BY DEF Request, Idle
<1> HIDE DEF sent
<1>2. req \in [Requests -> Request] /\ req' = [req EXCEPT ![r] = sent]
  BY DEF Inv, TypeOK, Send, sent
<1>3. TypeOK'
  BY <1>1, <1>2 DEF Inv, TypeOK, Send
<1>4. RequestHolds(r)'
  BY <1>1, <1>2 DEF RequestHolds
<1>5. QED
  BY <1>2, <1>3, <1>4, TablesKept DEF Inv, TypeOK, Send

\* Reading the contract touches no table.
LEMMA ContractInv ==
  ASSUME Inv, NEW r \in Requests, Contract(r)
  PROVE  Inv'
<1>1. /\ req' \in [Requests -> Request]
      /\ \A q \in Requests \ {r} : req'[q] = req[q]
      /\ RequestHolds(r)'
  <2>1. CASE Goto(r, "insert")
    BY <2>1, Goes, AtWork DEF Contract, RequestHolds
  <2>2. CASE Refuse(r)
    BY <2>2, Ends DEF Refuse, RequestHolds
  <2>3. QED
    BY <2>1, <2>2 DEF Contract
<1>2. UNCHANGED <<state, quiet, row, outbox, executed, answers, sends, toggles, faults>>
  BY DEF Contract, Refuse
<1>3. TypeOK'
  BY <1>1, <1>2 DEF Inv, TypeOK
<1>4. \A j \in Keys : executed'[j] >= executed[j]
  BY <1>2 DEF Inv, TypeOK
<1>5. QED
  BY <1>1, <1>2, <1>3, <1>4, TablesKept

\* A row that is found was inserted, and a replay answers what it recorded.
LEMMA LoadInv ==
  ASSUME Inv, NEW r \in Requests, Load(r)
  PROVE  Inv'
<1> DEFINE k == req[r].key
<1>1. k \in Keys /\ req[r].body \in Bodies /\ RequestHolds(r) /\ row[k] \in Row
  BY AtWork DEF Load, Inv, TypeOK
<1>2. UNCHANGED <<state, quiet, row, outbox, executed, sends, toggles, faults>>
  BY DEF Load
<1>3. \A j \in Keys : executed'[j] >= executed[j]
  BY <1>2 DEF Inv, TypeOK
<1>4. CASE row[k].body # req[r].body /\ Refuse(r)
  <2>1. /\ req' \in [Requests -> Request] /\ req'[r].pc = "idle"
        /\ \A q \in Requests \ {r} : req'[q] = req[q]
        /\ UNCHANGED answers
    BY <1>4, Ends DEF Refuse
  <2>2. TypeOK' /\ RequestHolds(r)'
    BY <1>2, <2>1 DEF Inv, TypeOK, RequestHolds
  <2>3. QED
    BY <1>2, <1>3, <2>1, <2>2, TablesKept
<1>5. CASE /\ row[k].body = req[r].body /\ row[k].state = "accepted"
           /\ Goto(r, "dispatch") /\ UNCHANGED answers
  <2>1. /\ req' \in [Requests -> Request]
        /\ req'[r].pc = "dispatch" /\ req'[r].key = k /\ req'[r].body = req[r].body
        /\ \A q \in Requests \ {r} : req'[q] = req[q]
    BY <1>5, Goes
  <2>2. TypeOK'
    BY <1>2, <1>5, <2>1 DEF Inv, TypeOK
  <2>3. RequestHolds(r)'
    BY <1>1, <1>2, <1>5, <2>1 DEF RequestHolds
  <2>4. QED
    BY <1>2, <1>3, <1>5, <2>1, <2>2, <2>3, TablesKept
<1>6. CASE /\ row[k].body = req[r].body /\ row[k].state # "accepted"
           /\ Answer(r, row[k].response)
  <2>1. Settled(k)
    BY <1>1, <1>6 DEF Load, RequestHolds, Settled, Row
  <2>2. /\ req' \in [Requests -> Request] /\ req'[r].pc = "idle"
        /\ \A q \in Requests \ {r} : req'[q] = req[q]
        /\ answers' \subseteq [key: Keys, body: Bodies, response: Received]
        /\ \E j \in Keys : /\ Settled(j)
                           /\ answers' = answers \cup {[key |-> j, body |-> row[j].body,
                                                        response |-> row[j].response]}
    BY <1>1, <1>6, <2>1, Replays
  <2>3. TypeOK' /\ RequestHolds(r)'
    BY <1>2, <2>2 DEF Inv, TypeOK, RequestHolds
  <2>4. QED
    BY <1>2, <1>3, <2>2, <2>3, TablesKept
<1>7. QED
  BY <1>4, <1>5, <1>6 DEF Load

\* The executor answers for a command it carried out.
LEMMA DispatchInv ==
  ASSUME Inv, NEW r \in Requests, NEW response \in Responses, Dispatch(r, response)
  PROVE  Inv'
<1> DEFINE k == req[r].key
<1>1. k \in Keys /\ req[r].body \in Bodies /\ RequestHolds(r)
  BY AtWork DEF Dispatch
<1>2. executed \in [Keys -> Nat] /\ executed' = [executed EXCEPT ![k] = executed[k] + 1]
  BY DEF Inv, TypeOK, Dispatch
<1>3. executed' \in [Keys -> Nat] /\ executed'[k] > 0
  BY <1>1, <1>2
<1>4. \A j \in Keys : executed'[j] >= executed[j]
  BY <1>1, <1>2
<1>5. /\ req' \in [Requests -> Request]
      /\ \A q \in Requests \ {r} : req'[q] = req[q]
      /\ req'[r].pc = "complete" /\ req'[r].key = k
      /\ req'[r].body = req[r].body /\ req'[r].response = response
  BY Receives DEF Dispatch, Received
<1>6. TypeOK'
  BY <1>3, <1>5 DEF Inv, TypeOK, Dispatch
<1>7. RequestHolds(r)'
  BY <1>1, <1>3, <1>5 DEF RequestHolds, Dispatch, Received
<1>8. QED
  BY <1>4, <1>5, <1>6, <1>7, TablesKept DEF Dispatch

\* The gateway's own answer stands for no execution.
LEMMA DispatchThrowsInv ==
  ASSUME Inv, NEW r \in Requests, NEW done \in BOOLEAN, DispatchThrows(r, done)
  PROVE  Inv'
<1> DEFINE k == req[r].key
<1>1. k \in Keys /\ req[r].body \in Bodies /\ RequestHolds(r)
  BY AtWork DEF DispatchThrows
<1>2. /\ executed \in [Keys -> Nat]
      /\ executed' = [executed EXCEPT ![k] = IF done THEN executed[k] + 1 ELSE executed[k]]
  BY DEF Inv, TypeOK, DispatchThrows
<1>3. executed' \in [Keys -> Nat]
  BY <1>1, <1>2
<1>4. \A j \in Keys : executed'[j] >= executed[j]
  BY <1>1, <1>2
<1>5. /\ req' \in [Requests -> Request]
      /\ \A q \in Requests \ {r} : req'[q] = req[q]
      /\ req'[r].pc = "complete" /\ req'[r].key = k
      /\ req'[r].body = req[r].body /\ req'[r].response = Unavailable
  BY Receives DEF DispatchThrows, Received
<1>6. TypeOK'
  BY <1>3, <1>5 DEF Inv, TypeOK, DispatchThrows
<1>7. RequestHolds(r)'
  BY <1>1, <1>5, CommandAssumption DEF RequestHolds, DispatchThrows, Received
<1>8. QED
  BY <1>4, <1>5, <1>6, <1>7, TablesKept DEF DispatchThrows

\* A later attempt answers the recorded response only.
LEMMA RereadInv ==
  ASSUME Inv, NEW r \in Requests, Reread(r)
  PROVE  Inv'
<1> DEFINE k == req[r].key
<1>1. /\ k \in Keys /\ req[r].body \in Bodies /\ RequestHolds(r)
      /\ Settled(k) /\ row[k].body = req[r].body
  BY AtWork DEF Reread, RequestHolds
<1>2. UNCHANGED <<state, quiet, row, outbox, executed, sends, toggles, faults>>
  BY DEF Reread
<1>3. \A j \in Keys : executed'[j] >= executed[j]
  BY <1>2 DEF Inv, TypeOK
<1>4. CASE row[k].response = req[r].response /\ Answer(r, req[r].response)
  <2>1. /\ req' \in [Requests -> Request] /\ req'[r].pc = "idle"
        /\ \A q \in Requests \ {r} : req'[q] = req[q]
        /\ answers' \subseteq [key: Keys, body: Bodies, response: Received]
        /\ \E j \in Keys : /\ Settled(j)
                           /\ answers' = answers \cup {[key |-> j, body |-> row[j].body,
                                                        response |-> row[j].response]}
    BY <1>1, <1>4, Replays
  <2>2. TypeOK' /\ RequestHolds(r)'
    BY <1>2, <2>1 DEF Inv, TypeOK, RequestHolds
  <2>3. QED
    BY <1>2, <1>3, <2>1, <2>2, TablesKept
<1>5. CASE Refuse(r)
  <2>1. /\ req' \in [Requests -> Request] /\ req'[r].pc = "idle"
        /\ \A q \in Requests \ {r} : req'[q] = req[q]
        /\ UNCHANGED answers
    BY <1>5, Ends DEF Refuse
  <2>2. TypeOK' /\ RequestHolds(r)'
    BY <1>2, <2>1 DEF Inv, TypeOK, RequestHolds
  <2>3. QED
    BY <1>2, <1>3, <2>1, <2>2, TablesKept
<1>6. QED
  BY <1>4, <1>5 DEF Reread

\* A request that dies leaves its row.
LEMMA CrashInv ==
  ASSUME Inv, NEW r \in Requests, Crash(r)
  PROVE  Inv'
<1>1. /\ req' \in [Requests -> Request] /\ req'[r].pc = "idle"
      /\ \A q \in Requests \ {r} : req'[q] = req[q]
      /\ UNCHANGED answers
  BY Ends DEF Crash, Refuse
<1>2. UNCHANGED <<state, quiet, row, outbox, executed, sends, toggles>> /\ faults' \in Nat
  BY DEF Inv, TypeOK, Crash
<1>3. TypeOK' /\ RequestHolds(r)'
  BY <1>1, <1>2 DEF Inv, TypeOK, RequestHolds
<1>4. \A j \in Keys : executed'[j] >= executed[j]
  BY <1>2 DEF Inv, TypeOK
<1>5. QED
  BY <1>1, <1>2, <1>3, <1>4, TablesKept

\* An insertion accepts a key that has no row, and only beside an active plugin.
LEMMA InsertInv ==
  ASSUME Inv, NEW r \in Requests, Insert(r)
  PROVE  Inv'
<1> DEFINE k == req[r].key
           fresh == [state |-> "accepted", body |-> req[r].body, response |-> Nothing]
<1>1. k \in Keys /\ req[r].body \in Bodies
  BY AtWork DEF Insert
<1>2. UNCHANGED <<state, quiet, executed, sends, toggles, faults>>
  BY DEF Insert
<1>3. \A j \in Keys : executed'[j] >= executed[j]
  BY <1>2 DEF Inv, TypeOK
<1>4. CASE Refuse(r) /\ UNCHANGED <<row, outbox>>
  <2>1. /\ req' \in [Requests -> Request] /\ req'[r].pc = "idle"
        /\ \A q \in Requests \ {r} : req'[q] = req[q]
        /\ UNCHANGED answers
    BY <1>4, Ends DEF Refuse
  <2>2. TypeOK' /\ RequestHolds(r)'
    BY <1>2, <1>4, <2>1 DEF Inv, TypeOK, RequestHolds
  <2>3. QED
    BY <1>2, <1>3, <1>4, <2>1, <2>2, TablesKept
<1>5. CASE row[k].state # "none" /\ Goto(r, "load") /\ UNCHANGED <<row, outbox, answers>>
  <2>1. /\ req' \in [Requests -> Request]
        /\ req'[r].pc = "load" /\ req'[r].key = k /\ req'[r].body = req[r].body
        /\ \A q \in Requests \ {r} : req'[q] = req[q]
    BY <1>5, Goes
  <2>2. TypeOK'
    BY <1>2, <1>5, <2>1 DEF Inv, TypeOK
  <2>3. RequestHolds(r)'
    BY <1>1, <1>5, <2>1 DEF RequestHolds
  <2>4. QED
    BY <1>2, <1>3, <1>5, <2>1, <2>2, <2>3, TablesKept
<1>6. CASE /\ state = "active" /\ row[k].state = "none"
           /\ row' = [row EXCEPT ![k] = fresh]
           /\ outbox' = [outbox EXCEPT ![k] = Append(outbox[k], "accepted")]
           /\ Goto(r, "dispatch")
           /\ UNCHANGED answers
  <2>1. /\ req' \in [Requests -> Request]
        /\ req'[r].pc = "dispatch" /\ req'[r].key = k /\ req'[r].body = req[r].body
        /\ \A q \in Requests \ {r} : req'[q] = req[q]
    BY <1>6, Goes
  <2>2. fresh \in Row /\ row \in [Keys -> Row]
    BY <1>1 DEF Inv, TypeOK, Row
  <2>3. row' \in [Keys -> Row] /\ row'[k] = fresh /\ \A j \in Keys \ {k} : row'[j] = row[j]
    BY <1>1, <1>6, <2>2
  <2>4. /\ outbox' \in [Keys -> Seq({"accepted", "completed", "failed"})]
        /\ outbox'[k] = <<"accepted">> /\ \A j \in Keys \ {k} : outbox'[j] = outbox[j]
    <3>1. outbox \in [Keys -> Seq({"accepted", "completed", "failed"})]
      BY DEF Inv, TypeOK
    <3>2. outbox[k] = <<>>
      BY <1>1, <1>6 DEF Inv, OutboxFollowsRows
    <3>3. Append(<<>>, "accepted") = <<"accepted">>
      OBVIOUS
    <3>4. QED
      BY <1>1, <1>6, <3>1, <3>2, <3>3
  <2>5. TypeOK'
    BY <1>2, <1>6, <2>1, <2>3, <2>4 DEF Inv, TypeOK
  <2>6. RowsHold'
    BY <1>1, <1>2, <2>3, CommandAssumption DEF Inv, RowsHold, Settled, Received
  <2>7. ASSUME NEW q \in Requests PROVE RequestHolds(q)'
    <3>1. CASE q = r
      BY <3>1, <1>1, <2>1, <2>3 DEF RequestHolds
    <3>2. CASE q # r
      <4>1. req'[q] = req[q] /\ RequestHolds(q)
        BY <3>2, <2>1 DEF Inv
      <4>2. QED
        BY <4>1, <1>2, <1>6, <2>3 DEF RequestHolds, Settled
    <3>3. QED
      BY <3>1, <3>2
  <2>8. AnswersAgree'
    <3>1. \A a \in answers : a.key \in Keys /\ a.key # k
      BY <1>6 DEF Inv, TypeOK, AnswersAgree, Settled
    <3>2. QED
      BY <1>2, <1>6, <2>3, <3>1 DEF Inv, AnswersAgree, Settled
  <2>9. OutboxFollowsRows'
    BY <2>3, <2>4 DEF Inv, OutboxFollowsRows, Settled
  <2>10. QuietHolds' /\ DisabledOwesNothing'
    BY <1>2, <1>6 DEF Inv, QuietHolds, DisabledOwesNothing
  <2>11. QED
    BY <2>5, <2>6, <2>7, <2>8, <2>9, <2>10 DEF Inv
<1>7. QED
  BY <1>4, <1>5, <1>6 DEF Insert

\* The first response settles the row, and a later one finds it settled.
LEMMA CompleteInv ==
  ASSUME Inv, NEW r \in Requests, Complete(r)
  PROVE  Inv'
<1> DEFINE k == req[r].key
           response == req[r].response
           settled == [state |-> Outcome(response), body |-> row[k].body,
                       response |-> response]
<1>1. /\ k \in Keys /\ req[r].body \in Bodies /\ RequestHolds(r)
      /\ row[k].body = req[r].body /\ row[k].state # "none" /\ response \in Received
      /\ response \in Responses => executed[k] > 0
  BY AtWork DEF Complete, RequestHolds
<1>2. UNCHANGED <<state, quiet, executed, sends, toggles, faults>>
  BY DEF Complete
<1>3. row[k] \in Row /\ Outcome(response) \in {"completed", "failed"}
  BY <1>1 DEF Inv, TypeOK, Outcome
<1>4. CASE row[k].state # "accepted" /\ Goto(r, "reread") /\ UNCHANGED <<row, outbox, answers>>
  <2>1. /\ req' \in [Requests -> Request]
        /\ req'[r].pc = "reread" /\ req'[r].key = k /\ req'[r].body = req[r].body
        /\ req'[r].response = response
        /\ \A q \in Requests \ {r} : req'[q] = req[q]
    BY <1>4, Goes
  <2>2. Settled(k)
    BY <1>1, <1>3, <1>4 DEF Settled, Row
  <2>3. TypeOK'
    BY <1>2, <1>4, <2>1 DEF Inv, TypeOK
  <2>4. RequestHolds(r)'
    BY <1>1, <1>2, <1>4, <2>1, <2>2 DEF RequestHolds, Settled
  <2>5. \A j \in Keys : executed'[j] >= executed[j]
    BY <1>2 DEF Inv, TypeOK
  <2>6. QED
    BY <1>2, <1>4, <2>1, <2>3, <2>4, <2>5, TablesKept
<1>5. CASE /\ row[k].state = "accepted"
           /\ row' = [row EXCEPT ![k] = settled]
           /\ outbox' = [outbox EXCEPT ![k] = Append(outbox[k], Outcome(response))]
           /\ Answer(r, response)
  <2>1. /\ req' \in [Requests -> Request] /\ req'[r].pc = "idle"
        /\ \A q \in Requests \ {r} : req'[q] = req[q]
    BY <1>5, Ends DEF Answer
  <2>2. settled \in Row /\ row \in [Keys -> Row]
    BY <1>1, <1>3 DEF Inv, TypeOK, Row
  <2>3. row' \in [Keys -> Row] /\ row'[k] = settled /\ \A j \in Keys \ {k} : row'[j] = row[j]
    BY <1>1, <1>5, <2>2
  <2>4. /\ outbox' \in [Keys -> Seq({"accepted", "completed", "failed"})]
        /\ outbox'[k] = <<"accepted", Outcome(response)>>
        /\ \A j \in Keys \ {k} : outbox'[j] = outbox[j]
    <3>1. outbox \in [Keys -> Seq({"accepted", "completed", "failed"})]
      BY DEF Inv, TypeOK
    <3>2. outbox[k] = <<"accepted">>
      BY <1>1, <1>5 DEF Inv, OutboxFollowsRows
    <3>3. \A kind \in {"completed", "failed"} :
            /\ Append(<<"accepted">>, kind) = <<"accepted", kind>>
            /\ <<"accepted", kind>> \in Seq({"accepted", "completed", "failed"})
      <4> DEFINE kinds == {"accepted", "completed", "failed"}
      <4>1. "accepted" \in kinds /\ \A kind \in {"completed", "failed"} : kind \in kinds
        OBVIOUS
      <4> HIDE DEF kinds
      <4>2. \A kind \in kinds : /\ Append(<<"accepted">>, kind) = <<"accepted", kind>>
                               /\ <<"accepted", kind>> \in Seq(kinds)
        BY <4>1, AppendTwo
      <4>3. QED
        BY <4>1, <4>2 DEF kinds
    <3>4. QED
      BY <1>1, <1>3, <1>5, <3>1, <3>2, <3>3
  <2>5. answers' = answers \cup {[key |-> k, body |-> req[r].body, response |-> response]}
    BY <1>5 DEF Answer
  <2>6. TypeOK'
    <3>1. answers' \subseteq [key: Keys, body: Bodies, response: Received]
      BY <1>1, <2>5 DEF Inv, TypeOK
    <3>2. QED
      BY <1>2, <2>1, <2>3, <2>4, <3>1 DEF Inv, TypeOK
  <2>7. /\ row'[k].state = Outcome(response) /\ row'[k].body = row[k].body
        /\ row'[k].response = response
        /\ row'[k].state \in {"completed", "failed"}
    BY <1>3, <2>3
  <2>8. RowsHold'
    BY <1>1, <1>2, <2>3, <2>7, CommandAssumption DEF Inv, RowsHold, Received, Settled
  <2>9. ASSUME NEW q \in Requests PROVE RequestHolds(q)'
    <3>1. CASE q = r
      BY <3>1, <2>1 DEF RequestHolds
    <3>2. CASE q # r
      <4>1. req'[q] = req[q] /\ RequestHolds(q)
        BY <3>2, <2>1 DEF Inv
      <4>2. CASE req[q].key = k
        BY <4>1, <4>2, <1>2, <2>7, <1>1 DEF RequestHolds, Settled
      <4>3. CASE req[q].key # k
        BY <4>1, <4>3, <1>2, <2>3 DEF RequestHolds, Settled
      <4>4. QED
        BY <4>2, <4>3
    <3>3. QED
      BY <3>1, <3>2
  <2>10. AnswersAgree'
    <3>1. \A a \in answers : a.key \in Keys /\ a.key # k
      BY <1>5 DEF Inv, TypeOK, AnswersAgree, Settled
    <3>2. QED
      BY <1>1, <1>2, <2>3, <2>5, <2>7, <3>1 DEF Inv, AnswersAgree, Settled
  <2>11. OutboxFollowsRows'
    BY <1>3, <2>3, <2>4, <2>7 DEF Inv, OutboxFollowsRows, Settled
  <2>12. QuietHolds' /\ DisabledOwesNothing'
    BY <1>1, <1>2, <1>3, <2>3 DEF Inv, QuietHolds, DisabledOwesNothing
  <2>13. QED
    BY <2>6, <2>8, <2>9, <2>10, <2>11, <2>12 DEF Inv
<1>6. QED
  BY <1>4, <1>5 DEF Complete

\* The lifecycle touches no command; only a plugin without accepted rows is disabled.
LEMMA LifecycleInv ==
  ASSUME Inv, Enable \/ Drain \/ Restore \/ Busy \/ Disable
  PROVE  Inv'
<1>1. UNCHANGED <<row, outbox, req, answers, executed, sends, faults>>
  BY DEF Enable, Drain, Restore, Busy, Disable
<1>2. TypeOK'
  <2>1. state' \in {"active", "draining", "disabled"} /\ toggles' \in Nat
    BY DEF Inv, TypeOK, Enable, Drain, Restore, Busy, Disable
  <2>2. quiet' \in BOOLEAN
    BY DEF Inv, TypeOK, Enable, Drain, Restore, Busy, Disable
  <2>3. QED
    BY <1>1, <2>1, <2>2 DEF Inv, TypeOK
<1>3. QuietHolds' /\ DisabledOwesNothing'
  BY <1>1 DEF Inv, QuietHolds, DisabledOwesNothing, Enable, Drain, Restore, Busy, Disable
<1>4. RowsHold' /\ AnswersAgree' /\ OutboxFollowsRows'
  BY <1>1 DEF Inv, RowsHold, AnswersAgree, OutboxFollowsRows, Settled
<1>5. \A q \in Requests : RequestHolds(q)'
  BY <1>1 DEF Inv, RequestHolds, Settled
<1>6. QED
  BY <1>2, <1>3, <1>4, <1>5 DEF Inv

\* A step that changes nothing keeps the invariant.
LEMMA StutterInv == ASSUME Inv, UNCHANGED vars PROVE Inv'
  BY DEF Inv, vars, TypeOK, RowsHold, RequestHolds, AnswersAgree, OutboxFollowsRows,
     QuietHolds, DisabledOwesNothing, Settled

\* Every step of the specification keeps the invariant.
LEMMA NextInv == Inv /\ [Next]_vars => Inv'
<1> SUFFICES ASSUME Inv, [Next]_vars PROVE Inv'
  OBVIOUS
<1>1. ASSUME NEW r \in Requests, Execute(r) \/ Crash(r) PROVE Inv'
  BY <1>1, SendInv, ContractInv, InsertInv, LoadInv, DispatchInv, DispatchThrowsInv,
     CompleteInv, RereadInv, CrashInv DEF Execute
<1>2. QED
  BY <1>1, LifecycleInv, StutterInv DEF Next
------------------------------------------------------------------------------
(* Theorems *)

\* The invariant holds in every behaviour.
LEMMA Invariance == Spec => []Inv
  BY InitInv, NextInv, PTL DEF Spec

\* The tables and every request keep their shape.
THEOREM TypeCorrect == Spec => []TypeOK
<1>1. Inv => TypeOK
  BY DEF Inv
<1>2. QED
  BY <1>1, Invariance, PTL

\* Every client that is answered gets the one response of its command.
THEOREM AnswersAlwaysAgree == Spec => []AnswersAgree
<1>1. Inv => AnswersAgree
  BY DEF Inv
<1>2. QED
  BY <1>1, Invariance, PTL

\* The outbox tells of each command what its row went through.
THEOREM OutboxAlwaysFollows == Spec => []OutboxFollowsRows
<1>1. Inv => OutboxFollowsRows
  BY DEF Inv
<1>2. QED
  BY <1>1, Invariance, PTL

\* A plugin disabled by a drain has no command that is accepted and not settled.
THEOREM NothingOwed == Spec => []DisabledOwesNothing
<1>1. Inv => DisabledOwesNothing
  BY DEF Inv
<1>2. QED
  BY <1>1, Invariance, PTL
------------------------------------------------------------------------------
(* The rows implement CommandPromise: an insertion accepts, the first response *)
(* settles, a row that is found is replayed, and every other step stutters.    *)

\* The initial states are those of the promise.
LEMMA PromiseInit == Init => Promise!Init
  BY DEF Init, Promise!Init, Command

\* A step that replays a settled row, or answers nothing, beside rows it leaves alone.
LEMMA PromiseReplay ==
  ASSUME Inv, UNCHANGED row,
         \/ UNCHANGED answers
         \/ \E k \in Keys : /\ Settled(k)
                            /\ answers' = answers \cup {[key |-> k, body |-> row[k].body,
                                                         response |-> row[k].response]}
  PROVE  [Promise!Next]_<<Command, answers>>
<1>1. UNCHANGED Command
  BY DEF Command
<1>2. CASE UNCHANGED answers
  BY <1>1, <1>2
<1>3. ASSUME NEW k \in Keys, Settled(k),
             answers' = answers \cup {[key |-> k, body |-> row[k].body,
                                       response |-> row[k].response]}
      PROVE  Promise!Next
  <2>1. row[k].response # Nothing
    BY <1>3 DEF Inv, RowsHold
  <2>2. /\ Command[k].body = row[k].body /\ Command[k].response = row[k].response
        /\ Command'[k].body = row[k].body /\ Command'[k].response = row[k].response
    BY <1>1 DEF Command
  <2>3. Promise!Replay(k)
    BY <1>1, <1>3, <2>1, <2>2 DEF Promise!Replay, Promise!Reply
  <2>4. QED
    BY <2>3 DEF Promise!Next
<1>4. QED
  BY <1>2, <1>3

\* An insertion accepts the command.
LEMMA PromiseInsert ==
  ASSUME Inv, NEW r \in Requests, Insert(r)
  PROVE  [Promise!Next]_<<Command, answers>>
<1> DEFINE k == req[r].key
           b == req[r].body
<1>1. k \in Keys /\ b \in Bodies /\ row \in [Keys -> Row]
  BY AtWork DEF Insert, Inv, TypeOK
<1>2. CASE UNCHANGED <<row, answers>>
  BY <1>2, PromiseReplay
<1>3. CASE /\ row[k].state = "none" /\ UNCHANGED answers
           /\ row' = [row EXCEPT ![k] = [state |-> "accepted", body |-> b,
                                         response |-> Nothing]]
  <2>1. row[k].body = Nothing
    BY <1>1, <1>3 DEF Inv, RowsHold
  <2>2. Command[k].body = Nothing
    BY <1>1, <2>1 DEF Command
  <2>3. Command' = [Command EXCEPT ![k] = [body |-> b, response |-> Nothing]]
    BY <1>1, <1>3 DEF Command
  <2>4. Promise!Accept(k, b)
    BY <1>3, <2>2, <2>3 DEF Promise!Accept
  <2>5. QED
    BY <1>1, <2>4 DEF Promise!Next
<1>4. QED
  BY <1>2, <1>3 DEF Insert, Refuse

\* The first response settles the command.
LEMMA PromiseComplete ==
  ASSUME Inv, NEW r \in Requests, Complete(r)
  PROVE  [Promise!Next]_<<Command, answers>>
<1> DEFINE k == req[r].key
           response == req[r].response
<1>1. /\ k \in Keys /\ row \in [Keys -> Row] /\ response \in Received
      /\ row[k].body = req[r].body /\ row[k].state # "none"
  BY AtWork DEF Complete, Inv, TypeOK, RequestHolds
<1>2. CASE UNCHANGED <<row, answers>>
  BY <1>2, PromiseReplay
<1>3. CASE /\ row[k].state = "accepted" /\ Answer(r, response)
           /\ row' = [row EXCEPT ![k] = [state |-> Outcome(response), body |-> row[k].body,
                                         response |-> response]]
  <2>1. row[k].body # Nothing /\ row[k].response = Nothing
    BY <1>1, <1>3 DEF Inv, RowsHold, Settled
  <2>2. Command[k].body = row[k].body /\ Command[k].response = row[k].response
    BY <1>1 DEF Command
  <2>3. Command' = [Command EXCEPT ![k] = [body |-> Command[k].body, response |-> response]]
    BY <1>1, <1>3, <2>2 DEF Command
  <2>4. Command'[k].body = req[r].body /\ Command'[k].response = response
    BY <1>1, <2>2, <2>3 DEF Command
  <2>5. answers' = answers \cup {[key |-> k, body |-> req[r].body, response |-> response]}
    BY <1>3 DEF Answer
  <2>6. Promise!Settle(k, response)
    BY <2>1, <2>2, <2>3, <2>4, <2>5 DEF Promise!Settle, Promise!Reply
  <2>7. QED
    BY <1>1, <2>6 DEF Promise!Next
<1>4. QED
  BY <1>2, <1>3 DEF Complete

\* Finding a row, or reading it again, replays it.
LEMMA PromiseReads ==
  ASSUME Inv, NEW r \in Requests, Load(r) \/ Reread(r)
  PROVE  [Promise!Next]_<<Command, answers>>
<1> DEFINE k == req[r].key
<1>1. k \in Keys /\ req[r].body \in Bodies /\ RequestHolds(r) /\ row[k] \in Row
  BY AtWork DEF Load, Reread, Inv, TypeOK
<1>2. UNCHANGED row
  BY DEF Load, Reread
<1>3. CASE UNCHANGED answers
  BY <1>2, <1>3, PromiseReplay
<1>4. CASE /\ row[k].body = req[r].body /\ row[k].state \notin {"none", "accepted"}
           /\ Answer(r, row[k].response)
  <2>1. Settled(k)
    BY <1>1, <1>4 DEF Settled, Row
  <2>2. answers' = answers \cup {[key |-> k, body |-> row[k].body,
                                  response |-> row[k].response]}
    BY <1>4 DEF Answer
  <2>3. QED
    BY <1>1, <1>2, <2>1, <2>2, PromiseReplay
<1>5. CASE Load(r)
  <2>1. row[k].state # "none"
    BY <1>1, <1>5 DEF Load, RequestHolds
  <2>2. QED
    BY <1>3, <1>4, <1>5, <2>1 DEF Load, Refuse
<1>6. CASE Reread(r)
  <2>1. /\ row[k].state \notin {"none", "accepted"} /\ row[k].body = req[r].body
    BY <1>1, <1>6 DEF Reread, RequestHolds, Settled
  <2>2. QED
    BY <1>3, <1>4, <1>6, <2>1 DEF Reread, Refuse
<1>7. QED
  BY <1>5, <1>6

\* Every step is a step of the promise or a stutter.
LEMMA PromiseNext == Inv /\ [Next]_vars => [Promise!Next]_<<Command, answers>>
<1> SUFFICES ASSUME Inv, [Next]_vars PROVE [Promise!Next]_<<Command, answers>>
  OBVIOUS
<1>1. CASE UNCHANGED <<row, answers>>
  BY <1>1, PromiseReplay
<1>2. ASSUME NEW r \in Requests, Execute(r) \/ Crash(r)
      PROVE  [Promise!Next]_<<Command, answers>>
  <2>1. CASE Insert(r) \/ Complete(r) \/ Load(r) \/ Reread(r)
    BY <2>1, PromiseInsert, PromiseComplete, PromiseReads
  <2>2. CASE \/ \E k \in Keys, b \in Bodies : Send(r, k, b)
             \/ Contract(r)
             \/ \E response \in Responses : Dispatch(r, response)
             \/ \E done \in BOOLEAN : DispatchThrows(r, done)
             \/ Crash(r)
    <3>1. UNCHANGED <<row, answers>>
      BY <2>2 DEF Send, Contract, Dispatch, DispatchThrows, Crash, Refuse
    <3>2. QED
      BY <3>1, <1>1
  <2>3. QED
    BY <1>2, <2>1, <2>2 DEF Execute
<1>3. CASE Enable \/ Drain \/ Restore \/ Busy \/ Disable \/ UNCHANGED vars
  BY <1>1, <1>3 DEF Enable, Drain, Restore, Busy, Disable, vars
<1>4. QED
  BY <1>2, <1>3 DEF Next

\* The gateway keeps its promise: however requests with the same key interleave, retry
\* and die, a command is accepted once, settled once, and answered with one response.
THEOREM PromiseKept == Spec => KeepsPromise
<1>1. Init => Promise!Init
  BY PromiseInit
<1>2. Inv /\ [Next]_vars => [Promise!Next]_<<Command, answers>>
  BY PromiseNext
<1>3. QED
  BY <1>1, <1>2, Invariance, PTL DEF Spec, KeepsPromise, Promise!Spec
=============================================================================
