---------------------------- MODULE ReleasePromise ----------------------------
(***************************************************************************)
(* What the release service promises about the versions of a package.      *)
(* Every key of the publisher's repository holds at most one record, which *)
(* is never replaced.  An intent is open until it has an outcome, which is *)
(* final and agrees with the repository: published with its own record     *)
(* there, in conflict with a record that is not its own, or refused, and   *)
(* then it is not released later either.                                   *)
(***************************************************************************)
CONSTANTS Intents, Versions, None, Foreign

VARIABLES
  version,   \* the version that each intent releases
  outcome,   \* what became of each intent
  record     \* the record at each version's key

vars == <<version, outcome, record>>

Init ==
  /\ version \in [Intents -> Versions]
  /\ outcome = [i \in Intents |-> "open"]
  /\ record = [v \in Versions |-> None]

Write(v, owner) ==
  /\ record[v] = None
  /\ record' = [record EXCEPT ![v] = owner]
  /\ UNCHANGED <<version, outcome>>

\* Only an open intent is released.
Release(i) == outcome[i] = "open" /\ Write(version[i], i)

Decide(i, end) ==
  /\ outcome[i] = "open"
  /\ outcome' = [outcome EXCEPT ![i] = end]
  /\ UNCHANGED <<version, record>>

Publish(i) == record[version[i]] = i /\ Decide(i, "published")
Conflict(i) == record[version[i]] \notin {None, i} /\ Decide(i, "conflict")
Refuse(i) == record[version[i]] # i /\ Decide(i, "refused")

Next ==
  \/ \E i \in Intents : Release(i) \/ Publish(i) \/ Conflict(i) \/ Refuse(i)
  \/ \E v \in Versions : Write(v, Foreign)

Spec == Init /\ [][Next]_vars
==============================================================================
