--------------------------- MODULE PluginLifecycle ---------------------------
(***************************************************************************)
(* The lifecycle rows of an instance's plugin components, and what the     *)
(* control plane's batches and triggers do to them.  A row stands for      *)
(* superboard_plugin_lifecycle joined with superboard_plugin_runtime_      *)
(* health, superboard_active_plugin_manifests and                          *)
(* superboard_plugin_staged_artifacts:                                     *)
(*   state     lifecycle state                                             *)
(*   health    "ready" while the evidence is ready and has not expired     *)
(*   manifest  the component has a row among the active manifests          *)
(*   staged    status of the staged artifact, "none" without one           *)
(*   release   activated_release_id                                        *)
(* Checksums, versions, plans and evidence are left out: each is the one   *)
(* the target artifact carries.                                            *)
(***************************************************************************)
EXTENDS Naturals

CONSTANTS
  Plugins,      \* components of the instance, the core excepted
  Packages,     \* plugin packages, each a set of components
  Components,   \* Components[k]: the components of package k
  Ops,          \* managed operations; an operation also names its release
  Base,         \* the release that was active before any of them
  None          \* no release

ASSUME ConstantsAssumption ==
  /\ Components \in [Packages -> SUBSET Plugins]
  /\ Base \notin Ops
  /\ None \notin Ops \cup {Base}

Releases == Ops \cup {Base}

States == {"available", "staged", "installed", "active", "draining",
           "disabled", "quarantined", "purged"}
Health == {"ready", "unavailable"}

PluginRow == [state: States, health: Health, manifest: BOOLEAN,
              staged: Health \cup {"none"}, release: Releases \cup {None}]

Transitions ==
  [available   |-> {"staged"},
   staged      |-> {"installed", "quarantined"},
   installed   |-> {"quarantined"},
   active      |-> {"draining", "quarantined"},
   draining    |-> {"active", "quarantined"},
   disabled    |-> {"staged", "quarantined"},
   quarantined |-> {"staged", "purged"},
   purged      |-> {"available"}]

InState(rows, S) == {p \in Plugins : rows[p].state \in S}

\* The evidence a release is judged by: the staged artifact's when there is one.
ReleasableHealth(row) == IF row.staged = "none" THEN row.health ELSE row.staged

Ready(rows, S) == \A p \in S : ReleasableHealth(rows[p]) = "ready"

StaleActive(rows) ==
  {p \in InState(rows, {"active"}) : rows[p].health # "ready"}

\* The rows a lock is drawn from, and whether it can be drawn at all.
LockRows(rows, selected) ==
  InState(rows, {"active"}) \cup (InState(rows, {"installed"}) \cap selected)

SelectedLockLoads(rows, selected) ==
  /\ selected \subseteq LockRows(rows, selected)
  /\ Ready(rows, LockRows(rows, selected))

ExcludingLockLoads(rows, excluded) ==
  /\ excluded \subseteq InState(rows, {"active"})
  /\ Ready(rows, InState(rows, {"active"}) \ excluded)

\* Mutant of TransitionBatch: the state that was read is not compared.
TransitionBlind(rows, p, from, to) ==
  LET row == rows[p] IN
  [rows EXCEPT ![p] =
     [row EXCEPT !.state = to,
                 !.manifest = to = "active" /\ row.manifest,
                 !.health = IF to = "active" THEN row.health ELSE "unavailable"]]

\* The batch of a transition.  The first statement compares the state that was
\* read; the others (manifest, health) take effect whether or not it matched.
TransitionBatch(rows, p, from, to) ==
  LET row == rows[p] IN
  [rows EXCEPT ![p] =
     [row EXCEPT !.state = IF row.state = from THEN to ELSE row.state,
                 !.manifest = to = "active" /\ row.manifest,
                 !.health = IF to = "active" THEN row.health ELSE "unavailable"]]

\* The batch of an installation plan for the components `targets`, of which
\* `wasActive` were read active and the Workers of `down` were not ready.
InstallBatch(rows, targets, wasActive, down) ==
  LET status(p) == IF p \in down THEN "unavailable" ELSE "ready"
      upserts(p) == rows[p].state \in
                      {"available", "staged", "installed", "disabled", "purged"}
      next == IF down = {} THEN "installed" ELSE "staged"
  IN  [p \in Plugins |->
         IF p \notin targets THEN rows[p]
         ELSE [rows[p] EXCEPT
                 !.state  = IF upserts(p) THEN next ELSE @,
                 !.staged = IF p \in wasActive THEN status(p) ELSE @,
                 !.health = IF p \in wasActive THEN @ ELSE status(p)]]

\* Freshness of a prepared release at the instant the pointer moves.
Fresh(rows, lock) ==
  /\ lock \subseteq InState(rows, {"installed", "active"})
  /\ Ready(rows, lock)
  /\ InState(rows, {"active"}) \subseteq lock

\* Mutants of ApplyRelease: one leaves the components the release drops
\* draining, the other does not register what it activates.
ApplyLeavesDraining(rows, r, lock) ==
  LET taken(p) == p \in lock /\ rows[p].state \in {"installed", "active"}
  IN  [p \in Plugins |->
        [state    |-> IF taken(p) THEN "active" ELSE rows[p].state,
         health   |-> IF p \in lock /\ rows[p].staged # "none"
                      THEN rows[p].staged ELSE rows[p].health,
         manifest |-> taken(p) \/ rows[p].manifest,
         staged   |-> IF taken(p) THEN "none" ELSE rows[p].staged,
         release  |-> IF taken(p) THEN r ELSE rows[p].release]]

ApplyWithoutManifest(rows, r, lock) ==
  LET taken(p)   == p \in lock /\ rows[p].state \in {"installed", "active"}
      dropped(p) == p \notin lock /\ rows[p].state = "draining"
  IN  [p \in Plugins |->
        [state    |-> IF taken(p) THEN "active"
                      ELSE IF dropped(p) THEN "disabled" ELSE rows[p].state,
         health   |-> IF p \in lock /\ rows[p].staged # "none"
                      THEN rows[p].staged ELSE rows[p].health,
         manifest |-> rows[p].manifest /\ ~dropped(p),
         staged   |-> IF taken(p) THEN "none" ELSE rows[p].staged,
         release  |-> IF taken(p) \/ dropped(p) THEN r ELSE rows[p].release]]

\* What the activation of release r with the prepared `lock` does to the rows.
ApplyRelease(rows, r, lock) ==
  LET taken(p)   == p \in lock /\ rows[p].state \in {"installed", "active"}
      dropped(p) == p \notin lock /\ rows[p].state = "draining"
      upgraded(p) == p \in lock /\ rows[p].staged # "none"
  IN  [p \in Plugins |->
        [state    |-> IF taken(p) THEN "active"
                      ELSE IF dropped(p) THEN "disabled" ELSE rows[p].state,
         health   |-> IF upgraded(p) THEN rows[p].staged ELSE rows[p].health,
         manifest |-> \/ taken(p)
                      \/ /\ rows[p].manifest
                         /\ ~dropped(p)
                         /\ rows[p].state \notin {"disabled", "quarantined", "purged"},
         staged   |-> IF taken(p) THEN "none" ELSE rows[p].staged,
         release  |-> IF taken(p) \/ dropped(p) THEN r ELSE rows[p].release]]

\* The flag of every package as the synchronisation writes it: a package is
\* enabled while one of its components is active.
EnabledBy(active) == [k \in Packages |-> Components[k] \cap active # {}]
=============================================================================
