----------------------------- MODULE CatalogReplay -----------------------------
(***************************************************************************)
(* Replay: from a plan, its base and the outcome of every operation to the *)
(* next projection.  Like planning, replaying returns a set: the result,   *)
(* or nothing when the plan is refused.                                    *)
(***************************************************************************)
EXTENDS CatalogPlanner

\* Operations of one resource, and the kinds of them.
OfResource(plan, id) == {o \in plan.operations : o.id = id}
KindsOf(plan, id) == {o.kind : o \in OfResource(plan, id)}
Targeted(plan) == {id \in {o.id : o \in plan.operations} :
                     KindsOf(plan, id) \cap TargetKinds # {}}

\* sameTerminalDefinition
EndsAs(id, previous, r, state) ==
  /\ r.state = state
  /\ Definition(id, [previous EXCEPT !.source = r.source,
                                     !.record = IF TypeOf[id] = "claim" THEN None ELSE @])
       = Definition(id, r)

\* A resource of the plan that is to be served: each operation once, of one
\* definition, superseding the one of the base when it changed.
TargetComplete(plan, current, id) ==
  LET operations == OfResource(plan, id)
      existed == id \in DOMAIN current.resources
      staged == {o.resource : o \in {x \in operations : x.kind \in TargetKinds}}
      superseded == {o.resource : o \in {x \in operations : x.kind = "supersede"}}
  IN /\ \E target \in staged :
          /\ staged = {target}
          /\ (superseded # {}) <=>
               (existed /\ Definition(id, current.resources[id]) # Definition(id, target))
     /\ \A s \in superseded : s = Ended(plan.run, current.resources[id], "superseded")
     /\ KindsOf(plan, id) \ {"supersede"} = TargetKinds

\* A resource that is to end: one operation, and it was live.
TerminalMatches(plan, current, id) ==
  /\ id \in Live(current.resources)
  /\ \E kind \in {"revoke", "tombstone"} :
       /\ KindsOf(plan, id) = {kind}
       /\ \A o \in OfResource(plan, id) :
            EndsAs(id, current.resources[id], o.resource, Terminus(kind))

\* validateReplayPlan: nothing live is left unreconciled.
ReplayPlanValid(plan, current) ==
  LET targeted == Targeted(plan) IN
  /\ \A id \in {o.id : o \in plan.operations} :
       /\ Cardinality(OfResource(plan, id)) = Cardinality(KindsOf(plan, id))
       /\ IF id \in targeted THEN TargetComplete(plan, current, id)
          ELSE TerminalMatches(plan, current, id)
  /\ Live(current.resources) \subseteq {o.id : o \in plan.operations}

\* applyComponentResult
ComponentOf == [project_content |-> "content", project_acl |-> "acl",
                project_index |-> "index", project_graph |-> "graph",
                project_artifact |-> "artifacts"]

StatusAfter(plan, failed, id) ==
  [k \in Component |->
     IF \E o \in failed : o.id = id /\ o.kind \in DOMAIN ComponentOf /\ ComponentOf[o.kind] = k
     THEN "failed" ELSE "succeeded"]

TargetState(plan, failed, id) ==
  CASE failed = {} -> "serving"
    [] \E o \in failed : o.id = id -> "failed"
    [] OTHER -> "staged"

Replayed(plan, current, failed) ==
  LET target(id) == (CHOOSE o \in OfResource(plan, id) : o.kind = "stage").resource
      ended(id) == (CHOOSE o \in OfResource(plan, id) : TRUE)
      targeted == Targeted(plan)
  IN [version |-> plan.run.target,
      snapshot |-> plan.run.snapshot,
      state |-> IF failed = {} THEN "serving" ELSE "failed",
      resources |->
        [id \in {o.id : o \in plan.operations} |->
           IF id \in targeted
           THEN [target(id) EXCEPT !.state = TargetState(plan, failed, id),
                                   !.status = StatusAfter(plan, failed, id)]
           ELSE [ended(id).resource EXCEPT
                   !.state = IF ended(id) \in failed THEN "failed" ELSE @]],
      applied |-> current.applied \cup {[plan |-> plan, failed |-> failed]}]

\* runStateForAppliedPlan
AppliedState(plan, projection) ==
  IF \E a \in projection.applied : a.plan = plan /\ a.failed # {}
  THEN "failed" ELSE "succeeded"

Applicable(plan, current) ==
  /\ current.state = "serving"
  /\ current.version = plan.run.base
  /\ ReplayPlanValid(plan, current)

\* Replay with the operations that failed; the others succeeded.
Replay(plan, current, failed) ==
  IF ~ProjectionValid(current) THEN {}
  ELSE IF \E a \in current.applied : a.plan = plan
  THEN {[projection |-> current, state |-> AppliedState(plan, current), noop |-> TRUE]}
  ELSE IF Applicable(plan, current)
  THEN {r \in {[projection |-> Replayed(plan, current, failed), noop |-> FALSE,
                state |-> IF failed = {} THEN "succeeded" ELSE "failed"]} :
          ProjectionValid(r.projection)}
  ELSE {}

=============================================================================
