--------------------------- MODULE CatalogServing ---------------------------
(***************************************************************************)
(* What a projection journal promises its readers: one serving projection, *)
(* that appears whole, that a plan replaces only when it is exactly the    *)
(* base the plan was computed from, and that a rollback gives back as it   *)
(* was.  ProjectionStore, with its files and its crashes, implements it.   *)
(***************************************************************************)
CONSTANTS
  Plan,        \* catalog.ProjectionPlan, by PlanID
  BaseOf,      \* the projection version a plan starts from
  TargetOf,    \* the projection version it produces
  Initial,     \* the version the journal is initialized with
  None         \* no projection, and the plan of the initial one

VARIABLES
  serving,     \* the projection readers get, or None
  replaced     \* per plan, the projection it replaced, or None

servingVars == <<serving, replaced>>

\* A published projection: its version and the plan that produced it.
Published(version, plan) == [version |-> version, plan |-> plan]

ServingInit ==
  /\ serving = None
  /\ replaced = [p \in Plan |-> None]

Initialize ==
  /\ serving = None
  /\ serving' = Published(Initial, None)
  /\ UNCHANGED replaced

Advance(p) ==
  /\ serving # None
  /\ serving.version = BaseOf[p]
  /\ serving' = Published(TargetOf[p], p)
  /\ replaced' = [replaced EXCEPT ![p] = serving]

Restore(p) ==
  /\ serving = Published(TargetOf[p], p)
  /\ serving' = replaced[p]
  /\ UNCHANGED replaced

ServingNext ==
  \/ Initialize
  \/ \E p \in Plan : Advance(p) \/ Restore(p)

ServingSpec == ServingInit /\ [][ServingNext]_servingVars

=============================================================================
