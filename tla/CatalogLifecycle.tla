--------------------------- MODULE CatalogLifecycle ---------------------------
(***************************************************************************)
(* The catalog over several runs: each run plans from the projection that  *)
(* serves, a full reconciliation with a new source snapshot, a build of    *)
(* the knowledge service or a revocation, and is replayed with all its     *)
(* operations or with one that failed.  Only a projection that serves      *)
(* becomes the next base; its durable side is module ProjectionStore.      *)
(***************************************************************************)
EXTENDS CatalogReplay, Materialization

CONSTANTS
  Workspace,       \* states of the knowledge base
  Founding,        \* the workspace of the first projection, with the
                   \* artifacts in it that have no security record yet
  CatalogOf(_, _), \* the catalog built from a workspace for a run
  SourceSet,       \* sources that a build of the service finds
  MaxVersion,      \* projection versions
  MaxFailing,      \* the last version whose run may fail
  MaxSelection     \* resources revoked by one call

\* The run before any, which the first base is from.
InitialRun == [base |-> 0, target |-> 0, snapshot |-> SourceSnapshot(0, {})]

\* The run that scans a workspace into the version after another.
ScanRun(version, workspace) ==
  LET run == [base |-> version, target |-> version + 1,
              snapshot |-> SourceSnapshot(version + 1, {})]
  IN [run EXCEPT !.snapshot = CatalogSnapshot(version + 1, CatalogOf(workspace, run))]

\* A catalog is of known ids, its records have the fields they have.
Catalogued(catalog) ==
  /\ DOMAIN catalog \subseteq Id
  /\ \A id \in DOMAIN catalog :
       /\ \A g \in catalog[id].groups : g = [complete |-> g.complete, evidence |-> g.evidence]
       /\ LET s == catalog[id].record
          IN (TypeOf[id] = "artifact" /\ s # None) =>
               s = [artifact |-> s.artifact, mode |-> s.mode, groups |-> s.groups]

ASSUME CatalogLifecycleAssumption ==
  /\ MaxVersion \in Nat /\ MaxFailing \in 0 .. MaxVersion /\ MaxSelection \in Nat
  /\ \A f \in Founding : /\ Catalogued(CatalogOf(f.workspace, InitialRun))
                         /\ \A id \in f.legacy : TypeOf[id] = "artifact"
  /\ \A w \in Workspace, v \in 0 .. MaxVersion : Catalogued(CatalogOf(w, ScanRun(v, w)))
  /\ \A s \in SourceSet : /\ DOMAIN s \subseteq DOMAIN EntityOf
                         /\ \A d \in DOMAIN s : \A c \in DOMAIN s[d].chunks :
                              c \in DOMAIN ClaimOf /\ ParentOf[c] = d

VARIABLES
  current,  \* the projection that serves
  last      \* the last run: its kind, input, base, plan, failures and result

lifecycleVars == <<current, last>>

LifecycleTypeOK ==
  /\ current.version \in 0 .. MaxVersion
  /\ current.state = "serving"
  /\ DOMAIN current.resources \subseteq Id
  /\ last.kind \in {"none", "reconcile", "build", "revoke"}
  /\ last.outcome \in {"none", "succeeded", "failed", "refused"}

\* The base of the first run: a published catalog, some of whose artifacts
\* may be left from before there were security records.
InitialProjection(workspace, legacy) ==
  LET catalog == CatalogOf(workspace, InitialRun)
      metadata == ResourceMetadata(catalog)
  IN [version |-> 0, snapshot |-> CatalogSnapshot(0, catalog), state |-> "serving",
      resources |->
        [id \in DOMAIN metadata |->
           [metadata[id] EXCEPT !.state = "serving", !.status = Succeeded,
                                !.record = IF id \in legacy THEN None ELSE @]],
      applied |-> {}]

NoRun == [kind |-> "none", input |-> None, base |-> None, plan |-> None,
          failed |-> {}, result |-> None, outcome |-> "none"]

LifecycleInit ==
  /\ \E f \in Founding :
       /\ CatalogValid(CatalogOf(f.workspace, InitialRun))
       /\ current = InitialProjection(f.workspace, f.legacy)
       /\ ProjectionValid(current)
  /\ last = NoRun

\* Faulty variant: a projection becomes the base also when the run failed.
FinishAnyway(kind, input, plan, failed) ==
  LET replayed == Replay(plan, current, failed)
      result == CHOOSE r \in replayed : TRUE
  IN /\ last' = [kind |-> kind, input |-> input, base |-> current, plan |-> plan,
                 failed |-> failed, outcome |-> result.state,
                 result |-> result.projection]
     /\ current' = result.projection

\* The run of a plan: every operation has a result and the plan is replayed.
\* After a build the projection of its bundle is selected.
Finish(kind, input, plan, failed) ==
  LET replayed == Replay(plan, current, failed)
      result == CHOOSE r \in replayed : TRUE
      outcome == IF replayed = {} THEN "refused" ELSE result.state
  IN /\ last' = [kind |-> kind, input |-> input, base |-> current, plan |-> plan,
                 failed |-> failed, outcome |-> outcome,
                 result |-> IF replayed = {} THEN None ELSE result.projection]
     /\ current' = IF outcome # "succeeded" THEN current
                   ELSE IF kind = "build" THEN PublicProjection(plan.run, input)
                   ELSE result.projection

\* A full reconciliation scans the workspace into a new source snapshot.
ReconciliationRun(projection, workspace) == ScanRun(projection.version, workspace)

\* All operations succeed, or one of them fails.
Failures(plan, failing) == IF failing THEN {{o} : o \in plan.operations} ELSE {{}}

Reconcile(workspace, failing) ==
  LET run == ReconciliationRun(current, workspace)
      catalog == CatalogOf(workspace, run)
  IN \E plan \in PlanFullReconciliation(run, current, catalog) :
       \E failed \in Failures(plan, failing) :
         Finish("reconcile", ResourceMetadata(catalog), plan, failed)

\* A build starts from the projection in the selected bundle, or from the
\* empty one, and has nothing to do when the sources did not change.
IsSelected(projection) ==
  projection.applied = {} /\ Serving(projection.resources) = DOMAIN projection.resources

Build(sources, failing) ==
  /\ IsSelected(current) /\ ~Unchanged(current, sources)
  /\ \E plan \in PlanBuild(current, sources) :
       \E failed \in Failures(plan, failing) :
         Finish("build", Materialized(plan.run, sources), plan, failed)

\* A revocation keeps the source version; its snapshot stands for the
\* documents that have not been revoked before.
LiveSnapshot(projection) ==
  SourceSnapshot(projection.snapshot.version,
    {d \in projection.snapshot.documents : d.id \in Serving(projection.resources)})

RevocationRun(projection) ==
  [base |-> projection.version, target |-> projection.version + 1,
   snapshot |-> LiveSnapshot(projection)]

Revoke(selection, failing) ==
  \E plan \in PlanRevocations(RevocationRun(current), current, selection) :
    \E failed \in Failures(plan, failing) : Finish("revoke", selection, plan, failed)

Selections(projection) ==
  {s \in SUBSET DOMAIN projection.resources : Cardinality(s) \in 1 .. MaxSelection}

RunWith(failing) ==
  /\ last = NoRun
  /\ \/ \E workspace \in Workspace : Reconcile(workspace, failing)
     \/ \E sources \in SourceSet : Build(sources, failing)
     \/ \E selection \in Selections(current) : Revoke(selection, failing)

RunSucceeds == current.version < MaxVersion /\ RunWith(FALSE)
RunFails == current.version < MaxFailing /\ RunWith(TRUE)

\* The run is over and its outcome is known.
Report == last # NoRun /\ last' = NoRun /\ UNCHANGED current

\* Nothing is due.
AtRest == UNCHANGED lifecycleVars

LifecycleNext == RunSucceeds \/ RunFails \/ Report \/ AtRest

LifecycleSpec == LifecycleInit /\ [][LifecycleNext]_lifecycleVars

-----------------------------------------------------------------------------
\* Properties

\* A run with a failed operation serves nothing of the new version, the base
\* goes on serving, and the resource that failed is marked.
FailureWithheld ==
  last.outcome = "failed" =>
    /\ Serving(last.result.resources) = {}
    /\ current = last.base
    /\ \A o \in last.failed : last.result.resources[o.id].state = "failed"

\* A resource can be served on the strength of a set of others.
Stands(id, support, resources) ==
  LET r == resources[id]
      inside(g) == {p.id : p \in g.pins} \subseteq support
  IN IF TypeOf[id] = "artifact"
     THEN IF r.record.mode = "any_support"
          THEN \E g \in r.record.groups : g.complete /\ inside(g)
          ELSE \A g \in r.record.groups : inside(g)
     ELSE r.deps \subseteq support

\* The largest set that stands without the selection: the reference of what a
\* revocation may keep.
Survivors(projection, selection) ==
  UNION {S \in SUBSET (Serving(projection.resources) \ selection) :
           \A id \in S : Stands(id, S, projection.resources)}

\* A revocation takes the selected resources and exactly those that cannot
\* stand without them: an artifact stays while one of its alternative support
\* groups does, and its record names only what is left.
RevocationExact ==
  (last.kind = "revoke" /\ last.outcome = "succeeded") =>
    LET kept == Survivors(last.base, last.input)
        resources == last.result.resources
    IN /\ Serving(resources) = kept
       /\ \A id \in kept :
            /\ resources[id].content = last.base.resources[id].content
            /\ resources[id].deps \subseteq kept
       /\ \A id \in Live(last.base.resources) \ kept :
            resources[id].state = "revoked" /\ resources[id].record = None

\* A reconciliation serves exactly the catalog that was built, each resource
\* as it was built; what it no longer has ends as a tombstone.  The bundle of
\* a build was written before the plan and has exactly what the replay serves.
ReconciliationExact ==
  (last.kind \in {"reconcile", "build"} /\ last.outcome = "succeeded") =>
    LET resources == last.result.resources
    IN /\ Serving(resources) = DOMAIN last.input
       /\ \A id \in DOMAIN last.input :
            /\ Definition(id, resources[id]) = Definition(id, last.input[id])
            /\ resources[id].record = last.input[id].record
            /\ current.resources[id] = resources[id]
       /\ \A id \in Live(last.base.resources) \ DOMAIN last.input :
            resources[id].state = "tombstoned" /\ resources[id].record = None

\* A plan with an operation missing is never replayed, whichever it is.
ReplayStrict ==
  last.plan # None =>
    \A o \in last.plan.operations :
      Replay([last.plan EXCEPT !.operations = @ \ {o}], last.base, {}) = {}

\* A plan replayed again, on its own result, changes nothing and reports how
\* the run ended the first time, whatever results come with the retry.
RetryIsNoop ==
  last.result # None =>
    \A failed \in {{}, last.failed} :
      Replay(last.plan, last.result, failed) =
        {[projection |-> last.result, state |-> last.outcome, noop |-> TRUE]}

\* The planner and Replay decide separately what a complete plan is; whatever
\* the planner accepts, Replay carries out, also when an operation failed;
\* it carries out nothing less, and nothing twice.
PlansReplay == last.outcome # "refused" /\ ReplayStrict /\ RetryIsNoop

\* "PlanRevocations creates a complete replacement projection": there is a
\* plan for any resources of any projection, however it came about; and there
\* is one for a build of any sources with text from any selected projection.
AlwaysPlannable ==
  /\ \A selection \in Selections(current) :
       PlanRevocations(RevocationRun(current), current, selection) # {}
  /\ IsSelected(current) =>
       \A sources \in SourceSet : ChunksOf(sources) # {} => PlanBuild(current, sources) # {}

\* The evidence of a claim is served; its endpoints are what it is about.
Supported(id, support, resources) ==
  IF TypeOf[id] = "claim"
  THEN LET c == resources[id].record
       IN /\ c.document.id \in support
          /\ \A g \in c.groups : \A e \in g.evidence : e.pin.id \in support
  ELSE Stands(id, support, resources)

\* Whatever is served rests on documents that are served, never on itself:
\* of any set of served resources one is supported from without. An entity may
\* rest on a claim about itself, as long as the claim does not rest on it.
SourceGrounded ==
  LET serving == Serving(current.resources)
  IN \A S \in (SUBSET serving) \ {{}} :
       \E id \in S : Supported(id, serving \ S, current.resources)

\* The graph can be derived from every projection that serves something: each
\* claim triple is bound to resources that serve in the same projection.
GraphDerivable ==
  Serving(current.resources) # {} =>
    GraphResourcesValid(current) /\ GraphClaimsValid(current)

=============================================================================
