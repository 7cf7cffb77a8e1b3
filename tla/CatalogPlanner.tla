----------------------------- MODULE CatalogPlanner -----------------------------
(***************************************************************************)
(* The planner of the catalog: which desired catalogs and revocations it   *)
(* accepts for a run, and the operations it plans.  A planning function    *)
(* returns the set of its plans: one, or none when it refuses.             *)
(*                                                                         *)
(* A run is [base, target, snapshot]; its id, the ids of operations and    *)
(* plans and the idempotency keys are digests of what they stand for, so   *)
(* an operation and a plan are their own ids.  The canonical order of      *)
(* operations only serves the digests and is left out.                     *)
(***************************************************************************)
EXTENDS CatalogProjection, Naturals

\* NewSourceSnapshot: the digest is the documents.
SourceSnapshot(version, documents) ==
  [version |-> version, documents |-> documents,
   count |-> Cardinality(documents)]

-----------------------------------------------------------------------------
\* catalog.Catalog: desired items by id.  Every item is
\* [content, acl, source, projection, document, bound, endpoints, mode,
\*  groups, record]; document is the one a chunk or a claim belongs to.

EvidenceOf(item) == UNION {g.evidence : g \in item.groups}
Derived(catalog) == {id \in DOMAIN catalog : TypeOf[id] \in {"entity", "claim", "artifact"}}

\* Claim.projectionRecord
ClaimRecord(item) ==
  [bound |-> item.bound, endpoints |-> item.endpoints,
   document |-> item.document, mode |-> item.mode, groups |-> item.groups]

\* The Validate methods of Document, Chunk, Entity, Claim and DerivedArtifact
\* (validateDerivedArtifactRecordProvenance)
ItemValid(id, item) ==
  /\ TypeOf[id] \in {"document", "chunk"} => item.groups = {}
  /\ TypeOf[id] \in {"chunk", "claim"} =>
       /\ item.document.source = item.source
       /\ item.document.acl = item.acl
       /\ item.document.projection = item.projection
  /\ TypeOf[id] = "chunk" => item.document.id = ParentOf[id]
  /\ TypeOf[id] \in {"entity", "claim", "artifact"} =>
       ProvenanceValid(item.mode, item.groups) /\ EvidenceCurrent(item, item.groups)
  /\ TypeOf[id] = "claim" => ClaimRecordValid(ClaimRecord(item))
  /\ (TypeOf[id] = "artifact" /\ item.record # None) =>
       /\ SecurityRecordValid(item.record)
       /\ item.record.artifact = Pin(id, item)
       /\ item.record.mode = item.mode
       /\ item.record.groups = {[complete |-> g.complete,
                                 pins |-> {e.pin : e \in g.evidence}] : g \in item.groups}

DocumentResolves(pin, catalog) ==
  TypeOf[pin.id] = "document" /\ Resolves(pin, catalog)

\* resolveProvenanceReferences
ProvenanceResolves(id, catalog) ==
  \A g \in catalog[id].groups :
    /\ \A e \in g.evidence :
         /\ e.pin.id # id
         /\ Resolves(e.pin, catalog)
         /\ TypeOf[e.pin.id] = "chunk" => ParentOf[e.pin.id] = e.document.id
         /\ TypeOf[e.pin.id] = "claim" => catalog[e.pin.id].document = e.document
         /\ DocumentResolves(e.document, catalog)
    /\ (TypeOf[id] = "entity" \/ \E e \in g.evidence : TypeOf[e.pin.id] = "entity") =>
         \E e \in g.evidence : TypeOf[e.pin.id] \in {"document", "chunk"}

\* Faulty variant: only direct self-reference is a cycle.
NoSelfReference(catalog) ==
  \A id \in DOMAIN catalog : \A e \in EvidenceOf(catalog[id]) : e.pin.id # id

\* validateProvenanceAcyclic: no set of derived resources rests on itself.
ProvenanceAcyclic(catalog) ==
  \A S \in (SUBSET Derived(catalog)) \ {{}} :
    \E id \in S : \A e \in EvidenceOf(catalog[id]) : e.pin.id \notin S

\* Catalog.Canonical and validateReferences
CatalogValid(catalog) ==
  /\ \A id \in DOMAIN catalog :
       LET item == catalog[id]
       IN /\ ItemValid(id, item)
          /\ TypeOf[id] \in {"chunk", "claim"} => DocumentResolves(item.document, catalog)
          /\ (TypeOf[id] = "claim" /\ item.bound) =>
               \A x \in item.endpoints : x \in DOMAIN catalog /\ TypeOf[x] = "entity"
          /\ id \in Derived(catalog) => ProvenanceResolves(id, catalog)
  /\ ProvenanceAcyclic(catalog)

\* Catalog.ResourceMetadata
CatalogDependencies(id, item) ==
  {e.pin.id : e \in EvidenceOf(item)}
    \cup (IF TypeOf[id] \in {"chunk", "claim"} THEN {item.document.id} ELSE {})
    \cup (IF TypeOf[id] = "claim" /\ item.bound THEN item.endpoints ELSE {})

ResourceMetadata(catalog) ==
  [id \in DOMAIN catalog |->
    LET item == catalog[id]
    IN [content |-> item.content, acl |-> item.acl, source |-> item.source,
        projection |-> item.projection, state |-> "staged", status |-> Pending,
        deps |-> CatalogDependencies(id, item),
        record |-> CASE TypeOf[id] = "claim" -> ClaimRecord(item)
                     [] TypeOf[id] = "artifact" -> item.record
                     [] OTHER -> None]]

\* The snapshot a catalog's documents reconstruct.
CatalogSnapshot(version, catalog) ==
  SourceSnapshot(version,
    {[id |-> id, content |-> catalog[id].content, acl |-> catalog[id].acl] :
       id \in {x \in DOMAIN catalog : TypeOf[x] = "document"}})

-----------------------------------------------------------------------------
\* planResources

TargetKinds == {"stage", "project_content", "project_acl", "project_index",
                "project_graph", "project_artifact", "publish"}

\* A resource of the base as it ends in the run: its records are dropped.
Ended(run, r, state) ==
  [r EXCEPT !.source = run.snapshot.version, !.projection = run.target,
            !.state = state, !.record = None]

\* sameResourceDefinition: versions of the projection and states do not count
\* and security records, being materializations, do not either.
Definition(id, r) ==
  [content |-> r.content, acl |-> r.acl, source |-> r.source, deps |-> r.deps,
   record |-> IF TypeOf[id] = "artifact" THEN None ELSE r.record]

Terminus(stale) == IF stale = "revoke" THEN "revoked" ELSE "tombstoned"

Stale(current, targets) == Live(current.resources) \ DOMAIN targets

\* validateDesiredReplacement: the projection the plan is to end in.
Replacement(run, current, targets, stale) ==
  [version |-> run.target, snapshot |-> run.snapshot, state |-> "serving",
   resources |->
     [id \in DOMAIN targets \cup Stale(current, targets) |->
        IF id \in DOMAIN targets
        THEN [targets[id] EXCEPT !.state = "serving", !.status = Succeeded]
        ELSE Ended(run, current.resources[id], Terminus(stale))],
   applied |-> {}]

\* validateChunkBoundaries
ChunksBounded(targets) ==
  \A id \in DOMAIN targets : TypeOf[id] = "chunk" => InheritsDocument(id, targets)

Acceptable(run, id, r) ==
  /\ r.source = run.snapshot.version
  /\ r.projection = run.target
  /\ TypeOf[id] = "artifact" => r.deps # {} /\ r.record # None
  /\ ResourceValid(id, r)

PlannableRun(run, current) ==
  /\ ProjectionValid(current) /\ current.state = "serving"
  /\ current.version = run.base /\ run.base # run.target

Operation(kind, id, r) == [kind |-> kind, id |-> id, resource |-> r]

\* Faulty variant: a changed resource is staged without superseding the old.
OperationsWithoutSupersede(run, current, targets, stale) ==
  (UNION {{Operation(k, id, targets[id]) : k \in TargetKinds} : id \in DOMAIN targets})
  \cup {Operation(stale, id, Ended(run, current.resources[id], Terminus(stale))) :
          id \in Stale(current, targets)}

Operations(run, current, targets, stale) ==
  {Operation("supersede", id, Ended(run, current.resources[id], "superseded")) :
     id \in {x \in DOMAIN targets \cap DOMAIN current.resources :
               Definition(x, current.resources[x]) # Definition(x, targets[x])}}
  \cup (UNION {{Operation(k, id, targets[id]) : k \in TargetKinds} : id \in DOMAIN targets})
  \cup {Operation(stale, id, Ended(run, current.resources[id], Terminus(stale))) :
          id \in Stale(current, targets)}

PlanResources(run, current, desired, stale) ==
  LET targets == [id \in DOMAIN desired |->
                    [desired[id] EXCEPT !.state = "staged", !.status = Pending]]
  IN IF /\ PlannableRun(run, current)
        /\ \A id \in DOMAIN targets : Acceptable(run, id, targets[id])
        /\ ChunksBounded(targets)
        /\ ProjectionValid(Replacement(run, current, targets, stale))
     THEN {[run |-> run, operations |-> Operations(run, current, targets, stale)]}
     ELSE {}

\* Faulty variant: what is no longer desired is marked revoked.
PlanReconciliationAsRevocation(run, current, catalog) ==
  IF CatalogValid(catalog) /\ CatalogSnapshot(run.snapshot.version, catalog) = run.snapshot
  THEN PlanResources(run, current, ResourceMetadata(catalog), "revoke")
  ELSE {}

PlanFullReconciliation(run, current, catalog) ==
  IF /\ CatalogValid(catalog)
     /\ CatalogSnapshot(run.snapshot.version, catalog) = run.snapshot
     /\ \A id \in DOMAIN catalog : TypeOf[id] = "document" =>
          catalog[id].source = run.snapshot.version
  THEN PlanResources(run, current, ResourceMetadata(catalog), "tombstone")
  ELSE {}

-----------------------------------------------------------------------------
\* PlanRevocations

GroupAvailable(g, selected, resources) ==
  /\ g.complete
  /\ \A p \in g.pins : /\ p.id \in DOMAIN resources
                       /\ IsServing(p.id, resources[p.id])
                       /\ p.id \notin selected

\* Faulty variant: one support group lost is the artifact lost.
InvalidatedByAny(id, selected, resources) == resources[id].deps \cap selected # {}

\* resourceInvalidatedBySelection
Invalidated(id, selected, resources) ==
  LET r == resources[id]
  IN IF TypeOf[id] = "artifact" /\ r.record # None
     THEN IF r.record.mode = "any_support"
          THEN \A g \in r.record.groups : ~GroupAvailable(g, selected, resources)
          ELSE \E g \in r.record.groups : \E p \in g.pins :
                 \/ p.id \notin DOMAIN resources
                 \/ ~IsServing(p.id, resources[p.id])
                 \/ p.id \in selected
     ELSE r.deps \cap selected # {}

\* What the queue finds next: dependents of what was selected.
Dependents(resources, selected) ==
  {id \in DOMAIN resources : /\ resources[id].deps \cap selected # {}
                             /\ Invalidated(id, selected, resources)}

\* The queue, as long as there are new ones.
RevocationClosure(current, selection) ==
  LET resources == current.resources
      most == Cardinality(DOMAIN resources)
      selected[n \in 0 .. most] ==
        IF n = 0 THEN selection
        ELSE LET found == selected[n-1] IN found \cup Dependents(resources, found)
  IN selected[most]

\* rebindClaimRecordProjection
ReboundPin(run, p) ==
  [p EXCEPT !.source = run.snapshot.version, !.projection = run.target]

ReboundClaim(run, c) ==
  [c EXCEPT !.document = ReboundPin(run, c.document),
            !.groups = {[g EXCEPT !.evidence =
                           {[pin |-> ReboundPin(run, e.pin),
                             document |-> ReboundPin(run, e.document)] :
                              e \in g.evidence}] : g \in c.groups}]

\* Faulty variant: support groups that are gone are kept in the record.
AllGroups(s, selected, resources) == s.groups

KeptGroups(s, selected, resources) ==
  {g \in s.groups : s.mode = "any_support" => GroupAvailable(g, selected, resources)}

\* rebindDerivedArtifactSecurityProjection and RebindProjection
ReboundGroups(run, s, selected, resources) ==
  {[g EXCEPT !.pins = {[p EXCEPT !.projection = run.target] : p \in g.pins}] :
     g \in KeptGroups(s, selected, resources)}

ReboundArtifact(run, r, selected, resources) ==
  LET groups == ReboundGroups(run, r.record, selected, resources)
  IN [r EXCEPT !.projection = run.target,
               !.deps = {p.id : p \in UNION {g.pins : g \in groups}},
               !.record = [@ EXCEPT !.groups = groups,
                                    !.artifact.projection = run.target]]

CarriedForward(run, id, current, selected) ==
  LET r == current.resources[id]
  IN CASE TypeOf[id] = "claim" /\ r.record # None ->
            [r EXCEPT !.projection = run.target, !.record = ReboundClaim(run, @)]
       [] TypeOf[id] = "artifact" /\ r.record # None ->
            ReboundArtifact(run, r, selected, current.resources)
       [] OTHER -> [r EXCEPT !.projection = run.target]

PlanRevocations(run, current, selection) ==
  IF selection \subseteq DOMAIN current.resources
  THEN LET selected == RevocationClosure(current, selection)
           kept == {id \in Live(current.resources) \ selected :
                      ~IsQuarantined(id, current.resources[id])}
       IN PlanResources(run, current,
            [id \in kept |-> CarriedForward(run, id, current, selected)], "revoke")
  ELSE {}

=============================================================================
