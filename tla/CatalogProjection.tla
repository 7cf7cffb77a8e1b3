--------------------------- MODULE CatalogProjection ---------------------------
(***************************************************************************)
(* catalog.Projection: the resources of one version of the knowledge base, *)
(* what makes a projection valid, and the graph bindings derived from it.  *)
(* Scope and security domain are one each; names, sensitivity and digests  *)
(* are members of Content and Acl, which are told apart and nothing more.  *)
(* A projection maps ids to resources, so duplicates and order are gone.   *)
(***************************************************************************)
EXTENDS FiniteSets

CONSTANTS
  Id,        \* resource ids
  TypeOf,    \* "document", "chunk", "entity", "claim" or "artifact"
  ParentOf   \* AuthorizationResourceID: the document of a chunk, else the id

ASSUME CatalogProjectionAssumption ==
  /\ IsFiniteSet(Id)
  /\ TypeOf \in [Id -> {"document", "chunk", "entity", "claim", "artifact"}]
  /\ ParentOf \in [Id -> Id]
  /\ \A id \in Id : (ParentOf[id] = id) <=> (TypeOf[id] # "chunk")

\* A nil pointer: unlike any record.
None == [none |-> TRUE]

Component == {"content", "acl", "index", "graph", "artifacts"}
Pending == [k \in Component |-> "pending"]
Succeeded == [k \in Component |-> "succeeded"]

\* DocumentVersionRef, EvidenceRef and DerivedArtifactResourceIdentity pin a
\* resource by its versions.
Pin(id, r) == [id |-> id, content |-> r.content, acl |-> r.acl,
               source |-> r.source, projection |-> r.projection]

IsTerminal(r) == r.state \in {"revoked", "tombstoned", "superseded"}
Ready(r) == \A k \in Component : r.status[k] = "succeeded"

\* A derived artifact without a security record is never served.
IsServing(id, r) ==
  /\ r.state = "serving" /\ Ready(r)
  /\ TypeOf[id] = "artifact" => r.record # None

\* isQuarantinedLegacyDerivedArtifact
IsQuarantined(id, r) ==
  TypeOf[id] = "artifact" /\ r.record = None /\ r.state = "serving" /\ Ready(r)

Serving(resources) == {id \in DOMAIN resources : IsServing(id, resources[id])}
Live(resources) == {id \in DOMAIN resources : ~IsTerminal(resources[id])}

-----------------------------------------------------------------------------
\* Records

\* EvidenceRef.Validate
EvidenceValid(e) ==
  /\ e.pin.source = e.document.source
  /\ e.pin.acl = e.document.acl
  /\ e.pin.projection = e.document.projection
  /\ TypeOf[e.pin.id] = "document" => e.pin = e.document

\* Provenance.Validate
ProvenanceValid(mode, groups) ==
  /\ mode \in {"any_support", "all_required"}
  /\ groups # {}
  /\ \A g \in groups :
       /\ g.evidence # {}
       /\ mode = "any_support" => g.complete
       /\ \A e \in g.evidence : EvidenceValid(e)

\* validateProvenanceVersions
EvidenceCurrent(r, groups) ==
  \A g \in groups : \A e \in g.evidence :
    e.pin.source = r.source /\ e.pin.projection = r.projection

\* ClaimProjectionRecord.validate; only source-backed claims become triples.
ClaimRecordValid(c) ==
  /\ ProvenanceValid(c.mode, c.groups)
  /\ \A g \in c.groups : \A e \in g.evidence : e.document = c.document
  /\ ~c.bound => c.endpoints = {}
  /\ c.bound =>
       /\ c.endpoints # {}
       /\ \A g \in c.groups : /\ g.complete
                              /\ \A e \in g.evidence :
                                   TypeOf[e.pin.id] \in {"document", "chunk"}

\* DerivedArtifactSecurityRecord.Validate
SecurityRecordValid(s) ==
  /\ TypeOf[s.artifact.id] = "artifact"
  /\ s.mode \in {"any_support", "all_required"}
  /\ s.groups # {}
  /\ \A g \in s.groups :
       /\ g.pins # {}
       /\ s.mode = "any_support" => g.complete
       /\ \A p \in g.pins : /\ p.id # s.artifact.id
                            /\ p.projection = s.artifact.projection

\* ResourceMetadata.Validate
ResourceValid(id, r) ==
  /\ r.state = "serving" => Ready(r)
  /\ id \notin r.deps
  /\ TypeOf[id] \notin {"claim", "artifact"} => r.record = None
  /\ (TypeOf[id] = "claim" /\ r.record # None) =>
       /\ ClaimRecordValid(r.record)
       /\ r.record.document.source = r.source
       /\ r.record.document.acl = r.acl
       /\ r.record.document.projection = r.projection
       /\ EvidenceCurrent(r, r.record.groups)
  /\ (TypeOf[id] = "artifact" /\ r.record # None) =>
       /\ SecurityRecordValid(r.record)
       /\ r.record.artifact = Pin(id, r)

-----------------------------------------------------------------------------
\* Projection.Validate

Resolves(pin, resources) ==
  pin.id \in DOMAIN resources /\ Pin(pin.id, resources[pin.id]) = pin

\* validateProjectionClaimRecord
ClaimRecordResolves(id, resources) ==
  LET c == resources[id].record
      evidence == UNION {g.evidence : g \in c.groups}
  IN /\ TypeOf[c.document.id] = "document" /\ Resolves(c.document, resources)
     /\ \A e \in evidence : /\ Resolves(e.pin, resources)
                            /\ e.document = c.document
                            /\ TypeOf[e.pin.id] \in {"document", "chunk"} =>
                                 ParentOf[e.pin.id] = c.document.id
     /\ \A x \in c.endpoints : x \in DOMAIN resources /\ TypeOf[x] = "entity"
     /\ resources[id].deps =
          {c.document.id} \cup {e.pin.id : e \in evidence} \cup c.endpoints

GroupServing(g, resources) ==
  \A p \in g.pins : IsServing(p.id, resources[p.id])

\* validateProjectionDerivedArtifactSecurity
SecurityRecordResolves(id, resources) ==
  LET s == resources[id].record
      pins == UNION {g.pins : g \in s.groups}
  IN /\ \A p \in pins : Resolves(p, resources)
     /\ resources[id].deps = {p.id : p \in pins}
     /\ IsServing(id, resources[id]) =>
          CASE s.mode = "all_required" ->
                 \A g \in s.groups : GroupServing(g, resources)
            [] s.mode = "any_support" ->
                 \E g \in s.groups : g.complete /\ GroupServing(g, resources)

DependenciesValid(id, resources) ==
  LET r == resources[id]
  IN /\ r.deps \subseteq DOMAIN resources
     /\ IsServing(id, r) =>
          /\ TypeOf[id] \notin {"document", "chunk"} => r.deps # {}
          /\ TypeOf[id] # "artifact" => r.deps \subseteq Serving(resources)

\* chunkInheritsDocumentAuthorization
InheritsDocument(id, resources) ==
  LET parent == ParentOf[id]
  IN /\ parent \in DOMAIN resources /\ TypeOf[parent] = "document"
     /\ resources[parent].acl = resources[id].acl
     /\ resources[parent].source = resources[id].source
     /\ resources[parent].projection = resources[id].projection

\* The documents the source snapshot stands for.
SnapshotDocuments(resources) ==
  {id \in DOMAIN resources :
     /\ TypeOf[id] = "document"
     /\ IsServing(id, resources[id]) \/ resources[id].state = "revoked"}

ProjectionValid(p) ==
  /\ \A id \in DOMAIN p.resources :
       LET r == p.resources[id]
       IN /\ ResourceValid(id, r)
          /\ r.projection = p.version
          /\ r.source = p.snapshot.version
          /\ p.state = "serving" => \/ IsTerminal(r) \/ IsServing(id, r)
                                    \/ IsQuarantined(id, r)
          /\ p.state # "serving" => ~IsServing(id, r)
          /\ (TypeOf[id] = "claim" /\ r.record # None) =>
               ClaimRecordResolves(id, p.resources)
          /\ (TypeOf[id] = "artifact" /\ r.record # None) =>
               SecurityRecordResolves(id, p.resources)
          /\ DependenciesValid(id, p.resources)
          /\ (TypeOf[id] = "chunk" /\ IsServing(id, r)) =>
               /\ IsServing(ParentOf[id], p.resources[ParentOf[id]])
               /\ InheritsDocument(id, p.resources)
  /\ p.state = "serving" =>
       Cardinality(SnapshotDocuments(p.resources)) = p.snapshot.count

-----------------------------------------------------------------------------
\* Faulty variant: claims that are not source-backed become triples.
GraphServing(p) == Serving(p.resources)

\* ProjectionGraphBindings: the resources and the claim triples of the graph.
GraphResources(p) ==
  {id \in Serving(p.resources) :
     TypeOf[id] = "claim" => /\ p.resources[id].record # None
                             /\ p.resources[id].record.bound}

GraphClaims(p) == {id \in GraphResources(p) : TypeOf[id] = "claim"}

\* ValidateGraphResourceBindings: chunks come with their document, and all
\* bindings carry the versions of one projection.
GraphResourcesValid(p) ==
  LET bound == GraphResources(p)
  IN /\ bound # {}
     /\ \A id \in bound : TypeOf[id] = "chunk" => ParentOf[id] \in bound
     /\ \A x, y \in bound :
          /\ p.resources[x].source = p.resources[y].source
          /\ p.resources[x].acl = p.resources[y].acl
          /\ p.resources[x].projection = p.resources[y].projection

\* ValidateClaimTripleBindings
GraphClaimsValid(p) ==
  \A id \in GraphClaims(p) :
    LET c == p.resources[id].record
        bound == GraphResources(p)
    IN /\ c.document.id \in bound
       /\ c.document.source = p.resources[c.document.id].source
       /\ c.endpoints # {}
       /\ \A x \in c.endpoints : x \in bound /\ TypeOf[x] = "entity"
       /\ \A g \in c.groups : \A e \in g.evidence :
            /\ e.pin.id \in bound
            /\ TypeOf[e.pin.id] \in {"document", "chunk"}
            /\ ParentOf[e.pin.id] = c.document.id

=============================================================================
