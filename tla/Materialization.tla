---------------------------- MODULE Materialization ----------------------------
(***************************************************************************)
(* The resources a build of the knowledge service makes of the sources.    *)
(* Every document has an entity, every chunk a statement and the claim     *)
(* that the statement is part of the document; one bundle summarizes them. *)
(* The ids of all these are hashes of paths and positions: the same        *)
(* position of the same file is the same resource in every version.        *)
(*                                                                         *)
(* Sources map documents to [content, title, chunks]; chunks maps the      *)
(* positions that splitChunks finds to contents and is empty for a blank   *)
(* file.  Content is told apart and nothing more.                          *)
(***************************************************************************)
EXTENDS CatalogPlanner

CONSTANTS
  StatementOf,    \* the entity of a chunk
  ClaimOf,        \* the claim of a chunk
  EntityOf,       \* the entity of a document
  Bundle,         \* the artifact "artifacts/bundle"
  SummaryOf(_, _) \* the content that names a number of documents and chunks

ChunksOf(sources) == UNION {DOMAIN sources[d].chunks : d \in DOMAIN sources}

ASSUME MaterializationAssumption ==
  /\ DOMAIN ClaimOf = DOMAIN StatementOf
  /\ \A c \in DOMAIN ClaimOf : /\ {c, ClaimOf[c], StatementOf[c]} \subseteq Id
                               /\ TypeOf[c] = "chunk" /\ TypeOf[ClaimOf[c]] = "claim"
                               /\ TypeOf[StatementOf[c]] = "entity"
  /\ \A d \in DOMAIN EntityOf : /\ {d, EntityOf[d]} \subseteq Id
                                /\ TypeOf[d] = "document" /\ TypeOf[EntityOf[d]] = "entity"
  /\ Bundle \in Id /\ TypeOf[Bundle] = "artifact"

ChunkText(sources, c) == sources[ParentOf[c]].chunks[c]

\* NewResourceMetadata, with the versions of the build
Resource(run, content, deps, record) ==
  [content |-> content, acl |-> 0, source |-> run.snapshot.version,
   projection |-> run.target, state |-> "staged", status |-> Pending,
   deps |-> deps, record |-> record]

DocumentPin(run, sources, d) == Pin(d, Resource(run, sources[d].content, {}, None))
ChunkPin(run, sources, c) == Pin(c, Resource(run, ChunkText(sources, c), {}, None))

ClaimOfChunk(run, sources, c) ==
  LET document == DocumentPin(run, sources, ParentOf[c])
      endpoints == {StatementOf[c], EntityOf[ParentOf[c]]}
      evidence == {[pin |-> ChunkPin(run, sources, c), document |-> document]}
  IN Resource(run, ChunkText(sources, c), {ParentOf[c], c} \cup endpoints,
       [bound |-> TRUE, endpoints |-> endpoints, document |-> document,
        mode |-> "any_support", groups |-> {[complete |-> TRUE, evidence |-> evidence]}])

EntityOfDocument(run, sources, d) ==
  LET chunks == DOMAIN sources[d].chunks
  IN Resource(run, sources[d].title, IF chunks = {} THEN {d} ELSE chunks, None)

\* The summary names how many documents and chunks there are, and its record
\* requires all of them.
BundleOf(run, sources) ==
  LET pins == {DocumentPin(run, sources, d) : d \in DOMAIN sources} \cup
              {ChunkPin(run, sources, c) : c \in ChunksOf(sources)}
      summary == Resource(run, SummaryOf(Cardinality(DOMAIN sources), Cardinality(ChunksOf(sources))),
                          {p.id : p \in pins}, None)
  IN [summary EXCEPT !.record =
        [artifact |-> Pin(Bundle, summary), mode |-> "all_required",
         groups |-> {[complete |-> TRUE, pins |-> pins]}]]

\* The loops of prepareArtifactProjection
Materialized(run, sources) ==
  LET documents == DOMAIN sources
      chunks == ChunksOf(sources)
      part == {<<d, Resource(run, sources[d].content, {}, None)>> : d \in documents} \cup
              {<<EntityOf[d], EntityOfDocument(run, sources, d)>> : d \in documents} \cup
              {<<c, Resource(run, ChunkText(sources, c), {ParentOf[c]}, None)>> : c \in chunks} \cup
              {<<StatementOf[c], Resource(run, ChunkText(sources, c), {c}, None)>> : c \in chunks} \cup
              {<<ClaimOf[c], ClaimOfChunk(run, sources, c)>> : c \in chunks} \cup
              {<<Bundle, BundleOf(run, sources)>>}
  IN [id \in {p[1] : p \in part} |-> (CHOOSE p \in part : p[1] = id)[2]]

\* The run of a build, from the projection that is selected.
BuildRun(selected, sources) ==
  [base |-> selected.version, target |-> selected.version + 1,
   snapshot |-> SourceSnapshot(selected.version + 1,
     {[id |-> d, content |-> sources[d].content, acl |-> 0] : d \in DOMAIN sources})]

\* The projection of the bundle, made before anything is planned.  The graph
\* bindings are derived from it, and it is the base of the next build.
PublicProjection(run, resources) ==
  [version |-> run.target, snapshot |-> run.snapshot, state |-> "serving",
   resources |-> [id \in DOMAIN resources |->
     [resources[id] EXCEPT !.state = "serving", !.status = Succeeded]],
   applied |-> {}]

\* NewProjection and ProjectionGraphBindings do not fail.
Publishable(projection) ==
  ProjectionValid(projection) /\ GraphResourcesValid(projection) /\ GraphClaimsValid(projection)

\* Versions are digests of the sources: the sources are those selected.
Unchanged(selected, sources) ==
  LET again == [target |-> selected.version, snapshot |-> selected.snapshot]
  IN selected.resources = PublicProjection(again, Materialized(again, sources)).resources

\* prepareArtifactProjection up to its plan; blank sources alone are refused.
PlanBuild(selected, sources) ==
  LET run == BuildRun(selected, sources)
      resources == Materialized(run, sources)
  IN IF ChunksOf(sources) # {} /\ Publishable(PublicProjection(run, resources))
     THEN PlanResources(run, selected, resources, "tombstone")
     ELSE {}

=============================================================================
