-------------------------- MODULE MCAuthorizedQuery --------------------------
(***************************************************************************)
(* A small tenant for TLC: a document, a chunk of it (its authorization    *)
(* boundary is the document), and an entity.                               *)
(***************************************************************************)
EXTENDS AuthorizedQuery, TLC

CONSTANTS chunk, document, entity, alice, fast, strict, q1, q2, r1, c1

MCResource == {chunk, document, entity}
MCItem == {chunk, entity}
MCIds == (chunk :> {chunk, document}) @@ (entity :> {entity})
MCOwn == (chunk :> document) @@ (entity :> entity)
MCBoundaries == (chunk :> {document}) @@ (entity :> {entity})
MCPrincipalOf == [q \in Request |-> alice]
\* Three queries of two goroutines, in full batches; or a query and a reader
\* that check one boundary at a time while relationships change.
MCWorkload ==
  {[threads |-> Querier, maxBatchChecks |-> 2, maxStarts |-> 3, maxChanges |-> 0]}
    \cup {[threads |-> {q} \cup Reader, maxBatchChecks |-> 1, maxStarts |-> 2,
           maxChanges |-> 2] : q \in Querier}
\* Goroutines of queries are interchangeable.
Symmetry == Permutations(Querier)

=============================================================================
