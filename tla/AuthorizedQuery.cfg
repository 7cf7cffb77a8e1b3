\* Queries, a reader, changed relationships and a revocation, both ways to cache.
SPECIFICATION Spec
CONSTANTS
  chunk = chunk
  document = document
  entity = entity
  alice = alice
  fast = fast
  strict = strict
  q1 = q1
  q2 = q2
  r1 = r1
  c1 = c1
  Resource <- MCResource
  Item <- MCItem
  Ids <- MCIds
  Own <- MCOwn
  Boundaries <- MCBoundaries
  Principal = {alice}
  PrincipalOf <- MCPrincipalOf
  Request = {fast, strict}
  Strict = {strict}
  Querier = {q1, q2}
  Reader = {r1}
  Coordinator = {c1}
  Modes = {FALSE, TRUE}
  EvidenceLimit = 2
  Capacity = 1
  MaxTombstones = 2
  Workload <- MCWorkload
SYMMETRY Symmetry
INVARIANTS
  NoRevokedEntry
  WithinCapacity
  SnapshotFaithful
PROPERTIES
  KeepsPromise
  AuthorizedAfterLoad
