\* One claim with two possible subjects; logs of up to MaxLog events; at most
\* MaxDenials denials in a traversal of five claims; an editor, an evaluation
\* and releases in any order.
SPECIFICATION Spec
CONSTANTS
  u1 = u1
  u2 = u2
  g1 = g1
  o1 = o1
  kb1 = kb1
  d1 = d1
  d2 = d2
  e1 = e1
  e2 = e2
  c1 = c1
  b1 = b1
  User = {u1, u2}
  Group = {g1}
  Organization = {o1}
  KnowledgeBase = {kb1}
  Document = {d1, d2}
  Entity = {e1, e2}
  Claim = {c1}
  Anyone = Anyone
  NoObject = NoObject
  Snapshots <- MCSnapshots
  Offered <- MCOffered
  Block = {b1}
  NoBlock = NoBlock
  Recorded <- MCRecorded
  MaxLog = 4
  n1 = n1
  n2 = n2
  n3 = n3
  n4 = n4
  m1 = m1
  m2 = m2
  m3 = m3
  m4 = m4
  m5 = m5
  x1 = x1
  x2 = x2
  Node = {n1, n2, n3, n4}
  Link = {m1, m2, m3, m4, m5}
  FromOf <- MCFromOf
  ToOf <- MCToOf
  SupportsOf <- MCSupportsOf
  Limits <- MCLimits
  BatchSize = 4
  RetrieveLimit = 2
  EvidenceLimit = 2
  MaxDenials = 2
  s1 = s1
  s2 = s2
  Source = {s1, s2}
  None = None
  MaxCommits = 2
  MaxEdits = 2
  MaxEvals = 1
INVARIANTS
  BindingsExact
  AgreesWithModel
  ReplayExact
  TraversalExact
  SpoiltOnlyByLapses
PROPERTY
  RevocationNeverGrants
