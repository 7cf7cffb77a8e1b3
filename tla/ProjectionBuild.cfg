\* Two processes build while the workspace changes under them.
SPECIFICATION Spec
CONSTANTS
  b1 = b1
  b2 = b2
  ns1 = ns1
  ns2 = ns2
  v1 = v1
  v2 = v2
  w = w
  Builder = {b1, b2}
  Version = {v1, v2, w}
  Scope = {ns1, ns2}
  ScopeOf <- MCScopeOf
  None = None
  MaxAttempts = 5
  MaxBuilds = 3
  MaxFaults = 3
  MaxEdits = 2
SYMMETRY Builders
PROPERTIES
  CatalogBeforeArtifacts
  LoneBuildPublishes
