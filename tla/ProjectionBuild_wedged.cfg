\* One builder whose rollback is cut short tries again.
SPECIFICATION Spec
CONSTANTS
  b1 = b1
  b2 = b2
  ns1 = ns1
  ns2 = ns2
  v1 = v1
  v2 = v2
  w = w
  Builder = {b1}
  Version = {v1}
  Scope = {ns1}
  ScopeOf <- MCScopeOf
  None = None
  MaxAttempts = 3
  MaxBuilds = 2
  MaxFaults = 2
  MaxEdits = 0
INVARIANT CandidateRemovedBeforeRetry
