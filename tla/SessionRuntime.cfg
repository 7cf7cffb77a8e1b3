\* A client that sends, confirms, opens and resumes two sessions.
SPECIFICATION Spec

CONSTANTS
  s1 = s1
  s2 = s2
  w1 = w1
  w2 = w2
  k1 = k1
  k2 = k2
  None = None
  Session = {s1, s2}
  Who = {w1, w2}
  Scope = {k1, k2}
  Modes = {FALSE, TRUE}
  MaxRequests = 3
  MaxCalls = 6
  MaxChanges = 2

INVARIANTS
  FirstIsShown
  AnsweredInOrder
  BoundAsOnDisk

PROPERTIES
  SessionKeepsPrincipal
