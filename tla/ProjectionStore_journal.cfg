\* Two callers with old and new plans, cut short between any two writes.
SPECIFICATION StoreSpec
CONSTANTS
  v0 = v0
  v1 = v1
  v2 = v2
  p1 = p1
  p2 = p2
  p3 = p3
  r1 = r1
  r2 = r2
  r3 = r3
  c1 = c1
  c2 = c2
  Client = {c1, c2}
  Version = {v0, v1, v2}
  Plan = {p1, p2, p3}
  Run = {r1, r2, r3}
  RunOf <- MCRunOf
  BaseOf <- MCBaseOf
  TargetOf <- MCTargetOf
  Earlier <- MCEarlier
  Initial = v0
  OpCount = 2
  None = None
  MaxInterrupts = 3
SYMMETRY Callers
INVARIANTS
  PointerResolvable
  JournalTruthful
PROPERTIES
  OwnerSettledBeforeReplaced
  ServingAtomically
