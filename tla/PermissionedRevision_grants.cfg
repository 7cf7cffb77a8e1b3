\* A committed grant against the tombstone its preparation left behind.
SPECIFICATION Spec
CONSTANTS
  claim = claim
  other = other
  source1 = source1
  source2 = source2
  only = only
  v1 = v1
  v2 = v2
  main = main
  branch = branch
  f1 = f1
  t1 = t1
  Watermark = {v1, v2}
  Resource = {claim, other}
  MaxTombstones = 2
  Tuple = {source1, only}
  ResourceOf <- MCResourceOf
  Viewable <- MCViewable
  Scope = {main, branch}
  WatermarkOf <- MCWatermarkOf
  Refresher = {}
  Reader = {}
  MaxEpoch = 3
  MaxReservations = 3
  MaxSelections = 0
INVARIANTS
  CommittedGrantUsable
