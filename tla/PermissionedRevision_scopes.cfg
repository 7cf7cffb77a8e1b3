\* One reader while builds, checkouts and reconciliations move the revision.
SPECIFICATION Spec
CONSTANTS
  claim = claim
  other = other
  source1 = source1
  source2 = source2
  only = only
  v1 = v1
  v2 = v2
  main = main
  branch = branch
  f1 = f1
  t1 = t1
  Watermark = {v1, v2}
  Resource = {claim, other}
  MaxTombstones = 2
  Tuple = {source1, only}
  ResourceOf <- MCResourceOf
  Viewable <- MCViewable
  Scope = {main, branch}
  WatermarkOf <- MCWatermarkOf
  Refresher = {f1}
  Reader = {t1}
  MaxEpoch = 3
  MaxReservations = 2
  MaxSelections = 1
INVARIANTS
  HalfDoneIsClosed
  RetryConverges
  PublishNeverLost
  FinishSound
