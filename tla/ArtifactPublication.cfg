\* Builds, commits and reads of two processes with the bundles directory in
\* place; one of them may die, perhaps with the lock.
SPECIFICATION Spec

CONSTANTS
  proc1 = proc1
  proc2 = proc2
  v1 = v1
  v2 = v2
  None = None
  Proc = {proc1, proc2}
  Version = {v1, v2}
  FileCount = 2
  Started = TRUE
  MaxCalls = 4
  MaxErrors = 1
  MaxCrashes = 1
  MaxSlow = 0

INVARIANTS
  SelectedWhole
  CommitCoherent
  CommitsOnlyKnowledge

PROPERTIES
  PublishedFromBase
  ExportsFollowPointer
  WaitersServed
