\* An editor, evaluations and releases in any order; git status may fail.
SPECIFICATION GateSpec
CONSTANTS
  s1 = s1
  s2 = s2
  Source = {s1, s2}
  None = None
  MaxCommits = 2
  MaxEdits = 1
  MaxEvals = 1
INVARIANT
  ReleasesEvaluated
