\* Two programs bind and rebind one session; one may die in a call.
SPECIFICATION Spec

CONSTANTS
  prog1 = prog1
  prog2 = prog2
  c1 = c1
  c2 = c2
  None = None
  Program = {prog1, prog2}
  Context = {c1, c2}
  MaxCalls = 4
  MaxCrashes = 1


PROPERTIES
  ReplacedAsExpected
  CallsReturn
