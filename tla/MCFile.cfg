CONSTANTS
  Processes = {q1, q2}
  Docs = {d1, d2}
  None = None
  Foreign = Foreign
  Torn = Torn
  MaxCalls = 3
  MaxForeign = 2
  MaxFaults = 2
SPECIFICATION Spec
SYMMETRY Symmetry
CHECK_DEADLOCK FALSE
INVARIANTS FileTypeOK NeverTorn SuccessIsDurable ResidueIsNamed
PROPERTIES ForeignSurvives Atomic
