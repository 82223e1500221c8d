CONSTANTS
  Codexes = {p1, p2}
  Launchers = {l1}
  None = None
  MaxRelease = 1
  MaxVersion = 0
  MaxCommands = 2
  MaxFaults = 1
  MaxChanges = 1
SPECIFICATION Spec
SYMMETRY Symmetry
CHECK_DEADLOCK FALSE
INVARIANT UpdateMayBeRetried
