CONSTANTS
  Codexes = {p1}
  Launchers = {l1}
  None = None
  MaxRelease = 1
  MaxVersion = 0
  MaxCommands = 1
  MaxFaults = 1
  MaxChanges = 0
SPECIFICATION Spec
SYMMETRY Symmetry
CHECK_DEADLOCK FALSE
INVARIANT SetupSuggestionAccepted
