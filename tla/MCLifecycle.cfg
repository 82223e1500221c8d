CONSTANTS
  Codexes = {p1, p2}
  Launchers = {l1, l2}
  None = None
  MaxRelease = 2
  MaxVersion = 1
  MaxCommands = 4
  MaxFaults = 2
  MaxChanges = 2
SPECIFICATION Spec
SYMMETRY Symmetry
CHECK_DEADLOCK FALSE
INVARIANTS LifecycleTypeOK InterruptedMayResume Deployed UninstallLeavesNothing DisableIsTrue HealthyIsReal StatusAdviceHolds AppliedIsFaultless
PROPERTY DescriptorOutlivesService
