SPECIFICATION Spec
CONSTANTS
  Threads = {root, caller, agent}
  Root = root
  Caller = caller
  MaxTurns = 2
INVARIANTS InterruptTypeOK WatchedAreAnswered ReportTellsAll OneTurnEach
PROPERTY InterruptReturns
CHECK_DEADLOCK FALSE
