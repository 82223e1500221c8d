SPECIFICATION Spec
CONSTANTS
  Conns = {k1}
  Initialize = Initialize
  NoOp = NoOp
  NoData = NoData
  Ops <- MCOps
  Mutations = {}
  Payloads <- MCPayloads
  MaxRequests = 9
  MaxNoise = 0
  Active = Active
  Asking = Asking
  Idle = Idle
  N = 2
  MaxTurns = 1
INVARIANTS
  WaitTypeOK
  EveryTargetAccounted
  ReadyIsReal
  TimeoutHidesNothing
PROPERTY WaitReturns
CHECK_DEADLOCK FALSE
