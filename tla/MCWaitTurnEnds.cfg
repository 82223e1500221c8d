SPECIFICATION Spec
CONSTANTS
  Conns = {k1}
  Initialize = Initialize
  NoOp = NoOp
  NoData = NoData
  Ops <- MCOps
  Mutations = {}
  Payloads <- MCPayloads
  MaxRequests = 5
  MaxNoise = 0
  Active = Active
  Asking = Asking
  Idle = Idle
  N = 1
  MaxTurns = 2
INVARIANT TurnEndIsNoticed
CHECK_DEADLOCK FALSE
