SPECIFICATION Spec
CONSTANTS
  Calls = {c1}
  Initialize = Initialize
  NoOp = NoOp
  NoData = NoData
  Odd = Odd
  Conns <- MCConns
  Ops <- MCOps
  Mutations <- MCMutations
  Payloads <- MCPayloads
  MaxRequests = 4
  MaxNoise = 0
  MaxTurns = 2
INVARIANT TypeOK
PROPERTIES
  Promise
  OnlyTheObservedTurn
  CallsFinish
CHECK_DEADLOCK FALSE
