SPECIFICATION ConnSpec
CONSTANTS
  Conns = {k1}
  Initialize = Initialize
  Read = Read
  Mutate = Mutate
  NoOp = NoOp
  NoData = NoData
  Ops <- MCOps
  Mutations <- MCMutations
  Payloads <- MCPayloads
  MaxRequests = 4
  MaxNoise = 1
INVARIANTS
  ConnTypeOK
  AnswerIsOwn
  UnknownIffUnanswered
PROPERTY CallsReturn
CHECK_DEADLOCK FALSE
