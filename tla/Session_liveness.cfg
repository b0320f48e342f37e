\* One call, one frame corrupted, two connections: connect() may come at any time.
CONSTANTS
  c1 = c1
  c2 = c2
  get = get
  push = push
  Callers = {c1}
  Ops = {get}
  PushOps = {push}
  NoOp = NoOp
  Nobody = Nobody
  Sequences = {}
  MaxUnmatched = 2
  MaxCalls = 1
  MaxPushes = 0
  MaxLost = 1
  MaxConnects = 2
  MaxInFlight = 2
  OrderlyOwner = FALSE
  WritesTimeOut = FALSE
SPECIFICATION FairSpec
PROPERTIES
  NoLostWakeup
  OwnerReturns
  StreamFlows
  CallReturns
