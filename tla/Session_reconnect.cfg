\* One call and two unsolicited frames over two connections.
CONSTANTS
  c1 = c1
  c2 = c2
  get = get
  push = push
  Callers = {c1}
  Ops = {get}
  PushOps = {push}
  NoOp = NoOp
  Nobody = Nobody
  Sequences = {}
  MaxUnmatched = 1
  MaxCalls = 1
  MaxPushes = 2
  MaxLost = 0
  MaxConnects = 2
  MaxInFlight = 2
  OrderlyOwner = TRUE
  WritesTimeOut = TRUE
SPECIFICATION Spec
INVARIANTS
  ReaderAlive
  NoCrossConnection
PROPERTIES
  DroppedOnlyDuplicates
  InOrderOnce
