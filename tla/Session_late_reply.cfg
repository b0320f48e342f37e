\* Two calls; a deadline may pass before the reply comes.
CONSTANTS
  c1 = c1
  c2 = c2
  get = get
  push = push
  Callers = {c1}
  Ops = {get}
  PushOps = {push}
  NoOp = NoOp
  Nobody = Nobody
  Sequences = {}
  MaxUnmatched = 2
  MaxCalls = 2
  MaxPushes = 0
  MaxLost = 0
  MaxConnects = 1
  MaxInFlight = 2
  OrderlyOwner = TRUE
  WritesTimeOut = FALSE
SPECIFICATION Spec
PROPERTIES
  ReplyIsOwn
