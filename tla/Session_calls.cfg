\* Two threads, two calls, one connection that may break.
CONSTANTS
  c1 = c1
  c2 = c2
  get = get
  push = push
  Callers = {c1, c2}
  Ops = {get}
  PushOps = {push}
  NoOp = NoOp
  Nobody = Nobody
  Sequences = {2}
  MaxUnmatched = 2
  MaxCalls = 2
  MaxPushes = 0
  MaxLost = 0
  MaxConnects = 1
  MaxInFlight = 2
  OrderlyOwner = TRUE
  WritesTimeOut = FALSE
SYMMETRY Symmetry
SPECIFICATION Spec
INVARIANTS
  TypeOK
  SequenceIsBit
  PendingOwned
PROPERTIES
  TimelyAnswers
  Alternates
