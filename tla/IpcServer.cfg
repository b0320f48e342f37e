\* Three connections, two at a time, one job queued; one device.
CONSTANTS
  a1 = a1
  c1 = c1
  c2 = c2
  c3 = c3
  Conns = {c1, c2, c3}
  NoConn = NoConn
  MaxClients = 2
  MaxJobs = 1
  RequestTime = 1
  AnswerTime = 1
  SendTime = 1
  IdleTime = 0
  Addresses = {a1}
  NoAddress = NoAddress
  MaxRetry = 1
  SettingsFirst = 0
  SettingsEvery = 0
  BatteryEvery = 0
  MaxFailures = 0
SPECIFICATION Spec
SYMMETRY Clients
INVARIANTS
  TypeOK
  NoRequestForgotten
  RefusedForAReason
PROPERTIES
  AnswersKeepLink
