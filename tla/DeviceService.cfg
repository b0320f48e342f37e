\* Two devices; pauses of 1, 2, 4, 5.
CONSTANTS
  a1 = a1
  a2 = a2
  Addresses = {a1, a2}
  NoAddress = NoAddress
  MaxRetry = 5
  SettingsFirst = 1
  SettingsEvery = 1
  BatteryEvery = 2
  MaxFailures = 5
SPECIFICATION FairSpec
INVARIANTS
  TypeOK
  LinkTracked
  StateTold
PROPERTIES
  BacksOff
  Reconnects
