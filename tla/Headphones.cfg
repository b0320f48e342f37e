\* A notification, a setting, a poll and a late answer may all cross setChanges().
CONSTANTS
  None = None
  Versions = {"V1", "V2"}
  Levels = {20}
  VptTypes = {0, 2}
  Positions = {3}
  Supported = {"equalizer"}
  Values = {v1, v2}
  OwnSettings <- MCOwnSettings
  Callers = {poller}
  MaxChoices = 2
  MaxChanges = 1
  MaxUnread = 1
SYMMETRY Symmetry
SPECIFICATION Spec
INVARIANTS
  TypeOK
  CopiesAgree
  SettledIsTrue
