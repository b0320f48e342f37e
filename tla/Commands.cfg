\* One command and one change by the headphones.
CONSTANTS
  None = None
  Models = {"Unknown", "WH-1000XM3", "WH-1000XM4", "WH-1000XM5", "WF-1000XM4"}
  Requests <- MCRequests
  Own <- MCOwn
  Silences <- MCSilences
  MaxCommands = 1
  MaxChanges = 1
SPECIFICATION Spec
INVARIANTS
  KnownIsTrue
PROPERTIES
  DoneIsDone
  WipedOnConsent
  AskedFirst
