\* Two devices, a feature that can be set and one that cannot.
CONSTANTS
  old = old
  new = new
  battery = battery
  noise = noise
  Devices = {old, new}
  V2Devices = {new}
  Features = {battery, noise}
  Battery = battery
  NoiseControl = noise
  Handshake = Handshake
  Supports <- BothSupportAll
  Heard <- NewHeard
  Settable = {noise}
  Checked = {}
  V2Only = {}
  Cycle <- NoiseOnly
  AtConnect <- BatteryAndNoise
  Values <- TwoModes
  MaxBuffered = 1
  None = None
  MaxConnects = 2
  MaxChanges = 1
  MaxSets = 1
  MaxTimeouts = 1
  MaxInFlight = 3
SPECIFICATION FairSpec
INVARIANTS
  TypeOK
  KnownOfPeer
  AvailabilityTold
PROPERTIES
  OffOnlyByName
  Converges
