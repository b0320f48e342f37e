\* Two frames, and damage to one or garbage.
CONSTANTS
  MAX_FRAME_SIZE = 13
  Frames <- AckAndEscapes
  Garbage <- Noise
  Changed = {0, 60, 61, 62}
  MaxChunk = 3
  MaxFrames = 2
  MaxDamage = 1
SPECIFICATION FairSpec
INVARIANTS
  BufferBounded
  ExactlyWhole
PROPERTIES
  Delivers
