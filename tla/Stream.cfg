SPECIFICATION MemorySpec
CONSTANTS
  StripeLen = 4
  BufferStripes = 3
  StripesPerBlock = 4
  MidSize = 10
  MaxTotal = 70
  Bases <- MCBases
  StateSize = 576
  Align = 64
  None = None
INVARIANTS TypeOK DigestIsOneShot StateFits
PROPERTIES FreesWhatItGot
CHECK_DEADLOCK FALSE
