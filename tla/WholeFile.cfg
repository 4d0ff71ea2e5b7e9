\* One transfer with no disturbance: is the file kept?
SPECIFICATION PatientSpec
CONSTANTS
  a = a
  b = b
  f = f
  g = g
  n1 = n1
  n2 = n2
  None = None
  Peers <- BothPeers
  Sources = {f, g}
  Names = {n1, n2}
  NameOf <- DistinctNames
  Size <- OneAndTwoBlocks
  Outbox <- OwnFiles
  HighWater = 1
  LowWater = 0
  Leftovers = FALSE
  DiskFails = FALSE
  MaxSends <- OnceEach
  MaxCancels <- NoneOf
  MaxLosses = 0
CHECK_DEADLOCK FALSE
INVARIANT CompleteFileIsKept
