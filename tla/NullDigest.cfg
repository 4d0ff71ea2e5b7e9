\* A receiver cancels between the last chunk and the hash.
SPECIFICATION PatientSpec
CONSTANTS
  a = a
  b = b
  f = f
  g = g
  n1 = n1
  n2 = n2
  None = None
  Peers <- BothPeers
  Sources = {f, g}
  Names = {n1, n2}
  NameOf <- DistinctNames
  Size <- OneAndTwoBlocks
  Outbox <- OwnFiles
  HighWater = 1
  LowWater = 0
  Leftovers = FALSE
  DiskFails = FALSE
  MaxSends <- OnceByA
  MaxCancels <- OnceEach
  MaxLosses = 0
CHECK_DEADLOCK FALSE
INVARIANT DigestHasState
