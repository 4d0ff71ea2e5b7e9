\* Users who click at any time, opens and writes that fail, one lost connection.
SPECIFICATION Spec
CONSTANTS
  a = a
  b = b
  f = f
  g = g
  n1 = n1
  n2 = n2
  None = None
  Peers <- BothPeers
  Sources = {f, g}
  Names = {n1, n2}
  NameOf <- SameName
  Size <- OneAndThreeBlocks
  Outbox <- OwnFiles
  HighWater = 1
  LowWater = 0
  Leftovers = TRUE
  DiskFails = TRUE
  MaxSends <- OnceEach
  MaxCancels <- OnceByA
  MaxLosses = 1
CHECK_DEADLOCK FALSE
INVARIANTS
  TypeOK
  WorkerOwnsResources
  SendBufferBounded
