\* Users who wait, fair threads, a file longer than the send buffer: cancels that race,
\* one lost connection, each file offered again onto what the first offer left.
SPECIFICATION PatientFairSpec
CONSTANTS
  a = a
  b = b
  f = f
  g = g
  n1 = n1
  n2 = n2
  None = None
  Peers <- BothPeers
  Sources = {f, g}
  Names = {n1, n2}
  NameOf <- DistinctNames
  Size <- OneAndFourBlocks
  Outbox <- OwnFiles
  HighWater = 1
  LowWater = 0
  Leftovers = FALSE
  DiskFails = FALSE
  MaxSends <- TwiceEach
  MaxCancels <- OnceEach
  MaxLosses = 1
CHECK_DEADLOCK FALSE
INVARIANTS
  ReceivedIsOnDisk
  SignalMatchesState
  JudgedFileIsExact
  SourcesIntact
  NobodyLeftWaiting
PROPERTIES
  HandsOver
  TransferEnds
  SentIsJudged
