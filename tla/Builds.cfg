SPECIFICATION HashSpec
CONSTANTS
  WordBytes = 4
  ByteBits = 3
  StripesPerBlock = 3
  MaxStripes = 4
  Builds <- MCBuilds
  ShortBuilds <- MCShortBuilds
  Secret <- MCSecret
  INIT_ACC <- MCInitAcc
  Stripes <- MCStripes
  None = None
INVARIANTS
  TypeOK BuildsAgree InputIsKept OrderCounts
  ShortBuildsAgree EveryByteIsRead ChunksDoNotCommute
CHECK_DEADLOCK FALSE
