CONSTANTS
  EthBlocks = {1, 3}
  MaxHeight = 3
  MaxErrors = 1
SPECIFICATION FairSpec
CHECK_DEADLOCK FALSE
PROPERTY FailedFetchIsRetried
