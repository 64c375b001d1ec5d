SPECIFICATION TxSpec
CONSTANTS
  DecUnit = 2
  ElasticityMultiplier = 2
  BaseFeeChangeDenominator = 4
  MinGasMultiplier = 1
  MaxGas = 6
  Accounts <- MCAccounts
  ContractAddr = "c"
  EthTxs <- MCEthTxs
  CosmosTxs <- MCCosmosTxs
  Balances <- MCBalances
  MayDelegate = {"a"}
  Genesis <- MCGenesis
  ParamSets <- MCParamSets
  IntrinsicGas = 2
  RefundQuotient = 3
  MaxNonce = 4
  MaxTxs = 2
  MaxHeight = 3
INVARIANTS
  ReceiptMatchesState
  NoncesSpentOnce
  RefundCovered
PROPERTIES
  ImplementsLedger
  FailureLeavesOnlyFees
  BaseFeeFollowsLoad
CHECK_DEADLOCK FALSE
