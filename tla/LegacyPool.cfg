SPECIFICATION Spec
CONSTANTS
  Addrs = {"a", "b"}
  Txs <- MCTxs
  Delegated = {"b"}
  ChainStates <- MCChainStates
  PriceBump = 10
  AccountSlots = 1
  GlobalSlots = 2
  AccountQueue = 1
  GlobalQueue = 1
  MaxFails = 1
INVARIANTS
  AllIsPendingPlusQueue
  LivePendingNonceMatches
  PendingNeverGapped
  ReservationMatches
  StoreWithinPending
  
