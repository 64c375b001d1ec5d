CONSTANTS
  Txs = {t1}
  MaxHeight = 2
  MaxEpoch = 3
  EventBuffer = 1
  MayFail = {1}
  ProposalTimeout = TRUE
SPECIFICATION FairSpec
INVARIANT NeverPanics
PROPERTIES ImplementsHeightSync TriggerAnswered CloseReturns ProposalReturns BlockIsRechecked
