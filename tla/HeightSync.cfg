CONSTANTS
  Readers = {r1}
  Txs = {t1}
  MaxHeight = 2
  MaxEpoch = 3
SPECIFICATION FairSpec
CHECK_DEADLOCK FALSE
INVARIANTS ServedAtRequestedHeight NoMissedHeight
PROPERTIES SupersededStoreFrozen 
