CONSTANTS
  Items = {t1, t2, t3}
  maxSize = 1
  Closing = TRUE
SPECIFICATION FairSpec
CHECK_DEADLOCK FALSE
INVARIANTS NoLostSignal AwaitedItems
PROPERTY PushAnswered
