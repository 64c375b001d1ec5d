SPECIFICATION Spec
CONSTANTS
  s = s
  c = c
  n = n
  m = m
  k1 = k1
  k2 = k2
  Nil = Nil
  Addrs = {s, c, n, m}
  Sender = s
  Blocked = {m}
  Keys = {k1, k2}
  Stores <- MCStores
  Calls <- MCCalls
  Writes <- MCWrites
  Creations = {n, c}
  Authorities = {s}
  Receivers = {n, m}
  MaxPrecompileCalls = 2
  MaxOps = 5
INVARIANT JournalConsistent
PROPERTIES RevertRestores BalancesMirrored CommitMatchesView CoinsConserved
CHECK_DEADLOCK FALSE
