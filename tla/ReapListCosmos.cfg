CONSTANTS
  e1 = e1
  e2 = e2
  c1 = c1
  c2 = c2
  EvmTxs = {e1, e2}
  CosmosTxs = {c1, c2}
  Unencodable = {}
  Bytes <- MCBytes
  Gas <- MCGas
  Limits <- MCLimits
  Nil = Nil
  MaxLen = 3
SPECIFICATION Spec
INVARIANT CosmosGuardMatchesPool
