CONSTANTS
  alice = alice
  bob = bob
  i1 = i1
  i2 = i2
  Addrs <- MCAddrs
  Txs <- MCTxs
  Inserters <- MCInserters
  MaxTx = 2
  MaxSeq = 2
SPECIFICATION Spec
INVARIANT OnePoolPerAddress
