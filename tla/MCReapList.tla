----------------------------- MODULE MCReapList -----------------------------
(* Instances of ReapList: one EVM transaction that encodes, one that does   *)
(* not, and one or two Cosmos transactions, of different sizes.             *)
EXTENDS ReapList

CONSTANTS e1, e2, c1, c2

MCBytes == [t \in Txs |-> IF t = c2 THEN 2 ELSE 1]
MCGas == [t \in Txs |-> IF t = e1 THEN 2 ELSE 1]

\* No limit, a limit on bytes, a limit on gas: each admits every transaction alone.
MCLimits == {<<0, 0>>, <<2, 0>>, <<0, 2>>}
=============================================================================
