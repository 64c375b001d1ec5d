---------------------------- MODULE MCLegacyPool ----------------------------
(***************************************************************************)
(* Two senders for LegacyPool: a is plain, b has code.  Limits are so low  *)
(* that every truncation happens.                                          *)
(***************************************************************************)
EXTENDS LegacyPool

tx(a, n, p) == [from |-> a, nonce |-> n, price |-> p]

MCTxs == {tx("a", 0, 1), tx("a", 0, 2), tx("a", 1, 1), tx("a", 2, 1), tx("b", 0, 1), tx("b", 1, 1)}

MCChainStates ==
  {[a |-> [nonce |-> n, balance |-> x], b |-> [nonce |-> m, balance |-> 2]] : n \in 0..2, m \in 0..1, x \in {0, 4}}
=============================================================================
