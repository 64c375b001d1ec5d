--------------------------- MODULE MCRecheckPool ---------------------------
(***************************************************************************)
(* Two accounts; a sender's first two sequences, a second transaction for  *)
(* one of them, and a transaction that both accounts sign.                 *)
(***************************************************************************)
EXTENDS RecheckPool

CONSTANTS alice, bob, i1, i2

sig(a, n) == [account |-> a, seq |-> n]

MCAddrs == {alice, bob}
MCInserters == {i1}
MCTwoInserters == {i1, i2}
MCTxs == {[id |-> 1, sigs |-> <<sig(alice, 0)>>],
          [id |-> 2, sigs |-> <<sig(alice, 1)>>],
          [id |-> 3, sigs |-> <<sig(alice, 1)>>],
          [id |-> 4, sigs |-> <<sig(bob, 0), sig(alice, 1)>>]}
=============================================================================
