------------------------------ MODULE MCStateDB ------------------------------
(* A sender, a contract with storage, an address without account or with    *)
(* coins sent to it in advance, and a module account.                       *)
EXTENDS StateDB

CONSTANTS s, c, n, m, k1, k2

MCStores ==
  {[acct |-> {s, c, m} \cup (IF v = 0 THEN {} ELSE {n}),
    bal |-> [a \in Addrs |-> CASE a = s -> 2 [] a = n -> v [] OTHER -> 1],
    nonce |-> [a \in Addrs |-> IF a \in {s, c} THEN 1 ELSE 0],
    code |-> [a \in Addrs |-> IF a = c THEN Contract ELSE NoCode],
    slot |-> [a \in Addrs |-> [k \in Keys |-> IF a = c /\ k = k1 THEN 1 ELSE 0]],
    blobs |-> {Contract}] : v \in {0, 1}}
MCCalls == {<<c, 0>>, <<n, 1>>, <<m, 1>>}
MCWrites == {<<k1, 0>>, <<k2, 1>>}
=============================================================================
