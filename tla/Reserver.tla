------------------------------ MODULE Reserver ------------------------------
(***************************************************************************)
(* mempool/reserver: the table of addresses shared by the EVM pool and the *)
(* Cosmos pool.  Each operator is one call under the tracker's lock: it    *)
(* takes the table and returns the new table and the error.  Both calls    *)
(* walk their addresses in order and stop at the first one they cannot     *)
(* take, keeping what they did before.                                     *)
(***************************************************************************)
EXTENDS Integers, Sequences

NoOwner == "none"

\* The addresses a call reaches before the first index at which it stops.
before(addrs, stops) == {addrs[i] : i \in {j \in DOMAIN addrs : \A k \in 1..j : k \notin stops}}

repeated(addrs) == {i \in DOMAIN addrs : \E j \in 1..(i - 1) : addrs[j] = addrs[i]}

\* Mutant: the owner of a reserved address is not looked at.
HoldTakesOver(accounts, id, addrs) ==
  [accounts |-> [a \in DOMAIN accounts |-> IF \E i \in DOMAIN addrs : addrs[i] = a THEN id ELSE accounts[a]],
   err |-> FALSE]

\* Hold returns nil at the first address this pool already owns: the addresses
\* after it are not looked at.
Hold(accounts, id, addrs) ==
  LET stops == {i \in DOMAIN addrs : accounts[addrs[i]] # NoOwner} \cup repeated(addrs)
      taken == before(addrs, stops)
  IN [accounts |-> [a \in DOMAIN accounts |-> IF a \in taken THEN id ELSE accounts[a]],
      err |-> \E i \in DOMAIN addrs : /\ accounts[addrs[i]] \notin {NoOwner, id}
                                      /\ \A k \in 1..(i - 1) : k \notin stops]

\* Mutant: the owner is not compared.
ReleaseAnyOwner(accounts, id, addrs) ==
  LET stops == {i \in DOMAIN addrs : accounts[addrs[i]] = NoOwner} \cup repeated(addrs)
      freed == before(addrs, stops)
  IN [accounts |-> [a \in DOMAIN accounts |-> IF a \in freed THEN NoOwner ELSE accounts[a]],
      err |-> stops # {}]

Release(accounts, id, addrs) ==
  LET stops == {i \in DOMAIN addrs : accounts[addrs[i]] # id} \cup repeated(addrs)
      freed == before(addrs, stops)
  IN [accounts |-> [a \in DOMAIN accounts |-> IF a \in freed THEN NoOwner ELSE accounts[a]],
      err |-> stops # {}]

\* Has: reserved by another pool.
Has(accounts, id, addr) == accounts[addr] \notin {NoOwner, id}
=============================================================================
