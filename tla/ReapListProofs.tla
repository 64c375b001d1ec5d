--------------------------- MODULE ReapListProofs ---------------------------
(***************************************************************************)
(* The list of transactions to gossip, for every number of transactions,   *)
(* every size and every limit: the index and the list agree, nothing is    *)
(* gossiped twice before it is dropped, and the guard follows the EVM      *)
(* pool.                                                                   *)
(*                                                                         *)
(* The index is right because a push never meets an entry of its own       *)
(* transaction: the two pushers handle disjoint sets, one at a time each,  *)
(* and only a push makes a transaction exist (Pushing).  Nothing is        *)
(* gossiped twice because the guard entry Reap leaves stays until a drop   *)
(* (Guarded).  Reap's compaction is a bijection from the positions that    *)
(* stay to an interval (CompactList).                                      *)
(*                                                                         *)
(* A leaf that needs no arithmetic names Zenon.                            *)
(***************************************************************************)
EXTENDS ReapList, FiniteSetTheorems, TLAPS

Types ==
  /\ txs \in Seq(Txs \cup {Nil})
  /\ txIndex \in [Txs -> Int] /\ \A t \in Txs : txIndex[t] >= Reaped
  /\ where \in [Txs -> {"absent", "queued", "pending"}]
  /\ DOMAIN pushing = {"evm", "cosmos"}
  /\ pushing["evm"] \in EvmTxs \cup {Nil} /\ pushing["cosmos"] \in CosmosTxs \cup {Nil}
  /\ inserted \in CosmosTxs \cup {Nil}
  /\ dropping \subseteq CosmosTxs
  /\ delivered \in [Txs -> Nat]

\* What a pusher has found not to exist still does not.
Pushing ==
  /\ \A k \in {"evm", "cosmos"} : pushing[k] # Nil => ~exists(pushing[k])
  /\ pushing["evm"] # Nil => where[pushing["evm"]] = "pending"

\* A transaction that was gossiped is guarded.
Guarded == \A t \in Txs : delivered[t] = 0 \/ (delivered[t] = 1 /\ txIndex[t] = Reaped)

IInv == Types /\ IndexMatchesList /\ Pushing /\ Guarded /\ EvmGuardMatchesPool

-----------------------------------------------------------------------------
\* Compaction

\* Ranks number a finite set of positions from 1 up.
LEMMA RankNumbers ==
  ASSUME NEW S \in SUBSET Nat, IsFiniteSet(S)
  PROVE  /\ Cardinality(S) \in Nat
         /\ \A n \in S : rank(n, S) \in 1..Cardinality(S)
         /\ \A m, n \in S : rank(m, S) = rank(n, S) => m = n
         /\ \A k \in 1..Cardinality(S) : \E n \in S : rank(n, S) = k
  <1> DEFINE upTo(n) == {m \in S : m <= n}
             numbers == 1..Cardinality(S)
             f == [n \in S |-> rank(n, S)]
  <1>1. Cardinality(S) \in Nat
    BY FS_CardinalityType, Zenon
  <1>2. \A n \in S : rank(n, S) = Cardinality(upTo(n))
    BY Zenon DEF rank
  <1>3. ASSUME NEW n \in S
        PROVE  IsFiniteSet(upTo(n)) /\ Cardinality(upTo(n)) \in numbers
    <2>1. upTo(n) \in SUBSET S /\ n \in upTo(n)
      OBVIOUS
    <2>2. IsFiniteSet(upTo(n)) /\ Cardinality(upTo(n)) <= Cardinality(S)
      BY <2>1, FS_Subset, Zenon
    <2>3. Cardinality(upTo(n)) \in Nat /\ Cardinality(upTo(n)) # 0
      BY <2>1, <2>2, FS_CardinalityType, FS_EmptySet, Zenon
    <2> QED BY <1>1, <2>2, <2>3
  <1>4. ASSUME NEW m \in S, NEW n \in S, m < n
        PROVE  Cardinality(upTo(m)) # Cardinality(upTo(n))
    <2>1. upTo(m) \in SUBSET upTo(n) /\ n \in upTo(n) /\ n \notin upTo(m)
      <3>1. \A k \in S : k \in Nat
        BY Zenon
      <3>2. \A k \in S : k <= m => k <= n
        BY <1>4, <3>1
      <3>3. n <= n /\ ~(n <= m)
        BY <1>4, <3>1
      <3> QED BY Zenon, <3>2, <3>3
    <2>2. Cardinality(upTo(n)) = Cardinality(upTo(m)) => upTo(n) = upTo(m)
      BY <1>3, <2>1, FS_Subset, Zenon
    <2> QED BY <2>1, <2>2, Zenon
  <1>5. \A m, n \in S : rank(m, S) = rank(n, S) => m = n
    <2> SUFFICES ASSUME NEW m \in S, NEW n \in S, m # n PROVE rank(m, S) # rank(n, S)
      BY Zenon
    <2>1. m < n \/ n < m
      OBVIOUS
    <2> QED BY <1>2, <1>4, <2>1, Zenon
  <1>6. \A n \in S : rank(n, S) \in numbers
    BY <1>2, <1>3, Zenon
  <1>7. f \in Injection(S, numbers)
    <2>1. f \in [S -> numbers] /\ \A n \in S : f[n] = rank(n, S)
      BY Zenon, <1>6
    <2>2. \A m, n \in S : f[m] = f[n] => m = n
      BY Zenon, <1>5, <2>1
    <2>3. DOMAIN f = S
      BY Zenon
    <2> HIDE DEF f
    <2> QED BY Zenon, <2>1, <2>2, <2>3 DEF Injection, IsInjective
  <1>8. IsFiniteSet(numbers) /\ Cardinality(numbers) = Cardinality(S)
    BY <1>1, FS_Interval
  <1>9. f \in Surjection(S, numbers)
    BY <1>7, <1>8, FS_Injection, Zenon
  <1>10. \A k \in numbers : \E n \in S : rank(n, S) = k
    BY <1>9, Zenon DEF Surjection
  <1> QED BY <1>1, <1>5, <1>6, <1>10, Zenon

\* The compacted list holds the transactions at the given positions, once each.
LEMMA CompactList ==
  ASSUME txs \in Seq(Txs \cup {Nil}), NEW S \in SUBSET DOMAIN txs, \A n \in S : txs[n] # Nil,
         \A m, n \in S : txs[m] = txs[n] => m = n
  PROVE  /\ compact(S) \in Seq(Txs)
         /\ Range(compact(S)) = {txs[n] : n \in S}
         /\ \A j, k \in DOMAIN compact(S) : compact(S)[j] = compact(S)[k] => j = k
  <1> DEFINE at(k) == CHOOSE n \in S : rank(n, S) = k
             size == Cardinality(S)
             rest == compact(S)
  <1>1. Len(txs) \in Nat /\ S \subseteq 1..Len(txs) /\ S \in SUBSET Nat
    OBVIOUS
  <1>2. IsFiniteSet(S)
    BY <1>1, FS_Interval, FS_Subset
  <1>3. /\ size \in Nat
        /\ \A n \in S : rank(n, S) \in 1..size
        /\ \A m, n \in S : rank(m, S) = rank(n, S) => m = n
        /\ \A k \in 1..size : \E n \in S : rank(n, S) = k
    BY <1>1, <1>2, RankNumbers, Zenon
  <1>4. \A k \in 1..size : at(k) \in S /\ rank(at(k), S) = k
    BY <1>3, Zenon
  <1>5. \A n \in S : at(rank(n, S)) = n
    BY <1>3, <1>4, Zenon
  <1>6. rest = [k \in 1..size |-> txs[at(k)]]
    BY Zenon DEF compact
  <1> HIDE DEF at, rest, size
  <1>7. \A n \in S : txs[n] \in Txs
    BY <1>1
  <1>8. rest \in [1..size -> Txs]
    BY <1>4, <1>6, <1>7, Zenon
  <1>9. rest \in Seq(Txs) /\ DOMAIN rest = 1..size
    BY <1>3, <1>8
  <1>10. \A k \in 1..size : rest[k] = txs[at(k)]
    BY <1>6, Zenon
  <1>11. Range(rest) = {rest[k] : k \in 1..size}
    BY <1>9, Zenon DEF Range
  <1>12. Range(rest) \subseteq {txs[n] : n \in S}
    BY <1>4, <1>10, <1>11
  <1>13. {txs[n] : n \in S} \subseteq Range(rest)
    BY <1>3, <1>5, <1>10, <1>11
  <1>14. \A j, k \in 1..size : rest[j] = rest[k] => j = k
    BY <1>4, <1>10, Zenon
  <1> QED BY <1>9, <1>12, <1>13, <1>14, Zenon DEF rest

-----------------------------------------------------------------------------
LEMMA Disjoint == Nil \notin Txs /\ EvmTxs \subseteq Txs /\ CosmosTxs \subseteq Txs /\ EvmTxs \cap CosmosTxs = {}
  BY ReapAssumption, Zenon DEF Txs

LEMMA InitEstablishes == Init => IInv
  <1> SUFFICES ASSUME Init PROVE IInv
    BY Zenon
  <1>1. Types
    BY DEF Init, Types, Absent, Reaped
  <1>2. IndexMatchesList
    BY DEF Init, IndexMatchesList, Absent
  <1>3. Pushing /\ Guarded
    BY Zenon DEF Init, Pushing, Guarded
  <1>4. EvmGuardMatchesPool
    BY Disjoint, Zenon DEF Init, EvmGuardMatchesPool, exists
  <1> QED BY <1>1, <1>2, <1>3, <1>4, Zenon DEF IInv

\* push adds one position, for a transaction that had none.
LEMMA PushKeepsIndex ==
  ASSUME Types, IndexMatchesList, NEW t \in Txs, ~exists(t), push(t), UNCHANGED panicked
  PROVE  /\ txs' \in Seq(Txs \cup {Nil}) /\ txIndex' \in [Txs -> Int]
         /\ txIndex'[t] = Len(txs) + 1 /\ Len(txs) \in Nat
         /\ \A u \in Txs : u # t => txIndex'[u] = txIndex[u]
         /\ IndexMatchesList'
  <1>1. txs' = Append(txs, t) /\ txIndex' = [txIndex EXCEPT ![t] = Len(txs) + 1]
    BY Zenon DEF push
  <1>2. txs' \in Seq(Txs \cup {Nil}) /\ Len(txs) \in Nat /\ DOMAIN txs = 1..Len(txs)
        /\ DOMAIN txs' = 1..(Len(txs) + 1) /\ txs'[Len(txs) + 1] = t
        /\ \A n \in 1..Len(txs) : txs'[n] = txs[n]
    BY <1>1 DEF Types
  <1>3. txIndex' \in [Txs -> Int] /\ txIndex'[t] = Len(txs) + 1 /\ \A u \in Txs : u # t => txIndex'[u] = txIndex[u]
    BY <1>1, <1>2 DEF Types
  <1>4. txIndex[t] = 0
    BY Zenon DEF exists, Absent
  <1>5. \A n \in 1..Len(txs) : txs[n] # t
    BY <1>2, <1>4, Disjoint DEF IndexMatchesList
  <1>6. \A u \in Txs : txIndex'[u] > 0 => txIndex'[u] \in DOMAIN txs' /\ txs'[txIndex'[u]] = u
    BY <1>2, <1>3 DEF IndexMatchesList
  <1>7. \A n \in DOMAIN txs' : txs'[n] # Nil => txIndex'[txs'[n]] = n
    <2> SUFFICES ASSUME NEW n \in DOMAIN txs', txs'[n] # Nil PROVE txIndex'[txs'[n]] = n
      BY Zenon
    <2>1. CASE n = Len(txs) + 1
      BY <1>2, <1>3, <2>1, Zenon
    <2>2. CASE n \in 1..Len(txs)
      <3>1. txs'[n] = txs[n] /\ txs[n] \in Txs /\ txs[n] # t
        BY <1>2, <1>5, <2>2 DEF Types
      <3> QED BY <1>2, <1>3, <2>2, <3>1, Zenon DEF IndexMatchesList
    <2> QED BY <1>2, <2>1, <2>2
  <1> QED BY <1>2, <1>3, <1>6, <1>7, Zenon DEF IndexMatchesList

\* drop punches a hole where the transaction was, if it was in the list.
LEMMA DropKeepsIndex ==
  ASSUME Types, IndexMatchesList, NEW t \in Txs, drop(t), UNCHANGED panicked
  PROVE  /\ txs' \in Seq(Txs \cup {Nil}) /\ txIndex' \in [Txs -> Int]
         /\ txIndex'[t] = Absent
         /\ \A u \in Txs : u # t => txIndex'[u] = txIndex[u]
         /\ IndexMatchesList'
  <1>1. txIndex' = [txIndex EXCEPT ![t] = Absent]
    BY Zenon DEF drop
  <1>2. txIndex' \in [Txs -> Int] /\ txIndex'[t] = Absent /\ \A u \in Txs : u # t => txIndex'[u] = txIndex[u]
    BY <1>1 DEF Types, Absent
  <1>3. CASE txIndex[t] \in DOMAIN txs
    <2>1. txs' = [txs EXCEPT ![txIndex[t]] = Nil]
      BY <1>3, Zenon DEF drop
    <2>2. /\ txs' \in Seq(Txs \cup {Nil}) /\ DOMAIN txs' = DOMAIN txs /\ txs'[txIndex[t]] = Nil
          /\ \A n \in DOMAIN txs : n # txIndex[t] => txs'[n] = txs[n]
      BY <1>3, <2>1 DEF Types
    <2>3. DOMAIN txs \subseteq Nat \ {0}
      BY DEF Types
    <2>4. txs[txIndex[t]] = t
      BY <1>3, <2>3 DEF IndexMatchesList
    <2>5. \A u \in Txs : txIndex'[u] > 0 => txIndex'[u] \in DOMAIN txs' /\ txs'[txIndex'[u]] = u
      BY <1>2, <2>2, <2>4 DEF IndexMatchesList, Absent
    <2>6. \A n \in DOMAIN txs' : txs'[n] # Nil => txIndex'[txs'[n]] = n
      <3> SUFFICES ASSUME NEW n \in DOMAIN txs', txs'[n] # Nil PROVE txIndex'[txs'[n]] = n
        BY Zenon
      <3>1. n # txIndex[t] /\ txs'[n] = txs[n] /\ txs[n] \in Txs
        BY <2>2 DEF Types
      <3>2. txIndex[txs[n]] = n
        BY <2>2, <3>1, Zenon DEF IndexMatchesList
      <3> QED BY <1>2, <3>1, <3>2, Zenon
    <2> QED BY <1>2, <2>2, <2>5, <2>6, Zenon DEF IndexMatchesList
  <1>4. CASE txIndex[t] \notin DOMAIN txs
    <2>1. txs' = txs
      BY <1>4, Zenon DEF drop
    <2>2. \A n \in DOMAIN txs : txs[n] # t
      BY <1>4, Disjoint, Zenon DEF IndexMatchesList
    <2>3. \A n \in DOMAIN txs : txs[n] # Nil => txs[n] \in Txs
      BY DEF Types
    <2>4. \A u \in Txs : txIndex'[u] > 0 => txIndex'[u] \in DOMAIN txs /\ txs[txIndex'[u]] = u
      BY <1>2 DEF IndexMatchesList, Absent
    <2>5. \A n \in DOMAIN txs : txs[n] # Nil => txIndex'[txs[n]] = n
      BY <1>2, <2>2, <2>3, Zenon DEF IndexMatchesList
    <2> QED BY <1>2, <2>1, <2>4, <2>5, Zenon DEF IndexMatchesList, Types
  <1> QED BY <1>3, <1>4, Zenon

\* Reap drops no guard, gives none, and moves what stays to the front.
LEMMA ReapMoves ==
  ASSUME Types, IndexMatchesList, NEW nextStart \in 0..Len(txs), reapUpTo(nextStart)
  PROVE  LET result == {txs[n] : n \in kept(1, nextStart)}
         IN  /\ txs' \in Seq(Txs \cup {Nil}) /\ txIndex' \in [Txs -> Int]
             /\ \A t \in Txs : txIndex'[t] >= Reaped /\ (exists(t)' <=> exists(t))
             /\ \A t \in Txs \cap result : txIndex[t] # Reaped /\ txIndex'[t] = Reaped
             /\ \A t \in Txs \ result : txIndex[t] = Reaped => txIndex'[t] = Reaped
             /\ delivered' = [t \in Txs |-> IF t \in result /\ delivered[t] < 2
                                              THEN delivered[t] + 1 ELSE delivered[t]]
             /\ IndexMatchesList'
  <1> DEFINE out == kept(1, nextStart)
             stay == kept(nextStart + 1, Len(txs))
             result == {txs[n] : n \in out}
             rest == compact(stay)
  <1>1. Len(txs) \in Nat /\ DOMAIN txs = 1..Len(txs)
    BY DEF Types
  <1>2. out \subseteq DOMAIN txs /\ stay \subseteq DOMAIN txs /\ \A n \in out \cup stay : txs[n] # Nil
    BY <1>1 DEF kept
  <1>3. \A n \in DOMAIN txs : txs[n] # Nil => n \in out \cup stay
    BY <1>1 DEF kept
  <1>4. \A m \in out, n \in stay : m # n
    BY <1>1 DEF kept
  <1>5. \A n \in out \cup stay : txs[n] \in Txs /\ txIndex[txs[n]] = n
    BY <1>2 DEF Types, IndexMatchesList
  <1> HIDE DEF out, stay
  <1>6. \A m, n \in stay : txs[m] = txs[n] => m = n
    BY <1>5
  <1>7. /\ rest \in Seq(Txs)
        /\ Range(rest) = {txs[n] : n \in stay}
        /\ \A j, k \in DOMAIN rest : rest[j] = rest[k] => j = k
    BY <1>2, <1>6, CompactList, Zenon DEF Types
  <1> HIDE DEF rest
  <1>8. \A t \in result : t \in Txs /\ t \notin Range(rest) /\ txIndex[t] > 0
    BY <1>1, <1>2, <1>4, <1>5, <1>7
  <1>9. \A t \in Range(rest) : t \in Txs /\ txIndex[t] > 0
    BY <1>1, <1>2, <1>5, <1>7
  <1>10. \A t \in Txs : txIndex[t] > 0 => t \in result \cup Range(rest)
    BY <1>2, <1>3, <1>7, Disjoint DEF IndexMatchesList
  <1>11. /\ panicked' = (\E t \in result \cup Range(rest) : ~exists(t))
         /\ ~panicked' => /\ txs' = rest
                          /\ txIndex' = reindex(result, rest)
                          /\ delivered' = [t \in Txs |-> IF t \in result /\ delivered[t] < 2
                                                           THEN delivered[t] + 1 ELSE delivered[t]]
    BY Zenon DEF reapUpTo, out, stay, rest
  <1> HIDE DEF result
  <1>12. \A t \in result \cup Range(rest) : exists(t)
    BY <1>8, <1>9 DEF exists, Absent
  <1>13. ~panicked' /\ txs' = rest /\ txIndex' = reindex(result, rest)
    BY <1>11, <1>12, Zenon
  <1>14. DOMAIN rest \subseteq Nat \ {0} /\ Range(rest) = {rest[k] : k \in DOMAIN rest}
    BY <1>7 DEF Range
  <1>15. ASSUME NEW t \in Range(rest)
         PROVE  txIndex'[t] \in DOMAIN rest /\ rest[txIndex'[t]] = t
    <2>1. txIndex'[t] = CHOOSE n \in DOMAIN rest : rest[n] = t
      BY <1>9, <1>13, Zenon DEF reindex
    <2>2. \E n \in DOMAIN rest : rest[n] = t
      BY <1>14, Zenon
    <2> QED BY <2>1, <2>2, Zenon
  <1>16. \A t \in result : txIndex'[t] = Reaped
    BY <1>8, <1>13, Zenon DEF reindex
  <1>17. \A t \in Txs : t \notin result \cup Range(rest) => txIndex'[t] = txIndex[t]
    BY <1>13, Zenon DEF reindex
  <1>18. ASSUME NEW t \in Txs
         PROVE  /\ txIndex'[t] \in Int /\ txIndex'[t] >= Reaped
                /\ exists(t)' <=> exists(t)
                /\ t \in result => txIndex[t] # Reaped
                /\ txIndex[t] = Reaped => txIndex'[t] = Reaped
                /\ txIndex'[t] > 0 => txIndex'[t] \in DOMAIN rest /\ rest[txIndex'[t]] = t
    <2>1. CASE t \in Range(rest)
      BY <1>8, <1>9, <1>14, <1>15, <2>1 DEF exists, Absent, Reaped
    <2>2. CASE t \in result
      BY <1>8, <1>16, <2>2 DEF exists, Absent, Reaped
    <2>3. CASE t \notin result \cup Range(rest)
      BY <1>10, <1>17, <2>3, Zenon DEF exists, Types
    <2> QED BY <2>1, <2>2, <2>3, Zenon
  <1>19. \A n \in DOMAIN rest : txIndex'[rest[n]] = n
    <2> SUFFICES ASSUME NEW n \in DOMAIN rest PROVE txIndex'[rest[n]] = n
      BY Zenon
    <2>1. rest[n] \in Range(rest)
      BY <1>14, Zenon
    <2>2. txIndex'[rest[n]] \in DOMAIN rest /\ rest[txIndex'[rest[n]]] = rest[n]
      BY Zenon, <1>15, <2>1
    <2> QED BY Zenon, <1>7, <2>2
  <1>20. txIndex' \in [Txs -> Int]
    <2>1. DOMAIN txIndex' = Txs /\ txIndex' = [t \in Txs |-> txIndex'[t]]
      BY <1>13 DEF reindex
    <2> QED BY <1>18, <2>1, Zenon
  <1>21. IndexMatchesList'
    BY <1>13, <1>18, <1>19, Zenon DEF IndexMatchesList
  <1>22. txs' \in Seq(Txs \cup {Nil})
    BY <1>7, <1>13
  <1> QED BY <1>11, <1>13, <1>16, <1>18, <1>20, <1>21, <1>22, Zenon DEF result, out

LEMMA ReapKeeps == ASSUME IInv, NEW maxBytes, NEW maxGas, Reap(maxBytes, maxGas) PROVE IInv'
  <1>1. PICK nextStart \in 0..Len(txs) : reapUpTo(nextStart)
    BY Zenon DEF Reap
  <1> DEFINE result == {txs[n] : n \in kept(1, nextStart)}
  <1>2. /\ txs' \in Seq(Txs \cup {Nil}) /\ txIndex' \in [Txs -> Int]
        /\ \A t \in Txs : txIndex'[t] >= Reaped /\ (exists(t)' <=> exists(t))
        /\ \A t \in Txs \cap result : txIndex[t] # Reaped /\ txIndex'[t] = Reaped
        /\ \A t \in Txs \ result : txIndex[t] = Reaped => txIndex'[t] = Reaped
        /\ delivered' = [t \in Txs |-> IF t \in result /\ delivered[t] < 2
                                         THEN delivered[t] + 1 ELSE delivered[t]]
        /\ IndexMatchesList'
    BY <1>1, ReapMoves, Zenon DEF IInv
  <1> HIDE DEF result
  <1>3. UNCHANGED <<where, pushing, inserted, dropping>>
    BY Zenon DEF Reap
  <1>4. delivered' \in [Txs -> Nat]
    BY <1>2 DEF IInv, Types
  <1>5. Types'
    BY <1>2, <1>3, <1>4, Zenon DEF IInv, Types
  <1>6. Pushing'
    BY <1>2, <1>3, Disjoint, Zenon DEF IInv, Types, Pushing
  <1>7. Guarded'
    BY <1>2 DEF IInv, Types, Guarded
  <1>8. EvmGuardMatchesPool'
    BY <1>2, <1>3, Disjoint, Zenon DEF IInv, EvmGuardMatchesPool
  <1> QED BY <1>2, <1>5, <1>6, <1>7, <1>8, Zenon DEF IInv

\* A push of the transaction that pusher k has found not to exist.
LEMMA PushKeeps ==
  ASSUME IInv, NEW k \in {"evm", "cosmos"}, pushing[k] # Nil, push(pushing[k]),
         pushing' = [pushing EXCEPT ![k] = Nil],
         UNCHANGED <<where, inserted, dropping, delivered, panicked>>
  PROVE  IInv'
  <1> DEFINE t == pushing[k]
  <1>1. t \in Txs /\ ~exists(t)
    BY Disjoint, Zenon DEF IInv, Types, Pushing
  <1>2. /\ txs' \in Seq(Txs \cup {Nil}) /\ txIndex' \in [Txs -> Int]
        /\ txIndex'[t] = Len(txs) + 1 /\ Len(txs) \in Nat
        /\ \A u \in Txs : u # t => txIndex'[u] = txIndex[u]
        /\ IndexMatchesList'
    BY <1>1, PushKeepsIndex, Zenon DEF IInv
  <1>3. pushing'[k] = Nil /\ DOMAIN pushing' = {"evm", "cosmos"}
        /\ \A j \in {"evm", "cosmos"} : j # k => pushing'[j] = pushing[j] /\ pushing[j] # t
    BY <1>1, Disjoint, Zenon DEF IInv, Types
  <1>4. Types'
    <2>1. \A u \in Txs : txIndex'[u] >= Reaped
      <3>1. \A u \in Txs : txIndex[u] >= Reaped
        BY Zenon DEF IInv, Types
      <3>2. txIndex'[t] >= Reaped
        BY <1>2 DEF Reaped
      <3> QED BY Zenon, <1>2, <3>1, <3>2
    <2>2. pushing'["evm"] \in EvmTxs \cup {Nil} /\ pushing'["cosmos"] \in CosmosTxs \cup {Nil}
      BY <1>3, Zenon DEF IInv, Types
    <2> QED BY <1>2, <1>3, <2>1, <2>2, Zenon DEF IInv, Types
  <1>5. Pushing'
    BY <1>2, <1>3, Disjoint, Zenon DEF IInv, Types, Pushing, exists
  <1>6. Guarded'
    BY <1>1, <1>2 DEF IInv, Guarded, exists, Absent, Reaped
  <1>7. EvmGuardMatchesPool'
    <2> SUFFICES ASSUME NEW u \in EvmTxs, pushing'["evm"] # u
                 PROVE  /\ where[u] = "absent" => ~exists(u)'
                        /\ where[u] = "pending" /\ u \notin Unencodable => exists(u)'
      BY Zenon DEF EvmGuardMatchesPool
    <2>1. CASE u = t
      <3>1. k = "evm"
        BY <2>1, Disjoint, Zenon DEF IInv, Types
      <3> QED BY <1>2, <2>1, <3>1 DEF IInv, Pushing, exists, Absent
    <2>2. CASE u # t
      <3>1. pushing["evm"] # u
        BY <1>3, <2>2, Zenon
      <3>2. exists(u)' <=> exists(u)
        BY <1>2, <2>2, Disjoint, Zenon DEF exists
      <3> QED BY <3>1, <3>2, Zenon DEF IInv, EvmGuardMatchesPool
    <2> QED BY <2>1, <2>2, Zenon
  <1> QED BY <1>2, <1>4, <1>5, <1>6, <1>7, Zenon DEF IInv

\* A drop of a transaction, by the hook or by removeCosmosTx.
LEMMA DropKeeps ==
  ASSUME IInv, NEW t \in Txs, drop(t), delivered' = [delivered EXCEPT ![t] = 0],
         UNCHANGED <<pushing, inserted, panicked>>
  PROVE  /\ txs' \in Seq(Txs \cup {Nil}) /\ txIndex' \in [Txs -> Int]
         /\ \A u \in Txs : txIndex'[u] >= Reaped
         /\ delivered' \in [Txs -> Nat]
         /\ ~exists(t)' /\ \A u \in Txs : u # t => (exists(u)' <=> exists(u))
         /\ IndexMatchesList' /\ Guarded'
         /\ \A j \in {"evm", "cosmos"} : pushing'[j] # Nil => ~exists(pushing[j])'
  <1>1. /\ txs' \in Seq(Txs \cup {Nil}) /\ txIndex' \in [Txs -> Int]
        /\ txIndex'[t] = Absent
        /\ \A u \in Txs : u # t => txIndex'[u] = txIndex[u]
        /\ IndexMatchesList'
    BY DropKeepsIndex, Zenon DEF IInv
  <1>2. \A u \in Txs : txIndex'[u] >= Reaped
    <2>1. \A u \in Txs : txIndex[u] >= Reaped
      BY Zenon DEF IInv, Types
    <2>2. txIndex'[t] >= Reaped
      BY <1>1 DEF Reaped, Absent
    <2> QED BY Zenon, <1>1, <2>1, <2>2
  <1>3. delivered' \in [Txs -> Nat] /\ delivered'[t] = 0 /\ \A u \in Txs : u # t => delivered'[u] = delivered[u]
    BY Zenon DEF IInv, Types
  <1>4. Guarded'
    BY <1>1, <1>3, Zenon DEF IInv, Guarded
  <1>5. ~exists(t)' /\ \A u \in Txs : u # t => (exists(u)' <=> exists(u))
    BY <1>1, Zenon DEF exists
  <1>6. \A j \in {"evm", "cosmos"} : pushing[j] # Nil => pushing[j] \in Txs /\ ~exists(pushing[j])
    BY Disjoint, Zenon DEF IInv, Types, Pushing
  <1>7. \A j \in {"evm", "cosmos"} : pushing'[j] # Nil => ~exists(pushing[j])'
    BY <1>5, <1>6, Zenon DEF exists
  <1> QED BY <1>1, <1>2, <1>3, <1>4, <1>5, <1>7, Zenon

-----------------------------------------------------------------------------
\* The EVM pool's hooks

LEMMA EvmPromoteKeeps == ASSUME IInv, NEW t \in EvmTxs, EvmPromote(t) PROVE IInv'
  <1>1. /\ UNCHANGED <<txs, txIndex, inserted, dropping, delivered, panicked>>
        /\ pushing["evm"] = Nil /\ where' = [where EXCEPT ![t] = "pending"]
        /\ pushing' = [pushing EXCEPT !["evm"] = IF exists(t) \/ t \in Unencodable THEN Nil ELSE t]
    BY Zenon DEF EvmPromote, evmUnlocked
  <1>2. /\ where' \in [Txs -> {"absent", "queued", "pending"}] /\ where'[t] = "pending"
        /\ \A u \in Txs : u # t => where'[u] = where[u]
    BY <1>1, Disjoint, Zenon DEF IInv, Types
  <1>3. /\ DOMAIN pushing' = {"evm", "cosmos"} /\ pushing'["cosmos"] = pushing["cosmos"]
        /\ pushing'["evm"] = IF exists(t) \/ t \in Unencodable THEN Nil ELSE t
    BY <1>1, Zenon DEF IInv, Types
  <1>4. \A u : exists(u)' <=> exists(u)
    BY <1>1, Zenon DEF exists
  <1>5. Types'
    BY <1>1, <1>2, <1>3, Zenon DEF IInv, Types
  <1>6. Pushing'
    BY <1>1, <1>2, <1>3, Zenon DEF IInv, Pushing, exists
  <1>7. IndexMatchesList' /\ Guarded'
    BY <1>1, Zenon DEF IInv, IndexMatchesList, Guarded
  <1>8. EvmGuardMatchesPool'
    <2> SUFFICES ASSUME NEW u \in EvmTxs, pushing'["evm"] # u
                 PROVE  /\ where'[u] = "absent" => ~exists(u)
                        /\ where'[u] = "pending" /\ u \notin Unencodable => exists(u)
      BY Zenon, <1>4 DEF EvmGuardMatchesPool
    <2>1. CASE u = t
      BY <1>2, <1>3, <2>1, Zenon
    <2>2. CASE u # t
      <3>1. where'[u] = where[u] /\ pushing["evm"] # u
        BY <1>1, <1>2, <2>2, Disjoint, Zenon
      <3> QED BY Zenon, <3>1 DEF IInv, EvmGuardMatchesPool
    <2> QED BY Zenon, <2>1, <2>2
  <1> QED BY <1>5, <1>6, <1>7, <1>8, Zenon DEF IInv

LEMMA EvmEnqueueKeeps == ASSUME IInv, NEW t \in EvmTxs, EvmEnqueue(t) PROVE IInv'
  <1>1. /\ UNCHANGED <<txs, txIndex, pushing, inserted, dropping, delivered, panicked>>
        /\ pushing["evm"] = Nil /\ where' = [where EXCEPT ![t] = "queued"]
    BY Zenon DEF EvmEnqueue, evmUnlocked
  <1>2. /\ where' \in [Txs -> {"absent", "queued", "pending"}] /\ where'[t] = "queued"
        /\ \A u \in Txs : u # t => where'[u] = where[u]
    BY <1>1, Disjoint, Zenon DEF IInv, Types
  <1>3. Types'
    BY <1>1, <1>2, Zenon DEF IInv, Types
  <1>4. Pushing'
    BY <1>1, Zenon DEF IInv, Pushing, exists
  <1>5. IndexMatchesList' /\ Guarded'
    BY <1>1, Zenon DEF IInv, IndexMatchesList, Guarded
  <1>6. EvmGuardMatchesPool'
    BY <1>1, <1>2, Disjoint, Zenon DEF IInv, EvmGuardMatchesPool, exists
  <1> QED BY <1>3, <1>4, <1>5, <1>6, Zenon DEF IInv

LEMMA EvmRemoveKeeps == ASSUME IInv, NEW t \in EvmTxs, EvmRemove(t) PROVE IInv'
  <1>1. /\ UNCHANGED <<pushing, inserted, dropping, panicked>> /\ drop(t)
        /\ pushing["evm"] = Nil /\ where' = [where EXCEPT ![t] = "absent"]
        /\ delivered' = [delivered EXCEPT ![t] = 0]
    BY Zenon DEF EvmRemove, evmUnlocked
  <1>2. /\ where' \in [Txs -> {"absent", "queued", "pending"}] /\ where'[t] = "absent"
        /\ \A u \in Txs : u # t => where'[u] = where[u]
    BY <1>1, Disjoint, Zenon DEF IInv, Types
  <1>3. /\ txs' \in Seq(Txs \cup {Nil}) /\ txIndex' \in [Txs -> Int]
        /\ \A u \in Txs : txIndex'[u] >= Reaped
        /\ delivered' \in [Txs -> Nat]
        /\ ~exists(t)' /\ \A u \in Txs : u # t => (exists(u)' <=> exists(u))
        /\ IndexMatchesList' /\ Guarded'
        /\ \A j \in {"evm", "cosmos"} : pushing'[j] # Nil => ~exists(pushing[j])'
    BY <1>1, Disjoint, DropKeeps, Zenon
  <1>4. Types'
    BY <1>1, <1>2, <1>3, Zenon DEF IInv, Types
  <1>5. Pushing'
    BY <1>1, <1>3, Zenon DEF Pushing
  <1>6. EvmGuardMatchesPool'
    BY <1>1, <1>2, <1>3, Disjoint, Zenon DEF IInv, EvmGuardMatchesPool
  <1> QED BY <1>3, <1>4, <1>5, <1>6, Zenon DEF IInv

-----------------------------------------------------------------------------
\* The Cosmos pool: its transactions are none of the EVM guard's.

LEMMA CosmosPoolKeeps ==
  ASSUME IInv, NEW t \in CosmosTxs, CosmosInsert(t) \/ CosmosRemove(t) \/ CosmosRecheckRemove(t)
  PROVE  IInv'
  <1>1. /\ UNCHANGED <<txs, txIndex, pushing, delivered, panicked>>
        /\ inserted' \in CosmosTxs \cup {Nil} /\ dropping' \subseteq CosmosTxs
    BY Zenon DEF CosmosInsert, CosmosRemove, CosmosRecheckRemove, IInv, Types
  <1>2. /\ where' \in [Txs -> {"absent", "queued", "pending"}]
        /\ \A u \in Txs : u # t => where'[u] = where[u]
    BY Disjoint, Zenon DEF CosmosInsert, CosmosRemove, CosmosRecheckRemove, IInv, Types
  <1>3. \A u \in EvmTxs : where'[u] = where[u]
    BY <1>2, Disjoint, Zenon
  <1>4. Types'
    BY <1>1, <1>2, Zenon DEF IInv, Types
  <1>5. Pushing'
    BY <1>1, <1>3, Zenon DEF IInv, Types, Pushing, exists
  <1>6. IndexMatchesList' /\ Guarded'
    BY <1>1, Zenon DEF IInv, IndexMatchesList, Guarded
  <1>7. EvmGuardMatchesPool'
    BY <1>1, <1>3, Zenon DEF IInv, EvmGuardMatchesPool, exists
  <1> QED BY <1>4, <1>5, <1>6, <1>7, Zenon DEF IInv

LEMMA CosmosExistsKeeps == ASSUME IInv, CosmosExists PROVE IInv'
  <1>1. /\ UNCHANGED <<txs, txIndex, where, dropping, delivered, panicked>> /\ inserted' = Nil
        /\ inserted \in CosmosTxs
        /\ pushing' = [pushing EXCEPT !["cosmos"] = IF exists(inserted) THEN Nil ELSE inserted]
    BY Zenon DEF CosmosExists, IInv, Types
  <1>2. /\ DOMAIN pushing' = {"evm", "cosmos"} /\ pushing'["evm"] = pushing["evm"]
        /\ pushing'["cosmos"] = IF exists(inserted) THEN Nil ELSE inserted
    BY <1>1, Zenon DEF IInv, Types
  <1>3. Types'
    BY <1>1, <1>2, Zenon DEF IInv, Types
  <1>4. Pushing'
    BY <1>1, <1>2, Zenon DEF IInv, Pushing, exists
  <1>5. IndexMatchesList' /\ Guarded'
    BY <1>1, Zenon DEF IInv, IndexMatchesList, Guarded
  <1>6. EvmGuardMatchesPool'
    BY <1>1, <1>2, Zenon DEF IInv, EvmGuardMatchesPool, exists
  <1> QED BY <1>3, <1>4, <1>5, <1>6, Zenon DEF IInv

LEMMA CosmosDropKeeps == ASSUME IInv, NEW t \in CosmosTxs, CosmosDrop(t) PROVE IInv'
  <1>1. /\ UNCHANGED <<where, pushing, inserted, panicked>> /\ drop(t)
        /\ dropping' = dropping \ {t} /\ delivered' = [delivered EXCEPT ![t] = 0]
    BY Zenon DEF CosmosDrop
  <1>2. /\ txs' \in Seq(Txs \cup {Nil}) /\ txIndex' \in [Txs -> Int]
        /\ \A u \in Txs : txIndex'[u] >= Reaped
        /\ delivered' \in [Txs -> Nat]
        /\ \A u \in Txs : u # t => (exists(u)' <=> exists(u))
        /\ IndexMatchesList' /\ Guarded'
        /\ \A j \in {"evm", "cosmos"} : pushing'[j] # Nil => ~exists(pushing[j])'
    BY <1>1, Disjoint, DropKeeps, Zenon
  <1>3. Types'
    BY <1>1, <1>2, Zenon DEF IInv, Types
  <1>4. Pushing'
    BY <1>1, <1>2, Zenon DEF IInv, Pushing
  <1>5. \A u \in EvmTxs : exists(u)' <=> exists(u)
    BY <1>2, Disjoint, Zenon
  <1>6. EvmGuardMatchesPool'
    BY <1>1, <1>5, Zenon DEF IInv, EvmGuardMatchesPool
  <1> QED BY <1>2, <1>3, <1>4, <1>6, Zenon DEF IInv

LEMMA StepKeeps == IInv /\ [Next]_vars => IInv'
  <1> SUFFICES ASSUME IInv, [Next]_vars PROVE IInv'
    BY Zenon
  <1>1. CASE \E limit \in Limits : Reap(limit[1], limit[2])
    BY <1>1, ReapKeeps, Zenon
  <1>2. CASE \E t \in EvmTxs : EvmPromote(t) \/ EvmEnqueue(t) \/ EvmRemove(t)
    BY <1>2, EvmPromoteKeeps, EvmEnqueueKeeps, EvmRemoveKeeps, Zenon
  <1>3. CASE EvmPush
    BY <1>3, PushKeeps, Zenon DEF EvmPush, evmUnlocked
  <1>4. CASE \E t \in CosmosTxs : CosmosInsert(t) \/ CosmosRemove(t) \/ CosmosDrop(t) \/ CosmosRecheckRemove(t)
    BY <1>4, CosmosPoolKeeps, CosmosDropKeeps, Zenon
  <1>5. CASE CosmosExists
    BY <1>5, CosmosExistsKeeps, Zenon
  <1>6. CASE CosmosPush
    BY <1>6, PushKeeps, Zenon DEF CosmosPush
  <1>7. CASE UNCHANGED vars
    BY <1>7, Zenon DEF vars, IInv, Types, IndexMatchesList, Pushing, Guarded, EvmGuardMatchesPool, exists
  <1> QED BY <1>1, <1>2, <1>3, <1>4, <1>5, <1>6, <1>7, Zenon DEF Next

LEMMA Invariance == Spec => []IInv
  BY InitEstablishes, StepKeeps, PTL DEF Spec

-----------------------------------------------------------------------------
\* The positions of txIndex and the list agree through every push, drop and
\* compaction, so neither panic of Reap is reachable (mempool/reap_list.go:54-119).
THEOREM IndexAlwaysMatches == Spec => []IndexMatchesList
  <1>1. IInv => IndexMatchesList
    BY Zenon DEF IInv
  <1> QED BY <1>1, Invariance, PTL

\* Between two drops of a transaction Reap returns it at most once.
THEOREM GossipedOnce == Spec => []ReapedOnce
  <1>1. IInv => ReapedOnce
    BY DEF IInv, Guarded, ReapedOnce
  <1> QED BY <1>1, Invariance, PTL

\* The hooks keep the guard in step with the EVM pool: what left the pool has no
\* entry, what is pending has one (mempool/krakatoa_mempool.go:224-252).
THEOREM GuardFollowsEvmPool == Spec => []EvmGuardMatchesPool
  <1>1. IInv => EvmGuardMatchesPool
    BY Zenon DEF IInv
  <1> QED BY <1>1, Invariance, PTL
=============================================================================
