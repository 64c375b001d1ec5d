------------------------------ MODULE ReapList ------------------------------
(***************************************************************************)
(* mempool/reap_list.go with the callers that keep it in step with the two *)
(* pools: the list of transactions to gossip, with nil holes, and the map  *)
(* from hash to position that doubles as the guard against gossiping a     *)
(* transaction twice.  The list's own lock is taken once by exists, push,  *)
(* drop and Reap, so a push is two steps.  EVM pushes and drops happen in  *)
(* the hooks of the EVM pool, under its lock; Cosmos pushes come from the  *)
(* insert queue's goroutine after the pool's lock has been released.       *)
(***************************************************************************)
EXTENDS Integers, Sequences, FiniteSetsExt

CONSTANTS
  EvmTxs, CosmosTxs,
  Unencodable,      \* EVM transactions the encoder fails on
  Bytes, Gas,       \* [Txs -> Nat]: len(tx.bytes) and tx.gas
  Limits,           \* the <<maxBytes, maxGas>> that Reap is called with
  Nil,
  MaxLen            \* bound on len(txs), which the code leaves unbounded

Txs == EvmTxs \cup CosmosTxs
Reaped == -1
Absent == 0         \* not a key of txIndex; positions are counted from 1

ASSUME ReapAssumption ==
  /\ Nil \notin Txs /\ Unencodable \subseteq EvmTxs /\ EvmTxs \cap CosmosTxs = {}
  /\ Bytes \in [Txs -> Nat] /\ Gas \in [Txs -> Nat]
  /\ Limits \subseteq Nat \X Nat /\ MaxLen \in Nat

VARIABLES
  txs, txIndex,     \* the ReapList
  where,            \* per transaction: "absent", "queued" (EVM only) or "pending" in its pool
  pushing,          \* the transaction each pusher has found not to exist, or Nil
  inserted,         \* the Cosmos transaction inserted and not yet handed to PushCosmosTx, or Nil
  dropping,         \* Cosmos transactions removed by removeCosmosTx and not yet dropped
  delivered,        \* per transaction: how often Reap returned it since it was last dropped
  panicked          \* Reap met a transaction without index

list == <<txs, txIndex>>
pools == <<where, inserted, dropping>>
vars == <<txs, txIndex, where, pushing, inserted, dropping, delivered, panicked>>

Init ==
  /\ txs = <<>>
  /\ txIndex = [t \in Txs |-> Absent]
  /\ where = [t \in Txs |-> "absent"]
  /\ pushing = [k \in {"evm", "cosmos"} |-> Nil]
  /\ inserted = Nil
  /\ dropping = {}
  /\ delivered = [t \in Txs |-> 0]
  /\ panicked = FALSE

-----------------------------------------------------------------------------
\* The operations of the list, each under txsLock

\* Mutant: exists looks for a position and forgets the reaped transactions.
existsInList(t) == txIndex[t] > 0

exists(t) == txIndex[t] # Absent

push(t) ==
  /\ txs' = Append(txs, t)
  /\ txIndex' = [txIndex EXCEPT ![t] = Len(txs) + 1]

drop(t) ==
  /\ txIndex' = [txIndex EXCEPT ![t] = Absent]
  /\ txs' = IF txIndex[t] \in DOMAIN txs THEN [txs EXCEPT ![txIndex[t]] = Nil] ELSE txs

\* The positions of transactions among first..last; the others are holes.
kept(first, last) == {n \in first..last : txs[n] # Nil}

total(weight, n) == MapThenSumSet(LAMBDA m : weight[txs[m]], kept(1, n))
within(limit, amount) == limit = 0 \/ amount <= limit

\* How far Reap gets: totals never decrease, so it stops before the first
\* transaction that exceeds a limit.  Holes cost nothing.
stopsAfter(n, maxBytes, maxGas) ==
  /\ within(maxBytes, total(Bytes, n)) /\ within(maxGas, total(Gas, n))
  /\ n = Len(txs) \/ ~within(maxBytes, total(Bytes, n + 1)) \/ ~within(maxGas, total(Gas, n + 1))

\* The list of the transactions at some positions, in order: the k-th is the one
\* with k positions up to its own.
rank(n, positions) == Cardinality({m \in positions : m <= n})
compact(positions) ==
  [k \in 1..Cardinality(positions) |-> txs[CHOOSE n \in positions : rank(n, positions) = k]]

\* Mutant: the index of the transactions that stay is not rebuilt.
reindexReaped(result, rest) ==
  [t \in Txs |-> IF t \in result THEN Reaped ELSE txIndex[t]]

reindex(result, rest) ==
  [t \in Txs |-> IF t \in Range(rest) THEN CHOOSE n \in DOMAIN rest : rest[n] = t
                 ELSE IF t \in result THEN Reaped ELSE txIndex[t]]

\* What the loop does once nextStart is known: result leaves, the rest is
\* compacted and indexed again.
reapUpTo(nextStart) ==
  LET result == {txs[n] : n \in kept(1, nextStart)}
      rest   == compact(kept(nextStart + 1, Len(txs)))
  IN  /\ panicked' = (\E t \in result \cup Range(rest) : ~exists(t))
      /\ IF panicked' THEN UNCHANGED <<txs, txIndex, delivered>>
         ELSE /\ txs' = rest
              /\ txIndex' = reindex(result, rest)
              /\ delivered' = [t \in Txs |-> IF t \in result /\ delivered[t] < 2
                                               THEN delivered[t] + 1 ELSE delivered[t]]

Reap(maxBytes, maxGas) ==
  /\ ~panicked
  /\ \E nextStart \in {n \in 0..Len(txs) : stopsAfter(n, maxBytes, maxGas)} : reapUpTo(nextStart)
  /\ UNCHANGED <<where, pushing, inserted, dropping>>

-----------------------------------------------------------------------------
\* The EVM pool's hooks.  "pushing" # Nil stands for the pool's lock being held
\* between exists and push of one PushEVMTx.

evmUnlocked == pushing["evm"] = Nil

\* markTxPromoted and markTxReplaced: onEVMTxPromoted up to the existence check.
EvmPromote(t) ==
  /\ evmUnlocked /\ where[t] # "pending" /\ Len(txs) < MaxLen
  /\ where' = [where EXCEPT ![t] = "pending"]
  /\ pushing' = [pushing EXCEPT !["evm"] = IF exists(t) \/ t \in Unencodable THEN Nil ELSE t]
  /\ UNCHANGED <<txs, txIndex, inserted, dropping, delivered, panicked>>

EvmPush ==
  /\ ~evmUnlocked
  /\ push(pushing["evm"])
  /\ pushing' = [pushing EXCEPT !["evm"] = Nil]
  /\ UNCHANGED <<where, inserted, dropping, delivered, panicked>>

\* markTxEnqueued, for a new transaction or one demoted from pending.
EvmEnqueue(t) ==
  /\ evmUnlocked /\ where[t] # "queued"
  /\ where' = [where EXCEPT ![t] = "queued"]
  /\ UNCHANGED <<txs, txIndex, pushing, inserted, dropping, delivered, panicked>>

\* Mutant: only transactions that leave the pending set are dropped.
EvmRemovePending(t) ==
  /\ evmUnlocked /\ where[t] # "absent"
  /\ where' = [where EXCEPT ![t] = "absent"]
  /\ IF where[t] = "pending" THEN drop(t) ELSE UNCHANGED list
  /\ delivered' = [delivered EXCEPT ![t] = IF where[t] = "pending" THEN 0 ELSE @]
  /\ UNCHANGED <<pushing, inserted, dropping, panicked>>

\* markTxRemoved: onEVMTxRemoved.
EvmRemove(t) ==
  /\ evmUnlocked /\ where[t] # "absent"
  /\ where' = [where EXCEPT ![t] = "absent"]
  /\ drop(t)
  /\ delivered' = [delivered EXCEPT ![t] = 0]
  /\ UNCHANGED <<pushing, inserted, dropping, panicked>>

-----------------------------------------------------------------------------
\* The Cosmos pool: insertAndReapCosmosTx runs in the one goroutine of the
\* insert queue and pushes with no lock held.

CosmosInsert(t) ==
  /\ inserted = Nil /\ pushing["cosmos"] = Nil /\ where[t] = "absent" /\ Len(txs) < MaxLen
  /\ where' = [where EXCEPT ![t] = "pending"]
  /\ inserted' = t
  /\ UNCHANGED <<txs, txIndex, pushing, dropping, delivered, panicked>>

CosmosExists ==
  /\ inserted # Nil
  /\ pushing' = [pushing EXCEPT !["cosmos"] = IF exists(inserted) THEN Nil ELSE inserted]
  /\ inserted' = Nil
  /\ UNCHANGED <<txs, txIndex, where, dropping, delivered, panicked>>

CosmosPush ==
  /\ pushing["cosmos"] # Nil
  /\ push(pushing["cosmos"])
  /\ pushing' = [pushing EXCEPT !["cosmos"] = Nil]
  /\ UNCHANGED <<where, inserted, dropping, delivered, panicked>>

\* removeCosmosTx: the pool's removal, then the drop.
CosmosRemove(t) ==
  /\ where[t] = "pending"
  /\ where' = [where EXCEPT ![t] = "absent"]
  /\ dropping' = dropping \cup {t}
  /\ UNCHANGED <<txs, txIndex, pushing, inserted, delivered, panicked>>

CosmosDrop(t) ==
  /\ t \in dropping
  /\ drop(t)
  /\ dropping' = dropping \ {t}
  /\ delivered' = [delivered EXCEPT ![t] = 0]
  /\ UNCHANGED <<where, pushing, inserted, panicked>>

\* runRecheck removes a transaction that became invalid from the pool only.
CosmosRecheckRemove(t) ==
  /\ where[t] = "pending"
  /\ where' = [where EXCEPT ![t] = "absent"]
  /\ UNCHANGED <<txs, txIndex, pushing, inserted, dropping, delivered, panicked>>

Next ==
  \/ \E limit \in Limits : Reap(limit[1], limit[2])
  \/ \E t \in EvmTxs : EvmPromote(t) \/ EvmEnqueue(t) \/ EvmRemove(t)
  \/ EvmPush
  \/ \E t \in CosmosTxs : CosmosInsert(t) \/ CosmosRemove(t) \/ CosmosDrop(t) \/ CosmosRecheckRemove(t)
  \/ CosmosExists \/ CosmosPush

Spec == Init /\ [][Next]_vars

-----------------------------------------------------------------------------
\* Every position in txIndex is where the transaction is, and every transaction
\* in the list has its position in txIndex.  Reap compacts and renumbers, drops
\* punch holes and pushes happen after an earlier existence check, and still no
\* transaction is in the list twice and neither of Reap's panics ("this should
\* not happen") is reachable.
IndexMatchesList ==
  /\ ~panicked
  /\ \A t \in Txs : txIndex[t] > 0 => txIndex[t] \in DOMAIN txs /\ txs[txIndex[t]] = t
  /\ \A n \in DOMAIN txs : txs[n] # Nil => txIndex[txs[n]] = n

\* A transaction is gossiped at most once until it is explicitly dropped, however
\* often it is promoted, demoted or inserted in between.
ReapedOnce == \A t \in Txs : delivered[t] <= 1

\* The hooks keep the guard in step with the EVM pool: a transaction that left
\* the pool can be gossiped again, and a pending one has been handed to Reap.
EvmGuardMatchesPool ==
  \A t \in EvmTxs : pushing["evm"] # t =>
    /\ where[t] = "absent" => ~exists(t)
    /\ where[t] = "pending" /\ t \notin Unencodable => exists(t)

\* What onEVMTxRemoved says of a transaction that is no longer in the mempool,
\* asked of the Cosmos pool: its entry and its guard are gone from the reap list.
CosmosGuardMatchesPool ==
  \A t \in CosmosTxs :
    where[t] = "absent" /\ inserted # t /\ pushing["cosmos"] # t /\ t \notin dropping => ~exists(t)
=============================================================================
