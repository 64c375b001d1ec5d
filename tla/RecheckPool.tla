----------------------------- MODULE RecheckPool -----------------------------
(***************************************************************************)
(* The transactions of the Cosmos pool (mempool/recheck_pool.go over the   *)
(* SDK's priority mempool), the post-recheck context of the rechecker, the *)
(* store of the current height, and the reservation table the pool shares  *)
(* with the EVM pool.  Insert takes its reservation before it takes the    *)
(* pool's lock; a recheck holds the lock from its first transaction to its *)
(* last removal; the EVM pool reserves and releases at any moment.         *)
(*                                                                         *)
(* A transaction is [id, sigs] with sigs a sequence of [account, seq]; its *)
(* sender, which keys it in the priority mempool, is the first account.    *)
(* A context is the next sequence of every account.                        *)
(***************************************************************************)
EXTENDS Reserver, FiniteSets

CONSTANTS
  Addrs,       \* accounts
  Txs,         \* Cosmos transactions that may be inserted
  Inserters,   \* goroutines that call Insert
  MaxTx,       \* capacity of the priority mempool
  MaxSeq       \* bound on account sequences

ASSUME TxsAssumption ==
  /\ Txs # {}
  /\ \A tx \in Txs : tx.sigs \in Seq([account : Addrs, seq : 0..(MaxSeq - 1)]) /\ tx.sigs # <<>>
ASSUME BoundsAssumption == MaxTx \in Nat /\ MaxSeq \in Nat

VARIABLES
  accounts,    \* ReservationTracker.accounts
  pool,        \* transactions in ExtMempool
  rechecker,   \* context of the TxRechecker: has one, sequences, what it is based on
  store,       \* CosmosTxStore of the current height
  synced,      \* the current height was started with a fresh context (history)
  chainSeq,    \* sequences in the committed state
  inserter,    \* Insert calls: pc and transaction
  run,         \* the runRecheck goroutine
  evm          \* EVM pool: per account, "no", "adding" or "has" transactions

vars == <<accounts, pool, rechecker, store, synced, chainSeq, inserter, run, evm>>

Cosmos == "cosmos"
Evm == "evm"
Seqs == 0..MaxSeq
NoFailure == MaxSeq + 1

accountsOf(tx) == {tx.sigs[i].account : i \in DOMAIN tx.sigs}
signerAddresses(tx) == [i \in DOMAIN tx.sigs |-> tx.sigs[i].account]
nonce(tx, a) == tx.sigs[CHOOSE i \in DOMAIN tx.sigs : tx.sigs[i].account = a].seq
sender(tx) == tx.sigs[1]

locked == run.pc # "idle"

\* Ante handler (external): every signature carries the next sequence of its
\* account; whatever else it checks may fail as well.
sequencesMatch(seqs, tx) == \A a \in accountsOf(tx) : nonce(tx, a) = seqs[a]
advance(seqs, tx) == [a \in Addrs |-> IF a \in accountsOf(tx) THEN seqs[a] + 1 ELSE seqs[a]]

\* InvalidateFrom: a stored transaction with the same signers and sequences is
\* being replaced, so everything at or after it, per signer, is dropped.
invalidated(tx) ==
  IF \E old \in store : accountsOf(old) = accountsOf(tx)
                        /\ \A a \in accountsOf(tx) : nonce(old, a) = nonce(tx, a)
    THEN {old \in store : \E a \in accountsOf(tx) \cap accountsOf(old) : nonce(old, a) >= nonce(tx, a)}
    ELSE {}

\* markTxInserted: a replacement only drops, a new transaction is added.
markTxInserted(tx) == IF invalidated(tx) # {} THEN store \ invalidated(tx) ELSE store \cup {tx}

Init ==
  /\ accounts = [a \in Addrs |-> NoOwner]
  /\ pool = {} /\ store = {} /\ synced = TRUE
  /\ chainSeq = [a \in Addrs |-> 0]
  /\ rechecker \in {[ready |-> r, seqs |-> chainSeq, base |-> chainSeq] : r \in BOOLEAN}
  /\ inserter = [i \in Inserters |-> [pc |-> "idle", tx |-> CHOOSE tx \in Txs : TRUE]]
  /\ run = [pc |-> "idle", left |-> {}, removeTxs |-> <<>>,
            failedAtSequence |-> [a \in Addrs |-> NoFailure]]
  /\ evm = [a \in Addrs |-> "no"]

-----------------------------------------------------------------------------
\* Insert

InsertHold(i, tx) ==
  /\ inserter[i].pc = "idle"
  /\ LET hold == Hold(accounts, Cosmos, signerAddresses(tx))
     IN /\ accounts' = hold.accounts
        /\ inserter' = [inserter EXCEPT ![i] = [pc |-> IF hold.err THEN "idle" ELSE "held", tx |-> tx]]
  /\ UNCHANGED <<pool, rechecker, store, synced, chainSeq, run, evm>>

\* The rest of Insert, under the lock, up to the insertion in the priority
\* mempool: a transaction with the same sender and sequence is replaced.
freshContext == IF rechecker.ready THEN rechecker
                ELSE [ready |-> TRUE, seqs |-> chainSeq, base |-> chainSeq]

replacedBy(tx) == {old \in pool : sender(old) = sender(tx)}

InsertNoContext(i) ==
  /\ inserter[i].pc = "held" /\ ~locked
  /\ ~rechecker.ready
  /\ inserter' = [inserter EXCEPT ![i].pc = "idle"]
  /\ UNCHANGED <<accounts, pool, rechecker, store, synced, chainSeq, run, evm>>

\* Mutant: the rechecker's context is not advanced past the new transaction.
writeNothing(ctx, tx) == ctx

\* write(): the branched context replaces the rechecker's.
write(ctx, tx) == [ctx EXCEPT !.seqs = advance(@, tx)]

\* Capacity of the priority mempool.
hasRoom == Cardinality(pool) < MaxTx

InsertLocked(i) ==
  /\ inserter[i].pc = "held" /\ ~locked
  /\ LET tx == inserter[i].tx
         ctx == freshContext
     IN \/ \* the ante handler or the priority mempool refuses it
           /\ accounts' = Release(accounts, Cosmos, signerAddresses(tx)).accounts
           /\ rechecker' = ctx
           /\ UNCHANGED <<pool, store>>
        \/ /\ sequencesMatch(ctx.seqs, tx) /\ hasRoom
           /\ pool' = (pool \ replacedBy(tx)) \cup {tx}
           /\ rechecker' = write(ctx, tx)
           /\ store' = markTxInserted(tx)
           /\ UNCHANGED accounts
  /\ inserter' = [inserter EXCEPT ![i].pc = "idle"]
  /\ UNCHANGED <<synced, chainSeq, run, evm>>

\* Remove: after inclusion in a block, or because a proposal found it invalid.
Remove(tx) ==
  /\ ~locked
  /\ tx \in pool
  /\ pool' = pool \ {tx}
  /\ accounts' = Release(accounts, Cosmos, signerAddresses(tx)).accounts
  /\ UNCHANGED <<rechecker, store, synced, chainSeq, inserter, run, evm>>

\* A committed block contains a transaction with the next sequences (external).
Commit(tx) ==
  /\ sequencesMatch(chainSeq, tx)
  /\ \A a \in accountsOf(tx) : chainSeq[a] < MaxSeq
  /\ chainSeq' = advance(chainSeq, tx)
  /\ UNCHANGED <<accounts, pool, rechecker, store, synced, inserter, run, evm>>

-----------------------------------------------------------------------------
\* runRecheck

RunStart ==
  /\ ~locked
  /\ store' = {}
  /\ \/ \* GetLatestContext fails: the rechecker keeps its old context
        /\ synced' = FALSE
        /\ run' = [run EXCEPT !.pc = "end"]
        /\ UNCHANGED rechecker
     \/ /\ synced' = TRUE
        /\ rechecker' = [ready |-> TRUE, seqs |-> chainSeq, base |-> chainSeq]
        /\ run' = [pc |-> "check", left |-> pool, removeTxs |-> <<>>,
                   failedAtSequence |-> [a \in Addrs |-> NoFailure]]
  /\ UNCHANGED <<accounts, pool, chainSeq, inserter, evm>>

\* Cancelled before the next transaction, or before the removals.
RunCancelled ==
  /\ run.pc = "check"
  /\ run' = [run EXCEPT !.pc = "end"]
  /\ UNCHANGED <<accounts, pool, rechecker, store, synced, chainSeq, inserter, evm>>

\* The mempool iterates a sender's transactions in sequence order.
nextTxs == {tx \in run.left : \A other \in run.left :
              sender(other).account = sender(tx).account => sender(tx).seq <= sender(other).seq}

dependsOnFailed(tx) == \E a \in accountsOf(tx) : run.failedAtSequence[a] < nonce(tx, a)

RunPass(tx) ==
  /\ run.pc = "check" /\ tx \in nextTxs
  /\ ~dependsOnFailed(tx)
  /\ sequencesMatch(rechecker.seqs, tx)
  /\ rechecker' = write(rechecker, tx)
  /\ store' = store \cup {tx}
  /\ run' = [run EXCEPT !.left = @ \ {tx}]
  /\ UNCHANGED <<accounts, pool, synced, chainSeq, inserter, evm>>

\* Dependent on a failed transaction, or refused by the ante handler.
RunFail(tx) ==
  /\ run.pc = "check" /\ tx \in nextTxs
  /\ run' = [run EXCEPT
               !.left = @ \ {tx},
               !.removeTxs = Append(@, tx),
               !.failedAtSequence = [a \in Addrs |->
                  IF a \in accountsOf(tx) /\ nonce(tx, a) < @[a] THEN nonce(tx, a) ELSE @[a]]]
  /\ UNCHANGED <<accounts, pool, rechecker, store, synced, chainSeq, inserter, evm>>

RunChecked ==
  /\ run.pc = "check" /\ run.left = {}
  /\ run' = [run EXCEPT !.pc = "remove"]
  /\ UNCHANGED <<accounts, pool, rechecker, store, synced, chainSeq, inserter, evm>>

\* Mutant: the first failed transaction stays in the pool.
RunRemoveSkipsFirst ==
  /\ run.pc = "remove"
  /\ IF Len(run.removeTxs) < 2
       THEN /\ run' = [run EXCEPT !.pc = "idle", !.removeTxs = <<>>]
            /\ UNCHANGED <<pool, accounts>>
       ELSE LET tx == run.removeTxs[2]
            IN /\ pool' = pool \ {tx}
               /\ accounts' = Release(accounts, Cosmos, signerAddresses(tx)).accounts
               /\ run' = [run EXCEPT !.removeTxs = Tail(@)]
  /\ UNCHANGED <<rechecker, store, synced, chainSeq, inserter, evm>>

\* The removals, one release at a time; after the last the lock is released.
RunRemove ==
  /\ run.pc = "remove"
  /\ IF run.removeTxs = <<>>
       THEN run' = [run EXCEPT !.pc = "idle"] /\ UNCHANGED <<pool, accounts>>
       ELSE LET tx == Head(run.removeTxs)
            IN /\ pool' = pool \ {tx}
               /\ accounts' = Release(accounts, Cosmos, signerAddresses(tx)).accounts
               /\ run' = [run EXCEPT !.removeTxs = Tail(@)]
  /\ UNCHANGED <<rechecker, store, synced, chainSeq, inserter, evm>>

RunEnd ==
  /\ run.pc = "end"
  /\ run' = [run EXCEPT !.pc = "idle", !.left = {}, !.removeTxs = <<>>]
  /\ UNCHANGED <<accounts, pool, rechecker, store, synced, chainSeq, inserter, evm>>

-----------------------------------------------------------------------------
\* The EVM pool's use of the same table: LegacyPool.add reserves the sender of
\* a first transaction and gives it back if the transaction is then rejected;
\* removeTx gives it back with the last transaction.

EvmHold(a) ==
  /\ evm[a] = "no"
  /\ LET hold == Hold(accounts, Evm, <<a>>)
     IN /\ ~hold.err
        /\ accounts' = hold.accounts
  /\ evm' = [evm EXCEPT ![a] = "adding"]
  /\ UNCHANGED <<pool, rechecker, store, synced, chainSeq, inserter, run>>

EvmAdd(a) ==
  /\ evm[a] = "adding"
  /\ evm' = [evm EXCEPT ![a] = "has"]
  /\ UNCHANGED <<accounts, pool, rechecker, store, synced, chainSeq, inserter, run>>

EvmRelease(a) ==
  /\ evm[a] \in {"adding", "has"}
  /\ evm' = [evm EXCEPT ![a] = "no"]
  /\ accounts' = Release(accounts, Evm, <<a>>).accounts
  /\ UNCHANGED <<pool, rechecker, store, synced, chainSeq, inserter, run>>

Next ==
  \/ \E i \in Inserters, tx \in Txs : InsertHold(i, tx)
  \/ \E i \in Inserters : InsertNoContext(i) \/ InsertLocked(i)
  \/ \E tx \in Txs : Remove(tx) \/ Commit(tx) \/ RunPass(tx) \/ RunFail(tx)
  \/ RunStart \/ RunCancelled \/ RunChecked \/ RunRemove \/ RunEnd
  \/ \E a \in Addrs : EvmHold(a) \/ EvmAdd(a) \/ EvmRelease(a)

Spec == Init /\ [][Next]_vars

-----------------------------------------------------------------------------
\* The pool, the context, the store and the reservations keep their types.
TypeOK ==
  /\ accounts \in [Addrs -> {NoOwner, Cosmos, Evm}]
  /\ pool \subseteq Txs /\ store \subseteq Txs /\ synced \in BOOLEAN
  /\ Cardinality(pool) <= MaxTx
  /\ chainSeq \in [Addrs -> Seqs]
  /\ rechecker \in [ready : BOOLEAN, seqs : [Addrs -> Seqs], base : [Addrs -> Seqs]]
  /\ inserter \in [Inserters -> [pc : {"idle", "held"}, tx : Txs]]
  /\ run \in [pc : {"idle", "check", "remove", "end"}, left : SUBSET Txs, removeTxs : Seq(Txs),
              failedAtSequence : [Addrs -> 0..NoFailure]]
  /\ evm \in [Addrs -> {"no", "adding", "has"}]

storedSeqs(a) == {nonce(tx, a) : tx \in {t \in store : a \in accountsOf(t)}}

\* The store a proposer reads can be executed: for every account its sequences
\* run without gap or repetition from the state the recheck started with to the
\* state inserts are validated against, however inserts, removals and cancelled
\* rechecks interleave.
StoreExecutable ==
  synced => \A a \in Addrs :
    /\ storedSeqs(a) = rechecker.base[a]..(rechecker.seqs[a] - 1)
    /\ \A t, u \in store : (a \in accountsOf(t) \cap accountsOf(u) /\ nonce(t, a) = nonce(u, a)) => t = u

\* An address with EVM transactions, or one being added, stays reserved to the
\* EVM pool whatever the Cosmos pool inserts, fails or removes.
EvmKeepsReservation == \A a \in Addrs : evm[a] # "no" => accounts[a] = Evm

\* When a recheck completes, the pool holds exactly the transactions that
\* passed: none that failed stays, none that passed is lost.
FullRecheckMatchesPool ==
  [][(run.pc = "remove" /\ run'.pc = "idle") => pool' = store']_vars

\* What ReservationTracker says it ensures: one address cannot initiate
\* transactions in different pools at the same time.
OnePoolPerAddress ==
  \A a \in Addrs : ~(evm[a] = "has" /\ \E tx \in pool : a \in accountsOf(tx))
=============================================================================
