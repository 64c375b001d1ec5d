----------------------------- MODULE LegacyPool -----------------------------
(***************************************************************************)
(* mempool/txpool/legacypool: the contents of the EVM pool.  Every         *)
(* operation that changes them holds pool.mu from beginning to end, so     *)
(* each is one action; what runs outside the lock is the order in which    *)
(* they come.  The state of one account is a record and the code's helpers *)
(* are operators from such a record to the next one.  Nonce-sorted lists   *)
(* are sets of transactions.  The price heaps are left out: which          *)
(* transactions they give up, and whether a new one is underpriced, is any *)
(* choice.  Transactions take one slot and have one price, which is also   *)
(* their cost.                                                             *)
(***************************************************************************)
EXTENDS Integers, FiniteSets, FiniteSetsExt

CONSTANTS
  Addrs,
  Txs,          \* records [from, nonce, price]
  Delegated,    \* accounts with code (EIP-7702)
  ChainStates,  \* nonce and balance of every account, at the heads of the chain
  PriceBump, AccountSlots, GlobalSlots, AccountQueue, GlobalQueue,
  MaxFails      \* bound on the transactions one run finds invalid by rechecking

ASSUME PoolAssumption ==
  /\ Txs \subseteq [from : Addrs, nonce : Nat, price : Nat] /\ IsFiniteSet(Txs)
  /\ Delegated \subseteq Addrs
  /\ ChainStates \subseteq [Addrs -> [nonce : Nat, balance : Nat]]
  /\ {PriceBump, AccountSlots, GlobalSlots, AccountQueue, GlobalQueue} \subseteq Nat \ {0}

VARIABLES
  pool,        \* per account: pending, queue, all, nonce (pendingNonces), store
               \* (validPendingTxs) and owner (the reservation table)
  state,       \* currentState: nonce and balance per account
  dirty        \* accounts whose promotion has been requested

vars == <<pool, state, dirty>>

-----------------------------------------------------------------------------
\* list.go

nonceOf(list) == {t.nonce : t \in list}
at(list, nonce) == {t \in list : t.nonce = nonce}
below(list, bounds) == {t \in list : \A b \in bounds : t.nonce < b.nonce}

\* list.Add: a transaction is replaced by one that pays PriceBump percent more.
bumps(old, tx) == old.price < tx.price /\ (old.price * (100 + PriceBump)) \div 100 <= tx.price
accepts(list, tx) == \A old \in at(list, tx.nonce) : bumps(old, tx)
replacedBy(list, txs) == {old \in list : \E t \in txs : t.nonce = old.nonce}

forward(list, nonce) == {t \in list : t.nonce < nonce}
costFilter(list, balance) == {t \in list : t.price > balance}

\* filterInvalids: in a strict list, what follows a removed transaction.
filterInvalids(list, removed) == {t \in list \ removed : \E r \in removed : r.nonce < t.nonce}

\* Ready: the run of consecutive nonces from the lowest, if that is not above start.
ready(list, start) ==
  {t \in list : \E first \in list :
     /\ first.nonce <= start /\ \A u \in list : first.nonce <= u.nonce
     /\ \A n \in first.nonce..t.nonce : n \in nonceOf(list)}

\* Cap: what exceeds the limit, highest nonces first.
cap(list, limit) == {t \in list : Cardinality({u \in list : u.nonce <= t.nonce}) > limit}

lastNonce(list) == CHOOSE n \in nonceOf(list) : \A m \in nonceOf(list) : m <= n

\* noncer.setIfLower
lower(a, b) == IF a <= b THEN a ELSE b

-----------------------------------------------------------------------------
\* Operations on one account

empty(p) == p.pending = {} /\ p.queue = {}

\* Reserver.Release of this pool for one address.
release(p) == IF p.owner = "evm" THEN [p EXCEPT !.owner = "none"] ELSE p

\* enqueueTx with addAll FALSE, for several transactions of different nonces: a
\* queued transaction that pays more stays, and the other one is not queued.
enqueueAll(p, txs) ==
  LET in == {t \in txs : accepts(p.queue, t)}
      old == replacedBy(p.queue, in)
  IN [p EXCEPT !.queue = (@ \ old) \cup in, !.all = @ \ old]

\* promoteTx for the transactions Ready returned, in ascending order of nonce.
promoteAll(p, txs) ==
  LET in == {t \in txs : accepts(p.pending, t)}
      old == replacedBy(p.pending, in)
  IN [p EXCEPT !.pending = (@ \ old) \cup in,
               !.all = (@ \ old) \ (txs \ in),
               !.nonce = IF in = {} THEN @ ELSE lastNonce(in) + 1,
               !.store = below(@, old) \cup in]

\* Mutant: the transactions behind a removed one are not put back in the queue.
removeForgets(p, txs) ==
  LET hit == replacedBy(p.pending, txs)
  IN [p EXCEPT !.pending = below(@, hit), !.queue = @ \ replacedBy(@, txs), !.all = @ \ txs,
               !.nonce = IF hit = {} THEN @ ELSE lower(@, CHOOSE n \in nonceOf(hit) : \A m \in nonceOf(hit) : n <= m),
               !.store = below(@, hit)]

\* removeTx for each of some pooled transactions, in any order: lists remove by
\* nonce, and what a pending transaction leaves behind is queued again.
removeTxs(p, txs) ==
  LET hit == replacedBy(p.pending, txs)
      kept == below(p.pending, hit)
      q == [p EXCEPT !.pending = kept, !.queue = @ \ replacedBy(@, txs), !.all = @ \ txs,
                     !.nonce = IF hit = {} THEN @
                               ELSE lower(@, CHOOSE n \in nonceOf(hit) : \A m \in nonceOf(hit) : n <= m),
                     !.store = below(@, hit)]
  IN enqueueAll(q, p.pending \ (kept \cup hit))

\* Mutant: unreserve is ignored.
removeKeepsHold(p, txs) == removeTxs(p, txs)

\* removeTx with unreserve.
removeAndRelease(p, txs) ==
  LET q == removeTxs(p, txs) IN IF txs # {} /\ empty(q) THEN release(q) ELSE q

\* The part of promoteExecutables that concerns one account.
promote(p, st, fails) ==
  LET old    == forward(p.queue, st.nonce)
      costly == costFilter(p.queue \ old, st.balance)
      failed == (p.queue \ (old \cup costly)) \cap fails
      list   == p.queue \ (old \cup costly \cup failed)
      go     == ready(list, p.nonce)
      over   == cap(list \ go, AccountQueue)
      q      == promoteAll([p EXCEPT !.queue = (list \ go) \ over,
                                     !.all = @ \ (old \cup costly \cup failed \cup over)], go)
  IN IF p.queue = {} THEN p ELSE IF empty(q) THEN release(q) ELSE q

\* Mutant: the transactions behind a failed one stay pending.
demoteKeepsInvalids(p, st, fails) ==
  LET gone == forward(p.pending, st.nonce) \cup costFilter(p.pending, st.balance) \cup (p.pending \cap fails)
      rest == p.pending \ gone
      q    == [p EXCEPT !.pending = rest, !.all = @ \ gone, !.store = below(@, gone) \cup rest]
  IN IF empty(q) THEN release(q) ELSE q

\* The part of demoteUnexecutables that concerns one account.
demote(p, st, fails) ==
  LET old      == forward(p.pending, st.nonce)
      payable  == p.pending \ old
      costly   == costFilter(payable, st.balance)
      invalid1 == filterInvalids(payable, costly)
      checked  == payable \ (costly \cup invalid1)
      failed   == checked \cap fails
      invalid2 == filterInvalids(checked, failed)
      valid    == checked \ (failed \cup invalid2)
      gapped   == IF st.nonce \in nonceOf(valid) THEN {} ELSE valid
      rest     == valid \ gapped
      gone     == old \cup costly \cup failed
      q        == enqueueAll([p EXCEPT !.pending = rest, !.all = @ \ gone, !.store = below(@, gone) \cup rest],
                             invalid1 \cup invalid2 \cup gapped)
  IN IF p.pending = {} THEN p ELSE IF empty(q) THEN release(q) ELSE q

-----------------------------------------------------------------------------
\* Limits over all accounts

count(lists) == MapThenSumSet(LAMBDA a : Cardinality(lists[a]), Addrs)
pendingOf(pl) == [a \in Addrs |-> pl[a].pending]
queueOf(pl) == [a \in Addrs |-> pl[a].queue]
allOf(pl) == UNION {pl[a].all : a \in Addrs}

capPending(p, keep) ==
  LET drops == cap(p.pending, keep)
  IN [p EXCEPT !.pending = @ \ drops, !.all = @ \ drops, !.store = below(@, drops),
               !.nonce = IF drops = {} THEN @
                         ELSE lower(@, CHOOSE n \in nonceOf(drops) : \A m \in nonceOf(drops) : n <= m)]

\* truncatePending levels the longest lists, all of them by one transaction a
\* round, until the total fits or none is above its allowance.
truncatePending(pl) ==
  LET total(c) == MapThenSumSet(LAMBDA a : lower(Cardinality(pl[a].pending), c), Addrs)
      levels == {c \in AccountSlots..Cardinality(Txs) : total(c) <= GlobalSlots}
      level == IF levels = {} THEN AccountSlots ELSE Max(levels)
  IN IF count(pendingOf(pl)) <= GlobalSlots THEN pl
     ELSE [a \in Addrs |-> capPending(pl[a], level)]

\* truncateQueue: whole queues in the order of the heartbeats, then the last
\* transactions of one more.
truncateQueue(pl) ==
  LET len == [a \in Addrs |-> Cardinality(pl[a].queue)]
      keeps == {k \in [Addrs -> 0..Cardinality(Txs)] :
                  /\ \A a \in Addrs : k[a] <= len[a]
                  /\ MapThenSumSet(LAMBDA a : k[a], Addrs) = GlobalQueue
                  /\ Cardinality({a \in Addrs : k[a] \notin {0, len[a]}}) <= 1}
  IN IF count(queueOf(pl)) <= GlobalQueue THEN {pl}
     ELSE {[a \in Addrs |-> removeAndRelease(pl[a], cap(pl[a].queue, k[a]))] : k \in keeps}

-----------------------------------------------------------------------------
\* The pool starts empty, on some state of the chain.
Init ==
  /\ state \in {st \in ChainStates : \A a \in Addrs : st[a].nonce = 0}
  /\ pool = [a \in Addrs |-> [pending |-> {}, queue |-> {}, all |-> {}, store |-> {}, nonce |-> 0, owner |-> "none"]]
  /\ dirty = {}

\* Mutant: the first transaction may have any nonce.
delegationAnyFirst(p, tx) == tx.from \in Delegated => p.pending = {} \/ tx.nonce \in nonceOf(p.pending)

\* checkDelegationLimit
delegationAllows(p, tx) ==
  \/ tx.from \notin Delegated
  \/ p.pending = {} /\ p.nonce = tx.nonce
  \/ tx.nonce \in nonceOf(p.pending)

spent(list) == MapThenSumSet(LAMBDA t : t.price, list)

validateTx(p, st, tx) ==
  /\ st.nonce <= tx.nonce /\ tx.price <= st.balance
  /\ spent(p.pending \ at(p.pending, tx.nonce)) + tx.price <= st.balance
  /\ delegationAllows(p, tx)

isGapped(p, tx) == p.nonce < tx.nonce /\ \E n \in p.nonce..(tx.nonce - 1) : n \notin nonceOf(p.queue)

\* What is left of add once there is room: the pending list if it has the nonce,
\* else the queue, if the price is right.
insertable(p, tx) == IF tx.nonce \in nonceOf(p.pending) THEN accepts(p.pending, tx) ELSE accepts(p.queue, tx)

\* Mutant: the store keeps the transaction that was replaced.
insertedKeepsStore(p, tx) ==
  LET old == at(p.pending, tx.nonce)
      oldQ == at(p.queue, tx.nonce)
  IN IF old # {}
       THEN [p EXCEPT !.pending = (@ \ old) \cup {tx}, !.all = (@ \ old) \cup {tx}]
       ELSE [p EXCEPT !.queue = (@ \ oldQ) \cup {tx}, !.all = (@ \ oldQ) \cup {tx}]

inserted(p, tx) ==
  LET old == at(p.pending, tx.nonce)
      oldQ == at(p.queue, tx.nonce)
  IN IF old # {}
       THEN [p EXCEPT !.pending = (@ \ old) \cup {tx}, !.all = (@ \ old) \cup {tx}, !.store = below(@, old)]
       ELSE [p EXCEPT !.queue = (@ \ oldQ) \cup {tx}, !.all = (@ \ oldQ) \cup {tx}]

\* Add of one transaction.  An add that is rejected before it drops anything
\* changes nothing and is not an action.
Add(tx, drop) ==
  LET p == pool[tx.from]
      held == IF empty(p) THEN [p EXCEPT !.owner = "evm"] ELSE p
      room == GlobalSlots + GlobalQueue - Cardinality(allOf(pool))
      after == [a \in Addrs |-> IF a = tx.from THEN removeTxs(held, drop \cap held.all)
                                ELSE removeAndRelease(pool[a], drop \cap pool[a].all)]
      q == after[tx.from]
  IN /\ tx \notin p.all /\ validateTx(p, state[tx.from], tx)
     /\ empty(p) => p.owner # "other"
     /\ drop \subseteq allOf(pool) /\ Cardinality(drop) = IF room >= 1 THEN 0 ELSE 1 - room
     /\ isGapped(p, tx) => \A t \in drop : t \notin pool[t.from].pending
     /\ IF insertable(q, tx)
          THEN /\ pool' = [after EXCEPT ![tx.from] = inserted(q, tx)]
               /\ dirty' = IF at(q.pending \cup q.queue, tx.nonce) = {} THEN dirty \cup {tx.from} ELSE dirty
          ELSE drop # {} /\ pool' = after /\ UNCHANGED dirty
     /\ UNCHANGED state

\* RemoveTx, SetGasTip and the eviction of idle accounts all call removeTx.
RemoveTx(tx) ==
  /\ tx \in pool[tx.from].all
  /\ pool' = [pool EXCEPT ![tx.from] = removeAndRelease(@, {tx})]
  /\ UNCHANGED <<state, dirty>>

SetGasTip(tip) ==
  LET drop == {t \in allOf(pool) : t.price < tip}
  IN /\ drop # {}
     /\ pool' = [a \in Addrs |-> removeAndRelease(pool[a], drop \cap pool[a].all)]
     /\ UNCHANGED <<state, dirty>>

Evict(a) ==
  /\ pool[a].queue # {}
  /\ pool' = [pool EXCEPT ![a] = removeAndRelease(@, pool[a].queue)]
  /\ UNCHANGED <<state, dirty>>

\* runReorg for requests to promote; those that come after it was launched wait.
RunPromote(accounts, fails) ==
  LET promoted == [a \in Addrs |-> IF a \in accounts THEN promote(pool[a], state[a], fails) ELSE pool[a]]
  IN /\ accounts \subseteq dirty
     /\ pool' \in truncateQueue(truncatePending(promoted))
     /\ dirty' = dirty \ accounts /\ UNCHANGED state

\* resetInternalState: a new noncer, and a new height starts with an empty store.
resetInternalState(pl, st) == [a \in Addrs |-> [pl[a] EXCEPT !.nonce = st[a].nonce, !.store = {}]]

\* Mutant: every account falls back to the state's nonce.
nextNoncesState(pl, st) == [a \in Addrs |-> [pl[a] EXCEPT !.nonce = st[a].nonce]]

\* The end of a reset: the nonce after the last pending one, else the state's.
nextNonces(pl, st) ==
  [a \in Addrs |-> [pl[a] EXCEPT !.nonce = IF pl[a].pending = {} THEN st[a].nonce ELSE lastNonce(pl[a].pending) + 1]]

\* runReorg for a new head.  A cancelled run has reached any of the accounts, and
\* if it was cut short while promoting it demotes nothing.  If StateAt fails the
\* run goes on with the old state, the old nonces and the old store.
RunReset(pl, st, accounts, promoteAccounts, demoteAccounts, fails) ==
  LET promoted == [a \in Addrs |-> IF a \in promoteAccounts THEN promote(pl[a], st[a], fails) ELSE pl[a]]
      demoted  == [a \in Addrs |-> IF a \in demoteAccounts THEN demote(promoted[a], st[a], fails) ELSE promoted[a]]
  IN /\ pl = resetInternalState(pool, st) \/ (pl = pool /\ st = state)
     /\ \A a \in Addrs : state[a].nonce <= st[a].nonce
     /\ promoteAccounts # {a \in Addrs : pool[a].queue # {}} => demoteAccounts = {}
     /\ demoteAccounts \subseteq {a \in Addrs : promoted[a].pending # {}}
     /\ pool' \in truncateQueue(truncatePending(nextNonces(demoted, st)))
     /\ state' = st
     /\ accounts \subseteq dirty /\ dirty' = dirty \ accounts

\* The Cosmos pool, which shares the reservation table.
OtherHold(a) ==
  /\ pool[a].owner = "none"
  /\ pool' = [pool EXCEPT ![a].owner = "other"] /\ UNCHANGED <<state, dirty>>

OtherRelease(a) ==
  /\ pool[a].owner = "other"
  /\ pool' = [pool EXCEPT ![a].owner = "none"] /\ UNCHANGED <<state, dirty>>

Failing == UNION {kSubset(k, allOf(pool)) : k \in 0..MaxFails}

AddStep == \E tx \in Txs, drop \in {{}} \cup kSubset(1, allOf(pool)) : Add(tx, drop)
PromoteStep == \E accounts \in SUBSET dirty, fails \in Failing : RunPromote(accounts, fails)
ResetStep ==
  \E st \in ChainStates, accounts \in SUBSET dirty, fails \in Failing :
    \E pl \in {pool, resetInternalState(pool, st)}, p \in SUBSET {a \in Addrs : pool[a].queue # {}}, 
          d \in SUBSET {a \in Addrs : ~empty(pool[a])} :
      RunReset(pl, st, accounts, p, d, fails)

Next ==
  \/ AddStep
  \/ \E tx \in Txs : RemoveTx(tx)
  \/ \E tx \in Txs : SetGasTip(tx.price)
  \/ \E a \in Addrs : Evict(a) \/ OtherHold(a) \/ OtherRelease(a)
  \/ PromoteStep
  \/ ResetStep

Spec == Init /\ [][Next]_vars

-----------------------------------------------------------------------------
\* Types of the maps of LegacyPool.  A transaction is filed under its sender.
TypeOK ==
  /\ state \in ChainStates
  /\ dirty \subseteq Addrs
  /\ \A a \in Addrs :
       /\ pool[a].nonce \in Nat /\ pool[a].owner \in {"none", "evm", "other"}
       /\ \A list \in {pool[a].pending, pool[a].queue, pool[a].all, pool[a].store} : list \subseteq {t \in Txs : t.from = a}

\* What validatePoolInternals asserts in the tests, for all interleavings: the
\* lookup holds what the two lists hold; and no nonce of an account is held twice,
\* so that the errors of enqueueTx and promoteTx that runs ignore never happen.
AllIsPendingPlusQueue ==
  \A a \in Addrs :
    /\ pool[a].all = pool[a].pending \cup pool[a].queue
    /\ \A t, u \in pool[a].all : t.nonce = u.nonce => t = u
    /\ pool[a].pending \cap pool[a].queue = {}

\* validatePoolInternals asserts that the next nonce of an account follows its last
\* pending transaction.  After a reset that was cancelled this is off while all that
\* is pending was mined already, and then the nonce is not above the state's.
LivePendingNonceMatches ==
  \A a \in Addrs :
    LET live == {t \in pool[a].pending : t.nonce >= state[a].nonce}
    IN IF live # {} THEN pool[a].nonce = lastNonce(live) + 1 ELSE pool[a].nonce <= state[a].nonce

\* Pending lists have no holes, and "a gap in front (should never happen)" in
\* demoteUnexecutables does not happen.
PendingNeverGapped ==
  \A a \in Addrs : \A t \in pool[a].pending : \A n \in state[a].nonce..t.nonce : n \in nonceOf(pool[a].pending)

\* The pool holds the reservation of exactly the senders it has transactions of:
\* a release in the middle of add would let the Cosmos pool take the sender.
ReservationMatches == \A a \in Addrs : pool[a].owner = "evm" <=> ~empty(pool[a])

\* Only transactions that are pending are offered to a proposal.
StoreWithinPending == \A a \in Addrs : pool[a].store \subseteq pool[a].pending

\* checkDelegationLimit: at most one in-flight executable transaction.
DelegatedOneInFlight ==
  \A a \in Delegated : Cardinality({t \in pool[a].all : t.nonce >= state[a].nonce}) <= 1
=============================================================================
