-------------------------- MODULE LegacyPoolProofs --------------------------
(***************************************************************************)
(* The contents of the EVM pool, for every finite set of transactions and  *)
(* every set of accounts, states of the chain and limits.                  *)
(*                                                                         *)
(* The invariant IInv is one of single accounts.  Lists: the lookup is the *)
(* disjoint union of the pending and the queued list, and no nonce occurs  *)
(* twice.  Runs: the pending nonces that the state has not used are those  *)
(* from the state's nonce to below the next nonce; it says both that there *)
(* is no gap and that the next nonce follows the last pending one, and     *)
(* neither is inductive without the other.  Held: the reservation.         *)
(* OneAhead: a delegated account has nothing beyond its next nonce.        *)
(*                                                                         *)
(* Each helper of the code has a lemma that says what it keeps.  Because   *)
(* no nonce occurs twice, promoteTx and enqueueTx never replace anything   *)
(* when transactions move between lists.  In a run for a new head the next *)
(* nonces are first set back to the state's, and only Lists and Gapless    *)
(* hold until nextNonces.                                                  *)
(*                                                                         *)
(* A leaf that needs no arithmetic names Zenon.                            *)
(***************************************************************************)
EXTENDS LegacyPool, FiniteSetTheorems, WellFoundedInduction, TLAPS

\* A nonempty set of naturals has a least element.
LEMMA Least ==
  ASSUME NEW S, S \subseteq Nat, S # {}
  PROVE  \E n \in S : \A m \in S : n <= m
  <1> DEFINE R == OpToRel(<, Nat)
  <1>1. IsWellFoundedOn(R, Nat)
    BY NatLessThanWellFounded, Zenon
  <1> HIDE DEF R
  <1>2. PICK n \in S : \A m \in S : ~(<<m, n>> \in R)
    BY <1>1, WFMin, Zenon
  <1>3. \A m \in S : m < n => <<m, n>> \in R
    BY Zenon DEF R, OpToRel
  <1>4. \A m \in S : m \in Nat /\ n \in Nat /\ ~(m < n)
    BY <1>2, <1>3, Zenon
  <1>5. \A m \in S : n <= m
    BY <1>4
  <1> QED BY <1>5, Zenon

\* A nonempty finite set of naturals has a greatest element.
LEMMA Greatest ==
  ASSUME NEW S, S \subseteq Nat, S # {}, IsFiniteSet(S)
  PROVE  \E n \in S : \A m \in S : m <= n
  <1> DEFINE above(x) == {u \in S : x < u}
             counts == {Cardinality(above(x)) : x \in S}
  <1>1. \A x \in S : IsFiniteSet(above(x)) /\ Cardinality(above(x)) \in Nat
    BY FS_Subset, FS_CardinalityType, Zenon
  <1>2. PICK n \in S : \A x \in S : Cardinality(above(n)) <= Cardinality(above(x))
    <2>1. counts \subseteq Nat /\ counts # {}
      BY <1>1, Zenon
    <2>2. PICK c \in counts : \A d \in counts : c <= d
      BY <2>1, Least, Zenon
    <2>3. PICK n \in S : c = Cardinality(above(n))
      BY Zenon
    <2>4. \A x \in S : Cardinality(above(x)) \in counts
      BY Zenon
    <2> QED BY <2>2, <2>3, <2>4, Zenon
  <1> HIDE DEF counts
  <1>3. ASSUME NEW m \in S, n < m PROVE FALSE
    <2>1. /\ \A u \in S : n \in Nat /\ m \in Nat /\ u \in Nat /\ (m < u => n < u) /\ ~(m < m)
          /\ n < m
      BY <1>3
    <2>2. above(m) \in SUBSET above(n) /\ m \in above(n) /\ m \notin above(m)
      BY <2>1, Zenon
    <2> HIDE DEF above
    <2>3. Cardinality(above(m)) <= Cardinality(above(n)) /\ Cardinality(above(m)) # Cardinality(above(n))
      BY <2>2, <1>1, FS_Subset, Zenon
    <2> QED BY <2>3, <1>1, <1>2
  <1>4. \A m \in S : m \in Nat /\ n \in Nat /\ ~(n < m)
    BY <1>3, Zenon
  <1> QED BY <1>4

-----------------------------------------------------------------------------
\* The inductive invariant, of one account p whose nonce in the state is n

Account == [pending : SUBSET Txs, queue : SUBSET Txs, all : SUBSET Txs, store : SUBSET Txs,
            nonce : Nat, owner : {"none", "evm", "other"}]

Lists(p) ==
  /\ p \in Account
  /\ p.all = p.pending \cup p.queue /\ p.pending \cap p.queue = {}
  /\ \A t, u \in p.all : t.nonce = u.nonce => t = u
  /\ p.store \subseteq p.pending

\* Pending nonces from n on are the ones below the next nonce.
Runs(p, n) == \A m \in Nat : m >= n => (m \in nonceOf(p.pending) <=> m < p.nonce)

Gapless(p, n) == \A t \in p.pending : \A m \in n..t.nonce : m \in nonceOf(p.pending)

Held(p) == p.owner = "evm" <=> ~empty(p)

\* Executable transactions of a delegated account are next.
OneAhead(p, n) == \A t \in p.all : t.nonce <= n

AccountInv(p, a, n) ==
  /\ Lists(p) /\ Runs(p, n) /\ Held(p)
  /\ \A t \in p.all : t.from = a
  /\ a \in Delegated => OneAhead(p, n)

PoolInv(pl, st) == pl \in [Addrs -> Account] /\ \A a \in Addrs : AccountInv(pl[a], a, st[a].nonce)

IInv == state \in ChainStates /\ dirty \subseteq Addrs /\ PoolInv(pool, state)

LEMMA TxTypes == \A t \in Txs : t.from \in Addrs /\ t.nonce \in Nat /\ t.price \in Nat
  BY PoolAssumption, Zenon

LEMMA StateTypes == ASSUME NEW st \in ChainStates, NEW a \in Addrs PROVE st[a].nonce \in Nat
  BY PoolAssumption, Zenon

\* The least nonce of a list, as removeTx and truncatePending use it.
LEMMA LeastNonce ==
  ASSUME NEW list \in SUBSET Txs, list # {}
  PROVE  LET least == CHOOSE n \in nonceOf(list) : \A m \in nonceOf(list) : n <= m
         IN  /\ least \in Nat /\ least \in nonceOf(list)
             /\ \A t \in list : least <= t.nonce
  <1>1. nonceOf(list) \subseteq Nat /\ nonceOf(list) # {}
    BY TxTypes, Zenon DEF nonceOf
  <1>2. \E n \in nonceOf(list) : \A m \in nonceOf(list) : n <= m
    BY <1>1, Least, Zenon
  <1>3. \A t \in list : t.nonce \in nonceOf(list)
    BY Zenon DEF nonceOf
  <1> QED BY <1>1, <1>2, <1>3, Zenon

LEMMA LastNonce ==
  ASSUME NEW list \in SUBSET Txs, list # {}
  PROVE  /\ lastNonce(list) \in Nat /\ lastNonce(list) \in nonceOf(list)
         /\ \A t \in list : t.nonce <= lastNonce(list)
  <1>1. nonceOf(list) \subseteq Nat /\ nonceOf(list) # {}
    BY TxTypes, Zenon DEF nonceOf
  <1>2. IsFiniteSet(nonceOf(list))
    <2>1. IsFiniteSet(list)
      BY PoolAssumption, FS_Subset, Zenon
    <2> DEFINE f == [t \in list |-> t.nonce]
    <2>2. f \in Surjection(list, nonceOf(list))
      BY Zenon DEF nonceOf, Surjection
    <2> QED BY <2>1, <2>2, FS_Surjection, Zenon
  <1>3. \E n \in nonceOf(list) : \A m \in nonceOf(list) : m <= n
    BY <1>1, <1>2, Greatest, Zenon
  <1>4. \A t \in list : t.nonce \in nonceOf(list)
    BY Zenon DEF nonceOf
  <1> QED BY <1>1, <1>3, <1>4, Zenon DEF lastNonce

-----------------------------------------------------------------------------
\* Removing transactions

\* Cutting the pending list at its first removed nonce, and lowering the next
\* nonce to it, keeps the executable nonces consecutive.
LEMMA CutKeepsRuns ==
  ASSUME NEW p, Lists(p), NEW n \in Nat, Runs(p, n), NEW hit \in SUBSET p.pending, NEW r,
         r.pending = below(p.pending, hit),
         r.nonce = IF hit = {} THEN p.nonce
                   ELSE lower(p.nonce, CHOOSE k \in nonceOf(hit) : \A m \in nonceOf(hit) : k <= m)
  PROVE  r.nonce \in Nat /\ Runs(r, n)
  <1>1. p.nonce \in Nat /\ p.pending \in SUBSET Txs /\ hit \in SUBSET Txs
    BY Zenon DEF Lists, Account
  <1>2. CASE hit = {}
    <2>1. r.pending = p.pending /\ r.nonce = p.nonce
      BY <1>2, Zenon DEF below
    <2> QED BY <2>1, <1>1, Zenon DEF Runs
  <1>3. CASE hit # {}
    <2> DEFINE k == CHOOSE k \in nonceOf(hit) : \A m \in nonceOf(hit) : k <= m
    <2>1. k \in Nat /\ k \in nonceOf(hit) /\ \A t \in hit : k <= t.nonce
      BY <1>1, <1>3, LeastNonce, Zenon
    <2>2. r.nonce = lower(p.nonce, k)
      BY <1>3, Zenon
    <2> HIDE DEF k
    <2>3. \A t \in p.pending : t \in r.pending <=> t.nonce < k
      <3>1. PICK h \in hit : h.nonce = k
        BY <2>1, Zenon DEF nonceOf
      <3>2. \A t \in p.pending : t.nonce \in Nat /\ \A u \in hit : u.nonce \in Nat
        BY <1>1, TxTypes, Zenon
      <3> QED BY <3>1, <3>2, <2>1 DEF below
    <2>4. r.pending \subseteq p.pending
      BY Zenon DEF below
    <2>5. \A m \in Nat : m \in nonceOf(r.pending) <=> m \in nonceOf(p.pending) /\ m < k
      BY <2>3, <2>4, Zenon DEF nonceOf
    <2>6. \A m \in Nat : m < r.nonce <=> m < p.nonce /\ m < k
      BY <1>1, <2>1, <2>2 DEF lower
    <2>7. r.nonce \in Nat
      BY <1>1, <2>1, <2>2, Zenon DEF lower
    <2> QED BY <2>5, <2>6, <2>7, Zenon DEF Runs
  <1> QED BY <1>2, <1>3, Zenon

LEMMA ReplacedAreListed ==
  ASSUME NEW p, Lists(p), NEW txs \in SUBSET p.all
  PROVE  replacedBy(p.pending, txs) = p.pending \cap txs /\ replacedBy(p.queue, txs) = p.queue \cap txs
  BY Zenon DEF Lists, replacedBy

\* enqueueTx of transactions whose nonces are not queued drops nothing.
LEMMA EnqueueNew ==
  ASSUME NEW p \in Account, NEW txs \in SUBSET Txs, \A t \in txs, u \in p.queue : t.nonce # u.nonce
  PROVE  enqueueAll(p, txs) = [p EXCEPT !.queue = @ \cup txs]
  <1>1. {t \in txs : accepts(p.queue, t)} = txs
    BY Zenon DEF accepts, at
  <1>2. replacedBy(p.queue, txs) = {}
    BY Zenon DEF replacedBy
  <1>3. enqueueAll(p, txs) = [p EXCEPT !.queue = (@ \ {}) \cup txs, !.all = @ \ {}]
    BY <1>1, <1>2, Zenon DEF enqueueAll
  <1>4. [p EXCEPT !.queue = (@ \ {}) \cup txs, !.all = @ \ {}] = [p EXCEPT !.queue = @ \cup txs]
    BY Zenon DEF Account
  <1> QED BY <1>3, <1>4, Zenon

\* removeTx never loses a transaction it was not asked to remove.
LEMMA RemoveTxsKeeps ==
  ASSUME NEW p, Lists(p), NEW txs \in SUBSET p.all
  PROVE  /\ Lists(removeTxs(p, txs))
         /\ removeTxs(p, txs).all = p.all \ txs
         /\ removeTxs(p, txs).owner = p.owner
         /\ \A n \in Nat : Runs(p, n) => Runs(removeTxs(p, txs), n)
  <1> DEFINE hit == p.pending \cap txs
             kept == below(p.pending, hit)
             nonce == IF hit = {} THEN p.nonce
                      ELSE lower(p.nonce, CHOOSE n \in nonceOf(hit) : \A m \in nonceOf(hit) : n <= m)
             back == p.pending \ (kept \cup hit)
             q == [p EXCEPT !.pending = kept, !.queue = p.queue \ (p.queue \cap txs), !.all = p.all \ txs,
                            !.nonce = nonce, !.store = below(p.store, hit)]
             r == removeTxs(p, txs)
  <1>1. r = enqueueAll(q, back)
    <2>1. replacedBy(p.pending, txs) = hit /\ replacedBy(p.queue, txs) = p.queue \cap txs
      BY ReplacedAreListed, Zenon
    <2> QED BY <2>1 DEF removeTxs
  <1>2. /\ p \in Account /\ p.all = p.pending \cup p.queue /\ p.pending \cap p.queue = {}
        /\ p.store \subseteq p.pending /\ \A t, u \in p.all : t.nonce = u.nonce => t = u
    BY Zenon DEF Lists
  <1>3. /\ kept \subseteq p.pending /\ kept \cap hit = {} /\ below(p.store, hit) \subseteq kept
        /\ below(p.store, hit) \subseteq Txs
    <2>1. \A t \in p.pending : ~(t.nonce < t.nonce)
      BY <1>2, TxTypes DEF Account
    <2>2. p.store \subseteq Txs
      BY <1>2, Zenon DEF Account
    <2> QED BY <2>1, <2>2, <1>2, Zenon DEF below
  <1>4. nonce \in Nat
    <2>1. CASE hit = {}
      BY <2>1, <1>2, Zenon DEF Account
    <2>2. CASE hit # {}
      <3>1. hit \in SUBSET Txs /\ p.nonce \in Nat
        BY <1>2, Zenon DEF Account
      <3> QED BY <3>1, <2>2, LeastNonce, Zenon DEF lower
    <2> QED BY <2>1, <2>2, Zenon
  <1> HIDE DEF kept, nonce
  <1>5. q \in Account
    BY <1>2, <1>3, <1>4, Zenon DEF Account
  <1>6. r = [q EXCEPT !.queue = @ \cup back]
    <2>1. \A t \in back, u \in q.queue : t.nonce # u.nonce
      BY <1>2 DEF Account
    <2>2. back \in SUBSET Txs
      BY <1>2, Zenon DEF Account
    <2> QED BY <1>1, <1>5, <2>1, <2>2, EnqueueNew, Zenon
  <1>7. /\ r \in Account /\ r.pending = kept /\ r.queue = (p.queue \ txs) \cup back /\ r.all = p.all \ txs
        /\ r.nonce = nonce /\ r.store = below(p.store, hit) /\ r.owner = p.owner
    <2>1. /\ q.pending = kept /\ q.queue = p.queue \ txs /\ q.all = p.all \ txs
          /\ q.nonce = nonce /\ q.store = below(p.store, hit) /\ q.owner = p.owner
      BY <1>2, Zenon DEF Account
    <2>2. back \in SUBSET Txs
      BY <1>2, Zenon DEF Account
    <2> HIDE DEF q, back
    <2> QED BY <1>5, <1>6, <2>1, <2>2 DEF Account
  <1> HIDE DEF q, r
  <1>8. Lists(r)
    BY <1>2, <1>3, <1>7, Zenon DEF Lists
  <1>9. ASSUME NEW n \in Nat, Runs(p, n) PROVE Runs(r, n)
    <2> HIDE DEF hit
    <2> QED BY <1>7, <1>9, CutKeepsRuns, Zenon DEF kept, nonce, hit
  <1> QED BY <1>7, <1>8, <1>9, Zenon DEF r

LEMMA ReleaseFields ==
  ASSUME NEW p \in Account
  PROVE  /\ release(p) \in Account
         /\ release(p).pending = p.pending /\ release(p).queue = p.queue /\ release(p).all = p.all
         /\ release(p).store = p.store /\ release(p).nonce = p.nonce
         /\ release(p).owner # "evm" /\ (p.owner # "evm" => release(p).owner = p.owner)
  BY Zenon DEF release, Account

LEMMA ReleaseKeeps ==
  ASSUME NEW p, Lists(p)
  PROVE  Lists(release(p)) /\ \A n \in Nat : Runs(p, n) => Runs(release(p), n)
  <1>1. p \in Account
    BY Zenon DEF Lists
  <1> QED BY <1>1, ReleaseFields, Zenon DEF Lists, Runs

\* removeTx with unreserve: the reservation ends with the last transaction.
LEMMA RemoveAndReleaseKeeps ==
  ASSUME NEW p, Lists(p), Held(p), NEW txs \in SUBSET p.all
  PROVE  /\ Lists(removeAndRelease(p, txs)) /\ Held(removeAndRelease(p, txs))
         /\ removeAndRelease(p, txs).all = p.all \ txs
         /\ \A n \in Nat : Runs(p, n) => Runs(removeAndRelease(p, txs), n)
  <1> DEFINE q == removeTxs(p, txs)
             r == removeAndRelease(p, txs)
  <1>1. /\ Lists(q) /\ q.all = p.all \ txs /\ q.owner = p.owner /\ \A n \in Nat : Runs(p, n) => Runs(q, n)
    BY RemoveTxsKeeps, Zenon
  <1>2. /\ q \in Account /\ q.all = q.pending \cup q.queue /\ p.all = p.pending \cup p.queue
    BY <1>1, Zenon DEF Lists
  <1>3. r = IF txs # {} /\ empty(q) THEN release(q) ELSE q
    BY Zenon DEF removeAndRelease
  <1> HIDE DEF q, r
  <1>4. CASE txs # {} /\ empty(q)
    <2>1. r = release(q)
      BY <1>3, <1>4, Zenon
    <2>2. /\ Lists(release(q)) /\ release(q).all = q.all /\ \A n \in Nat : Runs(q, n) => Runs(release(q), n)
          /\ release(q).owner # "evm" /\ release(q).pending = q.pending /\ release(q).queue = q.queue
      BY <1>1, <1>2, ReleaseKeeps, ReleaseFields, Zenon
    <2>3. Held(r)
      BY <2>1, <2>2, <1>4, Zenon DEF Held, empty
    <2> QED BY <2>1, <2>2, <2>3, <1>1, Zenon DEF r
  <1>5. CASE ~(txs # {} /\ empty(q))
    <2>1. r = q
      BY <1>3, <1>5, Zenon
    <2>2. empty(p) <=> empty(q)
      BY <1>1, <1>2, <1>5, Zenon DEF empty
    <2> QED BY <2>1, <2>2, <1>1, Zenon DEF Held, r
  <1> QED BY <1>4, <1>5, Zenon

-----------------------------------------------------------------------------
\* The limits

\* Cap drops the transactions from some nonce on, and never the first one.
LEMMA CapDropsLast ==
  ASSUME NEW list \in SUBSET Txs, NEW limit \in Nat
  PROVE  /\ cap(list, limit) \subseteq list
         /\ \A t \in list, u \in cap(list, limit) : u.nonce <= t.nonce => t \in cap(list, limit)
  <1>1. cap(list, limit) \subseteq list
    BY Zenon DEF cap
  <1> DEFINE upTo(t) == {u \in list : u.nonce <= t.nonce}
  <1>2. ASSUME NEW t \in list, NEW u \in cap(list, limit), u.nonce <= t.nonce PROVE t \in cap(list, limit)
    <2>1. \A v \in list : v.nonce \in Nat
      BY TxTypes, Zenon
    <2>2. u \in list
      BY <1>1, Zenon
    <2>3. upTo(u) \in SUBSET upTo(t)
      BY <2>1, <2>2, <1>2
    <2>4. IsFiniteSet(upTo(t)) /\ IsFiniteSet(upTo(u))
      BY PoolAssumption, FS_Subset, Zenon
    <2>5. /\ Cardinality(upTo(u)) <= Cardinality(upTo(t))
          /\ Cardinality(upTo(u)) \in Nat /\ Cardinality(upTo(t)) \in Nat
      BY <2>3, <2>4, FS_Subset, FS_CardinalityType, Zenon
    <2>6. Cardinality(upTo(u)) > limit
      BY Zenon DEF cap
    <2> QED BY <2>5, <2>6 DEF cap
  <1> QED BY <1>1, <1>2, Zenon

LEMMA CapKeepsFirst ==
  ASSUME NEW list \in SUBSET Txs, NEW limit \in Nat \ {0}, list # {},
         \A t, u \in list : t.nonce = u.nonce => t = u
  PROVE  list \ cap(list, limit) # {}
  <1> DEFINE least == CHOOSE n \in nonceOf(list) : \A m \in nonceOf(list) : n <= m
  <1>1. least \in Nat /\ least \in nonceOf(list) /\ \A t \in list : least <= t.nonce
    BY LeastNonce, Zenon
  <1>2. PICK first \in list : first.nonce = least
    BY <1>1, Zenon DEF nonceOf
  <1> HIDE DEF least
  <1>3. {u \in list : u.nonce <= first.nonce} = {first}
    <2>1. \A u \in list : u.nonce \in Nat
      BY TxTypes, Zenon
    <2>2. \A u \in list : u.nonce <= first.nonce <=> u.nonce = first.nonce
      BY <1>1, <1>2, <2>1
    <2> QED BY <2>2, Zenon
  <1>4. Cardinality({u \in list : u.nonce <= first.nonce}) = 1
    BY <1>3, FS_Singleton, Zenon
  <1>5. first \notin cap(list, limit)
    BY <1>4 DEF cap
  <1> QED BY <1>5, Zenon

LEMMA CapPendingKeeps ==
  ASSUME NEW p, Lists(p), Held(p), NEW keep \in Nat \ {0}
  PROVE  /\ Lists(capPending(p, keep)) /\ Held(capPending(p, keep))
         /\ capPending(p, keep).all \subseteq p.all
         /\ \A n \in Nat : Runs(p, n) => Runs(capPending(p, keep), n)
  <1> DEFINE drops == cap(p.pending, keep)
             nonce == IF drops = {} THEN p.nonce
                      ELSE lower(p.nonce, CHOOSE n \in nonceOf(drops) : \A m \in nonceOf(drops) : n <= m)
             r == capPending(p, keep)
  <1>1. /\ p \in Account /\ p.all = p.pending \cup p.queue /\ p.pending \cap p.queue = {}
        /\ p.store \subseteq p.pending /\ \A t, u \in p.all : t.nonce = u.nonce => t = u
    BY Zenon DEF Lists
  <1>2. p.pending \in SUBSET Txs /\ p.store \in SUBSET Txs /\ p.nonce \in Nat
    BY <1>1, Zenon DEF Account
  <1>3. drops \in SUBSET p.pending /\ \A t \in p.pending, u \in drops : u.nonce <= t.nonce => t \in drops
    BY <1>2, CapDropsLast, Zenon
  <1>4. p.pending \ drops = below(p.pending, drops)
    <2>1. \A t, u \in p.pending : t.nonce \in Nat /\ u.nonce \in Nat
      BY <1>2, TxTypes, Zenon
    <2> QED BY <1>3, <2>1 DEF below
  <1>5. nonce \in Nat
    BY <1>2, <1>3, LeastNonce, Zenon DEF lower
  <1>6. below(p.store, drops) \subseteq below(p.pending, drops) /\ below(p.store, drops) \subseteq Txs
    BY <1>1, <1>2, Zenon DEF below
  <1>7. r = [p EXCEPT !.pending = p.pending \ drops, !.all = p.all \ drops, !.store = below(p.store, drops),
                      !.nonce = nonce]
    BY Zenon DEF capPending
  <1>8. p.pending # {} => p.pending \ drops # {}
    BY <1>1, <1>2, CapKeepsFirst, Zenon
  <1> HIDE DEF drops, nonce
  <1> HIDE DEF r
  <1>9. /\ r \in Account /\ r.pending = p.pending \ drops /\ r.queue = p.queue /\ r.all = p.all \ drops
        /\ r.nonce = nonce /\ r.store = below(p.store, drops) /\ r.owner = p.owner
    <2>1. below(p.store, drops) \in SUBSET Txs
      BY <1>6, Zenon
    <2> QED BY <1>1, <1>5, <2>1, <1>7, Zenon DEF Account
  <1>10. Lists(r)
    BY <1>1, <1>3, <1>4, <1>6, <1>9, Zenon DEF Lists
  <1>11. Held(r)
    BY <1>3, <1>8, <1>9, Zenon DEF Held, empty
  <1>12. ASSUME NEW n \in Nat, Runs(p, n) PROVE Runs(r, n)
    BY <1>3, <1>4, <1>9, <1>12, CutKeepsRuns, Zenon DEF nonce
  <1> QED BY <1>9, <1>10, <1>11, <1>12, Zenon DEF r

-----------------------------------------------------------------------------
\* promoteExecutables

\* promoteTx of transactions whose nonces are not pending drops nothing.
LEMMA PromoteNew ==
  ASSUME NEW p \in Account, NEW txs \in SUBSET Txs, \A t \in txs, u \in p.pending : t.nonce # u.nonce
  PROVE  LET r == promoteAll(p, txs)
         IN  /\ r \in Account /\ r.pending = p.pending \cup txs /\ r.queue = p.queue /\ r.all = p.all
             /\ r.store = p.store \cup txs /\ r.owner = p.owner
             /\ r.nonce = IF txs = {} THEN p.nonce ELSE lastNonce(txs) + 1
  <1>1. {t \in txs : accepts(p.pending, t)} = txs
    BY Zenon DEF accepts, at
  <1>2. replacedBy(p.pending, txs) = {} /\ below(p.store, {}) = p.store
    BY Zenon DEF replacedBy, below
  <1> DEFINE nonce == IF txs = {} THEN p.nonce ELSE lastNonce(txs) + 1
             r == promoteAll(p, txs)
  <1>3. nonce \in Nat
    BY LastNonce DEF Account
  <1>4. r = [p EXCEPT !.pending = (p.pending \ {}) \cup txs, !.all = (p.all \ {}) \ (txs \ txs),
                      !.nonce = nonce, !.store = p.store \cup txs]
    BY <1>1, <1>2, Zenon DEF promoteAll
  <1> HIDE DEF nonce, r
  <1>5. /\ r \in Account /\ r.pending = p.pending \cup txs /\ r.queue = p.queue /\ r.all = p.all
        /\ r.store = p.store \cup txs /\ r.owner = p.owner /\ r.nonce = nonce
    BY <1>3, <1>4, Zenon DEF Account
  <1> QED BY <1>5, Zenon DEF r, nonce

\* Ready returns a run of consecutive nonces.
LEMMA ReadyIsRun ==
  ASSUME NEW list \in SUBSET Txs, NEW start \in Nat, ready(list, start) # {}
  PROVE  \E f \in nonceOf(list) :
           /\ f \in Nat /\ f <= start
           /\ \A m \in Nat : m \in nonceOf(ready(list, start)) <=> f <= m /\ m <= lastNonce(ready(list, start))
  <1> DEFINE go == ready(list, start)
             last == lastNonce(go)
  <1>1. go \in SUBSET list /\ \A t \in list : t.nonce \in Nat
    BY TxTypes, Zenon DEF ready
  <1>2. last \in Nat /\ last \in nonceOf(go) /\ \A t \in go : t.nonce <= last
    BY <1>1, LastNonce, Zenon
  <1>3. PICK final \in go : final.nonce = last
    BY <1>2, Zenon DEF nonceOf
  <1>4. PICK first \in list : /\ first.nonce <= start /\ \A u \in list : first.nonce <= u.nonce
                              /\ \A m \in first.nonce..final.nonce : m \in nonceOf(list)
    BY Zenon DEF ready
  <1>5. ASSUME NEW u \in list, u.nonce <= last PROVE u \in go
    <2>1. \A m \in first.nonce..u.nonce : m \in nonceOf(list)
      BY <1>1, <1>2, <1>3, <1>4, <1>5
    <2> QED BY <2>1, <1>4, Zenon DEF ready
  <1>6. ASSUME NEW m \in Nat, first.nonce <= m, m <= last PROVE m \in nonceOf(go)
    <2>1. PICK u \in list : u.nonce = m
      BY <1>1, <1>3, <1>4, <1>6 DEF nonceOf
    <2> QED BY <2>1, <1>5, <1>6, Zenon DEF nonceOf
  <1>7. ASSUME NEW m \in nonceOf(go) PROVE first.nonce <= m /\ m <= last
    BY <1>1, <1>2, <1>4, <1>7, Zenon DEF nonceOf
  <1>8. first.nonce \in nonceOf(list) /\ first.nonce \in Nat
    BY <1>1, Zenon DEF nonceOf
  <1> QED BY <1>4, <1>6, <1>7, <1>8, Zenon

LEMMA PromoteKeeps ==
  ASSUME NEW p, Lists(p), Held(p), NEW st, st.nonce \in Nat, NEW fails
  PROVE  LET r == promote(p, st, fails)
         IN  /\ Lists(r) /\ Held(r) /\ r.all \subseteq p.all
             /\ Runs(p, st.nonce) => Runs(r, st.nonce)
             /\ Gapless(p, st.nonce) /\ p.nonce <= st.nonce => Gapless(r, st.nonce)
  <1> DEFINE old    == forward(p.queue, st.nonce)
             costly == costFilter(p.queue \ old, st.balance)
             failed == (p.queue \ (old \cup costly)) \cap fails
             list   == p.queue \ (old \cup costly \cup failed)
             go     == ready(list, p.nonce)
             over   == cap(list \ go, AccountQueue)
             base   == [p EXCEPT !.queue = (list \ go) \ over,
                                 !.all = @ \ (old \cup costly \cup failed \cup over)]
             q      == promoteAll(base, go)
             r      == promote(p, st, fails)
             n      == st.nonce
  <1>1. r = IF p.queue = {} THEN p ELSE IF empty(q) THEN release(q) ELSE q
    BY Zenon DEF promote
  <1>2. /\ p \in Account /\ p.all = p.pending \cup p.queue /\ p.pending \cap p.queue = {}
        /\ p.store \subseteq p.pending /\ \A t, u \in p.all : t.nonce = u.nonce => t = u
    BY Zenon DEF Lists
  <1>3. /\ old \subseteq p.queue /\ costly \subseteq p.queue /\ failed \subseteq p.queue
        /\ list \in SUBSET p.queue /\ list \in SUBSET Txs /\ p.nonce \in Nat /\ p.queue \subseteq Txs
        /\ \A t \in list : n <= t.nonce
    <2>1. p.queue \subseteq Txs /\ p.nonce \in Nat
      BY <1>2, Zenon DEF Account
    <2>2. \A t \in p.queue : t.nonce \in Nat
      BY <2>1, TxTypes, Zenon
    <2> QED BY <2>1, <2>2 DEF forward, costFilter
  <1>4. /\ go \in SUBSET list /\ go \in SUBSET Txs /\ list \ go \in SUBSET Txs
    BY <1>3, Zenon DEF ready
  <1>5. over \subseteq list \ go
    BY Zenon DEF cap
  <1>6. p.queue = list \cup (old \cup costly \cup failed) /\ list \cap (old \cup costly \cup failed) = {}
    BY <1>3, Zenon
  <1> HIDE DEF old, costly, failed, list, go, over
  <1>7. /\ base \in Account /\ base.pending = p.pending /\ base.queue = (list \ go) \ over
        /\ base.all = p.all \ (old \cup costly \cup failed \cup over)
        /\ base.store = p.store /\ base.nonce = p.nonce /\ base.owner = p.owner
    BY <1>2, <1>3, Zenon DEF Account
  <1> HIDE DEF base
  <1>8. \A t \in go, u \in p.pending : t.nonce # u.nonce
    BY <1>2, <1>3, <1>4, Zenon
  <1>9. /\ q \in Account /\ q.pending = p.pending \cup go /\ q.queue = (list \ go) \ over
        /\ q.all = p.all \ (old \cup costly \cup failed \cup over)
        /\ q.store = p.store \cup go /\ q.owner = p.owner
        /\ q.nonce = IF go = {} THEN p.nonce ELSE lastNonce(go) + 1
    BY <1>4, <1>7, <1>8, PromoteNew
  <1> HIDE DEF q
  <1>10. Lists(q) /\ q.all \subseteq p.all
    <2>1. q.all = q.pending \cup q.queue
      BY <1>2, <1>3, <1>4, <1>5, <1>6, <1>9, Zenon
    <2>2. q.pending \cap q.queue = {} /\ q.store \subseteq q.pending /\ q.all \subseteq p.all
      BY <1>2, <1>3, <1>9, Zenon
    <2> QED BY <2>1, <2>2, <1>2, <1>9, Zenon DEF Lists
  <1>11. ASSUME go # {}
         PROVE  \E f \in Nat : /\ n <= f /\ f <= p.nonce /\ f \notin nonceOf(p.pending)
                               /\ \A m \in Nat : m \in nonceOf(go) <=> f <= m /\ m < q.nonce
                               /\ q.nonce \in Nat /\ f < q.nonce
    <2>1. PICK f \in nonceOf(list) :
             f \in Nat /\ f <= p.nonce /\ \A m \in Nat : m \in nonceOf(go) <=> f <= m /\ m <= lastNonce(go)
      BY <1>3, <1>11, ReadyIsRun, Zenon DEF go
    <2>2. lastNonce(go) \in Nat /\ lastNonce(go) \in nonceOf(go) /\ q.nonce = lastNonce(go) + 1
      BY <1>4, <1>9, <1>11, LastNonce, Zenon
    <2>3. n <= f
      BY <2>1, <1>3, Zenon DEF nonceOf
    <2>4. f \notin nonceOf(p.pending)
      BY <2>1, <1>2, <1>3, Zenon DEF nonceOf
    <2> QED BY <2>1, <2>2, <2>3, <2>4
  <1>12. \A m \in Nat : m \in nonceOf(q.pending) <=> m \in nonceOf(p.pending) \/ m \in nonceOf(go)
    BY <1>9, Zenon DEF nonceOf
  <1>13. ASSUME Runs(p, n) PROVE Runs(q, n)
    <2>1. CASE go = {}
      BY <2>1, <1>9, <1>13, Zenon DEF Runs
    <2>2. CASE go # {}
      <3>1. PICK f \in Nat : /\ n <= f /\ f <= p.nonce /\ f \notin nonceOf(p.pending)
                             /\ \A m \in Nat : m \in nonceOf(go) <=> f <= m /\ m < q.nonce
                             /\ q.nonce \in Nat /\ f < q.nonce
        BY <2>2, <1>11, Zenon
      <3>2. f = p.nonce
        BY <3>1, <1>3, <1>13 DEF Runs
      <3> QED BY <3>1, <3>2, <1>12, <1>13 DEF Runs
    <2> QED BY <2>1, <2>2, Zenon
  <1>14. ASSUME Gapless(p, n), p.nonce <= n PROVE Gapless(q, n)
    <2>1. CASE go = {}
      BY <2>1, <1>9, <1>14, Zenon DEF Gapless
    <2>2. CASE go # {}
      <3>1. PICK f \in Nat : /\ n <= f /\ f <= p.nonce
                             /\ \A m \in Nat : m \in nonceOf(go) <=> f <= m /\ m < q.nonce
                             /\ q.nonce \in Nat
        BY <2>2, <1>11, Zenon
      <3>2. ASSUME NEW t \in go, NEW m \in n..t.nonce PROVE m \in nonceOf(go)
        <4>1. t.nonce \in nonceOf(go) /\ t.nonce \in Nat
          BY <1>4, TxTypes, Zenon DEF nonceOf
        <4> QED BY <3>1, <4>1, <1>3, <1>14
      <3>3. ASSUME NEW t \in p.pending, NEW m \in n..t.nonce PROVE m \in nonceOf(p.pending)
        BY <1>14, Zenon DEF Gapless
      <3>4. ASSUME NEW t \in q.pending, NEW m \in n..t.nonce PROVE m \in nonceOf(q.pending)
        <4>1. m \in Nat
          BY <1>3
        <4> QED BY <4>1, <3>2, <3>3, <1>9, <1>12, Zenon
      <3> QED BY <3>4, Zenon DEF Gapless
    <2> QED BY <2>1, <2>2, Zenon
  <1>15. CASE p.queue = {}
    BY <1>1, <1>15, Zenon
  <1>16. CASE p.queue # {} /\ ~empty(q)
    <2>1. r = q
      BY <1>1, <1>16, Zenon
    <2>2. Held(q)
      BY <1>9, <1>16, Zenon DEF Held, empty
    <2> QED BY <2>1, <2>2, <1>10, <1>13, <1>14, Zenon
  <1>17. CASE p.queue # {} /\ empty(q)
    <2>1. r = release(q)
      BY <1>1, <1>17, Zenon
    <2>2. /\ Lists(release(q)) /\ release(q).all = q.all
          /\ release(q).owner # "evm" /\ release(q).pending = q.pending /\ release(q).queue = q.queue
          /\ release(q).nonce = q.nonce
      BY <1>9, <1>10, ReleaseKeeps, ReleaseFields, Zenon
    <2>3. Held(r) /\ (Runs(q, n) => Runs(r, n)) /\ (Gapless(q, n) => Gapless(r, n))
      BY <2>1, <2>2, <1>17, Zenon DEF Held, empty, Runs, Gapless
    <2> QED BY <2>1, <2>2, <2>3, <1>10, <1>13, <1>14, Zenon
  <1> QED BY <1>15, <1>16, <1>17, Zenon

-----------------------------------------------------------------------------
\* demoteUnexecutables: the list is cut at the first transaction that fails, so
\* the gap its last check looks for is not there.
LEMMA DemoteKeeps ==
  ASSUME NEW p, Lists(p), Held(p), NEW st, st.nonce \in Nat, Gapless(p, st.nonce), NEW fails
  PROVE  LET r == demote(p, st, fails)
         IN  Lists(r) /\ Held(r) /\ r.all \subseteq p.all /\ Gapless(r, st.nonce)
  <1> DEFINE old      == forward(p.pending, st.nonce)
             payable  == p.pending \ old
             costly   == costFilter(payable, st.balance)
             invalid1 == filterInvalids(payable, costly)
             checked  == payable \ (costly \cup invalid1)
             failed   == checked \cap fails
             invalid2 == filterInvalids(checked, failed)
             valid    == checked \ (failed \cup invalid2)
             gapped   == IF st.nonce \in nonceOf(valid) THEN {} ELSE valid
             gone     == old \cup costly \cup failed
             base     == [p EXCEPT !.pending = valid \ gapped, !.all = p.all \ gone,
                                   !.store = below(p.store, gone) \cup (valid \ gapped)]
             back     == invalid1 \cup invalid2
             q        == enqueueAll(base, back \cup gapped)
             r        == demote(p, st, fails)
             n        == st.nonce
  <1>1. r = IF p.pending = {} THEN p ELSE IF empty(q) THEN release(q) ELSE q
    BY Zenon DEF demote
  <1>2. /\ p \in Account /\ p.all = p.pending \cup p.queue /\ p.pending \cap p.queue = {}
        /\ p.store \subseteq p.pending /\ \A t, u \in p.all : t.nonce = u.nonce => t = u
    BY Zenon DEF Lists
  <1>3. p.pending \subseteq Txs /\ p.queue \subseteq Txs /\ p.all \subseteq Txs
    BY <1>2, Zenon DEF Account
  <1>4. \A t \in p.pending : t.nonce \in Nat
    BY <1>3, TxTypes, Zenon
  <1>5. old \subseteq p.pending /\ \A t \in p.pending : t \in payable <=> n <= t.nonce
    BY <1>4 DEF forward
  <1>6. costly \subseteq payable /\ invalid1 \subseteq payable \ costly
        /\ \A t \in payable \ costly : t \in invalid1 <=> \E c \in costly : c.nonce < t.nonce
    BY DEF costFilter, filterInvalids
  <1>7. failed \subseteq checked /\ invalid2 \subseteq checked \ failed
        /\ \A t \in checked \ failed : t \in invalid2 <=> \E c \in failed : c.nonce < t.nonce
    BY Zenon DEF filterInvalids
  <1> HIDE DEF old, costly, invalid1, failed, invalid2
  <1>8. \A t \in p.pending, u \in valid : n <= t.nonce /\ t.nonce <= u.nonce => t \in valid
    <2> SUFFICES ASSUME NEW t \in p.pending, NEW u \in valid, n <= t.nonce, t.nonce <= u.nonce
                 PROVE  t \in valid
      BY Zenon
    <2>1. t \in payable /\ u \in payable /\ u \notin costly /\ u \in p.pending
      BY <1>5, Zenon
    <2>2. \A c \in p.pending : c.nonce < t.nonce => c.nonce < u.nonce
      BY <1>4, <2>1
    <2>3. t.nonce = u.nonce => t = u
      BY <1>2, <2>1, Zenon
    <2>4. t.nonce < u.nonce \/ t.nonce = u.nonce
      BY <1>4, <2>1
    <2>5. t \in checked
      BY <2>1, <2>2, <2>3, <2>4, <1>5, <1>6, Zenon
    <2> QED BY <2>1, <2>2, <2>3, <2>4, <2>5, <1>5, <1>7, Zenon
  <1>9. valid \subseteq p.pending /\ \A u \in valid : n <= u.nonce
    BY <1>5, Zenon
  <1>10. \A u \in valid : \A m \in n..u.nonce : m \in nonceOf(valid)
    <2> SUFFICES ASSUME NEW u \in valid, NEW m \in n..u.nonce PROVE m \in nonceOf(valid)
      BY Zenon
    <2>1. PICK t \in p.pending : t.nonce = m
      BY <1>9, Zenon DEF Gapless, nonceOf
    <2>2. t \in valid
      BY <2>1, <1>8
    <2> QED BY <2>1, <2>2, Zenon DEF nonceOf
  <1>11. gapped = {}
    <2>1. \A u \in valid : u.nonce \in Nat
      BY <1>4, <1>9, Zenon
    <2> QED BY <2>1, <1>9, <1>10
  <1>12. below(p.store, gone) \subseteq valid
    <2> SUFFICES ASSUME NEW t \in p.store, \A c \in gone : t.nonce < c.nonce PROVE t \in valid
      BY Zenon DEF below
    <2>1. t \in p.pending
      BY <1>2, Zenon
    <2>2. \A c \in gone : c \in p.pending /\ ~(c.nonce < t.nonce) /\ c # t
      BY <1>4, <1>5, <1>6, <1>7, <2>1
    <2>3. t \in checked
      BY <2>1, <2>2, <1>6, Zenon
    <2> QED BY <2>2, <2>3, <1>7, Zenon
  <1>13. /\ back \subseteq p.pending /\ p.pending = valid \cup back \cup gone
         /\ valid \cap back = {} /\ valid \cap gone = {} /\ back \cap gone = {} /\ gone \subseteq p.pending
    BY <1>5, <1>6, <1>7, Zenon
  <1>14. back \cup gapped = back /\ valid \ gapped = valid
    BY <1>11, Zenon
  <1> HIDE DEF valid, gapped, gone, back
  <1>15. /\ base \in Account /\ base.pending = valid /\ base.queue = p.queue /\ base.all = p.all \ gone
         /\ base.store \subseteq valid /\ base.owner = p.owner
    <2>1. valid \in SUBSET Txs /\ below(p.store, gone) \cup valid \in SUBSET Txs
      BY <1>3, <1>9, <1>12, Zenon
    <2> QED BY <1>2, <1>12, <1>14, <2>1, Zenon DEF Account
  <1> HIDE DEF base
  <1>16. q = [base EXCEPT !.queue = @ \cup back]
    <2>1. \A t \in back, u \in base.queue : t.nonce # u.nonce
      BY <1>2, <1>13, <1>15
    <2>2. back \in SUBSET Txs
      BY <1>3, <1>13, Zenon
    <2> QED BY <1>14, <1>15, <2>1, <2>2, EnqueueNew, Zenon
  <1>17. /\ q \in Account /\ q.pending = valid /\ q.queue = p.queue \cup back /\ q.all = p.all \ gone
         /\ q.store \subseteq valid /\ q.owner = p.owner
    <2>1. back \in SUBSET Txs
      BY <1>3, <1>13, Zenon
    <2> QED BY <1>15, <1>16, <2>1, Zenon DEF Account
  <1> HIDE DEF q
  <1>18. Lists(q) /\ q.all \subseteq p.all /\ Gapless(q, n)
    <2>1. q.all = q.pending \cup q.queue /\ q.pending \cap q.queue = {} /\ q.all \subseteq p.all
      BY <1>2, <1>13, <1>17, Zenon
    <2>2. Lists(q)
      BY <2>1, <1>2, <1>17, Zenon DEF Lists
    <2> QED BY <2>1, <2>2, <1>10, <1>17, Zenon DEF Gapless
  <1>19. CASE p.pending = {}
    BY <1>1, <1>19, Zenon
  <1>20. CASE p.pending # {} /\ ~empty(q)
    <2>1. r = q
      BY <1>1, <1>20, Zenon
    <2>2. Held(q)
      BY <1>17, <1>20, Zenon DEF Held, empty
    <2> QED BY <2>1, <2>2, <1>18, Zenon
  <1>21. CASE p.pending # {} /\ empty(q)
    <2>1. r = release(q)
      BY <1>1, <1>21, Zenon
    <2>2. /\ Lists(release(q)) /\ release(q).all = q.all
          /\ release(q).owner # "evm" /\ release(q).pending = q.pending /\ release(q).queue = q.queue
      BY <1>17, <1>18, ReleaseKeeps, ReleaseFields, Zenon
    <2>3. Held(r) /\ Gapless(r, n)
      BY <2>1, <2>2, <1>18, <1>21, Zenon DEF Held, empty, Gapless
    <2> QED BY <2>1, <2>2, <2>3, <1>18, Zenon
  <1> QED BY <1>19, <1>20, <1>21, Zenon

-----------------------------------------------------------------------------
\* The end of a reset

LEMMA GaplessLater ==
  ASSUME NEW p, NEW n \in Nat, NEW later \in Nat, n <= later, Lists(p), Runs(p, n)
  PROVE  Gapless(p, later)
  <1> SUFFICES ASSUME NEW t \in p.pending, NEW m \in later..t.nonce PROVE m \in nonceOf(p.pending)
    BY Zenon DEF Gapless
  <1>1. t \in Txs /\ p.nonce \in Nat
    BY Zenon DEF Lists, Account
  <1>2. t.nonce \in Nat /\ m \in Nat /\ t.nonce \in nonceOf(p.pending)
    BY <1>1, TxTypes DEF nonceOf
  <1> QED BY <1>1, <1>2 DEF Runs

LEMMA NextNoncesKeeps ==
  ASSUME NEW st \in ChainStates, NEW pl, NEW a \in Addrs, Lists(pl[a]), Held(pl[a]), Gapless(pl[a], st[a].nonce)
  PROVE  LET r == nextNonces(pl, st)[a]
         IN  Lists(r) /\ Held(r) /\ r.all = pl[a].all /\ Runs(r, st[a].nonce)
  <1> DEFINE p == pl[a]
             n == st[a].nonce
             r == nextNonces(pl, st)[a]
             last == lastNonce(p.pending)
             nonce == IF p.pending = {} THEN n ELSE last + 1
  <1>1. r = [p EXCEPT !.nonce = nonce]
    BY Zenon DEF nextNonces
  <1>2. p \in Account /\ p.pending \in SUBSET Txs /\ n \in Nat
    BY StateTypes, Zenon DEF Lists, Account
  <1>3. p.pending # {} => last \in Nat /\ last \in nonceOf(p.pending) /\ \A t \in p.pending : t.nonce <= last
    BY <1>2, LastNonce, Zenon
  <1> HIDE DEF p, n, r, last
  <1>4. nonce \in Nat
    BY <1>2, <1>3
  <1>5. /\ r \in Account /\ r.pending = p.pending /\ r.queue = p.queue /\ r.all = p.all /\ r.store = p.store
        /\ r.owner = p.owner /\ r.nonce = nonce
    <2> HIDE DEF nonce
    <2> QED BY <1>1, <1>2, <1>4, Zenon DEF Account
  <1>6. Lists(r) /\ Held(r)
    BY <1>5, Zenon DEF Lists, Held, empty, p
  <1>7. ASSUME NEW m \in Nat, m >= n PROVE m \in nonceOf(p.pending) <=> m < nonce
    <2>1. CASE p.pending = {}
      BY <2>1, <1>2, <1>7 DEF nonceOf
    <2>2. CASE p.pending # {}
      <3>1. \A k \in nonceOf(p.pending) : k <= last
        BY <1>3, <2>2, Zenon DEF nonceOf
      <3>2. \A k \in n..last : k \in nonceOf(p.pending)
        BY <1>3, <2>2, Zenon DEF nonceOf, Gapless, p, n
      <3> QED BY <3>1, <3>2, <1>2, <1>3, <1>7, <2>2
    <2> QED BY <2>1, <2>2, Zenon
  <1> QED BY <1>5, <1>6, <1>7, Zenon DEF Runs, r, p, n

-----------------------------------------------------------------------------
\* The limits over all accounts

LEMMA LessPooled ==
  ASSUME NEW a \in Addrs, NEW n \in Nat, NEW p, AccountInv(p, a, n), NEW r,
         Lists(r), Runs(r, n), Held(r), r.all \subseteq p.all
  PROVE  AccountInv(r, a, n)
  BY Zenon DEF AccountInv, OneAhead

LEMMA TruncatePendingKeeps ==
  ASSUME NEW st \in ChainStates, NEW pl, PoolInv(pl, st)
  PROVE  PoolInv(truncatePending(pl), st)
  <1> DEFINE total(c) == MapThenSumSet(LAMBDA a : lower(Cardinality(pl[a].pending), c), Addrs)
             levels == {c \in AccountSlots..Cardinality(Txs) : total(c) <= GlobalSlots}
             level == IF levels = {} THEN AccountSlots ELSE Max(levels)
             r == truncatePending(pl)
  <1>1. r = IF count(pendingOf(pl)) <= GlobalSlots THEN pl ELSE [a \in Addrs |-> capPending(pl[a], level)]
    BY Zenon DEF truncatePending
  <1>2. level \in Nat \ {0}
    <2>1. AccountSlots \in Nat \ {0} /\ Cardinality(Txs) \in Nat
      BY PoolAssumption, FS_CardinalityType, Zenon
    <2> HIDE DEF total
    <2>2. levels \in SUBSET (AccountSlots..Cardinality(Txs))
      BY Zenon
    <2> HIDE DEF levels
    <2>3. IsFiniteSet(levels)
      <3>1. IsFiniteSet(AccountSlots..Cardinality(Txs))
        BY <2>1, FS_Interval
      <3> QED BY <3>1, <2>2, FS_Subset, Zenon
    <2>4. levels # {} => Max(levels) \in levels
      <3>1. levels \subseteq Nat
        BY <2>1, <2>2
      <3>2. levels # {} => \E n \in levels : \A m \in levels : m <= n
        BY <3>1, <2>3, Greatest, Zenon
      <3>3. \A n, m \in levels : m <= n <=> n >= m
        BY <3>1, Zenon
      <3> QED BY <3>2, <3>3, Zenon DEF Max
    <2>5. \A c \in levels : c \in Nat \ {0}
      BY <2>1, <2>2
    <2> QED BY <2>1, <2>4, <2>5, Zenon
  <1> HIDE DEF level
  <1>3. ASSUME NEW a \in Addrs
        PROVE  LET p == capPending(pl[a], level) IN p \in Account /\ AccountInv(p, a, st[a].nonce)
    <2>1. AccountInv(pl[a], a, st[a].nonce) /\ st[a].nonce \in Nat
      BY StateTypes, Zenon DEF PoolInv
    <2>2. Lists(pl[a]) /\ Runs(pl[a], st[a].nonce) /\ Held(pl[a])
      BY <2>1, Zenon DEF AccountInv
    <2> DEFINE p == capPending(pl[a], level)
    <2>3. Lists(p) /\ Runs(p, st[a].nonce) /\ Held(p) /\ p.all \subseteq pl[a].all
      BY <1>2, <2>1, <2>2, CapPendingKeeps, Zenon
    <2> HIDE DEF p
    <2>4. p \in Account
      BY <2>3, Zenon DEF Lists
    <2> QED BY <2>1, <2>3, <2>4, LessPooled, Zenon DEF p
  <1> QED BY <1>1, <1>3, Zenon DEF PoolInv

LEMMA RemoveKeepsAccount ==
  ASSUME NEW a \in Addrs, NEW n \in Nat, NEW p, AccountInv(p, a, n), NEW txs \in SUBSET p.all
  PROVE  removeAndRelease(p, txs) \in Account /\ AccountInv(removeAndRelease(p, txs), a, n)
  <1> DEFINE r == removeAndRelease(p, txs)
  <1>1. Lists(r) /\ Runs(r, n) /\ Held(r) /\ r.all \subseteq p.all
    BY RemoveAndReleaseKeeps DEF AccountInv
  <1> HIDE DEF r
  <1> QED BY <1>1, LessPooled, Zenon DEF Lists, r

LEMMA TruncateQueueKeeps ==
  ASSUME NEW st \in ChainStates, NEW pl, PoolInv(pl, st), NEW r \in truncateQueue(pl)
  PROVE  PoolInv(r, st)
  <1>1. CASE r = pl
    BY <1>1, Zenon
  <1>2. CASE r # pl
    <2>1. PICK k : r = [a \in Addrs |-> removeAndRelease(pl[a], cap(pl[a].queue, k[a]))]
      BY <1>2, Zenon DEF truncateQueue
    <2>2. ASSUME NEW a \in Addrs PROVE r[a] \in Account /\ AccountInv(r[a], a, st[a].nonce)
      <3>1. st[a].nonce \in Nat /\ AccountInv(pl[a], a, st[a].nonce)
        BY StateTypes, Zenon DEF PoolInv
      <3>2. cap(pl[a].queue, k[a]) \in SUBSET pl[a].all
        BY <3>1, Zenon DEF AccountInv, Lists, cap
      <3>3. r[a] = removeAndRelease(pl[a], cap(pl[a].queue, k[a]))
        BY <2>1, Zenon
      <3> QED BY <3>1, <3>2, <3>3, RemoveKeepsAccount, Zenon
    <2> QED BY <2>1, <2>2, Zenon DEF PoolInv
  <1> QED BY <1>1, <1>2, Zenon

-----------------------------------------------------------------------------
\* Add

LEMMA InsertedKeeps ==
  ASSUME NEW q, Lists(q), NEW tx \in Txs, tx \notin q.all, q.owner = "evm"
  PROVE  LET r == inserted(q, tx)
         IN  /\ Lists(r) /\ Held(r) /\ r.all \subseteq q.all \cup {tx}
             /\ \A n \in Nat : Runs(q, n) => Runs(r, n)
  <1> DEFINE old == at(q.pending, tx.nonce)
             oldQ == at(q.queue, tx.nonce)
             r == inserted(q, tx)
  <1>1. /\ q \in Account /\ q.all = q.pending \cup q.queue /\ q.pending \cap q.queue = {}
        /\ q.store \subseteq q.pending /\ \A t, u \in q.all : t.nonce = u.nonce => t = u
    BY Zenon DEF Lists
  <1>2. /\ old = {t \in q.pending : t.nonce = tx.nonce} /\ oldQ = {t \in q.queue : t.nonce = tx.nonce}
        /\ q.pending \subseteq Txs /\ q.queue \subseteq Txs /\ q.store \subseteq Txs
    BY <1>1, Zenon DEF at, Account
  <1>3. r = IF old # {}
            THEN [q EXCEPT !.pending = (q.pending \ old) \cup {tx}, !.all = (q.all \ old) \cup {tx},
                           !.store = below(q.store, old)]
            ELSE [q EXCEPT !.queue = (q.queue \ oldQ) \cup {tx}, !.all = (q.all \ oldQ) \cup {tx}]
    BY Zenon DEF inserted
  <1> HIDE DEF old, oldQ, r
  <1>4. CASE old # {}
    <2>1. below(q.store, old) \subseteq q.pending \ old /\ below(q.store, old) \in SUBSET Txs
      <3>1. \A t \in q.store : ~(t.nonce < t.nonce)
        BY <1>2, TxTypes
      <3> QED BY <3>1, <1>1, <1>2, Zenon DEF below
    <2>2. /\ r \in Account /\ r.pending = (q.pending \ old) \cup {tx} /\ r.queue = q.queue
          /\ r.all = (q.all \ old) \cup {tx} /\ r.store = below(q.store, old) /\ r.owner = q.owner
          /\ r.nonce = q.nonce
      BY <1>1, <1>2, <1>3, <1>4, <2>1, Zenon DEF Account
    <2>3. \A u \in q.all : u.nonce = tx.nonce => u \in old
      BY <1>1, <1>2, <1>4
    <2>4. r.all = r.pending \cup r.queue /\ r.pending \cap r.queue = {}
      BY <1>1, <1>2, <2>2
    <2>5. \A t, u \in r.all : t.nonce = u.nonce => t = u
      BY <1>1, <2>2, <2>3, Zenon
    <2>6. Lists(r)
      BY <2>1, <2>2, <2>4, <2>5, Zenon DEF Lists
    <2>7. \A m \in Nat : m \in nonceOf(r.pending) <=> m \in nonceOf(q.pending)
      BY <1>2, <1>4, <2>2, Zenon DEF nonceOf
    <2>8. Held(r)
      BY <2>2, Zenon DEF Held, empty
    <2>9. \A n \in Nat : Runs(q, n) => Runs(r, n)
      BY <2>2, <2>7, Zenon DEF Runs
    <2> QED BY <2>2, <2>6, <2>8, <2>9, Zenon DEF r
  <1>5. CASE old = {}
    <2>1. /\ r \in Account /\ r.pending = q.pending /\ r.queue = (q.queue \ oldQ) \cup {tx}
          /\ r.all = (q.all \ oldQ) \cup {tx} /\ r.store = q.store /\ r.owner = q.owner
          /\ r.nonce = q.nonce
      BY <1>1, <1>2, <1>3, <1>5, Zenon DEF Account
    <2>2. \A u \in q.all : u.nonce = tx.nonce => u \in oldQ
      BY <1>1, <1>2, <1>5, Zenon
    <2>3. r.all = r.pending \cup r.queue /\ r.pending \cap r.queue = {}
      BY <1>1, <1>2, <2>1
    <2>4. \A t, u \in r.all : t.nonce = u.nonce => t = u
      BY <1>1, <2>1, <2>2, Zenon
    <2>5. Lists(r)
      BY <1>1, <2>1, <2>3, <2>4, Zenon DEF Lists
    <2>6. Held(r)
      BY <2>1, Zenon DEF Held, empty
    <2>7. \A n \in Nat : Runs(q, n) => Runs(r, n)
      BY <2>1, Zenon DEF Runs
    <2> QED BY <2>1, <2>5, <2>6, <2>7, Zenon DEF r
  <1> QED BY <1>4, <1>5, Zenon

\* checkDelegationLimit lets a delegated account have only its next transaction.
LEMMA DelegationAllowsNext ==
  ASSUME NEW a \in Addrs, NEW n \in Nat, NEW p, AccountInv(p, a, n),
         NEW tx \in Txs, tx.from = a, n <= tx.nonce, delegationAllows(p, tx), a \in Delegated
  PROVE  tx.nonce = n
  <1>1. tx.nonce \in Nat /\ p.nonce \in Nat /\ p.pending \subseteq p.all /\ p.all \subseteq Txs
    BY TxTypes, Zenon DEF AccountInv, Lists, Account
  <1>2. CASE p.pending = {} /\ p.nonce = tx.nonce
    <2>1. \A m \in Nat : m >= n => ~(m < p.nonce)
      BY <1>2, Zenon DEF AccountInv, Runs, nonceOf
    <2> QED BY <1>1, <1>2, <2>1
  <1>3. CASE tx.nonce \in nonceOf(p.pending)
    <2>1. PICK t \in p.all : t.nonce = tx.nonce
      BY <1>1, <1>3, Zenon DEF nonceOf
    <2> QED BY <1>1, <2>1 DEF AccountInv, OneAhead
  <1> QED BY <1>2, <1>3, Zenon DEF delegationAllows

LEMMA AddKeeps ==
  ASSUME IInv, NEW tx \in Txs, NEW drop, Add(tx, drop)
  PROVE  IInv'
  <1> DEFINE p == pool[tx.from]
             held == IF empty(p) THEN [p EXCEPT !.owner = "evm"] ELSE p
             after == [a \in Addrs |-> IF a = tx.from THEN removeTxs(held, drop \cap held.all)
                                       ELSE removeAndRelease(pool[a], drop \cap pool[a].all)]
             q == after[tx.from]
             n == state[tx.from].nonce
  <1>1. /\ tx \notin p.all /\ validateTx(p, state[tx.from], tx)
        /\ IF insertable(q, tx)
           THEN /\ pool' = [after EXCEPT ![tx.from] = inserted(q, tx)]
                /\ dirty' = IF at(q.pending \cup q.queue, tx.nonce) = {} THEN dirty \cup {tx.from} ELSE dirty
           ELSE drop # {} /\ pool' = after /\ UNCHANGED dirty
        /\ UNCHANGED state
    BY Zenon DEF Add
  <1>2. tx.from \in Addrs /\ tx.nonce \in Nat
    BY TxTypes, Zenon
  <1>3. n \in Nat /\ AccountInv(p, tx.from, n) /\ p \in Account
    BY <1>2, StateTypes, Zenon DEF IInv, PoolInv
  <1>4. Lists(p) /\ Runs(p, n) /\ Held(p)
    BY <1>3, Zenon DEF AccountInv
  <1>5. Lists(held) /\ Runs(held, n) /\ held.owner = "evm" /\ held.all = p.all
    <2>1. CASE empty(p)
      <3>1. /\ held \in Account /\ held.pending = p.pending /\ held.queue = p.queue /\ held.all = p.all
            /\ held.store = p.store /\ held.nonce = p.nonce /\ held.owner = "evm"
        BY <2>1, <1>3, Zenon DEF Account
      <3> HIDE DEF held, p
      <3> QED BY <3>1, <1>4, Zenon DEF Lists, Runs
    <2>2. CASE ~empty(p)
      BY <2>2, <1>4, Zenon DEF Held
    <2> QED BY <2>1, <2>2, Zenon
  <1>6. q = removeTxs(held, drop \cap held.all)
    BY <1>2, Zenon
  <1> HIDE DEF held, q
  <1>7. /\ Lists(q) /\ Runs(q, n) /\ q.owner = "evm" /\ q.all \subseteq p.all
    BY <1>3, <1>5, <1>6, RemoveTxsKeeps
  <1>8. \A a \in Addrs : a # tx.from => after[a] \in Account /\ AccountInv(after[a], a, state[a].nonce)
    <2> SUFFICES ASSUME NEW a \in Addrs, a # tx.from
                 PROVE  after[a] \in Account /\ AccountInv(after[a], a, state[a].nonce)
      BY Zenon
    <2>1. after[a] = removeAndRelease(pool[a], drop \cap pool[a].all)
      BY Zenon
    <2>2. state[a].nonce \in Nat /\ AccountInv(pool[a], a, state[a].nonce)
      BY StateTypes, Zenon DEF IInv, PoolInv
    <2>3. drop \cap pool[a].all \in SUBSET pool[a].all
      BY Zenon
    <2> HIDE DEF after
    <2> QED BY <2>1, <2>2, <2>3, RemoveKeepsAccount, Zenon
  <1>9. DOMAIN after = Addrs /\ after = [a \in Addrs |-> after[a]] /\ after[tx.from] = q
    BY Zenon DEF q
  <1>10. dirty' \subseteq Addrs
    BY <1>1, <1>2, Zenon DEF IInv
  <1> HIDE DEF after
  <1>11. CASE insertable(q, tx)
    <2> DEFINE r == inserted(q, tx)
    <2>1. Lists(r) /\ Held(r) /\ Runs(r, n) /\ r.all \subseteq q.all \cup {tx}
      BY <1>1, <1>3, <1>7, InsertedKeeps
    <2> HIDE DEF r
    <2>2. pool' = [after EXCEPT ![tx.from] = r]
      BY <1>1, <1>11, Zenon DEF r
    <2>3. r \in Account
      BY <2>1, Zenon DEF Lists
    <2>4. \A t \in r.all : t.from = tx.from
      BY <2>1, <1>3, <1>7, Zenon DEF AccountInv
    <2>5. tx.from \in Delegated => OneAhead(r, n)
      <3>1. tx.from \in Delegated => tx.nonce = n
        BY <1>1, <1>2, <1>3, DelegationAllowsNext DEF validateTx
      <3> QED BY <3>1, <2>1, <1>3, <1>7 DEF AccountInv, OneAhead
    <2>6. AccountInv(r, tx.from, n)
      BY <2>1, <2>4, <2>5, Zenon DEF AccountInv
    <2>7. pool' \in [Addrs -> Account]
      BY <2>2, <2>3, <1>8, <1>9, Zenon
    <2>8. \A a \in Addrs : AccountInv(pool'[a], a, state'[a].nonce)
      BY <2>2, <2>6, <1>1, <1>8, <1>9, Zenon
    <2> QED BY <2>7, <2>8, <1>1, <1>10, Zenon DEF IInv, PoolInv
  <1>12. CASE ~insertable(q, tx)
    <2>1. Held(q)
      BY <1>7, <1>12, Zenon DEF Held, empty, insertable, accepts, at, nonceOf
    <2>2. q \in Account /\ AccountInv(q, tx.from, n)
      BY <2>1, <1>2, <1>3, <1>7, LessPooled, Zenon DEF Lists
    <2>3. pool' = after
      BY <1>1, <1>12, Zenon
    <2>4. pool' \in [Addrs -> Account]
      BY <2>2, <2>3, <1>8, <1>9, Zenon
    <2>5. \A a \in Addrs : AccountInv(pool'[a], a, state'[a].nonce)
      BY <2>2, <2>3, <1>1, <1>8, <1>9, Zenon
    <2> QED BY <2>4, <2>5, <1>1, <1>10, Zenon DEF IInv, PoolInv
  <1> QED BY <1>11, <1>12, Zenon

-----------------------------------------------------------------------------
\* The other actions

\* Replacing the record of some accounts.
LEMMA AccountsReplaced ==
  ASSUME IInv, NEW pl, DOMAIN pl = Addrs, pl = [a \in Addrs |-> pl[a]],
         \A a \in Addrs : pl[a] = pool[a] \/ \E txs \in SUBSET pool[a].all : pl[a] = removeAndRelease(pool[a], txs)
  PROVE  PoolInv(pl, state)
  <1>1. ASSUME NEW a \in Addrs PROVE pl[a] \in Account /\ AccountInv(pl[a], a, state[a].nonce)
    <2>1. state[a].nonce \in Nat /\ AccountInv(pool[a], a, state[a].nonce) /\ pool[a] \in Account
      BY StateTypes, Zenon DEF IInv, PoolInv
    <2>2. CASE pl[a] = pool[a]
      BY <2>1, <2>2, Zenon
    <2>3. ASSUME NEW txs \in SUBSET pool[a].all, pl[a] = removeAndRelease(pool[a], txs)
          PROVE  pl[a] \in Account /\ AccountInv(pl[a], a, state[a].nonce)
      BY <2>1, <2>3, RemoveKeepsAccount
    <2> QED BY <2>2, <2>3, Zenon
  <1> QED BY <1>1, Zenon DEF PoolInv

LEMMA RemovalsKeep ==
  ASSUME IInv,
         \/ \E tx \in Txs : RemoveTx(tx) \/ SetGasTip(tx.price)
         \/ \E a \in Addrs : Evict(a)
  PROVE  IInv'
  <1>1. state' = state /\ dirty' = dirty /\ pool \in [Addrs -> Account]
    BY Zenon DEF RemoveTx, SetGasTip, Evict, IInv, PoolInv
  <1>2. PoolInv(pool', state)
    <2>1. CASE \E tx \in Txs : RemoveTx(tx)
      <3>1. PICK tx \in Txs : RemoveTx(tx)
        BY <2>1, Zenon
      <3>2. /\ DOMAIN pool' = Addrs /\ pool' = [a \in Addrs |-> pool'[a]]
            /\ \A a \in Addrs : a # tx.from => pool'[a] = pool[a]
            /\ pool'[tx.from] = removeAndRelease(pool[tx.from], {tx}) /\ {tx} \in SUBSET pool[tx.from].all
        BY <3>1, <1>1, TxTypes, Zenon DEF RemoveTx
      <3>3. \A a \in Addrs :
              pool'[a] = pool[a] \/ \E txs \in SUBSET pool[a].all : pool'[a] = removeAndRelease(pool[a], txs)
        BY <3>2, Zenon
      <3> QED BY <3>2, <3>3, AccountsReplaced, Zenon
    <2>2. CASE \E tx \in Txs : SetGasTip(tx.price)
      <3>1. PICK drop : pool' = [a \in Addrs |-> removeAndRelease(pool[a], drop \cap pool[a].all)]
        BY <2>2, Zenon DEF SetGasTip
      <3>2. /\ DOMAIN pool' = Addrs /\ pool' = [a \in Addrs |-> pool'[a]]
            /\ \A a \in Addrs : pool'[a] = removeAndRelease(pool[a], drop \cap pool[a].all)
        BY <3>1, Zenon
      <3>3. \A a \in Addrs : drop \cap pool[a].all \in SUBSET pool[a].all
        BY Zenon
      <3>4. \A a \in Addrs :
              pool'[a] = pool[a] \/ \E txs \in SUBSET pool[a].all : pool'[a] = removeAndRelease(pool[a], txs)
        BY <3>2, <3>3, Zenon
      <3> QED BY <3>2, <3>4, AccountsReplaced, Zenon
    <2>3. CASE \E a \in Addrs : Evict(a)
      <3>1. PICK b \in Addrs : Evict(b)
        BY <2>3, Zenon
      <3>2. /\ DOMAIN pool' = Addrs /\ pool' = [a \in Addrs |-> pool'[a]]
            /\ \A a \in Addrs : a # b => pool'[a] = pool[a]
            /\ pool'[b] = removeAndRelease(pool[b], pool[b].queue)
        BY <3>1, <1>1, Zenon DEF Evict
      <3>3. pool[b].queue \in SUBSET pool[b].all
        BY DEF IInv, PoolInv, AccountInv, Lists
      <3>4. \A a \in Addrs :
              pool'[a] = pool[a] \/ \E txs \in SUBSET pool[a].all : pool'[a] = removeAndRelease(pool[a], txs)
        BY <3>2, <3>3, Zenon
      <3> QED BY <3>2, <3>4, AccountsReplaced, Zenon
    <2> QED BY <2>1, <2>2, <2>3, Zenon
  <1> QED BY <1>1, <1>2, Zenon DEF IInv

LEMMA OtherPoolKeeps ==
  ASSUME IInv, NEW b \in Addrs, OtherHold(b) \/ OtherRelease(b)
  PROVE  IInv'
  <1>1. state' = state /\ dirty' = dirty /\ pool \in [Addrs -> Account]
    BY Zenon DEF OtherHold, OtherRelease, IInv, PoolInv
  <1>2. PICK owner \in {"none", "other"} : pool' = [pool EXCEPT ![b].owner = owner]
    BY Zenon DEF OtherHold, OtherRelease
  <1>3. pool[b].owner # "evm"
    BY Zenon DEF OtherHold, OtherRelease
  <1>4. /\ pool'[b] \in Account /\ pool'[b].pending = pool[b].pending /\ pool'[b].queue = pool[b].queue
        /\ pool'[b].all = pool[b].all /\ pool'[b].store = pool[b].store /\ pool'[b].nonce = pool[b].nonce
        /\ pool'[b].owner # "evm"
    BY <1>1, <1>2, Zenon DEF Account
  <1>5. pool' \in [Addrs -> Account] /\ \A a \in Addrs : a # b => pool'[a] = pool[a]
    BY <1>1, <1>2, <1>4, Zenon
  <1>6. AccountInv(pool[b], b, state[b].nonce)
    BY Zenon DEF IInv, PoolInv
  <1>7. AccountInv(pool'[b], b, state[b].nonce)
    BY <1>3, <1>4, <1>6, Zenon DEF AccountInv, Lists, Runs, Held, empty, OneAhead
  <1> QED BY <1>1, <1>5, <1>7, Zenon DEF IInv, PoolInv

LEMMA RunPromoteKeeps ==
  ASSUME IInv, NEW accounts, NEW fails, RunPromote(accounts, fails)
  PROVE  IInv'
  <1> DEFINE promoted == [a \in Addrs |-> IF a \in accounts THEN promote(pool[a], state[a], fails) ELSE pool[a]]
  <1>1. pool' \in truncateQueue(truncatePending(promoted)) /\ dirty' \subseteq dirty /\ state' = state
    BY Zenon DEF RunPromote
  <1>2. ASSUME NEW a \in Addrs
        PROVE  promoted[a] \in Account /\ AccountInv(promoted[a], a, state[a].nonce)
    <2>1. state[a].nonce \in Nat /\ AccountInv(pool[a], a, state[a].nonce) /\ pool[a] \in Account
      BY StateTypes, Zenon DEF IInv, PoolInv
    <2>2. Lists(pool[a]) /\ Runs(pool[a], state[a].nonce) /\ Held(pool[a])
      BY <2>1, Zenon DEF AccountInv
    <2> DEFINE r == promote(pool[a], state[a], fails)
    <2>3. Lists(r) /\ Held(r) /\ r.all \subseteq pool[a].all /\ Runs(r, state[a].nonce)
      BY <2>1, <2>2, PromoteKeeps, Zenon
    <2>4. promoted[a] = pool[a] \/ promoted[a] = r
      BY Zenon
    <2> HIDE DEF r, promoted
    <2>5. r \in Account /\ AccountInv(r, a, state[a].nonce)
      BY <2>1, <2>3, LessPooled, Zenon DEF Lists
    <2> QED BY <2>1, <2>4, <2>5, Zenon
  <1>3. promoted \in [Addrs -> Account]
    BY <1>2, Zenon
  <1> HIDE DEF promoted
  <1>4. PoolInv(promoted, state) /\ state \in ChainStates
    BY <1>2, <1>3, Zenon DEF PoolInv, IInv
  <1>5. PoolInv(pool', state)
    BY <1>1, <1>4, TruncatePendingKeeps, TruncateQueueKeeps, Zenon
  <1> QED BY <1>1, <1>5, Zenon DEF IInv

\* A run for a new head, complete or cancelled: between the reset of the nonces
\* and their end value only Gapless holds of the accounts.
LEMMA RunResetKeeps ==
  ASSUME IInv, NEW st \in ChainStates, NEW pl, NEW accounts, NEW ps, NEW ds, NEW fails,
         RunReset(pl, st, accounts, ps, ds, fails)
  PROVE  IInv'
  <1> DEFINE promoted == [a \in Addrs |-> IF a \in ps THEN promote(pl[a], st[a], fails) ELSE pl[a]]
             demoted  == [a \in Addrs |-> IF a \in ds THEN demote(promoted[a], st[a], fails) ELSE promoted[a]]
             last == nextNonces(demoted, st)
  <1>1. /\ pl = resetInternalState(pool, st) \/ (pl = pool /\ st = state)
        /\ \A a \in Addrs : state[a].nonce <= st[a].nonce
        /\ pool' \in truncateQueue(truncatePending(last))
        /\ state' = st /\ dirty' \subseteq dirty
    BY Zenon DEF RunReset
  <1>2. ASSUME NEW a \in Addrs
        PROVE  last[a] \in Account /\ AccountInv(last[a], a, st[a].nonce)
    <2> DEFINE n == st[a].nonce
               p == pool[a]
    <2>1. /\ state[a].nonce \in Nat /\ n \in Nat /\ state[a].nonce <= n
          /\ AccountInv(p, a, state[a].nonce) /\ p \in Account
      BY <1>1, StateTypes, Zenon DEF IInv, PoolInv
    <2>2. Lists(p) /\ Runs(p, state[a].nonce) /\ Held(p)
      BY <2>1, Zenon DEF AccountInv
    <2>3. Gapless(p, n)
      BY <2>1, <2>2, GaplessLater
    <2>4. /\ Lists(pl[a]) /\ Held(pl[a]) /\ pl[a].all = p.all /\ Gapless(pl[a], n)
          /\ Runs(pl[a], n) \/ pl[a].nonce <= n
      <3>1. CASE pl = pool /\ st = state
        BY <3>1, <2>2, <2>3, Zenon
      <3>2. CASE pl = resetInternalState(pool, st)
        <4>1. pl[a] = [p EXCEPT !.nonce = n, !.store = {}]
          BY <3>2, Zenon DEF resetInternalState
        <4> HIDE DEF n, p
        <4>2. /\ pl[a] \in Account /\ pl[a].pending = p.pending /\ pl[a].queue = p.queue
              /\ pl[a].all = p.all /\ pl[a].store = {} /\ pl[a].nonce = n /\ pl[a].owner = p.owner
          BY <4>1, <2>1, Zenon DEF Account
        <4>3. Lists(pl[a]) /\ Held(pl[a]) /\ Gapless(pl[a], n)
          BY <4>2, <2>2, <2>3, Zenon DEF Lists, Held, empty, Gapless
        <4>4. pl[a].nonce <= n
          BY <4>2, <2>1
        <4> QED BY <4>2, <4>3, <4>4, Zenon
      <3> QED BY <1>1, <3>1, <3>2, Zenon
    <2> DEFINE r == promote(pl[a], st[a], fails)
    <2>5. Lists(r) /\ Held(r) /\ r.all \subseteq pl[a].all /\ Gapless(r, n)
      <3>1. Lists(r) /\ Held(r) /\ r.all \subseteq pl[a].all
        BY <2>1, <2>4, PromoteKeeps, Zenon
      <3>2. CASE Runs(pl[a], n)
        <4>1. Runs(r, n)
          BY <3>2, <2>1, <2>4, PromoteKeeps, Zenon
        <4> HIDE DEF r, n
        <4>2. n <= n
          BY <2>1
        <4> QED BY <3>1, <4>1, <4>2, <2>1, GaplessLater
      <3>3. CASE pl[a].nonce <= n
        BY <3>1, <3>3, <2>1, <2>4, PromoteKeeps, Zenon
      <3> QED BY <3>2, <3>3, <2>4, Zenon
    <2>6. promoted[a] = pl[a] \/ promoted[a] = r
      BY Zenon
    <2>7. demoted[a] = promoted[a] \/ demoted[a] = demote(promoted[a], st[a], fails)
      OBVIOUS
    <2> HIDE DEF r, promoted
    <2>8. Lists(promoted[a]) /\ Held(promoted[a]) /\ promoted[a].all \subseteq p.all /\ Gapless(promoted[a], n)
      BY <2>4, <2>5, <2>6, Zenon
    <2>9. Lists(demoted[a]) /\ Held(demoted[a]) /\ demoted[a].all \subseteq p.all /\ Gapless(demoted[a], n)
      BY <2>1, <2>7, <2>8, DemoteKeeps, Zenon
    <2> HIDE DEF demoted
    <2>10. Lists(last[a]) /\ Held(last[a]) /\ last[a].all \subseteq p.all /\ Runs(last[a], n)
      BY <2>9, NextNoncesKeeps, Zenon
    <2> HIDE DEF last
    <2>11. \A t \in last[a].all : t.from = a
      BY <2>1, <2>10, Zenon DEF AccountInv
    <2>12. a \in Delegated => OneAhead(last[a], n)
      <3>1. p.all \subseteq Txs
        BY <2>1, Zenon DEF Account
      <3>2. \A t \in p.all : t.nonce <= state[a].nonce => t.nonce <= n
        BY <3>1, <2>1, TxTypes
      <3> QED BY <3>2, <2>1, <2>10, Zenon DEF AccountInv, OneAhead
    <2> QED BY <2>10, <2>11, <2>12, Zenon DEF AccountInv, Lists
  <1>3. last \in [Addrs -> Account]
    <2>1. DOMAIN last = Addrs /\ last = [a \in Addrs |-> last[a]]
      BY Zenon DEF nextNonces
    <2> HIDE DEF last
    <2> QED BY <1>2, <2>1, Zenon
  <1> HIDE DEF last
  <1>4. PoolInv(last, st)
    BY <1>2, <1>3, Zenon DEF PoolInv
  <1>5. PoolInv(pool', st)
    BY <1>1, <1>4, TruncatePendingKeeps, TruncateQueueKeeps, Zenon
  <1> QED BY <1>1, <1>5, Zenon DEF IInv

LEMMA InitEstablishes == Init => IInv
  <1> SUFFICES ASSUME Init PROVE IInv
    BY Zenon
  <1>1. state \in ChainStates /\ dirty \subseteq Addrs /\ \A a \in Addrs : state[a].nonce = 0
    BY Zenon DEF Init
  <1>2. ASSUME NEW a \in Addrs
        PROVE  /\ pool[a] \in Account /\ pool[a].pending = {} /\ pool[a].queue = {} /\ pool[a].all = {}
               /\ pool[a].store = {} /\ pool[a].nonce = 0 /\ pool[a].owner = "none"
    BY Zenon DEF Init, Account
  <1>3. ASSUME NEW a \in Addrs PROVE AccountInv(pool[a], a, state[a].nonce)
    <2>1. Lists(pool[a]) /\ Held(pool[a])
      BY <1>2, Zenon DEF Lists, Held, empty
    <2>2. Runs(pool[a], state[a].nonce)
      BY <1>1, <1>2 DEF Runs, nonceOf
    <2> QED BY <2>1, <2>2, <1>2, Zenon DEF AccountInv, OneAhead
  <1>4. pool \in [Addrs -> Account]
    BY <1>2, Zenon DEF Init
  <1> QED BY <1>1, <1>3, <1>4, Zenon DEF IInv, PoolInv

LEMMA NextPreserves == IInv /\ [Next]_vars => IInv'
  <1> SUFFICES ASSUME IInv, [Next]_vars PROVE IInv'
    BY Zenon
  <1>1. CASE UNCHANGED vars
    BY <1>1, Zenon DEF vars, IInv, PoolInv
  <1>2. CASE AddStep
    BY <1>2, AddKeeps, Zenon DEF AddStep
  <1>3. CASE PromoteStep
    BY <1>3, RunPromoteKeeps, Zenon DEF PromoteStep
  <1>4. CASE ResetStep
    BY <1>4, RunResetKeeps, Zenon DEF ResetStep
  <1>5. CASE \/ \E tx \in Txs : RemoveTx(tx) \/ SetGasTip(tx.price)
             \/ \E a \in Addrs : Evict(a)
    BY <1>5, RemovalsKeep, Zenon
  <1>6. CASE \E a \in Addrs : OtherHold(a) \/ OtherRelease(a)
    BY <1>6, OtherPoolKeeps, Zenon
  <1> QED BY <1>1, <1>2, <1>3, <1>4, <1>5, <1>6, Zenon DEF Next

LEMMA IInvAlways == Spec => []IInv
  BY InitEstablishes, NextPreserves, PTL DEF Spec

-----------------------------------------------------------------------------
\* The maps of the pool keep their types, and a transaction is filed under its
\* sender.
THEOREM Types == Spec => []TypeOK
  <1>1. ASSUME IInv PROVE TypeOK
    <2>1. ASSUME NEW a \in Addrs
          PROVE  /\ pool[a].nonce \in Nat /\ pool[a].owner \in {"none", "evm", "other"}
                 /\ \A list \in {pool[a].pending, pool[a].queue, pool[a].all, pool[a].store} :
                      list \subseteq {t \in Txs : t.from = a}
      <3>1. pool[a] \in Account /\ AccountInv(pool[a], a, state[a].nonce)
        BY <1>1, Zenon DEF IInv, PoolInv
      <3>2. pool[a].all \subseteq {t \in Txs : t.from = a}
        BY <3>1, Zenon DEF AccountInv, Account
      <3>3. /\ pool[a].pending \subseteq pool[a].all /\ pool[a].queue \subseteq pool[a].all
            /\ pool[a].store \subseteq pool[a].all
        BY <3>1, Zenon DEF AccountInv, Lists
      <3>4. pool[a].nonce \in Nat /\ pool[a].owner \in {"none", "evm", "other"}
        BY <3>1, Zenon DEF Account
      <3> QED BY <3>2, <3>3, <3>4, Zenon
    <2> QED BY <1>1, <2>1, Zenon DEF TypeOK, IInv
  <1> QED BY <1>1, IInvAlways, PTL

\* The lookup of pooled transactions holds exactly what the pending and the
\* queued lists hold, and no account holds two transactions of one nonce: the
\* errors of enqueueTx and promoteTx that runReorg ignores never happen.
THEOREM LookupMatchesLists == Spec => []AllIsPendingPlusQueue
  <1>1. IInv => AllIsPendingPlusQueue
    BY Zenon DEF IInv, PoolInv, AccountInv, Lists, AllIsPendingPlusQueue
  <1> QED BY <1>1, IInvAlways, PTL

\* The nonce the pool gives out for an account follows its last pending
\* transaction, also while runs for new heads are cancelled half way.
THEOREM NonceFollowsPending == Spec => []LivePendingNonceMatches
  <1>1. ASSUME IInv, NEW a \in Addrs
        PROVE  LET live == {t \in pool[a].pending : t.nonce >= state[a].nonce}
               IN IF live # {} THEN pool[a].nonce = lastNonce(live) + 1 ELSE pool[a].nonce <= state[a].nonce
    <2> DEFINE live == {t \in pool[a].pending : t.nonce >= state[a].nonce}
               n == state[a].nonce
               nonce == pool[a].nonce
    <2>1. pool[a] \in Account /\ Runs(pool[a], n) /\ n \in Nat
      BY <1>1, StateTypes, Zenon DEF IInv, PoolInv, AccountInv
    <2>2. nonce \in Nat /\ live \in SUBSET Txs /\ pool[a].pending \subseteq Txs
      BY <2>1, Zenon DEF Account
    <2>3. \A m \in Nat : m >= n => (m \in nonceOf(live) <=> m < nonce)
      BY <2>1, Zenon DEF Runs, nonceOf
    <2>4. CASE live = {}
      <3>1. \A m \in Nat : m >= n => ~(m < nonce)
        BY <2>3, <2>4, Zenon DEF nonceOf
      <3> QED BY <2>1, <2>2, <2>4, <3>1
    <2>5. CASE live # {}
      <3>1. /\ lastNonce(live) \in Nat /\ lastNonce(live) \in nonceOf(live)
            /\ \A t \in live : t.nonce <= lastNonce(live)
        BY <2>2, <2>5, LastNonce, Zenon
      <3>2. lastNonce(live) >= n
        BY <3>1, Zenon DEF nonceOf
      <3>3. \A m \in nonceOf(live) : m <= lastNonce(live)
        BY <3>1, Zenon DEF nonceOf
      <3> HIDE DEF live, n, nonce
      <3>4. nonce > lastNonce(live)
        BY <2>2, <2>3, <3>1, <3>2, Zenon
      <3>5. ~(nonce - 1 > lastNonce(live))
        BY <2>1, <2>2, <2>3, <3>1, <3>2, <3>3
      <3>6. nonce = lastNonce(live) + 1
        BY <2>2, <3>1, <3>4, <3>5
      <3> QED BY <2>5, <3>6, Zenon DEF live, nonce
    <2> QED BY <2>4, <2>5, Zenon
  <1>2. IInv => LivePendingNonceMatches
    BY <1>1, Zenon DEF LivePendingNonceMatches
  <1> QED BY <1>2, IInvAlways, PTL

\* Pending lists have no holes from the nonce of the state on: the gap that
\* demoteUnexecutables looks for does not happen.
THEOREM NoGapInFront == Spec => []PendingNeverGapped
  <1>1. ASSUME IInv, NEW a \in Addrs PROVE Gapless(pool[a], state[a].nonce)
    <2>1. Lists(pool[a]) /\ Runs(pool[a], state[a].nonce) /\ state[a].nonce \in Nat
      BY <1>1, StateTypes, Zenon DEF IInv, PoolInv, AccountInv
    <2>2. state[a].nonce <= state[a].nonce
      BY <2>1
    <2> QED BY <2>1, <2>2, GaplessLater, Zenon
  <1>2. IInv => PendingNeverGapped
    BY <1>1, Zenon DEF PendingNeverGapped, Gapless
  <1> QED BY <1>2, IInvAlways, PTL

\* The EVM pool holds the reservation of exactly the senders it has
\* transactions of, although add releases in the middle of making room.
THEOREM ReservedWhilePooled == Spec => []ReservationMatches
  <1>1. IInv => ReservationMatches
    BY Zenon DEF IInv, PoolInv, AccountInv, Held, ReservationMatches
  <1> QED BY <1>1, IInvAlways, PTL

\* Only pending transactions are offered to a proposal.
THEOREM OffersPending == Spec => []StoreWithinPending
  <1>1. IInv => StoreWithinPending
    BY Zenon DEF IInv, PoolInv, AccountInv, Lists, StoreWithinPending
  <1> QED BY <1>1, IInvAlways, PTL

\* An account with delegated code has at most one transaction in flight.
THEOREM DelegatedLimit == Spec => []DelegatedOneInFlight
  <1>1. ASSUME IInv, NEW a \in Delegated
        PROVE  Cardinality({t \in pool[a].all : t.nonce >= state[a].nonce}) <= 1
    <2> DEFINE ahead == {t \in pool[a].all : t.nonce >= state[a].nonce}
    <2>1. a \in Addrs
      BY PoolAssumption, Zenon
    <2>2. /\ state[a].nonce \in Nat /\ Lists(pool[a]) /\ OneAhead(pool[a], state[a].nonce)
      BY <1>1, <2>1, StateTypes, Zenon DEF IInv, PoolInv, AccountInv
    <2>3. \A t \in pool[a].all : t.nonce \in Nat
      BY <2>2, TxTypes, Zenon DEF Lists, Account
    <2>4. \A t \in ahead : t.nonce = state[a].nonce
      BY <2>2, <2>3 DEF OneAhead
    <2>5. \A t, u \in ahead : t = u
      BY <2>2, <2>4, Zenon DEF Lists
    <2> HIDE DEF ahead
    <2>6. ahead = {} \/ \E t \in ahead : ahead = {t}
      BY <2>5, Zenon
    <2>7. Cardinality(ahead) \in {0, 1}
      BY <2>6, FS_EmptySet, FS_Singleton, Zenon
    <2> QED BY <2>7 DEF ahead
  <1>2. IInv => DelegatedOneInFlight
    BY <1>1, Zenon DEF DelegatedOneInFlight
  <1> QED BY <1>2, IInvAlways, PTL
=============================================================================
