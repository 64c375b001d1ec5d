------------------------- MODULE RecheckPoolProofs -------------------------
(***************************************************************************)
(* The Cosmos pool and the reservations it shares with the EVM pool, for   *)
(* every set of accounts, transactions and inserting goroutines.           *)
(*                                                                         *)
(* EvmReservationSafe: a call of one pool leaves every address the other   *)
(* pool owns as it is (two lemmas about Hold and Release), so only the EVM *)
(* pool itself can end a reservation of the EVM pool.                      *)
(*                                                                         *)
(* ProposalsExecutable: the store and the context that inserts are         *)
(* validated against grow in step, from the same base.  StoreInv says so;  *)
(* it also shows that an insert that passes the ante handler has a         *)
(* sequence no stored transaction has, so markTxInserted invalidates       *)
(* nothing.                                                                *)
(*                                                                         *)
(* RecheckKeepsPassed: while a recheck runs, the store, what is left to    *)
(* check and what is to be removed divide the pool (RunInv).               *)
(*                                                                         *)
(* A leaf that needs no arithmetic names Zenon.                            *)
(***************************************************************************)
EXTENDS RecheckPool, TLAPS

Owners == {NoOwner, Cosmos, Evm}

\* Hold never changes the owner of an address that has one.
LEMMA HoldKeepsOwned ==
  ASSUME NEW acc, NEW id, NEW addrs, NEW a \in DOMAIN acc,
         DOMAIN addrs \subseteq Nat \ {0}, acc[a] # NoOwner
  PROVE  Hold(acc, id, addrs).accounts[a] = acc[a]
  <1> DEFINE stops == {i \in DOMAIN addrs : acc[addrs[i]] # NoOwner} \cup repeated(addrs)
             taken == before(addrs, stops)
  <1>1. a \notin taken
    <2> SUFFICES ASSUME NEW j \in DOMAIN addrs, addrs[j] = a, \A k \in 1..j : k \notin stops
                 PROVE  FALSE
      BY Zenon DEF before
    <2>1. j \in 1..j
      OBVIOUS
    <2> QED BY <2>1, Zenon
  <1>2. Hold(acc, id, addrs).accounts = [b \in DOMAIN acc |-> IF b \in taken THEN id ELSE acc[b]]
    BY Zenon DEF Hold
  <1> QED BY <1>1, <1>2, Zenon

\* Release never changes the owner of an address of another pool.
LEMMA ReleaseKeepsOthers ==
  ASSUME NEW acc, NEW id, NEW addrs, NEW a \in DOMAIN acc,
         DOMAIN addrs \subseteq Nat \ {0}, acc[a] # id
  PROVE  Release(acc, id, addrs).accounts[a] = acc[a]
  <1> DEFINE stops == {i \in DOMAIN addrs : acc[addrs[i]] # id} \cup repeated(addrs)
             freed == before(addrs, stops)
  <1>1. a \notin freed
    <2> SUFFICES ASSUME NEW j \in DOMAIN addrs, addrs[j] = a, \A k \in 1..j : k \notin stops
                 PROVE  FALSE
      BY Zenon DEF before
    <2>1. j \in 1..j
      OBVIOUS
    <2> QED BY <2>1, Zenon
  <1>2. Release(acc, id, addrs).accounts = [b \in DOMAIN acc |-> IF b \in freed THEN NoOwner ELSE acc[b]]
    BY Zenon DEF Release
  <1> QED BY <1>1, <1>2, Zenon

\* Both calls return a table of the same type.
LEMMA TableType ==
  ASSUME NEW acc \in [Addrs -> Owners], NEW id \in {Cosmos, Evm}, NEW addrs
  PROVE  /\ Hold(acc, id, addrs).accounts \in [Addrs -> Owners]
         /\ Release(acc, id, addrs).accounts \in [Addrs -> Owners]
  BY Zenon DEF Hold, Release, Owners

\* A successful Hold of one address makes the pool its owner.
LEMMA HoldOneOwns ==
  ASSUME NEW acc \in [Addrs -> Owners], NEW id \in {Cosmos, Evm}, NEW a \in Addrs,
         ~Hold(acc, id, <<a>>).err
  PROVE  Hold(acc, id, <<a>>).accounts[a] = id
  <1> DEFINE addrs == <<a>>
             stops == {i \in DOMAIN addrs : acc[addrs[i]] # NoOwner} \cup repeated(addrs)
             taken == before(addrs, stops)
  <1>1. DOMAIN addrs = {1} /\ addrs[1] = a /\ repeated(addrs) = {} /\ 1..1 = {1} /\ 1..(1 - 1) = {}
    BY DEF repeated
  <1>2. acc[a] \in {NoOwner, id}
    BY <1>1, Zenon DEF Hold
  <1>3. Hold(acc, id, addrs).accounts = [b \in Addrs |-> IF b \in taken THEN id ELSE acc[b]]
    BY Zenon DEF Hold
  <1>4. CASE acc[a] = id
    BY <1>3, <1>4, Zenon
  <1>5. CASE acc[a] = NoOwner
    <2>1. a \in taken
      BY <1>1, <1>5, Zenon DEF before
    <2> QED BY <2>1, <1>3, Zenon
  <1> QED BY <1>2, <1>4, <1>5, Zenon

\* What the locals of runRecheck are, without the bounds on sequences.
RunState == [pc : {"idle", "check", "remove", "end"}, left : SUBSET Txs, removeTxs : Seq(Txs),
             failedAtSequence : [Addrs -> Int]]

IInv ==
  /\ pool \subseteq Txs
  /\ accounts \in [Addrs -> Owners]
  /\ evm \in [Addrs -> {"no", "adding", "has"}]
  /\ inserter \in [Inserters -> [pc : {"idle", "held"}, tx : Txs]]
  /\ run \in RunState
  /\ EvmKeepsReservation

\* A transaction's signer addresses can be handed to the reserver.
LEMMA SignerFacts ==
  ASSUME NEW tx \in Txs
  PROVE  /\ DOMAIN signerAddresses(tx) \subseteq Nat \ {0}
         /\ \A a \in accountsOf(tx) : nonce(tx, a) \in Int
  <1>1. tx.sigs \in Seq([account : Addrs, seq : 0..(MaxSeq - 1)])
    BY TxsAssumption, Zenon
  <1>2. ASSUME NEW a \in accountsOf(tx)
        PROVE  nonce(tx, a) \in Int
    <2>1. \E i \in DOMAIN tx.sigs : tx.sigs[i].account = a
      BY Zenon DEF accountsOf
    <2>2. (CHOOSE i \in DOMAIN tx.sigs : tx.sigs[i].account = a) \in DOMAIN tx.sigs
      BY <2>1, Zenon
    <2>3. \A j \in DOMAIN tx.sigs : tx.sigs[j] \in [account : Addrs, seq : 0..(MaxSeq - 1)]
      <3> DEFINE Sig == [account : Addrs, seq : 0..(MaxSeq - 1)]
                 sigs == tx.sigs
      <3>1. sigs \in Seq(Sig)
        BY <1>1, Zenon
      <3> HIDE DEF Sig, sigs
      <3>2. \A j \in DOMAIN sigs : sigs[j] \in Sig
        BY <3>1
      <3> QED BY <3>2, Zenon DEF Sig, sigs
    <2>4. \A j \in DOMAIN tx.sigs : tx.sigs[j].seq \in Int
      BY <2>3, BoundsAssumption
    <2> QED BY <2>2, <2>4, Zenon DEF nonce
  <1> QED BY <1>1, <1>2 DEF signerAddresses

\* A Cosmos-side call that changes only the table keeps EVM reservations.
LEMMA CosmosCallsPreserve ==
  ASSUME IInv, NEW tx \in Txs, UNCHANGED evm,
         \/ accounts' = accounts
         \/ accounts' = Hold(accounts, Cosmos, signerAddresses(tx)).accounts
         \/ accounts' = Release(accounts, Cosmos, signerAddresses(tx)).accounts
  PROVE  accounts' \in [Addrs -> Owners] /\ EvmKeepsReservation'
  <1>1. accounts' \in [Addrs -> Owners]
    BY TableType DEF IInv
  <1>2. ASSUME NEW a \in Addrs, accounts[a] = Evm
        PROVE  accounts'[a] = Evm
    <2>1. a \in DOMAIN accounts /\ Evm # NoOwner /\ Evm # Cosmos
      BY Zenon DEF IInv, Evm, NoOwner, Cosmos
    <2>2. Hold(accounts, Cosmos, signerAddresses(tx)).accounts[a] = Evm
      BY <1>2, <2>1, SignerFacts, HoldKeepsOwned
    <2>3. Release(accounts, Cosmos, signerAddresses(tx)).accounts[a] = Evm
      BY <1>2, <2>1, SignerFacts, ReleaseKeepsOthers
    <2> QED BY <1>2, <2>2, <2>3, Zenon
  <1> QED BY <1>1, <1>2, Zenon DEF IInv, EvmKeepsReservation

LEMMA InitEstablishes == Init => IInv
  <1> SUFFICES ASSUME Init PROVE IInv
    BY Zenon
  <1>1. (CHOOSE tx \in Txs : TRUE) \in Txs
    BY TxsAssumption, Zenon
  <1>2. run \in RunState
    BY BoundsAssumption DEF Init, RunState, NoFailure
  <1> QED BY <1>1, <1>2, Zenon DEF Init, IInv, Owners, EvmKeepsReservation

LEMMA InsertPreserves ==
  ASSUME IInv, NEW i \in Inserters,
         (\E tx \in Txs : InsertHold(i, tx)) \/ InsertNoContext(i) \/ InsertLocked(i)
  PROVE  IInv'
  <1>1. PICK tx \in Txs : \/ accounts' = accounts
                         \/ accounts' = Hold(accounts, Cosmos, signerAddresses(tx)).accounts
                         \/ accounts' = Release(accounts, Cosmos, signerAddresses(tx)).accounts
    BY TxsAssumption, Zenon DEF IInv, InsertHold, InsertNoContext, InsertLocked
  <1>2. UNCHANGED <<evm, run>>
    BY Zenon DEF InsertHold, InsertNoContext, InsertLocked
  <1>3. inserter' \in [Inserters -> [pc : {"idle", "held"}, tx : Txs]]
    BY DEF IInv, InsertHold, InsertNoContext, InsertLocked
  <1>4. pool' \subseteq Txs
    BY DEF IInv, InsertHold, InsertNoContext, InsertLocked
  <1> QED BY <1>1, <1>2, <1>3, <1>4, CosmosCallsPreserve, Zenon DEF IInv

LEMMA RecheckPreserves ==
  ASSUME IInv,
         \/ \E tx \in Txs : Remove(tx) \/ Commit(tx) \/ RunPass(tx) \/ RunFail(tx)
         \/ RunStart \/ RunCancelled \/ RunChecked \/ RunRemove \/ RunEnd
  PROVE  IInv'
  <1>0. run.removeTxs \in Seq(Txs) /\ (run.removeTxs # <<>> => Head(run.removeTxs) \in Txs)
    BY DEF IInv, RunState
  <1>1. PICK t \in Txs : \/ accounts' = accounts
                         \/ accounts' = Release(accounts, Cosmos, signerAddresses(t)).accounts
    <2>1. CASE \E tx \in Txs : Remove(tx)
      BY <2>1, Zenon DEF Remove
    <2>2. CASE RunRemove
      BY <2>2, <1>0, TxsAssumption, Zenon DEF RunRemove
    <2>3. CASE accounts' = accounts
      BY <2>3, TxsAssumption, Zenon
    <2> QED BY <2>1, <2>2, <2>3, Zenon DEF Commit, RunPass, RunFail, RunStart, RunCancelled, RunChecked, RunEnd
  <1>2. UNCHANGED <<evm, inserter>>
    BY Zenon DEF Remove, Commit, RunPass, RunFail, RunStart, RunCancelled, RunChecked, RunRemove, RunEnd
  <1>3. run' \in RunState
    <2>1. ASSUME NEW tx \in Txs, Remove(tx) \/ Commit(tx) \/ RunPass(tx)
          PROVE  run' \in RunState
      BY <2>1 DEF IInv, RunState, Remove, Commit, RunPass
    <2>2. ASSUME NEW tx \in Txs, RunFail(tx)
          PROVE  run' \in RunState
      <3>1. \A a \in accountsOf(tx) : nonce(tx, a) \in Int
        BY SignerFacts, Zenon
      <3> DEFINE failed == [a \in Addrs |-> IF a \in accountsOf(tx) /\ nonce(tx, a) < run.failedAtSequence[a]
                                            THEN nonce(tx, a) ELSE run.failedAtSequence[a]]
      <3>2. run' = [run EXCEPT !.left = @ \ {tx}, !.removeTxs = Append(@, tx), !.failedAtSequence = failed]
        BY <2>2, Zenon DEF RunFail
      <3>3. failed \in [Addrs -> Int]
        BY <3>1, Zenon DEF IInv, RunState
      <3>4. Append(run.removeTxs, tx) \in Seq(Txs)
        BY <1>0
      <3> HIDE DEF failed
      <3> QED BY <3>2, <3>3, <3>4, Zenon DEF IInv, RunState
    <2>3. CASE RunStart
      <3>1. [a \in Addrs |-> NoFailure] \in [Addrs -> Int] /\ <<>> \in Seq(Txs)
        BY BoundsAssumption DEF NoFailure
      <3>2. CASE run' = [run EXCEPT !.pc = "end"]
        BY <3>2, Zenon DEF IInv, RunState
      <3>3. CASE run' = [pc |-> "check", left |-> pool, removeTxs |-> <<>>,
                         failedAtSequence |-> [a \in Addrs |-> NoFailure]]
        BY <3>1, <3>3, Zenon DEF IInv, RunState
      <3> QED BY <2>3, <3>2, <3>3, Zenon DEF RunStart
    <2>4. CASE RunCancelled \/ RunChecked
      BY <2>4, Zenon DEF IInv, RunState, RunCancelled, RunChecked
    <2>5. CASE RunRemove
      <3>1. run.removeTxs # <<>> => Tail(run.removeTxs) \in Seq(Txs)
        BY <1>0
      <3> QED BY <2>5, <3>1, Zenon DEF IInv, RunState, RunRemove
    <2>6. CASE RunEnd
      <3>1. <<>> \in Seq(Txs)
        OBVIOUS
      <3> QED BY <2>6, <3>1, Zenon DEF IInv, RunState, RunEnd
    <2> QED BY <2>1, <2>2, <2>3, <2>4, <2>5, <2>6, Zenon
  <1>4. pool' \subseteq Txs
    BY Zenon DEF IInv, Remove, Commit, RunPass, RunFail, RunStart, RunCancelled, RunChecked, RunRemove, RunEnd
  <1> QED BY <1>1, <1>2, <1>3, <1>4, CosmosCallsPreserve, Zenon DEF IInv

\* The EVM pool's own calls change the reservation of one address only.
LEMMA EvmPreserves ==
  ASSUME IInv, NEW a \in Addrs, EvmHold(a) \/ EvmAdd(a) \/ EvmRelease(a)
  PROVE  IInv'
  <1>1. UNCHANGED <<inserter, run, pool>>
    BY Zenon DEF EvmHold, EvmAdd, EvmRelease
  <1>2. evm' \in [Addrs -> {"no", "adding", "has"}]
    BY Zenon DEF IInv, EvmHold, EvmAdd, EvmRelease
  <1>3. accounts' \in [Addrs -> Owners]
    BY TableType DEF IInv, EvmHold, EvmAdd, EvmRelease
  <1>4. DOMAIN <<a>> \subseteq Nat \ {0}
    OBVIOUS
  <1>5. ASSUME NEW b \in Addrs, evm'[b] # "no"
        PROVE  accounts'[b] = Evm
    <2>1. CASE EvmHold(a) /\ b = a
      BY <2>1, HoldOneOwns, Zenon DEF EvmHold, IInv
    <2>2. CASE EvmHold(a) /\ b # a
      <3>1. accounts[b] = Evm
        BY <2>2, <1>5, Zenon DEF EvmHold, IInv, EvmKeepsReservation
      <3> QED BY <3>1, <2>2, <1>4, HoldKeepsOwned DEF EvmHold, IInv, Evm, NoOwner
    <2>3. CASE EvmAdd(a)
      BY <2>3, <1>5, Zenon DEF EvmAdd, IInv, EvmKeepsReservation
    <2>4. CASE EvmRelease(a)
      <3>1. b # a /\ accounts[b] = Evm
        BY <2>4, <1>5, Zenon DEF EvmRelease, IInv, EvmKeepsReservation
      <3>2. accounts'[b] = accounts[b]
        <4> DEFINE stops == {i \in DOMAIN <<a>> : accounts[<<a>>[i]] # Evm} \cup repeated(<<a>>)
        <4>1. b \notin before(<<a>>, stops)
          BY <3>1 DEF before
        <4>2. Release(accounts, Evm, <<a>>).accounts =
                [c \in DOMAIN accounts |-> IF c \in before(<<a>>, stops) THEN NoOwner ELSE accounts[c]]
          BY Zenon DEF Release
        <4> QED BY <4>1, <4>2, <2>4, Zenon DEF EvmRelease, IInv
      <3> QED BY <3>1, <3>2, Zenon
    <2> QED BY <2>1, <2>2, <2>3, <2>4, Zenon
  <1> QED BY <1>1, <1>2, <1>3, <1>5, Zenon DEF IInv, EvmKeepsReservation

LEMMA NextPreserves == IInv /\ [Next]_vars => IInv'
  <1> SUFFICES ASSUME IInv, [Next]_vars PROVE IInv'
    BY Zenon
  <1>1. CASE \E i \in Inserters : (\E tx \in Txs : InsertHold(i, tx)) \/ InsertNoContext(i) \/ InsertLocked(i)
    BY <1>1, InsertPreserves, Zenon
  <1>2. CASE \/ \E tx \in Txs : Remove(tx) \/ Commit(tx) \/ RunPass(tx) \/ RunFail(tx)
             \/ RunStart \/ RunCancelled \/ RunChecked \/ RunRemove \/ RunEnd
    BY <1>2, RecheckPreserves, Zenon
  <1>3. CASE \E a \in Addrs : EvmHold(a) \/ EvmAdd(a) \/ EvmRelease(a)
    BY <1>3, EvmPreserves, Zenon
  <1>4. CASE UNCHANGED vars
    BY <1>4, Zenon DEF vars, IInv, EvmKeepsReservation
  <1> QED BY <1>1, <1>2, <1>3, <1>4, Zenon DEF Next

\* However the Cosmos pool inserts, fails, rechecks and removes, an address
\* with EVM transactions stays reserved to the EVM pool.
THEOREM EvmReservationSafe == Spec => []EvmKeepsReservation
  <1>1. IInv => EvmKeepsReservation
    BY Zenon DEF IInv
  <1> QED BY <1>1, InitEstablishes, NextPreserves, PTL DEF Spec

(***************************************************************************)
(* The store of the current height.  It is filled in three ways, by a      *)
(* recheck, by inserts after it and by inserts before the first one; each  *)
(* extends it by a transaction that carries the next sequences of the      *)
(* context, so store and context grow in step.                             *)
(***************************************************************************)
seqsIn(s, a) == {nonce(tx, a) : tx \in {t \in s : a \in accountsOf(t)}}

\* What StoreExecutable says of a store and a context.
Executable(s, ctx) ==
  \A a \in Addrs :
    /\ seqsIn(s, a) = ctx.base[a]..(ctx.seqs[a] - 1)
    /\ \A t, u \in s : (a \in accountsOf(t) \cap accountsOf(u) /\ nonce(t, a) = nonce(u, a)) => t = u

Context == [ready : BOOLEAN, seqs : [Addrs -> Nat], base : [Addrs -> Nat]]

\* A context never falls behind its base; before there is one nothing is stored
\* and nothing rechecked.
StoreInv ==
  /\ store \subseteq Txs /\ chainSeq \in [Addrs -> Nat]
  /\ rechecker \in Context /\ \A a \in Addrs : rechecker.base[a] <= rechecker.seqs[a]
  /\ ~rechecker.ready => store = {} /\ run.pc # "check"
  /\ synced => Executable(store, rechecker)

LEMMA StoreInvSafe == StoreInv => StoreExecutable
  BY Zenon DEF StoreInv, StoreExecutable, Executable, storedSeqs, seqsIn

\* Every transaction has a signer, and its signers are accounts.
LEMMA Signers == ASSUME NEW tx \in Txs PROVE accountsOf(tx) # {} /\ accountsOf(tx) \subseteq Addrs
  <1> DEFINE Sig == [account : Addrs, seq : 0..(MaxSeq - 1)]
             sigs == tx.sigs
  <1>1. sigs \in Seq(Sig) /\ sigs # <<>>
    BY TxsAssumption, Zenon
  <1>2. accountsOf(tx) = {sigs[i].account : i \in DOMAIN sigs}
    BY Zenon DEF accountsOf
  <1> HIDE DEF Sig, sigs
  <1>3. 1 \in DOMAIN sigs /\ \A i \in DOMAIN sigs : sigs[i] \in Sig
    BY <1>1
  <1>4. \A i \in DOMAIN sigs : sigs[i].account \in Addrs
    BY <1>3, Zenon DEF Sig
  <1> QED BY <1>2, <1>3, <1>4, Zenon

\* A context without transactions.
LEMMA EmptyExecutable ==
  ASSUME NEW ctx, NEW seqs \in [Addrs -> Nat], ctx.base = seqs, ctx.seqs = seqs
  PROVE  Executable({}, ctx)
  <1>1. \A a \in Addrs : seqs[a]..(seqs[a] - 1) = {}
    OBVIOUS
  <1>2. \A a \in Addrs : seqsIn({}, a) = {}
    BY Zenon DEF seqsIn
  <1> QED BY <1>1, <1>2, Zenon DEF Executable

\* The context advanced past a transaction.
LEMMA WriteContext ==
  ASSUME NEW ctx \in Context, NEW tx, \A a \in Addrs : ctx.base[a] <= ctx.seqs[a]
  PROVE  /\ write(ctx, tx) \in Context
         /\ write(ctx, tx).ready = ctx.ready /\ write(ctx, tx).base = ctx.base
         /\ write(ctx, tx).seqs = [a \in Addrs |-> IF a \in accountsOf(tx) THEN ctx.seqs[a] + 1 ELSE ctx.seqs[a]]
         /\ \A a \in Addrs : ctx.base[a] <= write(ctx, tx).seqs[a]
  <1> DEFINE next == advance(ctx.seqs, tx)
  <1>1. next = [a \in Addrs |-> IF a \in accountsOf(tx) THEN ctx.seqs[a] + 1 ELSE ctx.seqs[a]]
    BY Zenon DEF advance
  <1>2. ctx.seqs \in [Addrs -> Nat] /\ ctx.base \in [Addrs -> Nat]
    BY Zenon DEF Context
  <1>3. next \in [Addrs -> Nat] /\ \A a \in Addrs : ctx.base[a] <= next[a]
    BY <1>1, <1>2
  <1>4. write(ctx, tx) = [ctx EXCEPT !.seqs = next]
    BY Zenon DEF write
  <1> HIDE DEF next
  <1> QED BY <1>1, <1>3, <1>4, Zenon DEF Context

\* A transaction with the next sequences extends an executable store.
LEMMA StoreGrows ==
  ASSUME NEW s, NEW ctx \in Context, NEW tx \in Txs, Executable(s, ctx), sequencesMatch(ctx.seqs, tx),
         \A a \in Addrs : ctx.base[a] <= ctx.seqs[a]
  PROVE  Executable(s \cup {tx}, write(ctx, tx))
  <1> DEFINE w == write(ctx, tx)
  <1>1. /\ w.base = ctx.base
        /\ w.seqs = [a \in Addrs |-> IF a \in accountsOf(tx) THEN ctx.seqs[a] + 1 ELSE ctx.seqs[a]]
    BY WriteContext, Zenon
  <1> HIDE DEF w
  <1> SUFFICES ASSUME NEW a \in Addrs
               PROVE  /\ seqsIn(s \cup {tx}, a) = w.base[a]..(w.seqs[a] - 1)
                      /\ \A t, u \in s \cup {tx} :
                           (a \in accountsOf(t) \cap accountsOf(u) /\ nonce(t, a) = nonce(u, a)) => t = u
    BY Zenon DEF Executable, w
  <1>2. seqsIn(s, a) = ctx.base[a]..(ctx.seqs[a] - 1)
    BY Zenon DEF Executable
  <1>3. ctx.base[a] \in Nat /\ ctx.seqs[a] \in Nat /\ ctx.base[a] <= ctx.seqs[a]
    BY Zenon DEF Context
  <1>4. CASE a \notin accountsOf(tx)
    <2>1. seqsIn(s \cup {tx}, a) = seqsIn(s, a)
      BY <1>4, Zenon DEF seqsIn
    <2>2. w.seqs[a] = ctx.seqs[a] /\ w.base[a] = ctx.base[a]
      BY <1>1, <1>4, Zenon
    <2> QED BY <2>1, <2>2, <1>2, <1>4, Zenon DEF Executable
  <1>5. CASE a \in accountsOf(tx)
    <2>1. nonce(tx, a) = ctx.seqs[a]
      BY <1>5, Zenon DEF sequencesMatch
    <2>2. seqsIn(s \cup {tx}, a) = seqsIn(s, a) \cup {ctx.seqs[a]}
      BY <1>5, <2>1, Zenon DEF seqsIn
    <2>3. w.seqs[a] = ctx.seqs[a] + 1 /\ w.base[a] = ctx.base[a]
      BY <1>1, <1>5, Zenon
    <2>4. (ctx.base[a]..(ctx.seqs[a] - 1)) \cup {ctx.seqs[a]} = w.base[a]..(w.seqs[a] - 1)
      BY <1>3, <2>3
    <2>5. \A t \in s : a \in accountsOf(t) => nonce(t, a) # nonce(tx, a)
      <3> SUFFICES ASSUME NEW t \in s, a \in accountsOf(t) PROVE nonce(t, a) # ctx.seqs[a]
        BY <2>1, Zenon
      <3>1. nonce(t, a) \in seqsIn(s, a)
        BY Zenon DEF seqsIn
      <3> QED BY <3>1, <1>2, <1>3
    <2>6. \A t, u \in s \cup {tx} :
            (a \in accountsOf(t) \cap accountsOf(u) /\ nonce(t, a) = nonce(u, a)) => t = u
      BY <2>5, Zenon DEF Executable
    <2>7. seqsIn(s \cup {tx}, a) = w.base[a]..(w.seqs[a] - 1)
      BY <2>2, <2>4, <1>2, Zenon
    <2> QED BY <2>6, <2>7, Zenon
  <1> QED BY <1>4, <1>5, Zenon

\* An insert never takes the branch of markTxInserted for a replacement: the
\* sequences it carries are not in the store.
LEMMA InsertNeverReplaces ==
  ASSUME NEW ctx \in Context, NEW tx \in Txs, Executable(store, ctx), sequencesMatch(ctx.seqs, tx)
  PROVE  markTxInserted(tx) = store \cup {tx}
  <1>1. ASSUME NEW old \in store, accountsOf(old) = accountsOf(tx),
               \A a \in accountsOf(tx) : nonce(old, a) = nonce(tx, a)
        PROVE  FALSE
    <2>1. PICK a \in accountsOf(tx) : a \in Addrs
      BY Signers, Zenon
    <2>2. nonce(old, a) = ctx.seqs[a]
      BY <1>1, <2>1, Zenon DEF sequencesMatch
    <2>3. nonce(old, a) \in seqsIn(store, a)
      BY <1>1, <2>1, Zenon DEF seqsIn
    <2>4. seqsIn(store, a) = ctx.base[a]..(ctx.seqs[a] - 1) /\ ctx.seqs[a] \in Nat /\ ctx.base[a] \in Nat
      BY <2>1, Zenon DEF Executable, Context
    <2> QED BY <2>2, <2>3, <2>4
  <1>2. invalidated(tx) = {}
    BY <1>1, Zenon DEF invalidated
  <1> QED BY <1>2, Zenon DEF markTxInserted

LEMMA InitStore == Init => StoreInv
  <1> SUFFICES ASSUME Init PROVE StoreInv
    BY Zenon
  <1>1. chainSeq \in [Addrs -> Nat] /\ store = {} /\ run.pc = "idle"
    BY Zenon DEF Init
  <1>2. rechecker \in Context /\ rechecker.base = chainSeq /\ rechecker.seqs = chainSeq
    BY <1>1 DEF Init, Context
  <1> QED BY <1>1, <1>2, EmptyExecutable DEF StoreInv

LEMMA InsertKeepsStore ==
  ASSUME IInv, StoreInv, NEW i \in Inserters, InsertLocked(i)
  PROVE  StoreInv'
  <1> DEFINE tx == inserter[i].tx
             ctx == freshContext
  <1>1. tx \in Txs /\ synced' = synced /\ chainSeq' = chainSeq
    BY Zenon DEF IInv, InsertLocked
  <1>2. ctx \in Context /\ ctx.ready /\ \A a \in Addrs : ctx.base[a] <= ctx.seqs[a]
    <2>1. \A a \in Addrs : chainSeq[a] <= chainSeq[a]
      BY DEF StoreInv
    <2>2. CASE rechecker.ready
      BY <2>2, Zenon DEF StoreInv, freshContext
    <2>3. CASE ~rechecker.ready
      BY <2>1, <2>3, Zenon DEF StoreInv, freshContext, Context
    <2> QED BY <2>2, <2>3, Zenon
  <1>3. synced => Executable(store, ctx)
    <2>1. CASE rechecker.ready
      BY <2>1, Zenon DEF StoreInv, freshContext
    <2>2. CASE ~rechecker.ready
      <3>1. store = {} /\ ctx.base = chainSeq /\ ctx.seqs = chainSeq /\ chainSeq \in [Addrs -> Nat]
        BY <2>2, Zenon DEF StoreInv, freshContext
      <3> QED BY <3>1, EmptyExecutable, Zenon
    <2> QED BY <2>1, <2>2, Zenon
  <1>4. \/ rechecker' = ctx /\ store' = store
        \/ /\ sequencesMatch(ctx.seqs, tx)
           /\ rechecker' = write(ctx, tx) /\ store' = markTxInserted(tx)
    BY Zenon DEF InsertLocked
  <1> HIDE DEF tx, ctx
  <1>5. CASE rechecker' = ctx /\ store' = store
    BY <1>1, <1>2, <1>3, <1>5, Zenon DEF StoreInv
  <1>6. CASE /\ sequencesMatch(ctx.seqs, tx)
             /\ rechecker' = write(ctx, tx) /\ store' = markTxInserted(tx)
    <2>1. /\ rechecker' \in Context /\ rechecker'.ready
          /\ \A a \in Addrs : rechecker'.base[a] <= rechecker'.seqs[a]
      BY <1>2, <1>6, WriteContext, Zenon
    <2>2. store' \subseteq Txs
      BY <1>1, <1>6, Zenon DEF StoreInv, markTxInserted
    <2>3. synced => Executable(store', rechecker')
      BY <1>1, <1>2, <1>3, <1>6, InsertNeverReplaces, StoreGrows
    <2> QED BY <1>1, <2>1, <2>2, <2>3, Zenon DEF StoreInv
  <1> QED BY <1>4, <1>5, <1>6, Zenon

LEMMA RecheckKeepsStore ==
  ASSUME IInv, StoreInv, RunStart \/ \E tx \in Txs : RunPass(tx)
  PROVE  StoreInv'
  <1>1. CASE RunStart
    <2>1. store' = {} /\ chainSeq' = chainSeq
      BY <1>1, Zenon DEF RunStart
    <2>2. CASE synced' = FALSE /\ rechecker' = rechecker /\ run' = [run EXCEPT !.pc = "end"]
      <3>1. run'.pc = "end"
        BY <2>2, Zenon DEF IInv, RunState
      <3> QED BY <2>1, <2>2, <3>1, Zenon DEF StoreInv
    <2>3. CASE rechecker' = [ready |-> TRUE, seqs |-> chainSeq, base |-> chainSeq]
      <3>1. chainSeq \in [Addrs -> Nat] /\ \A a \in Addrs : chainSeq[a] <= chainSeq[a]
        BY DEF StoreInv
      <3>2. rechecker' \in Context /\ rechecker'.ready /\ rechecker'.base = chainSeq /\ rechecker'.seqs = chainSeq
        BY <3>1, <2>3, Zenon DEF Context
      <3>3. Executable(store', rechecker')
        BY <2>1, <3>1, <3>2, EmptyExecutable, Zenon
      <3> QED BY <2>1, <3>1, <3>2, <3>3, Zenon DEF StoreInv
    <2> QED BY <1>1, <2>2, <2>3, Zenon DEF RunStart
  <1>2. ASSUME NEW tx \in Txs, RunPass(tx)
        PROVE  StoreInv'
    <2>1. /\ rechecker' = write(rechecker, tx) /\ store' = store \cup {tx} /\ synced' = synced
          /\ chainSeq' = chainSeq /\ sequencesMatch(rechecker.seqs, tx)
          /\ run.pc = "check"
      BY <1>2, Zenon DEF RunPass
    <2>2. /\ rechecker' \in Context /\ rechecker'.ready = rechecker.ready
          /\ \A a \in Addrs : rechecker'.base[a] <= rechecker'.seqs[a]
      BY <2>1, WriteContext, Zenon DEF StoreInv
    <2>3. synced => Executable(store', rechecker')
      BY <2>1, StoreGrows, Zenon DEF StoreInv
    <2> QED BY <2>1, <2>2, <2>3, Zenon DEF StoreInv
  <1> QED BY <1>1, <1>2, Zenon

\* The other steps leave store and context alone.
LEMMA OthersKeepStore ==
  ASSUME IInv, StoreInv,
         \/ \E i \in Inserters : (\E tx \in Txs : InsertHold(i, tx)) \/ InsertNoContext(i)
         \/ \E tx \in Txs : Remove(tx) \/ Commit(tx) \/ RunFail(tx)
         \/ RunCancelled \/ RunChecked \/ RunRemove \/ RunEnd
         \/ \E a \in Addrs : EvmHold(a) \/ EvmAdd(a) \/ EvmRelease(a)
         \/ UNCHANGED vars
  PROVE  StoreInv'
  <1>1. UNCHANGED <<store, rechecker, synced>>
    BY Zenon DEF InsertHold, InsertNoContext, Remove, Commit, RunFail, RunCancelled, RunChecked, RunRemove,
           RunEnd, EvmHold, EvmAdd, EvmRelease, vars
  <1>2. run.pc # "check" => run'.pc # "check"
    BY Zenon DEF InsertHold, InsertNoContext, Remove, Commit, RunFail, RunCancelled, RunChecked, RunRemove,
           RunEnd, EvmHold, EvmAdd, EvmRelease, vars, IInv, RunState
  <1>3. chainSeq' \in [Addrs -> Nat]
    <2>1. CASE chainSeq' = chainSeq
      BY <2>1, Zenon DEF StoreInv
    <2>2. ASSUME NEW tx \in Txs, Commit(tx) PROVE chainSeq' \in [Addrs -> Nat]
      BY <2>2 DEF StoreInv, Commit, advance
    <2> QED BY <2>1, <2>2, Zenon DEF InsertHold, InsertNoContext, Remove, RunFail, RunCancelled, RunChecked,
                              RunRemove, RunEnd, EvmHold, EvmAdd, EvmRelease, vars
  <1> QED BY <1>1, <1>2, <1>3, Zenon DEF StoreInv

LEMMA NextKeepsStore == IInv /\ StoreInv /\ [Next]_vars => StoreInv'
  BY InsertKeepsStore, RecheckKeepsStore, OthersKeepStore, Zenon DEF Next

\* However inserts, removals, commits and cancelled rechecks interleave, the
\* store a proposer reads runs without gap or repetition from the state the
\* recheck started with to the state inserts are validated against.
THEOREM ProposalsExecutable == Spec => []StoreExecutable
  BY InitEstablishes, NextPreserves, InitStore, NextKeepsStore, StoreInvSafe, PTL DEF Spec

(***************************************************************************)
(* A recheck that completes.  While it runs, nothing else touches the      *)
(* pool: each of its transactions has passed, has failed or is still to    *)
(* be checked.                                                             *)
(***************************************************************************)
Removing == {run.removeTxs[i] : i \in DOMAIN run.removeTxs}

RunInv ==
  run.pc \in {"check", "remove"} =>
    /\ pool = store \cup run.left \cup Removing
    /\ store \cap run.left = {} /\ store \cap Removing = {} /\ run.left \cap Removing = {}
    /\ \A i, j \in DOMAIN run.removeTxs : run.removeTxs[i] = run.removeTxs[j] => i = j
    /\ run.pc = "remove" => run.left = {}

LEMMA RunInvStart == ASSUME IInv, RunStart PROVE RunInv'
  <1>1. CASE run'.pc = "end"
    BY <1>1, Zenon DEF RunInv
  <1>2. CASE run'.pc # "end"
    <2>1. run'.pc = "check" /\ run'.left = pool /\ run'.removeTxs = <<>> /\ store' = {} /\ pool' = pool
      BY <1>2 DEF RunStart, IInv, RunState
    <2>2. Removing' = {} /\ DOMAIN run'.removeTxs = {}
      BY <2>1 DEF Removing
    <2> QED BY <2>1, <2>2, Zenon DEF RunInv
  <1> QED BY <1>1, <1>2, Zenon

LEMMA RunInvPass == ASSUME IInv, RunInv, NEW tx \in Txs, RunPass(tx) PROVE RunInv'
  <1>1. /\ run'.pc = run.pc /\ run'.left = run.left \ {tx} /\ run'.removeTxs = run.removeTxs
        /\ run.pc = "check" /\ tx \in run.left /\ pool' = pool /\ store' = store \cup {tx}
    BY Zenon DEF RunPass, IInv, RunState, nextTxs
  <1> QED BY <1>1 DEF RunInv, Removing

LEMMA RunInvFail == ASSUME IInv, RunInv, NEW tx \in Txs, RunFail(tx) PROVE RunInv'
  <1>1. /\ run'.pc = run.pc /\ run'.left = run.left \ {tx} /\ run'.removeTxs = Append(run.removeTxs, tx)
        /\ run.pc = "check" /\ tx \in run.left /\ pool' = pool /\ store' = store
    BY Zenon DEF RunFail, IInv, RunState, nextTxs
  <1> DEFINE s == run.removeTxs
             n == Len(s)
  <1>2. s \in Seq(Txs)
    BY Zenon DEF IInv, RunState
  <1>3. /\ DOMAIN run'.removeTxs = DOMAIN s \cup {n + 1} /\ run'.removeTxs[n + 1] = tx
        /\ \A i \in DOMAIN s : run'.removeTxs[i] = s[i] /\ i # n + 1
    BY <1>1, <1>2
  <1>4. Removing' = Removing \cup {tx}
    BY <1>3 DEF Removing
  <1>5. tx \notin Removing /\ tx \notin store
    BY <1>1, Zenon DEF RunInv
  <1>6. \A i, j \in DOMAIN run'.removeTxs : run'.removeTxs[i] = run'.removeTxs[j] => i = j
    BY <1>1, <1>3, <1>5, Zenon DEF RunInv, Removing
  <1> QED BY <1>1, <1>4, <1>5, <1>6, Zenon DEF RunInv

LEMMA RunInvRemove == ASSUME IInv, RunInv, RunRemove PROVE RunInv'
  <1> DEFINE s == run.removeTxs
  <1>1. s \in Seq(Txs) /\ run.pc = "remove" /\ store' = store
    BY Zenon DEF IInv, RunState, RunRemove
  <1>2. CASE s = <<>>
    BY <1>2, Zenon DEF RunRemove, RunInv, IInv, RunState
  <1>3. CASE s # <<>>
    <2>1. /\ run'.pc = "remove" /\ run'.left = run.left /\ run'.removeTxs = Tail(s)
          /\ pool' = pool \ {Head(s)}
      BY <1>1, <1>3, Zenon DEF RunRemove, IInv, RunState
    <2>2. /\ 1 \in DOMAIN s /\ Head(s) = s[1]
          /\ \A i \in DOMAIN Tail(s) : i + 1 \in DOMAIN s /\ Tail(s)[i] = s[i + 1] /\ i \in Nat
          /\ \A i \in DOMAIN s : i = 1 \/ (i - 1 \in DOMAIN Tail(s) /\ Tail(s)[i - 1] = s[i])
      BY <1>1, <1>3
    <2>3. \A i, j \in DOMAIN s : s[i] = s[j] => i = j
      BY <1>1, Zenon DEF RunInv
    <2> HIDE DEF s
    <2>4. \A i, j \in DOMAIN Tail(s) : Tail(s)[i] = Tail(s)[j] => i = j
      BY <2>2, <2>3
    <2>5. {Tail(s)[i] : i \in DOMAIN Tail(s)} = {s[i] : i \in DOMAIN s} \ {Head(s)}
      <3>1. ASSUME NEW i \in DOMAIN Tail(s)
            PROVE  Tail(s)[i] \in {s[j] : j \in DOMAIN s} \ {Head(s)}
        <4>1. i + 1 \in DOMAIN s /\ i + 1 # 1 /\ Tail(s)[i] = s[i + 1]
          BY <2>2, <3>1
        <4> QED BY <4>1, <2>2, <2>3, Zenon
      <3>2. ASSUME NEW i \in DOMAIN s, s[i] # Head(s)
            PROVE  s[i] \in {Tail(s)[j] : j \in DOMAIN Tail(s)}
        <4>1. i - 1 \in DOMAIN Tail(s) /\ Tail(s)[i - 1] = s[i]
          BY <2>2, <3>2, Zenon
        <4> QED BY <4>1, Zenon
      <3> QED BY <3>1, <3>2, Zenon
    <2>6. Removing' = Removing \ {Head(s)} /\ Head(s) \in Removing
      BY <2>1, <2>2, <2>5 DEF Removing, s
    <2> QED BY <1>1, <2>1, <2>4, <2>6 DEF RunInv
  <1> QED BY <1>2, <1>3, Zenon

LEMMA NextKeepsRun == IInv /\ RunInv /\ [Next]_vars => RunInv'
  <1> SUFFICES ASSUME IInv, RunInv, [Next]_vars PROVE RunInv'
    BY Zenon
  <1>1. CASE \E i \in Inserters : InsertLocked(i)
    BY <1>1, Zenon DEF InsertLocked, locked, RunInv
  <1>2. CASE \E tx \in Txs : Remove(tx)
    BY <1>2, Zenon DEF Remove, locked, RunInv
  <1>3. CASE \/ \E i \in Inserters : (\E tx \in Txs : InsertHold(i, tx)) \/ InsertNoContext(i)
             \/ \E tx \in Txs : Commit(tx)
             \/ \E a \in Addrs : EvmHold(a) \/ EvmAdd(a) \/ EvmRelease(a)
             \/ UNCHANGED vars
    <2>1. UNCHANGED <<run, pool, store>>
      BY <1>3, Zenon DEF InsertHold, InsertNoContext, Commit, EvmHold, EvmAdd, EvmRelease, vars
    <2> QED BY <2>1 DEF RunInv, Removing
  <1>4. CASE RunCancelled \/ RunEnd
    BY <1>4, Zenon DEF RunCancelled, RunEnd, RunInv, IInv, RunState
  <1>5. CASE RunChecked
    <2>1. run'.pc = "remove" /\ run'.left = run.left /\ run'.removeTxs = run.removeTxs /\ run.left = {}
          /\ run.pc = "check" /\ pool' = pool /\ store' = store
      BY <1>5, Zenon DEF RunChecked, IInv, RunState
    <2> QED BY <2>1 DEF RunInv, Removing
  <1> QED BY <1>1, <1>2, <1>3, <1>4, <1>5, RunInvStart, RunInvPass, RunInvFail, RunInvRemove, Zenon DEF Next

\* When a recheck completes, the pool holds exactly the transactions that
\* passed, for any pool and however the checks end.
THEOREM RecheckKeepsPassed == Spec => FullRecheckMatchesPool
  <1>1. Init => RunInv
    BY DEF Init, RunInv
  <1>2. ASSUME IInv, RunInv, [Next]_vars, run.pc = "remove", run'.pc = "idle"
        PROVE  pool' = store'
    <2>1. CASE RunRemove
      <3>1. run.removeTxs = <<>> /\ pool' = pool /\ store' = store
        BY <1>2, <2>1, Zenon DEF RunRemove, IInv, RunState
      <3>2. Removing = {} /\ run.left = {}
        BY <3>1, <1>2 DEF Removing, RunInv
      <3> QED BY <3>1, <3>2, <1>2, Zenon DEF RunInv
    <2>2. CASE ~RunRemove
      BY <1>2, <2>2, Zenon DEF Next, vars, InsertHold, InsertNoContext, InsertLocked, locked, Remove, Commit, RunStart,
            RunPass, RunFail, RunCancelled, RunChecked, RunEnd, EvmHold, EvmAdd, EvmRelease
    <2> QED BY <2>1, <2>2, Zenon
  <1>3. IInv /\ RunInv /\ [Next]_vars => [(run.pc = "remove" /\ run'.pc = "idle") => pool' = store']_vars
    BY <1>2, Zenon
  <1> QED BY <1>1, <1>3, InitEstablishes, NextPreserves, NextKeepsRun, PTL DEF Spec, FullRecheckMatchesPool
=============================================================================
