---------------------------- MODULE TxLifecycle ----------------------------
(***************************************************************************)
(* A transaction from the ante handler to its receipt, block after block:  *)
(* the mono decorator of ante/evm, ApplyTransaction with its two cached    *)
(* contexts, the post-processing hooks, the gas refund, Cosmos             *)
(* transactions that share the account sequence, and the begin and end     *)
(* blockers that move the base fee.  The London fork is active, as in the  *)
(* default chain configuration.                                            *)
(***************************************************************************)
EXTENDS FeeMarket

CONSTANTS Accounts,
          ContractAddr,     \* the account that stands for a created contract
          EthTxs,           \* Ethereum transactions, without their nonce
          CosmosTxs,        \* Cosmos transactions, without their sequence
          Balances,         \* account -> balance at genesis
          MayDelegate,      \* accounts that may be delegated from the start
          Genesis,          \* parameters at genesis
          ParamSets,        \* what governance may set the parameters to
          IntrinsicGas,     \* core.IntrinsicGas of every transaction
          RefundQuotient,   \* params.RefundQuotientEIP3529
          MaxNonce,         \* 2^64 - 1 in the code
          MaxTxs, MaxHeight \* bounds of an instance

Create == "create"          \* the recipient of a contract creation (To == nil)
None == "none"

\* The parameters the code below reads, as Validate accepts them.
ParamsType ==
  [noBaseFee : BOOLEAN, enableHeight : Nat, baseFee : Nat, minGasPrice : Nat,
   blockCreate : BOOLEAN, blockCall : BOOLEAN]

ASSUME TxConstants ==
  /\ ContractAddr \in Accounts /\ Create \notin Accounts
  /\ MayDelegate \subseteq Accounts
  /\ EthTxs \subseteq
       [type : {"legacy", "dynamic"}, from : Accounts, to : Accounts \cup {Create},
        gas : Nat, feeCap : Nat, tipCap : Nat, value : Nat,
        auth : Accounts \cup {None}, authNonce : Nat, authCode : {"delegation", "none"}]
  /\ CosmosTxs \subseteq
       [from : Accounts, to : Accounts, gas : Nat \ {0}, fee : Nat,
        maxPriorityPrice : Int, value : Nat]
  /\ Balances \in [Accounts -> Nat]
  /\ Genesis \in ParamsType /\ ParamSets \subseteq ParamsType
  /\ IntrinsicGas \in Nat /\ RefundQuotient \in Nat \ {0}
  /\ MaxNonce \in Nat /\ MaxTxs \in Nat /\ MaxHeight \in Nat

VARIABLES store,      \* the block's state: accounts, fees, marks (see Store)
          stage,      \* where the block is: begin, idle, ante, applied, hooked
          tx,         \* the Ethereum transaction in flight
          ctx,        \* the message's context
          tmp,        \* ApplyTransaction's cached context, tmpCtx
          res,        \* its MsgEthereumTxResponse: failed, gasUsed, logs, hook
          params, height,
          blockGasWanted,           \* the stored load of the last block
          blockWanted, blockUsed,   \* gas of the current block
          mode,       \* how the app was wired: hooks set, virtual fees
          receipts,   \* history: one record per charged transaction
          id          \* history: the number of the next transaction

txVars == <<store, stage, tx, ctx, tmp, res, params, height, blockGasWanted,
            blockWanted, blockUsed, mode, receipts, id>>

(***************************************************************************)
(* The state a context caches: accounts, the fee collector, the fees held  *)
(* virtually in the object store (those of the current transaction index   *)
(* and of the earlier ones), and what executions and hooks left behind.    *)
(***************************************************************************)
GenesisStore(delegated) ==
  [bal       |-> Balances,
   nonce     |-> [a \in Accounts |-> 0],
   code      |-> [a \in Accounts |-> IF a \in delegated THEN "delegation" ELSE "none"],
   collector |-> 0, cur |-> 0, prior |-> 0,
   marks     |-> {}, hookMarks |-> {}, bloom |-> {}, created |-> {}]

Held(st) == st.collector + st.cur + st.prior

CoinsToCollector(st, from, amount) ==
  IF mode.virtual
  THEN [st EXCEPT !.bal[from] = @ - amount, !.cur = @ + amount]
  ELSE [st EXCEPT !.bal[from] = @ - amount, !.collector = @ + amount]

CollectorHas(st, amount) ==
  IF mode.virtual THEN st.cur >= amount ELSE st.collector >= amount

CoinsFromCollector(st, to, amount) ==
  IF mode.virtual
  THEN [st EXCEPT !.bal[to] = @ + amount, !.cur = @ - amount]
  ELSE [st EXCEPT !.bal[to] = @ + amount, !.collector = @ - amount]

\* EndBlock of x/bank: what is held virtually becomes the collector's.
CreditVirtualAccounts(st) ==
  [st EXCEPT !.collector = @ + st.cur + st.prior, !.cur = 0, !.prior = 0]

NextTxIndex(st) == [st EXCEPT !.prior = @ + st.cur, !.cur = 0]

Pay(st, from, to, value) ==
  [st EXCEPT !.bal = [[st.bal EXCEPT ![from] = @ - value] EXCEPT ![to] = @ + value]]

-----------------------------------------------------------------------------
(***************************************************************************)
(* The ante handler of an Ethereum transaction.                            *)
(***************************************************************************)
VerifyFee(t) == t.gas * EffectiveGasPrice(t, GetBaseFee(params))

CheckGlobalFee(t) ==
  LET price == IF t.type = "dynamic" THEN EffectiveGasPrice(t, GetBaseFee(params))
               ELSE t.feeCap
  IN  t.gas * price * DecUnit >= params.minGasPrice * t.gas

ValidateTransaction(t) == t.tipCap <= t.feeCap /\ t.gas >= IntrinsicGas

ValidateMsg(t) == IF t.to = Create THEN ~params.blockCreate ELSE ~params.blockCall

VerifyAccountBalance(t) ==
  /\ store.code[t.from] # "contract"
  /\ store.bal[t.from] >= t.gas * t.feeCap + t.value

CanTransfer(t) == t.feeCap >= GetBaseFee(params) /\ store.bal[t.from] >= t.value

NonceAdmitted(nonce, n) == n = nonce /\ nonce < MaxNonce

CheckBlockGasLimit(t) == t.gas <= MaxGas

IncrementNonce(st, a) == [st EXCEPT !.nonce[a] = @ + 1]

\* baseapp refuses a transaction once the block's gas is used up.
BlockGasLeft == blockUsed < MaxGas

EthAnteHandle(t, n) ==
  /\ stage = "idle" /\ id < MaxTxs
  /\ BlockGasLeft
  /\ ValidateTransaction(t) /\ CheckGlobalFee(t) /\ ValidateMsg(t)
  /\ VerifyAccountBalance(t) /\ CanTransfer(t)
  /\ NonceAdmitted(store.nonce[t.from], n) /\ CheckBlockGasLimit(t)
  /\ store' = IncrementNonce(
                CoinsToCollector(NextTxIndex(store), t.from, VerifyFee(t)), t.from)
  /\ tx' = [from |-> t.from, to |-> t.to, gas |-> t.gas, feeCap |-> t.feeCap,
            tipCap |-> t.tipCap, value |-> t.value, auth |-> t.auth,
            authNonce |-> t.authNonce, authCode |-> t.authCode, nonce |-> n]
  /\ blockWanted' = blockWanted + t.gas
  /\ stage' = "ante"
  /\ UNCHANGED <<ctx, tmp, res, params, height, blockGasWanted, blockUsed, mode, receipts, id>>

-----------------------------------------------------------------------------
(***************************************************************************)
(* ApplyMessageWithConfig: the StateDB run of the message, committed to    *)
(* the cached context.  The EVM itself is the outcome o: whether it        *)
(* failed, the gas it used, its refund counter, whether it logged, and how *)
(* many contracts the sender's delegated code created on the way.          *)
(***************************************************************************)
AuthorizationValid(st, t) ==
  /\ t.auth \in Accounts
  /\ st.code[t.auth] # "contract"
  /\ st.nonce[t.auth] = t.authNonce
  /\ t.authNonce < MaxNonce

\* t.authCode is "delegation", or "none" for the zero address, which clears.
applyAuthorization(st, t) ==
  IF AuthorizationValid(st, t)
  THEN [st EXCEPT !.nonce[t.auth] = t.authNonce + 1, !.code[t.auth] = t.authCode]
  ELSE st

\* Contracts created by the sender's own code: each takes the next nonce.
NestedCreates(st, a, n) ==
  [st EXCEPT !.nonce[a] = @ + n,
             !.created = @ \cup {<<a, st.nonce[a] + i>> : i \in 0..(n - 1)}]

EvmCall(st, t, o) ==
  LET authorized == applyAuthorization(st, t)
  IN  IF o.vmErr THEN authorized
      ELSE NestedCreates(Pay(authorized, t.from, t.to, t.value), t.from, o.nested)

\* Mutant: the sender's nonce is written back to msg.Nonce + 1 whatever the
\* creation did to it.
NonceAfterCreateAlways(nonce, msgNonce) == msgNonce + 1

NonceAfterCreate(nonce, msgNonce) == IF nonce = msgNonce THEN msgNonce + 1 ELSE nonce

\* evm.Create takes the nonce msg.Nonce for the address and raises it, unless
\* the balance is too low; what failed later keeps the raised nonce.
EvmCreate(st, t, o) ==
  LET reset  == [st EXCEPT !.nonce[t.from] = t.nonce]
      raised == IF st.bal[t.from] < t.value THEN reset
                ELSE [reset EXCEPT !.nonce[t.from] = t.nonce + 1]
      ran    == IF o.vmErr THEN raised
                ELSE [NestedCreates(Pay(raised, t.from, ContractAddr, t.value),
                                    t.from, o.nested)
                        EXCEPT !.created = @ \cup {<<t.from, t.nonce>>},
                               !.code[ContractAddr] = "contract"]
  IN  [ran EXCEPT !.nonce[t.from] = NonceAfterCreate(@, t.nonce)]

RunMessage(st, t, o) ==
  LET ran == IF t.to = Create THEN EvmCreate(st, t, o) ELSE EvmCall(st, t, o)
  IN  IF o.vmErr THEN ran ELSE [ran EXCEPT !.marks = @ \cup {id}]

GasToRefund(availableRefund, gasConsumed) ==
  MinOf(gasConsumed \div RefundQuotient, availableRefund)

GasUsed(t, o) ==
  MaxOf((o.used - GasToRefund(o.refund, o.used)) * DecUnit, t.gas * MinGasMultiplier)
     \div DecUnit

Outcomes ==
  {o \in [vmErr : BOOLEAN, used : {IntrinsicGas, tx.gas}, refund : {0, 1},
          logs : BOOLEAN, nested : {0, 1}] :
     /\ o.vmErr => o.refund = 0 /\ ~o.logs /\ o.nested = 0
     /\ o.nested = 1 => applyAuthorization(store, tx).code[tx.from] = "delegation"
     /\ store.bal[tx.from] < tx.value => o.vmErr}

Receipt(status, gasUsed, logs, hook) ==
  [id |-> id, kind |-> "eth", from |-> tx.from,
   to |-> IF tx.to = Create THEN ContractAddr ELSE tx.to,
   nonce |-> tx.nonce, value |-> tx.value, status |-> status,
   gas |-> tx.gas, gasUsed |-> gasUsed,
   price |-> EffectiveGasPrice(tx, GetBaseFee(params)), fee |-> 0,
   height |-> height,
   logs |-> logs, hook |-> hook]

EndTx ==
  /\ stage' = "idle" /\ tx' = None /\ ctx' = None /\ tmp' = None /\ res' = None
  /\ id' = id + 1
  /\ UNCHANGED <<params, height, blockGasWanted, blockWanted, mode>>

\* The message returned an error: the ante handler's writes stay and nothing
\* is refunded.
FailMessage(gasConsumed) ==
  /\ receipts' = receipts \cup {Receipt("err", tx.gas, FALSE, FALSE)}
  /\ blockUsed' = blockUsed + gasConsumed
  /\ EndTx
  /\ UNCHANGED store

\* Mutant: a failed execution keeps its cached context.
CachedContextKept(st, t, o) == RunMessage(st, t, o)

\* A failed execution is dropped and the hooks get a fresh cached context.
CachedContext(st, t, o) == IF o.vmErr THEN st ELSE RunMessage(st, t, o)

ApplyMessage(o) ==
  /\ stage = "ante"
  /\ LET run == CachedContext(store, tx, o)
     IN  tmp' = IF o.logs THEN [run EXCEPT !.bloom = @ \cup {id}] ELSE run
  /\ res' = [failed |-> o.vmErr, gasUsed |-> GasUsed(tx, o), logs |-> o.logs,
             hook |-> FALSE]
  /\ stage' = "applied"
  /\ UNCHANGED <<store, tx, ctx, params, height, blockGasWanted, blockWanted,
                 blockUsed, mode, receipts, id>>

\* ApplyMessageWithConfig fails (the StateDB could not be committed, or gas
\* below the intrinsic cost): all of the gas limit is consumed.
ApplyMessageError == stage = "ante" /\ FailMessage(tx.gas)

-----------------------------------------------------------------------------
(***************************************************************************)
(* The hooks, and what is left of ApplyTransaction after them.             *)
(***************************************************************************)
NoHooks ==
  /\ stage = "applied" /\ ~mode.hooks
  /\ ctx' = IF res.failed THEN store ELSE tmp
  /\ stage' = "hooked"
  /\ UNCHANGED <<store, tx, tmp, res, params, height, blockGasWanted, blockWanted,
                 blockUsed, mode, receipts, id>>

HooksSucceed ==
  /\ stage = "applied" /\ mode.hooks
  /\ ctx' = [tmp EXCEPT !.hookMarks = @ \cup {id}]
  /\ res' = [res EXCEPT !.logs = @ /\ ~res.failed, !.hook = TRUE]
  /\ stage' = "hooked"
  /\ UNCHANGED <<store, tx, tmp, params, height, blockGasWanted, blockWanted,
                 blockUsed, mode, receipts, id>>

\* Mutant: an error of the hooks does not mark the response as failed.
HookErrorResponseKept(r) == [r EXCEPT !.logs = FALSE]

HookErrorResponse(r) == [r EXCEPT !.failed = TRUE, !.logs = FALSE]

HooksFail ==
  /\ stage = "applied" /\ mode.hooks
  /\ ctx' = store
  /\ res' = HookErrorResponse(res)
  /\ stage' = "hooked"
  /\ UNCHANGED <<store, tx, tmp, params, height, blockGasWanted, blockWanted,
                 blockUsed, mode, receipts, id>>

\* Mutant: the refund is priced at the fee cap.
RefundAtFeeCap(t, gasUsed) == (t.gas - gasUsed) * t.feeCap

Refund(t, gasUsed) ==
  IF t.gas > gasUsed
  THEN (t.gas - gasUsed) * EffectiveGasPrice(t, GetBaseFee(params)) ELSE 0

RefundGas ==
  /\ stage = "hooked"
  /\ CollectorHas(ctx, Refund(tx, res.gasUsed))
  /\ blockUsed + res.gasUsed <= MaxGas
  /\ store' = CoinsFromCollector(ctx, tx.from, Refund(tx, res.gasUsed))
  /\ receipts' = receipts \cup
       {Receipt(IF res.failed THEN "failed" ELSE "ok", res.gasUsed, res.logs, res.hook)}
  /\ blockUsed' = blockUsed + res.gasUsed
  /\ EndTx

\* RefundGas fails, or the block's gas meter overflows when baseapp charges
\* it: the message's context is dropped.
MessageDropped ==
  /\ stage = "hooked"
  /\ ~CollectorHas(ctx, Refund(tx, res.gasUsed)) \/ blockUsed + res.gasUsed > MaxGas
  /\ FailMessage(res.gasUsed)

-----------------------------------------------------------------------------
(***************************************************************************)
(* A Cosmos transaction: its ante handler and its message, here a bank     *)
(* send that succeeds or fails.                                            *)
(***************************************************************************)
CosmosReceipt(t, n, fee, ok) ==
  [id |-> id, kind |-> "cosmos", from |-> t.from, to |-> t.to, nonce |-> n,
   value |-> t.value, status |-> IF ok THEN "ok" ELSE "failed",
   gas |-> t.gas, gasUsed |-> t.gas, price |-> 0, fee |-> fee,
   height |-> height,
   logs |-> FALSE, hook |-> FALSE]

CosmosTx(t, n, ok) ==
  LET fee  == FeeChecker(params, height, t).fee
      paid == [IncrementNonce(NextTxIndex(store), t.from)
                 EXCEPT !.bal[t.from] = @ - fee, !.collector = @ + fee]
  IN  /\ stage = "idle" /\ id < MaxTxs
      /\ BlockGasLeft
      /\ MinGasPriceMet(params, t)
      /\ ~FeeChecker(params, height, t).err
      /\ store.bal[t.from] >= fee
      /\ store.code[t.from] # "contract"
      /\ NonceAdmitted(store.nonce[t.from], n)
      /\ ok => paid.bal[t.from] >= t.value /\ blockUsed + t.gas <= MaxGas
      /\ store' = IF ok THEN [Pay(paid, t.from, t.to, t.value) EXCEPT !.marks = @ \cup {id}]
                  ELSE paid
      /\ receipts' = receipts \cup {CosmosReceipt(t, n, fee, ok)} /\ id' = id + 1
      /\ blockWanted' = blockWanted + t.gas
      /\ blockUsed' = blockUsed + t.gas
      /\ UNCHANGED <<stage, tx, ctx, tmp, res, params, height, blockGasWanted, mode>>

-----------------------------------------------------------------------------
(***************************************************************************)
(* Blocks.  Governance runs before the feemarket end blocker, so a change  *)
(* of parameters, base fee included, is what the next block starts from.   *)
(***************************************************************************)
BeginBlock ==
  /\ stage = "begin" /\ height < MaxHeight
  /\ height' = height + 1
  /\ params' = [params EXCEPT !.baseFee = CalculateBaseFee(params, height + 1, blockGasWanted)]
  /\ stage' = "idle"
  /\ UNCHANGED <<store, tx, ctx, tmp, res, blockGasWanted, blockWanted, blockUsed,
                 mode, receipts, id>>

EndBlock(p) ==
  /\ stage = "idle"
  /\ store' = [CreditVirtualAccounts(store) EXCEPT !.bloom = {}]
  /\ params' = p
  /\ blockGasWanted' = EndBlockGasWanted(blockWanted, blockUsed)
  /\ blockWanted' = 0 /\ blockUsed' = 0
  /\ stage' = "begin"
  /\ UNCHANGED <<tx, ctx, tmp, res, height, mode, receipts, id>>

TxInit ==
  /\ \E d \in SUBSET MayDelegate : store = GenesisStore(d)
  /\ stage = "begin" /\ tx = None /\ ctx = None /\ tmp = None /\ res = None
  /\ params = Genesis /\ height = 0
  /\ blockGasWanted = 0 /\ blockWanted = 0 /\ blockUsed = 0
  /\ mode \in [hooks : BOOLEAN, virtual : BOOLEAN]
  /\ receipts = {} /\ id = 0

TxNext ==
  \/ BeginBlock
  \/ \E p \in ParamSets \cup {params} : EndBlock(p)
  \/ \E t \in EthTxs, n \in 0..MaxNonce : EthAnteHandle(t, n)
  \/ stage = "ante" /\ \E o \in Outcomes : ApplyMessage(o)
  \/ ApplyMessageError
  \/ NoHooks
  \/ HooksSucceed
  \/ HooksFail
  \/ RefundGas
  \/ MessageDropped
  \/ \E t \in CosmosTxs, n \in 0..MaxNonce, ok \in BOOLEAN : CosmosTx(t, n, ok)

TxSpec == TxInit /\ [][TxNext]_txVars

-----------------------------------------------------------------------------
\* While a transaction is in flight the ledger still shows the state before
\* it: the fee its ante handler took, and the nonce, are given back.
InFlight == stage \in {"ante", "applied", "hooked"}

InFlightFee == IF InFlight THEN VerifyFee(tx) ELSE 0

LedgerBal ==
  IF InFlight THEN [store.bal EXCEPT ![tx.from] = @ + InFlightFee] ELSE store.bal

LedgerNonce ==
  IF InFlight THEN [store.nonce EXCEPT ![tx.from] = @ - 1] ELSE store.nonce

Ledger == INSTANCE TxLedger WITH
            bal <- LedgerBal, nonce <- LedgerNonce, fees <- Held(store) - InFlightFee

\* The ante handler, ApplyTransaction, the hooks, the refund and the credit of
\* virtual fees together implement the ledger: a sender pays the reported gas
\* at the effective price and its transfer exactly when the receipt says so.
ImplementsLedger == Ledger!LedgerSpec

\* What a transaction left behind agrees with its receipt: execution effects
\* if and only if it succeeded, hook effects if and only if its hooks did, and
\* a bloom of this block if and only if it reports logs (ApplyTransaction's
\* two cached contexts).
ReceiptMatchesState ==
  \A r \in receipts :
    /\ (r.status = "ok") <=> (r.id \in store.marks)
    /\ r.hook <=> (r.id \in store.hookMarks)
    /\ (r.logs /\ r.height = height /\ stage # "begin") <=> (r.id \in store.bloom)

\* A nonce is spent once: no two receipts of an account share one, and every
\* nonce a transaction or a contract address was made with lies below the
\* account's nonce, whatever creations, delegations and failures came since.
NoncesSpentOnce ==
  /\ \A r, q \in receipts : r.from = q.from /\ r.nonce = q.nonce => r.id = q.id
  /\ \A r \in receipts : r.nonce < store.nonce[r.from]
  /\ \A c \in store.created : c[2] < store.nonce[c[1]]

\* What the end of an Ethereum transaction that did not succeed leaves alone.
FailureStep ==
  \A r \in receipts' \ receipts :
    r.kind = "eth" /\ r.status # "ok" =>
      /\ store'.code = store.code
      /\ store'.created = store.created
      /\ store'.nonce = store.nonce

\* An Ethereum transaction that did not succeed changes no account's code, no
\* nonce but its sender's, by one, and creates no contract, even when hooks
\* keep their own writes.
FailureLeavesOnlyFees == [][FailureStep]_txVars

\* The gas refund is always covered by what the ante handler collected for the
\* same transaction: RefundGas's error path is never taken.
RefundCovered ==
  stage = "hooked" => CollectorHas(ctx, Refund(tx, res.gasUsed))
=============================================================================
