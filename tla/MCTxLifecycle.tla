--------------------------- MODULE MCTxLifecycle ---------------------------
(***************************************************************************)
(* An instance of TxLifecycle: two signers, one created contract, and      *)
(* transactions chosen so that every path of the ante handler and of       *)
(* ApplyTransaction is taken with prices at both sides of the minimum.     *)
(***************************************************************************)
EXTENDS TxLifecycle, FiniteSetsExt

MCAccounts == {"a", "b", "c"}

MCBalances == [a |-> 40, b |-> 20, c |-> 0]

MCGenesis ==
  [noBaseFee |-> FALSE, enableHeight |-> 1, baseFee |-> 4, minGasPrice |-> 2,
   blockCreate |-> FALSE, blockCall |-> FALSE]

MCParamSets ==
  {[MCGenesis EXCEPT !.noBaseFee = TRUE, !.minGasPrice = 4],
   [MCGenesis EXCEPT !.baseFee = 0, !.minGasPrice = 0, !.blockCreate = TRUE]}

Eth(type, from, to, gas, feeCap, tipCap, value, auth, authNonce, authCode) ==
  [type |-> type, from |-> from, to |-> to, gas |-> gas, feeCap |-> feeCap,
   tipCap |-> tipCap, value |-> value, auth |-> auth, authNonce |-> authNonce, authCode |-> authCode]

MCEthTxs ==
  {Eth("legacy", "a", "b", 4, 3, 3, 1, None, 0, None),
   Eth("dynamic", "a", "b", 4, 4, 0, 2, "b", 0, "delegation"),
   Eth("dynamic", "b", "b", 3, 3, 1, 0, "b", 1, "delegation"),
   Eth("dynamic", "b", "b", 3, 3, 1, 0, "a", 0, "none"),
   Eth("legacy", "a", Create, 3, 2, 2, 1, None, 0, None)}

MCCosmosTxs ==
  {[from |-> "a", to |-> "b", gas |-> 2, fee |-> 7, maxPriorityPrice |-> p, value |-> 1] :
     p \in {0, 9}}

\* The gas a block really used, from its receipts.
LoadOf(h) == MapThenSumSet(LAMBDA r : r.gasUsed, {r \in receipts : r.height = h})

\* The base fee follows the load the receipts show: after a block above the
\* target it strictly rises, after one below it does not rise past the
\* minimum gas price, and a change of parameters starts from the new base fee
\* (DeliverTx gas, EndBlock, CalculateBaseFee over two blocks).
BaseFeeFollowsLoad ==
  [][height' = height + 1 /\ IsBaseFeeEnabled(params, height') /\ height' # params.enableHeight =>
       /\ LoadOf(height) > gasTarget => params'.baseFee >= params.baseFee + DecUnit
       /\ LoadOf(height) <= gasTarget /\ blockGasWanted <= gasTarget =>
            params'.baseFee <= MaxOf(params.baseFee, params.minGasPrice)
       /\ params'.baseFee < params.baseFee => params'.baseFee >= params.minGasPrice]_txVars
=============================================================================
