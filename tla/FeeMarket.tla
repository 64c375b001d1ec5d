----------------------------- MODULE FeeMarket -----------------------------
(***************************************************************************)
(* The arithmetic of x/feemarket and of the fee checks of the ante         *)
(* handlers.  A LegacyDec is the integer number of its smallest units;     *)
(* DecUnit of them make 1.  Every product the code takes here has an       *)
(* integer factor, so Mul never rounds and QuoInt truncates.  The EVM coin *)
(* has 18 decimals (the only kind infinited runs, since it enables virtual *)
(* fee collection), so ConvertAmountTo18Decimals multiplies by 1.          *)
(***************************************************************************)
EXTENDS Integers

CONSTANTS DecUnit,                    \* smallest units in 1 (10^18 in the code)
          ElasticityMultiplier,
          BaseFeeChangeDenominator,
          MinGasMultiplier,           \* a Dec between 0 and 1
          MaxGas                      \* ConsensusParams.Block.MaxGas

ASSUME FeeMarketConstants ==
  /\ DecUnit \in Nat \ {0}
  /\ ElasticityMultiplier \in Nat \ {0}
  /\ BaseFeeChangeDenominator \in Nat \ {0}
  /\ MinGasMultiplier \in 0..DecUnit
  /\ MaxGas \in Nat

MaxOf(a, b) == IF a > b THEN a ELSE b
MinOf(a, b) == IF a < b THEN a ELSE b
AbsDiff(a, b) == IF a > b THEN a - b ELSE b - a
Ceil(d) == (d + DecUnit - 1) \div DecUnit

\* Params: noBaseFee, enableHeight, baseFee and minGasPrice (both Dec).
IsBaseFeeEnabled(params, height) ==
  ~params.noBaseFee /\ height >= params.enableHeight

\* Mutant: the rise is not rounded up to the smallest EVM unit.
CalcGasBaseFeeNoMinUnit(gasUsed, gasTarget, baseFee, minGasPrice) ==
  LET num == ((AbsDiff(gasUsed, gasTarget) * baseFee) \div gasTarget)
                \div BaseFeeChangeDenominator
  IN  CASE gasUsed = gasTarget -> baseFee
        [] gasUsed # gasTarget /\ gasTarget = 0 -> 0
        [] gasTarget > 0 /\ gasUsed > gasTarget -> baseFee + num
        [] gasTarget > 0 /\ gasUsed < gasTarget -> MaxOf(baseFee - num, minGasPrice)

CalcGasBaseFee(gasUsed, gasTarget, baseFee, minGasPrice) ==
  LET num == ((AbsDiff(gasUsed, gasTarget) * baseFee) \div gasTarget)
                \div BaseFeeChangeDenominator
  IN  CASE gasUsed = gasTarget -> baseFee
        [] gasUsed # gasTarget /\ gasTarget = 0 -> 0
        [] gasTarget > 0 /\ gasUsed > gasTarget -> baseFee + MaxOf(num, DecUnit)
        [] gasTarget > 0 /\ gasUsed < gasTarget -> MaxOf(baseFee - num, minGasPrice)

gasTarget == MaxGas \div ElasticityMultiplier

\* The base fee BeginBlock stores: unchanged below the activation height or
\* when disabled (CalculateBaseFee is nil there), the parameter itself at it.
CalculateBaseFee(params, height, blockGasWanted) ==
  IF IsBaseFeeEnabled(params, height) /\ height # params.enableHeight
  THEN CalcGasBaseFee(blockGasWanted, gasTarget, params.baseFee, params.minGasPrice)
  ELSE params.baseFee

\* What EndBlock stores as the load of the block.
EndBlockGasWanted(gasWanted, gasUsed) ==
  MaxOf(gasWanted * MinGasMultiplier, gasUsed * DecUnit) \div DecUnit

\* The base fee the EVM sees, in the ante handler (types.GetBaseFee) and in
\* ApplyTransaction (Keeper.GetBaseFee): a whole number of the smallest coin.
GetBaseFee(params) ==
  IF params.noBaseFee THEN 0 ELSE params.baseFee \div DecUnit

\* EffectiveGasTip + base fee of an Ethereum transaction (fee cap >= base fee).
EffectiveGasPrice(tx, baseFee) == MinOf(tx.tipCap + baseFee, tx.feeCap)

\* FeeChecker on a Cosmos transaction with gas > 0: [err, fee].  The tip,
\* maxPriorityPrice, is a Dec.
FeeChecker(params, height, tx) ==
  LET baseFee == IF IsBaseFeeEnabled(params, height) THEN params.baseFee ELSE 0
      feeCap  == (tx.fee * DecUnit) \div tx.gas
      price   == MinOf(tx.maxPriorityPrice + baseFee, feeCap)
  IN  [err |-> tx.maxPriorityPrice < 0 \/ feeCap < baseFee,
       fee |-> Ceil(price * tx.gas)]

\* MinGasPriceDecorator: the fee offered covers MinGasPrice for the gas limit.
MinGasPriceMet(params, tx) ==
  params.minGasPrice = 0 \/ tx.fee >= Ceil(params.minGasPrice * tx.gas)
=============================================================================
