------------------------------ MODULE MCErc20 ------------------------------
(***************************************************************************)
(* A small instance of the bridge: one native ERC20, one IBC voucher, a    *)
(* user and a module account.                                              *)
(***************************************************************************)
EXTENDS Erc20

MCUsers == {"u", "m"}
MCModuleAccounts == {"m"}
MCContracts == {"T"}
MCVouchers == {"V"}
MCAmounts == [t \in {"T", "V"} |-> IF t = "T" THEN {1, 2} ELSE {1}]
MCInitialTokens == [a \in MCUsers |-> IF a = "u" THEN 2 ELSE 0]

=============================================================================
