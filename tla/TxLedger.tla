------------------------------ MODULE TxLedger ------------------------------
(***************************************************************************)
(* What transaction execution promises, one transaction at a time: a       *)
(* transaction that is charged leaves one receipt, its sender pays exactly *)
(* what the receipt says, its transfer happens if and only if the receipt  *)
(* reports success, and it moves the sender's nonce forward.               *)
(***************************************************************************)
EXTENDS Integers

CONSTANT Accounts

VARIABLES bal,        \* account -> balance of the EVM coin
          nonce,      \* account -> sequence
          fees,       \* everything the fee collector holds or is owed
          receipts    \* one record per charged transaction

ledgerVars == <<bal, nonce, fees, receipts>>

\* The gas reported is what the fee pays for: in full when the message failed
\* with an error, in part when leftover gas was refunded.
FeeOf(r) == IF r.kind = "eth" THEN r.gasUsed * r.price ELSE r.fee

Moved(r) == IF r.status = "ok" THEN r.value ELSE 0

Debit(b, r) == [b EXCEPT ![r.from] = @ - FeeOf(r) - Moved(r)]

Transferred(b, r) == [Debit(b, r) EXCEPT ![r.to] = @ + Moved(r)]

LedgerInit ==
  /\ bal \in [Accounts -> Nat]
  /\ nonce = [a \in Accounts |-> 0]
  /\ fees = 0
  /\ receipts = {}

Deliver(r) ==
  /\ receipts' = receipts \cup {r}
  /\ FeeOf(r) + Moved(r) <= bal[r.from]
  /\ bal' = Transferred(bal, r)
  /\ fees' = fees + FeeOf(r)
  /\ nonce[r.from] = r.nonce
  /\ nonce'[r.from] > nonce[r.from]
  /\ \A a \in Accounts : nonce'[a] >= nonce[a]

LedgerNext == \E r \in receipts' \ receipts : Deliver(r)

LedgerSpec == LedgerInit /\ [][LedgerNext]_ledgerVars
=============================================================================
