-------------------------- MODULE TxLifecycleProofs -------------------------
(***************************************************************************)
(* For any accounts, transactions, prices and parameters: nonces are spent *)
(* once, refunds are covered, receipts tell what happened, failures leave  *)
(* only fees, and the ante handler, execution, hooks, refund and credit of *)
(* virtual fees add up to one step of TxLedger per transaction.            *)
(*                                                                         *)
(* First what the operators compute: the arithmetic of fees and refunds,   *)
(* and what a transfer, a call, a creation, the ante handler, a refund and *)
(* a Cosmos transaction leave in a store.  Then what the ledger sees of a  *)
(* step, and the invariant with the facts about it that need no induction. *)
(* Then the steps.                                                         *)
(*                                                                         *)
(* A leaf that needs no arithmetic names Zenon.                            *)
(***************************************************************************)
EXTENDS TxLifecycle, TLAPS

(***************************************************************************)
(* Arithmetic of fees.                                                     *)
(***************************************************************************)
\* Truncated division of naturals is a natural number.
LEMMA DivNat ==
  ASSUME NEW a \in Nat, NEW b \in Nat \ {0} PROVE a \div b \in Nat
  OBVIOUS

\* A product of naturals is a natural number.
LEMMA MulNat ==
  ASSUME NEW a \in Nat, NEW b \in Nat PROVE a * b \in Nat
  OBVIOUS

\* A smaller factor gives a smaller product.
LEMMA MulMono ==
  ASSUME NEW a \in Nat, NEW b \in Nat, NEW c \in Nat, a <= b PROVE a * c <= b * c
  OBVIOUS

\* A quotient is at most what it was multiplied from.
LEMMA DivBound ==
  ASSUME NEW a \in Nat, NEW b \in Nat, NEW d \in Nat \ {0}, a <= b * d PROVE a \div d <= b
  OBVIOUS

\* The parameters keep their types when BeginBlock stores the new base fee.
LEMMA BaseFeeNat ==
  ASSUME NEW p \in ParamsType, NEW h \in Nat, NEW w \in Nat
  PROVE  CalculateBaseFee(p, h, w) \in Nat
PROOF
  <1> DEFINE diff == AbsDiff(w, gasTarget)
             num == ((diff * p.baseFee) \div gasTarget) \div BaseFeeChangeDenominator
  <1>1. p.baseFee \in Nat /\ p.minGasPrice \in Nat BY Zenon DEF ParamsType
  <1>2. gasTarget \in Nat BY DivNat, FeeMarketConstants, Zenon DEF gasTarget
  <1>3. diff \in Nat BY <1>2 DEF AbsDiff
  <1>4. diff * p.baseFee \in Nat BY <1>1, <1>3, MulNat, Zenon
  <1>5. gasTarget # 0 => num \in Nat
    <2> SUFFICES ASSUME gasTarget # 0 PROVE num \in Nat BY Zenon
    <2>1. (diff * p.baseFee) \div gasTarget \in Nat BY <1>2, <1>4, DivNat, Zenon
    <2> HIDE DEF diff
    <2> QED BY <2>1, DivNat, FeeMarketConstants, Zenon
  <1>6. DecUnit \in Nat BY FeeMarketConstants, Zenon
  <1>7. CalcGasBaseFee(w, gasTarget, p.baseFee, p.minGasPrice) \in Nat
    <2>1. CASE w = gasTarget BY <2>1, <1>1 DEF CalcGasBaseFee
    <2>2. CASE w # gasTarget /\ gasTarget = 0 BY <2>2 DEF CalcGasBaseFee
    <2>3. CASE w > gasTarget /\ gasTarget > 0
      <3>1. CalcGasBaseFee(w, gasTarget, p.baseFee, p.minGasPrice) = p.baseFee + MaxOf(num, DecUnit)
        BY <2>3, <1>2 DEF CalcGasBaseFee
      <3> HIDE DEF num
      <3> QED BY <3>1, <2>3, <1>1, <1>2, <1>5, <1>6 DEF MaxOf
    <2>4. CASE w < gasTarget /\ gasTarget > 0
      <3>1. CalcGasBaseFee(w, gasTarget, p.baseFee, p.minGasPrice) = MaxOf(p.baseFee - num, p.minGasPrice)
        BY <2>4, <1>2 DEF CalcGasBaseFee
      <3> HIDE DEF num
      <3> QED BY <3>1, <2>4, <1>1, <1>2, <1>5 DEF MaxOf
    <2> QED BY <2>1, <2>2, <2>3, <2>4, <1>2
  <1> QED BY <1>1, <1>7, Zenon DEF CalculateBaseFee

\* The transaction in flight.
Tx == [from : Accounts, to : Accounts \cup {Create}, gas : Nat, feeCap : Nat,
       tipCap : Nat, value : Nat, auth : Accounts \cup {None}, authNonce : Nat,
       authCode : {"delegation", "none"}, nonce : Nat]

\* The effective price lies between zero and the fee cap.
LEMMA PriceBounds ==
  ASSUME NEW p \in ParamsType, NEW t, t.tipCap \in Nat, t.feeCap \in Nat
  PROVE  /\ EffectiveGasPrice(t, GetBaseFee(p)) \in Nat
         /\ EffectiveGasPrice(t, GetBaseFee(p)) <= t.feeCap
PROOF
  <1>1. p.baseFee \in Nat BY Zenon DEF ParamsType
  <1>2. GetBaseFee(p) \in Nat BY <1>1, DivNat, FeeMarketConstants, Zenon DEF GetBaseFee
  <1> QED BY <1>2 DEF EffectiveGasPrice, MinOf

\* What is not refunded is the price of the gas used.
LEMMA FeeSplit ==
  ASSUME NEW g \in Nat, NEW u \in Nat, u <= g, NEW p \in Nat
  PROVE  g * p - (g - u) * p = u * p
  OBVIOUS

Credited(b, a, x) == [b EXCEPT ![a] = @ + x]
Debited(b, a, x) == [b EXCEPT ![a] = @ - x]

(***************************************************************************)
(* What the operations on a store do.                                      *)
(***************************************************************************)
Codes == {"none", "delegation", "contract"}

Store == [bal : [Accounts -> Int], nonce : [Accounts -> Nat], code : [Accounts -> Codes],
          collector : Nat, cur : Nat, prior : Nat,
          marks : SUBSET Nat, hookMarks : SUBSET Nat, bloom : SUBSET Nat,
          created : SUBSET (Accounts \X Nat)]

\* Every contract address was made with a nonce below its creator's.
CreatedBelow(s) == \A c \in s.created : c[2] < s.nonce[c[1]]

\* r is s after an execution: fees and marks are left alone, no nonce goes back.
Executed(s, r) ==
  /\ r \in Store
  /\ r.collector = s.collector /\ r.cur = s.cur /\ r.prior = s.prior
  /\ r.marks = s.marks /\ r.hookMarks = s.hookMarks /\ r.bloom = s.bloom
  /\ \A a \in Accounts : s.nonce[a] <= r.nonce[a]
  /\ CreatedBelow(r)

PaidBal(b, from, to, value) == [[b EXCEPT ![from] = @ - value] EXCEPT ![to] = @ + value]

\* Paying the fee, then the value, then getting the refund is paying the
\* price of the gas used and the value.
LEMMA PaidTwice ==
  ASSUME NEW b \in [Accounts -> Int], NEW from \in Accounts, NEW to \in Accounts,
         NEW fee \in Nat, NEW x \in Nat, NEW y \in Nat, fee - x = y, NEW v \in Nat
  PROVE  Credited(PaidBal(b, from, to, v), from, x)
           = PaidBal(Debited(Credited(b, from, fee), from, y), from, to, v)
PROOF
  <1> DEFINE l == Credited(b, from, fee)
             m == Debited(l, from, y)
             p == PaidBal(b, from, to, v)
             q == PaidBal(m, from, to, v)
  <1>1. l \in [Accounts -> Int] /\ \A a \in Accounts : l[a] = IF a = from THEN b[a] + fee ELSE b[a]
    BY DEF Credited
  <1> HIDE DEF l
  <1>2. m \in [Accounts -> Int] /\ \A a \in Accounts : m[a] = IF a = from THEN b[a] + x ELSE b[a]
    BY <1>1 DEF Debited
  <1> HIDE DEF m
  <1>3. /\ p \in [Accounts -> Int] /\ q \in [Accounts -> Int]
        /\ \A a \in Accounts :
             /\ p[a] = b[a] - (IF a = from THEN v ELSE 0) + (IF a = to THEN v ELSE 0)
             /\ q[a] = m[a] - (IF a = from THEN v ELSE 0) + (IF a = to THEN v ELSE 0)
    BY <1>2 DEF PaidBal
  <1> HIDE DEF p, q
  <1>4. Credited(p, from, x) \in [Accounts -> Int]
        /\ \A a \in Accounts : Credited(p, from, x)[a] = IF a = from THEN p[a] + x ELSE p[a]
    BY <1>3 DEF Credited
  <1>5. \A a \in Accounts : Credited(p, from, x)[a] = q[a] BY <1>2, <1>3, <1>4
  <1> QED BY <1>3, <1>4, <1>5 DEF l, m, p, q

\* Paying nothing.
LEMMA PaidNothing ==
  ASSUME NEW b \in [Accounts -> Int], NEW from \in Accounts, NEW to \in Accounts
  PROVE  PaidBal(b, from, to, 0) = b
  BY DEF PaidBal

LEMMA PayEffect ==
  ASSUME NEW s \in Store, CreatedBelow(s), NEW from \in Accounts, NEW to \in Accounts, NEW v \in Nat
  PROVE  /\ Executed(s, Pay(s, from, to, v))
         /\ Pay(s, from, to, v).bal = PaidBal(s.bal, from, to, v)
         /\ Pay(s, from, to, v).nonce = s.nonce
         /\ Pay(s, from, to, v).created = s.created
PROOF
  <1> DEFINE b == PaidBal(s.bal, from, to, v)
             r == Pay(s, from, to, v)
  <1>1. s.bal \in [Accounts -> Int] BY Zenon DEF Store
  <1>2. b \in [Accounts -> Int] BY <1>1 DEF PaidBal
  <1>3. r = [s EXCEPT !.bal = b] BY Zenon DEF Pay, PaidBal
  <1> HIDE DEF b, r
  <1>4. r \in Store BY <1>2, <1>3, Zenon DEF Store
  <1>5. r.bal = b /\ r.nonce = s.nonce /\ r.created = s.created
    BY <1>3, Zenon DEF Store
  <1>6. r.collector = s.collector /\ r.cur = s.cur /\ r.prior = s.prior
        /\ r.marks = s.marks /\ r.hookMarks = s.hookMarks /\ r.bloom = s.bloom
    BY <1>3, Zenon DEF Store
  <1>7. \A a \in Accounts : s.nonce[a] <= r.nonce[a] BY <1>5 DEF Store
  <1>8. CreatedBelow(r) BY <1>5, Zenon DEF CreatedBelow
  <1>9. Executed(s, r) BY <1>4, <1>6, <1>7, <1>8, Zenon DEF Executed
  <1> QED BY <1>5, <1>9, Zenon DEF b, r

LEMMA NestedEffect ==
  ASSUME NEW s \in Store, CreatedBelow(s), NEW a \in Accounts, NEW n \in {0, 1}
  PROVE  /\ Executed(s, NestedCreates(s, a, n))
         /\ NestedCreates(s, a, n).bal = s.bal
PROOF
  <1> DEFINE new == {<<a, s.nonce[a] + i>> : i \in 0..(n - 1)}
             f == [s.nonce EXCEPT ![a] = @ + n]
             c == s.created \cup new
             r == NestedCreates(s, a, n)
  <1>1. s.nonce \in [Accounts -> Nat] /\ s.created \in SUBSET (Accounts \X Nat) BY Zenon DEF Store
  <1>2. f \in [Accounts -> Nat] BY <1>1
  <1>3. \A x \in new : x \in Accounts \X Nat /\ x[1] = a /\ s.nonce[a] <= x[2] /\ x[2] < s.nonce[a] + n
    BY <1>1
  <1>4. c \in SUBSET (Accounts \X Nat) BY <1>1, <1>3, Zenon
  <1>5. r = [s EXCEPT !.nonce = f, !.created = c]
    BY Zenon DEF NestedCreates, Store
  <1>6. \A b \in Accounts : f[b] = IF b = a THEN s.nonce[a] + n ELSE s.nonce[b] BY <1>1, Zenon
  <1>7. \A x \in c : x[2] < f[x[1]]
    <2> SUFFICES ASSUME NEW x \in c PROVE x[2] < f[x[1]] BY Zenon
    <2>1. CASE x \in new BY <2>1, <1>3, <1>6, Zenon
    <2>2. CASE x \in s.created
      <3>1. x[1] \in Accounts /\ x[2] \in Nat BY <2>2, <1>1, Zenon
      <3>2. x[2] < s.nonce[x[1]] BY <2>2, Zenon DEF CreatedBelow
      <3> HIDE DEF f
      <3> QED BY <3>1, <3>2, <1>1, <1>6
    <2> QED BY <2>1, <2>2, Zenon
  <1> HIDE DEF f, c, r
  <1>8. r \in Store BY <1>2, <1>4, <1>5, Zenon DEF Store
  <1>9. r.bal = s.bal /\ r.nonce = f /\ r.created = c BY <1>5, Zenon DEF Store
  <1>10. r.collector = s.collector /\ r.cur = s.cur /\ r.prior = s.prior
         /\ r.marks = s.marks /\ r.hookMarks = s.hookMarks /\ r.bloom = s.bloom
    BY <1>5, Zenon DEF Store
  <1>11. \A b \in Accounts : s.nonce[b] <= r.nonce[b] BY <1>1, <1>6, <1>9
  <1>12. CreatedBelow(r) BY <1>7, <1>9, Zenon DEF CreatedBelow
  <1> QED BY <1>8, <1>9, <1>10, <1>11, <1>12, Zenon DEF Executed, r

LEMMA AuthorizationEffect ==
  ASSUME NEW s \in Store, CreatedBelow(s), NEW t \in Tx
  PROVE  /\ Executed(s, applyAuthorization(s, t))
         /\ applyAuthorization(s, t).bal = s.bal
PROOF
  <1> DEFINE r == applyAuthorization(s, t)
             f == [s.nonce EXCEPT ![t.auth] = t.authNonce + 1]
             g == [s.code EXCEPT ![t.auth] = t.authCode]
  <1>1. s.nonce \in [Accounts -> Nat] /\ s.code \in [Accounts -> Codes]
        /\ s.created \in SUBSET (Accounts \X Nat) BY Zenon DEF Store
  <1>2. t.authNonce \in Nat /\ t.authCode \in Codes BY Zenon DEF Tx, Codes
  <1>3. CASE AuthorizationValid(s, t)
    <2>1. t.auth \in Accounts /\ s.nonce[t.auth] = t.authNonce BY <1>3, Zenon DEF AuthorizationValid
    <2>2. f \in [Accounts -> Nat] /\ g \in [Accounts -> Codes] BY <1>1, <1>2, <2>1
    <2>3. \A b \in Accounts : s.nonce[b] <= f[b] BY <1>1, <1>2, <2>1
    <2>4. r = [s EXCEPT !.nonce = f, !.code = g] BY <1>3, Zenon DEF applyAuthorization, Store
    <2> HIDE DEF f, g, r
    <2>5. r \in Store BY <2>2, <2>4, Zenon DEF Store
    <2>6. r.bal = s.bal /\ r.nonce = f /\ r.created = s.created BY <2>4, Zenon DEF Store
    <2>7. r.collector = s.collector /\ r.cur = s.cur /\ r.prior = s.prior
          /\ r.marks = s.marks /\ r.hookMarks = s.hookMarks /\ r.bloom = s.bloom
      BY <2>4, Zenon DEF Store
    <2>8. \A b \in Accounts : s.nonce[b] <= r.nonce[b] BY <2>3, <2>6, Zenon
    <2>9. ASSUME NEW x \in s.created PROVE x[2] < f[x[1]]
      <3>1. x[1] \in Accounts /\ x[2] \in Nat BY <1>1, Zenon
      <3>2. x[2] < s.nonce[x[1]] BY Zenon DEF CreatedBelow
      <3> QED BY <3>1, <3>2, <1>1, <2>2, <2>3
    <2>10. CreatedBelow(r) BY <2>6, <2>9, Zenon DEF CreatedBelow
    <2> QED BY <2>5, <2>6, <2>7, <2>8, <2>10, Zenon DEF Executed, r
  <1>4. CASE ~AuthorizationValid(s, t)
    <2>1. r = s BY <1>4, Zenon DEF applyAuthorization
    <2>2. \A b \in Accounts : s.nonce[b] <= s.nonce[b] BY <1>1
    <2> QED BY <2>1, <2>2, Zenon DEF Executed
  <1> QED BY <1>3, <1>4, Zenon

\* One execution after another.
LEMMA ExecutedTwice ==
  ASSUME NEW a \in Store, NEW b, NEW c, Executed(a, b), Executed(b, c)
  PROVE  Executed(a, c)
PROOF
  <1>1. b \in Store /\ c \in Store BY Zenon DEF Executed
  <1>2. a.nonce \in [Accounts -> Nat] /\ b.nonce \in [Accounts -> Nat] /\ c.nonce \in [Accounts -> Nat]
    BY <1>1, Zenon DEF Store
  <1>3. \A x \in Accounts : a.nonce[x] <= b.nonce[x] /\ b.nonce[x] <= c.nonce[x] BY Zenon DEF Executed
  <1>4. \A x \in Accounts : a.nonce[x] <= c.nonce[x] BY <1>2, <1>3
  <1> QED BY <1>4, Zenon DEF Executed

\* What the EVM may report.
OutcomeType ==
  [vmErr : BOOLEAN, used : Nat, refund : Nat, logs : BOOLEAN, nested : {0, 1}]

Recipient(t) == IF t.to = Create THEN ContractAddr ELSE t.to

\* A call that did not fail pays the value and moves nonces forward.
LEMMA CallEffect ==
  ASSUME NEW s \in Store, CreatedBelow(s), NEW t \in Tx, t.to # Create,
         NEW o \in OutcomeType, ~o.vmErr
  PROVE  /\ Executed(s, EvmCall(s, t, o))
         /\ EvmCall(s, t, o).bal = PaidBal(s.bal, t.from, Recipient(t), t.value)
PROOF
  <1> DEFINE a == applyAuthorization(s, t)
             p == Pay(a, t.from, t.to, t.value)
             n == NestedCreates(p, t.from, o.nested)
  <1>1. t.from \in Accounts /\ t.to \in Accounts /\ t.value \in Nat /\ o.nested \in {0, 1}
    BY Zenon DEF Tx, OutcomeType
  <1>2. Executed(s, a) /\ a.bal = s.bal BY AuthorizationEffect, Zenon
  <1>3. a \in Store /\ CreatedBelow(a) BY <1>2, Zenon DEF Executed
  <1> HIDE DEF a
  <1>4. Executed(a, p) /\ p.bal = PaidBal(a.bal, t.from, t.to, t.value) BY <1>1, <1>3, PayEffect, Zenon
  <1>5. p \in Store /\ CreatedBelow(p) BY <1>4, Zenon DEF Executed
  <1> HIDE DEF p
  <1>6. Executed(p, n) /\ n.bal = p.bal BY <1>1, <1>5, NestedEffect, Zenon
  <1>7. EvmCall(s, t, o) = n BY Zenon DEF EvmCall, a, p
  <1> HIDE DEF n
  <1>8. Executed(s, p) BY <1>2, <1>4, ExecutedTwice, Zenon
  <1>9. Executed(s, n) BY <1>6, <1>8, ExecutedTwice, Zenon
  <1> QED BY <1>2, <1>4, <1>6, <1>7, <1>9, Zenon DEF Recipient

\* The same for a creation, which spends the message's nonce on the address
\* and leaves the sender's above it.
LEMMA CreateEffect ==
  ASSUME NEW s \in Store, CreatedBelow(s), NEW t \in Tx, t.to = Create,
         NEW o \in OutcomeType, ~o.vmErr, s.nonce[t.from] = t.nonce + 1,
         ~(s.bal[t.from] < t.value)
  PROVE  /\ Executed(s, EvmCreate(s, t, o))
         /\ EvmCreate(s, t, o).bal = PaidBal(s.bal, t.from, Recipient(t), t.value)
PROOF
  <1> DEFINE f1 == [s.nonce EXCEPT ![t.from] = t.nonce]
             f2 == [f1 EXCEPT ![t.from] = t.nonce + 1]
             w == [s EXCEPT !.nonce[t.from] = t.nonce]
             u == [w EXCEPT !.nonce[t.from] = t.nonce + 1]
             p == Pay(u, t.from, ContractAddr, t.value)
             n == NestedCreates(p, t.from, o.nested)
             c == n.created \cup {<<t.from, t.nonce>>}
             g == [n.code EXCEPT ![ContractAddr] = "contract"]
             m == [n EXCEPT !.created = @ \cup {<<t.from, t.nonce>>},
                            !.code[ContractAddr] = "contract"]
             f3 == [m.nonce EXCEPT ![t.from] = NonceAfterCreate(@, t.nonce)]
             r == [m EXCEPT !.nonce[t.from] = NonceAfterCreate(@, t.nonce)]
  <1>1. t.from \in Accounts /\ t.value \in Nat /\ t.nonce \in Nat /\ o.nested \in {0, 1}
        /\ ContractAddr \in Accounts
    BY TxConstants, Zenon DEF Tx, OutcomeType
  <1>2. EvmCreate(s, t, o) = r BY Zenon DEF EvmCreate
  <1>3. s.nonce \in [Accounts -> Nat] BY Zenon DEF Store
  <1>4. f2 = s.nonce /\ f1 \in [Accounts -> Nat] BY <1>1, <1>3, Zenon
  <1>5. w = [s EXCEPT !.nonce = f1] BY Zenon DEF Store
  <1> HIDE DEF w
  <1>6. w \in Store /\ w.nonce = f1 BY <1>4, <1>5, Zenon DEF Store
  <1>7. u = [w EXCEPT !.nonce = f2] BY <1>6, Zenon DEF Store
  <1> HIDE DEF u, f1, f2
  <1>8. u = [w EXCEPT !.nonce = s.nonce] BY <1>4, <1>7, Zenon
  <1>9. u = s
    <2>1. u \in Store BY <1>3, <1>6, <1>8, Zenon DEF Store
    <2>2. u.nonce = s.nonce BY <1>6, <1>8, Zenon DEF Store
    <2>3. u.bal = s.bal /\ u.code = s.code /\ u.collector = s.collector /\ u.cur = s.cur
          /\ u.prior = s.prior BY <1>5, <1>6, <1>8, Zenon DEF Store
    <2>4. u.marks = s.marks /\ u.hookMarks = s.hookMarks /\ u.bloom = s.bloom
          /\ u.created = s.created BY <1>5, <1>6, <1>8, Zenon DEF Store
    <2> QED BY <2>1, <2>2, <2>3, <2>4 DEF Store
  <1>10. Executed(s, p) /\ p.bal = PaidBal(s.bal, t.from, ContractAddr, t.value)
    BY <1>1, <1>9, PayEffect, Zenon
  <1>11. p \in Store /\ CreatedBelow(p) BY <1>10, Zenon DEF Executed
  <1> HIDE DEF p
  <1>12. Executed(p, n) /\ n.bal = p.bal BY <1>1, <1>11, NestedEffect, Zenon
  <1> HIDE DEF n
  <1>13. Executed(s, n) BY <1>10, <1>12, ExecutedTwice, Zenon
  <1>14. n \in Store BY <1>12, Zenon DEF Executed
  <1>15. n.nonce \in [Accounts -> Nat] /\ n.code \in [Accounts -> Codes]
         /\ n.created \in SUBSET (Accounts \X Nat) BY <1>14, Zenon DEF Store
  <1>16. c \in SUBSET (Accounts \X Nat) /\ g \in [Accounts -> Codes] BY <1>1, <1>15 DEF Codes
  <1>17. m = [n EXCEPT !.created = c, !.code = g] BY <1>14, Zenon DEF Store
  <1> HIDE DEF m, g
  <1>18. m \in Store BY <1>14, <1>16, <1>17, Zenon DEF Store
  <1>19. m.created = c /\ m.nonce = n.nonce /\ m.bal = n.bal BY <1>14, <1>17, Zenon DEF Store
  <1>20. m.collector = n.collector /\ m.cur = n.cur /\ m.prior = n.prior
         /\ m.marks = n.marks /\ m.hookMarks = n.hookMarks /\ m.bloom = n.bloom
    BY <1>14, <1>17, Zenon DEF Store
  <1>21. t.nonce + 1 <= n.nonce[t.from] BY <1>1, <1>13, Zenon DEF Executed
  <1>22. f3 = n.nonce BY <1>1, <1>15, <1>19, <1>21 DEF NonceAfterCreate
  <1>23. r = m
    <2>1. r = [m EXCEPT !.nonce = f3] BY <1>18, Zenon DEF Store
    <2>2. r = [m EXCEPT !.nonce = m.nonce] BY <2>1, <1>19, <1>22, Zenon
    <2> QED BY <2>2, <1>18, Zenon DEF Store
  <1>24. CreatedBelow(m)
    <2> SUFFICES ASSUME NEW x \in c PROVE x[2] < n.nonce[x[1]] BY <1>19, Zenon DEF CreatedBelow
    <2>1. CASE x \in n.created BY <2>1, <1>12, Zenon DEF Executed, CreatedBelow
    <2>2. CASE x = <<t.from, t.nonce>> BY <2>2, <1>1, <1>15, <1>21
    <2> QED BY <2>1, <2>2, Zenon
  <1>25. Executed(n, m)
    <2>1. \A a \in Accounts : n.nonce[a] <= m.nonce[a] BY <1>15, <1>19
    <2> QED BY <2>1, <1>18, <1>20, <1>24, Zenon DEF Executed
  <1>26. Executed(s, m) BY <1>13, <1>25, ExecutedTwice, Zenon
  <1> HIDE DEF r
  <1> QED BY <1>2, <1>10, <1>12, <1>19, <1>23, <1>26, Zenon DEF Recipient

\* A cached context of a message: what the EVM did is kept or dropped whole.
LEMMA CachedEffect ==
  ASSUME NEW s \in Store, CreatedBelow(s), NEW t \in Tx, NEW o \in OutcomeType,
         s.nonce[t.from] = t.nonce + 1, s.bal[t.from] < t.value => o.vmErr, id \in Nat
  PROVE  LET r == CachedContext(s, t, o)
         IN  /\ r \in Store /\ CreatedBelow(r)
             /\ r.collector = s.collector /\ r.cur = s.cur /\ r.prior = s.prior
             /\ r.hookMarks = s.hookMarks /\ r.bloom = s.bloom
             /\ \A a \in Accounts : s.nonce[a] <= r.nonce[a]
             /\ o.vmErr => r = s
             /\ ~o.vmErr => /\ r.marks = s.marks \cup {id}
                            /\ r.bal = PaidBal(s.bal, t.from, Recipient(t), t.value)
PROOF
  <1>1. CASE o.vmErr
    <2>1. CachedContext(s, t, o) = s BY <1>1, Zenon DEF CachedContext
    <2>2. \A a \in Accounts : s.nonce[a] <= s.nonce[a] BY DEF Store
    <2> QED BY <1>1, <2>1, <2>2, Zenon
  <1>2. CASE ~o.vmErr
    <2> DEFINE e == IF t.to = Create THEN EvmCreate(s, t, o) ELSE EvmCall(s, t, o)
               r == CachedContext(s, t, o)
    <2>1. Executed(s, e) /\ e.bal = PaidBal(s.bal, t.from, Recipient(t), t.value)
      <3>1. CASE t.to = Create BY <3>1, <1>2, CreateEffect, Zenon
      <3>2. CASE t.to # Create BY <3>2, <1>2, CallEffect, Zenon
      <3> QED BY <3>1, <3>2, Zenon
    <2>2. r = [e EXCEPT !.marks = @ \cup {id}] BY <1>2, Zenon DEF CachedContext, RunMessage
    <2> HIDE DEF e, r
    <2>3. e \in Store /\ CreatedBelow(e) BY <2>1, Zenon DEF Executed
    <2>4. e.marks \cup {id} \in SUBSET Nat BY <2>3, Zenon DEF Store
    <2>5. r \in Store BY <2>2, <2>3, <2>4, Zenon DEF Store
    <2>6. r.nonce = e.nonce /\ r.created = e.created /\ r.bal = e.bal
          /\ r.marks = e.marks \cup {id} BY <2>2, <2>3, Zenon DEF Store
    <2>7. r.collector = e.collector /\ r.cur = e.cur /\ r.prior = e.prior
          /\ r.hookMarks = e.hookMarks /\ r.bloom = e.bloom BY <2>2, <2>3, Zenon DEF Store
    <2>8. CreatedBelow(r) BY <2>3, <2>6, Zenon DEF CreatedBelow
    <2> QED BY <1>2, <2>1, <2>5, <2>6, <2>7, <2>8, Zenon DEF Executed, r
  <1> QED BY <1>1, <1>2, Zenon

\* The gas a message is charged for is at most its limit.
LEMMA GasUsedBound ==
  ASSUME NEW t \in Tx, NEW o \in OutcomeType, o.used <= t.gas
  PROVE  GasUsed(t, o) \in Nat /\ GasUsed(t, o) <= t.gas
PROOF
  <1> DEFINE k == GasToRefund(o.refund, o.used)
             x == (o.used - k) * DecUnit
             y == t.gas * MinGasMultiplier
  <1>1. t.gas \in Nat /\ o.used \in Nat /\ o.refund \in Nat BY Zenon DEF Tx, OutcomeType
  <1>2. DecUnit \in Nat \ {0} /\ MinGasMultiplier \in 0..DecUnit BY FeeMarketConstants, Zenon
  <1>3. k \in Nat /\ k <= o.used
    <2>1. o.used \div RefundQuotient \in Nat BY <1>1, TxConstants, DivNat, Zenon
    <2>2. o.used \div RefundQuotient <= o.used
      <3>1. RefundQuotient \in Nat \ {0} BY TxConstants, Zenon
      <3>2. 1 * o.used <= RefundQuotient * o.used BY <1>1, <3>1, MulMono
      <3>3. o.used <= o.used * RefundQuotient BY <1>1, <3>1, <3>2
      <3> QED BY <1>1, <3>1, <3>3, DivBound, Zenon
    <2> QED BY <1>1, <2>1, <2>2 DEF GasToRefund, MinOf
  <1>4. x \in Nat /\ x <= t.gas * DecUnit
    <2>1. o.used - k \in Nat /\ o.used - k <= t.gas BY <1>1, <1>3
    <2> HIDE DEF k
    <2> QED BY <2>1, <1>1, <1>2, MulNat, MulMono, Zenon
  <1>5. y \in Nat /\ y <= t.gas * DecUnit
    <2>1. MinGasMultiplier \in Nat /\ MinGasMultiplier <= DecUnit BY <1>2
    <2>2. MinGasMultiplier * t.gas <= DecUnit * t.gas BY <2>1, <1>1, <1>2, MulMono, Zenon
    <2> QED BY <2>1, <2>2, <1>1, <1>2, MulNat
  <1>6. GasUsed(t, o) = MaxOf(x, y) \div DecUnit BY Zenon DEF GasUsed
  <1> HIDE DEF x, y
  <1>7. MaxOf(x, y) \in Nat /\ MaxOf(x, y) <= t.gas * DecUnit BY <1>4, <1>5, Zenon DEF MaxOf
  <1> QED BY <1>1, <1>2, <1>6, <1>7, DivNat, DivBound, Zenon

\* A refund is at most the fee.
LEMMA RefundBound ==
  ASSUME params \in ParamsType, NEW t \in Tx, NEW g \in Nat
  PROVE  Refund(t, g) \in Nat /\ VerifyFee(t) \in Nat /\ Refund(t, g) <= VerifyFee(t)
PROOF
  <1> DEFINE p == EffectiveGasPrice(t, GetBaseFee(params))
  <1>1. t.gas \in Nat /\ t.tipCap \in Nat /\ t.feeCap \in Nat BY Zenon DEF Tx
  <1>2. p \in Nat BY <1>1, PriceBounds, Zenon
  <1> HIDE DEF p
  <1>3. t.gas * p \in Nat BY <1>1, <1>2, MulNat, Zenon
  <1>4. t.gas > g => (t.gas - g) * p \in Nat /\ (t.gas - g) * p <= t.gas * p
    BY <1>1, <1>2, MulNat, MulMono
  <1> QED BY <1>3, <1>4 DEF Refund, VerifyFee, p

\* The ante handler moves the fee and the nonce, and the fees of earlier
\* transactions to their own index.
AnteLeaves(s, a, fee, r) ==
  /\ r \in Store /\ CreatedBelow(r)
  /\ r.nonce = [s.nonce EXCEPT ![a] = @ + 1]
  /\ r.bal = [s.bal EXCEPT ![a] = @ - fee]
  /\ r.code = s.code /\ r.created = s.created /\ r.marks = s.marks
  /\ r.hookMarks = s.hookMarks /\ r.bloom = s.bloom
  /\ mode.virtual => r.cur = fee /\ r.collector = s.collector
  /\ ~mode.virtual => r.cur = 0 /\ r.collector = s.collector + fee
  /\ r.prior = s.prior + s.cur

LEMMA AnteEffect ==
  ASSUME NEW s \in Store, CreatedBelow(s), NEW a \in Accounts, NEW fee \in Nat
  PROVE  AnteLeaves(s, a, fee, IncrementNonce(CoinsToCollector(NextTxIndex(s), a, fee), a))
PROOF
  <1> DEFINE n == NextTxIndex(s)
             b == [s.bal EXCEPT ![a] = @ - fee]
             f == [s.nonce EXCEPT ![a] = @ + 1]
             c == CoinsToCollector(n, a, fee)
             r == IncrementNonce(c, a)
  <1>1. s.bal \in [Accounts -> Int] /\ s.nonce \in [Accounts -> Nat]
        /\ s.collector \in Nat /\ s.cur \in Nat /\ s.prior \in Nat BY Zenon DEF Store
  <1>2. n \in Store /\ n.prior = s.prior + s.cur /\ n.cur = 0
    <2>1. s.prior + s.cur \in Nat BY <1>1
    <2>2. n = [s EXCEPT !.prior = s.prior + s.cur, !.cur = 0] BY Zenon DEF NextTxIndex
    <2> HIDE DEF n
    <2> QED BY <2>1, <2>2, Zenon DEF Store
  <1>3. n.bal = s.bal /\ n.nonce = s.nonce /\ n.code = s.code /\ n.created = s.created
        /\ n.marks = s.marks /\ n.hookMarks = s.hookMarks /\ n.bloom = s.bloom
        /\ n.collector = s.collector BY Zenon DEF NextTxIndex, Store
  <1> HIDE DEF n
  <1>4. b \in [Accounts -> Int] /\ f \in [Accounts -> Nat] BY <1>1
  <1>5. /\ c \in Store /\ c.bal = b /\ c.nonce = s.nonce /\ c.code = s.code
        /\ c.created = s.created /\ c.marks = s.marks
        /\ c.hookMarks = s.hookMarks /\ c.bloom = s.bloom
        /\ mode.virtual => c.cur = fee /\ c.collector = s.collector
        /\ ~mode.virtual => c.cur = 0 /\ c.collector = s.collector + fee
        /\ c.prior = s.prior + s.cur
    <2>1. CASE mode.virtual
      <3>2. c = [n EXCEPT !.bal = b, !.cur = n.cur + fee]
        BY <2>1, <1>2, <1>3, Zenon DEF CoinsToCollector, Store
      <3> HIDE DEF b, c
      <3>3. n.cur + fee = fee BY <1>2
      <3>1. c = [n EXCEPT !.bal = b, !.cur = fee] BY <3>2, <3>3, Zenon
      <3> QED BY <3>1, <2>1, <1>2, <1>3, <1>4, Zenon DEF Store
    <2>2. CASE ~mode.virtual
      <3>1. c = [n EXCEPT !.bal = b, !.collector = s.collector + fee]
        BY <2>2, <1>2, <1>3, Zenon DEF CoinsToCollector, Store
      <3>2. s.collector + fee \in Nat BY <1>1
      <3> HIDE DEF b, c
      <3> QED BY <3>1, <3>2, <2>2, <1>2, <1>3, <1>4, Zenon DEF Store
    <2> QED BY <2>1, <2>2, Zenon
  <1> HIDE DEF c
  <1>6. r = [c EXCEPT !.nonce = f] BY <1>5, Zenon DEF IncrementNonce, Store
  <1> HIDE DEF r, f, b
  <1>7. r \in Store /\ r.nonce = f BY <1>4, <1>5, <1>6, Zenon DEF Store
  <1>8. /\ r.bal = b /\ r.code = s.code /\ r.created = s.created /\ r.marks = s.marks
        /\ r.hookMarks = s.hookMarks /\ r.bloom = s.bloom
        /\ r.cur = c.cur /\ r.collector = c.collector /\ r.prior = c.prior
    BY <1>5, <1>6, Zenon DEF Store
  <1>9. CreatedBelow(r)
    <2> SUFFICES ASSUME NEW x \in s.created PROVE x[2] < f[x[1]] BY <1>7, <1>8, Zenon DEF CreatedBelow
    <2>1. x[1] \in Accounts /\ x[2] \in Nat BY Zenon DEF Store
    <2>2. x[2] < s.nonce[x[1]] BY Zenon DEF CreatedBelow
    <2> QED BY <2>1, <2>2, <1>1 DEF f
  <1>10. AnteLeaves(s, a, fee, r) BY <1>5, <1>7, <1>8, <1>9, Zenon DEF AnteLeaves, f, b
  <1> QED BY <1>10, Zenon DEF r, c, n

\* The collector pays the refund back.
LEMMA RefundEffect ==
  ASSUME NEW s \in Store, CreatedBelow(s), NEW a \in Accounts, NEW x \in Nat, CollectorHas(s, x)
  PROVE  LET r == CoinsFromCollector(s, a, x)
         IN  /\ r \in Store /\ CreatedBelow(r)
             /\ r.bal = [s.bal EXCEPT ![a] = @ + x]
             /\ r.nonce = s.nonce /\ r.code = s.code /\ r.created = s.created
             /\ r.marks = s.marks /\ r.hookMarks = s.hookMarks /\ r.bloom = s.bloom
             /\ r.prior = s.prior
             /\ r.collector + r.cur = s.collector + s.cur - x
PROOF
  <1> DEFINE b == [s.bal EXCEPT ![a] = @ + x]
             r == CoinsFromCollector(s, a, x)
  <1>1. s.bal \in [Accounts -> Int] /\ s.collector \in Nat /\ s.cur \in Nat BY Zenon DEF Store
  <1>2. b \in [Accounts -> Int] BY <1>1
  <1>3. /\ r \in Store /\ r.bal = b /\ r.nonce = s.nonce /\ r.code = s.code /\ r.created = s.created
        /\ r.marks = s.marks /\ r.hookMarks = s.hookMarks /\ r.bloom = s.bloom /\ r.prior = s.prior
        /\ r.collector + r.cur = s.collector + s.cur - x
    <2>1. CASE mode.virtual
      <3>1. s.cur - x \in Nat BY <2>1, <1>1 DEF CollectorHas
      <3>2. r = [s EXCEPT !.bal = b, !.cur = s.cur - x] BY <2>1, Zenon DEF CoinsFromCollector, Store
      <3> HIDE DEF b, r
      <3>3. r.cur = s.cur - x /\ r.collector = s.collector BY <3>2, Zenon DEF Store
      <3>4. r.collector + r.cur = s.collector + s.cur - x BY <3>3, <1>1, Zenon
      <3>5. r \in Store BY <3>1, <3>2, <1>2, Zenon DEF Store
      <3> QED BY <3>2, <3>4, <3>5, Zenon DEF Store
    <2>2. CASE ~mode.virtual
      <3>1. s.collector - x \in Nat BY <2>2, <1>1 DEF CollectorHas
      <3>2. r = [s EXCEPT !.bal = b, !.collector = s.collector - x] BY <2>2, Zenon DEF CoinsFromCollector, Store
      <3> HIDE DEF b, r
      <3>3. r.collector = s.collector - x /\ r.cur = s.cur BY <3>2, Zenon DEF Store
      <3>4. r.collector + r.cur = s.collector + s.cur - x BY <3>3, <1>1
      <3>5. r \in Store BY <3>1, <3>2, <1>2, Zenon DEF Store
      <3> QED BY <3>2, <3>4, <3>5, Zenon DEF Store
    <2> QED BY <2>1, <2>2, Zenon
  <1> HIDE DEF r
  <1>4. CreatedBelow(r) BY <1>3, Zenon DEF CreatedBelow
  <1> QED BY <1>3, <1>4, Zenon DEF r

\* The fee of a Cosmos transaction that passes the checker.
LEMMA CosmosFeeNat ==
  ASSUME params \in ParamsType, NEW t \in CosmosTxs, ~FeeChecker(params, height, t).err
  PROVE  FeeChecker(params, height, t).fee \in Nat
PROOF
  <1> DEFINE baseFee == IF IsBaseFeeEnabled(params, height) THEN params.baseFee ELSE 0
             feeCap == (t.fee * DecUnit) \div t.gas
             price == MinOf(t.maxPriorityPrice + baseFee, feeCap)
  <1>1. t.gas \in Nat \ {0} /\ t.fee \in Nat /\ t.maxPriorityPrice \in Int BY TxConstants, Zenon
  <1>2. DecUnit \in Nat \ {0} BY FeeMarketConstants, Zenon
  <1>3. baseFee \in Nat BY Zenon DEF ParamsType
  <1>4. t.fee * DecUnit \in Nat BY <1>1, <1>2, MulNat, Zenon
  <1>5. feeCap \in Nat BY <1>1, <1>4, DivNat, Zenon
  <1>6. ~(t.maxPriorityPrice < 0) /\ FeeChecker(params, height, t).fee = Ceil(price * t.gas)
    BY Zenon DEF FeeChecker
  <1> HIDE DEF baseFee, feeCap
  <1>7. price \in Nat BY <1>1, <1>3, <1>5, <1>6 DEF MinOf
  <1> HIDE DEF price
  <1>8. price * t.gas \in Nat BY <1>1, <1>7, MulNat, Zenon
  <1>9. price * t.gas + DecUnit - 1 \in Nat BY <1>2, <1>8
  <1>10. Ceil(price * t.gas) \in Nat BY <1>2, <1>9, DivNat, Zenon DEF Ceil
  <1> QED BY <1>6, <1>10, Zenon

\* What the ante handler of a Cosmos transaction leaves.
CosmosPaid(s, a, fee) ==
  [IncrementNonce(NextTxIndex(s), a) EXCEPT !.bal[a] = @ - fee, !.collector = @ + fee]

LEMMA CosmosPaidEffect ==
  ASSUME NEW s \in Store, CreatedBelow(s), NEW a \in Accounts, NEW fee \in Nat
  PROVE  LET r == CosmosPaid(s, a, fee)
         IN  /\ r \in Store /\ CreatedBelow(r)
             /\ r.nonce = [s.nonce EXCEPT ![a] = @ + 1]
             /\ r.bal = [s.bal EXCEPT ![a] = @ - fee]
             /\ r.created = s.created /\ r.marks = s.marks
             /\ r.hookMarks = s.hookMarks /\ r.bloom = s.bloom
             /\ Held(r) = Held(s) + fee
PROOF
  <1> DEFINE n == NextTxIndex(s)
             f == [s.nonce EXCEPT ![a] = @ + 1]
             i == IncrementNonce(n, a)
             b == [s.bal EXCEPT ![a] = @ - fee]
             r == CosmosPaid(s, a, fee)
  <1>1. s.bal \in [Accounts -> Int] /\ s.nonce \in [Accounts -> Nat]
        /\ s.collector \in Nat /\ s.cur \in Nat /\ s.prior \in Nat BY Zenon DEF Store
  <1>2. b \in [Accounts -> Int] /\ f \in [Accounts -> Nat] BY <1>1
  <1>3. s.prior + s.cur \in Nat /\ s.collector + fee \in Nat BY <1>1
  <1>4. n = [s EXCEPT !.prior = s.prior + s.cur, !.cur = 0] BY Zenon DEF NextTxIndex
  <1> HIDE DEF n
  <1>5. n \in Store /\ n.nonce = s.nonce BY <1>3, <1>4, Zenon DEF Store
  <1>6. i = [n EXCEPT !.nonce = f] BY <1>5, Zenon DEF IncrementNonce, Store
  <1>7. i = [s EXCEPT !.prior = s.prior + s.cur, !.cur = 0, !.nonce = f] BY <1>4, <1>6, Zenon DEF Store
  <1> HIDE DEF i
  <1>8. i.bal = s.bal /\ i.collector = s.collector BY <1>7, Zenon DEF Store
  <1>9. i \in Store BY <1>2, <1>5, <1>6, Zenon DEF Store
  <1>10. r = [i EXCEPT !.bal = b, !.collector = s.collector + fee]
    BY <1>8, <1>9, Zenon DEF CosmosPaid, Store, i, n
  <1> HIDE DEF r, b, f
  <1>11. r \in Store BY <1>2, <1>3, <1>9, <1>10, Zenon DEF Store
  <1>12. r.nonce = f /\ r.bal = b /\ r.created = s.created /\ r.marks = s.marks
         /\ r.hookMarks = s.hookMarks /\ r.bloom = s.bloom
    BY <1>7, <1>10, Zenon DEF Store
  <1>13. r.collector = s.collector + fee /\ r.cur = 0 /\ r.prior = s.prior + s.cur
    BY <1>7, <1>10, Zenon DEF Store
  <1>14. Held(r) = Held(s) + fee BY <1>1, <1>13 DEF Held
  <1>15. CreatedBelow(r)
    <2> SUFFICES ASSUME NEW x \in s.created PROVE x[2] < f[x[1]] BY <1>12, Zenon DEF CreatedBelow
    <2>1. x[1] \in Accounts /\ x[2] \in Nat BY Zenon DEF Store
    <2>2. x[2] < s.nonce[x[1]] BY Zenon DEF CreatedBelow
    <2> QED BY <2>1, <2>2, <1>1 DEF f
  <1> QED BY <1>11, <1>12, <1>14, <1>15, Zenon DEF r, b, f

(***************************************************************************)
(* What the ledger sees of a step.                                         *)
(***************************************************************************)
LEMMA LedgerStart == TxInit => Ledger!LedgerInit
PROOF
  <1> SUFFICES ASSUME TxInit PROVE Ledger!LedgerInit BY Zenon
  <1>1. PICK d \in SUBSET MayDelegate : store = GenesisStore(d) BY Zenon DEF TxInit
  <1>2. ~InFlight BY Zenon DEF TxInit, InFlight
  <1>3. LedgerBal = Balances /\ LedgerNonce = [a \in Accounts |-> 0]
    BY <1>1, <1>2, Zenon DEF LedgerBal, LedgerNonce, GenesisStore
  <1>4. Held(store) - InFlightFee = 0 BY <1>1, <1>2 DEF Held, InFlightFee, GenesisStore
  <1>5. receipts = {} BY Zenon DEF TxInit
  <1> QED BY <1>3, <1>4, <1>5, TxConstants, Zenon DEF Ledger!LedgerInit

\* A step that the ledger does not see.
Unseen ==
  /\ LedgerBal' = LedgerBal /\ LedgerNonce' = LedgerNonce
  /\ (Held(store) - InFlightFee)' = Held(store) - InFlightFee
  /\ receipts' = receipts

LEMMA UnseenStutters == Unseen => UNCHANGED Ledger!ledgerVars
  BY Zenon DEF Unseen, Ledger!ledgerVars

LEMMA AnteUnseen ==
  ASSUME store \in Store, CreatedBelow(store), params \in ParamsType,
         NEW t \in EthTxs, NEW n \in 0..MaxNonce, EthAnteHandle(t, n)
  PROVE  Unseen
PROOF
  <1> DEFINE fee == VerifyFee(t)
  <1>2. t.from \in Accounts /\ t.gas \in Nat /\ t.tipCap \in Nat /\ t.feeCap \in Nat BY TxConstants, Zenon
  <1>3. fee \in Nat
    <2>1. EffectiveGasPrice(t, GetBaseFee(params)) \in Nat BY <1>2, PriceBounds, Zenon
    <2> QED BY <2>1, <1>2, MulNat, Zenon DEF VerifyFee
  <1>4. /\ stage = "idle" /\ stage' = "ante" /\ receipts' = receipts /\ params' = params
        /\ store' = IncrementNonce(CoinsToCollector(NextTxIndex(store), t.from, fee), t.from)
        /\ tx'.from = t.from /\ tx'.gas = t.gas /\ tx'.feeCap = t.feeCap /\ tx'.tipCap = t.tipCap
    BY Zenon DEF EthAnteHandle
  <1>5. ~InFlight /\ InFlight' BY <1>4, Zenon DEF InFlight
  <1>6. InFlightFee = 0 /\ InFlightFee' = fee
    BY <1>4, <1>5, Zenon DEF InFlightFee, VerifyFee, EffectiveGasPrice
  <1> HIDE DEF fee
  <1>7. /\ store' \in Store
        /\ store'.nonce = [store.nonce EXCEPT ![t.from] = @ + 1]
        /\ store'.bal = [store.bal EXCEPT ![t.from] = @ - fee]
        /\ mode.virtual => store'.cur = fee /\ store'.collector = store.collector
        /\ ~mode.virtual => store'.cur = 0 /\ store'.collector = store.collector + fee
        /\ store'.prior = store.prior + store.cur
    <2>1. AnteLeaves(store, t.from, fee, store') BY <1>2, <1>3, <1>4, AnteEffect, Zenon
    <2> QED BY <2>1, Zenon DEF AnteLeaves
  <1>8. store.nonce \in [Accounts -> Nat] /\ store.bal \in [Accounts -> Int]
        /\ store.collector \in Nat /\ store.cur \in Nat /\ store.prior \in Nat
    BY Zenon DEF Store
  <1>9. LedgerBal' = LedgerBal
    <2>1. LedgerBal = store.bal /\ LedgerBal' = [store'.bal EXCEPT ![t.from] = @ + fee]
      BY <1>4, <1>5, <1>6, Zenon DEF LedgerBal
    <2> QED BY <2>1, <1>2, <1>3, <1>7, <1>8
  <1>10. LedgerNonce' = LedgerNonce
    <2>1. LedgerNonce = store.nonce /\ LedgerNonce' = [store'.nonce EXCEPT ![t.from] = @ - 1]
      BY <1>4, <1>5, Zenon DEF LedgerNonce
    <2> QED BY <2>1, <1>2, <1>7, <1>8
  <1>11. Held(store') = Held(store) + fee
    <2>1. CASE mode.virtual BY <2>1, <1>3, <1>7, <1>8 DEF Held
    <2>2. CASE ~mode.virtual BY <2>2, <1>3, <1>7, <1>8 DEF Held
    <2> QED BY <2>1, <2>2, Zenon
  <1>12. (Held(store))' = Held(store') BY Zenon DEF Held
  <1>13. Held(store) \in Nat BY <1>8 DEF Held
  <1>14. (Held(store) - InFlightFee)' = Held(store) - InFlightFee
    BY <1>3, <1>6, <1>11, <1>12, <1>13
  <1> QED BY <1>4, <1>9, <1>10, <1>14, Zenon DEF Unseen

\* A step that keeps the block's state and the transaction in flight.
StillInFlight ==
  /\ stage \in {"ante", "applied", "hooked"} /\ stage' \in {"applied", "hooked"}
  /\ UNCHANGED <<store, tx, params, height, blockGasWanted, blockWanted, blockUsed, mode, receipts, id>>

LEMMA FlightUnseen == ASSUME StillInFlight PROVE Unseen
  BY Zenon DEF StillInFlight, Unseen, LedgerBal, LedgerNonce, InFlight, InFlightFee, VerifyFee, Held

LEMMA EndBlockUnseen ==
  ASSUME store \in Store, NEW p, EndBlock(p) PROVE Unseen
PROOF
  <1> DEFINE c == store.collector + store.cur + store.prior
  <1>2. c \in Nat BY DEF Store
  <1>3. store' = [[store EXCEPT !.collector = c, !.cur = 0, !.prior = 0] EXCEPT !.bloom = {}]
    BY Zenon DEF EndBlock, CreditVirtualAccounts, Store
  <1>4. ~InFlight /\ ~InFlight' /\ receipts' = receipts BY Zenon DEF EndBlock, InFlight
  <1>5. InFlightFee = 0 /\ InFlightFee' = 0 BY <1>4, Zenon DEF InFlightFee
  <1>6. Held(store) = c BY Zenon DEF Held
  <1> HIDE DEF c
  <1>7. store'.bal = store.bal /\ store'.nonce = store.nonce /\ store'.collector = c
        /\ store'.cur = 0 /\ store'.prior = 0 BY <1>3, Zenon DEF Store
  <1>8. (Held(store))' = c BY <1>2, <1>7 DEF Held
  <1> QED BY <1>2, <1>4, <1>5, <1>6, <1>7, <1>8, Zenon DEF Unseen, LedgerBal, LedgerNonce

LEMMA BeginBlockUnseen == ASSUME BeginBlock PROVE Unseen
PROOF
  <1>1. ~InFlight /\ ~InFlight' /\ store' = store /\ receipts' = receipts BY Zenon DEF BeginBlock, InFlight
  <1> QED BY <1>1, Zenon DEF Unseen, LedgerBal, LedgerNonce, InFlightFee, Held

\* Deliver, once its parts are known: the sender pays x for gas and v to the
\* recipient.
LEMMA Delivered ==
  ASSUME NEW r, r \notin receipts, receipts' = receipts \cup {r},
         r.from \in Accounts, r.to \in Accounts,
         NEW x \in Nat, NEW v \in Nat, Ledger!FeeOf(r) = x, Ledger!Moved(r) = v,
         NEW b \in [Accounts -> Int], LedgerBal = b, x + v <= b[r.from],
         LedgerBal' = PaidBal([b EXCEPT ![r.from] = @ - x], r.from, r.to, v),
         (Held(store) - InFlightFee)' = Held(store) - InFlightFee + x,
         LedgerNonce[r.from] = r.nonce, LedgerNonce'[r.from] > LedgerNonce[r.from],
         \A a \in Accounts : LedgerNonce'[a] >= LedgerNonce[a]
  PROVE  Ledger!LedgerNext
PROOF
  <1> DEFINE d == [b EXCEPT ![r.from] = @ - x - v]
             e == [d EXCEPT ![r.to] = @ + v]
             f == [b EXCEPT ![r.from] = @ - x]
             g == [f EXCEPT ![r.from] = @ - v]
  <1>1. g = d BY Zenon DEF PaidBal
  <1>2. LedgerBal' = e BY <1>1, Zenon DEF PaidBal
  <1>3. Ledger!Debit(LedgerBal, r) = d BY Zenon DEF Ledger!Debit
  <1>4. Ledger!Transferred(LedgerBal, r) = e BY <1>3, Zenon DEF Ledger!Transferred
  <1>5. Ledger!Deliver(r) BY <1>2, <1>4, Zenon DEF Ledger!Deliver
  <1> QED BY <1>5, Zenon DEF Ledger!LedgerNext

(***************************************************************************)
(* The inductive invariant.                                                *)
(***************************************************************************)
Res == [failed : BOOLEAN, gasUsed : Nat, logs : BOOLEAN, hook : BOOLEAN]

\* The cached context s is the block's state plus what res reports of the
\* transaction in flight.
After(s) ==
  /\ s \in Store /\ CreatedBelow(s)
  /\ s.collector = store.collector /\ s.cur = store.cur /\ s.prior = store.prior
  /\ s.marks = store.marks \cup (IF res.failed THEN {} ELSE {id})
  /\ s.hookMarks = store.hookMarks \cup (IF res.hook THEN {id} ELSE {})
  /\ s.bloom = store.bloom \cup (IF res.logs THEN {id} ELSE {})
  /\ \A a \in Accounts : store.nonce[a] <= s.nonce[a]
  /\ res.failed => /\ s.bal = store.bal /\ s.nonce = store.nonce
                   /\ s.code = store.code /\ s.created = store.created
  /\ ~res.failed => s.bal = PaidBal(store.bal, tx.from, Recipient(tx), tx.value)

Types ==
  /\ store \in Store /\ CreatedBelow(store)
  /\ stage \in {"begin", "idle", "ante", "applied", "hooked"}
  /\ params \in ParamsType /\ height \in Nat
  /\ blockGasWanted \in Nat /\ blockWanted \in Nat /\ blockUsed \in Nat
  /\ mode \in [hooks : BOOLEAN, virtual : BOOLEAN]

ReceiptsInv ==
  /\ id \in Nat
  /\ \A r \in receipts :
       /\ r.id \in 0..(id - 1) /\ r.from \in Accounts /\ r.nonce \in Nat
       /\ r.nonce < store.nonce[r.from] /\ r.height \in 0..height
       /\ (r.status = "ok") <=> (r.id \in store.marks)
       /\ r.hook <=> (r.id \in store.hookMarks)
       /\ (r.logs /\ r.height = height /\ stage # "begin") <=> (r.id \in store.bloom)
  /\ \A r, q \in receipts : r.from = q.from /\ r.nonce = q.nonce => r.id = q.id
  /\ \A i \in store.marks \cup store.hookMarks \cup store.bloom : i < id

\* While a transaction is in flight its nonce is the last one spent, and its
\* fee lies with the collector.
FlightInv ==
  InFlight =>
    /\ tx \in Tx /\ IntrinsicGas <= tx.gas
    /\ store.nonce[tx.from] = tx.nonce + 1
    /\ \A r \in receipts : r.from = tx.from => r.nonce < tx.nonce
    /\ CollectorHas(store, VerifyFee(tx))
    /\ tx.gas * tx.feeCap + tx.value <= store.bal[tx.from] + VerifyFee(tx)

ResultInv ==
  /\ stage \in {"applied", "hooked"} => res \in Res /\ res.gasUsed <= tx.gas
  /\ stage = "applied" => ~res.hook /\ (res.failed => ~res.logs) /\ After(tmp)
  /\ stage = "hooked" => After(ctx)

IInv == Types /\ ReceiptsInv /\ FlightInv /\ ResultInv

\* A step that lands on a well-formed store and keeps the parameters, the
\* height and the mode keeps the types.
LEMMA TypesKept ==
  ASSUME Types, store' \in Store, CreatedBelow(store'), stage' \in {"idle", "ante"},
         params' = params, height' = height, blockGasWanted' = blockGasWanted, mode' = mode,
         blockWanted' \in Nat, blockUsed' \in Nat
  PROVE  Types'
PROOF
  <1>1. (CreatedBelow(store))' BY Zenon DEF CreatedBelow
  <1> QED BY <1>1, Zenon DEF Types

\* Once no transaction is in flight nothing is left to show about one.
LEMMA Landed ==
  ASSUME stage' \in {"begin", "idle"} PROVE FlightInv' /\ ResultInv'
  BY Zenon DEF FlightInv, ResultInv, InFlight

LEMMA FlightGoesOn == ASSUME IInv, StillInFlight PROVE Types' /\ ReceiptsInv' /\ FlightInv'
PROOF
  <1>1. Types /\ ReceiptsInv /\ FlightInv /\ InFlight BY Zenon DEF IInv, StillInFlight, InFlight
  <1>2. Types' BY <1>1, Zenon DEF Types, StillInFlight, CreatedBelow
  <1>3. ReceiptsInv' BY <1>1, Zenon DEF ReceiptsInv, StillInFlight
  <1>4. (VerifyFee(tx))' = VerifyFee(tx) BY Zenon DEF StillInFlight, VerifyFee
  <1>5. (CollectorHas(store, VerifyFee(tx)))' = CollectorHas(store, VerifyFee(tx))
    BY <1>4, Zenon DEF StillInFlight, CollectorHas
  <1>6. FlightInv' BY <1>1, <1>4, <1>5, Zenon DEF FlightInv, StillInFlight
  <1> QED BY <1>2, <1>3, <1>6, Zenon

\* The block's own state is what a transaction that failed leaves.
LEMMA DroppedAfter ==
  ASSUME store \in Store, CreatedBelow(store),
         UNCHANGED <<store, receipts>>, res' \in Res, res'.failed, ~res'.logs, ~res'.hook, ctx' = store
  PROVE  (After(ctx))'
PROOF
  <1>1. \A a \in Accounts : store.nonce[a] <= store.nonce[a] BY DEF Store
  <1>2. store.marks \cup {} = store.marks /\ store.hookMarks \cup {} = store.hookMarks
        /\ store.bloom \cup {} = store.bloom BY Zenon
  <1> QED BY <1>1, <1>2, Zenon DEF After, CreatedBelow

\* What a Cosmos transaction leaves: the payment, if its message succeeded.
CosmosLeaves(t, ok, fee, paid) ==
  /\ fee \in Nat
  /\ store' \in Store /\ CreatedBelow(store')
  /\ store'.nonce = [store.nonce EXCEPT ![t.from] = @ + 1]
  /\ store'.marks = store.marks \cup (IF ok THEN {id} ELSE {})
  /\ store'.hookMarks = store.hookMarks /\ store'.bloom = store.bloom
  /\ store'.bal = IF ok THEN PaidBal(paid.bal, t.from, t.to, t.value) ELSE paid.bal
  /\ paid.bal = [store.bal EXCEPT ![t.from] = @ - fee]
  /\ Held(store') = Held(store) + fee

LEMMA CosmosStore ==
  ASSUME Types, id \in Nat, NEW t \in CosmosTxs, NEW n \in 0..MaxNonce, NEW ok \in BOOLEAN,
         CosmosTx(t, n, ok)
  PROVE  CosmosLeaves(t, ok, FeeChecker(params, height, t).fee,
                      CosmosPaid(store, t.from, FeeChecker(params, height, t).fee))
PROOF
  <1> DEFINE fee == FeeChecker(params, height, t).fee
             paid == CosmosPaid(store, t.from, fee)
             p == Pay(paid, t.from, t.to, t.value)
  <1>1. store \in Store /\ CreatedBelow(store) /\ params \in ParamsType BY Zenon DEF Types
  <1>2. t.from \in Accounts /\ t.to \in Accounts /\ t.value \in Nat BY TxConstants, Zenon
  <1>3. fee \in Nat BY <1>1, CosmosFeeNat, Zenon DEF CosmosTx
  <1>5. store' = IF ok THEN [p EXCEPT !.marks = @ \cup {id}] ELSE paid
    BY Zenon DEF CosmosTx, CosmosPaid
  <1> HIDE DEF fee
  <1>6. /\ paid \in Store /\ CreatedBelow(paid)
        /\ paid.nonce = [store.nonce EXCEPT ![t.from] = @ + 1]
        /\ paid.bal = [store.bal EXCEPT ![t.from] = @ - fee]
        /\ paid.created = store.created /\ paid.marks = store.marks
        /\ paid.hookMarks = store.hookMarks /\ paid.bloom = store.bloom
        /\ Held(paid) = Held(store) + fee
    BY <1>1, <1>2, <1>3, CosmosPaidEffect, Zenon
  <1> HIDE DEF paid
  <1>7. ASSUME ~ok PROVE CosmosLeaves(t, ok, fee, paid)
    <2>1. store' = paid /\ store.marks \cup {} = store.marks BY <1>5, <1>7, Zenon
    <2> QED BY <2>1, <1>3, <1>6, <1>7, Zenon DEF CosmosLeaves
  <1>8. ASSUME ok PROVE CosmosLeaves(t, ok, fee, paid)
    <2>1. /\ Executed(paid, p) /\ p.bal = PaidBal(paid.bal, t.from, t.to, t.value)
          /\ p.nonce = paid.nonce
      <3>1. paid \in Store /\ CreatedBelow(paid) BY <1>6, Zenon
      <3> QED BY <3>1, <1>2, PayEffect, Zenon
    <2> HIDE DEF p
    <2>2. p \in Store /\ CreatedBelow(p) /\ p.marks = paid.marks /\ p.hookMarks = paid.hookMarks
          /\ p.bloom = paid.bloom /\ p.collector = paid.collector /\ p.cur = paid.cur
          /\ p.prior = paid.prior BY <2>1, Zenon DEF Executed
    <2>3. p.marks \cup {id} \in SUBSET Nat BY <2>2, Zenon DEF Store
    <2>4. store' = [p EXCEPT !.marks = p.marks \cup {id}] BY <1>5, <1>8, Zenon
    <2>5. store' \in Store BY <2>2, <2>3, <2>4, Zenon DEF Store
    <2>6. /\ store'.marks = p.marks \cup {id} /\ store'.nonce = p.nonce /\ store'.bal = p.bal
          /\ store'.created = p.created /\ store'.hookMarks = p.hookMarks /\ store'.bloom = p.bloom
      BY <2>2, <2>4, Zenon DEF Store
    <2>7. store'.collector = p.collector /\ store'.cur = p.cur /\ store'.prior = p.prior
      BY <2>2, <2>4, Zenon DEF Store
    <2>8. CreatedBelow(store') BY <2>2, <2>6, Zenon DEF CreatedBelow
    <2>9. Held(store') = Held(paid) BY <2>2, <2>7, Zenon DEF Held
    <2> QED BY <2>1, <2>2, <2>5, <2>6, <2>8, <2>9, <1>3, <1>6, <1>8, Zenon DEF CosmosLeaves
  <1>9. CosmosLeaves(t, ok, fee, paid) BY <1>7, <1>8, Zenon
  <1> QED BY <1>9, Zenon DEF paid, fee

\* The ledger while a transaction is in flight.
LEMMA FlightLedger ==
  ASSUME IInv, InFlight
  PROVE  LET price == EffectiveGasPrice(tx, GetBaseFee(params))
         IN  /\ price \in Nat /\ VerifyFee(tx) = tx.gas * price /\ VerifyFee(tx) \in Nat
             /\ InFlightFee = VerifyFee(tx)
             /\ tx.from \in Accounts /\ Recipient(tx) \in Accounts
             /\ tx.gas \in Nat /\ tx.value \in Nat /\ tx.nonce \in Nat
             /\ LedgerBal = [store.bal EXCEPT ![tx.from] = @ + VerifyFee(tx)]
             /\ LedgerNonce = [store.nonce EXCEPT ![tx.from] = @ - 1]
             /\ LedgerNonce[tx.from] = tx.nonce
             /\ VerifyFee(tx) + tx.value <= LedgerBal[tx.from]
             /\ store.bal \in [Accounts -> Int] /\ store.nonce \in [Accounts -> Nat]
             /\ Held(store) \in Nat
PROOF
  <1> DEFINE price == EffectiveGasPrice(tx, GetBaseFee(params))
             fee == VerifyFee(tx)
  <1>1. /\ tx \in Tx /\ store.nonce[tx.from] = tx.nonce + 1
        /\ tx.gas * tx.feeCap + tx.value <= store.bal[tx.from] + VerifyFee(tx)
    BY Zenon DEF IInv, FlightInv
  <1>2. tx.from \in Accounts /\ tx.gas \in Nat /\ tx.feeCap \in Nat /\ tx.tipCap \in Nat
        /\ tx.value \in Nat /\ tx.nonce \in Nat BY <1>1, Zenon DEF Tx
  <1>3. Recipient(tx) \in Accounts BY <1>1, TxConstants, Zenon DEF Tx, Recipient
  <1>4. params \in ParamsType /\ store \in Store BY Zenon DEF IInv, Types
  <1>5. price \in Nat /\ price <= tx.feeCap BY <1>2, <1>4, PriceBounds, Zenon
  <1>6. fee = tx.gas * price BY Zenon DEF VerifyFee
  <1> HIDE DEF price
  <1>7. fee \in Nat BY <1>2, <1>5, <1>6, MulNat, Zenon
  <1>8. fee <= tx.gas * tx.feeCap
    <2>1. price * tx.gas <= tx.feeCap * tx.gas BY <1>2, <1>5, MulMono, Zenon
    <2> QED BY <2>1, <1>2, <1>5, <1>6
  <1>9. tx.gas * tx.feeCap \in Nat BY <1>2, MulNat, Zenon
  <1>10. store.bal \in [Accounts -> Int] /\ store.nonce \in [Accounts -> Nat] /\ Held(store) \in Nat
    BY <1>4 DEF Store, Held
  <1>11. InFlightFee = fee BY Zenon DEF InFlightFee
  <1> HIDE DEF fee
  <1>12. /\ LedgerBal = [store.bal EXCEPT ![tx.from] = @ + fee]
         /\ LedgerNonce = [store.nonce EXCEPT ![tx.from] = @ - 1]
    BY <1>11, Zenon DEF LedgerBal, LedgerNonce
  <1>13. LedgerNonce[tx.from] = tx.nonce BY <1>1, <1>2, <1>10, <1>12
  <1>14. fee + tx.value <= LedgerBal[tx.from]
    <2>1. LedgerBal[tx.from] = store.bal[tx.from] + fee BY <1>2, <1>10, <1>12, Zenon
    <2>2. store.bal[tx.from] \in Int BY <1>2, <1>10, Zenon
    <2>3. tx.gas * tx.feeCap + tx.value <= store.bal[tx.from] + fee BY <1>1, Zenon DEF fee
    <2> QED BY <2>1, <2>2, <2>3, <1>2, <1>7, <1>8, <1>9
  <1> QED BY <1>2, <1>3, <1>5, <1>6, <1>7, <1>10, <1>11, <1>12, <1>13, <1>14, Zenon DEF price, fee

-----------------------------------------------------------------------------
\* A receipt with the next number is a new one.
LEMMA NewReceipt ==
  ASSUME ReceiptsInv, NEW r, r.id = id PROVE r \notin receipts
PROOF
  <1> SUFFICES ASSUME r \in receipts PROVE FALSE BY Zenon
  <1>1. id \in Nat /\ r.id \in 0..(id - 1) BY Zenon DEF ReceiptsInv
  <1> QED BY <1>1

\* A transaction that ends with a receipt which tells what it left behind
\* keeps the invariant of the receipts.
LEMMA ReceiptAdded ==
  ASSUME Types, ReceiptsInv, NEW r, NEW s \in Store,
         r.id = id, id' = id + 1,
         r.from \in Accounts, r.nonce \in Nat, r.height = height,
         receipts' = receipts \cup {r}, store' = s, height' = height,
         stage' = "idle", stage # "begin",
         \A a \in Accounts : store.nonce[a] <= s.nonce[a],
         r.nonce < s.nonce[r.from],
         \A q \in receipts : q.from = r.from => q.nonce # r.nonce,
         s.marks = store.marks \cup (IF r.status = "ok" THEN {id} ELSE {}),
         s.hookMarks = store.hookMarks \cup (IF r.hook THEN {id} ELSE {}),
         s.bloom = store.bloom \cup (IF r.logs THEN {id} ELSE {})
  PROVE  ReceiptsInv'
PROOF
  <1>1. id \in Nat /\ id' = id + 1 BY Zenon DEF ReceiptsInv
  <1>2. height \in Nat /\ store.nonce \in [Accounts -> Nat] /\ s.nonce \in [Accounts -> Nat]
    BY Zenon DEF Types, Store
  <1>3. ASSUME NEW q \in receipts
        PROVE  /\ q.id \in 0..(id - 1) /\ q.from \in Accounts /\ q.nonce \in Nat
               /\ q.nonce < store.nonce[q.from] /\ q.height \in 0..height
    BY Zenon DEF ReceiptsInv
  <1>4. \A i \in store.marks \cup store.hookMarks \cup store.bloom : i < id BY Zenon DEF ReceiptsInv
  <1>5. id \notin store.marks /\ id \notin store.hookMarks /\ id \notin store.bloom
    BY <1>1, <1>4
  <1>6. ASSUME NEW q \in receipts'
        PROVE  /\ q.id \in 0..(id' - 1) /\ q.from \in Accounts /\ q.nonce \in Nat
               /\ q.nonce < s.nonce[q.from] /\ q.height \in 0..height
    <2>1. CASE q \in receipts BY <2>1, <1>1, <1>2, <1>3
    <2>2. CASE q = r BY <2>2, <1>1, <1>2
    <2> QED BY <2>1, <2>2, Zenon
  <1>7. ASSUME NEW q \in receipts'
        PROVE  /\ (q.status = "ok") <=> (q.id \in s.marks)
               /\ q.hook <=> (q.id \in s.hookMarks)
               /\ (q.logs /\ q.height = height /\ stage' # "begin") <=> (q.id \in s.bloom)
    <2>1. CASE q \in receipts
      <3>1. q.id # id BY <2>1, <1>1, <1>3
      <3>2. /\ (q.status = "ok") <=> (q.id \in store.marks)
            /\ q.hook <=> (q.id \in store.hookMarks)
            /\ (q.logs /\ q.height = height /\ stage # "begin") <=> (q.id \in store.bloom)
        BY <2>1, Zenon DEF ReceiptsInv
      <3>3. /\ q.id \in s.marks <=> q.id \in store.marks
            /\ q.id \in s.hookMarks <=> q.id \in store.hookMarks
            /\ q.id \in s.bloom <=> q.id \in store.bloom BY <3>1, Zenon
      <3> QED BY <3>2, <3>3, Zenon
    <2>2. CASE q = r BY <2>2, <1>5, Zenon
    <2> QED BY <2>1, <2>2, Zenon
  <1>8. ASSUME NEW q \in receipts', NEW u \in receipts', q.from = u.from, q.nonce = u.nonce
        PROVE  q.id = u.id
    <2>1. CASE q \in receipts /\ u \in receipts BY <2>1, <1>8, Zenon DEF ReceiptsInv
    <2>2. CASE q = r \/ u = r BY <2>2, <1>8, Zenon
    <2> QED BY <2>1, <2>2, Zenon
  <1>9. \A i \in s.marks \cup s.hookMarks \cup s.bloom : i < id'
    BY <1>1, <1>4 DEF Types, Store
  <1> QED BY <1>1, <1>6, <1>7, <1>8, <1>9 DEF ReceiptsInv

LEMMA InitIInv == TxInit => IInv
PROOF
  <1> SUFFICES ASSUME TxInit PROVE IInv BY Zenon
  <1>1. PICK d \in SUBSET MayDelegate : store = GenesisStore(d) BY Zenon DEF TxInit
  <1>2. Balances \in [Accounts -> Int] BY TxConstants
  <1>3. [a \in Accounts |-> IF a \in d THEN "delegation" ELSE "none"] \in [Accounts -> Codes]
    BY Zenon DEF Codes
  <1>4. store \in Store /\ store.created = {} /\ store.marks = {} /\ store.hookMarks = {} /\ store.bloom = {}
    BY <1>1, <1>2, <1>3, Zenon DEF GenesisStore, Store
  <1>5. Types
    <2>1. CreatedBelow(store) BY <1>4, Zenon DEF CreatedBelow
    <2> QED BY <2>1, <1>4, TxConstants, Zenon DEF Types, TxInit
  <1>6. ReceiptsInv
    <2>1. receipts = {} /\ id = 0 BY Zenon DEF TxInit
    <2> QED BY <2>1, <1>4, Zenon DEF ReceiptsInv
  <1>7. FlightInv /\ ResultInv BY Zenon DEF FlightInv, ResultInv, InFlight, TxInit
  <1> QED BY <1>5, <1>6, <1>7, Zenon DEF IInv

LEMMA BeginBlockStep == ASSUME IInv, BeginBlock PROVE IInv'
PROOF
  <1>1. Types /\ ReceiptsInv BY Zenon DEF IInv
  <1>2. store' = store /\ receipts' = receipts /\ height' = height + 1 /\ stage' = "idle" /\ stage = "begin"
        /\ id' = id
    BY Zenon DEF BeginBlock
  <1>3. height \in Nat /\ params \in ParamsType /\ blockGasWanted \in Nat BY <1>1, Zenon DEF Types
  <1>4. CalculateBaseFee(params, height + 1, blockGasWanted) \in Nat BY <1>3, BaseFeeNat
  <1>5. params' \in ParamsType BY <1>3, <1>4, Zenon DEF BeginBlock, ParamsType
  <1>6. Types' BY <1>1, <1>2, <1>3, <1>5 DEF Types, BeginBlock, CreatedBelow
  <1>7. ReceiptsInv'
    <2>2. ASSUME NEW r \in receipts
          PROVE  r.height \in 0..(height + 1) /\ r.height # height + 1 /\ ~(r.id \in store.bloom)
      BY <1>1, <1>2, <1>3 DEF ReceiptsInv
    <2> QED BY <2>2, <1>1, <1>2, Zenon DEF ReceiptsInv
  <1>8. FlightInv' /\ ResultInv' BY <1>2, Landed, Zenon
  <1> QED BY <1>6, <1>7, <1>8, Zenon DEF IInv

LEMMA EndBlockStep ==
  ASSUME IInv, NEW p \in ParamSets \cup {params}, EndBlock(p) PROVE IInv'
PROOF
  <1> DEFINE c == store.collector + store.cur + store.prior
             s == [store EXCEPT !.collector = c, !.cur = 0, !.prior = 0]
             u == [s EXCEPT !.bloom = {}]
  <1>1. Types /\ ReceiptsInv BY Zenon DEF IInv
  <1>2. receipts' = receipts /\ height' = height /\ stage' = "begin" /\ id' = id BY Zenon DEF EndBlock
  <1>3. store \in Store /\ CreatedBelow(store) BY <1>1, Zenon DEF Types
  <1>4. c \in Nat BY <1>3 DEF Store
  <1>5. CreditVirtualAccounts(store) = s BY <1>3, Zenon DEF CreditVirtualAccounts, Store
  <1> HIDE DEF c
  <1>6. s \in Store BY <1>3, <1>4, Zenon DEF Store
  <1>7. store' = u BY <1>5, Zenon DEF EndBlock
  <1>8. s.nonce = store.nonce /\ s.created = store.created /\ s.marks = store.marks
        /\ s.hookMarks = store.hookMarks BY <1>3, Zenon DEF Store
  <1> HIDE DEF s
  <1>9. store' \in Store /\ store'.nonce = store.nonce /\ store'.created = store.created
        /\ store'.marks = store.marks /\ store'.hookMarks = store.hookMarks /\ store'.bloom = {}
    BY <1>6, <1>7, <1>8, Zenon DEF Store
  <1>10. blockGasWanted' \in Nat
    <2>1. blockWanted \in Nat /\ blockUsed \in Nat BY <1>1, Zenon DEF Types
    <2>2. DecUnit \in Nat \ {0} /\ MinGasMultiplier \in Nat BY FeeMarketConstants
    <2>3. blockWanted * MinGasMultiplier \in Nat /\ blockUsed * DecUnit \in Nat BY <2>1, <2>2, MulNat, Zenon
    <2>4. MaxOf(blockWanted * MinGasMultiplier, blockUsed * DecUnit) \in Nat BY <2>3, Zenon DEF MaxOf
    <2> QED BY <2>2, <2>4, DivNat, Zenon DEF EndBlock, EndBlockGasWanted
  <1>11. params' \in ParamsType BY <1>1, TxConstants, Zenon DEF EndBlock, Types
  <1>12. Types'
    <2>1. CreatedBelow(store)' BY <1>3, <1>9, Zenon DEF CreatedBelow
    <2> QED BY <2>1, <1>1, <1>2, <1>9, <1>10, <1>11, Zenon DEF Types, EndBlock
  <1>13. ReceiptsInv' BY <1>1, <1>2, <1>9, Zenon DEF ReceiptsInv
  <1>14. FlightInv' /\ ResultInv' BY <1>2, Landed, Zenon
  <1> QED BY <1>12, <1>13, <1>14, Zenon DEF IInv

LEMMA EthAnteStep ==
  ASSUME IInv, NEW t \in EthTxs, NEW n \in 0..MaxNonce, EthAnteHandle(t, n) PROVE IInv'
PROOF
  <1> DEFINE fee == VerifyFee(t)
  <1>1. Types /\ ReceiptsInv BY Zenon DEF IInv
  <1>2. store \in Store /\ CreatedBelow(store) /\ params \in ParamsType BY <1>1, Zenon DEF Types
  <1>3. t.from \in Accounts /\ t.to \in Accounts \cup {Create} /\ t.gas \in Nat /\ t.feeCap \in Nat
        /\ t.tipCap \in Nat /\ t.value \in Nat
    BY TxConstants, Zenon
  <1>4. t.auth \in Accounts \cup {None} /\ t.authNonce \in Nat /\ t.authCode \in {"delegation", "none"}
    BY TxConstants, Zenon
  <1>5. n \in Nat /\ store.nonce[t.from] = n BY TxConstants DEF EthAnteHandle, NonceAdmitted
  <1>6. fee \in Nat
    <2>1. EffectiveGasPrice(t, GetBaseFee(params)) \in Nat BY <1>2, <1>3, PriceBounds, Zenon
    <2> QED BY <2>1, <1>3, MulNat, Zenon DEF VerifyFee
  <1>7. /\ stage = "idle" /\ stage' = "ante"
        /\ params' = params /\ height' = height /\ mode' = mode /\ receipts' = receipts /\ id' = id
        /\ blockGasWanted' = blockGasWanted /\ blockUsed' = blockUsed
        /\ blockWanted' = blockWanted + t.gas
    BY Zenon DEF EthAnteHandle
  <1>8. store' = IncrementNonce(CoinsToCollector(NextTxIndex(store), t.from, fee), t.from)
    BY Zenon DEF EthAnteHandle
  <1>9. tx' \in Tx /\ tx'.from = t.from /\ tx'.gas = t.gas /\ tx'.feeCap = t.feeCap
        /\ tx'.tipCap = t.tipCap /\ tx'.value = t.value /\ tx'.nonce = n
    BY <1>3, <1>4, <1>5, Zenon DEF EthAnteHandle, Tx
  <1>10. t.gas * t.feeCap + t.value <= store.bal[t.from] /\ IntrinsicGas <= t.gas
    <2>1. store.bal[t.from] >= t.gas * t.feeCap + t.value /\ t.gas >= IntrinsicGas
      BY Zenon DEF EthAnteHandle, VerifyAccountBalance, ValidateTransaction
    <2>2. t.gas * t.feeCap \in Nat BY <1>3, MulNat, Zenon
    <2>3. store.bal[t.from] \in Int /\ IntrinsicGas \in Nat BY <1>2, <1>3, TxConstants, Zenon DEF Store
    <2> QED BY <2>1, <2>2, <2>3, <1>3, Zenon
  <1>11. (VerifyFee(tx))' = fee
    BY <1>7, <1>9, Zenon DEF VerifyFee, EffectiveGasPrice
  <1> HIDE DEF fee
  <1>12. AnteLeaves(store, t.from, fee, store') BY <1>2, <1>3, <1>6, <1>8, AnteEffect, Zenon
  <1>18. /\ store' \in Store /\ CreatedBelow(store')
         /\ store'.nonce = [store.nonce EXCEPT ![t.from] = @ + 1]
         /\ store'.bal = [store.bal EXCEPT ![t.from] = @ - fee]
         /\ store'.marks = store.marks
         /\ store'.hookMarks = store.hookMarks /\ store'.bloom = store.bloom
         /\ mode.virtual => store'.cur = fee
         /\ ~mode.virtual => store'.collector = store.collector + fee
    BY <1>12, Zenon DEF AnteLeaves
  <1>13. Types'
    <2>1. blockWanted' \in Nat /\ blockUsed' \in Nat BY <1>1, <1>3, <1>7 DEF Types
    <2> QED BY <2>1, <1>1, <1>7, <1>18, TypesKept, Zenon
  <1>14. store.nonce \in [Accounts -> Nat] /\ store.bal \in [Accounts -> Int] /\ store.collector \in Nat
    BY <1>2, Zenon DEF Store
  <1>15. ReceiptsInv'
    <2>2. ASSUME NEW r \in receipts
          PROVE  r.from \in Accounts /\ r.nonce \in Nat /\ r.nonce < store'.nonce[r.from]
      <3>1. r.from \in Accounts /\ r.nonce \in Nat /\ r.nonce < store.nonce[r.from]
        BY <1>1, Zenon DEF ReceiptsInv
      <3> QED BY <3>1, <1>3, <1>18, <1>14
    <2> QED BY <2>2, <1>1, <1>7, <1>18, Zenon DEF ReceiptsInv
  <1>16. FlightInv'
    <2>1. store'.nonce[tx'.from] = tx'.nonce + 1 BY <1>3, <1>5, <1>9, <1>18, <1>14
    <2>2. \A r \in receipts' : r.from = tx'.from => r.nonce < tx'.nonce
      BY <1>1, <1>5, <1>7, <1>9, Zenon DEF ReceiptsInv
    <2>3. (CollectorHas(store, VerifyFee(tx)))'
      BY <1>6, <1>7, <1>11, <1>18, <1>14 DEF CollectorHas
    <2>4. tx'.gas * tx'.feeCap + tx'.value <= store'.bal[tx'.from] + fee
      <3>1. store'.bal[t.from] + fee = store.bal[t.from] BY <1>3, <1>6, <1>18, <1>14
      <3> QED BY <3>1, <1>9, <1>10, Zenon
    <2> QED BY <2>1, <2>2, <2>3, <2>4, <1>9, <1>10, <1>11, Zenon DEF FlightInv
  <1>17. ResultInv' BY <1>7, Zenon DEF ResultInv
  <1> QED BY <1>13, <1>15, <1>16, <1>17, Zenon DEF IInv

LEMMA ApplyMessageStep ==
  ASSUME IInv, NEW o \in Outcomes, ApplyMessage(o) PROVE IInv'
PROOF
  <1> DEFINE r == CachedContext(store, tx, o)
  <1>1. Types /\ ReceiptsInv /\ FlightInv /\ InFlight BY Zenon DEF IInv, ApplyMessage, InFlight
  <1>2. StillInFlight BY Zenon DEF ApplyMessage, StillInFlight
  <1>3. id \in Nat /\ id' = id BY <1>1, <1>2, Zenon DEF StillInFlight, ReceiptsInv
  <1>4. tx \in Tx /\ IntrinsicGas <= tx.gas /\ store.nonce[tx.from] = tx.nonce + 1
    BY <1>1, Zenon DEF FlightInv
  <1>5. /\ o \in OutcomeType /\ o.used <= tx.gas /\ (o.vmErr => ~o.logs)
        /\ (store.bal[tx.from] < tx.value => o.vmErr)
    <2>1. tx.gas \in Nat /\ IntrinsicGas \in Nat BY <1>4, TxConstants, Zenon DEF Tx
    <2> QED BY <2>1, <1>4 DEF Outcomes, OutcomeType
  <1>6. store \in Store /\ CreatedBelow(store) BY <1>1, Zenon DEF Types
  <1>7. /\ r \in Store /\ CreatedBelow(r)
        /\ r.collector = store.collector /\ r.cur = store.cur /\ r.prior = store.prior
        /\ r.hookMarks = store.hookMarks /\ r.bloom = store.bloom
        /\ \A a \in Accounts : store.nonce[a] <= r.nonce[a]
        /\ o.vmErr => r = store
        /\ ~o.vmErr => /\ r.marks = store.marks \cup {id}
                       /\ r.bal = PaidBal(store.bal, tx.from, Recipient(tx), tx.value)
    BY <1>3, <1>4, <1>5, <1>6, CachedEffect, Zenon
  <1>8. tmp' = IF o.logs THEN [r EXCEPT !.bloom = @ \cup {id}] ELSE r BY Zenon DEF ApplyMessage
  <1>9. res' = [failed |-> o.vmErr, gasUsed |-> GasUsed(tx, o), logs |-> o.logs, hook |-> FALSE]
    BY Zenon DEF ApplyMessage
  <1>10. GasUsed(tx, o) \in Nat /\ GasUsed(tx, o) <= tx.gas BY <1>4, <1>5, GasUsedBound, Zenon
  <1>11. res' \in Res /\ res'.gasUsed <= tx.gas /\ ~res'.hook /\ (res'.failed => ~res'.logs)
         /\ res'.failed = o.vmErr /\ res'.logs = o.logs
    BY <1>5, <1>9, <1>10, Zenon DEF Res, OutcomeType
  <1> HIDE DEF r
  <1>12. /\ tmp' \in Store /\ tmp'.bloom = r.bloom \cup (IF o.logs THEN {id} ELSE {})
         /\ tmp'.collector = r.collector /\ tmp'.cur = r.cur /\ tmp'.prior = r.prior
         /\ tmp'.hookMarks = r.hookMarks /\ tmp'.marks = r.marks
         /\ tmp'.nonce = r.nonce /\ tmp'.bal = r.bal /\ tmp'.code = r.code /\ tmp'.created = r.created
    <2>1. CASE o.logs
      <3>1. r.bloom \cup {id} \in SUBSET Nat BY <1>3, <1>7, Zenon DEF Store
      <3>2. tmp' = [r EXCEPT !.bloom = r.bloom \cup {id}] BY <2>1, <1>8, Zenon
      <3> QED BY <2>1, <3>1, <3>2, <1>7, Zenon DEF Store
    <2>2. CASE ~o.logs
      <3>1. tmp' = r /\ r.bloom = r.bloom \cup {} BY <2>2, <1>8, Zenon
      <3> QED BY <2>2, <3>1, <1>7, Zenon
    <2> QED BY <2>1, <2>2, Zenon
  <1>13. CreatedBelow(tmp') BY <1>7, <1>12, Zenon DEF CreatedBelow
  <1>14. (After(tmp))'
    BY <1>2, <1>3, <1>7, <1>11, <1>12, <1>13, Zenon DEF After, CreatedBelow, StillInFlight, PaidBal, Recipient
  <1>15. stage' = "applied" /\ tx' = tx BY Zenon DEF ApplyMessage
  <1>16. ResultInv' BY <1>11, <1>14, <1>15, Zenon DEF ResultInv
  <1> QED BY <1>1, <1>2, <1>16, FlightGoesOn, Zenon DEF IInv

LEMMA NoHooksStep == ASSUME IInv, NoHooks PROVE IInv'
PROOF
  <1>1. Types /\ ResultInv /\ stage = "applied" BY Zenon DEF IInv, NoHooks
  <1>2. StillInFlight BY Zenon DEF NoHooks, StillInFlight
  <1>3. store \in Store /\ CreatedBelow(store) BY <1>1, Zenon DEF Types
  <1>4. res \in Res /\ res.gasUsed <= tx.gas /\ ~res.hook /\ (res.failed => ~res.logs) /\ After(tmp)
    BY <1>1, Zenon DEF ResultInv
  <1>5. res' = res /\ stage' = "hooked" /\ tx' = tx /\ receipts' = receipts /\ store' = store
        /\ id' = id /\ ctx' = IF res.failed THEN store ELSE tmp
    BY Zenon DEF NoHooks
  <1>6. (After(ctx))'
    <2>1. CASE res.failed BY <2>1, <1>3, <1>4, <1>5, DroppedAfter, Zenon
    <2>2. CASE ~res.failed
      <3>1. ctx' = tmp BY <2>2, <1>5, Zenon
      <3> QED BY <3>1, <1>4, <1>5, Zenon DEF After, CreatedBelow
    <2> QED BY <2>1, <2>2, Zenon
  <1>7. ResultInv' BY <1>4, <1>5, <1>6, Zenon DEF ResultInv
  <1> QED BY <1>2, <1>7, FlightGoesOn, Zenon DEF IInv

LEMMA HooksFailStep == ASSUME IInv, HooksFail PROVE IInv'
PROOF
  <1>1. Types /\ ResultInv /\ stage = "applied" BY Zenon DEF IInv, HooksFail
  <1>2. StillInFlight BY Zenon DEF HooksFail, StillInFlight
  <1>3. store \in Store /\ CreatedBelow(store) BY <1>1, Zenon DEF Types
  <1>4. res \in Res /\ res.gasUsed <= tx.gas /\ ~res.hook BY <1>1, Zenon DEF ResultInv
  <1>5. res' = [res EXCEPT !.failed = TRUE, !.logs = FALSE] /\ stage' = "hooked" /\ tx' = tx
        /\ receipts' = receipts /\ store' = store /\ ctx' = store
    BY Zenon DEF HooksFail, HookErrorResponse
  <1>6. res' \in Res /\ res'.gasUsed <= tx.gas /\ res'.failed /\ ~res'.logs /\ ~res'.hook
    BY <1>4, <1>5, Zenon DEF Res
  <1>7. (After(ctx))' BY <1>3, <1>5, <1>6, DroppedAfter, Zenon
  <1>8. ResultInv' BY <1>5, <1>6, <1>7, Zenon DEF ResultInv
  <1> QED BY <1>2, <1>8, FlightGoesOn, Zenon DEF IInv

LEMMA HooksSucceedStep == ASSUME IInv, HooksSucceed PROVE IInv'
PROOF
  <1>1. Types /\ ReceiptsInv /\ ResultInv /\ stage = "applied" BY Zenon DEF IInv, HooksSucceed
  <1>2. StillInFlight BY Zenon DEF HooksSucceed, StillInFlight
  <1>3. id \in Nat /\ id' = id BY <1>1, <1>2, Zenon DEF StillInFlight, ReceiptsInv
  <1>4. res \in Res /\ res.gasUsed <= tx.gas /\ ~res.hook /\ (res.failed => ~res.logs) /\ After(tmp)
    BY <1>1, Zenon DEF ResultInv
  <1>5. /\ res' = [res EXCEPT !.logs = @ /\ ~res.failed, !.hook = TRUE] /\ stage' = "hooked" /\ tx' = tx
        /\ store' = store /\ ctx' = [tmp EXCEPT !.hookMarks = @ \cup {id}]
    BY Zenon DEF HooksSucceed
  <1>6. res' \in Res /\ res'.gasUsed <= tx.gas /\ res'.failed = res.failed /\ res'.logs = res.logs /\ res'.hook
    <2>1. res' = [res EXCEPT !.logs = res.logs /\ ~res.failed, !.hook = TRUE] BY <1>5, Zenon
    <2>2. (res.logs /\ ~res.failed) = res.logs BY <1>4, Zenon DEF Res
    <2>3. res' = [res EXCEPT !.logs = res.logs, !.hook = TRUE] BY <2>1, <2>2, Zenon
    <2> QED BY <2>3, <1>4, Zenon DEF Res
  <1>7. tmp \in Store /\ tmp.hookMarks = store.hookMarks
    <2>1. tmp \in Store /\ tmp.hookMarks = store.hookMarks \cup {} BY <1>4, Zenon DEF After
    <2> QED BY <2>1, Zenon
  <1>8. tmp.hookMarks \cup {id} \in SUBSET Nat BY <1>3, <1>7, Zenon DEF Store
  <1>9. /\ ctx' \in Store /\ ctx'.hookMarks = store.hookMarks \cup {id}
        /\ ctx'.collector = tmp.collector /\ ctx'.cur = tmp.cur /\ ctx'.prior = tmp.prior
        /\ ctx'.marks = tmp.marks /\ ctx'.bloom = tmp.bloom
        /\ ctx'.nonce = tmp.nonce /\ ctx'.bal = tmp.bal /\ ctx'.code = tmp.code /\ ctx'.created = tmp.created
    BY <1>5, <1>7, <1>8, Zenon DEF Store
  <1>10. (After(ctx))' BY <1>3, <1>4, <1>5, <1>6, <1>9, Zenon DEF After, CreatedBelow
  <1>11. ResultInv' BY <1>5, <1>6, <1>10, Zenon DEF ResultInv
  <1> QED BY <1>2, <1>11, FlightGoesOn, Zenon DEF IInv

LEMMA RefundGasStep == ASSUME IInv, RefundGas PROVE IInv'
PROOF
  <1> DEFINE x == Refund(tx, res.gasUsed)
             r == Receipt(IF res.failed THEN "failed" ELSE "ok", res.gasUsed, res.logs, res.hook)
  <1>1. Types /\ ReceiptsInv /\ FlightInv /\ ResultInv /\ stage = "hooked" /\ InFlight
    BY Zenon DEF IInv, RefundGas, InFlight
  <1>2. tx \in Tx /\ store.nonce[tx.from] = tx.nonce + 1
        /\ \A q \in receipts : q.from = tx.from => q.nonce < tx.nonce
    BY <1>1, Zenon DEF FlightInv
  <1>3. res \in Res /\ After(ctx) BY <1>1, Zenon DEF ResultInv
  <1>4. x \in Nat BY <1>1, <1>2, <1>3, RefundBound, Zenon DEF Types, Res
  <1>5. tx.from \in Accounts /\ tx.nonce \in Nat BY <1>2, Zenon DEF Tx
  <1>6. ctx \in Store /\ CreatedBelow(ctx) BY <1>3, Zenon DEF After
  <1>7. store' = CoinsFromCollector(ctx, tx.from, x) /\ CollectorHas(ctx, x)
        /\ receipts' = receipts \cup {r} /\ blockUsed' = blockUsed + res.gasUsed
    BY Zenon DEF RefundGas
  <1>8. stage' = "idle" /\ params' = params /\ height' = height /\ blockGasWanted' = blockGasWanted
        /\ blockWanted' = blockWanted /\ mode' = mode /\ id' = id + 1
    BY Zenon DEF RefundGas, EndTx
  <1>9. /\ r.id = id /\ r.from = tx.from /\ r.nonce = tx.nonce /\ r.height = height
        /\ (r.status = "ok" <=> ~res.failed) /\ r.hook = res.hook /\ r.logs = res.logs
    BY Zenon DEF Receipt
  <1> HIDE DEF x, r
  <1>10. /\ store' \in Store /\ CreatedBelow(store') /\ store'.nonce = ctx.nonce
         /\ store'.marks = ctx.marks /\ store'.hookMarks = ctx.hookMarks /\ store'.bloom = ctx.bloom
    BY <1>4, <1>5, <1>6, <1>7, RefundEffect, Zenon
  <1>11. \A a \in Accounts : store.nonce[a] <= ctx.nonce[a] BY <1>3, Zenon DEF After
  <1>12. ctx.nonce \in [Accounts -> Nat] BY <1>6, Zenon DEF Store
  <1>13. tx.nonce < ctx.nonce[tx.from] BY <1>2, <1>5, <1>11, <1>12
  <1>14. /\ ctx.marks = store.marks \cup (IF r.status = "ok" THEN {id} ELSE {})
         /\ ctx.hookMarks = store.hookMarks \cup (IF r.hook THEN {id} ELSE {})
         /\ ctx.bloom = store.bloom \cup (IF r.logs THEN {id} ELSE {})
    BY <1>3, <1>9, Zenon DEF After
  <1>15. \A q \in receipts : q.from = r.from => q.nonce # r.nonce
    BY <1>1, <1>2, <1>5, <1>9 DEF ReceiptsInv
  <1>16. ReceiptsInv'
    BY <1>1, <1>5, <1>7, <1>8, <1>9, <1>10, <1>11, <1>13, <1>14, <1>15, ReceiptAdded, Zenon
  <1>17. Types'
    <2>1. blockWanted' \in Nat BY <1>1, <1>8, Zenon DEF Types
    <2>2. blockUsed' \in Nat BY <1>1, <1>3, <1>7 DEF Types, Res
    <2> QED BY <2>1, <2>2, <1>1, <1>8, <1>10, TypesKept, Zenon
  <1> QED BY <1>8, <1>16, <1>17, Landed, Zenon DEF IInv

\* A message that ends in an error leaves what the ante handler wrote.
LEMMA FailMessageStep ==
  ASSUME IInv, InFlight, NEW g \in Nat, FailMessage(g) PROVE IInv'
PROOF
  <1> DEFINE r == Receipt("err", tx.gas, FALSE, FALSE)
  <1>1. Types /\ ReceiptsInv /\ FlightInv BY Zenon DEF IInv
  <1>2. tx \in Tx /\ store.nonce[tx.from] = tx.nonce + 1
        /\ \A q \in receipts : q.from = tx.from => q.nonce < tx.nonce
    BY <1>1, Zenon DEF FlightInv
  <1>3. tx.from \in Accounts /\ tx.nonce \in Nat BY <1>2, Zenon DEF Tx
  <1>4. store' = store /\ receipts' = receipts \cup {r} /\ blockUsed' = blockUsed + g
    BY Zenon DEF FailMessage
  <1>5. stage' = "idle" /\ params' = params /\ height' = height /\ blockGasWanted' = blockGasWanted
        /\ blockWanted' = blockWanted /\ mode' = mode /\ id' = id + 1
    BY Zenon DEF FailMessage, EndTx
  <1>6. /\ r.id = id /\ r.from = tx.from /\ r.nonce = tx.nonce /\ r.height = height
        /\ r.status # "ok" /\ ~r.hook /\ ~r.logs
    BY Zenon DEF Receipt
  <1> HIDE DEF r
  <1>7. stage # "begin" BY Zenon DEF InFlight
  <1>8. store \in Store /\ \A a \in Accounts : store.nonce[a] <= store.nonce[a] BY <1>1 DEF Types, Store
  <1>9. tx.nonce < store.nonce[tx.from] BY <1>2, <1>3
  <1>10. /\ store.marks = store.marks \cup (IF r.status = "ok" THEN {id} ELSE {})
         /\ store.hookMarks = store.hookMarks \cup (IF r.hook THEN {id} ELSE {})
         /\ store.bloom = store.bloom \cup (IF r.logs THEN {id} ELSE {})
    BY <1>6, Zenon
  <1>11. \A q \in receipts : q.from = r.from => q.nonce # r.nonce
    BY <1>1, <1>2, <1>3, <1>6 DEF ReceiptsInv
  <1>12. ReceiptsInv'
    BY <1>1, <1>3, <1>4, <1>5, <1>6, <1>7, <1>8, <1>9, <1>10, <1>11, ReceiptAdded, Zenon
  <1>13. Types'
    <2>1. store' \in Store /\ CreatedBelow(store') /\ blockWanted' \in Nat /\ blockUsed' \in Nat
      BY <1>1, <1>4, <1>5 DEF Types
    <2> QED BY <2>1, <1>1, <1>5, TypesKept, Zenon
  <1> QED BY <1>5, <1>12, <1>13, Landed, Zenon DEF IInv

LEMMA CosmosTxStep ==
  ASSUME IInv, NEW t \in CosmosTxs, NEW n \in 0..MaxNonce, NEW ok \in BOOLEAN, CosmosTx(t, n, ok)
  PROVE  IInv'
PROOF
  <1> DEFINE fee == FeeChecker(params, height, t).fee
             r == CosmosReceipt(t, n, fee, ok)
  <1>1. Types /\ ReceiptsInv BY Zenon DEF IInv
  <1>2. t.from \in Accounts /\ t.gas \in Nat BY TxConstants, Zenon
  <1>16. id \in Nat BY <1>1, Zenon DEF ReceiptsInv
  <1>3. /\ store' \in Store /\ CreatedBelow(store')
        /\ store'.nonce = [store.nonce EXCEPT ![t.from] = @ + 1]
        /\ store'.marks = store.marks \cup (IF ok THEN {id} ELSE {})
        /\ store'.hookMarks = store.hookMarks /\ store'.bloom = store.bloom
    <2>1. CosmosLeaves(t, ok, fee, CosmosPaid(store, t.from, fee)) BY <1>1, <1>16, CosmosStore, Zenon
    <2> QED BY <2>1, Zenon DEF CosmosLeaves
  <1>4. n \in Nat /\ store.nonce[t.from] = n BY TxConstants DEF CosmosTx, NonceAdmitted
  <1>5. receipts' = receipts \cup {r} BY Zenon DEF CosmosTx
  <1>6. stage = "idle" /\ stage' = "idle" /\ params' = params /\ height' = height
        /\ blockGasWanted' = blockGasWanted /\ mode' = mode /\ id' = id + 1
        /\ blockWanted' = blockWanted + t.gas /\ blockUsed' = blockUsed + t.gas
    BY Zenon DEF CosmosTx
  <1>7. /\ r.id = id /\ r.from = t.from /\ r.nonce = n /\ r.height = height
        /\ (r.status = "ok" <=> ok) /\ ~r.hook /\ ~r.logs
    BY Zenon DEF CosmosReceipt
  <1> HIDE DEF r, fee
  <1>8. store.nonce \in [Accounts -> Nat] BY <1>1, Zenon DEF Types, Store
  <1>15. store'.nonce = [store.nonce EXCEPT ![t.from] = @ + 1] BY <1>3, Zenon
  <1>9. \A a \in Accounts : store.nonce[a] <= store'.nonce[a] BY <1>2, <1>8, <1>15
  <1>10. n < store'.nonce[t.from] BY <1>2, <1>4, <1>8, <1>15
  <1>11. /\ store'.marks = store.marks \cup (IF r.status = "ok" THEN {id} ELSE {})
         /\ store'.hookMarks = store.hookMarks \cup (IF r.hook THEN {id} ELSE {})
         /\ store'.bloom = store.bloom \cup (IF r.logs THEN {id} ELSE {})
    BY <1>3, <1>7, Zenon
  <1>12. \A q \in receipts : q.from = r.from => q.nonce # r.nonce
    BY <1>1, <1>4, <1>7 DEF ReceiptsInv
  <1>13. ReceiptsInv'
    BY <1>1, <1>2, <1>3, <1>4, <1>5, <1>6, <1>7, <1>9, <1>10, <1>11, <1>12, ReceiptAdded, Zenon
  <1>14. Types'
    <2>1. blockWanted' \in Nat /\ blockUsed' \in Nat BY <1>1, <1>2, <1>6 DEF Types
    <2> QED BY <2>1, <1>1, <1>3, <1>6, TypesKept, Zenon
  <1> QED BY <1>6, <1>13, <1>14, Landed, Zenon DEF IInv

LEMMA StutterStep == ASSUME IInv, UNCHANGED txVars PROVE IInv'
PROOF
  <1>1. Types' BY Zenon DEF IInv, Types, CreatedBelow, txVars
  <1>2. ReceiptsInv' BY Zenon DEF IInv, ReceiptsInv, txVars
  <1>3. FlightInv' BY Zenon DEF IInv, FlightInv, InFlight, CollectorHas, VerifyFee, txVars
  <1>4. ResultInv' BY Zenon DEF IInv, ResultInv, After, CreatedBelow, txVars
  <1> QED BY <1>1, <1>2, <1>3, <1>4, Zenon DEF IInv

LEMMA StepIInv == IInv /\ [TxNext]_txVars => IInv'
PROOF
  <1> SUFFICES ASSUME IInv, [TxNext]_txVars PROVE IInv' BY Zenon
  <1>1. CASE BeginBlock BY <1>1, BeginBlockStep, Zenon
  <1>2. CASE \E p \in ParamSets \cup {params} : EndBlock(p) BY <1>2, EndBlockStep, Zenon
  <1>3. CASE \E t \in EthTxs, n \in 0..MaxNonce : EthAnteHandle(t, n) BY <1>3, EthAnteStep, Zenon
  <1>4. CASE \E o \in Outcomes : ApplyMessage(o) BY <1>4, ApplyMessageStep, Zenon
  <1>5. CASE ApplyMessageError
    <2>1. InFlight /\ FailMessage(tx.gas) BY <1>5, Zenon DEF ApplyMessageError, InFlight
    <2>2. tx.gas \in Nat BY <2>1, Zenon DEF IInv, FlightInv, Tx
    <2> QED BY <2>1, <2>2, FailMessageStep, Zenon
  <1>6. CASE NoHooks BY <1>6, NoHooksStep, Zenon
  <1>7. CASE HooksSucceed BY <1>7, HooksSucceedStep, Zenon
  <1>8. CASE HooksFail BY <1>8, HooksFailStep, Zenon
  <1>9. CASE RefundGas BY <1>9, RefundGasStep, Zenon
  <1>10. CASE MessageDropped
    <2>1. InFlight /\ stage = "hooked" /\ FailMessage(res.gasUsed) BY <1>10, Zenon DEF MessageDropped, InFlight
    <2>2. res.gasUsed \in Nat BY <2>1, Zenon DEF IInv, ResultInv, Res
    <2> QED BY <2>1, <2>2, FailMessageStep, Zenon
  <1>11. CASE \E t \in CosmosTxs, n \in 0..MaxNonce, ok \in BOOLEAN : CosmosTx(t, n, ok)
    BY <1>11, CosmosTxStep, Zenon
  <1>12. CASE UNCHANGED txVars BY <1>12, StutterStep, Zenon
  <1> QED
    BY <1>1, <1>2, <1>3, <1>4, <1>5, <1>6, <1>7, <1>8, <1>9, <1>10, <1>11, <1>12, Zenon DEF TxNext

(***************************************************************************)
(* The theorems.                                                           *)
(***************************************************************************)
LEMMA AlwaysIInv == TxSpec => []IInv
  BY InitIInv, StepIInv, PTL DEF TxSpec

\* No nonce is spent twice, by a transaction or for a contract address,
\* whatever creations, delegations and failures do to the account.
THEOREM NoncesNeverReused == TxSpec => []NoncesSpentOnce
PROOF
  <1>1. IInv => NoncesSpentOnce
    BY Zenon DEF IInv, Types, ReceiptsInv, NoncesSpentOnce, CreatedBelow
  <1> QED BY <1>1, AlwaysIInv, PTL

\* Execution effects, hook effects and the bloom agree with the receipt.
THEOREM ReceiptsTruthful == TxSpec => []ReceiptMatchesState
PROOF
  <1>1. IInv => ReceiptMatchesState BY Zenon DEF IInv, ReceiptsInv, ReceiptMatchesState
  <1> QED BY <1>1, AlwaysIInv, PTL

\* RefundGas never meets an empty collector: its error path is dead.
THEOREM RefundAlwaysCovered == TxSpec => []RefundCovered
PROOF
  <1>1. ASSUME IInv, stage = "hooked" PROVE CollectorHas(ctx, Refund(tx, res.gasUsed))
    <2>1. tx \in Tx /\ CollectorHas(store, VerifyFee(tx))
      BY <1>1, Zenon DEF IInv, FlightInv, InFlight
    <2>2. res \in Res /\ After(ctx) BY <1>1, Zenon DEF IInv, ResultInv
    <2>3. ctx.collector = store.collector /\ ctx.cur = store.cur /\ store \in Store
      BY <1>1, <2>2, Zenon DEF After, IInv, Types
    <2>4. Refund(tx, res.gasUsed) \in Nat /\ VerifyFee(tx) \in Nat
          /\ Refund(tx, res.gasUsed) <= VerifyFee(tx)
      BY <1>1, <2>1, <2>2, RefundBound, Zenon DEF IInv, Types, Res
    <2>5. store.collector \in Nat /\ store.cur \in Nat BY <2>3, Zenon DEF Store
    <2> QED BY <2>1, <2>3, <2>4, <2>5 DEF CollectorHas
  <1>2. IInv => RefundCovered BY <1>1, Zenon DEF RefundCovered
  <1> QED BY <1>2, AlwaysIInv, PTL

\* A transaction that fails leaves code, contracts and nonces as its ante
\* handler left them, also when its hooks keep their own writes.
THEOREM FailuresLeaveFees == TxSpec => FailureLeavesOnlyFees
PROOF
  <1>1. ASSUME IInv, RefundGas PROVE FailureStep
    <2> DEFINE r == Receipt(IF res.failed THEN "failed" ELSE "ok", res.gasUsed, res.logs, res.hook)
               x == Refund(tx, res.gasUsed)
    <2>1. receipts' = receipts \cup {r} /\ stage = "hooked" /\ CollectorHas(ctx, x)
          /\ store' = CoinsFromCollector(ctx, tx.from, x)
      BY <1>1, Zenon DEF RefundGas
    <2>2. r.status # "ok" => res.failed BY Zenon DEF Receipt
    <2> HIDE DEF r
    <2>3. tx \in Tx /\ res \in Res /\ After(ctx)
      BY <1>1, <2>1, Zenon DEF IInv, FlightInv, InFlight, ResultInv
    <2>4. x \in Nat /\ tx.from \in Accounts BY <1>1, <2>3, RefundBound, Zenon DEF IInv, Types, Res, Tx
    <2>5. ctx \in Store /\ CreatedBelow(ctx) BY <2>3, Zenon DEF After
    <2> HIDE DEF x
    <2>6. store'.nonce = ctx.nonce /\ store'.code = ctx.code /\ store'.created = ctx.created
      BY <2>1, <2>4, <2>5, RefundEffect, Zenon
    <2>7. res.failed => /\ ctx.nonce = store.nonce /\ ctx.code = store.code
                        /\ ctx.created = store.created
      BY <2>3, Zenon DEF After
    <2> QED BY <2>1, <2>2, <2>6, <2>7, Zenon DEF FailureStep
  <1>2. ASSUME NEW g, FailMessage(g) PROVE FailureStep
    BY <1>2, Zenon DEF FailMessage, FailureStep
  <1>3. ASSUME NEW t \in CosmosTxs, NEW n \in 0..MaxNonce, NEW ok \in BOOLEAN, CosmosTx(t, n, ok)
        PROVE  FailureStep
    <2>1. receipts' = receipts \cup {CosmosReceipt(t, n, FeeChecker(params, height, t).fee, ok)}
      BY <1>3, Zenon DEF CosmosTx
    <2>2. CosmosReceipt(t, n, FeeChecker(params, height, t).fee, ok).kind = "cosmos"
      BY Zenon DEF CosmosReceipt
    <2> QED BY <2>1, <2>2, Zenon DEF FailureStep
  <1>4. ASSUME receipts' = receipts PROVE FailureStep BY <1>4, Zenon DEF FailureStep
  <1>5. IInv /\ [TxNext]_txVars => [FailureStep]_txVars
    <2> SUFFICES ASSUME IInv, TxNext PROVE FailureStep BY Zenon
    <2>1. CASE BeginBlock BY <2>1, <1>4, Zenon DEF BeginBlock
    <2>2. CASE \E p \in ParamSets \cup {params} : EndBlock(p) BY <2>2, <1>4, Zenon DEF EndBlock
    <2>3. CASE \E t \in EthTxs, n \in 0..MaxNonce : EthAnteHandle(t, n)
      BY <2>3, <1>4, Zenon DEF EthAnteHandle
    <2>4. CASE \E o \in Outcomes : ApplyMessage(o) BY <2>4, <1>4, Zenon DEF ApplyMessage
    <2>5. CASE ApplyMessageError BY <2>5, <1>2, Zenon DEF ApplyMessageError
    <2>6. CASE NoHooks BY <2>6, <1>4, Zenon DEF NoHooks
    <2>7. CASE HooksSucceed BY <2>7, <1>4, Zenon DEF HooksSucceed
    <2>8. CASE HooksFail BY <2>8, <1>4, Zenon DEF HooksFail
    <2>9. CASE RefundGas BY <2>9, <1>1, Zenon
    <2>10. CASE MessageDropped BY <2>10, <1>2, Zenon DEF MessageDropped
    <2>11. CASE \E t \in CosmosTxs, n \in 0..MaxNonce, ok \in BOOLEAN : CosmosTx(t, n, ok)
      BY <2>11, <1>3, Zenon
    <2> QED BY <2>1, <2>2, <2>3, <2>4, <2>5, <2>6, <2>7, <2>8, <2>9, <2>10, <2>11, Zenon DEF TxNext
  <1> QED BY <1>5, AlwaysIInv, PTL DEF TxSpec, FailureLeavesOnlyFees

(***************************************************************************)
(* The refinement.                                                         *)
(***************************************************************************)
LEMMA FailureDelivered ==
  ASSUME IInv, InFlight, NEW g, FailMessage(g) PROVE Ledger!LedgerNext
PROOF
  <1> DEFINE r == Receipt("err", tx.gas, FALSE, FALSE)
             price == EffectiveGasPrice(tx, GetBaseFee(params))
             fee == VerifyFee(tx)
             b == LedgerBal
  <1>1. receipts' = receipts \cup {r} /\ store' = store /\ stage' = "idle" BY Zenon DEF FailMessage, EndTx
  <1>2. /\ r.id = id /\ r.from = tx.from /\ r.to = Recipient(tx) /\ r.nonce = tx.nonce
        /\ r.kind = "eth" /\ r.status = "err" /\ r.gasUsed = tx.gas /\ r.price = price
    BY Zenon DEF Receipt, Recipient
  <1>3. r \notin receipts BY <1>2, NewReceipt, Zenon DEF IInv
  <1> HIDE DEF r, price
  <1>4. /\ fee = tx.gas * price /\ fee \in Nat /\ InFlightFee = fee
        /\ tx.from \in Accounts /\ Recipient(tx) \in Accounts /\ tx.value \in Nat /\ tx.nonce \in Nat
        /\ b = [store.bal EXCEPT ![tx.from] = @ + fee]
        /\ LedgerNonce = [store.nonce EXCEPT ![tx.from] = @ - 1]
        /\ LedgerNonce[tx.from] = tx.nonce
        /\ fee + tx.value <= b[tx.from]
        /\ store.bal \in [Accounts -> Int] /\ store.nonce \in [Accounts -> Nat]
        /\ Held(store) \in Nat
    BY FlightLedger, Zenon DEF price
  <1>5. ~InFlight' BY <1>1, Zenon DEF InFlight
  <1>6. LedgerBal' = store.bal /\ LedgerNonce' = store.nonce BY <1>1, <1>5, Zenon DEF LedgerBal, LedgerNonce
  <1>7. Ledger!FeeOf(r) = fee /\ Ledger!Moved(r) = 0
    BY <1>2, <1>4, Zenon DEF Ledger!FeeOf, Ledger!Moved
  <1> HIDE DEF fee, b
  <1>8. b \in [Accounts -> Int] BY <1>4
  <1>9. fee + 0 <= b[tx.from] BY <1>4, <1>8
  <1>10. store.bal = PaidBal([b EXCEPT ![tx.from] = @ - fee], tx.from, Recipient(tx), 0)
    BY <1>4, <1>8 DEF PaidBal
  <1>11. (Held(store) - InFlightFee)' = Held(store) - InFlightFee + fee
    <2>1. InFlightFee' = 0 BY <1>5, Zenon DEF InFlightFee
    <2>2. (Held(store))' = Held(store) BY <1>1, Zenon DEF Held
    <2> QED BY <2>1, <2>2, <1>4
  <1>12. store.nonce[tx.from] > LedgerNonce[tx.from]
         /\ \A a \in Accounts : store.nonce[a] >= LedgerNonce[a]
    BY <1>4
  <1>13. /\ r.from \in Accounts /\ r.to \in Accounts /\ fee + 0 <= b[r.from]
         /\ LedgerBal' = PaidBal([b EXCEPT ![r.from] = @ - fee], r.from, r.to, 0)
         /\ LedgerNonce[r.from] = r.nonce /\ LedgerNonce'[r.from] > LedgerNonce[r.from]
         /\ \A a \in Accounts : LedgerNonce'[a] >= LedgerNonce[a]
    BY <1>2, <1>4, <1>6, <1>9, <1>10, <1>12, Zenon
  <1>14. LedgerBal = b /\ fee \in Nat /\ 0 \in Nat /\ receipts' = receipts \cup {r} BY <1>1, <1>4, Zenon DEF b
  <1> QED BY <1>3, <1>7, <1>8, <1>11, <1>13, <1>14, Delivered, Zenon

LEMMA RefundDelivered == ASSUME IInv, RefundGas PROVE Ledger!LedgerNext
PROOF
  <1> DEFINE r == Receipt(IF res.failed THEN "failed" ELSE "ok", res.gasUsed, res.logs, res.hook)
             price == EffectiveGasPrice(tx, GetBaseFee(params))
             fee == VerifyFee(tx)
             x == Refund(tx, res.gasUsed)
             y == res.gasUsed * price
             v == IF res.failed THEN 0 ELSE tx.value
             b == LedgerBal
  <1>1. /\ receipts' = receipts \cup {r} /\ store' = CoinsFromCollector(ctx, tx.from, x)
        /\ stage = "hooked" /\ stage' = "idle" /\ CollectorHas(ctx, x)
    BY Zenon DEF RefundGas, EndTx
  <1>2. InFlight /\ ~InFlight' BY <1>1, Zenon DEF InFlight
  <1>3. /\ r.id = id /\ r.from = tx.from /\ r.to = Recipient(tx) /\ r.nonce = tx.nonce
        /\ r.kind = "eth" /\ (r.status = "ok" <=> ~res.failed) /\ r.gasUsed = res.gasUsed
        /\ r.price = price /\ r.value = tx.value
    BY Zenon DEF Receipt, Recipient
  <1>4. r \notin receipts BY <1>3, NewReceipt, Zenon DEF IInv
  <1>5. tx \in Tx /\ res \in Res /\ res.gasUsed <= tx.gas /\ After(ctx)
    BY <1>1, <1>2, Zenon DEF IInv, ResultInv, FlightInv
  <1>6. /\ price \in Nat /\ fee = tx.gas * price /\ fee \in Nat /\ InFlightFee = fee
        /\ tx.from \in Accounts /\ Recipient(tx) \in Accounts
        /\ tx.gas \in Nat /\ tx.value \in Nat /\ tx.nonce \in Nat
        /\ b = [store.bal EXCEPT ![tx.from] = @ + fee]
        /\ LedgerNonce = [store.nonce EXCEPT ![tx.from] = @ - 1]
        /\ LedgerNonce[tx.from] = tx.nonce
        /\ fee + tx.value <= b[tx.from]
        /\ store.bal \in [Accounts -> Int] /\ store.nonce \in [Accounts -> Nat]
        /\ Held(store) \in Nat
    BY <1>2, FlightLedger, Zenon
  <1>7. x \in Nat /\ x <= fee BY <1>5, RefundBound, Zenon DEF IInv, Types, Res
  <1>8. res.gasUsed \in Nat BY <1>5, Zenon DEF Res
  <1>9. x = (tx.gas - res.gasUsed) * price
    <2>1. CASE tx.gas > res.gasUsed BY <2>1, Zenon DEF Refund
    <2>2. CASE tx.gas = res.gasUsed
      <3>1. x = 0 BY <2>2, <1>6 DEF Refund
      <3> HIDE DEF price, x
      <3>2. (tx.gas - res.gasUsed) * price = 0 BY <2>2, <1>6
      <3> QED BY <3>1, <3>2, Zenon
    <2> QED BY <2>1, <2>2, <1>5, <1>6, <1>8
  <1> HIDE DEF r, price, x
  <1>10. fee - x = y
    <2>1. tx.gas * price - (tx.gas - res.gasUsed) * price = res.gasUsed * price
      BY <1>5, <1>6, <1>8, FeeSplit
    <2> HIDE DEF fee
    <2> QED BY <2>1, <1>6, <1>9, Zenon
  <1>11. y \in Nat BY <1>6, <1>8, MulNat, Zenon
  <1>12. v \in Nat /\ v <= tx.value BY <1>6
  <1>13. Ledger!FeeOf(r) = y /\ Ledger!Moved(r) = v
    BY <1>3, Zenon DEF Ledger!FeeOf, Ledger!Moved
  <1> HIDE DEF fee, y
  <1>14. ctx \in Store /\ CreatedBelow(ctx) BY <1>5, Zenon DEF After
  <1>15. /\ store'.bal = [ctx.bal EXCEPT ![tx.from] = @ + x] /\ store'.nonce = ctx.nonce
         /\ store'.prior = ctx.prior /\ store'.collector + store'.cur = ctx.collector + ctx.cur - x
         /\ store' \in Store
    BY <1>1, <1>6, <1>7, <1>14, RefundEffect
  <1>16. LedgerBal' = PaidBal([b EXCEPT ![tx.from] = @ - y], tx.from, Recipient(tx), v)
    <2>1. LedgerBal' = store'.bal BY <1>2, Zenon DEF LedgerBal
    <2> HIDE DEF b
    <2>2. ctx.bal = PaidBal(store.bal, tx.from, Recipient(tx), v)
      <3>1. CASE res.failed BY <3>1, <1>5, <1>6, PaidNothing, Zenon DEF After
      <3>2. CASE ~res.failed BY <3>2, <1>5, Zenon DEF After
      <3> QED BY <3>1, <3>2, Zenon
    <2> HIDE DEF v
    <2>3. Credited(PaidBal(store.bal, tx.from, Recipient(tx), v), tx.from, x)
            = PaidBal(Debited(Credited(store.bal, tx.from, fee), tx.from, y), tx.from, Recipient(tx), v)
      <3>1. store.bal \in [Accounts -> Int] /\ tx.from \in Accounts /\ Recipient(tx) \in Accounts
            /\ fee \in Nat /\ x \in Nat /\ y \in Nat /\ v \in Nat
        BY <1>6, <1>7, <1>11, <1>12, Zenon
      <3> QED BY <3>1, <1>10, PaidTwice
    <2>4. store'.bal = Credited(ctx.bal, tx.from, x) /\ b = Credited(store.bal, tx.from, fee)
      BY <1>6, <1>15, Zenon DEF Credited
    <2>5. store'.bal = PaidBal(Debited(b, tx.from, y), tx.from, Recipient(tx), v) BY <2>2, <2>3, <2>4, Zenon
    <2> QED BY <2>1, <2>5, Zenon DEF Debited
  <1> HIDE DEF v
  <1>17. b \in [Accounts -> Int] BY <1>6
  <1>18. y + v <= b[tx.from]
    <2>1. b[tx.from] \in Int BY <1>6, <1>17, Zenon
    <2> HIDE DEF b
    <2> QED BY <2>1, <1>6, <1>7, <1>10, <1>11, <1>12
  <1>19. (Held(store) - InFlightFee)' = Held(store) - InFlightFee + y
    <2>1. InFlightFee' = 0 BY <1>2, Zenon DEF InFlightFee
    <2>2. ctx.collector = store.collector /\ ctx.cur = store.cur /\ ctx.prior = store.prior
      BY <1>5, Zenon DEF After
    <2>3. store \in Store BY Zenon DEF IInv, Types
    <2>4. Held(store') = Held(store) - x BY <2>2, <2>3, <1>7, <1>15 DEF Held, Store
    <2>5. (Held(store))' = Held(store') BY Zenon DEF Held
    <2> QED BY <2>1, <2>4, <2>5, <1>6, <1>7, <1>10, <1>11
  <1>20. /\ LedgerNonce'[tx.from] > LedgerNonce[tx.from]
         /\ \A a \in Accounts : LedgerNonce'[a] >= LedgerNonce[a]
    <2>1. LedgerNonce' = ctx.nonce BY <1>2, <1>15, Zenon DEF LedgerNonce
    <2>2. ctx.nonce \in [Accounts -> Nat] /\ \A a \in Accounts : store.nonce[a] <= ctx.nonce[a]
      BY <1>5, Zenon DEF After, Store
    <2> QED BY <2>1, <2>2, <1>6
  <1>21. /\ r.from \in Accounts /\ r.to \in Accounts /\ y + v <= b[r.from]
         /\ LedgerBal' = PaidBal([b EXCEPT ![r.from] = @ - y], r.from, r.to, v)
         /\ LedgerNonce[r.from] = r.nonce /\ LedgerNonce'[r.from] > LedgerNonce[r.from]
    BY <1>3, <1>6, <1>16, <1>18, <1>20, Zenon
  <1>22. LedgerBal = b /\ receipts' = receipts \cup {r} BY <1>1, Zenon
  <1> HIDE DEF b
  <1> QED BY <1>4, <1>11, <1>12, <1>13, <1>17, <1>19, <1>20, <1>21, <1>22, Delivered, Zenon

LEMMA CosmosDelivered ==
  ASSUME IInv, NEW t \in CosmosTxs, NEW n \in 0..MaxNonce, NEW ok \in BOOLEAN, CosmosTx(t, n, ok)
  PROVE  Ledger!LedgerNext
PROOF
  <1> DEFINE fee == FeeChecker(params, height, t).fee
             r == CosmosReceipt(t, n, fee, ok)
             paid == CosmosPaid(store, t.from, fee)
             v == IF ok THEN t.value ELSE 0
             b == LedgerBal
  <1>1. receipts' = receipts \cup {r} /\ stage = "idle" /\ stage' = "idle" /\ store.nonce[t.from] = n
        /\ store.bal[t.from] >= fee /\ (ok => paid.bal[t.from] >= t.value)
    BY Zenon DEF CosmosTx, NonceAdmitted, CosmosPaid
  <1>2. ~InFlight /\ ~InFlight' BY <1>1, Zenon DEF InFlight
  <1>3. /\ r.id = id /\ r.from = t.from /\ r.to = t.to /\ r.nonce = n /\ r.kind = "cosmos"
        /\ (r.status = "ok" <=> ok) /\ r.fee = fee /\ r.value = t.value
    BY Zenon DEF CosmosReceipt
  <1>4. r \notin receipts BY <1>3, NewReceipt, Zenon DEF IInv
  <1>5. t.from \in Accounts /\ t.to \in Accounts /\ t.value \in Nat BY TxConstants, Zenon
  <1>6. /\ fee \in Nat
        /\ store'.nonce = [store.nonce EXCEPT ![t.from] = @ + 1]
        /\ store'.bal = IF ok THEN PaidBal(paid.bal, t.from, t.to, t.value) ELSE paid.bal
        /\ paid.bal = [store.bal EXCEPT ![t.from] = @ - fee]
        /\ Held(store') = Held(store) + fee
    <2>1. Types /\ id \in Nat BY Zenon DEF IInv, ReceiptsInv
    <2>2. CosmosLeaves(t, ok, fee, paid) BY <2>1, CosmosStore, Zenon
    <2> QED BY <2>2, Zenon DEF CosmosLeaves
  <1>7. v \in Nat BY <1>5, Zenon
  <1>8. Ledger!FeeOf(r) = fee /\ Ledger!Moved(r) = v BY <1>3, Zenon DEF Ledger!FeeOf, Ledger!Moved
  <1> HIDE DEF r, fee, paid
  <1>9. b = store.bal /\ LedgerBal' = store'.bal /\ LedgerNonce = store.nonce
        /\ LedgerNonce' = store'.nonce
    BY <1>2, Zenon DEF LedgerBal, LedgerNonce
  <1>10. store.bal \in [Accounts -> Int] /\ store.nonce \in [Accounts -> Nat] /\ Held(store) \in Nat
    BY DEF IInv, Types, Store, Held
  <1>11. b \in [Accounts -> Int] BY <1>9, <1>10, Zenon
  <1>12. LedgerBal' = PaidBal([b EXCEPT ![t.from] = @ - fee], t.from, t.to, v)
    <2>1. CASE ok BY <2>1, <1>6, <1>9, Zenon
    <2>2. CASE ~ok
      <3>1. paid.bal = [store.bal EXCEPT ![t.from] = @ - fee] BY <1>6, Zenon
      <3>2. fee \in Int /\ store.bal \in [Accounts -> Int] BY <1>6, <1>10
      <3>3. store.bal[t.from] - fee \in Int BY <3>2, <1>5
      <3>4. paid.bal \in [Accounts -> Int] BY <3>1, <3>2, <3>3, Zenon
      <3>5. PaidBal(paid.bal, t.from, t.to, 0) = paid.bal BY <3>4, <1>5 DEF PaidBal
      <3> QED BY <2>2, <3>5, <1>6, <1>9, Zenon
    <2> QED BY <2>1, <2>2, Zenon
  <1>13. fee + v <= b[t.from]
    <2>1. store.bal[t.from] \in Int BY <1>5, <1>10, Zenon
    <2>2. paid.bal[t.from] = store.bal[t.from] - fee BY <1>5, <1>6, <1>10, Zenon
    <2> HIDE DEF b
    <2> QED BY <2>1, <2>2, <1>1, <1>5, <1>6, <1>9
  <1>14. (Held(store) - InFlightFee)' = Held(store) - InFlightFee + fee
    <2>1. InFlightFee = 0 /\ InFlightFee' = 0 BY <1>2, Zenon DEF InFlightFee
    <2>2. (Held(store))' = Held(store') BY Zenon DEF Held
    <2> QED BY <2>1, <2>2, <1>6, <1>10
  <1>15. /\ LedgerNonce[t.from] = n /\ LedgerNonce'[t.from] > LedgerNonce[t.from]
         /\ \A a \in Accounts : LedgerNonce'[a] >= LedgerNonce[a]
    BY <1>1, <1>5, <1>6, <1>9, <1>10
  <1>16. /\ r.from \in Accounts /\ r.to \in Accounts /\ fee + v <= b[r.from]
         /\ LedgerBal' = PaidBal([b EXCEPT ![r.from] = @ - fee], r.from, r.to, v)
         /\ LedgerNonce[r.from] = r.nonce /\ LedgerNonce'[r.from] > LedgerNonce[r.from]
    BY <1>3, <1>5, <1>12, <1>13, <1>15, Zenon
  <1>17. LedgerBal = b /\ receipts' = receipts \cup {r} BY <1>1, Zenon
  <1> HIDE DEF b, v
  <1> QED BY <1>4, <1>6, <1>7, <1>8, <1>11, <1>14, <1>15, <1>16, <1>17, Delivered, Zenon

LEMMA LedgerStep == IInv /\ [TxNext]_txVars => [Ledger!LedgerNext]_(Ledger!ledgerVars)
PROOF
  <1> SUFFICES ASSUME IInv, [TxNext]_txVars, ~(UNCHANGED Ledger!ledgerVars) PROVE Ledger!LedgerNext
    BY Zenon
  <1>1. ~Unseen BY UnseenStutters, Zenon
  <1>14. store \in Store /\ CreatedBelow(store) /\ params \in ParamsType BY Zenon DEF IInv, Types
  <1>2. CASE BeginBlock BY <1>1, <1>2, BeginBlockUnseen, Zenon
  <1>3. CASE \E p \in ParamSets \cup {params} : EndBlock(p) BY <1>1, <1>3, <1>14, EndBlockUnseen, Zenon
  <1>4. CASE \E t \in EthTxs, n \in 0..MaxNonce : EthAnteHandle(t, n)
    BY <1>1, <1>4, <1>14, AnteUnseen, Zenon
  <1>5. CASE \E o \in Outcomes : ApplyMessage(o)
    BY <1>1, <1>5, FlightUnseen, Zenon DEF ApplyMessage, StillInFlight
  <1>6. CASE ApplyMessageError BY <1>6, FailureDelivered, Zenon DEF ApplyMessageError, InFlight
  <1>7. CASE NoHooks BY <1>1, <1>7, FlightUnseen, Zenon DEF NoHooks, StillInFlight
  <1>8. CASE HooksSucceed BY <1>1, <1>8, FlightUnseen, Zenon DEF HooksSucceed, StillInFlight
  <1>9. CASE HooksFail BY <1>1, <1>9, FlightUnseen, Zenon DEF HooksFail, StillInFlight
  <1>10. CASE RefundGas BY <1>10, RefundDelivered, Zenon
  <1>11. CASE MessageDropped BY <1>11, FailureDelivered, Zenon DEF MessageDropped, InFlight
  <1>12. CASE \E t \in CosmosTxs, n \in 0..MaxNonce, ok \in BOOLEAN : CosmosTx(t, n, ok)
    BY <1>12, CosmosDelivered, Zenon
  <1>13. CASE UNCHANGED txVars
    BY <1>1, <1>13, Zenon DEF txVars, Unseen, LedgerBal, LedgerNonce, InFlight, InFlightFee, VerifyFee, Held
  <1> QED
    BY <1>2, <1>3, <1>4, <1>5, <1>6, <1>7, <1>8, <1>9, <1>10, <1>11, <1>12, <1>13, Zenon DEF TxNext

\* Every transaction that is charged is one step of the ledger: its sender
\* pays the gas of the receipt at the effective price, and the value exactly
\* when the receipt reports success.
THEOREM LedgerImplemented == TxSpec => ImplementsLedger
  BY LedgerStart, LedgerStep, AlwaysIInv, PTL DEF TxSpec, ImplementsLedger, Ledger!LedgerSpec
=============================================================================
