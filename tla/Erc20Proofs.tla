----------------------------- MODULE Erc20Proofs ----------------------------
(***************************************************************************)
(* For every set of users, contracts, vouchers and amounts: the coins of a *)
(* native ERC20 stay covered by the tokens in escrow, a deleted pair is    *)
(* never registered again, and coins come to rest with the module account  *)
(* only by the failed conversion of a refund.                              *)
(*                                                                         *)
(* First what each keeper operation does to the store: that it keeps what  *)
(* the invariant needs (Keeps) and what it leaves the module account       *)
(* (Passes).  The actions follow from the operations they call.  Balances  *)
(* are integers here: that they never go below zero depends on sums over   *)
(* all holders and is left to model checking.                              *)
(*                                                                         *)
(* A leaf that needs no arithmetic names Zenon.                            *)
(***************************************************************************)
EXTENDS Erc20, TLAPS

Store ==
  [pairs : [Tokens -> Pairs], meta : SUBSET Contracts, on : BOOLEAN,
   send : SUBSET Tokens, allowance : [Tokens -> [Grants -> Int]],
   coins : [Tokens -> [Holders -> Int]], supply : [Tokens -> Int],
   tokens : [Contracts -> [Holders -> Int]], code : SUBSET Tokens]

\* The two bounds of Backed for one contract, d tokens having been given.
Covered(s, t, d) ==
  /\ s.supply[t] - s.coins[t][Module] <= s.tokens[t][Module] - d
  /\ s.tokens[t][Module] - d <= s.supply[t]

\* What an operation on the store may do: it registers no contract, moves no
\* contract's code and keeps every contract covered.
Keeps(s, r) ==
  /\ r \in Store
  /\ r.meta = s.meta
  /\ \A t \in Contracts : (t \in r.code) <=> (t \in s.code)
  /\ \A t \in Contracts : r.pairs[t] = s.pairs[t] \/ r.pairs[t] = "none"
  /\ \A t \in Contracts, d \in Int : Covered(s, t, d) => Covered(r, t, d)

\* Fields of a store that an operation on balances leaves alone.
SameRest(s, r) ==
  /\ r.pairs = s.pairs /\ r.meta = s.meta /\ r.on = s.on /\ r.send = s.send
  /\ r.allowance = s.allowance /\ r.code = s.code

\* A store is kept by leaving it alone.
LEMMA KeepsSelf == \A s \in Store : Keeps(s, s)
  BY Zenon DEF Keeps

\* What is kept is a store.
LEMMA KeepsStore == \A s, r : Keeps(s, r) => r \in Store
  BY Zenon DEF Keeps

\* Keeping composes, as one keeper method calls another.
LEMMA KeepsTrans ==
  ASSUME NEW s, NEW r, NEW q, Keeps(s, r), Keeps(r, q)
  PROVE  Keeps(s, q)
  BY Zenon DEF Keeps

\* A transfer of coins changes the module's balance by what it sends and gets.
LEMMA SendCoinsEffect ==
  ASSUME NEW s \in Store, NEW t \in Tokens, NEW from \in Holders, NEW to \in Holders,
         NEW amt \in Int
  PROVE  LET r == SendCoins(s, t, from, to, amt)
         IN  /\ r \in Store /\ SameRest(s, r)
             /\ r.supply = s.supply /\ r.tokens = s.tokens
             /\ \A u \in Tokens : u # t => r.coins[u] = s.coins[u]
             /\ (from = Module <=> to = Module) => r.coins[t][Module] = s.coins[t][Module]
             /\ from = Module /\ to # Module => r.coins[t][Module] = s.coins[t][Module] - amt
             /\ from # Module /\ to = Module => r.coins[t][Module] = s.coins[t][Module] + amt
  <1> DEFINE f == Moved(s.coins[t], from, to, amt)
  <1>1. /\ f \in [Holders -> Int]
        /\ (from = Module <=> to = Module) => f[Module] = s.coins[t][Module]
        /\ from = Module /\ to # Module => f[Module] = s.coins[t][Module] - amt
        /\ from # Module /\ to = Module => f[Module] = s.coins[t][Module] + amt
    BY DEF Moved, Store, Holders
  <1>2. SendCoins(s, t, from, to, amt) = [s EXCEPT !.coins[t] = f]
    BY Zenon DEF SendCoins
  <1> DEFINE r == [s EXCEPT !.coins[t] = f]
  <1> HIDE DEF f
  <1>3. r \in Store
    BY <1>1, Zenon DEF Store
  <1>4. SameRest(s, r) /\ r.supply = s.supply /\ r.tokens = s.tokens
    BY <1>1, Zenon DEF Store, SameRest
  <1>5. r.coins[t] = f /\ \A u \in Tokens : u # t => r.coins[u] = s.coins[u]
    BY <1>1, Zenon DEF Store
  <1> HIDE DEF r
  <1> QED
    BY <1>1, <1>2, <1>3, <1>4, <1>5, Zenon DEF r

\* Minting raises the supply and the balance it mints to.
LEMMA MintCoinsEffect ==
  ASSUME NEW s \in Store, NEW t \in Tokens, NEW to \in Holders, NEW amt \in Int
  PROVE  LET r == MintCoins(s, t, to, amt)
         IN  /\ r \in Store /\ SameRest(s, r)
             /\ r.tokens = s.tokens
             /\ \A u \in Tokens : u # t => r.coins[u] = s.coins[u] /\ r.supply[u] = s.supply[u]
             /\ r.supply[t] = s.supply[t] + amt
             /\ r.coins[t][Module] = IF to = Module THEN s.coins[t][Module] + amt
                                     ELSE s.coins[t][Module]
  <1> DEFINE r == MintCoins(s, t, to, amt)
  <1> DEFINE c == [s.coins EXCEPT ![t] = [s.coins[t] EXCEPT ![to] = s.coins[t][to] + amt]]
  <1> DEFINE v == [s.supply EXCEPT ![t] = s.supply[t] + amt]
  <1>a. c \in [Tokens -> [Holders -> Int]] /\ v \in [Tokens -> Int]
    BY DEF Store
  <1>b. r = [s EXCEPT !.coins = c, !.supply = v]
    BY Zenon DEF MintCoins, Store
  <1> HIDE DEF c, v
  <1>1. r \in Store
    BY <1>a, <1>b, Zenon DEF Store
  <1>2. SameRest(s, r) /\ r.tokens = s.tokens
    BY Zenon DEF MintCoins, Store, SameRest
  <1>3. /\ \A u \in Tokens : u # t => r.coins[u] = s.coins[u] /\ r.supply[u] = s.supply[u]
        /\ r.supply[t] = s.supply[t] + amt
        /\ r.coins[t][Module] = IF to = Module THEN s.coins[t][Module] + amt
                                ELSE s.coins[t][Module]
    BY Zenon DEF MintCoins, Store, Holders
  <1> HIDE DEF r
  <1> QED
    BY <1>1, <1>2, <1>3, Zenon DEF r

\* Burning lowers the supply and the balance it burns from.
LEMMA BurnCoinsEffect ==
  ASSUME NEW s \in Store, NEW t \in Tokens, NEW from \in Holders, NEW amt \in Int
  PROVE  LET r == BurnCoins(s, t, from, amt)
         IN  /\ r \in Store /\ SameRest(s, r)
             /\ r.tokens = s.tokens
             /\ \A u \in Tokens : u # t => r.coins[u] = s.coins[u] /\ r.supply[u] = s.supply[u]
             /\ r.supply[t] = s.supply[t] - amt
             /\ r.coins[t][Module] = IF from = Module THEN s.coins[t][Module] - amt
                                     ELSE s.coins[t][Module]
  <1> DEFINE r == BurnCoins(s, t, from, amt)
  <1> DEFINE c == [s.coins EXCEPT ![t] = [s.coins[t] EXCEPT ![from] = s.coins[t][from] - amt]]
  <1> DEFINE v == [s.supply EXCEPT ![t] = s.supply[t] - amt]
  <1>a. c \in [Tokens -> [Holders -> Int]] /\ v \in [Tokens -> Int]
    BY DEF Store
  <1>b. r = [s EXCEPT !.coins = c, !.supply = v]
    BY Zenon DEF BurnCoins, Store
  <1> HIDE DEF c, v
  <1>1. r \in Store
    BY <1>a, <1>b, Zenon DEF Store
  <1>2. SameRest(s, r) /\ r.tokens = s.tokens
    BY Zenon DEF BurnCoins, Store, SameRest
  <1>3. /\ \A u \in Tokens : u # t => r.coins[u] = s.coins[u] /\ r.supply[u] = s.supply[u]
        /\ r.supply[t] = s.supply[t] - amt
        /\ r.coins[t][Module] = IF from = Module THEN s.coins[t][Module] - amt
                                ELSE s.coins[t][Module]
    BY Zenon DEF BurnCoins, Store, Holders
  <1> HIDE DEF r
  <1> QED
    BY <1>1, <1>2, <1>3, Zenon DEF r

\* A call of transfer changes the module's tokens by the amount when it pays,
\* by the amount when it is paid in full, and not at all for anyone else.
LEMMA TokenTransferEffect ==
  ASSUME NEW s \in Store, NEW t \in Contracts, NEW from \in Holders, NEW to \in Holders,
         NEW amt \in Int, NEW o, from # Module \/ to # Module
  PROVE  LET r == TokenTransfer(s, t, from, to, amt, o)
         IN  /\ r \in Store /\ SameRest(s, r)
             /\ r.supply = s.supply /\ r.coins = s.coins
             /\ \A u \in Contracts : u # t => r.tokens[u] = s.tokens[u]
             /\ from # Module /\ to # Module => r.tokens[t][Module] = s.tokens[t][Module]
             /\ from = Module => r.tokens[t][Module] = s.tokens[t][Module] - amt
                                \/ r = s
             /\ to = Module /\ o = "ok" => r.tokens[t][Module] = s.tokens[t][Module] + amt
  <1> DEFINE f == Moved(s.tokens[t], from, to, amt)
             g == MovedShort(s.tokens[t], from, to, amt)
             r == TokenTransfer(s, t, from, to, amt, o)
             Eff(h) == /\ h \in [Holders -> Int]
                       /\ from # Module /\ to # Module => h[Module] = s.tokens[t][Module]
                       /\ from = Module => h[Module] = s.tokens[t][Module] - amt
  <1>1. Eff(f) /\ (to = Module => f[Module] = s.tokens[t][Module] + amt)
    BY DEF Moved, Store, Holders
  <1>2. Eff(g)
    BY DEF MovedShort, Store, Holders
  <1>3. \/ r = [s EXCEPT !.tokens[t] = f]
        \/ o = "short" /\ r = [s EXCEPT !.tokens[t] = g]
        \/ o # "ok" /\ r = s
    BY Zenon DEF TokenTransfer
  <1>4. ASSUME NEW h, Eff(h), r = [s EXCEPT !.tokens[t] = h]
        PROVE  /\ r \in Store
               /\ r.supply = s.supply /\ r.coins = s.coins /\ SameRest(s, r)
               /\ \A u \in Contracts : u # t => r.tokens[u] = s.tokens[u]
               /\ r.tokens[t] = h
    <2> HIDE DEF r
    <2>1. r \in Store
      BY <1>4, Zenon DEF Store
    <2>2. r.supply = s.supply /\ r.coins = s.coins /\ SameRest(s, r)
      BY <1>4, Zenon DEF Store, SameRest
    <2>3. r.tokens[t] = h /\ \A u \in Contracts : u # t => r.tokens[u] = s.tokens[u]
      BY <1>4, Zenon DEF Store
    <2> QED
      BY <2>1, <2>2, <2>3, Zenon
  <1> HIDE DEF f, g, r
  <1>5. CASE r = [s EXCEPT !.tokens[t] = f]
    BY <1>1, <1>4, <1>5, Zenon DEF r
  <1>6. CASE o = "short" /\ r = [s EXCEPT !.tokens[t] = g]
    BY <1>2, <1>4, <1>6, Zenon DEF r
  <1>7. CASE o # "ok" /\ r = s
    BY <1>7, Zenon DEF r, SameRest
  <1> QED
    BY <1>3, <1>5, <1>6, <1>7, Zenon

\* An operation on the balances of one token keeps the store when that token,
\* if it is a contract, stays covered.
LEMMA KeepsByBalance ==
  ASSUME NEW s \in Store, NEW r \in Store, NEW t \in Tokens, SameRest(s, r),
         \A u \in Tokens : u # t => r.coins[u] = s.coins[u] /\ r.supply[u] = s.supply[u],
         \A u \in Contracts : u # t => r.tokens[u] = s.tokens[u],
         t \in Contracts => \A d \in Int : Covered(s, t, d) => Covered(r, t, d)
  PROVE  Keeps(s, r)
  <1>1. ASSUME NEW u \in Contracts, NEW d \in Int, Covered(s, u, d)
        PROVE  Covered(r, u, d)
    <2>1. CASE u = t
      BY <1>1, <2>1, Zenon
    <2>2. CASE u # t
      BY <1>1, <2>2, Zenon DEF Covered, Tokens
    <2> QED
      BY <2>1, <2>2, Zenon
  <1> QED
    BY <1>1, Zenon DEF Keeps, SameRest

\* Everyone but the module account.
Others == Holders \ {Module}

\* The module account is none of the others, and they are all holders.
LEMMA Parties ==
  /\ Users \subseteq Others /\ Others \subseteq Holders /\ Module \in Holders
  /\ Escrow \in Others /\ Isolated \in Others /\ Dapp \in Others
  /\ Module \notin Others
  BY ConstantsAssumption, Zenon DEF Others, Holders, Module, Escrow, Isolated, Dapp

\* Coins that pass between others leave every contract covered.
LEMMA SendKeeps ==
  ASSUME NEW s \in Store, NEW t \in Tokens, NEW from \in Others, NEW to \in Others,
         NEW amt \in Int
  PROVE  Keeps(s, SendCoins(s, t, from, to, amt))
  <1> DEFINE r == SendCoins(s, t, from, to, amt)
  <1>1. /\ r \in Store /\ SameRest(s, r) /\ r.supply = s.supply /\ r.tokens = s.tokens
        /\ \A u \in Tokens : u # t => r.coins[u] = s.coins[u]
        /\ r.coins[t][Module] = s.coins[t][Module]
    <2>1. from \in Holders /\ to \in Holders /\ from # Module /\ to # Module
      BY Parties, Zenon
    <2> QED
      BY <2>1, SendCoinsEffect, SMTT(30)
  <1> HIDE DEF r
  <1>2. \A d \in Int : Covered(s, t, d) => Covered(r, t, d)
    BY <1>1, Zenon DEF Covered
  <1> QED
    BY <1>1, <1>2, KeepsByBalance, Zenon DEF r

\* The supply of a voucher is no matter of the contracts.
LEMMA VoucherKeeps ==
  ASSUME NEW s \in Store, NEW t \in Vouchers, NEW p \in Holders, NEW amt \in Int
  PROVE  Keeps(s, MintCoins(s, t, p, amt)) /\ Keeps(s, BurnCoins(s, t, p, amt))
  <1>1. t \in Tokens /\ t \notin Contracts
    BY ConstantsAssumption, Zenon DEF Tokens
  <1>2. Keeps(s, MintCoins(s, t, p, amt))
    <2> DEFINE r == MintCoins(s, t, p, amt)
    <2>1. /\ r \in Store /\ SameRest(s, r) /\ r.tokens = s.tokens
          /\ \A u \in Tokens : u # t => r.coins[u] = s.coins[u] /\ r.supply[u] = s.supply[u]
      BY <1>1, MintCoinsEffect, SMTT(30)
    <2> HIDE DEF r
    <2> QED
      BY <1>1, <2>1, KeepsByBalance, Zenon DEF r
  <1>3. Keeps(s, BurnCoins(s, t, p, amt))
    <2> DEFINE r == BurnCoins(s, t, p, amt)
    <2>1. /\ r \in Store /\ SameRest(s, r) /\ r.tokens = s.tokens
          /\ \A u \in Tokens : u # t => r.coins[u] = s.coins[u] /\ r.supply[u] = s.supply[u]
      BY <1>1, BurnCoinsEffect, SMTT(30)
    <2> HIDE DEF r
    <2> QED
      BY <1>1, <2>1, KeepsByBalance, Zenon DEF r
  <1> QED
    BY <1>2, <1>3, Zenon

\* A transfer of tokens between others leaves every contract covered.
LEMMA TokenKeeps ==
  ASSUME NEW s \in Store, NEW t \in Contracts, NEW from \in Others, NEW to \in Others,
         NEW amt \in Int, NEW o
  PROVE  Keeps(s, TokenTransfer(s, t, from, to, amt, o))
  <1> DEFINE r == TokenTransfer(s, t, from, to, amt, o)
  <1>1. /\ r \in Store /\ SameRest(s, r) /\ r.supply = s.supply /\ r.coins = s.coins
        /\ \A u \in Contracts : u # t => r.tokens[u] = s.tokens[u]
        /\ r.tokens[t][Module] = s.tokens[t][Module]
    BY TokenTransferEffect, Parties, SMTT(30)
  <1> HIDE DEF r
  <1>2. t \in Tokens /\ \A d \in Int : Covered(s, t, d) => Covered(r, t, d)
    BY <1>1, Zenon DEF Covered, Tokens
  <1> QED
    BY <1>1, <1>2, KeepsByBalance, Zenon DEF r

\* What changes neither balances nor the pairs of contracts keeps the store.
LEMMA KeepsByField ==
  ASSUME NEW s \in Store, NEW r \in Store,
         r.meta = s.meta, r.coins = s.coins, r.supply = s.supply, r.tokens = s.tokens,
         \A t \in Contracts : (t \in r.code) <=> (t \in s.code),
         \A t \in Contracts : r.pairs[t] = s.pairs[t] \/ r.pairs[t] = "none"
  PROVE  Keeps(s, r)
  BY Zenon DEF Keeps, Covered

\* Deleting a pair takes nothing but the pair and its allowances.
LEMMA DeleteKeeps ==
  ASSUME NEW s \in Store, NEW t \in Tokens
  PROVE  Keeps(s, DeleteTokenPair(s, t))
  <1> DEFINE ps == [s.pairs EXCEPT ![t] = "none"]
             al == [s.allowance EXCEPT ![t] = [p \in Grants |-> 0]]
             r == [s EXCEPT !.pairs = ps, !.allowance = al]
  <1>1. ps \in [Tokens -> Pairs] /\ al \in [Tokens -> [Grants -> Int]]
    BY DEF Store, Pairs
  <1>2. \A u \in Tokens : ps[u] = s.pairs[u] \/ ps[u] = "none"
    BY Zenon DEF Store
  <1>3. DeleteTokenPair(s, t) = r
    BY Zenon DEF DeleteTokenPair, deleteAllowances, Store
  <1> HIDE DEF ps, al
  <1>4. r \in Store
    BY <1>1, Zenon DEF Store
  <1>5. /\ r.meta = s.meta /\ r.coins = s.coins /\ r.supply = s.supply
        /\ r.tokens = s.tokens /\ r.code = s.code /\ r.pairs = ps
    BY Zenon DEF Store
  <1> HIDE DEF r
  <1> QED
    BY <1>2, <1>3, <1>4, <1>5, KeepsByField, Zenon DEF Tokens

\* A conversion into coins that succeeds escrows as much as it mints.
LEMMA ConvertERC20Keeps ==
  ASSUME NEW s \in Store, NEW t \in Tokens, NEW amt \in Int, NEW receiver \in Holders,
         NEW sender \in Others, NEW o,
         ~ConvertERC20IntoCoinsForNativeToken(s, t, amt, receiver, sender, o).err
  PROVE  Keeps(s, ConvertERC20IntoCoinsForNativeToken(s, t, amt, receiver, sender, o).st)
  <1> DEFINE called == TokenTransfer(s, t, sender, Module, amt, o)
             minted == MintCoins(called, t, Module, amt)
             r == SendCoins(minted, t, Module, receiver, amt)
             res == ConvertERC20IntoCoinsForNativeToken(s, t, amt, receiver, sender, o)
  <1>1. /\ receiver # Module /\ t \in Contracts
        /\ \/ res.st = DeleteTokenPair(s, t)
           \/ res.st = r /\ called.tokens[t][Module] = s.tokens[t][Module] + amt
    BY Zenon DEF ConvertERC20IntoCoinsForNativeToken, MintingEnabled, Ok, Fail, Tokens
  <1>2. CASE res.st = DeleteTokenPair(s, t)
    BY <1>2, DeleteKeeps, Zenon
  <1>3. CASE res.st = r /\ called.tokens[t][Module] = s.tokens[t][Module] + amt
    <2>0. sender \in Holders /\ sender # Module /\ Module \in Holders
      BY Parties, Zenon
    <2>1. /\ called \in Store /\ SameRest(s, called)
          /\ called.supply = s.supply /\ called.coins = s.coins
          /\ \A u \in Contracts : u # t => called.tokens[u] = s.tokens[u]
      BY <1>1, <2>0, TokenTransferEffect, SMTT(30)
    <2> HIDE DEF called
    <2>2. /\ minted \in Store /\ SameRest(called, minted) /\ minted.tokens = called.tokens
          /\ \A u \in Tokens : u # t => minted.coins[u] = called.coins[u]
                                         /\ minted.supply[u] = called.supply[u]
          /\ minted.supply[t] = called.supply[t] + amt
          /\ minted.coins[t][Module] = called.coins[t][Module] + amt
      BY <2>0, <2>1, MintCoinsEffect, SMTT(30)
    <2> HIDE DEF minted
    <2>3. /\ r \in Store /\ SameRest(minted, r)
          /\ r.supply = minted.supply /\ r.tokens = minted.tokens
          /\ \A u \in Tokens : u # t => r.coins[u] = minted.coins[u]
          /\ r.coins[t][Module] = minted.coins[t][Module] - amt
      BY <1>1, <2>0, <2>2, SendCoinsEffect, SMTT(30)
    <2> HIDE DEF r
    <2>4. s.coins[t][Module] \in Int /\ s.supply[t] \in Int /\ s.tokens[t][Module] \in Int
      BY <1>1, <2>0, Zenon DEF Store
    <2>5. /\ r.coins[t][Module] = s.coins[t][Module]
          /\ r.supply[t] = s.supply[t] + amt
          /\ r.tokens[t][Module] = s.tokens[t][Module] + amt
      BY <1>3, <2>1, <2>2, <2>3, <2>4
    <2>6. \A d \in Int : Covered(s, t, d) => Covered(r, t, d)
      BY <2>4, <2>5 DEF Covered
    <2>7. SameRest(s, r)
      BY <2>1, <2>2, <2>3, Zenon DEF SameRest
    <2>8. /\ \A u \in Tokens : u # t => r.coins[u] = s.coins[u] /\ r.supply[u] = s.supply[u]
          /\ \A u \in Contracts : u # t => r.tokens[u] = s.tokens[u]
      BY <2>1, <2>2, <2>3, Zenon
    <2> QED
      BY <1>3, <2>3, <2>6, <2>7, <2>8, KeepsByBalance, Zenon
  <1> QED
    BY <1>1, <1>2, <1>3, Zenon

\* A conversion out of coins keeps every contract covered wherever it stops:
\* the coins it escrowed and did not burn are with the module account.
LEMMA ConvertCoinNativeKeeps ==
  ASSUME NEW s \in Store, NEW t \in Contracts, NEW amt \in Nat, NEW receiver \in Others,
         NEW sender \in Others, NEW o
  PROVE  Keeps(s, ConvertCoinNativeERC20(s, t, amt, receiver, sender, o).st)
  <1> DEFINE escrowed == SendCoins(s, t, sender, Module, amt)
             called == TokenTransfer(escrowed, t, Module, receiver, amt, o)
             burned == BurnCoins(called, t, Module, amt)
             res == ConvertCoinNativeERC20(s, t, amt, receiver, sender, o)
  <1>0. /\ sender \in Holders /\ sender # Module /\ Module \in Holders
        /\ receiver \in Holders /\ receiver # Module /\ t \in Tokens
    BY Parties, Zenon DEF Tokens
  <1>1. \/ res.st = s \/ res.st = escrowed \/ res.st = called
        \/ /\ res.st = burned
           /\ called.tokens[t][receiver] = s.tokens[t][receiver] + amt
    BY Zenon DEF ConvertCoinNativeERC20, Ok, Fail
  <1>2. s.coins[t][Module] \in Int /\ s.supply[t] \in Int /\ s.tokens[t][Module] \in Int
    BY <1>0, Zenon DEF Store
  <1>3. /\ escrowed \in Store /\ SameRest(s, escrowed)
        /\ escrowed.supply = s.supply /\ escrowed.tokens = s.tokens
        /\ \A u \in Tokens : u # t => escrowed.coins[u] = s.coins[u]
        /\ escrowed.coins[t][Module] = s.coins[t][Module] + amt
    BY <1>0, SendCoinsEffect, SMTT(30)
  <1> HIDE DEF escrowed
  <1>4. /\ called \in Store /\ SameRest(escrowed, called)
        /\ called.supply = escrowed.supply /\ called.coins = escrowed.coins
        /\ \A u \in Contracts : u # t => called.tokens[u] = escrowed.tokens[u]
        /\ called.tokens[t][Module] = escrowed.tokens[t][Module] - amt \/ called = escrowed
    BY <1>0, <1>3, TokenTransferEffect, SMTT(30)
  <1> HIDE DEF called
  <1>5. /\ burned \in Store /\ SameRest(called, burned) /\ burned.tokens = called.tokens
        /\ \A u \in Tokens : u # t => burned.coins[u] = called.coins[u]
                                       /\ burned.supply[u] = called.supply[u]
        /\ burned.supply[t] = called.supply[t] - amt
        /\ burned.coins[t][Module] = called.coins[t][Module] - amt
    BY <1>0, <1>4, BurnCoinsEffect, SMTT(30)
  <1> HIDE DEF burned, res
  <1>6. SameRest(s, called) /\ SameRest(s, burned)
    BY <1>3, <1>4, <1>5, Zenon DEF SameRest
  <1>7. CASE res.st = s
    BY <1>7, KeepsSelf, Zenon DEF res
  <1>8. CASE res.st = escrowed
    <2>1. \A d \in Int : Covered(s, t, d) => Covered(escrowed, t, d)
      BY <1>2, <1>3 DEF Covered
    <2>2. Keeps(s, escrowed)
      BY <1>0, <1>3, <2>1, KeepsByBalance, Zenon
    <2> QED
      BY <1>8, <2>2, Zenon DEF res
  <1>9. CASE res.st = called
    <2>1. \A d \in Int : Covered(s, t, d) => Covered(called, t, d)
      <3>1. called.tokens[t][Module] = s.tokens[t][Module] - amt
            \/ called.tokens[t][Module] = s.tokens[t][Module]
        BY <1>3, <1>4, Zenon
      <3>2. /\ called.coins[t][Module] = s.coins[t][Module] + amt
            /\ called.supply[t] = s.supply[t]
        BY <1>3, <1>4, Zenon
      <3> QED
        BY <1>2, <3>1, <3>2 DEF Covered
    <2>2. /\ \A u \in Tokens : u # t => called.coins[u] = s.coins[u]
                                         /\ called.supply[u] = s.supply[u]
          /\ \A u \in Contracts : u # t => called.tokens[u] = s.tokens[u]
      BY <1>3, <1>4, Zenon
    <2>3. Keeps(s, called)
      BY <1>0, <1>4, <1>6, <2>1, <2>2, KeepsByBalance, Zenon
    <2> QED
      BY <1>9, <2>3, Zenon DEF res
  <1>10. CASE /\ res.st = burned
              /\ called.tokens[t][receiver] = s.tokens[t][receiver] + amt
    <2>1. called.tokens[t][Module] = s.tokens[t][Module] - amt
      <3>1. called = escrowed => amt = 0
        <4>1. s.tokens[t][receiver] \in Int
          BY <1>0, Zenon DEF Store
        <4> QED
          BY <1>3, <1>10, <4>1
      <3> QED
        BY <1>2, <1>3, <1>4, <3>1
    <2>2. /\ burned.coins[t][Module] = s.coins[t][Module]
          /\ burned.supply[t] = s.supply[t] - amt
          /\ burned.tokens[t][Module] = s.tokens[t][Module] - amt
      BY <1>2, <1>3, <1>4, <1>5, <2>1
    <2>3. \A d \in Int : Covered(s, t, d) => Covered(burned, t, d)
      BY <1>2, <2>2 DEF Covered
    <2>4. /\ \A u \in Tokens : u # t => burned.coins[u] = s.coins[u]
                                         /\ burned.supply[u] = s.supply[u]
          /\ \A u \in Contracts : u # t => burned.tokens[u] = s.tokens[u]
      BY <1>3, <1>4, <1>5
    <2>5. Keeps(s, burned)
      BY <1>0, <1>5, <1>6, <2>3, <2>4, KeepsByBalance, Zenon
    <2> QED
      BY <1>10, <2>5, Zenon DEF res
  <1> QED
    BY <1>1, <1>7, <1>8, <1>9, <1>10, Zenon

\* The message ConvertCoin keeps the store when it succeeds.
LEMMA ConvertCoinKeeps ==
  ASSUME NEW s \in Store, NEW t \in Tokens, NEW amt \in Nat, NEW receiver \in Holders,
         NEW sender \in Others, NEW o, ~ConvertCoin(s, t, amt, receiver, sender, o).err
  PROVE  Keeps(s, ConvertCoin(s, t, amt, receiver, sender, o).st)
  <1>1. /\ receiver \in Others /\ t \in Contracts
        /\ \/ ConvertCoin(s, t, amt, receiver, sender, o).st = DeleteTokenPair(s, t)
           \/ ConvertCoin(s, t, amt, receiver, sender, o)
                = ConvertCoinNativeERC20(s, t, amt, receiver, sender, o)
    BY Zenon DEF ConvertCoin, MintingEnabled, Ok, Fail, Tokens, Others
  <1> QED
    BY <1>1, DeleteKeeps, ConvertCoinNativeKeeps, Zenon

\* A transfer out keeps the store: the coins of a contract go to the escrow.
LEMMA SendTransferKeeps ==
  ASSUME NEW s \in Store, NEW t \in Tokens, NEW amt \in Int, NEW sender \in Others
  PROVE  Keeps(s, SendTransfer(s, t, amt, sender).st)
  <1>1. \/ SendTransfer(s, t, amt, sender).st = s
        \/ t \in Vouchers /\ SendTransfer(s, t, amt, sender).st = BurnCoins(s, t, sender, amt)
        \/ SendTransfer(s, t, amt, sender).st = SendCoins(s, t, sender, Escrow, amt)
    BY Zenon DEF SendTransfer, Ok, Fail
  <1>2. sender \in Holders /\ Escrow \in Others
    BY Parties, Zenon
  <1> QED
    BY <1>1, <1>2, KeepsSelf, VoucherKeeps, SendKeeps, Zenon

\* Coins that come back, or a voucher that arrives, keep the store.
LEMMA ReleaseTransferKeeps ==
  ASSUME NEW s \in Store, NEW t \in Tokens, NEW amt \in Int, NEW receiver \in Others
  PROVE  Keeps(s, ReleaseTransfer(s, t, amt, receiver))
  <1>1. \/ t \in Vouchers /\ ReleaseTransfer(s, t, amt, receiver) = MintCoins(s, t, receiver, amt)
        \/ ReleaseTransfer(s, t, amt, receiver) = SendCoins(s, t, Escrow, receiver, amt)
    BY Zenon DEF ReleaseTransfer
  <1>2. receiver \in Holders /\ Escrow \in Others
    BY Parties, Zenon
  <1> QED
    BY <1>1, <1>2, VoucherKeeps, SendKeeps, Zenon

\* The ICS20 precompile keeps the store when it succeeds.
LEMMA TransferWithStateDBKeeps ==
  ASSUME NEW s \in Store, NEW t \in Tokens, NEW amt \in Int, NEW sender \in Others, NEW o,
         ~transferWithStateDB(s, t, amt, sender, o).err
  PROVE  Keeps(s, transferWithStateDB(s, t, amt, sender, o).st)
  <1> DEFINE short == amt - s.coins[t][sender]
             converted == ConvertERC20IntoCoinsForNativeToken(s, t, short, sender, sender, o)
             res == transferWithStateDB(s, t, amt, sender, o)
  <1>1. \/ res = SendTransfer(s, t, amt, sender)
        \/ ~converted.err /\ res = SendTransfer(converted.st, t, amt, sender)
    BY Zenon DEF transferWithStateDB, Fail
  <1>2. sender \in Holders /\ short \in Int
    BY Parties DEF Store
  <1> HIDE DEF short, res
  <1>3. CASE res = SendTransfer(s, t, amt, sender)
    BY <1>3, SendTransferKeeps, Zenon DEF res
  <1>4. CASE ~converted.err /\ res = SendTransfer(converted.st, t, amt, sender)
    <2>1. Keeps(s, converted.st)
      BY <1>2, <1>4, ConvertERC20Keeps, Zenon
    <2> HIDE DEF converted
    <2>2. Keeps(converted.st, res.st)
      <3>1. converted.st \in Store
        BY <2>1, KeepsStore, Zenon
      <3> QED
        BY <1>4, <3>1, SendTransferKeeps, Zenon
    <2> QED
      BY <2>1, <2>2, KeepsTrans, Zenon DEF res
  <1> QED
    BY <1>1, <1>3, <1>4, Zenon

\* The precompile of a new voucher concerns no contract.
LEMMA ExtensionKeeps ==
  ASSUME NEW s \in Store, NEW t \in Vouchers
  PROVE  Keeps(s, RegisterERC20Extension(s, t).st)
  <1> DEFINE r == [s EXCEPT !.pairs[t] = "enabled", !.code = @ \cup {t}]
  <1>1. t \in Tokens /\ t \notin Contracts
    BY ConstantsAssumption, Zenon DEF Tokens
  <1>2. r \in Store
    BY <1>1, Zenon DEF Store, Pairs
  <1>3. /\ r.meta = s.meta /\ r.coins = s.coins /\ r.supply = s.supply
        /\ r.tokens = s.tokens /\ r.code = s.code \cup {t}
    BY Zenon DEF Store
  <1>4. \A u \in Contracts : r.pairs[u] = s.pairs[u]
    BY <1>1, Zenon DEF Store, Tokens
  <1>5. RegisterERC20Extension(s, t).st = s \/ RegisterERC20Extension(s, t).st = r
    BY Zenon DEF RegisterERC20Extension, Ok, Fail
  <1> HIDE DEF r
  <1>6. Keeps(s, r)
    BY <1>1, <1>2, <1>3, <1>4, KeepsByField, Zenon
  <1> QED
    BY <1>5, <1>6, KeepsSelf, Zenon

\* What the middleware does with a received packet keeps the store.
LEMMA OnRecvPacketKeeps ==
  ASSUME NEW s \in Store, NEW t \in Tokens, NEW amt \in Nat, NEW receiver \in Others, NEW o
  PROVE  Keeps(s, OnRecvPacket(s, t, amt, receiver, o).st)
  <1> DEFINE res == OnRecvPacket(s, t, amt, receiver, o)
  <1>1. \/ res.st = s
        \/ t \in Vouchers /\ res = RegisterERC20Extension(s, t)
        \/ /\ t \in Contracts
           /\ res = ConvertCoinNativeERC20(s, t, amt, receiver, receiver, o)
    BY Zenon DEF OnRecvPacket, Ok, Fail, Tokens
  <1> HIDE DEF res
  <1>2. Keeps(s, res.st)
    BY <1>1, KeepsSelf, ExtensionKeeps, ConvertCoinNativeKeeps, Zenon
  <1> QED
    BY <1>2, Zenon DEF res

\* What the middleware does after a refund keeps the store, error or not.
LEMMA RefundKeeps ==
  ASSUME NEW s \in Store, NEW t \in Tokens, NEW amt \in Nat, NEW sender \in Others, NEW o
  PROVE  Keeps(s, ConvertCoinToERC20FromPacket(s, t, amt, sender, o))
  <1>1. \/ ConvertCoinToERC20FromPacket(s, t, amt, sender, o) = s
        \/ /\ t \in Contracts
           /\ ConvertCoinToERC20FromPacket(s, t, amt, sender, o)
                = ConvertCoinNativeERC20(s, t, amt, sender, sender, o).st
    BY Zenon DEF ConvertCoinToERC20FromPacket, Tokens
  <1> QED
    BY <1>1, KeepsSelf, ConvertCoinNativeKeeps, Zenon

\* An allowance is no balance.
LEMMA AllowanceKeeps ==
  ASSUME NEW s \in Store, NEW t \in Tokens, NEW owner, NEW spender, NEW value \in Int
  PROVE  Keeps(s, setAllowance(s, t, owner, spender, value).st)
  <1> DEFINE al == [s.allowance EXCEPT ![t] = [s.allowance[t] EXCEPT ![<<owner, spender>>] = value]]
             r == [s EXCEPT !.allowance = al]
  <1>1. al \in [Tokens -> [Grants -> Int]]
    BY Zenon DEF Store
  <1>2. \/ setAllowance(s, t, owner, spender, value).st = s
        \/ setAllowance(s, t, owner, spender, value).st = r
    BY Zenon DEF setAllowance, Ok, Fail, Store
  <1> HIDE DEF al
  <1>3. r \in Store
    BY <1>1, Zenon DEF Store
  <1>4. /\ r.meta = s.meta /\ r.coins = s.coins /\ r.supply = s.supply
        /\ r.tokens = s.tokens /\ r.code = s.code /\ r.pairs = s.pairs
    BY Zenon DEF Store
  <1> HIDE DEF r
  <1>5. Keeps(s, r)
    BY <1>3, <1>4, KeepsByField, Zenon
  <1> QED
    BY <1>2, <1>5, KeepsSelf, Zenon

\* A transfer by the precompile never has the module as receiver.
LEMMA PrecompileSendKeeps ==
  ASSUME NEW s \in Store, NEW t \in Tokens, NEW from \in Others, NEW to \in Others, NEW amt \in Int
  PROVE  Keeps(s, PrecompileSend(s, t, from, to, amt).st)
  <1>1. \/ PrecompileSend(s, t, from, to, amt).st = s
        \/ PrecompileSend(s, t, from, to, amt).st = SendCoins(s, t, from, to, amt)
    BY Zenon DEF PrecompileSend, Ok, Fail
  <1> QED
    BY <1>1, KeepsSelf, SendKeeps, Zenon

\* A transfer on an allowance spends the allowance and moves the coins.
LEMMA TransferFromKeeps ==
  ASSUME NEW s \in Store, NEW t \in Tokens, NEW spender, NEW from \in Others, NEW to \in Others,
         NEW amt \in Int, <<from, spender>> \in Grants
  PROVE  Keeps(s, PrecompileTransferFrom(s, t, spender, from, to, amt).st)
  <1> DEFINE left == s.allowance[t][<<from, spender>>] - amt
             spent == setAllowance(s, t, from, spender, left)
             res == PrecompileTransferFrom(s, t, spender, from, to, amt)
  <1>1. res.st = s \/ res = PrecompileSend(spent.st, t, from, to, amt)
    BY Zenon DEF PrecompileTransferFrom, Fail
  <1>2. left \in Int
    BY DEF Store
  <1> HIDE DEF left, res
  <1>3. Keeps(s, spent.st)
    BY <1>2, AllowanceKeeps, Zenon
  <1> HIDE DEF spent
  <1>4. Keeps(spent.st, PrecompileSend(spent.st, t, from, to, amt).st)
    <2>1. spent.st \in Store
      BY <1>3, KeepsStore, Zenon
    <2> QED
      BY <2>1, PrecompileSendKeeps, Zenon
  <1>5. Keeps(s, res.st)
    BY <1>1, <1>3, <1>4, KeepsSelf, KeepsTrans
  <1> QED
    BY <1>5, Zenon DEF res

\* The receive callback moves tokens or vouchers between others.
LEMMA CallbackKeeps ==
  ASSUME NEW s \in Store, NEW t \in Tokens, NEW amt \in Nat, NEW taken \in Int
  PROVE  Keeps(s, IBCReceivePacketCallback(s, t, amt, taken).st)
  <1> DEFINE approved == setAllowance(s, t, Isolated, Dapp, amt)
             taking == PrecompileTransferFrom(approved.st, t, Dapp, Isolated, Dapp, taken)
             called == callbackCalls(s, t, amt, taken)
             res == IBCReceivePacketCallback(s, t, amt, taken)
  <1>0. /\ Isolated \in Others /\ Dapp \in Others /\ <<Isolated, Dapp>> \in Grants
    BY Parties, Zenon DEF Grants
  <1>1. res.st = s \/ res = called
    BY Zenon DEF IBCReceivePacketCallback, Fail
  <1>2. \/ called.st = s \/ called = approved \/ called = taking
        \/ t \in Contracts /\ called.st = TokenTransfer(s, t, Isolated, Dapp, taken, "ok")
    BY Zenon DEF callbackCalls, Ok, Fail, Tokens
  <1> HIDE DEF called, res
  <1>3. Keeps(s, approved.st)
    BY <1>0, AllowanceKeeps
  <1> HIDE DEF approved
  <1>4. Keeps(s, taking.st)
    <2>1. Keeps(approved.st, taking.st)
      <3>1. approved.st \in Store
        BY <1>3, KeepsStore, Zenon
      <3> QED
        BY <1>0, <3>1, TransferFromKeeps, Zenon
    <2> QED
      BY <1>3, <2>1, KeepsTrans, Zenon
  <1> HIDE DEF taking
  <1>5. t \in Contracts => Keeps(s, TokenTransfer(s, t, Isolated, Dapp, taken, "ok"))
    BY <1>0, TokenKeeps, Zenon
  <1>6. Keeps(s, res.st)
    BY <1>1, <1>2, <1>3, <1>4, <1>5, KeepsSelf, Zenon
  <1> QED
    BY <1>6, Zenon DEF res

(***************************************************************************)
(* What each operation leaves the module account.                          *)
(***************************************************************************)
\* The operation leaves the module's coins as they were.
Passes(s, r) == \A u \in Tokens : r.coins[u][Module] = s.coins[u][Module]

\* Passing composes.
LEMMA PassesTrans ==
  ASSUME NEW s, NEW r, NEW q, Passes(s, r), Passes(r, q)
  PROVE  Passes(s, q)
  BY Zenon DEF Passes

\* Coins that others send, get, mint or burn are not the module's.
LEMMA BankPasses ==
  ASSUME NEW s \in Store, NEW t \in Tokens, NEW from \in Others, NEW to \in Others, NEW amt \in Int
  PROVE  /\ Passes(s, SendCoins(s, t, from, to, amt))
         /\ Passes(s, MintCoins(s, t, to, amt))
         /\ Passes(s, BurnCoins(s, t, from, amt))
  <1>0. from \in Holders /\ to \in Holders /\ from # Module /\ to # Module
    BY Parties, Zenon
  <1>1. Passes(s, SendCoins(s, t, from, to, amt))
    <2> DEFINE r == SendCoins(s, t, from, to, amt)
    <2>1. /\ r.coins[t][Module] = s.coins[t][Module]
          /\ \A u \in Tokens : u # t => r.coins[u] = s.coins[u]
      BY <1>0, SendCoinsEffect, SMTT(30)
    <2> HIDE DEF r
    <2>2. Passes(s, r)
      BY <2>1, Zenon DEF Passes
    <2> QED
      BY <2>2, Zenon DEF r
  <1>2. Passes(s, MintCoins(s, t, to, amt))
    <2> DEFINE r == MintCoins(s, t, to, amt)
    <2>1. /\ r.coins[t][Module] = s.coins[t][Module]
          /\ \A u \in Tokens : u # t => r.coins[u] = s.coins[u]
      BY <1>0, MintCoinsEffect, SMTT(30)
    <2> HIDE DEF r
    <2>2. Passes(s, r)
      BY <2>1, Zenon DEF Passes
    <2> QED
      BY <2>2, Zenon DEF r
  <1>3. Passes(s, BurnCoins(s, t, from, amt))
    <2> DEFINE r == BurnCoins(s, t, from, amt)
    <2>1. /\ r.coins[t][Module] = s.coins[t][Module]
          /\ \A u \in Tokens : u # t => r.coins[u] = s.coins[u]
      BY <1>0, BurnCoinsEffect, SMTT(30)
    <2> HIDE DEF r
    <2>2. Passes(s, r)
      BY <2>1, Zenon DEF Passes
    <2> QED
      BY <2>2, Zenon DEF r
  <1> QED
    BY <1>1, <1>2, <1>3, Zenon

\* A call of a contract moves no coins.
LEMMA TokenPasses ==
  ASSUME NEW s \in Store, NEW t \in Contracts, NEW from \in Holders, NEW to \in Holders,
         NEW amt \in Int, NEW o, from # Module \/ to # Module
  PROVE  Passes(s, TokenTransfer(s, t, from, to, amt, o))
  <1>1. TokenTransfer(s, t, from, to, amt, o).coins = s.coins
    BY TokenTransferEffect, SMTT(30)
  <1> QED
    BY <1>1, Zenon DEF Passes

\* What changes no balance passes.
LEMMA DeletePasses == \A s \in Store, t \in Tokens : Passes(s, DeleteTokenPair(s, t))
  BY Zenon DEF Passes, DeleteTokenPair, deleteAllowances, Store

\* The conversion into coins mints to the module and sends on.
LEMMA ConvertERC20Passes ==
  ASSUME NEW s \in Store, NEW t \in Tokens, NEW amt \in Int, NEW receiver \in Holders,
         NEW sender \in Others, NEW o,
         ~ConvertERC20IntoCoinsForNativeToken(s, t, amt, receiver, sender, o).err
  PROVE  Passes(s, ConvertERC20IntoCoinsForNativeToken(s, t, amt, receiver, sender, o).st)
  <1> DEFINE called == TokenTransfer(s, t, sender, Module, amt, o)
             minted == MintCoins(called, t, Module, amt)
             r == SendCoins(minted, t, Module, receiver, amt)
             res == ConvertERC20IntoCoinsForNativeToken(s, t, amt, receiver, sender, o)
  <1>1. /\ receiver # Module /\ t \in Contracts
        /\ res.st = DeleteTokenPair(s, t) \/ res.st = r
    BY Zenon DEF ConvertERC20IntoCoinsForNativeToken, MintingEnabled, Ok, Fail, Tokens
  <1>2. sender \in Holders /\ sender # Module /\ Module \in Holders
    BY Parties, Zenon
  <1>3. called \in Store /\ called.coins = s.coins
    BY <1>1, <1>2, TokenTransferEffect, SMTT(30)
  <1> HIDE DEF called, res
  <1>4. /\ minted \in Store
        /\ \A u \in Tokens : u # t => minted.coins[u] = called.coins[u]
        /\ minted.coins[t][Module] = called.coins[t][Module] + amt
    BY <1>2, <1>3, MintCoinsEffect, SMTT(30)
  <1> HIDE DEF minted
  <1>5. /\ \A u \in Tokens : u # t => r.coins[u] = minted.coins[u]
        /\ r.coins[t][Module] = minted.coins[t][Module] - amt
    BY <1>1, <1>2, <1>4, SendCoinsEffect, SMTT(30)
  <1> HIDE DEF r
  <1>6. s.coins[t][Module] \in Int
    BY <1>2, Zenon DEF Store
  <1>7. Passes(s, r)
    BY <1>3, <1>4, <1>5, <1>6 DEF Passes
  <1>8. Passes(s, res.st)
    BY <1>1, <1>7, DeletePasses, Zenon
  <1> QED
    BY <1>8, Zenon DEF res

\* The conversion out of coins leaves its escrow behind when it fails after it.
LEMMA ConvertCoinNativePasses ==
  ASSUME NEW s \in Store, NEW t \in Contracts, NEW amt \in Nat, NEW receiver \in Others,
         NEW sender \in Others, NEW o
  PROVE  LET res == ConvertCoinNativeERC20(s, t, amt, receiver, sender, o)
         IN  /\ ~res.err => Passes(s, res.st)
             /\ \A u \in Tokens : u # t => res.st.coins[u][Module] = s.coins[u][Module]
             /\ \/ res.st.coins[t][Module] = s.coins[t][Module]
                \/ res.st.coins[t][Module] = s.coins[t][Module] + amt
  <1> DEFINE escrowed == SendCoins(s, t, sender, Module, amt)
             called == TokenTransfer(escrowed, t, Module, receiver, amt, o)
             burned == BurnCoins(called, t, Module, amt)
             res == ConvertCoinNativeERC20(s, t, amt, receiver, sender, o)
  <1>0. /\ sender \in Holders /\ sender # Module /\ Module \in Holders
        /\ receiver \in Holders /\ receiver # Module /\ t \in Tokens
    BY Parties, Zenon DEF Tokens
  <1>1. \/ res.err /\ (res.st = s \/ res.st = escrowed \/ res.st = called)
        \/ res.st = burned
    BY Zenon DEF ConvertCoinNativeERC20, Ok, Fail
  <1>2. s.coins[t][Module] \in Int
    BY <1>0, Zenon DEF Store
  <1>3. /\ escrowed \in Store
        /\ \A u \in Tokens : u # t => escrowed.coins[u] = s.coins[u]
        /\ escrowed.coins[t][Module] = s.coins[t][Module] + amt
    BY <1>0, SendCoinsEffect, SMTT(30)
  <1> HIDE DEF escrowed
  <1>4. called \in Store /\ called.coins = escrowed.coins
    BY <1>0, <1>3, TokenTransferEffect, SMTT(30)
  <1> HIDE DEF called
  <1>5. /\ \A u \in Tokens : u # t => burned.coins[u] = called.coins[u]
        /\ burned.coins[t][Module] = called.coins[t][Module] - amt
    BY <1>0, <1>4, BurnCoinsEffect, SMTT(30)
  <1> HIDE DEF burned, res
  <1>6. Passes(s, burned)
    BY <1>2, <1>3, <1>4, <1>5 DEF Passes
  <1>7. ~res.err => Passes(s, res.st)
    BY <1>1, <1>6, Zenon
  <1>8. \A u \in Tokens : u # t => res.st.coins[u][Module] = s.coins[u][Module]
    BY <1>1, <1>3, <1>4, <1>6 DEF Passes
  <1>9. \/ res.st.coins[t][Module] = s.coins[t][Module]
        \/ res.st.coins[t][Module] = s.coins[t][Module] + amt
    BY <1>0, <1>1, <1>3, <1>4, <1>6, Zenon DEF Passes
  <1> QED
    BY <1>7, <1>8, <1>9, Zenon DEF res

\* Transfers out and back in move the coins of others.
LEMMA TransferPasses ==
  ASSUME NEW s \in Store, NEW t \in Tokens, NEW amt \in Int, NEW a \in Others
  PROVE  /\ Passes(s, SendTransfer(s, t, amt, a).st)
         /\ Passes(s, ReleaseTransfer(s, t, amt, a))
  <1>1. \/ SendTransfer(s, t, amt, a).st = s
        \/ SendTransfer(s, t, amt, a).st = BurnCoins(s, t, a, amt)
        \/ SendTransfer(s, t, amt, a).st = SendCoins(s, t, a, Escrow, amt)
    BY Zenon DEF SendTransfer, Ok, Fail
  <1>2. \/ ReleaseTransfer(s, t, amt, a) = MintCoins(s, t, a, amt)
        \/ ReleaseTransfer(s, t, amt, a) = SendCoins(s, t, Escrow, a, amt)
    BY Zenon DEF ReleaseTransfer
  <1>3. Escrow \in Others /\ Passes(s, s)
    BY Parties, Zenon DEF Passes
  <1> QED
    BY <1>1, <1>2, <1>3, BankPasses, Zenon

\* The ICS20 precompile: a conversion that succeeded, then the transfer.
LEMMA TransferWithStateDBPasses ==
  ASSUME NEW s \in Store, NEW t \in Tokens, NEW amt \in Int, NEW sender \in Others, NEW o,
         ~transferWithStateDB(s, t, amt, sender, o).err
  PROVE  Passes(s, transferWithStateDB(s, t, amt, sender, o).st)
  <1> DEFINE short == amt - s.coins[t][sender]
             converted == ConvertERC20IntoCoinsForNativeToken(s, t, short, sender, sender, o)
             res == transferWithStateDB(s, t, amt, sender, o)
  <1>1. \/ res = SendTransfer(s, t, amt, sender)
        \/ ~converted.err /\ res = SendTransfer(converted.st, t, amt, sender)
    BY Zenon DEF transferWithStateDB, Fail
  <1>2. sender \in Holders /\ short \in Int
    BY Parties DEF Store
  <1> HIDE DEF short, res
  <1>3. CASE res = SendTransfer(s, t, amt, sender)
    BY <1>3, TransferPasses, Zenon DEF res
  <1>4. CASE ~converted.err /\ res = SendTransfer(converted.st, t, amt, sender)
    <2>1. Passes(s, converted.st)
      BY <1>2, <1>4, ConvertERC20Passes, Zenon
    <2>2. converted.st \in Store
      BY <1>2, <1>4, ConvertERC20Keeps, KeepsStore, Zenon
    <2> HIDE DEF converted
    <2>3. Passes(converted.st, res.st)
      BY <1>4, <2>2, TransferPasses, Zenon
    <2> QED
      BY <2>1, <2>3, PassesTrans, Zenon DEF res
  <1> QED
    BY <1>1, <1>3, <1>4, Zenon

\* A packet received in full: only a conversion that succeeds is kept.
LEMMA OnRecvPacketPasses ==
  ASSUME NEW s \in Store, NEW t \in Tokens, NEW amt \in Nat, NEW receiver \in Others, NEW o,
         ~OnRecvPacket(s, t, amt, receiver, o).err
  PROVE  Passes(s, OnRecvPacket(s, t, amt, receiver, o).st)
  <1> DEFINE res == OnRecvPacket(s, t, amt, receiver, o)
  <1>1. \/ res.st = s
        \/ t \in Vouchers /\ res = RegisterERC20Extension(s, t)
        \/ /\ t \in Contracts
           /\ res = ConvertCoinNativeERC20(s, t, amt, receiver, receiver, o)
    BY Zenon DEF OnRecvPacket, Ok, Fail, Tokens
  <1>2. RegisterERC20Extension(s, t).st.coins = s.coins
    BY Zenon DEF RegisterERC20Extension, Ok, Fail, Store
  <1>3. ~res.err
    BY Zenon
  <1> HIDE DEF res
  <1>4. CASE t \in Contracts /\ res = ConvertCoinNativeERC20(s, t, amt, receiver, receiver, o)
    <2> DEFINE n == ConvertCoinNativeERC20(s, t, amt, receiver, receiver, o)
    <2>1. ~n.err => Passes(s, n.st)
      BY <1>4, ConvertCoinNativePasses, Zenon
    <2> HIDE DEF n
    <2>2. res = n
      BY <1>4, Zenon DEF n
    <2>3. Passes(s, res.st)
      BY <1>3, <2>1, <2>2, Zenon
    <2> QED
      BY <2>3, Zenon DEF res
  <1>5. CASE res.st = s \/ res = RegisterERC20Extension(s, t)
    <2>1. res.st.coins = s.coins
      BY <1>2, <1>5, Zenon
    <2> QED
      BY <2>1, Zenon DEF Passes, res
  <1> QED
    BY <1>1, <1>4, <1>5, Zenon

\* The ERC20 precompile moves the coins of others.
LEMMA PrecompilePasses ==
  ASSUME NEW s \in Store, NEW t \in Tokens, NEW owner, NEW spender, NEW value \in Int,
         NEW from \in Others, NEW to \in Others, NEW amt \in Int
  PROVE  /\ Passes(s, setAllowance(s, t, owner, spender, value).st)
         /\ Passes(s, PrecompileSend(s, t, from, to, amt).st)
  <1>1. setAllowance(s, t, owner, spender, value).st.coins = s.coins
    BY Zenon DEF setAllowance, Ok, Fail, Store
  <1>2. \/ PrecompileSend(s, t, from, to, amt).st = s
        \/ PrecompileSend(s, t, from, to, amt).st = SendCoins(s, t, from, to, amt)
    BY Zenon DEF PrecompileSend, Ok, Fail
  <1>3. Passes(s, s)
    BY Zenon DEF Passes
  <1>4. Passes(s, PrecompileSend(s, t, from, to, amt).st)
    BY <1>2, <1>3, BankPasses, Zenon
  <1>5. Passes(s, setAllowance(s, t, owner, spender, value).st)
    BY <1>1, Zenon DEF Passes
  <1> QED
    BY <1>4, <1>5, Zenon

\* A transfer on an allowance too.
LEMMA TransferFromPasses ==
  ASSUME NEW s \in Store, NEW t \in Tokens, NEW spender, NEW from \in Others, NEW to \in Others,
         NEW amt \in Int, <<from, spender>> \in Grants
  PROVE  Passes(s, PrecompileTransferFrom(s, t, spender, from, to, amt).st)
  <1> DEFINE left == s.allowance[t][<<from, spender>>] - amt
             spent == setAllowance(s, t, from, spender, left)
             res == PrecompileTransferFrom(s, t, spender, from, to, amt)
  <1>1. res.st = s \/ res = PrecompileSend(spent.st, t, from, to, amt)
    BY Zenon DEF PrecompileTransferFrom, Fail
  <1>2. left \in Int
    BY DEF Store
  <1> HIDE DEF left, res
  <1>3. Passes(s, spent.st)
    BY <1>2, PrecompilePasses, Zenon
  <1>4. spent.st \in Store
    BY <1>2, AllowanceKeeps, KeepsStore, Zenon
  <1> HIDE DEF spent
  <1>5. Passes(spent.st, PrecompileSend(spent.st, t, from, to, amt).st)
    BY <1>4, PrecompilePasses, Zenon
  <1>6. Passes(s, PrecompileSend(spent.st, t, from, to, amt).st) /\ Passes(s, s)
    BY <1>3, <1>5, Zenon DEF Passes
  <1>7. Passes(s, res.st)
    BY <1>1, <1>6, Zenon
  <1> QED
    BY <1>7, Zenon DEF res

\* The receive callback moves tokens or vouchers between others.
LEMMA CallbackPasses ==
  ASSUME NEW s \in Store, NEW t \in Tokens, NEW amt \in Nat, NEW taken \in Int
  PROVE  Passes(s, IBCReceivePacketCallback(s, t, amt, taken).st)
  <1> DEFINE approved == setAllowance(s, t, Isolated, Dapp, amt)
             taking == PrecompileTransferFrom(approved.st, t, Dapp, Isolated, Dapp, taken)
             paid == TokenTransfer(s, t, Isolated, Dapp, taken, "ok")
             called == callbackCalls(s, t, amt, taken)
             res == IBCReceivePacketCallback(s, t, amt, taken)
  <1>0. /\ Isolated \in Others /\ Dapp \in Others /\ <<Isolated, Dapp>> \in Grants
        /\ Isolated \in Holders /\ Dapp \in Holders /\ Dapp # Module
    BY Parties, Zenon DEF Grants
  <1>1. res.st = s \/ res = called
    BY Zenon DEF IBCReceivePacketCallback, Fail
  <1>2. \/ called.st = s \/ called = approved \/ called = taking
        \/ t \in Contracts /\ called.st = paid
    BY Zenon DEF callbackCalls, Ok, Fail, Tokens
  <1> HIDE DEF called, res
  <1>3. Passes(s, approved.st)
    BY <1>0, PrecompilePasses
  <1>4. approved.st \in Store
    BY <1>0, AllowanceKeeps, KeepsStore
  <1> HIDE DEF approved
  <1>5. Passes(s, taking.st)
    <2>1. Passes(approved.st, taking.st)
      BY <1>0, <1>4, TransferFromPasses, Zenon
    <2> QED
      BY <1>3, <2>1, PassesTrans, Zenon
  <1> HIDE DEF taking
  <1>6. t \in Contracts => Passes(s, paid)
    BY <1>0, TokenPasses, Zenon
  <1> HIDE DEF paid
  <1>7. Passes(s, s)
    BY Zenon DEF Passes
  <1>8. Passes(s, res.st)
    BY <1>1, <1>2, <1>3, <1>5, <1>6, <1>7, Zenon
  <1> QED
    BY <1>8, Zenon DEF res

-----------------------------------------------------------------------------
Packet == [id : Nat, token : Tokens, amt : Nat, sender : Users, received : BOOLEAN]

\* The inductive invariant.  A contract without code was destroyed, so Backed
\* says nothing of it when it is created again; a registered contract has
\* metadata and metadata is never removed, which is what keeps a deleted pair
\* from being registered.
IInv ==
  /\ st \in Store
  /\ packets \subseteq Packet
  /\ seq \in Nat
  /\ donated \in [Contracts -> Int]
  /\ \A t \in Contracts : t \notin st.code => t \in gone
  /\ \A t \in Contracts : Registered(st, t) => t \in st.meta
  /\ deleted \subseteq st.meta
  /\ Backed
  /\ DeletedForGood

\* The first state: nothing is minted and nothing is registered.
LEMMA InitIInv == Init => IInv
  <1> SUFFICES ASSUME Init PROVE IInv
    BY Zenon
  <1>1. st \in Store
    BY ConstantsAssumption DEF Init, Store, Pairs, Tokens, Holders
  <1>2. Module \in Holders /\ Module \notin Users
    BY Parties, Zenon DEF Others
  <1>3. Backed
    BY <1>2 DEF Init, Backed, Tokens
  <1>4. DeletedForGood /\ packets \subseteq Packet /\ seq \in Nat /\ deleted \subseteq st.meta
    BY Zenon DEF Init, DeletedForGood
  <1>5. donated \in [Contracts -> Int]
    BY DEF Init
  <1>6. \A t \in Contracts : t \in st.code /\ ~Registered(st, t)
    BY Zenon DEF Init, Registered, Tokens
  <1> QED
    BY <1>1, <1>3, <1>4, <1>5, <1>6, Zenon DEF IInv

\* A step that keeps the store and gives the module nothing keeps IInv.
LEMMA KeepsIInv ==
  ASSUME IInv, Keeps(st, st'), packets' \subseteq Packet, seq' \in Nat,
         donated' = donated, gone' = gone, NoteDeleted \/ deleted' = deleted
  PROVE  IInv'
  <1>1. st' \in Store
    BY Zenon DEF Keeps
  <1>2. \A t \in Contracts : t \notin st'.code => t \in gone'
    BY Zenon DEF IInv, Keeps
  <1>3. \A t \in Contracts : Registered(st', t) => Registered(st, t)
    BY Zenon DEF Keeps, Registered
  <1>4. \A t \in Contracts : Registered(st', t) => t \in st'.meta
    BY <1>3, Zenon DEF IInv, Keeps
  <1>5. deleted' \subseteq st'.meta /\ DeletedForGood'
    <2>1. deleted \subseteq Contracts
      BY Zenon DEF IInv, Store
    <2>2. CASE NoteDeleted
      BY <1>3, <2>1, <2>2, Zenon DEF NoteDeleted, IInv, Keeps, DeletedForGood
    <2>3. CASE deleted' = deleted
      BY <1>3, <2>1, <2>3, Zenon DEF IInv, Keeps, DeletedForGood
    <2> QED
      BY <2>2, <2>3, Zenon
  <1>6. Backed'
    <2> SUFFICES ASSUME NEW t \in Contracts \ gone'
                 PROVE  Covered(st', t, donated'[t])
      BY Zenon DEF Backed, Covered
    <2>1. donated[t] \in Int /\ Covered(st, t, donated[t])
      BY Zenon DEF IInv, Backed, Covered
    <2> QED
      BY <2>1, Zenon DEF Keeps
  <1>7. donated' \in [Contracts -> Int]
    BY Zenon DEF IInv
  <1> QED
    BY <1>1, <1>2, <1>4, <1>5, <1>6, <1>7, Zenon DEF IInv

\* A step that only changes pairs of registered tokens, parameters or switches
\* keeps IInv.
LEMMA SettingIInv ==
  ASSUME IInv, st' \in Store, st'.meta = st.meta, st'.coins = st.coins,
         st'.supply = st.supply, st'.tokens = st.tokens, st'.code = st.code,
         \A t \in Tokens : Registered(st', t) => Registered(st, t),
         packets' = packets, seq' = seq, donated' = donated, gone' = gone, deleted' = deleted
  PROVE  IInv'
  <1>1. Backed'
    BY Zenon DEF IInv, Backed
  <1>2. deleted \subseteq Contracts
    BY Zenon DEF IInv, Store
  <1>3. DeletedForGood'
    BY <1>2, Zenon DEF IInv, DeletedForGood, Tokens
  <1> QED
    BY <1>1, <1>3, Zenon DEF IInv, Tokens

\* Every amount of a message is a natural number.
LEMMA AmountsNat == \A t \in Tokens : \A amt \in Amounts[t] : amt \in Nat
  BY ConstantsAssumption, Zenon

\* A new packet is a packet.
LEMMA SentPacket ==
  ASSUME IInv, NEW t \in Tokens, NEW amt \in Nat, NEW sender \in Users, Sent(t, amt, sender)
  PROVE  packets' \subseteq Packet /\ seq' \in Nat /\ donated' = donated /\ gone' = gone
  <1> DEFINE p == [id |-> seq, token |-> t, amt |-> amt, sender |-> sender, received |-> FALSE]
  <1>1. p \in Packet
    BY Zenon DEF IInv, Packet
  <1>2. packets' = packets \cup {p} /\ seq' = seq + 1 /\ donated' = donated /\ gone' = gone
    BY Zenon DEF Sent
  <1> HIDE DEF p
  <1> QED
    BY <1>1, <1>2 DEF IInv

\* The message ConvertERC20.
LEMMA ConvertERC20Step ==
  ASSUME IInv,
         MsgConvertERC20
  PROVE  IInv'
  <1>0. st \in Store /\ packets \subseteq Packet /\ seq \in Nat
    BY Zenon DEF IInv
  <1>a. Users \subseteq Others /\ Others \subseteq Holders /\ Module \in Holders
    BY Parties, Zenon
  <1>b. Contracts \subseteq Tokens /\ Vouchers \subseteq Tokens
    BY Zenon DEF Tokens
  <1>1. PICK t \in Contracts, sender \in Users, receiver \in Users \cup {Module} :
          \E amt \in Amounts[t], o \in OutcomesOf(t) :
            /\ Commit(ConvertERC20IntoCoinsForNativeToken(st, t, amt, receiver, sender, o))
            /\ NoteDeleted
            /\ UNCHANGED <<packets, away, seq, events, donated, gone>>
    BY Zenon DEF MsgConvertERC20
  <1>2. PICK amt \in Amounts[t], o \in OutcomesOf(t) :
            /\ Commit(ConvertERC20IntoCoinsForNativeToken(st, t, amt, receiver, sender, o))
            /\ NoteDeleted
            /\ UNCHANGED <<packets, away, seq, events, donated, gone>>
    BY <1>1, Zenon
  <1>3. /\ t \in Tokens /\ amt \in Int /\ receiver \in Holders /\ sender \in Others
    BY <1>a, <1>b, <1>2, AmountsNat
  <1>4. Keeps(st, st')
    BY <1>0, <1>2, <1>3, ConvertERC20Keeps, Zenon DEF Commit
  <1> QED
    BY <1>0, <1>2, <1>4, KeepsIInv, Zenon

\* The message ConvertCoin.
LEMMA ConvertCoinStep ==
  ASSUME IInv,
         MsgConvertCoin
  PROVE  IInv'
  <1>0. st \in Store /\ packets \subseteq Packet /\ seq \in Nat
    BY Zenon DEF IInv
  <1>a. Users \subseteq Others /\ Others \subseteq Holders /\ Module \in Holders
    BY Parties, Zenon
  <1>b. Contracts \subseteq Tokens /\ Vouchers \subseteq Tokens
    BY Zenon DEF Tokens
  <1>1. PICK t \in Contracts, sender \in Users, receiver \in Users \cup {Module} :
          \E amt \in Amounts[t], o \in OutcomesOf(t) :
            /\ Commit(ConvertCoin(st, t, amt, receiver, sender, o))
            /\ NoteDeleted
            /\ UNCHANGED <<packets, away, seq, events, donated, gone>>
    BY Zenon DEF MsgConvertCoin
  <1>2. PICK amt \in Amounts[t], o \in OutcomesOf(t) :
            /\ Commit(ConvertCoin(st, t, amt, receiver, sender, o))
            /\ NoteDeleted
            /\ UNCHANGED <<packets, away, seq, events, donated, gone>>
    BY <1>1, Zenon
  <1>3. /\ t \in Tokens /\ amt \in Nat /\ receiver \in Holders /\ sender \in Others
    BY <1>a, <1>b, <1>2, AmountsNat, Zenon
  <1>4. Keeps(st, st')
    BY <1>0, <1>2, <1>3, ConvertCoinKeeps, Zenon DEF Commit
  <1> QED
    BY <1>0, <1>2, <1>4, KeepsIInv, Zenon

\* A registration adds a contract without metadata, so it was never deleted.
LEMMA RegisterStep ==
  ASSUME IInv,
         RegisterERC20
  PROVE  IInv'
  <1>0. st \in Store /\ packets \subseteq Packet /\ seq \in Nat
    BY Zenon DEF IInv
  <1>b. Contracts \subseteq Tokens /\ Vouchers \subseteq Tokens
    BY Zenon DEF Tokens
  <1>1. PICK t \in Contracts :
          /\ Commit(registerERC20(st, t))
          /\ UNCHANGED <<packets, away, seq, events, donated, gone, deleted>>
    BY Zenon DEF RegisterERC20
  <1>2. /\ t \notin st.meta
        /\ st' = [st EXCEPT !.pairs[t] = "enabled", !.meta = @ \cup {t}]
    BY <1>1, Zenon DEF Commit, registerERC20, Ok, Fail
  <1>3. st' \in Store
    BY <1>0, <1>b, <1>2, Zenon DEF Store, Pairs
  <1>4. /\ st'.coins = st.coins /\ st'.supply = st.supply /\ st'.tokens = st.tokens
        /\ st'.code = st.code /\ st'.meta = st.meta \cup {t}
        /\ \A u \in Contracts : u # t => st'.pairs[u] = st.pairs[u]
    BY <1>0, <1>b, <1>2, Zenon DEF Store
  <1>5. t \notin deleted /\ deleted \subseteq Contracts
    BY <1>2, Zenon DEF IInv, Store
  <1>6. DeletedForGood' /\ deleted' \subseteq st'.meta
    BY <1>1, <1>4, <1>5, Zenon DEF IInv, DeletedForGood, Registered
  <1>7. Backed'
    BY <1>1, <1>4, Zenon DEF IInv, Backed
  <1>8. \A u \in Contracts : Registered(st', u) => u \in st'.meta
    BY <1>4, Zenon DEF IInv, Registered
  <1> QED
    BY <1>1, <1>3, <1>4, <1>6, <1>7, <1>8, Zenon DEF IInv

\* Switching a pair registers nothing.
LEMMA ToggleStep ==
  ASSUME IInv,
         ToggleConversion
  PROVE  IInv'
  <1>0. st \in Store /\ packets \subseteq Packet /\ seq \in Nat
    BY Zenon DEF IInv
  <1>1. PICK t \in Tokens : Commit(toggleConversion(st, t)) /\ Governance /\ UNCHANGED gone
    BY Zenon DEF ToggleConversion
  <1> DEFINE e == IF st.pairs[t] = "enabled" THEN "disabled" ELSE "enabled"
  <1>2. Registered(st, t) /\ st' = [st EXCEPT !.pairs[t] = e]
    BY <1>1, Zenon DEF Commit, toggleConversion, Ok, Fail
  <1>3. e \in Pairs
    BY Zenon DEF Pairs
  <1> HIDE DEF e
  <1>4. st' \in Store
    BY <1>0, <1>2, <1>3, Zenon DEF Store
  <1>5. /\ st'.coins = st.coins /\ st'.supply = st.supply /\ st'.tokens = st.tokens
        /\ st'.code = st.code /\ st'.meta = st.meta
        /\ \A u \in Tokens : u # t => st'.pairs[u] = st.pairs[u]
    BY <1>0, <1>2, Zenon DEF Store
  <1>6. \A u \in Tokens : Registered(st', u) => Registered(st, u)
    BY <1>2, <1>5, Zenon DEF Registered
  <1> QED
    BY <1>1, <1>4, <1>5, <1>6, SettingIInv, Zenon DEF Governance

\* The switch of the module.
LEMMA ParamsStep ==
  ASSUME IInv,
         UpdateParams
  PROVE  IInv'
  <1>0. st \in Store /\ packets \subseteq Packet /\ seq \in Nat
    BY Zenon DEF IInv
  <1>1. st' = [st EXCEPT !.on = ~@] /\ Governance /\ UNCHANGED gone
    BY Zenon DEF UpdateParams
  <1>2. st' \in Store
    BY <1>0, <1>1, Zenon DEF Store
  <1>3. /\ st'.coins = st.coins /\ st'.supply = st.supply /\ st'.tokens = st.tokens
        /\ st'.code = st.code /\ st'.meta = st.meta /\ st'.pairs = st.pairs
    BY <1>0, <1>1, Zenon DEF Store
  <1> QED
    BY <1>1, <1>2, <1>3, SettingIInv, Zenon DEF Governance, Registered

\* The switch of the bank.
LEMMA SendEnabledStep ==
  ASSUME IInv,
         SetSendEnabled
  PROVE  IInv'
  <1>0. st \in Store /\ packets \subseteq Packet /\ seq \in Nat
    BY Zenon DEF IInv
  <1>1. PICK t \in Tokens :
          /\ st' = [st EXCEPT !.send = IF t \in @ THEN @ \ {t} ELSE @ \cup {t}]
          /\ Governance /\ UNCHANGED gone
    BY Zenon DEF SetSendEnabled
  <1>2. st' \in Store
    BY <1>0, <1>1, Zenon DEF Store
  <1>3. /\ st'.coins = st.coins /\ st'.supply = st.supply /\ st'.tokens = st.tokens
        /\ st'.code = st.code /\ st'.meta = st.meta /\ st'.pairs = st.pairs
    BY <1>0, <1>1, Zenon DEF Store
  <1> QED
    BY <1>1, <1>2, <1>3, SettingIInv, Zenon DEF Governance, Registered

\* A transfer by message.
LEMMA TransferStep ==
  ASSUME IInv,
         MsgTransfer
  PROVE  IInv'
  <1>0. st \in Store /\ packets \subseteq Packet /\ seq \in Nat
    BY Zenon DEF IInv
  <1>a. Users \subseteq Others /\ Others \subseteq Holders /\ Module \in Holders
    BY Parties, Zenon
  <1>1. PICK t \in Tokens, sender \in Users : \E amt \in Amounts[t] :
          /\ Commit(SendTransfer(st, t, amt, sender))
          /\ Sent(t, amt, sender) /\ UNCHANGED deleted
    BY Zenon DEF MsgTransfer
  <1>2. PICK amt \in Amounts[t] :
          /\ Commit(SendTransfer(st, t, amt, sender))
          /\ Sent(t, amt, sender) /\ UNCHANGED deleted
    BY <1>1, Zenon
  <1>3. amt \in Nat /\ sender \in Others
    BY <1>a, <1>2, AmountsNat, Zenon
  <1>4. Keeps(st, st')
    BY <1>0, <1>2, <1>3, SendTransferKeeps DEF Commit
  <1> QED
    BY <1>2, <1>3, <1>4, SentPacket, KeepsIInv, Zenon

\* A transfer by the ICS20 precompile.
LEMMA IcsTransferStep ==
  ASSUME IInv,
         IcsPrecompileTransfer
  PROVE  IInv'
  <1>0. st \in Store /\ packets \subseteq Packet /\ seq \in Nat
    BY Zenon DEF IInv
  <1>a. Users \subseteq Others /\ Others \subseteq Holders /\ Module \in Holders
    BY Parties, Zenon
  <1>1. PICK t \in Tokens, sender \in Callers : \E amt \in Amounts[t], o \in OutcomesOf(t) :
          /\ Commit(transferWithStateDB(st, t, amt, sender, o))
          /\ Sent(t, amt, sender) /\ NoteDeleted
    BY Zenon DEF IcsPrecompileTransfer
  <1>2. PICK amt \in Amounts[t], o \in OutcomesOf(t) :
          /\ Commit(transferWithStateDB(st, t, amt, sender, o))
          /\ Sent(t, amt, sender) /\ NoteDeleted
    BY <1>1, Zenon
  <1>3. amt \in Nat /\ sender \in Users /\ sender \in Others
    BY <1>a, <1>2, AmountsNat, Zenon DEF Callers
  <1>4. Keeps(st, st')
    BY <1>0, <1>2, <1>3, TransferWithStateDBKeeps DEF Commit
  <1> QED
    BY <1>2, <1>3, <1>4, SentPacket, KeepsIInv, Zenon

\* The other chain takes a packet.
LEMMA DeliveredStep ==
  ASSUME IInv,
         Delivered
  PROVE  IInv'
  <1>0. st \in Store /\ packets \subseteq Packet /\ seq \in Nat
    BY Zenon DEF IInv
  <1>1. PICK p \in packets :
          /\ packets' = (packets \ {p}) \cup {[p EXCEPT !.received = TRUE]}
          /\ UNCHANGED <<st, seq, events, donated, gone, deleted>>
    BY Zenon DEF Delivered
  <1>2. [p EXCEPT !.received = TRUE] \in Packet
    BY <1>0, <1>1, Zenon DEF Packet
  <1>3. Keeps(st, st')
    BY <1>0, <1>1, KeepsSelf, Zenon
  <1> QED
    BY <1>0, <1>1, <1>2, <1>3, KeepsIInv, Zenon

\* A packet ends well.
LEMMA AcknowledgeStep ==
  ASSUME IInv,
         AcknowledgeSuccess
  PROVE  IInv'
  <1>0. st \in Store /\ packets \subseteq Packet /\ seq \in Nat
    BY Zenon DEF IInv
  <1>1. /\ packets' \subseteq packets
        /\ UNCHANGED <<st, away, seq, events, donated, gone, deleted>>
    BY Zenon DEF AcknowledgeSuccess
  <1>2. Keeps(st, st')
    BY <1>0, <1>1, KeepsSelf, Zenon
  <1> QED
    BY <1>0, <1>1, <1>2, KeepsIInv, Zenon

\* A packet is refunded and converted back, with what a failed conversion wrote.
LEMMA RefundStep ==
  ASSUME IInv,
         \E p \in packets : \E o \in OutcomesOf(p.token) : Refund(p, o)
  PROVE  IInv'
  <1>0. st \in Store /\ packets \subseteq Packet /\ seq \in Nat
    BY Zenon DEF IInv
  <1>a. Users \subseteq Others /\ Others \subseteq Holders /\ Module \in Holders
    BY Parties, Zenon
  <1>1. PICK p \in packets : \E o \in OutcomesOf(p.token) : Refund(p, o)
    BY Zenon
  <1>o. PICK o \in OutcomesOf(p.token) : Refund(p, o)
    BY <1>1, Zenon
  <1>2. p.token \in Tokens /\ p.amt \in Nat /\ p.sender \in Others
    BY <1>0, <1>a, Zenon DEF Packet
  <1> DEFINE s == ReleaseTransfer(st, p.token, p.amt, p.sender)
  <1>3. Keeps(st, s)
    BY <1>0, <1>2, ReleaseTransferKeeps
  <1>4. st' = ConvertCoinToERC20FromPacket(s, p.token, p.amt, p.sender, o)
    BY <1>o, Zenon DEF Refund
  <1> HIDE DEF s
  <1>5. Keeps(s, st')
    <2>1. s \in Store
      BY <1>3, KeepsStore, Zenon
    <2> QED
      BY <1>2, <1>4, <2>1, RefundKeeps, Zenon
  <1>6. Keeps(st, st')
    BY <1>3, <1>5, KeepsTrans, Zenon
  <1>7. /\ packets' \subseteq packets
        /\ seq' = seq /\ donated' = donated /\ gone' = gone /\ deleted' = deleted
    BY <1>o, Zenon DEF Refund
  <1> QED
    BY <1>0, <1>6, <1>7, KeepsIInv, Zenon

\* A packet arrives.
LEMMA RecvStep ==
  ASSUME IInv,
         RecvPacket
  PROVE  IInv'
  <1>0. st \in Store /\ packets \subseteq Packet /\ seq \in Nat
    BY Zenon DEF IInv
  <1>a. Users \subseteq Others /\ Others \subseteq Holders /\ Module \in Holders
    BY Parties, Zenon
  <1>1. PICK t \in Tokens, receiver \in Users \cup {Isolated} :
          \E amt \in Amounts[t], o \in OutcomesOf(t) :
            /\ Incoming(t, amt)
            /\ Commit(OnRecvPacket(ReleaseTransfer(st, t, amt, receiver), t, amt, receiver, o))
            /\ UNCHANGED <<packets, events, donated, gone, deleted>>
    BY Zenon DEF RecvPacket
  <1>2. PICK amt \in Amounts[t], o \in OutcomesOf(t) :
            /\ Incoming(t, amt)
            /\ Commit(OnRecvPacket(ReleaseTransfer(st, t, amt, receiver), t, amt, receiver, o))
            /\ UNCHANGED <<packets, events, donated, gone, deleted>>
    BY <1>1, Zenon
  <1>3. amt \in Nat /\ receiver \in Others
    BY <1>a, <1>2, AmountsNat, Parties, Zenon
  <1> DEFINE s == ReleaseTransfer(st, t, amt, receiver)
  <1>4. Keeps(st, s)
    BY <1>0, <1>3, ReleaseTransferKeeps
  <1>5. st' = OnRecvPacket(s, t, amt, receiver, o).st
    BY <1>2, Zenon DEF Commit
  <1> HIDE DEF s
  <1>6. Keeps(s, st')
    <2>1. s \in Store
      BY <1>4, KeepsStore, Zenon
    <2> QED
      BY <1>3, <1>5, <2>1, OnRecvPacketKeeps, Zenon
  <1>7. Keeps(st, st') /\ seq' \in Nat
    BY <1>0, <1>2, <1>4, <1>6, KeepsTrans DEF Incoming
  <1> QED
    BY <1>0, <1>2, <1>7, KeepsIInv, Zenon

\* A packet arrives with a callback.
LEMMA CallbackStep ==
  ASSUME IInv,
         \E t \in Tokens : \E amt \in Amounts[t], o \in OutcomesOf(t) : \E taken \in 0 .. amt : RecvPacketWithCallback(t, amt, taken, o)
  PROVE  IInv'
  <1>0. st \in Store /\ packets \subseteq Packet /\ seq \in Nat
    BY Zenon DEF IInv
  <1>1. PICK t \in Tokens : \E amt \in Amounts[t], o \in OutcomesOf(t) :
               \E taken \in 0 .. amt : RecvPacketWithCallback(t, amt, taken, o)
    BY Zenon
  <1>2. PICK amt \in Amounts[t], o \in OutcomesOf(t) :
               \E taken \in 0 .. amt : RecvPacketWithCallback(t, amt, taken, o)
    BY <1>1, Zenon
  <1>3. PICK taken \in 0 .. amt : RecvPacketWithCallback(t, amt, taken, o)
    BY <1>2, Zenon
  <1>4. amt \in Nat /\ taken \in Int /\ Isolated \in Others
    BY <1>2, AmountsNat, Parties
  <1> DEFINE s == ReleaseTransfer(st, t, amt, Isolated)
             r == OnRecvPacket(s, t, amt, Isolated, o)
  <1>5. /\ st' = IBCReceivePacketCallback(r.st, t, amt, taken).st
        /\ Incoming(t, amt)
        /\ UNCHANGED <<packets, events, donated, gone, deleted>>
    BY <1>3, Zenon DEF RecvPacketWithCallback, Commit
  <1>6. Keeps(st, s)
    BY <1>0, <1>4, ReleaseTransferKeeps
  <1> HIDE DEF s
  <1>7. Keeps(s, r.st)
    <2>1. s \in Store
      BY <1>6, KeepsStore, Zenon
    <2> QED
      BY <1>4, <2>1, OnRecvPacketKeeps, Zenon
  <1> HIDE DEF r
  <1>8. Keeps(r.st, st')
    <2>1. r.st \in Store
      BY <1>7, KeepsStore, Zenon
    <2> QED
      BY <1>4, <1>5, <2>1, CallbackKeeps, Zenon
  <1>9. Keeps(st, st') /\ seq' \in Nat
    BY <1>0, <1>5, <1>6, <1>7, <1>8, KeepsTrans DEF Incoming
  <1> QED
    BY <1>0, <1>5, <1>9, KeepsIInv, Zenon

\* A call of the ERC20 precompile.
LEMMA PrecompileStep ==
  ASSUME IInv,
         Precompile
  PROVE  IInv'
  <1>0. st \in Store /\ packets \subseteq Packet /\ seq \in Nat
    BY Zenon DEF IInv
  <1>a. Users \subseteq Others /\ Others \subseteq Holders /\ Module \in Holders
    BY Parties, Zenon
  <1>b. Contracts \subseteq Tokens /\ Vouchers \subseteq Tokens
    BY Zenon DEF Tokens
  <1>1. UNCHANGED <<packets, away, seq, events, donated, gone, deleted>>
    BY Zenon DEF Precompile
  <1>2. PICK t \in Vouchers, caller \in Callers, other \in Users :
          \E amt \in Amounts[t] \cup {0} :
            \/ Commit(setAllowance(st, t, caller, other, amt))
            \/ Commit(PrecompileSend(st, t, caller, other, amt))
            \/ \E to \in Users : Commit(PrecompileTransferFrom(st, t, caller, other, to, amt))
    BY Zenon DEF Precompile
  <1>3. PICK amt \in Amounts[t] \cup {0} :
            \/ Commit(setAllowance(st, t, caller, other, amt))
            \/ Commit(PrecompileSend(st, t, caller, other, amt))
            \/ \E to \in Users : Commit(PrecompileTransferFrom(st, t, caller, other, to, amt))
    BY <1>2, Zenon
  <1>4. /\ t \in Tokens /\ amt \in Int /\ caller \in Others /\ other \in Others
        /\ <<other, caller>> \in Grants
    BY <1>a, <1>b, <1>3, AmountsNat DEF Callers, Grants
  <1>5. CASE Commit(setAllowance(st, t, caller, other, amt))
    BY <1>0, <1>1, <1>4, <1>5, AllowanceKeeps, KeepsIInv, Zenon DEF Commit
  <1>6. CASE Commit(PrecompileSend(st, t, caller, other, amt))
    BY <1>0, <1>1, <1>4, <1>6, PrecompileSendKeeps, KeepsIInv, Zenon DEF Commit
  <1>7. CASE \E to \in Users : Commit(PrecompileTransferFrom(st, t, caller, other, to, amt))
    BY <1>0, <1>a, <1>1, <1>4, <1>7, TransferFromKeeps, KeepsIInv, Zenon DEF Commit
  <1> QED
    BY <1>3, <1>5, <1>6, <1>7, Zenon

\* A holder calls the contract; what reaches the module is counted as given.
LEMMA TokenSendStep ==
  ASSUME IInv,
         TokenSend
  PROVE  IInv'
  <1>0. st \in Store /\ packets \subseteq Packet /\ seq \in Nat
    BY Zenon DEF IInv
  <1>a. Users \subseteq Others /\ Others \subseteq Holders /\ Module \in Holders
    BY Parties, Zenon
  <1>b. Contracts \subseteq Tokens /\ Vouchers \subseteq Tokens
    BY Zenon DEF Tokens
  <1>1. PICK t \in Contracts, from \in Callers, to \in Callers \cup {Module} :
          \E amt \in Amounts[t] :
            /\ st' = TokenTransfer(st, t, from, to, amt, "ok")
            /\ donated' = IF to = Module THEN [donated EXCEPT ![t] = @ + amt] ELSE donated
            /\ UNCHANGED <<packets, away, seq, events, gone, deleted>>
    BY Zenon DEF TokenSend
  <1>2. PICK amt \in Amounts[t] :
            /\ st' = TokenTransfer(st, t, from, to, amt, "ok")
            /\ donated' = IF to = Module THEN [donated EXCEPT ![t] = @ + amt] ELSE donated
            /\ UNCHANGED <<packets, away, seq, events, gone, deleted>>
    BY <1>1, Zenon
  <1>3. amt \in Int /\ from \in Others /\ from # Module
    BY <1>a, <1>b, <1>2, AmountsNat, Parties DEF Callers
  <1>4. CASE to # Module
    <2>1. to \in Others
      BY <1>a, <1>4, Zenon DEF Callers
    <2>2. Keeps(st, st')
      BY <1>0, <1>2, <1>3, <2>1, TokenKeeps, Zenon
    <2> QED
      BY <1>0, <1>2, <1>4, <2>2, KeepsIInv, Zenon
  <1>5. CASE to = Module
    <2>1. /\ st' \in Store /\ SameRest(st, st')
          /\ st'.supply = st.supply /\ st'.coins = st.coins
          /\ \A u \in Contracts : u # t => st'.tokens[u] = st.tokens[u]
          /\ st'.tokens[t][Module] = st.tokens[t][Module] + amt
      <3>1. st' = TokenTransfer(st, t, from, Module, amt, "ok")
        BY <1>2, <1>5, Zenon
      <3>2. from \in Holders /\ Module \in Holders
        BY <1>a, <1>3, Zenon
      <3> QED
        BY <1>0, <1>3, <3>1, <3>2, TokenTransferEffect, SMTT(30)
    <2>2. /\ donated' \in [Contracts -> Int] /\ donated'[t] = donated[t] + amt
          /\ \A u \in Contracts : u # t => donated'[u] = donated[u]
      <3>1. donated' = [donated EXCEPT ![t] = donated[t] + amt]
        BY <1>2, <1>5, Zenon
      <3>2. donated \in [Contracts -> Int]
        BY Zenon DEF IInv
      <3> QED
        BY <1>3, <3>1, <3>2
    <2>3. Backed'
      <3> SUFFICES ASSUME NEW u \in Contracts \ gone'
                   PROVE  Covered(st', u, donated'[u])
        BY Zenon DEF Backed, Covered
      <3>1. Covered(st, u, donated[u]) /\ gone' = gone
        BY <1>2, Zenon DEF IInv, Backed, Covered
      <3>2. CASE u = t
        <4>1. /\ st.supply[t] \in Int /\ st.coins[t][Module] \in Int
              /\ st.tokens[t][Module] \in Int /\ donated[t] \in Int
          BY <1>0, <1>a, <1>b DEF IInv, Store
        <4> QED
          BY <1>3, <2>1, <2>2, <3>1, <3>2, <4>1 DEF Covered
      <3>3. CASE u # t
        BY <2>1, <2>2, <3>1, <3>3, Zenon DEF Covered
      <3> QED
        BY <3>2, <3>3, Zenon
    <2>4. DeletedForGood' /\ deleted' \subseteq st'.meta
      BY <1>2, <2>1, Zenon DEF IInv, DeletedForGood, Registered, SameRest
    <2> QED
      BY <1>2, <2>1, <2>2, <2>3, <2>4, Zenon DEF IInv, Registered, SameRest
  <1> QED
    BY <1>4, <1>5, Zenon

\* A contract is destroyed or created again: Backed stops speaking of it.
LEMMA CodeStep ==
  ASSUME IInv,
         SelfDestruct \/ Redeploy
  PROVE  IInv'
  <1>0. st \in Store /\ packets \subseteq Packet /\ seq \in Nat
    BY Zenon DEF IInv
  <1>b. Contracts \subseteq Tokens /\ Vouchers \subseteq Tokens
    BY Zenon DEF Tokens
  <1>1. PICK t \in Contracts : \E f \in [Holders -> Int], c \in {st.code \ {t}, st.code \cup {t}} :
          /\ st' = [st EXCEPT !.code = c, !.tokens[t] = f]
          /\ gone' = gone \cup {t}
          /\ Governance
    <2>1. CASE SelfDestruct
      <3>1. [a \in Holders |-> 0] \in [Holders -> Int]
        OBVIOUS
      <3>2. PICK t \in Contracts :
              /\ st' = [st EXCEPT !.code = st.code \ {t}, !.tokens[t] = [a \in Holders |-> 0]]
              /\ gone' = gone \cup {t}
              /\ Governance
        BY <2>1, Zenon DEF SelfDestruct
      <3> QED
        BY <3>1, <3>2, Zenon
    <2>2. CASE Redeploy
      <3>1. [a \in Holders |-> IF a \in Users THEN InitialTokens[a] ELSE 0] \in [Holders -> Int]
        BY ConstantsAssumption
      <3>2. \A t \in Contracts : t \notin st.code => gone \cup {t} = gone
        BY Zenon DEF IInv
      <3> QED
        BY <2>2, <3>1, <3>2, Zenon DEF Redeploy
    <2> QED
      BY <2>1, <2>2, Zenon
  <1>2. PICK f \in [Holders -> Int], c \in {st.code \ {t}, st.code \cup {t}} :
          /\ st' = [st EXCEPT !.code = c, !.tokens[t] = f]
          /\ gone' = gone \cup {t}
          /\ Governance
    BY <1>1, Zenon
  <1>3. /\ c \subseteq Tokens /\ \A u \in Contracts : u # t /\ u \notin c => u \notin st.code
    BY <1>0, <1>b, <1>2, Zenon DEF Store
  <1>4. st' \in Store
    BY <1>0, <1>2, <1>3, Zenon DEF Store
  <1>5. /\ st'.pairs = st.pairs /\ st'.meta = st.meta /\ st'.coins = st.coins
        /\ st'.supply = st.supply /\ st'.code = c
        /\ \A u \in Contracts : u # t => st'.tokens[u] = st.tokens[u]
    BY <1>0, <1>2, Zenon DEF Store
  <1>6. UNCHANGED <<packets, seq, donated, deleted>>
    BY <1>2, Zenon DEF Governance
  <1>7. Backed'
    BY <1>2, <1>5, <1>6, Zenon DEF IInv, Backed
  <1>8. \A u \in Contracts : u \notin st'.code => u \in gone'
    BY <1>2, <1>3, <1>5, Zenon DEF IInv
  <1>9. DeletedForGood' /\ deleted' \subseteq st'.meta
    BY <1>5, <1>6, Zenon DEF IInv, DeletedForGood, Registered
  <1> QED
    BY <1>4, <1>5, <1>6, <1>7, <1>8, <1>9, Zenon DEF IInv, Registered

\* Nothing happens.
LEMMA StutterStep ==
  ASSUME IInv,
         UNCHANGED vars
  PROVE  IInv'
  <1>0. st \in Store /\ packets \subseteq Packet /\ seq \in Nat
    BY Zenon DEF IInv
  <1>1. Keeps(st, st')
    BY <1>0, KeepsSelf, Zenon DEF vars
  <1> QED
    BY <1>0, <1>1, KeepsIInv, Zenon DEF vars

\* One lemma per action.
LEMMA StepIInv == IInv /\ [Next]_vars => IInv'
  BY ConvertERC20Step, ConvertCoinStep, RegisterStep, ToggleStep, ParamsStep,
     SendEnabledStep, TransferStep, IcsTransferStep, DeliveredStep, AcknowledgeStep,
     RefundStep, RecvStep, CallbackStep, PrecompileStep, TokenSendStep, CodeStep,
     StutterStep, Zenon, Zenon DEF Next

\* For every set of users, contracts and vouchers, the coins of a native ERC20
\* outside the module account are covered by the tokens it escrows, and no
\* token is escrowed for no coin, whatever the contracts' transfer does and
\* wherever a conversion stops (ConvertERC20, ConvertCoin, the refund).
THEOREM AlwaysBacked == Spec => []Backed
  <1>1. IInv => Backed
    BY Zenon DEF IInv
  <1> QED
    BY InitIInv, StepIInv, <1>1, PTL DEF Spec

\* For every set of contracts, a pair deleted because its contract had no code
\* is never registered again: registerERC20 finds the metadata left behind.
THEOREM NeverReregistered == Spec => []DeletedForGood
  <1>1. IInv => DeletedForGood
    BY Zenon DEF IInv
  <1> QED
    BY InitIInv, StepIInv, <1>1, PTL DEF Spec

(***************************************************************************)
(* Coins come to rest with the module account only by a failed refund.     *)
(***************************************************************************)
\* A step that leaves the module's coins alone is one the property allows.
LEMMA PassesStep == Passes(st, st') => PassesThrough
  BY Zenon DEF Passes, PassesThrough

\* The messages and precompiles that carry no packet back.
LEMMA MessagesPass ==
  ASSUME IInv, MsgConvertERC20 \/ MsgConvertCoin \/ MsgTransfer \/ IcsPrecompileTransfer
  PROVE  Passes(st, st')
  <1>0. /\ st \in Store /\ Users \subseteq Others /\ Others \subseteq Holders
        /\ Module \in Holders /\ Contracts \subseteq Tokens /\ Callers \subseteq Users
    BY Parties, Zenon DEF IInv, Tokens, Callers
  <1>1. CASE MsgConvertERC20
    <2>1. PICK t \in Contracts, sender \in Users, receiver \in Users \cup {Module} :
            \E amt \in Amounts[t], o \in OutcomesOf(t) :
              Commit(ConvertERC20IntoCoinsForNativeToken(st, t, amt, receiver, sender, o))
      BY <1>1, Zenon DEF MsgConvertERC20
    <2>2. PICK amt \in Amounts[t], o \in OutcomesOf(t) :
              Commit(ConvertERC20IntoCoinsForNativeToken(st, t, amt, receiver, sender, o))
      BY <2>1, Zenon
    <2>3. /\ t \in Tokens /\ amt \in Int /\ receiver \in Holders /\ sender \in Others
      BY <1>0, <2>2, AmountsNat
    <2> QED
      BY <1>0, <2>2, <2>3, ConvertERC20Passes, Zenon DEF Commit
  <1>2. CASE MsgConvertCoin
    <2>1. PICK t \in Contracts, sender \in Users, receiver \in Users \cup {Module} :
            \E amt \in Amounts[t], o \in OutcomesOf(t) :
              Commit(ConvertCoin(st, t, amt, receiver, sender, o))
      BY <1>2, Zenon DEF MsgConvertCoin
    <2>2. PICK amt \in Amounts[t], o \in OutcomesOf(t) :
              Commit(ConvertCoin(st, t, amt, receiver, sender, o))
      BY <2>1, Zenon
    <2> DEFINE n == ConvertCoinNativeERC20(st, t, amt, receiver, sender, o)
    <2>3. \/ st' = DeleteTokenPair(st, t)
          \/ receiver # Module /\ ~n.err /\ st' = n.st
      BY <2>2, Zenon DEF Commit, ConvertCoin, MintingEnabled, Ok, Fail
    <2>4. /\ t \in Tokens /\ amt \in Nat /\ sender \in Others
          /\ receiver # Module => receiver \in Others
      BY <1>0, <2>2, AmountsNat, Zenon
    <2>5. receiver # Module => (~n.err => Passes(st, n.st))
      BY <1>0, <2>4, ConvertCoinNativePasses, Zenon
    <2> HIDE DEF n
    <2> QED
      BY <1>0, <2>3, <2>4, <2>5, DeletePasses, Zenon
  <1>3. CASE MsgTransfer
    <2>1. PICK t \in Tokens, sender \in Users : \E amt \in Amounts[t] :
            Commit(SendTransfer(st, t, amt, sender))
      BY <1>3, Zenon DEF MsgTransfer
    <2>2. PICK amt \in Amounts[t] : Commit(SendTransfer(st, t, amt, sender))
      BY <2>1, Zenon
    <2>3. amt \in Int /\ sender \in Others
      BY <1>0, <2>2, AmountsNat
    <2> QED
      BY <1>0, <2>2, <2>3, TransferPasses, Zenon DEF Commit
  <1>4. CASE IcsPrecompileTransfer
    <2>1. PICK t \in Tokens, sender \in Callers : \E amt \in Amounts[t], o \in OutcomesOf(t) :
            Commit(transferWithStateDB(st, t, amt, sender, o))
      BY <1>4, Zenon DEF IcsPrecompileTransfer
    <2>2. PICK amt \in Amounts[t], o \in OutcomesOf(t) :
            Commit(transferWithStateDB(st, t, amt, sender, o))
      BY <2>1, Zenon
    <2>3. amt \in Int /\ sender \in Others
      BY <1>0, <2>2, AmountsNat
    <2> QED
      BY <1>0, <2>2, <2>3, TransferWithStateDBPasses, Zenon DEF Commit
  <1> QED
    BY <1>1, <1>2, <1>3, <1>4, Zenon

\* A packet received, with or without a callback: an error reverts it whole.
LEMMA ReceivedPasses ==
  ASSUME IInv,
         RecvPacket \/ \E t \in Tokens : \E amt \in Amounts[t], o \in OutcomesOf(t) :
                          \E taken \in 0 .. amt : RecvPacketWithCallback(t, amt, taken, o)
  PROVE  Passes(st, st')
  <1>0. st \in Store /\ Users \subseteq Others /\ Isolated \in Others
    BY Parties, Zenon DEF IInv
  <1>1. ASSUME NEW t \in Tokens, NEW amt \in Nat, NEW receiver \in Others, NEW o
        PROVE  LET r == OnRecvPacket(ReleaseTransfer(st, t, amt, receiver), t, amt, receiver, o)
               IN  r.st \in Store /\ (~r.err => Passes(st, r.st))
    <2> DEFINE s == ReleaseTransfer(st, t, amt, receiver)
    <2>1. Keeps(st, s) /\ Passes(st, s)
      BY <1>0, ReleaseTransferKeeps, TransferPasses
    <2> HIDE DEF s
    <2> DEFINE r == OnRecvPacket(s, t, amt, receiver, o)
    <2>2. s \in Store
      BY <2>1, KeepsStore, Zenon
    <2>3. r.st \in Store
      BY <2>2, OnRecvPacketKeeps, KeepsStore, Zenon
    <2>4. ~r.err => Passes(s, r.st)
      BY <2>2, OnRecvPacketPasses, Zenon
    <2> HIDE DEF r
    <2>5. r.st \in Store /\ (~r.err => Passes(st, r.st))
      BY <2>1, <2>3, <2>4, PassesTrans, Zenon
    <2> QED
      BY <2>5, Zenon DEF r, s
  <1>2. CASE RecvPacket
    <2>1. PICK t \in Tokens, receiver \in Users \cup {Isolated} :
            \E amt \in Amounts[t], o \in OutcomesOf(t) :
              Commit(OnRecvPacket(ReleaseTransfer(st, t, amt, receiver), t, amt, receiver, o))
      BY <1>2, Zenon DEF RecvPacket
    <2>2. PICK amt \in Amounts[t], o \in OutcomesOf(t) :
              Commit(OnRecvPacket(ReleaseTransfer(st, t, amt, receiver), t, amt, receiver, o))
      BY <2>1, Zenon
    <2>3. amt \in Nat /\ receiver \in Others
      BY <1>0, <2>2, AmountsNat, Zenon
    <2> QED
      BY <1>1, <2>2, <2>3, Zenon DEF Commit
  <1>3. CASE \E t \in Tokens : \E amt \in Amounts[t], o \in OutcomesOf(t) :
                \E taken \in 0 .. amt : RecvPacketWithCallback(t, amt, taken, o)
    <2>1. PICK t \in Tokens : \E amt \in Amounts[t], o \in OutcomesOf(t) :
                \E taken \in 0 .. amt : RecvPacketWithCallback(t, amt, taken, o)
      BY <1>3, Zenon
    <2>2. PICK amt \in Amounts[t], o \in OutcomesOf(t) :
                \E taken \in 0 .. amt : RecvPacketWithCallback(t, amt, taken, o)
      BY <2>1, Zenon
    <2>3. PICK taken \in 0 .. amt : RecvPacketWithCallback(t, amt, taken, o)
      BY <2>2, Zenon
    <2>4. amt \in Nat /\ taken \in Int
      BY <2>2, AmountsNat
    <2> DEFINE r == OnRecvPacket(ReleaseTransfer(st, t, amt, Isolated), t, amt, Isolated, o)
    <2>5. r.st \in Store /\ (~r.err => Passes(st, r.st))
      BY <1>0, <1>1, <2>4, Zenon
    <2>6. ~r.err /\ st' = IBCReceivePacketCallback(r.st, t, amt, taken).st
      BY <2>3, Zenon DEF RecvPacketWithCallback, Commit
    <2> HIDE DEF r
    <2>7. Passes(r.st, st')
      BY <2>4, <2>5, <2>6, CallbackPasses, Zenon
    <2> QED
      BY <2>5, <2>6, <2>7, PassesTrans, Zenon
  <1> QED
    BY <1>2, <1>3, Zenon

\* Calls of the ERC20 precompile and of the contracts by their holders.
LEMMA CallsPass ==
  ASSUME IInv, Precompile \/ TokenSend
  PROVE  Passes(st, st')
  <1>0. /\ st \in Store /\ Users \subseteq Others /\ Others \subseteq Holders
        /\ Module \in Holders /\ Module \notin Others
        /\ Contracts \subseteq Tokens /\ Vouchers \subseteq Tokens /\ Callers \subseteq Users
    BY Parties, Zenon DEF IInv, Tokens, Callers
  <1>1. CASE Precompile
    <2>2. PICK t \in Vouchers, caller \in Callers, other \in Users :
            \E amt \in Amounts[t] \cup {0} :
              \/ Commit(setAllowance(st, t, caller, other, amt))
              \/ Commit(PrecompileSend(st, t, caller, other, amt))
              \/ \E to \in Users : Commit(PrecompileTransferFrom(st, t, caller, other, to, amt))
      BY <1>1, Zenon DEF Precompile
    <2>3. PICK amt \in Amounts[t] \cup {0} :
              \/ Commit(setAllowance(st, t, caller, other, amt))
              \/ Commit(PrecompileSend(st, t, caller, other, amt))
              \/ \E to \in Users : Commit(PrecompileTransferFrom(st, t, caller, other, to, amt))
      BY <2>2, Zenon
    <2>4. /\ t \in Tokens /\ amt \in Int /\ caller \in Others /\ other \in Others
          /\ <<other, caller>> \in Grants
      BY <1>0, <2>3, AmountsNat DEF Grants
    <2>5. CASE Commit(setAllowance(st, t, caller, other, amt))
      BY <1>0, <2>4, <2>5, PrecompilePasses, Zenon DEF Commit
    <2>6. CASE Commit(PrecompileSend(st, t, caller, other, amt))
      BY <1>0, <2>4, <2>6, PrecompilePasses, Zenon DEF Commit
    <2>7. CASE \E to \in Users : Commit(PrecompileTransferFrom(st, t, caller, other, to, amt))
      BY <1>0, <2>4, <2>7, TransferFromPasses DEF Commit
    <2> QED
      BY <2>3, <2>5, <2>6, <2>7, Zenon
  <1>2. CASE TokenSend
    <2>1. PICK t \in Contracts, from \in Callers, to \in Callers \cup {Module} :
            \E amt \in Amounts[t] : st' = TokenTransfer(st, t, from, to, amt, "ok")
      BY <1>2, Zenon DEF TokenSend
    <2>2. PICK amt \in Amounts[t] : st' = TokenTransfer(st, t, from, to, amt, "ok")
      BY <2>1, Zenon
    <2>3. amt \in Int /\ from \in Holders /\ to \in Holders /\ from # Module
      BY <1>0, <2>2, AmountsNat
    <2> QED
      BY <1>0, <2>2, <2>3, TokenPasses, Zenon
  <1> QED
    BY <1>1, <1>2, Zenon

\* What touches no balance.
LEMMA SettingsPass ==
  ASSUME IInv,
         \/ RegisterERC20 \/ ToggleConversion \/ UpdateParams \/ SetSendEnabled
         \/ Delivered \/ AcknowledgeSuccess \/ SelfDestruct \/ Redeploy \/ UNCHANGED vars
  PROVE  Passes(st, st')
  <1>0. st \in Store
    BY Zenon DEF IInv
  <1>1. CASE RegisterERC20
    <2>1. PICK t \in Contracts : Commit(registerERC20(st, t))
      BY <1>1, Zenon DEF RegisterERC20
    <2>2. st' = st \/ st' = [st EXCEPT !.pairs[t] = "enabled", !.meta = @ \cup {t}]
      BY <2>1, Zenon DEF Commit, registerERC20, Ok, Fail
    <2> QED
      BY <1>0, <2>2, Zenon DEF Store, Passes
  <1>2. CASE ToggleConversion
    BY <1>0, <1>2, Zenon DEF ToggleConversion, Commit, toggleConversion, Ok, Fail, Store, Passes
  <1>3. CASE UpdateParams \/ SetSendEnabled
    BY <1>0, <1>3, Zenon DEF UpdateParams, SetSendEnabled, Store, Passes
  <1>4. CASE Delivered \/ AcknowledgeSuccess \/ UNCHANGED vars
    BY <1>4, Zenon DEF Delivered, AcknowledgeSuccess, vars, Passes
  <1>5. CASE SelfDestruct \/ Redeploy
    BY <1>0, <1>5, Zenon DEF SelfDestruct, Redeploy, Store, Passes
  <1> QED
    BY <1>1, <1>2, <1>3, <1>4, <1>5, Zenon

\* A refund leaves at most the amount of its own packet.
LEMMA RefundPasses ==
  ASSUME IInv, NEW p \in packets, NEW o, Refund(p, o)
  PROVE  PassesThrough
  <1>0. st \in Store /\ Users \subseteq Others /\ packets \subseteq Packet
    BY Parties, Zenon DEF IInv
  <1>1. p.token \in Tokens /\ p.amt \in Nat /\ p.sender \in Others
    BY <1>0, Zenon DEF Packet
  <1> DEFINE s == ReleaseTransfer(st, p.token, p.amt, p.sender)
             n == ConvertCoinNativeERC20(s, p.token, p.amt, p.sender, p.sender, o)
  <1>2. Passes(st, s) /\ Keeps(st, s)
    BY <1>0, <1>1, ReleaseTransferKeeps, TransferPasses
  <1>3. ~p.received /\ packets' = packets \ {p}
    BY Zenon DEF Refund
  <1>a. st' = ConvertCoinToERC20FromPacket(s, p.token, p.amt, p.sender, o)
    BY Zenon DEF Refund
  <1> HIDE DEF s
  <1>4. \/ st' = s
        \/ p.token \in Contracts /\ st' = n.st
    BY <1>1, <1>a, Zenon DEF ConvertCoinToERC20FromPacket, Tokens
  <1>5. s \in Store
    BY <1>2, KeepsStore, Zenon
  <1>6. p.token \in Contracts =>
          /\ \A u \in Tokens : u # p.token => n.st.coins[u][Module] = s.coins[u][Module]
          /\ \/ n.st.coins[p.token][Module] = s.coins[p.token][Module]
             \/ n.st.coins[p.token][Module] = s.coins[p.token][Module] + p.amt
    BY <1>1, <1>5, ConvertCoinNativePasses
  <1> HIDE DEF n
  <1>7. CASE st' = s
    BY <1>2, <1>7, PassesStep, Zenon
  <1>8. CASE p.token \in Contracts /\ st' = n.st
    <2> SUFFICES ASSUME NEW t \in Tokens, st'.coins[t][Module] # st.coins[t][Module]
                 PROVE  \E q \in packets \ packets' :
                          /\ q.token = t /\ ~q.received
                          /\ st'.coins[t][Module] = st.coins[t][Module] + q.amt
      BY Zenon DEF PassesThrough
    <2>1. s.coins[t][Module] = st.coins[t][Module]
      BY <1>2, Zenon DEF Passes
    <2>2. p.token = t /\ st'.coins[t][Module] = st.coins[t][Module] + p.amt
      BY <1>6, <1>8, <2>1, Zenon
    <2>3. p \in packets \ packets'
      BY <1>3, Zenon
    <2> QED
      BY <1>3, <2>2, <2>3, Zenon
  <1> QED
    BY <1>4, <1>7, <1>8, Zenon

\* For every set of users, contracts and vouchers, the coins of the module
\* account change only when the conversion of a refunded packet fails after
\* the escrow, by the packet's amount, and never go down.
THEOREM OnlyRefundsStay == Spec => OnlyFailedRefundsStay
  <1>1. IInv /\ [Next]_vars => [PassesThrough]_vars
    <2> SUFFICES ASSUME IInv, Next PROVE PassesThrough
      BY Zenon
    <2>1. CASE \E p \in packets : \E o \in OutcomesOf(p.token) : Refund(p, o)
      BY <2>1, RefundPasses, Zenon
    <2>2. CASE Passes(st, st')
      BY <2>2, PassesStep, Zenon
    <2> QED
      BY <2>1, <2>2, MessagesPass, ReceivedPasses, CallsPass, SettingsPass, Zenon DEF Next
  <1> QED
    BY InitIInv, StepIInv, <1>1, PTL DEF Spec, OnlyFailedRefundsStay
=============================================================================
