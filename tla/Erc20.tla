------------------------------- MODULE Erc20 -------------------------------
(***************************************************************************)
(* The x/erc20 module with everything that calls it: the conversion        *)
(* messages, the registration of token pairs, the IBC middleware, the      *)
(* receive callback of x/ibc/callbacks and the ERC20 and ICS20 precompiles.*)
(*                                                                         *)
(* A token is one pair of the bridge, with its denomination and its        *)
(* contract address: a native ERC20 (Contracts, denomination               *)
(* "erc20:<address>") or an IBC voucher (Vouchers, address derived from    *)
(* the denomination).  The pair store and its two indexes are written      *)
(* together and are one function here.                                     *)
(*                                                                         *)
(* A keeper method is an operator from a store to [st, err]: err says that *)
(* the method returned an error, st what it had written by then.  A failed *)
(* message is discarded by the transaction that carries it; the refund of  *)
(* a packet is the one caller that keeps st whatever err says.             *)
(***************************************************************************)
EXTENDS Integers, FiniteSets

CONSTANTS
    Users,              \* accounts that send messages
    ModuleAccounts,     \* those of them that are module accounts (not blocked),
                        \* whose messages governance sends
    Contracts,          \* native ERC20 contracts
    Vouchers,           \* IBC denominations
    Amounts,            \* amounts of a message, per token
    InitialTokens,      \* tokens a user holds when a contract is created
    MaxPackets,         \* bound: packets sent and vouchers received
    MaxGov              \* bound: governance messages and contract events

Module == "erc20"       \* the account of the module
Escrow == "escrow"      \* the escrow account of the transfer channel
Isolated == "isolated"  \* the address a packet with a callback is sent to
Dapp == "dapp"          \* the contract that a callback calls

Holders == Users \cup {Module, Escrow, Isolated, Dapp}
Tokens == Contracts \cup Vouchers
Callers == Users \ ModuleAccounts      \* who may call a contract
Grants == (Users \cup {Isolated}) \X (Users \cup {Dapp})  \* owner, spender

ASSUME ConstantsAssumption ==
    /\ {Module, Escrow, Isolated, Dapp} \cap Users = {}
    /\ ModuleAccounts \subseteq Users
    /\ Contracts \cap Vouchers = {}
    /\ Amounts \in [Tokens -> SUBSET (Nat \ {0})]
    /\ InitialTokens \in [Users -> Nat]
    /\ MaxPackets \in Nat
    /\ MaxGov \in Nat

VARIABLES
    st,         \* the store: pairs, parameters, bank and contract balances
    packets,    \* packets sent and not yet acknowledged or timed out
    away,       \* coins of a contract that circulate on the other chain
    seq,        \* packets sent or received so far
    events,     \* governance messages and contract events so far
    donated,    \* history: tokens given to the module account by a holder
    gone,       \* history: contracts that were destroyed at least once
    deleted     \* history: contracts whose pair was deleted

vars == <<st, packets, away, seq, events, donated, gone, deleted>>

\* What a contract's transfer may do with a call the caller can afford.
Outcomes == {"ok", "revert", "false", "short"}

\* Only a native ERC20 that exists has a choice.
OutcomesOf(t) == IF t \in Contracts /\ t \in st.code THEN Outcomes ELSE {"ok"}

Pairs == {"none", "enabled", "disabled"}

TypeOK ==
    /\ st \in [pairs : [Tokens -> Pairs], meta : SUBSET Contracts,
               on : BOOLEAN, send : SUBSET Tokens,
               allowance : [Tokens -> [Grants -> Nat]],
               coins : [Tokens -> [Holders -> Nat]], supply : [Tokens -> Nat],
               tokens : [Contracts -> [Holders -> Nat]], code : SUBSET Tokens]
    /\ packets \subseteq [id : Nat, token : Tokens, amt : Nat \ {0},
                          sender : Users, received : BOOLEAN]
    /\ away \in [Contracts -> Nat]
    /\ seq \in 0 .. MaxPackets
    /\ events \in 0 .. MaxGov
    /\ donated \in [Contracts -> Nat]
    /\ gone \subseteq Contracts
    /\ deleted \subseteq Contracts

Init ==
    /\ st = [pairs |-> [t \in Tokens |-> "none"], meta |-> {},
             on |-> TRUE, send |-> Tokens,
             allowance |-> [t \in Tokens |-> [p \in Grants |-> 0]],
             coins |-> [t \in Tokens |-> [a \in Holders |-> 0]],
             supply |-> [t \in Tokens |-> 0],
             tokens |-> [t \in Contracts |->
                           [a \in Holders |-> IF a \in Users THEN InitialTokens[a] ELSE 0]],
             code |-> Contracts]
    /\ packets = {}
    /\ away = [t \in Contracts |-> 0]
    /\ seq = 0
    /\ events = 0
    /\ donated = [t \in Contracts |-> 0]
    /\ gone = {}
    /\ deleted = {}

Ok(s) == [st |-> s, err |-> FALSE]
Fail(s) == [st |-> s, err |-> TRUE]

Moved(f, from, to, amt) == [[f EXCEPT ![from] = @ - amt] EXCEPT ![to] = @ + amt]
MovedShort(f, from, to, amt) == [[f EXCEPT ![from] = @ - amt] EXCEPT ![to] = @ + amt - 1]

-----------------------------------------------------------------------------
\* The bank keeper and the contracts, as the module uses them.

SendCoins(s, t, from, to, amt) == [s EXCEPT !.coins[t] = Moved(@, from, to, amt)]

MintCoins(s, t, to, amt) ==
    [s EXCEPT !.coins[t][to] = @ + amt, !.supply[t] = @ + amt]

BurnCoins(s, t, from, amt) ==
    [s EXCEPT !.coins[t][from] = @ - amt, !.supply[t] = @ - amt]

\* A call of transfer that does not revert: it moves the amount, moves it
\* less a fee of one unit, or moves nothing and returns false.
TokenTransfer(s, t, from, to, amt, o) ==
    CASE o = "ok" -> [s EXCEPT !.tokens[t] = Moved(@, from, to, amt)]
      [] o = "short" -> [s EXCEPT !.tokens[t] = MovedShort(@, from, to, amt)]
      [] OTHER -> s

Reverts(s, t, from, amt, o) == o = "revert" \/ s.tokens[t][from] < amt

-----------------------------------------------------------------------------
\* Token pairs.

Registered(s, t) == s.pairs[t] # "none"

deleteAllowances(s, t) == [s EXCEPT !.allowance[t] = [p \in Grants |-> 0]]

\* The metadata of the denomination stays, and so does the code hash of a
\* precompile; the allowances of the address go.
DeleteTokenPair(s, t) == deleteAllowances([s EXCEPT !.pairs[t] = "none"], t)

\* Mutant: metadata of an earlier registration is overwritten.
registerERC20_Again(s, t) ==
    IF Registered(s, t) \/ t \notin s.code
    THEN Fail(s)
    ELSE Ok([s EXCEPT !.pairs[t] = "enabled", !.meta = @ \cup {t}])

\* CreateCoinMetadata queries the contract, so it must have code, and refuses
\* a denomination that already has metadata.
registerERC20(s, t) ==
    IF Registered(s, t) \/ t \notin s.code \/ t \in s.meta
    THEN Fail(s)
    ELSE Ok([s EXCEPT !.pairs[t] = "enabled", !.meta = @ \cup {t}])

\* A new precompile for a voucher: refused when its address has code.
RegisterERC20Extension(s, t) ==
    IF t \in s.code \/ Registered(s, t)
    THEN Fail(s)
    ELSE Ok([s EXCEPT !.pairs[t] = "enabled", !.code = @ \cup {t}])

toggleConversion(s, t) ==
    IF ~Registered(s, t)
    THEN Fail(s)
    ELSE Ok([s EXCEPT !.pairs[t] = IF @ = "enabled" THEN "disabled" ELSE "enabled"])

\* Mutant: a blocked receiver is not refused.
MintingEnabled_AnyReceiver(s, receiver, t) ==
    /\ s.on
    /\ s.pairs[t] = "enabled"
    /\ t \in s.send

\* The module's own account is the blocked address of the model.
MintingEnabled(s, receiver, t) ==
    /\ s.on
    /\ s.pairs[t] = "enabled"
    /\ receiver # Module
    /\ t \in s.send

-----------------------------------------------------------------------------
\* Conversion.

\* Coins are escrowed before the tokens move and burned after the checks: an
\* error in between leaves them with the module account in what was written.
ConvertCoinNativeERC20(s, t, amt, receiver, sender, o) ==
    LET escrowed == SendCoins(s, t, sender, Module, amt)
        called == TokenTransfer(escrowed, t, Module, receiver, amt, o)
    IN  IF t \notin s.code \/ s.coins[t][sender] < amt THEN Fail(s)
        ELSE IF Reverts(escrowed, t, Module, amt, o) THEN Fail(escrowed)
        ELSE IF o = "false" \/ called.tokens[t][receiver] # s.tokens[t][receiver] + amt
             THEN Fail(called)
             ELSE Ok(BurnCoins(called, t, Module, amt))

\* Mutant: the module's balance is not compared after the transfer.
ConvertERC20_NoBalanceCheck(s, t, amt, receiver, sender, o) ==
    LET called == TokenTransfer(s, t, sender, Module, amt, o)
    IN  IF ~MintingEnabled(s, receiver, t) \/ t \in Vouchers THEN Fail(s)
        ELSE IF t \notin s.code THEN Ok(DeleteTokenPair(s, t))
        ELSE IF Reverts(s, t, sender, amt, o) \/ o = "false" THEN Fail(s)
        ELSE Ok(SendCoins(MintCoins(called, t, Module, amt), t, Module, receiver, amt))

ConvertERC20IntoCoinsForNativeToken(s, t, amt, receiver, sender, o) ==
    LET called == TokenTransfer(s, t, sender, Module, amt, o)
    IN  IF ~MintingEnabled(s, receiver, t) \/ t \in Vouchers THEN Fail(s)
        ELSE IF t \notin s.code THEN Ok(DeleteTokenPair(s, t))
        ELSE IF Reverts(s, t, sender, amt, o) THEN Fail(s)
        ELSE IF o = "false" \/ called.tokens[t][Module] # s.tokens[t][Module] + amt
             THEN Fail(called)
             ELSE Ok(SendCoins(MintCoins(called, t, Module, amt), t, Module, receiver, amt))

\* The message: a pair whose contract is gone is deleted, with no error.
ConvertCoin(s, t, amt, receiver, sender, o) ==
    IF ~MintingEnabled(s, receiver, t) \/ t \in Vouchers THEN Fail(s)
    ELSE IF t \notin s.code THEN Ok(DeleteTokenPair(s, t))
    ELSE ConvertCoinNativeERC20(s, t, amt, receiver, sender, o)

-----------------------------------------------------------------------------
\* IBC transfer, as the middleware finds it: the coins of this chain are
\* escrowed and released, vouchers are burned and minted.

SendTransfer(s, t, amt, sender) ==
    IF t \notin s.send \/ s.coins[t][sender] < amt THEN Fail(s)
    ELSE IF t \in Vouchers THEN Ok(BurnCoins(s, t, sender, amt))
    ELSE Ok(SendCoins(s, t, sender, Escrow, amt))

ReleaseTransfer(s, t, amt, receiver) ==
    IF t \in Vouchers THEN MintCoins(s, t, receiver, amt)
    ELSE SendCoins(s, t, Escrow, receiver, amt)

\* transferWithStateDB of the ICS20 precompile converts what the sender lacks.
transferWithStateDB(s, t, amt, sender, o) ==
    LET short == amt - s.coins[t][sender]
        converted == ConvertERC20IntoCoinsForNativeToken(s, t, short, sender, sender, o)
    IN  IF s.pairs[t] # "enabled" \/ ~s.on \/ t \in Vouchers \/ short <= 0
        THEN SendTransfer(s, t, amt, sender)
        ELSE IF converted.err THEN Fail(s)
        ELSE SendTransfer(converted.st, t, amt, sender)

\* OnRecvPacket of the middleware, after the transfer module has credited the
\* receiver: an error acknowledgement reverts both.
OnRecvPacket(s, t, amt, receiver, o) ==
    IF ~s.on \/ receiver \in ModuleAccounts THEN Ok(s)
    ELSE IF t \in Vouchers THEN (IF Registered(s, t) THEN Ok(s) ELSE RegisterERC20Extension(s, t))
    ELSE IF s.pairs[t] # "enabled" THEN Ok(s)
    ELSE IF ~MintingEnabled(s, receiver, t) THEN Fail(s)
    ELSE ConvertCoinNativeERC20(s, t, amt, receiver, receiver, o)

\* After an error acknowledgement or a timeout.  The error of the conversion
\* is logged and dropped, and what the conversion wrote is kept.  The packet
\* names a voucher by its path, which is no registered denomination.
ConvertCoinToERC20FromPacket(s, t, amt, sender, o) ==
    IF t \in Vouchers \/ ~Registered(s, t) \/ ~s.on \/ sender \in ModuleAccounts THEN s
    ELSE ConvertCoinNativeERC20(s, t, amt, sender, sender, o).st

-----------------------------------------------------------------------------
\* The ERC20 precompile of a voucher.

setAllowance(s, t, owner, spender, value) ==
    IF s.pairs[t] # "enabled" THEN Fail(s)
    ELSE Ok([s EXCEPT !.allowance[t][<<owner, spender>>] = value])

PrecompileSend(s, t, from, to, amt) ==
    IF t \notin s.send \/ to = Module \/ s.coins[t][from] < amt THEN Fail(s)
    ELSE Ok(SendCoins(s, t, from, to, amt))

PrecompileTransferFrom(s, t, spender, from, to, amt) ==
    LET left == s.allowance[t][<<from, spender>>] - amt
        spent == setAllowance(s, t, from, spender, left)
    IN  IF left < 0 \/ spent.err THEN Fail(s) ELSE PrecompileSend(spent.st, t, from, to, amt)

\* The isolated address approves the contract, and the contract takes what
\* its code takes, at most what it was approved.
callbackCalls(s, t, amt, taken) ==
    LET approved == setAllowance(s, t, Isolated, Dapp, amt)
    IN  IF t \in Vouchers
        THEN IF approved.err \/ taken = 0 THEN approved
             ELSE PrecompileTransferFrom(approved.st, t, Dapp, Isolated, Dapp, taken)
        ELSE IF t \notin s.code \/ s.tokens[t][Isolated] < taken THEN Fail(s)
        ELSE Ok(TokenTransfer(s, t, Isolated, Dapp, taken, "ok"))

\* Mutant: the callback does not look at what the isolated address still holds.
IBCReceivePacketCallback_NoCheck(s, t, amt, taken) ==
    IF ~Registered(s, t) THEN Fail(s) ELSE callbackCalls(s, t, amt, taken)

\* The receive callback fails when tokens are left at the isolated address.
IBCReceivePacketCallback(s, t, amt, taken) ==
    LET called == callbackCalls(s, t, amt, taken)
        left == IF t \in Vouchers THEN called.st.coins[t] ELSE called.st.tokens[t]
    IN  IF ~Registered(s, t) \/ called.err \/ left[Isolated] # 0 THEN Fail(s) ELSE called

-----------------------------------------------------------------------------
\* Actions.  A message that returns an error changes nothing and is no step;
\* the conversion messages refuse every voucher.

Commit(r) == ~r.err /\ st' = r.st

\* A pair that a conversion deleted is remembered.
NoteDeleted ==
    deleted' = deleted \cup {t \in Contracts : Registered(st, t) /\ ~Registered(st', t)}

MsgConvertERC20 ==
    \E t \in Contracts, sender \in Users, receiver \in Users \cup {Module} : \E amt \in Amounts[t], o \in OutcomesOf(t) :
        /\ Commit(ConvertERC20IntoCoinsForNativeToken(st, t, amt, receiver, sender, o))
        /\ NoteDeleted
        /\ UNCHANGED <<packets, away, seq, events, donated, gone>>

MsgConvertCoin ==
    \E t \in Contracts, sender \in Users, receiver \in Users \cup {Module} : \E amt \in Amounts[t], o \in OutcomesOf(t) :
        /\ Commit(ConvertCoin(st, t, amt, receiver, sender, o))
        /\ NoteDeleted
        /\ UNCHANGED <<packets, away, seq, events, donated, gone>>

\* Governance may always register, anyone may while registration is
\* permissionless: who signs makes no difference to what is written.
RegisterERC20 ==
    \E t \in Contracts :
        /\ st.on
        /\ Commit(registerERC20(st, t))
        /\ UNCHANGED <<packets, away, seq, events, donated, gone, deleted>>

Governance ==
    /\ events < MaxGov
    /\ events' = events + 1
    /\ UNCHANGED <<packets, away, seq, donated, deleted>>

ToggleConversion ==
    \E t \in Tokens :
        /\ st.on
        /\ Commit(toggleConversion(st, t))
        /\ Governance /\ UNCHANGED gone

UpdateParams ==
    /\ st' = [st EXCEPT !.on = ~@]
    /\ Governance /\ UNCHANGED gone

\* The bank's own parameter.
SetSendEnabled ==
    \E t \in Tokens :
        /\ st' = [st EXCEPT !.send = IF t \in @ THEN @ \ {t} ELSE @ \cup {t}]
        /\ Governance /\ UNCHANGED gone

Sent(t, amt, sender) ==
    /\ seq < MaxPackets
    /\ seq' = seq + 1
    /\ packets' = packets \cup {[id |-> seq, token |-> t, amt |-> amt,
                                 sender |-> sender, received |-> FALSE]}
    /\ UNCHANGED <<away, events, donated, gone>>

MsgTransfer ==
    \E t \in Tokens, sender \in Users : \E amt \in Amounts[t] :
        /\ Commit(SendTransfer(st, t, amt, sender))
        /\ Sent(t, amt, sender) /\ UNCHANGED deleted

IcsPrecompileTransfer ==
    \E t \in Tokens, sender \in Callers : \E amt \in Amounts[t], o \in OutcomesOf(t) :
        /\ Commit(transferWithStateDB(st, t, amt, sender, o))
        /\ Sent(t, amt, sender) /\ NoteDeleted

\* The other chain takes the packet; its answer comes later, and what it took
\* may be sent back before that.
Delivered ==
    \E p \in packets :
        /\ ~p.received
        /\ packets' = (packets \ {p}) \cup {[p EXCEPT !.received = TRUE]}
        /\ away' = IF p.token \in Vouchers THEN away ELSE [away EXCEPT ![p.token] = @ + p.amt]
        /\ UNCHANGED <<st, seq, events, donated, gone, deleted>>

AcknowledgeSuccess ==
    \E p \in packets :
        /\ p.received
        /\ packets' = packets \ {p}
        /\ UNCHANGED <<st, away, seq, events, donated, gone, deleted>>

\* An error acknowledgement or a timeout: the transfer module refunds the
\* sender, then the middleware converts.
Refund(p, o) ==
    /\ p \in packets /\ ~p.received
    /\ packets' = packets \ {p}
    /\ st' = ConvertCoinToERC20FromPacket(
                ReleaseTransfer(st, p.token, p.amt, p.sender), p.token, p.amt, p.sender, o)
    /\ UNCHANGED <<away, seq, events, donated, gone, deleted>>

\* What the other chain may send: coins it holds, or a new voucher.
Incoming(t, amt) ==
    IF t \in Vouchers
    THEN seq < MaxPackets /\ seq' = seq + 1 /\ UNCHANGED away
    ELSE away[t] >= amt /\ away' = [away EXCEPT ![t] = @ - amt] /\ UNCHANGED seq

RecvPacket ==
    \E t \in Tokens, receiver \in Users \cup {Isolated} : \E amt \in Amounts[t], o \in OutcomesOf(t) :
        /\ Incoming(t, amt)
        /\ Commit(OnRecvPacket(ReleaseTransfer(st, t, amt, receiver), t, amt, receiver, o))
        /\ UNCHANGED <<packets, events, donated, gone, deleted>>

RecvPacketWithCallback(t, amt, taken, o) ==
    LET r == OnRecvPacket(ReleaseTransfer(st, t, amt, Isolated), t, amt, Isolated, o)
    IN  /\ Incoming(t, amt)
        /\ ~r.err
        /\ Commit(IBCReceivePacketCallback(r.st, t, amt, taken))
        /\ UNCHANGED <<packets, events, donated, gone, deleted>>

\* The ERC20 precompile.
Precompile ==
    /\ \E t \in Vouchers, caller \in Callers, other \in Users : \E amt \in Amounts[t] \cup {0} :
        /\ Registered(st, t)
        /\ \/ Commit(setAllowance(st, t, caller, other, amt))
           \/ amt # 0 /\ Commit(PrecompileSend(st, t, caller, other, amt))
           \/ amt # 0 /\ \E to \in Users :
                Commit(PrecompileTransferFrom(st, t, caller, other, to, amt))
    /\ UNCHANGED <<packets, away, seq, events, donated, gone, deleted>>

\* A holder calls the contract itself.
TokenSend ==
    \E t \in Contracts, from \in Callers, to \in Callers \cup {Module} : \E amt \in Amounts[t] :
        /\ t \in st.code /\ from # to /\ st.tokens[t][from] >= amt
        /\ st' = TokenTransfer(st, t, from, to, amt, "ok")
        /\ donated' = IF to = Module THEN [donated EXCEPT ![t] = @ + amt] ELSE donated
        /\ UNCHANGED <<packets, away, seq, events, gone, deleted>>

\* The contract destroys itself, or is created again with fresh balances.
SelfDestruct ==
    \E t \in Contracts :
        /\ t \in st.code
        /\ st' = [st EXCEPT !.code = @ \ {t}, !.tokens[t] = [a \in Holders |-> 0]]
        /\ gone' = gone \cup {t}
        /\ Governance

Redeploy ==
    \E t \in Contracts :
        /\ t \notin st.code
        /\ st' = [st EXCEPT !.code = @ \cup {t},
                            !.tokens[t] = [a \in Holders |-> IF a \in Users THEN InitialTokens[a] ELSE 0]]
        /\ Governance /\ UNCHANGED gone

Next ==
    \/ MsgConvertERC20 \/ MsgConvertCoin
    \/ RegisterERC20 \/ ToggleConversion \/ UpdateParams \/ SetSendEnabled
    \/ MsgTransfer \/ IcsPrecompileTransfer \/ Delivered \/ AcknowledgeSuccess
    \/ \E p \in packets : \E o \in OutcomesOf(p.token) : Refund(p, o)
    \/ RecvPacket
    \/ \E t \in Tokens : \E amt \in Amounts[t], o \in OutcomesOf(t) :
          \E taken \in 0 .. amt : RecvPacketWithCallback(t, amt, taken, o)
    \/ Precompile \/ TokenSend \/ SelfDestruct \/ Redeploy

Spec == Init /\ [][Next]_vars

-----------------------------------------------------------------------------
\* Properties.

\* The coins of a native ERC20 that anyone can hold or convert are covered by
\* the tokens the module account escrows, and no token is escrowed for no
\* coin: apart from what was given to it, the account holds no more tokens
\* than there are coins (ConvertERC20 escrows before it mints, ConvertCoin
\* unescrows before it burns, the refund keeps half of a failed conversion).
\* The gap between the two bounds is what failed refunds left with the module.
Backed ==
    \A t \in Contracts \ gone :
        /\ st.supply[t] - st.coins[t][Module] <= st.tokens[t][Module] - donated[t]
        /\ st.tokens[t][Module] - donated[t] <= st.supply[t]

\* A pair deleted because its contract was destroyed is never registered
\* again, also when a contract is created anew at the address: the coins of
\* the old contract that are still held would be paid with the new one's.
DeletedForGood == \A t \in deleted : ~Registered(st, t)

\* A packet with a receive callback leaves nothing behind at the isolated
\* address, which nobody has the key of, while the pair converts.
IsolatedKeepsNothing ==
    [][<<seq, away>>' # <<seq, away>> =>
       \A t \in Tokens : \A amt \in Amounts[t], o \in OutcomesOf(t) : \A taken \in 0 .. amt :
        (/\ RecvPacketWithCallback(t, amt, taken, o)
         /\ t \in Vouchers \/ (st.on /\ st.pairs[t] = "enabled"))
        => IF t \in Vouchers
           THEN st'.coins[t][Isolated] = 0
           ELSE st'.coins[t][Isolated] + st'.tokens[t][Isolated]
                  <= st.coins[t][Isolated] + st.tokens[t][Isolated]]_vars

\* What a step may do to the module account's coins.
PassesThrough ==
    \A t \in Tokens :
        st'.coins[t][Module] # st.coins[t][Module] =>
            \E p \in packets \ packets' :
                /\ p.token = t /\ ~p.received
                /\ st'.coins[t][Module] = st.coins[t][Module] + p.amt

\* The module account is a place of passage: every message that mints, burns
\* or moves coins through it leaves its balance as it was.  Coins come to rest
\* there in one way only, when the conversion of a refunded packet fails after
\* the escrow, and nothing ever takes them out again.
OnlyFailedRefundsStay == [][PassesThrough]_vars

=============================================================================
