------------------------------- MODULE StateDB -------------------------------
(***************************************************************************)
(* One Ethereum message executed over two copies of the state: the objects *)
(* and the journal of the StateDB (x/vm/statedb), and the multistore of    *)
(* its cache context, which stateful precompiles read and write.  Before a *)
(* native action the dirty objects are flushed to the cache context; after *)
(* it the bank events it emitted are mirrored into the objects; a revert   *)
(* undoes the journal, which holds the multistore snapshots as entries; at *)
(* the end the cache context and the dirty objects are committed.          *)
(*                                                                         *)
(* The interpreter is go-ethereum's: its opcodes and call frames appear    *)
(* as the sequence of StateDB calls they make.  ctx is the state of the    *)
(* transaction's context, a store; the cache context is ctx until the      *)
(* first precompile call and the top of db.stack after it.                 *)
(***************************************************************************)
EXTENDS Integers, SequencesExt

CONSTANTS
  Addrs,                \* addresses
  Sender,               \* sender of the message
  Blocked,              \* addresses of BlockedAddresses (module accounts)
  Keys,                 \* storage keys
  Stores,               \* states the message may start from
  Calls,                \* inputs: callee and value of a call
  Writes,               \* inputs: key and value of a storage write
  Creations,            \* inputs: addresses a creation may yield
  Authorities,          \* inputs: signers of EIP-7702 authorizations
  Receivers,            \* inputs: beneficiaries and receivers of native transfers
  MaxPrecompileCalls,   \* types.MaxPrecompileCalls
  MaxOps,               \* bound on opcodes, calls and native transfers
  Nil

ASSUME AddrsAssumption ==
  /\ Sender \in Addrs \ Blocked /\ Blocked \subseteq Addrs
  /\ Calls \subseteq Addrs \X Nat /\ Writes \subseteq Keys \X {0, 1}
  /\ Creations \cup Authorities \subseteq Addrs \ Blocked /\ Receivers \subseteq Addrs
ASSUME BoundsAssumption == MaxPrecompileCalls \in Nat /\ MaxOps \in Nat

VARIABLES
  ctx,      \* state of the transaction's context
  db,       \* the StateDB
  frames,   \* EVM frames and native actions under way, innermost last
  phase,    \* "prepared", "running", "executed", then how the message ended
  ops,      \* opcodes, calls and native transfers so far
  last      \* how the last frame ended (history)

vars == <<ctx, db, frames, phase, ops, last>>

NoCode == "none"
Delegation == "delegation"
Contract == "contract"
Codes == {NoCode, Delegation, Contract}
Vals == {0, 1}

\* Accounts, balances, sequences, code hashes, storage and stored code.
Store == [acct : SUBSET Addrs, bal : [Addrs -> Nat], nonce : [Addrs -> Nat], code : [Addrs -> Codes],
          slot : [Addrs -> [Keys -> Vals]], blobs : SUBSET Codes]

Object == [bal : Nat, nonce : Nat, code : Codes, dirtyCode : BOOLEAN, slot : [Keys -> Vals \cup {Nil}],
           selfDestructed : BOOLEAN, newContract : BOOLEAN]

newObject(bal, nonce, code) ==
  [bal |-> bal, nonce |-> nonce, code |-> code, dirtyCode |-> FALSE, slot |-> [k \in Keys |-> Nil],
   selfDestructed |-> FALSE, newContract |-> FALSE]

----------------------------------------------------------------------------
(* Reading.  An object that is not live is loaded from ctx, never from the *)
(* cache context; ctx is constant while the message runs, so that loading  *)
(* leaves no trace.                                                        *)

getStateObject(d, a) ==
  IF d.objects[a] # Nil THEN d.objects[a]
  ELSE IF a \in ctx.acct THEN newObject(ctx.bal[a], ctx.nonce[a], ctx.code[a])
  ELSE Nil

Exist(d, a) == getStateObject(d, a) # Nil

GetBalance(d, a) == IF Exist(d, a) THEN getStateObject(d, a).bal ELSE 0

GetNonce(d, a) == IF Exist(d, a) THEN getStateObject(d, a).nonce ELSE 0

GetCode(d, a) == IF Exist(d, a) THEN getStateObject(d, a).code ELSE NoCode

HasSelfDestructed(d, a) == Exist(d, a) /\ getStateObject(d, a).selfDestructed

GetState(d, a, k) ==
  IF ~Exist(d, a) THEN 0
  ELSE IF getStateObject(d, a).slot[k] # Nil THEN getStateObject(d, a).slot[k]
  ELSE ctx.slot[a][k]

\* What the cache context holds.
CacheStore(d) == IF d.stack = <<>> THEN ctx ELSE Last(d.stack)

----------------------------------------------------------------------------
(* Writing: every setter appends its journal entry.                        *)

Dirtied(e) ==
  IF e.type \in {"createObject", "balance", "nonce", "code", "storage", "selfDestruct"} THEN {e.addr} ELSE {}

append(d, e) ==
  [d EXCEPT !.journal = Append(@, e),
            !.dirties = [a \in Addrs |-> IF a \in Dirtied(e) THEN @[a] + 1 ELSE @[a]]]

put(d, a, obj) == [d EXCEPT !.objects[a] = obj]

\* CreateAccount and getOrNewStateObject.  The interpreter creates accounts that do not
\* exist only, so that no live object is ever replaced.
getOrNewStateObject(d, a) ==
  IF Exist(d, a) THEN d
  ELSE put(append(d, [type |-> "createObject", addr |-> a]), a, newObject(0, 0, NoCode))

SetBalance(d, a, v) ==
  LET e == getOrNewStateObject(d, a)
      o == getStateObject(e, a)
  IN put(append(e, [type |-> "balance", addr |-> a, prev |-> o.bal]), a, [o EXCEPT !.bal = v])

\* Mutant of AddBalance: an account that does not exist is not created.
AddBalanceToExisting(d, a, v) == IF Exist(d, a) THEN SetBalance(d, a, GetBalance(d, a) + v) ELSE d

AddBalance(d, a, v) == IF v = 0 THEN getOrNewStateObject(d, a) ELSE SetBalance(d, a, GetBalance(d, a) + v)

SubBalance(d, a, v) == IF v = 0 THEN getOrNewStateObject(d, a) ELSE SetBalance(d, a, GetBalance(d, a) - v)

SetNonce(d, a, n) ==
  LET e == getOrNewStateObject(d, a)
      o == getStateObject(e, a)
  IN put(append(e, [type |-> "nonce", addr |-> a, prev |-> o.nonce]), a, [o EXCEPT !.nonce = n])

SetCode(d, a, c) ==
  LET e == getOrNewStateObject(d, a)
      o == getStateObject(e, a)
  IN put(append(e, [type |-> "code", addr |-> a, prev |-> o.code]), a, [o EXCEPT !.code = c, !.dirtyCode = TRUE])

SetState(d, a, k, v) ==
  LET e == getOrNewStateObject(d, a)
      o == getStateObject(e, a)
      prev == GetState(e, a, k)
  IN IF prev = v THEN e
     ELSE put(append(e, [type |-> "storage", addr |-> a, key |-> k, prev |-> prev]), a, [o EXCEPT !.slot[k] = v])

CreateContract(d, a) ==
  LET o == getStateObject(d, a)
  IN IF o.newContract THEN d
     ELSE put(append(d, [type |-> "createContract", addr |-> a]), a, [o EXCEPT !.newContract = TRUE])

SelfDestruct6780(d, a) ==
  LET o == getStateObject(d, a)
  IN IF ~o.newContract THEN d
     ELSE put(append(d, [type |-> "selfDestruct", addr |-> a, prev |-> o.selfDestructed, prevbalance |-> o.bal]),
              a, [o EXCEPT !.selfDestructed = TRUE, !.bal = 0])

SetTransientState(d, a, v) ==
  IF d.transient[a] = v THEN d
  ELSE [append(d, [type |-> "transient", addr |-> a, prev |-> d.transient[a]]) EXCEPT !.transient[a] = v]

AddRefund(d, n) == [append(d, [type |-> "refund", prev |-> d.refund]) EXCEPT !.refund = @ + n]

AddLog(d, log) == [append(d, [type |-> "addLog"]) EXCEPT !.logs = Append(@, log)]

----------------------------------------------------------------------------
(* The access list: per address nothing, -1, or an index into slots.       *)

AddAddressToAccessList(d, a) ==
  IF d.accessList.addresses[a] # Nil THEN d
  ELSE [append(d, [type |-> "accessAddr", addr |-> a]) EXCEPT !.accessList.addresses[a] = -1]

AddSlotToAccessList(d, a, k) ==
  LET e == AddAddressToAccessList(d, a)
      idx == e.accessList.addresses[a]
      entry == [type |-> "accessSlot", addr |-> a, key |-> k]
  IN IF idx = -1
     THEN [append(e, entry) EXCEPT !.accessList.addresses[a] = Len(e.accessList.slots),
                                   !.accessList.slots = Append(@, {k})]
     ELSE IF k \in e.accessList.slots[idx + 1] THEN e
     ELSE [append(e, entry) EXCEPT !.accessList.slots[idx + 1] = @ \cup {k}]

DeleteSlot(list, a, k) ==
  LET idx == list.addresses[a]
      left == list.slots[idx + 1] \ {k}
  IN IF left = {} THEN [addresses |-> [list.addresses EXCEPT ![a] = -1], slots |-> SubSeq(list.slots, 1, idx)]
     ELSE [list EXCEPT !.slots[idx + 1] = left]

----------------------------------------------------------------------------
(* Snapshots and reverts.                                                  *)

revertSelfDestruct(d, e) ==
  put(d, e.addr, [getStateObject(d, e.addr) EXCEPT !.selfDestructed = e.prev, !.bal = e.prevbalance])

\* Mutant of revertPrecompileCall: the count of processed events is not restored.
revertPrecompileStore(d, e) == [d EXCEPT !.stack = SubSeq(@, 1, e.snapshot), !.events = e.prevEvents]

revertPrecompileCall(d, e) ==
  [d EXCEPT !.stack = SubSeq(@, 1, e.snapshot), !.events = e.prevEvents, !.processed = e.prevProcessed]

undo(d, e) ==
  CASE e.type = "createObject"   -> [d EXCEPT !.objects[e.addr] = Nil]
    [] e.type = "balance"        -> put(d, e.addr, [getStateObject(d, e.addr) EXCEPT !.bal = e.prev])
    [] e.type = "nonce"          -> put(d, e.addr, [getStateObject(d, e.addr) EXCEPT !.nonce = e.prev])
    [] e.type = "code"           -> put(d, e.addr, [getStateObject(d, e.addr) EXCEPT !.code = e.prev, !.dirtyCode = TRUE])
    [] e.type = "storage"        -> put(d, e.addr, [getStateObject(d, e.addr) EXCEPT !.slot[e.key] = e.prev])
    [] e.type = "createContract" -> put(d, e.addr, [getStateObject(d, e.addr) EXCEPT !.newContract = FALSE])
    [] e.type = "selfDestruct"   -> revertSelfDestruct(d, e)
    [] e.type = "transient"      -> [d EXCEPT !.transient[e.addr] = e.prev]
    [] e.type = "refund"         -> [d EXCEPT !.refund = e.prev]
    [] e.type = "addLog"         -> [d EXCEPT !.logs = Front(@)]
    [] e.type = "accessAddr"     -> [d EXCEPT !.accessList.addresses[e.addr] = Nil]
    [] e.type = "accessSlot"     -> [d EXCEPT !.accessList = DeleteSlot(@, e.addr, e.key)]
    [] e.type = "precompileCall" -> revertPrecompileCall(d, e)

\* Mutant of undoLast: the dirty counts are not lowered.
undoLastKeepsDirties(d) == [undo(d, Last(d.journal)) EXCEPT !.journal = Front(d.journal)]

undoLast(d) ==
  LET e == Last(d.journal)
  IN [undo(d, e) EXCEPT !.journal = Front(d.journal),
                        !.dirties = [a \in Addrs |-> IF a \in Dirtied(e) THEN d.dirties[a] - 1 ELSE d.dirties[a]]]

Snapshot(d) ==
  [d EXCEPT !.nextRevisionID = @ + 1,
            !.validRevisions = Append(@, [id |-> d.nextRevisionID, journalIndex |-> Len(d.journal)])]

RevertToSnapshot(d, revid) ==
  LET idx == CHOOSE i \in DOMAIN d.validRevisions : d.validRevisions[i].id = revid
      rev == d.validRevisions[idx]
      undone == FoldLeft(LAMBDA acc, i : undoLast(acc), d, [i \in 1..(Len(d.journal) - rev.journalIndex) |-> i])
  IN [undone EXCEPT !.validRevisions = SubSeq(@, 1, idx - 1)]

----------------------------------------------------------------------------
(* Writing the dirty objects to a context.                                 *)

dirties(d) == {a \in Addrs : d.dirties[a] > 0}

hasDirtyCode(o) == o.dirtyCode /\ o.code # NoCode

SetAccount(store, a, o) ==
  [store EXCEPT !.acct = @ \cup {a}, !.bal[a] = o.bal, !.nonce[a] = o.nonce, !.code[a] = o.code]

IsContract(store, a) == store.code[a] = Contract /\ Contract \in store.blobs

\* The keeper's SetBalance refuses to raise the balance of a blocked address.
SetBalanceFails(store, a, v) == a \in Blocked /\ v > store.bal[a]

DeleteAccount(store, a) ==
  IF a \notin store.acct THEN store
  ELSE [store EXCEPT !.acct = @ \ {a}, !.bal[a] = 0, !.nonce[a] = 0, !.code[a] = NoCode, !.slot[a] = [k \in Keys |-> 0]]

commitCode(store, o) == IF hasDirtyCode(o) THEN [store EXCEPT !.blobs = @ \cup {o.code}] ELSE store

\* Mutant of commitObject: zero values are not written.
commitObjectSkipsZero(store, a, o) ==
  LET stored == SetAccount(commitCode(store, o), a, o)
  IN IF o.selfDestructed THEN DeleteAccount(IF hasDirtyCode(o) THEN stored ELSE store, a)
     ELSE [stored EXCEPT !.slot[a] = [k \in Keys |-> IF o.slot[k] \notin {Nil, 0} THEN o.slot[k] ELSE @[k]]]

commitObject(store, a, o) ==
  LET coded == commitCode(store, o)
      stored == SetAccount(coded, a, o)
  IN IF o.selfDestructed THEN DeleteAccount(IF hasDirtyCode(o) THEN stored ELSE store, a)
     ELSE [stored EXCEPT !.slot[a] = [k \in Keys |-> IF o.slot[k] # Nil THEN o.slot[k] ELSE @[k]]]

commitObjectFails(store, a, o) ==
  IF o.selfDestructed /\ ~hasDirtyCode(o) THEN a \in store.acct /\ ~IsContract(store, a)
  ELSE SetBalanceFails(store, a, o.bal)

\* What a failed commit wrote is discarded: by the revert of the frame, or with ctx.
commitWithCtxFails(store, d) == \E a \in dirties(d) : commitObjectFails(store, a, d.objects[a])

commitWithCtx(store, d) == FoldSet(LAMBDA a, acc : commitObject(acc, a, d.objects[a]), store, dirties(d))

FlushToCacheCtx(d) ==
  [d EXCEPT !.stack = Append(Front(@), commitWithCtx(Last(@), d)), !.processed = Len(d.events)]

----------------------------------------------------------------------------
(* Precompiles.                                                            *)

\* GetCacheContext, MultiStoreSnapshot and AddPrecompileFn.
AddPrecompileFn(d) ==
  [append(d, [type |-> "precompileCall", snapshot |-> Len(d.stack), prevEvents |-> d.events, prevProcessed |-> d.processed])
     EXCEPT !.stack = Append(@, CacheStore(d)), !.calls = @ + 1]

\* The bank moves one coin of the EVM denomination and emits two events.
SendCoins(d, from, to) ==
  LET store == CacheStore(d)
      moved == [store EXCEPT !.acct = @ \cup {to}, !.bal[from] = @ - 1, !.bal[to] = @ + 1]
  IN [d EXCEPT !.stack = Append(Front(@), moved),
               !.events = @ \o <<[type |-> "spent", addr |-> from], [type |-> "received", addr |-> to]>>]

\* Mutant of mirror: off by one.
mirrorLastProcessed(d, i) ==
  LET event == d.events[i]
  IN IF i < d.processed \/ event.addr \in Blocked THEN d
     ELSE IF event.type = "spent" THEN SubBalance(d, event.addr, 1)
     ELSE AddBalance(d, event.addr, 1)

mirror(d, i) ==
  LET event == d.events[i]
  IN IF i <= d.processed \/ event.addr \in Blocked THEN d
     ELSE IF event.type = "spent" THEN SubBalance(d, event.addr, 1)
     ELSE AddBalance(d, event.addr, 1)

AfterBalanceChange(d, prevEventsLen) ==
  FoldLeft(mirror, d, [i \in 1..(Len(d.events) - prevEventsLen) |-> prevEventsLen + i])

----------------------------------------------------------------------------
(* The message.                                                            *)

\* Everything the program can observe of the state (for the properties).
View(d) ==
  [objects |-> [a \in Addrs |->
                  IF Exist(d, a)
                  THEN [getStateObject(d, a) EXCEPT !.dirtyCode = FALSE, !.slot = [k \in Keys |-> GetState(d, a, k)]]
                  ELSE Nil],
   dirties |-> d.dirties, refund |-> d.refund, logs |-> d.logs, transient |-> d.transient,
   accessList |-> d.accessList, cache |-> CacheStore(d), events |-> d.events, processed |-> d.processed]

\* New and Prepare.
NewStateDB ==
  [objects |-> [a \in Addrs |-> Nil], journal |-> <<>>, dirties |-> [a \in Addrs |-> 0],
   nextRevisionID |-> 0, validRevisions |-> <<>>, refund |-> 0, logs |-> <<>>, transient |-> [a \in Addrs |-> 0],
   accessList |-> [addresses |-> [a \in Addrs |-> Nil], slots |-> <<>>],
   stack |-> <<>>, events |-> <<>>, processed |-> 0, calls |-> 0]

Init ==
  /\ ctx \in Stores
  /\ db = AddAddressToAccessList(NewStateDB, Sender)
  /\ frames = <<>> /\ phase = "prepared" /\ ops = 0 /\ last = "none"

top == Last(frames)
inEvm == phase = "running" /\ frames # <<>> /\ top.kind # "native"
inNative == phase = "running" /\ frames # <<>> /\ top.kind = "native" /\ ~top.failed
\* A frame executes code: the code of its account, or init code.
executing == inEvm /\ ~top.halted /\ (top.kind = "create" \/ GetCode(db, top.self) # NoCode)

Frame(kind, self, d) ==
  [kind |-> kind, self |-> self, rev |-> d.nextRevisionID, view |-> View(d),
   prevEventsLen |-> 0, halted |-> FALSE, sent |-> FALSE, failed |-> FALSE]

step(d) == ops < MaxOps /\ ops' = ops + 1 /\ db' = d /\ UNCHANGED <<ctx, frames, phase, last>>

enter(d, frame) ==
  /\ ops < MaxOps /\ ops' = ops + 1
  /\ db' = d /\ frames' = Append(frames, frame) /\ phase' = "running"
  /\ UNCHANGED <<ctx, last>>

leave(d, how) ==
  /\ db' = d /\ frames' = Front(frames) /\ last' = how
  /\ phase' = IF Len(frames) = 1 THEN "executed" ELSE phase
  /\ UNCHANGED <<ctx, ops>>

\* applyAuthorization of a valid EIP-7702 authorization, before the outermost call.
applyAuthorization(a, c) ==
  /\ phase = "prepared"
  /\ GetCode(db, a) # Contract
  /\ LET warm == AddAddressToAccessList(db, a)
         refunded == IF Exist(db, a) THEN AddRefund(warm, 1) ELSE warm
         bumped == SetNonce(refunded, a, GetNonce(db, a) + 1)
     IN step(SetCode(bumped, a, c))

Transfer(d, from, to, v) == AddBalance(SubBalance(d, from, v), to, v)

\* evm.Call: snapshot, account, value.
Call(kind, d, from, to, v) ==
  /\ GetBalance(d, from) >= v
  /\ Exist(d, to) \/ v > 0
  /\ enter(Transfer(getOrNewStateObject(Snapshot(d), to), from, to, v), Frame(kind, to, d))

\* evm.Create: the nonce is raised before the snapshot and stays raised, even if the address is taken.
Nonced(d, from, a) == AddAddressToAccessList(SetNonce(d, from, GetNonce(d, from) + 1), a)

Taken(d, a) == GetNonce(d, a) # 0 \/ GetCode(d, a) # NoCode \/ \E k \in Keys : GetState(d, a, k) # 0

Create(d, a) ==
  ~Taken(d, a) /\ enter(SetNonce(CreateContract(getOrNewStateObject(Snapshot(d), a), a), a, 1), Frame("create", a, d))

StartCall(to, v) == phase = "prepared" /\ Call("call", AddAddressToAccessList(db, to), Sender, to, v)

\* The sender's nonce, raised by the ante handler, is reset to the message's first.  A
\* creation carries no authorizations.
StartCreate(a) ==
  LET d == Nonced(SetNonce(db, Sender, ctx.nonce[Sender] - 1), Sender, a)
  IN /\ phase = "prepared" /\ ops = 0
     /\ \/ Create(d, a)
        \/ Taken(d, a) /\ db' = d /\ phase' = "executed" /\ last' = "reverted" /\ UNCHANGED <<ctx, frames, ops>>

OpCall(to, v) == executing /\ Call("call", AddAddressToAccessList(db, to), top.self, to, v)

OpCreate(a) ==
  /\ executing
  /\ LET d == Nonced(db, top.self, a) IN Create(d, a) \/ (Taken(d, a) /\ step(d))

OpSstore(k, v) ==
  /\ executing
  /\ LET warm == AddSlotToAccessList(db, top.self, k)
         cleared == v = 0 /\ GetState(db, top.self, k) # 0
     IN step(SetState(IF cleared THEN AddRefund(warm, 1) ELSE warm, top.self, k, v))

OpTstore == executing /\ step(SetTransientState(db, top.self, 1))

OpLog == executing /\ step(AddLog(db, top.self))

\* The balance moves to the beneficiary, the account goes if this message created it, and
\* the frame has nothing left to do but return.
OpSelfdestruct(to) ==
  /\ executing /\ ops < MaxOps
  /\ LET v == GetBalance(db, top.self)
     IN db' = SelfDestruct6780(Transfer(AddAddressToAccessList(db, to), top.self, to, v), top.self)
  /\ frames' = [frames EXCEPT ![Len(frames)].halted = TRUE]
  /\ ops' = ops + 1
  /\ UNCHANGED <<ctx, phase, last>>

\* A frame returns; init code leaves the code of the new contract.
Return ==
  /\ inEvm /\ top.kind # "nested"
  /\ \/ top.kind = "call" /\ leave(db, "returned")
     \/ top.kind = "create" /\ leave(SetCode(db, top.self, NoCode), "returned")
     \/ top.kind = "create" /\ ~top.halted /\ leave(SetCode(db, top.self, Contract), "returned")

Revert ==
  /\ inEvm /\ top.kind # "nested" /\ ~top.halted
  /\ leave(RevertToSnapshot(db, top.rev), "reverted")

\* RunNativeAction up to the action.  Too many calls, or a flush that fails, revert the frame.
RunNativeAction ==
  /\ executing
  /\ LET d == AddPrecompileFn(Snapshot(db))
         fails == d.calls > MaxPrecompileCalls \/ commitWithCtxFails(Last(d.stack), d)
     IN \/ fails /\ step(RevertToSnapshot(d, db.nextRevisionID))
        \/ ~fails /\ enter(FlushToCacheCtx(d), [Frame("native", top.self, db) EXCEPT !.prevEventsLen = Len(d.events)])

\* A keeper moves coins: of the caller, or of a module account.
NativeSend(from, to) ==
  /\ inNative /\ ops < MaxOps
  /\ from \in Blocked \cup {top.self} /\ from # to /\ CacheStore(db).bal[from] > 0
  /\ db' = SendCoins(db, from, to)
  /\ frames' = [frames EXCEPT ![Len(frames)].sent = TRUE]
  /\ ops' = ops + 1
  /\ UNCHANGED <<ctx, phase, last>>

\* CallEVM from a native action, which the ICS-20 precompile does before its transfers.
NativeCallEVM(to) ==
  /\ inNative /\ ~top.sent /\ Exist(db, to)
  /\ Call("nested", db, top.self, to, 0)

\* The message inside the native action ends with a flush, whether it failed or not; its
\* failure, or the flush's, fails the action.
endNested(d, failed, how) ==
  LET fails == commitWithCtxFails(Last(d.stack), d)
  IN /\ db' = IF fails THEN d ELSE FlushToCacheCtx(d)
     /\ frames' = [Front(frames) EXCEPT ![Len(frames) - 1].failed = failed \/ fails]
     /\ last' = how
     /\ UNCHANGED <<ctx, phase, ops>>

inNested == inEvm /\ top.kind = "nested"

NestedReturn == inNested /\ endNested(db, FALSE, "returned")

NestedRevert == inNested /\ ~top.halted /\ endNested(RevertToSnapshot(db, top.rev), TRUE, "reverted")

NativeReturn == inNative /\ leave(AfterBalanceChange(db, top.prevEventsLen), "returned")

\* An error, or out of gas: the interpreter reverts the frame of the call.
NativeFail ==
  /\ phase = "running" /\ frames # <<>> /\ top.kind = "native"
  /\ leave(RevertToSnapshot(db, top.rev), "reverted")

\* ApplyMessageWithConfig commits; ApplyTransaction keeps the result of a message that did not fail.
Commit ==
  /\ phase = "executed"
  /\ \/ commitWithCtxFails(CacheStore(db), db) /\ phase' = "error" /\ UNCHANGED ctx
     \/ ~commitWithCtxFails(CacheStore(db), db) /\ last = "reverted" /\ phase' = "failed" /\ UNCHANGED ctx
     \/ ~commitWithCtxFails(CacheStore(db), db) /\ last = "returned" /\ phase' = "committed"
        /\ ctx' = commitWithCtx(CacheStore(db), db)
  /\ UNCHANGED <<db, frames, ops, last>>

Next ==
  \/ \E a \in Authorities, c \in {NoCode, Delegation} : applyAuthorization(a, c)
  \/ \E in \in Calls : StartCall(in[1], in[2]) \/ OpCall(in[1], in[2])
  \/ \E a \in Creations : StartCreate(a) \/ OpCreate(a)
  \/ \E in \in Writes : OpSstore(in[1], in[2])
  \/ OpTstore
  \/ OpLog
  \/ \E to \in Receivers : OpSelfdestruct(to)
  \/ Return
  \/ Revert
  \/ RunNativeAction
  \/ \E from \in Addrs, to \in Receivers : NativeSend(from, to)
  \/ \E in \in Calls : in[2] = 0 /\ NativeCallEVM(in[1])
  \/ NestedReturn
  \/ NestedRevert
  \/ NativeReturn
  \/ NativeFail
  \/ Commit

Spec == Init /\ [][Next]_vars

----------------------------------------------------------------------------
(* Properties.                                                             *)

\* The state keeps its types; no balance of the StateDB underflows.
TypeOK ==
  /\ ctx \in Store
  /\ \A a \in Addrs : db.objects[a] = Nil \/ db.objects[a] \in Object
  /\ \A i \in DOMAIN db.stack : db.stack[i] \in Store
  /\ db.dirties \in [Addrs -> Nat] /\ db.processed \in 0..Len(db.events)

\* RevertToSnapshot: a frame that reverts leaves no trace.  Objects, dirty counts, refund,
\* logs, transient storage, access list, cache context, events and the count of processed
\* events are what they were when the interpreter took the snapshot, whatever precompiles,
\* flushes and nested messages ran in between.
RevertRestores == [][last' = "reverted" /\ Len(frames') < Len(frames) => View(db)' = Last(frames).view]_vars

\* journal: the dirty counts are those of the entries, every dirty address has a live
\* object (commitWithCtx dereferences it), and the multistore snapshots of the entries are
\* exactly the layers of the cache context, in order.
JournalConsistent ==
  /\ \A a \in Addrs : /\ db.dirties[a] = Len(SelectSeq(db.journal, LAMBDA e : a \in Dirtied(e)))
                      /\ db.dirties[a] > 0 => db.objects[a] # Nil
  /\ LET calls == SelectSeq(db.journal, LAMBDA e : e.type = "precompileCall")
     IN Len(calls) = Len(db.stack) /\ \A i \in DOMAIN calls : calls[i].snapshot = i - 1

\* FlushToCacheCtx and AfterBalanceChange: when a native action has returned, the StateDB
\* and the cache context agree on the balance of every account that is neither a module
\* account nor self-destructed.
\* No transfer of the action, of a message inside it or of an action inside that is lost or
\* mirrored twice.
BalancesMirrored ==
  [][inNative /\ Len(frames') < Len(frames) /\ last' = "returned"
       => \A a \in Addrs \ Blocked :
            HasSelfDestructed(db, a)' \/ CacheStore(db)'.bal[a] = GetBalance(db, a)']_vars

\* Commit: the state that is kept is the one the StateDB showed, for every account that is
\* not a module account: balance, nonce, storage and code, whose bytes are stored, and
\* nothing of an account that self-destructed.
CommitMatchesView ==
  [][phase' = "committed" /\ phase = "executed" =>
       \A a \in Addrs \ Blocked :
         IF Exist(db, a) /\ ~HasSelfDestructed(db, a)
         THEN /\ a \in ctx'.acct
              /\ ctx'.bal[a] = GetBalance(db, a) /\ ctx'.nonce[a] = GetNonce(db, a)
              /\ ctx'.code[a] = GetCode(db, a) /\ ctx'.code[a] \in ctx'.blobs \cup {NoCode}
              /\ \A k \in Keys : ctx'.slot[a][k] = GetState(db, a, k)
         ELSE /\ a \notin ctx'.acct
              /\ ctx'.bal[a] = 0 /\ ctx'.code[a] = NoCode /\ \A k \in Keys : ctx'.slot[a][k] = 0]_vars

total(store) == FoldSet(LAMBDA a, n : store.bal[a] + n, 0, Addrs)

\* A committed message neither creates nor destroys coins, module accounts included, unless
\* an account self-destructed or the EVM itself sent coins to a blocked address.
CoinsConserved ==
  [][phase' = "committed" /\ phase = "executed"
       /\ dirties(db) \cap Blocked = {} /\ (\A a \in dirties(db) : ~db.objects[a].selfDestructed)
       => total(ctx') = total(ctx)]_vars

=============================================================================
