-------------------------- MODULE RecheckLoopProofs --------------------------
(***************************************************************************)
(* The Cosmos pool's use of its HeightSync, for every number of heights,   *)
(* rechecks and transactions: no interleaving makes one of its calls       *)
(* panic, and the loop, the runs, the inserters and the proposer together  *)
(* implement the specification of module HeightSync, so that its theorems  *)
(* hold of this pool.                                                      *)
(*                                                                         *)
(* The invariant has two parts.  Locked: the height is open exactly while  *)
(* a run holds the write lock.  Behind: every height on its way from       *)
(* CurrentBlock to StartNewHeight is at most the committed one, and the    *)
(* committed height does not change while a proposal is prepared.          *)
(*                                                                         *)
(* A leaf that needs no arithmetic names Zenon.                            *)
(***************************************************************************)
EXTENDS RecheckLoop, TLAPS

BusPcs == {"recv", "notify", "current", "trigger", "await"}
LoopFields == {"pc", "curDone", "nextDone", "launchNextRun", "recheckReq", "cancelCh"}
RunPcs == {"none", "lock", "context", "check", "end", "close", "finished"}
ReaderPcs == {"idle", "check", "waitDone", "waitHeight", "complete", "genesis", "timeout", "nil", "panic"}
Started == {"context", "check", "end"}
isEnded == done[epoch]

Types ==
  /\ chain \in [height : Heights, publishing : BOOLEAN]
  /\ bc \in [latestCtx : Heights \cup {NoCtx}, hasPrevious : BOOLEAN]
  /\ bus \in [pc : BusPcs, head : Heights]
  /\ DOMAIN loop = LoopFields /\ loop.nextDone \in Int /\ loop.recheckReq \in Heights
  /\ runs \in [RunIds -> [pc : RunPcs, newHead : Heights, left : SUBSET Txs]]
  /\ currentHeight \in Heights
  /\ epoch \in Epochs
  /\ stores \in [Epochs -> SUBSET Txs]
  /\ done \in [Epochs -> BOOLEAN]
  /\ reader \in [{proposer} -> [pc : ReaderPcs, height : Heights, seen : Epochs \cup {HS!NoEpoch}]]

\* StartNewHeight comes with the lock and EndCurrentHeight gives it back.
Locked ==
  /\ ~panicked
  /\ done[epoch] <=> mu = NoRun
  /\ \A e \in Epochs : e > epoch => ~done[e]
  /\ \A i \in RunIds : runs[i].pc \in Started <=> mu = i
  /\ \A i \in RunIds : i >= loop.nextDone => runs[i].pc = "none"

\* The pool is never ahead of the chain.
Behind ==
  /\ currentHeight <= chain.height /\ bus.head <= chain.height /\ loop.recheckReq <= chain.height
  /\ \A i \in RunIds : runs[i].newHead <= chain.height
  /\ proposing => reader[proposer].height = chain.height
  /\ reader[proposer].pc # "panic"

IInv == Types /\ Locked /\ Behind

-----------------------------------------------------------------------------
LEMMA HeightsAreNaturals == Heights \subseteq Nat /\ Epochs \subseteq Nat /\ RunIds \subseteq Nat \ {0} /\ 0 \in Heights
  BY LoopAssumption DEF Heights, Epochs, RunIds

\* The block CurrentBlock reports is not above the committed one.
LEMMA CurrentBlockCommitted ==
  ASSUME Types, NEW head \in CurrentBlock
  PROVE  head \in Heights /\ head <= chain.height
  <1>1. chain.height \in Heights
    BY Zenon DEF Types
  <1>2. newLatestContext \subseteq {NoCtx, chain.height}
    BY Zenon DEF newLatestContext
  <1>3. head = 0 \/ head = chain.height
    BY <1>2, Zenon DEF CurrentBlock
  <1>4. chain.height \in Nat /\ 0 \in Heights
    BY <1>1, HeightsAreNaturals, Zenon
  <1> QED BY <1>1, <1>3, <1>4

LEMMA InitEstablishes == Init => IInv
  <1> SUFFICES ASSUME Init PROVE IInv
    BY Zenon
  <1> USE DEF Init
  <1>1. PICK head \in CurrentBlock : HS!Init /\ currentHeight = head
    BY Zenon
  <1>2. /\ epoch = 0 /\ stores = [e \in Epochs |-> {}] /\ done = [e \in Epochs |-> e = 0] /\ ~panicked
        /\ reader = [r \in {proposer} |-> [pc |-> "idle", height |-> 0, seen |-> HS!NoEpoch]]
        /\ currentHeight \in Heights
    BY <1>1, Zenon DEF HS!Init, HS!Epochs, HS!Heights, Epochs, Heights, HS!Genesis
  <1>3. Types
    <2>1. chain \in [height : Heights, publishing : BOOLEAN]
      BY Zenon
    <2>2. bc \in [latestCtx : Heights \cup {NoCtx}, hasPrevious : BOOLEAN]
      BY Zenon
    <2>3. bus \in [pc : BusPcs, head : Heights]
      BY HeightsAreNaturals, Zenon DEF BusPcs
    <2>4. DOMAIN loop = LoopFields /\ loop.nextDone \in Int /\ loop.recheckReq \in Heights
      BY HeightsAreNaturals DEF LoopFields
    <2>5. runs \in [RunIds -> [pc : RunPcs, newHead : Heights, left : SUBSET Txs]]
      BY HeightsAreNaturals, Zenon DEF RunPcs
    <2>6. epoch \in Epochs
      BY <1>2, LoopAssumption DEF Epochs
    <2>7. stores \in [Epochs -> SUBSET Txs]
      BY <1>2, Zenon
    <2>8. done \in [Epochs -> BOOLEAN]
      BY <1>2, Zenon
    <2>9. reader \in [{proposer} -> [pc : ReaderPcs, height : Heights, seen : Epochs \cup {HS!NoEpoch}]]
      BY <1>2, HeightsAreNaturals, Zenon DEF ReaderPcs
    <2> QED BY <1>2, <2>1, <2>2, <2>3, <2>4, <2>5, <2>6, <2>7, <2>8, <2>9, Zenon DEF Types
  <1>4. Locked
    <2>1. \A e \in Epochs : done[e] <=> e = 0
      BY <1>2, Zenon
    <2>2. epoch \in Epochs
      BY <1>3, Zenon DEF Types
    <2>3. \A i \in RunIds : runs[i].pc = "none" /\ i # NoRun
      BY HeightsAreNaturals, Zenon DEF NoRun
    <2> QED BY <1>2, <2>1, <2>2, <2>3, HeightsAreNaturals DEF Locked, Started, NoRun
  <1>5. Behind
    <2>1. currentHeight <= chain.height
      BY <1>1, <1>3, CurrentBlockCommitted, Zenon
    <2>2. chain.height \in Nat
      BY <1>3, HeightsAreNaturals, Zenon DEF Types
    <2>3. bus.head = 0 /\ loop.recheckReq = 0 /\ \A i \in RunIds : runs[i].newHead = 0
      BY Zenon
    <2>4. ~proposing /\ reader[proposer].pc # "panic"
      BY <1>2, Zenon DEF proposing, HS!Waiting
    <2> QED BY <2>1, <2>2, <2>3, <2>4 DEF Behind
  <1> QED BY <1>3, <1>4, <1>5, Zenon DEF IInv

-----------------------------------------------------------------------------
\* The chain, the bus and the loop

LEMMA ChainKeeps == ASSUME IInv, Commit \/ Publish \/ Close PROVE IInv'
  <1>1. /\ chain' \in [height : Heights, publishing : BOOLEAN] /\ chain.height <= chain'.height
        /\ chain'.height \in Nat /\ chain.height \in Nat /\ (proposing => chain'.height = chain.height)
    <2>1. chain \in [height : Heights, publishing : BOOLEAN] /\ chain.height \in Nat /\ MaxHeight \in Nat
      BY LoopAssumption, HeightsAreNaturals, Zenon DEF IInv, Types
    <2>2. CASE Commit
      <3>1. chain' = [height |-> chain.height + 1, publishing |-> TRUE] /\ chain.height < MaxHeight /\ ~proposing
        BY <2>2, Zenon DEF Commit
      <3>2. chain.height + 1 \in Heights
        BY <2>1, <3>1 DEF Heights
      <3> QED BY <2>1, <3>1, <3>2
    <2>3. CASE Publish \/ Close
      <3>1. chain'.height = chain.height /\ chain' \in [height : Heights, publishing : BOOLEAN]
        BY <2>1, <2>3, Zenon DEF Publish, Close
      <3> QED BY <2>1, <3>1
    <2> QED BY <2>2, <2>3, Zenon
  <1>2. UNCHANGED <<hs, reader, bc, bus, loop, runs, mu>>
    BY Zenon DEF Commit, Publish, Close, pool
  <1>3. Types'
    BY <1>1, <1>2, Zenon DEF IInv, Types, hs
  <1>4. Locked'
    BY <1>2, Zenon DEF IInv, Locked, hs
  <1>5. Behind'
    <2>1. currentHeight \in Nat /\ bus.head \in Nat /\ loop.recheckReq \in Nat /\ \A i \in RunIds : runs[i].newHead \in Nat
      BY HeightsAreNaturals, Zenon DEF IInv, Types
    <2>2. proposing' <=> proposing
      BY <1>2, Zenon DEF proposing
    <2> QED BY <1>1, <1>2, <2>1, <2>2 DEF IInv, Behind, hs
  <1> QED BY <1>3, <1>4, <1>5, Zenon DEF IInv

LEMMA BusKeeps ==
  ASSUME IInv, BusReceive \/ BusNotify \/ BusCurrentBlock \/ TriggerAfterShutdown
  PROVE  IInv'
  <1>1. UNCHANGED <<hs, reader, chain, loop, runs, mu>>
    BY Zenon DEF BusReceive, BusNotify, BusCurrentBlock, TriggerAfterShutdown, pool
  <1>2. bus' \in [pc : BusPcs, head : Heights] /\ (bus'.head = bus.head \/ bus'.head <= chain.height)
    <2>1. CASE BusCurrentBlock
      BY <2>1, CurrentBlockCommitted DEF IInv, BusCurrentBlock, BusPcs
    <2>2. CASE BusReceive \/ BusNotify \/ TriggerAfterShutdown
      BY <2>2, Zenon DEF BusReceive, BusNotify, TriggerAfterShutdown, IInv, Types, BusPcs
    <2> QED BY <2>1, <2>2, Zenon
  <1>3. bc' \in [latestCtx : Heights \cup {NoCtx}, hasPrevious : BOOLEAN]
    <2>1. CASE BusNotify
      <3>1. newLatestContext \subseteq Heights \cup {NoCtx}
        BY Zenon DEF newLatestContext, IInv, Types
      <3> QED BY <2>1, <3>1 DEF BusNotify, NotifyNewBlock
    <2>2. CASE BusReceive \/ BusCurrentBlock \/ TriggerAfterShutdown
      BY <2>2, Zenon DEF BusReceive, BusCurrentBlock, TriggerAfterShutdown, IInv, Types
    <2> QED BY <2>1, <2>2, Zenon
  <1>4. Types' /\ Locked'
    BY <1>1, <1>2, <1>3, Zenon DEF IInv, Types, Locked, hs
  <1>5. Behind'
    BY <1>1, <1>2, Zenon DEF IInv, Behind, hs, proposing
  <1> QED BY <1>4, <1>5, Zenon DEF IInv

LEMMA LoopKeeps ==
  ASSUME IInv, LoopTop \/ LoopRequest \/ LoopReply \/ LoopRunDone \/ LoopShutdown \/ LoopDrained
  PROVE  IInv'
  <1>1. UNCHANGED <<hs, reader, chain, bc, mu>>
    BY Zenon DEF LoopTop, LoopRequest, LoopReply, LoopRunDone, LoopShutdown, LoopDrained
  <1>2. bus' \in [pc : BusPcs, head : Heights] /\ bus'.head = bus.head
    BY Zenon DEF LoopTop, LoopRequest, LoopReply, LoopRunDone, LoopShutdown, LoopDrained, IInv, Types, BusPcs
  <1>3. DOMAIN loop = LoopFields /\ loop.nextDone \in Int /\ loop.recheckReq \in Heights /\ bus.head \in Heights
    BY Zenon DEF IInv, Types
  <1>4. CASE LoopTop /\ loop.curDone = NoRun /\ loop.launchNextRun
    <2>1. /\ runs' = [runs EXCEPT ![loop.nextDone] = [pc |-> "lock", newHead |-> loop.recheckReq, left |-> {}]]
          /\ loop' = [pc |-> "select", curDone |-> loop.nextDone, nextDone |-> loop.nextDone + 1,
                      launchNextRun |-> FALSE, recheckReq |-> 0, cancelCh |-> loop.nextDone]
          /\ bus' = bus
      BY <1>4, Zenon DEF LoopTop
    <2>2. DOMAIN loop' = LoopFields /\ loop'.nextDone \in Int /\ loop'.recheckReq \in Heights
      BY <1>3, <2>1, HeightsAreNaturals DEF LoopFields
    <2>3. runs' \in [RunIds -> [pc : RunPcs, newHead : Heights, left : SUBSET Txs]]
      BY <1>3, <2>1, Zenon DEF IInv, Types, RunPcs
    <2>4. Types'
      BY <1>1, <1>2, <2>2, <2>3, Zenon DEF IInv, Types, hs
    <2>5. /\ \A i \in RunIds : i # loop.nextDone => runs'[i] = runs[i]
          /\ loop.nextDone \in RunIds => runs'[loop.nextDone].pc = "lock" /\ runs'[loop.nextDone].newHead = loop.recheckReq
      BY <2>1, Zenon DEF IInv, Types
    <2>6. Locked'
      <3>1. \A i \in RunIds : runs'[i].pc \in Started <=> mu = i
        <4>1. loop.nextDone \in RunIds => runs[loop.nextDone].pc = "none"
          BY <1>3 DEF IInv, Locked
        <4> QED BY <2>5, <4>1, Zenon DEF IInv, Locked, Started
      <3>2. \A i \in RunIds : i >= loop'.nextDone => runs'[i].pc = "none"
        BY <1>3, <2>1, <2>5, HeightsAreNaturals DEF IInv, Locked
      <3> QED BY <1>1, <3>1, <3>2, Zenon DEF IInv, Locked, hs
    <2>7. Behind'
      <3>1. loop'.recheckReq = 0 /\ chain.height \in Nat
        BY <2>1, HeightsAreNaturals, Zenon DEF IInv, Types
      <3> QED BY <1>1, <1>2, <2>5, <3>1 DEF IInv, Behind, hs, proposing
    <2> QED BY <2>4, <2>6, <2>7, Zenon DEF IInv
  <1>5. CASE ~(LoopTop /\ loop.curDone = NoRun /\ loop.launchNextRun)
    <2>1. /\ runs' = runs /\ DOMAIN loop' = LoopFields /\ loop'.nextDone = loop.nextDone
          /\ loop'.recheckReq = loop.recheckReq \/ loop'.recheckReq = bus.head
      <3>1. CASE LoopTop
        BY <1>3, <1>5, <3>1, Zenon DEF LoopTop, LoopFields
      <3>2. CASE LoopRequest
        BY <1>3, <3>2, Zenon DEF LoopRequest, LoopFields, NoRun
      <3>3. CASE LoopReply
        BY <1>3, <3>3, Zenon DEF LoopReply, LoopFields
      <3>4. CASE LoopRunDone
        BY <1>3, <3>4, Zenon DEF LoopRunDone, LoopFields, NoRun
      <3>5. CASE LoopShutdown \/ LoopDrained
        BY <1>3, <3>5, Zenon DEF LoopShutdown, LoopDrained, LoopExit, LoopFields
      <3> QED BY <3>1, <3>2, <3>3, <3>4, <3>5, Zenon
    <2>2. Types' /\ Locked'
      BY <1>1, <1>2, <2>1, Zenon DEF IInv, Types, Locked, hs
    <2>3. Behind'
      BY <1>1, <1>2, <2>1, Zenon DEF IInv, Behind, hs, proposing
    <2> QED BY <2>2, <2>3, Zenon DEF IInv
  <1> QED BY <1>4, <1>5, Zenon

-----------------------------------------------------------------------------
\* runRecheck

\* What the steps of run i leave of the other runs, and what they keep of its own.
OnlyRun(i, pc) ==
  /\ runs' \in [RunIds -> [pc : RunPcs, newHead : Heights, left : SUBSET Txs]]
  /\ \A j \in RunIds : j # i => runs'[j] = runs[j]
  /\ runs'[i].pc = pc /\ runs'[i].newHead = runs[i].newHead

LEMMA MovesOn ==
  ASSUME Types, NEW i \in RunIds, NEW pc \in RunPcs, runs' = [runs EXCEPT ![i].pc = pc]
  PROVE  OnlyRun(i, pc)
  <1>1. runs[i] \in [pc : RunPcs, newHead : Heights, left : SUBSET Txs]
    BY Zenon DEF Types
  <1>2. [runs[i] EXCEPT !.pc = pc] \in [pc : RunPcs, newHead : Heights, left : SUBSET Txs]
    BY <1>1, Zenon
  <1>3. runs' = [runs EXCEPT ![i] = [runs[i] EXCEPT !.pc = pc]]
    BY Zenon DEF Types
  <1> QED BY <1>1, <1>2, <1>3, Zenon DEF OnlyRun, Types

\* With the lock free the height is ended, so StartNewHeight does not panic.
LEMMA StartTakesLock ==
  ASSUME IInv, NEW i \in RunIds, RunStart(i)
  PROVE  /\ isEnded /\ epoch + 1 \in Epochs /\ epoch' = epoch + 1 /\ currentHeight' = runs[i].newHead
         /\ UNCHANGED <<stores, done, panicked>>
         /\ OnlyRun(i, "context")
  <1>1. mu = NoRun /\ HS!StartNewHeight(runs[i].newHead) /\ runs' = [runs EXCEPT ![i].pc = "context"]
    BY Zenon DEF RunStart
  <1>2. done[epoch]
    BY <1>1, Zenon DEF IInv, Locked
  <1>3. /\ epoch < MaxEpoch /\ epoch' = epoch + 1 /\ currentHeight' = runs[i].newHead
        /\ UNCHANGED <<stores, done, panicked>>
    BY <1>1, <1>2, Zenon DEF HS!StartNewHeight, HS!isHeightEnded
  <1>4. epoch + 1 \in Epochs
    BY <1>3, LoopAssumption DEF IInv, Types, Epochs
  <1>5. OnlyRun(i, "context")
    BY <1>1, MovesOn, Zenon DEF IInv, RunPcs
  <1> QED BY <1>2, <1>3, <1>4, <1>5, Zenon DEF isEnded

LEMMA RunStartKeeps == ASSUME IInv, NEW i \in RunIds, RunStart(i) PROVE IInv'
  <1> USE DEF IInv
  <1>1. /\ epoch + 1 \in Epochs /\ epoch' = epoch + 1 /\ currentHeight' = runs[i].newHead
        /\ UNCHANGED <<stores, done, panicked>>
        /\ OnlyRun(i, "context")
    BY StartTakesLock, Zenon
  <1>2. UNCHANGED <<reader, chain, bc, bus, loop>> /\ mu = NoRun /\ mu' = i /\ runs[i].pc = "lock"
    BY Zenon DEF RunStart
  <1>3. Types'
    BY <1>1, <1>2, Zenon DEF Types, OnlyRun
  <1>4. Locked'
    <2>1. ~panicked' /\ (done'[epoch'] <=> mu' = NoRun) /\ \A e \in Epochs : e > epoch' => ~done'[e]
      BY <1>1, <1>2, HeightsAreNaturals DEF Types, Locked, NoRun
    <2>2. \A j \in RunIds : runs'[j].pc \in Started <=> mu' = j
      BY <1>1, <1>2, HeightsAreNaturals, Zenon DEF Locked, NoRun, OnlyRun, Started
    <2>3. \A j \in RunIds : j >= loop'.nextDone => runs'[j].pc = "none"
      BY <1>1, <1>2, Zenon DEF Locked, OnlyRun
    <2> QED BY <2>1, <2>2, <2>3, Zenon DEF Locked
  <1>5. Behind'
    BY <1>1, <1>2, Zenon DEF Behind, OnlyRun, proposing
  <1> QED BY <1>3, <1>4, <1>5, Zenon

\* Between the two the run keeps the lock, and changes at most the open store.
LEMMA RunWorkKeeps ==
  ASSUME IInv, NEW i \in RunIds, RunContext(i) \/ RunCancelled(i) \/ RunCheckTx(i) \/ RunChecked(i)
  PROVE  IInv'
  <1> USE DEF IInv
  <1>1. UNCHANGED <<reader, chain, bc, bus, loop, mu, currentHeight, epoch, done, panicked>>
    BY Zenon DEF RunContext, RunCancelled, RunCheckTx, RunChecked, hs, HS!Do
  <1>2. stores' \in [Epochs -> SUBSET Txs]
    <2>1. CASE RunCheckTx(i)
      <3>1. PICK tx \in runs[i].left : HS!Do(stores[epoch] \cup {tx}) \/ UNCHANGED hs
        BY <2>1, Zenon DEF RunCheckTx
      <3> QED BY <3>1 DEF HS!Do, hs, Types
    <2>2. CASE RunContext(i) \/ RunCancelled(i) \/ RunChecked(i)
      BY <2>2, Zenon DEF RunContext, RunCancelled, RunChecked, hs, Types
    <2> QED BY <2>1, <2>2, Zenon
  <1>3. PICK pc \in Started : OnlyRun(i, pc)
    <2>1. CASE RunContext(i)
      <3>1. runs' = [runs EXCEPT ![i].pc = "end"] \/ runs' = [runs EXCEPT ![i].pc = "check", ![i].left = Txs]
        BY <2>1, Zenon DEF RunContext
      <3>2. CASE runs' = [runs EXCEPT ![i].pc = "end"]
        BY <3>2, MovesOn, Zenon DEF RunPcs, Started
      <3>3. CASE runs' = [runs EXCEPT ![i].pc = "check", ![i].left = Txs]
        <4>1. runs[i] \in [pc : RunPcs, newHead : Heights, left : SUBSET Txs]
          BY Zenon DEF Types
        <4>2. [runs[i] EXCEPT !.pc = "check", !.left = Txs] \in [pc : RunPcs, newHead : Heights, left : SUBSET Txs]
          BY <4>1, Zenon DEF RunPcs
        <4>3. runs' = [runs EXCEPT ![i] = [runs[i] EXCEPT !.pc = "check", !.left = Txs]]
          BY <3>3, Zenon DEF Types
        <4>4. OnlyRun(i, "check")
          BY <4>1, <4>2, <4>3, Zenon DEF OnlyRun, Types
        <4> QED BY <4>4, Zenon DEF Started
      <3> QED BY <3>1, <3>2, <3>3, Zenon
    <2>2. CASE RunCheckTx(i)
      <3>1. PICK tx \in runs[i].left : runs' = [runs EXCEPT ![i].left = @ \ {tx}]
        BY <2>2, Zenon DEF RunCheckTx
      <3>2. OnlyRun(i, "check")
        BY <2>2, <3>1 DEF RunCheckTx, OnlyRun, Types
      <3> QED BY <3>2, Zenon DEF Started
    <2>3. CASE RunCancelled(i) \/ RunChecked(i)
      <3>1. OnlyRun(i, "end")
        BY <2>3, MovesOn, Zenon DEF RunCancelled, RunChecked, RunPcs
      <3> QED BY <3>1, Zenon DEF Started
    <2> QED BY <2>1, <2>2, <2>3, Zenon
  <1>4. runs[i].pc \in Started
    BY Zenon DEF RunContext, RunCancelled, RunCheckTx, RunChecked, Started
  <1>5. Types'
    BY <1>1, <1>2, <1>3, Zenon DEF Types, OnlyRun
  <1>6. Locked'
    <2>1. \A j \in RunIds : runs'[j].pc \in Started <=> mu' = j
      BY <1>1, <1>3, <1>4, Zenon DEF Locked, OnlyRun
    <2>2. \A j \in RunIds : j >= loop'.nextDone => runs'[j].pc = "none"
      BY <1>1, <1>3, <1>4 DEF Locked, OnlyRun, Started
    <2> QED BY <1>1, <2>1, <2>2, Zenon DEF Locked
  <1>7. Behind'
    BY <1>1, <1>3, Zenon DEF Behind, OnlyRun, proposing
  <1> QED BY <1>5, <1>6, <1>7, Zenon

\* The run that holds the lock left the height open, so EndCurrentHeight does
\* not panic.
LEMMA EndGivesBack ==
  ASSUME IInv, NEW i \in RunIds, RunEnd(i)
  PROVE  /\ ~isEnded /\ ~panicked' /\ done' = [done EXCEPT ![epoch] = TRUE]
         /\ UNCHANGED <<currentHeight, epoch, stores>> /\ OnlyRun(i, "close") /\ mu = i
  <1>1. mu = i /\ mu # NoRun
    BY HeightsAreNaturals, Zenon DEF IInv, Locked, Started, RunEnd, NoRun
  <1>2. ~done[epoch]
    BY <1>1, Zenon DEF IInv, Locked
  <1>3. OnlyRun(i, "close")
    BY MovesOn, Zenon DEF RunEnd, IInv, RunPcs
  <1> QED BY <1>1, <1>2, <1>3, Zenon DEF RunEnd, HS!EndCurrentHeight, HS!isHeightEnded, isEnded

LEMMA RunEndKeeps == ASSUME IInv, NEW i \in RunIds, RunEnd(i) PROVE IInv'
  <1> USE DEF IInv
  <1>1. /\ ~panicked' /\ done' = [done EXCEPT ![epoch] = TRUE]
        /\ UNCHANGED <<currentHeight, epoch, stores>> /\ OnlyRun(i, "close") /\ mu = i
    BY EndGivesBack, Zenon
  <1>2. UNCHANGED <<reader, chain, bc, bus, loop>> /\ mu' = NoRun /\ runs[i].pc = "end"
    BY Zenon DEF RunEnd
  <1>3. Types'
    BY <1>1, <1>2, Zenon DEF Types, OnlyRun
  <1>4. Locked'
    <2>1. done'[epoch'] /\ \A e \in Epochs : e > epoch' => ~done'[e]
      BY <1>1, HeightsAreNaturals DEF Types, Locked
    <2>2. \A j \in RunIds : runs'[j].pc \in Started <=> mu' = j
      BY <1>1, <1>2, HeightsAreNaturals, Zenon DEF Locked, NoRun, OnlyRun, Started
    <2>3. \A j \in RunIds : j >= loop'.nextDone => runs'[j].pc = "none"
      BY <1>1, <1>2, Zenon DEF Locked, OnlyRun
    <2> QED BY <1>1, <1>2, <2>1, <2>2, <2>3, Zenon DEF Locked
  <1>5. Behind'
    BY <1>1, <1>2, Zenon DEF Behind, OnlyRun, proposing
  <1> QED BY <1>3, <1>4, <1>5, Zenon

LEMMA RunCloseKeeps == ASSUME IInv, NEW i \in RunIds, RunClose(i) PROVE IInv'
  <1> USE DEF IInv
  <1>1. UNCHANGED <<hs, reader, chain, bc, bus, loop, mu>> /\ runs[i].pc = "close"
    BY Zenon DEF RunClose
  <1>2. OnlyRun(i, "finished")
    BY MovesOn, Zenon DEF RunClose, RunPcs
  <1>3. Types'
    BY <1>1, <1>2, Zenon DEF Types, OnlyRun, hs
  <1>4. Locked'
    BY <1>1, <1>2, Zenon DEF Locked, OnlyRun, hs, Started
  <1>5. Behind'
    BY <1>1, <1>2, Zenon DEF Behind, OnlyRun, hs, proposing
  <1> QED BY <1>3, <1>4, <1>5, Zenon

\* An insert leaves a set of transactions in the current store.
LEMMA InsertIsDo == ASSUME IInv, Insert PROVE \E content \in SUBSET Txs : HS!Do(content)
  <1>1. stores[epoch] \in SUBSET Txs
    BY Zenon DEF IInv, Types
  <1>2. CASE \E tx \in Txs : HS!Do(stores[epoch] \cup {tx})
    <2>1. PICK tx \in Txs : HS!Do(stores[epoch] \cup {tx})
      BY <1>2, Zenon
    <2>2. stores[epoch] \cup {tx} \in SUBSET Txs
      BY <1>1, Zenon
    <2> QED BY <2>1, <2>2, Zenon
  <1>3. CASE \E invalid \in SUBSET stores[epoch] : HS!Do(stores[epoch] \ invalid)
    <2>1. PICK invalid \in SUBSET stores[epoch] : HS!Do(stores[epoch] \ invalid)
      BY <1>3, Zenon
    <2>2. stores[epoch] \ invalid \in SUBSET Txs
      BY <1>1, Zenon
    <2> QED BY <2>1, <2>2, Zenon
  <1> QED BY <1>2, <1>3, Zenon DEF Insert

LEMMA InsertKeeps == ASSUME IInv, Insert PROVE IInv'
  <1> USE DEF IInv
  <1>1. PICK content \in SUBSET Txs : HS!Do(content)
    BY InsertIsDo, Zenon
  <1>2. UNCHANGED <<reader, chain, bc, bus, loop, runs, mu>>
    BY Zenon DEF Insert, pool
  <1>3. /\ stores' = [stores EXCEPT ![epoch] = content]
        /\ UNCHANGED <<currentHeight, epoch, done, panicked>>
    BY <1>1, Zenon DEF HS!Do
  <1>4. Types'
    BY <1>2, <1>3, Zenon DEF Types
  <1>5. Locked'
    BY <1>2, <1>3, Zenon DEF Locked
  <1>6. Behind'
    BY <1>2, <1>3, Zenon DEF Behind, proposing
  <1> QED BY <1>4, <1>5, <1>6, Zenon

-----------------------------------------------------------------------------
\* The proposer

\* A proposal asks for the committed height, which stays until it is prepared.
LEMMA ProposerKeeps == ASSUME IInv, getIterators \/ cosmosIterator PROVE IInv'
  <1> USE DEF IInv
  <1> DEFINE call == reader[proposer]
             States == [pc : ReaderPcs, height : Heights, seen : Epochs \cup {HS!NoEpoch}]
  <1>1. UNCHANGED <<hs, chain, bc, bus, loop, runs, mu>>
    BY Zenon DEF getIterators, cosmosIterator, pool
  <1>2. call \in States /\ epoch \in Epochs /\ chain.height \in Heights
    BY Zenon DEF Types
  <1>3. /\ reader' \in [{proposer} -> States]
        /\ reader'[proposer].pc # "panic"
        /\ reader'[proposer].pc \in HS!Waiting => reader'[proposer].height = chain.height
    <2>1. CASE getIterators
      <3>1. reader' = [reader EXCEPT ![proposer] = [pc |-> "check", height |-> chain.height, seen |-> HS!NoEpoch]]
        BY <2>1, Zenon DEF getIterators, HS!GetStore
      <3> QED BY <1>2, <3>1, Zenon DEF Types, ReaderPcs
    <2>2. CASE cosmosIterator
      <3>1. call.pc \in HS!Waiting /\ call.height = chain.height
        BY <2>2, Zenon DEF cosmosIterator, HS!CheckHeight, HS!StoreDone, HS!HeightChanged, HS!StoreTimeout,
                    HS!HeightTimeout, HS!Waiting, Behind, proposing
      <3>2. CASE HS!CheckHeight(proposer)
        <4>1. ~(currentHeight > call.height)
          <5>1. currentHeight \in Nat /\ chain.height \in Nat
            BY HeightsAreNaturals, Zenon DEF Types
          <5> QED BY <3>1, <5>1 DEF Behind
        <4>2. PICK pc \in {"genesis", "waitDone", "waitHeight"} :
                reader' = [reader EXCEPT ![proposer] = [pc |-> pc, height |-> call.height, seen |-> epoch]]
          BY <3>2, <4>1, Zenon DEF HS!CheckHeight
        <4>3. reader'[proposer] = [pc |-> pc, height |-> call.height, seen |-> epoch]
          BY <4>2, Zenon DEF Types
        <4>4. [pc |-> pc, height |-> call.height, seen |-> epoch] \in States
          BY <1>2, <4>2, Zenon DEF ReaderPcs
        <4> QED BY <3>1, <4>2, <4>3, <4>4, Zenon DEF Types
      <3>3. CASE ~HS!CheckHeight(proposer)
        <4>1. PICK pc \in {"complete", "timeout", "check", "nil"} : reader' = [reader EXCEPT ![proposer].pc = pc]
          BY <2>2, <3>3, Zenon DEF cosmosIterator, HS!StoreDone, HS!HeightChanged, HS!StoreTimeout, HS!HeightTimeout
        <4>2. reader'[proposer].pc = pc /\ reader'[proposer].height = call.height
          BY <1>2, <4>1, Zenon DEF Types
        <4>3. reader' \in [{proposer} -> States]
          BY <1>2, <4>1, Zenon DEF Types, ReaderPcs
        <4> QED BY <3>1, <4>1, <4>2, <4>3, Zenon
      <3> QED BY <3>2, <3>3, Zenon
    <2> QED BY <2>1, <2>2, Zenon
  <1>4. Types'
    BY <1>1, <1>3, Zenon DEF Types, hs
  <1>5. Locked'
    BY <1>1, Zenon DEF Locked, hs
  <1>6. Behind'
    BY <1>1, <1>3, Zenon DEF Behind, hs, proposing
  <1> QED BY <1>4, <1>5, <1>6, Zenon

LEMMA StepKeeps == IInv /\ [Next]_vars => IInv'
  <1> SUFFICES ASSUME IInv, [Next]_vars PROVE IInv'
    BY Zenon
  <1>1. CASE Commit \/ Publish \/ Close
    BY <1>1, ChainKeeps, Zenon
  <1>2. CASE getIterators \/ cosmosIterator
    BY <1>2, ProposerKeeps, Zenon
  <1>3. CASE busStep
    BY <1>3, BusKeeps, Zenon DEF busStep
  <1>4. CASE loopStep
    BY <1>4, LoopKeeps, Zenon DEF loopStep
  <1>5. CASE \E i \in RunIds : runRecheck(i)
    <2>1. PICK i \in RunIds : runRecheck(i)
      BY <1>5, Zenon
    <2> QED BY <2>1, RunStartKeeps, RunWorkKeeps, RunEndKeeps, RunCloseKeeps, Zenon DEF runRecheck
  <1>6. CASE Insert
    BY <1>6, InsertKeeps, Zenon
  <1>7. CASE UNCHANGED vars
    <2>1. UNCHANGED <<chain, bc, bus, loop, runs, mu, currentHeight, epoch, stores, done, panicked, reader>>
      BY <1>7, Zenon DEF vars, hs, pool
    <2> QED BY <2>1, Zenon DEF IInv, Types, Locked, Behind, proposing
  <1> QED BY <1>1, <1>2, <1>3, <1>4, <1>5, <1>6, <1>7, Zenon DEF Next, busStep, loopStep

LEMMA Invariance == Spec => []IInv
  BY InitEstablishes, StepKeeps, PTL DEF Spec

-----------------------------------------------------------------------------
\* No interleaving of commits, events, requests, cancellations, inserts,
\* proposals and a shutdown makes StartNewHeight, EndCurrentHeight or GetStore
\* panic (mempool/internal/heightsync/heightsync.go).
THEOREM CallsNeverPanic == Spec => []NeverPanics
  <1>1. IInv => NeverPanics
    BY Zenon DEF IInv, Locked, Behind, NeverPanics
  <1> QED BY <1>1, Invariance, PTL

\* Every step is one of module HeightSync or leaves its variables alone.
LEMMA StepImplements == IInv /\ [Next]_vars => [HS!Next]_(HS!vars)
  <1> SUFFICES ASSUME IInv, [Next]_vars PROVE HS!Next \/ UNCHANGED <<hs, reader>>
    BY Zenon DEF HS!vars, hs
  <1>1. CASE Commit \/ Publish \/ Close
    BY <1>1, Zenon DEF Commit, Publish, Close
  <1>2. CASE getIterators
    <2>1. chain.height \in HS!Heights
      BY Zenon DEF IInv, Types, Heights, HS!Heights
    <2>2. HS!GetStore(proposer, chain.height) /\ UNCHANGED HS!hsVars
      BY <1>2, Zenon DEF getIterators, hs, HS!hsVars
    <2>3. \E r \in {proposer}, h \in HS!Heights : HS!GetStore(r, h) /\ UNCHANGED HS!hsVars
      BY <2>1, <2>2, Zenon
    <2> QED BY <2>3, Zenon DEF HS!Next
  <1>3. CASE cosmosIterator
    <2>1. HS!ReaderStep(proposer) /\ UNCHANGED HS!hsVars
      BY <1>3, Zenon DEF cosmosIterator, HS!ReaderStep, hs, HS!hsVars
    <2> QED BY <2>1, Zenon DEF HS!Next
  <1>4. CASE busStep
    BY <1>4, Zenon DEF busStep, BusReceive, BusNotify, BusCurrentBlock, TriggerAfterShutdown
  <1>5. CASE loopStep
    BY <1>5, Zenon DEF loopStep, LoopTop, LoopRequest, LoopReply, LoopRunDone, LoopShutdown, LoopDrained
  <1>6. CASE \E i \in RunIds : runRecheck(i)
    <2>1. PICK i \in RunIds : runRecheck(i)
      BY <1>6, Zenon
    <2>2. CASE RunStart(i)
      <3>1. HS!isHeightEnded
        BY <2>2, StartTakesLock, Zenon DEF isEnded, HS!isHeightEnded
      <3>2. runs[i].newHead \in HS!Heights
        BY Zenon DEF IInv, Types, Heights, HS!Heights
      <3>3. HS!StartNewHeight(runs[i].newHead) /\ UNCHANGED reader
        BY <2>2, Zenon DEF RunStart
      <3>4. HS!OwnerStep
        BY <3>1, <3>2, <3>3, Zenon DEF HS!OwnerStep
      <3> QED BY <3>3, <3>4, Zenon DEF HS!Next
    <2>3. CASE RunEnd(i)
      <3>1. ~HS!isHeightEnded
        BY <2>3, EndGivesBack, Zenon DEF isEnded, HS!isHeightEnded
      <3>2. HS!EndCurrentHeight /\ UNCHANGED reader
        BY <2>3, Zenon DEF RunEnd
      <3>3. HS!OwnerStep
        BY <3>1, <3>2, Zenon DEF HS!OwnerStep
      <3> QED BY <3>2, <3>3, Zenon DEF HS!Next
    <2>4. CASE RunCheckTx(i)
      <3>1. PICK tx \in runs[i].left : HS!Do(stores[epoch] \cup {tx}) \/ UNCHANGED hs
        BY <2>4, Zenon DEF RunCheckTx
      <3>2. UNCHANGED reader
        BY <2>4, Zenon DEF RunCheckTx
      <3>3. stores[epoch] \cup {tx} \in SUBSET Txs
        BY Zenon DEF IInv, Types
      <3> QED BY <3>1, <3>2, <3>3, Zenon DEF HS!Next
    <2>5. CASE RunContext(i) \/ RunCancelled(i) \/ RunChecked(i) \/ RunClose(i)
      BY <2>5, Zenon DEF RunContext, RunCancelled, RunChecked, RunClose
    <2> QED BY <2>1, <2>2, <2>3, <2>4, <2>5, Zenon DEF runRecheck
  <1>7. CASE Insert
    <2>1. PICK content \in SUBSET Txs : HS!Do(content)
      BY <1>7, InsertIsDo, Zenon
    <2>2. UNCHANGED reader
      BY <1>7, Zenon DEF Insert
    <2> QED BY <2>1, <2>2, Zenon DEF HS!Next
  <1>8. CASE UNCHANGED vars
    BY <1>8, Zenon DEF vars
  <1> QED
    BY <1>1, <1>2, <1>3, <1>4, <1>5, <1>6, <1>7, <1>8, Zenon DEF Next, busStep, loopStep

\* The recheck loop, its runs, the inserters and the proposer use the HeightSync
\* by its protocol: each behaviour of the pool is one of module HeightSync, whose
\* theorems therefore hold of the pool's stores and of the proposer's calls.
THEOREM PoolImplementsHeightSync == Spec => ImplementsHeightSync
  <1>1. Init => HS!Init
    BY Zenon DEF Init
  <1> QED BY <1>1, StepImplements, Invariance, PTL DEF Spec, HS!Spec, ImplementsHeightSync
=============================================================================
