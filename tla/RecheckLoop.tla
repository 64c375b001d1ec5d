----------------------------- MODULE RecheckLoop -----------------------------
(***************************************************************************)
(* How the Cosmos side of the Krakatoa mempool follows the chain: the      *)
(* consensus engine commits blocks and publishes a header event for each,  *)
(* the goroutine of SetEventBus refreshes the Blockchain adapter and       *)
(* triggers a recheck, scheduleRecheckLoop runs one recheck at a time and  *)
(* cancels the running one, runRecheck fills the HeightSync store of its   *)
(* height, inserts rewrite that store, and a proposer reads the store of   *)
(* the latest committed height.                                            *)
(*                                                                         *)
(* The HeightSync is the one of module HeightSync, over the same           *)
(* variables.  A done channel and the run it belongs to share one number.  *)
(***************************************************************************)
EXTENDS Integers, FiniteSets

CONSTANTS
  Txs,              \* transactions in the pool at every recheck
  MaxHeight,        \* bound on committed heights
  MaxEpoch,         \* bound on StartNewHeight calls, never binding here
  EventBuffer,      \* capacity of the event bus subscription
  MayFail,          \* committed heights whose query context may be missing
  ProposalTimeout   \* pendingTxProposalTimeout > 0

ASSUME LoopAssumption == MaxHeight \in Nat /\ MaxEpoch \in Nat

VARIABLES
  currentHeight, epoch, heightOf, stores, done, panicked, reader,
  chain,      \* consensus engine: committed height, header event to publish
  sub,        \* event bus subscription: alive, number of buffered events
  bc,         \* Blockchain: height of latestCtx, is previousHeaderHash set
  bus,        \* goroutine of SetEventBus
  loop,       \* locals of scheduleRecheckLoop
  runs,       \* runRecheck goroutines
  mu,         \* RecheckMempool.mu: the run that holds it, or NoRun
  closed,     \* done channels that are closed
  cancelled,  \* runs whose cancel channel is closed
  handed,     \* done channels returned by TriggerRecheck (history)
  shutdown,   \* shutdownCh is closed
  verdict     \* per epoch: context height and outcome of its run (history)

hs == <<currentHeight, epoch, heightOf, stores, done, panicked>>
pool == <<loop, runs, mu, closed, cancelled, handed, shutdown>>
vars == <<hs, reader, chain, sub, bc, bus, pool, verdict>>

proposer == "proposer"
HS == INSTANCE HeightSync WITH Readers <- {proposer}

Heights == 0..MaxHeight
Epochs == 0..MaxEpoch
NoCtx == -1
NoRun == 0
RunIds == 1..(MaxHeight + 1)

-----------------------------------------------------------------------------
\* Blockchain, the adapter between the pools and the application

\* newLatestContext: the height of the committed state, or an error.  There is
\* no context before the first block.
newLatestContext ==
  IF chain.height = 0 THEN {NoCtx}
  ELSE {chain.height} \cup (IF chain.height \in MayFail THEN {NoCtx} ELSE {})

\* CurrentBlock: height of the header, the zero header without a context and
\* after a restart until a previous header hash is known.
CurrentBlock ==
  {IF ctx = NoCtx \/ (ctx > 1 /\ ~bc.hasPrevious) THEN 0 ELSE ctx : ctx \in newLatestContext}

GetLatestContext == IF bc.latestCtx # NoCtx THEN {bc.latestCtx} ELSE newLatestContext

\* Mutant: a context that is already there is kept.
NotifyNewBlockKeepsContext ==
  \E ctx \in newLatestContext :
    bc' = [latestCtx |-> IF bc.latestCtx = NoCtx THEN ctx ELSE bc.latestCtx, hasPrevious |-> TRUE]

\* NotifyNewBlock: the header it builds also sets previousHeaderHash.
NotifyNewBlock ==
  \E ctx \in newLatestContext : bc' = [latestCtx |-> ctx, hasPrevious |-> TRUE]

-----------------------------------------------------------------------------
Init ==
  /\ chain \in [height : Heights, publishing : {FALSE}]
  /\ bc = [latestCtx |-> NoCtx, hasPrevious |-> FALSE]
  /\ \E head \in CurrentBlock : HS!Init /\ currentHeight = head
  /\ sub = [alive |-> TRUE, events |-> 0]
  /\ bus = [pc |-> "recv", head |-> 0]
  /\ loop = [pc |-> "top", curDone |-> NoRun, nextDone |-> 1, launchNextRun |-> FALSE,
             recheckReq |-> 0, cancelCh |-> NoRun]
  /\ runs = [i \in RunIds |-> [pc |-> "none", newHead |-> 0, left |-> {}]]
  /\ mu = NoRun
  /\ closed = {} /\ cancelled = {} /\ handed = {}
  /\ shutdown = FALSE
  /\ verdict = [e \in Epochs |-> [ctx |-> NoCtx, outcome |-> "none"]]

-----------------------------------------------------------------------------
\* Consensus engine (external).  PrepareProposal and the commit of a block run
\* on the same goroutine: nothing is committed while a proposal is prepared.
proposing == reader[proposer].pc \in HS!Waiting

Commit ==
  /\ ~proposing /\ ~chain.publishing
  /\ chain.height < MaxHeight
  /\ chain' = [height |-> chain.height + 1, publishing |-> TRUE]
  /\ UNCHANGED <<hs, reader, sub, bc, bus, pool, verdict>>

\* The event bus does not wait for a subscriber: one whose buffer is full loses
\* its subscription.
Publish ==
  /\ chain.publishing
  /\ chain' = [chain EXCEPT !.publishing = FALSE]
  /\ sub' = IF ~sub.alive THEN sub
            ELSE IF sub.events < EventBuffer THEN [sub EXCEPT !.events = @ + 1]
            ELSE [sub EXCEPT !.alive = FALSE]
  /\ UNCHANGED <<hs, reader, bc, bus, pool, verdict>>

-----------------------------------------------------------------------------
\* Proposer: getIterators asks for ctx.BlockHeight() - 1, the committed height.

getIterators ==
  /\ ~proposing /\ ~chain.publishing
  /\ HS!GetStore(proposer, chain.height)
  /\ UNCHANGED <<hs, chain, sub, bc, bus, pool, verdict>>

\* Mutant: the timeout only bounds the wait for a recheck that has started.
cosmosIteratorWaitsForHeight ==
  /\ \/ HS!CheckHeight(proposer) \/ HS!StoreDone(proposer) \/ HS!HeightChanged(proposer)
     \/ ProposalTimeout /\ HS!StoreTimeout(proposer)
  /\ UNCHANGED <<hs, chain, sub, bc, bus, pool, verdict>>

\* cosmosIterator: the steps of the GetStore call, with the timeout it sets up.
cosmosIterator ==
  /\ \/ HS!CheckHeight(proposer) \/ HS!StoreDone(proposer) \/ HS!HeightChanged(proposer)
     \/ ProposalTimeout /\ (HS!StoreTimeout(proposer) \/ HS!HeightTimeout(proposer))
  /\ UNCHANGED <<hs, chain, sub, bc, bus, pool, verdict>>

-----------------------------------------------------------------------------
\* SetEventBus: receive, NotifyNewBlock, CurrentBlock, TriggerRecheck

BusReceive ==
  /\ bus.pc = "recv" /\ sub.events > 0
  /\ sub' = [sub EXCEPT !.events = @ - 1]
  /\ bus' = [bus EXCEPT !.pc = "notify"]
  /\ UNCHANGED <<hs, reader, chain, bc, pool, verdict>>

BusNotify ==
  /\ bus.pc = "notify"
  /\ NotifyNewBlock
  /\ bus' = [bus EXCEPT !.pc = "current"]
  /\ UNCHANGED <<hs, reader, chain, sub, pool, verdict>>

BusCurrentBlock ==
  /\ bus.pc = "current"
  /\ \E head \in CurrentBlock : bus' = [pc |-> "trigger", head |-> head]
  /\ UNCHANGED <<hs, reader, chain, sub, bc, pool, verdict>>

\* TriggerRecheck after the loop has exited returns a closed channel.
TriggerAfterShutdown ==
  /\ bus.pc = "trigger" /\ loop.pc = "exited"
  /\ bus' = [bus EXCEPT !.pc = "recv"]
  /\ UNCHANGED <<hs, reader, chain, sub, bc, pool, verdict>>

-----------------------------------------------------------------------------
\* scheduleRecheckLoop

LoopTop ==
  /\ loop.pc = "top"
  /\ IF loop.curDone = NoRun /\ loop.launchNextRun
       THEN /\ runs' = [runs EXCEPT ![loop.nextDone] =
                          [pc |-> "lock", newHead |-> loop.recheckReq, left |-> {}]]
            /\ loop' = [pc |-> "select", curDone |-> loop.nextDone,
                        nextDone |-> loop.nextDone + 1, launchNextRun |-> FALSE,
                        recheckReq |-> 0, cancelCh |-> loop.nextDone]
       ELSE loop' = [loop EXCEPT !.pc = "select"] /\ UNCHANGED runs
  /\ UNCHANGED <<hs, reader, chain, sub, bc, bus, mu, closed, cancelled, handed, shutdown, verdict>>

cancelRunning == IF loop.curDone # NoRun /\ loop.cancelCh # NoRun
                   THEN cancelled \cup {loop.cancelCh} ELSE cancelled

\* The request is received; the answer is a second rendezvous.
LoopRequest ==
  /\ loop.pc = "select" /\ bus.pc = "trigger"
  /\ cancelled' = cancelRunning
  /\ loop' = [loop EXCEPT !.pc = "reply", !.recheckReq = bus.head, !.launchNextRun = TRUE,
                          !.cancelCh = IF loop.curDone # NoRun THEN NoRun ELSE @]
  /\ bus' = [bus EXCEPT !.pc = "await"]
  /\ UNCHANGED <<hs, reader, chain, sub, bc, runs, mu, closed, handed, shutdown, verdict>>

LoopReply ==
  /\ loop.pc = "reply" /\ bus.pc = "await"
  /\ handed' = handed \cup {loop.nextDone}
  /\ loop' = [loop EXCEPT !.pc = "top"]
  /\ bus' = [bus EXCEPT !.pc = "recv"]
  /\ UNCHANGED <<hs, reader, chain, sub, bc, runs, mu, closed, cancelled, shutdown, verdict>>

LoopRunDone ==
  /\ loop.pc = "select" /\ loop.curDone \in closed
  /\ loop' = [loop EXCEPT !.pc = "top", !.curDone = NoRun, !.cancelCh = NoRun]
  /\ UNCHANGED <<hs, reader, chain, sub, bc, bus, runs, mu, closed, cancelled, handed, shutdown, verdict>>

\* Mutant: the done channel of the run that was never launched stays open.
LoopExitForgetsNext ==
  /\ loop' = [loop EXCEPT !.pc = "exited"]
  /\ closed' = closed

\* Leaving the loop closes nextDone, whether or not a request waits for it.
LoopExit ==
  /\ loop' = [loop EXCEPT !.pc = "exited"]
  /\ closed' = closed \cup {loop.nextDone}

LoopShutdown ==
  /\ loop.pc = "select" /\ shutdown
  /\ cancelled' = cancelRunning
  /\ IF loop.curDone # NoRun
       THEN loop' = [loop EXCEPT !.pc = "drain"] /\ UNCHANGED closed
       ELSE LoopExit
  /\ UNCHANGED <<hs, reader, chain, sub, bc, bus, runs, mu, handed, shutdown, verdict>>

LoopDrained ==
  /\ loop.pc = "drain" /\ loop.curDone \in closed
  /\ LoopExit
  /\ UNCHANGED <<hs, reader, chain, sub, bc, bus, runs, mu, cancelled, handed, shutdown, verdict>>

\* KrakatoaMempool.Close: unsubscribe, then close the recheck pool.
Close ==
  /\ ~shutdown
  /\ shutdown' = TRUE
  /\ sub' = [sub EXCEPT !.alive = FALSE]
  /\ UNCHANGED <<hs, reader, chain, bc, bus, loop, runs, mu, closed, cancelled, handed, verdict>>

-----------------------------------------------------------------------------
\* runRecheck, under the write lock from StartNewHeight to EndCurrentHeight

\* Mutant: a second recheck of one height reopens the store of the first.
RunStartReopens(i) ==
  /\ runs[i].pc = "lock" /\ mu = NoRun
  /\ mu' = i
  /\ IF runs[i].newHead = currentHeight
       THEN done' = [done EXCEPT ![epoch] = FALSE]
            /\ UNCHANGED <<currentHeight, epoch, heightOf, stores, panicked>>
       ELSE HS!StartNewHeight(runs[i].newHead)
  /\ runs' = [runs EXCEPT ![i].pc = "context"]
  /\ UNCHANGED <<reader, chain, sub, bc, bus, loop, closed, cancelled, handed, shutdown, verdict>>

RunStart(i) ==
  /\ runs[i].pc = "lock" /\ mu = NoRun
  /\ mu' = i
  /\ HS!StartNewHeight(runs[i].newHead)
  /\ runs' = [runs EXCEPT ![i].pc = "context"]
  /\ UNCHANGED <<reader, chain, sub, bc, bus, loop, closed, cancelled, handed, shutdown, verdict>>

\* Without a context the run ends with an empty store.
RunContext(i) ==
  /\ runs[i].pc = "context"
  /\ \E ctx \in GetLatestContext :
       IF ctx = NoCtx
         THEN /\ runs' = [runs EXCEPT ![i].pc = "end"]
              /\ verdict' = [verdict EXCEPT ![epoch] = [ctx |-> NoCtx, outcome |-> "noContext"]]
         ELSE /\ runs' = [runs EXCEPT ![i].pc = "check", ![i].left = Txs]
              /\ verdict' = [verdict EXCEPT ![epoch].ctx = ctx]
  /\ UNCHANGED <<hs, reader, chain, sub, bc, bus, loop, mu, closed, cancelled, handed, shutdown>>

RunCancelled(i) ==
  /\ runs[i].pc = "check" /\ i \in cancelled
  /\ runs' = [runs EXCEPT ![i].pc = "end"]
  /\ verdict' = [verdict EXCEPT ![epoch].outcome = "cancelled"]
  /\ UNCHANGED <<hs, reader, chain, sub, bc, bus, loop, mu, closed, cancelled, handed, shutdown>>

\* The next transaction passes and joins the store, or fails and is dropped.
RunCheckTx(i) ==
  /\ runs[i].pc = "check" /\ i \notin cancelled
  /\ \E tx \in runs[i].left :
       /\ runs' = [runs EXCEPT ![i].left = @ \ {tx}]
       /\ HS!Do(stores[epoch] \cup {tx}) \/ UNCHANGED hs
  /\ UNCHANGED <<reader, chain, sub, bc, bus, loop, mu, closed, cancelled, handed, shutdown, verdict>>

RunChecked(i) ==
  /\ runs[i].pc = "check" /\ runs[i].left = {} /\ i \notin cancelled
  /\ runs' = [runs EXCEPT ![i].pc = "end"]
  /\ verdict' = [verdict EXCEPT ![epoch].outcome = "full"]
  /\ UNCHANGED <<hs, reader, chain, sub, bc, bus, loop, mu, closed, cancelled, handed, shutdown>>

\* Mutant: a cancelled run returns without ending its height.
RunEndOnlyIfFull(i) ==
  /\ runs[i].pc = "end"
  /\ IF verdict[epoch].outcome = "cancelled" THEN UNCHANGED hs ELSE HS!EndCurrentHeight
  /\ mu' = NoRun
  /\ runs' = [runs EXCEPT ![i].pc = "close"]
  /\ UNCHANGED <<reader, chain, sub, bc, bus, loop, closed, cancelled, handed, shutdown, verdict>>

\* The deferred calls: EndCurrentHeight, Unlock, close(done).
RunEnd(i) ==
  /\ runs[i].pc = "end"
  /\ HS!EndCurrentHeight
  /\ mu' = NoRun
  /\ runs' = [runs EXCEPT ![i].pc = "close"]
  /\ UNCHANGED <<reader, chain, sub, bc, bus, loop, closed, cancelled, handed, shutdown, verdict>>

\* Mutant: a cancelled run leaves its done channel open.
RunCloseUnlessCancelled(i) ==
  /\ runs[i].pc = "close"
  /\ closed' = IF i \in cancelled THEN closed ELSE closed \cup {i}
  /\ runs' = [runs EXCEPT ![i].pc = "finished"]
  /\ UNCHANGED <<hs, reader, chain, sub, bc, bus, loop, mu, cancelled, handed, shutdown, verdict>>

RunClose(i) ==
  /\ runs[i].pc = "close"
  /\ closed' = closed \cup {i}
  /\ runs' = [runs EXCEPT ![i].pc = "finished"]
  /\ UNCHANGED <<hs, reader, chain, sub, bc, bus, loop, mu, cancelled, handed, shutdown, verdict>>

runRecheck(i) ==
  \/ RunStart(i) \/ RunContext(i) \/ RunCancelled(i) \/ RunCheckTx(i)
  \/ RunChecked(i) \/ RunEnd(i) \/ RunClose(i)

\* Insert, under the write lock: markTxInserted adds the transaction to the
\* current store or drops those it invalidates.
Insert ==
  /\ mu = NoRun
  /\ \/ \E tx \in Txs : HS!Do(stores[epoch] \cup {tx})
     \/ \E invalid \in SUBSET stores[epoch] : HS!Do(stores[epoch] \ invalid)
  /\ UNCHANGED <<reader, chain, sub, bc, bus, pool, verdict>>

-----------------------------------------------------------------------------
busStep == BusReceive \/ BusNotify \/ BusCurrentBlock \/ TriggerAfterShutdown
loopStep == LoopTop \/ LoopRequest \/ LoopReply \/ LoopRunDone \/ LoopShutdown \/ LoopDrained

Next ==
  \/ Commit \/ Publish
  \/ getIterators \/ cosmosIterator
  \/ BusReceive \/ BusNotify \/ BusCurrentBlock \/ TriggerAfterShutdown
  \/ LoopTop \/ LoopRequest \/ LoopReply \/ LoopRunDone \/ LoopShutdown \/ LoopDrained
  \/ \E i \in RunIds : runRecheck(i)
  \/ Insert
  \/ Close

Spec == Init /\ [][Next]_vars

\* Every goroutine that can run does, and a published event arrives.  The chain
\* need not commit, nobody need insert, propose or close.
FairSpec ==
  /\ Spec
  /\ WF_vars(Publish)
  /\ WF_vars(cosmosIterator)
  /\ WF_vars(busStep)
  /\ WF_vars(loopStep)
  /\ \A i \in RunIds : WF_vars(runRecheck(i))

-----------------------------------------------------------------------------
\* The pool keeps to the protocol of HeightSync: no interleaving of requests,
\* cancellations and shutdown makes StartNewHeight or EndCurrentHeight panic.
\* A proposal asks for the committed height and the pool is never ahead of it,
\* so the panic of GetStore about a height in the past is unreachable too.
NeverPanics == ~panicked /\ reader[proposer].pc # "panic"

\* Every channel TriggerRecheck returned is closed, also those of requests that
\* were superseded or that met a shutdown.
TriggerAnswered == \A i \in RunIds : i \in handed ~> i \in closed

\* Close returns: the loop waits for the running recheck and exits.
CloseReturns == shutdown ~> loop.pc = "exited"

\* A proposal is prepared even if its height is never rechecked, as after a
\* restart, when the timeout is configured.
ProposalReturns == proposing ~> ~proposing

fullyRechecked(h) ==
  \E e \in Epochs : verdict[e].outcome = "full" /\ verdict[e].ctx >= h /\ heightOf[e] >= h /\ done[e]

\* Once an event is pending while the chain is at height h, a recheck that
\* nobody cancels, against the state of h or later, completes, unless the context
\* of h could not be had.
BlockIsRechecked ==
  \A h \in Heights \ MayFail :
    (sub.events > 0 /\ chain.height = h) ~> (fullyRechecked(h) \/ ~sub.alive)

\* The pool, the inserters and the proposer use HeightSync as it specifies.
ImplementsHeightSync == HS!Spec
=============================================================================
