------------------------------- MODULE Indexer -------------------------------
(***************************************************************************)
(* server/indexer_service.go with the block-level part of                  *)
(* indexer/kv_indexer.go: the goroutine that follows block headers, the    *)
(* loop that fetches and indexes blocks, and the database that says where  *)
(* to go on after a restart.  What is recorded of a transaction is left    *)
(* out: the database is the set of heights that have an entry.             *)
(***************************************************************************)
EXTENDS Integers, FiniteSetsExt

CONSTANTS
  EthBlocks,   \* heights of blocks with at least one Ethereum transaction
  MaxHeight,   \* bound on the height of the chain
  MaxErrors    \* bound on fetches and writes that fail

VARIABLES
  chain,            \* height of the last committed block
  headers,          \* height of the last header delivered to the subscription
  latestBlock,      \* shared by the header goroutine and the loop
  newBlockSignal,   \* whether the channel of capacity one holds a signal
  loop,             \* the loop: pc, lastBlock, next block i, blockErr
  db,               \* heights with a tx-index entry
  errors            \* failures so far

vars == <<chain, headers, latestBlock, newBlockSignal, loop, db, errors>>

Heights == 1..MaxHeight
EmptyDb == -1

LastIndexedBlock == IF db = {} THEN EmptyDb ELSE Max(db)

\* OnStart has read the height of the chain and not yet subscribed.
Starting == [pc |-> "subscribe", lastBlock |-> 0, i |-> 0, blockErr |-> FALSE]

Init ==
  /\ chain \in Heights /\ headers = chain /\ latestBlock = chain
  /\ newBlockSignal = FALSE /\ errors = 0
  /\ db \in SUBSET (EthBlocks \cap 1..chain)
  /\ loop = Starting

\* The headers from now on arrive; indexing goes on after the last block that has an entry, or
\* from the height read first if the database is empty.
Subscribe ==
  /\ loop.pc = "subscribe"
  /\ headers' = chain
  /\ loop' = [loop EXCEPT !.pc = "top",
                         !.lastBlock = IF LastIndexedBlock = EmptyDb THEN latestBlock ELSE LastIndexedBlock]
  /\ UNCHANGED <<chain, latestBlock, newBlockSignal, db, errors>>

\* CometBFT commits a block.
Commit ==
  /\ chain < MaxHeight
  /\ chain' = chain + 1
  /\ UNCHANGED <<headers, latestBlock, newBlockSignal, loop, db, errors>>

\* The goroutine that reads blockHeadersChan, which has no buffer: no header is lost.
Header ==
  /\ loop.pc # "subscribe" /\ headers < chain
  /\ headers' = headers + 1
  /\ IF headers' > latestBlock
     THEN latestBlock' = headers' /\ newBlockSignal' = TRUE
     ELSE UNCHANGED <<latestBlock, newBlockSignal>>
  /\ UNCHANGED <<chain, loop, db, errors>>

\* The head of the outer loop.
LoopTop ==
  /\ loop.pc = "top"
  /\ loop' = IF latestBlock <= loop.lastBlock \/ loop.blockErr
             THEN [loop EXCEPT !.pc = "wait"]
             ELSE [loop EXCEPT !.pc = "fetch", !.i = loop.lastBlock + 1]
  /\ UNCHANGED <<chain, headers, latestBlock, newBlockSignal, db, errors>>

\* A signal or NewBlockWaitTimeout ends the wait, whichever comes first.
LoopWait ==
  /\ loop.pc = "wait"
  /\ newBlockSignal' \in {newBlockSignal, FALSE}
  /\ loop' = [loop EXCEPT !.pc = "top"]
  /\ UNCHANGED <<chain, headers, latestBlock, db, errors>>

\* Block or BlockResults fails: break out of the inner loop.
FetchFails ==
  /\ loop.pc = "fetch" /\ loop.i <= latestBlock /\ errors < MaxErrors
  /\ loop' = [loop EXCEPT !.pc = "top", !.blockErr = TRUE]
  /\ errors' = errors + 1
  /\ UNCHANGED <<chain, headers, latestBlock, newBlockSignal, db>>

\* Both succeed and the block is indexed; an error of IndexBlock is only logged.
FetchIndex ==
  /\ loop.pc = "fetch" /\ loop.i <= latestBlock
  /\ \/ db' = db \cup ({loop.i} \cap EthBlocks) /\ UNCHANGED errors
     \/ errors < MaxErrors /\ errors' = errors + 1 /\ UNCHANGED db
  /\ loop' = [loop EXCEPT !.lastBlock = loop.i, !.i = loop.i + 1, !.blockErr = FALSE]
  /\ UNCHANGED <<chain, headers, latestBlock, newBlockSignal>>

\* The inner loop reads latestBlock again at every iteration and ends.
FetchDone ==
  /\ loop.pc = "fetch" /\ loop.i > latestBlock
  /\ loop' = [loop EXCEPT !.pc = "top"]
  /\ UNCHANGED <<chain, headers, latestBlock, newBlockSignal, db, errors>>

\* The process stops anywhere and OnStart runs again.
Restart ==
  /\ latestBlock' = chain /\ newBlockSignal' = FALSE
  /\ loop' = Starting
  /\ UNCHANGED <<chain, headers, db, errors>>

loopStep == Subscribe \/ LoopTop \/ LoopWait \/ FetchFails \/ FetchIndex \/ FetchDone

Next == Commit \/ Header \/ loopStep \/ Restart

\* The goroutines run; nobody need restart the process and no fetch need fail.
FairSpec == Init /\ [][Next]_vars /\ WF_vars(Header) /\ WF_vars(loopStep)

-----------------------------------------------------------------------------
\* "in this case, wait before retrying the data fetching": after a failed fetch of a block or of
\* its results the loop waits, and then fetches again, unless the process is restarted first.
FailedFetchIsRetried == loop.blockErr ~> (loop.pc = "fetch" \/ ~loop.blockErr)
=============================================================================
