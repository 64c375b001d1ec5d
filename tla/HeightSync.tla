----------------------------- MODULE HeightSync -----------------------------
(***************************************************************************)
(* mempool/internal/heightsync: the per-height store shared by the pool    *)
(* that rechecks its transactions after every block (the owner), by the    *)
(* inserters that change the current store, and by the proposers that read *)
(* the store of one height with GetStore and a context that may expire.    *)
(*                                                                         *)
(* Every StartNewHeight creates a store, a done channel and a              *)
(* heightChanged channel together.  The model names all three by one       *)
(* number, the epoch: store and done of epoch e are stores[e] and done[e], *)
(* and heightChanged of epoch e is closed exactly when e < epoch.          *)
(***************************************************************************)
EXTENDS Integers

CONSTANTS
  Readers,      \* goroutines that call GetStore
  Txs,          \* what a store may hold
  MaxHeight,    \* bound on block heights
  MaxEpoch      \* bound on the number of StartNewHeight calls

ASSUME BoundsAssumption == MaxHeight \in Nat /\ MaxEpoch \in Nat

VARIABLES
  currentHeight,  \* HeightSync.currentHeight
  epoch,          \* identity of the current store and channels
  heightOf,       \* height every epoch was started for (history)
  stores,         \* contents of the store of every epoch
  done,           \* done[e]: the done channel of epoch e is closed
  panicked,       \* StartNewHeight or EndCurrentHeight panicked
  reader          \* the GetStore call of every reader

hsVars == <<currentHeight, epoch, heightOf, stores, done, panicked>>
vars == <<currentHeight, epoch, heightOf, stores, done, panicked, reader>>

Heights == 0..MaxHeight
Epochs == 0..MaxEpoch
Genesis == 0
NoEpoch == -1

\* Where a GetStore call stands, and how a finished one ended: with the store
\* of an ended height, with the store at genesis, with a store that was not
\* ended in time, with nil, or with the panic about a height in the past.
Waiting == {"check", "waitDone", "waitHeight"}
Finished == {"complete", "genesis", "timeout", "nil", "panic"}

\* New: the initial height has a store and is ended at once.
Init ==
  /\ currentHeight \in Heights
  /\ epoch = 0
  /\ heightOf = [e \in Epochs |-> currentHeight]
  /\ stores = [e \in Epochs |-> {}]
  /\ done = [e \in Epochs |-> e = 0]
  /\ panicked = FALSE
  /\ reader = [r \in Readers |-> [pc |-> "idle", height |-> Genesis, seen |-> NoEpoch]]

isHeightEnded == done[epoch]

\* Mutant: the store of the previous height is cleared and reused.
StartNewHeightReusesStore(height) ==
  /\ ~panicked
  /\ isHeightEnded
  /\ epoch < MaxEpoch
  /\ epoch' = epoch + 1
  /\ currentHeight' = height
  /\ heightOf' = [heightOf EXCEPT ![epoch + 1] = height]
  /\ stores' = [stores EXCEPT ![epoch] = {}]
  /\ UNCHANGED <<done, panicked>>

StartNewHeight(height) ==
  /\ ~panicked
  /\ IF ~isHeightEnded
       THEN /\ panicked' = TRUE
            /\ UNCHANGED <<currentHeight, epoch, heightOf, stores, done>>
       ELSE /\ epoch < MaxEpoch
            /\ epoch' = epoch + 1
            /\ currentHeight' = height
            /\ heightOf' = [heightOf EXCEPT ![epoch + 1] = height]
            /\ UNCHANGED <<stores, done, panicked>>

\* Mutant: a height with nothing to recheck returns before it closes done.
EndCurrentHeightSkipsEmpty ==
  /\ ~panicked
  /\ ~isHeightEnded
  /\ done' = [done EXCEPT ![epoch] = stores[epoch] # {}]
  /\ UNCHANGED <<currentHeight, epoch, heightOf, stores, panicked>>

EndCurrentHeight ==
  /\ ~panicked
  /\ IF isHeightEnded
       THEN panicked' = TRUE /\ done' = done
       ELSE panicked' = FALSE /\ done' = [done EXCEPT ![epoch] = TRUE]
  /\ UNCHANGED <<currentHeight, epoch, heightOf, stores>>

\* Do runs fn on the current store under the read lock; fn may leave any content.
Do(content) ==
  /\ ~panicked
  /\ stores' = [stores EXCEPT ![epoch] = content]
  /\ UNCHANGED <<currentHeight, epoch, heightOf, done, panicked>>

GetStore(r, height) ==
  /\ reader[r].pc \notin Waiting \cup {"panic"}
  /\ reader' = [reader EXCEPT ![r] = [pc |-> "check", height |-> height, seen |-> NoEpoch]]

\* One pass of the GetStore loop under the read lock: the store, the done and
\* the heightChanged channel are captured together.
CheckHeight(r) ==
  /\ reader[r].pc = "check"
  /\ LET height == reader[r].height
         to(pc) == [reader EXCEPT ![r] = [pc |-> pc, height |-> height, seen |-> epoch]]
     IN \/ currentHeight > height /\ reader' = to("panic")
        \/ currentHeight = height /\ height = Genesis /\ reader' = to("genesis")
        \/ currentHeight = height /\ height # Genesis /\ reader' = to("waitDone")
        \/ currentHeight < height /\ reader' = to("waitHeight")

\* Mutant: the store is read again after the wait instead of before it.
StoreDoneRereads(r) ==
  /\ reader[r].pc = "waitDone"
  /\ done[reader[r].seen]
  /\ reader' = [reader EXCEPT ![r].pc = "complete", ![r].seen = epoch]

\* The selects after the lock is released: a closed channel or ctx.Done().
StoreDone(r) ==
  /\ reader[r].pc = "waitDone"
  /\ done[reader[r].seen]
  /\ reader' = [reader EXCEPT ![r].pc = "complete"]

StoreTimeout(r) ==
  /\ reader[r].pc = "waitDone"
  /\ reader' = [reader EXCEPT ![r].pc = "timeout"]

\* Mutant: the waiter takes the new heightChanged channel without comparing
\* the heights again.
HeightChangedWaitsAgain(r) ==
  /\ reader[r].pc = "waitHeight"
  /\ reader[r].seen < epoch
  /\ reader' = [reader EXCEPT ![r].seen = epoch]

HeightChanged(r) ==
  /\ reader[r].pc = "waitHeight"
  /\ reader[r].seen < epoch
  /\ reader' = [reader EXCEPT ![r].pc = "check"]

HeightTimeout(r) ==
  /\ reader[r].pc = "waitHeight"
  /\ reader' = [reader EXCEPT ![r].pc = "nil"]

ReaderStep(r) ==
  \/ CheckHeight(r)
  \/ StoreDone(r)
  \/ StoreTimeout(r)
  \/ HeightChanged(r)
  \/ HeightTimeout(r)

\* What the two pools do with their HeightSync: runRecheck and runReorg start a
\* height, work, and end it before they start the next.
OwnerStep ==
  \/ isHeightEnded /\ \E h \in Heights : StartNewHeight(h)
  \/ ~isHeightEnded /\ EndCurrentHeight

Next ==
  \/ OwnerStep /\ UNCHANGED reader
  \/ \E content \in SUBSET Txs : Do(content) /\ UNCHANGED reader
  \/ \E r \in Readers, h \in Heights : GetStore(r, h) /\ UNCHANGED hsVars
  \/ \E r \in Readers : ReaderStep(r) /\ UNCHANGED hsVars

Spec == Init /\ [][Next]_vars

\* The goroutine of a reader keeps running and the deferred EndCurrentHeight of
\* a started height runs.  No fairness on timeouts: with a proposal timeout of
\* zero the context never expires.
Progress(r) == (CheckHeight(r) \/ StoreDone(r) \/ HeightChanged(r)) /\ UNCHANGED hsVars

FairSpec ==
  /\ Spec
  /\ \A r \in Readers : WF_vars(Progress(r))
  /\ WF_vars(~isHeightEnded /\ EndCurrentHeight /\ UNCHANGED reader)

-----------------------------------------------------------------------------
ReaderState == [pc : {"idle"} \cup Waiting \cup Finished, height : Heights,
                seen : Epochs \cup {NoEpoch}]

\* The fields of a HeightSync and of the GetStore calls on it keep their types.
TypeOK ==
  /\ currentHeight \in Heights
  /\ epoch \in Epochs
  /\ heightOf \in [Epochs -> Heights]
  /\ stores \in [Epochs -> SUBSET Txs]
  /\ done \in [Epochs -> BOOLEAN]
  /\ panicked \in BOOLEAN
  /\ reader \in [Readers -> ReaderState]

\* A GetStore that hands out a store hands out one that was started for the
\* height it was asked for, however many heights start between the moment it
\* captures the store and the moment it returns.
ServedAtRequestedHeight ==
  \A r \in Readers :
    reader[r].pc \in {"waitDone", "complete", "genesis", "timeout"} =>
      /\ reader[r].seen \in 0..epoch
      /\ heightOf[reader[r].seen] = reader[r].height

\* No lost wake-up: a GetStore that waits on the heightChanged channel nobody
\* has closed yet waits for a height that is still ahead.
NoMissedHeight ==
  \A r \in Readers :
    reader[r].pc = "waitHeight" /\ reader[r].seen = epoch
      => currentHeight < reader[r].height

\* Once a height is superseded its store never changes again: a proposer that
\* still holds it builds its block from a stable set.
SupersededStoreFrozen ==
  [][\A e \in Epochs : e < epoch' => stores'[e] = stores[e]]_vars

\* A GetStore whose height has been reached returns even if its context never
\* expires: the waiter is woken, and the height it then waits for ends.  The
\* exception is an owner that falls back to a lower height before the waiter
\* looks (Blockchain.CurrentBlock reports height 0 when it has no context).
ReachedHeightServed ==
  \A r \in Readers :
    (reader[r].pc = "waitHeight" /\ currentHeight >= reader[r].height)
      ~> (reader[r].pc \in Finished \/ currentHeight < reader[r].height)
=============================================================================
