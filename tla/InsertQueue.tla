---------------------------- MODULE InsertQueue ----------------------------
(***************************************************************************)
(* mempool/internal/queue: the queue between the callers of Insert and the *)
(* single goroutine that inserts batches into a pool.  Every item is       *)
(* pushed by a goroutine of its own; Push checks the size, appends and     *)
(* signals in three steps with the lock released in between, and the loop  *)
(* sleeps on a signal channel of capacity one.                             *)
(***************************************************************************)
EXTENDS Integers, Sequences

CONSTANTS
  Items,     \* transactions, each with the goroutine that pushes it
  maxSize,   \* Queue.maxSize
  Closing    \* whether Close may be called

ASSUME QueueAssumption == maxSize \in Nat /\ Closing \in BOOLEAN

VARIABLES
  pc,       \* per item: where its Push call stands
  result,   \* per item: what its subscription channel has received
  queue,    \* Queue.queue
  signal,   \* Queue.signal holds a token
  loop,     \* the loop goroutine: program counter and the batch it took
  done      \* Queue.done is closed

vars == <<pc, result, queue, signal, loop, done>>

Init ==
  /\ pc = [i \in Items |-> "start"]
  /\ result = [i \in Items |-> "none"]
  /\ queue = <<>>
  /\ signal = FALSE
  /\ loop = [pc |-> "len", batch |-> <<>>]
  /\ done = FALSE

-----------------------------------------------------------------------------
\* Push

isFull == Len(queue) >= maxSize

PushCheck(i) ==
  /\ pc[i] = "start"
  /\ IF isFull
       THEN pc' = [pc EXCEPT ![i] = "returned"] /\ result' = [result EXCEPT ![i] = "ErrQueueFull"]
       ELSE pc' = [pc EXCEPT ![i] = "append"] /\ UNCHANGED result
  /\ UNCHANGED <<queue, signal, loop, done>>

PushAppend(i) ==
  /\ pc[i] = "append"
  /\ queue' = Append(queue, i)
  /\ pc' = [pc EXCEPT ![i] = "signal"]
  /\ UNCHANGED <<result, signal, loop, done>>

\* Mutant: the token is sent only by the push that found the queue empty.
PushSignalIfFirst(i) ==
  /\ pc[i] = "signal"
  /\ signal' = (signal \/ Len(queue) = 1)
  /\ pc' = [pc EXCEPT ![i] = "returned"]
  /\ UNCHANGED <<result, queue, loop, done>>

\* The send does not block: a token that is already there stands for this one.
PushSignal(i) ==
  /\ pc[i] = "signal"
  /\ signal' = TRUE
  /\ pc' = [pc EXCEPT ![i] = "returned"]
  /\ UNCHANGED <<result, queue, loop, done>>

-----------------------------------------------------------------------------
\* loop

LoopLen ==
  /\ loop.pc = "len"
  /\ loop' = [loop EXCEPT !.pc = IF queue = <<>> THEN "wait" ELSE "pop"]
  /\ UNCHANGED <<pc, result, queue, signal, done>>

\* waitForNewTxs: when both channels are ready either may be chosen.
LoopSignalled ==
  /\ loop.pc = "wait" /\ signal
  /\ signal' = FALSE
  /\ loop' = [loop EXCEPT !.pc = "len"]
  /\ UNCHANGED <<pc, result, queue, done>>

LoopCancelled ==
  /\ loop.pc \in {"wait", "continue"} /\ done
  /\ loop' = [loop EXCEPT !.pc = "exited"]
  /\ UNCHANGED <<pc, result, queue, signal, done>>

\* Mutant: the queue is drained but only the first item is handed on.
LoopPopOne ==
  /\ loop.pc = "pop"
  /\ loop' = [pc |-> "insert", batch |-> SubSeq(queue, 1, 1)]
  /\ queue' = <<>>
  /\ UNCHANGED <<pc, result, signal, done>>

\* Mutant: the queue is copied and not drained.
LoopPopKeeps ==
  /\ loop.pc = "pop"
  /\ loop' = [pc |-> "insert", batch |-> queue]
  /\ UNCHANGED <<pc, result, queue, signal, done>>

LoopPop ==
  /\ loop.pc = "pop"
  /\ loop' = [pc |-> "insert", batch |-> queue]
  /\ queue' = <<>>
  /\ UNCHANGED <<pc, result, signal, done>>

elements(s) == {s[n] : n \in DOMAIN s}

\* insertTxs returns one error per transaction and each goes to its subscriber.
LoopInsert ==
  /\ loop.pc = "insert"
  /\ \E errs \in [Items -> {"nil", "error"}] :
       result' = [i \in Items |-> IF i \in elements(loop.batch) THEN errs[i] ELSE result[i]]
  /\ loop' = [pc |-> "continue", batch |-> <<>>]
  /\ UNCHANGED <<pc, queue, signal, done>>

LoopContinue ==
  /\ loop.pc = "continue" /\ ~done
  /\ loop' = [loop EXCEPT !.pc = "len"]
  /\ UNCHANGED <<pc, result, queue, signal, done>>

Close ==
  /\ Closing /\ ~done
  /\ done' = TRUE
  /\ UNCHANGED <<pc, result, queue, signal, loop>>

loopStep == LoopLen \/ LoopSignalled \/ LoopCancelled \/ LoopPop \/ LoopInsert \/ LoopContinue

Next ==
  \/ \E i \in Items : PushCheck(i) \/ PushAppend(i) \/ PushSignal(i)
  \/ LoopLen \/ LoopSignalled \/ LoopCancelled \/ LoopPop \/ LoopInsert \/ LoopContinue
  \/ Close

Spec == Init /\ [][Next]_vars

\* A Push that has appended returns, and the loop goroutine keeps running.
FairSpec ==
  /\ Spec
  /\ \A i \in Items : WF_vars(PushAppend(i) \/ PushSignal(i))
  /\ WF_vars(loopStep)

-----------------------------------------------------------------------------
\* The queue, the batch and the state of every Push keep their types.
TypeOK ==
  /\ pc \in [Items -> {"start", "append", "signal", "returned"}]
  /\ result \in [Items -> {"none", "ErrQueueFull", "nil", "error"}]
  /\ queue \in Seq(Items)
  /\ signal \in BOOLEAN /\ done \in BOOLEAN
  /\ loop \in [pc : {"len", "wait", "pop", "insert", "continue", "exited"}, batch : Seq(Items)]

\* The loop never sleeps on a non-empty queue: there is a token, or the Push
\* that will send one has not returned yet.
NoLostSignal ==
  loop.pc = "wait" /\ queue # <<>> => signal \/ \E i \in Items : pc[i] = "signal"

\* The queue and the batch in hand hold each pushed item once, and exactly the
\* items that still wait for an answer: no transaction that Push accepted is
\* lost, inserted twice or answered twice.
AwaitedItems ==
  /\ \A m, n \in DOMAIN queue : queue[m] = queue[n] => m = n
  /\ \A m, n \in DOMAIN loop.batch : loop.batch[m] = loop.batch[n] => m = n
  /\ elements(queue) \cap elements(loop.batch) = {}
  /\ \A i \in Items : i \in elements(queue) \cup elements(loop.batch)
                        <=> pc[i] \in {"signal", "returned"} /\ result[i] = "none"

\* Every appended transaction is inserted and its caller answered, unless the
\* queue is closed.
PushAnswered == \A i \in Items : pc[i] = "signal" ~> (result[i] # "none" \/ done)
=============================================================================
