-------------------------- MODULE InsertQueueProofs --------------------------
(***************************************************************************)
(* Theorems about InsertQueue for every set of transactions and every      *)
(* maximum size.  The inductive invariant adds to the two safety           *)
(* properties that the loop holds a batch only while it inserts it, so     *)
(* that taking the next batch loses nothing, and that a transaction has no *)
(* answer before it is in the queue.                                       *)
(***************************************************************************)
EXTENDS InsertQueue, TLAPS

\* The loop variable toInsert is empty except between the pop and the answers.
BatchInHand == loop.pc # "insert" => loop.batch = <<>>

\* Push sends nothing on the subscription before it has appended.
UnansweredBeforeAppend == \A i \in Items : pc[i] \in {"start", "append"} => result[i] = "none"

IInv == TypeOK /\ BatchInHand /\ UnansweredBeforeAppend /\ NoLostSignal /\ AwaitedItems

\* New leaves the queue in a state of the invariant.
LEMMA InitEstablishes == Init => IInv
  <1> SUFFICES ASSUME Init PROVE IInv
    OBVIOUS
  <1>1. queue = <<>> /\ loop.batch = <<>> /\ loop.pc = "len" /\ elements(<<>>) = {}
    BY DEF Init, elements
  <1>2. signal \in BOOLEAN /\ done \in BOOLEAN
    BY Zenon DEF Init
  <1>3. TypeOK
    BY <1>2 DEF Init, TypeOK
  <1>4. BatchInHand /\ UnansweredBeforeAppend /\ NoLostSignal
    BY <1>1 DEF Init, BatchInHand, UnansweredBeforeAppend, NoLostSignal
  <1>5. AwaitedItems
    BY <1>1 DEF Init, AwaitedItems
  <1> QED BY <1>3, <1>4, <1>5 DEF IInv

\* AwaitedItems depends on the queue, the batch and who awaits an answer only.
LEMMA AwaitedUnchanged ==
  ASSUME AwaitedItems, queue' = queue, loop'.batch = loop.batch,
         \A i \in Items : (pc[i] \in {"signal", "returned"} /\ result[i] = "none")
                          <=> (pc'[i] \in {"signal", "returned"} /\ result'[i] = "none")
  PROVE  AwaitedItems'
  <1>1. elements(queue') = elements(queue) /\ elements(loop'.batch) = elements(loop.batch)
    OBVIOUS
  <1> QED BY <1>1 DEF AwaitedItems

\* Appending an item adds it to the elements and nothing else.
LEMMA AppendElements ==
  ASSUME NEW s \in Seq(Items), NEW i \in Items
  PROVE  /\ Append(s, i) \in Seq(Items) /\ Append(s, i) # <<>>
         /\ elements(Append(s, i)) = elements(s) \cup {i}
         /\ i \notin elements(s) /\ (\A m, n \in DOMAIN s : s[m] = s[n] => m = n) =>
              \A m, n \in DOMAIN Append(s, i) : Append(s, i)[m] = Append(s, i)[n] => m = n
  <1>1. /\ Append(s, i) \in Seq(Items) /\ Len(s) \in Nat /\ DOMAIN s = 1..Len(s)
        /\ DOMAIN Append(s, i) = 1..(Len(s) + 1)
        /\ \A n \in 1..Len(s) : Append(s, i)[n] = s[n]
        /\ Append(s, i)[Len(s) + 1] = i
    OBVIOUS
  <1>2. elements(Append(s, i)) = elements(s) \cup {i}
    BY <1>1 DEF elements
  <1>3. ASSUME i \notin elements(s), \A m, n \in DOMAIN s : s[m] = s[n] => m = n,
               NEW m \in DOMAIN Append(s, i), NEW n \in DOMAIN Append(s, i), Append(s, i)[m] = Append(s, i)[n]
        PROVE  m = n
    BY <1>1, <1>3 DEF elements
  <1> QED BY <1>1, <1>2, <1>3

LEMMA PushPreserves ==
  ASSUME IInv, NEW i \in Items, PushCheck(i) \/ PushAppend(i) \/ PushSignal(i)
  PROVE  IInv'
  <1>1. CASE PushCheck(i)
    <2>1. TypeOK' /\ BatchInHand' /\ UnansweredBeforeAppend' /\ NoLostSignal'
      BY <1>1 DEF PushCheck, IInv, TypeOK, BatchInHand, UnansweredBeforeAppend, NoLostSignal
    <2>2. AwaitedItems'
      BY <1>1, AwaitedUnchanged DEF PushCheck, IInv, TypeOK
    <2> QED BY <2>1, <2>2 DEF IInv
  <1>2. CASE PushAppend(i)
    <2>1. i \notin elements(queue) /\ i \notin elements(loop.batch) /\ result[i] = "none"
      BY <1>2 DEF PushAppend, IInv, AwaitedItems, UnansweredBeforeAppend
    <2>2. TypeOK' /\ BatchInHand' /\ UnansweredBeforeAppend' /\ NoLostSignal'
      BY <1>2, AppendElements
         DEF PushAppend, IInv, TypeOK, BatchInHand, UnansweredBeforeAppend, NoLostSignal
    <2>3. /\ elements(queue') = elements(queue) \cup {i}
          /\ \A m, n \in DOMAIN queue' : queue'[m] = queue'[n] => m = n
      BY <1>2, <2>1, AppendElements DEF PushAppend, IInv, TypeOK, AwaitedItems
    <2>4. loop' = loop /\ result' = result /\ pc' = [pc EXCEPT ![i] = "signal"]
      BY <1>2 DEF PushAppend
    <2>5. AwaitedItems'
      <3>1. elements(loop'.batch) = elements(loop.batch)
        BY <2>4
      <3> QED BY <2>1, <2>3, <2>4, <3>1 DEF IInv, TypeOK, AwaitedItems
    <2> QED BY <2>2, <2>5 DEF IInv
  <1>3. CASE PushSignal(i)
    <2>1. TypeOK' /\ BatchInHand' /\ UnansweredBeforeAppend' /\ NoLostSignal'
      BY <1>3 DEF PushSignal, IInv, TypeOK, BatchInHand, UnansweredBeforeAppend, NoLostSignal
    <2>2. AwaitedItems'
      BY <1>3, AwaitedUnchanged DEF PushSignal, IInv, TypeOK
    <2> QED BY <2>1, <2>2 DEF IInv
  <1> QED BY <1>1, <1>2, <1>3

\* The steps of the loop that neither take nor answer a batch.
LEMMA IdlePreserves ==
  ASSUME IInv, LoopLen \/ LoopSignalled \/ LoopCancelled \/ LoopContinue \/ Close
  PROVE  IInv'
  <1>1. UNCHANGED <<pc, result, queue>> /\ loop'.batch = loop.batch
    BY DEF LoopLen, LoopSignalled, LoopCancelled, LoopContinue, Close, IInv, TypeOK
  <1>2. TypeOK'
    <2>1. signal' \in BOOLEAN /\ done' \in BOOLEAN
      BY Zenon DEF LoopLen, LoopSignalled, LoopCancelled, LoopContinue, Close, IInv, TypeOK
    <2>2. loop' \in [pc : {"len", "wait", "pop", "insert", "continue", "exited"}, batch : Seq(Items)]
      <3> DEFINE to == IF queue = <<>> THEN "wait" ELSE "pop"
      <3>1. CASE LoopLen
        <4>1. loop' = [loop EXCEPT !.pc = to] /\ to \in {"wait", "pop"}
          BY <3>1 DEF LoopLen
        <4> HIDE DEF to
        <4> QED BY <4>1 DEF IInv, TypeOK
      <3> QED BY <3>1 DEF LoopSignalled, LoopCancelled, LoopContinue, Close, IInv, TypeOK
    <2> QED BY <1>1, <2>1, <2>2 DEF IInv, TypeOK
  <1>3. loop.pc # "insert" \/ loop' = loop
    BY DEF LoopLen, LoopSignalled, LoopCancelled, LoopContinue, Close
  <1>4. BatchInHand' /\ UnansweredBeforeAppend'
    BY <1>1, <1>3 DEF IInv, BatchInHand, UnansweredBeforeAppend
  <1>5. NoLostSignal'
    BY <1>1 DEF LoopLen, LoopSignalled, LoopCancelled, LoopContinue, Close, IInv, TypeOK, NoLostSignal
  <1>6. AwaitedItems'
    BY <1>1, AwaitedUnchanged DEF IInv
  <1> QED BY <1>2, <1>4, <1>5, <1>6 DEF IInv

LEMMA PopPreserves ==
  ASSUME IInv, LoopPop
  PROVE  IInv'
  <1>1. loop.batch = <<>> /\ elements(loop.batch) = {}
    BY DEF LoopPop, IInv, BatchInHand, elements
  <1>2. loop'.batch = queue /\ loop'.pc = "insert" /\ queue' = <<>> /\ UNCHANGED <<pc, result, signal, done>>
    BY DEF LoopPop
  <1>3. TypeOK' /\ BatchInHand' /\ UnansweredBeforeAppend' /\ NoLostSignal'
    BY <1>2 DEF LoopPop, IInv, TypeOK, BatchInHand, UnansweredBeforeAppend, NoLostSignal
  <1>4. elements(queue') = {} /\ elements(loop'.batch) = elements(queue)
    BY <1>2 DEF elements
  <1>5. AwaitedItems'
    BY <1>1, <1>2, <1>4 DEF IInv, AwaitedItems
  <1> QED BY <1>3, <1>5 DEF IInv

LEMMA InsertPreserves ==
  ASSUME IInv, LoopInsert
  PROVE  IInv'
  <1>1. PICK errs \in [Items -> {"nil", "error"}] :
          result' = [i \in Items |-> IF i \in elements(loop.batch) THEN errs[i] ELSE result[i]]
    BY DEF LoopInsert
  <1>2. loop' = [pc |-> "continue", batch |-> <<>>] /\ UNCHANGED <<pc, queue, signal, done>>
    BY DEF LoopInsert
  <1>3. TypeOK' /\ BatchInHand' /\ NoLostSignal'
    BY <1>1, <1>2 DEF IInv, TypeOK, BatchInHand, NoLostSignal
  <1>4. UnansweredBeforeAppend'
    BY <1>1, <1>2 DEF IInv, TypeOK, UnansweredBeforeAppend, AwaitedItems
  <1>5. elements(queue') = elements(queue) /\ elements(loop'.batch) = {}
    BY <1>2 DEF elements
  <1>6. \A i \in Items : result'[i] = "none" <=> result[i] = "none" /\ i \notin elements(loop.batch)
    BY <1>1 DEF IInv, AwaitedItems
  <1>7. AwaitedItems'
    BY <1>2, <1>5, <1>6 DEF IInv, AwaitedItems
  <1> QED BY <1>3, <1>4, <1>7 DEF IInv

LEMMA NextPreserves == IInv /\ [Next]_vars => IInv'
  <1> SUFFICES ASSUME IInv, [Next]_vars PROVE IInv'
    OBVIOUS
  <1>1. CASE UNCHANGED vars
    <2>1. TypeOK' /\ BatchInHand' /\ UnansweredBeforeAppend' /\ NoLostSignal'
      BY <1>1 DEF vars, IInv, TypeOK, BatchInHand, UnansweredBeforeAppend, NoLostSignal
    <2>2. AwaitedItems'
      BY <1>1, AwaitedUnchanged DEF vars, IInv
    <2> QED BY <2>1, <2>2 DEF IInv
  <1> QED BY <1>1, PushPreserves, IdlePreserves, PopPreserves, InsertPreserves DEF Next

\* The strengthened invariant holds in every reachable state.
THEOREM Invariance == Spec => []IInv
  BY InitEstablishes, NextPreserves, PTL DEF Spec

\* The queue's goroutine never sleeps on transactions nobody will signal.
THEOREM SignalNotLost == Spec => []NoLostSignal
  <1>1. IInv => NoLostSignal
    BY DEF IInv
  <1> QED BY <1>1, Invariance, PTL

\* No transaction that Push accepted is lost, inserted twice or answered twice.
THEOREM ExactlyOnce == Spec => []AwaitedItems
  <1>1. IInv => AwaitedItems
    BY DEF IInv
  <1> QED BY <1>1, Invariance, PTL
=============================================================================
