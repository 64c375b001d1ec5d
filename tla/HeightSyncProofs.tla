-------------------------- MODULE HeightSyncProofs --------------------------
(***************************************************************************)
(* Theorems about HeightSync for every number of readers, heights and      *)
(* epochs.  The inductive invariant adds to the two safety properties that *)
(* a reader never holds an epoch that has not been started (without it a   *)
(* new height could make an old wait, or an old store, look current) and   *)
(* that the current epoch was started for the current height.              *)
(***************************************************************************)
EXTENDS HeightSync, TLAPS

\* No GetStore call refers to a store that does not exist yet.
SeenStarted == \A r \in Readers : reader[r].seen <= epoch

\* StartNewHeight replaces the height and the store together.
CurrentStarted == heightOf[epoch] = currentHeight

IInv == TypeOK /\ SeenStarted /\ CurrentStarted /\ ServedAtRequestedHeight /\ NoMissedHeight

\* New leaves the HeightSync in a state of the invariant.
LEMMA InitEstablishes == Init => IInv
  <1> SUFFICES ASSUME Init PROVE IInv
    OBVIOUS
  <1>1. done \in [Epochs -> BOOLEAN] /\ panicked \in BOOLEAN
    BY Zenon DEF Init
  <1>2. epoch \in Epochs /\ Genesis \in Heights
    BY BoundsAssumption DEF Init, Epochs, Heights, Genesis
  <1>3. TypeOK
    BY <1>1, <1>2 DEF Init, TypeOK, ReaderState
  <1>4. SeenStarted /\ CurrentStarted /\ ServedAtRequestedHeight /\ NoMissedHeight
    BY <1>2 DEF Init, SeenStarted, CurrentStarted, ServedAtRequestedHeight, NoMissedHeight, NoEpoch
  <1> QED BY <1>3, <1>4 DEF IInv

\* What every step of the owner or of an inserter leaves true.
LEMMA StartPreserves ==
  ASSUME IInv, NEW h \in Heights, StartNewHeight(h), UNCHANGED reader
  PROVE  IInv'
  <1> USE BoundsAssumption DEF IInv
  <1>1. CASE ~isHeightEnded
    BY <1>1 DEF StartNewHeight, TypeOK, SeenStarted, CurrentStarted, ServedAtRequestedHeight, NoMissedHeight
  <1>2. CASE isHeightEnded
    <2>1. epoch' = epoch + 1 /\ epoch + 1 \in Epochs /\ epoch \in Nat
      BY <1>2 DEF StartNewHeight, TypeOK, Epochs
    <2>2. TypeOK'
      BY <1>2, <2>1 DEF StartNewHeight, TypeOK
    <2>3. \A r \in Readers : reader[r].seen \in Int /\ reader[r].seen <= epoch
      BY DEF TypeOK, SeenStarted, ReaderState, Epochs, NoEpoch
    <2>4. SeenStarted'
      BY <2>1, <2>3 DEF SeenStarted
    <2>5. NoMissedHeight'
      BY <2>1, <2>3 DEF NoMissedHeight
    <2>6. ServedAtRequestedHeight'
      BY <1>2, <2>1, <2>3 DEF StartNewHeight, ServedAtRequestedHeight, TypeOK, Epochs
    <2>7. CurrentStarted'
      BY <1>2, <2>1 DEF StartNewHeight, CurrentStarted, TypeOK
    <2> QED BY <2>2, <2>4, <2>5, <2>6, <2>7
  <1> QED BY <1>1, <1>2

LEMMA EndPreserves ==
  ASSUME IInv, EndCurrentHeight, UNCHANGED reader
  PROVE  IInv'
  BY DEF IInv, EndCurrentHeight, TypeOK, SeenStarted, CurrentStarted, ServedAtRequestedHeight, NoMissedHeight

LEMMA DoPreserves ==
  ASSUME IInv, NEW content \in SUBSET Txs, Do(content), UNCHANGED reader
  PROVE  IInv'
  BY DEF IInv, Do, TypeOK, SeenStarted, CurrentStarted, ServedAtRequestedHeight, NoMissedHeight

LEMMA GetStorePreserves ==
  ASSUME IInv, NEW r \in Readers, NEW h \in Heights, GetStore(r, h), UNCHANGED hsVars
  PROVE  IInv'
  BY BoundsAssumption
     DEF IInv, GetStore, hsVars, TypeOK, SeenStarted, CurrentStarted, ServedAtRequestedHeight, NoMissedHeight,
         ReaderState, Waiting, Finished, Epochs, NoEpoch

LEMMA CheckHeightPreserves ==
  ASSUME IInv, NEW r \in Readers, CheckHeight(r), UNCHANGED hsVars
  PROVE  IInv'
  <1> DEFINE height == reader[r].height
             to(pc) == [reader EXCEPT ![r] = [pc |-> pc, height |-> height, seen |-> epoch]]
  <1>1. height \in Heights /\ epoch \in Epochs /\ epoch \in Nat
    BY BoundsAssumption DEF IInv, TypeOK, ReaderState, Epochs
  <1>2. PICK pc \in {"panic", "genesis", "waitDone", "waitHeight"} :
          /\ reader' = to(pc)
          /\ pc \in {"genesis", "waitDone"} => currentHeight = height
          /\ pc = "waitHeight" => currentHeight < height
    BY DEF CheckHeight
  <1>3. TypeOK'
    BY <1>1, <1>2 DEF IInv, TypeOK, hsVars, ReaderState, Waiting, Finished
  <1>4. SeenStarted' /\ CurrentStarted'
    BY <1>1, <1>2 DEF IInv, SeenStarted, CurrentStarted, TypeOK, hsVars
  <1>5. NoMissedHeight'
    BY <1>1, <1>2 DEF IInv, NoMissedHeight, TypeOK, hsVars
  <1>6. ServedAtRequestedHeight'
    BY <1>1, <1>2 DEF IInv, ServedAtRequestedHeight, CurrentStarted, TypeOK, hsVars
  <1> QED BY <1>3, <1>4, <1>5, <1>6 DEF IInv

\* The end of a wait changes the pc of one reader and nothing else.
LEMMA WaitEndPreserves ==
  ASSUME IInv, NEW r \in Readers, UNCHANGED hsVars,
         StoreDone(r) \/ StoreTimeout(r) \/ HeightChanged(r) \/ HeightTimeout(r)
  PROVE  IInv'
  BY BoundsAssumption
     DEF IInv, StoreDone, StoreTimeout, HeightChanged, HeightTimeout, hsVars, TypeOK,
         SeenStarted, CurrentStarted, ServedAtRequestedHeight, NoMissedHeight, ReaderState, Waiting, Finished

\* One step of the owner, of an inserter or of a reader.
LEMMA NextPreserves == IInv /\ [Next]_vars => IInv'
  <1> SUFFICES ASSUME IInv, [Next]_vars PROVE IInv'
    OBVIOUS
  <1>1. CASE OwnerStep /\ UNCHANGED reader
    BY <1>1, StartPreserves, EndPreserves DEF OwnerStep
  <1>2. CASE \E content \in SUBSET Txs : Do(content) /\ UNCHANGED reader
    BY <1>2, DoPreserves
  <1>3. CASE \E r \in Readers, h \in Heights : GetStore(r, h) /\ UNCHANGED hsVars
    BY <1>3, GetStorePreserves
  <1>4. CASE \E r \in Readers : ReaderStep(r) /\ UNCHANGED hsVars
    BY <1>4, CheckHeightPreserves, WaitEndPreserves DEF ReaderStep
  <1>5. CASE UNCHANGED vars
    BY <1>5 DEF vars, IInv, TypeOK, SeenStarted, CurrentStarted, ServedAtRequestedHeight, NoMissedHeight
  <1> QED BY <1>1, <1>2, <1>3, <1>4, <1>5 DEF Next

\* The strengthened invariant holds in every reachable state.
THEOREM Invariance == Spec => []IInv
  BY InitEstablishes, NextPreserves, PTL DEF Spec

\* The fields of a HeightSync and of its GetStore calls keep their types.
THEOREM TypeCorrect == Spec => []TypeOK
  <1>1. IInv => TypeOK
    BY DEF IInv
  <1> QED BY <1>1, Invariance, PTL

\* GetStore hands out the store of the height it was asked for.
THEOREM ServedCorrect == Spec => []ServedAtRequestedHeight
  <1>1. IInv => ServedAtRequestedHeight
    BY DEF IInv
  <1> QED BY <1>1, Invariance, PTL

\* GetStore never waits for a wake-up that has already happened.
THEOREM NoLostWakeup == Spec => []NoMissedHeight
  <1>1. IInv => NoMissedHeight
    BY DEF IInv
  <1> QED BY <1>1, Invariance, PTL

\* The store of a superseded height never changes again.
THEOREM SupersededFrozen == Spec => SupersededStoreFrozen
  <1>1. IInv /\ [Next]_vars =>
          [\A e \in Epochs : e < epoch' => stores'[e] = stores[e]]_vars
    <2> SUFFICES ASSUME IInv, [Next]_vars, NEW e \in Epochs, e < epoch'
                 PROVE  stores'[e] = stores[e]
      OBVIOUS
    <2>1. CASE OwnerStep
      BY <2>1 DEF OwnerStep, StartNewHeight, EndCurrentHeight
    <2>2. CASE \E content \in SUBSET Txs : Do(content)
      BY <2>2 DEF Do, IInv, TypeOK, Epochs
    <2>3. CASE UNCHANGED hsVars \/ UNCHANGED vars
      BY <2>3 DEF hsVars, vars
    <2> QED BY <2>1, <2>2, <2>3 DEF Next
  <1> QED BY <1>1, Invariance, PTL DEF Spec, SupersededStoreFrozen
=============================================================================
