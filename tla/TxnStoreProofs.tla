--------------------------- MODULE TxnStoreProofs ---------------------------
(***************************************************************************)
(* Proofs about the transaction store, for every set of threads and of     *)
(* transactions, every pool size below 256 and every timeout.              *)
(*                                                                         *)
(* The type invariant and LockOwned hold as the code is.  The others need  *)
(* the lock's test and write to be one step (AtomicLock).                  *)
(***************************************************************************)
EXTENDS TxnStore, TLAPS

AcqLabels == AcqSection \cup {"AcqTest", "AcqSet"}
RelLabels == RelSection \cup {"RelTest", "RelSet"}

\* A thread has a transaction exactly while it is in a call, and in a release one that was given
\* a descriptor: without it the array accesses of the release have no bound.
CallsOK ==
  \A th \in Threads :
    /\ IF pc[th] = "idle" THEN arg[th] = NULL ELSE arg[th] \in Txns
    /\ pc[th] \in RelLabels => desc[arg[th]] # 0

TypeInv == TypeOK /\ CallsOK

\* With an atomic test-and-set the lock is set exactly when its one owner is
\* inside, and nobody is between the test and the write.
LockInv ==
  /\ OneThreadInside
  /\ \A th \in Threads : Inside(th) => lock = 1
  /\ \A th \in Threads : pc[th] \notin {"AcqSet", "RelSet"}

\* What the thread inside has established about the table, and that every
\* search starts at the first slot.
CursorInv ==
  \A th \in Threads :
    /\ pc[th] \notin AcqSection => idx[th] = 1
    /\ pc[th] = "AcqTake" => txn_slot_free[idx[th]] = 1
    /\ pc[th] = "AcqStamp" => txns[idx[th]] = arg[th]
    /\ pc[th] = "RelClear" => txn_slot_free[desc[arg[th]]] = 1

TableInv == LockInv /\ SlotsAgree /\ SearchComplete /\ CursorInv

-----------------------------------------------------------------------------
LEMMA SmallMod ==
  ASSUME NEW m \in Nat, NEW a \in Nat, a < m
  PROVE  a % m = a
  BY SMTT(60)

LEMMA TypeInit == ASSUME StoreAssumption PROVE Init => TypeInv
  BY DEF StoreAssumption, Init, StoreInit, TypeInv, TypeOK, CallsOK, RelLabels,
         RelSection, Section, Labels, Results, Slots

\* A call of thread th leaves every other thread's call alone.
LEMMA TypeNext ==
  ASSUME StoreAssumption
  PROVE  TypeInv /\ [Next]_vars => TypeInv'
<1> SUFFICES ASSUME TypeInv, [Next]_vars
             PROVE  TypeInv'
  OBVIOUS
<1> USE StoreAssumption DEF StoreAssumption, TypeInv, TypeOK, CallsOK, RelLabels, Results,
         Slots, Labels, Section, AcqSection, RelSection
<1>1. CASE Tick \/ SetClock
  BY <1>1 DEF Tick, SetClock, storeVars
<1>2. ASSUME NEW th \in Threads, ThreadCall(th)
      PROVE  TypeInv'
  <2>1. PICK t \in Txns : CallAcquire(th, t) \/ CallRelease(th, t)
    BY <1>2 DEF ThreadCall
  <2>2. now' = now
    BY <1>2 DEF ThreadCall
  <2>3. CASE CallAcquire(th, t)
    BY <2>2, <2>3 DEF CallAcquire, Call, Goto, tableVars
  <2>4. CASE CallRelease(th, t)
    BY <2>2, <2>4 DEF CallRelease, Call, Goto, tableVars
  <2>5. QED
    BY <2>1, <2>3, <2>4
<1>3. ASSUME NEW th \in Threads, StoreStep(th)
      PROVE  TypeInv'
  <2> USE DEF Goto, tableVars
  <2>1. ASSUME AcqTest(th), now' = now PROVE TypeInv'
    <3>1. CASE lock = 1
      <4>1. Return(th, "LOCK_FAILED") /\ lock' = lock
        BY <2>1, <3>1 DEF AcqTest, TestLock
      <4>2. QED
        BY <2>1, <4>1 DEF Return
    <3>2. CASE lock # 1 /\ AtomicLock
      BY <2>1, <3>2 DEF AcqTest, TestLock
    <3>3. CASE lock # 1 /\ ~AtomicLock
      BY <2>1, <3>3 DEF AcqTest, TestLock
    <3>4. QED
      BY <3>1, <3>2, <3>3
  <2>2. ASSUME AcqSet(th), now' = now PROVE TypeInv'
    BY <2>2 DEF AcqSet, SetLock
  <2>3. ASSUME AcqCheck(th), now' = now PROVE TypeInv'
    <3>1. idx[th] \in 1 .. MaxTxn
      OBVIOUS
    <3>2. CASE Reclaim(th, idx[th])
      BY <2>3, <3>1, <3>2 DEF AcqCheck, Reclaim
    <3>3. CASE FoundFree(th, idx[th])
      BY <2>3, <3>1, <3>3 DEF AcqCheck, FoundFree
    <3>4. CASE Skip(th, idx[th])
      <4>1. idx[th] + 1 \in 1 .. MaxTxn
        BY <3>1, <3>4 DEF Skip
      <4>2. QED
        BY <2>3, <3>4, <4>1 DEF AcqCheck, Skip
    <3>5. CASE NoneFree(th, idx[th])
      BY <2>3, <3>1, <3>5 DEF AcqCheck, NoneFree
    <3>6. QED
      BY <2>3, <3>2, <3>3, <3>4, <3>5 DEF AcqCheck
  <2>4. ASSUME AcqTake(th), now' = now PROVE TypeInv'
    BY <2>4 DEF AcqTake
  <2>5. ASSUME AcqStamp(th), now' = now PROVE TypeInv'
    <3>1. idx[th] \in 1 .. MaxTxn
      OBVIOUS
    <3>2. idx[th] % DescMod = idx[th]
      BY <3>1, SmallMod
    <3>3. desc' = [desc EXCEPT ![arg[th]] = idx[th]]
      BY <2>5, <3>2 DEF AcqStamp
    <3>4. QED
      BY <2>5, <3>1, <3>3 DEF AcqStamp
  <2>6. ASSUME AcqUnlock(th), now' = now PROVE TypeInv'
    BY <2>6 DEF AcqUnlock, Unlock, Return
  <2>7. ASSUME AcqFull(th), now' = now PROVE TypeInv'
    BY <2>7 DEF AcqFull, Unlock, Return
  <2>8. ASSUME RelTest(th), now' = now PROVE TypeInv'
    <3>1. CASE lock = 1
      <4>1. Return(th, "LOCK_FAILED") /\ lock' = lock
        BY <2>8, <3>1 DEF RelTest, TestLock
      <4>2. QED
        BY <2>8, <4>1 DEF Return
    <3>2. CASE lock # 1 /\ AtomicLock
      BY <2>8, <3>2 DEF RelTest, TestLock
    <3>3. CASE lock # 1 /\ ~AtomicLock
      BY <2>8, <3>3 DEF RelTest, TestLock
    <3>4. QED
      BY <3>1, <3>2, <3>3
  <2>9. ASSUME RelSet(th), now' = now PROVE TypeInv'
    BY <2>9 DEF RelSet, SetLock
  <2>10. ASSUME RelFree(th), now' = now PROVE TypeInv'
    BY <2>10 DEF RelFree
  <2>11. ASSUME RelClear(th), now' = now PROVE TypeInv'
    BY <2>11 DEF RelClear
  <2>12. ASSUME RelUnlock(th), now' = now PROVE TypeInv'
    BY <2>12 DEF RelUnlock, Unlock, Return
  <2>13. QED
    BY <1>3, <2>1, <2>2, <2>3, <2>4, <2>5, <2>6, <2>7, <2>8, <2>9, <2>10,
       <2>11, <2>12 DEF StoreStep, AcquireStep, ReleaseStep
<1>4. CASE UNCHANGED vars
  BY <1>4 DEF vars, storeVars
<1>5. QED
  BY <1>1, <1>2, <1>3, <1>4 DEF Next
\* TypeOK holds of every execution, with the lock atomic or not: no descriptor
\* leaves 0 .. MaxTxn, so the release never indexes outside the arrays.
THEOREM TypeCorrect == ASSUME StoreAssumption PROVE Spec => []TypeOK
<1>1. TypeInv => TypeOK
  BY DEF TypeInv
<1>2. QED
  BY <1>1, TypeInit, TypeNext, PTL DEF Spec

-----------------------------------------------------------------------------
\* The lock alone, first: its invariant needs nothing of the table.
LEMMA LockInit == Init => LockInv
  BY DEF Init, StoreInit, LockInv, OneThreadInside, Inside, Section,
         AcqSection, RelSection

LEMMA LockNext ==
  ASSUME StoreAssumption, AtomicLock
  PROVE  TypeInv /\ LockInv /\ [Next]_vars => LockInv'
<1> SUFFICES ASSUME TypeInv, LockInv, [Next]_vars
             PROVE  LockInv'
  OBVIOUS
<1> USE StoreAssumption, AtomicLock
    DEF TypeInv, TypeOK, LockInv, OneThreadInside, Inside, Section,
        AcqSection, RelSection, Goto
<1>1. CASE Tick \/ SetClock
  BY <1>1 DEF Tick, SetClock, storeVars
<1>2. ASSUME NEW th \in Threads, ThreadCall(th)
      PROVE  LockInv'
  BY <1>2 DEF ThreadCall, CallAcquire, CallRelease, Call
<1>3. ASSUME NEW th \in Threads, StoreStep(th)
      PROVE  LockInv'
  <2>1. CASE AcqTest(th) \/ RelTest(th)
    <3>1. CASE lock = 1
      BY <2>1, <3>1 DEF AcqTest, RelTest, TestLock, Return
    <3>2. CASE lock # 1
      BY <2>1, <3>2 DEF AcqTest, RelTest, TestLock
    <3>3. QED
      BY <3>1, <3>2
  <2>2. CASE AcqSet(th) \/ RelSet(th)
    BY <2>2 DEF AcqSet, RelSet, SetLock
  <2>3. CASE AcqCheck(th)
    BY <2>3 DEF AcqCheck, Reclaim, FoundFree, Skip, NoneFree
  <2>4. CASE AcqTake(th) \/ AcqStamp(th) \/ RelFree(th) \/ RelClear(th)
    BY <2>4 DEF AcqTake, AcqStamp, RelFree, RelClear
  <2>5. CASE AcqUnlock(th) \/ AcqFull(th) \/ RelUnlock(th)
    BY <2>5 DEF AcqUnlock, AcqFull, RelUnlock, Unlock, Return
  <2>6. QED
    BY <1>3, <2>1, <2>2, <2>3, <2>4, <2>5 DEF StoreStep, AcquireStep, ReleaseStep
<1>4. CASE UNCHANGED vars
  BY <1>4 DEF vars, storeVars
<1>5. QED
  BY <1>1, <1>2, <1>3, <1>4 DEF Next

\* Mutual exclusion: with the window between the test and the write of the
\* lock closed, two calls never work on the table at once.
THEOREM MutualExclusion ==
  ASSUME StoreAssumption, AtomicLock
  PROVE  Spec => []OneThreadInside
<1>1. LockInv => OneThreadInside
  BY DEF LockInv
<1>2. QED
  BY <1>1, LockInit, LockNext, TypeInit, TypeNext, PTL DEF Spec

\* The lock is never left behind, whatever the interleaving: no return path
\* of acquire or release leaves it set, the failing ones included.
THEOREM LockNeverLeftBehind ==
  ASSUME StoreAssumption PROVE Spec => []LockOwned
<1>1. Init => LockOwned
  BY DEF Init, StoreInit, LockOwned
<1>2. TypeInv /\ LockOwned /\ [Next]_vars => LockOwned'
  <2> SUFFICES ASSUME TypeInv, LockOwned, [Next]_vars
               PROVE  LockOwned'
    OBVIOUS
  <2> USE StoreAssumption DEF StoreAssumption, TypeInv, TypeOK, LockOwned, Inside,
          Section, AcqSection, RelSection, Goto
  <2>1. CASE Tick \/ SetClock
    BY <2>1 DEF Tick, SetClock, storeVars
  <2>2. ASSUME NEW th \in Threads, ThreadCall(th)
        PROVE  LockOwned'
    BY <2>2 DEF ThreadCall, CallAcquire, CallRelease, Call
  <2>3. ASSUME NEW th \in Threads, StoreStep(th)
        PROVE  LockOwned'
    <3>1. CASE AcqTest(th) \/ RelTest(th)
      <4>1. CASE lock = 1
        BY <3>1, <4>1 DEF AcqTest, RelTest, TestLock, Return
      <4>2. CASE lock # 1
        BY <3>1, <4>2 DEF AcqTest, RelTest, TestLock
      <4>3. QED
        BY <4>1, <4>2
    <3>2. CASE AcqSet(th) \/ RelSet(th)
      BY <3>2 DEF AcqSet, RelSet, SetLock
    <3>3. CASE AcqCheck(th)
      BY <3>3 DEF AcqCheck, Reclaim, FoundFree, Skip, NoneFree
    <3>4. CASE AcqTake(th) \/ AcqStamp(th) \/ RelFree(th) \/ RelClear(th)
      BY <3>4 DEF AcqTake, AcqStamp, RelFree, RelClear
    <3>5. CASE AcqUnlock(th) \/ AcqFull(th) \/ RelUnlock(th)
      BY <3>5 DEF AcqUnlock, AcqFull, RelUnlock, Unlock, Return
    <3>6. QED
      BY <2>3, <3>1, <3>2, <3>3, <3>4, <3>5
         DEF StoreStep, AcquireStep, ReleaseStep
  <2>4. CASE UNCHANGED vars
    BY <2>4 DEF vars, storeVars
  <2>5. QED
    BY <2>1, <2>2, <2>3, <2>4 DEF Next
<1>3. QED
  BY <1>1, <1>2, TypeInit, TypeNext, PTL DEF Spec

-----------------------------------------------------------------------------
LEMMA TableInit == ASSUME StoreAssumption PROVE Init => TableInv
  BY LockInit DEF StoreAssumption, Init, StoreInit, TableInv, SlotsAgree,
     SearchComplete, CursorInv, AcqSection, Slots

\* Only the owner of the lock changes the table, and each of its steps keeps
\* what it knows: one conjunct of the invariant at a time.
LEMMA TableNext ==
  ASSUME StoreAssumption, AtomicLock
  PROVE  TypeInv /\ TableInv /\ [Next]_vars => TableInv'
<1> SUFFICES ASSUME TypeInv, TableInv, [Next]_vars
             PROVE  TableInv'
  OBVIOUS
<1>0. LockInv'
  BY LockNext DEF TableInv
<1> USE StoreAssumption, AtomicLock, <1>0
    DEF StoreAssumption, TypeInv, TypeOK, CallsOK, RelLabels, TableInv,
        LockInv, OneThreadInside, Inside, SlotsAgree, InFlux, SearchComplete,
        CursorInv, Slots, Section, AcqSection, RelSection, Goto, tableVars
<1>1. CASE Tick \/ SetClock
  BY <1>1 DEF Tick, SetClock, storeVars
<1>2. ASSUME NEW th \in Threads, ThreadCall(th)
      PROVE  TableInv'
  <2>1. PICK t \in Txns : CallAcquire(th, t) \/ CallRelease(th, t)
    BY <1>2 DEF ThreadCall
  <2>2. CASE CallAcquire(th, t)
    BY <2>2 DEF CallAcquire, Call
  <2>3. CASE CallRelease(th, t)
    BY <2>3 DEF CallRelease, Call
  <2>4. QED
    BY <2>1, <2>2, <2>3
<1>3. ASSUME NEW th \in Threads, StoreStep(th)
      PROVE  TableInv'
  <2>1. CASE AcqTest(th) \/ RelTest(th)
    <3>1. CASE lock = 1
      <4>1. pc[th] \in {"AcqTest", "RelTest"} /\ Return(th, "LOCK_FAILED")
        BY <2>1, <3>1 DEF AcqTest, RelTest, TestLock
      <4>2. SlotsAgree'
        BY <4>1 DEF Return
      <4>3. SearchComplete' /\ CursorInv'
        BY <4>1 DEF Return
      <4>4. QED
        BY <4>2, <4>3
    <3>2. CASE lock # 1 /\ AcqTest(th)
      BY <3>2 DEF AcqTest, TestLock
    <3>3. CASE lock # 1 /\ RelTest(th)
      BY <3>3 DEF RelTest, TestLock
    <3>4. QED
      BY <2>1, <3>1, <3>2, <3>3
  <2>2. CASE AcqSet(th) \/ RelSet(th)
    BY <2>2 DEF AcqSet, RelSet, SetLock
  <2>3. CASE AcqCheck(th)
    <3>1. CASE Reclaim(th, idx[th])
      BY <2>3, <3>1 DEF AcqCheck, Reclaim
    <3>2. CASE FoundFree(th, idx[th])
      BY <2>3, <3>2 DEF AcqCheck, FoundFree
    <3>3. CASE Skip(th, idx[th])
      BY <2>3, <3>3 DEF AcqCheck, Skip
    <3>4. CASE NoneFree(th, idx[th])
      BY <2>3, <3>4 DEF AcqCheck, NoneFree
    <3>5. QED
      BY <2>3, <3>1, <3>2, <3>3, <3>4 DEF AcqCheck
  <2>4. CASE AcqTake(th)
    BY <2>4 DEF AcqTake
  <2>5. CASE AcqStamp(th)
    <3>1. SlotsAgree'
      BY <2>5 DEF AcqStamp
    <3>2. SearchComplete'
      BY <2>5 DEF AcqStamp
    <3>3. CursorInv'
      BY <2>5 DEF AcqStamp
    <3>4. QED
      BY <3>1, <3>2, <3>3
  <2>6. CASE RelFree(th)
    <3>1. SlotsAgree'
      BY <2>6 DEF RelFree
    <3>2. SearchComplete'
      BY <2>6 DEF RelFree
    <3>3. CursorInv'
      BY <2>6 DEF RelFree
    <3>4. QED
      BY <3>1, <3>2, <3>3
  <2>7. CASE RelClear(th)
    <3>1. SlotsAgree'
      BY <2>7 DEF RelClear
    <3>2. SearchComplete'
      BY <2>7 DEF RelClear
    <3>3. CursorInv'
      BY <2>7 DEF RelClear
    <3>4. QED
      BY <3>1, <3>2, <3>3
  <2>8. CASE AcqUnlock(th) \/ AcqFull(th) \/ RelUnlock(th)
    <3>1. /\ pc[th] \in {"AcqUnlock", "AcqFull", "RelUnlock"}
          /\ \E r \in Results : Return(th, r)
      BY <2>8 DEF AcqUnlock, AcqFull, RelUnlock, Unlock, Results
    <3>2. SlotsAgree'
      BY <3>1 DEF Return
    <3>3. SearchComplete' /\ CursorInv'
      BY <3>1 DEF Return
    <3>4. QED
      BY <3>2, <3>3
  <2>9. QED
    BY <1>3, <2>1, <2>2, <2>3, <2>4, <2>5, <2>6, <2>7, <2>8
       DEF StoreStep, AcquireStep, ReleaseStep
<1>4. CASE UNCHANGED vars
  BY <1>4 DEF vars, storeVars
<1>5. QED
  BY <1>1, <1>2, <1>3, <1>4 DEF Next

\* What mutual exclusion buys: the free flags and the pointers agree, a search
\* misses no free slot, and no slot is given to two transactions.
THEOREM TableCorrect ==
  ASSUME StoreAssumption, AtomicLock
  PROVE  Spec => [](SlotsAgree /\ SearchComplete /\ TakesFreeSlot)
<1>1. TypeInv /\ TableInv => SlotsAgree /\ SearchComplete /\ TakesFreeSlot
  <2> SUFFICES ASSUME TypeInv, TableInv
               PROVE  TakesFreeSlot
    BY DEF TableInv
  <2>1. ASSUME NEW th \in Threads, pc[th] = "AcqTake"
        PROVE  txns[idx[th]] = NULL
    <3>1. idx[th] \in Slots /\ txn_slot_free[idx[th]] = 1
      BY <2>1 DEF TypeInv, TypeOK, TableInv, CursorInv
    <3>2. ~InFlux(idx[th])
      BY <2>1 DEF InFlux, TableInv, LockInv, OneThreadInside, Inside, Section,
                  AcqSection, RelSection
    <3>3. QED
      BY <3>1, <3>2 DEF TableInv, SlotsAgree
  <2>2. QED
    BY <2>1 DEF TakesFreeSlot
<1>2. QED
  BY <1>1, TypeInit, TypeNext, TableInit, TableNext, PTL DEF Spec

=============================================================================
