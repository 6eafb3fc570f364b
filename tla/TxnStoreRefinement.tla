------------------------- MODULE TxnStoreRefinement -------------------------
(***************************************************************************)
(* With an atomic lock the transaction store implements SlotPool: every    *)
(* statement of the two functions is one step of the pool or a stutter.    *)
(***************************************************************************)
EXTENDS TxnStoreProofs

AllInv == TypeInv /\ TableInv /\ LockOwned

-----------------------------------------------------------------------------
(* Facts the cases share.                                                  *)

\* A thread inside is alone there.
LEMMA InsideAlone ==
  ASSUME TypeInv, TableInv, NEW th \in Threads, pc[th] \in Section,
         NEW u \in Threads, u # th
  PROVE  pc[u] \notin Section
  BY DEF TableInv, LockInv, OneThreadInside, Inside

\* The thread inside sees the table of the pool, and a used slot is held in it.
LEMMA HeldIsShown ==
  ASSUME StoreAssumption, TypeInv, TableInv, NEW th \in Threads,
         pc[th] \in Section \ {"RelClear", "AcqStamp"},
         NEW s \in Slots
  PROVE  /\ Granted[s] = txns[s]
         /\ txn_slot_free[s] = 0 => Granted[s] # NULL
<1>1. \A u \in Threads : pc[u] \notin {"RelClear", "AcqStamp"}
  BY InsideAlone DEF Section, AcqSection, RelSection
<1>2. ~InFlux(s)
  BY <1>1 DEF InFlux
<1>3. Granted[s] = txns[s]
  BY <1>1 DEF Granted
<1>4. QED
  BY <1>2, <1>3 DEF TypeInv, TypeOK, TableInv, SlotsAgree

\* How the calls of the pool see the labels of the code.
LEMMA Views ==
  ASSUME NEW t
  PROVE  /\ View("idle", NULL) = Pool!NoCall
         /\ \A l \in {"AcqTest", "AcqSet", "AcqCheck", "AcqTake", "AcqStamp", "AcqFull"} :
              View(l, t) = [op |-> "acquire", txn |-> t, phase |-> "pending"]
         /\ View("AcqUnlock", t) = [op |-> "acquire", txn |-> t, phase |-> "done"]
         /\ \A l \in {"RelTest", "RelSet", "RelFree", "RelClear"} :
              View(l, t) = [op |-> "release", txn |-> t, phase |-> "pending"]
         /\ View("RelUnlock", t) = [op |-> "release", txn |-> t, phase |-> "done"]
  BY DEF View, OpOf, PhaseOf, Pool!NoCall, AcqSection

\* A step that moves one thread to label l, with t as its argument.
LEMMA ViewStep ==
  ASSUME TypeOK, NEW th \in Threads, NEW l, NEW t,
         pc' = [pc EXCEPT ![th] = l],
         arg' = [arg EXCEPT ![th] = t]
  PROVE  Calls' = [Calls EXCEPT ![th] = View(l, t)]
<1>1. \A u \in Threads : Calls'[u] = IF u = th THEN View(l, t) ELSE Calls[u]
  BY DEF Calls, TypeOK
<1>2. Calls' = [u \in Threads |-> Calls'[u]]
  BY DEF Calls
<1>3. [Calls EXCEPT ![th] = View(l, t)]
        = [u \in Threads |-> IF u = th THEN View(l, t) ELSE Calls[u]]
  BY DEF Calls
<1>4. QED
  BY <1>1, <1>2, <1>3

LEMMA ViewStepSameTxn ==
  ASSUME TypeOK, NEW th \in Threads, NEW l,
         pc' = [pc EXCEPT ![th] = l], arg' = arg
  PROVE  Calls' = [Calls EXCEPT ![th] = View(l, arg[th])]
<1>1. arg' = [arg EXCEPT ![th] = arg[th]]
  BY DEF TypeOK
<1>2. QED
  BY <1>1, ViewStep

\* A step between two labels the pool does not tell apart is hidden.
LEMMA ViewStutter ==
  ASSUME TypeOK, NEW th \in Threads, NEW l, View(pc[th], arg[th]) = View(l, arg[th]),
         pc' = [pc EXCEPT ![th] = l], arg' = arg
  PROVE  Calls' = Calls
<1>1. Calls' = [Calls EXCEPT ![th] = View(l, arg[th])]
  BY ViewStepSameTxn
<1>2. Calls[th] = View(l, arg[th])
  BY DEF Calls
<1>3. QED
  BY <1>1, <1>2 DEF Calls
\* A step that writes no pointer and does not enter or leave the moment
\* between the pointer and its stamp does not change the pool's holders.
LEMMA GrantedKept ==
  ASSUME TypeOK, NEW th \in Threads, NEW l, l # "AcqStamp", pc[th] # "AcqStamp",
         pc' = [pc EXCEPT ![th] = l], txns' = txns,
         \A u \in Threads \ {th} : idx'[u] = idx[u]
  PROVE  Granted' = Granted
<1>1. \A u \in Threads, s \in Slots :
        (pc'[u] = "AcqStamp" /\ idx'[u] = s) <=> (pc[u] = "AcqStamp" /\ idx[u] = s)
  BY DEF TypeOK
<1>2. QED
  BY <1>1 DEF Granted

-----------------------------------------------------------------------------
(* The steps of the store, one group of statements at a time.              *)

LEMMA RefinesInit == ASSUME StoreAssumption PROVE Init => Pool!PoolInit
<1> SUFFICES ASSUME Init PROVE Pool!PoolInit
  OBVIOUS
<1>1. Granted = [s \in Slots |-> NULL]
  BY DEF Init, StoreInit, Granted
<1>2. Calls = [th \in Threads |-> Pool!NoCall]
  BY Views DEF Init, StoreInit, Calls
<1>3. QED
  BY <1>1, <1>2 DEF Init, StoreInit, Pool!PoolInit

LEMMA RefinesCall ==
  ASSUME AllInv, NEW th \in Threads, NEW t \in Txns, now' = now,
         CallAcquire(th, t) \/ CallRelease(th, t)
  PROVE  \E op \in {"acquire", "release"} : Pool!Invoke(th, op, t)
<1> USE DEF AllInv, TypeInv, Call, tableVars
<1>1. Calls[th] = Pool!NoCall
  BY Views DEF CallAcquire, CallRelease, CallsOK, Calls
<1>2. PICK l \in {"AcqTest", "RelTest"} : Call(th, l, t)
  BY DEF CallAcquire, CallRelease
<1>3. Granted' = Granted
  BY <1>2, GrantedKept DEF Goto
<1>4. Calls' = [Calls EXCEPT ![th] = View(l, t)]
  BY <1>2, ViewStep DEF Goto
<1>5. \E op \in {"acquire", "release"} :
        View(l, t) = [op |-> op, txn |-> t, phase |-> "pending"]
  BY <1>2, Views
<1>6. QED
  BY <1>1, <1>2, <1>3, <1>4, <1>5 DEF Pool!Invoke

\* Entering: refused because another thread is inside, or a stutter.
LEMMA RefinesTest ==
  ASSUME AllInv, NEW th \in Threads, now' = now, AtomicLock,
         AcqTest(th) \/ RelTest(th)
  PROVE  Pool!Refused(th) \/ UNCHANGED Pool!poolVars
<1> USE DEF AllInv, TypeInv, tableVars
<1>0. pc[th] \in {"AcqTest", "RelTest"}
  BY DEF AcqTest, RelTest, TestLock
<1>1. CASE lock = 1
  <2>1. Return(th, "LOCK_FAILED")
    BY <1>1 DEF AcqTest, RelTest, TestLock
  <2>2. PICK u \in Threads : Inside(u)
    BY <1>1 DEF LockOwned
  <2>3. u # th /\ View(pc[u], arg[u]).op # "none"
    BY <1>0, <2>2, Views DEF Inside, Section, AcqSection, RelSection
  <2>4. Calls[u] # Pool!NoCall
    BY <2>3 DEF Calls, Pool!NoCall
  <2>5. Calls[th] # Pool!NoCall /\ Calls[th].phase = "pending"
    BY <1>0, Views DEF Calls, Pool!NoCall
  <2>6. Calls' = [Calls EXCEPT ![th] = Pool!NoCall]
    <3>1. Calls' = [Calls EXCEPT ![th] = View("idle", NULL)]
      BY <2>1, ViewStep DEF Return, Goto
    <3>2. QED
      BY <3>1, Views
  <2>7. Granted' = Granted
    BY <1>0, <2>1, GrantedKept DEF Return, Goto, TypeOK
  <2>8. QED
    BY <2>1, <2>3, <2>4, <2>5, <2>6, <2>7
       DEF Return, Pool!Refused, Pool!Return
<1>2. CASE lock # 1
  <2>1. PICK l \in {"AcqCheck", "RelFree"} :
          /\ Goto(th, l)
          /\ View(pc[th], arg[th]) = View(l, arg[th])
          /\ UNCHANGED <<tableVars, desc, arg, idx>>
    BY <1>2, Views DEF AcqTest, RelTest, TestLock
  <2>2. Calls' = Calls
    BY <2>1, ViewStutter DEF Goto
  <2>3. Granted' = Granted
    BY <1>0, <2>1, GrantedKept DEF Goto
  <2>4. QED
    BY <2>1, <2>2, <2>3 DEF Pool!poolVars
<1>3. QED
  BY <1>1, <1>2

\* The loop: only taking back a slot that timed out is a step of the pool.
LEMMA RefinesCheck ==
  ASSUME StoreAssumption, AllInv, NEW th \in Threads, now' = now, AcqCheck(th)
  PROVE  \/ \E s \in Slots : Pool!Reclaim(th, s)
         \/ UNCHANGED Pool!poolVars
<1> USE DEF AllInv, TypeInv
<1>0. pc[th] = "AcqCheck" /\ idx[th] \in Slots
  BY DEF AcqCheck, TypeOK
<1>1. PICK l \in {"AcqCheck", "AcqTake", "AcqFull"} : pc' = [pc EXCEPT ![th] = l]
  BY DEF AcqCheck, Reclaim, FoundFree, Skip, NoneFree, Goto, TypeOK
<1>2. Calls' = Calls
  <2>1. View(pc[th], arg[th]) = View(l, arg[th])
    BY <1>0, Views
  <2>2. QED
    BY <1>1, <2>1, ViewStutter DEF AcqCheck
<1>3. CASE Reclaim(th, idx[th])
  <2>1. Granted[idx[th]] # NULL
    BY <1>0, <1>3, HeldIsShown DEF Reclaim, Expired, Section, AcqSection
  <2>2. \A u \in Threads : pc[u] # "AcqStamp" /\ pc'[u] # "AcqStamp"
    BY <1>0, <1>1, InsideAlone DEF Section, AcqSection, TypeOK
  <2>3. Granted' = [Granted EXCEPT ![idx[th]] = NULL]
    BY <1>0, <1>3, <2>2 DEF Reclaim, Granted, TypeOK
  <2>4. Pool!Pending(th, "acquire")
    BY <1>0, Views DEF Pool!Pending, Calls
  <2>5. QED
    BY <1>0, <1>2, <1>3, <2>1, <2>3, <2>4
       DEF Reclaim, Expired, AcqCheck, Pool!Reclaim
<1>4. CASE ~Reclaim(th, idx[th])
  <2>1. txns' = txns /\ \A u \in Threads \ {th} : idx'[u] = idx[u]
    BY <1>4 DEF AcqCheck, FoundFree, Skip, NoneFree, TypeOK
  <2>2. Granted' = Granted
    BY <1>0, <1>1, <2>1, GrantedKept
  <2>3. QED
    BY <1>2, <2>2 DEF AcqCheck, Pool!poolVars
<1>5. QED
  BY <1>3, <1>4

\* The slot is written: not yet granted, because its stamp is still old.
LEMMA RefinesTake ==
  ASSUME StoreAssumption, AllInv, NEW th \in Threads, now' = now, AcqTake(th)
  PROVE  UNCHANGED Pool!poolVars
<1> USE DEF AllInv, TypeInv
<1>1. pc[th] = "AcqTake" /\ idx[th] \in Slots
  BY DEF AcqTake, TypeOK
<1>2. \A u \in Threads : pc[u] # "AcqStamp" /\ (pc'[u] = "AcqStamp" <=> u = th)
  BY <1>1, InsideAlone DEF Section, AcqSection, TypeOK, AcqTake, Goto
<1>3. txns[idx[th]] = NULL
  <2>1. ~InFlux(idx[th])
    BY <1>1, InsideAlone DEF InFlux, Section, AcqSection, RelSection
  <2>2. QED
    BY <1>1, <2>1 DEF TableInv, CursorInv, SlotsAgree
<1>4. Granted' = Granted
  <2>1. Granted = txns
    BY <1>2 DEF Granted, TypeOK
  <2>2. Granted' = [s \in Slots |-> IF s = idx[th] THEN NULL ELSE txns'[s]]
    BY <1>1, <1>2 DEF Granted, AcqTake
  <2>3. QED
    BY <1>3, <2>1, <2>2 DEF AcqTake, TypeOK
<1>5. View(pc[th], arg[th]) = View("AcqStamp", arg[th])
  BY <1>1, Views
<1>6. Calls' = Calls
  BY <1>5, ViewStutter DEF AcqTake, Goto
<1>7. QED
  BY <1>4, <1>6 DEF AcqTake, Pool!poolVars

\* The stamp and the descriptor: the slot is granted, and every slot before it
\* is held.
LEMMA RefinesStamp ==
  ASSUME StoreAssumption, AllInv, NEW th \in Threads, now' = now, AcqStamp(th)
  PROVE  \E s \in Slots : Pool!Grant(th, s)
<1> USE DEF AllInv, TypeInv
<1> DEFINE s == idx[th]
<1>1. pc[th] = "AcqStamp" /\ s \in Slots
  BY DEF AcqStamp, TypeOK
<1>2. \A u \in Threads : (pc[u] = "AcqStamp" <=> u = th) /\ pc'[u] # "AcqStamp"
  BY <1>1, InsideAlone DEF Section, AcqSection, TypeOK, AcqStamp, Goto
<1>3. Granted = [r \in Slots |-> IF r = s THEN NULL ELSE txns[r]]
  BY <1>1, <1>2 DEF Granted
<1>4. txns[s] = arg[th]
  BY <1>1 DEF TableInv, CursorInv
<1>5. Granted' = [Granted EXCEPT ![s] = arg[th]]
  <2>1. Granted' = [r \in Slots |-> txns[r]]
    BY <1>2 DEF Granted, AcqStamp
  <2>2. QED
    BY <1>1, <1>3, <1>4, <2>1
<1>6. \A r \in Slots : r < s => Granted[r] # NULL
  <2>1. \A r \in Slots : ~InFlux(r)
    BY <1>1, InsideAlone DEF InFlux, Section, AcqSection, RelSection
  <2>2. QED
    BY <1>1, <1>3, <2>1 DEF TableInv, SlotsAgree, SearchComplete, AcqSection,
       TypeOK, StoreAssumption, Slots
<1>7. desc' = [desc EXCEPT ![arg[th]] = s]
  <2>1. s % DescMod = s
    BY <1>1, SmallMod DEF StoreAssumption, Slots
  <2>2. QED
    BY <2>1 DEF AcqStamp
<1>8. Calls' = [Calls EXCEPT ![th].phase = "done"]
  <2>1. Calls' = [Calls EXCEPT ![th] = View("AcqUnlock", arg[th])]
    BY ViewStepSameTxn DEF AcqStamp, Goto
  <2>2. Calls[th] = [op |-> "acquire", txn |-> arg[th], phase |-> "pending"]
    BY <1>1, Views DEF Calls
  <2>3. [Calls[th] EXCEPT !.phase = "done"] = View("AcqUnlock", arg[th])
    BY <2>2, Views
  <2>4. QED
    BY <2>1, <2>3
<1>9. Pool!Pending(th, "acquire") /\ Calls[th].txn = arg[th]
  BY <1>1, Views DEF Pool!Pending, Calls
<1>10. Pool!Grant(th, s)
  BY <1>1, <1>3, <1>5, <1>6, <1>7, <1>8, <1>9 DEF AcqStamp, Pool!Grant
<1>11. QED
  BY <1>1, <1>10

\* The release: the flag is hidden, clearing the pointer vacates the slot.
LEMMA RefinesRelease ==
  ASSUME StoreAssumption, AllInv, NEW th \in Threads, now' = now,
         RelFree(th) \/ RelClear(th)
  PROVE  Pool!Vacate(th) \/ UNCHANGED Pool!poolVars
<1> USE DEF AllInv, TypeInv
<1>1. CASE RelFree(th)
  <2>1. View(pc[th], arg[th]) = View("RelClear", arg[th])
    BY <1>1, Views DEF RelFree
  <2>2. Calls' = Calls
    BY <1>1, <2>1, ViewStutter DEF RelFree, Goto
  <2>3. Granted' = Granted
    BY <1>1, GrantedKept DEF RelFree, Goto
  <2>4. QED
    BY <1>1, <2>2, <2>3 DEF RelFree, Pool!poolVars
<1>2. CASE RelClear(th)
  <2>1. \A u \in Threads : pc[u] # "AcqStamp" /\ pc'[u] # "AcqStamp"
    BY <1>2, InsideAlone DEF RelClear, Section, AcqSection, RelSection, TypeOK, Goto
  <2>2. Granted' = [Granted EXCEPT ![desc[arg[th]]] = NULL]
    BY <1>2, <2>1 DEF RelClear, Granted, TypeOK
  <2>3. Calls[th] = [op |-> "release", txn |-> arg[th], phase |-> "pending"]
    BY <1>2, Views DEF RelClear, Calls
  <2>4. Calls' = [Calls EXCEPT ![th].phase = "done"]
    <3>1. Calls' = [Calls EXCEPT ![th] = View("RelUnlock", arg[th])]
      BY <1>2, ViewStepSameTxn DEF RelClear, Goto
    <3>2. [Calls[th] EXCEPT !.phase = "done"] = View("RelUnlock", arg[th])
      BY <2>3, Views
    <3>3. QED
      BY <3>1, <3>2
  <2>5. QED
    BY <1>2, <2>2, <2>3, <2>4 DEF RelClear, Pool!Vacate, Pool!Pending
<1>3. QED
  BY <1>1, <1>2

\* Leaving: with the effect done, or with every slot held.
LEMMA RefinesUnlock ==
  ASSUME StoreAssumption, AllInv, NEW th \in Threads, now' = now,
         AcqUnlock(th) \/ AcqFull(th) \/ RelUnlock(th)
  PROVE  Pool!Done(th) \/ Pool!Exceeded(th)
<1> USE DEF AllInv, TypeInv
<1>1. /\ pc[th] \in {"AcqUnlock", "AcqFull", "RelUnlock"}
      /\ \E r \in Results : Return(th, r)
  BY DEF AcqUnlock, AcqFull, RelUnlock, Unlock, Results
<1>2. Calls' = [Calls EXCEPT ![th] = Pool!NoCall]
  <2>1. /\ pc' = [pc EXCEPT ![th] = "idle"]
        /\ arg' = [arg EXCEPT ![th] = NULL]
    BY <1>1 DEF Return, Goto
  <2>2. Calls' = [Calls EXCEPT ![th] = View("idle", NULL)]
    BY <2>1, ViewStep
  <2>3. QED
    BY <2>2, Views
<1>3. Granted' = Granted
  BY <1>1, GrantedKept DEF Return, Goto, TypeOK, tableVars
<1>4. Pool!Return(th)
  BY <1>1, <1>2, <1>3 DEF Return, tableVars, Pool!Return
<1>5. CASE pc[th] = "AcqFull"
  <2>1. \A s \in Slots : Granted[s] # NULL
    BY <1>5, HeldIsShown DEF TableInv, SearchComplete, Section, AcqSection, RelSection
  <2>2. Pool!Pending(th, "acquire")
    BY <1>5, Views DEF Pool!Pending, Calls
  <2>3. QED
    BY <1>4, <2>1, <2>2 DEF Pool!Exceeded
<1>6. CASE pc[th] # "AcqFull"
  <2>1. Calls[th].phase = "done"
    BY <1>1, <1>6, Views DEF Calls
  <2>2. QED
    BY <1>4, <2>1 DEF Pool!Done
<1>7. QED
  BY <1>5, <1>6

LEMMA RefinesNext ==
  ASSUME StoreAssumption, AtomicLock
  PROVE  AllInv /\ [Next]_vars => [Pool!PoolNext]_(Pool!poolVars)
<1> SUFFICES ASSUME AllInv, [Next]_vars
             PROVE  [Pool!PoolNext]_(Pool!poolVars)
  OBVIOUS
<1> USE StoreAssumption, AtomicLock
<1>1. CASE Tick \/ SetClock
  <2>1. now \in Nat /\ now' \in Nat
    BY <1>1 DEF AllInv, TypeInv, TypeOK, StoreAssumption, Tick, SetClock
  <2>2. Pool!Clock
    BY <1>1, <2>1 DEF Tick, SetClock, storeVars, Pool!Clock, Granted, Calls
  <2>3. QED
    BY <2>2 DEF Pool!PoolNext
<1>2. ASSUME NEW th \in Threads, ThreadCall(th)
      PROVE  Pool!PoolNext
  BY <1>2, RefinesCall DEF ThreadCall, Pool!PoolNext
<1>3. ASSUME NEW th \in Threads, StoreStep(th)
      PROVE  Pool!PoolNext \/ UNCHANGED Pool!poolVars
  <2>0. now' = now
    BY <1>3 DEF StoreStep
  <2>1. CASE AcqTest(th) \/ RelTest(th)
    BY <2>0, <2>1, RefinesTest DEF Pool!PoolNext
  <2>2. CASE AcqCheck(th)
    BY <2>0, <2>2, RefinesCheck DEF Pool!PoolNext
  <2>3. CASE AcqTake(th)
    BY <2>0, <2>3, RefinesTake
  <2>4. CASE AcqStamp(th)
    BY <2>0, <2>4, RefinesStamp DEF Pool!PoolNext
  <2>5. CASE RelFree(th) \/ RelClear(th)
    BY <2>0, <2>5, RefinesRelease DEF Pool!PoolNext
  <2>6. CASE AcqUnlock(th) \/ AcqFull(th) \/ RelUnlock(th)
    BY <2>0, <2>6, RefinesUnlock DEF Pool!PoolNext
  <2>7. ~AcqSet(th) /\ ~RelSet(th)
    BY DEF AllInv, TableInv, LockInv, AcqSet, RelSet, SetLock
  <2>8. QED
    BY <1>3, <2>1, <2>2, <2>3, <2>4, <2>5, <2>6, <2>7
       DEF StoreStep, AcquireStep, ReleaseStep
<1>4. CASE UNCHANGED vars
  BY <1>4 DEF vars, storeVars, Pool!poolVars, Granted, Calls
<1>5. QED
  BY <1>1, <1>2, <1>3, <1>4 DEF Next

\* With the lock's test and write in one step, the store keeps every promise
\* of SlotPool: a slot changes hands only by a release that names it or after
\* TxnTimeout, an acquire gets the first slot nobody holds, LOCK_FAILED means
\* that another call was in progress and MAX_TXN_EXCEEDED that every slot was
\* held.
THEOREM StoreImplementsPool ==
  ASSUME StoreAssumption, AtomicLock
  PROVE  Spec => ImplementsPool
<1>1. Spec => []AllInv
  <2>1. Spec => []LockOwned
    BY LockNeverLeftBehind
  <2>2. QED
    BY <2>1, TypeInit, TypeNext, TableInit, TableNext, PTL DEF Spec, AllInv
<1>2. QED
  BY <1>1, RefinesInit, RefinesNext, PTL DEF Spec, ImplementsPool, Pool!PoolSpec

=============================================================================
