------------------------------ MODULE TxnStore ------------------------------
(***************************************************************************)
(* The transaction store of the client (anedya_txn_store_t), statement by  *)
(* statement: a table of slots behind a one-byte lock that is tested by    *)
(* one statement and set by the next.  Slots are numbered from 1, as the   *)
(* descriptors are: index i of the C arrays is slot i + 1.                 *)
(*                                                                         *)
(* The module gives the steps of the two functions for any thread; the     *)
(* specification at its end lets every thread call them in any order.      *)
(***************************************************************************)
EXTENDS Integers

CONSTANTS Threads,      \* application threads and the MQTT task
          Txns,         \* the application's anedya_txn_t objects
          NULL,         \* the null pointer
          MaxTxn,       \* ANEDYA_MAX_CONCURRENT_TXN
          TxnTimeout,   \* the literal 30 (seconds) of the expiry test
          DescMod,      \* 2^8: a descriptor is a uint8_t
          AtomicLock,   \* TRUE: no switch between the lock's test and its write
          ClockSet,     \* TRUE: the platform may set the clock, back or forth
          MaxTime       \* bound of the clock, for model checking

ASSUME StoreAssumption ==
  /\ MaxTxn \in Nat \ {0}
  /\ DescMod \in Nat
  /\ MaxTxn < DescMod
  /\ TxnTimeout \in Nat
  /\ MaxTime \in Nat
  /\ AtomicLock \in BOOLEAN
  /\ NULL \notin Txns

Slots == 1 .. MaxTxn

VARIABLES txns,            \* txns[s]: the transaction in slot s, or NULL
          txn_slot_free,   \* txn_slot_free[s]: 1 when s is free, else 0
          aquired_time,    \* aquired_time[s]: when s was last acquired
          lock,            \* _lock
          desc,            \* desc[t]: the descriptor in t, 0 before any
          now,             \* time(NULL)
          pc,              \* pc[th]: next statement of th, "idle" outside
          arg,             \* arg[th]: the txn parameter of th's call
          idx,             \* idx[th]: th's loop variable, 1 whenever a loop starts
          ret              \* ret[th]: what th's last call returned

tableVars == <<txns, txn_slot_free, aquired_time>>
storeVars == <<txns, txn_slot_free, aquired_time, lock, desc, pc, arg, idx, ret>>
vars == <<storeVars, now>>

AcqSection == {"AcqCheck", "AcqTake", "AcqStamp", "AcqUnlock", "AcqFull"}
RelSection == {"RelFree", "RelClear", "RelUnlock"}
Section == AcqSection \cup RelSection
Labels == Section \cup {"idle", "AcqTest", "AcqSet", "RelTest", "RelSet"}
Results == {"OK", "LOCK_FAILED", "MAX_TXN_EXCEEDED"}

StoreInit ==
  /\ txns = [s \in Slots |-> NULL]
  /\ txn_slot_free = [s \in Slots |-> 1]
  /\ aquired_time = [s \in Slots |-> 0]
  /\ lock = 0
  /\ desc = [t \in Txns |-> 0]
  /\ pc = [th \in Threads |-> "idle"]
  /\ arg = [th \in Threads |-> NULL]
  /\ idx = [th \in Threads |-> 1]
  /\ ret = [th \in Threads |-> "OK"]

Goto(th, label) == pc' = [pc EXCEPT ![th] = label]

Call(th, label, t) ==
  /\ pc[th] = "idle"
  /\ Goto(th, label)
  /\ arg' = [arg EXCEPT ![th] = t]
  /\ UNCHANGED <<tableVars, lock, desc, idx, ret>>

CallAcquire(th, t) == Call(th, "AcqTest", t)
CallRelease(th, t) == desc[t] # 0 /\ Call(th, "RelTest", t)

Return(th, r) ==
  /\ Goto(th, "idle")
  /\ arg' = [arg EXCEPT ![th] = NULL]
  /\ idx' = [idx EXCEPT ![th] = 1]
  /\ ret' = [ret EXCEPT ![th] = r]
  /\ UNCHANGED <<tableVars, desc>>

\* The test of the lock, and its write: two statements, or one when no task
\* switch can fall between them.
TestLock(th, test, set, enter) ==
  /\ pc[th] = test
  /\ IF lock = 1
       THEN Return(th, "LOCK_FAILED") /\ UNCHANGED lock
       ELSE /\ IF AtomicLock THEN lock' = 1 /\ Goto(th, enter)
                             ELSE lock' = lock /\ Goto(th, set)
            /\ UNCHANGED <<tableVars, desc, arg, idx, ret>>

SetLock(th, set, enter) ==
  /\ pc[th] = set
  /\ lock' = 1
  /\ Goto(th, enter)
  /\ UNCHANGED <<tableVars, desc, arg, idx, ret>>

Unlock(th, label, r) ==
  /\ pc[th] = label
  /\ lock' = 0
  /\ Return(th, r)

AcqTest(th) == TestLock(th, "AcqTest", "AcqSet", "AcqCheck")
AcqSet(th) == SetLock(th, "AcqSet", "AcqCheck")

\* Variant: off by one, a slot is taken back at the timeout.
Expired_Early(s) == txn_slot_free[s] = 0 /\ now - aquired_time[s] >= TxnTimeout

Expired(s) == txn_slot_free[s] = 0 /\ now - aquired_time[s] > TxnTimeout

\* One turn of the loop at slot s: a slot held for too long is freed and taken,
\* a free one is taken, and one in use sends the search to the next or ends it.
\* Variant: the pointer of the old holder stays in the slot.
Reclaim_KeepsPointer(th, s) ==
  /\ Expired(s)
  /\ txn_slot_free' = [txn_slot_free EXCEPT ![s] = 1]
  /\ Goto(th, "AcqTake") /\ UNCHANGED <<idx, txns>>

Reclaim(th, s) ==
  /\ Expired(s)
  /\ txn_slot_free' = [txn_slot_free EXCEPT ![s] = 1]
  /\ txns' = [txns EXCEPT ![s] = NULL]
  /\ Goto(th, "AcqTake") /\ UNCHANGED idx

FoundFree(th, s) ==
  /\ txn_slot_free[s] = 1
  /\ Goto(th, "AcqTake") /\ UNCHANGED <<txns, txn_slot_free, idx>>

\* Variant: the loop runs past the last slot.
Skip_PastEnd(th, s) ==
  /\ txn_slot_free[s] = 0 /\ ~Expired(s)
  /\ idx' = [idx EXCEPT ![th] = s + 1]
  /\ UNCHANGED <<txns, txn_slot_free, pc>>

\* Variant: the loop does not advance.
Skip_Stays(th, s) ==
  /\ txn_slot_free[s] = 0 /\ ~Expired(s) /\ s < MaxTxn
  /\ UNCHANGED <<idx, txns, txn_slot_free, pc>>

Skip(th, s) ==
  /\ txn_slot_free[s] = 0 /\ ~Expired(s) /\ s < MaxTxn
  /\ idx' = [idx EXCEPT ![th] = s + 1]
  /\ UNCHANGED <<txns, txn_slot_free, pc>>

\* Variant: the loop ends one slot early.
NoneFree_Early(th, s) ==
  /\ txn_slot_free[s] = 0 /\ ~Expired(s) /\ s >= MaxTxn - 1
  /\ Goto(th, "AcqFull") /\ UNCHANGED <<txns, txn_slot_free, idx>>

NoneFree(th, s) ==
  /\ txn_slot_free[s] = 0 /\ ~Expired(s) /\ s = MaxTxn
  /\ Goto(th, "AcqFull") /\ UNCHANGED <<txns, txn_slot_free, idx>>

AcqCheck(th) ==
  /\ pc[th] = "AcqCheck"
  /\ LET s == idx[th] IN
       Reclaim(th, s) \/ FoundFree(th, s) \/ Skip(th, s) \/ NoneFree(th, s)
  /\ UNCHANGED <<aquired_time, lock, desc, arg, ret>>

AcqTake(th) ==
  /\ pc[th] = "AcqTake"
  /\ txn_slot_free' = [txn_slot_free EXCEPT ![idx[th]] = 0]
  /\ txns' = [txns EXCEPT ![idx[th]] = arg[th]]
  /\ Goto(th, "AcqStamp")
  /\ UNCHANGED <<aquired_time, lock, desc, arg, idx, ret>>

\* Variant: the descriptor is the index of the array.
AcqStamp_ZeroBased(th) ==
  /\ pc[th] = "AcqStamp"
  /\ aquired_time' = [aquired_time EXCEPT ![idx[th]] = now]
  /\ desc' = [desc EXCEPT ![arg[th]] = idx[th] - 1]
  /\ Goto(th, "AcqUnlock")
  /\ UNCHANGED <<txns, txn_slot_free, lock, arg, idx, ret>>

AcqStamp(th) ==
  /\ pc[th] = "AcqStamp"
  /\ aquired_time' = [aquired_time EXCEPT ![idx[th]] = now]
  /\ desc' = [desc EXCEPT ![arg[th]] = idx[th] % DescMod]
  /\ Goto(th, "AcqUnlock")
  /\ UNCHANGED <<txns, txn_slot_free, lock, arg, idx, ret>>

AcqUnlock(th) == Unlock(th, "AcqUnlock", "OK")
\* Variant: the error return forgets the lock.
AcqFull_KeepsLock(th) ==
  pc[th] = "AcqFull" /\ Return(th, "MAX_TXN_EXCEEDED") /\ UNCHANGED lock
AcqFull(th) == Unlock(th, "AcqFull", "MAX_TXN_EXCEEDED")

\* Variant: the release does not look at the lock.
RelTest_NoTest(th) ==
  /\ pc[th] = "RelTest"
  /\ lock' = 1
  /\ Goto(th, "RelFree")
  /\ UNCHANGED <<tableVars, desc, arg, idx, ret>>

RelTest(th) == TestLock(th, "RelTest", "RelSet", "RelFree")
RelSet(th) == SetLock(th, "RelSet", "RelFree")

RelFree(th) ==
  /\ pc[th] = "RelFree"
  /\ txn_slot_free' = [txn_slot_free EXCEPT ![desc[arg[th]]] = 1]
  /\ Goto(th, "RelClear")
  /\ UNCHANGED <<txns, aquired_time, lock, desc, arg, idx, ret>>

\* Variant: the release only marks the slot as free.
RelClear_KeepsPointer(th) ==
  /\ pc[th] = "RelClear"
  /\ Goto(th, "RelUnlock")
  /\ UNCHANGED <<tableVars, lock, desc, arg, idx, ret>>

RelClear(th) ==
  /\ pc[th] = "RelClear"
  /\ txns' = [txns EXCEPT ![desc[arg[th]]] = NULL]
  /\ Goto(th, "RelUnlock")
  /\ UNCHANGED <<txn_slot_free, aquired_time, lock, desc, arg, idx, ret>>

RelUnlock(th) == Unlock(th, "RelUnlock", "OK")

AcquireStep(th) ==
  \/ AcqTest(th) \/ AcqSet(th) \/ AcqCheck(th) \/ AcqTake(th)
  \/ AcqStamp(th) \/ AcqUnlock(th) \/ AcqFull(th)

ReleaseStep(th) ==
  \/ RelTest(th) \/ RelSet(th) \/ RelFree(th) \/ RelClear(th)
  \/ RelUnlock(th)

StoreStep(th) == (AcquireStep(th) \/ ReleaseStep(th)) /\ UNCHANGED now

Tick == now < MaxTime /\ now' = now + 1 /\ UNCHANGED storeVars

\* The store reads the wall clock, which is set once the network is up.
SetClock == ClockSet /\ now' \in 0 .. MaxTime /\ UNCHANGED storeVars

-----------------------------------------------------------------------------
(* Any number of callers: an acquire for any transaction, even one that    *)
(* still holds a slot (an operation retried after its publish failed), and *)
(* a release for any transaction that was ever given a descriptor.         *)

Init == StoreInit /\ now = 0

ThreadCall(th) ==
  /\ \E t \in Txns : CallAcquire(th, t) \/ CallRelease(th, t)
  /\ UNCHANGED now

Next ==
  \/ Tick
  \/ SetClock
  \/ \E th \in Threads : ThreadCall(th) \/ StoreStep(th)

Spec == Init /\ [][Next]_vars
FairSpec == Spec /\ \A th \in Threads : WF_vars(StoreStep(th))

-----------------------------------------------------------------------------
TypeOK ==
  /\ txns \in [Slots -> Txns \cup {NULL}]
  /\ txn_slot_free \in [Slots -> {0, 1}]
  /\ aquired_time \in [Slots -> Nat]
  /\ lock \in {0, 1}
  /\ desc \in [Txns -> 0 .. MaxTxn]
  /\ now \in Nat
  /\ pc \in [Threads -> Labels]
  /\ arg \in [Threads -> Txns \cup {NULL}]
  /\ idx \in [Threads -> Slots]
  /\ ret \in [Threads -> Results]

Inside(th) == pc[th] \in Section

\* The lock does what its comments say: while one thread is between taking
\* and giving back the lock, no other thread is (client.c 151-157, 184-190).
OneThreadInside ==
  \A th, u \in Threads : Inside(th) /\ Inside(u) => th = u

\* The lock is never left behind: when it is set, a thread that will clear it
\* is inside, on every return path of the two functions.
LockOwned == lock = 1 => \E th \in Threads : Inside(th)

\* Some thread is between the two writes that keep slot s consistent.
InFlux(s) ==
  \E th \in Threads : pc[th] = "RelClear" /\ desc[arg[th]] = s

\* The two arrays agree: a slot is marked free exactly when it holds no
\* transaction, so a reply is never looked up in a slot that was given to
\* somebody and shows NULL, nor in a free slot that still shows a pointer.
SlotsAgree ==
  \A s \in Slots : ~InFlux(s) => (txn_slot_free[s] = 1 <=> txns[s] = NULL)

\* MAX_TXN_EXCEEDED is returned only when no slot is free, and a thread that
\* takes a slot has found every slot before it in use: no free slot is missed.
SearchComplete ==
  \A th \in Threads :
    /\ pc[th] = "AcqFull" => \A s \in Slots : txn_slot_free[s] = 0
    /\ pc[th] \in AcqSection =>
         \A s \in Slots : s < idx[th] => txn_slot_free[s] = 0

\* The slot a thread is about to write is free at that moment: no slot is
\* given to two transactions.
TakesFreeSlot ==
  \A th \in Threads : pc[th] = "AcqTake" => txns[idx[th]] = NULL

\* Whatever the interleaving, the lock is free again and again: a client
\* whose store has answered LOCK_FAILED can succeed later.
LockFreedAgain == []<>(lock = 0)

\* The store implements the pool of SlotPool: a slot is granted at the moment
\* its descriptor is written, and vacated when its pointer is cleared.
Granted ==
  [s \in Slots |->
     IF \E th \in Threads : pc[th] = "AcqStamp" /\ idx[th] = s
       THEN NULL ELSE txns[s]]

OpOf(label) ==
  IF label = "idle" THEN "none"
  ELSE IF label \in AcqSection \cup {"AcqTest", "AcqSet"} THEN "acquire"
  ELSE "release"

PhaseOf(label) == IF label \in {"AcqUnlock", "RelUnlock"} THEN "done" ELSE "pending"

View(label, t) == [op |-> OpOf(label), txn |-> t, phase |-> PhaseOf(label)]

Calls == [th \in Threads |-> View(pc[th], arg[th])]

Pool == INSTANCE SlotPool WITH
  holder <- Granted, since <- aquired_time, call <- Calls

ImplementsPool == Pool!PoolSpec
=============================================================================
