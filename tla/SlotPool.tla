------------------------------ MODULE SlotPool ------------------------------
(***************************************************************************)
(* What the transaction store promises to its callers, with no lock, no    *)
(* free flags and no loop: a pool of slots from which calls of several     *)
(* threads take and give back whole slots.  Every call has at most one     *)
(* effect on the pool, between its invocation and its return.              *)
(***************************************************************************)
EXTENDS Integers

CONSTANTS Threads,      \* the threads that call the store
          Txns,         \* the application's anedya_txn_t objects
          Slots,        \* slot numbers, 1 .. ANEDYA_MAX_CONCURRENT_TXN
          NULL,         \* "no transaction"
          TxnTimeout    \* age above which a held slot may be taken back

VARIABLES holder,   \* holder[s]: the transaction that holds slot s, or NULL
          since,    \* since[s]: the time slot s was granted
          desc,     \* desc[t]: the last slot granted to t
          call,     \* call[th]: the call thread th is executing
          now       \* the wall clock, in the store's unit (seconds)

poolVars == <<holder, since, desc, call, now>>

NoCall == [op |-> "none", txn |-> NULL, phase |-> "pending"]

PoolInit ==
  /\ holder = [s \in Slots |-> NULL]
  /\ since = [s \in Slots |-> 0]
  /\ desc = [t \in Txns |-> 0]
  /\ call = [th \in Threads |-> NoCall]
  /\ now = 0

Invoke(th, op, t) ==
  /\ call[th] = NoCall
  /\ call' = [call EXCEPT ![th] = [op |-> op, txn |-> t, phase |-> "pending"]]
  /\ UNCHANGED <<holder, since, desc, now>>

Pending(th, op) == call[th].op = op /\ call[th].phase = "pending"

\* A slot changes hands only by way of NULL: it is vacated by the release of
\* a transaction whose descriptor names it, or reclaimed when it is too old.
Reclaim(th, s) ==
  /\ Pending(th, "acquire")
  /\ holder[s] # NULL
  /\ now - since[s] > TxnTimeout
  /\ holder' = [holder EXCEPT ![s] = NULL]
  /\ UNCHANGED <<since, desc, call, now>>

\* An acquire is granted the first slot nobody holds.
Grant(th, s) ==
  /\ Pending(th, "acquire")
  /\ holder[s] = NULL
  /\ \A r \in Slots : r < s => holder[r] # NULL
  /\ holder' = [holder EXCEPT ![s] = call[th].txn]
  /\ since' = [since EXCEPT ![s] = now]
  /\ desc' = [desc EXCEPT ![call[th].txn] = s]
  /\ call' = [call EXCEPT ![th].phase = "done"]
  /\ UNCHANGED now

Vacate(th) ==
  /\ Pending(th, "release")
  /\ holder' = [holder EXCEPT ![desc[call[th].txn]] = NULL]
  /\ call' = [call EXCEPT ![th].phase = "done"]
  /\ UNCHANGED <<since, desc, now>>

Return(th) ==
  /\ call' = [call EXCEPT ![th] = NoCall]
  /\ UNCHANGED <<holder, since, desc, now>>

\* ANEDYA_OK is answered once the call has had its effect ...
Done(th) == call[th].phase = "done" /\ Return(th)

\* ... ANEDYA_ERR_LOCK_FAILED only while another call is in progress ...
Refused(th) ==
  /\ call[th] # NoCall
  /\ call[th].phase = "pending"
  /\ \E u \in Threads \ {th} : call[u] # NoCall
  /\ Return(th)

\* ... and ANEDYA_ERR_MAX_TXN_EXCEEDED only when every slot is held.
Exceeded(th) ==
  /\ Pending(th, "acquire")
  /\ \A s \in Slots : holder[s] # NULL
  /\ Return(th)

\* The clock goes on, or is set.
Clock == now' \in Nat /\ UNCHANGED <<holder, since, desc, call>>

PoolNext ==
  \/ \E th \in Threads :
       \/ \E t \in Txns, op \in {"acquire", "release"} : Invoke(th, op, t)
       \/ \E s \in Slots : Reclaim(th, s) \/ Grant(th, s)
       \/ Vacate(th)
       \/ Done(th)
       \/ Refused(th)
       \/ Exceeded(th)
  \/ Clock

PoolSpec == PoolInit /\ [][PoolNext]_poolVars
=============================================================================
