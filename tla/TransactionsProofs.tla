------------------------- MODULE TransactionsProofs -------------------------
(***************************************************************************)
(* Proofs about Transactions, for every set of threads and transactions,   *)
(* every size of the store and both transports: an answer reaches the      *)
(* operation it was sent for, finds its slot, and the handler gives back   *)
(* that slot, provided answers come in time and a transaction is used      *)
(* again only when its answer has been handled (Discipline).               *)
(***************************************************************************)
EXTENDS Transactions, TxnStoreProofs

Calling(th) == at[th] \in {"register", "send"}
Handling(th) == hat[th] # "none"

\* What a thread does in the store belongs to the API function it is in, or
\* to the handler; descriptors are set before they are sent.
Place(th) ==
  /\ pc[th] \in AcqLabels => at[th] = "register" /\ arg[th] = cur[th].txn
  /\ pc[th] \in RelLabels => hat[th] = "release" /\ arg[th] = htxn[th]
  /\ at[th] # "app" => cur[th].txn \in Txns
  /\ pc[th] = "AcqUnlock" => desc[arg[th]] # 0
  /\ at[th] = "register" /\ pc[th] = "idle" /\ ret[th] = "OK" => desc[cur[th].txn] # 0
  /\ at[th] = "send" => pc[th] = "idle" /\ desc[cur[th].txn] # 0
  /\ hat[th] # "none" => htxn[th] \in Txns /\ hrep[th].id # 0
  /\ hat[th] # "none" => IF Transport = "MQTT" THEN th = Net
                         ELSE at[th] = "post" /\ cur[th].txn = htxn[th]
  /\ hat[th] = "release" => at[th] \in {"app", "post"}
  /\ at[th] = "post" => Transport = "HTTP"

Places == (\A th \in Threads : Place(th)) /\ (\A r \in air : r.id # 0)

\* Transaction t has slot s, and got it at time b or later.
OwnsSlot(t, s, b) ==
  /\ s \in Slots
  /\ txns[s] = t /\ txn_slot_free[s] = 0 /\ desc[t] = s
  /\ aquired_time[s] >= b

Recent(b) == b <= now /\ now - b <= MaxReplyAge

\* The request or answer r is of the operation that its transaction executes.
Current(r) ==
  /\ r.txn \in Txns
  /\ open[r.txn] /\ serial[r.txn] = r.n /\ started[r.txn] = r.born
  /\ Recent(r.born)
  /\ HandlerFor(op[r.txn]) = AnswerForm(r.fn)

\* A thread in an API function has the transaction for itself, and its slot
\* from the moment the descriptor is written.
CallsCurrent ==
  \A th \in Threads : Calling(th) =>
    LET t == cur[th].txn IN
      /\ open[t] /\ Recent(started[t]) /\ HandlerFor(op[t]) = AnswerForm(cur[th].fn)
      /\ at[th] = "send" \/ pc[th] = "AcqUnlock" \/ (pc[th] = "idle" /\ ret[th] = "OK")
           => OwnsSlot(t, desc[t], started[t])

AirCurrent == \A r \in air : Current(r) /\ OwnsSlot(r.txn, r.id, r.born)

HandledCurrent ==
  \A th \in Threads : Handling(th) =>
    LET t == htxn[th]
        r == hrep[th]
    IN  /\ t = r.txn /\ Current(r)
        /\ hat[th] # "release" \/ pc[th] \in {"RelTest", "RelSet", "RelFree"}
             => OwnsSlot(t, r.id, r.born)
        /\ pc[th] = "RelClear" => desc[t] = r.id /\ txns[r.id] = t
        /\ hat[th] = "release" /\ (pc[th] = "RelUnlock" \/ (pc[th] = "idle" /\ ret[th] = "OK"))
             => txns[r.id] # t

\* An operation is in one place at a time.
Apart ==
  /\ \A th, u \in Threads : Calling(th) /\ Calling(u) /\ cur[th].txn = cur[u].txn => th = u
  /\ \A th, u \in Threads : Handling(th) /\ Handling(u) /\ htxn[th] = htxn[u] => th = u
  /\ \A th, u \in Threads : Calling(th) /\ Handling(u) => cur[th].txn # htxn[u]
  /\ \A th \in Threads, r \in air : Calling(th) => cur[th].txn # r.txn
  /\ \A th \in Threads, r \in air : Handling(th) => htxn[th] # r.txn
  /\ \A q, r \in air : q.txn = r.txn => q = r

ClientInv == CallsCurrent /\ AirCurrent /\ HandledCurrent /\ Apart

-----------------------------------------------------------------------------
(* Types, and what the client does to the store.                           *)

\* The answers to API function fn are read by the handler of operation o.
Paired(fn, o) == fn \in Fns /\ o \in Ops /\ HandlerFor(o) = AnswerForm(fn)

\* Every API function is a Begin with the operation of its answers.
LEMMA ApiCallBegins ==
  ASSUME NEW th \in Threads, NEW t \in Txns, ApiCall(th, t)
  PROVE  \E fn, o : Begin(th, t, fn, o) /\ Paired(fn, o)
<1>0. /\ Paired("bind", "BIND_DEVICE")
      /\ Paired("heartbeat", "HEARTBEAT")
      /\ Paired("ota_next", "OTA_NEXT")
      /\ Paired("ota_ongoing", "ONGOING_OTA")
      /\ Paired("ota_status", "SUBMIT_DATA")
      /\ Paired("submit_float", "SUBMIT_DATA")
      /\ Paired("submit_geo", "SUBMIT_DATA")
      /\ Paired("submit_status", "SUBMIT_DATA")
      /\ Paired("vs_set_float", "VALUESTORE_SET")
      /\ Paired("vs_set_string", "VALUESTORE_SET")
      /\ Paired("vs_set_bool", "VALUESTORE_SET")
      /\ Paired("vs_set_bin", "VALUESTORE_SET")
      /\ Paired("vs_get", "VALUESTORE_GET")
      /\ Paired("vs_list", "VALUESTORE_GET_LIST")
      /\ Paired("vs_delete", "VALUESTORE_DELETE")
      /\ Paired("event", "SUBMIT_EVENT")
      /\ Paired("log", "SUBMIT_LOG")
      /\ Paired("cmd_status", "CMD_UPDATE_STATUS")
      /\ Paired("cmd_list", "CMD_GET_LIST")
      /\ Paired("cmd_next", "CMD_NEXT")
  <2>1. DOMAIN OwnHandler = {"OTA_NEXT", "ONGOING_OTA", "VALUESTORE_GET",
                             "VALUESTORE_GET_LIST", "CMD_GET_LIST", "CMD_NEXT"}
    BY DEF OwnHandler
  <2>2. /\ OwnHandler["OTA_NEXT"] = "ota_next"
        /\ OwnHandler["ONGOING_OTA"] = "ota_ongoing"
        /\ OwnHandler["VALUESTORE_GET"] = "vs_get"
        /\ OwnHandler["VALUESTORE_GET_LIST"] = "vs_list"
        /\ OwnHandler["CMD_GET_LIST"] = "cmd_list"
        /\ OwnHandler["CMD_NEXT"] = "cmd_next"
    BY DEF OwnHandler
  <2>3. QED
    BY <2>1, <2>2 DEF Paired, HandlerFor, AnswerForm, Fns, Ops
<1>1. CASE anedya_device_bind_req(th, t)
  BY <1>0, <1>1 DEF anedya_device_bind_req
<1>2. CASE anedya_device_send_heartbeat(th, t)
  BY <1>0, <1>2 DEF anedya_device_send_heartbeat
<1>3. CASE anedya_op_ota_next_req(th, t)
  BY <1>0, <1>3 DEF anedya_op_ota_next_req
<1>4. CASE anedya_op_ongoing_ota_req(th, t)
  BY <1>0, <1>4 DEF anedya_op_ongoing_ota_req
<1>5. CASE anedya_op_ota_update_status_req(th, t)
  BY <1>0, <1>5 DEF anedya_op_ota_update_status_req
<1>6. CASE anedya_op_submit_float_req(th, t)
  BY <1>0, <1>6 DEF anedya_op_submit_float_req
<1>7. CASE anedya_op_submit_geo_req(th, t)
  BY <1>0, <1>7 DEF anedya_op_submit_geo_req
<1>8. CASE anedya_op_submit_status_req(th, t)
  BY <1>0, <1>8 DEF anedya_op_submit_status_req
<1>9. CASE anedya_op_valuestore_set_float(th, t)
  BY <1>0, <1>9 DEF anedya_op_valuestore_set_float
<1>10. CASE anedya_op_valuestore_set_string(th, t)
  BY <1>0, <1>10 DEF anedya_op_valuestore_set_string
<1>11. CASE anedya_op_valuestore_set_bool(th, t)
  BY <1>0, <1>11 DEF anedya_op_valuestore_set_bool
<1>12. CASE anedya_op_valuestore_set_bin(th, t)
  BY <1>0, <1>12 DEF anedya_op_valuestore_set_bin
<1>13. CASE anedya_op_valuestore_get_key(th, t)
  BY <1>0, <1>13 DEF anedya_op_valuestore_get_key
<1>14. CASE anedya_op_valuestore_list_obj(th, t)
  BY <1>0, <1>14 DEF anedya_op_valuestore_list_obj
<1>15. CASE anedya_op_valuestore_delete(th, t)
  BY <1>0, <1>15 DEF anedya_op_valuestore_delete
<1>16. CASE anedya_op_submit_event(th, t)
  BY <1>0, <1>16 DEF anedya_op_submit_event
<1>17. CASE anedya_op_submit_log(th, t)
  BY <1>0, <1>17 DEF anedya_op_submit_log
<1>18. CASE anedya_op_cmd_status_update(th, t)
  BY <1>0, <1>18 DEF anedya_op_cmd_status_update
<1>19. CASE anedya_op_cmd_get_list(th, t)
  BY <1>0, <1>19 DEF anedya_op_cmd_get_list
<1>20. CASE anedya_op_cmd_next(th, t)
  BY <1>0, <1>20 DEF anedya_op_cmd_next
<1>21. QED
  BY <1>1, <1>2, <1>3, <1>4, <1>5, <1>6, <1>7, <1>8, <1>9, <1>10, <1>11, <1>12, <1>13,
     <1>14, <1>15, <1>16, <1>17, <1>18, <1>19, <1>20 DEF ApiCall

\* The client uses the store as any set of callers would.
LEMMA ClientStepsStore ==
  ASSUME Places, [ClientNext]_allVars
  PROVE  [Next]_vars
<1> USE DEF StoreKept
<1>1. ASSUME NEW th \in Threads, NEW t \in Txns, ApiCall(th, t)
      PROVE  ThreadCall(th)
  BY <1>1, ApiCallBegins DEF Begin, ThreadCall
<1>2. ASSUME NEW th \in Threads, CallbackDone(th)
      PROVE  ThreadCall(th)
  BY <1>2 DEF CallbackDone, Places, Place, ThreadCall
<1>3. ASSUME NEW th \in Threads, ClientThread(th)
      PROVE  [Next]_vars
  BY <1>1, <1>2, <1>3
     DEF ClientThread, Next, RegisterDone, Published, SendFailed, PostFailed, PostEmpty,
         PostAnswered, Deliver, MarkComplete, HandlerDone, SendKept
<1>4. ASSUME NEW r \in air, Receive(r) \/ Lose(r)
      PROVE  UNCHANGED vars
  BY <1>4 DEF Receive, Lose
<1>5. CASE LinkChange \/ (\E t \in Txns : GiveUp(t)) \/ ClientTick
  BY <1>5 DEF LinkChange, GiveUp, ClientTick, Next
<1>6. CASE UNCHANGED allVars
  BY <1>6 DEF allVars
<1>7. QED
  BY <1>3, <1>4, <1>5, <1>6 DEF ClientNext

\* The step of a thread inside the store leaves the other threads' calls alone;
\* it goes on in the same function, or returns, and only a call that had its
\* effect returns ANEDYA_OK.
LEMMA StoreStepShape ==
  ASSUME StoreAssumption, TypeInv, NEW th \in Threads, StoreStep(th)
  PROVE  /\ now' = now
         /\ \A u \in Threads \ {th} : pc'[u] = pc[u] /\ arg'[u] = arg[u] /\ ret'[u] = ret[u]
         /\ pc[th] \in AcqLabels => pc'[th] \in AcqLabels \cup {"idle"}
         /\ pc[th] \in RelLabels => pc'[th] \in RelLabels \cup {"idle"}
         /\ pc[th] \in AcqLabels \cup RelLabels
         /\ pc'[th] = "idle" \/ arg'[th] = arg[th]
         /\ \A t \in Txns : desc[t] # 0 => desc'[t] # 0
         /\ pc'[th] = "AcqUnlock" => pc[th] = "AcqStamp" /\ desc'[arg[th]] # 0
         /\ pc'[th] = "idle" /\ ret'[th] = "OK" =>
              pc[th] \in {"AcqUnlock", "RelUnlock"} /\ UNCHANGED <<tableVars, desc>>
<1> USE StoreAssumption DEF StoreAssumption, TypeInv, TypeOK, CallsOK, RelLabels, AcqLabels,
        Results, Slots, Labels, Section, AcqSection, RelSection, Goto, tableVars
<1>1. now' = now
  BY DEF StoreStep
<1>2. CASE AcqTest(th) \/ RelTest(th)
  <2>1. CASE lock = 1
    BY <1>1, <1>2, <2>1 DEF AcqTest, RelTest, TestLock, Return
  <2>2. CASE lock # 1
    BY <1>1, <1>2, <2>2 DEF AcqTest, RelTest, TestLock
  <2>3. QED
    BY <2>1, <2>2
<1>3. CASE AcqSet(th) \/ RelSet(th)
  BY <1>1, <1>3 DEF AcqSet, RelSet, SetLock
<1>4. CASE AcqCheck(th)
  BY <1>1, <1>4 DEF AcqCheck, Reclaim, FoundFree, Skip, NoneFree
<1>5. CASE AcqTake(th) \/ RelFree(th) \/ RelClear(th)
  BY <1>1, <1>5 DEF AcqTake, RelFree, RelClear
<1>6. CASE AcqStamp(th)
  <2>0. idx[th] \in 1 .. MaxTxn
    OBVIOUS
  <2>1. idx[th] % DescMod = idx[th] /\ idx[th] # 0
    BY <2>0, SmallMod
  <2>2. desc' = [desc EXCEPT ![arg[th]] = idx[th]]
    BY <1>6, <2>1 DEF AcqStamp
  <2>3. pc[th] = "AcqStamp" /\ pc' = [pc EXCEPT ![th] = "AcqUnlock"] /\ UNCHANGED <<arg, ret>>
    BY <1>6 DEF AcqStamp
  <2>4. QED
    BY <1>1, <2>1, <2>2, <2>3
<1>7. CASE AcqUnlock(th) \/ AcqFull(th) \/ RelUnlock(th)
  BY <1>1, <1>7 DEF AcqUnlock, AcqFull, RelUnlock, Unlock, Return
<1>8. QED
  BY <1>2, <1>3, <1>4, <1>5, <1>6, <1>7 DEF StoreStep, AcquireStep, ReleaseStep

-----------------------------------------------------------------------------
LEMMA ClientTypeInit ==
  ASSUME StoreAssumption, ClientAssumption
  PROVE  ClientInit => TypeInv /\ ClientTypeOK /\ Places
<1> SUFFICES ASSUME ClientInit PROVE ClientTypeOK /\ Places
  BY TypeInit DEF ClientInit
<1>1. TypeOK
  BY TypeInit DEF ClientInit, TypeInv
<1>2. ClientTypeOK
  BY <1>1 DEF ClientInit, ClientTypeOK, NoFn, NoReply, Replies, Fns, Ops, StoreAssumption
<1>3. Places
  BY DEF ClientInit, Places, Place, Init, StoreInit, AcqLabels, RelLabels, AcqSection, RelSection
<1>4. QED
  BY <1>2, <1>3

\* A request is a reply without a verdict; a verdict keeps it one.
LEMMA RequestIsReply ==
  ASSUME StoreAssumption, ClientTypeOK, NEW th \in Threads, cur[th].txn \in Txns
  PROVE  /\ Request(th) \in Replies
         /\ Request(th).id = desc[cur[th].txn]
         /\ Request(th).txn = cur[th].txn
         /\ Request(th).n = serial[cur[th].txn]
         /\ Request(th).fn = cur[th].fn
         /\ Request(th).born = started[cur[th].txn]
  BY DEF Request, NoReply, Replies, ClientTypeOK, TypeOK, Fns

LEMMA VerdictIsReply ==
  ASSUME NEW r \in Replies, NEW k \in Kinds \cup {"none", "failed"}
  PROVE  /\ [r EXCEPT !.kind = k] \in Replies
         /\ [r EXCEPT !.kind = k].id = r.id
         /\ [r EXCEPT !.kind = k].txn = r.txn
         /\ [r EXCEPT !.kind = k].n = r.n
         /\ [r EXCEPT !.kind = k].fn = r.fn
         /\ [r EXCEPT !.kind = k].born = r.born
         /\ [r EXCEPT !.kind = k].kind = k
  BY DEF Replies

LEMMA ClientTypeNext ==
  ASSUME StoreAssumption, ClientAssumption, TypeInv, ClientTypeOK, Places, [ClientNext]_allVars
  PROVE  ClientTypeOK'
<1>1. TypeOK'
  BY ClientStepsStore, TypeNext DEF TypeInv
<1> DEFINE Typed == ClientTypeOK'
<1> USE <1>1, ClientAssumption
    DEF ClientTypeOK, clientVars, txnVars, callVars, handlerVars, appVars
<1>2. ASSUME NEW th \in Threads, NEW t \in Txns, ApiCall(th, t)
      PROVE  Typed
  <2>1. PICK fn, o : Begin(th, t, fn, o) /\ Paired(fn, o)
    BY <1>2, ApiCallBegins
  <2>2. fn \in Fns /\ o \in Ops
    BY <2>1 DEF Paired
  <2>3. now \in Nat
    BY DEF TypeOK
  <2>4. op' \in [Txns -> Ops] /\ is_complete' \in [Txns -> BOOLEAN] /\ is_success' \in [Txns -> BOOLEAN]
    BY <2>1, <2>2 DEF Begin
  <2>5. QED
    BY <2>1, <2>2, <2>3, <2>4 DEF Begin
<1>3. CASE UNCHANGED clientVars
  BY <1>3
<1> USE DEF Places, Place
<1>4. ASSUME NEW th \in Threads, at[th] # "app",
             \/ at' = [at EXCEPT ![th] = "send"] /\ UNCHANGED <<cur, open>>
             \/ ReturnFromApi(th, TRUE)
             \/ ReturnFromApi(th, FALSE)
      PROVE  /\ at' \in [Threads -> {"app", "register", "send", "post"}]
             /\ cur' \in [Threads -> [fn : Fns, txn : Txns \cup {NULL}]]
             /\ open' \in [Txns -> BOOLEAN]
  <2>1. NoFn \in [fn : Fns, txn : Txns \cup {NULL}]
    BY DEF NoFn, Fns
  <2>2. CASE at' = [at EXCEPT ![th] = "send"] /\ UNCHANGED <<cur, open>>
    BY <2>2
  <2>3. CASE ReturnFromApi(th, TRUE)
    BY <2>1, <2>3 DEF ReturnFromApi
  <2>4. CASE ReturnFromApi(th, FALSE)
    BY <2>1, <2>4 DEF ReturnFromApi
  <2>5. QED
    BY <1>4, <2>2, <2>3, <2>4
<1>5. ASSUME NEW th \in Threads, RegisterDone(th) \/ SendFailed(th) \/ PostEmpty(th)
      PROVE  Typed
  BY <1>4, <1>5 DEF RegisterDone, SendFailed, PostEmpty, SendKept
<1>6. ASSUME NEW th \in Threads, Published(th)
      PROVE  Typed
  <2>1. Request(th) \in Replies
    BY <1>6, RequestIsReply DEF Published
  <2>2. QED
    BY <1>4, <1>6, <2>1 DEF Published, SendKept
<1>7. ASSUME NEW th \in Threads, NEW where \in {"none", "deliver", "complete", "callback", "release"},
             NEW t \in Txns \cup {NULL}, NEW r \in Replies, Handle(th, where, t, r)
      PROVE  /\ hat' \in [Threads -> {"none", "deliver", "complete", "callback", "release"}]
             /\ htxn' \in [Threads -> Txns \cup {NULL}]
             /\ hrep' \in [Threads -> Replies]
  BY <1>7 DEF Handle
<1>8. ASSUME NEW th \in Threads, PostFailed(th)
      PROVE  Typed
  <2>1. [Request(th) EXCEPT !.kind = "failed"] \in Replies
    BY <1>8, RequestIsReply, VerdictIsReply DEF PostFailed
  <2>2. cur[th].txn \in Txns
    BY <1>8 DEF PostFailed
  <2>3. QED
    BY <1>7, <1>8, <2>1, <2>2 DEF PostFailed
<1>9. ASSUME NEW th \in Threads, PostAnswered(th)
      PROVE  Typed
  <2>1. PICK k \in Kinds : Handle(th, "deliver", cur[th].txn, [Request(th) EXCEPT !.kind = k])
    BY <1>9 DEF PostAnswered
  <2>2. [Request(th) EXCEPT !.kind = k] \in Replies /\ cur[th].txn \in Txns
    BY <1>9, RequestIsReply, VerdictIsReply DEF PostAnswered
  <2>3. QED
    BY <1>7, <1>9, <2>1, <2>2 DEF PostAnswered
<1>10. ASSUME NEW r \in air, Receive(r)
       PROVE  Typed
  <2>1. CASE UNCHANGED handlerVars
    BY <1>10, <2>1 DEF Receive
  <2>2. CASE ~ UNCHANGED handlerVars
    <3>1. PICK k \in Kinds : Handle(Net, "deliver", txns[r.id], [r EXCEPT !.kind = k])
      BY <1>10, <2>2 DEF Receive
    <3>2. [r EXCEPT !.kind = k] \in Replies
      BY VerdictIsReply
    <3>3. Net \in Threads /\ txns[r.id] \in Txns \cup {NULL}
      <4>1. Net \in Threads
        BY <1>10 DEF Receive
      <4>2. r \in Replies /\ r.id # 0
        OBVIOUS
      <4>3. r.id \in Slots
        BY <4>2 DEF Replies, Slots, StoreAssumption
      <4>4. QED
        BY <4>1, <4>3 DEF TypeOK
    <3>4. QED
      BY <1>7, <1>10, <3>1, <3>2, <3>3 DEF Receive
  <2>3. QED
    BY <2>1, <2>2
<1>11. ASSUME NEW th \in Threads, Deliver(th) \/ MarkComplete(th) \/ CallbackDone(th)
       PROVE  Typed
  <2>1. CASE Deliver(th)
    BY <2>1 DEF Deliver
  <2>2. CASE MarkComplete(th)
    BY <2>2 DEF MarkComplete
  <2>3. CASE CallbackDone(th)
    BY <2>3 DEF CallbackDone
  <2>4. QED
    BY <1>11, <2>1, <2>2, <2>3
<1>12. ASSUME NEW th \in Threads, HandlerDone(th)
       PROVE  Typed
  <2>1. NoReply \in Replies
    BY DEF NoReply, Replies, Fns, StoreAssumption
  <2>2. CASE at[th] = "post"
    BY <1>4, <1>7, <1>12, <2>1, <2>2 DEF HandlerDone
  <2>3. CASE at[th] # "post"
    <3>1. Handle(th, "none", NULL, NoReply) /\ UNCHANGED <<is_connected, txnVars, callVars, air, serial, started, nops>>
      BY <1>12, <2>3 DEF HandlerDone
    <3>2. open' \in [Txns -> BOOLEAN]
      BY ZenonT(90), <1>12, <2>3 DEF HandlerDone
    <3>3. QED
      BY <1>7, <2>1, <3>1, <3>2
  <2>4. QED
    BY <2>2, <2>3
<1>13. ASSUME NEW r \in air, Lose(r)
       PROVE  Typed
  BY <1>13 DEF Lose
<1>14. CASE LinkChange
  BY <1>14 DEF LinkChange
<1>15. ASSUME NEW t \in Txns, GiveUp(t)
       PROVE  Typed
  BY <1>15 DEF GiveUp
<1>16. QED
  BY <1>2, <1>3, <1>5, <1>6, <1>8, <1>9, <1>10, <1>11, <1>12, <1>13, <1>14, <1>15
     DEF ClientNext, ClientThread, ClientTick, allVars

LEMMA PlacesNext ==
  ASSUME StoreAssumption, ClientAssumption, TypeInv, ClientTypeOK, Places, [ClientNext]_allVars
  PROVE  Places'
<1> USE DEF Places
\* Without a step in the store the rest can be looked at thread by thread.
<1>1. ASSUME NEW th \in Threads, StoreStep(th), UNCHANGED clientVars
      PROVE  Places'
  <2>1. /\ pc \in [Threads -> Labels] /\ arg[th] \in Txns
        /\ \A u \in Threads : pc[u] = "AcqUnlock" => arg[u] \in Txns
    BY <1>1, StoreStepShape
       DEF TypeInv, TypeOK, CallsOK, AcqLabels, RelLabels, AcqSection, RelSection
  <2>2. UNCHANGED <<at, cur, hat, htxn, hrep, air>>
    BY <1>1 DEF clientVars, callVars, handlerVars
  <2>3. Place(th)'
    BY <1>1, <2>1, <2>2, StoreStepShape DEF Place, AcqLabels, RelLabels, AcqSection, RelSection
  <2>4. ASSUME NEW u \in Threads \ {th}
        PROVE  Place(u)'
    BY <1>1, <2>1, <2>2, StoreStepShape DEF Place
  <2>5. QED
    BY <2>2, <2>3, <2>4
<1>2. ASSUME NEW th \in Threads, NEW t \in Txns, ApiCall(th, t)
      PROVE  Places'
  <2>1. PICK fn, o : Begin(th, t, fn, o)
    BY <1>2, ApiCallBegins
  <2>2. /\ pc' = [pc EXCEPT ![th] = "AcqTest"] /\ arg' = [arg EXCEPT ![th] = t]
        /\ UNCHANGED <<desc, ret, hat, htxn, hrep, air>> /\ pc[th] = "idle" /\ at[th] = "app"
        /\ at' = [at EXCEPT ![th] = "register"]
        /\ cur' = [cur EXCEPT ![th] = [fn |-> fn, txn |-> t]]
        /\ hat[th] \in {"none", "callback"}
    BY <2>1 DEF Begin, CallAcquire, Call, Goto, InApplication, handlerVars
  <2>3. ASSUME NEW u \in Threads \ {th}
        PROVE  Place(u)'
    BY <2>2, <2>3 DEF Place, ClientTypeOK, TypeOK
  <2>4. Place(th)'
    BY <2>2 DEF Place, ClientTypeOK, TypeOK, AcqLabels, RelLabels, AcqSection, RelSection,
                ClientAssumption
  <2>5. QED
    BY <2>2, <2>3, <2>4
<1>3. ASSUME NEW th \in Threads, CallbackDone(th)
      PROVE  Places'
  <2>1. /\ pc' = [pc EXCEPT ![th] = "RelTest"] /\ arg' = [arg EXCEPT ![th] = htxn[th]]
        /\ UNCHANGED <<desc, ret, at, cur, htxn, hrep, air>> /\ pc[th] = "idle"
        /\ hat[th] = "callback" /\ at[th] \in {"app", "post"}
        /\ hat' = [hat EXCEPT ![th] = "release"]
    BY <1>3 DEF CallbackDone, CallRelease, Call, Goto, callVars
  <2>2. ASSUME NEW u \in Threads \ {th}
        PROVE  Place(u)'
    BY <2>1, <2>2 DEF Place, ClientTypeOK, TypeOK
  <2>3. Place(th)'
    BY <2>1 DEF Place, ClientTypeOK, TypeOK, AcqLabels, RelLabels, AcqSection, RelSection
  <2>4. QED
    BY <2>1, <2>2, <2>3
\* The other steps leave the store alone.
<1> DEFINE Quiet == UNCHANGED <<pc, arg, ret, desc>>
<1> USE DEF StoreKept, vars, storeVars
<1>4. ASSUME NEW th \in Threads, RegisterDone(th) \/ SendFailed(th) \/ PostEmpty(th) \/ Published(th)
      PROVE  Places'
  <2>1. /\ Quiet /\ UNCHANGED <<hat, htxn, hrep>> /\ at[th] \in {"register", "send"}
        /\ \/ /\ at[th] = "register" /\ pc[th] = "idle" /\ ret[th] = "OK"
              /\ at' = [at EXCEPT ![th] = "send"] /\ UNCHANGED cur
           \/ /\ pc[th] = "idle"
              /\ at' = [at EXCEPT ![th] = "app"] /\ cur' = [cur EXCEPT ![th] = NoFn]
    BY <1>4 DEF RegisterDone, SendFailed, PostEmpty, Published, ReturnFromApi, SendKept,
                handlerVars, Place
  <2>2. \A r \in air' : r.id # 0
    <3>1. CASE Published(th)
      <4>1. cur[th].txn \in Txns /\ desc[cur[th].txn] # 0
        BY <3>1 DEF Published, Place
      <4>2. air' = air \cup {Request(th)} /\ Request(th).id # 0
        BY <3>1, <4>1, RequestIsReply DEF Published
      <4>3. QED
        BY <4>2
    <3>2. CASE ~ Published(th)
      BY <1>4, <3>2 DEF RegisterDone, SendFailed, PostEmpty
    <3>3. QED
      BY <3>1, <3>2
  <2>3. ASSUME NEW u \in Threads \ {th}
        PROVE  Place(u)'
    BY <2>1, <2>3 DEF Place, ClientTypeOK
  <2>4. Place(th)'
    BY <2>1 DEF Place, ClientTypeOK, TypeOK, AcqLabels, RelLabels, AcqSection, RelSection
  <2>5. QED
    BY <2>2, <2>3, <2>4
<1>5. ASSUME NEW th \in Threads, PostFailed(th) \/ PostAnswered(th)
      PROVE  Places'
  <2>1. at[th] = "send" /\ cur[th].txn \in Txns /\ desc[cur[th].txn] # 0 /\ pc[th] = "idle"
    BY <1>5 DEF PostFailed, PostAnswered, Place
  <2>2. PICK k \in Kinds \cup {"failed"}, where \in {"deliver", "callback"} :
           Handle(th, where, cur[th].txn, [Request(th) EXCEPT !.kind = k])
    BY <1>5 DEF PostFailed, PostAnswered
  <2>3. [Request(th) EXCEPT !.kind = k].id # 0
    BY <2>1, RequestIsReply, VerdictIsReply
  <2>4. /\ Quiet /\ UNCHANGED <<cur, air>> /\ at' = [at EXCEPT ![th] = "post"]
        /\ Transport = "HTTP"
    BY <1>5 DEF PostFailed, PostAnswered, callVars
  <2>5. ASSUME NEW u \in Threads \ {th}
        PROVE  Place(u)'
    BY <2>2, <2>4, <2>5 DEF Place, ClientTypeOK, Handle
  <2>6. Place(th)'
    BY <2>1, <2>2, <2>3, <2>4 DEF Place, ClientTypeOK, Handle, AcqLabels, RelLabels, AcqSection, RelSection
  <2>7. QED
    BY <2>4, <2>5, <2>6
<1>6. ASSUME NEW r \in air, Receive(r) \/ Lose(r)
      PROVE  Places'
  <2>1. Quiet /\ UNCHANGED <<at, cur>> /\ air' \subseteq air
    BY <1>6 DEF Receive, Lose, callVars
  <2>2. CASE UNCHANGED handlerVars
    BY <2>1, <2>2 DEF Place, handlerVars
  <2>3. CASE ~ UNCHANGED handlerVars
    <3>1. PICK k \in Kinds : Handle(Net, "deliver", txns[r.id], [r EXCEPT !.kind = k])
      BY <1>6, <2>3 DEF Receive, Lose
    <3>2. Net \in Threads /\ Transport = "MQTT" /\ txns[r.id] # NULL /\ hat[Net] = "none"
      BY <1>6, <2>3 DEF Receive, Lose, ClientAssumption
    <3>3. r \in Replies /\ r.id # 0
      BY DEF ClientTypeOK
    <3>4. txns[r.id] \in Txns /\ [r EXCEPT !.kind = k].id # 0
      BY <3>2, <3>3, VerdictIsReply DEF Replies, Slots, StoreAssumption, TypeInv, TypeOK
    <3>5. ASSUME NEW u \in Threads \ {Net}
          PROVE  Place(u)'
      BY <2>1, <3>1, <3>5 DEF Place, ClientTypeOK, Handle
    <3>6. Place(Net)'
      BY <2>1, <3>1, <3>2, <3>4 DEF Place, ClientTypeOK, Handle, AcqLabels, RelLabels, AcqSection, RelSection
    <3>7. QED
      BY <2>1, <3>5, <3>6
  <2>4. QED
    BY <2>2, <2>3
<1>7. ASSUME NEW th \in Threads, Deliver(th) \/ MarkComplete(th)
      PROVE  Places'
  BY <1>7 DEF Deliver, MarkComplete, callVars, Place, ClientTypeOK, RelLabels, RelSection
<1>8. ASSUME NEW th \in Threads, HandlerDone(th)
      PROVE  Places'
  <2>1. /\ Quiet /\ UNCHANGED air /\ Handle(th, "none", NULL, NoReply) /\ pc[th] = "idle"
        /\ \/ at[th] = "app" /\ UNCHANGED <<at, cur>>
           \/ at' = [at EXCEPT ![th] = "app"] /\ cur' = [cur EXCEPT ![th] = NoFn]
    BY <1>8 DEF HandlerDone, ReturnFromApi, callVars, Place
  <2>2. ASSUME NEW u \in Threads \ {th}
        PROVE  Place(u)'
    BY <2>1, <2>2 DEF Place, ClientTypeOK, Handle
  <2>3. Place(th)'
    BY <2>1 DEF Place, ClientTypeOK, Handle, AcqLabels, RelLabels, AcqSection, RelSection
  <2>4. QED
    BY <2>1, <2>2, <2>3
<1>9. CASE UNCHANGED <<pc, arg, ret, desc, callVars, handlerVars, air>>
  BY <1>9 DEF Place, callVars, handlerVars
<1>10. QED
  BY <1>1, <1>2, <1>3, <1>4, <1>5, <1>6, <1>7, <1>8, <1>9
     DEF ClientNext, ClientThread, ClientTick, Tick, LinkChange, GiveUp, allVars, clientVars

\* Whatever the threads and the network do, with the lock atomic or not, every
\* variable keeps its type: a handler has a transaction, a request a descriptor.
THEOREM ClientTypesCorrect ==
  ASSUME StoreAssumption, ClientAssumption
  PROVE  ClientSpec => []ClientTypeOK
<1>1. TypeInv /\ ClientTypeOK /\ Places /\ [ClientNext]_allVars
        => TypeInv' /\ ClientTypeOK' /\ Places'
  BY ClientStepsStore, TypeNext, ClientTypeNext, PlacesNext
<1>2. QED
  BY <1>1, ClientTypeInit, PTL DEF ClientSpec

\* The client is a correct user of the store: every execution of the client is,
\* seen at the store, one of TxnStore, whose theorems therefore hold here.
THEOREM ClientUsesStore ==
  ASSUME StoreAssumption, ClientAssumption
  PROVE  ClientSpec => Spec
<1>1. ClientInit => Init
  BY DEF ClientInit
<1>2. TypeInv /\ ClientTypeOK /\ Places /\ [ClientNext]_allVars
        => TypeInv' /\ ClientTypeOK' /\ Places' /\ [Next]_vars
  BY ClientStepsStore, TypeNext, ClientTypeNext, PlacesNext
<1>3. QED
  BY <1>1, <1>2, ClientTypeInit, PTL DEF ClientSpec, Spec

-----------------------------------------------------------------------------
(* What one step of a thread does to the slots of the others.  The lock    *)
(* is atomic, and answers come before the store takes a slot back.         *)

\* The slot a thread frees is the one its transaction is in.
FreesOwn(th) ==
  pc[th] \in {"RelFree", "RelClear"} => txns[desc[arg[th]]] = arg[th]

LEMMA StoreStepKeepsSlot ==
  ASSUME StoreAssumption, ClientAssumption, AtomicLock, MaxReplyAge <= TxnTimeout,
         TypeInv, TableInv,
         NEW th \in Threads, StoreStep(th), FreesOwn(th),
         NEW t \in Txns, NEW s, NEW b \in Nat, OwnsSlot(t, s, b), Recent(b), arg[th] # t
  PROVE  OwnsSlot(t, s, b)'
<1> USE StoreAssumption, ClientAssumption, AtomicLock
    DEF StoreAssumption, ClientAssumption, OwnsSlot, TypeInv, TypeOK, Slots, Goto, tableVars
<1>1. CASE AcqTest(th) \/ RelTest(th)
  BY <1>1 DEF AcqTest, RelTest, TestLock, Return
<1>2. CASE AcqSet(th) \/ RelSet(th)
  BY <1>2 DEF AcqSet, RelSet, SetLock
<1>3. CASE AcqCheck(th)
  <2>1. idx[th] \in Slots /\ UNCHANGED <<aquired_time, desc>>
    BY <1>3 DEF AcqCheck
  <2>2. CASE Reclaim(th, idx[th])
    <3>1. now - aquired_time[idx[th]] > TxnTimeout
      BY <2>2 DEF Reclaim, Expired
    <3>2. idx[th] # s
      BY <2>1, <3>1 DEF Recent
    <3>3. QED
      BY <2>1, <2>2, <3>2 DEF Reclaim
  <2>3. CASE FoundFree(th, idx[th]) \/ Skip(th, idx[th]) \/ NoneFree(th, idx[th])
    BY <2>1, <2>3 DEF FoundFree, Skip, NoneFree
  <2>4. QED
    BY <1>3, <2>2, <2>3 DEF AcqCheck
<1>4. CASE AcqTake(th)
  <2>1. idx[th] # s
    BY <1>4 DEF AcqTake, TableInv, CursorInv
  <2>2. QED
    BY <1>4, <2>1 DEF AcqTake
<1>5. CASE AcqStamp(th)
  <2>1. idx[th] # s
    BY <1>5 DEF AcqStamp, TableInv, CursorInv
  <2>2. UNCHANGED <<txns, txn_slot_free>> /\ desc'[t] = desc[t] /\ aquired_time'[s] = aquired_time[s]
    BY <1>5, <2>1 DEF AcqStamp
  <2>3. QED
    BY <2>2
<1>6. CASE RelFree(th)
  <2>1. desc[arg[th]] # s
    BY <1>6 DEF RelFree, FreesOwn
  <2>2. QED
    BY <1>6, <2>1 DEF RelFree
<1>7. CASE RelClear(th)
  <2>1. desc[arg[th]] # s
    BY <1>7 DEF RelClear, FreesOwn
  <2>2. QED
    BY <1>7, <2>1 DEF RelClear
<1>8. CASE AcqUnlock(th) \/ AcqFull(th) \/ RelUnlock(th)
  BY <1>8 DEF AcqUnlock, AcqFull, RelUnlock, Unlock, Return
<1>9. QED
  BY <1>1, <1>2, <1>3, <1>4, <1>5, <1>6, <1>7, <1>8 DEF StoreStep, AcquireStep, ReleaseStep

\* The thread's own slot: granted with the descriptor, kept until it is freed,
\* gone when the release returns.
LEMMA StoreStepOwn ==
  ASSUME StoreAssumption, AtomicLock, TypeInv, TableInv, NEW th \in Threads, StoreStep(th)
  PROVE  /\ pc[th] = "AcqStamp" =>
              \A t \in Txns, b \in Nat : t = arg[th] /\ b <= now => OwnsSlot(t, desc[t], b)'
         /\ pc'[th] \in {"RelTest", "RelSet", "RelFree"} =>
              pc[th] \in {"RelTest", "RelSet"} /\ UNCHANGED <<tableVars, desc>>
         /\ pc'[th] = "RelClear" => pc[th] = "RelFree" /\ UNCHANGED <<txns, desc>>
         /\ pc'[th] = "RelUnlock" => pc[th] = "RelClear" /\ txns'[desc[arg[th]]] = NULL
         /\ pc[th] \in RelLabels => UNCHANGED desc
<1> USE StoreAssumption, AtomicLock
    DEF StoreAssumption, TypeInv, TypeOK, Labels, Section, AcqSection, RelSection, RelLabels,
        Goto, tableVars
<1>1. CASE AcqTest(th) \/ RelTest(th)
  BY <1>1 DEF AcqTest, RelTest, TestLock, Return
<1>2. CASE AcqSet(th) \/ RelSet(th)
  BY <1>2 DEF AcqSet, RelSet, SetLock
<1>3. CASE AcqCheck(th)
  BY <1>3 DEF AcqCheck, Reclaim, FoundFree, Skip, NoneFree
<1>4. CASE AcqTake(th)
  BY <1>4 DEF AcqTake
<1>5. CASE AcqStamp(th)
  <2>1. idx[th] \in 1 .. MaxTxn /\ now \in Nat /\ arg[th] \in Txns /\ now' = now /\ arg' = arg
    <3>1. pc[th] = "AcqStamp" /\ now' = now /\ arg' = arg
      BY <1>5 DEF StoreStep, AcqStamp
    <3>2. QED
      BY <3>1 DEF CallsOK, Slots
  <2>2. idx[th] % DescMod = idx[th]
    BY <2>1, SmallMod
  <2>3. desc' = [desc EXCEPT ![arg[th]] = idx[th]]
    BY <1>5, <2>2 DEF AcqStamp
  <2>4. txns[idx[th]] = arg[th] /\ txn_slot_free[idx[th]] = 0
    <3>1. txns[idx[th]] = arg[th] /\ ~ InFlux(idx[th])
      BY <1>5 DEF AcqStamp, TableInv, CursorInv, LockInv, OneThreadInside, Inside, InFlux
    <3>2. QED
      BY <2>1, <3>1 DEF TableInv, SlotsAgree, Slots
  <2>5. aquired_time' = [aquired_time EXCEPT ![idx[th]] = now] /\ UNCHANGED <<txns, txn_slot_free>>
    BY <1>5 DEF AcqStamp
  <2>6. ASSUME NEW t \in Txns, NEW b \in Nat, t = arg[th], b <= now
        PROVE  OwnsSlot(t, desc[t], b)'
    BY <2>1, <2>3, <2>4, <2>5, <2>6 DEF OwnsSlot, Slots
  <2>7. pc[th] = "AcqStamp" /\ pc'[th] = "AcqUnlock"
    BY <1>5 DEF AcqStamp
  <2>8. QED
    BY <2>6, <2>7
<1>6. CASE RelFree(th)
  BY <1>6 DEF RelFree
<1>7. CASE RelClear(th)
  <2>1. desc[arg[th]] \in Slots
    BY <1>7 DEF RelClear, CallsOK, Slots
  <2>2. QED
    BY <1>7, <2>1 DEF RelClear
<1>8. CASE AcqUnlock(th) \/ AcqFull(th) \/ RelUnlock(th)
  BY <1>8 DEF AcqUnlock, AcqFull, RelUnlock, Unlock, Return
<1>9. QED
  BY <1>1, <1>2, <1>3, <1>4, <1>5, <1>6, <1>7, <1>8 DEF StoreStep, AcquireStep, ReleaseStep

\* No step puts a transaction into a slot but the caller's own, and only the
\* owner of the lock touches the table and the descriptors.
LEMMA StoreStepOthers ==
  ASSUME StoreAssumption, AtomicLock, TypeInv, TableInv, NEW th \in Threads, StoreStep(th)
  PROVE  /\ \A s \in Slots, t \in Txns : txns[s] # t /\ arg[th] # t => txns'[s] # t
         /\ \A t \in Txns : arg[th] # t => desc'[t] = desc[t]
         /\ \A u \in Threads \ {th} : Inside(u) => UNCHANGED <<tableVars, desc>>
<1> USE StoreAssumption, AtomicLock
    DEF StoreAssumption, TypeInv, TypeOK, TableInv, LockInv, OneThreadInside, Inside,
        Section, AcqSection, RelSection, Goto, tableVars
<1>1. CASE AcqTest(th) \/ RelTest(th)
  BY <1>1 DEF AcqTest, RelTest, TestLock, Return
<1>2. CASE AcqSet(th) \/ RelSet(th)
  BY <1>2 DEF AcqSet, RelSet, SetLock
<1>3. CASE AcqCheck(th)
  BY <1>3 DEF AcqCheck, Reclaim, FoundFree, Skip, NoneFree
<1>4. CASE AcqTake(th) \/ RelFree(th) \/ RelClear(th)
  BY <1>4 DEF AcqTake, RelFree, RelClear
<1>5. CASE AcqStamp(th)
  BY <1>5 DEF AcqStamp
<1>6. CASE AcqUnlock(th) \/ AcqFull(th) \/ RelUnlock(th)
  BY <1>6 DEF AcqUnlock, AcqFull, RelUnlock, Unlock, Return
<1>7. QED
  BY <1>1, <1>2, <1>3, <1>4, <1>5, <1>6 DEF StoreStep, AcquireStep, ReleaseStep

-----------------------------------------------------------------------------
(* The invariant.  It needs the lock to be atomic, answers that come       *)
(* before the store takes a slot back, and an application that uses a      *)
(* transaction again only when its answer has been handled.                *)

Discipline == AtomicLock /\ Reuse = "handled" /\ MaxReplyAge <= TxnTimeout

ClientIInv == TypeInv /\ TableInv /\ ClientTypeOK /\ Places /\ ClientInv

LEMMA StepInStore ==
  ASSUME StoreAssumption, ClientAssumption, Discipline, ClientIInv,
         NEW th \in Threads, StoreStep(th), UNCHANGED clientVars
  PROVE  ClientInv'
<1> USE StoreAssumption, ClientAssumption, Discipline DEF Discipline, ClientIInv, ClientInv
<1>1. /\ UNCHANGED <<op, at, cur, hat, htxn, hrep, air, open, serial, started>>
      /\ now' = now
  BY StoreStepShape DEF clientVars, txnVars, callVars, handlerVars, appVars
<1>2. /\ \/ pc[th] \in AcqLabels /\ at[th] = "register" /\ arg[th] = cur[th].txn
         \/ pc[th] \in RelLabels /\ hat[th] = "release" /\ arg[th] = htxn[th]
      /\ arg[th] \in Txns
  BY StoreStepShape DEF Places, Place
<1>3. FreesOwn(th)
  BY <1>2 DEF FreesOwn, HandledCurrent, Handling, OwnsSlot, AcqLabels, RelLabels, AcqSection, RelSection
<1>4. ASSUME NEW t \in Txns, NEW s, NEW b \in Nat, OwnsSlot(t, s, b), Recent(b), arg[th] # t
      PROVE  OwnsSlot(t, s, b)'
  BY <1>3, <1>4, StoreStepKeepsSlot
<1>5. \A b : Recent(b)' <=> Recent(b)
  BY <1>1 DEF Recent
<1>6. \A r : Current(r)' <=> Current(r)
  BY <1>1, <1>5 DEF Current
<1>7. ASSUME NEW u \in Threads, Calling(u), u # th
      PROVE  arg[th] # cur[u].txn
  BY <1>2, <1>7 DEF Apart, Calling, Handling
<1>8. ASSUME NEW u \in Threads, Handling(u), u # th \/ pc[th] \in AcqLabels
      PROVE  arg[th] # htxn[u]
  BY <1>2, <1>8 DEF Apart, Calling, Handling, AcqLabels, RelLabels, AcqSection, RelSection
<1>9. ASSUME NEW r \in air
      PROVE  arg[th] # r.txn
  BY <1>2 DEF Apart, Calling, Handling
<1>10. CallsCurrent'
  <2> SUFFICES ASSUME NEW u \in Threads, Calling(u), NEW t, t = cur[u].txn
               PROVE  /\ open[t] /\ Recent(started[t])' /\ HandlerFor(op[t]) = AnswerForm(cur[u].fn)
                      /\ at[u] = "send" \/ pc'[u] = "AcqUnlock" \/ (pc'[u] = "idle" /\ ret'[u] = "OK")
                           => OwnsSlot(t, desc[t], started[t])'
    BY <1>1 DEF CallsCurrent, Calling
  <2>1. open[t] /\ Recent(started[t])' /\ HandlerFor(op[t]) = AnswerForm(cur[u].fn)
    BY <1>1, <1>5 DEF CallsCurrent
  <2>2. t \in Txns /\ started[t] \in Nat
    BY DEF Places, Place, Calling, ClientTypeOK
  <2>3. CASE u # th
    <3>1. pc'[u] = pc[u] /\ ret'[u] = ret[u]
      BY <2>3, StoreStepShape
    <3>2. arg[th] # t /\ desc'[t] = desc[t]
      BY <1>7, <2>2, <2>3, StoreStepOthers
    <3>3. ASSUME OwnsSlot(t, desc[t], started[t]) PROVE OwnsSlot(t, desc[t], started[t])'
      BY <1>1, <1>4, <2>1, <2>2, <3>2, <3>3, <1>5 DEF CallsCurrent, OwnsSlot
    <3>4. QED
      BY <2>1, <3>1, <3>3 DEF CallsCurrent
  <2>4. CASE u = th
    <3>1. pc[th] \in AcqLabels /\ arg[th] = t
      BY <1>2, <2>4 DEF Calling, Places, Place
    <3>2. pc[th] # "idle" /\ at[th] # "send"
      BY <3>1 DEF Places, Place, AcqLabels, AcqSection
    <3>3. CASE pc'[th] = "AcqUnlock"
      <4>1. pc[th] = "AcqStamp"
        BY <3>3, StoreStepShape
      <4>2. started[t] <= now
        BY <2>1, <1>1 DEF Recent
      <4>3. OwnsSlot(t, desc[t], started[t])'
        BY <1>1, <2>2, <3>1, <4>1, <4>2, StoreStepOwn DEF OwnsSlot
      <4>4. QED
        BY <2>1, <2>4, <4>3
    <3>4. CASE pc'[th] = "idle" /\ ret'[th] = "OK"
      <4>1. pc[th] = "AcqUnlock" /\ UNCHANGED <<tableVars, desc>>
        BY <3>1, <3>4, StoreStepShape DEF AcqLabels, AcqSection
      <4>2. OwnsSlot(t, desc[t], started[t])
        BY <2>4, <4>1 DEF CallsCurrent
      <4>3. OwnsSlot(t, desc[t], started[t])'
        BY <1>1, <4>1, <4>2 DEF OwnsSlot, tableVars
      <4>4. QED
        BY <2>1, <2>4, <4>3
    <3>5. QED
      BY <2>1, <2>4, <3>2, <3>3, <3>4
  <2>5. QED
    BY <2>3, <2>4
<1>11. AirCurrent'
  <2> SUFFICES ASSUME NEW r \in air
               PROVE  Current(r)' /\ OwnsSlot(r.txn, r.id, r.born)'
    BY <1>1 DEF AirCurrent
  <2>1. r.txn \in Txns /\ r.born \in Nat /\ Current(r) /\ Recent(r.born) /\ OwnsSlot(r.txn, r.id, r.born)
    BY DEF AirCurrent, Current, ClientTypeOK, Replies
  <2>2. QED
    BY <1>4, <1>6, <1>9, <2>1
<1>12. HandledCurrent'
  <2> SUFFICES ASSUME NEW u \in Threads, Handling(u), NEW t, t = htxn[u], NEW r, r = hrep[u]
               PROVE  /\ t = r.txn /\ Current(r)'
                      /\ hat[u] # "release" \/ pc'[u] \in {"RelTest", "RelSet", "RelFree"}
                           => OwnsSlot(t, r.id, r.born)'
                      /\ pc'[u] = "RelClear" => desc'[t] = r.id /\ txns'[r.id] = t
                      /\ hat[u] = "release"
                           /\ (pc'[u] = "RelUnlock" \/ (pc'[u] = "idle" /\ ret'[u] = "OK"))
                           => txns'[r.id] # t
    BY <1>1 DEF HandledCurrent, Handling
  <2>0. t = r.txn /\ Current(r) /\ Current(r)'
    BY <1>6 DEF HandledCurrent
  <2>1. t = r.txn /\ Current(r)' /\ Recent(r.born)
    BY <2>0 DEF Current
  <2>2. t \in Txns /\ r.born \in Nat /\ r.id \in Slots
    BY DEF Places, Place, Handling, ClientTypeOK, Replies, Slots
  <2>3. CASE u # th
    <3>1. pc'[u] = pc[u] /\ ret'[u] = ret[u]
      BY <2>3, StoreStepShape
    <3>2. arg[th] # t
      BY <1>8, <2>3
    <3>3. OwnsSlot(t, r.id, r.born) => OwnsSlot(t, r.id, r.born)'
      BY <1>4, <2>1, <2>2, <3>2
    <3>4. pc[u] = "RelClear" => UNCHANGED <<tableVars, desc>>
      BY <2>3, StoreStepOthers DEF Inside, Section, RelSection
    <3>5. txns[r.id] # t => txns'[r.id] # t
      BY <2>2, <3>2, StoreStepOthers
    <3>6. QED
      BY <2>1, <3>1, <3>3, <3>4, <3>5 DEF HandledCurrent, tableVars
  <2>4. CASE u = th /\ pc[th] \in AcqLabels
    <3>1. hat[th] # "release"
      BY <2>4 DEF Places, Place
    <3>2. pc'[th] \notin RelLabels
      BY <2>4, StoreStepShape DEF AcqLabels, RelLabels, AcqSection, RelSection
    <3>3. OwnsSlot(t, r.id, r.born)'
      BY <1>4, <1>8, <2>1, <2>2, <2>4, <3>1 DEF HandledCurrent
    <3>4. QED
      BY <2>1, <2>4, <3>1, <3>2, <3>3 DEF RelLabels, RelSection
  <2>5. CASE u = th /\ pc[th] \in RelLabels
    <3>1. hat[th] = "release" /\ arg[th] = t
      BY <1>2, <2>5 DEF AcqLabels, RelLabels, AcqSection, RelSection
    <3>2. pc'[th] \in RelLabels \cup {"idle"} /\ desc' = desc
      BY <2>5, StoreStepShape, StoreStepOwn
    <3>3. CASE pc'[th] \in {"RelTest", "RelSet", "RelFree"}
      <4>1. OwnsSlot(t, r.id, r.born) /\ UNCHANGED <<tableVars, desc>>
        BY <2>5, <3>3, StoreStepOwn DEF HandledCurrent
      <4>2. OwnsSlot(t, r.id, r.born)'
        BY <4>1 DEF OwnsSlot, tableVars
      <4>3. QED
        BY <2>1, <2>5, <3>1, <3>3, <4>2
    <3>4. CASE pc'[th] = "RelClear"
      <4>1. OwnsSlot(t, r.id, r.born) /\ UNCHANGED <<txns, desc>>
        BY <2>5, <3>4, StoreStepOwn DEF HandledCurrent
      <4>2. QED
        BY <2>1, <2>5, <3>1, <3>4, <4>1 DEF OwnsSlot
    <3>5. CASE pc'[th] = "RelUnlock"
      <4>1. desc[t] = r.id /\ txns'[desc[t]] = NULL
        BY <2>5, <3>1, <3>5, StoreStepOwn DEF HandledCurrent
      <4>2. txns'[r.id] # t
        BY <2>2, <4>1 DEF StoreAssumption
      <4>3. QED
        BY <2>1, <2>5, <3>1, <3>5, <4>2
    <3>6. CASE pc'[th] = "idle"
      <4>1. ret'[th] = "OK" => pc[th] = "RelUnlock" /\ UNCHANGED <<tableVars, desc>>
        BY <2>5, <3>6, StoreStepShape DEF RelLabels, RelSection
      <4>2. ret'[th] = "OK" => txns'[r.id] # t
        BY <2>5, <3>1, <4>1 DEF HandledCurrent, tableVars
      <4>3. QED
        BY <2>1, <2>5, <3>1, <3>6, <4>2
    <3>7. QED
      BY <3>2, <3>3, <3>4, <3>5, <3>6 DEF RelLabels, RelSection
  <2>6. QED
    BY <1>2, <2>3, <2>4, <2>5
<1>13. Apart'
  BY <1>1 DEF Apart, Calling, Handling
<1>14. QED
  BY <1>10, <1>11, <1>12, <1>13

\* In the steps of the client itself every slot stays as it is.
SlotsKept == UNCHANGED <<tableVars, desc, now>>

LEMMA SlotKept ==
  ASSUME SlotsKept, NEW t, NEW s, NEW b
  PROVE  (OwnsSlot(t, s, b)' <=> OwnsSlot(t, s, b)) /\ (Recent(b)' <=> Recent(b))
  BY DEF SlotsKept, OwnsSlot, Recent, tableVars

\* A new operation starts on a transaction that nobody has.
LEMMA StepBegin ==
  ASSUME StoreAssumption, ClientAssumption, Discipline, ClientIInv,
         NEW th \in Threads, NEW t \in Txns, ApiCall(th, t)
  PROVE  ClientInv'
<1> USE StoreAssumption, ClientAssumption DEF ClientIInv, ClientInv
<1>1. PICK fn, o : Begin(th, t, fn, o) /\ Paired(fn, o)
  BY ApiCallBegins
<1>2. /\ ~ open[t] /\ pc[th] = "idle" /\ at[th] = "app" /\ hat[th] \in {"none", "callback"}
      /\ pc' = [pc EXCEPT ![th] = "AcqTest"] /\ at' = [at EXCEPT ![th] = "register"]
      /\ cur' = [cur EXCEPT ![th] = [fn |-> fn, txn |-> t]]
      /\ op' = [op EXCEPT ![t] = o] /\ open' = [open EXCEPT ![t] = TRUE]
      /\ serial' = [serial EXCEPT ![t] = nops + 1] /\ started' = [started EXCEPT ![t] = now]
      /\ UNCHANGED <<hat, htxn, hrep, air, ret>> /\ SlotsKept
  BY <1>1 DEF Begin, CallAcquire, Call, Goto, InApplication, handlerVars, SlotsKept
<1>3. HandlerFor(o) = AnswerForm(fn)
  BY <1>1 DEF Paired
<1> USE DEF ClientTypeOK
<1>4. ASSUME NEW r, Current(r)
      PROVE  Current(r)' /\ r.txn # t
  BY <1>2, <1>4, SlotKept DEF Current
<1>5. ASSUME NEW u \in Threads, Calling(u)
      PROVE  u # th /\ cur[u].txn # t
  BY <1>2, <1>5 DEF CallsCurrent, Calling
<1>6. ASSUME NEW u \in Threads, Handling(u)
      PROVE  htxn[u] # t
  BY <1>4, <1>6 DEF HandledCurrent
<1>7. ASSUME NEW r \in air
      PROVE  r.txn # t
  BY <1>4, <1>7 DEF AirCurrent
<1>8. ASSUME NEW u \in Threads
      PROVE  /\ u # th => Calling(u)' = Calling(u) /\ cur'[u] = cur[u] /\ pc'[u] = pc[u]
             /\ Handling(u)' = Handling(u)
             /\ Calling(th)' /\ cur'[th].txn = t /\ cur'[th].fn = fn /\ pc'[th] = "AcqTest"
  BY <1>2 DEF Calling, Handling, TypeOK
<1>9. CallsCurrent'
  <2> SUFFICES ASSUME NEW u \in Threads, Calling(u)', NEW x, x = cur'[u].txn
               PROVE  /\ open'[x] /\ Recent(started[x])' /\ HandlerFor(op'[x]) = AnswerForm(cur'[u].fn)
                      /\ at'[u] = "send" \/ pc'[u] = "AcqUnlock" \/ (pc'[u] = "idle" /\ ret'[u] = "OK")
                           => OwnsSlot(x, desc[x], started[x])'
    BY DEF CallsCurrent, HandlerFor, AnswerForm, OwnHandler
  <2>1. CASE u = th
    <3>1. x = t /\ at'[th] = "register" /\ pc'[th] = "AcqTest" /\ cur'[th].fn = fn
      BY <1>2, <1>8, <2>1
    <3>2. Recent(started[x])'
      BY <1>2, <3>1 DEF Recent, SlotsKept, TypeOK
    <3>3. QED
      BY <1>2, <1>3, <2>1, <3>1, <3>2
  <2>2. CASE u # th
    <3>1. Calling(u) /\ x = cur[u].txn /\ x # t /\ x \in Txns
      BY <1>5, <1>8, <2>2 DEF Places, Place, Calling
    <3>2. started'[x] = started[x] /\ desc'[x] = desc[x]
      BY <1>2, <3>1 DEF SlotsKept
    <3>3. /\ Recent(started[x])' <=> Recent(started[x])
          /\ OwnsSlot(x, desc[x], started[x])' <=> OwnsSlot(x, desc[x], started[x])
      BY <1>2, <3>2 DEF SlotsKept, Recent, OwnsSlot, tableVars
    <3>4. QED
      BY <1>2, <1>8, <2>2, <3>1, <3>3 DEF CallsCurrent
  <2>3. QED
    BY <2>1, <2>2
<1>10. AirCurrent'
  <2> SUFFICES ASSUME NEW r \in air
               PROVE  Current(r)' /\ OwnsSlot(r.txn, r.id, r.born)'
    BY <1>2 DEF AirCurrent
  <2>1. QED
    BY <1>2, <1>4, SlotKept DEF AirCurrent
<1>11. HandledCurrent'
  <2> SUFFICES ASSUME NEW u \in Threads, Handling(u), NEW x, x = htxn[u], NEW r, r = hrep[u]
               PROVE  /\ x = r.txn /\ Current(r)'
                      /\ hat[u] # "release" \/ pc'[u] \in {"RelTest", "RelSet", "RelFree"}
                           => OwnsSlot(x, r.id, r.born)'
                      /\ pc'[u] = "RelClear" => desc'[x] = r.id /\ txns'[r.id] = x
                      /\ hat[u] = "release"
                           /\ (pc'[u] = "RelUnlock" \/ (pc'[u] = "idle" /\ ret'[u] = "OK"))
                           => txns'[r.id] # x
    BY <1>2, <1>8 DEF HandledCurrent, Handling
  <2>1. x = r.txn /\ Current(r)'
    BY <1>4 DEF HandledCurrent
  <2>2. OwnsSlot(x, r.id, r.born)' <=> OwnsSlot(x, r.id, r.born)
    BY <1>2, SlotKept
  <2>3. UNCHANGED <<txns, desc, ret>>
    BY <1>2 DEF SlotsKept, tableVars
  <2>4. pc'[u] = pc[u] \/ (pc'[u] = "AcqTest" /\ hat[u] # "release" /\ pc[u] = "idle")
    BY <1>2, <1>8
  <2>5. QED
    BY <2>1, <2>2, <2>3, <2>4 DEF HandledCurrent
<1>12. Apart'
  BY <1>2, <1>5, <1>6, <1>7, <1>8 DEF Apart
<1>13. QED
  BY <1>9, <1>10, <1>11, <1>12

\* A registered transaction goes on to be sent with the slot it was given.
LEMMA StepRegistered ==
  ASSUME ClientIInv, NEW th \in Threads, RegisterDone(th), ret[th] = "OK"
  PROVE  ClientInv'
<1> USE DEF ClientIInv, ClientInv
<1>1. /\ at[th] = "register" /\ pc[th] = "idle" /\ at' = [at EXCEPT ![th] = "send"]
      /\ UNCHANGED <<pc, ret, cur, open, op, hat, htxn, hrep, air, serial, started>> /\ SlotsKept
  BY DEF RegisterDone, StoreKept, vars, storeVars, SlotsKept, tableVars, txnVars, handlerVars
<1>2. ASSUME NEW u \in Threads
      PROVE  /\ Calling(u)' = Calling(u) /\ Handling(u)' = Handling(u)
             /\ u # th => at'[u] = at[u]
  BY <1>1 DEF Calling, Handling, ClientTypeOK
<1>3. \A r : Current(r)' <=> Current(r)
  BY <1>1, SlotKept DEF Current
<1>4. CallsCurrent'
  <2> SUFFICES ASSUME NEW u \in Threads, Calling(u), NEW x, x = cur[u].txn
               PROVE  /\ open[x] /\ Recent(started[x])' /\ HandlerFor(op[x]) = AnswerForm(cur[u].fn)
                      /\ at'[u] = "send" \/ pc[u] = "AcqUnlock" \/ (pc[u] = "idle" /\ ret[u] = "OK")
                           => OwnsSlot(x, desc[x], started[x])'
    BY <1>1, <1>2 DEF CallsCurrent
  <2>1. /\ Recent(started[x])' <=> Recent(started[x])
        /\ OwnsSlot(x, desc[x], started[x])' <=> OwnsSlot(x, desc[x], started[x])
    BY <1>1 DEF SlotsKept, Recent, OwnsSlot, tableVars
  <2>2. QED
    BY <1>1, <1>2, <2>1 DEF CallsCurrent
<1>5. AirCurrent'
  BY <1>1, <1>3, SlotKept DEF AirCurrent
<1>6. HandledCurrent'
  BY <1>1, <1>2, <1>3, SlotKept DEF HandledCurrent, SlotsKept, tableVars
<1>7. Apart'
  BY <1>1, <1>2 DEF Apart
<1>8. QED
  BY <1>4, <1>5, <1>6, <1>7

\* A thread leaves an API function: with an error its transaction is free for
\* another use, which no other thread and no message knows of.
LEMMA StepLeavesApi ==
  ASSUME ClientIInv, NEW th \in Threads, Calling(th), ReturnFromApi(th, FALSE) \/ ReturnFromApi(th, TRUE),
         SlotsKept, UNCHANGED <<pc, ret, op, hat, htxn, hrep, air, serial, started>>
  PROVE  ClientInv'
<1> USE DEF ClientIInv, ClientInv
<1>1. PICK t : t = cur[th].txn
  OBVIOUS
<1>2. /\ at' = [at EXCEPT ![th] = "app"] /\ cur' = [cur EXCEPT ![th] = NoFn]
      /\ open' = open \/ open' = [open EXCEPT ![t] = FALSE]
  BY <1>1 DEF ReturnFromApi
<1>3. \A x \in Txns : x # t => open'[x] = open[x]
  BY <1>2 DEF ClientTypeOK
<1>4. ASSUME NEW u \in Threads
      PROVE  /\ Calling(u)' <=> (Calling(u) /\ u # th)
             /\ Handling(u)' = Handling(u)
             /\ u # th => at'[u] = at[u] /\ cur'[u] = cur[u]
  BY <1>2 DEF Calling, Handling, ClientTypeOK
<1>5. \A r : Current(r) /\ r.txn # t => Current(r)'
  BY <1>3, SlotKept DEF Current
<1>6. CallsCurrent'
  <2> SUFFICES ASSUME NEW u \in Threads, Calling(u), u # th, NEW x, x = cur[u].txn
               PROVE  /\ open'[x] /\ Recent(started[x])' /\ HandlerFor(op[x]) = AnswerForm(cur[u].fn)
                      /\ at[u] = "send" \/ pc[u] = "AcqUnlock" \/ (pc[u] = "idle" /\ ret[u] = "OK")
                           => OwnsSlot(x, desc[x], started[x])'
    BY <1>4 DEF CallsCurrent
  <2>1. /\ Recent(started[x])' <=> Recent(started[x])
        /\ OwnsSlot(x, desc[x], started[x])' <=> OwnsSlot(x, desc[x], started[x])
    BY DEF SlotsKept, Recent, OwnsSlot, tableVars
  <2>2. x # t /\ x \in Txns
    BY <1>1 DEF Apart, Places, Place, Calling
  <2>3. QED
    BY <1>3, <2>1, <2>2 DEF CallsCurrent
<1>7. AirCurrent'
  BY <1>1, <1>5, SlotKept DEF AirCurrent, Apart
<1>8. HandledCurrent'
  <2>1. \A u \in Threads : Handling(u) => htxn[u] # t
    BY <1>1 DEF Apart
  <2>2. QED
    BY <1>4, <1>5, <2>1, SlotKept DEF HandledCurrent, SlotsKept, tableVars
<1>9. Apart'
  BY <1>4 DEF Apart
<1>10. QED
  BY <1>6, <1>7, <1>8, <1>9

\* The request takes along what the thread knew: slot, operation, time.
LEMMA StepPublished ==
  ASSUME StoreAssumption, ClientIInv, NEW th \in Threads, Published(th)
  PROVE  ClientInv'
<1> USE DEF ClientIInv, ClientInv
<1>1. PICK q : q = Request(th)
  OBVIOUS
<1>2. PICK t : t = cur[th].txn
  OBVIOUS
<1>3. /\ at[th] = "send" /\ at' = [at EXCEPT ![th] = "app"] /\ cur' = [cur EXCEPT ![th] = NoFn]
      /\ UNCHANGED <<pc, ret, open, op, hat, htxn, hrep, serial, started>> /\ SlotsKept
      /\ air' = air \cup {q}
  BY <1>1 DEF Published, ReturnFromApi, SendKept, StoreKept, vars, storeVars, SlotsKept, tableVars,
              txnVars, handlerVars
<1>4. t \in Txns /\ Calling(th)
  BY <1>2, <1>3 DEF Places, Place, Calling
<1>5. q.id = desc[t] /\ q.txn = t /\ q.n = serial[t] /\ q.fn = cur[th].fn /\ q.born = started[t]
  BY <1>1, <1>2, <1>4, RequestIsReply
<1>6. ASSUME NEW u \in Threads
      PROVE  /\ Calling(u)' <=> (Calling(u) /\ u # th)
             /\ Handling(u)' = Handling(u)
             /\ u # th => at'[u] = at[u] /\ cur'[u] = cur[u]
  BY <1>3 DEF Calling, Handling, ClientTypeOK
<1>7. \A r : Current(r)' <=> Current(r)
  BY <1>3, SlotKept DEF Current
<1>8. CallsCurrent'
  <2> SUFFICES ASSUME NEW u \in Threads, Calling(u), u # th, NEW x, x = cur[u].txn
               PROVE  /\ open[x] /\ Recent(started[x])' /\ HandlerFor(op[x]) = AnswerForm(cur[u].fn)
                      /\ at[u] = "send" \/ pc[u] = "AcqUnlock" \/ (pc[u] = "idle" /\ ret[u] = "OK")
                           => OwnsSlot(x, desc[x], started[x])'
    BY <1>3, <1>6 DEF CallsCurrent
  <2>1. /\ Recent(started[x])' <=> Recent(started[x])
        /\ OwnsSlot(x, desc[x], started[x])' <=> OwnsSlot(x, desc[x], started[x])
    BY <1>3 DEF SlotsKept, Recent, OwnsSlot, tableVars
  <2>2. QED
    BY <2>1 DEF CallsCurrent
<1>9. Current(q) /\ OwnsSlot(q.txn, q.id, q.born)
  BY <1>2, <1>3, <1>4, <1>5 DEF Current, CallsCurrent
<1>10. AirCurrent'
  BY <1>3, <1>7, <1>9, SlotKept DEF AirCurrent
<1>11. HandledCurrent'
  BY <1>3, <1>6, <1>7, SlotKept DEF HandledCurrent, SlotsKept, tableVars
<1>12. Apart'
  <2>1. /\ \A u \in Threads : Calling(u) /\ u # th => cur[u].txn # t
        /\ \A u \in Threads : Handling(u) => htxn[u] # t
        /\ \A r \in air : r.txn # t
    BY <1>2, <1>4 DEF Apart
  <2>2. QED
    BY <1>3, <1>5, <1>6, <2>1 DEF Apart
<1>13. QED
  BY <1>8, <1>10, <1>11, <1>12

\* The thread that called turns to the answer, or to its failed post.
LEMMA StepPosted ==
  ASSUME StoreAssumption, ClientIInv, NEW th \in Threads, PostFailed(th) \/ PostAnswered(th)
  PROVE  ClientInv'
<1> USE DEF ClientIInv, ClientInv
<1>1. PICK t : t = cur[th].txn
  OBVIOUS
<1>2. PICK k \in Kinds \cup {"none", "failed"}, where \in {"deliver", "callback"} :
         Handle(th, where, t, [Request(th) EXCEPT !.kind = k])
  BY <1>1 DEF PostFailed, PostAnswered
<1>3. PICK q : q = [Request(th) EXCEPT !.kind = k]
  OBVIOUS
<1>4. /\ at[th] = "send" /\ at' = [at EXCEPT ![th] = "post"] /\ Transport = "HTTP"
      /\ UNCHANGED <<pc, ret, cur, open, op, air, serial, started>> /\ SlotsKept
  BY DEF PostFailed, PostAnswered, StoreKept, vars, storeVars, SlotsKept, tableVars,
         txnVars, callVars, appVars
<1>5. t \in Txns /\ Calling(th) /\ ~ Handling(th) /\ pc[th] = "idle"
  BY <1>1, <1>4 DEF Places, Place, Calling, Handling
<1>6. q.id = desc[t] /\ q.txn = t /\ q.n = serial[t] /\ q.fn = cur[th].fn /\ q.born = started[t]
  BY <1>1, <1>3, <1>5, RequestIsReply, VerdictIsReply
<1>7. ASSUME NEW u \in Threads
      PROVE  /\ Calling(u)' <=> (Calling(u) /\ u # th)
             /\ u # th => Handling(u)' = Handling(u) /\ UNCHANGED <<at[u], hat[u], htxn[u], hrep[u]>>
             /\ hat'[th] = where /\ htxn'[th] = t /\ hrep'[th] = q
  BY <1>2, <1>3, <1>4 DEF Calling, Handling, ClientTypeOK, Handle
<1>8. \A r : Current(r)' <=> Current(r)
  BY <1>4, SlotKept DEF Current
<1>9. CallsCurrent'
  <2> SUFFICES ASSUME NEW u \in Threads, Calling(u), u # th, NEW x, x = cur[u].txn
               PROVE  /\ open[x] /\ Recent(started[x])' /\ HandlerFor(op[x]) = AnswerForm(cur[u].fn)
                      /\ at[u] = "send" \/ pc[u] = "AcqUnlock" \/ (pc[u] = "idle" /\ ret[u] = "OK")
                           => OwnsSlot(x, desc[x], started[x])'
    BY <1>4, <1>7 DEF CallsCurrent
  <2>1. /\ Recent(started[x])' <=> Recent(started[x])
        /\ OwnsSlot(x, desc[x], started[x])' <=> OwnsSlot(x, desc[x], started[x])
    BY <1>4 DEF SlotsKept, Recent, OwnsSlot, tableVars
  <2>2. QED
    BY <2>1 DEF CallsCurrent
<1>10. Current(q) /\ OwnsSlot(q.txn, q.id, q.born)
  BY <1>1, <1>4, <1>5, <1>6 DEF Current, CallsCurrent
<1>11. AirCurrent'
  BY <1>4, <1>8, SlotKept DEF AirCurrent
<1>12. HandledCurrent'
  <2> SUFFICES ASSUME NEW u \in Threads, Handling(u)', NEW x, x = htxn'[u], NEW r, r = hrep'[u]
               PROVE  /\ x = r.txn /\ Current(r)'
                      /\ hat'[u] # "release" \/ pc[u] \in {"RelTest", "RelSet", "RelFree"}
                           => OwnsSlot(x, r.id, r.born)'
                      /\ pc[u] = "RelClear" => desc[x] = r.id /\ txns[r.id] = x
                      /\ hat'[u] = "release"
                           /\ (pc[u] = "RelUnlock" \/ (pc[u] = "idle" /\ ret[u] = "OK"))
                           => txns[r.id] # x
    BY <1>4 DEF HandledCurrent, SlotsKept, tableVars
  <2>1. CASE u = th
    BY <1>4, <1>5, <1>6, <1>7, <1>8, <1>10, <2>1, SlotKept
  <2>2. CASE u # th
    BY <1>4, <1>7, <1>8, <2>2, SlotKept DEF HandledCurrent
  <2>3. QED
    BY <2>1, <2>2
<1>13. Apart'
  <2>1. /\ \A u \in Threads : Calling(u) /\ u # th => cur[u].txn # t
        /\ \A u \in Threads : Handling(u) => htxn[u] # t
        /\ \A r \in air : r.txn # t
    BY <1>1, <1>5 DEF Apart
  <2>2. QED
    BY <1>4, <1>7, <2>1 DEF Apart
<1>14. QED
  BY <1>9, <1>11, <1>12, <1>13

\* The answer leaves the air and is with the MQTT task; it finds its transaction.
LEMMA StepReceived ==
  ASSUME StoreAssumption, ClientAssumption, ClientIInv, NEW r \in air, Receive(r) \/ Lose(r)
  PROVE  ClientInv'
<1> USE DEF ClientIInv, ClientInv
<1>1. /\ UNCHANGED <<pc, ret, at, cur, open, op, serial, started>> /\ SlotsKept
      /\ air' = air \ {r}
  BY DEF Receive, Lose, StoreKept, vars, storeVars, SlotsKept, tableVars, txnVars, callVars, appVars
<1>2. \A q : Current(q)' <=> Current(q)
  BY <1>1, SlotKept DEF Current
<1>3. CallsCurrent'
  BY <1>1 DEF CallsCurrent, Calling, SlotsKept, Recent, OwnsSlot, tableVars
<1>4. AirCurrent'
  BY <1>1, <1>2, SlotKept DEF AirCurrent
<1>5. CASE UNCHANGED handlerVars
  <2>1. HandledCurrent'
    BY <1>1, <1>2, <1>5, SlotKept DEF HandledCurrent, Handling, handlerVars, SlotsKept, tableVars
  <2>2. Apart'
    BY <1>1, <1>5 DEF Apart, Calling, Handling, handlerVars
  <2>3. QED
    BY <1>3, <1>4, <2>1, <2>2
<1>6. CASE ~ UNCHANGED handlerVars
  <2>1. PICK k \in Kinds : Handle(Net, "deliver", txns[r.id], [r EXCEPT !.kind = k])
    BY <1>6 DEF Receive, Lose
  <2>2. Net \in Threads /\ hat[Net] = "none"
    BY <1>6 DEF Receive, Lose, ClientAssumption
  <2>3. PICK q : q = [r EXCEPT !.kind = k]
    OBVIOUS
  <2>4. q.id = r.id /\ q.txn = r.txn /\ q.n = r.n /\ q.fn = r.fn /\ q.born = r.born
    BY <2>3, VerdictIsReply DEF ClientTypeOK
  <2>5. PICK t : t = r.txn
    OBVIOUS
  <2>6. Current(q) /\ OwnsSlot(t, q.id, q.born) /\ txns[r.id] = t
    BY <2>4, <2>5 DEF AirCurrent, Current, OwnsSlot
  <2>7. ASSUME NEW u \in Threads
        PROVE  /\ Calling(u)' = Calling(u)
               /\ u # Net => Handling(u)' = Handling(u) /\ UNCHANGED <<hat[u], htxn[u], hrep[u]>>
               /\ hat'[Net] = "deliver" /\ htxn'[Net] = t /\ hrep'[Net] = q
    BY <1>1, <2>1, <2>2, <2>3, <2>6 DEF Calling, Handling, ClientTypeOK, Handle
  <2>8. pc[Net] \notin RelLabels
    BY <2>2 DEF Places, Place
  <2>9. HandledCurrent'
    <3> SUFFICES ASSUME NEW u \in Threads, Handling(u)', NEW x, x = htxn'[u], NEW y, y = hrep'[u]
                 PROVE  /\ x = y.txn /\ Current(y)'
                        /\ hat'[u] # "release" \/ pc[u] \in {"RelTest", "RelSet", "RelFree"}
                             => OwnsSlot(x, y.id, y.born)'
                        /\ pc[u] = "RelClear" => desc[x] = y.id /\ txns[y.id] = x
                        /\ hat'[u] = "release"
                             /\ (pc[u] = "RelUnlock" \/ (pc[u] = "idle" /\ ret[u] = "OK"))
                             => txns[y.id] # x
      BY <1>1 DEF HandledCurrent, SlotsKept, tableVars
    <3>1. CASE u = Net
      BY <1>1, <1>2, <2>4, <2>5, <2>6, <2>7, <2>8, <3>1, SlotKept DEF RelLabels, RelSection
    <3>2. CASE u # Net
      BY <1>1, <1>2, <2>7, <3>2, SlotKept DEF HandledCurrent
    <3>3. QED
      BY <3>1, <3>2
  <2>10. Apart'
    <3>1. /\ \A u \in Threads : Calling(u) => cur[u].txn # t
          /\ \A u \in Threads : Handling(u) => htxn[u] # t
          /\ \A y \in air' : y.txn # t
      BY <1>1, <2>5 DEF Apart
    <3>2. QED
      BY <1>1, <2>7, <3>1 DEF Apart
  <2>11. QED
    BY <1>3, <1>4, <2>9, <2>10
<1>7. QED
  BY <1>5, <1>6

\* The handler goes on with the same answer, and calls the release at the end.
LEMMA StepHandled ==
  ASSUME StoreAssumption, Discipline, ClientIInv, NEW th \in Threads,
         Deliver(th) \/ MarkComplete(th) \/ CallbackDone(th)
  PROVE  ClientInv'
<1> USE DEF ClientIInv, ClientInv
<1>1. /\ UNCHANGED <<ret, at, cur, open, op, air, serial, started, htxn, hrep>> /\ SlotsKept
      /\ hat[th] \in {"deliver", "complete", "callback"}
      /\ \/ pc' = pc /\ hat' = [hat EXCEPT ![th] = "complete"]
         \/ pc' = pc /\ hat' = [hat EXCEPT ![th] = "callback"]
         \/ /\ pc[th] = "idle" /\ pc' = [pc EXCEPT ![th] = "RelTest"]
            /\ hat' = [hat EXCEPT ![th] = "release"] /\ at[th] \in {"app", "post"}
  BY DEF Deliver, MarkComplete, CallbackDone, CallRelease, Call, Goto, StoreKept, vars, storeVars,
         SlotsKept, tableVars, txnVars, callVars, appVars, Discipline
<1>2. \A q : Current(q)' <=> Current(q)
  BY <1>1, SlotKept DEF Current
<1>3. ASSUME NEW u \in Threads
      PROVE  /\ Calling(u)' = Calling(u) /\ Handling(u)' = Handling(u)
             /\ u # th => UNCHANGED <<pc[u], hat[u]>>
             /\ Calling(u) => UNCHANGED pc[u]
             /\ \/ hat'[th] \in {"complete", "callback"} /\ pc'[th] = pc[th]
                \/ hat'[th] = "release" /\ pc'[th] = "RelTest"
  BY <1>1 DEF Calling, Handling, ClientTypeOK, TypeOK
<1>4. CallsCurrent'
  BY <1>1, <1>3 DEF CallsCurrent, SlotsKept, Recent, OwnsSlot, tableVars
<1>5. AirCurrent'
  BY <1>1, <1>2, SlotKept DEF AirCurrent
<1>6. HandledCurrent'
  <2> SUFFICES ASSUME NEW u \in Threads, Handling(u), NEW x, x = htxn[u], NEW y, y = hrep[u]
               PROVE  /\ x = y.txn /\ Current(y)'
                      /\ hat'[u] # "release" \/ pc'[u] \in {"RelTest", "RelSet", "RelFree"}
                           => OwnsSlot(x, y.id, y.born)'
                      /\ pc'[u] = "RelClear" => desc[x] = y.id /\ txns[y.id] = x
                      /\ hat'[u] = "release"
                           /\ (pc'[u] = "RelUnlock" \/ (pc'[u] = "idle" /\ ret[u] = "OK"))
                           => txns[y.id] # x
    BY <1>1, <1>3 DEF HandledCurrent, SlotsKept, tableVars
  <2>1. CASE u = th
    <3>1. pc[th] # "RelClear"
      BY <1>1 DEF Places, Place, RelLabels, RelSection
    <3>2. x = y.txn /\ Current(y)' /\ OwnsSlot(x, y.id, y.born)'
      BY <1>1, <1>2, <2>1, SlotKept DEF HandledCurrent
    <3>3. QED
      BY <1>3, <2>1, <3>1, <3>2
  <2>2. CASE u # th
    BY <1>1, <1>2, <1>3, <2>2, SlotKept DEF HandledCurrent
  <2>3. QED
    BY <2>1, <2>2
<1>7. Apart'
  BY <1>1, <1>3 DEF Apart
<1>8. QED
  BY <1>4, <1>5, <1>6, <1>7

\* The handler is done: the application may use the transaction again, and no
\* message and no other thread has it.
LEMMA StepHandlerDone ==
  ASSUME StoreAssumption, ClientIInv, NEW th \in Threads, HandlerDone(th)
  PROVE  ClientInv'
<1> USE DEF ClientIInv, ClientInv
<1>1. PICK t : t = htxn[th]
  OBVIOUS
<1>2. /\ UNCHANGED <<pc, ret, op, air, serial, started>> /\ SlotsKept
      /\ hat[th] = "release" /\ Handle(th, "none", NULL, NoReply) /\ at[th] \in {"app", "post"}
      /\ \/ at[th] = "post" /\ ReturnFromApi(th, FALSE) /\ cur[th].txn = t
         \/ /\ open' = open \/ open' = [open EXCEPT ![t] = FALSE]
            /\ UNCHANGED <<at, cur>>
  BY <1>1 DEF HandlerDone, StoreKept, vars, storeVars, SlotsKept, tableVars, txnVars, callVars,
              Places, Place, ClientTypeOK
<1>3. \A x \in Txns : x # t => open'[x] = open[x]
  BY <1>2 DEF ReturnFromApi, ClientTypeOK
<1>4. ASSUME NEW u \in Threads
      PROVE  /\ Calling(u)' = Calling(u) /\ (Calling(u) => UNCHANGED <<at[u], cur[u]>>)
             /\ Handling(u)' <=> (Handling(u) /\ u # th)
             /\ u # th => UNCHANGED <<hat[u], htxn[u], hrep[u]>>
  BY <1>2 DEF Calling, Handling, ClientTypeOK, Handle, ReturnFromApi
<1>5. \A r : Current(r) /\ r.txn # t => Current(r)'
  BY <1>2, <1>3, SlotKept DEF Current
<1>6. Handling(th)
  BY <1>2 DEF Handling
<1>7. CallsCurrent'
  <2> SUFFICES ASSUME NEW u \in Threads, Calling(u), NEW x, x = cur[u].txn
               PROVE  /\ open'[x] /\ Recent(started[x])' /\ HandlerFor(op[x]) = AnswerForm(cur[u].fn)
                      /\ at[u] = "send" \/ pc[u] = "AcqUnlock" \/ (pc[u] = "idle" /\ ret[u] = "OK")
                           => OwnsSlot(x, desc[x], started[x])'
    BY <1>2, <1>4 DEF CallsCurrent
  <2>1. /\ Recent(started[x])' <=> Recent(started[x])
        /\ OwnsSlot(x, desc[x], started[x])' <=> OwnsSlot(x, desc[x], started[x])
    BY <1>2 DEF SlotsKept, Recent, OwnsSlot, tableVars
  <2>2. x # t /\ x \in Txns
    BY <1>1, <1>6 DEF Apart, Places, Place, Calling
  <2>3. QED
    BY <1>3, <2>1, <2>2 DEF CallsCurrent
<1>8. AirCurrent'
  BY <1>1, <1>2, <1>5, <1>6, SlotKept DEF AirCurrent, Apart
<1>9. HandledCurrent'
  <2>1. \A u \in Threads : Handling(u) /\ u # th => htxn[u] # t
    BY <1>1, <1>6 DEF Apart
  <2>2. QED
    BY <1>2, <1>4, <1>5, <2>1, SlotKept DEF HandledCurrent, SlotsKept, tableVars
<1>10. Apart'
  BY <1>2, <1>4 DEF Apart
<1>11. QED
  BY <1>7, <1>8, <1>9, <1>10

\* Giving up: the transaction is too old for anyone to be working on it.
LEMMA StepGaveUp ==
  ASSUME StoreAssumption, ClientAssumption, Discipline, ClientIInv, NEW t \in Txns, GiveUp(t)
  PROVE  ClientInv'
<1> USE DEF ClientIInv, ClientInv
<1>1. /\ UNCHANGED <<pc, ret, at, cur, op, air, serial, started, hat, htxn, hrep>> /\ SlotsKept
      /\ open' = [open EXCEPT ![t] = FALSE] /\ now - started[t] > TxnTimeout
  BY DEF GiveUp, StoreKept, vars, storeVars, SlotsKept, tableVars, txnVars, callVars, handlerVars
<1>2. ~ Recent(started[t])
  BY <1>1 DEF Recent, Discipline, ClientAssumption, StoreAssumption, ClientTypeOK, TypeOK
<1>3. \A r : Current(r) => Current(r)'
  BY <1>1, <1>2, SlotKept DEF Current, ClientTypeOK
<1>4. CallsCurrent'
  <2> SUFFICES ASSUME NEW u \in Threads, Calling(u), NEW x, x = cur[u].txn
               PROVE  /\ open'[x] /\ Recent(started[x])' /\ HandlerFor(op[x]) = AnswerForm(cur[u].fn)
                      /\ at[u] = "send" \/ pc[u] = "AcqUnlock" \/ (pc[u] = "idle" /\ ret[u] = "OK")
                           => OwnsSlot(x, desc[x], started[x])'
    BY <1>1 DEF CallsCurrent, Calling
  <2>1. /\ Recent(started[x])' <=> Recent(started[x])
        /\ OwnsSlot(x, desc[x], started[x])' <=> OwnsSlot(x, desc[x], started[x])
    BY <1>1 DEF SlotsKept, Recent, OwnsSlot, tableVars
  <2>2. x # t /\ x \in Txns
    BY <1>2 DEF CallsCurrent, Places, Place, Calling
  <2>3. open'[x] = open[x]
    BY <1>1, <2>2 DEF ClientTypeOK
  <2>4. QED
    BY <2>1, <2>3 DEF CallsCurrent
<1>5. AirCurrent'
  BY <1>1, <1>3, SlotKept DEF AirCurrent
<1>6. HandledCurrent'
  BY <1>1, <1>3, SlotKept DEF HandledCurrent, Handling, SlotsKept, tableVars
<1>7. Apart'
  BY <1>1 DEF Apart, Calling, Handling
<1>8. QED
  BY <1>4, <1>5, <1>6, <1>7

\* Time passes only while everything under way is young enough.
LEMMA StepTicked ==
  ASSUME StoreAssumption, ClientAssumption, ClientIInv, ClientTick
  PROVE  ClientInv'
<1> USE DEF ClientIInv, ClientInv
<1>1. /\ UNCHANGED <<pc, ret, at, cur, op, air, open, serial, started, hat, htxn, hrep, tableVars, desc>>
      /\ now' = now + 1 /\ now \in Nat
  BY DEF ClientTick, Tick, storeVars, tableVars, clientVars, txnVars, callVars, handlerVars, appVars,
         ClientTypeOK, TypeOK
<1>2. \A b \in Nat : Recent(b) /\ InTime(b) => Recent(b)'
  BY <1>1 DEF Recent, InTime, ClientAssumption
<1>3. \A r \in Replies : Current(r) /\ InTime(r.born) => Current(r)'
  BY <1>1, <1>2 DEF Current, Replies
<1>4. \A t, s, b : OwnsSlot(t, s, b)' <=> OwnsSlot(t, s, b)
  BY <1>1 DEF OwnsSlot, tableVars
<1>5. CallsCurrent'
  <2> SUFFICES ASSUME NEW u \in Threads, Calling(u), NEW x, x = cur[u].txn
               PROVE  /\ open[x] /\ Recent(started[x])' /\ HandlerFor(op[x]) = AnswerForm(cur[u].fn)
                      /\ at[u] = "send" \/ pc[u] = "AcqUnlock" \/ (pc[u] = "idle" /\ ret[u] = "OK")
                           => OwnsSlot(x, desc[x], started[x])'
    BY <1>1 DEF CallsCurrent, Calling
  <2>1. x \in Txns /\ InTime(started[x]) /\ started[x] \in Nat
    BY DEF ClientTick, Calling, Places, Place, ClientTypeOK
  <2>2. Recent(started[x])'
    BY <1>1, <1>2, <2>1 DEF CallsCurrent, Recent, InTime, ClientAssumption
  <2>3. OwnsSlot(x, desc[x], started[x])' <=> OwnsSlot(x, desc[x], started[x])
    BY <1>1 DEF OwnsSlot, tableVars
  <2>4. QED
    BY <2>2, <2>3 DEF CallsCurrent
<1>6. AirCurrent'
  BY <1>1, <1>3, <1>4 DEF AirCurrent, ClientTick, ClientTypeOK
<1>7. HandledCurrent'
  BY <1>1, <1>3, <1>4 DEF HandledCurrent, Handling, ClientTick, ClientTypeOK, tableVars
<1>8. Apart'
  BY <1>1 DEF Apart, Calling, Handling
<1>9. QED
  BY <1>5, <1>6, <1>7, <1>8

-----------------------------------------------------------------------------
LEMMA ClientIInvInit ==
  ASSUME StoreAssumption, ClientAssumption
  PROVE  ClientInit => ClientIInv
<1> SUFFICES ASSUME ClientInit PROVE TableInv /\ ClientInv
  BY ClientTypeInit DEF ClientIInv
<1>1. TableInv
  BY TableInit DEF ClientInit
<1>2. ClientInv
  BY DEF ClientInit, ClientInv, CallsCurrent, AirCurrent, HandledCurrent, Apart, Calling, Handling
<1>3. QED
  BY <1>1, <1>2

LEMMA ClientIInvNext ==
  ASSUME StoreAssumption, ClientAssumption, Discipline
  PROVE  ClientIInv /\ [ClientNext]_allVars => ClientIInv'
<1> SUFFICES ASSUME ClientIInv, [ClientNext]_allVars
             PROVE  ClientIInv'
  OBVIOUS
<1>1. TypeInv' /\ ClientTypeOK' /\ Places'
  BY ClientStepsStore, TypeNext, ClientTypeNext, PlacesNext DEF ClientIInv
<1>2. TableInv'
  BY ClientStepsStore, TableNext DEF ClientIInv, Discipline
<1> SUFFICES ClientInv'
  BY <1>1, <1>2 DEF ClientIInv
<1>3. ASSUME NEW th \in Threads, ClientThread(th)
      PROVE  ClientInv'
  <2>1. CASE \E t \in Txns : ApiCall(th, t)
    BY <2>1, StepBegin
  <2>2. CASE StoreStep(th) /\ UNCHANGED clientVars
    BY <2>2, StepInStore
  <2>3. CASE RegisterDone(th) /\ ret[th] = "OK"
    BY <2>3, StepRegistered
  <2>4. CASE (RegisterDone(th) /\ ret[th] # "OK") \/ SendFailed(th) \/ PostEmpty(th)
    <3>1. /\ Calling(th) /\ (ReturnFromApi(th, FALSE) \/ ReturnFromApi(th, TRUE)) /\ SlotsKept
          /\ UNCHANGED <<pc, ret, op, hat, htxn, hrep, air, serial, started>>
      BY <2>4 DEF RegisterDone, SendFailed, PostEmpty, Calling, SendKept, StoreKept, SlotsKept,
                  vars, storeVars, tableVars, txnVars, handlerVars
    <3>2. QED
      BY <3>1, StepLeavesApi
  <2>5. CASE Published(th)
    BY <2>5, StepPublished
  <2>6. CASE PostFailed(th) \/ PostAnswered(th)
    BY <2>6, StepPosted
  <2>7. CASE Deliver(th) \/ MarkComplete(th) \/ CallbackDone(th)
    BY <2>7, StepHandled
  <2>8. CASE HandlerDone(th)
    BY <2>8, StepHandlerDone
  <2>9. QED
    BY <1>3, <2>1, <2>2, <2>3, <2>4, <2>5, <2>6, <2>7, <2>8 DEF ClientThread
<1>4. ASSUME NEW r \in air, Receive(r) \/ Lose(r)
      PROVE  ClientInv'
  BY <1>4, StepReceived
<1>5. ASSUME NEW t \in Txns, GiveUp(t)
      PROVE  ClientInv'
  BY <1>5, StepGaveUp
<1>6. CASE ClientTick
  BY <1>6, StepTicked
<1>7. CASE LinkChange \/ UNCHANGED allVars
  <2>1. /\ UNCHANGED <<pc, ret, op, at, cur, hat, htxn, hrep, air, open, serial, started>>
        /\ UNCHANGED <<txns, txn_slot_free, aquired_time, desc, now>>
    BY <1>7 DEF LinkChange, StoreKept, allVars, clientVars, vars, storeVars, txnVars, callVars,
                handlerVars, appVars
  <2>2. CallsCurrent'
    BY <2>1 DEF ClientIInv, ClientInv, CallsCurrent, Calling, Recent, OwnsSlot
  <2>3. AirCurrent'
    BY <2>1 DEF ClientIInv, ClientInv, AirCurrent, Current, Recent, OwnsSlot
  <2>4. HandledCurrent'
    BY <2>1 DEF ClientIInv, ClientInv, HandledCurrent, Handling, Current, Recent, OwnsSlot
  <2>5. Apart'
    BY <2>1 DEF ClientIInv, ClientInv, Apart, Calling, Handling
  <2>6. QED
    BY <2>2, <2>3, <2>4, <2>5 DEF ClientInv
<1>8. QED
  BY <1>3, <1>4, <1>5, <1>6, <1>7 DEF ClientNext

\* What the invariant says of answers and slots.
LEMMA ClientIInvImplies ==
  ASSUME ClientIInv
  PROVE  ReplyReachesOwner /\ AnswerFindsSlot /\ ReleasesOwnSlot /\ ReleaseWorks
<1> USE DEF ClientIInv, ClientInv
<1>1. ReplyReachesOwner
  BY DEF ReplyReachesOwner, HandledCurrent, Handling, Current
<1>2. AnswerFindsSlot
  <2>1. \A r \in air : txns[r.id] = r.txn /\ desc[r.txn] = r.id
    BY DEF AirCurrent, OwnsSlot
  <2>2. \A q, r \in air : q.id = r.id => q = r
    BY <2>1 DEF Apart
  <2>3. QED
    BY <2>1, <2>2 DEF AnswerFindsSlot
<1>3. ReleasesOwnSlot
  BY DEF ReleasesOwnSlot, HandledCurrent, Handling, OwnsSlot
<1>4. ReleaseWorks
  BY DEF ReleaseWorks, HandledCurrent, Handling
<1>5. QED
  BY <1>1, <1>2, <1>3, <1>4

\* Every answer is handled by the operation it was sent for, whichever way the
\* threads, the messages and the clock interleave (client.c 376-437).
THEOREM AnswersReachOwners ==
  ASSUME StoreAssumption, ClientAssumption, Discipline
  PROVE  ClientSpec => []ReplyReachesOwner
<1>1. ClientIInv => ReplyReachesOwner
  BY ClientIInvImplies
<1>2. QED
  BY <1>1, ClientIInvInit, ClientIInvNext, PTL DEF ClientSpec

\* While an answer is on its way its slot still names its transaction, so it is
\* never dropped nor shared, however long the search for free slots goes on.
THEOREM AnswersFindSlots ==
  ASSUME StoreAssumption, ClientAssumption, Discipline
  PROVE  ClientSpec => []AnswerFindsSlot
<1>1. ClientIInv => AnswerFindsSlot
  BY ClientIInvImplies
<1>2. QED
  BY <1>1, ClientIInvInit, ClientIInvNext, PTL DEF ClientSpec

\* A handler frees the slot its answer came for and no other one, and a release
\* that returns ANEDYA_OK has taken the transaction out of it (txn.c 27-30).
THEOREM HandlersReleaseOwnSlots ==
  ASSUME StoreAssumption, ClientAssumption, Discipline
  PROVE  ClientSpec => [](ReleasesOwnSlot /\ ReleaseWorks)
<1>1. ClientIInv => ReleasesOwnSlot /\ ReleaseWorks
  BY ClientIInvImplies
<1>2. QED
  BY <1>1, ClientIInvInit, ClientIInvNext, PTL DEF ClientSpec

-----------------------------------------------------------------------------
\* Where transactions are cleared before use, an operation under way has not
\* succeeded yet; a callback sees success only if its answer said so.
Verdicts ==
  /\ Clears => /\ \A th \in Threads : Calling(th) => ~ is_success[cur[th].txn]
               /\ \A r \in air : ~ is_success[r.txn]
               /\ \A th \in Threads : hat[th] = "deliver" => ~ is_success[htxn[th]]
  /\ \A th \in Threads :
       hat[th] \in {"complete", "callback"} => (is_success[htxn[th]] => hrep[th].kind = "ok")

LEMMA VerdictsNext ==
  ASSUME StoreAssumption, ClientAssumption, Transport = "MQTT" \/ Clears,
         ClientIInv, Verdicts, [ClientNext]_allVars
  PROVE  Verdicts'
<1> USE ClientAssumption DEF ClientAssumption, ClientIInv, ClientInv, ClientTypeOK, Verdicts
<1>1. ASSUME NEW th \in Threads, NEW t \in Txns, ApiCall(th, t)
      PROVE  Verdicts'
  <2>1. PICK fn, o : Begin(th, t, fn, o)
    BY <1>1, ApiCallBegins
  <2>2. /\ UNCHANGED <<hat, htxn, hrep, air>> /\ ~ open[t]
        /\ cur' = [cur EXCEPT ![th] = [fn |-> fn, txn |-> t]]
        /\ at' = [at EXCEPT ![th] = "register"]
        /\ IF Clears THEN is_success' = [is_success EXCEPT ![t] = FALSE] ELSE UNCHANGED is_success
    BY <2>1 DEF Begin, handlerVars
  <2>3. /\ \A r \in air : r.txn # t
        /\ \A u \in Threads : Handling(u) => htxn[u] # t
    BY <2>2 DEF AirCurrent, HandledCurrent, Current
  <2>4. \A x \in Txns : is_success'[x] => is_success[x]
    BY <2>2
  <2>5. \A u \in Threads : Handling(u) => htxn[u] \in Txns
    BY DEF Places, Place, Handling
  <2>6. \A r \in air : r.txn \in Txns
    BY DEF AirCurrent, Current
  <2>7. ASSUME Clears, NEW u \in Threads, Calling(u)'
        PROVE  ~ is_success'[cur'[u].txn]
    BY <2>2, <2>7 DEF Calling, Places, Place
  <2>8. QED
    BY <2>2, <2>3, <2>4, <2>5, <2>6, <2>7 DEF Handling
<1>2. ASSUME NEW th \in Threads, Deliver(th)
      PROVE  Verdicts'
  <2>1. /\ hat[th] = "deliver" /\ hat' = [hat EXCEPT ![th] = "complete"]
        /\ UNCHANGED <<at, cur, htxn, hrep, air>>
    BY <1>2 DEF Deliver, callVars
  <2>2. PICK t : t = htxn[th] /\ t \in Txns
    BY <2>1 DEF Places, Place
  <2>3. /\ \A x \in Txns : x # t => is_success'[x] = is_success[x]
        /\ is_success'[t] => hrep[th].kind = "ok"
    <3>1. CASE hrep[th].kind = "bad"
      <4>1. Transport = "HTTP"
        BY <3>1 DEF Replies, Kinds
      <4>2. is_success' = is_success /\ ~ is_success[t]
        BY <1>2, <2>1, <2>2, <3>1, <4>1 DEF Deliver
      <4>3. QED
        BY <4>2
    <3>2. CASE hrep[th].kind # "bad"
      <4>1. is_success' = [is_success EXCEPT ![t] = (hrep[th].kind = "ok")]
        BY <1>2, <2>2, <3>2 DEF Deliver
      <4>2. QED
        BY <2>2, <4>1
    <3>3. QED
      BY <3>1, <3>2
  <2>4. /\ \A u \in Threads : Calling(u) => cur[u].txn # t /\ cur[u].txn \in Txns
        /\ \A u \in Threads : Handling(u) /\ u # th => htxn[u] # t
        /\ \A u \in Threads : Handling(u) => htxn[u] \in Txns
        /\ \A r \in air : r.txn # t /\ r.txn \in Txns
    BY <2>1, <2>2 DEF Apart, Handling, Calling, Places, Place, AirCurrent, Current
  <2>5. QED
    BY <2>1, <2>2, <2>3, <2>4 DEF Calling, Handling
<1>3. ASSUME NEW th \in Threads, PostFailed(th)
      PROVE  Verdicts'
  <2>1. PICK t : t = cur[th].txn
    OBVIOUS
  <2>2. at[th] = "send" /\ t \in Txns
    BY <1>3, <2>1 DEF PostFailed, Places, Place
  <2>3. /\ hat' = [hat EXCEPT ![th] = "callback"] /\ htxn' = [htxn EXCEPT ![th] = t]
        /\ at' = [at EXCEPT ![th] = "post"] /\ UNCHANGED <<cur, air>>
        /\ is_success' = [is_success EXCEPT ![t] = FALSE]
        /\ \A u \in Threads : u # th => hrep'[u] = hrep[u]
    BY <1>3, <2>1 DEF PostFailed, Handle
  <2>4. \A x \in Txns : is_success'[x] => is_success[x]
    BY <2>2, <2>3
  <2>5. /\ \A u \in Threads : Calling(u) => cur[u].txn \in Txns
        /\ \A u \in Threads : Handling(u) => htxn[u] \in Txns
        /\ \A r \in air : r.txn \in Txns
    BY DEF Handling, Calling, Places, Place, AirCurrent, Current
  <2>6. QED
    BY <2>2, <2>3, <2>4, <2>5 DEF Calling, Handling
<1>4. ASSUME NEW th \in Threads, PostAnswered(th)
      PROVE  Verdicts'
  <2>1. /\ at[th] = "send" /\ at' = [at EXCEPT ![th] = "post"] /\ UNCHANGED <<cur, air, is_success>>
        /\ hat' = [hat EXCEPT ![th] = "deliver"] /\ htxn' = [htxn EXCEPT ![th] = cur[th].txn]
        /\ \A u \in Threads : u # th => hrep'[u] = hrep[u]
    BY <1>4 DEF PostAnswered, Handle, txnVars
  <2>2. QED
    BY <2>1 DEF Calling
<1>5. ASSUME NEW r \in air, Receive(r)
      PROVE  Verdicts'
  <2>1. UNCHANGED <<at, cur, is_success>> /\ air' \subseteq air /\ Transport = "MQTT"
    BY <1>5 DEF Receive, callVars, txnVars
  <2>2. CASE UNCHANGED handlerVars
    BY <2>1, <2>2 DEF Calling, handlerVars
  <2>3. CASE ~ UNCHANGED handlerVars
    <3>1. /\ hat' = [hat EXCEPT ![Net] = "deliver"] /\ htxn' = [htxn EXCEPT ![Net] = r.txn]
          /\ \A u \in Threads : u # Net => hrep'[u] = hrep[u]
      BY <1>5, <2>3 DEF Receive, Handle, AirCurrent, OwnsSlot
    <3>2. Net \in Threads
      BY <2>1
    <3>3. QED
      BY <2>1, <3>1, <3>2 DEF Calling
  <2>4. QED
    BY <2>2, <2>3
<1>6. ASSUME NEW th \in Threads,
             RegisterDone(th) \/ Published(th) \/ SendFailed(th) \/ PostEmpty(th)
      PROVE  Verdicts'
  <2>1. UNCHANGED <<hat, htxn, hrep, is_success>> /\ at[th] \in {"register", "send"}
    BY <1>6 DEF RegisterDone, Published, SendFailed, PostEmpty, SendKept, handlerVars, txnVars
  <2>2. \A u \in Threads : Calling(u)' => Calling(u) /\ cur'[u] = cur[u]
    BY <1>6 DEF RegisterDone, Published, SendFailed, PostEmpty, ReturnFromApi, Calling
  <2>3. \A r \in air' : r \in air \/ r.txn = cur[th].txn
    <3>1. cur[th].txn \in Txns
      BY <2>1 DEF Places, Place
    <3>2. QED
      <4>1. Request(th).txn = cur[th].txn
        BY <3>1, RequestIsReply
      <4>2. air' = air \/ air' = air \cup {Request(th)}
        BY <1>6 DEF RegisterDone, Published, SendFailed, PostEmpty, SendKept
      <4>3. QED
        BY <4>1, <4>2
  <2>4. QED
    BY <2>1, <2>2, <2>3 DEF Calling
<1>7. ASSUME NEW th \in Threads, MarkComplete(th) \/ CallbackDone(th)
      PROVE  Verdicts'
  <2>1. /\ UNCHANGED <<at, cur, htxn, hrep, air, is_success>>
        /\ hat[th] \in {"complete", "callback"}
        /\ \E w \in {"callback", "release"} : hat' = [hat EXCEPT ![th] = w]
    BY <1>7 DEF MarkComplete, CallbackDone, callVars, txnVars
  <2>2. QED
    BY <2>1 DEF Calling
<1>8. ASSUME NEW th \in Threads, HandlerDone(th)
      PROVE  Verdicts'
  <2>1. /\ UNCHANGED <<air, is_success>> /\ Handle(th, "none", NULL, NoReply)
        /\ UNCHANGED <<at, cur>> \/ ReturnFromApi(th, FALSE)
    BY <1>8 DEF HandlerDone, callVars, txnVars
  <2>2. \A u \in Threads : Calling(u)' => Calling(u) /\ cur'[u] = cur[u]
    BY <2>1 DEF ReturnFromApi, Calling
  <2>3. QED
    BY <2>1, <2>2 DEF Handle
<1>9. ASSUME UNCHANGED <<is_success, callVars, handlerVars>>, air' \subseteq air
      PROVE  Verdicts'
  BY <1>9 DEF callVars, handlerVars, Calling
<1>10. QED
  BY <1>1, <1>2, <1>3, <1>4, <1>5, <1>6, <1>7, <1>8, <1>9
     DEF ClientNext, ClientThread, Lose, LinkChange, GiveUp, ClientTick, allVars, clientVars, txnVars

\* A callback that finds its operation a success was called for an answer that
\* said so, not for one that failed, could not be read, or never came.
THEOREM CallbacksSeeVerdicts ==
  ASSUME StoreAssumption, ClientAssumption, Discipline, Transport = "MQTT" \/ Clears
  PROVE  ClientSpec => []CallbackSeesVerdict
<1>1. ClientInit => Verdicts
  BY DEF ClientInit, Verdicts, Calling
<1>2. ClientIInv /\ Verdicts /\ [ClientNext]_allVars => Verdicts'
  BY VerdictsNext
<1>3. Verdicts => CallbackSeesVerdict
  BY DEF Verdicts, CallbackSeesVerdict
<1>4. QED
  BY <1>1, <1>2, <1>3, ClientIInvInit, ClientIInvNext, PTL DEF ClientSpec

=============================================================================
