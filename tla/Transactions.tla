---------------------------- MODULE Transactions ----------------------------
(***************************************************************************)
(* The life of an operation: an application thread calls one of the API    *)
(* functions, which registers its transaction in the store, sends the      *)
(* request with the slot number as reqId, and returns; later the MQTT task *)
(* receives the answer, looks the transaction up by reqId, dispatches,     *)
(* completes, calls the callback and releases the slot.  With HTTP the     *)
(* thread that called does all of it.                                      *)
(*                                                                         *)
(* The store's functions are the statement-level steps of TxnStore, so     *)
(* every step here is a step of TxnStore or leaves the store alone.        *)
(***************************************************************************)
EXTENDS TxnStore

CONSTANTS Net,          \* the MQTT task, a member of Threads
          Transport,    \* "MQTT" or "HTTP", a compile-time choice
          Functions,    \* Functions[th]: the API functions that th calls
          MaxReplyAge,  \* how long after the call an answer may still be handled
          Reuse,        \* when the application uses a transaction again:
                        \*   "handled": when its answer has been handled
                        \*   "complete": as soon as is_complete is set
          CallbackCalls,\* TRUE: callbacks call API functions themselves
          Clears,       \* TRUE: the application clears a transaction before use
          Lossy,        \* the transactions whose requests and answers may be lost
          MaxOps        \* bound on operations, for model checking

ASSUME ClientAssumption ==
  /\ Transport \in {"MQTT", "HTTP"}
  /\ Transport = "MQTT" <=> Net \in Threads
  /\ MaxReplyAge \in Nat
  /\ MaxOps \in Nat

VARIABLES is_connected,  \* client->is_connected
          op,            \* op[t]: txn->_op
          is_complete,   \* is_complete[t]
          is_success,    \* is_success[t]
          at,            \* at[th]: where th is in an API function
          cur,           \* cur[th]: the API function and transaction of th
          hat,           \* hat[th]: where th is in the response handler
          htxn,          \* htxn[th]: the transaction the handler found
          hrep,          \* hrep[th]: the answer being handled
          air,           \* requests sent and not answered yet
          open,          \* open[t]: the application considers t in use
          serial,        \* serial[t]: number of the last operation on t
          started,       \* started[t]: when that operation was called
          nops           \* operations called so far

txnVars == <<op, is_complete, is_success>>
callVars == <<at, cur>>
handlerVars == <<hat, htxn, hrep>>
appVars == <<open, serial, started, nops>>
clientVars == <<is_connected, txnVars, callVars, handlerVars, air, appVars>>
allVars == <<vars, clientVars>>

NoFn == [fn |-> "none", txn |-> NULL]
NoReply == [id |-> 0, txn |-> NULL, n |-> 0, fn |-> "none", born |-> 0, kind |-> "none"]

ClientInit ==
  /\ Init
  /\ is_connected = IF Transport = "MQTT" THEN 0 ELSE 1
  /\ op = [t \in Txns |-> "none"]
  /\ is_complete = [t \in Txns |-> FALSE]
  /\ is_success = [t \in Txns |-> FALSE]
  /\ at = [th \in Threads |-> "app"]
  /\ cur = [th \in Threads |-> NoFn]
  /\ hat = [th \in Threads |-> "none"]
  /\ htxn = [th \in Threads |-> NULL]
  /\ hrep = [th \in Threads |-> NoReply]
  /\ air = {}
  /\ open = [t \in Txns |-> FALSE]
  /\ serial = [t \in Txns |-> 0]
  /\ started = [t \in Txns |-> 0]
  /\ nops = 0

-----------------------------------------------------------------------------
(* The API functions.  Each checks the connection, sets txn->_op, and      *)
(* registers the transaction; a refused call (not connected, or a value    *)
(* whose length is wrong) changes nothing and is no step.                  *)

\* A thread may call the API from application code: an application thread
\* between two calls, or the MQTT task inside a callback.
InApplication(th) ==
  /\ at[th] = "app" /\ pc[th] = "idle"
  /\ IF th = Net THEN CallbackCalls /\ hat[th] = "callback" ELSE hat[th] = "none"

Begin(th, t, fn, o) ==
  /\ fn \in Functions[th]
  /\ InApplication(th) /\ ~open[t] /\ nops < MaxOps
  /\ Transport = "MQTT" => is_connected = 1
  /\ op' = [op EXCEPT ![t] = o]
  /\ IF Clears
       THEN /\ is_complete' = [is_complete EXCEPT ![t] = FALSE]
            /\ is_success' = [is_success EXCEPT ![t] = FALSE]
       ELSE UNCHANGED <<is_complete, is_success>>
  /\ CallAcquire(th, t)
  /\ at' = [at EXCEPT ![th] = "register"]
  /\ cur' = [cur EXCEPT ![th] = [fn |-> fn, txn |-> t]]
  /\ open' = [open EXCEPT ![t] = TRUE]
  /\ nops' = nops + 1
  /\ serial' = [serial EXCEPT ![t] = nops + 1]
  /\ started' = [started EXCEPT ![t] = now]
  /\ UNCHANGED <<is_connected, handlerVars, air, now>>

anedya_device_bind_req(th, t) == Begin(th, t, "bind", "BIND_DEVICE")
anedya_device_send_heartbeat(th, t) == Begin(th, t, "heartbeat", "HEARTBEAT")
anedya_op_ota_next_req(th, t) == Begin(th, t, "ota_next", "OTA_NEXT")
anedya_op_ongoing_ota_req(th, t) == Begin(th, t, "ota_ongoing", "ONGOING_OTA")
\* The status update is dispatched as submitted data.
anedya_op_ota_update_status_req(th, t) == Begin(th, t, "ota_status", "SUBMIT_DATA")
anedya_op_submit_float_req(th, t) == Begin(th, t, "submit_float", "SUBMIT_DATA")
anedya_op_submit_geo_req(th, t) == Begin(th, t, "submit_geo", "SUBMIT_DATA")
anedya_op_submit_status_req(th, t) == Begin(th, t, "submit_status", "SUBMIT_DATA")
anedya_op_valuestore_set_float(th, t) == Begin(th, t, "vs_set_float", "VALUESTORE_SET")
anedya_op_valuestore_set_string(th, t) == Begin(th, t, "vs_set_string", "VALUESTORE_SET")
anedya_op_valuestore_set_bool(th, t) == Begin(th, t, "vs_set_bool", "VALUESTORE_SET")
anedya_op_valuestore_set_bin(th, t) == Begin(th, t, "vs_set_bin", "VALUESTORE_SET")
anedya_op_valuestore_get_key(th, t) == Begin(th, t, "vs_get", "VALUESTORE_GET")
\* Variant: the operation of the function it was copied from.
anedya_op_valuestore_list_obj_Copied(th, t) == Begin(th, t, "vs_list", "VALUESTORE_GET")
anedya_op_valuestore_list_obj(th, t) == Begin(th, t, "vs_list", "VALUESTORE_GET_LIST")
anedya_op_valuestore_delete(th, t) == Begin(th, t, "vs_delete", "VALUESTORE_DELETE")
anedya_op_submit_event(th, t) == Begin(th, t, "event", "SUBMIT_EVENT")
anedya_op_submit_log(th, t) == Begin(th, t, "log", "SUBMIT_LOG")
anedya_op_cmd_status_update(th, t) == Begin(th, t, "cmd_status", "CMD_UPDATE_STATUS")
anedya_op_cmd_get_list(th, t) == Begin(th, t, "cmd_list", "CMD_GET_LIST")
anedya_op_cmd_next(th, t) == Begin(th, t, "cmd_next", "CMD_NEXT")

ApiCall(th, t) ==
  \/ anedya_device_bind_req(th, t)
  \/ anedya_device_send_heartbeat(th, t)
  \/ anedya_op_ota_next_req(th, t)
  \/ anedya_op_ongoing_ota_req(th, t)
  \/ anedya_op_ota_update_status_req(th, t)
  \/ anedya_op_submit_float_req(th, t)
  \/ anedya_op_submit_geo_req(th, t)
  \/ anedya_op_submit_status_req(th, t)
  \/ anedya_op_valuestore_set_float(th, t)
  \/ anedya_op_valuestore_set_string(th, t)
  \/ anedya_op_valuestore_set_bool(th, t)
  \/ anedya_op_valuestore_set_bin(th, t)
  \/ anedya_op_valuestore_get_key(th, t)
  \/ anedya_op_valuestore_list_obj(th, t)
  \/ anedya_op_valuestore_delete(th, t)
  \/ anedya_op_submit_event(th, t)
  \/ anedya_op_submit_log(th, t)
  \/ anedya_op_cmd_status_update(th, t)
  \/ anedya_op_cmd_get_list(th, t)
  \/ anedya_op_cmd_next(th, t)

\* The API function returns; an error tells the application that no answer
\* will come for the transaction.
ReturnFromApi(th, ok) ==
  /\ at' = [at EXCEPT ![th] = "app"]
  /\ cur' = [cur EXCEPT ![th] = NoFn]
  /\ open' = IF ok THEN open ELSE [open EXCEPT ![cur[th].txn] = FALSE]

StoreKept == UNCHANGED vars

\* _anedya_txn_register is back: go on, or return its error.
RegisterDone(th) ==
  /\ at[th] = "register" /\ pc[th] = "idle"
  /\ IF ret[th] = "OK"
       THEN at' = [at EXCEPT ![th] = "send"] /\ UNCHANGED <<cur, open>>
       ELSE ReturnFromApi(th, FALSE)
  /\ StoreKept
  /\ UNCHANGED <<is_connected, txnVars, handlerVars, air, serial, started, nops>>

\* The request carries the descriptor that the transaction has now.
Request(th) ==
  LET t == cur[th].txn
  IN  [NoReply EXCEPT !.id = desc[t], !.txn = t, !.n = serial[t],
                      !.fn = cur[th].fn, !.born = started[t]]

SendKept ==
  /\ StoreKept
  /\ UNCHANGED <<is_connected, txnVars, handlerVars, serial, started, nops>>

Published(th) ==
  /\ Transport = "MQTT" /\ at[th] = "send"
  /\ air' = air \cup {Request(th)}
  /\ ReturnFromApi(th, TRUE)
  /\ SendKept

\* Four functions complete the transaction when the HTTP post fails.
CompletesOnPostError == {"bind", "submit_float", "submit_geo", "submit_status"}

\* The publish or the post fails, or the arguments of a command status update
\* turn out wrong after the registration: the error is returned, and the slot
\* stays with the transaction.
SendFailed(th) ==
  /\ at[th] = "send"
  /\ Transport = "MQTT" \/ cur[th].fn \notin CompletesOnPostError
  /\ ReturnFromApi(th, FALSE)
  /\ SendKept /\ UNCHANGED air

Handle(th, where, t, r) ==
  /\ hat' = [hat EXCEPT ![th] = where]
  /\ htxn' = [htxn EXCEPT ![th] = t]
  /\ hrep' = [hrep EXCEPT ![th] = r]

\* A failed post ends the operations of CompletesOnPostError as failed ...
PostFailed(th) ==
  /\ Transport = "HTTP" /\ at[th] = "send"
  /\ cur[th].fn \in CompletesOnPostError
  /\ LET t == cur[th].txn IN
       /\ is_success' = [is_success EXCEPT ![t] = FALSE]
       /\ is_complete' = [is_complete EXCEPT ![t] = TRUE]
       /\ Handle(th, "callback", t, [Request(th) EXCEPT !.kind = "failed"])
  /\ at' = [at EXCEPT ![th] = "post"]
  /\ StoreKept
  /\ UNCHANGED <<is_connected, op, cur, air, appVars>>

\* ... an answer without a body ends the others without completing them ...
PostEmpty(th) ==
  /\ Transport = "HTTP" /\ at[th] = "send"
  /\ cur[th].fn \notin CompletesOnPostError
  /\ ReturnFromApi(th, TRUE)
  /\ SendKept /\ UNCHANGED air

\* What an answer may be: a JSON object with success true or false; over HTTP
\* also a body that is not JSON ("bad") or too long for the buffer ("huge").
Kinds == IF Transport = "MQTT" THEN {"ok", "err"} ELSE {"ok", "err", "bad", "huge"}

\* ... and any other answer is handled at once by the thread that called.
PostAnswered(th) ==
  /\ Transport = "HTTP" /\ at[th] = "send"
  /\ \E k \in Kinds :
       Handle(th, "deliver", cur[th].txn, [Request(th) EXCEPT !.kind = k])
  /\ at' = [at EXCEPT ![th] = "post"]
  /\ StoreKept
  /\ UNCHANGED <<is_connected, txnVars, cur, air, appVars>>

-----------------------------------------------------------------------------
(* The response handler.                                                   *)

\* Variant: the reqId is used as an index without subtracting 1.
Receive_NotShifted(r) ==
  /\ Transport = "MQTT" /\ hat[Net] = "none"
  /\ r \in air
  /\ air' = air \ {r}
  /\ LET s == IF r.id < MaxTxn THEN r.id + 1 ELSE r.id IN
       IF txns[s] = NULL
         THEN UNCHANGED handlerVars
         ELSE \E k \in Kinds : Handle(Net, "deliver", txns[s], [r EXCEPT !.kind = k])
  /\ StoreKept
  /\ UNCHANGED <<is_connected, txnVars, callVars, appVars>>

\* The MQTT task gets an answer and looks the transaction up by its reqId,
\* without the lock; an answer for an empty slot is dropped.
Receive(r) ==
  /\ Transport = "MQTT" /\ hat[Net] = "none"
  /\ r \in air
  /\ air' = air \ {r}
  /\ IF txns[r.id] = NULL
       THEN UNCHANGED handlerVars
       ELSE \E k \in Kinds : Handle(Net, "deliver", txns[r.id], [r EXCEPT !.kind = k])
  /\ StoreKept
  /\ UNCHANGED <<is_connected, txnVars, callVars, appVars>>

\* The switch on txn->_op: most operations have a plain answer, the others a
\* handler of their own.
OwnHandler ==
  [OTA_NEXT |-> "ota_next", ONGOING_OTA |-> "ota_ongoing",
   VALUESTORE_GET |-> "vs_get", VALUESTORE_GET_LIST |-> "vs_list",
   CMD_GET_LIST |-> "cmd_list", CMD_NEXT |-> "cmd_next"]

HandlerFor(o) == IF o \in DOMAIN OwnHandler THEN OwnHandler[o] ELSE "generic"

\* What the server answers to the request of an API function (external).
AnswerForm(fn) ==
  IF fn \in {"ota_next", "ota_ongoing", "vs_get", "vs_list", "cmd_list", "cmd_next"}
    THEN fn ELSE "generic"

\* Variant: success unless the answer says otherwise.
Deliver_Optimistic(th) ==
  /\ hat[th] = "deliver"
  /\ hat' = [hat EXCEPT ![th] = "complete"]
  /\ is_success' = [is_success EXCEPT ![htxn[th]] = (hrep[th].kind # "err")]
  /\ StoreKept
  /\ UNCHANGED <<is_connected, op, is_complete, callVars, htxn, hrep, air, appVars>>

\* The handler that txn->_op selects reads the verdict of the answer; a body
\* that does not parse leaves is_success as it was.
Deliver(th) ==
  /\ hat[th] = "deliver"
  /\ hat' = [hat EXCEPT ![th] = "complete"]
  /\ is_success' = IF hrep[th].kind = "bad" THEN is_success
                   ELSE [is_success EXCEPT ![htxn[th]] = (hrep[th].kind = "ok")]
  /\ StoreKept
  /\ UNCHANGED <<is_connected, op, is_complete, callVars, htxn, hrep, air, appVars>>

\* Variant: an answer that says no leaves the operation open.
MarkComplete_OnSuccess(th) ==
  /\ hat[th] = "complete"
  /\ hat' = [hat EXCEPT ![th] = "callback"]
  /\ is_complete' = [is_complete EXCEPT ![htxn[th]] = is_success[htxn[th]]]
  /\ open' = IF Reuse = "complete" THEN [open EXCEPT ![htxn[th]] = FALSE] ELSE open
  /\ StoreKept
  /\ UNCHANGED <<is_connected, op, is_success, callVars, htxn, hrep, air,
                 serial, started, nops>>

\* _anedya_txn_complete, first statement.
MarkComplete(th) ==
  /\ hat[th] = "complete"
  /\ hat' = [hat EXCEPT ![th] = "callback"]
  /\ is_complete' = [is_complete EXCEPT ![htxn[th]] = TRUE]
  /\ open' = IF Reuse = "complete" THEN [open EXCEPT ![htxn[th]] = FALSE] ELSE open
  /\ StoreKept
  /\ UNCHANGED <<is_connected, op, is_success, callVars, htxn, hrep, air,
                 serial, started, nops>>

\* Variant: the transaction is handed back before its slot is released.
CallbackDone_HandsBack(th) ==
  /\ hat[th] = "callback" /\ at[th] \in {"app", "post"}
  /\ CallRelease(th, htxn[th])
  /\ hat' = [hat EXCEPT ![th] = "release"]
  /\ open' = [open EXCEPT ![htxn[th]] = FALSE]
  /\ UNCHANGED <<now, is_connected, txnVars, callVars, htxn, hrep, air,
                 serial, started, nops>>

\* The callback is over (or there is none): the release is called.
CallbackDone(th) ==
  /\ hat[th] = "callback" /\ at[th] \in {"app", "post"}
  /\ CallRelease(th, htxn[th])
  /\ hat' = [hat EXCEPT ![th] = "release"]
  /\ UNCHANGED <<now, is_connected, txnVars, callVars, htxn, hrep, air, appVars>>

\* What the release returned is not looked at.
HandlerDone(th) ==
  /\ hat[th] = "release" /\ pc[th] = "idle"
  /\ Handle(th, "none", NULL, NoReply)
  /\ IF at[th] = "post" THEN ReturnFromApi(th, FALSE)
     ELSE /\ open' = IF Reuse = "handled" THEN [open EXCEPT ![htxn[th]] = FALSE] ELSE open
          /\ UNCHANGED callVars
  /\ StoreKept
  /\ UNCHANGED <<is_connected, txnVars, air, serial, started, nops>>

-----------------------------------------------------------------------------
(* Everything else: the network, the application's patience, the clock.    *)

\* QoS 0: a request or its answer may be lost; answers come in any order.  An
\* answer too long for the buffer is dropped, which is the same.
Lose(r) ==
  /\ r \in air /\ r.txn \in Lossy
  /\ air' = air \ {r}
  /\ StoreKept
  /\ UNCHANGED <<is_connected, txnVars, callVars, handlerVars, appVars>>

\* The connection comes and goes, as Connection describes.  Over HTTP connect
\* and disconnect only assign the flag, which nothing compiled for HTTP reads.
LinkChange ==
  /\ Transport = "MQTT"
  /\ is_connected' = 1 - is_connected
  /\ StoreKept
  /\ UNCHANGED <<txnVars, callVars, handlerVars, air, appVars>>

\* The application stops waiting once the operation is older than the
\* timeout of the store.
GiveUp(t) ==
  /\ open[t] /\ now - started[t] > TxnTimeout
  /\ \A th \in Threads : cur[th].txn # t
  /\ open' = [open EXCEPT ![t] = FALSE]
  /\ StoreKept
  /\ UNCHANGED <<is_connected, txnVars, callVars, handlerVars, air,
                 serial, started, nops>>

\* Operations under way: called and not sent, in the air, or being handled.
\* None outlives MaxReplyAge: this bounds the server, the network and the
\* time a thread may be kept from running.
InTime(born) == now - born < MaxReplyAge

ClientTick ==
  /\ Tick
  /\ \A th \in Threads :
       /\ at[th] # "app" => InTime(started[cur[th].txn])
       /\ hat[th] # "none" => InTime(hrep[th].born)
  /\ \A r \in air : InTime(r.born)
  /\ UNCHANGED clientVars

ClientThread(th) ==
  \/ \E t \in Txns : ApiCall(th, t)
  \/ StoreStep(th) /\ UNCHANGED clientVars
  \/ RegisterDone(th)
  \/ Published(th)
  \/ SendFailed(th)
  \/ PostFailed(th)
  \/ PostEmpty(th)
  \/ PostAnswered(th)
  \/ Deliver(th)
  \/ MarkComplete(th)
  \/ CallbackDone(th)
  \/ HandlerDone(th)

ClientNext ==
  \/ \E th \in Threads : ClientThread(th)
  \/ \E r \in air : Receive(r) \/ Lose(r)
  \/ LinkChange
  \/ \E t \in Txns : GiveUp(t)
  \/ ClientTick

ClientSpec == ClientInit /\ [][ClientNext]_allVars

\* What a thread does once it was called, without waiting for anybody.
Working(th) ==
  \/ StoreStep(th) /\ UNCHANGED clientVars
  \/ RegisterDone(th)
  \/ Published(th)
  \/ SendFailed(th)
  \/ PostFailed(th)
  \/ PostEmpty(th)
  \/ PostAnswered(th)
  \/ Deliver(th)
  \/ MarkComplete(th)
  \/ CallbackDone(th)
  \/ HandlerDone(th)

\* Threads that can run do, and what arrives is received.
ClientFairSpec ==
  /\ ClientSpec
  /\ \A th \in Threads : WF_allVars(Working(th))
  /\ WF_allVars(\E r \in air : Receive(r))

-----------------------------------------------------------------------------
Fns ==
  {"none", "bind", "heartbeat", "ota_next", "ota_ongoing", "ota_status", "submit_float",
   "submit_geo", "submit_status", "vs_set_float", "vs_set_string", "vs_set_bool",
   "vs_set_bin", "vs_get", "vs_list", "vs_delete", "event", "log", "cmd_status",
   "cmd_list", "cmd_next"}

Ops ==
  {"none", "BIND_DEVICE", "HEARTBEAT", "OTA_NEXT", "ONGOING_OTA", "SUBMIT_DATA",
   "OTA_UPDATE_STATUS",
   "VALUESTORE_SET", "VALUESTORE_GET", "VALUESTORE_GET_LIST", "VALUESTORE_DELETE",
   "SUBMIT_EVENT", "SUBMIT_LOG", "CMD_UPDATE_STATUS", "CMD_GET_LIST", "CMD_NEXT"}

Replies ==
  [id : 0 .. MaxTxn, txn : Txns \cup {NULL}, n : Nat, fn : Fns, born : Nat,
   kind : Kinds \cup {"none", "failed"}]

ClientTypeOK ==
  /\ TypeOK
  /\ is_connected \in {0, 1}
  /\ op \in [Txns -> Ops]
  /\ is_complete \in [Txns -> BOOLEAN]
  /\ is_success \in [Txns -> BOOLEAN]
  /\ at \in [Threads -> {"app", "register", "send", "post"}]
  /\ cur \in [Threads -> [fn : Fns, txn : Txns \cup {NULL}]]
  /\ hat \in [Threads -> {"none", "deliver", "complete", "callback", "release"}]
  /\ htxn \in [Threads -> Txns \cup {NULL}]
  /\ hrep \in [Threads -> Replies]
  /\ air \subseteq Replies
  /\ open \in [Txns -> BOOLEAN]
  /\ serial \in [Txns -> Nat]
  /\ started \in [Txns -> Nat]
  /\ nops \in Nat

\* The answer that is dispatched belongs to the operation that the
\* transaction found in the slot is executing: no answer reaches another
\* transaction, an earlier or later operation of the same one, or a handler
\* that reads another form of answer.
ReplyReachesOwner ==
  \A th \in Threads : hat[th] = "deliver" =>
    /\ htxn[th] = hrep[th].txn
    /\ serial[htxn[th]] = hrep[th].n
    /\ HandlerFor(op[htxn[th]]) = AnswerForm(hrep[th].fn)

\* An answer on its way will find its transaction in the slot it names: it is
\* not dropped because the slot was taken back, and no two answers name the
\* same slot.
AnswerFindsSlot ==
  /\ \A r \in air : txns[r.id] = r.txn /\ desc[r.txn] = r.id
  /\ \A q, r \in air : q.id = r.id => q = r

\* The slot a handler gives back is the one its answer came for.
ReleasesOwnSlot ==
  \A th \in Threads :
    hat[th] = "release" /\ pc[th] \in {"RelTest", "RelSet", "RelFree", "RelClear"}
      => desc[htxn[th]] = hrep[th].id /\ txns[hrep[th].id] = htxn[th]

\* Once the release has returned ANEDYA_OK the transaction is out of its slot.
ReleaseWorks ==
  \A th \in Threads :
    hat[th] = "release" /\ pc[th] = "idle" /\ ret[th] = "OK"
      => txns[hrep[th].id] # htxn[th]

\* A callback sees success only for an answer that said so.
CallbackSeesVerdict ==
  \A th \in Threads :
    hat[th] = "callback" => (is_success[htxn[th]] => hrep[th].kind = "ok")

\* An answer that is not lost completes the operation its request was sent
\* for, while that is still the last one of its transaction, whatever other
\* threads and callbacks do meanwhile.
Completed(t, n) == serial[t] = n /\ is_complete[t]

AnswersComplete ==
  \A t \in Txns \ Lossy, n \in 1 .. MaxOps :
    (\E r \in air : r.txn = t /\ r.n = n) ~> Completed(t, n)

\* When the handler is done, the transaction is out of the slot it was
\* answered in ("Then release the slot", txn.c 27).
ReleasedWhenHandled ==
  \A th \in Threads :
    hat[th] = "release" /\ pc[th] = "idle" => txns[hrep[th].id] # htxn[th]

=============================================================================
