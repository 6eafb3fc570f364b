------------------------------- MODULE Inbound -------------------------------
(***************************************************************************)
(* What reaches the application over MQTT: the device id it is configured  *)
(* with, the answers to its operations as the handlers copy them, and the  *)
(* events, which it may acknowledge from its event handler.                *)
(*                                                                         *)
(* Slots and threads are the subject of Transactions: here an answer finds *)
(* its transaction, every operation is answered once, and a transaction is *)
(* used again when its answer was handled.  A handler of the MQTT task is  *)
(* one step.                                                               *)
(***************************************************************************)
EXTENDS Answers, Events

CONSTANTS Txns,          \* 1 .. number of transactions
          DeviceTexts,   \* device ids an application may be given
          ServerText,    \* the id the server knows the device by, in lower case
          Limits,        \* how many elements the application asks for
          Rooms,         \* for how many ongoing deployments it has room
          AnswersTo(_, _), \* the answers to an API function with a limit
          Commands,      \* the command messages, without their number
          Updates,       \* the updates of the value store, without their number
          MaxOps,        \* bound on operations, for model checking
          MaxMessages    \* bound on messages from the server, for model checking

VARIABLES phase,     \* "start", "refused", "configured", "running" or "fault"
          config,    \* _device_id_str, and whether an event handler is set
          call,      \* call[t]: the operation on t: fn, limit, number, state
          answer,    \* answer[t]: the last answer that was handled for t
          is_success,\* is_success[t]
          _rxbody,   \* _rxbody[t]: the operation whose answer is in it, 0 for none
          response,  \* response[t]: for every fn the structure it fills
          heard,     \* what the event handler was called with, and its message
          ack,       \* the acknowledgement sent last from the event handler
          nops, nmsgs

setupVars == <<phase, config>>
opVars == <<call, answer, is_success, _rxbody, response, nops>>
eventVars == <<heard, ack>>
inboundVars == <<setupVars, opVars, eventVars, nmsgs>>

ApiFunctions == {"vs_get", "vs_list", "cmd_list", "cmd_next", "ota_next", "ota_ongoing"}
Listing == {"vs_list", "cmd_list"}

LimitsOf(fn) ==
  CASE fn \in Listing -> Limits [] fn = "ota_ongoing" -> Rooms [] fn = "cmd_status" -> {0}
    [] OTHER -> {1}

\* The answers a server may give: a stored value has one of the four types, a
\* listing counts no more than was asked for, what has no list has no elements,
\* and what the code uses without a look at it is there.
ServerAnswers(fn, limit) ==
  {a \in [op : {0}, fn : {fn}, ok : BOOLEAN, n : Nat, count : Nat, flag : BOOLEAN,
          missing : STRING, at : Nat, bad : BOOLEAN, scope : {"self", "global"},
          type : STRING, meta : Nat, extra : Nat] :
     /\ fn = "vs_get" => a.type \in ValueTypes
     /\ fn \in Listing => a.count <= limit
     /\ fn \notin Listing \cup {"ota_ongoing"} => a.at = 0
     /\ a.missing \notin {"reqId", "success", "errorcode", "available"}
     /\ fn = "ota_next" => a.missing # "assetMeta"
     /\ fn = "vs_get" /\ a.type = "float" => a.missing # "value"}

\* Commands have the text of an id, or one of that length with something else
\* than g, h and i for a digit; binary data is encoded and never empty.
ServerCommands ==
  {m \in [seq : {0}, id : Seq(Nat), datatype : STRING, data : Seq(0 .. 255),
          missing : STRING, sent : Seq(Nat)] :
     /\ Len(m.id) = 36 /\ \A i \in 1 .. 36 : m.id[i] \notin 103 .. 105
     /\ m.datatype = "binary" => m.data # <<>>
     /\ m.sent = IF m.datatype = "binary" THEN Base64(m.data) ELSE m.data}

\* An update may lack what the code looks for: its type and its namespace.
ServerUpdates ==
  [seq : {0}, type : STRING, form : {"integer", "real", "text", "truth"},
   scope : {"self", "global"}, missing : {"none", "type", "namespace"}]

ASSUME InboundAssumption ==
  /\ Txns \subseteq Nat
  /\ Limits \cup Rooms \subseteq Nat \ {0} /\ PoolSize \in Nat
  /\ MaxOps \in Nat /\ MaxMessages \in Nat
  /\ \A fn \in ApiFunctions \cup {"cmd_status"} : \A limit \in LimitsOf(fn) :
       AnswersTo(fn, limit) \subseteq ServerAnswers(fn, limit)
  /\ Commands \subseteq ServerCommands /\ Updates \subseteq ServerUpdates

\* The pool of the code, and answers with one property at most that nobody reads.
ASSUME PoolAssumption ==
  /\ PoolSize >= 32
  /\ \A fn \in ApiFunctions \cup {"cmd_status"} : \A limit \in LimitsOf(fn) :
       \A a \in AnswersTo(fn, limit) : a.extra <= 1

\* The application gives the device the server's id, in capitals or not, or
\* something that is no id.
ASSUME DeviceAssumption ==
  \A text \in DeviceTexts :
    text \in Seq(Nat) /\ (IsId(text) => LowerCase(text) = ServerText)

NoCall == [fn |-> "none", limit |-> 0, op |-> 0, state |-> "idle"]
NoAnswer == [op |-> 0]
Silence == [event |-> "none", obj |-> <<>>, msg |-> <<>>]
NoAck == [id |-> <<>>, data |-> <<>>, txn |-> 0]

InboundInit ==
  /\ phase = "start"
  /\ config = [_device_id_str |-> <<>>, event_handler |-> FALSE]
  /\ call = [t \in Txns |-> NoCall]
  /\ answer = [t \in Txns |-> NoAnswer]
  /\ is_success = [t \in Txns |-> FALSE]
  /\ _rxbody = [t \in Txns |-> 0]
  /\ response = [t \in Txns |-> [fn \in ApiFunctions |-> ResponseOf(fn, 0)]]
  /\ heard = Silence /\ ack = NoAck
  /\ nops = 0 /\ nmsgs = 0

-----------------------------------------------------------------------------
(* Configuration.                                                          *)

\* The application parses the device id and, if it is one, goes on to
\* anedya_config_init, which keeps it as text and clears the handlers.
anedya_config_init(text) ==
  /\ phase = "start"
  /\ LET p == parse_device_id(text) IN
       IF p.ok
         THEN /\ config' = [_device_id_str |-> uuid_marshal(p.devID), event_handler |-> FALSE]
              /\ phase' = "configured"
         ELSE phase' = "refused" /\ UNCHANGED config
  /\ UNCHANGED <<opVars, eventVars, nmsgs>>

anedya_config_register_event_handler ==
  /\ phase = "configured" /\ ~config.event_handler
  /\ config' = [config EXCEPT !.event_handler = TRUE]
  /\ UNCHANGED <<phase, opVars, eventVars, nmsgs>>

\* Initialised and connected.
Start == phase = "configured" /\ phase' = "running" /\ UNCHANGED <<config, opVars, eventVars, nmsgs>>

-----------------------------------------------------------------------------
(* Operations.                                                             *)

\* The application brings a structure with room for what it asks for: it uses
\* the one it has for fn again when that has the right size, and sets count
\* for the ongoing deployments.
Supplied(t, fn, limit) ==
  LET old == response[t][fn]
  IN  IF fn \notin {"vs_list", "cmd_list", "ota_ongoing"} THEN old
      ELSE IF Len(old.list) # limit THEN ResponseOf(fn, limit)
      ELSE IF fn = "ota_ongoing" THEN [old EXCEPT !.count = limit]
      ELSE old

\* Variant: the request leaves the structure alone.
Request_KeepsFlag(t, fn, limit) == Supplied(t, fn, limit)

\* Only the request for the next deployment writes to the structure.
Request(t, fn, limit) ==
  IF fn = "ota_next" THEN [Supplied(t, fn, limit) EXCEPT !.flag = FALSE]
  ELSE Supplied(t, fn, limit)

Begin(t, fn, limit) ==
  /\ phase = "running" /\ nops < MaxOps
  /\ call[t].state # "sent"
  /\ call' = [call EXCEPT ![t] = [fn |-> fn, limit |-> limit, op |-> nops + 1, state |-> "sent"]]
  /\ nops' = nops + 1

ApiCall(t, fn, limit) ==
  /\ heard = Silence
  /\ Begin(t, fn, limit)
  /\ response' = [response EXCEPT ![t][fn] = Request(t, fn, limit)]
  /\ UNCHANGED <<setupVars, answer, is_success, _rxbody, eventVars, nmsgs>>

\* The MQTT task is free, and the message is for this device.
Arrives ==
  /\ phase = "running" /\ heard = Silence /\ nmsgs < MaxMessages
  /\ config._device_id_str = ServerText
  /\ nmsgs' = nmsgs + 1

\* The topics response and errors: the text is parsed for its reqId, kept with
\* the transaction, and handled by fn's handler, which parses it again.
_anedya_handle_txn_response(t, a) ==
  /\ Arrives
  /\ call[t].state = "sent" /\ a.fn = call[t].fn /\ a.op = call[t].op
  /\ Parses(a)
  /\ _rxbody' = [_rxbody EXCEPT ![t] = a.op]
  /\ is_success' = [is_success EXCEPT ![t] = a.ok]
  /\ response' = IF a.ok /\ a.fn \in ApiFunctions
                   THEN [response EXCEPT ![t][a.fn] = Handled(@, a, t)] ELSE response
  /\ call' = [call EXCEPT ![t].state = "done"]
  /\ answer' = [answer EXCEPT ![t] = a]
  /\ UNCHANGED <<setupVars, eventVars, nops>>

\* An answer with more nodes than the pool: the parser returns null, which is
\* reported and then used.
NullDocument(t, a) ==
  /\ Arrives
  /\ call[t].state = "sent" /\ a.fn = call[t].fn /\ a.op = call[t].op
  /\ ~Parses(a)
  /\ phase' = "fault"
  /\ answer' = [answer EXCEPT ![t] = a]
  /\ UNCHANGED <<config, call, is_success, _rxbody, response, nops, eventVars>>

-----------------------------------------------------------------------------
(* Events.                                                                 *)

Tell(event, obj, m) ==
  /\ heard' = IF config.event_handler THEN [event |-> event, obj |-> obj, msg |-> m] ELSE Silence
  /\ UNCHANGED <<setupVars, opVars, ack>>

\* The topic commands.  What the parser returns is not looked at; without
\* memory for the text of the message nothing happens at all.
HandleCommand(m, memory) ==
  /\ Arrives
  /\ Tell("COMMAND", _anedya_parse_inbound_command(m, NewCommand, memory), m)

\* The topic valuestore/updates: a type nobody knows is no event.
HandleUpdate(m, memory) ==
  /\ Arrives
  /\ LET event == _anedya_parse_valuestore_type(m, memory)
     IN  IF event = "none" THEN UNCHANGED <<setupVars, opVars, eventVars>>
         ELSE Tell(event, UpdateFor(event, m), m)

NoMemory == Arrives /\ UNCHANGED <<setupVars, opVars, eventVars>>

_anedya_handle_event ==
  \/ \E c \in Commands, memory \in BOOLEAN :
       HandleCommand([c EXCEPT !.seq = nmsgs + 1], memory)
  \/ \E u \in Updates, memory \in BOOLEAN : HandleUpdate([u EXCEPT !.seq = nmsgs + 1], memory)
  \/ NoMemory

\* Inside the event handler the application acknowledges a command it has the
\* type of, with its data, behind which it puts a terminator.
anedya_op_cmd_status_update(t) ==
  /\ heard.event = "COMMAND" /\ heard.obj.cmd_data_type # "UNKNOWN"
  /\ ack = NoAck
  /\ Begin(t, "cmd_status", 0)
  /\ ack' = [id |-> uuid_marshal(heard.obj.cmdId), txn |-> t,
             data |-> IF heard.obj.data_len = 0 THEN <<>>
                      ELSE IF heard.obj.cmd_data_type = "string" THEN CString(heard.obj.data)
                      ELSE base64_encode(heard.obj.data)]
  /\ UNCHANGED <<setupVars, answer, is_success, _rxbody, response, heard, nmsgs>>

\* The event handler returns; its structures are gone.
HandlerReturns ==
  /\ heard # Silence
  /\ heard' = Silence /\ ack' = NoAck
  /\ UNCHANGED <<setupVars, opVars, nmsgs>>

Asked(t) == AnswersTo(call[t].fn, call[t].limit)

InboundNext ==
  \/ \E text \in DeviceTexts : anedya_config_init(text)
  \/ anedya_config_register_event_handler
  \/ Start
  \/ \E t \in Txns, fn \in ApiFunctions : \E limit \in LimitsOf(fn) : ApiCall(t, fn, limit)
  \/ \E t \in Txns : \E a \in Asked(t) :
       LET answered == [a EXCEPT !.op = call[t].op]
       IN  _anedya_handle_txn_response(t, answered) \/ NullDocument(t, answered)
  \/ _anedya_handle_event
  \/ \E t \in Txns : anedya_op_cmd_status_update(t)
  \/ HandlerReturns

InboundSpec == InboundInit /\ [][InboundNext]_inboundVars

-----------------------------------------------------------------------------
(* What a complete answer carries.                                         *)

Signed(a) == IF a.type = "signed" THEN {} ELSE {"assetSignature"}

CarriedFields(a) ==
  CASE a.fn = "vs_get" -> IF a.scope = "global" THEN ValueFields ELSE ValueFields \ {"id"}
    [] a.fn = "vs_list" \/ (a.fn = "cmd_list" /\ a.count > 0) -> {"next"}
    [] a.fn = "cmd_next" /\ a.flag -> NextFields
    [] a.fn = "ota_next" /\ a.flag -> AssetFields \ Signed(a)
    [] OTHER -> {}

CarriedByElement(a) ==
  CASE a.fn = "vs_list" -> KeyFields
    [] a.fn = "cmd_list" -> CommandFields
    [] OTHER -> (AssetFields \cup {"status"}) \ Signed(a)

\* The elements the application has room for and the answer counts.
Fitting(a, room) == CHOOSE m \in {a.n, a.count, room} : \A o \in {a.n, a.count, room} : m <= o

\* Which operation and element the application reads in a field now.
Reads(v) == IF v[1] = "body" THEN <<_rxbody[v[2]], v[3]>> ELSE <<v[2], v[3]>>

Done(t) == call[t].state = "done" /\ call[t].fn \in ApiFunctions
Result(t) == response[t][call[t].fn]

Tags == {"unset", "garbage", "copy", "body", "empty"}

\* Types; no handler writes behind the arrays of the application, however long
\* the list.  (In a listing count decides, which is the server's: it is taken to
\* keep to the limit.)
InboundTypeOK ==
  /\ phase \in {"start", "refused", "configured", "running", "fault"}
  /\ \A t \in Txns :
       /\ call[t].fn \in ApiFunctions \cup {"none", "cmd_status"}
       /\ call[t].state \in {"idle", "sent", "done"}
       /\ is_success[t] \in BOOLEAN
       /\ _rxbody[t] \in 0 .. nops
       /\ \A fn \in ApiFunctions :
            /\ response[t][fn].flag \in BOOLEAN
            /\ \A f \in DOMAIN response[t][fn].fields : response[t][fn].fields[f][1] \in Tags
            /\ Len(response[t][fn].list) \in {0} \cup Rooms \cup Limits
       /\ call[t].fn \in {"vs_list", "cmd_list", "ota_ongoing"} =>
            Len(Result(t).list) = call[t].limit /\ Result(t).count <= call[t].limit
  /\ nops \in 0 .. MaxOps /\ nmsgs \in 0 .. MaxMessages

\* A complete answer arrives whole: the application finds success, the flags
\* and counts of the answer, and in every field and every element it has room
\* for what this answer said, until it uses the transaction again.
CompleteAnswerFills ==
  \A t \in Txns : Done(t) /\ answer[t].ok /\ answer[t].missing = "none" /\ ~answer[t].bad =>
    LET a == answer[t] IN
      /\ is_success[t]
      /\ a.fn \in {"cmd_next", "ota_next"} => Result(t).flag = a.flag
      /\ a.fn = "cmd_list" => Result(t).flag = (a.count > 0)
      /\ a.fn \in Listing => Result(t).count = a.count
      /\ \A f \in CarriedFields(a) : Reads(Result(t).fields[f]) = <<a.op, 0>>
      /\ \A k \in 1 .. Fitting(a, Len(Result(t).list)) : \A f \in CarriedByElement(a) :
           Reads(Result(t).list[k][f]) = <<a.op, k>>

\* An ongoing deployment without them is taken all the same.
Unnoticed(a, k) ==
  {f \in {"assetSignature", "assetMeta"} : a.fn = "ota_ongoing" /\ Lacks(a, k, f)}

\* Success does not tell an answer that lacks something from a complete one,
\* but the field that is written last does: when it is of this operation,
\* everything a complete answer carries is.  Two things it does not vouch for:
\* the id of the next command may be half parsed, and an ongoing deployment
\* that comes without its signature or metadata shows those of an earlier one.
LastFieldMeansAll ==
  \A t \in Txns : Done(t) /\ answer[t].ok =>
    LET a == answer[t]
        last == CASE a.fn = "vs_get" -> "modified"
                  [] a.fn = "cmd_next" -> "nextavailable"
                  [] OTHER -> "assetId"
        lastOf == CASE a.fn = "vs_list" -> "modified"
                    [] a.fn = "cmd_list" -> "updated"
                    [] OTHER -> "status"
        but == IF a.fn = "cmd_next" THEN {"commandId"} ELSE {}
    IN  /\ a.fn \in {"vs_get", "cmd_next", "ota_next"}
             /\ Reads(Result(t).fields[last]) = <<a.op, 0>>
           => \A f \in CarriedFields(a) \ but : Reads(Result(t).fields[f]) = <<a.op, 0>>
        /\ \A k \in DOMAIN Result(t).list :
             Reads(Result(t).list[k][lastOf]) = <<a.op, k>>
               => \A f \in CarriedByElement(a) \ Unnoticed(a, k) :
                    Reads(Result(t).list[k][f]) = <<a.op, k>>

\* A deployment the application sees as available was announced by the answer
\* to this request, never by an earlier one in the same structure.
NoStaleDeployment ==
  \A t \in Txns : Done(t) /\ call[t].fn = "ota_next" /\ Result(t).flag
    => answer[t].ok /\ answer[t].flag /\ answer[t].missing # "deploymentAvailable"

\* What the pool of 32 nodes is enough for: three keys (four without ids), four
\* commands, two ongoing deployments ...
SafeLength(a) == CASE a.fn = "vs_list" -> 4 - IdNode(a) [] a.fn = "cmd_list" -> 4 [] OTHER -> 2

\* ... and, with the next deployment, sixteen entries of metadata, with one
\* ongoing deployment fourteen, with two of them two in all.
SafeMeta(a) == IF a.fn = "ota_next" THEN 16 ELSE IF a.n < 2 THEN 14 ELSE 2

\* An answer too long for the pool, which the code uses as a null document, has
\* a longer list or more metadata than that; every other answer is parsed.
LimitedListsArrive ==
  phase = "fault" => \E t \in Txns :
    /\ call[t].state = "sent" /\ answer[t].op = call[t].op /\ answer[t].fn = call[t].fn
    /\ \/ call[t].fn \in Listing \cup {"ota_ongoing"} /\ answer[t].n > SafeLength(answer[t])
       \/ call[t].fn \in {"ota_next", "ota_ongoing"} /\ answer[t].meta > SafeMeta(answer[t])

\* The structure of a command may be half filled when the event handler gets
\* it; but a command with a known datatype has its id, its name and its data,
\* all of this message and converted without loss.
EventKnowsItsFields ==
  heard.event = "COMMAND" /\ heard.obj.cmd_data_type # "UNKNOWN" =>
    /\ SameId(heard.msg.id, heard.obj.cmdId)
    /\ heard.obj.command = heard.msg.seq
    /\ heard.obj.data = heard.msg.data /\ heard.obj.data_len = Len(heard.msg.data)

UpdateEvent == [float |-> "VS_UPDATE_FLOAT", string |-> "VS_UPDATE_STRING",
                binary |-> "VS_UPDATE_BIN", boolean |-> "VS_UPDATE_BOOL"]

\* The forms of value that go with a type.
FormsOf == [float |-> {"integer", "real"}, string |-> {"text"}, binary |-> {"text"},
            boolean |-> {"truth"}]

\* A complete update of the device's own value store is told with the event
\* of its type and all its fields.
UpdateArrives ==
  heard.event \notin {"none", "COMMAND"} =>
    LET m == heard.msg IN
      /\ heard.event = UpdateEvent[m.type]
      /\ m.missing = "none" /\ m.form \in FormsOf[m.type] /\ m.scope = "self"
           => heard.obj = [scope |-> "self", key |-> m.seq, value |-> m.seq, modified |-> m.seq]

\* An acknowledgement names the command that was received, and the server
\* decodes the data it had sent, up to its first zero byte.
AckEchoes ==
  ack # NoAck =>
    /\ SameId(ack.id, heard.obj.cmdId) /\ SameId(heard.msg.id, heard.obj.cmdId)
    /\ (IF heard.msg.datatype = "binary" THEN FromBase64(ack.data) ELSE ack.data)
         = CString(heard.msg.data)

\* The device talks under the id it was given, however that was written, and
\* under no other.
DeviceIdKept == phase \in {"configured", "running"} => config._device_id_str = ServerText

=============================================================================
