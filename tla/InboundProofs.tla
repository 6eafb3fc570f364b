---------------------------- MODULE InboundProofs ----------------------------
(***************************************************************************)
(* For every server, every application and any number of operations and    *)
(* messages: the device keeps its id, events are told with what their      *)
(* message said, acknowledgements come back as they were sent, and answers *)
(* arrive whole or leave the field that is written last as it was.         *)
(*                                                                         *)
(* The invariant is in parts that do not depend on each other: SetupInv is *)
(* about the configuration, EventInv about what the event handler was      *)
(* called with, OperationsInv about each transaction, its answer and the   *)
(* structures it fills, BoundsInv about two counters, FaultInv about the   *)
(* answer that did not parse.                                              *)
(***************************************************************************)
EXTENDS Inbound, CodecProofs

-----------------------------------------------------------------------------
(* The configuration.                                                      *)

SetupInv ==
  /\ phase \in {"start", "refused", "configured", "running", "fault"}
  /\ phase \in {"configured", "running"} => config._device_id_str = ServerText

\* A text that is taken for an id is the server's, and only it is kept.
LEMMA SetupInvNext ==
  ASSUME DeviceAssumption, SetupInv, [InboundNext]_inboundVars
  PROVE  SetupInv'
<1>1. ASSUME NEW text \in DeviceTexts, anedya_config_init(text)
      PROVE  SetupInv'
  <2>1. text \in Seq(Nat) /\ (IsId(text) => LowerCase(text) = ServerText)
    BY DeviceAssumption
  <2>2. parse_device_id(text).ok =>
          uuid_marshal(parse_device_id(text).devID) = ServerText
    BY <2>1, DeviceIdRoundTrip, Zenon
  <2>3. /\ phase' \in {"configured", "refused"}
        /\ phase' = "configured" =>
             /\ parse_device_id(text).ok
             /\ config'._device_id_str = uuid_marshal(parse_device_id(text).devID)
    <3>1. CASE parse_device_id(text).ok
      BY <1>1, <3>1 DEF anedya_config_init
    <3>2. CASE ~parse_device_id(text).ok
      BY <1>1, <3>2 DEF anedya_config_init
    <3> QED BY <3>1, <3>2
  <2> QED BY <2>2, <2>3 DEF SetupInv
<1>2. ASSUME anedya_config_register_event_handler
      PROVE  SetupInv'
  BY <1>2 DEF anedya_config_register_event_handler, SetupInv
<1>3. ASSUME Start PROVE SetupInv'
  BY <1>3 DEF Start, SetupInv
<1>4. ASSUME UNCHANGED setupVars PROVE SetupInv'
  BY <1>4 DEF setupVars, SetupInv
<1>5. ASSUME NEW t \in Txns, NEW fn \in ApiFunctions, NEW limit \in LimitsOf(fn),
             ApiCall(t, fn, limit)
      PROVE  SetupInv'
  BY <1>4, <1>5 DEF ApiCall
<1>6. ASSUME NEW t \in Txns, NEW a, _anedya_handle_txn_response(t, a)
      PROVE  SetupInv'
  BY <1>4, <1>6 DEF _anedya_handle_txn_response
<1>7. ASSUME NEW t \in Txns, NEW a, NullDocument(t, a)
      PROVE  SetupInv'
  BY <1>7 DEF NullDocument, SetupInv
<1>8. ASSUME _anedya_handle_event PROVE SetupInv'
  <2>1. UNCHANGED setupVars
    BY <1>8 DEF _anedya_handle_event, HandleCommand, HandleUpdate, NoMemory, Tell
  <2> QED BY <1>4, <2>1
<1>9. ASSUME NEW t \in Txns, anedya_op_cmd_status_update(t)
      PROVE  SetupInv'
  BY <1>4, <1>9 DEF anedya_op_cmd_status_update
<1>10. ASSUME HandlerReturns PROVE SetupInv'
  BY <1>4, <1>10 DEF HandlerReturns
<1>11. ASSUME UNCHANGED inboundVars PROVE SetupInv'
  BY <1>4, <1>11 DEF inboundVars
<1> QED BY <1>1, <1>2, <1>3, <1>5, <1>6, <1>7, <1>8, <1>9, <1>10, <1>11 DEF InboundNext

\* The device talks under the id the server knows it by, whatever texts the
\* application tries and however they are written (anedya_parse_device_id and
\* the format of anedya_config_init).
THEOREM DeviceKeepsId ==
  ASSUME DeviceAssumption
  PROVE  InboundSpec => []DeviceIdKept
<1>1. InboundInit => SetupInv
  BY DEF InboundInit, SetupInv
<1>2. SetupInv /\ [InboundNext]_inboundVars => SetupInv'
  BY SetupInvNext
<1>3. SetupInv => DeviceIdKept
  BY DEF SetupInv, DeviceIdKept
<1> QED BY <1>1, <1>2, <1>3, PTL DEF InboundSpec

-----------------------------------------------------------------------------
(* Events.                                                                 *)

\* A message as the server sends it: one of the set, with its number.
Numbered(m, n) == [m EXCEPT !.seq = n]

\* What the event handler was called with is what the parser made of a
\* message, with memory for it or without; what was acknowledged is what it
\* was called with.
EventInv ==
  /\ \/ heard = Silence
     \/ \E c \in Commands, n \in Nat, memory \in BOOLEAN :
          heard = [event |-> "COMMAND", msg |-> Numbered(c, n),
                   obj |-> _anedya_parse_inbound_command(Numbered(c, n), NewCommand, memory)]
     \/ \E u \in Updates, n \in Nat :
          /\ EventOf(u.type) # "none"
          /\ heard = [event |-> EventOf(u.type), msg |-> Numbered(u, n),
                      obj |-> UpdateFor(EventOf(u.type), Numbered(u, n))]
  /\ \/ ack = NoAck
     \/ /\ heard.event = "COMMAND" /\ heard.obj.cmd_data_type # "UNKNOWN"
        /\ ack.id = uuid_marshal(heard.obj.cmdId)
        /\ ack.data = IF heard.obj.data_len = 0 THEN <<>>
                      ELSE IF heard.obj.cmd_data_type = "string" THEN CString(heard.obj.data)
                      ELSE base64_encode(heard.obj.data)
  /\ nmsgs \in Nat

\* While the event handler runs no message arrives; an acknowledgement ends
\* with it.
LEMMA EventInvNext ==
  ASSUME InboundAssumption, EventInv, [InboundNext]_inboundVars
  PROVE  EventInv'
<1>1. ASSUME UNCHANGED <<heard, ack>>, nmsgs' \in Nat
      PROVE  EventInv'
  BY <1>1 DEF EventInv
<1>2. Arrives => heard = Silence /\ nmsgs' \in Nat
  BY DEF Arrives, EventInv
<1>3. heard = Silence => ack = NoAck
  BY DEF EventInv, Silence
<1>4. ASSUME NEW text \in DeviceTexts, anedya_config_init(text)
      PROVE  EventInv'
  BY <1>1, <1>4 DEF anedya_config_init, eventVars, EventInv
<1>5. ASSUME anedya_config_register_event_handler
      PROVE  EventInv'
  BY <1>1, <1>5 DEF anedya_config_register_event_handler, eventVars, EventInv
<1>6. ASSUME Start PROVE EventInv'
  BY <1>1, <1>6 DEF Start, eventVars, EventInv
<1>7. ASSUME NEW t \in Txns, NEW fn \in ApiFunctions, NEW limit \in LimitsOf(fn),
             ApiCall(t, fn, limit)
      PROVE  EventInv'
  BY <1>1, <1>7 DEF ApiCall, eventVars, EventInv
<1>8. ASSUME NEW t \in Txns, NEW a, _anedya_handle_txn_response(t, a) \/ NullDocument(t, a)
      PROVE  EventInv'
  BY <1>1, <1>2, <1>8 DEF _anedya_handle_txn_response, NullDocument, eventVars
<1>9. ASSUME NEW c \in Commands, NEW memory \in BOOLEAN, HandleCommand(Numbered(c, nmsgs + 1), memory)
      PROVE  EventInv'
  <2>1. /\ ack' = NoAck /\ nmsgs' \in Nat /\ nmsgs + 1 \in Nat
        /\ heard' \in {Silence,
                       [event |-> "COMMAND", msg |-> Numbered(c, nmsgs + 1),
                        obj |-> _anedya_parse_inbound_command(Numbered(c, nmsgs + 1),
                                                              NewCommand, memory)]}
    BY <1>2, <1>3, <1>9 DEF HandleCommand, Tell, EventInv
  <2> QED BY <2>1, Zenon DEF EventInv
<1>10. ASSUME NEW u \in Updates, NEW memory \in BOOLEAN, HandleUpdate(Numbered(u, nmsgs + 1), memory)
       PROVE  EventInv'
  <2> DEFINE m == Numbered(u, nmsgs + 1)
             event == _anedya_parse_valuestore_type(m, memory)
  <2>1. m.type = u.type
    BY InboundAssumption DEF InboundAssumption, ServerUpdates, Numbered
  <2>2. Arrives /\ nmsgs + 1 \in Nat
    BY <1>10 DEF HandleUpdate, EventInv
  <2>3. CASE event = "none"
    <3>1. UNCHANGED <<heard, ack>>
      BY <1>10, <2>3 DEF HandleUpdate, eventVars
    <3> QED BY <1>1, <1>2, <2>2, <3>1
  <2>4. CASE event # "none"
    <3>1. event = EventOf(u.type) /\ EventOf(u.type) # "none"
      BY <2>1, <2>4 DEF _anedya_parse_valuestore_type
    <3>2. Tell(event, UpdateFor(event, m), m)
      BY <1>10, <2>4 DEF HandleUpdate
    <3> HIDE DEF event
    <3>3. /\ ack' = NoAck /\ nmsgs' \in Nat
          /\ heard' \in {Silence, [event |-> event, msg |-> m, obj |-> UpdateFor(event, m)]}
      BY <1>2, <1>3, <2>2, <3>2 DEF Tell
    <3> QED BY <2>2, <3>1, <3>3, Zenon DEF EventInv
  <2> QED BY <2>3, <2>4
<1>11. ASSUME NoMemory PROVE EventInv'
  BY <1>1, <1>2, <1>11 DEF NoMemory, eventVars
<1>12. ASSUME _anedya_handle_event PROVE EventInv'
  BY <1>9, <1>10, <1>11, <1>12 DEF _anedya_handle_event, Numbered
<1>13. ASSUME NEW t \in Txns, anedya_op_cmd_status_update(t)
       PROVE  EventInv'
  BY <1>13 DEF anedya_op_cmd_status_update, EventInv
<1>14. ASSUME HandlerReturns PROVE EventInv'
  BY <1>14 DEF HandlerReturns, EventInv
<1>15. ASSUME UNCHANGED inboundVars PROVE EventInv'
  BY <1>1, <1>15 DEF inboundVars, eventVars, EventInv
<1> QED BY <1>4, <1>5, <1>6, <1>7, <1>8, <1>12, <1>13, <1>14, <1>15 DEF InboundNext

\* A command whose datatype is known was parsed up to its data.
LEMMA KnownCommand ==
  ASSUME NEW m, NEW memory \in BOOLEAN,
         _anedya_parse_inbound_command(m, NewCommand, memory).cmd_data_type # "UNKNOWN"
  PROVE  LET id == uuid_parse(m.id, NewCommand.cmdId)
             obj == _anedya_parse_inbound_command(m, NewCommand, memory)
             bytes == IF m.datatype = "string" THEN m.sent ELSE base64_decode(m.sent) IN
         /\ id.ok /\ m.datatype \in {"string", "binary"}
         /\ obj.cmdId = id.uuid /\ obj.command = m.seq /\ obj.cmd_data_type = m.datatype
         /\ obj.data = bytes /\ obj.data_len = Len(bytes)
<1> DEFINE id == uuid_parse(m.id, NewCommand.cmdId)
           obj == _anedya_parse_inbound_command(m, NewCommand, memory)
           withId == [NewCommand EXCEPT !.cmdId = id.uuid]
           withCommand == [withId EXCEPT !.command = m.seq]
           d == CommandData(m, withCommand)
           bytes == IF m.datatype = "string" THEN m.sent ELSE base64_decode(m.sent)
<1>1. obj = IF ~memory \/ m.missing = "commandId" THEN NewCommand
            ELSE IF ~id.ok \/ m.missing = "command" THEN withId
            ELSE IF m.missing = "datatype" THEN withCommand
            ELSE IF ~d.ok \/ m.missing = "exp" THEN d.obj
            ELSE [d.obj EXCEPT !.exp = m.seq]
  BY DEF _anedya_parse_inbound_command
<1>2. /\ NewCommand.cmd_data_type = "UNKNOWN"
      /\ withId.cmd_data_type = "UNKNOWN"
      /\ withCommand.cmd_data_type = "UNKNOWN"
      /\ withCommand = [cmdId |-> id.uuid, command |-> m.seq, data |-> <<>>, data_len |-> -1,
                        cmd_data_type |-> "UNKNOWN", exp |-> NotSet]
  <2> HIDE DEF id
  <2>1. withId = [cmdId |-> id.uuid, command |-> NotSet, data |-> <<>>, data_len |-> -1,
                  cmd_data_type |-> "UNKNOWN", exp |-> NotSet]
    BY DEF NewCommand
  <2>2. NewCommand.cmd_data_type = "UNKNOWN"
    BY DEF NewCommand
  <2> HIDE DEF withId
  <2>3. withCommand = [cmdId |-> id.uuid, command |-> m.seq, data |-> <<>>, data_len |-> -1,
                       cmd_data_type |-> "UNKNOWN", exp |-> NotSet]
    BY <2>1
  <2> HIDE DEF withCommand
  <2> QED BY <2>1, <2>2, <2>3
<1>3. \/ d.obj = withCommand
      \/ /\ m.datatype \in {"string", "binary"}
         /\ d.obj = [withCommand EXCEPT !.data = bytes, !.data_len = Len(bytes),
                                        !.cmd_data_type = m.datatype]
  BY DEF CommandData
<1> HIDE DEF id, withId, withCommand, d, bytes, obj
<1>4. /\ id.ok
      /\ obj = d.obj \/ obj = [d.obj EXCEPT !.exp = m.seq]
      /\ d.obj # withCommand
  <2>1. obj.cmd_data_type # "UNKNOWN"
    BY DEF obj
  <2>2. id.ok /\ (obj = d.obj \/ obj = [d.obj EXCEPT !.exp = m.seq])
    BY <1>1, <1>2, <2>1
  <2>3. d.obj # withCommand
    <3> SUFFICES ASSUME d.obj = withCommand PROVE obj.cmd_data_type = "UNKNOWN"
      BY <2>1
    <3> QED BY <1>2, <2>2
  <2> QED BY <2>2, <2>3
<1>5. /\ m.datatype \in {"string", "binary"}
      /\ d.obj = [cmdId |-> id.uuid, command |-> m.seq, data |-> bytes, data_len |-> Len(bytes),
                  cmd_data_type |-> m.datatype, exp |-> NotSet]
  BY <1>2, <1>3, <1>4
<1>6. /\ id.ok /\ m.datatype \in {"string", "binary"}
      /\ obj.cmdId = id.uuid /\ obj.command = m.seq /\ obj.cmd_data_type = m.datatype
      /\ obj.data = bytes /\ obj.data_len = Len(bytes)
  BY <1>4, <1>5
<1> QED BY <1>6 DEF id, obj, bytes

\* What the conversions then give back.
LEMMA KnownCommandIsWhole ==
  ASSUME InboundAssumption, EventInv, heard.event = "COMMAND",
         heard.obj.cmd_data_type # "UNKNOWN"
  PROVE  /\ SameId(heard.msg.id, heard.obj.cmdId)
         /\ heard.obj.cmdId \in [1 .. 16 -> 0 .. 255]
         /\ heard.obj.command = heard.msg.seq
         /\ heard.obj.data = heard.msg.data /\ heard.obj.data_len = Len(heard.msg.data)
         /\ heard.obj.cmd_data_type = heard.msg.datatype
         /\ heard.msg.datatype \in {"string", "binary"} /\ heard.msg.data \in Seq(0 .. 255)
<1>1. PICK c \in Commands, n \in Nat, memory \in BOOLEAN :
        heard = [event |-> "COMMAND", msg |-> Numbered(c, n),
                 obj |-> _anedya_parse_inbound_command(Numbered(c, n), NewCommand, memory)]
  <2>1. heard # Silence
    BY DEF Silence
  <2>2. \A u \in Updates : EventOf(u.type) # "COMMAND"
    BY DEF EventOf
  <2> QED BY <2>1, <2>2 DEF EventInv
<1> DEFINE m == Numbered(c, n)
           id == uuid_parse(m.id, NewCommand.cmdId)
           bytes == IF m.datatype = "string" THEN m.sent ELSE base64_decode(m.sent)
<1>2. /\ m.id = c.id /\ m.datatype = c.datatype /\ m.data = c.data /\ m.sent = c.sent
      /\ c.id \in Seq(Nat) /\ c.data \in Seq(0 .. 255)
      /\ Len(c.id) = 36 /\ \A i \in 1 .. 36 : c.id[i] \notin 103 .. 105
      /\ c.datatype = "binary" => c.data # <<>>
      /\ c.sent = IF c.datatype = "binary" THEN Base64(c.data) ELSE c.data
  <2>1. c \in ServerCommands
    BY InboundAssumption DEF InboundAssumption
  <2>2. c \in [seq : {0}, id : Seq(Nat), datatype : STRING, data : Seq(0 .. 255),
               missing : STRING, sent : Seq(Nat)]
    BY <2>1 DEF ServerCommands
  <2>3. /\ m.id = c.id /\ m.datatype = c.datatype /\ m.data = c.data /\ m.sent = c.sent
    BY <2>2 DEF Numbered
  <2>4. c.id \in Seq(Nat) /\ c.data \in Seq(0 .. 255)
    BY <2>2
  <2>5. /\ Len(c.id) = 36 /\ \A i \in 1 .. 36 : c.id[i] \notin 103 .. 105
        /\ c.datatype = "binary" => c.data # <<>>
        /\ c.sent = IF c.datatype = "binary" THEN Base64(c.data) ELSE c.data
    BY <2>1 DEF ServerCommands
  <2> QED BY <2>3, <2>4, <2>5
<1>3. /\ id.ok /\ m.datatype \in {"string", "binary"}
      /\ heard.obj.cmdId = id.uuid /\ heard.obj.command = m.seq
      /\ heard.obj.cmd_data_type = m.datatype
      /\ heard.obj.data = bytes /\ heard.obj.data_len = Len(bytes)
      /\ heard.msg = m
  <2>1. /\ heard.obj = _anedya_parse_inbound_command(m, NewCommand, memory) /\ heard.msg = m
    BY <1>1
  <2> HIDE DEF m
  <2> QED BY <2>1, KnownCommand
<1> HIDE DEF m
<1>4. /\ SameId(c.id, id.uuid) /\ id.uuid \in [1 .. 16 -> 0 .. 255]
  <2> DEFINE t == c.id
             o == NewCommand.cmdId
  <2>1. t \in Seq(Nat) /\ Len(t) = 36 /\ \A i \in 1 .. 36 : t[i] \notin 103 .. 105
    BY <1>2
  <2>2. id = uuid_parse(t, o) /\ uuid_parse(t, o).ok
    BY <1>2, <1>3
  <2> HIDE DEF t, o, id
  <2>3. SameId(t, uuid_parse(t, o).uuid) /\ uuid_parse(t, o).uuid \in [1 .. 16 -> 0 .. 255]
    BY <2>1, <2>2, ParsedIdIsRead, ZenonT(90)
  <2> QED BY <2>2, <2>3 DEF t
<1>5. bytes = c.data
  <2>1. CASE c.datatype = "binary"
    BY ZenonT(90), <1>2, <2>1, DecodeInvertsServer
  <2>2. CASE c.datatype # "binary"
    BY <1>2, <1>3, <2>2
  <2> QED BY <2>1, <2>2
<1> HIDE DEF id, bytes
<1>6. heard.msg.id = c.id /\ heard.msg.data = c.data /\ heard.msg.datatype = m.datatype
      /\ heard.obj.data = c.data
  BY <1>2, <1>3, <1>5, Zenon
<1>7. heard.msg.data \in Seq(0 .. 255)
  BY <1>2, <1>6, Zenon
<1>8. SameId(heard.msg.id, heard.obj.cmdId) /\ heard.obj.cmdId \in [1 .. 16 -> 0 .. 255]
  BY <1>3, <1>4, <1>6, Zenon
<1>9. heard.obj.command = heard.msg.seq /\ heard.obj.data_len = Len(heard.msg.data)
  BY <1>3, <1>5, <1>6, Zenon
<1> QED BY <1>3, <1>6, <1>7, <1>8, <1>9, Zenon

\* A command with a known datatype is told with its id, its name and its data,
\* all of this message and converted without loss (_anedya_handle_event,
\* _anedya_parse_inbound_command).
THEOREM EventsKnowTheirFields ==
  ASSUME InboundAssumption
  PROVE  InboundSpec => []EventKnowsItsFields
<1>1. InboundInit => EventInv
  BY DEF InboundInit, EventInv
<1>2. EventInv /\ [InboundNext]_inboundVars => EventInv'
  BY EventInvNext
<1>3. EventInv => EventKnowsItsFields
  BY KnownCommandIsWhole DEF EventKnowsItsFields
<1> QED BY <1>1, <1>2, <1>3, PTL DEF InboundSpec

\* An acknowledgement comes back under the id of its command and with its data
\* up to the first zero byte (anedya_op_cmd_status_update).
THEOREM AcknowledgementsEcho ==
  ASSUME InboundAssumption
  PROVE  InboundSpec => []AckEchoes
<1>1. InboundInit => EventInv
  BY DEF InboundInit, EventInv
<1>2. EventInv /\ [InboundNext]_inboundVars => EventInv'
  BY EventInvNext
<1>3. ASSUME EventInv, ack # NoAck
      PROVE  /\ SameId(ack.id, heard.obj.cmdId) /\ SameId(heard.msg.id, heard.obj.cmdId)
             /\ (IF heard.msg.datatype = "binary" THEN FromBase64(ack.data) ELSE ack.data)
                  = CString(heard.msg.data)
  <2> DEFINE data == heard.msg.data
  <2>1. /\ heard.event = "COMMAND" /\ heard.obj.cmd_data_type # "UNKNOWN"
        /\ ack.id = uuid_marshal(heard.obj.cmdId)
        /\ ack.data = IF heard.obj.data_len = 0 THEN <<>>
                      ELSE IF heard.obj.cmd_data_type = "string" THEN CString(heard.obj.data)
                      ELSE base64_encode(heard.obj.data)
    BY <1>3 DEF EventInv
  <2>2. /\ SameId(heard.msg.id, heard.obj.cmdId)
        /\ heard.obj.cmdId \in [1 .. 16 -> 0 .. 255]
        /\ heard.obj.data = data /\ heard.obj.data_len = Len(data)
        /\ heard.obj.cmd_data_type = heard.msg.datatype
        /\ heard.msg.datatype \in {"string", "binary"} /\ data \in Seq(0 .. 255)
    BY <1>3, <2>1, KnownCommandIsWhole
  <2>3. SameId(ack.id, heard.obj.cmdId)
    BY <2>1, <2>2, MarshalledId
  <2> HIDE DEF data
  <2>4. CASE Len(data) = 0
    <3>1. data = <<>> /\ ack.data = <<>>
      BY ZenonT(90), <2>1, <2>2, <2>4, EmptySeq
    <3>2. CString(<<>>) = <<>>
      BY DEF CString
    <3>3. FromBase64(<<>>) = <<>>
      <4>1. base64_encode(<<>>) = <<>>
        BY <3>2 DEF base64_encode
      <4>2. <<>> \in Seq(0 .. 255)
        OBVIOUS
      <4> QED BY <3>2, <4>1, <4>2, ServerInvertsEncode
    <3> QED BY <2>2, <2>3, <3>1, <3>2, <3>3 DEF data
  <2>5. CASE Len(data) # 0
    <3>1. ack.data = IF heard.msg.datatype = "string" THEN CString(data) ELSE base64_encode(data)
      BY <2>1, <2>2, <2>5
    <3>2. FromBase64(base64_encode(data)) = CString(data)
      BY <2>2, ServerInvertsEncode
    <3> QED BY <2>2, <2>3, <3>1, <3>2 DEF data
  <2> QED BY <2>4, <2>5
<1>4. EventInv => AckEchoes
  BY <1>3 DEF AckEchoes
<1> QED BY <1>1, <1>2, <1>4, PTL DEF InboundSpec

\* An update of the value store, which has a value of some form, is told with
\* the event of its type, and with all its fields when it lacks nothing, its
\* value goes with its type and its scope is the device's own
\* (_anedya_parse_valuestore_type and the four parsers).
THEOREM UpdatesArrive ==
  ASSUME InboundAssumption
  PROVE  InboundSpec => []UpdateArrives
<1>1. InboundInit => EventInv
  BY DEF InboundInit, EventInv
<1>2. EventInv /\ [InboundNext]_inboundVars => EventInv'
  BY EventInvNext
<1>3. ASSUME EventInv, heard.event \notin {"none", "COMMAND"}
      PROVE  /\ heard.event = UpdateEvent[heard.msg.type]
             /\ heard.msg.missing = "none" /\ heard.msg.form \in FormsOf[heard.msg.type]
                  /\ heard.msg.scope = "self"
                => heard.obj = [scope |-> "self", key |-> heard.msg.seq,
                                value |-> heard.msg.seq, modified |-> heard.msg.seq]
  <2>1. PICK u \in Updates, n \in Nat :
          /\ EventOf(u.type) # "none"
          /\ heard = [event |-> EventOf(u.type), msg |-> Numbered(u, n),
                      obj |-> UpdateFor(EventOf(u.type), Numbered(u, n))]
    BY <1>3 DEF EventInv, Silence
  <2> DEFINE m == Numbered(u, n)
  <2>2. m.type = u.type
    BY InboundAssumption DEF InboundAssumption, ServerUpdates, Numbered
  <2>3. u.type \in {"float", "string", "binary", "boolean"}
    BY <2>1 DEF EventOf
  <2>4. heard.event = UpdateEvent[m.type]
    BY <2>1, <2>2, <2>3 DEF EventOf, UpdateEvent
  <2>5. ASSUME m.missing = "none", m.form \in FormsOf[m.type], m.scope = "self"
        PROVE  UpdateFor(EventOf(u.type), m) =
                 [scope |-> "self", key |-> m.seq, value |-> m.seq, modified |-> m.seq]
    <3> HIDE DEF m
    <3>1. ASSUME NEW accepted, m.form \in accepted
          PROVE  ParseUpdate(m, NewUpdate, accepted) =
                   [scope |-> "self", key |-> m.seq, value |-> m.seq, modified |-> m.seq]
      BY <2>5, <3>1 DEF ParseUpdate, NewUpdate
    <3>2. /\ u.type = "float" => m.form \in {"integer", "real"} /\ EventOf(u.type) = "VS_UPDATE_FLOAT"
          /\ u.type \in {"string", "binary"} => m.form = "text"
          /\ u.type = "string" => EventOf(u.type) = "VS_UPDATE_STRING"
          /\ u.type = "binary" => EventOf(u.type) = "VS_UPDATE_BIN"
          /\ u.type = "boolean" => m.form = "truth" /\ EventOf(u.type) = "VS_UPDATE_BOOL"
      BY <2>2, <2>3, <2>5 DEF FormsOf, EventOf
    <3> QED BY <2>3, <3>1, <3>2 DEF UpdateFor, _anedya_parse_valuestore_float,
          _anedya_parse_valuestore_string, _anedya_parse_valuestore_bool,
          _anedya_parse_valuestore_bin
  <2> QED BY <2>1, <2>4, <2>5
<1>4. EventInv => UpdateArrives
  BY <1>3 DEF UpdateArrives
<1> QED BY <1>1, <1>2, <1>4, PTL DEF InboundSpec

-----------------------------------------------------------------------------
(* Operations: what is in a structure, and since when.                     *)

Lists == Listing \cup {"ota_ongoing"}

FieldsOf(fn) ==
  CASE fn = "vs_get" -> ValueFields
    [] fn \in Listing -> {"next"}
    [] fn = "cmd_next" -> NextFields
    [] fn = "ota_next" -> AssetFields
    [] OTHER -> {}

EntryOf(fn) ==
  CASE fn = "vs_list" -> KeyFields
    [] fn = "cmd_list" -> CommandFields
    [] fn = "ota_ongoing" -> AssetFields \cup {"status"}
    [] OTHER -> {}

\* The fields that may point into the text the transaction keeps.
Pointing(fn) ==
  CASE fn = "vs_get" -> {"scope", "value"}
    [] fn = "vs_list" -> {"scope"}
    [] fn = "cmd_next" -> {"data"}
    [] OTHER -> {}

\* Marks of the operations up to n, and of the text txn t keeps.
Copies(n) == {"unset", "garbage", "copy", "empty"} \X (0 .. n) \X Nat
Texts(t) == {"body"} \X {t} \X Nat

\* The fields of a structure or of an element, none younger than operation n.
Kept(e, names, pointing, t, n) ==
  /\ e = [f \in names |-> e[f]]
  /\ \A f \in names : e[f] \in Copies(n) \/ (f \in pointing /\ e[f] \in Texts(t))

\* The structure for fn, of txn t.
Shaped(r, fn, t, n) ==
  /\ r = [fields |-> r.fields, flag |-> r.flag, totalcount |-> r.totalcount,
          count |-> r.count, list |-> r.list]
  /\ r.flag \in BOOLEAN /\ r.totalcount \in Nat /\ r.count \in Nat
  /\ Kept(r.fields, FieldsOf(fn), Pointing(fn), t, n)
  /\ Len(r.list) \in Nat /\ r.list = [k \in 1 .. Len(r.list) |-> r.list[k]]
  /\ \A k \in 1 .. Len(r.list) : Kept(r.list[k], EntryOf(fn), Pointing(fn), t, n)
  /\ IF fn \in Lists THEN r.count <= Len(r.list) ELSE Len(r.list) = 0

\* A mark that is of element k of the answer a, or points into its text.
Says(v, a, k) == (v[1] = "body" \/ v[2] = a.op) /\ v[3] = k

Complete(a) == a.missing = "none" /\ ~a.bad

\* What CompleteAnswerFills says of a structure ...
Whole(r, a) ==
  /\ a.fn \in {"cmd_next", "ota_next"} => r.flag = a.flag
  /\ a.fn = "cmd_list" => r.flag = (a.count > 0)
  /\ a.fn \in Listing => r.count = a.count
  /\ \A f \in CarriedFields(a) : Says(r.fields[f], a, 0)
  /\ \A k \in 1 .. Fitting(a, Len(r.list)) : \A f \in CarriedByElement(a) :
       Says(r.list[k][f], a, k)

LastOf(fn) ==
  CASE fn = "vs_get" -> "modified" [] fn = "cmd_next" -> "nextavailable" [] OTHER -> "assetId"
LastOfElement(fn) ==
  CASE fn = "vs_list" -> "modified" [] fn = "cmd_list" -> "updated" [] OTHER -> "status"

\* ... and what LastFieldMeansAll says.
Vouched(r, a) ==
  /\ a.fn \in {"vs_get", "cmd_next", "ota_next"} /\ Says(r.fields[LastOf(a.fn)], a, 0)
       => \A f \in CarriedFields(a) \ (IF a.fn = "cmd_next" THEN {"commandId"} ELSE {}) :
            Says(r.fields[f], a, 0)
  /\ \A k \in 1 .. Len(r.list) : Says(r.list[k][LastOfElement(a.fn)], a, k)
       => \A f \in CarriedByElement(a) \ Unnoticed(a, k) : Says(r.list[k][f], a, k)

\* The last operation whose answer may be in the structures of a transaction.
Age(c) == IF c.state = "sent" THEN c.op - 1 ELSE c.op

\* A transaction: its operation c, its last answer a, is_success, _rxbody and
\* its structures; n operations were begun.
TxnInv(c, a, success, body, r, t, n) ==
  /\ c = [fn |-> c.fn, limit |-> c.limit, op |-> c.op, state |-> c.state]
  /\ c.fn \in ApiFunctions \cup {"none", "cmd_status"} /\ c.state \in {"idle", "sent", "done"}
  /\ c.op \in 0 .. n /\ body \in 0 .. n /\ success \in BOOLEAN
  /\ c.state = "idle" <=> c.fn = "none"
  /\ c.state # "idle" => c.limit \in LimitsOf(c.fn) /\ c.op # 0
  /\ r = [fn \in ApiFunctions |-> r[fn]]
  /\ \A fn \in ApiFunctions :
       Shaped(r[fn], fn, t, Age(c)) /\ Len(r[fn].list) \in {0} \cup Rooms \cup Limits
  /\ c.fn \in Lists => Len(r[c.fn].list) = c.limit
  /\ c.state = "sent" => /\ c.fn = "ota_ongoing" => r[c.fn].count = c.limit
                         /\ c.fn = "ota_next" => ~r[c.fn].flag
  /\ c.state = "done" =>
       /\ a.op = c.op /\ a.fn = c.fn /\ body = c.op /\ success = a.ok
       /\ a.n \in Nat /\ a.count \in Nat
       /\ c.fn \in ApiFunctions /\ a.ok => /\ Complete(a) => Whole(r[c.fn], a)
                                           /\ Vouched(r[c.fn], a)
       /\ c.fn = "ota_next" /\ r[c.fn].flag =>
            a.ok /\ a.flag /\ a.missing # "deploymentAvailable"

OperationsInv ==
  /\ nops \in Nat
  /\ call = [t \in Txns |-> call[t]] /\ answer = [t \in Txns |-> answer[t]]
  /\ is_success = [t \in Txns |-> is_success[t]] /\ _rxbody = [t \in Txns |-> _rxbody[t]]
  /\ response = [t \in Txns |-> response[t]]
  /\ \A t \in Txns : TxnInv(call[t], answer[t], is_success[t], _rxbody[t], response[t], t, nops)

\* A longer list or more metadata than there are nodes for.
TooLong(a) ==
  \/ a.fn \in Listing \cup {"ota_ongoing"} /\ a.n > SafeLength(a)
  \/ a.fn \in {"ota_next", "ota_ongoing"} /\ a.meta > SafeMeta(a)

\* The answer that did not parse is too long for the pool.
FaultInv ==
  phase = "fault" => \E t \in Txns :
    /\ call[t].state = "sent" /\ answer[t].op = call[t].op /\ answer[t].fn = call[t].fn
    /\ TooLong(answer[t])

-----------------------------------------------------------------------------
(* What the helpers of the handlers do.                                    *)

\* The fields of the six structures, and which of them hold pointers.
LEMMA Names ==
  /\ FieldsOf("vs_get") = ValueFields /\ Pointing("vs_get") = {"scope", "value"}
  /\ FieldsOf("vs_list") = {"next"} /\ Pointing("vs_list") = {"scope"}
  /\ FieldsOf("cmd_list") = {"next"} /\ Pointing("cmd_list") = {}
  /\ FieldsOf("cmd_next") = NextFields /\ Pointing("cmd_next") = {"data"}
  /\ FieldsOf("ota_next") = AssetFields /\ Pointing("ota_next") = {}
  /\ FieldsOf("ota_ongoing") = {} /\ Pointing("ota_ongoing") = {}
  /\ EntryOf("vs_list") = KeyFields /\ EntryOf("cmd_list") = CommandFields
  /\ EntryOf("ota_ongoing") = AssetFields \cup {"status"}
  /\ Lists = {"vs_list", "cmd_list", "ota_ongoing"}
BY DEF FieldsOf, Pointing, EntryOf, Lists, Listing

\* The elements of a structure for fn.
LEMMA ElementsKept ==
  ASSUME NEW r, NEW fn, NEW t, NEW n, Shaped(r, fn, t, n), NEW k \in 1 .. Len(r.list)
  PROVE  Kept(r.list[k], EntryOf(fn), Pointing(fn), t, n)
BY DEF Shaped

\* What was kept stays, however many operations are begun.
LEMMA KeptLonger ==
  ASSUME NEW e, NEW names, NEW pointing, NEW t, NEW n \in Nat, NEW m \in Nat, n <= m,
         Kept(e, names, pointing, t, n)
  PROVE  Kept(e, names, pointing, t, m)
<1>1. Copies(n) \subseteq Copies(m)
  <2>1. 0 .. n \subseteq 0 .. m
    OBVIOUS
  <2> QED BY <2>1 DEF Copies
<1> QED BY <1>1 DEF Kept

\* A structure keeps its shape while later operations are begun.
LEMMA ShapedLonger ==
  ASSUME NEW r, NEW fn, NEW t, NEW n \in Nat, NEW m \in Nat, n <= m, Shaped(r, fn, t, n)
  PROVE  Shaped(r, fn, t, m)
<1>1. Kept(r.fields, FieldsOf(fn), Pointing(fn), t, m)
  BY KeptLonger DEF Shaped
<1>2. \A k \in 1 .. Len(r.list) : Kept(r.list[k], EntryOf(fn), Pointing(fn), t, m)
  BY KeptLonger DEF Shaped
<1> QED BY <1>1, <1>2 DEF Shaped

\* A field that is not written is not of the answer that is handled, unless it
\* may point into its text.
LEMMA OldSaysNothing ==
  ASSUME NEW e, NEW names, NEW pointing, NEW t, NEW n \in Nat, Kept(e, names, pointing, t, n),
         NEW a, a.op = n + 1, NEW k, NEW f \in names \ pointing
  PROVE  ~Says(e[f], a, k)
<1>1. e[f] \in Copies(n)
  BY DEF Kept
<1>2. e[f][1] # "body" /\ e[f][2] \in 0 .. n
  BY <1>1 DEF Copies
<1> QED BY <1>2 DEF Says

\* Filling in fields.
LEMMA FillKeeps ==
  ASSUME NEW e, NEW names, NEW pointing, NEW t, NEW n \in Nat, Kept(e, names, pointing, t, n),
         NEW a, a.op = n + 1, NEW k \in Nat, NEW taken, NEW pointers, pointers \subseteq pointing,
         NEW g, g = Fill(e, taken, pointers, a, t, k)
  PROVE  /\ Kept(g, names, pointing, t, n + 1)
         /\ \A f \in names : IF f \in taken THEN Says(g[f], a, k) ELSE g[f] = e[f]
<1>1. g = [f \in names |-> IF f \notin taken THEN e[f]
                           ELSE IF f \in pointers THEN Body(t, k) ELSE Copy(a, k)]
  BY DEF Fill, Kept
<1>2. Kept(e, names, pointing, t, n + 1)
  BY KeptLonger, n + 1 \in Nat, n <= n + 1
<1>3. Body(t, k) \in Texts(t) /\ Copy(a, k) \in Copies(n + 1)
  BY DEF Body, Copy, Texts, Copies
<1>4. Says(Body(t, k), a, k) /\ Says(Copy(a, k), a, k)
  BY DEF Body, Copy, Says
<1>5. ASSUME NEW f \in names
      PROVE  /\ g[f] \in Copies(n + 1) \/ (f \in pointing /\ g[f] \in Texts(t))
             /\ IF f \in taken THEN Says(g[f], a, k) ELSE g[f] = e[f]
  <2>1. CASE f \notin taken
    BY <1>1, <1>2, <2>1 DEF Kept
  <2>2. CASE f \in taken /\ f \in pointers
    BY <1>1, <1>3, <1>4, <2>2
  <2>3. CASE f \in taken /\ f \notin pointers
    BY <1>1, <1>3, <1>4, <2>3
  <2> QED BY <2>1, <2>2, <2>3
<1>6. g = [f \in names |-> g[f]]
  BY <1>1
<1> QED BY <1>5, <1>6 DEF Kept

\* Half an id says nothing.
LEMMA SpoilKeeps ==
  ASSUME NEW e, NEW names, NEW pointing, NEW t, NEW n \in Nat, Kept(e, names, pointing, t, n),
         NEW taken, NEW ids, NEW g, g = Spoil(e, taken, ids)
  PROVE  /\ Kept(g, names, pointing, t, n)
         /\ \A f \in names : g[f] = IF f \in taken \cap ids THEN Garbage ELSE e[f]
<1>1. g = [f \in names |-> IF f \in taken \cap ids THEN Garbage ELSE e[f]]
  BY DEF Spoil, Kept
<1>2. Garbage \in Copies(n)
  BY DEF Garbage, Copies
<1>3. \A f \in names : g[f] \in Copies(n) \/ (f \in pointing /\ g[f] \in Texts(t))
  BY <1>1, <1>2 DEF Kept
<1> QED BY <1>1, <1>3 DEF Kept

\* A handler that lacks nothing takes all its steps, ...
LEMMA AllSteps ==
  ASSUME NEW steps, NEW a, NEW k, Len(steps) \in Nat,
         \A j \in 1 .. Len(steps) : ~Lacks(a, k, steps[j]),
         NEW i \in 1 .. Len(steps)
  PROVE  steps[i] \in Before(steps, a, k)
<1>1. \A j \in 1 .. i : ~Lacks(a, k, steps[j])
  OBVIOUS
<1> QED BY <1>1 DEF Before

\* ... and one that takes its last step took them all.
LEMMA LastStep ==
  ASSUME NEW steps, NEW a, NEW k, Len(steps) \in Nat \ {0},
         \A j \in 1 .. Len(steps) : steps[j] = steps[Len(steps)] => j = Len(steps),
         steps[Len(steps)] \in Before(steps, a, k)
  PROVE  /\ \A j \in 1 .. Len(steps) : ~Lacks(a, k, steps[j])
         /\ \A j \in 1 .. Len(steps) : steps[j] \in Before(steps, a, k)
<1>1. PICK i \in 1 .. Len(steps) : /\ steps[i] = steps[Len(steps)]
                                   /\ \A j \in 1 .. i : ~Lacks(a, k, steps[j])
  BY DEF Before
<1>2. i = Len(steps)
  BY <1>1
<1>3. \A j \in 1 .. Len(steps) : ~Lacks(a, k, steps[j])
  BY <1>1, <1>2
<1> QED BY <1>3, AllSteps

\* The elements that are copied are those the answer has and counts and the
\* application has room for.
LEMMA FittingIs ==
  ASSUME NEW a, a.n \in Nat, a.count \in Nat, NEW room \in Nat
  PROVE  /\ Fitting(a, room) \in Nat /\ Fitting(a, room) <= room
         /\ Fitting(a, room) <= a.n /\ Fitting(a, room) <= a.count
<1> DEFINE S == {a.n, a.count, room}
<1>1. \E m \in S : \A o \in S : m <= o
  <2>1. S \in SUBSET Nat /\ S # {}
    OBVIOUS
  <2> QED BY <2>1, Least
<1>2. Fitting(a, room) = CHOOSE m \in S : \A o \in S : m <= o
  BY DEF Fitting
<1>3. Fitting(a, room) \in S /\ \A o \in S : Fitting(a, room) <= o
  BY <1>1, <1>2, Zenon
<1> QED BY <1>3

-----------------------------------------------------------------------------
(* The handlers, one lemma each: the structure keeps its shape, a complete *)
(* answer is in it, and the last field vouches for the others.             *)

\* An answer to operation n + 1, in the range of what a server says.
Answering(a, fn, n) ==
  /\ a.fn = fn /\ a.op = n + 1 /\ a.n \in Nat /\ a.count \in Nat
  /\ a.flag \in BOOLEAN /\ a.bad \in BOOLEAN

\* What a handler has to do for an answer: room is what the application has.
Serves(r, s, a, fn, t, n) ==
  /\ Shaped(s, fn, t, n + 1) /\ Len(s.list) = Len(r.list)
  /\ Complete(a) => Whole(s, a)
  /\ Vouched(s, a)

\* Nothing is written.
LEMMA UntouchedVouches ==
  ASSUME NEW fn \in ApiFunctions, NEW t, NEW n \in Nat, NEW r, Shaped(r, fn, t, n),
         NEW a, Answering(a, fn, n)
  PROVE  Shaped(r, fn, t, n + 1) /\ Vouched(r, a)
<1>1. Shaped(r, fn, t, n + 1)
  BY ShapedLonger, n + 1 \in Nat, n <= n + 1
<1>2. ASSUME fn \in {"vs_get", "cmd_next", "ota_next"}
      PROVE  ~Says(r.fields[LastOf(fn)], a, 0)
  <2>1. LastOf(fn) \in FieldsOf(fn) \ Pointing(fn)
    BY <1>2 DEF LastOf, FieldsOf, Pointing, Listing, ValueFields, NextFields, CommandFields,
         AssetFields
  <2>2. Kept(r.fields, FieldsOf(fn), Pointing(fn), t, n)
    BY DEF Shaped
  <2> QED BY <2>1, <2>2, OldSaysNothing DEF Answering
<1>3. ASSUME NEW k \in 1 .. Len(r.list)
      PROVE  ~Says(r.list[k][LastOfElement(fn)], a, k)
  <2>1. Kept(r.list[k], EntryOf(fn), Pointing(fn), t, n) /\ fn \in Lists
    BY DEF Shaped
  <2>2. LastOfElement(fn) \in EntryOf(fn) \ Pointing(fn)
    BY <2>1 DEF Lists, Listing, LastOfElement, EntryOf, Pointing, KeyFields, CommandFields,
         AssetFields
  <2> QED BY <2>1, <2>2, OldSaysNothing DEF Answering
<1>4. Vouched(r, a)
  BY <1>2, <1>3 DEF Vouched, Answering
<1> QED BY <1>1, <1>4

\* A structure without a list, by its fields g and its flag b.
LEMMA FieldsServe ==
  ASSUME NEW fn \in {"vs_get", "cmd_next", "ota_next"}, NEW t, NEW n \in Nat,
         NEW r, Shaped(r, fn, t, n), NEW a, Answering(a, fn, n),
         NEW g, Kept(g, FieldsOf(fn), Pointing(fn), t, n + 1), NEW b \in BOOLEAN,
         NEW s, s = [r EXCEPT !.flag = b, !.fields = g],
         Complete(a) => /\ fn # "vs_get" => b = a.flag
                        /\ \A f \in CarriedFields(a) : Says(g[f], a, 0),
         Says(g[LastOf(fn)], a, 0) =>
           \A f \in CarriedFields(a) \ (IF fn = "cmd_next" THEN {"commandId"} ELSE {}) :
             Says(g[f], a, 0)
  PROVE  Serves(r, s, a, fn, t, n)
<1>1. /\ Len(r.list) = 0 /\ fn \notin Listing /\ a.fn = fn
  BY Names DEF Shaped, Listing, Answering
<1>2. Shaped(r, fn, t, n + 1)
  BY ShapedLonger, n + 1 \in Nat, n <= n + 1
<1>3. s = [fields |-> g, flag |-> b, totalcount |-> r.totalcount, count |-> r.count,
           list |-> r.list]
  BY DEF Shaped
<1>4. Shaped(s, fn, t, n + 1)
  BY <1>2, <1>3 DEF Shaped
<1>5. s.fields = g /\ s.flag = b /\ s.list = r.list
  BY <1>3
<1>6. Complete(a) => Whole(s, a)
  <2>1. \A k \in 1 .. Fitting(a, 0) : FALSE
    BY FittingIs, 0 \in Nat DEF Answering
  <2> QED BY <1>1, <1>5, <2>1 DEF Whole, Listing
<1>7. Vouched(s, a)
  BY <1>1, <1>5 DEF Vouched
<1> QED BY <1>4, <1>5, <1>6, <1>7 DEF Serves

\* _anedya_op_valuestore_handle_get_resp
LEMMA GetServes ==
  ASSUME NEW t, NEW n \in Nat, NEW r, Shaped(r, "vs_get", t, n),
         NEW a, Answering(a, "vs_get", n), a.type \in ValueTypes
  PROVE  Serves(r, _anedya_op_valuestore_handle_get_resp(r, a, t), a, "vs_get", t, n)
<1> DEFINE fn == "vs_get"
           s == _anedya_op_valuestore_handle_get_resp(r, a, t)
           steps == IF a.scope = "global" THEN <<"scope", "id", "key", "value">>
                    ELSE <<"scope", "key", "value">>
           got == Before(steps, a, 0)
           pointers == {"scope"} \cup IF a.type \in {"string", "binary"} THEN {"value"} ELSE {}
           taken == IF "value" \in got THEN got \cup {"modified"} ELSE got
           g == Fill(r.fields, taken, pointers, a, t, 0)
<1>1. s = IF a.missing \in {"namespace", "modified", "type"} \/ a.type \notin ValueTypes THEN r
          ELSE [r EXCEPT !.fields = g]
  BY DEF _anedya_op_valuestore_handle_get_resp
<1>2. /\ Len(steps) \in Nat \ {0} /\ steps[Len(steps)] = "value"
      /\ \A j \in 1 .. Len(steps) : steps[j] = "value" => j = Len(steps)
      /\ \A j \in 1 .. Len(steps) : steps[j] \in ValueFields /\ steps[j] # "modified"
      /\ \A f \in CarriedFields(a) \ {"modified"} : \E j \in 1 .. Len(steps) : steps[j] = f
  <2>1. CASE a.scope = "global"
    BY <2>1 DEF CarriedFields, ValueFields, Answering
  <2>2. CASE a.scope # "global"
    BY <2>2 DEF CarriedFields, ValueFields, Answering
  <2> QED BY <2>1, <2>2
<1> HIDE DEF s, steps
<1>3. CASE a.missing \in {"namespace", "modified", "type"}
  <2>1. s = r /\ ~Complete(a)
    BY <1>1, <1>3 DEF Complete
  <2> QED BY <2>1, UntouchedVouches DEF Serves, ApiFunctions, s
<1>4. CASE a.missing \notin {"namespace", "modified", "type"}
  <2>1. s = [r EXCEPT !.fields = g]
    BY <1>1, <1>4
  <2>2. Kept(r.fields, ValueFields, Pointing(fn), t, n) /\ pointers \subseteq Pointing(fn)
    <3>1. Kept(r.fields, ValueFields, Pointing(fn), t, n)
      BY Names DEF Shaped
    <3>2. pointers \subseteq {"scope", "value"}
      OBVIOUS
    <3> QED BY <3>1, <3>2, Names
  <2> HIDE DEF pointers, taken, got
  <2>2a. g = Fill(r.fields, taken, pointers, a, t, 0)
    OBVIOUS
  <2> HIDE DEF g
  <2>3. /\ Kept(g, ValueFields, Pointing(fn), t, n + 1)
        /\ \A f \in ValueFields : IF f \in taken THEN Says(g[f], a, 0) ELSE g[f] = r.fields[f]
    BY <2>2, <2>2a, FillKeeps, 0 \in Nat DEF Answering
  <2>4. s = [r EXCEPT !.flag = r.flag, !.fields = g] /\ r.flag \in BOOLEAN
    BY <2>1 DEF Shaped
  <2>7. ASSUME \A j \in 1 .. Len(steps) : steps[j] \in got
        PROVE  \A f \in CarriedFields(a) : Says(g[f], a, 0)
    <3>1. "value" \in got
      BY <1>2, <2>7
    <3>2. taken = got \cup {"modified"}
      BY <3>1 DEF taken
    <3>3. \A f \in CarriedFields(a) : f \in taken
      BY <1>2, <2>7, <3>2
    <3>4. CarriedFields(a) \subseteq ValueFields
      BY DEF CarriedFields, Answering
    <3> QED BY <2>3, <3>3, <3>4
  <2>8. Complete(a) => \A f \in CarriedFields(a) : Says(g[f], a, 0)
    <3> SUFFICES ASSUME Complete(a) PROVE \A f \in CarriedFields(a) : Says(g[f], a, 0)
      OBVIOUS
    <3>1. \A j \in 1 .. Len(steps) : ~Lacks(a, 0, steps[j])
      BY <1>2 DEF Complete, Lacks, ValueFields
    <3>2. \A j \in 1 .. Len(steps) : steps[j] \in got
      BY <1>2, <3>1, AllSteps DEF got
    <3> QED BY <2>7, <3>2
  <2>9. ASSUME Says(g["modified"], a, 0)
        PROVE  \A f \in CarriedFields(a) : Says(g[f], a, 0)
    <3>1. "modified" \in ValueFields \ Pointing(fn)
      BY Names DEF ValueFields
    <3>2. "modified" \in taken
      <4> SUFFICES ASSUME "modified" \notin taken PROVE FALSE
        OBVIOUS
      <4>1. g["modified"] = r.fields["modified"]
        BY <2>3, <3>1
      <4> QED BY <2>2, <2>9, <3>1, <4>1, OldSaysNothing DEF Answering
    <3>3. "modified" \notin got
      BY <1>2 DEF got, Before
    <3>4. "value" \in got
      BY <3>2, <3>3 DEF taken
    <3>5. \A j \in 1 .. Len(steps) : steps[j] \in got
      BY <1>2, <3>4, LastStep DEF got
    <3> QED BY <2>7, <3>5
  <2>10. Kept(g, FieldsOf(fn), Pointing(fn), t, n + 1)
    BY <2>3, Names
  <2> QED BY <2>4, <2>8, <2>9, <2>10, FieldsServe DEF LastOf, s
<1> QED BY <1>3, <1>4

\* _anedya_op_cmd_handle_next_resp
LEMMA NextServes ==
  ASSUME NEW t, NEW n \in Nat, NEW r, Shaped(r, "cmd_next", t, n),
         NEW a, Answering(a, "cmd_next", n)
  PROVE  Serves(r, _anedya_op_cmd_handle_next_resp(r, a, t), a, "cmd_next", t, n)
<1> DEFINE fn == "cmd_next"
           s == _anedya_op_cmd_handle_next_resp(r, a, t)
           steps == <<"commandId", "command", "status", "data", "datatype",
                      "issuedAt", "updated", "nextavailable">>
           got == Before(steps, a, 0)
           filled == Fill(r.fields, got, {"data"}, a, t, 0)
           g == IF ~a.flag THEN r.fields
                ELSE IF a.bad THEN Spoil(filled, got, {"commandId"}) ELSE filled
<1>1. s = [r EXCEPT !.flag = a.flag, !.fields = g]
  <2>1. CASE ~a.flag
    BY <2>1 DEF _anedya_op_cmd_handle_next_resp, Shaped, Answering
  <2>2. CASE a.flag
    BY <2>2 DEF _anedya_op_cmd_handle_next_resp, Shaped, Answering
  <2> QED BY <2>1, <2>2 DEF Answering
<1>2. /\ Len(steps) \in Nat \ {0} /\ steps[Len(steps)] = "nextavailable"
      /\ \A j \in 1 .. Len(steps) : steps[j] = "nextavailable" => j = Len(steps)
      /\ \A j \in 1 .. Len(steps) : steps[j] # "none"
      /\ \A f \in NextFields : \E j \in 1 .. Len(steps) : steps[j] = f
  BY DEF NextFields, CommandFields
<1>3. CarriedFields(a) = IF a.flag THEN NextFields ELSE {}
  BY DEF CarriedFields, Answering
<1>4. Kept(r.fields, NextFields, {"data"}, t, n)
  BY Names DEF Shaped
<1> HIDE DEF steps, got, filled, s
<1>5. /\ Kept(filled, NextFields, {"data"}, t, n + 1)
      /\ \A f \in NextFields : IF f \in got THEN Says(filled[f], a, 0)
                               ELSE filled[f] = r.fields[f]
  BY <1>4, FillKeeps, 0 \in Nat DEF Answering, filled
<1>6. /\ Kept(g, NextFields, {"data"}, t, n + 1)
      /\ a.flag => \A f \in NextFields : g[f] = IF a.bad /\ f \in got \cap {"commandId"}
                                                THEN Garbage ELSE filled[f]
  <2>1. CASE ~a.flag
    BY <1>4, <2>1, KeptLonger, n + 1 \in Nat, n <= n + 1
  <2>2. CASE a.flag /\ a.bad
    <3>1. g = Spoil(filled, got, {"commandId"})
      BY <2>2
    <3> HIDE DEF g
    <3> QED BY <1>5, <2>2, <3>1, SpoilKeeps, n + 1 \in Nat
  <2>3. CASE a.flag /\ ~a.bad
    BY <1>5, <2>3
  <2> QED BY <2>1, <2>2, <2>3
<1> HIDE DEF g
<1>7. Complete(a) => \A f \in CarriedFields(a) : Says(g[f], a, 0)
  <2> SUFFICES ASSUME Complete(a), a.flag, NEW f \in NextFields
               PROVE  Says(g[f], a, 0)
    BY <1>3
  <2>1. \A j \in 1 .. Len(steps) : ~Lacks(a, 0, steps[j])
    BY <1>2 DEF Complete, Lacks
  <2>2. f \in got
    BY <1>2, <2>1, AllSteps DEF got
  <2> QED BY <1>5, <1>6, <2>2 DEF Complete
<1>8. ASSUME Says(g["nextavailable"], a, 0), a.flag, NEW f \in NextFields \ {"commandId"}
      PROVE  Says(g[f], a, 0)
  <2>1. "nextavailable" \in NextFields \ {"data", "commandId"}
    BY DEF NextFields
  <2>2. "nextavailable" \in got
    <3> SUFFICES ASSUME "nextavailable" \notin got PROVE FALSE
      OBVIOUS
    <3>1. g["nextavailable"] = r.fields["nextavailable"]
      BY <1>5, <1>6, <1>8, <2>1
    <3> QED BY <1>4, <1>8, <2>1, <3>1, OldSaysNothing DEF Answering
  <2>3. \A j \in 1 .. Len(steps) : steps[j] \in got
    BY <1>2, <2>2, LastStep DEF got
  <2>4. f \in got
    BY <1>2, <2>3
  <2> QED BY <1>5, <1>6, <1>8, <2>4
<1>9. Says(g[LastOf(fn)], a, 0) =>
        \A f \in CarriedFields(a) \ {"commandId"} : Says(g[f], a, 0)
  BY <1>3, <1>8 DEF LastOf
<1>10. Kept(g, FieldsOf(fn), Pointing(fn), t, n + 1) /\ a.flag \in BOOLEAN
  BY <1>6, Names DEF Answering
<1> QED BY <1>1, <1>7, <1>9, <1>10, FieldsServe DEF s

\* _anedya_op_ota_next_parser: the flag is that of the answer unless it lacks it.
LEMMA DeploymentServes ==
  ASSUME NEW t, NEW n \in Nat, NEW r, Shaped(r, "ota_next", t, n),
         NEW a, Answering(a, "ota_next", n)
  PROVE  LET s == _anedya_op_ota_next_parser(r, a, t) IN
         /\ Serves(r, s, a, "ota_next", t, n)
         /\ s.flag = IF Lacks(a, 0, "deploymentAvailable") THEN r.flag ELSE a.flag
<1> DEFINE fn == "ota_next"
           s == _anedya_op_ota_next_parser(r, a, t)
           steps == IF a.type = "signed"
                      THEN <<"data", "deploymentId", "assetId", "assetIdentifier", "assetVersion",
                             "assetSigned", "assetSignature", "assetMeta", "assetChecksum",
                             "assetSize", "asseturl">>
                      ELSE <<"data", "deploymentId", "assetId", "assetIdentifier", "assetVersion",
                             "assetSigned", "assetMeta", "assetChecksum", "assetSize", "asseturl">>
           ids == {"deploymentId", "assetId"}
           got == Before(steps, a, 0)
           all == \A j \in 1 .. Len(steps) : ~Lacks(a, 0, steps[j])
           taken == IF all /\ ~a.bad THEN got ELSE got \ ids
           filled == Fill(r.fields, taken, {}, a, t, 0)
           g == IF ~a.flag THEN r.fields
                ELSE IF all /\ a.bad THEN Spoil(filled, got, {"deploymentId"}) ELSE filled
<1>1. CASE Lacks(a, 0, "deploymentAvailable")
  <2>1. s = r
    BY <1>1 DEF _anedya_op_ota_next_parser
  <2> HIDE DEF s
  <2>2. ~Complete(a)
    BY <1>1 DEF Complete, Lacks
  <2> QED BY <1>1, <2>1, <2>2, UntouchedVouches DEF Serves, ApiFunctions, s
<1>2. CASE ~Lacks(a, 0, "deploymentAvailable")
  <2>1. s = [r EXCEPT !.flag = a.flag, !.fields = g]
    <3>1. CASE ~a.flag
      BY <1>2, <3>1 DEF _anedya_op_ota_next_parser, Shaped, Answering
    <3>2. CASE a.flag
      BY <1>2, <3>2 DEF _anedya_op_ota_next_parser, Shaped, Answering
    <3> QED BY <3>1, <3>2 DEF Answering
  <2>2. /\ Len(steps) \in Nat
        /\ \A j \in 1 .. Len(steps) : steps[j] # "none"
        /\ \A f \in AssetFields \ Signed(a) : \E j \in 1 .. Len(steps) : steps[j] = f
    <3>1. CASE a.type = "signed"
      BY <3>1 DEF AssetFields, Signed
    <3>2. CASE a.type # "signed"
      BY <3>2 DEF AssetFields, Signed
    <3> QED BY <3>1, <3>2
  <2>3. CarriedFields(a) = IF a.flag THEN AssetFields \ Signed(a) ELSE {}
    BY DEF CarriedFields, Answering
  <2>4. Kept(r.fields, AssetFields, {}, t, n)
    BY Names DEF Shaped
  <2> HIDE DEF steps, got, s
  <2>5. all => \A f \in AssetFields \ Signed(a) : f \in got
    BY <2>2, AllSteps DEF got
  <2> HIDE DEF filled, taken, all
  <2>6. /\ Kept(filled, AssetFields, {}, t, n + 1)
        /\ \A f \in AssetFields : IF f \in taken THEN Says(filled[f], a, 0)
                                  ELSE filled[f] = r.fields[f]
    BY <2>4, FillKeeps, 0 \in Nat DEF Answering, filled
  <2>7. /\ Kept(g, AssetFields, {}, t, n + 1)
        /\ a.flag => \A f \in AssetFields : g[f] = IF all /\ a.bad /\ f \in got \cap {"deploymentId"}
                                                   THEN Garbage ELSE filled[f]
    <3>1. CASE ~a.flag
      BY <2>4, <3>1, KeptLonger, n + 1 \in Nat, n <= n + 1
    <3>2. CASE a.flag /\ all /\ a.bad
      <4>1. g = Spoil(filled, got, {"deploymentId"})
        BY <3>2
      <4> HIDE DEF g
      <4> QED BY <2>6, <3>2, <4>1, SpoilKeeps, n + 1 \in Nat
    <3>3. CASE a.flag /\ ~(all /\ a.bad)
      BY <2>6, <3>3
    <3> QED BY <3>1, <3>2, <3>3
  <2> HIDE DEF g
  <2>8. ASSUME all, ~a.bad, a.flag, NEW f \in AssetFields \ Signed(a)
        PROVE  Says(g[f], a, 0)
    <3>1. f \in taken
      BY <2>5, <2>8 DEF taken
    <3> QED BY <2>6, <2>7, <2>8, <3>1
  <2>9. Complete(a) => \A f \in CarriedFields(a) : Says(g[f], a, 0)
    <3>1. Complete(a) => all
      BY <2>2 DEF Complete, Lacks, all
    <3> QED BY <2>3, <2>8, <3>1 DEF Complete
  <2>10. ASSUME Says(g["assetId"], a, 0), a.flag
         PROVE  all /\ ~a.bad
    <3> SUFFICES ASSUME ~(all /\ ~a.bad) PROVE FALSE
      OBVIOUS
    <3>1. "assetId" \in AssetFields \ {} /\ "assetId" \notin taken
      BY DEF AssetFields, taken
    <3>2. g["assetId"] = r.fields["assetId"]
      BY <2>6, <2>7, <2>10, <3>1
    <3> QED BY <2>4, <2>10, <3>1, <3>2, OldSaysNothing DEF Answering
  <2>11. Says(g[LastOf(fn)], a, 0) => \A f \in CarriedFields(a) \ {} : Says(g[f], a, 0)
    BY <2>3, <2>8, <2>10 DEF LastOf
  <2>12. Kept(g, FieldsOf(fn), Pointing(fn), t, n + 1) /\ a.flag \in BOOLEAN
    BY <2>7, Names DEF Answering
  <2>13. Serves(r, s, a, fn, t, n)
    BY <2>1, <2>9, <2>11, <2>12, FieldsServe
  <2>14. s.flag = a.flag
    BY <2>1 DEF Shaped
  <2> QED BY <1>2, <2>13, <2>14 DEF s
<1> QED BY <1>1, <1>2

\* A structure with a list, by its parts.
LEMMA ListServes ==
  ASSUME NEW fn \in Lists, NEW t, NEW n \in Nat,
         NEW r, Shaped(r, fn, t, n), NEW a, Answering(a, fn, n),
         NEW g, Kept(g, FieldsOf(fn), Pointing(fn), t, n + 1), NEW b \in BOOLEAN,
         NEW total \in Nat, NEW count \in Nat, count <= Len(r.list),
         NEW list, list = [k \in 1 .. Len(r.list) |-> list[k]],
         \A k \in 1 .. Len(r.list) : Kept(list[k], EntryOf(fn), Pointing(fn), t, n + 1),
         NEW s, s = [fields |-> g, flag |-> b, totalcount |-> total, count |-> count,
                     list |-> list],
         Complete(a) => /\ fn = "cmd_list" => b = (a.count > 0)
                        /\ fn \in Listing => count = a.count
                        /\ \A f \in CarriedFields(a) : Says(g[f], a, 0)
                        /\ \A k \in 1 .. Fitting(a, Len(r.list)) :
                             \A f \in CarriedByElement(a) : Says(list[k][f], a, k),
         \A k \in 1 .. Len(r.list) : Says(list[k][LastOfElement(fn)], a, k) =>
           \A f \in CarriedByElement(a) \ Unnoticed(a, k) : Says(list[k][f], a, k)
  PROVE  Serves(r, s, a, fn, t, n)
<1>1. /\ s.fields = g /\ s.flag = b /\ s.totalcount = total /\ s.count = count /\ s.list = list
      /\ a.fn = fn /\ fn \notin {"vs_get", "cmd_next", "ota_next"}
  BY Names DEF Answering
<1>2. Len(r.list) \in Nat
  BY DEF Shaped
<1>3. Len(list) = Len(r.list)
  BY <1>2, FunctionIsSequence
<1>4. Shaped(s, fn, t, n + 1)
  BY <1>1, <1>2, <1>3 DEF Shaped
<1>5. Complete(a) => Whole(s, a)
  BY <1>1, <1>3 DEF Whole
<1>6. Vouched(s, a)
  BY <1>1, <1>3 DEF Vouched
<1> QED BY <1>1, <1>3, <1>4, <1>5, <1>6 DEF Serves

\* _anedya_op_valuestore_handle_list_obj_resp
LEMMA KeysServe ==
  ASSUME NEW t, NEW n \in Nat, NEW r, Shaped(r, "vs_list", t, n),
         NEW a, Answering(a, "vs_list", n), a.count <= Len(r.list)
  PROVE  Serves(r, _anedya_op_valuestore_handle_list_obj_resp(r, a, t), a, "vs_list", t, n)
<1> DEFINE fn == "vs_list"
           s == _anedya_op_valuestore_handle_list_obj_resp(r, a, t)
           outer == <<"count", "next", "keys">>
           got == Before(outer, a, 0)
           steps == <<"namespace", "scope", "key", "type", "modified">>
           Taken(k) == Before(steps, a, k)
           Written(k) == IF "scope" \in Taken(k) THEN Taken(k) \cup {"id"} ELSE Taken(k)
           Filled(k) == Fill(r.list[k], Written(k), {"scope"}, a, t, k)
           Key(k) == IF "scope" \in Taken(k) /\ (a.scope = "self" \/ Lacks(a, k, "id"))
                       THEN [Filled(k) EXCEPT !.id = <<"empty", a.op, k>>] ELSE Filled(k)
           GivesUp(k) == \E j \in 1 .. Len(steps) : Lacks(a, k, steps[j])
           len == Len(r.list)
           count == IF "count" \in got THEN a.count ELSE r.count
           total == IF "count" \in got THEN a.count ELSE r.totalcount
           turns == Turns(a, count)
           list == IF "keys" \in got
                     THEN [k \in 1 .. len |->
                             IF k > turns \/ \E j \in 1 .. k - 1 : GivesUp(j) THEN r.list[k]
                             ELSE Key(k)]
                     ELSE r.list
           g == Fill(r.fields, got, {}, a, t, 0)
<1>1. /\ len \in Nat /\ count \in Nat /\ count <= len /\ total \in Nat
      /\ turns \in Nat /\ turns <= len
  BY Names DEF Shaped, Answering, Turns
<1>2. s = [fields |-> g, flag |-> r.flag, totalcount |-> total, count |-> count, list |-> list]
  <2>1. r = [fields |-> r.fields, flag |-> r.flag, totalcount |-> r.totalcount,
             count |-> r.count, list |-> r.list]
    BY DEF Shaped
  <2> DEFINE Old(k) == IF k <= Len(r.list) THEN r.list[k] ELSE Blank(KeyFields)
             KeyOf(k) == IF "scope" \in Taken(k) /\ (a.scope = "self" \/ Lacks(a, k, "id"))
                           THEN [Fill(Old(k), Written(k), {"scope"}, a, t, k)
                                   EXCEPT !.id = <<"empty", a.op, k>>]
                           ELSE Fill(Old(k), Written(k), {"scope"}, a, t, k)
             all == [k \in 1 .. IF turns > Len(r.list) THEN turns ELSE Len(r.list) |->
                       IF k > turns \/ \E j \in 1 .. k - 1 : GivesUp(j) THEN Old(k)
                       ELSE KeyOf(k)]
  <2>2. s = [r EXCEPT !.totalcount = total, !.count = count, !.fields = g,
                      !.list = IF "keys" \in got THEN all ELSE r.list]
    BY DEF _anedya_op_valuestore_handle_list_obj_resp, Elements
  <2>3. \A k \in 1 .. len : Old(k) = r.list[k]
    BY <1>1
  <2> HIDE DEF s, total, count, g, got, turns, Taken, Written, GivesUp, Old
  <2>4. all = [k \in 1 .. len |->
                 IF k > turns \/ \E j \in 1 .. k - 1 : GivesUp(j) THEN r.list[k] ELSE Key(k)]
    BY <1>1, <2>3
  <2> HIDE DEF all
  <2>5. list = IF "keys" \in got THEN all ELSE r.list
    BY <2>4
  <2> HIDE DEF list
  <2> QED BY <2>1, <2>2, <2>5
<1>3. /\ Len(steps) \in Nat \ {0} /\ steps[Len(steps)] = "modified"
      /\ \A j \in 1 .. Len(steps) : steps[j] = "modified" => j = Len(steps)
      /\ \A j \in 1 .. Len(steps) : steps[j] # "none"
      /\ \A f \in KeyFields \ {"id"} : \E j \in 1 .. Len(steps) : steps[j] = f
  BY DEF KeyFields
<1>4. /\ Len(outer) \in Nat
      /\ \A j \in 1 .. Len(outer) : outer[j] # "none"
      /\ \A f \in {"count", "next", "keys"} : \E j \in 1 .. Len(outer) : outer[j] = f
  OBVIOUS
<1> HIDE DEF outer, steps, s
<1>5. ASSUME NEW k \in 1 .. len
      PROVE  /\ Kept(r.list[k], KeyFields, {"scope"}, t, n)
             /\ Kept(r.list[k], KeyFields, {"scope"}, t, n + 1)
  <2>1. Kept(r.list[k], KeyFields, {"scope"}, t, n)
    <3>1. Kept(r.list[k], EntryOf("vs_list"), Pointing("vs_list"), t, n)
      BY ElementsKept
    <3> QED BY <3>1, Names, Zenon
  <2> QED BY <2>1, KeptLonger, n + 1 \in Nat, n <= n + 1
<1>6. ASSUME NEW k \in 1 .. len
      PROVE  /\ Kept(Key(k), KeyFields, {"scope"}, t, n + 1)
             /\ Says(Key(k)["modified"], a, k) => \A j \in 1 .. Len(steps) : ~Lacks(a, k, steps[j])
             /\ (\A j \in 1 .. Len(steps) : ~Lacks(a, k, steps[j])) =>
                  \A f \in KeyFields : Says(Key(k)[f], a, k)
  <2> DEFINE taken == Taken(k)
             written == Written(k)
             filled == Filled(k)
             key == Key(k)
  <2>1. k \in Nat /\ {"scope"} \subseteq {"scope"} /\ a.op = n + 1 /\ n + 1 \in Nat
    BY <1>1 DEF Answering
  <2>2. written = IF "scope" \in taken THEN taken \cup {"id"} ELSE taken
    OBVIOUS
  <2>3. key = IF "scope" \in taken /\ (a.scope = "self" \/ Lacks(a, k, "id"))
                THEN [filled EXCEPT !.id = <<"empty", a.op, k>>] ELSE filled
    OBVIOUS
  <2>4. filled = Fill(r.list[k], written, {"scope"}, a, t, k)
    OBVIOUS
  <2>5. taken = Before(steps, a, k)
    OBVIOUS
  <2> HIDE DEF taken, written, filled, key
  <2>6. /\ Kept(filled, KeyFields, {"scope"}, t, n + 1)
        /\ \A f \in KeyFields : IF f \in written THEN Says(filled[f], a, k)
                                ELSE filled[f] = r.list[k][f]
    BY <1>5, <2>1, <2>4, FillKeeps
  <2>7. "id" \in KeyFields /\ "modified" \in KeyFields \ {"scope"} /\ "scope" \in KeyFields \ {"id"}
    BY DEF KeyFields
  <2>8. filled = [f \in KeyFields |-> filled[f]]
    BY <2>6 DEF Kept
  <2>9. key = filled \/ ("scope" \in taken /\ key = [f \in KeyFields |-> IF f = "id" THEN <<"empty", a.op, k>> ELSE filled[f]])
    BY <2>3, <2>8
  <2>10. <<"empty", a.op, k>> \in Copies(n + 1) /\ Says(<<"empty", a.op, k>>, a, k)
    BY <2>1 DEF Copies, Says
  <2>11. Kept(key, KeyFields, {"scope"}, t, n + 1)
    <3>1. CASE key = filled
      BY <2>6, <3>1
    <3>2. CASE key = [f \in KeyFields |-> IF f = "id" THEN <<"empty", a.op, k>> ELSE filled[f]]
      BY <2>6, <2>10, <3>2 DEF Kept
    <3> QED BY <2>9, <3>1, <3>2
  <2>12. \A f \in KeyFields : key[f] = filled[f] \/ (f = "id" /\ Says(key[f], a, k))
    BY <2>9, <2>10
  <2>13. ASSUME Says(key["modified"], a, k)
         PROVE  \A j \in 1 .. Len(steps) : ~Lacks(a, k, steps[j])
    <3>1. "modified" \in taken
      <4> SUFFICES ASSUME "modified" \notin taken PROVE FALSE
        OBVIOUS
      <4>1. key["modified"] = r.list[k]["modified"]
        BY <2>2, <2>6, <2>7, <2>12
      <4> QED BY <1>5, <2>1, <2>7, <2>13, <4>1, OldSaysNothing
    <3> QED BY <1>3, <2>5, <3>1, LastStep
  <2>14. ASSUME \A j \in 1 .. Len(steps) : ~Lacks(a, k, steps[j])
         PROVE  \A f \in KeyFields : Says(key[f], a, k)
    <3>1. \A j \in 1 .. Len(steps) : steps[j] \in taken
      BY <1>3, <2>5, <2>14, AllSteps
    <3>2. \A f \in KeyFields \ {"id"} : f \in taken
      BY <1>3, <3>1
    <3>3. \A f \in KeyFields : f \in written
      BY <2>2, <2>7, <3>2
    <3> QED BY <2>6, <2>12, <3>3
  <2> QED BY <2>11, <2>13, <2>14 DEF key
<1> HIDE DEF Key, turns, got, count, total
<1>7. \A k \in 1 .. len : list[k] = r.list[k] \/ list[k] = Key(k)
  OBVIOUS
<1>8. \A k \in 1 .. len : Kept(list[k], EntryOf(fn), Pointing(fn), t, n + 1)
  BY ZenonT(90), <1>5, <1>6, <1>7, Names
<1>9. list = [k \in 1 .. len |-> list[k]]
  BY DEF Shaped
<1>10. CarriedFields(a) = {"next"} /\ CarriedByElement(a) = KeyFields
  BY DEF CarriedFields, CarriedByElement, Answering
<1>11. /\ Kept(g, FieldsOf(fn), Pointing(fn), t, n + 1)
       /\ \A f \in {"next"} : IF f \in got THEN Says(g[f], a, 0) ELSE g[f] = r.fields[f]
  <2>1. Kept(r.fields, {"next"}, {"scope"}, t, n)
    BY Names DEF Shaped
  <2>2. g = Fill(r.fields, got, {}, a, t, 0) /\ {} \subseteq {"scope"}
    OBVIOUS
  <2> HIDE DEF g
  <2>3. /\ Kept(g, {"next"}, {"scope"}, t, n + 1)
        /\ \A f \in {"next"} : IF f \in got THEN Says(g[f], a, 0) ELSE g[f] = r.fields[f]
    BY <2>1, <2>2, FillKeeps, 0 \in Nat DEF Answering
  <2> QED BY <2>3, Names
<1>12. \A k \in 1 .. len : Says(list[k][LastOfElement(fn)], a, k) =>
         \A f \in CarriedByElement(a) : Says(list[k][f], a, k)
  <2> SUFFICES ASSUME NEW k \in 1 .. len, Says(list[k]["modified"], a, k)
               PROVE  \A f \in KeyFields : Says(list[k][f], a, k)
    BY <1>10 DEF LastOfElement
  <2>1. list[k] # r.list[k]
    <3>1. "modified" \in KeyFields \ {"scope"}
      BY DEF KeyFields
    <3> QED BY <1>5, <3>1, OldSaysNothing DEF Answering
  <2>2. list[k] = Key(k)
    BY <1>7, <2>1
  <2> QED BY <1>6, <2>2
<1>13. ASSUME Complete(a)
       PROVE  /\ count = a.count
              /\ Says(g["next"], a, 0)
              /\ \A k \in 1 .. Fitting(a, len) : \A f \in KeyFields : Says(list[k][f], a, k)
  <2>1. \A j \in 1 .. Len(outer) : ~Lacks(a, 0, outer[j])
    BY <1>4, <1>13 DEF Complete, Lacks
  <2>2. \A f \in {"count", "next", "keys"} : f \in got
    BY <1>4, <2>1, AllSteps DEF got
  <2>3. count = a.count
    BY <2>2 DEF count
  <2>4. \A k \in Nat : \A j \in 1 .. Len(steps) : ~Lacks(a, k, steps[j])
    BY <1>3, <1>13 DEF Complete, Lacks
  <2>5. ASSUME NEW k \in 1 .. Fitting(a, len)
        PROVE  \A f \in KeyFields : Says(list[k][f], a, k)
    <3>1. /\ Fitting(a, len) \in Nat /\ Fitting(a, len) <= len
          /\ Fitting(a, len) <= a.n /\ Fitting(a, len) <= a.count
      BY <1>1, FittingIs DEF Answering
    <3>2. k \in 1 .. len /\ k <= turns
      BY <1>1, <2>3, <3>1 DEF turns, Turns, Answering
    <3>3. \A j \in 1 .. k - 1 : ~GivesUp(j)
      BY <2>4, <3>2
    <3>4. list[k] = Key(k)
      BY <1>1, <2>2, <3>2, <3>3
    <3> QED BY <1>6, <2>4, <3>2, <3>4
  <2> QED BY <2>2, <2>3, <2>5, <1>11
<1>14. r.flag \in BOOLEAN /\ fn \in Lists
  BY Names DEF Shaped
<1> HIDE DEF g, list
<1>15. Complete(a) => /\ fn = "cmd_list" => r.flag = (a.count > 0)
                      /\ fn \in Listing => count = a.count
                      /\ \A f \in CarriedFields(a) : Says(g[f], a, 0)
                      /\ \A k \in 1 .. Fitting(a, len) :
                           \A f \in CarriedByElement(a) : Says(list[k][f], a, k)
  BY <1>10, <1>13
<1>16. Serves(r, s, a, fn, t, n)
  BY <1>1, <1>2, <1>8, <1>9, <1>11, <1>12, <1>14, <1>15, ListServes
<1> QED BY <1>16 DEF s

\* _anedya_op_command_handle_list_resp
LEMMA CommandsServe ==
  ASSUME NEW t, NEW n \in Nat, NEW r, Shaped(r, "cmd_list", t, n),
         NEW a, Answering(a, "cmd_list", n), a.count <= Len(r.list)
  PROVE  Serves(r, _anedya_op_command_handle_list_resp(r, a, t), a, "cmd_list", t, n)
<1> DEFINE fn == "cmd_list"
           s == _anedya_op_command_handle_list_resp(r, a, t)
           outer == <<"count", "next", "commands">>
           got == Before(outer, a, 0)
           steps == <<"commandId", "command", "status", "issuedAt", "updated">>
           Taken(k) == Before(steps, a, k)
           Command(k) == IF a.bad THEN Spoil(r.list[k], Taken(k), {"commandId"})
                         ELSE Fill(r.list[k], Taken(k), {}, a, t, k)
           GivesUp(k) == a.bad \/ \E j \in 1 .. Len(steps) : Lacks(a, k, steps[j])
           len == Len(r.list)
           writes == "count" \in got /\ a.count # 0
           count == IF "count" \in got THEN a.count ELSE r.count
           total == IF Lacks(a, 0, "totalcount") THEN r.totalcount ELSE a.count
           flag == IF "count" \in got THEN a.count # 0 ELSE r.flag
           turns == Turns(a, a.count)
           list == IF writes /\ "commands" \in got
                     THEN [k \in 1 .. len |->
                             IF k > turns \/ \E j \in 1 .. k - 1 : GivesUp(j) THEN r.list[k]
                             ELSE Command(k)]
                     ELSE r.list
           g == IF writes THEN Fill(r.fields, got, {}, a, t, 0) ELSE r.fields
<1>1. /\ len \in Nat /\ count \in Nat /\ count <= len /\ total \in Nat /\ flag \in BOOLEAN
      /\ turns \in Nat /\ turns <= len
  <2>1. /\ len \in Nat /\ r.count \in Nat /\ r.count <= len /\ r.totalcount \in Nat
        /\ a.count \in Nat /\ a.n \in Nat
    BY Names DEF Shaped, Answering
  <2>2. r.flag \in BOOLEAN /\ (a.count # 0) \in BOOLEAN
    BY DEF Shaped
  <2> HIDE DEF got
  <2>3. flag \in BOOLEAN
    <3>1. CASE "count" \in got
      BY <3>1
    <3>2. CASE "count" \notin got
      BY <2>2, <3>2
    <3> QED BY <3>1, <3>2
  <2>4. count \in Nat /\ count <= len /\ total \in Nat
    BY <2>1
  <2>5. turns \in Nat /\ turns <= len
    BY <2>1 DEF Turns
  <2> QED BY <2>1, <2>3, <2>4, <2>5
<1>2. s = [fields |-> g, flag |-> flag, totalcount |-> total, count |-> count, list |-> list]
  <2>1. r = [fields |-> r.fields, flag |-> r.flag, totalcount |-> r.totalcount,
             count |-> r.count, list |-> r.list]
    BY DEF Shaped
  <2> DEFINE Old(k) == IF k <= Len(r.list) THEN r.list[k] ELSE Blank(CommandFields)
             CommandOf(k) == IF a.bad THEN Spoil(Old(k), Taken(k), {"commandId"})
                             ELSE Fill(Old(k), Taken(k), {}, a, t, k)
             all == [k \in 1 .. IF turns > Len(r.list) THEN turns ELSE Len(r.list) |->
                       IF k > turns \/ \E j \in 1 .. k - 1 : GivesUp(j) THEN Old(k)
                       ELSE CommandOf(k)]
             read == [r EXCEPT !.totalcount = IF Lacks(a, 0, "totalcount") THEN r.totalcount
                                              ELSE a.count]
             filled == Fill(r.fields, got, {}, a, t, 0)
             elements == IF "commands" \in got THEN all ELSE r.list
  <2>2. s = IF "count" \notin got THEN read
            ELSE IF a.count = 0 THEN [read EXCEPT !.count = 0, !.flag = FALSE]
            ELSE [read EXCEPT !.count = a.count, !.flag = TRUE,
                              !.fields = Fill(read.fields, got, {}, a, t, 0),
                              !.list = IF "commands" \in got
                                         THEN [k \in 1 .. IF turns > Len(read.list) THEN turns
                                                           ELSE Len(read.list) |->
                                                 LET old == IF k <= Len(read.list) THEN read.list[k]
                                                            ELSE Blank(CommandFields)
                                                 IN  IF k > turns \/ \E j \in 1 .. k - 1 : GivesUp(j)
                                                       THEN old
                                                     ELSE IF a.bad
                                                       THEN Spoil(old, Taken(k), {"commandId"})
                                                     ELSE Fill(old, Taken(k), {}, a, t, k)]
                                         ELSE read.list]
    BY DEF _anedya_op_command_handle_list_resp, Elements
  <2>3. \A k \in 1 .. len : Old(k) = r.list[k]
    BY <1>1
  <2> HIDE DEF s, count, got, turns, Taken, GivesUp
  <2>4. all = [k \in 1 .. len |->
                 IF k > turns \/ \E j \in 1 .. k - 1 : GivesUp(j) THEN r.list[k] ELSE Command(k)]
    <3> HIDE DEF Old
    <3> QED BY <1>1, <2>3
  <2>5. read = [fields |-> r.fields, flag |-> r.flag, totalcount |-> total,
                count |-> r.count, list |-> r.list]
    BY <2>1
  <2> HIDE DEF total
  <2>6. read.fields = r.fields /\ read.list = r.list
    BY <2>5
  <2>7. writes => s = [read EXCEPT !.count = a.count, !.flag = TRUE, !.fields = filled,
                                   !.list = elements]
    BY <2>2, <2>6
  <2>8. ~writes => list = r.list /\ g = r.fields
    OBVIOUS
  <2>9. writes => list = elements /\ g = filled
    BY <2>4
  <2> HIDE DEF read, list, g, filled, elements, all
  <2>10. CASE "count" \notin got
    BY <2>2, <2>5, <2>8, <2>10 DEF count
  <2>11. CASE "count" \in got /\ a.count = 0
    BY <2>2, <2>5, <2>8, <2>11 DEF count
  <2>12. CASE writes
    BY <2>5, <2>7, <2>9, <2>12 DEF count
  <2> QED BY <2>10, <2>11, <2>12
<1>3. /\ Len(steps) \in Nat \ {0} /\ steps[Len(steps)] = "updated"
      /\ \A j \in 1 .. Len(steps) : steps[j] = "updated" => j = Len(steps)
      /\ \A j \in 1 .. Len(steps) : steps[j] # "none"
      /\ \A f \in CommandFields : \E j \in 1 .. Len(steps) : steps[j] = f
  BY DEF CommandFields
<1>4. /\ Len(outer) \in Nat
      /\ \A j \in 1 .. Len(outer) : outer[j] # "none"
      /\ \A f \in {"count", "next", "commands"} : \E j \in 1 .. Len(outer) : outer[j] = f
  OBVIOUS
<1> HIDE DEF outer, steps, s
<1>5. ASSUME NEW k \in 1 .. len
      PROVE  /\ Kept(r.list[k], CommandFields, {}, t, n)
             /\ Kept(r.list[k], CommandFields, {}, t, n + 1)
  <2>1. Kept(r.list[k], CommandFields, {}, t, n)
    <3>1. Kept(r.list[k], EntryOf("cmd_list"), Pointing("cmd_list"), t, n)
      BY ElementsKept
    <3> QED BY <3>1, Names, Zenon
  <2> QED BY <2>1, KeptLonger, n + 1 \in Nat, n <= n + 1
<1>6. ASSUME NEW k \in 1 .. len
      PROVE  /\ Kept(Command(k), CommandFields, {}, t, n + 1)
             /\ Says(Command(k)["updated"], a, k) =>
                  ~a.bad /\ \A j \in 1 .. Len(steps) : ~Lacks(a, k, steps[j])
             /\ ~a.bad /\ (\A j \in 1 .. Len(steps) : ~Lacks(a, k, steps[j])) =>
                  \A f \in CommandFields : Says(Command(k)[f], a, k)
  <2> DEFINE taken == Taken(k)
             command == Command(k)
  <2>1. k \in Nat /\ {} \subseteq {} /\ a.op = n + 1 /\ n + 1 \in Nat
    BY <1>1 DEF Answering
  <2>2. command = IF a.bad THEN Spoil(r.list[k], taken, {"commandId"})
                  ELSE Fill(r.list[k], taken, {}, a, t, k)
    OBVIOUS
  <2>3. taken = Before(steps, a, k)
    OBVIOUS
  <2> HIDE DEF taken, command
  <2>4. "updated" \in CommandFields \ {} /\ "updated" # "commandId"
    BY DEF CommandFields
  <2>5. CASE a.bad
    <3>1. command = Spoil(r.list[k], taken, {"commandId"})
      BY <2>2, <2>5
    <3>2. /\ Kept(command, CommandFields, {}, t, n + 1)
          /\ \A f \in CommandFields : command[f] = IF f \in taken \cap {"commandId"}
                                                   THEN Garbage ELSE r.list[k][f]
      BY <1>5, <2>1, <3>1, SpoilKeeps
    <3>3. command["updated"] = r.list[k]["updated"]
      BY <2>4, <3>2
    <3>4. ~Says(command["updated"], a, k)
      BY <1>5, <2>1, <2>4, <3>3, OldSaysNothing
    <3> QED BY <2>5, <3>2, <3>4 DEF command
  <2>6. CASE ~a.bad
    <3>1. command = Fill(r.list[k], taken, {}, a, t, k)
      BY <2>2, <2>6
    <3>2. /\ Kept(command, CommandFields, {}, t, n + 1)
          /\ \A f \in CommandFields : IF f \in taken THEN Says(command[f], a, k)
                                      ELSE command[f] = r.list[k][f]
      BY <1>5, <2>1, <3>1, FillKeeps
    <3>3. ASSUME Says(command["updated"], a, k)
          PROVE  \A j \in 1 .. Len(steps) : ~Lacks(a, k, steps[j])
      <4>1. "updated" \in taken
        <5> SUFFICES ASSUME "updated" \notin taken PROVE FALSE
          OBVIOUS
        <5>1. command["updated"] = r.list[k]["updated"]
          BY <2>4, <3>2
        <5> QED BY <1>5, <2>1, <2>4, <3>3, <5>1, OldSaysNothing
      <4> QED BY <1>3, <2>3, <4>1, LastStep
    <3>4. ASSUME \A j \in 1 .. Len(steps) : ~Lacks(a, k, steps[j])
          PROVE  \A f \in CommandFields : Says(command[f], a, k)
      <4>1. \A j \in 1 .. Len(steps) : steps[j] \in taken
        BY <1>3, <2>3, <3>4, AllSteps
      <4>2. \A f \in CommandFields : f \in taken
        BY <1>3, <4>1
      <4> QED BY <3>2, <4>2
    <3> QED BY <2>6, <3>2, <3>3, <3>4 DEF command
  <2> QED BY <2>5, <2>6
<1> HIDE DEF Command, turns, got, count, total, flag
<1>7. \A k \in 1 .. len : list[k] = r.list[k] \/ list[k] = Command(k)
  OBVIOUS
<1>8. \A k \in 1 .. len : Kept(list[k], EntryOf(fn), Pointing(fn), t, n + 1)
  BY ZenonT(90), <1>5, <1>6, <1>7, Names
<1>9. list = [k \in 1 .. len |-> list[k]]
  BY DEF Shaped
<1>10. /\ CarriedFields(a) = (IF a.count > 0 THEN {"next"} ELSE {})
       /\ CarriedByElement(a) = CommandFields
  BY DEF CarriedFields, CarriedByElement, Answering
<1>11. /\ Kept(g, FieldsOf(fn), Pointing(fn), t, n + 1)
       /\ writes /\ "next" \in got => Says(g["next"], a, 0)
  <2>1. Kept(r.fields, {"next"}, {}, t, n)
    BY Names DEF Shaped
  <2>2. CASE writes
    <3>1. g = Fill(r.fields, got, {}, a, t, 0) /\ {} \subseteq {}
      BY <2>2
    <3> HIDE DEF g
    <3>2. /\ Kept(g, {"next"}, {}, t, n + 1)
          /\ \A f \in {"next"} : IF f \in got THEN Says(g[f], a, 0) ELSE g[f] = r.fields[f]
      BY <2>1, <3>1, FillKeeps, 0 \in Nat DEF Answering
    <3> QED BY <3>2, Names
  <2>3. CASE ~writes
    <3>1. Kept(r.fields, {"next"}, {}, t, n + 1)
      BY <2>1, KeptLonger, n + 1 \in Nat, n <= n + 1
    <3>2. g = r.fields
      BY <2>3
    <3> HIDE DEF g
    <3> QED BY <2>3, <3>1, <3>2, Names
  <2> QED BY <2>2, <2>3
<1>12. \A k \in 1 .. len : Says(list[k][LastOfElement(fn)], a, k) =>
         \A f \in CarriedByElement(a) : Says(list[k][f], a, k)
  <2> SUFFICES ASSUME NEW k \in 1 .. len, Says(list[k]["updated"], a, k)
               PROVE  \A f \in CommandFields : Says(list[k][f], a, k)
    BY <1>10 DEF LastOfElement
  <2>1. list[k] # r.list[k]
    <3>1. "updated" \in CommandFields \ {}
      BY DEF CommandFields
    <3> QED BY <1>5, <3>1, OldSaysNothing DEF Answering
  <2>2. list[k] = Command(k)
    BY <1>7, <2>1
  <2> QED BY <1>6, <2>2
<1>13. ASSUME Complete(a)
       PROVE  /\ count = a.count /\ flag = (a.count > 0)
              /\ a.count > 0 => Says(g["next"], a, 0)
              /\ \A k \in 1 .. Fitting(a, len) : \A f \in CommandFields : Says(list[k][f], a, k)
  <2>1. \A j \in 1 .. Len(outer) : ~Lacks(a, 0, outer[j])
    BY <1>4, <1>13 DEF Complete, Lacks
  <2>2. \A f \in {"count", "next", "commands"} : f \in got
    BY <1>4, <2>1, AllSteps DEF got
  <2>3. count = a.count /\ flag = (a.count > 0)
    BY <2>2 DEF count, flag, Answering
  <2>4. \A k \in Nat : \A j \in 1 .. Len(steps) : ~Lacks(a, k, steps[j])
    BY <1>3, <1>13 DEF Complete, Lacks
  <2>5. ASSUME NEW k \in 1 .. Fitting(a, len)
        PROVE  \A f \in CommandFields : Says(list[k][f], a, k)
    <3>1. /\ Fitting(a, len) \in Nat /\ Fitting(a, len) <= len
          /\ Fitting(a, len) <= a.n /\ Fitting(a, len) <= a.count
      BY <1>1, FittingIs DEF Answering
    <3>2. k \in 1 .. len /\ k <= turns /\ a.count # 0
      BY <1>1, <3>1 DEF turns, Turns, Answering
    <3>3. \A j \in 1 .. k - 1 : ~GivesUp(j)
      BY <1>13, <2>4, <3>2 DEF Complete
    <3>4. list[k] = Command(k)
      BY <1>1, <2>2, <3>2, <3>3
    <3> QED BY <1>6, <1>13, <2>4, <3>2, <3>4 DEF Complete
  <2>6. a.count > 0 => Says(g["next"], a, 0)
    BY <1>11, <2>2 DEF Answering
  <2> QED BY <2>3, <2>5, <2>6
<1>14. fn \in Lists
  BY Names
<1> HIDE DEF g, list
<1>15. Complete(a) => /\ fn = "cmd_list" => flag = (a.count > 0)
                      /\ fn \in Listing => count = a.count
                      /\ \A f \in CarriedFields(a) : Says(g[f], a, 0)
                      /\ \A k \in 1 .. Fitting(a, len) :
                           \A f \in CarriedByElement(a) : Says(list[k][f], a, k)
  BY <1>10, <1>13
<1>16. Serves(r, s, a, fn, t, n)
  BY <1>1, <1>2, <1>8, <1>9, <1>11, <1>12, <1>14, <1>15, ListServes
<1> QED BY <1>16 DEF s

\* _anedya_op_ongoing_ota_parser: count is the room when it is called.
LEMMA DeploymentsServe ==
  ASSUME NEW t, NEW n \in Nat, NEW r, Shaped(r, "ota_ongoing", t, n), r.count = Len(r.list),
         NEW a, Answering(a, "ota_ongoing", n)
  PROVE  Serves(r, _anedya_op_ongoing_ota_parser(r, a, t), a, "ota_ongoing", t, n)
<1> DEFINE fn == "ota_ongoing"
           s == _anedya_op_ongoing_ota_parser(r, a, t)
           names == AssetFields \cup {"status"}
           steps == <<"deploymentId", "assetId", "assetIdentifier", "assetVersion",
                      "assetSigned", "assetChecksum", "assetSize", "asseturl", "status">>
           Options(k) == {f \in {"assetSignature", "assetMeta"} :
                            ~Lacks(a, k, f) /\ (f = "assetSignature" => a.type = "signed")}
           Taken(k) == Before(steps, a, k)
           Written(k) == Taken(k) \cup IF "assetSigned" \in Taken(k) THEN Options(k) ELSE {}
           Deployment(k) == IF a.bad THEN Spoil(r.list[k], Taken(k), {"deploymentId"})
                            ELSE Fill(r.list[k], Written(k), {}, a, t, k)
           GivesUp(k) == a.bad \/ \E j \in 1 .. Len(steps) : Lacks(a, k, steps[j])
           len == Len(r.list)
           room == IF a.count < r.count THEN a.count ELSE r.count
           turns == Turns(a, room)
           writes == ~Lacks(a, 0, "count") /\ a.count # 0 /\ ~Lacks(a, 0, "data")
           count == IF Lacks(a, 0, "count") THEN r.count
                    ELSE IF a.count = 0 THEN 0
                    ELSE IF writes /\ a.count < r.count /\ a.n > a.count
                              /\ ~\E k \in 1 .. a.count : GivesUp(k)
                           THEN a.count ELSE r.count
           list == IF writes
                     THEN [k \in 1 .. len |->
                             IF k > turns \/ \E j \in 1 .. k - 1 : GivesUp(j) THEN r.list[k]
                             ELSE Deployment(k)]
                     ELSE r.list
<1>1. /\ len \in Nat /\ count \in Nat /\ count <= len
      /\ turns \in Nat /\ turns <= len /\ r.flag \in BOOLEAN /\ r.totalcount \in Nat
  BY Names DEF Shaped, Answering, Turns
<1>2. s = [fields |-> r.fields, flag |-> r.flag, totalcount |-> r.totalcount, count |-> count,
           list |-> list]
  <2>1. r = [fields |-> r.fields, flag |-> r.flag, totalcount |-> r.totalcount,
             count |-> r.count, list |-> r.list]
    BY DEF Shaped
  <2> DEFINE Old(k) == IF k <= Len(r.list) THEN r.list[k] ELSE Blank(AssetFields \cup {"status"})
             DeploymentOf(k) == IF a.bad THEN Spoil(Old(k), Taken(k), {"deploymentId"})
                                ELSE Fill(Old(k), Written(k), {}, a, t, k)
             all == [k \in 1 .. IF turns > Len(r.list) THEN turns ELSE Len(r.list) |->
                       IF k > turns \/ \E j \in 1 .. k - 1 : GivesUp(j) THEN Old(k)
                       ELSE DeploymentOf(k)]
  <2>2. writes => s = [r EXCEPT !.list = all,
                                !.count = IF a.count < r.count /\ a.n > a.count
                                             /\ ~\E k \in 1 .. a.count : GivesUp(k)
                                            THEN a.count ELSE r.count]
    BY DEF _anedya_op_ongoing_ota_parser, Elements
  <2>3. CASE Lacks(a, 0, "count")
    BY <2>1, <2>3 DEF _anedya_op_ongoing_ota_parser
  <2>4. CASE ~Lacks(a, 0, "count") /\ a.count = 0
    BY <2>1, <2>4 DEF _anedya_op_ongoing_ota_parser
  <2>5. CASE ~Lacks(a, 0, "count") /\ a.count # 0 /\ Lacks(a, 0, "data")
    BY <2>1, <2>5 DEF _anedya_op_ongoing_ota_parser
  <2>6. CASE writes
    <3>1. \A k \in 1 .. len : Old(k) = r.list[k]
      BY <1>1
    <3> HIDE DEF s, turns, Taken, Written, GivesUp, Old
    <3>2. all = [k \in 1 .. len |->
                   IF k > turns \/ \E j \in 1 .. k - 1 : GivesUp(j) THEN r.list[k]
                   ELSE Deployment(k)]
      BY <1>1, <3>1
    <3> HIDE DEF all
    <3>3. list = all
      BY <2>6, <3>2
    <3> HIDE DEF list
    <3>4. s = [r EXCEPT !.list = all, !.count = count]
      BY <2>2, <2>6
    <3> HIDE DEF count
    <3> QED BY <2>1, <3>3, <3>4
  <2> QED BY <2>3, <2>4, <2>5, <2>6
<1>3. /\ Len(steps) \in Nat \ {0} /\ steps[Len(steps)] = "status"
      /\ \A j \in 1 .. Len(steps) : steps[j] = "status" => j = Len(steps)
      /\ \A j \in 1 .. Len(steps) : steps[j] # "none"
      /\ \A f \in names \ {"assetSignature", "assetMeta"} :
           \E j \in 1 .. Len(steps) : steps[j] = f
  BY DEF AssetFields
<1>4. /\ "status" \in names \ {} /\ "status" # "deploymentId"
      /\ "assetSigned" \in names \ {"assetSignature", "assetMeta"}
      /\ \A k : /\ "status" \notin Options(k)
               /\ (names \ Signed(a)) \ Unnoticed(a, k)
                    \subseteq (names \ {"assetSignature", "assetMeta"}) \cup Options(k)
  BY DEF AssetFields, Signed, Unnoticed, Answering
<1> HIDE DEF steps, s, Options, names
<1>5. ASSUME NEW k \in 1 .. len
      PROVE  /\ Kept(r.list[k], names, {}, t, n)
             /\ Kept(r.list[k], names, {}, t, n + 1)
  <2>1. Kept(r.list[k], names, {}, t, n)
    <3>1. Kept(r.list[k], EntryOf("ota_ongoing"), Pointing("ota_ongoing"), t, n)
      BY ElementsKept
    <3> QED BY <3>1, Names, Zenon DEF names
  <2> QED BY <2>1, KeptLonger, n + 1 \in Nat, n <= n + 1
<1>6. ASSUME NEW k \in 1 .. len
      PROVE  /\ Kept(Deployment(k), names, {}, t, n + 1)
             /\ Says(Deployment(k)["status"], a, k) =>
                  ~a.bad /\ \A j \in 1 .. Len(steps) : ~Lacks(a, k, steps[j])
             /\ ~a.bad /\ (\A j \in 1 .. Len(steps) : ~Lacks(a, k, steps[j])) =>
                  \A f \in (names \ Signed(a)) \ Unnoticed(a, k) : Says(Deployment(k)[f], a, k)
  <2> DEFINE taken == Taken(k)
             written == Written(k)
             deployment == Deployment(k)
  <2>1. k \in Nat /\ {} \subseteq {} /\ a.op = n + 1 /\ n + 1 \in Nat
    BY <1>1 DEF Answering
  <2>2. deployment = IF a.bad THEN Spoil(r.list[k], taken, {"deploymentId"})
                     ELSE Fill(r.list[k], written, {}, a, t, k)
    OBVIOUS
  <2>3. taken = Before(steps, a, k)
    OBVIOUS
  <2>4. written = taken \cup IF "assetSigned" \in taken THEN Options(k) ELSE {}
    OBVIOUS
  <2> HIDE DEF taken, written, deployment
  <2>5. CASE a.bad
    <3>1. deployment = Spoil(r.list[k], taken, {"deploymentId"})
      BY <2>2, <2>5
    <3>2. /\ Kept(deployment, names, {}, t, n + 1)
          /\ \A f \in names : deployment[f] = IF f \in taken \cap {"deploymentId"}
                                              THEN Garbage ELSE r.list[k][f]
      BY <1>5, <2>1, <3>1, SpoilKeeps
    <3>3. deployment["status"] = r.list[k]["status"]
      BY <1>4, <3>2
    <3>4. ~Says(deployment["status"], a, k)
      BY <1>4, <1>5, <2>1, <3>3, OldSaysNothing
    <3> QED BY <2>5, <3>2, <3>4 DEF deployment
  <2>6. CASE ~a.bad
    <3>1. deployment = Fill(r.list[k], written, {}, a, t, k)
      BY <2>2, <2>6
    <3>2. /\ Kept(deployment, names, {}, t, n + 1)
          /\ \A f \in names : IF f \in written THEN Says(deployment[f], a, k)
                              ELSE deployment[f] = r.list[k][f]
      BY <1>5, <2>1, <3>1, FillKeeps
    <3>3. ASSUME Says(deployment["status"], a, k)
          PROVE  \A j \in 1 .. Len(steps) : ~Lacks(a, k, steps[j])
      <4>1. "status" \in written
        BY <1>4, <1>5, <2>1, <3>2, <3>3, OldSaysNothing
      <4>2. "status" \in taken
        BY <1>4, <2>4, <4>1
      <4> QED BY <1>3, <2>3, <4>2, LastStep
    <3>4. ASSUME \A j \in 1 .. Len(steps) : ~Lacks(a, k, steps[j])
          PROVE  \A f \in (names \ Signed(a)) \ Unnoticed(a, k) : Says(deployment[f], a, k)
      <4>1. \A j \in 1 .. Len(steps) : steps[j] \in taken
        BY <1>3, <2>3, <3>4, AllSteps
      <4>2. \A f \in names \ {"assetSignature", "assetMeta"} : f \in taken
        BY <1>3, <4>1
      <4>3. "assetSigned" \in taken
        BY <1>4, <4>2
      <4>4. \A f \in (names \ Signed(a)) \ Unnoticed(a, k) : f \in written
        BY <1>4, <2>4, <4>2, <4>3
      <4> QED BY <3>2, <4>4
    <3> QED BY <2>6, <3>2, <3>3, <3>4 DEF deployment
  <2> QED BY <2>5, <2>6
<1> HIDE DEF Deployment, turns, count, room
<1>7. \A k \in 1 .. len : list[k] = r.list[k] \/ list[k] = Deployment(k)
  OBVIOUS
<1>8. \A k \in 1 .. len : Kept(list[k], EntryOf(fn), Pointing(fn), t, n + 1)
  BY ZenonT(90), <1>5, <1>6, <1>7, Names DEF names
<1>9. list = [k \in 1 .. len |-> list[k]]
  BY DEF Shaped
<1>10. CarriedFields(a) = {} /\ CarriedByElement(a) = names \ Signed(a)
  BY DEF CarriedFields, CarriedByElement, Answering, names
<1>11. Kept(r.fields, FieldsOf(fn), Pointing(fn), t, n + 1)
  <2>1. Kept(r.fields, FieldsOf(fn), Pointing(fn), t, n) /\ n + 1 \in Nat /\ n <= n + 1
    BY DEF Shaped
  <2> QED BY <2>1, KeptLonger
<1>12. \A k \in 1 .. len : Says(list[k][LastOfElement(fn)], a, k) =>
         \A f \in CarriedByElement(a) \ Unnoticed(a, k) : Says(list[k][f], a, k)
  <2> SUFFICES ASSUME NEW k \in 1 .. len, Says(list[k]["status"], a, k)
               PROVE  \A f \in (names \ Signed(a)) \ Unnoticed(a, k) : Says(list[k][f], a, k)
    BY <1>10 DEF LastOfElement
  <2>1. list[k] # r.list[k]
    BY <1>4, <1>5, OldSaysNothing DEF Answering
  <2>2. list[k] = Deployment(k)
    BY <1>7, <2>1
  <2> QED BY <1>6, <2>2
<1>13. ASSUME Complete(a), NEW k \in 1 .. Fitting(a, len)
       PROVE  \A f \in names \ Signed(a) : Says(list[k][f], a, k)
  <2>1. \A i \in Nat : \A j \in 1 .. Len(steps) : ~Lacks(a, i, steps[j])
    BY <1>3, <1>13 DEF Complete, Lacks
  <2>2. /\ Fitting(a, len) \in Nat /\ Fitting(a, len) <= len
        /\ Fitting(a, len) <= a.n /\ Fitting(a, len) <= a.count
    BY <1>1, FittingIs DEF Answering
  <2>3. k \in 1 .. len /\ k <= turns /\ a.count # 0
    BY <1>1, <2>2 DEF turns, Turns, room, Answering
  <2>4. writes
    BY <1>13, <2>3 DEF Complete, Lacks
  <2>5. \A j \in 1 .. k - 1 : ~GivesUp(j)
    BY <1>13, <2>1, <2>3 DEF Complete
  <2>6. list[k] = Deployment(k)
    BY <1>1, <2>3, <2>4, <2>5
  <2>7. Unnoticed(a, k) = {}
    BY <1>13 DEF Complete, Unnoticed, Lacks
  <2> QED BY <1>6, <1>13, <2>1, <2>3, <2>6, <2>7 DEF Complete
<1>14. fn \in Lists /\ fn \notin Listing /\ fn # "cmd_list"
  BY Names DEF Listing
<1> HIDE DEF list
<1>15. Complete(a) => /\ fn = "cmd_list" => r.flag = (a.count > 0)
                      /\ fn \in Listing => count = a.count
                      /\ \A f \in CarriedFields(a) : Says(r.fields[f], a, 0)
                      /\ \A k \in 1 .. Fitting(a, len) :
                           \A f \in CarriedByElement(a) : Says(list[k][f], a, k)
  BY <1>10, <1>13, <1>14
<1>16. Serves(r, s, a, fn, t, n)
  BY <1>1, <1>2, <1>8, <1>9, <1>11, <1>12, <1>14, <1>15, ListServes
<1> QED BY <1>16 DEF s

\* The switch on the operation.
LEMMA HandledServes ==
  ASSUME NEW fn \in ApiFunctions, NEW t, NEW n \in Nat, NEW r, Shaped(r, fn, t, n),
         NEW a, Answering(a, fn, n), fn = "vs_get" => a.type \in ValueTypes,
         fn \in Listing => a.count <= Len(r.list),
         fn = "ota_ongoing" => r.count = Len(r.list),
         NEW s, s = Handled(r, a, t)
  PROVE  /\ Serves(r, s, a, fn, t, n)
         /\ fn = "ota_next" /\ ~r.flag /\ s.flag =>
              a.flag /\ ~Lacks(a, 0, "deploymentAvailable")
<1>1. a.fn = fn
  BY DEF Answering
<1>2. CASE fn = "vs_get"
  <2>1. s = _anedya_op_valuestore_handle_get_resp(r, a, t)
    BY <1>1, <1>2 DEF Handled
  <2> QED BY <1>2, <2>1, GetServes
<1>3. CASE fn = "vs_list"
  <2>1. s = _anedya_op_valuestore_handle_list_obj_resp(r, a, t)
    BY <1>1, <1>3 DEF Handled
  <2> QED BY <1>3, <2>1, KeysServe DEF Listing
<1>4. CASE fn = "cmd_list"
  <2>1. s = _anedya_op_command_handle_list_resp(r, a, t)
    BY <1>1, <1>4 DEF Handled
  <2> QED BY <1>4, <2>1, CommandsServe DEF Listing
<1>5. CASE fn = "cmd_next"
  <2>1. s = _anedya_op_cmd_handle_next_resp(r, a, t)
    BY <1>1, <1>5 DEF Handled
  <2> QED BY <1>5, <2>1, NextServes
<1>6. CASE fn = "ota_next"
  <2>1. s = _anedya_op_ota_next_parser(r, a, t)
    BY <1>1, <1>6 DEF Handled
  <2>2. /\ Serves(r, s, a, "ota_next", t, n)
        /\ s.flag = IF Lacks(a, 0, "deploymentAvailable") THEN r.flag ELSE a.flag
    BY <1>6, <2>1, DeploymentServes
  <2>3. CASE Lacks(a, 0, "deploymentAvailable")
    BY <1>6, <2>2, <2>3
  <2>4. CASE ~Lacks(a, 0, "deploymentAvailable")
    BY <1>6, <2>2, <2>4
  <2> QED BY <2>3, <2>4
<1>7. CASE fn = "ota_ongoing"
  <2>1. s = _anedya_op_ongoing_ota_parser(r, a, t)
    BY <1>1, <1>7 DEF Handled
  <2> QED BY <1>7, <2>1, DeploymentsServe
<1> QED BY <1>2, <1>3, <1>4, <1>5, <1>6, <1>7 DEF ApiFunctions

\* A structure the application has just made.
LEMMA FreshShaped ==
  ASSUME NEW fn \in ApiFunctions, NEW room \in Nat, NEW t, NEW n \in Nat,
         NEW r, r = ResponseOf(fn, room)
  PROVE  /\ Shaped(r, fn, t, n) /\ Len(r.list) = (IF fn \in Lists THEN room ELSE 0)
         /\ fn = "ota_ongoing" => r.count = room
<1> DEFINE size == IF fn \in Lists THEN room ELSE 0
<1>1. /\ r.fields = Blank(FieldsOf(fn)) /\ r.flag = FALSE /\ r.totalcount = 0
      /\ r.count = (IF fn = "ota_ongoing" THEN room ELSE 0)
      /\ r.list = [k \in 1 .. size |-> Blank(EntryOf(fn))]
      /\ r = [fields |-> r.fields, flag |-> r.flag, totalcount |-> r.totalcount,
              count |-> r.count, list |-> r.list]
  <2>1. CASE fn = "vs_get"
    BY <2>1, Names DEF ResponseOf, Structure, EntryOf
  <2>2. CASE fn = "vs_list"
    BY <2>2, Names DEF ResponseOf, Structure
  <2>3. CASE fn = "cmd_list"
    BY <2>3, Names DEF ResponseOf, Structure
  <2>4. CASE fn = "cmd_next"
    BY <2>4, Names DEF ResponseOf, Structure, EntryOf
  <2>5. CASE fn = "ota_next"
    BY <2>5, Names DEF ResponseOf, Structure, EntryOf
  <2>6. CASE fn = "ota_ongoing"
    BY <2>6, Names DEF ResponseOf, Structure
  <2> QED BY <2>1, <2>2, <2>3, <2>4, <2>5, <2>6 DEF ApiFunctions
<1>2. size \in Nat
  OBVIOUS
<1> HIDE DEF size
<1>3. Len(r.list) = size
  BY <1>1, <1>2, FunctionIsSequence
<1>4. ASSUME NEW names, NEW pointing
      PROVE  Kept(Blank(names), names, pointing, t, n)
  BY DEF Kept, Blank, Unset, Copies
<1>5. \A k \in 1 .. size : r.list[k] = Blank(EntryOf(fn))
  BY <1>1
<1>6. Shaped(r, fn, t, n)
  <2>1. r.list = [k \in 1 .. size |-> r.list[k]]
    BY <1>1
  <2>2. IF fn \in Lists THEN r.count <= size ELSE size = 0
    BY <1>1, Names DEF size
  <2>3. /\ r.flag \in BOOLEAN
        /\ r.totalcount \in Nat
        /\ r.count \in Nat
    <3>1. r.flag \in BOOLEAN /\ r.totalcount \in Nat
      BY <1>1, 0 \in Nat, Zenon
    <3>2. r.count \in Nat
      BY <1>1
    <3> QED BY <3>1, <3>2
  <2>4. r = [fields |-> r.fields, flag |-> r.flag, totalcount |-> r.totalcount,
             count |-> r.count, list |-> r.list]
    BY <1>1
  <2>5. Kept(r.fields, FieldsOf(fn), Pointing(fn), t, n)
    BY <1>1, <1>4
  <2>6. \A k \in 1 .. size : Kept(r.list[k], EntryOf(fn), Pointing(fn), t, n)
    BY <1>4, <1>5
  <2> QED BY <1>2, <1>3, <2>1, <2>2, <2>3, <2>4, <2>5, <2>6 DEF Shaped
<1> QED BY <1>1, <1>3, <1>6 DEF size

-----------------------------------------------------------------------------
(* Transactions.                                                           *)

\* Other operations are begun.
LEMMA TxnLonger ==
  ASSUME NEW c, NEW a, NEW success, NEW body, NEW r, NEW t, NEW n \in Nat,
         TxnInv(c, a, success, body, r, t, n)
  PROVE  TxnInv(c, a, success, body, r, t, n + 1)
<1>1. c.op \in 0 .. n + 1 /\ body \in 0 .. n + 1
  BY DEF TxnInv
<1> QED BY <1>1 DEF TxnInv

\* The transaction is used for an operation with the structure q.
LEMMA TxnBegins ==
  ASSUME NEW c, NEW a, NEW success, NEW body, NEW r, NEW t, NEW n \in Nat,
         TxnInv(c, a, success, body, r, t, n), c.state # "sent",
         NEW fn \in ApiFunctions, NEW limit \in LimitsOf(fn), NEW q, Shaped(q, fn, t, n),
         Len(q.list) \in {0} \cup Rooms \cup Limits, fn \in Lists => Len(q.list) = limit,
         fn = "ota_ongoing" => q.count = limit, fn = "ota_next" => ~q.flag,
         NEW d, d = [fn |-> fn, limit |-> limit, op |-> n + 1, state |-> "sent"],
         NEW p, p = [r EXCEPT ![fn] = q]
  PROVE  TxnInv(d, a, success, body, p, t, n + 1)
<1>1. /\ d.fn = fn /\ d.limit = limit /\ d.op = n + 1 /\ d.state = "sent" /\ Age(d) = n
      /\ d = [fn |-> d.fn, limit |-> d.limit, op |-> d.op, state |-> d.state]
  BY DEF Age
<1>2. /\ Age(c) \in Nat /\ Age(c) <= n
  BY DEF TxnInv, Age
<1>3. \A f \in ApiFunctions :
        Shaped(r[f], f, t, n) /\ Len(r[f].list) \in {0} \cup Rooms \cup Limits
  <2>1. \A f \in ApiFunctions : 
          Shaped(r[f], f, t, Age(c)) /\ Len(r[f].list) \in {0} \cup Rooms \cup Limits
    BY DEF TxnInv
  <2> QED BY <1>2, <2>1, ShapedLonger
<1>4. /\ p = [f \in ApiFunctions |-> p[f]]
      /\ \A f \in ApiFunctions : p[f] = IF f = fn THEN q ELSE r[f]
  BY DEF TxnInv
<1>5. \A f \in ApiFunctions :
        Shaped(p[f], f, t, n) /\ Len(p[f].list) \in {0} \cup Rooms \cup Limits
  BY <1>3, <1>4
<1>6. p[fn] = q /\ fn \notin {"none", "cmd_status"}
  BY <1>4 DEF ApiFunctions
<1>7. body \in 0 .. n + 1 /\ n + 1 \in 0 .. n + 1 /\ success \in BOOLEAN /\ n + 1 # 0
  BY DEF TxnInv
<1> QED BY <1>1, <1>4, <1>5, <1>6, <1>7 DEF TxnInv

\* It is used for an acknowledgement.
LEMMA TxnAcknowledges ==
  ASSUME NEW c, NEW a, NEW success, NEW body, NEW r, NEW t, NEW n \in Nat,
         TxnInv(c, a, success, body, r, t, n), c.state # "sent",
         NEW d, d = [fn |-> "cmd_status", limit |-> 0, op |-> n + 1, state |-> "sent"]
  PROVE  TxnInv(d, a, success, body, r, t, n + 1)
<1>1. /\ d.fn = "cmd_status" /\ d.limit = 0 /\ d.op = n + 1 /\ d.state = "sent" /\ Age(d) = n
      /\ d = [fn |-> d.fn, limit |-> d.limit, op |-> d.op, state |-> d.state]
  BY DEF Age
<1>2. /\ Age(c) \in Nat /\ Age(c) <= n
  BY DEF TxnInv, Age
<1>3. \A f \in ApiFunctions :
        Shaped(r[f], f, t, n) /\ Len(r[f].list) \in {0} \cup Rooms \cup Limits
  <2>1. \A f \in ApiFunctions : 
          Shaped(r[f], f, t, Age(c)) /\ Len(r[f].list) \in {0} \cup Rooms \cup Limits
    BY DEF TxnInv
  <2> QED BY <1>2, <2>1, ShapedLonger
<1>4. /\ 0 \in LimitsOf("cmd_status") /\ "cmd_status" \notin Lists
      /\ "cmd_status" \notin ApiFunctions
  BY Names DEF LimitsOf, Listing, ApiFunctions
<1>5. body \in 0 .. n + 1 /\ n + 1 \in 0 .. n + 1 /\ success \in BOOLEAN /\ n + 1 # 0
  BY DEF TxnInv
<1>6. r = [f \in ApiFunctions |-> r[f]]
  BY DEF TxnInv
<1> QED BY <1>1, <1>3, <1>4, <1>5, <1>6 DEF TxnInv

\* An answer of the server to the operation c.
Answers(c, e) ==
  /\ e.fn = c.fn /\ e.op = c.op /\ e.n \in Nat /\ e.count \in Nat
  /\ e.flag \in BOOLEAN /\ e.bad \in BOOLEAN /\ e.ok \in BOOLEAN
  /\ c.fn = "vs_get" => e.type \in ValueTypes
  /\ c.fn \in Listing => e.count <= c.limit
  /\ c.fn \notin Lists => e.at = 0

\* What a server answers to a call is an answer to it.
LEMMA ServerAnswering ==
  ASSUME NEW c, NEW b \in ServerAnswers(c.fn, c.limit)
  PROVE  Answers(c, [b EXCEPT !.op = c.op])
BY DEF ServerAnswers, Lists, Answers

\* Its answer is handled.
LEMMA TxnAnswered ==
  ASSUME NEW c, NEW a, NEW success, NEW body, NEW r, NEW t, NEW n \in Nat,
         TxnInv(c, a, success, body, r, t, n), c.state = "sent",
         NEW e, Answers(c, e),
         NEW p, e.ok /\ e.fn \in ApiFunctions => p = [r EXCEPT ![e.fn] = Handled(@, e, t)],
         ~(e.ok /\ e.fn \in ApiFunctions) => p = r,
         NEW d, d = [c EXCEPT !.state = "done"]
  PROVE  TxnInv(d, e, e.ok, e.op, p, t, n)
<1> DEFINE fn == c.fn
           m == c.op - 1
<1>1. /\ fn \in ApiFunctions \cup {"cmd_status"} /\ c.op \in 0 .. n /\ c.op # 0
      /\ c.limit \in LimitsOf(fn)
  BY DEF TxnInv
<1>2. m \in Nat /\ c.op = m + 1 /\ m + 1 \in Nat /\ m <= m + 1
  BY <1>1
<1>3. /\ e.fn = fn /\ e.op = m + 1 /\ e.n \in Nat /\ e.count \in Nat
      /\ e.flag \in BOOLEAN /\ e.bad \in BOOLEAN /\ e.ok \in BOOLEAN
      /\ fn = "vs_get" => e.type \in ValueTypes
      /\ fn \in Listing => e.count <= c.limit
      /\ fn \notin Lists => e.at = 0
  BY <1>2 DEF Answers
<1>4. /\ d = [fn |-> d.fn, limit |-> d.limit, op |-> d.op, state |-> d.state]
      /\ d.fn = fn /\ d.limit = c.limit /\ d.op = c.op /\ d.state = "done"
      /\ Age(c) = m /\ Age(d) = m + 1
  <2>1. c = [fn |-> c.fn, limit |-> c.limit, op |-> c.op, state |-> c.state]
    BY DEF TxnInv
  <2> QED BY <1>2, <2>1 DEF Age
<1>5. /\ r = [f \in ApiFunctions |-> r[f]]
      /\ \A f \in ApiFunctions :
           Shaped(r[f], f, t, m) /\ Len(r[f].list) \in {0} \cup Rooms \cup Limits
  BY <1>4 DEF TxnInv
<1>6. \A f \in ApiFunctions : Shaped(r[f], f, t, m + 1)
  BY <1>2, <1>5, ShapedLonger
<1>7. /\ fn \in Lists => Len(r[fn].list) = c.limit
      /\ fn = "ota_ongoing" => r[fn].count = c.limit
      /\ fn = "ota_next" => ~r[fn].flag
  BY DEF TxnInv
<1>8. /\ p = [f \in ApiFunctions |-> p[f]]
      /\ \A f \in ApiFunctions :
           Shaped(p[f], f, t, m + 1) /\ Len(p[f].list) \in {0} \cup Rooms \cup Limits
      /\ fn \in Lists => Len(p[fn].list) = c.limit
      /\ fn \in ApiFunctions /\ e.ok => /\ Complete(e) => Whole(p[fn], e)
                                       /\ Vouched(p[fn], e)
      /\ fn = "ota_next" /\ p[fn].flag => e.ok /\ e.flag /\ e.missing # "deploymentAvailable"
  <2>1. CASE e.ok /\ fn \in ApiFunctions
    <3> DEFINE s == Handled(r[fn], e, t)
    <3>1. /\ p = [f \in ApiFunctions |-> p[f]]
          /\ \A f \in ApiFunctions : p[f] = IF f = fn THEN s ELSE r[f]
      <4> HIDE DEF fn
      <4>1. p = [r EXCEPT ![fn] = Handled(@, e, t)]
        BY <1>3, <2>1
      <4> QED BY <1>5, <4>1
    <3>2. Answering(e, fn, m)
      BY <1>3 DEF Answering
    <3>3. Shaped(r[fn], fn, t, m)
      BY <1>5, <2>1
    <3>4. /\ fn \in Listing => e.count <= Len(r[fn].list)
          /\ fn = "ota_ongoing" => r[fn].count = Len(r[fn].list)
      BY <1>3, <1>7, Names DEF Listing
    <3>4a. s = Handled(r[fn], e, t)
      OBVIOUS
    <3> HIDE DEF s, fn, m
    <3>5. fn \in ApiFunctions /\ m \in Nat /\ (fn = "vs_get" => e.type \in ValueTypes)
      BY <1>2, <1>3, <2>1
    <3>6. Serves(r[fn], s, e, fn, t, m)
      BY <3>2, <3>3, <3>4, <3>4a, <3>5, HandledServes
    <3>7. ASSUME fn = "ota_next", ~r[fn].flag, s.flag
          PROVE  e.flag /\ ~Lacks(e, 0, "deploymentAvailable")
      BY <3>2, <3>3, <3>4, <3>4a, <3>5, <3>6, <3>7, HandledServes
    <3>8. /\ Shaped(s, fn, t, m + 1) /\ Len(s.list) = Len(r[fn].list)
          /\ Complete(e) => Whole(s, e)
          /\ Vouched(s, e)
      BY <3>6 DEF Serves
    <3>9. p[fn] = s
      BY <2>1, <3>1
    <3>10. fn = "ota_next" /\ s.flag => e.flag /\ e.missing # "deploymentAvailable"
      <4> SUFFICES ASSUME fn = "ota_next", s.flag
                   PROVE  e.flag /\ e.missing # "deploymentAvailable"
        OBVIOUS
      <4>1. ~Lacks(e, 0, "deploymentAvailable") /\ e.flag
        BY <1>7, <3>7
      <4>2. e.at = 0
        BY <1>3, Names
      <4> QED BY <4>1, <4>2 DEF Lacks
    <3>11. \A f \in ApiFunctions :
             Shaped(p[f], f, t, m + 1) /\ Len(p[f].list) \in {0} \cup Rooms \cup Limits
      BY <1>5, <1>6, <2>1, <3>1, <3>8
    <3> QED BY <1>7, <2>1, <3>1, <3>8, <3>9, <3>10, <3>11 DEF fn
  <2>2. CASE ~(e.ok /\ fn \in ApiFunctions)
    <3>1. p = r
      BY <1>3, <2>2
    <3> QED BY <1>5, <1>6, <1>7, <2>2, <3>1 DEF ApiFunctions
  <2> QED BY <2>1, <2>2
<1>9. e.op \in 0 .. n /\ e.op = c.op
  BY <1>1, <1>2, <1>3
<1>10. fn # "none"
  BY <1>1 DEF ApiFunctions
<1> QED BY <1>1, <1>3, <1>4, <1>8, <1>9, <1>10 DEF TxnInv

\* A structure as a call to fn with this limit brings it.
Suits(q, fn, limit, t, n) ==
  /\ Shaped(q, fn, t, n)
  /\ Len(q.list) \in {0} \cup Rooms \cup Limits
  /\ fn \in Lists => Len(q.list) = limit
  /\ fn = "ota_ongoing" => q.count = limit
  /\ fn = "ota_next" => ~q.flag

\* The structure the application brings has room for what it asks for.
LEMMA RequestShaped ==
  ASSUME InboundAssumption, NEW t, NEW n \in Nat, NEW fn \in ApiFunctions,
         NEW limit \in LimitsOf(fn), Shaped(response[t][fn], fn, t, n),
         Len(response[t][fn].list) \in {0} \cup Rooms \cup Limits,
         NEW q, q = Request(t, fn, limit)
  PROVE  Suits(q, fn, limit, t, n)
<1> DEFINE old == response[t][fn]
<1> USE DEF Suits
<1>1. old = [fields |-> old.fields, flag |-> old.flag, totalcount |-> old.totalcount,
             count |-> old.count, list |-> old.list]
  BY DEF Shaped
<1>2. CASE fn \notin Lists
  <2>1. q = IF fn = "ota_next" THEN [old EXCEPT !.flag = FALSE] ELSE old
    BY <1>2, Names DEF Request, Supplied
  <2> HIDE DEF old
  <2>2. CASE fn = "ota_next"
    <3>1. q = [fields |-> old.fields, flag |-> FALSE, totalcount |-> old.totalcount,
               count |-> old.count, list |-> old.list]
      BY <1>1, <2>1, <2>2
    <3>2. /\ q.fields = old.fields /\ q.flag = FALSE /\ q.totalcount = old.totalcount
          /\ q.count = old.count /\ q.list = old.list
      BY <3>1
    <3>3. Shaped(old, fn, t, n) /\ Len(old.list) \in {0} \cup Rooms \cup Limits
      BY DEF old
    <3>4. Shaped(q, fn, t, n)
      <4>1. q.flag \in BOOLEAN
        BY <3>2, Zenon
      <4>2. q = [fields |-> q.fields, flag |-> q.flag, totalcount |-> q.totalcount,
                 count |-> q.count, list |-> q.list]
        BY <3>1, <3>2, Zenon
      <4> QED BY <1>2, <3>2, <3>3, <4>1, <4>2 DEF Shaped
    <3> QED BY <1>2, <2>2, <3>2, <3>3, <3>4
  <2>3. CASE fn # "ota_next"
    <3>1. q = old
      BY <2>1, <2>3
    <3> QED BY <1>2, <2>3, <3>1, Names DEF old
  <2> QED BY <2>2, <2>3
<1>3. CASE fn \in Lists
  <2>1. limit \in Nat /\ limit \in Rooms \cup Limits /\ fn # "ota_next"
    BY <1>3, Names DEF LimitsOf, Listing, InboundAssumption
  <2>2. q = IF Len(old.list) # limit THEN ResponseOf(fn, limit)
            ELSE IF fn = "ota_ongoing" THEN [old EXCEPT !.count = limit] ELSE old
    BY <1>3, <2>1, Names DEF Request, Supplied
  <2>3. CASE Len(old.list) # limit
    <3>1. q = ResponseOf(fn, limit)
      BY <2>2, <2>3
    <3>2. /\ Shaped(q, fn, t, n) /\ Len(q.list) = (IF fn \in Lists THEN limit ELSE 0)
          /\ fn = "ota_ongoing" => q.count = limit
      BY <2>1, <3>1, FreshShaped
    <3> QED BY <1>3, <2>1, <3>2
  <2>4. CASE Len(old.list) = limit /\ fn = "ota_ongoing"
    <3>1. q = [fields |-> old.fields, flag |-> old.flag, totalcount |-> old.totalcount,
               count |-> limit, list |-> old.list]
      BY <1>1, <2>2, <2>4
    <3> QED BY <1>3, <2>1, <2>4, <3>1 DEF Shaped
  <2>5. CASE Len(old.list) = limit /\ fn # "ota_ongoing"
    BY <2>1, <2>2, <2>5
  <2> QED BY <2>3, <2>4, <2>5
<1> QED BY <1>2, <1>3

\* At the start nothing was asked and no field is set.
LEMMA OperationsInvInit == InboundAssumption /\ InboundInit => OperationsInv
<1> SUFFICES ASSUME InboundAssumption, InboundInit PROVE OperationsInv
  OBVIOUS
<1>1. ASSUME NEW t \in Txns
      PROVE  TxnInv(NoCall, NoAnswer, FALSE, 0, response[t], t, 0)
  <2>1. response[t] = [fn \in ApiFunctions |-> ResponseOf(fn, 0)]
    BY DEF InboundInit
  <2>2. \A fn \in ApiFunctions : Shaped(response[t][fn], fn, t, 0) /\ Len(response[t][fn].list) = 0
    BY <2>1, FreshShaped, 0 \in Nat
  <2>3. response[t] = [fn \in ApiFunctions |-> response[t][fn]]
    BY <2>1
  <2>4. Age(NoCall) = 0 /\ NoCall.fn \notin Lists
    BY Names DEF Age, NoCall
  <2> QED BY <2>2, <2>3, <2>4 DEF TxnInv, NoCall
<1>2. \A t \in Txns : /\ call[t] = NoCall /\ answer[t] = NoAnswer /\ is_success[t] = FALSE
                      /\ _rxbody[t] = 0
  BY DEF InboundInit
<1>3. nops = 0 /\ nops \in Nat
  BY DEF InboundInit
<1>4. \A t \in Txns :
        TxnInv(call[t], answer[t], is_success[t], _rxbody[t], response[t], t, nops)
  BY <1>1, <1>2, <1>3
<1>5. /\ call = [t \in Txns |-> call[t]] /\ answer = [t \in Txns |-> answer[t]]
      /\ is_success = [t \in Txns |-> is_success[t]] /\ _rxbody = [t \in Txns |-> _rxbody[t]]
      /\ response = [t \in Txns |-> response[t]]
  BY DEF InboundInit
<1> QED BY <1>3, <1>4, <1>5 DEF OperationsInv

\* One transaction goes on, the others stay.
LEMMA OperationsInvNext ==
  ASSUME InboundAssumption, OperationsInv, [InboundNext]_inboundVars
  PROVE  OperationsInv'
<1>1. /\ nops \in Nat /\ nops + 1 \in Nat
      /\ \A t \in Txns :
           TxnInv(call[t], answer[t], is_success[t], _rxbody[t], response[t], t, nops)
      /\ call = [t \in Txns |-> call[t]] /\ answer = [t \in Txns |-> answer[t]]
      /\ is_success = [t \in Txns |-> is_success[t]] /\ _rxbody = [t \in Txns |-> _rxbody[t]]
      /\ response = [t \in Txns |-> response[t]]
  BY DEF OperationsInv
<1>2. \A t \in Txns :
        TxnInv(call[t], answer[t], is_success[t], _rxbody[t], response[t], t, nops + 1)
  BY <1>1, TxnLonger
<1>3. ASSUME UNCHANGED opVars PROVE OperationsInv'
  BY <1>1, <1>3 DEF opVars, OperationsInv
<1>4. ASSUME NEW text \in DeviceTexts, anedya_config_init(text)
      PROVE  OperationsInv'
  BY <1>3, <1>4 DEF anedya_config_init
<1>5. ASSUME anedya_config_register_event_handler \/ Start
      PROVE  OperationsInv'
  BY <1>3, <1>5 DEF anedya_config_register_event_handler, Start
<1>6. ASSUME NEW t \in Txns, NEW fn \in ApiFunctions, NEW limit \in LimitsOf(fn),
             ApiCall(t, fn, limit)
      PROVE  OperationsInv'
  <2> DEFINE q == Request(t, fn, limit)
             d == [fn |-> fn, limit |-> limit, op |-> nops + 1, state |-> "sent"]
             p == [response[t] EXCEPT ![fn] = q]
  <2>1. /\ call[t].state # "sent" /\ call' = [call EXCEPT ![t] = d] /\ nops' = nops + 1
        /\ response' = [response EXCEPT ![t] = p]
        /\ answer' = answer /\ is_success' = is_success /\ _rxbody' = _rxbody
    BY <1>6 DEF ApiCall, Begin
  <2>2. Shaped(response[t][fn], fn, t, nops)
        /\ Len(response[t][fn].list) \in {0} \cup Rooms \cup Limits
    <3>1. /\ Shaped(response[t][fn], fn, t, Age(call[t]))
          /\ Len(response[t][fn].list) \in {0} \cup Rooms \cup Limits
          /\ Age(call[t]) \in Nat /\ Age(call[t]) <= nops
      BY <1>1, <2>1 DEF TxnInv, Age
    <3> QED BY <1>1, <3>1, ShapedLonger
  <2> HIDE DEF q
  <2>3. /\ Shaped(q, fn, t, nops)
        /\ Len(q.list) \in {0} \cup Rooms \cup Limits
        /\ fn \in Lists => Len(q.list) = limit
        /\ fn = "ota_ongoing" => q.count = limit
        /\ fn = "ota_next" => ~q.flag
    <3>1. InboundAssumption /\ nops \in Nat /\ q = Request(t, fn, limit)
      BY <1>1 DEF q
    <3>2. Suits(q, fn, limit, t, nops)
      BY <2>2, <3>1, RequestShaped
    <3> QED BY <3>2, Zenon DEF Suits
  <2>4. TxnInv(d, answer[t], is_success[t], _rxbody[t], p, t, nops + 1)
    <3>1. TxnInv(call[t], answer[t], is_success[t], _rxbody[t], response[t], t, nops)
      BY <1>1
    <3> HIDE DEF d, p
    <3> QED BY <1>1, <2>1, <2>3, <3>1, TxnBegins DEF d, p
  <2> HIDE DEF d, p
  <2>5. \A u \in Txns : /\ call'[u] = (IF u = t THEN d ELSE call[u])
                        /\ response'[u] = (IF u = t THEN p ELSE response[u])
    BY <1>1, <2>1
  <2>6. /\ call' = [u \in Txns |-> call'[u]] /\ response' = [u \in Txns |-> response'[u]]
        /\ answer' = [u \in Txns |-> answer'[u]] /\ _rxbody' = [u \in Txns |-> _rxbody'[u]]
        /\ is_success' = [u \in Txns |-> is_success'[u]]
    BY <1>1, <2>1
  <2>7. \A u \in Txns : TxnInv(call'[u], answer'[u], is_success'[u], _rxbody'[u], response'[u],
                               u, nops')
    BY <1>2, <2>1, <2>4, <2>5
  <2> QED BY <1>1, <2>1, <2>6, <2>7 DEF OperationsInv
<1>7. ASSUME NEW t \in Txns, NEW b \in Asked(t),
             _anedya_handle_txn_response(t, [b EXCEPT !.op = call[t].op])
      PROVE  OperationsInv'
  <2> DEFINE e == [b EXCEPT !.op = call[t].op]
             d == [call[t] EXCEPT !.state = "done"]
             p == IF e.ok /\ e.fn \in ApiFunctions
                    THEN [response[t] EXCEPT ![e.fn] = Handled(@, e, t)] ELSE response[t]
  <2> HIDE DEF e
  <2>1. /\ call[t].state = "sent" /\ call' = [call EXCEPT ![t] = d] /\ nops' = nops
        /\ answer' = [answer EXCEPT ![t] = e] /\ is_success' = [is_success EXCEPT ![t] = e.ok]
        /\ _rxbody' = [_rxbody EXCEPT ![t] = e.op]
        /\ response' = IF e.ok /\ e.fn \in ApiFunctions
                         THEN [response EXCEPT ![t][e.fn] = Handled(@, e, t)] ELSE response
    BY <1>7 DEF _anedya_handle_txn_response, e
  <2>2. response' = [response EXCEPT ![t] = p]
    <3>1. CASE e.ok /\ e.fn \in ApiFunctions
      BY <2>1, <3>1
    <3>2. CASE ~(e.ok /\ e.fn \in ApiFunctions)
      BY <1>1, <2>1, <3>2
    <3> QED BY <3>1, <3>2
  <2>3. b \in ServerAnswers(call[t].fn, call[t].limit)
    <3>1. call[t].fn \in ApiFunctions \cup {"cmd_status"} /\ call[t].limit \in LimitsOf(call[t].fn)
      BY <1>1, <2>1 DEF TxnInv
    <3> QED BY <1>7, <3>1 DEF Asked, InboundAssumption
  <2>4. TxnInv(d, e, e.ok, e.op, p, t, nops)
    <3>1. TxnInv(call[t], answer[t], is_success[t], _rxbody[t], response[t], t, nops)
      BY <1>1
    <3>2. Answers(call[t], e)
      BY <2>3, ServerAnswering DEF e
    <3>3. d = [call[t] EXCEPT !.state = "done"]
      OBVIOUS
    <3>4. /\ e.ok /\ e.fn \in ApiFunctions =>
               p = [response[t] EXCEPT ![e.fn] = Handled(@, e, t)]
          /\ ~(e.ok /\ e.fn \in ApiFunctions) => p = response[t]
      OBVIOUS
    <3>5. call[t].state = "sent" /\ nops \in Nat
      BY <1>1, <2>1
    <3> HIDE DEF d, p
    <3> QED BY <3>1, <3>2, <3>3, <3>4, <3>5, TxnAnswered
  <2> HIDE DEF d, p
  <2>5. \A u \in Txns : /\ call'[u] = (IF u = t THEN d ELSE call[u])
                        /\ answer'[u] = (IF u = t THEN e ELSE answer[u])
                        /\ is_success'[u] = (IF u = t THEN e.ok ELSE is_success[u])
                        /\ _rxbody'[u] = (IF u = t THEN e.op ELSE _rxbody[u])
                        /\ response'[u] = (IF u = t THEN p ELSE response[u])
    BY <1>1, <2>1, <2>2
  <2>6. /\ call' = [u \in Txns |-> call'[u]] /\ response' = [u \in Txns |-> response'[u]]
        /\ answer' = [u \in Txns |-> answer'[u]] /\ _rxbody' = [u \in Txns |-> _rxbody'[u]]
        /\ is_success' = [u \in Txns |-> is_success'[u]]
    BY <1>1, <2>1, <2>2
  <2>7. \A u \in Txns : TxnInv(call'[u], answer'[u], is_success'[u], _rxbody'[u], response'[u],
                               u, nops')
    BY <1>1, <2>1, <2>4, <2>5
  <2> QED BY <1>1, <2>1, <2>6, <2>7 DEF OperationsInv
<1>8. ASSUME NEW t \in Txns, NEW e, NullDocument(t, e)
      PROVE  OperationsInv'
  <2>1. /\ call[t].state = "sent" /\ answer' = [answer EXCEPT ![t] = e]
        /\ call' = call /\ is_success' = is_success /\ _rxbody' = _rxbody
        /\ response' = response /\ nops' = nops
    BY <1>8 DEF NullDocument
  <2>2. \A u \in Txns : answer'[u] = IF u = t THEN e ELSE answer[u]
    BY <1>1, <2>1
  <2>3. answer' = [u \in Txns |-> answer'[u]]
    BY <1>1, <2>1
  <2>4. TxnInv(call[t], e, is_success[t], _rxbody[t], response[t], t, nops)
    <3>1. TxnInv(call[t], answer[t], is_success[t], _rxbody[t], response[t], t, nops)
      BY <1>1
    <3> QED BY <2>1, <3>1 DEF TxnInv
  <2>5. \A u \in Txns : TxnInv(call'[u], answer'[u], is_success'[u], _rxbody'[u], response'[u],
                               u, nops')
    BY <1>1, <2>1, <2>2, <2>4
  <2> QED BY <1>1, <2>1, <2>3, <2>5 DEF OperationsInv
<1>9. ASSUME _anedya_handle_event \/ HandlerReturns
      PROVE  OperationsInv'
  <2>1. UNCHANGED opVars
    BY <1>9 DEF _anedya_handle_event, HandleCommand, HandleUpdate, NoMemory, Tell, HandlerReturns
  <2> QED BY <1>3, <2>1
<1>10. ASSUME NEW t \in Txns, anedya_op_cmd_status_update(t)
       PROVE  OperationsInv'
  <2> DEFINE d == [fn |-> "cmd_status", limit |-> 0, op |-> nops + 1, state |-> "sent"]
  <2>1. /\ call[t].state # "sent" /\ call' = [call EXCEPT ![t] = d] /\ nops' = nops + 1
        /\ answer' = answer /\ is_success' = is_success /\ _rxbody' = _rxbody
        /\ response' = response
    BY <1>10 DEF anedya_op_cmd_status_update, Begin
  <2>2. TxnInv(d, answer[t], is_success[t], _rxbody[t], response[t], t, nops + 1)
    <3>1. TxnInv(call[t], answer[t], is_success[t], _rxbody[t], response[t], t, nops)
      BY <1>1
    <3> HIDE DEF d
    <3> QED BY <1>1, <2>1, <3>1, TxnAcknowledges DEF d
  <2> HIDE DEF d
  <2>3. /\ call' = [u \in Txns |-> call'[u]]
        /\ \A u \in Txns : call'[u] = IF u = t THEN d ELSE call[u]
    BY <1>1, <2>1
  <2>4. \A u \in Txns : TxnInv(call'[u], answer'[u], is_success'[u], _rxbody'[u], response'[u],
                               u, nops')
    BY <1>2, <2>1, <2>2, <2>3
  <2> QED BY <1>1, <2>1, <2>3, <2>4 DEF OperationsInv
<1>11. ASSUME UNCHANGED inboundVars PROVE OperationsInv'
  BY <1>3, <1>11 DEF inboundVars
<1> QED BY <1>4, <1>5, <1>6, <1>7, <1>8, <1>9, <1>10, <1>11 DEF InboundNext

-----------------------------------------------------------------------------
(* What the application sees.                                              *)

BoundsInv == nops \in 0 .. MaxOps /\ nmsgs \in 0 .. MaxMessages

\* Every step counts its operation or message once.
LEMMA BoundsInvNext ==
  ASSUME InboundAssumption, BoundsInv, [InboundNext]_inboundVars
  PROVE  BoundsInv'
<1>1. MaxOps \in Nat /\ MaxMessages \in Nat
  BY DEF InboundAssumption
<1>2. /\ nops' = nops \/ (nops < MaxOps /\ nops' = nops + 1)
      /\ nmsgs' = nmsgs \/ (nmsgs < MaxMessages /\ nmsgs' = nmsgs + 1)
  <2>1. ASSUME NEW text \in DeviceTexts, anedya_config_init(text)
        PROVE  nops' = nops /\ nmsgs' = nmsgs
    BY <2>1 DEF anedya_config_init, opVars
  <2>2. ASSUME anedya_config_register_event_handler \/ Start \/ HandlerReturns
        PROVE  nops' = nops /\ nmsgs' = nmsgs
    BY <2>2 DEF anedya_config_register_event_handler, Start, HandlerReturns, opVars
  <2>3. ASSUME NEW t \in Txns, NEW fn, NEW limit, ApiCall(t, fn, limit)
        PROVE  nops < MaxOps /\ nops' = nops + 1 /\ nmsgs' = nmsgs
    BY <2>3 DEF ApiCall, Begin
  <2>4. ASSUME NEW t \in Txns, NEW e, _anedya_handle_txn_response(t, e) \/ NullDocument(t, e)
        PROVE  nops' = nops /\ nmsgs < MaxMessages /\ nmsgs' = nmsgs + 1
    BY <2>4 DEF _anedya_handle_txn_response, NullDocument, Arrives
  <2>5. ASSUME _anedya_handle_event
        PROVE  nops' = nops /\ nmsgs < MaxMessages /\ nmsgs' = nmsgs + 1
    <3>1. Arrives
      BY <2>5 DEF _anedya_handle_event, HandleCommand, HandleUpdate, NoMemory
    <3>2. UNCHANGED opVars
      BY <2>5 DEF _anedya_handle_event, HandleCommand, HandleUpdate, NoMemory, Tell
    <3> QED BY <3>1, <3>2 DEF Arrives, opVars
  <2>6. ASSUME NEW t \in Txns, anedya_op_cmd_status_update(t)
        PROVE  nops < MaxOps /\ nops' = nops + 1 /\ nmsgs' = nmsgs
    BY <2>6 DEF anedya_op_cmd_status_update, Begin
  <2>7. ASSUME UNCHANGED inboundVars
        PROVE  nops' = nops /\ nmsgs' = nmsgs
    BY <2>7 DEF inboundVars, opVars
  <2> QED BY <2>1, <2>2, <2>3, <2>4, <2>5, <2>6, <2>7 DEF InboundNext
<1> QED BY <1>1, <1>2 DEF BoundsInv

\* Every field holds a mark of a kind the handlers write, the arrays keep the
\* sizes the application gave them, and no count goes beyond them: for lists of
\* any length, as long as a listing counts no more than was asked for.  (The
\* handlers of listings go by the count of the answer; the one of ongoing
\* deployments goes by the room, and needs no such server.)
THEOREM InboundTypeCorrect ==
  ASSUME InboundAssumption, DeviceAssumption
  PROVE  InboundSpec => []InboundTypeOK
<1>1. InboundInit => SetupInv /\ OperationsInv /\ BoundsInv
  <2>1. InboundInit => SetupInv
    BY DEF InboundInit, SetupInv
  <2>2. InboundInit => BoundsInv
    BY DEF InboundInit, BoundsInv, InboundAssumption
  <2> QED BY <2>1, <2>2, OperationsInvInit
<1>2. SetupInv /\ OperationsInv /\ BoundsInv /\ [InboundNext]_inboundVars
        => SetupInv' /\ OperationsInv' /\ BoundsInv'
  BY SetupInvNext, OperationsInvNext, BoundsInvNext
<1>3. ASSUME SetupInv, OperationsInv, BoundsInv
      PROVE  InboundTypeOK
  <2>1. ASSUME NEW t \in Txns
        PROVE  /\ call[t].fn \in ApiFunctions \cup {"none", "cmd_status"}
               /\ call[t].state \in {"idle", "sent", "done"}
               /\ is_success[t] \in BOOLEAN
               /\ _rxbody[t] \in 0 .. nops
    BY <1>3 DEF OperationsInv, TxnInv
  <2>2. ASSUME NEW t \in Txns, NEW fn \in ApiFunctions
        PROVE  /\ Shaped(response[t][fn], fn, t, Age(call[t]))
               /\ Len(response[t][fn].list) \in {0} \cup Rooms \cup Limits
               /\ fn = call[t].fn /\ fn \in Lists => Len(response[t][fn].list) = call[t].limit
    BY <1>3 DEF OperationsInv, TxnInv
  <2>3. ASSUME NEW t \in Txns, NEW fn \in ApiFunctions
        PROVE  /\ response[t][fn].flag \in BOOLEAN
               /\ fn \in Lists => response[t][fn].count <= Len(response[t][fn].list)
               /\ \A f \in DOMAIN response[t][fn].fields :
                    response[t][fn].fields[f][1] \in Tags
    <3>1. /\ Kept(response[t][fn].fields, FieldsOf(fn), Pointing(fn), t, Age(call[t]))
          /\ response[t][fn].flag \in BOOLEAN
          /\ fn \in Lists => response[t][fn].count <= Len(response[t][fn].list)
      BY <2>2 DEF Shaped
    <3>2. \A v : v \in Copies(Age(call[t])) \/ v \in Texts(t) => v[1] \in Tags
      BY DEF Copies, Texts, Tags
    <3> QED BY <3>1, <3>2 DEF Kept
  <2>4. ASSUME NEW t \in Txns, call[t].fn \in {"vs_list", "cmd_list", "ota_ongoing"}
        PROVE  Len(Result(t).list) = call[t].limit /\ Result(t).count <= call[t].limit
    <3>1. call[t].fn \in ApiFunctions /\ call[t].fn \in Lists
      BY <2>4, Names DEF ApiFunctions
    <3> QED BY <2>2, <2>3, <3>1 DEF Result
  <2>5. phase \in {"start", "refused", "configured", "running", "fault"}
    BY <1>3 DEF SetupInv
  <2>6. nops \in 0 .. MaxOps /\ nmsgs \in 0 .. MaxMessages
    BY <1>3 DEF BoundsInv
  <2> QED BY <2>1, <2>2, <2>3, <2>4, <2>5, <2>6 DEF InboundTypeOK
<1> QED BY <1>1, <1>2, <1>3, PTL DEF InboundSpec

\* What a finished operation left, in terms of what the application reads.
LEMMA DoneReads ==
  ASSUME OperationsInv, NEW t \in Txns, Done(t)
  PROVE  /\ TxnInv(call[t], answer[t], is_success[t], _rxbody[t], response[t], t, nops)
         /\ Shaped(Result(t), call[t].fn, t, call[t].op)
         /\ answer[t].fn = call[t].fn /\ answer[t].op = call[t].op
         /\ _rxbody[t] = call[t].op /\ is_success[t] = answer[t].ok
         /\ answer[t].n \in Nat /\ answer[t].count \in Nat
         /\ answer[t].ok => /\ Complete(answer[t]) => Whole(Result(t), answer[t])
                            /\ Vouched(Result(t), answer[t])
         /\ call[t].fn = "ota_next" /\ Result(t).flag =>
              answer[t].ok /\ answer[t].flag /\ answer[t].missing # "deploymentAvailable"
<1>1. TxnInv(call[t], answer[t], is_success[t], _rxbody[t], response[t], t, nops)
  BY DEF OperationsInv
<1>2. call[t].state = "done" /\ call[t].fn \in ApiFunctions /\ Age(call[t]) = call[t].op
  BY DEF Done, Age
<1> QED BY <1>1, <1>2 DEF TxnInv, Result

\* A field the application reads as of element k of the last answer is one
\* that says so.
LEMMA ReadsWhatIsSaid ==
  ASSUME NEW e, NEW names, NEW pointing, NEW t, NEW n, Kept(e, names, pointing, t, n),
         NEW a, _rxbody[t] = a.op, NEW k, NEW f \in names
  PROVE  (Reads(e[f]) = <<a.op, k>>) <=> Says(e[f], a, k)
<1>1. CASE e[f] \in Copies(n)
  <2>1. e[f][1] # "body"
    BY <1>1 DEF Copies
  <2> QED BY <2>1 DEF Reads, Says
<1>2. CASE e[f] \in Texts(t)
  <2>1. e[f][1] = "body" /\ e[f][2] = t
    BY <1>2 DEF Texts
  <2> QED BY <2>1 DEF Reads, Says
<1> QED BY <1>1, <1>2 DEF Kept

\* What an answer carries has a place in the structure.
LEMMA CarriedNames ==
  ASSUME NEW a, a.fn \in ApiFunctions
  PROVE  /\ CarriedFields(a) \subseteq FieldsOf(a.fn)
         /\ a.fn \in Lists => CarriedByElement(a) \subseteq EntryOf(a.fn)
         /\ a.fn \in {"vs_get", "cmd_next", "ota_next"} => LastOf(a.fn) \in FieldsOf(a.fn)
         /\ a.fn \in Lists => LastOfElement(a.fn) \in EntryOf(a.fn)
<1>1. CASE a.fn = "vs_get"
  BY <1>1, Names DEF CarriedFields, LastOf, ValueFields
<1>2. CASE a.fn = "vs_list"
  BY <1>2, Names DEF CarriedFields, CarriedByElement, LastOfElement, KeyFields
<1>3. CASE a.fn = "cmd_list"
  BY <1>3, Names DEF CarriedFields, CarriedByElement, LastOfElement, CommandFields
<1>4. CASE a.fn = "cmd_next"
  BY <1>4, Names DEF CarriedFields, LastOf, NextFields
<1>5. CASE a.fn = "ota_next"
  BY <1>5, Names DEF CarriedFields, LastOf, AssetFields
<1>6. CASE a.fn = "ota_ongoing"
  BY <1>6, Names DEF CarriedFields, CarriedByElement, LastOfElement
<1> QED BY <1>1, <1>2, <1>3, <1>4, <1>5, <1>6 DEF ApiFunctions

\* A complete answer arrives whole: every field it carries and every element
\* there is room for is of this answer, as long as the transaction keeps its
\* text (the handlers of the six operations with an answer of their own).
THEOREM CompleteAnswersFill ==
  ASSUME InboundAssumption
  PROVE  InboundSpec => []CompleteAnswerFills
<1>1. InboundInit => OperationsInv
  BY OperationsInvInit
<1>2. OperationsInv /\ [InboundNext]_inboundVars => OperationsInv'
  BY OperationsInvNext
<1>3. ASSUME OperationsInv, NEW t \in Txns, Done(t), answer[t].ok,
             answer[t].missing = "none", ~answer[t].bad
      PROVE  LET a == answer[t] IN
             /\ is_success[t]
             /\ a.fn \in {"cmd_next", "ota_next"} => Result(t).flag = a.flag
             /\ a.fn = "cmd_list" => Result(t).flag = (a.count > 0)
             /\ a.fn \in Listing => Result(t).count = a.count
             /\ \A f \in CarriedFields(a) : Reads(Result(t).fields[f]) = <<a.op, 0>>
             /\ \A k \in 1 .. Fitting(a, Len(Result(t).list)) : \A f \in CarriedByElement(a) :
                  Reads(Result(t).list[k][f]) = <<a.op, k>>
  <2> DEFINE a == answer[t]
             r == Result(t)
             fn == call[t].fn
             n == call[t].op
  <2>1. /\ Shaped(r, fn, t, n) /\ a.fn = fn /\ fn \in ApiFunctions /\ _rxbody[t] = a.op
        /\ is_success[t] = a.ok /\ a.n \in Nat /\ a.count \in Nat
        /\ Whole(r, a)
    BY <1>3, DoneReads DEF Complete, Done
  <2> HIDE DEF a, r, fn, n
  <2>2. /\ CarriedFields(a) \subseteq FieldsOf(fn)
        /\ fn \in Lists => CarriedByElement(a) \subseteq EntryOf(fn)
    BY <2>1, CarriedNames
  <2>3. ASSUME NEW f \in CarriedFields(a)
        PROVE  Reads(r.fields[f]) = <<a.op, 0>>
    <3>1. Kept(r.fields, FieldsOf(fn), Pointing(fn), t, n) /\ f \in FieldsOf(fn)
      BY <2>1, <2>2 DEF Shaped
    <3>2. Says(r.fields[f], a, 0)
      BY <2>1 DEF Whole
    <3> QED BY <2>1, <3>1, <3>2, ReadsWhatIsSaid
  <2>4. ASSUME NEW k \in 1 .. Fitting(a, Len(r.list)), NEW f \in CarriedByElement(a)
        PROVE  Reads(r.list[k][f]) = <<a.op, k>>
    <3>1. Len(r.list) \in Nat /\ (fn \notin Lists => Len(r.list) = 0)
      BY <2>1 DEF Shaped
    <3>2. Fitting(a, Len(r.list)) \in Nat /\ Fitting(a, Len(r.list)) <= Len(r.list)
      BY <2>1, <3>1, FittingIs
    <3>3. k \in 1 .. Len(r.list) /\ fn \in Lists
      BY <3>1, <3>2
    <3>4. Kept(r.list[k], EntryOf(fn), Pointing(fn), t, n)
      BY <2>1, <3>3 DEF Shaped
    <3>5. f \in EntryOf(fn)
      BY <2>2, <3>3
    <3>6. Says(r.list[k][f], a, k)
      BY <2>1 DEF Whole
    <3>7. (Reads(r.list[k][f]) = <<a.op, k>>) <=> Says(r.list[k][f], a, k)
      BY <2>1, <3>4, <3>5, ReadsWhatIsSaid
    <3> QED BY <3>6, <3>7
  <2>5. /\ is_success[t]
        /\ a.fn \in {"cmd_next", "ota_next"} => r.flag = a.flag
        /\ a.fn = "cmd_list" => r.flag = (a.count > 0)
        /\ a.fn \in Listing => r.count = a.count
    BY <1>3, <2>1 DEF Whole, a
  <2> QED BY <2>3, <2>4, <2>5 DEF a, r
<1>4. OperationsInv => CompleteAnswerFills
  BY <1>3 DEF CompleteAnswerFills
<1> QED BY <1>1, <1>2, <1>4, PTL DEF InboundSpec

\* The field a handler writes last is of this answer only when every other one
\* it asks for is: it is what an application can look at when success is all it
\* is told.  _anedya_op_ongoing_ota_parser does not ask for signature and
\* metadata (Unnoticed), and the next command's id is not asked to be one.
THEOREM LastFieldVouches ==
  ASSUME InboundAssumption
  PROVE  InboundSpec => []LastFieldMeansAll
<1>1. InboundInit => OperationsInv
  BY OperationsInvInit
<1>2. OperationsInv /\ [InboundNext]_inboundVars => OperationsInv'
  BY OperationsInvNext
<1>3. ASSUME OperationsInv, NEW t \in Txns, Done(t), answer[t].ok
      PROVE  LET a == answer[t]
                 but == IF a.fn = "cmd_next" THEN {"commandId"} ELSE {} IN
             /\ a.fn \in {"vs_get", "cmd_next", "ota_next"}
                  /\ Reads(Result(t).fields[LastOf(a.fn)]) = <<a.op, 0>>
                => \A f \in CarriedFields(a) \ but : Reads(Result(t).fields[f]) = <<a.op, 0>>
             /\ \A k \in DOMAIN Result(t).list :
                  Reads(Result(t).list[k][LastOfElement(a.fn)]) = <<a.op, k>>
                    => \A f \in CarriedByElement(a) \ Unnoticed(a, k) :
                         Reads(Result(t).list[k][f]) = <<a.op, k>>
  <2> DEFINE a == answer[t]
             r == Result(t)
             fn == call[t].fn
             n == call[t].op
             but == IF a.fn = "cmd_next" THEN {"commandId"} ELSE {}
  <2>1. /\ Shaped(r, fn, t, n) /\ a.fn = fn /\ fn \in ApiFunctions /\ _rxbody[t] = a.op
        /\ Vouched(r, a)
    BY <1>3, DoneReads DEF Done
  <2> HIDE DEF a, r, fn, n
  <2>2. /\ CarriedFields(a) \subseteq FieldsOf(fn)
        /\ fn \in Lists => CarriedByElement(a) \subseteq EntryOf(fn)
        /\ fn \in {"vs_get", "cmd_next", "ota_next"} => LastOf(fn) \in FieldsOf(fn)
        /\ fn \in Lists => LastOfElement(fn) \in EntryOf(fn)
    BY <2>1, CarriedNames
  <2>3. /\ Kept(r.fields, FieldsOf(fn), Pointing(fn), t, n)
        /\ \A f \in FieldsOf(fn) : (Reads(r.fields[f]) = <<a.op, 0>>) <=> Says(r.fields[f], a, 0)
    <3>1. Kept(r.fields, FieldsOf(fn), Pointing(fn), t, n)
      BY <2>1 DEF Shaped
    <3> QED BY <2>1, <3>1, ReadsWhatIsSaid
  <2>4. ASSUME NEW k \in DOMAIN r.list
        PROVE  /\ k \in 1 .. Len(r.list) /\ fn \in Lists
               /\ \A f \in EntryOf(fn) :
                    (Reads(r.list[k][f]) = <<a.op, k>>) <=> Says(r.list[k][f], a, k)
    <3>1. k \in 1 .. Len(r.list) /\ fn \in Lists
      BY <2>1 DEF Shaped
    <3>2. Kept(r.list[k], EntryOf(fn), Pointing(fn), t, n)
      BY <2>1, <3>1 DEF Shaped
    <3> QED BY <2>1, <3>1, <3>2, ReadsWhatIsSaid
  <2>5. ASSUME a.fn \in {"vs_get", "cmd_next", "ota_next"},
               Reads(r.fields[LastOf(a.fn)]) = <<a.op, 0>>,
               NEW f \in CarriedFields(a) \ but
        PROVE  Reads(r.fields[f]) = <<a.op, 0>>
    <3>1. Says(r.fields[LastOf(a.fn)], a, 0)
      BY <2>1, <2>2, <2>3, <2>5
    <3>2. Says(r.fields[f], a, 0)
      BY <2>1, <2>5, <3>1 DEF Vouched
    <3> QED BY <2>2, <2>3, <3>2
  <2>6. ASSUME NEW k \in DOMAIN r.list,
               Reads(r.list[k][LastOfElement(a.fn)]) = <<a.op, k>>,
               NEW f \in CarriedByElement(a) \ Unnoticed(a, k)
        PROVE  Reads(r.list[k][f]) = <<a.op, k>>
    <3>1. Says(r.list[k][LastOfElement(a.fn)], a, k)
      BY <2>1, <2>2, <2>4, <2>6
    <3>2. Says(r.list[k][f], a, k)
      BY <2>1, <2>4, <3>1 DEF Vouched
    <3> QED BY <2>2, <2>4, <3>2
  <2> QED BY <2>5, <2>6 DEF a, r
<1>4. OperationsInv => LastFieldMeansAll
  BY <1>3 DEF LastFieldMeansAll, LastOf, LastOfElement
<1> QED BY <1>1, <1>2, <1>4, PTL DEF InboundSpec

\* A deployment that is shown as available was announced by the answer to this
\* request: anedya_op_ota_next_req clears the flag before it asks.
THEOREM DeploymentsAreCurrent ==
  ASSUME InboundAssumption
  PROVE  InboundSpec => []NoStaleDeployment
<1>1. InboundInit => OperationsInv
  BY OperationsInvInit
<1>2. OperationsInv /\ [InboundNext]_inboundVars => OperationsInv'
  BY OperationsInvNext
<1>3. OperationsInv => NoStaleDeployment
  BY DoneReads DEF NoStaleDeployment
<1> QED BY <1>1, <1>2, <1>3, PTL DEF InboundSpec

\* The pool is enough for every answer but long lists and much metadata.
LEMMA LongAnswers ==
  ASSUME PoolSize >= 32, PoolSize \in Nat, NEW a, a.fn \in ApiFunctions \cup {"cmd_status"},
         a.n \in Nat, a.meta \in Nat, a.extra \in Nat, a.extra <= 1, ~Parses(a)
  PROVE  TooLong(a)
<1>1. /\ IdNode(a) = 0 \/ IdNode(a) = 1
      /\ SignatureNode(a) = 0 \/ SignatureNode(a) = 1
  BY DEF IdNode, SignatureNode
<1>2. ~(Nodes(a) <= PoolSize)
  BY DEF Parses
<1>3. a.ok
  <2> SUFFICES ASSUME ~a.ok PROVE FALSE
    OBVIOUS
  <2>1. Nodes(a) = 3 + a.extra + 1
    BY DEF Nodes
  <2> QED BY <1>2, <2>1
<1>4. CASE a.fn = "vs_list"
  <2>1. Nodes(a) = 3 + a.extra + (3 + (6 + IdNode(a)) * a.n)
    BY <1>3, <1>4 DEF Nodes
  <2>2. a.n > 4 - IdNode(a)
    <3>1. CASE IdNode(a) = 0
      BY <1>2, <2>1, <3>1
    <3>2. CASE IdNode(a) = 1
      BY <1>2, <2>1, <3>2
    <3> QED BY <1>1, <3>1, <3>2
  <2> QED BY <1>4, <2>2 DEF TooLong, SafeLength, Listing
<1>5. CASE a.fn = "cmd_list"
  <2>1. Nodes(a) = 3 + a.extra + (4 + 6 * a.n)
    BY <1>3, <1>5 DEF Nodes
  <2>2. a.n > 4
    BY <1>2, <2>1
  <2> QED BY <1>5, <2>2 DEF TooLong, SafeLength, Listing
<1>6. CASE a.fn = "ota_ongoing"
  <2>1. Nodes(a) = 3 + a.extra + (2 + (11 + SignatureNode(a)) * a.n + a.meta)
    BY <1>3, <1>6 DEF Nodes
  <2>2. Nodes(a) <= 3 + a.extra + (2 + 12 * a.n + a.meta)
    <3>1. CASE SignatureNode(a) = 0
      BY <2>1, <3>1
    <3>2. CASE SignatureNode(a) = 1
      BY <2>1, <3>2
    <3> QED BY <1>1, <3>1, <3>2
  <2>3. 12 * a.n + a.meta > 26
    <3>1. Nodes(a) \in Int
      BY <1>1, <2>1
    <3> QED BY <1>2, <2>2, <3>1
  <2>4. a.n > 2 \/ (a.n < 2 /\ a.meta > 14) \/ (a.n = 2 /\ a.meta > 2)
    BY <2>3
  <2> QED BY <1>6, <2>4 DEF TooLong, SafeLength, SafeMeta
<1>7. CASE a.fn = "ota_next"
  <2>1. Nodes(a) = 3 + a.extra + IF a.flag THEN 11 + SignatureNode(a) + a.meta ELSE 1
    BY <1>3, <1>7 DEF Nodes
  <2>2. a.meta > 16
    BY <1>1, <1>2, <2>1
  <2> QED BY <1>7, <2>2 DEF TooLong, SafeMeta
<1>8. CASE a.fn \in {"vs_get", "cmd_next", "cmd_status"}
  <2>1. \E m \in 0 .. 9 : Nodes(a) = 3 + a.extra + m
    BY <1>1, <1>3, <1>8 DEF Nodes
  <2> QED BY <1>2, <2>1
<1> QED BY <1>4, <1>5, <1>6, <1>7, <1>8 DEF ApiFunctions

\* An answer that does not parse is one that is too long.
LEMMA FaultInvNext ==
  ASSUME InboundAssumption, PoolAssumption, OperationsInv, FaultInv, [InboundNext]_inboundVars
  PROVE  FaultInv'
<1>1. ASSUME NEW t \in Txns, NEW b \in Asked(t), NullDocument(t, [b EXCEPT !.op = call[t].op])
      PROVE  FaultInv'
  <2> DEFINE e == [b EXCEPT !.op = call[t].op]
  <2>1. /\ call[t].state = "sent" /\ e.fn = call[t].fn /\ e.op = call[t].op /\ ~Parses(e)
        /\ answer' = [answer EXCEPT ![t] = e] /\ call' = call
    BY <1>1 DEF NullDocument
  <2>2. call[t].fn \in ApiFunctions \cup {"cmd_status"} /\ call[t].limit \in LimitsOf(call[t].fn)
    BY <2>1 DEF OperationsInv, TxnInv
  <2>3. b \in ServerAnswers(call[t].fn, call[t].limit) /\ b.extra <= 1
    BY <1>1, <2>2 DEF Asked, InboundAssumption, PoolAssumption
  <2>4. e.n \in Nat /\ e.meta \in Nat /\ e.extra \in Nat /\ e.extra <= 1
    BY <2>3 DEF ServerAnswers
  <2> HIDE DEF e
  <2>5. TooLong(e)
    <3>1. PoolSize >= 32 /\ PoolSize \in Nat
      BY DEF InboundAssumption, PoolAssumption
    <3> QED BY <2>1, <2>2, <2>4, <3>1, LongAnswers
  <2>6. answer'[t] = e
    BY <2>1 DEF OperationsInv
  <2> QED BY <2>1, <2>5, <2>6 DEF FaultInv
<1>2. ASSUME phase' = "fault" => phase = "fault",
             phase = "fault" => UNCHANGED <<call, answer>>
      PROVE  FaultInv'
  BY <1>2 DEF FaultInv
<1>3. ASSUME NEW text \in DeviceTexts, anedya_config_init(text)
      PROVE  FaultInv'
  <2>1. phase' # "fault"
    <3>1. CASE parse_device_id(text).ok
      BY <1>3, <3>1 DEF anedya_config_init
    <3>2. CASE ~parse_device_id(text).ok
      BY <1>3, <3>2 DEF anedya_config_init
    <3> QED BY <3>1, <3>2
  <2> QED BY <2>1 DEF FaultInv
<1>4. ASSUME anedya_config_register_event_handler \/ Start
      PROVE  FaultInv'
  BY <1>4 DEF anedya_config_register_event_handler, Start, FaultInv
<1>5. ASSUME NEW t \in Txns, NEW fn, NEW limit, ApiCall(t, fn, limit)
      PROVE  FaultInv'
  BY <1>2, <1>5 DEF ApiCall, Begin, setupVars
<1>6. ASSUME NEW t \in Txns, NEW e, _anedya_handle_txn_response(t, e)
      PROVE  FaultInv'
  BY <1>2, <1>6 DEF _anedya_handle_txn_response, Arrives, setupVars
<1>7. ASSUME _anedya_handle_event PROVE FaultInv'
  <2>1. phase = "running"
    BY <1>7 DEF _anedya_handle_event, HandleCommand, HandleUpdate, NoMemory, Arrives
  <2>2. UNCHANGED setupVars
    BY <1>7 DEF _anedya_handle_event, HandleCommand, HandleUpdate, NoMemory, Tell
  <2> QED BY <1>2, <2>1, <2>2 DEF setupVars
<1>8. ASSUME NEW t \in Txns, anedya_op_cmd_status_update(t)
      PROVE  FaultInv'
  BY <1>2, <1>8 DEF anedya_op_cmd_status_update, Begin, setupVars
<1>9. ASSUME HandlerReturns PROVE FaultInv'
  BY <1>2, <1>9 DEF HandlerReturns, setupVars, opVars
<1>10. ASSUME UNCHANGED inboundVars PROVE FaultInv'
  BY <1>2, <1>10 DEF inboundVars, setupVars, opVars
<1> QED BY <1>1, <1>3, <1>4, <1>5, <1>6, <1>7, <1>8, <1>9, <1>10 DEF InboundNext

\* With the pool of the code an answer that does not parse is a list of more
\* than three keys (four without ids), four commands or two deployments, or has
\* more metadata than sixteen entries with the next deployment, fourteen with
\* one ongoing one, two with two.
THEOREM SafeListsArrive ==
  ASSUME InboundAssumption, PoolAssumption
  PROVE  InboundSpec => []LimitedListsArrive
<1>1. InboundInit => OperationsInv /\ FaultInv
  BY OperationsInvInit DEF InboundInit, FaultInv
<1>2. OperationsInv /\ FaultInv /\ [InboundNext]_inboundVars => OperationsInv' /\ FaultInv'
  BY OperationsInvNext, FaultInvNext
<1>3. FaultInv => LimitedListsArrive
  BY DEF FaultInv, LimitedListsArrive, TooLong
<1> QED BY <1>1, <1>2, <1>3, PTL DEF InboundSpec
=============================================================================
