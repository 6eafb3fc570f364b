-------------------------------- MODULE Events --------------------------------
(***************************************************************************)
(* What the server sends unasked: commands and updates of the value store. *)
(* The structures the event handler of the application gets are on the     *)
(* stack of the MQTT task and are not cleared; their results are not       *)
(* looked at before the application is called.                             *)
(*                                                                         *)
(* A command message is a record: the text of its id, its datatype, its    *)
(* data in bytes and as sent, and the property it lacks.  An update has a  *)
(* type, a scope, the form of its value, and what it lacks.  seq           *)
(* numbers the messages.  scope, key, value and modified of an update are  *)
(* there: the code uses them without a check, or (json_getType) before it. *)
(***************************************************************************)
EXTENDS Codec

NotSet == 0

\* anedya_command_obj_t as _anedya_handle_event declares it.
NewCommand ==
  [cmdId |-> [k \in 1 .. 16 |-> Unwritten], command |-> NotSet, data |-> <<>>,
   data_len |-> -1, cmd_data_type |-> "UNKNOWN", exp |-> NotSet]

\* Variant: the type is set before the data is there.
CommandData_TypeFirst(m, obj) ==
  CASE m.datatype \notin {"string", "binary"} -> [ok |-> TRUE, obj |-> obj]
    [] m.missing = "data" /\ m.datatype \in {"string", "binary"} ->
         [ok |-> FALSE, obj |-> [obj EXCEPT !.cmd_data_type = m.datatype]]
    [] OTHER ->
         LET bytes == IF m.datatype = "string" THEN m.sent ELSE base64_decode(m.sent)
         IN  [ok |-> TRUE,
              obj |-> [obj EXCEPT !.data = bytes, !.data_len = Len(bytes),
                                  !.cmd_data_type = m.datatype]]

\* The data by its datatype: a string as it is, binary data decoded; any other
\* datatype is ignored.
CommandData(m, obj) ==
  CASE m.datatype \notin {"string", "binary"} -> [ok |-> TRUE, obj |-> obj]
    [] m.missing = "data" /\ m.datatype \in {"string", "binary"} -> [ok |-> FALSE, obj |-> obj]
    [] OTHER ->
         LET bytes == IF m.datatype = "string" THEN m.sent ELSE base64_decode(m.sent)
         IN  [ok |-> TRUE,
              obj |-> [obj EXCEPT !.data = bytes, !.data_len = Len(bytes),
                                  !.cmd_data_type = m.datatype]]

\* Step by step, up to the first property that is not there or not right;
\* without memory for its copy of the text the parser does nothing.
_anedya_parse_inbound_command(m, obj, memory) ==
  LET id == uuid_parse(m.id, obj.cmdId)
      withId == [obj EXCEPT !.cmdId = id.uuid]
      withCommand == [withId EXCEPT !.command = m.seq]
      d == CommandData(m, withCommand)
  IN  IF ~memory \/ m.missing = "commandId" THEN obj
      ELSE IF ~id.ok \/ m.missing = "command" THEN withId
      ELSE IF m.missing = "datatype" THEN withCommand
      ELSE IF ~d.ok \/ m.missing = "exp" THEN d.obj
      ELSE [d.obj EXCEPT !.exp = m.seq]

-----------------------------------------------------------------------------
NewUpdate == [scope |-> "unset", key |-> NotSet, value |-> NotSet, modified |-> NotSet]

\* Variant: a binary value is announced as a string.
EventOf_Binary(type) ==
  CASE type = "float" -> "VS_UPDATE_FLOAT"
    [] type \in {"string", "binary"} -> "VS_UPDATE_STRING"
    [] type = "boolean" -> "VS_UPDATE_BOOL"
    [] OTHER -> "none"

\* _anedya_parse_valuestore_type, and the event its case announces.
EventOf(type) ==
  CASE type = "float" -> "VS_UPDATE_FLOAT"
    [] type = "string" -> "VS_UPDATE_STRING"
    [] type = "binary" -> "VS_UPDATE_BIN"
    [] type = "boolean" -> "VS_UPDATE_BOOL"
    [] OTHER -> "none"

_anedya_parse_valuestore_type(m, memory) ==
  IF ~memory \/ m.missing = "type" THEN "none" ELSE EventOf(m.type)

\* The four parsers differ in the values they accept.  Only the scope "self" is
\* written; without an accepted value nothing after the key is.
ParseUpdate(m, obj, accepted) ==
  LET named == [obj EXCEPT !.scope = IF m.scope = "self" THEN "self" ELSE @, !.key = m.seq]
  IN  IF m.missing = "namespace" THEN obj
      ELSE IF m.form \notin accepted THEN named
      ELSE [named EXCEPT !.value = m.seq, !.modified = m.seq]

_anedya_parse_valuestore_float(m, obj) == ParseUpdate(m, obj, {"integer", "real"})
_anedya_parse_valuestore_string(m, obj) == ParseUpdate(m, obj, {"text"})
\* A real number passes for a truth value, an integer does not.
_anedya_parse_valuestore_bool(m, obj) == ParseUpdate(m, obj, {"truth", "real"})
_anedya_parse_valuestore_bin(m, obj) == ParseUpdate(m, obj, {"text"})

UpdateFor(event, m) ==
  CASE event = "VS_UPDATE_FLOAT" -> _anedya_parse_valuestore_float(m, NewUpdate)
    [] event = "VS_UPDATE_STRING" -> _anedya_parse_valuestore_string(m, NewUpdate)
    [] event = "VS_UPDATE_BOOL" -> _anedya_parse_valuestore_bool(m, NewUpdate)
    [] OTHER -> _anedya_parse_valuestore_bin(m, NewUpdate)

=============================================================================
