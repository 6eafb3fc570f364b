------------------------------ MODULE MCInbound ------------------------------
(* One or two operations on two transactions, and up to two messages from   *)
(* the server: answers complete, failed, lacking one property each, with    *)
(* ids that are none, with metadata and with a property nobody reads, up to *)
(* what the pool can hold and beyond; commands and updates of every type.   *)
EXTENDS Inbound, SequencesExt

Id == <<0, 1, 9, 10, 15, 16, 154, 160, 171, 188, 205, 222, 239, 240, 254, 255>>
Lower(uuid) ==
  LET hex(d) == IF d < 10 THEN 48 + d ELSE 87 + d
      digits(k) == <<hex(uuid[k] \div 16), hex(uuid[k] % 16)>>
      part(i, j) == FlattenSeq([k \in 1 .. j - i + 1 |-> digits(i + k - 1)])
  IN  part(1, 4) \o <<45>> \o part(5, 6) \o <<45>> \o part(7, 8) \o <<45>> \o part(9, 10)
        \o <<45>> \o part(11, 16)
Upper(s) == [i \in DOMAIN s |-> IF s[i] > 96 THEN s[i] - 32 ELSE s[i]]

MCServerText == Lower(Id)
MCDeviceTexts ==
  {MCServerText, Upper(MCServerText), SubSeq(MCServerText, 1, 35), Append(MCServerText, 48),
   [MCServerText EXCEPT ![8] = 103], [MCServerText EXCEPT ![9] = 48]}

MCLimits == {2, 5}
MCRooms == {1, 2}
MCTxns == {1, 2}

\* The properties of the answers to fn, around the list and in an element.
Around(fn) ==
  CASE fn = "vs_get" -> {"namespace", "modified", "type", "scope", "id", "key", "value"}
    [] fn = "vs_list" -> {"count", "next", "keys"}
    [] fn = "cmd_list" -> {"totalcount", "count", "next", "commands"}
    [] fn = "cmd_next" -> NextFields
    [] fn = "ota_next" -> (AssetFields \ {"assetMeta"}) \cup {"deploymentAvailable", "data"}
    [] fn = "ota_ongoing" -> {"count", "data"}
    [] OTHER -> {}
Inside(fn) ==
  CASE fn = "vs_list" -> KeyFields \cup {"namespace"}
    [] fn = "cmd_list" -> CommandFields
    [] fn = "ota_ongoing" -> AssetFields \cup {"status"}
    [] OTHER -> {}
Lists == {"vs_list", "cmd_list", "ota_ongoing"}

Plain(fn, n) ==
  [op |-> 0, fn |-> fn, ok |-> TRUE, n |-> n, count |-> n, flag |-> TRUE, missing |-> "none", at |-> 0,
   bad |-> FALSE, scope |-> "self", meta |-> 0, extra |-> 0,
   type |-> CASE fn = "vs_get" -> "string" [] OTHER -> "signed"]

Complete(fn, limit) ==
  CASE fn = "vs_get" -> {[Plain(fn, 0) EXCEPT !.scope = s, !.type = y] :
                           s \in {"self", "global"}, y \in ValueTypes}
    [] fn \in {"vs_list", "cmd_list"} ->
         {Plain(fn, n) : n \in {0, 1}}
           \cup {[Plain(fn, n) EXCEPT !.extra = 1] : n \in {limit - 1, limit}}
           \cup {[Plain(fn, limit) EXCEPT !.scope = "global"]}
           \cup {[Plain(fn, limit + 1) EXCEPT !.count = limit]}
    [] fn = "ota_ongoing" ->
         {[Plain(fn, n) EXCEPT !.extra = e] : n \in 0 .. 3, e \in {0, 1}}
           \cup {[Plain(fn, n) EXCEPT !.count = n - 1, !.type = "plain"] : n \in 1 .. 2}
           \cup {[Plain(fn, 2) EXCEPT !.extra = 1, !.meta = m] : m \in {2, 3}}
           \cup {[Plain(fn, 1) EXCEPT !.extra = 1, !.meta = m] : m \in {14, 15}}
    [] fn \in {"cmd_next", "ota_next"} ->
         {[Plain(fn, 0) EXCEPT !.flag = b, !.type = y] : b \in BOOLEAN, y \in {"signed", "plain"}}
           \cup {[Plain(fn, 0) EXCEPT !.extra = 1, !.meta = m] :
                   m \in IF fn = "ota_next" THEN {16, 17} ELSE {}}
    [] OTHER -> {Plain(fn, 0)}

\* Properties are missing from lists of two.
Skips(fn, limit) == fn \in Lists /\ limit # 2

MCAnswersTo(fn, limit) ==
  Complete(fn, limit)
    \cup {[Plain(fn, 0) EXCEPT !.ok = FALSE]}
    \cup {[Plain(fn, IF fn \in Lists THEN 2 ELSE 0) EXCEPT !.missing = f, !.scope = s] :
            f \in IF Skips(fn, limit) THEN {} ELSE Around(fn),
            s \in IF fn = "vs_get" THEN {"self", "global"} ELSE {"self"}}
    \cup {[Plain(fn, 2) EXCEPT !.missing = f, !.at = k] :
            f \in IF Skips(fn, limit) THEN {} ELSE Inside(fn),
            k \in IF fn = "ota_ongoing" THEN {2} ELSE {1, 2}}
    \cup IF fn \in {"vs_get", "vs_list", "cmd_status"} THEN {}
         ELSE {[Plain(fn, IF fn \in Lists THEN 2 ELSE 0) EXCEPT !.bad = TRUE]}

\* Sixty-four digits: every one of the alphabet.
EveryDigit ==
  [j \in 1 .. 48 |->
     LET d(k) == (4 * ((j - 1) \div 3) + k) % 64
     IN  ((d(1) * 262144 + d(2) * 4096 + d(3) * 64 + d(4))
            \div <<65536, 256, 1>>[((j - 1) % 3) + 1]) % 256]

Message(id, datatype, data, missing) ==
  [seq |-> 0, id |-> id, datatype |-> datatype, data |-> data, missing |-> missing,
   sent |-> IF datatype = "binary" THEN Base64(data) ELSE data]

MCCommands ==
  {Message(MCServerText, "binary", d, "none") :
     d \in {<<7>>, <<255, 62>>, <<1, 0, 200>>, EveryDigit}}
    \cup {Message(MCServerText, "string", d, "none") : d \in {<<>>, <<104, 105>>}}
    \cup {Message(Upper(MCServerText), y, <<104>>, f) :
            y \in {"string", "binary"}, f \in {"none", "data"}}
    \cup {Message(MCServerText, "string", <<104>>, f) :
            f \in {"commandId", "command", "datatype", "exp"}}
    \cup {Message([MCServerText EXCEPT ![1] = c], "string", <<104>>, "none") : c \in {58, 64}}
    \cup {Message([MCServerText EXCEPT ![36] = c], "string", <<104>>, "none") : c \in {71, 106}}
    \cup {Message(MCServerText, "json", <<104>>, "none"),
          Message([MCServerText EXCEPT ![24] = 48], "string", <<104>>, "none")}

Update(type, form, scope, missing) ==
  [seq |-> 0, type |-> type, form |-> form, scope |-> scope, missing |-> missing]

MCUpdates ==
  {Update(y, f, "self", "none") : y \in ValueTypes, f \in {"text", "truth"}}
    \cup {Update(y, f, "self", "none") :
            y \in {"float", "boolean", "object"}, f \in {"integer", "real"}}
    \cup {Update("binary", "text", "global", "none")}
    \cup {Update("string", "text", "self", f) : f \in {"type", "namespace"}}
=============================================================================
