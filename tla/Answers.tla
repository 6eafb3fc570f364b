------------------------------- MODULE Answers -------------------------------
(***************************************************************************)
(* What the handlers with an answer of their own copy into the             *)
(* application's response structure.  They write field by field and give   *)
(* up at the first one they need and do not find; a property of the wrong  *)
(* type counts as not found.                                               *)
(*                                                                         *)
(* An answer is a record:                                                  *)
(*   op       the operation it answers                                     *)
(*   fn       the API function of that operation                           *)
(*   ok       success                                                      *)
(*   n        elements in its list                                         *)
(*   count    what it says about their number                              *)
(*   flag     available or deploymentAvailable                            *)
(*   missing  the property it lacks, "none" if it lacks none               *)
(*   at       the element that lacks it, 0 for the object around the list  *)
(*   bad      the ids in it are no UUIDs                                   *)
(*   scope    "self" or "global"                                           *)
(*   type     the type of a stored value, or "signed" for a signed asset   *)
(*   meta     metadata entries in it, those of all deployments together    *)
(*   extra    properties nobody reads                                      *)
(* A field holds <<"copy", op, k>>, copied from element k of the answer to *)
(* op, or <<"body", t, k>>, a pointer into the received text that txn t    *)
(* keeps.  assetMeta stands for as many entries as the answer has; the     *)
(* structure does not say how many.  success, errorcode, available, the    *)
(* value of a float and the assetMeta of the next deployment are there     *)
(* when they are read: the code uses them without a check.                 *)
(***************************************************************************)
EXTENDS Integers, Sequences

CONSTANT PoolSize       \* the 32 JSON nodes of every handler

Unset == <<"unset", 0, 0>>
Garbage == <<"garbage", 0, 0>>   \* half of an id

Copy(a, k) == <<"copy", a.op, k>>
Body(t, k) == <<"body", t, k>>

Lacks(a, k, f) == a.missing = f /\ a.at = k

\* The steps a handler takes before the one that fails.
Before(steps, a, k) ==
  {steps[i] : i \in {i \in 1 .. Len(steps) : \A j \in 1 .. i : ~Lacks(a, k, steps[j])}}

\* The fields among taken get their values, through pointers or as copies.
Fill(fields, taken, pointers, a, t, k) ==
  [f \in DOMAIN fields |->
     IF f \notin taken THEN fields[f]
     ELSE IF f \in pointers THEN Body(t, k) ELSE Copy(a, k)]

\* The ids are no UUIDs: what was parsed of them is there.
Spoil(fields, taken, ids) ==
  [f \in DOMAIN fields |-> IF f \in taken \cap ids THEN Garbage ELSE fields[f]]

\* Variants: as many elements as the answer has; all but the last there is
\* room for.
Turns_NoLimit(a, limit) == a.n
Turns_Short(a, limit) == IF a.n < limit THEN a.n ELSE limit - 1

\* How many elements the loops handle: those there are, limit at most.
Turns(a, limit) == IF a.n < limit THEN a.n ELSE limit

\* The elements one after the other; a handler that gives up in one leaves the
\* others.
Elements(list, turns, gives_up(_), element(_, _), fresh) ==
  [k \in 1 .. IF turns > Len(list) THEN turns ELSE Len(list) |->
     LET old == IF k <= Len(list) THEN list[k] ELSE fresh
     IN  IF k > turns \/ \E j \in 1 .. k - 1 : gives_up(j) THEN old ELSE element(old, k)]

-----------------------------------------------------------------------------
(* The response structures.                                                *)

Blank(names) == [f \in names |-> Unset]

ValueFields == {"scope", "id", "key", "value", "modified"}
KeyFields == {"scope", "id", "key", "type", "modified"}
CommandFields == {"commandId", "command", "status", "issuedAt", "updated"}
NextFields == CommandFields \cup {"data", "datatype", "nextavailable"}
AssetFields == {"deploymentId", "assetId", "assetIdentifier", "assetVersion", "assetSigned",
                "assetSignature", "assetMeta", "assetChecksum", "assetSize", "asseturl"}

\* fields, a flag, the counts, and room for that many list entries.
Structure(fields, entry, room) ==
  [fields |-> Blank(fields), flag |-> FALSE, totalcount |-> 0, count |-> 0,
   list |-> [k \in 1 .. room |-> Blank(entry)]]

ResponseOf(fn, room) ==
  CASE fn = "vs_get" -> Structure(ValueFields, {}, 0)
    [] fn = "vs_list" -> Structure({"next"}, KeyFields, room)
    [] fn = "cmd_list" -> Structure({"next"}, CommandFields, room)
    [] fn = "cmd_next" -> Structure(NextFields, {}, 0)
    [] fn = "ota_next" -> Structure(AssetFields, {}, 0)
    [] fn = "ota_ongoing" ->
         [Structure({}, AssetFields \cup {"status"}, room) EXCEPT !.count = room]
    [] OTHER -> Structure({}, {}, 0)

\* A namespace has an id when its scope is global, an asset a signature when it
\* is signed.
IdNode(a) == IF a.scope = "global" THEN 1 ELSE 0
SignatureNode(a) == IF a.type = "signed" THEN 1 ELSE 0

\* How many JSON nodes an answer has: the object, reqId, success, what the
\* handler reads, and extra.  What the answer lacks is counted too: it may be
\* there with another type.
Nodes(a) ==
  3 + a.extra +
    IF ~a.ok THEN 1
    ELSE CASE a.fn = "vs_get" -> 6 + IdNode(a)
           [] a.fn = "vs_list" -> 3 + (6 + IdNode(a)) * a.n
           [] a.fn = "cmd_list" -> 4 + 6 * a.n
           [] a.fn = "cmd_next" -> IF a.flag THEN 9 ELSE 1
           [] a.fn = "ota_next" -> IF a.flag THEN 11 + SignatureNode(a) + a.meta ELSE 1
           [] a.fn = "ota_ongoing" -> 2 + (11 + SignatureNode(a)) * a.n + a.meta
           [] OTHER -> 0

\* Variant: the pool is empty one node early.
Parses_Early(a) == Nodes(a) < PoolSize

\* json_create succeeds.
Parses(a) == Nodes(a) <= PoolSize

-----------------------------------------------------------------------------
(* The handlers, after success was found true.  r is the structure, t the  *)
(* transaction.                                                            *)

ValueTypes == {"string", "float", "binary", "boolean"}

\* Variant: modified is written when it is found.
_anedya_op_valuestore_handle_get_resp_Early(r, a, t) ==
  LET steps == IF a.scope = "global" THEN <<"scope", "id", "key", "value">>
               ELSE <<"scope", "key", "value">>
      pointers == {"scope"} \cup IF a.type \in {"string", "binary"} THEN {"value"} ELSE {}
  IN  IF a.missing \in {"namespace", "modified", "type"} \/ a.type \notin ValueTypes THEN r
      ELSE [r EXCEPT !.fields = Fill(@, Before(steps, a, 0) \cup {"modified"}, pointers, a, t, 0)]

\* The same steps for every type; value and modified are written together.
_anedya_op_valuestore_handle_get_resp(r, a, t) ==
  LET steps == IF a.scope = "global" THEN <<"scope", "id", "key", "value">>
               ELSE <<"scope", "key", "value">>
      got == Before(steps, a, 0)
      pointers == {"scope"} \cup IF a.type \in {"string", "binary"} THEN {"value"} ELSE {}
  IN  IF a.missing \in {"namespace", "modified", "type"} \/ a.type \notin ValueTypes THEN r
      ELSE [r EXCEPT !.fields = Fill(@, IF "value" \in got THEN got \cup {"modified"} ELSE got,
                                     pointers, a, t, 0)]

\* totalcount and count are read from the same property.  A key without an id
\* gets an empty one.
_anedya_op_valuestore_handle_list_obj_resp(r, a, t) ==
  LET got == Before(<<"count", "next", "keys">>, a, 0)
      steps == <<"namespace", "scope", "key", "type", "modified">>
      key(old, k) ==
        LET taken == Before(steps, a, k)
            filled == Fill(old, IF "scope" \in taken THEN taken \cup {"id"} ELSE taken,
                           {"scope"}, a, t, k)
        IN  IF "scope" \in taken /\ (a.scope = "self" \/ Lacks(a, k, "id"))
              THEN [filled EXCEPT !.id = <<"empty", a.op, k>>] ELSE filled
      gives_up(k) == \E j \in 1 .. Len(steps) : Lacks(a, k, steps[j])
      count == IF "count" \in got THEN a.count ELSE r.count
  IN  [r EXCEPT !.totalcount = IF "count" \in got THEN a.count ELSE @,
                !.count = count,
                !.fields = Fill(@, got, {}, a, t, 0),
                !.list = IF "keys" \in got
                           THEN Elements(@, Turns(a, count), gives_up, key, Blank(KeyFields)) ELSE @]

\* An empty list ends here; the flag is is_available.
_anedya_op_command_handle_list_resp(r, a, t) ==
  LET got == Before(<<"count", "next", "commands">>, a, 0)
      steps == <<"commandId", "command", "status", "issuedAt", "updated">>
      command(old, k) ==
        IF a.bad THEN Spoil(old, Before(steps, a, k), {"commandId"})
        ELSE Fill(old, Before(steps, a, k), {}, a, t, k)
      gives_up(k) == a.bad \/ \E j \in 1 .. Len(steps) : Lacks(a, k, steps[j])
      read == [r EXCEPT !.totalcount = IF Lacks(a, 0, "totalcount") THEN @ ELSE a.count]
  IN  IF "count" \notin got THEN read
      ELSE IF a.count = 0 THEN [read EXCEPT !.count = 0, !.flag = FALSE]
      ELSE [read EXCEPT
              !.count = a.count, !.flag = TRUE,
              !.fields = Fill(@, got, {}, a, t, 0),
              !.list = IF "commands" \in got
                         THEN Elements(@, Turns(a, a.count), gives_up, command,
                                  Blank(CommandFields))
                         ELSE @]

\* A bad id is reported and does not stop the handler.
_anedya_op_cmd_handle_next_resp(r, a, t) ==
  LET got == Before(<<"commandId", "command", "status", "data", "datatype",
                      "issuedAt", "updated", "nextavailable">>, a, 0)
      filled == Fill(r.fields, got, {"data"}, a, t, 0)
  IN  IF ~a.flag THEN [r EXCEPT !.flag = FALSE]
      ELSE [r EXCEPT !.flag = TRUE,
                     !.fields = IF a.bad THEN Spoil(filled, got, {"commandId"}) ELSE filled]

\* A signed asset needs its signature; assetMeta is there; the ids come last,
\* when all the rest was found.
_anedya_op_ota_next_parser(r, a, t) ==
  LET steps == IF a.type = "signed"
                 THEN <<"data", "deploymentId", "assetId", "assetIdentifier", "assetVersion",
                        "assetSigned", "assetSignature", "assetMeta", "assetChecksum",
                        "assetSize", "asseturl">>
                 ELSE <<"data", "deploymentId", "assetId", "assetIdentifier", "assetVersion",
                        "assetSigned", "assetMeta", "assetChecksum", "assetSize", "asseturl">>
      ids == {"deploymentId", "assetId"}
      got == Before(steps, a, 0)
      all == \A j \in 1 .. Len(steps) : ~Lacks(a, 0, steps[j])
      filled == Fill(r.fields, IF all /\ ~a.bad THEN got ELSE got \ ids, {}, a, t, 0)
  IN  IF Lacks(a, 0, "deploymentAvailable") THEN r
      ELSE IF ~a.flag THEN [r EXCEPT !.flag = FALSE]
      ELSE [r EXCEPT !.flag = TRUE,
                     !.fields = IF all /\ a.bad THEN Spoil(filled, got, {"deploymentId"})
                                ELSE filled]

\* count is the room of the application's array, and is shortened only when an
\* element is left that the answer did not count.  A deployment without its
\* signature or metadata keeps those that are in the structure.
_anedya_op_ongoing_ota_parser(r, a, t) ==
  LET steps == <<"deploymentId", "assetId", "assetIdentifier", "assetVersion", "assetSigned",
                 "assetChecksum", "assetSize", "asseturl", "status">>
      options(k) == {f \in {"assetSignature", "assetMeta"} :
                       ~Lacks(a, k, f) /\ (f = "assetSignature" => a.type = "signed")}
      deployment(old, k) ==
        LET got == Before(steps, a, k)
        IN  IF a.bad THEN Spoil(old, got, {"deploymentId"})
            ELSE Fill(old, got \cup IF "assetSigned" \in got THEN options(k) ELSE {}, {}, a, t, k)
      gives_up(k) == a.bad \/ \E j \in 1 .. Len(steps) : Lacks(a, k, steps[j])
      room == IF a.count < r.count THEN a.count ELSE r.count
  IN  IF Lacks(a, 0, "count") THEN r
      ELSE IF a.count = 0 THEN [r EXCEPT !.count = 0]
      ELSE IF Lacks(a, 0, "data") THEN r
      ELSE [r EXCEPT !.list = Elements(@, Turns(a, room), gives_up, deployment,
                                      Blank(AssetFields \cup {"status"})),
                     !.count = IF a.count < r.count /\ a.n > a.count
                                  /\ ~\E k \in 1 .. a.count : gives_up(k)
                                 THEN a.count ELSE @]

\* The switch on txn->_op; the plain answers have only a verdict.
Handled(r, a, t) ==
  CASE a.fn = "vs_get" -> _anedya_op_valuestore_handle_get_resp(r, a, t)
    [] a.fn = "vs_list" -> _anedya_op_valuestore_handle_list_obj_resp(r, a, t)
    [] a.fn = "cmd_list" -> _anedya_op_command_handle_list_resp(r, a, t)
    [] a.fn = "cmd_next" -> _anedya_op_cmd_handle_next_resp(r, a, t)
    [] a.fn = "ota_next" -> _anedya_op_ota_next_parser(r, a, t)
    [] a.fn = "ota_ongoing" -> _anedya_op_ongoing_ota_parser(r, a, t)
    [] OTHER -> r

=============================================================================
