---------------------------- MODULE JsonBuilder ----------------------------
(***************************************************************************)
(* The JSON builder writes the body of every request into a buffer of the  *)
(* caller.  Each call gets the position of the terminator (dest) and a     *)
(* counter of the room that is left (marker), and returns the new position.*)
(* Nothing is reported when the room runs out: text is left out.           *)
(*                                                                         *)
(* A character is a string of TLA+; those that matter are named.  Index    *)
(* size of mem is the byte after the buffer.                               *)
(***************************************************************************)
EXTENDS Integers, Sequences

CONSTANTS Sizes,     \* sizes of the buffers, sizeof(txbuffer)
          Names,     \* names of properties, without the null pointer
          Values,    \* text values
          Numbers,   \* numbers as printed
          Chars,     \* characters of names, values and numbers
          Control,   \* those that are escaped as \u00XX
          Escaped,   \* those that are escaped as \c
          MaxDepth,  \* bound on the nesting, for model checking
          MaxCalls   \* bound on the calls that add something

NUL == "NUL"
STALE == "STALE"         \* a byte nobody has written
QUOTE == "QUOTE"
BACKSLASH == "BACKSLASH"
\* Whatever may be in the buffer.
Bytes ==
  Chars \cup {NUL, STALE, QUOTE, BACKSLASH, "{", "}", "[", "]", ",", ":", "e", "u", "0",
              "h", "t", "r", "f", "a", "l", "s", "n"}

NoName == <<>>           \* the null pointer where a name is expected

ASSUME BuilderAssumption ==
  /\ Sizes \subseteq Nat \ {0}
  /\ Names \subseteq Seq(Chars) \ {<<>>} /\ Values \subseteq Seq(Chars)
  /\ Numbers \subseteq Seq(Chars) \ {<<>>}
  /\ NUL \notin Chars /\ Control \subseteq Chars /\ Escaped \subseteq Chars
  /\ MaxDepth \in Nat /\ MaxCalls \in Nat

VARIABLES size,     \* size of the buffer in use
          buf,      \* the buffer: contents, position and room
          src,      \* what is still to be copied of a text value
          phase,    \* "build" between calls, "string" in atoesc, "done" after end
          nest,     \* objects and arrays that are open, with the text so far
          whole,    \* the document that the calls described, once it is closed
          calls,    \* calls that added something
          plain     \* no character of Control was in a value

builderVars == <<size, buf, src, phase, nest, whole, calls, plain>>

-----------------------------------------------------------------------------
(* The helpers.                                                            *)

\* Variant: one byte of the room is kept for the terminator.
Put_KeepsByte(b, s) ==
  LET n == IF Len(s) < b.marker THEN Len(s) ELSE IF b.marker = 0 THEN 0 ELSE b.marker - 1
  IN  [mem |-> [k \in DOMAIN b.mem |->
                  IF k \in b.dest .. b.dest + n - 1 THEN s[k - b.dest + 1] ELSE b.mem[k]],
       dest |-> b.dest + n,
       marker |-> b.marker - n]

\* As much of s as there is room for, without a terminator.
Put(b, s) ==
  LET n == IF Len(s) <= b.marker THEN Len(s) ELSE b.marker
  IN  [mem |-> [k \in DOMAIN b.mem |->
                  IF k \in b.dest .. b.dest + n - 1 THEN s[k - b.dest + 1] ELSE b.mem[k]],
       dest |-> b.dest + n,
       marker |-> b.marker - n]

Terminate(b) == [b EXCEPT !.mem = [b.mem EXCEPT ![b.dest] = NUL]]

\* Variant: the text is not terminated.
atoa_Bare(b, s) == Put(b, s)

chtoa(b, ch) == IF b.marker = 0 THEN b ELSE Terminate(Put(b, <<ch>>))
atoa(b, s) == Terminate(Put(b, s))

\* Variant: the room of the comma is not given back.
DropComma_Kept(b) ==
  IF b.mem[b.dest - 1] = "," THEN [b EXCEPT !.dest = b.dest - 1] ELSE b

\* The comma before a closing bracket is taken back.
DropComma(b) ==
  IF b.mem[b.dest - 1] = ","
    THEN [b EXCEPT !.dest = b.dest - 1, !.marker = b.marker + 1]
    ELSE b

\* The name of an object, an array or a primitive, with what follows it.
Named(b, name, rest) == atoa(atoa(chtoa(b, QUOTE), name), rest)

Open(b, name, bracket) ==
  IF name = NoName THEN chtoa(b, bracket) ELSE Named(b, name, <<QUOTE, ":", bracket>>)

strname(b, name) ==
  IF name = NoName THEN chtoa(b, QUOTE) ELSE Named(b, name, <<QUOTE, ":", QUOTE>>)

primitivename(b, name) ==
  IF name = NoName THEN b ELSE Named(b, name, <<QUOTE, ":">>)

\* The byte after a \u escape is counted and not written: the loop steps once
\* more than the six characters.
Skip(b) == IF b.marker = 0 THEN b ELSE [b EXCEPT !.dest = b.dest + 1, !.marker = b.marker - 1]

\* Variant: the position is not moved past the escaped character.
Escape_Lost(b, ch) ==
  IF ch \in Control THEN Skip(Put(b, <<BACKSLASH, "u", "0", "0", "h", "h">>))
  ELSE IF ch \in Escaped THEN Put(b, <<BACKSLASH>>)
  ELSE Put(b, <<ch>>)

\* One turn of the loop in atoesc.
Escape(b, ch) ==
  IF ch \in Control THEN Skip(Put(b, <<BACKSLASH, "u", "0", "0", "h", "h">>))
  ELSE IF ch \in Escaped THEN Put(b, <<BACKSLASH, "e">>)
  ELSE Put(b, <<ch>>)

\* Variant: the length that snprintf would have needed is counted.
Digits_Uncut(b, d) ==
  LET w == IF Len(d) < b.marker THEN Len(d) ELSE b.marker - 1
  IN  [mem |-> [k \in DOMAIN b.mem |->
                  IF b.marker > 0 /\ k \in b.dest .. b.dest + w - 1 THEN d[k - b.dest + 1]
                  ELSE IF b.marker > 0 /\ k = b.dest + w THEN NUL
                  ELSE b.mem[k]],
       dest |-> b.dest + Len(d),
       marker |-> (b.marker - Len(d)) % 256]

\* snprintf writes a terminator within the room it is given, and what it
\* returns is cut to the room.
Digits(b, d) ==
  LET n == IF Len(d) <= b.marker THEN Len(d) ELSE b.marker
      w == IF Len(d) < b.marker THEN Len(d) ELSE b.marker - 1
  IN  [mem |-> [k \in DOMAIN b.mem |->
                  IF b.marker > 0 /\ k \in b.dest .. b.dest + w - 1 THEN d[k - b.dest + 1]
                  ELSE IF b.marker > 0 /\ k = b.dest + w THEN NUL
                  ELSE b.mem[k]],
       dest |-> b.dest + n,
       marker |-> b.marker - n]

-----------------------------------------------------------------------------
(* The document that the calls describe, put together without a buffer.    *)

Element(name, text) ==
  (IF name = NoName THEN <<>> ELSE <<QUOTE>> \o name \o <<QUOTE, ":">>) \o text

\* The characters of a text value, the special ones with their escapes.
EscapedChar(ch) ==
  CASE ch \in Control -> <<BACKSLASH, "u", "0", "0", "h", "h">>
    [] ch \in Escaped \ Control -> <<BACKSLASH, "e">>
    [] OTHER -> <<ch>>

EscapedText(v) ==
  LET upto[k \in 0 .. Len(v)] ==
        IF k = 0 THEN <<>> ELSE upto[k - 1] \o EscapedChar(v[k])
  IN  upto[Len(v)]

Top == nest[Len(nest)]

\* The innermost open bracket with one more item.
WithItem(stack, item) ==
  LET n == Len(stack)
  IN  [stack EXCEPT ![n].text = IF @ = <<>> THEN item ELSE @ \o <<",">> \o item]

-----------------------------------------------------------------------------
(* The calls, in the orders in which the API functions make them: names     *)
(* inside objects, none inside arrays, every bracket closed, end last.      *)

BuilderInit ==
  /\ size \in Sizes
  /\ buf = [mem |-> [k \in 0 .. size |-> STALE], dest |-> 0, marker |-> size]
  /\ src = <<>>
  /\ phase = "build"
  /\ nest = <<>>
  /\ whole = <<>>
  /\ calls = 0
  /\ plain = TRUE

Words == {<<"t", "r", "u", "e">>, <<"f", "a", "l", "s", "e">>, <<"n", "u", "l", "l">>}

MayAdd(name) ==
  /\ phase = "build" /\ calls < MaxCalls
  /\ nest # <<>>
  /\ IF Top.close = "}" THEN name \in Names ELSE name = NoName
  /\ calls' = calls + 1

OpenBracket(name, open, close) ==
  /\ IF nest = <<>> THEN phase = "build" /\ calls = 0 /\ name = NoName /\ calls' = 1
                    ELSE MayAdd(name)
  /\ Len(nest) < MaxDepth
  /\ buf' = Open(buf, name, open)
  /\ nest' = Append(nest, [name |-> name, open |-> open, close |-> close, text |-> <<>>])
  /\ UNCHANGED <<size, src, phase, whole, plain>>

anedya_json_objOpen(name) == OpenBracket(name, "{", "}")
anedya_json_arrOpen(name) == OpenBracket(name, "[", "]")

CloseBracket(close) ==
  /\ phase = "build" /\ nest # <<>> /\ Top.close = close
  /\ buf' = atoa(DropComma(buf), <<close, ",">>)
  /\ LET rest == SubSeq(nest, 1, Len(nest) - 1)
         item == Element(Top.name, <<Top.open>> \o Top.text \o <<close>>)
     IN  IF rest = <<>> THEN nest' = <<>> /\ whole' = item
                        ELSE nest' = WithItem(rest, item) /\ UNCHANGED whole
  /\ UNCHANGED <<size, src, phase, calls, plain>>

anedya_json_objClose == CloseBracket("}")
anedya_json_arrClose == CloseBracket("]")

\* anedya_json_nstr: the name, the value character by character, the end.
NstrName(name, v) ==
  /\ MayAdd(name)
  /\ buf' = strname(buf, name)
  /\ src' = v
  /\ phase' = "string"
  /\ nest' = WithItem(nest, Element(name, <<QUOTE>> \o EscapedText(v) \o <<QUOTE>>))
  /\ plain' = (plain /\ \A k \in 1 .. Len(v) : v[k] \notin Control)
  /\ UNCHANGED <<size, whole>>

NstrChar ==
  /\ phase = "string" /\ src # <<>> /\ buf.marker # 0
  /\ buf' = Escape(buf, Head(src))
  /\ src' = Tail(src)
  /\ UNCHANGED <<size, phase, nest, whole, calls, plain>>

NstrEnd ==
  /\ phase = "string" /\ (src = <<>> \/ buf.marker = 0)
  /\ buf' = atoa(Terminate(buf), <<QUOTE, ",">>)
  /\ src' = <<>>
  /\ phase' = "build"
  /\ UNCHANGED <<size, nest, whole, calls, plain>>

AddPrimitive(name, text) ==
  /\ MayAdd(name)
  /\ nest' = WithItem(nest, Element(name, text))
  /\ UNCHANGED <<size, src, phase, whole, plain>>

\* anedya_json_bool and anedya_json_null
AddWord(name, w) ==
  /\ AddPrimitive(name, w)
  /\ buf' = atoa(primitivename(buf, name), Append(w, ","))

\* anedya_json_int, _uint, _verylong, _double: json_num
AddNumber(name, d) ==
  /\ AddPrimitive(name, d)
  /\ buf' = chtoa(Digits(primitivename(buf, name), d), ",")

anedya_json_end ==
  /\ phase = "build" /\ nest = <<>> /\ calls > 0
  /\ phase' = "done"
  /\ buf' = IF buf.mem[buf.dest - 1] = "," THEN Terminate(DropComma(buf)) ELSE buf
  /\ UNCHANGED <<size, src, nest, whole, calls, plain>>

BuilderNext ==
  \/ \E name \in Names \cup {NoName} :
       \/ anedya_json_objOpen(name)
       \/ anedya_json_arrOpen(name)
       \/ \E v \in Values : NstrName(name, v)
       \/ \E w \in Words : AddWord(name, w)
       \/ \E d \in Numbers : AddNumber(name, d)
  \/ anedya_json_objClose
  \/ anedya_json_arrClose
  \/ NstrChar
  \/ NstrEnd
  \/ anedya_json_end

BuilderSpec == BuilderInit /\ [][BuilderNext]_builderVars

-----------------------------------------------------------------------------
\* The text in the buffer: what is before the first terminator.
Length ==
  CHOOSE k \in 0 .. size :
    buf.mem[k] = NUL /\ \A j \in 0 .. k - 1 : buf.mem[j] # NUL
Text == [k \in 1 .. Length |-> buf.mem[k - 1]]

\* Types: the position stays inside the buffer or right after it, and the count
\* of the room, which is unsigned in the code, never goes below zero.
BuilderTypeOK ==
  /\ size \in Nat
  /\ buf \in [mem : [0 .. size -> Bytes], dest : 0 .. size, marker : 0 .. size]
  /\ src \in Seq(Chars)
  /\ phase \in {"build", "string", "done"}

\* The room that is counted is the room that is left: position and marker
\* always add up to the size of the buffer, so no call writes past the byte
\* after the buffer.
RoomCounted == buf.dest + buf.marker = size

\* Between calls the text is terminated no later than at the position, and
\* inside the buffer whenever there is room left.
Terminated ==
  phase # "string" /\ buf.dest > 0 =>
    /\ \E k \in 0 .. buf.dest : buf.mem[k] = NUL
    /\ buf.marker # 0 => buf.mem[buf.dest] = NUL

\* A body that is shorter than the buffer by two or more is complete: this is
\* how a caller, who is told nothing, can know that nothing was left out.
ShortMeansWhole ==
  phase = "done" /\ plain /\ Length < size - 1 => Text = whole

\* A document that fits into the buffer is never cut.
WholeWhenFits ==
  phase = "done" /\ plain /\ Len(whole) <= size => Text = whole

\* The same of every value, as the header promises: "Backslash escapes will be
\* added for special characters" (json_builder.h 49).
EscapesAdded ==
  phase = "done" /\ Len(whole) <= size => Text = whole

=============================================================================
