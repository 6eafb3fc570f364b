----------------------------- MODULE JsonParser -----------------------------
(***************************************************************************)
(* The parser of answers and events.  It works in the text itself: names   *)
(* and values stay where they are and are ended by terminators written     *)
(* over the punctuation, and the nodes of the tree are taken from a pool   *)
(* of fixed size.  While an object or array is open, its sibling field     *)
(* holds its parent.                                                       *)
(*                                                                         *)
(* A text is a sequence of characters (strings of TLA+), the terminator    *)
(* after it.  Pointers are indices from 1, and 0 is the null pointer.      *)
(*                                                                         *)
(* Nothing here asks what a document is: Render is whatever text it has,   *)
(* well-formed or not.  JsonDocuments says how the server writes one and   *)
(* what can be read of the tree.                                           *)
(***************************************************************************)
EXTENDS Integers, Sequences

CONSTANTS Documents,    \* what the server wants to say
          Styles,       \* how it may write it
          Render(_, _), \* the text of a document in a style
          Chars,        \* the characters of texts
          Qty           \* size of the pool, 32 nodes in every caller

VARIABLES doc, style, \* the document and how it is written
          cut,        \* how much of the text arrived
          str,        \* the text, as the parser leaves it
          ptr, obj,   \* where the parser is, and in which object or array
          pool,       \* the nodes
          free,       \* the next node that is free
          phase       \* "start", "parse", "done" or "failed"

docVars == <<doc, style, cut>>
parserVars == <<docVars, str, ptr, obj, pool, free, phase>>

NUL == "NUL"
QUOTE == "QUOTE"
BACKSLASH == "BACKSLASH"
Blank == {" ", "LF", "CR", "TAB", "FF"}
Digits == <<"0", "1", "2", "3", "4", "5", "6", "7", "8", "9">>
Digit == {"0", "1", "2", "3", "4", "5", "6", "7", "8", "9"}
Hex == Digit \cup {"a", "b", "c", "d", "e", "f", "A", "B", "C", "D", "E", "F"}
\* What getEscape knows, and what it makes of it.
Escaped == {QUOTE, BACKSLASH, "/", "b", "f", "n", "r", "t"}
Codes == {QUOTE, BACKSLASH, "/", "BS", "FF", "LF", "CR", "TAB"}
\* Whatever may be in the text while it is parsed.
Bytes == Chars \cup Codes \cup {NUL, "?"}

ASSUME ParserAssumption ==
  /\ \A d \in Documents, st \in Styles : Render(d, st) \in Seq(Chars)
  /\ NUL \notin Chars
  /\ Qty \in Nat \ {0}

Text == Render(doc, style)

-----------------------------------------------------------------------------
(* The functions that read the text.                                       *)

\* The first character from p on that is not in set; null at the terminator.
goWhile(s, p, set) ==
  LET k == CHOOSE i \in p .. Len(s) :
             s[i] \notin set /\ \A j \in p .. i - 1 : s[j] \in set
  IN  IF s[k] = NUL THEN 0 ELSE k

goBlank(s, p) == goWhile(s, p, Blank)
goNum(s, p) == goWhile(s, p, Digit)

isEndOfPrimitive(c) == c \in Blank \cup {",", "}", "]"}

getEscape(c) ==
  CASE c = "b" -> "BS"
    [] c = "f" -> "FF"
    [] c = "n" -> "LF"
    [] c = "r" -> "CR"
    [] c = "t" -> "TAB"
    [] OTHER -> c

Failed(s) == [ok |-> FALSE, str |-> s, ptr |-> 0, type |-> "none"]

\* setToNull: the character behind a value is overwritten with a terminator,
\* unless it closes a block, which does so itself.
EndPrimitive(s, p, type) ==
  IF p = 0 \/ ~isEndOfPrimitive(s[p]) THEN Failed(s)
  ELSE IF s[p] \in {"}", "]"} THEN [ok |-> TRUE, type |-> type, str |-> s, ptr |-> p]
  ELSE [ok |-> TRUE, type |-> type, str |-> [s EXCEPT ![p] = NUL], ptr |-> p + 1]

\* What is read from p on, up to the closing quote: its characters, without
\* escapes, and the position behind it.
parseString(s, p) ==
  LET bad == [ok |-> FALSE, chars |-> <<>>, end |-> 0]
      more(c, rest) == [ok |-> rest.ok, chars |-> <<c>> \o rest.chars, end |-> rest.end]
      at[h \in p .. Len(s) + 6] ==
        IF h >= Len(s) THEN bad
        ELSE IF s[h] = QUOTE THEN [ok |-> TRUE, chars |-> <<>>, end |-> h + 1]
        ELSE IF s[h] # BACKSLASH THEN more(s[h], at[h + 1])
        ELSE IF s[h + 1] = "u"
          THEN IF \A k \in h + 2 .. h + 5 : k < Len(s) /\ s[k] \in Hex
                 THEN more("?", at[h + 6]) ELSE bad
        ELSE IF s[h + 1] \in Escaped THEN more(getEscape(s[h + 1]), at[h + 2])
        ELSE bad
  IN  at[p]

\* The string that starts behind the quote at p, written back in place; it is
\* never longer than what was read.
StringAt(s, p) ==
  LET r == parseString(s, p + 1)
      n == Len(r.chars)
  IN  IF ~r.ok THEN Failed(s)
      ELSE [ok |-> TRUE, type |-> "text", ptr |-> r.end,
            str |-> SubSeq(s, 1, p) \o Append(r.chars, NUL) \o SubSeq(s, p + n + 2, Len(s))]

\* propertyName: the name, the colon and the start of the value.
propertyName(s, p) ==
  LET name == StringAt(s, p)
      colon == goBlank(name.str, name.ptr)
      value == goBlank(name.str, colon + 1)
  IN  IF s[p] # QUOTE \/ ~name.ok THEN Failed(s)
      ELSE IF colon = 0 THEN Failed(s)
      ELSE IF name.str[colon] # ":" THEN Failed(s)
      ELSE IF value = 0 THEN Failed(s)
      ELSE [ok |-> TRUE, type |-> "text", str |-> name.str, ptr |-> value]

WordAt(s, p, w, type) ==
  IF \A k \in 1 .. Len(w) : p + k <= Len(s) /\ s[p + k - 1] = w[k]
    THEN EndPrimitive(s, p + Len(w), type) ELSE Failed(s)

\* An optional part of a number: what it begins with, then digits.
Part(s, p, signs, begins) ==
  IF p = 0 THEN 0
  ELSE IF s[p] \notin begins THEN p
  ELSE LET q == IF s[p + 1] \in signs THEN p + 2 ELSE p + 1
       IN  IF q <= Len(s) /\ s[q] \in Digit THEN goNum(s, q) ELSE 0

\* An integer of as many characters as the largest is compared with it; p is
\* where it begins, q where it ends.
Max64 == <<"9", "2", "2", "3", "3", "7", "2", "0", "3", "6", "8", "5", "4", "7", "7", "5", "8", "0", "7">>
Fits(s, p, q) ==
  LET d == IF s[p] = "-" THEN p + 1 ELSE p
      threshold == IF s[p] = "-" THEN [Max64 EXCEPT ![19] = "8"] ELSE Max64
      less(a, b) == \E k, m \in 1 .. 10 : k < m /\ Digits[k] = a /\ Digits[m] = b
  IN  \/ q - d < 19
      \/ /\ q - d = 19
         /\ ~\E k \in 1 .. 19 : /\ less(threshold[k], s[d + k - 1])
                               /\ \A j \in 1 .. k - 1 : s[d + j - 1] = threshold[j]

numValue(s, p) ==
  LET d == IF s[p] = "-" THEN p + 1 ELSE p
      int == IF s[d] \notin Digit THEN 0
             ELSE IF s[d] # "0" THEN goNum(s, d)
             ELSE IF s[d + 1] \in Digit THEN 0 ELSE d + 1
      frac == Part(s, int, {}, {"."})
      exp == Part(s, frac, {"+", "-"}, {"e", "E"})
  IN  IF exp = int /\ int # 0 /\ ~Fits(s, p, int) THEN Failed(s)
      ELSE EndPrimitive(s, exp, IF exp = int THEN "integer" ELSE "real")

Value(s, p) ==
  CASE s[p] = QUOTE -> StringAt(s, p)
    [] s[p] = "t" -> WordAt(s, p, <<"t", "r", "u", "e">>, "boolean")
    [] s[p] = "f" -> WordAt(s, p, <<"f", "a", "l", "s", "e">>, "boolean")
    [] s[p] = "n" -> WordAt(s, p, <<"n", "u", "l", "l">>, "null")
    [] OTHER -> numValue(s, p)

-----------------------------------------------------------------------------
(* json_create: the turns of the loop in objValue.                         *)

Types == {"none", "object", "array", "text", "boolean", "null", "integer", "real"}

Node(name, type, value, parent) ==
  [name |-> name, type |-> type, value |-> value, child |-> 0, last |-> 0, sibling |-> parent]

NoNode == Node(0, "none", 0, 0)

ParserInit ==
  /\ doc \in Documents
  /\ style \in Styles
  /\ cut \in 0 .. Len(Text)
  /\ str = Append(SubSeq(Text, 1, cut), NUL)
  /\ ptr = 1 /\ obj = 0
  /\ pool = [k \in 1 .. Qty |-> NoNode]
  /\ free = 1
  /\ phase = "start"

\* The null document.  What a failed parse leaves in the text and in the nodes
\* is not modelled: nobody reads it.
Fail == phase' = "failed" /\ UNCHANGED <<str, ptr, obj, pool, free>>

BlockType(c) == IF c = "{" THEN "object" ELSE "array"

\* json_createWithPool and poolInit: the root takes the first node.
json_create ==
  /\ phase = "start"
  /\ LET p == goBlank(str, 1) IN
       \/ /\ p = 0 \/ (p # 0 /\ str[p] \notin {"{", "["})
          /\ Fail
       \/ /\ p # 0 /\ str[p] \in {"{", "["}
          /\ pool' = [pool EXCEPT ![1] = Node(0, BlockType(str[p]), 0, 0)]
          /\ obj' = 1 /\ free' = 2 /\ ptr' = p + 1
          /\ phase' = "parse"
          /\ UNCHANGED str
  /\ UNCHANGED docVars

Here == goBlank(str, ptr)
Closer == IF pool[obj].type = "object" THEN "}" ELSE "]"

\* Variant: the end of the text closes what is open.
EndOfText_Accepts ==
  /\ phase = "parse" /\ Here = 0
  /\ phase' = "done" /\ UNCHANGED <<docVars, str, ptr, obj, pool, free>>

EndOfText == phase = "parse" /\ Here = 0 /\ Fail /\ UNCHANGED docVars

\* Variant: the comma is seen again.
Comma_Stays ==
  /\ phase = "parse" /\ Here # 0 /\ str[Here] = ","
  /\ ptr' = Here
  /\ UNCHANGED <<docVars, str, obj, pool, free, phase>>

Comma ==
  /\ phase = "parse" /\ Here # 0 /\ str[Here] = ","
  /\ ptr' = Here + 1
  /\ UNCHANGED <<docVars, str, obj, pool, free, phase>>

\* Variant: the parent stays in the sibling field.
CloseBlock_KeepsParent ==
  /\ phase = "parse" /\ Here # 0 /\ str[Here] = Closer
  /\ str' = [str EXCEPT ![Here] = NUL]
  /\ ptr' = Here + 1
  /\ IF pool[obj].sibling = 0
       THEN phase' = "done" /\ UNCHANGED obj
       ELSE obj' = pool[obj].sibling /\ UNCHANGED phase
  /\ UNCHANGED <<docVars, free, pool>>

CloseBlock ==
  /\ phase = "parse" /\ Here # 0 /\ str[Here] = Closer
  /\ str' = [str EXCEPT ![Here] = NUL]
  /\ ptr' = Here + 1
  /\ IF pool[obj].sibling = 0
       THEN phase' = "done" /\ UNCHANGED <<obj, pool>>
       ELSE /\ pool' = [pool EXCEPT ![obj].sibling = 0]
            /\ obj' = pool[obj].sibling
            /\ UNCHANGED phase
  /\ UNCHANGED <<docVars, free>>

\* The property is appended to the children of the open block.
add(nodes, parent, i, n) ==
  LET last == nodes[parent].last
      with == [nodes EXCEPT ![i] = n, ![parent].last = i]
  IN  IF last = 0 THEN [with EXCEPT ![parent].child = i]
      ELSE [with EXCEPT ![last].sibling = i]

\* Variants: one node less, and one more than the pool has.
PoolEmpty_Early == free >= Qty
PoolEmpty_Late == free > Qty + 1

\* poolAlloc finds no node.
PoolEmpty == free > Qty

\* Everything else is a property: its node, its name inside an object, and its
\* value or the start of a block.
Property ==
  /\ phase = "parse" /\ Here # 0 /\ str[Here] \notin {",", Closer}
  /\ LET named == pool[obj].type = "object"
         none == [ok |-> TRUE, str |-> str, ptr |-> Here]
         n(type, value, parent) == Node(IF named THEN Here + 1 ELSE 0, type, value, parent)
     IN  \E r \in {IF named THEN propertyName(str, Here) ELSE none} :
           IF PoolEmpty \/ ~r.ok THEN Fail
           ELSE IF r.str[r.ptr] \in {"{", "["}
             THEN /\ pool' = add(pool, obj, free, n(BlockType(r.str[r.ptr]), r.ptr, obj))
                  /\ str' = r.str /\ ptr' = r.ptr + 1 /\ obj' = free /\ free' = free + 1
                  /\ UNCHANGED phase
           ELSE \E v \in {Value(r.str, r.ptr)} :
             IF ~v.ok THEN Fail
             ELSE /\ pool' = add(pool, obj, free,
                               n(v.type, IF v.type = "text" THEN r.ptr + 1 ELSE r.ptr, 0))
                  /\ str' = v.str /\ ptr' = v.ptr /\ free' = free + 1
                  /\ UNCHANGED <<obj, phase>>
  /\ UNCHANGED docVars

ParserNext == json_create \/ EndOfText \/ Comma \/ CloseBlock \/ Property

ParserSpec == ParserInit /\ [][ParserNext]_parserVars /\ WF_parserVars(ParserNext)

-----------------------------------------------------------------------------

\* Types; no node beyond the pool is used, and the parser never looks behind
\* the terminator.
ParserTypeOK ==
  /\ ptr \in 1 .. cut + 1
  /\ str \in [1 .. cut + 1 -> Bytes] /\ str[cut + 1] = NUL
  /\ free \in 1 .. Qty + 1 /\ obj \in 0 .. free - 1
  /\ pool \in [1 .. Qty -> [name : 0 .. cut + 1, type : Types, value : 0 .. cut + 1,
                            child : 0 .. free - 1, last : 0 .. free - 1,
                            sibling : 0 .. free - 1]]
  /\ phase \in {"start", "parse", "done", "failed"}

\* How many brackets are open after each character of a text, and whether it is
\* inside quotes; "escape" is behind a backslash there.
Plain(depth) == [depth |-> depth, mode |-> "plain"]
AfterChar(m, c) ==
  [depth |-> IF m.mode # "plain" THEN m.depth
             ELSE IF c \in {"{", "["} THEN m.depth + 1
             ELSE IF c \in {"}", "]"} THEN m.depth - 1 ELSE m.depth,
   mode |-> IF m.mode = "escape" THEN "text"
            ELSE IF c = QUOTE THEN IF m.mode = "text" THEN "plain" ELSE "text"
            ELSE IF c = BACKSLASH /\ m.mode = "text" THEN "escape" ELSE m.mode]

Nesting(s) ==
  LET at[k \in 0 .. Len(s)] == IF k = 0 THEN Plain(0) ELSE AfterChar(at[k - 1], s[k])
  IN  at

\* The bracket a text begins with is closed by its last character.
OneBlock(s) ==
  LET at == Nesting(s)
  IN  \A k \in 1 .. Len(s) : s[k] \in {"}", "]"} /\ at[k] = Plain(0) => k = Len(s)
WholeTexts == \A d \in Documents, st \in Styles : OneBlock(Render(d, st))

\* An answer that was cut off is never taken for a document.
CutRejected == phase = "done" => cut = Len(Text)

\* What lies ahead of the parser is still the text that arrived, although
\* terminators and shortened texts are written over it on the way.
AheadUntouched ==
  phase = "parse" => \A k \in ptr .. cut : str[k] = Text[k]

\* What lies behind it is not touched again: the names and values a node points
\* to stay as they were parsed.
BehindFinal ==
  [][\A k \in 1 .. cut + 1 : k < ptr \/ k >= ptr' => str'[k] = str[k]]_parserVars

\* Every turn of the loop moves on, so that there are no more turns than there
\* are characters.
TurnsMoveOn == [][phase = "parse" /\ phase' = "parse" => ptr' > ptr]_parserVars

\* In what is accepted the nodes form a tree, whatever the text: links go to
\* later nodes only, so that a handler that follows them comes to an end, and
\* every node but the root is linked from exactly one place.
NodesFormTree ==
  phase = "done" =>
    /\ pool[1].sibling = 0
    /\ \A k \in 1 .. free - 1 :
         /\ pool[k].child \in {0} \cup k + 1 .. free - 1
         /\ pool[k].sibling \in {0} \cup k + 1 .. free - 1
    /\ \A k \in 2 .. free - 1 :
         \E i \in 1 .. k - 1 :
           /\ pool[i].child = k <=> pool[i].sibling # k
           /\ \A j \in 1 .. free - 1 : j # i => pool[j].child # k /\ pool[j].sibling # k

\* The parser comes to an end on every text.
Finishes == <>(phase \in {"done", "failed"})

=============================================================================
