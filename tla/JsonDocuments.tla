--------------------------- MODULE JsonDocuments ---------------------------
(***************************************************************************)
(* Documents, the texts the server writes for them, and the tree the       *)
(* handlers read.  The module is apart from JsonParser because it recurs   *)
(* over documents and trees.                                               *)
(***************************************************************************)
EXTENDS JsonParser, SequencesExt

NoName == "no name"      \* the null pointer where a name is expected

-----------------------------------------------------------------------------
(* Documents and their text.  A node has a type, a name (inside objects),  *)
(* the text of its value, and the nodes inside it.                         *)

Container(n) == n.type \in {"object", "array"}

\* A character of a text value as it is sent; U is one the server sends as a
\* \u escape.
Sent(c) ==
  CASE c = QUOTE -> <<BACKSLASH, QUOTE>>
    [] c = "LF" -> <<BACKSLASH, "n">>
    [] c = "U" -> <<BACKSLASH, "u", "0", "0", "e", "4">>
    [] OTHER -> <<c>>

\* ... and as the parser keeps it: a single byte stands for every \u escape.
Kept(c) == IF c = "U" THEN "?" ELSE c

Mapped(Op(_), s) == [k \in 1 .. Len(s) |-> Op(s[k])]

RECURSIVE ServerText(_, _)
ServerText(n, st) ==
  LET gap == IF st.blank THEN <<" ">> ELSE <<>>
      quoted(s) == <<QUOTE>> \o FlattenSeq(Mapped(Sent, s)) \o <<QUOTE>>
      name == IF n.name = NoName THEN <<>> ELSE quoted(n.name) \o gap \o <<":">> \o gap
      last == IF st.comma /\ n.items # <<>> THEN <<",">> ELSE <<>>
      inner == [k \in 1 .. Len(n.items) |->
                  (IF k = 1 THEN <<>> ELSE <<",">>) \o gap \o ServerText(n.items[k], st) \o gap]
  IN  name \o CASE n.type = "object" -> <<"{">> \o FlattenSeq(inner) \o last \o gap \o <<"}">>
                [] n.type = "array" -> <<"[">> \o FlattenSeq(inner) \o last \o gap \o <<"]">>
                [] n.type = "text" -> quoted(n.value)
                [] OTHER -> n.value

\* The document as an application can get at it.
RECURSIVE Readable(_)
Readable(n) ==
  [n EXCEPT !.name = IF @ = NoName THEN @ ELSE Mapped(Kept, @),
            !.value = IF n.type = "text" THEN Mapped(Kept, @) ELSE @,
            !.items = Mapped(Readable, @)]

RECURSIVE Nodes(_)
Nodes(n) == 1 + FoldSeq(LAMBDA i, sum : Nodes(i) + sum, 0, n.items)

-----------------------------------------------------------------------------
(* The tree as the handlers read it: json_getChild, json_getSibling,       *)
(* json_getName and json_getValue.                                         *)

StringFrom(p) ==
  LET e == CHOOSE k \in p .. Len(str) : str[k] = NUL /\ \A j \in p .. k - 1 : str[j] # NUL
  IN  SubSeq(str, p, e - 1)

\* The children of a node, in order; a chain that does not end is cut off.
Children(i) ==
  LET nth[k \in 1 .. Qty + 1] ==
        IF k = 1 THEN pool[i].child
        ELSE IF nth[k - 1] = 0 THEN 0 ELSE pool[nth[k - 1]].sibling
  IN  SelectSeq(nth, LAMBDA c : c # 0)

\* The depth is bounded for trees that are no trees.
RECURSIVE Tree(_, _)
Tree(i, depth) ==
  LET n == pool[i]
  IN  [type |-> n.type,
       name |-> IF n.name = 0 THEN NoName ELSE StringFrom(n.name),
       value |-> IF Container(n) THEN <<>> ELSE StringFrom(n.value),
       items |-> IF ~Container(n) \/ depth = 0 THEN <<>>
                 ELSE LET c == Children(i)
                      IN  [k \in 1 .. Len(c) |-> Tree(c[k], depth - 1)]]

\* The server writes nothing behind the bracket that closes the document.
ASSUME DocumentAssumption == WholeTexts

\* When the parser accepts a text, every name, value and order of the document
\* can be read from the tree, although the text was overwritten on the way.
TreeIsDocument == phase = "done" => Tree(1, Qty) = Readable(doc)

\* A whole text is rejected only when it has more nodes than the pool.
FailsForCause == phase = "failed" => cut < Len(Text) \/ Nodes(doc) > Qty

=============================================================================
