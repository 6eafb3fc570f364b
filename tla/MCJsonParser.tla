---------------------------- MODULE MCJsonParser ----------------------------
(* Documents with up to two levels and a pool that some of them exceed,     *)
(* written tightly or with blanks and a last comma, cut off everywhere.     *)
EXTENDS JsonDocuments

Leaf(type, value) == [type |-> type, name |-> NoName, value |-> value, items |-> <<>>]
Block(type, items) == [type |-> type, name |-> NoName, value |-> <<>>, items |-> items]
AsMember(n, name) == [n EXCEPT !.name = name]

Leaves ==
  {Leaf("text", <<>>), Leaf("text", <<"}", QUOTE, "U">>), Leaf("text", <<"LF">>),
   Leaf("integer", <<"4", "2">>), Leaf("integer", <<"-", "1">>), Leaf("integer", <<"0">>),
   Leaf("real", <<"0", ".", "5">>), Leaf("real", <<"2", "e", "-", "1">>),
   Leaf("boolean", <<"t", "r", "u", "e">>), Leaf("boolean", <<"f", "a", "l", "s", "e">>),
   Leaf("null", <<"n", "u", "l", "l">>)}

Blocks(leaves) ==
  {Block("array", <<>>), Block("object", <<>>)}
    \cup {Block("array", <<x>>) : x \in leaves}
    \cup {Block("array", <<x, Leaf("integer", <<"0">>)>>) : x \in leaves}
    \cup {Block("object", <<AsMember(x, <<"b">>)>>) : x \in leaves}
    \cup {Block("object", <<AsMember(x, <<"U">>), AsMember(x, <<"b">>)>>) : x \in leaves}

Few == {Leaf("text", <<"}", QUOTE, "U">>), Leaf("integer", <<"4", "2">>),
        Leaf("boolean", <<"t", "r", "u", "e">>)}
Inner == Leaves \cup Blocks(Few)

\* The largest and the smallest integer.
Limits ==
  {Leaf("integer", Max64), Leaf("integer", <<"-">> \o [Max64 EXCEPT ![19] = "8"])}

MCDocuments ==
  {Block("object", <<AsMember(x, <<"a">>)>>) : x \in Inner}
    \cup {Block("object", <<AsMember(x, <<"a">>), AsMember(y, <<"b">>)>>) :
            x \in Inner, y \in {Leaf("integer", <<"4", "2">>), Block("array", <<Leaf("null", <<"n", "u", "l", "l">>)>>)}}
    \cup {Block("array", <<x, Leaf("text", <<"a">>)>>) : x \in Inner}
    \cup {Block("array", <<Block("object", <<AsMember(x, <<"a">>)>>)>>) : x \in Inner}
    \cup {Block("array", <<x>>) : x \in Limits}
    \cup {Block("array", <<>>), Block("object", <<>>)}

MCStyles == {[blank |-> FALSE, comma |-> FALSE], [blank |-> TRUE, comma |-> TRUE]}

\* The characters of their texts.
MCChars ==
  {" ", "{", "}", "[", "]", ",", ":", ".", "-", QUOTE, BACKSLASH}
    \cup Digit \cup {"a", "b", "e", "f", "l", "n", "r", "s", "t", "u"}
=============================================================================
