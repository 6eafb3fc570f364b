------------------------- MODULE JsonBuilderProofs -------------------------
(***************************************************************************)
(* Bodies, for buffers of every size and whatever is put into them.        *)
(*                                                                         *)
(* First, the room that is counted is the room that is left, and the text  *)
(* is terminated.  One lemma for each helper of the builder says that it   *)
(* keeps a buffer sound; the invariant adds that a body has at least one   *)
(* character once a call was made, so that the character before the        *)
(* position exists.                                                        *)
(*                                                                         *)
(* Then, what is sent is what the calls described. Streams says which text *)
(* the calls so far have asked for: each open object or array begins with  *)
(* its name and its bracket and goes on with the items it holds, each with *)
(* a comma. Written says that the buffer holds a text if it fits, and is   *)
(* full of something without a terminator if it does not: one lemma for    *)
(* each helper says that what it puts behind a written text is written. A  *)
(* number that just fits loses its last digit to the terminator of         *)
(* snprintf, so it is written only together with its comma. While a string *)
(* is copied, what is left of it is part of the invariant.                 *)
(***************************************************************************)
EXTENDS JsonBuilder, SequenceTheorems, WellFoundedInduction, TLAPS

\* A buffer of n bytes whose count is right.
Sound(b, n) ==
  /\ b \in [mem : [0 .. n -> Bytes], dest : Nat, marker : Nat]
  /\ b.dest + b.marker = n

\* Its text ends, at the position if there is room left.
Ended(b) ==
  /\ \E k \in 0 .. b.dest : b.mem[k] = NUL
  /\ b.marker # 0 => b.mem[b.dest] = NUL

\* What every helper does to a buffer b: c is sound, and no shorter.
Longer(b, c, n) == Sound(c, n) /\ c.dest >= b.dest

\* Copying keeps the count right, and adds something if there is room.
LEMMA PutSound ==
  ASSUME NEW n \in Nat, NEW b, Sound(b, n), NEW s \in Seq(Bytes)
  PROVE  Longer(b, Put(b, s), n) /\ (n > 0 /\ Len(s) > 0 => Put(b, s).dest > 0)
<1> DEFINE m == IF Len(s) <= b.marker THEN Len(s) ELSE b.marker
           c == Put(b, s)
<1>1. m \in Nat /\ m <= Len(s) /\ m <= b.marker /\ b.dest \in Nat /\ b.marker \in Nat
  BY DEF Sound
<1>2. c.dest = b.dest + m /\ c.marker = b.marker - m
  BY DEF Put
<1>3. c.mem \in [0 .. n -> Bytes]
  <2>1. DOMAIN b.mem = 0 .. n /\ \A k \in 0 .. n : b.mem[k] \in Bytes
    BY DEF Sound
  <2>2. \A k \in b.dest .. b.dest + m - 1 : s[k - b.dest + 1] \in Bytes
    BY <1>1
  <2>3. c.mem = [k \in DOMAIN b.mem |->
                   IF k \in b.dest .. b.dest + m - 1 THEN s[k - b.dest + 1] ELSE b.mem[k]]
    BY DEF Put
  <2> QED BY <2>1, <2>2, <2>3
<1>4. c = [mem |-> c.mem, dest |-> c.dest, marker |-> c.marker]
  BY DEF Put
<1>5. b.dest + b.marker = n
  BY DEF Sound
<1> HIDE DEF m, c
<1>6. c \in [mem : [0 .. n -> Bytes], dest : Nat, marker : Nat]
  BY <1>1, <1>2, <1>3, <1>4
<1>7. c.dest + c.marker = n /\ c.dest >= b.dest
  BY <1>1, <1>2, <1>5
<1>8. n > 0 /\ Len(s) > 0 => c.dest > 0
  BY <1>1, <1>2, <1>5 DEF m
<1> QED BY <1>6, <1>7, <1>8 DEF c, Longer, Sound

\* Writing the terminator moves nothing.
LEMMA TerminateSound ==
  ASSUME NEW n \in Nat, NEW b, Sound(b, n)
  PROVE  /\ Longer(b, Terminate(b), n)
         /\ Terminate(b).dest = b.dest /\ Terminate(b).marker = b.marker
         /\ Ended(Terminate(b))
<1>1. b.dest \in 0 .. n /\ b.mem \in [0 .. n -> Bytes] /\ b.dest \in Nat /\ b.marker \in Nat
  BY DEF Sound
<1>2. [b.mem EXCEPT ![b.dest] = NUL] \in [0 .. n -> Bytes]
  <2>1. NUL \in Bytes
    BY DEF Bytes
  <2> QED BY <1>1, <2>1
<1>3. /\ Terminate(b).mem = [b.mem EXCEPT ![b.dest] = NUL]
      /\ Terminate(b).dest = b.dest /\ Terminate(b).marker = b.marker
      /\ Terminate(b) \in [mem : [0 .. n -> Bytes], dest : Nat, marker : Nat]
  BY <1>1, <1>2 DEF Terminate, Sound
<1>4. Terminate(b).mem[b.dest] = NUL
  BY <1>1, <1>3
<1> QED BY <1>1, <1>3, <1>4 DEF Longer, Sound, Ended


\* A text that is copied as far as there is room leaves a sound buffer.
LEMMA atoaSound ==
  ASSUME NEW n \in Nat, NEW b, Sound(b, n), NEW s \in Seq(Bytes)
  PROVE  /\ Longer(b, atoa(b, s), n) /\ Ended(atoa(b, s))
         /\ n > 0 /\ Len(s) > 0 => atoa(b, s).dest > 0
<1>1. Longer(b, Put(b, s), n) /\ (n > 0 /\ Len(s) > 0 => Put(b, s).dest > 0)
  BY PutSound
<1>2. Sound(Put(b, s), n)
  BY <1>1 DEF Longer
<1>3. /\ Longer(Put(b, s), atoa(b, s), n) /\ Ended(atoa(b, s))
      /\ atoa(b, s).dest = Put(b, s).dest
  BY <1>2, TerminateSound DEF atoa
<1> QED BY <1>1, <1>3 DEF Longer

\* A single character needs the text to end already, or room.
LEMMA chtoaSound ==
  ASSUME NEW n \in Nat, NEW b, Sound(b, n), NEW ch \in Bytes,
         Ended(b) \/ b.marker # 0
  PROVE  /\ Longer(b, chtoa(b, ch), n) /\ Ended(chtoa(b, ch))
         /\ n > 0 => chtoa(b, ch).dest > 0
<1>1. CASE b.marker = 0
  <2>1. chtoa(b, ch) = b /\ b.dest = n /\ b.dest \in Nat
    BY <1>1 DEF chtoa, Sound
  <2> QED BY <1>1, <2>1 DEF Longer
<1>2. CASE b.marker # 0
  <2>1. chtoa(b, ch) = atoa(b, <<ch>>)
    BY <1>2 DEF chtoa, atoa
  <2>2. <<ch>> \in Seq(Bytes) /\ Len(<<ch>>) > 0
    OBVIOUS
  <2>3. Longer(b, atoa(b, <<ch>>), n) /\ Ended(atoa(b, <<ch>>))
        /\ (n > 0 => atoa(b, <<ch>>).dest > 0)
    BY <2>2, atoaSound
  <2> QED BY <2>1, <2>3
<1> QED BY <1>1, <1>2

\* Texts are bytes, ...
LEMMA TextIsBytes ==
  ASSUME NEW s \in Seq(Chars) PROVE s \in Seq(Bytes)
<1>1. Chars \subseteq Bytes
  BY DEF Bytes
<1> QED BY <1>1, SeqMonotonic

\* ... and so is a name in its quotation marks.
LEMMA NamedSound ==
  ASSUME NEW n \in Nat, NEW b, Sound(b, n), Ended(b) \/ b.marker # 0,
         NEW name \in Seq(Bytes), NEW rest \in Seq(Bytes)
  PROVE  /\ Longer(b, Named(b, name, rest), n) /\ Ended(Named(b, name, rest))
         /\ n > 0 => Named(b, name, rest).dest > 0
<1> DEFINE b1 == chtoa(b, QUOTE)
           b2 == atoa(b1, name)
           b3 == atoa(b2, rest)
<1>1. Longer(b, b1, n) /\ (n > 0 => b1.dest > 0)
  BY chtoaSound DEF Bytes
<1>2. Longer(b1, b2, n)
  BY <1>1, atoaSound DEF Longer
<1>3. Longer(b2, b3, n) /\ Ended(b3)
  BY <1>2, atoaSound DEF Longer
<1>4. b3 = Named(b, name, rest)
  BY DEF Named
<1> HIDE DEF b1, b2, b3
<1>5. b.dest \in Nat /\ b1.dest \in Nat /\ b2.dest \in Nat /\ b3.dest \in Nat
  BY <1>1, <1>2, <1>3 DEF Longer, Sound
<1>6. Longer(b, b3, n) /\ (n > 0 => b3.dest > 0)
  BY <1>1, <1>2, <1>3, <1>5 DEF Longer
<1> QED BY <1>3, <1>4, <1>6

\* Taking the comma back gives its room back.
LEMMA DropCommaSound ==
  ASSUME NEW n \in Nat, NEW b, Sound(b, n), b.dest > 0
  PROVE  Sound(DropComma(b), n)
<1>1. b.dest \in Nat /\ b.marker \in Nat /\ b.mem \in [0 .. n -> Bytes]
      /\ b.dest + b.marker = n
  BY DEF Sound
<1>2. b.dest - 1 \in Nat /\ b.marker + 1 \in Nat
  BY <1>1
<1> DEFINE c == [b EXCEPT !.dest = b.dest - 1, !.marker = b.marker + 1]
<1>3. c \in [mem : [0 .. n -> Bytes], dest : Nat, marker : Nat]
      /\ c.dest = b.dest - 1 /\ c.marker = b.marker + 1
  BY <1>1, <1>2 DEF Sound
<1>4. Sound(c, n)
  BY <1>1, <1>3 DEF Sound
<1>5. DropComma(b) = c \/ DropComma(b) = b
  BY DEF DropComma
<1> QED BY <1>4, <1>5

-----------------------------------------------------------------------------
\* A character of a text value, escaped or not.
LEMMA EscapeSound ==
  ASSUME NEW n \in Nat, NEW b, Sound(b, n), NEW ch \in Chars
  PROVE  Longer(b, Escape(b, ch), n)
<1>1. \A s \in Seq(Bytes) : Longer(b, Put(b, s), n)
  BY PutSound
<1>2. ASSUME NEW c, Longer(b, c, n)
      PROVE  Longer(b, Skip(c), n)
  <2>1. c.dest \in Nat /\ c.marker \in Nat /\ c.mem \in [0 .. n -> Bytes]
        /\ c.dest + c.marker = n /\ c.dest >= b.dest /\ b.dest \in Nat
        /\ c \in [mem : [0 .. n -> Bytes], dest : Nat, marker : Nat]
    BY <1>2 DEF Longer, Sound
  <2>2. CASE c.marker = 0
    BY <1>2, <2>2 DEF Skip
  <2>3. CASE c.marker # 0
    <3> DEFINE d == [c EXCEPT !.dest = c.dest + 1, !.marker = c.marker - 1]
    <3>1. c.dest + 1 \in Nat /\ c.marker - 1 \in Nat
      BY <2>1, <2>3
    <3>2. d \in [mem : [0 .. n -> Bytes], dest : Nat, marker : Nat]
          /\ d.dest = c.dest + 1 /\ d.marker = c.marker - 1
      BY <2>1, <3>1
    <3>3. Longer(b, d, n)
      BY <2>1, <3>2 DEF Longer, Sound
    <3> QED BY <2>3, <3>3 DEF Skip
  <2> QED BY <2>2, <2>3
<1>3. /\ <<BACKSLASH, "u", "0", "0", "h", "h">> \in Seq(Bytes)
      /\ <<BACKSLASH, "e">> \in Seq(Bytes)
      /\ <<ch>> \in Seq(Bytes)
  <2>1. {BACKSLASH, "u", "0", "h", "e", ch} \subseteq Bytes
    BY DEF Bytes
  <2> QED BY <2>1
<1>4. CASE ch \in Control
  <2>1. Longer(b, Skip(Put(b, <<BACKSLASH, "u", "0", "0", "h", "h">>)), n)
    BY <1>1, <1>2, <1>3
  <2> QED BY <1>4, <2>1 DEF Escape
<1>5. CASE ch \notin Control
  BY <1>1, <1>3, <1>5 DEF Escape
<1> QED BY <1>4, <1>5

\* A number: its digits are cut to the room, and its terminator is inside.
LEMMA DigitsSound ==
  ASSUME NEW n \in Nat, NEW b, Sound(b, n), Ended(b), NEW d \in Seq(Bytes)
  PROVE  Longer(b, Digits(b, d), n) /\ Ended(Digits(b, d))
<1> DEFINE m == IF Len(d) <= b.marker THEN Len(d) ELSE b.marker
           w == IF Len(d) < b.marker THEN Len(d) ELSE b.marker - 1
           c == Digits(b, d)
<1>1. b.dest \in Nat /\ b.marker \in Nat /\ b.mem \in [0 .. n -> Bytes]
      /\ b.dest + b.marker = n /\ Len(d) \in Nat
  BY DEF Sound
<1>2. /\ c.dest = b.dest + m /\ c.marker = b.marker - m
      /\ c = [mem |-> c.mem, dest |-> c.dest, marker |-> c.marker]
      /\ c.mem = [k \in DOMAIN b.mem |->
                    IF b.marker > 0 /\ k \in b.dest .. b.dest + w - 1 THEN d[k - b.dest + 1]
                    ELSE IF b.marker > 0 /\ k = b.dest + w THEN NUL
                    ELSE b.mem[k]]
  BY DEF Digits
<1>3. c.mem \in [0 .. n -> Bytes]
  <2>1. \A k \in b.dest .. b.dest + w - 1 : b.marker > 0 => d[k - b.dest + 1] \in Bytes
    BY <1>1
  <2>2. NUL \in Bytes
    BY DEF Bytes
  <2>3. DOMAIN b.mem = 0 .. n /\ \A k \in 0 .. n : b.mem[k] \in Bytes
    BY <1>1
  <2> QED BY <1>2, <2>1, <2>2, <2>3
<1>4. m \in Nat /\ m <= b.marker
  BY <1>1
<1>5. Longer(b, c, n)
  <2> HIDE DEF c, m
  <2>1. c \in [mem : [0 .. n -> Bytes], dest : Nat, marker : Nat]
    <3>1. b.dest + m \in Nat /\ b.marker - m \in Nat
      BY <1>1, <1>4
    <3> QED BY <1>2, <1>3, <3>1
  <2>2. c.dest + c.marker = n /\ c.dest >= b.dest
    BY <1>1, <1>2, <1>4
  <2> QED BY <2>1, <2>2 DEF Longer, Sound
<1>6. Ended(c)
  <2>1. CASE b.marker = 0
    <3>1. c.dest = b.dest /\ c.marker = 0
      <4> HIDE DEF c, m
      <4> QED BY <1>1, <1>2, <1>4, <2>1
    <3>2. \A k \in 0 .. n : c.mem[k] = b.mem[k]
      BY <1>1, <1>2, <2>1
    <3>3. b.dest \in 0 .. n
      BY <1>1
    <3>4. PICK k \in 0 .. b.dest : b.mem[k] = NUL
      BY DEF Ended
    <3>5. k \in 0 .. c.dest /\ c.mem[k] = NUL
      <4> HIDE DEF c
      <4> QED BY <1>1, <3>1, <3>2, <3>3, <3>4
    <3> HIDE DEF c
    <3> QED BY <3>1, <3>5 DEF Ended
  <2>2. CASE b.marker > 0
    <3>1. w \in Nat /\ b.dest + w \in 0 .. n /\ b.dest + w <= b.dest + m
      BY <1>1, <2>2
    <3>2. c.mem[b.dest + w] = NUL
      BY SMTT(90), <1>1, <1>2, <2>2, <3>1
    <3>3. b.dest + w \in 0 .. c.dest
      BY <1>1, <1>2, <1>4, <3>1
    <3>4. c.marker # 0 => c.dest = b.dest + w
      BY <1>1, <1>2, <2>2
    <3> HIDE DEF c, m, w
    <3> QED BY <3>2, <3>3, <3>4 DEF Ended
  <2> QED BY <1>1, <2>1, <2>2
<1> HIDE DEF c
<1> QED BY <1>5, <1>6 DEF c

-----------------------------------------------------------------------------
\* What is put around names and values is made of bytes.
LEMMA Punctuation ==
  /\ \A x \in {"{", "[", QUOTE} : x \in Bytes /\ <<QUOTE, ":", x>> \in Seq(Bytes)
  /\ \A x \in {"}", "]", QUOTE} : <<x, ",">> \in Seq(Bytes) /\ Len(<<x, ",">>) > 0
  /\ <<QUOTE, ":">> \in Seq(Bytes)
  /\ "," \in Bytes
<1> DEFINE few == {"{", "[", QUOTE, "}", "]", ",", ":"}
<1>1. few \subseteq Bytes
  BY DEF Bytes
<1>2. \A x, y, z \in Bytes : <<x, y>> \in Seq(Bytes) /\ <<x, y, z>> \in Seq(Bytes)
                             /\ Len(<<x, y>>) > 0
  OBVIOUS
<1>3. \A x \in few : x \in Bytes
  BY <1>1
<1>4. QUOTE \in few /\ "," \in few /\ ":" \in few
      /\ (\A x \in {"{", "[", QUOTE} : x \in few)
      /\ (\A x \in {"}", "]", QUOTE} : x \in few)
  OBVIOUS
<1> HIDE DEF few
<1> QED BY <1>2, <1>3, <1>4

\* The words true, false and null are bytes.
LEMMA WordsAreBytes ==
  ASSUME NEW w \in Words PROVE Append(w, ",") \in Seq(Bytes) /\ Len(Append(w, ",")) > 0
<1>1. \A x \in {"t", "r", "u", "e", "f", "a", "l", "s", "n", ","} : x \in Bytes
  BY DEF Bytes
<1>2. /\ \A a, b, c, d \in Bytes : <<a, b, c, d>> \in Seq(Bytes)
      /\ \A a, b, c, d, e \in Bytes : <<a, b, c, d, e>> \in Seq(Bytes)
  OBVIOUS
<1>3. w \in Seq(Bytes)
  <2>1. <<"t", "r", "u", "e">> \in Seq(Bytes) /\ <<"n", "u", "l", "l">> \in Seq(Bytes)
        /\ <<"f", "a", "l", "s", "e">> \in Seq(Bytes)
    BY <1>1, <1>2
  <2> QED BY <2>1 DEF Words
<1>4. "," \in Bytes
  BY <1>1
<1>5. \A s \in Seq(Bytes), x \in Bytes : Append(s, x) \in Seq(Bytes) /\ Len(Append(s, x)) > 0
  OBVIOUS
<1> QED BY <1>3, <1>4, <1>5

\* Names are bytes.
LEMMA NamesAreBytes ==
  ASSUME NEW name \in Names \cup {NoName} PROVE name \in Seq(Bytes)
<1>1. \A x \in Names : x \in Seq(Chars)
  BY BuilderAssumption
<1>2. NoName \in Seq(Bytes)
  BY DEF NoName
<1> QED BY <1>1, <1>2, TextIsBytes

\* Opening a bracket, and the name of a text value.
LEMMA OpenSound ==
  ASSUME NEW n \in Nat, NEW b, Sound(b, n), Ended(b) \/ b.marker # 0,
         NEW name \in Names \cup {NoName}, NEW open \in {"{", "["}
  PROVE  /\ Longer(b, Open(b, name, open), n) /\ Ended(Open(b, name, open))
         /\ n > 0 => Open(b, name, open).dest > 0
<1>1. open \in Bytes /\ <<QUOTE, ":", open>> \in Seq(Bytes)
  BY Punctuation
<1>2. CASE name = NoName
  BY <1>1, <1>2, chtoaSound DEF Open
<1>3. CASE name # NoName
  BY <1>1, <1>3, NamedSound, NamesAreBytes DEF Open
<1> QED BY <1>2, <1>3

\* The helpers that begin a property leave a sound buffer.
LEMMA strnameSound ==
  ASSUME NEW n \in Nat, NEW b, Sound(b, n), Ended(b), NEW name \in Names \cup {NoName}
  PROVE  Longer(b, strname(b, name), n) /\ (n > 0 => strname(b, name).dest > 0)
<1>1. QUOTE \in Bytes /\ <<QUOTE, ":", QUOTE>> \in Seq(Bytes)
  BY Punctuation
<1>2. CASE name = NoName
  BY <1>1, <1>2, chtoaSound DEF strname
<1>3. CASE name # NoName
  BY <1>1, <1>3, NamedSound, NamesAreBytes DEF strname
<1> QED BY <1>2, <1>3

\* The same without a quotation mark for the value.
LEMMA primitivenameSound ==
  ASSUME NEW n \in Nat, NEW b, Sound(b, n), Ended(b), NEW name \in Names \cup {NoName}
  PROVE  Longer(b, primitivename(b, name), n) /\ Ended(primitivename(b, name))
<1>1. <<QUOTE, ":">> \in Seq(Bytes)
  BY Punctuation
<1>2. CASE name = NoName
  <2>1. b.dest \in Nat
    BY DEF Sound
  <2> QED BY <1>2, <2>1 DEF primitivename, Longer
<1>3. CASE name # NoName
  BY <1>1, <1>3, NamedSound, NamesAreBytes DEF primitivename
<1> QED BY <1>2, <1>3

-----------------------------------------------------------------------------
\* The inductive invariant: the count is right, once a call was made there is
\* a character, and the text is terminated except inside atoesc.
BuilderInv ==
  /\ size \in Nat \ {0}
  /\ Sound(buf, size)
  /\ src \in Seq(Chars) /\ phase \in {"build", "string", "done"}
  /\ calls \in Nat
  /\ nest # <<>> => calls > 0
  /\ calls = 0 => phase = "build" /\ buf.dest = 0
  /\ calls > 0 /\ phase # "done" => buf.dest > 0
  /\ calls > 0 /\ phase # "string" => Ended(buf)

\* The count starts with the size of the buffer.
LEMMA RoomAtStart ==
  ASSUME NEW n \in Nat, n > 0, NEW b, Sound(b, n), b.dest = 0
  PROVE  b.marker # 0
BY DEF Sound

\* What a step in the middle of a body has to show.
LEMMA StaysInv ==
  ASSUME size \in Nat, size > 0, size' = size, Sound(buf', size), src' \in Seq(Chars),
         calls' \in Nat, calls' > 0, phase' = "done" \/ buf'.dest > 0,
         phase' = "string" \/ Ended(buf'), phase' \in {"build", "string", "done"}
  PROVE  BuilderInv'
BY DEF BuilderInv

\* What a call that adds something has to show.
LEMMA CallKeepsInv ==
  ASSUME BuilderInv, phase = "build", Longer(buf, buf', size), Ended(buf'),
         buf'.dest > 0, size' = size, src' = src, phase' = phase, calls' = calls + 1
  PROVE  BuilderInv'
BY DEF BuilderInv, Longer, Ended, Sound

\* An item can be added only to what is open, so the text has begun.
LEMMA MayAddMeans ==
  ASSUME BuilderInv, NEW name, MayAdd(name)
  PROVE  /\ phase = "build" /\ calls' = calls + 1 /\ nest # <<>>
         /\ buf.dest > 0 /\ Ended(buf)
<1>1. phase = "build" /\ nest # <<>> /\ calls' = calls + 1
  BY DEF MayAdd
<1> QED BY <1>1 DEF BuilderInv

\* The first bracket is opened in an empty buffer, with room.
LEMMA OpenMeans ==
  ASSUME BuilderInv, NEW name, NEW open, NEW close, OpenBracket(name, open, close)
  PROVE  phase = "build" /\ calls' = calls + 1 /\ (Ended(buf) \/ buf.marker # 0)
<1>1. CASE nest = <<>>
  <2>1. phase = "build" /\ calls = 0 /\ calls' = 1
    BY <1>1 DEF OpenBracket
  <2>2. buf.dest = 0 /\ Sound(buf, size) /\ size \in Nat /\ size > 0
    BY <2>1 DEF BuilderInv
  <2>3. buf.marker # 0
    BY <2>2, RoomAtStart
  <2>4. calls' = calls + 1
    <3>1. 1 = 0 + 1
      OBVIOUS
    <3> QED BY <2>1, <3>1
  <2> QED BY <2>1, <2>3, <2>4
<1>2. CASE nest # <<>>
  BY <1>2, MayAddMeans DEF OpenBracket
<1> QED BY <1>1, <1>2

\* Each step keeps the invariant.
LEMMA StepKeepsInv == BuilderInv /\ [BuilderNext]_builderVars => BuilderInv'
<1> SUFFICES ASSUME BuilderInv, [BuilderNext]_builderVars
             PROVE  BuilderInv'
  OBVIOUS
<1>0. Sound(buf, size) /\ size \in Nat /\ size > 0 /\ buf.dest \in Nat /\ buf.marker \in Nat
      /\ buf.dest + buf.marker = size
  <2>1. Sound(buf, size) /\ size \in Nat /\ size > 0
    BY DEF BuilderInv
  <2> QED BY <2>1 DEF Sound
<1>1. ASSUME NEW name \in Names \cup {NoName}, NEW open \in {"{", "["}, NEW close,
             OpenBracket(name, open, close)
      PROVE  BuilderInv'
  <2>1. phase = "build" /\ calls' = calls + 1 /\ (Ended(buf) \/ buf.marker # 0)
    BY <1>1, OpenMeans
  <2>2. UNCHANGED <<size, src, phase>> /\ buf' = Open(buf, name, open)
    BY <1>1 DEF OpenBracket
  <2>3. Longer(buf, buf', size) /\ Ended(buf') /\ buf'.dest > 0
    BY <1>0, <2>1, <2>2, OpenSound
  <2> QED BY <2>1, <2>2, <2>3, CallKeepsInv
<1>2. ASSUME NEW close \in {"}", "]"}, CloseBracket(close)
      PROVE  BuilderInv'
  <2>1. calls > 0 /\ calls \in Nat /\ buf.dest > 0 /\ phase = "build"
        /\ src \in Seq(Chars)
    BY <1>2 DEF CloseBracket, BuilderInv
  <2>2. Sound(DropComma(buf), size)
    BY <1>0, <2>1, DropCommaSound
  <2>3. UNCHANGED <<size, src, phase, calls>> /\ buf' = atoa(DropComma(buf), <<close, ",">>)
    BY <1>2 DEF CloseBracket
  <2>4. <<close, ",">> \in Seq(Bytes) /\ Len(<<close, ",">>) > 0
    BY Punctuation
  <2>5. Longer(DropComma(buf), buf', size) /\ Ended(buf') /\ buf'.dest > 0
    BY <1>0, <2>2, <2>3, <2>4, atoaSound
  <2>6. Sound(buf', size)
    BY <2>5 DEF Longer
  <2> QED BY <1>0, <2>1, <2>3, <2>5, <2>6, StaysInv
<1>3. ASSUME NEW name \in Names \cup {NoName}, NEW v \in Values, NstrName(name, v)
      PROVE  BuilderInv'
  <2>1. phase = "build" /\ Ended(buf) /\ calls' = calls + 1 /\ calls \in Nat
    BY <1>3, MayAddMeans DEF NstrName, BuilderInv
  <2>2. size' = size /\ src' = v /\ phase' = "string" /\ buf' = strname(buf, name)
    BY <1>3 DEF NstrName
  <2>3. Longer(buf, buf', size) /\ buf'.dest > 0
    BY <1>0, <2>1, <2>2, strnameSound
  <2>4. v \in Seq(Chars)
    BY BuilderAssumption
  <2>5. Sound(buf', size)
    BY <2>3 DEF Longer
  <2> QED BY <1>0, <2>1, <2>2, <2>3, <2>4, <2>5 DEF BuilderInv
<1>4. CASE NstrChar
  <2>1. src \in Seq(Chars) /\ src # <<>> /\ phase = "string" /\ calls \in Nat
    BY <1>4 DEF NstrChar, BuilderInv
  <2>2. Head(src) \in Chars /\ Tail(src) \in Seq(Chars)
    BY <2>1
  <2>3. UNCHANGED <<size, phase, nest, calls>> /\ src' = Tail(src)
        /\ buf' = Escape(buf, Head(src))
    BY <1>4 DEF NstrChar
  <2>4. Longer(buf, buf', size)
    BY <1>0, <2>2, <2>3, EscapeSound
  <2>5. Sound(buf', size) /\ buf'.dest >= buf.dest /\ buf'.dest \in Nat
    BY <2>4 DEF Longer, Sound
  <2>6. calls > 0 /\ buf.dest > 0
    BY <2>1 DEF BuilderInv
  <2> QED BY <1>0, <2>1, <2>2, <2>3, <2>5, <2>6 DEF BuilderInv
<1>5. CASE NstrEnd
  <2>1. phase = "string"
    BY <1>5 DEF NstrEnd
  <2>7. calls \in Nat /\ calls > 0 /\ buf.dest > 0
    BY <2>1 DEF BuilderInv
  <2>2. Sound(Terminate(buf), size) /\ Terminate(buf).dest = buf.dest
    BY <1>0, TerminateSound DEF Longer
  <2>3. UNCHANGED <<size, nest, calls>> /\ src' = <<>> /\ phase' = "build"
        /\ buf' = atoa(Terminate(buf), <<QUOTE, ",">>)
    BY <1>5 DEF NstrEnd
  <2>4. <<QUOTE, ",">> \in Seq(Bytes) /\ Len(<<QUOTE, ",">>) > 0
    BY Punctuation
  <2>5. Longer(Terminate(buf), buf', size) /\ Ended(buf') /\ buf'.dest > 0
    BY <1>0, <2>2, <2>3, <2>4, atoaSound
  <2>6. Sound(buf', size) /\ src' \in Seq(Chars)
    <3>1. Sound(buf', size)
      BY <2>5 DEF Longer
    <3>2. src' = <<>>
      BY <2>3
    <3> QED BY <3>1, <3>2
  <2> QED BY <1>0, <2>7, <2>3, <2>5, <2>6, StaysInv
<1>6. ASSUME NEW name \in Names \cup {NoName}, NEW text, AddPrimitive(name, text)
      PROVE  /\ phase = "build" /\ calls' = calls + 1 /\ buf.dest > 0 /\ buf.dest \in Nat
             /\ UNCHANGED <<size, src, phase>>
             /\ Longer(buf, primitivename(buf, name), size)
             /\ Ended(primitivename(buf, name))
             /\ Sound(primitivename(buf, name), size)
  <2>1. phase = "build" /\ Ended(buf) /\ calls' = calls + 1
        /\ buf.dest > 0 /\ buf.dest \in Nat
    BY <1>0, <1>6, MayAddMeans DEF AddPrimitive
  <2>2. UNCHANGED <<size, src, phase>>
    BY <1>6 DEF AddPrimitive
  <2>3. Longer(buf, primitivename(buf, name), size) /\ Ended(primitivename(buf, name))
    BY <1>0, <2>1, primitivenameSound
  <2> QED BY <2>1, <2>2, <2>3 DEF Longer
<1>7. ASSUME NEW name \in Names \cup {NoName}, NEW w \in Words, AddWord(name, w)
      PROVE  BuilderInv'
  <2>1. Append(w, ",") \in Seq(Bytes)
    BY WordsAreBytes
  <2>2. AddPrimitive(name, w) /\ buf' = atoa(primitivename(buf, name), Append(w, ","))
    BY <1>7 DEF AddWord
  <2> DEFINE p == primitivename(buf, name)
  <2>3. Longer(buf, p, size) /\ Sound(p, size) /\ buf.dest > 0 /\ buf.dest \in Nat
        /\ phase = "build" /\ calls' = calls + 1 /\ UNCHANGED <<size, src, phase>>
    BY <1>6, <2>2
  <2>4. buf' = atoa(p, Append(w, ","))
    BY <2>2
  <2> HIDE DEF p
  <2>5. Longer(p, buf', size) /\ Ended(buf')
    BY <1>0, <2>1, <2>3, <2>4, atoaSound
  <2>6. Longer(buf, buf', size) /\ buf'.dest > 0
    BY <2>3, <2>5 DEF Longer, Sound
  <2> QED BY <2>3, <2>5, <2>6, CallKeepsInv
<1>8. ASSUME NEW name \in Names \cup {NoName}, NEW d \in Numbers, AddNumber(name, d)
      PROVE  BuilderInv'
  <2>1. d \in Seq(Bytes) /\ "," \in Bytes
    <3>1. d \in Seq(Chars)
      BY BuilderAssumption
    <3> QED BY <3>1, TextIsBytes, Punctuation
  <2> DEFINE p == primitivename(buf, name)
             q == Digits(p, d)
  <2>2. AddPrimitive(name, d) /\ buf' = chtoa(q, ",")
    BY <1>8 DEF AddNumber
  <2>3. Longer(buf, p, size) /\ Sound(p, size) /\ Ended(p)
        /\ buf.dest > 0 /\ buf.dest \in Nat
        /\ phase = "build" /\ calls' = calls + 1 /\ UNCHANGED <<size, src, phase>>
    BY <1>6, <2>2
  <2> HIDE DEF p
  <2>4. Longer(p, q, size) /\ Ended(q)
    BY <1>0, <2>1, <2>3, DigitsSound
  <2> HIDE DEF q
  <2>5. Sound(q, size)
    BY <2>4 DEF Longer
  <2>6. Longer(q, buf', size) /\ Ended(buf')
    BY <1>0, <2>1, <2>2, <2>4, <2>5, chtoaSound
  <2>7. Longer(buf, buf', size) /\ buf'.dest > 0
    BY <2>3, <2>4, <2>6 DEF Longer, Sound
  <2> QED BY <2>3, <2>6, <2>7, CallKeepsInv
<1>9. CASE anedya_json_end
  <2>1. calls > 0 /\ calls \in Nat /\ phase = "build" /\ src \in Seq(Chars)
        /\ Ended(buf) /\ buf.dest > 0
    BY <1>9 DEF anedya_json_end, BuilderInv
  <2>2. Sound(DropComma(buf), size)
    BY <1>0, <2>1, DropCommaSound
  <2>3. Sound(Terminate(DropComma(buf)), size) /\ Ended(Terminate(DropComma(buf)))
    BY <1>0, <2>2, TerminateSound DEF Longer
  <2>4. UNCHANGED <<size, src, nest, calls>> /\ phase' = "done"
    BY <1>9 DEF anedya_json_end
  <2>5. buf' = buf \/ buf' = Terminate(DropComma(buf))
    BY <1>9 DEF anedya_json_end
  <2>6. Sound(buf', size) /\ Ended(buf')
    BY <1>0, <2>1, <2>3, <2>5
  <2> QED BY <1>0, <2>1, <2>4, <2>6 DEF BuilderInv
<1>10. CASE UNCHANGED builderVars
  BY <1>10 DEF builderVars, BuilderInv
<1> QED
  BY <1>1, <1>2, <1>3, <1>4, <1>5, <1>7, <1>8, <1>9, <1>10
  DEF BuilderNext, anedya_json_objOpen, anedya_json_arrOpen, anedya_json_objClose,
      anedya_json_arrClose

\* The invariant holds of an empty buffer.
LEMMA InitHasInv == BuilderInit => BuilderInv
<1> SUFFICES ASSUME BuilderInit PROVE BuilderInv
  OBVIOUS
<1>1. size \in Nat \ {0}
  BY BuilderAssumption DEF BuilderInit
<1>2. Sound(buf, size)
  <2>1. STALE \in Bytes
    BY DEF Bytes
  <2>2. [k \in 0 .. size |-> STALE] \in [0 .. size -> Bytes]
    BY <2>1
  <2> QED BY <1>1, <2>2 DEF BuilderInit, Sound
<1>3. src = <<>> /\ calls = 0 /\ nest = <<>> /\ phase = "build" /\ buf.dest = 0
  BY DEF BuilderInit
<1> QED BY <1>1, <1>2, <1>3 DEF BuilderInv

\* What the builder counts is what is left, for every size of the buffer,
\* every document and every text: RoomCounted and Terminated hold always, and
\* the position stays in the buffer or right after it (BuilderTypeOK).
THEOREM RoomAlwaysCounted ==
  BuilderSpec => []BuilderTypeOK /\ []RoomCounted /\ []Terminated
<1>1. BuilderInv => RoomCounted
  BY DEF BuilderInv, RoomCounted, Sound
<1>2. BuilderInv => Terminated
  BY DEF BuilderInv, Terminated, Ended
<1>3. BuilderInv => BuilderTypeOK
  <2> SUFFICES ASSUME BuilderInv PROVE BuilderTypeOK
    OBVIOUS
  <2>1. buf \in [mem : [0 .. size -> Bytes], dest : Nat, marker : Nat]
        /\ buf.dest + buf.marker = size /\ size \in Nat
    BY DEF BuilderInv, Sound
  <2>2. buf.dest \in 0 .. size /\ buf.marker \in 0 .. size
    BY <2>1
  <2>3. buf \in [mem : [0 .. size -> Bytes], dest : 0 .. size, marker : 0 .. size]
    BY <2>1, <2>2
  <2> QED BY <2>1, <2>3 DEF BuilderInv, BuilderTypeOK
<1> QED
  BY <1>1, <1>2, <1>3, InitHasInv, StepKeepsInv, PTL DEF BuilderSpec

\* A text has every byte but the terminator.
Clean == Bytes \ {NUL}
Texts == Seq(Clean)

\* The first bytes of the buffer are s, and nothing follows it.
Holds(b, s) == b.dest = Len(s) /\ \A k \in 1 .. Len(s) : b.mem[k - 1] = s[k]

\* The buffer is full, and its text does not end before the last byte.
Full(b, n) == b.dest = n /\ \A k \in 0 .. n - 2 : b.mem[k] # NUL

\* The text s was written into a buffer of n bytes.
Written(b, s, n) == IF Len(s) <= n THEN Holds(b, s) ELSE Full(b, n)

\* The characters of a text are no terminators.
LEMMA CleanText ==
  ASSUME NEW s \in Texts
  PROVE  /\ s \in Seq(Bytes) /\ Len(s) \in Nat
         /\ \A k \in 1 .. Len(s) : s[k] \in Bytes /\ s[k] # NUL
<1>1. s \in Seq(Bytes)
  <2>1. Clean \subseteq Bytes
    BY DEF Clean
  <2> QED BY <2>1, SeqMonotonic DEF Texts
<1>2. \A k \in 1 .. Len(s) : s[k] \in Clean
  BY ElementOfSeq DEF Texts
<1>3. Len(s) \in Nat
  BY LenProperties DEF Texts
<1> HIDE DEF Clean
<1> QED BY <1>1, <1>2, <1>3 DEF Clean

\* The characters of two texts, one behind the other.
LEMMA JoinedText ==
  ASSUME NEW s \in Texts, NEW t \in Texts
  PROVE  /\ s \o t \in Texts /\ Len(s \o t) = Len(s) + Len(t)
         /\ \A k \in 1 .. Len(s) : (s \o t)[k] = s[k]
         /\ \A k \in Len(s) + 1 .. Len(s) + Len(t) : (s \o t)[k] = t[k - Len(s)]
<1>1. Len(s) \in Nat /\ Len(t) \in Nat
  BY CleanText
<1>2. /\ s \o t \in Texts /\ Len(s \o t) = Len(s) + Len(t)
      /\ \A i \in 1 .. Len(s) + Len(t) :
           (s \o t)[i] = IF i <= Len(s) THEN s[i] ELSE t[i - Len(s)]
  BY ConcatProperties DEF Texts
<1> QED
  <2> DEFINE u == s \o t
  <2>1. /\ u \in Texts /\ Len(u) = Len(s) + Len(t)
        /\ \A i \in 1 .. Len(s) + Len(t) : u[i] = IF i <= Len(s) THEN s[i] ELSE t[i - Len(s)]
    BY <1>2
  <2> HIDE DEF u
  <2>2. /\ \A k \in 1 .. Len(s) : u[k] = s[k]
        /\ \A k \in Len(s) + 1 .. Len(s) + Len(t) : u[k] = t[k - Len(s)]
    <3> SUFFICES ASSUME NEW ls \in Nat, ls = Len(s), NEW lt \in Nat, lt = Len(t),
                        \A i \in 1 .. ls + lt : u[i] = IF i <= ls THEN s[i] ELSE t[i - ls]
                 PROVE  /\ \A k \in 1 .. ls : u[k] = s[k]
                        /\ \A k \in ls + 1 .. ls + lt : u[k] = t[k - ls]
      BY <1>1, <2>1
    <3> QED OBVIOUS
  <2> QED BY <2>1, <2>2 DEF u

\* Texts may be put together in any order.
LEMMA Regroup ==
  \A s, t, u \in Texts : (s \o t) \o u = s \o (t \o u)
BY ConcatAssociative DEF Texts

\* A buffer that is full takes nothing more.
LEMMA FullStays ==
  ASSUME NEW n \in Nat, NEW b, NEW s \in Texts, NEW t \in Texts,
         Written(b, s, n), b.dest = n, Len(t) > 0
  PROVE  Written(b, s \o t, n)
<1>1. Len(s) \in Nat /\ Len(t) \in Nat /\ \A k \in 1 .. Len(s) : s[k] # NUL
  BY CleanText
<1>2. Len(s \o t) = Len(s) + Len(t)
  BY JoinedText
<1>3. Full(b, n)
  <2>1. CASE Len(s) <= n
    <3>1. Len(s) = n /\ \A k \in 1 .. Len(s) : b.mem[k - 1] = s[k]
      BY <2>1 DEF Written, Holds
    <3>2. ASSUME NEW k \in 0 .. n - 2 PROVE b.mem[k] # NUL
      <4>1. k + 1 \in 1 .. n /\ k + 1 - 1 = k
        OBVIOUS
      <4>2. b.mem[k] = s[k + 1] /\ s[k + 1] # NUL
        BY <1>1, <3>1, <4>1
      <4> QED BY <4>2
    <3> QED BY <3>2 DEF Full
  <2>2. CASE ~(Len(s) <= n)
    BY <2>2 DEF Written
  <2> QED BY <2>1, <2>2
<1>4. ~(Len(s \o t) <= n) \/ Len(s) < n
  BY <1>1, <1>2
<1>5. CASE Len(s) < n
  <2>1. b.dest = Len(s)
    BY <1>1, <1>5 DEF Written, Holds
  <2> QED BY <1>1, <1>5, <2>1
<1> QED BY <1>3, <1>4, <1>5 DEF Written

\* What Put copies, and what it leaves alone.
LEMMA PutCopies ==
  ASSUME NEW n \in Nat, NEW b, Sound(b, n), NEW t \in Texts,
         NEW m \in Nat, m = IF Len(t) <= b.marker THEN Len(t) ELSE b.marker
  PROVE  /\ Put(b, t).dest = b.dest + m
         /\ \A k \in 0 .. n : k < b.dest \/ k >= b.dest + m => Put(b, t).mem[k] = b.mem[k]
         /\ \A k \in b.dest .. b.dest + m - 1 : Put(b, t).mem[k] = t[k - b.dest + 1]
<1>1. b.dest \in Nat /\ b.marker \in Nat /\ DOMAIN b.mem = 0 .. n /\ b.dest + b.marker = n
  BY DEF Sound
<1>2. m <= b.marker
  <2>1. Len(t) \in Nat
    BY CleanText
  <2> QED BY <1>1, <2>1
<1>3. /\ Put(b, t).dest = b.dest + m
      /\ Put(b, t).mem = [k \in DOMAIN b.mem |->
             IF k \in b.dest .. b.dest + m - 1 THEN t[k - b.dest + 1] ELSE b.mem[k]]
  BY DEF Put
<1>4. \A k \in 0 .. n : Put(b, t).mem[k] =
             IF k \in b.dest .. b.dest + m - 1 THEN t[k - b.dest + 1] ELSE b.mem[k]
  BY <1>1, <1>3
<1>5. ASSUME NEW k \in 0 .. n, k < b.dest \/ k >= b.dest + m
      PROVE  Put(b, t).mem[k] = b.mem[k]
  <2>1. k \notin b.dest .. b.dest + m - 1
    BY <1>1, <1>5
  <2> QED BY <1>4, <2>1
<1>6. ASSUME NEW k \in b.dest .. b.dest + m - 1
      PROVE  Put(b, t).mem[k] = t[k - b.dest + 1]
  <2>1. k \in 0 .. n
    BY <1>1, <1>2
  <2> QED BY <1>4, <2>1
<1> QED BY <1>3, <1>5, <1>6

\* Put writes what it is given, as far as there is room.
LEMMA PutWrites ==
  ASSUME NEW n \in Nat, NEW b, Sound(b, n), NEW s \in Texts, NEW t \in Texts,
         Written(b, s, n)
  PROVE  Written(Put(b, t), s \o t, n)
<1>1. b.dest \in Nat /\ b.marker \in Nat /\ b.dest + b.marker = n
  BY DEF Sound
<1>2. /\ Len(s) \in Nat /\ \A k \in 1 .. Len(s) : s[k] # NUL
      /\ Len(t) \in Nat /\ \A k \in 1 .. Len(t) : t[k] # NUL
  BY CleanText
<1> DEFINE u == s \o t
           c == Put(b, t)
           m == IF Len(t) <= b.marker THEN Len(t) ELSE b.marker
<1>3. /\ Len(u) = Len(s) + Len(t)
      /\ \A k \in 1 .. Len(s) : u[k] = s[k]
      /\ \A k \in Len(s) + 1 .. Len(s) + Len(t) : u[k] = t[k - Len(s)]
  BY JoinedText
<1>4. m \in Nat
  BY <1>1, <1>2
<1>5. m = IF Len(t) <= b.marker THEN Len(t) ELSE b.marker
  OBVIOUS
<1> HIDE DEF m
<1>6. /\ c.dest = b.dest + m
      /\ \A k \in 0 .. n : k < b.dest \/ k >= b.dest + m => c.mem[k] = b.mem[k]
      /\ \A k \in b.dest .. b.dest + m - 1 : c.mem[k] = t[k - b.dest + 1]
  BY <1>4, <1>5, PutCopies
<1> HIDE DEF c, u
<1>7. CASE Len(s) <= n
  <2>1. b.dest = Len(s) /\ \A k \in 1 .. Len(s) : b.mem[k - 1] = s[k]
    BY <1>7 DEF Written, Holds
  <2> DEFINE l == Len(s)
  <2>2. /\ l \in Nat /\ l = Len(s) /\ b.dest = l /\ l + b.marker = n
        /\ m <= b.marker /\ m <= Len(t)
    BY <1>1, <1>2, <1>5, <2>1
  <2> HIDE DEF l
  <2>3. ASSUME NEW k \in 1 .. l + m
        PROVE  /\ k <= l => c.mem[k - 1] = s[k]
               /\ k > l => c.mem[k - 1] = t[k - l]
    <3>1. CASE k <= l
      <4>1. k - 1 \in 0 .. n /\ k - 1 < b.dest /\ k \in 1 .. l
        BY <1>1, <1>4, <2>2, <3>1
      <4>2. c.mem[k - 1] = b.mem[k - 1] /\ b.mem[k - 1] = s[k]
        BY <1>6, <2>1, <2>2, <4>1
      <4> QED BY <2>2, <3>1, <4>2
    <3>2. CASE k > l
      <4>1. k - 1 \in b.dest .. b.dest + m - 1 /\ k - 1 - b.dest + 1 = k - l
        BY <1>4, <2>2, <3>2
      <4>2. c.mem[k - 1] = t[k - 1 - b.dest + 1]
        BY <1>6, <4>1
      <4> QED BY <2>2, <3>2, <4>1, <4>2
    <3> QED BY <2>2, <3>1, <3>2, <1>4
  <2>4. CASE l + Len(t) <= n
    <3>1. m = Len(t)
      BY <1>1, <1>2, <1>5, <2>2, <2>4
    <3>2. ASSUME NEW k \in 1 .. l + Len(t) PROVE c.mem[k - 1] = u[k]
      <4>1. CASE k <= l
        <5>1. k \in 1 .. l
          BY <2>2, <4>1
        <5> QED BY <1>3, <2>2, <2>3, <3>1, <4>1, <5>1
      <4>2. CASE k > l
        <5>1. k \in l + 1 .. l + Len(t)
          BY <1>2, <2>2, <4>2
        <5> QED BY <1>3, <2>2, <2>3, <3>1, <4>2, <5>1
      <4> QED BY <1>2, <2>2, <4>1, <4>2
    <3>3. c.dest = Len(u)
      BY <1>3, <1>6, <2>2, <3>1
    <3>4. Len(u) <= n /\ Len(u) = l + Len(t)
      BY <1>3, <2>2, <2>4
    <3>5. Holds(c, u)
      BY <3>2, <3>3, <3>4 DEF Holds
    <3>6. Written(c, u, n)
      BY <3>4, <3>5 DEF Written
    <3> QED BY <3>6 DEF c, u
  <2>5. CASE ~(l + Len(t) <= n)
    <3>1. m = b.marker
      BY <1>1, <1>2, <1>5, <2>2, <2>5
    <3>2. ASSUME NEW j \in 1 .. l + m PROVE c.mem[j - 1] # NUL
      <4>1. CASE j <= l
        <5>1. j \in 1 .. Len(s)
          BY <2>2, <4>1
        <5>2. s[j] # NUL /\ c.mem[j - 1] = s[j]
          BY <1>2, <2>3, <4>1, <5>1
        <5> QED BY <5>2
      <4>2. CASE j > l
        <5>1. j - l \in 1 .. Len(t)
          BY <1>1, <1>2, <1>4, <2>2, <4>2
        <5>2. t[j - l] # NUL
          BY <1>2, <5>1
        <5>3. c.mem[j - 1] = t[j - l]
          BY <2>3, <4>2
        <5> QED BY <5>2, <5>3
      <4> QED BY <1>4, <2>2, <4>1, <4>2
    <3>6. ASSUME NEW k \in 0 .. n - 2 PROVE c.mem[k] # NUL
      <4>1. k + 1 \in 1 .. l + m /\ k + 1 - 1 = k
        BY <2>2, <3>1, <1>1
      <4>2. c.mem[k + 1 - 1] # NUL
        BY <3>2, <4>1
      <4> QED BY <4>1, <4>2
    <3>3. c.dest = n
      BY <1>1, <1>6, <2>2, <3>1
    <3>4. ~(Len(u) <= n)
      BY <1>3, <2>2, <2>5
    <3>5. Written(c, u, n)
      BY <3>6, <3>3, <3>4 DEF Written, Full
    <3> QED BY <3>5 DEF c, u
  <2> QED BY <2>4, <2>5
<1>8. CASE ~(Len(s) <= n)
  <2>1. b.dest = n /\ \A k \in 0 .. n - 2 : b.mem[k] # NUL
    BY <1>8 DEF Written, Full
  <2>2. m = 0
    BY <1>1, <1>2, <1>5, <2>1
  <2>3. c.dest = n
    BY <1>1, <1>6, <2>1, <2>2
  <2>4. ASSUME NEW k \in 0 .. n - 2 PROVE c.mem[k] # NUL
    <3>1. k \in 0 .. n /\ k < b.dest
      BY <2>1
    <3> QED BY <1>6, <2>1, <3>1
  <2>5. ~(Len(u) <= n)
    BY <1>2, <1>3, <1>8
  <2>6. Written(c, u, n)
    BY <2>3, <2>4, <2>5 DEF Written, Full
  <2> QED BY <2>6 DEF c, u
<1> QED BY <1>7, <1>8

\* The terminator goes where no text is.
LEMMA TerminateWrites ==
  ASSUME NEW n \in Nat, NEW b, Sound(b, n), NEW s \in Texts
  PROVE  /\ Written(b, s, n) => Written(Terminate(b), s, n)
         /\ Holds(b, s) => Holds(Terminate(b), s)
         /\ Full(b, n) => Full(Terminate(b), n)
<1> DEFINE c == Terminate(b)
<1>1. b.dest \in Nat /\ b.dest \in 0 .. n /\ b.mem \in [0 .. n -> Bytes]
  BY DEF Sound
<1>2. Len(s) \in Nat
  BY CleanText
<1>3. c.dest = b.dest /\ c.mem = [b.mem EXCEPT ![b.dest] = NUL]
  <2>1. b \in [mem : [0 .. n -> Bytes], dest : Nat, marker : Nat]
    BY DEF Sound
  <2> QED BY <2>1 DEF Terminate
<1>4. \A k \in 0 .. n : k < b.dest => c.mem[k] = b.mem[k]
  BY <1>1, <1>3
<1> HIDE DEF c
<1>5. ASSUME Holds(b, s) PROVE Holds(c, s)
  <2>1. b.dest = Len(s) /\ \A k \in 1 .. Len(s) : b.mem[k - 1] = s[k]
    BY <1>5 DEF Holds
  <2>2. ASSUME NEW k \in 1 .. Len(s) PROVE c.mem[k - 1] = s[k]
    <3>1. k - 1 \in 0 .. n /\ k - 1 < b.dest
      BY <1>1, <1>2, <2>1
    <3> QED BY <1>4, <2>1, <3>1
  <2> QED BY <1>3, <2>1, <2>2 DEF Holds
<1>6. ASSUME Full(b, n) PROVE Full(c, n)
  <2>1. b.dest = n /\ \A k \in 0 .. n - 2 : b.mem[k] # NUL
    BY <1>6 DEF Full
  <2>2. ASSUME NEW k \in 0 .. n - 2 PROVE c.mem[k] # NUL
    <3>1. k \in 0 .. n /\ k < b.dest
      BY <2>1
    <3> QED BY <1>4, <2>1, <3>1
  <2> QED BY <1>3, <2>1, <2>2 DEF Full
<1> QED BY <1>5, <1>6 DEF c, Written

\* A text that is copied and terminated is written.
LEMMA atoaWrites ==
  ASSUME NEW n \in Nat, NEW b, Sound(b, n), NEW s \in Texts, NEW t \in Texts,
         Written(b, s, n)
  PROVE  Sound(atoa(b, t), n) /\ Written(atoa(b, t), s \o t, n)
<1>1. t \in Seq(Bytes)
  BY CleanText
<1>2. Longer(b, Put(b, t), n) /\ Longer(b, atoa(b, t), n)
  BY <1>1, PutSound, atoaSound
<1>3. Sound(Put(b, t), n) /\ Sound(atoa(b, t), n)
  BY <1>2 DEF Longer
<1>4. Written(Put(b, t), s \o t, n) /\ s \o t \in Texts
  BY PutWrites, JoinedText
<1> QED BY <1>3, <1>4, TerminateWrites DEF atoa

\* So is a single character.
LEMMA chtoaWrites ==
  ASSUME NEW n \in Nat, NEW b, Sound(b, n), NEW s \in Texts, NEW ch \in Clean,
         Written(b, s, n)
  PROVE  Sound(chtoa(b, ch), n) /\ Written(chtoa(b, ch), s \o <<ch>>, n)
<1>1. <<ch>> \in Texts /\ Len(<<ch>>) > 0
  BY DEF Texts
<1>2. CASE b.marker = 0
  <2>1. b.dest = n
    BY <1>2 DEF Sound
  <2>2. chtoa(b, ch) = b
    BY <1>2 DEF chtoa
  <2> QED BY <1>1, <2>1, <2>2, FullStays
<1>3. CASE b.marker # 0
  <2>1. chtoa(b, ch) = atoa(b, <<ch>>)
    BY <1>3 DEF chtoa, atoa
  <2> QED BY <1>1, <2>1, atoaWrites
<1> QED BY <1>2, <1>3

\* What Digits prints, and what it leaves alone.
LEMMA DigitsPrints ==
  ASSUME NEW n \in Nat, NEW b, Sound(b, n), NEW d \in Texts, b.marker > 0,
         NEW w \in Nat, w = IF Len(d) < b.marker THEN Len(d) ELSE b.marker - 1
  PROVE  /\ \A k \in 0 .. n : k < b.dest => Digits(b, d).mem[k] = b.mem[k]
         /\ \A k \in b.dest .. b.dest + w - 1 : Digits(b, d).mem[k] = d[k - b.dest + 1]
<1>1. b.dest \in Nat /\ b.marker \in Nat /\ DOMAIN b.mem = 0 .. n /\ b.dest + b.marker = n
  BY DEF Sound
<1>2. w < b.marker
  <2>1. Len(d) \in Nat
    BY CleanText
  <2> QED BY <1>1, <2>1
<1>3. Digits(b, d).mem = [k \in DOMAIN b.mem |->
             IF b.marker > 0 /\ k \in b.dest .. b.dest + w - 1 THEN d[k - b.dest + 1]
             ELSE IF b.marker > 0 /\ k = b.dest + w THEN NUL
             ELSE b.mem[k]]
  BY DEF Digits
<1>4. \A k \in 0 .. n : Digits(b, d).mem[k] =
             IF b.marker > 0 /\ k \in b.dest .. b.dest + w - 1 THEN d[k - b.dest + 1]
             ELSE IF b.marker > 0 /\ k = b.dest + w THEN NUL
             ELSE b.mem[k]
  BY <1>1, <1>3
<1>5. ASSUME NEW k \in 0 .. n, k < b.dest
      PROVE  Digits(b, d).mem[k] = b.mem[k]
  <2>1. k \notin b.dest .. b.dest + w - 1 /\ k # b.dest + w
    BY <1>1, <1>5
  <2> QED BY <1>4, <2>1
<1>6. ASSUME NEW k \in b.dest .. b.dest + w - 1
      PROVE  Digits(b, d).mem[k] = d[k - b.dest + 1]
  <2>1. k \in 0 .. n
    BY <1>1, <1>2
  <2> QED BY <1>4, <2>1
<1> QED BY <1>5, <1>6

\* A number that just fits loses its last digit to the terminator of snprintf:
\* it is written only together with the comma behind it.
LEMMA NumberWrites ==
  ASSUME NEW n \in Nat, NEW b, Sound(b, n), Ended(b), NEW s \in Texts,
         NEW d \in Texts, Len(d) > 0, Written(b, s, n)
  PROVE  LET c == chtoa(Digits(b, d), ",")
         IN  Sound(c, n) /\ Written(c, s \o (d \o <<",">>), n)
<1> DEFINE q == Digits(b, d)
           c == chtoa(q, ",")
           u == s \o (d \o <<",">>)
<1>0. "," \in Clean /\ <<",">> \in Texts /\ Len(<<",">>) = 1
  <2>1. "," \in Clean
    BY DEF Clean, Bytes, NUL
  <2>2. \A x \in Clean : <<x>> \in Texts /\ Len(<<x>>) = 1
    BY DEF Texts
  <2> QED BY <2>1, <2>2
<1>1. Len(s) \in Nat /\ Len(d) \in Nat
  BY CleanText
<1>11. (\A k \in 1 .. Len(s) : s[k] # NUL) /\ (\A k \in 1 .. Len(d) : d[k] # NUL)
  BY CleanText
<1>2. Sound(q, n) /\ Ended(q)
  <2>1. d \in Seq(Bytes)
    BY CleanText
  <2> QED BY <2>1, DigitsSound DEF Longer
<1>3. Sound(c, n)
  <2>1. "," \in Bytes
    BY <1>0 DEF Clean
  <2> QED BY <1>2, <2>1, chtoaSound DEF Longer
<1>4. b.dest \in Nat /\ b.marker \in Nat /\ b.dest + b.marker = n /\ b.mem \in [0 .. n -> Bytes]
  BY DEF Sound
<1>5. /\ Len(d) <= b.marker => q.dest = b.dest + Len(d) /\ q.marker = b.marker - Len(d)
      /\ ~(Len(d) <= b.marker) => q.dest = b.dest + b.marker /\ q.marker = b.marker - b.marker
  BY DEF Digits
<1>6. d \o <<",">> \in Texts /\ s \o d \in Texts
  BY <1>0, JoinedText
<1>12. Len(d \o <<",">>) = Len(d) + 1 /\ Len(s \o d) = Len(s) + Len(d)
  BY <1>0, JoinedText
<1>13. /\ \A k \in 1 .. Len(s) : (s \o d)[k] = s[k]
       /\ \A k \in Len(s) + 1 .. Len(s) + Len(d) : (s \o d)[k] = d[k - Len(s)]
  BY JoinedText
<1>7. Len(u) = Len(s) + Len(d) + 1
  <2>1. Len(u) = Len(s) + Len(d \o <<",">>)
    BY <1>6, JoinedText
  <2> QED BY <1>1, <1>12, <2>1
<1>14. u = (s \o d) \o <<",">>
  BY <1>0, Regroup
<1>8. b.dest = n \/ (Len(s) <= n /\ Holds(b, s))
  BY DEF Written, Full
<1> HIDE DEF u
<1>9. CASE b.marker = 0
  <2>1. b.dest = n
    BY <1>4, <1>9
  <2>2. Written(b, s \o (d \o <<",">>), n)
    <3>1. Len(d \o <<",">>) > 0
      BY <1>1, <1>12
    <3> QED BY <1>6, <2>1, <3>1, FullStays
  <2>3. q.dest = b.dest /\ q.marker = 0
    <3> HIDE DEF q
    <3> QED BY <1>1, <1>4, <1>5, <1>9
  <2>4. \A k \in 0 .. n : q.mem[k] = b.mem[k]
    BY <1>4, <1>9 DEF Digits
  <2>5. c = q
    BY <2>3 DEF chtoa
  <2>6. ~(Len(u) <= n) /\ Full(b, n)
    <3>1. Len(u) > n
      <4>1. Len(s) >= n
        BY <1>1, <1>8, <2>1 DEF Holds, Written
      <4> QED BY <1>1, <1>7, <4>1
    <3>2. ~(Len(u) <= n)
      BY <1>1, <1>7, <3>1
    <3> QED BY <2>2, <3>2 DEF Written, u
  <2>7. Full(q, n)
    <3>1. b.dest = n /\ \A k \in 0 .. n - 2 : b.mem[k] # NUL
      BY <2>6 DEF Full
    <3>2. \A k \in 0 .. n - 2 : k \in 0 .. n
      OBVIOUS
    <3> HIDE DEF q
    <3> QED BY <2>3, <2>4, <3>1, <3>2 DEF Full
  <2>8. Written(q, u, n)
    BY <2>6, <2>7 DEF Written
  <2> QED BY <1>3, <2>5, <2>8 DEF u
<1>10. CASE b.marker > 0
  <2>1. Len(s) <= n /\ b.dest = Len(s) /\ \A k \in 1 .. Len(s) : b.mem[k - 1] = s[k]
    BY <1>4, <1>8, <1>10 DEF Holds
  <2> DEFINE w == IF Len(d) < b.marker THEN Len(d) ELSE b.marker - 1
             l == Len(s)
  <2>2. w \in Nat /\ l \in Nat /\ l = Len(s) /\ b.dest = l /\ l + b.marker = n
    BY <1>1, <1>4, <1>10, <2>1
  <2>3. w = IF Len(d) < b.marker THEN Len(d) ELSE b.marker - 1
    OBVIOUS
  <2> HIDE DEF w, l
  <2>4. /\ \A k \in 0 .. n : k < b.dest => q.mem[k] = b.mem[k]
        /\ \A k \in b.dest .. b.dest + w - 1 : q.mem[k] = d[k - b.dest + 1]
    <3>1. w \in Nat
      BY <2>2
    <3> QED BY <1>10, <2>3, <3>1, DigitsPrints
  <2> HIDE DEF q
  <2>5. ASSUME NEW k \in 1 .. l + w
        PROVE  /\ k <= l => q.mem[k - 1] = s[k]
               /\ k > l => q.mem[k - 1] = d[k - l]
    <3>1. CASE k <= l
      <4>1. k - 1 \in 0 .. n /\ k - 1 < b.dest /\ k \in 1 .. l
        BY <1>4, <2>2, <3>1
      <4>2. q.mem[k - 1] = b.mem[k - 1] /\ b.mem[k - 1] = s[k]
        BY <2>1, <2>2, <2>4, <4>1
      <4> QED BY <2>2, <3>1, <4>2
    <3>2. CASE k > l
      <4>1. k - 1 \in b.dest .. b.dest + w - 1 /\ k - 1 - b.dest + 1 = k - l
        BY <2>2, <3>2
      <4>2. q.mem[k - 1] = d[k - 1 - b.dest + 1]
        BY <2>4, <4>1
      <4> QED BY <2>2, <3>2, <4>1, <4>2
    <3> QED BY <2>2, <3>1, <3>2
  <2>6. CASE Len(d) < b.marker
    <3>1. w = Len(d) /\ q.dest = l + Len(d)
      BY <1>1, <1>4, <1>5, <2>2, <2>3, <2>6
    <3> DEFINE v == s \o d
    <3>2. v \in Texts /\ Len(v) = l + Len(d) /\ Len(v) <= n
          /\ (\A k \in 1 .. l : v[k] = s[k])
          /\ \A k \in l + 1 .. l + Len(d) : v[k] = d[k - l]
      <4>1. Len(v) = l + Len(d) /\ v \in Texts
        BY <1>6, <1>12, <2>2
      <4>2. l + Len(d) <= n
        BY <1>1, <1>4, <2>2, <2>6
      <4>3. (\A k \in 1 .. l : v[k] = s[k]) /\ \A k \in l + 1 .. l + Len(d) : v[k] = d[k - l]
        BY <1>13, <2>2
      <4> QED BY <4>1, <4>2, <4>3
    <3> HIDE DEF v
    <3>3. ASSUME NEW k \in 1 .. l + Len(d) PROVE q.mem[k - 1] = v[k]
      <4>1. CASE k <= l
        <5>1. k \in 1 .. l
          BY <2>2, <4>1
        <5> QED BY <2>2, <2>5, <3>1, <3>2, <4>1, <5>1
      <4>2. CASE k > l
        <5>1. k \in l + 1 .. l + Len(d)
          BY <1>1, <2>2, <4>2
        <5> QED BY <2>2, <2>5, <3>1, <3>2, <4>2, <5>1
      <4> QED BY <1>1, <2>2, <4>1, <4>2
    <3>4. Holds(q, v)
      BY <3>1, <3>2, <3>3 DEF Holds
    <3>5. Written(q, v, n)
      BY <3>2, <3>4 DEF Written
    <3>6. Written(c, v \o <<",">>, n)
      BY <1>0, <1>2, <3>2, <3>5, chtoaWrites
    <3> QED BY <1>3, <1>14, <3>6 DEF u, v, q
  <2>7. CASE ~(Len(d) < b.marker)
    <3>1. w = b.marker - 1 /\ q.dest = n /\ q.marker = 0
      <4>1. w = b.marker - 1
        BY <2>3, <2>7
      <4>2. q.dest = b.dest + b.marker /\ q.marker = 0
        <5>1. Len(d) <= b.marker => Len(d) = b.marker
          BY <1>1, <1>4, <2>7
        <5>2. b.marker - b.marker = 0
          BY <1>4
        <5> QED BY <1>5, <5>1, <5>2
      <4> QED BY <1>4, <4>1, <4>2
    <3>2. ASSUME NEW j \in 1 .. l + w PROVE q.mem[j - 1] # NUL
      <4>1. CASE j <= l
        <5>1. j \in 1 .. Len(s)
          BY <2>2, <4>1
        <5>2. s[j] # NUL /\ q.mem[j - 1] = s[j]
          BY <1>11, <2>5, <4>1, <5>1
        <5> QED BY <5>2
      <4>2. CASE j > l
        <5>1. j - l \in 1 .. Len(d)
          BY <1>1, <1>4, <2>2, <2>7, <3>1, <4>2
        <5>2. d[j - l] # NUL
          BY <1>11, <5>1
        <5>3. q.mem[j - 1] = d[j - l]
          BY <2>5, <4>2
        <5> QED BY <5>2, <5>3
      <4> QED BY <2>2, <4>1, <4>2
    <3>3. ASSUME NEW k \in 0 .. n - 2 PROVE q.mem[k] # NUL
      <4>1. k + 1 \in 1 .. l + w /\ k + 1 - 1 = k
        BY <1>4, <2>2, <3>1
      <4>2. q.mem[k + 1 - 1] # NUL
        BY <3>2, <4>1
      <4> QED BY <4>1, <4>2
    <3>4. ~(Len(u) <= n)
      BY <1>1, <1>4, <1>7, <2>2, <2>7
    <3>5. c = q
      BY <3>1 DEF chtoa
    <3>6. Written(q, u, n)
      BY <3>1, <3>3, <3>4 DEF Written, Full
    <3> QED BY <1>3, <3>5, <3>6 DEF u, q
  <2> QED BY <2>6, <2>7
<1>15. b.marker = 0 \/ b.marker > 0
  BY <1>4
<1> QED BY <1>9, <1>10, <1>15

-----------------------------------------------------------------------------
\* What is put around names and values is no terminator.
LEMMA CleanPunctuation ==
  /\ \A x \in {"{", "[", "}", "]", QUOTE} :
       x \in Clean /\ x # "," /\ <<x>> \in Texts /\ Len(<<x>>) = 1
       /\ <<x, ",">> \in Texts /\ Len(<<x, ",">>) = 2 /\ <<x, ",">> = <<x>> \o <<",">>
       /\ <<QUOTE, ":", x>> \in Texts /\ <<QUOTE, ":", x>> = <<QUOTE, ":">> \o <<x>>
  /\ <<QUOTE, ":">> \in Texts /\ <<QUOTE>> \in Texts
  /\ "," \in Clean /\ <<",">> \in Texts /\ Len(<<",">>) = 1
<1>1. \A x \in {"{", "[", "}", "]", QUOTE} : x \in Clean /\ x # ","
  BY DEF Clean, Bytes, NUL, QUOTE
<1>2. QUOTE \in Clean /\ ":" \in Clean /\ "," \in Clean
  BY DEF Clean, Bytes, NUL, QUOTE
<1>3. \A x, y, z \in Clean : /\ <<x>> \in Texts /\ Len(<<x>>) = 1
                             /\ <<x, y>> \in Texts /\ Len(<<x, y>>) = 2
                             /\ <<x, y>> = <<x>> \o <<y>>
                             /\ <<y, z, x>> \in Texts /\ <<y, z, x>> = <<y, z>> \o <<x>>
  <2> SUFFICES ASSUME NEW x \in Clean, NEW y \in Clean, NEW z \in Clean
               PROVE  /\ <<x>> \in Texts /\ Len(<<x>>) = 1
                      /\ <<x, y>> \in Texts /\ Len(<<x, y>>) = 2
                      /\ <<x, y>> = <<x>> \o <<y>>
                      /\ <<y, z, x>> \in Texts /\ <<y, z, x>> = <<y, z>> \o <<x>>
    OBVIOUS
  <2>1. <<x>> \in Texts /\ <<x, y>> \in Texts /\ <<y, z, x>> \in Texts
    BY DEF Texts
  <2>2. Len(<<x>>) = 1 /\ Len(<<x, y>>) = 2
    OBVIOUS
  <2>3. <<x, y>> = <<x>> \o <<y>>
    <3> DEFINE p == <<x, y>>
               q == <<x>> \o <<y>>
    <3>1. p \in Seq(Clean) /\ Len(p) = 2 /\ p[1] = x /\ p[2] = y
      OBVIOUS
    <3>2. q \in Seq(Clean) /\ Len(q) = 2 /\ q[1] = x /\ q[2] = y
      OBVIOUS
    <3> HIDE DEF p, q
    <3>3. \A i \in 1 .. Len(p) : p[i] = q[i]
      BY <3>1, <3>2
    <3>4. p = q
      BY <3>1, <3>2, <3>3, SeqEqual
    <3> QED BY <3>4 DEF p, q
  <2>4. <<y, z, x>> = <<y, z>> \o <<x>>
    OBVIOUS
  <2> QED BY <2>1, <2>2, <2>3, <2>4
<1>4. ASSUME NEW x \in {"{", "[", "}", "]", QUOTE}
      PROVE  /\ x \in Clean /\ x # "," /\ <<x>> \in Texts /\ Len(<<x>>) = 1
             /\ <<x, ",">> \in Texts /\ Len(<<x, ",">>) = 2 /\ <<x, ",">> = <<x>> \o <<",">>
             /\ <<QUOTE, ":", x>> \in Texts /\ <<QUOTE, ":", x>> = <<QUOTE, ":">> \o <<x>>
  <2>1. x \in Clean /\ x # ","
    BY <1>1
  <2> QED BY <1>2, <1>3, <2>1
<1> QED BY <1>2, <1>3, <1>4

\* What is in front of the text of an element.
Before(name) == IF name = NoName THEN <<>> ELSE <<QUOTE>> \o name \o <<QUOTE, ":">>

\* Names are clean, and so are elements.
LEMMA CleanElement ==
  ASSUME NEW name \in Names \cup {NoName}
  PROVE  /\ name \in Texts /\ Before(name) \in Texts
         /\ \A t \in Texts : /\ Element(name, t) = Before(name) \o t
                                  /\ Element(name, t) \in Texts
                                  /\ Len(Element(name, t)) >= Len(t)
<1>1. name \in Texts
  <2>1. Chars \subseteq Clean
    BY BuilderAssumption DEF Clean, Bytes
  <2>2. Seq(Chars) \subseteq Texts
    BY <2>1, SeqMonotonic DEF Texts
  <2>3. NoName \in Texts
    BY DEF NoName, Texts
  <2> HIDE DEF Clean
  <2> QED BY <2>2, <2>3, BuilderAssumption
<1>2. Before(name) \in Texts
  <2>1. <<QUOTE>> \in Texts /\ <<QUOTE, ":">> \in Texts
    BY CleanPunctuation
  <2>2. <<QUOTE>> \o name \in Texts
    BY <1>1, <2>1, JoinedText
  <2>3. (<<QUOTE>> \o name) \o <<QUOTE, ":">> \in Texts
    BY <2>1, <2>2, JoinedText
  <2>4. <<>> \in Texts
    BY DEF Texts
  <2> QED BY <2>3, <2>4 DEF Before
<1>3. ASSUME NEW t \in Texts
      PROVE  /\ Element(name, t) = Before(name) \o t
             /\ Element(name, t) \in Texts
             /\ Len(Element(name, t)) >= Len(t)
  <2>1. Element(name, t) = Before(name) \o t
    BY DEF Element, Before
  <2>2. Before(name) \o t \in Texts
        /\ Len(Before(name) \o t) = Len(Before(name)) + Len(t)
    BY <1>2, JoinedText
  <2>3. Len(Before(name)) \in Nat /\ Len(t) \in Nat
    BY <1>2, CleanText
  <2>4. \A p, q, r \in Nat : r = p + q => r >= q
    OBVIOUS
  <2> QED BY <2>1, <2>2, <2>3, <2>4
<1> QED BY <1>1, <1>2, <1>3

\* A name in quotation marks, and what follows it.
LEMMA NamedWrites ==
  ASSUME NEW n \in Nat, NEW b, Sound(b, n), NEW s \in Texts, Written(b, s, n),
         NEW name \in Texts, NEW rest \in Texts
  PROVE  /\ Sound(Named(b, name, rest), n)
         /\ Written(Named(b, name, rest), s \o ((<<QUOTE>> \o name) \o rest), n)
<1> DEFINE b1 == chtoa(b, QUOTE)
           b2 == atoa(b1, name)
           b3 == atoa(b2, rest)
           s1 == s \o <<QUOTE>>
           s2 == s1 \o name
           s3 == s2 \o rest
<1>0. QUOTE \in Clean /\ <<QUOTE>> \in Texts
  BY CleanPunctuation
<1>1. Sound(b1, n) /\ Written(b1, s1, n) /\ s1 \in Texts
  BY <1>0, chtoaWrites, JoinedText
<1>2. Sound(b2, n) /\ Written(b2, s2, n) /\ s2 \in Texts
  <2> HIDE DEF b1, s1
  <2> QED BY <1>1, atoaWrites, JoinedText
<1>3. Sound(b3, n) /\ Written(b3, s3, n)
  <2> HIDE DEF b2, s2
  <2> QED BY <1>2, atoaWrites
<1>4. b3 = Named(b, name, rest)
  BY DEF Named
<1>5. s3 = s \o ((<<QUOTE>> \o name) \o rest)
  <2>1. <<QUOTE>> \o name \in Texts
    BY <1>0, JoinedText
  <2>2. s2 = s \o (<<QUOTE>> \o name)
    BY <1>0, Regroup
  <2>3. (s \o (<<QUOTE>> \o name)) \o rest = s \o ((<<QUOTE>> \o name) \o rest)
    BY <2>1, Regroup
  <2> QED BY <2>2, <2>3
<1> HIDE DEF b3, s3
<1> QED BY <1>3, <1>4, <1>5

\* A name, when there is one, with the punctuation around it and a character.
LEMMA NameWrites ==
  ASSUME NEW n \in Nat, NEW b, Sound(b, n), NEW s \in Texts, Written(b, s, n),
         NEW name \in Names \cup {NoName}, NEW x \in {"{", "[", QUOTE}
  PROVE  LET c == IF name = NoName THEN chtoa(b, x) ELSE Named(b, name, <<QUOTE, ":", x>>)
         IN  Sound(c, n) /\ Written(c, s \o Element(name, <<x>>), n)
<1>1. /\ x \in Clean /\ <<x>> \in Texts /\ <<QUOTE, ":", x>> \in Texts
      /\ <<QUOTE, ":", x>> = <<QUOTE, ":">> \o <<x>>
      /\ <<QUOTE, ":">> \in Texts /\ <<QUOTE>> \in Texts
  BY CleanPunctuation
<1>2. CASE name = NoName
  <2>1. Sound(chtoa(b, x), n) /\ Written(chtoa(b, x), s \o <<x>>, n)
    BY <1>1, chtoaWrites
  <2>2. Element(name, <<x>>) = <<x>>
    BY <1>1, <1>2, ConcatEmptySeq DEF Element, Texts
  <2> QED BY <1>2, <2>1, <2>2
<1>3. CASE name # NoName
  <2>1. name \in Texts
    BY CleanElement
  <2>2. /\ Sound(Named(b, name, <<QUOTE, ":", x>>), n)
        /\ Written(Named(b, name, <<QUOTE, ":", x>>),
                   s \o ((<<QUOTE>> \o name) \o <<QUOTE, ":", x>>), n)
    BY <1>1, <2>1, NamedWrites
  <2>3. Element(name, <<x>>) = ((<<QUOTE>> \o name) \o <<QUOTE, ":">>) \o <<x>>
    BY <1>3 DEF Element
  <2>4. <<QUOTE>> \o name \in Texts
    BY <1>1, <2>1, JoinedText
  <2>5. ((<<QUOTE>> \o name) \o <<QUOTE, ":">>) \o <<x>>
        = (<<QUOTE>> \o name) \o (<<QUOTE, ":">> \o <<x>>)
    BY <1>1, <2>4, Regroup
  <2> QED BY <1>1, <1>3, <2>2, <2>3, <2>5
<1> QED BY <1>2, <1>3

\* Opening a bracket, and the name of a text value.
LEMMA OpenWrites ==
  ASSUME NEW n \in Nat, NEW b, Sound(b, n), NEW s \in Texts, Written(b, s, n),
         NEW name \in Names \cup {NoName}
  PROVE  /\ \A x \in {"{", "["} : Written(Open(b, name, x), s \o Element(name, <<x>>), n)
         /\ Written(strname(b, name), s \o Element(name, <<QUOTE>>), n)
<1>1. \A x \in {"{", "[", QUOTE} :
        Written(IF name = NoName THEN chtoa(b, x) ELSE Named(b, name, <<QUOTE, ":", x>>),
                s \o Element(name, <<x>>), n)
  BY NameWrites
<1> QED BY <1>1 DEF Open, strname

\* The name of a value that is no text.
LEMMA primitivenameWrites ==
  ASSUME NEW n \in Nat, NEW b, Sound(b, n), NEW s \in Texts, Written(b, s, n),
         NEW name \in Names \cup {NoName}
  PROVE  Sound(primitivename(b, name), n)
         /\ Written(primitivename(b, name), s \o Before(name), n)
<1>1. CASE name = NoName
  <2>1. s \o <<>> = s
    BY ConcatEmptySeq DEF Texts
  <2> QED BY <1>1, <2>1 DEF primitivename, Before
<1>2. CASE name # NoName
  <2>1. name \in Texts /\ <<QUOTE, ":">> \in Texts
    BY CleanElement, CleanPunctuation
  <2> QED BY <1>2, <2>1, NamedWrites DEF primitivename, Before
<1> QED BY <1>1, <1>2

-----------------------------------------------------------------------------
\* The text of a bracket that is open: a comma is behind every item.
Closed(text) == IF text = <<>> THEN <<>> ELSE text \o <<",">>

\* A text that does not end with a comma.
NoComma(u) == Len(u) > 0 /\ u[Len(u)] # ","

\* The text u is the text s without the comma at its end, if there is one.
WithoutComma(s, u) == s = u \o <<",">> \/ (s = u /\ NoComma(u))

\* The comma that is taken back is the one behind the last item.
LEMMA DropCommaTakes ==
  ASSUME NEW n \in Nat, NEW b, Sound(b, n), b.dest > 0,
         NEW u \in Texts, NEW s \in Texts, Written(b, s, n),
         WithoutComma(s, u)
  PROVE  /\ Sound(DropComma(b), n)
         /\ Len(s) <= n => Holds(DropComma(b), u)
         /\ ~(Len(s) <= n) => /\ DropComma(b).marker <= 1
                              /\ \A k \in 0 .. n - 2 : DropComma(b).mem[k] # NUL
<1> DEFINE c == DropComma(b)
<1>1. Sound(c, n)
  BY DropCommaSound
<1>2. b.dest \in Nat /\ b.marker \in Nat /\ b.dest + b.marker = n
      /\ b \in [mem : [0 .. n -> Bytes], dest : Nat, marker : Nat]
  BY DEF Sound
<1>3. c.mem = b.mem
      /\ (b.mem[b.dest - 1] = "," => c.dest = b.dest - 1 /\ c.marker = b.marker + 1)
      /\ (b.mem[b.dest - 1] # "," => c = b)
  BY <1>2 DEF DropComma
<1>4. Len(u) \in Nat /\ Len(s) \in Nat
  BY CleanText
<1> HIDE DEF c
<1>5. ASSUME Len(s) <= n PROVE Holds(c, u)
  <2>1. b.dest = Len(s) /\ \A k \in 1 .. Len(s) : b.mem[k - 1] = s[k]
    BY <1>5 DEF Written, Holds
  <2>2. b.mem[b.dest - 1] = s[Len(s)]
    <3>1. Len(s) \in 1 .. Len(s)
      BY <1>2, <1>4, <2>1
    <3> QED BY <2>1, <3>1
  <2>3. CASE s = u \o <<",">>
    <3>1. <<",">> \in Texts /\ Len(<<",">>) = 1 /\ <<",">>[1] = ","
      BY CleanPunctuation
    <3> DEFINE e == <<",">>
    <3>6. e \in Texts /\ Len(e) = 1 /\ e[1] = "," /\ s = u \o e
      BY <2>3, <3>1
    <3> HIDE DEF e
    <3>2. Len(s) = Len(u) + 1 /\ (\A k \in 1 .. Len(u) : s[k] = u[k])
          /\ \A k \in Len(u) + 1 .. Len(u) + 1 : s[k] = e[k - Len(u)]
      <4>1. /\ Len(u \o e) = Len(u) + Len(e) /\ (\A k \in 1 .. Len(u) : (u \o e)[k] = u[k])
            /\ \A k \in Len(u) + 1 .. Len(u) + Len(e) : (u \o e)[k] = e[k - Len(u)]
        BY <3>6, JoinedText
      <4> QED BY <3>6, <4>1
    <3>3. s[Len(s)] = ","
      <4>1. Len(s) \in Len(u) + 1 .. Len(u) + 1 /\ Len(s) - Len(u) = 1
        BY <1>4, <3>2
      <4>2. s[Len(s)] = e[Len(s) - Len(u)]
        BY <3>2, <4>1
      <4> QED BY <3>6, <4>1, <4>2
    <3>4. c.dest = Len(u)
      <4>1. c.dest = b.dest - 1
        BY <1>3, <2>2, <3>3
      <4> QED BY <1>4, <2>1, <3>2, <4>1
    <3>5. ASSUME NEW k \in 1 .. Len(u) PROVE c.mem[k - 1] = u[k]
      <4>1. k \in 1 .. Len(s)
        BY <1>4, <3>2
      <4> QED BY <1>3, <2>1, <3>2, <4>1
    <3> QED BY <3>4, <3>5 DEF Holds
  <2>4. CASE s = u /\ NoComma(u)
    <3>1. c = b
      BY <1>3, <2>2, <2>4 DEF NoComma
    <3>2. Holds(b, u)
      BY <2>1, <2>4 DEF Holds
    <3> QED BY <3>1, <3>2
  <2> QED BY <2>3, <2>4 DEF WithoutComma
<1>6. ASSUME ~(Len(s) <= n)
      PROVE  c.marker <= 1 /\ \A k \in 0 .. n - 2 : c.mem[k] # NUL
  <2>1. b.dest = n /\ \A k \in 0 .. n - 2 : b.mem[k] # NUL
    BY <1>6 DEF Written, Full
  <2>2. b.marker = 0
    BY <1>2, <2>1
  <2>3. c.marker = b.marker + 1 \/ c.marker = b.marker
    BY <1>3
  <2>4. c.marker <= 1
    BY <2>2, <2>3
  <2>5. \A k \in 0 .. n - 2 : c.mem[k] # NUL
    BY <1>3, <2>1
  <2> QED BY <2>4, <2>5
<1> QED BY <1>1, <1>5, <1>6 DEF c

\* A bracket that is closed, with the comma behind it.
LEMMA CloseWrites ==
  ASSUME NEW n \in Nat, NEW b, Sound(b, n), b.dest > 0,
         NEW u \in Texts, NEW s \in Texts, Written(b, s, n),
         WithoutComma(s, u),
         NEW t \in Texts, Len(t) > 1
  PROVE  Written(atoa(DropComma(b), t), u \o t, n)
<1> DEFINE c == DropComma(b)
<1>1. /\ Sound(c, n)
      /\ Len(s) <= n => Holds(c, u)
      /\ ~(Len(s) <= n) => c.marker <= 1 /\ \A k \in 0 .. n - 2 : c.mem[k] # NUL
  BY DropCommaTakes
<1>2. Len(u) \in Nat /\ Len(s) \in Nat
  BY CleanText
<1>3. t \in Texts /\ Len(t) \in Nat /\ Len(t) > 1
  BY CleanText
<1>4. Len(s) = Len(u) + 1 \/ Len(s) = Len(u)
  <2>1. <<",">> \in Texts /\ Len(<<",">>) = 1
    BY CleanPunctuation
  <2>2. Len(u \o <<",">>) = Len(u) + 1
    BY <2>1, JoinedText
  <2> QED BY <2>2 DEF WithoutComma
<1> HIDE DEF c
<1>5. CASE Len(s) <= n
  <2>1. Len(u) <= n
    BY <1>2, <1>4, <1>5
  <2>2. Written(c, u, n)
    BY <1>1, <1>5, <2>1 DEF Written
  <2>3. Written(atoa(c, t), u \o t, n)
    BY <1>1, <1>3, <2>2, atoaWrites
  <2> QED BY <2>3 DEF c
<1>6. CASE ~(Len(s) <= n)
  <2>1. c.dest \in Nat /\ c.marker \in Nat /\ c.dest + c.marker = n /\ c.marker <= 1
    BY <1>1, <1>6 DEF Sound
  <2> DEFINE m == c.marker
  <2>2. m \in Nat /\ m = IF Len(t) <= c.marker THEN Len(t) ELSE c.marker
    BY <1>3, <2>1
  <2> HIDE DEF m
  <2>3. /\ Put(c, t).dest = c.dest + m
        /\ \A k \in 0 .. n : k < c.dest \/ k >= c.dest + m => Put(c, t).mem[k] = c.mem[k]
    <3>1. Sound(c, n)
      BY <1>1
    <3> QED BY <2>2, <3>1, PutCopies
  <2>4. Full(Put(c, t), n)
    <3>1. Put(c, t).dest = n
      BY <2>1, <2>3 DEF m
    <3>2. ASSUME NEW k \in 0 .. n - 2 PROVE Put(c, t).mem[k] # NUL
      <4>1. k \in 0 .. n /\ k < c.dest
        BY <2>1
      <4> QED BY <1>1, <1>6, <2>3, <4>1
    <3> QED BY <3>1, <3>2 DEF Full
  <2>5. Sound(Put(c, t), n)
    BY <1>1, <1>3, PutSound, CleanText DEF Longer
  <2>6. Full(atoa(c, t), n)
    BY <2>4, <2>5, TerminateWrites DEF atoa
  <2>7. ~(Len(u \o t) <= n)
    <3>1. Len(u \o t) = Len(u) + Len(t)
      BY JoinedText
    <3> QED BY <1>2, <1>3, <1>4, <1>6, <3>1
  <2>8. Written(atoa(c, t), u \o t, n)
    BY <2>6, <2>7 DEF Written
  <2> QED BY <2>8 DEF c
<1> QED BY <1>5, <1>6

\* The last bracket of a document that fills the buffer, for which the comma
\* behind it finds no room.
LEMMA LastWrites ==
  ASSUME NEW n \in Nat, NEW b, Sound(b, n), b.dest > 0,
         NEW u \in Texts, NEW s \in Texts, Written(b, s, n), WithoutComma(s, u),
         NEW t \in Texts, Len(t) > 1, NEW e \in Texts, Len(e) = 1, e[1] = t[1],
         Len(u) + 1 = n
  PROVE  Holds(atoa(DropComma(b), t), u \o e)
<1> DEFINE c == DropComma(b)
<1>1. Len(u) \in Nat /\ Len(s) \in Nat /\ Len(t) \in Nat
  BY CleanText
<1>2. Len(s) = Len(u) + 1 \/ Len(s) = Len(u)
  <2>1. <<",">> \in Texts /\ Len(<<",">>) = 1
    BY CleanPunctuation
  <2>2. Len(u \o <<",">>) = Len(u) + 1
    BY <2>1, JoinedText
  <2> QED BY <2>2 DEF WithoutComma
<1>3. Len(s) <= n
  BY <1>1, <1>2
<1>4. Sound(c, n) /\ Holds(c, u)
  BY <1>3, DropCommaTakes
<1> HIDE DEF c
<1>5. c.dest = Len(u) /\ \A k \in 1 .. Len(u) : c.mem[k - 1] = u[k]
  BY <1>4 DEF Holds
<1>6. c.dest \in Nat /\ c.marker \in Nat /\ c.dest + c.marker = n
  BY <1>4 DEF Sound
<1>7. c.marker = 1
  BY <1>1, <1>5, <1>6
<1>8. Put(c, t).dest = c.dest + 1
      /\ (\A k \in 0 .. n : k < c.dest \/ k >= c.dest + 1 => Put(c, t).mem[k] = c.mem[k])
      /\ \A k \in c.dest .. c.dest + 1 - 1 : Put(c, t).mem[k] = t[k - c.dest + 1]
  <2> DEFINE m == 1
  <2>1. m \in Nat
    OBVIOUS
  <2>2. m = IF Len(t) <= c.marker THEN Len(t) ELSE c.marker
    BY <1>1, <1>7
  <2>3. m = 1
    OBVIOUS
  <2> HIDE DEF m
  <2>4. Put(c, t).dest = c.dest + m
        /\ (\A k \in 0 .. n : k < c.dest \/ k >= c.dest + m => Put(c, t).mem[k] = c.mem[k])
        /\ \A k \in c.dest .. c.dest + m - 1 : Put(c, t).mem[k] = t[k - c.dest + 1]
    BY <1>4, <2>1, <2>2, PutCopies
  <2> QED BY <2>3, <2>4
<1> DEFINE w == u \o e
<1>9. /\ w \in Texts /\ Len(w) = Len(u) + Len(e)
      /\ \A k \in 1 .. Len(u) : w[k] = u[k]
      /\ \A k \in Len(u) + 1 .. Len(u) + Len(e) : w[k] = e[k - Len(u)]
  BY JoinedText
<1> HIDE DEF w
<1>10. Holds(Put(c, t), w)
  <2>1. Put(c, t).dest = Len(w) /\ Len(w) = Len(u) + 1
    BY <1>5, <1>8, <1>9
  <2>2. ASSUME NEW k \in 1 .. Len(w) PROVE Put(c, t).mem[k - 1] = w[k]
    <3>1. CASE k <= Len(u)
      <4>1. k - 1 \in 0 .. n /\ k - 1 < c.dest /\ k \in 1 .. Len(u)
        BY <1>1, <1>5, <1>6, <2>1, <3>1
      <4> QED BY <1>5, <1>8, <1>9, <4>1
    <3>2. CASE k = Len(u) + 1
      <4>1. k - 1 \in c.dest .. c.dest + 1 - 1 /\ k - 1 - c.dest + 1 = 1
        BY <1>1, <1>5, <3>2
      <4>2. Put(c, t).mem[k - 1] = t[1]
        BY <1>8, <4>1
      <4>3. k \in Len(u) + 1 .. Len(u) + Len(e) /\ k - Len(u) = 1
        BY <1>1, <3>2
      <4>4. w[k] = e[1]
        BY <1>9, <4>3
      <4> QED BY <4>2, <4>4
    <3> QED BY <1>1, <2>1, <3>1, <3>2
  <2> QED BY <2>1, <2>2 DEF Holds
<1>11. Sound(Put(c, t), n)
  BY <1>4, PutSound, CleanText DEF Longer
<1> QED BY <1>9, <1>10, <1>11, TerminateWrites DEF atoa, c, w

\* What is in the buffer when a document was described: with the comma behind
\* it, when there was room for the comma.
Described(b, w, n) ==
  IF Len(w) = n THEN Holds(b, w) ELSE Written(b, w \o <<",">>, n)

\* What is in the buffer in the end.
Finished(b, w, n) ==
  IF Len(w) <= n
    THEN b.mem[Len(w)] = NUL /\ \A k \in 1 .. Len(w) : b.mem[k - 1] = w[k]
    ELSE \A k \in 0 .. n - 2 : b.mem[k] # NUL

\* The comma behind the document is taken back.
LEMMA EndFinishes ==
  ASSUME NEW n \in Nat, NEW b, Sound(b, n), Ended(b), b.dest > 0,
         NEW w \in Texts, NoComma(w), Described(b, w, n)
  PROVE  Finished(IF b.mem[b.dest - 1] = "," THEN Terminate(DropComma(b)) ELSE b, w, n)
<1> DEFINE c == IF b.mem[b.dest - 1] = "," THEN Terminate(DropComma(b)) ELSE b
           s == w \o <<",">>
<1>1. b.dest \in Nat /\ b.marker \in Nat /\ b.dest + b.marker = n
  BY DEF Sound
<1>2. Len(w) \in Nat
  BY CleanText
<1>0. \A k \in 1 .. Len(w) : w[k] # NUL
  BY CleanText
<1>3. CASE Len(w) = n
  <2>1. b.dest = n /\ \A k \in 1 .. Len(w) : b.mem[k - 1] = w[k]
    BY <1>3 DEF Described, Holds
  <2>2. b.mem[b.dest - 1] # ","
    <3>1. n \in 1 .. Len(w)
      BY <1>1, <1>2, <1>3, <2>1
    <3>2. w[n] # ","
      BY <1>3 DEF NoComma
    <3>3. b.mem[n - 1] = w[n]
      BY <2>1, <3>1
    <3> QED BY <2>1, <3>2, <3>3
  <2>3. b.mem[n] = NUL
    <3>1. PICK k \in 0 .. n : b.mem[k] = NUL
      BY <2>1 DEF Ended
    <3>2. CASE k < n
      <4>1. k + 1 \in 1 .. Len(w) /\ k + 1 - 1 = k
        BY <1>3, <3>2
      <4>2. b.mem[k + 1 - 1] = w[k + 1] /\ w[k + 1] # NUL
        BY <1>0, <2>1, <4>1
      <4> QED BY <3>1, <4>1, <4>2
    <3>3. CASE ~(k < n)
      <4>1. k = n
        BY <3>3
      <4> QED BY <3>1, <4>1
    <3> QED BY <3>2, <3>3
  <2>4. Finished(b, w, n)
    BY <1>3, <2>1, <2>3 DEF Finished
  <2> QED BY <2>2, <2>4
<1>4. CASE Len(w) # n
  <2>1. Written(b, s, n)
    BY <1>4 DEF Described
  <2> DEFINE e == <<",">>
  <2>2. e \in Texts /\ Len(e) = 1 /\ s = w \o e /\ WithoutComma(s, w)
    BY CleanPunctuation DEF WithoutComma
  <2>10. e[1] = ","
    OBVIOUS
  <2> HIDE DEF e, s
  <2>3. s \in Texts /\ Len(s) = Len(w) + Len(e)
        /\ \A k \in Len(w) + 1 .. Len(w) + Len(e) : s[k] = e[k - Len(w)]
    BY <2>2, JoinedText
  <2> DEFINE d == DropComma(b)
             f == Terminate(d)
  <2>4. /\ Sound(d, n)
        /\ Len(s) <= n => Holds(d, w)
        /\ ~(Len(s) <= n) => d.marker <= 1 /\ \A k \in 0 .. n - 2 : d.mem[k] # NUL
    BY <2>1, <2>2, <2>3, DropCommaTakes
  <2>5. Sound(f, n) /\ f.dest = d.dest /\ f.mem = [d.mem EXCEPT ![d.dest] = NUL]
    <3>1. Sound(d, n)
      BY <2>4
    <3> HIDE DEF d
    <3>2. Sound(f, n) /\ f.dest = d.dest
      BY <3>1, TerminateSound DEF Longer
    <3>3. f.mem = [d.mem EXCEPT ![d.dest] = NUL]
      BY <3>1 DEF Terminate, Sound
    <3> QED BY <3>2, <3>3
  <2>6. d.dest \in 0 .. n /\ d.dest \in Nat /\ d.marker \in Nat /\ d.dest + d.marker = n
        /\ d.mem \in [0 .. n -> Bytes]
    BY <2>4 DEF Sound
  <2> HIDE DEF d
  <2>7. f.mem[d.dest] = NUL /\ \A k \in 0 .. n : k # d.dest => f.mem[k] = d.mem[k]
    BY <2>5, <2>6
  <2> HIDE DEF f
  <2>8. CASE Len(w) < n
    <3>1. Len(s) <= n
      BY <1>2, <2>2, <2>3, <2>8
    <3>2. b.mem[b.dest - 1] = ","
      <4>1. b.dest = Len(s) /\ \A k \in 1 .. Len(s) : b.mem[k - 1] = s[k]
        BY <2>1, <3>1 DEF Written, Holds
      <4>2. Len(s) \in 1 .. Len(s) /\ Len(s) \in Len(w) + 1 .. Len(w) + Len(e)
            /\ Len(s) - Len(w) = 1
        BY <1>2, <2>2, <2>3
      <4>3. s[Len(s)] = e[1] /\ b.mem[b.dest - 1] = s[Len(s)]
        BY <2>3, <4>1, <4>2
      <4> QED BY <2>10, <4>3
    <3>3. d.dest = Len(w) /\ \A k \in 1 .. Len(w) : d.mem[k - 1] = w[k]
      BY <2>4, <3>1 DEF Holds
    <3>4. ASSUME NEW k \in 1 .. Len(w) PROVE f.mem[k - 1] = w[k]
      <4>1. k - 1 \in 0 .. n /\ k - 1 # d.dest
        BY <1>2, <2>6, <3>3
      <4> QED BY <2>7, <3>3, <4>1
    <3>5. Finished(f, w, n)
      BY SMTT(90), <2>7, <2>8, <3>3, <3>4 DEF Finished
    <3> QED BY <3>2, <3>5 DEF d, f
  <2>9. CASE Len(w) > n
    <3>1. ~(Len(s) <= n) /\ ~(Len(w) <= n)
      BY <1>2, <2>2, <2>3, <2>9
    <3>2. \A k \in 0 .. n - 2 : b.mem[k] # NUL
      BY <2>1, <3>1 DEF Written, Full
    <3>3. ASSUME NEW k \in 0 .. n - 2 PROVE f.mem[k] # NUL
      <4>1. k \in 0 .. n /\ k # d.dest
        BY <2>4, <2>6, <3>1
      <4> QED BY <2>4, <2>7, <3>1, <4>1
    <3>4. Finished(f, w, n) /\ Finished(b, w, n)
      BY <3>1, <3>2, <3>3 DEF Finished
    <3> QED BY <3>4 DEF d, f
  <2>11. Len(w) < n \/ Len(w) > n
    BY <1>2, <1>4
  <2> QED BY <2>8, <2>9, <2>11
<1> QED BY <1>3, <1>4

\* The text that the server reads is the document, if it fits.
LEMMA FinishedText ==
  ASSUME NEW w \in Texts, w = whole, size \in Nat, size > 0, Sound(buf, size), Ended(buf),
         Finished(buf, w, size)
  PROVE  /\ Len(w) <= size => Text = w
         /\ ~(Len(w) <= size) => ~(Length < size - 1)
<1> DEFINE Here(k) == buf.mem[k] = NUL /\ \A j \in 0 .. k - 1 : buf.mem[j] # NUL
<1>1. Len(w) \in Nat
  BY CleanText
<1>0. \A k \in 1 .. Len(w) : w[k] # NUL
  BY CleanText
<1>2. Length = CHOOSE k \in 0 .. size : Here(k)
  BY DEF Length
<1>3. CASE Len(w) <= size
  <2>1. buf.mem[Len(w)] = NUL /\ \A k \in 1 .. Len(w) : buf.mem[k - 1] = w[k]
    BY <1>3 DEF Finished
  <2>2. ASSUME NEW j \in 0 .. Len(w) - 1 PROVE buf.mem[j] # NUL
    <3>1. j + 1 \in 1 .. Len(w) /\ j + 1 - 1 = j
      BY <1>1
    <3>2. buf.mem[j + 1 - 1] = w[j + 1] /\ w[j + 1] # NUL
      BY <1>0, <2>1, <3>1
    <3> QED BY <3>1, <3>2
  <2>3. Len(w) \in 0 .. size /\ Here(Len(w))
    BY <1>1, <1>3, <2>1, <2>2
  <2>4. Length \in 0 .. size /\ Here(Length)
    <3>1. \E k \in 0 .. size : Here(k)
      BY <2>3
    <3> HIDE DEF Here
    <3> QED BY <1>2, <3>1
  <2>5. Length = Len(w)
    <3>1. ~(Length < Len(w))
      <4>1. Length < Len(w) => Length \in 0 .. Len(w) - 1
        BY <1>1, <2>4
      <4> QED BY <2>2, <2>4, <4>1
    <3>2. ~(Len(w) < Length)
      <4>1. Len(w) < Length => Len(w) \in 0 .. Length - 1
        BY <1>1, <2>4
      <4> QED BY <2>1, <2>4, <4>1
    <3>3. Length \in Nat
      BY <2>4
    <3> QED BY <1>1, <3>1, <3>2, <3>3
  <2>6. w = [k \in 1 .. Len(w) |-> w[k]]
    <3>1. w \in [1 .. Len(w) -> Clean]
      BY LenProperties DEF Texts
    <3> QED BY <3>1
  <2>7. Text = w
    <3>1. Text = [k \in 1 .. Len(w) |-> buf.mem[k - 1]]
      BY <2>5 DEF Text
    <3>2. [k \in 1 .. Len(w) |-> buf.mem[k - 1]] = [k \in 1 .. Len(w) |-> w[k]]
      BY <2>1
    <3> QED BY <2>6, <3>1, <3>2
  <2> QED BY <1>3, <2>7
<1>4. CASE ~(Len(w) <= size)
  <2>1. \A k \in 0 .. size - 2 : buf.mem[k] # NUL
    BY <1>4 DEF Finished
  <2>2. PICK k \in 0 .. buf.dest : buf.mem[k] = NUL
    BY DEF Ended
  <2>3. buf.dest \in 0 .. size
    BY DEF Sound
  <2>4. k = size - 1 \/ k = size
    <3>1. k \in 0 .. size
      BY <2>3
    <3>2. k \notin 0 .. size - 2
      BY <2>1, <2>2
    <3> QED BY <3>1, <3>2
  <2>5. \E i \in 0 .. size : Here(i)
    <3>1. CASE buf.mem[size - 1] = NUL
      <4>1. size - 1 \in 0 .. size /\ size - 1 - 1 = size - 2
        OBVIOUS
      <4>2. Here(size - 1)
        BY <2>1, <3>1, <4>1
      <4> QED BY <4>1, <4>2
    <3>2. CASE buf.mem[size - 1] # NUL
      <4>1. buf.mem[size] = NUL
        BY <2>2, <2>4, <3>2
      <4>2. ASSUME NEW j \in 0 .. size - 1 PROVE buf.mem[j] # NUL
        <5>1. j \in 0 .. size - 2 \/ j = size - 1
          OBVIOUS
        <5> QED BY <2>1, <3>2, <5>1
      <4>3. Here(size) /\ size \in 0 .. size
        BY <4>1, <4>2
      <4> QED BY <4>3
    <3> QED BY <3>1, <3>2
  <2>6. Length \in 0 .. size /\ Here(Length)
    <3> HIDE DEF Here
    <3> QED BY <1>2, <2>5
  <2>7. ~(Length < size - 1)
    <3>1. Length < size - 1 => Length \in 0 .. size - 2
      BY <2>6
    <3> QED BY <2>1, <2>6, <3>1
  <2> QED BY <1>4, <2>7
<1> QED BY <1>3, <1>4

-----------------------------------------------------------------------------
\* A set of numbers that is not empty has a smallest one.
LEMMA Least ==
  \A S \in SUBSET Nat : S # {} => \E m \in S : \A j \in S : m <= j
<1> SUFFICES ASSUME NEW S \in SUBSET Nat, S # {}
             PROVE  \E m \in S : \A j \in S : m <= j
  OBVIOUS
<1> DEFINE R == {ss \in Nat \X Nat : ss[1] < ss[2]}
<1>1. IsWellFoundedOn(R, Nat)
  BY NatLessThanWellFounded DEF OpToRel
<1>2. \A j, m \in Nat : j < m => <<j, m>> \in R
  OBVIOUS
<1>3. PICK m \in S : \A j \in S : <<j, m>> \notin R
  BY <1>1, WFMin
<1> HIDE DEF R
<1>4. m \in Nat /\ \A j \in S : j \in Nat
  OBVIOUS
<1>5. ASSUME NEW j \in S
      PROVE  m <= j
  <2>1. j \in Nat /\ ~(j < m)
    BY <1>2, <1>3, <1>4
  <2> QED BY <2>1, <1>4
<1> QED BY <1>5

\* What belongs to the first characters of v: nothing at first, and with each
\* character its escape.
UpTo(f, v) ==
  /\ f \in [0 .. Len(v) -> Texts] /\ f[0] = <<>>
  /\ \A k \in 1 .. Len(v) : f[k] = f[k - 1] \o EscapedChar(v[k])

\* The escape of a character is a text.
LEMMA EscapeIsText ==
  ASSUME NEW ch \in Chars
  PROVE  EscapedChar(ch) \in Texts /\ Len(EscapedChar(ch)) > 0
<1>1. ch \in Clean /\ BACKSLASH \in Clean /\ "u" \in Clean /\ "0" \in Clean /\ "h" \in Clean
      /\ "e" \in Clean
  BY BuilderAssumption DEF Clean, Bytes, NUL, BACKSLASH
<1>2. \A a, b \in Clean : /\ <<a>> \in Texts /\ Len(<<a>>) > 0
                          /\ <<a, b>> \in Texts /\ Len(<<a, b>>) > 0
  BY DEF Texts
<1>6. \A a, b, c, d \in Clean : /\ <<a, b, c, c, d, d>> \in Texts
                                /\ Len(<<a, b, c, c, d, d>>) > 0
  BY DEF Texts
<1>3. /\ <<BACKSLASH, "u", "0", "0", "h", "h">> \in Texts
      /\ Len(<<BACKSLASH, "u", "0", "0", "h", "h">>) > 0
      /\ <<BACKSLASH, "e">> \in Texts /\ Len(<<BACKSLASH, "e">>) > 0
      /\ <<ch>> \in Texts /\ Len(<<ch>>) > 0
  BY <1>1, <1>2, <1>6
<1>4. CASE ch \in Control
  BY <1>3, <1>4 DEF EscapedChar
<1>5. CASE ch \in Escaped \ Control
  BY <1>3, <1>5 DEF EscapedChar
<1>7. CASE ch \notin Control /\ ch \notin Escaped
  BY <1>3, <1>7 DEF EscapedChar
<1> QED BY <1>4, <1>5, <1>7

\* There is such a function for every text.
LEMMA UpToExists ==
  ASSUME NEW v \in Seq(Chars)
  PROVE  \E f : UpTo(f, v)
<1> DEFINE Part(f, n) == /\ f \in [0 .. n -> Texts] /\ f[0] = <<>>
                         /\ \A k \in 1 .. n : f[k] = f[k - 1] \o EscapedChar(v[k])
           S == {n \in 0 .. Len(v) : ~\E f : Part(f, n)}
<1>1. Len(v) \in Nat /\ \A k \in 1 .. Len(v) : v[k] \in Chars
  BY LenProperties, ElementOfSeq
<1>2. S = {}
  <2> SUFFICES ASSUME S # {} PROVE FALSE
    OBVIOUS
  <2>1. S \in SUBSET Nat
    <3>1. S \subseteq 0 .. Len(v)
      OBVIOUS
    <3> HIDE DEF S
    <3> QED BY <1>1, <3>1
  <2>2. PICK n \in S : \A j \in S : n <= j
    <3> HIDE DEF S
    <3> QED BY <2>1, Least
  <2>3. n \in 0 .. Len(v) /\ ~\E f : Part(f, n)
    BY <2>2
  <2>4. CASE n = 0
    <3> DEFINE g == [i \in 0 .. 0 |-> <<>>]
    <3>1. <<>> \in Texts
      BY DEF Texts
    <3>2. g \in [0 .. n -> Texts] /\ g[0] = <<>> /\ 1 .. n = {}
      BY <2>4, <3>1
    <3>3. Part(g, n)
      BY <3>2
    <3> QED BY <2>3, <3>3
  <2>5. CASE n > 0
    <3>1. n - 1 \in 0 .. Len(v) /\ n \in 1 .. Len(v) /\ ~(n <= n - 1)
      BY <1>1, <2>3, <2>5
    <3>2. n - 1 \notin S
      BY <2>2, <3>1
    <3>3. \E f : Part(f, n - 1)
      BY <3>1, <3>2
    <3>4. PICK f : Part(f, n - 1)
      BY <3>3
    <3> DEFINE x == f[n - 1] \o EscapedChar(v[n])
               g == [i \in 0 .. n |-> IF i = n THEN x ELSE f[i]]
    <3>5. x \in Texts
      <4>1. v[n] \in Chars
        BY <1>1, <3>1
      <4>2. EscapedChar(v[n]) \in Texts
        BY <4>1, EscapeIsText
      <4>3. f[n - 1] \in Texts
        BY <3>1, <3>4
      <4> QED BY <4>2, <4>3, JoinedText
    <3>6. x = f[n - 1] \o EscapedChar(v[n])
      OBVIOUS
    <3> HIDE DEF x
    <3>7. /\ f \in [0 .. n - 1 -> Texts] /\ f[0] = <<>>
          /\ \A k \in 1 .. n - 1 : f[k] = f[k - 1] \o EscapedChar(v[k])
      BY <3>4
    <3>8. n \in Nat /\ n > 0
      BY <2>3, <2>5
    <3>9. g \in [0 .. n -> Texts] /\ g[0] = <<>>
      <4>1. ASSUME NEW i \in 0 .. n PROVE (IF i = n THEN x ELSE f[i]) \in Texts
        <5>1. i # n => i \in 0 .. n - 1
          BY <3>8
        <5> QED BY <3>5, <3>7, <5>1
      <4>2. 0 \in 0 .. n /\ 0 # n
        BY <3>8
      <4> QED BY <3>7, <4>1, <4>2
    <3>10. ASSUME NEW k \in 1 .. n
           PROVE  g[k] = g[k - 1] \o EscapedChar(v[k])
      <4>1. k \in 0 .. n /\ k - 1 \in 0 .. n /\ k - 1 # n
        BY <3>8
      <4>2. g[k] = (IF k = n THEN x ELSE f[k]) /\ g[k - 1] = f[k - 1]
        BY <4>1
      <4>3. CASE k = n
        BY <3>6, <4>2, <4>3
      <4>4. CASE k # n
        <5>1. k \in 1 .. n - 1
          BY <3>8, <4>4
        <5> QED BY <3>7, <4>2, <4>4, <5>1
      <4> QED BY <4>3, <4>4
    <3>11. Part(g, n)
      <4> HIDE DEF g
      <4> QED BY <3>9, <3>10
    <3> QED BY <2>3, <3>11
  <2> QED BY <1>1, <2>3, <2>4, <2>5
<1>3. Len(v) \in 0 .. Len(v)
  BY <1>1
<1>4. \E f : Part(f, Len(v))
  BY <1>2, <1>3
<1> QED BY <1>4 DEF UpTo

\* It is what the definition of an escaped text computes.
LEMMA EscapedTextIs ==
  ASSUME NEW v \in Seq(Chars), NEW f, UpTo(f, v)
  PROVE  EscapedText(v) = f[Len(v)] /\ EscapedText(v) \in Texts
<1> DEFINE upto[k \in 0 .. Len(v)] ==
             IF k = 0 THEN <<>> ELSE upto[k - 1] \o EscapedChar(v[k])
<1>1. Len(v) \in Nat
  BY LenProperties
<1>2. EscapedText(v) = upto[Len(v)]
  BY DEF EscapedText
<1> DEFINE Eq(h) == h = [k \in 0 .. Len(v) |->
                           IF k = 0 THEN <<>> ELSE h[k - 1] \o EscapedChar(v[k])]
<1>3. upto = CHOOSE h : Eq(h)
  OBVIOUS
<1>4. Eq(f)
  <2>1. /\ f \in [0 .. Len(v) -> Texts] /\ f[0] = <<>>
        /\ \A k \in 1 .. Len(v) : f[k] = f[k - 1] \o EscapedChar(v[k])
    BY DEF UpTo
  <2>2. ASSUME NEW k \in 0 .. Len(v)
        PROVE  f[k] = IF k = 0 THEN <<>> ELSE f[k - 1] \o EscapedChar(v[k])
    <3>1. k # 0 => k \in 1 .. Len(v)
      BY <1>1
    <3> QED BY <2>1, <3>1
  <2> QED BY <2>1, <2>2
<1> HIDE DEF upto
<1>5. Eq(upto)
  <2> HIDE DEF Eq
  <2> QED BY <1>3, <1>4
<1> DEFINE S == {n \in 0 .. Len(v) : f[n] # upto[n]}
<1>6. S = {}
  <2> SUFFICES ASSUME S # {} PROVE FALSE
    OBVIOUS
  <2>1. S \in SUBSET Nat
    BY <1>1
  <2>2. PICK n \in S : \A j \in S : n <= j
    <3> HIDE DEF S
    <3> QED BY <2>1, Least
  <2>3. n \in 0 .. Len(v) /\ f[n] # upto[n]
    BY <2>2
  <2>4. \A k \in 0 .. Len(v) : /\ f[k] = IF k = 0 THEN <<>> ELSE f[k - 1] \o EscapedChar(v[k])
                               /\ upto[k] = IF k = 0 THEN <<>>
                                            ELSE upto[k - 1] \o EscapedChar(v[k])
    BY <1>4, <1>5
  <2>5. n # 0
    BY <2>3, <2>4
  <2>6. n - 1 \in 0 .. Len(v) /\ ~(n <= n - 1)
    BY <1>1, <2>3, <2>5
  <2>7. n - 1 \notin S
    BY <2>2, <2>6
  <2>8. f[n - 1] = upto[n - 1]
    BY <2>6, <2>7
  <2> QED BY <2>3, <2>4, <2>5, <2>8
<1>7. Len(v) \in 0 .. Len(v)
  BY <1>1
<1>8. f[Len(v)] = upto[Len(v)]
  BY <1>6, <1>7
<1>9. f[Len(v)] \in Texts
  BY <1>7 DEF UpTo
<1> QED BY <1>2, <1>8, <1>9


\* The escaped text of v begins with the escape of its first character.
LEMMA EscapedTextSteps ==
  ASSUME NEW v \in Seq(Chars)
  PROVE  /\ EscapedText(v) \in Texts
         /\ v = <<>> => EscapedText(v) = <<>>
         /\ v # <<>> => EscapedText(v) = EscapedChar(Head(v)) \o EscapedText(Tail(v))
<1>1. Len(v) \in Nat /\ \A k \in 1 .. Len(v) : v[k] \in Chars
  BY LenProperties, ElementOfSeq
<1>2. EscapedText(v) \in Texts
  BY UpToExists, EscapedTextIs
<1>3. ASSUME v = <<>> PROVE EscapedText(v) = <<>>
  <2>1. PICK f : UpTo(f, v)
    BY UpToExists
  <2>2. EscapedText(v) = f[Len(v)] /\ f[0] = <<>>
    BY <2>1, EscapedTextIs DEF UpTo
  <2>3. Len(v) = 0
    BY <1>3
  <2> QED BY <2>2, <2>3
<1>4. ASSUME v # <<>>
      PROVE  EscapedText(v) = EscapedChar(Head(v)) \o EscapedText(Tail(v))
  <2> DEFINE w == Tail(v)
             n == Len(v)
             x == EscapedChar(v[1])
  <2>1. w \in Seq(Chars) /\ Len(w) = n - 1 /\ n \in Nat /\ n > 0
        /\ Head(v) = v[1] /\ \A k \in 1 .. n - 1 : w[k] = v[k + 1]
    BY <1>1, <1>4
  <2>2. x \in Texts
    <3>1. v[1] \in Chars
      BY <1>1, <2>1
    <3> QED BY <3>1, EscapeIsText
  <2>3. n = Len(v) /\ x = EscapedChar(v[1])
    OBVIOUS
  <2> HIDE DEF w, n, x
  <2>4. PICK f : UpTo(f, w)
    BY <2>1, UpToExists
  <2>5. /\ f \in [0 .. n - 1 -> Texts] /\ f[0] = <<>>
        /\ \A k \in 1 .. n - 1 : f[k] = f[k - 1] \o EscapedChar(w[k])
    BY <2>1, <2>4 DEF UpTo
  <2> DEFINE h == [k \in 0 .. n |-> IF k = 0 THEN <<>> ELSE x \o f[k - 1]]
  <2>6. \A k \in 1 .. n : h[k] = x \o f[k - 1] /\ f[k - 1] \in Texts
    <3> SUFFICES ASSUME NEW k \in 1 .. n PROVE h[k] = x \o f[k - 1] /\ f[k - 1] \in Texts
      OBVIOUS
    <3>1. k \in 0 .. n /\ k # 0 /\ k - 1 \in 0 .. n - 1
      BY <2>1
    <3> QED BY <2>5, <3>1
  <2>7. h \in [0 .. n -> Texts] /\ h[0] = <<>>
    <3>1. <<>> \in Texts
      BY DEF Texts
    <3>2. ASSUME NEW k \in 0 .. n
          PROVE  (IF k = 0 THEN <<>> ELSE x \o f[k - 1]) \in Texts
      <4>1. k # 0 => k - 1 \in 0 .. n - 1
        BY <2>1
      <4>2. k # 0 => x \o f[k - 1] \in Texts
        BY <2>2, <2>5, <4>1, JoinedText
      <4> QED BY <3>1, <4>2
    <3>3. 0 \in 0 .. n
      BY <2>1
    <3> QED BY <3>2, <3>3
  <2> HIDE DEF h
  <2>8. ASSUME NEW k \in 1 .. n
        PROVE  h[k] = h[k - 1] \o EscapedChar(v[k])
    <3>1. CASE k = 1
      <4>1. h[1] = x \o <<>> /\ x \o <<>> = x /\ <<>> \o x = x
        <5>1. x \o <<>> = x /\ <<>> \o x = x
          BY <2>2, ConcatEmptySeq DEF Texts
        <5>2. h[k] = x \o f[k - 1] /\ k - 1 = 0
          BY <2>6, <3>1
        <5> QED BY <2>5, <3>1, <5>1, <5>2
      <4>2. h[k - 1] = <<>>
        BY <2>7, <3>1
      <4> QED BY <2>3, <3>1, <4>1, <4>2
    <3>2. CASE k # 1
      <4>1. k - 1 \in 1 .. n - 1 /\ k - 1 \in 1 .. n /\ k - 1 + 1 = k /\ k - 1 - 1 \in 0 .. n - 1
        BY <2>1, <3>2
      <4>2. h[k] = x \o f[k - 1] /\ h[k - 1] = x \o f[k - 1 - 1]
        BY <2>6, <4>1
      <4>3. f[k - 1] = f[k - 1 - 1] \o EscapedChar(w[k - 1])
        BY <2>5, <4>1
      <4>4. w[k - 1] = v[k]
        BY <2>1, <4>1
      <4>5. f[k - 1 - 1] \in Texts
        BY <2>5, <4>1
      <4>6. EscapedChar(v[k]) \in Texts
        <5>1. v[k] \in Chars
          BY <1>1, <2>3
        <5> QED BY <5>1, EscapeIsText
      <4>7. (x \o f[k - 1 - 1]) \o EscapedChar(v[k]) = x \o (f[k - 1 - 1] \o EscapedChar(v[k]))
        BY <2>2, <4>5, <4>6, Regroup
      <4> QED BY <4>2, <4>3, <4>4, <4>7
    <3> QED BY <3>1, <3>2
  <2>9. UpTo(h, v)
    BY <2>3, <2>7, <2>8 DEF UpTo
  <2>10. EscapedText(v) = h[n]
    BY <2>3, <2>9, EscapedTextIs
  <2>11. h[n] = x \o f[n - 1]
    <3>1. n \in 1 .. n
      BY <2>1
    <3> QED BY <2>6, <3>1
  <2>12. EscapedText(w) = f[n - 1]
    BY <2>1, <2>4, EscapedTextIs
  <2> QED BY <2>1, <2>3, <2>10, <2>11, <2>12 DEF w
<1> QED BY <1>2, <1>3, <1>4

-----------------------------------------------------------------------------
\* A bracket that is open.
Openers == {"{", "["}
Closers == {"}", "]"}
Frames == [name : Names \cup {NoName}, open : Openers, close : Closers, text : Texts]

\* What was written of it.
Begun(f) == Element(f.name, <<f.open>>) \o Closed(f.text)

\* What was written up to and with each of the brackets that are open.
Streams(stack, pre) ==
  /\ pre \in [0 .. Len(stack) -> Texts] /\ pre[0] = <<>>
  /\ \A k \in 1 .. Len(stack) : pre[k] = pre[k - 1] \o Begun(stack[k])

\* A comma is put behind every item.
LEMMA ClosedItem ==
  ASSUME NEW text \in Texts, NEW item \in Texts, Len(item) > 0
  PROVE  LET new == IF text = <<>> THEN item ELSE (text \o <<",">>) \o item
         IN  new \in Texts /\ Closed(new) = Closed(text) \o (item \o <<",">>)
<1>1. <<",">> \in Texts
  BY CleanPunctuation
<1>2. item # <<>> /\ item \o <<",">> \in Texts
  <2>1. item # <<>>
    OBVIOUS
  <2> QED BY <1>1, <2>1, JoinedText
<1>3. CASE text = <<>>
  <2>1. <<>> \o (item \o <<",">>) = item \o <<",">>
    BY <1>2, ConcatEmptySeq DEF Texts
  <2> QED BY <1>2, <1>3, <2>1 DEF Closed
<1>4. CASE text # <<>>
  <2> DEFINE c == text \o <<",">>
             new == c \o item
  <2>1. c \in Texts
    BY <1>1, JoinedText
  <2>2. c = text \o <<",">>
    OBVIOUS
  <2> HIDE DEF c
  <2>3. new \in Texts /\ Len(new) = Len(c) + Len(item)
    BY <2>1, JoinedText
  <2>4. new # <<>>
    <3>1. Len(new) > 0
      <4>1. Len(c) \in Nat /\ Len(item) \in Nat
        BY <2>1, CleanText
      <4> HIDE DEF new
      <4> QED BY <2>3, <4>1
    <3> HIDE DEF new
    <3> QED BY <3>1
  <2>5. new \o <<",">> = c \o (item \o <<",">>)
    BY <1>1, <2>1, Regroup
  <2>6. Closed(new) = new \o <<",">> /\ Closed(text) = c
    BY <1>4, <2>2, <2>4 DEF Closed
  <2> QED BY <1>4, <2>2, <2>3, <2>5, <2>6
<1> QED BY <1>3, <1>4

\* What was written of a bracket is a text.
LEMMA BegunIsText ==
  ASSUME NEW f \in Frames
  PROVE  /\ f.name \in Names \cup {NoName} /\ f.text \in Texts /\ Closed(f.text) \in Texts
         /\ <<f.open>> \in Texts /\ Element(f.name, <<f.open>>) \in Texts /\ Begun(f) \in Texts
<1>1. /\ f.name \in Names \cup {NoName} /\ f.open \in {"{", "["}
      /\ f.close \in {"}", "]"} /\ f.text \in Texts
  BY DEF Frames, Openers, Closers
<1>2. <<f.open>> \in Texts /\ <<",">> \in Texts
  BY <1>1, CleanPunctuation
<1>3. Closed(f.text) \in Texts
  BY <1>1, <1>2, JoinedText DEF Closed
<1>4. Element(f.name, <<f.open>>) \in Texts
  BY <1>1, <1>2, CleanElement
<1>5. Begun(f) \in Texts
  BY <1>3, <1>4, JoinedText DEF Begun
<1> QED BY <1>1, <1>2, <1>3, <1>4, <1>5

\* A bracket that is closed, and what is in front of the new character.
LEMMA ItemText ==
  ASSUME NEW f \in Frames, NEW p \in Texts
  PROVE  LET u == p \o (Element(f.name, <<f.open>>) \o f.text)
             item == Element(f.name, (<<f.open>> \o f.text) \o <<f.close>>)
         IN  /\ u \in Texts /\ item \in Texts /\ NoComma(item)
             /\ u \o <<f.close>> = p \o item
             /\ u \o <<f.close, ",">> = p \o (item \o <<",">>)
             /\ WithoutComma(p \o Begun(f), u)
<1> DEFINE e == Element(f.name, <<f.open>>)
           t == f.text
           x == <<f.close>>
           o == <<f.open>>
           bf == Before(f.name)
           u == p \o (e \o t)
           item == Element(f.name, (o \o t) \o x)
           comma == <<",">>
<1>1. /\ f.name \in Names \cup {NoName} /\ t \in Texts /\ e \in Texts /\ o \in Texts
  BY BegunIsText
<1>2. f.open \in {"{", "["} /\ f.close \in {"}", "]"}
  BY DEF Frames, Openers, Closers
<1>3. x \in Texts /\ Len(x) = 1 /\ x[1] = f.close /\ f.close # ","
      /\ o \in Texts /\ Len(o) = 1 /\ o[1] = f.open /\ f.open # ","
      /\ comma \in Texts /\ Len(comma) = 1 /\ <<f.close, ",">> = x \o comma
  BY <1>2, CleanPunctuation
<1>4. bf \in Texts /\ e = bf \o o
  BY <1>1, CleanElement
<1>5. o \o t \in Texts /\ (o \o t) \o x \in Texts
  BY <1>1, <1>3, JoinedText
<1>6. item \in Texts /\ item = bf \o ((o \o t) \o x)
  BY <1>1, <1>5, CleanElement
<1>7. e \o t \in Texts /\ u \in Texts
  BY <1>1, JoinedText
<1>8. item = (e \o t) \o x
  <2>1. bf \o ((o \o t) \o x) = (bf \o (o \o t)) \o x
    BY <1>3, <1>4, <1>5, Regroup
  <2>2. bf \o (o \o t) = (bf \o o) \o t
    BY <1>1, <1>4, Regroup
  <2> QED BY <1>4, <1>6, <2>1, <2>2
<1> HIDE DEF e, t, x, o, bf, item, comma
<1>9. NoComma(item)
  <2> DEFINE a == e \o t
  <2>1. a \in Texts /\ item = a \o x
    BY <1>7, <1>8
  <2> HIDE DEF a
  <2>2. /\ Len(a \o x) = Len(a) + Len(x)
        /\ \A k \in Len(a) + 1 .. Len(a) + Len(x) : (a \o x)[k] = x[k - Len(a)]
    BY <1>3, <2>1, JoinedText
  <2>3. Len(a) \in Nat /\ Len(x) = 1
    BY <1>3, <2>1, CleanText
  <2>4. /\ Len(item) = Len(a) + 1
        /\ \A k \in Len(a) + 1 .. Len(a) + 1 : item[k] = x[k - Len(a)]
    BY <2>1, <2>2, <2>3
  <2>5. Len(item) > 0 /\ Len(item) \in Len(a) + 1 .. Len(a) + 1 /\ Len(item) - Len(a) = 1
    BY <2>3, <2>4
  <2>6. item[Len(item)] = x[1]
    BY <2>4, <2>5
  <2> QED BY <1>3, <2>5, <2>6 DEF NoComma
<1>10. u \o x = p \o item
  <2>1. (p \o (e \o t)) \o x = p \o ((e \o t) \o x)
    BY <1>3, <1>7, Regroup
  <2> QED BY <1>8, <2>1
<1>11. u \o <<f.close, ",">> = p \o (item \o comma)
  <2>1. u \o (x \o comma) = (u \o x) \o comma
    BY ZenonT(90), <1>3, <1>7, Regroup
  <2>2. (p \o item) \o comma = p \o (item \o comma)
    BY ZenonT(90), <1>3, <1>6, Regroup
  <2> QED BY <1>3, <1>10, <2>1, <2>2
<1>12. WithoutComma(p \o Begun(f), u)
  <2>1. CASE t = <<>>
    <3>1. Begun(f) = e \o <<>> /\ u = p \o (e \o <<>>)
      BY <2>1 DEF Begun, Closed, e, t, o
    <3>2. e \o <<>> = e
      BY <1>1, ConcatEmptySeq DEF Texts
    <3>3. p \o Begun(f) = u
      BY <3>1
    <3> DEFINE a == p \o bf
    <3>4. a \in Texts /\ u = a \o o
      <4>1. p \o (bf \o o) = (p \o bf) \o o
        BY <1>3, <1>4, Regroup
      <4> QED BY <1>4, <3>1, <3>2, <4>1, JoinedText
    <3> HIDE DEF a, u
    <3>5. /\ Len(a \o o) = Len(a) + Len(o)
          /\ \A k \in Len(a) + 1 .. Len(a) + Len(o) : (a \o o)[k] = o[k - Len(a)]
      BY <1>3, <3>4, JoinedText
    <3>6. Len(a) \in Nat /\ Len(o) = 1
      BY <1>3, <3>4, CleanText
    <3>7. /\ Len(u) = Len(a) + 1
          /\ \A k \in Len(a) + 1 .. Len(a) + 1 : u[k] = o[k - Len(a)]
      BY <3>4, <3>5, <3>6
    <3>8. Len(u) > 0 /\ Len(u) \in Len(a) + 1 .. Len(a) + 1 /\ Len(u) - Len(a) = 1
      BY <3>6, <3>7
    <3>9. u[Len(u)] = o[1]
      BY <3>7, <3>8
    <3> QED BY <1>3, <3>3, <3>8, <3>9 DEF NoComma, WithoutComma
  <2>2. CASE t # <<>>
    <3>1. Begun(f) = e \o (t \o comma)
      BY <2>2 DEF Begun, Closed, e, t, o, comma
    <3>2. e \o (t \o comma) = (e \o t) \o comma
      BY ZenonT(90), <1>1, <1>3, Regroup
    <3>3. p \o ((e \o t) \o comma) = (p \o (e \o t)) \o comma
      BY <1>3, <1>7, Regroup
    <3>4. p \o Begun(f) = u \o comma
      BY <3>1, <3>2, <3>3
    <3> QED BY <3>4 DEF WithoutComma, comma
  <2> QED BY <2>1, <2>2
<1> HIDE DEF u
<1> QED BY <1>6, <1>7, <1>9, <1>10, <1>11, <1>12 DEF u, e, t, x, o, item, comma

\* One more bracket.
LEMMA PushStream ==
  ASSUME NEW stack \in Seq(Frames), NEW pre, Streams(stack, pre), NEW f \in Frames,
         f.text = <<>>
  PROVE  LET new == Append(stack, f)
         IN  /\ new \in Seq(Frames) /\ new # <<>>
             /\ \E q : /\ Streams(new, q)
                       /\ q[Len(new)] = pre[Len(stack)] \o Element(f.name, <<f.open>>)
<1> DEFINE n == Len(stack)
           new == Append(stack, f)
           x == pre[n] \o Begun(f)
           q == [k \in 0 .. n + 1 |-> IF k = n + 1 THEN x ELSE pre[k]]
<1>1. n \in Nat /\ new \in Seq(Frames) /\ Len(new) = n + 1 /\ new[n + 1] = f
      /\ \A k \in 1 .. n : new[k] = stack[k]
  BY LenProperties, AppendProperties
<1>2. new # <<>>
  BY <1>1
<1>3. /\ pre \in [0 .. n -> Texts] /\ pre[0] = <<>>
      /\ \A k \in 1 .. n : pre[k] = pre[k - 1] \o Begun(stack[k])
  BY DEF Streams
<1>4. x \in Texts
  <2>1. pre[n] \in Texts
    BY <1>1, <1>3
  <2> QED BY <2>1, BegunIsText, JoinedText
<1>5. x = pre[n] \o Begun(f)
  OBVIOUS
<1>6. Begun(f) = Element(f.name, <<f.open>>)
  <2>1. Begun(f) = Element(f.name, <<f.open>>) \o <<>>
    BY DEF Begun, Closed
  <2>2. Element(f.name, <<f.open>>) \in Texts
    BY BegunIsText
  <2> QED BY <2>1, <2>2, ConcatEmptySeq DEF Texts
<1> HIDE DEF n, new, x
<1>7. q \in [0 .. n + 1 -> Texts] /\ q[0] = <<>> /\ q[n + 1] = x /\ \A k \in 0 .. n : q[k] = pre[k]
  <2>1. ASSUME NEW k \in 0 .. n + 1 PROVE (IF k = n + 1 THEN x ELSE pre[k]) \in Texts
    <3>1. k # n + 1 => k \in 0 .. n
      BY <1>1
    <3> QED BY <1>3, <1>4, <3>1
  <2>2. q \in [0 .. n + 1 -> Texts]
    BY <2>1
  <2>3. ASSUME NEW k \in 0 .. n PROVE q[k] = pre[k]
    <3>1. k \in 0 .. n + 1 /\ k # n + 1
      BY <1>1
    <3> QED BY <3>1
  <2>4. q[n + 1] = x
    BY <1>1
  <2>5. 0 \in 0 .. n
    BY <1>1
  <2> HIDE DEF q
  <2> QED BY <1>3, <2>2, <2>3, <2>4, <2>5
<1> HIDE DEF q
<1>8. ASSUME NEW k \in 1 .. n + 1 PROVE q[k] = q[k - 1] \o Begun(new[k])
  <2>1. CASE k = n + 1
    <3>1. n \in 0 .. n /\ k - 1 = n
      BY <1>1, <2>1
    <3> QED BY <1>1, <1>5, <1>7, <2>1, <3>1
  <2>2. CASE k # n + 1
    <3>1. k \in 1 .. n /\ k \in 0 .. n /\ k - 1 \in 0 .. n
      BY <1>1, <2>2
    <3> QED BY <1>1, <1>3, <1>7, <3>1
  <2> QED BY <2>1, <2>2
<1>9. Streams(new, q)
  BY <1>1, <1>7, <1>8 DEF Streams
<1>10. q[Len(new)] = pre[n] \o Element(f.name, <<f.open>>)
  BY <1>1, <1>5, <1>6, <1>7
<1> QED BY <1>1, <1>2, <1>9, <1>10 DEF n, new

\* One less.
LEMMA PopStream ==
  ASSUME NEW stack \in Seq(Frames), Len(stack) > 0, NEW pre, Streams(stack, pre)
  PROVE  LET rest == SubSeq(stack, 1, Len(stack) - 1)
         IN  /\ rest \in Seq(Frames) /\ Len(rest) = Len(stack) - 1
             /\ \E q : Streams(rest, q) /\ q[Len(rest)] = pre[Len(stack) - 1]
<1> DEFINE n == Len(stack)
           rest == SubSeq(stack, 1, n - 1)
           q == [k \in 0 .. n - 1 |-> pre[k]]
<1>1. n \in Nat /\ n > 0
  BY LenProperties
<1>2. rest \in Seq(Frames) /\ Len(rest) = n - 1 /\ \A k \in 1 .. n - 1 : rest[k] = stack[k]
  <2>1. 1 \in 1 .. Len(stack) + 1 /\ n - 1 \in 1 - 1 .. Len(stack) /\ n - 1 - 1 + 1 = n - 1
    BY <1>1
  <2>2. /\ rest \in Seq(Frames) /\ Len(rest) = IF 1 <= n - 1 THEN n - 1 - 1 + 1 ELSE 0
        /\ \A i \in 1 .. n - 1 - 1 + 1 : rest[i] = stack[1 + i - 1]
    BY <2>1, SubSeqProperties
  <2> HIDE DEF rest, n
  <2>3. \A i \in 1 .. n - 1 : 1 + i - 1 = i
    OBVIOUS
  <2>4. Len(rest) = n - 1
    <3>1. (1 <= n - 1 /\ n - 1 - 1 + 1 = n - 1) \/ (~(1 <= n - 1) /\ 0 = n - 1)
      BY <1>1
    <3>2. Len(rest) = IF 1 <= n - 1 THEN n - 1 - 1 + 1 ELSE 0
      BY <2>2
    <3> QED BY <3>1, <3>2
  <2> QED BY <2>1, <2>2, <2>3, <2>4
<1>3. /\ pre \in [0 .. n -> Texts] /\ pre[0] = <<>>
      /\ \A k \in 1 .. n : pre[k] = pre[k - 1] \o Begun(stack[k])
  BY DEF Streams
<1> HIDE DEF n, rest
<1>4. q \in [0 .. n - 1 -> Texts] /\ \A k \in 0 .. n - 1 : q[k] = pre[k]
  <2>1. \A k \in 0 .. n - 1 : k \in 0 .. n
    BY <1>1
  <2> QED BY <1>3, <2>1
<1> HIDE DEF q
<1>5. 0 \in 0 .. n - 1 /\ n - 1 \in 0 .. n - 1
  BY <1>1
<1>6. ASSUME NEW k \in 1 .. n - 1 PROVE q[k] = q[k - 1] \o Begun(rest[k])
  <2>1. k \in 0 .. n - 1 /\ k - 1 \in 0 .. n - 1 /\ k \in 1 .. n
    BY <1>1
  <2> QED BY <1>2, <1>3, <1>4, <2>1
<1>7. Streams(rest, q) /\ q[Len(rest)] = pre[n - 1]
  BY <1>2, <1>3, <1>4, <1>5, <1>6 DEF Streams
<1> QED BY <1>2, <1>7 DEF n, rest

\* One more item in the innermost bracket.
LEMMA ItemStream ==
  ASSUME NEW stack \in Seq(Frames), Len(stack) > 0, NEW pre, Streams(stack, pre),
         NEW item \in Texts, Len(item) > 0
  PROVE  LET new == WithItem(stack, item)
         IN  /\ new \in Seq(Frames) /\ Len(new) = Len(stack)
             /\ \E q : /\ Streams(new, q)
                       /\ q[Len(new)] = pre[Len(stack)] \o (item \o <<",">>)
<1> DEFINE n == Len(stack)
           new == WithItem(stack, item)
           f == stack[n]
           text == IF f.text = <<>> THEN item ELSE (f.text \o <<",">>) \o item
           g == [f EXCEPT !.text = text]
           more == item \o <<",">>
           x == pre[n] \o more
           q == [k \in 0 .. n |-> IF k = n THEN x ELSE pre[k]]
<1>1. n \in Nat /\ n > 0 /\ n \in 1 .. n
  BY LenProperties
<1>2. f \in Frames /\ \A k \in 1 .. n : stack[k] \in Frames
  BY <1>1, ElementOfSeq
<1>3. text \in Texts /\ Closed(text) = Closed(f.text) \o more
  <2>1. f.text \in Texts
    BY <1>2, BegunIsText
  <2> HIDE DEF f
  <2> QED BY <2>1, ClosedItem
<1>4. new = [stack EXCEPT ![n] = g]
  BY DEF WithItem
<1>5. n = Len(stack) /\ f = stack[n] /\ x = pre[n] \o more /\ g = [f EXCEPT !.text = text]
  OBVIOUS
<1>6. more \in Texts
  <2>1. <<",">> \in Texts
    BY CleanPunctuation
  <2> QED BY <2>1, JoinedText
<1> HIDE DEF n, new, f, text, more, x
<1>7. g \in Frames /\ g.name = f.name /\ g.open = f.open /\ g.text = text
  BY <1>2, <1>3 DEF Frames
<1> HIDE DEF g
<1>8. /\ new \in Seq(Frames) /\ Len(new) = n /\ new[n] = g
      /\ \A k \in 1 .. n : k # n => new[k] = stack[k]
  BY <1>1, <1>4, <1>5, <1>7, ExceptSeq
<1>9. /\ pre \in [0 .. n -> Texts] /\ pre[0] = <<>>
      /\ \A k \in 1 .. n : pre[k] = pre[k - 1] \o Begun(stack[k])
  BY <1>5 DEF Streams
<1>10. Begun(g) = Begun(f) \o more
  <2>1. Begun(g) = Element(f.name, <<f.open>>) \o (Closed(f.text) \o more)
    BY <1>3, <1>7 DEF Begun
  <2>2. Begun(f) = Element(f.name, <<f.open>>) \o Closed(f.text)
    BY DEF Begun
  <2>3. Element(f.name, <<f.open>>) \in Texts /\ Closed(f.text) \in Texts
    BY <1>2, BegunIsText
  <2> QED BY SMTT(90), <1>6, <2>1, <2>2, <2>3, Regroup
<1>11. x \in Texts /\ x = pre[n - 1] \o Begun(g)
  <2>1. pre[n] \in Texts /\ pre[n - 1] \in Texts /\ pre[n] = pre[n - 1] \o Begun(f)
    <3>1. n \in 0 .. n /\ n - 1 \in 0 .. n
      BY <1>1
    <3> QED BY <1>1, <1>5, <1>9, <3>1
  <2>2. Begun(f) \in Texts
    BY <1>2, BegunIsText
  <2>3. (pre[n - 1] \o Begun(f)) \o more = pre[n - 1] \o (Begun(f) \o more)
    BY <1>6, <2>1, <2>2, Regroup
  <2> QED BY <1>5, <1>6, <1>10, <2>1, <2>3, JoinedText
<1>12. q \in [0 .. n -> Texts] /\ q[n] = x /\ (\A k \in 0 .. n - 1 : q[k] = pre[k])
  <2>1. \A k \in 0 .. n : (IF k = n THEN x ELSE pre[k]) \in Texts
    BY <1>9, <1>11
  <2>2. q \in [0 .. n -> Texts]
    BY <2>1
  <2>3. n \in 0 .. n
    BY <1>1
  <2>4. ASSUME NEW k \in 0 .. n - 1 PROVE q[k] = pre[k]
    <3>1. k \in 0 .. n /\ k # n
      BY <1>1
    <3> QED BY <3>1
  <2> QED BY <2>2, <2>3, <2>4
<1> HIDE DEF q
<1>13. q[0] = <<>>
  <2>1. 0 \in 0 .. n - 1
    BY <1>1
  <2> QED BY <1>9, <1>12, <2>1
<1>14. ASSUME NEW k \in 1 .. n PROVE q[k] = q[k - 1] \o Begun(new[k])
  <2>1. k - 1 \in 0 .. n - 1
    BY <1>1
  <2>2. CASE k = n
    BY <1>8, <1>11, <1>12, <2>1, <2>2
  <2>3. CASE k # n
    <3>1. k \in 0 .. n - 1
      BY <1>1, <2>3
    <3> QED BY <1>8, <1>9, <1>12, <2>1, <2>3, <3>1
  <2> QED BY <2>2, <2>3
<1>15. Streams(new, q)
  BY <1>8, <1>12, <1>13, <1>14 DEF Streams
<1>16. q[Len(new)] = pre[Len(stack)] \o (item \o <<",">>)
  BY <1>5, <1>8, <1>12 DEF more
<1> QED BY <1>5, <1>8, <1>15, <1>16 DEF new

-----------------------------------------------------------------------------
\* The brackets that are open, and the document once they are closed.
Shape ==
  /\ nest \in Seq(Frames) /\ whole \in Texts /\ plain \in BOOLEAN
  /\ nest = <<>> /\ calls > 0 => NoComma(whole)
  /\ phase = "string" => nest # <<>>
  /\ phase = "done" => nest = <<>> /\ calls > 0

\* What is between two calls: all that belongs to the open brackets was written.
InBody == \E pre : Streams(nest, pre) /\ Written(buf, pre[Len(nest)], size)

\* What is inside atoesc: all but the rest of the value and its end.
InString ==
  \E pre, done :
    /\ Streams(nest, pre) /\ done \in Texts /\ Written(buf, done, size)
    /\ pre[Len(nest)] = done \o (EscapedText(src) \o <<QUOTE, ",">>)
    /\ \A k \in 1 .. Len(src) : src[k] \notin Control

\* The contents of the buffer, as long as no character was skipped.
Content ==
  /\ phase = "build" /\ (nest # <<>> \/ calls = 0) => InBody
  /\ phase = "build" /\ nest = <<>> /\ calls > 0 => Described(buf, whole, size)
  /\ phase = "string" => InString
  /\ phase = "done" => Finished(buf, whole, size)

ContentInv == BuilderInv /\ Shape /\ (plain => Content)

\* What every step may use of the invariant.
LEMMA ContentMeans ==
  ASSUME ContentInv
  PROVE  /\ Sound(buf, size) /\ size \in Nat /\ size > 0 /\ calls \in Nat /\ src \in Seq(Chars)
         /\ nest \in Seq(Frames) /\ whole \in Texts /\ plain \in BOOLEAN
         /\ nest # <<>> => Len(nest) > 0 /\ calls > 0
         /\ calls > 0 /\ phase # "done" => buf.dest > 0
         /\ calls > 0 /\ phase # "string" => Ended(buf)
<1>1. BuilderInv /\ Shape
  BY DEF ContentInv
<1>2. nest \in Seq(Frames)
  BY <1>1 DEF Shape
<1>3. nest # <<>> => Len(nest) > 0
  BY <1>2
<1> QED BY <1>1, <1>3 DEF BuilderInv, Shape

\* An item leaves the brackets open that are open.
LEMMA WithItemShape ==
  ASSUME NEW stack \in Seq(Frames), Len(stack) > 0, NEW item \in Texts, Len(item) > 0
  PROVE  LET new == WithItem(stack, item)
         IN  new \in Seq(Frames) /\ Len(new) = Len(stack)
<1> DEFINE n == Len(stack)
           f == stack[n]
           text == IF f.text = <<>> THEN item ELSE (f.text \o <<",">>) \o item
           g == [f EXCEPT !.text = text]
<1>1. n \in Nat /\ n > 0 /\ n \in 1 .. n
  BY LenProperties
<1>2. f \in Frames
  BY <1>1, ElementOfSeq
<1>3. text \in Texts
  <2>1. f.text \in Texts
    BY <1>2, BegunIsText
  <2> HIDE DEF f
  <2> QED BY <2>1, ClosedItem
<1>4. WithItem(stack, item) = [stack EXCEPT ![n] = g]
  BY DEF WithItem
<1> HIDE DEF f, text
<1>5. g \in Frames
  BY <1>2, <1>3 DEF Frames
<1> HIDE DEF g
<1>6. [stack EXCEPT ![n] = g] \in Seq(Frames) /\ Len([stack EXCEPT ![n] = g]) = Len(stack)
  BY <1>1, <1>5, ExceptSeq
<1> QED BY <1>4, <1>6

\* A call that adds an item, when its text was written into the buffer.
LEMMA ItemAdded ==
  ASSUME ContentInv, plain, nest # <<>>, phase = "build",
         NEW name \in Names \cup {NoName}, NEW text \in Texts, Len(text) > 0
  PROVE  \E s \in Texts : \E q :
           /\ Written(buf, s, size)
           /\ Streams(WithItem(nest, Element(name, text)), q)
           /\ q[Len(WithItem(nest, Element(name, text)))]
                = s \o ((Before(name) \o text) \o <<",">>)
<1>1. nest \in Seq(Frames) /\ Len(nest) > 0
  BY ContentMeans
<1>2. InBody
  BY DEF ContentInv, Content
<1>3. PICK pre : Streams(nest, pre) /\ Written(buf, pre[Len(nest)], size)
  BY <1>2 DEF InBody
<1> DEFINE item == Element(name, text)
           new == WithItem(nest, item)
           s == pre[Len(nest)]
<1>4. item \in Texts /\ Len(item) > 0 /\ item = Before(name) \o text
  <2>1. item \in Texts /\ item = Before(name) \o text /\ Len(item) >= Len(text)
    BY CleanElement
  <2>2. Len(item) \in Nat /\ Len(text) \in Nat
    BY <2>1, CleanText
  <2> HIDE DEF item
  <2> QED BY <2>1, <2>2
<1>5. s \in Texts
  <2>1. pre \in [0 .. Len(nest) -> Texts] /\ Len(nest) \in 0 .. Len(nest)
    BY <1>1, <1>3, LenProperties DEF Streams
  <2> QED BY <2>1
<1> HIDE DEF item
<1>6. \E q : Streams(new, q) /\ q[Len(new)] = s \o (item \o <<",">>)
  BY <1>1, <1>3, <1>4, ItemStream
<1> QED BY <1>3, <1>4, <1>5, <1>6 DEF item

\* Two ways to put four texts together.
Reorders(s, a, b, c) == s \o ((a \o b) \o c) = (s \o a) \o (b \o c)

\* The characters of an item, in the order in which they are written.
LEMMA Reordered ==
  ASSUME NEW s \in Texts, NEW a \in Texts, NEW b \in Texts, NEW c \in Texts
  PROVE  Reorders(s, a, b, c)
<1>1. (a \o b) \o c = a \o (b \o c)
  BY Regroup
<1>2. b \o c \in Texts
  BY JoinedText
<1>3. (s \o a) \o (b \o c) = s \o (a \o (b \o c))
  <2> DEFINE d == b \o c
  <2>1. d \in Texts
    BY <1>2
  <2> HIDE DEF d
  <2>2. (s \o a) \o d = s \o (a \o d)
    BY <2>1, Regroup
  <2> QED BY <2>2 DEF d
<1> QED BY <1>1, <1>3 DEF Reorders

\* Opening a bracket.
LEMMA OpenContent ==
  ASSUME ContentInv, BuilderInv',
         NEW name \in Names \cup {NoName}, NEW open \in Openers, NEW close \in Closers,
         OpenBracket(name, open, close)
  PROVE  ContentInv'
<1>1. phase = "build" /\ calls' = calls + 1 /\ (nest = <<>> => calls = 0)
  <2>1. CASE nest = <<>>
    <3>1. phase = "build" /\ calls = 0 /\ calls' = 1
      BY <2>1 DEF OpenBracket
    <3>2. 1 = 0 + 1
      OBVIOUS
    <3> QED BY <3>1, <3>2
  <2>2. CASE nest # <<>>
    BY <2>2 DEF OpenBracket, MayAdd
  <2> QED BY <2>1, <2>2
<1> DEFINE f == [name |-> name, open |-> open, close |-> close, text |-> <<>>]
<1>2. /\ UNCHANGED <<size, src, phase, whole, plain>>
      /\ buf' = Open(buf, name, open) /\ nest' = Append(nest, f)
  BY DEF OpenBracket
<1>3. f \in Frames /\ f.text = <<>> /\ f.name = name /\ f.open = open
  BY DEF Frames, Texts
<1> HIDE DEF f
<1>4. /\ Sound(buf, size) /\ size \in Nat /\ nest \in Seq(Frames) /\ calls \in Nat
      /\ whole \in Texts /\ plain \in BOOLEAN
  BY ContentMeans
<1>5. nest' \in Seq(Frames) /\ nest' # <<>>
  BY <1>2, <1>3, <1>4, AppendProperties
<1>6. Shape'
  BY <1>1, <1>2, <1>4, <1>5 DEF Shape
<1>7. ASSUME plain' PROVE Content'
  <2>1. plain
    BY <1>2, <1>7
  <2>2. InBody
    BY <1>1, <2>1 DEF ContentInv, Content
  <2>3. PICK pre : Streams(nest, pre) /\ Written(buf, pre[Len(nest)], size)
    BY <2>2 DEF InBody
  <2>4. pre[Len(nest)] \in Texts
    <3>1. pre \in [0 .. Len(nest) -> Texts] /\ Len(nest) \in 0 .. Len(nest)
      BY <1>4, <2>3, LenProperties DEF Streams
    <3> QED BY <3>1
  <2>5. Written(buf', pre[Len(nest)] \o Element(name, <<open>>), size)
    BY <1>2, <1>4, <2>3, <2>4, OpenWrites DEF Openers
  <2>6. \E q : /\ Streams(nest', q)
               /\ q[Len(nest')] = pre[Len(nest)] \o Element(name, <<open>>)
    BY ZenonT(90), <1>2, <1>3, <1>4, <2>3, PushStream
  <2>7. InBody'
    BY <1>2, <2>5, <2>6 DEF InBody
  <2> QED BY <1>1, <1>2, <1>5, <2>7 DEF Content
<1> QED BY <1>6, <1>7 DEF ContentInv

\* Closing one.
LEMMA CloseContent ==
  ASSUME ContentInv, BuilderInv', NEW close \in Closers, CloseBracket(close)
  PROVE  ContentInv'
<1>1. /\ Sound(buf, size) /\ size \in Nat /\ nest \in Seq(Frames) /\ calls \in Nat
      /\ whole \in Texts /\ plain \in BOOLEAN /\ Len(nest) > 0 /\ buf.dest > 0 /\ calls > 0
      /\ phase = "build" /\ nest # <<>>
  BY ContentMeans DEF CloseBracket
<1> DEFINE n == Len(nest)
           f == nest[n]
           rest == SubSeq(nest, 1, n - 1)
           item == Element(f.name, (<<f.open>> \o f.text) \o <<f.close>>)
<1>2. f.close = close /\ f \in Frames /\ n \in Nat /\ n > 0 /\ n \in 0 .. n /\ n - 1 \in 0 .. n
      /\ n \in 1 .. n
  <2>1. n \in Nat /\ n > 0
    BY <1>1, LenProperties
  <2>2. n \in 1 .. n /\ n \in 0 .. n /\ n - 1 \in 0 .. n
    BY <2>1
  <2>3. f \in Frames
    BY <1>1, <2>2, ElementOfSeq
  <2> QED BY <2>1, <2>2, <2>3 DEF CloseBracket, Top
<1>3. /\ UNCHANGED <<size, src, phase, calls, plain>>
      /\ buf' = atoa(DropComma(buf), <<f.close, ",">>)
      /\ rest = <<>> => nest' = <<>> /\ whole' = item
      /\ rest # <<>> => nest' = WithItem(rest, item) /\ whole' = whole
  BY <1>2 DEF CloseBracket, Top
<1>4. item \in Texts /\ NoComma(item) /\ Len(item) > 0
  <2>1. <<>> \in Texts
    BY DEF Texts
  <2>2. item \in Texts /\ NoComma(item)
    BY <1>2, <2>1, ItemText
  <2> QED BY <2>2 DEF NoComma
<1>5. rest \in Seq(Frames) /\ Len(rest) = n - 1
  <2>1. PICK g : g \in [1 .. n -> Frames] /\ g = nest
    BY <1>1, LenProperties
  <2>2. 1 \in Int /\ n - 1 \in Int /\ (\A i \in 1 .. n - 1 : nest[i] \in Frames)
    BY <1>2, <2>1
  <2>3. rest \in Seq(Frames) /\ Len(rest) = IF 1 <= n - 1 THEN n - 1 - 1 + 1 ELSE 0
    BY <2>2, SubSeqProperties
  <2> HIDE DEF n, f, rest
  <2>4. (1 <= n - 1 /\ n - 1 - 1 + 1 = n - 1) \/ (~(1 <= n - 1) /\ 0 = n - 1)
    BY <1>2
  <2> QED BY <2>3, <2>4
<1>9. n = Len(nest) /\ rest = SubSeq(nest, 1, n - 1)
  OBVIOUS
<1>10. item = Element(f.name, (<<f.open>> \o f.text) \o <<f.close>>)
  OBVIOUS
<1>11. f = nest[n]
  OBVIOUS
<1> HIDE DEF n, f, rest, item
<1>6. Shape'
  <2>1. CASE rest = <<>>
    <3>1. <<>> \in Seq(Frames)
      OBVIOUS
    <3> QED BY <1>1, <1>3, <1>4, <2>1, <3>1 DEF Shape
  <2>2. CASE rest # <<>>
    <3>1. Len(rest) > 0
      BY <1>5, <2>2
    <3>2. nest' \in Seq(Frames) /\ Len(nest') = Len(rest)
      BY <1>3, <1>4, <1>5, <2>2, <3>1, WithItemShape
    <3>3. nest' # <<>>
      BY <3>1, <3>2
    <3> QED BY <1>1, <1>3, <2>2, <3>2, <3>3 DEF Shape
  <2> QED BY <2>1, <2>2
<1>7. ASSUME plain' PROVE Content'
  <2>1. plain
    BY <1>3, <1>7
  <2>2. InBody
    BY <1>1, <2>1 DEF ContentInv, Content
  <2>3. PICK pre : Streams(nest, pre) /\ Written(buf, pre[n], size)
    BY <1>9, <2>2 DEF InBody
  <2>4. /\ pre \in [0 .. n -> Texts] /\ pre[0] = <<>>
        /\ pre[n] = pre[n - 1] \o Begun(f)
    BY <1>2, <1>9, <1>11, <2>3 DEF Streams
  <2> DEFINE p == pre[n - 1]
             s == pre[n]
             u == p \o (Element(f.name, <<f.open>>) \o f.text)
             x == <<f.close>>
             t == <<f.close, ",">>
             comma == <<",">>
  <2>5. p \in Texts /\ s \in Texts /\ s = p \o Begun(f)
    BY <1>2, <2>4
  <2>6. /\ u \in Texts /\ u \o x = p \o item /\ u \o t = p \o (item \o comma)
        /\ WithoutComma(s, u)
    BY <1>2, <1>10, <2>5, ItemText
  <2>7. /\ t \in Texts /\ Len(t) = 2 /\ x \in Texts /\ Len(x) = 1 /\ x[1] = t[1]
        /\ comma \in Texts
    <3>1. f.close \in {"}", "]"}
      BY <1>2 DEF Frames, Closers
    <3> QED BY <3>1, CleanPunctuation
  <2>8. buf' = atoa(DropComma(buf), t) /\ Written(buf, s, size)
    BY <1>3, <2>3
  <2>9. n - 1 = 0 => p = <<>>
    BY <2>4
  <2> HIDE DEF p, s, u, x, t
  <2>10. Len(t) > 1
    <3>1. Len(t) = 2
      BY <2>7
    <3> QED BY <3>1
  <2>11. Written(buf', p \o (item \o comma), size)
    BY <1>1, <2>5, <2>6, <2>7, <2>8, <2>10, CloseWrites
  <2>12. CASE rest # <<>>
    <3>1. Len(rest) > 0
      BY <1>5, <2>12
    <3>2. PICK q0 : Streams(rest, q0) /\ q0[Len(rest)] = p
      <4>1. \E q : Streams(rest, q) /\ q[Len(rest)] = pre[n - 1]
        BY <1>1, <1>9, <2>3, PopStream
      <4> QED BY <4>1 DEF p
    <3>3. \E q : Streams(nest', q) /\ q[Len(nest')] = p \o (item \o comma)
      <4>1. \E q : /\ Streams(WithItem(rest, item), q)
                   /\ q[Len(WithItem(rest, item))] = q0[Len(rest)] \o (item \o comma)
        BY <1>4, <1>5, <3>1, <3>2, ItemStream
      <4>2. nest' = WithItem(rest, item)
        BY <1>3, <2>12
      <4> QED BY <3>2, <4>1, <4>2
    <3>4. Len(nest') = Len(rest)
      BY <1>3, <1>4, <1>5, <2>12, <3>1, WithItemShape
    <3>5. nest' # <<>>
      BY <3>1, <3>4
    <3>6. InBody'
      BY <1>3, <2>11, <3>3 DEF InBody
    <3> QED BY <1>1, <1>3, <3>5, <3>6 DEF Content
  <2>13. CASE rest = <<>>
    <3>1. n - 1 = 0 /\ p = <<>>
      <4>1. Len(rest) = 0
        BY <2>13
      <4> QED BY <1>5, <2>9, <4>1
    <3>2. p \o item = item /\ p \o (item \o comma) = item \o comma
      <4>1. item \o comma \in Texts
        BY <1>4, <2>7, JoinedText
      <4> QED BY <1>4, <3>1, <4>1, ConcatEmptySeq DEF Texts
    <3>3. nest' = <<>> /\ whole' = item /\ phase' = "build" /\ calls' > 0 /\ size' = size
      BY <1>1, <1>3, <2>13
    <3>4. CASE Len(item) = size
      <4>1. Len(u) + 1 = size
        <5>1. Len(u \o x) = Len(u) + Len(x)
          BY <2>6, <2>7, JoinedText
        <5>2. u \o x = item
          BY <2>6, <3>2
        <5> QED BY <2>7, <3>4, <5>1, <5>2
      <4>2. Holds(buf', u \o x)
        BY <1>1, <2>5, <2>6, <2>7, <2>8, <2>10, <4>1, LastWrites
      <4>3. Holds(buf', item)
        BY <2>6, <3>2, <4>2
      <4>4. Described(buf', item, size)
        BY <3>4, <4>3 DEF Described
      <4> QED BY <3>3, <4>4 DEF Content
    <3>5. CASE Len(item) # size
      <4>1. Described(buf', item, size)
        BY <2>11, <3>2, <3>5 DEF Described
      <4> QED BY <3>3, <4>1 DEF Content
    <3> QED BY <3>4, <3>5
  <2> QED BY <2>12, <2>13
<1> QED BY <1>6, <1>7 DEF ContentInv


\* A call that adds an item keeps the shape.
LEMMA ItemShape ==
  ASSUME ContentInv, NEW name \in Names \cup {NoName}, MayAdd(name),
         NEW item \in Texts, Len(item) > 0, nest' = WithItem(nest, item), whole' = whole,
         plain' \in BOOLEAN, phase' # "done"
  PROVE  Shape' /\ phase = "build" /\ nest # <<>> /\ nest' # <<>>
<1>1. phase = "build" /\ nest # <<>>
  BY DEF MayAdd
<1>2. nest \in Seq(Frames) /\ Len(nest) > 0 /\ whole \in Texts
  BY <1>1, ContentMeans
<1>3. nest' \in Seq(Frames) /\ Len(nest') = Len(nest)
  BY <1>2, WithItemShape
<1>4. nest' # <<>>
  BY <1>2, <1>3
<1> QED BY <1>1, <1>2, <1>3, <1>4 DEF Shape

\* The text of an item, of which no value is empty.
LEMMA ElementText ==
  ASSUME NEW name \in Names \cup {NoName}, NEW text \in Texts, Len(text) > 0
  PROVE  Element(name, text) \in Texts /\ Len(Element(name, text)) > 0
<1>1. Element(name, text) \in Texts /\ Len(Element(name, text)) >= Len(text)
  BY CleanElement
<1>2. Len(Element(name, text)) \in Nat /\ Len(text) \in Nat
  BY <1>1, CleanText
<1> QED BY <1>1, <1>2

\* A text value, of which the name is written.
LEMMA NstrNameContent ==
  ASSUME ContentInv, BuilderInv', NEW name \in Names \cup {NoName}, NEW v \in Values,
         NstrName(name, v)
  PROVE  ContentInv'
<1> DEFINE e == EscapedText(v)
           q1 == <<QUOTE>>
           text == (q1 \o e) \o q1
           item == Element(name, text)
           t == <<QUOTE, ",">>
           comma == <<",">>
<1>1. v \in Seq(Chars) /\ e \in Texts /\ q1 \in Texts /\ t \in Texts /\ comma \in Texts
      /\ t = q1 \o comma /\ Len(q1) = 1
  <2>1. v \in Seq(Chars)
    BY BuilderAssumption
  <2> QED BY <2>1, EscapedTextSteps, CleanPunctuation
<1>2. /\ MayAdd(name) /\ buf' = strname(buf, name) /\ src' = v /\ phase' = "string"
      /\ nest' = WithItem(nest, item) /\ UNCHANGED <<size, whole>>
      /\ plain' = (plain /\ \A k \in 1 .. Len(v) : v[k] \notin Control)
  BY DEF NstrName
<1>3. q1 \o e \in Texts /\ text \in Texts /\ Len(text) > 0
  <2>1. q1 \o e \in Texts
    BY <1>1, JoinedText
  <2>2. text \in Texts /\ Len(text) = Len(q1 \o e) + Len(q1)
    BY <1>1, <2>1, JoinedText
  <2>3. Len(q1 \o e) \in Nat
    BY <2>1, CleanText
  <2> HIDE DEF text, q1, e
  <2>4. Len(q1) = 1
    BY <1>1
  <2>5. Len(text) > 0
    BY <2>2, <2>3, <2>4
  <2> QED BY <2>1, <2>2, <2>5
<1>4. text = (q1 \o e) \o q1 /\ e = EscapedText(v) /\ item = Element(name, text)
  OBVIOUS
<1> HIDE DEF text, q1, e, t, item, comma
<1>5. item \in Texts /\ Len(item) > 0
  BY <1>3, <1>4, ElementText
<1>6. phase' # "done" /\ plain' \in BOOLEAN /\ whole' = whole
  BY <1>2
<1>7. Shape' /\ phase = "build" /\ nest # <<>> /\ nest' # <<>>
  BY <1>2, <1>5, <1>6, ItemShape
<1>8. ASSUME plain' PROVE Content'
  <2>1. plain /\ \A k \in 1 .. Len(v) : v[k] \notin Control
    BY <1>2, <1>8, ContentMeans
  <2>0. PICK s \in Texts : \E q :
          /\ Written(buf, s, size) /\ Streams(nest', q)
          /\ q[Len(nest')] = s \o ((Before(name) \o text) \o comma)
    <3>1. \E s \in Texts : \E q :
            /\ Written(buf, s, size) /\ Streams(WithItem(nest, Element(name, text)), q)
            /\ q[Len(WithItem(nest, Element(name, text)))]
                 = s \o ((Before(name) \o text) \o comma)
      BY ZenonT(90), <1>3, <1>7, <2>1, ItemAdded DEF comma
    <3>2. nest' = WithItem(nest, Element(name, text))
      BY <1>2, <1>4
    <3> HIDE DEF comma
    <3> QED BY <3>1, <3>2
  <2>2. PICK q :
          /\ Written(buf, s, size) /\ Streams(nest', q)
          /\ q[Len(nest')] = s \o ((Before(name) \o text) \o comma)
    BY <2>0
  <2> DEFINE bf == Before(name)
             done == s \o Element(name, q1)
  <2>3. bf \in Texts /\ Element(name, q1) = bf \o q1 /\ Element(name, q1) \in Texts
    BY <1>1, CleanElement
  <2>11. bf = Before(name) /\ done = s \o Element(name, q1)
    OBVIOUS
  <2>4. done \in Texts
    BY <2>3, JoinedText
  <2>5. Written(buf', done, size)
    <3>1. Sound(buf, size) /\ size \in Nat
      BY ContentMeans
    <3> QED BY <1>2, <2>2, <3>1, OpenWrites DEF q1
  <2> HIDE DEF bf, done
  <2>6. s \o ((bf \o text) \o comma) = done \o (e \o t)
    <3>1. bf \in Texts
      BY <2>3
    <3>2. q1 \in Texts
      BY <1>1
    <3>3. e \in Texts
      BY <1>1
    <3>4. comma \in Texts
      BY <1>1
    <3>5. q1 \o e \in Texts
      BY <1>3
    <3>6. text \in Texts
      BY <1>3
    <3>7. text \o comma = (q1 \o e) \o t
      <4>1. ((q1 \o e) \o q1) \o comma = (q1 \o e) \o (q1 \o comma)
        BY <3>2, <3>4, <3>5, Regroup
      <4> QED BY <1>1, <1>4, <4>1
    <3>8. t \in Texts
      BY <1>1
    <3>9. (q1 \o e) \o t = q1 \o (e \o t)
      BY <3>2, <3>3, <3>8, Regroup
    <3>10. e \o t \in Texts
      BY <3>3, <3>8, JoinedText
    <3>11. s \o ((bf \o text) \o comma) = s \o (bf \o (text \o comma))
      BY <3>1, <3>4, <3>6, Regroup
    <3>12. bf \o (q1 \o (e \o t)) = (bf \o q1) \o (e \o t)
      BY <3>1, <3>2, <3>10, Regroup
    <3>13. bf \o q1 \in Texts
      BY <3>1, <3>2, JoinedText
    <3>14. s \o ((bf \o q1) \o (e \o t)) = (s \o (bf \o q1)) \o (e \o t)
      BY <3>10, <3>13, Regroup
    <3> QED BY <2>3, <2>11, <3>7, <3>9, <3>11, <3>12, <3>14
  <2>7. q[Len(nest')] = done \o (EscapedText(src') \o <<QUOTE, ",">>)
    BY <1>2, <1>4, <2>2, <2>6, <2>11 DEF t
  <2>8. \A k \in 1 .. Len(src') : src'[k] \notin Control
    BY <1>2, <2>1
  <2>9. Written(buf', done, size')
    BY <1>2, <2>5
  <2>10. InString'
    BY <2>2, <2>4, <2>7, <2>8, <2>9 DEF InString
  <2> QED BY <1>2, <2>10 DEF Content
<1> QED BY <1>7, <1>8 DEF ContentInv

\* One character of it.
LEMMA NstrCharContent ==
  ASSUME ContentInv, BuilderInv', NstrChar
  PROVE  ContentInv'
<1>1. /\ phase = "string" /\ src # <<>> /\ buf' = Escape(buf, Head(src)) /\ src' = Tail(src)
      /\ UNCHANGED <<size, phase, nest, whole, calls, plain>>
  BY DEF NstrChar
<1>2. src \in Seq(Chars) /\ Sound(buf, size) /\ size \in Nat
  BY ContentMeans
<1>3. Shape'
  BY <1>1 DEF ContentInv, Shape
<1>4. ASSUME plain' PROVE Content'
  <2>1. InString
    BY <1>1, <1>4 DEF ContentInv, Content
  <2>2. PICK pre, done :
          /\ Streams(nest, pre) /\ done \in Texts /\ Written(buf, done, size)
          /\ pre[Len(nest)] = done \o (EscapedText(src) \o <<QUOTE, ",">>)
          /\ \A k \in 1 .. Len(src) : src[k] \notin Control
    BY <2>1 DEF InString
  <2> DEFINE x == EscapedChar(Head(src))
             e == EscapedText(Tail(src))
             t == <<QUOTE, ",">>
  <2>3. Head(src) \in Chars /\ Tail(src) \in Seq(Chars) /\ Head(src) = src[1]
        /\ Len(Tail(src)) = Len(src) - 1 /\ Len(src) \in Nat /\ Len(src) > 0
        /\ \A k \in 1 .. Len(src) - 1 : Tail(src)[k] = src[k + 1]
    BY <1>1, <1>2
  <2>4. x \in Texts /\ e \in Texts /\ t \in Texts
    BY <2>3, EscapeIsText, EscapedTextSteps, CleanPunctuation
  <2>5. EscapedText(src) = x \o e
    BY <1>1, <1>2, EscapedTextSteps
  <2>6. Head(src) \notin Control
    <3>1. 1 \in 1 .. Len(src)
      BY <2>3
    <3> QED BY <2>2, <2>3, <3>1
  <2>7. Escape(buf, Head(src)) = Put(buf, x)
    BY <2>6 DEF Escape, EscapedChar
  <2> HIDE DEF x, e, t
  <2>8. Written(buf', done \o x, size') /\ done \o x \in Texts
    <3>1. buf' = Put(buf, x) /\ size' = size
      BY <1>1, <2>7
    <3>2. Written(Put(buf, x), done \o x, size)
      BY <1>2, <2>2, <2>4, PutWrites
    <3>3. done \o x \in Texts
      BY <2>2, <2>4, JoinedText
    <3> QED BY <3>1, <3>2, <3>3
  <2>9. pre[Len(nest')] = (done \o x) \o (e \o t)
    <3>1. pre[Len(nest)] = done \o ((x \o e) \o t)
      BY <2>2, <2>5 DEF t
    <3>2. done \o ((x \o e) \o t) = (done \o x) \o (e \o t)
      <4>1. done \in Texts
        BY <2>2
      <4>2. Reorders(done, x, e, t)
        BY <2>4, <4>1, Reordered
      <4> QED BY <4>2 DEF Reorders
    <3> QED BY <1>1, <3>1, <3>2
  <2>10. ASSUME NEW k \in 1 .. Len(src') PROVE src'[k] \notin Control
    <3>1. k + 1 \in 1 .. Len(src) /\ k \in 1 .. Len(src) - 1
      BY <1>1, <2>3
    <3> QED BY <1>1, <2>2, <2>3, <3>1
  <2>11. Streams(nest', pre)
    BY <1>1, <2>2
  <2>12. pre[Len(nest')] = (done \o x) \o (EscapedText(src') \o <<QUOTE, ",">>)
    BY <1>1, <2>9 DEF e, t
  <2>13. InString'
    BY <2>8, <2>10, <2>11, <2>12 DEF InString
  <2> QED BY <1>1, <2>13 DEF Content
<1> QED BY <1>3, <1>4 DEF ContentInv

\* Its end, which is written even when the value was cut.
LEMMA NstrEndContent ==
  ASSUME ContentInv, BuilderInv', NstrEnd
  PROVE  ContentInv'
<1> DEFINE t == <<QUOTE, ",">>
<1>1. /\ phase = "string" /\ (src = <<>> \/ buf.marker = 0) /\ src' = <<>> /\ phase' = "build"
      /\ buf' = atoa(Terminate(buf), t) /\ UNCHANGED <<size, nest, whole, calls, plain>>
  BY DEF NstrEnd
<1>2. src \in Seq(Chars) /\ Sound(buf, size) /\ size \in Nat /\ t \in Texts /\ Len(t) = 2
  BY ContentMeans, CleanPunctuation
<1>3. Shape'
  BY <1>1 DEF ContentInv, Shape
<1>4. nest' # <<>>
  BY <1>1 DEF ContentInv, Shape
<1>5. ASSUME plain' PROVE Content'
  <2>1. InString
    BY <1>1, <1>5 DEF ContentInv, Content
  <2>2. PICK pre, done :
          /\ Streams(nest, pre) /\ done \in Texts /\ Written(buf, done, size)
          /\ pre[Len(nest)] = done \o (EscapedText(src) \o t)
    BY <2>1 DEF InString
  <2> DEFINE e == EscapedText(src)
             s == pre[Len(nest)]
             c == Terminate(buf)
  <2>3. e \in Texts /\ (src = <<>> => e = <<>>)
    BY <1>2, EscapedTextSteps
  <2>4. e \o t \in Texts /\ Len(e \o t) = Len(e) + Len(t) /\ Len(e) \in Nat
    BY <1>2, <2>3, JoinedText, CleanText
  <2>5. s = done \o (e \o t) /\ s \in Texts /\ Len(s) = Len(done) + Len(e \o t)
    BY <2>2, <2>4, JoinedText
  <2> HIDE DEF e, s
  <2>6. Sound(c, size) /\ Written(c, done, size)
    BY <1>2, <2>2, TerminateSound, TerminateWrites DEF Longer
  <2>7. buf' = atoa(c, t)
    BY <1>1
  <2> HIDE DEF c, t
  <2>8. ASSUME src = <<>> PROVE Written(buf', s, size)
    <3>1. e \o t = t
      BY <1>2, <2>3, <2>8, ConcatEmptySeq DEF Texts
    <3>2. Written(buf', done \o t, size)
      <4>1. Written(atoa(c, t), done \o t, size)
        BY <1>2, <2>2, <2>6, atoaWrites
      <4> QED BY <2>7, <4>1
    <3> QED BY <2>5, <3>1, <3>2
  <2>9. ASSUME src # <<>> PROVE Written(buf', s, size)
    <3>1. buf.dest = size
      BY <1>1, <1>2, <2>9 DEF Sound
    <3>2. Len(e \o t) > 0
      BY <1>2, <2>4
    <3>3. Written(buf, s, size)
      BY <1>2, <2>2, <2>4, <2>5, <3>1, <3>2, FullStays
    <3>4. ~(Len(s) <= size)
      <4>1. Len(done) \in Nat
        BY <2>2, CleanText
      <4>2. Len(done) <= size => Len(done) = size
        BY <2>2, <3>1 DEF Written, Holds
      <4> QED BY <1>2, <2>4, <2>5, <4>1, <4>2
    <3>5. Written(c, s, size)
      BY <1>2, <2>5, <3>3, TerminateWrites DEF c
    <3>6. Written(buf', s \o t, size) /\ Len(s \o t) = Len(s) + Len(t)
      BY <1>2, <2>5, <2>6, <2>7, <3>5, atoaWrites, JoinedText
    <3>7. ~(Len(s \o t) <= size)
      <4>1. Len(s) \in Nat
        BY <2>5, CleanText
      <4> QED BY <1>2, <3>4, <3>6, <4>1
    <3>8. Written(buf', s, size)
      BY <3>4, <3>6, <3>7 DEF Written
    <3> QED BY <3>8
  <2>10. Written(buf', s, size)
    BY <2>8, <2>9
  <2>11. Streams(nest', pre) /\ Written(buf', pre[Len(nest')], size')
    BY <1>1, <2>2, <2>10 DEF s
  <2>12. InBody'
    BY <2>11 DEF InBody
  <2> QED BY <1>1, <1>4, <2>12 DEF Content
<1> QED BY <1>3, <1>5 DEF ContentInv

\* The words, and numbers, are no empty texts.
LEMMA PrimitiveText ==
  /\ \A w \in Words : w \in Texts /\ Len(w) > 0 /\ Append(w, ",") = w \o <<",">>
  /\ \A d \in Numbers : d \in Texts /\ Len(d) > 0
<1>1. ASSUME NEW w \in Words
      PROVE  w \in Texts /\ Len(w) > 0 /\ Append(w, ",") = w \o <<",">>
  <2>1. \A x \in {"t", "r", "u", "e", "f", "a", "l", "s", "n", ","} : x \in Clean
    BY DEF Clean, Bytes, NUL
  <2>2. /\ \A a, b, c, d \in Clean : <<a, b, c, d>> \in Seq(Clean) /\ Len(<<a, b, c, d>>) > 0
        /\ \A a, b, c, d, e \in Clean :
             <<a, b, c, d, e>> \in Seq(Clean) /\ Len(<<a, b, c, d, e>>) > 0
    OBVIOUS
  <2>3. w \in Seq(Clean) /\ Len(w) > 0
    <3>1. /\ <<"t", "r", "u", "e">> \in Seq(Clean) /\ Len(<<"t", "r", "u", "e">>) > 0
          /\ <<"n", "u", "l", "l">> \in Seq(Clean) /\ Len(<<"n", "u", "l", "l">>) > 0
          /\ <<"f", "a", "l", "s", "e">> \in Seq(Clean)
          /\ Len(<<"f", "a", "l", "s", "e">>) > 0
      <4>1. /\ "t" \in Clean /\ "r" \in Clean /\ "u" \in Clean /\ "e" \in Clean
            /\ "f" \in Clean /\ "a" \in Clean /\ "l" \in Clean /\ "s" \in Clean
            /\ "n" \in Clean
        BY <2>1
      <4>2. <<"t", "r", "u", "e">> \in Seq(Clean) /\ Len(<<"t", "r", "u", "e">>) > 0
        BY <2>2, <4>1
      <4>3. <<"n", "u", "l", "l">> \in Seq(Clean) /\ Len(<<"n", "u", "l", "l">>) > 0
        BY <2>2, <4>1
      <4>4. /\ <<"f", "a", "l", "s", "e">> \in Seq(Clean)
            /\ Len(<<"f", "a", "l", "s", "e">>) > 0
        BY <2>2, <4>1
      <4> QED BY <4>2, <4>3, <4>4
    <3> QED BY <3>1 DEF Words
  <2>4. "," \in Clean
    BY <2>1
  <2>5. Append(w, ",") = w \o <<",">>
    BY <2>3, <2>4, AppendIsConcat
  <2> QED BY <2>3, <2>5 DEF Texts
<1>2. ASSUME NEW d \in Numbers
      PROVE  d \in Texts /\ Len(d) > 0
  <2>1. d \in Seq(Chars) /\ d # <<>>
    BY BuilderAssumption
  <2>2. Chars \subseteq Clean
    BY BuilderAssumption DEF Clean, Bytes
  <2>3. d \in Texts
    BY <2>1, <2>2, SeqMonotonic DEF Texts
  <2>4. Len(d) > 0
    BY <2>1
  <2> QED BY <2>3, <2>4
<1> QED BY <1>1, <1>2

\* A value that is no text: what the call writes is the item.
LEMMA PrimitiveContent ==
  ASSUME ContentInv, BuilderInv', NEW name \in Names \cup {NoName},
         NEW text \in Texts, Len(text) > 0, AddPrimitive(name, text),
         \A s \in Texts : Written(primitivename(buf, name), s, size)
                            => Written(buf', s \o (text \o <<",">>), size)
  PROVE  ContentInv'
<1> DEFINE item == Element(name, text)
           comma == <<",">>
           bf == Before(name)
<1>1. /\ MayAdd(name) /\ nest' = WithItem(nest, item)
      /\ UNCHANGED <<size, src, phase, whole, plain>>
  BY DEF AddPrimitive
<1>2. item \in Texts /\ Len(item) > 0 /\ comma \in Texts /\ bf \in Texts
  BY ElementText, CleanElement, CleanPunctuation
<1>3. item = Element(name, text) /\ bf = Before(name)
  OBVIOUS
<1>4. /\ Sound(buf, size) /\ size \in Nat /\ plain \in BOOLEAN
  BY ContentMeans
<1>5. phase = "build"
  BY <1>1 DEF MayAdd
<1> HIDE DEF item, bf
<1>6. phase' # "done" /\ plain' \in BOOLEAN /\ whole' = whole /\ phase' = "build"
  BY <1>1, <1>4, <1>5
<1>7. Shape' /\ nest # <<>> /\ nest' # <<>>
  BY <1>1, <1>2, <1>6, ItemShape
<1>8. ASSUME plain' PROVE Content'
  <2>1. plain
    BY <1>1, <1>8
  <2>0. PICK s \in Texts : \E q :
          /\ Written(buf, s, size) /\ Streams(nest', q)
          /\ q[Len(nest')] = s \o ((bf \o text) \o comma)
    BY <1>1, <1>3, <1>5, <1>7, <2>1, ItemAdded
  <2>2. PICK q :
          /\ Written(buf, s, size) /\ Streams(nest', q)
          /\ q[Len(nest')] = s \o ((bf \o text) \o comma)
    BY <2>0
  <2>3. Written(primitivename(buf, name), s \o bf, size) /\ s \o bf \in Texts
    BY <1>2, <1>3, <1>4, <2>2, primitivenameWrites, JoinedText
  <2>4. Written(buf', (s \o bf) \o (text \o comma), size)
    BY <2>3
  <2>5. s \o ((bf \o text) \o comma) = (s \o bf) \o (text \o comma)
    <3>1. s \in Texts /\ bf \in Texts /\ text \in Texts /\ comma \in Texts
      BY <1>2
    <3> HIDE DEF comma
    <3>2. Reorders(s, bf, text, comma)
      BY <3>1, Reordered
    <3> QED BY <3>2 DEF Reorders
  <2>6. Streams(nest', q) /\ Written(buf', q[Len(nest')], size')
    BY <1>1, <2>2, <2>4, <2>5
  <2>7. InBody'
    BY <2>6 DEF InBody
  <2> QED BY <1>6, <1>7, <2>7 DEF Content
<1> QED BY <1>7, <1>8 DEF ContentInv

\* The last call.
LEMMA EndContent ==
  ASSUME ContentInv, BuilderInv', anedya_json_end
  PROVE  ContentInv'
<1>1. /\ phase = "build" /\ nest = <<>> /\ calls > 0 /\ phase' = "done"
      /\ buf' = IF buf.mem[buf.dest - 1] = "," THEN Terminate(DropComma(buf)) ELSE buf
      /\ UNCHANGED <<size, src, nest, whole, calls, plain>>
  BY DEF anedya_json_end
<1>2. /\ Sound(buf, size) /\ size \in Nat /\ Ended(buf) /\ buf.dest > 0 /\ whole \in Texts
  BY <1>1, ContentMeans
<1>3. NoComma(whole)
  BY <1>1 DEF ContentInv, Shape
<1>4. Shape'
  BY <1>1 DEF ContentInv, Shape
<1>5. ASSUME plain' PROVE Content'
  <2>1. Described(buf, whole, size)
    BY <1>1, <1>5 DEF ContentInv, Content
  <2>2. Finished(buf', whole', size')
    BY <1>1, <1>2, <1>3, <2>1, EndFinishes
  <2> QED BY <1>1, <2>2 DEF Content
<1> QED BY <1>4, <1>5 DEF ContentInv

\* Each step keeps the contents right.
LEMMA StepKeepsContent ==
  ContentInv /\ [BuilderNext]_builderVars => ContentInv'
<1> SUFFICES ASSUME ContentInv, [BuilderNext]_builderVars
             PROVE  ContentInv'
  OBVIOUS
<1>1. BuilderInv'
  BY StepKeepsInv DEF ContentInv
<1>2. /\ Sound(buf, size) /\ size \in Nat /\ calls \in Nat
      /\ calls > 0 /\ phase # "string" => Ended(buf)
      /\ nest # <<>> => calls > 0
  BY ContentMeans
<1>3. ASSUME NEW name \in Names \cup {NoName}
      PROVE  /\ anedya_json_objOpen(name) => ContentInv'
             /\ anedya_json_arrOpen(name) => ContentInv'
  <2>1. "{" \in Openers /\ "[" \in Openers /\ "}" \in Closers /\ "]" \in Closers
    BY DEF Openers, Closers
  <2> QED BY <1>1, <2>1, OpenContent DEF anedya_json_objOpen, anedya_json_arrOpen
<1>4. ASSUME anedya_json_objClose \/ anedya_json_arrClose PROVE ContentInv'
  <2>1. "}" \in Closers /\ "]" \in Closers
    BY DEF Closers
  <2> QED BY <1>1, <1>4, <2>1, CloseContent DEF anedya_json_objClose, anedya_json_arrClose
<1>5. ASSUME NEW name \in Names \cup {NoName}, NEW v \in Values, NstrName(name, v)
      PROVE  ContentInv'
  BY <1>1, <1>5, NstrNameContent
<1>6. ASSUME NEW name \in Names \cup {NoName}, NEW w \in Words, AddWord(name, w)
      PROVE  ContentInv'
  <2> DEFINE b == primitivename(buf, name)
             t == w \o <<",">>
  <2>1. w \in Texts /\ Len(w) > 0 /\ Append(w, ",") = t
    BY PrimitiveText
  <2>2. AddPrimitive(name, w) /\ buf' = atoa(b, t)
    BY <1>6, <2>1 DEF AddWord
  <2>3. Ended(buf) /\ nest # <<>>
    BY <1>2, <2>2 DEF AddPrimitive, MayAdd
  <2>4. Sound(b, size)
    BY <1>2, <2>3, primitivenameSound DEF Longer
  <2>5. t \in Texts
    <3>1. <<",">> \in Texts
      BY CleanPunctuation
    <3> QED BY <2>1, <3>1, JoinedText
  <2>6. ASSUME NEW s \in Texts, Written(b, s, size)
        PROVE  Written(buf', s \o t, size)
    <3> HIDE DEF b, t
    <3> QED BY <1>2, <2>2, <2>4, <2>5, <2>6, atoaWrites
  <2> QED BY <1>1, <2>1, <2>2, <2>6, PrimitiveContent
<1>7. ASSUME NEW name \in Names \cup {NoName}, NEW d \in Numbers, AddNumber(name, d)
      PROVE  ContentInv'
  <2> DEFINE b == primitivename(buf, name)
  <2>1. d \in Texts /\ Len(d) > 0
    BY PrimitiveText
  <2>2. AddPrimitive(name, d) /\ buf' = chtoa(Digits(b, d), ",")
    BY <1>7 DEF AddNumber
  <2>3. Ended(buf) /\ nest # <<>>
    BY <1>2, <2>2 DEF AddPrimitive, MayAdd
  <2>4. Sound(b, size) /\ Ended(b)
    BY <1>2, <2>3, primitivenameSound DEF Longer
  <2>5. ASSUME NEW s \in Texts, Written(b, s, size)
        PROVE  Written(buf', s \o (d \o <<",">>), size)
    <3> HIDE DEF b
    <3> QED BY <1>2, <2>1, <2>2, <2>4, <2>5, NumberWrites
  <2> QED BY <1>1, <2>1, <2>2, <2>5, PrimitiveContent
<1>8. CASE NstrChar
  BY <1>1, <1>8, NstrCharContent
<1>9. CASE NstrEnd
  BY <1>1, <1>9, NstrEndContent
<1>10. CASE anedya_json_end
  BY <1>1, <1>10, EndContent
<1>11. CASE UNCHANGED builderVars
  BY <1>1, <1>11 DEF builderVars, ContentInv, Shape, Content, InBody, InString
<1> QED
  BY <1>3, <1>4, <1>5, <1>6, <1>7, <1>8, <1>9, <1>10, <1>11 DEF BuilderNext

\* An empty buffer holds the empty text.
LEMMA InitHasContent == BuilderInit => ContentInv
<1> SUFFICES ASSUME BuilderInit PROVE ContentInv
  OBVIOUS
<1>1. BuilderInv
  BY InitHasInv
<1>2. /\ src = <<>> /\ phase = "build" /\ nest = <<>> /\ whole = <<>> /\ calls = 0
      /\ plain = TRUE /\ buf.dest = 0 /\ size \in Nat
  BY BuilderAssumption DEF BuilderInit
<1>3. <<>> \in Texts /\ <<>> \in Seq(Frames) /\ Len(<<>>) = 0
  BY DEF Texts
<1>4. Shape
  BY <1>2, <1>3 DEF Shape
<1>5. InBody
  <2> DEFINE pre == [k \in 0 .. 0 |-> <<>>]
  <2>1. pre \in [0 .. Len(nest) -> Texts] /\ pre[0] = <<>> /\ 1 .. Len(nest) = {}
    BY <1>2, <1>3
  <2>2. Streams(nest, pre)
    BY <2>1 DEF Streams
  <2>3. Written(buf, <<>>, size)
    <3>1. 1 .. Len(<<>>) = {} /\ Len(<<>>) <= size
      BY <1>2, <1>3
    <3> QED BY <1>2, <1>3, <3>1 DEF Written, Holds
  <2>4. pre[Len(nest)] = <<>>
    BY <1>2, <1>3, <2>1
  <2> HIDE DEF pre
  <2> QED BY <2>2, <2>3, <2>4 DEF InBody
<1> QED BY <1>1, <1>2, <1>4, <1>5 DEF ContentInv, Content

\* What is sent is what the calls described: a document that fits is never cut
\* (WholeWhenFits), and a text that is shorter than the buffer by two or more
\* is a whole document (ShortMeansWhole), for buffers of every size and for
\* every document without control characters.
THEOREM BodiesAreWhole ==
  BuilderSpec => []WholeWhenFits /\ []ShortMeansWhole
<1>1. ContentInv => WholeWhenFits /\ ShortMeansWhole
  <2> SUFFICES ASSUME ContentInv, phase = "done", plain
               PROVE  /\ Len(whole) <= size => Text = whole
                      /\ Length < size - 1 => Text = whole
    BY DEF WholeWhenFits, ShortMeansWhole
  <2>1. Finished(buf, whole, size) /\ calls > 0
    BY DEF ContentInv, Content, Shape
  <2>2. /\ Sound(buf, size) /\ size \in Nat /\ size > 0 /\ whole \in Texts /\ Ended(buf)
    BY <2>1, ContentMeans
  <2> QED BY <2>1, <2>2, FinishedText
<1> QED
  BY <1>1, InitHasContent, StepKeepsContent, PTL DEF BuilderSpec


=============================================================================
