----------------------------- MODULE CodecProofs -----------------------------
(***************************************************************************)
(* The conversions invert each other, for all data.  An id is printed as   *)
(* the text it is read from, and the device and the server, whose base64   *)
(* is defined by bits and not by sums and divisions, read what the other   *)
(* wrote.  Both are shown group by group: three bytes are one number, of   *)
(* which the encoder takes digits and the decoder bytes.                   *)
(***************************************************************************)
EXTENDS Codec, SequenceTheorems, WellFoundedInduction, TLAPS

\* A set of numbers that is not empty has a smallest one.
LEMMA Least ==
  \A S \in SUBSET Nat : S # {} => \E m \in S : \A j \in S : m <= j
<1> SUFFICES ASSUME NEW S \in SUBSET Nat, S # {}
             PROVE  \E m \in S : \A j \in S : m <= j
  OBVIOUS
<1> DEFINE R == {ss \in Nat \X Nat : ss[1] < ss[2]}
<1>1. IsWellFoundedOn(R, Nat)
  BY NatLessThanWellFounded DEF OpToRel
<1>2. \A j, m \in Nat : j < m => <<j, m>> \in R
  OBVIOUS
<1>3. PICK m \in S : \A j \in S : <<j, m>> \notin R
  BY <1>1, WFMin
<1> HIDE DEF R
<1>4. m \in Nat /\ \A j \in S : j \in Nat
  OBVIOUS
<1>5. ASSUME NEW j \in S
      PROVE  m <= j
  <2>1. j \in Nat /\ ~(j < m)
    BY <1>2, <1>3, <1>4
  <2> QED BY <2>1, <1>4
<1> QED BY <1>5

\* A sequence is a function, ...
LEMMA SequenceIsFunction ==
  ASSUME NEW S
  PROVE  \A s \in Seq(S) : s \in [1 .. Len(s) -> S] /\ Len(s) \in Nat
BY LenProperties

\* ... and a function on 1 .. n is a sequence of that length.
LEMMA FunctionIsSequence ==
  ASSUME NEW S, NEW n \in Nat, NEW f \in [1 .. n -> S]
  PROVE  f \in Seq(S) /\ Len(f) = n /\ DOMAIN f = 1 .. n
<1>1. f \in Seq(S)
  OBVIOUS
<1>2. DOMAIN f = 1 .. Len(f) /\ DOMAIN f = 1 .. n /\ Len(f) \in Nat
  BY <1>1, LenProperties
<1> QED BY <1>1, <1>2

\* Where the sixteen bytes are in the text of an id: two digits, no dash, ...
LEMMA ByteIsTwoDigits ==
  \A k \in 1 .. 16 : /\ ByteAt[k] \in 0 .. 34
                     /\ ByteAt[k] \notin DashAt /\ ByteAt[k] + 1 \notin DashAt
<1> SUFFICES ASSUME NEW k \in 1 .. 16
             PROVE  ByteAt[k] \in 0 .. 34 /\ ByteAt[k] \notin DashAt /\ ByteAt[k] + 1 \notin DashAt
  OBVIOUS
<1> QED BY DEF ByteAt, DashAt

\* The same, 1-based.
LEMMA PlacesOfByte ==
  \A k \in 1 .. 16 :
    /\ ByteAt[k] + 1 \in 1 .. 36 /\ ByteAt[k] + 2 \in 1 .. 36
    /\ ByteAt[k] + 1 - 1 = ByteAt[k] /\ ByteAt[k] + 2 - 1 = ByteAt[k] + 1
    /\ ByteAt[k] + 1 + 1 = ByteAt[k] + 2
    /\ ByteAt[k] \in 0 .. 35 /\ ByteAt[k] + 1 \in 0 .. 35
    /\ \A i \in 1 .. 36 : /\ i - 1 = ByteAt[k] => i = ByteAt[k] + 1
                          /\ i - 1 = ByteAt[k] + 1 => i = ByteAt[k] + 2
<1> SUFFICES ASSUME NEW k \in 1 .. 16, NEW b \in 0 .. 34, ByteAt[k] = b
             PROVE  /\ b + 1 \in 1 .. 36 /\ b + 2 \in 1 .. 36
                    /\ b + 1 - 1 = b /\ b + 2 - 1 = b + 1 /\ b + 1 + 1 = b + 2
                    /\ b \in 0 .. 35 /\ b + 1 \in 0 .. 35
                    /\ \A i \in 1 .. 36 : /\ i - 1 = b => i = b + 1
                                          /\ i - 1 = b + 1 => i = b + 2
  BY ByteIsTwoDigits
<1> QED OBVIOUS

\* ... one behind the other, ...
LEMMA BytesApart ==
  \A j, k \in 1 .. 16 : j < k => ByteAt[j] + 2 <= ByteAt[k]
BY DEF ByteAt

\* ... and every character that is no dash is of one of them.
LEMMA DigitOfByte ==
  \A i \in 0 .. 35 : i \notin DashAt => \E k \in 1 .. 16 : i = ByteAt[k] \/ i = ByteAt[k] + 1
BY DEF ByteAt, DashAt

-----------------------------------------------------------------------------
\* The three conversions of a hexadecimal digit agree, ...
LEMMA HexDigitValues ==
  ASSUME NEW c \in HexDigits
  PROVE  /\ parsehex(c) \in 0 .. 15
         /\ HexDigit(parsehex(c)) = IF c \in UpperHex THEN c + 32 ELSE c
         /\ unhex_char(c) = parsehex(c)
BY DEF HexDigits, Digits, UpperHex, LowerHex, ZERO, parsehex, HexDigit, unhex_char

\* ... both ways of reading refuse what is none (but for g, h and i), ...
LEMMA NoHexDigit ==
  ASSUME NEW c \in Nat, c \notin HexDigits
  PROVE  parsehex(c) = -1 /\ (c \notin 103 .. 105 => unhex_char(c) = Invalid)
BY DEF HexDigits, Digits, UpperHex, LowerHex, ZERO, parsehex, unhex_char, Invalid

\* ... and what is printed is read.
LEMMA HexDigitOfHalf ==
  ASSUME NEW d \in 0 .. 15
  PROVE  HexDigit(d) \in HexDigits /\ parsehex(HexDigit(d)) = d
BY DEF HexDigits, Digits, UpperHex, LowerHex, ZERO, parsehex, HexDigit

\* A byte and its two halves.
LEMMA Halves ==
  ASSUME NEW h \in 0 .. 15, NEW l \in 0 .. 15
  PROVE  LET b == (h * 16 + l) % 256 IN
         b \in 0 .. 255 /\ b \div 16 = h /\ b % 16 = l
OBVIOUS

\* The arithmetic of unhex does not overflow.
LEMMA UnhexOfHalves ==
  ASSUME NEW h \in 0 .. 15, NEW l \in 0 .. 15
  PROVE  unhex(h, l) = 16 * h + l /\ unhex(h, l) \in 0 .. 255
<1>1. l % 16 = l /\ (h * 16) % 256 = h * 16
  OBVIOUS
<1> QED BY <1>1 DEF unhex

\* Every byte has two halves.
LEMMA ByteOfHalves ==
  ASSUME NEW b \in 0 .. 255
  PROVE  /\ b \div 16 \in 0 .. 15 /\ b % 16 \in 0 .. 15
         /\ b = 16 * (b \div 16) + (b % 16)
OBVIOUS

\* Where the digits of byte k are in the text of an id.
LEMMA MarshalledByte ==
  ASSUME NEW uuid, NEW k \in 1 .. 16
  PROVE  /\ uuid_marshal(uuid)[ByteAt[k] + 1] = HexDigit(uuid[k] \div 16)
         /\ uuid_marshal(uuid)[ByteAt[k] + 2] = HexDigit(uuid[k] % 16)
<1> DEFINE Of(i) == CHOOSE j \in 1 .. 16 : i - 1 \in {ByteAt[j], ByteAt[j] + 1}
<1>1. ByteAt[k] \in 0 .. 34 /\ ByteAt[k] \notin DashAt /\ ByteAt[k] + 1 \notin DashAt
  BY ByteIsTwoDigits
<1>2. \A j \in 1 .. 16 : ByteAt[j] \in 0 .. 34
  BY ByteIsTwoDigits
<1>3. ASSUME NEW j \in 1 .. 16
      PROVE  /\ ByteAt[k] \in {ByteAt[j], ByteAt[j] + 1} <=> j = k
             /\ ByteAt[k] + 1 \in {ByteAt[j], ByteAt[j] + 1} <=> j = k
  <2>1. ByteAt[j] \in Int /\ ByteAt[k] \in Int
    BY <1>2
  <2>2. CASE j < k
    <3>1. ByteAt[j] + 2 <= ByteAt[k]
      BY <2>2, BytesApart
    <3> QED BY <2>1, <2>2, <3>1
  <2>3. CASE k < j
    <3>1. ByteAt[k] + 2 <= ByteAt[j]
      BY <2>3, BytesApart
    <3> QED BY <2>1, <2>3, <3>1
  <2>4. CASE j = k
    BY <2>4
  <2> QED BY <2>2, <2>3, <2>4
<1>4. ASSUME NEW i \in Int, NEW x \in Int, i - 1 = x, x \in {ByteAt[k], ByteAt[k] + 1}
      PROVE  Of(i) = k
  <2>1. \E j \in 1 .. 16 : i - 1 \in {ByteAt[j], ByteAt[j] + 1}
    BY <1>4
  <2>2. Of(i) \in 1 .. 16 /\ i - 1 \in {ByteAt[Of(i)], ByteAt[Of(i)] + 1}
    BY <2>1, Zenon
  <2> HIDE DEF Of
  <2>3. x \in {ByteAt[Of(i)], ByteAt[Of(i)] + 1}
    BY <2>2, <1>4
  <2> QED BY <1>3, <1>4, <2>2, <2>3
<1>5. uuid_marshal(uuid) =
        [i \in 1 .. 36 |->
          IF i - 1 \in DashAt THEN DASH
          ELSE HexDigit(IF i - 1 = ByteAt[Of(i)] THEN uuid[Of(i)] \div 16 ELSE uuid[Of(i)] % 16)]
  BY DEF uuid_marshal
<1> HIDE DEF Of
<1>6. ByteAt[k] + 1 \in 1 .. 36 /\ ByteAt[k] + 2 \in 1 .. 36
      /\ ByteAt[k] + 1 - 1 = ByteAt[k] /\ ByteAt[k] + 2 - 1 = ByteAt[k] + 1
      /\ ByteAt[k] + 1 # ByteAt[k]
  BY <1>1
<1>7. Of(ByteAt[k] + 1) = k /\ Of(ByteAt[k] + 2) = k
  BY <1>1, <1>4, <1>6
<1> QED BY <1>1, <1>5, <1>6, <1>7

\* What _anedya_uuid_marshal prints of sixteen bytes is an id, and the id of
\* these bytes.
THEOREM MarshalledId ==
  ASSUME NEW uuid \in [1 .. 16 -> 0 .. 255]
  PROVE  IsId(uuid_marshal(uuid)) /\ SameId(uuid_marshal(uuid), uuid)
<1> DEFINE text == uuid_marshal(uuid)
<1>1. Len(text) = 36 /\ DOMAIN text = 1 .. 36
  <2> DEFINE S == {text[i] : i \in 1 .. 36}
  <2>1. text \in [1 .. 36 -> S]
    BY DEF uuid_marshal
  <2>2. 36 \in Nat
    OBVIOUS
  <2> HIDE DEF text, S
  <2>3. Len(text) = 36
    BY <2>1, <2>2, FunctionIsSequence
  <2>4. DOMAIN text = 1 .. 36
    BY <2>1
  <2> QED BY <2>3, <2>4
<1>2. \A k \in 1 .. 16 : /\ text[ByteAt[k] + 1] = HexDigit(uuid[k] \div 16)
                         /\ text[ByteAt[k] + 2] = HexDigit(uuid[k] % 16)
  BY MarshalledByte
<1>3. ASSUME NEW k \in 1 .. 16
      PROVE  /\ text[ByteAt[k] + 1] \in HexDigits /\ text[ByteAt[k] + 2] \in HexDigits
             /\ uuid[k] = 16 * parsehex(text[ByteAt[k] + 1]) + parsehex(text[ByteAt[k] + 2])
  <2>1. uuid[k] \in 0 .. 255
    OBVIOUS
  <2>2. /\ uuid[k] \div 16 \in 0 .. 15 /\ uuid[k] % 16 \in 0 .. 15
        /\ uuid[k] = 16 * (uuid[k] \div 16) + (uuid[k] % 16)
    BY <2>1, ByteOfHalves
  <2> HIDE DEF text
  <2> QED BY <1>2, <2>2, HexDigitOfHalf
<1>4. SameId(text, uuid)
  BY <1>1, <1>3 DEF SameId
<1>5. \A i \in 1 .. 36 : i - 1 \in DashAt => text[i] = DASH
  BY DEF uuid_marshal
<1> HIDE DEF text
<1>6. ASSUME NEW i \in 1 .. 36, i - 1 \notin DashAt
      PROVE  text[i] \in HexDigits
  <2>1. PICK k \in 1 .. 16 : i - 1 = ByteAt[k] \/ i - 1 = ByteAt[k] + 1
    <3> DEFINE j == i - 1
    <3>1. j \in 0 .. 35 /\ j \notin DashAt
      BY <1>6
    <3> HIDE DEF j
    <3>2. \E k \in 1 .. 16 : j = ByteAt[k] \/ j = ByteAt[k] + 1
      BY <3>1, DigitOfByte
    <3> QED BY <3>2 DEF j
  <2>2. i = ByteAt[k] + 1 \/ i = ByteAt[k] + 2
    BY <2>1, PlacesOfByte, Zenon
  <2> QED BY <1>3, <2>2
<1>7. IsId(text)
  BY <1>1, <1>5, <1>6 DEF IsId
<1> QED BY <1>4, <1>7 DEF text

\* anedya_parse_device_id takes the texts of ids and no others, and what
\* anedya_config_init prints of the bytes is the text in small letters.
THEOREM DeviceIdRoundTrip ==
  \A text \in Seq(Nat) :
    /\ parse_device_id(text).ok <=> IsId(text)
    /\ IsId(text) => uuid_marshal(parse_device_id(text).devID) = LowerCase(text)
<1> SUFFICES ASSUME NEW text, text \in [1 .. Len(text) -> Nat], Len(text) \in Nat
             PROVE  /\ parse_device_id(text).ok <=> IsId(text)
                    /\ IsId(text) => uuid_marshal(parse_device_id(text).devID) = LowerCase(text)
  BY SequenceIsFunction
<1> DEFINE p == parse_device_id(text)
<1>1. ASSUME Len(text) = 36, NEW i \in 0 .. 35
      PROVE  At(text, i) = text[i + 1] /\ text[i + 1] \in Nat
  BY <1>1 DEF At
<1>2. p.ok <=> IsId(text)
  <2>1. p.ok <=> /\ Len(text) = 36
                 /\ \A i \in 0 .. 35 : IF i \in DashAt THEN At(text, i) = DASH
                                       ELSE parsehex(At(text, i)) # -1
    BY DEF parse_device_id
  <2>2. CASE Len(text) # 36
    BY <2>1, <2>2 DEF IsId
  <2>3. CASE Len(text) = 36
    <3>1. ASSUME NEW i \in 0 .. 35
          PROVE  (parsehex(At(text, i)) # -1) <=> text[i + 1] \in HexDigits
      <4>1. CASE text[i + 1] \in HexDigits
        <5>1. parsehex(text[i + 1]) \in 0 .. 15
          BY <4>1, HexDigitValues
        <5> QED BY <1>1, <2>3, <4>1, <5>1
      <4>2. CASE text[i + 1] \notin HexDigits
        BY <1>1, <2>3, <4>2, NoHexDigit
      <4> QED BY <4>1, <4>2
    <3>2. p.ok => IsId(text)
      <4> SUFFICES ASSUME p.ok, NEW i \in 1 .. 36
                   PROVE  IF i - 1 \in DashAt THEN text[i] = DASH ELSE text[i] \in HexDigits
        BY <2>3 DEF IsId
      <4>1. i - 1 \in 0 .. 35 /\ (i - 1) + 1 = i
        OBVIOUS
      <4> HIDE DEF p
      <4> QED BY <1>1, <2>1, <2>3, <3>1, <4>1
    <3>3. IsId(text) => p.ok
      <4> SUFFICES ASSUME IsId(text), NEW i \in 0 .. 35
                   PROVE  IF i \in DashAt THEN At(text, i) = DASH
                          ELSE parsehex(At(text, i)) # -1
        BY <2>1, <2>3
      <4>1. i + 1 \in 1 .. 36 /\ (i + 1) - 1 = i
        OBVIOUS
      <4>2. IF i \in DashAt THEN text[i + 1] = DASH ELSE text[i + 1] \in HexDigits
        BY <4>1 DEF IsId
      <4> QED BY <1>1, <2>3, <3>1, <4>2
    <3> QED BY <3>2, <3>3
  <2> QED BY <2>2, <2>3
<1>3. ASSUME IsId(text)
      PROVE  uuid_marshal(p.devID) = LowerCase(text)
  <2>1. Len(text) = 36 /\ DOMAIN text = 1 .. 36
    BY <1>3 DEF IsId
  <2>2. p.devID = [k \in 1 .. 16 |-> (parsehex(At(text, ByteAt[k])) * 16
                                        + parsehex(At(text, ByteAt[k] + 1))) % 256]
    BY DEF parse_device_id
  <2> HIDE DEF p
  <2>3. ASSUME NEW k \in 1 .. 16
        PROVE  /\ ByteAt[k] + 1 \in 1 .. 36 /\ ByteAt[k] + 2 \in 1 .. 36
               /\ text[ByteAt[k] + 1] \in HexDigits /\ text[ByteAt[k] + 2] \in HexDigits
               /\ At(text, ByteAt[k]) = text[ByteAt[k] + 1]
               /\ At(text, ByteAt[k] + 1) = text[ByteAt[k] + 2]
    <3>1. ByteAt[k] \in 0 .. 34 /\ ByteAt[k] \notin DashAt /\ ByteAt[k] + 1 \notin DashAt
      BY ByteIsTwoDigits
    <3>2. /\ ByteAt[k] + 1 \in 1 .. 36 /\ ByteAt[k] + 2 \in 1 .. 36
          /\ ByteAt[k] + 1 - 1 = ByteAt[k] /\ ByteAt[k] + 2 - 1 = ByteAt[k] + 1
          /\ ByteAt[k] + 1 + 1 = ByteAt[k] + 2
          /\ ByteAt[k] \in 0 .. 35 /\ ByteAt[k] + 1 \in 0 .. 35
      BY PlacesOfByte, Zenon
    <3>3. text[ByteAt[k] + 1] \in HexDigits /\ text[ByteAt[k] + 2] \in HexDigits
      BY <1>3, <3>1, <3>2 DEF IsId
    <3>4. At(text, ByteAt[k]) = text[ByteAt[k] + 1]
      BY <1>1, <2>1, <3>2
    <3>5. At(text, ByteAt[k] + 1) = text[ByteAt[k] + 1 + 1]
      BY <1>1, <2>1, <3>2
    <3> QED BY <3>2, <3>3, <3>4, <3>5
  <2>4. ASSUME NEW k \in 1 .. 16
        PROVE  /\ uuid_marshal(p.devID)[ByteAt[k] + 1] = LowerCase(text)[ByteAt[k] + 1]
               /\ uuid_marshal(p.devID)[ByteAt[k] + 2] = LowerCase(text)[ByteAt[k] + 2]
    <3> DEFINE h == parsehex(text[ByteAt[k] + 1])
               l == parsehex(text[ByteAt[k] + 2])
    <3>1. h \in 0 .. 15 /\ l \in 0 .. 15
      BY <2>3, HexDigitValues
    <3>2. /\ HexDigit(h) = LowerCase(text)[ByteAt[k] + 1]
          /\ HexDigit(l) = LowerCase(text)[ByteAt[k] + 2]
      BY <2>1, <2>3, HexDigitValues DEF LowerCase
    <3>3. p.devID[k] = (h * 16 + l) % 256
      <4> DEFINE c == At(text, ByteAt[k])
                 d == At(text, ByteAt[k] + 1)
      <4>1. parsehex(c) = h /\ parsehex(d) = l
        BY <2>3
      <4>2. p.devID[k] = (parsehex(c) * 16 + parsehex(d)) % 256
        BY <2>2
      <4> HIDE DEF c, d, h, l
      <4> QED BY <4>1, <4>2, Zenon
    <3> HIDE DEF h, l
    <3>4. p.devID[k] \div 16 = h /\ p.devID[k] % 16 = l
      BY <3>1, <3>3, Halves
    <3> QED BY <3>2, <3>4, MarshalledByte
  <2>5. ASSUME NEW i \in 1 .. 36
        PROVE  uuid_marshal(p.devID)[i] = LowerCase(text)[i]
    <3>1. CASE i - 1 \in DashAt
      <4>1. uuid_marshal(p.devID)[i] = DASH
        BY <3>1 DEF uuid_marshal
      <4>2. text[i] = DASH
        BY <1>3, <3>1 DEF IsId
      <4>3. LowerCase(text)[i] = DASH
        BY <2>1, <4>2 DEF LowerCase, UpperHex, DASH
      <4> QED BY <4>1, <4>3
    <3>2. CASE i - 1 \notin DashAt
      <4>1. PICK k \in 1 .. 16 : i - 1 = ByteAt[k] \/ i - 1 = ByteAt[k] + 1
        BY <3>2, DigitOfByte, i - 1 \in 0 .. 35
      <4>2. i = ByteAt[k] + 1 \/ i = ByteAt[k] + 2
        BY <4>1, PlacesOfByte, Zenon
      <4> QED BY <2>4, <4>2
    <3> QED BY <3>1, <3>2
  <2>6. /\ uuid_marshal(p.devID) = [i \in 1 .. 36 |-> uuid_marshal(p.devID)[i]]
        /\ LowerCase(text) = [i \in 1 .. 36 |-> LowerCase(text)[i]]
    BY <2>1 DEF uuid_marshal, LowerCase
  <2> QED BY <2>5, <2>6
<1> QED BY <1>2, <1>3

\* Byte k of an id, read of two digits.
ReadsByte(text, uuid, k) ==
  /\ text[ByteAt[k] + 1] \in HexDigits /\ text[ByteAt[k] + 2] \in HexDigits
  /\ uuid[k] = 16 * parsehex(text[ByteAt[k] + 1]) + parsehex(text[ByteAt[k] + 2])
  /\ uuid[k] \in 0 .. 255

\* Sixteen such bytes are the id the text stands for.
LEMMA BytesOfId ==
  ASSUME NEW text, Len(text) = 36, NEW uuid, uuid = [k \in 1 .. 16 |-> uuid[k]],
         \A k \in 1 .. 16 : ReadsByte(text, uuid, k)
  PROVE  SameId(text, uuid) /\ uuid \in [1 .. 16 -> 0 .. 255]
<1>1. uuid \in [1 .. 16 -> 0 .. 255]
  BY DEF ReadsByte
<1>2. SameId(text, uuid)
  BY DEF ReadsByte, SameId
<1> QED BY <1>1, <1>2

\* An id is read to the end only when all its digits are digits.
LEMMA IdIsRead ==
  ASSUME NEW text, text \in [1 .. Len(text) -> Nat], Len(text) = 36,
         \A i \in 1 .. 36 : text[i] \notin 103 .. 105,
         NEW old, uuid_parse(text, old).ok
  PROVE  /\ SameId(text, uuid_parse(text, old).uuid)
         /\ uuid_parse(text, old).uuid \in [1 .. 16 -> 0 .. 255]
<1> DEFINE n == CHOOSE m \in 0 .. 16 : /\ \A k \in 1 .. m : Legible(text, k)
                                       /\ m = 16 \/ ~Legible(text, m + 1)
           uuid == uuid_parse(text, old).uuid
<1>1. n = 16 /\ uuid = [k \in 1 .. 16 |->
                          IF k <= n THEN unhex(unhex_char(At(text, ByteAt[k])),
                                               unhex_char(At(text, ByteAt[k] + 1)))
                          ELSE old[k]]
  BY DEF uuid_parse
<1>2. \E m \in 0 .. 16 : /\ \A k \in 1 .. m : Legible(text, k)
                         /\ m = 16 \/ ~Legible(text, m + 1)
  <2> DEFINE S == {m \in 0 .. 16 : m = 16 \/ ~Legible(text, m + 1)}
  <2>1. S \in SUBSET Nat /\ S # {}
    OBVIOUS
  <2> HIDE DEF S
  <2>2. PICK m \in S : \A j \in S : m <= j
    BY <2>1, Least, Zenon
  <2> USE DEF S
  <2>3. ASSUME NEW k \in 1 .. m
        PROVE  Legible(text, k)
    <3>1. k - 1 \in 0 .. 16 /\ k - 1 # 16 /\ k - 1 \notin S /\ k - 1 + 1 = k
      BY <2>2
    <3> QED BY <3>1
  <2> QED BY <2>2, <2>3
<1>3. \A k \in 1 .. n : Legible(text, k)
  BY <1>2
<1> HIDE DEF n, uuid
<1>4. ASSUME NEW k \in 1 .. 16
      PROVE  ReadsByte(text, uuid, k)
  <2> DEFINE c == text[ByteAt[k] + 1]
             d == text[ByteAt[k] + 2]
  <2>1. ByteAt[k] \in 0 .. 34
    BY ByteIsTwoDigits
  <2>2. At(text, ByteAt[k]) = c /\ At(text, ByteAt[k] + 1) = text[ByteAt[k] + 1 + 1]
    BY <2>1 DEF At
  <2>3. /\ ByteAt[k] + 1 \in 1 .. 36 /\ ByteAt[k] + 2 \in 1 .. 36
        /\ ByteAt[k] + 1 + 1 = ByteAt[k] + 2
    BY <2>1
  <2>4. c \in Nat /\ d \in Nat /\ c \notin 103 .. 105 /\ d \notin 103 .. 105
    BY <2>3
  <2>5. unhex_char(c) # Invalid /\ unhex_char(d) # Invalid
    BY <1>1, <1>3, <2>2, <2>3 DEF Legible
  <2>6. uuid[k] = unhex(unhex_char(c), unhex_char(d))
    BY <1>1, <2>2, <2>3
  <2> HIDE DEF c, d
  <2>7. c \in HexDigits /\ d \in HexDigits
    BY <2>4, <2>5, NoHexDigit
  <2>8. /\ unhex_char(c) = parsehex(c) /\ parsehex(c) \in 0 .. 15
        /\ unhex_char(d) = parsehex(d) /\ parsehex(d) \in 0 .. 15
    BY <2>7, HexDigitValues
  <2>9. uuid[k] = 16 * parsehex(c) + parsehex(d) /\ uuid[k] \in 0 .. 255
    <3> DEFINE h == parsehex(c)
               l == parsehex(d)
    <3>1. h \in 0 .. 15 /\ l \in 0 .. 15
      BY <2>8
    <3>2. uuid[k] = unhex(h, l)
      BY <2>6, <2>8
    <3> HIDE DEF h, l
    <3>3. unhex(h, l) = 16 * h + l /\ unhex(h, l) \in 0 .. 255
      BY <3>1, UnhexOfHalves
    <3>4. uuid[k] = 16 * h + l /\ uuid[k] \in 0 .. 255
      BY <3>2, <3>3
    <3> QED BY <3>4 DEF h, l
  <2> QED BY <2>7, <2>9 DEF c, d, ReadsByte
<1>5. uuid = [k \in 1 .. 16 |-> uuid[k]]
  BY <1>1
<1>6. SameId(text, uuid) /\ uuid \in [1 .. 16 -> 0 .. 255]
  BY <1>4, <1>5, BytesOfId
<1> QED BY <1>6 DEF uuid

\* _anedya_uuid_parse, of a text as long as an id in which g, h and i do not
\* stand for digits: what it takes for an id, it reads as that id.
THEOREM ParsedIdIsRead ==
  \A text \in Seq(Nat) : \A old :
    /\ Len(text) = 36 /\ (\A i \in 1 .. 36 : text[i] \notin 103 .. 105)
    /\ uuid_parse(text, old).ok
    => /\ SameId(text, uuid_parse(text, old).uuid)
       /\ uuid_parse(text, old).uuid \in [1 .. 16 -> 0 .. 255]
<1> SUFFICES ASSUME NEW text \in Seq(Nat), NEW old,
                    Len(text) = 36, \A i \in 1 .. 36 : text[i] \notin 103 .. 105,
                    uuid_parse(text, old).ok
             PROVE  /\ SameId(text, uuid_parse(text, old).uuid)
                    /\ uuid_parse(text, old).uuid \in [1 .. 16 -> 0 .. 255]
  BY Zenon
<1>1. text \in [1 .. Len(text) -> Nat]
  BY SequenceIsFunction, Zenon
<1> QED BY <1>1, IdIsRead, Zenon

-----------------------------------------------------------------------------
(* Base64. *)

\* The tables of the code are the alphabet of the format, ...
LEMMA DigitsOfAlphabet ==
  \A d \in 0 .. 63 : /\ encoding_table(d) = Alphabet[d + 1]
                     /\ decoding_table(Alphabet[d + 1]) = d
                     /\ Alphabet[d + 1] # PAD
<1> SUFFICES ASSUME NEW d \in 0 .. 63
             PROVE  /\ encoding_table(d) = Alphabet[d + 1]
                    /\ decoding_table(Alphabet[d + 1]) = d
                    /\ Alphabet[d + 1] # PAD
  OBVIOUS
<1>1. Alphabet[d + 1] = IF d <= 25 THEN 65 + d ELSE IF d <= 51 THEN 71 + d
                        ELSE IF d <= 61 THEN d - 4 ELSE IF d = 62 THEN 43 ELSE 47
  BY DEF Alphabet
<1> QED BY <1>1 DEF encoding_table, decoding_table, PAD, ZERO, Digits

\* ... in which no character stands for two numbers.
LEMMA ValueOfDigit ==
  \A d \in 0 .. 63 : Value(Alphabet[d + 1]) = d
<1> SUFFICES ASSUME NEW d \in 0 .. 63
             PROVE  Value(Alphabet[d + 1]) = d
  OBVIOUS
<1> DEFINE e == CHOOSE e \in 1 .. 64 : Alphabet[e] = Alphabet[d + 1]
<1>1. d + 1 \in 1 .. 64
  OBVIOUS
<1>2. e \in 1 .. 64 /\ Alphabet[e] = Alphabet[d + 1]
  BY <1>1, Zenon
<1>3. Value(Alphabet[d + 1]) = e - 1
  BY DEF Value
<1> HIDE DEF e
<1>4. e - 1 \in 0 .. 63 /\ (e - 1) + 1 = e
  BY <1>2
<1>5. e - 1 = d
  BY <1>2, <1>4, DigitsOfAlphabet
<1> QED BY <1>3, <1>5

\* The bits of a byte, from the lowest.
LEMMA BitValues ==
  \A b : /\ Bit(b, 0) = (b \div 1) % 2 /\ Bit(b, 1) = (b \div 2) % 2
         /\ Bit(b, 2) = (b \div 4) % 2 /\ Bit(b, 3) = (b \div 8) % 2
         /\ Bit(b, 4) = (b \div 16) % 2 /\ Bit(b, 5) = (b \div 32) % 2
         /\ Bit(b, 6) = (b \div 64) % 2 /\ Bit(b, 7) = (b \div 128) % 2
BY DEF Bit

\* A byte loses its lowest bit when it is halved.
LEMMA HalvesByBit ==
  ASSUME NEW b \in 0 .. 255
  PROVE  /\ Bit(b, 0) \in 0 .. 1 /\ Bit(b, 1) \in 0 .. 1 /\ Bit(b, 2) \in 0 .. 1
         /\ Bit(b, 3) \in 0 .. 1 /\ Bit(b, 4) \in 0 .. 1 /\ Bit(b, 5) \in 0 .. 1
         /\ Bit(b, 6) \in 0 .. 1 /\ Bit(b, 7) \in 0 .. 1
         /\ b = 2 * (b \div 2) + Bit(b, 0)
         /\ b \div 2 = 2 * (b \div 4) + Bit(b, 1)
         /\ b \div 4 = 2 * (b \div 8) + Bit(b, 2)
         /\ b \div 8 = 2 * (b \div 16) + Bit(b, 3)
         /\ b \div 16 = 2 * (b \div 32) + Bit(b, 4)
         /\ b \div 32 = 2 * (b \div 64) + Bit(b, 5)
         /\ b \div 64 = 2 * (b \div 128) + Bit(b, 6)
         /\ b \div 128 = Bit(b, 7)
<1>1. /\ Bit(b, 0) \in 0 .. 1 /\ Bit(b, 1) \in 0 .. 1 /\ Bit(b, 2) \in 0 .. 1
      /\ Bit(b, 3) \in 0 .. 1 /\ Bit(b, 4) \in 0 .. 1 /\ Bit(b, 5) \in 0 .. 1
      /\ Bit(b, 6) \in 0 .. 1 /\ Bit(b, 7) \in 0 .. 1
  BY BitValues
<1>2. b = 2 * (b \div 2) + Bit(b, 0)
  <2>1. b \div 1 = b
    OBVIOUS
  <2>2. b = 2 * (b \div 2) + (b % 2)
    OBVIOUS
  <2> QED BY <2>1, <2>2, BitValues
<1>3. b \div 2 = 2 * (b \div 4) + Bit(b, 1)
  <2>1. b \div 2 = 2 * (b \div 4) + ((b \div 2) % 2)
    OBVIOUS
  <2> QED BY <2>1, BitValues
<1>4. b \div 4 = 2 * (b \div 8) + Bit(b, 2)
  <2>1. b \div 4 = 2 * (b \div 8) + ((b \div 4) % 2)
    OBVIOUS
  <2> QED BY <2>1, BitValues
<1>5. b \div 8 = 2 * (b \div 16) + Bit(b, 3)
  <2>1. b \div 8 = 2 * (b \div 16) + ((b \div 8) % 2)
    OBVIOUS
  <2> QED BY <2>1, BitValues
<1>6. b \div 16 = 2 * (b \div 32) + Bit(b, 4)
  <2>1. b \div 16 = 2 * (b \div 32) + ((b \div 16) % 2)
    OBVIOUS
  <2> QED BY <2>1, BitValues
<1>7. b \div 32 = 2 * (b \div 64) + Bit(b, 5)
  <2>1. b \div 32 = 2 * (b \div 64) + ((b \div 32) % 2)
    OBVIOUS
  <2> QED BY <2>1, BitValues
<1>8. b \div 64 = 2 * (b \div 128) + Bit(b, 6)
  <2>1. b \div 64 = 2 * (b \div 128) + ((b \div 64) % 2)
    OBVIOUS
  <2> QED BY <2>1, BitValues
<1>9. b \div 128 = Bit(b, 7)
  <2>1. b \div 128 = (b \div 128) % 2
    OBVIOUS
  <2> QED BY <2>1, BitValues
<1> QED BY <1>1, <1>2, <1>3, <1>4, <1>5, <1>6, <1>7, <1>8, <1>9

\* What the higher and the lower bits of a byte are worth.
LEMMA BitSums ==
  ASSUME NEW b \in 0 .. 255
  PROVE  /\ Bit(b, 0) \in 0 .. 1 /\ Bit(b, 1) \in 0 .. 1 /\ Bit(b, 2) \in 0 .. 1
         /\ Bit(b, 3) \in 0 .. 1 /\ Bit(b, 4) \in 0 .. 1 /\ Bit(b, 5) \in 0 .. 1
         /\ Bit(b, 6) \in 0 .. 1 /\ Bit(b, 7) \in 0 .. 1
         /\ b \div 64 = 2 * Bit(b, 7) + Bit(b, 6)
         /\ b \div 16 = 8 * Bit(b, 7) + 4 * Bit(b, 6) + 2 * Bit(b, 5) + Bit(b, 4)
         /\ b \div 4 = 32 * Bit(b, 7) + 16 * Bit(b, 6) + 8 * Bit(b, 5) + 4 * Bit(b, 4)
                         + 2 * Bit(b, 3) + Bit(b, 2)
         /\ b % 4 = 2 * Bit(b, 1) + Bit(b, 0)
         /\ b % 16 = 8 * Bit(b, 3) + 4 * Bit(b, 2) + 2 * Bit(b, 1) + Bit(b, 0)
         /\ b % 64 = 32 * Bit(b, 5) + 16 * Bit(b, 4) + 8 * Bit(b, 3) + 4 * Bit(b, 2)
                       + 2 * Bit(b, 1) + Bit(b, 0)
<1> DEFINE b2 == b \div 2 b4 == b \div 4 b8 == b \div 8 b16 == b \div 16
           b32 == b \div 32 b64 == b \div 64 b128 == b \div 128
           r4 == b % 4 r16 == b % 16 r64 == b % 64
           t0 == Bit(b, 0) t1 == Bit(b, 1) t2 == Bit(b, 2) t3 == Bit(b, 3)
           t4 == Bit(b, 4) t5 == Bit(b, 5) t6 == Bit(b, 6) t7 == Bit(b, 7)
<1>1. /\ b = 2 * b2 + t0 /\ b2 = 2 * b4 + t1 /\ b4 = 2 * b8 + t2 /\ b8 = 2 * b16 + t3
      /\ b16 = 2 * b32 + t4 /\ b32 = 2 * b64 + t5 /\ b64 = 2 * b128 + t6 /\ b128 = t7
  BY HalvesByBit
<1>2. /\ t0 \in 0 .. 1 /\ t1 \in 0 .. 1 /\ t2 \in 0 .. 1 /\ t3 \in 0 .. 1
      /\ t4 \in 0 .. 1 /\ t5 \in 0 .. 1 /\ t6 \in 0 .. 1 /\ t7 \in 0 .. 1
  BY HalvesByBit
<1>3. /\ b2 \in Int /\ b4 \in Int /\ b8 \in Int /\ b16 \in Int
      /\ b32 \in Int /\ b64 \in Int /\ b128 \in Int
      /\ r4 \in Int /\ r16 \in Int /\ r64 \in Int
  OBVIOUS
<1>4. b = 4 * b4 + r4
  OBVIOUS
<1>5. b = 16 * b16 + r16
  OBVIOUS
<1>6. b = 64 * b64 + r64
  OBVIOUS
<1> HIDE DEF b2, b4, b8, b16, b32, b64, b128, r4, r16, r64, t0, t1, t2, t3, t4, t5, t6, t7
<1>7. /\ b64 = 2 * t7 + t6
      /\ b16 = 8 * t7 + 4 * t6 + 2 * t5 + t4
      /\ b4 = 32 * t7 + 16 * t6 + 8 * t5 + 4 * t4 + 2 * t3 + t2
      /\ r4 = 2 * t1 + t0
      /\ r16 = 8 * t3 + 4 * t2 + 2 * t1 + t0
      /\ r64 = 32 * t5 + 16 * t4 + 8 * t3 + 4 * t2 + 2 * t1 + t0
  BY <1>1, <1>2, <1>3, <1>4, <1>5, <1>6
<1> QED BY <1>2, <1>7 DEF b4, b16, b64, r4, r16, r64, t0, t1, t2, t3, t4, t5, t6, t7

\* The digits as sums of bits, and as what division leaves.
SumsOfBits(x, y, z) ==
  /\ 32 * Bit(x, 7) + 16 * Bit(x, 6) + 8 * Bit(x, 5) + 4 * Bit(x, 4) + 2 * Bit(x, 3) + Bit(x, 2)
       = x \div 4
  /\ 32 * Bit(x, 1) + 16 * Bit(x, 0) + 8 * Bit(y, 7) + 4 * Bit(y, 6) + 2 * Bit(y, 5) + Bit(y, 4)
       = (x % 4) * 16 + (y \div 16)
  /\ 32 * Bit(y, 3) + 16 * Bit(y, 2) + 8 * Bit(y, 1) + 4 * Bit(y, 0) + 2 * Bit(z, 7) + Bit(z, 6)
       = (y % 16) * 4 + (z \div 64)
  /\ 32 * Bit(z, 5) + 16 * Bit(z, 4) + 8 * Bit(z, 3) + 4 * Bit(z, 2) + 2 * Bit(z, 1) + Bit(z, 0)
       = z % 64

\* Three bytes, cut into groups of six bits ...
LEMMA SextetsOfBytes ==
  ASSUME NEW x \in 0 .. 255, NEW y \in 0 .. 255, NEW z \in 0 .. 255
  PROVE  SumsOfBits(x, y, z)
<1>1. 32 * Bit(x, 7) + 16 * Bit(x, 6) + 8 * Bit(x, 5) + 4 * Bit(x, 4) + 2 * Bit(x, 3) + Bit(x, 2)
        = x \div 4
  BY BitSums
<1>2. 32 * Bit(x, 1) + 16 * Bit(x, 0) + 8 * Bit(y, 7) + 4 * Bit(y, 6) + 2 * Bit(y, 5) + Bit(y, 4)
        = (x % 4) * 16 + (y \div 16)
  <2> DEFINE m == x % 4
             n == y \div 16
  <2>1. /\ Bit(x, 0) \in 0 .. 1 /\ Bit(x, 1) \in 0 .. 1 /\ m = 2 * Bit(x, 1) + Bit(x, 0)
    BY BitSums
  <2>2. /\ Bit(y, 4) \in 0 .. 1 /\ Bit(y, 5) \in 0 .. 1 /\ Bit(y, 6) \in 0 .. 1 /\ Bit(y, 7) \in 0 .. 1
        /\ n = 8 * Bit(y, 7) + 4 * Bit(y, 6) + 2 * Bit(y, 5) + Bit(y, 4)
    BY BitSums
  <2>3. m \in Int /\ n \in Int
    OBVIOUS
  <2> HIDE DEF m, n
  <2>4. 32 * Bit(x, 1) + 16 * Bit(x, 0) + 8 * Bit(y, 7) + 4 * Bit(y, 6) + 2 * Bit(y, 5) + Bit(y, 4)
          = m * 16 + n
    BY <2>1, <2>2, <2>3
  <2> QED BY <2>4 DEF m, n
<1>3. 32 * Bit(y, 3) + 16 * Bit(y, 2) + 8 * Bit(y, 1) + 4 * Bit(y, 0) + 2 * Bit(z, 7) + Bit(z, 6)
        = (y % 16) * 4 + (z \div 64)
  <2> DEFINE m == y % 16
             n == z \div 64
  <2>1. /\ Bit(z, 6) \in 0 .. 1 /\ Bit(z, 7) \in 0 .. 1 /\ n = 2 * Bit(z, 7) + Bit(z, 6)
    BY BitSums
  <2>2. /\ Bit(y, 0) \in 0 .. 1 /\ Bit(y, 1) \in 0 .. 1 /\ Bit(y, 2) \in 0 .. 1 /\ Bit(y, 3) \in 0 .. 1
        /\ m = 8 * Bit(y, 3) + 4 * Bit(y, 2) + 2 * Bit(y, 1) + Bit(y, 0)
    BY BitSums
  <2>3. m \in Int /\ n \in Int
    OBVIOUS
  <2> HIDE DEF m, n
  <2>4. 32 * Bit(y, 3) + 16 * Bit(y, 2) + 8 * Bit(y, 1) + 4 * Bit(y, 0) + 2 * Bit(z, 7) + Bit(z, 6)
          = m * 4 + n
    <3> DEFINE s == 32 * Bit(y, 3) + 16 * Bit(y, 2) + 8 * Bit(y, 1) + 4 * Bit(y, 0)
    <3>1. s = m * 4
      BY <2>2, <2>3
    <3> HIDE DEF s
    <3>2. s + 2 * Bit(z, 7) + Bit(z, 6) = m * 4 + n
      BY <2>1, <2>3, <3>1
    <3> QED BY <3>2 DEF s
  <2> QED BY <2>4 DEF m, n
<1>4. 32 * Bit(z, 5) + 16 * Bit(z, 4) + 8 * Bit(z, 3) + 4 * Bit(z, 2) + 2 * Bit(z, 1) + Bit(z, 0)
        = z % 64
  BY BitSums
<1> QED BY <1>1, <1>2, <1>3, <1>4 DEF SumsOfBits

\* ... and the bytes that have the bits of four groups.
First(a, b) ==
  128 * Bit(a, 5) + 64 * Bit(a, 4) + 32 * Bit(a, 3) + 16 * Bit(a, 2) + 8 * Bit(a, 1)
    + 4 * Bit(a, 0) + 2 * Bit(b, 5) + Bit(b, 4)
Second(b, c) ==
  128 * Bit(b, 3) + 64 * Bit(b, 2) + 32 * Bit(b, 1) + 16 * Bit(b, 0) + 8 * Bit(c, 5)
    + 4 * Bit(c, 4) + 2 * Bit(c, 3) + Bit(c, 2)
Third(c, d) ==
  128 * Bit(c, 1) + 64 * Bit(c, 0) + 32 * Bit(d, 5) + 16 * Bit(d, 4) + 8 * Bit(d, 3)
    + 4 * Bit(d, 2) + 2 * Bit(d, 1) + Bit(d, 0)

\* ... and four groups of six, put together to bytes.
LEMMA BytesOfSextets ==
  \A e, f \in 0 .. 63 : /\ First(e, f) = e * 4 + (f \div 16)
                        /\ Second(e, f) = (e % 16) * 16 + (f \div 4)
                        /\ Third(e, f) = (e % 4) * 64 + f
<1>1. ASSUME NEW e \in 0 .. 63
      PROVE  /\ Bit(e, 0) \in 0 .. 1 /\ Bit(e, 1) \in 0 .. 1 /\ Bit(e, 2) \in 0 .. 1
             /\ Bit(e, 3) \in 0 .. 1 /\ Bit(e, 4) \in 0 .. 1 /\ Bit(e, 5) \in 0 .. 1
             /\ e = 32 * Bit(e, 5) + 16 * Bit(e, 4) + 8 * Bit(e, 3) + 4 * Bit(e, 2)
                      + 2 * Bit(e, 1) + Bit(e, 0)
             /\ e \div 4 = 8 * Bit(e, 5) + 4 * Bit(e, 4) + 2 * Bit(e, 3) + Bit(e, 2)
             /\ e \div 16 = 2 * Bit(e, 5) + Bit(e, 4)
             /\ e % 16 = 8 * Bit(e, 3) + 4 * Bit(e, 2) + 2 * Bit(e, 1) + Bit(e, 0)
             /\ e % 4 = 2 * Bit(e, 1) + Bit(e, 0)
  <2>1. e \in 0 .. 255 /\ e \div 64 = 0 /\ e % 64 = e
    OBVIOUS
  <2>2. Bit(e, 7) = 0 /\ Bit(e, 6) = 0
    <3>1. Bit(e, 6) \in 0 .. 1 /\ Bit(e, 7) \in 0 .. 1 /\ e \div 64 = 2 * Bit(e, 7) + Bit(e, 6)
      BY <2>1, BitSums
    <3> QED BY <2>1, <3>1
  <2>3. /\ Bit(e, 0) \in 0 .. 1 /\ Bit(e, 1) \in 0 .. 1 /\ Bit(e, 2) \in 0 .. 1
        /\ Bit(e, 3) \in 0 .. 1 /\ Bit(e, 4) \in 0 .. 1 /\ Bit(e, 5) \in 0 .. 1
    BY <2>1, BitSums
  <2>4. /\ e % 16 = 8 * Bit(e, 3) + 4 * Bit(e, 2) + 2 * Bit(e, 1) + Bit(e, 0)
        /\ e % 4 = 2 * Bit(e, 1) + Bit(e, 0)
    BY <2>1, BitSums
  <2>5. e = 32 * Bit(e, 5) + 16 * Bit(e, 4) + 8 * Bit(e, 3) + 4 * Bit(e, 2)
              + 2 * Bit(e, 1) + Bit(e, 0)
    <3>1. e % 64 = 32 * Bit(e, 5) + 16 * Bit(e, 4) + 8 * Bit(e, 3) + 4 * Bit(e, 2)
                     + 2 * Bit(e, 1) + Bit(e, 0)
      BY <2>1, BitSums
    <3> QED BY <2>1, <3>1
  <2>6. e \div 4 = 8 * Bit(e, 5) + 4 * Bit(e, 4) + 2 * Bit(e, 3) + Bit(e, 2)
    <3>1. e \div 4 = 32 * Bit(e, 7) + 16 * Bit(e, 6) + 8 * Bit(e, 5) + 4 * Bit(e, 4)
                        + 2 * Bit(e, 3) + Bit(e, 2)
      BY <2>1, BitSums
    <3> QED BY <2>2, <2>3, <3>1
  <2>7. e \div 16 = 2 * Bit(e, 5) + Bit(e, 4)
    <3>1. e \div 16 = 8 * Bit(e, 7) + 4 * Bit(e, 6) + 2 * Bit(e, 5) + Bit(e, 4)
      BY <2>1, BitSums
    <3> QED BY <2>2, <2>3, <3>1
  <2> QED BY <2>3, <2>4, <2>5, <2>6, <2>7
<1>2. ASSUME NEW e \in 0 .. 63, NEW f \in 0 .. 63
      PROVE  /\ First(e, f) = e * 4 + (f \div 16)
             /\ Second(e, f) = (e % 16) * 16 + (f \div 4)
             /\ Third(e, f) = (e % 4) * 64 + f
  <2>1. First(e, f) = e * 4 + (f \div 16)
    BY <1>1 DEF First
  <2>2. Second(e, f) = (e % 16) * 16 + (f \div 4)
    BY SMTT(90), <1>1 DEF Second
  <2>3. Third(e, f) = (e % 4) * 64 + f
    BY <1>1 DEF Third
  <2> QED BY <2>1, <2>2, <2>3
<1> QED BY <1>2

\* The digits of three bytes.
Six(x, y, z) == <<x \div 4, (x % 4) * 16 + (y \div 16), (y % 16) * 4 + (z \div 64), z % 64>>

\* The weights, entry by entry.
LEMMA PowersAre ==
  /\ Powers64[1] = 262144 /\ Powers64[2] = 4096 /\ Powers64[3] = 64 /\ Powers64[4] = 1
  /\ Powers256[1] = 65536 /\ Powers256[2] = 256 /\ Powers256[3] = 1
BY SMT DEF Powers64, Powers256

\* Digit r of the sum of three bytes.
DigitIs(x, y, z, r) == (OfBytes(x, y, z) \div Powers64[r]) % 64 = Six(x, y, z)[r]

\* The sum the encoder takes the digits from ...
LEMMA DigitsOfSum ==
  ASSUME NEW x \in 0 .. 255, NEW y \in 0 .. 255, NEW z \in 0 .. 255, NEW r \in 1 .. 4
  PROVE  DigitIs(x, y, z, r)
<1> DEFINE t == OfBytes(x, y, z)
<1>1. t = x * 65536 + y * 256 + z
  BY PowersAre, SMT DEF OfBytes
<1> HIDE DEF t
<1>2. (t \div 262144) % 64 = x \div 4
  BY <1>1, SMT
<1>3. (t \div 4096) % 64 = (x % 4) * 16 + (y \div 16)
  <2>1. t \div 4096 = x * 16 + (y \div 16)
    BY <1>1, SMT
  <2> QED BY <2>1, SMT
<1>4. (t \div 64) % 64 = (y % 16) * 4 + (z \div 64)
  <2>1. t \div 64 = x * 1024 + y * 4 + (z \div 64)
    BY <1>1, SMT
  <2> QED BY <2>1, SMT
<1>5. (t \div 1) % 64 = z % 64
  BY <1>1, SMT
<1>6. (t \div Powers64[r]) % 64 = Six(x, y, z)[r]
  <2>1. r = 1 \/ r = 2 \/ r = 3 \/ r = 4
    OBVIOUS
  <2> QED BY PowersAre, <1>2, <1>3, <1>4, <1>5, <2>1, SMT DEF Six
<1> QED BY <1>6 DEF t, DigitIs

\* ... is the one the decoder makes of them, and takes the bytes from.
LEMMA SumOfDigits ==
  ASSUME NEW x \in 0 .. 255, NEW y \in 0 .. 255, NEW z \in 0 .. 255
  PROVE  OfDigits(Six(x, y, z)[1], Six(x, y, z)[2], Six(x, y, z)[3], Six(x, y, z)[4])
           = OfBytes(x, y, z)
<1>1. /\ x = 4 * (x \div 4) + (x % 4)
      /\ y = 16 * (y \div 16) + (y % 16)
      /\ z = 64 * (z \div 64) + (z % 64)
  BY SMT
<1>2. x * 65536 + y * 256 + z
        = (x \div 4) * 262144 + ((x % 4) * 16 + (y \div 16)) * 4096
            + ((y % 16) * 4 + (z \div 64)) * 64 + (z % 64) * 1
  BY <1>1, SMT
<1>3. OfBytes(x, y, z) = x * 65536 + y * 256 + z
  BY PowersAre, SMT DEF OfBytes
<1> QED BY PowersAre, <1>2, <1>3, SMT DEF Six, OfDigits

\* Byte i of a number.
Byte == 0 .. 255
Part(number, i) == (number \div Powers256[i]) % 256

\* No byte of the sum is lost.
LEMMA BytesOfSum ==
  \A u, v, w \in Byte : /\ Part(OfBytes(u, v, w), 1) = u
                        /\ Part(OfBytes(u, v, w), 2) = v
                        /\ Part(OfBytes(u, v, w), 3) = w
<1> SUFFICES ASSUME NEW x \in 0 .. 255, NEW y \in 0 .. 255, NEW z \in 0 .. 255
             PROVE  /\ Part(OfBytes(x, y, z), 1) = x
                    /\ Part(OfBytes(x, y, z), 2) = y
                    /\ Part(OfBytes(x, y, z), 3) = z
  BY DEF Byte
<1> DEFINE t == OfBytes(x, y, z)
<1>1. t = x * 65536 + y * 256 + z
  BY PowersAre, SMT DEF OfBytes
<1> HIDE DEF t
<1>2. (t \div 65536) % 256 = x
  BY <1>1, SMT
<1>3. (t \div 256) % 256 = y
  <2>1. t \div 256 = x * 256 + y
    BY <1>1, SMT
  <2> QED BY <2>1, SMT
<1>4. (t \div 1) % 256 = z
  BY <1>1, SMT
<1>5. Part(t, 1) = x /\ Part(t, 2) = y /\ Part(t, 3) = z
  BY PowersAre, <1>2, <1>3, <1>4, SMT DEF Part
<1> QED BY <1>5 DEF t

\* The digits are in the range of the tables.
LEMMA SextetsAreSmall ==
  ASSUME NEW x \in 0 .. 255, NEW y \in 0 .. 255, NEW z \in 0 .. 255, NEW r \in 1 .. 4
  PROVE  Six(x, y, z)[r] \in 0 .. 63
<1>1. /\ x \div 4 \in 0 .. 63 /\ (x % 4) * 16 + (y \div 16) \in 0 .. 63
      /\ (y % 16) * 4 + (z \div 64) \in 0 .. 63 /\ z % 64 \in 0 .. 63
  OBVIOUS
<1>2. r = 1 \/ r = 2 \/ r = 3 \/ r = 4
  OBVIOUS
<1> QED BY <1>1, <1>2 DEF Six

\* Data comes in groups of three and a rest.
LEMMA Thirds ==
  \A n \in Nat : n \div 3 \in Nat /\ n % 3 \in 0 .. 2 /\ n = 3 * (n \div 3) + (n % 3)
OBVIOUS

\* Data, by its length and its bytes.
IsBytes(data) == Len(data) \in Nat /\ data \in [1 .. Len(data) -> 0 .. 255]

\* A byte behind the end counts as zero.
LEMMA ByteOrZero ==
  ASSUME NEW data, IsBytes(data), NEW k \in Nat
  PROVE  At(data, k) \in 0 .. 255
<1>1. CASE k < Len(data)
  <2>1. k + 1 \in 1 .. Len(data)
    BY <1>1 DEF IsBytes
  <2> QED BY <1>1, <2>1 DEF At, IsBytes
<1>2. CASE ~(k < Len(data))
  BY <1>2 DEF At
<1> QED BY <1>1, <1>2

\* The bits of the format are the bits of the bytes.
LEMMA DataBits ==
  ASSUME NEW data, IsBytes(data),
         NEW k \in Nat, NEW r \in 0 .. 7
  PROVE  DataBit(data, 8 * k + r + 1) = Bit(At(data, k), 7 - r)
<1> DEFINE i == 8 * k + r + 1
<1>1. (i - 1) \div 8 = k /\ (i - 1) % 8 = r /\ (i <= 8 * Len(data) <=> k < Len(data))
  BY DEF IsBytes
<1>2. DataBit(data, i) = IF i <= 8 * Len(data)
                         THEN Bit(data[(i - 1) \div 8 + 1], 7 - ((i - 1) % 8)) ELSE 0
  BY DEF DataBit
<1> HIDE DEF i
<1>3. CASE k < Len(data)
  <2>1. At(data, k) = data[k + 1]
    BY <1>3 DEF At
  <2>2. DataBit(data, i) = Bit(data[k + 1], 7 - r)
    BY <1>1, <1>2, <1>3
  <2> QED BY <2>1, <2>2 DEF i
<1>4. CASE ~(k < Len(data))
  <2>1. At(data, k) = 0 /\ DataBit(data, i) = 0
    BY <1>1, <1>2, <1>4 DEF At
  <2>2. Bit(0, 7 - r) = 0
    <3>1. r = 0 \/ r = 1 \/ r = 2 \/ r = 3 \/ r = 4 \/ r = 5 \/ r = 6 \/ r = 7
      OBVIOUS
    <3> QED BY <3>1, BitValues
  <2> QED BY <2>1, <2>2 DEF i
<1> QED BY <1>3, <1>4 DEF i

\* The four digits of three bytes.
LEMMA SextetsOfGroup ==
  ASSUME NEW data, IsBytes(data), NEW q \in Nat
  PROVE  \A r \in 1 .. 4 : Sextet(data, 4 * q + r) =
                             Six(At(data, 3 * q), At(data, 3 * q + 1), At(data, 3 * q + 2))[r]
<1> DEFINE x == At(data, 3 * q)
           y == At(data, 3 * q + 1)
           z == At(data, 3 * q + 2)
<1>1. x \in 0 .. 255 /\ y \in 0 .. 255 /\ z \in 0 .. 255
  BY ByteOrZero, 3 * q \in Nat, 3 * q + 1 \in Nat, 3 * q + 2 \in Nat
<1>2. ASSUME NEW k \in Nat
      PROVE  /\ DataBit(data, 8 * k + 1) = Bit(At(data, k), 7)
             /\ DataBit(data, 8 * k + 2) = Bit(At(data, k), 6)
             /\ DataBit(data, 8 * k + 3) = Bit(At(data, k), 5)
             /\ DataBit(data, 8 * k + 4) = Bit(At(data, k), 4)
             /\ DataBit(data, 8 * k + 5) = Bit(At(data, k), 3)
             /\ DataBit(data, 8 * k + 6) = Bit(At(data, k), 2)
             /\ DataBit(data, 8 * k + 7) = Bit(At(data, k), 1)
             /\ DataBit(data, 8 * k + 8) = Bit(At(data, k), 0)
  <2>1. \A r \in 0 .. 7 : DataBit(data, 8 * k + r + 1) = Bit(At(data, k), 7 - r)
    BY DataBits
  <2>2. /\ 8 * k + 0 + 1 = 8 * k + 1 /\ 8 * k + 1 + 1 = 8 * k + 2 /\ 8 * k + 2 + 1 = 8 * k + 3
        /\ 8 * k + 3 + 1 = 8 * k + 4 /\ 8 * k + 4 + 1 = 8 * k + 5 /\ 8 * k + 5 + 1 = 8 * k + 6
        /\ 8 * k + 6 + 1 = 8 * k + 7 /\ 8 * k + 7 + 1 = 8 * k + 8
        /\ 7 - 0 = 7 /\ 7 - 1 = 6 /\ 7 - 2 = 5 /\ 7 - 3 = 4 /\ 7 - 4 = 3 /\ 7 - 5 = 2
        /\ 7 - 6 = 1 /\ 7 - 7 = 0
        /\ {0, 1, 2, 3, 4, 5, 6, 7} \subseteq 0 .. 7
    OBVIOUS
  <2> QED BY <2>1, <2>2
<1>3. Sextet(data, 4 * q + 1) = 32 * Bit(x, 7) + 16 * Bit(x, 6) + 8 * Bit(x, 5)
                                  + 4 * Bit(x, 4) + 2 * Bit(x, 3) + Bit(x, 2)
  <2>1. /\ 6 * (4 * q + 1) - 5 = 8 * (3 * q) + 1 /\ 6 * (4 * q + 1) - 4 = 8 * (3 * q) + 2
        /\ 6 * (4 * q + 1) - 3 = 8 * (3 * q) + 3 /\ 6 * (4 * q + 1) - 2 = 8 * (3 * q) + 4
        /\ 6 * (4 * q + 1) - 1 = 8 * (3 * q) + 5 /\ 6 * (4 * q + 1) = 8 * (3 * q) + 6
        /\ 3 * q \in Nat
    OBVIOUS
  <2> QED BY <1>2, <2>1 DEF Sextet
<1>4. Sextet(data, 4 * q + 2) = 32 * Bit(x, 1) + 16 * Bit(x, 0) + 8 * Bit(y, 7)
                                  + 4 * Bit(y, 6) + 2 * Bit(y, 5) + Bit(y, 4)
  <2>1. /\ 6 * (4 * q + 2) - 5 = 8 * (3 * q) + 7 /\ 6 * (4 * q + 2) - 4 = 8 * (3 * q) + 8
        /\ 6 * (4 * q + 2) - 3 = 8 * (3 * q + 1) + 1 /\ 6 * (4 * q + 2) - 2 = 8 * (3 * q + 1) + 2
        /\ 6 * (4 * q + 2) - 1 = 8 * (3 * q + 1) + 3 /\ 6 * (4 * q + 2) = 8 * (3 * q + 1) + 4
        /\ 3 * q \in Nat /\ 3 * q + 1 \in Nat
    OBVIOUS
  <2> QED BY <1>2, <2>1 DEF Sextet
<1>5. Sextet(data, 4 * q + 3) = 32 * Bit(y, 3) + 16 * Bit(y, 2) + 8 * Bit(y, 1)
                                  + 4 * Bit(y, 0) + 2 * Bit(z, 7) + Bit(z, 6)
  <2>1. /\ 6 * (4 * q + 3) - 5 = 8 * (3 * q + 1) + 5 /\ 6 * (4 * q + 3) - 4 = 8 * (3 * q + 1) + 6
        /\ 6 * (4 * q + 3) - 3 = 8 * (3 * q + 1) + 7 /\ 6 * (4 * q + 3) - 2 = 8 * (3 * q + 1) + 8
        /\ 6 * (4 * q + 3) - 1 = 8 * (3 * q + 2) + 1 /\ 6 * (4 * q + 3) = 8 * (3 * q + 2) + 2
        /\ 3 * q + 1 \in Nat /\ 3 * q + 2 \in Nat
    OBVIOUS
  <2> QED BY <1>2, <2>1 DEF Sextet
<1>6. Sextet(data, 4 * q + 4) = 32 * Bit(z, 5) + 16 * Bit(z, 4) + 8 * Bit(z, 3)
                                  + 4 * Bit(z, 2) + 2 * Bit(z, 1) + Bit(z, 0)
  <2>1. /\ 6 * (4 * q + 4) - 5 = 8 * (3 * q + 2) + 3 /\ 6 * (4 * q + 4) - 4 = 8 * (3 * q + 2) + 4
        /\ 6 * (4 * q + 4) - 3 = 8 * (3 * q + 2) + 5 /\ 6 * (4 * q + 4) - 2 = 8 * (3 * q + 2) + 6
        /\ 6 * (4 * q + 4) - 1 = 8 * (3 * q + 2) + 7 /\ 6 * (4 * q + 4) = 8 * (3 * q + 2) + 8
        /\ 3 * q + 2 \in Nat
    OBVIOUS
  <2> QED BY <1>2, <2>1 DEF Sextet
<1> HIDE DEF x, y, z
<1>7. /\ Sextet(data, 4 * q + 1) = x \div 4
      /\ Sextet(data, 4 * q + 2) = (x % 4) * 16 + (y \div 16)
      /\ Sextet(data, 4 * q + 3) = (y % 16) * 4 + (z \div 64)
      /\ Sextet(data, 4 * q + 4) = z % 64
  <2>1. /\ 32 * Bit(x, 7) + 16 * Bit(x, 6) + 8 * Bit(x, 5) + 4 * Bit(x, 4) + 2 * Bit(x, 3) + Bit(x, 2)
             = x \div 4
        /\ 32 * Bit(x, 1) + 16 * Bit(x, 0) + 8 * Bit(y, 7) + 4 * Bit(y, 6) + 2 * Bit(y, 5) + Bit(y, 4)
             = (x % 4) * 16 + (y \div 16)
        /\ 32 * Bit(y, 3) + 16 * Bit(y, 2) + 8 * Bit(y, 1) + 4 * Bit(y, 0) + 2 * Bit(z, 7) + Bit(z, 6)
             = (y % 16) * 4 + (z \div 64)
        /\ 32 * Bit(z, 5) + 16 * Bit(z, 4) + 8 * Bit(z, 3) + 4 * Bit(z, 2) + 2 * Bit(z, 1) + Bit(z, 0)
             = z % 64
    <3>1. SumsOfBits(x, y, z)
      BY <1>1, SextetsOfBytes
    <3> QED BY <3>1, Zenon DEF SumsOfBits
  <2> QED BY <2>1, <1>3, <1>4, <1>5, <1>6, Zenon
<1>8. ASSUME NEW r \in 1 .. 4
      PROVE  Sextet(data, 4 * q + r) = Six(x, y, z)[r]
  <2>1. r = 1 \/ r = 2 \/ r = 3 \/ r = 4
    OBVIOUS
  <2> QED BY <1>7, <2>1 DEF Six
<1> QED BY <1>8 DEF x, y, z

\* Digit j, as the encoder takes it from the sum of three bytes.
LEMMA DigitOfTriple ==
  ASSUME NEW data, IsBytes(data), NEW j \in Nat \ {0}
  PROVE  /\ Sextet(data, j) \in 0 .. 63
         /\ (Triple(data, 3 * ((j - 1) \div 4)) \div Powers64[((j - 1) % 4) + 1]) % 64
              = Sextet(data, j)
<1> DEFINE q == (j - 1) \div 4
           r == (j - 1) % 4
           x == At(data, 3 * q)
           y == At(data, 3 * q + 1)
           z == At(data, 3 * q + 2)
           t == Triple(data, 3 * q)
<1>1. q \in Nat /\ r \in 0 .. 3 /\ j = 4 * q + r + 1
  OBVIOUS
<1>2. t = OfBytes(x, y, z)
  BY DEF Triple
<1> HIDE DEF q, r
<1>3. x \in 0 .. 255 /\ y \in 0 .. 255 /\ z \in 0 .. 255
  BY <1>1, ByteOrZero, 3 * q \in Nat, 3 * q + 1 \in Nat, 3 * q + 2 \in Nat
<1>4. \A k \in 1 .. 4 : Sextet(data, 4 * q + k) = Six(x, y, z)[k]
  BY <1>1, SextetsOfGroup
<1> HIDE DEF x, y, z, t
<1>5. r + 1 \in 1 .. 4 /\ j = 4 * q + (r + 1)
  BY <1>1
<1>6. Sextet(data, j) = Six(x, y, z)[r + 1]
  BY <1>4, <1>5, Zenon
<1>7. Six(x, y, z)[r + 1] \in 0 .. 63
  BY <1>3, <1>5, SextetsAreSmall
<1>8. (t \div Powers64[r + 1]) % 64 = Six(x, y, z)[r + 1]
  <2> DEFINE i == r + 1
  <2>1. i \in 1 .. 4
    BY <1>5
  <2> HIDE DEF i
  <2>2. DigitIs(x, y, z, i)
    BY <1>3, <2>1, DigitsOfSum
  <2> QED BY <1>2, <2>2, Zenon DEF DigitIs, i
<1>9. /\ Sextet(data, j) \in 0 .. 63
      /\ (t \div Powers64[r + 1]) % 64 = Sextet(data, j)
  BY <1>6, <1>7, <1>8
<1> QED BY <1>9 DEF t, r, q

\* How many digits and how many '=' there are.
LEMMA LengthOfBase64 ==
  ASSUME NEW m \in Nat, NEW r \in 0 .. 2, NEW length \in Nat, length = 3 * m + r
  PROVE  LET n == 4 * ((length + 2) \div 3) IN
         /\ n = IF r = 0 THEN 4 * m ELSE 4 * m + 4
         /\ n - mod_table(length % 3) = IF r = 0 THEN 4 * m ELSE 4 * m + r + 1
         /\ \A j \in 1 .. n : 6 * (j - 1) < 8 * length <=> ~(j > n - mod_table(length % 3))
<1>1. length % 3 = r
  OBVIOUS
<1>2. mod_table(r) = IF r = 0 THEN 0 ELSE 3 - r
  <2>1. r = 0 \/ r = 1 \/ r = 2
    OBVIOUS
  <2> QED BY <2>1 DEF mod_table
<1>3. 4 * ((length + 2) \div 3) = IF r = 0 THEN 4 * m ELSE 4 * m + 4
  OBVIOUS
<1> QED BY <1>1, <1>2, <1>3

\* What _anedya_base64_encode makes of the string at the start of the data is
\* its base64 text.
LEMMA EncodedString ==
  ASSUME NEW data, NEW s, s = CString(data), IsBytes(s)
  PROVE  base64_encode(data) = Base64(s)
<1> DEFINE n == 4 * ((Len(s) + 2) \div 3)
           digit(j) == encoding_table((Triple(s, 3 * (j \div 4)) \div Powers64[(j % 4) + 1]) % 64)
<1>1. base64_encode(data)
        = [j \in 1 .. n |-> IF j > n - mod_table(Len(s) % 3) THEN PAD ELSE digit(j - 1)]
  BY DEF base64_encode
<1>2. Base64(s) = [j \in 1 .. n |-> IF 6 * (j - 1) < 8 * Len(s)
                                    THEN Alphabet[Sextet(s, j) + 1] ELSE PAD]
  BY DEF Base64
<1>3. \A j \in 1 .. n : 6 * (j - 1) < 8 * Len(s) <=> ~(j > n - mod_table(Len(s) % 3))
  <2>1. Len(s) \div 3 \in Nat /\ Len(s) % 3 \in 0 .. 2
        /\ Len(s) = 3 * (Len(s) \div 3) + (Len(s) % 3) /\ Len(s) \in Nat
    BY Thirds DEF IsBytes
  <2> QED BY <2>1, LengthOfBase64
<1>4. \A j \in 1 .. n : digit(j - 1) = Alphabet[Sextet(s, j) + 1]
  <2> SUFFICES ASSUME NEW j \in 1 .. n
               PROVE  digit(j - 1) = Alphabet[Sextet(s, j) + 1]
    OBVIOUS
  <2>1. j \in Nat \ {0}
    BY DEF IsBytes
  <2>2. /\ Sextet(s, j) \in 0 .. 63
        /\ (Triple(s, 3 * ((j - 1) \div 4)) \div Powers64[((j - 1) % 4) + 1]) % 64
             = Sextet(s, j)
    BY <2>1, DigitOfTriple
  <2>3. digit(j - 1) = encoding_table(Sextet(s, j))
    BY <2>2, Zenon
  <2> QED BY <2>2, <2>3, DigitsOfAlphabet, Zenon
<1> HIDE DEF n, digit
<1> QED BY <1>1, <1>2, <1>3, <1>4

\* The text: its length, its digits and its '='.
LEMMA TextOfData ==
  ASSUME NEW data, IsBytes(data)
  PROVE  LET n == 4 * ((Len(data) + 2) \div 3)
             d == n - mod_table(Len(data) % 3) IN
         /\ Len(Base64(data)) = n /\ n \in Nat /\ d \in 0 .. n
         /\ \A j \in 1 .. n : /\ Base64(data)[j] = IF j > d THEN PAD ELSE Alphabet[Sextet(data, j) + 1]
                              /\ Sextet(data, j) \in 0 .. 63
                              /\ j > d => Sextet(data, j) = 0
<1> DEFINE n == 4 * ((Len(data) + 2) \div 3)
           d == n - mod_table(Len(data) % 3)
           text == Base64(data)
<1>1. /\ Len(data) \in Nat
      /\ Len(data) \div 3 \in Nat /\ Len(data) % 3 \in 0 .. 2
      /\ Len(data) = 3 * (Len(data) \div 3) + (Len(data) % 3)
  BY Thirds DEF IsBytes
<1>2. /\ n \in Nat /\ d \in 0 .. n
      /\ \A j \in 1 .. n : 6 * (j - 1) < 8 * Len(data) <=> ~(j > d)
  <2>1. ASSUME NEW m \in Nat, NEW r \in 0 .. 2
        PROVE  /\ (IF r = 0 THEN 4 * m ELSE 4 * m + 4) \in Nat
               /\ (IF r = 0 THEN 4 * m ELSE 4 * m + r + 1)
                    \in 0 .. (IF r = 0 THEN 4 * m ELSE 4 * m + 4)
    OBVIOUS
  <2>2. LET m == Len(data) \div 3  r == Len(data) % 3 IN
        /\ n = IF r = 0 THEN 4 * m ELSE 4 * m + 4
        /\ d = IF r = 0 THEN 4 * m ELSE 4 * m + r + 1
        /\ \A j \in 1 .. n : 6 * (j - 1) < 8 * Len(data) <=> ~(j > d)
    BY <1>1, LengthOfBase64
  <2> QED BY <1>1, <2>1, <2>2
<1> HIDE DEF d
<1>3. text = [j \in 1 .. n |-> IF 6 * (j - 1) < 8 * Len(data)
                               THEN Alphabet[Sextet(data, j) + 1] ELSE PAD]
  BY DEF Base64
<1> HIDE DEF n, text
<1>4. Len(text) = n
  <2>1. text \in [1 .. n -> {text[j] : j \in 1 .. n}]
    BY <1>3
  <2> QED BY <1>2, <2>1, FunctionIsSequence
<1>5. ASSUME NEW j \in 1 .. n
      PROVE  /\ text[j] = IF j > d THEN PAD ELSE Alphabet[Sextet(data, j) + 1]
             /\ Sextet(data, j) \in 0 .. 63
             /\ j > d => Sextet(data, j) = 0
  <2>1. text[j] = IF j > d THEN PAD ELSE Alphabet[Sextet(data, j) + 1]
    BY <1>2, <1>3
  <2>2. j \in Nat \ {0}
    BY <1>2
  <2>3. Sextet(data, j) \in 0 .. 63
    BY <2>2, DigitOfTriple
  <2>4. ASSUME j > d
        PROVE  Sextet(data, j) = 0
    <3>1. 6 * j - 5 > 8 * Len(data)
      BY <1>1, <1>2, <2>2, <2>4
    <3>2. \A i \in {6 * j - 5, 6 * j - 4, 6 * j - 3, 6 * j - 2, 6 * j - 1, 6 * j} :
            ~(i <= 8 * Len(data))
      BY <1>1, <2>2, <3>1
    <3>3. \A i \in {6 * j - 5, 6 * j - 4, 6 * j - 3, 6 * j - 2, 6 * j - 1, 6 * j} :
            DataBit(data, i) = 0
      BY <3>2 DEF DataBit
    <3> QED BY <3>3 DEF Sextet
  <2> QED BY <2>1, <2>3, <2>4
<1> QED BY <1>2, <1>4, <1>5 DEF n, d, text

\* n digits and '=', p of them '=', for data of this length.
IsPadded(length, n, p) ==
  /\ n \in Nat /\ n >= 4 /\ n % 4 = 0 /\ n \div 4 = (length + 2) \div 3
  /\ p \in 0 .. 2 /\ (n \div 4) * 3 - p = length
  /\ (6 * (n - p)) \div 8 = length
  /\ (IF n > n - p THEN 1 ELSE 0) + (IF n - 1 > n - p THEN 1 ELSE 0) = p

\* The table of remainders gives the padding the length calls for.
LEMMA PaddingOfLength ==
  ASSUME NEW length \in Nat \ {0}
  PROVE  IsPadded(length, 4 * ((length + 2) \div 3), mod_table(length % 3))
<1> DEFINE m == length \div 3
           r == length % 3
<1>1. m \in Nat /\ r \in 0 .. 2 /\ length = 3 * m + r
  BY Thirds
<1>2. mod_table(r) = IF r = 0 THEN 0 ELSE 3 - r
  <2>1. r = 0 \/ r = 1 \/ r = 2
    BY <1>1
  <2> HIDE DEF r
  <2> QED BY <2>1 DEF mod_table
<1>3. (length + 2) \div 3 = IF r = 0 THEN m ELSE m + 1
  OBVIOUS
<1> HIDE DEF m, r
<1> QED BY <1>1, <1>2, <1>3 DEF r, IsPadded

\* What the server encodes, _anedya_base64_decode gives back.
LEMMA DecodedData ==
  ASSUME NEW data, IsBytes(data), Len(data) # 0
  PROVE  base64_decode(Base64(data)) = data
<1> DEFINE encoded == Base64(data)
           n == Len(encoded)
           pad(i) == IF encoded[i] = PAD THEN 1 ELSE 0
           sextet(i) == IF encoded[i] = PAD THEN 0 ELSE decoding_table(encoded[i])
           triple(q) == OfDigits(sextet(4 * q + 1), sextet(4 * q + 2), sextet(4 * q + 3),
                                 sextet(4 * q + 4))
           p == mod_table(Len(data) % 3)
<1>1. base64_decode(encoded) =
        IF n % 4 # 0 THEN <<>>
        ELSE [j \in 1 .. (n \div 4) * 3 - pad(n) - pad(n - 1) |->
                (triple((j - 1) \div 3) \div Powers256[((j - 1) % 3) + 1]) % 256]
  BY DEF base64_decode
<1>2. Len(data) \in Nat \ {0}
  BY DEF IsBytes
<1>3. /\ n = 4 * ((Len(data) + 2) \div 3)
      /\ \A j \in 1 .. n : /\ encoded[j] = IF j > n - p THEN PAD ELSE Alphabet[Sextet(data, j) + 1]
                           /\ Sextet(data, j) \in 0 .. 63
                           /\ j > n - p => Sextet(data, j) = 0
  BY TextOfData
<1>4. /\ n \in Nat /\ n >= 4 /\ n % 4 = 0 /\ n \div 4 = (Len(data) + 2) \div 3
      /\ p \in 0 .. 2 /\ (n \div 4) * 3 - p = Len(data)
      /\ (IF n > n - p THEN 1 ELSE 0) + (IF n - 1 > n - p THEN 1 ELSE 0) = p
  <2>1. IsPadded(Len(data), n, p)
    BY <1>2, <1>3, PaddingOfLength
  <2> HIDE DEF n, p
  <2> QED BY <2>1, Zenon DEF IsPadded
<1>5. \A j \in 1 .. n : /\ encoded[j] = PAD <=> j > n - p
                        /\ sextet(j) = Sextet(data, j)
  <2> SUFFICES ASSUME NEW j \in 1 .. n
               PROVE  (encoded[j] = PAD <=> j > n - p) /\ sextet(j) = Sextet(data, j)
    OBVIOUS
  <2>1. /\ Alphabet[Sextet(data, j) + 1] # PAD
        /\ decoding_table(Alphabet[Sextet(data, j) + 1]) = Sextet(data, j)
    BY <1>3, DigitsOfAlphabet
  <2> QED BY <1>3, <2>1
<1> HIDE DEF encoded, n, p, sextet
<1>6. (n \div 4) * 3 - pad(n) - pad(n - 1) = Len(data)
  <2>1. n \in 1 .. n /\ n - 1 \in 1 .. n
    BY <1>4
  <2>2. pad(n) = (IF n > n - p THEN 1 ELSE 0) /\ pad(n - 1) = (IF n - 1 > n - p THEN 1 ELSE 0)
    BY <1>5, <2>1
  <2> HIDE DEF pad
  <2> QED BY <1>4, <2>2
<1>7. ASSUME NEW j \in 1 .. Len(data)
      PROVE  (triple((j - 1) \div 3) \div Powers256[((j - 1) % 3) + 1]) % 256 = data[j]
  <2> DEFINE q == (j - 1) \div 3
             r == (j - 1) % 3
             x == At(data, 3 * q)
             y == At(data, 3 * q + 1)
             z == At(data, 3 * q + 2)
  <2>1. q \in Nat /\ r \in 0 .. 2 /\ j - 1 = 3 * q + r
    BY <1>2
  <2>2. 4 * q + 4 <= n
    BY <1>2, <1>3
  <2> HIDE DEF q, r
  <2>3. /\ 4 * q + 1 \in 1 .. n /\ 4 * q + 2 \in 1 .. n
        /\ 4 * q + 3 \in 1 .. n /\ 4 * q + 4 \in 1 .. n
    BY <1>4, <2>1, <2>2
  <2>4. x \in 0 .. 255 /\ y \in 0 .. 255 /\ z \in 0 .. 255
    BY <2>1, ByteOrZero, 3 * q \in Nat, 3 * q + 1 \in Nat, 3 * q + 2 \in Nat
  <2>5. \A k \in 1 .. 4 : Sextet(data, 4 * q + k) = Six(x, y, z)[k]
    BY <2>1, SextetsOfGroup
  <2> HIDE DEF x, y, z
  <2>6. /\ sextet(4 * q + 1) = Six(x, y, z)[1] /\ sextet(4 * q + 2) = Six(x, y, z)[2]
        /\ sextet(4 * q + 3) = Six(x, y, z)[3] /\ sextet(4 * q + 4) = Six(x, y, z)[4]
    BY <1>5, <2>3, <2>5
  <2>7. triple(q) = OfBytes(x, y, z)
    BY <2>4, <2>6, SumOfDigits
  <2> HIDE DEF triple
  <2>8. At(data, j - 1) = data[j]
    BY <1>2 DEF At
  <2>9. Part(triple(q), r + 1) = At(data, 3 * q + r)
    <3>1. /\ Part(triple(q), 1) = x /\ Part(triple(q), 2) = y /\ Part(triple(q), 3) = z
      <4>1. /\ Part(OfBytes(x, y, z), 1) = x
            /\ Part(OfBytes(x, y, z), 2) = y
            /\ Part(OfBytes(x, y, z), 3) = z
        <5>1. x \in Byte /\ y \in Byte /\ z \in Byte
          BY <2>4 DEF Byte
        <5>2. Part(OfBytes(x, y, z), 1) = x
          BY <5>1, BytesOfSum
        <5>3. Part(OfBytes(x, y, z), 2) = y
          BY <5>1, BytesOfSum
        <5>4. Part(OfBytes(x, y, z), 3) = z
          BY <5>1, BytesOfSum
        <5> QED BY <5>2, <5>3, <5>4
      <4> QED BY <2>7, <4>1, Zenon
    <3>2. CASE r = 0
      <4>1. r + 1 = 1 /\ 3 * q + r = 3 * q
        BY <2>1, <3>2
      <4> QED BY <3>1, <4>1, Zenon DEF x
    <3>3. CASE r = 1
      <4>1. r + 1 = 2 /\ 3 * q + r = 3 * q + 1
        BY <2>1, <3>3
      <4> QED BY <3>1, <4>1, Zenon DEF y
    <3>4. CASE r = 2
      <4>1. r + 1 = 3 /\ 3 * q + r = 3 * q + 2
        BY <2>1, <3>4
      <4> QED BY <3>1, <4>1, Zenon DEF z
    <3> QED BY <2>1, <3>2, <3>3, <3>4
  <2> QED BY <2>1, <2>8, <2>9 DEF q, r, Part
<1>8. data = [j \in 1 .. Len(data) |-> data[j]]
  BY DEF IsBytes
<1> HIDE DEF triple, pad
<1>9. base64_decode(encoded) =
        [j \in 1 .. Len(data) |->
                (triple((j - 1) \div 3) \div Powers256[((j - 1) % 3) + 1]) % 256]
  BY <1>1, <1>4, <1>6
<1> QED BY <1>7, <1>8, <1>9 DEF encoded

\* The bits a text has in its digit j.
LEMMA DigitBits ==
  ASSUME NEW text, NEW j \in Nat \ {0}, NEW v, Value(text[j]) = v
  PROVE  /\ TextBit(text, 6 * j - 5) = Bit(v, 5) /\ TextBit(text, 6 * j - 4) = Bit(v, 4)
         /\ TextBit(text, 6 * j - 3) = Bit(v, 3) /\ TextBit(text, 6 * j - 2) = Bit(v, 2)
         /\ TextBit(text, 6 * j - 1) = Bit(v, 1) /\ TextBit(text, 6 * j) = Bit(v, 0)
<1>1. ASSUME NEW r \in 0 .. 5, NEW i, i = 6 * j - 5 + r
      PROVE  TextBit(text, i) = Bit(v, 5 - r)
  <2>1. (i - 1) \div 6 + 1 = j /\ (i - 1) % 6 = r
    BY <1>1
  <2> QED BY <2>1 DEF TextBit
<1>2. /\ 6 * j - 5 = 6 * j - 5 + 0 /\ 6 * j - 4 = 6 * j - 5 + 1 /\ 6 * j - 3 = 6 * j - 5 + 2
      /\ 6 * j - 2 = 6 * j - 5 + 3 /\ 6 * j - 1 = 6 * j - 5 + 4 /\ 6 * j = 6 * j - 5 + 5
      /\ 5 - 0 = 5 /\ 5 - 1 = 4 /\ 5 - 2 = 3 /\ 5 - 3 = 2 /\ 5 - 4 = 1 /\ 5 - 5 = 0
      /\ {0, 1, 2, 3, 4, 5} \subseteq 0 .. 5
  OBVIOUS
<1> QED BY <1>1, <1>2

\* The bits of four digits are those of the three bytes they were made of.
LEMMA BytesOfSix ==
  \A x, y, z \in 0 .. 255 : /\ First(Six(x, y, z)[1], Six(x, y, z)[2]) = x
                            /\ Second(Six(x, y, z)[2], Six(x, y, z)[3]) = y
                            /\ Third(Six(x, y, z)[3], Six(x, y, z)[4]) = z
<1> SUFFICES ASSUME NEW x \in 0 .. 255, NEW y \in 0 .. 255, NEW z \in 0 .. 255
             PROVE  /\ First(Six(x, y, z)[1], Six(x, y, z)[2]) = x
                    /\ Second(Six(x, y, z)[2], Six(x, y, z)[3]) = y
                    /\ Third(Six(x, y, z)[3], Six(x, y, z)[4]) = z
  OBVIOUS
<1> DEFINE a == Six(x, y, z)[1]
           b == Six(x, y, z)[2]
           c == Six(x, y, z)[3]
           d == Six(x, y, z)[4]
<1>1. a \in 0 .. 63 /\ b \in 0 .. 63 /\ c \in 0 .. 63 /\ d \in 0 .. 63
  <2>1. 1 \in 1 .. 4 /\ 2 \in 1 .. 4 /\ 3 \in 1 .. 4 /\ 4 \in 1 .. 4
    OBVIOUS
  <2> QED BY <2>1, SextetsAreSmall
<1>2. /\ a = x \div 4 /\ b = (x % 4) * 16 + (y \div 16)
      /\ c = (y % 16) * 4 + (z \div 64) /\ d = z % 64
  BY DEF Six
<1> HIDE DEF a, b, c, d
<1>3. a * 4 + (b \div 16) = x
  BY <1>2
<1>4. (b % 16) * 16 + (c \div 4) = y
  BY <1>2
<1>5. (c % 4) * 64 + d = z
  BY <1>2
<1>6. First(a, b) = x
  BY <1>1, <1>3, BytesOfSextets
<1>7. Second(b, c) = y
  BY <1>1, <1>4, BytesOfSextets
<1>8. Third(c, d) = z
  BY <1>1, <1>5, BytesOfSextets
<1> QED BY <1>6, <1>7, <1>8 DEF a, b, c, d

\* Each byte is read once the two digits it is in are there.
ReadsGroup(text, q, x, y, z) ==
  /\ /\ Value(text[4 * q + 1]) = Six(x, y, z)[1] /\ Value(text[4 * q + 2]) = Six(x, y, z)[2]
     => Octet(text, 3 * q + 1) = x
  /\ /\ Value(text[4 * q + 2]) = Six(x, y, z)[2] /\ Value(text[4 * q + 3]) = Six(x, y, z)[3]
     => Octet(text, 3 * q + 2) = y
  /\ /\ Value(text[4 * q + 3]) = Six(x, y, z)[3] /\ Value(text[4 * q + 4]) = Six(x, y, z)[4]
     => Octet(text, 3 * q + 3) = z

\* The server reads three bytes of four digits.
LEMMA OctetsOfGroup ==
  ASSUME NEW text, NEW q \in Nat, NEW x \in 0 .. 255, NEW y \in 0 .. 255, NEW z \in 0 .. 255
  PROVE  ReadsGroup(text, q, x, y, z)
<1> DEFINE a == Six(x, y, z)[1]
           b == Six(x, y, z)[2]
           c == Six(x, y, z)[3]
           d == Six(x, y, z)[4]
<1>1. First(a, b) = x /\ Second(b, c) = y /\ Third(c, d) = z
  BY ZenonT(90), BytesOfSix
<1> HIDE DEF a, b, c, d
<1>2. /\ 4 * q + 1 \in Nat \ {0} /\ 4 * q + 2 \in Nat \ {0} /\ 4 * q + 3 \in Nat \ {0}
      /\ 4 * q + 4 \in Nat \ {0}
      /\ 8 * (3 * q + 1) - 7 = 6 * (4 * q + 1) - 5 /\ 8 * (3 * q + 1) - 6 = 6 * (4 * q + 1) - 4
      /\ 8 * (3 * q + 1) - 5 = 6 * (4 * q + 1) - 3 /\ 8 * (3 * q + 1) - 4 = 6 * (4 * q + 1) - 2
      /\ 8 * (3 * q + 1) - 3 = 6 * (4 * q + 1) - 1 /\ 8 * (3 * q + 1) - 2 = 6 * (4 * q + 1)
      /\ 8 * (3 * q + 1) - 1 = 6 * (4 * q + 2) - 5 /\ 8 * (3 * q + 1) = 6 * (4 * q + 2) - 4
      /\ 8 * (3 * q + 2) - 7 = 6 * (4 * q + 2) - 3 /\ 8 * (3 * q + 2) - 6 = 6 * (4 * q + 2) - 2
      /\ 8 * (3 * q + 2) - 5 = 6 * (4 * q + 2) - 1 /\ 8 * (3 * q + 2) - 4 = 6 * (4 * q + 2)
      /\ 8 * (3 * q + 2) - 3 = 6 * (4 * q + 3) - 5 /\ 8 * (3 * q + 2) - 2 = 6 * (4 * q + 3) - 4
      /\ 8 * (3 * q + 2) - 1 = 6 * (4 * q + 3) - 3 /\ 8 * (3 * q + 2) = 6 * (4 * q + 3) - 2
      /\ 8 * (3 * q + 3) - 7 = 6 * (4 * q + 3) - 1 /\ 8 * (3 * q + 3) - 6 = 6 * (4 * q + 3)
      /\ 8 * (3 * q + 3) - 5 = 6 * (4 * q + 4) - 5 /\ 8 * (3 * q + 3) - 4 = 6 * (4 * q + 4) - 4
      /\ 8 * (3 * q + 3) - 3 = 6 * (4 * q + 4) - 3 /\ 8 * (3 * q + 3) - 2 = 6 * (4 * q + 4) - 2
      /\ 8 * (3 * q + 3) - 1 = 6 * (4 * q + 4) - 1 /\ 8 * (3 * q + 3) = 6 * (4 * q + 4)
  OBVIOUS
<1>3. ASSUME Value(text[4 * q + 1]) = a, Value(text[4 * q + 2]) = b
      PROVE  Octet(text, 3 * q + 1) = x
  <2>1. /\ TextBit(text, 6 * (4 * q + 1) - 5) = Bit(a, 5)
        /\ TextBit(text, 6 * (4 * q + 1) - 4) = Bit(a, 4)
        /\ TextBit(text, 6 * (4 * q + 1) - 3) = Bit(a, 3)
        /\ TextBit(text, 6 * (4 * q + 1) - 2) = Bit(a, 2)
        /\ TextBit(text, 6 * (4 * q + 1) - 1) = Bit(a, 1)
        /\ TextBit(text, 6 * (4 * q + 1)) = Bit(a, 0)
        /\ TextBit(text, 6 * (4 * q + 2) - 5) = Bit(b, 5)
        /\ TextBit(text, 6 * (4 * q + 2) - 4) = Bit(b, 4)
    BY <1>2, <1>3, DigitBits
  <2> QED BY <1>1, <1>2, <2>1 DEF Octet, First
<1>4. ASSUME Value(text[4 * q + 2]) = b, Value(text[4 * q + 3]) = c
      PROVE  Octet(text, 3 * q + 2) = y
  <2>1. /\ TextBit(text, 6 * (4 * q + 2) - 3) = Bit(b, 3)
        /\ TextBit(text, 6 * (4 * q + 2) - 2) = Bit(b, 2)
        /\ TextBit(text, 6 * (4 * q + 2) - 1) = Bit(b, 1)
        /\ TextBit(text, 6 * (4 * q + 2)) = Bit(b, 0)
        /\ TextBit(text, 6 * (4 * q + 3) - 5) = Bit(c, 5)
        /\ TextBit(text, 6 * (4 * q + 3) - 4) = Bit(c, 4)
        /\ TextBit(text, 6 * (4 * q + 3) - 3) = Bit(c, 3)
        /\ TextBit(text, 6 * (4 * q + 3) - 2) = Bit(c, 2)
    BY <1>2, <1>4, DigitBits
  <2> QED BY <1>1, <1>2, <2>1 DEF Octet, Second
<1>5. ASSUME Value(text[4 * q + 3]) = c, Value(text[4 * q + 4]) = d
      PROVE  Octet(text, 3 * q + 3) = z
  <2>1. /\ TextBit(text, 6 * (4 * q + 3) - 1) = Bit(c, 1)
        /\ TextBit(text, 6 * (4 * q + 3)) = Bit(c, 0)
        /\ TextBit(text, 6 * (4 * q + 4) - 5) = Bit(d, 5)
        /\ TextBit(text, 6 * (4 * q + 4) - 4) = Bit(d, 4)
        /\ TextBit(text, 6 * (4 * q + 4) - 3) = Bit(d, 3)
        /\ TextBit(text, 6 * (4 * q + 4) - 2) = Bit(d, 2)
        /\ TextBit(text, 6 * (4 * q + 4) - 1) = Bit(d, 1)
        /\ TextBit(text, 6 * (4 * q + 4)) = Bit(d, 0)
    BY <1>2, <1>5, DigitBits
  <2> QED BY <1>1, <1>2, <2>1 DEF Octet, Third
<1> QED BY <1>3, <1>4, <1>5 DEF a, b, c, d, ReadsGroup

\* A text read back, where it has at least one digit more than '='.
LEMMA EncodedData ==
  ASSUME NEW data, IsBytes(data)
  PROVE  FromBase64(Base64(data)) = data
<1> DEFINE text == Base64(data)
           n == Len(text)
           p == mod_table(Len(data) % 3)
           d == n - p
           digits == CHOOSE e \in 0 .. n : \A i \in 1 .. n : text[i] = PAD <=> i > e
<1>1. Len(data) \in Nat
  BY DEF IsBytes
<1>2. /\ n = 4 * ((Len(data) + 2) \div 3)
      /\ n \in Nat /\ d \in 0 .. n
      /\ \A j \in 1 .. n : /\ text[j] = IF j > d THEN PAD ELSE Alphabet[Sextet(data, j) + 1]
                           /\ Sextet(data, j) \in 0 .. 63
  BY TextOfData
<1>3. (6 * d) \div 8 = Len(data)
  <2>1. CASE Len(data) = 0
    <3>1. n = 0
      BY <1>2, <2>1
    <3>2. d = 0
      BY <1>2, <3>1
    <3> QED BY <2>1, <3>2
  <2>2. CASE Len(data) # 0
    <3>1. Len(data) \in Nat \ {0}
      BY <1>1, <2>2
    <3>2. IsPadded(Len(data), n, p)
      BY <1>2, <3>1, PaddingOfLength
    <3> HIDE DEF n, p
    <3> QED BY <3>2 DEF d, IsPadded
  <2> QED BY <2>1, <2>2
<1>4. FromBase64(text) = [k \in 1 .. (6 * digits) \div 8 |-> Octet(text, k)]
  BY DEF FromBase64
<1> HIDE DEF text, n, d
<1>5. \A i \in 1 .. n : text[i] = PAD <=> i > d
  BY <1>2, DigitsOfAlphabet
<1>6. digits = d
  <2>1. digits \in 0 .. n /\ \A i \in 1 .. n : text[i] = PAD <=> i > digits
    <3>1. \E e \in 0 .. n : \A i \in 1 .. n : text[i] = PAD <=> i > e
      BY <1>2, <1>5
    <3> QED BY <3>1, Zenon
  <2> HIDE DEF digits
  <2>2. \A i \in 1 .. n : i > d <=> i > digits
    BY <1>5, <2>1
  <2>3. ~(digits < d)
    <3> SUFFICES ASSUME digits < d PROVE FALSE
      OBVIOUS
    <3>1. d \in 1 .. n /\ d > digits /\ ~(d > d)
      BY <1>2, <2>1
    <3> QED BY <2>2, <3>1
  <2>4. ~(d < digits)
    <3> SUFFICES ASSUME d < digits PROVE FALSE
      OBVIOUS
    <3>1. digits \in 1 .. n /\ digits > d /\ ~(digits > digits)
      BY <1>2, <2>1
    <3> QED BY <2>2, <3>1
  <2> QED BY <1>2, <2>1, <2>3, <2>4
<1> HIDE DEF digits
<1>7. \A j \in 1 .. d : Value(text[j]) = Sextet(data, j)
  <2> SUFFICES ASSUME NEW j \in 1 .. d
               PROVE  Value(text[j]) = Sextet(data, j)
    OBVIOUS
  <2>1. j \in 1 .. n /\ ~(j > d)
    BY <1>2
  <2>2. text[j] = Alphabet[Sextet(data, j) + 1] /\ Sextet(data, j) \in 0 .. 63
    BY <1>2, <2>1
  <2> QED BY <2>2, ValueOfDigit
<1>8. ASSUME NEW k \in 1 .. Len(data)
      PROVE  Octet(text, k) = data[k]
  <2> DEFINE q == (k - 1) \div 3
             r == (k - 1) % 3
             x == At(data, 3 * q)
             y == At(data, 3 * q + 1)
             z == At(data, 3 * q + 2)
  <2>1. q \in Nat /\ r \in 0 .. 2 /\ k = 3 * q + r + 1
    BY <1>1
  <2> HIDE DEF q, r
  <2>2. x \in 0 .. 255 /\ y \in 0 .. 255 /\ z \in 0 .. 255
    BY <2>1, ByteOrZero, 3 * q \in Nat, 3 * q + 1 \in Nat, 3 * q + 2 \in Nat
  <2>3. \A i \in 1 .. 4 : Sextet(data, 4 * q + i) = Six(x, y, z)[i]
    BY <2>1, SextetsOfGroup
  <2>4. data[k] = At(data, k - 1)
    BY <1>1 DEF At
  <2> HIDE DEF x, y, z
  <2>5. /\ Sextet(data, 4 * q + 1) = Six(x, y, z)[1] /\ Sextet(data, 4 * q + 2) = Six(x, y, z)[2]
        /\ Sextet(data, 4 * q + 3) = Six(x, y, z)[3] /\ Sextet(data, 4 * q + 4) = Six(x, y, z)[4]
    BY <2>3
  <2>6. /\ /\ Value(text[4 * q + 1]) = Six(x, y, z)[1] /\ Value(text[4 * q + 2]) = Six(x, y, z)[2]
           => Octet(text, 3 * q + 1) = x
        /\ /\ Value(text[4 * q + 2]) = Six(x, y, z)[2] /\ Value(text[4 * q + 3]) = Six(x, y, z)[3]
           => Octet(text, 3 * q + 2) = y
        /\ /\ Value(text[4 * q + 3]) = Six(x, y, z)[3] /\ Value(text[4 * q + 4]) = Six(x, y, z)[4]
           => Octet(text, 3 * q + 3) = z
    <3>1. ReadsGroup(text, q, x, y, z)
      BY <2>1, <2>2, OctetsOfGroup
    <3> QED BY <3>1 DEF ReadsGroup
  <2>7. CASE r = 0
    <3>1. 4 * q + 1 \in 1 .. d /\ 4 * q + 2 \in 1 .. d /\ k = 3 * q + 1 /\ k - 1 = 3 * q
      BY <1>2, <1>3, <2>1, <2>7
    <3>2. Octet(text, 3 * q + 1) = x
      BY <1>7, <2>5, <2>6, <3>1
    <3> QED BY <2>4, <3>1, <3>2 DEF x
  <2>8. CASE r = 1
    <3>1. 4 * q + 2 \in 1 .. d /\ 4 * q + 3 \in 1 .. d /\ k = 3 * q + 2 /\ k - 1 = 3 * q + 1
      BY <1>2, <1>3, <2>1, <2>8
    <3>2. Octet(text, 3 * q + 2) = y
      BY <1>7, <2>5, <2>6, <3>1
    <3> QED BY <2>4, <3>1, <3>2 DEF y
  <2>9. CASE r = 2
    <3>1. 4 * q + 3 \in 1 .. d /\ 4 * q + 4 \in 1 .. d /\ k = 3 * q + 3 /\ k - 1 = 3 * q + 2
      BY <1>2, <1>3, <2>1, <2>9
    <3>2. Octet(text, 3 * q + 3) = z
      BY <1>7, <2>5, <2>6, <3>1
    <3> QED BY <2>4, <3>1, <3>2 DEF z
  <2> QED BY <2>1, <2>7, <2>8, <2>9
<1>9. data = [k \in 1 .. Len(data) |-> data[k]]
  BY DEF IsBytes
<1>10. FromBase64(text) = [k \in 1 .. Len(data) |-> Octet(text, k)]
  BY <1>3, <1>4, <1>6
<1> QED BY <1>8, <1>9, <1>10 DEF text

\* The string at the start of the data.
LEMMA StringIsBytes ==
  ASSUME NEW data, data \in Seq(0 .. 255)
  PROVE  CString(data) \in Seq(0 .. 255)
<1> DEFINE z == {k \in 1 .. Len(data) : data[k] = 0}
           k == CHOOSE k \in z : \A j \in z : k <= j
<1>1. CASE z = {}
  BY <1>1 DEF CString
<1>2. CASE z # {}
  <2>1. z \subseteq Nat
    OBVIOUS
  <2>2. \E i \in z : \A j \in z : i <= j
    BY <1>2, <2>1, Least
  <2>3. k \in z
    BY <2>2, Zenon
  <2>4. CString(data) = SubSeq(data, 1, k - 1)
    BY <1>2 DEF CString
  <2> HIDE DEF k
  <2>5. k - 1 \in Int /\ \A i \in 1 .. k - 1 : i \in 1 .. Len(data)
    BY <2>3
  <2>6. \A i \in 1 .. Len(data) : data[i] \in 0 .. 255
    BY SequenceIsFunction
  <2>7. \A i \in 1 .. k - 1 : data[i] \in 0 .. 255
    BY <2>5, <2>6
  <2>8. SubSeq(data, 1, k - 1) \in Seq(0 .. 255)
    BY <2>5, <2>7, SubSeqProperties, 1 \in Int, Zenon
  <2> QED BY <2>4, <2>8
<1> QED BY <1>1, <1>2

\* Any sequence of bytes is data.
LEMMA SequenceIsBytes ==
  ASSUME NEW data, data \in Seq(0 .. 255)
  PROVE  IsBytes(data)
<1>1. Len(data) \in Nat /\ data \in [1 .. Len(data) -> 0 .. 255]
  BY SequenceIsFunction, LenProperties
<1> QED BY <1>1 DEF IsBytes

\* Whatever data there is, what the server encoded the device decodes without
\* loss (_anedya_base64_decode; the text of no data at all is not passed to it).
THEOREM DecodeInvertsServer ==
  \A data \in Seq(0 .. 255) : data # <<>> => base64_decode(Base64(data)) = data
<1> SUFFICES ASSUME NEW data \in Seq(0 .. 255), data # <<>>
             PROVE  base64_decode(Base64(data)) = data
  OBVIOUS
<1>1. IsBytes(data)
  BY SequenceIsBytes
<1>2. Len(data) # 0
  BY EmptySeq
<1> QED BY <1>1, <1>2, DecodedData, Zenon

\* ... and what the device encodes of the string in its data, the server does
\* (_anedya_base64_encode: the data ends at its first zero byte).
THEOREM ServerInvertsEncode ==
  \A data \in Seq(0 .. 255) : FromBase64(base64_encode(data)) = CString(data)
<1> SUFFICES ASSUME NEW data \in Seq(0 .. 255)
             PROVE  FromBase64(base64_encode(data)) = CString(data)
  OBVIOUS
<1> DEFINE s == CString(data)
<1>1. IsBytes(s)
  BY StringIsBytes, SequenceIsBytes
<1>2. base64_encode(data) = Base64(s)
  BY <1>1, EncodedString
<1>3. FromBase64(Base64(s)) = s
  BY <1>1, EncodedData
<1> QED BY <1>2, <1>3
=============================================================================
