-------------------------------- MODULE Codec --------------------------------
(***************************************************************************)
(* The conversions of the SDK: hexadecimal digits, UUIDs, base64 and the   *)
(* device id.  Characters are their codes, bytes are 0 .. 255, texts and   *)
(* data are sequences of them without the terminator.                      *)
(***************************************************************************)
EXTENDS Integers, Sequences

ZERO == 48     \* '0'
DASH == 45     \* '-'
PAD == 61      \* '='

Digits == ZERO .. 57
UpperHex == 65 .. 70       \* 'A' .. 'F'
LowerHex == 97 .. 102      \* 'a' .. 'f'

Invalid == 255
Unwritten == -1            \* a byte of memory nobody wrote yet

\* A hexadecimal digit; g, h and i pass for digits, too.
unhex_char(s) ==
  CASE s \in Digits -> s - ZERO
    [] s \in UpperHex -> s - 65 + 10
    [] s \in 97 .. 105 -> s - 97 + 10
    [] OTHER -> Invalid

\* The byte unhex makes of two digits, in eight bits.
unhex(h, l) == ((h * 16) % 256) + (l % 16)

\* Where the sixteen bytes and the four dashes of a UUID are (0-based).
ByteAt == <<0, 2, 4, 6, 9, 11, 14, 16, 19, 21, 24, 26, 28, 30, 32, 34>>
DashAt == {8, 13, 18, 23}

At(s, i) == IF i < Len(s) THEN s[i + 1] ELSE 0

\* Byte k of a UUID text can be read: it has two digits, and every dash before
\* it is there.
Legible(in, k) ==
  /\ unhex_char(At(in, ByteAt[k])) # Invalid /\ unhex_char(At(in, ByteAt[k] + 1)) # Invalid
  /\ \A d \in DashAt : d < ByteAt[k] => At(in, d) = DASH

\* _anedya_uuid_parse: bytes are written until one cannot be read; what follows
\* the last digit does not matter.
uuid_parse(in, old) ==
  LET n == CHOOSE m \in 0 .. 16 : /\ \A k \in 1 .. m : Legible(in, k)
                                  /\ m = 16 \/ ~Legible(in, m + 1)
  IN  [ok |-> n = 16,
       uuid |-> [k \in 1 .. 16 |->
                   IF k <= n THEN unhex(unhex_char(At(in, ByteAt[k])),
                                        unhex_char(At(in, ByteAt[k] + 1)))
                   ELSE old[k]]]

\* Two lower case digits, as %02x prints a byte.
HexDigit(d) == IF d < 10 THEN ZERO + d ELSE 97 + d - 10

\* _anedya_uuid_marshal, and the same format in anedya_config_init.
uuid_marshal(uuid) ==
  [i \in 1 .. 36 |->
     IF i - 1 \in DashAt THEN DASH
     ELSE LET k == CHOOSE k \in 1 .. 16 : i - 1 \in {ByteAt[k], ByteAt[k] + 1}
          IN  HexDigit(IF i - 1 = ByteAt[k] THEN uuid[k] \div 16 ELSE uuid[k] % 16)]

\* The macro parsehex, -1 when x is no digit.
parsehex(x) ==
  CASE x \in Digits -> x - ZERO
    [] x \in LowerHex -> 10 + (x - 97)
    [] x \in UpperHex -> 10 + (x - 65)
    [] OTHER -> -1

\* Variant: capital letters are taken for small ones.
parse_device_id_Case(deviceID) ==
  [ok |-> /\ Len(deviceID) = 36
          /\ \A i \in 0 .. 35 : IF i \in DashAt THEN At(deviceID, i) = DASH
                                ELSE parsehex(At(deviceID, i)) # -1,
   devID |-> [k \in 1 .. 16 |->
                (parsehex(At(deviceID, ByteAt[k])) * 16
                   + (At(deviceID, ByteAt[k] + 1) - 87)) % 256]]

\* anedya_parse_device_id: exactly 36 characters, all of them checked first.
parse_device_id(deviceID) ==
  [ok |-> /\ Len(deviceID) = 36
          /\ \A i \in 0 .. 35 : IF i \in DashAt THEN At(deviceID, i) = DASH
                                ELSE parsehex(At(deviceID, i)) # -1,
   devID |-> [k \in 1 .. 16 |->
                (parsehex(At(deviceID, ByteAt[k])) * 16
                   + parsehex(At(deviceID, ByteAt[k] + 1))) % 256]]

\* A string ends at its first zero byte.
CString(data) ==
  LET z == {k \in 1 .. Len(data) : data[k] = 0}
  IN  IF z = {} THEN data
      ELSE SubSeq(data, 1, (CHOOSE k \in z : \A j \in z : k <= j) - 1)

\* The sixty-four digits, and what each stands for; other characters stand for
\* zero.
encoding_table(d) ==
  CASE d < 26 -> 65 + d
    [] d \in 26 .. 51 -> 97 + d - 26
    [] d \in 52 .. 61 -> ZERO + d - 52
    [] d = 62 -> 43
    [] OTHER -> 47

decoding_table(c) ==
  CASE c \in 65 .. 90 -> c - 65
    [] c \in 97 .. 122 -> c - 97 + 26
    [] c \in Digits -> c - ZERO + 52
    [] c = 43 -> 62
    [] c = 47 -> 63
    [] OTHER -> 0

\* Variant: the entries of one and two bytes are swapped.
mod_table_Swapped(r) == <<0, 1, 2>>[r + 1]

mod_table(r) == <<0, 2, 1>>[r + 1]

\* What the digits of a number are worth, of four digits and of three bytes.
Powers64 == <<262144, 4096, 64, 1>>
Powers256 == <<65536, 256, 1>>

\* Three bytes as a number.
OfBytes(x, y, z) == x * Powers256[1] + y * Powers256[2] + z * Powers256[3]
Triple(s, i) == OfBytes(At(s, i), At(s, i + 1), At(s, i + 2))

\* Four digits as a number.
OfDigits(a, b, c, d) == a * Powers64[1] + b * Powers64[2] + c * Powers64[3] + d * Powers64[4]

\* _anedya_base64_encode: the length of the data is that of a string.
base64_encode(data) ==
  LET s == CString(data)
      n == 4 * ((Len(s) + 2) \div 3)
      digit(j) == encoding_table((Triple(s, 3 * (j \div 4)) \div Powers64[(j % 4) + 1]) % 64)
  IN  [j \in 1 .. n |-> IF j > n - mod_table(Len(s) % 3) THEN PAD ELSE digit(j - 1)]

\* _anedya_base64_decode, of a text that is not empty.
base64_decode(encoded) ==
  LET n == Len(encoded)
      pad(i) == IF encoded[i] = PAD THEN 1 ELSE 0
      sextet(i) == IF encoded[i] = PAD THEN 0 ELSE decoding_table(encoded[i])
      triple(q) == OfDigits(sextet(4 * q + 1), sextet(4 * q + 2), sextet(4 * q + 3),
                            sextet(4 * q + 4))
  IN  IF n % 4 # 0 THEN <<>>
      ELSE [j \in 1 .. (n \div 4) * 3 - pad(n) - pad(n - 1) |->
              (triple((j - 1) \div 3) \div Powers256[((j - 1) % 3) + 1]) % 256]

-----------------------------------------------------------------------------
(* Base64 as the server writes and reads it (RFC 4648): the bits of the    *)
(* data, cut into groups of six, and the text filled up to groups of four. *)

Alphabet ==
  [d \in 1 .. 64 |-> IF d <= 26 THEN 64 + d
                     ELSE IF d <= 52 THEN 96 + (d - 26)
                     ELSE IF d <= 62 THEN 47 + (d - 52)
                     ELSE IF d = 63 THEN 43 ELSE 47]

\* Bit k of b, bit 0 the lowest.
Bit(b, k) == (b \div <<1, 2, 4, 8, 16, 32, 64, 128>>[k + 1]) % 2

DataBit(data, i) ==
  IF i <= 8 * Len(data) THEN Bit(data[(i - 1) \div 8 + 1], 7 - ((i - 1) % 8)) ELSE 0

\* Group j of six bits.
Sextet(data, j) ==
  32 * DataBit(data, 6 * j - 5) + 16 * DataBit(data, 6 * j - 4) + 8 * DataBit(data, 6 * j - 3)
    + 4 * DataBit(data, 6 * j - 2) + 2 * DataBit(data, 6 * j - 1) + DataBit(data, 6 * j)

Base64(data) ==
  [j \in 1 .. 4 * ((Len(data) + 2) \div 3) |->
     IF 6 * (j - 1) < 8 * Len(data) THEN Alphabet[Sextet(data, j) + 1] ELSE PAD]

Value(c) == (CHOOSE d \in 1 .. 64 : Alphabet[d] = c) - 1
TextBit(text, i) == Bit(Value(text[(i - 1) \div 6 + 1]), 5 - ((i - 1) % 6))

\* Byte k of the data a text stands for.
Octet(text, k) ==
  128 * TextBit(text, 8 * k - 7) + 64 * TextBit(text, 8 * k - 6) + 32 * TextBit(text, 8 * k - 5)
    + 16 * TextBit(text, 8 * k - 4) + 8 * TextBit(text, 8 * k - 3) + 4 * TextBit(text, 8 * k - 2)
    + 2 * TextBit(text, 8 * k - 1) + TextBit(text, 8 * k)

FromBase64(text) ==
  LET digits == CHOOSE d \in 0 .. Len(text) : \A i \in 1 .. Len(text) : text[i] = PAD <=> i > d
  IN  [k \in 1 .. (6 * digits) \div 8 |-> Octet(text, k)]

\* A UUID text, by its definition: where its digits and dashes are, ...
HexDigits == Digits \cup UpperHex \cup LowerHex
IsId(text) ==
  /\ Len(text) = 36
  /\ \A i \in 1 .. 36 : IF i - 1 \in DashAt THEN text[i] = DASH ELSE text[i] \in HexDigits

LowerCase(text) ==
  [i \in DOMAIN text |-> IF text[i] \in UpperHex THEN text[i] + 32 ELSE text[i]]

\* ... and what its bytes are.
SameId(text, uuid) ==
  /\ Len(text) = 36
  /\ \A k \in 1 .. 16 :
       /\ text[ByteAt[k] + 1] \in HexDigits /\ text[ByteAt[k] + 2] \in HexDigits
       /\ uuid[k] = 16 * parsehex(text[ByteAt[k] + 1]) + parsehex(text[ByteAt[k] + 2])

=============================================================================
