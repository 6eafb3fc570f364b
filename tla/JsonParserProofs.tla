-------------------------- MODULE JsonParserProofs --------------------------
(***************************************************************************)
(* Theorems about the parser, for every text, well-formed or not, every    *)
(* size of the pool and every number of characters that arrived.  The      *)
(* functions that read a value come first: each leaves a text of the same  *)
(* length, ends further on and writes only between the two positions       *)
(* (Reads), and passes over as many brackets that open as brackets that    *)
(* close (Skips).  Then the turns of the loop (Turn), the links of the     *)
(* nodes (Forest), the invariant that joins them, how deep the text is     *)
(* nested where the parser is (NestInv), and the theorems.                 *)
(***************************************************************************)
EXTENDS JsonParser, FiniteSetTheorems, SequenceTheorems, WellFoundedInduction, TLAPS

\* A text of n characters and its terminator.
Ended(s, n) == s \in Seq(Bytes) /\ Len(s) = n + 1 /\ s[n + 1] = NUL

\* Outside of p .. q - 1 the two texts agree.
Agree(s, t, n, p, q) == \A k \in 1 .. n + 1 : k < p \/ k >= q => t[k] = s[k]

\* What a function that reads a value from p on gives back: if there is one, the
\* text is as long as before and was changed between p and the new position only.
Reads(r, s, n, p) ==
  /\ r.ok \in BOOLEAN
  /\ r.ok => /\ Ended(r.str, n) /\ r.ptr \in p + 1 .. n + 1
             /\ Agree(s, r.str, n, p, r.ptr) /\ r.type \in Types

\* A set of numbers that is not empty has a least one.
LEMMA Least ==
  \A S \in SUBSET Nat : S # {} => \E m \in S : \A j \in S : m <= j
<1> SUFFICES ASSUME NEW S \in SUBSET Nat, S # {}
             PROVE  \E m \in S : \A j \in S : m <= j
  OBVIOUS
<1> DEFINE less == {ss \in Nat \X Nat : ss[1] < ss[2]}
<1>1. IsWellFoundedOn(less, Nat)
  BY NatLessThanWellFounded DEF OpToRel
<1>2. \A j, m \in Nat : j < m => <<j, m>> \in less
  OBVIOUS
<1>3. PICK m \in S : \A j \in S : <<j, m>> \notin less
  BY <1>1, WFMin
<1> HIDE DEF less
<1>4. m \in Nat /\ \A j \in S : j \in Nat
  OBVIOUS
<1>5. ASSUME NEW j \in S
      PROVE  m <= j
  <2>1. j \in Nat /\ ~(j < m)
    BY <1>2, <1>3, <1>4
  <2> QED BY <2>1, <1>4
<1> QED BY <1>5

\* The characters of a text.
LEMMA EndedMeans ==
  ASSUME NEW n \in Nat, NEW s, Ended(s, n)
  PROVE  /\ Len(s) = n + 1 /\ s[n + 1] = NUL
         /\ \A k \in 1 .. n + 1 : s[k] \in Bytes
         /\ s \in [1 .. n + 1 -> Bytes]
BY LenProperties DEF Ended

LEMMA EndedIs ==
  ASSUME NEW n \in Nat, NEW s \in [1 .. n + 1 -> Bytes], s[n + 1] = NUL
  PROVE  Ended(s, n)
<1>1. s \in Seq(Bytes)
  OBVIOUS
<1>2. DOMAIN s = 1 .. Len(s) /\ DOMAIN s = 1 .. n + 1 /\ Len(s) \in Nat
  BY <1>1, LenProperties
<1>3. Len(s) = n + 1
  BY <1>2
<1> QED BY <1>1, <1>3 DEF Ended

\* A run of blanks or digits ends at the terminator at the latest.
LEMMA WhileStops ==
  ASSUME NEW n \in Nat, NEW s, Ended(s, n), NEW p \in 1 .. n + 1, NEW set, NUL \notin set
  PROVE  \E k \in p .. n + 1 :
           /\ goWhile(s, p, set) = IF s[k] = NUL THEN 0 ELSE k
           /\ s[k] \notin set /\ (\A j \in p .. k - 1 : s[j] \in set)
           /\ k = n + 1 => s[k] = NUL
<1> DEFINE P(i) == s[i] \notin set /\ \A j \in p .. i - 1 : s[j] \in set
           S == {i \in p .. n + 1 : s[i] \notin set}
           k == CHOOSE i \in p .. n + 1 : P(i)
<1>1. Len(s) = n + 1 /\ s[n + 1] = NUL
  BY EndedMeans
<1>2. S \in SUBSET Nat /\ S # {}
  <2>1. n + 1 \in S
    BY <1>1
  <2>2. S \in SUBSET Nat
    OBVIOUS
  <2> QED BY <2>1, <2>2
<1>3. PICK m \in S : \A j \in S : m <= j
  <2> HIDE DEF S
  <2> QED BY <1>2, Least
<1>4. m \in p .. n + 1 /\ P(m)
  <2>1. m \in p .. n + 1 /\ s[m] \notin set
    BY <1>3
  <2>2. ASSUME NEW j \in p .. m - 1 PROVE s[j] \in set
    <3>1. j \in p .. n + 1 /\ ~(m <= j)
      BY <2>1
    <3> QED BY <1>3, <3>1
  <2> QED BY <2>1, <2>2
<1>5. \E i \in p .. n + 1 : P(i)
  BY <1>4
<1>6. k \in p .. n + 1 /\ P(k)
  <2> HIDE DEF P
  <2> QED BY <1>5
<1>7. goWhile(s, p, set) = IF s[k] = NUL THEN 0 ELSE k
  BY <1>1 DEF goWhile
<1> HIDE DEF k
<1> QED BY <1>1, <1>6, <1>7

LEMMA GoWhile ==
  ASSUME NEW n \in Nat, NEW s, Ended(s, n), NEW p \in 1 .. n + 1, NEW set, NUL \notin set
  PROVE  /\ goWhile(s, p, set) \in {0} \cup p .. n
         /\ goWhile(s, p, set) # 0 =>
              s[goWhile(s, p, set)] # NUL /\ s[goWhile(s, p, set)] \notin set
<1>1. PICK k \in p .. n + 1 :
        /\ goWhile(s, p, set) = IF s[k] = NUL THEN 0 ELSE k
        /\ s[k] \notin set
        /\ k = n + 1 => s[k] = NUL
  BY WhileStops
<1>2. s[k] # NUL => k \in p .. n
  BY <1>1
<1> QED BY <1>1, <1>2

\* Characters the parser looks for are not the terminator.
LEMMA Punctuation ==
  /\ NUL \notin Blank /\ NUL \notin Digit /\ NUL # QUOTE /\ NUL # BACKSLASH
  /\ NUL \notin Hex /\ NUL \notin Escaped
  /\ \A c : isEndOfPrimitive(c) => c # NUL
  /\ NUL \in Bytes /\ "?" \in Bytes
  /\ \A c \in Escaped : getEscape(c) \in Bytes
<1>1. NUL \notin Blank /\ NUL \notin Digit /\ NUL # QUOTE /\ NUL # BACKSLASH
  BY DEF NUL, Blank, Digit, QUOTE, BACKSLASH
<1>2. NUL \notin Hex /\ NUL \notin Escaped
  BY DEF NUL, Hex, Digit, Escaped, QUOTE, BACKSLASH
<1>3. \A c : isEndOfPrimitive(c) => c # NUL
  BY DEF isEndOfPrimitive, NUL, Blank
<1>4. NUL \in Bytes /\ "?" \in Bytes
  BY DEF Bytes
<1>5. \A c \in Escaped : getEscape(c) \in Bytes
  <2> SUFFICES ASSUME NEW c \in Escaped PROVE getEscape(c) \in Codes
    BY DEF Bytes
  <2> QED BY DEF Escaped, getEscape, Codes, QUOTE, BACKSLASH
<1> QED BY <1>1, <1>2, <1>3, <1>4, <1>5

\* The end of a primitive value, which nothing but its end character is lost to.
LEMMA EndOfPrimitive ==
  ASSUME NEW n \in Nat, NEW s, Ended(s, n), NEW p \in 1 .. n + 1,
         NEW q \in {0} \cup p + 1 .. n + 1, NEW type \in Types
  PROVE  Reads(EndPrimitive(s, q, type), s, n, p)
<1> DEFINE r == EndPrimitive(s, q, type)
<1>1. CASE q = 0 \/ ~isEndOfPrimitive(s[q])
  <2>1. r = Failed(s)
    BY <1>1 DEF EndPrimitive
  <2>2. r.ok = FALSE
    BY <2>1 DEF Failed
  <2> HIDE DEF r
  <2>3. Reads(r, s, n, p)
    BY <2>2 DEF Reads
  <2> QED BY <2>3 DEF r
<1>2. CASE q # 0 /\ isEndOfPrimitive(s[q])
  <2>1. q \in p + 1 .. n
    <3>1. s[q] # NUL /\ s[n + 1] = NUL
      BY <1>2, Punctuation, EndedMeans
    <3>2. q # n + 1
      BY <3>1
    <3> QED BY <1>2, <3>2
  <2>2. CASE s[q] \in {"}", "]"}
    <3>1. r = [ok |-> TRUE, type |-> type, str |-> s, ptr |-> q]
      BY <1>2, <2>2 DEF EndPrimitive
    <3>2. r.ok = TRUE /\ r.str = s /\ r.ptr = q /\ r.type = type
      BY <3>1
    <3> HIDE DEF r
    <3>3. Agree(s, r.str, n, p, r.ptr)
      BY <3>2 DEF Agree
    <3>4. r.ptr \in p + 1 .. n + 1
      BY <2>1, <3>2
    <3>5. Reads(r, s, n, p)
      BY <3>2, <3>3, <3>4 DEF Reads
    <3> QED BY <3>5 DEF r
  <2>3. CASE s[q] \notin {"}", "]"}
    <3> DEFINE t == [s EXCEPT ![q] = NUL]
    <3>1. r = [ok |-> TRUE, type |-> type, str |-> t, ptr |-> q + 1]
      BY <1>2, <2>3 DEF EndPrimitive
    <3>2. r.ok = TRUE /\ r.str = t /\ r.ptr = q + 1 /\ r.type = type
      BY <3>1
    <3>3. t \in [1 .. n + 1 -> Bytes] /\ t[n + 1] = NUL
          /\ \A k \in 1 .. n + 1 : k # q => t[k] = s[k]
      <4>1. s \in [1 .. n + 1 -> Bytes] /\ NUL \in Bytes /\ s[n + 1] = NUL
        BY EndedMeans, Punctuation
      <4>2. n + 1 # q /\ n + 1 \in 1 .. n + 1
        BY <2>1
      <4> QED BY <4>1, <4>2
    <3> HIDE DEF r, t
    <3>4. Ended(t, n)
      BY <3>3, EndedIs
    <3>5. Agree(s, t, n, p, q + 1)
      <4>1. \A k \in 1 .. n + 1 : k < p \/ k >= q + 1 => k # q
        BY <2>1
      <4> QED BY <3>3, <4>1 DEF Agree
    <3>6. r.ptr \in p + 1 .. n + 1
      BY <2>1, <3>2
    <3>7. Reads(r, s, n, p)
      BY <3>2, <3>4, <3>5, <3>6 DEF Reads
    <3> QED BY <3>7 DEF r
  <2> QED BY <2>2, <2>3
<1> QED BY <1>1, <1>2

-----------------------------------------------------------------------------
(* parseString, whose recursion goes from the end of the text to its start. *)

\* One turn of it, when f gives the pieces that begin later.
BadPiece == [ok |-> FALSE, chars |-> <<>>, end |-> 0]
More(c, rest) == [ok |-> rest.ok, chars |-> <<c>> \o rest.chars, end |-> rest.end]
Piece(s, f, h) ==
  IF h >= Len(s) THEN BadPiece
  ELSE IF s[h] = QUOTE THEN [ok |-> TRUE, chars |-> <<>>, end |-> h + 1]
  ELSE IF s[h] # BACKSLASH THEN More(s[h], f[h + 1])
  ELSE IF s[h + 1] = "u"
    THEN IF \A k \in h + 2 .. h + 5 : k < Len(s) /\ s[k] \in Hex
           THEN More("?", f[h + 6]) ELSE BadPiece
  ELSE IF s[h + 1] \in Escaped THEN More(getEscape(s[h + 1]), f[h + 2])
  ELSE BadPiece

\* f gives the pieces that begin at m or later.
Pieces(f, s, n, m) ==
  f = [h \in m .. n + 7 |-> f[h]] /\ \A h \in m .. n + 7 : f[h] = Piece(s, f, h)

\* What a piece that begins at h may be: never more than was read.
Fair(r, n, h) ==
  /\ r.ok \in BOOLEAN /\ r.chars \in Seq(Bytes)
  /\ r.ok => r.end \in h + 1 .. n + 1 /\ Len(r.chars) <= r.end - h - 1

\* A turn looks at later pieces only.
LEMMA PieceLooksAhead ==
  ASSUME NEW n \in Nat, NEW s, Len(s) = n + 1, NEW h \in Nat, NEW f, NEW g,
         \A i \in h + 1 .. n + 7 : f[i] = g[i]
  PROVE  Piece(s, f, h) = Piece(s, g, h)
<1>1. CASE h >= Len(s)
  BY <1>1 DEF Piece
<1>2. CASE ~(h >= Len(s))
  <2>1. h + 1 \in h + 1 .. n + 7 /\ h + 2 \in h + 1 .. n + 7 /\ h + 6 \in h + 1 .. n + 7
    BY <1>2
  <2>2. f[h + 1] = g[h + 1] /\ f[h + 2] = g[h + 2] /\ f[h + 6] = g[h + 6]
    BY <2>1
  <2> QED BY <2>2 DEF Piece
<1> QED BY <1>1, <1>2

\* Such a function exists.
LEMMA PiecesExist ==
  ASSUME NEW n \in Nat, NEW s, Len(s) = n + 1, NEW p \in 1 .. n + 7
  PROVE  \E f : Pieces(f, s, n, p)
<1> DEFINE S == {i \in 0 .. n + 7 : p <= n + 7 - i /\ ~\E f : Pieces(f, s, n, n + 7 - i)}
<1>1. S = {}
  <2> SUFFICES ASSUME S # {} PROVE FALSE
    OBVIOUS
  <2>1. S \in SUBSET Nat
    <3>1. S \subseteq 0 .. n + 7
      OBVIOUS
    <3> HIDE DEF S
    <3> QED BY <3>1
  <2>2. PICK i \in S : \A j \in S : i <= j
    <3> HIDE DEF S
    <3> QED BY <2>1, Least
  <2>3. i \in 0 .. n + 7 /\ p <= n + 7 - i /\ ~\E f : Pieces(f, s, n, n + 7 - i)
    BY <2>2
  <2> DEFINE m == n + 7 - i
  <2>4. m \in Nat /\ m <= n + 7 /\ m >= p
    BY <2>3
  <2>5. \E f : \A h \in m + 1 .. n + 7 : f[h] = Piece(s, f, h)
    <3>1. CASE i = 0
      <4>1. m + 1 .. n + 7 = {}
        BY <2>3, <3>1
      <4> QED BY <4>1
    <3>2. CASE i # 0
      <4>1. i - 1 \in 0 .. n + 7 /\ n + 7 - (i - 1) = m + 1 /\ p <= m + 1 /\ ~(i <= i - 1)
        BY <2>3, <3>2
      <4>2. i - 1 \notin S
        BY <2>2, <4>1
      <4>3. \E f : Pieces(f, s, n, m + 1)
        BY <4>1, <4>2
      <4> QED BY <4>3 DEF Pieces
    <3> QED BY <3>1, <3>2
  <2>6. PICK f : \A h \in m + 1 .. n + 7 : f[h] = Piece(s, f, h)
    BY <2>5
  <2>7. m = n + 7 - i
    OBVIOUS
  <2> DEFINE x == Piece(s, f, m)
             g == [h \in m .. n + 7 |-> IF h = m THEN x ELSE f[h]]
  <2>11. x = Piece(s, f, m)
    OBVIOUS
  <2> HIDE DEF m, x
  <2>8. g = [h \in m .. n + 7 |-> g[h]] /\ g[m] = x /\ \A h \in m + 1 .. n + 7 : g[h] = f[h]
    BY <2>4
  <2> HIDE DEF g
  <2>9. ASSUME NEW h \in m .. n + 7 PROVE g[h] = Piece(s, g, h)
    <3>1. h \in Nat /\ \A j \in h + 1 .. n + 7 : j \in m + 1 .. n + 7
      BY <2>4
    <3>2. \A j \in h + 1 .. n + 7 : f[j] = g[j]
      BY <2>8, <3>1
    <3>3. Piece(s, f, h) = Piece(s, g, h)
      BY <3>1, <3>2, PieceLooksAhead
    <3>4. g[h] = Piece(s, f, h)
      <4>1. CASE h = m
        BY <2>8, <2>11, <4>1
      <4>2. CASE h # m
        <5>1. h \in m + 1 .. n + 7
          BY <2>4, <4>2
        <5> QED BY <2>6, <2>8, <5>1
      <4> QED BY <4>1, <4>2
    <3> QED BY <3>3, <3>4
  <2>10. Pieces(g, s, n, m)
    BY <2>8, <2>9 DEF Pieces
  <2> QED BY <2>3, <2>7, <2>10
<1>2. n + 7 - p \in 0 .. n + 7 /\ n + 7 - (n + 7 - p) = p /\ p <= p
  OBVIOUS
<1>3. n + 7 - p \notin S
  BY <1>1
<1> QED BY <1>2, <1>3

\* A turn keeps to what was read.
LEMMA PieceFair ==
  ASSUME NEW n \in Nat, NEW s, Ended(s, n), NEW h \in 1 .. n + 7, NEW f,
         \A i \in h + 1 .. n + 7 : Fair(f[i], n, i)
  PROVE  Fair(Piece(s, f, h), n, h)
<1>1. Len(s) = n + 1 /\ s[n + 1] = NUL /\ \A k \in 1 .. n + 1 : s[k] \in Bytes
  BY EndedMeans
<1>2. Fair(BadPiece, n, h)
  BY DEF Fair, BadPiece
<1>3. ASSUME NEW c \in Bytes, NEW i \in h + 1 .. n + 7
      PROVE  Fair(More(c, f[i]), n, h)
  <2> DEFINE r == f[i]
             cs == <<c>> \o r.chars
  <2>1. Fair(r, n, i)
    OBVIOUS
  <2>2. r.ok \in BOOLEAN /\ r.chars \in Seq(Bytes)
    BY <2>1 DEF Fair
  <2>3. cs \in Seq(Bytes) /\ Len(cs) = 1 + Len(r.chars) /\ Len(r.chars) \in Nat
    <3>1. <<c>> \in Seq(Bytes) /\ Len(<<c>>) = 1
      OBVIOUS
    <3> QED BY <2>2, <3>1, ConcatProperties, LenProperties
  <2>4. More(c, r) = [ok |-> r.ok, chars |-> cs, end |-> r.end]
    BY DEF More
  <2>5. r.ok => r.end \in i + 1 .. n + 1 /\ Len(r.chars) <= r.end - i - 1
    BY <2>1 DEF Fair
  <2>6. More(c, r).ok = r.ok /\ More(c, r).chars = cs /\ More(c, r).end = r.end
    BY <2>4
  <2> HIDE DEF cs, r
  <2>7. r.ok => r.end \in h + 1 .. n + 1 /\ Len(cs) <= r.end - h - 1
    <3>1. Len(cs) = 1 + Len(r.chars) /\ Len(r.chars) \in Nat
      BY <2>3
    <3> DEFINE e == r.end
               k == Len(r.chars)
               m == Len(cs)
    <3>2. r.ok => e \in i + 1 .. n + 1 /\ k <= e - i - 1
      BY <2>5
    <3>3. m = 1 + k /\ k \in Nat
      BY <3>1
    <3> HIDE DEF e, k, m
    <3>4. r.ok => e \in h + 1 .. n + 1 /\ m <= e - h - 1
      BY <3>2, <3>3
    <3> QED BY <3>4 DEF e, m
  <2>8. Fair(More(c, r), n, h)
    BY <2>2, <2>3, <2>6, <2>7 DEF Fair
  <2> QED BY <2>8 DEF r
<1>4. CASE h >= Len(s)
  BY <1>2, <1>4 DEF Piece
<1>5. CASE ~(h >= Len(s))
  <2>1. h \in 1 .. n /\ h + 1 \in 1 .. n + 1 /\ h + 1 \in h + 1 .. n + 7
        /\ h + 2 \in h + 1 .. n + 7 /\ h + 6 \in h + 1 .. n + 7
    BY <1>1, <1>5
  <2>2. s[h] \in Bytes /\ "?" \in Bytes
    BY <1>1, <2>1, Punctuation
  <2>3. Fair([ok |-> TRUE, chars |-> <<>>, end |-> h + 1], n, h)
    <3> DEFINE r == [ok |-> TRUE, chars |-> <<>>, end |-> h + 1]
    <3>1. r.ok = TRUE /\ r.chars = <<>> /\ r.end = h + 1
      OBVIOUS
    <3>2. <<>> \in Seq(Bytes) /\ Len(<<>>) = 0
      OBVIOUS
    <3> HIDE DEF r
    <3>3. r.end \in h + 1 .. n + 1 /\ r.end - h - 1 = 0
      BY <2>1, <3>1
    <3>4. Len(r.chars) <= r.end - h - 1
      BY <3>1, <3>2, <3>3
    <3>5. Fair(r, n, h)
      BY <3>1, <3>2, <3>3, <3>4 DEF Fair
    <3> QED BY <3>5 DEF r
  <2>4. Fair(More(s[h], f[h + 1]), n, h)
    BY <1>3, <2>1, <2>2
  <2>5. Fair(More("?", f[h + 6]), n, h)
    BY <1>3, <2>1, <2>2
  <2>6. s[h + 1] \in Escaped => Fair(More(getEscape(s[h + 1]), f[h + 2]), n, h)
    BY <1>3, <2>1, Punctuation
  <2> QED BY <1>2, <1>5, <2>3, <2>4, <2>5, <2>6 DEF Piece
<1> QED BY <1>4, <1>5

\* So does every piece.
LEMMA PiecesFair ==
  ASSUME NEW n \in Nat, NEW s, Ended(s, n), NEW p \in 1 .. n + 7, NEW f,
         Pieces(f, s, n, p)
  PROVE  \A h \in p .. n + 7 : Fair(f[h], n, h)
<1> DEFINE S == {i \in 0 .. n + 7 : p <= n + 7 - i /\ ~Fair(f[n + 7 - i], n, n + 7 - i)}
<1>1. S = {}
  <2> SUFFICES ASSUME S # {} PROVE FALSE
    OBVIOUS
  <2>1. S \in SUBSET Nat
    <3>1. S \subseteq 0 .. n + 7
      OBVIOUS
    <3> HIDE DEF S
    <3> QED BY <3>1
  <2>2. PICK i \in S : \A j \in S : i <= j
    <3> HIDE DEF S
    <3> QED BY <2>1, Least
  <2>3. i \in 0 .. n + 7 /\ p <= n + 7 - i /\ ~Fair(f[n + 7 - i], n, n + 7 - i)
    BY <2>2
  <2> DEFINE m == n + 7 - i
  <2>4. m \in 1 .. n + 7 /\ m \in p .. n + 7 /\ m = n + 7 - i
    BY <2>3
  <2>5. ASSUME NEW k \in m + 1 .. n + 7 PROVE Fair(f[k], n, k)
    <3>1. n + 7 - k \in 0 .. n + 7 /\ p <= n + 7 - (n + 7 - k) /\ ~(i <= n + 7 - k)
          /\ n + 7 - (n + 7 - k) = k
      BY <2>3, <2>4
    <3>2. n + 7 - k \notin S
      BY <2>2, <3>1
    <3> QED BY <3>1, <3>2
  <2>6. f[m] = Piece(s, f, m)
    BY <2>4 DEF Pieces
  <2> HIDE DEF m
  <2>7. Fair(f[m], n, m)
    BY <2>4, <2>5, <2>6, PieceFair
  <2> QED BY <2>3, <2>4, <2>7
<1>2. ASSUME NEW h \in p .. n + 7 PROVE Fair(f[h], n, h)
  <2>1. n + 7 - h \in 0 .. n + 7 /\ p <= n + 7 - (n + 7 - h) /\ n + 7 - (n + 7 - h) = h
    OBVIOUS
  <2>2. n + 7 - h \notin S
    BY <1>1
  <2> QED BY <2>1, <2>2
<1> QED BY <1>2

\* parseString gives such a piece.
LEMMA ParsedPieces ==
  ASSUME NEW n \in Nat, NEW s, Ended(s, n), NEW p \in 1 .. n + 1
  PROVE  \E f : Pieces(f, s, n, p) /\ parseString(s, p) = f[p]
<1> DEFINE at[h \in p .. Len(s) + 6] ==
             IF h >= Len(s) THEN BadPiece
             ELSE IF s[h] = QUOTE THEN [ok |-> TRUE, chars |-> <<>>, end |-> h + 1]
             ELSE IF s[h] # BACKSLASH THEN More(s[h], at[h + 1])
             ELSE IF s[h + 1] = "u"
               THEN IF \A k \in h + 2 .. h + 5 : k < Len(s) /\ s[k] \in Hex
                      THEN More("?", at[h + 6]) ELSE BadPiece
             ELSE IF s[h + 1] \in Escaped THEN More(getEscape(s[h + 1]), at[h + 2])
             ELSE BadPiece
           Eq(f) == f = [h \in p .. Len(s) + 6 |-> Piece(s, f, h)]
<1>1. Len(s) = n + 1 /\ Len(s) + 6 = n + 7
  BY EndedMeans
<1>2. parseString(s, p) = at[p]
  BY DEF parseString, BadPiece, More
<1>3. at = CHOOSE f : Eq(f)
  BY DEF Piece
<1>4. ASSUME NEW f PROVE Eq(f) <=> Pieces(f, s, n, p)
  <2>1. Eq(f) <=> f = [h \in p .. n + 7 |-> Piece(s, f, h)]
    BY <1>1
  <2>2. f = [h \in p .. n + 7 |-> Piece(s, f, h)] <=> Pieces(f, s, n, p)
    BY DEF Pieces
  <2> QED BY <2>1, <2>2
<1> HIDE DEF at
<1>5. Eq(at)
  <2>1. p \in 1 .. n + 7
    OBVIOUS
  <2>2. \E f : Eq(f)
    BY <1>1, <1>4, <2>1, PiecesExist
  <2> HIDE DEF Eq
  <2> QED BY <1>3, <2>2
<1>6. Pieces(at, s, n, p)
  BY <1>4, <1>5
<1> QED BY <1>2, <1>6

\* What it gives back.
LEMMA ParsedString ==
  ASSUME NEW n \in Nat, NEW s, Ended(s, n), NEW p \in 1 .. n + 1
  PROVE  Fair(parseString(s, p), n, p)
<1>1. PICK f : Pieces(f, s, n, p) /\ parseString(s, p) = f[p]
  BY ParsedPieces
<1>2. p \in 1 .. n + 7 /\ p \in p .. n + 7
  OBVIOUS
<1>3. Fair(f[p], n, p)
  BY <1>1, <1>2, PiecesFair
<1> QED BY <1>1, <1>3

-----------------------------------------------------------------------------
(* The functions that read values.                                         *)

\* Failing reads nothing.
LEMMA FailedReads ==
  ASSUME NEW n, NEW s, NEW p
  PROVE  Reads(Failed(s), s, n, p) /\ Failed(s).ok = FALSE
<1>1. Failed(s).ok = FALSE
  BY DEF Failed
<1> QED BY <1>1 DEF Reads

\* A text of n characters overwritten from behind p on with the m characters of
\* c and with z.
Overwrite(s, n, p, c, m, z) == SubSeq(s, 1, p) \o Append(c, z) \o SubSeq(s, p + m + 2, n)
HasOver(t, s, n, p, c, m, z) ==
  /\ Len(t) = n
  /\ \A k \in 1 .. n : t[k] = IF k \in p + 1 .. p + m THEN c[k - p]
                              ELSE IF k = p + m + 1 THEN z ELSE s[k]

LEMMA Overwritten ==
  ASSUME NEW S, NEW n \in Nat, NEW s \in Seq(S), Len(s) = n, NEW c \in Seq(S), NEW m \in Nat,
         Len(c) = m, NEW z \in S, NEW p \in 1 .. n, p + m + 1 <= n
  PROVE  /\ Overwrite(s, n, p, c, m, z) \in Seq(S)
         /\ HasOver(Overwrite(s, n, p, c, m, z), s, n, p, c, m, z)
<1> DEFINE t == Overwrite(s, n, p, c, m, z)
           u == SubSeq(s, 1, p)
           v == Append(c, z)
           w == SubSeq(s, p + m + 2, n)
           x == u \o v
<1>1. u \in Seq(S) /\ Len(u) = p /\ \A i \in 1 .. p : u[i] = s[i]
  <2>1. \A i \in 1 .. p : s[i] \in S
    BY ElementOfSeq
  <2>2. 1 \in Int /\ p \in Int /\ 1 <= p /\ p - 1 + 1 = p
    OBVIOUS
  <2>3. u \in Seq(S) /\ Len(u) = p
    BY <2>1, <2>2, SubSeqProperties
  <2>4. \A i \in 1 .. p - 1 + 1 : u[i] = s[1 + i - 1]
    BY <2>1, <2>2, SubSeqProperties
  <2>5. \A i \in 1 .. p : 1 + i - 1 = i
    OBVIOUS
  <2> QED BY <2>2, <2>3, <2>4, <2>5
<1>2. v \in Seq(S) /\ Len(v) = m + 1 /\ v[m + 1] = z /\ \A i \in 1 .. m : v[i] = c[i]
  BY AppendProperties
<1>3. w \in Seq(S) /\ Len(w) = n - p - m - 1
      /\ \A i \in 1 .. n - p - m - 1 : w[i] = s[p + m + 1 + i]
  <2> DEFINE a == p + m + 2
  <2>1. a \in Int /\ n \in Int /\ n - a + 1 = n - p - m - 1 /\ a <= n + 1
    OBVIOUS
  <2>2. \A i \in a .. n : s[i] \in S
    <3>1. \A i \in a .. n : i \in 1 .. n
      OBVIOUS
    <3> HIDE DEF a
    <3> QED BY <3>1, ElementOfSeq
  <2>3. \A i \in 1 .. n - p - m - 1 : a + i - 1 = p + m + 1 + i
    OBVIOUS
  <2>4. w = SubSeq(s, a, n)
    OBVIOUS
  <2> HIDE DEF a, w
  <2>5. w \in Seq(S)
    BY <2>1, <2>2, <2>4, SubSeqProperties
  <2>6. Len(w) = IF a <= n THEN n - a + 1 ELSE 0
    BY <2>1, <2>2, <2>4, SubSeqProperties
  <2>7. \A i \in 1 .. n - a + 1 : w[i] = s[a + i - 1]
    BY <2>1, <2>2, <2>4, SubSeqProperties
  <2>8. Len(w) = n - p - m - 1
    BY <2>1, <2>6
  <2> QED BY <2>1, <2>3, <2>5, <2>7, <2>8
<1>4. t = x \o w
  BY DEF Overwrite
<1> HIDE DEF t, u, v, w
<1>5. x \in Seq(S) /\ Len(x) = p + (m + 1)
      /\ \A i \in 1 .. p + (m + 1) : x[i] = IF i <= p THEN u[i] ELSE v[i - p]
  <2>1. u \in Seq(S) /\ v \in Seq(S) /\ Len(u) = p /\ Len(v) = m + 1
    BY <1>1, <1>2
  <2>2. x \in Seq(S) /\ Len(x) = Len(u) + Len(v)
    BY <2>1, ConcatProperties
  <2>3. \A i \in 1 .. Len(u) + Len(v) : x[i] = IF i <= Len(u) THEN u[i] ELSE v[i - Len(u)]
    BY <2>1, ConcatProperties
  <2> HIDE DEF x
  <2> QED BY <2>1, <2>2, <2>3
<1> HIDE DEF x
<1> DEFINE l == p + (m + 1)
           r == n - p - m - 1
<1>6. t \in Seq(S) /\ Len(t) = l + r
      /\ \A i \in 1 .. l + r : t[i] = IF i <= l THEN x[i] ELSE w[i - l]
  <2> HIDE DEF l, r
  <2>1. Len(x) = l /\ Len(w) = r
    BY <1>3, <1>5 DEF l, r
  <2>2. x \in Seq(S) /\ w \in Seq(S)
    BY <1>3, <1>5
  <2>3. x \o w \in Seq(S) /\ Len(x \o w) = Len(x) + Len(w)
    BY <2>2, ConcatProperties
  <2>4. \A i \in 1 .. Len(x) + Len(w) : (x \o w)[i] = IF i <= Len(x) THEN x[i] ELSE w[i - Len(x)]
    BY <2>2, ConcatProperties
  <2> QED BY <1>4, <2>1, <2>3, <2>4
<1>7. l + r = n
  OBVIOUS
<1>8. ASSUME NEW k \in 1 .. n
      PROVE  t[k] = IF k \in p + 1 .. p + m THEN c[k - p]
                    ELSE IF k = p + m + 1 THEN z ELSE s[k]
  <2>1. CASE k <= p
    <3>1. k \in 1 .. p /\ k \in 1 .. p + (m + 1) /\ k \in 1 .. l + r /\ k <= l
          /\ k \notin p + 1 .. p + m /\ k # p + m + 1
      BY <2>1
    <3>2. t[k] = s[k]
      BY <1>1, <1>5, <1>6, <2>1, <3>1
    <3> QED BY <3>1, <3>2
  <2>2. CASE k \in p + 1 .. p + m + 1
    <3>1. k \in 1 .. p + (m + 1) /\ k \in 1 .. l + r /\ k <= l /\ ~(k <= p)
      BY <2>2
    <3>2. t[k] = v[k - p]
      BY <1>5, <1>6, <3>1
    <3>3. k \in p + 1 .. p + m => k - p \in 1 .. m
      OBVIOUS
    <3>4. k \notin p + 1 .. p + m => k = p + m + 1 /\ k - p = m + 1
      BY <2>2
    <3> QED BY <1>2, <3>2, <3>3, <3>4
  <2>3. CASE k > p + m + 1
    <3>1. k \in 1 .. l + r /\ ~(k <= l) /\ k - l \in 1 .. n - p - m - 1
          /\ p + m + 1 + (k - l) = k
      BY <2>3
    <3>2. t[k] = w[k - l]
      BY <1>6, <3>1
    <3> HIDE DEF l, r
    <3>3. w[k - l] = s[k]
      BY <1>3, <3>1
    <3>4. k \notin p + 1 .. p + m /\ k # p + m + 1
      BY <2>3
    <3> QED BY <3>2, <3>3, <3>4
  <2> QED BY <2>1, <2>2, <2>3
<1> QED BY <1>6, <1>7, <1>8 DEF t, HasOver

\* A string with the quote before it, put back in place.
LEMMA StringReads ==
  ASSUME NEW n \in Nat, NEW s, Ended(s, n), NEW p \in 1 .. n
  PROVE  Reads(StringAt(s, p), s, n, p)
<1> DEFINE r == parseString(s, p + 1)
           m == Len(r.chars)
           t == SubSeq(s, 1, p) \o Append(r.chars, NUL) \o SubSeq(s, p + m + 2, Len(s))
<1>1. Fair(r, n, p + 1)
  <2>1. p + 1 \in 1 .. n + 1
    OBVIOUS
  <2> QED BY <2>1, ParsedString
<1>2. Len(s) = n + 1 /\ s[n + 1] = NUL /\ (\A k \in 1 .. n + 1 : s[k] \in Bytes) /\ NUL \in Bytes
  BY EndedMeans, Punctuation
<1>3. StringAt(s, p) = IF ~r.ok THEN Failed(s)
                       ELSE [ok |-> TRUE, type |-> "text", ptr |-> r.end, str |-> t]
  BY DEF StringAt
<1>4. r.ok \in BOOLEAN /\ m \in Nat /\ \A k \in 1 .. m : r.chars[k] \in Bytes
  <2>1. r.ok \in BOOLEAN /\ r.chars \in Seq(Bytes)
    BY <1>1 DEF Fair
  <2> QED BY <2>1, LenProperties, ElementOfSeq
<1>5. r.ok => r.end \in p + 2 .. n + 1 /\ m <= r.end - (p + 1) - 1
  <2>1. r.ok => r.end \in (p + 1) + 1 .. n + 1
    BY <1>1 DEF Fair
  <2>2. r.ok => m <= r.end - (p + 1) - 1
    BY <1>1 DEF Fair
  <2> QED BY <2>1, <2>2
<1>6. m = Len(r.chars)
  OBVIOUS
<1> HIDE DEF r, m
<1>7. CASE ~r.ok
  BY <1>3, <1>7, FailedReads
<1>8. CASE r.ok
  <2>1. r.end \in p + 2 .. n + 1 /\ p + m + 2 <= r.end
    BY <1>4, <1>5, <1>8
  <2>2. /\ t \in Seq(Bytes) /\ Len(t) = n + 1
        /\ \A k \in 1 .. n + 1 :
             t[k] = IF k \in p + 1 .. p + m THEN r.chars[k - p]
                    ELSE IF k = p + m + 1 THEN NUL ELSE s[k]
    <3>1. n + 1 \in Nat /\ p \in 1 .. n + 1 /\ p + m + 1 <= n + 1
      BY <1>4, <2>1
    <3>2. t = SubSeq(s, 1, p) \o Append(r.chars, NUL) \o SubSeq(s, p + m + 2, n + 1)
      BY <1>2
    <3>3. s \in Seq(Bytes) /\ r.chars \in Seq(Bytes)
      BY <1>1 DEF Ended, Fair
    <3> HIDE DEF t
    <3> DEFINE c == r.chars
               N == n + 1
    <3>4. Len(s) = N /\ Len(c) = m /\ m \in Nat /\ NUL \in Bytes /\ c \in Seq(Bytes)
      BY <1>2, <1>4, <1>6, <3>3
    <3>5. N \in Nat /\ p \in 1 .. N /\ p + m + 1 <= N /\ t = Overwrite(s, N, p, c, m, NUL)
      BY <3>1, <3>2 DEF Overwrite
    <3> HIDE DEF c, N
    <3>6. t \in Seq(Bytes) /\ HasOver(t, s, N, p, c, m, NUL)
      BY <3>3, <3>4, <3>5, Overwritten
    <3> QED BY <3>6 DEF c, N, HasOver
  <2> HIDE DEF t
  <2>3. t[n + 1] = NUL
    <3>1. n + 1 \in 1 .. n + 1 /\ n + 1 \notin p + 1 .. p + m
      BY <1>4, <2>1
    <3> QED BY <1>2, <2>2, <3>1
  <2>4. Ended(t, n)
    BY <2>2, <2>3 DEF Ended
  <2>5. Agree(s, t, n, p, r.end)
    <3>1. \A k \in 1 .. n + 1 : k < p \/ k >= r.end
            => k \notin p + 1 .. p + m /\ k # p + m + 1
      BY <1>4, <2>1
    <3> QED BY <2>2, <3>1 DEF Agree
  <2> DEFINE v == [ok |-> TRUE, type |-> "text", ptr |-> r.end, str |-> t]
  <2>6. v.ok = TRUE /\ v.str = t /\ v.ptr = r.end /\ v.type = "text" /\ "text" \in Types
    BY DEF Types
  <2>7. StringAt(s, p) = v
    BY <1>3, <1>8
  <2> HIDE DEF v
  <2>8. v.ptr \in p + 1 .. n + 1
    BY <2>1, <2>6
  <2>9. Reads(v, s, n, p)
    BY <2>4, <2>5, <2>6, <2>8 DEF Reads
  <2> QED BY <2>7, <2>9
<1> QED BY <1>4, <1>7, <1>8

\* A name, up to the first character of the value.
LEMMA NameReads ==
  ASSUME NEW n \in Nat, NEW s, Ended(s, n), NEW p \in 1 .. n
  PROVE  /\ Reads(propertyName(s, p), s, n, p)
         /\ propertyName(s, p).ok => propertyName(s, p).ptr \in p + 1 .. n
<1> DEFINE name == StringAt(s, p)
           colon == goBlank(name.str, name.ptr)
           value == goBlank(name.str, colon + 1)
           v == propertyName(s, p)
<1>1. Reads(name, s, n, p)
  BY StringReads
<1>2. v = IF s[p] # QUOTE \/ ~name.ok THEN Failed(s)
          ELSE IF colon = 0 THEN Failed(s)
          ELSE IF name.str[colon] # ":" THEN Failed(s)
          ELSE IF value = 0 THEN Failed(s)
          ELSE [ok |-> TRUE, type |-> "text", str |-> name.str, ptr |-> value]
  BY DEF propertyName
<1>3. CASE v = Failed(s)
  BY <1>3, FailedReads
<1>4. CASE v # Failed(s)
  <2> HIDE DEF name
  <2>1. /\ name.ok /\ colon # 0 /\ value # 0
        /\ v = [ok |-> TRUE, type |-> "text", str |-> name.str, ptr |-> value]
    <3> HIDE DEF colon, value, v
    <3> QED BY <1>2, <1>4
  <2>2. Ended(name.str, n) /\ name.ptr \in p + 1 .. n + 1
        /\ Agree(s, name.str, n, p, name.ptr) /\ name.type \in Types
    BY <1>1, <2>1 DEF Reads
  <2>3. colon \in name.ptr .. n
    <3>1. colon \in {0} \cup name.ptr .. n
      <4>1. name.ptr \in 1 .. n + 1
        BY <2>2
      <4> QED BY <2>2, <4>1, GoWhile, Punctuation DEF goBlank
    <3> HIDE DEF colon
    <3> QED BY <2>1, <3>1
  <2>4. value \in colon + 1 .. n
    <3>1. colon + 1 \in 1 .. n + 1
      <4> HIDE DEF colon
      <4> QED BY <2>2, <2>3
    <3> HIDE DEF colon
    <3>2. value \in {0} \cup colon + 1 .. n
      BY <2>2, <3>1, GoWhile, Punctuation DEF goBlank
    <3> HIDE DEF value
    <3> QED BY <2>1, <3>2
  <2>5. v.ok = TRUE /\ v.str = name.str /\ v.ptr = value /\ v.type \in Types
    <3>1. "text" \in Types
      BY DEF Types
    <3> HIDE DEF v, value
    <3> QED BY <2>1, <3>1
  <2> HIDE DEF colon, value, v
  <2>6. v.ptr \in p + 1 .. n /\ v.ptr \in p + 1 .. n + 1 /\ v.ptr >= name.ptr
    BY <2>2, <2>3, <2>4, <2>5
  <2>7. Agree(s, v.str, n, p, v.ptr)
    <3>1. \A k \in 1 .. n + 1 : k < p \/ k >= v.ptr => k < p \/ k >= name.ptr
      BY <2>2, <2>6
    <3> QED BY <2>2, <2>5, <3>1 DEF Agree
  <2>8. Reads(v, s, n, p)
    BY <2>2, <2>5, <2>6, <2>7 DEF Reads
  <2> QED BY <2>6, <2>8 DEF v
<1> QED BY <1>3, <1>4

\* A word.
LEMMA WordReads ==
  ASSUME NEW n \in Nat, NEW s, Ended(s, n), NEW p \in 1 .. n,
         NEW w, Len(w) \in Nat \ {0}, NEW type \in Types
  PROVE  Reads(WordAt(s, p, w, type), s, n, p)
<1>1. Len(s) = n + 1
  BY EndedMeans
<1> DEFINE l == Len(w)
<1>2. l \in Nat \ {0}
  OBVIOUS
<1>3. WordAt(s, p, w, type) = IF \A k \in 1 .. l : p + k <= Len(s) /\ s[p + k - 1] = w[k]
                                THEN EndPrimitive(s, p + l, type) ELSE Failed(s)
  BY DEF WordAt
<1> HIDE DEF l
<1>4. CASE \A k \in 1 .. l : p + k <= Len(s) /\ s[p + k - 1] = w[k]
  <2>1. l \in 1 .. l
    BY <1>2
  <2>2. p + l <= n + 1
    BY <1>1, <1>4, <2>1
  <2>3. p + l \in {0} \cup p + 1 .. n + 1 /\ p \in 1 .. n + 1
    BY <1>2, <2>2
  <2>4. Reads(EndPrimitive(s, p + l, type), s, n, p)
    BY <2>3, EndOfPrimitive
  <2> QED BY <1>3, <1>4, <2>4
<1>5. CASE ~\A k \in 1 .. l : p + k <= Len(s) /\ s[p + k - 1] = w[k]
  BY <1>3, <1>5, FailedReads
<1> QED BY <1>4, <1>5

\* A part of a number ends behind where it began, or there where there is none.
LEMMA PartReads ==
  ASSUME NEW n \in Nat, NEW s, Ended(s, n), NEW p \in {0} \cup 1 .. n + 1,
         NEW signs, NEW begins, NUL \notin begins
  PROVE  Part(s, p, signs, begins) \in {0} \cup p .. n + 1
<1> DEFINE q == IF s[p + 1] \in signs THEN p + 2 ELSE p + 1
<1>1. Len(s) = n + 1 /\ s[n + 1] = NUL
  BY EndedMeans
<1>2. Part(s, p, signs, begins) =
        IF p = 0 THEN 0
        ELSE IF s[p] \notin begins THEN p
        ELSE IF q <= Len(s) /\ s[q] \in Digit THEN goNum(s, q) ELSE 0
  BY DEF Part
<1>3. p # 0 => q \in p .. p + 2
  OBVIOUS
<1> HIDE DEF q
<1>4. p # 0 /\ q <= Len(s) => goNum(s, q) \in {0} \cup q .. n
  <2>1. p # 0 /\ q <= Len(s) => q \in 1 .. n + 1
    BY <1>1, <1>3
  <2> QED BY <2>1, GoWhile, Punctuation DEF goNum
<1>5. p # 0 /\ q <= Len(s) => goNum(s, q) \in {0} \cup p .. n + 1
  BY <1>3, <1>4
<1> QED BY <1>2, <1>5

\* A number.
LEMMA NumberReads ==
  ASSUME NEW n \in Nat, NEW s, Ended(s, n), NEW p \in 1 .. n
  PROVE  Reads(numValue(s, p), s, n, p)
<1> DEFINE d == IF s[p] = "-" THEN p + 1 ELSE p
           int == IF s[d] \notin Digit THEN 0
                  ELSE IF s[d] # "0" THEN goNum(s, d)
                  ELSE IF s[d + 1] \in Digit THEN 0 ELSE d + 1
           frac == Part(s, int, {}, {"."})
           exp == Part(s, frac, {"+", "-"}, {"e", "E"})
           type == IF exp = int THEN "integer" ELSE "real"
<1>1. Len(s) = n + 1 /\ s[n + 1] = NUL
  BY EndedMeans
<1>2. d \in p .. n + 1 /\ d \in 1 .. n + 1
  OBVIOUS
<1>3. s[d] \in Digit => d \in p .. n
  <2> HIDE DEF d
  <2>1. s[d] \in Digit => d # n + 1
    BY <1>1, Punctuation
  <2> QED BY <1>2, <2>1
<1>4. numValue(s, p) = IF exp = int /\ int # 0 /\ ~Fits(s, p, int) THEN Failed(s)
                       ELSE EndPrimitive(s, exp, type)
  BY DEF numValue
<1>5. int \in {0} \cup p + 1 .. n + 1
  <2> HIDE DEF d
  <2>1. CASE s[d] \notin Digit
    BY <2>1
  <2>2. CASE s[d] \in Digit /\ s[d] # "0"
    <3>1. goNum(s, d) \in {0} \cup d .. n
      BY <1>2, GoWhile, Punctuation DEF goNum
    <3>2. goNum(s, d) # 0 => s[goNum(s, d)] \notin Digit
      BY <1>2, GoWhile, Punctuation DEF goNum
    <3>3. goNum(s, d) # d
      BY <1>2, <2>2, <3>2
    <3>4. goNum(s, d) \in {0} \cup p + 1 .. n + 1
      BY <1>2, <3>1, <3>3
    <3> QED BY <2>2, <3>4
  <2>3. CASE s[d] \in Digit /\ s[d] = "0"
    BY <1>2, <1>3, <2>3
  <2> QED BY <2>1, <2>2, <2>3
<1> HIDE DEF d, int
<1>6. frac \in {0} \cup int .. n + 1 /\ (int = 0 => frac = 0)
  <2>1. int \in {0} \cup 1 .. n + 1 /\ NUL \notin {"."}
    BY <1>5 DEF NUL
  <2>2. frac \in {0} \cup int .. n + 1
    BY <2>1, PartReads
  <2>3. int = 0 => frac = 0
    BY DEF Part
  <2> QED BY <2>2, <2>3
<1> HIDE DEF frac
<1>7. exp \in {0} \cup frac .. n + 1 /\ (frac = 0 => exp = 0)
  <2>1. frac \in {0} \cup 1 .. n + 1 /\ NUL \notin {"e", "E"}
    BY <1>5, <1>6 DEF NUL
  <2>2. exp \in {0} \cup frac .. n + 1
    BY <2>1, PartReads
  <2>3. frac = 0 => exp = 0
    BY DEF Part
  <2> QED BY <2>2, <2>3
<1>8. type \in Types
  BY DEF Types
<1> HIDE DEF exp, type
<1>9. exp \in {0} \cup p + 1 .. n + 1 /\ p \in 1 .. n + 1
  BY <1>5, <1>6, <1>7
<1>10. Reads(EndPrimitive(s, exp, type), s, n, p)
  BY <1>8, <1>9, EndOfPrimitive
<1> QED BY <1>4, <1>10, FailedReads

\* A value that is no block.
LEMMA ValueReads ==
  ASSUME NEW n \in Nat, NEW s, Ended(s, n), NEW p \in 1 .. n
  PROVE  Reads(Value(s, p), s, n, p)
<1>1. Reads(StringAt(s, p), s, n, p) /\ Reads(numValue(s, p), s, n, p)
  BY StringReads, NumberReads
<1>2. Reads(WordAt(s, p, <<"t", "r", "u", "e">>, "boolean"), s, n, p)
  <2>1. Len(<<"t", "r", "u", "e">>) \in Nat \ {0} /\ "boolean" \in Types
    BY DEF Types
  <2> QED BY <2>1, WordReads
<1>3. Reads(WordAt(s, p, <<"f", "a", "l", "s", "e">>, "boolean"), s, n, p)
  <2>1. Len(<<"f", "a", "l", "s", "e">>) \in Nat \ {0} /\ "boolean" \in Types
    BY DEF Types
  <2> QED BY <2>1, WordReads
<1>4. Reads(WordAt(s, p, <<"n", "u", "l", "l">>, "null"), s, n, p)
  <2>1. Len(<<"n", "u", "l", "l">>) \in Nat \ {0} /\ "null" \in Types
    BY DEF Types
  <2> QED BY <2>1, WordReads
<1> QED BY <1>1, <1>2, <1>3, <1>4 DEF Value

-----------------------------------------------------------------------------
(* Brackets and quotes.                                                    *)

\* Inside quotes, and behind a backslash there.
Quoted(depth) == [depth |-> depth, mode |-> "text"]
Escaping(depth) == [depth |-> depth, mode |-> "escape"]

Openings == {"{", "["}
Closings == {"}", "]"}
Special == Openings \cup Closings \cup {QUOTE}

\* What a character does outside of quotes and inside.
LEMMA AfterPlain ==
  ASSUME NEW d \in Int, NEW c
  PROVE  /\ c \notin Special => AfterChar(Plain(d), c) = Plain(d)
         /\ c \in Openings => AfterChar(Plain(d), c) = Plain(d + 1)
         /\ c \in Closings => AfterChar(Plain(d), c) = Plain(d - 1)
         /\ AfterChar(Plain(d), QUOTE) = Quoted(d)
<1>1. Plain(d).depth = d /\ Plain(d).mode = "plain"
  BY DEF Plain
<1>2. c \notin Special => AfterChar(Plain(d), c) = Plain(d)
  BY <1>1 DEF AfterChar, Plain, Special, Openings, Closings
<1>3. c \in Openings => AfterChar(Plain(d), c) = Plain(d + 1)
  BY <1>1 DEF AfterChar, Plain, Openings, QUOTE
<1>4. c \in Closings => AfterChar(Plain(d), c) = Plain(d - 1)
  BY <1>1 DEF AfterChar, Plain, Closings, QUOTE
<1>5. AfterChar(Plain(d), QUOTE) = Quoted(d)
  BY <1>1 DEF AfterChar, Quoted, QUOTE
<1> QED BY <1>2, <1>3, <1>4, <1>5

LEMMA AfterQuoted ==
  ASSUME NEW d, NEW c
  PROVE  /\ c \notin {QUOTE, BACKSLASH} => AfterChar(Quoted(d), c) = Quoted(d)
         /\ AfterChar(Quoted(d), QUOTE) = Plain(d)
         /\ AfterChar(Quoted(d), BACKSLASH) = Escaping(d)
         /\ AfterChar(Escaping(d), c) = Quoted(d)
<1>1. Quoted(d).depth = d /\ Quoted(d).mode = "text"
      /\ Escaping(d).depth = d /\ Escaping(d).mode = "escape"
  BY DEF Quoted, Escaping
<1>2. c \notin {QUOTE, BACKSLASH} => AfterChar(Quoted(d), c) = Quoted(d)
  BY <1>1 DEF AfterChar, Quoted
<1>3. AfterChar(Quoted(d), QUOTE) = Plain(d)
  BY <1>1 DEF AfterChar, Plain
<1>4. AfterChar(Quoted(d), BACKSLASH) = Escaping(d)
  BY <1>1 DEF AfterChar, Escaping, QUOTE, BACKSLASH
<1>5. AfterChar(Escaping(d), c) = Quoted(d)
  BY <1>1 DEF AfterChar, Quoted
<1> QED BY <1>2, <1>3, <1>4, <1>5

\* From p on, up to n, a says how the text s is nested after each character.
Along(a, s, n, p) == \A k \in p .. n : a[k] = AfterChar(a[k - 1], s[k])

\* What is from p to q - 1 opens and closes nothing, unless inside quotes.
PassesOver(a, p, q) == \A d \in Int : a[p - 1] = Plain(d) => a[q - 1] = Plain(d)

LEMMA PassingFurther ==
  ASSUME NEW a, NEW p, NEW q, NEW r, PassesOver(a, p, q), PassesOver(a, q, r)
  PROVE  PassesOver(a, p, r)
BY DEF PassesOver

LEMMA PassingNothing == ASSUME NEW a, NEW p PROVE PassesOver(a, p, p)
BY DEF PassesOver

\* The same further on, in a text that was changed before.
LEMMA AlongAhead ==
  ASSUME NEW n \in Nat, NEW a, NEW s, NEW t, NEW p \in 1 .. n + 1, NEW q \in p .. n + 1,
         Along(a, s, n, p), \A k \in q .. n : t[k] = s[k]
  PROVE  Along(a, t, n, q)
<1>1. \A k \in q .. n : k \in p .. n
  OBVIOUS
<1> QED BY <1>1 DEF Along

\* A text without brackets and quotes.
LEMMA PassingText ==
  ASSUME NEW n \in Nat, NEW a, NEW s, NEW p \in 1 .. n + 1, NEW q \in p .. n + 1,
         Along(a, s, n, p), \A k \in p .. q - 1 : s[k] \notin Special
  PROVE  PassesOver(a, p, q)
<1> SUFFICES ASSUME NEW d \in Int, a[p - 1] = Plain(d) PROVE a[q - 1] = Plain(d)
  BY DEF PassesOver
<1> DEFINE S == {i \in 0 .. q - p : a[p - 1 + i] # Plain(d)}
<1>1. S = {}
  <2> SUFFICES ASSUME S # {} PROVE FALSE
    OBVIOUS
  <2>1. S \in SUBSET Nat
    <3>1. S \subseteq 0 .. q - p
      OBVIOUS
    <3> HIDE DEF S
    <3> QED BY <3>1
  <2>2. PICK i \in S : \A j \in S : i <= j
    <3> HIDE DEF S
    <3> QED BY <2>1, Least
  <2>3. i \in 0 .. q - p /\ a[p - 1 + i] # Plain(d)
    BY <2>2
  <2>4. i # 0
    <3>1. p - 1 + 0 = p - 1
      OBVIOUS
    <3> QED BY <2>3, <3>1
  <2>5. i - 1 \in 0 .. q - p /\ ~(i <= i - 1) /\ p - 1 + (i - 1) = p - 1 + i - 1
    BY <2>3, <2>4
  <2>6. i - 1 \notin S
    BY <2>2, <2>5
  <2>7. a[p - 1 + i - 1] = Plain(d)
    BY <2>5, <2>6
  <2> DEFINE k == p - 1 + i
  <2>8. k \in p .. q - 1 /\ k \in p .. n
    BY <2>3, <2>4
  <2>9. a[k] # Plain(d) /\ a[k - 1] = Plain(d)
    BY <2>3, <2>7
  <2> HIDE DEF k, S
  <2>10. s[k] \notin Special /\ a[k] = AfterChar(a[k - 1], s[k])
    BY <2>8 DEF Along
  <2> QED BY <2>9, <2>10, AfterPlain
<1>2. q - p \in 0 .. q - p /\ p - 1 + (q - p) = q - 1
  OBVIOUS
<1>3. q - p \notin S
  BY <1>1
<1> QED BY <1>2, <1>3

\* A bracket.
LEMMA PassingBracket ==
  ASSUME NEW n \in Nat, NEW a, NEW s, NEW p \in 1 .. n, Along(a, s, n, p),
         NEW d \in Int, a[p - 1] = Plain(d)
  PROVE  /\ s[p] \in Openings => a[p] = Plain(d + 1)
         /\ s[p] \in Closings => a[p] = Plain(d - 1)
<1>1. a[p] = AfterChar(Plain(d), s[p])
  BY DEF Along
<1> QED BY <1>1, AfterPlain

\* What the runs of blanks and digits pass over.
LEMMA GoWhilePasses ==
  ASSUME NEW n \in Nat, NEW a, NEW s, Ended(s, n), NEW p \in 1 .. n + 1, Along(a, s, n, p),
         NEW set, NUL \notin set, \A c \in set : c \notin Special, goWhile(s, p, set) # 0
  PROVE  PassesOver(a, p, goWhile(s, p, set))
<1>1. PICK k \in p .. n + 1 :
        /\ goWhile(s, p, set) = IF s[k] = NUL THEN 0 ELSE k
        /\ s[k] \notin set /\ (\A j \in p .. k - 1 : s[j] \in set)
  BY WhileStops
<1>2. goWhile(s, p, set) = k
  BY <1>1
<1>3. \A j \in p .. k - 1 : s[j] \notin Special
  BY <1>1
<1>4. PassesOver(a, p, k)
  BY <1>3, PassingText
<1> QED BY <1>2, <1>4

\* Characters that are no brackets and no quotes.
Letters == {"t", "r", "u", "e", "f", "a", "l", "s", "n"}

LEMMA Ordinary ==
  /\ \A c \in Blank \cup Digit \cup {",", ":", "-", "+", ".", "e", "E"} : c \notin Special
  /\ \A c \in Letters : c \notin Special
<1>1. \A c \in Blank \cup Digit \cup {",", ":", "-", "+", ".", "e", "E"} : c \notin Special
  BY DEF Blank, Digit, Special, Openings, Closings, QUOTE
<1>2. \A c \in Letters : c \notin Special
  BY DEF Letters, Special, Openings, Closings, QUOTE
<1> QED BY <1>1, <1>2

\* What r reads of the text from p on opens and closes nothing.
Skips(r, a, p) == r.ok => PassesOver(a, p, r.ptr)

LEMMA FailedSkips == ASSUME NEW a, NEW s, NEW p PROVE Skips(Failed(s), a, p)
BY DEF Skips, Failed

\* The end of a primitive value, of which nothing was special.
LEMMA EndSkips ==
  ASSUME NEW n \in Nat, NEW a, NEW s, Ended(s, n), NEW p \in 1 .. n + 1,
         NEW q \in {0} \cup p .. n + 1, NEW type, Along(a, s, n, p),
         q # 0 => PassesOver(a, p, q)
  PROVE  Skips(EndPrimitive(s, q, type), a, p)
<1> DEFINE r == EndPrimitive(s, q, type)
<1>1. CASE q = 0 \/ ~isEndOfPrimitive(s[q])
  <2>1. r = Failed(s)
    BY <1>1 DEF EndPrimitive
  <2> QED BY <2>1, FailedSkips
<1>2. CASE q # 0 /\ isEndOfPrimitive(s[q]) /\ s[q] \in {"}", "]"}
  <2>1. r = [ok |-> TRUE, type |-> type, str |-> s, ptr |-> q]
    BY <1>2 DEF EndPrimitive
  <2>2. r.ptr = q
    BY <2>1
  <2> QED BY <1>2, <2>2 DEF Skips
<1>3. CASE q # 0 /\ isEndOfPrimitive(s[q]) /\ s[q] \notin {"}", "]"}
  <2>1. r = [ok |-> TRUE, type |-> type, str |-> [s EXCEPT ![q] = NUL], ptr |-> q + 1]
    BY <1>3 DEF EndPrimitive
  <2>2. r.ptr = q + 1
    BY <2>1
  <2>3. q \in p .. n
    <3>1. s[q] # NUL /\ s[n + 1] = NUL
      BY <1>3, Punctuation, EndedMeans
    <3>2. q # n + 1 /\ q # 0
      BY <1>3, <3>1
    <3> QED BY <3>2
  <2>4. s[q] \notin Special
    BY <1>3, Ordinary DEF isEndOfPrimitive
  <2>5. PassesOver(a, q, q + 1)
    <3>1. q \in 1 .. n + 1 /\ q + 1 \in q .. n + 1 /\ \A k \in q .. q + 1 - 1 : k = q
      BY <2>3
    <3>2. Along(a, s, n, q)
      <4>1. q \in p .. n + 1
        BY <2>3
      <4> QED BY <4>1, AlongAhead
    <3>3. \A k \in q .. q + 1 - 1 : s[k] \notin Special
      BY <2>4, <3>1
    <3> QED BY <3>1, <3>2, <3>3, PassingText
  <2>6. PassesOver(a, p, q + 1)
    BY <1>3, <2>5, PassingFurther
  <2> HIDE DEF r
  <2>7. Skips(r, a, p)
    BY <2>2, <2>6 DEF Skips
  <2> QED BY <2>7 DEF r
<1> QED BY <1>1, <1>2, <1>3

\* A word.
LEMMA WordSkips ==
  ASSUME NEW n \in Nat, NEW a, NEW s, Ended(s, n), NEW p \in 1 .. n, Along(a, s, n, p),
         NEW w, Len(w) \in Nat \ {0}, NEW type, \A k \in 1 .. Len(w) : w[k] \notin Special
  PROVE  Skips(WordAt(s, p, w, type), a, p)
<1>1. Len(s) = n + 1
  BY EndedMeans
<1> DEFINE l == Len(w)
<1>2. l \in Nat \ {0} /\ \A k \in 1 .. l : w[k] \notin Special
  OBVIOUS
<1>3. WordAt(s, p, w, type) = IF \A k \in 1 .. l : p + k <= Len(s) /\ s[p + k - 1] = w[k]
                                THEN EndPrimitive(s, p + l, type) ELSE Failed(s)
  BY DEF WordAt
<1> HIDE DEF l
<1>4. CASE \A k \in 1 .. l : p + k <= Len(s) /\ s[p + k - 1] = w[k]
  <2>1. l \in 1 .. l
    BY <1>2
  <2>2. p + l <= n + 1
    BY <1>1, <1>4, <2>1
  <2>3. p + l \in {0} \cup p .. n + 1 /\ p \in 1 .. n + 1 /\ p + l \in p .. n + 1
    BY <1>2, <2>2
  <2>4. ASSUME NEW j \in p .. p + l - 1 PROVE s[j] \notin Special
    <3> DEFINE k == j - p + 1
    <3>1. k \in 1 .. l /\ p + k - 1 = j
      BY <1>2
    <3> HIDE DEF k
    <3>2. s[p + k - 1] = w[k] /\ w[k] \notin Special
      BY <1>2, <1>4, <3>1
    <3> QED BY <3>1, <3>2
  <2>5. PassesOver(a, p, p + l)
    <3> DEFINE q == p + l
    <3>1. q \in p .. n + 1 /\ p \in 1 .. n + 1
      BY <2>3
    <3>2. \A k \in p .. q - 1 : s[k] \notin Special
      BY <1>2, <2>4
    <3> HIDE DEF q
    <3>3. PassesOver(a, p, q)
      BY <3>1, <3>2, PassingText
    <3> QED BY <3>3 DEF q
  <2>6. Skips(EndPrimitive(s, p + l, type), a, p)
    BY <2>3, <2>5, EndSkips
  <2> QED BY <1>3, <1>4, <2>6
<1>5. CASE ~\A k \in 1 .. l : p + k <= Len(s) /\ s[p + k - 1] = w[k]
  BY <1>3, <1>5, FailedSkips
<1> QED BY <1>4, <1>5

\* A part of a number.
LEMMA PartPasses ==
  ASSUME NEW n \in Nat, NEW a, NEW s, Ended(s, n), NEW p \in 1 .. n + 1, Along(a, s, n, p),
         NEW signs, NEW begins, \A c \in signs \cup begins : c \notin Special,
         NUL \notin signs, NUL \notin begins, Part(s, p, signs, begins) # 0
  PROVE  PassesOver(a, p, Part(s, p, signs, begins))
<1> DEFINE q == IF s[p + 1] \in signs THEN p + 2 ELSE p + 1
<1>1. Len(s) = n + 1 /\ s[n + 1] = NUL
  BY EndedMeans
<1>2. Part(s, p, signs, begins) =
        IF s[p] \notin begins THEN p
        ELSE IF q <= Len(s) /\ s[q] \in Digit THEN goNum(s, q) ELSE 0
  BY DEF Part
<1>3. CASE s[p] \notin begins
  BY <1>2, <1>3, PassingNothing
<1>4. CASE s[p] \in begins
  <2>1. q \in {p + 1, p + 2} /\ (q = p + 2 => s[p + 1] \in signs)
    OBVIOUS
  <2> HIDE DEF q
  <2>2. q <= n + 1 /\ Part(s, p, signs, begins) = goNum(s, q) /\ goNum(s, q) # 0
    BY <1>1, <1>2, <1>4
  <2>3. q \in p .. n + 1 /\ q \in 1 .. n + 1
    BY <2>1, <2>2
  <2>4. ASSUME NEW k \in p .. q - 1 PROVE s[k] \notin Special
    <3>1. k = p \/ (k = p + 1 /\ q = p + 2)
      BY <2>1
    <3>2. s[k] \in signs \cup begins
      BY <1>4, <2>1, <3>1
    <3> QED BY <3>2
  <2>5. PassesOver(a, p, q)
    BY <2>3, <2>4, PassingText
  <2>6. Along(a, s, n, q)
    BY <2>3, AlongAhead
  <2>7. PassesOver(a, q, goNum(s, q))
    BY <2>2, <2>3, <2>6, GoWhilePasses, Punctuation, Ordinary DEF goNum
  <2> QED BY <2>2, <2>5, <2>7, PassingFurther
<1> QED BY <1>3, <1>4

\* A number.
LEMMA NumberSkips ==
  ASSUME NEW n \in Nat, NEW a, NEW s, Ended(s, n), NEW p \in 1 .. n, Along(a, s, n, p)
  PROVE  Skips(numValue(s, p), a, p)
<1> DEFINE d == IF s[p] = "-" THEN p + 1 ELSE p
           int == IF s[d] \notin Digit THEN 0
                  ELSE IF s[d] # "0" THEN goNum(s, d)
                  ELSE IF s[d + 1] \in Digit THEN 0 ELSE d + 1
           frac == Part(s, int, {}, {"."})
           exp == Part(s, frac, {"+", "-"}, {"e", "E"})
           type == IF exp = int THEN "integer" ELSE "real"
<1>1. Len(s) = n + 1 /\ s[n + 1] = NUL
  BY EndedMeans
<1>2. d \in {p, p + 1} /\ (d = p + 1 => s[p] = "-")
  OBVIOUS
<1>3. numValue(s, p) = IF exp = int /\ int # 0 /\ ~Fits(s, p, int) THEN Failed(s)
                       ELSE EndPrimitive(s, exp, type)
  BY DEF numValue
<1>4. int = IF s[d] \notin Digit THEN 0
            ELSE IF s[d] # "0" THEN goNum(s, d)
            ELSE IF s[d + 1] \in Digit THEN 0 ELSE d + 1
  OBVIOUS
<1>5. int = 0 => frac = 0
  BY DEF Part
<1>6. frac = 0 => exp = 0
  BY DEF Part
<1>7. frac = Part(s, int, {}, {"."}) /\ exp = Part(s, frac, {"+", "-"}, {"e", "E"})
  OBVIOUS
<1> HIDE DEF d, int, frac, exp, type
<1>8. d \in p .. n + 1 /\ d \in 1 .. n + 1 /\ Along(a, s, n, d)
  <2>1. d \in p .. n + 1 /\ d \in 1 .. n + 1
    BY <1>2
  <2>2. p \in 1 .. n + 1
    OBVIOUS
  <2> QED BY <2>1, <2>2, AlongAhead
<1>9. PassesOver(a, p, d)
  <2>1. \A k \in p .. d - 1 : k = p /\ d = p + 1
    BY <1>2
  <2>2. \A k \in p .. d - 1 : s[k] \notin Special
    BY <1>2, <2>1, Ordinary
  <2>3. p \in 1 .. n + 1
    OBVIOUS
  <2> QED BY <1>8, <2>2, <2>3, PassingText
<1>10. int \in {0} \cup d .. n + 1 /\ (int # 0 => PassesOver(a, d, int))
  <2>1. CASE s[d] \notin Digit
    BY <1>4, <2>1
  <2>2. CASE s[d] \in Digit /\ s[d] # "0"
    <3>1. int = goNum(s, d)
      BY <1>4, <2>2
    <3>2. goNum(s, d) \in {0} \cup d .. n
      BY <1>8, GoWhile, Punctuation DEF goNum
    <3>3. goNum(s, d) # 0 => PassesOver(a, d, goNum(s, d))
      BY <1>8, GoWhilePasses, Punctuation, Ordinary DEF goNum
    <3> QED BY <1>8, <3>1, <3>2, <3>3
  <2>3. CASE s[d] = "0" /\ s[d] \in Digit
    <3>1. d # n + 1
      BY <1>1, <2>3, Punctuation
    <3>2. d + 1 \in d .. n + 1 /\ \A k \in d .. d + 1 - 1 : k = d
      BY <1>8, <3>1
    <3>3. \A k \in d .. d + 1 - 1 : s[k] \notin Special
      BY <2>3, <3>2, Ordinary
    <3>4. PassesOver(a, d, d + 1)
      BY <1>8, <3>2, <3>3, PassingText
    <3>5. int \in {0, d + 1}
      BY <1>4, <2>3
    <3> QED BY <3>2, <3>4, <3>5
  <2> QED BY <2>1, <2>2, <2>3
<1>11. int # 0 => Along(a, s, n, int) /\ int \in 1 .. n + 1 /\ PassesOver(a, p, int)
  <2>1. int # 0 => int \in d .. n + 1 /\ int \in 1 .. n + 1
    BY <1>8, <1>10
  <2>2. int # 0 => Along(a, s, n, int)
    BY <1>8, <2>1, AlongAhead
  <2> QED BY <1>9, <1>10, <2>1, <2>2, PassingFurther
<1>12. frac \in {0} \cup int .. n + 1 /\ (frac # 0 => int # 0 /\ PassesOver(a, int, frac))
  <2>1. int \in {0} \cup 1 .. n + 1 /\ NUL \notin {"."} /\ NUL \notin {}
    BY <1>11 DEF NUL
  <2>2. frac \in {0} \cup int .. n + 1
    BY <1>7, <2>1, PartReads
  <2>3. \A c \in {} \cup {"."} : c \notin Special
    BY Ordinary
  <2>4. frac # 0 => PassesOver(a, int, frac)
    BY <1>5, <1>7, <1>11, <2>1, <2>3, PartPasses
  <2> QED BY <1>5, <2>2, <2>4
<1>13. frac # 0 => Along(a, s, n, frac) /\ frac \in 1 .. n + 1 /\ PassesOver(a, p, frac)
  <2>1. frac # 0 => frac \in int .. n + 1 /\ frac \in 1 .. n + 1
    BY <1>11, <1>12
  <2>2. frac # 0 => Along(a, s, n, frac)
    BY <1>11, <1>12, <2>1, AlongAhead
  <2> QED BY <1>11, <1>12, <2>1, <2>2, PassingFurther
<1>14. exp \in {0} \cup frac .. n + 1 /\ (exp # 0 => frac # 0 /\ PassesOver(a, frac, exp))
  <2>1. frac \in {0} \cup 1 .. n + 1 /\ NUL \notin {"e", "E"} /\ NUL \notin {"+", "-"}
    BY <1>13 DEF NUL
  <2>2. exp \in {0} \cup frac .. n + 1
    BY <1>7, <2>1, PartReads
  <2>3. \A c \in {"+", "-"} \cup {"e", "E"} : c \notin Special
    BY Ordinary
  <2>4. exp # 0 => PassesOver(a, frac, exp)
    BY <1>6, <1>7, <1>13, <2>1, <2>3, PartPasses
  <2> QED BY <1>6, <2>2, <2>4
<1>15. exp # 0 => exp \in p .. n + 1 /\ PassesOver(a, p, exp)
  <2>1. exp # 0 => exp \in p .. n + 1
    BY <1>8, <1>10, <1>12, <1>14
  <2> QED BY <1>13, <1>14, <2>1, PassingFurther
<1>16. Skips(EndPrimitive(s, exp, type), a, p)
  <2>1. exp \in {0} \cup p .. n + 1 /\ p \in 1 .. n + 1
    BY <1>14, <1>15
  <2> QED BY <1>15, <2>1, EndSkips
<1> QED BY <1>3, <1>16, FailedSkips

LEMMA EscapeLetters ==
  /\ BACKSLASH # QUOTE /\ "u" # NUL
  /\ \A c \in Hex : c \notin {QUOTE, BACKSLASH}
<1>1. BACKSLASH # QUOTE /\ "u" # NUL
  BY DEF BACKSLASH, QUOTE, NUL
<1>2. \A c \in Hex : c \notin {QUOTE, BACKSLASH}
  BY DEF BACKSLASH, QUOTE, Hex, Digit
<1> QED BY <1>1, <1>2

\* A piece of a string ends behind its closing quote.
Ends(r, a, h) == r.ok => \A d \in Int : a[h - 1] = Quoted(d) => a[r.end - 1] = Plain(d)

LEMMA MoreEnds ==
  ASSUME NEW a, NEW h, NEW i, NEW c, NEW r, Ends(r, a, i),
         \A d \in Int : a[h - 1] = Quoted(d) => a[i - 1] = Quoted(d)
  PROVE  Ends(More(c, r), a, h)
<1>1. More(c, r).ok = r.ok /\ More(c, r).end = r.end
  BY DEF More
<1> QED BY <1>1 DEF Ends

\* Characters of a string, but for quotes and escapes.
LEMMA StaysQuoted ==
  ASSUME NEW n \in Nat, NEW a, NEW s, NEW p, Along(a, s, n, p), NEW k \in p .. n, NEW d
  PROVE  /\ a[k - 1] = Quoted(d) /\ s[k] \notin {QUOTE, BACKSLASH} => a[k] = Quoted(d)
         /\ a[k - 1] = Quoted(d) /\ s[k] = QUOTE => a[k] = Plain(d)
         /\ a[k - 1] = Quoted(d) /\ s[k] = BACKSLASH => a[k] = Escaping(d)
         /\ a[k - 1] = Escaping(d) => a[k] = Quoted(d)
<1>1. a[k] = AfterChar(a[k - 1], s[k])
  BY DEF Along
<1> QED BY <1>1, AfterQuoted

\* One turn of parseString.
LEMMA PieceEnds ==
  ASSUME NEW n \in Nat, NEW a, NEW s, Ended(s, n), NEW h \in 1 .. n + 7, NEW f,
         Along(a, s, n, h), \A i \in h + 1 .. n + 7 : Ends(f[i], a, i)
  PROVE  Ends(Piece(s, f, h), a, h)
<1>1. Len(s) = n + 1 /\ s[n + 1] = NUL
  BY EndedMeans
<1>2. Ends(BadPiece, a, h)
  BY DEF Ends, BadPiece
<1>3. CASE h >= Len(s)
  BY <1>2, <1>3 DEF Piece
<1>4. CASE ~(h >= Len(s)) /\ s[h] = QUOTE
  <2> DEFINE r == [ok |-> TRUE, chars |-> <<>>, end |-> h + 1]
  <2>1. Piece(s, f, h) = r
    BY <1>4 DEF Piece
  <2>2. r.end - 1 = h /\ h \in h .. n
    BY <1>1, <1>4
  <2> HIDE DEF r
  <2>3. Ends(r, a, h)
    BY <1>4, <2>2, StaysQuoted DEF Ends
  <2> QED BY <2>1, <2>3
<1>5. CASE ~(h >= Len(s)) /\ s[h] # QUOTE /\ s[h] # BACKSLASH
  <2>1. Piece(s, f, h) = More(s[h], f[h + 1])
    BY <1>5 DEF Piece
  <2>2. h + 1 \in h + 1 .. n + 7 /\ h + 1 - 1 = h /\ h \in h .. n
    BY <1>1, <1>5
  <2>3. \A d \in Int : a[h - 1] = Quoted(d) => a[h + 1 - 1] = Quoted(d)
    BY <1>5, <2>2, StaysQuoted
  <2> QED BY <2>1, <2>2, <2>3, MoreEnds
<1>6. CASE ~(h >= Len(s)) /\ s[h] = BACKSLASH
  <2>1. h \in h .. n
    BY <1>1, <1>6
  <2>2. ASSUME s[h + 1] # NUL, NEW d \in Int, a[h - 1] = Quoted(d) PROVE a[h + 1] = Quoted(d)
    <3>1. h # n
      BY <1>1, <2>2
    <3>2. h + 1 \in h .. n /\ h + 1 - 1 = h
      BY <2>1, <3>1
    <3>3. a[h] = Escaping(d)
      BY <1>6, <2>1, <2>2, StaysQuoted
    <3>4. a[h + 1 - 1] = Escaping(d)
      BY <3>2, <3>3
    <3> QED BY <3>2, <3>4, StaysQuoted
  <2>3. CASE s[h + 1] = "u" /\ \A k \in h + 2 .. h + 5 : k < Len(s) /\ s[k] \in Hex
    <3>1. Piece(s, f, h) = More("?", f[h + 6])
      BY <1>6, <2>3, EscapeLetters DEF Piece
    <3>2. h + 6 \in h + 1 .. n + 7 /\ h + 2 \in h .. n /\ h + 3 \in h .. n /\ h + 4 \in h .. n
          /\ h + 5 \in h .. n
      <4>1. h + 5 \in h + 2 .. h + 5
        OBVIOUS
      <4>2. h + 5 < n + 1
        BY <1>1, <2>3, <4>1
      <4> QED BY <2>1, <4>2
    <3>3. \A k \in {h + 2, h + 3, h + 4, h + 5} : k \in h .. n /\ s[k] \notin {QUOTE, BACKSLASH}
      <4>1. \A k \in {h + 2, h + 3, h + 4, h + 5} : k \in h + 2 .. h + 5
        OBVIOUS
      <4> QED BY <1>1, <2>1, <2>3, <4>1, EscapeLetters
    <3>4. ASSUME NEW d \in Int, a[h - 1] = Quoted(d) PROVE a[h + 6 - 1] = Quoted(d)
      <4>1. a[h + 1] = Quoted(d)
        BY <2>2, <2>3, <3>4, EscapeLetters
      <4>2. a[h + 2] = Quoted(d)
        <5>1. h + 2 - 1 = h + 1
          OBVIOUS
        <5> QED BY <3>3, <4>1, <5>1, StaysQuoted
      <4>3. a[h + 3] = Quoted(d)
        <5>1. h + 3 - 1 = h + 2
          OBVIOUS
        <5> QED BY <3>3, <4>2, <5>1, StaysQuoted
      <4>4. a[h + 4] = Quoted(d)
        <5>1. h + 4 - 1 = h + 3
          OBVIOUS
        <5> QED BY <3>3, <4>3, <5>1, StaysQuoted
      <4>5. a[h + 5] = Quoted(d)
        <5>1. h + 5 - 1 = h + 4
          OBVIOUS
        <5> QED BY <3>3, <4>4, <5>1, StaysQuoted
      <4>6. h + 6 - 1 = h + 5
        OBVIOUS
      <4> QED BY <4>5, <4>6
    <3> QED BY <3>1, <3>2, <3>4, MoreEnds
  <2>4. CASE s[h + 1] # "u" /\ s[h + 1] \in Escaped
    <3>1. Piece(s, f, h) = More(getEscape(s[h + 1]), f[h + 2])
      BY <1>6, <2>4, EscapeLetters DEF Piece
    <3>2. h + 2 \in h + 1 .. n + 7 /\ h + 2 - 1 = h + 1
      BY <2>1
    <3>3. \A d \in Int : a[h - 1] = Quoted(d) => a[h + 2 - 1] = Quoted(d)
      BY <2>2, <2>4, <3>2, Punctuation
    <3> QED BY <3>1, <3>2, <3>3, MoreEnds
  <2>5. CASE /\ ~(s[h + 1] = "u" /\ \A k \in h + 2 .. h + 5 : k < Len(s) /\ s[k] \in Hex)
             /\ ~(s[h + 1] # "u" /\ s[h + 1] \in Escaped)
    <3>1. Piece(s, f, h) = BadPiece
      BY <1>6, <2>5, EscapeLetters DEF Piece
    <3> QED BY <1>2, <3>1
  <2> QED BY <2>3, <2>4, <2>5
<1> QED BY <1>3, <1>4, <1>5, <1>6

\* So does every piece.
LEMMA PiecesEnd ==
  ASSUME NEW n \in Nat, NEW a, NEW s, Ended(s, n), NEW p \in 1 .. n + 7, NEW f,
         Pieces(f, s, n, p), Along(a, s, n, p)
  PROVE  Ends(f[p], a, p)
<1> DEFINE S == {i \in 0 .. n + 7 : p <= n + 7 - i /\ ~Ends(f[n + 7 - i], a, n + 7 - i)}
<1>1. S = {}
  <2> SUFFICES ASSUME S # {} PROVE FALSE
    OBVIOUS
  <2>1. S \in SUBSET Nat
    <3>1. S \subseteq 0 .. n + 7
      OBVIOUS
    <3> HIDE DEF S
    <3> QED BY <3>1
  <2>2. PICK i \in S : \A j \in S : i <= j
    <3> HIDE DEF S
    <3> QED BY <2>1, Least
  <2>3. i \in 0 .. n + 7 /\ p <= n + 7 - i /\ ~Ends(f[n + 7 - i], a, n + 7 - i)
    BY <2>2
  <2> DEFINE m == n + 7 - i
  <2>4. m \in 1 .. n + 7 /\ m \in p .. n + 7 /\ m = n + 7 - i
    BY <2>3
  <2>5. ASSUME NEW k \in m + 1 .. n + 7 PROVE Ends(f[k], a, k)
    <3>1. n + 7 - k \in 0 .. n + 7 /\ p <= n + 7 - (n + 7 - k) /\ ~(i <= n + 7 - k)
          /\ n + 7 - (n + 7 - k) = k
      BY <2>3, <2>4
    <3>2. n + 7 - k \notin S
      BY <2>2, <3>1
    <3> QED BY <3>1, <3>2
  <2>6. f[m] = Piece(s, f, m)
    BY <2>4 DEF Pieces
  <2> HIDE DEF m
  <2>7. Along(a, s, n, m)
    <3>1. \A k \in m .. n : k \in p .. n
      BY <2>4
    <3> QED BY <3>1 DEF Along
  <2>8. Ends(f[m], a, m)
    BY <2>4, <2>5, <2>6, <2>7, PieceEnds
  <2> QED BY <2>3, <2>4, <2>8
<1>2. n + 7 - p \in 0 .. n + 7 /\ p <= n + 7 - (n + 7 - p) /\ n + 7 - (n + 7 - p) = p
  OBVIOUS
<1>3. n + 7 - p \notin S
  BY <1>1
<1> QED BY <1>2, <1>3

\* A string with its quotes.
LEMMA StringSkips ==
  ASSUME NEW n \in Nat, NEW a, NEW s, Ended(s, n), NEW p \in 1 .. n, Along(a, s, n, p),
         s[p] = QUOTE
  PROVE  Skips(StringAt(s, p), a, p)
<1> DEFINE r == parseString(s, p + 1)
           t == SubSeq(s, 1, p) \o Append(r.chars, NUL) \o SubSeq(s, p + Len(r.chars) + 2, Len(s))
           v == [ok |-> TRUE, type |-> "text", ptr |-> r.end, str |-> t]
<1>1. StringAt(s, p) = IF ~r.ok THEN Failed(s) ELSE v
  BY DEF StringAt
<1>2. v.ptr = r.end
  OBVIOUS
<1>3. r = parseString(s, p + 1)
  OBVIOUS
<1> HIDE DEF r, v
<1>4. Ends(r, a, p + 1)
  <2> DEFINE q == p + 1
  <2>1. q \in 1 .. n + 1 /\ q \in 1 .. n + 7 /\ q \in p .. n + 1 /\ p \in 1 .. n + 1
    OBVIOUS
  <2>2. r = parseString(s, q)
    BY <1>3
  <2> HIDE DEF q
  <2>3. PICK f : Pieces(f, s, n, q) /\ r = f[q]
    BY <2>1, <2>2, ParsedPieces
  <2>4. Along(a, s, n, q)
    BY <2>1, AlongAhead
  <2>5. Ends(r, a, q)
    BY <2>1, <2>3, <2>4, PiecesEnd
  <2> QED BY <2>5 DEF q
<1>5. ASSUME r.ok, NEW d \in Int, a[p - 1] = Plain(d) PROVE a[v.ptr - 1] = Plain(d)
  <2>1. a[p] = AfterChar(Plain(d), QUOTE)
    BY <1>5 DEF Along
  <2>2. a[p] = Quoted(d) /\ p + 1 - 1 = p
    BY <2>1, AfterPlain
  <2>3. a[r.end - 1] = Plain(d)
    BY <1>4, <1>5, <2>2 DEF Ends
  <2> QED BY <1>2, <2>3
<1>6. r.ok => Skips(v, a, p)
  BY <1>5 DEF Skips, PassesOver
<1> QED BY <1>1, <1>6, FailedSkips

\* A name, up to the first character of the value.
LEMMA NameSkips ==
  ASSUME NEW n \in Nat, NEW a, NEW s, Ended(s, n), NEW p \in 1 .. n, Along(a, s, n, p)
  PROVE  Skips(propertyName(s, p), a, p)
<1> DEFINE name == StringAt(s, p)
           colon == goBlank(name.str, name.ptr)
           value == goBlank(name.str, colon + 1)
           v == propertyName(s, p)
<1>1. v = IF s[p] # QUOTE \/ ~name.ok THEN Failed(s)
          ELSE IF colon = 0 THEN Failed(s)
          ELSE IF name.str[colon] # ":" THEN Failed(s)
          ELSE IF value = 0 THEN Failed(s)
          ELSE [ok |-> TRUE, type |-> "text", str |-> name.str, ptr |-> value]
  BY DEF propertyName
<1>2. CASE v = Failed(s)
  BY <1>2, FailedSkips
<1>3. CASE v # Failed(s)
  <2>1. name = StringAt(s, p) /\ colon = goBlank(name.str, name.ptr)
        /\ value = goBlank(name.str, colon + 1) /\ v = propertyName(s, p)
    OBVIOUS
  <2> HIDE DEF name, colon, value, v
  <2>2. s[p] = QUOTE /\ name.ok /\ colon # 0 /\ value # 0 /\ name.str[colon] = ":"
        /\ v = [ok |-> TRUE, type |-> "text", str |-> name.str, ptr |-> value]
    BY <1>1, <1>3
  <2>3. v.ptr = value
    BY <2>2
  <2>4. PassesOver(a, p, name.ptr)
    <3>1. Skips(name, a, p)
      BY <2>1, <2>2, StringSkips
    <3> QED BY <2>2, <3>1 DEF Skips
  <2>5. Ended(name.str, n) /\ name.ptr \in p + 1 .. n + 1 /\ Agree(s, name.str, n, p, name.ptr)
    <3>1. Reads(name, s, n, p)
      BY <2>1, StringReads
    <3> QED BY <2>2, <3>1 DEF Reads
  <2>6. Along(a, name.str, n, name.ptr) /\ name.ptr \in 1 .. n + 1
    <3>1. name.ptr \in 1 .. n + 1 /\ name.ptr \in p .. n + 1 /\ p \in 1 .. n + 1
      BY <2>5
    <3>2. \A k \in name.ptr .. n : k \in 1 .. n + 1 /\ k >= name.ptr
      BY <3>1
    <3>3. \A k \in name.ptr .. n : name.str[k] = s[k]
      BY <2>5, <3>2 DEF Agree
    <3> QED BY <3>1, <3>3, AlongAhead
  <2>7. colon \in name.ptr .. n /\ PassesOver(a, name.ptr, colon)
    <3>1. colon \in {0} \cup name.ptr .. n
      BY <2>1, <2>5, <2>6, GoWhile, Punctuation DEF goBlank
    <3>2. PassesOver(a, name.ptr, colon)
      BY <2>1, <2>2, <2>5, <2>6, GoWhilePasses, Punctuation, Ordinary DEF goBlank
    <3> QED BY <2>2, <3>1, <3>2
  <2>8. colon \in 1 .. n + 1 /\ colon + 1 \in colon .. n + 1 /\ colon + 1 \in 1 .. n + 1
        /\ colon \in name.ptr .. n + 1
    BY <2>6, <2>7
  <2>9. Along(a, name.str, n, colon) /\ Along(a, name.str, n, colon + 1)
    <3>1. Along(a, name.str, n, colon)
      BY <2>6, <2>8, AlongAhead
    <3> QED BY <2>8, <3>1, AlongAhead
  <2>10. PassesOver(a, colon, colon + 1)
    <3>1. \A k \in colon .. colon + 1 - 1 : k = colon
      BY <2>8
    <3>2. \A k \in colon .. colon + 1 - 1 : name.str[k] \notin Special
      BY <2>2, <3>1, Ordinary
    <3> QED BY <2>8, <2>9, <3>2, PassingText
  <2>11. PassesOver(a, colon + 1, value)
    BY <2>1, <2>2, <2>5, <2>8, <2>9, GoWhilePasses, Punctuation, Ordinary DEF goBlank
  <2>12. PassesOver(a, p, value)
    <3>1. PassesOver(a, p, colon)
      BY <2>4, <2>7, PassingFurther
    <3>2. PassesOver(a, p, colon + 1)
      BY <2>10, <3>1, PassingFurther
    <3> QED BY <2>11, <3>2, PassingFurther
  <2>13. Skips(v, a, p)
    BY <2>3, <2>12 DEF Skips
  <2> QED BY <2>1, <2>13
<1> QED BY <1>2, <1>3

\* A value that is no block.
LEMMA ValueSkips ==
  ASSUME NEW n \in Nat, NEW a, NEW s, Ended(s, n), NEW p \in 1 .. n, Along(a, s, n, p)
  PROVE  Skips(Value(s, p), a, p)
<1>1. s[p] = QUOTE => Skips(StringAt(s, p), a, p)
  BY StringSkips
<1>2. Skips(numValue(s, p), a, p)
  BY NumberSkips
<1>3. Skips(WordAt(s, p, <<"t", "r", "u", "e">>, "boolean"), a, p)
  <2> DEFINE w == <<"t", "r", "u", "e">>
  <2>1. Len(w) = 4 /\ \A k \in 1 .. 4 : w[k] \in Letters
    BY DEF Letters
  <2> HIDE DEF w
  <2>2. Len(w) \in Nat \ {0}
    BY <2>1
  <2>3. \A k \in 1 .. Len(w) : w[k] \notin Special
    BY <2>1, Ordinary
  <2>4. Skips(WordAt(s, p, w, "boolean"), a, p)
    BY <2>2, <2>3, WordSkips
  <2> QED BY <2>4 DEF w
<1>4. Skips(WordAt(s, p, <<"f", "a", "l", "s", "e">>, "boolean"), a, p)
  <2> DEFINE w == <<"f", "a", "l", "s", "e">>
  <2>1. Len(w) = 5 /\ \A k \in 1 .. 5 : w[k] \in Letters
    BY DEF Letters
  <2> HIDE DEF w
  <2>2. Len(w) \in Nat \ {0}
    BY <2>1
  <2>3. \A k \in 1 .. Len(w) : w[k] \notin Special
    BY <2>1, Ordinary
  <2>4. Skips(WordAt(s, p, w, "boolean"), a, p)
    BY <2>2, <2>3, WordSkips
  <2> QED BY <2>4 DEF w
<1>5. Skips(WordAt(s, p, <<"n", "u", "l", "l">>, "null"), a, p)
  <2> DEFINE w == <<"n", "u", "l", "l">>
  <2>1. Len(w) = 4 /\ \A k \in 1 .. 4 : w[k] \in Letters
    BY DEF Letters
  <2> HIDE DEF w
  <2>2. Len(w) \in Nat \ {0}
    BY <2>1
  <2>3. \A k \in 1 .. Len(w) : w[k] \notin Special
    BY <2>1, Ordinary
  <2>4. Skips(WordAt(s, p, w, "null"), a, p)
    BY <2>2, <2>3, WordSkips
  <2> QED BY <2>4 DEF w
<1> QED BY <1>1, <1>2, <1>3, <1>4, <1>5 DEF Value

\* Nesting is what it says of itself: a function that satisfies it exists.
NestsTo(f, t, m) ==
  f[0] = Plain(0) /\ \A k \in 1 .. m : f[k] = AfterChar(f[k - 1], t[k])

LEMMA NestingExists ==
  ASSUME NEW N \in Nat, NEW t
  PROVE  \E f : NestsTo(f, t, N)
<1> DEFINE S == {m \in 0 .. N : ~\E f : NestsTo(f, t, m)}
<1>1. S = {}
  <2> SUFFICES ASSUME S # {} PROVE FALSE
    OBVIOUS
  <2>1. S \in SUBSET Nat
    <3>1. S \subseteq 0 .. N
      OBVIOUS
    <3> HIDE DEF S
    <3> QED BY <3>1
  <2>2. PICK m \in S : \A j \in S : m <= j
    <3> HIDE DEF S
    <3> QED BY <2>1, Least
  <2>3. m \in 0 .. N /\ ~\E f : NestsTo(f, t, m)
    BY <2>2
  <2>4. CASE m = 0
    <3> DEFINE g == [k \in {0} |-> Plain(0)]
    <3>1. g[0] = Plain(0)
      OBVIOUS
    <3> HIDE DEF g
    <3>2. 1 .. m = {}
      BY <2>4
    <3>3. NestsTo(g, t, m)
      BY <3>1, <3>2 DEF NestsTo
    <3> QED BY <2>3, <3>3
  <2>5. CASE m # 0
    <3>1. m - 1 \in 0 .. N /\ ~(m <= m - 1)
      BY <2>3, <2>5
    <3>2. m - 1 \notin S
      BY <2>2, <3>1
    <3>3. PICK f : NestsTo(f, t, m - 1)
      BY <3>1, <3>2
    <3> DEFINE x == AfterChar(f[m - 1], t[m])
               g == [k \in 0 .. m |-> IF k = m THEN x ELSE f[k]]
    <3>4. x = AfterChar(f[m - 1], t[m])
      OBVIOUS
    <3> HIDE DEF x, S
    <3>5. g[m] = x /\ \A k \in 0 .. m - 1 : g[k] = f[k]
      BY <2>3
    <3> HIDE DEF g
    <3>6. g[0] = Plain(0)
      <4>1. 0 \in 0 .. m - 1
        BY <2>3, <2>5
      <4> QED BY <3>3, <3>5, <4>1 DEF NestsTo
    <3>7. ASSUME NEW k \in 1 .. m PROVE g[k] = AfterChar(g[k - 1], t[k])
      <4>1. k - 1 \in 0 .. m - 1
        BY <2>3
      <4>2. g[k - 1] = f[k - 1]
        BY <3>5, <4>1
      <4>3. CASE k = m
        BY <3>4, <3>5, <4>2, <4>3
      <4>4. CASE k # m
        <5>1. k \in 1 .. m - 1 /\ k \in 0 .. m - 1
          BY <2>3, <4>4
        <5>2. f[k] = AfterChar(f[k - 1], t[k]) /\ g[k] = f[k]
          BY <3>3, <3>5, <5>1 DEF NestsTo
        <5> QED BY <4>2, <5>2
      <4> QED BY <4>3, <4>4
    <3>8. NestsTo(g, t, m)
      BY <3>6, <3>7 DEF NestsTo
    <3> QED BY <2>3, <3>8
  <2> QED BY <2>4, <2>5
<1>2. N \in 0 .. N /\ N \notin S
  BY <1>1
<1> QED BY <1>2

LEMMA NestingIs ==
  ASSUME NEW t, Len(t) \in Nat
  PROVE  NestsTo(Nesting(t), t, Len(t))
<1> DEFINE N == Len(t)
           F(f) == [k \in 0 .. N |-> IF k = 0 THEN Plain(0) ELSE AfterChar(f[k - 1], t[k])]
           at[k \in 0 .. N] == IF k = 0 THEN Plain(0) ELSE AfterChar(at[k - 1], t[k])
<1>1. Nesting(t) = at
  BY DEF Nesting
<1>2. at = CHOOSE f : f = F(f)
  OBVIOUS
<1>3. N \in Nat
  OBVIOUS
<1> HIDE DEF at, N
<1>4. \E f : f = F(f)
  <2>1. PICK g : NestsTo(g, t, N)
    BY <1>3, NestingExists
  <2> DEFINE f == [k \in 0 .. N |-> g[k]]
  <2>2. \A k \in 0 .. N : f[k] = g[k]
    OBVIOUS
  <2>3. ASSUME NEW k \in 0 .. N
        PROVE  f[k] = IF k = 0 THEN Plain(0) ELSE AfterChar(f[k - 1], t[k])
    <3>1. CASE k = 0
      BY <2>1, <2>2, <3>1 DEF NestsTo
    <3>2. CASE k # 0
      <4>1. k \in 1 .. N /\ k - 1 \in 0 .. N
        BY <1>3, <3>2
      <4>2. f[k - 1] = g[k - 1] /\ f[k] = g[k]
        BY <2>2, <4>1
      <4>3. g[k] = AfterChar(g[k - 1], t[k])
        BY <2>1, <4>1 DEF NestsTo
      <4> QED BY <3>2, <4>2, <4>3
    <3> QED BY <3>1, <3>2
  <2>4. f = [k \in 0 .. N |-> f[k]]
    BY <2>2
  <2> HIDE DEF f
  <2>5. f = F(f)
    BY <2>3, <2>4
  <2> QED BY <2>5
<1>5. at = F(at)
  <2> HIDE DEF F
  <2> QED BY <1>2, <1>4
<1>6. ASSUME NEW k \in 0 .. N
      PROVE  at[k] = IF k = 0 THEN Plain(0) ELSE AfterChar(at[k - 1], t[k])
  BY <1>5
<1>7. at[0] = Plain(0)
  <2>1. 0 \in 0 .. N
    BY <1>3
  <2> QED BY <1>6, <2>1
<1>8. ASSUME NEW k \in 1 .. N PROVE at[k] = AfterChar(at[k - 1], t[k])
  <2>1. k \in 0 .. N /\ k # 0
    BY <1>3
  <2> QED BY <1>6, <2>1
<1>9. NestsTo(at, t, N)
  BY <1>7, <1>8 DEF NestsTo
<1> QED BY <1>1, <1>9 DEF N

-----------------------------------------------------------------------------
(* The text, and the turns of the loop.                                    *)

\* The text as long as it arrived, and what lies ahead as it arrived.
TextInv ==
  /\ doc \in Documents /\ style \in Styles /\ cut \in Nat /\ cut <= Len(Text)
  /\ Ended(str, cut) /\ ptr \in 1 .. cut + 1
  /\ phase \in {"start", "parse", "done", "failed"}
  /\ phase \in {"start", "parse"} => \A k \in ptr .. cut : str[k] = Text[k]

\* What a turn that does not fail does to the text.
Turn == Ended(str', cut) /\ ptr' \in ptr + 1 .. cut + 1 /\ Agree(str, str', cut, ptr, ptr')

\* Where the next thing begins.
LEMMA HereIs ==
  ASSUME TextInv
  PROVE  /\ Here \in {0} \cup ptr .. cut
         /\ Here # 0 => Here \in 1 .. cut /\ Here \in ptr .. cut
<1>1. cut \in Nat /\ Ended(str, cut) /\ ptr \in 1 .. cut + 1
  BY DEF TextInv
<1>2. Here \in {0} \cup ptr .. cut
  BY <1>1, GoWhile, Punctuation DEF Here, goBlank
<1> QED BY <1>1, <1>2

\* Nothing is written, and the position moves.
LEMMA TurnWithout ==
  ASSUME TextInv, str' = str, ptr' \in ptr + 1 .. cut + 1
  PROVE  Turn
BY DEF TextInv, Turn, Agree

\* A terminator is written over the character at a position behind ptr.
LEMMA TurnOver ==
  ASSUME TextInv, NEW p \in ptr .. cut, str' = [str EXCEPT ![p] = NUL], ptr' = p + 1
  PROVE  Turn
<1>1. cut \in Nat /\ Ended(str, cut) /\ ptr \in 1 .. cut + 1
  BY DEF TextInv
<1>2. str \in [1 .. cut + 1 -> Bytes] /\ NUL \in Bytes /\ str[cut + 1] = NUL
  BY <1>1, EndedMeans, Punctuation
<1>3. p \in 1 .. cut + 1 /\ p # cut + 1 /\ cut + 1 \in 1 .. cut + 1
  BY <1>1
<1>4. str' \in [1 .. cut + 1 -> Bytes] /\ str'[cut + 1] = NUL
      /\ \A k \in 1 .. cut + 1 : k # p => str'[k] = str[k]
  BY <1>2, <1>3
<1>5. Ended(str', cut)
  BY <1>1, <1>4, EndedIs
<1>6. ptr' \in ptr + 1 .. cut + 1
  BY <1>1
<1>7. Agree(str, str', cut, ptr, ptr')
  <2>1. \A k \in 1 .. cut + 1 : k < ptr \/ k >= ptr' => k # p
    BY <1>1
  <2> QED BY <1>4, <2>1 DEF Agree
<1> QED BY <1>5, <1>6, <1>7 DEF Turn

\* The text of a step that fails.
LEMMA FailKeeps == Fail => UNCHANGED <<str, ptr, obj, pool, free>> /\ phase' = "failed"
BY DEF Fail

LEMMA CreateTurns ==
  ASSUME TextInv, phase = "start", ptr = 1, json_create
  PROVE  Fail \/ (Turn /\ phase' = "parse" /\ obj' = 1 /\ free' = 2
                  /\ \E c : pool' = [pool EXCEPT ![1] = Node(0, BlockType(c), 0, 0)])
<1> DEFINE p == goBlank(str, 1)
<1>1. cut \in Nat /\ Ended(str, cut) /\ ptr \in 1 .. cut + 1
  BY DEF TextInv
<1>2. p \in {0} \cup 1 .. cut
  <2>1. 1 \in 1 .. cut + 1
    BY <1>1
  <2> QED BY <1>1, <2>1, GoWhile, Punctuation DEF goBlank
<1>3. Fail \/ (p # 0 /\ pool' = [pool EXCEPT ![1] = Node(0, BlockType(str[p]), 0, 0)]
               /\ obj' = 1 /\ free' = 2 /\ ptr' = p + 1 /\ phase' = "parse" /\ str' = str)
  BY DEF json_create
<1> HIDE DEF p
<1>4. p # 0 /\ ptr' = p + 1 => ptr' \in ptr + 1 .. cut + 1
  BY <1>1, <1>2
<1> QED BY <1>3, <1>4, TurnWithout

LEMMA CommaTurns ==
  ASSUME TextInv, Comma
  PROVE  Turn
<1>1. Here # 0 /\ ptr' = Here + 1 /\ str' = str
  BY DEF Comma
<1>2. ptr' \in ptr + 1 .. cut + 1
  <2>1. cut \in Nat /\ ptr \in 1 .. cut + 1
    BY DEF TextInv
  <2> QED BY <1>1, <2>1, HereIs
<1> QED BY <1>1, <1>2, TurnWithout

LEMMA CloseTurns ==
  ASSUME TextInv, CloseBlock
  PROVE  Turn
<1>1. Here # 0 /\ ptr' = Here + 1 /\ str' = [str EXCEPT ![Here] = NUL]
  BY DEF CloseBlock
<1>2. Here \in ptr .. cut
  BY <1>1, HereIs
<1> QED BY <1>1, <1>2, TurnOver

\* What a property adds to the nodes; x is its type, y where its value is.
Added(named, x, y, parent) ==
  pool' = add(pool, obj, free, Node(IF named THEN Here + 1 ELSE 0, x, y, parent))
    /\ free' = free + 1

LEMMA PropertyTurns ==
  ASSUME TextInv, Property
  PROVE  /\ UNCHANGED docVars /\ phase = "parse" /\ Here # 0
         /\ \/ Fail
            \/ /\ Turn /\ phase' = phase /\ ~PoolEmpty
               /\ \E named \in BOOLEAN, x \in Types, y \in 1 .. cut + 1 :
                    \/ Added(named, x, y, 0) /\ obj' = obj
                    \/ Added(named, x, y, obj) /\ obj' = free
<1> DEFINE named == pool[obj].type = "object"
           none == [ok |-> TRUE, str |-> str, ptr |-> Here]
           r == IF named THEN propertyName(str, Here) ELSE none
           n(type, value, parent) == Node(IF named THEN Here + 1 ELSE 0, type, value, parent)
           v == Value(r.str, r.ptr)
           block == /\ pool' = add(pool, obj, free, n(BlockType(r.str[r.ptr]), r.ptr, obj))
                    /\ str' = r.str /\ ptr' = r.ptr + 1 /\ obj' = free /\ free' = free + 1
                    /\ UNCHANGED phase
           leaf == /\ pool' = add(pool, obj, free,
                               n(v.type, IF v.type = "text" THEN r.ptr + 1 ELSE r.ptr, 0))
                   /\ str' = v.str /\ ptr' = v.ptr /\ free' = free + 1
                   /\ UNCHANGED <<obj, phase>>
<1>1. cut \in Nat /\ Ended(str, cut) /\ ptr \in 1 .. cut + 1
  BY DEF TextInv
<1>2. UNCHANGED docVars /\ phase = "parse" /\ Here # 0
  BY DEF Property
<1>3. Here \in 1 .. cut /\ Here \in ptr .. cut
  BY <1>2, HereIs
<1>4. Fail \/ (~PoolEmpty /\ r.ok /\ block) \/ (~PoolEmpty /\ r.ok /\ v.ok /\ leaf)
  BY DEF Property
<1>5. r.ok => /\ Ended(r.str, cut) /\ r.ptr \in Here .. cut
              /\ Agree(str, r.str, cut, Here, r.ptr)
  <2>1. CASE named
    <3> DEFINE a == propertyName(str, Here)
    <3>1. r = a
      BY <2>1
    <3>2. Reads(a, str, cut, Here) /\ (a.ok => a.ptr \in Here + 1 .. cut)
      BY <1>1, <1>3, NameReads
    <3> HIDE DEF a, r
    <3>3. a.ok => Ended(a.str, cut) /\ Agree(str, a.str, cut, Here, a.ptr)
      BY <3>2 DEF Reads
    <3>4. a.ok => a.ptr \in Here .. cut
      BY <1>3, <3>2
    <3> QED BY <3>1, <3>3, <3>4
  <2>2. CASE ~named
    <3>1. r.str = str /\ r.ptr = Here
      BY <2>2
    <3>2. Here \in Here .. cut /\ Agree(str, str, cut, Here, Here)
      BY <1>3 DEF Agree
    <3> HIDE DEF r
    <3> QED BY <1>1, <3>1, <3>2
  <2> QED BY <2>1, <2>2
<1>6. named \in BOOLEAN
  OBVIOUS
<1> HIDE DEF r, named
<1>7. ASSUME ~PoolEmpty, r.ok, block
      PROVE  /\ Turn /\ phase' = phase
             /\ \E x \in Types, y \in 1 .. cut + 1 :
                  Added(named, x, y, obj) /\ obj' = free
  <2>1. BlockType(r.str[r.ptr]) \in Types
    BY DEF BlockType, Types
  <2>2. r.ptr \in 1 .. cut + 1 /\ ptr' \in ptr + 1 .. cut + 1 /\ ptr' > r.ptr
    BY <1>1, <1>3, <1>5, <1>7
  <2>3. Agree(str, str', cut, ptr, ptr')
    <3>1. \A k \in 1 .. cut + 1 : k < ptr \/ k >= ptr' => k < Here \/ k >= r.ptr
      BY <1>1, <1>3, <1>5, <1>7, <2>2
    <3> QED BY <1>5, <1>7, <3>1 DEF Agree
  <2>4. Turn
    BY <1>5, <1>7, <2>2, <2>3 DEF Turn
  <2>5. Added(named, BlockType(r.str[r.ptr]), r.ptr, obj) /\ obj' = free
    BY <1>7 DEF Added
  <2> QED BY <1>7, <2>1, <2>2, <2>4, <2>5
<1>8. ASSUME ~PoolEmpty, r.ok, v.ok, leaf
      PROVE  /\ Turn /\ phase' = phase
             /\ \E x \in Types, y \in 1 .. cut + 1 :
                  Added(named, x, y, 0) /\ obj' = obj
  <2>1. Reads(v, r.str, cut, r.ptr)
    <3>1. r.ptr \in 1 .. cut
      BY <1>3, <1>5, <1>8
    <3> QED BY <1>1, <1>5, <1>8, <3>1, ValueReads
  <2> DEFINE y == IF v.type = "text" THEN r.ptr + 1 ELSE r.ptr
  <2>2. Added(named, v.type, y, 0) /\ obj' = obj
    BY <1>8 DEF Added
  <2>3. y \in {r.ptr, r.ptr + 1}
    OBVIOUS
  <2>4. str' = v.str /\ ptr' = v.ptr /\ phase' = phase
    BY <1>8
  <2> HIDE DEF v, y
  <2>5. Ended(v.str, cut) /\ v.ptr \in r.ptr + 1 .. cut + 1
        /\ Agree(r.str, v.str, cut, r.ptr, v.ptr) /\ v.type \in Types
    BY <1>8, <2>1 DEF Reads
  <2>6. y \in 1 .. cut + 1 /\ ptr' \in ptr + 1 .. cut + 1 /\ ptr' > r.ptr
    BY <1>1, <1>3, <1>5, <1>8, <2>3, <2>4, <2>5
  <2>7. Agree(str, str', cut, ptr, ptr')
    <3>1. \A k \in 1 .. cut + 1 : k < ptr \/ k >= ptr'
            => (k < Here \/ k >= r.ptr) /\ (k < r.ptr \/ k >= v.ptr)
      BY <1>1, <1>3, <1>5, <1>8, <2>4, <2>6
    <3> QED BY <1>5, <1>8, <2>4, <2>5, <3>1 DEF Agree
  <2>8. Turn
    BY <2>4, <2>5, <2>6, <2>7 DEF Turn
  <2> QED BY <2>2, <2>4, <2>5, <2>6, <2>8
<1> HIDE DEF v, block, leaf
<1>9. ASSUME ~PoolEmpty, Turn, phase' = phase,
             \E x \in Types, y \in 1 .. cut + 1 :
               \/ Added(named, x, y, 0) /\ obj' = obj
               \/ Added(named, x, y, obj) /\ obj' = free
      PROVE  /\ Turn /\ phase' = phase /\ ~PoolEmpty
             /\ \E nm \in BOOLEAN, x \in Types, y \in 1 .. cut + 1 :
                  \/ Added(nm, x, y, 0) /\ obj' = obj
                  \/ Added(nm, x, y, obj) /\ obj' = free
  BY <1>6, <1>9
<1> QED BY <1>2, <1>4, <1>7, <1>8, <1>9

-----------------------------------------------------------------------------
(* The nodes.                                                              *)

\* Nodes of a text of c characters, of which the nodes before f are linked.
NodeSet(C, L) == [name : C, type : Types, value : C, child : L, last : L, sibling : L]
NodeOf(c, f) == NodeSet(0 .. c + 1, 0 .. f - 1)

\* A block that is still open has its parent for a sibling.
IsOpen(nodes, k) == k = 1 \/ nodes[k].sibling \in 1 .. k - 1

OpenNodes(nodes, f) == {k \in 1 .. f - 1 : IsOpen(nodes, k)}

\* k comes after i in a chain that is complete so far.
Follows(nodes, i, k) == ~IsOpen(nodes, i) /\ nodes[i].sibling = k

\* k is linked from one place, in a node before it.
OnePlace(nodes, f, k) ==
  \E i \in 1 .. k - 1 :
    /\ nodes[i].child = k <=> ~Follows(nodes, i, k)
    /\ \A j \in 1 .. f - 1 : j # i => nodes[j].child # k /\ ~Follows(nodes, j, k)

\* Links go to later nodes; the last child is the end of its chain, or open.
LinksForward(nodes, f, k) ==
  /\ nodes[k].child \in {0} \cup k + 1 .. f - 1
  /\ nodes[k].last \in {0} \cup k + 1 .. f - 1
  /\ nodes[k].child = 0 <=> nodes[k].last = 0
  /\ ~IsOpen(nodes, k) => nodes[k].sibling \in {0} \cup k + 1 .. f - 1
  /\ nodes[k].last # 0 => IsOpen(nodes, nodes[k].last) \/ nodes[nodes[k].last].sibling = 0

\* The open blocks are o, its parent, and so on up to the root.
OpenBlocks(nodes, f, o) ==
  /\ o \in 1 .. f - 1 /\ IsOpen(nodes, o) /\ nodes[1].sibling = 0
  /\ \A k \in 1 .. f - 1 : IsOpen(nodes, k) => k <= o
  /\ \A k \in 2 .. f - 1 : IsOpen(nodes, k) =>
       /\ IsOpen(nodes, nodes[k].sibling)
       /\ \A j \in 1 .. k - 1 : IsOpen(nodes, j) => j <= nodes[k].sibling

Forest(nodes, f, o) ==
  /\ OpenBlocks(nodes, f, o)
  /\ \A k \in 1 .. f - 1 : LinksForward(nodes, f, k)
  /\ \A i, j \in 1 .. f - 1 : i # j /\ nodes[i].last # 0 => nodes[i].last # nodes[j].last
  /\ \A k \in 2 .. f - 1 : OnePlace(nodes, f, k)

\* What a node looks like.
LEMMA NodeFields ==
  ASSUME NEW name, NEW type, NEW value, NEW parent
  PROVE  LET n == Node(name, type, value, parent)
         IN  /\ n.name = name /\ n.type = type /\ n.value = value /\ n.sibling = parent
             /\ n.child = 0 /\ n.last = 0
             /\ n = [name |-> name, type |-> type, value |-> value, child |-> 0,
                     last |-> 0, sibling |-> parent]
BY DEF Node

\* A node, and one of its links changed.
LEMMA LastChanged ==
  ASSUME NEW C, NEW L, NEW x \in NodeSet(C, L), NEW y \in L,
         NEW z, z = [x EXCEPT !.last = y]
  PROVE  z \in NodeSet(C, L) /\ z.child = x.child /\ z.last = y /\ z.sibling = x.sibling
<1>1. z \in NodeSet(C, L)
  BY DEF NodeSet
<1>2. z.child = x.child
  BY DEF NodeSet
<1>3. z.last = y
  BY DEF NodeSet
<1>4. z.sibling = x.sibling
  BY DEF NodeSet
<1> QED BY <1>1, <1>2, <1>3, <1>4

LEMMA ChildChanged ==
  ASSUME NEW C, NEW L, NEW x \in NodeSet(C, L), NEW y \in L,
         NEW z, z = [x EXCEPT !.child = y]
  PROVE  z \in NodeSet(C, L) /\ z.child = y /\ z.last = x.last /\ z.sibling = x.sibling
<1>1. z \in NodeSet(C, L)
  BY DEF NodeSet
<1>2. z.child = y
  BY DEF NodeSet
<1>3. z.last = x.last
  BY DEF NodeSet
<1>4. z.sibling = x.sibling
  BY DEF NodeSet
<1> QED BY <1>1, <1>2, <1>3, <1>4

LEMMA SiblingChanged ==
  ASSUME NEW C, NEW L, NEW x \in NodeSet(C, L), NEW y \in L,
         NEW z, z = [x EXCEPT !.sibling = y]
  PROVE  z \in NodeSet(C, L) /\ z.child = x.child /\ z.last = x.last /\ z.sibling = y
<1>1. z \in NodeSet(C, L)
  BY DEF NodeSet
<1>2. z.child = x.child
  BY DEF NodeSet
<1>3. z.last = x.last
  BY DEF NodeSet
<1>4. z.sibling = y
  BY DEF NodeSet
<1> QED BY <1>1, <1>2, <1>3, <1>4

\* What add does to the links.
Linked(nodes, new, q, o, f, n) ==
  LET l == nodes[o].last
  IN  /\ new[f] = n
      /\ \A k \in 1 .. q : k # f /\ k # o /\ (l = 0 \/ k # l) => new[k] = nodes[k]
      /\ new[o].child = (IF l = 0 THEN f ELSE nodes[o].child)
      /\ new[o].last = f /\ new[o].sibling = nodes[o].sibling
      /\ l # 0 => /\ new[l].child = nodes[l].child /\ new[l].last = nodes[l].last
                  /\ new[l].sibling = f

LEMMA AddLinks ==
  ASSUME NEW C, NEW L, NEW q \in Nat, NEW nodes \in [1 .. q -> NodeSet(C, L)],
         NEW o \in 1 .. q, NEW f \in 1 .. q, o < f, f \in L,
         NEW n \in NodeSet(C, L),
         nodes[o].last # 0 => nodes[o].last \in o + 1 .. f - 1
  PROVE  /\ add(nodes, o, f, n) \in [1 .. q -> NodeSet(C, L)]
         /\ Linked(nodes, add(nodes, o, f, n), q, o, f, n)
<1> DEFINE l == nodes[o].last
           with == [nodes EXCEPT ![f] = n, ![o].last = f]
           new == add(nodes, o, f, n)
           P == NodeSet(C, L)
           x == [nodes[o] EXCEPT !.last = f]
<1>1. new = IF l = 0 THEN [with EXCEPT ![o].child = f] ELSE [with EXCEPT ![l].sibling = f]
  BY DEF add
<1>2. nodes[o] \in P
  OBVIOUS
<1>3. x \in P /\ x.child = nodes[o].child /\ x.last = f /\ x.sibling = nodes[o].sibling
  <2>1. x = [nodes[o] EXCEPT !.last = f]
    OBVIOUS
  <2> HIDE DEF x
  <2> QED BY <1>2, <2>1, LastChanged
<1>4. with = [[nodes EXCEPT ![f] = n] EXCEPT ![o] = x]
  <2>1. with = [[nodes EXCEPT ![f] = n] EXCEPT ![o] = [@ EXCEPT !.last = f]]
    OBVIOUS
  <2>2. [nodes EXCEPT ![f] = n][o] = nodes[o]
    OBVIOUS
  <2> QED BY <2>1, <2>2
<1>5. with \in [1 .. q -> P] /\ with[f] = n /\ with[o] = x
      /\ \A k \in 1 .. q : k # f /\ k # o => with[k] = nodes[k]
  <2> HIDE DEF x, P
  <2> QED BY <1>3, <1>4 DEF P
<1>6. l # 0 => l \in 1 .. q /\ l # o /\ l # f
  OBVIOUS
<1>7. l = nodes[o].last /\ P = NodeSet(C, L) /\ new = add(nodes, o, f, n)
  OBVIOUS
<1> HIDE DEF with, x, l, P, new
<1>8. CASE l = 0
  <2> DEFINE y == [x EXCEPT !.child = f]
  <2>1. y \in P /\ y.child = f /\ y.last = f /\ y.sibling = nodes[o].sibling
    <3>1. y = [x EXCEPT !.child = f]
      OBVIOUS
    <3> HIDE DEF y
    <3> QED BY <1>3, <3>1, ChildChanged DEF P
  <2>2. new = [with EXCEPT ![o] = [@ EXCEPT !.child = f]]
    BY <1>1, <1>8
  <2>3. new = [with EXCEPT ![o] = y]
    BY <1>5, <2>2
  <2> HIDE DEF y
  <2>4. new \in [1 .. q -> P] /\ new[f] = n /\ new[o] = y
        /\ \A k \in 1 .. q : k # f /\ k # o => new[k] = nodes[k]
    BY <1>5, <2>1, <2>3
  <2> QED BY <1>7, <1>8, <2>1, <2>4 DEF Linked
<1>9. CASE l # 0
  <2> DEFINE y == [nodes[l] EXCEPT !.sibling = f]
  <2>1. y \in P /\ y.child = nodes[l].child /\ y.last = nodes[l].last /\ y.sibling = f
    <3>1. nodes[l] \in P
      BY <1>6, <1>7, <1>9
    <3>2. y = [nodes[l] EXCEPT !.sibling = f]
      OBVIOUS
    <3> HIDE DEF y
    <3> QED BY <3>1, <3>2, SiblingChanged DEF P
  <2>2. new = [with EXCEPT ![l] = [@ EXCEPT !.sibling = f]]
    BY <1>1, <1>9
  <2>3. new = [with EXCEPT ![l] = y]
    BY <1>5, <1>6, <1>9, <2>2
  <2> HIDE DEF y
  <2>4. new \in [1 .. q -> P] /\ new[f] = n /\ new[o] = x /\ new[l] = y
        /\ \A k \in 1 .. q : k # f /\ k # o /\ k # l => new[k] = nodes[k]
    BY <1>5, <1>6, <1>9, <2>1, <2>3
  <2> QED BY <1>3, <1>7, <1>9, <2>1, <2>4 DEF Linked
<1> QED BY <1>8, <1>9

\* The nodes that are linked from the start are among those linked later.
LEMMA NodesGrow ==
  ASSUME NEW c, NEW f \in Nat
  PROVE  NodeOf(c, f) \subseteq NodeOf(c, f + 1)
<1>1. 0 .. f - 1 \subseteq 0 .. f + 1 - 1
  OBVIOUS
<1>2. ASSUME NEW C, NEW L, NEW M, L \subseteq M
      PROVE  NodeSet(C, L) \subseteq NodeSet(C, M)
  BY <1>2 DEF NodeSet
<1> QED BY <1>1, <1>2 DEF NodeOf

LEMMA NewNode ==
  ASSUME NEW c, NEW f \in Nat, NEW name \in 0 .. c + 1, NEW type \in Types,
         NEW value \in 0 .. c + 1, NEW parent \in 0 .. f
  PROVE  Node(name, type, value, parent) \in NodeOf(c, f + 1)
<1>1. parent \in 0 .. f + 1 - 1 /\ 0 \in 0 .. f + 1 - 1
  OBVIOUS
<1> QED BY <1>1 DEF Node, NodeOf, NodeSet

\* The links of a node of the pool.
LEMMA NodeLinks ==
  ASSUME NEW c, NEW f, NEW n \in NodeOf(c, f)
  PROVE  n.child \in 0 .. f - 1 /\ n.last \in 0 .. f - 1 /\ n.sibling \in 0 .. f - 1
BY DEF NodeOf, NodeSet

\* Closing the open block o.
Closed(nodes, o) == [nodes EXCEPT ![o].sibling = 0]

LEMMA CloseForest ==
  ASSUME NEW q \in Nat, NEW c, NEW f \in 1 .. q + 1, NEW nodes \in [1 .. q -> NodeOf(c, f)],
         NEW o, Forest(nodes, f, o), nodes[o].sibling # 0
  PROVE  /\ Closed(nodes, o) \in [1 .. q -> NodeOf(c, f)]
         /\ Forest(Closed(nodes, o), f, nodes[o].sibling)
         /\ OpenNodes(Closed(nodes, o), f) = OpenNodes(nodes, f) \ {o}
<1> DEFINE x == [nodes[o] EXCEPT !.sibling = 0]
           new == Closed(nodes, o)
           p == nodes[o].sibling
<1>1. OpenBlocks(nodes, f, o)
  BY DEF Forest
<1>2. o \in 2 .. f - 1 /\ o \in 1 .. q /\ p \in 1 .. o - 1 /\ IsOpen(nodes, o)
  BY <1>1 DEF OpenBlocks, IsOpen
<1>3. 0 \in 0 .. f - 1
  OBVIOUS
<1>4. /\ x \in NodeOf(c, f) /\ x.child = nodes[o].child /\ x.last = nodes[o].last
      /\ x.sibling = 0
  <2>1. x = [nodes[o] EXCEPT !.sibling = 0]
    OBVIOUS
  <2>2. nodes[o] \in NodeSet(0 .. c + 1, 0 .. f - 1)
    BY <1>2 DEF NodeOf
  <2> HIDE DEF x
  <2> QED BY <1>3, <2>1, <2>2, SiblingChanged DEF NodeOf
<1>5. new = [nodes EXCEPT ![o] = x]
  BY DEF Closed
<1>6. p = nodes[o].sibling /\ new = Closed(nodes, o)
  OBVIOUS
<1> HIDE DEF x, new, p
<1>7. new \in [1 .. q -> NodeOf(c, f)] /\ new[o] = x
      /\ \A k \in 1 .. q : k # o => new[k] = nodes[k]
  BY <1>2, <1>4, <1>5
<1>8. \A k \in 1 .. q : new[k].child = nodes[k].child /\ new[k].last = nodes[k].last
  BY <1>4, <1>7
<1>9. \A k \in 1 .. q : new[k].sibling = IF k = o THEN 0 ELSE nodes[k].sibling
  BY <1>4, <1>7
<1>10. \A k \in 1 .. f - 1 : k \in 1 .. q
  OBVIOUS
<1>11. \A k \in 1 .. f - 1 : IsOpen(new, k) <=> IsOpen(nodes, k) /\ k # o
  BY <1>2, <1>9, <1>10 DEF IsOpen
<1>12. \A i, k \in 1 .. f - 1 : Follows(new, i, k) <=> Follows(nodes, i, k)
  BY <1>2, <1>9, <1>10, <1>11 DEF Follows
<1>13. OpenBlocks(new, f, p)
  <2>1. p \in 1 .. f - 1 /\ IsOpen(nodes, p)
    BY <1>1, <1>2, <1>6 DEF OpenBlocks
  <2>2. \A k \in 1 .. f - 1 : IsOpen(new, k) => k <= p
    BY <1>1, <1>2, <1>6, <1>11 DEF OpenBlocks
  <2>3. new[1].sibling = 0
    BY <1>1, <1>2, <1>9, <1>10 DEF OpenBlocks
  <2>4. ASSUME NEW k \in 2 .. f - 1, IsOpen(new, k)
        PROVE  /\ IsOpen(new, new[k].sibling)
               /\ \A j \in 1 .. k - 1 : IsOpen(new, j) => j <= new[k].sibling
    <3>1. k < o /\ new[k].sibling = nodes[k].sibling /\ IsOpen(nodes, k)
      BY <1>2, <1>9, <1>10, <1>11, <2>2, <2>4
    <3>2. new[k].sibling \in 1 .. k - 1
      BY <2>4 DEF IsOpen
    <3> QED BY <1>1, <1>11, <3>1, <3>2 DEF OpenBlocks
  <2> QED BY <1>2, <1>11, <2>1, <2>2, <2>3, <2>4 DEF OpenBlocks
<1>14. ASSUME NEW k \in 1 .. f - 1
       PROVE  LinksForward(new, f, k)
  <2>1. LinksForward(nodes, f, k)
    BY DEF Forest
  <2>2. nodes[k].last # 0 => nodes[k].last \in 1 .. f - 1
    BY <2>1 DEF LinksForward
  <2> QED BY <1>8, <1>9, <1>10, <1>11, <2>1, <2>2 DEF LinksForward
<1>15. \A k \in 2 .. f - 1 : OnePlace(new, f, k)
  <2> TAKE k \in 2 .. f - 1
  <2>1. OnePlace(nodes, f, k) /\ k \in 1 .. f - 1
    BY DEF Forest
  <2>2. PICK i \in 1 .. k - 1 :
          /\ nodes[i].child = k <=> ~Follows(nodes, i, k)
          /\ \A j \in 1 .. f - 1 : j # i => nodes[j].child # k /\ ~Follows(nodes, j, k)
    BY <2>1 DEF OnePlace
  <2>3. i \in 1 .. f - 1
    OBVIOUS
  <2>4. new[i].child = k <=> ~Follows(new, i, k)
    <3>1. new[i].child = nodes[i].child
      BY <1>8, <1>10, <2>3
    <3>2. Follows(new, i, k) <=> Follows(nodes, i, k)
      BY <1>12, <2>1, <2>3
    <3> QED BY <2>2, <3>1, <3>2
  <2>5. \A j \in 1 .. f - 1 : j # i => new[j].child # k /\ ~Follows(new, j, k)
    BY <1>8, <1>10, <1>12, <2>1, <2>2
  <2> QED BY <2>4, <2>5 DEF OnePlace
<1>16. \A i, j \in 1 .. f - 1 : i # j /\ new[i].last # 0 => new[i].last # new[j].last
  BY <1>8, <1>10 DEF Forest
<1>17. Forest(new, f, p)
  BY <1>13, <1>14, <1>15, <1>16 DEF Forest
<1>18. OpenNodes(new, f) = OpenNodes(nodes, f) \ {o}
  BY <1>11 DEF OpenNodes
<1> QED BY <1>6, <1>7, <1>17, <1>18

\* A node is added to the open block o: a leaf, or a block that is now open.
LEMMA AddForest ==
  ASSUME NEW q \in Nat, NEW c, NEW f \in 1 .. q, NEW nodes \in [1 .. q -> NodeOf(c, f)],
         NEW o, Forest(nodes, f, o),
         NEW n \in NodeOf(c, f + 1), n.child = 0, n.last = 0, n.sibling \in {0, o}
  PROVE  LET new == add(nodes, o, f, n)
         IN  /\ new \in [1 .. q -> NodeOf(c, f + 1)]
             /\ Forest(new, f + 1, IF n.sibling = 0 THEN o ELSE f)
             /\ n.sibling = 0 => OpenNodes(new, f + 1) = OpenNodes(nodes, f)
             /\ n.sibling # 0 => OpenNodes(new, f + 1) = OpenNodes(nodes, f) \cup {f}
<1> DEFINE new == add(nodes, o, f, n)
           l == nodes[o].last
           now == IF n.sibling = 0 THEN o ELSE f
<1>1. OpenBlocks(nodes, f, o) /\ o \in 1 .. f - 1 /\ o \in 1 .. q /\ o < f
      /\ IsOpen(nodes, o) /\ nodes[1].sibling = 0
  BY DEF Forest, OpenBlocks
<1>2. \A k \in 1 .. f - 1 : LinksForward(nodes, f, k) /\ k \in 1 .. q
  BY DEF Forest
<1>3. l # 0 => l \in o + 1 .. f - 1
  BY <1>1, <1>2 DEF LinksForward
<1>4. /\ new \in [1 .. q -> NodeOf(c, f + 1)] /\ new[f] = n
      /\ \A k \in 1 .. q : k # f /\ k # o /\ (l = 0 \/ k # l) => new[k] = nodes[k]
      /\ new[o].child = (IF l = 0 THEN f ELSE nodes[o].child)
      /\ new[o].last = f /\ new[o].sibling = nodes[o].sibling
      /\ l # 0 => /\ new[l].child = nodes[l].child /\ new[l].last = nodes[l].last
                  /\ new[l].sibling = f
  <2> DEFINE C == 0 .. c + 1
             L == 0 .. f + 1 - 1
  <2>1. NodeOf(c, f + 1) = NodeSet(C, L)
    BY DEF NodeOf
  <2>2. nodes \in [1 .. q -> NodeSet(C, L)]
    BY <2>1, NodesGrow
  <2>3. f \in L
    OBVIOUS
  <2>4. n \in NodeSet(C, L)
    BY <2>1
  <2> HIDE DEF C, L
  <2>5. /\ add(nodes, o, f, n) \in [1 .. q -> NodeSet(C, L)]
        /\ Linked(nodes, add(nodes, o, f, n), q, o, f, n)
    BY <1>1, <1>3, <2>2, <2>3, <2>4, AddLinks
  <2> QED BY <2>1, <2>5 DEF Linked
<1>5. \A k \in 1 .. f - 1 : /\ nodes[k].child \in 0 .. f - 1 /\ nodes[k].last \in 0 .. f - 1
                            /\ nodes[k].sibling \in 0 .. f - 1
  BY <1>2, NodeLinks
<1>6. l # 0 => ~IsOpen(nodes, l) /\ nodes[l].sibling = 0
  <2>1. l # 0 => ~IsOpen(nodes, l)
    BY <1>1, <1>3 DEF OpenBlocks
  <2> QED BY <1>1, <1>2, <2>1 DEF LinksForward
<1>7. l = nodes[o].last
  OBVIOUS
<1> HIDE DEF new, l
<1>8. \A k \in 1 .. f - 1 :
        /\ new[k].child = IF k = o /\ l = 0 THEN f ELSE nodes[k].child
        /\ new[k].last = IF k = o THEN f ELSE nodes[k].last
        /\ new[k].sibling = IF k = l THEN f ELSE nodes[k].sibling
  BY <1>1, <1>2, <1>3, <1>4
<1>9. new[f].child = 0 /\ new[f].last = 0 /\ new[f].sibling = n.sibling
  BY <1>4
<1>10. \A k \in 1 .. f - 1 : IsOpen(new, k) <=> IsOpen(nodes, k)
  <2> TAKE k \in 1 .. f - 1
  <2>1. CASE k = l
    <3>1. new[k].sibling = f /\ k # 1 /\ ~IsOpen(nodes, k)
      BY <1>1, <1>3, <1>6, <1>8, <2>1
    <3> QED BY <3>1 DEF IsOpen
  <2>2. CASE k # l
    BY <1>8, <2>2 DEF IsOpen
  <2> QED BY <2>1, <2>2
<1>11. IsOpen(new, f) <=> n.sibling # 0
  BY <1>1, <1>9 DEF IsOpen
<1>12. \A i, k \in 1 .. f - 1 : Follows(new, i, k) <=> Follows(nodes, i, k)
  BY <1>6, <1>8, <1>10 DEF Follows
<1>13. \A i \in 1 .. f - 1 : Follows(new, i, f) <=> i = l
  BY <1>3, <1>5, <1>6, <1>8, <1>10 DEF Follows
<1>14. \A k \in 1 .. f : ~Follows(new, f, k)
  BY <1>9, <1>11 DEF Follows
<1>15. OpenBlocks(new, f + 1, now)
  <2>1. now \in 1 .. f /\ IsOpen(new, now) /\ new[1].sibling = 0
    BY <1>1, <1>3, <1>8, <1>10, <1>11
  <2>2. \A k \in 1 .. f : IsOpen(new, k) => k <= now
    BY <1>1, <1>10, <1>11 DEF OpenBlocks
  <2>3. ASSUME NEW k \in 2 .. f, IsOpen(new, k)
        PROVE  /\ IsOpen(new, new[k].sibling)
               /\ \A j \in 1 .. k - 1 : IsOpen(new, j) => j <= new[k].sibling
    <3>1. CASE k = f
      <4>1. new[k].sibling = o
        BY <1>9, <1>11, <2>3, <3>1
      <4> QED BY <1>1, <1>10, <3>1, <4>1 DEF OpenBlocks
    <3>2. CASE k # f
      <4>1. k \in 2 .. f - 1 /\ IsOpen(nodes, k)
        BY <1>10, <2>3, <3>2
      <4>2. k # l
        BY <1>3, <1>6, <4>1
      <4>3. new[k].sibling = nodes[k].sibling /\ new[k].sibling \in 1 .. k - 1
        BY <1>8, <2>3, <4>1, <4>2 DEF IsOpen
      <4> QED BY <1>1, <1>10, <4>1, <4>3 DEF OpenBlocks
    <3> QED BY <3>1, <3>2
  <2> QED BY <2>1, <2>2, <2>3 DEF OpenBlocks
<1>16. ASSUME NEW k \in 1 .. f
       PROVE  LinksForward(new, f + 1, k)
  <2>1. CASE k = f
    BY <1>9, <1>11, <2>1 DEF LinksForward
  <2>2. CASE k = o
    <3>1. LinksForward(nodes, f, k)
      BY <1>1, <1>2, <2>2
    <3>2. new[k].child \in k + 1 .. f /\ new[k].child # 0
      BY <1>1, <1>7, <1>8, <2>2, <3>1 DEF LinksForward
    <3>3. new[k].last = f /\ IsOpen(new, k)
      BY <1>1, <1>8, <1>10, <2>2
    <3> QED BY <1>1, <1>9, <1>11, <2>2, <3>2, <3>3 DEF LinksForward
  <2>3. CASE k # f /\ k # o
    <3>1. LinksForward(nodes, f, k) /\ k \in 1 .. f - 1
      BY <1>2, <2>3
    <3>2. new[k].child = nodes[k].child /\ new[k].last = nodes[k].last
      BY <1>8, <2>3, <3>1
    <3>3. ~IsOpen(new, k) => new[k].sibling \in {0} \cup k + 1 .. f
      BY <1>8, <1>10, <3>1 DEF LinksForward
    <3>4. new[k].last # 0 => IsOpen(new, new[k].last) \/ new[new[k].last].sibling = 0
      <4> SUFFICES ASSUME new[k].last # 0
                   PROVE  IsOpen(new, new[k].last) \/ new[new[k].last].sibling = 0
        OBVIOUS
      <4> DEFINE m == nodes[k].last
      <4>1. m \in 1 .. f - 1 /\ (IsOpen(nodes, m) \/ nodes[m].sibling = 0)
        BY <3>1, <3>2 DEF LinksForward
      <4>2. m # l
        BY <1>1, <1>7, <2>3, <3>1, <3>2 DEF Forest
      <4> HIDE DEF m
      <4>3. IsOpen(new, m) \/ new[m].sibling = 0
        BY <1>8, <1>10, <4>1, <4>2
      <4> QED BY <3>2, <4>3 DEF m
    <3> QED BY <3>1, <3>2, <3>3, <3>4 DEF LinksForward
  <2> QED BY <2>1, <2>2, <2>3
<1>17. ASSUME NEW i \in 1 .. f, NEW j \in 1 .. f, i # j, new[i].last # 0
       PROVE  new[i].last # new[j].last
  <2>1. i \in 1 .. f - 1
    BY <1>9, <1>17
  <2>2. CASE j = f
    BY <1>9, <1>17, <2>2
  <2>3. CASE j # f /\ i # o /\ j # o
    BY <1>8, <1>17, <2>1, <2>3 DEF Forest
  <2>4. CASE j # f /\ (i = o \/ j = o)
    BY <1>5, <1>8, <1>17, <2>1, <2>4
  <2> QED BY <2>2, <2>3, <2>4
<1>18. ASSUME NEW k \in 2 .. f
       PROVE  OnePlace(new, f + 1, k)
  <2>1. CASE k = f
    <3> DEFINE i == IF l = 0 THEN o ELSE l
    <3>1. i \in 1 .. f - 1
      <4>1. l = 0 \/ l \in 1 .. f - 1
        BY <1>1, <1>3
      <4> QED BY <1>1, <4>1
    <3>2. new[i].child = f <=> ~Follows(new, i, f)
      BY <1>1, <1>3, <1>5, <1>8, <1>13
    <3>3. \A j \in 1 .. f : j # i => new[j].child # f /\ ~Follows(new, j, f)
      BY <1>1, <1>3, <1>5, <1>8, <1>9, <1>13, <1>14
    <3> HIDE DEF i
    <3> QED BY <2>1, <3>1, <3>2, <3>3 DEF OnePlace
  <2>2. CASE k # f
    <3>1. OnePlace(nodes, f, k) /\ k \in 1 .. f - 1
      BY <2>2 DEF Forest
    <3>2. PICK i \in 1 .. k - 1 :
            /\ nodes[i].child = k <=> ~Follows(nodes, i, k)
            /\ \A j \in 1 .. f - 1 : j # i => nodes[j].child # k /\ ~Follows(nodes, j, k)
      BY <3>1 DEF OnePlace
    <3>3. \A j \in 1 .. f - 1 : new[j].child = k <=> nodes[j].child = k
      BY <1>1, <1>2, <1>7, <1>8, <3>1 DEF LinksForward
    <3>4. i \in 1 .. f - 1
      BY <3>1
    <3>5. new[i].child = k <=> ~Follows(new, i, k)
      BY <1>12, <3>1, <3>2, <3>3, <3>4
    <3>6. \A j \in 1 .. f : j # i => new[j].child # k /\ ~Follows(new, j, k)
      BY <1>9, <1>12, <1>14, <3>1, <3>2, <3>3
    <3> QED BY <3>5, <3>6 DEF OnePlace
  <2> QED BY <2>1, <2>2
<1>19. Forest(new, f + 1, now)
  <2>1. 1 .. f + 1 - 1 = 1 .. f /\ 2 .. f + 1 - 1 = 2 .. f
    OBVIOUS
  <2> HIDE DEF now
  <2> QED BY <1>15, <1>16, <1>17, <1>18, <2>1 DEF Forest
<1>20. /\ n.sibling = 0 => OpenNodes(new, f + 1) = OpenNodes(nodes, f)
       /\ n.sibling # 0 => OpenNodes(new, f + 1) = OpenNodes(nodes, f) \cup {f}
  <2>1. \A k \in 1 .. f + 1 - 1 : k = f \/ k \in 1 .. f - 1
    OBVIOUS
  <2>2. f \in 1 .. f + 1 - 1 /\ \A k \in 1 .. f - 1 : k \in 1 .. f + 1 - 1
    OBVIOUS
  <2> QED BY <1>10, <1>11, <2>1, <2>2 DEF OpenNodes
<1> QED BY <1>4, <1>19, <1>20 DEF new

-----------------------------------------------------------------------------
(* The invariant.                                                          *)

\* The nodes, and how they are linked while the text is read.
PoolInv ==
  /\ free \in 1 .. Qty + 1 /\ obj \in 0 .. free - 1
  /\ pool \in [1 .. Qty -> NodeOf(cut, free)]
  /\ phase = "start" => ptr = 1 /\ free = 1 /\ obj = 0
  /\ phase \in {"parse", "done"} => Forest(pool, free, obj)
  /\ phase = "done" => obj = 1

ParserInv == TextInv /\ PoolInv

LEMMA InitInv == ParserInit => ParserInv
<1> SUFFICES ASSUME ParserInit PROVE ParserInv
  OBVIOUS
<1>1. Text \in Seq(Chars) /\ cut \in 0 .. Len(Text) /\ Len(Text) \in Nat
  BY ParserAssumption DEF ParserInit, Text
<1>2. cut \in Nat /\ cut <= Len(Text)
  BY <1>1
<1> DEFINE t == SubSeq(Text, 1, cut)
<1>3. t \in Seq(Chars) /\ Len(t) = cut /\ \A k \in 1 .. cut : t[k] = Text[k]
  BY <1>1, <1>2
<1>4. str = Append(t, NUL)
  BY DEF ParserInit
<1> HIDE DEF t
<1>5. t \in Seq(Bytes) /\ NUL \in Bytes
  <2>1. \A k \in 1 .. Len(t) : t[k] \in Chars
    BY <1>3
  <2>2. \A k \in 1 .. Len(t) : t[k] \in Bytes
    BY <2>1 DEF Bytes
  <2>3. NUL \in Bytes
    BY DEF Bytes
  <2>4. t = [k \in 1 .. Len(t) |-> t[k]] /\ Len(t) \in Nat
    BY <1>3
  <2> QED BY <2>2, <2>3, <2>4
<1>6. str \in Seq(Bytes) /\ Len(str) = cut + 1 /\ str[cut + 1] = NUL
      /\ \A k \in 1 .. cut : str[k] = t[k]
  BY <1>2, <1>3, <1>4, <1>5
<1>7. TextInv
  <2>1. Ended(str, cut)
    BY <1>6 DEF Ended
  <2>2. doc \in Documents /\ style \in Styles /\ ptr = 1 /\ phase = "start"
    BY DEF ParserInit
  <2>3. \A k \in 1 .. cut : str[k] = Text[k]
    BY <1>3, <1>6
  <2>4. ptr \in 1 .. cut + 1
    BY <1>2, <2>2
  <2> QED BY <1>2, <2>1, <2>2, <2>3, <2>4 DEF TextInv
<1>8. PoolInv
  <2>1. free = 1 /\ obj = 0 /\ ptr = 1 /\ phase = "start"
        /\ pool = [k \in 1 .. Qty |-> NoNode]
    BY DEF ParserInit
  <2>2. NoNode \in NodeOf(cut, 0 + 1)
    <3>1. 0 \in 0 .. cut + 1 /\ 0 \in 0 .. 0 /\ "none" \in Types
      BY <1>2 DEF Types
    <3> QED BY <3>1, NewNode DEF NoNode
  <2>3. free \in 1 .. Qty + 1 /\ obj \in 0 .. free - 1
    BY <2>1, ParserAssumption
  <2>4. 0 + 1 = 1
    OBVIOUS
  <2> QED BY <2>1, <2>2, <2>3, <2>4 DEF PoolInv
<1> QED BY <1>7, <1>8 DEF ParserInv

\* A turn keeps what is ahead as it arrived.
LEMMA TurnKeepsText ==
  ASSUME TextInv, phase \in {"start", "parse"}, Turn, UNCHANGED docVars,
         phase' \in {"parse", "done"}
  PROVE  TextInv'
<1>1. doc' = doc /\ style' = style /\ cut' = cut /\ Text' = Text
  BY DEF docVars, Text
<1>2. cut \in Nat /\ ptr \in 1 .. cut + 1 /\ \A k \in ptr .. cut : str[k] = Text[k]
  BY DEF TextInv
<1>3. Ended(str', cut) /\ ptr' \in 1 .. cut + 1
  BY <1>2 DEF Turn
<1>4. \A k \in ptr' .. cut : str'[k] = Text[k]
  <2> TAKE k \in ptr' .. cut
  <2>1. k \in ptr .. cut /\ k \in 1 .. cut + 1 /\ k >= ptr'
    BY <1>2 DEF Turn
  <2> QED BY <1>2, <2>1 DEF Turn, Agree
<1>5. doc' \in Documents /\ style' \in Styles /\ cut' \in Nat /\ cut' <= Len(Text')
  BY <1>1 DEF TextInv
<1> QED BY <1>1, <1>3, <1>4, <1>5 DEF TextInv

\* The root.
LEMMA CreateForest ==
  ASSUME NEW c \in Nat, NEW type \in Types, NEW q \in Nat \ {0},
         NEW nodes \in [1 .. q -> NodeOf(c, 1)]
  PROVE  LET new == [nodes EXCEPT ![1] = Node(0, type, 0, 0)]
         IN  new \in [1 .. q -> NodeOf(c, 2)] /\ Forest(new, 2, 1)
<1> DEFINE n == Node(0, type, 0, 0)
           new == [nodes EXCEPT ![1] = n]
<1>1. n \in NodeOf(c, 2)
  <2>1. 0 \in 0 .. c + 1 /\ 0 \in 0 .. 1 /\ 1 + 1 = 2
    OBVIOUS
  <2> QED BY <2>1, NewNode
<1>2. NodeOf(c, 1) \subseteq NodeOf(c, 2)
  <2>1. 1 + 1 = 2
    OBVIOUS
  <2> QED BY <2>1, NodesGrow
<1>3. n.child = 0 /\ n.last = 0 /\ n.sibling = 0
  BY NodeFields
<1> HIDE DEF n
<1>4. new \in [1 .. q -> NodeOf(c, 2)] /\ new[1] = n
  BY <1>1, <1>2
<1> HIDE DEF new
<1>5. \A k \in 1 .. 2 - 1 : k = 1
  OBVIOUS
<1>6. IsOpen(new, 1)
  BY DEF IsOpen
<1>7. OpenBlocks(new, 2, 1)
  BY <1>3, <1>4, <1>5, <1>6 DEF OpenBlocks
<1>8. LinksForward(new, 2, 1)
  BY <1>3, <1>4, <1>6 DEF LinksForward
<1>9. Forest(new, 2, 1)
  BY <1>5, <1>7, <1>8 DEF Forest
<1> QED BY <1>4, <1>9 DEF new, n

LEMMA CreateStep ==
  ASSUME ParserInv, json_create
  PROVE  /\ UNCHANGED docVars /\ phase = "start"
         /\ Fail \/ (Turn /\ phase' = "parse" /\ PoolInv')
<1>1. phase = "start" /\ ptr = 1 /\ UNCHANGED docVars
  BY DEF ParserInv, PoolInv, json_create
<1>2. SUFFICES ASSUME ~Fail
               PROVE  Turn /\ phase' = "parse" /\ PoolInv'
  BY <1>1
<1>3. Turn /\ phase' = "parse" /\ obj' = 1 /\ free' = 2
  BY <1>1, <1>2, CreateTurns DEF ParserInv
<1>4. PICK c : pool' = [pool EXCEPT ![1] = Node(0, BlockType(c), 0, 0)]
  BY <1>1, <1>2, CreateTurns DEF ParserInv
<1>5. cut \in Nat /\ pool \in [1 .. Qty -> NodeOf(cut, 1)]
  BY <1>1 DEF ParserInv, PoolInv, TextInv
<1>6. BlockType(c) \in Types
  BY DEF BlockType, Types
<1>7. pool' \in [1 .. Qty -> NodeOf(cut, 2)] /\ Forest(pool', 2, 1)
  BY <1>4, <1>5, <1>6, CreateForest, ParserAssumption
<1>8. cut' = cut
  BY <1>1 DEF docVars
<1>9. free' \in 1 .. Qty + 1 /\ obj' \in 0 .. free' - 1
  BY <1>3, ParserAssumption
<1> QED BY <1>3, <1>7, <1>8, <1>9 DEF PoolInv

LEMMA CommaStep ==
  ASSUME ParserInv, Comma
  PROVE  UNCHANGED docVars /\ phase = "parse" /\ phase' = "parse" /\ Turn /\ PoolInv'
<1>1. phase = "parse" /\ phase' = phase /\ UNCHANGED <<docVars, obj, pool, free>>
  BY DEF Comma
<1>2. Turn
  BY CommaTurns DEF ParserInv
<1>3. cut' = cut
  BY <1>1 DEF docVars
<1> QED BY <1>1, <1>2, <1>3 DEF ParserInv, PoolInv

LEMMA CloseStep ==
  ASSUME ParserInv, CloseBlock
  PROVE  /\ UNCHANGED docVars /\ phase = "parse" /\ phase' \in {"parse", "done"}
         /\ Turn /\ PoolInv'
         /\ phase' = "done" => obj = 1
         /\ phase' = "parse" => OpenNodes(pool', free') = OpenNodes(pool, free) \ {obj}
<1>1. phase = "parse" /\ UNCHANGED <<docVars, free>>
  BY DEF CloseBlock
<1>2. Turn
  BY CloseTurns DEF ParserInv
<1>3. cut' = cut
  BY <1>1 DEF docVars
<1>4. free \in 1 .. Qty + 1 /\ pool \in [1 .. Qty -> NodeOf(cut, free)]
      /\ obj \in 0 .. free - 1 /\ Forest(pool, free, obj)
  BY <1>1 DEF ParserInv, PoolInv
<1>5. CASE pool[obj].sibling = 0
  <2>1. phase' = "done" /\ obj' = obj /\ pool' = pool
    BY <1>5 DEF CloseBlock
  <2>2. obj = 1
    BY <1>4, <1>5 DEF Forest, OpenBlocks, IsOpen
  <2> QED BY <1>1, <1>2, <1>3, <1>4, <2>1, <2>2 DEF PoolInv
<1>6. CASE pool[obj].sibling # 0
  <2>1. phase' = phase /\ obj' = pool[obj].sibling /\ pool' = [pool EXCEPT ![obj].sibling = 0]
    BY <1>6 DEF CloseBlock
  <2>2. /\ pool' \in [1 .. Qty -> NodeOf(cut, free)] /\ Forest(pool', free, obj')
        /\ OpenNodes(pool', free') = OpenNodes(pool, free) \ {obj}
    <3>1. Qty \in Nat /\ free \in 1 .. Qty + 1
      BY <1>4, ParserAssumption
    <3>2. pool' = Closed(pool, obj)
      BY <2>1 DEF Closed
    <3>3. Closed(pool, obj) \in [1 .. Qty -> NodeOf(cut, free)]
      BY <1>4, <1>6, <3>1, CloseForest
    <3>4. Forest(Closed(pool, obj), free, pool[obj].sibling)
      BY <1>4, <1>6, <3>1, CloseForest
    <3>5. OpenNodes(Closed(pool, obj), free) = OpenNodes(pool, free) \ {obj}
      BY <1>4, <1>6, <3>1, CloseForest
    <3> QED BY <1>1, <2>1, <3>2, <3>3, <3>4, <3>5
  <2>3. obj' \in 0 .. free - 1
    BY <1>4, <2>2 DEF Forest, OpenBlocks
  <2>5. PoolInv'
    BY <1>1, <1>2, <1>3, <1>4, <2>1, <2>2, <2>3 DEF PoolInv
  <2> QED BY <1>1, <1>2, <2>1, <2>2, <2>5
<1> QED BY <1>1, <1>2, <1>5, <1>6

\* A leaf leaves open what was open, and a block is open itself.
Opened ==
  IF obj' = obj THEN OpenNodes(pool', free') = OpenNodes(pool, free)
  ELSE OpenNodes(pool', free') = OpenNodes(pool, free) \cup {free}

LEMMA PropertyStep ==
  ASSUME ParserInv, Property
  PROVE  /\ UNCHANGED docVars /\ phase = "parse"
         /\ Fail \/ (Turn /\ phase' = "parse" /\ PoolInv' /\ Opened)
<1>1. UNCHANGED docVars /\ phase = "parse" /\ Here # 0 /\ cut' = cut
  BY PropertyTurns DEF ParserInv, docVars
<1>2. SUFFICES ASSUME ~Fail
               PROVE  Turn /\ phase' = "parse" /\ PoolInv' /\ Opened
  BY <1>1
<1>3. Turn /\ phase' = phase /\ ~PoolEmpty
  BY <1>2, PropertyTurns DEF ParserInv
<1>4. PICK named \in BOOLEAN, x \in Types, y \in 1 .. cut + 1 :
        \/ Added(named, x, y, 0) /\ obj' = obj
        \/ Added(named, x, y, obj) /\ obj' = free
  BY <1>2, PropertyTurns DEF ParserInv
<1>5. PICK parent \in {0, obj} :
        Added(named, x, y, parent) /\ (parent = 0 => obj' = obj) /\ (parent # 0 => obj' = free)
  <2>1. obj # 0
    BY <1>1 DEF ParserInv, PoolInv, Forest, OpenBlocks
  <2> QED BY <1>4, <2>1
<1>6. free \in 1 .. Qty + 1 /\ pool \in [1 .. Qty -> NodeOf(cut, free)]
      /\ obj \in 1 .. free - 1 /\ Forest(pool, free, obj)
  BY <1>1 DEF ParserInv, PoolInv, Forest, OpenBlocks
<1>7. cut \in Nat /\ Here \in 1 .. cut /\ Qty \in Nat /\ free \in 1 .. Qty
  BY <1>1, <1>3, <1>6, HereIs, ParserAssumption DEF ParserInv, TextInv, PoolEmpty
<1> DEFINE name == IF named THEN Here + 1 ELSE 0
           n == Node(name, x, y, parent)
<1>8. name \in 0 .. cut + 1 /\ y \in 0 .. cut + 1 /\ parent \in 0 .. free
  BY <1>6, <1>7
<1>9. pool' = add(pool, obj, free, n) /\ free' = free + 1
  BY <1>5 DEF Added
<1> HIDE DEF name
<1>10. n \in NodeOf(cut, free + 1)
  BY <1>7, <1>8, NewNode
<1>11. n.child = 0 /\ n.last = 0 /\ n.sibling = parent
  BY NodeFields
<1> HIDE DEF n
<1>12. pool' \in [1 .. Qty -> NodeOf(cut, free + 1)]
       /\ Forest(pool', free + 1, IF n.sibling = 0 THEN obj ELSE free)
  BY <1>6, <1>7, <1>9, <1>10, <1>11, AddForest
<1>13. obj' = IF n.sibling = 0 THEN obj ELSE free
  BY <1>5, <1>11
<1>14. free' \in 1 .. Qty + 1 /\ obj' \in 0 .. free' - 1
  BY <1>6, <1>7, <1>9, <1>13
<1>15. phase' = "parse"
  BY <1>1, <1>3
<1>16. PoolInv'
  BY <1>1, <1>3, <1>9, <1>12, <1>13, <1>14, <1>15 DEF PoolInv
<1>17. Opened
  <2>1. obj' = obj <=> n.sibling = 0
    BY <1>6, <1>13
  <2>2. /\ n.sibling = 0 => OpenNodes(pool', free + 1) = OpenNodes(pool, free)
        /\ n.sibling # 0 => OpenNodes(pool', free + 1) = OpenNodes(pool, free) \cup {free}
    BY <1>6, <1>7, <1>9, <1>10, <1>11, AddForest
  <2> QED BY <1>9, <2>1, <2>2 DEF Opened
<1> QED BY <1>3, <1>15, <1>16, <1>17

\* A step fails, or it is a turn that keeps the invariant.
LEMMA StepIs ==
  ASSUME ParserInv, ParserNext
  PROVE  /\ UNCHANGED docVars /\ phase \in {"start", "parse"}
         /\ Fail \/ (Turn /\ phase' \in {"parse", "done"} /\ PoolInv')
<1>1. CASE json_create
  BY <1>1, CreateStep
<1>2. CASE EndOfText
  BY <1>2 DEF EndOfText
<1>3. CASE Comma
  BY <1>3, CommaStep
<1>4. CASE CloseBlock
  BY <1>4, CloseStep
<1>5. CASE Property
  BY <1>5, PropertyStep
<1> QED BY <1>1, <1>2, <1>3, <1>4, <1>5 DEF ParserNext

LEMMA StepKeeps == ParserInv /\ [ParserNext]_parserVars => ParserInv'
<1> SUFFICES ASSUME ParserInv, [ParserNext]_parserVars PROVE ParserInv'
  OBVIOUS
<1>1. CASE UNCHANGED parserVars
  BY <1>1 DEF ParserInv, TextInv, PoolInv, parserVars, docVars, Text
<1>2. CASE ParserNext /\ Fail
  <2>1. UNCHANGED docVars
    BY <1>2, StepIs
  <2>2. UNCHANGED <<str, ptr, obj, pool, free>> /\ phase' = "failed"
    BY <1>2, FailKeeps
  <2>3. TextInv'
    BY <2>1, <2>2 DEF ParserInv, TextInv, docVars, Text
  <2>4. PoolInv'
    BY <2>1, <2>2 DEF ParserInv, PoolInv, docVars
  <2> QED BY <2>3, <2>4 DEF ParserInv
<1>3. CASE ParserNext /\ ~Fail
  <2>1. /\ UNCHANGED docVars /\ phase \in {"start", "parse"}
        /\ Turn /\ phase' \in {"parse", "done"} /\ PoolInv'
    BY <1>3, StepIs
  <2>2. TextInv'
    BY <2>1, TurnKeepsText DEF ParserInv
  <2> QED BY <2>1, <2>2 DEF ParserInv
<1> QED BY <1>1, <1>2, <1>3

LEMMA Invariant == ParserSpec => []ParserInv
BY InitInv, StepKeeps, PTL DEF ParserSpec

-----------------------------------------------------------------------------
(* How deep the text is nested where the parser is.                        *)

\* A text is accepted at the bracket that closes the one it begins with,
\* whatever else it has.
AcceptedAtEnd ==
  phase = "done" =>
    ptr - 1 \in 1 .. cut /\ Text[ptr - 1] \in {"}", "]"} /\ Nesting(Text)[ptr - 1] = Plain(0)

\* As many brackets are open as blocks; the text is accepted at a bracket behind
\* which none is.
NestInv ==
  /\ phase = "parse" =>
       Nesting(Text)[ptr - 1] = Plain(Cardinality(OpenNodes(pool, free)))
  /\ AcceptedAtEnd

\* What is ahead is nested as the text is.
LEMMA TextAlong ==
  ASSUME TextInv, phase \in {"start", "parse"}
  PROVE  /\ Along(Nesting(Text), str, cut, ptr) /\ Nesting(Text)[0] = Plain(0)
         /\ cut \in Nat /\ Ended(str, cut) /\ ptr \in 1 .. cut + 1
<1>1. cut \in Nat /\ cut <= Len(Text) /\ Ended(str, cut) /\ ptr \in 1 .. cut + 1
      /\ \A k \in ptr .. cut : str[k] = Text[k]
  BY DEF TextInv
<1>2. Len(Text) \in Nat
  BY ParserAssumption, LenProperties DEF TextInv, Text
<1>3. NestsTo(Nesting(Text), Text, Len(Text))
  BY <1>2, NestingIs
<1> DEFINE a == Nesting(Text)
           N == Len(Text)
<1>4. a[0] = Plain(0) /\ \A k \in 1 .. N : a[k] = AfterChar(a[k - 1], Text[k])
  BY <1>3 DEF NestsTo
<1>5. N \in Nat /\ cut <= N
  BY <1>1, <1>2
<1> HIDE DEF a, N
<1>6. \A k \in ptr .. cut : k \in 1 .. N
  BY <1>1, <1>5
<1>7. Along(a, str, cut, ptr)
  BY <1>1, <1>4, <1>6 DEF Along
<1> QED BY <1>1, <1>4, <1>7 DEF a

\* So are the blanks before the next thing.
LEMMA HereAlong ==
  ASSUME TextInv, phase \in {"start", "parse"}, Here # 0
  PROVE  /\ Here \in 1 .. cut /\ Here \in ptr .. cut
         /\ Along(Nesting(Text), str, cut, Here) /\ PassesOver(Nesting(Text), ptr, Here)
<1> DEFINE a == Nesting(Text)
<1>1. Along(a, str, cut, ptr) /\ cut \in Nat /\ Ended(str, cut) /\ ptr \in 1 .. cut + 1
  BY TextAlong
<1> HIDE DEF a
<1>2. Here \in 1 .. cut /\ Here \in ptr .. cut /\ Here \in ptr .. cut + 1
  <2>1. Here \in 1 .. cut /\ Here \in ptr .. cut
    BY HereIs
  <2> QED BY <1>1, <2>1
<1>3. Along(a, str, cut, Here)
  BY <1>1, <1>2, AlongAhead
<1>4. PassesOver(a, ptr, Here)
  <2>1. goWhile(str, ptr, Blank) # 0 /\ Here = goWhile(str, ptr, Blank)
    BY DEF Here, goBlank
  <2>2. PassesOver(a, ptr, goWhile(str, ptr, Blank))
    BY <1>1, <2>1, GoWhilePasses, Punctuation, Ordinary
  <2> QED BY <2>1, <2>2
<1> QED BY <1>2, <1>3, <1>4 DEF a

\* Open blocks can be counted.
LEMMA OpenCount ==
  ASSUME NEW nodes, NEW f \in Nat
  PROVE  IsFiniteSet(OpenNodes(nodes, f)) /\ Cardinality(OpenNodes(nodes, f)) \in Nat
<1>1. IsFiniteSet(1 .. f - 1)
  BY FS_Interval
<1>2. OpenNodes(nodes, f) \in SUBSET (1 .. f - 1)
  BY DEF OpenNodes
<1>3. IsFiniteSet(OpenNodes(nodes, f))
  BY <1>1, <1>2, FS_Subset
<1> QED BY <1>3, FS_CardinalityType

LEMMA CreateNests ==
  ASSUME ParserInv, json_create, ~Fail
  PROVE  NestInv'
<1>1. phase = "start" /\ ptr = 1 /\ TextInv
  BY DEF ParserInv, PoolInv, json_create
<1>2. Here # 0 /\ str[Here] \in Openings /\ ptr' = Here + 1 /\ free' = 2 /\ phase' = "parse"
      /\ UNCHANGED docVars
  BY <1>1 DEF json_create, Here, Openings
<1>3. Text' = Text
  BY <1>2 DEF docVars, Text
<1> DEFINE a == Nesting(Text)
<1>4. /\ a[0] = Plain(0) /\ Along(a, str, cut, Here) /\ PassesOver(a, ptr, Here)
      /\ Here \in 1 .. cut /\ cut \in Nat
  BY <1>1, <1>2, HereAlong, TextAlong
<1>5. a[Here - 1] = Plain(0)
  BY <1>1, <1>4 DEF PassesOver
<1> HIDE DEF a
<1>6. a[Here] = Plain(1)
  <2>1. a[Here] = Plain(0 + 1)
    BY <1>2, <1>4, <1>5, PassingBracket
  <2> QED BY <2>1
<1>7. Cardinality(OpenNodes(pool', free')) = 1
  <2>1. OpenNodes(pool', free') = {1}
    BY <1>2 DEF OpenNodes, IsOpen
  <2> QED BY <2>1, FS_Singleton
<1>8. ptr' - 1 = Here
  BY <1>2, <1>4
<1> QED BY <1>2, <1>3, <1>6, <1>7, <1>8 DEF NestInv, AcceptedAtEnd, a

LEMMA CommaNests ==
  ASSUME ParserInv, NestInv, Comma
  PROVE  NestInv'
<1>1. phase = "parse" /\ phase' = phase /\ Here # 0 /\ ptr' = Here + 1
      /\ UNCHANGED <<docVars, pool, free>> /\ TextInv
  BY DEF Comma, ParserInv
<1>2. str[Here] \notin Special
  BY Ordinary DEF Comma
<1>3. Text' = Text
  BY <1>1 DEF docVars, Text
<1> DEFINE a == Nesting(Text)
           d == Cardinality(OpenNodes(pool, free))
<1>4. /\ Along(a, str, cut, Here) /\ PassesOver(a, ptr, Here)
      /\ Here \in 1 .. cut /\ cut \in Nat
  BY <1>1, HereAlong, TextAlong
<1>5. d \in Nat
  BY OpenCount DEF ParserInv, PoolInv
<1>6. a[ptr - 1] = Plain(d)
  BY <1>1 DEF NestInv
<1> HIDE DEF a, d
<1>7. a[Here - 1] = Plain(d)
  BY <1>4, <1>5, <1>6 DEF PassesOver
<1>8. a[Here] = AfterChar(a[Here - 1], str[Here])
  BY <1>4 DEF Along
<1>9. a[Here] = Plain(d)
  BY <1>5, <1>7, <1>8, <1>2, AfterPlain
<1>10. ptr' - 1 = Here
  <2>1. ptr' = Here + 1
    BY <1>1
  <2> QED BY <1>4, <2>1
<1> QED BY <1>1, <1>3, <1>9, <1>10 DEF NestInv, AcceptedAtEnd, a, d

LEMMA CloseNests ==
  ASSUME ParserInv, NestInv, CloseBlock
  PROVE  NestInv'
<1>1. phase = "parse" /\ Here # 0 /\ str[Here] \in Closings /\ ptr' = Here + 1
      /\ UNCHANGED docVars /\ TextInv
  BY DEF CloseBlock, Closer, Closings, ParserInv
<1>2. /\ phase' \in {"parse", "done"} /\ (phase' = "done" => obj = 1)
      /\ phase' = "parse" => OpenNodes(pool', free') = OpenNodes(pool, free) \ {obj}
  BY CloseStep
<1>3. Text' = Text
  BY <1>1 DEF docVars, Text
<1> DEFINE a == Nesting(Text)
           d == Cardinality(OpenNodes(pool, free))
<1>4. /\ Along(a, str, cut, Here) /\ PassesOver(a, ptr, Here)
      /\ Here \in 1 .. cut /\ Here \in ptr .. cut /\ cut \in Nat
  BY <1>1, HereAlong, TextAlong
<1>5. d \in Nat /\ IsFiniteSet(OpenNodes(pool, free))
  BY OpenCount DEF ParserInv, PoolInv
<1>6. a[ptr - 1] = Plain(d)
  BY <1>1 DEF NestInv
<1>7. OpenBlocks(pool, free, obj)
  BY <1>1 DEF ParserInv, PoolInv, Forest
<1>8. obj \in OpenNodes(pool, free)
  BY <1>7 DEF OpenBlocks, OpenNodes
<1>9. phase' = "parse" => Cardinality(OpenNodes(pool', free')) = d - 1
  BY <1>2, <1>5, <1>8, FS_RemoveElement
<1>10. phase' = "done" => d = 1
  <2>1. ASSUME obj = 1 PROVE OpenNodes(pool, free) = {1}
    <3>1. \A k \in 1 .. free - 1 : IsOpen(pool, k) => k = 1
      BY <1>7, <2>1 DEF OpenBlocks
    <3> QED BY <1>8, <2>1, <3>1 DEF OpenNodes
  <2> QED BY <1>2, <2>1, FS_Singleton
<1>11. d = Cardinality(OpenNodes(pool, free)) /\ a = Nesting(Text)
  OBVIOUS
<1> HIDE DEF a, d
<1>12. a[Here - 1] = Plain(d)
  BY <1>4, <1>5, <1>6 DEF PassesOver
<1>13. a[Here] = Plain(d - 1)
  BY <1>1, <1>4, <1>5, <1>12, PassingBracket
<1>14. ptr' - 1 = Here
  BY <1>1, <1>4
<1>15. str[Here] = Text[Here]
  BY <1>1, <1>4 DEF TextInv
<1>16. CASE phase' = "parse"
  BY <1>3, <1>9, <1>11, <1>13, <1>14, <1>16 DEF NestInv, AcceptedAtEnd
<1>17. CASE phase' = "done"
  <2>1. a[Here] = Plain(0)
    BY <1>10, <1>13, <1>17
  <2>2. Text[Here] \in {"}", "]"}
    BY <1>1, <1>15 DEF Closings
  <2>3. cut' = cut
    BY <1>1 DEF docVars
  <2> QED BY <1>3, <1>4, <1>11, <1>14, <1>17, <2>1, <2>2, <2>3 DEF NestInv, AcceptedAtEnd
<1> QED BY <1>2, <1>16, <1>17

LEMMA PropertyNests ==
  ASSUME ParserInv, NestInv, Property, ~Fail
  PROVE  NestInv'
<1> DEFINE named == pool[obj].type = "object"
           none == [ok |-> TRUE, str |-> str, ptr |-> Here]
           r == IF named THEN propertyName(str, Here) ELSE none
           v == Value(r.str, r.ptr)
           block == r.str[r.ptr] \in Openings /\ ptr' = r.ptr + 1 /\ obj' = free
           leaf == ptr' = v.ptr /\ obj' = obj
           a == Nesting(Text)
           d == Cardinality(OpenNodes(pool, free))
<1>1. phase = "parse" /\ Here # 0 /\ TextInv /\ UNCHANGED docVars
  BY DEF Property, ParserInv
<1>2. (r.ok /\ block) \/ (r.ok /\ v.ok /\ leaf)
  BY DEF Property, Openings
<1>3. phase' = "parse" /\ Opened
  BY PropertyStep
<1>4. Text' = Text
  BY <1>1 DEF docVars, Text
<1>5. /\ Along(a, str, cut, Here) /\ PassesOver(a, ptr, Here)
      /\ Here \in 1 .. cut /\ cut \in Nat /\ Ended(str, cut)
  BY <1>1, HereAlong, TextAlong
<1>6. d \in Nat /\ IsFiniteSet(OpenNodes(pool, free)) /\ obj # free /\ free \notin OpenNodes(pool, free)
  <2>1. d \in Nat /\ IsFiniteSet(OpenNodes(pool, free))
    BY OpenCount DEF ParserInv, PoolInv
  <2>2. free \in 1 .. Qty + 1 /\ obj \in 0 .. free - 1 /\ Qty \in Nat
    BY ParserAssumption DEF ParserInv, PoolInv
  <2>3. free \notin 1 .. free - 1 /\ obj # free
    BY <2>2
  <2> QED BY <2>1, <2>3 DEF OpenNodes
<1>7. a[ptr - 1] = Plain(d)
  BY <1>1 DEF NestInv
<1>8. obj' = obj => Cardinality(OpenNodes(pool', free')) = d
  BY <1>3 DEF Opened
<1>9. obj' = free => Cardinality(OpenNodes(pool', free')) = d + 1
  BY <1>3, <1>6, FS_AddElement DEF Opened
<1>10. d = Cardinality(OpenNodes(pool, free)) /\ a = Nesting(Text)
  OBVIOUS
<1> HIDE DEF a, d
<1>11. r.ok => /\ Ended(r.str, cut) /\ r.ptr \in Here .. cut /\ r.ptr \in 1 .. cut
               /\ Along(a, r.str, cut, r.ptr) /\ PassesOver(a, Here, r.ptr)
  <2>1. CASE named
    <3> DEFINE b == propertyName(str, Here)
    <3>1. r = b
      BY <2>1
    <3>2. Reads(b, str, cut, Here) /\ (b.ok => b.ptr \in Here + 1 .. cut)
      BY <1>5, NameReads
    <3>3. Skips(b, a, Here)
      BY <1>5, NameSkips
    <3> HIDE DEF b, r
    <3>4. SUFFICES ASSUME b.ok
                   PROVE  /\ Ended(b.str, cut) /\ b.ptr \in Here .. cut /\ b.ptr \in 1 .. cut
                          /\ Along(a, b.str, cut, b.ptr) /\ PassesOver(a, Here, b.ptr)
      BY <3>1
    <3>5. Ended(b.str, cut) /\ Agree(str, b.str, cut, Here, b.ptr) /\ PassesOver(a, Here, b.ptr)
      BY <3>2, <3>3, <3>4 DEF Reads, Skips
    <3>6. b.ptr \in Here .. cut /\ b.ptr \in 1 .. cut /\ b.ptr \in Here .. cut + 1
          /\ Here \in 1 .. cut + 1
      BY <1>5, <3>2, <3>4
    <3>7. \A k \in b.ptr .. cut : k \in 1 .. cut + 1 /\ k >= b.ptr
      <4> DEFINE q == b.ptr
      <4>1. q \in 1 .. cut /\ cut \in Nat
        BY <1>5, <3>6
      <4> HIDE DEF q
      <4>2. \A k \in q .. cut : k \in 1 .. cut + 1 /\ k >= q
        BY <4>1
      <4> QED BY <4>2 DEF q
    <3>8. \A k \in b.ptr .. cut : b.str[k] = str[k]
      BY <3>5, <3>7 DEF Agree
    <3>9. Along(a, b.str, cut, b.ptr)
      BY <1>5, <3>6, <3>8, AlongAhead
    <3> QED BY <3>5, <3>6, <3>9
  <2>2. CASE ~named
    <3>1. r.str = str /\ r.ptr = Here
      BY <2>2
    <3>2. Here \in Here .. cut /\ PassesOver(a, Here, Here)
      BY <1>5, PassingNothing
    <3> HIDE DEF r
    <3> QED BY <1>5, <3>1, <3>2
  <2> QED BY <2>1, <2>2
<1>12. v = Value(r.str, r.ptr)
  OBVIOUS
<1> HIDE DEF r, v, named
<1>13. ASSUME r.ok PROVE a[r.ptr - 1] = Plain(d)
  <2>1. a[Here - 1] = Plain(d)
    BY <1>5, <1>6, <1>7 DEF PassesOver
  <2> QED BY <1>6, <1>11, <1>13, <2>1 DEF PassesOver
<1>14. CASE r.ok /\ block
  <2>1. a[r.ptr] = Plain(d + 1)
    BY <1>5, <1>6, <1>11, <1>13, <1>14, PassingBracket
  <2>2. ptr' - 1 = r.ptr
    BY <1>11, <1>14
  <2>3. a[ptr' - 1] = Plain(Cardinality(OpenNodes(pool', free')))
    BY <1>9, <1>14, <2>1, <2>2
  <2> QED BY <1>3, <1>4, <1>10, <2>3 DEF NestInv, AcceptedAtEnd
<1>15. CASE r.ok /\ v.ok /\ leaf
  <2>1. Skips(v, a, r.ptr)
    BY <1>5, <1>11, <1>12, <1>15, ValueSkips
  <2>2. PassesOver(a, r.ptr, ptr')
    BY <1>15, <2>1 DEF Skips
  <2>3. a[ptr' - 1] = Plain(d)
    BY <1>6, <1>13, <1>15, <2>2 DEF PassesOver
  <2>4. a[ptr' - 1] = Plain(Cardinality(OpenNodes(pool', free')))
    BY <1>8, <1>15, <2>3
  <2> QED BY <1>3, <1>4, <1>10, <2>4 DEF NestInv, AcceptedAtEnd
<1> QED BY <1>2, <1>14, <1>15

LEMMA NestStep == ParserInv /\ NestInv /\ [ParserNext]_parserVars => NestInv'
<1> SUFFICES ASSUME ParserInv, NestInv, [ParserNext]_parserVars PROVE NestInv'
  OBVIOUS
<1>1. CASE UNCHANGED parserVars
  BY <1>1 DEF NestInv, AcceptedAtEnd, parserVars, docVars, Text
<1>2. CASE ParserNext /\ Fail
  <2>1. phase' = "failed"
    BY <1>2, FailKeeps
  <2> QED BY <2>1 DEF NestInv, AcceptedAtEnd
<1>3. CASE ParserNext /\ ~Fail
  <2>1. CASE json_create
    BY <1>3, <2>1, CreateNests
  <2>2. CASE EndOfText
    BY <1>3, <2>2 DEF EndOfText
  <2>3. CASE Comma
    BY <2>3, CommaNests
  <2>4. CASE CloseBlock
    BY <2>4, CloseNests
  <2>5. CASE Property
    BY <1>3, <2>5, PropertyNests
  <2> QED BY <1>3, <2>1, <2>2, <2>3, <2>4, <2>5 DEF ParserNext
<1> QED BY <1>1, <1>2, <1>3

LEMMA NestInvariant == ParserSpec => [](ParserInv /\ NestInv)
<1>1. ParserInit => NestInv
  BY DEF ParserInit, NestInv, AcceptedAtEnd
<1>2. ParserInv /\ NestInv /\ [ParserNext]_parserVars => NestInv'
  BY NestStep
<1> QED BY <1>1, <1>2, Invariant, PTL DEF ParserSpec

-----------------------------------------------------------------------------
(* The theorems.                                                           *)

\* On every text the parser stays in it: the terminator behind the text is
\* never overwritten, the position never passes it, and every node, name and
\* value is where the types say (json_createWithPool and what it calls).
THEOREM ParserTypes == ParserSpec => []ParserTypeOK
<1>1. ParserInv => ParserTypeOK
  <2> SUFFICES ASSUME ParserInv PROVE ParserTypeOK
    OBVIOUS
  <2>1. str \in [1 .. cut + 1 -> Bytes] /\ str[cut + 1] = NUL
    BY EndedMeans DEF ParserInv, TextInv
  <2>2. pool \in [1 .. Qty -> [name : 0 .. cut + 1, type : Types, value : 0 .. cut + 1,
                               child : 0 .. free - 1, last : 0 .. free - 1,
                               sibling : 0 .. free - 1]]
    BY DEF ParserInv, PoolInv, NodeOf, NodeSet
  <2>3. free \in 1 .. Qty + 1 /\ obj \in 0 .. free - 1
    BY DEF ParserInv, PoolInv
  <2>4. ptr \in 1 .. cut + 1 /\ phase \in {"start", "parse", "done", "failed"}
    BY DEF ParserInv, TextInv
  <2> QED BY <2>1, <2>2, <2>3, <2>4 DEF ParserTypeOK
<1> QED BY <1>1, Invariant, PTL

\* What is still to be read is the text as it arrived: the terminators and the
\* shortened strings that setToNull and parseString write lie behind.
THEOREM WhatLiesAhead == ParserSpec => []AheadUntouched
<1>1. ParserInv => AheadUntouched
  BY DEF ParserInv, TextInv, AheadUntouched
<1> QED BY <1>1, Invariant, PTL

\* What was read is not written again, so that the names and values the nodes
\* point to stay.
THEOREM WhatLiesBehind == ParserSpec => BehindFinal
<1>1. ParserInv /\ [ParserNext]_parserVars
      => [\A k \in 1 .. cut + 1 : k < ptr \/ k >= ptr' => str'[k] = str[k]]_parserVars
  <2> SUFFICES ASSUME ParserInv, ParserNext
               PROVE  \A k \in 1 .. cut + 1 : k < ptr \/ k >= ptr' => str'[k] = str[k]
    OBVIOUS
  <2>1. CASE Fail
    BY <2>1, FailKeeps
  <2>2. CASE ~Fail
    BY <2>2, StepIs DEF Turn, Agree
  <2> QED BY <2>1, <2>2
<1> QED BY <1>1, Invariant, PTL DEF ParserSpec, BehindFinal

\* Every turn of objValue's loop moves the position on, so that there are no
\* more turns than characters.
THEOREM EveryTurnMoves == ParserSpec => TurnsMoveOn
<1>1. ParserInv /\ [ParserNext]_parserVars
      => [phase = "parse" /\ phase' = "parse" => ptr' > ptr]_parserVars
  <2> SUFFICES ASSUME ParserInv, ParserNext, phase = "parse", phase' = "parse"
               PROVE  ptr' > ptr
    OBVIOUS
  <2>1. ~Fail
    BY FailKeeps
  <2>2. ptr' \in ptr + 1 .. cut + 1
    BY <2>1, StepIs DEF Turn
  <2>3. ptr \in 1 .. cut + 1 /\ cut \in Nat
    BY DEF ParserInv, TextInv
  <2> QED BY <2>2, <2>3
<1> QED BY <1>1, Invariant, PTL DEF ParserSpec, TurnsMoveOn

\* Whatever text is accepted, the nodes form a tree (add, and the end of a
\* block in objValue).
THEOREM NodesAreATree == ParserSpec => []NodesFormTree
<1>1. ParserInv => NodesFormTree
  <2> SUFFICES ASSUME ParserInv, phase = "done" PROVE NodesFormTree
    BY DEF NodesFormTree
  <2>1. Forest(pool, free, obj) /\ obj = 1 /\ free \in Nat
    BY DEF ParserInv, PoolInv
  <2>2. pool[1].sibling = 0 /\ \A k \in 2 .. free - 1 : ~IsOpen(pool, k)
    BY <2>1 DEF Forest, OpenBlocks
  <2>3. \A k \in 1 .. free - 1 : LinksForward(pool, free, k)
    BY <2>1 DEF Forest
  <2>4. ASSUME NEW k \in 1 .. free - 1
        PROVE  /\ pool[k].child \in {0} \cup k + 1 .. free - 1
               /\ pool[k].sibling \in {0} \cup k + 1 .. free - 1
    <3>1. CASE k = 1
      BY <2>2, <2>3, <3>1 DEF LinksForward
    <3>2. CASE k # 1
      BY <2>2, <2>3, <3>2 DEF LinksForward
    <3> QED BY <3>1, <3>2
  <2>5. \A j \in 1 .. free - 1, k \in 2 .. free - 1 : Follows(pool, j, k) <=> pool[j].sibling = k
    <3> TAKE j \in 1 .. free - 1, k \in 2 .. free - 1
    <3>1. CASE j = 1
      BY <2>2, <3>1 DEF Follows, IsOpen
    <3>2. CASE j # 1
      BY <2>2, <3>2 DEF Follows
    <3> QED BY <3>1, <3>2
  <2>6. ASSUME NEW k \in 2 .. free - 1
        PROVE  \E i \in 1 .. k - 1 :
                 /\ pool[i].child = k <=> pool[i].sibling # k
                 /\ \A j \in 1 .. free - 1 : j # i => pool[j].child # k /\ pool[j].sibling # k
    <3>1. OnePlace(pool, free, k)
      BY <2>1 DEF Forest
    <3>2. PICK i \in 1 .. k - 1 :
            /\ pool[i].child = k <=> ~Follows(pool, i, k)
            /\ \A j \in 1 .. free - 1 : j # i => pool[j].child # k /\ ~Follows(pool, j, k)
      BY <3>1 DEF OnePlace
    <3>3. i \in 1 .. free - 1
      BY <2>1
    <3>4. pool[i].child = k <=> pool[i].sibling # k
      BY <2>5, <3>2, <3>3
    <3>5. \A j \in 1 .. free - 1 : j # i => pool[j].child # k /\ pool[j].sibling # k
      BY <2>5, <3>2
    <3> QED BY <3>4, <3>5
  <2> QED BY <2>2, <2>4, <2>6 DEF NodesFormTree
<1> QED BY <1>1, Invariant, PTL

\* Whatever text is accepted, it is accepted at the bracket that closes the one
\* it began with (the end of a block in objValue, and what the strings before
\* it hide of brackets).
THEOREM AcceptedAtItsEnd == ParserSpec => []AcceptedAtEnd
<1>1. NestInv => AcceptedAtEnd
  BY DEF NestInv
<1> QED BY <1>1, NestInvariant, PTL

\* When the server writes nothing behind the document (OneBlock), what was cut off
\* is never accepted (json_create on an answer longer than the buffer).
THEOREM CutTextsRejected ==
  ASSUME WholeTexts
  PROVE  ParserSpec => []CutRejected
<1>1. ASSUME ParserInv, AcceptedAtEnd, phase = "done" PROVE cut = Len(Text)
  <2> DEFINE a == Nesting(Text)
             k == ptr - 1
             N == Len(Text)
  <2>1. OneBlock(Text) /\ N \in Nat
    BY <1>1, ParserAssumption, LenProperties DEF WholeTexts, ParserInv, TextInv, Text
  <2>2. \A i \in 1 .. N : Text[i] \in {"}", "]"} /\ a[i] = Plain(0) => i = N
    BY <2>1 DEF OneBlock
  <2>3. Text[k] \in {"}", "]"} /\ a[k] = Plain(0)
    BY <1>1 DEF AcceptedAtEnd
  <2>4. cut \in Nat /\ cut <= N /\ k \in 0 .. cut
    BY <1>1 DEF ParserInv, TextInv
  <2>5. k \in 1 .. cut
    BY <1>1 DEF AcceptedAtEnd
  <2> HIDE DEF a, k, N
  <2>6. k \in 1 .. N
    BY <2>1, <2>4, <2>5
  <2>7. k = N
    BY <2>2, <2>3, <2>6
  <2>8. cut = N
    BY <2>1, <2>4, <2>5, <2>7
  <2> QED BY <2>8 DEF N
<1>2. ParserInv /\ AcceptedAtEnd => CutRejected
  BY <1>1 DEF CutRejected
<1> QED BY <1>2, AcceptedAtItsEnd, Invariant, PTL

=============================================================================
