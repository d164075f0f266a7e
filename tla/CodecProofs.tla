------------------------------- MODULE CodecProofs -------------------------------
(***************************************************************************)
(* Proofs about the binary codec, for every table of fields, every         *)
(* document of any size and depth, and values of any bytes: what is        *)
(* written is what is read (CodecFrames, CodecLeaves, BinaryCodec).        *)
(*                                                                         *)
(* They go from the inside out: the frame of a field, the fields of an     *)
(* object one after the other, path sets and the other leaves, the objects *)
(* within a document by their depth, and the document.                     *)
(***************************************************************************)
EXTENDS BinaryCodec, DataLemmas, SequenceTheorems
LOCAL INSTANCE SequencesExt

-----------------------------------------------------------------------------
(* Frames of the codec.                                                    *)

\* What comes first is there, and what is skipped leaves the rest.
LEMMA Splits ==
  ASSUME NEW S, NEW s \in Seq(S), NEW t \in Seq(S)
  PROVE  /\ Skip(s \o t, Len(s)) = t
         /\ SubSeq(s \o t, 1, Len(s)) = s
         /\ \A i \in 1..Len(s) : (s \o t)[i] = s[i]
<1>1. /\ s \o t \in Seq(S) /\ Len(s \o t) = Len(s) + Len(t)
      /\ \A i \in 1 .. Len(s) + Len(t) :
           (s \o t)[i] = IF i <= Len(s) THEN s[i] ELSE t[i - Len(s)]
  BY ConcatProperties
<1>2. Len(s) \in Nat /\ Len(t) \in Nat
  OBVIOUS
<1>3. Skip(s \o t, Len(s)) = t
  <2>1. CASE t = <<>>
    <3>1. SubSeq(s \o t, Len(s) + 1, Len(s \o t)) = <<>>
      BY <1>1, <1>2, <2>1, SubSeqEmpty
    <3> QED BY <2>1, <3>1 DEF Skip
  <2>2. CASE t # <<>>
    <3>1. Len(t) > 0
      BY <2>2
    <3>2. SubSeq(s \o t, Len(s) + 1, Len(s) + Len(t))
            = SubSeq(t, Len(s) + 1 - Len(s), Len(s) + Len(t) - Len(s))
      BY <1>2, <3>1, SubSeqOfConcat2
    <3>3. SubSeq(t, 1, Len(t)) = t
      BY SubSeqFull
    <3>4. Len(s) + 1 - Len(s) = 1 /\ Len(s) + Len(t) - Len(s) = Len(t)
      BY <1>2
    <3> QED BY <1>1, <3>2, <3>3, <3>4 DEF Skip
  <2> QED BY <2>1, <2>2
<1>4. SubSeq(s \o t, 1, Len(s)) = s
  <2>1. CASE s = <<>>
    <3>1. SubSeq(s \o t, 1, Len(s)) = <<>>
      BY <2>1, SubSeqEmpty
    <3> QED BY <2>1, <3>1
  <2>2. CASE s # <<>>
    <3>1. Len(s) > 0
      BY <2>2
    <3>2. SubSeq(s \o t, 1, Len(s)) = SubSeq(s, 1, Len(s))
      BY <1>2, <3>1, SubSeqOfConcat1
    <3> QED BY <3>2, SubSeqFull
  <2> QED BY <2>1, <2>2
<1>5. \A i \in 1..Len(s) : (s \o t)[i] = s[i]
  BY <1>1, <1>2
<1> QED BY <1>3, <1>4, <1>5

\* What comes first, and what follows it, of bytes.
LEMMA BytesSplit ==
  \A s, t \in Seq(Byte) : /\ Skip(s \o t, Len(s)) = t
                          /\ SubSeq(s \o t, 1, Len(s)) = s
                          /\ \A i \in 1..Len(s) : (s \o t)[i] = s[i]
BY Splits

\* The first one, two or three bytes are those of what comes first.
LEMMA Heads ==
  \A s, t \in Seq(Byte) :
    /\ Len(s) = 1 => (s \o t)[1] = s[1] /\ Skip(s \o t, 1) = t
    /\ Len(s) = 2 => (s \o t)[1] = s[1] /\ (s \o t)[2] = s[2] /\ Skip(s \o t, 2) = t
    /\ Len(s) = 3 => /\ (s \o t)[1] = s[1] /\ (s \o t)[2] = s[2] /\ (s \o t)[3] = s[3]
                     /\ Skip(s \o t, 3) = t
<1> TAKE s, t \in Seq(Byte)
<1>1. Skip(s \o t, Len(s)) = t /\ \A i \in 1..Len(s) : (s \o t)[i] = s[i]
  BY Zenon, BytesSplit
<1>2. 1 \in 1..1 /\ 1 \in 1..2 /\ 2 \in 1..2 /\ 1 \in 1..3 /\ 2 \in 1..3 /\ 3 \in 1..3
  BY SMT
<1> QED BY Zenon, <1>1, <1>2

\* A length is written as bytes, and read as what it was.
LEMMA LengthRead ==
  ASSUME NEW n \in Nat, n <= MaxLength, NEW rest \in Seq(Byte)
  PROVE  /\ EncodeVariableLength(n) \in Seq(Byte)
         /\ ReadVariableLengthLength(EncodeVariableLength(n) \o rest) = Got(n, rest)
<1>1. CASE n <= 192
  <2>1. PICK w : w = EncodeVariableLength(n)
    BY SMT
  <2>2. w = <<n>>
    BY SMT, <1>1, <2>1 DEF EncodeVariableLength
  <2>3. n \in Byte
    BY SMT, <1>1 DEF Byte
  <2>4. w \in Seq(Byte) /\ Len(w) = 1 /\ w[1] = n
    BY SMT, <2>2, <2>3
  <2>5. (w \o rest)[1] = n /\ Skip(w \o rest, 1) = rest
    BY Zenon, <2>4, Heads
  <2>6. ReadVariableLengthLength(w \o rest) = Got(n, rest)
    BY SMT, <1>1, <2>5 DEF ReadVariableLengthLength
  <2> QED BY SMT, <2>1, <2>4, <2>6
<1>2. CASE n > 192 /\ n <= 12480
  <2>1. PICK m \in Nat : m = n - 193 /\ m <= 12287
    BY SMT, <1>2
  <2>2. /\ m = 256 * (m \div 256) + (m % 256)
        /\ (m % 256) \in 0..255 /\ (m \div 256) \in 0..47
    BY SMT, <2>1
  <2>3. PICK q, b : q = (m \div 256) /\ b = (m % 256)
    BY SMT
  <2>4. q \in 0..47 /\ b \in 0..255 /\ m = 256 * q + b
    BY SMT, <2>2, <2>3
  <2>5. PICK a : a = 193 + q
    BY SMT
  <2>6. a \in 193..240 /\ 193 + (a - 193) * 256 + b = n
    BY SMT, <2>1, <2>4, <2>5
  <2>7. a \in Byte /\ b \in Byte
    BY SMT, <2>4, <2>6 DEF Byte
  <2>8. PICK w : w = EncodeVariableLength(n)
    BY SMT
  <2>9. w = <<a, b>>
    BY SMT, <1>2, <2>1, <2>3, <2>5, <2>8 DEF EncodeVariableLength
  <2>10. w \in Seq(Byte) /\ Len(w) = 2 /\ w[1] = a /\ w[2] = b
    BY SMT, <2>7, <2>9
  <2>11. (w \o rest)[1] = a /\ (w \o rest)[2] = b /\ Skip(w \o rest, 2) = rest
    BY Zenon, <2>10, Heads
  <2>12. ReadVariableLengthLength(w \o rest) = Got(193 + (a - 193) * 256 + b, rest)
    BY SMT, <2>6, <2>11 DEF ReadVariableLengthLength
  <2> QED BY SMT, <2>6, <2>8, <2>10, <2>12
<1>3. CASE n > 12480
  <2>1. PICK m \in Nat : m = n - 12481 /\ m <= 906263
    BY SMT, <1>3 DEF MaxLength
  <2>2. /\ m = 256 * (m \div 256) + (m % 256)
        /\ (m % 256) \in 0..255 /\ (m \div 256) \in Nat /\ (m \div 256) <= 3540
    BY SMT, <2>1
  <2>3. PICK q, c : q = (m \div 256) /\ c = (m % 256)
    BY SMT
  <2>4. m = 256 * q + c /\ c \in 0..255 /\ q \in Nat /\ q <= 3540
    BY SMT, <2>2, <2>3
  <2>5. /\ q = 256 * (q \div 256) + (q % 256)
        /\ (q % 256) \in 0..255 /\ (q \div 256) \in 0..13
    BY SMT, <2>4
  <2>6. PICK p, b : p = (q \div 256) /\ b = (q % 256)
    BY SMT
  <2>7. q = 256 * p + b /\ b \in 0..255 /\ p \in 0..13
    BY SMT, <2>5, <2>6
  <2>8. p = (m \div 65536) /\ b = ((m \div 256) % 256)
    <3>1. (m \div 65536) = ((m \div 256) \div 256)
      BY SMT
    <3> QED BY SMT, <2>3, <2>6, <3>1
  <2>9. PICK a : a = 241 + p
    BY SMT
  <2>10. a \in 241..254 /\ 12481 + (a - 241) * 65536 + b * 256 + c = n
    BY SMT, <2>1, <2>4, <2>7, <2>9
  <2>11. a \in Byte /\ b \in Byte /\ c \in Byte
    BY SMT, <2>4, <2>7, <2>10 DEF Byte
  <2>12. PICK w : w = EncodeVariableLength(n)
    BY SMT
  <2>13. w = <<a, b, c>>
    BY SMT, <1>3, <2>1, <2>3, <2>8, <2>9, <2>12 DEF EncodeVariableLength
  <2>14. w \in Seq(Byte) /\ Len(w) = 3 /\ w[1] = a /\ w[2] = b /\ w[3] = c
    BY SMT, <2>11, <2>13
  <2>15. /\ (w \o rest)[1] = a /\ (w \o rest)[2] = b /\ (w \o rest)[3] = c
         /\ Skip(w \o rest, 3) = rest
    BY Zenon, <2>14, Heads
  <2>16. ReadVariableLengthLength(w \o rest) = Got(12481 + (a - 241) * 65536 + b * 256 + c, rest)
    BY SMT, <2>10, <2>15 DEF ReadVariableLengthLength
  <2> QED BY SMT, <2>10, <2>12, <2>14, <2>16
<1> QED BY SMT, <1>1, <1>2, <1>3

\* A code is that of one field.
LEMMA CodesAreUnique ==
  ASSUME NEW n \in FieldNames
  PROVE  FieldByCode[<<Definitions[n].type, Definitions[n].nth>>] = n
<1> DEFINE code == <<Definitions[n].type, Definitions[n].nth>>
<1>1. code \in {<<Definitions[m].type, Definitions[m].nth>> : m \in FieldNames}
  OBVIOUS
<1>2. \A m \in FieldNames : <<Definitions[m].type, Definitions[m].nth>> = code => m = n
  BY FramesAssumption
<1>3. (CHOOSE m \in FieldNames : <<Definitions[m].type, Definitions[m].nth>> = code) = n
  BY <1>2
<1> QED BY <1>1, <1>3 DEF FieldByCode

\* A header is bytes, and the field is read that it stands for.
LEMMA HeaderRead ==
  ASSUME NEW n \in FieldNames, NEW rest \in Seq(Byte)
  PROVE  LET header == FieldHeader(Definitions[n].type, Definitions[n].nth)
         IN header \in Seq(Byte) /\ ReadField(header \o rest) = Got(n, rest)
<1>1. PICK type \in 1..255, nth \in 1..255 : type = Definitions[n].type /\ nth = Definitions[n].nth
  BY FramesAssumption
<1>2. FieldByCode[<<type, nth>>] = n
  BY <1>1, CodesAreUnique
<1>3. PICK h : h = FieldHeader(type, nth)
  OBVIOUS
<1> SUFFICES h \in Seq(Byte) /\ ReadField(h \o rest) = Got(n, rest)
  BY <1>1, <1>3
<1>4. type \in Byte /\ nth \in Byte /\ 0 \in Byte
  BY DEF Byte
<1>5. CASE type < 16 /\ nth < 16
  <2>1. PICK a \in Byte : a = 16 * type + nth
    BY <1>5 DEF Byte
  <2>2. a \div 16 = type /\ a % 16 = nth /\ type # 0 /\ nth # 0
    BY <1>5, <2>1
  <2>3. h = <<a>>
    BY <1>3, <1>5, <2>1 DEF FieldHeader
  <2>4. h \in Seq(Byte) /\ Len(h) = 1 /\ h[1] = a
    BY <2>3
  <2>5. (h \o rest)[1] = a /\ Skip(h \o rest, 1) = rest
    BY Zenon, <2>4, Heads
  <2> QED BY <1>2, <2>2, <2>4, <2>5 DEF ReadField
<1>6. CASE type < 16 /\ nth >= 16
  <2>1. PICK a \in Byte : a = 16 * type
    BY <1>6 DEF Byte
  <2>2. a \div 16 = type /\ a % 16 = 0 /\ type # 0
    BY <1>6, <2>1
  <2>3. h = <<a, nth>>
    BY <1>3, <1>6, <2>1 DEF FieldHeader
  <2>4. h \in Seq(Byte) /\ Len(h) = 2 /\ h[1] = a /\ h[2] = nth
    BY <1>4, <2>3
  <2>5. (h \o rest)[1] = a /\ (h \o rest)[2] = nth /\ Skip(h \o rest, 2) = rest
    BY Zenon, <2>4, Heads
  <2>6. PICK z : z = h \o rest
    OBVIOUS
  <2>7. z[1] = a /\ z[2] = nth
    BY <2>5, <2>6
  <2>8. ReadField(z) = Got(FieldByCode[<<type, nth>>], Skip(z, 2))
    BY SMT, <2>2, <2>7 DEF ReadField
  <2> QED BY <1>2, <2>4, <2>5, <2>6, <2>8
<1>7. CASE type >= 16 /\ nth < 16
  <2>1. nth \div 16 = 0 /\ nth % 16 = nth /\ nth # 0
    BY <1>7
  <2>2. h = <<nth, type>>
    BY <1>3, <1>7 DEF FieldHeader
  <2>3. h \in Seq(Byte) /\ Len(h) = 2 /\ h[1] = nth /\ h[2] = type
    BY <1>4, <2>2
  <2>4. (h \o rest)[1] = nth /\ (h \o rest)[2] = type /\ Skip(h \o rest, 2) = rest
    BY Zenon, <2>3, Heads
  <2> QED BY <1>2, <2>1, <2>3, <2>4 DEF ReadField
<1>8. CASE type >= 16 /\ nth >= 16
  <2>1. 0 \div 16 = 0 /\ 0 % 16 = 0
    OBVIOUS
  <2>2. h = <<0, type, nth>>
    BY <1>3, <1>8 DEF FieldHeader
  <2>3. h \in Seq(Byte) /\ Len(h) = 3 /\ h[1] = 0 /\ h[2] = type /\ h[3] = nth
    BY <1>4, <2>2
  <2>4. /\ (h \o rest)[1] = 0 /\ (h \o rest)[2] = type /\ (h \o rest)[3] = nth
        /\ Skip(h \o rest, 3) = rest
    BY Zenon, <2>3, Heads
  <2>5. PICK z : z = h \o rest
    OBVIOUS
  <2>6. z[1] = 0 /\ z[2] = type /\ z[3] = nth
    BY <2>4, <2>5
  <2>7. ReadField(z) = Got(FieldByCode[<<type, nth>>], Skip(z, 3))
    BY SMT, <2>1, <2>6 DEF ReadField
  <2> QED BY <1>2, <2>3, <2>4, <2>5, <2>7
<1> QED BY <1>5, <1>6, <1>7, <1>8

\* Bytes may be joined in any order.
LEMMA AppendIsAssociative ==
  \A a, b, c \in Seq(Byte) : (a \o b) \o c = a \o (b \o c)
BY ConcatAssociative

\* Appending from the left is appending from the right.
LEMMA AppendAll ==
  \A a, b, c, d \in Seq(Byte) : ((a \o b) \o c) \o d = a \o (b \o (c \o d))
<1> TAKE a, b, c, d \in Seq(Byte)
<1>1. PICK ab : ab = a \o b
  OBVIOUS
<1>2. PICK cd : cd = c \o d
  OBVIOUS
<1>3. ab \in Seq(Byte) /\ cd \in Seq(Byte)
  BY <1>1, <1>2, ConcatProperties
<1>4. (ab \o c) \o d = ab \o (c \o d)
  <2>1. ab \in Seq(Byte)
    BY <1>3
  <2>2. \A y, z \in Seq(Byte) : (ab \o y) \o z = ab \o (y \o z)
    BY Zenon, <2>1, AppendIsAssociative
  <2> QED BY Zenon, <2>2
<1>5. (a \o b) \o cd = a \o (b \o cd)
  BY Zenon, <1>3, AppendIsAssociative
<1>6. ab \o cd = a \o (b \o (c \o d))
  BY Zenon, <1>1, <1>2, <1>5
<1> QED BY Zenon, <1>1, <1>2, <1>4, <1>6

\* Of what writeFieldAndValue puts out, whatever its value's bytes and whatever follows,
\* the parser reads the same field and, if its length varies, the same bytes.
THEOREM FramesAreRead ==
  ASSUME NEW n \in FieldNames, NEW bytes \in Seq(Byte), Len(bytes) <= MaxLength, NEW rest \in Seq(Byte)
  PROVE  LET field == ReadField(Framed(n, bytes) \o rest)
             length == ReadVariableLengthLength(field.rest)
         IN /\ field.value = n
            /\ Definitions[n].vl => /\ SubSeq(length.rest, 1, length.value) = bytes
                                    /\ Skip(length.rest, length.value) = rest
            /\ ~ Definitions[n].vl => field.rest = bytes \o rest
<1> DEFINE header == FieldHeader(Definitions[n].type, Definitions[n].nth)
           len == IF Definitions[n].vl THEN EncodeVariableLength(Len(bytes)) ELSE <<>>
           field == ReadField(Framed(n, bytes) \o rest)
           length == ReadVariableLengthLength(field.rest)
<1>1. bytes \o rest \in Seq(Byte) /\ Len(bytes) \in Nat
  BY ConcatProperties
<1>2. /\ EncodeVariableLength(Len(bytes)) \in Seq(Byte)
      /\ ReadVariableLengthLength(EncodeVariableLength(Len(bytes)) \o (bytes \o rest))
           = Got(Len(bytes), bytes \o rest)
  BY <1>1, LengthRead
<1>3. len \in Seq(Byte)
  BY <1>2
<1> HIDE DEF len
<1>4. len \o (bytes \o rest) \in Seq(Byte)
  BY <1>1, <1>3, ConcatProperties
<1>5. /\ header \in Seq(Byte)
      /\ ReadField(header \o (len \o (bytes \o rest))) = Got(n, len \o (bytes \o rest))
  BY <1>4, HeaderRead
<1> HIDE DEF header
<1>6. ((header \o len) \o bytes) \o rest = header \o (len \o (bytes \o rest))
  <2>1. PICK h : h = header
    OBVIOUS
  <2>2. PICK l : l = len
    OBVIOUS
  <2>3. h \in Seq(Byte) /\ l \in Seq(Byte)
    BY <1>3, <1>5, <2>1, <2>2
  <2>4. \A a, b, c, d \in Seq(Byte) : ((a \o b) \o c) \o d = a \o (b \o (c \o d))
    BY AppendAll
  <2>5. \A c, d \in Seq(Byte) : ((h \o l) \o c) \o d = h \o (l \o (c \o d))
    BY Zenon, <2>3, <2>4
  <2>6. ((h \o l) \o bytes) \o rest = h \o (l \o (bytes \o rest))
    BY Zenon, <2>5
  <2> QED BY Zenon, <2>1, <2>2, <2>6
<1>7. Framed(n, bytes) = (header \o len) \o bytes
  BY DEF Framed, header, len
<1>8. field = Got(n, len \o (bytes \o rest))
  BY <1>5, <1>6, <1>7
<1> HIDE DEF field
<1>9. CASE Definitions[n].vl
  <2>1. length = Got(Len(bytes), bytes \o rest)
    BY <1>2, <1>8, <1>9 DEF Got, len
  <2>2. SubSeq(bytes \o rest, 1, Len(bytes)) = bytes /\ Skip(bytes \o rest, Len(bytes)) = rest
    BY SMT, <1>1, BytesSplit
  <2> HIDE DEF length
  <2>3. /\ SubSeq(length.rest, 1, length.value) = bytes
        /\ Skip(length.rest, length.value) = rest
    BY <2>1, <2>2 DEF Got
  <2> QED BY <1>8, <1>9, <2>3 DEF Got, field, length
<1>10. CASE ~ Definitions[n].vl
  <2>1. len \o (bytes \o rest) = bytes \o rest
    BY <1>1, <1>10, ConcatEmptySeq DEF len
  <2> QED BY <1>8, <1>10, <2>1 DEF Got, field
<1> QED BY <1>9, <1>10

-----------------------------------------------------------------------------
(* Recursion: each function is what its definition says of the one before. *)

\* What Reading, JSON and ReadingPaths are of so many bytes or levels, given what they are
\* of one less.
ReadingLevel(left, after) ==
  [end \in Markers |-> [bytes \in Seq(Byte) |->
     LET field == ReadField(bytes)
         inner == EndOf(field.value)
         v == IF field.value \in Nested THEN Rewritten(inner, after[inner][field.rest])
                                        ELSE ReadLeaf(field.value, field.rest)
     IN IF left = 0 \/ bytes = <<>> THEN Got(<<>>, <<>>)
        ELSE IF field.value = end THEN Got(<<>>, field.rest)
        ELSE Before([name |-> field.value, bytes |-> v.value], after[end][v.rest])]]

\* The fields of an object or an array, of at most so many bytes,
LEMMA ReadingLevels == \A n \in Nat : Reading[n] = ReadingLevel(n, Reading[n - 1])
<1> DEFINE F(g, n) == [left \in 0..n |-> ReadingLevel(left, g[left - 1])]
           N == {n \in Nat : \E g : g = F(g, n)}
<1>1. \A x, y : ReadingLevel(0, x) = ReadingLevel(0, y)
  BY DEF ReadingLevel
<1>2. \A n \in Nat : \E g : g = F(g, n)
  <2>1. ASSUME NEW n \in Nat, NEW g, g = F(g, n)
        PROVE  F(g, n + 1) = F(F(g, n + 1), n + 1)
    <3> DEFINE h == F(g, n + 1)
    <3>1. ASSUME NEW left \in 0..(n + 1)
          PROVE  ReadingLevel(left, g[left - 1]) = ReadingLevel(left, h[left - 1])
      <4>1. CASE left = 0
        BY <1>1, <4>1
      <4>2. CASE left # 0
        <5>1. left - 1 \in 0..n /\ left - 1 \in 0..(n + 1)
          BY <4>2
        <5>2. g[left - 1] = h[left - 1]
          BY <2>1, <5>1
        <5> QED BY <5>2
      <4> QED BY <4>1, <4>2
    <3> QED BY <3>1
  <2>2. 0 \in N
    <3> DEFINE g == [left \in 0..0 |-> ReadingLevel(0, 0)]
    <3>1. g = F(g, 0)
      BY <1>1
    <3> QED BY <3>1
  <2>3. ASSUME NEW n \in Nat, n \in N PROVE n + 1 \in N
    <3>1. PICK g : g = F(g, n)
      BY <2>3
    <3>2. F(g, n + 1) = F(F(g, n + 1), n + 1)
      BY <2>1, <3>1
    <3> HIDE DEF F
    <3> QED BY <3>2
  <2>4. \A n \in Nat : n \in N
    <3> HIDE DEF N
    <3> QED BY <2>2, <2>3, SetInduction
  <2> HIDE DEF F
  <2> QED BY <2>4
<1> DEFINE a == [n \in Nat |-> CHOOSE g : g = F(g, n)]
           f == [n \in Nat |-> a[n][n]]
<1>3. \A n \in Nat : a[n] = F(a[n], n)
  <2> HIDE DEF F
  <2> QED BY <1>2
<1>4. \A n \in Nat : \A i \in 0..n : a[n][i] = ReadingLevel(i, a[n][i - 1])
  <2> HIDE DEF a
  <2> QED BY <1>3
<1> HIDE DEF a
<1>5. \A n \in Nat : \A i \in 0..n : a[n][i] = a[i][i]
  <2>1. \A n, m \in Nat : a[n][0] = a[m][0]
    BY <1>1, <1>4
  <2>2. ASSUME NEW n \in Nat, NEW m \in Nat, NEW i \in Nat, i < n, i < m, a[n][i] = a[m][i]
        PROVE  a[n][i + 1] = a[m][i + 1]
    <3>1. i + 1 \in 0..n /\ i + 1 \in 0..m /\ (i + 1) - 1 = i
      BY <2>2
    <3>2. a[n][i + 1] = ReadingLevel(i + 1, a[n][i]) /\ a[m][i + 1] = ReadingLevel(i + 1, a[m][i])
      BY <1>4, <3>1
    <3> QED BY <2>2, <3>2
  <2> QED BY <2>1, <2>2, Diagonal
<1>6. ASSUME NEW n \in Nat PROVE f[n] = ReadingLevel(n, f[n - 1])
  <2>1. a[n][n] = ReadingLevel(n, a[n][n - 1])
    BY <1>4
  <2>2. CASE n = 0
    BY <1>1, <2>1, <2>2
  <2>3. CASE n # 0
    <3>1. n - 1 \in Nat /\ n - 1 \in 0..n
      BY <2>3
    <3>2. a[n][n - 1] = f[n - 1]
      BY <1>5, <3>1
    <3> QED BY <2>1, <3>2
  <2> QED BY <2>2, <2>3
<1>7. f = [n \in Nat |-> ReadingLevel(n, f[n - 1])]
  <2> HIDE DEF f
  <2> SUFFICES f = [n \in Nat |-> f[n]]
    BY <1>6
  <2> QED BY DEF f
<1>8. Reading = CHOOSE g : g = [n \in Nat |-> ReadingLevel(n, g[n - 1])]
  BY DEF Reading, ReadingLevel
<1>9. Reading = [n \in Nat |-> ReadingLevel(n, Reading[n - 1])]
  BY <1>7, <1>8
<1> QED BY <1>9

-----------------------------------------------------------------------------
(* Sequences of bytes, one after the other.                                *)

Bytes == Seq(Byte)

\* The first k of them.
Joined(s, k) == FlattenSeq([i \in 1..k |-> s[i]])

\* Joining one more appends it.
LEMMA JoinOneMore ==
  ASSUME NEW n \in Nat, NEW s \in [1..n -> Bytes]
  PROVE  /\ Joined(s, 0) = <<>>
         /\ \A k \in 1..n : Joined(s, k) = Joined(s, k - 1) \o s[k]
         /\ \A k \in 0..n : Joined(s, k) \in Bytes
         /\ FlattenSeq(s) = Joined(s, n)
<1> DEFINE F(g, k) == [i \in 1..k |-> IF i = 1 THEN s[i] ELSE g[i - 1] \o s[i]]
           N == {k \in Nat : \E g : g = F(g, k)}
<1>1. 0 \in N
  <2> DEFINE g == [i \in 1..0 |-> 0]
  <2>1. g = F(g, 0)
    OBVIOUS
  <2> QED BY <2>1
<1>2. ASSUME NEW k \in Nat, k \in N PROVE k + 1 \in N
  <2>1. PICK g : g = F(g, k)
    BY <1>2
  <2>2. F(g, k + 1) = F(F(g, k + 1), k + 1)
    <3> DEFINE h == F(g, k + 1)
    <3>1. ASSUME NEW i \in 1..(k + 1), i # 1 PROVE g[i - 1] = h[i - 1]
      <4>1. i - 1 \in 1..k /\ i - 1 \in 1..(k + 1)
        BY <3>1
      <4> QED BY <2>1, <4>1
    <3>2. h = [i \in 1..(k + 1) |-> IF i = 1 THEN s[i] ELSE h[i - 1] \o s[i]]
      BY <3>1
    <3> QED BY <3>2
  <2> HIDE DEF F
  <2> QED BY <2>2
<1>3. \A k \in Nat : k \in N
  <2> HIDE DEF N
  <2> QED BY <1>1, <1>2, SetInduction
<1>4. PICK f : /\ \A i \in 1..n : f[i] = IF i = 1 THEN s[i] ELSE f[i - 1] \o s[i]
               /\ \A i \in 1..n : f[i] \in Bytes
  <2>1. PICK f : f = F(f, n)
    BY <1>3
  <2>2. \A i \in 1..n : f[i] = IF i = 1 THEN s[i] ELSE f[i - 1] \o s[i]
    BY <2>1
  <2> DEFINE T == {i \in Nat : i \in 1..n => f[i] \in Bytes}
  <2>3. 0 \in T
    OBVIOUS
  <2>4. ASSUME NEW i \in Nat, i \in T PROVE i + 1 \in T
    <3>1. ASSUME i + 1 \in 1..n PROVE f[i + 1] \in Bytes
      <4>1. s[i + 1] \in Bytes
        BY <3>1
      <4>2. f[i + 1] = IF i + 1 = 1 THEN s[i + 1] ELSE f[i] \o s[i + 1]
        BY <2>2, <3>1
      <4>3. i + 1 # 1 => f[i] \in Bytes
        BY <2>4, <3>1
      <4> QED BY <4>1, <4>2, <4>3, ConcatProperties DEF Bytes
    <3> QED BY <3>1
  <2>5. \A i \in Nat : i \in T
    <3> HIDE DEF T
    <3> QED BY <2>3, <2>4, SetInduction
  <2> QED BY <2>2, <2>5
<1>5. ASSUME NEW k \in 1..n PROVE Joined(s, k) = f[k]
  <2> DEFINE t == [i \in 1..k |-> s[i]]
             G(g) == [i \in 1..Len(t) |-> IF i = 1 THEN t[i] ELSE g[i - 1] \o t[i]]
             h == CHOOSE g : g = G(g)
  <2>1. Len(t) = k /\ t \in Seq(Bytes)
    OBVIOUS
  <2>2. \A g : G(g) = F(g, k)
    BY <2>1
  <2>3. h = F(h, k)
    <3> DEFINE r == [i \in 1..k |-> f[i]]
    <3>1. r = F(r, k)
      <4>1. ASSUME NEW i \in 1..k PROVE f[i] = IF i = 1 THEN s[i] ELSE r[i - 1] \o s[i]
        <5>1. i \in 1..n /\ (i # 1 => i - 1 \in 1..k)
          OBVIOUS
        <5>2. i # 1 => f[i - 1] = r[i - 1]
          BY <5>1
        <5> QED BY <1>4, <5>1, <5>2
      <4> QED BY <4>1
    <3> HIDE DEF F, G
    <3> QED BY <2>2, <3>1
  <2>4. Joined(s, k) = h[k]
    <3>1. Len(t) # 0
      BY <2>1
    <3> HIDE DEF F
    <3> QED BY <2>1, <3>1 DEF Joined, FlattenSeq
  <2>5. h[k] = f[k]
    <3> DEFINE S == {i \in Nat : i \in 1..k => h[i] = f[i]}
    <3>1. 0 \in S
      OBVIOUS
    <3>2. ASSUME NEW i \in Nat, i \in S PROVE i + 1 \in S
      <4>1. ASSUME i + 1 \in 1..k PROVE h[i + 1] = f[i + 1]
        <5> HIDE DEF h
        <5>1. i + 1 \in 1..n /\ (i + 1) - 1 = i /\ (i + 1 # 1 => i \in 1..k)
          BY <4>1
        <5>2. h[i + 1] = IF i + 1 = 1 THEN s[i + 1] ELSE h[i] \o s[i + 1]
          BY <2>3, <4>1, <5>1
        <5>3. f[i + 1] = IF i + 1 = 1 THEN s[i + 1] ELSE f[i] \o s[i + 1]
          BY <1>4, <5>1
        <5>4. i + 1 # 1 => h[i] = f[i]
          BY <3>2, <5>1
        <5> HIDE DEF S
        <5> QED BY <5>2, <5>3, <5>4
      <4> HIDE DEF h
      <4> QED BY <4>1
    <3>3. \A i \in Nat : i \in S
      <4> HIDE DEF S
      <4> QED BY <3>1, <3>2, SetInduction
    <3> HIDE DEF h
    <3> QED BY <3>3
  <2> QED BY <2>4, <2>5
<1>6. Joined(s, 0) = <<>>
  <2>1. [i \in 1..0 |-> s[i]] = <<>>
    OBVIOUS
  <2> QED BY <2>1 DEF Joined, FlattenSeq
<1>7. ASSUME NEW k \in 1..n PROVE Joined(s, k) = Joined(s, k - 1) \o s[k]
  <2>1. f[k] = IF k = 1 THEN s[k] ELSE f[k - 1] \o s[k]
    BY <1>4
  <2>2. CASE k = 1
    <3>1. Joined(s, k - 1) = <<>>
      BY <1>6, <2>2
    <3>2. PICK b \in Seq(Byte) : b = s[k]
      BY DEF Bytes
    <3>3. <<>> \o b = b
      OBVIOUS
    <3> QED BY <1>5, <2>1, <2>2, <3>1, <3>2, <3>3
  <2>3. CASE k # 1
    <3>1. k - 1 \in 1..n
      BY <2>3
    <3> QED BY <1>5, <2>1, <2>3, <3>1
  <2> QED BY <2>2, <2>3
<1>8. \A k \in 0..n : Joined(s, k) \in Bytes
  <2>1. <<>> \in Bytes
    BY DEF Bytes
  <2>2. \A k \in 0..n : k = 0 \/ k \in 1..n
    OBVIOUS
  <2> QED BY <1>4, <1>5, <1>6, <2>1, <2>2
<1>9. FlattenSeq(s) = Joined(s, n)
  <2>1. s = [i \in 1..n |-> s[i]]
    OBVIOUS
  <2> QED BY <2>1 DEF Joined
<1> QED BY <1>6, <1>7, <1>8, <1>9

-----------------------------------------------------------------------------
(* Fields: what is written of them is read as them.                        *)

\* What follows the header of a field.
Following(n, bytes) ==
  (IF Definitions[n].vl THEN EncodeVariableLength(Len(bytes)) ELSE <<>>)
  \o (bytes \o (IF Definitions[n].type = STOBJECT THEN OBJECT_END_MARKER ELSE <<>>))

\* After the header, the field's bytes are read, whatever comes after them.
ReadsBack(n, bytes) ==
  /\ bytes \in Bytes
  /\ Definitions[n].vl => Len(bytes) <= MaxLength
  /\ \A rest \in Bytes : \A left \in Nat :
       LET following == Following(n, bytes) \o rest
       IN left >= Len(following) =>
            Got(bytes, rest) = IF n \in Nested
                               THEN Rewritten(EndOf(n), Reading[left][EndOf(n)][following])
                               ELSE ReadLeaf(n, following)

\* Up to the end of an object or an array, or of the bytes, these fields are read.
Reads(end, bytes, fields, rest) ==
  \A left \in Nat : left >= Len(bytes) => Reading[left][end][bytes] = Got(fields, rest)

\* The bytes of an end marker.
MarkerOf(end) == IF end = "ArrayEndMarker" THEN ARRAY_END_MARKER ELSE OBJECT_END_MARKER

\* A header has at least a byte.
LEMMA HeaderIsThere ==
  \A n \in FieldNames : Len(FieldHeader(Definitions[n].type, Definitions[n].nth)) >= 1
BY DEF FieldHeader

\* No bytes before or after others leave them as they are.
LEMMA EmptyIsBytes == <<>> \in Bytes /\ \A b \in Bytes : <<>> \o b = b /\ b \o <<>> = b
BY ConcatEmptySeq DEF Bytes

\* Bytes after bytes are as many as both.
LEMMA JoinedBytes == \A a, b \in Bytes : a \o b \in Bytes /\ Len(a \o b) = Len(a) + Len(b) /\ Len(a) \in Nat
BY ConcatProperties DEF Bytes

\* The end markers are bytes.
LEMMA MarkersAreBytes == OBJECT_END_MARKER \in Bytes /\ ARRAY_END_MARKER \in Bytes
BY DEF OBJECT_END_MARKER, ARRAY_END_MARKER, Bytes, Byte

\* A field is its header and what follows it.
LEMMA FieldWritten ==
  ASSUME NEW n \in FieldNames, NEW bytes \in Bytes, Definitions[n].vl => Len(bytes) <= MaxLength
  PROVE  LET header == FieldHeader(Definitions[n].type, Definitions[n].nth)
         IN /\ header \in Bytes /\ Following(n, bytes) \in Bytes
            /\ WriteFieldAndValue(n, bytes) = header \o Following(n, bytes)
            /\ WriteFieldAndValue(n, bytes) \in Bytes
<1>1. PICK h : h = FieldHeader(Definitions[n].type, Definitions[n].nth)
  OBVIOUS
<1>2. PICK l : l = IF Definitions[n].vl THEN EncodeVariableLength(Len(bytes)) ELSE <<>>
  OBVIOUS
<1>3. PICK e : e = IF Definitions[n].type = STOBJECT THEN OBJECT_END_MARKER ELSE <<>>
  OBVIOUS
<1>4. h \in Seq(Byte)
  BY <1>1, HeaderRead, EmptyIsBytes DEF Bytes
<1>5. l \in Seq(Byte)
  <2>1. CASE Definitions[n].vl
    <3>1. Len(bytes) \in Nat
      BY DEF Bytes
    <3> QED BY <1>2, <2>1, <3>1, LengthRead, EmptyIsBytes DEF Bytes
  <2>2. CASE ~Definitions[n].vl
    BY <1>2, <2>2, EmptyIsBytes DEF Bytes
  <2> QED BY <2>1, <2>2
<1>6. e \in Seq(Byte)
  BY <1>3, MarkersAreBytes, EmptyIsBytes DEF Bytes
<1>7. bytes \in Seq(Byte)
  BY DEF Bytes
<1>8. ((h \o l) \o bytes) \o e = h \o (l \o (bytes \o e))
  <2>1. \A c, d \in Seq(Byte) : ((h \o l) \o c) \o d = h \o (l \o (c \o d))
    BY Zenon, <1>4, <1>5, AppendAll
  <2> QED BY Zenon, <1>6, <1>7, <2>1
<1>9. WriteFieldAndValue(n, bytes) = ((h \o l) \o bytes) \o e
  BY Zenon, <1>1, <1>2, <1>3 DEF WriteFieldAndValue, Framed
<1>10. Following(n, bytes) = l \o (bytes \o e)
  BY Zenon, <1>2, <1>3 DEF Following
<1>11. bytes \o e \in Bytes
  BY <1>6, <1>7, JoinedBytes DEF Bytes
<1>12. l \o (bytes \o e) \in Bytes
  BY <1>5, <1>11, JoinedBytes DEF Bytes
<1>13. h \o (l \o (bytes \o e)) \in Bytes
  BY <1>4, <1>12, JoinedBytes DEF Bytes
<1> QED BY <1>1, <1>4, <1>8, <1>9, <1>10, <1>12, <1>13 DEF Bytes

\* One field more is read before the others.
LEMMA FieldRead ==
  ASSUME NEW end \in Markers, NEW n \in FieldNames, n # end, NEW bytes, ReadsBack(n, bytes),
         NEW rest \in Bytes, NEW left \in Nat, left >= Len(WriteFieldAndValue(n, bytes) \o rest)
  PROVE  /\ left - 1 \in Nat /\ left - 1 >= Len(rest)
         /\ Reading[left][end][WriteFieldAndValue(n, bytes) \o rest]
              = Before([name |-> n, bytes |-> bytes], Reading[left - 1][end][rest])
<1>1. bytes \in Bytes /\ (Definitions[n].vl => Len(bytes) <= MaxLength)
  BY DEF ReadsBack
<1>2. PICK h : h = FieldHeader(Definitions[n].type, Definitions[n].nth)
  OBVIOUS
<1>3. PICK f : f = Following(n, bytes)
  OBVIOUS
<1>4. h \in Bytes /\ f \in Bytes /\ WriteFieldAndValue(n, bytes) = h \o f
  BY <1>1, <1>2, <1>3, FieldWritten
<1>5. PICK z \in Bytes : z = f \o rest
  BY <1>4, JoinedBytes
<1>6. (h \o f) \o rest = h \o z
  BY Zenon, <1>4, <1>5, AppendIsAssociative DEF Bytes
<1>7. PICK y \in Bytes : y = h \o z
  BY <1>4, <1>5, JoinedBytes
<1>8. Len(h) >= 1 /\ Len(h) \in Nat /\ Len(z) \in Nat /\ Len(y) = Len(h) + Len(z)
      /\ Len(z) = Len(f) + Len(rest) /\ Len(f) \in Nat /\ Len(rest) \in Nat
  BY <1>2, <1>4, <1>5, <1>7, HeaderIsThere, JoinedBytes
<1>9. left >= Len(y)
  BY <1>4, <1>6, <1>7
<1>10. left # 0 /\ left - 1 \in Nat /\ left - 1 >= Len(z) /\ left - 1 >= Len(rest) /\ y # <<>>
  <2>1. y # <<>>
    BY <1>8
  <2> QED BY <1>8, <1>9, <2>1
<1>11. ReadField(y) = Got(n, z)
  BY <1>2, <1>5, <1>7, HeaderRead DEF Bytes
<1>12. PICK after : after = Reading[left - 1]
  OBVIOUS
<1>13. Got(bytes, rest) = IF n \in Nested THEN Rewritten(EndOf(n), after[EndOf(n)][z]) ELSE ReadLeaf(n, z)
  <2>1. \A l \in Nat : l >= Len(f \o rest) =>
          Got(bytes, rest) = IF n \in Nested THEN Rewritten(EndOf(n), Reading[l][EndOf(n)][f \o rest])
                                             ELSE ReadLeaf(n, f \o rest)
    BY Zenon, <1>3 DEF ReadsBack
  <2> QED BY Zenon, <1>5, <1>10, <1>12, <2>1
<1>14. Reading[left] = ReadingLevel(left, after)
  BY <1>12, ReadingLevels
<1>15. /\ ReadField(y).value = n /\ ReadField(y).rest = z
       /\ Got(bytes, rest).value = bytes /\ Got(bytes, rest).rest = rest
  BY <1>11 DEF Got
<1>16. ReadingLevel(left, after)[end][y] = Before([name |-> n, bytes |-> bytes], after[end][rest])
  <2>1. y \in Seq(Byte)
    BY DEF Bytes
  <2> QED BY Zenon, <1>10, <1>13, <1>15, <2>1 DEF ReadingLevel
<1> QED BY <1>4, <1>6, <1>7, <1>10, <1>12, <1>14, <1>16

\* An end marker is read as the end of what it marks.
LEMMA EndRead ==
  ASSUME NEW end \in Markers, NEW rest \in Bytes
  PROVE  MarkerOf(end) \in Bytes /\ Reads(end, MarkerOf(end) \o rest, <<>>, rest)
<1>1. PICK m : m = MarkerOf(end)
  OBVIOUS
<1>2. end \in FieldNames
  BY CodecAssumption
<1>3. m = FieldHeader(Definitions[end].type, Definitions[end].nth)
  <2>1. end = "ObjectEndMarker" \/ end = "ArrayEndMarker"
    BY DEF Markers
  <2>2. FieldHeader(14, 1) = <<225>> /\ FieldHeader(15, 1) = <<241>>
    BY DEF FieldHeader
  <2> QED BY <1>1, <2>1, <2>2, CodecAssumption
          DEF MarkerOf, OBJECT_END_MARKER, ARRAY_END_MARKER, STOBJECT, STARRAY
<1>4. m \in Bytes
  BY <1>1, MarkersAreBytes DEF MarkerOf
<1>5. PICK y \in Bytes : y = m \o rest
  BY <1>4, JoinedBytes
<1>6. ReadField(y) = Got(end, rest)
  BY <1>2, <1>3, <1>5, HeaderRead DEF Bytes
<1>7. Len(y) >= 1 /\ y # <<>>
  <2>1. Len(m) >= 1 /\ Len(y) = Len(m) + Len(rest) /\ Len(rest) \in Nat /\ Len(m) \in Nat
    BY <1>2, <1>3, <1>4, <1>5, HeaderIsThere, JoinedBytes
  <2>2. Len(y) >= 1
    BY <2>1
  <2> QED BY <2>2
<1>8. ASSUME NEW left \in Nat, left >= Len(y)
      PROVE  Reading[left][end][y] = Got(<<>>, rest)
  <2>1. left # 0
    BY <1>5, <1>7, <1>8
  <2>2. ReadField(y).value = end /\ ReadField(y).rest = rest
    BY <1>6 DEF Got
  <2>3. Reading[left] = ReadingLevel(left, Reading[left - 1])
    BY ReadingLevels
  <2>4. y \in Seq(Byte)
    BY <1>5 DEF Bytes
  <2>5. PICK after : after = Reading[left - 1]
    OBVIOUS
  <2>6. ReadingLevel(left, after)[end][y] = Got(<<>>, rest)
    BY Zenon, <1>7, <2>1, <2>2, <2>4 DEF ReadingLevel
  <2> QED BY <2>3, <2>5, <2>6
<1> QED BY <1>1, <1>4, <1>5, <1>8 DEF Reads

\* Where there are no bytes there are no fields.
LEMMA NothingRead == \A end \in Markers : Reads(end, <<>>, <<>>, <<>>)
<1> SUFFICES ASSUME NEW end \in Markers, NEW left \in Nat PROVE Reading[left][end][<<>>] = Got(<<>>, <<>>)
  BY DEF Reads
<1>1. Reading[left] = ReadingLevel(left, Reading[left - 1])
  BY ReadingLevels
<1>2. <<>> \in Seq(Byte)
  OBVIOUS
<1>3. \A after : ReadingLevel(left, after)[end][<<>>] = Got(<<>>, <<>>)
  BY Zenon, <1>2 DEF ReadingLevel
<1> QED BY <1>1, <1>3

\* The first j of a sequence.
First(e, j) == [i \in 1..j |-> e[i]]

\* The first of a sequence and the next one before others are the first and that one
\* more before the others.
InFront(S) ==
  \A e, v \in Seq(S), j \in Nat :
    j < Len(e) => First(e, j) \o (<<e[j + 1]>> \o v) = First(e, j + 1) \o v

\* ... which is so of any sequences.
LEMMA OneMoreInFront == \A S : InFront(S)
<1> SUFFICES ASSUME NEW S, NEW e \in Seq(S), NEW j \in Nat, j < Len(e), NEW v \in Seq(S)
             PROVE  First(e, j) \o (<<e[j + 1]>> \o v) = First(e, j + 1) \o v
  BY DEF InFront
<1>1. /\ First(e, j) \in Seq(S) /\ First(e, j + 1) \in Seq(S)
      /\ <<e[j + 1]>> \in Seq(S)
  BY DEF First
<1>2. PICK a \in Seq(S) : a = First(e, j)
  BY <1>1
<1>3. PICK b \in Seq(S) : b = First(e, j + 1)
  BY <1>1
<1>4. PICK c \in Seq(S) : c = <<e[j + 1]>>
  BY <1>1
<1>5. a \o c = b
  <2>1. Len(a) = j /\ Len(c) = 1 /\ Len(b) = j + 1 /\ c[1] = e[j + 1]
        /\ (\A i \in 1..j : a[i] = e[i]) /\ (\A i \in 1..(j + 1) : b[i] = e[i])
    BY <1>2, <1>3, <1>4 DEF First
  <2>2. a \o c \in Seq(S) /\ Len(a \o c) = j + 1
        /\ \A i \in 1..(j + 1) : (a \o c)[i] = IF i <= j THEN a[i] ELSE c[i - j]
    <3>1. /\ a \o c \in Seq(S) /\ Len(a \o c) = Len(a) + Len(c)
          /\ \A i \in 1 .. Len(a) + Len(c) : (a \o c)[i] = IF i <= Len(a) THEN a[i] ELSE c[i - Len(a)]
      BY ConcatProperties
    <3> QED BY <2>1, <3>1
  <2>3. PICK d \in Seq(S) : d = a \o c
    BY <2>2
  <2>4. Len(d) = Len(b) /\ \A i \in 1..Len(d) : d[i] = b[i]
    <3>1. Len(d) = Len(b)
      BY <2>1, <2>2, <2>3
    <3>2. ASSUME NEW i \in 1..(j + 1) PROVE d[i] = b[i]
      <4>1. d[i] = IF i <= j THEN a[i] ELSE c[i - j]
        BY <2>2, <2>3
      <4>2. CASE i <= j
        BY <2>1, <4>1, <4>2
      <4>3. CASE ~(i <= j)
        <5>1. i = j + 1 /\ i - j = 1
          BY <4>3
        <5> QED BY <2>1, <4>1, <4>3, <5>1
      <4> QED BY <4>2, <4>3
    <3> QED BY <2>1, <3>1, <3>2
  <2>5. d = b
    BY <2>4, SeqEqual
  <2> QED BY <2>3, <2>5
<1>6. (a \o c) \o v = a \o (c \o v)
  BY SMTT(30)
<1> QED BY <1>2, <1>3, <1>4, <1>5, <1>6

-----------------------------------------------------------------------------
(* Fields one after the other.                                             *)

FieldSet == [name : FieldNames, bytes : Bytes]

\* Of fields: the first and the next one before others are one more before the others.
LEMMA FieldInFront ==
  ASSUME NEW e \in Seq(FieldSet), NEW v \in Seq(FieldSet), NEW j \in Nat, j < Len(e)
  PROVE  First(e, j) \o (<<e[j + 1]>> \o v) = First(e, j + 1) \o v
<1>1. InFront(FieldSet)
  BY Zenon, OneMoreInFront
<1> QED BY Zenon, <1>1 DEF InFront

\* Fields one after the other are read one after the other, and what was read before
\* the end of the bytes or the object is what was written.
LEMMA FieldsRead ==
  ASSUME NEW end \in Markers, NEW n \in Nat,
         NEW names \in [1..n -> FieldNames], NEW values \in [1..n -> Bytes],
         \A i \in 1..n : names[i] # end /\ ReadsBack(names[i], values[i])
  PROVE  LET written == FlattenSeq([i \in 1..n |-> WriteFieldAndValue(names[i], values[i])])
             fields == [i \in 1..n |-> [name |-> names[i], bytes |-> values[i]]]
         IN /\ written \in Bytes
            /\ \A rest \in Bytes : \A after :
                 Reads(end, rest, <<>>, after) => Reads(end, written \o rest, fields, after)
<1> DEFINE fields == [i \in 1..n |-> [name |-> names[i], bytes |-> values[i]]]
<1>1. PICK s : s = [i \in 1..n |-> WriteFieldAndValue(names[i], values[i])]
  OBVIOUS
<1>2. s \in [1..n -> Bytes]
  <2>1. \A i \in 1..n : WriteFieldAndValue(names[i], values[i]) \in Bytes
    BY FieldWritten DEF ReadsBack
  <2> QED BY <1>1, <2>1
<1>3. PICK e \in Seq(FieldSet) : e = fields
  <2>1. \A i \in 1..n : fields[i] \in FieldSet
    BY DEF FieldSet
  <2>2. \A i \in 1..n : fields[i] \in FieldSet
    BY <2>1
  <2>3. fields \in [1..n -> FieldSet]
    BY <2>2
  <2>4. PICK g \in [1..n -> FieldSet] : g = fields
    BY <2>3
  <2>5. g \in Seq(FieldSet)
    OBVIOUS
  <2> QED BY <2>4, <2>5
<1>4. Len(e) = n /\ \A i \in 1..n : e[i] = [name |-> names[i], bytes |-> values[i]]
  BY <1>3
<1>5. SUFFICES ASSUME NEW after
               PROVE  \A rest \in Bytes :
                        Reads(end, rest, <<>>, after) => Reads(end, FlattenSeq(s) \o rest, e, after)
  <2>1. FlattenSeq(s) \in Bytes
    <3>1. n \in 0..n
      OBVIOUS
    <3>2. FlattenSeq(s) = Joined(s, n) /\ \A k \in 0..n : Joined(s, k) \in Bytes
      BY Zenon, <1>2, JoinOneMore
    <3> QED BY Zenon, <3>1, <3>2
  <2> QED BY <1>1, <1>3, <2>1
<1> DEFINE S == {j \in Nat : j <= n => \A rest \in Bytes, v \in Seq(FieldSet) :
                   Reads(end, rest, v, after)
                     => Reads(end, Joined(s, j) \o rest, First(e, j) \o v, after)}
<1>6. 0 \in S
  <2>1. \A rest \in Bytes, v \in Seq(FieldSet) : Joined(s, 0) \o rest = rest /\ First(e, 0) \o v = v
    <3>1. Joined(s, 0) = <<>>
      BY <1>2, JoinOneMore
    <3>2. \A rest \in Bytes : <<>> \o rest = rest
      BY EmptyIsBytes
    <3>3. First(e, 0) = <<>>
      BY DEF First
    <3>4. \A v \in Seq(FieldSet) : <<>> \o v = v
      BY ConcatEmptySeq
    <3> QED BY <3>1, <3>2, <3>3, <3>4
  <2> QED BY <2>1
<1>7. ASSUME NEW j \in Nat, j \in S PROVE j + 1 \in S
  <2>1. ASSUME j + 1 <= n, NEW rest \in Bytes, NEW v \in Seq(FieldSet), Reads(end, rest, v, after)
        PROVE  Reads(end, Joined(s, j + 1) \o rest, First(e, j + 1) \o v, after)
    <3>1. j + 1 \in 1..n /\ (j + 1) - 1 = j /\ j <= n /\ j < Len(e) /\ j \in 0..n
      BY <1>4, <2>1
    <3>2. PICK w \in Bytes : w = s[j + 1]
      BY <1>2, <3>1
    <3>3. w = WriteFieldAndValue(names[j + 1], values[j + 1])
      BY <1>1, <3>1, <3>2
    <3>4. PICK f : f = e[j + 1]
      OBVIOUS
    <3>5. f \in FieldSet /\ f = [name |-> names[j + 1], bytes |-> values[j + 1]]
      BY <1>4, <3>1, <3>4
    <3>6. w \o rest \in Bytes /\ <<f>> \o v \in Seq(FieldSet)
      <4>1. <<f>> \in Seq(FieldSet)
        BY <3>5
      <4> QED BY <3>2, <4>1, JoinedBytes, ConcatProperties
    <3>7. Reads(end, w \o rest, <<f>> \o v, after)
      <4> SUFFICES ASSUME NEW left \in Nat, left >= Len(w \o rest)
                   PROVE  Reading[left][end][w \o rest] = Got(<<f>> \o v, after)
        BY DEF Reads
      <4>1. /\ left - 1 \in Nat /\ left - 1 >= Len(rest)
            /\ Reading[left][end][w \o rest] = Before(f, Reading[left - 1][end][rest])
        BY <3>1, <3>3, <3>5, FieldRead
      <4>2. Reading[left - 1][end][rest] = Got(v, after)
        BY <2>1, <4>1 DEF Reads
      <4> QED BY <4>1, <4>2 DEF Before, Got
    <3>8. Reads(end, Joined(s, j) \o (w \o rest), First(e, j) \o (<<f>> \o v), after)
      BY <1>7, <3>1, <3>6, <3>7
    <3>9. Joined(s, j) \o (w \o rest) = Joined(s, j + 1) \o rest
      <4>1. PICK p \in Bytes : p = Joined(s, j)
        BY <1>2, <3>1, JoinOneMore
      <4>2. Joined(s, j + 1) = p \o w
        BY <1>2, <3>1, <3>2, <4>1, JoinOneMore
      <4>3. (p \o w) \o rest = p \o (w \o rest)
        BY Zenon, AppendIsAssociative DEF Bytes
      <4> QED BY <4>1, <4>2, <4>3
    <3>10. First(e, j) \o (<<f>> \o v) = First(e, j + 1) \o v
      BY <3>1, <3>4, FieldInFront
    <3> QED BY <3>8, <3>9, <3>10
  <2> QED BY <2>1
<1>8. \A j \in Nat : j \in S
  <2> HIDE DEF S
  <2> QED BY <1>6, <1>7, SetInduction
<1>9. FlattenSeq(s) = Joined(s, n)
  BY <1>2, JoinOneMore
<1>10. First(e, n) \o <<>> = e
  <2>1. First(e, n) = e
    BY <1>4 DEF First
  <2> QED BY <2>1, ConcatEmptySeq
<1>11. <<>> \in Seq(FieldSet)
  OBVIOUS
<1>12. ASSUME NEW rest \in Bytes, Reads(end, rest, <<>>, after)
       PROVE  Reads(end, FlattenSeq(s) \o rest, e, after)
  <2>1. Reads(end, Joined(s, n) \o rest, First(e, n) \o <<>>, after)
    <3>1. \A r \in Bytes, v \in Seq(FieldSet) :
            Reads(end, r, v, after) => Reads(end, Joined(s, n) \o r, First(e, n) \o v, after)
      BY <1>8
    <3> QED BY <1>11, <1>12, <3>1
  <2> QED BY <1>9, <1>10, <2>1
<1> QED BY <1>12

-----------------------------------------------------------------------------
(* Objects and arrays.                                                     *)

\* The fields of a type, without the table of them.
LEMMA FieldsOfFacts ==
  \A type \in 1..255 : FieldsOf(type) = {n \in FieldNames : Definitions[n].type = type}
BY Zenon DEF FieldsOf, FieldsOfType

\* What is joined is as long as each part.
LEMMA PartsAreShorter ==
  ASSUME NEW n \in Nat, NEW s \in [1..n -> Bytes]
  PROVE  \A i \in 1..n : Len(s[i]) \in Nat /\ Len(s[i]) <= Len(FlattenSeq(s))
<1> DEFINE S == {k \in Nat : k <= n => \A i \in 1..k : Len(s[i]) <= Len(Joined(s, k))}
<1>1. 0 \in S
  OBVIOUS
<1>2. ASSUME NEW k \in Nat, k \in S PROVE k + 1 \in S
  <2>1. ASSUME k + 1 <= n, NEW i \in 1..(k + 1) PROVE Len(s[i]) <= Len(Joined(s, k + 1))
    <3>1. k + 1 \in 1..n /\ (k + 1) - 1 = k /\ k \in 0..n /\ k <= n /\ i \in 1..n
      BY <2>1
    <3>2. PICK p \in Bytes : p = Joined(s, k)
      BY <3>1, JoinOneMore
    <3>3. PICK q \in Bytes : q = s[k + 1]
      BY <3>1
    <3>4. Joined(s, k + 1) = p \o q
      BY <3>1, <3>2, <3>3, JoinOneMore
    <3>5. Len(p \o q) = Len(p) + Len(q) /\ Len(p) \in Nat /\ Len(q) \in Nat
      BY JoinedBytes
    <3>6. s[i] \in Bytes
      BY <3>1
    <3>7. Len(s[i]) \in Nat
      BY <3>6 DEF Bytes
    <3>8. CASE i = k + 1
      BY <3>3, <3>4, <3>5, <3>8
    <3>9. CASE i # k + 1
      <4>1. i \in 1..k
        BY <3>9
      <4>2. Len(s[i]) <= Len(p)
        BY <1>2, <3>1, <3>2, <4>1
      <4> QED BY <3>4, <3>5, <3>7, <4>2
    <3> QED BY <3>8, <3>9
  <2> QED BY <2>1
<1>3. \A k \in Nat : k \in S
  <2> HIDE DEF S
  <2> QED BY <1>1, <1>2, SetInduction
<1>4. \A i \in 1..n : Len(s[i]) <= Len(Joined(s, n))
  BY <1>3
<1>5. ASSUME NEW i \in 1..n PROVE Len(s[i]) \in Nat
  <2>1. s[i] \in Bytes
    OBVIOUS
  <2> QED BY <2>1 DEF Bytes
<1> QED BY <1>4, <1>5, JoinOneMore

\* A field is longer than its value.
LEMMA ValueIsShorter ==
  ASSUME NEW n \in FieldNames, NEW bytes \in Bytes, Definitions[n].vl => Len(bytes) <= MaxLength
  PROVE  Len(WriteFieldAndValue(n, bytes)) > Len(bytes) /\ Len(bytes) \in Nat
<1>1. PICK h \in Bytes : h = FieldHeader(Definitions[n].type, Definitions[n].nth)
  BY FieldWritten
<1>2. PICK f \in Bytes : f = Following(n, bytes)
  BY FieldWritten
<1>3. WriteFieldAndValue(n, bytes) = h \o f
  BY <1>1, <1>2, FieldWritten
<1>4. PICK l \in Bytes : l = IF Definitions[n].vl THEN EncodeVariableLength(Len(bytes)) ELSE <<>>
  <2>1. Len(bytes) \in Nat
    BY DEF Bytes
  <2> QED BY <2>1, LengthRead, EmptyIsBytes DEF Bytes
<1>5. PICK e \in Bytes : e = IF Definitions[n].type = STOBJECT THEN OBJECT_END_MARKER ELSE <<>>
  BY MarkersAreBytes, EmptyIsBytes
<1>6. PICK g \in Bytes : g = bytes \o e
  BY JoinedBytes
<1>7. f = l \o g
  BY Zenon, <1>2, <1>4, <1>5, <1>6 DEF Following
<1>8. Len(h) >= 1
  BY <1>1, HeaderIsThere
<1>9. /\ Len(h \o f) = Len(h) + Len(f) /\ Len(f) = Len(l) + Len(g) /\ Len(g) = Len(bytes) + Len(e)
      /\ Len(h) \in Nat /\ Len(l) \in Nat /\ Len(bytes) \in Nat /\ Len(e) \in Nat
  BY <1>6, <1>7, JoinedBytes
<1> QED BY <1>3, <1>8, <1>9

\* The bytes of an object or an array of these fields.
BytesOf(end, written) == IF end = "ArrayEndMarker" THEN written \o ARRAY_END_MARKER ELSE written

\* A nested field has no length, and an end marker by its type.
LEMMA NestedFacts ==
  \A m \in Nested :
    /\ m \in FieldNames /\ ~Definitions[m].vl /\ EndOf(m) \in Markers
    /\ (Definitions[m].type = STOBJECT) = (EndOf(m) = "ObjectEndMarker")
    /\ Definitions[m].type # STOBJECT => EndOf(m) = "ArrayEndMarker"
<1> SUFFICES ASSUME NEW m \in Nested
             PROVE  /\ m \in FieldNames /\ ~Definitions[m].vl /\ EndOf(m) \in Markers
                    /\ (Definitions[m].type = STOBJECT) = (EndOf(m) = "ObjectEndMarker")
                    /\ Definitions[m].type # STOBJECT => EndOf(m) = "ArrayEndMarker"
  OBVIOUS
<1>1. \A type \in {STOBJECT, STARRAY} : FieldsOf(type) = {n \in FieldNames : Definitions[n].type = type}
  <2>1. STOBJECT \in 1..255 /\ STARRAY \in 1..255
    BY DEF STOBJECT, STARRAY
  <2> QED BY <2>1, FieldsOfFacts
<1>2. m \in FieldsOf(STOBJECT) \/ m \in FieldsOf(STARRAY)
  BY DEF Nested
<1>3. m \in FieldNames /\ (Definitions[m].type = STOBJECT \/ Definitions[m].type = STARRAY)
  BY <1>1, <1>2
<1>4. ~Definitions[m].vl
  BY <1>2, CodecAssumption
<1>5. m \in FieldsOf(STARRAY) <=> Definitions[m].type = STARRAY
  BY <1>1, <1>3
<1>6. STOBJECT # STARRAY
  BY DEF STOBJECT, STARRAY
<1>7. CASE Definitions[m].type = STARRAY
  BY <1>3, <1>4, <1>5, <1>6, <1>7 DEF EndOf, Markers
<1>8. CASE Definitions[m].type # STARRAY
  BY <1>3, <1>4, <1>5, <1>6, <1>8 DEF EndOf, Markers
<1> QED BY <1>7, <1>8

\* An object or an array of fields that are read back is read back.
LEMMA NestedReadsBack ==
  ASSUME NEW m \in Nested, NEW n \in Nat,
         NEW names \in [1..n -> FieldNames], NEW values \in [1..n -> Bytes],
         \A i \in 1..n : names[i] # EndOf(m) /\ ReadsBack(names[i], values[i])
  PROVE  ReadsBack(m, BytesOf(EndOf(m), FlattenSeq([i \in 1..n |-> WriteFieldAndValue(names[i], values[i])])))
<1> DEFINE fields == [i \in 1..n |-> [name |-> names[i], bytes |-> values[i]]]
<1>1. PICK end \in Markers : end = EndOf(m)
  BY NestedFacts
<1>2. PICK w : w = FlattenSeq([i \in 1..n |-> WriteFieldAndValue(names[i], values[i])])
  OBVIOUS
<1>3. PICK e : e = fields
  OBVIOUS
<1>4. /\ w \in Bytes
      /\ \A rest \in Bytes : \A after : Reads(end, rest, <<>>, after) => Reads(end, w \o rest, e, after)
  BY <1>1, <1>2, <1>3, FieldsRead
<1>5. \A rest : Rewritten(end, Got(e, rest)) = Got(BytesOf(end, w), rest)
  <2>1. DOMAIN e = 1..n /\ \A i \in 1..n : e[i].name = names[i] /\ e[i].bytes = values[i]
    BY <1>3
  <2>2. [i \in DOMAIN e |-> WriteFieldAndValue(e[i].name, e[i].bytes)]
          = [i \in 1..n |-> WriteFieldAndValue(names[i], values[i])]
    BY <2>1
  <2>3. w \o <<>> = w
    BY <1>4, EmptyIsBytes
  <2>4. \A rest : Got(e, rest).value = e /\ Got(e, rest).rest = rest
    BY DEF Got
  <2> QED BY <1>2, <2>2, <2>3, <2>4 DEF Rewritten, BytesOf
<1>6. PICK b : b = BytesOf(end, w)
  OBVIOUS
<1>7. b \in Bytes
  BY <1>4, <1>6, JoinedBytes, MarkersAreBytes DEF BytesOf
<1>8. Following(m, b) = w \o MarkerOf(end)
  <2>1. MarkerOf(end) \in Bytes /\ w \o MarkerOf(end) \in Bytes
    BY <1>4, JoinedBytes, MarkersAreBytes DEF MarkerOf
  <2>2. Following(m, b) = b \o (IF Definitions[m].type = STOBJECT THEN OBJECT_END_MARKER ELSE <<>>)
    <3>1. PICK f \in Bytes : f = b \o (IF Definitions[m].type = STOBJECT THEN OBJECT_END_MARKER ELSE <<>>)
      BY <1>7, JoinedBytes, MarkersAreBytes, EmptyIsBytes
    <3>2. <<>> \o f = f
      BY EmptyIsBytes
    <3> QED BY Zenon, <3>1, <3>2, NestedFacts DEF Following
  <2>3. CASE end = "ArrayEndMarker"
    <3>1. Definitions[m].type # STOBJECT
      BY <1>1, <2>3, NestedFacts
    <3>2. b = w \o ARRAY_END_MARKER /\ MarkerOf(end) = ARRAY_END_MARKER
      BY <1>6, <2>3 DEF BytesOf, MarkerOf
    <3> QED BY <1>7, <2>2, <3>1, <3>2, EmptyIsBytes
  <2>4. CASE end # "ArrayEndMarker"
    <3>1. Definitions[m].type = STOBJECT
      BY <1>1, <2>4, NestedFacts
    <3>2. b = w /\ MarkerOf(end) = OBJECT_END_MARKER
      BY <1>6, <2>4 DEF BytesOf, MarkerOf
    <3> QED BY <2>2, <3>1, <3>2
  <2> QED BY <2>3, <2>4
<1>9. ASSUME NEW rest \in Bytes, NEW left \in Nat, left >= Len(Following(m, b) \o rest)
      PROVE  Got(b, rest) = Rewritten(end, Reading[left][end][Following(m, b) \o rest])
  <2>1. PICK k \in Bytes : k = MarkerOf(end)
    BY EndRead, EmptyIsBytes
  <2>2. (w \o k) \o rest = w \o (k \o rest)
    BY Zenon, <1>4, AppendIsAssociative DEF Bytes
  <2>3. k \o rest \in Bytes /\ Reads(end, k \o rest, <<>>, rest)
    BY <2>1, EndRead, JoinedBytes
  <2>4. Reads(end, w \o (k \o rest), e, rest)
    BY <1>4, <2>3
  <2>5. Following(m, b) \o rest = w \o (k \o rest)
    BY <1>8, <2>1, <2>2
  <2>6. Reading[left][end][Following(m, b) \o rest] = Got(e, rest)
    BY <1>9, <2>4, <2>5 DEF Reads
  <2> QED BY <1>5, <1>6, <2>6
<1>10. ReadsBack(m, b)
  BY <1>1, <1>7, <1>9, NestedFacts DEF ReadsBack
<1> QED BY <1>1, <1>2, <1>6, <1>10

\* The fields of an object or an array are read from its bytes.
LEMMA WholeRead ==
  ASSUME NEW end \in Markers, NEW n \in Nat,
         NEW names \in [1..n -> FieldNames], NEW values \in [1..n -> Bytes],
         \A i \in 1..n : names[i] # end /\ ReadsBack(names[i], values[i])
  PROVE  LET written == FlattenSeq([i \in 1..n |-> WriteFieldAndValue(names[i], values[i])])
         IN /\ BytesOf(end, written) \in Bytes
            /\ ReadFields(end, BytesOf(end, written))
                 = Got([i \in 1..n |-> [name |-> names[i], bytes |-> values[i]]], <<>>)
            /\ \A i \in 1..n : Len(BytesOf(end, written)) > Len(values[i])
<1>1. PICK w : w = FlattenSeq([i \in 1..n |-> WriteFieldAndValue(names[i], values[i])])
  OBVIOUS
<1>2. PICK e : e = [i \in 1..n |-> [name |-> names[i], bytes |-> values[i]]]
  OBVIOUS
<1>3. /\ w \in Bytes
      /\ \A rest \in Bytes : \A after : Reads(end, rest, <<>>, after) => Reads(end, w \o rest, e, after)
  BY <1>1, <1>2, FieldsRead
<1>4. PICK r \in Bytes : r = IF end = "ArrayEndMarker" THEN ARRAY_END_MARKER ELSE <<>>
  BY MarkersAreBytes, EmptyIsBytes
<1>5. Reads(end, r, <<>>, <<>>)
  <2>1. CASE end = "ArrayEndMarker"
    <3>1. r = MarkerOf(end) \o <<>>
      BY <1>4, <2>1, EmptyIsBytes, MarkersAreBytes DEF MarkerOf
    <3> QED BY <3>1, EndRead, EmptyIsBytes
  <2>2. CASE end # "ArrayEndMarker"
    BY <1>4, <2>2, NothingRead
  <2> QED BY <2>1, <2>2
<1>6. PICK b \in Bytes : b = w \o r
  BY <1>3, JoinedBytes
<1>7. BytesOf(end, w) = b
  BY <1>3, <1>4, <1>6, EmptyIsBytes DEF BytesOf
<1>8. Reads(end, b, e, <<>>)
  BY <1>3, <1>5, <1>6
<1>9. ReadFields(end, b) = Got(e, <<>>)
  <2>1. Len(b) \in Nat /\ Len(b) >= Len(b)
    BY DEF Bytes
  <2> QED BY <1>8, <2>1 DEF Reads, ReadFields
<1>10. ASSUME NEW i \in 1..n PROVE Len(b) > Len(values[i])
  <2>1. PICK s : s = [k \in 1..n |-> WriteFieldAndValue(names[k], values[k])]
    OBVIOUS
  <2>2. \A k \in 1..n : WriteFieldAndValue(names[k], values[k]) \in Bytes
    BY FieldWritten DEF ReadsBack
  <2>3. s \in [1..n -> Bytes]
    BY <2>1, <2>2
  <2>4. Len(s[i]) \in Nat /\ Len(s[i]) <= Len(w)
    BY <1>1, <2>1, <2>3, PartsAreShorter
  <2>5. Len(s[i]) > Len(values[i]) /\ Len(values[i]) \in Nat
    BY <2>1, ValueIsShorter DEF ReadsBack
  <2>6. Len(b) = Len(w) + Len(r) /\ Len(w) \in Nat /\ Len(r) \in Nat
    BY <1>3, <1>6, JoinedBytes
  <2> QED BY <2>4, <2>5, <2>6
<1> QED BY <1>1, <1>2, <1>6, <1>7, <1>9, <1>10

JSONLevel(depth, below) ==
  [end \in Markers |-> [bytes \in Seq(Byte) |->
     JSONOf(depth, end, ReadFields(end, bytes).value, below)]]

\* ... the JSON of what is so deep,
LEMMA JSONLevels == \A n \in Nat : JSON[n] = JSONLevel(n, JSON[n - 1])
<1> DEFINE F(g, n) == [left \in 0..n |-> JSONLevel(left, g[left - 1])]
           N == {n \in Nat : \E g : g = F(g, n)}
<1>1. \A x, y : JSONLevel(0, x) = JSONLevel(0, y)
  BY DEF JSONLevel, JSONOf
<1>2. \A n \in Nat : \E g : g = F(g, n)
  <2>1. ASSUME NEW n \in Nat, NEW g, g = F(g, n)
        PROVE  F(g, n + 1) = F(F(g, n + 1), n + 1)
    <3> DEFINE h == F(g, n + 1)
    <3>1. ASSUME NEW left \in 0..(n + 1)
          PROVE  JSONLevel(left, g[left - 1]) = JSONLevel(left, h[left - 1])
      <4>1. CASE left = 0
        BY <1>1, <4>1
      <4>2. CASE left # 0
        <5>1. left - 1 \in 0..n /\ left - 1 \in 0..(n + 1)
          BY <4>2
        <5>2. g[left - 1] = h[left - 1]
          BY <2>1, <5>1
        <5> QED BY <5>2
      <4> QED BY <4>1, <4>2
    <3> QED BY <3>1
  <2>2. 0 \in N
    <3> DEFINE g == [left \in 0..0 |-> JSONLevel(0, 0)]
    <3>1. g = F(g, 0)
      BY <1>1
    <3> QED BY <3>1
  <2>3. ASSUME NEW n \in Nat, n \in N PROVE n + 1 \in N
    <3>1. PICK g : g = F(g, n)
      BY <2>3
    <3>2. F(g, n + 1) = F(F(g, n + 1), n + 1)
      BY <2>1, <3>1
    <3> HIDE DEF F
    <3> QED BY <3>2
  <2>4. \A n \in Nat : n \in N
    <3> HIDE DEF N
    <3> QED BY <2>2, <2>3, SetInduction
  <2> HIDE DEF F
  <2> QED BY <2>4
<1> DEFINE a == [n \in Nat |-> CHOOSE g : g = F(g, n)]
           f == [n \in Nat |-> a[n][n]]
<1>3. \A n \in Nat : a[n] = F(a[n], n)
  <2> HIDE DEF F
  <2> QED BY <1>2
<1>4. \A n \in Nat : \A i \in 0..n : a[n][i] = JSONLevel(i, a[n][i - 1])
  <2> HIDE DEF a
  <2> QED BY <1>3
<1> HIDE DEF a
<1>5. \A n \in Nat : \A i \in 0..n : a[n][i] = a[i][i]
  <2>1. \A n, m \in Nat : a[n][0] = a[m][0]
    BY <1>1, <1>4
  <2>2. ASSUME NEW n \in Nat, NEW m \in Nat, NEW i \in Nat, i < n, i < m, a[n][i] = a[m][i]
        PROVE  a[n][i + 1] = a[m][i + 1]
    <3>1. i + 1 \in 0..n /\ i + 1 \in 0..m /\ (i + 1) - 1 = i
      BY <2>2
    <3>2. a[n][i + 1] = JSONLevel(i + 1, a[n][i]) /\ a[m][i + 1] = JSONLevel(i + 1, a[m][i])
      BY <1>4, <3>1
    <3> QED BY <2>2, <3>2
  <2> QED BY <2>1, <2>2, Diagonal
<1>6. ASSUME NEW n \in Nat PROVE f[n] = JSONLevel(n, f[n - 1])
  <2>1. a[n][n] = JSONLevel(n, a[n][n - 1])
    BY <1>4
  <2>2. CASE n = 0
    BY <1>1, <2>1, <2>2
  <2>3. CASE n # 0
    <3>1. n - 1 \in Nat /\ n - 1 \in 0..n
      BY <2>3
    <3>2. a[n][n - 1] = f[n - 1]
      BY <1>5, <3>1
    <3> QED BY <2>1, <3>2
  <2> QED BY <2>2, <2>3
<1>7. f = [n \in Nat |-> JSONLevel(n, f[n - 1])]
  <2> HIDE DEF f
  <2> SUFFICES f = [n \in Nat |-> f[n]]
    BY <1>6
  <2> QED BY DEF f
<1>8. JSON = CHOOSE g : g = [n \in Nat |-> JSONLevel(n, g[n - 1])]
  BY DEF JSON, JSONLevel, JSONOf
<1>9. JSON = [n \in Nat |-> JSONLevel(n, JSON[n - 1])]
  BY <1>7, <1>8
<1> QED BY <1>9

-----------------------------------------------------------------------------
(* The JSON of fields that are read back.                                  *)

FieldJSON(depth, n, bytes) ==
  IF n \in Nested THEN JSON[depth - 1][EndOf(n)][bytes] ELSE LeafToJSON(n, bytes)

\* The bytes of fields, and what an array and an object of them are read as.
FieldBytes(n, names, values) == FlattenSeq([i \in 1..n |-> WriteFieldAndValue(names[i], values[i])])

IsArrayOf(json, depth, n, names, values) ==
  json = [i \in 1..n |-> [m \in {names[i]} |-> FieldJSON(depth, names[i], values[i])]]

IsObjectOf(json, depth, n, names, values) ==
  /\ json = [m \in {names[i] : i \in 1..n} |-> json[m]]
  /\ \A i \in 1..n : json[names[i]] = FieldJSON(depth, names[i], values[i])

\* The JSON of an array and of an object: that of each field is its value, under its name.
LEMMA JSONOfFields ==
  ASSUME NEW end \in Markers, NEW n \in Nat,
         NEW names \in [1..n -> FieldNames], NEW values \in [1..n -> Bytes],
         \A i \in 1..n : names[i] # end /\ ReadsBack(names[i], values[i]),
         NEW depth \in Nat, depth # 0
  PROVE  LET json == JSON[depth][end][BytesOf(end, FieldBytes(n, names, values))]
         IN /\ end = "ArrayEndMarker" => IsArrayOf(json, depth, n, names, values)
            /\ (end # "ArrayEndMarker" /\ \A i, j \in 1..n : names[i] = names[j] => i = j)
                 => IsObjectOf(json, depth, n, names, values)
<1> SUFFICES LET written == FlattenSeq([i \in 1..n |-> WriteFieldAndValue(names[i], values[i])])
                 json == JSON[depth][end][BytesOf(end, written)]
             IN /\ end = "ArrayEndMarker" =>
                     json = [i \in 1..n |-> [m \in {names[i]} |-> FieldJSON(depth, names[i], values[i])]]
                /\ (end # "ArrayEndMarker" /\ \A i, j \in 1..n : names[i] = names[j] => i = j) =>
                     /\ json = [m \in {names[i] : i \in 1..n} |-> json[m]]
                     /\ \A i \in 1..n : json[names[i]] = FieldJSON(depth, names[i], values[i])
  BY DEF FieldBytes, IsArrayOf, IsObjectOf
<1>1. PICK b : b = BytesOf(end, FlattenSeq([i \in 1..n |-> WriteFieldAndValue(names[i], values[i])]))
  OBVIOUS
<1>2. PICK e : e = [i \in 1..n |-> [name |-> names[i], bytes |-> values[i]]]
  OBVIOUS
<1>3. b \in Seq(Byte) /\ ReadFields(end, b) = Got(e, <<>>)
  BY <1>1, <1>2, WholeRead DEF Bytes
<1>4. ReadFields(end, b).value = e
  BY <1>3 DEF Got
<1>5. DOMAIN e = 1..n /\ \A i \in 1..n : e[i].name = names[i] /\ e[i].bytes = values[i]
  BY <1>2
<1>6. PICK below : below = JSON[depth - 1]
  OBVIOUS
<1>7. JSON[depth] = JSONLevel(depth, below)
  BY <1>6, JSONLevels
<1> DEFINE value == [i \in DOMAIN e |->
                       LET f == e[i] IN
                       IF f.name \in Nested THEN below[EndOf(f.name)][f.bytes]
                                            ELSE LeafToJSON(f.name, f.bytes)]
           last(m) == CHOOSE i \in DOMAIN e : e[i].name = m /\ \A j \in DOMAIN e : e[j].name = m => j <= i
           json == JSONLevel(depth, below)[end][b]
<1>8. json = IF end = "ArrayEndMarker"
             THEN [i \in DOMAIN e |-> [m \in {e[i].name} |-> value[i]]]
             ELSE [m \in {e[i].name : i \in DOMAIN e} |-> value[last(m)]]
  <2>1. JSONLevel(depth, below)[end][b] = JSONOf(depth, end, ReadFields(end, b).value, below)
    BY Zenon, <1>3 DEF JSONLevel
  <2>2. JSONLevel(depth, below)[end][b] = JSONOf(depth, end, e, below)
    BY Zenon, <1>4, <2>1
  <2> QED BY Zenon, <2>2 DEF JSONOf
<1>9. \A i \in 1..n : value[i] = FieldJSON(depth, names[i], values[i])
  BY <1>5, <1>6 DEF FieldJSON
<1>10. CASE end = "ArrayEndMarker"
  <2>1. json = [i \in 1..n |-> [m \in {names[i]} |-> FieldJSON(depth, names[i], values[i])]]
    <3> HIDE DEF json, value
    <3> QED BY <1>5, <1>8, <1>9, <1>10
  <2> QED BY <1>1, <1>7, <1>10, <2>1
<1>11. CASE end # "ArrayEndMarker" /\ \A i, j \in 1..n : names[i] = names[j] => i = j
  <2>1. ASSUME NEW i \in 1..n PROVE last(names[i]) = i
    BY <1>5, <1>11
  <2>2. {e[i].name : i \in DOMAIN e} = {names[i] : i \in 1..n}
    BY <1>5
  <2> HIDE DEF json, value, last
  <2>3. json = [m \in {names[i] : i \in 1..n} |-> value[last(m)]]
    BY <1>8, <1>11, <2>2
  <2>4. json = [m \in {names[i] : i \in 1..n} |-> json[m]]
    BY <2>3
  <2>5. \A i \in 1..n : json[names[i]] = FieldJSON(depth, names[i], values[i])
    BY <1>9, <2>1, <2>3
  <2>6. JSON[depth][end][BytesOf(end, FlattenSeq([i \in 1..n |-> WriteFieldAndValue(names[i], values[i])]))] = json
    BY <1>1, <1>7 DEF json
  <2> QED BY <1>11, <2>4, <2>5, <2>6
<1> QED BY <1>10, <1>11

PathsLevel(left, after) ==
  [bytes \in Seq(Byte) |->
     LET hop == ReadHop(bytes)
         next == hop.rest[1]
     IN IF left = 0 \/ next = PATHSET_END_BYTE \/ (next = PATH_SEPARATOR_BYTE /\ Len(hop.rest) = 1)
        THEN Got(<< <<hop.value>> >>, Tail(hop.rest))
        ELSE IF next = PATH_SEPARATOR_BYTE THEN Before(<<hop.value>>, after[Tail(hop.rest)])
        ELSE LET more == after[hop.rest]
             IN Got(<< <<hop.value>> \o Head(more.value) >> \o Tail(more.value), more.rest)]

\* ... and the paths of so many hops.
LEMMA PathsLevels == \A n \in Nat : ReadingPaths[n] = PathsLevel(n, ReadingPaths[n - 1])
<1> DEFINE F(g, n) == [left \in 0..n |-> PathsLevel(left, g[left - 1])]
           N == {n \in Nat : \E g : g = F(g, n)}
<1>1. \A x, y : PathsLevel(0, x) = PathsLevel(0, y)
  BY DEF PathsLevel
<1>2. \A n \in Nat : \E g : g = F(g, n)
  <2>1. ASSUME NEW n \in Nat, NEW g, g = F(g, n)
        PROVE  F(g, n + 1) = F(F(g, n + 1), n + 1)
    <3> DEFINE h == F(g, n + 1)
    <3>1. ASSUME NEW left \in 0..(n + 1)
          PROVE  PathsLevel(left, g[left - 1]) = PathsLevel(left, h[left - 1])
      <4>1. CASE left = 0
        BY <1>1, <4>1
      <4>2. CASE left # 0
        <5>1. left - 1 \in 0..n /\ left - 1 \in 0..(n + 1)
          BY <4>2
        <5>2. g[left - 1] = h[left - 1]
          BY <2>1, <5>1
        <5> QED BY <5>2
      <4> QED BY <4>1, <4>2
    <3> QED BY <3>1
  <2>2. 0 \in N
    <3> DEFINE g == [left \in 0..0 |-> PathsLevel(0, 0)]
    <3>1. g = F(g, 0)
      BY <1>1
    <3> QED BY <3>1
  <2>3. ASSUME NEW n \in Nat, n \in N PROVE n + 1 \in N
    <3>1. PICK g : g = F(g, n)
      BY <2>3
    <3>2. F(g, n + 1) = F(F(g, n + 1), n + 1)
      BY <2>1, <3>1
    <3> HIDE DEF F
    <3> QED BY <3>2
  <2>4. \A n \in Nat : n \in N
    <3> HIDE DEF N
    <3> QED BY <2>2, <2>3, SetInduction
  <2> HIDE DEF F
  <2> QED BY <2>4
<1> DEFINE a == [n \in Nat |-> CHOOSE g : g = F(g, n)]
           f == [n \in Nat |-> a[n][n]]
<1>3. \A n \in Nat : a[n] = F(a[n], n)
  <2> HIDE DEF F
  <2> QED BY <1>2
<1>4. \A n \in Nat : \A i \in 0..n : a[n][i] = PathsLevel(i, a[n][i - 1])
  <2> HIDE DEF a
  <2> QED BY <1>3
<1> HIDE DEF a
<1>5. \A n \in Nat : \A i \in 0..n : a[n][i] = a[i][i]
  <2>1. \A n, m \in Nat : a[n][0] = a[m][0]
    BY <1>1, <1>4
  <2>2. ASSUME NEW n \in Nat, NEW m \in Nat, NEW i \in Nat, i < n, i < m, a[n][i] = a[m][i]
        PROVE  a[n][i + 1] = a[m][i + 1]
    <3>1. i + 1 \in 0..n /\ i + 1 \in 0..m /\ (i + 1) - 1 = i
      BY <2>2
    <3>2. a[n][i + 1] = PathsLevel(i + 1, a[n][i]) /\ a[m][i + 1] = PathsLevel(i + 1, a[m][i])
      BY <1>4, <3>1
    <3> QED BY <2>2, <3>2
  <2> QED BY <2>1, <2>2, Diagonal
<1>6. ASSUME NEW n \in Nat PROVE f[n] = PathsLevel(n, f[n - 1])
  <2>1. a[n][n] = PathsLevel(n, a[n][n - 1])
    BY <1>4
  <2>2. CASE n = 0
    BY <1>1, <2>1, <2>2
  <2>3. CASE n # 0
    <3>1. n - 1 \in Nat /\ n - 1 \in 0..n
      BY <2>3
    <3>2. a[n][n - 1] = f[n - 1]
      BY <1>5, <3>1
    <3> QED BY <2>1, <3>2
  <2> QED BY <2>2, <2>3
<1>7. f = [n \in Nat |-> PathsLevel(n, f[n - 1])]
  <2> HIDE DEF f
  <2> SUFFICES f = [n \in Nat |-> f[n]]
    BY <1>6
  <2> QED BY DEF f
<1>8. ReadingPaths = CHOOSE g : g = [n \in Nat |-> PathsLevel(n, g[n - 1])]
  BY DEF ReadingPaths, PathsLevel
<1>9. ReadingPaths = [n \in Nat |-> PathsLevel(n, ReadingPaths[n - 1])]
  BY <1>7, <1>8
<1> QED BY <1>9

-----------------------------------------------------------------------------
(* Path sets.                                                              *)

\* What is in front is the head, and the rest the tail.
LEMMA FrontIsHead ==
  \A S : \A a \in S, v \in Seq(S) :
    /\ <<a>> \o v \in Seq(S) /\ Head(<<a>> \o v) = a /\ Tail(<<a>> \o v) = v
    /\ Len(<<a>> \o v) = Len(v) + 1 /\ (<<a>> \o v)[1] = a
<1> SUFFICES ASSUME NEW S, NEW a \in S, NEW v \in Seq(S)
             PROVE  /\ <<a>> \o v \in Seq(S) /\ Head(<<a>> \o v) = a /\ Tail(<<a>> \o v) = v
                    /\ Len(<<a>> \o v) = Len(v) + 1 /\ (<<a>> \o v)[1] = a
  OBVIOUS
<1>1. PICK f \in Seq(S) : f = <<a>>
  <2>1. <<a>> \in Seq(S)
    OBVIOUS
  <2> QED BY <2>1
<1>2. Len(f) = 1 /\ f[1] = a
  BY <1>1
<1>3. /\ f \o v \in Seq(S) /\ Len(f \o v) = Len(f) + Len(v)
      /\ \A i \in 1 .. Len(f) + Len(v) : (f \o v)[i] = IF i <= Len(f) THEN f[i] ELSE v[i - Len(f)]
  BY ConcatProperties
<1>4. PICK w \in Seq(S) : w = f \o v
  BY <1>3
<1>5. Len(w) = Len(v) + 1 /\ w[1] = a /\ \A i \in 1..Len(v) : w[i + 1] = v[i]
  <2>1. Len(v) \in Nat /\ Len(w) = Len(v) + 1 /\ 1 \in 1 .. Len(f) + Len(v)
    BY <1>2, <1>3, <1>4
  <2>2. w[1] = a
    BY <1>2, <1>3, <1>4, <2>1
  <2>3. ASSUME NEW i \in 1..Len(v) PROVE w[i + 1] = v[i]
    <3>1. i + 1 \in 1 .. Len(f) + Len(v) /\ ~(i + 1 <= Len(f)) /\ (i + 1) - Len(f) = i
      BY <1>2, <2>1
    <3> QED BY <1>3, <1>4, <3>1
  <2> QED BY <2>1, <2>2, <2>3
<1>6. Tail(w) = v
  <2>1. w # <<>> /\ Len(v) \in Nat
    BY <1>5
  <2>2. PICK t \in Seq(S) : t = Tail(w)
    BY <2>1, HeadTailProperties
  <2>3. Len(t) = Len(v) /\ \A i \in 1..Len(t) : t[i] = w[i + 1]
    BY <1>5, <2>1, <2>2
  <2>4. \A i \in 1..Len(t) : t[i] = v[i]
    BY <1>5, <2>3
  <2>5. t = v
    BY <2>3, <2>4, SeqEqual
  <2> QED BY <2>2, <2>5
<1>7. Head(w) = a
  BY <1>5
<1> QED BY <1>1, <1>3, <1>4, <1>5, <1>6, <1>7

\* A byte by itself.
LEMMA OneByte == \A b \in Byte : <<b>> \in Bytes /\ Len(<<b>>) = 1 /\ <<b>>[1] = b
BY DEF Bytes

\* A hop begins with its type, which is neither the end of a path nor of a path set,
\* and is read as the same hop.
LEMMA HopRead ==
  ASSUME NEW hop, IsHop(hop)
  PROVE  /\ HopFrom(hop) \in Bytes /\ Len(HopFrom(hop)) >= 1
         /\ HopFrom(hop)[1] # PATHSET_END_BYTE /\ HopFrom(hop)[1] # PATH_SEPARATOR_BYTE
         /\ \A rest \in Bytes : ReadHop(HopFrom(hop) \o rest) = Got(hop, rest)
<1> DEFINE D == DOMAIN hop
<1>1. /\ D # {} /\ \A f \in D : f = "account" \/ f = "currency" \/ f = "issuer"
      /\ \A f \in D : \E x \in Byte : hop[f] = <<x>>
      /\ hop = [f \in D |-> hop[f]]
  BY DEF IsHop, HopType
<1> DEFINE pa == IF "account" \in D THEN hop["account"] ELSE <<>>
           pc == IF "currency" \in D THEN hop["currency"] ELSE <<>>
           pi == IF "issuer" \in D THEN hop["issuer"] ELSE <<>>
           ba == IF "account" \in D THEN 1 ELSE 0
           bc == IF "currency" \in D THEN 16 ELSE 0
           bi == IF "issuer" \in D THEN 32 ELSE 0
<1>2. PICK t \in Byte : t = ba + bc + bi
  BY DEF Byte
<1>3. PICK a \in 0..1, c \in 0..1, i \in 0..1 :
        /\ a = (IF "account" \in D THEN 1 ELSE 0)
        /\ c = (IF "currency" \in D THEN 1 ELSE 0)
        /\ i = (IF "issuer" \in D THEN 1 ELSE 0)
  OBVIOUS
<1>4. /\ t = a + 16 * c + 32 * i /\ t # 0 /\ t # 255
      /\ (t \div 1) % 2 = a /\ (t \div 16) % 2 = c /\ (t \div 32) % 2 = i
  <2>1. t = a + 16 * c + 32 * i
    BY <1>2, <1>3
  <2>2. a = 1 \/ c = 1 \/ i = 1
    BY <1>1, <1>3
  <2>3. (a = 0 \/ a = 1) /\ (c = 0 \/ c = 1) /\ (i = 0 \/ i = 1)
    OBVIOUS
  <2> HIDE DEF D
  <2> QED BY <2>1, <2>2, <2>3
<1>5. PICK x \in Bytes : x = pa /\ Len(x) = a
  <2>1. <<>> \in Bytes /\ Len(<<>>) = 0
    BY EmptyIsBytes
  <2>2. CASE "account" \in D
    <3>1. PICK b \in Byte : hop["account"] = <<b>>
      BY <1>1, <2>2
    <3>2. <<b>> \in Bytes /\ Len(<<b>>) = 1
      BY OneByte
    <3> QED BY <1>3, <2>2, <3>1, <3>2
  <2>3. CASE "account" \notin D
    BY <1>3, <2>1, <2>3
  <2> QED BY <2>2, <2>3
<1>6. PICK y \in Bytes : y = pc /\ Len(y) = c
  <2>1. <<>> \in Bytes /\ Len(<<>>) = 0
    BY EmptyIsBytes
  <2>2. CASE "currency" \in D
    <3>1. PICK b \in Byte : hop["currency"] = <<b>>
      BY <1>1, <2>2
    <3>2. <<b>> \in Bytes /\ Len(<<b>>) = 1
      BY OneByte
    <3> QED BY <1>3, <2>2, <3>1, <3>2
  <2>3. CASE "currency" \notin D
    BY <1>3, <2>1, <2>3
  <2> QED BY <2>2, <2>3
<1>7. PICK z \in Bytes : z = pi /\ Len(z) = i
  <2>1. <<>> \in Bytes /\ Len(<<>>) = 0
    BY EmptyIsBytes
  <2>2. CASE "issuer" \in D
    <3>1. PICK b \in Byte : hop["issuer"] = <<b>>
      BY <1>1, <2>2
    <3>2. <<b>> \in Bytes /\ Len(<<b>>) = 1
      BY OneByte
    <3> QED BY <1>3, <2>2, <3>1, <3>2
  <2>3. CASE "issuer" \notin D
    BY <1>3, <2>1, <2>3
  <2> QED BY <2>2, <2>3
<1>8. PICK h : h = HopFrom(hop)
  OBVIOUS
<1>9. h = ((<<t>> \o x) \o y) \o z
  <2>1. HopType["account"] = 1 /\ HopType["currency"] = 16 /\ HopType["issuer"] = 32
    BY DEF HopType
  <2> QED BY <1>2, <1>5, <1>6, <1>7, <1>8, <2>1 DEF HopFrom
<1> HIDE DEF pa, pc, pi, ba, bc, bi
<1>10. PICK h1 \in Seq(Byte) : h1 = <<t>> /\ Len(h1) = 1 /\ h1[1] = t
  <2>1. <<t>> \in Seq(Byte) /\ Len(<<t>>) = 1 /\ <<t>>[1] = t
    OBVIOUS
  <2> QED BY <2>1
<1>11. \A p, q \in Seq(Byte) : /\ p \o q \in Seq(Byte) /\ Len(p \o q) = Len(p) + Len(q)
                               /\ \A k \in 1..Len(p) : (p \o q)[k] = p[k]
                               /\ \A k \in 1..Len(q) : (p \o q)[Len(p) + k] = q[k]
  BY ConcatProperties
<1>12. PICK h2 \in Seq(Byte) : h2 = h1 \o x
  BY <1>11 DEF Bytes
<1>13. PICK h3 \in Seq(Byte) : h3 = h2 \o y
  BY <1>11 DEF Bytes
<1>14. h \in Seq(Byte) /\ h = h3 \o z
  BY <1>9, <1>10, <1>11, <1>12, <1>13 DEF Bytes
<1>15. Len(h2) = 1 + a /\ h2[1] = t /\ (a = 1 => h2[2] = x[1])
  <2>1. x \in Seq(Byte)
    BY DEF Bytes
  <2>2. /\ Len(h2) = Len(h1) + Len(x) /\ \A k \in 1..Len(h1) : h2[k] = h1[k]
        /\ \A k \in 1..Len(x) : h2[Len(h1) + k] = x[k]
    BY <1>11, <1>12, <2>1
  <2>3. a = 1 => h2[1 + 1] = x[1]
    BY <1>5, <1>10, <2>2
  <2> QED BY <1>5, <1>10, <2>2, <2>3
<1>16. Len(h3) = 1 + a + c /\ h3[1] = t /\ (a = 1 => h3[2] = x[1]) /\ (c = 1 => h3[2 + a] = y[1])
  <2>1. y \in Seq(Byte)
    BY DEF Bytes
  <2>2. /\ Len(h3) = Len(h2) + Len(y) /\ \A k \in 1..Len(h2) : h3[k] = h2[k]
        /\ \A k \in 1..Len(y) : h3[Len(h2) + k] = y[k]
    BY <1>11, <1>13, <2>1
  <2>3. c = 1 => h3[1 + a + 1] = y[1]
    BY <1>6, <1>15, <2>2
  <2>4. 1 \in 1..Len(h2) /\ (a = 1 => 2 \in 1..Len(h2)) /\ 1 + a + 1 = 2 + a
    BY <1>15
  <2> QED BY <1>6, <1>15, <2>2, <2>3, <2>4
<1>17. /\ Len(h) = 1 + a + c + i /\ h[1] = t /\ (a = 1 => h[2] = x[1]) /\ (c = 1 => h[2 + a] = y[1])
       /\ (i = 1 => h[2 + a + c] = z[1])
  <2>1. z \in Seq(Byte)
    BY DEF Bytes
  <2>2. /\ Len(h) = Len(h3) + Len(z) /\ \A k \in 1..Len(h3) : h[k] = h3[k]
        /\ \A k \in 1..Len(z) : h[Len(h3) + k] = z[k]
    BY <1>11, <1>14, <2>1
  <2>3. i = 1 => h[1 + a + c + 1] = z[1]
    BY <1>7, <1>16, <2>2
  <2>4. /\ 1 \in 1..Len(h3) /\ (a = 1 => 2 \in 1..Len(h3)) /\ (c = 1 => 2 + a \in 1..Len(h3))
        /\ 1 + a + c + 1 = 2 + a + c
    BY <1>16
  <2> QED BY <1>7, <1>16, <2>2, <2>3, <2>4
<1>18. ASSUME NEW rest \in Bytes PROVE ReadHop(h \o rest) = Got(hop, rest)
  <2>1. PICK w \in Seq(Byte) : w = h \o rest
    BY <1>11, <1>14 DEF Bytes
  <2>2. /\ \A k \in 1..Len(h) : w[k] = h[k]
        /\ Skip(w, Len(h)) = rest
    <3>1. h \in Seq(Byte) /\ rest \in Seq(Byte)
      BY <1>14 DEF Bytes
    <3>2. Skip(h \o rest, Len(h)) = rest /\ \A k \in 1..Len(h) : (h \o rest)[k] = h[k]
      BY <3>1, BytesSplit
    <3> QED BY <2>1, <3>2
  <2>3. /\ w[1] = t /\ (a = 1 => w[2] = x[1]) /\ (c = 1 => w[2 + a] = y[1])
        /\ (i = 1 => w[2 + a + c] = z[1])
    <3>1. /\ 1 \in 1..Len(h) /\ (a = 1 => 2 \in 1..Len(h)) /\ (c = 1 => 2 + a \in 1..Len(h))
          /\ (i = 1 => 2 + a + c \in 1..Len(h))
      BY <1>17
    <3> QED BY <1>17, <2>2, <3>1
  <2> DEFINE has(f) == IF HasBit(w[1], HopType[f]) THEN 1 ELSE 0
             place == [account |-> 2, currency |-> 2 + has("account"),
                       issuer |-> 2 + has("account") + has("currency")]
  <2>4. has("account") = a /\ has("currency") = c /\ has("issuer") = i
    <3>1. HopType["account"] = 1 /\ HopType["currency"] = 16 /\ HopType["issuer"] = 32
      BY DEF HopType
    <3> QED BY <1>4, <2>3, <3>1 DEF HasBit
  <2>5. ReadHop(w) = Got([f \in {g \in DOMAIN HopType : has(g) = 1} |-> <<w[place[f]]>>],
                         Skip(w, 1 + has("account") + has("currency") + has("issuer")))
    BY Zenon DEF ReadHop
  <2> HIDE DEF has
  <2>6. {g \in DOMAIN HopType : has(g) = 1} = D
    <3>1. DOMAIN HopType = {"account", "currency", "issuer"}
      BY DEF HopType
    <3>2. ("account" \in D <=> has("account") = 1) /\ ("currency" \in D <=> has("currency") = 1)
          /\ ("issuer" \in D <=> has("issuer") = 1)
      BY <1>3, <2>4
    <3> HIDE DEF D
    <3> QED BY <1>1, <3>1, <3>2
  <2>7. ASSUME NEW f \in D PROVE <<w[place[f]]>> = hop[f]
    <3>1. CASE f = "account"
      <4>1. x = hop[f] /\ a = 1
        BY <1>3, <1>5, <3>1 DEF pa
      <4> QED BY <1>1, <2>3, <3>1, <4>1
    <3>2. CASE f = "currency"
      <4>1. y = hop[f] /\ c = 1
        BY <1>3, <1>6, <3>2 DEF pc
      <4>2. place[f] = 2 + a
        BY <2>4, <3>2
      <4> QED BY <1>1, <2>3, <4>1, <4>2
    <3>3. CASE f = "issuer"
      <4>1. z = hop[f] /\ i = 1
        BY <1>3, <1>7, <3>3 DEF pi
      <4>2. place[f] = 2 + a + c
        BY <2>4, <3>3
      <4> QED BY <1>1, <2>3, <4>1, <4>2
    <3> QED BY <1>1, <3>1, <3>2, <3>3
  <2> HIDE DEF place, D
  <2>8. [f \in {g \in DOMAIN HopType : has(g) = 1} |-> <<w[place[f]]>>] = hop
    BY <1>1, <2>6, <2>7
  <2>9. Skip(w, 1 + has("account") + has("currency") + has("issuer")) = rest
    BY <1>17, <2>2, <2>4
  <2> QED BY <2>1, <2>5, <2>8, <2>9
<1>19. Len(h) >= 1 /\ h[1] # 0 /\ h[1] # 255
  BY <1>4, <1>17
<1> QED BY <1>8, <1>14, <1>18, <1>19 DEF PATHSET_END_BYTE, PATH_SEPARATOR_BYTE, Bytes

\* What may be read as a hop, and as a path.
HopSet == UNION {[has -> {<<b>> : b \in Byte}] : has \in SUBSET DOMAIN HopType}
Paths == Seq(HopSet)

\* From these bytes these paths are read.
PathsRead(bytes, paths, rest) ==
  \A left \in Nat : left >= Len(bytes) => ReadingPaths[left][bytes] = Got(paths, rest)

\* What goes on with a hop, not the end of a path.
GoesOn(bytes) ==
  /\ bytes \in Bytes /\ Len(bytes) >= 1
  /\ bytes[1] # PATHSET_END_BYTE /\ bytes[1] # PATH_SEPARATOR_BYTE

\* A hop before others is read before them, whatever the byte between.
LEMMA HopBefore ==
  ASSUME NEW hop, IsHop(hop), NEW more \in Bytes, Len(more) >= 1, NEW left \in Nat,
         left >= Len(HopFrom(hop) \o more)
  PROVE  /\ left - 1 \in Nat /\ left - 1 >= Len(more)
         /\ HopFrom(hop) \o more \in Bytes
         /\ ReadingPaths[left][HopFrom(hop) \o more]
              = IF more[1] = PATHSET_END_BYTE \/ (more[1] = PATH_SEPARATOR_BYTE /\ Len(more) = 1)
                THEN Got(<< <<hop>> >>, Tail(more))
                ELSE IF more[1] = PATH_SEPARATOR_BYTE
                THEN Before(<<hop>>, ReadingPaths[left - 1][Tail(more)])
                ELSE LET others == ReadingPaths[left - 1][more]
                     IN Got(<< <<hop>> \o Head(others.value) >> \o Tail(others.value), others.rest)
<1>1. PICK h \in Bytes : h = HopFrom(hop)
  BY HopRead
<1>2. PICK y \in Bytes : y = h \o more
  BY JoinedBytes
<1>3. Len(h) >= 1 /\ ReadHop(y) = Got(hop, more)
  BY <1>1, <1>2, HopRead
<1>4. Len(y) = Len(h) + Len(more) /\ Len(h) \in Nat /\ Len(more) \in Nat
  BY <1>2, JoinedBytes
<1>5. left # 0 /\ left - 1 \in Nat /\ left - 1 >= Len(more)
  BY <1>1, <1>2, <1>3, <1>4
<1>6. ReadHop(y).value = hop /\ ReadHop(y).rest = more
  BY <1>3 DEF Got
<1>7. PICK after : after = ReadingPaths[left - 1]
  OBVIOUS
<1>8. ReadingPaths[left] = PathsLevel(left, after)
  BY <1>7, PathsLevels
<1>9. PathsLevel(left, after)[y]
        = IF more[1] = PATHSET_END_BYTE \/ (more[1] = PATH_SEPARATOR_BYTE /\ Len(more) = 1)
          THEN Got(<< <<hop>> >>, Tail(more))
          ELSE IF more[1] = PATH_SEPARATOR_BYTE THEN Before(<<hop>>, after[Tail(more)])
          ELSE LET others == after[more]
               IN Got(<< <<hop>> \o Head(others.value) >> \o Tail(others.value), others.rest)
  <2>1. y \in Seq(Byte)
    BY DEF Bytes
  <2> QED BY Zenon, <1>5, <1>6, <2>1 DEF PathsLevel
<1> QED BY <1>1, <1>2, <1>5, <1>7, <1>8, <1>9

\* The last hop of all, the last one of a path, and one before others of its path.
LEMMA LastHop ==
  ASSUME NEW hop, IsHop(hop), NEW rest \in Bytes
  PROVE  PathsRead(HopFrom(hop) \o (<<PATHSET_END_BYTE>> \o rest), << <<hop>> >>, rest)
<1>1. <<PATHSET_END_BYTE>> \in Bytes /\ PATHSET_END_BYTE \in Byte
  BY OneByte DEF PATHSET_END_BYTE, Byte
<1>2. PICK m : m = <<PATHSET_END_BYTE>> \o rest
  OBVIOUS
<1>3. m \in Bytes /\ Len(m) = Len(rest) + 1 /\ m[1] = PATHSET_END_BYTE /\ Tail(m) = rest /\ Len(rest) \in Nat
  BY <1>1, <1>2, FrontIsHead DEF Bytes
<1>4. Len(m) >= 1
  BY <1>3
<1>5. ASSUME NEW left \in Nat, left >= Len(HopFrom(hop) \o m)
      PROVE  ReadingPaths[left][HopFrom(hop) \o m] = Got(<< <<hop>> >>, rest)
  BY <1>3, <1>4, <1>5, HopBefore
<1> QED BY <1>2, <1>5 DEF PathsRead

\* A hop before a separator is a path before those that follow.
LEMMA LastHopOfPath ==
  ASSUME NEW hop, IsHop(hop), NEW bytes, GoesOn(bytes), NEW paths, NEW rest, PathsRead(bytes, paths, rest)
  PROVE  PathsRead(HopFrom(hop) \o (<<PATH_SEPARATOR_BYTE>> \o bytes), << <<hop>> >> \o paths, rest)
<1>1. <<PATH_SEPARATOR_BYTE>> \in Bytes /\ PATH_SEPARATOR_BYTE \in Byte
  BY OneByte DEF PATH_SEPARATOR_BYTE, Byte
<1>2. PICK m : m = <<PATH_SEPARATOR_BYTE>> \o bytes
  OBVIOUS
<1>3. /\ m \in Bytes /\ Len(m) = Len(bytes) + 1 /\ m[1] = PATH_SEPARATOR_BYTE /\ Tail(m) = bytes
      /\ bytes \in Bytes /\ Len(bytes) \in Nat /\ Len(bytes) >= 1
  BY <1>1, <1>2, FrontIsHead DEF Bytes, GoesOn
<1>4. Len(m) >= 1 /\ Len(m) # 1 /\ PATH_SEPARATOR_BYTE # PATHSET_END_BYTE
  BY <1>3 DEF PATH_SEPARATOR_BYTE, PATHSET_END_BYTE
<1>5. ASSUME NEW left \in Nat, left >= Len(HopFrom(hop) \o m)
      PROVE  ReadingPaths[left][HopFrom(hop) \o m] = Got(<< <<hop>> >> \o paths, rest)
  <2>1. /\ left - 1 \in Nat /\ left - 1 >= Len(m)
        /\ ReadingPaths[left][HopFrom(hop) \o m] = Before(<<hop>>, ReadingPaths[left - 1][bytes])
    BY <1>3, <1>4, <1>5, HopBefore
  <2>2. left - 1 >= Len(bytes)
    BY <1>3, <2>1
  <2>3. ReadingPaths[left - 1][bytes] = Got(paths, rest)
    BY <2>1, <2>2 DEF PathsRead
  <2> QED BY <2>1, <2>3 DEF Before, Got
<1> QED BY <1>2, <1>5 DEF PathsRead

\* A hop before what goes on is the first of the path that follows.
LEMMA HopOfPath ==
  ASSUME NEW hop, IsHop(hop), NEW bytes, GoesOn(bytes), NEW path \in Paths, NEW paths \in Seq(Paths),
         NEW rest, PathsRead(bytes, <<path>> \o paths, rest)
  PROVE  PathsRead(HopFrom(hop) \o bytes, << <<hop>> \o path >> \o paths, rest)
<1>1. ASSUME NEW left \in Nat, left >= Len(HopFrom(hop) \o bytes)
      PROVE  ReadingPaths[left][HopFrom(hop) \o bytes] = Got(<< <<hop>> \o path >> \o paths, rest)
  <2>1. /\ left - 1 \in Nat /\ left - 1 >= Len(bytes)
        /\ ReadingPaths[left][HopFrom(hop) \o bytes]
             = LET others == ReadingPaths[left - 1][bytes]
               IN Got(<< <<hop>> \o Head(others.value) >> \o Tail(others.value), others.rest)
    BY <1>1, HopBefore DEF GoesOn
  <2>2. ReadingPaths[left - 1][bytes] = Got(<<path>> \o paths, rest)
    BY <2>1 DEF PathsRead
  <2>3. Head(<<path>> \o paths) = path /\ Tail(<<path>> \o paths) = paths
    BY FrontIsHead
  <2>4. PICK others : others = Got(<<path>> \o paths, rest)
    OBVIOUS
  <2>5. others.value = <<path>> \o paths /\ others.rest = rest
    BY <2>4 DEF Got
  <2>6. ReadingPaths[left][HopFrom(hop) \o bytes]
          = Got(<< <<hop>> \o Head(others.value) >> \o Tail(others.value), others.rest)
    BY <2>1, <2>2, <2>4
  <2> QED BY <2>3, <2>5, <2>6
<1> QED BY <1>1 DEF PathsRead

\* With a hop in front it goes on.
LEMMA HopGoesOn ==
  ASSUME NEW hop, IsHop(hop), NEW bytes \in Bytes
  PROVE  GoesOn(HopFrom(hop) \o bytes)
<1>1. PICK h \in Bytes : h = HopFrom(hop)
  BY HopRead
<1>2. PICK y \in Bytes : y = h \o bytes
  BY JoinedBytes
<1>3. Len(h) >= 1 /\ h[1] # PATHSET_END_BYTE /\ h[1] # PATH_SEPARATOR_BYTE
  BY <1>1, HopRead
<1>4. Len(y) >= 1
  BY <1>2, <1>3, JoinedBytes
<1>5. y[1] = h[1]
  <2>1. 1 \in 1..Len(h)
    BY <1>3 DEF Bytes
  <2> QED BY <1>2, <2>1, BytesSplit DEF Bytes
<1> QED BY <1>1, <1>2, <1>3, <1>4, <1>5 DEF GoesOn

\* Of hops: the first and the next one before others are one more before the others.
LEMMA HopInFront ==
  ASSUME NEW path \in Paths, NEW last \in Paths, NEW j \in Nat, j < Len(path)
  PROVE  First(path, j) \o (<<path[j + 1]>> \o last) = First(path, j + 1) \o last
<1>1. path \in Seq(HopSet) /\ last \in Seq(HopSet)
  BY DEF Paths
<1>2. InFront(HopSet)
  BY Zenon, OneMoreInFront
<1> QED BY Zenon, <1>1, <1>2 DEF InFront

\* The hops of a path, written one after the other, before what ends the path with one
\* hop more.
LEMMA HopsRead ==
  ASSUME NEW n \in Nat, NEW path \in Paths, Len(path) >= n, \A i \in 1..n : IsHop(path[i]),
         NEW rest
  PROVE  LET s == [i \in 1..n |-> HopFrom(path[i])]
         IN /\ s \in [1..n -> Bytes]
            /\ \A bytes \in Bytes, last \in Paths, paths \in Seq(Paths) :
                 GoesOn(bytes) /\ PathsRead(bytes, <<last>> \o paths, rest)
                   => /\ GoesOn(FlattenSeq(s) \o bytes)
                      /\ PathsRead(FlattenSeq(s) \o bytes, << First(path, n) \o last >> \o paths, rest)
<1>1. PICK s : s = [i \in 1..n |-> HopFrom(path[i])]
  OBVIOUS
<1>2. s \in [1..n -> Bytes]
  <2>1. \A i \in 1..n : HopFrom(path[i]) \in Bytes
    BY HopRead
  <2> QED BY <1>1, <2>1
<1> DEFINE S == {j \in Nat : j <= n =>
                   \A bytes \in Bytes, last \in Paths, paths \in Seq(Paths) :
                     GoesOn(bytes) /\ PathsRead(bytes, <<last>> \o paths, rest)
                       => /\ GoesOn(Joined(s, j) \o bytes)
                          /\ PathsRead(Joined(s, j) \o bytes, << First(path, j) \o last >> \o paths, rest)}
<1>3. 0 \in S
  <2>0. First(path, 0) = <<>>
    BY DEF First
  <2>1. Joined(s, 0) = <<>> /\ First(path, 0) = <<>>
    BY <1>2, <2>0, JoinOneMore
  <2>2. \A bytes \in Bytes : <<>> \o bytes = bytes
    BY EmptyIsBytes
  <2>3. \A last \in Paths : <<>> \o last = last
    BY ConcatEmptySeq DEF Paths
  <2> QED BY <2>1, <2>2, <2>3
<1>4. ASSUME NEW j \in Nat, j \in S PROVE j + 1 \in S
  <2>1. ASSUME j + 1 <= n, NEW bytes \in Bytes, NEW last \in Paths, NEW paths \in Seq(Paths),
               GoesOn(bytes), PathsRead(bytes, <<last>> \o paths, rest)
        PROVE  /\ GoesOn(Joined(s, j + 1) \o bytes)
               /\ PathsRead(Joined(s, j + 1) \o bytes, << First(path, j + 1) \o last >> \o paths, rest)
    <3>1. j + 1 \in 1..n /\ (j + 1) - 1 = j /\ j <= n /\ j < Len(path) /\ j \in 0..n
      <4>1. Len(path) \in Nat
        BY DEF Paths
      <4> QED BY <2>1, <4>1
    <3>2. PICK hop : hop = path[j + 1]
      OBVIOUS
    <3>3. IsHop(hop) /\ hop \in HopSet
      <4>1. j + 1 \in 1..Len(path)
        BY <3>1 DEF Paths
      <4> QED BY <3>1, <3>2, <4>1 DEF Paths
    <3>4. PICK w \in Bytes : w = HopFrom(hop) /\ w = s[j + 1]
      BY <1>1, <3>1, <3>2, <3>3, HopRead
    <3>5. w \o bytes \in Bytes /\ GoesOn(w \o bytes)
      BY <3>3, <3>4, HopGoesOn, JoinedBytes
    <3>6. PICK q \in Paths : q = <<hop>> \o last
      BY <3>3, FrontIsHead DEF Paths
    <3>7. PathsRead(w \o bytes, <<q>> \o paths, rest)
      BY <2>1, <3>3, <3>4, <3>6, HopOfPath
    <3>8. /\ GoesOn(Joined(s, j) \o (w \o bytes))
          /\ PathsRead(Joined(s, j) \o (w \o bytes), << First(path, j) \o q >> \o paths, rest)
      BY <1>4, <3>1, <3>5, <3>7
    <3>9. Joined(s, j) \o (w \o bytes) = Joined(s, j + 1) \o bytes
      <4>1. PICK p \in Bytes : p = Joined(s, j)
        BY <1>2, <3>1, JoinOneMore
      <4>2. Joined(s, j + 1) = p \o w
        BY <1>2, <3>1, <3>4, <4>1, JoinOneMore
      <4>3. (p \o w) \o bytes = p \o (w \o bytes)
        BY Zenon, AppendIsAssociative DEF Bytes
      <4> QED BY <4>1, <4>2, <4>3
    <3>10. First(path, j) \o q = First(path, j + 1) \o last
      BY <3>1, <3>2, <3>6, HopInFront
    <3> QED BY <3>8, <3>9, <3>10
  <2>2. j + 1 \in Nat
    OBVIOUS
  <2> QED BY <2>1, <2>2
<1>5. \A j \in Nat : j \in S
  <2> HIDE DEF S
  <2> QED BY <1>3, <1>4, SetInduction
<1>6. FlattenSeq(s) = Joined(s, n)
  BY <1>2, JoinOneMore
<1>7. n \in S
  BY <1>5
<1>8. \A bytes \in Bytes, last \in Paths, paths \in Seq(Paths) :
        GoesOn(bytes) /\ PathsRead(bytes, <<last>> \o paths, rest)
          => /\ GoesOn(Joined(s, n) \o bytes)
             /\ PathsRead(Joined(s, n) \o bytes, << First(path, n) \o last >> \o paths, rest)
  <2>1. n <= n
    OBVIOUS
  <2> QED BY <1>7, <2>1
<1> HIDE DEF S
<1> QED BY <1>1, <1>2, <1>6, <1>8

\* ... as Bytes.
LEMMA Associative == \A a, b, c \in Bytes : (a \o b) \o c = a \o (b \o c)
BY Zenon, AppendIsAssociative DEF Bytes

\* The first of a path and its last hop are the path.
LEMMA LastOfPath ==
  ASSUME NEW path \in Paths, NEW n \in Nat, Len(path) = n + 1
  PROVE  First(path, n) \o <<path[n + 1]>> = path
<1>1. <<>> \in Paths /\ <<path[n + 1]>> \in Paths
  BY DEF Paths
<1>2. First(path, n) \o (<<path[n + 1]>> \o <<>>) = First(path, n + 1) \o <<>>
  <2>1. n < Len(path)
    OBVIOUS
  <2> QED BY <1>1, <2>1, HopInFront
<1>3. PICK l \in Paths : l = <<path[n + 1]>>
  BY <1>1
<1>4. l \o <<>> = l /\ path \o <<>> = path
  BY <1>3, ConcatEmptySeq DEF Paths
<1>5. First(path, n + 1) = path
  BY DEF First, Paths
<1> QED BY <1>2, <1>3, <1>4, <1>5

\* A path is read, before the end of the set or before others.
LEMMA PathRead ==
  ASSUME NEW path \in Paths, path # <<>>, \A i \in 1..Len(path) : IsHop(path[i]), NEW rest \in Bytes
  PROVE  LET w == FlattenSeq([j \in DOMAIN path |-> HopFrom(path[j])])
         IN /\ w \in Bytes
            /\ GoesOn(w \o (<<PATHSET_END_BYTE>> \o rest))
            /\ PathsRead(w \o (<<PATHSET_END_BYTE>> \o rest), <<path>>, rest)
            /\ \A bytes \in Bytes, paths \in Seq(Paths) :
                 GoesOn(bytes) /\ PathsRead(bytes, paths, rest)
                   => /\ GoesOn(w \o (<<PATH_SEPARATOR_BYTE>> \o bytes))
                      /\ PathsRead(w \o (<<PATH_SEPARATOR_BYTE>> \o bytes), <<path>> \o paths, rest)
<1>1. PICK n \in Nat : Len(path) = n + 1
  <2>1. Len(path) \in Nat /\ Len(path) # 0
    BY EmptySeq DEF Paths
  <2>2. Len(path) - 1 \in Nat /\ Len(path) = (Len(path) - 1) + 1
    BY <2>1
  <2> QED BY <2>2
<1>2. PICK hb : hb = [j \in 1..(n + 1) |-> HopFrom(path[j])]
  OBVIOUS
<1>3. hb \in [1..(n + 1) -> Bytes]
  <2>1. \A i \in 1..(n + 1) : HopFrom(path[i]) \in Bytes
    BY <1>1, HopRead
  <2> QED BY <1>2, <2>1
<1>4. PICK y : y = path[n + 1]
  OBVIOUS
<1>5. PICK h \in Bytes : h = HopFrom(y) /\ h = hb[n + 1]
  <2>1. n + 1 \in 1..(n + 1)
    OBVIOUS
  <2> QED BY <1>2, <1>3, <1>4, <2>1
<1>6. PICK p \in Bytes : p = Joined(hb, n)
  <2>1. n + 1 \in Nat /\ n \in 0..(n + 1)
    OBVIOUS
  <2> QED BY <1>3, <2>1, JoinOneMore
<1>7. PICK w \in Bytes : w = FlattenSeq([j \in DOMAIN path |-> HopFrom(path[j])]) /\ w = p \o h
  <2>1. DOMAIN path = 1..(n + 1)
    BY <1>1 DEF Paths
  <2>2. n + 1 \in Nat /\ n + 1 \in 1..(n + 1) /\ (n + 1) - 1 = n
    OBVIOUS
  <2>3. FlattenSeq(hb) = Joined(hb, n + 1) /\ Joined(hb, n + 1) = Joined(hb, (n + 1) - 1) \o hb[n + 1]
    BY <1>3, <2>2, JoinOneMore
  <2>4. FlattenSeq(hb) = p \o h
    BY <1>5, <1>6, <2>2, <2>3
  <2>5. p \o h \in Bytes
    BY JoinedBytes
  <2> QED BY <1>2, <2>1, <2>4, <2>5
<1>8. PICK s : s = [i \in 1..n |-> HopFrom(path[i])]
  OBVIOUS
<1>9. FlattenSeq(s) = p
  <2>1. [i \in 1..n |-> hb[i]] = s
    BY <1>2, <1>8
  <2> QED BY <1>6, <2>1 DEF Joined
<1>10. IsHop(y) /\ <<y>> \in Paths
  <2>1. n + 1 \in 1..Len(path)
    BY <1>1
  <2>2. y \in HopSet
    BY <1>4, <2>1 DEF Paths
  <2> QED BY <1>4, <2>1, <2>2 DEF Paths
<1>11. ASSUME NEW bytes \in Bytes, NEW paths \in Seq(Paths), GoesOn(bytes), PathsRead(bytes, << <<y>> >> \o paths, rest)
       PROVE  GoesOn(p \o bytes) /\ PathsRead(p \o bytes, <<path>> \o paths, rest)
  <2>1. bytes \in Bytes
    BY <1>11 DEF GoesOn
  <2>2. Len(path) >= n /\ \A i \in 1..n : IsHop(path[i])
    BY <1>1
  <2>3. \A b \in Bytes, last \in Paths, q \in Seq(Paths) :
          GoesOn(b) /\ PathsRead(b, <<last>> \o q, rest)
            => /\ GoesOn(FlattenSeq(s) \o b)
               /\ PathsRead(FlattenSeq(s) \o b, << First(path, n) \o last >> \o q, rest)
    BY <1>8, <2>2, HopsRead
  <2>4. PathsRead(FlattenSeq(s) \o bytes, << First(path, n) \o <<y>> >> \o paths, rest)
        /\ GoesOn(FlattenSeq(s) \o bytes)
    BY <1>10, <1>11, <2>1, <2>3
  <2>5. First(path, n) \o <<y>> = path
    BY <1>1, <1>4, LastOfPath
  <2> QED BY <1>9, <2>4, <2>5
<1>12. ASSUME NEW m \in Bytes PROVE w \o m = p \o (h \o m)
  <2>1. (p \o h) \o m = p \o (h \o m)
    BY Zenon, Associative
  <2> QED BY <1>7, <2>1
<1>13. PICK e \in Bytes : e = <<PATHSET_END_BYTE>> \o rest
  <2>1. <<PATHSET_END_BYTE>> \in Bytes
    BY OneByte DEF PATHSET_END_BYTE, Byte
  <2> QED BY <2>1, JoinedBytes
<1>14. GoesOn(w \o e) /\ PathsRead(w \o e, <<path>>, rest)
  <2>1. GoesOn(h \o e)
    BY <1>5, <1>10, HopGoesOn
  <2>2. PathsRead(h \o e, << <<y>> >>, rest)
    BY <1>5, <1>10, <1>13, LastHop
  <2>3. << <<y>> >> \o <<>> = << <<y>> >> /\ <<path>> \o <<>> = <<path>> /\ <<>> \in Seq(Paths)
    <3>1. << <<y>> >> \in Seq(Paths) /\ <<path>> \in Seq(Paths) /\ <<>> \in Seq(Paths)
      BY <1>10
    <3> QED BY <3>1, ConcatEmptySeq
  <2>4. PICK one : one = << <<y>> >>
    OBVIOUS
  <2>5. PathsRead(h \o e, one \o <<>>, rest)
    BY <2>2, <2>3, <2>4
  <2>6. GoesOn(p \o (h \o e)) /\ PathsRead(p \o (h \o e), <<path>> \o <<>>, rest)
    BY <1>11, <2>1, <2>3, <2>4, <2>5, JoinedBytes
  <2> QED BY <1>12, <2>3, <2>6
<1>15. ASSUME NEW bytes \in Bytes, NEW paths \in Seq(Paths), GoesOn(bytes), PathsRead(bytes, paths, rest)
       PROVE  /\ GoesOn(w \o (<<PATH_SEPARATOR_BYTE>> \o bytes))
              /\ PathsRead(w \o (<<PATH_SEPARATOR_BYTE>> \o bytes), <<path>> \o paths, rest)
  <2>1. bytes \in Bytes
    BY <1>15 DEF GoesOn
  <2>2. PICK m \in Bytes : m = <<PATH_SEPARATOR_BYTE>> \o bytes
    <3>1. <<PATH_SEPARATOR_BYTE>> \in Bytes
      BY OneByte DEF PATH_SEPARATOR_BYTE, Byte
    <3> QED BY <2>1, <3>1, JoinedBytes
  <2>3. GoesOn(h \o m)
    BY <1>5, <1>10, HopGoesOn
  <2>4. PathsRead(h \o m, << <<y>> >> \o paths, rest)
    BY <1>5, <1>10, <1>15, <2>2, LastHopOfPath
  <2>5. GoesOn(p \o (h \o m)) /\ PathsRead(p \o (h \o m), <<path>> \o paths, rest)
    BY <1>11, <2>3, <2>4, JoinedBytes
  <2> QED BY <1>12, <2>2, <2>5
<1> QED BY <1>7, <1>13, <1>14, <1>15

\* Of paths: the first and the next one before others are one more before the others.
LEMMA PathInFront ==
  ASSUME NEW e \in Seq(Paths), NEW v \in Seq(Paths), NEW j \in Nat, j < Len(e)
  PROVE  First(e, j) \o (<<e[j + 1]>> \o v) = First(e, j + 1) \o v
<1>1. InFront(Paths)
  BY Zenon, OneMoreInFront
<1> QED BY Zenon, <1>1 DEF InFront

\* The paths of a path set and their hops.
LEMMA PathSetFacts ==
  ASSUME NEW v, IsPathSet(v)
  PROVE  /\ v \in Seq(Paths) /\ v # <<>>
         /\ \A i \in 1..Len(v) : /\ v[i] \in Paths /\ v[i] # <<>>
                                 /\ \A j \in 1..Len(v[i]) : IsHop(v[i][j])
<1>1. ASSUME NEW hop, IsHop(hop) PROVE hop \in HopSet
  BY <1>1 DEF IsHop, HopSet
<1>2. ASSUME NEW T, NEW s, IsFilled(s), \A i \in DOMAIN s : s[i] \in T
      PROVE  s \in Seq(T) /\ s # <<>> /\ DOMAIN s = 1..Len(s)
  <2>1. PICK n \in Nat : n = Len(s) /\ n # 0
    BY <1>2 DEF IsFilled
  <2>2. s = [i \in 1..n |-> s[i]]
    BY <1>2, <2>1 DEF IsFilled
  <2>3. DOMAIN s = 1..n
    BY <2>2
  <2>4. s \in [1..n -> T]
    BY <1>2, <2>2, <2>3
  <2>5. s \in Seq(T)
    BY <2>4
  <2> QED BY <2>1, <2>3, <2>5
<1>3. ASSUME NEW i \in DOMAIN v
      PROVE  v[i] \in Paths /\ v[i] # <<>> /\ \A j \in 1..Len(v[i]) : IsHop(v[i][j])
  <2>1. PICK path : path = v[i]
    OBVIOUS
  <2>2. IsFilled(path) /\ \A j \in DOMAIN path : IsHop(path[j])
    BY <2>1 DEF IsPathSet
  <2>3. \A j \in DOMAIN path : path[j] \in HopSet
    BY <1>1, <2>2
  <2>4. path \in Seq(HopSet) /\ path # <<>> /\ DOMAIN path = 1..Len(path)
    BY <1>2, <2>2, <2>3
  <2> QED BY <2>1, <2>2, <2>4 DEF Paths
<1>4. v \in Seq(Paths) /\ v # <<>> /\ DOMAIN v = 1..Len(v)
  <2>1. IsFilled(v)
    BY DEF IsPathSet
  <2>2. \A i \in DOMAIN v : v[i] \in Paths
    BY <1>3
  <2> QED BY <1>2, <2>1, <2>2
<1> QED BY <1>3, <1>4

\* A path set is read as what was written, whatever comes after it.
LEMMA PathSetRead ==
  ASSUME NEW v, IsPathSet(v)
  PROVE  /\ PathSetFrom(v) \in Bytes /\ Len(PathSetFrom(v)) >= 1
         /\ \A rest \in Bytes : ReadPathSet(PathSetFrom(v) \o rest) = Got(v, rest)
<1>1. /\ v \in Seq(Paths) /\ v # <<>>
      /\ \A i \in 1..Len(v) : v[i] \in Paths /\ v[i] # <<>> /\ \A j \in 1..Len(v[i]) : IsHop(v[i][j])
  BY PathSetFacts
<1>2. PICK n \in Nat : Len(v) = n + 1
  <2>1. Len(v) \in Nat /\ Len(v) # 0
    BY <1>1, EmptySeq
  <2>2. Len(v) - 1 \in Nat /\ Len(v) = (Len(v) - 1) + 1
    BY <2>1
  <2> QED BY <2>2
<1>3. PICK pb : pb = [i \in 1..(n + 1) |-> FlattenSeq([j \in DOMAIN v[i] |-> HopFrom(v[i][j])])]
  OBVIOUS
<1>4. PICK sep : sep = [i \in 1..(n + 1) |-> <<IF i = n + 1 THEN PATHSET_END_BYTE ELSE PATH_SEPARATOR_BYTE>>]
  OBVIOUS
<1>5. PICK sb : sb = [i \in 1..(n + 1) |-> pb[i] \o sep[i]]
  OBVIOUS
<1>6. ASSUME NEW i \in 1..(n + 1), NEW rest \in Bytes
      PROVE  /\ pb[i] \in Bytes
             /\ GoesOn(pb[i] \o (<<PATHSET_END_BYTE>> \o rest))
             /\ PathsRead(pb[i] \o (<<PATHSET_END_BYTE>> \o rest), <<v[i]>>, rest)
             /\ \A bytes \in Bytes, paths \in Seq(Paths) :
                  GoesOn(bytes) /\ PathsRead(bytes, paths, rest)
                    => /\ GoesOn(pb[i] \o (<<PATH_SEPARATOR_BYTE>> \o bytes))
                       /\ PathsRead(pb[i] \o (<<PATH_SEPARATOR_BYTE>> \o bytes), <<v[i]>> \o paths, rest)
  <2>1. PICK path \in Paths : path = v[i]
    BY <1>1, <1>2
  <2>2. path # <<>> /\ \A j \in 1..Len(path) : IsHop(path[j])
    BY <1>1, <1>2, <2>1
  <2>3. pb[i] = FlattenSeq([j \in DOMAIN path |-> HopFrom(path[j])])
    BY <1>3, <2>1
  <2> QED BY <2>1, <2>2, <2>3, PathRead
<1>7. ASSUME NEW i \in 1..(n + 1) PROVE sep[i] \in Bytes /\ Len(sep[i]) = 1
  <2>1. PICK b \in Byte : sep[i] = <<b>>
    BY <1>4 DEF PATHSET_END_BYTE, PATH_SEPARATOR_BYTE, Byte
  <2>2. <<b>> \in Seq(Byte) /\ Len(<<b>>) = 1
    OBVIOUS
  <2> QED BY <2>1, <2>2 DEF Bytes
<1>8. sb \in [1..(n + 1) -> Bytes]
  <2>1. ASSUME NEW i \in 1..(n + 1) PROVE pb[i] \o sep[i] \in Bytes
    <3>1. pb[i] \in Bytes
      BY <1>6, EmptyIsBytes
    <3>2. sep[i] \in Bytes
      BY <1>7
    <3> QED BY <3>1, <3>2, JoinedBytes
  <2> QED BY <1>5, <2>1
<1>9. PathSetFrom(v) = FlattenSeq(sb)
  <2>1. DOMAIN v = 1..(n + 1)
    BY <1>1, <1>2
  <2>2. [i \in DOMAIN v |->
           FlattenSeq([j \in DOMAIN v[i] |-> HopFrom(v[i][j])])
           \o <<IF i = Len(v) THEN PATHSET_END_BYTE ELSE PATH_SEPARATOR_BYTE>>] = sb
    <3>1. ASSUME NEW i \in 1..(n + 1)
          PROVE  sb[i] = FlattenSeq([j \in DOMAIN v[i] |-> HopFrom(v[i][j])])
                         \o <<IF i = Len(v) THEN PATHSET_END_BYTE ELSE PATH_SEPARATOR_BYTE>>
      <4>1. pb[i] = FlattenSeq([j \in DOMAIN v[i] |-> HopFrom(v[i][j])])
        BY <1>3
      <4>2. sep[i] = <<IF i = Len(v) THEN PATHSET_END_BYTE ELSE PATH_SEPARATOR_BYTE>>
        BY <1>2, <1>4
      <4>3. sb[i] = pb[i] \o sep[i]
        BY <1>5
      <4> QED BY <4>1, <4>2, <4>3
    <3> QED BY <1>5, <2>1, <3>1
  <2> QED BY <2>2 DEF PathSetFrom
<1>10. n + 1 \in Nat /\ n + 1 \in 1..(n + 1) /\ n \in 0..(n + 1) /\ (n + 1) - 1 = n /\ n + 1 \in 0..(n + 1)
  OBVIOUS
<1>11. PICK p \in Bytes : p = Joined(sb, n)
  BY <1>8, <1>10, JoinOneMore
<1>12. PICK h \in Bytes : h = pb[n + 1]
  BY <1>6, <1>10, EmptyIsBytes
<1>13. PICK e \in Bytes : e = <<PATHSET_END_BYTE>> /\ Len(e) = 1
  <2>1. sep[n + 1] = <<PATHSET_END_BYTE>>
    BY <1>4, <1>10
  <2> QED BY <1>7, <1>10, <2>1
<1>14. PathSetFrom(v) = p \o (h \o e)
  <2>1. FlattenSeq(sb) = Joined(sb, n + 1) /\ Joined(sb, n + 1) = Joined(sb, (n + 1) - 1) \o sb[n + 1]
    BY <1>8, <1>10, JoinOneMore
  <2>2. sb[n + 1] = h \o e
    <3>1. sep[n + 1] = e
      BY <1>4, <1>10, <1>13
    <3> QED BY <1>5, <1>10, <1>12, <3>1
  <2> QED BY <1>9, <1>10, <1>11, <2>1, <2>2
<1>15. PathSetFrom(v) \in Bytes /\ Len(PathSetFrom(v)) >= 1
  <2>1. PICK he \in Bytes : he = h \o e /\ Len(he) >= 1
    <3>1. h \o e \in Bytes /\ Len(h \o e) = Len(h) + Len(e) /\ Len(h) \in Nat
      BY JoinedBytes
    <3>2. Len(h \o e) >= 1
      BY <1>13, <3>1
    <3> QED BY <3>1, <3>2
  <2>2. p \o he \in Bytes /\ Len(p \o he) = Len(p) + Len(he) /\ Len(p) \in Nat /\ Len(he) \in Nat
    BY JoinedBytes
  <2> QED BY <1>14, <2>1, <2>2
<1>16. ASSUME NEW rest \in Bytes PROVE ReadPathSet(PathSetFrom(v) \o rest) = Got(v, rest)
  <2> DEFINE S == {j \in Nat : j <= n =>
                     \A bytes \in Bytes, paths \in Seq(Paths) :
                       GoesOn(bytes) /\ PathsRead(bytes, paths, rest)
                         => /\ GoesOn(Joined(sb, j) \o bytes)
                            /\ PathsRead(Joined(sb, j) \o bytes, First(v, j) \o paths, rest)}
  <2>1. 0 \in S
    <3>1. First(v, 0) = <<>>
      BY DEF First
    <3>2. Joined(sb, 0) = <<>>
      BY <1>8, <1>10, JoinOneMore
    <3>3. ASSUME NEW bytes \in Bytes, NEW paths \in Seq(Paths), GoesOn(bytes)
          PROVE  Joined(sb, 0) \o bytes = bytes /\ First(v, 0) \o paths = paths
      <4>1. bytes \in Bytes
        BY <3>3 DEF GoesOn
      <4>2. <<>> \o bytes = bytes
        BY <4>1, EmptyIsBytes
      <4>3. <<>> \o paths = paths
        BY ConcatEmptySeq
      <4> QED BY <3>1, <3>2, <4>2, <4>3
    <3> QED BY <3>3
  <2>2. ASSUME NEW j \in Nat, j \in S PROVE j + 1 \in S
    <3>1. ASSUME j + 1 <= n, NEW bytes \in Bytes, NEW paths \in Seq(Paths), GoesOn(bytes), PathsRead(bytes, paths, rest)
          PROVE  /\ GoesOn(Joined(sb, j + 1) \o bytes)
                 /\ PathsRead(Joined(sb, j + 1) \o bytes, First(v, j + 1) \o paths, rest)
      <4>1. /\ j + 1 \in 1..(n + 1) /\ j \in 0..(n + 1) /\ (j + 1) - 1 = j /\ j <= n /\ j < Len(v)
            /\ j + 1 # n + 1
        BY <1>2, <3>1
      <4>2. bytes \in Bytes
        BY <3>1 DEF GoesOn
      <4>3. PICK b \in Bytes : b = pb[j + 1]
        BY <1>6, <4>1
      <4>4. PICK s \in Bytes : s = sep[j + 1] /\ s = <<PATH_SEPARATOR_BYTE>>
        BY <1>4, <1>7, <4>1
      <4>5. PICK w \in Bytes : w = b \o s /\ w = sb[j + 1]
        BY <1>5, <1>8, <4>1, <4>3, <4>4
      <4>6. GoesOn(b \o (s \o bytes)) /\ PathsRead(b \o (s \o bytes), <<v[j + 1]>> \o paths, rest)
        BY <1>6, <3>1, <4>1, <4>3, <4>4
      <4>7. (b \o s) \o bytes = b \o (s \o bytes)
        <5>1. \A c \in Bytes : (b \o s) \o c = b \o (s \o c)
          BY Zenon, Associative
        <5> QED BY <4>2, <5>1
      <4>8. GoesOn(w \o bytes) /\ PathsRead(w \o bytes, <<v[j + 1]>> \o paths, rest)
        BY <4>5, <4>6, <4>7
      <4>9. <<v[j + 1]>> \o paths \in Seq(Paths)
        <5>1. v[j + 1] \in Paths
          BY <1>1, <1>2, <4>1
        <5>2. <<v[j + 1]>> \in Seq(Paths)
          BY <5>1
        <5> QED BY <5>2, ConcatProperties
      <4>10. /\ GoesOn(Joined(sb, j) \o (w \o bytes))
             /\ PathsRead(Joined(sb, j) \o (w \o bytes), First(v, j) \o (<<v[j + 1]>> \o paths), rest)
        BY <2>2, <4>1, <4>2, <4>8, <4>9, JoinedBytes
      <4>11. Joined(sb, j) \o (w \o bytes) = Joined(sb, j + 1) \o bytes
        <5>1. PICK q \in Bytes : q = Joined(sb, j)
          BY <1>8, <1>10, <4>1, JoinOneMore
        <5>2. Joined(sb, j + 1) = q \o w
          BY <1>8, <1>10, <4>1, <4>5, <5>1, JoinOneMore
        <5>3. (q \o w) \o bytes = q \o (w \o bytes)
          <6>1. \A c \in Bytes : (q \o w) \o c = q \o (w \o c)
            BY Zenon, Associative
          <6> QED BY <4>2, <6>1
        <5> QED BY <5>1, <5>2, <5>3
      <4>12. First(v, j) \o (<<v[j + 1]>> \o paths) = First(v, j + 1) \o paths
        BY <1>1, <4>1, PathInFront
      <4> QED BY <4>10, <4>11, <4>12
    <3>2. j + 1 \in Nat
      OBVIOUS
    <3> QED BY <3>1, <3>2
  <2>3. \A j \in Nat : j \in S
    <3> HIDE DEF S
    <3> QED BY <2>1, <2>2, SetInduction
  <2>4. n \in S
    BY <2>3
  <2>5. GoesOn(h \o (e \o rest)) /\ PathsRead(h \o (e \o rest), <<v[n + 1]>>, rest)
    BY <1>6, <1>10, <1>12, <1>13
  <2>6. <<v[n + 1]>> \in Seq(Paths)
    <3>1. v[n + 1] \in Paths
      BY <1>1, <1>2, <1>10
    <3> QED BY <3>1
  <2>7. PathsRead(Joined(sb, n) \o (h \o (e \o rest)), First(v, n) \o <<v[n + 1]>>, rest)
    <3>1. n <= n /\ h \o (e \o rest) \in Bytes
      BY JoinedBytes
    <3> QED BY <2>4, <2>5, <2>6, <3>1
  <2> HIDE DEF S
  <2>8. First(v, n) \o <<v[n + 1]>> = v
    <3>1. First(v, n) \o (<<v[n + 1]>> \o <<>>) = First(v, n + 1) \o <<>>
      <4>1. <<>> \in Seq(Paths) /\ n < Len(v)
        BY <1>2
      <4> QED BY <1>1, <4>1, PathInFront
    <3>2. PICK l \in Seq(Paths) : l = <<v[n + 1]>>
      BY <2>6
    <3>3. l \o <<>> = l /\ v \o <<>> = v
      BY <1>1, <3>2, ConcatEmptySeq
    <3>4. First(v, n + 1) = v
      BY <1>1, <1>2 DEF First
    <3> QED BY <3>1, <3>2, <3>3, <3>4
  <2>9. PICK y \in Bytes : y = PathSetFrom(v) \o rest
    BY <1>15, JoinedBytes
  <2>10. y = p \o (h \o (e \o rest))
    <3>1. PICK he \in Bytes : he = h \o e
      BY JoinedBytes
    <3>2. (p \o he) \o rest = p \o (he \o rest)
      <4>1. \A c \in Bytes : (p \o he) \o c = p \o (he \o c)
        BY Zenon, Associative
      <4> QED BY Zenon, <4>1
    <3>3. (h \o e) \o rest = h \o (e \o rest)
      <4>1. \A c \in Bytes : (h \o e) \o c = h \o (e \o c)
        BY Zenon, Associative
      <4> QED BY Zenon, <4>1
    <3> QED BY <1>14, <2>9, <3>1, <3>2, <3>3
  <2>11. PathsRead(y, v, rest)
    BY <1>11, <2>7, <2>8, <2>10
  <2>12. Len(y) \in Nat /\ Len(y) >= Len(y)
    BY DEF Bytes
  <2>13. ReadingPaths[Len(y)][y] = Got(v, rest)
    BY <2>11, <2>12 DEF PathsRead
  <2> QED BY <2>9, <2>13 DEF ReadPathSet
<1> QED BY <1>15, <1>16

-----------------------------------------------------------------------------
(* Leaves.                                                                 *)

\* A leaf is read back if as many bytes are read as were written.
LEMMA LeafRead ==
  ASSUME NEW n \in FieldNames \ Nested, NEW bytes \in Bytes,
         Definitions[n].vl => Len(bytes) <= MaxLength,
         ~Definitions[n].vl => \A rest \in Bytes : Width(Definitions[n].type, bytes \o rest) = Len(bytes)
  PROVE  ReadsBack(n, bytes)
<1>1. Len(bytes) \in Nat /\ bytes \in Seq(Byte)
  BY DEF Bytes
<1>2. Definitions[n].type # STOBJECT
  <2>1. STOBJECT \in 1..255
    BY DEF STOBJECT
  <2> QED BY <2>1, FieldsOfFacts DEF Nested
<1>3. PICK l : l = IF Definitions[n].vl THEN EncodeVariableLength(Len(bytes)) ELSE <<>>
  OBVIOUS
<1>4. l \in Bytes
  BY <1>1, <1>3, LengthRead, EmptyIsBytes DEF Bytes
<1>5. Following(n, bytes) = l \o bytes
  <2>1. bytes \o <<>> = bytes
    BY EmptyIsBytes
  <2>2. Following(n, bytes) = l \o (bytes \o <<>>)
    BY Zenon, <1>2, <1>3 DEF Following
  <2> QED BY <2>1, <2>2
<1>6. ASSUME NEW rest \in Bytes PROVE ReadLeaf(n, Following(n, bytes) \o rest) = Got(bytes, rest)
  <2>1. PICK x \in Bytes : x = bytes \o rest
    BY JoinedBytes
  <2>2. PICK f \in Bytes : f = Following(n, bytes) \o rest /\ f = l \o x
    <3>1. l \o x \in Bytes
      BY <1>4, JoinedBytes
    <3>2. (l \o bytes) \o rest = l \o (bytes \o rest)
      BY Zenon, <1>4, Associative
    <3> QED BY <1>5, <2>1, <3>1, <3>2
  <2>3. Skip(x, Len(bytes)) = rest /\ SubSeq(x, 1, Len(bytes)) = bytes
    BY <2>1, BytesSplit DEF Bytes
  <2>4. PICK size : size = IF Definitions[n].vl THEN ReadVariableLengthLength(f)
                           ELSE Got(Width(Definitions[n].type, f), f)
    OBVIOUS
  <2>5. size = Got(Len(bytes), x)
    <3>1. CASE Definitions[n].vl
      <4>1. ReadVariableLengthLength(EncodeVariableLength(Len(bytes)) \o x) = Got(Len(bytes), x)
        BY <1>1, <3>1, LengthRead DEF Bytes
      <4> QED BY <1>3, <2>2, <2>4, <3>1, <4>1
    <3>2. CASE ~Definitions[n].vl
      <4>1. f = x
        <5>1. l = <<>>
          BY <1>3, <3>2
        <5> QED BY <2>2, <5>1, EmptyIsBytes
      <4>2. Width(Definitions[n].type, x) = Len(bytes)
        BY <2>1, <3>2
      <4> QED BY <2>4, <3>2, <4>1, <4>2
    <3> QED BY <3>1, <3>2
  <2>6. size.value = Len(bytes) /\ size.rest = x
    BY <2>5 DEF Got
  <2>7. ReadLeaf(n, f) = Got(SubSeq(size.rest, 1, size.value), Skip(size.rest, size.value))
    BY Zenon, <2>4 DEF ReadLeaf
  <2> QED BY <2>2, <2>3, <2>6, <2>7
<1>7. ASSUME NEW rest \in Bytes, NEW left \in Nat
      PROVE  Got(bytes, rest) = IF n \in Nested
                                THEN Rewritten(EndOf(n), Reading[left][EndOf(n)][Following(n, bytes) \o rest])
                                ELSE ReadLeaf(n, Following(n, bytes) \o rest)
  BY <1>6
<1> QED BY Zenon, <1>7 DEF ReadsBack

\* The types of leaves whose form is a matter of their own.
LEMMA LeafForms ==
  ASSUME NEW n \in FieldNames, NEW v
  PROVE  LET type == Definitions[n].type
         IN /\ type = AMOUNT => /\ LeafFrom(n, v) = AmountFrom(v) /\ LeafToJSON(n, v) = AmountToJSON(v)
                                /\ Meaning(n, v) = SameAmount(v)
            /\ type = PATHSET => /\ LeafFrom(n, v) = PathSetFrom(v) /\ LeafToJSON(n, v) = ReadPathSet(v).value
                                 /\ Meaning(n, v) = v
            /\ type = ISSUE => /\ LeafFrom(n, v) = IssueFrom(v) /\ LeafToJSON(n, v) = IssueToJSON(v)
                               /\ Meaning(n, v) = v
            /\ type \notin {AMOUNT, NUMBER, PATHSET, ISSUE} =>
                 LeafFrom(n, v) = v /\ LeafToJSON(n, v) = v /\ Meaning(n, v) = v
<1>1. /\ n \in FieldsOf(AMOUNT) <=> Definitions[n].type = AMOUNT
      /\ n \in FieldsOf(NUMBER) <=> Definitions[n].type = NUMBER
      /\ n \in FieldsOf(PATHSET) <=> Definitions[n].type = PATHSET
      /\ n \in FieldsOf(ISSUE) <=> Definitions[n].type = ISSUE
  <2>1. AMOUNT \in 1..255 /\ NUMBER \in 1..255 /\ PATHSET \in 1..255 /\ ISSUE \in 1..255
    BY DEF AMOUNT, NUMBER, PATHSET, ISSUE
  <2>2. \A t \in 1..255 : n \in FieldsOf(t) <=> Definitions[n].type = t
    BY FieldsOfFacts
  <2> QED BY <2>1, <2>2
<1>2. /\ AMOUNT # NUMBER /\ AMOUNT # PATHSET /\ AMOUNT # ISSUE
      /\ NUMBER # PATHSET /\ NUMBER # ISSUE /\ PATHSET # ISSUE
  BY DEF AMOUNT, NUMBER, PATHSET, ISSUE
<1>3. CASE Definitions[n].type = AMOUNT
  <2>1. n \in FieldsOf(AMOUNT) /\ n \notin FieldsOf(NUMBER) /\ n \notin FieldsOf(PATHSET) /\ n \notin FieldsOf(ISSUE)
    BY <1>1, <1>2, <1>3
  <2>2. LeafFrom(n, v) = AmountFrom(v)
    BY Zenon, <2>1 DEF LeafFrom
  <2>3. LeafToJSON(n, v) = AmountToJSON(v)
    BY Zenon, <2>1 DEF LeafToJSON
  <2>4. Meaning(n, v) = SameAmount(v)
    BY Zenon, <2>1 DEF Meaning
  <2> QED BY <1>2, <1>3, <2>2, <2>3, <2>4
<1>4. CASE Definitions[n].type = PATHSET
  <2>1. n \in FieldsOf(PATHSET) /\ n \notin FieldsOf(NUMBER) /\ n \notin FieldsOf(AMOUNT) /\ n \notin FieldsOf(ISSUE)
    BY <1>1, <1>2, <1>4
  <2>2. LeafFrom(n, v) = PathSetFrom(v)
    BY Zenon, <2>1 DEF LeafFrom
  <2>3. LeafToJSON(n, v) = ReadPathSet(v).value
    BY Zenon, <2>1 DEF LeafToJSON
  <2>4. Meaning(n, v) = v
    BY Zenon, <2>1 DEF Meaning
  <2> QED BY <1>2, <1>4, <2>2, <2>3, <2>4
<1>5. CASE Definitions[n].type = ISSUE
  <2>1. n \in FieldsOf(ISSUE) /\ n \notin FieldsOf(NUMBER) /\ n \notin FieldsOf(AMOUNT) /\ n \notin FieldsOf(PATHSET)
    BY <1>1, <1>2, <1>5
  <2>2. LeafFrom(n, v) = IssueFrom(v)
    BY Zenon, <2>1 DEF LeafFrom
  <2>3. LeafToJSON(n, v) = IssueToJSON(v)
    BY Zenon, <2>1 DEF LeafToJSON
  <2>4. Meaning(n, v) = v
    BY Zenon, <2>1 DEF Meaning
  <2> QED BY <1>2, <1>5, <2>2, <2>3, <2>4
<1>6. CASE Definitions[n].type \notin {AMOUNT, NUMBER, PATHSET, ISSUE}
  <2>1. n \notin FieldsOf(ISSUE) /\ n \notin FieldsOf(NUMBER) /\ n \notin FieldsOf(AMOUNT) /\ n \notin FieldsOf(PATHSET)
    BY <1>1, <1>6
  <2>2. LeafFrom(n, v) = v
    BY Zenon, <2>1 DEF LeafFrom
  <2>3. LeafToJSON(n, v) = v
    BY Zenon, <2>1 DEF LeafToJSON
  <2>4. Meaning(n, v) = v
    BY Zenon, <2>1 DEF Meaning
  <2> QED BY <1>6, <2>2, <2>3, <2>4
<1>7. CASE Definitions[n].type = NUMBER
  BY <1>2, <1>7
<1> QED BY <1>3, <1>4, <1>5, <1>6, <1>7

\* Two bytes, one after the other.
LEMMA TwoBytes == \A a, b \in Byte : /\ <<a>> \o <<b>> = <<a, b>> /\ <<a, b>> \in Bytes /\ Len(<<a, b>>) = 2
                                     /\ <<a, b>>[1] = a /\ <<a, b>>[2] = b
<1>1. ASSUME NEW a \in Byte, NEW b \in Byte
      PROVE  /\ <<a>> \o <<b>> = <<a, b>> /\ <<a, b>> \in Bytes /\ Len(<<a, b>>) = 2
             /\ <<a, b>>[1] = a /\ <<a, b>>[2] = b
  <2>1. PICK p \in Seq(Byte) : p = <<a>> /\ Len(p) = 1 /\ p[1] = a
    <3>1. <<a>> \in Seq(Byte) /\ Len(<<a>>) = 1 /\ <<a>>[1] = a
      OBVIOUS
    <3> QED BY <3>1
  <2>2. PICK q \in Seq(Byte) : q = <<b>> /\ Len(q) = 1 /\ q[1] = b
    <3>1. <<b>> \in Seq(Byte) /\ Len(<<b>>) = 1 /\ <<b>>[1] = b
      OBVIOUS
    <3> QED BY <3>1
  <2>3. PICK r \in Seq(Byte) : r = <<a, b>> /\ Len(r) = 2 /\ r[1] = a /\ r[2] = b
    <3>1. <<a, b>> \in Seq(Byte) /\ Len(<<a, b>>) = 2 /\ <<a, b>>[1] = a /\ <<a, b>>[2] = b
      OBVIOUS
    <3> QED BY <3>1
  <2>4. PICK w \in Seq(Byte) : w = p \o q /\ Len(w) = 2 /\ w[1] = a /\ w[2] = b
    <3>1. /\ p \o q \in Seq(Byte) /\ Len(p \o q) = Len(p) + Len(q)
          /\ \A i \in 1 .. Len(p) + Len(q) : (p \o q)[i] = IF i <= Len(p) THEN p[i] ELSE q[i - Len(p)]
      BY ConcatProperties
    <3>2. Len(p \o q) = 2 /\ (p \o q)[1] = p[1] /\ (p \o q)[2] = q[1]
      <4>1. /\ 1 \in 1 .. Len(p) + Len(q) /\ 2 \in 1 .. Len(p) + Len(q) /\ 2 - Len(p) = 1
            /\ 1 <= Len(p) /\ ~(2 <= Len(p)) /\ Len(p) + Len(q) = 2
        BY <2>1, <2>2
      <4> QED BY <3>1, <4>1
    <3> QED BY <2>1, <2>2, <3>1, <3>2
  <2>5. Len(w) = Len(r) /\ \A i \in 1..Len(w) : w[i] = r[i]
    BY <2>3, <2>4
  <2>6. w = r
    BY <2>5, SeqEqual
  <2> QED BY <2>1, <2>2, <2>3, <2>4, <2>6 DEF Bytes
<1> QED BY <1>1

\* The bytes that an issue begins with say how long it is.
LEMMA IssueBegins ==
  ASSUME NEW b \in Bytes, NEW rest \in Bytes, Len(b) >= 1
  PROVE  /\ b[1] = 0 => IssueLength(b \o rest) = 1
         /\ (b[1] # 0 /\ Len(b) >= 2 /\ b[2] = 1) => IssueLength(b \o rest) = 6
         /\ (b[1] # 0 /\ Len(b) >= 2 /\ b[2] # 1) => IssueLength(b \o rest) = 2
<1>1. PICK x : x = b \o rest
  OBVIOUS
<1>2. x[1] = b[1] /\ (Len(b) >= 2 => x[2] = b[2])
  <2>1. Len(b) \in Nat /\ \A i \in 1..Len(b) : x[i] = b[i]
    BY <1>1, BytesSplit DEF Bytes
  <2> QED BY <2>1
<1>3. /\ <<x[1]>> = XRP <=> x[1] = 0
      /\ <<x[2]>> = NO_ACCOUNT <=> x[2] = 1
  BY DEF XRP, NO_ACCOUNT
<1>4. /\ <<x[1]>> = XRP => IssueLength(x) = 1
      /\ (<<x[1]>> # XRP /\ <<x[2]>> = NO_ACCOUNT) => IssueLength(x) = 6
      /\ (<<x[1]>> # XRP /\ <<x[2]>> # NO_ACCOUNT) => IssueLength(x) = 2
  <2>1. CASE <<x[1]>> = XRP
    BY Zenon, <2>1 DEF IssueLength
  <2>2. CASE <<x[1]>> # XRP /\ <<x[2]>> = NO_ACCOUNT
    BY Zenon, <2>2 DEF IssueLength
  <2>3. CASE <<x[1]>> # XRP /\ <<x[2]>> # NO_ACCOUNT
    BY Zenon, <2>3 DEF IssueLength
  <2> QED BY <2>1, <2>2, <2>3
<1> QED BY <1>1, <1>2, <1>3, <1>4

\* An issue is read as what was written, whatever comes after it.
LEMMA IssueRead ==
  ASSUME NEW issue, IsIssue(issue)
  PROVE  /\ IssueFrom(issue) \in Bytes
         /\ IssueToJSON(IssueFrom(issue)) = issue
         /\ \A rest \in Bytes : IssueLength(IssueFrom(issue) \o rest) = Len(IssueFrom(issue))
<1>1. CASE issue = [currency |-> XRP]
  <2>1. IssueFrom(issue) = <<0>>
    BY <1>1 DEF IssueFrom, IsMPT, XRP
  <2>2. <<0>> \in Bytes /\ Len(<<0>>) = 1 /\ <<0>>[1] = 0
    BY DEF Bytes, Byte
  <2>3. PICK b : b = <<0>>
    OBVIOUS
  <2>4. Len(b) # 6 /\ <<b[1]>> = XRP
    BY <2>2, <2>3 DEF XRP
  <2>5. IssueToJSON(b) = [currency |-> XRP]
    BY Zenon, <2>4 DEF IssueToJSON
  <2>6. ASSUME NEW rest \in Bytes PROVE IssueLength(b \o rest) = 1
    BY <2>2, <2>3, IssueBegins
  <2> QED BY <1>1, <2>1, <2>2, <2>3, <2>5, <2>6
<1>2. CASE \E c \in Byte \ {0}, i \in Byte \ {1} : issue = [currency |-> <<c>>, issuer |-> <<i>>]
  <2>1. PICK c \in Byte \ {0}, i \in Byte \ {1} : issue = [currency |-> <<c>>, issuer |-> <<i>>]
    BY <1>2
  <2>2. PICK b : b = <<c, i>>
    OBVIOUS
  <2>3. b \in Bytes /\ Len(b) = 2 /\ b[1] = c /\ b[2] = i
    BY <2>2, TwoBytes
  <2>4. IssueFrom(issue) = b
    <3>1. IssueFrom(issue) = <<c>> \o <<i>>
      BY <2>1 DEF IssueFrom, IsMPT
    <3> QED BY <2>2, <3>1, TwoBytes
  <2>5. Len(b) # 6 /\ <<b[1]>> # XRP
    BY <2>3 DEF XRP
  <2>6. IssueToJSON(b) = [currency |-> <<b[1]>>, issuer |-> <<b[2]>>]
    BY Zenon, <2>5 DEF IssueToJSON
  <2>7. ASSUME NEW rest \in Bytes PROVE IssueLength(b \o rest) = 2
    BY <2>3, IssueBegins
  <2> QED BY <2>1, <2>3, <2>4, <2>6, <2>7
<1>3. CASE IsMPT(issue) /\ issue = [mpt |-> issue.mpt]
           /\ issue.mpt \in Seq(Byte) /\ Len(issue.mpt) = 5 /\ issue.mpt[5] # 0
  <2>1. PICK m \in Seq(Byte) : m = issue.mpt /\ issue = [mpt |-> m] /\ Len(m) = 5 /\ m[5] # 0
    BY <1>3
  <2>2. m[5] \in Byte /\ 1 \in Byte
    <3>1. 5 \in 1..Len(m)
      BY <2>1
    <3>2. 1 \in Byte
      BY DEF Byte
    <3> QED BY <3>1, <3>2
  <2>3. PICK h \in Bytes : h = <<m[5], 1>> /\ Len(h) = 2 /\ h[1] = m[5] /\ h[2] = 1 /\ h = <<m[5]>> \o NO_ACCOUNT
    BY <2>2, TwoBytes DEF NO_ACCOUNT
  <2>4. PICK r : r = Reverse(SubSeq(m, 1, 4))
    OBVIOUS
  <2>5. PICK s \in Seq(Byte) : s = SubSeq(m, 1, 4) /\ Len(s) = 4 /\ \A j \in 1..4 : s[j] = m[j]
    <3>1. SubSeq(m, 1, 4) = [j \in 1..4 |-> m[j]]
      BY <2>1
    <3>2. \A j \in 1..4 : m[j] \in Byte
      BY <2>1
    <3>3. [j \in 1..4 |-> m[j]] \in Seq(Byte)
      BY <3>2
    <3>4. PICK x \in Seq(Byte) : x = [j \in 1..4 |-> m[j]]
      BY <3>3
    <3>5. Len(x) = 4 /\ \A j \in 1..4 : x[j] = m[j]
      BY <3>4
    <3> QED BY <3>1, <3>4, <3>5
  <2>6. r \in Seq(Byte) /\ Len(r) = 4 /\ \A j \in 1..4 : r[j] = s[(4 - j) + 1]
    BY <2>4, <2>5 DEF Reverse
  <2>7. Reverse(r) \in Seq(Byte) /\ Len(Reverse(r)) = 4 /\ \A j \in 1..4 : Reverse(r)[j] = s[j]
    <3>1. Reverse(r) = [j \in 1..4 |-> r[(4 - j) + 1]]
      BY <2>6 DEF Reverse
    <3>2. ASSUME NEW j \in 1..4 PROVE r[(4 - j) + 1] = s[j]
      <4>1. (4 - j) + 1 \in 1..4 /\ (4 - ((4 - j) + 1)) + 1 = j
        OBVIOUS
      <4> QED BY <2>6, <4>1
    <3>3. \A j \in 1..4 : s[j] \in Byte
      BY <2>5
    <3>4. Reverse(r) = [j \in 1..4 |-> s[j]]
      BY <3>1, <3>2
    <3> QED BY <3>3, <3>4
  <2>8. Append(Reverse(r), m[5]) = m
    <3>1. PICK q \in Seq(Byte) : q = Reverse(r)
      BY <2>7
    <3>2. PICK t \in Byte : t = m[5]
      BY <2>2
    <3>3. PICK a \in Seq(Byte) : a = Append(q, t) /\ Len(a) = 5 /\ a[5] = t /\ \A j \in 1..4 : a[j] = q[j]
      <4>1. Len(q) = 4
        BY <2>7, <3>1
      <4>2. /\ Append(q, t) \in Seq(Byte) /\ Len(Append(q, t)) = Len(q) + 1
            /\ (\A j \in 1..Len(q) : Append(q, t)[j] = q[j]) /\ Append(q, t)[Len(q) + 1] = t
        BY AppendProperties
      <4>3. Len(q) + 1 = 5 /\ 1..Len(q) = 1..4
        BY <4>1
      <4> QED BY <4>2, <4>3
    <3>4. \A j \in 1..5 : a[j] = m[j]
      BY <2>5, <2>7, <3>1, <3>2, <3>3
    <3>5. Len(a) = Len(m) /\ \A j \in 1..Len(a) : a[j] = m[j]
      BY <2>1, <3>3, <3>4
    <3>6. a = m
      BY <3>5, SeqEqual
    <3> QED BY <3>1, <3>2, <3>3, <3>6
  <2>9. PICK b \in Bytes : b = h \o r /\ Len(b) = 6
    <3>1. r \in Bytes
      BY <2>6 DEF Bytes
    <3>2. h \o r \in Bytes /\ Len(h \o r) = Len(h) + Len(r)
      BY <3>1, JoinedBytes
    <3>3. Len(h \o r) = 6
      BY <2>3, <2>6, <3>2
    <3> QED BY <3>2, <3>3
  <2>10. IssueFrom(issue) = b
    BY <1>3, <2>1, <2>3, <2>4, <2>9 DEF IssueFrom
  <2>11. Skip(b, 2) = r /\ b[1] = m[5] /\ b[2] = 1
    <3>1. Skip(h \o r, Len(h)) = r /\ \A j \in 1..Len(h) : (h \o r)[j] = h[j]
      BY <2>6, BytesSplit DEF Bytes
    <3>2. Len(h) = 2 /\ 1 \in 1..Len(h) /\ 2 \in 1..Len(h)
      BY <2>3
    <3>3. b[1] = h[1] /\ b[2] = h[2]
      BY <2>9, <3>1, <3>2
    <3>4. Skip(b, 2) = r
      BY <2>9, <3>1, <3>2
    <3> QED BY <2>3, <3>3, <3>4
  <2>12. IssueToJSON(b) = [mpt |-> Append(Reverse(Skip(b, 2)), b[1])]
    BY Zenon, <2>9 DEF IssueToJSON
  <2>13. ASSUME NEW rest \in Bytes PROVE IssueLength(b \o rest) = 6
    <3>1. Len(b) >= 1 /\ Len(b) >= 2 /\ b[1] # 0
      BY <2>1, <2>9, <2>11
    <3> QED BY <2>11, <3>1, IssueBegins
  <2> QED BY <2>1, <2>8, <2>9, <2>10, <2>11, <2>12, <2>13
<1> QED BY <1>1, <1>2, <1>3 DEF IsIssue

\* How many bytes there are of each type.
LEMMA Widths ==
  ASSUME NEW bytes
  PROVE  /\ Width(UINT32, bytes) = 4
         /\ Width(AMOUNT, bytes) = AmountLength(bytes[1])
         /\ Width(NUMBER, bytes) = 2 * IntWidth
         /\ Width(PATHSET, bytes) = Len(bytes) - Len(ReadPathSet(bytes).rest)
         /\ Width(ISSUE, bytes) = IssueLength(bytes)
         /\ \A type : type \notin {UINT32, AMOUNT, NUMBER, PATHSET, ISSUE} => Width(type, bytes) = 1
<1>1. /\ UINT32 # AMOUNT /\ UINT32 # NUMBER /\ UINT32 # PATHSET /\ UINT32 # ISSUE
      /\ AMOUNT # NUMBER /\ AMOUNT # PATHSET /\ AMOUNT # ISSUE
      /\ NUMBER # PATHSET /\ NUMBER # ISSUE /\ PATHSET # ISSUE
  BY DEF UINT32, AMOUNT, NUMBER, PATHSET, ISSUE
<1>2. Width(UINT32, bytes) = 4
  BY Zenon, <1>1 DEF Width
<1>3. Width(AMOUNT, bytes) = AmountLength(bytes[1])
  BY Zenon, <1>1 DEF Width
<1>4. Width(NUMBER, bytes) = 2 * IntWidth
  BY Zenon, <1>1 DEF Width
<1>5. Width(PATHSET, bytes) = Len(bytes) - Len(ReadPathSet(bytes).rest)
  BY Zenon, <1>1 DEF Width
<1>6. Width(ISSUE, bytes) = IssueLength(bytes)
  BY Zenon, <1>1 DEF Width
<1>7. ASSUME NEW type, type \notin {UINT32, AMOUNT, NUMBER, PATHSET, ISSUE}
      PROVE  Width(type, bytes) = 1
  BY Zenon, <1>7 DEF Width
<1> QED BY <1>2, <1>3, <1>4, <1>5, <1>6, <1>7

-----------------------------------------------------------------------------
(* Powers, and numbers in bytes.                                           *)

\* A power is one factor more than the one below.
LEMMA PowerLaws ==
  ASSUME NEW b \in Nat \ {0}
  PROVE  /\ Power(b, 0) = 1
         /\ \A n \in Nat : Power(b, n) \in Nat \ {0} /\ Power(b, n + 1) = b * Power(b, n)
<1> DEFINE step == [p \in Nat \X (Nat \ {0}) |-> b * p[2]]
           F(h) == [k \in Nat |-> IF k = 0 THEN 1 ELSE b * h[k - 1]]
           power == CHOOSE h : h = F(h)
<1>1. \A n \in Nat, v \in Nat \ {0} : step[<<n + 1, v>>] = b * v
  OBVIOUS
<1>2. \A v \in Nat \ {0} : b * v \in Nat \ {0}
  OBVIOUS
<1>3. PICK h \in [Nat -> Nat \ {0}] : h[0] = 1 /\ \A n \in Nat : h[n + 1] = step[<<n + 1, h[n]>>]
  <2> DEFINE V == Nat \ {0}
  <2>1. step \in [Nat \X V -> V]
    BY <1>2
  <2>2. 1 \in V
    OBVIOUS
  <2> HIDE DEF V, step
  <2>3. \E h \in [Nat -> V] : Recurses(h, 1, step)
    BY <2>1, <2>2, RecursionExists
  <2> QED BY <2>3 DEF V, Recurses
<1>4. \A n \in Nat : h[n + 1] = b * h[n]
  BY <1>1, <1>3
<1>5. h = F(h)
  <2>1. ASSUME NEW k \in Nat PROVE h[k] = IF k = 0 THEN 1 ELSE b * h[k - 1]
    <3>1. CASE k = 0
      BY <1>3, <3>1
    <3>2. CASE k # 0
      <4>1. k - 1 \in Nat /\ (k - 1) + 1 = k
        BY <3>2
      <4>2. h[(k - 1) + 1] = b * h[k - 1]
        BY <1>4, <4>1
      <4> QED BY <3>2, <4>1, <4>2
    <3> QED BY <3>1, <3>2
  <2> QED BY <1>3, <2>1
<1>6. power = F(power)
  BY <1>5
<1>7. power[0] = 1 /\ \A n \in Nat : power[n + 1] = b * power[n]
  <2> HIDE DEF power
  <2> QED BY <1>6
<1>8. \A n : Power(b, n) = power[n]
  BY DEF Power
<1> HIDE DEF power
<1>9. \A n \in Nat : power[n] \in Nat \ {0}
  <2> DEFINE S == {n \in Nat : power[n] \in Nat \ {0}}
  <2>1. 0 \in S
    BY <1>7
  <2>2. \A n \in Nat : n \in S => n + 1 \in S
    BY <1>2, <1>7
  <2>3. \A n \in Nat : n \in S
    <3> HIDE DEF S
    <3> QED BY <2>1, <2>2, SetInduction
  <2> QED BY <2>3
<1> QED BY <1>7, <1>8, <1>9

\* Powers add up.
LEMMA PowerAdds ==
  ASSUME NEW b \in Nat \ {0}, NEW m \in Nat, NEW n \in Nat
  PROVE  Power(b, m + n) = Power(b, m) * Power(b, n)
<1> DEFINE S == {k \in Nat : Power(b, m + k) = Power(b, m) * Power(b, k)}
<1>1. 0 \in S
  <2>1. Power(b, 0) = 1 /\ Power(b, m) \in Nat /\ m + 0 = m
    BY PowerLaws
  <2>2. Power(b, m) * 1 = Power(b, m)
    BY <2>1
  <2> QED BY <2>1, <2>2
<1>2. ASSUME NEW k \in Nat, k \in S PROVE k + 1 \in S
  <2>1. PICK p, q : p = Power(b, m) /\ q = Power(b, k)
    OBVIOUS
  <2>2. p \in Int /\ q \in Int /\ Power(b, m + k) = p * q
    BY <1>2, <2>1, PowerLaws
  <2>3. m + (k + 1) = (m + k) + 1 /\ m + k \in Nat
    OBVIOUS
  <2>4. Power(b, (m + k) + 1) = b * (p * q) /\ Power(b, k + 1) = b * q
    BY <2>1, <2>2, <2>3, PowerLaws
  <2>5. b * (p * q) = p * (b * q)
    <3>1. b * (p * q) = (b * p) * q /\ p * (b * q) = (p * b) * q /\ b * p = p * b
      BY <2>2, Products
    <3> QED BY <3>1
  <2> QED BY <2>1, <2>3, <2>4, <2>5
<1>3. n \in S
  <2> HIDE DEF S
  <2> QED BY <1>1, <1>2, SetInduction
<1> QED BY <1>3

\* A power is more than its exponent.
LEMMA PowerExceeds ==
  ASSUME NEW b \in Nat, b >= 2, NEW n \in Nat
  PROVE  n < Power(b, n)
<1> DEFINE S == {k \in Nat : k < Power(b, k)}
<1>0. b \in Nat \ {0}
  OBVIOUS
<1>1. 0 \in S
  BY <1>0, PowerLaws
<1>2. ASSUME NEW k \in Nat, k \in S PROVE k + 1 \in S
  <2>1. PICK p : p = Power(b, k)
    OBVIOUS
  <2>2. p \in Nat /\ k < p /\ Power(b, k + 1) = b * p
    BY <1>0, <1>2, <2>1, PowerLaws
  <2>3. p * 2 <= p * b /\ b * p = p * b
    BY <2>2, Products
  <2>4. b * p \in Nat
    BY <2>2
  <2>5. k + 1 < b * p
    BY <2>2, <2>3, <2>4
  <2> QED BY <2>2, <2>5
<1>3. n \in S
  <2> HIDE DEF S
  <2> QED BY <1>1, <1>2, SetInduction
<1> QED BY <1>3

\* A number in bytes has as many as it was given.
LEMMA BytesOfInt ==
  ASSUME NEW n \in Nat, NEW w \in Nat
  PROVE  /\ WriteInt(n, w) \in Seq(Byte) /\ Len(WriteInt(n, w)) = w
         /\ DOMAIN WriteInt(n, w) = 1..w
         /\ \A i \in 1..w : WriteInt(n, w)[i] = (n \div Power(256, w - i)) % 256
<1>1. ASSUME NEW i \in 1..w PROVE (n \div Power(256, w - i)) % 256 \in Byte
  <2>1. w - i \in Nat
    OBVIOUS
  <2>2. Power(256, w - i) \in Nat \ {0}
    BY <2>1, PowerLaws
  <2>3. n \div Power(256, w - i) \in Nat
    BY <2>2, DivLess
  <2>4. \A q \in Nat : q % 256 \in 0..255
    OBVIOUS
  <2> QED BY <2>3, <2>4 DEF Byte
<1>2. WriteInt(n, w) = [i \in 1..w |-> (n \div Power(256, w - i)) % 256]
  BY DEF WriteInt
<1>3. WriteInt(n, w) \in [1..w -> Byte]
  BY <1>1, <1>2
<1>4. WriteInt(n, w) \in Seq(Byte) /\ Len(WriteInt(n, w)) = w
  BY <1>3
<1> QED BY <1>2, <1>4

\* Bytes are read from the first to the last.
LEMMA ReadStepwise ==
  ASSUME NEW bytes \in Seq(Byte), NEW h \in [0..Len(bytes) -> Nat], h[0] = 0,
         \A i \in Nat : i < Len(bytes) => h[i + 1] = 256 * h[i] + bytes[i + 1]
  PROVE  ReadUInt(bytes) = h[Len(bytes)]
<1> DEFINE F(f) == [i \in 0..Len(bytes) |-> IF i = 0 THEN 0 ELSE 256 * f[i - 1] + bytes[i]]
           value == CHOOSE f : f = F(f)
<1>1. ReadUInt(bytes) = value[Len(bytes)]
  BY DEF ReadUInt
<1>2. value = F(value)
  <2> DEFINE g == [i \in 0..Len(bytes) |-> h[i]]
  <2>1. ASSUME NEW i \in 0..Len(bytes)
        PROVE  h[i] = IF i = 0 THEN 0 ELSE 256 * g[i - 1] + bytes[i]
    <3>1. CASE i # 0
      <4>1. i - 1 \in Nat /\ i - 1 \in 0..Len(bytes) /\ i - 1 < Len(bytes) /\ (i - 1) + 1 = i
        BY <3>1
      <4>2. g[i - 1] = h[i - 1]
        BY <4>1
      <4>3. h[(i - 1) + 1] = 256 * h[i - 1] + bytes[(i - 1) + 1]
        BY <4>1
      <4> HIDE DEF g
      <4> QED BY <3>1, <4>1, <4>2, <4>3
    <3> QED BY <3>1
  <2>2. g = F(g)
    BY <2>1
  <2> HIDE DEF g, F
  <2> QED BY <2>2
<1>3. value[0] = 0
  <2> HIDE DEF value
  <2> QED BY <1>2
<1>4. ASSUME NEW i \in Nat, i < Len(bytes) PROVE value[i + 1] = 256 * value[i] + bytes[i + 1]
  <2>1. i + 1 \in 0..Len(bytes) /\ i + 1 # 0 /\ (i + 1) - 1 = i
    BY <1>4
  <2> HIDE DEF value
  <2>2. value[i + 1] = 256 * value[(i + 1) - 1] + bytes[i + 1]
    BY <1>2, <2>1
  <2> QED BY <2>1, <2>2
<1> HIDE DEF value
<1> DEFINE S == {i \in Nat : i <= Len(bytes) => value[i] = h[i]}
<1>5. 0 \in S
  BY <1>3
<1>6. ASSUME NEW i \in Nat, i \in S PROVE i + 1 \in S
  <2>1. CASE i < Len(bytes)
    <3>1. value[i] = h[i]
      BY <1>6, <2>1
    <3>2. value[i + 1] = 256 * value[i] + bytes[i + 1] /\ h[i + 1] = 256 * h[i] + bytes[i + 1]
      BY <1>4, <2>1
    <3> QED BY <3>1, <3>2
  <2>2. CASE ~(i < Len(bytes))
    BY <2>2
  <2> QED BY <2>1, <2>2
<1>7. Len(bytes) \in S
  <2> HIDE DEF S
  <2> QED BY <1>5, <1>6, SetInduction
<1> QED BY <1>1, <1>7

\* A number that fits in its bytes is read as it was written.
LEMMA IntIsRead ==
  ASSUME NEW w \in Nat, NEW n \in Nat, n < Power(256, w)
  PROVE  ReadUInt(WriteInt(n, w)) = n
<1> DEFINE h == [i \in 0..w |-> n \div Power(256, w - i)]
<1>1. PICK bytes : bytes = WriteInt(n, w)
  OBVIOUS
<1>2. /\ bytes \in Seq(Byte) /\ Len(bytes) = w
      /\ \A i \in 1..w : bytes[i] = (n \div Power(256, w - i)) % 256
  <2>1. WriteInt(n, w) \in Seq(Byte) /\ Len(WriteInt(n, w)) = w
    BY Zenon, BytesOfInt
  <2>2. \A i \in 1..w : WriteInt(n, w)[i] = (n \div Power(256, w - i)) % 256
    BY DEF WriteInt
  <2> QED BY <1>1, <2>1, <2>2
<1>3. \A k \in Nat : Power(256, k) \in Nat \ {0} /\ Power(256, k + 1) = 256 * Power(256, k)
  <2>1. 256 \in Nat \ {0}
    OBVIOUS
  <2> QED BY Zenon, <2>1, PowerLaws
<1>4. h[0] = 0
  <2>1. w - 0 = w /\ 0 \in 0..w
    OBVIOUS
  <2>2. Power(256, w) * 1 = Power(256, w) /\ Power(256, w) \in Nat \ {0}
    BY <1>3
  <2>3. n \div Power(256, w) \in Nat /\ n \div Power(256, w) < 1
    BY <2>2, DivLess
  <2>4. n \div Power(256, w) = 0
    BY <2>3
  <2> QED BY <2>1, <2>4
<1>5. ASSUME NEW i \in Nat, i < w PROVE h[i + 1] = 256 * h[i] + bytes[i + 1]
  <2>1. PICK k \in Nat : k = w - (i + 1)
    BY <1>5
  <2>2. i \in 0..w /\ i + 1 \in 0..w /\ i + 1 \in 1..w /\ w - i = k + 1
    BY <1>5, <2>1
  <2>3. PICK a : a = Power(256, k)
    OBVIOUS
  <2>4. a \in Nat \ {0} /\ Power(256, k + 1) = 256 * a
    BY <1>3, <2>3
  <2>5. PICK q : q = n \div a
    OBVIOUS
  <2>6. q \in Nat
    BY <2>4, <2>5, DivLess
  <2>7. n \div (256 * a) = q \div 256
    BY <2>4, <2>5, DivDiv
  <2>8. q = 256 * (q \div 256) + (q % 256)
    BY <2>6
  <2>9. h[i] = n \div (256 * a) /\ h[i + 1] = q
    BY <2>1, <2>2, <2>3, <2>4, <2>5
  <2>10. bytes[i + 1] = q % 256
    BY <1>2, <2>1, <2>2, <2>3, <2>5
  <2> QED BY <2>7, <2>8, <2>9, <2>10
<1>6. h[w] = n
  <2>1. w \in 0..w /\ w - w = 0 /\ Power(256, 0) = 1
    BY PowerLaws
  <2>2. h[w] = n \div 1
    BY <2>1
  <2>3. n \div 1 = n
    OBVIOUS
  <2> QED BY <2>2, <2>3
<1>8. h \in [0..w -> Nat]
  <2>1. ASSUME NEW i \in 0..w PROVE n \div Power(256, w - i) \in Nat
    <3>1. w - i \in Nat
      OBVIOUS
    <3> QED BY <1>3, <3>1, DivLess
  <2> QED BY <2>1
<1> HIDE DEF h
<1>7. ReadUInt(bytes) = h[Len(bytes)]
  <2>1. bytes \in Seq(Byte) /\ h \in [0..Len(bytes) -> Nat] /\ h[0] = 0
    BY <1>2, <1>4, <1>8
  <2>2. \A i \in Nat : i < Len(bytes) => h[i + 1] = 256 * h[i] + bytes[i + 1]
    BY <1>2, <1>5
  <2> QED BY Zenon, <2>1, <2>2, ReadStepwise
<1> QED BY <1>1, <1>2, <1>6, <1>7

-----------------------------------------------------------------------------
(* Amounts.                                                                *)

\* Powers of ten are positive, and each is ten of the one below.
LEMMA Tens ==
  /\ Power(10, 0) = 1
  /\ \A k \in Nat : /\ Power(10, k) \in Nat \ {0} /\ k < Power(10, k)
                    /\ Power(10, k + 1) = 10 * Power(10, k)
  /\ \A j, k \in Nat : Power(10, j + k) = Power(10, j) * Power(10, k)
<1>1. 10 \in Nat \ {0} /\ 10 \in Nat /\ 10 >= 2
  OBVIOUS
<1>2. /\ Power(10, 0) = 1
      /\ \A k \in Nat : Power(10, k) \in Nat \ {0} /\ Power(10, k + 1) = 10 * Power(10, k)
  BY Zenon, <1>1, PowerLaws
<1>3. \A k \in Nat : k < Power(10, k)
  BY Zenon, <1>1, PowerExceeds
<1>4. \A j, k \in Nat : Power(10, j + k) = Power(10, j) * Power(10, k)
  BY Zenon, <1>1, PowerAdds
<1> QED BY <1>2, <1>3, <1>4

\* A number has less than ten to the power of its size.
LEMMA Sizes ==
  ASSUME NEW m \in Nat \ {0}
  PROVE  Size(m) \in Nat \ {0} /\ m < Power(10, Size(m))
<1> DEFINE T == {k \in Nat : k # 0 /\ m < Power(10, k)}
<1>1. m \in T
  BY Tens
<1>2. PICK k \in T : \A j \in T : k <= j
  <2>1. T \subseteq Nat /\ T # {}
    BY <1>1
  <2> HIDE DEF T
  <2> QED BY <2>1, LeastNumber
<1>3. k \in 1 .. m + 1
  <2>1. k <= m
    BY <1>1, <1>2
  <2> QED BY <1>2, <2>1
<1>4. k = 1 \/ Power(10, k - 1) <= m
  <2>1. CASE k # 1
    <3>1. k - 1 \in Nat /\ k - 1 # 0 /\ ~(k <= k - 1)
      BY <1>2, <2>1
    <3>2. ~(m < Power(10, k - 1))
      BY <1>2, <3>1
    <3>3. Power(10, k - 1) \in Nat
      BY <3>1, Tens
    <3> QED BY <3>2, <3>3
  <2> QED BY <2>1
<1> DEFINE Fits(s) == s \in 1 .. m + 1 /\ m < Power(10, s) /\ (s = 1 \/ Power(10, s - 1) <= m)
<1>5. \E s : Fits(s)
  BY <1>2, <1>3, <1>4
<1>6. Size(m) = CHOOSE s : Fits(s)
  BY DEF Size
<1>7. Fits(Size(m))
  <2> HIDE DEF Fits
  <2> QED BY <1>5, <1>6
<1>8. Size(m) \in 1 .. m + 1 /\ m < Power(10, Size(m))
  BY Zenon, <1>7
<1> QED BY <1>8

\* The zeros that a number ends with are so many and no more.
LEMMA ZerosAtTheEnd ==
  ASSUME NEW m \in Nat \ {0}
  PROVE  /\ TrailingZeros(m) \in Nat
         /\ m % Power(10, TrailingZeros(m)) = 0 /\ m % Power(10, TrailingZeros(m) + 1) # 0
<1> DEFINE T == {k \in Nat : m % Power(10, k + 1) # 0}
<1>1. m \in T
  <2>1. PICK p : p = Power(10, m + 1)
    OBVIOUS
  <2>2. p \in Nat \ {0} /\ m + 1 < p
    BY <2>1, Tens
  <2>3. m = p * 0 + m /\ m \in 0..(p - 1)
    BY <2>2
  <2>4. m % p = m
    BY <2>2, <2>3, Quotient
  <2> QED BY <2>1, <2>4
<1>2. PICK k \in T : \A j \in T : k <= j
  <2>1. T \subseteq Nat /\ T # {}
    BY <1>1
  <2> HIDE DEF T
  <2> QED BY <2>1, LeastNumber
<1>3. k \in 0..m
  BY <1>1, <1>2
<1>4. m % Power(10, k) = 0
  <2>1. CASE k = 0
    <3>1. m % 1 = 0
      OBVIOUS
    <3> QED BY <2>1, <3>1, Tens
  <2>2. CASE k # 0
    <3>1. k - 1 \in Nat /\ ~(k <= k - 1) /\ (k - 1) + 1 = k
      BY <1>2, <2>2
    <3> QED BY <1>2, <3>1
  <2> QED BY <2>1, <2>2
<1> DEFINE Ends(z) == z \in 0..m /\ m % Power(10, z) = 0 /\ m % Power(10, z + 1) # 0
<1>5. \E z : Ends(z)
  BY <1>2, <1>3, <1>4
<1>6. TrailingZeros(m) = CHOOSE z : Ends(z)
  BY DEF TrailingZeros
<1>7. Ends(TrailingZeros(m))
  <2> HIDE DEF Ends
  <2> QED BY <1>5, <1>6
<1>8. TrailingZeros(m) \in 0..m
  BY Zenon, <1>7
<1>9. m % Power(10, TrailingZeros(m)) = 0 /\ m % Power(10, TrailingZeros(m) + 1) # 0
  BY Zenon, <1>7
<1> QED BY <1>8, <1>9

\* A number that does not end with a zero ends with as many as it is multiplied by.
LEMMA ZerosOfProduct ==
  ASSUME NEW q \in Nat \ {0}, q % 10 # 0, NEW j \in Nat
  PROVE  /\ q * Power(10, j) \in Nat \ {0}
         /\ TrailingZeros(q * Power(10, j)) = j
         /\ (q * Power(10, j)) \div Power(10, j) = q
<1>1. PICK p : p = Power(10, j)
  OBVIOUS
<1>2. p \in Nat \ {0}
  BY <1>1, Tens
<1>3. PICK m : m = q * p
  OBVIOUS
<1>4. m \in Nat \ {0} /\ m = p * q
  BY <1>2, <1>3
<1>5. PICK z : z = TrailingZeros(m)
  OBVIOUS
<1>6. z \in Nat /\ m % Power(10, z) = 0 /\ m % Power(10, z + 1) # 0
  BY <1>4, <1>5, ZerosAtTheEnd
<1>7. ~(z < j)
  <2> SUFFICES ASSUME z < j PROVE FALSE
    OBVIOUS
  <2>1. PICK i \in Nat : i = j - (z + 1)
    BY <1>6
  <2>2. j = (z + 1) + i /\ z + 1 \in Nat
    BY <1>6, <2>1
  <2>3. PICK a, c : a = Power(10, z + 1) /\ c = Power(10, i)
    OBVIOUS
  <2>4. a \in Nat \ {0} /\ c \in Nat \ {0} /\ p = a * c
    BY <1>1, <2>1, <2>2, <2>3, Tens
  <2>5. m = a * (c * q)
    BY <1>4, <2>4, Products
  <2>6. c * q \in Nat
    BY <2>4
  <2>7. m % a = 0
    BY <1>4, <2>4, <2>5, <2>6, Multiples
  <2> QED BY <1>6, <2>3, <2>7
<1>8. ~(j < z)
  <2> SUFFICES ASSUME j < z PROVE FALSE
    OBVIOUS
  <2>1. PICK i \in Nat : i = z - (j + 1)
    BY <1>6
  <2>2. z = j + (i + 1) /\ i + 1 \in Nat
    BY <1>6, <2>1
  <2>3. PICK c : c = Power(10, i)
    OBVIOUS
  <2>4. c \in Nat \ {0} /\ Power(10, i + 1) = 10 * c
    BY <2>1, <2>3, Tens
  <2>5. PICK a : a = Power(10, z)
    OBVIOUS
  <2>6. a = p * (10 * c) /\ a \in Nat \ {0}
    BY <1>1, <1>6, <2>2, <2>4, <2>5, Tens
  <2>7. PICK r : r = m \div a
    OBVIOUS
  <2>8. r \in Nat /\ m = a * r
    BY <1>4, <1>6, <2>5, <2>6, <2>7, Multiples
  <2>9. 10 * c \in Int /\ c * r \in Nat
    BY <2>4, <2>8
  <2>10. m = p * (10 * (c * r))
    <3>1. (p * (10 * c)) * r = p * ((10 * c) * r)
      BY <1>2, <2>8, <2>9, Products
    <3>2. (10 * c) * r = 10 * (c * r)
      BY <2>4, <2>8, Products
    <3> QED BY <2>6, <2>8, <3>1, <3>2
  <2>11. 10 * (c * r) \in Int
    BY <2>9
  <2>12. q = 10 * (c * r)
    BY <1>2, <1>4, <2>10, <2>11, Cancels
  <2>13. q % 10 = 0
    BY <2>9, <2>12
  <2> QED BY <2>13
<1>9. z = j
  BY <1>6, <1>7, <1>8
<1>10. m \div p = q
  BY <1>2, <1>4, Multiples
<1> QED BY <1>1, <1>3, <1>4, <1>5, <1>9, <1>10

\* With zeros at its end, a number is the same.
LEMMA CanonicalOfProduct ==
  ASSUME NEW neg \in BOOLEAN, NEW q \in Nat \ {0}, q % 10 # 0, NEW j \in Nat, NEW e
  PROVE  Canonical(neg, q * Power(10, j), e) = [neg |-> neg, m |-> q, e |-> e + j]
<1>1. PICK m : m = q * Power(10, j)
  OBVIOUS
<1>2. m # 0 /\ TrailingZeros(m) = j /\ m \div Power(10, j) = q
  BY <1>1, ZerosOfProduct
<1>3. Canonical(neg, m, e)
        = [neg |-> neg /\ m # 0, m |-> m \div Power(10, TrailingZeros(m)),
           e |-> IF m = 0 THEN 0 ELSE e + TrailingZeros(m)]
  BY DEF Canonical
<1> QED BY <1>1, <1>2, <1>3

\* A number as Canonical has it: zero has no sign, others do not end with zeros.
IsCanonical(n) ==
  /\ n = [neg |-> n.neg, m |-> n.m, e |-> n.e]
  /\ n.neg \in BOOLEAN /\ n.m \in Nat /\ n.e \in Int
  /\ n.m = 0 => n = [neg |-> FALSE, m |-> 0, e |-> 0]
  /\ n.m # 0 => n.m % 10 # 0

\* ... and Canonical has it so.
LEMMA CanonicalIs ==
  ASSUME NEW neg \in BOOLEAN, NEW m \in Nat, NEW e \in Int
  PROVE  IsCanonical(Canonical(neg, m, e)) /\ (m = 0 => Canonical(neg, m, e).m = 0)
<1> SUFFICES ASSUME NEW n, n = Canonical(neg, m, e)
             PROVE  IsCanonical(n) /\ (m = 0 => n.m = 0)
  OBVIOUS
<1>1. PICK z : z = TrailingZeros(m)
  OBVIOUS
<1>2. PICK p : p = Power(10, z)
  OBVIOUS
<1>3. n = [neg |-> neg /\ m # 0, m |-> m \div p, e |-> IF m = 0 THEN 0 ELSE e + z]
  BY <1>1, <1>2 DEF Canonical
<1>4. CASE m = 0
  <2>1. z = 0
    BY <1>1, <1>4 DEF TrailingZeros
  <2>2. p = 1
    BY <1>2, <2>1, Tens
  <2>3. m \div p = 0
    BY <1>4, <2>2
  <2>4. n = [neg |-> FALSE, m |-> 0, e |-> 0]
    BY <1>3, <1>4, <2>3
  <2>5. n.neg = FALSE /\ n.m = 0 /\ n.e = 0
    BY <2>4
  <2>6. n = [neg |-> n.neg, m |-> n.m, e |-> n.e]
    BY Zenon, <2>4, <2>5
  <2>7. n.neg \in BOOLEAN
    BY Zenon, <2>5
  <2>8. n.m \in Nat /\ n.e \in Int
    BY <2>5
  <2>9. n.m # 0 => n.m % 10 # 0
    BY <2>5
  <2> QED BY Zenon, <2>4, <2>5, <2>6, <2>7, <2>8, <2>9 DEF IsCanonical
<1>5. CASE m # 0
  <2>1. z \in Nat /\ m % p = 0 /\ m % Power(10, z + 1) # 0
    BY <1>1, <1>2, <1>5, ZerosAtTheEnd
  <2>2. p \in Nat \ {0} /\ Power(10, z + 1) = 10 * p
    BY <1>2, <2>1, Tens
  <2>3. PICK q : q = m \div p
    OBVIOUS
  <2>4. q \in Nat /\ m = p * q
    BY <2>1, <2>2, <2>3, Multiples
  <2>5. q # 0
    BY <1>5, <2>2, <2>4
  <2>6. q % 10 # 0
    <3> SUFFICES ASSUME q % 10 = 0 PROVE FALSE
      OBVIOUS
    <3>1. PICK r \in Nat : q = 10 * r
      BY <2>4
    <3>2. m = (10 * p) * r
      <4>1. p * (10 * r) = (p * 10) * r /\ p * 10 = 10 * p
        BY <2>2, Products
      <4> QED BY <2>4, <3>1, <4>1
    <3>3. 10 * p \in Nat \ {0}
      BY <2>2
    <3>4. m % (10 * p) = 0
      BY <3>2, <3>3, Multiples
    <3> QED BY <2>1, <2>2, <3>4
  <2>7. n = [neg |-> neg, m |-> q, e |-> e + z]
    BY <1>3, <1>5, <2>3
  <2>8. n.neg = neg /\ n.m = q /\ n.e = e + z
    BY <2>7
  <2>9. e + z \in Int
    BY <2>1
  <2>10. n = [neg |-> n.neg, m |-> n.m, e |-> n.e]
    BY Zenon, <2>7, <2>8
  <2>11. n.neg \in BOOLEAN /\ n.m \in Nat /\ n.e \in Int
    <3>1. n.neg \in BOOLEAN
      BY Zenon, <2>8
    <3>2. n.m \in Nat /\ n.e \in Int
      BY <2>4, <2>8, <2>9
    <3> QED BY <3>1, <3>2
  <2>12. n.m # 0 /\ n.m % 10 # 0
    BY <2>5, <2>6, <2>8
  <2> QED BY Zenon, <1>5, <2>10, <2>11, <2>12 DEF IsCanonical
<1> QED BY <1>4, <1>5

\* ... and leaves it so.
LEMMA CanonicalAgain ==
  ASSUME NEW n, IsCanonical(n)
  PROVE  Canonical(n.neg, n.m, n.e) = n
<1>1. PICK g, m, e : g = n.neg /\ m = n.m /\ e = n.e
  OBVIOUS
<1>2. /\ n = [neg |-> g, m |-> m, e |-> e] /\ g \in BOOLEAN /\ m \in Nat /\ e \in Int
      /\ m = 0 => n = [neg |-> FALSE, m |-> 0, e |-> 0]
      /\ m # 0 => m % 10 # 0
  BY Zenon, <1>1 DEF IsCanonical
<1>3. CASE m = 0
  <2>1. IsCanonical(Canonical(g, m, e)) /\ Canonical(g, m, e).m = 0
    BY Zenon, <1>2, <1>3, CanonicalIs
  <2>2. Canonical(g, m, e) = [neg |-> FALSE, m |-> 0, e |-> 0]
    BY Zenon, <2>1 DEF IsCanonical
  <2> QED BY Zenon, <1>1, <1>2, <1>3, <2>2
<1>4. CASE m # 0
  <2>1. m * Power(10, 0) = m /\ e + 0 = e
    BY <1>2, Tens
  <2>2. m \in Nat \ {0} /\ m % 10 # 0 /\ 0 \in Nat
    BY <1>2, <1>4
  <2>3. Canonical(g, m * Power(10, 0), e) = [neg |-> g, m |-> m, e |-> e + 0]
    BY Zenon, <1>2, <2>2, CanonicalOfProduct
  <2> QED BY Zenon, <1>1, <1>2, <2>1, <2>3
<1> QED BY Zenon, <1>3, <1>4

\* The width of amounts, and what fits in it.
LEMMA WidthFacts ==
  /\ AmountWidth \in Nat /\ AmountWidth >= 2
  /\ \E p \in Nat \ {0} : /\ Power(256, AmountWidth - 2) = p
                          /\ Power(256, AmountWidth - 1) = 256 * p
                          /\ Power(256, AmountWidth) = 256 * (256 * p)
<1>1. AmountWidth \in Nat /\ AmountWidth >= 2
  BY LeavesAssumption
<1>2. \A k \in Nat : Power(256, k) \in Nat \ {0} /\ Power(256, k + 1) = 256 * Power(256, k)
  <2>1. 256 \in Nat \ {0}
    OBVIOUS
  <2> QED BY Zenon, <2>1, PowerLaws
<1>3. PICK k \in Nat : k = AmountWidth - 2
  BY <1>1
<1>4. AmountWidth - 1 = k + 1 /\ AmountWidth = (k + 1) + 1 /\ k + 1 \in Nat
  BY <1>1, <1>3
<1>5. /\ Power(256, k) \in Nat \ {0} /\ Power(256, k + 1) = 256 * Power(256, k)
      /\ Power(256, (k + 1) + 1) = 256 * Power(256, k + 1)
  BY <1>2, <1>4
<1> QED BY <1>1, <1>3, <1>4, <1>5

\* An amount in bytes, of which the first has free bits where the number is small.
LEMMA AmountBytes ==
  ASSUME NEW n \in Nat, NEW w, w = WriteInt(n, AmountWidth)
  PROVE  /\ w \in Seq(Byte) /\ Len(w) = AmountWidth /\ w \in [1..AmountWidth -> Byte]
         /\ \A k \in 0..256 : n < k * Power(256, AmountWidth - 1) => w[1] \in 0..(k - 1)
         /\ n < 64 * Power(256, AmountWidth - 2) => w[1] = 0 /\ w[2] \in 0..63
<1>1. w \in Seq(Byte) /\ Len(w) = AmountWidth
  BY Zenon, WidthFacts, BytesOfInt
<1>2. w \in [1..AmountWidth -> Byte]
  BY <1>1, LenProperties
<1>3. PICK p \in Nat \ {0} : Power(256, AmountWidth - 2) = p /\ Power(256, AmountWidth - 1) = 256 * p
  BY Zenon, WidthFacts
<1>4. w[1] = (n \div (256 * p)) % 256 /\ w[2] = (n \div p) % 256
  <2>1. 1 \in 1..AmountWidth /\ 2 \in 1..AmountWidth
    BY WidthFacts
  <2> QED BY <1>3, <2>1 DEF WriteInt
<1>5. 256 * p \in Nat \ {0}
  OBVIOUS
<1>6. ASSUME NEW k \in 0..256, n < k * (256 * p) PROVE w[1] \in 0..(k - 1)
  <2>1. n < (256 * p) * k
    BY <1>5, <1>6, Products
  <2>2. PICK q : q = n \div (256 * p)
    OBVIOUS
  <2>3. q \in Nat /\ q < k
    BY <1>5, <2>1, <2>2, DivLess
  <2>4. q % 256 = q
    BY <2>3
  <2> QED BY <1>4, <2>2, <2>3, <2>4
<1>7. ASSUME n < 64 * p PROVE w[1] = 0 /\ w[2] \in 0..63
  <2>1. 1 \in 0..256 /\ n < 1 * (256 * p)
    BY <1>7
  <2>2. w[1] \in 0..(1 - 1)
    BY Zenon, <1>6, <2>1
  <2>3. n < p * 64
    BY <1>7, Products
  <2>4. PICK q : q = n \div p
    OBVIOUS
  <2>5. q \in Nat /\ q < 64
    BY <2>3, <2>4, DivLess
  <2>6. q % 256 = q
    BY <2>5
  <2> QED BY <1>4, <2>2, <2>4, <2>5, <2>6
<1> QED BY <1>1, <1>2, <1>3, <1>6, <1>7

\* With all its digits, the mantissa of a valid amount leaves the first ten bits free.
LEMMA FullMantissa ==
  ASSUME NEW m \in Nat \ {0}, Size(m) <= MAX_IOU_PRECISION,
         NEW full, full = m * Power(10, MAX_IOU_PRECISION - Size(m))
  PROVE  full \in Nat /\ full < 64 * Power(256, AmountWidth - 2)
<1>1. PICK s : s = Size(m)
  OBVIOUS
<1>2. s \in Nat /\ m < Power(10, s)
  BY <1>1, Sizes
<1>3. PICK j \in Nat : j = MAX_IOU_PRECISION - s
  BY <1>1, <1>2, LeavesAssumption
<1>4. MAX_IOU_PRECISION = s + j
  BY <1>2, <1>3, LeavesAssumption
<1>5. PICK a, c : a = Power(10, s) /\ c = Power(10, j)
  OBVIOUS
<1>6. a \in Nat \ {0} /\ c \in Nat \ {0} /\ Power(10, MAX_IOU_PRECISION) = a * c
  BY <1>2, <1>4, <1>5, Tens
<1>7. c * m + c <= c * a /\ c * m = m * c /\ c * a = a * c
  BY <1>2, <1>5, <1>6, Products
<1>8. m * c \in Nat /\ a * c \in Nat
  BY <1>6
<1>9. PICK x : x = 64 * Power(256, AmountWidth - 2)
  OBVIOUS
<1>10. x \in Nat /\ a * c <= x
  <2>1. Power(256, AmountWidth - 2) \in Nat
    BY Zenon, WidthFacts
  <2> QED BY <1>6, <1>9, <2>1, LeavesAssumption
<1>11. full = m * c
  BY <1>1, <1>3, <1>5
<1> QED BY <1>6, <1>7, <1>8, <1>9, <1>10, <1>11

\* With all its digits, and written so, a number is the same.
LEMMA FullIsSame ==
  ASSUME NEW n, IsCanonical(n), n.m # 0, IouIsValid(n),
         NEW neg \in BOOLEAN
  PROVE  LET full == n.m * Power(10, MAX_IOU_PRECISION - Size(n.m))
         IN /\ Canonical(neg, full, FullExponent(n)) = [neg |-> neg, m |-> n.m, e |-> n.e]
            /\ full \in Nat /\ full < 64 * Power(256, AmountWidth - 2)
            /\ FullExponent(n) \in Int
            /\ 97 + FullExponent(n) \in 1..255 /\ 100 + FullExponent(n) \in 1..255
<1>1. PICK q, s : q = n.m /\ s = Size(q)
  OBVIOUS
<1>2. q \in Nat \ {0} /\ q % 10 # 0 /\ n.e \in Int
  BY <1>1 DEF IsCanonical
<1>3. s \in Nat \ {0} /\ s <= MAX_IOU_PRECISION
      /\ FullExponent(n) \in MIN_IOU_EXPONENT..MAX_IOU_EXPONENT
  BY <1>1, <1>2, Sizes DEF IouIsValid
<1>4. PICK j \in Nat : j = MAX_IOU_PRECISION - s
  BY <1>3, LeavesAssumption
<1>5. PICK full : full = q * Power(10, j)
  OBVIOUS
<1>6. full \in Nat /\ full < 64 * Power(256, AmountWidth - 2)
  BY <1>1, <1>2, <1>3, <1>4, <1>5, FullMantissa
<1>7. FullExponent(n) \in Int /\ FullExponent(n) + j = n.e
  <2>1. FullExponent(n) = n.e + s - MAX_IOU_PRECISION
    BY <1>1 DEF FullExponent
  <2> QED BY <1>2, <1>3, <1>4, <2>1, LeavesAssumption
<1>8. 97 + FullExponent(n) \in 1..255 /\ 100 + FullExponent(n) \in 1..255
  BY <1>3, <1>7, LeavesAssumption
<1>9. Canonical(neg, full, FullExponent(n)) = [neg |-> neg, m |-> q, e |-> n.e]
  BY <1>2, <1>5, <1>7, CanonicalOfProduct
<1>10. full = n.m * Power(10, MAX_IOU_PRECISION - Size(n.m))
  BY <1>1, <1>4, <1>5
<1> QED BY <1>1, <1>6, <1>7, <1>8, <1>9, <1>10

\* The bytes of a valid number are read as it was.
LEMMA IouRead ==
  ASSUME NEW n, IsCanonical(n), IouIsValid(n), NEW b, b = IouBytes(n)
  PROVE  /\ b \in Seq(Byte) /\ Len(b) = AmountWidth /\ HasBit(b[1], 128)
         /\ Canonical(~HasBit(b[1], 64), ReadUInt([b EXCEPT ![1] = 0, ![2] = @ % 64]),
                      (b[1] % 64) * 4 + b[2] \div 64 - 97) = n
<1>1. AmountWidth \in Nat /\ AmountWidth >= 2 /\ 1 \in 1..AmountWidth /\ 2 \in 1..AmountWidth
  BY WidthFacts
<1>2. CASE n.m = 0
  <2>1. n = [neg |-> FALSE, m |-> 0, e |-> 0]
    BY <1>2 DEF IsCanonical
  <2>2. PICK w : w = WriteInt(0, AmountWidth)
    OBVIOUS
  <2>3. 0 \in Nat /\ 0 < 64 * Power(256, AmountWidth - 2)
    <3>1. Power(256, AmountWidth - 2) \in Nat \ {0}
      BY Zenon, WidthFacts
    <3> QED BY <3>1
  <2>4. w \in [1..AmountWidth -> Byte] /\ w[1] = 0 /\ w[2] \in 0..63
    BY Zenon, <2>2, <2>3, AmountBytes
  <2>5. b = [j \in 1..AmountWidth |-> IF j = 1 THEN w[j] + 128 ELSE w[j]]
    <3>1. DOMAIN w = 1..AmountWidth
      BY <2>4
    <3>2. b = Or(w, 1, 128)
      BY <1>2, <2>2 DEF IouBytes
    <3> QED BY <3>1, <3>2 DEF Or
  <2>6. b[1] = 128 /\ b[2] = w[2] /\ b \in [1..AmountWidth -> Byte]
    BY <1>1, <2>4, <2>5 DEF Byte
  <2>7. w[2] = 0
    <3>1. w[2] = (0 \div Power(256, AmountWidth - 2)) % 256
      BY <1>1, <2>2 DEF WriteInt
    <3>2. PICK p \in Nat \ {0} : Power(256, AmountWidth - 2) = p
      BY Zenon, WidthFacts
    <3>3. 0 = p * 0
      BY <3>2
    <3>4. 0 \div p = 0
      BY <3>3, Multiples
    <3> QED BY <3>1, <3>2, <3>4
  <2>8. [b EXCEPT ![1] = 0, ![2] = @ % 64] = w
    BY <1>1, <2>4, <2>5, <2>6, <2>7
  <2>9. ReadUInt(w) = 0
    <3>1. 0 < Power(256, AmountWidth)
      <4>1. PICK p \in Nat \ {0} : Power(256, AmountWidth) = 256 * (256 * p)
        BY Zenon, WidthFacts
      <4> QED BY <4>1
    <3> QED BY <1>1, <2>2, <2>3, <3>1, IntIsRead
  <2>10. (~HasBit(b[1], 64)) = TRUE /\ HasBit(b[1], 128)
    BY <2>6 DEF HasBit
  <2>11. (b[1] % 64) * 4 + b[2] \div 64 - 97 = -97
    BY <2>6, <2>7
  <2>12. Canonical(TRUE, 0, -97) = n
    <3>1. PICK e \in Int : e = -97
      OBVIOUS
    <3>2. PICK c : c = Canonical(TRUE, 0, e)
      OBVIOUS
    <3>3. TRUE \in BOOLEAN /\ 0 \in Nat /\ 0 = 0
      OBVIOUS
    <3>4. IsCanonical(c) /\ c.m = 0
      BY Zenon, <3>2, <3>3, CanonicalIs
    <3>5. c = [neg |-> FALSE, m |-> 0, e |-> 0]
      BY Zenon, <3>4 DEF IsCanonical
    <3> QED BY <2>1, <3>1, <3>2, <3>5
  <2>13. b \in Seq(Byte) /\ Len(b) = AmountWidth
    BY <1>1, <2>6
  <2> QED BY <2>8, <2>9, <2>10, <2>11, <2>12, <2>13
<1>3. CASE n.m # 0
  <2> DEFINE full == n.m * Power(10, MAX_IOU_PRECISION - Size(n.m))
             x == 97 + FullExponent(n)
             sign == IF n.neg THEN 0 ELSE 64
  <2>1. /\ full \in Nat /\ full < 64 * Power(256, AmountWidth - 2)
        /\ FullExponent(n) \in Int /\ x \in 1..255
        /\ \A neg \in BOOLEAN :
             Canonical(neg, full, FullExponent(n)) = [neg |-> neg, m |-> n.m, e |-> n.e]
    BY Zenon, <1>3, FullIsSame
  <2>2. PICK w : w = WriteInt(full, AmountWidth)
    OBVIOUS
  <2>3. b = Or(Or(w, 1, 128 + sign + x \div 4), 2, (x % 4) * 64)
    BY <1>3, <2>2 DEF IouBytes
  <2> HIDE DEF full, x
  <2>4. w \in [1..AmountWidth -> Byte] /\ w[1] = 0 /\ w[2] \in 0..63
    BY Zenon, <2>1, <2>2, AmountBytes
  <2>5. PICK first, second : /\ first = 0 + (128 + sign + x \div 4)
                             /\ second = w[2] + (x % 4) * 64
    OBVIOUS
  <2>6. sign \in {0, 64} /\ (sign = 64 <=> ~n.neg)
    OBVIOUS
  <2> HIDE DEF sign
  <2>7. /\ first \in Byte /\ second \in Byte
        /\ HasBit(first, 128) /\ (HasBit(first, 64) <=> sign = 64)
        /\ (first % 64) * 4 + second \div 64 - 97 = x - 97
        /\ second % 64 = w[2]
    <3>1. PICK low \in 0..63 : low = w[2]
      BY <2>4
    <3>2. PICK h, l : h = x \div 4 /\ l = x % 4
      OBVIOUS
    <3>3. h \in 0..63 /\ l \in 0..3 /\ x = 4 * h + l
      BY <2>1, <3>2
    <3>4. first = 128 + sign + h /\ second = low + l * 64 /\ (sign = 0 \/ sign = 64)
      BY <2>5, <2>6, <3>1, <3>2, <3>3
    <3>5. first \in 128..255 /\ first % 64 = h /\ first \div 128 = 1
      BY <3>3, <3>4
    <3>6. (first \div 64) % 2 = 1 <=> sign = 64
      <4>1. CASE sign = 0
        <5>1. first \div 64 = 2
          BY <3>3, <3>4, <4>1
        <5> QED BY <4>1, <5>1
      <4>2. CASE sign = 64
        <5>1. first \div 64 = 3
          BY <3>3, <3>4, <4>2
        <5> QED BY <4>2, <5>1
      <4> QED BY <3>4, <4>1, <4>2
    <3>7. second \in 0..255 /\ second \div 64 = l /\ second % 64 = low
      BY <3>3, <3>4
    <3>8. HasBit(first, 128) /\ (HasBit(first, 64) <=> sign = 64)
      BY <3>5, <3>6 DEF HasBit
    <3>9. first \in Byte /\ second \in Byte
      BY <3>5, <3>7 DEF Byte
    <3>10. (first % 64) * 4 + second \div 64 - 97 = x - 97
      BY <3>3, <3>5, <3>7
    <3> QED BY <3>1, <3>7, <3>8, <3>9, <3>10
  <2>8. b = [j \in 1..AmountWidth |-> IF j = 1 THEN first ELSE IF j = 2 THEN second ELSE w[j]]
    <3>1. PICK y, z : y = 128 + sign + x \div 4 /\ z = (x % 4) * 64
      OBVIOUS
    <3>2. first = w[1] + y /\ second = w[2] + z
      BY <2>4, <2>5, <3>1
    <3>3. b = Or(Or(w, 1, y), 2, z)
      BY <2>3, <3>1
    <3>4. Or(w, 1, y) = [j \in 1..AmountWidth |-> IF j = 1 THEN w[j] + y ELSE w[j]]
      BY <2>4 DEF Or
    <3> QED BY <3>2, <3>3, <3>4 DEF Or
  <2>9. b[1] = first /\ b[2] = second /\ b \in [1..AmountWidth -> Byte]
    BY <1>1, <2>4, <2>7, <2>8
  <2>10. [b EXCEPT ![1] = 0, ![2] = @ % 64] = w
    BY <1>1, <2>4, <2>7, <2>8
  <2>11. ReadUInt(w) = full
    <3>1. full < Power(256, AmountWidth)
      <4>1. PICK p \in Nat \ {0} : /\ Power(256, AmountWidth - 2) = p
                                   /\ Power(256, AmountWidth) = 256 * (256 * p)
        BY Zenon, WidthFacts
      <4> QED BY <2>1, <4>1
    <3> QED BY <1>1, <2>1, <2>2, <3>1, IntIsRead
  <2>12. x - 97 = FullExponent(n)
    BY <2>1 DEF x
  <2>13. (~HasBit(first, 64)) = n.neg
    <3>1. n.neg \in BOOLEAN
      BY DEF IsCanonical
    <3> QED BY <2>6, <2>7, <3>1 DEF HasBit
  <2>14. Canonical(n.neg, full, FullExponent(n)) = n
    <3>1. n.neg \in BOOLEAN /\ n = [neg |-> n.neg, m |-> n.m, e |-> n.e]
      BY Zenon DEF IsCanonical
    <3> QED BY Zenon, <2>1, <3>1
  <2>15. b \in Seq(Byte) /\ Len(b) = AmountWidth
    BY <1>1, <2>9
  <2>16. (b[1] % 64) * 4 + b[2] \div 64 - 97 = FullExponent(n)
    BY <2>7, <2>9, <2>12
  <2>17. HasBit(b[1], 128) /\ (~HasBit(b[1], 64)) = n.neg
    BY Zenon, <2>7, <2>9, <2>13
  <2>18. ReadUInt([b EXCEPT ![1] = 0, ![2] = @ % 64]) = full
    BY Zenon, <2>10, <2>11
  <2>19. Canonical(~HasBit(b[1], 64), ReadUInt([b EXCEPT ![1] = 0, ![2] = @ % 64]),
                   (b[1] % 64) * 4 + b[2] \div 64 - 97) = n
    BY Zenon, <2>14, <2>16, <2>17, <2>18
  <2> QED BY Zenon, <2>15, <2>17, <2>19
<1> QED BY <1>2, <1>3

\* After what comes first there is what follows it.
LEMMA Second ==
  ASSUME NEW s \in Seq(Byte), NEW t \in Seq(Byte), NEW k \in 1..Len(t)
  PROVE  SubSeq(s \o t, Len(s) + 1, Len(s) + k) = SubSeq(t, 1, k)
<1>1. Len(s) \in Nat /\ Len(t) \in Nat
  OBVIOUS
<1>2. SubSeq(s \o t, Len(s) + 1, Len(s) + k) = SubSeq(t, Len(s) + 1 - Len(s), Len(s) + k - Len(s))
  BY <1>1, SubSeqOfConcat2
<1>3. Len(s) + 1 - Len(s) = 1 /\ Len(s) + k - Len(s) = k
  BY <1>1
<1> QED BY <1>2, <1>3

\* What amounts are, by their forms.
LEMMA AmountForms ==
  ASSUME NEW a
  PROVE  /\ (IsXRP(a) /\ ~IsMPT(a)) =>
              /\ AmountIsValid(a) => a.drops \in 0..MAX_DROPS
              /\ AmountFrom(a) = Or(WriteInt(a.drops, AmountWidth), 1, 64)
              /\ SameAmount(a) = a
         /\ (~IsXRP(a) /\ IsMPT(a)) =>
              /\ AmountIsValid(a) => a.value >= 0
              /\ AmountFrom(a) = (<<96>> \o WriteInt(a.value, AmountWidth)) \o a.mpt
              /\ SameAmount(a) = a
         /\ (~IsXRP(a) /\ ~IsMPT(a)) =>
              /\ AmountIsValid(a) => IouIsValid(Canonical(a.neg, a.m, a.e))
              /\ AmountFrom(a) = (IouBytes(Canonical(a.neg, a.m, a.e)) \o a.currency) \o a.issuer
              /\ SameAmount(a) = LET n == Canonical(a.neg, a.m, a.e)
                                 IN [neg |-> n.neg, m |-> n.m, e |-> n.e,
                                     currency |-> a.currency, issuer |-> a.issuer]
<1>1. CASE IsXRP(a) /\ ~IsMPT(a)
  <2>1. AmountIsValid(a) => a.drops \in 0..MAX_DROPS
    BY Zenon, <1>1 DEF AmountIsValid
  <2>2. AmountFrom(a) = Or(WriteInt(a.drops, AmountWidth), 1, 64)
    BY Zenon, <1>1 DEF AmountFrom
  <2>3. SameAmount(a) = a
    BY Zenon, <1>1 DEF SameAmount
  <2> QED BY Zenon, <1>1, <2>1, <2>2, <2>3
<1>2. CASE ~IsXRP(a) /\ IsMPT(a)
  <2>1. AmountIsValid(a) => a.value >= 0
    BY Zenon, <1>2 DEF AmountIsValid
  <2>2. AmountFrom(a) = (<<96>> \o WriteInt(a.value, AmountWidth)) \o a.mpt
    BY Zenon, <1>2 DEF AmountFrom
  <2>3. SameAmount(a) = a
    BY Zenon, <1>2 DEF SameAmount
  <2> QED BY Zenon, <1>2, <2>1, <2>2, <2>3
<1>3. CASE ~IsXRP(a) /\ ~IsMPT(a)
  <2>1. AmountIsValid(a) => IouIsValid(Canonical(a.neg, a.m, a.e))
    BY Zenon, <1>3 DEF AmountIsValid
  <2>2. AmountFrom(a) = (IouBytes(Canonical(a.neg, a.m, a.e)) \o a.currency) \o a.issuer
    BY Zenon, <1>3 DEF AmountFrom
  <2>3. SameAmount(a) = LET n == Canonical(a.neg, a.m, a.e)
                        IN [neg |-> n.neg, m |-> n.m, e |-> n.e,
                            currency |-> a.currency, issuer |-> a.issuer]
    BY Zenon, <1>3 DEF SameAmount
  <2> QED BY Zenon, <1>3, <2>1, <2>2, <2>3
<1>4. CASE IsXRP(a) /\ IsMPT(a)
  BY Zenon, <1>4
<1> QED BY Zenon, <1>1, <1>2, <1>3, <1>4

\* A valid amount is read as what it was, from as many bytes as were written.
AmountRead(a) ==
  /\ AmountFrom(a) \in Seq(Byte) /\ Len(AmountFrom(a)) >= 1
  /\ AmountIsKept(a, AmountFrom(a))
  /\ SameAmount(AmountToJSON(AmountFrom(a))) = SameAmount(a)

\* ... of drops.
LEMMA DropsRead ==
  ASSUME NEW a, IsXRP(a), a = [drops |-> a.drops], AmountIsValid(a)
  PROVE  AmountRead(a)
<1>1. ~IsMPT(a)
  BY DEF IsMPT
<1>2. PICK d \in Nat : d = a.drops /\ d <= MAX_DROPS
  <2>1. a.drops \in 0..MAX_DROPS
    BY Zenon, <1>1, AmountForms
  <2>2. PICK d : d = a.drops
    OBVIOUS
  <2>3. d \in 0..MAX_DROPS /\ MAX_DROPS \in Int
    BY ONLY <2>1, <2>2, LeavesAssumption
  <2> QED BY <2>2, <2>3
<1>3. AmountWidth \in Nat /\ AmountWidth >= 2 /\ 1 \in 1..AmountWidth
  BY WidthFacts
<1>4. PICK w : w = WriteInt(d, AmountWidth)
  OBVIOUS
<1>5. PICK p \in Nat \ {0} : /\ Power(256, AmountWidth - 1) = 256 * p
                             /\ Power(256, AmountWidth) = 256 * (256 * p)
  BY Zenon, WidthFacts
<1>6. d < 32 * Power(256, AmountWidth - 1) /\ d < Power(256, AmountWidth)
  BY <1>2, <1>5, LeavesAssumption
<1>7. w \in [1..AmountWidth -> Byte] /\ w[1] \in 0..31
  <2>1. 32 \in 0..256
    OBVIOUS
  <2>2. w \in [1..AmountWidth -> Byte] /\ w[1] \in 0..(32 - 1)
    BY Zenon, <1>4, <1>6, <2>1, AmountBytes
  <2> QED BY <2>2
<1>8. PICK b : b = AmountFrom(a)
  OBVIOUS
<1>9. b = [j \in 1..AmountWidth |-> IF j = 1 THEN w[j] + 64 ELSE w[j]]
  <2>1. b = Or(w, 1, 64)
    BY Zenon, <1>1, <1>2, <1>4, <1>8, AmountForms
  <2> QED BY <1>7, <2>1 DEF Or
<1>10. b[1] = w[1] + 64 /\ b \in [1..AmountWidth -> Byte]
  <2>1. b[1] = w[1] + 64
    BY <1>3, <1>9
  <2>2. w[1] + 64 \in Byte
    <3>1. PICK low \in 0..31 : low = w[1]
      BY <1>7
    <3>2. low + 64 \in Byte
      BY DEF Byte
    <3> QED BY <3>1, <3>2
  <2>3. \A j \in 1..AmountWidth : w[j] \in Byte
    BY <1>7
  <2> QED BY <1>9, <2>1, <2>2, <2>3
<1>11. b \in Seq(Byte) /\ Len(b) = AmountWidth
  BY <1>3, <1>10
<1>12. ~HasBit(b[1], 128) /\ ~HasBit(b[1], 32) /\ HasBit(b[1], 64) /\ b[1] % 64 = w[1]
  <2>1. PICK first, low : low = w[1] /\ first = low + 64
    OBVIOUS
  <2>2. low \in 0..31
    BY <1>7, <2>1
  <2>3. first \div 128 = 0 /\ first \div 32 = 2 /\ first \div 64 = 1 /\ first % 64 = low
    BY <2>1, <2>2
  <2> QED BY <1>10, <2>1, <2>3 DEF HasBit
<1>13. [b EXCEPT ![1] = @ % 64] = w
  BY <1>3, <1>7, <1>9, <1>10, <1>12
<1>14. ReadUInt(w) = d
  BY <1>2, <1>3, <1>4, <1>6, IntIsRead
<1>15. AmountToJSON(b) = [drops |-> 1 * ReadUInt([b EXCEPT ![1] = @ % 64])]
  BY <1>12 DEF AmountToJSON
<1>16. AmountToJSON(b) = a
  <2>1. 1 * d = d
    BY <1>2
  <2> QED BY <1>2, <1>13, <1>14, <1>15, <2>1
<1>17. SameAmount(a) = a
  BY DEF SameAmount
<1>18. AmountLength(b[1]) = AmountWidth
  BY <1>12 DEF AmountLength
<1> QED BY <1>3, <1>8, <1>11, <1>16, <1>17, <1>18 DEF AmountRead, AmountIsKept

\* ... of a token with an id.
LEMMA TokensRead ==
  ASSUME NEW a, IsMPT(a), a = [value |-> a.value, mpt |-> a.mpt], a.value \in Int, a.mpt \in Names,
         AmountIsValid(a), ~Wraps(a)
  PROVE  AmountRead(a)
<1>1. ~IsXRP(a)
  BY DEF IsXRP
<1>2. PICK d \in Nat : d = a.value
  <2>1. a.value >= 0
    BY Zenon, <1>1, AmountForms
  <2> QED BY <2>1
<1>3. AmountWidth \in Nat /\ AmountWidth >= 2
  BY WidthFacts
<1>4. PICK w : w = WriteInt(d, AmountWidth)
  OBVIOUS
<1>5. d < Power(256, AmountWidth)
  <2>1. PICK p \in Nat \ {0} : Power(256, AmountWidth) = 256 * (256 * p)
    BY Zenon, WidthFacts
  <2> QED BY <1>2, <2>1 DEF Wraps
<1>6. w \in Seq(Byte) /\ Len(w) = AmountWidth
  BY Zenon, <1>4, AmountBytes
<1>7. ReadUInt(w) = d
  BY <1>3, <1>4, <1>5, IntIsRead
<1>8. PICK one \in Bytes, mpt \in Bytes :
        one = <<96>> /\ mpt = a.mpt /\ Len(one) = 1 /\ one[1] = 96 /\ Len(mpt) = 1
  <2>1. PICK c \in Byte : a.mpt = <<c>>
    BY Zenon DEF Names
  <2>2. 96 \in Byte
    BY DEF Byte
  <2> QED BY Zenon, <2>1, <2>2, OneByte
<1>9. PICK f, b : f = one \o w /\ b = f \o mpt
  OBVIOUS
<1>10. b = AmountFrom(a)
  BY Zenon, <1>1, <1>2, <1>4, <1>8, <1>9, AmountForms
<1>11. w \in Bytes
  BY <1>6 DEF Bytes
<1>12. /\ f \in Bytes /\ Len(f) = 1 + AmountWidth
       /\ Skip(f, 1) = w /\ f[1] = one[1]
       /\ \A i \in 2 .. AmountWidth + 1 : f[i] = w[i - 1]
  <2>1. f \in Bytes /\ Len(f) = Len(one) + Len(w)
    BY Zenon, <1>8, <1>9, <1>11, JoinedBytes
  <2>2. one \in Seq(Byte) /\ w \in Seq(Byte)
    BY Zenon, <1>6, <1>8 DEF Bytes
  <2>3. f[1] = one[1] /\ Skip(f, 1) = w
    BY Zenon, <1>8, <1>9, <2>2, Heads
  <2>4. \A i \in 1 .. Len(one) + Len(w) : f[i] = IF i <= Len(one) THEN one[i] ELSE w[i - Len(one)]
    BY Zenon, <1>9, <2>2, ConcatProperties
  <2> QED BY <1>3, <1>6, <1>8, <2>1, <2>3, <2>4
<1>13. b \in Bytes /\ Len(b) = 1 + AmountWidth + 1
  <2>1. b \in Bytes /\ Len(b) = Len(f) + Len(mpt)
    BY Zenon, <1>8, <1>9, <1>12, JoinedBytes
  <2> QED BY <1>8, <1>12, <2>1
<1>14. Skip(b, AmountWidth + 1) = mpt /\ \A i \in 1 .. 1 + AmountWidth : b[i] = f[i]
  <2>1. f \in Seq(Byte) /\ mpt \in Seq(Byte)
    BY Zenon, <1>8, <1>12 DEF Bytes
  <2>2. Skip(b, Len(f)) = mpt /\ \A i \in 1..Len(f) : b[i] = f[i]
    BY Zenon, <1>9, <2>1, BytesSplit
  <2>3. 1 + AmountWidth = AmountWidth + 1
    BY <1>3
  <2> QED BY Zenon, <1>12, <2>2, <2>3
<1>15. SubSeq(b, 2, AmountWidth + 1) = w
  <2>1. PICK t : t = w \o mpt
    OBVIOUS
  <2>2. t \in Bytes /\ Len(t) = AmountWidth + 1
    <3>1. t \in Bytes /\ Len(t) = Len(w) + Len(mpt)
      BY Zenon, <1>8, <1>11, <2>1, JoinedBytes
    <3> QED BY <1>6, <1>8, <3>1
  <2>3. b = one \o t
    <3>1. (one \o w) \o mpt = one \o (w \o mpt)
      BY Zenon, <1>11, Associative
    <3> QED BY Zenon, <1>9, <2>1, <3>1
  <2>4. one \in Seq(Byte) /\ t \in Seq(Byte) /\ mpt \in Seq(Byte)
    BY Zenon, <1>8, <2>2 DEF Bytes
  <2>5. PICK k \in Int : k = AmountWidth + 1
    BY <1>3
  <2>6. SubSeq(one \o t, Len(one) + 1, Len(one) + Len(w)) = SubSeq(t, 1, Len(w))
    <3>1. Len(w) \in 1..Len(t)
      BY <1>3, <1>6, <2>2
    <3> QED BY Zenon, <2>4, <3>1, Second
  <2>7. Len(one) + 1 = 2 /\ Len(one) + Len(w) = k
    BY <1>3, <1>6, <1>8, <2>5
  <2>8. SubSeq(t, 1, Len(w)) = w
    BY Zenon, <1>6, <2>1, <2>4, BytesSplit
  <2> QED BY Zenon, <2>3, <2>5, <2>6, <2>7, <2>8
<1>16. b[1] = 96
  <2>1. 1 \in 1 .. 1 + AmountWidth
    BY <1>3
  <2> QED BY <1>8, <1>12, <1>14, <2>1
<1>17. ~HasBit(b[1], 128) /\ HasBit(b[1], 32) /\ HasBit(b[1], 64)
  BY <1>16 DEF HasBit
<1>18. AmountToJSON(b) = [value |-> 1 * ReadUInt(SubSeq(b, 2, AmountWidth + 1)), mpt |-> Skip(b, AmountWidth + 1)]
  BY <1>17 DEF AmountToJSON
<1>19. AmountToJSON(b) = a
  <2>1. 1 * d = d
    BY <1>2
  <2> QED BY <1>2, <1>7, <1>8, <1>14, <1>15, <1>18, <2>1
<1>20. SameAmount(a) = a
  BY DEF SameAmount
<1>21. AmountLength(b[1]) = 1 + AmountWidth + 1
  BY <1>17 DEF AmountLength
<1>22. b \in Seq(Byte) /\ Len(b) >= 1
  <2>1. b \in Seq(Byte)
    BY Zenon, <1>13 DEF Bytes
  <2> QED BY <1>3, <1>13, <2>1
<1>23. AmountIsKept(a, b)
  BY Zenon, <1>13, <1>19, <1>20, <1>21 DEF AmountIsKept
<1>24. SameAmount(AmountToJSON(b)) = SameAmount(a)
  BY Zenon, <1>19
<1> QED BY Zenon, <1>10, <1>22, <1>23, <1>24 DEF AmountRead

\* ... of an issuer's currency.
LEMMA IousRead ==
  ASSUME NEW a, a \in [neg : BOOLEAN, m : Nat, e : Int, currency : Names, issuer : Names],
         AmountIsValid(a)
  PROVE  AmountRead(a)
<1>1. ~IsXRP(a) /\ ~IsMPT(a)
  BY DEF IsXRP, IsMPT
<1>2. PICK n : n = Canonical(a.neg, a.m, a.e)
  OBVIOUS
<1>3. IsCanonical(n)
  <2>1. a.neg \in BOOLEAN /\ a.m \in Nat /\ a.e \in Int
    OBVIOUS
  <2> QED BY Zenon, <1>2, <2>1, CanonicalIs
<1>4. IouIsValid(n)
  BY Zenon, <1>1, <1>2, AmountForms
<1>5. PICK i : i = IouBytes(n)
  OBVIOUS
<1>6. /\ i \in Seq(Byte) /\ Len(i) = AmountWidth /\ HasBit(i[1], 128)
      /\ Canonical(~HasBit(i[1], 64), ReadUInt([i EXCEPT ![1] = 0, ![2] = @ % 64]),
                   (i[1] % 64) * 4 + i[2] \div 64 - 97) = n
  BY Zenon, <1>3, <1>4, <1>5, IouRead
<1>7. PICK cur \in Byte, iss \in Byte : a.currency = <<cur>> /\ a.issuer = <<iss>>
  BY DEF Names
<1>8. PICK f, b : f = i \o <<cur>> /\ b = f \o <<iss>>
  OBVIOUS
<1>9. b = AmountFrom(a)
  <2>1. AmountFrom(a) = (IouBytes(n) \o a.currency) \o a.issuer
    BY Zenon, <1>1, <1>2, AmountForms
  <2> QED BY Zenon, <1>5, <1>7, <1>8, <2>1
<1>10. AmountWidth \in Nat /\ AmountWidth >= 2 /\ 1 \in 1..AmountWidth /\ 2 \in 1..AmountWidth
  BY WidthFacts
<1>11. /\ f \in Seq(Byte) /\ Len(f) = AmountWidth + 1 /\ f[AmountWidth + 1] = cur
       /\ SubSeq(f, 1, AmountWidth) = i
       /\ \A j \in 1..AmountWidth : f[j] = i[j]
  <2>1. <<cur>> \in Seq(Byte) /\ Len(<<cur>>) = 1 /\ <<cur>>[1] = cur
    BY Zenon, OneByte DEF Bytes
  <2>2. /\ f \in Seq(Byte) /\ Len(f) = Len(i) + Len(<<cur>>)
        /\ \A j \in 1 .. Len(i) + Len(<<cur>>) : f[j] = IF j <= Len(i) THEN i[j] ELSE <<cur>>[j - Len(i)]
    BY Zenon, <1>6, <1>8, <2>1, ConcatProperties
  <2>3. SubSeq(f, 1, Len(i)) = i
    BY Zenon, <1>6, <1>8, <2>1, BytesSplit
  <2>4. /\ AmountWidth + 1 \in 1 .. AmountWidth + 1 /\ ~(AmountWidth + 1 <= AmountWidth)
        /\ AmountWidth + 1 - AmountWidth = 1
    BY <1>10
  <2> QED BY <1>6, <1>10, <2>1, <2>2, <2>3, <2>4
<1>12. /\ b \in Seq(Byte) /\ Len(b) = AmountWidth + 2 /\ b[AmountWidth + 2] = iss
       /\ \A j \in 1 .. AmountWidth + 1 : b[j] = f[j]
  <2>1. <<iss>> \in Seq(Byte) /\ Len(<<iss>>) = 1 /\ <<iss>>[1] = iss
    BY Zenon, OneByte DEF Bytes
  <2>2. /\ b \in Seq(Byte) /\ Len(b) = Len(f) + Len(<<iss>>)
        /\ \A j \in 1 .. Len(f) + Len(<<iss>>) : b[j] = IF j <= Len(f) THEN f[j] ELSE <<iss>>[j - Len(f)]
    <3>1. PICK y \in Seq(Byte) : y = <<iss>>
      BY Zenon, <2>1
    <3>2. f \in Seq(Byte)
      BY Zenon, <1>11
    <3>3. /\ f \o y \in Seq(Byte) /\ Len(f \o y) = Len(f) + Len(y)
          /\ \A j \in 1 .. Len(f) + Len(y) : (f \o y)[j] = IF j <= Len(f) THEN f[j] ELSE y[j - Len(f)]
      BY Zenon, <3>2, ConcatProperties
    <3> QED BY Zenon, <1>8, <3>1, <3>3
  <2>3. /\ AmountWidth + 2 \in 1 .. AmountWidth + 1 + 1 /\ ~(AmountWidth + 2 <= AmountWidth + 1)
        /\ AmountWidth + 2 - (AmountWidth + 1) = 1
    BY <1>10
  <2> QED BY <1>10, <1>11, <2>1, <2>2, <2>3
<1>13. SubSeq(b, 1, AmountWidth) = i
  <2>1. PICK t : t = <<cur>> \o <<iss>>
    OBVIOUS
  <2>2. <<cur>> \in Bytes /\ <<iss>> \in Bytes /\ i \in Bytes
    BY Zenon, <1>6, OneByte DEF Bytes
  <2>3. t \in Bytes
    BY Zenon, <2>1, <2>2, JoinedBytes
  <2>4. b = i \o t
    <3>1. PICK x \in Bytes, y \in Bytes : x = <<cur>> /\ y = <<iss>>
      BY Zenon, <2>2
    <3>2. (i \o x) \o y = i \o (x \o y)
      BY Zenon, <2>2, Associative
    <3> QED BY Zenon, <1>8, <2>1, <3>1, <3>2
  <2>5. i \in Seq(Byte) /\ t \in Seq(Byte)
    BY Zenon, <2>2, <2>3 DEF Bytes
  <2> QED BY Zenon, <1>6, <2>4, <2>5, BytesSplit
<1>14. b[1] = i[1] /\ b[2] = i[2] /\ b[AmountWidth + 1] = cur /\ b[AmountWidth + 2] = iss
  <2>1. 1 \in 1 .. AmountWidth + 1 /\ 2 \in 1 .. AmountWidth + 1 /\ AmountWidth + 1 \in 1 .. AmountWidth + 1
    BY <1>10
  <2> QED BY <1>10, <1>11, <1>12, <2>1
<1>15. AmountToJSON(b) = [neg |-> n.neg, m |-> n.m, e |-> n.e, currency |-> <<cur>>, issuer |-> <<iss>>]
  <2>1. HasBit(b[1], 128)
    BY Zenon, <1>6, <1>14
  <2>2. AmountToJSON(b) = IouToJSON(b)
    BY Zenon, <2>1 DEF AmountToJSON
  <2>3. Canonical(~HasBit(b[1], 64), ReadUInt([SubSeq(b, 1, AmountWidth) EXCEPT ![1] = 0, ![2] = @ % 64]),
                  (b[1] % 64) * 4 + b[2] \div 64 - 97) = n
    BY Zenon, <1>6, <1>13, <1>14
  <2>4. IouToJSON(b) = [neg |-> n.neg, m |-> n.m, e |-> n.e,
                        currency |-> <<b[AmountWidth + 1]>>, issuer |-> <<b[AmountWidth + 2]>>]
    BY Zenon, <2>3 DEF IouToJSON
  <2> QED BY Zenon, <1>14, <2>2, <2>4
<1>16. PICK read : read = AmountToJSON(b)
  OBVIOUS
<1>17. SameAmount(a) = read
  <2>1. SameAmount(a) = LET k == Canonical(a.neg, a.m, a.e)
                        IN [neg |-> k.neg, m |-> k.m, e |-> k.e, currency |-> a.currency, issuer |-> a.issuer]
    BY Zenon, <1>1, AmountForms
  <2> QED BY Zenon, <1>2, <1>7, <1>15, <1>16, <2>1
<1>18. SameAmount(read) = read
  <2>1. ~IsXRP(read) /\ ~IsMPT(read)
    BY <1>15, <1>16 DEF IsXRP, IsMPT
  <2>2. /\ read.neg = n.neg /\ read.m = n.m /\ read.e = n.e
        /\ read.currency = <<cur>> /\ read.issuer = <<iss>>
    BY <1>15, <1>16
  <2>3. Canonical(n.neg, n.m, n.e) = n
    BY <1>3, CanonicalAgain
  <2>4. SameAmount(read)
          = LET k == Canonical(read.neg, read.m, read.e)
            IN [neg |-> k.neg, m |-> k.m, e |-> k.e, currency |-> read.currency, issuer |-> read.issuer]
    BY Zenon, <2>1, AmountForms
  <2>5. SameAmount(read)
          = [neg |-> n.neg, m |-> n.m, e |-> n.e, currency |-> <<cur>>, issuer |-> <<iss>>]
    BY Zenon, <2>2, <2>3, <2>4
  <2> QED BY Zenon, <1>15, <1>16, <2>5
<1>19. AmountLength(b[1]) = Len(b)
  <2>1. HasBit(b[1], 128)
    BY Zenon, <1>6, <1>14
  <2>2. AmountLength(b[1]) = AmountWidth + 2
    BY Zenon, <2>1 DEF AmountLength
  <2> QED BY <1>12, <2>2
<1>20. b \in Seq(Byte) /\ Len(b) >= 1
  BY <1>10, <1>12
<1>21. AmountIsKept(a, b)
  BY Zenon, <1>16, <1>17, <1>19 DEF AmountIsKept
<1>22. SameAmount(AmountToJSON(b)) = SameAmount(a)
  BY Zenon, <1>16, <1>17, <1>18
<1> QED BY Zenon, <1>9, <1>20, <1>21, <1>22 DEF AmountRead

\* Every valid amount is read as what it was.
LEMMA AmountsAreRead ==
  ASSUME NEW a, IsAmount(a), AmountIsValid(a), ~Wraps(a)
  PROVE  AmountRead(a)
<1>1. CASE IsXRP(a) /\ a = [drops |-> a.drops]
  BY Zenon, <1>1, DropsRead
<1>2. CASE IsMPT(a) /\ a = [value |-> a.value, mpt |-> a.mpt] /\ a.value \in Int /\ a.mpt \in Names
  BY Zenon, <1>2, TokensRead
<1>3. CASE a \in [neg : BOOLEAN, m : Nat, e : Int, currency : Names, issuer : Names]
  BY Zenon, <1>3, IousRead
<1> QED BY Zenon, <1>1, <1>2, <1>3 DEF IsAmount

\* What has no first byte to speak of has one byte less.
LEMMA TailOfInt ==
  ASSUME NEW n \in Nat, NEW k \in Nat
  PROVE  Tail(WriteInt(n, k + 1)) = WriteInt(n, k)
<1>1. PICK w, v : w = WriteInt(n, k + 1) /\ v = WriteInt(n, k)
  OBVIOUS
<1>2. k + 1 \in Nat
  OBVIOUS
<1>3. w \in Seq(Byte) /\ Len(w) = k + 1 /\ v \in Seq(Byte) /\ Len(v) = k
  BY Zenon, <1>1, <1>2, BytesOfInt
<1>4. w # <<>>
  BY <1>3
<1>5. /\ Tail(w) \in Seq(Byte) /\ Len(Tail(w)) = Len(w) - 1
      /\ \A i \in 1..Len(Tail(w)) : Tail(w)[i] = w[i + 1]
  BY <1>3, <1>4, HeadTailProperties
<1>6. ASSUME NEW i \in 1..k PROVE w[i + 1] = v[i]
  <2>1. i + 1 \in 1 .. k + 1 /\ k + 1 - (i + 1) = k - i
    OBVIOUS
  <2>2. w[i + 1] = (n \div Power(256, k + 1 - (i + 1))) % 256
    BY <1>1, <2>1 DEF WriteInt
  <2>3. v[i] = (n \div Power(256, k - i)) % 256
    BY <1>1 DEF WriteInt
  <2> QED BY <2>1, <2>2, <2>3
<1>7. Len(Tail(w)) = Len(v) /\ \A i \in 1..Len(Tail(w)) : Tail(w)[i] = v[i]
  BY <1>3, <1>5, <1>6
<1>8. Tail(w) = v
  BY <1>3, <1>5, <1>7, SeqEqual
<1> QED BY <1>1, <1>8

\* The quality that a number may be is read as that number.
LEMMA QualitiesAreRead ==
  ASSUME NEW n, IsCanonical(n), IouIsValid(n)
  PROVE  QualityIsKept(n)
<1> SUFFICES ASSUME n.m # 0, ~n.neg PROVE QualityDecoded(QualityOf(n)) = n
  BY Zenon DEF QualityIsKept
<1> DEFINE full == n.m * Power(10, MAX_IOU_PRECISION - Size(n.m))
<1>1. /\ full \in Nat /\ full < 64 * Power(256, AmountWidth - 2)
      /\ FullExponent(n) \in Int /\ 100 + FullExponent(n) \in 1..255
      /\ \A neg \in BOOLEAN :
           Canonical(neg, full, FullExponent(n)) = [neg |-> neg, m |-> n.m, e |-> n.e]
  BY Zenon, FullIsSame
<1>2. PICK k \in Nat : k = AmountWidth - 1
  BY WidthFacts
<1>3. AmountWidth = k + 1
  BY <1>2, WidthFacts
<1>4. PICK x : x = (FullExponent(n) + 100) % 256
  OBVIOUS
<1>5. x \in Byte /\ x - 100 = FullExponent(n)
  <2>1. PICK y \in Int : y = FullExponent(n) /\ y + 100 \in 1..255
    BY <1>1
  <2>2. (y + 100) % 256 = y + 100
    BY <2>1
  <2> QED BY <1>4, <2>1, <2>2 DEF Byte
<1>6. PICK t : t = WriteInt(full, k)
  OBVIOUS
<1> HIDE DEF full
<1>7. Tail(WriteInt(full, k + 1)) = t
  BY Zenon, <1>1, <1>2, <1>6, TailOfInt
<1>8. QualityOf(n) = <<x>> \o t
  <2>1. QualityOf(n) = <<x>> \o Tail(WriteInt(full, AmountWidth))
    BY Zenon, <1>4 DEF QualityOf, full
  <2> QED BY Zenon, <1>3, <1>7, <2>1
<1>9. t \in Seq(Byte)
  BY Zenon, <1>1, <1>2, <1>6, BytesOfInt
<1>10. PICK b : b = <<x>> \o t
  OBVIOUS
<1>11. b[1] = x /\ Tail(b) = t
  BY <1>5, <1>9, <1>10
<1>12. ReadUInt(t) = full
  <2>1. full < Power(256, k)
    <3>1. PICK p \in Nat \ {0} : Power(256, AmountWidth - 2) = p /\ Power(256, AmountWidth - 1) = 256 * p
      BY Zenon, WidthFacts
    <3> QED BY <1>1, <1>2, <3>1
  <2> QED BY <1>1, <1>6, <2>1, IntIsRead
<1>13. FALSE \in BOOLEAN /\ n = [neg |-> FALSE, m |-> n.m, e |-> n.e]
  <2>1. n = [neg |-> n.neg, m |-> n.m, e |-> n.e] /\ n.neg \in BOOLEAN
    BY Zenon DEF IsCanonical
  <2>2. n.neg = FALSE
    BY Zenon, <2>1
  <2> QED BY Zenon, <2>1, <2>2
<1>14. QualityDecoded(b) = Canonical(FALSE, full, FullExponent(n))
  BY Zenon, <1>5, <1>11, <1>12 DEF QualityDecoded
<1> QED BY Zenon, <1>1, <1>8, <1>10, <1>13, <1>14

\* What is tried by itself is a number or an amount.
IsTaken(l) ==
  l = <<>> \/ (\E text \in NumberTexts : l = [number |-> text]) \/ (\E a \in Amounts : l = [amount |-> a])

\* An amount by itself is read as what it was, and so is the quality that it may be.
LEMMA TakenAmountRead ==
  ASSUME IsTaken(leaf)
  PROVE  AmountsAreKept
<1> SUFFICES ASSUME "amount" \in DOMAIN leaf, AmountIsValid(leaf.amount), ~Wraps(leaf.amount)
             PROVE  /\ AmountIsKept(leaf.amount, AmountFrom(leaf.amount))
                    /\ "issuer" \in DOMAIN leaf.amount =>
                         QualityIsKept(Canonical(leaf.amount.neg, leaf.amount.m, leaf.amount.e))
  BY Zenon DEF AmountsAreKept
<1>1. PICK a \in Amounts : leaf = [amount |-> a]
  BY DEF IsTaken
<1>2. a = leaf.amount
  BY <1>1
<1>3. IsAmount(a) /\ AmountIsValid(a) /\ ~Wraps(a)
  BY Zenon, <1>2, AmountsAssumption
<1>4. AmountIsKept(a, AmountFrom(a))
  BY Zenon, <1>3, AmountsAreRead DEF AmountRead
<1>5. ASSUME "issuer" \in DOMAIN a PROVE QualityIsKept(Canonical(a.neg, a.m, a.e))
  <2>1. a \in [neg : BOOLEAN, m : Nat, e : Int, currency : Names, issuer : Names]
    <3>1. ~(a = [drops |-> a.drops]) /\ ~(a = [value |-> a.value, mpt |-> a.mpt])
      BY <1>5
    <3> QED BY Zenon, <1>3, <3>1 DEF IsAmount
  <2>2. ~IsXRP(a) /\ ~IsMPT(a)
    BY <2>1 DEF IsXRP, IsMPT
  <2>3. IouIsValid(Canonical(a.neg, a.m, a.e))
    BY Zenon, <1>3, <2>2, AmountForms
  <2>4. a.neg \in BOOLEAN /\ a.m \in Nat /\ a.e \in Int
    BY <2>1
  <2>5. IsCanonical(Canonical(a.neg, a.m, a.e))
    BY Zenon, <2>4, CanonicalIs
  <2> QED BY Zenon, <2>3, <2>5, QualitiesAreRead
<1> QED BY Zenon, <1>2, <1>4, <1>5

\* Nothing else is tried by itself.
LEMMA LeavesAreTaken == CodecSpec => []IsTaken(leaf)
<1>1. CodecInit => IsTaken(leaf)
  BY DEF CodecInit, LeafInit, IsTaken
<1>2. IsTaken(leaf) /\ [CodecNext]_codecVars => IsTaken(leaf)'
  <2> SUFFICES ASSUME IsTaken(leaf), [CodecNext]_codecVars PROVE IsTaken(leaf)'
    OBVIOUS
  <2>1. CASE TakeNumber
    BY <2>1 DEF TakeNumber, IsTaken
  <2>2. CASE TakeAmount
    BY <2>2 DEF TakeAmount, IsTaken
  <2>3. CASE UNCHANGED leaf
    BY <2>3 DEF IsTaken
  <2> QED BY <2>1, <2>2, <2>3 DEF CodecNext, codecVars, SetField
<1> QED BY <1>1, <1>2, PTL DEF CodecSpec

-----------------------------------------------------------------------------
(* Leaves.                                                                 *)

\* Every valid leaf is read back, and says what it said.
LEMMA LeafReadsBack ==
  ASSUME NEW n \in FieldNames \ Nested, NEW v, LeafIsValid(n, v)
  PROVE  /\ ReadsBack(n, LeafFrom(n, v))
         /\ Meaning(n, LeafToJSON(n, LeafFrom(n, v))) = Meaning(n, v)
         /\ Definitions[n].type \notin {AMOUNT, NUMBER} => LeafToJSON(n, LeafFrom(n, v)) = v
<1>1. PICK type : type = Definitions[n].type
  OBVIOUS
<1>2. PICK b : b = LeafFrom(n, v)
  OBVIOUS
<1>3. /\ b \in Seq(Byte)
      /\ IF Definitions[n].vl THEN Len(b) <= MaxLength ELSE b # <<>>
      /\ type = UINT32 => Len(b) = 4
      /\ type = AMOUNT => IsAmount(v) /\ AmountIsValid(v) /\ ~Wraps(v)
      /\ type = NUMBER => /\ Meaning(n, LeafToJSON(n, b)) = Meaning(n, v)
                         /\ Len(b) = Width(type, b)
      /\ type = PATHSET => IsPathSet(v)
      /\ type = ISSUE => IsIssue(v)
      /\ (~Definitions[n].vl /\ type \notin {UINT32, AMOUNT, NUMBER, PATHSET, ISSUE}) => Len(b) = 1
  BY Zenon, <1>1, <1>2 DEF LeafIsValid
<1>4. b \in Bytes
  BY <1>3 DEF Bytes
<1>5. Definitions[n].vl \in BOOLEAN
  BY CodecAssumption
<1>6. ASSUME type = PATHSET
      PROVE  /\ \A rest \in Bytes : Width(type, b \o rest) = Len(b)
             /\ LeafToJSON(n, b) = v
  <2>1. IsPathSet(v) /\ b = PathSetFrom(v)
    BY <1>1, <1>2, <1>3, <1>6, LeafForms
  <2>2. \A rest \in Bytes : ReadPathSet(b \o rest) = Got(v, rest)
    BY <2>1, PathSetRead
  <2>3. ASSUME NEW rest \in Bytes PROVE Width(type, b \o rest) = Len(b)
    <3>1. ReadPathSet(b \o rest).rest = rest
      BY <2>2 DEF Got
    <3>2. PICK y : y = b \o rest
      OBVIOUS
    <3>3. Width(PATHSET, y) = Len(y) - Len(ReadPathSet(y).rest)
      BY Widths
    <3>4. Len(y) = Len(b) + Len(rest) /\ Len(b) \in Nat /\ Len(rest) \in Nat
      BY <1>4, <3>2, JoinedBytes
    <3> QED BY <1>6, <3>1, <3>2, <3>3, <3>4
  <2>4. ReadPathSet(b).value = v
    <3>1. b \o <<>> = b /\ <<>> \in Bytes
      BY <1>4, EmptyIsBytes
    <3>2. ReadPathSet(b) = Got(v, <<>>)
      BY <2>2, <3>1
    <3> QED BY <3>2 DEF Got
  <2>5. LeafToJSON(n, b) = ReadPathSet(b).value
    BY <1>1, <1>6, LeafForms
  <2> QED BY <2>3, <2>4, <2>5
<1>7. ASSUME type = ISSUE
      PROVE  /\ \A rest \in Bytes : Width(type, b \o rest) = Len(b)
             /\ LeafToJSON(n, b) = v
  <2>1. IsIssue(v) /\ b = IssueFrom(v)
    BY <1>1, <1>2, <1>3, <1>7, LeafForms
  <2>2. IssueToJSON(b) = v /\ \A rest \in Bytes : IssueLength(b \o rest) = Len(b)
    BY <2>1, IssueRead
  <2>3. ASSUME NEW rest \in Bytes PROVE Width(type, b \o rest) = Len(b)
    <3>1. Width(ISSUE, b \o rest) = IssueLength(b \o rest)
      BY Widths
    <3> QED BY <1>7, <2>2, <3>1
  <2>4. LeafToJSON(n, b) = IssueToJSON(b)
    BY <1>1, <1>7, LeafForms
  <2> QED BY <2>2, <2>3, <2>4
<1>8. ASSUME type = AMOUNT
      PROVE  /\ \A rest \in Bytes : Width(type, b \o rest) = Len(b)
             /\ Meaning(n, LeafToJSON(n, b)) = Meaning(n, v)
  <2>1. AmountRead(v) /\ b = AmountFrom(v)
    <3>1. IsAmount(v) /\ AmountIsValid(v) /\ ~Wraps(v)
      BY <1>3, <1>8
    <3>2. b = AmountFrom(v)
      BY <1>1, <1>2, <1>8, LeafForms
    <3> QED BY Zenon, <3>1, <3>2, AmountsAreRead
  <2>2. Len(b) >= 1 /\ AmountLength(b[1]) = Len(b) /\ SameAmount(AmountToJSON(b)) = SameAmount(v)
    BY Zenon, <2>1 DEF AmountRead, AmountIsKept
  <2>3. ASSUME NEW rest \in Bytes PROVE Width(type, b \o rest) = Len(b)
    <3>1. Width(AMOUNT, b \o rest) = AmountLength((b \o rest)[1])
      BY Widths
    <3>2. (b \o rest)[1] = b[1]
      <4>1. 1 \in 1..Len(b)
        BY <1>3, <2>2
      <4> QED BY <1>3, <4>1, BytesSplit DEF Bytes
    <3> QED BY Zenon, <1>8, <2>2, <3>1, <3>2
  <2>4. PICK json : json = LeafToJSON(n, b)
    OBVIOUS
  <2>5. json = AmountToJSON(b)
    BY <1>1, <1>8, <2>4, LeafForms
  <2>6. Meaning(n, json) = SameAmount(json) /\ Meaning(n, v) = SameAmount(v)
    BY <1>1, <1>8, LeafForms
  <2>7. Meaning(n, json) = Meaning(n, v)
    BY Zenon, <2>2, <2>5, <2>6
  <2> QED BY Zenon, <2>3, <2>4, <2>7
<1>9. ASSUME ~Definitions[n].vl, NEW rest \in Bytes PROVE Width(type, b \o rest) = Len(b)
  <2>1. CASE type = UINT32
    BY <1>3, <2>1, Widths
  <2>2. CASE type = NUMBER
    <3>1. Width(NUMBER, b) = 2 * IntWidth /\ Width(NUMBER, b \o rest) = 2 * IntWidth
      BY Widths
    <3> QED BY <1>3, <2>2, <3>1
  <2>3. CASE type \notin {UINT32, AMOUNT, NUMBER, PATHSET, ISSUE}
    <3>1. Width(type, b \o rest) = 1
      BY <2>3, Widths
    <3> QED BY <1>3, <1>9, <2>3, <3>1
  <2> QED BY <1>3, <1>6, <1>7, <1>8, <1>9, <2>1, <2>2, <2>3
<1>10. ReadsBack(n, b)
  BY <1>1, <1>3, <1>4, <1>5, <1>9, LeafRead
<1>11. type \notin {AMOUNT, NUMBER} => LeafToJSON(n, b) = v
  <2>1. ASSUME type \notin {AMOUNT, NUMBER, PATHSET, ISSUE} PROVE LeafToJSON(n, b) = v
    <3>1. LeafFrom(n, v) = v /\ LeafToJSON(n, b) = b
      BY <1>1, <2>1, LeafForms
    <3> QED BY <1>2, <3>1
  <2> QED BY <1>6, <1>7, <2>1
<1>12. Meaning(n, LeafToJSON(n, b)) = Meaning(n, v)
  BY <1>3, <1>8, <1>11
<1> QED BY <1>1, <1>2, <1>10, <1>11, <1>12

-----------------------------------------------------------------------------
(* The order of fields.                                                    *)

\* Different fields have different ordinals, by which they are sorted.
LEMMA OrdinalFacts ==
  /\ \A n \in FieldNames : Ordinal(n) \in Nat
  /\ \A n, m \in FieldNames : Ordinal(n) = Ordinal(m) => n = m
<1>1. ASSUME NEW n \in FieldNames
      PROVE  /\ Definitions[n].type \in 1..255 /\ Definitions[n].nth \in 1..255
             /\ Ordinal(n) = 65536 * Definitions[n].type + Definitions[n].nth
  BY FramesAssumption DEF Ordinal
<1>2. ASSUME NEW n \in FieldNames, NEW m \in FieldNames, Ordinal(n) = Ordinal(m) PROVE n = m
  <2>1. PICK a, b : a = Definitions[n].type /\ b = Definitions[n].nth
    OBVIOUS
  <2>2. PICK c, d : c = Definitions[m].type /\ d = Definitions[m].nth
    OBVIOUS
  <2>0. a \in 1..255 /\ b \in 1..255 /\ c \in 1..255 /\ d \in 1..255
    BY <1>1, <2>1, <2>2
  <2>3. 65536 * a + b = 65536 * c + d
    BY <1>1, <1>2, <2>1, <2>2
  <2>4. a = c /\ b = d
    BY <2>0, <2>3
  <2> QED BY <2>1, <2>2, <2>4, FramesAssumption
<1>3. ASSUME NEW n \in FieldNames PROVE Ordinal(n) \in Nat
  <2>1. PICK a, b : a = Definitions[n].type /\ b = Definitions[n].nth
    OBVIOUS
  <2>2. a \in 1..255 /\ b \in 1..255 /\ Ordinal(n) = 65536 * a + b
    BY <1>1, <2>1
  <2> QED BY <2>2
<1> QED BY <1>2, <1>3

\* Each of a set of fields has one place in the order.
LEMMA InOrderFacts ==
  ASSUME NEW S, IsFiniteSet(S), S \subseteq FieldNames
  PROVE  /\ Cardinality(S) \in Nat /\ InOrder(S) \in [1..Cardinality(S) -> S]
         /\ \A i, j \in 1..Cardinality(S) : InOrder(S)[i] = InOrder(S)[j] => i = j
         /\ \A n \in S : \E i \in 1..Cardinality(S) : InOrder(S)[i] = n
<1> DEFINE upto == [n \in S |-> {m \in S : Ordinal(m) <= Ordinal(n)}]
<1>1. \A n \in S : upto[n] = {m \in S : Ordinal(m) <= Ordinal(n)}
  OBVIOUS
<1> HIDE DEF upto
<1>2. \A n \in S : upto[n] \subseteq S /\ n \in upto[n]
  BY <1>1, OrdinalFacts
<1>3. ASSUME NEW i \in S, NEW k \in S, i # k
      PROVE  \/ upto[i] \subseteq upto[k] /\ k \notin upto[i]
             \/ upto[k] \subseteq upto[i] /\ i \notin upto[k]
  <2>1. Ordinal(i) \in Nat /\ Ordinal(k) \in Nat /\ Ordinal(i) # Ordinal(k)
    BY <1>3, OrdinalFacts
  <2>2. \A m \in S : Ordinal(m) \in Nat
    BY OrdinalFacts
  <2>3. CASE Ordinal(i) < Ordinal(k)
    BY <1>1, <2>1, <2>2, <2>3
  <2>4. CASE Ordinal(k) < Ordinal(i)
    BY <1>1, <2>1, <2>2, <2>4
  <2> QED BY <2>1, <2>3, <2>4
<1>4. /\ Cardinality(S) \in Nat
      /\ \A i \in S : Cardinality(upto[i]) \in 1..Cardinality(S)
      /\ \A i, k \in S : Cardinality(upto[i]) = Cardinality(upto[k]) => i = k
      /\ \A n \in 1..Cardinality(S) : \E i \in S : Cardinality(upto[i]) = n
  BY <1>2, <1>3, Ranks
<1>5. PICK f : f = InOrder(S)
  OBVIOUS
<1>6. /\ f = [i \in 1..Cardinality(S) |-> f[i]]
      /\ \A i \in 1..Cardinality(S) :
           f[i] = CHOOSE n \in S : Cardinality({m \in S : Ordinal(m) <= Ordinal(n)}) = i
  <2>1. f = [i \in 1..Cardinality(S) |->
               CHOOSE n \in S : Cardinality({m \in S : Ordinal(m) <= Ordinal(n)}) = i]
    BY Zenon, <1>5 DEF InOrder
  <2>2. ASSUME NEW i \in 1..Cardinality(S)
        PROVE  f[i] = CHOOSE n \in S : Cardinality({m \in S : Ordinal(m) <= Ordinal(n)}) = i
    BY Zenon, <2>1
  <2>3. f = [i \in 1..Cardinality(S) |-> f[i]]
    <3> DEFINE c(i) == CHOOSE n \in S : Cardinality({m \in S : Ordinal(m) <= Ordinal(n)}) = i
    <3>1. f = [i \in 1..Cardinality(S) |-> c(i)]
      BY Zenon, <2>1
    <3> HIDE DEF c
    <3> QED BY <3>1
  <2> QED BY <2>2, <2>3
<1>7. ASSUME NEW i \in 1..Cardinality(S) PROVE f[i] \in S /\ Cardinality(upto[f[i]]) = i
  <2>1. \E n \in S : Cardinality({m \in S : Ordinal(m) <= Ordinal(n)}) = i
    BY <1>1, <1>4
  <2>2. f[i] = CHOOSE n \in S : Cardinality({m \in S : Ordinal(m) <= Ordinal(n)}) = i
    BY <1>6
  <2>3. f[i] \in S /\ Cardinality({m \in S : Ordinal(m) <= Ordinal(f[i])}) = i
    BY <2>1, <2>2
  <2> QED BY <1>1, <2>3
<1>8. f \in [1..Cardinality(S) -> S]
  BY <1>6, <1>7
<1>9. \A i, j \in 1..Cardinality(S) : f[i] = f[j] => i = j
  BY <1>7
<1>10. ASSUME NEW n \in S PROVE \E i \in 1..Cardinality(S) : f[i] = n
  <2>1. PICK i \in 1..Cardinality(S) : i = Cardinality(upto[n])
    BY <1>4
  <2>2. f[i] = n
    BY <1>4, <1>7, <2>1
  <2> QED BY <2>2
<1> QED BY <1>4, <1>5, <1>8, <1>9, <1>10

-----------------------------------------------------------------------------
(* Objects within a document.                                              *)

ObjectsLevel(depth, below) == IF depth = 0 THEN {} ELSE ObjectsIn(below, depth - 1)

\* The objects of each depth hold those of the depth below.
LEMMA ObjectsLevels == \A n \in 0..MaxDepth : Objects[n] = ObjectsLevel(n, Objects[n - 1])
<1> DEFINE F(g, n) == [depth \in 0..n |-> ObjectsLevel(depth, g[depth - 1])]
           N == {n \in Nat : \E g : g = F(g, n)}
<1>1. \A x, y : ObjectsLevel(0, x) = ObjectsLevel(0, y)
  BY DEF ObjectsLevel
<1>2. ASSUME NEW n \in Nat, NEW g, g = F(g, n)
      PROVE  F(g, n + 1) = F(F(g, n + 1), n + 1)
  <2> DEFINE h == F(g, n + 1)
  <2>1. ASSUME NEW depth \in 0..(n + 1)
        PROVE  ObjectsLevel(depth, g[depth - 1]) = ObjectsLevel(depth, h[depth - 1])
    <3>1. CASE depth = 0
      BY <1>1, <3>1
    <3>2. CASE depth # 0
      <4>1. depth - 1 \in 0..n /\ depth - 1 \in 0..(n + 1)
        BY <3>2
      <4>2. g[depth - 1] = h[depth - 1]
        BY <1>2, <4>1
      <4> QED BY <4>2
    <3> QED BY <3>1, <3>2
  <2> QED BY <2>1
<1>3. 0 \in N
  <2> DEFINE g == [depth \in 0..0 |-> ObjectsLevel(0, 0)]
  <2>1. g = F(g, 0)
    BY <1>1
  <2> QED BY <2>1
<1>4. ASSUME NEW n \in Nat, n \in N PROVE n + 1 \in N
  <2>1. PICK g : g = F(g, n)
    BY <1>4
  <2>2. F(g, n + 1) = F(F(g, n + 1), n + 1)
    BY <1>2, <2>1
  <2> HIDE DEF F
  <2> QED BY <2>2
<1>5. MaxDepth \in N
  <2> HIDE DEF N
  <2> QED BY <1>3, <1>4, SetInduction, CodecAssumption
<1>6. Objects = CHOOSE g : g = F(g, MaxDepth)
  BY DEF Objects, ObjectsLevel
<1>7. Objects = F(Objects, MaxDepth)
  BY <1>5, <1>6
<1> QED BY <1>7

WritingLevel(depth, below) ==
  IF depth = 0 THEN <<>> ELSE [obj \in Objects[depth] |-> ObjectFrom(obj, FieldNames, below)]

\* ... and are written with how these are.
LEMMA WritingLevels == \A n \in 0..MaxDepth : Writing[n] = WritingLevel(n, Writing[n - 1])
<1> DEFINE F(g, n) == [depth \in 0..n |-> WritingLevel(depth, g[depth - 1])]
           N == {n \in Nat : \E g : g = F(g, n)}
<1>1. \A x, y : WritingLevel(0, x) = WritingLevel(0, y)
  BY DEF WritingLevel
<1>2. ASSUME NEW n \in Nat, NEW g, g = F(g, n)
      PROVE  F(g, n + 1) = F(F(g, n + 1), n + 1)
  <2> DEFINE h == F(g, n + 1)
  <2>1. ASSUME NEW depth \in 0..(n + 1)
        PROVE  WritingLevel(depth, g[depth - 1]) = WritingLevel(depth, h[depth - 1])
    <3>1. CASE depth = 0
      BY <1>1, <3>1
    <3>2. CASE depth # 0
      <4>1. depth - 1 \in 0..n /\ depth - 1 \in 0..(n + 1)
        BY <3>2
      <4>2. g[depth - 1] = h[depth - 1]
        BY <1>2, <4>1
      <4> QED BY <4>2
    <3> QED BY <3>1, <3>2
  <2> QED BY <2>1
<1>3. 0 \in N
  <2> DEFINE g == [depth \in 0..0 |-> WritingLevel(0, 0)]
  <2>1. g = F(g, 0)
    BY <1>1
  <2> QED BY <2>1
<1>4. ASSUME NEW n \in Nat, n \in N PROVE n + 1 \in N
  <2>1. PICK g : g = F(g, n)
    BY <1>4
  <2>2. F(g, n + 1) = F(F(g, n + 1), n + 1)
    BY <1>2, <2>1
  <2> HIDE DEF F
  <2> QED BY <2>2
<1>5. MaxDepth \in N
  <2> HIDE DEF N
  <2> QED BY <1>3, <1>4, SetInduction, CodecAssumption
<1>6. Writing = CHOOSE g : g = F(g, MaxDepth)
  BY DEF Writing, WritingLevel
<1>7. Writing = F(Writing, MaxDepth)
  BY <1>5, <1>6
<1> QED BY <1>7

\* Nested fields are of two types.
LEMMA NestedTypes ==
  /\ \A m \in FieldsOf(STOBJECT) : /\ m \in Nested /\ EndOf(m) = "ObjectEndMarker" /\ m # "ArrayEndMarker"
                                   /\ m \notin FieldsOf(STARRAY)
  /\ \A m \in FieldsOf(STARRAY) : m \in Nested /\ EndOf(m) = "ArrayEndMarker"
<1>1. STOBJECT \in 1..255 /\ STARRAY \in 1..255 /\ STOBJECT # STARRAY
  BY DEF STOBJECT, STARRAY
<1>2. /\ \A m : m \in FieldsOf(STOBJECT) <=> m \in FieldNames /\ Definitions[m].type = STOBJECT
      /\ \A m : m \in FieldsOf(STARRAY) <=> m \in FieldNames /\ Definitions[m].type = STARRAY
  BY <1>1, FieldsOfFacts
<1>3. ASSUME NEW m \in FieldsOf(STOBJECT)
      PROVE  /\ m \in Nested /\ EndOf(m) = "ObjectEndMarker" /\ m # "ArrayEndMarker"
             /\ m \notin FieldsOf(STARRAY)
  BY <1>1, <1>2, CodecAssumption DEF Nested, EndOf
<1>4. ASSUME NEW m \in FieldsOf(STARRAY) PROVE m \in Nested /\ EndOf(m) = "ArrayEndMarker"
  BY DEF Nested, EndOf
<1> QED BY <1>3, <1>4

\* The JSON of an object with the fields S of x.
FieldsJSON(depth, S, x, inner) == [n \in S |-> FieldJSON(depth, n, ValueFrom(n, x[n], inner))]

\* An object of fields that are read back is read back, and its JSON is that of its fields.
LEMMA ObjectRead ==
  ASSUME NEW obj, NEW filter, NEW inner, NEW x, x = XAddressDecoded(obj),
         NEW S, S = DOMAIN x \cap filter, IsFiniteSet(S), S \subseteq FieldNames \ Markers,
         \A n \in S : ReadsBack(n, ValueFrom(n, x[n], inner))
  PROVE  LET b == ObjectFrom(obj, filter, inner)
         IN /\ b \in Bytes
            /\ \A m \in FieldsOf(STOBJECT) : ReadsBack(m, b)
            /\ FromParser("ObjectEndMarker", b).value = b
            /\ \A n \in S : Len(ValueFrom(n, x[n], inner)) < Len(b)
            /\ \A depth \in Nat \ {0} :
                 JSON[depth]["ObjectEndMarker"][b] = FieldsJSON(depth, S, x, inner)
<1>1. PICK names : names = InOrder(S)
  OBVIOUS
<1>2. PICK k \in Nat : k = Cardinality(S)
  BY InOrderFacts
<1>3. /\ names \in [1..k -> S]
      /\ \A i, j \in 1..k : names[i] = names[j] => i = j
      /\ \A n \in S : \E i \in 1..k : names[i] = n
  <2>1. /\ InOrder(S) \in [1..Cardinality(S) -> S]
        /\ \A i, j \in 1..Cardinality(S) : InOrder(S)[i] = InOrder(S)[j] => i = j
        /\ \A n \in S : \E i \in 1..Cardinality(S) : InOrder(S)[i] = n
    <3>1. S \subseteq FieldNames
      OBVIOUS
    <3>2. IsFiniteSet(S)
      OBVIOUS
    <3>3. InOrder(S) \in [1..Cardinality(S) -> S]
      BY <3>1, <3>2, InOrderFacts
    <3>4. \A i, j \in 1..Cardinality(S) : InOrder(S)[i] = InOrder(S)[j] => i = j
      BY <3>1, <3>2, InOrderFacts
    <3>5. \A n \in S : \E i \in 1..Cardinality(S) : InOrder(S)[i] = n
      BY <3>1, <3>2, InOrderFacts
    <3> QED BY <3>3, <3>4, <3>5
  <2> QED BY <1>1, <1>2, <2>1
<1>4. PICK end : end = "ObjectEndMarker"
  OBVIOUS
<1>5. end \in Markers /\ end # "ArrayEndMarker"
  BY <1>4 DEF Markers
<1>6. PICK bytes : bytes = [n \in S |-> ValueFrom(n, x[n], inner)]
  OBVIOUS
<1>7. ASSUME NEW n \in S
      PROVE  n \in FieldNames /\ n # end /\ bytes[n] = ValueFrom(n, x[n], inner)
             /\ bytes[n] \in Bytes /\ ReadsBack(n, bytes[n])
  BY <1>5, <1>6 DEF ReadsBack
<1>8. PICK values : values = [i \in 1..k |-> bytes[names[i]]]
  OBVIOUS
<1>9. /\ names \in [1..k -> FieldNames] /\ values \in [1..k -> Bytes]
      /\ \A i \in 1..k : names[i] # end /\ ReadsBack(names[i], values[i]) /\ values[i] = bytes[names[i]]
  BY <1>3, <1>7, <1>8
<1>10. PICK b : b = FlattenSeq([i \in 1..k |-> WriteFieldAndValue(names[i], values[i])])
  OBVIOUS
<1>11. ObjectFrom(obj, filter, inner) = b
  <2>1. DOMAIN names = 1..k
    BY <1>3
  <2>2. ObjectFrom(obj, filter, inner)
          = FlattenSeq([i \in DOMAIN names |-> WriteFieldAndValue(names[i], ValueFrom(names[i], x[names[i]], inner))])
    BY Zenon, <1>1 DEF ObjectFrom
  <2>3. \A i \in 1..k : ValueFrom(names[i], x[names[i]], inner) = values[i]
    BY <1>3, <1>7, <1>9
  <2>4. [i \in DOMAIN names |-> WriteFieldAndValue(names[i], ValueFrom(names[i], x[names[i]], inner))]
          = [i \in 1..k |-> WriteFieldAndValue(names[i], values[i])]
    BY <2>1, <2>3
  <2> QED BY <1>10, <2>2, <2>4
<1>12. BytesOf(end, b) = b
  BY <1>5 DEF BytesOf
<1>13. /\ b \in Bytes
       /\ ReadFields(end, b) = Got([i \in 1..k |-> [name |-> names[i], bytes |-> values[i]]], <<>>)
       /\ \A i \in 1..k : Len(b) > Len(values[i])
  <2>1. \A i \in 1..k : names[i] # end /\ ReadsBack(names[i], values[i])
    BY <1>9
  <2>2. names \in [1..k -> FieldNames] /\ values \in [1..k -> Bytes] /\ end \in Markers
    BY <1>5, <1>9
  <2>3. LET written == FlattenSeq([i \in 1..k |-> WriteFieldAndValue(names[i], values[i])])
        IN /\ BytesOf(end, written) \in Bytes
           /\ ReadFields(end, BytesOf(end, written))
                = Got([i \in 1..k |-> [name |-> names[i], bytes |-> values[i]]], <<>>)
           /\ \A i \in 1..k : Len(BytesOf(end, written)) > Len(values[i])
    BY <2>1, <2>2, WholeRead
  <2> QED BY <1>10, <1>12, <2>3
<1>14. ASSUME NEW m \in FieldsOf(STOBJECT) PROVE ReadsBack(m, b)
  <2>1. m \in Nested /\ EndOf(m) = end
    BY <1>4, NestedTypes
  <2> QED BY <1>9, <1>10, <1>12, <2>1, NestedReadsBack
<1>15. FromParser(end, b).value = b
  <2>1. PICK e : e = [i \in 1..k |-> [name |-> names[i], bytes |-> values[i]]]
    OBVIOUS
  <2>2. ReadFields(end, b).value = e
    BY <1>13, <2>1 DEF Got
  <2>3. DOMAIN e = 1..k /\ \A i \in 1..k : e[i].name = names[i] /\ e[i].bytes = values[i]
    BY <2>1
  <2>4. [i \in DOMAIN e |-> WriteFieldAndValue(e[i].name, e[i].bytes)]
          = [i \in 1..k |-> WriteFieldAndValue(names[i], values[i])]
    BY <2>3
  <2>5. FromParser(end, b).value = FlattenSeq([i \in DOMAIN e |-> WriteFieldAndValue(e[i].name, e[i].bytes)]) \o <<>>
    <3>1. PICK fields : fields = ReadFields(end, b) /\ fields.value = e
      BY <2>2
    <3>2. FromParser(end, b) = Rewritten(end, fields)
      BY <3>1 DEF FromParser
    <3>3. Rewritten(end, fields)
            = Got(FlattenSeq([i \in DOMAIN e |-> WriteFieldAndValue(e[i].name, e[i].bytes)]) \o <<>>, fields.rest)
      BY Zenon, <1>5, <3>1 DEF Rewritten
    <3> QED BY <3>2, <3>3 DEF Got
  <2> QED BY <1>10, <1>13, <2>4, <2>5, EmptyIsBytes
<1>16. ASSUME NEW n \in S PROVE Len(bytes[n]) < Len(b)
  <2>1. PICK i \in 1..k : names[i] = n
    BY <1>3
  <2>2. values[i] = bytes[n] /\ Len(b) > Len(values[i])
    BY <1>9, <1>13, <2>1
  <2>3. bytes[n] \in Seq(Byte) /\ b \in Seq(Byte)
    BY <1>7, <1>13 DEF Bytes
  <2> QED BY <2>2, <2>3
<1>17. ASSUME NEW depth \in Nat \ {0}
       PROVE  JSON[depth][end][b] = [n \in S |-> FieldJSON(depth, n, bytes[n])]
  <2>1. PICK json : json = JSON[depth][end][b]
    OBVIOUS
  <2>2. /\ json = [m \in {names[i] : i \in 1..k} |-> json[m]]
        /\ \A i \in 1..k : json[names[i]] = FieldJSON(depth, names[i], values[i])
    <3>1. \A i \in 1..k : names[i] # end /\ ReadsBack(names[i], values[i])
      BY <1>9
    <3>2. names \in [1..k -> FieldNames] /\ values \in [1..k -> Bytes] /\ end \in Markers
      BY <1>5, <1>9
    <3>3. depth \in Nat /\ depth # 0
      OBVIOUS
    <3>4. \A i, j \in 1..k : names[i] = names[j] => i = j
      BY <1>3
    <3>5. IsObjectOf(JSON[depth][end][BytesOf(end, FieldBytes(k, names, values))], depth, k, names, values)
      BY <1>5, <3>1, <3>2, <3>3, <3>4, JSONOfFields
    <3>6. FieldBytes(k, names, values) = b
      BY <1>10 DEF FieldBytes
    <3>7. IsObjectOf(json, depth, k, names, values)
      BY <1>12, <2>1, <3>5, <3>6
    <3> QED BY <3>7 DEF IsObjectOf
  <2>3. {names[i] : i \in 1..k} = S
    BY <1>3
  <2>4. ASSUME NEW n \in S PROVE json[n] = FieldJSON(depth, n, bytes[n])
    <3>1. PICK i \in 1..k : names[i] = n
      BY <1>3
    <3>2. values[i] = bytes[n]
      BY <1>9, <3>1
    <3>3. json[names[i]] = FieldJSON(depth, names[i], values[i])
      BY <2>2
    <3> QED BY <3>1, <3>2, <3>3
  <2> QED BY <2>1, <2>2, <2>3, <2>4
<1>18. ASSUME NEW depth \in Nat \ {0}
       PROVE  JSON[depth][end][b] = FieldsJSON(depth, S, x, inner)
  BY <1>7, <1>17 DEF FieldsJSON
<1> QED BY <1>4, <1>7, <1>11, <1>13, <1>14, <1>15, <1>16, <1>18

\* An object within another is read back from its bytes as itself.
WrittenAs(obj, b) ==
  /\ b \in Bytes
  /\ \A m \in FieldsOf(STOBJECT) : ReadsBack(m, b)
  /\ \A depth \in Nat : depth > Len(b) => JSON[depth]["ObjectEndMarker"][b] = obj

\* Arrays of so many of these objects.
ArraysOf(objects, k) == [1..k -> UNION {[{m} -> objects] : m \in FieldsOf(STOBJECT)}]

\* ... and so is an array of such objects.
LEMMA ArrayRead ==
  ASSUME NEW objects, NEW inner, \A obj \in objects : WrittenAs(obj, inner[obj]),
         NEW k \in Nat, NEW array \in ArraysOf(objects, k)
  PROVE  LET b == STArrayFrom(array, inner)
         IN /\ \A m \in FieldsOf(STARRAY) : ReadsBack(m, b)
            /\ \A depth \in Nat : depth > Len(b) => JSON[depth]["ArrayEndMarker"][b] = array
<1>1. PICK names : names = [i \in 1..k |-> CHOOSE n \in DOMAIN array[i] : TRUE]
  OBVIOUS
<1>2. PICK values : values = [i \in 1..k |-> inner[array[i][names[i]]]]
  OBVIOUS
<1>3. DOMAIN array = 1..k /\ array = [i \in 1..k |-> array[i]]
  BY DEF ArraysOf
<1>4. ASSUME NEW i \in 1..k
      PROVE  /\ names[i] \in FieldsOf(STOBJECT)
             /\ array[i] = [m \in {names[i]} |-> array[i][names[i]]]
             /\ array[i][names[i]] \in objects
             /\ WrittenAs(array[i][names[i]], values[i])
  <2>1. PICK m \in FieldsOf(STOBJECT) : array[i] \in [{m} -> objects]
    <3>1. PICK a : a = array[i]
      OBVIOUS
    <3>2. a \in UNION {[{m} -> objects] : m \in FieldsOf(STOBJECT)}
      BY <3>1 DEF ArraysOf
    <3>3. \E m \in FieldsOf(STOBJECT) : a \in [{m} -> objects]
      BY <3>2
    <3> QED BY <3>1, <3>3
  <2>2. names[i] = m
    BY <1>1, <2>1
  <2>3. array[i][m] \in objects
    BY <2>1
  <2>4. array[i] = [l \in {m} |-> array[i][m]]
    BY <2>1
  <2>5. values[i] = inner[array[i][m]]
    BY <1>2, <2>2
  <2> QED BY <2>1, <2>2, <2>3, <2>4, <2>5
<1>5. PICK end : end = "ArrayEndMarker"
  OBVIOUS
<1>6. end \in Markers
  BY <1>5 DEF Markers
<1>7. ASSUME NEW i \in 1..k
      PROVE  /\ names[i] \in FieldNames /\ names[i] # end /\ names[i] \in Nested
             /\ EndOf(names[i]) = "ObjectEndMarker"
             /\ values[i] \in Bytes /\ ReadsBack(names[i], values[i])
  <2>1. names[i] \in Nested /\ EndOf(names[i]) = "ObjectEndMarker" /\ names[i] # end
    BY <1>4, <1>5, NestedTypes
  <2>2. names[i] \in FieldNames
    BY <2>1, NestedFacts
  <2> QED BY <1>4, <2>1, <2>2 DEF WrittenAs
<1>8. names \in [1..k -> FieldNames] /\ values \in [1..k -> Bytes]
  BY <1>1, <1>2, <1>7
<1>9. \A i \in 1..k : names[i] # end /\ ReadsBack(names[i], values[i])
  BY <1>7
<1>10. PICK b : b = BytesOf(end, FieldBytes(k, names, values))
  OBVIOUS
<1>11. STArrayFrom(array, inner) = b
  <2> DEFINE one(i) == LET n == CHOOSE n \in DOMAIN array[i] : TRUE
                       IN WriteFieldAndValue(n, inner[array[i][n]])
  <2>1. STArrayFrom(array, inner) = FlattenSeq([i \in DOMAIN array |-> one(i)]) \o ARRAY_END_MARKER
    BY Zenon DEF STArrayFrom
  <2>2. \A i \in 1..k : one(i) = WriteFieldAndValue(names[i], values[i])
    BY <1>1, <1>2
  <2> HIDE DEF one
  <2>3. [i \in DOMAIN array |-> one(i)] = [i \in 1..k |-> WriteFieldAndValue(names[i], values[i])]
    BY <1>3, <2>2
  <2> QED BY <1>5, <1>10, <2>1, <2>3 DEF BytesOf, FieldBytes
<1>12. ASSUME NEW m \in FieldsOf(STARRAY) PROVE ReadsBack(m, b)
  <2>1. m \in Nested /\ EndOf(m) = end
    BY <1>5, NestedTypes
  <2>2. \A i \in 1..k : names[i] # EndOf(m) /\ ReadsBack(names[i], values[i])
    BY <1>9, <2>1
  <2>3. ReadsBack(m, BytesOf(EndOf(m), FieldBytes(k, names, values)))
    BY <1>8, <2>1, <2>2, NestedReadsBack DEF FieldBytes
  <2> QED BY <1>10, <2>1, <2>3
<1>13. b \in Bytes /\ \A i \in 1..k : Len(b) > Len(values[i])
  <2>1. LET written == FlattenSeq([i \in 1..k |-> WriteFieldAndValue(names[i], values[i])])
        IN /\ BytesOf(end, written) \in Bytes
           /\ \A i \in 1..k : Len(BytesOf(end, written)) > Len(values[i])
    BY <1>6, <1>8, <1>9, WholeRead
  <2> QED BY <1>10, <2>1 DEF FieldBytes
<1>14. ASSUME NEW depth \in Nat, depth > Len(b) PROVE JSON[depth][end][b] = array
  <2>1. Len(b) \in Nat
    BY <1>13 DEF Bytes
  <2>2. depth # 0 /\ depth - 1 \in Nat /\ depth - 1 >= Len(b)
    BY <1>14, <2>1
  <2>3. IsArrayOf(JSON[depth][end][BytesOf(end, FieldBytes(k, names, values))], depth, k, names, values)
    BY <1>5, <1>6, <1>8, <1>9, <2>2, JSONOfFields
  <2>4. ASSUME NEW i \in 1..k PROVE FieldJSON(depth, names[i], values[i]) = array[i][names[i]]
    <3>1. FieldJSON(depth, names[i], values[i]) = JSON[depth - 1]["ObjectEndMarker"][values[i]]
      BY <1>7 DEF FieldJSON
    <3>2. depth - 1 > Len(values[i])
      <4>1. Len(values[i]) \in Nat /\ Len(b) > Len(values[i])
        BY <1>7, <1>13 DEF Bytes
      <4> QED BY <2>1, <2>2, <4>1
    <3>3. WrittenAs(array[i][names[i]], values[i])
      BY <1>4
    <3> QED BY <2>2, <3>1, <3>2, <3>3 DEF WrittenAs
  <2>5. JSON[depth][end][b] = [i \in 1..k |-> [m \in {names[i]} |-> FieldJSON(depth, names[i], values[i])]]
    BY <1>10, <2>3 DEF IsArrayOf
  <2>6. \A i \in 1..k : [m \in {names[i]} |-> FieldJSON(depth, names[i], values[i])] = array[i]
    BY <1>4, <2>4
  <2> QED BY <1>3, <2>5, <2>6
<1> QED BY <1>5, <1>11, <1>12, <1>14

\* What a field may have for a value, given the objects it may hold.
IsValue(n, v, objects) ==
  /\ n \in FieldsOf(STOBJECT) => v \in objects
  /\ n \in FieldsOf(STARRAY) => \E k \in Nat : v \in ArraysOf(objects, k)
  /\ n \notin Nested => LeafIsValid(n, v)

\* A value that a document may have is one that can be written.
LEMMA ValuesAreValues ==
  ASSUME NEW objects, NEW d \in 0..MaxDepth, NEW n \in FieldNames, NEW v \in ValuesIn(n, objects, d)
  PROVE  IsValue(n, v, objects)
<1>1. CASE n \in FieldsOf(STOBJECT)
  <2>1. ValuesIn(n, objects, d) = objects
    <3>1. n \notin FieldsOf(STARRAY)
      BY <1>1, NestedTypes
    <3> QED BY Zenon, <1>1, <3>1 DEF ValuesIn
  <2> QED BY <1>1, <2>1, NestedTypes DEF IsValue
<1>2. CASE n \in FieldsOf(STARRAY) /\ n \notin FieldsOf(STOBJECT)
  <2>1. ValuesIn(n, objects, d)
          = UNION {[1..k -> UNION {[{m} -> objects] : m \in InnerFields \cap FieldsOf(STOBJECT)}] :
                   k \in 0 .. 1 + MaxDepth - d}
    BY Zenon, <1>2 DEF ValuesIn
  <2>2. PICK k \in 0 .. 1 + MaxDepth - d :
          v \in [1..k -> UNION {[{m} -> objects] : m \in InnerFields \cap FieldsOf(STOBJECT)}]
    BY Zenon, <2>1
  <2>3. k \in Nat
    BY CodecAssumption
  <2>4. UNION {[{m} -> objects] : m \in InnerFields \cap FieldsOf(STOBJECT)}
          \subseteq UNION {[{m} -> objects] : m \in FieldsOf(STOBJECT)}
    BY Zenon
  <2>5. v \in ArraysOf(objects, k)
    BY <2>2, <2>4 DEF ArraysOf
  <2>6. n \in Nested
    BY <1>2, NestedTypes
  <2> QED BY <1>2, <2>3, <2>5, <2>6 DEF IsValue
<1>3. CASE n \notin Nested
  <2>1. n \notin FieldsOf(STARRAY) /\ n \notin FieldsOf(STOBJECT)
    BY <1>3 DEF Nested
  <2>2. ValuesIn(n, objects, d) = LeafValues[n]
    BY Zenon, <2>1 DEF ValuesIn
  <2> QED BY <1>3, <2>1, <2>2, LeafValuesAssumption DEF IsValue
<1> QED BY <1>1, <1>2, <1>3 DEF Nested

\* What is written of a value is read back as it, or says the same.
LEMMA ValueRead ==
  ASSUME NEW objects, NEW inner, \A obj \in objects : WrittenAs(obj, inner[obj]),
         NEW n \in FieldNames, NEW v, IsValue(n, v, objects)
  PROVE  LET b == ValueFrom(n, v, inner)
         IN /\ ReadsBack(n, b)
            /\ \A depth \in Nat : depth - 1 > Len(b) =>
                 /\ Meaning(n, FieldJSON(depth, n, b)) = Meaning(n, v)
                 /\ (n \in Nested \/ LeafToJSON(n, LeafFrom(n, v)) = v) => FieldJSON(depth, n, b) = v
<1>1. PICK b : b = ValueFrom(n, v, inner)
  OBVIOUS
<1>2. CASE n \in FieldsOf(STOBJECT)
  <2>1. b = inner[v]
    <3>1. n \notin FieldsOf(STARRAY)
      BY <1>2, NestedTypes
    <3> QED BY Zenon, <1>1, <1>2, <3>1 DEF ValueFrom
  <2>2. v \in objects
    BY <1>2 DEF IsValue
  <2>3. WrittenAs(v, b)
    BY <2>1, <2>2
  <2>4. ReadsBack(n, b)
    BY <1>2, <2>3 DEF WrittenAs
  <2>5. n \in Nested /\ EndOf(n) = "ObjectEndMarker"
    BY <1>2, NestedTypes
  <2>6. ASSUME NEW depth \in Nat, depth - 1 > Len(b) PROVE FieldJSON(depth, n, b) = v
    <3>1. Len(b) \in Nat
      BY <2>3 DEF WrittenAs, Bytes
    <3>2. depth - 1 \in Nat
      BY <2>6, <3>1
    <3>3. JSON[depth - 1]["ObjectEndMarker"][b] = v
      BY <2>3, <2>6, <3>2 DEF WrittenAs
    <3> QED BY <2>5, <3>3 DEF FieldJSON
  <2> QED BY <1>1, <2>4, <2>6
<1>3. CASE n \in FieldsOf(STARRAY) /\ n \notin FieldsOf(STOBJECT)
  <2>1. b = STArrayFrom(v, inner)
    BY Zenon, <1>1, <1>3 DEF ValueFrom
  <2>2. PICK k \in Nat : v \in ArraysOf(objects, k)
    BY <1>3 DEF IsValue
  <2>3. /\ \A m \in FieldsOf(STARRAY) : ReadsBack(m, b)
        /\ \A depth \in Nat : depth > Len(b) => JSON[depth]["ArrayEndMarker"][b] = v
    BY <2>1, <2>2, ArrayRead
  <2>4. ReadsBack(n, b)
    BY <1>3, <2>3
  <2>5. n \in Nested /\ EndOf(n) = "ArrayEndMarker"
    BY <1>3, NestedTypes
  <2>6. ASSUME NEW depth \in Nat, depth - 1 > Len(b) PROVE FieldJSON(depth, n, b) = v
    <3>1. Len(b) \in Nat
      BY <2>4 DEF ReadsBack, Bytes
    <3>2. depth - 1 \in Nat
      BY <2>6, <3>1
    <3>3. JSON[depth - 1]["ArrayEndMarker"][b] = v
      BY <2>3, <2>6, <3>2
    <3> QED BY <2>5, <3>3 DEF FieldJSON
  <2> QED BY <1>1, <2>4, <2>6
<1>4. CASE n \notin Nested
  <2>1. n \notin FieldsOf(STARRAY) /\ n \notin FieldsOf(STOBJECT)
    BY <1>4 DEF Nested
  <2>2. b = LeafFrom(n, v)
    BY Zenon, <1>1, <2>1 DEF ValueFrom
  <2>3. LeafIsValid(n, v)
    BY <1>4 DEF IsValue
  <2>4. ReadsBack(n, b) /\ Meaning(n, LeafToJSON(n, b)) = Meaning(n, v)
    BY <1>4, <2>2, <2>3, LeafReadsBack
  <2>5. \A depth : FieldJSON(depth, n, b) = LeafToJSON(n, b)
    BY <1>4 DEF FieldJSON
  <2> QED BY <1>1, <1>4, <2>2, <2>4, <2>5
<1> QED BY <1>2, <1>3, <1>4 DEF Nested

\* An object of those that have no X-addresses: its fields and their values.
LEMMA ObjectFacts ==
  ASSUME NEW objects, NEW d, NEW obj \in ObjectsIn(objects, d)
  PROVE  /\ DOMAIN obj \subseteq InnerFields /\ IsFiniteSet(DOMAIN obj)
         /\ obj = [n \in DOMAIN obj |-> obj[n]]
         /\ \A n \in DOMAIN obj : obj[n] \in ValuesIn(n, objects, d) /\ IsPlain(n, obj[n])
         /\ XAddressDecoded(obj) = obj
<1> DEFINE values == [n \in InnerFields |-> {v \in ValuesIn(n, objects, d) : IsPlain(n, v)}]
<1>1. \A n \in InnerFields : values[n] = {v \in ValuesIn(n, objects, d) : IsPlain(n, v)}
  OBVIOUS
<1>2. obj \in UNION {{o \in [names -> UNION {values[n] : n \in names}] : \A n \in names : o[n] \in values[n]} :
                     names \in {S \in SUBSET InnerFields : Cardinality(S) <= MaxInner}}
  BY Zenon DEF ObjectsIn
<1> HIDE DEF values
<1>3. PICK names \in {S \in SUBSET InnerFields : Cardinality(S) <= MaxInner} :
        obj \in {o \in [names -> UNION {values[n] : n \in names}] : \A n \in names : o[n] \in values[n]}
  BY Zenon, <1>2
<1>4. obj \in [names -> UNION {values[n] : n \in names}] /\ \A n \in names : obj[n] \in values[n]
  BY <1>3
<1>5. DOMAIN obj = names /\ obj = [n \in names |-> obj[n]]
  BY <1>4
<1>6. names \subseteq InnerFields
  BY <1>3
<1>7. IsFiniteSet(names)
  BY <1>6, CodecAssumption, FS_Subset
<1>8. \A n \in names : obj[n] \in ValuesIn(n, objects, d) /\ IsPlain(n, obj[n])
  BY <1>1, <1>4, <1>6
<1>9. XAddressDecoded(obj) = obj
  <2>1. XAddresses(obj) = {}
    <3>1. ASSUME NEW n \in FieldsOf(ACCOUNTID) PROVE n \notin Nested
      <4>1. /\ ACCOUNTID \in 1..255 /\ STOBJECT \in 1..255 /\ STARRAY \in 1..255
            /\ ACCOUNTID # STOBJECT /\ ACCOUNTID # STARRAY
        BY DEF ACCOUNTID, STOBJECT, STARRAY
      <4> QED BY <4>1, FieldsOfFacts DEF Nested
    <3>2. ASSUME NEW n \in names, n \in FieldsOf(ACCOUNTID) PROVE ~IsXAddress(obj[n])
      <4>1. n \notin Nested
        BY <3>1, <3>2
      <4>2. IsPlain(n, obj[n])
        BY <1>8, <3>2
      <4> QED BY Zenon, <3>2, <4>1, <4>2 DEF IsPlain
    <3> QED BY <1>5, <3>2 DEF XAddresses
  <2>2. Tagged(obj) = {}
    BY <2>1 DEF Tagged
  <2>3. TagsOf(obj) = {}
    BY <2>2 DEF TagsOf
  <2>4. DOMAIN obj \cup TagsOf(obj) = names
    BY <1>5, <2>3
  <2>5. XAddressDecoded(obj) = [n \in names |-> obj[n]]
    BY <1>5, <2>1, <2>4 DEF XAddressDecoded
  <2> QED BY <1>5, <2>5
<1> QED BY <1>5, <1>6, <1>7, <1>8, <1>9

\* Every object within a document, however deep, is read back as itself.
LEMMA ObjectsWritten ==
  \A d \in 0..MaxDepth : \A obj \in Objects[d] : WrittenAs(obj, Writing[d][obj])
<1> DEFINE S == {d \in Nat : d <= MaxDepth => \A obj \in Objects[d] : WrittenAs(obj, Writing[d][obj])}
<1>1. 0 \in S
  <2>1. 0 \in 0..MaxDepth
    BY CodecAssumption
  <2>2. Objects[0] = {}
    BY <2>1, ObjectsLevels DEF ObjectsLevel
  <2> QED BY <2>2
<1>2. ASSUME NEW d \in Nat, d \in S PROVE d + 1 \in S
  <2>1. ASSUME d + 1 <= MaxDepth, NEW obj \in Objects[d + 1] PROVE WrittenAs(obj, Writing[d + 1][obj])
    <3>1. d \in 0..MaxDepth /\ d + 1 \in 0..MaxDepth /\ (d + 1) - 1 = d /\ d + 1 # 0 /\ d <= MaxDepth
      BY <2>1, CodecAssumption
    <3>2. PICK objects : objects = Objects[d]
      OBVIOUS
    <3>3. PICK inner : inner = Writing[d]
      OBVIOUS
    <3>4. \A o \in objects : WrittenAs(o, inner[o])
      BY <1>2, <3>1, <3>2, <3>3
    <3>5. Objects[d + 1] = ObjectsIn(objects, d)
      <4>1. Objects[d + 1] = ObjectsLevel(d + 1, objects)
        BY <3>1, <3>2, ObjectsLevels
      <4> QED BY <3>1, <4>1 DEF ObjectsLevel
    <3>6. Writing[d + 1][obj] = ObjectFrom(obj, FieldNames, inner)
      <4>1. Writing[d + 1] = WritingLevel(d + 1, inner)
        BY <3>1, <3>3, WritingLevels
      <4>2. WritingLevel(d + 1, inner)[obj] = ObjectFrom(obj, FieldNames, inner)
        BY Zenon, <2>1, <3>1 DEF WritingLevel
      <4> QED BY <4>1, <4>2
    <3>7. /\ DOMAIN obj \subseteq InnerFields /\ IsFiniteSet(DOMAIN obj)
          /\ obj = [n \in DOMAIN obj |-> obj[n]]
          /\ \A n \in DOMAIN obj : obj[n] \in ValuesIn(n, objects, d) /\ IsPlain(n, obj[n])
          /\ XAddressDecoded(obj) = obj
      BY <2>1, <3>5, ObjectFacts
    <3>8. DOMAIN obj \subseteq FieldNames \ Markers
      BY <3>7, CodecAssumption
    <3>9. PICK T : T = DOMAIN obj
      OBVIOUS
    <3>10. T = DOMAIN obj \cap FieldNames
      BY <3>8, <3>9
    <3>11. ASSUME NEW n \in T
           PROVE  /\ ReadsBack(n, ValueFrom(n, obj[n], inner))
                  /\ \A depth \in Nat : depth - 1 > Len(ValueFrom(n, obj[n], inner)) =>
                       FieldJSON(depth, n, ValueFrom(n, obj[n], inner)) = obj[n]
      <4>1. n \in FieldNames /\ obj[n] \in ValuesIn(n, objects, d) /\ IsPlain(n, obj[n])
        BY <3>7, <3>8, <3>9
      <4>2. IsValue(n, obj[n], objects)
        BY <3>1, <4>1, ValuesAreValues
      <4>3. PICK v : v = obj[n]
        OBVIOUS
      <4>4. n \in Nested \/ LeafToJSON(n, LeafFrom(n, v)) = v
        BY Zenon, <4>1, <4>3 DEF IsPlain
      <4>5. IsValue(n, v, objects)
        BY <4>2, <4>3
      <4>6. ReadsBack(n, ValueFrom(n, v, inner))
        BY <3>4, <4>1, <4>5, ValueRead
      <4>7. \A depth \in Nat : depth - 1 > Len(ValueFrom(n, v, inner)) => FieldJSON(depth, n, ValueFrom(n, v, inner)) = v
        BY <3>4, <4>1, <4>4, <4>5, ValueRead
      <4> QED BY <4>3, <4>6, <4>7
    <3>12. PICK b : b = ObjectFrom(obj, FieldNames, inner)
      OBVIOUS
    <3>13. /\ b \in Bytes
           /\ \A m \in FieldsOf(STOBJECT) : ReadsBack(m, b)
           /\ \A n \in T : Len(ValueFrom(n, obj[n], inner)) < Len(b)
           /\ \A depth \in Nat \ {0} :
                JSON[depth]["ObjectEndMarker"][b] = FieldsJSON(depth, T, obj, inner)
      <4>1. obj = XAddressDecoded(obj) /\ IsFiniteSet(T) /\ T \subseteq FieldNames \ Markers
        BY <3>7, <3>8, <3>9
      <4>2. \A n \in T : ReadsBack(n, ValueFrom(n, obj[n], inner))
        BY <3>11
      <4> QED BY <3>10, <3>12, <4>1, <4>2, ObjectRead
    <3>14. ASSUME NEW depth \in Nat, depth > Len(b) PROVE JSON[depth]["ObjectEndMarker"][b] = obj
      <4>1. Len(b) \in Nat
        BY <3>13 DEF Bytes
      <4>2. depth \in Nat \ {0} /\ depth - 1 \in Nat /\ depth - 1 >= Len(b)
        BY <3>14, <4>1
      <4>3. ASSUME NEW n \in T PROVE FieldJSON(depth, n, ValueFrom(n, obj[n], inner)) = obj[n]
        <5>1. Len(ValueFrom(n, obj[n], inner)) \in Nat
          BY <3>11 DEF ReadsBack, Bytes
        <5>2. depth - 1 > Len(ValueFrom(n, obj[n], inner))
          BY <3>13, <4>1, <4>2, <5>1
        <5> QED BY <3>11, <5>2
      <4>4. [n \in T |-> FieldJSON(depth, n, ValueFrom(n, obj[n], inner))] = [n \in T |-> obj[n]]
        BY <4>3
      <4> QED BY <3>7, <3>9, <3>13, <4>2, <4>4 DEF FieldsJSON
    <3> QED BY <3>6, <3>12, <3>13, <3>14 DEF WrittenAs
  <2>2. d + 1 \in Nat
    OBVIOUS
  <2> QED BY <2>1, <2>2
<1>3. \A d \in Nat : d \in S
  <2> HIDE DEF S
  <2> QED BY <1>1, <1>2, SetInduction
<1> QED BY <1>3, CodecAssumption

-----------------------------------------------------------------------------
(* Documents.                                                              *)

\* What a document is on the way.
IsDocument(obj) ==
  /\ obj = [n \in DOMAIN obj |-> obj[n]]
  /\ DOMAIN obj \subseteq FieldNames \ Markers /\ IsFiniteSet(DOMAIN obj)
  /\ \A n \in DOMAIN obj : obj[n] \in ValuesIn(n, Objects[MaxDepth], MaxDepth)

\* What an X-address is decoded as can be written.
LEMMA AddressDecoded ==
  ASSUME NEW bytes \in Seq(Byte), IsXAddress(bytes)
  PROVE  LET d == DecodeXAddress(bytes)
         IN /\ d.id \in Seq(Byte) /\ Len(d.id) = 1
            /\ d.tag # <<>> => d.tag \in Seq(Byte) /\ Len(d.tag) = 4
<1>1. Len(bytes) = 12
  BY DEF IsXAddress
<1>2. \A i \in 1..12 : bytes[i] \in Byte
  <2>1. \A i \in 1..Len(bytes) : bytes[i] \in Byte
    OBVIOUS
  <2> QED BY <1>1, <2>1
<1>3. PICK d : d = DecodeXAddress(bytes)
  OBVIOUS
<1>4. d.id = <<bytes[3]>> /\ d.tag = IF bytes[4] = 1 THEN Reverse(SubSeq(bytes, 5, 8)) ELSE <<>>
  BY <1>3 DEF DecodeXAddress
<1>5. PICK b \in Byte : b = bytes[3]
  BY <1>2
<1>6. <<b>> \in Seq(Byte) /\ Len(<<b>>) = 1
  OBVIOUS
<1>7. PICK s \in Seq(Byte) : s = SubSeq(bytes, 5, 8) /\ Len(s) = 4
  <2>1. \A i \in 5..8 : bytes[i] \in Byte
    BY <1>2
  <2>2. SubSeq(bytes, 5, 8) \in Seq(Byte) /\ Len(SubSeq(bytes, 5, 8)) = IF 5 <= 8 THEN 8 - 5 + 1 ELSE 0
    <3>1. 5 \in 1 .. Len(bytes) + 1 /\ 8 \in 0..Len(bytes)
      BY <1>1
    <3> QED BY <2>1, <3>1, SubSeqProperties
  <2>3. (IF 5 <= 8 THEN 8 - 5 + 1 ELSE 0) = 4
    OBVIOUS
  <2>4. PICK s \in Seq(Byte) : s = SubSeq(bytes, 5, 8)
    BY <2>2
  <2>5. Len(s) = 4
    BY <2>2, <2>3, <2>4
  <2> QED BY <2>4, <2>5
<1>8. Reverse(s) \in Seq(Byte) /\ Len(Reverse(s)) = 4
  <2>1. \A i \in 1..4 : s[(4 - i) + 1] \in Byte
    <3>1. ASSUME NEW i \in 1..4 PROVE s[(4 - i) + 1] \in Byte
      <4>1. (4 - i) + 1 \in 1..Len(s)
        BY <1>7
      <4> QED BY <4>1
    <3> QED BY <3>1
  <2>2. [i \in 1..4 |-> s[(4 - i) + 1]] \in Seq(Byte) /\ Len([i \in 1..4 |-> s[(4 - i) + 1]]) = 4
    BY <2>1
  <2>3. Reverse(s) = [i \in 1..4 |-> s[(4 - i) + 1]]
    BY <1>7 DEF Reverse
  <2> QED BY <2>2, <2>3
<1> QED BY <1>3, <1>4, <1>5, <1>6, <1>7, <1>8

\* A document that is not refused, with its X-addresses decoded.
LEMMA DocumentDecoded ==
  ASSUME NEW obj, IsDocument(obj), ~Refused(obj)
  PROVE  LET x == XAddressDecoded(obj)
         IN /\ DOMAIN x = DOMAIN obj \cup TagsOf(obj) /\ TagsOf(obj) \cap DOMAIN obj = {}
            /\ DOMAIN x \subseteq FieldNames \ Markers /\ IsFiniteSet(DOMAIN x)
            /\ \A n \in DOMAIN x : IsValue(n, x[n], Objects[MaxDepth])
            /\ \A n \in DOMAIN obj \ XAddresses(obj) : x[n] = obj[n]
            /\ \A n \in XAddresses(obj) : /\ x[n] = DecodeXAddress(obj[n]).id
                                          /\ Definitions[n].type = ACCOUNTID
            /\ \A n \in Tagged(obj) : /\ x[TagNames[n]] = DecodeXAddress(obj[n]).tag
                                      /\ TagNames[n] \in TagsOf(obj) /\ Definitions[TagNames[n]].type = UINT32
<1>1. PICK x : x = XAddressDecoded(obj)
  OBVIOUS
<1>2. /\ DOMAIN x = DOMAIN obj \cup TagsOf(obj)
      /\ \A n \in DOMAIN x :
           x[n] = IF n \in XAddresses(obj) THEN DecodeXAddress(obj[n]).id
                  ELSE IF n \in DOMAIN obj THEN obj[n]
                  ELSE DecodeXAddress(obj[CHOOSE m \in Tagged(obj) : TagNames[m] = n]).tag
  BY <1>1 DEF XAddressDecoded
<1>3. /\ DOMAIN obj \subseteq FieldNames \ Markers /\ IsFiniteSet(DOMAIN obj)
      /\ \A n \in DOMAIN obj : obj[n] \in ValuesIn(n, Objects[MaxDepth], MaxDepth)
  BY DEF IsDocument
<1>4. ASSUME NEW n \in DOMAIN obj PROVE IsValue(n, obj[n], Objects[MaxDepth])
  <2>1. MaxDepth \in 0..MaxDepth
    BY CodecAssumption
  <2> QED BY <1>3, <2>1, ValuesAreValues
<1>5. DOMAIN TagNames = {"Account", "Destination"} /\ TagNames["Account"] = "SourceTag" /\ TagNames["Destination"] = "DestinationTag"
  BY DEF TagNames
<1>6. ASSUME NEW n \in Tagged(obj)
      PROVE  /\ n \in XAddresses(obj) /\ DecodeXAddress(obj[n]).tag # <<>>
             /\ n \in DOMAIN TagNames /\ TagNames[n] \notin DOMAIN obj
             /\ TagNames[n] \in TagsOf(obj) /\ TagNames[n] \in {"SourceTag", "DestinationTag"}
  BY <1>5 DEF Tagged, TagsOf, Refused
<1>7. TagsOf(obj) \cap DOMAIN obj = {} /\ TagsOf(obj) \subseteq {"SourceTag", "DestinationTag"}
  BY <1>6 DEF TagsOf
<1>8. ASSUME NEW n \in {"SourceTag", "DestinationTag"}
      PROVE  n \in FieldNames \ Markers /\ Definitions[n].type = UINT32 /\ n \notin Nested /\ ~Definitions[n].vl
  <2>1. UINT32 \in 1..255 /\ STOBJECT \in 1..255 /\ STARRAY \in 1..255 /\ UINT32 # STOBJECT /\ UINT32 # STARRAY
    BY DEF UINT32, STOBJECT, STARRAY
  <2>2. n \in FieldsOf(UINT32)
    BY CodecAssumption
  <2>3. n \in FieldNames /\ Definitions[n].type = UINT32
    BY <2>1, <2>2, FieldsOfFacts
  <2>4. n \notin Markers
    BY <2>1, <2>3, CodecAssumption DEF Markers
  <2>5. n \notin FieldsOf(STOBJECT) /\ n \notin FieldsOf(STARRAY)
    BY <2>1, <2>3, FieldsOfFacts
  <2>6. ~Definitions[n].vl
    BY <2>2, CodecAssumption
  <2> QED BY <2>3, <2>4, <2>5, <2>6 DEF Nested
<1>9. ASSUME NEW n \in XAddresses(obj)
      PROVE  /\ n \in DOMAIN obj /\ n \in FieldNames /\ Definitions[n].type = ACCOUNTID /\ n \notin Nested
             /\ Definitions[n].vl /\ IsXAddress(obj[n]) /\ obj[n] \in Seq(Byte)
             /\ Definitions[n].type \notin {UINT32, AMOUNT, NUMBER, PATHSET, ISSUE}
  <2>1. /\ ACCOUNTID \in 1..255 /\ STOBJECT \in 1..255 /\ STARRAY \in 1..255
        /\ ACCOUNTID # STOBJECT /\ ACCOUNTID # STARRAY
        /\ ACCOUNTID \notin {UINT32, AMOUNT, NUMBER, PATHSET, ISSUE}
    BY DEF ACCOUNTID, STOBJECT, STARRAY, UINT32, AMOUNT, NUMBER, PATHSET, ISSUE
  <2>2. n \in DOMAIN obj /\ n \in FieldsOf(ACCOUNTID) /\ IsXAddress(obj[n])
    BY DEF XAddresses
  <2>3. n \in FieldNames /\ Definitions[n].type = ACCOUNTID
    BY <2>1, <2>2, FieldsOfFacts
  <2>4. n \notin FieldsOf(STOBJECT) /\ n \notin FieldsOf(STARRAY)
    BY <2>1, <2>3, FieldsOfFacts
  <2>5. Definitions[n].vl
    BY <2>2, CodecAssumption
  <2>6. LeafIsValid(n, obj[n])
    BY <1>4, <2>2, <2>4 DEF IsValue, Nested
  <2>7. LeafFrom(n, obj[n]) = obj[n]
    BY <2>1, <2>3, LeafForms
  <2>8. obj[n] \in Seq(Byte)
    BY Zenon, <2>6, <2>7 DEF LeafIsValid
  <2> QED BY <2>1, <2>2, <2>3, <2>4, <2>5, <2>8 DEF Nested
<1>10. ASSUME NEW n \in Tagged(obj) PROVE x[TagNames[n]] = DecodeXAddress(obj[n]).tag
  <2>1. PICK t : t = TagNames[n]
    OBVIOUS
  <2>2. t \in DOMAIN x /\ t \notin DOMAIN obj /\ t \notin XAddresses(obj)
    BY <1>2, <1>6, <1>9, <2>1
  <2>3. \A m \in Tagged(obj) : TagNames[m] = t => m = n
    BY <1>5, <1>6, <2>1
  <2>4. (CHOOSE m \in Tagged(obj) : TagNames[m] = t) = n
    BY <2>1, <2>3
  <2> QED BY <1>2, <2>1, <2>2, <2>4
<1>11. ASSUME NEW n \in FieldNames, n \notin Nested, NEW v \in Seq(Byte),
              Definitions[n].type \notin {AMOUNT, NUMBER, PATHSET, ISSUE},
              Definitions[n].type = UINT32 => Len(v) = 4,
              IF Definitions[n].vl THEN Len(v) <= MaxLength ELSE Definitions[n].type = UINT32
       PROVE  IsValue(n, v, Objects[MaxDepth])
  <2>1. LeafFrom(n, v) = v
    BY <1>11, LeafForms
  <2>2. /\ v \in Seq(Byte)
        /\ IF Definitions[n].vl THEN Len(v) <= MaxLength ELSE v # <<>>
        /\ Definitions[n].type = UINT32 => Len(v) = 4
        /\ Definitions[n].type = AMOUNT => IsAmount(v) /\ AmountIsValid(v) /\ ~Wraps(v)
        /\ Definitions[n].type = NUMBER => /\ Meaning(n, LeafToJSON(n, v)) = Meaning(n, v)
                                          /\ Len(v) = Width(Definitions[n].type, v)
        /\ Definitions[n].type = PATHSET => IsPathSet(v)
        /\ Definitions[n].type = ISSUE => IsIssue(v)
        /\ (~Definitions[n].vl /\ Definitions[n].type \notin {UINT32, AMOUNT, NUMBER, PATHSET, ISSUE}) => Len(v) = 1
    <3>1. UINT32 \notin {AMOUNT, NUMBER, PATHSET, ISSUE}
      BY DEF UINT32, AMOUNT, NUMBER, PATHSET, ISSUE
    <3>2. CASE Definitions[n].vl
      BY <1>11, <3>1, <3>2
    <3>3. CASE ~Definitions[n].vl
      <4>1. Definitions[n].type = UINT32 /\ Len(v) = 4
        BY <1>11, <3>3
      <4>2. v # <<>>
        BY <4>1
      <4> QED BY <1>11, <3>3, <4>1, <4>2
    <3> QED BY <3>2, <3>3
  <2>3. LeafIsValid(n, v)
    BY Zenon, <2>1, <2>2 DEF LeafIsValid
  <2> QED BY <1>11, <2>3 DEF IsValue, Nested
<1>12. ASSUME NEW n \in DOMAIN x PROVE n \in FieldNames \ Markers /\ IsValue(n, x[n], Objects[MaxDepth])
  <2>1. CASE n \in XAddresses(obj)
    <3>1. PICK d : d = DecodeXAddress(obj[n]) /\ d.id \in Seq(Byte) /\ Len(d.id) = 1
      BY <1>9, <2>1, AddressDecoded
    <3>2. Len(d.id) <= MaxLength
      BY <3>1 DEF MaxLength
    <3>3. IsValue(n, d.id, Objects[MaxDepth])
      BY <1>9, <1>11, <2>1, <3>1, <3>2
    <3> QED BY <1>2, <1>3, <1>9, <2>1, <3>1, <3>3
  <2>2. CASE n \in DOMAIN obj /\ n \notin XAddresses(obj)
    BY <1>2, <1>3, <1>4, <2>2
  <2>3. CASE n \in TagsOf(obj) /\ n \notin DOMAIN obj /\ n \notin XAddresses(obj)
    <3>1. PICK m \in Tagged(obj) : n = TagNames[m]
      BY <2>3 DEF TagsOf
    <3>2. PICK d : /\ d = DecodeXAddress(obj[m]) /\ d.tag # <<>>
                   /\ d.tag \in Seq(Byte) /\ Len(d.tag) = 4
      BY <1>6, <1>9, <3>1, AddressDecoded
    <3>3. x[n] = d.tag
      BY <1>10, <3>1, <3>2
    <3>4. n \in FieldNames \ Markers /\ Definitions[n].type = UINT32 /\ n \notin Nested /\ ~Definitions[n].vl
      BY <1>7, <1>8, <2>3
    <3>5. UINT32 \notin {AMOUNT, NUMBER, PATHSET, ISSUE}
      BY DEF UINT32, AMOUNT, NUMBER, PATHSET, ISSUE
    <3>6. IsValue(n, d.tag, Objects[MaxDepth])
      BY <1>11, <3>2, <3>4, <3>5
    <3> QED BY <3>3, <3>4, <3>6
  <2> QED BY <1>2, <1>9, <2>1, <2>2, <2>3
<1>13. IsFiniteSet(DOMAIN x)
  <2>1. IsFiniteSet({"SourceTag", "DestinationTag"})
    <3>1. IsFiniteSet({"SourceTag"}) /\ IsFiniteSet({"DestinationTag"})
      BY FS_Singleton
    <3>2. IsFiniteSet({"SourceTag"} \cup {"DestinationTag"})
      BY <3>1, FS_Union
    <3>3. {"SourceTag", "DestinationTag"} = {"SourceTag"} \cup {"DestinationTag"}
      OBVIOUS
    <3> QED BY <3>2, <3>3
  <2>2. IsFiniteSet(TagsOf(obj))
    BY <1>7, <2>1, FS_Subset
  <2>3. PICK S, T : S = DOMAIN obj /\ T = TagsOf(obj)
    OBVIOUS
  <2>4. IsFiniteSet(S) /\ IsFiniteSet(T)
    BY <1>3, <2>2, <2>3
  <2>5. IsFiniteSet(S \cup T)
    BY <2>4, FS_Union
  <2>6. DOMAIN x = S \cup T
    BY <1>2, <2>3
  <2> QED BY <2>5, <2>6
<1>14. \A n \in DOMAIN obj \ XAddresses(obj) : x[n] = obj[n]
  BY <1>2
<1>15. \A n \in XAddresses(obj) : x[n] = DecodeXAddress(obj[n]).id
  BY <1>2, <1>9
<1>16. \A n \in Tagged(obj) : TagNames[n] \in TagsOf(obj) /\ Definitions[TagNames[n]].type = UINT32
  BY <1>6, <1>8
<1> QED BY <1>1, <1>2, <1>7, <1>9, <1>10, <1>12, <1>13, <1>14, <1>15, <1>16

\* A document is read back from its bytes: the fields that pass the filter, each
\* saying what it said, once the X-addresses are decoded.
LEMMA DocumentRead ==
  ASSUME NEW obj, IsDocument(obj), ~Refused(obj), NEW filter,
         NEW x, x = XAddressDecoded(obj),
         NEW decoded, decoded = Decode(STObjectFrom(obj, filter))
  PROVE  /\ DOMAIN decoded = DOMAIN x \cap filter
         /\ \A n \in DOMAIN x \cap filter : Meaning(n, decoded[n]) = Meaning(n, x[n])
<1>1. PICK S : S = DOMAIN x \cap filter
  OBVIOUS
<1>2. PICK objects : objects = Objects[MaxDepth]
  OBVIOUS
<1>3. PICK inner : inner = Writing[MaxDepth]
  OBVIOUS
<1>4. \A o \in objects : WrittenAs(o, inner[o])
  <2>1. MaxDepth \in 0..MaxDepth
    BY CodecAssumption
  <2> QED BY <1>2, <1>3, <2>1, ObjectsWritten
<1>5. /\ DOMAIN x \subseteq FieldNames \ Markers /\ IsFiniteSet(DOMAIN x)
      /\ \A n \in DOMAIN x : IsValue(n, x[n], objects)
  BY <1>2, DocumentDecoded
<1>6. IsFiniteSet(S) /\ S \subseteq FieldNames \ Markers
  BY <1>1, <1>5, FS_Subset
<1>7. ASSUME NEW n \in S
      PROVE  /\ ReadsBack(n, ValueFrom(n, x[n], inner))
             /\ \A depth \in Nat : depth - 1 > Len(ValueFrom(n, x[n], inner)) =>
                  Meaning(n, FieldJSON(depth, n, ValueFrom(n, x[n], inner))) = Meaning(n, x[n])
  <2>1. PICK v : v = x[n]
    OBVIOUS
  <2>2. n \in FieldNames /\ IsValue(n, v, objects)
    BY <1>1, <1>5, <2>1
  <2>3. ReadsBack(n, ValueFrom(n, v, inner))
    BY <1>4, <2>2, ValueRead
  <2>4. \A depth \in Nat : depth - 1 > Len(ValueFrom(n, v, inner)) =>
          Meaning(n, FieldJSON(depth, n, ValueFrom(n, v, inner))) = Meaning(n, v)
    BY <1>4, <2>2, ValueRead
  <2> QED BY <2>1, <2>3, <2>4
<1>8. PICK b : b = ObjectFrom(obj, filter, inner)
  OBVIOUS
<1>9. /\ b \in Bytes
      /\ FromParser("ObjectEndMarker", b).value = b
      /\ \A n \in S : Len(ValueFrom(n, x[n], inner)) < Len(b)
      /\ \A depth \in Nat \ {0} :
           JSON[depth]["ObjectEndMarker"][b] = FieldsJSON(depth, S, x, inner)
  <2>1. \A n \in S : ReadsBack(n, ValueFrom(n, x[n], inner))
    BY <1>7
  <2> QED BY <1>1, <1>6, <1>8, <2>1, ObjectRead
<1>10. Len(b) \in Nat
  BY <1>9 DEF Bytes
<1>11. PICK depth \in Nat \ {0} : depth = 1 + Len(b)
  BY <1>10
<1>12. decoded = FieldsJSON(depth, S, x, inner)
  <2>1. STObjectFrom(obj, filter) = b
    BY <1>3, <1>8 DEF STObjectFrom
  <2>2. Decode(b) = ToJSON("ObjectEndMarker", b)
    BY <1>9 DEF Decode
  <2>3. ToJSON("ObjectEndMarker", b) = JSON[depth]["ObjectEndMarker"][b]
    BY <1>11 DEF ToJSON
  <2> QED BY <1>9, <1>11, <2>1, <2>2, <2>3
<1>13. ASSUME NEW n \in S PROVE Meaning(n, decoded[n]) = Meaning(n, x[n])
  <2>1. decoded[n] = FieldJSON(depth, n, ValueFrom(n, x[n], inner))
    BY <1>12 DEF FieldsJSON
  <2>2. Len(ValueFrom(n, x[n], inner)) \in Nat
    BY <1>7 DEF ReadsBack, Bytes
  <2>3. depth - 1 > Len(ValueFrom(n, x[n], inner))
    BY <1>9, <1>10, <1>11, <2>2
  <2> QED BY <1>7, <1>11, <2>1, <2>3
<1>14. DOMAIN decoded = S
  BY <1>12 DEF FieldsJSON
<1> QED BY <1>1, <1>13, <1>14

\* What a document is when it has been written whole and read.
LEMMA EncodedDocumentRead ==
  ASSUME NEW obj, IsDocument(obj), NEW bytes \in Encode(obj), NEW decoded, decoded = Decode(bytes)
  PROVE  DecodedAs(obj, decoded)
<1>1. ~Refused(obj) /\ bytes = STObjectFrom(obj, FieldNames)
  BY DEF Encode, Written
<1>2. PICK x : x = XAddressDecoded(obj)
  OBVIOUS
<1>3. /\ DOMAIN x = DOMAIN obj \cup TagsOf(obj) /\ TagsOf(obj) \cap DOMAIN obj = {}
      /\ DOMAIN x \subseteq FieldNames \ Markers
      /\ \A n \in DOMAIN obj \ XAddresses(obj) : x[n] = obj[n]
      /\ \A n \in XAddresses(obj) : /\ x[n] = DecodeXAddress(obj[n]).id
                                    /\ Definitions[n].type = ACCOUNTID
      /\ \A n \in Tagged(obj) : /\ x[TagNames[n]] = DecodeXAddress(obj[n]).tag
                                /\ TagNames[n] \in TagsOf(obj) /\ Definitions[TagNames[n]].type = UINT32
  BY <1>1, <1>2, DocumentDecoded
<1>4. DOMAIN x \cap FieldNames = DOMAIN x
  BY <1>3
<1>5. /\ DOMAIN decoded = DOMAIN x
      /\ \A n \in DOMAIN x : Meaning(n, decoded[n]) = Meaning(n, x[n])
  BY <1>1, <1>2, <1>4, DocumentRead
<1>6. ASSUME NEW n \in DOMAIN x, Definitions[n].type \in {ACCOUNTID, UINT32} PROVE decoded[n] = x[n]
  <2>1. ACCOUNTID \notin {AMOUNT, NUMBER, PATHSET, ISSUE} /\ UINT32 \notin {AMOUNT, NUMBER, PATHSET, ISSUE}
    BY DEF ACCOUNTID, UINT32, AMOUNT, NUMBER, PATHSET, ISSUE
  <2>2. n \in FieldNames /\ Definitions[n].type \notin {AMOUNT, NUMBER, PATHSET, ISSUE}
    BY <1>3, <1>6, <2>1
  <2>3. PICK one, other : one = decoded[n] /\ other = x[n]
    OBVIOUS
  <2>4. Meaning(n, one) = one /\ Meaning(n, other) = other
    BY <2>2, LeafForms
  <2> QED BY <1>5, <2>3, <2>4
<1>7. XAddresses(obj) \subseteq DOMAIN obj /\ Tagged(obj) \subseteq XAddresses(obj)
  BY DEF XAddresses, Tagged
<1>8. \A n \in XAddresses(obj) : decoded[n] = DecodeXAddress(obj[n]).id
  BY <1>3, <1>6, <1>7
<1>9. \A n \in Tagged(obj) : decoded[TagNames[n]] = DecodeXAddress(obj[n]).tag
  BY <1>3, <1>6
<1>10. SaysTheSame(DOMAIN obj \ XAddresses(obj), decoded, obj)
  BY <1>3, <1>5 DEF SaysTheSame
<1> QED BY <1>3, <1>5, <1>8, <1>9, <1>10 DEF DecodedAs

\* ... and what its signed data says.
LEMMA SignedDocumentRead ==
  ASSUME NEW obj, IsDocument(obj), NEW bytes \in SigningData(obj), NEW signed, signed = Decode(bytes)
  PROVE  SignedAs(obj, signed)
<1>1. ~Refused(obj) /\ bytes = STObjectFrom(obj, SigningFields)
  BY DEF SigningData, Written
<1>2. PICK x : x = XAddressDecoded(obj)
  OBVIOUS
<1>3. PICK S : S = DOMAIN x \cap SigningFields
  OBVIOUS
<1>4. DOMAIN signed = S /\ \A n \in S : Meaning(n, signed[n]) = Meaning(n, x[n])
  BY <1>1, <1>2, <1>3, DocumentRead
<1>5. SaysTheSame(DOMAIN signed, signed, x)
  BY <1>4 DEF SaysTheSame
<1> QED BY <1>2, <1>3, <1>4, <1>5 DEF SignedAs

\* Every document on the way is one that the codec can take: its fields are known, of
\* finite number, and each has a value of its kind.
LEMMA DocumentsAreDocuments == CodecSpec => []IsDocument(doc)
<1>1. CodecInit => IsDocument(doc)
  <2>1. SUFFICES ASSUME doc = <<>> PROVE IsDocument(doc)
    BY DEF CodecInit
  <2>2. DOMAIN doc = {}
    BY <2>1
  <2>3. doc = [n \in DOMAIN doc |-> doc[n]]
    BY <2>1
  <2> QED BY <2>2, <2>3, FS_EmptySet DEF IsDocument
<1>2. IsDocument(doc) /\ [CodecNext]_codecVars => IsDocument(doc)'
  <2> SUFFICES ASSUME IsDocument(doc), [CodecNext]_codecVars PROVE IsDocument(doc)'
    OBVIOUS
  <2>1. ASSUME NEW n \in FieldNames \ Markers, SetField(n) PROVE IsDocument(doc)'
    <3>1. PICK v \in ValuesIn(n, Objects[MaxDepth], MaxDepth) :
            doc' = [m \in DOMAIN doc \cup {n} |-> IF m = n THEN v ELSE doc[m]]
      BY <2>1 DEF SetField
    <3>2. PICK S : S = DOMAIN doc \cup {n}
      OBVIOUS
    <3>3. DOMAIN doc' = S /\ \A m \in S : doc'[m] = IF m = n THEN v ELSE doc[m]
      BY <3>1, <3>2
    <3>4. doc' = [m \in S |-> doc'[m]]
      BY <3>1, <3>2
    <3>5. /\ DOMAIN doc \subseteq FieldNames \ Markers /\ IsFiniteSet(DOMAIN doc)
          /\ \A m \in DOMAIN doc : doc[m] \in ValuesIn(m, Objects[MaxDepth], MaxDepth)
      BY DEF IsDocument
    <3>6. IsFiniteSet(S) /\ S \subseteq FieldNames \ Markers
      BY <3>2, <3>5, FS_AddElement
    <3>7. \A m \in S : doc'[m] \in ValuesIn(m, Objects[MaxDepth], MaxDepth)
      BY <3>2, <3>3, <3>5
    <3>8. IsDocument(doc')
      BY <3>3, <3>4, <3>6, <3>7 DEF IsDocument
    <3> QED BY <3>8
  <2>2. CASE UNCHANGED doc
    BY <2>2
  <2> QED BY <2>1, <2>2 DEF CodecNext, codecVars
<1> QED BY <1>1, <1>2, PTL DEF CodecSpec

\* Every document round-trips, whole and in what is signed of it, and so do every
\* amount and every length: whatever the codes of the fields, whatever their values
\* have in them of markers and separators, and however deep objects and arrays are
\* nested.
THEOREM DocumentsAlwaysRoundTrip == CodecSpec => []DocumentsRoundTrip
<1>1. IsDocument(doc) /\ IsTaken(leaf) => DocumentsRoundTrip
  <2> SUFFICES ASSUME IsDocument(doc), IsTaken(leaf) PROVE DocumentsRoundTrip
    OBVIOUS
  <2>1. DecodeInvertsEncode
    BY EncodedDocumentRead DEF DecodeInvertsEncode
  <2>2. SignedDataIsTheRest
    BY SignedDocumentRead DEF SignedDataIsTheRest
  <2>3. LengthsAreRead
    <3>1. ASSUME NEW l \in Lengths PROVE ReadVariableLengthLength(EncodeVariableLength(l)) = Got(l, <<>>)
      <4>1. MaxLength \in Nat
        BY DEF MaxLength
      <4>2. l \in Nat /\ l <= MaxLength /\ <<>> \in Seq(Byte)
        BY <4>1, CodecAssumption
      <4>3. /\ EncodeVariableLength(l) \in Seq(Byte)
            /\ ReadVariableLengthLength(EncodeVariableLength(l) \o <<>>) = Got(l, <<>>)
        BY <4>2, LengthRead
      <4>4. EncodeVariableLength(l) \o <<>> = EncodeVariableLength(l)
        BY <4>3, EmptyIsBytes DEF Bytes
      <4> QED BY <4>3, <4>4
    <3> QED BY <3>1 DEF LengthsAreRead
  <2>4. AmountsAreKept
    BY TakenAmountRead
  <2> QED BY <2>1, <2>2, <2>3, <2>4 DEF DocumentsRoundTrip
<1> QED BY <1>1, DocumentsAreDocuments, LeavesAreTaken, PTL

==================================================================================
