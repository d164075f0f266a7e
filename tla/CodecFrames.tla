-------------------------------- MODULE CodecFrames --------------------------------
(***************************************************************************)
(* How ripple-binary-codec marks where a field begins and where a value of *)
(* variable length ends (enums/field.ts, binary-serializer.ts,             *)
(* binary-parser.ts).                                                      *)
(***************************************************************************)
EXTENDS Integers, Sequences

CONSTANT Definitions  \* definitions.json: from names to [type, nth, vl, signing]

FieldNames == DOMAIN Definitions

\* Of the fields that are serialized; Generic, which is only called so, is not one.
ASSUME FramesAssumption ==
  /\ \A n \in FieldNames : Definitions[n].type \in 1..255 /\ Definitions[n].nth \in 1..255
  /\ \A n, m \in FieldNames :
       Definitions[n].type = Definitions[m].type /\ Definitions[n].nth = Definitions[m].nth => n = m

UINT32 == 2   AMOUNT == 6   BLOB == 7   ACCOUNTID == 8   NUMBER == 9
STOBJECT == 14   STARRAY == 15   UINT8 == 16   PATHSET == 18   ISSUE == 24

Byte == 0..255

\* The order in which fields are written.
Ordinal(n) == 65536 * Definitions[n].type + Definitions[n].nth

Skip(bytes, n) == SubSeq(bytes, n + 1, Len(bytes))

\* What was read, and the bytes that are left.
Got(value, rest) == [value |-> value, rest |-> rest]

-----------------------------------------------------------------------------

\* fieldHeader
FieldHeader(type, nth) ==
  IF type < 16 THEN IF nth < 16 THEN <<16 * type + nth>> ELSE <<16 * type, nth>>
  ELSE IF nth < 16 THEN <<nth, type>> ELSE <<0, type, nth>>

\* encodeVariableLength; more than MaxLength bytes are refused.
MaxLength == 918744

EncodeVariableLength(n) ==
  IF n <= 192 THEN <<n>>
  ELSE IF n <= 12480 THEN <<193 + (n - 193) \div 256, (n - 193) % 256>>
  ELSE LET r == n - 12481
       IN <<241 + r \div 65536, (r \div 256) % 256, r % 256>>

\* The field's header, its length if that varies, and the bytes of its value.
Framed(n, bytes) ==
  LET d == Definitions[n]
  IN FieldHeader(d.type, d.nth)
     \o (IF d.vl THEN EncodeVariableLength(Len(bytes)) ELSE <<>>) \o bytes

\* The table of FieldLookup
FieldByCode ==
  [code \in {<<Definitions[n].type, Definitions[n].nth>> : n \in FieldNames} |->
     CHOOSE n \in FieldNames : <<Definitions[n].type, Definitions[n].nth>> = code]

\* readFieldOrdinal and fromString
ReadField(bytes) ==
  LET high == bytes[1] \div 16
      low == bytes[1] % 16
      type == IF high = 0 THEN bytes[2] ELSE high
      afterType == IF high = 0 THEN 2 ELSE 1
      nth == IF low = 0 THEN bytes[afterType + 1] ELSE low
  IN Got(FieldByCode[<<type, nth>>],
         Skip(bytes, IF low = 0 THEN afterType + 1 ELSE afterType))

\* readVariableLengthLength
ReadVariableLengthLength(bytes) ==
  LET b1 == bytes[1]
  IN IF b1 <= 192 THEN Got(b1, Skip(bytes, 1))
     ELSE IF b1 <= 240 THEN Got(193 + (b1 - 193) * 256 + bytes[2], Skip(bytes, 2))
     ELSE Got(12481 + (b1 - 241) * 65536 + bytes[2] * 256 + bytes[3], Skip(bytes, 3))

=============================================================================
