-------------------------------- MODULE BinaryCodec --------------------------------
(***************************************************************************)
(* ripple-binary-codec: encode and decode of objects of fields, with       *)
(* objects and arrays of objects in them (st-object.ts, st-array.ts,       *)
(* binary-serializer.ts, binary-parser.ts, binary.ts).  How fields begin   *)
(* and end is said in CodecFrames.                                         *)
(* A document is filled in field by field; what is said of it is said of   *)
(* every document on the way.  Or one leaf is taken by itself.             *)
(*                                                                         *)
(* A JSON object is a function from the names of its fields, since their   *)
(* order is lost in the sort.  The leaves are those of CodecLeaves, or      *)
(* their bytes.  Abstracted: the prefixes of signed data, names that are   *)
(* not fields, and the UNLModify workaround.                               *)
(***************************************************************************)
EXTENDS CodecLeaves
LOCAL INSTANCE SequencesExt

CONSTANTS
  LeafValues,   \* values of a field that is neither an object nor an array
  InnerFields,  \* fields of the objects within the document
  MaxFields,    \* bound: fields of the document
  MaxInner,     \* bound: fields of an object within it
  MaxDepth,     \* bound: depth of the objects within the document
  Lengths       \* lengths of variable-length values

FieldsOfType == [type \in 1..255 |-> {n \in FieldNames : Definitions[n].type = type}]
FieldsOf(type) == FieldsOfType[type]

Nested == FieldsOf(STOBJECT) \cup FieldsOf(STARRAY)
Markers == {"ObjectEndMarker", "ArrayEndMarker"}

ASSUME CodecAssumption ==
  /\ Markers \subseteq FieldNames
  /\ Definitions["ObjectEndMarker"].type = STOBJECT /\ Definitions["ObjectEndMarker"].nth = 1
  /\ Definitions["ArrayEndMarker"].type = STARRAY /\ Definitions["ArrayEndMarker"].nth = 1
  /\ InnerFields \subseteq FieldNames \ Markers
  /\ \A n \in FieldNames : Definitions[n].vl \in BOOLEAN
  /\ \A n \in FieldsOf(ACCOUNTID) : Definitions[n].vl
  /\ \A type \in {UINT32, UINT8, AMOUNT, NUMBER, STOBJECT, STARRAY, PATHSET, ISSUE} :
       \A n \in FieldsOf(type) : ~Definitions[n].vl
  /\ {"SourceTag", "DestinationTag"} \subseteq FieldsOf(UINT32)
  /\ IsFiniteSet(InnerFields) /\ MaxDepth \in Nat
  /\ Lengths \subseteq 0..MaxLength

VARIABLE doc  \* the document, a function from the names of its fields

-----------------------------------------------------------------------------
(* Writing.                                                                *)

OBJECT_END_MARKER == <<225>>
ARRAY_END_MARKER == <<241>>

\* Mutant: an object within an object is not closed.
WriteFieldAndValue_Open(n, bytes) == Framed(n, bytes)

\* writeFieldAndValue, with the end marker that STObject puts after an object.
WriteFieldAndValue(n, bytes) ==
  Framed(n, bytes) \o (IF Definitions[n].type = STOBJECT THEN OBJECT_END_MARKER ELSE <<>>)

TagNames == [Account |-> "SourceTag", Destination |-> "DestinationTag"]

XAddresses(obj) == {n \in DOMAIN obj \cap FieldsOf(ACCOUNTID) : IsXAddress(obj[n])}
Tagged(obj) == {n \in XAddresses(obj) : DecodeXAddress(obj[n]).tag # <<>>}

TagsOf(obj) == {TagNames[n] : n \in Tagged(obj)}

\* handleXAddress and checkForDuplicateTags: a tag has its field, and only one tag.
Refused(obj) ==
  \E n \in Tagged(obj) : n \notin DOMAIN TagNames \/ TagNames[n] \in DOMAIN obj

\* An X-address becomes an address and, if it carries one, a tag in its own field.
XAddressDecoded(obj) ==
  [n \in DOMAIN obj \cup TagsOf(obj) |->
     IF n \in XAddresses(obj) THEN DecodeXAddress(obj[n]).id
     ELSE IF n \in DOMAIN obj THEN obj[n]
     ELSE DecodeXAddress(obj[CHOOSE m \in Tagged(obj) : TagNames[m] = n]).tag]

LeafFrom(n, value) ==
  CASE n \in FieldsOf(AMOUNT) -> AmountFrom(value)
    [] n \in FieldsOf(NUMBER) -> CHOOSE bytes \in NumberFrom(value) : TRUE
    [] n \in FieldsOf(PATHSET) -> PathSetFrom(value)
    [] n \in FieldsOf(ISSUE) -> IssueFrom(value)
    [] OTHER -> value

\* ... and what is read of it.
LeafToJSON(n, bytes) ==
  CASE n \in FieldsOf(AMOUNT) -> AmountToJSON(bytes)
    [] n \in FieldsOf(NUMBER) -> NumberToJSON(bytes)
    [] n \in FieldsOf(PATHSET) -> ReadPathSet(bytes).value
    [] n \in FieldsOf(ISSUE) -> IssueToJSON(bytes)
    [] OTHER -> bytes

\* The fields in the order of their ordinals.
InOrder(S) ==
  [i \in 1..Cardinality(S) |-> CHOOSE n \in S : Cardinality({m \in S : Ordinal(m) <= Ordinal(n)}) = i]

\* STArray.from of objects of one field each; inner is how the objects within it
\* are written.
STArrayFrom(objects, inner) ==
  FlattenSeq([i \in DOMAIN objects |->
    LET n == CHOOSE n \in DOMAIN objects[i] : TRUE
    IN WriteFieldAndValue(n, inner[objects[i][n]])])
  \o ARRAY_END_MARKER

ValueFrom(n, value, inner) ==
  CASE n \in FieldsOf(STOBJECT) -> inner[value]
    [] n \in FieldsOf(STARRAY) -> STArrayFrom(value, inner)
    [] OTHER -> LeafFrom(n, value)

\* STObject.from of the fields that pass the filter.
ObjectFrom(obj, filter, inner) ==
  LET x == XAddressDecoded(obj)
      sorted == InOrder(DOMAIN x \cap filter)
  IN FlattenSeq([i \in DOMAIN sorted |->
       WriteFieldAndValue(sorted[i], ValueFrom(sorted[i], x[sorted[i]], inner))])

\* The values of a field that may hold these objects, fewer in an array the deeper
\* they are, and the objects of such values that are given as they are read.
ValuesIn(n, objects, depth) ==
  CASE n \in FieldsOf(STOBJECT) -> objects
    [] n \in FieldsOf(STARRAY) ->
         UNION {[1..k -> UNION {[{m} -> objects] : m \in InnerFields \cap FieldsOf(STOBJECT)}] :
                k \in 0 .. 1 + MaxDepth - depth}
    [] OTHER -> LeafValues[n]

\* A leaf is given in the form in which it is read.
IsPlain(n, value) ==
  \/ n \in Nested
  \/ /\ LeafToJSON(n, LeafFrom(n, value)) = value
     /\ n \in FieldsOf(ACCOUNTID) => ~IsXAddress(value)

ObjectsIn(objects, depth) ==
  LET values == [n \in InnerFields |-> {v \in ValuesIn(n, objects, depth) : IsPlain(n, v)}]
  IN UNION {{obj \in [names -> UNION {values[n] : n \in names}] : \A n \in names : obj[n] \in values[n]} :
            names \in {S \in SUBSET InnerFields : Cardinality(S) <= MaxInner}}

\* The objects within a document, by how deep there are others in them, and how
\* each is written: the filter does not apply to them.
Objects[depth \in 0..MaxDepth] ==
  IF depth = 0 THEN {} ELSE ObjectsIn(Objects[depth - 1], depth - 1)
Writing[depth \in 0..MaxDepth] ==
  IF depth = 0 THEN <<>>
  ELSE [obj \in Objects[depth] |-> ObjectFrom(obj, FieldNames, Writing[depth - 1])]

STObjectFrom(obj, filter) == ObjectFrom(obj, filter, Writing[MaxDepth])

\* The bytes of an object that is not refused.
Written(obj, filter) == IF Refused(obj) THEN {} ELSE {STObjectFrom(obj, filter)}

Encode(obj) == Written(obj, FieldNames)

SigningFields == {n \in FieldNames : Definitions[n].signing}

\* signingData: the fields that signatures cover.
SigningData(obj) == Written(obj, SigningFields)

-----------------------------------------------------------------------------
(* Reading.  What is left of the bytes is passed on as rest.               *)

\* How many bytes fromParser of a type reads.
Width(type, bytes) ==
  CASE type = UINT32 -> 4
    [] type = AMOUNT -> AmountLength(bytes[1])
    [] type = NUMBER -> 2 * IntWidth
    [] type = PATHSET -> Len(bytes) - Len(ReadPathSet(bytes).rest)
    [] type = ISSUE -> IssueLength(bytes)
    [] OTHER -> 1

ReadLeaf(n, bytes) ==
  LET size == IF Definitions[n].vl THEN ReadVariableLengthLength(bytes)
                                   ELSE Got(Width(Definitions[n].type, bytes), bytes)
  IN Got(SubSeq(size.rest, 1, size.value), Skip(size.rest, size.value))

EndOf(n) == IF n \in FieldsOf(STARRAY) THEN "ArrayEndMarker" ELSE "ObjectEndMarker"

\* STObject.fromParser and STArray.fromParser write what they read again, with the
\* end marker of an array.
Rewritten(end, fields) ==
  Got(FlattenSeq([i \in DOMAIN fields.value |->
        WriteFieldAndValue(fields.value[i].name, fields.value[i].bytes)])
      \o (IF end = "ArrayEndMarker" THEN ARRAY_END_MARKER ELSE <<>>),
      fields.rest)

\* The loop of fromParser and of toJSON, over at most "left" bytes: the fields before
\* an end marker, each a name with its bytes, and what comes after it.
Reading[left \in Nat] ==
  [end \in Markers |-> [bytes \in Seq(Byte) |->
     LET after == Reading[left - 1]
         field == ReadField(bytes)
         inner == EndOf(field.value)
         v == IF field.value \in Nested THEN Rewritten(inner, after[inner][field.rest])
                                        ELSE ReadLeaf(field.value, field.rest)
     IN IF left = 0 \/ bytes = <<>> THEN Got(<<>>, <<>>)
        ELSE IF field.value = end THEN Got(<<>>, field.rest)
        ELSE Before([name |-> field.value, bytes |-> v.value], after[end][v.rest])]]

ReadFields(end, bytes) == Reading[Len(bytes)][end][bytes]
FromParser(end, bytes) == Rewritten(end, ReadFields(end, bytes))

\* What a field says, however it was written.
Meaning(n, value) ==
  CASE n \in FieldsOf(AMOUNT) -> SameAmount(value)
    [] n \in FieldsOf(NUMBER) -> NumberFrom(value)
    [] OTHER -> value

\* What a leaf may be.  That a number is read as what it was is said of it by
\* itself, in NumbersAreKept.
LeafIsValid(n, value) ==
  LET bytes == LeafFrom(n, value)
      type == Definitions[n].type
  IN /\ bytes \in Seq(Byte)
     /\ IF Definitions[n].vl THEN Len(bytes) <= MaxLength ELSE bytes # <<>>
     /\ type = UINT32 => Len(bytes) = 4
     /\ type = AMOUNT => IsAmount(value) /\ AmountIsValid(value) /\ ~Wraps(value)
     /\ type = NUMBER => /\ Meaning(n, LeafToJSON(n, bytes)) = Meaning(n, value)
                        /\ Len(bytes) = Width(type, bytes)
     /\ type = PATHSET => IsPathSet(value)
     /\ type = ISSUE => IsIssue(value)
     /\ (~Definitions[n].vl /\ type \notin {UINT32, AMOUNT, NUMBER, PATHSET, ISSUE}) => Len(bytes) = 1

ASSUME LeafValuesAssumption ==
  \A n \in FieldNames \ Nested : \A value \in LeafValues[n] : LeafIsValid(n, value)

\* What is made of the fields that were read, of objects within by what is below; of
\* fields of one name, an object has the last.
JSONOf(depth, end, fields, below) ==
  LET value == [i \in DOMAIN fields |->
                  LET f == fields[i] IN
                  IF f.name \in Nested THEN below[EndOf(f.name)][f.bytes]
                                       ELSE LeafToJSON(f.name, f.bytes)]
      last(n) == CHOOSE i \in DOMAIN fields :
                   fields[i].name = n /\ \A j \in DOMAIN fields : fields[j].name = n => j <= i
  IN IF depth = 0 THEN <<>>
     ELSE IF end = "ArrayEndMarker"
     THEN [i \in DOMAIN fields |-> [n \in {fields[i].name} |-> value[i]]]
     ELSE [n \in {fields[i].name : i \in DOMAIN fields} |-> value[last(n)]]

\* toJSON of both reads the bytes once more, and those of the objects within, which
\* are at most "depth" deep.
JSON[depth \in Nat] ==
  [end \in Markers |-> [bytes \in Seq(Byte) |->
     JSONOf(depth, end, ReadFields(end, bytes).value, JSON[depth - 1])]]

ToJSON(end, bytes) == JSON[1 + Len(bytes)][end][bytes]

Decode(bytes) == ToJSON("ObjectEndMarker", FromParser("ObjectEndMarker", bytes).value)

-----------------------------------------------------------------------------
(* Documents: one field more at a time.                                    *)

CodecInit == doc = <<>> /\ LeafInit

SetField(n) ==
  /\ leaf = <<>>
  /\ Cardinality(DOMAIN doc) < MaxFields
  /\ n \notin DOMAIN doc
  /\ \E v \in ValuesIn(n, Objects[MaxDepth], MaxDepth) :
       doc' = [m \in DOMAIN doc \cup {n} |-> IF m = n THEN v ELSE doc[m]]
  /\ UNCHANGED leaf

codecVars == <<doc, leaf>>

CodecNext ==
  \/ \E n \in FieldNames \ Markers : SetField(n)
  \/ doc = <<>> /\ (TakeNumber \/ TakeAmount) /\ UNCHANGED doc

CodecSpec == CodecInit /\ [][CodecNext]_codecVars

-----------------------------------------------------------------------------

SaysTheSame(S, one, other) == \A n \in S : Meaning(n, one[n]) = Meaning(n, other[n])

\* Decoding gives back what was encoded, with every X-address as an address and a
\* tag: whatever the fields' codes, whatever bytes that look like an end marker,
\* a separator or a header are in their values, however long these are by
\* themselves, and however objects and arrays are nested.
DecodedAs(obj, decoded) ==
  /\ DOMAIN decoded = DOMAIN obj \cup TagsOf(obj)
  /\ SaysTheSame(DOMAIN obj \ XAddresses(obj), decoded, obj)
  /\ \A n \in XAddresses(obj) : decoded[n] = DecodeXAddress(obj[n]).id
  /\ \A n \in Tagged(obj) : decoded[TagNames[n]] = DecodeXAddress(obj[n]).tag

DecodeInvertsEncode ==
  \A decoded \in {Decode(bytes) : bytes \in Encode(doc)} : DecodedAs(doc, decoded)

SignedAs(obj, signed) ==
  LET x == XAddressDecoded(obj)
  IN DOMAIN signed = DOMAIN x \cap SigningFields /\ SaysTheSame(DOMAIN signed, signed, x)

\* What a signature covers is all of the document but the fields that are not
\* signed, those of objects within it included: nothing else may be changed
\* without breaking the signature.
SignedDataIsTheRest ==
  \A signed \in {Decode(bytes) : bytes \in SigningData(doc)} : SignedAs(doc, signed)

\* A length is read as it was written, on both sides of every change of format.
LengthsAreRead ==
  (doc = <<>> /\ leaf = <<>>) => \A l \in Lengths : ReadVariableLengthLength(EncodeVariableLength(l)) = Got(l, <<>>)

\* What the codec writes is what it reads: a document, whole or for signing, and an
\* amount or a length by itself.
DocumentsRoundTrip ==
  DecodeInvertsEncode /\ SignedDataIsTheRest /\ LengthsAreRead /\ AmountsAreKept

=============================================================================
