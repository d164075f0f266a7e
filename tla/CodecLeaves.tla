-------------------------------- MODULE CodecLeaves --------------------------------
(***************************************************************************)
(* The leaf types of ripple-binary-codec whose form depends on their value *)
(* (amount.ts, st-number.ts, path-set.ts, issue.ts, quality.ts) and        *)
(* X-addresses (ripple-address-codec/src/index.ts).                        *)
(*                                                                         *)
(* Decimal texts are digits, a sign and an exponent; a loop that shifts a  *)
(* number by one digit until it fits is the number of its rounds.  Widths  *)
(* and limits are constants, which TLC gives fewer digits than the code.   *)
(* Abstracted: an account, a currency and an MPT id have one byte, and the *)
(* base58 text of an address, with its checksum, is its bytes.             *)
(***************************************************************************)
EXTENDS CodecFrames, FiniteSets
LOCAL INSTANCE SequencesExt
LOCAL INSTANCE FiniteSetsExt

CONSTANTS
  RangeLog,               \* 18: a Number's mantissa has this many digits after the first
  MAX_INT64,              \* 2^63 - 1
  MIN_EXPONENT,           \* -32768
  MAX_EXPONENT,           \* 32768
  DEFAULT_VALUE_EXPONENT, \* -2^31
  IntWidth,               \* bytes of a Number's mantissa and of its exponent, 8 and 4
  Pad,                    \* 10: how far decimal texts reach beyond the mantissa
  AmountWidth,            \* 8: bytes of an amount
  MAX_IOU_PRECISION,      \* 16
  MIN_IOU_EXPONENT,       \* -96
  MAX_IOU_EXPONENT,       \* 80
  MAX_DROPS,              \* 10^17
  NumberTexts,            \* bound: texts of numbers
  Amounts                 \* bound: amounts

\* b to the power of n.
Power(b, n) ==
  LET power[k \in Nat] == IF k = 0 THEN 1 ELSE b * power[k - 1] IN power[n]

MIN_MANTISSA == Power(10, RangeLog)
MAX_MANTISSA == Power(10, RangeLog + 1) - 1

ASSUME LeavesAssumption ==
  /\ MIN_MANTISSA < MAX_INT64 /\ MAX_INT64 < MAX_MANTISSA
  /\ 2 * MAX_INT64 < Power(256, IntWidth)
  \* Bits that mark what an amount is are free in the amounts.
  /\ AmountWidth \in Nat /\ AmountWidth >= 2 /\ MAX_IOU_PRECISION \in Nat
  /\ MAX_DROPS \in Int /\ MAX_DROPS < 32 * Power(256, AmountWidth - 1)
  /\ Power(10, MAX_IOU_PRECISION) <= 64 * Power(256, AmountWidth - 2)
  /\ MIN_IOU_EXPONENT \in Int /\ MAX_IOU_EXPONENT \in Int
  /\ MIN_IOU_EXPONENT + 97 > 0 /\ MAX_IOU_EXPONENT + 100 < 256

-----------------------------------------------------------------------------
(* Digits and bytes.                                                       *)

Value(digits) == FoldLeft(LAMBDA n, d : 10 * n + d, 0, digits)

\* How many digits a number has.
Size(n) == CHOOSE k \in 1 .. n + 1 : n < Power(10, k) /\ (k = 1 \/ Power(10, k - 1) <= n)

Digits(n) ==
  LET size == Size(n) IN [i \in 1..size |-> (n \div Power(10, size - i)) % 10]

Zeros(n) == [i \in 1..n |-> 0]

TrailingZeros(n) ==
  IF n = 0 THEN 0 ELSE CHOOSE k \in 0..n : n % Power(10, k) = 0 /\ n % Power(10, k + 1) # 0

\* Big-endian, of two's complement.
WriteInt(n, width) == [i \in 1..width |-> (n \div Power(256, width - i)) % 256]
ReadUInt(bytes) ==
  LET value[i \in 0..Len(bytes)] == IF i = 0 THEN 0 ELSE 256 * value[i - 1] + bytes[i]
  IN value[Len(bytes)]
ReadInt(bytes) ==
  LET n == ReadUInt(bytes) IN IF bytes[1] >= 128 THEN n - Power(256, Len(bytes)) ELSE n

-----------------------------------------------------------------------------
(* STNumber.  A text is [neg, int, frac, exp], int and frac digits.        *)

\* A BigNumber: m without its trailing zeros.
Canonical(neg, m, e) ==
  LET zeros == TrailingZeros(m)
  IN [neg |-> neg /\ m # 0, m |-> m \div Power(10, zeros), e |-> IF m = 0 THEN 0 ELSE e + zeros]

\* extractNumberPartsFromString
Parts(text) == Canonical(text.neg, Value(text.int \o text.frac), text.exp - Len(text.frac))

\* Digits more, and digits less, the last of which is remembered.
Grow(n, k) == [m |-> n.m * Power(10, k), e |-> n.e - k, last |-> 0]
Shrink(n, k) == [m |-> n.m \div Power(10, k), e |-> n.e + k, last |-> (n.m \div Power(10, k - 1)) % 10]

GrowToFit(n) ==
  Grow(n, Min({k \in 0..RangeLog : n.m * Power(10, k) >= MIN_MANTISSA \/ n.e - k <= MIN_EXPONENT}))

ShrinkToFit(n) ==
  IF n.m <= MAX_MANTISSA THEN n
  ELSE Shrink(n, Min({k \in 1..9 : n.m \div Power(10, k) <= MAX_MANTISSA}))

FitInt64(n) == IF n.m > MAX_INT64 THEN Shrink(n, 1) ELSE n

\* Mutant: what is dropped is forgotten.
RoundUp_Truncates(n) == n

RoundUp(n) == IF n.last >= 5 THEN [n EXCEPT !.m = @ + 1] ELSE n

\* After rounding, the mantissa may exceed MAX_INT64 again.
RoundAgain(n) == IF n.m > MAX_INT64 THEN RoundUp(Shrink(n, 1)) ELSE n

\* normalize, of a mantissa that is not zero: nothing where it throws.
NotBelow(n) == IF n.e < MIN_EXPONENT \/ n.m < MIN_MANTISSA THEN {} ELSE {n}
NotAbove(n) == IF n.e > MAX_EXPONENT THEN {} ELSE {n}

Normalize(p) ==
  UNION {NotAbove(RoundAgain(RoundUp(FitInt64(n)))) : n \in NotBelow(ShrinkToFit(GrowToFit(p)))}

NumberBytes(m, e) == WriteInt(m, IntWidth) \o WriteInt(e, IntWidth)

\* STNumber.fromValue: nothing where it throws.
NumberFrom(text) ==
  LET p == Parts(text) IN
  IF p.m = 0 THEN {NumberBytes(0, DEFAULT_VALUE_EXPONENT)}
  ELSE {NumberBytes(IF p.neg THEN -n.m ELSE n.m, n.e) : n \in Normalize(p)}

Decimal(neg, m, e) ==
  LET raw == Zeros(RangeLog + Pad + 2) \o Digits(m) \o Zeros(RangeLog + Pad - 2)
      offset == e + RangeLog + Pad + 2 + RangeLog + 1
      digits == {i \in DOMAIN raw : raw[i] # 0}
  IN [neg |-> neg, exp |-> 0,
      int |-> IF \A i \in digits : i > offset THEN <<0>> ELSE SubSeq(raw, Min(digits), offset),
      frac |-> SubSeq(raw, offset + 1, Max(digits))]

Scientific(neg, m, e) ==
  LET zeros == Max({k \in 0..TrailingZeros(m) : k = 0 \/ e + k <= MAX_EXPONENT})
  IN [neg |-> neg, int |-> Digits(m \div Power(10, zeros)), frac |-> <<>>, exp |-> e + zeros]

\* What 2^63 made a digit shorter gets it back.
Restored(n) == IF n.m < MIN_MANTISSA THEN Grow(n, 1) ELSE n

Rendered(neg, n) ==
  IF n.e # 0 /\ (n.e < -(RangeLog + Pad) \/ n.e > -(RangeLog - Pad))
  THEN Scientific(neg, n.m, n.e) ELSE Decimal(neg, n.m, n.e)

\* STNumber.toJSON, of what NumberFrom writes.
NumberToJSON(bytes) ==
  LET m == ReadInt(SubSeq(bytes, 1, IntWidth)) IN
  IF m = 0 THEN [neg |-> FALSE, int |-> <<0>>, frac |-> <<>>, exp |-> 0]
  ELSE Rendered(m < 0, Restored([m |-> IF m < 0 THEN -m ELSE m, e |-> ReadInt(Skip(bytes, IntWidth))]))

-----------------------------------------------------------------------------
(* Amount: [drops], [value, mpt] or [neg, m, e, currency, issuer].         *)

IsXRP(a) == "drops" \in DOMAIN a
IsMPT(a) == "mpt" \in DOMAIN a

Names == {<<b>> : b \in Byte}

IsAmount(a) ==
  \/ IsXRP(a) /\ a = [drops |-> a.drops] /\ a.drops \in Int
  \/ IsMPT(a) /\ a = [value |-> a.value, mpt |-> a.mpt] /\ a.value \in Int /\ a.mpt \in Names
  \/ a \in [neg : BOOLEAN, m : Nat, e : Int, currency : Names, issuer : Names]

ASSUME AmountsAssumption == \A a \in Amounts : IsAmount(a)

\* The exponent of a mantissa with all its digits.
FullExponent(n) == n.e + Size(n.m) - MAX_IOU_PRECISION

\* assertIouIsValid
IouIsValid(n) ==
  n.m # 0 => /\ Size(n.m) <= MAX_IOU_PRECISION
             /\ FullExponent(n) \in MIN_IOU_EXPONENT..MAX_IOU_EXPONENT

\* assertXrpIsValid, assertMptIsValid and assertIouIsValid
AmountIsValid(a) ==
  CASE IsXRP(a) -> a.drops \in 0..MAX_DROPS
    [] IsMPT(a) -> a.value >= 0 /\ a.value \div (128 * Power(256, AmountWidth - 1)) % 2 = 0
    [] OTHER -> IouIsValid(Canonical(a.neg, a.m, a.e))

\* Bits that byte i does not have.
Or(bytes, i, bits) == [j \in DOMAIN bytes |-> IF j = i THEN bytes[j] + bits ELSE bytes[j]]

IouBytes(n) ==
  LET exponent == 97 + FullExponent(n)
      mantissa == WriteInt(n.m * Power(10, MAX_IOU_PRECISION - Size(n.m)), AmountWidth)
  IN IF n.m = 0 THEN Or(WriteInt(0, AmountWidth), 1, 128)
     ELSE Or(Or(mantissa, 1, 128 + (IF n.neg THEN 0 ELSE 64) + exponent \div 4),
             2, (exponent % 4) * 64)

\* Amount.from, of a valid amount.
AmountFrom(a) ==
  CASE IsXRP(a) -> Or(WriteInt(a.drops, AmountWidth), 1, 64)
    [] IsMPT(a) -> <<96>> \o WriteInt(a.value, AmountWidth) \o a.mpt
    [] OTHER -> IouBytes(Canonical(a.neg, a.m, a.e)) \o a.currency \o a.issuer

HasBit(byte, bit) == (byte \div bit) % 2 = 1

\* Amount.fromParser: how many bytes there are.
AmountLength(first) ==
  CASE HasBit(first, 128) -> AmountWidth + 2
    [] ~HasBit(first, 128) /\ HasBit(first, 32) -> 1 + AmountWidth + 1
    [] OTHER -> AmountWidth

IouToJSON(bytes) ==
  LET exponent == (bytes[1] % 64) * 4 + bytes[2] \div 64 - 97
      m == ReadUInt([SubSeq(bytes, 1, AmountWidth) EXCEPT ![1] = 0, ![2] = @ % 64])
      n == Canonical(~HasBit(bytes[1], 64), m, exponent)
  IN [neg |-> n.neg, m |-> n.m, e |-> n.e,
      currency |-> <<bytes[AmountWidth + 1]>>, issuer |-> <<bytes[AmountWidth + 2]>>]

\* Amount.toJSON
AmountToJSON(bytes) ==
  LET sign == IF HasBit(bytes[1], 64) THEN 1 ELSE -1 IN
  CASE HasBit(bytes[1], 128) -> IouToJSON(bytes)
    [] ~HasBit(bytes[1], 128) /\ HasBit(bytes[1], 32) ->
         [value |-> sign * ReadUInt(SubSeq(bytes, 2, AmountWidth + 1)),
          mpt |-> Skip(bytes, AmountWidth + 1)]
    [] OTHER -> [drops |-> sign * ReadUInt([bytes EXCEPT ![1] = @ % 64])]

\* What an amount is, however it was written.
SameAmount(a) ==
  IF IsXRP(a) \/ IsMPT(a) THEN a
  ELSE LET n == Canonical(a.neg, a.m, a.e)
       IN [neg |-> n.neg, m |-> n.m, e |-> n.e, currency |-> a.currency, issuer |-> a.issuer]

-----------------------------------------------------------------------------
(* Quality: a number in the order of its bytes, as directories keep it.    *)

QualityOf(n) ==
  LET mantissa == WriteInt(n.m * Power(10, MAX_IOU_PRECISION - Size(n.m)), AmountWidth)
  IN <<(FullExponent(n) + 100) % 256>> \o Tail(mantissa)

QualityDecoded(bytes) == Canonical(FALSE, ReadUInt(Tail(bytes)), bytes[1] - 100)

-----------------------------------------------------------------------------
(* PathSet: a sequence of paths, which are sequences of hops; a hop is a   *)
(* function from some of account, currency and issuer.                     *)

PATHSET_END_BYTE == 0
PATH_SEPARATOR_BYTE == 255

HopType == [account |-> 1, currency |-> 16, issuer |-> 32]

\* What a payment may have, as isPathStep, isPath and isPaths say: a hop has a part,
\* a path a hop, and a path set a path.
IsHop(hop) ==
  /\ DOMAIN hop # {} /\ DOMAIN hop \subseteq DOMAIN HopType
  /\ hop \in [DOMAIN hop -> {<<b>> : b \in Byte}]
IsFilled(seq) == Len(seq) \in Nat \ {0} /\ seq = [i \in 1..Len(seq) |-> seq[i]]
IsPathSet(paths) ==
  /\ IsFilled(paths)
  /\ \A i \in DOMAIN paths : IsFilled(paths[i]) /\ \A j \in DOMAIN paths[i] : IsHop(paths[i][j])

HopFrom(hop) ==
  LET bit(f) == IF f \in DOMAIN hop THEN HopType[f] ELSE 0
      part(f) == IF f \in DOMAIN hop THEN hop[f] ELSE <<>>
  IN <<bit("account") + bit("currency") + bit("issuer")>>
     \o part("account") \o part("currency") \o part("issuer")

PathSetFrom(paths) ==
  FlattenSeq([i \in DOMAIN paths |->
    FlattenSeq([j \in DOMAIN paths[i] |-> HopFrom(paths[i][j])])
    \o <<IF i = Len(paths) THEN PATHSET_END_BYTE ELSE PATH_SEPARATOR_BYTE>>])

\* Hop.fromParser and toJSON
ReadHop(bytes) ==
  LET has(f) == IF HasBit(bytes[1], HopType[f]) THEN 1 ELSE 0
      place == [account |-> 2, currency |-> 2 + has("account"),
                issuer |-> 2 + has("account") + has("currency")]
  IN Got([f \in {g \in DOMAIN HopType : has(g) = 1} |-> <<bytes[place[f]]>>],
         Skip(bytes, 1 + has("account") + has("currency") + has("issuer")))

Before(value, more) == Got(<<value>> \o more.value, more.rest)

\* Path.fromParser and PathSet.fromParser, of at most "left" hops: a hop is the last
\* of the set, the last of its path, or the first of a path that goes on.
ReadingPaths[left \in Nat] ==
  [bytes \in Seq(Byte) |->
     LET hop == ReadHop(bytes)
         next == hop.rest[1]
         after == ReadingPaths[left - 1]
     IN IF left = 0 \/ next = PATHSET_END_BYTE \/ (next = PATH_SEPARATOR_BYTE /\ Len(hop.rest) = 1)
        THEN Got(<< <<hop.value>> >>, Tail(hop.rest))
        ELSE IF next = PATH_SEPARATOR_BYTE THEN Before(<<hop.value>>, after[Tail(hop.rest)])
        ELSE LET more == after[hop.rest]
             IN Got(<< <<hop.value>> \o Head(more.value) >> \o Tail(more.value), more.rest)]

ReadPathSet(bytes) == ReadingPaths[Len(bytes)][bytes]

-----------------------------------------------------------------------------
(* Issue: [currency], [currency, issuer] or [mpt], an MPT id being the     *)
(* four bytes of a sequence and an account.                                *)

NO_ACCOUNT == <<1>>
XRP == <<0>>

\* The issuer of an MPT is not account zero.
IsIssue(issue) ==
  \/ issue = [currency |-> XRP]
  \/ \E c \in Byte \ {0}, i \in Byte \ {1} : issue = [currency |-> <<c>>, issuer |-> <<i>>]
  \/ /\ IsMPT(issue) /\ issue = [mpt |-> issue.mpt]
     /\ issue.mpt \in Seq(Byte) /\ Len(issue.mpt) = 5 /\ issue.mpt[5] # 0

IssueFrom(issue) ==
  IF IsMPT(issue) THEN <<issue.mpt[5]>> \o NO_ACCOUNT \o Reverse(SubSeq(issue.mpt, 1, 4))
  ELSE IF "issuer" \in DOMAIN issue THEN issue.currency \o issue.issuer
  ELSE issue.currency

\* Issue.fromParser: how many bytes there are.
IssueLength(bytes) ==
  CASE <<bytes[1]>> = XRP -> 1
    [] <<bytes[1]>> # XRP /\ <<bytes[2]>> = NO_ACCOUNT -> 6
    [] OTHER -> 2

IssueToJSON(bytes) ==
  CASE Len(bytes) = 6 -> [mpt |-> Append(Reverse(Skip(bytes, 2)), bytes[1])]
    [] Len(bytes) # 6 /\ <<bytes[1]>> = XRP -> [currency |-> XRP]
    [] OTHER -> [currency |-> <<bytes[1]>>, issuer |-> <<bytes[2]>>]

-----------------------------------------------------------------------------
(* X-addresses.  A tag is four bytes, <<>> is none.                        *)

Networks == [main |-> <<5, 68>>, test |-> <<4, 147>>]

EncodeXAddress(id, tag, network) ==
  Networks[network] \o id \o
  (IF tag = <<>> THEN Zeros(9) ELSE <<1>> \o Reverse(tag) \o Zeros(4))

\* isValidXAddress: decodeXAddress does not throw.  What is shorter has no such prefix.
IsXAddress(bytes) ==
  /\ Len(bytes) = 12
  /\ \E network \in DOMAIN Networks : SubSeq(bytes, 1, 2) = Networks[network]
  /\ bytes[4] < 2
  /\ bytes[4] = 0 => Skip(bytes, 4) = Zeros(8)

DecodeXAddress(bytes) ==
  [id |-> <<bytes[3]>>, tag |-> IF bytes[4] = 1 THEN Reverse(SubSeq(bytes, 5, 8)) ELSE <<>>]

-----------------------------------------------------------------------------
(* A number or an amount at a time is written and read.                    *)

VARIABLE leaf  \* [number], [amount], or <<>> before

LeafInit == leaf = <<>>

TakeNumber == leaf = <<>> /\ \E text \in NumberTexts : leaf' = [number |-> text]
TakeAmount == leaf = <<>> /\ \E a \in Amounts : leaf' = [amount |-> a]

-----------------------------------------------------------------------------

\* The leading digit of a number stands at 10 to the power of its Place.
Place(p) == p.e + Size(p.m) - 1

\* What a Number may hold, rounded half up.
InRange(p) ==
  /\ Place(p) >= RangeLog + MIN_EXPONENT
  /\ \/ Place(p) < RangeLog + MAX_EXPONENT
     \/ /\ Place(p) = RangeLog + MAX_EXPONENT
        /\ LET low == Min({p.e, MAX_EXPONENT})
           IN 2 * p.m * Power(10, p.e - low) < (2 * MAX_INT64 + 1) * Power(10, MAX_EXPONENT - low)

\* The bytes are a number that is at most half a unit of its last digit away.
IsNearest(p, bytes) ==
  LET m == ReadInt(SubSeq(bytes, 1, IntWidth))
      e == ReadInt(Skip(bytes, IntWidth))
      low == Min({p.e, e})
      value == (IF p.neg THEN -p.m ELSE p.m) * Power(10, p.e - low)
      error == m * Power(10, e - low) - value
  IN 2 * (IF error < 0 THEN -error ELSE error) <= Power(10, e - low)

\* A number is refused only if it is out of range, is rounded to the nearest that
\* its mantissa can hold (where the mantissa is beyond 2^63 that is one digit less,
\* and rounding up may get there), and its text is read as the same bytes again.
NumberIsKept(p, n) ==
  /\ p.m # 0 => (n # {} <=> InRange(p))
  /\ \A bytes \in n :
       /\ p.m # 0 => IsNearest(p, bytes)
       /\ NumberFrom(NumberToJSON(bytes)) = n

\* assertMptIsValid tests one bit only: what is beyond the width is not refused,
\* and loses its first bits.
Wraps(a) == IsMPT(a) /\ a.value >= Power(256, AmountWidth)

\* An amount that is neither refused nor wraps is read as what it was, and by its
\* first byte has as many bytes as were written: the exponent, the sign and the
\* marks of what it is share the first two bytes with the mantissa.
AmountIsKept(a, bytes) ==
  AmountToJSON(bytes) = SameAmount(a) /\ AmountLength(bytes[1]) = Len(bytes)

\* A quality is read as the number that was written.
QualityIsKept(n) == n.m = 0 \/ n.neg \/ QualityDecoded(QualityOf(n)) = n

\* Numbers are read as what was written, and so are amounts and the qualities that
\* they may be.
NumbersAreKept ==
  "number" \in DOMAIN leaf => NumberIsKept(Parts(leaf.number), NumberFrom(leaf.number))

AmountsAreKept ==
  ("amount" \in DOMAIN leaf /\ AmountIsValid(leaf.amount) /\ ~Wraps(leaf.amount)) =>
    /\ AmountIsKept(leaf.amount, AmountFrom(leaf.amount))
    /\ "issuer" \in DOMAIN leaf.amount =>
         QualityIsKept(Canonical(leaf.amount.neg, leaf.amount.m, leaf.amount.e))

=============================================================================
