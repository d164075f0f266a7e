---------------------------------- MODULE TxForms ----------------------------------
(* The values a field of a transaction may have in JSON, what                *)
(* models/transactions/common.ts says of their form, and the form in which   *)
(* they come back from ripple-binary-codec once they were signed.            *)
EXTENDS Integers, Sequences, FiniteSets

CONSTANTS
  MaxMptAmount,  \* 2^63 - 1, scaled down: the largest MPT amount
  HighBit,       \* 2^63, scaled down: what is above is cut or refused
  MaxUInt8, MaxUInt16

ASSUME TxFormsAssumption ==
  /\ {MaxMptAmount, HighBit, MaxUInt8, MaxUInt16} \subseteq Nat
  /\ MaxMptAmount < HighBit /\ MaxUInt8 < MaxUInt16

(* Values. A string is an address, digits, a number, a currency, a name or   *)
(* another text; a number may stand for a set of flags.                      *)
Num(n) == [num |-> n]
Bits(flags) == [bits |-> flags]
Address(a) == [acct |-> a, x |-> FALSE, tag |-> 0]
XAddress(a, tag) == [acct |-> a, x |-> TRUE, tag |-> tag]
Hex(id, len) == [hex |-> id, len |-> len, lower |-> FALSE]
LowerHex(id, len) == [hex |-> id, len |-> len, lower |-> TRUE]
Dec(n) == [dec |-> n, as |-> "plain"]
DecAs(n, as) == [dec |-> n, as |-> as]
Iso(c) == [code |-> c, as |-> "iso"]
CurrencyHex(c) == [code |-> c, as |-> "hex"]
Name(n) == [name |-> n]
Text(t) == [text |-> t]
True == [bool |-> TRUE]
Obj(f) == [obj |-> f]
Arr(s) == [arr |-> s]

IsRecord(v) == "obj" \in DOMAIN v
IsArray(v) == "arr" \in DOMAIN v
IsString(v) == DOMAIN v \cap {"acct", "hex", "dec", "code", "name", "text"} # {}
IsNumber(v) == DOMAIN v \cap {"num", "bits"} # {}
IsAny(v) == TRUE

Keys(v) == DOMAIN v.obj
Elements(v) == {v.arr[i] : i \in DOMAIN v.arr}
Has(tx, f) == f \in DOMAIN tx

IsHex(v) ==
  \/ "hex" \in DOMAIN v
  \/ "dec" \in DOMAIN v /\ v.as \in {"plain", "zeros"} /\ v.dec >= 0
  \/ "code" \in DOMAIN v /\ v.as = "hex"

HexLength(v) == IF "len" \in DOMAIN v THEN v.len ELSE IF "code" \in DOMAIN v THEN 40 ELSE 1

\* INTEGER_SANITY_CHECK.
IsDigits(v) == "dec" \in DOMAIN v /\ v.as \in {"plain", "zeros"} /\ v.dec >= 0
IsXRPLNumber(v) == "dec" \in DOMAIN v
IsAccount(v) == "acct" \in DOMAIN v

IsIssuedCurrency(v) ==
  /\ IsRecord(v)
  /\ \/ Cardinality(Keys(v)) = 2 /\ {"issuer", "currency"} \subseteq Keys(v)
        /\ IsString(v.obj["issuer"]) /\ IsString(v.obj["currency"])
     \/ Keys(v) = {"currency"} /\ v.obj["currency"] = Iso("XRP")

IsCurrency(v) ==
  \/ IsIssuedCurrency(v)
  \/ IsRecord(v) /\ Keys(v) = {"mpt_issuance_id"} /\ IsString(v.obj["mpt_issuance_id"])

IsIssuedCurrencyAmount(v) ==
  /\ IsRecord(v) /\ Keys(v) = {"value", "issuer", "currency"}
  /\ \A k \in Keys(v) : IsString(v.obj[k])

IsMPTAmount(v) ==
  /\ IsRecord(v) /\ Keys(v) = {"value", "mpt_issuance_id"}
  /\ \A k \in Keys(v) : IsString(v.obj[k])

IsTokenAmount(v) == IsIssuedCurrencyAmount(v) \/ IsMPTAmount(v)
IsAmount(v) == IsString(v) \/ IsTokenAmount(v)

\* The value of an amount, or "NaN".
ParseAmountValue(v) ==
  IF "dec" \in DOMAIN v THEN v.dec
  ELSE IF IsTokenAmount(v) /\ "dec" \in DOMAIN v.obj["value"] THEN v.obj["value"].dec ELSE 0

IsNaNAmount(v) ==
  ~ ("dec" \in DOMAIN v \/ (IsTokenAmount(v) /\ "dec" \in DOMAIN v.obj["value"]))

IsXChainBridge(v) ==
  /\ IsRecord(v)
  /\ Keys(v) = {"LockingChainDoor", "LockingChainIssue", "IssuingChainDoor", "IssuingChainIssue"}
  /\ \A k \in {"LockingChainDoor", "IssuingChainDoor"} : IsString(v.obj[k])
  /\ \A k \in {"LockingChainIssue", "IssuingChainIssue"} : IsIssuedCurrency(v.obj[k])

IsAuthorizeCredential(v) ==
  /\ IsRecord(v) /\ Keys(v) = {"Credential"} /\ IsRecord(v.obj["Credential"])
  /\ \A k \in {"CredentialType", "Issuer"} :
       k \in Keys(v.obj["Credential"]) /\ IsString(v.obj["Credential"].obj[k])

IsLedgerEntryId(v) == IsHex(v) /\ HexLength(v) = 64
IsDomainID(v) == IsLedgerEntryId(v) /\ v.hex # "0"
IsHexMetadata(v, upTo) == IsHex(v) /\ HexLength(v) \in 1..upTo
IsHexWithByteLength(v, bytes) == IsHex(v) /\ HexLength(v) = 2 * bytes

Required(tx, f, Check(_)) == Has(tx, f) /\ Check(tx[f])
Optional(tx, f, Check(_)) == Has(tx, f) => Check(tx[f])

(* Accounts. "===" compares addresses as they are written; areAddressesEqual *)
(* compares the accounts.                                                    *)
SameText(v, w) == v = w

\* Mutant: X-addresses are not converted.
AreAddressesEqual_AsWritten(v, w) == v = w

AreAddressesEqual(v, w) ==
  IF IsAccount(v) /\ IsAccount(w) THEN v.acct = w.acct ELSE v = w

\* The issuer is part of the MPTokenIssuanceID, whose id is written "mpt" and its name.
IsMPTIssuer(account, id) ==
  IsAccount(account) /\ "hex" \in DOMAIN id /\ id.hex = "mpt" \o account.acct

(* Credentials: lists of ids, or of issuers and types. *)
ContainsDuplicates(list) ==
  \E i, j \in DOMAIN list.arr : i < j /\
    IF IsRecord(list.arr[i])
    THEN \A k \in {"Issuer", "CredentialType"} :
           list.arr[i].obj["Credential"].obj[k] = list.arr[j].obj["Credential"].obj[k]
    ELSE list.arr[i] = list.arr[j]

ValidateCredentialsList(tx, f, isStringID, maxCredentials) ==
  Has(tx, f) =>
    /\ IsArray(tx[f]) /\ Len(tx[f].arr) \in 1..maxCredentials
    /\ \A c \in Elements(tx[f]) : IF isStringID THEN IsString(c) ELSE IsAuthorizeCredential(c)
    /\ ~ ContainsDuplicates(tx[f])

ValidateCredentialType(tx) ==
  /\ Has(tx, "CredentialType") /\ IsHex(tx["CredentialType"])
  /\ HexLength(tx["CredentialType"]) \in 1..128

ValidateConfidentialMPTAmount(tx, allowZero) ==
  /\ Has(tx, "MPTAmount") /\ IsDigits(tx["MPTAmount"])
  /\ tx["MPTAmount"].dec <= MaxMptAmount /\ (allowZero \/ tx["MPTAmount"].dec # 0)

(* Flags, as a number or as a record of names. *)
GlobalFlags == {"tfInnerBatchTxn"}

HasFlag(tx, flag) ==
  /\ Has(tx, "Flags")
  /\ IF IsRecord(tx["Flags"]) THEN flag \in Keys(tx["Flags"]) ELSE flag \in tx["Flags"].bits

\* What convertTxFlagsToNumber makes of the flags that flagEnum knows.
FlagsKnown(tx, flagEnum) ==
  (Has(tx, "Flags") /\ IsRecord(tx["Flags"])) => Keys(tx["Flags"]) \subseteq flagEnum \cup GlobalFlags

ConvertTxFlagsToNumber(tx) ==
  IF ~ Has(tx, "Flags") THEN Bits({})
  ELSE IF IsRecord(tx["Flags"]) THEN Bits(Keys(tx["Flags"])) ELSE tx["Flags"]
=============================================================================
