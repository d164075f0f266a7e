---------------------------------- MODULE TxWire ----------------------------------
(* What comes back of a transaction when ripple-binary-codec has encoded it  *)
(* and decoded it again. Where the codec throws there is nothing: every      *)
(* operator returns a set of at most one value.                              *)
EXTENDS TxForms
LOCAL INSTANCE TLC

\* definitions.json, as far as the modelled transactions have its fields.
FieldsOf == [
  UInt8 |-> {"AssetScale", "Scale", "TickSize", "VaultKind", "WasLockingChainSend",
    "WithdrawalPolicy"},
  UInt16 |-> {"ManagementFeeRate", "TradingFee", "TransferFee", "SignerWeight", "DiscountedFee"},
  UInt32 |-> {"CancelAfter", "ClearFlag", "CloseInterestRate", "CoverRateLiquidation",
    "CoverRateMinimum", "DestinationTag", "Expiration", "FinishAfter", "Flags", "GracePeriod",
    "ImmutableFlags", "InterestRate", "LastUpdateTime", "LateInterestRate", "NFTokenTaxon",
    "OfferSequence", "OracleDocumentID", "OverpaymentFee", "OverpaymentInterestRate",
    "PaymentInterval", "PaymentTotal", "QualityIn", "QualityOut", "RedemptionDate", "SetFlag",
    "SettleDelay", "SignerQuorum", "SubscriptionDate", "TicketCount", "TransferRate",
    "SourceTag", "Sequence", "LastLedgerSequence", "TicketSequence", "NetworkID", "SponsorFlags"},
  UInt64 |-> {"XChainAccountCreateCount", "XChainClaimID", "AssetPrice"},
  BaseTen |-> {"MPTAmount", "MaximumAmount"},
  Int32 |-> {"RemainingOwnerCountDelta"},
  Hash128 |-> {"EmailHash"},
  Hash192 |-> {"MPTokenIssuanceID"},
  Hash256 |-> {"BlindingFactor", "Channel", "CheckID", "DomainID", "InvoiceID", "LoanBrokerID",
    "LoanID", "NFTokenBuyOffer", "NFTokenID", "NFTokenSellOffer", "ObjectID", "VaultID",
    "AccountTxnID", "WalletLocator"},
  Blob |-> {"AmountCommitment", "AssetClass", "AuditorEncryptedAmount", "AuditorEncryptionKey",
    "BalanceCommitment", "Condition", "CredentialType", "DIDDocument", "Data",
    "DestinationEncryptedAmount", "Domain", "Fulfillment", "HolderEncryptedAmount",
    "HolderEncryptionKey", "IssuerEncryptedAmount", "IssuerEncryptionKey", "MPTokenMetadata",
    "MemoData", "MemoFormat", "MemoType", "MessageKey", "Provider", "PublicKey",
    "SenderEncryptedAmount", "Signature", "SigningPubKey", "TxnSignature", "URI", "ZKProof"},
  AccountID |-> {"Account", "AttestationRewardAccount", "AttestationSignerAccount", "Authorize",
    "Counterparty", "CounterpartySponsor", "Delegate", "Destination", "Holder", "Issuer",
    "NFTokenMinter", "OtherChainDestination", "OtherChainSource", "Owner", "RegularKey",
    "Sponsee", "Sponsor", "Subject", "Unauthorize"},
  Amount |-> {"Amount", "Amount2", "Balance", "BidMax", "BidMin", "DeliverMin", "EPrice", "Fee",
    "LPTokenIn", "LPTokenOut", "LimitAmount", "MaxFee", "MinAccountCreateAmount",
    "NFTokenBrokerFee", "SendMax", "SignatureReward", "TakerGets", "TakerPays"},
  SignedAmount |-> {"FeeAmountDelta"},
  Issue |-> {"Asset", "Asset2"},
  Currency |-> {"BaseAsset", "QuoteAsset"},
  Number |-> {"AssetsMaximum", "ClosePaymentFee", "DebtMaximum", "LatePaymentFee",
    "LoanOriginationFee", "LoanServiceFee", "PrincipalRequested"},
  Vector256 |-> {"CredentialIDs", "NFTokenOffers"},
  PathSet |-> {"Paths"},
  XChainBridge |-> {"XChainBridge"},
  STArray |-> {"AcceptedCredentials", "AuthAccounts", "AuthorizeCredentials", "BatchSigners",
    "Memos", "Permissions", "PriceDataSeries", "RawTransactions", "SignerEntries", "Signers",
    "UnauthorizeCredentials"},
  STObject |-> {"AuthAccount", "BatchSigner", "CounterpartySignature", "Credential", "Memo",
    "Permission", "PriceData", "RawTransaction", "Signer", "SignerEntry", "SponsorSignature"},
  Enum |-> {"PermissionValue", "TransactionType"}]

TypeOf == [f \in UNION {FieldsOf[t] : t \in DOMAIN FieldsOf} |->
             CHOOSE t \in DOMAIN FieldsOf : f \in FieldsOf[t]]

Digits64(n) == Hex(n, 16)

\* The last digit of an odd number of them is dropped, and letters are in upper case.
BlobValue(v) ==
  IF v = Text("") \/ (IsHex(v) /\ HexLength(v) = 1) THEN {Text("")}
  ELSE IF "hex" \in DOMAIN v THEN {Hex(v.hex, v.len - (v.len % 2))}
  ELSE IF IsHex(v) THEN {v} ELSE {}

HashValue(v, digits) ==
  IF "hex" \in DOMAIN v /\ v.len \in digits .. digits + 1 THEN {Hex(v.hex, digits)} ELSE {}

UIntValue(v, max) ==
  IF "bits" \in DOMAIN v \/ ("num" \in DOMAIN v /\ v.num \in 0..max) THEN {v} ELSE {}

\* parseInt stops at the point or at the exponent, and what is no number is 0.
UInt32Value(v) ==
  IF IsNumber(v) THEN (IF "num" \in DOMAIN v /\ v.num < 0 THEN {} ELSE {v})
  ELSE IF ~ IsString(v) THEN {}
  ELSE IF "dec" \notin DOMAIN v THEN {Num(0)}
  ELSE IF v.as = "exp" THEN {Num(v.dec \div 10)} ELSE {Num(v.dec)}

\* A string is read as hexadecimal.
UInt64Value(v) ==
  IF "num" \in DOMAIN v /\ v.num >= 0 THEN {Digits64(ToString(v.num))}
  ELSE IF "hex" \in DOMAIN v /\ v.len <= 16 THEN {Digits64(v.hex)}
  ELSE IF "dec" \in DOMAIN v /\ v.as \in {"plain", "zeros"} /\ v.dec >= 0
       THEN {Digits64("0x" \o ToString(v.dec))} ELSE {}

\* Mutant: every string is read as hexadecimal.
BaseTenValue_Hex(v) == UInt64Value(v)

\* The fields that are decimal when they are written as a string.
BaseTenValue(v) ==
  IF "num" \in DOMAIN v /\ v.num >= 0 THEN {Dec(v.num)}
  ELSE IF IsDigits(v) THEN {Dec(v.dec)} ELSE {}

Int32Value(v) ==
  IF "num" \in DOMAIN v THEN {v}
  ELSE IF "dec" \in DOMAIN v /\ v.as # "point" THEN {Num(v.dec)} ELSE {}

NumberValue(v) == IF "dec" \notin DOMAIN v THEN {} ELSE IF v.as = "point" THEN {v} ELSE {Dec(v.dec)}

\* A tag may only be part of Account and Destination, which are rid of it before.
AccountIDValue(v) ==
  IF v = Text("") THEN {Address("zero")}
  ELSE IF IsAccount(v) /\ v.tag = 0 THEN {Address(v.acct)} ELSE {}

CurrencyValue(v) ==
  IF "code" \notin DOMAIN v THEN {}
  ELSE IF v = CurrencyHex("000") THEN {Iso("XRP")}
  ELSE IF v.code # "XRP" /\ v.as = "hex" THEN {Iso(v.code)} ELSE {v}

\* The fields of a JSON object that are read one by one, if each can be.
EachField(o, Value(_, _)) ==
  IF \E f \in DOMAIN o : Value(f, o[f]) = {} THEN {}
  ELSE {[f \in DOMAIN o |-> CHOOSE w \in Value(f, o[f]) : TRUE]}

Wrap(objects) == {Obj(o) : o \in objects}

Drops(v) ==
  IF "dec" \in DOMAIN v /\ v.as \in {"plain", "zeros"} THEN {Dec(v.dec)} ELSE {}

AmountPart(k, v) ==
  CASE k = "currency" -> CurrencyValue(v)
    [] k = "issuer" -> AccountIDValue(v)
    [] k = "value" -> NumberValue(v)

MptPart(k, v) ==
  IF k = "value" THEN (IF IsDigits(v) /\ v.dec < HighBit THEN {Dec(v.dec)} ELSE {})
  ELSE HashValue(v, 48)

AmountValue(v) ==
  IF "dec" \in DOMAIN v THEN (IF v.dec >= 0 THEN Drops(v) ELSE {})
  ELSE IF ~ IsRecord(v) THEN {}
  ELSE IF Keys(v) = {"currency", "issuer", "value"} THEN Wrap(EachField(v.obj, AmountPart))
  ELSE IF Keys(v) = {"mpt_issuance_id", "value"} THEN Wrap(EachField(v.obj, MptPart)) ELSE {}

\* XRP is written without an issuer: one that is there is read as what comes next.
Garbled == Text("garbled")

IssueValue(v) ==
  IF ~ IsRecord(v) THEN {}
  ELSE IF Keys(v) \in {{"currency"}, {"currency", "issuer"}}
  THEN LET read == EachField(v.obj, AmountPart)
           xrp == \E o \in read : o["currency"] = Iso("XRP")
       IN IF xrp = (Keys(v) = {"currency"}) THEN Wrap(read)
          ELSE IF read = {} THEN {} ELSE {Garbled}
  ELSE IF Keys(v) = {"mpt_issuance_id"} THEN Wrap(EachField(v.obj, MptPart)) ELSE {}

BridgePart(k, v) ==
  IF k \in {"LockingChainDoor", "IssuingChainDoor"} THEN AccountIDValue(v) ELSE IssueValue(v)

XChainBridgeValue(v) ==
  IF ~ IsXChainBridge(v) THEN {}
  ELSE IF \E b \in EachField(v.obj, BridgePart) : \E k \in DOMAIN b : b[k] = Garbled
       THEN {Garbled} ELSE Wrap(EachField(v.obj, BridgePart))

\* The elements of an array, if each can be read.
EachElement(v, Value(_)) ==
  IF ~ IsArray(v) \/ \E e \in Elements(v) : Value(e) = {} THEN {}
  ELSE {Arr([i \in DOMAIN v.arr |-> CHOOSE w \in Value(v.arr[i]) : TRUE])}

Hash256Value(v) == HashValue(v, 64)

(* handleXAddress: the tag of an X-address becomes a field of its own.       *)
TagField == [Account |-> "SourceTag", Destination |-> "DestinationTag"]

Tagged(o) == {f \in DOMAIN o : IsAccount(o[f]) /\ o[f].tag # 0}

AddressesDecoded(o) ==
  IF \E f \in Tagged(o) : f \notin DOMAIN TagField \/ TagField[f] \in DOMAIN o THEN {}
  ELSE {[f \in DOMAIN o \cup {TagField[g] : g \in Tagged(o)} |->
           IF f \notin DOMAIN o
           THEN Num(o[CHOOSE g \in Tagged(o) : TagField[g] = f].tag)
           ELSE IF IsAccount(o[f]) THEN Address(o[f].acct) ELSE o[f]]}

RECURSIVE WireValue(_, _), WireObject(_)

WireElement(e) == IF IsRecord(e) THEN Wrap(WireObject(e.obj)) ELSE {}

WireValue(f, v) ==
  LET t == TypeOf[f] IN
  CASE t = "UInt8" -> UIntValue(v, MaxUInt8)
    [] t = "UInt16" -> UIntValue(v, MaxUInt16)
    [] t = "UInt32" -> UInt32Value(v)
    [] t = "UInt64" -> UInt64Value(v)
    [] t = "BaseTen" -> BaseTenValue(v)
    [] t = "Int32" -> Int32Value(v)
    [] t = "Hash128" -> HashValue(v, 32)
    [] t = "Hash192" -> HashValue(v, 48)
    [] t = "Hash256" -> HashValue(v, 64)
    [] t = "Blob" -> BlobValue(v)
    [] t = "AccountID" -> AccountIDValue(v)
    [] t = "Amount" -> AmountValue(v)
    [] t = "SignedAmount" -> Drops(v)
    [] t = "Issue" -> IssueValue(v)
    [] t = "Currency" -> CurrencyValue(v)
    [] t = "Number" -> NumberValue(v)
    [] t = "Vector256" -> EachElement(v, Hash256Value)
    [] t = "PathSet" -> IF IsArray(v) THEN {v} ELSE {}
    [] t = "XChainBridge" -> XChainBridgeValue(v)
    [] t = "STArray" -> EachElement(v, WireElement)
    [] t = "STObject" -> IF IsRecord(v) THEN Wrap(WireObject(v.obj)) ELSE {}
    [] t = "Enum" -> {v}

WireObject(o) ==
  IF ~ DOMAIN o \subseteq DOMAIN TypeOf THEN {}
  ELSE UNION {EachField(x, WireValue) : x \in AddressesDecoded(o)}
=============================================================================
