-------------------------------- MODULE TxDocuments --------------------------------
(***************************************************************************)
(* A transaction on its way from the caller to a co-signer.  The caller    *)
(* fills in a document; it may be autofilled, is validated and encoded by  *)
(* wallet.sign(), and whoever signs next (multisign, signAsSponsor,        *)
(* signLoanSetByCounterparty, combineBatchSigners) decodes the blob and    *)
(* validates what comes out of it: the same transaction in other words,    *)
(* with classic addresses, digits in upper case, canonical numbers.        *)
(*                                                                         *)
(* A document starts from the required fields of its type and is edited a  *)
(* bounded number of times.                                                *)
(***************************************************************************)
EXTENDS TxModels, TxWire
LOCAL INSTANCE TLC

CONSTANTS
  TxTypes,     \* the types whose documents are written
  Exemplars,   \* those of them whose common fields are edited as well
  MaxEdits     \* bound: fields that are set or dropped

ASSUME TxDocumentsAssumption ==
  TxTypes \subseteq DOMAIN FieldsOfType /\ MaxEdits \in Nat

VARIABLES
  draft,    \* the document as the caller wrote it, <<>> when there is none
  doc,      \* what has become of it
  docStage, \* "draft", "filled", "signed", "accepted" or "lost"
  edits

tdVars == <<draft, doc, docStage, edits>>

-----------------------------------------------------------------------------
(* What a caller may write.                                                *)

IOU(currency, issuer, value) == Obj([currency |-> currency, issuer |-> issuer, value |-> value])
MPT(value) == Obj([mpt_issuance_id |-> Hex("mpti", 48), value |-> value])
IssuedBy(currency, issuer) == Obj([currency |-> currency, issuer |-> issuer])
One(name, o) == Obj(name :> Obj(o))

BridgeOf(door, issue) ==
  Obj([LockingChainDoor |-> door, LockingChainIssue |-> issue,
       IssuingChainDoor |-> Address("i"), IssuingChainIssue |-> Obj([currency |-> Iso("XRP")])])

CredentialOf(issuer, type) == One("Credential", [Issuer |-> issuer, CredentialType |-> type])
AuthAccountOf(account) == One("AuthAccount", [Account |-> account])
PermissionOf(name) == One("Permission", [PermissionValue |-> Name(name)])
MemoOf(data) == One("Memo", [MemoData |-> data])
EntryOf(account) == One("SignerEntry", [Account |-> account, SignerWeight |-> Num(1)])

PriceOf(price, scale) == One("PriceData",
  [BaseAsset |-> Iso("XRP"), QuoteAsset |-> Iso("USD"), AssetPrice |-> price, Scale |-> scale])

InnerOf(flags, fee) == One("RawTransaction",
  [TransactionType |-> Name("TicketCreate"), Account |-> Address("b"), TicketCount |-> Num(1),
   Flags |-> flags, Fee |-> fee])

InnerFlag == {"tfInnerBatchTxn"}
SignatureObject == [SigningPubKey |-> Hex("key", 66), TxnSignature |-> Hex("sig", 142)]

\* The largest values that the validators let pass, where that is not all of the type.
Limit(f) ==
  CASE f = "TradingFee" -> 1000 [] f = "TransferFee" -> 50000 [] f = "ManagementFeeRate" -> 10000
    [] f = "TickSize" -> 15 [] f = "Scale" -> 18 [] f = "TicketCount" -> 250
    [] f \in {"VaultKind", "WasLockingChainSend"} -> 1 [] f \in {"SetFlag", "ClearFlag"} -> 17
    [] f \in {"InterestRate", "LateInterestRate", "CloseInterestRate", "OverpaymentInterestRate",
              "OverpaymentFee", "CoverRateMinimum", "CoverRateLiquidation"} -> 100000
    [] OTHER -> 255

\* The bytes that a blob must have, or may have at most.
Bytes(type, f) ==
  CASE f \in {"HolderEncryptionKey", "IssuerEncryptionKey", "AuditorEncryptionKey",
              "AmountCommitment", "BalanceCommitment"} -> 33
    [] f \in {"SenderEncryptedAmount", "HolderEncryptedAmount", "IssuerEncryptedAmount",
              "DestinationEncryptedAmount", "AuditorEncryptedAmount"} -> 66
    [] f = "BlindingFactor" -> 32
    [] f = "ZKProof" -> (CASE type = "ConfidentialMPTSend" -> 946
                           [] type = "ConfidentialMPTConvertBack" -> 816 [] OTHER -> 64)
    [] f = "CredentialType" -> 64 [] f = "URI" -> 128 [] f = "MPTokenMetadata" -> 1024
    [] OTHER -> 256

Integral(f) == {Num(0), Num(1), Num(Limit(f)), Num(Limit(f) + 1)}

Credentials == {
  Arr(<<CredentialOf(Address("i"), Hex("kyc", 6))>>),
  Arr(<<CredentialOf(Address("i"), Hex("kyc", 6)), CredentialOf(XAddress("i", 0), Hex("kyc", 6))>>),
  Arr(<<CredentialOf(Address("i"), Hex("kyc", 6)), CredentialOf(Address("i"), LowerHex("kyc", 6))>>),
  Arr(<<CredentialOf(Address("i"), Hex("kyc", 6)), CredentialOf(Address("i"), Hex("kyc", 7))>>),
  Arr(<<CredentialOf(Address("i"), Hex("kyc", 6)), CredentialOf(Address("b"), Hex("kyc", 6))>>),
  Arr(<<>>)}

\* Of a field that is an array or an object, by its name.
Structures(f) ==
  CASE f \in {"AcceptedCredentials", "AuthorizeCredentials", "UnauthorizeCredentials"} -> Credentials
    [] f = "AuthAccounts" ->
         {Arr(<<AuthAccountOf(a)>>) : a \in {Address("b"), Address("a"), XAddress("a", 0)}}
    [] f = "BatchSigners" ->
         {Arr(<<One("BatchSigner", [Account |-> Address("b")] @@ SignatureObject)>>)}
    [] f = "Memos" -> {Arr(<<MemoOf(m)>>) : m \in {Hex("m", 4), Hex("m", 3), Hex("m", 1), Text("m")}}
    [] f = "Permissions" ->
         {Arr(<<PermissionOf("Payment")>>), Arr(<<PermissionOf("AccountSet")>>),
          Arr(<<PermissionOf("Payment"), PermissionOf("Payment")>>)}
    [] f = "PriceDataSeries" ->
         {Arr(<<PriceOf(p, s)>>) : p \in {Num(12), LowerHex("c", 3), Hex("c", 17)},
                                  s \in {Num(10), Num(11)}}
    [] f = "RawTransactions" ->
         {Arr(<<InnerOf(Bits(InnerFlag), Dec(0))>>), Arr(<<InnerOf(Bits({}), Dec(0))>>),
          Arr(<<InnerOf(Obj([tfInnerBatchTxn |-> True]), Dec(0))>>),
          Arr(<<InnerOf(Bits(InnerFlag), DecAs(0, "zeros"))>>)}
    [] f = "SignerEntries" -> {Arr(<<EntryOf(Address("b"))>>), Arr(<<EntryOf(XAddress("b", 0))>>), Arr(<<>>)}
    [] f = "CounterpartySignature" -> {Obj(SignatureObject)}
    [] f = "SponsorSignature" -> {Obj(SignatureObject), Obj([SigningPubKey |-> Hex("key", 66)])}

Choices(type, f) ==
  LET t == TypeOf[f]
      digits == 2 * Bytes(type, f)
  IN CASE f = "DeliverMax" -> {Dec(5), IOU(Iso("USD"), Address("i"), Dec(5))}
       [] t \in {"UInt8", "UInt16"} -> Integral(f)
       [] f = "SponsorFlags" -> {Bits({}), Bits({"spfSponsorFee"}), Bits({"spfSponsorReserve"})}
       [] f = "ImmutableFlags" -> {Bits({}), Bits({"tifMPTMetadata"}), Bits({"tifOther"})}
       [] f = "SubscriptionDate" -> {Num(0)}
       [] f = "RedemptionDate" -> {Num(179), Num(180), Num(MAX_INVESTMENT_PERIOD)}
       [] f = "PaymentInterval" -> {Num(59), Num(60)}
       [] f = "GracePeriod" -> {Num(60), Num(61)}
       [] t = "UInt32" -> Integral(f) \cup {DecAs(10, "exp"), Dec(7), Text("")}
       [] t = "UInt64" -> {Num(12), LowerHex("c", 3), Hex("c", 17)}
       [] t = "BaseTen" ->
            {Dec(0), Dec(MaxMptAmount), Dec(MaxMptAmount + 1), DecAs(1, "zeros"), Num(1)}
       [] t = "Int32" -> {Num(0), Num(-1), Dec(1)}
       [] t = "Hash128" -> {Hex("h", 32), LowerHex("h", 32)}
       [] t = "Hash192" -> {Hex("mpti", 48), LowerHex("mpti", 48), Hex("mpta", 48), Hex("mpti", 49)}
       [] t = "Hash256" -> {Hex("h", 64), LowerHex("h", 64), Hex("h", 65), Hex("0", 64)}
       [] t = "Blob" -> {Hex(f, digits), LowerHex(f, digits), Hex(f, digits - 1), Hex(f, digits + 1),
                         Hex(f, 1), Text(""), Text("word")}
       [] f = "Account" -> {XAddress("a", 0), XAddress("a", 7)}
       [] t = "AccountID" -> {Address("b"), XAddress("b", 0), XAddress("b", 7), Address("a"),
                              XAddress("a", 0), Text("")}
       [] t = "Amount" -> {Dec(0), Dec(5), DecAs(5, "zeros"), DecAs(5, "point"), MPT(Dec(5))}
            \cup {IOU(Iso("USD"), i, Dec(5)) : i \in {Address("i"), XAddress("i", 0), XAddress("a", 0)}}
            \cup {IOU(CurrencyHex(c), Address("i"), DecAs(5, "point")) : c \in {"USD", "xrp", "000"}}
            \cup {IOU(Iso("USD"), Address("i"), DecAs(5, "trailing")), MPT(DecAs(5, "trailing"))}
       [] t = "SignedAmount" -> {Dec(0), Dec(5), Dec(-5), DecAs(5, "zeros")}
       [] t = "Issue" -> {Obj([currency |-> Iso("XRP")]), Obj([mpt_issuance_id |-> Hex("mpti", 48)])}
            \cup {IssuedBy(c, Address("i")) : c \in {Iso("USD"), CurrencyHex("USD"), Iso("XRP")}}
            \cup {IssuedBy(Iso("USD"), XAddress(i, 0)) : i \in {"a", "i"}}
       [] t = "Number" -> {Dec(0), Dec(-1), DecAs(10, "exp"), DecAs(1, "point")}
       [] t = "Vector256" ->
            {Arr(<<>>), Arr(<<Hex("h", 64)>>), Arr(<<Hex("h", 64), Hex("g", 64)>>),
             Arr(<<Hex("h", 64), LowerHex("h", 64)>>), Arr(<<Hex("h", 64), Hex("h", 65)>>)}
       [] t = "PathSet" -> {Arr(<<>>), Arr(<<Arr(<<Obj([account |-> Address("i")])>>)>>)}
       [] t = "XChainBridge" ->
            {BridgeOf(Address("b"), IssuedBy(Iso("USD"), Address("b"))),
             BridgeOf(XAddress("b", 0), Obj([currency |-> Iso("XRP")])),
             BridgeOf(Address("b"), IssuedBy(Iso("XRP"), Address("b")))}
       [] OTHER -> Structures(f)

FlagChoices(type) ==
  LET sets == {{}, InnerFlag, FlagEnum(type)} \cup {{flag} : flag \in FlagEnum(type)}
      AsRecord(flags) == Obj([flag \in flags |-> True])
  IN {Bits(s) : s \in sets} \cup {AsRecord(s) : s \in sets \cup {{"tfUnknown"}}}

-----------------------------------------------------------------------------
(* The documents.                                                          *)

\* A value that passes, of a field that is required.
Usual(type, f) ==
  LET t == TypeOf[f] IN
  CASE t \in {"UInt8", "UInt16", "UInt32"} -> Num(1)
    [] t = "UInt64" -> Num(12)
    [] t = "BaseTen" -> Dec(1)
    [] t = "Hash192" -> IF type = "ConfidentialMPTClawback" THEN Hex("mpta", 48) ELSE Hex("mpti", 48)
    [] t = "Hash256" -> Hex("h", 64)
    [] t = "Blob" -> Hex(f, 2 * Bytes(type, f))
    [] t = "AccountID" -> Address("b")
    [] t = "Amount" -> IF type = "Clawback" THEN IOU(Iso("USD"), Address("b"), Dec(5)) ELSE Dec(5)
    [] t = "Issue" -> IssuedBy(Iso("USD"), IF type = "AMMClawback" THEN Address("a") ELSE Address("i"))
    [] t = "Number" -> Dec(10)
    [] t = "Vector256" -> Arr(<<Hex("h", 64)>>)
    [] t = "XChainBridge" -> BridgeOf(Address("b"), Obj([currency |-> Iso("XRP")]))
    [] f = "AcceptedCredentials" -> Arr(<<CredentialOf(Address("i"), Hex("kyc", 6))>>)
    [] f = "Permissions" -> Arr(<<PermissionOf("Payment")>>)
    [] f = "PriceDataSeries" -> Arr(<<PriceOf(Num(12), Num(10))>>)
    [] f = "RawTransactions" -> Arr(<<InnerOf(Bits(InnerFlag), Dec(0))>>)

\* What a type needs although none of it is required by itself.
Needed(type) ==
  CASE type = "SignerListSet" -> [SignerEntries |-> Arr(<<EntryOf(Address("b"))>>)]
    [] type = "DepositPreauth" -> [Authorize |-> Address("b")]
    [] type = "CheckCash" -> [Amount |-> Dec(5)]
    [] type = "EscrowCreate" -> [CancelAfter |-> Num(2), FinishAfter |-> Num(1)]
    [] type = "NFTokenAcceptOffer" -> [NFTokenSellOffer |-> Hex("h", 64)]
    [] type = "NFTokenCreateOffer" -> [Owner |-> Address("b")]
    [] type = "AMMDeposit" -> [Amount |-> Dec(5)]
    [] type = "CredentialDelete" -> [Issuer |-> Address("b")]
    [] type = "DIDSet" -> [URI |-> Hex("URI", 256)]
    [] type = "LoanBrokerCoverClawback" -> [LoanBrokerID |-> Hex("h", 64)]
    [] type = "SponsorshipSet" -> [Sponsee |-> Address("b"), MaxFee |-> Dec(5)]
    [] type = "SponsorshipTransfer" -> [Flags |-> Bits({"tfSponsorshipEnd"})]
    [] type = "MPTokenIssuanceSet" -> [Flags |-> Bits({"tfMPTLock"})]
    [] OTHER -> [TransactionType |-> Name(type)]

Template(type) ==
  [TransactionType |-> Name(type), Account |-> Address("a")]
    @@ Needed(type) @@ [f \in FieldsOfType[type].required |-> Usual(type, f)]

CommonFields == {"AccountTxnID", "Delegate", "Fee", "Memos", "SourceTag", "Sponsor",
  "SponsorFlags", "SponsorSignature", "TicketSequence"}

Editable(type) ==
  FieldsOfType[type].required \cup FieldsOfType[type].optional
    \cup (IF type \in Exemplars THEN CommonFields ELSE {})

TDInit ==
  /\ \E type \in TxTypes : doc = Template(type)
  /\ draft = <<>> /\ docStage = "draft" /\ edits = 0

MayEdit == docStage = "draft" /\ edits < MaxEdits

Write(f, v) ==
  /\ MayEdit
  /\ doc' = (f :> v) @@ doc
  /\ doc' # doc
  /\ edits' = edits + 1
  /\ UNCHANGED <<draft, docStage>>

WriteField(f) == \E v \in Choices(Type(doc), f) : Write(f, v)
WriteFlags == \E v \in FlagChoices(Type(doc)) : Write("Flags", v)

DropField(f) ==
  /\ MayEdit
  /\ f \in DOMAIN doc \ {"Account"}
  /\ doc' = [g \in DOMAIN doc \ {f} |-> doc[g]]
  /\ edits' = edits + 1
  /\ UNCHANGED <<draft, docStage>>

-----------------------------------------------------------------------------
(* client.autofill(), as far as it needs no server.                        *)

\* The fields that setValidAddresses writes in classic form; only the first two keep a tag.
ClassicFields == DOMAIN TagField \cup {"Authorize", "Unauthorize", "Owner", "RegularKey",
  "Sponsor", "Sponsee", "CounterpartySponsor"}

TagsMatch(tx) ==
  \A f \in Tagged(tx) \cap DOMAIN TagField :
    Has(tx, TagField[f]) => tx[TagField[f]] \in {Num(0), Text(""), Num(tx[f].tag)}

\* Mutant: the tag of an X-address is not written.
SetValidAddresses_NoTags(tx) ==
  [f \in DOMAIN tx |-> IF f \in ClassicFields /\ IsAccount(tx[f]) THEN Address(tx[f].acct) ELSE tx[f]]

SetValidAddresses(tx) ==
  LET tagged == Tagged(tx) \cap DOMAIN TagField
      tags == {TagField[f] : f \in tagged}
  IN [f \in DOMAIN tx \cup tags |->
        IF f \in tags THEN Num(tx[CHOOSE g \in tagged : TagField[g] = f].tag)
        ELSE IF f \in ClassicFields /\ IsAccount(tx[f]) THEN Address(tx[f].acct) ELSE tx[f]]

\* DeliverMax is another name of Amount, and must not differ from it. Two objects differ
\* unless they are one: when their contents are the same, the caller has used one object.
HandleDeliverMax(tx) ==
  IF Type(tx) # "Payment" \/ ~ Has(tx, "DeliverMax") THEN {tx}
  ELSE IF Has(tx, "Amount") /\ tx["Amount"] # tx["DeliverMax"] THEN {}
  ELSE {[f \in (DOMAIN tx \ {"DeliverMax"}) \cup {"Amount"} |->
           IF f = "Amount" THEN tx["DeliverMax"] ELSE tx[f]]}

AutofillDocument ==
  /\ docStage = "draft"
  /\ TagsMatch(doc) /\ FlagsKnown(doc, FlagEnum(Type(doc)))
  /\ \E tx \in HandleDeliverMax(SetValidAddresses(doc)) :
       doc' = WithFlags(tx, ConvertTxFlagsToNumber(tx))
  /\ draft' = doc /\ docStage' = "filled"
  /\ UNCHANGED edits

-----------------------------------------------------------------------------
(* wallet.sign(tx, true), and what is done with the blob.                  *)

RemoveTrailingZeros(tx) ==
  IF /\ Type(tx) = "Payment" /\ Has(tx, "Amount") /\ IsTokenAmount(tx["Amount"])
     /\ "dec" \in DOMAIN tx["Amount"].obj["value"] /\ tx["Amount"].obj["value"].as = "trailing"
  THEN [tx EXCEPT !["Amount"].obj["value"].as = "plain"]
  ELSE tx

Signed(tx) ==
  [SigningPubKey |-> Text(""),
   Signers |-> Arr(<<One("Signer", [Account |-> Address("s")] @@ SignatureObject)>>)] @@ tx

SignDocument ==
  /\ docStage \in {"draft", "filled"}
  /\ \E tx \in {RemoveTrailingZeros(doc)} :
       /\ Validate(tx) /\ ~ IsInnerBatchTransaction(tx)
       /\ \E o \in WireObject(Signed(tx)) : doc' = o
  /\ draft' = IF docStage = "draft" THEN doc ELSE draft
  /\ docStage' = "signed"
  /\ UNCHANGED edits

\* multisign, signAsSponsor and the others validate what they decoded.
CoSign ==
  /\ docStage = "signed"
  /\ docStage' = IF Validate(doc) THEN "accepted" ELSE "lost"
  /\ UNCHANGED <<draft, doc, edits>>

TDNext ==
  \/ \E f \in Editable(Type(doc)) \cup {"Account"} : WriteField(f) \/ DropField(f)
  \/ WriteFlags
  \/ AutofillDocument \/ SignDocument \/ CoSign

TDSpec == TDInit /\ [][TDNext]_tdVars

-----------------------------------------------------------------------------
(* What a document loses on its way, and why.                              *)

RECURSIVE Leaves(_, _)

\* The values in a value, with the name of the field they are in.
Leaves(f, v) ==
  IF IsRecord(v) THEN UNION {Leaves(k, v.obj[k]) : k \in Keys(v)}
  ELSE IF IsArray(v) THEN UNION {Leaves(f, e) : e \in Elements(v)}
  ELSE {<<f, v>>}

LeavesOf(tx) == UNION {Leaves(f, tx[f]) : f \in DOMAIN tx}

\* Half a byte is dropped by the codec, and nothing is left of half a byte.
OddDigits(f, v) ==
  /\ f \in DOMAIN TypeOf /\ TypeOf[f] \in {"Blob", "Hash192", "Hash256", "Vector256"}
  /\ "len" \in DOMAIN v /\ v.len % 2 = 1

\* The validators that compare addresses as they are written.
CompareText == {"AMMBid", "AMMClawback", "Clawback", "ConfidentialMPTClawback",
  "ConfidentialMPTSend", "DelegateSet", "DepositPreauth", "MPTokenIssuanceSet", "NFTokenMint",
  "PermissionedDomainSet"}

AccountsIn(tx, f) == {l[2] : l \in {n \in Leaves(f, tx[f]) : IsAccount(n[2])}}

\* An X-address counts: autofill may rewrite it in one of the two places.
OneAccountSpelledTwice(tx) ==
  /\ Type(tx) \in CompareText
  /\ \E f, g \in DOMAIN tx : \E v \in AccountsIn(tx, f), w \in AccountsIn(tx, g) :
       v.acct = w.acct /\ (v # w \/ (f # g /\ v.x))

OneCredentialSpelledTwice(tx) ==
  \E f \in {"AcceptedCredentials", "AuthorizeCredentials", "UnauthorizeCredentials",
            "CredentialIDs"} \cap DOMAIN tx :
    \E v, w \in {l[2] : l \in Leaves(f, tx[f])} : "hex" \in DOMAIN v /\ "hex" \in DOMAIN w /\ v.hex = w.hex /\ v # w

XRPInDisguise(tx) ==
  \E l \in LeavesOf(tx) : l[2] \in {CurrencyHex("000"), CurrencyHex("xrp")}

XRPWithIssuer(v) ==
  IsRecord(v) /\ Keys(v) = {"currency", "issuer"} /\ v.obj["currency"] \in {Iso("XRP"), CurrencyHex("000")}

\* The asset of an issue and those of a bridge.
IssuesOf(tx) ==
  {tx[f] : f \in {"Asset", "Asset2"} \cap DOMAIN tx}
    \cup UNION {{tx[f].obj[k] : k \in Keys(tx[f])} : f \in {"XChainBridge"} \cap DOMAIN tx}

Misleading(tx) ==
  \/ \E l \in LeavesOf(tx) : OddDigits(l[1], l[2])
  \/ OneAccountSpelledTwice(tx) \/ OneCredentialSpelledTwice(tx)
  \/ XRPInDisguise(tx) \/ \E v \in IssuesOf(tx) : XRPWithIssuer(v)

RECURSIVE Means(_, _, _)

\* w says what v said, or is what the codec is known to make of it: an account that is
\* "" becomes account zero, a number that is "" becomes 0, an exponent is dropped.
Means(f, v, w) ==
  CASE IsAccount(v) -> IsAccount(w) /\ w.acct = v.acct
    [] OddDigits(f, v) -> w = Text("") \/ ("hex" \in DOMAIN w /\ w.hex = v.hex)
    [] "hex" \in DOMAIN v -> "hex" \in DOMAIN w /\ w.hex = v.hex
    [] "code" \in DOMAIN v -> "code" \in DOMAIN w /\ (w.code = v.code \/ XRPInDisguise([x |-> v]))
    [] "num" \in DOMAIN v -> w \in {v, Dec(v.num), Digits64(ToString(v.num))}
    [] "dec" \in DOMAIN v -> \/ w \in {v, Dec(v.dec), Num(v.dec)}
                             \/ v.as = "exp" /\ TypeOf[f] = "UInt32"
    [] v = Text("") -> w \in {v, Address("zero"), Num(0)}
    [] XRPWithIssuer(v) -> w = Garbled
    [] IsRecord(v) /\ IsRecord(w) -> \A k \in Keys(v) : k \in Keys(w) /\ Means(k, v.obj[k], w.obj[k])
    [] IsArray(v) -> IsArray(w) /\ Len(v.arr) = Len(w.arr)
                       /\ \A i \in DOMAIN v.arr : Means(f, v.arr[i], w.arr[i])
    [] OTHER -> v = w \/ w = Garbled

\* Flags may be a record, and DeliverMax is Amount; a tag of 0 gives way to that of an address.
FieldKept(f) ==
  CASE f = "Flags" -> doc["Flags"] = ConvertTxFlagsToNumber(draft)
    [] f = "DeliverMax" -> Means("Amount", draft[f], doc["Amount"])
    [] f \in {"SourceTag", "DestinationTag"} /\ draft[f] \in {Num(0), Text("")} -> Has(doc, f)
    [] OTHER -> Has(doc, f) /\ Means(f, draft[f], doc[f])

TagKept(f) ==
  draft[f].tag # 0 => Has(doc, TagField[f]) /\ doc[TagField[f]] = Num(draft[f].tag)

\* What is signed is what was validated: a document that was valid when it was signed is
\* valid for the co-signer who decodes it, and says what it said; autofill makes no valid
\* document invalid. Only what the codec writes in another way than the caller did may
\* be lost: half bytes, XRP that is named like an issued currency, an account or a
\* credential spelled in two ways, which only the spelling kept apart.
SignedAsValidated ==
  /\ docStage = "filled" /\ Validate(draft) => Validate(doc) \/ Misleading(draft)
  /\ docStage = "lost" => Misleading(draft)
  /\ docStage = "signed" =>
       /\ \A f \in DOMAIN draft : FieldKept(f)
       /\ \A f \in {"Account", "Destination"} \cap DOMAIN draft : IsAccount(draft[f]) => TagKept(f)
=============================================================================
