--------------------------------- MODULE TxLedger ---------------------------------
(* The models of the transactions that came with the ledger: accounts,       *)
(* payments, offers, checks, escrows, channels, trust lines, signers. Each   *)
(* has its fields and what its validator asks for beyond what                *)
(* ValidateBaseTransaction does.                                             *)
EXTENDS TxForms

Fields(required, optional) == [required |-> required, optional |-> optional]

MAX_AUTHORIZED_CREDENTIALS == 8

\* The checks that most validators make of several fields at once.
Strings(tx, required, optional) ==
  /\ \A f \in required : Required(tx, f, IsString)
  /\ \A f \in optional : Optional(tx, f, IsString)

Numbers(tx, required, optional) ==
  /\ \A f \in required : Required(tx, f, IsNumber)
  /\ \A f \in optional : Optional(tx, f, IsNumber)

NumberWithin(tx, f, range) == Has(tx, f) => "num" \in DOMAIN tx[f] /\ tx[f].num \in range

CredentialIDs(tx) == ValidateCredentialsList(tx, "CredentialIDs", TRUE, MAX_AUTHORIZED_CREDENTIALS)

ExactlyOneOf(tx, fields) == Cardinality(DOMAIN tx \cap fields) = 1

(* Accounts. *)
AccountDeleteFields == Fields({"Destination"}, {"DestinationTag", "CredentialIDs"})

ValidateAccountDelete(tx) ==
  /\ Required(tx, "Destination", IsAccount)
  /\ Optional(tx, "DestinationTag", IsNumber)
  /\ CredentialIDs(tx)

AccountSetAsfFlags == (1..17) \ {11}

AccountSetTfFlags == {"tfRequireDestTag", "tfOptionalDestTag", "tfRequireAuth", "tfOptionalAuth",
  "tfDisallowXRP", "tfAllowXRP"}

AccountSetFields == Fields({}, {"ClearFlag", "Domain", "EmailHash", "MessageKey", "SetFlag",
  "TransferRate", "TickSize", "NFTokenMinter"})

ValidateAccountSet(tx) ==
  /\ Optional(tx, "NFTokenMinter", IsAccount)
  /\ \A f \in {"ClearFlag", "SetFlag"} : NumberWithin(tx, f, AccountSetAsfFlags)
  /\ Strings(tx, {}, {"Domain", "EmailHash", "MessageKey"})
  /\ Numbers(tx, {}, {"TransferRate"})
  /\ NumberWithin(tx, "TickSize", {0} \cup 3..15)

SetRegularKeyFields == Fields({}, {"RegularKey"})
ValidateSetRegularKey(tx) == Strings(tx, {}, {"RegularKey"})

SignerListSetFields == Fields({"SignerQuorum"}, {"SignerEntries"})

ValidateSignerListSet(tx) ==
  /\ Required(tx, "SignerQuorum", IsNumber)
  /\ tx["SignerQuorum"] # Num(0) =>
       /\ Required(tx, "SignerEntries", IsArray)
       /\ Len(tx["SignerEntries"].arr) \in 1..32
       /\ \A e \in Elements(tx["SignerEntries"]) :
            /\ IsRecord(e) /\ "SignerEntry" \in Keys(e) /\ IsRecord(e.obj["SignerEntry"])
            /\ Optional(e.obj["SignerEntry"].obj, "WalletLocator", IsLedgerEntryId)

TicketCreateFields == Fields({"TicketCount"}, {})
ValidateTicketCreate(tx) == Has(tx, "TicketCount") /\ NumberWithin(tx, "TicketCount", 1..250)

NON_DELEGABLE_TRANSACTIONS == {"AccountSet", "SetRegularKey", "SignerListSet", "DelegateSet",
  "AccountDelete", "Batch", "EnableAmendment", "SetFee", "UNLModify"}

DelegateSetFields == Fields({"Authorize", "Permissions"}, {})

\* The accounts are compared as they are written.
ValidateDelegateSet(tx) ==
  /\ Required(tx, "Authorize", IsAccount) /\ ~ SameText(tx["Authorize"], tx["Account"])
  /\ Required(tx, "Permissions", IsArray) /\ Len(tx["Permissions"].arr) <= 10
  /\ \A p \in Elements(tx["Permissions"]) :
       /\ IsRecord(p) /\ Keys(p) = {"Permission"}
       /\ Keys(p.obj["Permission"]) = {"PermissionValue"}
       /\ LET value == p.obj["Permission"].obj["PermissionValue"]
          IN "name" \in DOMAIN value /\ value.name \notin NON_DELEGABLE_TRANSACTIONS
  /\ Cardinality(Elements(tx["Permissions"])) = Len(tx["Permissions"].arr)

DepositPreauthFields == Fields({}, {"Authorize", "Unauthorize", "AuthorizeCredentials",
  "UnauthorizeCredentials"})

ValidateAuthorizationField(tx, f) ==
  Has(tx, f) => IsString(tx[f]) /\ ~ AreAddressesEqual(tx["Account"], tx[f])

ValidateDepositPreauth(tx) ==
  /\ ExactlyOneOf(tx, DepositPreauthFields.optional)
  /\ \A f \in {"Authorize", "Unauthorize"} : ValidateAuthorizationField(tx, f)
  /\ \A f \in {"AuthorizeCredentials", "UnauthorizeCredentials"} :
       ValidateCredentialsList(tx, f, FALSE, MAX_AUTHORIZED_CREDENTIALS)

(* Payments and offers. *)
PaymentFlags == {"tfNoRippleDirect", "tfPartialPayment", "tfLimitQuality",
  "tfSponsorCreatedAccount"}

PaymentFields == Fields({"Amount", "Destination"}, {"DeliverMax", "DestinationTag", "InvoiceID",
  "Paths", "SendMax", "DeliverMin", "CredentialIDs", "DomainID"})

IsPathStep(step) ==
  /\ IsRecord(step) /\ Keys(step) \cap {"account", "currency", "issuer"} # {}
  /\ \A k \in Keys(step) \cap {"account", "currency", "issuer"} : IsString(step.obj[k])

IsPaths(v) ==
  /\ IsArray(v) /\ v.arr # <<>>
  /\ \A path \in Elements(v) :
       IsArray(path) /\ path.arr # <<>> /\ \A step \in Elements(path) : IsPathStep(step)

CheckPartialPayment(tx) ==
  Has(tx, "DeliverMin") => HasFlag(tx, "tfPartialPayment") /\ IsAmount(tx["DeliverMin"])

CheckSponsorCreatedAccount(tx) ==
  HasFlag(tx, "tfSponsorCreatedAccount") =>
    /\ \A flag \in PaymentFlags \ {"tfSponsorCreatedAccount"} : ~ HasFlag(tx, flag)
    /\ ~ Has(tx, "SendMax") /\ ~ Has(tx, "Paths") /\ IsString(tx["Amount"])

ValidatePayment(tx) ==
  /\ Required(tx, "Amount", IsAmount) /\ Required(tx, "Destination", IsAccount)
  /\ Optional(tx, "DestinationTag", IsNumber)
  /\ CredentialIDs(tx)
  /\ Optional(tx, "InvoiceID", IsString)
  /\ Optional(tx, "DomainID", IsDomainID)
  /\ Optional(tx, "Paths", IsPaths)
  /\ Optional(tx, "SendMax", IsAmount)
  /\ CheckPartialPayment(tx)
  /\ CheckSponsorCreatedAccount(tx)

OfferCancelFields == Fields({"OfferSequence"}, {})
ValidateOfferCancel(tx) == Numbers(tx, {"OfferSequence"}, {})

OfferCreateFlags == {"tfPassive", "tfImmediateOrCancel", "tfFillOrKill", "tfSell", "tfHybrid"}

OfferCreateFields == Fields({"TakerGets", "TakerPays"}, {"Expiration", "OfferSequence", "DomainID"})

ValidateOfferCreate(tx) ==
  /\ \A f \in {"TakerGets", "TakerPays"} : Required(tx, f, IsAmount)
  /\ Numbers(tx, {}, {"Expiration", "OfferSequence"})
  /\ Optional(tx, "DomainID", IsDomainID)
  /\ HasFlag(tx, "tfHybrid") => Has(tx, "DomainID")

TrustSetFlags == {"tfSetfAuth", "tfSetNoRipple", "tfClearNoRipple", "tfSetFreeze", "tfClearFreeze",
  "tfSetDeepFreeze", "tfClearDeepFreeze"}

TrustSetFields == Fields({"LimitAmount"}, {"QualityIn", "QualityOut"})

ValidateTrustSet(tx) ==
  Required(tx, "LimitAmount", IsAmount) /\ Numbers(tx, {}, {"QualityIn", "QualityOut"})

(* Checks, escrows and payment channels. *)
CheckCancelFields == Fields({"CheckID"}, {})
ValidateCheckCancel(tx) == Strings(tx, {}, {"CheckID"})

CheckCashFields == Fields({"CheckID"}, {"Amount", "DeliverMin"})

ValidateCheckCash(tx) ==
  /\ ExactlyOneOf(tx, {"Amount", "DeliverMin"})
  /\ \A f \in {"Amount", "DeliverMin"} : Optional(tx, f, IsAmount)
  /\ Strings(tx, {}, {"CheckID"})

CheckCreateFields == Fields({"Destination", "SendMax"}, {"DestinationTag", "Expiration", "InvoiceID"})

ValidateCheckCreate(tx) ==
  /\ Has(tx, "SendMax") /\ (IsString(tx["SendMax"]) \/ IsIssuedCurrencyAmount(tx["SendMax"]))
  /\ Required(tx, "Destination", IsAccount)
  /\ Numbers(tx, {}, {"DestinationTag", "Expiration"})
  /\ Strings(tx, {}, {"InvoiceID"})

\* Number(value) is a number.
ReadsAsNumber(v) == IsNumber(v) \/ "dec" \in DOMAIN v \/ v = Text("")

EscrowCancelFields == Fields({"Owner", "OfferSequence"}, {})

ValidateEscrowCancel(tx) ==
  Required(tx, "Owner", IsAccount) /\ Required(tx, "OfferSequence", ReadsAsNumber)

EscrowCreateFields == Fields({"Amount", "Destination"}, {"CancelAfter", "FinishAfter", "Condition",
  "DestinationTag"})

ValidateEscrowCreate(tx) ==
  /\ Required(tx, "Amount", IsAmount) /\ Required(tx, "Destination", IsAccount)
  /\ Numbers(tx, {}, {"DestinationTag", "CancelAfter", "FinishAfter"})
  /\ Has(tx, "CancelAfter") \/ Has(tx, "FinishAfter")
  /\ Has(tx, "FinishAfter") \/ Has(tx, "Condition")
  /\ Strings(tx, {}, {"Condition"})

EscrowFinishFields == Fields({"Owner", "OfferSequence"}, {"Condition", "Fulfillment", "CredentialIDs"})

ValidateEscrowFinish(tx) ==
  /\ Required(tx, "Owner", IsAccount) /\ Required(tx, "OfferSequence", ReadsAsNumber)
  /\ CredentialIDs(tx)
  /\ Strings(tx, {}, {"Condition", "Fulfillment"})

PaymentChannelClaimFlags == {"tfRenew", "tfClose"}

PaymentChannelClaimFields == Fields({"Channel"}, {"Balance", "Amount", "Signature", "PublicKey",
  "CredentialIDs"})

ValidatePaymentChannelClaim(tx) ==
  CredentialIDs(tx) /\ Strings(tx, {"Channel"}, {"Balance", "Amount", "Signature", "PublicKey"})

PaymentChannelCreateFields == Fields({"Amount", "Destination", "SettleDelay", "PublicKey"},
  {"CancelAfter", "DestinationTag"})

ValidatePaymentChannelCreate(tx) ==
  /\ Strings(tx, {"Amount", "PublicKey"}, {}) /\ Required(tx, "Destination", IsAccount)
  /\ Numbers(tx, {"SettleDelay"}, {"DestinationTag", "CancelAfter"})

PaymentChannelFundFields == Fields({"Channel", "Amount"}, {"Expiration"})

ValidatePaymentChannelFund(tx) ==
  Strings(tx, {"Channel", "Amount"}, {}) /\ Numbers(tx, {}, {"Expiration"})
=============================================================================
