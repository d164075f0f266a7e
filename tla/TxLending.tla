--------------------------------- MODULE TxLending ---------------------------------
(* The models of the transactions about credentials, permissioned domains,   *)
(* DIDs, vaults, loans and sponsorships.                                     *)
EXTENDS TxLedger

(* Credentials, DIDs and permissioned domains. *)
CredentialAcceptFields == Fields({"Issuer", "CredentialType"}, {})
ValidateCredentialAccept(tx) == Strings(tx, {"Issuer"}, {}) /\ ValidateCredentialType(tx)

CredentialCreateFields == Fields({"Subject", "CredentialType"}, {"Expiration", "URI"})

ValidateCredentialCreate(tx) ==
  /\ Strings(tx, {"Subject"}, {}) /\ ValidateCredentialType(tx)
  /\ Numbers(tx, {}, {"Expiration"})
  /\ Has(tx, "URI") => IsHexMetadata(tx["URI"], 256)

CredentialDeleteFields == Fields({"CredentialType"}, {"Subject", "Issuer"})

ValidateCredentialDelete(tx) ==
  /\ \E f \in {"Subject", "Issuer"} : Has(tx, f) /\ tx[f] # Text("")
  /\ ValidateCredentialType(tx) /\ Strings(tx, {}, {"Subject", "Issuer"})

DIDDeleteFields == Fields({}, {})
DIDSetFields == Fields({}, {"Data", "DIDDocument", "URI"})

ValidateDIDSet(tx) ==
  Strings(tx, {}, DIDSetFields.optional) /\ \E f \in DIDSetFields.optional : Has(tx, f)

PermissionedDomainDeleteFields == Fields({"DomainID"}, {})
ValidatePermissionedDomainDelete(tx) == Strings(tx, {"DomainID"}, {})

PermissionedDomainSetFields == Fields({"AcceptedCredentials"}, {"DomainID"})

ValidatePermissionedDomainSet(tx) ==
  /\ Strings(tx, {}, {"DomainID"}) /\ Has(tx, "AcceptedCredentials")
  /\ ValidateCredentialsList(tx, "AcceptedCredentials", FALSE, 10)

(* Vaults. *)
VAULT_DATA_MAX_BYTE_LENGTH == 256

VaultData(v) == IsHex(v) /\ HexLength(v) <= 2 * VAULT_DATA_MAX_BYTE_LENGTH
EvenVaultData(v) == VaultData(v) /\ HexLength(v) % 2 = 0

VaultClawbackFields == Fields({"VaultID", "Holder"}, {"Amount"})

ValidateVaultClawback(tx) ==
  /\ Strings(tx, {"VaultID"}, {}) /\ Required(tx, "Holder", IsAccount)
  /\ Optional(tx, "Amount", IsTokenAmount)

VaultCreateFlags == {"tfVaultPrivate", "tfVaultShareNonTransferable"}

VaultCreateFields == Fields({"Asset"}, {"Data", "AssetsMaximum", "MPTokenMetadata",
  "WithdrawalPolicy", "DomainID", "Scale", "VaultKind", "SubscriptionDate", "RedemptionDate"})

MIN_INVESTMENT_PERIOD == 180
MAX_INVESTMENT_PERIOD == 946708560

VaultMetadata(v) == IsHex(v) /\ HexLength(v) <= 2048

\* Only the assets that are issued and no MPT have a scale.
IsIOUAsset(asset) ==
  "mpt_issuance_id" \notin Keys(asset) /\ asset.obj["currency"] # Iso("XRP")

ClosedEnded(tx) == Has(tx, "VaultKind") /\ tx["VaultKind"] = Num(1)

ValidateVaultCreate(tx) ==
  /\ Required(tx, "Asset", IsCurrency)
  /\ Optional(tx, "Data", EvenVaultData)
  /\ Optional(tx, "AssetsMaximum", IsXRPLNumber)
  /\ Optional(tx, "MPTokenMetadata", VaultMetadata)
  /\ Numbers(tx, {}, {"WithdrawalPolicy", "SubscriptionDate", "RedemptionDate"})
  /\ Strings(tx, {}, {"DomainID"})
  /\ NumberWithin(tx, "VaultKind", {0, 1})
  /\ Has(tx, "DomainID") => HasFlag(tx, "tfVaultPrivate")
  /\ Has(tx, "Scale") => IsIOUAsset(tx["Asset"]) /\ NumberWithin(tx, "Scale", 0..18)
  /\ IF ClosedEnded(tx)
     THEN /\ Has(tx, "SubscriptionDate") /\ Has(tx, "RedemptionDate")
          /\ tx["RedemptionDate"].num - tx["SubscriptionDate"].num
               \in MIN_INVESTMENT_PERIOD .. MAX_INVESTMENT_PERIOD - 1
     ELSE ~ Has(tx, "SubscriptionDate") /\ ~ Has(tx, "RedemptionDate")

VaultDeleteFields == Fields({"VaultID"}, {"MemoData"})

ValidateVaultDelete(tx) ==
  Strings(tx, {"VaultID"}, {}) /\ Optional(tx, "MemoData", EvenVaultData)

VaultDepositFields == Fields({"VaultID", "Amount"}, {})
ValidateVaultDeposit(tx) == Strings(tx, {"VaultID"}, {}) /\ Required(tx, "Amount", IsAmount)

VaultSetFields == Fields({"VaultID"}, {"Data", "AssetsMaximum", "DomainID"})

\* Data of an odd number of digits passes here, unlike in VaultCreate.
ValidateVaultSet(tx) ==
  /\ Strings(tx, {"VaultID"}, {"DomainID"})
  /\ Optional(tx, "Data", VaultData) /\ Optional(tx, "AssetsMaximum", IsXRPLNumber)

VaultWithdrawFields == Fields({"VaultID", "Amount"},
  {"Destination", "DestinationTag", "CredentialIDs"})

\* Where the funds go, and on the strength of which credentials.
Withdrawal(tx) ==
  /\ Required(tx, "Amount", IsAmount)
  /\ Optional(tx, "Destination", IsAccount) /\ Numbers(tx, {}, {"DestinationTag"})
  /\ CredentialIDs(tx)

ValidateVaultWithdraw(tx) == Strings(tx, {"VaultID"}, {}) /\ Withdrawal(tx)

(* Loans and their brokers. *)
MAX_DATA_LENGTH == 512
MAX_MANAGEMENT_FEE_RATE == 10000
MAX_RATE == 100000   \* of a cover, an interest or an overpayment
MIN_PAYMENT_INTERVAL == 60

Rates(tx, fields) == \A f \in fields : NumberWithin(tx, f, 0..MAX_RATE)
LoanData(tx) == Has(tx, "Data") => IsHexMetadata(tx["Data"], MAX_DATA_LENGTH)
NotNegative(v) == ParseAmountValue(v) >= 0

LoanBrokerCoverClawbackFields == Fields({}, {"LoanBrokerID", "Amount"})

ValidateLoanBrokerCoverClawback(tx) ==
  /\ Optional(tx, "LoanBrokerID", IsLedgerEntryId)
  /\ Has(tx, "Amount") => IsTokenAmount(tx["Amount"]) /\ NotNegative(tx["Amount"])
  /\ Has(tx, "LoanBrokerID") \/ Has(tx, "Amount")

LoanBrokerCoverDepositFields == Fields({"LoanBrokerID", "Amount"}, {})

ValidateLoanBrokerCoverDeposit(tx) ==
  Required(tx, "LoanBrokerID", IsLedgerEntryId) /\ Required(tx, "Amount", IsAmount)

LoanBrokerCoverWithdrawFields == Fields({"LoanBrokerID", "Amount"},
  {"Destination", "DestinationTag", "CredentialIDs"})

ValidateLoanBrokerCoverWithdraw(tx) ==
  Required(tx, "LoanBrokerID", IsLedgerEntryId) /\ Withdrawal(tx)

LoanBrokerDeleteFields == Fields({"LoanBrokerID"}, {})
ValidateLoanBrokerDelete(tx) == Required(tx, "LoanBrokerID", IsLedgerEntryId)

LoanBrokerSetFields == Fields({"VaultID"}, {"LoanBrokerID", "Data", "ManagementFeeRate",
  "DebtMaximum", "CoverRateMinimum", "CoverRateLiquidation"})

CoverRateIsSet(tx, f) == Has(tx, f) /\ tx[f] # Num(0)

ValidateLoanBrokerSet(tx) ==
  /\ Required(tx, "VaultID", IsLedgerEntryId) /\ Optional(tx, "LoanBrokerID", IsLedgerEntryId)
  /\ LoanData(tx)
  /\ NumberWithin(tx, "ManagementFeeRate", 0..MAX_MANAGEMENT_FEE_RATE)
  /\ Has(tx, "DebtMaximum") => IsXRPLNumber(tx["DebtMaximum"]) /\ NotNegative(tx["DebtMaximum"])
  /\ Rates(tx, {"CoverRateMinimum", "CoverRateLiquidation"})
  /\ CoverRateIsSet(tx, "CoverRateMinimum") <=> CoverRateIsSet(tx, "CoverRateLiquidation")

LoanDeleteFields == Fields({"LoanID"}, {})
ValidateLoanDelete(tx) == Required(tx, "LoanID", IsLedgerEntryId)

LoanManageFlags == {"tfLoanDefault", "tfLoanImpair", "tfLoanUnimpair"}
LoanManageFields == Fields({"LoanID"}, {})

ValidateLoanManage(tx) ==
  /\ Required(tx, "LoanID", IsLedgerEntryId)
  /\ ~ (HasFlag(tx, "tfLoanImpair") /\ HasFlag(tx, "tfLoanUnimpair"))

LoanPayFlags == {"tfLoanOverpayment", "tfLoanFullPayment", "tfLoanLatePayment"}
LoanPayFields == Fields({"LoanID", "Amount"}, {})

ValidateLoanPay(tx) ==
  /\ Required(tx, "LoanID", IsLedgerEntryId) /\ Required(tx, "Amount", IsAmount)
  /\ Cardinality({flag \in LoanPayFlags : HasFlag(tx, flag)}) <= 1

LoanSetFlags == {"tfLoanOverpayment"}

LoanSetFields == Fields({"LoanBrokerID", "PrincipalRequested"}, {"CounterpartySignature",
  "Counterparty", "Data", "LoanOriginationFee", "LoanServiceFee", "LatePaymentFee",
  "ClosePaymentFee", "OverpaymentFee", "InterestRate", "LateInterestRate", "CloseInterestRate",
  "OverpaymentInterestRate", "PaymentTotal", "PaymentInterval", "GracePeriod"})

ValidateLoanSet(tx) ==
  /\ Required(tx, "LoanBrokerID", IsLedgerEntryId)
  /\ Required(tx, "PrincipalRequested", IsXRPLNumber)
  /\ Optional(tx, "CounterpartySignature", IsRecord)
  /\ LoanData(tx)
  /\ Optional(tx, "Counterparty", IsAccount)
  /\ \A f \in {"LoanOriginationFee", "LoanServiceFee", "LatePaymentFee", "ClosePaymentFee"} :
       Optional(tx, f, IsXRPLNumber)
  /\ Rates(tx, {"OverpaymentFee", "InterestRate", "LateInterestRate", "CloseInterestRate",
                "OverpaymentInterestRate"})
  /\ Numbers(tx, {}, {"PaymentTotal", "PaymentInterval", "GracePeriod"})
  /\ Has(tx, "PaymentInterval") =>
       /\ tx["PaymentInterval"].num >= MIN_PAYMENT_INTERVAL
       /\ Has(tx, "GracePeriod") => tx["GracePeriod"].num <= tx["PaymentInterval"].num

(* Sponsorships. *)
SponsorshipSetFlags == {"tfSponsorshipSetRequireSignForFee", "tfSponsorshipClearRequireSignForFee",
  "tfSponsorshipSetRequireSignForReserve", "tfSponsorshipClearRequireSignForReserve",
  "tfDeleteObject"}

SponsorshipSetFields == Fields({}, {"Sponsee", "CounterpartySponsor", "FeeAmountDelta", "MaxFee",
  "RemainingOwnerCountDelta"})

\* The flags that modify an entry, and the pairs of them that contradict each other.
SponsorshipSetModifyFlags == SponsorshipSetFlags \ {"tfDeleteObject"}

SponsorshipSetConflicts == {
  {"tfSponsorshipSetRequireSignForFee", "tfSponsorshipClearRequireSignForFee"},
  {"tfSponsorshipSetRequireSignForReserve", "tfSponsorshipClearRequireSignForReserve"}}

IsSignedInteger(v) == "dec" \in DOMAIN v /\ v.as = "plain"

OtherAccount(tx, f) == Has(tx, f) => IsAccount(tx[f]) /\ ~ AreAddressesEqual(tx["Account"], tx[f])

ValidateSponsorshipSet(tx) ==
  LET modifies == \E flag \in SponsorshipSetModifyFlags : HasFlag(tx, flag)
      isDelete == HasFlag(tx, "tfDeleteObject")
      changes == {"FeeAmountDelta", "RemainingOwnerCountDelta", "MaxFee"} \cap DOMAIN tx
  IN /\ ExactlyOneOf(tx, {"Sponsee", "CounterpartySponsor"})
     /\ \A f \in {"Sponsee", "CounterpartySponsor"} : OtherAccount(tx, f)
     /\ \A pair \in SponsorshipSetConflicts : \E flag \in pair : ~ HasFlag(tx, flag)
     /\ Has(tx, "CounterpartySponsor") => isDelete
     /\ IF isDelete THEN ~ modifies /\ changes = {} ELSE modifies \/ changes # {}
     /\ Has(tx, "FeeAmountDelta") =>
          IsSignedInteger(tx["FeeAmountDelta"]) /\ tx["FeeAmountDelta"].dec # 0
     /\ Optional(tx, "MaxFee", IsDigits)
     /\ Has(tx, "RemainingOwnerCountDelta") =>
          "num" \in DOMAIN tx["RemainingOwnerCountDelta"] /\ tx["RemainingOwnerCountDelta"].num # 0

SponsorshipTransferFlags == {"tfSponsorshipEnd", "tfSponsorshipCreate", "tfSponsorshipReassign"}
SponsorshipTransferFields == Fields({}, {"ObjectID", "Sponsee"})

ValidateSponsorshipTransfer(tx) ==
  LET scenarios == {flag \in SponsorshipTransferFlags : HasFlag(tx, flag)}
      ends == HasFlag(tx, "tfSponsorshipEnd")
  IN /\ Cardinality(scenarios) = 1
     /\ Optional(tx, "ObjectID", IsLedgerEntryId)
     /\ OtherAccount(tx, "Sponsor") /\ OtherAccount(tx, "Sponsee")
     /\ IF ends THEN ~ Has(tx, "Sponsor")
        ELSE /\ Has(tx, "Sponsor") /\ ~ Has(tx, "Sponsee")
             /\ Has(tx, "SponsorFlags") /\ "spfSponsorReserve" \in tx["SponsorFlags"].bits
             /\ Has(tx, "ObjectID") \/ Has(tx, "SponsorSignature")
=============================================================================
