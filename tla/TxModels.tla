--------------------------------- MODULE TxModels ---------------------------------
(* validate() of models/transactions/transaction.ts: what every transaction, *)
(* its type and its flags are checked for; and Batch, whose inner            *)
(* transactions are validated as it is.                                      *)
EXTENDS TxCommon, TxTokens, TxLending

(* Batch. *)
BatchFlags == {"tfAllOrNothing", "tfOnlyOne", "tfUntilFailure", "tfIndependent"}
BatchFields == Fields({"RawTransactions"}, {"BatchSigners"})

ValidateBatchInnerTransaction(tx) ==
  /\ Type(tx) # "Batch" /\ HasFlag(tx, "tfInnerBatchTxn")
  /\ Has(tx, "Fee") => tx["Fee"] = Dec(0)
  /\ Has(tx, "SigningPubKey") => tx["SigningPubKey"] = Text("")
  /\ \A f \in {"TxnSignature", "Signers", "LastLedgerSequence"} : ~ Has(tx, f)

IsBatchSigner(v) ==
  /\ Wrapped(v, "BatchSigner")
  /\ Strings(v.obj["BatchSigner"].obj, {"Account"}, {"SigningPubKey", "TxnSignature"})
  /\ Optional(v.obj["BatchSigner"].obj, "Signers", IsArray)

ValidateBatch(tx) ==
  /\ Required(tx, "RawTransactions", IsArray)
  /\ \A r \in Elements(tx["RawTransactions"]) :
       Wrapped(r, "RawTransaction") /\ ValidateBatchInnerTransaction(r.obj["RawTransaction"].obj)
  /\ Optional(tx, "BatchSigners", IsArray)
  /\ Has(tx, "BatchSigners") => \A s \in Elements(tx["BatchSigners"]) : IsBatchSigner(s)

(* The models, their fields and their flags. *)
FieldsOfType == [
  AMMBid |-> AMMBidFields, AMMClawback |-> AMMClawbackFields, AMMCreate |-> AMMCreateFields,
  AMMDelete |-> AMMDeleteFields, AMMDeposit |-> AMMDepositFields, AMMVote |-> AMMVoteFields,
  AMMWithdraw |-> AMMWithdrawFields, AccountDelete |-> AccountDeleteFields,
  AccountSet |-> AccountSetFields, Batch |-> BatchFields, CheckCancel |-> CheckCancelFields,
  CheckCash |-> CheckCashFields, CheckCreate |-> CheckCreateFields, Clawback |-> ClawbackFields,
  ConfidentialMPTClawback |-> ConfidentialMPTClawbackFields,
  ConfidentialMPTConvert |-> ConfidentialMPTConvertFields,
  ConfidentialMPTConvertBack |-> ConfidentialMPTConvertBackFields,
  ConfidentialMPTMergeInbox |-> ConfidentialMPTMergeInboxFields,
  ConfidentialMPTSend |-> ConfidentialMPTSendFields, CredentialAccept |-> CredentialAcceptFields,
  CredentialCreate |-> CredentialCreateFields, CredentialDelete |-> CredentialDeleteFields,
  DIDDelete |-> DIDDeleteFields, DIDSet |-> DIDSetFields, DelegateSet |-> DelegateSetFields,
  DepositPreauth |-> DepositPreauthFields, EscrowCancel |-> EscrowCancelFields,
  EscrowCreate |-> EscrowCreateFields, EscrowFinish |-> EscrowFinishFields,
  LoanBrokerCoverClawback |-> LoanBrokerCoverClawbackFields,
  LoanBrokerCoverDeposit |-> LoanBrokerCoverDepositFields,
  LoanBrokerCoverWithdraw |-> LoanBrokerCoverWithdrawFields,
  LoanBrokerDelete |-> LoanBrokerDeleteFields, LoanBrokerSet |-> LoanBrokerSetFields,
  LoanSet |-> LoanSetFields, LoanManage |-> LoanManageFields, LoanDelete |-> LoanDeleteFields,
  LoanPay |-> LoanPayFields, MPTokenAuthorize |-> MPTokenAuthorizeFields,
  MPTokenIssuanceCreate |-> MPTokenIssuanceCreateFields,
  MPTokenIssuanceDestroy |-> MPTokenIssuanceDestroyFields,
  MPTokenIssuanceSet |-> MPTokenIssuanceSetFields,
  NFTokenAcceptOffer |-> NFTokenAcceptOfferFields, NFTokenBurn |-> NFTokenBurnFields,
  NFTokenCancelOffer |-> NFTokenCancelOfferFields,
  NFTokenCreateOffer |-> NFTokenCreateOfferFields, NFTokenMint |-> NFTokenMintFields,
  NFTokenModify |-> NFTokenModifyFields, OfferCancel |-> OfferCancelFields,
  OfferCreate |-> OfferCreateFields, OracleDelete |-> OracleDeleteFields,
  OracleSet |-> OracleSetFields, Payment |-> PaymentFields,
  PaymentChannelClaim |-> PaymentChannelClaimFields,
  PaymentChannelCreate |-> PaymentChannelCreateFields,
  PaymentChannelFund |-> PaymentChannelFundFields,
  PermissionedDomainSet |-> PermissionedDomainSetFields,
  PermissionedDomainDelete |-> PermissionedDomainDeleteFields,
  SetRegularKey |-> SetRegularKeyFields, SignerListSet |-> SignerListSetFields,
  SponsorshipSet |-> SponsorshipSetFields, SponsorshipTransfer |-> SponsorshipTransferFields,
  TicketCreate |-> TicketCreateFields, TrustSet |-> TrustSetFields,
  VaultClawback |-> VaultClawbackFields, VaultCreate |-> VaultCreateFields,
  VaultDelete |-> VaultDeleteFields, VaultDeposit |-> VaultDepositFields,
  VaultSet |-> VaultSetFields, VaultWithdraw |-> VaultWithdrawFields,
  XChainAccountCreateCommit |-> XChainAccountCreateCommitFields,
  XChainAddAccountCreateAttestation |-> XChainAddAccountCreateAttestationFields,
  XChainAddClaimAttestation |-> XChainAddClaimAttestationFields,
  XChainClaim |-> XChainClaimFields, XChainCommit |-> XChainCommitFields,
  XChainCreateBridge |-> XChainCreateBridgeFields,
  XChainCreateClaimID |-> XChainCreateClaimIDFields,
  XChainModifyBridge |-> XChainModifyBridgeFields]

\* LoanSet has flags of its own, which this table does not have.
TxToFlag == [
  AccountSet |-> AccountSetTfFlags, AMMClawback |-> AMMClawbackFlags,
  AMMDeposit |-> AMMDepositFlags, AMMWithdraw |-> AMMWithdrawFlags, Batch |-> BatchFlags,
  LoanManage |-> LoanManageFlags, LoanPay |-> LoanPayFlags,
  MPTokenAuthorize |-> MPTokenAuthorizeFlags,
  MPTokenIssuanceCreate |-> MPTokenIssuanceCreateFlags,
  MPTokenIssuanceSet |-> MPTokenIssuanceSetFlags, NFTokenCreateOffer |-> NFTokenCreateOfferFlags,
  NFTokenMint |-> NFTokenMintFlags, OfferCreate |-> OfferCreateFlags,
  PaymentChannelClaim |-> PaymentChannelClaimFlags, Payment |-> PaymentFlags,
  SponsorshipSet |-> SponsorshipSetFlags, SponsorshipTransfer |-> SponsorshipTransferFlags,
  TrustSet |-> TrustSetFlags, VaultCreate |-> VaultCreateFlags,
  XChainModifyBridge |-> XChainModifyBridgeFlags]

FlagEnum(type) == IF type \in DOMAIN TxToFlag THEN TxToFlag[type] ELSE {}

ValidateByType(t, tx) ==
  CASE t = "AMMBid" -> ValidateAMMBid(tx)
    [] t = "AMMClawback" -> ValidateAMMClawback(tx)
    [] t = "AMMCreate" -> ValidateAMMCreate(tx)
    [] t = "AMMDelete" -> ValidateAMMDelete(tx)
    [] t = "AMMDeposit" -> ValidateAMMDeposit(tx)
    [] t = "AMMVote" -> ValidateAMMVote(tx)
    [] t = "AMMWithdraw" -> ValidateAMMWithdraw(tx)
    [] t = "AccountDelete" -> ValidateAccountDelete(tx)
    [] t = "AccountSet" -> ValidateAccountSet(tx)
    [] t = "CheckCancel" -> ValidateCheckCancel(tx)
    [] t = "CheckCash" -> ValidateCheckCash(tx)
    [] t = "CheckCreate" -> ValidateCheckCreate(tx)
    [] t = "Clawback" -> ValidateClawback(tx)
    [] t = "ConfidentialMPTClawback" -> ValidateConfidentialMPTClawback(tx)
    [] t = "ConfidentialMPTConvert" -> ValidateConfidentialMPTConvert(tx)
    [] t = "ConfidentialMPTConvertBack" -> ValidateConfidentialMPTConvertBack(tx)
    [] t = "ConfidentialMPTMergeInbox" -> ValidateConfidentialMPTMergeInbox(tx)
    [] t = "ConfidentialMPTSend" -> ValidateConfidentialMPTSend(tx)
    [] t = "CredentialAccept" -> ValidateCredentialAccept(tx)
    [] t = "CredentialCreate" -> ValidateCredentialCreate(tx)
    [] t = "CredentialDelete" -> ValidateCredentialDelete(tx)
    [] t = "DIDDelete" -> TRUE
    [] t = "DIDSet" -> ValidateDIDSet(tx)
    [] t = "DelegateSet" -> ValidateDelegateSet(tx)
    [] t = "DepositPreauth" -> ValidateDepositPreauth(tx)
    [] t = "EscrowCancel" -> ValidateEscrowCancel(tx)
    [] t = "EscrowCreate" -> ValidateEscrowCreate(tx)
    [] t = "EscrowFinish" -> ValidateEscrowFinish(tx)
    [] t = "LoanBrokerCoverClawback" -> ValidateLoanBrokerCoverClawback(tx)
    [] t = "LoanBrokerCoverDeposit" -> ValidateLoanBrokerCoverDeposit(tx)
    [] t = "LoanBrokerCoverWithdraw" -> ValidateLoanBrokerCoverWithdraw(tx)
    [] t = "LoanBrokerDelete" -> ValidateLoanBrokerDelete(tx)
    [] t = "LoanBrokerSet" -> ValidateLoanBrokerSet(tx)
    [] t = "LoanSet" -> ValidateLoanSet(tx)
    [] t = "LoanManage" -> ValidateLoanManage(tx)
    [] t = "LoanDelete" -> ValidateLoanDelete(tx)
    [] t = "LoanPay" -> ValidateLoanPay(tx)
    [] t = "MPTokenAuthorize" -> ValidateMPTokenAuthorize(tx)
    [] t = "MPTokenIssuanceCreate" -> ValidateMPTokenIssuanceCreate(tx)
    [] t = "MPTokenIssuanceDestroy" -> ValidateMPTokenIssuanceDestroy(tx)
    [] t = "MPTokenIssuanceSet" -> ValidateMPTokenIssuanceSet(tx)
    [] t = "NFTokenAcceptOffer" -> ValidateNFTokenAcceptOffer(tx)
    [] t = "NFTokenBurn" -> ValidateNFTokenBurn(tx)
    [] t = "NFTokenCancelOffer" -> ValidateNFTokenCancelOffer(tx)
    [] t = "NFTokenCreateOffer" -> ValidateNFTokenCreateOffer(tx)
    [] t = "NFTokenMint" -> ValidateNFTokenMint(tx)
    [] t = "NFTokenModify" -> ValidateNFTokenModify(tx)
    [] t = "OfferCancel" -> ValidateOfferCancel(tx)
    [] t = "OfferCreate" -> ValidateOfferCreate(tx)
    [] t = "OracleDelete" -> ValidateOracleDelete(tx)
    [] t = "OracleSet" -> ValidateOracleSet(tx)
    [] t = "Payment" -> ValidatePayment(tx)
    [] t = "PaymentChannelClaim" -> ValidatePaymentChannelClaim(tx)
    [] t = "PaymentChannelCreate" -> ValidatePaymentChannelCreate(tx)
    [] t = "PaymentChannelFund" -> ValidatePaymentChannelFund(tx)
    [] t = "PermissionedDomainSet" -> ValidatePermissionedDomainSet(tx)
    [] t = "PermissionedDomainDelete" -> ValidatePermissionedDomainDelete(tx)
    [] t = "SetRegularKey" -> ValidateSetRegularKey(tx)
    [] t = "SignerListSet" -> ValidateSignerListSet(tx)
    [] t = "SponsorshipSet" -> ValidateSponsorshipSet(tx)
    [] t = "SponsorshipTransfer" -> ValidateSponsorshipTransfer(tx)
    [] t = "TicketCreate" -> ValidateTicketCreate(tx)
    [] t = "TrustSet" -> ValidateTrustSet(tx)
    [] t = "VaultClawback" -> ValidateVaultClawback(tx)
    [] t = "VaultCreate" -> ValidateVaultCreate(tx)
    [] t = "VaultDelete" -> ValidateVaultDelete(tx)
    [] t = "VaultDeposit" -> ValidateVaultDeposit(tx)
    [] t = "VaultSet" -> ValidateVaultSet(tx)
    [] t = "VaultWithdraw" -> ValidateVaultWithdraw(tx)
    [] t = "XChainAccountCreateCommit" -> ValidateXChainAccountCreateCommit(tx)
    [] t = "XChainAddAccountCreateAttestation" -> ValidateXChainAddAccountCreateAttestation(tx)
    [] t = "XChainAddClaimAttestation" -> ValidateXChainAddClaimAttestation(tx)
    [] t = "XChainClaim" -> ValidateXChainClaim(tx)
    [] t = "XChainCommit" -> ValidateXChainCommit(tx)
    [] t = "XChainCreateBridge" -> ValidateXChainCreateBridge(tx)
    [] t = "XChainCreateClaimID" -> ValidateXChainCreateClaimID(tx)
    [] t = "XChainModifyBridge" -> ValidateXChainModifyBridge(tx)

WithFlags(tx, flags) == [f \in DOMAIN tx \cup {"Flags"} |-> IF f = "Flags" THEN flags ELSE tx[f]]

\* A transaction that is no Batch; the flags are numeric before its type is looked at.
ValidateAlone(tx) ==
  /\ ValidateBaseTransaction(tx) /\ NoIssuedXRP(tx)
  /\ FlagsKnown(tx, FlagEnum(Type(tx)))
  /\ ValidateByType(Type(tx), WithFlags(tx, ConvertTxFlagsToNumber(tx)))

Validate(tx) ==
  IF Type(tx) # "Batch" THEN ValidateAlone(tx)
  ELSE /\ ValidateBaseTransaction(tx) /\ NoIssuedXRP(tx)
       /\ FlagsKnown(tx, FlagEnum("Batch")) /\ ValidateBatch(tx)
       /\ \A r \in Elements(tx["RawTransactions"]) : ValidateAlone(r.obj["RawTransaction"].obj)
=============================================================================
