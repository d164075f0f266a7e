--------------------------------- MODULE TxTokens ---------------------------------
(* The models of the transactions about NFTs, AMMs, MPTs, confidential MPTs, *)
(* price oracles and cross-chain bridges.                                    *)
EXTENDS TxLedger

(* NFTs. *)
NFTokenAcceptOfferFields == Fields({}, {"NFTokenSellOffer", "NFTokenBuyOffer", "NFTokenBrokerFee"})

ValidateNFTokenBrokerFee(tx) ==
  /\ ~ IsNaNAmount(tx["NFTokenBrokerFee"]) /\ ParseAmountValue(tx["NFTokenBrokerFee"]) > 0
  /\ Has(tx, "NFTokenSellOffer") /\ Has(tx, "NFTokenBuyOffer")

ValidateNFTokenAcceptOffer(tx) ==
  /\ Has(tx, "NFTokenBrokerFee") => ValidateNFTokenBrokerFee(tx)
  /\ Has(tx, "NFTokenSellOffer") \/ Has(tx, "NFTokenBuyOffer")

NFTokenBurnFields == Fields({"NFTokenID"}, {"Owner"})
ValidateNFTokenBurn(tx) == Strings(tx, {"NFTokenID"}, {}) /\ Optional(tx, "Owner", IsAccount)

NFTokenCancelOfferFields == Fields({"NFTokenOffers"}, {})

ValidateNFTokenCancelOffer(tx) ==
  Required(tx, "NFTokenOffers", IsArray) /\ tx["NFTokenOffers"].arr # <<>>

NFTokenCreateOfferFlags == {"tfSellNFToken"}

NFTokenCreateOfferFields == Fields({"NFTokenID", "Amount"}, {"Owner", "Expiration", "Destination"})

\* An amount that is no number passes for positive.
ValidateNFTokenCreateOffer(tx) ==
  /\ \A f \in {"Owner", "Destination"} :
       Has(tx, f) => IsAccount(tx[f]) /\ ~ AreAddressesEqual(tx["Account"], tx[f])
  /\ Has(tx, "NFTokenID") /\ Required(tx, "Amount", IsAmount)
  /\ IF HasFlag(tx, "tfSellNFToken") THEN ~ Has(tx, "Owner")
     ELSE Has(tx, "Owner") /\ (IsNaNAmount(tx["Amount"]) \/ ParseAmountValue(tx["Amount"]) > 0)

NFTokenMintFlags == {"tfBurnable", "tfOnlyXRP", "tfTrustLine", "tfTransferable", "tfMutable"}

NFTokenMintFields == Fields({"NFTokenTaxon"}, {"Issuer", "TransferFee", "URI", "Amount",
  "Expiration", "Destination"})

\* The issuer is compared with the account as it is written.
ValidateNFTokenMint(tx) ==
  /\ Has(tx, "Issuer") => IsAccount(tx["Issuer"]) /\ ~ SameText(tx["Account"], tx["Issuer"])
  /\ Has(tx, "URI") /\ IsString(tx["URI"]) => IsHex(tx["URI"])
  /\ Has(tx, "NFTokenTaxon")
  /\ Has(tx, "Amount") \/ (~ Has(tx, "Expiration") /\ ~ Has(tx, "Destination"))
  /\ Optional(tx, "Amount", IsAmount) /\ Numbers(tx, {}, {"Expiration"})
  /\ Optional(tx, "Destination", IsAccount)

NFTokenModifyFields == Fields({"NFTokenID"}, {"Owner", "URI"})

ValidateNFTokenModify(tx) ==
  /\ Strings(tx, {"NFTokenID"}, {}) /\ Optional(tx, "Owner", IsAccount)
  /\ Optional(tx, "URI", IsHex)

(* AMMs. *)
AMM_MAX_TRADING_FEE == 1000

AssetPair(tx) == \A f \in {"Asset", "Asset2"} : Required(tx, f, IsIssuedCurrency)

TradingFee(tx) == Has(tx, "TradingFee") /\ NumberWithin(tx, "TradingFee", 0..AMM_MAX_TRADING_FEE)

AMMBidFields == Fields({"Asset", "Asset2"}, {"BidMin", "BidMax", "AuthAccounts"})

ValidateAuthAccounts(sender, accounts) ==
  \A a \in Elements(accounts) :
    /\ IsRecord(a) /\ "AuthAccount" \in Keys(a) /\ IsRecord(a.obj["AuthAccount"])
    /\ Required(a.obj["AuthAccount"].obj, "Account", IsString)
    /\ ~ SameText(a.obj["AuthAccount"].obj["Account"], sender)

ValidateAMMBid(tx) ==
  /\ AssetPair(tx)
  /\ \A f \in {"BidMin", "BidMax"} : Optional(tx, f, IsAmount)
  /\ Has(tx, "AuthAccounts") =>
       /\ IsArray(tx["AuthAccounts"]) /\ Len(tx["AuthAccounts"].arr) <= 4
       /\ ValidateAuthAccounts(tx["Account"], tx["AuthAccounts"])

AMMClawbackFlags == {"tfClawTwoAssets"}
AMMClawbackFields == Fields({"Holder", "Asset", "Asset2"}, {"Amount"})

ValidateAMMClawback(tx) ==
  /\ Required(tx, "Holder", IsAccount) /\ AssetPair(tx)
  /\ LET asset == tx["Asset"].obj IN
     /\ Has(asset, "issuer")
     /\ ~ SameText(tx["Holder"], asset["issuer"]) /\ SameText(tx["Account"], asset["issuer"])
     /\ Has(tx, "Amount") =>
          /\ IsIssuedCurrencyAmount(tx["Amount"])
          /\ \A k \in {"currency", "issuer"} : SameText(tx["Amount"].obj[k], asset[k])

AMMCreateFields == Fields({"Amount", "Amount2", "TradingFee"}, {})

ValidateAMMCreate(tx) ==
  TradingFee(tx) /\ \A f \in {"Amount", "Amount2"} : Required(tx, f, IsAmount)

AMMDeleteFields == Fields({"Asset", "Asset2"}, {})
ValidateAMMDelete(tx) == AssetPair(tx)

AMMDepositFlags == {"tfLPToken", "tfSingleAsset", "tfTwoAsset", "tfOneAssetLPToken",
  "tfLimitLPToken", "tfTwoAssetIfEmpty"}

AMMDepositFields == Fields({"Asset", "Asset2"}, {"Amount", "Amount2", "EPrice", "LPTokenOut"})

\* A second amount, or a price, is one of the first amount.
PoolAmounts(tx) ==
  /\ \A f \in {"Amount2", "EPrice"} : Has(tx, f) => Has(tx, "Amount")
  /\ \A f \in {"Amount", "Amount2", "EPrice"} : Optional(tx, f, IsAmount)

ValidateAMMDeposit(tx) ==
  /\ AssetPair(tx) /\ PoolAmounts(tx)
  /\ Has(tx, "LPTokenOut") \/ Has(tx, "Amount")
  /\ Optional(tx, "LPTokenOut", IsIssuedCurrencyAmount)

AMMVoteFields == Fields({"Asset", "Asset2", "TradingFee"}, {})
ValidateAMMVote(tx) == AssetPair(tx) /\ TradingFee(tx)

AMMWithdrawFlags == {"tfLPToken", "tfWithdrawAll", "tfOneAssetWithdrawAll", "tfSingleAsset",
  "tfTwoAsset", "tfOneAssetLPToken", "tfLimitLPToken"}

AMMWithdrawFields == Fields({"Asset", "Asset2"}, {"Amount", "Amount2", "EPrice", "LPTokenIn"})

ValidateAMMWithdraw(tx) ==
  AssetPair(tx) /\ PoolAmounts(tx) /\ Optional(tx, "LPTokenIn", IsIssuedCurrencyAmount)

ClawbackFields == Fields({"Amount"}, {"Holder"})

ValidateClawback(tx) ==
  /\ Required(tx, "Amount", IsTokenAmount)
  /\ Optional(tx, "Holder", IsAccount)
  /\ IF IsMPTAmount(tx["Amount"])
     THEN Has(tx, "Holder") /\ ~ SameText(tx["Account"], tx["Holder"])
     ELSE ~ Has(tx, "Holder") /\ ~ SameText(tx["Account"], tx["Amount"].obj["issuer"])

(* MPTs. *)
MAX_TRANSFER_FEE == 50000
MAX_MPT_META_BYTE_LENGTH == 1024

TransferFee(tx) == NumberWithin(tx, "TransferFee", 0..MAX_TRANSFER_FEE)
ChargesTransfers(tx) == Has(tx, "TransferFee") /\ tx["TransferFee"] # Num(0)

MPTokenAuthorizeFlags == {"tfMPTUnauthorize"}
MPTokenAuthorizeFields == Fields({"MPTokenIssuanceID"}, {"Holder"})

ValidateMPTokenAuthorize(tx) ==
  Strings(tx, {"MPTokenIssuanceID"}, {}) /\ Optional(tx, "Holder", IsAccount)

MPTokenIssuanceCreateFlags == {"tfMPTCanLock", "tfMPTRequireAuth", "tfMPTCanEscrow",
  "tfMPTCanTrade", "tfMPTCanTransfer", "tfMPTCanClawback", "tfMPTCanHoldConfidentialBalance"}

TifMPTokenIssuanceImmutable == {"tifMPTCanLock", "tifMPTRequireAuth", "tifMPTCanEscrow",
  "tifMPTCanTrade", "tifMPTCanTransfer", "tifMPTCanClawback",
  "tifMPTCanHoldConfidentialBalance", "tifMPTMetadata", "tifMPTTransferFee"}

MPTokenIssuanceCreateFields == Fields({}, {"AssetScale", "MaximumAmount", "TransferFee",
  "MPTokenMetadata", "ImmutableFlags", "DomainID"})

ImmutableFlags(tx) ==
  Has(tx, "ImmutableFlags") =>
    /\ "bits" \in DOMAIN tx["ImmutableFlags"] /\ tx["ImmutableFlags"].bits # {}
    /\ tx["ImmutableFlags"].bits \subseteq TifMPTokenIssuanceImmutable

MPTMetadata(v) == IsHex(v) /\ HexLength(v) <= 2 * MAX_MPT_META_BYTE_LENGTH

ValidateMPTokenIssuanceCreate(tx) ==
  /\ Numbers(tx, {}, {"AssetScale"})
  /\ Optional(tx, "DomainID", IsDomainID)
  /\ Has(tx, "DomainID") => HasFlag(tx, "tfMPTRequireAuth")
  /\ ImmutableFlags(tx)
  /\ Optional(tx, "MPTokenMetadata", MPTMetadata)
  /\ Has(tx, "MaximumAmount") =>
       IsDigits(tx["MaximumAmount"]) /\ tx["MaximumAmount"].dec \in 1..MaxMptAmount
  /\ TransferFee(tx)
  /\ ChargesTransfers(tx) =>
       HasFlag(tx, "tfMPTCanTransfer") /\ ~ HasFlag(tx, "tfMPTCanHoldConfidentialBalance")

MPTokenIssuanceDestroyFields == Fields({"MPTokenIssuanceID"}, {})
ValidateMPTokenIssuanceDestroy(tx) == Strings(tx, {"MPTokenIssuanceID"}, {})

MPTokenIssuanceSetEnableFlags == {"tfMPTSetCanLock", "tfMPTSetRequireAuth", "tfMPTSetCanEscrow",
  "tfMPTSetCanTrade", "tfMPTSetCanTransfer", "tfMPTSetCanClawback",
  "tfMPTSetCanHoldConfidentialBalance"}

MPTokenIssuanceSetFlags == {"tfMPTLock", "tfMPTUnlock"} \cup MPTokenIssuanceSetEnableFlags

MPTokenIssuanceSetFields == Fields({"MPTokenIssuanceID"}, {"Holder", "IssuerEncryptionKey",
  "AuditorEncryptionKey", "MPTokenMetadata", "TransferFee", "ImmutableFlags", "DomainID"})

(* Confidential MPTs: hex strings of so many bytes each. *)
EcPoint(v) == IsHexWithByteLength(v, 33)
Ciphertext(v) == IsHexWithByteLength(v, 66)
BlindingFactor(v) == IsHexWithByteLength(v, 32)
ConvertProof(v) == IsHexWithByteLength(v, 64)
ClawbackProof(v) == IsHexWithByteLength(v, 64)
ConvertBackProof(v) == IsHexWithByteLength(v, 816)
SendProof(v) == IsHexWithByteLength(v, 946)

\* What changes the issuance is apart from what locks it or a holder.
ValidateMPTokenIssuanceSet(tx) ==
  LET flags == ConvertTxFlagsToNumber(tx).bits
      isMutate == \/ flags \cap MPTokenIssuanceSetEnableFlags # {}
                  \/ \E f \in {"MPTokenMetadata", "TransferFee", "ImmutableFlags"} : Has(tx, f)
      setsKeys == Has(tx, "IssuerEncryptionKey")
      locks == flags \cap {"tfMPTLock", "tfMPTUnlock"}
  IN /\ Strings(tx, {"MPTokenIssuanceID"}, {"MPTokenMetadata"})
     /\ \A f \in {"IssuerEncryptionKey", "AuditorEncryptionKey"} : Optional(tx, f, EcPoint)
     /\ Has(tx, "AuditorEncryptionKey") => setsKeys
     /\ Optional(tx, "DomainID", IsDomainID)
     /\ ImmutableFlags(tx)
     /\ locks # {"tfMPTLock", "tfMPTUnlock"}
     /\ Has(tx, "Holder") =>
          /\ IsAccount(tx["Holder"]) /\ ~ SameText(tx["Holder"], tx["Account"])
          /\ ~ Has(tx, "DomainID") /\ ~ isMutate /\ ~ setsKeys
     /\ flags # {} \/ Has(tx, "DomainID") \/ isMutate \/ setsKeys
     /\ isMutate => locks = {}
     /\ TransferFee(tx)
     /\ ChargesTransfers(tx) => "tfMPTSetCanHoldConfidentialBalance" \notin flags
     /\ Has(tx, "MPTokenMetadata") /\ tx["MPTokenMetadata"] # Text("") =>
          MPTMetadata(tx["MPTokenMetadata"])

ConfidentialMPTClawbackFields == Fields({"MPTokenIssuanceID", "Holder", "MPTAmount", "ZKProof"}, {})

ValidateConfidentialMPTClawback(tx) ==
  /\ Strings(tx, {"MPTokenIssuanceID"}, {})
  /\ IsMPTIssuer(tx["Account"], tx["MPTokenIssuanceID"])
  /\ Required(tx, "Holder", IsAccount) /\ ~ SameText(tx["Account"], tx["Holder"])
  /\ ValidateConfidentialMPTAmount(tx, FALSE)
  /\ Required(tx, "ZKProof", ClawbackProof)

ConfidentialMPTConvertFields == Fields({"MPTokenIssuanceID", "MPTAmount", "HolderEncryptedAmount",
  "IssuerEncryptedAmount", "BlindingFactor"}, {"HolderEncryptionKey", "AuditorEncryptedAmount",
  "ZKProof"})

\* A conversion, either way, is a holder's.
ConvertedAmounts(tx, allowZero) ==
  /\ Strings(tx, {"MPTokenIssuanceID"}, {})
  /\ ~ IsMPTIssuer(tx["Account"], tx["MPTokenIssuanceID"])
  /\ ValidateConfidentialMPTAmount(tx, allowZero)
  /\ \A f \in {"HolderEncryptedAmount", "IssuerEncryptedAmount"} : Required(tx, f, Ciphertext)
  /\ Optional(tx, "AuditorEncryptedAmount", Ciphertext)
  /\ Required(tx, "BlindingFactor", BlindingFactor)

ValidateConfidentialMPTConvert(tx) ==
  /\ ConvertedAmounts(tx, TRUE)
  /\ Optional(tx, "HolderEncryptionKey", EcPoint) /\ Optional(tx, "ZKProof", ConvertProof)
  /\ Has(tx, "HolderEncryptionKey") <=> Has(tx, "ZKProof")

ConfidentialMPTConvertBackFields == Fields({"MPTokenIssuanceID", "MPTAmount",
  "HolderEncryptedAmount", "IssuerEncryptedAmount", "BlindingFactor", "ZKProof",
  "BalanceCommitment"}, {"AuditorEncryptedAmount"})

ValidateConfidentialMPTConvertBack(tx) ==
  /\ ConvertedAmounts(tx, FALSE)
  /\ Required(tx, "ZKProof", ConvertBackProof) /\ Required(tx, "BalanceCommitment", EcPoint)

ConfidentialMPTMergeInboxFields == Fields({"MPTokenIssuanceID"}, {})

ValidateConfidentialMPTMergeInbox(tx) ==
  Strings(tx, {"MPTokenIssuanceID"}, {}) /\ ~ IsMPTIssuer(tx["Account"], tx["MPTokenIssuanceID"])

ConfidentialMPTSendFields == Fields({"MPTokenIssuanceID", "Destination", "SenderEncryptedAmount",
  "DestinationEncryptedAmount", "IssuerEncryptedAmount", "ZKProof", "AmountCommitment",
  "BalanceCommitment"}, {"DestinationTag", "AuditorEncryptedAmount", "CredentialIDs"})

ValidateConfidentialMPTSend(tx) ==
  /\ Strings(tx, {"MPTokenIssuanceID"}, {})
  /\ Required(tx, "Destination", IsAccount) /\ ~ SameText(tx["Account"], tx["Destination"])
  /\ \A f \in {"Account", "Destination"} : ~ IsMPTIssuer(tx[f], tx["MPTokenIssuanceID"])
  /\ Numbers(tx, {}, {"DestinationTag"})
  /\ \A f \in {"SenderEncryptedAmount", "DestinationEncryptedAmount", "IssuerEncryptedAmount"} :
       Required(tx, f, Ciphertext)
  /\ Optional(tx, "AuditorEncryptedAmount", Ciphertext)
  /\ Required(tx, "ZKProof", SendProof)
  /\ \A f \in {"AmountCommitment", "BalanceCommitment"} : Required(tx, f, EcPoint)
  /\ CredentialIDs(tx)

(* Price oracles. *)
OracleSetFields == Fields({"OracleDocumentID", "LastUpdateTime", "PriceDataSeries"},
  {"Provider", "URI", "AssetClass"})

IsPriceData(v) ==
  /\ IsRecord(v) /\ Keys(v) = {"PriceData"} /\ IsRecord(v.obj["PriceData"])
  /\ LET data == v.obj["PriceData"].obj IN
     /\ Strings(data, {"BaseAsset", "QuoteAsset"}, {})
     /\ Has(data, "AssetPrice") <=> Has(data, "Scale")
     /\ Has(data, "AssetPrice") =>
          \/ IsNumber(data["AssetPrice"])
          \/ IsHex(data["AssetPrice"]) /\ HexLength(data["AssetPrice"]) \in 1..16
     /\ NumberWithin(data, "Scale", 0..10)

ValidateOracleSet(tx) ==
  /\ Numbers(tx, {"OracleDocumentID", "LastUpdateTime"}, {})
  /\ Strings(tx, {}, {"Provider", "URI", "AssetClass"})
  /\ Required(tx, "PriceDataSeries", IsArray) /\ Len(tx["PriceDataSeries"].arr) <= 10
  /\ \A p \in Elements(tx["PriceDataSeries"]) : IsPriceData(p)

OracleDeleteFields == Fields({"OracleDocumentID"}, {})
ValidateOracleDelete(tx) == Numbers(tx, {"OracleDocumentID"}, {})

(* Cross-chain bridges. *)
Bridge(tx) == Required(tx, "XChainBridge", IsXChainBridge)

\* Mutant: the form in which a caller writes it.
ClaimID_OnlyNumbers(v) == IsNumber(v)

\* What it is decoded to is a string.
ClaimID(v) == IsNumber(v) \/ IsString(v)

XChainAccountCreateCommitFields ==
  Fields({"XChainBridge", "SignatureReward", "Destination", "Amount"}, {})

ValidateXChainAccountCreateCommit(tx) ==
  /\ Bridge(tx) /\ Required(tx, "Destination", IsAccount)
  /\ \A f \in {"SignatureReward", "Amount"} : Required(tx, f, IsAmount)

\* What the two attestations have in common.
AttestationFields == {"Amount", "AttestationRewardAccount", "AttestationSignerAccount",
  "OtherChainSource", "PublicKey", "Signature", "WasLockingChainSend", "XChainBridge"}

ValidateAttestation(tx) ==
  /\ Bridge(tx) /\ Required(tx, "Amount", IsAmount)
  /\ \A f \in {"AttestationRewardAccount", "AttestationSignerAccount", "OtherChainSource"} :
       Required(tx, f, IsAccount)
  /\ Strings(tx, {"PublicKey", "Signature"}, {})
  /\ Has(tx, "WasLockingChainSend") /\ NumberWithin(tx, "WasLockingChainSend", {0, 1})

XChainAddAccountCreateAttestationFields == Fields(AttestationFields \cup {"Destination",
  "SignatureReward", "XChainAccountCreateCount"}, {})

ValidateXChainAddAccountCreateAttestation(tx) ==
  /\ ValidateAttestation(tx)
  /\ Required(tx, "Destination", IsAccount) /\ Required(tx, "SignatureReward", IsAmount)
  /\ Required(tx, "XChainAccountCreateCount", ClaimID)

XChainAddClaimAttestationFields ==
  Fields(AttestationFields \cup {"XChainClaimID"}, {"Destination"})

ValidateXChainAddClaimAttestation(tx) ==
  /\ ValidateAttestation(tx)
  /\ Optional(tx, "Destination", IsAccount) /\ Required(tx, "XChainClaimID", ClaimID)

XChainClaimFields ==
  Fields({"XChainBridge", "XChainClaimID", "Destination", "Amount"}, {"DestinationTag"})

ValidateXChainClaim(tx) ==
  /\ Bridge(tx) /\ Required(tx, "XChainClaimID", ClaimID)
  /\ Required(tx, "Destination", IsAccount) /\ Numbers(tx, {}, {"DestinationTag"})
  /\ Required(tx, "Amount", IsAmount)

XChainCommitFields == Fields({"XChainBridge", "XChainClaimID", "Amount"}, {"OtherChainDestination"})

ValidateXChainCommit(tx) ==
  /\ Bridge(tx) /\ Required(tx, "XChainClaimID", ClaimID) /\ Required(tx, "Amount", IsAmount)
  /\ Optional(tx, "OtherChainDestination", IsAccount)

XChainCreateBridgeFields == Fields({"XChainBridge", "SignatureReward"}, {"MinAccountCreateAmount"})

ValidateXChainCreateBridge(tx) ==
  /\ Bridge(tx) /\ Required(tx, "SignatureReward", IsAmount)
  /\ Optional(tx, "MinAccountCreateAmount", IsAmount)

XChainCreateClaimIDFields == Fields({"XChainBridge", "SignatureReward", "OtherChainSource"}, {})

ValidateXChainCreateClaimID(tx) ==
  /\ Bridge(tx) /\ Required(tx, "SignatureReward", IsAmount)
  /\ Required(tx, "OtherChainSource", IsAccount)

XChainModifyBridgeFlags == {"tfClearAccountCreateAmount"}

XChainModifyBridgeFields ==
  Fields({"XChainBridge"}, {"SignatureReward", "MinAccountCreateAmount"})

ValidateXChainModifyBridge(tx) ==
  Bridge(tx) /\ \A f \in {"SignatureReward", "MinAccountCreateAmount"} : Optional(tx, f, IsAmount)
=============================================================================
