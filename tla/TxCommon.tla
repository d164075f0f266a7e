--------------------------------- MODULE TxCommon ---------------------------------
(* The fields every transaction has: validateBaseTransaction and             *)
(* validateSponsorFields of models/transactions/common.ts.                   *)
EXTENDS TxForms

Type(tx) == tx["TransactionType"].name

\* An object of one field whose value is an object.
Wrapped(v, name) == IsRecord(v) /\ name \in Keys(v) /\ IsRecord(v.obj[name])

IsMemo(v) ==
  /\ Wrapped(v, "Memo")
  /\ Keys(v.obj["Memo"]) \subseteq {"MemoFormat", "MemoData", "MemoType"}
  /\ Keys(v.obj["Memo"]) # {}
  /\ \A k \in Keys(v.obj["Memo"]) : IsHex(v.obj["Memo"].obj[k])

IsSigner(v) ==
  /\ Wrapped(v, "Signer")
  /\ Keys(v.obj["Signer"]) = {"Account", "TxnSignature", "SigningPubKey"}
  /\ \A k \in Keys(v.obj["Signer"]) : IsString(v.obj["Signer"].obj[k])

(* Sponsors. *)
IsInnerBatchTransaction(tx) == HasFlag(tx, "tfInnerBatchTxn")

\* An inner of a Batch holds the place of a signature, which the Batch carries.
IsSponsorSignature(v, isInner) ==
  /\ IsRecord(v)
  /\ IF isInner
     THEN Keys(v) \cap {"TxnSignature", "Signers"} = {}
          /\ "SigningPubKey" \in Keys(v) /\ v.obj["SigningPubKey"] = Text("")
     ELSE LET single == {"SigningPubKey", "TxnSignature"} \subseteq Keys(v)
              multi == "Signers" \in Keys(v)
          IN /\ single # multi
             /\ single => IsString(v.obj["SigningPubKey"]) /\ IsString(v.obj["TxnSignature"])
             /\ multi => /\ IsArray(v.obj["Signers"])
                         /\ \A s \in Elements(v.obj["Signers"]) : IsSigner(s)

ReserveSponsorable == {
  "DelegateSet", "DepositPreauth", "Payment", "SignerListSet", "CheckCancel", "CheckCash",
  "CheckCreate", "EscrowCancel", "EscrowCreate", "EscrowFinish", "PaymentChannelClaim",
  "PaymentChannelCreate", "PaymentChannelFund", "Clawback", "MPTokenAuthorize",
  "MPTokenIssuanceCreate", "MPTokenIssuanceDestroy", "MPTokenIssuanceSet", "TrustSet",
  "CredentialAccept", "CredentialCreate", "CredentialDelete", "AccountSet",
  "SetRegularKey", "SponsorshipTransfer"}

ValidateSponsorFlagsValue(tx, flags) ==
  /\ flags # {} /\ flags \subseteq {"spfSponsorFee", "spfSponsorReserve"}
  /\ "spfSponsorReserve" \in flags => Type(tx) \in ReserveSponsorable /\ ~ Has(tx, "Delegate")
  /\ "spfSponsorFee" \in flags => ~ IsInnerBatchTransaction(tx)

ValidateSponsorFields(tx) ==
  /\ (\E f \in {"Sponsor", "SponsorFlags", "SponsorSignature"} : Has(tx, f))
       => Has(tx, "Sponsor") /\ Has(tx, "SponsorFlags")
  /\ Optional(tx, "Sponsor", IsAccount)
  /\ Has(tx, "SponsorFlags") =>
       /\ "bits" \in DOMAIN tx["SponsorFlags"]
       /\ ValidateSponsorFlagsValue(tx, tx["SponsorFlags"].bits)
  /\ Has(tx, "SponsorSignature") =>
       IsSponsorSignature(tx["SponsorSignature"], IsInnerBatchTransaction(tx))
  /\ Has(tx, "Sponsor") => ~ AreAddressesEqual(tx["Sponsor"], tx["Account"])

ValidateBaseTransaction(tx) ==
  /\ Required(tx, "Account", IsString)
  /\ \A f \in {"Fee", "AccountTxnID", "SigningPubKey", "TxnSignature"} : Optional(tx, f, IsString)
  /\ \A f \in {"Sequence", "LastLedgerSequence", "SourceTag", "TicketSequence", "NetworkID"} :
       Optional(tx, f, IsNumber)
  /\ Has(tx, "Memos") => IsArray(tx["Memos"]) /\ \A m \in Elements(tx["Memos"]) : IsMemo(m)
  /\ Has(tx, "Signers") => /\ IsArray(tx["Signers"]) /\ tx["Signers"].arr # <<>>
                           /\ \A s \in Elements(tx["Signers"]) : IsSigner(s)
  /\ Optional(tx, "Delegate", IsAccount)
  /\ Has(tx, "Delegate") => ~ AreAddressesEqual(tx["Delegate"], tx["Account"])
  /\ ValidateSponsorFields(tx)

\* validate() refuses issued amounts of a currency that reads like XRP.
NoIssuedXRP(tx) ==
  \A f \in DOMAIN tx :
    IsIssuedCurrencyAmount(tx[f]) => tx[f].obj["currency"] \notin {Iso("XRP"), Iso("xrp")}
=============================================================================
