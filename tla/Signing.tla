---------------------------------- MODULE Signing ----------------------------------
(***************************************************************************)
(* How the signatures of a transaction are made and brought together       *)
(* (Wallet/index.ts, signer.ts, batchSigner.ts, sponsorSigner.ts,          *)
(* counterpartySigner.ts).  Copies of one transaction circulate among the  *)
(* signers; each operation takes copies and makes a new one, in any order, *)
(* or throws, which changes nothing.                                       *)
(*                                                                         *)
(* An account is its number in the order of AccountIDs, and stands for the *)
(* wallet whose address it is.  A signature is the record of what it       *)
(* covers: signing is deterministic in both schemes.                       *)
(***************************************************************************)
EXTENDS Naturals, Sequences, FiniteSets

CONSTANTS
  Accounts,   \* 1..n
  Keys,       \* <<w, a>>: wallet w may sign for a, as a itself or by its regular key
  Absent,     \* no SigningPubKey, no account
  Multi,      \* the empty SigningPubKey
  Sender,     \* tx.Account; of a Batch, the outer account
  Sponsor,    \* tx.Sponsor
  Involved,   \* accounts of the inner transactions of the Batch, or their delegates
  Payloads,   \* versions of the fields that every signature covers
  Extras,     \* versions of the fields a batch signature does not cover
  MaxCopies,  \* bound: copies in circulation
  MaxDrafts   \* bound: versions of the transaction in circulation

ASSUME AccountsAssumption == IsFiniteSet(Accounts) /\ Accounts = 1..Cardinality(Accounts)
ASSUME RolesAssumption ==
  /\ Sender \in Accounts /\ Sponsor \in Accounts \ {Sender} /\ Involved \subseteq Accounts
ASSUME KeysAssumption == Keys \subseteq Accounts \X Accounts
ASSUME PubKeysAssumption == Absent \notin Accounts /\ Multi \notin Accounts \cup {Absent}
ASSUME VersionsAssumption == Payloads # {} /\ Extras # {}
ASSUME MaxCopiesAssumption == MaxCopies \in Nat /\ MaxDrafts \in Nat

VARIABLES
  kind,   \* the transaction: "sponsored", "loan" or "batch"
  copies  \* the copies that were made

sgVars == <<kind, copies>>

NoSig == [by |-> Absent]

Signature(by, role, over, as) == [by |-> by, role |-> role, over |-> over, as |-> as]

\* SponsorSignature, CounterpartySignature, or an entry of BatchSigners
NoPart == [account |-> Absent, single |-> NoSig, signers |-> <<>>]

Unsigned(p, x) ==
  [payload |-> p, extra |-> x, pub |-> Absent, single |-> NoSig, signers |-> <<>>,
   sponsor |-> NoPart, party |-> NoPart, batch |-> <<>>]

SGInit ==
  /\ kind \in {"sponsored", "loan", "batch"}
  /\ copies = {Unsigned(CHOOSE p \in Payloads : TRUE, CHOOSE x \in Extras : TRUE)}

\* isSigningField: everything but the signatures themselves.
Content(d) == <<d.payload, d.extra, d.pub>>
BatchContent(d, account) == <<d.payload, account>>

SenderSigned(d) == (d.single # NoSig /\ d.pub # Absent) \/ d.signers # <<>>

\* A new copy comes into circulation.
Make(d) ==
  /\ d \in copies \/ Cardinality(copies) < MaxCopies
  /\ copies' = copies \cup {d}
  /\ UNCHANGED kind

\* The transaction is changed, when some may have signed it already.
Change(p, x) ==
  /\ Cardinality({<<d.payload, d.extra>> : d \in copies} \cup {<<p, x>>}) <= MaxDrafts
  /\ Make(Unsigned(p, x))

-----------------------------------------------------------------------------
(* Signing.                                                                *)

\* wallet.sign(tx)
Sign(w, d) ==
  /\ d.single = NoSig /\ d.signers = <<>>
  /\ LET signed == [d EXCEPT !.pub = w]
     IN  Make([signed EXCEPT !.single = Signature(w, "transaction", Content(signed), Absent)])

\* wallet.sign(tx, address): for its own address, or as the regular key of another.
SignFor(w, a, d) ==
  /\ d.single = NoSig /\ d.signers = <<>>
  /\ LET signed == [d EXCEPT !.pub = Multi]
     IN  Make([signed EXCEPT !.signers =
                 <<[account |-> a, sig |-> Signature(w, "transaction", Content(signed), a)]>>])

Single(w, role, over) == [NoPart EXCEPT !.single = Signature(w, role, over, Absent)]

OneSigner(w, a, role, over) ==
  [NoPart EXCEPT !.signers = <<[account |-> a, sig |-> Signature(w, role, over, a)]>>]

\* signAsSponsor
SignAsSponsor(w, as, d) ==
  /\ kind = "sponsored" /\ d.sponsor = NoPart
  /\ SenderSigned(d)
  /\ as = Absent => w = Sponsor
  /\ Make([d EXCEPT !.sponsor = IF as = Absent THEN Single(w, "sponsor", Content(d))
                                ELSE OneSigner(w, as, "sponsor", Content(d))])

\* signLoanSetByCounterparty
SignAsCounterparty(w, as, d) ==
  /\ kind = "loan" /\ d.party = NoPart
  /\ d.single # NoSig /\ d.pub # Absent
  /\ Make([d EXCEPT !.party = IF as = Absent THEN Single(w, "counterparty", Content(d))
                              ELSE OneSigner(w, as, "counterparty", Content(d))])

\* signMultiBatch: whatever BatchSigners there were are replaced.
SignBatch(w, as, account, d) ==
  /\ kind = "batch" /\ account \in Involved
  /\ LET part == IF as = Absent THEN Single(w, "batch", BatchContent(d, account))
                 ELSE OneSigner(w, as, "batch", BatchContent(d, account))
     IN  Make([d EXCEPT !.batch = <<[part EXCEPT !.account = account]>>])

-----------------------------------------------------------------------------
(* Combining, two fragments f[1] and f[2] at a time.                       *)

\* The sort is by account, and stable.
NotAfter(entries, i, j) ==
  \/ entries[i].account < entries[j].account
  \/ entries[i].account = entries[j].account /\ i <= j

\* The entries at the positions in keep, sorted: the n-th has n of them not after it.
Sorted(entries, keep) ==
  [n \in 1..Cardinality(keep) |->
     entries[CHOOSE i \in keep : Cardinality({j \in keep : NotAfter(entries, j, i)}) = n]]

SortedByAccount(entries) == Sorted(entries, DOMAIN entries)

\* De-duplicated after sorting: the first entry of each account stays.
Firsts(entries) ==
  {i \in DOMAIN entries : \A j \in DOMAIN entries : j < i => entries[j].account # entries[i].account}

\* Mutant: duplicates stay.
FirstOfEach_KeepsAll(entries) == SortedByAccount(entries)

FirstOfEach(entries) == Sorted(entries, Firsts(entries))

\* Mutant: the transactions are not compared.
Multisignable_Mixes(f) == \A i \in DOMAIN f : f[i].signers # <<>> /\ f[i].pub = Multi

\* multisign
Multisignable(f) ==
  /\ \A i \in DOMAIN f : f[i].signers # <<>> /\ f[i].pub = Multi
  /\ [f[1] EXCEPT !.signers = <<>>] = [f[2] EXCEPT !.signers = <<>>]

Multisigned(f) == [f[1] EXCEPT !.signers = SortedByAccount(f[1].signers \o f[2].signers)]

\* combineSponsorSigners
SponsorSignersAgree(f) ==
  /\ \A i \in DOMAIN f : f[i].sponsor.signers # <<>> /\ SenderSigned(f[i])
  /\ [f[1] EXCEPT !.sponsor.signers = <<>>] = [f[2] EXCEPT !.sponsor.signers = <<>>]

WithSponsorSigners(f) ==
  [f[1] EXCEPT !.sponsor =
    [NoPart EXCEPT !.signers = FirstOfEach(f[1].sponsor.signers \o f[2].sponsor.signers)]]

\* combineLoanSetCounterpartySigners: signers that come twice are kept twice.
CounterpartySignersAgree(f) ==
  /\ \A i \in DOMAIN f : f[i].party.signers # <<>> /\ f[i].single # NoSig
  /\ [f[1] EXCEPT !.party.signers = <<>>] = [f[2] EXCEPT !.party.signers = <<>>]

WithCounterpartySigners(f) ==
  [f[1] EXCEPT !.party =
    [NoPart EXCEPT !.signers = SortedByAccount(f[1].party.signers \o f[2].party.signers)]]

\* combineBatchSigners: the copies agree on what batch signatures cover, the first
\* gives the rest.
BatchSignersAgree(f) ==
  /\ \A i \in DOMAIN f : f[i].batch # <<>> /\ f[i].single = NoSig /\ f[i].signers = <<>>
  /\ f[1].payload = f[2].payload

WithBatchSigners(f) ==
  LET entries == f[1].batch \o f[2].batch
  IN [f[1] EXCEPT !.batch =
        Sorted(entries, {i \in Firsts(entries) : entries[i].account # Sender})]

-----------------------------------------------------------------------------

Pairs == copies \X copies

Combine(f) ==
  \/ Multisignable(f) /\ Make(Multisigned(f))
  \/ kind = "sponsored" /\ SponsorSignersAgree(f) /\ Make(WithSponsorSigners(f))
  \/ kind = "loan" /\ CounterpartySignersAgree(f) /\ Make(WithCounterpartySigners(f))
  \/ kind = "batch" /\ BatchSignersAgree(f) /\ Make(WithBatchSigners(f))

\* The accounts that a key signs for: with its own signature, the one it belongs to;
\* as a signer among several, any other.
SignsFor(key, as) == IF as = Absent THEN {key[2]} ELSE Accounts \ {as}

SGNext ==
  \/ \E d \in copies, key \in Keys :
       \/ Sign(key[1], d) \/ SignFor(key[1], key[2], d)
       \/ \E as \in {Absent, key[2]} :
            \/ SignAsSponsor(key[1], as, d) \/ SignAsCounterparty(key[1], as, d)
            \/ \E account \in SignsFor(key, as) : SignBatch(key[1], as, account, d)
  \/ \E f \in Pairs : Combine(f)
  \/ \E p \in Payloads, x \in Extras : Change(p, x)

SGSpec == SGInit /\ [][SGNext]_sgVars

-----------------------------------------------------------------------------
(* What the signing functions promise.                                     *)

EntriesVerify(entries, role, over) ==
  \A i \in DOMAIN entries :
    LET e == entries[i] IN e.sig = Signature(e.sig.by, role, over, e.account)

PartVerifies(part, role, over) ==
  /\ part.single # NoSig => part.single = Signature(part.single.by, role, over, Absent)
  /\ EntriesVerify(part.signers, role, over)

\* Every signature covers the copy it is in, in the role and for the account it is
\* listed under, whatever was signed and combined in which order.
SignaturesVerify ==
  \A d \in copies :
    /\ d.single # NoSig => d.single = Signature(d.pub, "transaction", Content(d), Absent)
    /\ EntriesVerify(d.signers, "transaction", Content(d))
    /\ PartVerifies(d.sponsor, "sponsor", Content(d))
    /\ PartVerifies(d.party, "counterparty", Content(d))
    /\ \A i \in DOMAIN d.batch :
         PartVerifies(d.batch[i], "batch", BatchContent(d, d.batch[i].account))

Ascends(entries, strictly) ==
  \A i, j \in DOMAIN entries :
    i < j => entries[i].account < entries[j].account
             \/ (~strictly /\ entries[i].account = entries[j].account)

\* The lists of signers are in the order the ledger demands, strictly so where the
\* library de-duplicates them, and a Batch that was combined is not co-signed by its
\* own sender.
SignersAscend ==
  /\ \A d \in copies :
       /\ Ascends(d.signers, FALSE) /\ Ascends(d.party.signers, FALSE)
       /\ Ascends(d.sponsor.signers, TRUE) /\ Ascends(d.batch, TRUE)
       /\ Len(d.batch) > 1 => \A i \in DOMAIN d.batch : d.batch[i].account # Sender

Who(entries) == {entries[i].account : i \in DOMAIN entries}

\* Whoever signed one of the copies that are combined has signed the result, but for
\* the sender of a Batch.
SignersKept ==
  \A f \in Pairs : \A d \in {f[1], f[2]} :
    /\ Multisignable(f) => Who(d.signers) \subseteq Who(Multisigned(f).signers)
    /\ kind = "sponsored" /\ SponsorSignersAgree(f) =>
         Who(d.sponsor.signers) \subseteq Who(WithSponsorSigners(f).sponsor.signers)
    /\ kind = "loan" /\ CounterpartySignersAgree(f) =>
         Who(d.party.signers) \subseteq Who(WithCounterpartySigners(f).party.signers)
    /\ kind = "batch" /\ BatchSignersAgree(f) =>
         Who(d.batch) \subseteq Who(WithBatchSigners(f).batch) \cup {Sender}

\* However copies are signed and combined, no signer is lost, none comes twice where
\* the library de-duplicates, and all are in order.
SignersComplete == SignersAscend /\ SignersKept

\* batchSigner.ts:148: combineBatchSigners returns "A single signed Transaction which
\* has all BatchSigners from transactions within it", and so the Signers within them.
Cosigners(d) ==
  UNION {{<<d.batch[i].account, a>> : a \in Who(d.batch[i].signers)} : i \in DOMAIN d.batch}

MultisignedBatch(d) == \A i \in DOMAIN d.batch : d.batch[i].single = NoSig

BatchSignaturesKept ==
  \A f \in Pairs :
    BatchSignersAgree(f) /\ MultisignedBatch(f[1]) /\ MultisignedBatch(f[2]) =>
      \A c \in Cosigners(f[1]) \cup Cosigners(f[2]) :
        c[1] = Sender \/ c \in Cosigners(WithBatchSigners(f))

=============================================================================
