--------------------------------- MODULE TxProofs ---------------------------------
(***************************************************************************)
(* Proofs about what is done to a transaction and read out of one: signing *)
(* and combining (Signing), the Sequences and the Fee that autofill sets   *)
(* (Autofill, AutofillFee), the balance changes of its metadata (Metadata),*)
(* and the trees over which those of a ledger are hashed (ShaMap).         *)
(***************************************************************************)
EXTENDS Signing, Autofill, AutofillFee, Metadata, ShaMap,
        DataLemmas, SequenceTheorems

-----------------------------------------------------------------------------
(* Sorting signers.                                                        *)

\* What is sorted are the entries that were to be kept, each of them once, in the order
\* of their accounts.
LEMMA SortedFacts ==
  ASSUME NEW E, \A e \in E : e.account \in Nat,
         NEW entries \in Seq(E), NEW keep \in SUBSET DOMAIN entries
  PROVE  /\ Sorted(entries, keep) \in Seq(E)
         /\ \A n \in DOMAIN Sorted(entries, keep) : \E i \in keep : Sorted(entries, keep)[n] = entries[i]
         /\ \A i \in keep : \E n \in DOMAIN Sorted(entries, keep) : Sorted(entries, keep)[n] = entries[i]
         /\ Ascends(Sorted(entries, keep), FALSE)
         /\ (\A i, k \in keep : entries[i].account = entries[k].account => i = k)
              => Ascends(Sorted(entries, keep), TRUE)
<1> DEFINE upto == [i \in keep |-> {j \in keep : NotAfter(entries, j, i)}]
           at(n) == CHOOSE i \in keep : Cardinality({j \in keep : NotAfter(entries, j, i)}) = n
           N == 1..Cardinality(keep)
<1>1. /\ DOMAIN entries = 1..Len(entries) /\ Len(entries) \in Nat
      /\ \A i \in keep : i \in Nat /\ entries[i] \in E /\ entries[i].account \in Nat
  OBVIOUS
<1>2. IsFiniteSet(keep)
  <2>1. IsFiniteSet(DOMAIN entries)
    BY <1>1, FS_Interval
  <2> QED BY <2>1, FS_Subset
<1>3. \A i \in keep : upto[i] \subseteq keep /\ i \in upto[i]
  BY <1>1 DEF NotAfter
<1>4. ASSUME NEW i \in keep, NEW k \in keep, i # k
      PROVE  \/ upto[i] \subseteq upto[k] /\ k \notin upto[i]
             \/ upto[k] \subseteq upto[i] /\ i \notin upto[k]
  <2>1. \A x \in keep : \A j : j \in upto[x] <=> j \in keep /\ NotAfter(entries, j, x)
    OBVIOUS
  <2>2. \/ ~NotAfter(entries, k, i)
        \/ ~NotAfter(entries, i, k)
    BY <1>1, <1>4 DEF NotAfter
  <2>3. NotAfter(entries, i, k) \/ NotAfter(entries, k, i)
    BY <1>1 DEF NotAfter
  <2>4. \A x, y, z \in keep : NotAfter(entries, x, y) /\ NotAfter(entries, y, z)
                                => NotAfter(entries, x, z)
    BY <1>1 DEF NotAfter
  <2> HIDE DEF upto
  <2> QED BY <2>1, <2>2, <2>3, <2>4
<1>5. /\ Cardinality(keep) \in Nat
      /\ \A i \in keep : Cardinality(upto[i]) \in N
      /\ \A i, k \in keep : Cardinality(upto[i]) = Cardinality(upto[k]) => i = k
      /\ \A n \in N : \E i \in keep : Cardinality(upto[i]) = n
  <2> HIDE DEF upto
  <2> QED BY <1>2, <1>3, <1>4, Ranks
<1>6. Sorted(entries, keep) = [n \in N |-> entries[at(n)]]
  BY DEF Sorted
<1>7. ASSUME NEW n \in N PROVE at(n) \in keep /\ Cardinality(upto[at(n)]) = n
  <2>1. \A i \in keep : upto[i] = {j \in keep : NotAfter(entries, j, i)}
    OBVIOUS
  <2> HIDE DEF upto
  <2>2. \E i \in keep : Cardinality({j \in keep : NotAfter(entries, j, i)}) = n
    BY <1>5, <2>1
  <2>3. at(n) \in keep /\ Cardinality({j \in keep : NotAfter(entries, j, at(n))}) = n
    BY <2>2
  <2> HIDE DEF at
  <2> QED BY <2>1, <2>3
<1> HIDE DEF at
<1>8. ASSUME NEW n \in N, NEW m \in N, n < m
      PROVE  /\ entries[at(n)].account <= entries[at(m)].account
             /\ at(n) # at(m)
  <2>1. at(n) \in keep /\ at(m) \in keep /\ Cardinality(upto[at(n)]) = n /\ Cardinality(upto[at(m)]) = m
    BY <1>7
  <2>2. at(n) # at(m)
    <3> HIDE DEF upto
    <3> QED BY <1>8, <2>1
  <2>3. ASSUME entries[at(m)].account < entries[at(n)].account PROVE FALSE
    <3>1. upto[at(m)] \subseteq upto[at(n)] /\ upto[at(n)] \subseteq keep
      BY <1>1, <2>1, <2>3 DEF NotAfter
    <3>2. IsFiniteSet(upto[at(n)])
      BY <1>2, <3>1, FS_Subset
    <3>3. Cardinality(upto[at(m)]) <= Cardinality(upto[at(n)])
      BY <3>1, <3>2, FS_Subset
    <3> QED BY <1>8, <2>1, <3>3
  <2> QED BY <1>1, <2>1, <2>2, <2>3
<1> HIDE DEF upto
<1>9. Sorted(entries, keep) \in Seq(E)
  BY <1>1, <1>5, <1>6, <1>7
<1>10. DOMAIN Sorted(entries, keep) = N /\ \A n \in N : Sorted(entries, keep)[n] = entries[at(n)]
  BY <1>6
<1>11. \A i \in keep : \E n \in N : at(n) = i
  BY <1>5, <1>7
<1>12. Ascends(Sorted(entries, keep), FALSE)
  BY <1>1, <1>7, <1>8, <1>10 DEF Ascends
<1>13. ASSUME \A i, k \in keep : entries[i].account = entries[k].account => i = k
       PROVE  Ascends(Sorted(entries, keep), TRUE)
  BY <1>1, <1>7, <1>8, <1>10, <1>13 DEF Ascends
<1> QED BY <1>7, <1>9, <1>10, <1>11, <1>12, <1>13

\* Every account has a first entry, and one only.
LEMMA FirstsFacts ==
  ASSUME NEW E, \A e \in E : e.account \in Nat, NEW entries \in Seq(E)
  PROVE  /\ Firsts(entries) \subseteq DOMAIN entries
         /\ \A i, k \in Firsts(entries) : entries[i].account = entries[k].account => i = k
         /\ \A j \in DOMAIN entries : \E i \in Firsts(entries) : entries[i].account = entries[j].account
<1>1. DOMAIN entries = 1..Len(entries) /\ Len(entries) \in Nat
  OBVIOUS
<1>2. ASSUME NEW j \in DOMAIN entries
      PROVE  \E i \in Firsts(entries) : entries[i].account = entries[j].account
  <2> DEFINE T == {i \in DOMAIN entries : entries[i].account = entries[j].account}
  <2>1. T \subseteq Nat /\ T # {}
    BY <1>1
  <2>2. PICK i \in T : \A m \in T : i <= m
    <3> HIDE DEF T
    <3> QED BY <2>1, LeastNumber
  <2>3. i \in Firsts(entries)
    BY <1>1, <2>2 DEF Firsts
  <2> QED BY <2>2, <2>3
<1> QED BY <1>1, <1>2 DEF Firsts

\* What two lists hold together.
LEMMA ConcatFacts ==
  ASSUME NEW E, NEW s \in Seq(E), NEW t \in Seq(E)
  PROVE  /\ s \o t \in Seq(E)
         /\ Range(s \o t) = Range(s) \cup Range(t)
         /\ Who(s \o t) = Who(s) \cup Who(t)
<1>1. /\ s \o t \in Seq(E) /\ Len(s) \in Nat /\ Len(t) \in Nat
      /\ Len(s \o t) = Len(s) + Len(t)
      /\ DOMAIN s = 1..Len(s) /\ DOMAIN t = 1..Len(t) /\ DOMAIN (s \o t) = 1..(Len(s) + Len(t))
  OBVIOUS
<1>2. \A i \in DOMAIN (s \o t) : (s \o t)[i] = IF i <= Len(s) THEN s[i] ELSE t[i - Len(s)]
  BY <1>1
<1>3. \A i \in DOMAIN s : i \in DOMAIN (s \o t) /\ (s \o t)[i] = s[i]
  BY <1>1, <1>2
<1>4. \A i \in DOMAIN t : Len(s) + i \in DOMAIN (s \o t) /\ (s \o t)[Len(s) + i] = t[i]
  BY <1>1, <1>2
<1>5. \A i \in DOMAIN (s \o t) : (s \o t)[i] \in Range(s) \cup Range(t)
  BY <1>1, <1>2 DEF Range
<1>6. Range(s \o t) = Range(s) \cup Range(t)
  <2>1. Range(s \o t) \subseteq Range(s) \cup Range(t)
    BY <1>5 DEF Range
  <2>2. Range(s) \subseteq Range(s \o t)
    BY <1>3 DEF Range
  <2>3. Range(t) \subseteq Range(s \o t)
    BY <1>4 DEF Range
  <2> QED BY <2>1, <2>2, <2>3
<1>7. \A u \in Seq(E) : Who(u) = {e.account : e \in Range(u)}
  BY DEF Who, Range
<1> QED BY <1>1, <1>6, <1>7

\* Two lists sorted together: nothing is added, nothing is lost, all are in order.
LEMMA MergedFacts ==
  ASSUME NEW E, \A e \in E : e.account \in Nat, NEW s \in Seq(E), NEW t \in Seq(E)
  PROVE  /\ SortedByAccount(s \o t) \in Seq(E)
         /\ Range(SortedByAccount(s \o t)) \subseteq Range(s) \cup Range(t)
         /\ Who(s) \cup Who(t) \subseteq Who(SortedByAccount(s \o t))
         /\ Ascends(SortedByAccount(s \o t), FALSE)
<1> DEFINE u == s \o t
<1>1. u \in Seq(E) /\ Range(u) = Range(s) \cup Range(t) /\ Who(u) = Who(s) \cup Who(t)
  BY ConcatFacts
<1> HIDE DEF u
<1>2. DOMAIN u \in SUBSET DOMAIN u
  OBVIOUS
<1>3. /\ Sorted(u, DOMAIN u) \in Seq(E)
      /\ \A n \in DOMAIN Sorted(u, DOMAIN u) : \E i \in DOMAIN u : Sorted(u, DOMAIN u)[n] = u[i]
      /\ \A i \in DOMAIN u : \E n \in DOMAIN Sorted(u, DOMAIN u) : Sorted(u, DOMAIN u)[n] = u[i]
      /\ Ascends(Sorted(u, DOMAIN u), FALSE)
  BY <1>1, <1>2, SortedFacts
<1>4. Range(Sorted(u, DOMAIN u)) \subseteq Range(u)
  BY <1>3 DEF Range
<1>5. Who(u) \subseteq Who(Sorted(u, DOMAIN u))
  BY <1>3 DEF Who
<1> QED BY <1>1, <1>3, <1>4, <1>5 DEF SortedByAccount, u

\* The first positions but those of some accounts.
KeptOnce(u, without) == {i \in Firsts(u) : u[i].account \notin without}

\* ... and with the duplicates left out, strictly so; the entries of some accounts
\* can be left out too.
LEMMA MergedOnceFacts ==
  ASSUME NEW E, \A e \in E : e.account \in Nat, NEW s \in Seq(E), NEW t \in Seq(E), NEW without
  PROVE  /\ Sorted(s \o t, KeptOnce(s \o t, without)) \in Seq(E)
         /\ Range(Sorted(s \o t, KeptOnce(s \o t, without))) \subseteq Range(s) \cup Range(t)
         /\ Who(s) \cup Who(t) \subseteq Who(Sorted(s \o t, KeptOnce(s \o t, without))) \cup without
         /\ without \cap Who(Sorted(s \o t, KeptOnce(s \o t, without))) = {}
         /\ Ascends(Sorted(s \o t, KeptOnce(s \o t, without)), TRUE)
<1> DEFINE u == s \o t
           keep == KeptOnce(u, without)
<1>1. u \in Seq(E) /\ Range(u) = Range(s) \cup Range(t) /\ Who(u) = Who(s) \cup Who(t)
  BY ConcatFacts
<1> HIDE DEF u
<1>2. /\ Firsts(u) \subseteq DOMAIN u
      /\ \A i, k \in Firsts(u) : u[i].account = u[k].account => i = k
      /\ \A j \in DOMAIN u : \E i \in Firsts(u) : u[i].account = u[j].account
  BY <1>1, FirstsFacts
<1>3. keep \in SUBSET DOMAIN u /\ \A i, k \in keep : u[i].account = u[k].account => i = k
  BY <1>2 DEF KeptOnce
<1>4. \A j \in DOMAIN u : u[j].account \notin without => \E i \in keep : u[i].account = u[j].account
  BY <1>2 DEF KeptOnce
<1>5. \A i \in keep : u[i].account \notin without
  BY DEF KeptOnce
<1> HIDE DEF keep
<1>6. /\ Sorted(u, keep) \in Seq(E)
      /\ \A n \in DOMAIN Sorted(u, keep) : \E i \in keep : Sorted(u, keep)[n] = u[i]
      /\ \A i \in keep : \E n \in DOMAIN Sorted(u, keep) : Sorted(u, keep)[n] = u[i]
      /\ Ascends(Sorted(u, keep), TRUE)
  BY <1>1, <1>3, SortedFacts
<1>7. Range(Sorted(u, keep)) \subseteq Range(u)
  BY <1>3, <1>6 DEF Range
<1>8. Who(u) \subseteq Who(Sorted(u, keep)) \cup without
  BY <1>4, <1>6 DEF Who
<1>9. without \cap Who(Sorted(u, keep)) = {}
  BY <1>5, <1>6 DEF Who
<1> QED BY <1>1, <1>6, <1>7, <1>8, <1>9 DEF keep, u

\* De-duplicating keeps every account, and makes the order strict.
LEMMA FirstOfEachFacts ==
  ASSUME NEW E, \A e \in E : e.account \in Nat, NEW s \in Seq(E), NEW t \in Seq(E)
  PROVE  /\ FirstOfEach(s \o t) \in Seq(E)
         /\ Range(FirstOfEach(s \o t)) \subseteq Range(s) \cup Range(t)
         /\ Who(s) \cup Who(t) \subseteq Who(FirstOfEach(s \o t))
         /\ Ascends(FirstOfEach(s \o t), TRUE)
<1>1. KeptOnce(s \o t, {}) = Firsts(s \o t)
  BY DEF KeptOnce
<1> DEFINE merged == Sorted(s \o t, KeptOnce(s \o t, {}))
<1>2. /\ merged \in Seq(E)
      /\ Range(merged) \subseteq Range(s) \cup Range(t)
      /\ Who(s) \cup Who(t) \subseteq Who(merged) \cup {}
      /\ Ascends(merged, TRUE)
  BY MergedOnceFacts
<1>3. merged = FirstOfEach(s \o t)
  BY <1>1 DEF FirstOfEach
<1> HIDE DEF merged
<1> QED BY <1>2, <1>3

-----------------------------------------------------------------------------
(* Signing and combining.                                                  *)

Roles == {"transaction", "sponsor", "counterparty", "batch"}
PubKeys == Accounts \cup {Absent, Multi}
Overs == Payloads \X Extras \X PubKeys \cup Payloads \X Accounts

Signatures == [by : Accounts, role : Roles, over : Overs, as : Accounts \cup {Absent}]
Signers == [account : Accounts, sig : Signatures]
Parts == [account : Accounts \cup {Absent}, single : Signatures \cup {NoSig},
          signers : Seq(Signers)]
BatchParts == [account : Accounts, single : Signatures \cup {NoSig}, signers : Seq(Signers)]

Documents ==
  [payload : Payloads, extra : Extras, pub : PubKeys,
   single : Signatures \cup {NoSig}, signers : Seq(Signers),
   sponsor : Parts, party : Parts, batch : Seq(BatchParts)]

\* What Sign and SignFor make of d.
Signed(w, d) ==
  LET signed == [d EXCEPT !.pub = w]
  IN [signed EXCEPT !.single = Signature(w, "transaction", Content(signed), Absent)]

SignedFor(w, a, d) ==
  LET signed == [d EXCEPT !.pub = Multi]
  IN [signed EXCEPT !.signers =
        <<[account |-> a, sig |-> Signature(w, "transaction", Content(signed), a)]>>]

\* The signatures of a copy cover it,
Verifies(d) ==
  /\ d.single # NoSig => d.single = Signature(d.pub, "transaction", Content(d), Absent)
  /\ EntriesVerify(d.signers, "transaction", Content(d))
  /\ PartVerifies(d.sponsor, "sponsor", Content(d))
  /\ PartVerifies(d.party, "counterparty", Content(d))
  /\ \A i \in DOMAIN d.batch :
       PartVerifies(d.batch[i], "batch", BatchContent(d, d.batch[i].account))

\* ... its lists of signers are in order,
InOrder(d) ==
  /\ Ascends(d.signers, FALSE) /\ Ascends(d.party.signers, FALSE)
  /\ Ascends(d.sponsor.signers, TRUE) /\ Ascends(d.batch, TRUE)
  /\ Len(d.batch) > 1 => \A i \in DOMAIN d.batch : d.batch[i].account # Sender

\* ... and only one that its sender has signed has a signature of another role over
\* all of it: what the sender's adds to the copy is added before.
Sound(d) ==
  /\ d \in Documents
  /\ Verifies(d) /\ InOrder(d)
  /\ d.single = NoSig /\ d.signers = <<>> => d.sponsor = NoPart /\ d.party = NoPart

SGInv == \A d \in copies : Sound(d)

\* Accounts are numbers, and so are those of signers.
LEMMA AccountsAreNumbers ==
  /\ Accounts \subseteq Nat
  /\ \A e \in Signers : e.account \in Nat
  /\ \A e \in BatchParts : e.account \in Nat
<1>1. Accounts \subseteq Nat
  BY AccountsAssumption, FS_CardinalityType
<1> QED BY <1>1 DEF Signers, BatchParts

\* Nothing signed yet is a part that verifies.
LEMMA NoPartIsPart ==
  /\ NoPart \in Parts /\ NoPart.single = NoSig /\ NoPart.signers = <<>>
  /\ \A role, over : PartVerifies(NoPart, role, over)
  BY DEF NoPart, Parts, PartVerifies, EntriesVerify

\* The part that one signature makes.
LEMMA SingleFacts ==
  ASSUME NEW w \in Accounts, NEW role \in Roles, NEW over \in Overs
  PROVE  /\ Single(w, role, over) \in Parts
         /\ PartVerifies(Single(w, role, over), role, over)
         /\ Single(w, role, over).signers = <<>>
<1> DEFINE sig == Signature(w, role, over, Absent)
           p == Single(w, role, over)
<1>1. p = [account |-> Absent, single |-> sig, signers |-> <<>>]
  BY DEF Single, NoPart
<1>2. sig \in Signatures /\ sig = Signature(sig.by, role, over, Absent)
  BY DEF Signature, Signatures
<1> HIDE DEF sig, p
<1>3. p \in Parts /\ PartVerifies(p, role, over) /\ p.signers = <<>>
  BY <1>1, <1>2 DEF Parts, PartVerifies, EntriesVerify
<1> QED BY <1>3 DEF p

\* The part that one signer among several makes.
LEMMA OneSignerFacts ==
  ASSUME NEW w \in Accounts, NEW a \in Accounts, NEW role \in Roles, NEW over \in Overs
  PROVE  /\ OneSigner(w, a, role, over) \in Parts
         /\ PartVerifies(OneSigner(w, a, role, over), role, over)
         /\ Len(OneSigner(w, a, role, over).signers) = 1
<1> DEFINE e == [account |-> a, sig |-> Signature(w, role, over, a)]
           p == OneSigner(w, a, role, over)
<1>1. p = [account |-> Absent, single |-> NoSig, signers |-> <<e>>]
  BY DEF OneSigner, NoPart
<1>2. e \in Signers /\ e.sig = Signature(e.sig.by, role, over, e.account)
  BY DEF Signature, Signatures, Signers
<1> HIDE DEF e, p
<1>3. <<e>> \in Seq(Signers) /\ Len(<<e>>) = 1 /\ DOMAIN <<e>> = {1} /\ <<e>>[1] = e
  BY <1>2
<1>4. EntriesVerify(<<e>>, role, over)
  BY <1>2, <1>3 DEF EntriesVerify
<1>5. p \in Parts /\ PartVerifies(p, role, over) /\ Len(p.signers) = 1
  BY <1>1, <1>3, <1>4 DEF Parts, PartVerifies
<1> QED BY <1>5 DEF p

\* A list of at most one is in order.
LEMMA ShortAscends ==
  ASSUME NEW E, NEW s \in Seq(E), Len(s) <= 1
  PROVE  Ascends(s, TRUE) /\ Ascends(s, FALSE)
<1>1. DOMAIN s = 1..Len(s) /\ Len(s) \in Nat
  OBVIOUS
<1>2. \A i, j \in DOMAIN s : ~(i < j)
  BY <1>1
<1> QED BY <1>2 DEF Ascends

\* A list that takes its entries from two that verify, does too.
LEMMA EntriesVerifyTogether ==
  ASSUME NEW r, NEW s, NEW t, Range(r) \subseteq Range(s) \cup Range(t),
         NEW role, NEW over, EntriesVerify(s, role, over), EntriesVerify(t, role, over)
  PROVE  EntriesVerify(r, role, over)
<1> SUFFICES ASSUME NEW i \in DOMAIN r
             PROVE  r[i].sig = Signature(r[i].sig.by, role, over, r[i].account)
  BY DEF EntriesVerify
<1>1. \A e \in Range(s) \cup Range(t) : e.sig = Signature(e.sig.by, role, over, e.account)
  BY DEF Range, EntriesVerify
<1>2. r[i] \in Range(s) \cup Range(t)
  BY DEF Range
<1> QED BY <1>1, <1>2

\* What signatures of a copy cover is among what signatures may cover.
LEMMA ContentIsCovered ==
  ASSUME NEW d \in Documents, NEW account \in Accounts
  PROVE  Content(d) \in Overs /\ BatchContent(d, account) \in Overs
  BY DEF Documents, Content, BatchContent, Overs

\* A copy whose signing fields change stays sound if what is new in it is.
LEMMA UnsignedIsSound ==
  ASSUME NEW p \in Payloads, NEW x \in Extras
  PROVE  Sound(Unsigned(p, x))
<1> DEFINE d == Unsigned(p, x)
<1>1. d = [payload |-> p, extra |-> x, pub |-> Absent, single |-> NoSig, signers |-> <<>>,
           sponsor |-> NoPart, party |-> NoPart, batch |-> <<>>]
  BY DEF Unsigned
<1> HIDE DEF d
<1>2. d \in Documents
  BY <1>1, NoPartIsPart DEF Documents, PubKeys
<1>3. Verifies(d)
  BY <1>1, NoPartIsPart DEF Verifies, EntriesVerify
<1>4. InOrder(d)
  BY <1>1, NoPartIsPart DEF InOrder, Ascends
<1>5. Sound(d)
  BY <1>1, <1>2, <1>3, <1>4 DEF Sound
<1> QED BY <1>5 DEF d

\* wallet.sign
LEMMA SignIsSound ==
  ASSUME NEW d, Sound(d), d.single = NoSig, d.signers = <<>>, NEW w \in Accounts
  PROVE  Sound(Signed(w, d))
<1> DEFINE signed == [d EXCEPT !.pub = w]
           sig == Signature(w, "transaction", Content(signed), Absent)
           e == [signed EXCEPT !.single = sig]
<1>1. d \in Documents /\ d.sponsor = NoPart /\ d.party = NoPart /\ Verifies(d) /\ InOrder(d)
  BY DEF Sound
<1>2. signed \in Documents /\ signed.pub = w
  BY <1>1 DEF Documents, PubKeys
<1>3. Content(signed) \in Overs
  BY <1>2, ContentIsCovered, AccountsAssumption DEF Documents, Content, Overs
<1>4. sig \in Signatures
  <2> HIDE DEF signed
  <2> QED BY <1>3 DEF Signature, Signatures, Roles
<1>5. /\ signed.payload = d.payload /\ signed.extra = d.extra
      /\ signed.signers = d.signers /\ signed.sponsor = d.sponsor /\ signed.party = d.party
      /\ signed.batch = d.batch
  BY <1>1 DEF Documents
<1> HIDE DEF signed
<1>6. /\ e \in Documents /\ e.single = sig /\ e.pub = w /\ e.payload = d.payload /\ e.extra = d.extra
      /\ e.signers = <<>> /\ e.sponsor = NoPart /\ e.party = NoPart /\ e.batch = d.batch
  <2> HIDE DEF sig
  <2> QED BY <1>1, <1>2, <1>4, <1>5 DEF Documents
<1>7. Content(e) = Content(signed)
  BY <1>2, <1>5, <1>6 DEF Content
<1> HIDE DEF e
<1>8. Verifies(e)
  BY <1>1, <1>6, <1>7, NoPartIsPart DEF Verifies, EntriesVerify, BatchContent
<1>9. InOrder(e)
  BY <1>1, <1>6 DEF InOrder
<1>10. Sound(e)
  BY <1>6, <1>8, <1>9 DEF Sound
<1> QED BY <1>10 DEF e, signed, Signed

\* wallet.sign for a multisignature
LEMMA SignForIsSound ==
  ASSUME NEW d, Sound(d), d.single = NoSig, d.signers = <<>>, NEW w \in Accounts, NEW a \in Accounts
  PROVE  Sound(SignedFor(w, a, d))
<1> DEFINE signed == [d EXCEPT !.pub = Multi]
           sig == Signature(w, "transaction", Content(signed), a)
           entry == [account |-> a, sig |-> sig]
           e == [signed EXCEPT !.signers = <<entry>>]
<1>1. d \in Documents /\ d.sponsor = NoPart /\ d.party = NoPart /\ Verifies(d) /\ InOrder(d)
  BY DEF Sound
<1>2. signed \in Documents /\ signed.pub = Multi
  BY <1>1 DEF Documents, PubKeys
<1>3. Content(signed) \in Overs
  BY <1>2 DEF Documents, Content, Overs
<1>4. /\ signed.payload = d.payload /\ signed.extra = d.extra /\ signed.single = NoSig
      /\ signed.sponsor = d.sponsor /\ signed.party = d.party /\ signed.batch = d.batch
  BY <1>1 DEF Documents
<1> HIDE DEF signed
<1>5. entry \in Signers /\ entry.sig = Signature(entry.sig.by, "transaction", Content(signed), entry.account)
  BY <1>3 DEF Signature, Signatures, Signers, Roles
<1> HIDE DEF entry
<1>6. <<entry>> \in Seq(Signers) /\ Len(<<entry>>) = 1 /\ DOMAIN <<entry>> = {1} /\ <<entry>>[1] = entry
      /\ <<entry>> # <<>>
  BY <1>5
<1>7. EntriesVerify(<<entry>>, "transaction", Content(signed))
  BY <1>5, <1>6 DEF EntriesVerify
<1>8. Ascends(<<entry>>, FALSE)
  <2>1. Len(<<entry>>) <= 1
    BY <1>6
  <2> QED BY <1>6, <2>1, ShortAscends
<1>9. /\ e \in Documents /\ e.single = NoSig /\ e.pub = Multi
      /\ e.payload = d.payload /\ e.extra = d.extra
      /\ e.signers = <<entry>> /\ e.sponsor = NoPart /\ e.party = NoPart /\ e.batch = d.batch
  BY <1>1, <1>2, <1>4, <1>6 DEF Documents
<1>10. Content(e) = Content(signed)
  BY <1>2, <1>4, <1>9 DEF Content
<1> HIDE DEF e
<1>11. Verifies(e)
  BY <1>1, <1>7, <1>9, <1>10, NoPartIsPart DEF Verifies, BatchContent
<1>12. InOrder(e)
  BY <1>1, <1>8, <1>9 DEF InOrder
<1>13. Sound(e)
  BY <1>9, <1>11, <1>12 DEF Sound
<1> QED BY <1>13 DEF e, entry, signed, SignedFor

\* signAsSponsor, and combineSponsorSigners: another sponsor part.
LEMMA SponsorIsSound ==
  ASSUME NEW d, Sound(d), d.single # NoSig \/ d.signers # <<>>, NEW part \in Parts,
         PartVerifies(part, "sponsor", Content(d)), Ascends(part.signers, TRUE)
  PROVE  Sound([d EXCEPT !.sponsor = part])
<1> DEFINE e == [d EXCEPT !.sponsor = part]
<1>1. d \in Documents /\ Verifies(d) /\ InOrder(d)
  BY DEF Sound
<1>2. /\ e \in Documents /\ e.sponsor = part
      /\ e.payload = d.payload /\ e.extra = d.extra /\ e.pub = d.pub /\ e.single = d.single
      /\ e.signers = d.signers /\ e.party = d.party /\ e.batch = d.batch
  BY <1>1 DEF Documents
<1> HIDE DEF e
<1>3. Verifies(e)
  BY <1>1, <1>2 DEF Verifies, Content, BatchContent
<1>4. InOrder(e)
  BY <1>1, <1>2 DEF InOrder
<1>5. Sound(e)
  BY <1>2, <1>3, <1>4 DEF Sound
<1> QED BY <1>5 DEF e

\* signLoanSetByCounterparty and combineLoanSetCounterpartySigners
LEMMA PartyIsSound ==
  ASSUME NEW d, Sound(d), d.single # NoSig, NEW part \in Parts,
         PartVerifies(part, "counterparty", Content(d)), Ascends(part.signers, FALSE)
  PROVE  Sound([d EXCEPT !.party = part])
<1> DEFINE e == [d EXCEPT !.party = part]
<1>1. d \in Documents /\ Verifies(d) /\ InOrder(d)
  BY DEF Sound
<1>2. /\ e \in Documents /\ e.party = part
      /\ e.payload = d.payload /\ e.extra = d.extra /\ e.pub = d.pub /\ e.single = d.single
      /\ e.signers = d.signers /\ e.sponsor = d.sponsor /\ e.batch = d.batch
  BY <1>1 DEF Documents
<1> HIDE DEF e
<1>3. Verifies(e)
  BY <1>1, <1>2 DEF Verifies, Content, BatchContent
<1>4. InOrder(e)
  BY <1>1, <1>2 DEF InOrder
<1>5. Sound(e)
  BY <1>2, <1>3, <1>4 DEF Sound
<1> QED BY <1>5 DEF e

\* signMultiBatch and combineBatchSigners
LEMMA BatchIsSound ==
  ASSUME NEW d, Sound(d), NEW entries \in Seq(BatchParts),
         \A i \in DOMAIN entries :
           PartVerifies(entries[i], "batch", BatchContent(d, entries[i].account)),
         Ascends(entries, TRUE),
         Len(entries) > 1 => \A i \in DOMAIN entries : entries[i].account # Sender
  PROVE  Sound([d EXCEPT !.batch = entries])
<1> DEFINE e == [d EXCEPT !.batch = entries]
<1>1. d \in Documents /\ Verifies(d) /\ InOrder(d)
  BY DEF Sound
<1>2. /\ e \in Documents /\ e.batch = entries
      /\ e.payload = d.payload /\ e.extra = d.extra /\ e.pub = d.pub /\ e.single = d.single
      /\ e.signers = d.signers /\ e.sponsor = d.sponsor /\ e.party = d.party
  BY <1>1 DEF Documents
<1> HIDE DEF e
<1>3. Verifies(e)
  BY <1>1, <1>2 DEF Verifies, Content, BatchContent
<1>4. InOrder(e)
  BY <1>1, <1>2 DEF InOrder
<1>5. Sound(e)
  BY <1>2, <1>3, <1>4 DEF Sound
<1> QED BY <1>5 DEF e

\* multisign
LEMMA SignersAreSound ==
  ASSUME NEW d, Sound(d), NEW entries \in Seq(Signers), entries # <<>>,
         EntriesVerify(entries, "transaction", Content(d)), Ascends(entries, FALSE)
  PROVE  Sound([d EXCEPT !.signers = entries])
<1> DEFINE e == [d EXCEPT !.signers = entries]
<1>1. d \in Documents /\ Verifies(d) /\ InOrder(d)
  BY DEF Sound
<1>2. /\ e \in Documents /\ e.signers = entries
      /\ e.payload = d.payload /\ e.extra = d.extra /\ e.pub = d.pub /\ e.single = d.single
      /\ e.sponsor = d.sponsor /\ e.party = d.party /\ e.batch = d.batch
  BY <1>1 DEF Documents
<1> HIDE DEF e
<1>3. Verifies(e)
  BY <1>1, <1>2 DEF Verifies, Content, BatchContent
<1>4. InOrder(e)
  BY <1>1, <1>2 DEF InOrder
<1>5. Sound(e)
  BY <1>2, <1>3, <1>4 DEF Sound
<1> QED BY <1>5 DEF e

\* Both copies of a pair are in circulation.
LEMMA PairFacts ==
  ASSUME NEW f \in Pairs
  PROVE  f[1] \in copies /\ f[2] \in copies /\ DOMAIN f = {1, 2}
  BY DEF Pairs

\* What is combined is sound, and has all the signers.
LEMMA MultisignedFacts ==
  ASSUME NEW f, Sound(f[1]), Sound(f[2]), DOMAIN f = {1, 2}, Multisignable(f)
  PROVE  /\ Sound(Multisigned(f))
         /\ Who(f[1].signers) \cup Who(f[2].signers) \subseteq Who(Multisigned(f).signers)
<1> DEFINE d == f[1]
           e == f[2]
           all == SortedByAccount(d.signers \o e.signers)
<1>1. /\ d \in Documents /\ e \in Documents
      /\ EntriesVerify(d.signers, "transaction", Content(d))
      /\ EntriesVerify(e.signers, "transaction", Content(e))
  BY DEF Sound, Verifies
<1>2. /\ d.signers # <<>> /\ [d EXCEPT !.signers = <<>>] = [e EXCEPT !.signers = <<>>]
  BY DEF Multisignable
<1>3. Content(d) = Content(e)
  BY <1>1, <1>2 DEF Documents, Content
<1>4. d.signers \in Seq(Signers) /\ e.signers \in Seq(Signers)
  BY <1>1 DEF Documents
<1>5. Multisigned(f) = [d EXCEPT !.signers = all]
  BY DEF Multisigned
<1> HIDE DEF d, e
<1>6. /\ all \in Seq(Signers)
      /\ Range(all) \subseteq Range(d.signers) \cup Range(e.signers)
      /\ Who(d.signers) \cup Who(e.signers) \subseteq Who(all)
      /\ Ascends(all, FALSE)
  BY <1>4, MergedFacts, AccountsAreNumbers
<1> HIDE DEF all
<1>7. EntriesVerify(all, "transaction", Content(d))
  BY <1>1, <1>3, <1>6, EntriesVerifyTogether
<1>8. all # <<>>
  <2>1. 1 \in DOMAIN d.signers
    BY <1>2, <1>4
  <2>2. d.signers[1].account \in Who(all)
    BY <1>6, <2>1 DEF Who
  <2> QED BY <2>2 DEF Who
<1>9. Sound([d EXCEPT !.signers = all])
  BY <1>6, <1>7, <1>8, SignersAreSound DEF d
<1>10. [d EXCEPT !.signers = all].signers = all
  BY <1>1 DEF Documents
<1> QED BY <1>5, <1>6, <1>9, <1>10 DEF d, e

\* ... and of a sponsor, whose signers come once.
LEMMA WithSponsorSignersFacts ==
  ASSUME NEW f, Sound(f[1]), Sound(f[2]), DOMAIN f = {1, 2}, SponsorSignersAgree(f)
  PROVE  /\ Sound(WithSponsorSigners(f))
         /\ Who(f[1].sponsor.signers) \cup Who(f[2].sponsor.signers)
              \subseteq Who(WithSponsorSigners(f).sponsor.signers)
<1> DEFINE d == f[1]
           e == f[2]
           all == FirstOfEach(d.sponsor.signers \o e.sponsor.signers)
           part == [NoPart EXCEPT !.signers = all]
<1>1. /\ d \in Documents /\ e \in Documents
      /\ EntriesVerify(d.sponsor.signers, "sponsor", Content(d))
      /\ EntriesVerify(e.sponsor.signers, "sponsor", Content(e))
  BY DEF Sound, Verifies, PartVerifies
<1>2. /\ d.single # NoSig \/ d.signers # <<>>
      /\ [d EXCEPT !.sponsor.signers = <<>>] = [e EXCEPT !.sponsor.signers = <<>>]
  BY DEF SponsorSignersAgree, SenderSigned
<1>3. Content(d) = Content(e)
  BY <1>1, <1>2 DEF Documents, Content
<1>4. d.sponsor.signers \in Seq(Signers) /\ e.sponsor.signers \in Seq(Signers)
  BY <1>1 DEF Documents, Parts
<1>5. WithSponsorSigners(f) = [d EXCEPT !.sponsor = part]
  BY DEF WithSponsorSigners
<1> HIDE DEF d, e
<1>6. /\ all \in Seq(Signers)
      /\ Range(all) \subseteq Range(d.sponsor.signers) \cup Range(e.sponsor.signers)
      /\ Who(d.sponsor.signers) \cup Who(e.sponsor.signers) \subseteq Who(all)
      /\ Ascends(all, TRUE)
  BY <1>4, FirstOfEachFacts, AccountsAreNumbers
<1> HIDE DEF all
<1>7. EntriesVerify(all, "sponsor", Content(d))
  BY <1>1, <1>3, <1>6, EntriesVerifyTogether
<1>8. part \in Parts /\ part.single = NoSig /\ part.signers = all
  BY <1>6 DEF NoPart, Parts
<1> HIDE DEF part
<1>9. PartVerifies(part, "sponsor", Content(d))
  BY <1>7, <1>8 DEF PartVerifies
<1>10. Sound([d EXCEPT !.sponsor = part])
  BY <1>2, <1>6, <1>8, <1>9, SponsorIsSound DEF d
<1>11. [d EXCEPT !.sponsor = part].sponsor = part
  BY <1>1 DEF Documents
<1> QED BY <1>5, <1>6, <1>8, <1>10, <1>11 DEF d, e

\* ... and of a counterparty.
LEMMA WithCounterpartySignersFacts ==
  ASSUME NEW f, Sound(f[1]), Sound(f[2]), DOMAIN f = {1, 2}, CounterpartySignersAgree(f)
  PROVE  /\ Sound(WithCounterpartySigners(f))
         /\ Who(f[1].party.signers) \cup Who(f[2].party.signers)
              \subseteq Who(WithCounterpartySigners(f).party.signers)
<1> DEFINE d == f[1]
           e == f[2]
           all == SortedByAccount(d.party.signers \o e.party.signers)
           part == [NoPart EXCEPT !.signers = all]
<1>1. /\ d \in Documents /\ e \in Documents
      /\ EntriesVerify(d.party.signers, "counterparty", Content(d))
      /\ EntriesVerify(e.party.signers, "counterparty", Content(e))
  BY DEF Sound, Verifies, PartVerifies
<1>2. /\ d.single # NoSig
      /\ [d EXCEPT !.party.signers = <<>>] = [e EXCEPT !.party.signers = <<>>]
  BY DEF CounterpartySignersAgree
<1>3. Content(d) = Content(e)
  BY <1>1, <1>2 DEF Documents, Content
<1>4. d.party.signers \in Seq(Signers) /\ e.party.signers \in Seq(Signers)
  BY <1>1 DEF Documents, Parts
<1>5. WithCounterpartySigners(f) = [d EXCEPT !.party = part]
  BY DEF WithCounterpartySigners
<1> HIDE DEF d, e
<1>6. /\ all \in Seq(Signers)
      /\ Range(all) \subseteq Range(d.party.signers) \cup Range(e.party.signers)
      /\ Who(d.party.signers) \cup Who(e.party.signers) \subseteq Who(all)
      /\ Ascends(all, FALSE)
  BY <1>4, MergedFacts, AccountsAreNumbers
<1> HIDE DEF all
<1>7. EntriesVerify(all, "counterparty", Content(d))
  BY <1>1, <1>3, <1>6, EntriesVerifyTogether
<1>8. part \in Parts /\ part.single = NoSig /\ part.signers = all
  BY <1>6 DEF NoPart, Parts
<1> HIDE DEF part
<1>9. PartVerifies(part, "counterparty", Content(d))
  BY <1>7, <1>8 DEF PartVerifies
<1>10. Sound([d EXCEPT !.party = part])
  BY <1>2, <1>6, <1>8, <1>9, PartyIsSound DEF d
<1>11. [d EXCEPT !.party = part].party = part
  BY <1>1 DEF Documents
<1> QED BY <1>5, <1>6, <1>8, <1>10, <1>11 DEF d, e

\* The copies agree on the payload only, and that is what batch signatures cover.
LEMMA WithBatchSignersFacts ==
  ASSUME NEW f, Sound(f[1]), Sound(f[2]), DOMAIN f = {1, 2}, BatchSignersAgree(f)
  PROVE  /\ Sound(WithBatchSigners(f))
         /\ Who(f[1].batch) \cup Who(f[2].batch) \subseteq Who(WithBatchSigners(f).batch) \cup {Sender}
<1> DEFINE d == f[1]
           e == f[2]
           all == Sorted(d.batch \o e.batch, KeptOnce(d.batch \o e.batch, {Sender}))
<1>1. /\ d \in Documents /\ e \in Documents
      /\ \A i \in DOMAIN d.batch :
           PartVerifies(d.batch[i], "batch", BatchContent(d, d.batch[i].account))
      /\ \A i \in DOMAIN e.batch :
           PartVerifies(e.batch[i], "batch", BatchContent(e, e.batch[i].account))
  BY DEF Sound, Verifies
<1>2. d.payload = e.payload
  BY DEF BatchSignersAgree
<1>3. \A account : BatchContent(d, account) = BatchContent(e, account)
  BY <1>2 DEF BatchContent
<1>4. d.batch \in Seq(BatchParts) /\ e.batch \in Seq(BatchParts)
  BY <1>1 DEF Documents
<1>5. WithBatchSigners(f) = [d EXCEPT !.batch = all]
  BY DEF WithBatchSigners, KeptOnce
<1> HIDE DEF d, e
<1>6. /\ all \in Seq(BatchParts)
      /\ Range(all) \subseteq Range(d.batch) \cup Range(e.batch)
      /\ Who(d.batch) \cup Who(e.batch) \subseteq Who(all) \cup {Sender}
      /\ {Sender} \cap Who(all) = {}
      /\ Ascends(all, TRUE)
  BY <1>4, MergedOnceFacts, AccountsAreNumbers
<1> HIDE DEF all
<1>7. \A p \in Range(d.batch) \cup Range(e.batch) :
        PartVerifies(p, "batch", BatchContent(d, p.account))
  BY <1>1, <1>3 DEF Range
<1>8. \A i \in DOMAIN all : PartVerifies(all[i], "batch", BatchContent(d, all[i].account))
  BY <1>6, <1>7 DEF Range
<1>9. \A i \in DOMAIN all : all[i].account # Sender
  BY <1>6 DEF Who
<1>10. Sound([d EXCEPT !.batch = all])
  BY <1>6, <1>8, <1>9, BatchIsSound DEF d
<1>11. [d EXCEPT !.batch = all].batch = all
  BY <1>1 DEF Documents
<1> QED BY <1>5, <1>6, <1>10, <1>11 DEF d, e

\* The unsigned transaction is sound.
LEMMA SGInitInv == SGInit => SGInv
<1> SUFFICES ASSUME SGInit, NEW d \in copies PROVE Sound(d)
  BY DEF SGInv
<1>1. (CHOOSE p \in Payloads : TRUE) \in Payloads /\ (CHOOSE x \in Extras : TRUE) \in Extras
  BY VersionsAssumption
<1> QED BY <1>1, UnsignedIsSound DEF SGInit

\* One more sound copy leaves all of them sound.
LEMMA MakeInv ==
  ASSUME SGInv, NEW d, Sound(d), Make(d)
  PROVE  SGInv'
  BY DEF SGInv, Make, Sound, Verifies, InOrder

\* Whatever is signed or combined keeps every copy sound.
LEMMA SigningInv ==
  ASSUME SGInv, NEW d \in copies, NEW w \in Accounts, NEW a \in Accounts, NEW as \in {Absent, a},
         NEW account \in Accounts,
         \/ Sign(w, d) \/ SignFor(w, a, d) \/ SignAsSponsor(w, as, d)
         \/ SignAsCounterparty(w, as, d) \/ SignBatch(w, as, account, d)
  PROVE  SGInv'
<1>1. Sound(d) /\ d \in Documents
  BY DEF SGInv, Sound
<1>2. Content(d) \in Overs /\ BatchContent(d, account) \in Overs
  BY <1>1, ContentIsCovered
<1>3. as = Absent \/ as \in Accounts
  OBVIOUS
<1>4. CASE Sign(w, d)
  <2>1. d.single = NoSig /\ d.signers = <<>> /\ Make(Signed(w, d))
    BY <1>4 DEF Sign, Signed
  <2> QED BY <1>1, <2>1, SignIsSound, MakeInv
<1>5. CASE SignFor(w, a, d)
  <2>1. d.single = NoSig /\ d.signers = <<>> /\ Make(SignedFor(w, a, d))
    BY <1>5 DEF SignFor, SignedFor
  <2> QED BY <1>1, <2>1, SignForIsSound, MakeInv
<1>6. CASE SignAsSponsor(w, as, d)
  <2> DEFINE part == IF as = Absent THEN Single(w, "sponsor", Content(d))
                                    ELSE OneSigner(w, as, "sponsor", Content(d))
  <2>1. /\ part \in Parts /\ PartVerifies(part, "sponsor", Content(d)) /\ Len(part.signers) <= 1
    <3>1. "sponsor" \in Roles
      BY DEF Roles
    <3>2. CASE as = Absent
      BY <1>2, <3>1, <3>2, SingleFacts
    <3>3. CASE as # Absent
      <4>1. as \in Accounts /\ part = OneSigner(w, as, "sponsor", Content(d))
        BY <1>3, <3>3
      <4>2. /\ OneSigner(w, as, "sponsor", Content(d)) \in Parts
            /\ PartVerifies(OneSigner(w, as, "sponsor", Content(d)), "sponsor", Content(d))
            /\ Len(OneSigner(w, as, "sponsor", Content(d)).signers) = 1
        BY <1>2, <3>1, <4>1, OneSignerFacts
      <4> HIDE DEF part
      <4>3. part \in Parts /\ PartVerifies(part, "sponsor", Content(d))
        BY <4>1, <4>2
      <4>4. Len(part.signers) = 1
        BY <4>1, <4>2
      <4> QED BY <4>3, <4>4
    <3> QED BY <3>2, <3>3
  <2>2. (d.single # NoSig \/ d.signers # <<>>) /\ Make([d EXCEPT !.sponsor = part])
    BY <1>6 DEF SignAsSponsor, SenderSigned
  <2> HIDE DEF part
  <2>3. part.signers \in Seq(Signers)
    BY <2>1 DEF Parts
  <2>4. Ascends(part.signers, TRUE)
    BY <2>1, <2>3, ShortAscends
  <2>5. Sound([d EXCEPT !.sponsor = part])
    BY <1>1, <2>1, <2>2, <2>4, SponsorIsSound
  <2> QED BY <2>2, <2>5, MakeInv
<1>7. CASE SignAsCounterparty(w, as, d)
  <2> DEFINE part == IF as = Absent THEN Single(w, "counterparty", Content(d))
                                    ELSE OneSigner(w, as, "counterparty", Content(d))
  <2>1. /\ part \in Parts /\ PartVerifies(part, "counterparty", Content(d)) /\ Len(part.signers) <= 1
    <3>1. "counterparty" \in Roles
      BY DEF Roles
    <3>2. CASE as = Absent
      BY <1>2, <3>1, <3>2, SingleFacts
    <3>3. CASE as # Absent
      <4>1. as \in Accounts /\ part = OneSigner(w, as, "counterparty", Content(d))
        BY <1>3, <3>3
      <4>2. /\ OneSigner(w, as, "counterparty", Content(d)) \in Parts
            /\ PartVerifies(OneSigner(w, as, "counterparty", Content(d)), "counterparty", Content(d))
            /\ Len(OneSigner(w, as, "counterparty", Content(d)).signers) = 1
        BY <1>2, <3>1, <4>1, OneSignerFacts
      <4> HIDE DEF part
      <4>3. part \in Parts /\ PartVerifies(part, "counterparty", Content(d))
        BY <4>1, <4>2
      <4>4. Len(part.signers) = 1
        BY <4>1, <4>2
      <4> QED BY <4>3, <4>4
    <3> QED BY <3>2, <3>3
  <2>2. d.single # NoSig /\ Make([d EXCEPT !.party = part])
    BY <1>7 DEF SignAsCounterparty
  <2> HIDE DEF part
  <2>3. part.signers \in Seq(Signers)
    BY <2>1 DEF Parts
  <2>4. Ascends(part.signers, FALSE)
    BY <2>1, <2>3, ShortAscends
  <2>5. Sound([d EXCEPT !.party = part])
    BY <1>1, <2>1, <2>2, <2>4, PartyIsSound
  <2> QED BY <2>2, <2>5, MakeInv
<1>8. CASE SignBatch(w, as, account, d)
  <2> DEFINE part == IF as = Absent THEN Single(w, "batch", BatchContent(d, account))
                                    ELSE OneSigner(w, as, "batch", BatchContent(d, account))
             own == [part EXCEPT !.account = account]
  <2>1. part \in Parts /\ PartVerifies(part, "batch", BatchContent(d, account))
    BY <1>2, <1>3, SingleFacts, OneSignerFacts DEF Roles
  <2>2. Make([d EXCEPT !.batch = <<own>>])
    BY <1>8 DEF SignBatch
  <2> HIDE DEF part
  <2>3. own \in BatchParts /\ own.account = account /\ own.single = part.single
        /\ own.signers = part.signers
    BY <2>1 DEF Parts, BatchParts
  <2> HIDE DEF own
  <2>4. PartVerifies(own, "batch", BatchContent(d, own.account))
    BY <2>1, <2>3 DEF PartVerifies
  <2>5. <<own>> \in Seq(BatchParts) /\ Len(<<own>>) <= 1 /\ DOMAIN <<own>> = {1} /\ <<own>>[1] = own
    BY <2>3
  <2>6. Ascends(<<own>>, TRUE)
    BY <2>5, ShortAscends
  <2>7. ~(Len(<<own>>) > 1)
    OBVIOUS
  <2>8. Sound([d EXCEPT !.batch = <<own>>])
    BY <1>1, <2>4, <2>5, <2>6, <2>7, BatchIsSound
  <2> QED BY <2>2, <2>8, MakeInv
<1> QED BY <1>4, <1>5, <1>6, <1>7, <1>8

\* So does whatever is combined.
LEMMA CombineInv ==
  ASSUME SGInv, NEW f \in Pairs, Combine(f)
  PROVE  SGInv'
<1>1. Sound(f[1]) /\ Sound(f[2]) /\ DOMAIN f = {1, 2}
  BY PairFacts DEF SGInv
<1> QED BY <1>1, MultisignedFacts, WithSponsorSignersFacts, WithCounterpartySignersFacts,
           WithBatchSignersFacts, MakeInv DEF Combine

\* Every step keeps every copy sound.
LEMMA SGNextInv == SGInv /\ [SGNext]_sgVars => SGInv'
<1> SUFFICES ASSUME SGInv, [SGNext]_sgVars PROVE SGInv'
  OBVIOUS
<1>1. ASSUME NEW d \in copies, NEW key \in Keys,
             \/ Sign(key[1], d) \/ SignFor(key[1], key[2], d)
             \/ \E as \in {Absent, key[2]} :
                  \/ SignAsSponsor(key[1], as, d) \/ SignAsCounterparty(key[1], as, d)
                  \/ \E account \in SignsFor(key, as) : SignBatch(key[1], as, account, d)
      PROVE  SGInv'
  <2>1. key[1] \in Accounts /\ key[2] \in Accounts
    BY KeysAssumption
  <2>2. \A as \in {Absent, key[2]} : SignsFor(key, as) \subseteq Accounts
    BY <2>1 DEF SignsFor
  <2> QED BY <1>1, <2>1, <2>2, SigningInv
<1>2. ASSUME NEW f \in Pairs, Combine(f) PROVE SGInv'
  BY <1>2, CombineInv
<1>3. ASSUME NEW p \in Payloads, NEW x \in Extras, Change(p, x) PROVE SGInv'
  BY <1>3, UnsignedIsSound, MakeInv DEF Change
<1>4. CASE UNCHANGED sgVars
  BY <1>4 DEF SGInv, sgVars, Sound, Verifies, InOrder
<1> QED BY <1>1, <1>2, <1>3, <1>4 DEF SGNext

\* Every copy that is ever in circulation is sound.
LEMMA AlwaysSGInv == SGSpec => []SGInv
  BY SGInitInv, SGNextInv, PTL DEF SGSpec

\* Every signature covers the copy it is in, for any accounts, keys and number of copies
\* and whatever was signed and combined in which order.
THEOREM SignaturesAlwaysVerify == SGSpec => []SignaturesVerify
<1>1. SGInv => SignaturesVerify
  BY DEF SGInv, Sound, Verifies, SignaturesVerify
<1> QED BY <1>1, AlwaysSGInv, PTL

\* No signer is lost when copies are combined, and the lists of signers are in order.
THEOREM SignersAlwaysComplete == SGSpec => []SignersComplete
<1>1. SGInv => SignersAscend
  BY DEF SGInv, Sound, InOrder, SignersAscend
<1>2. SGInv => SignersKept
  <2> SUFFICES ASSUME SGInv, NEW f \in Pairs, NEW d \in {f[1], f[2]}
               PROVE  /\ Multisignable(f) => Who(d.signers) \subseteq Who(Multisigned(f).signers)
                      /\ SponsorSignersAgree(f) =>
                           Who(d.sponsor.signers) \subseteq Who(WithSponsorSigners(f).sponsor.signers)
                      /\ CounterpartySignersAgree(f) =>
                           Who(d.party.signers) \subseteq Who(WithCounterpartySigners(f).party.signers)
                      /\ BatchSignersAgree(f) =>
                           Who(d.batch) \subseteq Who(WithBatchSigners(f).batch) \cup {Sender}
    BY DEF SignersKept
  <2>1. Sound(f[1]) /\ Sound(f[2]) /\ DOMAIN f = {1, 2}
    BY PairFacts DEF SGInv
  <2>2. Multisignable(f) => Who(d.signers) \subseteq Who(Multisigned(f).signers)
    BY <2>1, MultisignedFacts
  <2>3. SponsorSignersAgree(f) =>
          Who(d.sponsor.signers) \subseteq Who(WithSponsorSigners(f).sponsor.signers)
    BY <2>1, WithSponsorSignersFacts
  <2>4. CounterpartySignersAgree(f) =>
          Who(d.party.signers) \subseteq Who(WithCounterpartySigners(f).party.signers)
    BY <2>1, WithCounterpartySignersFacts
  <2>5. BatchSignersAgree(f) => Who(d.batch) \subseteq Who(WithBatchSigners(f).batch) \cup {Sender}
    BY <2>1, WithBatchSignersFacts
  <2> QED BY <2>2, <2>3, <2>4, <2>5
<1> QED BY <1>1, <1>2, AlwaysSGInv, PTL DEF SignersComplete

-----------------------------------------------------------------------------
(* Autofill.                                                               *)

Active == {"go", "asked", "answered"}
Loops == [phase : Phases, at : Nat \ {0}, answer : Nat, sequences : [AFAccounts -> Nat]]
Fresh == [phase |-> "none", at |-> 1, answer |-> 0, sequences |-> [a \in AFAccounts |-> 0]]

AFTyped ==
  /\ batch.account \in [Inners -> AFAccounts]
  /\ onLedger \in [AFAccounts -> Nat \ {0}]
  /\ inner \in [Inners -> Nat]
  /\ filling \in [AFCalls -> {"idle", "running", "returned", "rejected"}]
  /\ outer \in [AFCalls -> Nat]
  /\ task \in [AFCalls -> [Tasks -> TaskStates]]
  /\ loop \in [AFCalls -> Loops]
  /\ clean \in BOOLEAN /\ still \in BOOLEAN

\* The calls are made one after another, and one that returned has nothing left to do.
InTurn ==
  /\ \A c \in AFCalls : filling[c] = "idle" =>
       loop[c] = Fresh /\ \A t \in Tasks : task[c][t] = "none"
  /\ \A c, d \in AFCalls : d < c /\ filling[c] # "idle" => filling[d] = "rejected"
  /\ \A c \in AFCalls : filling[c] = "returned" =>
       loop[c].phase = "done" /\ \A t \in Tasks : task[c][t] = "done"
  /\ \A c \in AFCalls :
       /\ loop[c].phase \in {"asked", "answered"} => loop[c].at \in Inners
       /\ loop[c].phase = "done" => loop[c].at \notin Inners

\* The inners before the n-th whose Sequence is the loop's to choose, by account.
Before(a, n) == {k \in Inners \ batch.tickets : k < n /\ batch.account[k] = a}

\* What a loop that began with nothing filled in has filled in: the inners of an
\* account count up to what it holds as the next Sequence of that account.
Filled(l) ==
  /\ \A k \in Inners : k >= l.at => inner[k] = 0
  /\ \A a \in AFAccounts : l.sequences[a] = 0 <=> Before(a, l.at) = {}
  /\ \A k \in Inners \ batch.tickets : k < l.at =>
       inner[k] + Cardinality(Before(batch.account[k], l.at))
         = l.sequences[batch.account[k]] + Cardinality(Before(batch.account[k], k))

\* It asks for an account that it has no Sequence of.
Asks(l) ==
  /\ l.phase \in {"asked", "answered"} =>
       /\ l.at \in Inners \ batch.tickets
       /\ l.sequences[batch.account[l.at]] = 0
  /\ l.phase = "answered" => l.answer # 0

\* While no account has moved the Sequences are the ledger's.
Follows(l) ==
  /\ \A a \in AFAccounts : l.sequences[a] # 0 =>
       l.sequences[a] = FirstSequence(a, onLedger[a]) + Cardinality(Before(a, l.at))
  /\ l.phase = "answered" => l.answer = onLedger[batch.account[l.at]]

LastCall(c) == filling[c] # "idle" /\ \A d \in AFCalls : d > c => filling[d] = "idle"

FilledBy(c) ==
  /\ \A d \in AFCalls \ {c} : loop[d].phase \notin Active
  /\ loop[c].phase # "failed" =>
       Filled(loop[c]) /\ Asks(loop[c]) /\ (still => Follows(loop[c]))
  /\ still /\ task[c]["sequence"] = "done" => outer[c] = onLedger[Payer]

FilledInTurn == clean => \A c \in AFCalls : LastCall(c) => FilledBy(c)

AFInv == AFTyped /\ InTurn /\ FilledInTurn

\* Before(a, n) is finite, and grows by the n-th when that is of the account.
LEMMA BeforeFacts ==
  /\ \A a, n : IsFiniteSet(Before(a, n)) /\ Cardinality(Before(a, n)) \in Nat
  /\ \A n \in Inners : \A a :
       IF n \notin batch.tickets /\ batch.account[n] = a
       THEN /\ Before(a, n + 1) # {}
            /\ Cardinality(Before(a, n + 1)) = Cardinality(Before(a, n)) + 1
       ELSE Before(a, n + 1) = Before(a, n)
  /\ \A k \in Inners \ batch.tickets :
       Cardinality(UpTo(k)) = Cardinality(Before(batch.account[k], k)) + 1
<1>1. IsFiniteSet(Inners) /\ Cardinality(Inners) \in Nat /\ \A n \in Inners : n \in Nat
  BY AFAssumption, FS_CardinalityType
<1>2. \A a, n : IsFiniteSet(Before(a, n)) /\ Cardinality(Before(a, n)) \in Nat
  BY <1>1, FS_Subset, FS_CardinalityType DEF Before
<1>3. ASSUME NEW n \in Inners, NEW a, n \notin batch.tickets, batch.account[n] = a
      PROVE  Before(a, n + 1) = Before(a, n) \cup {n} /\ n \notin Before(a, n)
  <2>1. \A k \in Inners : k < n + 1 <=> k < n \/ k = n
    BY <1>1
  <2>2. ~ (n < n)
    BY <1>1
  <2> QED BY <1>3, <2>1, <2>2 DEF Before
<1>4. ASSUME NEW n \in Inners, NEW a, ~ (n \notin batch.tickets /\ batch.account[n] = a)
      PROVE  Before(a, n + 1) = Before(a, n)
  <2>1. \A k \in Inners : k < n + 1 <=> k < n \/ k = n
    BY <1>1
  <2> QED BY <1>4, <2>1 DEF Before
<1>5. ASSUME NEW n \in Inners, NEW a, n \notin batch.tickets, batch.account[n] = a
      PROVE  /\ Before(a, n + 1) # {}
             /\ Cardinality(Before(a, n + 1)) = Cardinality(Before(a, n)) + 1
  <2>1. Before(a, n + 1) = Before(a, n) \cup {n} /\ n \notin Before(a, n)
    BY <1>3, <1>5
  <2> QED BY <1>2, <2>1, FS_AddElement
<1>6. ASSUME NEW k \in Inners \ batch.tickets
      PROVE  Cardinality(UpTo(k)) = Cardinality(Before(batch.account[k], k)) + 1
  <2>1. UpTo(k) = Before(batch.account[k], k + 1)
    BY <1>1 DEF UpTo, Before
  <2> QED BY <1>5, <2>1
<1> QED BY <1>2, <1>4, <1>5, <1>6

\* What Promise.all makes of a call: at most it ends one that is running, and returns
\* one that is done.
LEMMA PromiseFacts ==
  ASSUME AFTyped, NEW c \in AFCalls, PromiseAll(c) \/ filling' = filling
  PROVE  /\ filling' \in [AFCalls -> {"idle", "running", "returned", "rejected"}]
         /\ \A d \in AFCalls :
              /\ filling'[d] = "idle" <=> filling[d] = "idle"
              /\ filling[d] = "rejected" => filling'[d] = "rejected"
              /\ filling'[d] = "returned" /\ filling[d] # "returned" =>
                   d = c /\ loop'[c].phase = "done" /\ \A t \in Tasks : task'[c][t] = "done"
  BY DEF AFTyped, PromiseAll

\* At first no call has been made and nothing is filled in.
LEMMA AFInitInv == AFInit => AFInv
  BY DEF AFInit, AFInv, AFTyped, InTurn, FilledInTurn, LastCall, Loops, Phases, Ended, Tasks,
         TaskStates, Fresh

\* The loop of c takes a step: it is that of the last call, so that whatever holds of it
\* before and after is all there is to show.
LEMMA LoopStep ==
  ASSUME AFInv, NEW c \in AFCalls, loop[c].phase \in Active,
         NEW l \in Loops, loop' = [loop EXCEPT ![c] = l], l.phase # "none",
         l.phase \in {"asked", "answered"} => l.at \in Inners,
         l.phase = "done" => l.at \notin Inners,
         inner' \in [Inners -> Nat], PromiseAll(c) \/ filling' = filling,
         task' = task, batch' = batch, onLedger' = onLedger, outer' = outer,
         clean' = clean, still' = still,
         Filled(loop[c]) /\ Asks(loop[c]) /\ (still => Follows(loop[c])) /\ l.phase # "failed" =>
           Filled(l)' /\ Asks(l)' /\ (still => Follows(l)')
  PROVE  AFInv'
<1>1. /\ loop'[c] = l /\ \A d \in AFCalls \ {c} : loop'[d] = loop[d]
      /\ loop' \in [AFCalls -> Loops]
  BY DEF AFInv, AFTyped
<1>2. AFTyped'
  BY <1>1, PromiseFacts DEF AFInv, AFTyped
<1>3. filling[c] # "idle" /\ filling[c] # "returned"
  BY DEF AFInv, InTurn, Fresh, Active
<1>4. InTurn'
  <2>1. \A d \in AFCalls : filling'[d] = "idle" =>
          loop'[d] = Fresh /\ \A t \in Tasks : task'[d][t] = "none"
    BY <1>1, <1>3, PromiseFacts DEF AFInv, InTurn
  <2>2. \A d, e \in AFCalls : e < d /\ filling'[d] # "idle" => filling'[e] = "rejected"
    BY PromiseFacts DEF AFInv, InTurn
  <2>3. \A d \in AFCalls : filling'[d] = "returned" =>
          loop'[d].phase = "done" /\ \A t \in Tasks : task'[d][t] = "done"
    BY <1>1, <1>3, PromiseFacts DEF AFInv, InTurn
  <2>4. \A d \in AFCalls :
          /\ loop'[d].phase \in {"asked", "answered"} => loop'[d].at \in Inners
          /\ loop'[d].phase = "done" => loop'[d].at \notin Inners
    BY <1>1 DEF AFInv, InTurn
  <2> QED BY <2>1, <2>2, <2>3, <2>4 DEF InTurn, Fresh
<1>5. FilledInTurn'
  <2> SUFFICES ASSUME clean, NEW d \in AFCalls, LastCall(d)' PROVE FilledBy(d)'
    BY DEF FilledInTurn
  <2>1. LastCall(d)
    BY PromiseFacts DEF LastCall, AFInv
  <2>2. FilledBy(d)
    BY <2>1 DEF AFInv, FilledInTurn
  <2>3. d = c
    BY <2>2 DEF FilledBy
  <2>4. loop[c].phase # "failed"
    BY DEF Active
  <2>5. \A e \in AFCalls \ {c} : loop'[e].phase \notin Active
    BY <1>1, <2>2, <2>3 DEF FilledBy
  <2>6. l.phase # "failed" => Filled(l)' /\ Asks(l)' /\ (still => Follows(l)')
    BY <2>2, <2>3, <2>4 DEF FilledBy
  <2>7. still' /\ task'[c]["sequence"] = "done" => outer'[c] = onLedger'[Payer]
    BY <2>2, <2>3 DEF FilledBy
  <2> QED BY <1>1, <2>3, <2>5, <2>6, <2>7 DEF FilledBy, Active
<1> QED BY <1>2, <1>4, <1>5 DEF AFInv

\* An inner that needs no Sequence leaves the loop as far as it was.
LEMMA SkipsInner ==
  ASSUME AFTyped, batch' = batch, inner' = inner, onLedger' = onLedger,
         NEW l \in Loops, l.at \in Inners, Filled(l), ~WantsSequence(l.at),
         NEW m \in Loops, m.at = l.at + 1, m.sequences = l.sequences, m.phase \notin {"asked", "answered"}
  PROVE  /\ Filled(m)' /\ Asks(m)'
         /\ Follows(l) => Follows(m)'
<1>1. /\ Inners \subseteq Nat /\ \A k \in Inners : k <= l.at \/ k >= l.at + 1
      /\ l.at \in Nat /\ m.at \in Nat
  BY AFAssumption, FS_CardinalityType DEF Loops
<1>2. l.at \in batch.tickets
  BY <1>1 DEF WantsSequence, Filled
<1>4. \A a, n : Before(a, n)' = Before(a, n)
  BY DEF Before
<1>8. \A a : Before(a, l.at + 1) = Before(a, l.at)
  <2> SUFFICES ASSUME NEW a PROVE Before(a, l.at + 1) = Before(a, l.at)
    OBVIOUS
  <2>1. \A n \in Inners : ~(n \notin batch.tickets /\ batch.account[n] = a)
                             => Before(a, n + 1) = Before(a, n)
    BY BeforeFacts
  <2> QED BY <1>2, <2>1
<1>3. \A a : Before(a, m.at)' = Before(a, l.at)
  BY <1>4, <1>8
<1>5. Filled(m)'
  <2>1. \A k \in Inners : k >= m.at => inner'[k] = 0
    <3>1. \A k \in Inners : k >= m.at => k >= l.at
      BY <1>1
    <3>2. \A k \in Inners : k >= l.at => inner[k] = 0
      BY DEF Filled
    <3> QED BY <3>1, <3>2
  <2>2. \A a \in AFAccounts : m.sequences[a] = 0 <=> Before(a, m.at)' = {}
    BY <1>3 DEF Filled
  <2>3. ASSUME NEW k \in Inners \ batch.tickets, k < m.at
        PROVE  inner'[k] + Cardinality(Before(batch.account[k], m.at)')
                 = m.sequences[batch.account[k]] + Cardinality(Before(batch.account[k], k)')
    <3>1. k < l.at
      BY <1>1, <1>2, <2>3
    <3> QED BY <1>3, <1>4, <3>1 DEF Filled
  <2> QED BY <2>1, <2>2, <2>3 DEF Filled
<1>6. Asks(m)'
  BY DEF Asks
<1>7. Follows(l) => Follows(m)'
  BY <1>3 DEF Follows, FirstSequence
<1> QED BY <1>5, <1>6, <1>7

\* One that needs a Sequence gets the next of its account: the one after those before
\* it, or the first.
LEMMA FillsInner ==
  ASSUME AFTyped, batch' = batch, onLedger' = onLedger,
         NEW l \in Loops, l.at \in Inners \ batch.tickets, Filled(l),
         NEW s \in Nat \ {0}, inner' = [inner EXCEPT ![l.at] = s],
         l.sequences[batch.account[l.at]] # 0 => s = l.sequences[batch.account[l.at]],
         NEW m \in Loops, m.at = l.at + 1, m.phase \notin {"asked", "answered"},
         m.sequences = [l.sequences EXCEPT ![batch.account[l.at]] = s + 1]
  PROVE  /\ Filled(m)' /\ Asks(m)'
         /\ Follows(l) /\ (l.sequences[batch.account[l.at]] = 0 =>
              s = FirstSequence(batch.account[l.at], onLedger[batch.account[l.at]])) => Follows(m)'
<1> DEFINE i == l.at
           a == batch.account[i]
<1>1. /\ Inners \subseteq Nat /\ \A k \in Inners : k <= i \/ k >= i + 1
      /\ i \in Nat /\ m.at \in Nat
  BY AFAssumption, FS_CardinalityType DEF Loops
<1>2. /\ a \in AFAccounts /\ l.sequences \in [AFAccounts -> Nat]
      /\ i \in DOMAIN inner
      /\ m.sequences[a] = s + 1 /\ \A b \in AFAccounts \ {a} : m.sequences[b] = l.sequences[b]
  BY DEF AFTyped, Loops
<1>3. /\ Before(a, i + 1) # {} /\ Cardinality(Before(a, i + 1)) = Cardinality(Before(a, i)) + 1
      /\ \A b : b # a => Before(b, i + 1) = Before(b, i)
      /\ \A b, n : Cardinality(Before(b, n)) \in Nat
  BY BeforeFacts
<1>4. \A b, n : Before(b, n)' = Before(b, n)
  BY DEF Before
<1>5. s = l.sequences[a] \/ (Before(a, i) = {} /\ l.sequences[a] = 0)
  BY <1>2 DEF Filled
<1>6. Filled(m)'
  <2>1. \A k \in Inners : k >= i + 1 => inner'[k] = 0
    <3>1. \A k \in Inners : k >= i + 1 => k >= i /\ k # i
      BY <1>1
    <3> QED BY <3>1 DEF Filled, AFTyped
  <2>2. \A b \in AFAccounts : m.sequences[b] = 0 <=> Before(b, i + 1) = {}
    BY <1>2, <1>3 DEF Filled
  <2>3. ASSUME NEW k \in Inners \ batch.tickets, k < i + 1
        PROVE  inner'[k] + Cardinality(Before(batch.account[k], i + 1))
                 = m.sequences[batch.account[k]] + Cardinality(Before(batch.account[k], k))
    <3>1. CASE k = i
      <4>1. inner'[k] = s /\ m.sequences[batch.account[k]] = s + 1
        BY <1>2, <3>1
      <4>2. /\ Cardinality(Before(a, i + 1)) = Cardinality(Before(a, i)) + 1
            /\ Cardinality(Before(a, i)) \in Nat
        BY <1>3
      <4>3. s + Cardinality(Before(a, i + 1)) = s + 1 + Cardinality(Before(a, i))
        BY <4>2
      <4> QED BY <3>1, <4>1, <4>3
    <3>2. CASE k # i
      <4>5. k \in Nat /\ k < i
        <5>1. k \in Nat /\ (k <= i \/ k >= i + 1)
          BY <1>1
        <5> HIDE DEF i
        <5> QED BY <1>1, <2>3, <3>2, <5>1
      <4>6. inner'[k] = inner[k] /\ batch.account[k] \in AFAccounts /\ inner[k] \in Nat
        BY <3>2 DEF AFTyped
      <4>1. k < i /\ inner'[k] = inner[k] /\ batch.account[k] \in AFAccounts /\ inner[k] \in Nat
        BY <4>5, <4>6
      <4>2. inner[k] + Cardinality(Before(batch.account[k], i))
              = l.sequences[batch.account[k]] + Cardinality(Before(batch.account[k], k))
        BY <4>1 DEF Filled
      <4>3. CASE batch.account[k] = a
        <5>1. k \in Before(a, i)
          BY <4>1, <4>3 DEF Before
        <5>2. s = l.sequences[a] /\ m.sequences[a] = s + 1
          BY <1>2, <1>5, <5>1
        <5> QED BY <1>3, <4>1, <4>2, <4>3, <5>2
      <4>4. CASE batch.account[k] # a
        BY <1>2, <1>3, <4>1, <4>2, <4>4
      <4> QED BY <4>3, <4>4
    <3> QED BY <3>1, <3>2
  <2> QED BY <1>4, <2>1, <2>2, <2>3 DEF Filled
<1>7. Asks(m)'
  BY DEF Asks
<1>8. ASSUME Follows(l), l.sequences[a] = 0 => s = FirstSequence(a, onLedger[a])
      PROVE  Follows(m)'
  <2> SUFFICES ASSUME NEW b \in AFAccounts, m.sequences[b] # 0
               PROVE m.sequences[b] = FirstSequence(b, onLedger[b]) + Cardinality(Before(b, i + 1))
    BY <1>4 DEF Follows, FirstSequence
  <2>1. FirstSequence(b, onLedger[b]) \in Nat
    BY DEF FirstSequence, AFTyped
  <2>2. CASE b = a
    <3>1. CASE l.sequences[a] = 0
      <4>1. Cardinality(Before(a, i)) = 0
        BY <1>2, <3>1, FS_EmptySet DEF Filled
      <4> QED BY <1>2, <1>3, <1>8, <2>2, <3>1, <4>1
    <3>2. CASE l.sequences[a] # 0
      <4>1. l.sequences[a] = FirstSequence(a, onLedger[a]) + Cardinality(Before(a, i))
        BY <1>2, <1>8, <3>2 DEF Follows
      <4> QED BY <1>2, <1>3, <2>1, <2>2, <3>2, <4>1
    <3> QED BY <3>1, <3>2
  <2>3. CASE b # a
    BY <1>2, <1>3, <1>8, <2>3 DEF Follows
  <2> QED BY <2>2, <2>3
<1> QED BY <1>6, <1>7, <1>8

\* The rest of an iteration.
LEMMA NextInnerFacts ==
  ASSUME NEW l \in Loops
  PROVE  /\ NextInner(l) \in Loops
         /\ NextInner(l).sequences = l.sequences
         /\ NextInner(l).phase \in {"go", "failed"}
         /\ NextInner(l).phase # "failed" => NextInner(l).at = l.at + 1
<1>1. l.at \in Nat
  BY DEF Loops
<1>2. CASE l.at = batch.bad
  BY <1>2 DEF NextInner, Loops, Phases, Ended
<1>3. CASE l.at # batch.bad
  <2>1. NextInner(l) = [phase |-> "go", at |-> l.at + 1, answer |-> l.answer,
                        sequences |-> l.sequences]
    BY <1>3 DEF NextInner, Loops
  <2> QED BY <1>1, <2>1 DEF Loops, Phases, Ended
<1> QED BY <1>2, <1>3

\* What the loop does between two awaits.
LEMMA IterateInv == ASSUME AFInv, NEW c \in AFCalls, Iterate(c) PROVE AFInv'
<1>1. PICK l \in Loops : l = loop[c]
  BY DEF AFInv, AFTyped
<1>2. /\ AFTyped /\ l.phase = "go" /\ l.at \in Inners /\ l.at \in Nat
      /\ inner \in [Inners -> Nat] /\ l.sequences \in [AFAccounts -> Nat]
      /\ batch.account[l.at] \in AFAccounts
      /\ task' = task /\ batch' = batch /\ onLedger' = onLedger /\ outer' = outer
      /\ clean' = clean /\ still' = still
      /\ loop[c].phase \in Active /\ PromiseAll(c)
  BY <1>1 DEF AFInv, AFTyped, Iterate, Active, Loops
<1>3. PICK a \in AFAccounts : a = batch.account[l.at]
  BY <1>2
<1>4. CASE ~WantsSequence(l.at) /\ loop' = [loop EXCEPT ![c] = NextInner(l)] /\ UNCHANGED inner
  <2>1. PICK m : m = NextInner(l)
    OBVIOUS
  <2>2. /\ m \in Loops /\ m.sequences = l.sequences /\ m.phase \in {"go", "failed"}
        /\ m.phase # "failed" => m.at = l.at + 1
    BY <2>1, NextInnerFacts
  <2>3. Filled(l) /\ m.phase # "failed" => Filled(m)' /\ Asks(m)' /\ (Follows(l) => Follows(m)')
    BY <1>2, <1>4, <2>2, SkipsInner
  <2> QED BY <1>1, <1>2, <1>4, <2>1, <2>2, <2>3, LoopStep
<1>5. CASE /\ WantsSequence(l.at) /\ l.sequences[a] # 0
           /\ inner' = [inner EXCEPT ![l.at] = l.sequences[a]]
           /\ loop' = [loop EXCEPT ![c] = NextInner([l EXCEPT !.sequences[a] = @ + 1])]
  <2>1. PICK s \in Nat \ {0} : s = l.sequences[a]
    BY <1>2, <1>5
  <2>7. PICK k : k = [l EXCEPT !.sequences = [l.sequences EXCEPT ![a] = s + 1]]
    OBVIOUS
  <2>8. k \in Loops /\ k.sequences = [l.sequences EXCEPT ![a] = s + 1] /\ k.at = l.at
    BY <1>2, <2>7 DEF Loops
  <2>2. PICK m : m = NextInner(k)
    OBVIOUS
  <2>3. /\ m \in Loops /\ m.sequences = [l.sequences EXCEPT ![a] = s + 1]
        /\ m.phase \in {"go", "failed"}
        /\ m.phase # "failed" => m.at = l.at + 1
    BY <2>2, <2>8, NextInnerFacts
  <2>4. inner' = [inner EXCEPT ![l.at] = s] /\ l.at \in Inners \ batch.tickets
    BY <1>2, <1>5, <2>1 DEF WantsSequence
  <2>5. Filled(l) /\ m.phase # "failed" => Filled(m)' /\ Asks(m)' /\ (Follows(l) => Follows(m)')
    BY <1>2, <1>3, <1>5, <2>1, <2>3, <2>4, FillsInner
  <2>6. loop' = [loop EXCEPT ![c] = m] /\ inner' \in [Inners -> Nat]
    BY <1>2, <1>5, <2>1, <2>2, <2>4, <2>7
  <2> QED BY <1>1, <1>2, <2>3, <2>5, <2>6, LoopStep
<1>6. CASE /\ WantsSequence(l.at) /\ l.sequences[a] = 0
           /\ loop' = [loop EXCEPT ![c].phase = "asked"] /\ UNCHANGED inner
  <2>1. PICK m : m = [l EXCEPT !.phase = "asked"]
    OBVIOUS
  <2>2. /\ m \in Loops /\ m.sequences = l.sequences /\ m.phase = "asked" /\ m.at = l.at
    BY <2>1 DEF Loops, Phases
  <2>3. Filled(l) => Filled(m)' /\ Asks(m)' /\ (Follows(l) => Follows(m)')
    <3>1. \A b, n : Before(b, n)' = Before(b, n)
      BY <1>2 DEF Before
    <3>2. Filled(l) => Filled(m)'
      BY <1>2, <1>6, <2>2, <3>1 DEF Filled
    <3>3. Asks(m)'
      BY <1>2, <1>3, <1>6, <2>2 DEF Asks, WantsSequence
    <3>4. Follows(l) => Follows(m)'
      BY <1>2, <1>6, <2>2, <3>1 DEF Follows, FirstSequence
    <3> QED BY <3>2, <3>3, <3>4
  <2>4. loop' = [loop EXCEPT ![c] = m] /\ inner' \in [Inners -> Nat]
    BY <1>1, <1>2, <1>6, <2>1
  <2> QED BY <1>1, <1>2, <2>2, <2>3, <2>4, LoopStep
<1> QED BY <1>1, <1>3, <1>4, <1>5, <1>6 DEF Iterate

\* A loop that takes no inner leaves what is filled in as it is.
LEMMA SameInner ==
  ASSUME batch' = batch, inner' = inner, onLedger' = onLedger,
         NEW l \in Loops, NEW m \in Loops, m.at = l.at, m.sequences = l.sequences,
         Filled(l), m.phase \notin {"asked", "answered"}
  PROVE  Filled(m)' /\ Asks(m)' /\ (Follows(l) => Follows(m)')
<1>1. \A b, n : Before(b, n)' = Before(b, n)
  BY DEF Before
<1>2. Filled(m)'
  BY <1>1 DEF Filled
<1>3. Follows(l) => Follows(m)'
  BY <1>1 DEF Follows, FirstSequence
<1> QED BY <1>2, <1>3 DEF Asks

\* The loop ends.
LEMMA LoopEndsInv == ASSUME AFInv, NEW c \in AFCalls, LoopEnds(c) PROVE AFInv'
<1>1. PICK l \in Loops : l = loop[c]
  BY DEF AFInv, AFTyped
<1>2. PICK m : m = [l EXCEPT !.phase = "done"]
  OBVIOUS
<1>3. m \in Loops /\ m.sequences = l.sequences /\ m.phase = "done" /\ m.at = l.at
  BY <1>2 DEF Loops, Phases, Ended
<1>4. /\ loop' = [loop EXCEPT ![c] = m] /\ PromiseAll(c) /\ inner' = inner /\ task' = task
      /\ batch' = batch /\ onLedger' = onLedger /\ outer' = outer /\ clean' = clean /\ still' = still
      /\ loop[c].phase \in Active /\ l.at \notin Inners
  BY <1>1, <1>2 DEF LoopEnds, Active
<1>5. Filled(l) => Filled(m)' /\ Asks(m)' /\ (Follows(l) => Follows(m)')
  BY <1>3, <1>4, SameInner
<1>6. inner' \in [Inners -> Nat]
  BY <1>4 DEF AFInv, AFTyped
<1> QED BY <1>1, <1>3, <1>4, <1>5, <1>6, LoopStep

\* The server answers the loop.
LEMMA ServerAnswersInv == ASSUME AFInv, NEW c \in AFCalls, ServerAnswers(c) PROVE AFInv'
<1>1. PICK l \in Loops : l = loop[c]
  BY DEF AFInv, AFTyped
<1>2. /\ l.phase = "asked" /\ l.at \in Inners /\ inner \in [Inners -> Nat]
      /\ onLedger[batch.account[l.at]] \in Nat \ {0}
  BY <1>1 DEF AFInv, AFTyped, InTurn, ServerAnswers
<1>3. PICK s \in Nat \ {0} : s = onLedger[batch.account[l.at]]
  BY <1>2
<1>4. PICK m : m = [l EXCEPT !.phase = "answered", !.answer = s]
  OBVIOUS
<1>5. /\ m \in Loops /\ m.sequences = l.sequences /\ m.at = l.at
      /\ m.phase = "answered" /\ m.answer = s
  BY <1>4 DEF Loops, Phases
<1>6. /\ loop' = [loop EXCEPT ![c] = m] /\ inner' = inner /\ task' = task
      /\ filling' = filling /\ batch' = batch /\ onLedger' = onLedger
      /\ outer' = outer /\ clean' = clean /\ still' = still /\ loop[c].phase \in Active
  BY <1>1, <1>2, <1>3, <1>4 DEF ServerAnswers, Active
<1>7. \A b, n : Before(b, n)' = Before(b, n)
  BY <1>6 DEF Before
<1>8. Filled(l) => Filled(m)'
  BY <1>5, <1>6, <1>7 DEF Filled
<1>9. Asks(l) => Asks(m)'
  BY <1>2, <1>5, <1>6 DEF Asks
<1>10. Follows(l) => Follows(m)'
  BY <1>3, <1>5, <1>6, <1>7 DEF Follows, FirstSequence
<1> QED BY <1>1, <1>2, <1>5, <1>6, <1>8, <1>9, <1>10, LoopStep

\* The loop's request fails.
LEMMA LoopRequestFailsInv == ASSUME AFInv, NEW c \in AFCalls, LoopRequestFails(c) PROVE AFInv'
<1>1. PICK l \in Loops : l = loop[c]
  BY DEF AFInv, AFTyped
<1>2. PICK m : m = [l EXCEPT !.phase = "failed"]
  OBVIOUS
<1>3. m \in Loops /\ m.phase = "failed"
  BY <1>2 DEF Loops, Phases, Ended
<1>4. /\ loop' = [loop EXCEPT ![c] = m] /\ PromiseAll(c) /\ inner' = inner /\ task' = task
      /\ batch' = batch /\ onLedger' = onLedger /\ outer' = outer /\ clean' = clean /\ still' = still
      /\ loop[c].phase \in Active
  BY <1>1, <1>2 DEF LoopRequestFails, Active
<1>5. inner' \in [Inners -> Nat]
  BY <1>4 DEF AFInv, AFTyped
<1> QED BY <1>3, <1>4, <1>5, LoopStep

\* The loop goes on with the answer.
LEMMA LoopContinuesInv == ASSUME AFInv, NEW c \in AFCalls, LoopContinues(c) PROVE AFInv'
<1>1. PICK l \in Loops : l = loop[c]
  BY DEF AFInv, AFTyped
<1>2. /\ AFTyped /\ l.phase = "answered" /\ l.at \in Inners /\ l.at \in Nat /\ l.answer \in Nat
      /\ inner \in [Inners -> Nat] /\ l.sequences \in [AFAccounts -> Nat]
      /\ batch.account[l.at] \in AFAccounts
      /\ task' = task /\ batch' = batch /\ onLedger' = onLedger /\ outer' = outer
      /\ clean' = clean /\ still' = still
      /\ loop[c].phase \in Active /\ PromiseAll(c)
  BY <1>1 DEF AFInv, AFTyped, InTurn, LoopContinues, Loops, Active
<1>3. PICK a \in AFAccounts : a = batch.account[l.at]
  BY <1>2
<1>4. PICK s \in Nat : s = FirstSequence(a, l.answer)
  BY <1>2 DEF FirstSequence
<1>10. PICK k : k = [l EXCEPT !.sequences = [l.sequences EXCEPT ![a] = s + 1], !.answer = 0]
  OBVIOUS
<1>11. k \in Loops /\ k.sequences = [l.sequences EXCEPT ![a] = s + 1] /\ k.at = l.at
  <2>1. k = [phase |-> l.phase, at |-> l.at, answer |-> 0,
             sequences |-> [l.sequences EXCEPT ![a] = s + 1]]
    BY <1>10 DEF Loops
  <2> QED BY <1>2, <2>1 DEF Loops, Phases
<1>5. PICK m : m = NextInner(k)
  OBVIOUS
<1>6. /\ m \in Loops /\ m.sequences = [l.sequences EXCEPT ![a] = s + 1]
      /\ m.phase \in {"go", "failed"}
      /\ m.phase # "failed" => m.at = l.at + 1
  BY <1>5, <1>11, NextInnerFacts
<1>7. inner' = [inner EXCEPT ![l.at] = s] /\ loop' = [loop EXCEPT ![c] = m]
  BY <1>1, <1>3, <1>4, <1>5, <1>10 DEF LoopContinues, SequenceAfter
<1>8. ASSUME Filled(l), Asks(l), still => Follows(l), m.phase # "failed"
      PROVE  Filled(m)' /\ Asks(m)' /\ (still => Follows(m)')
  <2>1. l.at \in Inners \ batch.tickets /\ l.sequences[a] = 0 /\ s \in Nat \ {0}
    BY <1>2, <1>3, <1>4, <1>8 DEF Asks, FirstSequence
  <2>2. Follows(l) => s = FirstSequence(a, onLedger[a])
    BY <1>2, <1>3, <1>4 DEF Follows
  <2>3. /\ Filled(m)' /\ Asks(m)'
        /\ Follows(l) /\ s = FirstSequence(a, onLedger[a]) => Follows(m)'
    BY <1>2, <1>3, <1>6, <1>7, <1>8, <2>1, FillsInner
  <2> QED BY <1>8, <2>2, <2>3
<1>9. inner' \in [Inners -> Nat]
  BY <1>2, <1>7
<1> QED BY <1>1, <1>2, <1>6, <1>7, <1>8, <1>9, LoopStep

\* A call starts.
LEMMA StartFillingInv == ASSUME AFInv, NEW c \in AFCalls, StartFilling(c) PROVE AFInv'
<1>1. /\ filling[c] = "idle" /\ loop[c] = Fresh
      /\ \A d \in AFCalls : d < c => filling[d] = "rejected"
      /\ filling' = [filling EXCEPT ![c] = "running"]
      /\ batch' = batch /\ onLedger' = onLedger /\ inner' = inner /\ outer' = outer
      /\ task' = [task EXCEPT ![c] = [t \in Tasks |-> "asked"]]
      /\ loop' = [loop EXCEPT ![c].phase = "go"]
      /\ clean' = (/\ \A i \in Inners : inner[i] = 0
                   /\ \A d \in AFCalls : loop[d].phase \in {"none"} \cup Ended)
  BY DEF AFInv, InTurn, StartFilling
<1>2. still' = TRUE
  BY DEF StartFilling
<1>3. PICK l : l = [Fresh EXCEPT !.phase = "go"]
  OBVIOUS
<1>4. /\ l \in Loops /\ l.phase = "go" /\ l.at = 1 /\ l.sequences = [a \in AFAccounts |-> 0]
  BY <1>3 DEF Fresh, Loops, Phases
<1>5. /\ loop' = [loop EXCEPT ![c] = l] /\ loop' \in [AFCalls -> Loops]
      /\ loop'[c] = l /\ \A d \in AFCalls \ {c} : loop'[d] = loop[d]
  BY <1>1, <1>3, <1>4 DEF AFInv, AFTyped
<1>6. /\ AFTyped /\ \A d, e \in AFCalls : d < e \/ e < d \/ d = e
      /\ \A d, e \in AFCalls : d < e => ~(e < d) /\ d # e
  BY AFAssumption, FS_CardinalityType DEF AFInv
<1>7. task'[c]["sequence"] = "asked" /\ \A d \in AFCalls \ {c} : task'[d] = task[d]
  BY <1>1, <1>6 DEF AFTyped, Tasks
<1>8. AFTyped'
  <2>1. [t \in Tasks |-> "asked"] \in [Tasks -> TaskStates]
    BY DEF TaskStates
  <2>2. task' \in [AFCalls -> [Tasks -> TaskStates]] /\ clean' \in BOOLEAN
    BY <1>1, <1>6, <2>1 DEF AFTyped
  <2> QED BY <1>1, <1>2, <1>5, <1>6, <2>2 DEF AFTyped
<1>9. /\ filling'[c] = "running" /\ \A d \in AFCalls \ {c} : filling'[d] = filling[d]
  BY <1>1, <1>6 DEF AFTyped
<1>10. InTurn'
  <2>1. \A d \in AFCalls : filling'[d] = "idle" =>
          loop'[d] = Fresh /\ \A t \in Tasks : task'[d][t] = "none"
    BY <1>5, <1>7, <1>9 DEF AFInv, InTurn
  <2>2. ASSUME NEW d \in AFCalls, NEW e \in AFCalls, e < d, filling'[d] # "idle"
        PROVE  filling'[e] = "rejected"
    <3>1. CASE d = c
      BY <1>1, <1>6, <1>9, <2>2, <3>1
    <3>2. CASE d # c
      BY <1>1, <1>6, <1>9, <2>2, <3>2 DEF AFInv, InTurn
    <3> QED BY <3>1, <3>2
  <2>3. \A d \in AFCalls : filling'[d] = "returned" =>
          loop'[d].phase = "done" /\ \A t \in Tasks : task'[d][t] = "done"
    BY <1>5, <1>7, <1>9 DEF AFInv, InTurn
  <2>4. \A d \in AFCalls :
          /\ loop'[d].phase \in {"asked", "answered"} => loop'[d].at \in Inners
          /\ loop'[d].phase = "done" => loop'[d].at \notin Inners
    BY <1>4, <1>5 DEF AFInv, InTurn
  <2> QED BY <2>1, <2>2, <2>3, <2>4 DEF InTurn, Fresh
<1>11. FilledInTurn'
  <2> SUFFICES ASSUME clean', NEW d \in AFCalls, LastCall(d)' PROVE FilledBy(d)'
    BY DEF FilledInTurn
  <2>1. d = c
    <3>1. ~(c > d)
      BY <1>9 DEF LastCall
    <3>2. ~(d < c)
      BY <3>1, AFAssumption, FS_CardinalityType
    <3>3. ~(c < d)
      <4> SUFFICES ASSUME c < d PROVE FALSE
        OBVIOUS
      <4>1. filling[d] # "idle"
        BY <1>6, <1>9 DEF LastCall
      <4> QED BY <1>1, <4>1 DEF AFInv, InTurn
    <3> QED BY <1>6, <3>2, <3>3
  <2>2. \A e \in AFCalls \ {c} : loop'[e].phase \notin Active
    BY <1>1, <1>5 DEF Active, Ended
  <2>3. Filled(l)'
    <3>1. \A a : Before(a, 1)' = {}
      BY <1>1, AFAssumption, FS_CardinalityType DEF Before
    <3>2. \A k \in Inners : ~(k < 1)
      BY AFAssumption, FS_CardinalityType
    <3> QED BY <1>1, <1>4, <3>1, <3>2 DEF Filled
  <2>4. Asks(l)' /\ Follows(l)'
    BY <1>4 DEF Asks, Follows
  <2> QED BY <1>5, <1>7, <2>1, <2>2, <2>3, <2>4 DEF FilledBy, Active
<1> QED BY <1>8, <1>10, <1>11 DEF AFInv

\* A task that is not the loop ends, either way.
LEMMA TaskInv ==
  ASSUME AFInv, NEW c \in AFCalls, NEW t \in Tasks, TaskDone(c, t) \/ TaskFails(c, t)
  PROVE  AFInv'
<1>1. /\ task[c][t] = "asked" /\ PromiseAll(c)
      /\ loop' = loop /\ batch' = batch /\ onLedger' = onLedger /\ inner' = inner
      /\ clean' = clean /\ still' = still
  BY DEF TaskDone, TaskFails
<1>2. PICK state \in {"done", "failed"} :
        /\ task' = [task EXCEPT ![c][t] = state]
        /\ outer' = IF t = "sequence" /\ state = "done" THEN [outer EXCEPT ![c] = onLedger[Payer]]
                                                        ELSE outer
  BY DEF TaskDone, TaskFails
<1>3. AFTyped /\ Payer \in AFAccounts
  BY AFAssumption DEF AFInv
<1>4. PICK s : s = [task[c] EXCEPT ![t] = state]
  OBVIOUS
<1>5. /\ s \in [Tasks -> TaskStates] /\ s[t] = state /\ \A u \in Tasks \ {t} : s[u] = task[c][u]
      /\ task' = [task EXCEPT ![c] = s]
  BY <1>2, <1>3, <1>4 DEF AFTyped, TaskStates, Ended
<1>6. /\ task' \in [AFCalls -> [Tasks -> TaskStates]]
      /\ task'[c] = s /\ \A d \in AFCalls \ {c} : task'[d] = task[d]
  BY <1>3, <1>5 DEF AFTyped
<1>7. AFTyped'
  <2>1. outer' \in [AFCalls -> Nat]
    BY <1>2, <1>3 DEF AFTyped
  <2> QED BY <1>1, <1>3, <1>6, <2>1, PromiseFacts DEF AFTyped
<1>8. filling[c] # "idle" /\ filling[c] # "returned"
  BY <1>1 DEF AFInv, InTurn
<1>9. InTurn'
  <2>1. \A d \in AFCalls : filling'[d] = "idle" =>
          loop'[d] = Fresh /\ \A u \in Tasks : task'[d][u] = "none"
    BY <1>1, <1>6, <1>8, PromiseFacts DEF AFInv, InTurn
  <2>2. \A d, e \in AFCalls : e < d /\ filling'[d] # "idle" => filling'[e] = "rejected"
    BY <1>1, PromiseFacts DEF AFInv, InTurn
  <2>3. \A d \in AFCalls : filling'[d] = "returned" =>
          loop'[d].phase = "done" /\ \A u \in Tasks : task'[d][u] = "done"
    BY <1>1, <1>6, <1>8, PromiseFacts DEF AFInv, InTurn
  <2>4. \A d \in AFCalls :
          /\ loop'[d].phase \in {"asked", "answered"} => loop'[d].at \in Inners
          /\ loop'[d].phase = "done" => loop'[d].at \notin Inners
    BY <1>1 DEF AFInv, InTurn
  <2> QED BY <2>1, <2>2, <2>3, <2>4 DEF InTurn, Fresh
<1>10. FilledInTurn'
  <2> SUFFICES ASSUME clean', NEW d \in AFCalls, LastCall(d)' PROVE FilledBy(d)'
    BY DEF FilledInTurn
  <2>1. LastCall(d)
    BY <1>1, <1>3, PromiseFacts DEF LastCall
  <2>2. FilledBy(d)
    BY <1>1, <2>1 DEF AFInv, FilledInTurn
  <2>3. /\ loop[d].phase # "failed" =>
             Filled(loop[d])' /\ Asks(loop[d])' /\ (still => Follows(loop[d])')
        /\ \A e \in AFCalls \ {d} : loop'[e].phase \notin Active
    BY <1>1, <2>2 DEF FilledBy, Filled, Asks, Follows, FirstSequence, Before
  <2>4. still' /\ task'[d]["sequence"] = "done" => outer'[d] = onLedger'[Payer]
    <3> SUFFICES ASSUME still, task'[d]["sequence"] = "done" PROVE outer'[d] = onLedger[Payer]
      BY <1>1
    <3>1. "sequence" \in Tasks
      BY DEF Tasks
    <3>2. CASE d = c /\ t = "sequence"
      BY <1>2, <1>3, <1>5, <1>6, <3>2 DEF AFTyped
    <3>3. CASE ~(d = c /\ t = "sequence")
      <4>1. task[d]["sequence"] = "done"
        BY <1>5, <1>6, <3>1, <3>3
      <4>2. outer'[d] = outer[d]
        BY <1>2, <1>3, <3>3 DEF AFTyped
      <4> QED BY <2>2, <4>1, <4>2 DEF FilledBy
    <3> QED BY <3>2, <3>3
  <2> QED BY <1>1, <2>3, <2>4 DEF FilledBy, Active
<1> QED BY <1>7, <1>9, <1>10 DEF AFInv

\* An account moves: nothing is claimed to follow the ledger any more.
LEMMA AccountMovesInv == ASSUME AFInv, NEW a \in AFAccounts, AccountMoves(a) PROVE AFInv'
<1>1. /\ batch' = batch /\ inner' = inner /\ filling' = filling /\ outer' = outer
      /\ task' = task /\ loop' = loop /\ clean' = clean /\ still' = FALSE
      /\ onLedger' = [onLedger EXCEPT ![a] = @ + 1]
  BY DEF AccountMoves
<1>2. AFTyped'
  <2>1. onLedger' \in [AFAccounts -> Nat \ {0}]
    <3>1. onLedger \in [AFAccounts -> Nat \ {0}]
      BY DEF AFInv, AFTyped
    <3>2. \A n \in Nat : n + 1 \in Nat \ {0}
      OBVIOUS
    <3> QED BY <1>1, <3>1, <3>2
  <2> QED BY <1>1, <2>1 DEF AFInv, AFTyped
<1>3. InTurn'
  BY <1>1 DEF AFInv, InTurn, Fresh
<1>4. FilledInTurn'
  <2> SUFFICES ASSUME clean', NEW d \in AFCalls, LastCall(d)' PROVE FilledBy(d)'
    BY DEF FilledInTurn
  <2>1. FilledBy(d)
    BY <1>1 DEF LastCall, AFInv, FilledInTurn
  <2>2. loop[d].phase # "failed" => Filled(loop[d])' /\ Asks(loop[d])'
    <3>1. \A b, n : Before(b, n)' = Before(b, n)
      BY <1>1 DEF Before
    <3>2. Filled(loop[d]) => Filled(loop[d])'
      BY <1>1, <3>1 DEF Filled
    <3>3. Asks(loop[d]) => Asks(loop[d])'
      BY <1>1 DEF Asks
    <3> QED BY <2>1, <3>2, <3>3 DEF FilledBy
  <2> QED BY <1>1, <2>1, <2>2 DEF FilledBy, Active
<1> QED BY <1>2, <1>3, <1>4 DEF AFInv

\* Every step keeps the invariant.
LEMMA AFNextInv == AFInv /\ [AFNext]_afVars => AFInv'
<1>1. ASSUME AFInv, UNCHANGED afVars PROVE AFInv'
  <2>1. AFTyped' /\ InTurn'
    BY <1>1 DEF afVars, AFInv, AFTyped, InTurn, Fresh
  <2> SUFFICES ASSUME clean', NEW d \in AFCalls, LastCall(d)' PROVE FilledBy(d)'
    BY <2>1 DEF AFInv, FilledInTurn
  <2>2. FilledBy(d)
    BY <1>1 DEF afVars, LastCall, AFInv, FilledInTurn
  <2>3. loop[d].phase # "failed" =>
          Filled(loop[d])' /\ Asks(loop[d])' /\ (still => Follows(loop[d])')
    BY <1>1, <2>2 DEF afVars, FilledBy, Filled, Asks, Follows, FirstSequence, Before
  <2> QED BY <1>1, <2>2, <2>3 DEF afVars, FilledBy, Active
<1> QED BY <1>1, StartFillingInv, TaskInv, IterateInv, LoopEndsInv, ServerAnswersInv,
           LoopRequestFailsInv, LoopContinuesInv, AccountMovesInv DEF AFNext

\* When a call of autofill that found no inner filled in returns, the inner transactions
\* have the Sequences that the ledger will want, for any accounts and inners, however
\* many calls failed before and however its tasks were scheduled.
THEOREM InnersAlwaysInOrder == AFSpec => []InnersInOrder
<1>1. AFInv => InnersInOrder
  <2> SUFFICES ASSUME AFInv, NEW c \in AFCalls, filling[c] = "returned", clean
               PROVE  /\ \A i, j \in Inners \ batch.tickets :
                           batch.account[i] = batch.account[j] =>
                             inner[j] - inner[i] = Cardinality(UpTo(j)) - Cardinality(UpTo(i))
                      /\ still => \A i \in Inners \ batch.tickets :
                           inner[i] = Cardinality(UpTo(i)) + IF batch.account[i] = Payer
                                                             THEN outer[c]
                                                             ELSE onLedger[batch.account[i]] - 1
    BY DEF InnersInOrder, InnersConsecutive, InnersFollowOuter, Returned
  <2>1. LastCall(c)
    BY AFAssumption, FS_CardinalityType DEF AFInv, InTurn, LastCall
  <2>2. PICK l \in Loops : l = loop[c]
    BY DEF AFInv, AFTyped
  <2>3. /\ l.phase = "done" /\ l.at \notin Inners /\ task[c]["sequence"] = "done"
        /\ AFTyped
    BY <2>2 DEF AFInv, InTurn, Tasks
  <2>4. Filled(l) /\ (still => Follows(l) /\ outer[c] = onLedger[Payer])
    BY <2>1, <2>2, <2>3 DEF AFInv, FilledInTurn, FilledBy
  <2>5. ASSUME NEW i \in Inners \ batch.tickets
        PROVE  /\ inner[i] \in Nat /\ batch.account[i] \in AFAccounts
               /\ l.sequences[batch.account[i]] \in Nat
               /\ Cardinality(Before(batch.account[i], l.at)) \in Nat
               /\ Cardinality(UpTo(i)) \in Nat
               /\ inner[i] + Cardinality(Before(batch.account[i], l.at)) + 1
                    = l.sequences[batch.account[i]] + Cardinality(UpTo(i))
               /\ l.sequences[batch.account[i]] # 0
    <3>1. i < l.at
      <4>1. l.at \in Nat /\ l.at # 0 /\ Cardinality(Inners) \in Nat
        BY AFAssumption, FS_CardinalityType DEF Loops
      <4> QED BY <2>3, <4>1, AFAssumption
    <3>2. /\ inner[i] \in Nat /\ batch.account[i] \in AFAccounts
          /\ l.sequences[batch.account[i]] \in Nat
      BY <2>3 DEF AFTyped, Loops
    <3>3. /\ Cardinality(Before(batch.account[i], l.at)) \in Nat
          /\ Cardinality(Before(batch.account[i], i)) \in Nat
          /\ Cardinality(UpTo(i)) = Cardinality(Before(batch.account[i], i)) + 1
      BY BeforeFacts
    <3>4. inner[i] + Cardinality(Before(batch.account[i], l.at))
            = l.sequences[batch.account[i]] + Cardinality(Before(batch.account[i], i))
      BY <2>4, <3>1 DEF Filled
    <3>5. i \in Before(batch.account[i], l.at)
      BY <3>1 DEF Before
    <3>6. l.sequences[batch.account[i]] # 0
      BY <2>4, <3>2, <3>5 DEF Filled
    <3> QED BY <3>2, <3>3, <3>4, <3>6
  <2>6. ASSUME NEW i \in Inners \ batch.tickets, NEW j \in Inners \ batch.tickets,
               batch.account[i] = batch.account[j]
        PROVE  inner[j] - inner[i] = Cardinality(UpTo(j)) - Cardinality(UpTo(i))
    BY <2>5, <2>6
  <2>7. ASSUME still, NEW i \in Inners \ batch.tickets
        PROVE  inner[i] = Cardinality(UpTo(i)) + IF batch.account[i] = Payer
                                                 THEN outer[c]
                                                 ELSE onLedger[batch.account[i]] - 1
    <3>1. l.sequences[batch.account[i]] = FirstSequence(batch.account[i], onLedger[batch.account[i]])
                                            + Cardinality(Before(batch.account[i], l.at))
      BY <2>4, <2>5, <2>7 DEF Follows
    <3>2. onLedger[batch.account[i]] \in Nat
      BY <2>3, <2>5 DEF AFTyped
    <3>3. CASE batch.account[i] = Payer
      BY <2>4, <2>5, <2>7, <3>1, <3>2, <3>3 DEF FirstSequence
    <3>4. CASE batch.account[i] # Payer
      BY <2>5, <3>1, <3>2, <3>4 DEF FirstSequence
    <3> QED BY <3>3, <3>4
  <2> QED BY <2>6, <2>7
<1> QED BY <1>1, AFInitInv, AFNextInv, PTL DEF AFSpec

-----------------------------------------------------------------------------
(* Balance changes.                                                        *)

\* Balances of some of the entries.
Balances(entries) == UNION {[T -> Int] : T \in SUBSET entries}
Ledgers == [drops : Balances(Holders), lines : Balances(Lines)]

MDInv == before \in Ledgers /\ after \in Ledgers

BalanceOf(f, x) == IF x \in DOMAIN f THEN f[x] ELSE 0

\* An entry that is added, changed or dropped leaves balances of some of the entries.
LEMMA BalancesStay ==
  ASSUME NEW S, NEW f \in Balances(S), NEW x \in S
  PROVE  (\A v \in Int : Put(f, x, v) \in Balances(S)) /\ Drop(f, x) \in Balances(S)
<1>1. PICK T \in SUBSET S : f \in [T -> Int]
  BY DEF Balances
<1>2. ASSUME NEW v \in Int PROVE Put(f, x, v) \in [T \cup {x} -> Int]
  BY <1>1 DEF Put
<1>3. Drop(f, x) \in [T \ {x} -> Int]
  BY <1>1 DEF Drop
<1>4. T \cup {x} \in SUBSET S /\ T \ {x} \in SUBSET S
  OBVIOUS
<1> QED BY <1>2, <1>3, <1>4 DEF Balances

\* A balance of an entry is a number.
LEMMA BalanceType ==
  ASSUME NEW S, NEW f \in Balances(S)
  PROVE  (\A x : BalanceOf(f, x) \in Int) /\ DOMAIN f \subseteq S
  BY DEF Balances, BalanceOf

\* Before the first step nothing has been computed.
LEMMA MDInitInv == MDInit => MDInv
<1> SUFFICES ASSUME MDInit PROVE before \in Ledgers
  BY DEF MDInit, MDInv
<1>1. PICK S \in SUBSET Holders, T \in SUBSET Lines :
        \E drops \in [S -> 0..MaxDrops], owed \in [T -> {-MaxLine, 0}] :
          before = [drops |-> drops, lines |-> owed]
  BY DEF MDInit
<1>2. PICK drops \in [S -> 0..MaxDrops], owed \in [T -> {-MaxLine, 0}] :
        before = [drops |-> drops, lines |-> owed]
  BY <1>1
<1>3. drops \in [S -> Int] /\ owed \in [T -> Int]
  <2>1. \A v \in 0..MaxDrops : v \in Int
    OBVIOUS
  <2>2. \A v \in {-MaxLine, 0} : v \in Int
    BY MetadataAssumption
  <2> QED BY <2>1, <2>2
<1>4. drops \in Balances(Holders) /\ owed \in Balances(Lines)
  BY <1>3 DEF Balances
<1> QED BY <1>2, <1>4 DEF Ledgers

\* Every step of the metadata keeps the invariant.
LEMMA MDNextInv == MDInv /\ [MDNext]_mdVars => MDInv'
<1> SUFFICES ASSUME MDInv, [MDNext]_mdVars PROVE MDInv'
  OBVIOUS
<1>1. before \in Ledgers /\ after \in Ledgers
  BY DEF MDInv
<1>2. after.drops \in Balances(Holders) /\ after.lines \in Balances(Lines)
  BY <1>1 DEF Ledgers
<1>3. ASSUME NEW f \in Balances(Holders), after' = [after EXCEPT !.drops = f], before' = before
      PROVE  MDInv'
  BY <1>1, <1>3 DEF MDInv, Ledgers
<1>4. ASSUME NEW f \in Balances(Lines), after' = [after EXCEPT !.lines = f], before' = before
      PROVE  MDInv'
  BY <1>1, <1>4 DEF MDInv, Ledgers
<1>5. ASSUME NEW a \in Holders, NEW v \in 0..MaxDrops, SetDrops(a, v) PROVE MDInv'
  <2>1. Put(after.drops, a, v) \in Balances(Holders)
    BY <1>2, BalancesStay
  <2> QED BY <1>3, <1>5, <2>1 DEF SetDrops
<1>6. ASSUME NEW a \in Holders, DeleteAccount(a) PROVE MDInv'
  <2>1. Drop(after.drops, a) \in Balances(Holders)
    BY <1>2, BalancesStay
  <2> QED BY <1>3, <1>6, <2>1 DEF DeleteAccount
<1>7. ASSUME NEW l \in Lines, NEW v \in {-MaxLine, 0, MaxLine}, SetLine(l, v) PROVE MDInv'
  <2>1. v \in Int
    BY MetadataAssumption
  <2>2. Put(after.lines, l, v) \in Balances(Lines)
    BY <1>2, <2>1, BalancesStay
  <2> QED BY <1>4, <1>7, <2>2 DEF SetLine
<1>8. ASSUME NEW l \in Lines, DeleteLine(l) PROVE MDInv'
  <2>1. Drop(after.lines, l) \in Balances(Lines)
    BY <1>2, BalancesStay
  <2> QED BY <1>4, <1>8, <2>1 DEF DeleteLine
<1>9. ASSUME NEW x, Touch(x) PROVE MDInv'
  BY <1>1, <1>9 DEF Touch, MDInv
<1>10. CASE UNCHANGED mdVars
  BY <1>1, <1>10 DEF mdVars, MDInv
<1> QED BY <1>5, <1>6, <1>7, <1>8, <1>9, <1>10 DEF MDNext

\* What is read out of the node of an entry is the change of its balance, and an entry
\* without a node has not changed.
LEMMA NodeFacts ==
  ASSUME NEW S, NEW old \in Balances(S), NEW new \in Balances(S), NEW others, NEW type, NEW x
  PROVE  /\ NodeOf(x, old, new, type).entry = x
         /\ x \in Affected(old, new, others) =>
              ComputeBalanceChange(NodeOf(x, old, new, type)) = BalanceOf(new, x) - BalanceOf(old, x)
         /\ x \notin Affected(old, new, others) => BalanceOf(new, x) - BalanceOf(old, x) = 0
         /\ x \in Affected(old, new, others) => x \in S
<1> DEFINE node == NodeOf(x, old, new, type)
<1>1. BalanceOf(old, x) \in Int /\ BalanceOf(new, x) \in Int /\ DOMAIN old \subseteq S /\ DOMAIN new \subseteq S
  BY BalanceType
<1>2. /\ node.entry = x
      /\ x \notin DOMAIN old =>
           /\ node.newBalance = <<BalanceOf(new, x)>> \/ (node.newBalance = <<>> /\ BalanceOf(new, x) = 0)
           /\ node.previousBalance = <<>>
      /\ x \in DOMAIN old =>
           /\ node.newBalance = <<>> /\ node.finalBalance = <<BalanceOf(new, x)>>
           /\ node.previousBalance = IF BalanceOf(old, x) # BalanceOf(new, x)
                                     THEN <<BalanceOf(old, x)>> ELSE <<>>
  BY DEF NodeOf, BalanceOf
<1> HIDE DEF node
<1>3. \A v : <<v>> # <<>> /\ <<v>>[1] = v
  OBVIOUS
<1>4. CASE x \notin DOMAIN old
  <2>1. BalanceOf(old, x) = 0
    BY <1>4 DEF BalanceOf
  <2>2. ComputeBalanceChange(node) = BalanceOf(new, x)
    BY <1>2, <1>3, <1>4 DEF ComputeBalanceChange
  <2>3. x \notin Affected(old, new, others) => BalanceOf(new, x) = 0
    BY <1>4 DEF Affected, BalanceOf
  <2>4. x \in Affected(old, new, others) => x \in S
    BY <1>1 DEF Affected
  <2> QED BY <1>1, <1>2, <2>1, <2>2, <2>3, <2>4 DEF node
<1>5. CASE x \in DOMAIN old
  <2>1. ComputeBalanceChange(node) = BalanceOf(new, x) - BalanceOf(old, x)
    BY <1>1, <1>2, <1>3, <1>5 DEF ComputeBalanceChange
  <2>2. x \notin Affected(old, new, others) => BalanceOf(new, x) = BalanceOf(old, x)
    BY <1>5 DEF Affected, BalanceOf
  <2>3. x \in S
    BY <1>1, <1>5
  <2> QED BY <1>1, <1>2, <2>1, <2>2, <2>3 DEF node
<1> QED BY <1>4, <1>5

\* The changes of the balances, by definition.
XRPChange(a) == [account |-> a, issuer |-> <<>>, currency |-> <<>>, value |-> DropsChange(a)]
LowChange(l) == [account |-> l.low, issuer |-> <<l.high>>, currency |-> <<l.currency>>,
                 value |-> LineChange(l)]
HighChange(l) == [account |-> l.high, issuer |-> <<l.low>>, currency |-> <<l.currency>>,
                  value |-> -LineChange(l)]

\* The quantities of the metadata are the changes that are not zero: none is missing,
\* and none is made up.
LEMMA QuantitiesFacts ==
  ASSUME MDInv, NEW q
  PROVE  q \in Quantities <=>
           /\ q.value # 0
           /\ \/ \E a \in Holders : q = XRPChange(a)
              \/ \E l \in Lines : q = LowChange(l) \/ q = HighChange(l)
<1> DEFINE affectedDrops == Affected(before.drops, after.drops, {})
           affectedLines == Affected(before.lines, after.lines, touched)
           drops(x) == NodeOf(x, before.drops, after.drops, "AccountRoot")
           line(x) == NodeOf(x, before.lines, after.lines, "RippleState")
<1>1. /\ before.drops \in Balances(Holders) /\ after.drops \in Balances(Holders)
      /\ before.lines \in Balances(Lines) /\ after.lines \in Balances(Lines)
  BY DEF MDInv, Ledgers
<1>2. /\ \A a : DropsChange(a) = BalanceOf(after.drops, a) - BalanceOf(before.drops, a)
      /\ \A l : LineChange(l) = BalanceOf(after.lines, l) - BalanceOf(before.lines, l)
  BY DEF DropsChange, LineChange, BalanceOf
<1>3. \A x : /\ drops(x).entry = x
             /\ x \in affectedDrops =>
                  x \in Holders /\ ComputeBalanceChange(drops(x)) = DropsChange(x)
             /\ x \notin affectedDrops => DropsChange(x) = 0
  BY <1>1, <1>2, NodeFacts
<1>4. \A x : /\ line(x).entry = x
             /\ x \in affectedLines =>
                  x \in Lines /\ ComputeBalanceChange(line(x)) = LineChange(x)
             /\ x \notin affectedLines => LineChange(x) = 0
  BY <1>1, <1>2, NodeFacts
<1>5. \A x \in affectedDrops : XRPQuantity(drops(x)) = {XRPChange(x)}
  BY <1>3 DEF XRPQuantity, XRPChange
<1>6. \A x \in affectedLines : TrustlineQuantity(line(x)) = {LowChange(x), HighChange(x)}
  <2> SUFFICES ASSUME NEW x \in affectedLines
               PROVE TrustlineQuantity(line(x)) = {LowChange(x), HighChange(x)}
    OBVIOUS
  <2>1. ComputeBalanceChange(line(x)) = LineChange(x) /\ line(x).entry = x
    BY <1>4
  <2> HIDE DEF line
  <2>2. FlipTrustlinePerspective(LowChange(x)) = HighChange(x)
    <3> DEFINE v == LineChange(x)
               q0 == [account |-> x.low, issuer |-> <<x.high>>, currency |-> <<x.currency>>, value |-> v]
    <3>1. <<x.high>>[1] = x.high
      OBVIOUS
    <3>2. LowChange(x) = q0 /\ HighChange(x) = [account |-> x.high, issuer |-> <<x.low>>,
                                               currency |-> <<x.currency>>, value |-> -v]
      BY DEF LowChange, HighChange
    <3>5. v \in Int
      BY <1>1, <1>2, BalanceType
    <3> HIDE DEF v
    <3>3. q0.issuer[1] = x.high /\ q0.account = x.low /\ q0.value = v
      BY <3>1
    <3>4. FlipTrustlinePerspective(q0) = [account |-> x.high, issuer |-> <<x.low>>,
                                          currency |-> <<x.currency>>, value |-> -v]
      <4>1. FlipTrustlinePerspective(q0) =
              [q0 EXCEPT !.account = x.high, !.issuer = <<x.low>>, !.value = -v]
        BY <3>3 DEF FlipTrustlinePerspective
      <4> QED BY <4>1
    <3> QED BY <3>2, <3>4
  <2>3. TrustlineQuantity(line(x)) = {LowChange(x), FlipTrustlinePerspective(LowChange(x))}
    BY <2>1 DEF TrustlineQuantity, LowChange
  <2> QED BY <2>2, <2>3
<1>7. q \in Quantities <=>
        /\ q.value # 0
        /\ \/ \E x \in affectedDrops : q \in XRPQuantity(drops(x))
           \/ \E x \in affectedLines : q \in TrustlineQuantity(line(x))
  BY DEF Quantities, AccountNodes, LineNodes
<1> HIDE DEF affectedDrops, affectedLines, drops, line
<1>8. ASSUME NEW a \in Holders, q = XRPChange(a), q.value # 0 PROVE a \in affectedDrops
  <2>1. q.value = DropsChange(a)
    BY <1>8 DEF XRPChange
  <2> QED BY <1>3, <1>8, <2>1
<1>9. ASSUME NEW l \in Lines, q = LowChange(l) \/ q = HighChange(l), q.value # 0
      PROVE  l \in affectedLines
  <2>1. q.value = LineChange(l) \/ q.value = -LineChange(l)
    BY <1>9 DEF LowChange, HighChange
  <2>2. LineChange(l) \in Int /\ \A v \in Int : -v # 0 => v # 0
    BY <1>1, <1>2, BalanceType
  <2> QED BY <1>4, <1>9, <2>1, <2>2
<1> QED BY <1>3, <1>4, <1>5, <1>6, <1>7, <1>8, <1>9

\* getBalanceChanges lists for every account exactly the balances that changed, for any
\* accounts, trust lines and transaction.
THEOREM BalanceChangesAlwaysRight == MDSpec => []BalanceChangesAreRight
<1>1. MDInv => BalanceChangesAreRight
  <2> SUFFICES ASSUME MDInv, NEW a \in Holders
               PROVE  (IF a \in DOMAIN GetBalanceChanges THEN GetBalanceChanges[a] ELSE {})
                       = {q \in {[account |-> a, issuer |-> <<>>, currency |-> <<>>,
                                  value |-> DropsChange(a)]}
                                \cup {[account |-> a, issuer |-> <<l.high>>,
                                       currency |-> <<l.currency>>,
                                       value |-> LineChange(l)] : l \in {k \in Lines : k.low = a}}
                                \cup {[account |-> a, issuer |-> <<l.low>>,
                                       currency |-> <<l.currency>>,
                                       value |-> -LineChange(l)] : l \in {k \in Lines : k.high = a}}
                            : q.value # 0}
    BY DEF BalanceChangesAreRight
  <2> DEFINE listed == IF a \in DOMAIN GetBalanceChanges THEN GetBalanceChanges[a] ELSE {}
             xrp == {[account |-> a, issuer |-> <<>>, currency |-> <<>>, value |-> DropsChange(a)]}
             low == {[account |-> a, issuer |-> <<l.high>>, currency |-> <<l.currency>>,
                      value |-> LineChange(l)] : l \in {k \in Lines : k.low = a}}
             high == {[account |-> a, issuer |-> <<l.low>>, currency |-> <<l.currency>>,
                       value |-> -LineChange(l)] : l \in {k \in Lines : k.high = a}}
  <2>1. listed = {q \in Quantities : q.account = a}
    BY DEF GetBalanceChanges
  <2>2. xrp = {XRPChange(a)}
    BY DEF XRPChange
  <2>3. low = {LowChange(l) : l \in {k \in Lines : k.low = a}}
    BY DEF LowChange
  <2>4. high = {HighChange(l) : l \in {k \in Lines : k.high = a}}
    BY DEF HighChange
  <2> HIDE DEF listed, xrp, low, high
  <2>5. /\ \A b : XRPChange(b).account = b
        /\ \A l : LowChange(l).account = l.low /\ HighChange(l).account = l.high
    BY DEF XRPChange, LowChange, HighChange
  <2>6. listed = {q \in xrp \cup low \cup high : q.value # 0}
    <3> SUFFICES ASSUME NEW q
                 PROVE  q \in listed <=> q \in xrp \cup low \cup high /\ q.value # 0
      OBVIOUS
    <3>1. q \in listed <=> q \in Quantities /\ q.account = a
      BY <2>1
    <3>2. q \in xrp <=> q = XRPChange(a)
      BY <2>2
    <3>3. q \in low <=> \E l \in Lines : l.low = a /\ q = LowChange(l)
      BY <2>3
    <3>4. q \in high <=> \E l \in Lines : l.high = a /\ q = HighChange(l)
      BY <2>4
    <3>5. q \in Quantities <=>
            /\ q.value # 0
            /\ \/ \E b \in Holders : q = XRPChange(b)
               \/ \E l \in Lines : q = LowChange(l) \/ q = HighChange(l)
      BY QuantitiesFacts
    <3>6. ASSUME q \in listed PROVE q \in xrp \cup low \cup high /\ q.value # 0
      BY <2>5, <3>1, <3>2, <3>3, <3>4, <3>5, <3>6
    <3>7. ASSUME q \in xrp \cup low \cup high, q.value # 0 PROVE q \in listed
      <4>1. q.account = a
        BY <2>5, <3>2, <3>3, <3>4, <3>7
      <4>2. q \in Quantities
        BY <3>2, <3>3, <3>4, <3>5, <3>7
      <4> QED BY <3>1, <4>1, <4>2
    <3> QED BY <3>6, <3>7
  <2> QED BY <2>6 DEF listed, xrp, low, high
<1> QED BY <1>1, MDInitInv, MDNextInv, PTL DEF MDSpec

-----------------------------------------------------------------------------
(* Fees.                                                                   *)

\* Products of naturals, one fact at a time.
LEMMA Times ==
  ASSUME NEW a \in Nat, NEW b \in Nat, NEW c \in Nat
  PROVE  /\ a * c \in Nat /\ c * a = a * c
         /\ a * (b + c) = a * b + a * c /\ (b + c) * a = b * a + c * a
         /\ a <= b => a * c <= b * c
         /\ c # 0 => a <= a * c
<1>1. a * c \in Nat /\ c * a = a * c
  BY SMT
<1>2. a * (b + c) = a * b + a * c /\ (b + c) * a = b * a + c * a
  BY SMT
<1>3. a <= b => a * c <= b * c
  BY SMT
<1>4. c # 0 => a <= a * c
  BY SMT
<1> QED BY <1>1, <1>2, <1>3, <1>4

\* Rounding up sixteenths leaves whole drops alone, keeps the order and loses nothing.
LEMMA RoundedUp ==
  ASSUME NEW a \in Nat, NEW b \in Nat
  PROVE  /\ CeilDiv(a, 16) \in Nat
         /\ a <= b => CeilDiv(a, 16) <= CeilDiv(b, 16)
         /\ CeilDiv(16 * a + b, 16) = a + CeilDiv(b, 16)
         /\ CeilDiv(16 * a, 16) = a
         /\ a <= 16 * CeilDiv(a, 16)
  BY DEF CeilDiv

\* The smaller of two numbers.
LEMMA LeastOfTwo ==
  ASSUME NEW a \in Nat, NEW b \in Nat
  PROVE  Min({a, b}) = IF a <= b THEN a ELSE b
  BY DEF Min

\* Quotients by the same number are ordered as what is divided.
LEMMA DivMonotone ==
  ASSUME NEW n \in Nat, NEW m \in Nat, n <= m, NEW a \in Nat \ {0}
  PROVE  n \div a <= m \div a
<1>1. PICK p, q, r : p = n \div a /\ q = m \div a /\ r = m % a
  OBVIOUS
<1>2. p \in Nat /\ a * p <= n
  BY <1>1, DivLess
<1>3. q \in Nat /\ r \in 0..(a - 1) /\ m = a * q + r
  <2>1. m \div a \in Nat
    BY DivLess
  <2>2. m % a \in 0..(a - 1) /\ m = a * (m \div a) + (m % a)
    BY Division
  <2> QED BY <1>1, <2>1, <2>2
<1>4. q < p => a * q + a <= a * p
  BY <1>2, <1>3, Products
<1>5. a * p \in Int /\ a * q \in Int
  BY <1>2, <1>3, Products
<1>6. ~(q < p)
  BY <1>2, <1>3, <1>4, <1>5
<1> QED BY <1>1, <1>2, <1>3, <1>6

\* The constants are numbers.
LEMMA FeeConstants ==
  /\ BaseFee \in Nat /\ Cushion \in Nat /\ Reserve \in Nat /\ MaxFee \in Nat
  /\ Unity \in Nat \ {0} /\ LoadFactors \subseteq Nat
  BY FeeAssumption

\* A rounded net fee grows with the load; one that a cushion raises by half a drop or
\* more is no less than what it was without the cushion.
LEMMA RoundedFacts ==
  ASSUME NEW l \in Nat
  PROVE  /\ Rounded(l) \in Nat
         /\ \A m \in Nat : l <= m => Rounded(l) <= Rounded(m)
         /\ 2 * BaseFee * l * (Cushion - Unity) >= Unity * Unity => BaseFee * l <= Unity * Rounded(l)
<1>1. PICK uu, a : uu = Unity * Unity /\ a = 2 * Unity * Unity
  OBVIOUS
<1>2. uu \in Nat \ {0} /\ a = 2 * uu /\ a \in Nat \ {0}
  <2>1. Unity * Unity \in Nat /\ Unity <= Unity * Unity /\ (2 * Unity) * Unity = 2 * (Unity * Unity)
    BY FeeConstants, Times, Products
  <2> QED BY <1>1, <2>1, FeeConstants
<1>3. PICK bc : bc = 2 * BaseFee * Cushion
  OBVIOUS
<1>4. bc \in Nat
  <2>1. 2 * BaseFee \in Nat
    BY FeeConstants
  <2> QED BY <1>3, <2>1, FeeConstants, Times
<1>5. ASSUME NEW m \in Nat PROVE Rounded(m) = (m * bc + uu) \div a /\ m * bc \in Nat
  BY <1>1, <1>3, <1>4, <1>5, Times DEF Rounded
<1>6. Rounded(l) \in Nat
  BY <1>2, <1>5, DivLess
<1>7. ASSUME NEW m \in Nat, l <= m PROVE Rounded(l) <= Rounded(m)
  <2>1. l * bc <= m * bc /\ l * bc \in Nat /\ m * bc \in Nat
    BY <1>4, <1>7, Times
  <2>2. l * bc + uu <= m * bc + uu /\ l * bc + uu \in Nat /\ m * bc + uu \in Nat
    BY <1>2, <2>1
  <2>3. (l * bc + uu) \div a <= (m * bc + uu) \div a
    BY <1>2, <2>2, DivMonotone
  <2> QED BY <1>5, <2>3
<1>8. ASSUME 2 * BaseFee * l * (Cushion - Unity) >= Unity * Unity
      PROVE  BaseFee * l <= Unity * Rounded(l)
  <2>1. PICK x : x = BaseFee * l
    OBVIOUS
  <2>2. PICK r : r = Rounded(l)
    OBVIOUS
  <2>3. x \in Nat /\ r \in Nat
    BY <1>6, <2>1, <2>2, FeeConstants, Times
  <2>4. l * bc = 2 * (x * Cushion)
    <3>1. bc = 2 * (BaseFee * Cushion)
      BY <1>3, FeeConstants, Products
    <3>2. l * bc = 2 * (l * (BaseFee * Cushion))
      <4>1. PICK y : y = BaseFee * Cushion
        OBVIOUS
      <4>2. y \in Nat
        BY <4>1, FeeConstants, Times
      <4>3. l * (2 * y) = 2 * (l * y)
        BY <4>2, SMT
      <4> QED BY <3>1, <4>1, <4>3
    <3>3. l * (BaseFee * Cushion) = (l * BaseFee) * Cushion /\ l * BaseFee = x
      BY <2>1, FeeConstants, Products
    <3> QED BY <3>2, <3>3
  <2>5. (2 * BaseFee) * l * (Cushion - Unity) = 2 * (x * Cushion) - 2 * (x * Unity)
    <3>1. (2 * BaseFee) * l = 2 * x
      BY <2>1, FeeConstants, Products
    <3>2. /\ (2 * x) * (Cushion - Unity) = (2 * x) * Cushion - (2 * x) * Unity
          /\ (2 * x) * Cushion = 2 * (x * Cushion) /\ (2 * x) * Unity = 2 * (x * Unity)
      <4>1. 2 * x \in Int
        BY <2>3
      <4> QED BY <2>3, <4>1, FeeConstants, Products
    <3> QED BY <3>1, <3>2
  <2>6. PICK c, v : c = x * Cushion /\ v = x * Unity
    OBVIOUS
  <2>7. c \in Nat /\ v \in Nat /\ 2 * c >= 2 * v + uu
    <3>1. c \in Nat /\ v \in Nat
      BY <2>3, <2>6, FeeConstants, Times
    <3>2. 2 * c - 2 * v >= uu
      BY <1>1, <1>8, <2>5, <2>6
    <3> QED BY <1>2, <3>1, <3>2
  <2>8. PICK s : s = (2 * c + uu) % a
    OBVIOUS
  <2>9. 2 * c + uu = a * r + s /\ s \in Int /\ s < a /\ a * r \in Int
    <3>1. r = (2 * c + uu) \div a
      BY <1>5, <2>2, <2>4, <2>6
    <3>2. PICK z : z = 2 * c + uu
      OBVIOUS
    <3>3. z \in Int
      BY <1>2, <2>7, <3>2
    <3>4. z % a \in 0..(a - 1) /\ z = a * (z \div a) + (z % a)
      BY <1>2, <3>3, Division
    <3>5. a * r \in Int
      BY <1>2, <2>3, Products
    <3> QED BY <1>2, <2>8, <3>1, <3>2, <3>4, <3>5
  <2>10. 2 * v + 2 * uu < a * r + a
    BY <1>2, <2>7, <2>9
  <2>11. v < uu * r
    <3>1. a * r = 2 * (uu * r) /\ uu * r \in Nat
      <4>1. (2 * uu) * r = 2 * (uu * r) /\ uu * r \in Nat
        BY <1>2, <2>3, Products, Times
      <4> QED BY <1>2, <4>1
    <3> QED BY <1>2, <2>7, <2>10, <3>1
  <2>12. Unity * x < Unity * (Unity * r)
    BY <1>1, <2>3, <2>6, <2>11, FeeConstants, Products
  <2>13. Unity * r \in Nat
    BY <2>3, FeeConstants, Times
  <2>14. ~(Unity * r < x)
    <3>1. Unity * r < x => Unity * (Unity * r) + Unity <= Unity * x
      BY <2>3, <2>13, FeeConstants, Products
    <3>2. Unity * x \in Nat /\ Unity * (Unity * r) \in Nat
      BY <2>3, <2>13, FeeConstants, Times
    <3> QED BY <2>12, <3>1, <3>2, FeeConstants
  <2> QED BY <2>1, <2>2, <2>3, <2>13, <2>14
<1> QED BY <1>6, <1>7, <1>8

\* The net fee of every load met is at most, at least so many drops, but for the limit.
AtMost(unit) == \A m \in sawLoads : Rounded(m) <= unit
AtLeast(unit) == \A m \in sawLoads : Rounded(m) >= unit

\* What the inners before the n-th cost, without the client's limit.
InnersCost(n, unit) ==
  SumFunctionOnSet([k \in DOMAIN asked.inners |-> Cost(asked.inners[k], unit)], 1..(n - 1))

FeeTyped ==
  /\ asked \in Requests
  /\ asked.type # "Batch" => asked.inners = <<>>
  /\ load \in sawLoads /\ sawLoads \subseteq LoadFactors /\ IsFiniteSet(sawLoads)
  /\ {net, innerNet, fee} \subseteq Sizes /\ rawTxFees \in Nat
  /\ level \in 0..(Len(asked.inners) + 1)

\* Every level is at its own load, and the inners cost what they do at loads between
\* the lowest and the highest, unless the limit has cut one of them.
LevelsInStep ==
  /\ net = None => level = 0 /\ innerNet = None
  /\ net # None => /\ \E l \in sawLoads : net = GetFee(l)
                   /\ asked.type = "Batch" => level >= 1
                   /\ asked.type # "Batch" => level = 0
  /\ innerNet # None => /\ level \in DOMAIN asked.inners
                        /\ \E l \in sawLoads : innerNet = GetFee(l)
  /\ level = 0 => rawTxFees = 0
  /\ \A unit \in Nat : level >= 1 =>
       /\ AtMost(unit) => rawTxFees <= InnersCost(level, unit)
       /\ AtLeast(unit) => rawTxFees >= MaxFee \/ rawTxFees >= InnersCost(level, unit)

FeeInv == FeeTyped /\ LevelsInStep /\ FeeIsBetween /\ LimitHolds

\* A transaction that is charged.
IsCharged(t) == t.type \in Kinds /\ t.fulfillment \in Sizes

\* Types of what a request is made of.
LEMMA RequestFacts ==
  ASSUME FeeTyped
  PROVE  /\ IsCharged(asked)
         /\ DOMAIN asked.inners = 1..Len(asked.inners) /\ Len(asked.inners) \in Nat
         /\ \A k \in DOMAIN asked.inners : IsCharged(asked.inners[k]) /\ asked.inners[k].type # "Batch"
         /\ asked.signers \in Nat /\ asked.sponsors \in Nat /\ asked.counterparty \in Nat
         /\ asked.signers + asked.sponsors \in Nat
<1> DEFINE InnerType == [type : Kinds \ {"Batch"}, fulfillment : Sizes]
<1>1. /\ asked.type \in Kinds /\ asked.fulfillment \in Sizes /\ asked.inners \in Seq(InnerType)
      /\ asked.signers \in Nat /\ asked.sponsors \in Nat /\ asked.counterparty \in Nat
  <2> HIDE DEF Sizes
  <2> QED BY FeeAssumption DEF FeeTyped, Requests
<1>2. /\ DOMAIN asked.inners = 1..Len(asked.inners) /\ Len(asked.inners) \in Nat
      /\ \A k \in DOMAIN asked.inners : asked.inners[k] \in InnerType
  <2> HIDE DEF InnerType
  <2> QED BY <1>1
<1>3. \A t \in InnerType : IsCharged(t) /\ t.type # "Batch"
  BY DEF IsCharged
<1> QED BY <1>1, <1>2, <1>3 DEF IsCharged

\* What a transaction pays is a whole number of sixteenths: none if its cost is
\* special, else those of a base fee or more.
LEMMA SixteenthsFacts ==
  ASSUME FeeTyped, NEW t, IsCharged(t)
  PROVE  /\ Sixteenths(t) \in Nat
         /\ IF t.type = "special" THEN Sixteenths(t) = 0 ELSE Sixteenths(t) >= 16
<1>1. asked.counterparty \in Nat
  BY RequestFacts
<1>2. t.fulfillment # None => t.fulfillment \in Nat
  BY DEF IsCharged, Sizes
<1> QED BY <1>1, <1>2 DEF Sixteenths

\* A cost grows with the base fee, and is at least one unless it is special.
LEMMA CostFacts ==
  ASSUME FeeTyped, NEW t, IsCharged(t), NEW n \in Nat, NEW m \in Nat
  PROVE  /\ Cost(t, n) \in Nat
         /\ n <= m => Cost(t, n) <= Cost(t, m)
         /\ IF t.type = "special" THEN Cost(t, n) = Reserve ELSE n <= Cost(t, n)
<1>1. PICK w : w = Sixteenths(t)
  OBVIOUS
<1>2. w \in Nat /\ (t.type # "special" => w >= 16)
  BY <1>1, SixteenthsFacts
<1>3. n * w \in Nat /\ m * w \in Nat /\ (n <= m => n * w <= m * w) /\ Reserve \in Nat
  BY <1>2, Times, FeeConstants
<1>4. CASE t.type = "special"
  BY <1>3, <1>4 DEF Cost
<1>5. CASE t.type # "special"
  <2>1. Cost(t, n) = CeilDiv(n * w, 16) /\ Cost(t, m) = CeilDiv(m * w, 16)
    BY <1>1, <1>5 DEF Cost
  <2>2. 16 * n \in Nat /\ 16 * n <= n * w
    <3>1. 16 * n <= w * n /\ w * n = n * w
      BY <1>2, <1>5, Times
    <3> QED BY <3>1
  <2>3. n <= CeilDiv(n * w, 16)
    BY <1>3, <2>2, RoundedUp
  <2>4. /\ CeilDiv(n * w, 16) \in Nat
        /\ n * w <= m * w => CeilDiv(n * w, 16) <= CeilDiv(m * w, 16)
    BY <1>3, RoundedUp
  <2> QED BY <1>3, <1>5, <2>1, <2>3, <2>4
<1> QED BY <1>4, <1>5

\* The net fee is that of a load, or the limit.
LEMMA NetFeeFacts ==
  ASSUME NEW m \in LoadFactors, NEW unit \in Nat
  PROVE  /\ GetFee(m) \in Nat
         /\ Rounded(m) <= unit => GetFee(m) <= unit
         /\ Rounded(m) >= unit => GetFee(m) = MaxFee \/ GetFee(m) >= unit
<1>1. Rounded(m) \in Nat /\ MaxFee \in Nat
  BY FeeConstants, RoundedFacts
<1>2. GetFee(m) = IF Rounded(m) <= MaxFee THEN Rounded(m) ELSE MaxFee
  BY <1>1, LeastOfTwo DEF GetFee
<1> QED BY <1>1, <1>2

\* Sums over the inners before the n-th.
LEMMA InnerSums ==
  ASSUME FeeTyped, NEW f, \A k \in DOMAIN asked.inners : f[k] \in Nat
  PROVE  /\ SumFunctionOnSet(f, 1..0) = 0
         /\ \A n \in 0..Len(asked.inners) : SumFunctionOnSet(f, 1..n) \in Nat
         /\ \A n \in DOMAIN asked.inners :
              SumFunctionOnSet(f, 1..n) = SumFunctionOnSet(f, 1..(n - 1)) + f[n]
<1>1. /\ DOMAIN asked.inners = 1..Len(asked.inners) /\ Len(asked.inners) \in Nat
  BY RequestFacts
<1>2. SumFunctionOnSet(f, 1..0) = 0
  <2>1. 1..0 = {}
    OBVIOUS
  <2> QED BY <2>1, SumEmpty
<1>3. ASSUME NEW n \in 0..Len(asked.inners)
      PROVE  IsFiniteSet(1..n) /\ (\A k \in 1..n : f[k] \in Nat) /\ SumFunctionOnSet(f, 1..n) \in Nat
  <2>1. IsFiniteSet(1..n)
    BY <1>1, FS_Interval
  <2>2. \A k \in 1..n : f[k] \in Nat
    BY <1>1
  <2> QED BY <2>1, <2>2, SumType
<1>4. ASSUME NEW n \in DOMAIN asked.inners
      PROVE  SumFunctionOnSet(f, 1..n) = SumFunctionOnSet(f, 1..(n - 1)) + f[n]
  <2>1. n \in Nat /\ n - 1 \in 0..Len(asked.inners) /\ n \in 0..Len(asked.inners)
    BY <1>1
  <2>2. 1..n = 1..(n - 1) \cup {n} /\ n \notin 1..(n - 1)
    BY <1>1, <2>1
  <2>3. IsFiniteSet(1..(n - 1)) /\ \A k \in 1..(n - 1) \cup {n} : f[k] \in Nat
    BY <1>3, <2>1, <2>2
  <2>4. SumFunctionOnSet(f, 1..(n - 1) \cup {n}) = SumFunctionOnSet(f, 1..(n - 1)) + f[n]
    BY <2>2, <2>3, SumAddElement
  <2> QED BY <2>2, <2>4
<1> QED BY <1>2, <1>3, <1>4

\* The inners before the next cost what those before the n-th do, and the n-th.
LEMMA InnersCostFacts ==
  ASSUME FeeTyped, NEW unit \in Nat
  PROVE  /\ InnersCost(1, unit) = 0
         /\ \A n \in 1..(Len(asked.inners) + 1) : InnersCost(n, unit) \in Nat
         /\ \A n \in DOMAIN asked.inners :
              InnersCost(n + 1, unit) = InnersCost(n, unit) + Cost(asked.inners[n], unit)
<1>1. PICK f : f = [k \in DOMAIN asked.inners |-> Cost(asked.inners[k], unit)]
  OBVIOUS
<1>2. \A n : InnersCost(n, unit) = SumFunctionOnSet(f, 1..(n - 1))
  BY <1>1 DEF InnersCost
<1>3. \A k \in DOMAIN asked.inners : f[k] \in Nat /\ f[k] = Cost(asked.inners[k], unit)
  BY <1>1, RequestFacts, CostFacts
<1>4. DOMAIN asked.inners = 1..Len(asked.inners) /\ Len(asked.inners) \in Nat
  BY RequestFacts
<1>5. InnersCost(1, unit) = 0
  BY <1>2, <1>3, InnerSums
<1>6. ASSUME NEW n \in 1..(Len(asked.inners) + 1) PROVE InnersCost(n, unit) \in Nat
  <2>1. n - 1 \in 0..Len(asked.inners)
    BY <1>4
  <2> QED BY <1>2, <1>3, <2>1, InnerSums
<1>7. ASSUME NEW n \in DOMAIN asked.inners
      PROVE  InnersCost(n + 1, unit) = InnersCost(n, unit) + Cost(asked.inners[n], unit)
  <2>1. (n + 1) - 1 = n
    BY <1>4
  <2>2. SumFunctionOnSet(f, 1..n) = SumFunctionOnSet(f, 1..(n - 1)) + f[n]
    BY <1>3, InnerSums
  <2> QED BY <1>2, <1>3, <2>1, <2>2
<1> QED BY <1>5, <1>6, <1>7

\* What a level costs: itself, the fees of the inners and a net fee for every signer.
Uncut(t, n, inners, signers) == Cost(t, n) + inners + n * signers

\* It pays that, up to the limit.
LEMMA LevelFeeFacts ==
  ASSUME FeeTyped, NEW t, IsCharged(t), NEW n \in Nat, NEW inners \in Nat, NEW signers \in Nat,
         t.type # "Batch" => inners = 0
  PROVE  /\ Uncut(t, n, inners, signers) \in Nat
         /\ LevelFee(t, n, inners, signers) =
              IF t.type # "special" /\ MaxFee <= Uncut(t, n, inners, signers)
              THEN MaxFee ELSE Uncut(t, n, inners, signers)
<1> SUFFICES ASSUME NEW x, x = Uncut(t, n, inners, signers)
             PROVE  /\ x \in Nat
                    /\ LevelFee(t, n, inners, signers) =
                         IF t.type # "special" /\ MaxFee <= x THEN MaxFee ELSE x
  OBVIOUS
<1>1. PICK w, c, p : w = Sixteenths(t) /\ c = asked.counterparty /\ p = n * signers
  OBVIOUS
<1>2. /\ w \in Nat /\ c \in Nat /\ p \in Nat /\ n * w \in Nat /\ n * c \in Nat
      /\ MaxFee \in Nat /\ Reserve \in Nat
  <2>1. w \in Nat /\ c \in Nat
    BY <1>1, SixteenthsFacts, RequestFacts
  <2> QED BY <1>1, <2>1, FeeConstants, Times
<1>3. Cost(t, n) \in Nat
  BY CostFacts
<1>4. x \in Nat /\ x = Cost(t, n) + inners + p
  BY <1>1, <1>2, <1>3 DEF Uncut
<1>5. PICK all : all = BaseCost(t, n, inners)
                         + 16 * n * (signers + IF t.type = "LoanSet" THEN c ELSE 0)
  OBVIOUS
<1>6. LevelFee(t, n, inners, signers) = LimitedCost(t.type, all)
  BY <1>1, <1>5 DEF LevelFee
<1>7. 16 * n * (signers + 0) = 16 * p /\ 16 * n * (signers + c) = 16 * p + 16 * (n * c)
  <2>1. 16 * n \in Nat /\ signers + 0 = signers
    OBVIOUS
  <2>2. (16 * n) * signers = 16 * (n * signers) /\ (16 * n) * c = 16 * (n * c)
    BY <1>2, Products
  <2>3. (16 * n) * (signers + c) = (16 * n) * signers + (16 * n) * c
    BY <1>2, <2>1, Products
  <2> QED BY <1>1, <2>1, <2>2, <2>3
<1>8. CASE t.type = "special"
  <2>1. all = 16 * (Reserve + p) /\ x = Reserve + p
    BY <1>2, <1>4, <1>5, <1>7, <1>8 DEF BaseCost, Cost
  <2>2. CeilDiv(16 * x, 16) = x
    BY <1>4, RoundedUp
  <2> QED BY <1>4, <1>6, <1>8, <2>1, <2>2 DEF LimitedCost
<1>9. CASE t.type # "special"
  <2>1. all = 16 * (inners + p) + n * w
    <3>1. CASE t.type = "Batch"
      <4>1. all = 16 * (2 * n + inners) + 16 * p /\ w = 32
        BY <1>1, <1>5, <1>7, <3>1 DEF BaseCost, Sixteenths
      <4> QED BY <1>2, <4>1
    <3>2. CASE t.type = "confidential"
      <4>1. all = 16 * 10 * n + 16 * p /\ w = 160
        BY <1>1, <1>5, <1>7, <3>2 DEF BaseCost, Sixteenths
      <4> QED BY <1>2, <3>2, <4>1
    <3>3. CASE t.type = "LoanSet"
      <4>1. all = 16 * n + (16 * p + 16 * (n * c)) /\ w = 16 * (1 + c)
        BY <1>1, <1>5, <1>7, <3>3 DEF BaseCost, Sixteenths
      <4>2. n * w = 16 * n + 16 * (n * c)
        <5>1. w = 16 + 16 * c /\ 16 * c \in Nat
          BY <1>2, <4>1
        <5>2. n * (16 + 16 * c) = n * 16 + n * (16 * c)
          BY <5>1, Products
        <5>3. n * (16 * c) = 16 * (n * c)
          BY <1>2, SMT
        <5> QED BY <5>1, <5>2, <5>3
      <4> QED BY <1>2, <3>3, <4>1, <4>2
    <3>4. CASE t.type = "EscrowFinish" /\ t.fulfillment # None
      <4>1. all = n * (16 * 33 + t.fulfillment) + 16 * p /\ w = 16 * 33 + t.fulfillment
        BY <1>1, <1>5, <1>7, <3>4 DEF BaseCost, Sixteenths
      <4> QED BY <1>2, <3>4, <4>1
    <3>5. CASE /\ t.type \notin {"special", "Batch", "confidential", "LoanSet"}
               /\ ~(t.type = "EscrowFinish" /\ t.fulfillment # None)
      <4>1. all = 16 * n + 16 * p /\ w = 16
        BY <1>1, <1>5, <1>7, <3>5 DEF BaseCost, Sixteenths
      <4> QED BY <1>2, <3>5, <4>1
    <3> QED BY <1>9, <3>1, <3>2, <3>3, <3>4, <3>5
  <2>2. Cost(t, n) = CeilDiv(n * w, 16)
    BY <1>1, <1>9 DEF Cost
  <2>3. PICK y, z : y = inners + p /\ z = n * w
    OBVIOUS
  <2>4. /\ y \in Nat /\ z \in Nat /\ all = 16 * y + z /\ all \in Nat /\ 16 * MaxFee \in Nat
        /\ x = y + CeilDiv(z, 16)
    BY <1>2, <1>3, <1>4, <2>1, <2>2, <2>3
  <2>5. CeilDiv(all, 16) = x /\ CeilDiv(16 * MaxFee, 16) = MaxFee
    BY <1>2, <2>4, RoundedUp
  <2>6. LimitedCost(t.type, all) = CeilDiv(Min({all, 16 * MaxFee}), 16)
    BY <1>9 DEF LimitedCost
  <2>7. Min({all, 16 * MaxFee}) = IF all <= 16 * MaxFee THEN all ELSE 16 * MaxFee
    BY <2>4, LeastOfTwo
  <2>8. CASE all <= 16 * MaxFee
    <3>1. x <= MaxFee
      <4>1. CeilDiv(all, 16) <= CeilDiv(16 * MaxFee, 16)
        BY <2>4, <2>8, RoundedUp
      <4> QED BY <2>5, <4>1
    <3> QED BY <1>2, <1>4, <1>6, <1>9, <2>5, <2>6, <2>7, <2>8, <3>1
  <2>9. CASE ~(all <= 16 * MaxFee)
    <3>1. MaxFee <= x
      <4>1. 16 * MaxFee <= all
        BY <2>4, <2>9
      <4>2. CeilDiv(16 * MaxFee, 16) <= CeilDiv(all, 16)
        BY <2>4, <4>1, RoundedUp
      <4> QED BY <2>5, <4>2
    <3> QED BY <1>4, <1>6, <1>9, <2>5, <2>6, <2>7, <2>9, <3>1
  <2> QED BY <2>8, <2>9
<1> QED BY <1>4, <1>8, <1>9

\* The cost is that of the transaction, of all its inners and of its signers.
LEMMA CostAtFacts ==
  ASSUME FeeTyped, NEW unit \in Nat
  PROVE  /\ CostAt(unit) = Cost(asked, unit) + InnersCost(Len(asked.inners) + 1, unit)
                             + unit * (asked.signers + asked.sponsors)
         /\ CostAt(unit) \in Nat
<1>1. /\ DOMAIN asked.inners = 1..Len(asked.inners) /\ Len(asked.inners) \in Nat
      /\ (Len(asked.inners) + 1) - 1 = Len(asked.inners)
  BY RequestFacts
<1>2. PICK f : f = [k \in DOMAIN asked.inners |-> Cost(asked.inners[k], unit)]
  OBVIOUS
<1>3. SumFunction(f) = SumFunctionOnSet(f, 1..Len(asked.inners))
  BY <1>1, <1>2 DEF SumFunction
<1>4. InnersCost(Len(asked.inners) + 1, unit) = SumFunction(f)
  BY <1>1, <1>2, <1>3 DEF InnersCost
<1>5. CostAt(unit) = Cost(asked, unit) + SumFunction(f) + unit * (asked.signers + asked.sponsors)
  BY <1>2 DEF CostAt
<1>6. InnersCost(Len(asked.inners) + 1, unit) \in Nat
  <2>1. Len(asked.inners) + 1 \in 1..(Len(asked.inners) + 1)
    BY <1>1
  <2> QED BY <2>1, InnersCostFacts
<1>7. Cost(asked, unit) \in Nat /\ unit * (asked.signers + asked.sponsors) \in Nat
  BY RequestFacts, CostFacts, Times
<1> QED BY <1>4, <1>5, <1>6, <1>7

\* The costs are those of what was asked for.
LEMMA CostSame ==
  ASSUME asked' = asked
  PROVE  /\ \A t, unit : Cost(t, unit)' = Cost(t, unit)
         /\ \A t, l : Exactly(t, l)' = Exactly(t, l)
         /\ \A n, unit : InnersCost(n, unit)' = InnersCost(n, unit)
         /\ \A unit : CostAt(unit)' = CostAt(unit)
         /\ \A l : Charge(l)' = Charge(l)
<1>1. \A t : Sixteenths(t)' = Sixteenths(t)
  BY DEF Sixteenths
<1>2. \A t, unit : Cost(t, unit)' = Cost(t, unit)
  BY <1>1 DEF Cost
<1>3. \A t, l : Exactly(t, l)' = Exactly(t, l)
  BY <1>1 DEF Exactly
<1>4. \A unit : [k \in DOMAIN asked.inners |-> Cost(asked.inners[k], unit)]'
                  = [k \in DOMAIN asked.inners |-> Cost(asked.inners[k], unit)]
  BY <1>2 DEF Cost, Sixteenths
<1>5. \A l : [k \in DOMAIN asked.inners |-> Exactly(asked.inners[k], l)]'
               = [k \in DOMAIN asked.inners |-> Exactly(asked.inners[k], l)]
  BY <1>3 DEF Exactly, Sixteenths
<1>6. \A n, unit : InnersCost(n, unit)' = InnersCost(n, unit)
  BY <1>4 DEF InnersCost
<1>7. \A unit : Cost(asked, unit)' = Cost(asked, unit)
  BY <1>2 DEF Cost, Sixteenths
<1>8. \A l : Exactly(asked, l)' = Exactly(asked, l)
  BY <1>3 DEF Exactly, Sixteenths
<1>9. \A unit : CostAt(unit)' = CostAt(unit)
  BY <1>4, <1>7 DEF CostAt
<1>10. \A l : Charge(l)' = Charge(l)
  BY <1>5, <1>8 DEF Charge
<1> QED BY <1>2, <1>3, <1>6, <1>9, <1>10

\* The bounds of the loads met change with them only.
LEMMA LoadsSame ==
  ASSUME sawLoads' = sawLoads
  PROVE  /\ \A unit : (AtMost(unit)' <=> AtMost(unit)) /\ (AtLeast(unit)' <=> AtLeast(unit))
         /\ Max(sawLoads)' = Max(sawLoads) /\ Min(sawLoads)' = Min(sawLoads)
BY DEF AtMost, AtLeast, Rounded

\* What is promised of the Fee stays true while neither it nor the loads change.
LEMMA FeeKept ==
  ASSUME FeeIsBetween, LimitHolds, asked' = asked, sawLoads' = sawLoads, fee' = fee
  PROVE  FeeIsBetween' /\ LimitHolds'
<1>1. PICK hi, lo : hi = Rounded(Max(sawLoads)) /\ lo = Rounded(Min(sawLoads))
  OBVIOUS
<1>2. CostAt(hi)' = CostAt(hi) /\ CostAt(lo)' = CostAt(lo)
  BY CostSame
<1>3. Rounded(Max(sawLoads))' = hi /\ Rounded(Min(sawLoads))' = lo
  BY <1>1, LoadsSame DEF Rounded
<1>4. /\ CostAt(Rounded(Max(sawLoads)))' = CostAt(hi)
      /\ CostAt(Rounded(Min(sawLoads)))' = CostAt(lo)
  BY <1>2, <1>3 DEF CostAt, Cost
<1> QED BY <1>1, <1>4 DEF FeeIsBetween, LimitHolds

\* When the call begins no fee is known.
LEMMA FeeInitInv == FeeInit => FeeInv
<1> SUFFICES ASSUME FeeInit PROVE FeeInv
  OBVIOUS
<1>1. FeeTyped
  <2>1. load \in LoadFactors /\ sawLoads = {load} /\ IsFiniteSet({load})
    BY FS_Singleton DEF FeeInit
  <2>2. asked \in Requests /\ (asked.type # "Batch" => asked.inners = <<>>)
    BY DEF FeeInit
  <2>3. asked.inners \in Seq([type : Kinds \ {"Batch"}, fulfillment : Sizes])
    BY <2>2, FeeAssumption DEF Requests
  <2>4. level \in 0..(Len(asked.inners) + 1)
    <3>1. Len(asked.inners) \in Nat
      BY <2>3
    <3> QED BY <3>1 DEF FeeInit
  <2>5. {net, innerNet, fee} \subseteq Sizes /\ rawTxFees \in Nat
    BY DEF FeeInit, Sizes
  <2> QED BY <2>1, <2>2, <2>4, <2>5 DEF FeeTyped
<1>2. LevelsInStep
  BY DEF FeeInit, LevelsInStep
<1> QED BY <1>1, <1>2 DEF FeeInv, FeeInit, FeeIsBetween, LimitHolds

\* A net fee that was read is a number.
LEMMA NetFeeRead ==
  ASSUME FeeTyped
  PROVE  /\ GetFee(load) \in Nat /\ GetFee(load) # None /\ load \in LoadFactors
         /\ None \notin Nat /\ Sizes = Nat \cup {None}
<1>1. load \in LoadFactors
  BY DEF FeeTyped
<1>2. GetFee(load) \in Nat
  BY <1>1, NetFeeFacts
<1> QED BY <1>1, <1>2 DEF None, Sizes

\* The first level is charged at a load the server had.
LEMMA ReadNetFeeInv == FeeInv /\ ReadNetFee => FeeInv'
<1> SUFFICES ASSUME FeeInv, ReadNetFee PROVE FeeInv'
  OBVIOUS
<1> USE DEF FeeInv, ReadNetFee
<1>1. load \in sawLoads /\ GetFee(load) \in Sizes /\ GetFee(load) # None /\ Len(asked.inners) \in Nat
  BY NetFeeRead, RequestFacts DEF FeeTyped
<1>2. GetFee(load)' = GetFee(load') /\ \A l : GetFee(l)' = GetFee(l)
  BY DEF GetFee, Rounded
<1>3. FeeTyped'
  BY <1>1 DEF FeeTyped
<1>4. LevelsInStep'
  <2>1. rawTxFees = 0 /\ innerNet = None
    BY DEF LevelsInStep
  <2>2. \A unit \in Nat : InnersCost(1, unit) = 0
    BY InnersCostFacts
  <2>3. ASSUME NEW unit \in Nat, level' >= 1 PROVE rawTxFees' = InnersCost(level, unit)'
    <3>1. level' = 1
      BY <2>3
    <3>2. InnersCost(1, unit)' = 0
      BY <2>2, CostSame
    <3>3. InnersCost(level, unit)' = InnersCost(1, unit)'
      BY <3>1 DEF InnersCost
    <3> QED BY <2>1, <3>2, <3>3
  <2>4. ASSUME NEW unit \in Nat, level' >= 1
        PROVE  /\ rawTxFees' <= InnersCost(level, unit)'
               /\ rawTxFees' >= InnersCost(level, unit)'
    <3>1. rawTxFees' \in Nat
      BY <1>3 DEF FeeTyped
    <3> QED BY <2>3, <2>4, <3>1
  <2> QED BY <1>1, <1>2, <2>1, <2>4 DEF LevelsInStep
<1>5. FeeIsBetween' /\ LimitHolds'
  BY FeeKept
<1> QED BY <1>3, <1>4, <1>5

\* So is every inner.
LEMMA ReadInnerFeeInv == FeeInv /\ ReadInnerFee => FeeInv'
<1> SUFFICES ASSUME FeeInv, ReadInnerFee PROVE FeeInv'
  OBVIOUS
<1> USE DEF FeeInv, ReadInnerFee
<1>1. load \in sawLoads /\ GetFee(load) \in Sizes /\ GetFee(load) # None
  BY NetFeeRead DEF FeeTyped
<1>2. \A l : GetFee(l)' = GetFee(l)
  BY DEF GetFee, Rounded
<1>3. FeeTyped'
  BY <1>1 DEF FeeTyped
<1>4. LevelsInStep'
  <2>1. \A unit \in Nat : InnersCost(level, unit)' = InnersCost(level, unit)
    BY CostSame DEF InnersCost, Cost
  <2> QED BY <1>1, <1>2, <2>1, LoadsSame DEF LevelsInStep
<1>5. FeeIsBetween' /\ LimitHolds'
  BY FeeKept
<1> QED BY <1>3, <1>4, <1>5

\* The fee of an inner lies between its costs at the lowest and at the highest load,
\* so the sum does too, or is cut by the limit.
LEMMA AddInnerFeeInv == FeeInv /\ AddInnerFee => FeeInv'
<1> SUFFICES ASSUME FeeInv, AddInnerFee PROVE FeeInv'
  OBVIOUS
<1> USE DEF FeeInv
<1>1. PICK t, paid : t = asked.inners[level] /\ paid = LevelFee(t, innerNet, 0, 0)
  OBVIOUS
<1>2. /\ innerNet # None /\ innerNet \in Nat /\ level \in DOMAIN asked.inners
      /\ rawTxFees' = rawTxFees + paid /\ innerNet' = None /\ level' = level + 1
      /\ UNCHANGED <<asked, load, net, fee, sawLoads>>
  <2>1. innerNet # None
    BY DEF AddInnerFee
  <2> QED BY <1>1, <2>1 DEF AddInnerFee, FeeTyped, LevelsInStep, Sizes
<1>3. PICK m \in sawLoads : innerNet = GetFee(m)
  BY <1>2 DEF LevelsInStep
<1>4. m \in LoadFactors /\ level \in Nat /\ level >= 1 /\ level + 1 \in 0..(Len(asked.inners) + 1)
  <2>1. m \in LoadFactors
    BY DEF FeeTyped
  <2>2. level \in 1..Len(asked.inners) /\ Len(asked.inners) \in Nat
    BY <1>2, RequestFacts
  <2> QED BY <2>1, <2>2
<1>5. IsCharged(t) /\ t.type # "Batch"
  BY <1>1, <1>2, RequestFacts
<1>6. PICK x : x = Cost(t, innerNet)
  OBVIOUS
<1>7. /\ x \in Nat /\ MaxFee \in Nat /\ rawTxFees \in Nat
      /\ paid = IF t.type # "special" /\ MaxFee <= x THEN MaxFee ELSE x
  <2>1. x \in Nat
    BY <1>2, <1>5, <1>6, CostFacts
  <2>2. Uncut(t, innerNet, 0, 0) = x
    <3>1. innerNet * 0 = 0
      BY <1>2
    <3> QED BY <1>6, <2>1, <3>1 DEF Uncut
  <2>3. LevelFee(t, innerNet, 0, 0) = IF t.type # "special" /\ MaxFee <= x THEN MaxFee ELSE x
    <3>1. 0 \in Nat
      OBVIOUS
    <3> QED BY <1>2, <1>5, <2>2, <3>1, LevelFeeFacts
  <2>4. MaxFee \in Nat /\ rawTxFees \in Nat
    BY FeeConstants DEF FeeTyped
  <2> QED BY <1>1, <2>1, <2>3, <2>4
<1>8. paid \in Nat
  BY <1>7
<1>9. FeeTyped'
  BY <1>2, <1>4, <1>7, <1>8 DEF FeeTyped, Sizes
<1>10. ASSUME NEW unit \in Nat
       PROVE  /\ AtMost(unit) => rawTxFees + paid <= InnersCost(level + 1, unit)
              /\ AtLeast(unit) => \/ rawTxFees + paid >= MaxFee
                                  \/ rawTxFees + paid >= InnersCost(level + 1, unit)
  <2>1. PICK cost, one : cost = InnersCost(level, unit) /\ one = Cost(t, unit)
    OBVIOUS
  <2>2. cost \in Nat /\ InnersCost(level + 1, unit) = cost + one
    <3>1. level \in 1..(Len(asked.inners) + 1)
      BY <1>2, RequestFacts
    <3> QED BY <1>1, <1>2, <2>1, <3>1, InnersCostFacts
  <2>3. /\ one \in Nat
        /\ innerNet <= unit => x <= one
        /\ unit <= innerNet => one <= x
        /\ t.type = "special" => x = one
        /\ t.type # "special" => innerNet <= x
    BY <1>2, <1>5, <1>6, <2>1, CostFacts
  <2>4. /\ AtMost(unit) => rawTxFees <= cost
        /\ AtLeast(unit) => rawTxFees >= MaxFee \/ rawTxFees >= cost
    BY <1>4, <2>1 DEF LevelsInStep
  <2>5. /\ AtMost(unit) => innerNet <= unit
        /\ AtLeast(unit) => innerNet = MaxFee \/ innerNet >= unit
    BY <1>3, <1>4, NetFeeFacts DEF AtMost, AtLeast
  <2> QED BY <1>2, <1>7, <1>8, <2>2, <2>3, <2>4, <2>5
<1>11. LevelsInStep'
  <2>1. net # None /\ asked.type = "Batch"
    BY <1>2, <1>4 DEF LevelsInStep
  <2>2. \A l : GetFee(l)' = GetFee(l)
    BY DEF GetFee, Rounded
  <2>3. \E l \in sawLoads' : net' = GetFee(l)'
    BY <1>2, <2>1, <2>2 DEF LevelsInStep
  <2>4. ASSUME NEW unit \in Nat
        PROVE  /\ AtMost(unit)' => rawTxFees' <= InnersCost(level, unit)'
               /\ AtLeast(unit)' => rawTxFees' >= MaxFee \/ rawTxFees' >= InnersCost(level, unit)'
    <3>1. InnersCost(level, unit)' = InnersCost(level + 1, unit)
      <4>1. PICK n : n = level + 1
        OBVIOUS
      <4>2. InnersCost(n, unit)' = InnersCost(n, unit)
        BY <1>2, CostSame
      <4>3. InnersCost(level, unit)' = InnersCost(n, unit)'
        BY <1>2, <4>1 DEF InnersCost
      <4> QED BY <4>1, <4>2, <4>3
    <3> QED BY <1>2, <1>10, <3>1, LoadsSame
  <2> QED BY <1>2, <1>4, <2>1, <2>3, <2>4 DEF LevelsInStep
<1>12. FeeIsBetween' /\ LimitHolds'
  BY <1>2, FeeKept
<1> QED BY <1>9, <1>11, <1>12

\* The lowest and the highest load.
LEMMA LoadsFacts ==
  ASSUME FeeTyped
  PROVE  /\ Min(sawLoads) \in sawLoads /\ \A m \in sawLoads : Min(sawLoads) <= m
         /\ Max(sawLoads) \in sawLoads /\ \A m \in sawLoads : m <= Max(sawLoads)
         /\ sawLoads \subseteq Nat
<1>1. sawLoads \subseteq Nat /\ sawLoads # {} /\ IsFiniteSet(sawLoads)
  BY FeeConstants DEF FeeTyped
<1>2. \E x \in sawLoads : \A y \in sawLoads : x =< y
  BY <1>1, LeastNumber
<1>3. \E x \in sawLoads : \A y \in sawLoads : x >= y
  BY <1>1, GreatestNumber
<1> QED BY <1>1, <1>2, <1>3 DEF Min, Max

\* ... bound the rounded net fees.
LEMMA RoundedBounds ==
  ASSUME FeeTyped
  PROVE  /\ Rounded(Min(sawLoads)) \in Nat /\ AtLeast(Rounded(Min(sawLoads)))
         /\ Rounded(Max(sawLoads)) \in Nat /\ AtMost(Rounded(Max(sawLoads)))
<1>1. PICK lo, hi : lo = Min(sawLoads) /\ hi = Max(sawLoads)
  OBVIOUS
<1>2. /\ lo \in Nat /\ hi \in Nat
      /\ \A m \in sawLoads : m \in Nat /\ lo <= m /\ m <= hi
  BY <1>1, LoadsFacts
<1>3. \A m \in sawLoads : Rounded(lo) <= Rounded(m) /\ Rounded(m) <= Rounded(hi)
  BY <1>2, RoundedFacts
<1>4. Rounded(lo) \in Nat /\ Rounded(hi) \in Nat /\ \A m \in sawLoads : Rounded(m) \in Nat
  BY <1>2, RoundedFacts
<1> HIDE DEF Rounded
<1> QED BY <1>1, <1>3, <1>4 DEF AtLeast, AtMost

\* The Fee is the sum of what every level costs at its load, up to the limit.
LEMMA SetFeeInv == FeeInv /\ SetFee => FeeInv'
<1> SUFFICES ASSUME FeeInv, SetFee PROVE FeeInv'
  OBVIOUS
<1> USE DEF FeeInv
<1>1. UNCHANGED <<asked, load, level, net, innerNet, rawTxFees, sawLoads>>
  BY DEF SetFee
<1>2. PICK signers : signers = asked.signers + asked.sponsors
  OBVIOUS
<1>3. PICK x : x = Uncut(asked, net, rawTxFees, signers)
  OBVIOUS
<1>4. /\ net \in Nat /\ net # None /\ rawTxFees \in Nat /\ signers \in Nat /\ MaxFee \in Nat
      /\ asked.type # "Batch" => rawTxFees = 0 /\ level = 0
      /\ asked.type = "Batch" => level = Len(asked.inners) + 1 /\ level >= 1
  <2>1. net \in Nat /\ net # None
    BY DEF SetFee, FeeTyped, Sizes
  <2>2. asked.type # "Batch" => rawTxFees = 0 /\ level = 0
    BY <2>1 DEF LevelsInStep
  <2>3. asked.type = "Batch" => level = Len(asked.inners) + 1 /\ level >= 1
    BY <2>1 DEF SetFee, LevelsInStep
  <2> QED BY <1>2, <2>1, <2>2, <2>3, RequestFacts, FeeConstants DEF FeeTyped
<1>5. /\ x \in Nat
      /\ fee' = IF asked.type # "special" /\ MaxFee <= x THEN MaxFee ELSE x
  <2>1. /\ x \in Nat
        /\ LevelFee(asked, net, rawTxFees, signers)
             = IF asked.type # "special" /\ MaxFee <= x THEN MaxFee ELSE x
    <3>1. IsCharged(asked) /\ (asked.type # "Batch" => rawTxFees = 0)
      BY <1>4, RequestFacts
    <3> QED BY <1>3, <1>4, <3>1, LevelFeeFacts
  <2> QED BY <1>2, <2>1 DEF SetFee
<1>6. FeeTyped'
  BY <1>1, <1>4, <1>5 DEF FeeTyped, Sizes
<1>7. LevelsInStep'
  <2>1. \A unit \in Nat : InnersCost(level, unit)' = InnersCost(level, unit)
    BY <1>1, CostSame DEF InnersCost, Cost
  <2>2. \A l : GetFee(l)' = GetFee(l)
    BY DEF GetFee, Rounded
  <2> QED BY <1>1, <2>1, <2>2, LoadsSame DEF LevelsInStep
<1>8. PICK m \in sawLoads : net = GetFee(m)
  BY <1>4 DEF LevelsInStep
<1>9. ASSUME NEW unit \in Nat
      PROVE  /\ CostAt(unit) \in Nat
             /\ AtMost(unit) => x <= CostAt(unit)
             /\ AtLeast(unit) => \/ x >= CostAt(unit)
                                 \/ x >= MaxFee
  <2>1. PICK cost, own, top : /\ cost = InnersCost(Len(asked.inners) + 1, unit)
                              /\ own = Cost(asked, unit) /\ top = Cost(asked, net)
    OBVIOUS
  <2>2. PICK s, r : s = net * signers /\ r = unit * signers
    OBVIOUS
  <2>3. CostAt(unit) = own + cost + r /\ CostAt(unit) \in Nat /\ x = top + rawTxFees + s
    BY <1>2, <1>3, <2>1, <2>2, CostAtFacts DEF Uncut
  <2>4. /\ own \in Nat /\ top \in Nat
        /\ net <= unit => top <= own
        /\ unit <= net => own <= top
        /\ asked.type = "special" => top = own
        /\ asked.type # "special" => net <= top
    BY <1>4, <2>1, RequestFacts, CostFacts
  <2>5. /\ s \in Nat /\ r \in Nat
        /\ net <= unit => s <= r
        /\ unit <= net => r <= s
        /\ signers = 0 => r = 0
        /\ signers # 0 => net <= s
    <3>1. unit * 0 = 0
      OBVIOUS
    <3> QED BY <1>4, <2>2, <3>1, Times
  <2>6. /\ AtMost(unit) => rawTxFees <= cost
        /\ AtLeast(unit) => rawTxFees >= MaxFee \/ rawTxFees >= cost
        /\ cost \in Nat
    <3>1. CASE asked.type = "Batch"
      <4>1. cost = InnersCost(level, unit) /\ level \in 1..(Len(asked.inners) + 1)
        BY <1>4, <2>1, <3>1, RequestFacts
      <4>2. cost \in Nat
        BY <2>1, <4>1, InnersCostFacts
      <4> QED BY <1>4, <3>1, <4>1, <4>2 DEF LevelsInStep
    <3>2. CASE asked.type # "Batch"
      <4>1. asked.inners = <<>> /\ Len(asked.inners) + 1 = 1
        BY <3>2 DEF FeeTyped
      <4>2. cost = 0
        BY <2>1, <4>1, InnersCostFacts
      <4> QED BY <1>4, <3>2, <4>2
    <3> QED BY <3>1, <3>2
  <2>7. /\ AtMost(unit) => net <= unit
        /\ AtLeast(unit) => net = MaxFee \/ net >= unit
    <3>1. m \in LoadFactors
      BY DEF FeeTyped
    <3> QED BY <1>8, <3>1, NetFeeFacts DEF AtMost, AtLeast
  <2>8. ASSUME AtLeast(unit) PROVE x >= CostAt(unit) \/ x >= MaxFee
    <3>1. CASE net = MaxFee /\ (asked.type # "special" \/ signers # 0)
      BY <1>4, <2>3, <2>4, <2>5, <3>1
    <3>2. CASE net = MaxFee /\ asked.type = "special" /\ signers = 0
      BY <1>4, <2>3, <2>4, <2>5, <2>6, <2>8, <3>2
    <3>3. CASE net >= unit
      BY <1>4, <2>3, <2>4, <2>5, <2>6, <2>8, <3>3
    <3> QED BY <2>7, <2>8, <3>1, <3>2, <3>3
  <2>9. ASSUME AtMost(unit) PROVE x <= CostAt(unit)
    BY <1>4, <2>3, <2>4, <2>5, <2>6, <2>7, <2>9
  <2> QED BY <2>3, <2>8, <2>9
<1>10. PICK hi, lo : hi = Rounded(Max(sawLoads)) /\ lo = Rounded(Min(sawLoads))
  OBVIOUS
<1>11. /\ hi \in Nat /\ AtMost(hi) /\ lo \in Nat /\ AtLeast(lo)
  BY <1>10, RoundedBounds
<1>12. /\ CostAt(hi) \in Nat /\ x <= CostAt(hi)
       /\ CostAt(lo) \in Nat /\ (x >= CostAt(lo) \/ x >= MaxFee)
  BY <1>9, <1>11
<1>13. fee' <= CostAt(hi) /\ fee' >= Min({MaxFee, CostAt(lo)})
  <2>1. Min({MaxFee, CostAt(lo)}) = IF MaxFee <= CostAt(lo) THEN MaxFee ELSE CostAt(lo)
    BY <1>4, <1>12, LeastOfTwo
  <2>2. PICK p, q : p = CostAt(hi) /\ q = CostAt(lo)
    OBVIOUS
  <2> QED BY <1>4, <1>5, <1>12, <2>1, <2>2
<1>14. FeeIsBetween'
  <2>1. CostAt(hi)' = CostAt(hi) /\ CostAt(lo)' = CostAt(lo)
    BY <1>1, CostSame
  <2>2. Rounded(Max(sawLoads))' = hi /\ Rounded(Min(sawLoads))' = lo
    BY <1>1, <1>10, LoadsSame DEF Rounded
  <2>3. /\ CostAt(Rounded(Max(sawLoads)))' = CostAt(hi)
        /\ CostAt(Rounded(Min(sawLoads)))' = CostAt(lo)
    BY <2>1, <2>2 DEF CostAt, Cost
  <2> QED BY <1>13, <2>3 DEF FeeIsBetween
<1>15. LimitHolds'
  <2>1. CASE asked.type = "special"
    <3>1. Cost(asked, net) = Reserve /\ Reserve \in Nat /\ net * signers \in Nat
      BY <1>4, <2>1, RequestFacts, CostFacts, FeeConstants, Times
    <3>2. PICK s : s = net * signers
      OBVIOUS
    <3>3. x >= Reserve
      BY <1>3, <1>4, <3>1, <3>2 DEF Uncut
    <3> QED BY <1>1, <1>5, <2>1, <3>3 DEF LimitHolds
  <2>2. CASE asked.type # "special"
    <3>1. fee' <= MaxFee
      BY <1>4, <1>5, <2>2
    <3> QED BY <1>1, <2>2, <3>1 DEF LimitHolds
  <2> QED BY <2>1, <2>2
<1> QED BY <1>6, <1>7, <1>14, <1>15

\* Another load only widens the bounds.
LEMMA LoadChangesInv == FeeInv /\ LoadChanges => FeeInv'
<1> SUFFICES ASSUME FeeInv, LoadChanges PROVE FeeInv'
  OBVIOUS
<1> USE DEF FeeInv
<1>1. /\ sawLoads' = sawLoads \cup {load'} /\ load' \in LoadFactors /\ fee = None
      /\ UNCHANGED <<asked, level, net, innerNet, rawTxFees, fee>>
  BY DEF LoadChanges
<1>2. FeeTyped'
  <2>1. IsFiniteSet(sawLoads')
    BY <1>1, FS_AddElement DEF FeeTyped
  <2> QED BY <1>1, <2>1 DEF FeeTyped
<1>3. LevelsInStep'
  <2>1. \A unit : (AtMost(unit)' => AtMost(unit)) /\ (AtLeast(unit)' => AtLeast(unit))
    BY <1>1 DEF AtMost, AtLeast, Rounded
  <2>2. \A unit : InnersCost(level, unit)' = InnersCost(level, unit)
    BY <1>1, CostSame DEF InnersCost, Cost
  <2>3. \A l : GetFee(l)' = GetFee(l)
    BY DEF GetFee, Rounded
  <2> QED BY <1>1, <2>1, <2>2, <2>3 DEF LevelsInStep
<1>4. FeeIsBetween' /\ LimitHolds'
  BY <1>1 DEF FeeIsBetween, LimitHolds
<1> QED BY <1>2, <1>3, <1>4

\* Every step keeps the invariant.
LEMMA FeeNextInv == FeeInv /\ [FeeNext]_feeVars => FeeInv'
<1>1. CASE FeeNext
  BY <1>1, ReadNetFeeInv, ReadInnerFeeInv, AddInnerFeeInv, SetFeeInv, LoadChangesInv DEF FeeNext
<1>2. CASE UNCHANGED feeVars
  <2> SUFFICES ASSUME FeeInv, UNCHANGED feeVars PROVE FeeInv'
    BY <1>2
  <2> USE DEF FeeInv, feeVars
  <2>1. \A l : GetFee(l)' = GetFee(l)
    BY DEF GetFee, Rounded
  <2>2. \A unit : InnersCost(level, unit)' = InnersCost(level, unit)
    BY CostSame DEF InnersCost, Cost
  <2>3. LevelsInStep'
    BY <2>1, <2>2, LoadsSame DEF LevelsInStep
  <2>4. FeeTyped'
    BY DEF FeeTyped
  <2> QED BY <2>3, <2>4, FeeKept
<1> QED BY <1>1, <1>2

\* The exact charges of the inners are covered by their costs at a net fee that covers
\* the base fee.
LEMMA InnersCovered ==
  ASSUME FeeTyped, NEW l \in Nat, NEW r \in Nat, BaseFee * l <= Unity * r
  PROVE  /\ \A t : IsCharged(t) => /\ Exactly(t, l) \in Nat
                                   /\ Exactly(t, l) <= 16 * Unity * Cost(t, r)
         /\ SumFunction([k \in DOMAIN asked.inners |-> Exactly(asked.inners[k], l)]) \in Nat
         /\ SumFunction([k \in DOMAIN asked.inners |-> Exactly(asked.inners[k], l)])
              <= 16 * Unity * InnersCost(Len(asked.inners) + 1, r)
<1>1. PICK b, g : b = BaseFee * l /\ g = 16 * Unity
  OBVIOUS
<1>2. b \in Nat /\ g \in Nat /\ Reserve \in Nat /\ Unity \in Nat
  BY <1>1, FeeConstants, Times
<1>3. ASSUME NEW t, IsCharged(t)
      PROVE  Exactly(t, l) \in Nat /\ Exactly(t, l) <= g * Cost(t, r)
  <2>1. CASE t.type = "special"
    <3>1. Exactly(t, l) = g * Reserve /\ Cost(t, r) = Reserve
      BY <1>1, <2>1 DEF Exactly, Cost
    <3>2. g * Reserve \in Nat
      BY <1>2, Times
    <3> QED BY <3>1, <3>2
  <2>2. CASE t.type # "special"
    <3>1. PICK w : w = Sixteenths(t)
      OBVIOUS
    <3>2. w \in Nat
      BY <1>3, <3>1, SixteenthsFacts
    <3>3. Exactly(t, l) = b * w /\ Cost(t, r) = CeilDiv(r * w, 16)
      BY <1>1, <2>2, <3>1 DEF Exactly, Cost
    <3>4. PICK y, z : y = r * w /\ z = CeilDiv(r * w, 16)
      OBVIOUS
    <3>5. y \in Nat /\ z \in Nat /\ y <= 16 * z
      <4>1. y \in Nat
        BY <3>2, <3>4, Times
      <4> QED BY <3>4, <4>1, RoundedUp
    <3>6. b * w <= (Unity * r) * w /\ b * w \in Nat
      <4>1. Unity * r \in Nat /\ b <= Unity * r
        BY <1>1, <1>2, Times
      <4> QED BY <1>2, <3>2, <4>1, Times
    <3>7. (Unity * r) * w = Unity * y /\ Unity * y <= Unity * (16 * z) /\ Unity * (16 * z) = g * z
      <4>1. Unity * (r * w) = (Unity * r) * w
        BY <1>2, <3>2, Products
      <4>2. 16 * z \in Nat /\ Unity * y <= Unity * (16 * z)
        BY <1>2, <3>5, Products
      <4>3. Unity * (16 * z) = (Unity * 16) * z /\ Unity * 16 = 16 * Unity
        BY <1>2, <3>5, Products
      <4> QED BY <1>1, <3>4, <4>1, <4>2, <4>3
    <3>8. PICK p, q : p = Unity * y /\ q = g * z
      OBVIOUS
    <3>9. p \in Nat /\ q \in Nat
      BY <1>2, <3>5, <3>8, Times
    <3>10. b * w <= q
      BY <3>6, <3>7, <3>8, <3>9
    <3> QED BY <3>3, <3>4, <3>6, <3>8, <3>10
  <2> QED BY <2>1, <2>2
<1>4. PICK f : f = [k \in DOMAIN asked.inners |-> Exactly(asked.inners[k], l)]
  OBVIOUS
<1>5. /\ DOMAIN asked.inners = 1..Len(asked.inners) /\ Len(asked.inners) \in Nat
      /\ DOMAIN f = DOMAIN asked.inners
      /\ \A k \in DOMAIN asked.inners : /\ IsCharged(asked.inners[k])
                                        /\ f[k] = Exactly(asked.inners[k], l) /\ f[k] \in Nat
  BY <1>3, <1>4, RequestFacts
<1> DEFINE N == {n \in Nat : n <= Len(asked.inners) =>
                               SumFunctionOnSet(f, 1..n) <= g * InnersCost(n + 1, r)}
<1>6. 0 \in N
  <2>1. SumFunctionOnSet(f, 1..0) = 0
    BY <1>5, InnerSums
  <2>2. InnersCost(0 + 1, r) = 0 /\ g * 0 = 0
    BY <1>2, InnersCostFacts
  <2> QED BY <2>1, <2>2
<1>7. ASSUME NEW n \in Nat, n \in N PROVE n + 1 \in N
  <2> SUFFICES ASSUME n + 1 <= Len(asked.inners)
               PROVE  SumFunctionOnSet(f, 1..(n + 1)) <= g * InnersCost((n + 1) + 1, r)
    OBVIOUS
  <2>1. n + 1 \in DOMAIN asked.inners /\ n \in 0..Len(asked.inners) /\ (n + 1) - 1 = n
    BY <1>5
  <2>2. PICK s, c, e, d : /\ s = SumFunctionOnSet(f, 1..n) /\ c = InnersCost(n + 1, r)
                          /\ e = f[n + 1] /\ d = Cost(asked.inners[n + 1], r)
    OBVIOUS
  <2>3. s <= g * c
    BY <1>5, <1>7, <2>1, <2>2
  <2>4. SumFunctionOnSet(f, 1..(n + 1)) = s + e /\ s \in Nat /\ e \in Nat
    <3>1. SumFunctionOnSet(f, 1..(n + 1)) = SumFunctionOnSet(f, 1..((n + 1) - 1)) + f[n + 1]
      BY <1>5, <2>1, InnerSums
    <3>2. SumFunctionOnSet(f, 1..n) \in Nat
      BY <1>5, <2>1, InnerSums
    <3> QED BY <1>5, <2>1, <2>2, <3>1, <3>2
  <2>5. InnersCost((n + 1) + 1, r) = c + d /\ c \in Nat /\ d \in Nat
    <3>1. n + 1 \in 1..(Len(asked.inners) + 1)
      BY <1>5, <2>1
    <3>2. InnersCost((n + 1) + 1, r) = InnersCost(n + 1, r) + Cost(asked.inners[n + 1], r)
      BY <2>1, InnersCostFacts
    <3>3. InnersCost(n + 1, r) \in Nat
      BY <3>1, InnersCostFacts
    <3>4. Cost(asked.inners[n + 1], r) \in Nat
      BY <1>5, <2>1, CostFacts
    <3> QED BY <2>2, <3>2, <3>3, <3>4
  <2>6. e <= g * d
    BY <1>3, <1>5, <2>1, <2>2
  <2>7. g * (c + d) = g * c + g * d /\ g * c \in Int /\ g * d \in Int
    BY <1>2, <2>5, Products
  <2> QED BY <2>3, <2>4, <2>5, <2>6, <2>7
<1>8. \A n \in Nat : n \in N
  <2> HIDE DEF N
  <2> QED BY <1>6, <1>7, SetInduction
<1>9. SumFunction(f) = SumFunctionOnSet(f, 1..Len(asked.inners))
  BY <1>5 DEF SumFunction
<1>10. SumFunction(f) \in Nat
  <2>1. Len(asked.inners) \in 0..Len(asked.inners)
    BY <1>5
  <2> QED BY <1>5, <1>9, <2>1, InnerSums
<1>11. SumFunction(f) <= g * InnersCost(Len(asked.inners) + 1, r)
  BY <1>5, <1>8, <1>9
<1> QED BY <1>1, <1>3, <1>4, <1>10, <1>11

\* A Fee that is no less than the rounded cost at the lowest load covers the exact charge
\* if the cushion makes up for the rounding.
LEMMA CushionMakesUp == FeeInv => CushionCovers
<1> SUFFICES ASSUME FeeInv, fee # None,
                    NEW l, l = Min(sawLoads),
                    2 * BaseFee * l * (Cushion - Unity) >= Unity * Unity
             PROVE  16 * Unity * fee >= Min({16 * Unity * MaxFee, Charge(l)})
  BY DEF CushionCovers
<1> USE DEF FeeInv
<1>1. PICK r, g, signers : r = Rounded(l) /\ g = 16 * Unity /\ signers = asked.signers + asked.sponsors
  OBVIOUS
<1>2. /\ l \in Nat /\ r \in Nat /\ g \in Nat /\ signers \in Nat /\ MaxFee \in Nat /\ fee \in Nat
      /\ BaseFee * l <= Unity * r
  <2>1. l \in Nat
    BY LoadsFacts
  <2>2. r \in Nat /\ BaseFee * l <= Unity * r
    BY <1>1, <2>1, RoundedFacts
  <2>3. g \in Nat /\ signers \in Nat /\ MaxFee \in Nat
    BY <1>1, FeeConstants, RequestFacts
  <2>4. fee \in Nat
    BY DEF FeeTyped, Sizes
  <2> QED BY <2>1, <2>2, <2>3, <2>4
<1>3. PICK own, ownExactly, inners, innersExactly :
        /\ own = Cost(asked, r) /\ ownExactly = Exactly(asked, l)
        /\ inners = InnersCost(Len(asked.inners) + 1, r)
        /\ innersExactly = SumFunction([k \in DOMAIN asked.inners |-> Exactly(asked.inners[k], l)])
  OBVIOUS
<1>4. /\ ownExactly \in Nat /\ ownExactly <= g * own
      /\ innersExactly \in Nat /\ innersExactly <= g * inners
  BY <1>1, <1>2, <1>3, RequestFacts, InnersCovered
<1>5. own \in Nat /\ inners \in Nat
  <2>1. Len(asked.inners) + 1 \in 1..(Len(asked.inners) + 1)
    BY RequestFacts
  <2>2. inners \in Nat
    BY <1>2, <1>3, <2>1, InnersCostFacts
  <2>3. own \in Nat
    BY <1>2, <1>3, RequestFacts, CostFacts
  <2> QED BY <2>2, <2>3
<1>6. CostAt(r) = own + inners + r * signers /\ CostAt(r) \in Nat
  BY <1>1, <1>2, <1>3, CostAtFacts
<1>7. PICK extra : extra = BaseFee * l * (16 * (asked.signers + asked.sponsors))
  OBVIOUS
<1>8. extra \in Nat /\ extra <= g * (r * signers) /\ r * signers \in Nat
  <2>1. 16 * signers \in Nat /\ BaseFee * l \in Nat /\ Unity * r \in Nat /\ r * signers \in Nat
    BY <1>2, FeeConstants, Times
  <2>2. (BaseFee * l) * (16 * signers) <= (Unity * r) * (16 * signers)
    BY <1>2, <2>1, Times
  <2>3. (Unity * r) * (16 * signers) = (16 * Unity) * (r * signers)
    <3>1. (Unity * r) * (16 * signers) = Unity * (r * (16 * signers))
      BY <1>2, <2>1, FeeConstants, Products
    <3>2. r * (16 * signers) = 16 * (r * signers)
      BY <1>2, SMT
    <3>3. Unity * (16 * (r * signers)) = (Unity * 16) * (r * signers) /\ Unity * 16 = 16 * Unity
      BY <2>1, FeeConstants, Products
    <3> QED BY <3>1, <3>2, <3>3
  <2>4. (BaseFee * l) * (16 * signers) \in Nat
    BY <2>1, Times
  <2> QED BY <1>1, <1>7, <2>1, <2>2, <2>3, <2>4
<1>9. Charge(l) = ownExactly + innersExactly + extra
  BY <1>3, <1>7 DEF Charge
<1>10. PICK a, b, c : a = g * own /\ b = g * inners /\ c = g * (r * signers)
  OBVIOUS
<1>11. a \in Nat /\ b \in Nat /\ c \in Nat /\ g * CostAt(r) = a + b + c
  <2>1. a \in Nat /\ b \in Nat /\ c \in Nat
    BY <1>2, <1>5, <1>8, <1>10, Times
  <2>2. g * ((own + inners) + r * signers) = g * (own + inners) + g * (r * signers)
    BY <1>2, <1>5, <1>8, Products
  <2>3. g * (own + inners) = g * own + g * inners
    BY <1>2, <1>5, Products
  <2> QED BY <1>6, <1>10, <2>1, <2>2, <2>3
<1>12. Charge(l) \in Nat /\ Charge(l) <= g * CostAt(r)
  BY <1>4, <1>8, <1>9, <1>10, <1>11
<1>13. PICK q, charge : q = CostAt(r) /\ charge = Charge(l)
  OBVIOUS
<1>14. q <= fee \/ MaxFee <= fee
  <2>1. fee >= Min({MaxFee, q})
    BY <1>1, <1>13 DEF FeeIsBetween
  <2>2. Min({MaxFee, q}) = IF MaxFee <= q THEN MaxFee ELSE q
    BY <1>2, <1>6, <1>13, LeastOfTwo
  <2> QED BY <1>2, <2>1, <2>2
<1>15. /\ g * fee \in Nat /\ g * MaxFee \in Nat /\ g * q \in Nat
       /\ q <= fee => g * q <= g * fee
       /\ MaxFee <= fee => g * MaxFee <= g * fee
  BY <1>2, <1>6, <1>13, Products, Times
<1>16. Min({g * MaxFee, charge}) = IF g * MaxFee <= charge THEN g * MaxFee ELSE charge
  BY <1>12, <1>13, <1>15, LeastOfTwo
<1>17. PICK f, top, low : f = g * fee /\ top = g * MaxFee /\ low = g * q
  OBVIOUS
<1>18. f >= IF top <= charge THEN top ELSE charge
  BY <1>12, <1>13, <1>14, <1>15, <1>17
<1> QED BY <1>1, <1>13, <1>16, <1>17, <1>18

\* The Fee that autofill sets covers what the transaction and all its inners cost at the
\* lowest load it met, with the net fee rounded as the code rounds it, and exactly where
\* the cushion makes up for the rounding; it is no more than the cost at the highest load.
THEOREM FeeAlwaysCoversLoads == FeeSpec => []FeeCoversLoads
<1>1. FeeInit => FeeInv
  BY FeeInitInv
<1>2. FeeInv /\ [FeeNext]_feeVars => FeeInv'
  BY FeeNextInv
<1>3. FeeInv => FeeCoversLoads
  BY CushionMakesUp DEF FeeInv, FeeCoversLoads
<1> QED BY <1>1, <1>2, <1>3, PTL DEF FeeSpec

-----------------------------------------------------------------------------
(* Trees of hashes.                                                        *)

\* One level of each recursive definition, from the level below it.
NodesLevel(left, below) ==
  IF left = 0 THEN {}
  ELSE [kind : {"inner"}, depth : {TagLength - left},
        leaves : [Nibbles -> {Empty} \cup Leaves \cup below]]

CollidingLevel(left, below) ==
  [node \in InnerNodes[left] |-> [tag \in Tags |->
     LET existing == node.leaves[Slot(node, tag)]
     IN \/ existing.kind = "leaf" /\ existing.tag = tag
        \/ existing.kind = "inner" /\ below[existing][tag]]]

AddedTo(node, leaf, below) ==
  LET slot == Slot(node, leaf.tag)
      existing == node.leaves[slot]
  IN SetNode(node, slot,
       IF existing.kind = "empty" THEN leaf
       ELSE IF existing.kind = "inner" THEN below[existing][leaf]
       ELSE below[below[NewInner(node.depth + 1)][existing]][leaf])

AddingLevel(left, below) ==
  [node \in InnerNodes[left] |-> [leaf \in Leaves |-> AddedTo(node, leaf, below)]]

BranchingLevel(left, below) ==
  [node \in InnerNodes[left] |-> [leaf \in Leaves |->
     LET nibble == Slot(node, leaf.tag)
         existing == node.leaves[nibble]
         newInner == below[NewInner(node.depth + 1)][existing]
     IN SetNode(node, nibble,
          IF existing.kind = "empty" THEN leaf
          ELSE IF existing.kind = "leaf" THEN below[newInner][leaf]
          ELSE below[existing][leaf])]]

There(S, left, slot) == {leaf \in S : leaf.tag[TagLength - left + 1] = slot}

TreesLevel(left, below) ==
  IF left = 0 THEN <<>>
  ELSE [S \in SUBSET Leaves |->
          Inner(TagLength - left, [slot \in Nibbles |->
            IF There(S, left, slot) = {} THEN Empty
            ELSE IF \E leaf \in There(S, left, slot) : There(S, left, slot) = {leaf}
            THEN CHOOSE leaf \in There(S, left, slot) : TRUE
            ELSE below[There(S, left, slot)]])]

\* Inner nodes are what their levels say.  A recursive function equals its own
\* definition once there is one that does: for no nibbles, then for one more.
LEMMA InnerNodesLevels ==
  \A left \in 0..TagLength : InnerNodes[left] = NodesLevel(left, InnerNodes[left - 1])
<1> DEFINE F(g, n) == [left \in 0..n |-> NodesLevel(left, g[left - 1])]
           N == {n \in Nat : \E g : g = F(g, n)}
<1>1. \A x, y : NodesLevel(0, x) = NodesLevel(0, y)
  BY DEF NodesLevel
<1>2. ASSUME NEW n \in Nat, NEW g, g = F(g, n)
      PROVE  F(g, n + 1) = F(F(g, n + 1), n + 1)
  <2> DEFINE h == F(g, n + 1)
  <2>1. ASSUME NEW left \in 0..(n + 1)
        PROVE  NodesLevel(left, g[left - 1]) = NodesLevel(left, h[left - 1])
    <3>1. CASE left = 0
      BY <1>1, <3>1
    <3>2. CASE left # 0
      <4>1. left - 1 \in 0..n /\ left - 1 \in 0..(n + 1)
        BY <3>2
      <4>2. g[left - 1] = h[left - 1]
        BY <1>2, <4>1
      <4> QED BY <4>2
    <3> QED BY <3>1, <3>2
  <2> QED BY <2>1
<1>3. 0 \in N
  <2> DEFINE g == [left \in 0..0 |-> NodesLevel(0, 0)]
  <2>1. g = F(g, 0)
    BY <1>1
  <2> QED BY <2>1
<1>4. ASSUME NEW n \in Nat, n \in N PROVE n + 1 \in N
  <2>1. PICK g : g = F(g, n)
    BY <1>4
  <2>2. F(g, n + 1) = F(F(g, n + 1), n + 1)
    BY <1>2, <2>1
  <2> HIDE DEF F
  <2> QED BY <2>2
<1>5. TagLength \in N
  <2> HIDE DEF N
  <2> QED BY <1>3, <1>4, SetInduction, ShaMapAssumption
<1>6. InnerNodes = CHOOSE g : g = F(g, TagLength)
  BY DEF InnerNodes, NodesLevel
<1>7. InnerNodes = F(InnerNodes, TagLength)
  BY <1>5, <1>6
<1> QED BY <1>7

\* Below the last nibble there is none.
LEMMA NoInnerNodes == InnerNodes[0] = {}
<1>1. 0 \in 0..TagLength
  BY ShaMapAssumption
<1>2. InnerNodes[0] = NodesLevel(0, InnerNodes[0 - 1])
  BY <1>1, InnerNodesLevels
<1> QED BY <1>2 DEF NodesLevel

\* So are collisions,
LEMMA CollidingLevels ==
  \A left \in 0..TagLength : Colliding[left] = CollidingLevel(left, Colliding[left - 1])
<1> DEFINE F(g, n) == [left \in 0..n |-> CollidingLevel(left, g[left - 1])]
           N == {n \in Nat : \E g : g = F(g, n)}
<1>1. \A x, y : CollidingLevel(0, x) = CollidingLevel(0, y)
  BY NoInnerNodes DEF CollidingLevel
<1>2. ASSUME NEW n \in Nat, NEW g, g = F(g, n)
      PROVE  F(g, n + 1) = F(F(g, n + 1), n + 1)
  <2> DEFINE h == F(g, n + 1)
  <2>1. ASSUME NEW left \in 0..(n + 1)
        PROVE  CollidingLevel(left, g[left - 1]) = CollidingLevel(left, h[left - 1])
    <3>1. CASE left = 0
      BY <1>1, <3>1
    <3>2. CASE left # 0
      <4>1. left - 1 \in 0..n /\ left - 1 \in 0..(n + 1)
        BY <3>2
      <4>2. g[left - 1] = h[left - 1]
        BY <1>2, <4>1
      <4> QED BY <4>2
    <3> QED BY <3>1, <3>2
  <2> QED BY <2>1
<1>3. 0 \in N
  <2> DEFINE g == [left \in 0..0 |-> CollidingLevel(0, 0)]
  <2>1. g = F(g, 0)
    BY <1>1
  <2> QED BY <2>1
<1>4. ASSUME NEW n \in Nat, n \in N PROVE n + 1 \in N
  <2>1. PICK g : g = F(g, n)
    BY <1>4
  <2>2. F(g, n + 1) = F(F(g, n + 1), n + 1)
    BY <1>2, <2>1
  <2> HIDE DEF F
  <2> QED BY <2>2
<1>5. TagLength \in N
  <2> HIDE DEF N
  <2> QED BY <1>3, <1>4, SetInduction, ShaMapAssumption
<1>6. Colliding = CHOOSE g : g = F(g, TagLength)
  BY DEF Colliding, CollidingLevel
<1>7. Colliding = F(Colliding, TagLength)
  BY <1>5, <1>6
<1> QED BY <1>7

\* ... the additions of either implementation,
LEMMA AddingLevels ==
  \A left \in 0..TagLength : Adding[left] = AddingLevel(left, Adding[left - 1])
<1> DEFINE F(g, n) == [left \in 0..n |-> AddingLevel(left, g[left - 1])]
           N == {n \in Nat : \E g : g = F(g, n)}
<1>1. \A x, y : AddingLevel(0, x) = AddingLevel(0, y)
  BY NoInnerNodes DEF AddingLevel
<1>2. ASSUME NEW n \in Nat, NEW g, g = F(g, n)
      PROVE  F(g, n + 1) = F(F(g, n + 1), n + 1)
  <2> DEFINE h == F(g, n + 1)
  <2>1. ASSUME NEW left \in 0..(n + 1)
        PROVE  AddingLevel(left, g[left - 1]) = AddingLevel(left, h[left - 1])
    <3>1. CASE left = 0
      BY <1>1, <3>1
    <3>2. CASE left # 0
      <4>1. left - 1 \in 0..n /\ left - 1 \in 0..(n + 1)
        BY <3>2
      <4>2. g[left - 1] = h[left - 1]
        BY <1>2, <4>1
      <4> QED BY <4>2
    <3> QED BY <3>1, <3>2
  <2> QED BY <2>1
<1>3. 0 \in N
  <2> DEFINE g == [left \in 0..0 |-> AddingLevel(0, 0)]
  <2>1. g = F(g, 0)
    BY <1>1
  <2> QED BY <2>1
<1>4. ASSUME NEW n \in Nat, n \in N PROVE n + 1 \in N
  <2>1. PICK g : g = F(g, n)
    BY <1>4
  <2>2. F(g, n + 1) = F(F(g, n + 1), n + 1)
    BY <1>2, <2>1
  <2> HIDE DEF F
  <2> QED BY <2>2
<1>5. TagLength \in N
  <2> HIDE DEF N
  <2> QED BY <1>3, <1>4, SetInduction, ShaMapAssumption
<1>6. Adding = CHOOSE g : g = F(g, TagLength)
  BY DEF Adding, AddingLevel, AddedTo
<1>7. Adding = F(Adding, TagLength)
  BY <1>5, <1>6
<1> QED BY <1>7

\* ... of the other one,
LEMMA BranchingLevels ==
  \A left \in 0..TagLength : Branching[left] = BranchingLevel(left, Branching[left - 1])
<1> DEFINE F(g, n) == [left \in 0..n |-> BranchingLevel(left, g[left - 1])]
           N == {n \in Nat : \E g : g = F(g, n)}
<1>1. \A x, y : BranchingLevel(0, x) = BranchingLevel(0, y)
  BY NoInnerNodes DEF BranchingLevel
<1>2. ASSUME NEW n \in Nat, NEW g, g = F(g, n)
      PROVE  F(g, n + 1) = F(F(g, n + 1), n + 1)
  <2> DEFINE h == F(g, n + 1)
  <2>1. ASSUME NEW left \in 0..(n + 1)
        PROVE  BranchingLevel(left, g[left - 1]) = BranchingLevel(left, h[left - 1])
    <3>1. CASE left = 0
      BY <1>1, <3>1
    <3>2. CASE left # 0
      <4>1. left - 1 \in 0..n /\ left - 1 \in 0..(n + 1)
        BY <3>2
      <4>2. g[left - 1] = h[left - 1]
        BY <1>2, <4>1
      <4> QED BY <4>2
    <3> QED BY <3>1, <3>2
  <2> QED BY <2>1
<1>3. 0 \in N
  <2> DEFINE g == [left \in 0..0 |-> BranchingLevel(0, 0)]
  <2>1. g = F(g, 0)
    BY <1>1
  <2> QED BY <2>1
<1>4. ASSUME NEW n \in Nat, n \in N PROVE n + 1 \in N
  <2>1. PICK g : g = F(g, n)
    BY <1>4
  <2>2. F(g, n + 1) = F(F(g, n + 1), n + 1)
    BY <1>2, <2>1
  <2> HIDE DEF F
  <2> QED BY <2>2
<1>5. TagLength \in N
  <2> HIDE DEF N
  <2> QED BY <1>3, <1>4, SetInduction, ShaMapAssumption
<1>6. Branching = CHOOSE g : g = F(g, TagLength)
  BY DEF Branching, BranchingLevel
<1>7. Branching = F(Branching, TagLength)
  BY <1>5, <1>6
<1> QED BY <1>7

\* ... and the trees of sets of leaves.
LEMMA TreesLevels ==
  \A left \in 0..TagLength : Trees[left] = TreesLevel(left, Trees[left - 1])
<1> DEFINE F(g, n) == [left \in 0..n |-> TreesLevel(left, g[left - 1])]
           N == {n \in Nat : \E g : g = F(g, n)}
<1>1. \A x, y : TreesLevel(0, x) = TreesLevel(0, y)
  BY DEF TreesLevel
<1>2. ASSUME NEW n \in Nat, NEW g, g = F(g, n)
      PROVE  F(g, n + 1) = F(F(g, n + 1), n + 1)
  <2> DEFINE h == F(g, n + 1)
  <2>1. ASSUME NEW left \in 0..(n + 1)
        PROVE  TreesLevel(left, g[left - 1]) = TreesLevel(left, h[left - 1])
    <3>1. CASE left = 0
      BY <1>1, <3>1
    <3>2. CASE left # 0
      <4>1. left - 1 \in 0..n /\ left - 1 \in 0..(n + 1)
        BY <3>2
      <4>2. g[left - 1] = h[left - 1]
        BY <1>2, <4>1
      <4> QED BY <4>2
    <3> QED BY <3>1, <3>2
  <2> QED BY <2>1
<1>3. 0 \in N
  <2> DEFINE g == [left \in 0..0 |-> TreesLevel(0, 0)]
  <2>1. g = F(g, 0)
    BY <1>1
  <2> QED BY <2>1
<1>4. ASSUME NEW n \in Nat, n \in N PROVE n + 1 \in N
  <2>1. PICK g : g = F(g, n)
    BY <1>4
  <2>2. F(g, n + 1) = F(F(g, n + 1), n + 1)
    BY <1>2, <2>1
  <2> HIDE DEF F
  <2> QED BY <2>2
<1>5. TagLength \in N
  <2> HIDE DEF N
  <2> QED BY <1>3, <1>4, SetInduction, ShaMapAssumption
<1>6. Trees = CHOOSE g : g = F(g, TagLength)
  BY DEF Trees, TreesLevel, There
<1>7. Trees = F(Trees, TagLength)
  BY <1>5, <1>6
<1> QED BY <1>7

\* Leaves that may be in one subtree: their tags are the same down to it, and no two
\* have the same tag.
Together(S, left) ==
  /\ S \subseteq Leaves
  /\ \A l, m \in S : \A i \in 1..(TagLength - left) : l.tag[i] = m.tag[i]
  /\ \A l, m \in S : l.tag = m.tag => l = m

\* Those of one slot are together one level below, where at the end there is one only.
LEMMA ThereFacts ==
  ASSUME NEW left \in 1..TagLength, NEW S, Together(S, left), NEW slot
  PROVE  /\ Together(There(S, left, slot), left - 1)
         /\ left = 1 => \A l, m \in There(S, left, slot) : l = m
<1> DEFINE T == There(S, left, slot)
<1>1. TagLength \in Nat /\ left \in Nat /\ left >= 1 /\ left <= TagLength
  BY ShaMapAssumption
<1>2. T \subseteq S /\ \A l \in T : l.tag[TagLength - left + 1] = slot
  BY DEF There
<1>3. \A i \in 1..(TagLength - (left - 1)) :
        i \in 1..(TagLength - left) \/ i = TagLength - left + 1
  BY <1>1
<1>4. Together(T, left - 1)
  BY <1>2, <1>3 DEF Together
<1>5. ASSUME left = 1, NEW l \in T, NEW m \in T PROVE l = m
  <2>1. \A i \in 1..TagLength : l.tag[i] = m.tag[i]
    <3>1. \A i \in 1..TagLength : i \in 1..(TagLength - left) \/ i = TagLength - left + 1
      BY <1>1, <1>5
    <3> QED BY <1>2, <1>5, <3>1 DEF Together
  <2>2. l.tag \in [1..TagLength -> Nibbles] /\ m.tag \in [1..TagLength -> Nibbles]
    BY <1>2, <1>5, ShaMapAssumption DEF Together, Leaves
  <2>3. \A f, g \in [1..TagLength -> Nibbles] : (\A i \in 1..TagLength : f[i] = g[i]) => f = g
    <3> SUFFICES ASSUME NEW f \in [1..TagLength -> Nibbles], NEW g \in [1..TagLength -> Nibbles],
                        \A i \in 1..TagLength : f[i] = g[i]
                 PROVE  f = g
      OBVIOUS
    <3>1. f = [i \in 1..TagLength |-> f[i]] /\ g = [i \in 1..TagLength |-> g[i]]
      OBVIOUS
    <3> QED BY <3>1
  <2>4. l.tag = m.tag
    BY <2>1, <2>2, <2>3
  <2> QED BY <1>2, <1>5, <2>4 DEF Together
<1> QED BY <1>4, <1>5

\* What a tree has in a slot.
Child(S, left, slot) ==
  IF There(S, left, slot) = {} THEN Empty
  ELSE IF \E leaf \in There(S, left, slot) : There(S, left, slot) = {leaf}
  THEN CHOOSE leaf \in There(S, left, slot) : TRUE
  ELSE Trees[left - 1][There(S, left, slot)]

\* A tree of at least one level, slot by slot.
LEMMA TreeFacts ==
  ASSUME NEW left \in 1..TagLength, NEW S \in SUBSET Leaves
  PROVE  Trees[left][S] = Inner(TagLength - left, [slot \in Nibbles |-> Child(S, left, slot)])
<1>1. left \in 0..TagLength /\ left # 0
  OBVIOUS
<1>2. Trees[left] = TreesLevel(left, Trees[left - 1])
  BY <1>1, TreesLevels
<1> QED BY <1>1, <1>2 DEF TreesLevel, Child

\* Nodes of one kind are not of another.
LEMMA Kinds3 ==
  /\ Empty.kind = "empty"
  /\ \A leaf \in Leaves : leaf.kind = "leaf"
  /\ \A left \in 1..TagLength : \A node \in InnerNodes[left] :
       /\ node.kind = "inner" /\ node.depth = TagLength - left
       /\ node.leaves \in [Nibbles -> {Empty} \cup Leaves \cup InnerNodes[left - 1]]
<1>1. ASSUME NEW left \in 1..TagLength, NEW node \in InnerNodes[left]
      PROVE  /\ node.kind = "inner" /\ node.depth = TagLength - left
             /\ node.leaves \in [Nibbles -> {Empty} \cup Leaves \cup InnerNodes[left - 1]]
  <2>1. left \in 0..TagLength /\ left # 0
    OBVIOUS
  <2>2. node \in NodesLevel(left, InnerNodes[left - 1])
    BY <2>1, InnerNodesLevels
  <2> QED BY <2>1, <2>2 DEF NodesLevel
<1> QED BY <1>1 DEF Empty, Leaves

\* An inner node is one whose slots are.
LEMMA InnerIsNode ==
  ASSUME NEW left \in 1..TagLength,
         NEW f \in [Nibbles -> {Empty} \cup Leaves \cup InnerNodes[left - 1]]
  PROVE  Inner(TagLength - left, f) \in InnerNodes[left]
<1>1. left \in 0..TagLength /\ left # 0
  OBVIOUS
<1> QED BY <1>1, InnerNodesLevels DEF NodesLevel, Inner

\* The trees of leaves that may be in one are inner nodes.
LEMMA TreesAreNodes ==
  \A left \in 1..TagLength : \A S \in SUBSET Leaves :
    Together(S, left) => Trees[left][S] \in InnerNodes[left]
<1> DEFINE N == {n \in Nat : n \in 1..TagLength => \A S \in SUBSET Leaves :
                   Together(S, n) => Trees[n][S] \in InnerNodes[n]}
<1>1. 0 \in N
  OBVIOUS
<1>2. ASSUME NEW n \in Nat, n \in N PROVE n + 1 \in N
  <2> SUFFICES ASSUME n + 1 \in 1..TagLength, NEW S \in SUBSET Leaves, Together(S, n + 1)
               PROVE  Trees[n + 1][S] \in InnerNodes[n + 1]
    OBVIOUS
  <2>1. ASSUME NEW slot \in Nibbles
        PROVE  Child(S, n + 1, slot) \in {Empty} \cup Leaves \cup InnerNodes[(n + 1) - 1]
    <3> DEFINE T == There(S, n + 1, slot)
    <3>1. (n + 1) - 1 = n /\ T \subseteq Leaves /\ Together(T, n)
      <4>1. (n + 1) - 1 = n
        OBVIOUS
      <4>2. Together(T, (n + 1) - 1)
        BY ThereFacts
      <4>3. T \subseteq Leaves
        BY DEF There
      <4> QED BY <4>1, <4>2, <4>3
    <3>2. CASE T = {} \/ \E leaf \in T : T = {leaf}
      BY <3>1, <3>2 DEF Child
    <3>3. CASE T # {} /\ ~ \E leaf \in T : T = {leaf}
      <4>1. n # 0
        BY <3>3, ThereFacts
      <4>2. n \in 1..TagLength
        BY <4>1, ShaMapAssumption
      <4>3. Trees[n][T] \in InnerNodes[n]
        BY <1>2, <3>1, <4>2
      <4> QED BY <3>1, <3>3, <4>3 DEF Child
    <3> QED BY <3>2, <3>3
  <2>2. [slot \in Nibbles |-> Child(S, n + 1, slot)]
          \in [Nibbles -> {Empty} \cup Leaves \cup InnerNodes[(n + 1) - 1]]
    BY <2>1
  <2>3. Inner(TagLength - (n + 1), [slot \in Nibbles |-> Child(S, n + 1, slot)]) \in InnerNodes[n + 1]
    BY <2>2, InnerIsNode
  <2> QED BY <2>3, TreeFacts
<1> HIDE DEF N
<1>3. \A n \in Nat : n \in N
  BY <1>1, <1>2, SetInduction
<1> QED BY <1>3 DEF N

\* What is in the slot that a tag goes to.
LEMMA ExistingFacts ==
  ASSUME NEW n \in Nat, n + 1 \in 1..TagLength, NEW node \in InnerNodes[n + 1], NEW tag \in Tags
  PROVE  LET existing == node.leaves[Slot(node, tag)]
         IN /\ Slot(node, tag) \in Nibbles /\ node.depth = TagLength - (n + 1)
            /\ existing \in {Empty} \cup Leaves \cup InnerNodes[n]
            /\ existing.kind = "empty" <=> existing = Empty
            /\ existing.kind = "leaf" <=> existing \in Leaves
            /\ existing.kind = "inner" <=> existing \in InnerNodes[n]
            /\ existing.kind \in {"empty", "leaf", "inner"}
<1> DEFINE existing == node.leaves[Slot(node, tag)]
<1>1. (n + 1) - 1 = n /\ TagLength \in Nat
  BY ShaMapAssumption
<1>2. node.depth = TagLength - (n + 1)
  BY Kinds3
<1>3. Slot(node, tag) \in Nibbles
  <2>1. node.depth + 1 \in 1..TagLength
    BY <1>1, <1>2
  <2>2. tag \in [1..TagLength -> Nibbles]
    BY ShaMapAssumption
  <2> QED BY <2>1, <2>2 DEF Slot
<1>4. node.leaves \in [Nibbles -> {Empty} \cup Leaves \cup InnerNodes[n]]
  BY <1>1, Kinds3
<1>5. existing \in {Empty} \cup Leaves \cup InnerNodes[n]
  BY <1>3, <1>4
<1>6. \A m \in InnerNodes[n] : m.kind = "inner"
  <2>1. CASE n = 0
    BY <2>1, NoInnerNodes
  <2>2. CASE n # 0
    <3>1. n \in 1..TagLength
      BY <2>2, <1>1
    <3> QED BY <3>1, Kinds3
  <2> QED BY <2>1, <2>2
<1>7. /\ \A leaf \in Leaves : leaf.kind = "leaf"
      /\ Empty.kind = "empty"
  BY Kinds3
<1> HIDE DEF existing
<1>8. /\ existing.kind = "empty" <=> existing = Empty
      /\ existing.kind = "leaf" <=> existing \in Leaves
      /\ existing.kind = "inner" <=> existing \in InnerNodes[n]
      /\ existing.kind \in {"empty", "leaf", "inner"}
  BY <1>5, <1>6, <1>7
<1> QED BY <1>2, <1>3, <1>5, <1>8 DEF existing

\* The two implementations of addItem are one function.
LEMMA BranchingIsAdding == \A n \in 0..TagLength : Branching[n] = Adding[n]
<1> DEFINE N == {n \in Nat : n \in 0..TagLength => Branching[n] = Adding[n]}
<1>1. 0 \in N
  <2>1. 0 \in 0..TagLength
    BY ShaMapAssumption
  <2>2. Branching[0] = BranchingLevel(0, Branching[0 - 1]) /\ Adding[0] = AddingLevel(0, Adding[0 - 1])
    BY <2>1, BranchingLevels, AddingLevels
  <2>3. \A x, y : BranchingLevel(0, x) = AddingLevel(0, y)
    BY NoInnerNodes DEF BranchingLevel, AddingLevel, AddedTo
  <2>4. Branching[0] = Adding[0]
    BY <2>2, <2>3
  <2> QED BY <2>4
<1>2. ASSUME NEW n \in Nat, n \in N PROVE n + 1 \in N
  <2> SUFFICES ASSUME n + 1 \in 0..TagLength PROVE Branching[n + 1] = Adding[n + 1]
    OBVIOUS
  <2>1. n \in 0..TagLength /\ n + 1 \in 1..TagLength /\ (n + 1) - 1 = n
    BY ShaMapAssumption
  <2>2. Branching[n + 1] = BranchingLevel(n + 1, Branching[n])
    BY <2>1, BranchingLevels
  <2>3. Adding[n + 1] = AddingLevel(n + 1, Adding[n])
    BY <2>1, AddingLevels
  <2>4. Branching[n] = Adding[n]
    BY <1>2, <2>1
  <2>5. ASSUME NEW g PROVE BranchingLevel(n + 1, g) = AddingLevel(n + 1, g)
    <3>1. ASSUME NEW node \in InnerNodes[n + 1], NEW leaf \in Leaves
          PROVE  LET existing == node.leaves[Slot(node, leaf.tag)]
                     newInner == g[NewInner(node.depth + 1)][existing]
                 IN (IF existing.kind = "empty" THEN leaf
                     ELSE IF existing.kind = "leaf" THEN g[newInner][leaf]
                     ELSE g[existing][leaf])
                    = (IF existing.kind = "empty" THEN leaf
                       ELSE IF existing.kind = "inner" THEN g[existing][leaf]
                       ELSE g[newInner][leaf])
      <4>1. leaf.tag \in Tags
        BY DEF Leaves
      <4> QED BY <2>1, <4>1, ExistingFacts
    <3> QED BY <3>1 DEF BranchingLevel, AddingLevel, AddedTo
  <2> QED BY <2>2, <2>3, <2>4, <2>5
<1> HIDE DEF N
<1>3. \A n \in Nat : n \in N
  BY <1>1, <1>2, SetInduction
<1> QED BY <1>3 DEF N

\* The new inner node of a level is its empty tree.
LEMMA NewInnerIsTree ==
  ASSUME NEW n \in 1..TagLength PROVE NewInner(TagLength - n) = Trees[n][{}]
<1>1. \A slot \in Nibbles : Child({}, n, slot) = Empty
  BY DEF Child, There
<1>2. Trees[n][{}] = Inner(TagLength - n, [slot \in Nibbles |-> Child({}, n, slot)])
  BY TreeFacts
<1> QED BY <1>1, <1>2 DEF NewInner

\* Part of what is together is together.
LEMMA TogetherPart ==
  ASSUME NEW left, NEW S, Together(S, left), NEW T \in SUBSET S PROVE Together(T, left)
BY DEF Together

\* One addition, by those one level below.
LEMMA AddingStep ==
  ASSUME NEW n \in Nat, n + 1 \in 0..TagLength, NEW node \in InnerNodes[n + 1], NEW leaf \in Leaves
  PROVE  Adding[n + 1][node][leaf] = AddedTo(node, leaf, Adding[n])
<1>1. (n + 1) - 1 = n
  OBVIOUS
<1>2. Adding[n + 1] = AddingLevel(n + 1, Adding[n])
  BY <1>1, AddingLevels
<1> QED BY <1>2 DEF AddingLevel

\* addItem on the tree of some leaves makes the tree of these and the new one.
LEMMA AddingAdds ==
  \A n \in 1..TagLength : \A S \in SUBSET Leaves : \A l \in Leaves :
    l \notin S /\ Together(S \cup {l}, n) => Adding[n][Trees[n][S]][l] = Trees[n][S \cup {l}]
<1> DEFINE P(n, S, l) == Adding[n][Trees[n][S]][l] = Trees[n][S \cup {l}]
           N == {n \in Nat : n \in 1..TagLength =>
                   \A S \in SUBSET Leaves : \A l \in Leaves :
                     l \notin S /\ Together(S \cup {l}, n) => P(n, S, l)}
<1>1. 0 \in N
  OBVIOUS
<1>2. ASSUME NEW n \in Nat, n \in N PROVE n + 1 \in N
  <2> SUFFICES ASSUME n + 1 \in 1..TagLength, NEW S \in SUBSET Leaves, NEW l \in Leaves,
                      l \notin S, Together(S \cup {l}, n + 1)
               PROVE  Adding[n + 1][Trees[n + 1][S]][l] = Trees[n + 1][S \cup {l}]
    OBVIOUS
  <2> DEFINE node == Trees[n + 1][S]
             s == l.tag[TagLength - (n + 1) + 1]
             T == There(S, n + 1, s)
             U == There(S \cup {l}, n + 1, s)
             existing == node.leaves[Slot(node, l.tag)]
             X == IF existing.kind = "empty" THEN l
                  ELSE IF existing.kind = "inner" THEN Adding[n][existing][l]
                  ELSE Adding[n][Adding[n][NewInner(node.depth + 1)][existing]][l]
  <2>1. (n + 1) - 1 = n /\ TagLength \in Nat /\ n + 1 \in 0..TagLength /\ l.tag \in Tags
    BY ShaMapAssumption DEF Leaves
  <2>2. Together(S, n + 1)
    BY TogetherPart
  <2>3. node \in InnerNodes[n + 1]
    BY <2>2, TreesAreNodes
  <2>4. node = Inner(TagLength - (n + 1), [slot \in Nibbles |-> Child(S, n + 1, slot)])
    BY TreeFacts
  <2>5. node.depth = TagLength - (n + 1) /\ Slot(node, l.tag) = s /\ s \in Nibbles
    <3>1. node.depth = TagLength - (n + 1)
      BY <2>4 DEF Inner
    <3>2. Slot(node, l.tag) = s
      BY <3>1 DEF Slot
    <3>3. Slot(node, l.tag) \in Nibbles
      BY <2>1, <2>3, ExistingFacts
    <3> QED BY <3>1, <3>2, <3>3
  <2>6. existing = Child(S, n + 1, s)
    BY <2>4, <2>5 DEF Inner
  <2>7. Adding[n + 1][node][l] = SetNode(node, s, X)
    <3> HIDE DEF node, s
    <3>1. Adding[n + 1][node][l] = SetNode(node, Slot(node, l.tag), X)
      <4>1. Adding[n + 1][node][l] = AddedTo(node, l, Adding[n])
        BY <2>1, <2>3, AddingStep
      <4> QED BY <4>1 DEF AddedTo
    <3>2. Slot(node, l.tag) = s
      BY <2>5
    <3> HIDE DEF X
    <3> QED BY <3>1, <3>2
  <2>8. U = T \cup {l} /\ l \notin T /\ T \subseteq S
    BY DEF There
  <2>9. \A slot \in Nibbles \ {s} : There(S \cup {l}, n + 1, slot) = There(S, n + 1, slot)
    BY DEF There
  <2>10. Together(U, n) /\ (n + 1 = 1 => \A a, b \in U : a = b)
    <3>1. Together(U, (n + 1) - 1) /\ (n + 1 = 1 => \A a, b \in U : a = b)
      BY ThereFacts
    <3> QED BY <2>1, <3>1
  <2>11. n # 0 /\ T # {} => n \in 1..TagLength
    BY <2>1
  <2>12. T # {} => n \in 1..TagLength
    BY <2>8, <2>10, <2>11
  <2>13. X = Child(S \cup {l}, n + 1, s)
    <3> HIDE DEF node, s, T, U, existing
    <3>1. CASE T = {}
      <4>1. existing.kind = "empty"
        BY <2>6, <3>1, Kinds3 DEF Child, T
      <4>2. U = {l}
        BY <2>8, <3>1
      <4>3. Child(S \cup {l}, n + 1, s) = l
        BY <4>2 DEF Child, U
      <4> QED BY <4>1, <4>3
    <3>2. ASSUME NEW e \in T, T = {e} PROVE X = Child(S \cup {l}, n + 1, s)
      <4>1. existing = e
        BY <2>6, <3>2 DEF Child, T
      <4>2. e \in Leaves /\ e # l /\ U = {e} \cup {l}
        BY <2>8, <3>2
      <4>3. existing.kind = "leaf"
        BY <4>1, <4>2, Kinds3
      <4>4. n \in 1..TagLength
        BY <2>12, <3>2
      <4>5. NewInner(node.depth + 1) = Trees[n][{}]
        <5>1. TagLength - (n + 1) + 1 = TagLength - n
          BY <2>1
        <5>2. NewInner(TagLength - n) = Trees[n][{}]
          BY <4>4, NewInnerIsTree
        <5> QED BY <2>5, <5>1, <5>2
      <4>6. Adding[n][Trees[n][{}]][e] = Trees[n][{e}]
        <5>1. Together({} \cup {e}, n)
          BY <2>10, <4>2, TogetherPart
        <5>2. P(n, {}, e)
          BY <1>2, <4>2, <4>4, <5>1
        <5>3. {} \cup {e} = {e}
          OBVIOUS
        <5> QED BY <5>2, <5>3
      <4>7. Adding[n][Trees[n][{e}]][l] = Trees[n][U]
        <5>1. Together({e} \cup {l}, n) /\ l \notin {e}
          BY <2>10, <4>2
        <5>2. P(n, {e}, l)
          BY <1>2, <4>2, <4>4, <5>1
        <5> QED BY <4>2, <5>2
      <4>8. Child(S \cup {l}, n + 1, s) = Trees[n][U]
        <5>1. U # {} /\ ~ \E leaf \in U : U = {leaf}
          BY <4>2
        <5> QED BY <2>1, <5>1 DEF Child, U
      <4> QED BY <4>1, <4>3, <4>5, <4>6, <4>7, <4>8
    <3>3. CASE T # {} /\ ~ \E leaf \in T : T = {leaf}
      <4>1. n \in 1..TagLength
        BY <2>12, <3>3
      <4>2. existing = Trees[n][T]
        BY <2>1, <2>6, <3>3 DEF Child, T
      <4>3. Together(T, n) /\ T \in SUBSET Leaves
        BY <2>8, <2>10, TogetherPart
      <4>4. existing.kind = "inner"
        <5>1. Trees[n][T] \in InnerNodes[n]
          BY <4>1, <4>3, TreesAreNodes
        <5> QED BY <4>1, <4>2, <5>1, Kinds3
      <4>5. Adding[n][Trees[n][T]][l] = Trees[n][U]
        <5>1. P(n, T, l)
          BY <1>2, <2>8, <2>10, <4>1, <4>3
        <5> QED BY <2>8, <5>1
      <4>6. Child(S \cup {l}, n + 1, s) = Trees[n][U]
        <5>1. U # {} /\ ~ \E leaf \in U : U = {leaf}
          BY <2>8, <3>3
        <5> QED BY <2>1, <5>1 DEF Child, U
      <4> QED BY <4>2, <4>4, <4>5, <4>6
    <3> QED BY <3>1, <3>2, <3>3
  <2>14. [[slot \in Nibbles |-> Child(S, n + 1, slot)] EXCEPT ![s] = X]
           = [slot \in Nibbles |-> Child(S \cup {l}, n + 1, slot)]
    <3>1. \A slot \in Nibbles \ {s} : Child(S \cup {l}, n + 1, slot) = Child(S, n + 1, slot)
      BY <2>9 DEF Child
    <3> HIDE DEF s, X
    <3> QED BY <2>13, <3>1
  <2>15. SetNode(node, s, X) = Inner(TagLength - (n + 1), [slot \in Nibbles |-> Child(S \cup {l}, n + 1, slot)])
    <3> HIDE DEF node, s, X
    <3>1. /\ node.depth = TagLength - (n + 1)
          /\ node.leaves = [slot \in Nibbles |-> Child(S, n + 1, slot)]
      BY <2>4 DEF Inner
    <3> QED BY <2>14, <3>1 DEF SetNode
  <2>16. Trees[n + 1][S \cup {l}]
           = Inner(TagLength - (n + 1), [slot \in Nibbles |-> Child(S \cup {l}, n + 1, slot)])
    BY TreeFacts
  <2> QED BY <2>7, <2>15, <2>16
<1> HIDE DEF N
<1>3. \A n \in Nat : n \in N
  BY <1>1, <1>2, SetInduction
<1> QED BY <1>3 DEF N

\* A tree has a tag exactly if one of its leaves does.
LEMMA CollidingFinds ==
  \A n \in 1..TagLength : \A S \in SUBSET Leaves : \A tag \in Tags :
    Together(S, n) /\ (\A l \in S : \A i \in 1..(TagLength - n) : l.tag[i] = tag[i])
      => (Colliding[n][Trees[n][S]][tag] <=> \E l \in S : l.tag = tag)
<1> DEFINE Down(n, S, tag) == \A l \in S : \A i \in 1..(TagLength - n) : l.tag[i] = tag[i]
           P(n, S, tag) == Colliding[n][Trees[n][S]][tag] <=> \E l \in S : l.tag = tag
           N == {n \in Nat : n \in 1..TagLength =>
                   \A S \in SUBSET Leaves : \A tag \in Tags :
                     Together(S, n) /\ Down(n, S, tag) => P(n, S, tag)}
<1>1. 0 \in N
  OBVIOUS
<1>2. ASSUME NEW n \in Nat, n \in N PROVE n + 1 \in N
  <2> SUFFICES ASSUME n + 1 \in 1..TagLength, NEW S \in SUBSET Leaves, NEW tag \in Tags,
                      Together(S, n + 1), Down(n + 1, S, tag)
               PROVE  P(n + 1, S, tag)
    OBVIOUS
  <2> DEFINE node == Trees[n + 1][S]
             s == tag[TagLength - (n + 1) + 1]
             T == There(S, n + 1, s)
             existing == node.leaves[Slot(node, tag)]
  <2>1. (n + 1) - 1 = n /\ TagLength \in Nat /\ n + 1 \in 0..TagLength
    BY ShaMapAssumption
  <2>3. node \in InnerNodes[n + 1]
    BY TreesAreNodes
  <2>4. node = Inner(TagLength - (n + 1), [slot \in Nibbles |-> Child(S, n + 1, slot)])
    BY TreeFacts
  <2>5. Slot(node, tag) = s /\ s \in Nibbles
    <3>1. node.depth = TagLength - (n + 1)
      BY <2>4 DEF Inner
    <3>2. Slot(node, tag) = s
      BY <3>1 DEF Slot
    <3>3. Slot(node, tag) \in Nibbles
      BY <2>1, <2>3, ExistingFacts
    <3> QED BY <3>2, <3>3
  <2>6. existing = Child(S, n + 1, s)
    BY <2>4, <2>5 DEF Inner
  <2>7. Colliding[n + 1][node][tag]
          <=> \/ existing.kind = "leaf" /\ existing.tag = tag
              \/ existing.kind = "inner" /\ Colliding[n][existing][tag]
    <3>1. Colliding[n + 1] = CollidingLevel(n + 1, Colliding[n])
      BY <2>1, CollidingLevels
    <3> HIDE DEF node
    <3> QED BY <2>3, <3>1 DEF CollidingLevel
  <2>8. T \subseteq S /\ \A l \in S : l.tag = tag => l \in T
    BY DEF There
  <2>9. (\E l \in S : l.tag = tag) <=> \E l \in T : l.tag = tag
    BY <2>8
  <2>10. Together(T, n) /\ (n + 1 = 1 => \A a, b \in T : a = b)
    <3>1. Together(T, (n + 1) - 1) /\ (n + 1 = 1 => \A a, b \in T : a = b)
      BY ThereFacts
    <3> QED BY <2>1, <3>1
  <2>11. (\/ existing.kind = "leaf" /\ existing.tag = tag
          \/ existing.kind = "inner" /\ Colliding[n][existing][tag])
         <=> \E l \in T : l.tag = tag
    <3>0. \A l \in T : l.tag[TagLength - (n + 1) + 1] = s
      BY DEF There
    <3> HIDE DEF node, s, T, existing
    <3>1. CASE T = {}
      <4>1. existing.kind = "empty"
        BY <2>6, <3>1, Kinds3 DEF Child, T
      <4> QED BY <3>1, <4>1
    <3>2. ASSUME NEW e \in T, T = {e}
          PROVE  (\/ existing.kind = "leaf" /\ existing.tag = tag
                  \/ existing.kind = "inner" /\ Colliding[n][existing][tag])
                 <=> \E l \in T : l.tag = tag
      <4>1. existing = e
        BY <2>6, <3>2 DEF Child, T
      <4>2. existing.kind = "leaf"
        BY <2>8, <4>1, <3>2, Kinds3
      <4> QED BY <3>2, <4>1, <4>2
    <3>3. CASE T # {} /\ ~ \E leaf \in T : T = {leaf}
      <4>1. n \in 1..TagLength
        <5>1. n # 0
          BY <2>10, <3>3
        <5> QED BY <2>1, <5>1
      <4>2. existing = Trees[n][T]
        BY <2>1, <2>6, <3>3 DEF Child, T
      <4>3. T \in SUBSET Leaves
        BY <2>8
      <4>4. existing.kind = "inner"
        <5>1. Trees[n][T] \in InnerNodes[n]
          BY <2>10, <4>1, <4>3, TreesAreNodes
        <5> QED BY <4>1, <4>2, <5>1, Kinds3
      <4>5. Down(n, T, tag)
        <5>1. \A i \in 1..(TagLength - n) :
                i \in 1..(TagLength - (n + 1)) \/ i = TagLength - (n + 1) + 1
          BY <2>1
        <5>2. \A l \in T : \A i \in 1..(TagLength - (n + 1)) : l.tag[i] = tag[i]
          BY <2>8
        <5>3. s = tag[TagLength - (n + 1) + 1]
          BY DEF s
        <5> QED BY <3>0, <5>1, <5>2, <5>3
      <4>6. P(n, T, tag)
        BY <1>2, <2>10, <4>1, <4>3, <4>5
      <4> QED BY <4>2, <4>4, <4>6
    <3> QED BY <3>1, <3>2, <3>3
  <2> HIDE DEF existing
  <2> QED BY <2>7, <2>9, <2>11
<1> HIDE DEF N
<1>3. \A n \in Nat : n \in N
  BY <1>1, <1>2, SetInduction
<1> QED BY <1>3 DEF N

\* Items have different tags, and both trees are theirs.
ShaInv ==
  /\ items \subseteq Leaves
  /\ \A l, m \in items : l.tag = m.tag => l = m
  /\ root = TreeOf(items)
  /\ codec = TreeOf(items)

\* The items are together from the root, whose depth is 0.
LEMMA ItemsTogether ==
  ASSUME NEW S, S \subseteq Leaves, \A l, m \in S : l.tag = m.tag => l = m
  PROVE  /\ Together(S, TagLength) /\ TagLength \in 1..TagLength /\ TagLength \in 0..TagLength
         /\ TagLength - TreeOf(S).depth = TagLength
<1>1. TagLength \in Nat /\ TagLength \in 1..TagLength /\ TagLength \in 0..TagLength /\ TagLength - TagLength = 0
  BY ShaMapAssumption
<1>2. Together(S, TagLength)
  <2>1. 1..0 = {}
    OBVIOUS
  <2>2. \A l, m \in S : \A i \in 1..(TagLength - TagLength) : l.tag[i] = m.tag[i]
    BY <1>1, <2>1
  <2> QED BY <2>2 DEF Together
<1>3. TreeOf(S).depth = 0
  <2>1. Trees[TagLength][S]
          = Inner(TagLength - TagLength, [slot \in Nibbles |-> Child(S, TagLength, slot)])
    BY <1>1, TreeFacts
  <2> QED BY <1>1, <2>1 DEF TreeOf, Inner
<1> QED BY <1>1, <1>2, <1>3

\* At the root, whether an item collides.
LEMMA ItemCollides ==
  ASSUME ShaInv, NEW tag \in Tags
  PROVE  Collides(root, tag) <=> \E leaf \in items : leaf.tag = tag
<1>1. /\ Together(items, TagLength) /\ TagLength \in 1..TagLength
      /\ TagLength - root.depth = TagLength
  BY ItemsTogether DEF ShaInv
<1>2. \A l \in items : \A i \in 1..(TagLength - TagLength) : l.tag[i] = tag[i]
  <2>1. TagLength - TagLength = 0 /\ 1..0 = {}
    BY ShaMapAssumption
  <2> QED BY <2>1
<1>3. Colliding[TagLength][Trees[TagLength][items]][tag] <=> \E l \in items : l.tag = tag
  BY <1>1, <1>2, CollidingFinds DEF ShaInv
<1> QED BY <1>1, <1>3 DEF Collides, ShaInv, TreeOf

\* Nothing was added yet, and the tree of nothing has empty slots.
LEMMA ShaInvInit == ShaInit => ShaInv
<1> SUFFICES ASSUME ShaInit PROVE ShaInv
  OBVIOUS
<1>1. TagLength \in 1..TagLength /\ TagLength - TagLength = 0
  BY ShaMapAssumption
<1>2. NewInner(TagLength - TagLength) = Trees[TagLength][{}]
  BY <1>1, NewInnerIsTree
<1> QED BY <1>1, <1>2 DEF ShaInit, ShaInv, TreeOf

\* An item goes into both trees, or collides and into none.
LEMMA ShaInvNext == ShaInv /\ [ShaNext]_shaVars => ShaInv'
<1> SUFFICES ASSUME ShaInv, [ShaNext]_shaVars PROVE ShaInv'
  OBVIOUS
<1>1. ASSUME NEW tag \in Tags, NEW data \in Data, ShaMapAdd(Leaf(tag, data)) PROVE ShaInv'
  <2> DEFINE leaf == Leaf(tag, data)
  <2>1. leaf \in Leaves /\ leaf.tag = tag
    BY DEF Leaf, Leaves
  <2>2. CASE Collides(root, leaf.tag)
    BY <1>1, <2>2 DEF ShaMapAdd, ShaInv
  <2>3. CASE ~ Collides(root, leaf.tag)
    <3>1. /\ root' = AddItem(root, leaf) /\ codec' = AddBranch(codec, leaf)
          /\ items' = items \cup {leaf}
      BY <1>1, <2>3 DEF ShaMapAdd
    <3> HIDE DEF leaf
    <3>2. \A l \in items : l.tag # leaf.tag
      BY <2>1, <2>3, ItemCollides
    <3>3. /\ items' \subseteq Leaves
          /\ \A l, m \in items' : l.tag = m.tag => l = m
      BY <2>1, <3>1, <3>2 DEF ShaInv
    <3>4. Together(items \cup {leaf}, TagLength) /\ TagLength \in 1..TagLength /\ TagLength \in 0..TagLength
      BY <3>1, <3>3, ItemsTogether
    <3>5. TagLength - root.depth = TagLength /\ codec = root
      BY ItemsTogether DEF ShaInv
    <3>6. Adding[TagLength][Trees[TagLength][items]][leaf] = Trees[TagLength][items \cup {leaf}]
      BY <2>1, <3>2, <3>4, AddingAdds DEF ShaInv
    <3>7. AddItem(root, leaf) = TreeOf(items \cup {leaf})
      BY <3>5, <3>6 DEF AddItem, ShaInv, TreeOf
    <3>8. AddBranch(codec, leaf) = AddItem(root, leaf)
      BY <3>4, <3>5, BranchingIsAdding DEF AddItem, AddBranch
    <3> QED BY <3>1, <3>3, <3>7, <3>8 DEF ShaInv
  <2> QED BY <2>2, <2>3
<1>2. CASE UNCHANGED shaVars
  BY <1>2 DEF shaVars, ShaInv
<1> QED BY <1>1, <1>2 DEF ShaNext

\* The hash depends only on what was added, the two implementations agree on it, and
\* an item is refused exactly if its tag is there (both addItem).
THEOREM TreesAreAlwaysCanonical == ShaSpec => []TreesAreCanonical
<1>1. ShaInv => TreesAreCanonical
  <2> SUFFICES ASSUME ShaInv PROVE TreesAreCanonical
    OBVIOUS
  <2>1. OrderDoesNotMatter /\ TreesAgree
    BY DEF ShaInv, OrderDoesNotMatter, TreesAgree
  <2>2. CollisionsAreFound
    BY ItemCollides DEF CollisionsAreFound
  <2> QED BY <2>1, <2>2 DEF TreesAreCanonical
<1> QED BY <1>1, ShaInvInit, ShaInvNext, PTL DEF ShaSpec

=====================================================================================
