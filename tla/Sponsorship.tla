--------------------------------- MODULE Sponsorship ---------------------------------
(***************************************************************************)
(* validateSponsorship (sugar/validateSponsorship.ts): before a sponsored  *)
(* transaction is submitted, the Sponsorship entry of its sponsor and      *)
(* sponsee is read and the transaction checked against it.  Several        *)
(* transactions draw on one entry, and the sponsor may change it, between  *)
(* the check of one and its application.                                   *)
(*                                                                         *)
(* An optional field is a sequence of at most one value.  Abstracted: the  *)
(* text of the errors; a transaction that lacks Sponsor, SponsorFlags or a *)
(* fee is refused before anything is asked.                                *)
(***************************************************************************)
EXTENDS Integers, Sequences, FiniteSets

CONSTANTS
  Sponsored,    \* transactions under one sponsorship
  Demands,      \* what a transaction may ask: [fee, ofFee, ofReserve, coSigned]
  Entries,      \* entries the sponsor may make, or <<>> for none
  MaxVersions   \* bound: changes of the entry

AtMostOne(S) == {s \in Seq(S) : Len(s) <= 1}

\* FeeAmount, MaxFee, RemainingOwnerCount; the sponsor must sign for fee or reserve.
Entry == [feeAmount : AtMostOne(Nat), maxFee : AtMostOne(Nat), owners : Nat,
          signFee : BOOLEAN, signReserve : BOOLEAN]

ASSUME SponsorshipAssumption ==
  /\ Entries \subseteq AtMostOne(Entry)
  /\ Demands \subseteq [fee : Nat \ {0}, ofFee : BOOLEAN, ofReserve : BOOLEAN,
                        coSigned : BOOLEAN]
  /\ \A d \in Demands : d.ofFee \/ d.ofReserve
  /\ MaxVersions \in Nat

VARIABLES
  entry,     \* the entry, a sequence of at most one
  version,   \* how often it has changed
  demand,    \* what every transaction asks, a sequence of at most one
  verdict,   \* "none", "asked", "valid", "invalid" or "failed"
  readAt,    \* the version that was read for it
  fate       \* "none", "applied", or "refused" by the ledger

spVars == <<entry, version, demand, verdict, readAt, fate>>

SPInit ==
  /\ entry \in Entries /\ version = 0
  /\ demand = [t \in Sponsored |-> <<>>]
  /\ verdict = [t \in Sponsored |-> "none"]
  /\ readAt = [t \in Sponsored |-> 0]
  /\ fate = [t \in Sponsored |-> "none"]

-----------------------------------------------------------------------------

\* Mutant: the caps of the entry are not compared when the sponsor has co-signed.
Valid_CoSignedSkips(d) ==
  \/ d.coSigned
  \/ /\ entry # <<>>
     /\ ~(d.ofFee /\ entry[1].signFee) /\ ~(d.ofReserve /\ entry[1].signReserve)
     /\ d.ofReserve => entry[1].owners >= 1
     /\ d.ofFee => /\ entry[1].feeAmount # <<>> /\ d.fee <= entry[1].feeAmount[1]
                   /\ entry[1].maxFee # <<>> => d.fee <= entry[1].maxFee[1]

\* What validateSponsorship makes of the entry it was given.
Valid(d) ==
  IF entry = <<>> THEN d.coSigned
  ELSE LET e == entry[1] IN
       /\ ~d.coSigned => ~(d.ofFee /\ e.signFee) /\ ~(d.ofReserve /\ e.signReserve)
       /\ d.ofReserve => e.owners >= 1
       /\ d.ofFee => /\ e.feeAmount # <<>> /\ d.fee <= e.feeAmount[1]
                     /\ e.maxFee # <<>> => d.fee <= e.maxFee[1]

ValidateSponsorship(t, d) ==
  /\ verdict[t] = "none"
  /\ demand' = [demand EXCEPT ![t] = <<d>>]
  /\ verdict' = [verdict EXCEPT ![t] = "asked"]
  /\ UNCHANGED <<entry, version, readAt, fate>>

\* getSponsorshipEntry; entryNotFound is no entry ...
EntryIsRead(t) ==
  /\ verdict[t] = "asked"
  /\ readAt' = [readAt EXCEPT ![t] = version]
  /\ verdict' = [verdict EXCEPT ![t] = IF Valid(demand[t][1]) THEN "valid" ELSE "invalid"]
  /\ UNCHANGED <<entry, version, demand, fate>>

\* ... and any other error makes the transaction invalid.
RequestFails(t) ==
  /\ verdict[t] = "asked"
  /\ verdict' = [verdict EXCEPT ![t] = "failed"]
  /\ UNCHANGED <<entry, version, demand, readAt, fate>>

-----------------------------------------------------------------------------
(* The ledger, by the rules that the comments of validateSponsorship give. *)

Authorized(d) ==
  d.coSigned \/ /\ entry # <<>>
                /\ d.ofFee => ~entry[1].signFee
                /\ d.ofReserve => ~entry[1].signReserve

\* An entry is charged, and its budget must do, whoever has signed.
WithinBudget(d) ==
  entry = <<>> \/
    /\ d.ofReserve => entry[1].owners > 0
    /\ d.ofFee => \E budget \in {entry[1].feeAmount} :
         budget # <<>> /\ budget[1] - d.fee >= 0
         /\ \A i \in DOMAIN entry[1].maxFee : d.fee <= entry[1].maxFee[i]

Charged(e, d) ==
  [feeAmount |-> IF d.ofFee THEN <<e.feeAmount[1] - d.fee>> ELSE e.feeAmount,
   maxFee |-> e.maxFee,
   owners |-> IF d.ofReserve THEN e.owners - 1 ELSE e.owners,
   signFee |-> e.signFee, signReserve |-> e.signReserve]

\* The caller submits what was found valid.
SubmitSponsored(t) ==
  /\ verdict[t] = "valid"
  /\ fate[t] = "none"
  /\ LET d == demand[t][1] IN
     IF Authorized(d) /\ WithinBudget(d)
     THEN /\ fate' = [fate EXCEPT ![t] = "applied"]
          /\ entry' = IF entry = <<>> THEN <<>> ELSE <<Charged(entry[1], d)>>
          /\ version' = version + 1
     ELSE /\ fate' = [fate EXCEPT ![t] = "refused"]
          /\ UNCHANGED <<entry, version>>
  /\ UNCHANGED <<demand, verdict, readAt>>

\* SponsorshipSet
SponsorChanges(e) ==
  /\ version < MaxVersions
  /\ entry' = e
  /\ version' = version + 1
  /\ UNCHANGED <<demand, verdict, readAt, fate>>

SPNext ==
  \/ \E t \in Sponsored :
       \/ \E d \in Demands : ValidateSponsorship(t, d)
       \/ EntryIsRead(t) \/ RequestFails(t) \/ SubmitSponsored(t)
  \/ \E e \in Entries : SponsorChanges(e)

SPSpec == SPInit /\ [][SPNext]_spVars

-----------------------------------------------------------------------------

\* A transaction that was found valid is refused by the ledger only if the entry
\* has changed since it was read: another transaction drew on it, or the sponsor
\* set it anew.
RefusedOnlyIfStale ==
  \A t \in Sponsored : fate[t] = "refused" => readAt[t] # version

\* ... and one that was found invalid would have been refused too.
InvalidIsRefused ==
  \A t \in Sponsored :
    verdict[t] = "invalid" /\ readAt[t] = version =>
      ~(Authorized(demand[t][1]) /\ WithinBudget(demand[t][1]))

\* The verdict on a transaction is what the ledger's would have been when the entry
\* was read, both ways, whatever else draws on the entry.
VerdictsAreTheLedgers == RefusedOnlyIfStale /\ InvalidIsRefused

=============================================================================
