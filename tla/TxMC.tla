----------------------------------- MODULE TxMC -----------------------------------
(* What is done to a transaction and read out of one, each part on a small  *)
(* instance: a behaviour runs one of them.                                  *)
EXTENDS Signing, Autofill, AutofillFee, BinaryCodec, Metadata, ShaMap, TLC

\* Two wallets that sign for themselves, the second also for a third account.
MCAccounts == 1..3
MCKeys == {<<1, 1>>, <<2, 2>>, <<2, 3>>}

Bare(type) == [type |-> type, fulfillment |-> None]
Finish(size) == [type |-> "EscrowFinish", fulfillment |-> size]

MCInnerTypes ==
  {<<>>, <<Bare("plain"), Finish(None)>>, <<Bare("special"), Bare("plain")>>,
   <<Bare("LoanSet"), Bare("confidential")>>, <<Finish(7), Bare("plain")>>}

MCFulfillments == {None, 0, 7}

MCTags == {<<0, 0, 0>>, <<0, 0, 1>>, <<0, 1, 0>>, <<1, 0, 0>>, <<1, 0, 1>>}

\* Some fields of definitions.json, with every form of header.
Def(type, nth, vl, signing) == [type |-> type, nth |-> nth, vl |-> vl, signing |-> signing]

MCDefinitions == [
  SourceTag |-> Def(UINT32, 3, FALSE, TRUE),
  DestinationTag |-> Def(UINT32, 14, FALSE, TRUE),
  QualityIn |-> Def(UINT32, 20, FALSE, TRUE),
  Amount |-> Def(AMOUNT, 1, FALSE, TRUE),
  TxnSignature |-> Def(BLOB, 4, TRUE, FALSE),
  MemoData |-> Def(BLOB, 13, TRUE, TRUE),
  Account |-> Def(ACCOUNTID, 1, TRUE, TRUE),
  Owner |-> Def(ACCOUNTID, 2, TRUE, TRUE),
  Destination |-> Def(ACCOUNTID, 3, TRUE, TRUE),
  Number |-> Def(NUMBER, 1, FALSE, TRUE),
  ObjectEndMarker |-> Def(STOBJECT, 1, FALSE, TRUE),
  Memo |-> Def(STOBJECT, 10, FALSE, TRUE),
  Signer |-> Def(STOBJECT, 16, FALSE, TRUE),
  ArrayEndMarker |-> Def(STARRAY, 1, FALSE, TRUE),
  Signers |-> Def(STARRAY, 3, FALSE, FALSE),
  Memos |-> Def(STARRAY, 9, FALSE, TRUE),
  CloseResolution |-> Def(UINT8, 1, FALSE, TRUE),
  TickSize |-> Def(UINT8, 16, FALSE, TRUE),
  Paths |-> Def(PATHSET, 1, FALSE, TRUE),
  Asset |-> Def(ISSUE, 3, FALSE, TRUE)]

\* 225 and 241 are the bytes of the end markers, 0 and 255 those of path sets.
Word(b) == <<0, 0, 0, b>>
X(id, tag, network) == EncodeXAddress(id, tag, network)
IOU(neg, m, e) == [neg |-> neg, m |-> m, e |-> e, currency |-> <<225>>, issuer |-> <<241>>]
MPT(v) == [value |-> v, mpt |-> <<225>>]
Drops(n) == [drops |-> n]
Text(neg, int, frac, exp) == [neg |-> neg, int |-> int, frac |-> frac, exp |-> exp]

MCLeafValues == [
  SourceTag |-> {Word(0)}, DestinationTag |-> {Word(225)},
  QualityIn |-> {<<225, 241, 0, 0>>},
  CloseResolution |-> {<<0>>}, TickSize |-> {<<225>>},
  MemoData |-> {<<225, 241>>}, TxnSignature |-> {<<>>, <<225, 1>>},
  Account |-> {<<7>>, X(<<7>>, <<>>, "test"), X(<<7>>, Word(0), "main"), X(<<7>>, Word(7), "main")},
  Owner |-> {<<7>>, X(<<7>>, <<>>, "main"), X(<<7>>, Word(0), "main")},
  Destination |-> {<<7>>, X(<<7>>, <<0, 0, 1, 2>>, "main")},
  Amount |-> {Drops(225), IOU(TRUE, 25, -1), MPT(241)},
  Number |-> {Text(TRUE, <<1>>, <<5>>, 0), Text(FALSE, <<0>>, <<>>, 3)},
  Paths |-> {<< <<("account" :> <<255>>), ("currency" :> <<0>>)>>, <<("issuer" :> <<0>>)>> >>,
             << <<[account |-> <<1>>, currency |-> <<48>>, issuer |-> <<255>>]>> >>},
  Asset |-> {[currency |-> XRP], [currency |-> <<225>>, issuer |-> <<7>>],
             [mpt |-> <<1, 0, 225, 241, 7>>]}]

\* Numbers and amounts on both sides of every limit, for mantissas of three and
\* of four digits.
MCMinExponent == -6
MCMinIouExponent == -96
MCDefaultExponent == -32768

MCMantissas ==
  {0, 1, 5, 10, 11, 55, 90, 99, 100, 101, 550} \cup 920..935 \cup 990..1010
  \cup {5555, 9265, 9269, 9270, 9274, 9275, 9279, 9280, 9285, 9990, 9994, 9995, 9999,
        10000, 92744, 92745, 92749, 92750, 92799, 99949, 99950, 99999, 100000}

MCNumberTexts ==
  UNION {{Text(neg, Digits(m \div 10 ^ k), SubSeq(Digits(10 ^ k + (m % 10 ^ k)), 2, k + 1), exp) :
            neg \in BOOLEAN, exp \in -9..8} : m \in MCMantissas, k \in 0..2}

MCAmounts ==
  {Drops(n) : n \in {-1, 0, 1, 255, 256, 65535, 65536, 2097100, 2097101}}
  \cup {MPT(n) : n \in {-1, 0, 1, 255, 256, 8388607, 8388608, 16777216, 16777217}}
  \cup {IOU(neg, m, e) : neg \in BOOLEAN,
        m \in {0, 1, 10, 99, 100, 101, 1000, 9999, 10000, 10001, 99990, 12345},
        e \in -102 .. -95 \cup -2..2 \cup 76..84}
MCInnerFields == {"MemoData", "Owner", "Signer", "Memos"}

VARIABLE part

txVars == <<part, sgVars, afVars, feeVars, codecVars, mdVars, shaVars>>

\* A part that is not run has one initial state.
TxInit ==
  /\ part \in {"signing", "autofill", "fee", "codec", "metadata", "shamap"}
  /\ SGInit /\ (part # "signing" => kind = "batch")
  /\ AFInit /\ (part # "autofill" => /\ batch.bad = 0 /\ batch.tickets = CHOOSE t \in Tickets : TRUE
                                     /\ \A i \in Inners : batch.account[i] = Payer)
  /\ FeeInit /\ (part # "fee" => /\ asked.type = "plain" /\ asked.signers = 0
                                 /\ asked.sponsors = 0 /\ load = Unity)
  /\ CodecInit
  /\ MDInit /\ (part # "metadata" => DOMAIN before.drops = {} /\ DOMAIN before.lines = {})
  /\ ShaInit

TxNext ==
  /\ UNCHANGED part
  /\ \/ part = "signing" /\ SGNext /\ UNCHANGED <<afVars, feeVars, codecVars, mdVars, shaVars>>
     \/ part = "autofill" /\ AFNext /\ UNCHANGED <<sgVars, feeVars, codecVars, mdVars, shaVars>>
     \/ part = "fee" /\ FeeNext /\ UNCHANGED <<sgVars, afVars, codecVars, mdVars, shaVars>>
     \/ part = "codec" /\ CodecNext /\ UNCHANGED <<sgVars, afVars, feeVars, mdVars, shaVars>>
     \/ part = "metadata" /\ MDNext /\ UNCHANGED <<sgVars, afVars, feeVars, codecVars, shaVars>>
     \/ part = "shamap" /\ ShaNext /\ UNCHANGED <<sgVars, afVars, feeVars, codecVars, mdVars>>

TxSpec == TxInit /\ [][TxNext]_txVars /\ AFFairness
=============================================================================
