# xrpl.js in TLA+

Specifications of the client library in `src/packages/` (xrpl.js 4), the TLC
runs that check them and the TLAPS proofs about them.

## The system

xrpl.js is a library for programs that talk to an XRP Ledger node (`rippled`)
over one WebSocket. It is a single-threaded event-loop program: a step is a
call from the application, a timer callback, a websocket event or a promise
continuation, each run to completion. What is hard about it is not parallelism
but the order in which those steps come, and the state a step finds that was
true when its promise, timer or listener was created and is not any more.

How the parts interact: the application calls `Client`; `Client` autofills,
signs (`Wallet`, over the binary codec, the address codec and the keypairs) and
sends requests through `Connection`; `Connection` owns the websocket and asks
the `RequestManager` for a promise per request; websocket events settle those
promises, the promises of `connect()` and of `disconnect()`, and are emitted to
the application through `Client`. The confidential builders use `Client` for
state and mpt-crypto, a WebAssembly module, for proofs.

Paths below are relative to `src/packages/`.

| component | source | state | operations | what is hard, and what makes it correct | here |
|---|---|---|---|---|---|
| Request manager | `xrpl/src/client/RequestManager.ts` | `nextId`, the map of promises awaiting a response, a timer per entry | `createRequest`, `resolve`, `reject`, `rejectAll`, `handleResponse` | timeout, answer, send error and close race: a call is settled once, by its own event; a settled call leaves neither entry nor timer | modelled, proved |
| Connection | `xrpl/src/client/connection.ts`, `ConnectionManager.ts`, `ExponentialBackoff.ts` | `ws` and its listeners, connection timeout, promises of `connect()`, heartbeat, reconnect timer, backoff | `connect`, `disconnect`, `reconnect`, `request`, the websocket's events, `heartbeat`, the reconnect timer | calls overlap with each other and with every event: every `connect()` settles, no request outlives its socket, timers belong to the socket of now, a connection the user closed stays closed | modelled, proved |
| Browser websocket | `isomorphic/src/ws/browser.ts` | the wrapped `WebSocket` | `close`, `send`, events | differs from the `ws` package in what `close` and `send` do | partly, inside Connection |
| Reliable submission | `xrpl/src/sugar/submit.ts`, `client/index.ts` | the polling loop of each call | `submit`, `submitAndWait` | ledgers close between two requests, answers come late: a verdict is right and final, and comes | modelled, proved |
| Autofill | `xrpl/src/sugar/autofill.ts`, `getFeeXrp.ts` | the caller's inner transactions, which it fills in | `autofill`, `autofillBatchTxn`, `calculateFeePerTransactionType` | requests side by side, what is read is stale when it is used: inners follow the Batch, the Fee covers its cost | Sequences, Fees, X-addresses, flags and DeliverMax modelled |
| Client | `xrpl/src/client/index.ts` | listeners, `networkID`, `buildVersion` | `connect`, `disconnect`, `requestAll`, events | listeners across reconnects, a server whose information is of a former one, pages without end | the connection side and `requestAll` modelled, proved |
| Confidential transfers | `xrpl/src/confidential/` | the balances a Batch predicts, its Sequences | `prepareConfidential*` | each proof binds what its predecessors leave behind: predictions equal the ledger's state | Batch assembly modelled, proved |
| Faucet funding | `xrpl/src/Wallet/fundWallet.ts` | the polling interval, attempts | `fundWallet` | polls overlap: funded means paid, one outcome, no interval left | modelled, proved |
| mpt-crypto | `mpt-crypto/src/` | the cached promise of the WASM module | loading, marshalling, proofs | callers share a load that fails and is tried again: one instance, a failure is not kept | the load modelled, proved |
| Sponsorship validation | `xrpl/src/sugar/validateSponsorship.ts` | none; reads the Sponsorship entry | `validateSponsorship` | other transactions draw on the entry meanwhile: the verdict is what the ledger's was | modelled |
| Wallet and signing | `xrpl/src/Wallet/` | none; copies circulate | `sign`, `multisign`, `combineBatchSigners`, sponsor and counterparty signatures | order, duplicates and loss of signers, in any order of combination | every way to sign and to combine modelled, and what `sign` checks |
| Binary codec | `ripple-binary-codec/src/` | parser and serializer buffers | encode, decode, signing data | round trips at the limits of a length, over nested objects and end markers; a Number is the nearest that fits | objects, arrays, headers, lengths, Amount, Number, PathSet, Issue and quality modelled as bytes; every type of field by what it reads back as |
| Hashes | `xrpl/src/utils/hashes/`, `ripple-binary-codec/src/shamap.ts` | the SHAMap tree | `addItem`, `hash` | the tree is independent of the order of insertion, and the same in both packages | the trees modelled |
| Balance changes, order book | `xrpl/src/utils/getBalanceChanges.ts`, `sugar/getOrderbook.ts`, `balances.ts` | none | reading metadata, sorting | a node created, deleted or modified elsewhere | `getBalanceChanges` modelled |
| Partial payments | `xrpl/src/client/partialPayment.ts` | none | warnings added to responses | a pure rewriting | not modelled |
| Transaction models | `xrpl/src/models/` | none; the document on its way | `validate`, with a validator for each of 78 types | a document has many spellings, and is rewritten after it was checked: what is signed is what was validated, and is valid for the next who signs | modelled |
| Address codec, keypairs, secret numbers | `ripple-address-codec`, `ripple-keypairs`, `secret-numbers` | none | encodings, cryptography | an X-address is its address and its tag; a checksum | X-addresses modelled |
| Isomorphic utilities | `isomorphic/src/utils` | none | hex, random bytes | conversions | not modelled |

## Modules

| module | what it is |
|---|---|
| `RequestService` | abstract: what a caller of `request` is promised |
| `RequestManager` | the table, the timers, the ids; implements `RequestService` |
| `ConnectionLink` | abstract: the one link that the layer above a connection sees |
| `Connection` | extends `RequestManager` with the socket, its listeners and timers; implements `ConnectionLink` |
| `Client` | `connect()`, the listeners and `networkID`, over a link; implements `ConnectionLink` in turn |
| `RequestAll` | `Client.requestAll` |
| `FundWallet` | `Client.fundWallet` and its polls |
| `ModuleLoader` | the load of the mpt-crypto module |
| `Sponsorship` | `validateSponsorship`, and the ledger's own check |
| `Autofill` | the Sequences of a Batch and of its inners |
| `AutofillFee` | the Fee of every kind of transaction |
| `Signing` | signatures of every role, made and combined |
| `BinaryCodec` | objects of fields, to bytes and back |
| `CodecFrames` | headers of fields and prefixes of length: where a field begins and where it ends |
| `CodecLeaves` | the leaves whose form depends on their value, and X-addresses |
| `Metadata` | ledger steps, their metadata, and `getBalanceChanges` |
| `ShaMap` | the two SHAMap implementations |
| `ReliableSubmission` | `submit`, `submitAndWait`, the Sequence part of autofill, and the ledgers |
| `ConfidentialLedger` | external: what rippled does with confidential balances |
| `ConfidentialBatch` | `prepareConfidentialBatch`, in step with `ConfidentialLedger` |
| `TxForms` | the forms of values in a transaction, and the helpers of `common.ts` that look at one |
| `TxCommon` | what every transaction is checked for: memos, signers, sponsors |
| `TxLedger`, `TxTokens`, `TxLending` | the fields, the flags and the validator of each type |
| `TxModels` | `validate`: the table of types, and Batch with its inners |
| `TxWire` | what the codec makes of each form, to bytes and back |
| `TxDocuments` | a document is written, autofilled, signed, decoded and co-signed |
| `*MC` | small instances for TLC; `PartsMC`, `BuildMC` and `TxMC` hold several parts that share no state, of which a behaviour runs one |
| `*Proofs` | the theorems; `PartsProofs` has those of the parts of `PartsMC`, `TxProofs` and `CodecProofs` those of the parts of `TxMC` |
| `DataLemmas` | lemmas the proofs share: induction, recursion, sums over finite sets, ranks, quotients and rests |

A definition with an underscore in its name (`NextIdAfter_Stuck`) is a mutant of the
definition it is named after: a plausible mistake that a property must notice.

### RequestManager

`promisesAwaitingResponse`, `nextId` and `timers` are the class's fields;
`idOf` is the id each call's closures captured; `outcome` and `settledBy` say
how and by whose event each promise was settled. `CreateRequest` and
`RefuseDuplicate` are `createRequest`: the order of the code, which advances
`nextId` and sets the timer before it looks for a duplicate, is kept.
`TimerFires`, `SendFails`, `HandleResponse`, `IgnoreResponse`, `BadResponse`
and `RejectAll` are the handlers. `TimerFires` has a branch in which the entry
is gone and the exception is caught by nobody; `TimersNeverThrow` says that it
is never taken. A response with no status rejects its entry, then falls through
and throws: `thrown = "XrplError"`. A message sent may be `delivered`, `lost`,
or `failing` (the callback of `ws.send` will report an error later).

`RequestService` is the abstract view: calls, no ids and no table. Each call is
refused, or pending until its own answer, timeout, send error, or the close.
`ServiceSpec` (an `INSTANCE` with `asked <- wire`) says that `RequestManager`
implements it, its fairness included, as long as callers do not share ids.
Where they do, a late response settles the wrong call, and no comment of the
code promises otherwise; `OwnEventsOnly` is stated for unshared ids, and the
timers and the table are checked with two calls that share one.

### Connection

`Connection` extends `RequestManager`: its requests are steps of the manager.
`ws` is `this.ws` with its `readyState`; `ABORTING` is a handshake that
`close()` aborted in the `ws` package, whose listeners are still those of
`connect()`. `op` is how far each call of the application, each `reconnect()`
of a failed ping and each `reconnect()` of a timer is. `Open`,
`OpenThenListenerThrows`, `HandshakeFails`, `ConnectionTimeout`, `Aborted`,
`Close`, `ReconnectTimerFires`, `Heartbeat`, `PingCatch`, `OnMessage` are the
listeners and callbacks; a step makes every call its handler makes.

Promise continuations run before the next event or timer (`Quiet`), but an
application may call the library from a continuation of its own, so its calls
are not restricted. An operation whose `close` listener was removed is `hung`.

`platform` is the `ws` package or the browser's `WSWrapper`: they differ in
`close()` during the handshake, in what `send()` reports, and in messages that
come while the socket closes.

`ConnectionLink` is what the layer above may rely on: a link is dialled, opens or
fails, and is closed, and every `connect()` that waits for a handshake settles at
its end. `ConnLinkSpec` says that `Connection` implements it, with a mapping of
`ws` to `link` and of `op` to whoever waits.

### Client

`Client` has its own small connection, which keeps to `ConnectionLink`
(`LinkSpec`), and adds what `client/index.ts` does: the listeners of `connected`,
`reconnect` and `disconnected`, `getServerInfo` with its swallowed error, and
`networkID`. `step` is how far each `connect()` of the application and each
reconnect of the connection is; `listener` is the one that a reconnect sets;
`told` and `announced` are what the application has heard. With `Eager` FALSE
the application calls `connect()` only when it was told that there is no link;
`client_once` shows that this is not enough: the listener of a reconnect that failed
is still there.

### RequestAll, FundWallet, ModuleLoader, Sponsorship

`RequestAll` has one action per outcome of a page; a resource is its position in
the server's list, and `seen` is what was collected. Without a limit the marker is
followed to the end: so says the comment within the code, and `LimitMet`; the
documentation of the function says otherwise (`SingleRequest`, run `ra_single`).

`FundWallet` lets a poll be asked, answered with the balance of its moment, and
handled later; `Tick` is the callback of `setInterval`, `attempts` its counter,
`asking` and `answers` the polls under way.

`ModuleLoader` has a promise per load. `cached` is the variable of `module.ts`;
`CatchLoad` is the handler that clears it; `SettleCaller` the continuation of
who was given the load.

`Sponsorship` puts the verdict of the library beside the ledger's, which is
written from the comments of the same file. Several transactions draw on one
entry; `readAt` is the version of the entry a verdict is about.

### Autofill and AutofillFee

`Autofill` is one call of `autofill` on a Batch after another. The tasks of
`Promise.all` run side by side, accounts send other transactions, requests fail.
The loop over the inners is its own sequence of steps, and fills in the inner
objects of the caller; that a rejected call leaves a loop behind is why there is
a second call. `clean` and `still` are history variables: the call found no inner
filled in, and no account moved while it ran.

`AutofillFee` computes the Fee in sixteenths of a drop, with each level of a
transaction reading a load of its own. Loads and the client's cushion are fractions,
in units of 1 / `Unity`; `Rounded` is `toFixed(6)` of `getFeeXrp`, which makes whole
drops of the net fee before any level multiplies it. `LevelFee` is
`calculateFeePerTransactionType` of one level, the fulfillment of an inner EscrowFinish
included. `sawLoads` are the loads there were. `FeeIsBetween` compares the Fee with the
cost at rounded net fees, `CushionCovers` with the exact charge, nothing rounded.

### Signing

Copies of one transaction circulate. An operation takes one copy or two and
makes another, or throws and changes nothing. A signature is the record of who
signed what in which role, and `SignaturesVerify` compares that with what the
copy it is in says now. Roles: the sender, alone or among several; a sponsor; the
counterparty of a LoanSet; and the accounts of a Batch.

### BinaryCodec, ShaMap, Metadata

These are pure, and compared with a definition of what they are to compute.
`BinaryCodec` writes and reads real bytes over a table of 20 fields, among them
every shape of header; values contain the bytes of headers, end markers and
separators, and what is read is compared by what it means. `CodecFrames`, without
recursion, has what marks off a value: the header of its field, which gives the type
and the number of the field in one byte, two or three, and the prefix of a length that
varies. What the code does by recursion is a function of its depth: `Objects` are
the objects that a document may have in it at most so deep, and `Writing` how each is
written; `Reading` is the loop of `fromParser` over at most so many bytes, and `JSON`
that of `toJSON`. `MaxDepth` and `MaxInner` bound the objects within; these are given
in the form in which they are read (`IsPlain`), the document itself in any.
`DocumentsRoundTrip` is about documents, whole and as they are signed, and by its part
`AmountsAreKept` about an amount by itself and the quality that it may be;
`NumbersAreKept` is about what a Number by itself says.
`CodecLeaves` has the leaves: a Number is normalized, rounded and rendered by the steps of
`st-number.ts`, and compared with the text it came from by its distance; a loop
that shifts by one digit is one shift by the number of its rounds. An amount
shares its first two bytes with the bits that tell what it is. A number or an
amount by itself is a state of its own (`leaf`), beside the documents.
`ShaMap` adds items to both trees, in every order, and compares them with the
tree of the set. What addItem does to a node is a function of the nibbles that are
left of a tag below it (`Adding`, `Branching`, `Colliding`), and so is the tree that a
set of leaves has by definition (`Trees`); depth is at most the length of a tag,
which is how the code's recursion ends, too. `Metadata` takes the ledger from one state to another, writes
the metadata as rippled does, and compares `GetBalanceChanges` with the
difference.

### Transactions as documents

A value is a record of what the validators and the codec tell apart: a number, a
set of flags, an address with its spelling and its tag, digits with their number
and case, a decimal with the way it is written (plain, with zeros, a point, an
exponent), a currency, a record, an array. `TxForms` has the helpers of
`common.ts` over these forms; `TxLedger`, `TxTokens` and `TxLending` have one
validator per type with its `Fields`, and `TxModels` chooses among them as the
switch of `transaction.ts` does. A validator that throws is a predicate that is
false.

`TxWire` says of each type of field what a value reads back as. The codec's
bytes are the matter of `BinaryCodec` and `CodecLeaves`; here each leaf is the
form that comes out, an exponent that `parseInt` stops at and half a byte that
is dropped included. Where the codec throws, no value comes out.

`TxDocuments` has the actions. A document starts from the required fields of one
of the 78 types and is edited: a field is written in one of the forms its type
may have, at the limits of the validator and one beyond, or is dropped.
`AutofillDocument` is the part of `client.autofill` that rewrites what is there
(X-addresses, tags, flags, DeliverMax); `SignDocument` is `wallet.sign`, which
validates and encodes; `CoSign` is any of those who sign next, who decode and
validate again. `draft` is the document as it was written, and
`SignedAsValidated` compares the two: nothing is lost, and nobody refuses, what
was valid. `Misleading` is the list of what it leaves out, all of it spellings
that two parts of the library read in two ways; each is needed, and each is
listed under Findings.

### ReliableSubmission

`pc` follows each call through autofill, submission and the polling loop of
`waitForFinalTransactionOutcome`; each request is answered at one moment
(`ServerReceives`, `LedgerAnswered`, `TxAnswered`) and evaluated at a later
one, and ledgers close in between. `lls` is LastLedgerSequence. The server is
external: it applies transactions to its open ledger, holds some back, closes
ledgers that take any consistent part of them, and takes none after its
LastLedgerSequence. All transactions are of one account.

### ConfidentialBatch

One step builds one inner, as `buildConfidentialInner` does, and applies it to
the ledger of `ConfidentialLedger`. That ledger says what the comments of
`confidential/batch.ts` and `convert.ts` say of rippled. A ciphertext is the
term it was computed by, so that two of them are equal only if they were
computed in the same way from the same parts: that is what a proof binds.
`predicted` is the map of `TokenState`s; `token` the ledger's. `Absent` is
`undefined`, in `predicted` both for a balance that the ledger does not have and
for one that an earlier inner reset. `restarted` is a history variable: holders
whose Convert found an undefined balance where the ledger has one.

## Runs

| run | shows |
|---|---|
| `conn_all` | both platforms, failing handshakes and listeners, two unexpected closes: timers, heartbeat, events and requests belong to the socket of now, waiters wait for something that can still come, no `disconnect()` is stuck between close and reconnect, and the connection is a `ConnectionLink` |
| `conn_hangs` | violation: `disconnect()` during the handshake never settles |
| `conn_ping` | violation: after a manual `disconnect()`, the ping it left pending reconnects |
| `rs_all` | types, resolved means validated, a verdict is final and, unless two ledgers closed between two polls, right; no Sequence is reused, every call ends |
| `rs_lag` | violation: with two ledgers between two polls, "expired" may be in a ledger |
| `build_all` | `ConfidentialBatch`, every list of up to four inners of two holders and the issuer: predictions are the ledger's state, no inner is rejected unless a Convert followed a reset, decrypt bounds suffice. `TxDocuments`: what is signed is what was validated |
| `cb_reset` | violation: a Convert after a reset, and the next proof over the balance is rejected |
| `parts_all` | `RequestManager`: table, timers and promises are the same calls, counter ids are never refused, every promise settles, and the calls whose id nobody shares are served as `RequestService` says, fairness included. `Client`, `RequestAll`, `FundWallet`, `ModuleLoader`, `Sponsorship`: a link is announced and keeps to `ConnectionLink`; pages follow one another and meet the limit; funded means paid; one module instance, failures forgotten; the verdict on a sponsored transaction is the ledger's; every call settles |
| `ra_single` | violation: without a limit there is a second request |
| `client_once` | violation: one link is announced twice, by the listener that a failed reconnect left behind and by `connect()` |
| `tx_all` | `Signing`, `Autofill`, `AutofillFee`, `BinaryCodec`, `CodecLeaves`, `Metadata`, `ShaMap`: signatures verify, signers are complete and in order; inners follow the Batch; the Fee covers its cost, however the load moves and the net fee is rounded; what is written is read; balance changes are right; trees do not depend on the order; autofill ends |
| `sign_lost` | violation: combining two multisigned entries of one account of a Batch loses signers |

### Bounds

- `RequestManager`: four calls, two with ids of the counter and two that share one,
  of which a behaviour makes any three (`MaxMade`). Two are the least for one call's
  event to find another's entry; the third takes part while they are settled. `nextId`
  needs no bound: each call is made once.
- `Connection`: two users, each with one `connect`, `disconnect` or `reconnect`;
  one request and one ping; `MaxDrops` = 2: one unexpected close sets a timer, a
  second meets what the first left. Together up to five operations overlap (two
  users, a ping, two timers). The two violations need neither closes nor faults,
  and have none.
- `ReliableSubmission`: two transactions (one of each kind of call); `MaxLedger`
  = 2 ledgers close with no call waiting, and any number up to
  LastLedgerSequence + 1 while one waits. LEDGER_OFFSET is 1 or 2 instead of 20:
  what matters is whether LastLedgerSequence is before, at or after a ledger.
- `ConfidentialBatch`: lists of 0 to 4 inners, MAX_BATCH_INNERS 4 instead of 8;
  two holders, issuer and auditor mirrors, amounts of 1. Every chain of reset,
  credit, debit and the use of what they leave has at most four inners; holders
  are symmetric. The theorems have no such bound.
- `Client`: two users and two reconnects, two networks: a second reconnect finds
  the listener of the first.
- `RequestAll`: six resources, MIN_LIMIT 2, MAX_LIMIT 3 and limits from 0 to 5,
  so that each side of the clamp is met on first, middle and last pages; two
  empty pages. `FundWallet`: MAX_ATTEMPTS 2, so four polls, any of which may be
  late; two payments. `ModuleLoader`: three callers, three loads, three attempts.
  `Sponsorship`: two transactions on one entry with five entries, one for each
  limit that may be reached; the sponsor and the transactions change it.
- `TxDocuments`: all 78 types, and `MaxEdits` = 2 fields set or dropped, so that any
  two fields of a type meet in any two of their forms. Memos, sponsors, fees,
  tickets and tags, which are checked alike for every type, are edited for three
  types only (`Exemplars`): one with no field of its own in the way, Payment, and
  SponsorshipTransfer, which reads the sponsor's. Arrays have up to two elements. A
  limit of 2^63 is 7 (`MaxMptAmount`), with bit 63 as 8 (`HighBit`); the limits of
  the validators are those of the code.
- `Autofill`: three inners of two accounts, one that may have a ticket, one that
  may be refused, two calls, one move, one failing request. `AutofillFee`: every
  kind, inners with and without a fulfillment, Batches of two inners; a base fee of
  10, a cushion of 1.01 and loads of 1, 1.03 and 5.01: at the first two the net fee is
  rounded down (10.1 and 10.403 to 10), at 1.03 to less than the load charges, and at
  5.01 the cushion makes up for the rounding. The limit, 400, is between the
  costs, and the reserve, 450, above it.
- `Signing`: two wallets, one of which also signs for a third account; five
  copies (an unsigned one, two signed, their combination and one more), two
  versions of the transaction.
- `BinaryCodec`: documents of two fields with objects and arrays down to depth 2;
  lengths on both sides of 192/193 and 12480/12481, at two changes of the middle
  byte, and the largest. `CodecLeaves`: TLC's integers have 32 bits, so Numbers
  have three digits instead of 19, and the largest mantissa, 927, stands to them
  as 2^63 - 1 does to 19 digits (also in what rounding does at its end); texts
  around every limit with exponents beyond both ends. Amounts have three bytes
  and four digits for eight and 16, with the exponents of the code. `Metadata`: two
  accounts, two currencies, balances of -1, 0 and 1. `ShaMap`: four insertions of five tags of three nibbles that part
  at depth 0, 1 and 2.

`CHECK_DEADLOCK FALSE` is set where the calls of a run are finite and the
program stops when they are done.

### Fairness

- a timer that is armed fires: `setTimeout` and `setInterval` (`TimerFires`,
  `ConnectionTimeout`, `ReconnectTimerFires`, `WakeUp`, `Tick`, `Retry` of
  `ModuleLoader`);
- promise continuations run (`Resume`, `PingCatch`, `SendThrew`, `Continue`,
  `SettleCaller`, `CatchLoad`, the loop of `Autofill`);
- a websocket that is closing is closed in the end: the `ws` package destroys
  its socket after 30 seconds, browsers do alike;
- a handshake is over in the end, by the connection timeout if by nothing else.
  That the handshake succeeds is assumed only where `Faults` lacks "handshake";
- a request above the connection is answered or fails (`ServerInfo`, `Page`,
  `FaucetAnswers`, the tasks of `Autofill`, the requests of a submission): this
  is `RequestsSettle` of the request manager, and for the faucet the timeout of
  `fetch`;
- an import of the module is over in the end (`LoadOnceSucceeds`,
  `LoadOnceFails`);
- ledgers close (`CloseLedger`), the server's part in `SubmissionsEnd`.

No fairness is assumed of the application's calls, of success, of unexpected
closes, of the heartbeat, or of the polls of `fundWallet`: the interval counts
its attempts whether or not they are answered.

## Findings

1. `conn_hangs` (`connection.ts:512`): `disconnect()` waits for `close`;
   `onConnectionFailed` removes that listener when the handshake fails, and
   `onceOpen` when it succeeds. The promise never settles.
2. `conn_ping` (`connection.ts:498`): the catch of the heartbeat's ping
   reconnects whatever made the ping fail, the application's own `disconnect()`
   included.
3. `rs_lag` (`submit.ts:123`): the ledger index is compared before the
   transaction is looked up a last time. `PromptExpiryIsRight` says, and its
   theorem proves, that a call whose polls kept pace is told the truth.
4. `cb_reset` (`confidential/batch.ts:345`): `applyConvertCredit` takes a
   balance that was reset for one that never was, and goes on predicting.
   `AcceptedByLedger` says, and its theorem proves, that nothing else is wrong.
5. `ra_single` (`client/index.ts:494`): the documentation of `requestAll` promises a
   single request where no limit is given (450-451), the comment within it all data
   over multiple requests (491), and that is what the code does.
6. `client_once` (`client/index.ts:275`): a reconnect sets a `connected` listener, and
   when its handshake fails the listener stays. `connect()` removes none, so that
   when the application's later `connect()` opens the link, both that listener and
   `connect()` emit `connected`.
7. `sign_lost` (`Wallet/batchSigner.ts:243`): entries of `BatchSigners` are
   de-duplicated by account, so of two fragments that are multisigned for one
   account the second's signers are dropped.

Seen while modelling, without a run of their own:

- the code of a close decides whether it was manual, so a peer that closes with
  4000, or a close without a code, is never reconnected;
- a reconnect whose handshake fails sets no timer, so the backoff, written for a
  server that is down, is always asked for its first delay. The theorem
  `BackoffIsConstant` is the other side of it;
- a timer's reconnect and a ping's may run at once and disconnect each other; in a
  browser, `close()` of a socket whose handshake is under way has no effect, and
  the socket that `onConnectionFailed` lets go of may still open;
- `requestAll` asks for at least MIN_LIMIT resources, so it may return a few more
  than the limit;
- `getFeeXrp` rounds the net fee to the nearest drop before anything multiplies it
  (`getFeeXrp.ts:45`): without a cushion of its own, a net fee of 10.4 is 10, and a
  confidential transaction pays 100 drops where the load charges 104. `CushionCovers`
  says, and its theorem proves, from which load on the cushion makes up for it, which
  at the default of 1.2 and a base fee of 10 is any;
- `fundWallet` polls up to MAX_ATTEMPTS + 2 times; a starting balance that cannot
  be read counts as 0, so that an account that had funds is reported as funded
  by the first poll (`FundedMeansPaid` leaves that case out);
- `autofill` fills in the caller's inner objects. A call that was rejected may
  still be filling them in when the next one runs, and two inners of one account
  may then have one Sequence, as they may if one of them came with a Sequence of
  the caller's (`InnersInOrder` is about calls that found nothing filled in);
- `Amount.from` takes an MPT of 2^64 or more, of which it tests bit 63 only, and
  writes its last 64 bits (`amount.ts:325`; `Wraps` leaves it out of `AmountsAreKept`); a
  `PathSet` without a path, or with a path without a hop, is written so that it
  is not read back (`path-set.ts:243`), where nothing but the validator of Payment
  (`isPaths`) refuses it;
- a destination tag 0 of an X-address is not compared with the field
  (`autofill.ts:177`); an inner of a Batch with a special cost is cut to the
  client's limit although such a transaction alone is not;
- `combineLoanSetCounterpartySigners` and `multisign` keep a signer that comes
  twice; `signMultiBatch` replaces what `BatchSigners` there were;
- `ShaMapInner.addItem` of the codec pushes down without end an index that is
  there already; the tree of `xrpl` notices, but compares tags as text while
  nibbles do not tell upper case from lower;
- `getOrderbook` compares qualities of both sides in opposite units, as its
  comment says, and reads them by requests that may see different ledgers;
- ten validators compare two accounts by `===` (`DelegateSet`, `AMMBid`,
  `Clawback`, `NFTokenMint` and others) where `common.ts` has
  `areAddressesEqual`: an X-address and the classic address of one account count
  as two. Autofill rewrites some fields (`Account`, `Authorize`) and not others
  (`Holder`, `AuthAccounts`), so that the verdict may also change after it;
- a hex string of an odd number of digits is refused by `VaultCreate`, whose
  comment says that it fails to serialize, and accepted in every other blob: in
  `Data` of `VaultSet`, `LoanSet` and `LoanBrokerSet`, in memos and types of
  credentials. The codec drops the last digit; two credentials in one list may be
  the same afterwards, as they are when they differ in case;
- an empty string passes where an account is checked by `isString` only, and is
  signed as account zero; a Sequence written as the text `1e1` is 10 to the
  validator of `EscrowCancel` and 1 to the codec;
- an X-address in another field than `Account` and `Destination` loses its tag in
  autofill, and is refused by the codec; a tag field of 0 gives way to the tag of
  the address;
- XRP may be named by its 40 digits or in small letters within them, which
  `validate` does not look for; with an issuer beside it, as an asset or in a
  bridge, it is written without one and the next bytes are read as the issuer;
- `LoanSet` declares flags of its own (`loanSet.ts:152`) that `txToFlag` does not
  have, so that they can be set as a number only; `handleDeliverMax` compares
  `Amount` and `DeliverMax` as objects, so that two equal ones count as different;
- a partial payment in a `tx` response of API version 1 or in binary is never
  warned about.

## Proofs

All are checked by TLAPS for any number of calls, users, transactions, holders,
inners, signers and accounts, from the assumptions on the constants alone.

**DataLemmas.** What a sum over a set is, or the order of a sorted sequence, needs
induction, and the library's induction theorems have an operator as a parameter,
which none of the provers can instantiate. Here induction is stated over members
of a set instead: `SetInduction` (0 is in S, and with n so is n + 1) follows from
the fact that every set of numbers has a least one, and `FiniteInduction` from it
for the subsets of a finite set. From them come the existence of what is defined
by recursion over either (`FoldExists`), the laws of `SumFunctionOnSet` (any
element may be summed last, a larger summand makes no smaller sum), and `Ranks`:
in a finite order every position has one element, which is why sorting is total.

**RequestManagerProofs.** `TypesAndTable` is types with `TableConsistent` and
the absence of an uncaught exception; it is inductive. A timer's id always has
an entry because the table is injective: an entry is found under the id its
timer captured. For ids (`RMInv`), the strengthening is that ids handed out by
the counter are below `nextId` and go to one call only, so that neither a later
call nor a late event can meet them. `ImplementsService` maps each step of the
manager to one of `RequestService`, or to a stutter.

**ConnectionProofs.** `UsesRequestManager` shows that every step of the
connection is a step of the manager or leaves it alone, so the manager's
theorems carry over; types and the table come from there. `ConnInv` then has
three layers: the socket with its timers (inductive by itself), the queued
continuations, and the pending requests. The requests need the other two: a
request may be pending before the socket is open only while the exception of its
`send` is on its way to its catch.

**ReliableSubmissionProofs.** `RSInv` is types with three invariants. `CallInv`:
a call fixes Sequence and LastLedgerSequence before it sends anything, and waits
only for a transaction that has the latter. `LedgerInv`: what the answers say of
the ledger is true, what is in a ledger has no other way in, what is expired is
past its LastLedgerSequence. `SequenceInv`: a transaction that was acknowledged
is in the open ledger, or its Sequence is used up, or it can be in no ledger any
more. `OutcomesAreFinal` is the action property, from the same invariant: what
has expired is dead, and a dead transaction is in no later ledger.

**ConfidentialBatchProofs.** `CBInv` is types, progress (how far the batch is),
the shape of the tables, that a holder with balances has a key, that predictions
match and that nothing is rejected. One lemma (`InnerInv`) says what any inner
must leave to keep it; each operation has a lemma that shows that it does.
`DecryptsAlwaysSuffice` has an invariant of its own, `Covered`: what all holders
hold together is at most what was outstanding when the Batch was prepared and
what its Converts have added so far. It speaks of the total because a Send moves an
amount from one holder to another: a bound on each holder alone is not inductive.

**Links.** `ImplementsLink` (in ConnectionProofs) and `ClientKeepsToLink` map
every step of the connection, and of the client's own small one, to a step of
`ConnectionLink` or a stutter; so what is proved of `Client` rests on what
`Connection` does.

**PartsProofs.** `UpIsAnnounced` is not inductive: that an established link is
announced follows from what was in place when it was still a handshake. `CInv`
adds that only a handshake is waited for, that a reconnect about to call
`connect()` has its listener in place, and that a handshake nobody waits for has
one. `RAInv`: the count is the distance from the first marker, and
more is asked for only while more is wanted. `FWInv`: polls are counted by the
attempts, and no balance that is still to be handled is above the starting
balance as long as nobody paid. `MLInv`: loads follow one another, and an
earlier one is over. `SPInv`: a verdict on the version of the entry that is still
the current one agrees with the entry, and a transaction is refused only when that
version has changed.

**TxProofs.** Signing: `SGInv` says of every copy that it is `Sound`: its signatures
verify, its entries are sorted, and as long as its sender has not signed it, no
sponsor or counterparty has. The last is what makes it inductive: the sender's
signature adds to what a sponsor signs, so a sponsor that came first would be left
with a signature over something else. `SortedFacts` is about sorting itself.

Autofill: `AFInv` says that calls follow each other, and of the last call, if
it found nothing filled in, that its loop alone is active (`FilledBy`), that the
inners before the loop count up from the first Sequence of their account, that
the loop holds the next (`Filled`), and that these are the ledger's as long as no
account has moved (`Follows`). A call before may have been rejected with its loop
going on; that is the case in which nothing is promised.

Fees: `FeeInv` says that each level has the rounded net fee of a load the server had,
and that the inners so far cost at most what they do at any load above all of these,
and at least what they do at any load below, unless the limit cut one. The rounded net
fee grows with the load (`RoundedFacts`), each level pays its cost at its net fee, up
to the limit (`LevelFeeFacts`), and what the whole transaction costs grows with the
net fee (`CostAtFacts`). `CushionMakesUp` compares with the exact charge: where the
cushion adds half a drop, the rounded net fee is no less than the exact one without
it, and neither is any multiple of it that is rounded up; over the inners this is a
sum, by `SetInduction` (`InnersCovered`).

Balance changes: `MDInv` is types. The proof follows the metadata: what a node
says of an entry (`NodeOf`) is the difference of the two ledgers, a trust line
gives one change to each side, and no entry gives two.

Trees: `ShaInv` says that the items have different tags and that both trees are
`TreeOf` them. The provers cannot unfold a recursive function, so that each has a
lemma (`AddingLevels` and the like) that it equals one level over the function of
one nibble less: there is a function that does for no nibbles and, with one for n,
for n + 1. `AddingAdds` is then the step, by `SetInduction` over the nibbles left:
in the slot of the new leaf nothing, one leaf or several are `There`; with one, both go
down into the empty tree of the next level, which exists because two leaves that are
together down to the last nibble are one (`ThereFacts`). `BranchingIsAdding` and
`CollidingFinds` go the same way.

**CodecProofs.** `FramesAreRead` holds for every table whose fields have different
codes, types and numbers in 1..255 (`FramesAssumption`, which the serialized fields of
`definitions.json` meet, `Generic` apart). `HeaderRead` goes through the four shapes of
a header and `LengthRead` through the three of a length; that a reader cannot take one
for another is the arithmetic in them, up to the largest length the codec writes.

`DocumentsAlwaysRoundTrip` goes on to whole documents: any number of fields, values of
any bytes, objects and arrays of any depth. Its invariant is that `doc` is a document;
the work is in what is said of every one of them. The functions by depth are unfolded
one level at a time, by lemmas that there is such a function at all (`Diagonal`: what
is built for every n by one level over n - 1 is one function of all n). `ReadsBack` says of the
bytes of a value that, framed and put before any others, they are taken as that field
and leave the others: a leaf by its width or its length, an object or an array by the
end marker of its own, since those of the objects in it are read first. `Reads` says it of
fields one after the other, and has to speak of *every* number of bytes left that is
enough: the loop inside has fewer of them than the one outside. Path sets end by a
separator and have a loop of their own; that a hop is never read for a separator or for
the end is `IsHop`. Then `ObjectsWritten`, by `SetInduction` over the depth, says that
an object within a document is read as itself, and `EncodedDocumentRead` and
`SignedDocumentRead` put the fields of the document in order, its X-addresses as
addresses and tags.

Amounts are arithmetic of powers of ten and of 256 together. `PowerLaws` come from
`RecursionExists` (a recursion over the numbers has a function that follows it, by
`SetInduction`), and `IntIsRead`, that a number in bytes is read as that number, goes
byte by byte with `DivDiv`. That the bits of the marks are added to a byte in which
they are 0 follows from `LeavesAssumption`: the largest number of drops leaves three bits free, and the largest mantissa ten, for the mark, the sign and the
exponent, which is in two of the bytes (`IouRead`). An issued amount is written with
all its digits and read without the zeros at its end: `ZerosOfProduct` counts them, and
with `CanonicalOfProduct` what a mantissa and an exponent mean does not depend on
how many there are. `AmountsAreRead` then says of all three kinds that the bytes
are as many as the first of them tells, and are read as the amount.

It assumes of the table that the end markers are in it, and of the types which have a
length (`CodecAssumption`), and of each leaf by itself that it has bytes of the width
of its type (`LeafValuesAssumption`): a path set has a path, and each path a hop, as
`isPaths` of `models/transactions/payment.ts` requires; an amount is one that
`assertXrpIsValid`, `assertMptIsValid` and `assertIouIsValid` let through, and is
not an MPT beyond its width, which the code takes and cuts. A Number, without others
around it, is read as what it says, which is what `NumbersAreKept` is about.

### What is only proved

`TimersNeverThrow`, `OwnEventsOnly`, `BackoffNeverGrows`, `HandshakeHasListener`,
`PollingStops` and the type invariants of the parts of `PartsMC` are theorems and
parts of the inductive invariants; no run lists them, since `TableConsistent`,
`ServiceSpec`, `UpIsAnnounced` and `FundedMeansPaid` fail with them. `RMTypeOK` is a
theorem, and checked as a part of `ConnTypeOK`.

### What is only model-checked

- liveness (`RequestsSettle`, `DisconnectsGoOn`, `SubmissionsEnd`,
  `EveryCallSettles`, `AutofillEnds`) and the fairness half of `ServiceSpec`: out
  of the prover's reach;
- `NumbersAreKept`: what `st-number.ts` does to digits goes through texts in two forms
  and a nearest value, rounded twice at 2^63, which the SMT solver does not find; TLC
  tries the numbers at every limit;
- `SignedAsValidated`, over documents that contain documents: the codec's part is
  a recursive operator in `TxWire`;
- the violations, which are counterexamples.

## Not modelled, and why

Key material, proofs and signatures as such: cryptography, in vendored WASM or
libraries. Wording, tracing, proxies and URLs: no property is about them. The
payload of responses and streams; the warnings of `partialPayment.ts`, which
adds objects to responses and keeps nothing. The requests, responses and ledger
entries of `models/`: declarations without code. Of transactions, the text of
values that no check looks into, pseudo-transactions, and the warning about the
metadata of a token. Of the codec, base58 and those fields of `definitions.json`
that no transaction has.

Several tokens in a confidential Batch do not meet. A Send to oneself, an inner
with a Sequence of the caller's (`confidential/batch.ts:753` passes it through
without advancing the counter), a balance read at another ledger than the
Sequence (717) and modes in which inners fail one by one are left out of
`ConfidentialBatch`. In `ReliableSubmission`, transactions of other accounts,
fees and `fail_hard`; two autofills of one account that overlap
(`client/index.ts:695`) get the same Sequence by design, so `NoSequenceReuse` is
about calls that follow one another. `networkID` may be that of a former server
after a `getServerInfo` that failed: `Client` has the behaviour, and the
repository promises nothing about it.

## Plan

Done: the request manager, the connection and its link, the client's events,
paging, faucet funding, module loading, sponsorship checks, autofill of a Batch
and of Fees, signing, the codec and its leaves, hashes' trees, balance changes,
reliable submission, the confidential Batch, and the models of all transactions with
their way through autofill, signing, the codec and the co-signer.

Next, in this order:

1. proofs: Numbers by themselves (`NumberIsKept`), so that `LeafValuesAssumption`
   need not speak of them; `TxWire` over depths, as the codec is;
2. `ConfidentialBatch`: several tokens; an abstract assembler that it refines;
3. a client that composes `Client` and `ReliableSubmission` through
   `RequestService`;
4. `mptokenMetadata.ts`, which shortens and expands the keys of a document.
