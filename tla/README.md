# VexPay in TLA+

TLA+ models of VexPay, a self-hosted, non-custodial payment gateway in Go, with
the TLC runs that check them on small instances and the TLAPS proofs that hold
for every instance. Paths below are relative to `src/`.

To check: `tlc -workers 2 -config <Run>.cfg <MCModule>`; to prove:
`tlapm <Module>_proofs.tla`.

## 1. The system

A merchant asks for an invoice over HTTP; VexPay derives a fresh receive address,
watches the chain, moves the invoice through its statuses and tells the merchant
about every change with a signed webhook. One process, one database.

| Component | State | Operations | Talks to |
|---|---|---|---|
| Invoice service (`internal/invoice/service.go`) | none of its own: it works on copies | `Create`, `Sync`, `ProcessOpen`, `List`, `Get` | repository, chain adapters, pricer, emitter |
| Repositories (`internal/store`, `internal/invoice/memrepo.go`) | rows; one derivation counter per merchant | `Create`, `Get`, `Update`, `ListOpen`, `ListByMerchant`, `NextDerivationIndex` | SQLite (one connection) or a map under a mutex |
| Watcher (`internal/watcher`) | a ticker | `Run`: one `ProcessOpen` per tick | the service |
| Sandbox chain (`internal/chain/mock`) and payment endpoint (`internal/api/sandbox.go`) | a ledger in memory | `Pay`, `CheckPayment`; the handler reads an invoice, pays, syncs its copy | the service |
| Bitcoin adapter (`internal/chain/btc`) | none | `DeriveReceiveTarget`, `CheckPayment`, `AddressStatus` (three HTTP requests) | an Esplora explorer |
| Webhook dispatcher (`internal/webhook`) | a WaitGroup; a goroutine per event | `Emit`, retries, `Close` | the merchant's endpoint |
| Process (`cmd/vexpay`, `internal/app`) | signal context, server | start, signal, `Shutdown`, `Close`, exit | all |
| HTTP API (`internal/api`) | none | create, list, get, pay; request timeout | the service |
| Rates (`internal/rates`) | a price cache | `price`, `CryptoAmount` | CoinGecko |
| Configuration and API keys (`internal/config`, `internal/auth`) | the environment, read once; a store of key hashes filled by `app.Build` | `Load`, `Validate`, `Authenticate` | the process, the middleware |
| Money (`internal/money`) | none | `ParseDecimal`, `String` | API, repository, rates |
| Views, QR, dashboard, PHP SDK | none that changes while serving | pure or static | - |

What is hard here:

- **Unserialised read-decide-write.** `Sync` works on the copy it was given.
  The watcher's copies date from the start of its pass; a payment handler's from
  before the payment. `Update` writes a copy back without looking at the row.
- **A chain that moves under the reader.** `AddressStatus` puts one report
  together from three requests, with blocks, reorganisations and replaced
  transactions in between.
- **Failure between two steps**: index taken and not used, row stored and client
  already answered with a timeout, change stored and not announced.
- **Goroutines nobody waits for**: the watcher, and handlers whose request was
  answered by `http.TimeoutHandler`, run on while `App.Close` drains.
- **Retries against late answers** in the dispatcher.
- **A cache filled outside its lock**: price lookups that miss overlap, and a slow
  answer replaces a newer price.
- **Restarts**: SQLite keeps the rows, the simulator forgets its ledger, and the
  environment may have changed: other keys, other chains, other confirmations.
- **Pages over a growing list**, in an order made of texts.
- **Amounts as texts**, padded and cut by the character.

What makes each part correct: a settled invoice was really funded (nothing else
justifies shipping goods); a terminal status is final and is the last change handed
to the emitter; nothing is announced that was not stored, and nothing stored goes
unannounced but for a crash; an address is never given to two invoices; an
invoice that was answered exists; one broken invoice does not stall the others;
a fiat-priced invoice asks for its price, at a recent market, and never less;
an amount is what was written, to the last unit; a client that pages through its
invoices sees them all; only the keys an operator gave or was shown let anyone in,
and only a sandbox key moves the simulator;
the process stops when told to and does not cut off deliveries it had started.

## 2. The modules

| Module | Models |
|---|---|
| `InvoiceStatus` | statuses, `IsTerminal`, `IsSettled`, the pure `Service.decide`; no variables |
| `InvoiceLifecycle` | the abstract promise to the emitter: statuses move, every move is announced (handed to `Emit`) before the next, only a crash loses an announcement |
| `InvoiceSync` | `Service.Sync` and `ProcessOpen`, run by the watcher and by sandbox payment requests over one repository; implements `InvoiceLifecycle` |
| `InvoiceCreation` | `Service.Create` and `resolveAmount` under concurrent requests, timeouts, failures and restarts |
| `WebhookChannel` | the abstract promise of the dispatcher: no word of a change that was not stored, one arrival per attempt at most, confirmed only if the merchant agreed, lost only with the process |
| `WebhookDelivery` | from a stored change to the merchant's endpoint, and from the signal to the exit; implements `WebhookChannel` |
| `BtcBackend` | `AddressStatus` against a moving chain |
| `RateOracle` | `Oracle.CryptoAmount`: the price cache under overlapping calls, the providers tried in order, the rounding |
| `InvoiceListing` | a walk through the pages of `GET /v1/invoices` while invoices are created, over both repositories |
| `Money` | `ParseDecimal` and `Amount.String` on sequences of characters, and a reference for them; no variables |
| `Gateway` | one gateway from its door: environment, `Build`, keys, requests one at a time, redeployments |
| `*_proofs` | the theorems about the module of that name |
| `FoldLemmas` | induction over numbers and over finite sets; sums and folds of the community modules |
| `MC*` | the constants of the instances TLC checks |

How they fit: `InvoiceSync` extends `InvoiceStatus` and instantiates
`InvoiceLifecycle` with a refinement mapping. It takes a row as inserted
(`NewInvoice`); the steps up to that row are `InvoiceCreation`. It takes what the
backend reports as one observation of a ledger (`ChainReports`); how such a report
comes about is `BtcBackend`, which uses the same `Decide`. `InvoiceCreation` takes any
positive `Prices` for a fiat price; `RateOracle` is how one comes about, and proves it
positive. `InvoiceSync`'s `Emit` hands a
change over; what becomes of it is `WebhookDelivery`, which instantiates
`WebhookChannel`. `Gateway` extends `InvoiceStatus` and `Money` and takes `Create` and
`Sync` as single steps: what happens inside them when requests overlap is in
`InvoiceCreation` and `InvoiceSync`.

### InvoiceSync

`repo` is the table, `ledger` what `CheckPayment` would see at this moment,
`queue` the slice `ListOpen` returned to the watcher, `proc` the local variables of
each goroutine, `events` the calls of `Emit`. The control point `pc` of a
goroutine stands before its next external call:

| Action | Code |
|---|---|
| `WatcherList`, `WatcherNext` | `ProcessOpen`: `ListOpen`, then the loop over the copies |
| `HandlerGet`, `HandlerPay`, `HandlerRefuse` | `handleSandboxPay`: `Get`, `Pay` (a credit replaces the earlier one), refused requests |
| `CheckPayment`, `CheckFails` | the adapter call of `Sync` |
| `DecideStep` | lines 208-229: record the observation, decide, set `PaidAt`; `now` is read here, after the chain was |
| `Update`, `UpdateFails` | `repo.Update`, all columns from the copy |
| `Emit` | `emitter.Emit` if the status of the copy changed |
| `ChainMoves`, `Tick`, `Crash`, `Create` | the environment; `Crash` keeps the rows and empties the simulator |

`funded` and `retracted` are history variables: whether the payment was ever
complete and deep enough, and whether a covering payment was ever taken back.
Simplifications: a failed `Update` is taken to have written nothing; amounts are
small integers; a Bitcoin ledger moves among a given set of reports.

### InvoiceCreation

`engine` is the store the gateway runs on, SQLite or memory; a restart empties the latter.
`next` is the counter row, `rows` the invoices, `call` a handler's locals, `answer`
what its client was told. `Start` is the way in: the API key (`Authenticated`), the
chain (`Registered`), and an error without any other effect when either is refused.
Then one action per call `Create` makes. `Timeout` answers in
the handler's place and cancels its context; from then on SQLite calls fail (the
in-memory store ignores the context) but a call that was in progress may still
succeed, and a handler past its last call answers nobody. `handedOut` is the
history of inserted rows.

### WebhookDelivery

`job[c]` follows one change through `Sync` (`syncing`, `stored`), `Emit` and
`deliverWithRetry` (`ready`, `sending`, then `delivered` or `exhausted`). `wire`,
`arrived` and `accepted` are the network and the merchant. An attempt the client
gave up on (`timedOut`) may still arrive and be accepted. `main` goes
`serving`, `draining`, then `waiting` in `wg.Wait` or straight to `closing`;
`released` is the moment between the last `Done` and the return of `Wait`, at
which an `Add` makes the WaitGroup panic (`EmitPanics`, which ends the process).
`Channel` maps this to `WebhookChannel`: a change is owed from the moment it is
stored, every attempt is a `Try`, an arrival is a `Hear`, and the end of the process,
by exit, panic or kill, is `Die`. Dropped changes were never owed.
`Unaddressed` changes are those for which the resolver finds no endpoint; `Resolve`
is asked per merchant, and `app.Build` wires one endpoint, or none, for all.

### BtcBackend

`tip` and `place` are the chain; `Blocks(h, top)` replaces the blocks from `h` on
by a longer branch. `ReadAddress`, `ReadTip` and `ReadTxs` are the three
requests, each answered from the chain at its moment. The explorer's order
(unconfirmed first, then newest block first) is assumed, as the code assumes it.

### RateOracle

`cache` is the entry of one asset and currency (entries do not interact), `call[c]`
one call of `CryptoAmount`, `now` the clock. A price is known by the moment its
provider looked at the market: `Sample` is that moment, `StorePrice` the arrival of
the answer, and anything may happen in between.

| Action | Code |
|---|---|
| `Hit`, `Miss` | the look at the cache under the lock, lines 57-62 |
| `AskProvider` | the loop, at provider `n`; past the last one the call fails |
| `Sample`, `ProviderFails` | `Provider.Price`: the request; an error, a bad answer, a price that is not positive |
| `StorePrice` | lock, write the entry dated now, unlock, return |
| `Priced` | the rest of `CryptoAmount`: the fiat amount is checked after the price was found |

`Tick` does not pass an asked provider by more than `Wait`, the timeout of its HTTP
client (10 s in `NewCoinGecko`); the moment of a step that only computes is not
modelled. `refused` is history. `app.Build` gives the oracle one provider; the code and the model
take a list.

### InvoiceListing

`rows` are the invoices, named in the order of their insertion, `at` their
`CreatedAt`; `create[c]` is a request between its look at the clock (`ReadClock`)
and its `Insert`, so rows do not enter in the order of their times. `walk` is a
client that asks for page after page until one is empty. `engine` is the
repository: `ListByMerchant` orders by `Precedes`, which is the text order of
`formatTime` in SQLite and the order of times in the memory repository.
`formatTime` builds the fraction of a second digit by digit, without the zeros at
its end, and `TextBefore` compares texts as SQLite does; base and number of digits
are constants. `RowLimit` is where the repositories differ: a limit of 0 means
twenty rows to one and every row to the other. `Restart` empties the memory
repository. Other merchants are left out: every key belongs to the one merchant.

### Money and Gateway

`ParseDecimal`, `SetString` and `Shown` follow `money.go` and `big.Int` on
sequences of one-character strings; `Worth` is the reference, a sum over the
digits' places, and `IsPlain` the texts it is about.

`env` is the environment, `keys` and `chains` what `Build` makes of it, `invoices`
what was agreed on and `status` how far each has come, `ledger` the simulator,
`overdue` the invoices past their expiry, `reply` the answer of the step just taken.

| Action | Code |
|---|---|
| `Start`, `StartFails` | `run` and `app.Build`: `Load`, `Validate`, `store.Open`, the registry and the key store, or an exit |
| `Redeploy` | the process is started again, perhaps in another environment, on the same database |
| `CreateInvoice` | `authed`, `createInvoice`, `resolveAmount`; `Create` may fail for reasons of its own |
| `GetInvoice` | `handleInvoiceItem` |
| `PayInvoice` | `handleSandboxPay`: the refusals in their order, then `Pay` and `Sync` |
| `Watch` | one successful `Sync` by the watcher, for chains that are registered |

A text of a key may have space around it: the request's is trimmed, the configured
one is not. Of two equal keys the one added last, the sandbox key, remains.
`Trials` pairs each environment with a `menu`, the amounts its clients write, so that
the many amounts need be tried in one environment only.

## 3. The runs

| Run | Shows | Instance |
|---|---|---|
| `SyncMixed` | type invariant; no false or undated settlement, no false receipt; terminal records of watcher-only invoices stay; no expiry of a watcher-only invoice while its money is there; the events retell the stored life | one Bitcoin and one sandbox invoice, one payment request, 5 reports, 2 chain moves, 1 crash |
| `SyncLifecycle` | under fairness and over a restart: `InvoiceSync` implements `InvoiceLifecycle`; a terminal change is the last one handed to the emitter; the sandbox invoice resolves although every check of the other may fail for ever | one Bitcoin and one sandbox invoice, one request, three reports, 2 chain moves, 1 crash |
| `SyncStaleTerminal` | *violation*: a copy read before the settlement is written over it | one sandbox invoice, one request |
| `Creation` | positive amounts; until a restart empties the store in memory, fresh addresses and answered invoices that exist | both repositories, three requests over eight kinds of parameters, one of them without a valid key, hardened boundary at 2, 1 crash |
| `Delivery` | a change accepted in time is final, `Close` waits for what was started, shutdown ends, every change settles; `WebhookDelivery` implements `WebhookChannel` | two watcher changes (one to a merchant with no endpoint), one request's change, two attempts |
| `CloseDrains` | *violation*: the watcher emits after `Close` looked | one change |
| `Backend` | the reported depth holds for the whole reported total; a settling report is funded | three transactions worth 1, 2 and 4, required depth 2, height up to 3 |
| `TornRead` | *violation*: a payment counted while unconfirmed, then replaced | the same |
| `Rates` | a quoted price is younger than the cache time and one request together; a call fails only when every provider failed it; the amount is the least that is worth the price | three calls, two providers, cache time 2, request timeout 1, times up to 5, a market that moves every moment, a good and a bad fiat amount |
| `Listing` | a walk skips nothing, repeats a row only for an insertion, no page is too large, seconds go back | two requests, three rows, seconds of four fractions, times up to 4, pages of 0, 1 and 2 rows, 1 restart, both repositories |
| `ListingOrder` | *violation*: two invoices of one second, the older one listed first | the same |
| `Front` | who is let in, who may move the simulator, what a default payment does, amounts exact and readable again | 49 environments, each restarted in any other of the same database; six ways to send a key; one invoice; 265 amounts in one environment, two in the others |

**Bounds.** A stale write needs two goroutines and one status change, which the watcher and
one request give; two requests that overwrite each other are covered by the proofs,
which hold for any number. Five
reports are all the cases `decide` tells apart: nothing, too little, enough but
shallow, enough, too much; the sandbox adds a zero and a negative amount, which the
endpoint accepts. `MaxTime` 2 with a window of 1 lets an invoice be looked at
before, at and after its expiry; `Create` stops one window earlier so that every
invoice can expire. `MaxMoves` lets a payment appear and disappear again,
`MaxCrashes` 1 lets a pass die at any step. Three requests are needed in
`Creation` for an index that is lost between two that are used. Two attempts give
a retry and a last one; more repeat the first. Three transactions make every
mixture of a deep, a shallow and an unconfirmed payment that covers 4 or does not.
Three calls of the oracle let two overlap, one overwriting the other's newer price,
and a third use what is left; the market's prices divide the amount with and without
remainder.
The fractions .00, .01, .10 and .11 have texts of three lengths, all that the order
of texts tells apart; three rows and pages of one or two let an insertion fall before,
on and behind the edge of a page. The environments of `Front` vary the keys and the
sandbox switch together, in development and in production, and every other variable
alone; two starts and one invoice are what a stale key, a lost ledger and changed
confirmations need. Two decimals and amounts of up to five characters reach every branch of
`ParseDecimal`. The two creating requests of `Listing` are interchangeable and
declared so; no other run uses symmetry, and liveness rules it out in most.

`CHECK_DEADLOCK FALSE` stands only in the runs that may stop: every creation request
answered (`Creation`), the process gone (`Delivery`, `CloseDrains`), every price call
ended (`Rates`), the walk over (`Listing`, `ListingOrder`), a gateway that could not
start (`Front`).

Every property of a passing run has a mutant: a definition such as
`UpdateFailsUnnoticed` beside `UpdateFails`, a plausible bug under which TLC finds
the property violated. The mutants are not part of any specification.

**Fairness.** `InvoiceSync!Fairness`: the clock advances; the ticker fires and
`Run` loops, so an enabled step of the watcher is taken (weak); a goroutine in `Sync`
runs on (weak). That a check and an update eventually succeed is asked, by strong
fairness because failures intervene, of the invoices in `Reliable` only. Nothing is
asked of the chain, of payments or of a client. `Resolves` additionally supposes
that the payment is there for good or not there for good: a covered invoice whose
transaction never gets its confirmations stays `confirming`, by design of `decide`.
`WebhookDelivery!Fairness`: goroutines run, the HTTP client's 10 s timeout fires,
`Shutdown` has its 15 s deadline. Nothing is asked of the merchant or the network,
and no signal has to come.

## 4. What is proved

The theorems hold for every number of invoices, handlers, requests, changes,
attempts and transactions, under the named ASSUMEs of the modules.

**InvoiceSync_proofs.** The inductive invariant is `IInv`: the types and the conjuncts
below, of which *Tracks* is added by a second induction on top of the others.

- *Sound*: every copy, wherever it is (row, queue, goroutine), that says "settled"
  comes with `funded` and with the observation it was decided from. A stale
  write moves such a copy to the row, so the property of the row alone is not
  inductive; that of all copies is. This gives `NeverFalselyPaid`,
  `NeverFalselyAnnounced` and `PaidAtIsSettlement`.
- *ListedOpen, Held, Fresh*: for a watcher-only invoice the queue and the watcher's
  copy never lag behind the row in status, and only one of them holds it. This is
  why `TerminalRecordsAreFinal` holds there and fails for the sandbox.
- *Tracks*: what a `confirming` record or an observation in hand knows of the ledger
  is still true unless `retracted`; it gives `NeverExpiredWhileCovered`.
- *Story*: without a crash, the log continues where it stopped, and ends at the stored
  status or where the change being emitted began. It is stated of the abstract
  variables, so that each step of the refinement is considered once; it gives
  `TheStoryIsComplete`.

`SyncImplementsLifecycle` shows every step of `InvoiceSync` to be a step or a
stutter of `InvoiceLifecycle` for watcher-only invoices. A change is owed from
`Update` to `Emit`. `LifecycleFinalWord` is `FinalWord` of the abstract module, with
`OwedIsStored` as its strengthening, from the abstract actions alone; `FinalWordIsFinal`
carries it over.

**InvoiceCreation_proofs.** No theorem assumes anything of the store. `IInv` has a part
that holds whatever happens: the types, and *Progress*, which says what a handler at each
stage has, amounts included. From it follow `TypeCorrect` and `AmountsArePositive`. The
other part holds until a restart has emptied the store in memory (`Forgotten`), hence
always with SQLite: *Ownership*, the index each handler holds, and each index handed out,
is below the counter and belongs to one request; and *Kept*, what was inserted is there.
From it follow `AddressesAreFresh` and `AnsweredInvoicesAreStored`, whose properties
except the forgotten store.

**WebhookDelivery_proofs.** `AttemptsLeft` and `CopiesAreOwned` strengthen
`AcceptedIsFinal`: a copy on the wire belongs to the attempt in hand or to one that
timed out. `CloseWaits` is inductive with the jobs' types.
`DeliveryImplementsChannel` adds `CopiesWereSent` (a copy is of an attempt that was
made, and is on its way or was handled) and maps every action to a step or a stutter of
`WebhookChannel`: an answer that comes too late is a `Hear` that leaves the word alone.

**InvoiceListing_proofs.** `Precedes` is a strict total order on any finite set of
rows, so the rows before a row can be counted, and no two have one `Rank`. *Given*
is the inductive part: every row that was there at the beginning, still is, and has a
rank below the offset was seen. An insertion only raises ranks, and a page takes every
rank from the offset to its end, so `NoRowIsSkipped`. `RepeatsAreCounted` bounds the
repetitions: a page that is not empty moves the offset to the number of rows before it
in the list; those of them that were there at the beginning have been given by then
(*Given* after the step), and the others were inserted since (*NewRows*), so the offset
passes the number of rows given by at most the number of insertions. That the text order
of `formatTime` respects seconds gives `SecondsGoBack`, for any base and width.

**Gateway_proofs.** *KeysAreOfThisStart*: the store holds the keys of this
environment and this start, and the mock chain only with the sandbox on;
*AnswersAreDue*: an answer that opens something names a caller whose key is in
that store. `SimulatorIsGuarded`, `ProductionKeysAreConfigured` and
`ConfiguredKeysOpen` follow. `DefaultsSettle` rests on `Decide` for an observation of
exactly the amount and the depth.

*Types* (`GatewayTypeCorrect`): `TInv` keeps rows, statuses and ledger in step, as
sequences of one length, and says of every row *AskedIsRead*: its amount is what the
text its merchant wrote was read as. `AmountsAreReadExactly` and `ShownAmountsParseBack`
follow from it and from what the two conversions do with a text of any length:

- The value of digits, the powers of ten and the numeral of a number are recursions.
  Each is shown to have a solution (`ValueExists`, `NumbersExist`) and no other
  (`ValuesAgree`, `PowersAgree`, `NumeralsAgree`); only then is it used.
- *Reading*: appending a digit multiplies a value by ten and adds the digit
  (`ValueOfAppend`), zeros behind multiply only (`ZerosBehind`). A plain text is one
  digit longer or shorter around the same point, so its `Worth` is by induction over its
  beginnings the value of its digits, filled up (`WorthOfPlain`). `PlainParses`:
  `ParseDecimal` reads exactly that; `LongIsUnreadable`: with more digits behind the point
  than the asset has, it refuses.
- *Showing*: a numeral has only digits, no zero in front, and its number as value
  (`NumeralFacts`), zeros in front add nothing (`ZerosInFront`), and the point that
  `Shown` puts in is the one `ParseDecimal` finds (`PointedIsRead`); so `ShownIsRead`, for
  both signs.

**BtcBackend_proofs.** `CallInv`: no block above the tip, the tip that was read is
not above the tip now (a winning branch is longer), and what the total counted
is still there unless it vanished. `ReportsCoverTheirTotal` follows at the last
request. *TotalInv* adds that the total is a sum over transactions that were there
(`BackendTypeCorrect`), and `SettledReportsAreFunded` needs that a sum of natural numbers
over a finite set grows with the set (`SumGrows`): what was reported deep is at most what
is deep now.

**RateOracle_proofs.** The inductive invariant `IInv` is the type invariant,
*CacheIsRecent* (an entry was sampled at most `Wait` before it was stored, whichever
call stored it last), and per call *Trying* (the providers before the one that is
asked have failed it, and it was asked at most `Wait` ago) and *Ended* (the three
properties of a call that is over). `CeilDivIsCeiling` shows `ceilRat` to be the
ceiling; `NeverUnderpaid` follows from it for every fraction and scale.

**FoldLemmas.** The library states induction for a predicate that is an operator, and
no prover here instantiates one. It also states, of sets alone, that a well-founded
order has minimal elements (`NatLessThanWellFounded`,
`FS_StrictSubsetOrderingWellFounded`, `WFMin`), and from that follow `NatSetInduction` and
`FiniteSetInduction`, induction for the set of the good elements. A recursive function
is by definition *some* function that satisfies its equation; so `FoldExists` constructs
one, `FoldsAgree` shows it to be the only one, and `SumUnfolds` and what follows of sums are
about that one. The fold over a sequence is the fold over its places; `RunExists` is a
fold that is known one step at a time.

Every safety property and every action property a passing run checks is a theorem. Only
model-checked is what needs fairness (`Resolves`, `ShutdownEnds`, `EveryChangeSettles`),
which is out of the prover's reach; and the four runs that expect a violation, which are
counterexamples.

## 5. Where code and words differ

- **A terminal status changes** (`SyncStaleTerminal`). `invoice.go:32` says a
  terminal status "will never change again". `Sync` writes back whatever copy it
  holds: a watcher copy that saw no money before a sandbox payment overwrites
  "paid". It holds, and is proved, for invoices only the watcher syncs; on Bitcoin
  there is no other caller.
- **Close does not drain** (`CloseDrains`). `app.go:126`. The watcher goroutine is
  started and never waited for; a change it stores just before the signal may be
  emitted after `wg.Wait` returned.
- **A torn report settles** (`TornRead`). `service.go:244` promises that uncertainty
  never yields a paid state; a replaced unconfirmed payment can. `Backend` shows
  that this is the only way: unless a counted transaction vanishes between two
  requests, reports are sound.

- **Not newest first** (`ListingOrder`). `service.go:180` says "newest first".
  `sqlite.go:146` compares texts whose fraction ends where its zeros begin, and "Z" is
  above "." and every digit: 12:00:00Z is listed above 12:00:00.5Z. `Listing` shows what
  remains true: seconds go back, and a walk still loses nothing.

Read off the code and the models, without a run of their own:

- One change may be announced twice, though `service.go:187` calls `Sync` idempotent: "with
  no on-chain change, nothing is emitted". The comparison is with the status of the copy:
  the watcher and a payment request that read the same status both announce the change of
  one payment. `StoryIsComplete` is therefore about invoices only the watcher syncs.
- Deliveries stop after `maxAttempts` attempts, five by default (`GiveUp` in
  `WebhookChannel`); `docs/index.html:263` says until a 2xx.
- `ParseDecimal` takes its sign off and leaves the rest to `big.Int`, which takes one too:
  "--5", "+5" and ".-5" are numbers, "." is zero. None yields a stored amount that is
  not positive (`TypeOK` of `Gateway`).
- An amount that reads as zero counts as none, so with a fiat price beside it the invoice
  is fiat-priced.
- A limit of 0 gets every row from the memory repository (`PageIsBounded` excludes it).
- A switch `ParseBool` cannot read, such as "off", keeps its default: the sandbox stays on.
- A configured key with space around it opens nothing (`ConfiguredKeyOpens` excludes it),
  and of equal live and sandbox keys the sandbox key remains.
- A settlement of a sandbox invoice that a stale copy undoes loses its `PaidAt`, and is
  dated anew when a later sync repeats it.
- An invoice whose chain is not registered after a redeployment stays open for good:
  `Sync` fails before it looks at the expiry (`Watch` in `Gateway`).

## 6. What is not modelled

- Row scanning, `Ping`, health and readiness answers: nothing changes state.
- The HMAC of a webhook: bytes in, bytes out. Every attempt is signed anew, so the age
  the recipient checks is the time the network takes.
- Key derivation (BIP32): only when it refuses.
- The values of the intervals and timeouts, the URLs of the explorers and the price
  service: read once and passed on.
- More than one merchant: `app.Build` gives every key to the same one, so the checks of
  `MerchantID` never differ.
- Views, random identifiers, QR codes, the dashboard, recovery from a panic and the PHP
  client: stateless.
- The order in which webhooks of one invoice arrive: each has its own goroutine and none
  is promised.
- The composition of `InvoiceSync` with `BtcBackend` and with `WebhookDelivery` as one state
  space. Its parts meet at one value each, the report and the change, and the abstract
  modules `InvoiceLifecycle` and `WebhookChannel` state what the other side may rely on.

## 7. What could follow

`InvoiceSync` with `BtcBackend` in the place of `ChainReports`, with the history
`retracted` replaced by the vanished transactions.

