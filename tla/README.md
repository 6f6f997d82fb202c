# Verification of go_fourmeme

TLA+ models of the Fourmeme trading bot, the TLC runs that check them on small
instances, and proofs that TLAPS checks for every size. The modules are
translated from the Go code; `PROJECT.json` maps every definition to its lines.

## 1. The system

`main.go` loads the configuration and the ABIs, opens MySQL, starts the price
cache, dials a BSC node and starts one goroutine, the block poller. On a signal
it closes `manager.ShutdownChan`, waits for `manager.WG` and closes the database.
The rest of the code is reached from event handlers, or from tests.

| part | state | operations | hard behaviours | what makes it correct |
|---|---|---|---|---|
| block poller (`parser/block_parser.go`) | `lastProcessedBlock`, ticker, one goroutine per block | poll, fetch receipts, advance | lagging replicas, failing requests, batches that end in any order, uint64 wrap | each block once, none skipped, cursor behind the workers and on the chain |
| process (`main.go`, `manager/global_manager.go`, `database/db.go`, `client/eth_client.go`, `config/loader.go`) | `WG`, `ShutdownChan`, `EthClient`, `DB` | start-up, retry, signal, drain, close | failure at each stage, signal at any time, select with two ready cases | resources outlive their users, WG covers the goroutines, shutdown ends |
| primary trader (`trade/`, V2 and V3 senders, `client/erc20_client.go`) | the wallet's nonce at the node, positions, rows | Buy, Sell, Approve, WaitForReceipt | calls race for a nonce, replaced or reverted transactions, lost answers, timeouts | positions and rows agree with the chain, one verdict per call, ordered sells, every call returns |
| slippage arithmetic (`client/fourmeme_client.go`, `trade/primary.go`, `trade/secondary.go`, `trade/trade_utils.go`) | what an order asks for, the position's amount | GetTokenStatus, LocalCalcMinAmountOut, calcSecondaryMinOut, receipt | the market moves between the look and the block, integer division, float64 percents | an order brings what was seen less the tolerance and the rounding, the wallet covers the position |
| position map (`manager/position_manager.go`) | map from normalised address to position | AddPosition, GetAllPositions, MarkAsSold | overwrite, stale copies, un-normalised lookup | a position has a mined buy behind it, whatever overwrites it |
| `transaction_records` (`database/repository.go`) | rows, unique `TxHash` | SaveTxRecord | inserts that fail unnoticed, empty hash twice | rows agree with the chain |
| profit monitor and secondary trader (`main.go`, `trade/secondary.go`) | snapshot of positions, sell goroutines | tick, executeSell, MarkAsSold | second tick before the first sell ends, position replaced meanwhile | what is sold is marked and not sold again |
| log listeners and event handler (`parser/listener*.go`, `parser/handler.go`) | subscriptions, `tokenSubs`, channels, rows | subscribe, reconnect, dispatch, record | connection loss against shutdown, duplicate start, events of one transaction, failing inserts | one live subscription each, WG never drains early, targets come back |
| Fourmeme log handlers (`parser/fourmeme/`, `utils/db_utils.go`, `utils/log_data.go`) | rows of `bsc_fourmeme_transaction` and their key | walk the logs, look the token up, price, save | blocks side by side, a restart that handles blocks again, several events under one key, a failing lookup or insert, 0 / 0 | a transaction with a trade is on record, by its own trades; no event comes twice, no row changes |
| transfer scanner (`parser/native/`, `utils/concurrency_utils.go`) | worker pool | Acquire, Release, ParseLog | pool at its limit, fatal exit in a worker | slots are those of scans at work, scans drain |
| BNB price cache (`client/price_client.go`) | entry, its age, read-write lock | GetBNBPriceUSDT, updater | callers that miss at once, writer against readers | no caller waits for ever |
| token cache and lists, notifier, BscScan client, logger, number formatting | see section 7 | | | |

Shared state couples them: the node (and through it the wallet's nonce and the
contracts), the position map, the database, the price cache, the worker pool,
`WG` and `ShutdownChan`. `HandleEventV3` has an empty handler list (its handlers
are commented out), `StartAllListeners` and the profit monitor are commented out
in `main`: as built, the bot polls, fetches receipts and drops them. The trader
is modelled as a library whose calls come from `go trade.Buy(...)` in
`parser/handler.go` and from `Sell`. `buyTokenSecondary` (`trade/secondary.go`) and
`StartSpecificTokenSubscription` (`parser/listener_token.go`) have no caller even in
a comment; they are modelled as they would behave beside the rest, `SecondaryBuy` in
`ProfitMonitor`, `Swap` in `Slippage`, `Callers` in `Listening`. `ProfitMonitor`,
`Listening` and `BlockHandling` model the program with the commented-out lines in force.

## 2. Modules

| module | models | state and actions |
|---|---|---|
| `GracefulShutdown` | what a program that shuts down with a closed channel and a `WaitGroup` promises of its jobs: started before the signal, ended after it, each once, and `main` past `WG.Wait` only when none is left | `stage`, `working`; `Start`, `Signal`, `Stop`, `Exit`, `Fail`. `Lifecycle` implements it with poller and monitor as the jobs, `Listening` with the listeners of the targets as well |
| `OrderLedger` | what the trader promises to its books: one verdict per order, a position only of an order whose buy is on the chain and never taken away again, at most one row per order and only after its verdict | `mined`, `verdict`, `holder`, `book`; `Mine`, `Fail`, `GiveUp`, `Hold`, `Record`. `Trading` implements it |
| `BlockCursor` | what the poller promises: a cursor that joins once and then only moves up over finished blocks | `cursor`, `done`; `Join`, `Finish`, `Advance` |
| `BlockPolling` | `StartBlockPolling`, `pollNewBlocks`, `processBlockReceipts` up to the receipts | `last` is `lastProcessedBlock`, `latest` the poll's height, `fetching` the goroutines of the batch, `pc` the loop. `SelectTick`/`SelectShutdown` are the two cases of the select, `HeaderError`, `NothingNew`, `SpawnWorkers`, `Advance` the paths through one poll, `FetchOK`/`FetchError`/`FetchPanic` the ways a block's goroutine ends |
| `Lifecycle` | `main`, `waitForShutdown`, composed with `BlockPolling` by `INSTANCE` | `phase` is the main goroutine, `wg` the counter; `PollerEnds` is the poller's return with its deferred `WG.Done`; `PollerWorks` any other step of the poller |
| `TradeLedger` | what the table of trades promises: it grows by one entry at a time, no key comes twice and no event does | `entries`; `Record` |
| `BlockHandling` | what the poller does with receipts: `processBlockReceipts`, `HandleEventV3` with the handlers it lists in comments, `saveTradeRecord`, `CalcTxUniqueSeq`, the transfer scan and its pool; composed with `PriceCache` | a goroutine per block with its `stage`, its receipt `cur`, its `handler` and the `line` of the log it is at: `Receive`, `Match`, `TokenKnown`/`TokenUnknown`, `AskPrice`, `Save`, `Panic`, `LogsDone`. Scans are counted by where they are (`queued`, `looking`, `asking`): `Acquire`, `ReturnEarly`, `LargeTransfer`, `NonceKnown`, `NonceUnknown`. `Kill` and `Restart` are the process; `rows` outlives it |
| `PriceCache` | `GetBNBPriceUSDT`, `updateBNBPrice`, `startPriceUpdater` | `fresh`, and per caller where its call is; `GetPrice`, `Hit`, `Miss`, `Answered`, `Store`, `Unanswered`, `Refresh`, `Expire` |
| `Trading` | `Buy`, `Sell`, `PrimaryBuy`, `primarySell`, `WaitForReceipt`, `Approve`, both senders, `AddPosition`, `SaveTxRecord` | one `pc` per call, one action per request to the node or access to shared state; `txs`, `chainNonce`, `pendNonce` are the node |
| `Slippage` | the amounts of `PrimaryBuy`, `primarySell` and `buyTokenSecondary`: `GetTokenStatus`, `LocalCalcMinAmountOut`, `calcSecondaryMinOut`, `ExtractTokenOutFromReceipt` | an order reads the market (`funds`, `offers`), asks for a least amount (`ask`), and is filled or rejected on the market it is mined on; `position` and `wallet` are shared. `Buy`, `Sell`, `Swap`, `GivesUp`, `Fill`, `Reject`, `Receipt`, and `Move` for the others |
| `ProfitMonitor` | `monitorProfitAndLoss`, `executeSell`, `SellTokenSecondary`, `approveToken`, `MarkAsSold`, and the positions buys add | a buy is the `Position` it allocates, so that pointers are shared as in the code; `left` is what a walk over the copied map has still to see; `Poll`, `Skip`, `Offer`, `WalkDone`, `SelectShutdown` are the loop; each running sell has a `stage`, one per request |
| `Listening` | `StartAllListeners`, `StartTokenListener`, `StartSpecificTokenSubscription`, `HandleEvent` | `listener` and `loop` are the goroutines, `others` are poller and monitor (each from its `WG.Add` in `main` to its deferred `Done`), `leaving` counts those that handed over to a new one and have not returned, `chan` the logs in the channels, `handling` the `go HandleEvent` goroutines; `Matches` is the filter the query amounts to |
| `*_proofs` (7) | theorems about `BlockPolling`, `Lifecycle`, `Trading`, `Slippage`, `ProfitMonitor`, `Listening`, `BlockHandling` | see section 5 |
| `MC*` (7) | TLC instances of the same | |

Operators named `X_Something` before an `X` are faulty variants of `X`: each is
the mutant that shows that some property depends on the code being as it is.

### Abstractions

* A block is its height, a transaction the call and the kind that sent it. The
  gas price decides a replacement, which is therefore a free choice.
* The node answers nonce requests from one pool. A header request may be
  answered by a replica that lags (`MinHead .. head`). Reorganisations of the
  chain are not modelled.
* `transaction_records` and `bsc_fourmeme_transaction` have the unique indexes
  their entities declare; `AutoMigrate` is commented out, so the tables are taken
  to have been created from them.
* The wallet address of the configuration is that of the private key.
* In `Trading` amounts are one unit and `LocalCalcMinAmountOut` only chooses one;
  packing and signing have no state. In `Slippage` it is the other way round:
  amounts are integers, and nonces, failed requests and rows are left out. The
  market is two numbers and an order does not move it.
* Floating point: `LocalCalcMinAmountOut` multiplies a `big.Float` of 64 bits and
  more by the float64 `1 - slippage`, which is not the decimal it stands for
  (`1 - 0.29` is 0.70999999999999996), and cuts the product. `Rounded` takes any
  integer that an error of one part in `Precision` may lead to. For whole percents
  below 100 the error of the code is less than one part in 2^49; the run takes 1000,
  so that exact results are missed from both sides with small numbers, and the
  theorems hold for every `Precision` of at least 100. The other conversion,
  `int(slippage*100)`, is exact but for three whole percents (`Cut`).
* A signal after the first one is ignored by the program, so there is one.
* In `ProfitMonitor` the price is the constant 0 of the code, at which every position
  is due at each tick; `Due` has the two limits all the same. The wallet's nonces
  are those of `Trading`: here a send succeeds, or fails with or without effect.
  What the chain makes of a swap is left out; the code does not look either.
* `calcSecondaryMinOutForSell` returns nil, on which packing the swap panics.
  `quotes` chooses between that and a function that does what its comment says;
  both are checked. What the properties say of sold positions is said of the
  second: as built, no sell gets past `Quote`.
* In `Listening` a log has its first topic and its transaction. A subscription
  request may fail for any reason, among them a node without subscriptions or
  with a limit on topics. The waiting callers, the map and the rows are as in the
  code: the key of the map is the address as a caller spells it, and an insert may
  fail and leave no row. Which address a log is of is not modelled, so a token's
  subscription may match a transfer or not. Poller and monitor are there for what
  they do to `WG`; their own steps are in `Lifecycle` and `ProfitMonitor`.
* In `BlockHandling` a log is what it makes the handlers do: a buy, a sell, a
  buy or sell of 0 for 0 (which panics in `big.Float`, in a goroutine that does not
  recover, and so ends the process), or something else. The poller hands a block
  to one goroutine per life of the process, which is what `BlockPolling` shows,
  and a new process may handle old blocks again. Scans are alike but for the
  receipt's shape, so they are counted. `LogFatal` in a worker ends the process.
* In `PriceCache` the entry is usable or not; a missing one and an old one are
  the same to every caller. Prices matter to no property.
* `InitBnbPriceCache` in `main` ignores its outcome and is left out of `Lifecycle`.

## 3. Runs

| run | instance | what it shows |
|---|---|---|
| `poller` | up to 5 blocks, replies from height 1, wrap at 7 | safety, refinement of `BlockCursor`, and liveness. Five blocks give batches of several blocks, a lagging reply in the middle, and a second batch |
| `poller_missed_block` | 3 blocks | `NoBlockMissed` fails: fetch error, then the cursor moves |
| `process` | 3 blocks, 3 connection attempts, both builds | `launched` is chosen in `Init`: the program as built and with line 57 of `main.go` in force. Main with its goroutines is a `GracefulShutdown`, and leaves no block half done |
| `process_shutdown_hangs` | as built only | `ShutdownCompletes` fails: WG.Wait waits for a goroutine nobody started |
| `trade` | 2 calls, one token of each route, failing inserts | nonce races, replacement, revert, late receipt; that a call sends each kind of transaction once although an error may hide that it was taken; refinement of `OrderLedger`; and that calls return. Two calls are enough for each race between two; the proofs extend the safety part to any number |
| `trade_untracked_buy` | 2 calls | `BoughtIsTracked` fails: receipt timeout, then mined |
| `trade_reverted_buy` | 2 calls | `RevertedNeverHeld` fails |
| `monitor` | 2 positions of one token or of two, of either kind, empty or not, 2 sells at a time, both `quotes` | overlapping ticks, sells and replaced positions; liveness of monitor and offers (`DueIsOffered`: what is at a limit is sold). Two positions are enough for one to replace the other under a sell, two sells for an overlap |
| `listeners` | 1 target, 2 callers for one address, poller and monitor, 2 logs of one transaction, 1 failure: a lost connection or a failed insert | `main.go` with all commented-out lines in force: as built `ShutdownEnds` fails for the reason `process_shutdown_hangs` shows. Hand-over of `WG` through reconnection and shutdown (refinement of `GracefulShutdown`), rows, liveness. One lost connection gives the hand-over, with the old goroutine gone or not when the signal comes; the safety properties are proved for any number of failures |
| `blocks` | 2 receipts in one block or in two, of trades, buys and sells of nothing, transfers and calls; one pool slot; one restart | that a transaction is on record by its first trade, refinement of `TradeLedger`, slots, and the end of blocks and scans. Two receipts give two scans for one slot and two goroutines at the cache; a restart handles a block on top of the rows it left |
| `orders` | 2 orders, 2 amounts, 4 values of each reserve (0 among them), 3 tolerances (0 among them), 2 moves | `SellProtected`, `PositionCovered`, `SteadyFills`: more tokens than BNB and fewer, an empty market, least amounts cut to 0 and replaced by 1, a tolerance that float64 cuts, exact amounts missed by the rounding |
| `orders_unprotected_buy` | the same with one tolerance | `BuyProtected` fails: the amount is divided by tokens per BNB |

The bounds are `MaxHead` (chain length), `MaxUint` (where the cursor wraps; any
value above `MaxHead` behaves alike), `MaxRetries`, `MaxFailures` (lost
connections and failed inserts), `MaxRestarts`, `MaxMoves` (moves of the market), and the sets
`Calls`, `Tokens`, `Buys`, `Sellers`, `Callers`, `Addresses`, `Logs`, `Blocks`, `Chains`,
`Orders`, `Amounts`, `Reserves`, `Percents`. Nonces are bounded by the number of
transactions the calls can send. With all `Sellers` busy a walk waits for one,
which the program does not.

With `MinHead = 0`, a node that reports height 0 while it synchronises, the first
poll wraps the cursor and the poller never handles a block again. The runs and
the theorem about `CursorOnChain` assume `MinHead > 0` for that reason.

The other disagreements between code and documentation that the modelling met
are visible in the definitions. No property takes them for right: what is checked
would hold of code that did as documented, too.

* `common.go:42` passes 0 for the log's index, although `transaction.go:9` says the
  key is 'block + txIndex+logIndex' and `db_utils.go:6` gives the index four digits:
  all trades of a transaction have one key, and all but the first are lost when they
  are saved (`Key`, `Save`). `TradeRow` and `TradeLedger` say nothing of the later
  trades, and ask that those on record be on record once.
* `main.go:82-83` sets the current price to 0 (a TODO), although `READ_ME.md:94-97`
  says the monitor asks for the price and sells on take-profit or stop-loss: every
  position is at its stop-loss at each tick (`Ratio`, `Due`). `DueIsOffered` is about
  positions at a limit.
* `primary.go:107` reads the map under the raw address, although
  `position_manager.go:14` says its keys are 小写标准化 (normalised to lower case):
  a position is not found by its hex address (`Holding`), which is how event handlers
  name a token. No property depends on it.
* `listener_token.go:27` looks the raw address up as well: two spellings of a token
  subscribe it twice (`ClaimToken`).
* `listener.go:45` gives each topic a position of its own, although the comment at
  `:43` says all topics are merged: with two topics or more nothing matches.
* `price_client.go:52` returns 800 where the comment above says 0.
* The V2 route sells without an approve; a sold position of the primary market
  stays in the map; the entry of `tokenSubs` is never removed, so a token whose
  connection is lost is not subscribed again (`TokenReconnect`); `handler.go:121`
  passes the address of the contract that emitted the event.

## 4. Fairness

* Goroutines are scheduled; the ticker fires; requests end in a reply or an
  error. The code passes `context.Background()`, so the last is an assumption
  about the client library and the network, not something the code enforces.
* `SF` on the shutdown case of the select: Go picks at random among the ready
  cases, so a case that is ready again and again is picked.
* `SF` on a header reply with the true head: the node does report it now and
  then. Only `BlocksGetAttempted` needs it.
* `WF` on each call's steps in `Trading`; the chain is not assumed to mine
  anything. `WaitForReceipt` ends because its context expires.
* In `ProfitMonitor` and `Listening` likewise: `WF` on goroutines, ticker and
  requests, `SF` on the monitor's shutdown case. Connections need not be lost nor
  logs be emitted.
* In `BlockHandling`: `WF` on the goroutine of each block and on the steps of the
  scans. A process need not be killed, nor restarted, nor the price age. `WF` is
  enough for the write lock because readers of the cache do not come back to it
  for ever: each block has finitely many logs.
* Nothing is assumed of signals or the database, and nothing at all in `Slippage`.

## 5. Proofs

`BlockPolling_proofs`, for every `MinHead`, `MaxHead`, `MaxUint`. The invariant
`IInv` adds to `TypeOK` the shape of a batch (what is in `fetching` lies above
`last` and at most at `latest`), what the cursor may be when it has not been
set, has wrapped or is on the chain, and that the blocks attempted are exactly
the range from the first one to the frontier, each once. Without the last part
`NoBlockTwice` is not inductive: a step has to know that nothing above the
frontier was attempted. From it follow `NoBlockTwice`, `NoGap`,
`CursorBehindWorkers`, `CursorMonotone`, `CursorOnChain` (for `MinHead > 0`) and
`Refinement`, that every step is a step of `BlockCursor` or a stutter. Two more say
what polling amounts to: `CoveredOnce` (each block the cursor has passed was handed
to one goroutine, once, which has ended, so that an error answer is the only way to
lose a block) and `NothingLeftBehind` (nor does a poller that has returned leave
anything half done).

`Lifecycle_proofs`, for every chain, retry bound and build. `PollHolds` is the lemma
that each step of the process is one of the poller or leaves it alone; through it
what is proved of the poller carries over, by an `INSTANCE` of its theorems.
`WgInv` gives the value of `WG` by phase: what runs, plus the monitor that may never
be started. `ResourcesHold` needs it: that `WG` is 0 when the database is closed is
what says that no poller is left, and `PollInv` that a batch does not outlive the
poller. `ShutdownRefinement` shows that the process implements `GracefulShutdown`, as
built and with the monitor started; `SignalInv` (with the channel closed main is
behind the signal) is what it needs beyond `IInv`. `BlocksInProcess` has `NoBlockTwice`
and `NoGap` for the whole process, and `ExitClean`, which needs the invariants of both
modules at once, says that no block is half done when main closes the database or
returns.

`BlockHandling_proofs`, for every chain, pool and number of restarts, in two layers.
`WalkInv` says where a block's goroutine may stand, that slots are those of scans
at work and that a price request goes with a row to be saved. `KeyInv` says that
rows bear the keys of their receipts, each once; from it follows `Refinement`, that
the table implements `TradeLedger`: the unique index turns a second row of an event
away, since its receipt has the same key. `RowInv` says which logs the walk of the
handlers has come past and that a receipt with a trade among them, and no failed
request, has its row, which is that of its first trade. A walk that starts again after
a restart owes nothing until it has come to a trade again; `FirstToSave` is the lemma
that such a trade is the first one or finds the row there. `TradeRow`, which is
weaker, follows. `WalkOnward` is a step property of the walk itself: within one life
of the process it goes to later logs, handlers and receipts only.

`Trading_proofs`, for every set of calls and tokens. `IInv` adds `NonceInv`
(transactions on the chain have nonces below `chainNonce`, all
below the pending nonce), `StageInv` (what a call at a given
stage has behind it: a mined buy, a position), `VerdictInv` (what positions and
rows imply about outcomes) and `SellInv` (where approve and sell of a call stand).
`SellAfterBuy` needs them all: a sell's nonce is at least the pending nonce of a
moment at which the buy behind the position was already mined. One lemma per
kind of step (`MoveIInv`, `SendIInv`, `SaveIInv`, `AddPositionIInv`, `MineIInv`)
carries the invariant, and `NextIInv` combines them. `Refinement` shows that the
calls implement `OrderLedger`: four actions are steps of it, mining puts at most one
more buy on the chain (`MineBuys`), a request to the node none (`PoolKeepsBuys`), and the rest goes
unseen. For `OneOrderPerKind` the stages get a rank: every step of a call raises it
(`StepAdvances`, which is also the theorem `CallsAdvance`), so a call whose
transaction of a kind exists is past the one stage that sends it (`OnceInv`), and what
replacing and mining do is mark existing transactions one by one (`AcceptImages`,
`MineImages`).

`Slippage_proofs`, for all amounts, reserves, tolerances and precisions from 100 on.
Lemmas about integer division (`DivGreatest`, `DivSwap`) and about the error of
`Rounded` (`RoundedFacts`) give two facts about what an order of the primary market
asks for: enough for any quote that is worth no more than what it computed with
(`LeastOf`), and with a tolerance no more than that is worth (`MostOf`). `SellLeast`,
`SellMost` and `BuyMost` (when tokens outnumber BNB) are their uses, `SwapLeast` and
`SwapMost` the same of the other market. `IInv` adds `AskInv` (an order's least amount
is one the formula gives, and a filled order brought as much), `GotInv` (until a sell
is filled the wallet holds what each filled buy brought) and `PosInv` (a position's
amount is at most that). `Protected` grants the rounding a unit and one part in
`Precision`, no more; without it the property fails at 29 percent of an exact amount.
`SteadyFills` leaves out a tolerance of 0, at which rounding up alone may ask for more
than an order is worth.
Two theorems measure what the run `orders_unprotected_buy` finds: `ScarceBuyProtected`
(where BNB are at least as many as the tokens, a primary buy is protected after all)
and `BuyAsksShort` (elsewhere its least amount is, rounding apart, the quoted one less
the tolerance times the square of BNB per token).

`ProfitMonitor_proofs`, for every set of positions, tokens and sells. A mark goes
to what the map holds at that moment, so `IInv` adds `MapInv` (an entry is a bought
position of its own token, and every bought token has one) and `WorkInv` (a sell
in hand is of a bought position, one at its mark has been swapped). `AckedIsMarked`
then survives a buy because a position enters the map once, and `MarkedWasSwapped`
the mark of a position that replaced the one sold. `SettledForGood` is a step
property over the same invariant.

`Listening_proofs`, for every set of targets, callers and logs. `ClaimInv` says
that who subscribes or runs has its address in `tokenSubs`, so a second caller is
turned away; `RowInv` that all handled events of a recorded kind have their row or
are in `lost`, which is easier to keep than the statement about buys alone. `CountInv`
says that `wg` is the number of goroutines: they are numbered triples, those that
handed over and have not returned included, and each step adds one and counts it, or removes
one and counts it, or leaves both (`Counting`); poller and monitor are triples, too.
`ExitAfterListeners` follows: at the exit `wg` is 0, so none of them is left.
`ShutdownRefinement` makes it a refinement of `GracefulShutdown`, in which a target's
job ends when its last goroutine returns.
`BuyOnce` needs `PipeInv`, which follows an event from the channel through its
handler: a target's event starts one buy at most, whatever connections are lost.

The assumptions are those of the constants, named in each module; TLC evaluates
them in every run.

## 6. Only model-checked

Liveness under fairness, which is outside what the prover does:
`BlocksGetAttempted`, `StartupEnds`, `SignalStopsPoller`, `LaunchedShutdownCompletes`,
`CallTerminates`, `DueIsOffered`, `MonitorStops`, `TargetReconnects`,
`DeliveredIsHandled`, `ShutdownEnds`, `BlockEnds`, `ScansDrain`. Every invariant,
action property and refinement of a passing run is proved. Of some of these the half
that needs no fairness is proved as well: `CallsAdvance` for `CallTerminates` (a call
enters no stage twice), `WalkOnward` for `BlockEnds` (nor a block's goroutine a log),
`CoveredOnce` for `BlocksGetAttempted`.

## 7. Not modelled

* Token cache and lists (`manager/token_cache_manager.go`,
  `trade/whitelist_checker_handler.go`): nothing in the repository calls them, so
  which goroutines would share the statistics, and in which order, is not in the code.
* Notifier, Telegram and mail: a loop over channels without state; no caller.
* BscScan client, logger, number formatting: requests, files and conversions
  without state. `LogFatal`'s exit is modelled where it is called.
* `TryBuy` and `TrySell` (read-only calls), `calcSlippageMinOut`, `filterLogs` and
  the lookup maps of the poller, `DeletePosition`, `GetPosition`, `UpdateTxStatus`
  and the queries of `repository.go`, `TryAcquire`: no caller.
