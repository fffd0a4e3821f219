# TLA+ models of the AnuBookDEX engine

This directory holds specifications of the parts of the repository that carry its
own logic, the TLC configurations that check them on small instances, and proofs,
checked by TLAPS, that hold for every value of the constants. `PROJECT.json` lists
the components, the runs, what each definition models (file and lines), the
hazards and the theorems; this file explains them.

    tlc -workers 2 -config MatchingStp.cfg MCMatching    # one run
    tlapm MatchingProofs.tla                             # the proofs of the engine
    tlapm MatchingTakerProofs.tla                        # and of the fills of one order
    tlapm AleoProofs.tla                                 # of its use on Aleo
    tlapm AleoSettlementProofs.tla                       # and of the settlement there
    tlapm RecoveryProofs.tla                             # of the centralized exchange
    tlapm QuotesProofs.tla                               # of its quotes
    tlapm AnubisProofs.tla                               # of the Anubis engine

`SumProofs.tla` (sums over finite sets) holds lemmas that these extend.

Contents: 1 the system, 2 the matching engine, 3 the Aleo engine, 4 the centralized
exchange, 5 the quotes, 6 the Anubis engine, 7 the runs, 8 the proofs, 9 what the
models found, 10 what is left out, 11 the plan.

Paths below are relative to `src/internal/` where they do not start at `contracts/`
or `docs/`.

## 1. The system

One matching engine is used in three deployments.

* **Centralized.** A *puller* reads orders from a MySQL sequence table and sends
  them to one *matcher* per trading pair. The match results go to *persistence*
  (ten writers, batched inserts), to *l2quote* (prices and candles), to the
  message queue, and a *snapshotter* saves the book from time to time. A restart
  loads the last valid snapshot and replays the orders after it.
* **DEX on Anubis.** A *subscriber* polls blocks, decrypts the orders in them,
  drops those whose nullifier it has seen and feeds the matcher. Results go to a
  *settlement* that collects them in batches and submits them from workers. A
  *risk engine* watches leveraged positions.
* **DEX on Aleo.** HTTP handlers accept orders into an *order pool*; the
  subscriber's event loop hands them to one matcher goroutine per pair, which
  after every match calls the *settlement* synchronously. The settlement makes
  token transfers and then runs a settling transition of the contract
  `main.leo`. A retry loop takes up failed settlements; cancel handlers refund on
  chain first and then send a cancellation to the matcher.

Component by component, with its state, its operations, what is hard about it, and
what makes it correct:

| Component (code) | State | Operations | Hard | Correct when |
|---|---|---|---|---|
| matching engine (`core/match/matcher.go`) | the order being matched, the results so far | `GenMatchResult`: limit, market, FOK, cancel, batch cancel, system cancel | loops over a mutating book; three places publish states; self-trade modes; asserts that end the process | amounts conserved, limits respected, results tell the book, FOK all or nothing, each loop ends |
| order book (`core/match/order_book.go`, `order.go`) | `cache`, `BuySet`, `SellSet`, `FromId` | enqueue, dequeue, peek, clone, snapshot, compare | a comparator over mutable orders; equal SeqIds | only live orders rest, never crossed |
| puller (`centralized/puller`) | cursor, channels | read rows after the cursor, send | rows that commit late, partial reads | each order once, in SeqId order |
| persistence (`centralized/persistence`) | batches, ten writers | insert ignore of results and orders | reordering, failed writes, crash | what is stored explains the next start |
| snapshotter, validation (`centralized/snapshotter`, `validate`) | snapshot files | save, load, compare, replay | crash between two saves | the book after a restart is the book before it |
| l2quote (`core/l2quote`) | result cursor, candles | update, save, load | replayed results, gaps in time | each result counted once |
| market depth (`core/market`) | aggregated levels | aggregate | none (pure) | sums per price |
| Aleo order pool (`dex/chain/aleo/orderpool.go`, `subscriber.go`) | pending set, ciphertexts, orders, channel | submit, get, complete, event loop | concurrent handlers, a full channel, submit before record | an id reaches the matcher once |
| Aleo order records (`orderrecord.go`) | order and trade records | record submit, record match, settle status | match before record, all trades of a maker set at once | the record is the engine's result |
| Aleo settlement (`settlement.go`) | credential records | settle a pair, transfers, transitions, retry | several transactions that fail one by one, retry of what was done | each trade paid once |
| Aleo cancellation (`cancel.go`) | none | refund on chain, then cancel | the match in between | a refunded order does not trade |
| Aleo contract (`contracts/leo/src/main.leo`) | public orders, records | place, settle, cancel | spent records, status asserts | status 0 to 1 or 2, once |
| Aleo and generic privacy (`dex/privacy`, `aleo/privacy`) | none | decrypt | none | conversion |
| Anubis subscriber (`dex/chain/anubis/subscriber.go`) | block cursor, a channel per symbol | poll, decode, send, unsubscribe | failed requests, blocks mined in between, restart from block 0, closed channels | each order once between two starts |
| Anubis settlement (`anubis/settlement.go`) | pending results, batch queue | collect, flush, submit, shut down | dropped batch, cancelled context at shutdown | each result submitted |
| leverage (`anubis/leverage.go`) | positions, marks, liquidation queue | open, mark, liquidate | channel sent to under a lock | at-risk positions are liquidated once |
| iceberg, AI analysis (`dex/ai`, `cmd/engine/aleo`) | slice plans | slice, submit child | child orders without a record | slices add up to the total |
| ZK prover, notes, KYC | none | stubs | none | |
| DEX storage (`dex/rocksdb`) | snapshot files by `FromId` | save, load, clean | `FromId` reset by a cancellation | the latest book is loaded |
| WebSocket hub (`dex/ws`) | clients, subscriptions | register, unregister, subscribe, send | reconnect with the same id, slow clients | a live client stays registered |
| message queue, cache, auth, infrastructure | connections | I/O | outside | |

Interactions. The engine itself is called from exactly one goroutine per pair, so
its commands do not interleave; everything around it does. In the Aleo deployment
the HTTP handlers, the event loop, the matchers of several pairs, the retry loop
and the cancel handlers share the pool, the records and the credentials under
mutexes that are released between the steps of one operation. In the centralized
one the parts are joined by channels and by the database.

## 2. The matching engine: `Matching.tla`

One instance is the `OrderBook` of one trading pair and the goroutine that calls
`GenMatchResult` on it.

| Variable | Code |
|---|---|
| `orders` | every `Order` received, also after it has left the book (then it only serves properties); `unfilled`, `acc`, `value`, `state` are its fields, `decreased` and `told` are history: what self-trade prevention took off, and the state last published |
| `book` | the ids in `cache`, `BuySet` and `SellSet`, which the code always changes together |
| `fromId` | `OrderBook.FromId` |
| `taker`, `checked` | the order a loop is at work on, and whether `canFilledFokOrder` has been passed |
| `items`, `price` | `MatchResult.Items` and `MatchResult.Price` of the command |
| `halted` | `common.Fatal` has ended the process |

Actions. A command (`Command`) is taken only when no order is being matched:
`ReceiveOrder` starts a limit, market or FOK order, `ReceiveUnsupported` an order of a
type `Match` has no case for, `SystemCancel`, `Cancel` and `BatchCancel` answer at
once. The loops of `matchLimit`, `matchMarket` and `matchFok` are run one iteration
per action: `FokCheck` is the test before the FOK loop; `TakerFinished`, `Exhausted`
and `Enqueue` are the three ways out; `Meeting` is the meeting with the head of the
other side, with one disjunct per outcome: the circuit stops the order
(`CircuitBreak`), an assertion of `matchOrder` fails (`AssertionFails`), a market buy
cannot afford one lot (`PrecisionCancel`), the orders trade (`Fill`), or self-trade
prevention acts (`CancelBoth`, `CancelOld`, `CancelNew`, `DecreaseCancel`).

A loop is never interleaved with another command in the code either, so splitting it
adds no behaviour; it makes the intermediate states visible to the invariants, which
is where an assertion would fail.

Abstractions. Amounts, prices and rates are integers: the engine turns any order
off the symbol's scale into a system cancellation. `Lot` is `LOWPRECISION` and
`RateUnit` the denominator of a circuit rate. OrderId and SeqId are one number, which
the engine never relates. `MonotoneSeq` says where SeqIds come from: the puller's
table, in increasing order, or the clients of the DEX.

Definitions whose name ends in `_Slip` are the definition after them with a plausible
mistake (a dropped guard, a swapped order, a missing reset). Nothing uses them; put
in place of the original they break the property `PROJECT.json` names beside them,
which shows that the property would notice the mistake.

## 3. The Aleo engine: `AleoLedger`, `AleoPool`, `AleoSettlement`, `AleoCancel`, `AleoDex`

Each module extends the one before; `AleoDex` is the whole, with the specification
and the properties.

**`AleoLedger`** is the chain as the engine sees it: the statuses of the public
orders, the spent records of the private ones, the one unspent credentials record
of the operator and what each trader was sent (`ledger`); the functions of
`main.leo` as `Accepts` (the assertions) and `Effect`; and `Execute(t, r)`, one run of
`leo execute --broadcast` with the transaction `t` and the report `r`. What is
reported and what happens are separate, as the comments at `settlement.go:348-356`
describe: a transaction lands and an error is reported, is rejected in its final
block after a broadcast that went well, lands late (`mempool`, `LandsLate`), never
lands, or is answered with "already exists" because a record of it is spent, or is
an input of a transaction in the mempool.

**`AleoPool`** is the order pool and what surrounds the matcher. One action is one
critical section of the pool's mutex, one channel operation or one step of the
matcher:

| Code | Actions |
|---|---|
| `HandleOrder` | `PostOrder` (Submit), then `RecordSubmit`; anything may happen in between |
| `eventLoop` | `Receive`, `Send` (waits for room), `Complete` |
| `StartMatcher`, `GenMatchResult` | `Take`, `Match` (the steps of `Matching`, through `M == INSTANCE Matching`) |
| `SubmitBatch`, first statement | `RecordMatch` |

**`AleoSettlement`** runs `settlePair` for two settlers, the matcher goroutine
(`SubmitBatch`: `StartItem`, `FinishItem`) and the retry loop (`RetryRound`,
`RetryStart`, `RetryFinish`). Its steps are `TransferBase`, `TransferQuote`, `Settle`
and `VerifySettled`, which ones depends on the forms of the two orders. The pooled
orders and the credentials are read at the start, as in the code, and used later.

**`AleoCancel`** is the handler of `POST /order/cancel`: `CancelRequest` (status and
pooled order are read), `Refund` (public orders), `CancelOnChain`, `VerifyCanceled`,
`SubmitCancel` (the Cancel order goes through the pool, where it replaces the order).

**`AleoDex`** composes them. `EngineIsUsedAsMatching`, that is `M!Spec`, is checked as
a property: with the composition's variables the engine behaves as `Matching` with
client-chosen SeqIds, one user and limit orders. `Matching` assumes that an id comes
once and that no command arrives in the middle of a match; the engine does not check
either, the pool and the goroutine structure must provide it, and the refinement says
that they do, which section 8 proves. What is proved of `Matching` for all values of its
constants therefore carries over.

Abstractions. One trading pair; one operator. Orders are placed on chain before they
are posted (`placed`), each id is posted once with the data of its placement, with
prices and amounts in whole units, since `settlePair` takes integer parts. Escrow
records are spent with the Order record they belong to. Addresses are the ids of the
orders. A credentials record is a number; each run that makes one gives it the next.
The `Quote` of an amount is `price * amount / Micro`. An HTTP client that gives up
changes nothing in the handler.

## 4. The centralized exchange: `MatchLog`, `Recovery`

**`Recovery`** is `cmd/exchange/main.go` with everything around the matcher of one
symbol, through crashes at any point and restarts. What survives a crash is in the
variables `rows` and `db` (MySQL), `files` (book snapshots), `quoteFile` (snapshots
of l2quote) and `redis`; the rest is lost.

| Code | Actions |
|---|---|
| the writer of the order rows (outside) | `Commit`: rows may commit below an id that was read (`late`) |
| `GoPuller`, of the matcher and of the validation | `Pull(p)` |
| `StartMatcher` and `onOrder` | `Match`, `Tick` (the snapshot ticker) |
| `DumpSnapshotChan`, `removeOldSnapshots` | `Dump` |
| `goBatch`, `goPersistence`, `insertMR` | `Batch`, `Write` (in any order, or it fails and is only logged) |
| l2quote's goroutine | `Quote`, `SaveKlines`, `TakeSnapShot` |
| `startExchange` | `Start` |
| `ValidateOrderbook` | `NoSnapshotFile`, `NothingToCheck`, `QuotesBehind`, `LoadWindow`, `ReadResults`, `Replay`, `Validated`, `NotValidated` |

The exchange matches while its validation runs, as in the code, where `startExchange`
comes first. `GenMatchResult` is a function of the orders before (module
`Matching`), so a book is written as the set of the orders it was given and the
result of an order as the book it met; a book loaded from the wrong file, an order
skipped, or matched twice, is a difference in these sets.

**`MatchLog`** is what the exchange promises to the readers of its results: each row
has one result, computed on the book of all rows before it. `Recovery` implements it,
`Log == INSTANCE MatchLog WITH log <- published`, property `OneLog`: an exchange that
stops and starts gives out the results of one that never does. The promise ends with
the first row that commits late, which the code cannot see (`MatchLog!Unspecified`).

## 5. The quotes: `Quotes`

`Recovery` keeps of l2quote only which results it has counted; `Quotes` is what it
counts. One action is one case of the goroutine's `select`: `Apply` (a result: every
period's klines, the market of the last 24 hours, its total), `CheckKlines`,
`BuildMarket` and `Clear` (the tickers), `Save` (Redis, every second) and `Snapshot`
("snapshot!" through the results' channel, which may come at any time, so also while a
restart still counts results again, and of a memory that is behind Redis (`Ahead`)); `Crash` and
`Restart` are `NewL2quote` from the newest snapshot. `getCurrentKline`, `updateKline`, `Rolled`
(`buildMarket24Hour`) and `UpdatedMarket` (`updateMarketDetail24Hour`) are operators of the
code's names or ideas.

Time is in minutes, and `Starts[t]` gives the windows of a period, as
`CurWindowTime` and `NextKlineTimeWindow` compute them; they need not have the length
`Step[t]`, which is how months come in; the run has periods of a fixed length. A result carries
the time its order was created, up to `MaxLag` behind the clock and in any order, which
is what the code's loops over past windows are for.

What the environment is assumed to do is in the guards of `Clock`, `Result` and `Crash`, and
nowhere else: an order is not older than `MaxLag` when its result is counted, for the first
time or, after a restart, again (`InTime`: the clock does not run on, and the process does not
end, while a result that is still to be counted would become older); and what is in
the cache when a minute ends has been written by the ticker of the second, unless Redis failed
in that minute. Section 9 says what the code does with older results.

`FillsOf(rs, n, minutes)` is what the klines and the market should say: the fills of the
first `n` results that fall in some minutes, put together without any bars. Every
property of the quotes compares what the code keeps incrementally with it.

## 6. The Anubis engine: `AnubisSubscriber`, `AnubisSettlement`, `Anubis`

**`AnubisSubscriber`** is one event loop per symbol, the chain and the two RPC requests
of a round. Blocks are mined between the requests, either request may fail, and the
send to the symbol's channel waits. `Unsubscribe` closes a channel under the loop,
whose next send panics and is recovered (`LoopEnds`).

**`AnubisSettlement`** is what the matcher goroutines, the batch timer, the workers and
`Shutdown` share. A flush takes the pending results under the lock and puts them into
the channel without it (`Flush`, then `Put` or `Drop`), so that several may be at it at once.

**`Anubis`** composes them: `Match` hands the result of an order to the settlement, `Deferred`
is the sequence of deferred calls in `cmd/engine/anubis/main.go`, one step at a time, with
every goroutine still running; `Crash`, `Restart` (an empty book and block 0). The
matching is one result per order. A closed channel gives the matcher a nil order, and
the panic ends the process (`MatchNil`), also in the middle of a shutdown.

## 7. The runs

Matching, amounts of 1 to 5 units, prices 1 and 2, two interchangeable roles of users:

| Run | Instance | Shows |
|---|---|---|
| `MatchingStp` | 3 ids from one sequence; limit orders of two users, market orders of one; DC, CO, CN, CB; cancellations | `BookNotCrossed`, `BookIsWhatWasTold`, `LimitPriceRespected`, `AmountConserved`, `TakerGetsWhatMakersGive`, `NoFatal` |
| `MatchingFok` | 4 ids; makers of one user, FOK and market takers of another, circuits of one half, a system cancellation, batch cancellations, `Lot` 2; fair | FOK is all or nothing and within its price; trades stay in the circuit; `TakerInv`: the inductive invariant of a match at work; `EveryOrderAnswered`: every loop ends |
| `MatchingDex` | 3 ids in any order; every type, also those without a case; batch lists with a repeated id; `Lot` 2 | `IInv`: the inductive invariant of the proofs, with `RestingIsLive`; limit orders reach no assertion |
| `MatchingFokStp` | 3 ids, FOK orders that meet their owner's orders | section 9 |

Three orders suffice for a taker that meets two makers, and for a maker that is met
twice; the FOK run has four because all-or-nothing over two price levels with a
circuit needs three makers. Amounts of 1 and 2 give the equal, the larger and the
smaller case of every comparison; `Lot` 2 makes a lot unaffordable or larger than the
maker's rest. Two prices give a spread, a crossing and a circuit that trips.

The Aleo engine; channel and pool capacities are 1, so each is full in most runs:

| Run | Instance | Shows |
|---|---|---|
| `AleoPairs` | 2 orders, every side and form for each, 1 fault, 1 cancellation, fair | `OrderIsInOnePlace`, `AcceptedIsMatched`: no order is lost or doubled between HTTP and engine, and each is matched; `RecordNeverAhead`: a record may lag behind the engine, never the reverse; `CanceledPublicIsOnChain`; `StatusIsFinal`; `EngineIsUsedAsMatching` |
| `AleoPrivate` | 3 private orders, one of two units against two of one, first or last, 1 fault, 1 cancellation | `PaidOnce`, `RefundedOrPaid`, `OneSettlementPerTrade`: for private pairs the spent records make retries, late transactions and a cancellation during a settlement safe |
| `AleoPaid`, `AleoRefund`, `AleoSettled` | public orders | section 9 |

`MaxFaults` bounds what does not go smoothly (a wrong report, a late, lost or repeated
transaction, a query that fails); `MaxCancels` the cancellations begun. One fault is
what it takes to make the retry loop run while everything else goes on; rejections
that follow from the state of the chain are not counted. Two orders make one trade,
three make a maker or taker with two, which is what `UpdateTradeSettleStatus` and the
contract's statuses are about.

The centralized exchange, the quotes and the Anubis engine:

| Run | Instance | Shows |
|---|---|---|
| `Recovery` | three scenarios: 2 orders, 3 starts, 2 ticks, a failed write; 2 orders, 2 starts, 2 ticks, a late row; 3 orders, 2 starts, 3 ticks | `OneLog`; `IInv`: the inductive invariant of the proofs; `WindowIsWritten`: a started exchange lost no result between its two newest snapshots; `QuotesCountOnce`; `SnapshotBehindRedis`; `HaltsForAReason`: no start is refused for nothing; `StartIsDecided` |
| `Quotes` | 2 results of four fills, up to a minute late, over 4 minutes, a period of one and one of two minutes, a day of 2 minutes, 2 restarts, 1 failure of Redis | `KlinesAreTheFills`: a bar with fills has their prices and count; `RedisCountsOnce`: every fill in its window once, also when the quotes go back to a snapshot taken in the middle of a replay; `DetailIsTheDay`: the incremental total is that of the fills of the day; `KeptUntilSaved`: the release takes nothing that is still to be written |
| `Anubis` | 2 blocks of up to two logs, one symbol, channels of 1, batches of 2, 2 workers, 2 ends of the process; fair | `NoGapNoRepeat`, `ResultsInOnePlace`, `EveryOrderIsTried`; a batch that is refused counts as ended and as tried |

In `Recovery` the fields of a scenario bound how often each thing happens. A result
that is lost needs a crash or failed write and one more start that validates; a third
start sees what a second wrote after it replayed; three ticks with `n-history` 2
remove a file while the validation's window is chosen among those left; channels of 1
and 2 hold results that a crash then takes away. In `Quotes` two restarts let the second go
back to a snapshot that was taken while the first still counted results again. A lag of a
minute is the longest that the two windows of a snapshot allow for the period of a
minute. `Keep` of 3 is the least that `CacheReachesBack` allows with one failure of Redis,
so the hourly release comes within one window of what waits in the cache, and it
removes klines with fills. `Forward` shorter than the time makes the limit bite; a day of 2
minutes drops fills from the total, and is idle for longer than itself. A result older than
the whole day needs a longer lag than a minute: of it the theorem `DayHoldsTheFills`
says what the run does not. In `Anubis` two ends of the process allow a crash in the middle of
the second pass; a second symbol has the same loop and a channel of its own, and would
share with the first only the workers' channel.

Deadlock is not checked (`CHECK_DEADLOCK FALSE`): the instances run out of ids, and
the engine stops after a fatal assertion; the liveness properties say what must not
stop early.

Fairness. `Matching!FairSpec` has weak fairness of `MatchStep`: the goroutine runs its
loop to the end. `AleoDex!FairSpec` has it of the event loop, of the matcher
goroutine and of `SubmitBatch` within it: they are started once and stopped by
nothing (`dex/runner/engine.go`), and each `leo` process ends. There is none for the
clients, the cancel handlers, the retry loop and the chain: what holds needs none.
`Recovery!Spec` has it of the main goroutine and of the puller the validation waits for,
none of crashes, restarts or writers: `StartIsDecided` holds although the rows of the
window may be late, since a window's rows were all read before its snapshot was taken.
`Anubis!FairSpec` has it of every goroutine, and strong fairness of `GetLogs`: the node
may fail any number of times in a row but answers now and then. The restart is fair
(the process runs under a supervisor); ends of the process are bounded by
`MaxFaults`, since one that dies before it ever settles settles nothing.

## 8. The proofs

### The matching engine

`MatchingProofs.tla` proves, for every set of ids, users and requests, every lot and
rate unit and every source of SeqIds allowed by `MatchingAssumption` (ids are positive,
amounts positive, prices of orders other than market orders positive):

* `Invariant`: `Spec => []IInv`. `IInv` is the conjunction of the type invariant,
  `RestingIsLive`, `BookNotCrossed`, `BookIsWhatWasTold`, `AmountConserved`,
  `LimitPriceRespected` and two that none of these gives alone: `SeqOrder` (no order is
  younger than `FromId`, and the taker is the youngest, so `matchAble` cannot refuse a
  crossing head, without which the book could rest crossed) and `TakerIsOpen` (the
  taker is not in the book; a limit taker that is not done has something left, so
  what `Enqueue` rests is live). One lemma per action; `Met`, `Finalize`, `Enqueue` and
  `Remove` are factored out because several actions end in them.
* `TypeCorrect`, `RestingOrdersAreLive`, `BookNeverCrossed`, `PublishedStateIsBook`,
  `Conservation`, `LimitPriceHonoured`: the parts, as theorems of their own.
* `NeverFatal`: with `MonotoneSeq` and only order types `Match` has a case for, no
  assertion is reached; the lemma `WholeLotsAreAffordable` carries the arithmetic of
  market buys.
* `LimitOrdersNeverHalt`: without `MonotoneSeq`, limit orders are kept from the SeqId
  assertion by `matchAble`.

### The Aleo engine

`AleoProofs.tla` proves, for every set of orders and placements allowed by
`LedgerAssumption` (ids, prices and amounts are positive), every capacity of the
channels (`PoolAssumption`), and any number of faults and cancellations:

* `WayInvariant`: `Spec => [](WayInv /\ JobInv)`. The channel of the pair, what the event
  loop holds and the channel of the pool, read as one sequence (`Pipe`), `Carries` the
  accepted orders the engine has not received (`Waiting`): each of them is in it once, and
  no other order is. `Receive` and `Send` leave the sequence as it is, `Submit` appends
  and `Take` takes the head, so four lemmas about concatenation carry the step lemmas. The
  rest of `WayInv` says that there is a taker only in the stage "match"; for that
  `JobInv` is needed, since `FinishItem` ends the stage of the matcher goroutine.
* `OrderInOnePlace`: the invariant `OrderIsInOnePlace` follows, with the lemma that the
  counts of a concatenation add up (`CountsAdd`).
* `EngineImplementsMatching`: `Spec => M!Spec`. `Take` gives the engine a request under
  an id it has not seen, because the head of the pipe is a waiting order, and while no
  other is matched; every other action leaves the engine's variables alone.
  `EngineRequests` shows that the requests meet `MatchingAssumption`, so the theorems
  of `MatchingProofs` hold of the engine in this composition.
* `StatusSetOnce`: `StatusIsFinal`, from an invariant of the ledger alone
  (`LedgerInv`: the statuses are functions to 0..2, and whatever waits in the mempool is
  one of the three kinds of transaction). The argument is that of `AcceptedIsFinal`: a
  transaction takes effect only if the contract accepts it, it accepts only public inputs
  of status 0, and `Effect` sets no other status (`EffectOnStatus`). Which settler,
  handler or late transaction is executed does not matter.
* `CanceledOnChain`: `Spec => []CanceledPublicIsOnChain`. An order is `Safe` if it is not
  public or the contract has it as canceled; by `StatusSetOnce`'s argument (`Final`)
  what is safe stays safe. `CancelInv` follows a cancellation on its way: a handler that
  is about to submit, the Cancel commands in the pool, in the event loop and in the
  channel, and the orders last published as canceled are all of safe orders. It also needs
  that nothing else publishes a cancellation: the engine's orders are `Plain`, limit orders
  without self-trade prevention, which a match never closes as canceled.

`AleoSettlementProofs.tla` extends it with what the records, the settlement and the
accounts have to do with the matches. It assumes the same, and that `MaxCancels` is a
number (`CancelAssumption`):

* `RecordsFollowTheEngine`: `Spec => []RecordNeverAhead`. A record is written from the
  items of a match, so the items have to be right when it is over. `EngineInv` says what
  they are: each but the last is of a maker that is not the order itself, with an amount
  and a price that both orders have traded (`Backs`), and in a state that was published
  (`Makers`); each maker comes once (`Distinct`), since after a fill one of the two is
  filled; and the last item is what the engine has told of the order (`Reported`). What was
  once backed stays so, because matches only add to `acc` and `value` and a final state is
  never published over (`Grown`). The last lemma, `RecordsOfMatch`, goes through the three
  cases of `RecordMatch`.
* `TradeSettledByOne`: `Spec => []OneSettlementPerTrade`. `ToSettle` is the set of pairs of
  maker and taker whose first settlement is still before the matcher goroutine or under
  way; it only shrinks, except that a match begins with a taker nobody knew. `Tried` says
  that no trade of such a pair is failed, and `FirstTried` that no retry is at one. So the
  retry loop never has a pair before the matcher goroutine is done with it, although
  `UpdateTradeSettleStatus` marks the trades of every taker of the maker. The list that a
  round of retries goes through is a fold over the trades; `RetryableIs` says that its
  members are failed trades, with `FoldExists` of `SumProofs`, the same least-set argument
  as for sums.
* `PrivateOrdersPaidOnce` and `PrivateOrdersRefundedOrPaid`: `PaidOnce` and
  `RefundedOrPaid`, if every order was placed privately (`AllPrivate`). `ChainInv` says
  that whatever is broadcast or waits in the mempool is well formed, and a settlement in
  it is of an amount and a price its two orders have traded. `MoneyInv` adds that nothing
  was sent to an order whose record is not spent, and to one whose record is, either its
  escrow or at most what it was matched for. A transaction takes effect only on unspent
  records (`SettleEarns`, `CancelEarns`), so retries, late transactions and racing
  cancellations change nothing. The hypothesis is needed: the runs `AleoPaid` and
  `AleoRefund` are counterexamples with public orders, whose transfers spend nothing.
* `AleoTypes`: `Spec => []TypeOK`, for the chain, the pool, the settlement and the handlers.

`Retryable` and `MatchedTotal` are written as folds so that they can be reasoned about.

### The fills of one order

`MatchingTakerProofs.tla` is about the loop of a match, which no state between two
commands shows. Its invariant, `TakerInvariant`: `Spec => []TakerInv`, relates the
results of the taker at work to the makers it has met and to those it has still to meet:

* `MetInOrder`: every result is a maker's; prices only get worse, no order left in the
  book has a better one than those met (so the loop, which takes heads, cannot come
  back), and each is within the circuit of the first. `CircuitRespected` follows.
* `TakerGetsWhatIsGiven`: what the taker has in `acc` and in cash is the sum over its
  fills.
* `FokCovered`: once `canFilledFokOrder` has said yes, the orders left within the price
  and the circuit cover what is left, although the loop tests neither. With it,
  `FokWhollyOrNotAtAll` and `FokPriceHonoured`.

`FokWhollyOrNotAtAll` and `FokPriceHonoured` assume `FokWithoutStp`: an order that asks for
self-trade prevention may take away makers that the check has counted. The assumption is not
for convenience: the run `MatchingFokStp` shows the opposite without it.

A sum is a fold, and the induction over it that the library offers takes an operator,
which the provers cannot instantiate. `SumProofs.tla` goes around that. `Total(f, S)` is
the cardinality of the set of units `{<<s, k>> : s \in S, k < f[s]}`, of which the
library's facts about finite sets say all that is needed; `FoldIsTotal` shows that the
fold is that number, by a set of least size for which it is not. From there one knows what
happens to a sum when a term is added, changed or renamed.

### The centralized exchange

`RecoveryProofs.tla` proves, for every number of orders, starts, failures and late rows,
every size of the batches, of the channels and of the history (`RecoveryAssumption`):

* `RecoveryTypes` and `RecoveryInvariant`: `Spec => []IInv`. Until a row comes late,
  `ResultsAreRight` (a result is that of all rows before its order), `KeptIsRight` (every
  book, in memory, in the channels or on disk, holds all rows up to its `FromId`, and what
  is stored of results is true), `PulledInOrder` (for each of the two pullers: what was
  done, then what is queued, is the rows below its cursor), `WindowIsReplayed` (where the
  validation is, and that what it has replayed is in the database), `QuotesInOrder` and
  `QuotesAreWhole`. Nothing of it survives a row that commits below the cursor, and
  nothing of it is promised then.
* `ReadyIsWritten`, `ReadyCountsOnce`, `RedisIsAhead`: the invariants `WindowIsWritten`,
  `QuotesCountOnce` and `SnapshotBehindRedis`. The delicate part is the quotes: the matcher,
  the channel to l2quote, Redis and the file stand at four places of the same sequence,
  a restart goes back to the file and the book to another place, and the results in between
  come again. `QuotesInOrder` says that whatever is counted, or on its way, leaves out
  nothing between the snapshot's `FromId` and where it stands; `QuotesAreWhole` that
  nothing before is missing either, unless a tick before the validation has hidden it
  (section 9).
* `HaltsOnlyForAReason`: a start is refused only for a missing file, quotes behind the book,
  a result never written or a late row.
* `ExchangeKeepsOneLog`: `Spec => OneLog`, the refinement of `MatchLog`. A match of an order
  that has a result, after a restart or in the validation, is a stutter, because the book
  is the same again; the next order is the least row without a result.

### The quotes

`QuotesProofs.tla` proves the five invariants of the run, for every set of
periods, every set of fills, every length of the day, of the memory and of the forward limit,
and every bound on time, results, restarts and failures (`QuotesAssumption`). Snapshots are
taken at any time:

* `TypesHold`: `Spec => []TypeOK`. `TypeInv` adds how the counters stand to each other
  (a snapshot is never ahead of Redis, nor Redis of the last result that was applied)
  and that a period has finitely many klines, without which `Max` of them means nothing.
* `DayHoldsTheFills`: `Spec => []DetailIsTheDay`, without any condition. `DayInv` says of
  the market in memory, and of the one in the newest snapshot, that bar `i` counts the
  fills of the minute `i - 1` before the newest (`CountsMinutes`). The total is then the
  total of the fills of the day (`DayCountsFills`): rolling on over an idle time or a
  restart drops what is too old, and a late result adds to its own minute only.
* `RedisHolds`: `Spec => []RedisCountsOnce`, with `TimeInv` (no result that is still to be
  counted, or would be after a restart, is older than `MaxLag`: `Realtime`, `SnapshotIsOf`; a
  kline in memory or in the snapshot begins with a window, none after that of the clock) and `CountInv`. Redis is written bar by bar from the memory, so the
  memory must be right first: every kline in memory counts its fills, and one with
  fills that is no longer there is too old to be counted again (`OnlyOld`), which is what
  keeps `getCurrentKline`, `updateKline` and `takeSnapShot` from starting such a kline again
  at zero; what Redis has not seen is in the cache (`ToWrite`).
* `PricesHold`: `Spec => []KlinesAreTheFills`. `FitInv` has the four prices and the count of
  every bar with fills, in memory and in the snapshot. Adding fills to such a bar
  (`TradedFits`) joins two sequences: the first price stays, the last is new, the extremes are
  those of both. The bars after that of a result are levelled to its last price; when results
  come in the order of their times those have no fills yet (`NoneAfter`).
* `CacheHolds`: `Spec => []KeptUntilSaved`. A snapshot in the middle of a replay moves on the
  window that `Clear` looks at, so that window says little of what the cache holds;
  `KeptInv` dates the cache by the clock instead. A window of it is not before the last
  snapshot, or it is as young as a result when it is counted (`Recent`), one minute
  older for each failure of Redis since (`Carried`); no more than `Keep` windows are
  from it on, so `Clear` does not take it.

The three about klines have a hypothesis, stated at the end of `Quotes.tla`, which the code
relies on with its constant of 1440:

* `MemoryReachesBack` (`RedisHolds`, `PricesHold`): `Keep` is more than `MaxLag` and at least 2.
* `CacheReachesBack` (`CacheHolds`): `Keep` is more than `MaxLag` and the failures of Redis
  together, with one kline to spare for a period whose windows differ in length. For the
  klines of a minute that is a day, for all others more.

`RedisCountsOnce` and `KlinesAreTheFills` are of the periods in `LongPeriods`: each window begins
one `Step` after the one before it, which is not so of months (section 9), and `MaxLag` is no
more than one `Step`. A snapshot has two windows of a period, so after a restart an older
result would start a new bar at zero. `KlinesAreTheFills` says something as long as results come
in the order of their times, since a late one levels the bars after its own. `KeptUntilSaved`
is of every period. `MCQuotes` asserts that its instance satisfies both hypotheses and that all
its periods are long (`InstanceReachesBack`).

### The Anubis engine

`AnubisProofs.tla` proves, for any chain, capacities, batch size and number of blocks, and
for finitely many symbols and workers (`SettlementAssumption`; the sums over them need
it, and a process has no more):

* `NoOrderSkippedOrRepeated`: `Spec => []NoGapNoRepeat`. For each loop, what it has sent and
  what it holds to send is the flattening of the blocks up to where it has read
  (`Whole`), whichever requests fail and whatever is mined between the two of a round.
  The lemma it needs, `UpToJoin`, says that the orders up to a block and those of the
  range after it are the orders up to its end. A mined block changes no earlier one
  (`InChain`).
* `EveryResultInOnePlace`: `Spec => []ResultsInOnePlace`, also while the process shuts
  down. The results of a symbol sit in up to five kinds of places: pending, in the hands of
  a flush (several may be at it), in the channel, with a worker, settled or dropped.
  `HeldInv` counts them and collects them: as many as the matcher has taken from its
  channel (`Given`), and the same. Each step moves results from one place to
  another, so the lemmas are about one function at a time: a batch put at an index,
  taken from one, or added at the end of the channel. Together with `QueueInv` (the
  queue of a symbol is the end of what was sent) the two theorems account for every order
  from its block to its settlement.

### Only model-checked

Liveness, which TLAPS does not reach: `EveryOrderAnswered`, `AcceptedIsMatched`,
`StartIsDecided`, `EveryOrderIsTried`. Every other property of a passing run is proved.

## 9. What the models found

Four runs end in a violation of what a comment or document says:

* `MatchingFokStp`: `canFilledFokOrder` counts the owner's own resting orders, which
  self-trade prevention then takes away; the FOK order ends partly filled.
* `AleoPaid`: `settlePair` repeats its transfers on every retry. Each run of `leo` builds
  a new transaction, so a transfer that was made and reported as an error is made
  twice.
* `AleoRefund`: the cancel handler transfers the escrow back before anything keeps the
  order from being matched; no fault is needed for an order to have both.
* `AleoSettled`: the success of `settle_pp` is judged by the seller's status alone. The
  second partial fill of a public sale is rejected by the contract and reported
  settled.

Observed while modelling, without a run of their own. In the matching engine:

* IOC and LimitMaker orders, which the README lists as supported, end the process:
  `Match` has no case for them.
* The circuit of a market order is measured from `results[0]` (`matcher.go:302`), which is a
  self-trade cancellation when the owner's order came first: the order may be
  circuit-canceled before it has traded. `docs/订单类型.md:38` says that matching stops when the
  price of a later level departs from that of the first trade.
* A resting order that DC decreased and that never traded is reported
  `partial-canceled` when it is cancelled (`matcher.go:586`), and a limit or FOK buy
  reports its filled amount as `AccFilledAmountValue` (`matcher.go:684`, declared as
  amount times price).

In the centralized exchange:

* A snapshot tick between `startExchange` and `ValidateOrderbook` writes a quote snapshot
  whose `MaxMRId` is past results the quotes never saw: the check of
  `validate.go:33` passes at the next start (`hidden` in `QuotesCountOnce`).
* `CompareOrderBook` compares the orders of the first book's cache and the sell sides, not
  the buy sides, and does not notice a cache of the second that has more
  (`order_book.go:233-259`).
* A row that commits below the cursor is never matched while the process runs
  (`puller.go:149`), and may be by the validation of the next start, which then refuses.
* The pullers ignore errors of `Scan` (`puller.go:205`).

In the quotes:

* The hourly release looks at the window of the last snapshot only. After a
  stop of more than 1440 windows, or when a snapshot in the middle of so long a replay moves that
  window on, it removes klines of replayed results that `redisCache` still names, and
  `saveKlinesToRedis` is then fatal (`l2quote.go:245-258`, `redis_ops.go:38`).
* `updateKline` does not advance its loop when `getStartPrice` finds nothing
  (`kline.go:121-124`).
* A result later than the clock is dropped from the klines but counted in the market.
* `takeSnapShot` says it keeps the window of the last result (`snapshot.go:47`); it takes the one
  of the clock (`snapshot.go:64`), so that of a late result may be missing. It finds the
  window before by subtracting a nominal step, 31 days for a month, and takes an empty kline
  when there is none at that time: after a restart a late result of a month of 30 days
  finds no bar, and the prices and counts of that month start again.
* `HmType2Name` names the period of eight hours as that of six.

In the Anubis engine:

* `fetchOrders` ignores its symbol (`subscriber.go:151`): every loop sends every order of
  the chain to its own matcher. The model has it so (`EveryOrderIsTried` is for every
  symbol).
* `Shutdown` of the subscriber closes the channels its loops and matchers use; the nil order
  a matcher then reads panics, and `Recover` exits the process, which may overtake the
  flush of the settlement in the same sequence of deferred calls.
* A batch that `submitToChain` refuses is dropped (`settlement.go:144`, where a TODO says so). In
  the model it counts as ended and as tried, so no property speaks of it.
* `Shutdown` of the settlement cancels the context before it flushes: `flushSymbol` may
  then choose to drop the batch, and the workers end with batches in the channel. The
  cursor that restarts at 0 is what makes up for it, and what settles the rest twice.

## 10. What is left out

* `matchIoc` and `matchLimitMaker`: nothing calls them.
* The red-black tree and the cache map as data structures: the book is a set and the
  head is defined by the comparator.
* A client that posts the same order id again after `Complete`: `Submit` accepts it, and
  the second `Enqueue` of the id ends the process. The runs post each id once.
* The mode of the Anubis subscriber with a view key: its events carry no ciphertext, and
  every order is skipped. The nullifier set of the runner is filled by nothing.
* Leverage and risk: nothing calls `NewLeverageAdapter`. Iceberg slices are created by an
  HTTP request and are then orders like any other.
* DEX storage: with `chain.restore-snapshot` false, its default, nothing is saved or
  loaded. The WebSocket hub, the market depth, `trade.go`, `ticker.go` and `rabbitmq_ops.go`
  format for readers; no decision of the engine depends on them.
* The upload of snapshots to S3, and `check-result = false`.
* Parsing of transactions, decryption, formatting, logging, configuration, list
  queries, connections to MySQL, RabbitMQ, Redis and RocksDB, token authentication, the
  AI analysis, the web front end, the stubs of the zero-knowledge prover and of KYC.

## 11. The plan

1. **DEX storage** with `restore-snapshot` on: the snapshot named by a `FromId` that a
   cancellation resets, and the cursor of Anubis against the restored book.
2. **WsHub** and **Leverage**: small modules for the hub's registrations and bounded queues
   and for the liquidation queue sent to under a lock, once something starts them.
