# A verification project for dola

dola is a Go library for trading bots. It wraps the GoCryptoTrader engine (GCT
below): a bot is a `Keep` that runs *strategies* on every exchange of its
configuration. This directory holds TLA+ modules for the parts of dola that
keep state and run concurrently, TLC configurations that check them on small
instances, and proofs of the main results for TLAPS. Sources are named relative
to the repository's root.

    tlc -config MCKeepOrders.cfg MCKeepOrders     # any run
    tlapm KeepOrdersProofs.tla                    # any *Proofs module

## 1. Inventory

| Component | Source | State | Operations |
|---|---|---|---|
| OrderRegistry | `order_registry.go` | `values` (a `sync.Map` from exchange and order id to submit answer and user data), `length` (an int32) | `Store`, `GetOrderValue`, `Length` |
| Keep, single orders | `keep.go`, `toolbelt.go`, `observers.go` | the registry; local variables of the calls in flight | `SubmitOrder`, `SubmitOrderUD`, `ModifyOrder` (native, and the cancel-and-resubmit fallback of `toolbelt.go`), `CancelOrder`, `OnOrder` |
| Keep, bulk calls | `keep.go`, `util.go` | `ErrorWaitGroup`; the list of active orders | `SubmitOrders`, `CancelOrdersByPrefix`, `GetActiveOrders` |
| Keep, running | `keep.go`, `websocket.go` | a goroutine per exchange, the context | `Run`, `Loop`, `Stream` |
| RootStrategy | `strategy_root.go` | a `sync.Map` of strategies | `Add`, `Delete`, `Init`, `On*`, `Deinit` |
| CircularArray | `circular_array.go` | slice and offset | `Push`, `At`, `Last`, `Floats` |
| Historian | `strategy_history.go` | interval, last epoch, circular array | `Update`, `Push`, `Floats` |
| HistoryStrategy | `strategy_history.go` | two maps from exchange names to historians, a mutex | `Init`, `AddHistorian`, `OnPrice`, `OnOrder` |
| TickerStrategy, resource checker | `strategy_ticker.go`, `util.go` | a `sync.Map` of tickers, a goroutine per exchange, named counters | `Init`, `Deinit`, `CheckerPush`, `CheckerPop` |
| BalancesStrategy | `strategy_balances.go`, `holdings.go` | the last holdings of every exchange | `Init`, `tick`, `ExchangeHoldings`, `Deinit` |
| KeepBuilder, loading of exchanges | `keep.go`, `exchange_factory.go` | GCT's exchange manager, a wait group, configuration | `Build`, `setupExchanges`, `loadExchange`, `ActivateAsset`, `ActivatePair` |
| DedicatedStrategy | `strategy_dedicated.go` | none that changes | forwards the calls for one exchange |
| LogState | `logging.go` | `state`, a timer per `WakeUp` | `WakeUp`, `Awaken` |
| AwakenLogger, logging | `logging.go` | `dormantTrace` | `Trace`, `What`, `Msg` |
| Utilities | `util.go` | none | `ConfigFile`, `ExpandUser`, `RandomOrderID` |
| VerboseStrategy, reporters | `strategy_verbose.go`, `reporter.go` | none that changes | logging, forwarding |

**How they interact.** `KeepBuilder.Build` reads the configuration and has
`setupExchanges` load the exchanges into GCT's manager, a goroutine for each; the
wait group it waits on is handed to the exchanges, which count work of their own
on it. `Keep.Run` asks the manager for its exchanges and starts a goroutine
per exchange. It calls `RootStrategy.Init`, then `Loop`, which is `Stream` for an exchange with a
websocket and a wait for the context otherwise, then `RootStrategy.Deinit`.
`Stream` reads the websocket channel and has an `On*` method called on every
strategy; before that, an order goes through `Keep.OnOrder`, which looks for
its user data in the registry. Meanwhile goroutines of the user submit, modify
and cancel orders, which reaches the same registry from the other side, and add
historians, which writes the maps that `OnPrice` and `OnOrder` read. All panics
end the process.

**What is hard here.** (a) The exchange's answer to a submit and its push of the
fill travel separately, and the registry entry is written only after the answer.
(b) The exchange may carry out a request and still return an error, answer two
submits with one order, or fill an order while it is being cancelled. (c) One
goroutine's panic ends the others mid-step. (d) Strategies are called from the
goroutines of all exchanges at once, and only some of their state is locked.
(e) The circular array of a historian rotates at its capacity, and what it is fed
need not come in the order of its dates. (f) An exchange may fail to load at
any step, or never answer, while the others are waited for. (g) A websocket may
push a status again. (h) `LogState` has no lock: callers race each other and
timers that fire late. `PROJECT.json` lists the hazards
one by one, each at its line.

**What makes each component correct.** Registry: one winner per order, entries
for ever, a length off by no more than the calls in flight. Orders: the
acknowledged submit owns the order; its fill is not lost, reaches the right
observer, and a modification keeps the user data and leaves one order in the
market (it does if its cancellation succeeds: see `ConfirmedIsOut` and the run
`replaced_order`). Bulk calls: they return, with all errors. Running: `Init` first, events
only after a successful `Init`, every strategy told, an end after cancellation.
Historian: the last samples in order, one per interval. HistoryStrategy: maps
accessed safely, no historian lost, every pass complete. Ticker: one tick
goroutine per exchange, that goes on until `Deinit`. Balances: the snapshot is
exactly what the last pass fetched.
Loading: `Build` returns, an exchange is settled before it is run, and one that
failed to load is not run (it is: see `none_loaded`). LogState: awake for its
duration, then dormant, and never in the state its callback panics about.

## 2. The plan

1. *Orders* (done): `WriteOnce`, `OrderRegistry`, `KeepOrders`, with proofs of
   everything but liveness.
2. *Bulk calls* (done): `SubmitOrders`, `CancelOrdersByPrefix`, composed in
   `KeepBulk`, with proofs.
3. *Running* (done): `KeepRun`, with proofs in `KeepBotProofs`.
4. *History* (done): `CircularArray`, `LastN`, `Historian`, `HistoryStrategy`, with
   proofs.
5. *Ticker and balances* (done): `BalancesStrategy`, with proofs.
6. *Loading* (done): `SetupExchanges` (the wait group, an exchange that fails
   after it was added to the manager), composed with `KeepRun` in `KeepBot`, with
   proofs; DedicatedStrategy, in `KeepRun`.
7. *LogState* (done), with proofs.
8. *Proofs* (done): every invariant and every action property that a run checks is
   a theorem.
9. *What remains true of the violated statements*: that a replacement leaves both
   orders in the market only if the cancellation returned an error
   (`ConfirmedIsOut`) and that every race is a read of `fire`
   (`RacesAreUnlockedReads`) are done; that `Build` returns no error only if an
   exchange was added to the manager is left, as are the balances as a snapshot
   register.

Abstract specifications worth stating: the write-once map, which
`OrderRegistry` is shown to implement, and the last-N window,
which `Historian` is shown to implement; for the balances, a snapshot register.

## 3. The modules

### WriteOnce, OrderRegistry
`WriteOnce` is a map whose entries are set once and never change.
`OrderRegistry` is `Store` with its two atomic operations as two actions:
`LoadOrStore` on the `sync.Map`, then `Count`, the atomic increment of the
counter. `MaxInt32` is a constant, so that a small instance also reaches the end
of the counter's range, which no bot does in practice; the model does there what
`atomic.AddInt32` does. `GetOrderValue` and `Length` change nothing and are the operators
`Stored` and the variable `length`. The `log.Fatalf` of `GetOrderValue` is
unreachable, as only `Store` writes the map.

### KeepOrders
The state: the exchange's book and websocket channels (external), the registry,
and the program counter and local variables of every caller. `SubmitOrderUD`
has three steps: the request, the answer (`SubmitAnswered`, `SubmitFailed`), and
`StoreOrder`, which is `registry.Store` seen as one step (`OrderRegistry` shows
that `values` decides it atomically). `ModifyOrder` is the native modification,
then the cancellation whose error is dropped, the lookup of the user data, and a
submission. `HandleData` is one turn of the stream goroutine: the next message,
`handleData` and `Keep.OnOrder`. The exchange fills live orders at any time, may
place an order and still return an error, and may answer with an order it
already has. An order that is modified may be one the exchange never had, the
missing order of the comment in `ModifyOrder`. A cancellation that returns no error
has cancelled the order; one that returns an error may have. `observed`, `acked`,
`missed` and `replaced` are history variables, and so are `had` and `confirmed` in a
call. `observed` says whether the observer of an order was told of a fill, not how
often.

Abstracted: prices, amounts and all other fields; an order's history at the
exchange is `live`, then `filled` or `cancelled`, and final statuses are pushed in
order. An exchange in `Repeating` may push the last status of an order again
(`Repush`), as happens after a reconnection, whenever that push is not in the
channel already; `OnOrder` keeps no record of what it has handled. Partial fills are not seen by `OnOrder`. A native modification
keeps the order's id. The strategies' `OnOrder` that follows is in `KeepRun`.

### SubmitOrders, CancelOrdersByPrefix, KeepBulk
`SubmitOrders` has a goroutine per order on an `ErrorWaitGroup`; `multierr.Append`
is a read and a write (`DoneLock` reads, `DoneAppend` writes) so that the mutex
matters. `CancelOrdersByPrefix` lists the active orders once and cancels those
it listed, each with any outcome, and a cancellation that reports success left
the order not live. The code never looks at the prefix it is given, so that all
active orders of the pair, type and side are cancelled; nor does the model. `KeepBulk` composes the two over one exchange, on which
other calls place orders and which fills them: the order of a submission that
succeeded has been placed before it returned, that of one that failed may be
placed at any time or never.

### KeepRun
`Run`, `Loop`, `Stream`, `RootStrategy` and `DedicatedStrategy`; `Run(exchgs)` starts
the goroutines of the given exchanges. `RootStrategy.each` is a `Range` over
a `sync.Map`, during which others add and delete strategies: it visits nothing
twice and everything that was there throughout (`due`), and may or may not visit
the rest. Every panic of the code sets `alive` to FALSE, after which nothing
runs. A strategy of `Dedicated` is visited like any other and passes the call on
for its exchange, `Home`, only. `StreamPanics` is both panics of `Stream`: the closed
channel, and a `ClassificationError` that carries no error. The context reaches `Loop` only for an exchange without websocket, as in
the code. One event stands for all `On*` methods. The panic of `Run` on an error of
`GetExchanges` (`keep.go:172`) is left out: only a manager that is nil returns one,
and a Keep has one. A `wg.Wait` in `Run` that returns is unreachable, since every
goroutine ends in a panic, unless there was no exchange to run.

### SetupExchanges, KeepBot
`SetupExchanges` is `setupExchanges`, whose loop skips or spawns, waits, and counts
the exchanges in the manager; and `loadExchange`, a goroutine per exchange that
creates, adds, validates and starts it, each with its errors, and ends in the
deferred `wg.Done`. The validation may be answered, or time out, or stay
unanswered until then. `Start(wg)` adds to the group before it returns, and
`StartEnds` is the `Done` of that work, as GCT's exchanges do. `loaded` is a
history variable: whether `loadExchange` returned without error for any.

`KeepBot` is a bot's whole life. `Build` fails without a configuration, or returns
a Keep together with the error of `augment` or of `setupExchanges`, or without
one; whoever has the Keep may run it, on the exchanges that are in the manager
(`Live`). The setup's constants are `KeepBot`'s, with their assumptions.

### CircularArray, LastN, Historian
`CircularArray` is the structure as operators on records: `Push` grows the array
up to its capacity and then advances the offset. `Historian` has `Update` with
its early return, and the exported `Push`. `EpochOf` truncates towards zero like
Go's division.
`LastN` is the abstract window. The history variables `clock` and `ordered` say
whether the dates ran backwards.

### HistoryStrategy
Every access to one of the two maps is a step that begins it and one that ends
it, so that an unsynchronized write beside another access is a state (`Race`).
Go leaves what follows undefined, so no step leaves such a state. `Init` and
`AddHistorian` hold the mutex; `fire` reads without it, and `range` evaluates the
slice once. The goroutines of the exchanges are those of `KeepRun`; adders are
are any others. `TypeOK` also says who holds the mutex.

### BalancesStrategy
Three activities per exchange: the goroutine of `Keep.Run`, which calls `Init`
(publish an empty snapshot, start the tick goroutine, register the ticker) and
`Deinit`; the tick goroutine (`CountItself`, which is `CheckerPush` and may come
before or after the ticker is registered, then `BeginPass`, one `Fetch` per asset type, in any
order and each with any outcome, `Publish`); and the timer, whose channel holds
one tick. A balance is represented by its version, the number of times it has
changed, so that an older value can be told from a newer one; sub-accounts and
currencies of one asset type are fetched together and are one balance. `began`,
`lost` and `passed` are history variables. `Init` is called once per exchange,
as `Keep.Run` does, which is why the panics of `TickerStrategy` are unreachable:
`Register` finds no ticker and `Deinit` finds one, and `TypeOK` ties `tickers` to
`pc`. `Deinit` stops a copy of the `time.Ticker` and nobody closes the channel,
so in the model, as in the code, nothing ends the tick goroutine: it may make
further passes after `Deinit`.

### LogState
`WakeUp` is its compare-and-swap and, as a step of its own, the `time.AfterFunc` of
the goroutine that won it (`AfterFunc`). Time is a tick of the clock (`Tick`); a
timer that has run down has its callback run at any later moment (`FallAsleep`),
which finds the state `Awaken` or panics. `awakeFor` is a history variable that
stops at `Duration`. `Awaken` reads the state, which is the variable.

### Proof modules
`OrderRegistryProofs`, `KeepOrdersProofs`, `HistorianProofs` (with the lemmas on
`CircularArray`), `HistoryStrategyProofs`, `KeepBulkProofs`, `BalancesStrategyProofs`,
`KeepBotProofs` (with the proofs about `KeepRun`) and `LogStateProofs`.

## 4. The runs

| Run | Instance | What it shows |
|---|---|---|
| `registry` | 3 goroutines, 3 keys, 2 values, a counter up to 2; LogState with 3 goroutines, duration 3 | one `Store` per key returns true; the entry stays; `Length` lags by the calls between map and counter; the counter wraps at 3 entries, and `LengthLagsByInFlight` says what holds until then. Beside it, and independent of it, LogState: awake for its duration, then dormant, never illegal |
| `orders` | 1 exchange that repeats its pushes, 2 ids, 2 callers, 2 observers, symmetric | ownership of orders, fate of fills (a fill that is queued after the acknowledgement is observed, also one that was pushed again after the first came too early), user data carried over by `ModifyOrder`; an order whose cancellation returned no error is out of the market before its replacement is in it, and replaced once on that ground |
| `orders_live` | 2 exchanges with one common id, 2 callers, 1 observer | fills reach the observer of the order that was filled, under fairness |
| `bulk` | 2 submitted orders, 1 other | bulk calls return, with every error, and nothing slips between them |
| `bot` | 3 exchanges: one streamed with credentials, one unstreamed, one disabled; 2 residents, one of them dedicated, 1 guest | `Build` returns, by the rules of its wait group, and nothing runs before its loading is over; order and completeness of calls on strategies; cancellation ends the bot |
| `balances` | 1 exchange, 2 asset types, balances that change twice | what is read after a pass is what it fetched, whatever fails and whenever `Init` returns; passes go on until `Deinit` |
| `historian` | intervals 0 and 2, capacity 3, dates -3 .. 7 | the window is the last samples, and a time line |
| `history` | 2 exchanges, 3 adders | writes serialized, no historian lost, passes complete, up to a race; and that race is with a read of `fire` |
| `fill_before_store` | 1 of each, 1 id | *violated*: an `OnFilledObserver` whose order is filled before `registry.Store` is never called, though `OnOrder` says "No user data for this order" |
| `replaced_order` | 1 caller, 2 ids | *violated*: after the fallback of `ModifyOrder` the old order may be live or filled beside the new one |
| `none_loaded` | 2 exchanges, all enabled by the setting, 1 with credentials | *violated*: `Build` returns no error although no exchange was loaded: one whose validation or start failed is in the manager, and is run |
| `history_race` | 2 exchanges, no adders | *violated*: `Init` of one exchange writes the maps that `fire` of another reads |

**Why the bounds are enough.** Two callers and two orders let any two operations
on the same and on different orders interleave; a third caller repeats what one
of two does, as callers share only registry and exchange. Three goroutines in
`registry` give two losers per key and an overflow with increments in flight.
Capacity 3 with up to five intervals fills and rotates the array past its start,
and dates on both sides of 0 take both branches of `EpochOf`. Three adders put two appends
and a reader on one slice. In `bot`, one resident fails while the other
must be called, the guest exercises `Range` under modification, the two enabled
exchanges take both branches of `Loop` and of the validation and wait for each
other, the third is skipped, and the dedicated resident is called for one
exchange and not for the other. `Repeating` is empty in the runs other than `orders`:
`orders_live` is about fills that arrive at all, and the violated statements need no
repetition. Three wakers let one win, one lose and one come back while a timer is
late, and a duration of 3 tells a timer that is early from one that is on time. In `balances` one exchange is enough,
as every map is keyed by the exchange and no step reads two; of two asset types
one can fail and the other not, and `MaxVersion` = 2 lets a balance change before
and during a pass, which is all the property tells apart. No variable grows without bound: orders
are never placed twice, so the channels are as long as there are orders.

**Deadlock** is checked except where the program stops: `bot` after its panic,
or when `Build` has returned nothing to run, `none_loaded` likewise,
`bulk` when both calls have returned and every order is final, `history` after
a race or when all adders are done.

**Fairness.** `orders_live`: a request to an exchange is answered (HTTP requests
have a time-out), a goroutine that can run does, the stream goroutine keeps
receiving. Nothing obliges callers to call or an exchange to fill. `bulk`: weak
fairness of each call as a whole; that is enough because a mutex is never held
across a wait. `bot`: goroutines run, methods of strategies return, a websocket
opens or fails; no event ever needs to arrive, and nobody needs to call `Run`. The
steps of `Build` are taken once each, so that weak fairness of their disjunction is
weak fairness of each of them. It includes the time-out of a validation and leaves
out its answer, which is what `BuildReturns` is about. `CancelEndsBot` leaves out a bot all
of whose exchanges are streamed: `Stream` never looks at the context, and such a
bot goes on. LogState (in `registry`): time passes, a goroutine that won the
compare-and-swap starts its timer, an expired timer's callback runs at last.

`balances`: exchanges answer or time out, the goroutines run, and the timer fires
until `Deinit`; afterwards it may or may not.

**Mutants.** The modules hold operators such as `EnterOverwriting` or `DoneUnlocked`
that no specification uses: each is a plausible mistake in the definition that
follows it, and some property of a run fails when it takes that definition's
place. They show that the property depends on the code.

## 5. The proofs

All are for every value of the constants, under the named assumptions beside their
declarations (the special values `Nil`, `Absent`, `NoOne` are distinct from the
others, which in `KeepOrders` includes the statuses of an order; callers, keys,
orders and, in `BalancesStrategy`, exchanges are finite where something is counted;
intervals are natural numbers, capacities positive).

* **OrderRegistry.** `TypeCorrect`; `ImplementsWriteOnce`; `OneWinnerCorrect`, where
  the invariant counts for each key the `Store` calls that have written the map and
  not returned, so that winners and those calls together are one per stored key;
  `LengthCorrect`, the same counting over all keys. Both are inductive as they stand
  and rest on lemmas on cardinalities of finite sets (`StepSets`, `SetsAreFinite`).
* **KeepOrders.** `TypeCorrect` rests on `CallOK`: what a call knows at each of its
  steps. `AckCorrect` rests on `AckInv`: the acknowledged user data of an order is
  exactly its registry entry. The property alone allows an entry nobody was told of,
  which `OnOrder` could use, and so is not inductive. `MissCorrect` follows from
  `AckInv`: a fill that finds no entry finds nobody acknowledged.
  `FilledCorrect`,
  `NoFillLost` and `FillObserved` rest on two invariants. `ChannelInv`: a message in
  a channel carries the status its order has, since a final status never changes and
  an order is pushed when it has one, or again while it has it. `FillInv`: a fill is
  in the channel, was observed, was missed, or belongs to an entry without user
  data. `NoFillDropped` alone is not inductive: it begins to speak of an order when
  its submit is acknowledged, which may be after its fill was handled, so the fill
  must be accounted for before. `UserDataCarried` rests on `CarryOK`: as an entry
  never changes, the user data a modification began with is still the old order's
  when it is looked up, two requests later, and is what the replacement is submitted
  with. `ConfirmedOut` says what is left of the statement that `replaced_order`
  refutes: an exchange cancels live orders only and a cancelled order stays
  cancelled, so that a call whose cancellation was confirmed is the only one with a
  confirmation for its order, whichever calls and replacements there are.
* **Historian.** `PushGrows` and `PushForgets` say what `Push` does to what is
  shown, for every capacity and offset; `ImplementsLastN` follows. `TimeLineCorrect`
  adds `EpochNotAhead`: the epoch of the last update is not after that of the last
  sample fed. `EpochMonotone` is the lemma that truncation keeps order.
* **BalancesStrategy.** `HoldingsCorrect`. The invariant says of each exchange what
  its pass has filled in so far (`Filling`: missing where the fetch failed or has
  not been made, else between the begin of the pass and now), and that no pass
  begins before `Init` has published the empty snapshot, without which that snapshot
  could replace the first result. The steps are split into what they do to the
  exchange they are for (`Own`) and to the others (`Others`). `BalancesTypeOK` adds
  `CountedInv`: the tickers are those of the exchanges that run, and the named
  counter is the number of tick goroutines that have counted themselves, so that neither panic of the ticker can
  happen.
* **HistoryStrategy.** `HistoryInv` has three parts. `MutexInv`: who is inside
  `Init` or `AddHistorian` holds the mutex. `UnitsInv`: a slice holds a historian at
  most once, and only when its `AddHistorian` has appended it; the slice that is
  about to be extended is the one in the map; and what was added after the `Init` of
  its exchange is in its slice, which nothing empties any more. `PassInv`: a pass
  has updated a prefix of the slice that `fire` has read, which holds everything
  that was there when the event arrived. From these follow `HistoryTypeOK`,
  `HistoryWritesSerialized`, `HistoryKeptOnce` and `HistoryPassUpdatesAllOnce`, for
  any number of exchanges and adders, up to the first race, after which Go promises
  nothing. `HistoryRacesAreReads` says what a race is: the other access is a read of
  `fire`, never a second write.
* **KeepBot.** `SettledCorrect` and `AddedWhileCountedCorrect`, for every
  configuration. The invariant `SetupInv` says that the wait group counts exactly
  the goroutines that load and the exchanges at work since `Start`, which is what
  makes the zero that `Return` waits for mean that there are none of either. It
  needs each exchange to be loaded once: one that is still in `todo` has no
  goroutine, and one that is not past `Start` is not at work. `BotInv` adds that
  nothing runs before `Build` has returned. The rule of the wait group follows
  because, once the loop is over, only a goroutine that is itself counted adds to
  it. `BotComposes` says that a bot's life is a behaviour of `SetupExchanges` and
  one of `KeepRun`: each part's steps leave the other's variables alone, and what
  `Run` is given are exchanges. What is proved of `KeepRun` is therefore true of the
  bot. `RunInv` says of each goroutine that its `Range` has every resident among
  those it must visit (nobody deletes a resident), that a failed `Init` has left an
  error that ends the goroutine when the `Range` does, and how far each resident is
  in its life, by where the goroutine is and whether the `Range` has been there
  (`ResidentInv`). `CallsCorrect`, `EveryResidentCorrect`, `FailedInitEnds` and
  `BotTypeCorrect` follow, the last with `SetupInv`: a wait group that counts what is
  under way never becomes negative, which would be a panic. `CallsInOrder` is not inductive without it: the end of
  `Init` tells nothing of a strategy unless it was visited and returned no error.
* **LogState.** `NeverIllegalCorrect` and `AwakeForDurationCorrect`, for any number
  of goroutines and any duration. `LogInv`: only an awaken state is timed, by one
  waker, and what is left on its timer is at least what is missing from the
  duration.
* **KeepBulk.** `AllErrorsReturnedCorrect`: nothing is lost in the append, and
  `Wait` returns the error of every order. `ErrorsInv` says that the appended errors
  are those of the goroutines past their append, that the one in between holds the
  mutex and has read the current value, and that the group counts the goroutines
  started and not done. `SurvivorsCorrect` rests on `CancelInv`: what was listed and
  is live is still to be cancelled or failed to be, and no listed order can be
  placed again. `SubmittedAreOutCorrect` combines the two with `AfterInv`: once
  `SubmitOrders` has returned, nothing places an order whose submission succeeded,
  so that a list made after that has all that are live. `BulkTypeCorrect` follows
  from the three. `BulkComposes`: each of the two calls behaves in the composition
  as it does alone.

**Only model-checked:** liveness (`FillReachesObserver`, `BothReturn`,
`CancelEndsBot`, `TicksUntilDeinit`, `BuildReturns`, `FallsAsleep`), which is out of
the prover's reach, and the four violated statements, which no theorem can state.
The safety half of `FillReachesObserver` is `FillObserved`: the fill can leave the
channel in no other way; that it does leave it is the fairness of the stream
goroutine. The mutants are TLC's, too.

## 6. What is not modelled

* `ActivateAsset` and `ActivatePair`, which users call and nothing here does: they keep
  their state in GCT. `ActivatePair` reads, extends and stores the pairs in separate
  calls, so that of two concurrent ones the first can be lost (a hazard in
  `PROJECT.json`). The settings that an exchange is given before its `Setup`.
* `ConfigFile`, `ExpandUser`, `RandomOrderID` and the profiler of `util.go`: file system,
  randomness and I/O, without state or concurrency.
* What GCT's manager does with a factory that was never set (a nil function in an
  interface that is not nil): in the model an exchange is created or not.
* A TickerStrategy without `TickFunc` or outside `Keep.Run`, and `CheckerAssert`.
* What a bot owes its strategies at its end: `Run` panics as soon as one exchange
  is deinitialized, and the others then stay `initialized` for ever in `KeepRun`.
  No statement of the repository excludes that, and no property does.
* `CancelAllOrders`, one request without local state; reporters, metrics, logging,
  the builder's setters and VerboseStrategy, which keep no state that anything
  else depends on. `AwakenLogger`'s `dormantTrace` is unlocked on purpose and decides
  which log records are written, nothing more.
* What GCT and the exchanges do inside; they appear as answers and messages.
* The Go memory model below the accesses named above: `sync.Map`, `atomic` and
  mutexes are taken to be what their documentation says.
* Type assertions on elements of a CircularArray (`Floats` panics on anything but a
  float64), and a capacity of 0, with which `Push` divides by zero.
* A late sample after a later one records its interval a second time: `TimeLine` says
  what holds while dates are ordered, and nothing after that.
