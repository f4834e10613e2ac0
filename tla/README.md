# A verification project for the trading platform

TLA+ modules that model the platform (orders and fills, risk checks, the four strategies and the
tasks that run them, the broker session, the times of the trading day, the tenants' rate limit) and
its backtests, TLC configurations that check them on small instances, and theorems the TLA+ proof
system checks for every value of the constants. Paths are relative to the
repository; the Python package is `src/src` of it.

1. [The system](#1-the-system)
2. [What is hard](#2-what-is-hard)
3. [Modules and plan](#3-modules-and-plan)
4. [The models and the code](#4-the-models-and-the-code)
5. [Runs](#5-runs)
6. [Fairness](#6-fairness)
7. [Proofs](#7-proofs)
8. [Where the code and its documentation disagree](#8-where-the-code-and-its-documentation-disagree)
9. [What is left out](#9-what-is-left-out)

## 1. The system

One operating system process, one asyncio event loop. `TradingPlatform`
(`execution/platform_runner.py`) opens the broker session, enters its accounts, restores positions
and starts tasks: one per strategy and symbol, one per account's order stream, the token refresh
loop, the end of day flatten. An operator starts it (`start_trading.ps1`); nothing restarts it. The
same script starts strategies 002 and 006 as processes of their own (`execution/runner.py`), on the
same broker account. The API and the backtests share no state with either.

| Component | State | Operations | Talks to | Correct when |
|---|---|---|---|---|
| Platform runner (`execution/platform_runner.py`) | tasks, loaded strategies | start, `_poll_daily_bar`, `_stream_symbol`, `_handle_bar`, `_eod_flatten_task`, `_refresh_loop`, `_reconstruct_positions_from_snapshot` | everything below | a bar's failure neither loses a stop nor sends an exit twice; a restart finds the positions |
| Order router (`execution/router.py`, `logger.py`, `account_router.py`) | rows `execution_signals`, `execution_orders` | `route`, `evaluate_risk`, `_buying_power_allows_order` | adapter, position tracker, database | what is placed is within the limits, and audited |
| Order tracker (`execution/order_tracker.py`) | rows `execution_fills`, `positions`; `_cum_filled_qty` | one stream task per account, snapshot replay, fill handler, OCO bracket | adapter, position tracker, database | every execution counts once, whatever is replayed or lost |
| Position tracker (`execution/tracker.py`) | lots, `_order_filled_qty`, cash, marks | `apply_fill`, `metrics` | fed by the order tracker, read by the router | agrees with the audit |
| TradeStation adapter (`brokers/tradestation/`) | refresh lock | orders, cancellations, account, quotes, streams, `_bearer_token`, `refresh_token` | broker, credentials store | a request never goes out with a token about to expire |
| Credentials store (`services/broker_credentials_store.py`) | row `broker_credentials` | `get_auth_token`, `upsert_tokens` | database | the current refresh token is never lost |
| Swing strategy 004 (`strategies/swing_pullback.py`) | positions, entry prices, ids of GTC stops, bar history | `on_bar`, `post_bar_async`, `update_position` | adapter (stops), router (signals) | what it believes is what the account holds, and is protected |
| Gap fade 007 (`strategies/gap_fade.py`) | per symbol: session, closes, opening bar seen, short; the session's VIX | `on_bar`, `prefetch_session_data_async`, `update_position` | the data provider (VIX); what it decides is not routed | trades a symbol once a session, judged by fresh data |
| Futures 006 (`strategies/futures_intraday.py`) | session date, sums, ranges, previous close and bands for both contracts; bar counts and sides per contract | `on_bar`, `update_position` | router | a bar is judged by its session, and by its contract |
| Momentum 002 (`strategies/momentum.py`) | positions | `on_bar` | router, through the runner | what it sells was bought |
| Intraday position manager (`execution/intraday_manager.py`) | rows `day_trade_log` | `enforce_eod_close`, day trade count | adapter | flattens what is intraday and nothing else |
| Runner, scanner, data pipeline (`execution/runner.py`, `execution/scanner.py`, `data/pipeline.py`) | the queue, counts of bars | `_run_cli`, `StrategyRunner.run`, `MultiSymbolScanner.run`, `MarketDataPipeline.run` | adapter (streams), strategy, router | bars are handled in order, once; the position limit survives restarts |
| Tenancy (`tenancy/`) | a window per tenant: count and start | `allow`, the two middlewares | API | no tenant gets more than its limit allows |
| API, OMS, onboarding | none | stubs, health | tenancy | |
| Backtests (`backtesting/`, `scripts/backtest_002_localcsv.py`) | cash, positions, pending orders of a simulated day | the day and bar loops | files | never spend what they do not have, trade at prices the day had |

`PROJECT.json` lists each with its files, its modules and what of it is modelled.

Interactions that matter: *calls with awaits* (router and strategy to adapter: other tasks run
meanwhile), *shared memory* (position tracker, strategy objects, the store's one SQLAlchemy
session), *shared rows* (the router and the order tracker both write `execution_orders`), and the
*shared account* at the broker, where strategies, stops, brackets, the flatten and a human trade
the same positions.

## 2. What is hard

- **Interleaving.** Code between two awaits is atomic, the rest is not: a position count read
  before an await and compared after it; a refresh of the token beside another one.
- **Order.** A fill can arrive before the row of its order is written.
- **Crashes.** A fill is recorded in three commits. A restart restores only the side of a position.
  The refreshed tokens are not committed.
- **Delivery.** Each stream connection replays the day's orders; events repeat and get lost.
- **Partial failure, retry.** An order or a stop whose answer is lost works at the broker; a bar
  whose handling raises is handled again from the start.
- **Belief.** A strategy changes its memory before the order is routed and hears of no fill.
- **Sharing within a strategy.** One object serves the tasks of all its symbols, whose streams may be
  sessions apart: session data, a VIX awaited by one, bands computed from another's bar.
- **Time.** Sleeps are computed on the numbers of the New York clock, which is set twice a year; a
  sleep may end a little early; the rate limit reads a clock that may be set.
- **Boundaries.** Two windows of the rate limit meet; entries are sized by the starting capital; a
  day opens beyond a stop; a signal comes on the last bar of a session.

`PROJECT.json` ("hazards") gives each at its line, with the properties that would catch it.

## 3. Modules and plan

| Module | Content | State |
|---|---|---|
| `FillLedger` | abstract specification: what the order tracker promises about fills | done |
| `OrderLifecycle` | router, audit, streams, tracker, bracket, broker; implements `FillLedger` | done |
| `SumTheorems` | lemmas about the sums the other proofs count with | done |
| `OrderLifecycleProofs`, `OrderRowProofs` | types, audit, tracker, refinement, positions, losses; rows, audit trail, OCO groups | done |
| `RiskGate` | the checks of overlapping `route` calls, cash flow, buying power | done |
| `RiskGateProofs` | types, overdraft, loss stop, outlay, number of positions | done |
| `EquitySwing` | strategy 004, its daily tasks, the flatten, restore | done |
| `EquitySwingProofs` | types, position limit, exits, stops, orphans, belief | done |
| `TokenRefresh` | session, lock, refresh loop, provider | done |
| `TokenRefreshProofs` | types, lock, bearer, session | done |
| `GapFade` | strategy 007 under the streaming tasks | done |
| `RunnerProcess` | strategy 002 and the process that runs it | done |
| `FuturesSession`, `FuturesBacktest` | strategy 006, live and simulated | done |
| `TradingCalendar` | when the daily poll and the flatten act | done |
| `RateWindow` | the tenants' middleware | done |
| `DailyBacktest` | the simulations of strategies 002 and 004 | done |
| `StrategyProofs` | theorems of `GapFade`, `FuturesSession`, `FuturesBacktest`, `DailyBacktest` | done |
| `PlatformProofs` | theorems of `RunnerProcess`, `RateWindow`, `TradingCalendar` | done |
| `MC...` | instances for TLC | done |

The order was: orders and fills first, as all else rests on them; then what decides about orders
(risk, strategies); then the session they are sent in; then the components that stand alone. What
could come next:

1. `AverageCost`: the tracker's lots and the average cost of the position row, as functions over
   sequences of fills, each against the other.
2. Prices in the strategies, as data that the properties can tell apart.

Composition: `OrderLifecycle` and `FillLedger` are joined by a refinement mapping. `RiskGate` and
`EquitySwing` contain the order path only as far as their questions need it (an order is accepted,
executes, dies; its fill is booked live, comes before its row exists, or is replayed by a snapshot);
`OrderLifecycle` has the steps in between. The parts that share no state are checked together in
`MCStandalone`.

## 4. The models and the code

Every definition's source lines are in `PROJECT.json` ("map"). Definitions marked *Mutant* in a
module are deliberate bugs. Nothing uses them but the mutation tests: with the mutant in the place
of the definition after it, the property it is listed with in `PROJECT.json` fails.

### OrderLifecycle

Each action is the code between two awaits that leave the event loop, or between two commits.

| State | Code |
|---|---|
| `routePc`, `signalRow`, `orderRow` | where `route` is; rows of `log_signal`, `log_order`, `_patch_execution_order` |
| `wire` | POSTs the broker has not processed |
| `bst`, `bfill`, `legQty` | the broker's orders and the OCO groups it accepted |
| `conn`, `phase`, `eos`, `chan` | per account: the connection, `snapshot_phase`, what is on the wire |
| `stage` | what `_handle_live_update` has still to do: patch, post, bearer, bracket |
| `fillRow`, `posted`, `position` | `execution_fills`; which of them are in `positions`; `positions.quantity` |
| `cum`, `trk` | `_cum_filled_qty`, `PositionTracker._order_filled_qty` |

`LoopFree` says that no other task runs while a handler is between two commits (these do not
await); the broker moves, the process may die and a commit may fail there. `RecordFill` is
`_handle_live_update` up to `log_fill`'s commit; `PatchFill`, `PatchRow` and `PostPosition` are the
commits after it; `BracketSend` and `BracketReturns` the OCO request; `BearerFails` the exception
that leaves the handler and drops the stream. `PatchStatus` is the path of an event that is no
fill. `Crash` clears memory, streams and routes; `Restart` is the operator's. A start of the
stream replays every order of the day; the broker marks replayed events or not (`SnapshotFlag`), and
the tracker then relies on `EndOfSnapshot` or on three quiet seconds (`InactivityTimeout`).

### RiskGate

`call[s]` walks through `route` of symbol `s`: `flow` (the count of positions has been read, the
cash flow is awaited), `flowRead`, `account`, `quote`, `place`, `log`. Fills happen at the broker,
and are recorded later: `Book` live, once the order has its row; `BookEarly` before, which records the
fill and posts it to no tracker; `RecordReplayed` from a snapshot, which posts nothing and marks the
fill so that the cash flow leaves it out. `NewDay` empties the flow (`filled_at >= start`), `Restart`
the tracker. Fills are recorded in any order, which allows more than the streams do. `BuyingPower` is
the broker's: purchases are reserved when accepted. The history variables say what a property needs
of the past: whether another entry was in flight (`crowd`), the realized profit or loss of the sales
in the flow when it was read (`loss`), what those shares had cost as far as the flow lacks their
purchase (`carried`), the cost accepted since the account was read (`unseen`). Profit is realized
first in, first out (`Bought` is the purchase whose rank is the sale's). Drawdown, daily loss and the
largest weight are left out. `start` and `_run_cli` set the cash once to 10000, but `set_mark_price`,
`set_daily_pnl` and `update_vix` have no caller outside the tests and a fill changes no cash: the value
stays at its peak, no lot has a weight and the daily result is zero, so that the checks that compare
them let everything pass.

### EquitySwing

`pc[s]` is the daily task of symbol `s`: `wait`, `bar` (fetched, the VIX awaited), `entry`/`exit`
(a signal to route), `placing`, `post` (`post_bar_async`), `cancel`, `stop`. `on_bar` does not
await, so each of its outcomes is one step: it counts or forgets the leg *before* routing. A
`BrokerError` is printed and the stop is still looked after (`RouteError`); any other exception
makes the task take the same bar again (`RouteRaises`). Whether a bar gives a signal is left open:
prices are abstract. `Restore` is `update_position`: the side, one share, no entry price.
`FlattenStart` reads the positions, `FlattenPlace` sells one symbol after the other.

### TokenRefresh

The clock counts units of ten minutes, which is the skew; the provider grants two. `pc[t]` is a
task: `lock` (in the FIFO queue of the lock), `ask` (a refresh is sent), `answered` (the provider
has answered, the answer is on its way), `send` (a request goes out with the bearer). `UseToken`
and `TakeLock` are the two looks of `_bearer_token`. `AttemptFails` sends the *same* refresh token
again, whether or not the provider has processed the lost request. `Store` is `upsert_tokens`; it
changes `cred`, what the store's session sees, and not `saved`, the committed row. `rotates` says
whether a refresh replaces the refresh token; `docs/tradestation_auth_flow.md` leaves it to the
broker's settings, so each run has both. `Tick` waits for requests in flight: they take seconds.
Failures of the database are not modelled here.

### GapFade

A session has three times: the bar of 9:30, bars before 11:00, bars from 11:00 on. A bar is its
session and time; a stream gives bars in order, repeats the forming one, and may be sessions behind
`clock`. `AskVix` and `VixAnswered` are the two ends of the await in `prefetch_session_data_async`,
between which other tasks run; without a request `_handle_bar` and `on_bar` are one step
(`BarHandled`). `lastClose`, `prevClose` and `vix` hold the session they are of, in place of their
values, so that the properties can say whose data judged an entry. The VIX is of the session in
which it is answered (`clock`): the request asks for the newest daily bar, whatever the date of the
bar it is made for. Prices are open: a bar of 9:30 may or may not show the gap. Nothing the strategy
decides is routed, because `_dict_to_signals` gives no signal for `sell_short` and `buy_to_cover`;
its state is its memory.

### RunnerProcess

A process of `runner.py` for strategy 002: `stream` are the consumers of the scanner (or of the
pipeline, for one symbol), `queue` the unbounded queue of `_FanInBarSubscriber`, `order` the signal
the runner awaits. `Arrives` is one iteration of a consumer, `Takes` with `Quiet`, `Buys` or `Sells`
one of `StrategyRunner.run`. `Fails` is an exception of either task, which ends both, and the
operator's end of the process. A start makes an empty strategy. `own` is what its orders bought less
what they sold. The platform is another process on the same account, and its flatten takes strategy
002's symbols: `FlattenReads` is its `get_positions`, `FlattenSends` one of its orders, in any order
and between any steps of the runner; `closed` is what they sold. `Account` is the difference.

### FuturesSession and FuturesBacktest

`FuturesSession` keeps what `FuturesIntradayStrategy` keeps for both contracts as one variable each:
`prev_close` and `bands` are *whose* bar they were made of, and of which date. A bar either ends in
the warm-up (`BarRemembered`), is measured (`BarMeasured`) or enters (`BarEnters`), and starts with
the reset of a new date. `FuturesBacktest` is `sim_one`: exits, then the signal, bar after bar.

### TradingCalendar

Instants are minutes; `Wall` is the New York clock, which is set forward or back by an hour on one
Sunday. `SleptUntil` is `asyncio.sleep` of the difference of two readings of that clock, perhaps a
minute short: asyncio's timers round to the resolution of the clock. `FlattenRuns` is one round of
`_eod_flatten_task`, `PollLooks` and one of `PollHandles`, `PollRaises` and `PollFails` a round of
`_poll_daily_bar`. `PollRaises` is a `_handle_bar` that raises after `on_bar`: the loop begins again
after a minute and the same bar is handled again. `PollFails` is an error before `on_bar`.

### RateWindow

A request passes the tenant's middleware and the limiter in one step, as `allow` does not suspend.
`ClockStepped` sets `time.time()`. What the outer middleware refuses changes nothing and is no
action.

### DailyBacktest

One module for the three day loops, told apart by `sim`: `"002"` and `"004"` of
`strategy_multi_sim.py`, `"local"` of `backtest_002_localcsv.py`. `NextDate` brings the rows of a day
and executes the entries (and, in the local one, the exits) ordered before; `CloseOfDay` the stops,
the other exits and the signals. Prices are a small set, so that a day may open beyond a stop.

## 5. Runs

Bounds are constants in the `.cfg`; `MaxCrashes`, `MaxDrops`, `MaxFailures`, `MaxClock`, `MaxDays`,
`MaxOrders`, `MaxSweeps` and `MaxRaises` occur only in guards. Deadlock checking is off in every
run: once the bounds are used up and the orders have ended the models stop.

| Run | Instance | Shows |
|---|---|---|
| `lifecycle_stock` | a routed order of two units, and one entered by hand in a second account without a row; a crash, a stream failure; replays unmarked | `LedgerWithinBroker`, `TrackerWithinLedger`, `RowFollowsBroker`, `AuditTrail`, `LossesBounded`, `FilledIsFinal` |
| `lifecycle_bracket` | a futures entry of two units and both legs; a crash, a stream failure; replays marked | `BracketWithinEntry`, `PositionsMatchLiveFills`, `ImplementsLedger`, `FillEventuallyRecorded` |
| `lifecycle_mirror` | one order of two units, nothing fails | refutes `MirrorsOpenQuantity` |
| `risk_overlap` | two symbols, three orders, room for one position, a failure or a restart, a day that begins | types; `PositionsWithinMax`, `OverdraftWithinUnseen`, `OutlayWithinLimit`, `LossStopsEntries` |
| `risk_limit` | two symbols, nothing fails | refutes `LimitMeansRealizedLoss` |
| `swing_leg` | one symbol, three days, one or two shares, the flatten, a failure | `OneExitPerLeg`, `OneStopPerLeg`, `StopCoversLeg`, `BeliefMatchesBroker`, `FlatStopReleased` |
| `swing_pair` | two symbols and the flatten, room for one position, a death, a failure | `LegsWithinMax`, `OrphanStopsBounded` |
| `swing_flatten` | one symbol strategy 002 lists too, nothing fails | refutes `SwingExcludedFromFlatten` |
| `token_session` | two requests, the loop, the start; three units of time, two lost answers, a death | types; `BearerUsable`, `OneCallerRefreshes`, `SessionKept`, `RefusedOnlyByOverlap`, `NewestAccess`, `WaitersServed` |
| `token_persist` | the same without a death | refutes `RefreshPersisted` |
| `standalone` | the seven modules below, each over its own bounds | `OneEntryPerSession`, `JudgedByFreshVix`; `ShortWithinMissed`, `HeldWithinLives`; `BandsOfSession`; `FlattenedInTime`, `HandledUntilDone`; `UnderTwiceTheLimit`; `CashCoversEntries`, `GapFillsOnly`; `OvernightOnlyFromLastBar` |
| `futures_bands` | two contracts, two dates, one start | refutes `JudgedByOwnContract` |

Why the bounds are enough:

- *Quantities of two* give a partial fill, its rest, and a cancellation of the rest. *One crash and
  one drop* fall between any two steps and in either order, also during recovery from each other.
  The audit keeps one row per order and orders meet only in the sum of a position and in the event
  loop; two orders of one key and two accounts reach both.
- *Two symbols* are two calls of `route` that overlap; with room for one position the second is the
  one too many. Three orders between them are a position bought, sold and bought again, or two held
  and one sold. Prices one and three make a loss, a gain, and a purchase beyond the limit and the
  buying power. *A day and a restart* fall between a purchase, its booking and its sale.
- *Three days* let a leg be opened, closed and opened again with the old stop still tracked;
  `ExitBars` and `EntryBars` are one instead of 50 and 200, since the history only delays.
- *Three units* of time let a token fall due twice. Two attempts instead of three give a retry and a
  last attempt. Two callers give one holder and one waiter.

- `standalone` runs parts that share nothing, so that a behaviour moves one of them (`part`) and the
  state spaces add up. *Two sessions, a death* (`GapFade`): a late bar, a repeated one, a VIX asked
  for in one session and answered in the next. *Three symbols, two of them the strategy's, room for
  one, a smoke run of three bars, two lives, four bars, one flatten* (`RunnerProcess`): a bought,
  missed and sold lot, a lot sold twice, and a life that forgets the last. *Two dates*
  (`FuturesSession`): the streams are a date apart. *Dates 0 to 9 with the change on the first
  Sunday* (`TradingCalendar`): started on the Friday, the weekend, or after a failure over midnight,
  one bar whose handling raises. *Limit two, window two, three ticks* (`RateWindow`): two windows
  meet, a clock set once. *Two symbols, prices 50 and 100, four days* (`DailyBacktest`): held,
  stopped with and without a gap, re-entered, missing rows. *Three sessions of up to three bars*
  (`FuturesBacktest`).

The larger claims (any number of orders, callers, crashes) are those of section 7.

## 6. Fairness

Safety runs use `Spec`, which assumes nothing. `FairSpec` assumes weak fairness only:

- `OrderLifecycle`: of `BeginConnect`, `OpenStream` and `ReceiveEOS`, as `_stream_account_orders` is
  an endless loop that reconnects and the broker ends its snapshot; of `HandlerStep`, since a
  handler's awaits have timeouts and the loop schedules it; of `Restart`, an assumption about the
  operator. Nothing is assumed of the broker's executions, of routes or of failures.
- `EquitySwing`: of a symbol's daily task and of the flatten once planned, for the same reason, and
  of `Restart`. Fairness of the task is fairness of *some* step of it: a request may fail whenever
  the bound allows.
- `TokenRefresh`: of a refresh (`wait_for` bounds each attempt, attempts are counted) and of a task
  that waits for the lock or has a request out (`asyncio.Lock` wakes the first waiter). Nothing is
  assumed of the clock, of the loop's or of a start's will to refresh.

## 7. Proofs

The proofs assume only the named assumptions on the constants. TLC evaluates these in every run.
Every safety invariant and action property of section 5 that holds is a theorem.

**SumTheorems.** Positions, cash, flows and shares are sums over sets (`SumFunctionOnSet`), defined
by a recursion on the set that takes one element away after the other. The provers cannot take an
induction whose hypothesis is an operator; the lemmas are proved from a smallest finite set that is
a counterexample (`LeastSubset`, from `LeastNat`). `SumIsFold` and `UnfoldsExists` show that the
recursion has a value; then come the facts the others cite: a sum over integers is one (`SumInt`),
what one element adds (`SumRemove`, `SumAdd`), one element that changes (`SumChange`), order and
union (`SumMonotone`, `SumUnion`), change of the index (`SumImage`) and counts as sums
(`CountIsSum`).

**OrderLifecycleProofs.** For any orders, accounts, quantities, crashes and drops: `TypeCorrect`,
`AuditWithinBroker` (`LedgerWithinBroker`), `TrackerAgrees` (`TrackerWithinLedger`), `Refinement`
(the tracker implements `FillLedger`), `PositionsAgree` (`PositionsMatchLiveFills`) and `LossBound`
(`LossesBounded`); the last two need `FiniteAssumption`, a finite set of orders. The properties are
not inductive as they stand, so `IInv` adds what makes them so:

- `EventsTrue`: events on the wire tell of no more than the broker executed; without it
  `RecordFill` might write a larger quantity.
- `FilledHasQuantity`: an order that is filled executed something; needed for the replay, which
  makes events from the broker's state.
- `HandlerHoldsFill`: a handler between commits holds a recorded, unposted fill not yet counted in
  memory; needed for `PostPosition` to post what the row says and for the tracker to get the row's
  quantity.
- `NothingWithoutRow`: memory counts nothing for an order without a row, and only routed orders have
  an order row; needed for the cumulative quantity.

`PositionsAgree` follows what a step does to the sum of the posted fills of one key: nothing
(`PositionsSame`) or one more order (`PositionsPosted`). `LossesBounded` is not inductive, since a
crash takes with it whatever the handlers had recorded and not posted. `LossInv` says that at most
one handler is between two commits (`Half`), so that this is one fill, and that the fills `Dropped`,
recorded but neither posted nor in a handler, are no more than the crashes and drops.

The proof of each conjunct has one step per action, or one per group of actions. The refinement maps
`RecordFill` (live or snapshot) to `Record`, `PostPosition` to `Post`, the broker's executions to
`Execute` and all else, `Crash` included, to stuttering.

**OrderRowProofs**, on top of it: `RowsFollowBroker` (`RowFollowsBroker`), `AuditComplete`
(`AuditTrail`), `GroupWithinEntry` (`BracketWithinEntry`), `FilledStaysFilled` (`FilledIsFinal`).
`RowInv` adds to `IInv`:

- `RoutingHolds`: how far `route` is for an order that is sent, received or logged; a group is
  placed only for an entry that has its row.
- `EndsTrue`, `FilledExecuted`: an end that a row or an event tells is the broker's, and what shows
  filled has executed. Orders at the broker never leave their end, which makes events of the past
  true in the present.
- `EventsGrow`: the events of an order tell of ever more quantity, none of less than its fill row.
  This is why a filled row is final: a cancellation that is still to come carries the quantity and is
  read as a fill.
- `OneGroup`: an entry's group is to be sent, on the wire or accepted, only one of these, and only
  after the fill. Without it a second group could be accepted on top of the first.

What a step may do to a channel and to an order at the broker is said once (`ChannelStep`,
`OrderStep`) and proved for all actions (`AnySteps`); the parts of `RowInv` rest on that.

**RiskGateProofs.** For any finite set of symbols, any limits, positive prices, orders and failures:
`TypeCorrect` (`TypeOK`), `OverdraftBounded` (`OverdraftWithinUnseen`), `LossStopped`
(`LossStopsEntries`), `OutlayBounded` (`OutlayWithinLimit`), `MaxHeld` (`PositionsWithinMax`).
`BaseInv` is common to them: the types, where a call may stand (`CallInv`), and that every sale has its
purchase before it (`SellsCovered`), so that no position is short. What each says: an account is
overdrawn by no more than its orders did not see; an entry passes a realized loss only by the cost of
shares whose sale the flow has and whose purchase it lacks (`carried`); what the flow counts of
entries that do not overlap is within the limit and one order; and the positions are within the
maximum and the symbols of which the tracker missed a fill (`Missed`), as long as no entries overlap.

- `OverdraftInv`: the account is overdrawn by no more than the sum of the costs the orders did not
  see. A call that has read the account and not ordered yet knows the buying power up to what was
  accepted since (`PowerInv`).
- `LossInv`: the realized loss is no greater than the flow a call has read shows and what it leaves
  out. A purchase that is sold at a loss has left the flow by more than it brought back, if it is
  there.
- `FlowInv`, `CountInv`: as long as no entries overlap, the flow has not fallen since a call read it
  (or a day began) and the positions are no more than it counted and missed, until its purchase is
  booked. They rest on `Alone`: there is then one entry in the making or one purchase pending, and
  not both.

`Steps` shows that every step leaves the orders alone (`Quiet`), places or logs one, or does to one
order what `Events` lists (it executes, is recorded, dies); the sums follow from that for all of
these. `NewDay` and `Restart` mark all orders at once and change no price, side or execution.

**EquitySwingProofs.** For any finite set of symbols, any limits, days, deaths and failures:
`TypeCorrect`, `PositionsWithinMax` (`LegsWithinMax`), `ExitsWithinLegs` (`OneExitPerLeg`),
`StopsWithinLegs` (`OneStopPerLeg`), `StopIsForTheLeg` (`StopCoversLeg`), `OrphansWithinFaults`
(`OrphanStopsBounded`), `BeliefAgrees` (`BeliefMatchesBroker`). `IInv` says for each symbol, beside
the types and the limit:

- `EntryHeld`: only an open leg has an entry price, so that the count of legs bounds what is held.
- `StopInHand`: while a request about a stop is under way no stop is tracked, and a stop that was
  sent is at the broker.
- `ExitPaid`, `StopPaid`, `OrphansPaid`: the sums the counting properties are made of. Every leg pays
  for one exit, sent, in hand or still to come; every leg and every failure for one stop, sent or
  still to come; every death and every failure for one stop left behind.
- `StopsCover`: while nothing fails, a stop tracked or sent is for the leg, and a flat symbol has one
  only between its exit and the end of that bar.

Each of these is a statement about one symbol, so that a step of another symbol leaves it alone,
and the limit on all symbols follows from the count taken in the same step (`on_bar` awaits nothing).

`BeliefAgrees` compares what the strategy believes to hold with what the account holds. `BeliefInv`
says why they may agree: every leg pays for one entry order (`EntryPaid`), the account is the sum of
what executed (`HoldIsSum`), and if no leg went without its orders (`AllRouted`), the orders add up
to the position once what is still to be sent (`Due`) is counted (`Balanced`). An order that was
refused or lost breaks `AllRouted`, and the belief may stay wrong: it never hears of fills.

**StrategyProofs**, strategy 007. For any symbols, sessions and deaths: `GapTypeCorrect`, `EntersOnce`
(`OneEntryPerSession`), `JudgedRightly` (`JudgedByFreshVix`), `BelievesOwn`. They need
`SessionsInOrder` (the previous close is of an earlier session than the running one, which is no
later than the stream), `EntriesBehind` (an entry of the running session has marked its opening bar,
or the process died since and knows no previous close, without which nothing is entered) and
`VixMarked`. `JudgedRightly` does not say that the VIX is of the entry's session: a bar that is
answered a session late gets that later session's VIX.

Strategy 006. For any contracts, warm-up, dates and lives: `FuturesTypeCorrect`, `BandsAreOfSession`
(`BandsOfSession`), `EntersOncePerLife`; for simulations of any length: `OvernightIsTheException`
(`OvernightOnlyFromLastBar`), `TripsAreEntries`. What the strategy remembers is of `session_date`
(`OfSession`), and every entry of a running life has left its side in memory (`SideRemembered`).

The simulations of 002 and 004, for any prices that are multiples of 25 (`PricesAssumption`; the
stops are then whole numbers), any symbols and days: `BacktestTypeCorrect`, `EntriesCovered`
(`CashCoversEntries`), `FillsInsideTheDay` (`GapFillsOnly`). `DailyInv` adds `DayBegun`.

**PlatformProofs**, the process of strategy 002. For any symbols, bars and starts: `RunnerTypeCorrect`,
`ShortNeedsMissed` (`ShortWithinMissed`), `SmokeRunsCount`, `HeldOncePerLife` (`HeldWithinLives`).
`LotsBehind`: each lot the strategy counts or has decided to sell was bought and not sold by its own
orders, or was missed. What the platform's flatten sold of them, it sells again (`closed`).
`LivesInv`: the lots of all symbols together are no more than the limit for each life that ended and
what this life counts, an order on its way included.

The rate limit. For any names, limit, window and clock: `RateTypeCorrect`, `LessThanTwice`
(`UnderTwiceTheLimit`). `NameInv` follows each request that passed: as long as it is younger than a
window, what has passed since is below what the tenant's own window counts, plus the limit once if
that window is as young as the request (`WithinWindow`) and once for every step of the clock.

The calendar. For any start times, outages and days, and any change of the clock by an hour:
`CalendarTypeCorrect`, `FlattensInTime` (`FlattenedInTime`), `HandlesUntilDone` (`HandledUntilDone`).
`FlattenInv` and `PollInv` say for what time of the New York clock a task sleeps: the minute it wants,
the minute before, or, if the clock changes meanwhile, an hour off on the first weekday after; after a
bar whose handling raised, a minute. `HandlesUntilDone` is no promise of one `on_bar` a day: it says
that only a handling that raised is repeated.

**TokenRefreshProofs.** For any callers, clock, number of deaths and lost answers, rotation or not:
`TypeCorrect`, `BearersAreUsable`, `LockExcludes`, `SessionIsKept`, `RefusalNeedsOverlap`,
`NewestAccessKept`. `IInv` adds:

- `LockHeld`: who refreshes for a request holds the lock.
- `QuietDown`: while the platform is down only `start()` works; so that a login meets no refresh.
- `UsedOld`: refresh tokens in use are no newer than the store's, and the store's no newer than the
  provider's. This is what the missing lock of the loop could break and does not: an answer stored
  late cannot be newer than the provider.
- `AnswerLive`, `OneAnswer`: with rotation one refresh token is accepted once, so that of two
  overlapping refreshes at most one is answered, and its answer is the newest. The other is refused
  and stores nothing.
- `Alone`, `InStep`: without an overlap, and as long as nothing fails, store and provider agree.

`AskEffect`, `LeaveEffect`, `AcceptEffect`, `StoreEffect`, `FailEffect` and `LoginEffect` state what
an action does to the fields of the tokens; the steps cite them instead of the actions.

**Only model-checked.** The liveness properties `FillEventuallyRecorded`, `FlatStopReleased` and
`WaitersServed`, which need fairness and ENABLED, beyond these provers. The five properties that TLC
refutes are false, and only shown to be.

The type invariants of `RiskGate` and `TokenRefresh` are in a run as well; those of the other modules
are proved and in no run.

## 8. Where the code and its documentation disagree

Each is an entry of "findings" in `PROJECT.json`. TLC refutes these:

- `MirrorsOpenQuantity`: the docstring of `OrderTracker` says it mirrors the open quantity. After a
  partial fill the rest of the order is skipped as processed.
- `LimitMeansRealizedLoss`: the loss limits are called realized P&L caps. A purchase counts as a loss
  until it is sold, so that an open position of the limit's size ends the day's entries.
- `SwingExcludedFromFlatten`: the flatten is said to leave strategy 004 alone. It sells the symbols
  that strategy shares with strategy 002, in one account.
- `RefreshPersisted`: refreshed tokens are said to be persisted. They are flushed and never
  committed; with a provider that rotates, the next start needs a login.
- `JudgedByOwnContract`: strategy 006 is said to judge each contract independently. A cross of one
  is judged by the close and the bands the other's bar left.

Four more are in properties that hold and name what the code does:

- `AuditTrail` (`lifecycle_stock`): the comment at `router.py:237` says that blocked actions are logged
  as orders with a synthetic status. `route` returns and writes none; only the signal is audited.
- `FlattenedInTime` (`standalone`, as the next two): on the Monday after the clock is set forward
  the flatten runs at 16:50, after the close, if the platform was started before the change.
- `GapFillsOnly`: a simulated stop fills at its own price on a day that opened below it; the document
  of strategy 004 claims a gap-aware model.
- `OvernightOnlyFromLastBar`: the simulation of strategy 006 enters on the last bar of a session and
  holds the position over the night; its document says never.

What other properties had to allow, since the code does it:

- `RowFollowsBroker`: any executed quantity makes an event filled, so that an order's row shows filled
  after a part of it executed, also when the rest still works or is cancelled later.
- `PositionsWithinMax`: the tracker never has a fill recorded from a snapshot, and a restart empties
  it. The count of positions is then too low, for an entry that overlaps with no other, too.
- `LossStopsEntries`: the cash flow is not on the safe side. The purchase of a share held over night,
  or recorded from a snapshot, is not in the flow of the day it is sold, so that a sale at a loss
  looks like a gain and the limit stops nothing.
- `JudgedByFreshVix`: the VIX request names no date. A bar handled after its session is judged by a
  later session's VIX.
- `ShortWithinMissed`: the platform's flatten sells strategy 002's symbols at 15:50, and the strategy's
  own exit of 15:55 sells them once more.
- `HandledUntilDone`: a bar whose handling raises after `on_bar` is given to `on_bar` again.

Seen while modelling, without a run of their own: `_dict_to_signals` drops strategy 007's
`sell_short` and `buy_to_cover`; `start_trading.ps1` starts strategy 006 with continuous symbols its
own filter rejects; a runner whose streams have ended waits for ever; one failed request for the VIX
ends strategy 007's session; a sleep of `_poll_daily_bar` that ends a little before 16:05 has the
day's bar handled twice, fetches that fail until midnight have it never handled;
`backtest_002_localcsv.py` marks a held symbol without a row by the file's last close.

The properties that hold show the other side: replays never count twice (`ImplementsLedger`), and
the loop's refresh without the lock does not lose the session while requests are answered
(`SessionKept`).

## 9. What is left out

- The lots of other strategies and of hand in `RunnerProcess`: `Account` is what the runner and the
  flatten leave. The flatten may begin between any two steps there; when it runs is
  `TradingCalendar`'s question. That says when `enforce_eod_close` is called, not that the broker
  executes it, and knows no half days.
- In `GapFade` the newest daily bar of the VIX is taken to be the running session's, also before 9:30.
- Guards for data a run always has: a session without refresh token or expiry, whose token is sent
  unchecked (`adapter.py:338,352`; all sessions of `TokenRefresh` have both); the margin budget of
  strategy 006 (`futures_intraday.py:122`), which only keeps it from entering; two stop percentages in
  one simulation (`DailyBacktest` uses one for both strategies).
- A restart of the API, which empties the windows of `RateWindow`.
- Prices and indicators in the strategies: any bar may give any signal the state allows. The average
  cost in `OrderLifecycle` and the tracker's lots.
- Partial fills in `EquitySwing` and `RiskGate`, and the steps of the order tracker there:
  `OrderLifecycle` has them.
- The data quality checks and the store of the pipeline (the scanner makes no such check, and the
  command line passes no store); the day trade count, which nothing calls; the pauses before a
  stream is opened again; the risk checks nobody feeds (see `RiskGate`).
- `backtesting/engine.py`: returns, drawdown and ratios of a price series in one pass. The indicators
  of the simulations.
- Orders of symbols `_is_our_symbol` does not know: no run has one; the theorems hold for any `Known`.
- Stopping: a stop is a death. Cancellation inside `refresh_token`, which catches `BaseException`,
  is not modelled.
- Protocols, registries, value objects and table definitions: no state that changes after the start.
- Encryption, parsing of HTTP, wording, settings, migrations, stubs and the health endpoint: no
  state that the properties tell apart.
