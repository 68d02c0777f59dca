# A TLA+ specification of the MULTI_ASSETS trading bot

The bot trades several spot pairs on Binance. For each pair it buys on a signal,
protects the position with a native stop order, moves that order as the price rises,
takes partial profits, and sells on a signal or when the stop is reached. The money at
risk between two steps depends on two records of the same position: the bot's
`pair_state` and the exchange's orders and balances. They change at different times,
calls between them fail, and the exchange acts on its own. That is what this directory
specifies, checks with TLC and proves with TLAPS.

## Inventory of the system

| component | code | state | operations | interacts with | what makes it correct |
|---|---|---|---|---|---|
| pair trading cycle | `MULTI_SYMBOLS._execute_real_trades_inner`, `order_manager.py`, `trade_helpers.py` | `pair_state` (side, entry, stops, flags, `sl_order_id`, `sl_exchange_placed`), `_TradeCtx` snapshot | poll of the stop, sync from history, trailing, break-even, partial sales, stop handling, dust, signal sale, buy and stop placement, rollback | exchange client, state persistence, journal, mails | an open position has its stop order; the order never moves down; no double position; closing leaves nothing; the flags are true |
| exchange client | `exchange_client.py` | token bucket, time offset, filter cache | signed requests with retry, market orders with an idempotency key, stop orders | Binance | at most one fill per decided order, requests within the rate |
| state persistence | `state_manager.py`, `MULTI_SYMBOLS.save_bot_state/load_bot_state` | state file, backup, last-save time, failure counter | throttled and forced save, load | every component that mutates `bot_state` | a crash loses at most what the throttle allows; repeated failures halt |
| write-ahead log | `wal_logger.py` | log file | write, replay, clear | buy and sell paths, start-up | an intent without confirmation survives a crash |
| start-up reconciliation | `position_reconciler.py` | `bot_state`, `_PairStatus` | compare each pair with the exchange, adopt, close, protect, clean | exchange, state, cool-down | after a restart the memory agrees with the exchange, and what is held has a stop order |
| multi-pair scheduling and allocation | `MULTI_SYMBOLS.execute_real_trades`, locks, `max_concurrent_long` | per-pair locks, `_usdc_allocation_lock`, `emergency_halt` | run a pair, skip a busy pair, serialise buys | pair cycle, shared USDC balance | no two buys spend the same USDC, the number of open positions is bounded |
| error handler | `error_handler.py` | failure counter, open or closed, mode | record failure, availability test | main loop | opens after the threshold, closes after the timeout |
| watchdog | `watchdog.py` | restart times, heartbeat file, process | freshness test, stop, restart | the bot process | restarts a dead or hung bot and no other, never more than the allowed number of times |
| parameter choice | `backtest_orchestrator.py`, start-up of `MULTI_SYMBOLS.py` | `_live_best_params`, `oos_blocked`, thresholds, throttle | gate, grid search, choice, trade | walk-forward, configuration, `bot_state` | a pair buys only with parameters something has validated |
| walk-forward | `walk_forward.py` | none between calls | split, study, rank, test, judge | parameter choice | no look-ahead; the best of what passed is returned, and nothing is left out |
| candles | `data_fetcher.py`, `cache_manager.py` | cache file, lock file | download, read, complete, write, expire | cycle and backtests | a cycle decides on whole and recent candles |
| sizing, signals, indicators, backtest engine, configuration, display, mails, journal, dashboard | see `PROJECT.json` | mostly none | | | numerical or pure output |

Hard behaviours: stop orders fill between any two calls of a cycle; the cycle decides
on a snapshot of the balances that many calls make old; a call may fail, come back not
filled, or take effect while its reply is lost; several paths cancel and re-place the
same stop order; several paths may be the first to notice that it filled; a process may
die between a call and the save of what it did; several pairs share one balance.
`PROJECT.json` lists the hazards line by line.

## Modules

| module | models |
|---|---|
| `SpotPair` | the exchange as one pair sees it (external code): balances, stop orders, order history, faults |
| `PairCycle` | one pair of the bot: the whole cycle, one action per stretch of code between two calls of the exchange |
| `PairRestart` | extends `PairCycle`: the process dies at any step; saves, state file, write-ahead log, and the start-up with its reconciliation |
| `OrderPromise` | abstract: what the caller of an order function may count on |
| `OrderClient` | the order functions, `_request` and the circuit breaker, against a network that loses and delays |
| `Fleet` | several pairs on one account: dispatch, emergency halt, position limit, daily loss limit, allocation lock |
| `Supervisor` | the watchdog process, the main loop and its circuit breaker, joined by the heartbeat file and the exit code |
| `ParamGate` | which parameters a pair is traded with: start-up and hourly jobs of several pairs, quality gate, thresholds, throttle, restart |
| `WalkForward` | the folds and the verdicts of the out-of-sample validation that `ParamGate` takes for a choice |
| `CandleCache` | where candles come from: download, cache file, its completion, lock and expiry |
| `MC*` | values of the constants for TLC |
| `*_proofs` | theorems about the module of that name and their proofs |

`PairCycle` uses `SpotPair` for its exchange and `PairRestart` is composed of all three;
`OrderClient` implements `OrderPromise`. `Fleet` is at another scale: of a pair it keeps
only what the other pairs can see, so that several of them can be checked together. What
happens inside a pair is `PairCycle`'s. `Supervisor`, `ParamGate`, `WalkForward` and
`CandleCache` model the layers above the cycle: they share no variable with it, because
in the code they meet it only in whether it runs, with which parameters, on which candles.

A definition `X__Y` is `X` with the mistake `Y`; no specification uses it. It stands
before `X`, so that what the property of a run protects against can be read off.

### PairCycle: state and actions

`ps` is `pair_state`, with the same fields under shorter names (`stopE` is
`stop_loss_at_entry`, `stop` is `stop_loss`, `act` the trailing activation price, `on`
`trailing_stop_activated`, `be` `breakeven_triggered`, `slId` and `placed` the two fields
about the stop order; 0 and `NoId` stand for `None`). `ctx` is the part of `_TradeCtx`
the code re-reads or forgets to re-read. `cool` is the cool-down, `halt` the emergency
halt. `pc` and `job` say where the cycle is. Each action carries the code from one
exchange call to the next, so that everything the exchange may do in between is an
interleaving: `StopFills` (the price reaches the stop), `FillAges` (more than a cool-down
goes by). The next price is any price.

A call is answered `ok`, `err` (no effect, exception), `lost` (effect, exception),
`unfilled` (a market order with another status) or `rej` (refused: coins locked, order
gone). `rej` follows from the state; the other three failures are faults, at most
`MaxFaults` in a behaviour, at any calls.

Abstractions. Prices are ticks and ATR multiples are distances in ticks; the break-even
stop, `entry * (1 + slippage_buy)` in the code, is the entry price. A quantity is a whole
number of coin units, rounded by `Floor` exactly where the code rounds to `stepSize`.
MIN_NOTIONAL blocks what LOT_SIZE blocks, except residues (`ResidueSells`). A signal is a
choice; the gates that can only refuse a buy are `NoSignal`. The gate of
`max_concurrent_long` is none of them: it returns from the whole cycle, before the poll,
the trailing and the clean-up, for a pair with a position too (MULTI_SYMBOLS.py:1186-1197).
So `CycleStart` needs `~Full` and `FullCycle` is the cycle that ends there; `others` is the
number of open positions of the other pairs, which `OthersTrade` changes at any time
(in `PairRestart` it may change with any step). The
dust clean-up sees a residue above 1 % of `minQty` only (order_manager.py:1289), here one
above 1 / `DustPart` of it: a smaller crumb is left to the poll.

The identifier of a new stop order is one the exchange has not given before. The model has
few of them: an order that is neither live nor named by the bot (nor, in `PairRestart`, by
the state file) can be referred to by nothing any more, and stands for one not given yet
(`Unused`; `Ended` drops what nobody reads of it). `GivesFresh` takes the least, since which
one it is makes no difference. Mails, journal, display,
and the save of the state (no crash in this module) are left out, as are the sniper
entry's slippage, the scenario without partial sales and the sale of a remainder at the
end of `_execute_signal_sell`, which can only be refused.

### OrderClient: state and actions

Each member of `Order` is one call of `safe_market_buy`, `safe_market_sell` or
`place_exchange_stop_loss` in a thread of its own. `pc`, `try`, `asked` and `waiting` are
the call's local state: its step, its attempt, the attempt of the read it makes through
`_request`. `failures` and `quarantine` are `_circuit_state`, which all calls share. The
other variables are the exchange and the network: `wire` the requests on their way,
`book` the status of the order under the client order id, `ran` the attempts that were
executed. `blind` is a history variable: the call sent its order again after a lookup
that did not answer, or while an earlier request was still on its way; a stop order is
always sent again blindly.

The exchange refuses a client order id while an order with it is open and accepts it
again afterwards, which is why the same id on every attempt does not by itself prevent a
second execution. An order that expires was not executed; a market order may be seen
partially executed. Time passes only as events: a post times out, a quarantine ends.

`OrderPromise` is what is left for a caller: one execution unless in doubt, no false
success, and nothing at all after an exception.

### Fleet: state and actions

`free`, `coin` and `sold` are the account: its USDC, the coins of each pair at their cost,
and the USDC of the sales since the last buy, which the code recomputes from the order
history and takes for the capital of the pair. `cost`, `armed` and `polls` are
`entry_price`, `sl_exchange_placed` and the counter of the poll of each pair; `halted`,
`pnl`, `opening` and `dated` the emergency halt and the daily tracker. `pc[p]` is the place
of the thread of `p` in its cycle:

`Dispatch` -> `Gate` (halt) -> `Count` (opening equity of the day, number of positions,
poll) -> `Fetched` (snapshot, history) -> `Zero`, or `Filled`, `Sell` / `Book`, `NotSold`,
or `Check` -> `Acquire` -> `Size` -> `Buy` -> `Protect`, `Rollback` or `Halt`.

Every step may also fail (`Not...`), a buy or sale may be executed and reported as an
error (`BuyUnseen`, `Sell`), stops fill at any time, and days end. `barred` is a history
variable: the limits in force when the dispatch began and ever since. `fresh` says that
the balance was read under the lock.

Abstractions. A trade costs no fee, a sale is whole and brings any amount; a buy takes any
part of the capital. Signals, cool-down, the ATR guard and the out-of-sample gate only
refuse a buy (`NotChecked`). A stop order exists when the pair thinks so; `PairCycle` has
the cases in which that is wrong. The lock of each pair is never contended, because a
dispatch is joined before the next one starts.

### PairRestart: state and actions

Everything of `PairCycle`, and: `boot`, the next thing the start-up does, `run` once it is
over; `seen`, what the reconciliation has read (`_PairStatus`); `disk`, the state file;
`due`, that a `save_fn(force=True)` is the next thing to do; `failed`,
`save_failure_count`; `wal`, the operations in the write-ahead log. `calm` is a history
variable: no call has failed since the start-up began.

`Crash` may come between any two steps, of a cycle or of a start-up; the memory goes, the
exchange, the file and the log stay. A new process takes `StartUp` -> `Load` ->
`Account` -> `Ticker` -> `Filters` -> `Decide` -> one of `Orphan`, `Gone`, `Known`
(-> `PlaceMissing`) and `Unknown` -> `Finish` -> `ForcedSave` -> `ClearLog`, in this order:
the state is saved before the log of intents is cleared, and the process may die in between.
Then it runs `Cycle`. Filters that cannot be read leave the minima of the configuration
(position_reconciler.py:83-103), of which only one number matters, `ReconcileMin`: the coins
that reach both. All pairs are in one file, and the
throttle skips an unforced save within five seconds of another, so such a save may happen
at any time or never (`OtherSave`); only a forced one is a step of its own (`ForcedSave`),
before which the process may die. A failed save is one of the faults. The replacement of
the file is atomic, as `os.replace` is; `load_bot_state` turns every failure into an empty
state (`Load`). What is reconciled is whatever some cycle has left, because the module
extends `PairCycle` instead of choosing the states it starts from.

### Supervisor: state and actions

`wd` and `restarts` are the watchdog and its `restart_times` within the hour, `bot` and
`rc` the process and its exit code, `hb` the age of the heartbeat file, `fails`, `open`,
`since` and `mode` the `CircuitBreaker` and `SafeMode`, `wait` and `net` the pause of the
main loop and its `network_check_counter`. `streak` and `quiet` are history variables:
errors in a row, and that since the last heartbeat there were only pauses of the breaker.

`Iterate` begins an iteration, `TaskDone`, `TaskFails`, `LoopFails` end it; a job
(`bot = "task"`) or a start-up lasts as many ticks as it likes. `SeesDead`, `SeesStale`
and `StartAgain` are one round of the watchdog each. A restart drops out of the last hour
at any time (`HourPasses`), the back-off takes any time.

### ParamGate: state and actions

Parameters are known by their origin: validated by the walk-forward and under which
thresholds, the best of results that pass the gate, or the best of results none of which
passes. `live` is `_live_best_params`, `work` the local `best_params` of a job, `blocked`
and `own` the fields `oos_blocked` and `stoch_buy_min` of each pair, `stoch` the
`stoch_params` of `bot_state`, `config` the thresholds of the shared configuration object,
`fresh` that `last_backtest_time` is within the throttle, `disk` the file.

Start-up handles one pair after the other (`BootJudge`, `BootSearch`, `BootTrade`,
`BootNothing`); every hour all pairs run `Reuse` or `Judge` -> `Search` -> `Store` ->
`Walk`, then `Trade`, in threads of their own; `Live` is the cycle of every two minutes,
which skips a pair without parameters. `Restart` loads the file, or nothing. `GateSaved` is
what the gate saves: a block, forced at start-up and not in the hourly job; a pass only for
a pair that was blocked, and never forced (backtest_orchestrator.py:247-276).

### WalkForward: state and actions

`Study` splits the data of the timeframe its optimiser chose and audits the choice; when it
raises, nothing is validated, since the caller's handler passes over the grid too
(`StudyFails`, backtest_orchestrator.py:451); otherwise `Rank`, `Pick`, `Judge`, `Choose`
take the best results of the full sample, one by one. Both use `Begin` and `AddFold`, which
are `split_walk_forward_folds`, and `Test`, a backtest of one test part. A score is a Sharpe
ratio in tenths; averages are compared through their sums. `Truncated` has both values
`int(n * share)` may take when the product of the floats comes out just below a whole
number.

### CandleCache: state and actions

A candle is a number; the last one is forming, and of it only a part is known. `now` is that
candle, `file` and `age` the cache file and the time since it was written, `lock` the lock
file, `frame` the candles of the job. `asked` is a history variable: the candle that was
forming when the job began. One job at a time handles a pair and interval, as in the code:
the dispatches are joined, and each pair has a job of its own. A file that is bad, too old
or unreadable is removed, or stays where it is if that fails (`ReadFails`). Calls take time,
so a candle may close between any two steps.

## Runs

`OrderClient` has one buy and one stop order, whose reads share the breaker; three tries
of a market order stand for the code's four and two of a stop order for its three (first,
last, and for the market order one between), two tries of a read and a threshold of two
for the code's three and ten; the proofs need none of these bounds. Four faults open the
breaker, or lose a request and all answers of its lookup.

Bounds of the pair's runs: three stop identifiers (one live, one named, one new), buys of 16
or 17 coins with `minQty` = `stepSize` = 2 (16 is exact, 17 leaves a residue, half and 30 %
of them hit and miss the rounding), prices 1 to 5 with entry 2, so that the stop (1), the
break-even (3), the thresholds of the partial sales (4, 5), the trailing activation (4) and
every trailing level from them occur; two placement attempts (the code has three: the first,
a middle one would add nothing, the last). `MaxHeld` bounds the coins held: 36 lets a second
position be bought on top of a first one, 18 only positions after each other. `DustPart` = 2
makes one coin a crumb the clean-up does not see and two one that it does; in the code the
bound is 100. `PairHonest` has two other positions and room for two (`MaxLong`), so that the
gate is open, closed by the others alone, and closed by this pair's own position;
`PairFaults` and `Restart` have no others, as a closed gate does nothing at all and is no
news to a safety property.

`Fleet` has the two pairs of the source, a position limit of two, a poll every second
cycle for the thirtieth, and two units of USDC: enough for both pairs to buy, for one to
take what the other wanted, and for every loss to exceed 5 %. `MaxPnl` = 0 bounds the
profit of a day: a day with more than that sees losses only, until it ends.

| run | shows |
|---|---|
| `PairFaults` | one fault of any kind, or none: `AtMostOneStop`, `BuysOnlyWhenFlat`, `EffectiveStopNeverFalls`; as long as none has happened: `Protected`, `NoOrphanStop`, `StopAtLeastSoft`, and `ClosesFlat`: closing leaves dust, or after a manual sale at most the coins locked at the snapshot besides |
| `PairHonest` | three faults, no lost reply, other pairs at the position limit: `TypeOK`, `ArmedMeansLive`, `HaltOnlyExposed`, and `DeadPositionCloses` under fairness |
| `OrderClient` | four faults: `TwiceOnlyBlind`, `RaisedHidesLast`, `KeepsPromise`, `EveryCallEnds`, `TypeOK` |
| `Fleet` | `NoOverdraw`, `LimitsBind`, `FillSeen`, `DispatchEnds`, `TypeOK` |
| `Restart` | death at any step, one fault: `NeverDoubled`, `RestartTypeOK`; after a start-up whose calls were answered: `KnownAfterBoot`, `StopAfterBoot`, `ClosedIsGone` |
| `Supervisor` | `PauseIsNotHang`, `GivesUpLate`, `SupTypeOK`; under fairness `CrashIsNoticed`, `HangIsNoticed` |
| `Params` | `BuysPassedTheGate`, `NeverLockedOut`, `GateTypeOK` |
| `WalkForward` | `FoldsInOrder`, `EveryFrameHeard`, `BestHolds` |
| `CandleCache` | `TradedIsWhole`, `OnlyGrows` |
| `BugPartialSkipped` | the code violates `PartialTaken` |
| `BugFullFreezes` | the code violates `FillSeenWhenFull`: at the position limit no position is managed |
| `BugUnreadIsClosed` | the code violates `UnreadIsKept`: a price that cannot be read closes a position |

`Restart` has the instance of the pair's runs with one size of buy, one placement attempt
and three prices (stop, entry, first threshold), one death and one fault of any kind,
failing saves among them: a first failed save already halts (`MaxSaveFailures` = 1), and
the death may come anywhere in a life that buys, sells a part, moves its stop, closes and
buys again, or in the start-up itself.

`Supervisor` keeps the proportions of the code that matter: a pause of the loop and of the
breaker together are shorter than the staleness limit, with the shortest pause to spare
(`LoopWait` + `Timeout` + `Short` = `Stale`, an assumption the proof uses too; in the code
120 + 300 + 10 s and 600 s). Two restarts, a threshold of two errors and a network check
every second iteration stand for five, three and fifteen.

`Params` has two pairs, two outcomes of the grid search and one restart. `WalkForward` has
two timeframes, one with the override of "1d", three results of the one and one of the
other, three folds, and lengths of data below the minimum, just enough for one fold, and
enough for all; bars are in units of fifty. `CandleCache` has windows of five candles, an
update of two (so that a longer pause leaves a hole), files thrown away below two candles
or after four, ten candles and two deaths. `CHECK_DEADLOCK FALSE` in `WalkForward.cfg`: a
validation ends.

A wider instance of `PairFaults` (two faults, four identifiers, 1.1 million states) was
checked once and has no error either; nor has `Restart` with one other pair that trades
(`MaxOthers` = 1, 5.7 million states, five minutes).

Fairness. In `PairCycle`, `FairSpec` asks for weak fairness of the cycle: the scheduler
runs the pair every two minutes and the cycle's steps terminate, so a cycle that can go on
does, if only to return at a gate; and for strong fairness of `Poll`. Whether a cycle polls
is no accident: `_poll_cnt` counts the cycles of a pair with a confirmed stop order and every
thirtieth polls (MULTI_SYMBOLS.py:1261-1270), so that one that gets there again and again
polls in the end. Without it a crumb after a stop fill could stay open for ever. Nothing is
asked of prices, faults, signals, or of the other pairs making room.
For `OrderClient` it is weak fairness of the steps of a call and of the exchange's answer
to a request that was not lost: `requests.post` and `_request` have timeouts, so a call
never waits for ever. A quarantine need not end. `DeadPositionCloses` is checked with
`ResidueSells = FALSE`, and holds with TRUE as well: a residue below `minQty` but worth more
than MIN_NOTIONAL is tried, refused and not reset (order_manager.py:1336), but the poll finds
the filled order in the end. It excepts a
halted bot and a full one: at the position limit no pair is managed, its own position holds
one of the places, and nothing in the code frees it, which `BugFullFreezes` shows.

For `Supervisor` it is weak fairness of the passing of time, of the beginning of an
iteration, and of the watchdog's round: neither process is suspended. It does not ask that
a start-up or a job ends, which is the point of the heartbeat.

For `Fleet` it is weak fairness of the dispatch and of each thread (calls have timeouts,
the main loop runs for ever) and strong fairness of `Fetched`: a pair that reaches the
account again and again is not refused it for ever. It does not ask that the poll is
answered, that an order succeeds or that a stop fills.

### Disagreements between the code and what it says of itself

Three are runs, and findings in `PROJECT.json`. The configurations below show the others;
run them with `tlc -config X.cfg MCPairCycle` unless said otherwise:

- `BugStopMovedDown.cfg`: the break-even move and the re-placement after a partial sale
  compare with `stop_loss` only and put the exchange order back below the trailing level
  (order_manager.py:382, :602), against "pour ne jamais reculer" (:332).
- `BugPhantomStop.cfg`: a cancel whose reply is lost leaves `sl_exchange_placed` set with no
  order on the exchange; `_restore_exchange_sl` then returns at once (order_manager.py:80),
  although it is there "pour garantir que la position ne reste jamais sans SL" (:77).
- `BugGuardSellsResidue.cfg`: `_handle_manual_sl_trigger` cancels the stop order and sells
  the free balance of before (order_manager.py:881): with an old residue of `minQty` it
  sells the residue and closes the position with its coins left.
- `BugOrderTwice.cfg` (with `MCOrderClient`): a market order is sent again after a lookup
  that raised (exchange_client.py:477, :527) or while the first request is on its way, and
  executed twice; the client order id is refused only while an order with it is open.
- `BugStopLossUnbooked.cfg` (with `MCFleet`): losses found by the poll of the stop order or
  made by the rollback of a buy are not in the daily loss (MULTI_SYMBOLS.py:1284,
  order_manager.py:1928).
- `BugForgottenUnnamed.cfg` (with `MCPairRestart`): `wal_replay` is to name the "intents
  sans confirmation" (wal_logger.py:84), but any earlier confirmation of the pair hides a
  later intent (:125), since the log is cleared at start-up only.
- `BugCoolDownSkipped.cfg`: a stop fill that leaves a residue is closed by
  `_handle_dust_cleanup` (order_manager.py:1318), which sets no cool-down; the next cycle
  may buy, against bot_config.py:95.
- `BugHaltProtected.cfg`: a lost reply to the first placement makes the other attempts and
  the rollback fail, and the emergency halt says "POSITION EXPOSÉE SANS PROTECTION"
  (order_manager.py:1944) of a position with a live stop order.
- `BugFlagsKept.cfg`: `_reconcile_zero_balance_sl` says it mirrors the complete reset
  (order_manager.py:1121) and keeps the flags of the partial sales.
- `BugPartialIsFailure.cfg` (with `MCOrderClient`): a lookup that finds
  `PARTIALLY_FILLED` returns it (exchange_client.py:471), and every caller takes a status
  other than `FILLED` for an order that was not executed.
- `BugPartialUndetected.cfg`: the second partial sale is 30 % of the remainder
  (order_manager.py:441), the detection wants 25 to 35 % of the buy
  (trade_helpers.py:255).
- `BugMoreThanMax.cfg` (with `MCFleet`): the positions are counted before the lock, so the
  parallel threads of one dispatch may open more than `max_concurrent_long`
  (bot_config.py:110).

The upper modules state what the code says and does not do as properties too; each is
violated in the instance of its module's run when it takes the place of the others:

- `StartingIsSpared` (`Supervisor`): "benefit of the doubt during startup" (watchdog.py:134)
  is given only when there is no heartbeat file; the file of the process before is stale, and
  a start-up longer than the check interval is killed.
- `GivenUpMeansStopped`: the watchdog that gives up says "Le bot EST ARRÊTÉ" (watchdog.py:73)
  but returns before it stops the hung process (:192-199).
- `TripsOnStreak`: the breaker opens after "erreurs consecutives" (error_handler.py:249), but
  nothing in the loop calls `record_success`: it counts all errors since it last closed.
- `ValidatedAsTraded` (`ParamGate`): thresholds are chosen "avant le WF pour que la validation
  OOS porte sur les seuils optimisés" (MULTI_SYMBOLS.py:1820); another pair's search may
  replace those of the shared configuration before the pair is traded, and a pair with
  thresholds of its own is traded with these.
- `FrozenWhenBlocked`: MULTI_SYMBOLS.py:1986 wants the parameters of a blocked pair left as
  they are; the hourly job stores the new ones (backtest_orchestrator.py:551).
- `BlockedIsManaged`: "La gestion des stops reste active" (backtest_orchestrator.py:295), but
  a pair blocked since the start has no parameters and is skipped (:599).
- `BlockSurvives`: a block is to survive a restart (MULTI_SYMBOLS.py:551), but the hourly job
  saves it unforced (backtest_orchestrator.py:276), and the throttle may skip that.
- `SavedIsUsed`: two searches may end in one order and be stored in the other
  (backtest_orchestrator.py:397-408): the file and the configuration then differ.
- `ValidatedTwice` (`WalkForward`): "1 seul fold = statistiquement invalide"
  (walk_forward.py:560) is tested for the grid only; the study's audit accepts one (:896).
- `BacktestedHasNoGap` (`CandleCache`): the integrity check promises "temporal gaps"
  (data_fetcher.py:70) and passes over them (:90); a file completed after a pause longer
  than the lookback keeps a hole.
- `BacktestedIsFinal`: the last cached candle was still forming and is never replaced, as
  only later ones are added (cache_manager.py:230), though duplicates are dropped with
  `keep='last'` (:237).

Read while modelling, without a property: a fatal exception leaves `main` with exit code 0,
which the watchdog takes for "Arrêt volontaire" (MULTI_SYMBOLS.py:2259, watchdog.py:257);
C-11 places a missing stop at the entry's level, below a trailing stop that was lost
(position_reconciler.py:423); failures of the reconciliation never set `reconcile_failed`,
and the log is cleared all the same (MULTI_SYMBOLS.py:1705-1712); an emergency halt after
failed saves cannot be saved and is lost with the process; the backup of the state file is
never read; the download retries nothing, because `@log_exceptions` inside `@retry`
swallows what it would retry (data_fetcher.py:96); the validation falls back to parameters
chosen in the sample when no configuration passes (walk_forward.py:665); thresholds of a
pair's own are saved for the first pair only (MULTI_SYMBOLS.py:1855); the out-of-sample
block after a streak of failures (MULTI_SYMBOLS.py:1947) is out of reach, since the loop
runs once per process.
README.md:157 of the repository says `STOP_LOSS_LIMIT`; the code places `STOP_LOSS`.

## Proofs

`PairCycle_proofs.tla` proves, for every value of the constants allowed by
`SpotAssumption` and `CycleAssumption` (natural quantities, `minQty` a multiple of
`stepSize`, a percentage at most 100, entry prices above the stop distance) and without
any bound on faults:

- `Typing`: `Spec => []TypeOK`. `TypeOK` is not inductive alone: `JobPos`, that the number
  of the partial sale is 1 or 2 where it indexes the flags, and the attempt at most
  `MaxTries` where it is counted, completes it.
- `NoDoublePosition`: `Spec => BuysOnlyWhenFlat`. A buy is decided on `ctx.tot`, read long
  before. The invariant `FlatInv` has two parts. `CoinsCovered`: after the fetch the
  account never holds more than `ctx.tot`, because only `Buy` adds coins (lemma
  `OnlyBuyAddsCoins`: fills and sales remove them, cancels and placements move them) and
  every re-read is exact. `ResidueOnly`: where a buy may come next, `ctx.tot` is at most
  `MinQty`. Each action is one step of the proof.
- `StopNeverFalls`: `Spec => EffectiveStopNeverFalls`. `_sync_entry_state` is the one
  function that could lower a stop, and it does so only while one is missing. `StopsSet`
  says that an entry comes with both stops and that a stop is never 0, which the code takes
  for missing; it rests on `BuyAboveStop`, that no entry price is below the stop distance.
- `ArmedPositionCovered`: `Spec => []ArmedMeansLive` if no reply is lost (`~LostReplies`).
  The invariant `NamedLive` drops the conditions of `ArmedMeansLive` and so is inductive: a
  call is refused, fails or succeeds, and only the last changes the order and its name.
- `NeverTwoStops`: `Spec => []AtMostOneStop`, lost replies included, if every buy delivers at
  least a step more than the minimum (`BigBuys`). `OneLive` says that the one open order locks
  all that is locked, and at least the minimum. `SnapshotExact` sharpens `CoinsCovered`: the
  account holds what the snapshot says or a step less at least. So the quantity of a new
  order, all of the snapshot but less than a step, exceeds the free balance whenever an order
  is open, and the exchange refuses it. `ProtectsAll` is the same for the attempts after a buy,
  and `MovesEnough` for a move. `BigBuys` is needed: with buys of just the minimum and two
  faults TLC finds two open orders.
- `HaltIsForExposed`: `Spec => HaltOnlyExposed` under `BigBuys` and `~LostReplies`. `Exposed`
  says that a placement that is tried again left nothing behind.

- `NeverUnprotected`, `NoForgottenStop`, `OrderAtLeastSoft`: `[]Protected`, `[]NoOrphanStop`
  and `[]StopAtLeastSoft`, under `BigBuys`. These three speak of a pair none of whose calls
  has failed yet, so their invariant, `Quiet`, does too: `faults = 0 => Grounds /\ QuietInv`.
  None of the three is inductive: between two cycles they hold because of what every path
  does with the coins in between. `Accounted`, the heart of `QuietInv`, says where the coins
  of an open position are at every step: `Settled` (the named order is there and leaves no
  more than a residue free, or it has gone and a residue is all that is left) or `InHand`
  (a path has cancelled the order, all coins are free, the snapshot counts them, and the next
  steps put the order back or sell). The rest says what makes the next call succeed: the
  snapshot counts what is free (`SnapshotCovers`, `FreeKept`), the first order of a buy fits
  (`ProtectFits`), a sale is read back only without an order (`OrderGone`), no order is placed
  below the software stop (`HighEnough`). `QuietCalls` says that an exchange without a fault
  obeys a valid call and refuses the others; `StillQuiet`, `CloseQuiet`, `InHandQuiet` and
  `PlacedQuiet` are the four shapes a step can have, and every action is one of them.
- `ClosedIsFlat`: `Spec => ClosesFlat`, from the same invariant: `ClosingSteps` names the nine
  actions that may write `last_order_side` of an open position, and `NextClosesFlat` takes them
  one by one. `Sync` turns out never to close one, and seven of the other eight leave less than
  `minQty` and a step. The eighth, `ManualSell`, leaves the coins that were locked at the
  snapshot besides (`LeftBehind`). The code does leave these (order_manager.py:881), which
  `BugGuardSellsResidue` shows, so the theorem does not say that every closed position is
  flat: it says how far from it one can be, whatever moved since the snapshot.

All of these are about `PairNext`: lemma `PairSteps` says that what the other pairs do changes
no variable of this one.

`OrderClient_proofs.tla` proves, for any number of orders, attempts and faults, under
`ClientAssumption` (retry limits and threshold at least 1):

- `Typing`: `Spec => []TypeOK`, with `Asking`: a read that may still be tried has not used
  its attempts up.
- `OnceUnlessBlind`, `OnlyLastIsHidden`: `[]TwiceOnlyBlind` and `[]RaisedHidesLast`. Both
  follow from `Inv`. Its part `Sure` says what is known of an order that was never blind:
  before a request nothing is on its way and nothing was executed; while one is out, it
  is the only one and not both on its way and executed; an executed order has an executed
  status in the book, so that the lookup finds it. `Truthful` says that replies, statuses
  and verdicts report executions only if there are any. `Inv` speaks of each order's row
  of the state alone; `OwnRow` shows that a step keeps it for its order and `OtherRows`
  that it does not touch the others.
- `Refinement`: `Spec => Promise!Spec`; each step maps to `Execute`, `GoAhead`, `Report` or
  a stutter (`Maps`).

`Fleet_proofs.tla` proves, for any finite set of pairs and any limits, under
`FleetAssumption`:

- `Typing`: `Spec => []TypeOK`. `TypeOK` says nothing of `opening`, a sum over the pairs:
  that a sum of naturals is a natural is an induction, which the proof system cannot do
  here, and no other part needs it. TLC evaluates it.
- `SpendsOnce`: `Spec => []NoOverdraw`. The invariant is `Locked`: a thread between the
  reading of the balance and its order holds the lock. So only sales and stops of others
  can move the USDC meanwhile, and they only add (`KeepsQuote`).
- `LimitsHold`: `Spec => LimitsBind`. The invariant `Bars` says how far a thread can have
  come while a limit is in `barred`: with the halt to the gate, with all positions open to
  the count, with the loss to anywhere but the buy. It is inductive because `Dispatch`
  starts all threads again from the gate, and because a limit leaves `barred` for good.
  Nobody who orders is there while a limit bars (`NoneBars`), and only orders spend
  (`OnlyOrdersSpend`).

`PairRestart_proofs.tla` proves, under the assumptions of `PairCycle` and
`RestartAssumption`, for any number of faults and deaths:

- `RestartTyping`: `Spec => []RestartTypeOK`, from the steps of `PairCycle_proofs` for the
  cycle and one step per action of the start-up.
- `NoDoubleAcrossRestarts`: `NeverDoubled`. `FlatInv` of `PairCycle` need not survive a
  restart by itself: `RestartInv` adds that outside a running cycle there is no snapshot and
  no place in the cycle (`AtRest`), so that a new process starts like the first one and the
  argument of `NoDoublePosition` begins anew whatever the file, the reconciliation and the
  exchange have made of the state. `Fresh` says that a process that has loaded nothing has
  failed to save nothing.
- `BalanceIsKnown` and `OnlyGoneIsClosed`: `KnownAfterBoot` and `ClosedIsGone`, with no
  other assumption. `FoundInv` follows what the reconciliation knows: while it checks, the
  account holds no more than the balance it has read (`Counted`: the market only takes coins
  away); as long as no call has failed the price was read (`Priced`) and each label says
  what brought it there (`Sorted`).
- `OneStopAcrossRestarts` and `StopIsBackAfterBoot`: `[]AtMostOneStop` of the pair that dies
  and starts again, and `StopAfterBoot`, under `BigBuys` and `Worthless` (`~ResidueSells`
  and `ReconcileMin > MinQty`). Besides `OneStopInv`, `BookInv` has `Covering` (an open
  order leaves less than a residue and a step free, which `PairCycle_proofs` shows for the
  cycle), so that a stop that fills behind the back of the start-up takes all but a residue:
  either the balance is still the one that was read, and the order fits, or there is nothing
  left to protect (`CoinsSeen`). `Worthless` says that `minQty` coins are worth less than
  MIN_NOTIONAL, by the pair's filters and by the minima of the configuration that replace
  them. Without either part, and with two faults and two deaths, TLC refutes both: the order
  of a position or residue of `minQty` outlives it (its reply is lost, or a price that
  cannot be read closes the position), and a later buy brings coins it does not cover. Then
  a second order may follow (the first property), or the small order fills between the
  reading of the balance and the placement for all of it, which the exchange refuses (the
  second).

`Supervisor_proofs.tla` proves, under `SupervisorAssumption`:

- `SupTyping`: `[]SupTypeOK`. It needs that a restart is granted only below the limit
  (`Granted`), and that a job runs only behind a closed breaker (`Behind`).
- `PausesAreSpared`: `[]PauseIsNotHang`. The inductive invariant bounds the age of the
  heartbeat by where the loop is: in its own pause (`Waiting`), in a pause of the breaker
  (`Pausing`), or at work in an iteration that follows one (`Working`); the last step is the
  arithmetic of `LoopWait + Timeout + Short <= Stale`.
- `GivesUpOnlyLate`: `GivesUpLate`.

`ParamGate_proofs.tla` proves, for any set of pairs and thresholds and any number of
restarts, under `ParamAssumption`, `GateTyping`, `GateHolds` (`[]BuysPassedTheGate`) and
`NoLockOut` (`[]NeverLockedOut`) from one invariant, `Sound`: what is known of a pair at each
step of its job. Between jobs the parameters kept fit the block and the throttle (`Kept`), a
job starts from them (`Started`), what the gate returned fits the block it has set
(`PoolFits`), and what is about to be traded fits again (`Ready`). It is a property of each
pair by itself: what the pairs share, the thresholds, it does not mention.

`WalkForward_proofs.tla` proves, for any data, shares, minima and outcomes of the backtests:

- `NoLookAhead`: `[]FoldsInOrder`. `FoldInv` adds that the next test part begins no earlier
  than the last one ended.
- `TheBestIsReturned`: `[]BestHolds`. `BestInv` says that in the grid the fold to be tested
  and the number tested go together, so that a verdict stands on all folds (`Fit`), and that
  nothing is returned before the end.
- `NoFrameForgotten`: `[]EveryFrameHeard`, if the ranking has room for two results of each
  timeframe (`RoomForTwo`). `TwiceIsEnough` derives that from `2 * |Frames| <= TopN`; the code
  ranks 15 (walk_forward.py:432). It sends each ranked result to its timeframe and
  one of two places: an injection, which needs no induction. `HeardInv` says that from the
  ranking on a timeframe that can be split has a result, waits in the queue or is being
  validated (`Awaited`), and that its split has room for two folds (`TwoLeft`), also when
  `int(n * share)` comes out one too small (`RoomSplits`).

`CandleCache_proofs.tla` proves, for any window, lookback and limits:

- `TradesOnWhole`: `[]TradedIsWhole`. `TradeInv` says that the candles of a trading job are
  those some download returned, at a time between its beginning and now.
- `FileOnlyGrows`: `OnlyGrows`. `GrowInv` relates the candles in memory to the file: what is
  about to be written knows every candle of the file that the window still wants, and the
  window only moves forward.

With these every invariant and every action property of the passing runs is a theorem.
Model-checked only are the liveness properties (`DeadPositionCloses`, `EveryCallEnds`,
`FillSeen`, `DispatchEnds`, `CrashIsNoticed`, `HangIsNoticed`): liveness under fairness is
beyond the proof system. So is what a recursive definition computes for every input, which
needs an induction over data; the modules have none.

## Not modelled

`PROJECT.json` gives a reason for each component. The numerical ones (indicators, sizing,
the backtest engine and its metrics) compute one value from another in one thread: they
have no interleavings, no state between two calls and nothing that fails halfway, and their
outcomes are choices of the models. Output (mails, journal, display) and the dashboard have
no effect on the state. The configuration is read once; its values are the constants.

Of the modelled parts: scenarios without partial sales and the slippage of the sniper
entry; the token bucket and the clock offset of the client, which only delay a request; the
per-pair lock, which two dispatches never contend for; the statistics of the walk-forward
report; the content of a candle.

## What could come next

A refinement of `Fleet`'s pair by `PairCycle`, which would need the cost of a position in
`SpotPair`; `Protected` and `NoOrphanStop` for a pair that dies and starts again, where they
hold only after a start-up whose calls were answered.
