# A TLA+ model of qapp's live trading

qapp trades Chinese A shares live through QMT brokers on top of NautilusTrader, keeps
its day in MySQL, shows it on a dashboard, and backtests the same strategy. This
directory holds a formal model of the live system: how a day's target comes about, how it
is turned into orders, how operators interfere with it, what is written down and read
back, and how the system tells people of itself.

Paths below are relative to the repository; `TQ` is `strategies/target_quantities.py`,
`MPT` is `strategies/model_prediction_targets.py`, `SR` is `lives/snapshot_recorder.py`.

1. [Inventory of the system](#inventory)
2. [Modules, and how they correspond to the code](#modules)
3. [Runs, bounds and what they show](#runs)
4. [Disagreements between the code and what is said about it](#findings)
5. [Fairness](#fairness)
6. [What is proved](#proofs)
7. [What is only model-checked, and what is not modelled](#limits)
8. [Plan](#plan)

## <a name="inventory"></a>1. Inventory of the system

One node process runs one account. Its parts share three kinds of threads: the **node
loop** (an asyncio loop: market data, order events, most timers), the **control
server's threads** (one per HTTP request), and the **fetch worker** (a one-thread
executor for slow gateway calls). Everything durable is in MySQL; a restart rebuilds the
rest from it and from the broker.

| Component | State | Operations | Talks to | Hard behaviour | Correct when |
|---|---|---|---|---|---|
| Target execution (`TQ`) | target map and version, achieved versions, latches (insufficient funds, sellable exhausted, frozen, deferred), cancel counts | `update_target_quantities`, `_converge_to_target`, order events, depth, bars | broker through Nautilus' cache; account and position reports | fills racing cancels, account reports that lag, restarts with a half-built cache, latches that outlive their cause | never over-buys or over-sells, spends only the cash there is, works every difference off |
| Manual trading control (`strategies/trading_control.py`) | controller's pause flag, the lock it shares with convergence | pause, resume, freeze, sell, sell-all, state | TQ, from server threads | a sell and a cycle on two threads; the lock is held only while the book is read | two threads never send one difference twice; a sell runs and is not undone |
| Control server (`lives/control_server.py`) | audit log, row of `live_control_state`, its port | HTTP routes, the positions page | controller, control writer | concurrent requests, a database that fails | what is answered holds, and survives a restart; the day's profit is what cash and prices say |
| Daily target (`SR`, `MPT`, `lives/_target_model_node.py`) | applied and processed dates, rows of `live_target_portfolio`, the plan | before-trading timer, processing timer, refresh, catch-up on start, persister | risk manager, MySQL, TQ | restarts at any time of day, failed reads and writes, the refresh that reopens a processed day | one plan a day is frozen, stored, and followed; a day is not left without a target |
| Full-tick fetches (`TQ`, `SR`) | two futures, the observers, the final success date | timers, on-demand request, done callbacks, export after the close | broker data source, node loop | callbacks on the worker's thread, futures forgotten by a stale callback | fetches do not stack, whoever waits is told once |
| Execution reconciliation (`strategies/execution_reconciliation.py`) | running task, sellable map, reconciled flag | request, done, log | Nautilus' execution engine | overlap, a raise, a late answer | a request ends once, the gate opens only on an answer |
| Snapshot recorder (`SR`) | asset, position, order and trade rows; backfill state | order events, position fetch, backfills, after-trading | live writer | an event and a backfill of the same order; catch-up | rows are upserted once, a later state is never overwritten by an older one |
| Live MySQL writer (`backtests/result_writers/live_writer.py`) | pool, tables | upserts, loads, the replace of a snapshot | MySQL | a dropped connection, half of a replace | all or nothing, keys unique |
| Model targets (`MPT`) | peaks, entry dates, exclusions | candidates, stop-loss and trailing exits, safety plan | planner, TQ | missing ticks, dividends, restarts | holdings are excluded and exited by the rules |
| Risk-manager planner | none | plan, retries, validation | HTTP service | time-outs, an answer of another request | only a valid answer becomes a target |
| Order splitter, pricing | cancel counts | split, price, escalate | TQ | lot sizes, odd lots, caps, ladders that stop | no tradable share is left behind, an unfilled order gets to the book |
| Live node wiring (`lives/_target_model_node.py`, `live_common.py`) | the loaded signals, two ports | load, build, run, refresh, dispose | all of the above | two nodes overlap, a refresh fails, MySQL is away | the node that trades is the one operators reach; a plan sees all signals of its day |
| Broker data source | lazily built client | snapshots of ticks, positions, orders, trades | gateways | missing fields, two dialects | one normal form |
| Status server, exporter, DingTalk reporter, health poller | queue of messages, gauges | report, send, poll | HTTP | a full queue, a slow robot | never blocks or breaks trading |
| Dashboard (`web/`) | preset file | queries, proxy to the control server | MySQL, ClickHouse, node | - | read-only but for the control routes |
| Backtests, providers, result writers | rows of a run | batch | ClickHouse, MySQL | - | ledgers add up |
| Operations scripts (`scripts/`) | rows | copy reference data, report returns | ClickHouse, MySQL, DingTalk | reruns, overlaps, missing rows | a copy is one answer, whole; a return is what the account gained |

`PROJECT.json` lists the components with their files and status, and the hazards with
the line at which each bites and the properties that watch it.

## <a name="modules"></a>2. Modules, and how they correspond to the code

| Module | Role |
|---|---|
| `TargetExecutor` | the convergence engine on the node loop against a broker |
| `PositionWork` | what that engine promises about an account; `TargetExecutor` implements it |
| `TradingControl` | manual sells, pauses and refreshes on several threads over one lock |
| `PauseControl` | the two pause switches from HTTP handler to database and back |
| `DailyTarget` | who makes, stores, loads and applies the target of a day |
| `TickFetch` | the fetch worker, its callbacks, the export after the close |
| `TargetPlan` | what one plan contains: the request, the risk manager's answers, the safety plan |
| `SignalDay` | which day's signals the node loads and a plan is made from |
| `Trailing` | the stop-loss and the trailing take-profit of one stock over days and restarts |
| `LimitOrders` | slices, prices, cancels and escalation of one instrument's orders |
| `TradingDay`, `TradingWindow`, `PriceTrend` | the day's open, the hours in which a cycle runs, the trend that hastens orders |
| `AccountViews` | the account's value, as plans and the page read it |
| `Reconciliation` | requests for a mass status and the gate they open |
| `Recorder`, `Snapshots`, `TickExport` | the tables of orders and trades, of positions and assets, of the market's ticks |
| `PositionsView` | a row of the positions page |
| `NodeLifecycle` | nodes that are built, run and end on the same ports |
| `HealthPoll`, `LiveReports` | the poller; the exporter and the DingTalk reporter |
| `ReferenceSync`, `DailyReturns` | the scripts that copy reference data and report a day's returns |
| `MCTargetExecutor`, `MCTradingControl`, `MCDailyTarget`, `MCTickFetch` | instances of one module |
| `MCPlanning`, `MCLiveData`, `MCServices` | several components side by side, one to a behaviour |
| `TargetExecutor_proofs`, `TradingControl_proofs`, `TickFetch_proofs` | theorems about one module |
| `Planning_proofs`, `LiveData_proofs`, `Services_proofs` | theorems about the components of the three composites, and about `DailyTarget` and `PauseControl`, which two of them extend |
| `Ordering_proofs` | lemmas about `LimitOrders`: slices, prices, the orders on their way |
| `SumTheorems` | induction over numbers and finite sets, and what the sums of the community modules return |

**TargetExecutor.** Each handler of the strategy is one action, because the loop is one
thread: `UpdateTarget` is `update_target_quantities`, `Converge` is
`_converge_to_target` with everything a cycle calls (cancel of stale orders, intents,
clamp of sells, the cash walk over the buys, the judgement of achievement), `Fill`,
`CancelConfirmed`, `RejectInsufficientFunds`, `DenySellable` and `RejectOther` are the
order events with the clean-up each does. The broker is the other party: it accepts,
fills, cancels and rejects, and its holdings (`held`), cash (`vcash`) and sellable
shares (`avail`) are kept apart from what the strategy believes (`pos`, `cash`,
`canUse`), which changes only by events and reports. `mem` gathers the strategy's own
fields. A restart forgets `mem` and rebuilds `pos` from a cache that may lack fills,
until `MassStatus`; reconciliation then replays the denials of the day to it
(`DenialReplayed`). A cycle skips a buy that the splitter finds no legal quantity for, and
forgets its deferral (`NoLegalOrder`). One order stands for a wave; prices are constant; the hours of
the trading window, limit-price freezes by depth and the two pauses are left out
(pauses are in `TradingControl`); an instrument at its price limit or without a price is
a choice of the cycle.

**PositionWork** knows only `held` and `aim`, what a holding will be if all work under
way succeeds. Work starts only where there is none, aims at a target that was asked
for, and a holding then moves only towards its aim. The refinement maps `aim` to the
holding plus the signed leaves of the order.

**TradingControl** splits what `TargetExecutor` keeps in one action wherever another
thread can get in between: the three assignments of `update_target_quantities`
(`SetTargets`, `SetVersion`, `DiscardAchieved`), the entry of a cycle (`EnterOrdinary`
does not wait for the lock, `EnterForced` waits up to five seconds), its reading
(`Look`), sending (`Send`), judging and marking. A request thread runs `sell`: it reads
the book under the lock and releases it (`ReadBook`), then `Apply`, then the forced
cycle. The broker is reduced to work that ends. A pause, a freeze and a refresh are
atomic or small. A mass status may be taken while a sell has shares frozen: the history
`lowered` says in which entries of the sellable map, and `misread` which entries of the map
in force were read from such a figure.

**PauseControl** has one program counter per request: controller's flag, read back, the
gate, the suspend guard, the write of the row, the reply. Any two requests may overlap, on
one switch or on both. The history `crossed` keeps the switches that two requests were on at
once, until one has run alone or the node has started. `Restart` builds the flags from the
row, or from nothing when the database is down.

**DailyTarget** has a day with four times, `early`, `before` (09:27), `open`, `closed`.
The recorder's `_ensure_daily_target` is `Ensure`: load, else generate and write, else
the safety plan; the strategy's `_process_trading_day` is `Process`. The two kinds of
rows (`before_trading`, `continuous_trading`), the upsert by stock and the preference
among them are modelled as the SQL does them. Reads, writes, planning and the risk
manager may fail at each use. `processed` says what the strategy's last processing of the day
came to, `applied`, `frozen` or `unstored`: the code marks the date in each case. A safety
plan made before the first mass status, from a cache that differs from the account, is of
the kind `blind`. Execution of a map is one step.

**TickFetch** goes down to single accesses of shared attributes, because the done
callback runs on the worker (or on the requester, if the fetch is over when the
callback is registered) while requests run on the clock's thread: the two reads of the
overlap guard, the submission, the assignment, the registration; and in the callback
the reset of the attribute, the copy of the observers, the clear, and the hand-over to
the loop.

**TargetPlan** is one `compute_daily_target_plan`: the request is built from the holdings
of the moment, then the six posts with their pauses, in which holdings change, then the
checks of the answer (each failure is one choice of the answer) and the forced exits, or
the safety plan. The decisions that the docs name are operators of their own: what is
offered, what is frozen, what is forced. The risk manager answers anything, but for one
thing that is assumed of it: it leaves frozen rows as they were offered.

**SignalDay** has the calendar, the predictions that come in the evening of a trading day
or later, the loader's choice of the universe (`subscription_signal_date`), the filter of
all days by it, the start, the morning's refresh that may fail, and the plan.
`max_universe` is not set in any configuration of the live node and is left out.

**Trailing** keeps one stock with back-adjusted closes over five days, of which one may be
ex-rights: planning, trading, the closes that arrive or do not, the tracked position, its
update, its seed at a restart and the shadow decision. What a planning finds may fail by
itself: the start of the span, the dividends (without them the shadow's cost stays raw), the
average price (then the last close seeds the entry).

**LimitOrders** counts prices in ticks. `Split` is the splitter's algorithm, checked
against `MostTradable`, a reference that only says what legal orders can add up to. The
pricer, the ladder, the cap, the band of the day and the time-outs are the actions
`Send`, `Age` and `Timeout`.

**TradingDay**, **TradingWindow** and **PriceTrend** take the same quotes apart: which event
rolls the day and may set its open, events of any earlier day included, which roll it back
and drop the open; whether both clocks are inside their windows; which samples the trend is
computed from, ticks without a volume included, and how far trend and book together hasten
an order (`Severity`).

**AccountViews** has the broker's account (cash, frozen cash, unsettled cash, shares) and
the info of its last event, which lacks fields or has zeros. The two readers,
`_portfolio_value` and `_asset_payload`, are the operators `PortfolioValue` and
`PageTotal`. What the planner may invest of that value is not modelled (section 7).

**Reconciliation** splits `run()` at each read of `self._task`, since the callback of an
earlier request resets it on another thread; the coroutine runs on the loop and its
answer sets the sellable map. `AnswerHeard` is checked with `Overlap <- FALSE`: the
strategy's start, on the loop, is over before the clock's thread first calls `run()`.
With `Overlap = TRUE` the two interleave between the reads, the answer of a request may
go unheard, and TLC refutes the property; the code orders them by its schedule only.

**Recorder** is a day of two tables: events on the loop, the backfill after the close on
the clock's thread or as callbacks of a start; a write may fail. An answer that is no list
counts as an empty one, and a row without an id is skipped; neither is told as a failure, and
the history `left` keeps what was left out so. **Snapshots** is four
days of the snapshots before and after trading, the catch-up of starts, and the three
queries that read them back. **TickExport** has two processes and the one table they all
replace; a transaction is delete, insert, commit, and any step may fail.

**PositionsView** is one stock: fills, pending sells, mass statuses, the close of the day,
restarts that rebuild the cache, and `_open_row` and `_closed_row` as operators. A sell comes
as a fill at its price, or by reconciliation at cost, as `_closed_row` says of QMT; the
history `proceeds` keeps what it really brought.

**NodeLifecycle** has the stages of `main` and `build_target_model_node` in their order,
the two ports as shared resources, the pause writer, an outage of MySQL, and kills; the stop
of the control server is three steps, the port given up, the thread joined, the writer
closed. It assumes that both servers are enabled, as in the deployed configuration.

**HealthPoll** asks three services at three times, each of which changes; `Evaluate` is the
table of rules. **LiveReports** is the reporter's queue with its one worker, and the
exporter's gauges, set one by one, of which any may raise, while Prometheus reads. A raise
among the account's gauges (the first `Own`) ends the collection; one among those of the
strategy's health is swallowed (`HealthFails`).

**ReferenceSync** has jobs that overlap, batches in one transaction, row locks, and
ClickHouse's two-step change of a version. **DailyReturns** is the report of one stock of
one account, with rows that are missing or come later, asset snapshots whose market value
came as zero, and reports that are run again.

The three composites `MCPlanning`, `MCLiveData` and `MCServices` put components side by
side that share no variable: `part` says which one a behaviour is of, the others keep
still. They check the components one by one in a single run, so the states add up and do
not multiply. The bounds and the sets of every component are constants of the composite,
with one assumption that says what they must be (`PlanningAssumption`,
`LiveDataAssumption`, `ServicesAssumption`), so that what is proved of a composite holds
for all their values. What does interact is inside one module: the executor with broker and
account, the control threads with convergence, the recorder with strategy and database,
the loader with node and strategy, several nodes on their ports.

## <a name="runs"></a>3. Runs, bounds and what they show

All the bounds are CONSTANTS; each `.cfg` gives them.

| Run | Shows | Bounds |
|---|---|---|
| `executor` | no order carries a holding past its target; an achieved version is on target; buys fit the reported cash, with the older ones that no cancel is asked for; the engine implements `PositionWork` | two instruments, one to sell and one to buy with cash that does not cover it, three maps of which two share count and total (so their versions collide), cancels and racing fills, mass statuses at any time |
| `executor_restart` | orders are computed only from the position the broker really holds, through restarts and day changes | two maps, no cancels |
| `executor_live` | a buy the account can pay for is not left lying, and a sell the broker would accept is not left lying unless the day's latch was set | only sells time out or are cancelled: for buys see the finding |
| `executor_latched_buy` | finding | two buys, cash for one |
| `control_safe` | two request threads and the loop never sell more than is held or buy past a target; a sell-all never buys, but for names whose sellable shares it misread | two names, one held and both wanted, two sell-alls and the loop, no refresh, mass statuses at any time, the window and the lock's time-out; orders drop only in `control_live` (here they triple the states), the theorems cover them |
| `control_live` | a pause that stands ends ordinary trading; every request is answered | one name, one request, all buttons but sell-all, a refresh that brings the sold name back, sells of shares bought today that the broker rejects, weak and strong fairness |
| `control_dropped` | finding | one name, one request, a held and wanted share |
| `planning` | `DailyTarget`: one stored plan a day is followed, a safety plan keeps holdings, the day gets its target. `TargetPlan`: a suspended holding that has a price is kept, what a local exit leaves is not bought back. `Trailing`: a stop has a real fall behind it, no fall is missed, the shadow decision is the adjusted one where the dividends are there. `SignalDay`: a plan made from data of the day sees all the signals | two stocks, two plans and the empty one, two days, every failure, refresh before and after the open; two stocks with every set of conditions for one, two attempts; five days, two prices, one ex-rights day; four days with any set of trading days, two starts |
| `live_data` | `TickFetch`: whoever asks is told once. `Reconciliation`: a request ends once and an answer opens the gate. `TradingDay`: the full tick's open stays, until an event of an earlier day. `TradingWindow`: no cycle while the exchange is closed. `PriceTrend`: the trend, its confirmation and its weight are those of the whole window. `Recorder`: success means stored, skipped rows apart. `TickExport`: an export is whole. `Snapshots`: a span starts at its entry | two timers, an export, a prefetch; two changes of the account; three days, two restarts; two days, a lag of the venue's clock; five seconds of ticks; a buy and a sell, two starts; two processes, two instruments, a restart; four days |
| `services` | `PauseControl`: what is answered gates trading and survives restarts, once overlapping requests are over and one has run alone. `LimitOrders`: the split is the best there is, an unfilled order reaches the book. `PositionsView`: the day's profit is real. `AccountViews`: the account is read right. `NodeLifecycle`: who trades can be controlled. `HealthPoll`, `LiveReports`: silence, order and `qapp_exporter_up` are true. `ReferenceSync`: a copy is one job's. `DailyReturns`: a return is what was gained | two operators on any switch, a failing database; six shares, three sets of rules, four ladders, three cancels; two prices, two shares, two days, a restart; three shares; three nodes, an outage; three changes; three events, two rounds of gauges of the account and of the health; two jobs, two rows, two versions; two days, two trades of a share each |
| `tick_fetch_late` | finding | one timer, one export |
| `sizing_zero_value` | finding | three shares, one event |

Why the bounds suffice: every hazard in `PROJECT.json` needs at most two instruments
(one whose event changes what another may do), two requests (one to overtake the
other), two plans, two days (one to leave something for the next); a third day or node is
there where something has to be passed over (the day before yesterday's rows, the node
that still ends). Shares are counted in ones and twos because a partial fill needs two;
`LimitOrders`, whose subject is lots, counts six. The
theorems of section 6 remove the bounds for the safety properties, but for the few that
section 7 lists.

Executions may stop in `TargetExecutor` (all targets reached), in the composites (the
last day, event or request of a component has come) and in the small instances of `TradingControl` without a refresh; there
the configurations switch the deadlock check off.

Some properties hold only under a condition that the code does not ensure. They are
stated in the modules beside the ones that hold, and the following configurations show
the counterexamples; each can be run with `tlc -config X.cfg M`:

| Configuration | Refutes | Because |
|---|---|---|
| `MCExecutorLateFill` | `NeverOvershoots` | a fill that reaches the loop later than the cycle its cancel schedules is bought again |
| `MCControlTwoSells` | `SellKeepsOthers` | a sell applies a copy of the map that another sell has changed since |
| `MCControlFrozen` | `SellNotClobbered` | a refresh past the freeze check overwrites the sell |
| `MCControlSellAll` | `SellAllNeverBuysAtAll` | sellable shares of a mass status taken while a sell froze them |
| `MCPauseTwo` (with `PauseControl`) | `PauseSurvivesAlways` | two requests on one switch set the flag in one order and the row in the other |
| `MCDailySafety` | `BlindKeepsHoldings` | a safety plan made from a cache the first mass status has not corrected |

Other invariants of this kind have no configuration of their own; name one in the
configuration of the composite, or in one for its module, to see it fail: `NoOverlap`
(`TickFetch`), `FinalIsPostClose` (`TickFetch`: a fetch asked for before the close and
delivered after it counts as final; name it in `MCTickFetchLate.cfg`), `PlanIsWhole`
(`DailyTarget`: after a failed read, a second plan is merged into the rows of the first;
`MCDailySafety.cfg` with `"load"` as the failure), `PendingBuysReserved` (`TargetExecutor`: a
buy whose cancel is asked for reserves no cash, though it may still fill; `MCTargetExecutor.cfg`),
`SellableIsSold` (`TargetExecutor`: a sell whose quantity was clamped and then timed out is not
retried that day; `MCExecutorLive.cfg`), `PausedSellRuns` (`TradingControl`: the one forced cycle skips a
name that has an order at work; `MCControlDropped.cfg` with `FairSpec`, `WantTwo` and
`SellAndPause`), `SuspendedExcluded` (`TargetPlan`: a suspended holding is frozen, not
unwound), `BoughtMeanwhileNamed` (`TargetPlan`: what is bought while the risk manager is asked
is in no plan, and so is sold), `TakeProfitOfThisSpan` and `ShadowAlwaysAdjusted` (`Trailing`:
dividends that could not be loaded leave the raw cost), `OpenNeverDropped` (a late event of
an earlier day drops the open), `AuthoritativeIsTrue` and `SizedOnToday` (`TradingDay`), `DepthConverges`
(`TradingWindow`), `SuccessMeansWhole` (`Recorder`: rows without an id, and an answer that is no list, are told as
a success), `PricesKept` (`TickExport`), `SpanStartAlways` and `BoughtTodaySeeded`
(`Snapshots`), `DayPnlAlways` and `CarriedPnlIsReal` (`PositionsView`: a
sell that was reconciled at cost shows no profit), `UpMeansAllFresh` (`LiveReports`: the
gauges of the strategy's health may be older), `EmptyReportReplaces` and `NewestMapWins`
(`Reconciliation`), `MissingIsNotReported` and `SummaryAlwaysReal` (`DailyReturns`: a snapshot
whose market value came as zero makes the summary of its day, and of the next, wrong).

## <a name="findings"></a>4. Disagreements between the code and what is said about it

Four runs are expected to end in a violation; `PROJECT.json` quotes the lines.

* **`control_dropped`**, `ForcedSellRuns`. The cycle on the loop judges its old map
  achieved and then adds `self._target_version`, which the server's thread has changed
  to the manual sell's version meanwhile (`TQ` 2095-2096 and 1403-1410; the assignment
  is not under the lock). The forced cycle finds the version achieved and sends
  nothing. The comment at `TQ` 1957 says a forced convergence must not be dropped.
* **`executor_latched_buy`**, `NoStarvedBuy`. The insufficient-funds latch is released
  by a fill of the same instrument, a sell fill or a new map, and not when cash comes
  back from a cancelled buy. The log line at `TQ` 1896 promises a retry after cash
  changes.
* **`tick_fetch_late`**, `CompletionReported`. An export that finds a fetch running
  appends itself to the observers; if the callback has copied and cleared them, nobody
  calls it back.
* **`sizing_zero_value`**, `SizedOnTotalAsset`. The total is rebuilt from the components
  of the account event, and a `market_value` of 0 counts as a value: the day is then
  sized on the cash alone. The comment at `TQ` 3157 says that the rebuilt total matches
  the invariant of the broker's client; the control server says of the same field that
  it can arrive as about 0, and rebuilds it from the positions.

Further disagreements were met and have no run:

* `scripts/calculate_daily_returns.py` says at its head that a missing snapshot "is not
  silently reported as P&L". The two counts of unchanged shares are compared only if
  both rows are there (`MissingIsNotReported`). Its table is called idempotent; a row of
  a type that a second run does not have stays from the first. `STAMP_TAX_RATE` is
  0.00005 with the comment "万 5", which is 0.0005, the rate that
  `calculate_live_trade_costs_slippage.py` uses.
* `TQ` 1714 says that the first depth of the day converges immediately. The depth is
  judged by its own time and uses up the flag; the cycle is judged by the last quote's
  time and may be refused (`DepthConverges`).
* `TQ` 1480 says that later intraday bars must not clobber the day's open. A bar or a depth
  of an earlier day that comes late rolls the day back, and the next event of today rolls it
  again: each forgets the open, until the next full tick (`OpenNeverDropped`).
* `control_server.py` 531-533 says that a sell reconciled from QMT has an `avg_px_close` equal
  to its `avg_px_open`; the page's profit of such a row, and what the day's sells brought, is
  then that of a sale at cost (`CarriedPnlIsReal`).
* `qapp_exporter_up` is documented as "1 if the last metrics collection succeeded";
  `monitoring.py` 180-185 swallows a failure of the strategy's health gauges, which then
  stay as they were (`UpMeansAllFresh`).
* `SR` says that QMT is authoritative after the close and reports the backfill a success, also
  when rows without an id were skipped or the answer was no list (`SuccessMeansWhole`).
* `MPT` says that suspended holdings are excluded so that the optimizer unwinds them; a
  suspended holding that has a price is offered as frozen (`SuspendedExcluded`).
* `_target_model_node.py` says that a taken control port must not kill trading, and
  tolerates it; the status server's port, taken first, ends the build with an error. That
  is what makes `TradesUnderControl` true.
* `_target_model_node.py` lets a node trade without its control writer when MySQL is
  away; the recorder's writer, made in the same build, raises.

## <a name="fairness"></a>5. Fairness

Fairness is given to what the code or the broker does by itself, never to operators,
planners, failures or restarts.

* `TargetExecutor`: weak fairness of a cycle (a periodic timer calls it), of account
  reports (periodic), of the first mass status (requested until it succeeds), and of the
  broker's answer to each order and delivery of a fill it has made. A fill itself is not
  fair: an order may rest until it times out.
* `TradingControl`: weak fairness of each thread's next step, strong fairness of taking
  the lock, which `threading.Lock` gives a waiter in practice: its wait is bounded by
  five seconds, and holders release it after a cycle.
* `DailyTarget`: weak fairness of the before-trading timer, strong fairness of a
  processing that succeeds: a failing query is retried by a timer each minute, and the
  property says nothing of a database that is down for ever.

* `LimitOrders`: weak fairness of sending, of time passing and of the time-out, which
  periodic timers drive; a fill is not fair, so an order may rest for ever.

The other modules state no liveness; where something has to happen ("is told", "ends")
it is said as what holds once everything is quiet.

## <a name="proofs"></a>6. What is proved

TLAPS checks these theorems for every set of instruments, prices, maps, threads, nodes,
days and so on, from the assumptions named in the modules (constants have their types,
finite sets are finite). Where a theorem has an assumption of its own, it is one that the
passing runs make as well, and a configuration of section 3 refutes the property without
it, or the text says what does. Where the code does less than a property would like, the
exception is in the property, as a history variable or a named outcome, and not in an
assumption; section 3 names what is false without it.

| Assumption | Says | Without it |
|---|---|---|
| `RacingFillQueued` | a fill that races a cancel is queued right behind its confirmation | `MCExecutorLateFill` |
| `OneClock` | all callbacks of the clock come from one thread, as Nautilus' live clock has it | two requests can pass the guard before either has assigned its future, and a fetch is then lost to the guard |

### Execution

* **`ExecutorSafe`** (`TargetExecutor_proofs`): under `RacingFillQueued`,
  `Spec => [](TypeOK /\ NeverOvershoots)`. `NeverOvershoots` is not
  inductive: an order is sized from the cache (`pos`), and the property speaks of the
  broker's books (`held`). The invariant adds `CacheFollowsBroker`: once reconciled,
  the two differ exactly by the fills waiting in the event queue. A cycle runs only when
  reconciled and with no fill waiting, so it sees the true position
  (`ReadyMeansAligned`), and what it sends ends on its goal (`CycleOrders`,
  `SellQuantityBound`). Each event then keeps the distance or shortens it.
  **`ExecutorSeesRealPosition`**, the action property, follows from the same invariant.
* **`ExecutorBuysWithinCash`**: under `RacingFillQueued`, `Spec => BuysWithinCash`. The walk
  takes its candidates in an order and tests each against what the older orders, the earlier
  candidates that were taken and it itself would ask for. The buys sent are therefore
  bounded, together with the older buys that no cancel is asked for (`_open_buy_order_notional`
counts no others; `PendingBuysReserved` is refuted), by the test of the last of them (`LastBuy`, which needs that the order is strict),
  at which the sum of the others was already in (`CycleWithinCash`); the sums are over sets
  of any size (`CostIsSum`, `ReservedIsSum`, `SumTheorems`). Prices are positive, because a
  pricer returns none that is not (`_positive`).
* **`AchievedMeansHeld`**: `[]AchievedIsOnTarget`. The property survives because an
  achieved version is at rest: the invariant `AchievedAtRest` adds that nothing is at work
  and no fill is waiting in any instrument, so that no event can move a holding until
  another target comes. Versions are made of count and total and may collide; a new map's
  version is discarded from the achieved ones as the map is taken over, and a cycle marks it
  only when it has seen the map reached (`CycleMarks`).
* **`ExecutorRefinesWork`**: `Spec => ImplementsPositionWork`. With `aim` mapped to the
  holding plus the signed leaves of the order, each action of the engine is a start, a
  step towards the aim, an end of work, or a stutter of `PositionWork`. The step that
  sends is the hard one: it needs that the goal is one of a target that was given
  (`TargetsWereGiven`), and that what is sent ends on it.
* **`ControlSafe`** (`TradingControl_proofs`): `Spec => [](TypeOK /\ WithinBooks)`. The
  invariant adds that a thread in a cycle or reading the book holds the lock
  (`LockDiscipline`), that a plan decided and not yet sent still fits the book
  (`PlansFit`: nothing is at work where it would trade) and that shares bought today are
  still held (`BoughtIsHeld`). Fills and cancels only release work, so they keep plans
  fitting; other cycles cannot start while the lock is held.
* **`SellAllSafe`**: `Spec => SellAllNeverBuys`, mass statuses taken during a sell included. A
  sell-all leaves of each holding what may not be sold today. The invariant says that this is
  at most what was bought today, in the map in force, in the maps that threads still carry,
  and in the reports, but for the names that were read while the map lacked frozen shares
  (`SellAllInv`); so a cycle of such a map has nothing to buy of the others.

### The day

* **`DaySafe`** (`Planning_proofs`): `Spec => [](TypeOK /\ InForceIsStored /\
  OneFrozenPlan)`, whatever fails and however often the node restarts. The invariant
  replaces `OneFrozenPlan` by `FollowedIsStored`: on a day without an excuse, every map
  that was followed is the stored one and not empty. So while nothing is stored nothing
  was followed, and once something is stored nothing new is made: `Settled` says what a
  decision of the recorder or of the strategy may do, and each way to decide is shown to
  do that.
* **`SafetySafe`**: `Spec => []SafetyKeepsHoldings`, whatever the cache shows at a start. Once
  reconciled the cache is the account; a safety plan in force was made of a cache that was
  (the others are `blind`, and `BlindKeepsHoldings` is refuted), and under it trading finds no
  difference but a forced exit.
* **`LocalRulesAreKept`**: `PartsSpec => []LocalRulesHold`. A suspended holding with a price
  is frozen and no exit, and as it cannot be traded it is the same when the call ends as when
  the request was built; so the safety plan keeps it, and an answer does because the risk
  manager leaves frozen rows as they are, which is assumed of it (`Answers`). What a forced
  exit leaves is written last where the exits are authoritative, and by the safety plan
  (`SuspendedOffered`, `SafetyEnds`, `FullEnds`).
* **`SignalsAreAllSeen`**: `PartsSpec => []PlanSeesAllSignals`. The universe is that of
  one day, and the signals of every other day are filtered by it; the invariant
  `LoadIsWhole` says that a load of today has all the signals of the trading day before, or
  none of them. If that day has been predicted, the choice of the universe falls on it
  (`UniverseIsOfNeeded`); if it is predicted after the load, the plan finds it missing and
  is degraded.
* **`StopsTellTheTruth`**: `PartsSpec => []StopsAreTrue`, over any number of days and any
  even prices (an ex-event halves them, so that the model's division is exact). The
  invariant `TracksHolding` says that what the process tracks, if it was made of the
  present holding, has its cost, and a mark that is the cost or a close the holding saw;
  `PlanIsOfPosition` ties the plan of the day to it. Seeds from the last close are told apart
  by the history `seedOf`. With the start of the span the mark
  is then the peak of the span (`MarkIsPeak`), and the three claims are arithmetic; the
  shadow decision goes by cases of where the ex-event lies.

### What comes in and is written down

* **`FetchHeard`** (`TickFetch_proofs`) and **`FetchIsHeard`** (the same of the instance of
  `MCLiveData`): under `OneClock`, who asks for a full tick is told at most once, is told
  unless it joined after the observers were copied, and the guard opens again. The fetch of
  the request that is being made is the last in the executor's queue (`LastInQueue`), so
  two done callbacks do not overlap, although one of them may run on the requester's
  thread; a request then waits in one place at most, the observers, a callback's copy, its
  own fetch or what is handed to the loop (`ObserversWait`, `TakenWait`, `PostedWait`), and
  in one at least until it is told (`Hope`).
* **`ReconIsAnswered`** (`LiveData_proofs`): `[]AnswerHeard`. A request that has left
  `run()` has ended or has one callback that will end it (`EndsOnce`), on its own future or
  on a later one that it read from `self._task`; until its own callback has run, the answer
  may find the gate shut, and not after (`GateFollows`).
* **`OpenIsKept`**, **`CyclesWhileOpen`**: the full tick that brings the open rolls the day
  and claims the authority in one step (`OpenIsTicked`), and only an event of an earlier day,
  which the history `ticked` records, takes it back; a quote of today's session that is
  the session of the local clock too pins the exchange's clock between the two, for any lag
  (the venue's clock is not ahead).
* **`TrendIsWhole`**: `PartsSpec => []TrendIsOfWindow`. Every second with a tick is kept, or
  lies before a first sample that is as old as the window (`NoneIsLost`); so the first
  sample is the window's far end (`FarEnd`), the seconds with a tick from there on are those
  of the samples (`TimesAreSampled`), and the second before that of a sample is that of the
  sample before (`SampleBefore`). The return is then that of all ticks, and the volume
  confirmation, a sum over neighbouring samples of which both have a volume, is term by term
  the sum over the history (`SumImage`); what is made of both for either side follows.
* **`SuccessIsStored`**: a backfill's list that is about to be written is what the broker
  holds (`ViewIsTruth`), and once it has been written only an event still to come leaves a
  row behind (`Stored`), or a row the backfill skipped or did not see (`left`); nothing is ever
  ahead of the broker (`NeverAhead`).
* **`ExportsAreWhole`**: rows that are in the current schema stay in it (`ExportRowsOnlyGain`),
  and counting is enough (`ExportCurrentIsWhole`): the summary counts rows of the snapshot's own
  instruments, so as many rows as instruments are all of them.
* **`SpansStartAtEntry`**: the query takes the latest day with a row of the close and none of
  the morning. The day of entry has no row of the morning, whatever came late or failed
  (`EntryHasNoMorning`), and today's rows tell nothing that has not been (`TodaysRows`).
* **`TypesKept`**, **`PlanningTypes`**: the type invariants of all components of the two
  composites.

### What serves the operators

* **`SwitchesSafe`** (of `PauseControl`) and **`SwitchesKeepTheirWord`** (of `MCServices`),
  both in `Services_proofs`:
  `Spec => [](TypeOK /\ AnswerHolds /\ PauseSurvives /\ CopiesAgree)`, for requests that
  overlap as they like. The three promises speak of switches that are quiet and on which the
  last request to begin was alone (`Settled`); the invariant adds what a request that runs
  alone has brought to its value so far (`Brought`), which no other undoes (`InPlace`).
* **`ValueIsRead`**: `[]AccountIsRead`. Worth is kept by every order,
  fill and settlement, and an event tells its parts together (`ToldTogether`), so that
  parts that are there add up to it, however stale they are by now.
* **`NodesUnderControl`**: for any number of nodes, `[]TradesUnderControl`. A taken control
  port is tolerated, so the property rests on the other port: the invariant adds that a node
  holds the status port from its start to the stop of the control server and beyond
  (`HoldsStatus`), and that the control port is held by exactly the node that is built
  (`HoldsControl`). So a node that has come to its control server finds the port free
  (`ControlPortIsFree`).
* **`ReportsTellTheTruth`**: `[]ReportsAreTrue`. The poller has seen of each service what
  the service said (`SeenIsTold`); the queue holds the last messages in their order, and
  all before the one in the worker's hand have come to their end (`OneAfterAnother`); the
  account's gauges behind the next one are of this collection (`GaugesFollow`), and those of
  the health are not claimed.
* **`SyncsAreWhole`**: `[]SyncIsWhole`. The job that committed last has read what it will
  read, and nobody has put a row over its own (`LastStands`): row locks let no other commit
  fall between.
* **`ProfitsAreReal`**: `[]ProfitIsReal`. Of a row of the page: what the sellable map tells
  of yesterday's shares, with those in the pending sell, is neither more than was there nor,
  while no cancelled sell was left out, less than is still there (`SellableIsCarried`); a
  position made today has the average price that was paid (`CostIsPaid`, for prices that
  every number of shares divides, so that the model's division is exact); the peak of a
  position that was only sold is what is left and what was sold (`PeakIsHeld`). A sell
  that was reconciled at cost is excepted (`DayPnlIsReal` asks that the books of the sells are
  their proceeds). Of a
  report: the rows are true or missing (`RowsAreReal`), so that with the trades they tell
  the shares kept, and the returns add up to the gain (`TotalIsGain`); a row that an earlier
  report has left can only stay if nothing was traded, and was right then
  (`ReportsAreOfToday`). The summary by asset snapshots is claimed of snapshots that are whole.
* **`SplitsAreBest`**: `PartsSpec => []SplitIsBest`, for every book, price limit, quantity and
  every set of rules that `from_instrument` accepts (`OrderingAssumption`: increment and
  minimum are positive, the maximum is no less than the minimum, both are multiples of the
  increment; and the day's limits are prices). The splitter is followed case by case (`SplitCases`): one slice, none,
  full slices, full slices and a remainder. Where there is a remainder too small to trade,
  the full slices give it what it lacks (`ToppedUp`), in whole increments and without going
  below the minimum, if together they have that much to give; if they have not, no other way
  to cut would have, and the remainder is left out (`DividedIsBest`). What can be traded at
  all is the reference definition, `MostTradable`, which knows nothing of the algorithm
  (`NothingTradable`, `EverythingTradable`, `FullsTradable`).
* **`TypesHold`**: `PartsSpec => []TypesOK`, for the nine components of `MCServices`. What of
  it is more than a type is about the orders (`OrderingInv`): slices are sent only while
  nothing is on its way and add up to what is wanted or less (`SplitBest` again), a fill
  takes from both sides alike, so what is on its way never exceeds what is wanted; and the
  cancels made and those that may still come are counted against one budget
  (`CancelsCounted`). Prices stay positive through every pricer (`PriceIsPositive`).

Induction over data. The library's induction theorems take an operator as a parameter, which
the provers cannot instantiate, so `SumTheorems` states induction over the numbers
(`NatInductive`) and over the subsets of a finite set (`SubsetInductive`) for a set in the
operator's place, and derives both from the well-foundedness of `<` and the existence of
minimal elements (`WFMin`). From these it follows that a sum of the community modules, which
takes a set apart one chosen element at a time, does not depend on the choice (`SumUnique`,
`SumRemove`), and how it behaves under adding, joining, comparing and renaming. Sequences that
are computed recursively, the partial sums of slices for one, are treated in the same way
(`SumOfIs`).

A composite's theorem is the component's invariant, kept by the steps of its part
(`PartSteps`) and untouched by those of the others. The invariants were first checked by TLC
on the instances above.

## <a name="limits"></a>7. What is only model-checked, and what is not modelled

Checked by TLC on the instances of section 3, and not proved:

* Liveness: `NoStarvedBuy`, `NoForgottenSell`, `PauseStopsTrading`, `RequestsEnd`,
  `DayGetsTarget`, `ReachesBook`. They are the only properties of passing runs without a
  theorem. TLAPS proves neither liveness under fairness nor anything with `ENABLED`.
* The four properties of section 4 are refuted, so there is nothing to prove.

What the modules assume of the world: no corporate action between a close and the next
open in `DailyReturns` and `PositionsView` (in `Trailing` there is one); no transfers of
cash; the risk manager leaves frozen rows as offered; predictions come in the evening; one node to an account, but for the overlap of
`NodeLifecycle` and the processes of `TickExport`; QMT's lists are what the broker holds.

Not modelled: wording, logging and layout; the dashboard, which reads and draws, and the
SQL of its reports; argument parsing; the gateways' wire formats and the field-by-field
normalisation of their rows; the backtest runners, writers and sample strategies, which
are sequential batch programs; the report of costs and slippage; the tick snapshots for
ClickHouse. What is invested of the portfolio's value is not modelled: the buffer, one account's sizing on
its holdings' value, and the floor at that value (`MPT` 974-986). In `TargetExecutor` prices
are constant and a wave is one order. Nautilus is external: its cache, clock and execution
engine are modelled from how the code uses them.

## <a name="plan"></a>8. Plan

Done: the modules of section 2, those of planning and execution first, then what is
written down, what serves the operators, and the scripts around them.

Next:

1. `TargetExecutor` with `LimitOrders` in one instance, so that slices of a wave and
   racing cancels meet.
2. The report of costs and slippage; the cash ledger of the backtest runner; the tick
   snapshots for ClickHouse.
3. The broker data source's two dialects, as far as missing fields change decisions.
