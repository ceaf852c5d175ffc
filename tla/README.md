# crypto-ai-trader in TLA+

crypto-ai-trader is a single-user trading system: a supervisor process ingests candles and
runs a trading loop that paper-trades, a FastAPI process shows the state and changes two
control rows, and both meet only in one SQL database. These modules model the parts of it
where a mistake needs several steps, often of several actors, to show; TLC checks them on
small instances and TLAPS proves the main results for every value of the constants.
Source paths below are relative to `src/trading/`.

## 1. The system

| Component | State it keeps | Operations | Hard behaviour |
|---|---|---|---|
| Control plane (`dashboard_api/routes_runtime.py`, `runtime/mode.py`, `risk/pre_flight.py`) | rows `trade_mode`, `live_trading_lock`; audit events | `set_mode`, `set_live_lock`, dry runs | handlers in threads, mode and lock read in separate sessions, commit before audit, killed API |
| Execution gate (`execution/gate.py`) | none | `decide` | agreement of gate, transition guard, pre-flight and release gate |
| Trading loop (`runtime/runner.py`, `runtime/paper_cycle.py`, `execution/paper_executor.py`) | orders, fills, events; the account is rebuilt from the fills | `run_once`, one cycle per symbol | one snapshot for all symbols, separate commits, crashes, midnight, operators in between |
| Risk engine (`risk/`) | `day_baseline_set` event | tiers, daily loss, pre-trade limits, sizing | edges of tiers, two readers of one baseline |
| Supervisor (`runtime/supervisor.py`) | stop event, restart counts, exceptions | two loops, retries, Ctrl+C | five threads, shutdown order |
| Heartbeat monitor (same file) | heartbeat and alert events; a flag in memory | beat, check, alert, recover | sampling of a clock, hangs, restarts |
| Live executor (`execution/live_executor.py`) | exchange-info cache; the book of the exchange | place, query, retry | lost, late and duplicated requests |
| Ingestion (`market_data/`) | candles | fetch, upsert, `data_ingested` | a session that stays broken, two ingesters, which candle a reader gets |
| Portfolio accounting (`portfolio/accounting.py`, and again in the status and the analytics) | none: it is rebuilt from the fills | apply a fill, equity, profit | three rebuilds of one account, additions to open positions, rounding |
| Reconciliation (`runtime/reconciliation.py`) | none | compare | its other side is a mock |
| Notifications and deduplication (`notifications/`) | a window per key, in memory | `should_notify`, `notify` | stale clock readings, silence that is too long |
| Exit engine (`strategies/exits.py`) | none | target, time, stop | positions that are added to |
| Strategy, features, AI scoring, Binance filters | none | verdicts | numerical or external |
| Dashboard reads and UI, CLI, scripts | none | formatting | the release gate and the status flags are logic |

Interactions: the API writes the two rows and reads everything; the trading loop reads the
mode at the start of each cycle and the lock at the gate; the supervisor starts the loops
and records events; the status derives its flags from the newest 500 events. There is no
message between processes: every hazard is a stale read, an order of commits or a thread
that does not notice another one's end.

What makes each correct: nothing persists `live_small_auto` and an acknowledged change was
in force (control plane); a stop stops, limits hold, the account always rebuilds, positions
are looked at again (trading); a deep loss stops entries whatever the tier (risk); restarts
are bounded, the call does not return while a loop trades, failures and Ctrl+C end it
(supervisor); alerts follow heartbeats and none is false (monitor); confirmations are true and an
intent is ordered twice only where an answer hid the first order (executor); an alert that is raised is sent and silence ends
(notifications); what is reported as ingested is stored and every symbol catches up
(ingestion); the readers agree on the account, exits are taken and exposure is bounded
(accounting and exits).

## 2. Modules

| Module | Models | Correspondence |
|---|---|---|
| `ExecutionPolicy` | gate, transition guard, pre-flight, release gate verdict | one operator per function, no state |
| `ControlRows` | the contract of the two rows (abstract) | `RowsNext` is an atomic write of a reachable value |
| `ControlPlane` | `set_mode`, `set_live_lock` | `pc[r]` is the statement of request r's handler; one action per session or commit; `Fail`, `Crash` |
| `RiskPolicy` | tiers, loss classes, pre-trade limits | integers: cents and tenths of a percent, products instead of quotients |
| `DailyRisk` | a day of iterations against the baseline, and the status' reading | `Iterate` is the baseline and risk stage of one `run_once`; `Market` moves the equity |
| `TradingCycle` | the trading thread | `iter` is the snapshot of `_build_cycle_inputs`, `cyc` the running cycle; one action per commit |
| `Supervision` | what `run_supervisor` promises its caller (abstract) | `alive`, `failed`, `outcome` |
| `Supervisor` | the five threads | `worker`, `helper`, `main` are program counters |
| `HeartbeatMonitor` | heartbeat and monitor thread over a clock | `hbWait`, `moWait` run until the thread's next statement ends: one `Period` of `stop.wait` and up to `Delay` for the statement |
| `AlertDelivery` | what the monitor sends to the operator | `HeartbeatMonitor` with the deduplicator's window of each alert and a notifier that may fail |
| `AlertDedup` | `should_notify` with any threads as its callers | `Ask` reads the clock, `Suppress` and `Admit` are the body under the lock; instants are relative to the present |
| `MarketData` | ingestion passes, the candles table and its readers | `pass[p]` is the `ingest_once` of ingester p with its session: `pending` rows, `broken`; one action per fetch, SELECTs, commit, event |
| `PaperAccount` | the iterations of the trading loop in money, the three rebuilds of the account, reconciliation | `fills` is the table, `iteration` the snapshot of `_build_cycle_inputs`; one action per cycle outcome; `Rebuilt` takes the three readers through the rows side by side |
| `LiveOrder` | `_place_market_order`, its query and its callers' retries | `phase` is the stage of the call, `book[i]` the orders the exchange took under the intent's `clientOrderId` |
| `MC*` | instances for TLC | request sets, limits, equities |
| `*_proofs` | theorems | each EXTENDS the module it is about; `Supervisor_proofs` also has those of `AlertDedup`, whose callers are the supervisor's threads (its `DedupSpec`, `DedupTypeOK` and so on are named apart for that) |

Composition: `ControlPlane` implements `ControlRows` (property `Contract`, theorem
`HandlersKeepContract`), and `TradingCycle` runs its operators as steps of that same contract
instead of the handlers; the gate and the limits it consults are `ExecutionPolicy` and
`RiskPolicy`. `Supervisor` implements `Supervision` under a refinement mapping. The
supervisor reduces the loops to when they end; the trading loop in turn may be aborted at
any step. `HeartbeatMonitor` takes the supervisor's helper threads and adds the clock that
`Supervisor` leaves out; `AlertDelivery` adds to it the notifications, and its behaviours are
behaviours of `HeartbeatMonitor` (theorem `DeliveryObserves`). `PaperAccount` and
`TradingCycle` model the same iterations: one the money and the prices, the other the mode,
the lock, the counters and every commit. `RiskPolicy` gives `PaperAccount` its limits.

### Abstractions worth knowing

* `ControlPlane`: the handler's session reads are separate steps because the ORM holds clean
  rows weakly and SELECTs again; a flush whose value did not change emits no UPDATE
  (`ElideCommit`). What pre-flight reads outside the rows (keys, yaml, symbol, risk state) is
  free. Requests are posted once each. The rows start with whatever an earlier process left,
  except `live_small_auto`, which no handler can persist.
* `TradingCycle`: prices, cash and scores are free choices of `ExitScan` and `Screen`; a BUY is
  one lot and an exit sells the whole position, as the exit rules do. An order's day is that of
  its iteration's `now`; snapshot and mode are locals that end with it (`LeaveIteration`). Only commits that a property reads are steps. Quantities are exact: the
  rounding of `Decimal` is not modelled. `aware` says whether the database returns time zones, one
  of `Backends`. SQLite, the default and the only backend with a driver among the dependencies,
  does not: every iteration after the first order raises before its first cycle (`TradingSqlite`).
  The passing runs check both kinds; what they show beyond one iteration with orders is about the
  program on a database that keeps time zones. `PositionsScanned` says so in its formula.
* `Supervisor`: audit records whose failure the code swallows belong to the step they follow;
  `thread.start` does not fail. `bounded` says whether `max_cycles` was given.
* `HeartbeatMonitor`: `stop.wait(60)` begins after the statement, so two statements of a thread are
  further apart than its period and the two threads drift against each other; a statement takes 0 to
  `Delay` ticks. A heartbeat bears the time of its flush and is visible from its commit on. Only
  a heartbeat's statement may hang (the monitor's own hang is left out). The 500-event window is
  `ScrollOut`, at any time.
* `LiveOrder`: the exchange is external: it may refuse anything, refuses a `clientOrderId` while an
  earlier order that bears it is open, as Binance documents, and may take it again once that one is
  closed, which a market order soon is. All calls for an intent send one id (`attempt=1`,
  `live_executor.py:335`), so the intent stands for the id. Caller behaviour (retry when `retriable`)
  follows the field's docstring, because nothing in the runtime calls the executor yet.
* `AlertDelivery`: the monitor's thread alone uses the two heartbeat keys, so the dictionary is a
  window per key; the error alerts of the loops have other keys (`AlertDedup` has several).
* `AlertDedup`: `datetime.now` does not run backwards; a caller waits for its lock at most `MaxLag`
  ticks after it has read the clock. `should_notify_with_key` is the same body without callers.
* `MarketData`: one timeframe, time in its periods; the newest candle of a fetch is unfinished. A
  process that is killed leaves nothing of its session. Data quality reports have no caller.
* `PaperAccount`: whole cents and units; a position keeps its cost instead of an average price, so
  nothing is rounded by a division that the code does not round. The strategy, the AI, the daily
  counters and the stop distance are free: any entry within the limits and the caps of the
  sizing may come. Slippage is 0 and the fee 10 bps, as `run_once` has them by default. No
  fill sets `stop_reference` (`portfolio/accounting.py:15`), so the hard stop never triggers.
  `Stored` is what the quantity column gives back: exact up to `Precise`. The regular run is
  exact; a rounding column is one of the further configurations.
* `DailyRisk`: total equity moves freely over the given set, `MaxDay` days; the first
  equity is the initial cash, as an empty fills table makes it.

## 3. Runs

Passing runs (all with the type invariant of their module):

| Run | Shows | Bounds and why they are enough |
|---|---|---|
| `ControlPlaneRace` | `NeverLiveSmallAuto`, `AckedChangeWasInForce`, `Contract`, `EveryRequestAnswered` | four requests, two in flight: both rows are written, one mode change races another, one handler holds a stale pair while the lock changes; 66 thousand states |
| `ControlPlaneFaults` | `NoTraceOfRefusals`, `AuditTrailExplainsRows` | four requests one at a time, a dry run among them; each statement may fail, the API may die; 351 thousand states. The audit trail is only claimed for serial, faultless requests, so `MaxInFlight` is 1 |
| `TradingCycle` | `NeverOversold`, `StopsAreEffective`, `DailyLimitsHold`, `OrdersAnnounced`, `PositionsScanned` | two symbols (a snapshot shared by a first and a later one), limits of 1 so that one iteration reaches them, a midnight or a fault anywhere (`MaxTroubles` = 1; the invariants were also checked with 2, so both in one behaviour, 1.4 million states, and are theorems for any number), operators and the market unconstrained, databases with and without time zones; of `PositionsScanned` on SQLite the run shows only that an open position is scanned or the account is frozen. 509 thousand states |
| `Supervisor` | `RestartBudget`, `ImplementsSupervision`, `FailureEndsTheCall`, `BoundedCallEnds`, `InterruptEndsTheProcess` | the real two loops and the default three restarts, two Ctrl+C: one caught, one while the first is handled; 12 thousand states |
| `AlertDelivery` | `AlertFollowsHeartbeat`, `NoFalseAlert`, `RaisedAlertsAreSent` | the real 60/120/60 seconds and the window of 300 in ticks of 20, and statements that take up to one tick, so the threads meet in every phase and drift; ages beyond 200 s are one class, further than any threshold; events and notifications may fail; 2.5 million states |
| `AlertDedup` | `SpacedDeliveries`, `SilenceIsBounded` | two threads, two keys of one type (so that a key that is too coarse shows), a window of three ticks and readings one tick old: an expiry falls before, at and after a call; 14 thousand states |
| `MarketData` | `ReportedIsStored`, `CatchesUp` | two symbols (one before and one after a failure in a pass), fetches of two candles over four periods (so a candle is fetched unfinished and finished, and leaves the fetch), the supervisor's ingestion and a pass by hand, one fault anywhere; 439 thousand states |
| `PaperAccount` | `AccountsAgree`, `ExitsAreTaken`, `ExposureBounded` | two symbols (so the second cycle works on a snapshot that the first has left behind), two prices across the 5 per cent target, small and large entries around the 30 per cent cap of 500 USDT, holding times of two ticks out of three, four fills: open, add, close, open again; 1.1 million states |
| `LiveOrder` | `ConfirmedOrdersExist`, `ExtraOrdersWereHidden` | two intents, two calls each: a retry, a late request of one intent during a call of the other, an id that is taken a second time; 1.6 million states |
| `DailyRisk` | `DeepLossStops`, `StatusNotMilder` | equities on, just above and just below each threshold of three openings and both tier edges, two days for a stale baseline; 36 thousand states |

Two runs show the program departing from its plan or its comments:

| Run | Departure |
|---|---|
| `TradingSqlite` | `BuildSucceeds`: `created_at` comes back naive from SQLite, and the comparison with an aware midnight (`runner.py:145`) raises as soon as an order exists, though the comment above it (`:142`) says that the comparison "is valid". `run_loop` records `cycle_error` and tries again at every interval: no symbol is traded and no open position is scanned any more |
| `StrategyLatest` | `list_recent` orders by ascending `open_time` before its limit (`repositories.py:149`), so once a symbol has more than 100 candles the strategy decides on the hundredth candle of its history (`runtime/paper_cycle.py:403`); the milestone-1 plan wants "recent candles ordered oldest to newest" |

### Further configurations

These are not part of the regular set. Each checks one property, against the line of the
repository it names, and TLC finds it violated:

* `ControlPlaneGate.cfg` (`MCControlPlane`, `GateMirrorsDryRun`): the release gate says it mirrors a dry
  run (`routes_runtime.py:1218`) but leaves out pre-flight's lock check. The transition wants the
  lock engaged and pre-flight wants it released, so `set_mode` refuses every dry run the gate allows.
* `HeartbeatStatus.cfg` (`HeartbeatMonitor`, `StatusFollowsHeartbeat`): the runbook clears a stale alert by
  a restart (`docs/runbook-paper-ops.md`, 4.5); the restart loses the flag that would record the
  recovery, so the status stays alerting.
* `DailyRiskHidden.cfg` (`MCDailyRisk`, `SmallLossStops`): `account_equity` is floored at the initial cash
  (`runner.py:133`): an account that loses from there is judged normal at any loss.
* `AlertLost.cfg` (`AlertDelivery`, `OutageIsTold`): a second outage within the window of the first one's
  alert is recorded but never sent (`supervisor.py:194`, `:213`), and the operator's last message
  says recovered.
* `FreshPrices.cfg` (`MCMarketData`, `FreshPrices`): freshness is judged by the first symbol that has a
  candle (`runner.py:114`); a symbol whose fetches fail is traded at its last price.
* `PaperTotalCap.cfg` and `PaperOverdraft.cfg` (`MCPaperAccount`, `TotalCapKept`, `CashCovers`): the position
  limits are compared with the snapshot before the entries (`risk/pre_trade.py:75`), so two entries
  of one iteration leave the account above 70 per cent, and a few of them with negative cash,
  which nothing checks.
* `PaperRounding.cfg` (`MCPaperAccount`, `SalesCovered`): SQLite keeps the quantity as a double. The exit of
  a position that was added to sells the sum, whose stored value may be above the two
  purchases; `apply_sell_fill` then raises in every later iteration. On a database that keeps
  `Numeric(28, 28)` the quantities are exact, but below 1. While `TradingSqlite` stands, the
  loop never gets to a second purchase.
* `PaperReconciliation.cfg` (`MCPaperAccount`, `ReconciliationIsQuiet`): the status reconciles with a mock that
  holds 500 USDT for ever, so a purchase of more than 10 USDT recommends a global pause, which
  the runbook (3.5) takes for a reason to stop.
* `PaperProfit.cfg` (`MCPaperAccount`, `ProfitIsNoLoss`): the analytics subtract the fees of the sales twice
  (`dashboard_api/routes_analytics.py:195`, `:199`), so a small profit is counted as a loss.
* `ControlPlaneBlocked.cfg` (`MCControlPlane`, `BlockedMeansNotCommitted`): a failure after the commit is
  answered "blocked: unavailable" (`routes_runtime.py:794`) with the mode `paper_auto`, although the
  change is in force.
* `TradingPaused.cfg` (`MCTradingCycle`, `PausedPlacesNoOrders`): the exit scan commits a SELL in a cycle
  that read `paused`; the design spec says of paused "No new orders". Whether an exit is a "new order"
  is for the authors to say.
* `SupervisorBounded.cfg` (`MCSupervisor`, `StoppedEndsTheProcess`): with `max_cycles` nobody sets `stop`;
  `supervisor_stopped` is recorded and the non-daemon heartbeat and monitor threads run for ever.
  `tests/unit/test_runtime_supervisor.py:413` says it is never recorded while any thread is alive.
* `SupervisorInterrupt.cfg` (`MCSupervisor`, `FirstInterruptIsClean`): Ctrl+C is caught only in the wait
  loop; while the main thread waits for the loops after a failure (`supervisor.py:600`), a first one
  propagates at once, unlike `README.md:96` says.
* `DailyRiskLoosened.cfg` (`MCDailyRisk`, `ShrinkingNeverLoosens`): a fall from 1040 to 1000 USDT is degraded,
  to 998 normal, because the smaller tier has looser thresholds; the design wants no automatic
  loosening when capital shrinks.
* `LiveRetries.cfg` (`LiveOrder`, `OneOrderPerIntent`): a gateway's 5xx hides an order that the exchange
  has taken; it is answered as rejected and retriable (`live_executor.py:347`), and the retry becomes
  a second order once the first one is filled and its id free again. The docstring of `retriable`
  (`live_executor.py:80`) says that the operation "can be safely retried with same client_order_id".
* `LiveRejections.cfg` (`LiveOrder`, `RejectionsAreTrue`): a gateway's 5xx hides an accepted order, the
  retry is refused with a 4xx (as a duplicate, while the first order is open), and the caller is told
  for good that the order was rejected; the class comment (`live_executor.py:131`) wants that
  prevented for timeouts.

Run one with `tlc -config ControlPlaneBlocked.cfg MCControlPlane.tla`.

### Fairness

* `ControlPlane`: weak fairness of each handler. FastAPI runs it in a thread that keeps running; a
  statement that hangs is outside the claim. No request has to come and nothing has to fail.
* `TradingCycle`: weak fairness of the thread as a whole (`Trade`), one loop that sleeps for a finite
  interval. Operators, midnight and faults are not fair.
* `Supervisor`: weak fairness per thread. For a loop it is fairness of *returning once it may*, because
  loops sleep for finite intervals and their requests have timeouts; no loop has to raise. A
  cooldown ends. Ctrl+C is not fair.
* `MarketData`: weak fairness of each step of the supervisor's ingestion (`Resident`): `ingest_loop` sleeps
  for a finite interval and its calls have timeouts. A pass by hand, a failure or the end of a
  period need not come, so `CatchesUp` is claimed from the last period of the bound on: until
  then a new candle may always be the one that is missing.
* The other modules state no liveness.

Where the system really may stop (all requests answered, the process ended, all intents
answered), the configuration says `CHECK_DEADLOCK FALSE`. The trading loop, the monitor and
the day never stop, and deadlock is checked there.

## 4. Proofs

Each component module ends with `IInv`, a conjunction of named parts that is inductive, and its
proof module shows Init => IInv, IInv /\ [Next]_vars => IInv', IInv => the property.

| Module | Theorems | Why the strengthening is needed |
|---|---|---|
| `ControlPlane_proofs` | `TypeCorrect`, `LiveSmallAutoUnreachable`, `HandlersKeepContract`, `RefusalsLeaveNoTrace`, `AcknowledgedWasInForce`, `TrailExplainsRows` | `LiveRequestsStop`: a handler that wants `live_small_auto` gets to pre-flight only on a reading with the lock engaged, which pre-flight refuses; so staleness does not matter. `TraceInv`: a refused or dry request has no change event; a change event, a handler past its write and a re-read row with the requested value all mean that the row held this value at some moment of the request. Any number of requests, in flight or failing. `AuditInv`: a handler that is alone finds its row as it left it, and between its write and its event the trail names what it had read before (the event is owed). `TrailExplainsRows` is about `MaxInFlight = 1`, as its property is: with two handlers the events may be recorded in another order than the writes. Failures and a killed API may come at any time; from the first one on nothing is claimed |
| `TradingCycle_proofs` | `TypeCorrect`, `AccountRebuilds`, `OneEntryAfterStop`, `LimitsKept`, `OrdersAccounted` | `SnapshotExact` (the snapshot is exact for every symbol still to be ordered), `SnapshotLag` (over all symbols it lags by one order per finished symbol), `Screened`, `StopsPending`. Any finite set of symbols, any limits |
| `Supervisor_proofs` | `TypeCorrect`, `RestartsAreBounded`, `ThreadsImplementSupervision` | `BudgetKept` ties runs to restart counts across the reset, `FailuresAreFinal` ties exceptions to thread states. Any set of loops, any budget; initial states and steps map to those of `Supervision` |
| `Supervisor_proofs`, of `AlertDedup` | `DedupTypeCorrect`, `DeliveriesAreSpaced`, `SilenceEnds` | `EntriesTellDeliveries`: an entry that has n ticks left belongs to a delivery at most the window less n ago, and, short of a whole window, at least that less the lag. Any threads, any sets of alerts, any window longer than the lag |
| `HeartbeatMonitor_proofs` | `TypeCorrect`, `AlertIsCurrent`, `AlertsAreTrue`, `DeliveryObserves`, `AlertsAreSent` | `AgeBounded`: as long as no heartbeat of the process fails, the last one is at most a period and two statements old when the next one ends, or the first one ends before the monitor looks; `SinceLastLook`. From the assumption that the stale threshold is at least that (120 seconds against 60 and two statements of at most 30). One lost heartbeat is not forgiven: two periods and their statements exceed 120 seconds, and a look in between alerts. With notifications: an entry of the window never outlives the last alert that was sent by more than the window |
| `MarketData_proofs` | `TypeCorrect`, `ReportsAreTrue` | what a pass has counted is stored, before its flush each fetched candle is stored or pending, and rows are never removed from the table. Any sequence of symbols, any ingesters, any number of faults |
| `PaperAccount_proofs` | `AccountIsTyped`, `OneHistoryOneAccount`, `NoExitIsLeftOver`, `ExposureIsBounded` | see below. Any symbols, prices, quantities, fees, targets and holding times |
| `LiveOrder_proofs` | `TypeCorrect`, `ExtraOrdersAreHidden`, `ConfirmationsAreTrue` | `RequestsCounted`: the orders of an intent, its late requests and the one that travels are at most the answers that hid one, and one more once the call has sent its request or the last answer is final; `ReplyIsTrue`: a reply that travels bears a status of an order. Any set of intents, any number of retries |
| `DailyRisk_proofs` | `TypeCorrect`, `DeepLossesStop`, `StatusIsConservative`, `TiersNeverLoosen` | `JudgedFairly` ties the last judgement to its baseline; lemma `TierOfEquity` gives the tier of an equity in closed form. Any equities; the initial cash is below the second tier (100000 cents; the default is 50000) |

Constants are constrained by the named assumptions in the modules, which TLC evaluates in the runs.

### The account

The properties of `PaperAccount` are about what three readers make of a list of fills, so they need
induction over that list. The prover cannot instantiate an induction rule over predicates; lemma
`SetInduction` is one over sets instead (what lies outside of the set would have a least
element, by well-foundedness of <), and it is all the induction there is:

* `RebuiltAppend`: a reader that finds one row more makes of it what it does with that row. With it,
  every property of the account becomes one of a single fill (`BuyAgrees`, `SaleAgrees`).
* `TotalTyped`, `TotalMoves`: when one symbol's value changes, the sum over the symbols changes by as much.

The invariant `IInv(most)` says of the rows and the account (`Agreement`) that the three readers agree,
that a symbol that is not held has no cost and no fees left, and that the cash, the open costs and
fees and the realised profit balance; of each position (`OpenedAt`) that it was opened by the first
purchase behind its last sale; and of a running iteration that the symbols it has not reached are as
in its snapshot (`SnapshotHolds`), that those it has passed are not due (`Finished`: a purchase
at the market price only moves a position away from its target, `BoughtNotDue`), and that each
entry has added at most one symbol limit to a symbol and a total that were below theirs in the
snapshot (`Exposure`).

All four theorems have the hypothesis `ColumnExact`: the largest entry times the number of fills stays
within `Precise`, so the quantity column gives every sum back. They are about exact quantities,
and the code does not keep to that: `paper_executor.py:80` divides the notional by the price and
rounds to no step of the exchange, so the quantity has up to 28 significant digits and SQLite's double
in general not all of them. What a rounded sum leads to is shown by `PaperRounding.cfg`, where
an exit sells more than was bought (`SalesCovered`); nothing is proved about it.

### What is only model-checked

`EveryRequestAnswered`, `PositionsScanned`, `CatchesUp`, `FailureEndsTheCall`, `BoundedCallEnds` and
`InterruptEndsTheProcess`: liveness under fairness is beyond the prover, as is ENABLED. Every other
property of a passing run is a theorem. What the further configurations and the two violated runs refute
is false and has no theorem. No module uses RECURSIVE operators.

## 5. Not modelled

* Indicators, the momentum rule and the AI service: numerical or external; their verdicts are
  free choices of `TradingCycle` and `PaperAccount`.
* Binance filters: decimal arithmetic in which the written exponent matters (`quantize` takes the
  exponent of a step, not the step); `LiveOrder` has its outcome only.
* Notifiers, the CLI, configuration loading, the event tail, SQL and migrations, the UI:
  best-effort I/O, parsing and formatting. `/portfolio/status` refuses an account with a SELL
  by design and is otherwise `ApplyBuy`.
* Known limits: a second runner process on the same database; the doubled
  `component_restart_attempted` events of the supervisor (`supervisor.py:405`); an outage that begins
  before the first heartbeat, of which the monitor never tells (`supervisor.py:168`); a reply that
  is no JSON after a submit (`live_executor.py:520`), which the model has and no document
  promises anything about.

## 6. Plan

Done, in this order: control plane, trading cycle, supervisor, heartbeat, executor, daily risk; then
the deduplicator and the alerts that pass through it, ingestion and its readers, the account in
money with exits, limits and reconciliation, and the proofs of what refusals and
acknowledgements mean; then the proofs about the account and the audit trail, with which every
safety property of the passing runs is a theorem. What is left:

1. Binance filters as operators on pairs of a mantissa and an exponent, in the instance of `LiveOrder`.
2. The status and the release gate over the newest 500 events, with all their flags.
3. A second runner on the same database in `TradingCycle`, once the code says what should hold then.
4. Proofs: the heartbeat's notifications as an implementation of `AlertDedup`; for the liveness properties
   the safety half, a measure that every fair step lowers, so that only fairness is left to TLC.
