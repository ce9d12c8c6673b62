# KIS_Agent in TLA+

KIS_Agent trades two Korean ETFs, a leveraged long one (122630) and an inverse
one (114800), through the REST and WebSocket interfaces of the broker KIS. Two
live runners, one task per ETF, follow the same strategy and must never hold
both at once. This directory models the core of that program in TLA+, checks
it with TLC and proves its main safety properties with TLAPS.

All line numbers are those of the files under `src/`; `PROJECT.json` maps every
definition to its lines.

## The system

| component | state | operations | interacts with |
|---|---|---|---|
| execution actor (`strategy/execution_actor.rs`) | none: a pure rule table over the 9 states of `ExecutionState` | `apply_execution_event`, `is_actor_allowed_transition`, `next_timeout_for` | called by the runner with every event |
| live runner (`strategy/live_runner.rs`) | `RunnerState`: position, `exit_pending`, `manual_intervention_required`, `execution_state`, stop flag | restore, poll, enter, manage, exit, escalate to manual | lock, gate, broker, row, actor |
| position lock and trade gate (same file) | `PositionLockState` (Free, Pending, Held, ManualHeld), `GlobalTradeGate.count` | take, preempt, hold, release; `can_enter`, `record_trade` | shared by the runners and the reconciliation |
| active position row (`cache/postgres_store.rs`) | one row of `active_positions` per code | insert or update, mark, set manual, delete | written by the runner, read by a restart |
| KIS HTTP client (`kis_client/http_client.rs`, `auth.rs`, `rate_limiter.rs`) | token, rate window | `execute` with up to 3 attempts, token refresh | every broker call |
| strategy manager (`presentation/routes/strategy.rs`) | maps of runners and statuses, inconclusive streaks | start, stop, status copy, reconciliation, auto start | creates runners, makes them manual |
| restart recovery (`strategy/restart_recovery.rs`) | none | `classify_restart_action` | described as the mirror of the restore; not called by it |
| WebSocket client (`websocket/connection.rs`, `subscription.rs`) | connection, subscriptions, retry count, `terminated` | connect, listen, reconnect, restore subscriptions | prices and fill notices for the runner; watchdog in `main.rs` |
| candle aggregator (`websocket/candle_aggregator.rs`) | buckets of candles | ticks, completion, backfill | input of the signal search |
| position manager, signal engine, ORB-FVG (`strategy/parity`, `orb_fvg.rs`) | none | trailing stop, signal search, order plan | called by runner and backtest |
| external gates (`gate_producer.rs`, `nav_gate_engine.rs`, `regime_engine.rs`) | latest gate values with their times | produce, apply with an age limit | preflight of an entry |
| main (`main.rs`) | process | start, watchdog, graceful shutdown | all |
| backtest and replay (`backtest.rs`, `parity_backtest.rs`, `replay.rs`) | the state of a simulated day | legacy, parity and locked days | the same signal search and exit rules as the runner |

Collectors, chart indicators, reports, browser front end and HTTP
plumbing keep no trading state.

What is hard here:

* *Interleaving.* Two runners, the broker and the reconciliation act between any
  two awaits of a runner; the lock is the only thing they agree on.
* *Unreliable calls.* A cancel, an inquiry, a row write or the reply to an
  accepted order can fail, and the code decides from what is left.
* *Crashes.* Lock, gate and statuses are in memory, the row is in PostgreSQL,
  the orders are at the broker; a restart must join them again.
* *Two hands on one stop.* The price listener and the runner move the same stop, and the
  row learns of it from tasks nobody waits for.
* *A feed that fails quietly.* A connection may close, break or be half confirmed, and
  backfills arrive in the middle of what the ticks make.
* *Timeouts.* A fill may arrive after the timeout, after the cancel, or between
  the cancel and the inquiry after it.

What makes each component correct: the actor reaches Flat and Open only on
evidence; the runners exclude each other and never forget shares; the row lets a
restart find whatever the account holds; the gate bounds the trades; every exit
ends flat or with an operator called; every stop ends the task; every Pending
lock is given up or becomes a position; the stop follows the best price whoever moves it;
a candle the strategy reads is final and real; a feed that died is noticed; the page
shows what runs; a simulated day knows no more than the day did.

## Modules

| module | what it is |
|---|---|
| `ExecutionActor` | the rule table. `Apply(s, e)` is `apply_execution_event`; no rule means `Err(InvalidTransition)`, which `After` turns into "stay", as `dispatch_execution_event` does |
| `ActorMachine` | the table driven by any sequence of events, with the timer of `next_timeout_for` |
| `TradeSlot` | abstract promise of lock and gate: one slot, a daily budget spent inside it |
| `LiveRunner` | the runners, lock, gate, rows and broker account; every action names its function |
| `Reconciliation` | `reconcile_once` of the strategy manager beside the runners |
| `PositionManager` | the exit rules shared by live trading and backtest: best price, trailing stop, tests that end a trade |
| `LiveTrade` | the prices of one runner: listener, preflight, armed watch, the stop two tasks move, its detached writes; extends `PositionManager` |
| `SignalEngine`, `Backtest` | aggregation and gap search as functions; the simulated day, with `PositionManager` for its exits |
| `Connection`, `Candles`, `Feed` | the WebSocket client's loop; the lists and merges of candles; the way from a trade at the exchange to a candle, with backfills, database and watchdog, which composes the two |
| `Token`, `Server` | `get_token`; the strategy manager and the startup and shutdown of `main.rs`, whose start requests take tokens |
| `ActorLemmas`, `ActorMachineProofs` | what the rules return; the safety of `ActorMachine` |
| `LiveRunnerProofs` | type correctness of `LiveRunner`, its inductive invariant, the safety theorems that hold under every fault, the refinement of `TradeSlot`; then the runners against the account and the rows, the theorems that exclude some faults, by name |
| `ReconciliationProofs` | what stays true of the runners beside the reconciliation |
| `LiveTradeProofs` | the inductive invariant of `LiveTrade` and three theorems about the stop |
| `FeedProofs` | the watchdog's bound, the client's retries and the candles, for any hours, prices and limits |
| `ServerProofs` | the token, the status page and its manual flag, for any codes and requests |
| `BacktestProofs` | all five properties of the simulated day, for any candles, stages and limits |
| `MCLiveRunner`, `MCReconciliation`, `MCLiveTrade`, `MCBacktest`, `MCFeed`, `MCServer` | instances for TLC |

### How LiveRunner corresponds to the code

A value of `pc[c]` is a place in the code of the task of code `c` where something
else can happen: before each call to the broker or the database, and at each
wait. An action is the code from there to the next such place.

| pc | code |
|---|---|
| `restore` ... `restoreTp` | `check_and_restore_position`, one branch per row state; `orphanCancel` is `safe_orphan_cleanup` between its two broker calls |
| `wait`, `loop` | `run`: the wait for the session and the main loop; polls are `PollIdle`, `PollDegraded`, `PollPreempt`, `PollAcquire` |
| `signal`, `armed` | `poll_and_enter` after it took the lock, `armed_wait_for_entry` |
| `submit`, `post`, `saveRow` | `execute_entry`: checks, order POST, `entry_pending` row |
| `fillWait`, `cancel`, `verify`, `hold` | its fill loop, cancel, inquiry after the cancel, `Held` |
| `placeTp`, `saveOpen` | take-profit order, position, open row, gate, `Open` |
| `exitCancel` ... `exitVerify` | `close_position_market` |
| `exitRetry`, `reverify` | `handle_exit_remaining` |
| `tpCancel`, `tpSell`, `tpMark` | `finalize_tp_partial_fill` |

`acct[c]` is the broker's side: holdings, the live remainder of the entry order
(`buy`) and what it filled (`bought`), orders of which no runner knows (`stray`),
the take-profit order (`tpq`, `tpf`) and market sells (`mkt`). Live orders fill one
share at a time, at any moment, also while the process is down. `row[c]` keeps
the columns a restart decides by.

Abstractions: prices, times and the strategy's signal are a free choice of the
branch they select, so every order of time-outs, signals and price hits is
explored. Only real mode and long positions, which are what the two ETFs trade, are modelled; the
discard of a leftover position in paper mode is not. An order number always
comes with its KRX organisation number. `CancelAll` (`cancel_all_pending_orders`)
cancels each order on its own, so some may go and others stay. The row's columns of stop
and best price, which the manual path after an exit writes once more
(`live_runner.rs:9069`), belong to `LiveTrade`'s row and not to this one. The
end of a loop after an exit (`break` or next iteration) is a free choice. A
sell order whose reply is lost and is sent again finds no free shares, because
the first one has them; with one entry in the account this is exact. Logs,
journals and the trade table are left out: nothing reads them back.

### How Reconciliation corresponds to the code

`Reconciliation` extends `LiveRunner` with one more task. `check` is what one call
of `reconcile_once` knows: the holdings of its first inquiry, the runners still to
check, the quantity read from the runner under check, the inquiries of the
confirmation that are left. An action goes from one call to the broker to the next;
making the runner manual is three (`Flag`, `Seize`, `Persist`), because the runner
may act between the write of its state, the stop flag and the write of the row:
between the first two it may still pass the checks of its stop flag. The ten seconds
after a Flat transition are a free choice while the actor is Flat. The reading of the runner and of
the lock follow each other without a call in between and are one step. Left out:
crashes, which end the manager too, and the start of a new runner of a code while
the old one is under check.

### How LiveTrade corresponds to the code

| action | code |
|---|---|
| `Tick`, `Listen` | `spawn_price_listener`: the write of `latest_price`, and later, under another lock, the best price, the stop and `sl_triggered_tick` |
| `GoStale`, `Current` | the 30 s of `get_current_price`; after them the REST quote |
| `PollUnhealthy`, `PollHealthy`, `Arm` | `poll_and_enter`: preflight, signal, drift |
| `WatchOn` ... `WatchFilled` | the rounds of `armed_wait_for_entry`, its outcomes, and the position `execute_entry` makes |
| `ReadPrice`, `Decide`, `DecideTp` | `manage_position`: the price is read before the state is locked, hence two steps |
| `Land`, `Lose` | `update_position_trailing` in a task nobody waits for |
| `Crash` | the process dies; the next one restores from the row, and what was on its way is lost |

Orders are `LiveRunner`'s: here an entry fills or not and a close succeeds. It fills at
any price, as the default order policy of real mode pays above the signal's
(`MarketableLimit`, `config.rs:132-158`). `Close` lets the search go on at the signal's
time instead of the exit's, which allows more trades than the code does.
`WatchFilled` waits for `writes = {}`: the updates of the last trade are over
minutes before the next one fills. Without that assumption a late write could
land on the row of the next trade, since `UPDATE` names the code only.
`PositionManager` is the code's arithmetic with percentages for its factors;
`as i64` truncates, and so does `\div` on the natural numbers it is used on.

### How Feed corresponds to the code

A step is a tick, a message of the connection, a backfill or a look of the
watchdog; `Minute` lets the clock go on only after the watchdog has looked, which
it does every 10 s. `real` and `heard` are not the program's: they record what was
traded and what the process heard, for the properties. A bar is its minute, its
high and its low. `Canonical` is `fetch_canonical_5m_candles`.
At a start the preload from the database may fail, and Yahoo's bars may be had, or saved
without being read back (`StartCandles`); the same holds of each attempt of a refresh,
which counts only if it replaced a bar of the first `OrCutoff` minutes, the code's
09:30 (`Refresh`). `OrMinutes` are the minutes whose candles a start looks for, the
code's 09:00 to 09:14. The age of the last message is left out of `SilentTooLong`, as
the age of the last tick decides first (below).
Assumptions: one code, as the aggregator keeps its candles by code and in one
task; Yahoo's answer has no bucket that still runs
(`YahooPartial`; with `TRUE` a refresh in the middle of a bucket keeps a bar that is
never final, until the next refresh).

### How Server corresponds to the code

A request goes through the places of `start_runner` where something else can
happen: the guards (`Ask`), the lookup of the handle (`Claim`), the two calls to
the broker (`PriceAnswered`, `Sized`), the insert and the spawn (`Spawn`), and the
rest of the handler (`Started`). A run's end is four steps of its task (`Leaves`,
`Reports`, `Unlists`) and of the status task (`Copies`). What a run does meanwhile is
`LiveRunner`'s; that it can become manual at any time (`Flagged`) is kept.
Assumption: a run outlasts the few instructions between its spawn and the
answer to its request.

### How Backtest corresponds to the code

The state is the day so far; a step appends a bar for both codes, all the minutes of
one slot (`Width` minutes), since the collectors store whole slots. `Day` assumes besides
that no minute is missing, which the code would accept: `fetch_day_candles` takes
the rows there are. The
simulations are functions of the day, each named after its Rust function. Where the
code loops over candles or rounds there is a recursive function of the number of candles
or rounds seen: `Grouped` and `Groups` are one candle and the loop of the aggregation,
`Search` and `Searched` of the gap search, `Managed` and `Exits` of an open trade. The
loops over signals end with a `break` that finds nothing more to do; here they run for as
many rounds as there are candles, and a round after the break changes nothing
(`Onward`). That is enough rounds: each one moves the search on by a candle at least.
The code filters candles by time where `Before`, `From` and `After` cut the sequence,
which is the same because candles are read in the order of time
(`postgres_store.rs:526`).

## Runs

`Faults` names what may fail in an instance of `LiveRunner`: `cancel`, `query`
(balance and fill inquiries), `reply` (an accepted order's reply is lost), `db`,
`crash`.

| run | instance | shows |
|---|---|---|
| `actor` | events with quantities up to 2 | `FlatOnlyOnZeroHoldings`, `OpenOnlyOnFill`, `ShadowComplete`, `InFlightDrains` |
| `two_runners` | 2 codes, 2 shares each, 3 orders, no faults | `PositionMatches` through partial entries and take-profits; `PositionLocked`, `GateRespected` |
| `unanswered` | 2 codes, `query`, `db` | `SingleExposure`, `FlatIsFlat`, `Recoverable`, `DropOnlyWhenSold`, the refinement `ImplementsTradeSlot` |
| `resolves` | 2 codes, all faults, 1 crash, fair | `TypeOK`, `IndInv`, `EntryExclusive`, `NoStrandedExit`, `ExitTimeoutEscalates`, `ManualHeldStays`; `ExitResolves`, `StopEnds`, `PendingResolves` |
| `reconciled` | 1 code, `query`, `db`, 2 orders, 3 inquiries a confirmation, fair | `MismatchFound`, `ManualEnds`, `RTypeOK` |
| `live_trade` | 4 prices around one signal, 2 writes in flight, lost writes, 1 crash, fair | `StopFollowsBest`, `RowNotAhead`, `StopOnlyTightens`, `BreachEnds` |
| `day` | 4 mornings continued by 7 pairs of bars to 10 bars of 2 minutes, 2 stages | `OneAtATime`, `LegacyParity`, `HonestStops`, `LimitsKept`, `NoHindsight` |
| `feed` | 4 minutes of trading, buckets of 2, 2 trades, 1 restart | `DeadFeedNoticed`, `RetriesEarned`, `CandlesFaithful`, `NotAhead` |
| `server` | 2 codes with a request each, 2 runs, 2 probes, 1 lapse of the token | `ShownRunning`, `ManualShown`, `OneIssue` |
| `false_stop`, `row_lost`, `double_start` | the smallest instance of each | a statement of the code's comments that the code does not keep, see below |

`ManualHeldStays` says who may take a ManualHeld lock while the process lives, whatever
fails: no abort, exit, restore or poll gives it back. Two steps of another code overtake
it (`Overtakes`), and the run reaches both: the fill of an entry that was under way when
the lock became ManualHeld (`live_runner.rs:7543`), and the restore of a row that is
manual itself. The second code is then the one whose shares the lock guards. It is a
property of the runners alone; beside the reconciliation a restore may
free a lock it was made manual for (below).

What the properties of the later runs say:

* `StopFollowsBest`: in whatever order the two tasks see prices, the stop is the one
  function of the best price - the original stop, then the entry price or the
  trailing distance below the best price, the higher. `RowNotAhead`: what a
  restart reads is something the trade already had. `StopOnlyTightens`: no step
  lowers a stop. `BreachEnds`: a tick through the stop ends the trade even if the
  price is back when the runner looks.
* `LegacyParity`: the parity runner with the legacy policy finds the very
  trades of the legacy path. `NoHindsight`: every trade a simulation of a morning
  made and settled is, at its place, a trade of the simulation of the whole day
  (`Stands`); the one trade that ended only because the morning's candles did may
  go on. `OneAtATime`: under the simulated lock the
  trades of the two codes do not overlap. `HonestStops`, for long and short trades: a stop
  trades at a price its candle traded at, and once it was moved loses nothing,
  except when a candle opens beyond it, and when the break-even distance is cut off to
  zero (`orb_fvg.rs:28-29`, see below). `LimitsKept`: no
  trade after the one that used up the day.
* `DeadFeedNoticed`: a process never goes on without ticks for longer than the
  watchdog's limits, whatever became of its connection. `RetriesEarned`: the client
  gives up only after that many connections in a row without a full
  confirmation. `CandlesFaithful`: the candles of a minute span what was heard
  of it and show no price that was not traded then. `NotAhead`: no candle
  of a bucket that still runs reaches the strategy.
* `ShownRunning`, `ManualShown`: the page shows a code active only while it runs,
  and what was left to the operator until the process ends. `OneIssue`: however many
  callers find the token expired, it is replaced once.

Bounds. Two codes are the system. One share tells "held" from "not held"; two
shares make partial fills of entry and take-profit; the arithmetic in between is
proved for every `Qty`. `MaxOrders` counts orders that reach the broker: two let
each runner enter, or one enter twice; three add an order after a finished
trade. One crash suffices for a restart in every place of the code, with the
row and the account in any state that place can leave. `MaxTrades` is 1 or 2, so
the gate is met. Symmetry over the codes is used in safety runs only.

`unanswered` has one share on purpose: with two, `query` breaks `SingleExposure`,
`FlatIsFlat`, `Recoverable` and `DropOnlyWhenSold`. An entry fills in part, the
inquiry after its cancel fails, and the later share is forgotten (`live_runner.rs:7287`,
see "Where the code and its documents part"). The theorems about these
properties name the same limit (`OrdersAnswered`), and cover every quantity where
inquiries are answered.

Prices in `live_trade` lie below the stop, at the entry, at break-even and above
it where the trailing stop passes the entry; two writes in flight are enough to
land out of order. `day` has bars of every kind the rules tell apart: inside the
opening range, breaking out, leaving a gap, falling back into it, through the stop,
through the take-profit and idle; its percentages are chosen so that distances
differ from one another at those prices. In `feed` two minutes make a bucket, so four
minutes have a finished one and a running one; two trades put a tick in each of two
minutes, or two in one, on either side of a break of the connection or a restart. A
start looks for a candle of the first minute, and a refresh counts for a bar of the
first bucket. A refresh has one attempt there, at any moment from its time on: an
earlier one that failed would leave the list of candles as it was, at most with its bars
in the database; the theorems hold for any `MaxTries`. In
`server` two runs are two codes at once or one code twice; a third adds
states only.

`CHECK_DEADLOCK FALSE`: a runner whose operator was called is not started again, so a
process with both runners manual really stops. The day, the minutes and the requests
of the later instances are bounded and end; so does a process the watchdog ended when
no restart is left.

One code suffices in `reconciled`: the reconciliation checks one runner at a time and
touches another one only through the lock, whose conflicts `ManualLock` settles the
same way in `LiveRunner`; two orders let a position follow another. That run is for
liveness: the safety of two runners beside the reconciliation is proved
(`ReconciliationProofs`).

One request per code is in flight in `server`: with two, `double_start` shows
what happens, and `ManualShown` is lost as well.

Fairness. `FairSpec` asks weak fairness of `Progress(c)`: a task inside a restore,
an entry or an exit goes on, because each await in them has a time limit
(`wait_execution_notice`, `with_actor_timeout`, the HTTP client's timeout), and
`LoopStop`, `WaitStopped`, because a stop wakes every wait through `stop_notify`.
Nothing is assumed of the market, of signals or of the broker's fills.
`RFairSpec` adds weak fairness of the reconciliation, a task that loops with
a sleep and calls with time limits; it says besides that its first inquiry does
not fail for ever, and nothing of the confirmations. In
`ActorMachine` the timer is weakly fair: `tokio::time::sleep` returns.
`FairSpec` of `LiveTrade`: weak fairness of the two tasks' own steps, of the ageing of
a tick (the clock) and of the end of a write; strong fairness of
`FillTp` and `DecideTp`, because the exchange fills an order the market
stands at again and again, and an inquiry is answered now and then. Nothing is
assumed of the price. `Feed`, `Server` and `Backtest` state safety only.

## Proofs

`tlapm` checks every theorem for every set of codes, every `Qty`, `MaxTrades` and set of
faults; assumptions are the `ASSUME`s of the modules and, where a theorem states one,
a hypothesis with a name: `RowsReliable`, `OrdersAnswered`, `TwoCodes`, `OneEach`. What each of them keeps out, and what goes wrong there, is said below.

* `ActorMachineProofs`: `FlatSafe`, `OpenSafe` and `ShadowSafe` follow from one lemma per
  rule of the table (`ActorLemmas`) over events of any quantity. `ShadowSafe` is
  the fact behind the shadow check: fifteen samples stand for all events.
* `LiveRunnerProofs`: `TypesHold` proves `TypeInv`: the types, and that the shares
  on sale, by take-profit and market orders together, never exceed the shares
  held (`Covered`). Without the latter a fill could make the holdings negative, so
  `TypeOK` is not inductive alone. `TypeCorrect` follows.

  The invariant `IndInv` has four parts.
  `RunnerInv` relates a runner's flags, position and actor state to its place in
  the code; `ManualInv`: a ManualHeld lock belongs to a manual runner;
  `SlotInv`: a runner in its entry finds the lock its own or some code's
  ManualHeld, and is alone there; `GateInv`: the gate is below its limit
  between the check and the count. None of the properties is
  inductive alone. Exclusion needs to know what the lock is while a runner buys,
  and that whoever overwrites it is not buying; the gate's bound needs
  exclusion, since `can_enter` and `record_trade` are far apart; `ExitTimeoutEscalates`
  needs that a managed position has the actor in Open. Most actions are `Harmless`
  (they touch one runner and neither enter nor count), and one lemma carries
  the invariant over all of those; the actions that take the lock, open a
  position or restart have steps of their own.
  `Invariant` proves `IndInv`; `EntryIsExclusive`, `GateIsRespected`,
  `NoExitStranded` and `ExitTimeoutIsManual` follow, and `Refinement` maps every
  step to a step of `TradeSlot` or a stutter.

  For the account and the rows there are two more invariants on top of `IndInv`. `TradeInv` has, for each
  code, `RowFollows` (there is a row only for a trade) and `LockFollows` (from the fill to
  the end of the exit the lock is the runner's own, Held or ManualHeld, and nobody else is in
  an entry). `PositionIsLocked` follows under `RowsReliable`: a row that cannot be
  deleted, or a crash, leads to a restore that takes up a position without
  the lock. `AccountInv` has `Fits`, what the account and the row of a code are at each
  place of its runner, and `Sole`, that a code with holdings or a live order has the entry to
  itself. Neither is inductive without the other: what an inquiry finds decides who
  may enter, and that nobody else enters decides what it can find.
  `ExposureIsSingle`, `FlatRunnersAreFlat`, `ExposureIsRecoverable` and `DroppedWhenSold`
  follow under `OrdersAnswered`, which allows failing inquiries (of single-share entries)
  and a failing database. A cancel that fails leaves an order that fills when the
  runner is flat again; a lost reply leaves one that nobody knows; a crash drops
  the lock. With `TradeInv` and `AccountInv` together, `PositionIsAccounted`: the
  position a runner manages is the account's holdings and the fills of its take-profit order.
  `ManualLockStays` holds under every fault. A step that frees or takes the lock either
  belongs to the code whose lock it is, whose runner is then not manual (`RunnerInv`), while the
  runner of a ManualHeld lock is (`ManualInv`); or it is one of the two that overtake it.

* `ReconciliationProofs`: `RunnerInv` is false beside the reconciliation, which makes
  a runner manual at any place of its code, so `ReconciledTypes` goes
  back to what any step does to the types, and the rest to the lemma `StepMoves`: what a step,
  of a manual runner too, does to lock and entries, from the types alone.
  `ExclusionInv` replaces `IndInv`: while a code buys, the lock is its own, or ManualHeld, or every
  other code has been made manual and told to stop (`Ended`). From it follow
  `ReconciledExclusion`, `ReconciledGate` and `ReconciledSlot`, the refinement of `TradeSlot`
  by runners and reconciliation together, for at most two codes (`TwoCodes`). Two is what the
  system trades, and the hypothesis is needed: with three, TLC finds two runners in
  an entry (`live_runner.rs:2651-2749`, below). `ReconciledExits` holds for any number:
  a runner that is not manual satisfies `RunnerInv`, and one that is cannot be stranded.

* `LiveTradeProofs`: for any prices, signals, factors and bounds. `Inv` joins to
  `TypeOK`, `StopFollowsBest` and `RowNotAhead` four parts they need:
  `Placed` (where the runner stands, a position and a row exist or not),
  `SameTrade` (the row is of the open trade, with its entry and risk), `WritesFit` (a
  write in flight was true of the trade once, so it may land late without getting
  ahead) and `RowFits` (the row's stop obeys the same rule, so that a restored trade
  does). The lemma `Following` says of `UpdateBestAndTrailing` that it keeps the rule
  and only improves a trade; `Listen` and `Decide` both rest on it, which is why
  their order does not matter. `TheStopOnlyTightens` follows step by step from `Inv`.

* `FeedProofs`: `SilenceIsEnded` rests on `FeedInv`: the silence of a process is not
  longer than the time since its last tick, or since the open when it had none, and
  no longer than the limit in a minute the watchdog has looked at (`Seen`). `GivesUpLate`
  rests on `LinkInv`: the retries exceed the failures in a row by one at most, the break
  of a connection that was listened to, and by none while it is listened to.
  `CandlesAreFaithful` and `NothingIsAhead` rest on `CandleInv`: the lists are in the order of
  their minutes and not ahead of the clock (`InOrder`), every bar lies within the
  trades of its minute (`Genuine`), what was heard of a minute is in some bar of it
  (`Complete`), and a backfilled bar starts its bucket with prices traded in it
  (`Backfilled`). The first bar and the extremes of a group are found by taking the least
  counterexample in a finite set of numbers, which the provers can do where an
  induction theorem with an operator as parameter is out of reach.
  `HoursAssumption` asks that the market does not open at minute 0, the mark of
  "no bar".
* `ServerProofs`: `TokenIssuedOnce` from `TokenInv`, whose part `OneIssuer` is the write lock:
  one caller asks for a token, and only while there is none. `PageShowsWhatRuns`
  needs `AllAnswered`, that a request which has spawned a run is answered while that run
  goes on: without it the answer could mark a code active whose run is over.
  It holds although two starts of one code are not excluded. `FlagStaysShown` does not:
  the sync task of an earlier run would clear the flag of a later one. It holds when
  no two requests are for the same code (`OneEach`), from `Orderly`: a code without a handle has no
  run that goes on, and a run begins when the earlier ones of its code are over.
* `BacktestProofs`: for any prices, bars, mornings, stages and percentages. Of the constants it asks
  that candles have positive prices between their low and their high
  (`DayAssumption`), that a slot has a minute (`WidthAssumption`), that the stages end after
  whole slots (`StagesAssumption`), and that the limits are numbers. A recursive function says
  nothing to the provers until it is known to exist, so each one has a lemma that builds
  it candle by candle and yields its equations (`GroupsDef`, `SearchedDef`,
  `ExitsDef`, ...). An induction over the candles then takes a set of the
  numbers that satisfy the claim (`Induction`), as no operator can be a parameter.

  `LimitsAreKept` and `StopsAreHonest` rest on `StateOk`, the invariant of every loop over
  trades: the counters it compares with the limits are those of its trades, no
  trade but the last used up the loss, and each trade ended honestly at a candle of
  the day. `UpdateFacts` has what an honest stop needs of the update rule: a stop
  that moves is on the good side of the entry and not beyond the price that moved it. That fails for a
  break-even distance of zero, hence the exception. `OneTradeAtATime` rests on
  `LockedOk`: the trades so far are in order (`Ordered`) and the last of them ended
  when the lock was released, the point both codes are synchronised to.
  `ParityWithLegacy` shows the rounds of both loops equal (`SameNext`). It has the hypothesis
  `LongOnly`, the default (`orb_fvg.rs:64`) and the run's value, and needs it: the
  parity path tells the search which side is confirmed, the legacy path searches any side and
  drops what is against it; only with one side do these agree.
  `NothingInHindsight` follows two runs of each loop, on the morning and on the day.
  `Early` relates their candles: the same up to the end of the morning, only later
  ones after it, and it passes through aggregation, filters, gap search and the management of
  a trade. A round of the morning then does what the round of the day does, or
  is its last and adds nothing settled (`TwoRuns`). Of the stages, the first to enter in the
  morning is the first on the day (`FirstStays`), and the first signal found
  over all stages is the same, with the same minute (`FirstTwin`, `SameMinute`).
  The aggregation keeps the slots of the morning apart from later ones because the morning is
  whole slots; without it a row of the morning would still change.

Only model-checked is liveness, which is out of the prover's reach: `InFlightDrains`,
`ExitResolves`, `StopEnds`, `PendingResolves`, `MismatchFound`, `ManualEnds`, `BreachEnds`. Every
other property that a passing run checks is stated by a theorem.

## Where the code and its documents part

Three have a run whose trace shows them, and an entry under `findings`.

* `false_stop`: the reconciliation reads the runner's quantity before the confirmation
  and compares it after; a reading between `Held` and the write of
  `current_position`, or during an exit, stops a runner that matches the account.
* `row_lost`: a failed balance inquiry in the restore counts as no stock.
* `double_start`: `start_runner` looks for a runner under a read lock
  (`strategy.rs:688`) and inserts its own under a later write lock (`:816`), two
  broker calls apart. The page's switch is not disabled while a request is in flight, so
  two clicks start two runners of one code; the first has lost its handle, and no stop
  reaches it. A run that ends removes the handle by code (`:889`), also another run's.

Others were met while modelling and have no run of their own:

* the reconciliation makes a runner manual in the middle of its restore, and
  `enter_manual_intervention_state` overwrites the Pending lock of the other code, which
  is buying; the restore then finds no stock and frees the lock, because it is its own
  (`live_runner.rs:2651-2749`). With two codes nobody is left to enter, as the restored
  runner has been told to stop; a third would find the lock Free and buy too;
* the restore of an open position does not take the lock, which is Free after a
  restart, so the other runner can enter (`live_runner.rs:3499`);
* `execute_entry` sets `Held` whatever the lock is, also over the `ManualHeld` of the other
  code, and later frees it (`live_runner.rs:7543`);
* after a cancel the holdings are compared only when no fill was seen: one partial
  notice and one unanswered inquiry lose the later shares (`live_runner.rs:7287`), and the
  restore takes the row's quantity in the same way when the take-profit filled in part
  while the process was down;
* `KisHttpClient::execute` sends an order POST again when its reply is lost
  (`http_client.rs:164`), against invariant 4 of the execution plan;
* a complete take-profit fill leaves `execution_state` at `Open`, because the flat
  transition runs from a state without a rule for it, which the comment at
  `live_runner.rs:8333` excludes;
* the reconciliation writes its manual flag to a row that may not exist yet, and the
  runner's insert then has it unset (`strategy.rs:1266-1287`);
* the comment at `execution_actor.rs:275-276` promises a way from the provisional
  Flat to Open that the table does not have;
* a crash between the order POST and the `entry_pending` row leaves an order that no row
  names; the restore cancels what it finds open, and does not look again for shares
  bought in between (`live_runner.rs:6769`);
* when the cancel of an unfilled entry and its fallback both fail, the entry is given up
  as Flat with its order still live (`live_runner.rs:7268-7274`);
* the comment at `live_runner.rs:6445` says a changed trailing state is saved for a restart,
  but a stop the listener moved is not: the runner compares with what the listener
  already wrote and sees no change;
* the canonical merge promises the backfill first for a finished bucket
  (`live_runner.rs:9869-9873`) but matches by the first minute of a group: a bucket
  whose first minute had no tick appears twice (`:9937-9941`);
* with two codes the locked backtest leaves one code alone if the other never signals
  that day (`backtest.rs:267-287`), which a trader could not know in the morning; so
  `NoHindsight` is not stated of it;
* `break-even` at a risk below 7 won and a factor of 0.15 (`orb_fvg.rs:28-29`) is a distance
  of 0: the stop is at the entry price from the first tick on;
* the live-like parity day goes on after the candle of an exit, the legacy path with
  it, so the two replays differ by more than their policy (`parity_backtest.rs:5-7`);
* after a reconnect whose fill notices are refused `is_notification_ready` is still
  true, since the old key is kept (`connection.rs:237-246`); a read error during the
  confirmations that is followed by the end of the stream counts as a normal end;
* a message that is stale for 240 s can never be what the watchdog reports, since a tick
  stale for 120 s is looked at first (`main.rs:1031-1047`);
* the expiry of a token, given in Korean time, is read as UTC (`auth.rs`), so a token
  counts as valid for nine hours too long; `Token` takes the expiry as an event;
* a start in flight while `stop_all` runs is never told to stop
  (`strategy.rs:970-977`).

## Not modelled

* Paper mode's discard of a leftover position, and the trading halt flag, which delays
  a poll.
* External gates: `with_external_gates` has no caller in `main.rs`, so no runner has any.
* `classify_restart_action`: nothing acts on it; the restore is in `LiveRunner`.
* The off-hours backoff and its safety flag: they lengthen a sleep.
* The rate limiter: it delays a call.
* Session reset, dynamic target and VWAP pullback of the backtest command, and its
  reports: further sequential computations over the same functions.
* An operator's forced refresh of the candles, their source labels, more than one
  code in `Feed`.
* Parsing, decryption, caches, chart indicators, event log, reports and HTTP plumbing:
  no state that a decision reads.

## Plan

*Done:* actor, lock, gate, runner, row, broker, crash and restart with their theorems, against the
account as well; reconciliation with the exclusion, the gate and the slot; trailing stop and armed
watch with their theorems; signal search; WebSocket client, candles and watchdog with
theorems; token, start, stop and shutdown with theorems; the simulated day with theorems.

*Left*, in the order of what it would add:

1. Two codes in `Feed`, and the operator's forced refresh.
2. The start of a new runner, and a crash, beside the reconciliation.
