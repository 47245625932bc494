# Verification of the ALGO trading backend

TLA+ specifications of the backend in this repository (`apps/`, `core/`,
`algobackend/`), the TLC configurations that model-check them, and TLAPS proofs.
File and line references are to the repository's sources.

## 1. The system and its parts

A strategy runs once, as a Celery task in a worker process, and its decision is
fanned out to every user subscribed to it. The database (Supabase) holds all
shared state; worker processes share nothing else. Inside one process asyncio
interleaves the users' coroutines; across processes everything interleaves.

| Part | State it keeps | Operations | Interacts with | What is hard | What makes it correct |
|---|---|---|---|---|---|
| Signals, executions (`apps/execution/signals.py`) | tables `signals`, `signal_executions` with unique indexes | `create_signal`, `record_execution`, `update_execution` | executor, strategies | concurrent inserts; a call that raises after it wrote | a signal of a slot is claimed once, a leg of a user is recorded once |
| Executor (`apps/execution/executor.py`) | none of its own: coroutines between two rows | `fan_out_signal`, `_fan_out_exit`, `_process_user`, `_live_run`, `_dry_run` | tables, broker, notifications | interleaved tasks of one user, partial failures, lost answers, late reads | one order per user and leg; only held legs are sold; one user's failure is nobody else's; what is ordered is what the gate was asked for |
| Strategies (`apps/strategies`) | local variables of `run` | `DemoStrategy.run`, `run_test_order` | signals, executor, market data | duplicates of the whole invocation; a crash between ENTRY and EXIT | whoever loses the ENTRY never writes an EXIT; a position that was opened is closed |
| Per-user gate (`core/conditions.py`, `core/angel/balance.py`) | none | `can_user_execute`, `get_balance_direct` | broker | the balance is stale once read; legs without a price count nothing | one comparison does for all the legs of an ENTRY that carries prices, as long as nobody else spends the money |
| Strategy gate, calendar (`core/conditions.py`) | table `strategies`, `HOLIDAYS` | `can_strategy_run`, `is_trading_day` | tasks, strategies | two clocks (IST, server date) | no run outside a session; a signal's date is the day of India |
| Scheduler (`apps/scheduling/tasks.py`, `algobackend/celery.py`) | Beat's last-run file, the queue | `run_*_task`, `refresh_all_tokens`, `warm_scrip_master_task`, `select_daily_instrument_task`, overnight tasks | everything above | Beat firing again, repeated and late delivery, overlapping tasks, workers held for hours | a task that fires twice trades once; nothing trades that was not asked for; every message is taken if what holds the workers ends |
| Instrument selector (`apps/scheduling/instrument_selector.py`) | one object in storage | `get_todays_instrument`, `select_nearest_expiry_instrument` | scrip master | check-then-write by several processes | all strategies of a day trade the same index |
| Scrip master (`apps/marketdata/instruments.py`) | memory cache per process, one object in storage | `fetch_scrip_master`, filters | storage, Angel | two layers, retries under a lock, midnight | nobody works with another day's file |
| Live feed (`apps/marketdata/feed_ws.py`) | socket, `_running` | `run_forever`, `stop`, heartbeat | Angel, strategy callbacks | reconnects, timeouts, stop during a read | a connection that breaks while it is read is replaced, unless the feed is stopped or an exception ends it (a failed `send_subscription`, a frame that does not parse); a stop ends it |
| Order status (`core/angel/order_status.py`) | set of filled ids | `wait_for_orders` | Angel | repeated and unordered updates, closed socket | what it answers is so; it ends if all completions are delivered before the socket closes, and may wait forever otherwise |
| Broker sessions (`core/angel/auth.py`, `feed_login.py`, `balance.py`, `tasks.py` 29-90) | tokens per account | login, fallback, refresh, re-login | Angel, tables | partial failure, three writers of one row, a list that is stale when it is written back | a failing account does not stop the others; whoever writes last, the token works until the day is over |
| Expiries, strikes, symbols (`apps/marketdata`) | none | selections over the scrip master | strategies | boundaries: ties, expiry day, no strike | the nearest one is chosen |
| Overnight trades (`tasks.py` 318-429) | table `overnight_trades` | resume, snapshot | a strategy not published here | sequential resumption, mode lookup | a simulated trade is never resumed for real; no trade of a list is passed over |
| Admin API, Accounts API | none | preview and confirm; verify account, balance | scheduler, broker | previews, late etas; races for the row of an account | only a confirmed request starts a task; only a validation verifies |
| Async timer (`core/utils/timer.py`) | task, `_stopped` | `start`, `stop` | callback | stop called by the callback, start before that callback is over | a stop ends every loop, if no start follows; two loops at once only where a callback calls stop |
| Notifications, crypto, logging, responses, client, settings | none | stateless helpers | | a notification that raises | |

## 2. Plan

The order puts first what moves money.

1. **Execution core** (done): `Legs`, `SignalStore`, `Execution`, its properties,
   the abstract `OrderLedger`, runs for every hazard of the executor, proofs of the
   safety properties and of the refinement.
2. **Caches** (done): `ScripMaster` (processes with a memory cache each, a shared
   object, dates, retries under a lock), and on top of it `InstrumentSelector`,
   whose behaviours are proved to be behaviours of the scrip master; proofs of the
   safety properties.
3. **Streams** (done): the live feed, the order status stream and the async timer;
   liveness of reconnecting, stopping and waiting; proofs of the safety properties.
4. **Scheduling** (done): the calendar and its two clocks, Beat, admin triggers, the
   queue and the workers, the gate before a run, and the overnight tasks; proofs of
   the safety properties.
5. **Sessions** (done): the morning's refresh beside validations and balances; the
   round of the feed accounts; proofs of the safety properties.
6. **Selections** (done): expiries and strikes as operators, checked against
   reference definitions over bounded chains and calendars, and proved.
7. **Closing** (done): proofs of what the table says after a fan-out, of the order of
   the legs and of what the gate gives, with the sums over orders and legs they need.
8. **Left**: the signals of `Scheduling` as the claims of `OrderLedger`, which would
   make the gate part of the refinement.

## 3. Modules

| Module | What it is | Code |
|---|---|---|
| `Legs` | kinds, legs, their compulsory order, the spelling of a mode and the effective mode | `executor.py` 100-170, 213-216 |
| `SignalStore` | the two tables, the unique indexes, the queries of an EXIT | `signals.py`, `executor.py` 66-97 |
| `Execution` | runs, fan-outs and per-user tasks; extends `SignalStore` | `executor.py`, `demo_strategy.py`, `test_strategy.py`, `orders.py`, `conditions.py` 123-148 |
| `OrderLedger` | what the pipeline promises about orders, abstractly | |
| `ExecutionProperties` | invariants, refinement, liveness, and what the documentation claims | |
| `ExecutionInvariant` | the inductive invariants and the hypotheses of some theorems | |
| `ExecutionProofs` | the first invariant's proof and its corollaries, and that `Execution` implements `OrderLedger` | |
| `ClosingProofs` | sums over finite sets, the larger invariant's proof and its corollaries | |
| `MCExecution` | small instances for TLC | |
| `Expiries` | nearest and safe expiry, sooner index | `expiry.py` 28-110, `instrument_selector.py` 69-91 |
| `ExpiryProofs` | lemmas about them | |
| `Selections` | the functions of `strikes.py` and `expiry.py`, with their properties; extends `Expiries` | `strikes.py`, `expiry.py` |
| `SelectionProofs` | proofs | |
| `ScripMaster` | the two cache layers of the instrument list | `instruments.py` 106-209 |
| `InstrumentSelector` | jobs that preload the list, choose the index of the day or ask for it; extends `ScripMaster` | `instrument_selector.py`, `tasks.py` 173-203, 457-525 |
| `CacheProperties`, `CacheInvariant`, `CacheProofs` | properties, inductive invariants, proofs | |
| `MCCaches` | small instances for TLC | |
| `Feed` | the market-data stream | `feed_ws.py` 37-148 |
| `AsyncTimer` | the repeating timer | `timer.py` |
| `OrderStatus` | the wait for orders | `order_status.py` |
| `FeedLogin` | the round of the feed accounts | `feed_login.py` |
| `Session` | the four above, with their properties | |
| `SessionProofs` | inductive invariants and proofs | |
| `Calendar` | days, ticks, the server's date, the gate of a strategy | `conditions.py` 26-119 |
| `Overnight` | overnight trades, and the tasks that go through them | `tasks.py` 318-429 |
| `Scheduling` | Beat, triggers, queue, workers, tasks; extends `Calendar`, `Overnight` | `celery.py`, `admin_api/views.py`, `tasks.py` 97-203, 318-455, `test_strategy.py`, `demo_strategy.py` |
| `Accounts` | rows of `angel_accounts`, the refresh and the requests beside it; extends `Calendar` | `tasks.py` 29-90, `balance.py`, `accounts/views.py`, `auth.py` |
| `Operations` | `Scheduling` and `Accounts` under one clock, with their properties | |
| `AccountProofs`, `OperationsProofs` | inductive invariants and proofs of the two | |
| `MCOperations` | a small instance for TLC | |

### State and actions of Execution

A *run* is one invocation of a strategy or of the Test strategy. `plan[r]` is what
it was invoked with and the market data it found: the kind of its first signal,
its *slot* (strategy, trading day, instrument), mode, contract of each leg, and
whether the payload carries prices. `rpc[r]` is where it is:

| `rpc` | Code | Leaves by |
|---|---|---|
| `idle` | before the first signal | `StartRun` |
| `create` | `create_signal` | `CreateSignal`, `StoreFails` |
| `subscribers` | `_get_subscribed_users`, early returns of `fan_out_signal` | `ReadSubscribers`, `StoreFails` |
| `match` | `_find_matching_entry_signal` | `FindEntry`, `StoreFails` |
| `positions` | the loop of `_fan_out_exit`, one read per row | `CheckPosition`, `StartExits`, `PositionReadFails` |
| `gather` | `asyncio.gather` | `Join` |
| `done`, `failed` | returned, or ended by an exception or a crash | |

A *task* is `_process_user` of one run and one subscription row; `todo[t]` are the
legs it still has to go through:

| `tpc` | The await it is at |
|---|---|
| `account` | `_get_angel_account` |
| `gate` | decryption, `get_balance_direct`, `can_user_execute` (LIVE) |
| `record` | `record_execution` |
| `order` | `place_order_angel`; an answer that is accepted and carries no data raises (`executor.py` 405) |
| `placed`, `trade` | `update_execution("placed")`, then `notify_user` |
| `rejected` | `update_execution("failed")` in the else branch |
| `dry`, `mark` | `notify_user`, then `update_execution("dry")` |
| `except` | `update_execution("failed")` in the except clause |
| `over` | returned or raised; `gather` collects either |

One action is what happens between two awaits, including the call itself. A call
that raises may have been carried out or not; both are modelled for every insert
and update. After a fan-out a strategy goes on to its EXIT; the hold of
`DEMO_HOLD_SECONDS` is the time that may pass before the next action.

Outside the code: `sent`, `acked` and `filled` are the broker's books (requests
posted, answers with status true, orders the exchange filled), `subscribed` is the
table users change in the app. `Balance` follows from what was filled. A BUY the
balance does not cover is turned down; a SELL is always accepted if the broker
answers. `RunFaults` and `UserFaults` say what may go wrong in an instance.

### State and actions of the caches

`fetch[t]` is where the latest call of `fetch_scrip_master` by thread `t` is:

| `fetch` | Code | Leaves by |
|---|---|---|
| `out` | no call yet | `StartFetch` |
| `lock` | waiting for `_scrip_lock`, the date already taken (`began`) | `ReadMemory`, `MissMemory` |
| `storage` | `_read_storage_cache` | `ReadStorage`, `MissStorage` |
| `request`, `receive` | `requests.get`, and its answer | `Request`, `Receive`, `DownloadFails` |
| `upload` | `_write_storage_cache` | `Upload` |
| `returned`, `raised` | over | the next `StartFetch` |

The date is read three times in a call: when it begins (`began`, which labels the
copy in memory), when the object is compared (`today` in `ReadStorage`), and when
the object is written (`stamp`). The list is represented by the day it was
requested on, so two downloads of one day are the same list. `lock[p]` is the lock
of process `p`; storage is shared by all. A thread of `InstrumentSelector` runs one
job: `preload`, `select` (the morning's task) or `pick` (a strategy's task that asks
`get_todays_instrument`); `job[t]` is its step, and each call it makes to the scrip
master is a whole `StartFetch ... returned`. `get_nearest_expiry` takes the date just
before it calls `fetch_scrip_master`; both reads are `began`. A worker dies between
any two steps (`WorkerDies`) and loses memory, lock and jobs. `Forced` are threads
that pass `force=True`; nothing in the repository does, so it is empty in the
instance, and any set in the proofs. The caches are dated by the server
(`date.today()`, UTC), the trading day is asked of India's date, which is the same or,
in the last hours of the server's day, the next one (`IndiaDates`): a task may go
on if either is a trading day and may return if either is not.

### State and actions of the streams

An action is what happens between two awaits. `run` is where `run_forever` is:

| `run` | Code | Leaves by |
|---|---|---|
| `connect` | `connect` | `ConnectOk`, `ConnectFails` |
| `subscribe` | `send_subscription` | `Subscribe`, `SubscribeFails` |
| `read`, `tick` | `ws.recv`, `on_tick_callback` | `Tick`, `TickDone`, `Ignore`, `ParseFails`, `ReadEnds` |
| `cancel`, `close` | the `finally` of `run_forever` | `CancelBeat`, `Close` |
| `retry` | a sleep of `reconnect_delay` | `Retry` |
| `over`, `raised` | returned, ended by an exception | |

`beats` holds the connections whose heartbeat task is alive, `late` counts the
callbacks that began after `stop`. `Stop` may happen at any await, `Dropped` is the
server closing the socket. In `AsyncTimer`, `loop[g]` is a coroutine `_run`, `task`
is `_task`, `stopped` is `_stopped`, and `awaited[c]` is the loop that the `stop` of
caller `c` waits for; a caller is the timer's `Owner` or the callback of a loop, if
`CallbackMayStop`. `StartTimer` has the one condition of `start`: the task is none or
over. A callback that calls `stop` cancels the task it runs in, waits for itself, and
gets the `CancelledError` that `stop` catches, so it goes on and the timer has
forgotten it (`MustWait`). A start that comes before it is over makes a second loop
beside it and sets `_stopped` back, which the first would have ended by. In
`OrderStatus`, `updates` is what the socket may deliver, any number of times and in
any order, `complete` is `filled`. In `FeedLogin`, `call` is where a call of
`login_feed_account` is, `tries` the accounts it has been through, and `admits` the
accounts the broker would let in now, which changes at any moment. The four share
nothing but the event loop;
`Session` puts them side by side, and a behaviour moves one of them (`part`).

### State and actions of the selections

A behaviour of `Selections` is one question: `Init` chooses a chain and a spot
price, or a set of expiries and a day, one action is the function asked, and
`answer` is what it returns. A contract is a strike and a type; `None` is the empty
set of contracts. The chain is what `get_options_by_index`, `get_stock_options` and
`get_stock_future` return: what is listed of one underlying for one expiry, on the
exchange it is routed to. Prices are integers and strikes multiples of `Step`;
`Round` is Python's `round` of a quotient, with halves to the even neighbour. Index
and stock functions that differ in the chain only are one action (`find_atm_strike`
and `find_stock_atm_strike` are `FindAtm`). Day 1 is a Monday.

### State and actions of the server's operation

`day` and `time` are the clock of India; day 1 is a Monday, a day has `DayLength`
ticks, and anything may happen within a tick. `ServerDay` is `date.today()` on a
server that keeps UTC (`settings.py` 154): yesterday until the tick `Dawn`.

A *message* is one task in the queue: who sent it (`from`: a request, `Beat` or
`Operator`), its arguments and its eta. `fired` are Beat's entries sent today, which
is its last-run file; `BeatRefires` is what a stale one causes (`celery.py` 114-119).
`job[w]` is what a worker of the pool is doing:

| `pc` | Code | Leaves by |
|---|---|---|
| `idle` | waits for a message | `Take` |
| `started` | the first line of a task: `is_trading_day` | `NotToday`, `PickInstrument`, `MarketFails`; `StartLoop`, which lists the overnight trades |
| `picked` | the instrument is known, the strategy is called | `Gate` |
| `gated` | login, expiry, contracts, prices | `Enter`, `EntryFails`, `MarketFails` |
| `holding` | between the ENTRY and the end of the strategy | `Exit`, `HedgeEnds` |
| `login` | the snapshot has listed the trades and logs in to the first feed account | `LogInFeed`, `LoginFails` |
| `loop` | the loop of an overnight task | `RunLoop`, `LoopRaises` |

`WorkerDies` leaves any of them; a message is acknowledged when its task begins, so it
is gone. One that a worker holds back, for its eta or because it is busy, is not
acknowledged, and Redis delivers it again when its visibility timeout is over
(`Redeliver`; `copy` tells which of its two copies a message still has). `signals` is the table; a *slot* is what its unique index covers, and a write
to a taken slot is refused. What a signal leads to is the subject of `Execution`.
`loop[w]` is the list an overnight task has read: what is left of it (`todo`), the
trade that is being resumed (`at`) and the ones marked to market (`marked`). `lost`
collects what a task that was cut short had not come to. `entered` and `resumed` are
the modes of the entry's signal and of the last resumption. The strategy behind the
hedges, `stock_hedge`, is not in the repository: it opens a trade with its ENTRY,
and `resume_stock_hedge` returns with the trade over or not.

In `Accounts`, `row[a]` is a row of `angel_accounts`, of which a token is whose it is
and of what day. A *visit* is one request: `app` is `get_balance_for_user`, `page`
the view `get_balance`, `validate` is `validate_account`; `visit[v].token` is the
token it holds, `since` the day on which it began; `stale` is the end of one that is
told that its token has expired, because it does not log in again (`page`), has done
so already, or has no pin or secret to do it with (`balance.py` 65-66). `refresh` is
the last run of the task of the morning and `ok` and `failed` are the accounts it has
counted. Beat sends it each morning (`Scheduled`), and with a stale last-run file again
at any time (`Refired`, `celery.py` 114-119). Credentials are good, partly missing
(`pinless`) or unreadable (`sealed`). `Unverify` is the user entering other
credentials in the app, which is not in the repository.

The two share the clock and nothing else; `Operations` puts them side by side, and
a behaviour moves one of them (`part`).

### Abstractions

- A contract has one price for the whole run; quantity times price is a unit.
  Payload prices are that price, or absent (`quoted = FALSE`: `or 0` in
  `executor.py` 331; the demo strategy's placeholder 0.0 is that case). A quantity is
  never 0 or less, which would raise before posting (`orders.py` 40-41): the published
  strategies send one lot of a contract that is listed.
- The retries of the HTTP clients and the wording of notifications are left out.
- In `Execution` a run reaches its first signal or does not; the gates and lookups
  before it (`demo_strategy.py` 56-88) are the guard of `StartRun`, and not reaching
  it is never taking that step. They are steps of their own in `Scheduling`, where
  in turn a fan-out is part of the step that writes the signal.
- Every strategy with an ENTRY and an EXIT of one day follows the demo strategy
  (`Intraday`), and the demo strategy's gate and lookups are the Test strategy's.
- Beat sends an entry once a day; the snapshot's is sent every quarter of an hour
  (`celery.py` 105-108). It may also never be sent: Beat may be down.
- A broker's token is good until the day is over. A request takes seconds, so one
  that midnight finds under way is over before the morning's refresh; the refresh
  takes minutes and does not run into the next day; the bounds on `Refired` are that it is
  not in the first tick of a day and not while a refresh is running, so two refreshes at
  the same time are not modelled; lookups take minutes and strategies leave the market by 15:25, so that only a hedge, a message just taken
  or an overnight task is under way at midnight (`DayIsOver`).
- The Test strategy's slots (`TestSlots`) share the subscribers of the other
  strategy in the instances, which only gives them the same users.

## 4. Runs

The runs of the executor use module `MCExecution`, those of the caches `MCCaches`,
that of the streams `Session`, that of the selections `Selections`, those of the
server's operation `MCOperations`. `CHECK_DEADLOCK FALSE` is set throughout because all
runs, jobs and streams may be over, which is the system at rest.

| Run | Instance | Shows |
|---|---|---|
| `Duplicates` | two invocations of one strategy, LIVE in upper or lower case or in a mode that does not exist (which is DRY), in any combination; one user with two subscription rows; straddle; every fault, failing stores and crashes | `TypeOK`, `AtMostOneOrder`, `OrdersAreAccounted`, `ExitMatchesEntry`, `SellsBackedByBuys`, `ImplementsLedger` |
| `Closing` | two invocations of a strategy with a put and a future; a user with broker faults and one for whom nothing fails, both with four units; the future for one unit, or for four, which cannot be paid on top of the put; prices quoted or not; DRY or LIVE; fair | `LegOrder`, `TableMatchesBroker`, `GatedLegsAreAccepted`, `PositionsAreClosed` |
| `Isolation` | a strategy or a test order; one user with every fault, one with none; failing stores, changing subscriptions; fair | `RunsEnd`, `EntryReachesHealthyUsers` |
| `Caches` | two worker processes, one of them with two threads; a preload, the morning's selection and a strategy's pick, over three days of which one is not a trading day; a list whose expiries change, with a tie on the last day; storage, network and crash faults; quiet midnights; fair | `TypeOK`, `MasterIsOfTheDay`, `DownloadsAreNeeded`, `PickIsOfTheDay`, `JobsEnd` |
| `Streams` | the feed with every fault and a stop anywhere; a timer with three loops, an owner that starts and stops it and callbacks that stop it; a wait for any of the subsets of three orders; a login that starts at one of three of four feed accounts; fair | `TypeOK`, `BeatsEndWithConnection`, `OneTickAfterStop`, `AnswerIsTrue`, `StopEndsFeed`, `StopEndsTimer`, `FeedReconnects`, `WaitEnds`, `FeedFallsBack` |
| `Selections` | every chain over five strikes with any contracts missing, and nine spots on, between and halfway between them; any set of up to three expiries within two and a half weeks, asked on any weekday | `TypeOK`, `AtmIsNearest`, `StrangleSurroundsSpot`, `HedgeIsOrdered`, `SafeExpiryAvoidsWeek` |
| `Operations` | a Monday that is a holiday and a trading day, for the tasks or for the accounts (`part`); two workers, two messages out of Beat's two entries, five kinds of requests and an operator, a trade entered DRY and one not yet open; two accounts, one without a pin, three requests, a refresh each morning that a stale Beat file may repeat; every fault; fair | `TypeOK`, `OneTradeADay`, `OrdersAreAsked`, `MessagesAreTaken`, `NoTradeIsLeftOut`, `RefreshedTokensWork`, `BalanceRecovers`, `OnlyValidationVerifies`, `RefreshReachesEach` |

Runs that find the documentation contradicted, one property each:

| Run | Property | What happens |
|---|---|---|
| `FindNotify` | `AcceptedLegsAreSeen` | accepted, marked placed, the notification raises, marked failed; the EXIT leaves the leg out |
| `FindPhantomSell` | `NoPhantomSell` | DRY BUY, LIVE SELL: a dry row counts as held |
| `FindHedge` | `FuturesAreHedged` | put rejected, future bought |
| `FindExitGate` | `PositionsAreClosed` | the money is in the position, the gate refuses the EXIT |
| `FindPositionRead` | `ExitReachesHealthyUsers` | one failing read ends the EXIT of all |

`MasterIsOfTheDay` holds in `Caches`, where nobody is at work when a day ends
(`QuietMidnight`). Set `QuietMidnight` to `FALSE` there and TLC finds a list that is
requested before midnight, stored after it under the new date (`instruments.py` 149)
and read all that day, which the comment at 119 ("a new calendar day naturally
invalidates it via the date check") does not foresee. `date.today()` is a UTC date
(`settings.py` 154), which changes at 05:30 in India, and the first scheduled task
that fetches the list runs at 07:05 (`celery.py` 60): the schedule keeps to quiet
midnights, a task triggered by hand may not.

Four things the code does that no property of `Operations` speaks against. A test
order with a `trigger_time` is for "that clock time today" (`views.py` 247), but a
message that finds every worker held is taken whenever one is free, on the next day
even; the model has such behaviours, and `OrdersAreAsked` says no more than not
before its time. A mode that cannot be looked up is DRY (`tasks.py` 338), so a LIVE
trade may be resumed as a simulated one, with a warning in the log. A second resume
takes the trades of the first again. `refresh_all_tokens` declares `max_retries=2`
and never retries, so an account that fails keeps the token it has until it is used.

`FuturesAreHedged` fails for a put the broker rejects; `PutsHedge` (section 5) says
for whom it holds. `PositionsAreClosed` appears on both sides: it holds in `Closing`,
where a user who passes the gate of the ENTRY can also pass the EXIT's with what is
left, or needs not since nothing is quoted, and fails in `FindExitGate`, where the ENTRY uses the money up; it says that the SELL is posted,
and what the broker makes of it is not the code's to say.

`conditions.py` 134-136 ("a hard "do you have the cash" check") and `BUG_LOG.md` 75
promise more than the balance gate gives. A leg without a price, or with the 0.0 the
published strategy sends, counts nothing, so without prices the gate asks for 0
(`executor.py` 331) and every balance passes; and nothing is reserved between the gate
and the orders (331-352), so two strategies may spend the same money. Both are in the
model. What the gate does give is `GatedLegsAreAccepted`: with prices, and unless
another run has bought for the user, no leg of an ENTRY is turned down for want of
funds after others went through. In `Closing` the quoted dear future is kept out by the
gate, and the unquoted one is turned down after its put was bought, which is the
exception the property states. The run has one strategy, since two that spend the same
money would also be stuck at the gate of their EXIT (`FindExitGate`) and
`PositionsAreClosed` would fail; for any number of strategies the property is the
theorem `GatedAccepted`.

`NoPhantomSell` has two more causes in the model besides the one the run
shows: an order the broker accepted and the exchange never filled, and a test BUY
and a test SELL of different strikes, which the position check, comparing labels,
takes for the same leg.

### Bounds

Two invocations are enough for every race between a winner and a loser of a
signal. Two subscription rows are two tasks of one user (`Duplicates`) or one task
of each of two users. Two legs are a leg and a next leg, which is what rejections,
gates and the leg order need. `LegOrder` is checked with one row per user: with two,
each task keeps the order but the two interleave. Test orders run against the
strategy in `Isolation` and against each other in `FindPhantomSell`; for any number
of them the safety properties are proved (section 5). For the caches, two threads of
one process race for a lock and two processes for the objects; three days are one on
which a cache is filled, one without trading on which it goes stale, and one on
which it must not be used. `MaxRetries` is the code's. For the streams, `ConnRing`
numbers tell a connection from the two before it; `Loops` is a pool of three
coroutines, one the timer knows and two it may have forgotten; with three orders one may complete before, between
and after the two others. For the selections, five strikes are the least a hedge
needs (two steps either side), a step of four has a halfway price and two others, and
`Count` is 1 instead of 3 for as few strikes; the theorems have no such bounds. `sent` is not bounded by a
guard: that it never passes 1 is `AtMostOneOrder`. Nothing else counts up.

In `Operations` a day off and a trading day are the least on which the gate, the
days of signals and the turn of the day matter; three ticks are the hours before the
server's date turns and two of the session, so that something lies before, at and
after an eta. Two messages (`MaxSent`) are a message and whatever competes with it:
the same entry again, an operator, a request, its own second copy (`Redeliver`, one
other copy); two workers run both at once, or are both held
while a message waits, if the other has been delivered twice. One open trade and one
to be opened, of which only the first can be quoted, make a list of two in either
order, and a list that is older than a trade. `FirstDay` is 8, so that a token of the
day before has a date. Two accounts are one that fails and one that must not be
affected, one of them without a pin; three requests, one of each
kind, write to the rows a refresh is working on, and the page of the account without a
pin is refused as its app would be. `Unverify` needs no bound: only a validation, of which there
is one, brings the flag back. The theorems have none of these bounds.

### Fairness

`FairSpec` adds weak fairness of what a started run does by itself (`RunStep`) and
of each task (`TaskStep`): asyncio resumes a coroutine whose await has returned,
and every await returns or raises, since the HTTP clients behind them have timeouts
(15 s in `balance.py`, the library defaults of the others). Nobody has to start a
run, no fault has to happen, and a crash is a fault, so liveness is checked where
`RunFaults` has no crash.

In `Caches` each thread's steps are weakly fair: the HTTP request has a timeout of
120 s, storage calls those of their client, and the lock is released by whoever
holds it, which `JobsEnd` would refute otherwise. A crash ends a job, so `JobsEnd`
is checked with crashes. In `Streams`, `RunStep` is weakly fair (the read times out
after 40 s, connecting and closing by the library's defaults, the callback by the
strategy's own awaits), and connecting is strongly fair: a server that refuses every
connection is excluded, as reconnecting cannot succeed then. A timer's loop and
`stop` go on by themselves. In `OrderStatus` an update the open socket has for the
client is delivered.

In `Operations` the clock goes on, and some step is taken of what workers, the
refresh or a request have to do as long as there is one (`Work`). That is less than
fairness of each worker, and enough, since each has a bounded number of steps to
take until its task is over; it is justified by a pool whose processes all run, and
by calls that end: HTTP requests have timeouts (15 s in `auth.py` and `balance.py`),
strategies leave the market by 15:25, and `resume_stock_hedge` returns some day.
Nobody has to send anything, and no fault has to happen or to be absent. A message
whose eta lies behind the last day would not be taken; etas are of the day they are
sent on, so there is none.

## 5. Proofs

For any sets of runs, users, slots, rows, plans, prices, funds and faults that
satisfy `ConstantsAssumption` and `PlansAssumption` (the types of the constants,
and that a strategy's first signal is an ENTRY), TLAPS checks of the executor:

| Theorem | Statement |
|---|---|
| `Invariance` | `Spec => []Inductive` |
| `TypeCorrect` | `Spec => []TypeOK` |
| `SingleOrder` | `Spec => []AtMostOneOrder` |
| `Accounted` | `Spec => []OrdersAreAccounted` |
| `ExitsOwned` | `Spec => []ExitMatchesEntry` |
| `SellsVerified` | `Spec => []SellsBackedByBuys` |
| `Implements` | `Spec => ImplementsLedger` |
| `ClosingInvariance` | `Spec => []ClosingInductive` |
| `TableTrue` | `Spec => []TableMatchesBroker` |
| `SeenTrue` | `Spec => []NotedLegsAreSeen` |
| `FillsTrue` | `Spec => []SellsBackedByFills` |
| `LegsInOrder` | `SubscribedOnce` implies `Spec => []LegOrder` |
| `GatedAccepted` | `SubscribedOnce` implies `Spec => []GatedLegsAreAccepted` |
| `PutsHedge` | `SubscribedOnce` implies `Spec => []HedgedByThePut` |

`Inductive` has five parts besides the types. `AtMostOneOrder` is not inductive:
that a task posts its order once follows from `TasksInv` (the task inside the body
of the leg loop is the one that inserted the row, and no two tasks are there with
the same row) and `OrdersInv` (no request before the row, none yet at `order`);
that two runs never order for the same slot follows from `SignalsInv` (rows are
unique, and whoever fans out has written its row). `SellsBackedByBuys` needs
`PositionsInv` (a placed row was accepted, a dry row is a DRY run's, what an EXIT's
task has left was read from such rows), `FreshInv` (nothing is posted before the
match, so choosing the ENTRY disturbs no earlier SELL), and `SignalsInv` again, by
which the only ENTRY of a strategy's slot is its own. Each part has a step lemma;
tasks share four effect lemmas, so that a part does not go through the task's ten
actions again. `Implements` maps `signals`, `sent` and `acked` to the ledger's
claims, orders and accepted orders: an insert is a `Claim`, `PlaceOrder` is a
`Post`, anything else stutters.

`ClosingInductive` adds to `Inductive` that a fan-out starts without rows (`RowsInv`),
that tasks are those of the strategy's subscribers (`BatchInv`), that the broker
answers what was posted (`PostedInv`), that a row says what the broker answered unless
a task is at it or its fan-out was cut short (`SettledInv`), and that no balance is
negative (`SolventInv`). `SettledInv` is `TableMatchesBroker` with the intermediate
states put in: between the order and the update the row is behind the broker, but the
task at it knows the answer (`rejected`, `except`), and only that task writes the row.
`NotedLegsAreSeen` follows, since the EXIT reads its own ENTRY's rows when nobody is
working on them; `SellsBackedByFills` is `SellsBackedByBuys` together with
`FilledInv`: what was accepted was filled.

`SolventInv` is about a sum over all orders filled for a user, with no bound on how
many. `MapThenSumSet` picks the elements of a set in an order of its own, so
`ClosingProofs` first shows that a finite sum exists, is unique and is the sum less an
element plus that element (`SumExists`, `SumUnique`, `TotalRemove`); an order more is
then its price more or less on one balance (`BalanceAdds`, `FillMoves`). What the
gate asks for is a sum of the same kind over the legs of a task (`MarginIs`,
`MarginTakes`).

Three theorems have a hypothesis on the subscriptions which the code does not enforce
and without which the properties are false: `SubscribedOnce`, no user has two rows of
one strategy. With two, each task keeps the order of the legs, but the second skips a
leg whose row the first has inserted and not yet ordered, and posts the next one ahead
of it; and both tasks pass the gate with the same money. A user may be subscribed to
any number of strategies, which may run at the same time. `LegsInv` says that what a
task has not come to has no row and what it has been through was ordered. `FundsInv`
says that a task past the gate can pay what it has left, as far as it has prices,
unless another run has had a BUY filled for the user: two ENTRY tasks of one user and
slot cannot both be there, an order takes from both sides the price of its leg, a SELL
adds to the balance, and the BUY of another run makes the exception true for good.
`GatedAccepted` is the consequence at the broker, by induction on it and `FundsInv`;
and with the put ordered first and accepted, the future is hedged. So what `FindHedge`
shows happens only by a rejection at will, a lost answer, missing prices, money spent
by another run, or a second subscription. TLC refutes the three properties within a
few steps when one user has two rows of the strategy of `FindHedge`.

The three properties `NotedLegsAreSeen`, `SellsBackedByFills` and `HedgedByThePut`
follow from ones that the runs check and are proved only.

Of the caches, for any processes, threads, jobs, faults, number of days, trading
days and lists that satisfy `MasterAssumption` and `SelectorAssumption` (types):

| Theorem | Statement |
|---|---|
| `SelectorCallsMaster` | `Spec => MasterSpec` |
| `MasterSafe` | `MasterSpec => []MasterInv` |
| `CachesInvariance` | `Spec => []Inductive` |
| `CachesTypeCorrect` | `Spec => []TypeOK` |
| `DownloadsNeeded` | `Spec => []DownloadsAreNeeded` |
| `MasterCurrent` | `QuietMidnight` implies `Spec => []MasterIsOfTheDay` |
| `PickCurrent` | `QuietMidnight` implies `Spec => []PickIsOfTheDay` |

The invariants of the scrip master are proved of its own specification; the
selector's steps are steps of it, so they carry over. `DownloadsAreNeeded` rests on
the lock: whoever is in the critical section holds it (`LockInv`), so nobody else
fills the memory a thread found stale (`MissInv`). It needs no quiet midnight, as
the label in memory is the date the call began. `MasterIsOfTheDay` does: without a
call across midnight all three dates of a call are one, so no copy carries a date
later than its list (`FreshInv`). `PickIsOfTheDay` adds that a job under way was
asked today (`JobInv`) and that what is computed or stored is the index of its day
(`ChoiceInv`); that comparing two nearest expiries gives the index with the sooner
one is `SoonerIsSooner`, from the least element of a set of naturals.

Of the selections, for any step, strikes, spots, days and expiries that satisfy
`SelectionsAssumption` (types, and that strikes are multiples of the step):

| Theorem | Statement |
|---|---|
| `SelectionInvariance` | `Spec => []AnswerInv` |
| `SelectionsListed` | `Spec => []TypeOK` |
| `AtmNearest` | `Spec => []AtmIsNearest` |
| `StrangleAround` | `Spec => []StrangleSurroundsSpot` |
| `HedgeInOrder` | `Spec => []HedgeIsOrdered` |
| `SafeWeek` | `Spec => []SafeExpiryAvoidsWeek` |

`AnswerInv` says that an answer is what the function computes of its input; the rest
is arithmetic. Multiples of the step are a step apart (`Multiples`), so a strike is
at most the one below the spot or at least the one after it (`Strikes`), the ceiling
pushed up is that one (`AboveIsNext`), and rounding gives the nearer of the two
(`AtmIsNearer`, `AtmDistance`). Of the expiries, being in another week is being past
the Sunday (`WeekEnds`), so both formulations select from the same set.

Of the streams, for any `ConnRing` above 1, faults, loops, orders and number of feed
accounts:

| Theorem | Statement |
|---|---|
| `SessionInvariance` | `Spec => []Inductive` |
| `SessionTypeCorrect` | `Spec => []TypeOK` |
| `BeatsEnd` | `Spec => []BeatsEndWithConnection` |
| `TicksStop` | `Spec => []OneTickAfterStop` |
| `SingleLoop` | a callback that does not call `stop` implies `Spec => []OneLoop` |
| `AnswersHold` | `Spec => []AnswerIsTrue` |
| `LoginFallsBack` | `Spec => []FeedFallsBack` |

Each part has an inductive invariant of its own. That a second tick cannot follow a
stop needs that the socket is not read once one has (`FeedInv`); that a start makes
no second loop, where no callback calls `stop`, needs that a live loop is the timer's
task and the one the owner waits for (`TimerInv`); that an answer is true needs that an update stays true,
since an order changes once (`OrdersInv`).

For `FeedFallsBack` the accounts that have refused are the first `tries` of the
order, and the order goes round every index once.

Of the server's operation, for any calendar, schedule, requests, workers, trades,
accounts, credentials and faults that satisfy the assumptions of `Calendar`,
`Overnight`, `Scheduling` and `Accounts` (types; `Dawn` is not after the market opens
nor after the refresh is sent):

| Theorem | Statement |
|---|---|
| `SessionsInvariant` | `Spec => []SessionsInv` |
| `TokensWork` | `Spec => []RefreshedTokensWork` |
| `TheBalanceRecovers` | `Spec => []BalanceRecovers` |
| `ValidationVerifies` | `Spec => OnlyValidationVerifies` |
| `OperationsInvariant` | `Spec => []OperationsInv` |
| `OperationsTypeCorrect` | `Spec => []TypeOK` |
| `OneTradeEachDay` | `Spec => []OneTradeADay` |
| `OrdersAreAskedFor` | `Spec => []OrdersAreAsked` |
| `NoTradeLeftOut` | `Spec => NoTradeIsLeftOut` |

Each part has an inductive invariant, and each says of the other part that it is
still as it began (`AccountsKeptApart`, `TasksKeptApart`), so a step of one disturbs
only the clock the other reads. `RefreshedTokensWork` is not inductive: it needs that
a request that may write a token while `ok` is not empty has one of today
(`VisitsInv`), hence that one begun yesterday is over when the refresh starts, which
is the guard of `AccountsTick`. `OneTradeADay` needs that slots are unique and that
the day in a slot is the day of India (`SignalsInv`); that needs a worker past the
gate to be in the session still, where both clocks agree, and one that holds a
position to have entered today (`JobsInv`). `OrdersAreAsked` needs that what is in
the queue, in a worker's hands or in the table has been asked for alike (`Proper`),
and that what is on a list has been opened, so that its mode does not change any
more (`LoopsInv`). The two action properties follow from the invariants and one look
at each action.

Only model-checked: the liveness properties (fairness and ENABLED are outside the
prover's reach), `PositionsAreClosed`, `RunsEnd`, `EntryReachesHealthyUsers`,
`JobsEnd`, `StopEndsFeed`, `StopEndsTimer`, `FeedReconnects`, `WaitEnds`,
`MessagesAreTaken` and `RefreshReachesEach`. Every invariant and every action property a run checks is
proved. The sums needed an induction, which the library's theorems with an operator
as parameter do not give here; it is made over a set of numbers, from the
well-foundedness of the order of the naturals (`FromZeroUp`).

## 6. Not modelled

- `base.py`'s `BaseStrategy`, from which no strategy in the repository is derived,
  and `refresh_angel_tokens` (`auth.py` 59-71), which nothing calls.
- REST quotes (`feed_rest.py`, `nifty50.py`): stateless calls and a table; that a
  quote fails is a fault of the tasks that ask for it.
- The commented-out entries and strategies of `celery.py` and `tasks.py` 210-315; the
  operator's `resume` stands for the commented-out entry of the same task.
- Trading symbols (`symbol_builder.py`): formatting that nothing in the repository
  calls.
- A timer with several owners, or a callback that calls `start`. Nothing in the
  repository uses the timer. That the owner starts it while a callback that has called
  `stop` is still running is modelled; two loops are then alive (`timer.py` 31-44),
  which is why `SingleLoop` has its hypothesis and no property of `Streams` speaks of
  one loop.
- A quantity of 0 or less, for which `place_order_angel` raises (`orders.py` 40-41).
- Two refreshes of the accounts at the same time.
- What `wait_for_orders` does not see: an update before the connection, a cancelled
  order, anything after the socket has closed. It waits forever then; `WaitEnds`
  claims an end only for completions that were delivered in time.
- A feed that ends with an exception out of `send_subscription` or
  `parse_ltp_tick`: `FeedReconnects` counts it as an end.
- The strategies that are not in this repository (`strangle`, `opening_bell`,
  `jackpot`, `stock_hedge`); the model takes from the sources what is known of
  them: they follow the demo strategy's plumbing and carry the legs
  `_build_legs` accepts.
- Beat and the queue under the executor: in `Execution` any number of invocations
  may overlap, which is more than `Scheduling` lets through.
- A position left open by a crash between ENTRY and EXIT, or by a user who
  unsubscribes in between: the code has nothing that would close it, so no
  property claims it; the liveness runs exclude both.
- Cryptography, HTTP headers, logging, notification texts, the fields of settings
  that are not clocks: stateless.
