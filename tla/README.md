# Verification of the BTC five-minute bucket bot

TLA+ specifications of the trading bot in this repository, the TLC configurations
that check them on small instances, and proofs of their most important properties
that hold for every instance. Source paths are relative to the repository root.

## 1. The system

`btc_poly_runner` trades Polymarket's five-minute "Bitcoin up or down" markets. A
*bucket* is one such market: it starts at a multiple of 300 s, has a *strike* (the
BTC price at its start) and two outcome tokens, Up and Down, of which one pays a
dollar. The bot prices Up from spot, strike, volatility and time to expiry, buys an
outcome whose ask is far enough below its fair value, sells it at a profit target or
a stop loss, and gives up whatever it holds when the next bucket begins.

### 1.1 Components

| component | state | operations | interacts with |
|---|---|---|---|
| **Thread pool** `src/core/thread_pool.cpp` | FIFO of tasks, atomic `inflight_`, `stop_`, two mutexes, two condition variables | `dispatch`, `worker_loop`, `wait_idle`, destructor | WebSocket threads dispatch; `stop()` of the feeds waits and destroys |
| **Strategy thread** `consumer_thr` in `apps/btc_poly_runner.cpp` 2270–2850, `schedule`, `execute_due` 1411–2160 | `HotState` (bucket, strike, spot, quotes, edge timers), `PaperState` (cash, position, pending order, risk stop), `trading_enabled` | one handler per event type: spot, quote, rollover, stop | takes events from the queue; writes trade logs; calls the daemon when live |
| **Runner threads** `run_live_impl` | `ev_q`, `g_stop`, `next_epoch`, feed tokens | `push_event`, rollover monitor 3041–3110, shutdown 3113–3125, signal handler | all callbacks push, the strategy thread pops; the monitor reads `hot` and switches the feeds |
| **Fixed-token quote feed** `src/polymarket/ws_fixed_token_feed.cpp` | token, best bid and ask, last emitted quote, optional pool | `start`, message handler, `emit_quote`, `switch_token`, `stop` | parses on its own thread or in the pool; callback without the lock |
| **Live execution** `btc_poly_runner.cpp` 680–867, 1662–1765, 1876–2068, 2384–2577 | balances, fill estimates, `stop_sell_retry` | submit, poll for a fill, sell until flat | daemon client |
| **Daemon client and daemon** `src/execution/*.cpp`, `poly_daemon.py` | two pipes, child pid, `running_` | start, request, stop; boot, serve | one JSON line each way per request; the strategy thread waits |
| **RTDS Chainlink feed** `src/polymarket/rtds_chainlink_feed.cpp`, `rtds_chainlink_strike.cpp` | connection, sample buffer, two timestamps, `started_`, watchdog, ping worker | start, receive, reconnect, wait for a strike | runner and recorder (spot and strike) |
| **Event-driven feed** `src/polymarket/poly_ws_quote_feed.cpp` | active market, quotes | switch to an announced market, emit | no application |
| **WebSocket clients** `ws_market_client.cpp`, `binance/stream_client.cpp` | socket, ping thread, pool | start, stop, dispatch | the feeds |
| **Recording pipeline** `apps/live_pipeline.cpp` | `HotState`, two asynchronous writers, active epoch, prefetched market | callbacks, rollover, shutdown; `enqueue`, `run`, `stop_and_flush` | the same feeds; files read offline |
| **Discovery** `bucket_market_discovery.cpp`, `gamma_bootstrap.cpp`, … | none | HTTP requests | monitor |
| **Replay, backtest, signals**; **loggers, probes**; **demo traders**; **dashboards** | local | sequential | files |

### 1.2 What is hard about it

* Five kinds of thread touch the strategy: the spot thread, two feed threads or their
  pool workers, the main thread (rollovers) and the strategy thread. Feeds check a
  token under a lock and deliver after it; the monitor copies quotes out of a view
  that lags behind the queue.
* The account is a record of some fifteen fields that six places open, close or
  cancel. What one forgets, the next order finds.
* An order may wait (`--lat-ms`) while quotes, rollovers and risk stops go on.
* The loss cap is enforced in three places with three formulas, at a rollover in none.
* Wakeups: a pool with two condition variables, one of them notified without its
  lock; a queue whose reader has its own reason to leave.
* Live: every call to the daemon can fail before or after it took effect, balances may
  be reported late, and the feed may be switched while the strategy thread waits.
* The daemon is a process behind two pipes: it may not start, die at any point, or
  write lines nobody asked for, and only their order ties replies to requests.
* Connections break, come back, or stay open and say nothing. Who notices, who
  reconnects, what is subscribed to by then and what is forgotten is spread over up to
  four threads.
* The recorder's callbacks, rollover and writer share a view, labels and a bounded queue;
  at exit they have to end in the right order.

### 1.3 What correct means, by component

* *Pool*: a dispatched task runs exactly once; `wait_idle` answers only for tasks that
  ran, and returns; the destructor drains and returns.
* *Strategy*: a pending order fits the account it is executed on; a position belongs to
  the bucket that is priced; nothing is bought in the first bucket; realised loss is
  bounded; a stop loss that was shown is sold; a BUY rests on an edge that lasted.
* *Runner threads*: the strategy sees buckets move only forward, ticks only as far out of
  order as the workers that make them allow, no bucket before it began, and no quote of an older market after one of a newer; a bucket that
  begins is adopted; a signal ends the program.
* *Feed*: after `switch_token` quotes are of the new token; a changed quote is delivered;
  whatever the connection does, the feed ends up subscribed to its token.
* *Live execution*: shares the account does not know of do not exist, or are reported.
* *Daemon client*: a call is performed at most once, while it is under way; what the caller
  is told happened did; a call returns; no daemon is left behind.
* *RTDS*: a mute connection is replaced; a strike is the first price from the bucket's
  start on, unless that price was lost; waits end.
* *Recorder*: every row is written, once and in order; rows are filed under the right
  market; the view is of the market followed; a signal ends the program.

PROJECT.json lists the hazards behind these at their lines, with the properties that
speak of them.

## 2. The modules

| module | models | code |
|---|---|---|
| `TaskExecutor` | what a client of the pool may rely on | – |
| `ThreadPool` | the pool, every step between lock operations | `src/core/thread_pool.cpp` |
| `TradingAccount` | what the account promises, no market in sight | – |
| `Strategy` | the strategy thread's handlers, paper execution | `apps/btc_poly_runner.cpp` |
| `Runner` | all threads of the runner around `Strategy` | `apps/btc_poly_runner.cpp`, `ws_fixed_token_feed.cpp`, `src/binance/stream_client.cpp` |
| `LiveTrading` | live orders, fills, stop sales and FORCE_SELL through the daemon | `apps/btc_poly_runner.cpp` |
| `OrderCalls` | what the strategy may rely on in a call to the daemon | – |
| `DaemonClient` | client, daemon process and pipes | `src/execution/poly_daemon_client.cpp`, `live_executor.cpp`, `poly_daemon.py` |
| `RtdsFeed` | the Chainlink connection, its watchdog and the capture of strikes | `src/polymarket/rtds_chainlink_feed.cpp`, `rtds_chainlink_strike.cpp` |
| `JsonlWriter` | a file behind a bounded queue | `apps/live_pipeline.cpp` 150–215 |
| `QuoteFeed` | fixed-token feeds over connections that come and go | `src/polymarket/ws_fixed_token_feed.cpp`, `ws_market_client.cpp` |
| `Recording` | the recorder: main thread, callbacks, view | `apps/live_pipeline.cpp` |
| `MCStrategy`, `MCRunner` | constants for TLC | – |
| `…Proofs` | theorems | – |

    TaskExecutor <--implements-- ThreadPool
    TradingAccount <--implements-- Strategy <--implements-- Runner (extends Strategy)
    LiveTrading: the same account as Strategy's, seen from the exchange
    OrderCalls <--implements-- DaemonClient: the calls LiveTrading makes
    Recording extends QuoteFeed and has an INSTANCE of JsonlWriter
    RtdsFeed: the source of the ticks and strikes Runner and Recording take as given

### ThreadPool

`tasks`, `inflight`, `stop` are `tasks_`, `inflight_`, `stop_`. Each producer (a
WebSocket thread) and each worker has a program counter; the owner is the thread that
calls `wait_idle` and destroys the pool. Code under `mu_` is one step; every atomic
operation and every notification outside it is a step of its own, so `Count` (34),
`Push` (36–37), `NotifyOne` (39) interleave with `Take`, `Run`, `Discount` (59),
`NotifyIdle` (60). `wait_idle` is split between its test and its sleep
(`SeeBusy`, `Block`), because the notifier does not take `idle_mu_`. Condition
variables may wake without reason. `before` and `settled` are history: what a
`wait_idle` call answers for.

### Strategy

`hot` and `acct` are `HotState` and `PaperState`. Three actions, one per event type;
each does everything its handler does: update the view, then `schedule` (edge timers,
pending order), then `execute_due`. Money, prices and shares are integers (a share
pays `One`), fees are computed exactly as `poly_taker_fee` does and rounded half up to
`FeeTick`. Volatility, spot and time to expiry enter only through the fair value, chosen
freely at every event that changes one of them. Which timers have run out and whether
the order's latency has passed are free choices as well: they depend on
the clock between events. Buckets and the entry clock are separate, so the
window rule is tested with both out of step.

Abstracted: prices as multiples of `1 / One`, shares bought rounded down to such
units, the sizing rules other than a fixed spend, logging.

### Runner

Extends `Strategy` with the wall clock, the feeds, the queue and the main thread.
`SpotStamped(w)` and `SpotPushed(w)` are worker `w` of Binance's client: the time it gives a tick
(`stream_client.cpp` 130, 144) and the callback that queues it (135, 153). `SpotWorkers` of
them run at once: `--parse-workers`, or the socket's own thread. A Chainlink tick is queued by one
thread and its time is that of its handling, so `SpotArrives` is one step.
`Accept` is `emit_quote` up to its unlock, `Deliver` its callback; `SwitchUp` and
`SwitchDown` are the two `switch_token` calls; `Snapshot` is discovery, the read of
`hot` and the wait for a strike; `PushRollover` follows the switches, as in the code.
The shutdown is a sequence of steps with the joins as guards, and the consumer may
leave on its own once the queue is empty after the signal (2340). A quote carries the
bucket it was made for, a history field that no code reads. A consumed event is exactly
an action of `Strategy`, whose entry clock may be any time: nothing in the handlers
asks for times in order.

Abstracted: `JoinFeed` and `JoinSpot` take `wait_idle` to return once the callbacks have run;
that it may not is what `threadpool_lost_wakeup` shows. The wall clock only goes forward.

### LiveTrading

What `Strategy` leaves out: the branches under `live_execution`. `Strategy` treats an
order as one step; here it is a sequence of daemon calls (`pc`), and each may be refused,
may fail, or may take effect and still be reported as failed (`BuyUnreported`,
`SellUnreported`, `StopUnreported`, `ForceUnreported`). Between two calls the monitor may
switch the feed (`Switch`) and the exchange may bring its balances up to date (`Settle`).
`acct` is what `PaperState` knows of the position, `shares` what the exchange holds,
`seen` what it reports. `op` is the locals of `execute_due` and of
`live_stop_sell_until_flat`; `op.gone` and `causes` are history no code reads.
`BuyResolve` is `live_resolve_market_buy_fill` and the booking after it, with the token
read again from the feed (1771). `NextAttempt` is the loop of the stop sale, whose failure
leaves `stop_sell_retry` set.

Abstracted: one outcome is followed; prices and cash are left out, so an update may
lead to any order the flags allow and any booking may reach the loss cap; the polls of
an order are one choice between learning the matched amount and not; `--lat-ms` is 0.
The exchange and the daemon are modelled from what the code asks of them: a
fill-and-kill order fills in full, in part or not at all, and never sells more than there
is. An order for more than there is reaches the bot as a failed call; the daemon itself
answers ok to whatever its client library returns without raising
(`poly_daemon.py:154-175`), so this is an assumption on that library.

### DaemonClient

One caller (the strategy thread) and up to `MaxDaemons` processes. `Begin` and the actions
after it are `LiveExecutor` entering `start()` and `request_response_jsonl`: `CallRunning`
finds `running_` set and goes on to write; `Launch` forks and waits for the ready line.
`ReadReady` believes any first line with the words it looks for, a fatal message among
them. `stdin` and `stdout` are the pipes, `open` whether the client still holds its ends.
`Write`, `ReadReply`, `ReadEof` are the three ends of a request; a failed one leaves
`running` set, as in the code. `Accepted` is what each caller of the executor takes for
success: `submit` any reply that says ok, a query only one with its own field. The daemon
side is `Boot`, `Take`, `Perform`, `Reply`, and what can go wrong between them: `Die`
at any time, an exception after the effect (`Reply` with "error" from "acted"), a line a
library prints (`Noise`), a reply over two megabytes (`"huge"`, whose rest stays in the
pipe). `done` and `sync` are history: how often a call was performed, and whether every line so
far was the reply to its call. `Calls!Spec` is required with `sync` as its switch:
as long as replies line up nothing is repeated or misreported, and once they do not the
abstraction says exactly what may happen.

Abstracted: JSON and the contents of orders; a line has one of eight meanings.

### RtdsFeed

`conn` is the socket: closed, down, open, or open and silent. The thread of the socket
stores a tick in three steps (`Receive`, `PushLast`, `PushBuffer`: the two atomics, then
the buffer under its lock). The watchdog takes `start_mu_` (`holder`) and works
through `reconnect_inner` store by store, joins the ping worker, restarts the socket and
waits for it to open; the caller takes the same mutex to start the feed, and then looks
for a strike: `PickAfter` while it waits, `Deadline` at the end. Time is only what the two limits
of the watchdog need: a timestamp is zero, fresh or old. A tick is its number, which is
its timestamp too; `fate` is history and says what became of it.

Abstracted: prices; ticks other than those of the subscribed symbol; the back-off of the
socket library, which tries again for as long as it is started.

### QuoteFeed, JsonlWriter and Recording

`QuoteFeed` is the feed seen from its socket thread (`at`), the thread that switches it
and the server (`subs`). An open copies the snapshot of ids under a lock and sends it
later (`Open`, `SendSnapshot`); `switch_token` is the four steps `Unsubscribe`,
`SetToken`, `SetSnapshot`, `Subscribe`, and what is sent while the connection is down
is lost. `emit_quote` is split where it unlocks: `Receive`, then the callback, then
`Remember`. There are no parse workers here: only the runner asks for any.

`JsonlWriter` is `AsyncJsonlWriter` with its two condition variables; a notification is
one step with the change it announces, because whoever is notified tests again under
the lock that the change was made under. `Recording` is the program around them: a callback
moves the view and then enqueues its row (`HotQuote`, `StoreQuote`); the main thread prefetches
(`Look`), finds a market (`Find`), switches both feeds, labels them, moves the view,
writes the rollover row, and at a signal stops feeds and file (`Leave` … `Exit`).

Abstracted: prices to a best bid with its best ask, taken from a small set; the spot file; strikes.

## 3. The runs

| run | question | instance | distinct states |
|---|---|---|---|
| `threadpool_promises` | does `wait_idle` answer correctly, does the destructor drain and return, does each task run once | 3 tasks, 2 producers, 2 workers | 93,037 |
| `threadpool_lost_wakeup` | does `wait_idle` return? **No** | 2 tasks, 1 producer, 2 workers | – |
| `strategy_latency` | orders that wait: do they fit the account, is a stop loss sold, is the loss bounded, FORCE_SELL | 3 buckets, 4 quotes, 3 fair values | 34,964 |
| `strategy_window` | entry window and persistence: does a BUY rest on a lasting edge, do positions stay in their bucket, cash running out | 3 buckets, 6 times | 68,294 |
| `runner_safety` | do events reach the strategy in order, quotes by bucket | 3 buckets, queue 2, Binance with one worker, no orders | 5,399,701 |
| `runner_live` | refinement of Strategy, adoption of buckets, shutdown | 2 buckets, queue 1, Chainlink | 76,554 |
| `runner_stale_quote` | is a BUY priced with its own market's quote? **No** | 3 buckets, queue 2 | – |
| `live` | does the account know what the exchange holds, are proceeds earned, does a cut stop sale finish, does its flag end with the position | 3 buckets, 3 shares bought, 2 attempts | 344,232 |
| `daemon` | do the calls keep `OrderCalls`, return, leave no daemon behind | 3 calls of 3 kinds, 2 daemons | 290,909 |
| `rtds` | is the strike the right tick, do waits end, is a mute connection replaced, are there always a ping worker and a watchdog, is none waited for that runs on | 4 ticks, messages of 2, buffer of 2, 1 boundary | 140,232 |
| `rtds_silence` | is a mute connection always replaced? **No** | 2 ticks, messages of 1 | – |
| `recording` | are rows complete, in order and near their market, does the view follow, is a feed resubscribed, does a signal end the program | 2 feeds, 2 buckets, 2 events, queue of 1 | 190,062 |

A run with a question answered "No" expects TLC to find the violation.

Bounds. *Pool*: two workers and two producers race on every pair of steps; three tasks
leave one queued while both workers are busy. *Strategy*: three buckets are a warm-up, a
traded one and a rollover into another; the four quotes are two worth buying at, one that hits the stop
loss of either and one too dear; `MaxCash` stops the search once the account has
gained one trade's worth, and losses are limited by the cap itself. *Runner*: two
rollovers can be in flight one behind the other; a queue of two puts an event ahead of
and behind a rollover (`MaxQueue` limits only what the feeds add; rollovers and the
stop event are always pushed). `runner_safety` has one worker for Binance, so its ticks must lie
in the queue in the order of their times; with two workers, a queue of three and one rollover
(3.3 million states, not a run of the project) no three ticks are each earlier than the one ahead, while two
are; the proof is for any number. Its `Entry` is an edge no quote reaches: its properties do
not speak of orders, and without any it stays short. *Live*: three shares allow a partial fill and a partial
sale that is itself completed in parts; two attempts let a failure follow a success and a
success a failure; the third bucket is one to carry a position into. *Daemon*: a second
daemon is what a failed start leads to; three calls are one that fails, one after it and
one after that; `garch` is read like `balance` and is left out. *Rtds*: there is a
tick before the boundary, one at it and two after, of which the last is too far from it to be a strike (`MaxSkew = 1`), so that ticks are taken before the boundary while others behind it are in the buffer; a buffer of two overflows with a message of two; ticks
are published during a reconnect and after it. *Recording*: two events, each a message or a lost connection, put a
message before and after a switch, or a lost connection in the middle of it; a queue of
one makes both callbacks and the main thread wait for the writer. With a third bucket (`LastBucket =
2`) all properties hold as well (2.4 million states, two minutes), including the rollover that
skips a bucket; the run has two to stay short. The proofs below remove these bounds
where there are proofs.

Fairness. *Pool*: weak fairness of each thread in the middle of a call; nobody has to
dispatch, call `wait_idle` or destroy the pool. *Runner*: weak fairness of the main
thread, the strategy thread, the callbacks in progress, Binance's among them, and the Binance thread's exit. (`runner_live` is a Chainlink run; the last two are for a Binance one.)
The threads are ordinary ones, so each goes on when it can. For the main thread this
includes that discovery succeeds at some time, which the code retries for ever but
cannot guarantee. Ticks, quotes, the clock and the signal are not fair. *Live*: prices
keep coming and lead to the stop sale the flag demands (a position of the current bucket
has its strike, and the streams of an open market do not end), a call returns, and a
balance is reported at last. A balance query asked for ever is answered at some time
(strong fairness: the failures in between are not excluded), and a sale asked for ever
while the market is open finds a buyer at some time. This is an assumption about
the exchange, not about the code; what the run shows is that the code goes on asking.
*Daemon*: the caller goes on, and a daemon that lives does not hang. Without the second a
call need not return: the client waits without a timeout, and that is a hazard of its
own. Death, noise and calls are not fair. *Rtds*: threads go on, time passes, and strikes
are asked for again and again, as the runner does at each rollover. Nothing is assumed of the
connection, which may stay down or mute for ever. *Recording*: the main thread, the writer and the socket
threads go on (the library reconnects). Messages, lost connections, the clock and the
signal are not fair; finding a market may fail again and again.

### What the violated runs show

* **`wait_idle` can hang.** `worker_loop` lowers `inflight_` and notifies without
  `idle_mu_`; both may fall between the waiter's test and its sleep. `stop()` of the
  Binance client and of the quote feed then never returns. Holding `idle_mu_` around
  the notification is enough.
* **A BUY on the old market's ask.** A rollover keeps the quotes in `hot`. Until both
  outcomes are quoted again the new fair value is compared with an old ask.
* **The watchdog can be blinded.** `reconnect_inner` clears `ever_got_tick_` and then
  `last_tick_wall_ms_` while the old socket is still running. A tick whose two stores
  both fall between these resets leaves "a tick was received" with "at no time". Both
  rules of the watchdog are then off, and if the new connection brings nothing nobody
  replaces it. `SilenceEndsUnlessBlind` says that this is the only way: a reconnect that
  fails, too, is made up for at the next strike.

### What the passing runs say of the code

`Reconciled` holds, and its six causes are the list of the ways in which the account can
lose track of shares: a balance reported late, an order that took effect although its
call failed, a BUY whose fill nothing confirmed, a feed switched while a BUY waited for
its fill, a sale filled in part that was booked in full, and a position carried on
purpose. A failed query or a refused order alone never does it, wherever it strikes.

`RetryEndsWithPosition` has one exception, and the code needs it: the three ways in which
a rollover gives up a position leave `stop_sell_retry` set (2570). The next position is
then sold for the stop loss at its first update, at whatever price.

`StopLossExits` speaks of losses that were shown while no order was pending. A SELL
scheduled to take a profit is called off at its execution when the price is gone
(1859–1872), even if the stop loss is hit by then; it takes another update to sell.

`DeadForGood` is a property nobody would wish for: once a request has failed because the daemon
died, `running_` stays set, every later call fails, and no position can be sold until the program is restarted.

`RowsNearTheirMarket` allows one quote of each feed, the one in flight, to be filed under the old
market behind the rollover row. It says nothing against quotes of the new token filed under the old
market between `switch_token` and `set_market_context`: these rows happen. `ViewOfBucket`
leaves out the states in which a late quote has set the view's epoch back; it stays there until the next
quote, and volatility computed meanwhile is filed for the old bucket. What it says is that nothing
else takes the view away from the market followed, or epoch and volatility apart.

Seen while modelling, without a run of their own:

* With two or more parse workers an accepted quote of the old token can be delivered after
  one of the new token (`QuotesFollowBuckets` fails with `Workers = 2`).
* With `--parse-workers` 2 or more, as in the smoke command of `src/README.md:155`, two workers can give
  ticks their times in one order and queue them in the other, and the strategy's entry clock then goes
  back. `EventsInOrder` says how far: as many ticks as there are workers may lie in the queue each earlier than
  the one ahead of it, and no more.
* `schedule` returns at once when `risk_stop` is set (1462), so a position opened by the
  purchase that reached the cap is held without a stop loss until the rollover.
* With `--lat-ms` edge timers are not maintained while an order is pending (1461): one armed
  before a cancelled order vouches for an edge that was lost since. `EdgeHeldBeforeBuy` is
  therefore checked for immediate execution.
* FORCE_SELL sells at the bid the monitor copied, not the one current when the event is
  handled.
* After a signal the strategy thread may return while the feeds still deliver.
* Cash may end half a fee unit below zero.
* `cooldown_until_ns`, set after every failed live order, is read nowhere.
* The third choice of `wait_strike`, the nearest tick, is never reached: every tick is at or
  after the boundary or at or before it, and one of the first two choices takes it.
* Nothing calls the RTDS feed's `stop()`; at exit its static object is destroyed with
  joinable threads.
* `live_pipeline` records Chainlink ticks as `polymarket_rtds_chainlink` (585), while
  `timeline_merge.cpp:23` looks for `binance` trades.

## 4. The proofs

Every theorem holds for every value of the constants that satisfies the named
assumptions of its module. `Strategy`: sides differ, prices between 0 and `One`, bid at
most ask, fee rate at most one, asks allowed at most the minimum spend, so that a purchase
buys a share. `DaemonAssumption`, `RtdsAssumption` and `RecordingAssumption` say only that
counts are numbers, limits positive, and the two feeds called "up" and "down". Two
theorems have a premise of their own, and both need it: `QuotesFollowCorrect` (one parse
worker a quote feed) and `EdgeHeldCorrect` (no `--lat-ms`).

| module | theorems | argument |
|---|---|---|
| `ThreadPoolProofs` | `TypeCorrect`, `InflightCorrect`, `WaitIdleCorrect`, `DestroyCorrect`, `ExecutorCorrect`, `WakeupsCorrect`, `LostWakeupCorrect` | four layers: typing; the counter equals three cardinalities; a task that has not run is with a producer, in the queue or with a worker; what is known once the destructor has begun. A zero counter empties all three places. `Once`: a task is in one of these places only, and has not run there. `NoneSleepsOnTasks`: while any worker sleeps, each queued task has a notification to come or a worker awake |
| `StrategyProofs` | `TypeCorrect`, `PendingCorrect`, `PositionBucketCorrect`, `WarmupCorrect`, `DrawdownCorrect`, `CashFloorCorrect`, `RiskStopFinal`, `StopLossCorrect`, `EdgeHeldCorrect`, `StrategyImplementsAccount` | `IInv` = `Fits` (shape of the account) ∧ `Solvent` (money) ∧ `Placed` (bucket), stated on a view and an account so it can be followed through `schedule` and `execute_due` one after the other |
| `RunnerProofs` | `RunnerTypeCorrect`, `RunnerImplementsStrategy`, `EventOrderCorrect`, `BucketStarted`, `RunnerInherits`, `QuotesFollowCorrect`, `NoRolloverLostCorrect`, `JoinsEndCorrect` | `RInv` = `IInv` ∧ `Typed` ∧ `Ordered`: rollovers in the queue lie strictly between the strategy's bucket and `next_epoch`, in order, and the snapshot the monitor holds is behind all of them. `Overtaken`: queued ticks each earlier than the one ahead, counted together with the workers that hold a tick earlier than all of them, are at most as many as there are workers. `Followed`: the quote in the view, those queued, the one in flight and the token, each no later than the next. `Kept`: the newest rollover is with the monitor, in the queue or with the strategy. `Closed`: what each step of the shutdown has closed before the next begins |
| `LiveTradingProofs` | `TypeCorrect`, `ReconciledCorrect`, `ProceedsCorrect`, `RetryEndsCorrect`, `StopSaleKeptCorrect`, `RetryNotByPriceCorrect` | `Fits` (types, and which call goes with which account) ∧ `Traced` (what is known of a token nothing has happened to) ∧ `Covered` (which balances a sale compares) |
| `DaemonClientProofs` | `TypeCorrect`, `DeadForGoodCorrect`, `OrderCallsCorrect`, `SomethingComesCorrect` | `Owned` (one process gets all requests), `Once` (each is in one place: a pipe, the daemon's hands or done), `InStep` (while replies line up the daemon has at most the one thing to do), `Ended` (a failed call ends all), `Talking` (a daemon that boots has printed noise only, and a running client holds the pipes of a daemon that has booted) |
| `RtdsFeedProofs` | `TypeCorrect`, `StrikeCorrect`, `GuardedCorrect`, `SilenceTimedCorrect`, `OnlyReconnectBlindsCorrect` | `Kept`: a published tick is lost for a named reason, in the buffer, or in the socket thread's hands and younger than all in the buffer; `Held`: only the holder of `start_mu_` starts or stops anything, and whoever opens a connection has joined the ping worker or found none; `Timed`: the session has a start while the feed is started, except where a reconnect is about to set it |
| `RecordingProofs` | `TypeCorrect`, `NothingLostCorrect`, `RowsCorrect`, `ViewCorrect`, `QuoteStoredCorrect`, `SubscribedCorrect`, `WaitersCorrect` | `FileInv` (a row is queued, held or in the file, in order) ∧ `StopInv` (no feed is left to call back once the writer has stopped); `MarketInv`: tokens change before labels do, and labels before the view and the row, so a quote is never ahead of its token and behind a rollover row only if it was in flight. `Heard`: the price a feed remembers, the one on its way and the last row filed for the token, wherever the callback is. `Subscribed`: outside a switch the snapshot is the token, and an open connection is subscribed to it or about to send it. `Waiting`: who waits, where it stands, and who will come |

`ReconciledCorrect` is about the states between two events, which says nothing while an
order is under way; `Accounted` follows each clean token through the calls: while a BUY
waits, the exchange holds what the order matched; during a stop sale nothing is claimed
of its token, and the sale can only end flat or with the flag set. `ProceedsCorrect`
needs that a balance read before a sale is either up to date or the one read first, so
that a late balance can hide a sale but not invent one. `RetryEndsCorrect` follows the
flag through the calls: whoever flattens an account outside a rollover has cleared it.

`DrawdownBounded` is not inductive: a FORCE_SELL at bid 0 loses the whole outlay, so the
invariant has to bound the outlay of the open position (`4 * basis <= 5 * Spend +
2 * FeeTick`), which rests on three lemmas about the rounded fee: it is at most a
quarter of the amount plus half a tick, rounding moves it by at most half a
tick, and the affordable spend leaves room for the exact fee. `RunnerInherits` combines the
refinement with every theorem about `Strategy` that has no premise: in the running program,
whatever the threads do, the drawdown is bounded, cash has its floor, orders fit, positions
are placed, nothing is traded in the warm-up, a risk stop is final, a stop loss is
sold, and the account keeps the promises of `TradingAccount`.

`StopLossCorrect` and `EdgeHeldCorrect` are about one step and the one after it. The
first needs that a SELL that carries the stop flag is executed or kept, whatever the
quotes then are; the second that the timers still running name edges the last update
saw (`SinceInv`).

`OrderCallsCorrect` answers two questions `LiveTrading` leaves open. An order may be
performed and still be reported as failed, by a reply cut short, a daemon that dies after
the effect or an error raised after it: `LiveTrading`'s unreported orders are these. "ok"
for an order that was not performed is possible only once replies have stopped lining up
(a printed line, a reply over two megabytes); up to then it is excluded.

`ExecutorCorrect` hides the pool: up to fairness its clients see `TaskExecutor`. That a
task runs at most once is not an invariant of the counter: `Once` has to keep all
places a task can be in apart, and the history `before` has to lie within what has run when
the counter is zero.

`QuoteStoredCorrect` is about the filter of `emit_quote`, which drops a price equal to the last one
it passed on. A price remembered for an older token would drop the first quote of the new
one; `Heard` shows that what is remembered is forgotten, or overwritten by a price of the
new token, before the feed is back at its socket.

What liveness rests on. That something happens at last is beyond the proof system; that
nothing can stand in its way for good is a safety property, and each of these is proved:

| liveness, checked by a run | its safety half, proved | what it excludes |
|---|---|---|
| `ImplementsExecutor`, `DestroyReturns` | `NoneSleepsOnTasks` (`WakeupsCorrect`) | a task in the queue while everybody sleeps, a worker asleep in the destructor |
| none: `wait_idle` can hang | `OnlyBlockLosesWakeup` (`LostWakeupCorrect`) | a second way to hang besides the one the violated run shows |
| `RolloverAdopted` | `NoRolloverLost` (`NoRolloverLostCorrect`) | a bucket the feeds have moved to and the strategy is never told of |
| `ShutdownCompletes` | `JoinsEnd` (`JoinsEndCorrect`) | a join of a thread that nobody told to stop, a stop event lost before the strategy thread reads it |
| `StopSaleFinishes` | `StopSaleKept`, `RetryNotByPrice` | a stop sale forgotten half-way, a take-profit order while it is unfinished |
| `CallsReturn` | `SomethingComes` (`SomethingComesCorrect`) | a read for a line nobody has printed or will print |
| `OrphansEnd` | `TypeOK`'s clause on `open` (`TypeCorrect`) | a daemon whose input stays open when the client has given it up |
| `SilenceEndsUnlessBlind` | `SilenceTimed`, `OnlyReconnectBlinds` | a mute connection that no rule of the watchdog times, another way to be blinded |
| `SubscribedAgain` | `SubscribedWhileOpen` (`SubscribedCorrect`) | an open connection subscribed to an older token |
| `ExitReached` | `NoneWaitsInVain` (`WaitersCorrect`) | producers of rows and the writer waiting for each other |

The formulas in the middle column are invariants or action properties defined beside
the model they speak of. TLC found each of them true with the constants of that
model's run before it was proved; the runs check the stronger property on their left.

Only model-checked: the liveness properties themselves and the fairness of
`ImplementsExecutor` (`DestroyReturns`, `RolloverAdopted`, `ShutdownCompletes`, `StopSaleFinishes`,
`CallsReturn`, `OrphansEnd`, `SilenceEndsUnlessBlind`, `StrikeReturns`,
`SubscribedAgain`, `ExitReached`). Every safety invariant and every action property of a passing run is
proved, two of them (`QuotesFollowBuckets`, `EdgeHeldBeforeBuy`) under the premise named above.

## 5. Not modelled

* `PolyWsQuoteFeed`: no application uses it.
* The connection of the Binance client and the ping threads of the WebSocket clients: what
  they share with the rest is the pool, which is modelled, and the ticks, which `Runner` sees.
* Replay, backtest and the signal library: sequential functions over recorded files,
  within reach of unit tests.
* Discovery, bootstrap and REST quotes: HTTP and JSON without state. `Runner` and
  `Recording` take every answer they may give.
* The manual-token mode (`--poly-token`) of runner and recorder: one fixed market, no rollover.
* Option parsing, logging, dashboards, demo traders and probes: they take no decisions
  that the properties tell apart.
* `stop()` of the RTDS feed, which nothing calls, and the callback for ticks.
* The recorder's spot file, a second `AsyncJsonlWriter` that shares nothing with the
  first, and its strikes.
* A daemon that hangs: then a call does not return, as section 3 says under fairness.
* Restarts: unhandled exceptions end the process and nothing is persisted that a restart would read, so
  on paper a restart begins in `Init`. Live, the exchange keeps the shares and the bot does
  not ask for them when it starts; `LiveTrading` has no restart.

## 6. What is left

In order of importance:

1. A restart in `LiveTrading`: which shares nobody sells any more.
2. `LiveTrading` composed with `DaemonClient`, in place of the argument through `OrderCalls`.
3. Operators for `timeline_merge` and `latency_backtest` against reference definitions.
