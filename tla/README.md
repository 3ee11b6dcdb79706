# Verification of the SignalixAI backend

TLA+ models of the parts of this repository where several activities touch the
same state, or where one activity goes on for many steps, checked by TLC on
small instances and, for the main invariants, proved by TLAPS for every size.

The system places trades. The part of it that carries most state machines, and
where a wrong interleaving costs money, is `services/broker_integration`: one
asyncio process that takes orders over HTTP, holds some of them until someone
approves them (action center) or a price is reached (GTT), places several as a
unit (baskets) or in slices (splitter), and follows each order it placed at the
broker. Each of its services has a module. Around it are services of their own
processes, which share databases and Redis with their own handlers and tasks
only: the analysis pipeline, backtests, the algo builder, webhooks, alerts,
market data, marketing. Those of their parts that are protocols are modelled;
the rest is numeric code, CRUD and message formats.

## Inventory

| component | state | operations | what is hard | correct when |
|---|---|---|---|---|
| order placement, `order_manager.py` `place_order`, `adapters/` | none | validate, POST, fold the answer | the answer may be lost, or be a 200 without an order | callers survive every outcome |
| order manager, `order_manager.py` | one polling task per order in `_status_tasks`, event callbacks | place, poll, emit, `on`, `stop` | awaits at every poll and every client; keys removed by the tasks themselves | no task is lost or forgotten, an order is followed until it is done, clients learn its end |
| action center, `action_center.py` | actions with status, deadline, result; one FIFO lock | submit, approve, reject, cancel, cleanup, stop | racing decisions, deadlines, the lock held over the order | at most one order, only if approved in time; decisions stand; nobody starves |
| GTT orders, `gtt_orders.py` | GTTs with conditions, price cache, lock | create, cancel, modify, update price, sweep | prices move during an order, a comparison may raise | one cancels the other; what is done stays done; triggers fire, deadlines expire |
| basket orders, `basket_orders.py` | baskets with legs, lock | create, execute, roll back, cancel | executor and canceller interleave at each order | all or none; verdict agrees with legs |
| order splitter, `order_splitter.py` | split orders, execution tasks, lock | create, execute, cancel | cancelling a task in the middle of an order, rounding | legs add up and go out once; cancelled is quiet |
| smart orders, `smart_orders.py` | recent orders by key, lock | place with duplicate check | key of requested and of adjusted quantity | a duplicate is blocked, and nothing else |
| connection manager, `connection_manager.py` | adapter, state and heartbeat task per broker | register, connect, disconnect, reconnect, heartbeat, stop | a heartbeat that reconnects cancels itself; user calls in its pauses | a connected broker is watched, a reconnect goes through, failed ones are retried up to the limit, stop ends every loop |
| analysis pipeline, `orchestration/langgraph_pipeline.py` | the state of one analysis | supersteps of agents, conditional edges | nodes with several incoming edges do not wait for all | ends, debates twice, decides from all reports |
| event backtest, `backtesting/event_engine.py` | positions, cash, equity | one bar after the other | exits, gaps, entries and trailing stops on one bar, one cash account | equity is that of the trades, stops only tighten |
| backtest jobs, `backtesting/router.py`, `tasks.py` | rows, results, a counter of slots in Redis | submit, run, read the result | check and count are separate, tasks are killed or delivered again | the limit holds, slots have owners, complete means a result |
| strategies, `algo_builder/router.py` and two more | one row, cached code in Redis | update, compile, paper, promote, delete | each request looks at what it loaded, others commit meanwhile | cached code is of a validated spec; live is earned or asked for |
| webhooks, `integration_service/router.py`, `queue/webhook_queue.py`, `handlers/rate_limiter.py` | logs, queue, window in Redis | receive, enqueue, process, fail | crash or failure between two calls, requests counted together | accepted ones are kept, one signal each, limit kept |
| circuit breaker, `queue/circuit_breaker.py` | state and counts | admit, record, half-open probe | calls end in another state than they were admitted in | opens, admits few probes, closes again |
| anomalies, `alerts/deduplication.py`, `matcher.py` | last event per key and counter of the hour in Redis | look up, store, match, count | separate Redis calls of concurrent events | escalations pass, repetitions do not; limit per hour |
| alert delivery, `alerts/delivery_engine.py` | attempts per channel, log | deliver, retry, log | a commit fails and breaks the session all channels share | every channel tried, repeated only in doubt, log true |
| alert WebSockets, `alerts/ws_router.py`, `channels/in_app.py` | one entry and one listener per user, list of offline alerts | connect, disconnect, listen, send, queue | endpoints of one user cross; alerts published to a listener that ends | an alert is shown once or kept |
| market data, `market_data_service/router.py` | cache, clients, broadcasting task | read, connect, subscribe, broadcast | fetches cross; clients come and go during a round, the task ends or fails | prices fresh, connected clients fed, rounds reach all |
| referrals, `marketing-service` `referrals.py`, `reward_service.py` | rows, counters, rewards | track an event, reward a conversion | a commit per statement, events repeated or crossing | each referral and reward counted once |
| affiliates, `affiliates.py` | conversions, commissions, totals | track a conversion, record a commission | as above, and no constraint on the month | once per month, totals add up |
| reconciliation, `reconciliation.py` | last report, alert callbacks | compare every 5 minutes, stop | none but its wiring: it has no database | differences are reported |
| shutdown, `main.py` `lifespan` | the services above | stop each in turn | an exception in one skips the rest | everything is stopped |

In `broker_integration` the services call each other directly: action center, GTT
monitor, basket executor, splitter and smart orders all call
`OrderManager.place_order`, which asks the connection manager for the adapter of
the broker. Callbacks go from the order manager to the WebSocket handlers of
`main.py`. There is no shared state but those calls, so each service is modelled
by itself, against the outcomes of `place_order`. The other services meet only
over HTTP and in tables one of them writes: what one takes from another (the
result of a backtest, the result of an agent) is an input of its module.

## How the code's concurrency is modelled

asyncio runs one task until its next `await`; an action is what one task does
between two awaits that may really suspend. An `asyncio.Lock` that is free is
taken without suspending and is handed on in FIFO order. Where a lock is held
over an await (approve in the action center, the GTT sweep, `cancel_basket`, a
smart order) the holder is a variable; where it is not, the whole handler is one
action. A call of `place_order` is two actions: it is sent, and later it returns
one of the outcomes of `PlaceOrder`. Each call of Redis and each commit is a step,
and may fail where the code catches its exception. Times are booleans that turn
true (`overdue`) or small ages. A counter that grows for ever stops at a bound
that is a named constant (`MaxVersions`, `MaxCount`, `MaxHours`, `MaxRuns`,
`MaxDebt`, `MaxTime`, `Oldest`).

## Modules

| module | models |
|---|---|
| `PlaceOrder` | the outcomes of a `place_order` call: accepted, soft (success without an order), refused, lost (order without an answer), raised |
| `OrderApproval` | what the action center promises of an action, and the GTT service of a GTT: one decision, at most one order and only after approval |
| `ActionCenter` | `action_center.py`: handlers queue for the lock; the holder runs |
| `GTTOrders` | `gtt_orders.py`: the sweep visits GTTs in order of creation, prices move at any time |
| `BasketOrders` | `basket_orders.py`: sequential and parallel executor, rollback, canceller |
| `OrderManager` | `order_manager.py` tracking, callbacks of `main.py` `websocket_orders`, `stop()` |
| `ConnectionManager` | `connection_manager.py` for one broker id: requests, heartbeat loops, reconnect, `stop()` |
| `OrderSplitter` | `order_splitter.py`: the legs of the three strategies, the background task, `cancel_split_order` |
| `SmartOrders` | `smart_orders.py`: the lock, the duplicate window, the adjusted quantity |
| `AnalysisPipeline` | `langgraph_pipeline.py`: the graph as LangGraph runs it, in supersteps |
| `EventBacktest` | `event_engine.py`: one pass over the bars, in integers |
| `BacktestJobs` | submissions, slots, the Celery task with redelivery and time limit, reading results |
| `StrategyLifecycle` | the overlapping requests that change one strategy, each on what it loaded |
| `Webhooks` | `receive_webhook`, the sliding window, the queue, `process_webhook_job`, restarts |
| `CircuitBreaker` | `circuit_breaker.py` in one process |
| `AnomalyAlerts` | deduplication of events and matching of rules, every Redis call a step |
| `AlertDelivery` | `delivery_engine.py`: channels in order or at once, attempts, the log and its session |
| `AlertSockets` | endpoints and listeners of one user, `InAppChannel.send`, the queue of offline alerts |
| `PriceFeed` | `get_cached_data` and the broadcasting task of the market data service |
| `Referrals` | the events of one referred user and the rewards of her conversion, statement by statement |
| `Commissions` | the conversions and commissions of one affiliate |
| `MCServices` | the fourteen from `OrderSplitter` to `Commissions` side by side |
| `MC*` | constants, restrictions and symmetry for TLC |
| `X_proofs`, for the five services of `broker_integration` with runs of their own and `StrategyLifecycle` | theorems about `X` and their inductive invariants |
| `Messages_proofs` | the same for webhooks, breaker, prices, delivery, anomalies and sockets, as instances in `MCServices` |
| `Services_proofs` | the same for smart orders, jobs, referrals, commissions, splits and the analysis, and the types of all |

State and code correspond by name: `status` is the `status` field of the item,
`holder` and `queue` are the lock, `fired` is `triggered_at`, `registry` is the
key set of `_status_tasks`, `callbacks` is `_callbacks['order_status_update']`.
In `ConnectionManager`, `current` is the broker's entry in `_connections` and
`_states` (an adapter stands for itself and its `ConnectionState`), `tracked` its
entry in `_tasks`, and each task is described by the await it is at: `at`, the
adapter it looked up before (`using`), the heartbeat it waits for (`awaited`).
`orders` and `live` are the broker's view, which the code cannot see and the
properties are about. `at` is, in every module, the await a handler is at; the
variables that record what crossed (`overlap`, `crowded`, `crossed`, `raced`,
`mixed`, `excused`, `severed`, `dropped`) are not in the code, and tell which deviations a
property admits and why. Operators named `Bug_...` are plausible mistakes;
nothing uses them, and each makes the property it is paired with in
`PROJECT.json` fail.

Abstractions: an order is its outcome, not its fields; a price is one of a few
numbers; a client is what it was last sent; OCO_LIMIT is OCO; the age of
`last_heartbeat` is fresh or stale; `auto_reconnect = False` is
`MaxAttempts = 0`. An adapter whose `connect` raises is one that
did not connect (`connection_manager.py:158` catches it), and `disconnect` of the base
class `EnhancedBrokerAdapter` (`base_adapter.py:240-248`) catches what the broker
raises. Heartbeats take their names from
the pool `Beats` and return them when they end. A cancelled heartbeat is delivered its
cancellation within two turns of the event loop, before any HTTP answer: a
registration in those turns counts as made after them (`Settled`). Inputs that are
not numbers (`BadTriggers`, the outcome "raised") are kept, since the HTTP
handlers take trigger conditions and order requests as unchecked dictionaries.
What an agent says, what a signal is worth and what a strategy computes is
abstracted to whether it succeeds. A backtest trades one unit at integer prices,
with fixed distances of stops and fixed costs. A cached price is the time it was
read at its source. Where users or keys share nothing (webhooks, sockets,
referrals, commissions, slots, deduplication) there is one of them.

## Runs

| run | bounds | shows |
|---|---|---|
| `action_center` | 2 handlers, 2 actions, 2 users | at most one order per action, only approved ones, outcomes recorded, decisions stand; requests are answered, pending actions are decided, `OrderApproval` is implemented |
| `gtt` | 2 GTTs, 1 symbol, 2 prices, a trigger that is no number | `OrderApproval` is implemented (so one order per OCO), status true although sweeps abort, done is done; overdue GTTs expire, reached triggers fire |
| `basket` | 1 basket of 3 legs, adapters that set `order_id` | no leg twice, nothing after a failure, true verdict, a rollback of exactly the orders whose id is known; executions and cancels end |
| `orders` | 2 orders, 2 clients, 2 statuses | exact registry, a round of callbacks reaches all who are there at its end, clients are told the end; tasks end with their order and with `stop()` |
| `connections` | 2 handlers, 2 loops at a time, 2 registrations, 1 attempt | connected brokers stay watched, a reconnect is not cut and connects, `stop()` ends all loops |
| `services` | see below | the fourteen services that share no state |

Two handlers and two items are enough for every race in `broker_integration`: all
conflicts are between two calls on one item, or between one item and the lock
another holds. Three legs give a failed leg with one before and one behind it.
Two prices put a trigger on both sides of the market, and one GTT behind
another is what an aborted sweep skips. `MCGTTOrders` restricts the inputs: GTTs
meet in nothing but the sweep, so one of the two has a single condition; the
other buys, as selling mirrors buying with the prices exchanged. Two clients are
one that is gone and one behind it in the list. Two loops are one that is
replaced, or survived its own reconnect, and its successor; two registrations are
an adapter and the one that replaces it while tasks still hold the first. One
attempt is enough for the connections: each connect resets the count, so a second
is never counted (`connections_retry` allows two and shows it). The model of a
connect waits for a free loop name, so it does not count how many untracked loops
there can be.

### The run `services`

`MCServices` puts fourteen modules side by side. Its variable `part` chooses the
one that moves; the others stay in one of their initial states. The reachable
states are the sum of those of the components, not their product, and a property
holds in the run if and only if it holds of its component. The modules share no
variable. Two of the names of the requests, `p1` and `p2`, are interchangeable
in every module that uses them, and no property of the run is a liveness
property: so the symmetry is sound.

| part | bounds | property |
|---|---|---|
| `strategy` | 2 requests, 2 versions of the spec, one of them refused by the compiler | `CompiledIsValid`, `LiveIsEarnedOrAskedFor` |
| `analysis` | any set of optional analysts, 5 agents that may fail (the screener, one core and one optional analyst, a debater, the trader) | `AnalysisIsSound` |
| `backtest` | 4 bars out of 6 shapes (still, rising, falling, a gap either way, a jump that halts), 2 positions, 4 lists of exit rules | `AmountsAddUp` |
| `jobs` | 2 submissions, a limit of 1, 2 deliveries | `SlotsAreHonest` |
| `splits` | 1 order of 10.00 in 3 chunks, price levels or icebergs of 3.70, random factors 0.9 to 1.1 | `SplitsAreTrue`, `AmountsAddUp` |
| `smart` | 3 requests, 2 quantities, 2 windows, ages up to 2 | `DuplicatesAreBlocked` |
| `webhooks` | 2 requests, a limit of 1 | `WebhooksAreKept` |
| `breaker` | 3 calls, thresholds 2, counts up to 3 | `BreakerProtects` |
| `anomalies` | 3 events, 2 severities, 1 rule, 1 alert per hour, 1 change of the hour | `AnomaliesAreTold` |
| `delivery` | 2 channels, 2 attempts | `AlertsAreDelivered` |
| `sockets` | 2 connections of one user, 1 alert that is followed among all of hers | `AlertsAreDelivered` |
| `prices` | 1 request beside the broadcasting task, 2 clients, a TTL of 2, time up to 2 | `PricesAreFresh` |
| `referrals` | 3 requests | `RewardsAddUp` |
| `commissions` | 3 requests, 2 months | `RewardsAddUp` |

`TypesOK` is the conjunction of the type invariants of all of them but the
backtest, whose types belong to `AmountsAddUp`: that property holds what is said of
amounts that the code adds up over a list (cash and equity of a backtest, the legs
of a split), and `SplitsAreTrue` the rest about a split. For the five
modules with a run of their own, the type invariant is proved (`TypeCorrect`) and
not run again. Races need two requests everywhere; a third finds what the first
two left (`smart`, `anomalies`, `breaker`, `referrals`, `commissions`). Where a
threshold or a limit matters it is as small as it can be with something on both
sides of it. Four bars are an entry, two bars in the position and the end of the
data.

Some hazards are races the code does lose: two requests counted at once exceed a
limit (`crowded` in `Webhooks`, `mixed` in `AnomalyAlerts`, `excused` in
`BacktestJobs`), two conversions at once are rewarded twice (`crossed` in
`Referrals`), an update during a compilation leaves a stale hash (`overlap` in
`StrategyLifecycle`). The properties admit these, and only these, and say so: what
they show is that nothing else breaks what they state, neither failures nor
repetitions nor other orders of the steps.

The runs with `CHECK_DEADLOCK FALSE` are of systems that may stop: the service
was stopped, all ids were used and everything ended, an analysis or a backtest
came to its end, or the bound on requests was reached.

### Disagreements the models show

Each is a run expected to fail (`findings` in `PROJECT.json` quotes the lines).

- `gtt_poison`: one trigger price that is no number stops every sweep at that
  GTT, so those behind it neither expire nor trigger.
- `basket_builtin`: rollback looks at `order_id`, which no built-in adapter
  sets: the legs of a failed atomic basket stay at the broker.
- `basket_cancel`: the executor overwrites CANCELLED and goes on placing.
- `orders_partial`: PARTIALLY_FILLED contains FILLED, so a partly filled order
  is no longer followed.
- `connections_retry`: a reconnect that fails sets `connected` to False, and the
  loop does nothing for a broker that is not connected: of the attempts allowed,
  only the first is made.
- `backtest_gap`: exits are processed before gaps on each bar, so when the
  market opens beyond its stop, a position fills at the stop and not at the open.

The models also contain, without a run of their own:

- Orders: an action that is EXECUTED though the broker took no order (a 200
  without an order id is a success to `place_order`, `zerodha_adapter.py:143`); a
  SINGLE GTT with several conditions, which places an order for each
  (`gtt_orders.py:362`); a validity that `modify_gtt` does not bound
  (`gtt_orders.py:257`); one failed poll that ends the tracking of an order
  (`order_manager.py:362`); callbacks of closed WebSockets that stay because
  `order_manager.off` does not exist (`main.py:664`); `OrderManager.stop()`
  iterating over a dictionary its own tasks are emptying, so that it raises and
  `lifespan` skips the rest of the shutdown (`order_manager.py:627`).
- Connections: `last_heartbeat` that no connect resets, so that a broker once
  stale is reconnected at every check while the limit on attempts, reset by each
  connect, is never reached (`connection_manager.py:140`, `:269`); the reconnecting
  loop that goes on, untracked, beside its successor (`:293`); a user's disconnect
  undone by the end of a reconnect's pause (`:220`); a disconnect that finds the
  entry of `_tasks` gone, raises KeyError and leaves the adapter open (`:296`), or
  that waits for a loop which survives (`:293`).
- Splitter: a leg whose order the broker was taking when the split was cancelled
  stays pending, with its order live (`order_splitter.py:461`); no endpoint calls
  `cancel_split_order`.
- Analysis: a skipped optional analyst leads to `bull_research` at once and the
  others a superstep later, so two waves pass through the debate and agents behind
  it run twice, where a comment says LangGraph waits for all of them
  (`langgraph_pipeline.py:303`).
- Backtest jobs: the slot of a backtest nobody reads is never given back, and one
  read twice is given back twice (`router.py:284`).
- Webhooks: what `mark_failed` requeues is processed by nobody, as `dequeue` has
  no caller.
- Alert WebSockets: the endpoint of a replaced connection calls
  `disconnect(user_id)` when it ends, and silences the connection that replaced
  its own (`ws_router.py:359`). A push to the queue that fails is swallowed, and `send` answers
  "sent" and `queued_offline` though the alert is lost (`in_app.py:110`, `QueueFails`);
  a deletion that raises may have emptied the queue of alerts nobody is then shown
  (`in_app.py:140`); beyond a hundred alerts, or after a week, the queue forgets
  (`in_app.py:105-108`, `QueueForgets`).
- Strategies: a flow may be set to "archived", which is no `StrategyStatus`: a column
  of that type refuses it, the VARCHAR column of the migrations takes it, and the ORM
  then cannot load the row any more (`flow_router.py:125`, `FlowRefused`).
- Market data: `get_market_regime` (71) and `get_macro_context` (165) keep
  different data under one cache key, "regime"; the model has one key, read one
  way.
- Marketing: the first event of a referral creates a pending row even if it is a
  conversion, which is answered as tracked and rewarded only when reported again
  (`referrals.py:271`); a late first payment makes a cancelled conversion of an
  affiliate active again.

## Fairness

Weak fairness on what the event loop runs by itself: a task that is ready, a
sleep that ends, an HTTP call that returns or times out (the adapters' clients
have a 30 s timeout), a WebSocket send that is taken or raises. None on users:
requests, price updates, brokers moving an order and clients joining or leaving
may happen or not. The lock of the action center is FIFO as asyncio's is, so
weak fairness of each handler is enough. `OverdueExpires` and `TriggersFire`
assume that all triggers are numbers; `gtt_poison` shows what happens otherwise.
The services of the run `services` are checked for safety; that an analysis ends
is there a bound on its supersteps (`EndsWithinLimit`).

## Proofs

TLC checks the above for two or three of each; TLAPS proves the following for
all values of the constants that meet the named assumptions. Each theorem is
`Spec => []P`, from an inductive invariant `IInv` with `Init => IInv` and
`IInv /\ [Next]_vars => IInv'`, one proof step per action. Every safety
property the passing runs check has its theorem, except `AmountsAddUp`.

- `ActionCenter_proofs`: `TypeCorrect`, `AtMostOneOrder`, `ApprovedFirst`,
  `ApprovedAndAnswered`, `DecisionsAreFinal`, and `RefinesApproval`: each step of
  the action center is a step of `OrderApproval` or a stutter. The strengthening
  ties the lock holder to the action it is placing: only the holder's action can
  be APPROVED without a result, and it has no order yet. Without it a second
  return could not be excluded.
- `GTTOrders_proofs`: `TypeCorrect`, `OneCancelsOther`, `StatusesAreTrue`,
  `DoneStaysDone`, and `RefinesApproval`: a GTT is an action that the market
  approves. The approval is its trigger, the answer to its order settles it, and
  so does a stop of the monitor while the order is under way; the orders the
  mapping shows are those of GTTs that place one at most (`OneShot`: OCO, or a
  single condition), since one with several conditions places an order for each.
  The strengthening says that conditions wait for execution only within a sweep
  and only for the GTT it is visiting, which is TRIGGERED; for one that is
  `OneShot` there is one of them and no order yet. `FirstIn` (the first condition
  met exists) rests on the well-foundedness of the naturals.
- `BasketOrders_proofs`: `TypeCorrect`, `PlacedOnce`, `StopsAtFailure`,
  `TrueVerdict`, `RollsBack`. The strengthening describes the loop: behind `pos`
  legs are pending and unsent, before it some leg failed or all were accepted; a
  parallel basket has sent all and every landed leg has an outcome. A turn of
  either cancelling loop keeps this (`CancelTurnIsSound`), which is why executor
  and canceller may interleave. `RollsBack` is of all adapters: what a rollback took
  back is exactly what has an `order_id`, though a cancel may have run beside it; that
  this is every leg the service got an answer for (`RollbackIsComplete`) follows only
  where adapters set it, and `basket_builtin` shows that the built-in ones leave legs
  behind.
- `ConnectionManager_proofs`: `TypeCorrect`, `Watched`, `NotCut`. The
  strengthening says who answers for a connected broker: a live loop, a task
  closing its very adapter, or one about to, which needs the entry in `_tasks`
  that it is going to remove (`WatchInv`); what makes this stable is that only
  sleeping loops, or one that awaits itself, are tracked or cancelled
  (`CancelInv`), that whoever awaits a loop which survived does not hold the
  tracked one (`AwaitInv`), and that tasks about to close hold the adapter that is
  registered (`UsesInv`).
- `OrderManager_proofs`: `TypeCorrect`, `RegistryExact`, `RoundsReach`, `EndShown`.
  The strengthening says that a sending task has reached exactly the callbacks
  before its index, and that whoever was shown anything is in the list. As a client
  that joins is appended, it is behind every index, which is what `RoundsReach` needs
  (`Registered`).
- `StrategyLifecycle_proofs`: `TypeCorrect`, `ValidCode`, `LiveForAReason`. What a
  compilation loaded is the spec of the row, and an update that loaded no hash
  finds none, unless update and compilation overlap (`CompileInv`, `UpdateInv`,
  `OverlapInv`); code on its way to the cache was accepted (`StoreInv`).
The other two modules prove about the instances in `MCServices`. The lemmas
`...AmongOthers` (`ServicesSpec => X!Spec`: each step is one of the component or
leaves its variables alone) carry what is proved of a component over to the
composition, so that the theorems `...Together` state exactly what the run
`services` checks (of the strategies, `ValidCode` and `LiveForAReason` do).

`Messages_proofs`:

- Breaker: `FewFailuresFewProbes`, `ProbationEnds`, `BreakerProtectsTogether`, for
  all thresholds with `SuccessThreshold <= HalfOpenMaxCalls + 1` (with more
  successes needed than probes admitted, the breaker would never close). On
  probation, the calls tried are one more than the probes counted, and successes
  and probes under way together cover them unless one was cancelled, which takes
  the cardinality of the set of probes.
- Webhooks: `KeptAndSignalledOnce`, `WindowIsKept`, `WebhooksAreKeptTogether`. For
  every place of a handler or task, what its log, answer and signals can be; the
  window is bounded by what each request counted, as long as no two counted
  together.
- Prices: `PricesAreFreshTogether`. What was fetched is no older than the time its
  fetch began and what is cached no older than its stamp (`ReaderInv`,
  `CacheInv`), although fetches overlap and overwrite each other; who is owed the
  current message was sent it or is still to be (`RoundInv`), which is what a
  client that leaves during a round must not disturb.
- Delivery and sockets: `AlertsAreDeliveredTogether`. A channel has received at
  most its doubtful attempts and the one that was confirmed (`ChannelInv`); without
  a critical alert there is one channel with those before it over and those behind
  it waiting (`Frontier`). What is registered for a user belongs to an
  endpoint that is still to call disconnect (`RegisteredInv`), a socket that is alone has its
  listener (`AloneInv`), and an alert that was published is shown, queued, in an
  inbox, about to be sent, or was lost for one of the named reasons: a client left, a
  listener lost Redis, the queue was deleted between two others' calls, or lost it by
  itself (`FoundInv`).
- Anomalies: `AnomaliesAreToldTogether`. The key in Redis is that of an event that
  was let through and the most severe so far while nothing crossed, failed or
  expired (`KeyInv`, `StoredInv`); the counter of the hour bounds the alerts.

`Services_proofs`:

- Smart orders: `DuplicatesAreBlockedTogether`. A success is remembered as long as
  its age unless a request with a shorter window threw its key away
  (`RememberedInv`), and what is remembered did succeed and not earlier
  (`SucceededInv`): the one gives "every duplicate", the other "only duplicates".
- Backtest jobs: `SlotsAreHonestTogether`. While nothing is excused (submissions
  that crossed, a result made or read twice, a call of Redis that failed), the counter in Redis is
  the cardinality of the set of submissions counted and not freed (`ExactInv`), and
  only one submission at a time is between its check and its increment (`SlotInv`).
- Referrals and commissions: `RewardsAddUpTogether`. The counters lie between the
  numbers of requests that must have passed their commit and that may have
  (`CountInv`); the totals are the sums of the commissions committed unless one was
  cut off between its two statements (`TotalInv`). Both count requests at places,
  which is why they are proved for finite sets of them.
- Splits: `SplitsAreTrueTogether`. The loop has placed exactly the legs before
  `pos`; at most one leg is cut off, and only in a cancelled split (`EndInv`).
- Analysis: `AnalysisIsSoundTogether`. One scene per superstep: which agents are
  active and how often each ran, in one wave if all optional analysts are wanted
  (`OneWave`) and in two otherwise (`TwoWaves`). It also shows the number of
  supersteps of the longest analysis, 12, so that `RecursionLimit` may be any
  number from there on (the code leaves LangGraph's default, 25).
- `TypesAreKeptTogether`: `TypesOK`, under the assumptions of all of them.

Assumptions, all met by the runs:

- `broker_integration`: prices and validities are naturals, `Unknown` and the bad
  triggers are not prices, an OCO has room for two conditions, the lock's `Nobody`
  and the cleaner are no handlers, orders are finitely many, requests, heartbeats
  and the stopping task are distinct, the limit of attempts is a natural.
- Strategies: there is at least one version and only versions are refused.
- `BreakerAssumptions` (the thresholds as above, and below `MaxCount`),
  `PriceAssumptions` (a TTL of at least 1; the broadcasting task is a reader),
  `DeliveryAssumptions` (at least one attempt), `AnomalyAssumptions` (severities
  begin at 1), `SocketAssumptions` (`NoSocket` is none), `SmartAssumptions` (the
  limit a quantity is adjusted to is a quantity, windows are not longer than the
  oldest age, `Nobody` is no request), `JobAssumptions` (finitely many submissions,
  a tier that allows a number of them), `AnalysisAssumptions` (the limit is at
  least 12), finitely many events of referrals and conversions.
- `CutsAreLegs` in `MCServices`: however an order is cut, the result is a non-empty
  sequence of numbers. The legs come from a fold over a sequence, about which the
  provers can show nothing; TLC evaluates the assumption for the constants of the
  run.

Only model-checked: all liveness (`RequestsAreAnswered`, `PendingIsDecided`,
`OverdueExpires`, `TriggersFire`, `CallsEnd`, `StopEndsTasks`, `FinalIsNoticed`,
`ReconnectConnects`, `StopEndsAll`) and the liveness part of the action center's
`ImplementsApproval`, since the provers handle neither fairness nor ENABLED; and
`AmountsAddUp`, since the sums over the trades of a backtest and the legs of a
split are folds, and what they compute would need induction over data.

## Not modelled

See `components` in `PROJECT.json`. Of the modelled services, left out are: the
database paths of the order manager (dead: `main.py` passes no session), demo
modes without an order manager, listing and formatting, the subscribers of the
action center (`main.py` registers none), `order_placed` events (they change no
state), the Redis path of the circuit breaker (the integration service
configures a breaker for forwarding signals, and creates none yet), an
iceberg with a display quantity of zero (creating it does not return,
`order_splitter.py:206`).

Of the rest of the repository:

- Numeric code without a protocol: options analytics, screening, analytics,
  walk-forward, detectors and whale trackers, metrics of a backtest, P&L. A model
  of a formula over floats would restate it.
- Adapters, channels, Telegram, gateway, integrations: they translate and forward
  single requests. The order confirmation of Telegram imports a module that does
  not exist (`telegram_service/router.py:257`), and the Celery tasks of screening
  raise NotImplementedError before their first statement.
- Reconciliation (it is given no database, so it compares empty positions),
  the execution safety checks (placeholders), the plugin system, credentials,
  symbol tables, migrations, scripts: no state that two actors share.

The map covers a small share of the 80 thousand lines for that reason: the state
machines of this code are concentrated in the files above, each of which is a few
hundred lines between endpoints that only read.

## Plan

Done: the modules above, with proofs of all of them but the backtest. What could
follow:

1. The composition of the shutdown with the services it stops, to show what an
   exception in `OrderManager.stop()` skips.
2. Abstract specifications of the connection manager (what a broker's user sees:
   connected, or not and being retried) and of a basket (all or none), refined
   by the modules, each refinement with a theorem as `RefinesApproval` is.
3. Lemmas about `OrderSplitter`'s folds for a fixed number of chunks, where they
   unfold to sums the provers can do.
