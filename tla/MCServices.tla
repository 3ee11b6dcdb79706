------------------------------ MODULE MCServices ----------------------------
(***************************************************************************)
(* The components that share no state, one beside the other.  A behaviour  *)
(* of this module is a behaviour of one of them, part, while the rest stay *)
(* in one of their initial states: the run explores each of them by        *)
(* itself, and a property holds here if it holds of its component.         *)
(***************************************************************************)
EXTENDS StrategyLifecycle, Integers, Sequences, TLC

Parts == {"strategy", "analysis", "backtest", "jobs", "splits", "smart", "webhooks",
          "breaker", "anomalies", "delivery", "sockets", "prices", "referrals",
          "commissions"}

VARIABLE part

CONSTANTS Fallible, RecursionLimit
VARIABLES wanted, active, step, passed, round, output, runs, informed
analysis == <<wanted, active, step, passed, round, output, runs, informed>>
Analysis == INSTANCE AnalysisPipeline

CONSTANTS MaxBars, MaxPositions, Slip, Fee, Capital
Bar(o, h, l, c) == [open |-> o, high |-> h, low |-> l, close |-> c]
\* Still, falling, rising, gaps either way, and a jump that halts the trading.
Flat == Bar(100, 101, 99, 100)
Bars == {Flat, Bar(99, 100, 97, 98), Bar(101, 104, 100, 103), Bar(97, 98, 96, 97),
         Bar(104, 104, 103, 104), Bar(100, 106, 100, 106)}
RuleLists == {<<>>, <<"trailing_sl">>, <<"stop_loss", "target">>,
              <<"stop_loss", "trailing_sl">>}
Amount == [stop_loss |-> 2, target |-> 3, trailing_sl |-> 2]
VARIABLES rules, day, last, positions, cash, costs, equity, trades, entries
backtesting == <<rules, day, last, positions, cash, costs, equity, trades, entries>>
Backtest == INSTANCE EventBacktest

CONSTANTS Splits, Total, Display, NumChunks, Factors
VARIABLES status, qty, leg, task, pos, sent, live, cut
splitter == <<status, qty, leg, task, pos, sent, live, cut>>
Splitter == INSTANCE OrderSplitter
\* However an order is cut, it has legs.
ASSUME CutsAreLegs == \A legs \in Splitter!LegLists : legs \in Seq(Nat) /\ legs # <<>>

CONSTANTS SmartRequests, Quantities, Windows, MaxPosition, Oldest, Nobody
VARIABLES smartAt, ask, holder, recent, age, purged
smart == <<smartAt, ask, holder, recent, age, purged>>
Unchecked == [quantity |-> 5, window |-> 1, limited |-> FALSE, check |-> FALSE]
Smart == INSTANCE SmartOrders
           WITH at <- smartAt, Requests <- SmartRequests, Limit <- MaxPosition

CONSTANTS Hooks, PerMinute
VARIABLES kind, hookAt, count, allowed, window, crowded, log, answer, queue, signals
webhooks == <<kind, hookAt, count, allowed, window, crowded, log, answer, queue,
              signals>>
Webhook == INSTANCE Webhooks WITH at <- hookAt, Limit <- PerMinute

CONSTANTS Calls, FailureThreshold, HalfOpenMaxCalls, SuccessThreshold, MaxCount
VARIABLES state, failures, successes, probes, cooled, under, tried, lost
breaker == <<state, failures, successes, probes, cooled, under, tried, lost>>
Breaker == INSTANCE CircuitBreaker

CONSTANTS Events, Critical, NumRules, MaxPerHour, MaxHours
VARIABLES severity, eventAt, rule, matched, key, ttl, counter, hour, alerts, mixed,
          failed, expired
anomalies == <<severity, eventAt, rule, matched, key, ttl, counter, hour, alerts,
               mixed, failed, expired>>
Anomaly == INSTANCE AnomalyAlerts WITH at <- eventAt

CONSTANTS NumChannels, MaxRetries
VARIABLES critical, channelAt, attempt, result, got, unsure, rows, broken
delivery == <<critical, channelAt, attempt, result, got, unsure, rows, broken>>
Delivery == INSTANCE AlertDelivery WITH at <- channelAt

CONSTANTS Jobs, Tier, MaxRuns, MaxDebt
VARIABLES submit, job, jobTask, deliveries, held, slots, fetching, counted, freed, excused
jobs == <<submit, job, jobTask, deliveries, held, slots, fetching, counted, freed,
          excused>>
Job == INSTANCE BacktestJobs WITH task <- jobTask, runs <- deliveries, Limit <- Tier

CONSTANTS Sockets, Alerts, NoSocket
VARIABLES redis, socketAt, awaited, open, entry, pubsub, listener, inbox, offline, told,
          waiting, shown, alone, raced, severed, dropped
sockets == <<redis, socketAt, awaited, open, entry, pubsub, listener, inbox, offline, told,
             waiting, shown, alone, raced, severed, dropped>>
Socket == INSTANCE AlertSockets
            WITH at <- socketAt, task <- pubsub, sent <- told, queue <- waiting

CONSTANTS Readers, Feed, Viewers, TTL, MaxTime
VARIABLES now, cached, readerAt, began, value, clients, subscribed, loop, todo, reached,
          steady, halted
prices == <<now, cached, readerAt, began, value, clients, subscribed, loop, todo, reached,
            steady, halted>>
Prices == INSTANCE PriceFeed
            WITH at <- readerAt, got <- reached, failed <- halted

CONSTANT Tracks
VARIABLES event, trackAt, noticed, exists, events, creator, total, successful, months,
          discounts, granted, extended, paid, doubled, reply
referrals == <<event, trackAt, noticed, exists, events, creator, total, successful, months,
               discounts, granted, extended, paid, doubled, reply>>
Referral == INSTANCE Referrals
              WITH at <- trackAt, seen <- noticed, row <- events, crossed <- doubled,
                   answer <- reply

CONSTANTS Posts, Periods
VARIABLES post, postAt, conversion, signup, payment, signups, conversions, commissions,
          affiliateTotal, conversionTotal, crossed, response
affiliates == <<post, postAt, conversion, signup, payment, signups, conversions,
                commissions, affiliateTotal, conversionTotal, crossed, response>>
Commission == INSTANCE Commissions WITH at <- postAt, answer <- response

\* The names p1, p2 and p3 are those of all components.
Symmetry == Permutations(Requests)
-----------------------------------------------------------------------------
\* The services that are not explored start in one state.
ServicesInit ==
    /\ part \in Parts
    /\ IF part = "strategy" THEN TRUE ELSE row = Created("draft")
    /\ IF part = "analysis" THEN TRUE ELSE wanted = {}
    /\ IF part = "backtest" THEN TRUE ELSE rules = <<>> /\ last = Flat
    /\ IF part = "smart" THEN TRUE ELSE ask = [r \in SmartRequests |-> Unchecked]
    /\ IF part = "webhooks" THEN TRUE ELSE kind = [h \in Hooks |-> "good"]
    /\ IF part = "anomalies" THEN TRUE ELSE severity = [e \in Events |-> 1]
    /\ IF part = "delivery" THEN TRUE ELSE critical = FALSE
    /\ IF part = "referrals" THEN TRUE ELSE event = [t \in Tracks |-> "signup"]
    /\ IF part = "commissions" THEN TRUE ELSE post = [p \in Posts |-> "signup"]
    /\ Init /\ Analysis!Init /\ Backtest!Init /\ Splitter!Init /\ Smart!Init
    /\ Webhook!Init /\ Breaker!Init /\ Anomaly!Init /\ Delivery!Init /\ Job!Init
    /\ Socket!Init /\ Prices!Init /\ Referral!Init /\ Commission!Init

ServicesNext ==
    /\ UNCHANGED part
    /\ IF part = "strategy" THEN Next ELSE UNCHANGED vars
    /\ IF part = "analysis" THEN Analysis!Next ELSE UNCHANGED analysis
    /\ IF part = "backtest" THEN Backtest!Next ELSE UNCHANGED backtesting
    /\ IF part = "splits" THEN Splitter!Next ELSE UNCHANGED splitter
    /\ IF part = "smart" THEN Smart!Next ELSE UNCHANGED smart
    /\ IF part = "webhooks" THEN Webhook!Next ELSE UNCHANGED webhooks
    /\ IF part = "breaker" THEN Breaker!Next ELSE UNCHANGED breaker
    /\ IF part = "anomalies" THEN Anomaly!Next ELSE UNCHANGED anomalies
    /\ IF part = "delivery" THEN Delivery!Next ELSE UNCHANGED delivery
    /\ IF part = "jobs" THEN Job!Next ELSE UNCHANGED jobs
    /\ IF part = "sockets" THEN Socket!Next ELSE UNCHANGED sockets
    /\ IF part = "prices" THEN Prices!Next ELSE UNCHANGED prices
    /\ IF part = "referrals" THEN Referral!Next ELSE UNCHANGED referrals
    /\ IF part = "commissions" THEN Commission!Next ELSE UNCHANGED affiliates

ServicesSpec ==
    ServicesInit /\ [][ServicesNext]_<<part, vars, analysis, backtesting, splitter, smart,
                                       webhooks, breaker, anomalies, delivery, jobs, sockets,
                                       prices, referrals, affiliates>>
-----------------------------------------------------------------------------
\* Every component keeps its type invariant; that of the backtest goes with its
\* amounts.
TypesOK ==
    /\ TypeOK
    /\ Analysis!TypeOK
    /\ Job!TypeOK
    /\ Splitter!TypeOK
    /\ Smart!TypeOK
    /\ Webhook!TypeOK
    /\ Breaker!TypeOK
    /\ Anomaly!TypeOK
    /\ Delivery!TypeOK
    /\ Socket!TypeOK
    /\ Prices!TypeOK
    /\ Referral!TypeOK
    /\ Commission!TypeOK

\* An analysis ends, and its decision is debated twice and made from all
\* reports; what is screened out costs nothing (langgraph_pipeline.py).
AnalysisIsSound ==
    /\ Analysis!EndsWithinLimit
    /\ Analysis!DecisionIsInformed
    /\ Analysis!DebatedTwice
    /\ Analysis!SkippedIsFree
    /\ Analysis!OneWaveIfAllAreWanted

\* The equity of a backtest is that of its trades and open positions, every
\* position becomes one trade, and its trailing stop moves towards the price only
\* (event_engine.py); the legs of a split order add up to it (order_splitter.py).
AmountsAddUp ==
    /\ [](/\ Backtest!TypeOK /\ Backtest!EquityIsTrue /\ Backtest!EveryEntryIsTraded
          /\ Splitter!LegsAddUp)
    /\ Backtest!TrailingOnlyTightens

\* Slots of backtests are neither taken twice nor given away, and a backtest
\* shown as complete has its result (router.py, tasks.py of backtesting).
SlotsAreHonest == Job!LimitKept /\ Job!SlotsHaveOwners /\ Job!CompleteHasResult

\* The legs of a split order go out once each, its status says what became of
\* them, and once it is cancelled nothing more is sent (order_splitter.py).
SplitsAreTrue ==
    /\ [](Splitter!LegsSentOnce /\ Splitter!VerdictIsTrue /\ Splitter!AtMostOneUnknown)
    /\ Splitter!CancelledIsQuiet

\* A repeated smart order is blocked, and only a repeated one (smart_orders.py).
DuplicatesAreBlocked == Smart!DuplicatesAreBlocked /\ Smart!BlockedForAReason

\* Authentic webhooks within the limit are kept and make one signal each
\* (router.py and webhook_queue.py of the integration service).
WebhooksAreKept ==
    /\ Webhook!LimitKept
    /\ Webhook!SignalsAreAccepted
    /\ Webhook!AcceptedIsKept
    /\ Webhook!OneSignalEach

\* A circuit breaker opens in time, admits few probes and comes out of its
\* probation (circuit_breaker.py).
BreakerProtects ==
    /\ Breaker!ClosedIsHealthy
    /\ Breaker!ProbesAreBounded
    /\ Breaker!NotStuck

\* Escalations pass, repetitions do not, and the limit per hour and the rules
\* of critical anomalies are kept (deduplication.py, matcher.py).
AnomaliesAreTold ==
    /\ Anomaly!SuppressedForAReason
    /\ Anomaly!EachSeverityOnce
    /\ Anomaly!HourlyLimitKept
    /\ Anomaly!CriticalReachesAll

\* Every channel is tried, repeated only when in doubt, and logged truthfully
\* (delivery_engine.py); an alert in the application is shown once, on whatever
\* connections its user opens and closes, or kept for the next (ws_router.py and
\* in_app.py of the alerts).
AlertsAreDelivered ==
    /\ Delivery!RepeatedOnlyIfUnsure
    /\ Delivery!LogTellsTheTruth
    /\ Delivery!NoChannelIsForgotten
    /\ Socket!NoneLeftBehind
    /\ Socket!AloneIsServed
    /\ Socket!NotShownTwice
    /\ Socket!MissedForAReason

\* Prices are no older than the cache may keep them, and reach all who are
\* subscribed while the broadcasting task runs (router.py of the market data).
PricesAreFresh ==
    /\ Prices!FreshOnly
    /\ Prices!ClientsAreFed
    /\ Prices!RoundReachesAll

\* Referrals, conversions, rewards and commissions are counted once, unless their
\* requests cross or fail (referrals.py, reward_service.py, affiliates.py).
RewardsAddUp ==
    /\ Referral!ReferredOnce
    /\ Referral!TrackedIsKept
    /\ Referral!RewardedOnceEach
    /\ Commission!OnceEach
    /\ Commission!TotalsAddUp
=============================================================================
