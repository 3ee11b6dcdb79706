---------------------------- MODULE EventBacktest ---------------------------
(***************************************************************************)
(* The event-driven backtest: one pass over the bars of an instrument,     *)
(* exits first, then gaps, then at most one entry, then trailing stops,    *)
(* then a point of the equity curve; what is open at the end is closed at  *)
(* the last close.                                                         *)
(*                                                                         *)
(* Prices are integers, a position is one unit, and the percentages of a   *)
(* price (stop, target, trail, slippage, costs) are fixed amounts.  The    *)
(* entry without a strategy is the case of one long position with a stop   *)
(* and a target.  Signals and sizes are the strategy's: any bar may have   *)
(* one.                                                                    *)
(***************************************************************************)
EXTENDS Integers, Sequences, SequencesExt

CONSTANTS Bars,          \* the bars [open, high, low, close] the data may hold
          MaxBars,       \* length of the data
          MaxPositions,  \* max_concurrent_positions
          RuleLists,     \* exit_rules of the strategies, in order
          Amount,        \* price distance of each exit rule
          Slip,          \* slippage of an order
          Fee,           \* transaction costs of an order
          Capital

VARIABLES rules,      \* spec.exit_rules
          day,        \* bars done; MaxBars + 1 once the rest is closed
          last,       \* the bar before
          positions,
          cash,
          costs,      \* total_brokerage + total_stt + total_gst
          equity,     \* the last point of equity_curve
          trades,     \* closed_trades
          entries     \* positions ever opened

vars == <<rules, day, last, positions, cash, costs, equity, trades, entries>>

None == 0
Directions == {"LONG", "SHORT"}

TypeOK ==
    /\ rules \in RuleLists
    /\ day \in 0..MaxBars + 1
    /\ last \in Bars
    /\ \A i \in DOMAIN positions :
          positions[i] \in [dir : Directions, entry : Int, stop : Int, target : Int,
                            best : Int]
    /\ Len(positions) <= MaxPositions
    /\ <<cash, costs, equity>> \in Int \X Nat \X Int
    /\ \A i \in DOMAIN trades :
          trades[i] \in [dir : Directions, entry : Int, exit : Int, stop : Int,
                         open : Int, reason : {"stop_loss", "target", "gap_stop_loss",
                                               "end_of_backtest"}]
    /\ entries \in Nat

Init ==
    /\ rules \in RuleLists
    /\ day = 0
    /\ last \in Bars
    /\ positions = <<>>
    /\ cash = Capital
    /\ costs = 0
    /\ equity = Capital
    /\ trades = <<>>
    /\ entries = 0
-----------------------------------------------------------------------------
Has(rule) == \E i \in DOMAIN rules : rules[i] = rule

Side(dir) == IF dir = "LONG" THEN 1 ELSE -1

\* The last rule that sets a stop wins; a trailing stop starts at its distance.
StopOf(dir, price) ==
    LET stops == SelectSeq(rules, LAMBDA r : r \in {"stop_loss", "trailing_sl"})
    IN  IF stops = <<>> THEN None ELSE price - Side(dir) * Amount[Last(stops)]

TargetOf(dir, price) ==
    IF Has("target") THEN price + Side(dir) * Amount["target"] ELSE None

\* Slippage is added on entry, whatever the direction.
Opened(dir, b) ==
    LET price == b.close + Slip
    IN  [dir |-> dir, entry |-> price, stop |-> StopOf(dir, price),
         target |-> TargetOf(dir, price), best |-> price]

Bug_TrailsBack(p, b) ==
    IF Has("trailing_sl")
    THEN [p EXCEPT !.best = b.close, !.stop = b.close - Side(p.dir) * Amount["trailing_sl"]]
    ELSE p
\* A better close moves the stop of a trailing position.
Trailed(p, b) ==
    IF Has("trailing_sl") /\ Side(p.dir) * (b.close - p.best) > 0
    THEN [p EXCEPT !.best = b.close, !.stop = b.close - Side(p.dir) * Amount["trailing_sl"]]
    ELSE p

\* 5 % between two closes.
Halted(b) == day > 0 /\ 100 * (IF b.close > last.close THEN b.close - last.close
                                                       ELSE last.close - b.close)
                           >= 5 * last.close

StopHit(p, b) == /\ p.stop # None
                 /\ \/ p.dir = "LONG" /\ b.low <= p.stop
                    \/ p.dir = "SHORT" /\ b.high >= p.stop

TargetHit(p, b) == /\ p.target # None
                   /\ \/ p.dir = "LONG" /\ b.high >= p.target
                      \/ p.dir = "SHORT" /\ b.low <= p.target

\* An open 0.5 % or more beyond the last close, beyond the stop.
GapHit(p, b) == /\ day > 0
                /\ p.stop # None
                /\ 200 * (IF b.open > last.close THEN b.open - last.close
                                                 ELSE last.close - b.open) >= last.close
                /\ \/ p.dir = "LONG" /\ b.open < p.stop
                   \/ p.dir = "SHORT" /\ b.open > p.stop

Exits(p, b) == StopHit(p, b) \/ TargetHit(p, b) \/ GapHit(p, b)

Trade(p, price, reason, b) ==
    [dir |-> p.dir, entry |-> p.entry, exit |-> price, stop |-> p.stop,
     open |-> b.open, reason |-> reason]

\* The target is looked at after the stop and overrides it; slippage is
\* subtracted on exit.  Gaps are looked at last, when _process_exits is done.
ExitTrade(p, b) ==
    IF TargetHit(p, b) THEN Trade(p, p.target - Slip, "target", b)
    ELSE IF StopHit(p, b) THEN Trade(p, p.stop - Slip, "stop_loss", b)
    ELSE Trade(p, b.open, "gap_stop_loss", b)

SumOf(s, Value(_)) == FoldLeft(LAMBDA acc, x : acc + Value(x), 0, s)

Bug_ProceedsAtEntry(t) == t.entry - Fee
\* Closing a position adds its price to the cash, whatever the direction.
Proceeds(t) == t.exit - Fee

Worth(p, b) == IF p.dir = "LONG" THEN b.close ELSE 2 * p.entry - b.close

\* A bar on which trading is halted only adds a point to the equity curve.
HaltedBar(b) ==
    /\ day < MaxBars
    /\ Halted(b)
    /\ day' = day + 1
    /\ last' = b
    /\ equity' = cash + SumOf(positions, LAMBDA p : Worth(p, b))
    /\ UNCHANGED <<rules, positions, cash, costs, trades, entries>>

Bug_RoomForOneMore(kept) == Len(kept) <= MaxPositions
HasRoom(kept) == Len(kept) < MaxPositions

TradingBar(b, opened) ==
    LET closed == SelectSeq(positions, LAMBDA p : Exits(p, b))
        done == [i \in DOMAIN closed |-> ExitTrade(closed[i], b)]
        kept == SelectSeq(positions, LAMBDA p : ~Exits(p, b))
        held == kept \o opened
    IN  /\ day < MaxBars
        /\ ~Halted(b)
        /\ opened # <<>> => HasRoom(kept)
        /\ day' = day + 1
        /\ last' = b
        /\ trades' = trades \o done
        /\ positions' = [i \in DOMAIN held |-> Trailed(held[i], b)]
        /\ cash' = cash + SumOf(done, Proceeds) - SumOf(opened, LAMBDA p : p.entry + Fee)
        /\ costs' = costs + Fee * (Len(done) + Len(opened))
        /\ equity' = cash' + SumOf(positions', LAMBDA p : Worth(p, b))
        /\ entries' = entries + Len(opened)
        /\ UNCHANGED rules

Bug_ClosesEveryOther(s) == [i \in 1..((Len(s) + 1) \div 2) |-> s[2 * i - 1]]
\* What the last loop closes: it walks a copy of the list.
Remaining(s) == s

\* No point of the equity curve is added after the last positions are closed.
CloseAll ==
    LET closed == Remaining(positions)
        done == [i \in DOMAIN closed |->
                    Trade(closed[i], last.close, "end_of_backtest", last)]
    IN  /\ day = MaxBars
        /\ day' = MaxBars + 1
        /\ trades' = trades \o done
        /\ positions' = <<>>
        /\ cash' = cash + SumOf(done, Proceeds)
        /\ costs' = costs + Fee * Len(done)
        /\ UNCHANGED <<rules, last, equity, entries>>

Entries(b) == {<<>>} \union {<<Opened(dir, b)>> : dir \in Directions}

Next == \/ \E b \in Bars : HaltedBar(b)
        \/ \E b \in Bars : \E opened \in Entries(b) : TradingBar(b, opened)
        \/ CloseAll

Spec == Init /\ [][Next]_vars
-----------------------------------------------------------------------------
Profit(dir, entry, exit) == Side(dir) * (exit - entry)

\* The equity curve and the list of trades tell the same story: capital, plus
\* the profit of the trades, plus what is open at the last close, less the
\* costs.  Once a short has been closed they part, so the property is about
\* runs whose shorts are still open (_close_position, _update_equity).
EquityIsTrue ==
    (\A i \in DOMAIN trades : trades[i].dir = "LONG") /\ day <= MaxBars =>
        equity = Capital - costs
                   + SumOf(trades, LAMBDA t : Profit(t.dir, t.entry, t.exit))
                   + SumOf(positions, LAMBDA p : Profit(p.dir, p.entry, last.close))

\* Every position ever opened becomes one trade: none is lost or closed twice,
\* and none is open when the metrics are computed.
EveryEntryIsTraded ==
    /\ Len(trades) + Len(positions) = entries
    /\ day = MaxBars + 1 => positions = <<>>

\* A trailing stop only ever moves towards the price.  A strategy with a fixed
\* stop as well is left out: its first trailing move may loosen the stop.
TrailingOnlyTightens ==
    [][~Has("stop_loss") =>
         \A i \in DOMAIN positions, j \in DOMAIN positions' :
            LET p == positions[i] q == positions'[j] IN
            /\ p.dir = q.dir /\ p.entry = q.entry
            /\ Len(positions) = 1 /\ Len(positions') = 1 /\ entries' = entries
            => Side(p.dir) * (q.stop - p.stop) >= 0]_vars

\* "When an overnight gap exceeds the stop loss, the position fills at the gap
\* open price, not the stop loss price."
GapsFillAtOpen ==
    \A i \in DOMAIN trades :
        LET t == trades[i] IN
        t.reason = "stop_loss" =>
            Side(t.dir) * (t.open - t.stop) >= 0
=============================================================================
