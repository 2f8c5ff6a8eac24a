-------------------------- MODULE SimulationEngine --------------------------
(***************************************************************************)
(* One replay of a strategy over the bars of the past: the class           *)
(* SimulationEngine of lib/simulation-engine.ts.  The constructor rolls    *)
(* the whole series up to the bars of the timeframe and has the strategy   *)
(* judge each of them at once; step() takes one raw bar after the other,   *)
(* rolls them up again as they come, and trades on the judgement with the  *)
(* index of the bar it has just completed.                                 *)
(*                                                                         *)
(* A raw bar has one price, and the volume 1; there is at most one a       *)
(* minute, so a series is a function from minutes to prices.  Shares       *)
(* are counted in parts of which Unit make one share (a million in the     *)
(* code), and money in the same parts.  The judgements are any: each is    *)
(* chosen when it is read, once.  The ratios among the metrics (win rate,  *)
(* Sharpe, profit factor) are left out, what they are made of is not.      *)
(***************************************************************************)
EXTENDS SimulationTerms, Sequences, SequencesExt, FiniteSetsExt

VARIABLES
    config,         \* what the constructor was given, NoBar before
    bars,           \* filteredBars
    rest,           \* the minutes of those from currentIndex on
    tfBars, partial,    \* the bars of the timeframe, and the one being made
    cash, position, trades, metrics,
    earned          \* history: the gains of all trades

simVars == <<config, bars, rest, tfBars, partial, cash, position, trades, metrics, earned>>

-----------------------------------------------------------------------------
(* Bars.                                                                   *)

Bucket(t, frame) == (t \div frame) * frame

Began(t, price, frame) ==
    [time |-> Bucket(t, frame), open |-> price, high |-> price,
     low |-> price, close |-> price, volume |-> 1]
(* (Mutant: the close stays that of the first bar.)                        *)
MutJoined(p, price) ==
    [p EXCEPT !.high = IF price > @ THEN price ELSE @,
              !.low = IF price < @ THEN price ELSE @, !.volume = @ + 1]
Joined(p, price) ==
    [p EXCEPT !.high = IF price > @ THEN price ELSE @,
              !.low = IF price < @ THEN price ELSE @, !.close = price, !.volume = @ + 1]

(* Another raw bar: does it begin a bar of the timeframe?                  *)
Begins(p, t, frame) == p = NoBar \/ Bucket(t, frame) # p.time
Grown(p, t, price, frame) ==
    IF Begins(p, t, frame) THEN Began(t, price, frame) ELSE Joined(p, price)

(* The numbers of T from the least up, and the members of s at those of T. *)
InOrder(T) ==
    [n \in 1 .. Cardinality(T) |-> CHOOSE t \in T : Cardinality({u \in T : u < t}) = n - 1]
Picked(s, T) == [n \in 1 .. Cardinality(T) |-> s[InOrder(T)[n]]]

(* buildAllTfBars. *)
AllTfBars(raw, frame) ==
    LET ts == InOrder(DOMAIN raw)
        upTo[n \in 0 .. Len(ts)] ==
            IF n = 0 THEN [done |-> <<>>, last |-> NoBar]
            ELSE LET acc == upTo[n - 1]
                 IN  [done |-> IF acc.last # NoBar /\ Begins(acc.last, ts[n], frame)
                               THEN Append(acc.done, acc.last) ELSE acc.done,
                      last |-> Grown(acc.last, ts[n], raw[ts[n]], frame)]
        end == upTo[Len(ts)]
    IN  IF ts = <<>> THEN <<>> ELSE Append(end.done, end.last)

(* Whole days are not cut to a session.                                    *)
InSession(t, session) ==
    \/ session = "all"
    \/ session = "regular" /\ t % Day \in Regular
    \/ session = "extended" /\ t % Day \in Extended
Filtered(raw, frame, session) ==
    IF frame >= Day THEN raw
    ELSE [t \in {u \in DOMAIN raw : InSession(u, session)} |-> raw[t]]

-----------------------------------------------------------------------------
(* Money.                                                                  *)

(* roundShares of cash / price: to the nearest part of a share, or down to *)
(* a whole one.                                                            *)
Nearest(money, price) == (2 * money + price) \div (2 * price)
Whole(parts) == (parts \div Unit) * Unit
Bought(c, money, price) ==
    IF c.mode = "qty"
    THEN IF c.fractional THEN c.qty ELSE Whole(c.qty)
    ELSE LET budget == IF c.reinvest \/ money < c.capital THEN money ELSE c.capital
         IN  IF budget <= 0 THEN 0
             ELSE IF c.fractional THEN Nearest(budget, price)
                                  ELSE (budget \div (Unit * price)) * Unit

SumOf(s) ==
    LET upTo[n \in 0 .. Len(s)] == IF n = 0 THEN 0 ELSE upTo[n - 1] + s[n]
    IN  upTo[Len(s)]
Gains(list) == [i \in DOMAIN list |-> list[i].gain]

(* computeMetrics: one pass with the running sum and its peak.             *)
NoMetrics == [total |-> 0, count |-> 0, wins |-> 0, won |-> 0, lost |-> 0, drawdown |-> 0]
(* (Mutant: the peak is taken before the trade is counted.)                *)
MutPeak(peak, sum) == peak
Peak(peak, sum) == IF sum > peak THEN sum ELSE peak
ComputeMetrics(list) ==
    LET gains == Gains(list)
        winners == Picked(gains, {n \in DOMAIN gains : gains[n] > 0})
        losers == Picked(gains, {n \in DOMAIN gains : gains[n] < 0})
        upTo[n \in 0 .. Len(gains)] ==
            IF n = 0 THEN [sum |-> 0, peak |-> 0, down |-> 0]
            ELSE LET acc == upTo[n - 1]
                     sum == acc.sum + gains[n]
                     peak == Peak(acc.peak, sum)
                 IN  [sum |-> sum, peak |-> peak,
                      down |-> IF peak - sum > acc.down THEN peak - sum ELSE acc.down]
    IN  IF list = <<>> THEN NoMetrics
        ELSE [total |-> SumOf(gains), count |-> Len(list), wins |-> Len(winners),
              won |-> SumOf(winners), lost |-> -SumOf(losers), drawdown |-> upTo[Len(gains)].down]

-----------------------------------------------------------------------------
Init ==
    /\ config = NoBar /\ bars = <<>> /\ rest = {}
    /\ tfBars = <<>> /\ partial = NoBar
    /\ cash = 0 /\ position = NoBar /\ trades = <<>> /\ metrics = NoMetrics
    /\ earned = 0

Config(frame, mode, fractional, reinvest, capital, qty, scripted) ==
    [frame |-> frame, mode |-> mode, fractional |-> fractional,
     reinvest |-> reinvest /\ mode = "capital", capital |-> capital * Unit, qty |-> qty,
     scripted |-> scripted]

(* The constructor.  A strategy that cannot be evaluated never trades.     *)
Construct(raw, session, c) ==
    /\ config' = c
    /\ bars' = Filtered(raw, c.frame, session)
    /\ rest' = DOMAIN bars'
    /\ cash' = c.capital
    /\ UNCHANGED <<tfBars, partial, position, trades, metrics, earned>>

(* onTfBarCompleted, for the bar b that has just been completed.           *)
Buy(b) ==
    LET shares == Bought(config, cash, b.close)
    IN  /\ position = NoBar /\ b.close > 0 /\ shares > 0
        /\ position' = [since |-> b.time, entry |-> b.close, shares |-> shares]
        /\ cash' = IF config.mode = "capital" THEN cash - shares * b.close ELSE cash
        /\ UNCHANGED <<trades, metrics, earned>>

(* (Mutant: the proceeds are added to the capital that is begun with.)     *)
MutCashAfter(proceeds) == IF config.reinvest THEN config.capital + proceeds ELSE config.capital
CashAfter(proceeds) == IF config.reinvest THEN cash + proceeds ELSE config.capital

Sell(b) ==
    /\ position # NoBar
    /\ LET gain == (b.close - position.entry) * position.shares
           closed == [since |-> position.since, entry |-> position.entry,
                      shares |-> position.shares, until |-> b.time, exit |-> b.close,
                      gain |-> gain]
       IN  /\ trades' = Append(trades, closed)
           /\ metrics' = ComputeMetrics(trades')
           /\ earned' = earned + gain
    /\ position' = NoBar
    /\ cash' = IF config.mode = "capital" THEN CashAfter(position.shares * b.close) ELSE cash

(* The first bar is not traded on, nor any when nothing has judged them.   *)
Judged(b) == config.scripted /\ Len(tfBars') >= 2
Trade(b) ==
    \/ Judged(b) /\ (Buy(b) \/ Sell(b))
    \/ UNCHANGED <<cash, position, trades, metrics, earned>>

Step ==
    /\ config # NoBar
    /\ \E t \in rest :
         /\ \A u \in rest : t <= u
         /\ rest' = rest \ {t}
         /\ partial' = Grown(partial, t, bars[t], config.frame)
         /\ IF partial # NoBar /\ Begins(partial, t, config.frame)
            THEN tfBars' = Append(tfBars, partial) /\ Trade(partial)
            ELSE UNCHANGED <<tfBars, cash, position, trades, metrics, earned>>
    /\ UNCHANGED <<config, bars>>

Series == UNION {[T -> Prices] : T \in SUBSET Minutes}

Next ==
    \/ /\ config = NoBar
       /\ \E raw \in Series, session \in Sessions, frame \in Frames, mode \in Modes,
             fractional, reinvest, scripted \in BOOLEAN, capital \in Capitals, qty \in Quantities :
            Construct(raw, session,
                      Config(frame, mode, fractional, reinvest, capital, qty, scripted))
    \/ Step

Spec == Init /\ [][Next]_simVars

-----------------------------------------------------------------------------
TypeOK ==
    /\ config \in Configs \union {NoBar}
    /\ DOMAIN bars \subseteq Minutes /\ rest \subseteq DOMAIN bars
    /\ \A t \in DOMAIN bars : bars[t] \in Prices
    /\ tfBars \in Seq(Bars) /\ partial \in Bars \union {NoBar}
    /\ cash \in Int /\ earned \in Int
    /\ position \in Positions \union {NoBar}
    /\ trades \in Seq(Trades)

(* What the bars of the timeframe are, without a word on how they are      *)
(* made: one for each bucket that has raw bars.                            *)
RolledUp(raw, frame) ==
    LET buckets == InOrder({Bucket(t, frame) : t \in DOMAIN raw})
        Bar(k) == LET ts == {t \in DOMAIN raw : Bucket(t, frame) = k}
                      prices == {raw[t] : t \in ts}
                  IN  [time |-> k, open |-> raw[Min(ts)], high |-> Max(prices),
                       low |-> Min(prices), close |-> raw[Max(ts)],
                       volume |-> Cardinality(ts)]
    IN  [n \in DOMAIN buckets |-> Bar(buckets[n])]

(* The replay shows the bars of what it has taken, and they are those that *)
(* the strategy has judged: the judgement with a bar's index is about that *)
(* bar (step, buildAllTfBars).                                             *)
ReplayIsRollUp ==
    config # NoBar =>
        LET taken == [t \in DOMAIN bars \ rest |-> bars[t]]
        IN  /\ (IF partial = NoBar THEN tfBars ELSE Append(tfBars, partial))
                  = RolledUp(taken, config.frame)
            /\ IsPrefix(tfBars, AllTfBars(bars, config.frame))

(* The metrics are those of all trades so far, by their definitions: the   *)
(* drawdown is the deepest fall of the sum of gains (computeMetrics).      *)
MetricsAreRight ==
    LET gain == Gains(trades)
        After(n) == SumOf(SubSeq(gain, 1, n))
        won == {i \in DOMAIN gain : gain[i] > 0}
        ends == 0 .. Len(trades)
    IN  /\ metrics.total = earned /\ SumOf(gain) = earned /\ metrics.count = Len(trades)
        /\ metrics.wins = Cardinality(won)
        /\ metrics.won - metrics.lost = earned
        /\ metrics.won >= 0 /\ metrics.lost >= 0
        /\ metrics.drawdown = Max({After(p[1]) - After(p[2]) :
                                     p \in {q \in ends \X ends : q[1] <= q[2]}})

(* Step by step, the replay arrives at what the whole series says.         *)
ReplayIsRight == ReplayIsRollUp /\ MetricsAreRight

(* Money is neither made nor lost but by trading: cash and what the open   *)
(* position has cost are the capital, with the gains if they are           *)
(* reinvested.  No position costs more than there is, but for the half     *)
(* part of a share that rounding may add (onTfBarCompleted, roundShares).  *)
MoneyAddsUp ==
    config # NoBar =>
        IF config.mode = "qty" THEN cash = config.capital
        ELSE LET stake == IF position = NoBar THEN 0 ELSE position.entry * position.shares
             IN  /\ cash + stake = config.capital + (IF config.reinvest THEN earned ELSE 0)
                 /\ position # NoBar =>
                      IF config.fractional THEN 2 * cash >= -position.entry ELSE cash >= 0

(* One position at a time: each trade ends after it has begun, and before  *)
(* the next begins.                                                        *)
TradesInOrder ==
    /\ \A i \in DOMAIN trades : trades[i].since < trades[i].until
    /\ \A i, j \in DOMAIN trades : i < j => trades[i].until < trades[j].since
    /\ position # NoBar => \A i \in DOMAIN trades : trades[i].until < position.since

LedgerAddsUp == MoneyAddsUp /\ TradesInOrder
=============================================================================
