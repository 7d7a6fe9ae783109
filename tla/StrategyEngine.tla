--------------------------- MODULE StrategyEngine ---------------------------
(***************************************************************************)
(* The deterministic strategies of Binance Spot (binance/strategy_engine): *)
(* bars of several widths from one series of M1 bars, the regime of the    *)
(* market and the signals of V1 and V2.                                    *)
(*                                                                         *)
(* A price is a whole number of ticks; an average of prices (an EMA, a     *)
(* range, a mean) is counted in units of which Fine make a tick, rounded   *)
(* down.  Percentages of the code stand as ratios of whole numbers.        *)
(***************************************************************************)
EXTENDS Integers, SequencesExt, Sums

CONSTANTS
  Minutes,   \* width in minutes of the bars called [m5, m15, h1]
  Fine,      \* units in a tick
  Spans,     \* EMA spans [fast, slow, range] (9, 21, 27)
  Windows    \* bars looked at: [median, breakout, path, slope, pullback]
             \* (20, 20, 12, 3, 2)

CONSTANT
  Warm       \* bars needed: [v1, v2, first, m15, h1, fewest] (400 and 1500 M1
             \* bars, the first M5 bar that may signal, 21 earlier M15 and H1 bars,
             \* and for V2 at least 50 M5, 30 M15 and 25 H1 bars)

ASSUME StrategyAssumption ==
  /\ Fine \in Nat \ {0}
  /\ Minutes \in [m5 : Nat \ {0}, m15 : Nat \ {0}, h1 : Nat \ {0}]
  /\ Spans \in [fast : Nat, slow : Nat, range : Nat]
  /\ Windows \in [median : Nat \ {0}, breakout : Nat \ {0}, path : Nat, slope : Nat,
                  pullback : Nat]
  /\ Warm.first \in Nat /\ Warm.first > Windows.breakout + 1
  /\ Warm.first > Windows.median /\ Warm.first > Windows.pullback
  /\ Warm.fewest \in [m5 : Nat, m15 : Nat \ {0}, h1 : Nat \ {0}]

\* A bar of any width, which begins at its time.
Bars == [time : Nat, open : Int, high : Int, low : Int, close : Int, volume : Int]

-----------------------------------------------------------------------------
\* Sequences of numbers.
Highest(s) == Max(Range(s))
Lowest(s) == Min(Range(s))
Abs(x) == IF x >= 0 THEN x ELSE -x
Field(bars, F(_)) == [i \in DOMAIN bars |-> F(bars[i])]
LastOf(s, i, n) == SubSeq(s, i - n + 1, i)   \* the n values up to the i-th
Before(s, i, n) == SubSeq(s, i - n, i - 1)   \* the n values before the i-th

\* Twice the median.
Median2(s) ==
  LET sorted == Sorted(s, [a, b \in Range(s) |-> a < b])
      n == Len(s)
  IN sorted[(n + 1) \div 2] + sorted[(n + 2) \div 2]

\* _ema
Ema(values, span) ==
  LET means == Scan(0, [i \in DOMAIN values |-> [mean \in Int |->
                 IF i = 1 THEN values[1] ELSE (2 * values[i] + (span - 1) * mean) \div (span + 1)]],
                 Len(values))
  IN [i \in DOMAIN values |-> means[i]]

\* aggregate_bars: bars aligned on UTC, from groups in which no minute is missing.
AggregateBars(m1, width) ==
  LET Group(t) == Only(m1, {b \in Range(m1) : t <= b.time /\ b.time < t + width})
      grid == [i \in 1 .. (IF m1 = <<>> THEN 0 ELSE Last(m1).time \div width + 1) |-> width * (i - 1)]
      Bar(t) ==
        LET g == Group(t)
        IN [time |-> t, open |-> Head(g).open, close |-> Last(g).close,
            high |-> Highest(Field(g, LAMBDA b : b.high)),
            low |-> Lowest(Field(g, LAMBDA b : b.low)),
            volume |-> Total(Field(g, LAMBDA b : b.volume))]
      full == Only(grid, {t \in Range(grid) : Len(Group(t)) = width})
  IN [i \in DOMAIN full |-> Bar(full[i])]

Closes(bars) == Field(bars, LAMBDA b : Fine * b.close)

\* _atr: an EMA of the true range.
Atr(bars) ==
  LET range(i) ==
        LET b == bars[i]
            before == bars[i - 1].close
        IN IF i = 1 THEN b.high - b.low
           ELSE Max({b.high - b.low, Abs(b.high - before), Abs(b.low - before)})
  IN Ema([i \in DOMAIN bars |-> Fine * range(i)], Spans.range)

\* The length of the path of the last n moves, and whether the way made is at
\* least 35 % of it.
PathOf(closes, i, n) == Total([k \in 1 .. n |-> Abs(closes[i - k + 1] - closes[i - k])])
Efficient(closes, i, n) ==
  LET path == PathOf(closes, i, n)
  IN path > 0 /\ 100 * Abs(closes[i] - closes[i - n]) >= 35 * path

\* classify_m15_regimes
Regimes(m15) ==
  LET closes == Closes(m15)
      fast == Ema(closes, Spans.fast)
      slow == Ema(closes, Spans.slow)
      Regime(i) ==
        LET trending == /\ Efficient(closes, i, Windows.path)
                        /\ 10000 * Abs(fast[i] - slow[i]) >= 5 * closes[i]
        IN CASE i <= Warm.m15 -> "UNKNOWN"
             [] i > Warm.m15 ->
                CASE trending /\ fast[i] > slow[i] /\ fast[i] > fast[i - Windows.slope] -> "TREND_UP"
                  [] trending /\ fast[i] < slow[i] /\ fast[i] < fast[i - Windows.slope] -> "TREND_DOWN"
                  [] OTHER -> "RANGE"
  IN [i \in DOMAIN m15 |-> Regime(i)]

\* The last bar that has closed at this time (the cursors of generate); 1 when
\* none has.
Cursor(bars, width, time) ==
  Max({1} \union {j \in DOMAIN bars : bars[j].time + width <= time})

Momentum(m1, i) ==
  LET last == Min({i * Minutes.m5, Len(m1)})
  IN last > 3 /\ m1[last].close > m1[last - 3].close

Ticks(x) == x \div Fine

\* The square root of n, rounded down.
Root(n) == CHOOSE r \in 0 .. n : r * r <= n /\ (r + 1) * (r + 1) > n

\* The mean of the last n closes less twice their standard deviation.
LowerBand(closes, i, n) ==
  LET sample == LastOf(closes, i, n)
      sum == Total(sample)
      square == n * Total([k \in 1 .. n |-> sample[k] * sample[k]]) - sum * sum
  IN sum \div n - 2 * Root(square \div (n * (n - 1)))

-----------------------------------------------------------------------------
\* BinanceStrategyEngine.generate: the setup that the M5 bar i completes, with
\* its stop, its target and its confidence in percent; the first one wins.
SetupV1(m5, i, regime) ==
  LET closes == Closes(m5)
      fast == Ema(closes, Spans.fast)
      slow == Ema(closes, Spans.slow)
      atr == Atr(m5)[i]
      volumes == Field(m5, LAMBDA b : b.volume)
      median2(j) == Median2(LastOf(volumes, j, Windows.median))
      mean(j) == Total(LastOf(closes, j, Windows.median)) \div Windows.median
      current == m5[i]
      previous == m5[i - 1]
      level == Highest(Before(Field(m5, LAMBDA b : b.high), i - 1, Windows.breakout))
      close == Fine * current.close
      lower == LowerBand(closes, i - 1, Windows.median)
      breakout == /\ previous.close > level
                  /\ 10000 * current.low <= 10015 * level /\ current.close > level
                  /\ 20 * previous.volume >= 12 * median2(i - 1)
                  /\ regime # "TREND_DOWN"
      pullback == /\ regime = "TREND_UP" /\ fast[i] > slow[i]
                  /\ 1000 * Fine * current.low <= 1001 * fast[i] /\ close > fast[i]
                  /\ current.close > previous.close
                  /\ 20 * current.volume >= 8 * median2(i)
      reversion == /\ regime = "RANGE"
                   /\ closes[i - 1] < lower /\ current.close > previous.close
                   /\ mean(i) > close
      lows == LastOf(Field(m5, LAMBDA b : b.low), i, Windows.pullback + 1)
  IN CASE breakout ->
            [setup |-> "BREAKOUT_RETEST", confidence |-> 75, target |-> close + 2 * atr,
             stop |-> Min({Fine * current.low, Fine * level - (35 * atr) \div 100})]
       [] ~breakout /\ pullback ->
            [setup |-> "MOMENTUM_PULLBACK", confidence |-> 70, target |-> close + (3 * atr) \div 2,
             stop |-> Fine * Lowest(lows) - atr \div 10]
       [] ~breakout /\ ~pullback /\ reversion ->
            [setup |-> "RANGE_MEAN_REVERSION", target |-> mean(i),
             confidence |-> Min({80, 55 + (10 * (lower - closes[i - 1])) \div Max({atr, 1})}),
             stop |-> Fine * Min({previous.low, current.low}) - atr \div 4]
       [] OTHER -> [setup |-> "NONE", confidence |-> 0, target |-> close, stop |-> close]

SignalOf(bar, setup, atr) ==
  [time |-> bar.time + Minutes.m5, setup |-> setup.setup, entry |-> bar.close,
   stop |-> Ticks(setup.stop), target |-> Ticks(setup.target), atr |-> atr,
   confidence |-> setup.confidence]

\* Fault: the last bar of the longer width counts before it has closed.
GenerateFromOpenBars(m1) ==
  LET m5 == AggregateBars(m1, Minutes.m5)
      m15 == AggregateBars(m1, Minutes.m15)
      Time(i) == m5[i].time + Minutes.m5
      Signal(i) == SetupV1(m5, i, Regimes(m15)[Cursor(m15, 0, Time(i))])
  IN {SignalOf(m5[i], Signal(i), Atr(m5)[i]) :
        i \in {i \in Warm.first .. Len(m5) - 1 :
                 m15 # <<>> /\ Momentum(m1, i) /\ Signal(i).setup # "NONE"}}

GenerateV1(m1) ==
  LET m5 == AggregateBars(m1, Minutes.m5)
      m15 == AggregateBars(m1, Minutes.m15)
      Time(i) == m5[i].time + Minutes.m5
      j(i) == Cursor(m15, Minutes.m15, Time(i))
      Setup(i) == SetupV1(m5, i, Regimes(m15)[j(i)])
      Ready(i) == m15 # <<>> /\ m15[j(i)].time + Minutes.m15 <= Time(i) /\ Momentum(m1, i)
  IN IF Len(m1) < Warm.v1 THEN {}
     ELSE {SignalOf(m5[i], Setup(i), Atr(m5)[i]) :
             i \in {i \in Warm.first .. Len(m5) - 1 :
                      /\ Ready(i)
                      /\ Setup(i).setup # "NONE"
                      /\ Setup(i).stop < Fine * m5[i].close}}

\* BinanceV2StrategyEngine.generate for the M5 bar i: the trend of the longer
\* bars, a breakout or else a pullback, a target of twice the risk and at least
\* 0.60 %, and three times the cost of a round trip (in hundredths of a percent).
SetupV2(m5, i, cost) ==
  LET fast == Ema(Closes(m5), Spans.fast)
      atr == Atr(m5)[i]
      median2 == Median2(LastOf(Field(m5, LAMBDA b : b.volume), i, Windows.median))
      current == m5[i]
      close == Fine * current.close
      level == Highest(Before(Field(m5, LAMBDA b : b.high), i, Windows.breakout))
      breakout == /\ current.close > level /\ current.close > current.open
                  /\ 20 * current.volume >= 12 * median2
      pullback == /\ 10000 * Fine * current.low <= 10015 * fast[i] /\ close > fast[i]
                  /\ current.close > m5[i - 1].close
                  /\ 200 * current.volume >= 75 * median2
      lows == LastOf(Field(m5, LAMBDA b : b.low), i, Windows.pullback + 1)
      stop == Fine * Lowest(lows) - atr \div 10
      distance == Max({2 * (close - stop), (6 * close) \div 1000})
      worth == 10000 * distance >= 3 * Max({cost, 1}) * close
  IN [setup |-> CASE close <= stop \/ ~worth -> "NONE"
                  [] close > stop /\ worth ->
                       CASE breakout -> "BREAKOUT_EXPANSION"
                         [] ~breakout /\ pullback -> "TREND_PULLBACK"
                         [] OTHER -> "NONE",
      confidence |-> IF breakout THEN 75 ELSE 70, stop |-> stop, target |-> close + distance]

TrendUp(bars, i) ==
  LET closes == Closes(bars)
      fast == Ema(closes, Spans.fast)
      slow == Ema(closes, Spans.slow)
  IN fast[i] > slow[i] /\ fast[i] > fast[i - Windows.slope] /\ closes[i] > slow[i]

StructureUp(bars, i) ==
  LET closes == Closes(bars)
      fast == Ema(closes, Spans.fast)
  IN fast[i] > Ema(closes, Spans.slow)[i] /\ closes[i] > fast[i]

GenerateV2(m1, cost) ==
  LET m5 == AggregateBars(m1, Minutes.m5)
      m15 == AggregateBars(m1, Minutes.m15)
      h1 == AggregateBars(m1, Minutes.h1)
      Time(i) == m5[i].time + Minutes.m5
      j(i) == Cursor(m15, Minutes.m15, Time(i))
      h(i) == Cursor(h1, Minutes.h1, Time(i))
      Ready(i) == /\ j(i) > Warm.m15 /\ h(i) > Warm.h1
                  /\ TrendUp(h1, h(i)) /\ StructureUp(m15, j(i))
      short == \/ Len(m1) < Warm.v2
               \/ Len(m5) < Warm.fewest.m5
               \/ Len(m15) < Warm.fewest.m15
               \/ Len(h1) < Warm.fewest.h1
  IN IF short THEN {}
     ELSE {SignalOf(m5[i], SetupV2(m5, i, cost), Atr(m5)[i]) :
             i \in {i \in Warm.first .. Len(m5) - 1 :
                      Ready(i) /\ SetupV2(m5, i, cost).setup # "NONE"}}
=============================================================================
