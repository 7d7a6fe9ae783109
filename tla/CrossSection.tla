---------------------------- MODULE CrossSection ----------------------------
(***************************************************************************)
(* The cross-sectional strategy V3 (binance/v3_cross_sectional.py): the    *)
(* features of a symbol, the ranking of the universe at one time, the      *)
(* regime of the market and the gates of the leaders.  The forward runner  *)
(* and the replay take their decisions here.                               *)
(*                                                                         *)
(* A return is counted in hundredths of a percent, rounded down.  Features *)
(* that neither the ranking nor a gate reads are left out.                 *)
(***************************************************************************)
EXTENDS StrategyEngine

CONSTANTS
  None,
  Symbols,
  Alphabet,     \* the symbols in the order of their names
  Btc, Eth,
  Lags,         \* M5 bars in [h1, h4, d1] (12, 48, 288)
  FirstFeature, \* the first M5 bar with features (the 289th)
  FewestBars,   \* M5 bars without which a symbol has none (300)
  FewestSymbols \* symbols without which a time is skipped (5)

ASSUME CrossSectionAssumption ==
  /\ {Btc, Eth} \subseteq Symbols
  /\ FirstFeature \in Nat /\ Lags \in [h1 : Nat, h4 : Nat, d1 : Nat]
  /\ FirstFeature > Lags.d1 /\ Lags.h1 <= Lags.d1 /\ Lags.h4 <= Lags.d1

Position(s, x) == CHOOSE i \in DOMAIN s : s[i] = x

-----------------------------------------------------------------------------
Return(closes, i, lag) == (10000 * (closes[i] - closes[i - lag])) \div closes[i - lag]

Feature(symbol, m5, i) ==
  LET closes == Field(m5, LAMBDA b : b.close)
      volumes == Field(m5, LAMBDA b : b.volume)
      median2 == Median2(Before(volumes, i, Lags.d1))
      path == PathOf(closes, i, Lags.h4)
  IN [symbol |-> symbol, atr |-> Atr(m5)[i], close |-> closes[i],
      h1 |-> Return(closes, i, Lags.h1), h4 |-> Return(closes, i, Lags.h4),
      d1 |-> Return(closes, i, Lags.d1),
      volume |-> IF median2 > 0 THEN (200 * volumes[i]) \div median2 ELSE 0,
      efficiency |-> IF path > 0 THEN (100 * Abs(closes[i] - closes[i - Lags.h4])) \div path ELSE 0]

\* _features: at the close of each M5 bar that another one follows.
Features(symbol, m5) ==
  LET indices == IF Len(m5) < FewestBars THEN {} ELSE FirstFeature .. Len(m5) - 1
      At(t) == CHOOSE i \in indices : m5[i].time + Minutes.m5 = t
  IN [t \in {m5[i].time + Minutes.m5 : i \in indices} |-> Feature(symbol, m5, At(t))]

\* _percentile_ranks, as places from 0.
Ranks(values) ==
  [i \in DOMAIN values |->
     Cardinality({j \in DOMAIN values : values[j] < values[i] \/ (values[j] = values[i] /\ j < i)})]

Regime(features, btc, eth) ==
  LET rising == Cardinality({i \in DOMAIN features : features[i].h4 > 0})
      n == Len(features)
  IN CASE btc.h4 > 0 /\ eth.h4 > 0 /\ 100 * rising >= 55 * n -> "MARKET_RISK_ON"
       [] btc.h4 < 0 /\ eth.h4 < 0 /\ 100 * rising <= 45 * n -> "MARKET_RISK_OFF"
       [] OTHER -> "MARKET_NEUTRAL"

Weights == <<25, 25, 15, 15, 10, 5, 5>>

\* A member of the ranking: its lead and the weighted sum of its places.
Scored(features, btc) ==
  LET total == Total(Field(features, LAMBDA f : f.h4))
      n == Len(features)
      places == <<Ranks(Field(features, LAMBDA f : f.h1)),
                  Ranks(Field(features, LAMBDA f : f.h4)),
                  Ranks(Field(features, LAMBDA f : f.d1)),
                  Ranks(Field(features, LAMBDA f : f.h4 - btc.h4)),
                  Ranks(Field(features, LAMBDA f : n * f.h4 - total)),
                  Ranks(Field(features, LAMBDA f : f.volume)),
                  Ranks(Field(features, LAMBDA f : f.efficiency))>>
  IN [i \in DOMAIN features |->
        [feature |-> features[i],
         vsBtc |-> features[i].h4 - btc.h4,
         vsUniverse |-> n * features[i].h4 - total,
         score |-> Total([k \in DOMAIN Weights |-> Weights[k] * places[k][i]])]]

Outranks(a, b) ==
  \/ a.score > b.score
  \/ /\ a.score = b.score
     /\ Position(Alphabet, a.feature.symbol) < Position(Alphabet, b.feature.symbol)

\* rank_cross_section: the symbols by their scores.
RankCrossSection(features, btc) ==
  LET ranked == Listing(Scored(features, btc))
  IN Sorted(ranked, [a, b \in Range(ranked) |-> Outranks(a, b)])

\* assemble_cross_sections: regime and ranking at each time at which both
\* benchmarks and enough symbols have features; order is that of the universe.
CrossSections(order, features) ==
  LET has == DOMAIN features
      times == IF {Btc, Eth} \subseteq has THEN DOMAIN features[Btc] \intersect DOMAIN features[Eth]
               ELSE {}
      Present(t) == Only(order, {s \in Range(order) : s \in has /\ t \in DOMAIN features[s]})
      Available(t) == [i \in DOMAIN Present(t) |-> features[Present(t)[i]][t]]
  IN [t \in {t \in times : Len(Present(t)) >= FewestSymbols} |->
        [regime |-> Regime(Available(t), features[Btc][t], features[Eth][t]),
         ranked |-> RankCrossSection(Available(t), features[Btc][t])]]

Leaders(section, count) == SubSeq(section.ranked, 1, Min({count, Len(section.ranked)}))

LeaderSymbols(section, count) ==
  LET leaders == Leaders(section, count)
  IN {leaders[i].feature.symbol : i \in DOMAIN leaders}

\* The gates of a leader that the features decide, and the last one, which the
\* bar after them decides.
FeatureGates(item, profiles) ==
  LET f == item.feature
  IN /\ item.vsBtc > 0
     /\ item.vsUniverse > 0
     /\ f.h1 > 0
     /\ f.h4 >= 0
     /\ f.volume >= 100
     /\ profiles[f.symbol] # None
     /\ profiles[f.symbol].liquid
     /\ profiles[f.symbol].ratio >= 300
     /\ 20000 * f.atr >= 60 * Fine * f.close

Confirmed(bar) == bar # None /\ bar.open > 0 /\ bar.close > bar.open

\* evaluate_v3_timestamp: the first leader that passes every gate, in a market
\* that takes risk.
Evaluate(section, profiles, bars, count) ==
  LET leaders == Leaders(section, count)
      tradable == {i \in DOMAIN leaders :
                     /\ FeatureGates(leaders[i], profiles)
                     /\ Confirmed(bars[leaders[i].feature.symbol])}
  IN [riskOn |-> section.regime = "MARKET_RISK_ON",
      candidate |-> IF tradable = {} THEN None ELSE leaders[Min(tradable)],
      leaders |-> LeaderSymbols(section, count)]

\* theoretical_short_oracle: how many times the weakest symbol of a falling
\* market could be followed for an hour, and the sum of what a short made.
ShortOracle(sections, BarAt(_, _)) ==
  LET Weakest(t) == Last(sections[t].ranked).feature.symbol
      times == {t \in DOMAIN sections :
                  /\ sections[t].regime = "MARKET_RISK_OFF"
                  /\ BarAt(Weakest(t), t) # None
                  /\ BarAt(Weakest(t), t + Lags.h1 * Minutes.m5) # None
                  /\ BarAt(Weakest(t), t).open > 0}
      Made(t) == LET now == BarAt(Weakest(t), t).open
                     later == BarAt(Weakest(t), t + Lags.h1 * Minutes.m5).open
                 IN (10000 * (now - later)) \div now
  IN [observations |-> Cardinality(times),
      made |-> FoldSet(LAMBDA t, sum : sum + Made(t), 0, times)]
=============================================================================
