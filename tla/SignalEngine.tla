---------------------------- MODULE SignalEngine ----------------------------
(***************************************************************************)
(* SignalEngine.evaluate: the score out of 100 of a snapshot of features,  *)
(* its direction and what blocks it (strategy/scorer.py, filters.py), and  *)
(* the bound of event discovery on the scores that a minute can reach.     *)
(*                                                                         *)
(* A direction, a bias or a side is 1 (up, BUY), -1 (down, SELL) or 0      *)
(* (flat, NEUTRAL, WAIT); a structure is 1 for HH_HL and -1 for LH_LL, a   *)
(* retest 1 for BULLISH and -1 for BEARISH.  Ratios are in percent.        *)
(***************************************************************************)
EXTENDS Integers

Signs == {-1, 0, 1}
Horizons == {1, 3, 5}

\* What a snapshot says of the completed bars.  A range is "balanced" from 0.60
\* to 1.50 ATR, and "none" without an ATR.
Bars ==
  [m15 : [direction : Signs, structure : Signs, regime : {"TREND", "RANGE"}],
   m5 : [direction : Signs, momentum : Int, retest : Signs],
   m1 : [momentum : [Horizons -> Int], range : {"balanced", "extreme", "none"}],
   warm : BOOLEAN]

\* What it says of the ticks: the ratios of upticks and downticks, the
\* acceleration of the price, the rate of the last second and by how much it is
\* above that of five seconds, the spread with its median, and their number.
Ticks ==
  [stale : BOOLEAN, up : 0 .. 100, down : 0 .. 100, acceleration : Int,
   rate : Nat, quickening : Int, spread : Nat, median : Nat, visible : Nat]

\* EvaluationContext, with a limit on the spread.
Contexts == [spread : Nat, session : BOOLEAN, news : BOOLEAN]

Sign(n) == IF n > 0 THEN 1 ELSE IF n < 0 THEN -1 ELSE 0
Aligned(value, bias) == bias # 0 /\ Sign(value) = bias
Points(n, holds) == IF holds THEN n ELSE 0

MarketBias(bars) ==
  Sign(bars.m15.direction + bars.m15.structure + bars.m5.direction + Sign(bars.m5.momentum))

TriggerDirection(bars, ticks) ==
  LET momentum == bars.m1.momentum
      ratio == IF ticks.up > 55 THEN 1 ELSE IF ticks.down > 55 THEN -1 ELSE 0
  IN IF ticks.stale THEN 0
     ELSE Sign(Sign(momentum[1]) + Sign(momentum[3]) + Sign(momentum[5])
               + Sign(ticks.acceleration) + ratio)

-----------------------------------------------------------------------------
\* The components of the score.

M15Regime(bars) ==
  LET trend == bars.m15.regime = "TREND" /\ Aligned(bars.m15.direction, MarketBias(bars))
  IN Points(15, trend) + Points(5, bars.m15.regime = "RANGE")

M5Alignment(bars) ==
  Points(8, Aligned(bars.m5.direction, MarketBias(bars)))
    + Points(7, Aligned(bars.m5.momentum, MarketBias(bars)))

M1Momentum(bars, trigger) ==
  LET value(h) == Points(5, Aligned(bars.m1.momentum[h], trigger))
  IN value(1) + value(3) + value(5)

TickConfirmation(ticks, trigger) ==
  IF ticks.stale \/ trigger = 0 THEN 0
  ELSE Points(8, (IF trigger = 1 THEN ticks.up ELSE ticks.down) >= 60)
         + Points(4, Aligned(ticks.acceleration, trigger))
         + Points(3, ticks.rate > 0 /\ ticks.quickening >= 0)

\* A neutral market is compared with what a falling one would show.
MarketStructure(bars) ==
  LET expected == IF MarketBias(bars) = 1 THEN 1 ELSE -1
  IN Points(8, bars.m15.structure = expected) + Points(7, bars.m5.retest = expected)

Volatility(bars) == Points(10, bars.m1.range = "balanced") + Points(6, bars.m1.range = "extreme")

SpreadQuality(ticks, context) ==
  IF ticks.spread > context.spread THEN 0 ELSE 6 + Points(4, 4 * ticks.spread <= 5 * ticks.median)

SessionNews(context) == Points(2, context.session) + Points(3, context.news)

Score(bars, ticks, context) ==
  LET trigger == TriggerDirection(bars, ticks)
  IN M15Regime(bars) + M5Alignment(bars) + M1Momentum(bars, trigger)
       + TickConfirmation(ticks, trigger) + MarketStructure(bars) + Volatility(bars)
       + SpreadQuality(ticks, context) + SessionNews(context)

-----------------------------------------------------------------------------
\* filters.blockers, and the blockers that evaluate adds to them.
Blocked(bars, ticks, context) ==
  LET trigger == TriggerDirection(bars, ticks)
  IN \/ ~bars.warm \/ ticks.visible < 3 \/ ticks.stale
     \/ ticks.spread > context.spread
     \/ ~context.session \/ ~context.news
     \/ trigger = 0 \/ MarketBias(bars) # trigger
     \/ bars.m5.direction # trigger

Evaluate(bars, ticks, context) ==
  [score |-> Score(bars, ticks, context),
   trigger |-> TriggerDirection(bars, ticks),
   blocked |-> Blocked(bars, ticks, context)]

-----------------------------------------------------------------------------
\* _minute_score_upper_bounds: the bars of the minute with the ticks that are
\* most favourable to a direction.
Favorable(direction) ==
  [stale |-> FALSE, up |-> IF direction = 1 THEN 60 ELSE 40,
   down |-> IF direction = 1 THEN 40 ELSE 60, acceleration |-> direction,
   rate |-> 1, quickening |-> 1, spread |-> 0, median |-> 1, visible |-> 3]

\* The maximum of the bounds is below n.  A direction that those ticks do not
\* trigger has no bound.
MaximumScoreBelow(bars, context, n) ==
  \A direction \in {-1, 1} :
    TriggerDirection(bars, Favorable(direction)) = direction =>
      Score(bars, Favorable(direction), context) < n
=============================================================================
