---------------------------- MODULE Observations ----------------------------
(***************************************************************************)
(* What the research commands compute from the collected ticks: one        *)
(* observation per minute, its causal features and its labels              *)
(* (evaluation/research_v2.py and research_v3.py, with the features of     *)
(* features/engine.py that they use).                                      *)
(*                                                                         *)
(* A tape is a sequence of ticks [time, bid, ask] in the order of their    *)
(* times.  Prices are in points; sums of two quotes stand for midpoints    *)
(* (the names that end in 2).  Inside this module an observation is the    *)
(* index of its tick.                                                      *)
(***************************************************************************)
EXTENDS Integers, Sequences, FiniteSetsExt, Folds

CONSTANTS
  None,
  Start, End,     \* the declared RESEARCH interval, End excluded
  DayLength, Minute,
  Widths,         \* the widths of the bars, Minute among them
  Horizons,       \* seconds ahead of which there is a label
  Barriers,       \* the triple-barrier configurations: targets, stops, timeout
  Following,      \* seconds of the next day that are read with a day
  MaxDelay,       \* a label's last tick may miss its time by this much
  AtrPeriod,
  Slippage,       \* points per side, by scenario
  Commission      \* points per round trip, by scenario

Scenarios == {"OPTIMISTIC", "BASE", "STRESS"}
Sides == {"LONG", "SHORT"}

ASSUME ObservationsAssumption ==
  /\ Start \in Nat /\ End \in Nat /\ Start < End
  /\ DayLength \in Nat \ {0} /\ Minute \in Nat \ {0} /\ Minute \in Widths
  /\ \A w \in Widths : w % Minute = 0 /\ DayLength % w = 0
  /\ \A h \in Horizons : h <= Following
  /\ AtrPeriod \in Nat \ {0}
  /\ Slippage \in [Scenarios -> Nat] /\ Commission \in [Scenarios -> Nat]
  /\ Slippage["OPTIMISTIC"] = 0 /\ Commission["OPTIMISTIC"] = 0

Mid2(t) == t.bid + t.ask

\* The cost of a round trip in points: the spread seen at the entry, the
\* slippage of both sides and the commission.
Cost(t, scenario) == t.ask - t.bid + 2 * Slippage[scenario] + Commission[scenario]

Abs(n) == IF n < 0 THEN -n ELSE n

\* The middle of a bag of numbers, doubled; f gives the number of each index.
Median2(f) ==
  LET n == Cardinality(DOMAIN f)
      below(k) == {j \in DOMAIN f : f[j] < f[k] \/ (f[j] = f[k] /\ j < k)}
      nth(r) == f[CHOOSE k \in DOMAIN f : Cardinality(below(k)) = r]
  IN nth((n - 1) \div 2) + nth(n \div 2)

DayStart(time) == (time \div DayLength) * DayLength

\* The ticks that are read together with the day of observation i, those of
\* the minute before it from `earliest` on.
Extended(s, i, earliest) ==
  {k \in DOMAIN s :
     /\ s[k].time >= Max({earliest, DayStart(s[i].time) - Minute})
     /\ s[k].time < Min({End, DayStart(s[i].time) + DayLength + Following})}

\* The first tick of each minute of each day.
SampleIndices(s) ==
  {i \in DOMAIN s :
     /\ s[i].time \in Start .. End - 1
     /\ \A k \in DOMAIN s : s[k].time \in Start .. End - 1 /\ k < i =>
          s[k].time \div Minute # s[i].time \div Minute}

-----------------------------------------------------------------------------
\* The bars.

\* The bars of one width that are complete at a time: the bar must be over,
\* and the last bar of each day stays incomplete for ever.
CompletedBars(s, time, width) ==
  LET opens == {(t.time \div width) * width : t \in {s[k] : k \in DOMAIN s}}
  IN {o \in opens :
        /\ o + width <= time
        /\ \E p \in opens : p > o /\ DayStart(p) = DayStart(o)}

BarTicks(s, open, width) == {k \in DOMAIN s : s[k].time \in open .. open + width - 1}
High2(s, open, width) == Max({Mid2(s[k]) : k \in BarTicks(s, open, width)})
Low2(s, open, width) == Min({Mid2(s[k]) : k \in BarTicks(s, open, width)})
Close2(s, open, width) == Mid2(s[Max(BarTicks(s, open, width))])

\* The n last bars of a set of bars.
Latest(bars, n) == {o \in bars : Cardinality({p \in bars : p > o}) < n}

TrueRange2(s, bars, open, width) ==
  LET earlier == {p \in bars : p < open}
      gaps == IF earlier = {} THEN {}
              ELSE {Abs(High2(s, open, width) - Close2(s, Max(earlier), width)),
                    Abs(Low2(s, open, width) - Close2(s, Max(earlier), width))}
  IN Max({High2(s, open, width) - Low2(s, open, width)} \union gaps)

Atr2(s, bars, width) ==
  LET last == Latest(bars, AtrPeriod)
  IN MapThenSumSet(LAMBDA o : TrueRange2(s, bars, o, width), last) \div Cardinality(last)

Momentum2(s, bars, width, n) ==
  IF Cardinality(bars) > n
  THEN Close2(s, Max(bars), width) - Close2(s, Min(Latest(bars, n + 1)), width)
  ELSE 0

-----------------------------------------------------------------------------
\* The features of an observation.

\* Fault: the minute runs to the end of what was read.
RecentTicksToEnd(s, i, earliest) ==
  {k \in Extended(s, i, earliest) : s[k].time >= s[i].time - Minute}

\* The ticks of the last minute, the present one included.
RecentTicks(s, i, earliest) ==
  {k \in Extended(s, i, earliest) : k <= i /\ s[k].time >= s[i].time - Minute}

\* The moves between the ticks of the last minute, flat ones left out.
Moves(s, recent) ==
  LET change(k) == Mid2(s[k]) - Mid2(s[k - 1])
  IN [k \in {k \in recent \ {Min(recent)} : change(k) # 0} |->
        IF change(k) > 0 THEN 1 ELSE -1]

Count(f, value) == Cardinality({k \in DOMAIN f : f[k] = value})

\* _streaming_tick_features, over the minute before the observation inside the
\* interval.
StreamingTickFeatures(s, i) ==
  LET recent == RecentTicks(s, i, Start)
      rate(seconds) == Cardinality({k \in recent : s[k].time >= s[i].time - seconds})
      moves == Moves(s, recent)
  IN [rate1 |-> rate(1), rate5 |-> rate(5), rate15 |-> rate(15),
      ups |-> Count(moves, 1), downs |-> Count(moves, -1),
      acceleration2 |-> IF Cardinality(recent) >= 3
                        THEN Mid2(s[i]) - 2 * Mid2(s[i - 1]) + Mid2(s[i - 2]) ELSE 0,
      spread |-> s[i].ask - s[i].bid,
      medianSpread2 |-> Median2([k \in recent |-> s[k].ask - s[k].bid])]

\* The bars' part of the snapshot of FeatureEngine.compute; None when it raises
\* for want of a completed bar of some width.
Snapshot(s, i) ==
  LET bars == [w \in Widths |-> CompletedBars(s, s[i].time, w)]
  IN IF \E w \in Widths : bars[w] = {} THEN None
     ELSE [atr2 |-> [w \in Widths |-> Atr2(s, bars[w], w)],
           momentum2 |-> [w \in Widths |-> Momentum2(s, bars[w], w, 3)],
           last2 |-> Momentum2(s, bars[Minute], Minute, 1),
           range2 |-> High2(s, Max(bars[Minute]), Minute) - Low2(s, Max(bars[Minute]), Minute)]

\* The change of the midpoint since the last tick at least `seconds` old.
PastReturn2(s, i, seconds) ==
  LET old == {k \in Extended(s, i, 0) : s[k].time <= s[i].time - seconds}
  IN IF old = {} THEN 0 ELSE Mid2(s[i]) - Mid2(s[Max(old)])

\* The signed length of the last run of moves in one direction.
ConsecutiveTicks(moves) ==
  LET last == moves[Max(DOMAIN moves)]
      breaks == {k \in DOMAIN moves : moves[k] # last}
  IN IF DOMAIN moves = {} THEN 0
     ELSE last * Cardinality({k \in DOMAIN moves : \A b \in breaks : b < k})

\* _causal_micro_features: returns, the place in the range of the last minute,
\* the balance of the moves and the depth of the pullback.
CausalMicroFeatures(s, i) ==
  LET recent == RecentTicks(s, i, 0)
      mids == {Mid2(s[k]) : k \in recent}
      moves == Moves(s, recent)
      mid == Mid2(s[i])
  IN [return5 |-> PastReturn2(s, i, 5), return15 |-> PastReturn2(s, i, 15),
      return30 |-> PastReturn2(s, i, 30), return60 |-> PastReturn2(s, i, 60),
      belowHigh |-> mid - Max(mids), aboveLow |-> mid - Min(mids),
      imbalance |-> Count(moves, 1) - Count(moves, -1), directional |-> Cardinality(DOMAIN moves),
      consecutive |-> ConsecutiveTicks(moves),
      pullback |-> IF PastReturn2(s, i, 60) >= 0 THEN Max(mids) - mid ELSE mid - Min(mids)]

-----------------------------------------------------------------------------
\* The labels.

\* Fault: the position is closed at the side of the quote that opened it.
PathSameSide(s, i, side, k) ==
  IF side = "LONG" THEN s[k].ask - s[i].ask ELSE s[i].bid - s[k].bid

\* What a position opened at observation i shows at tick k, in points.
Path(s, i, side, k) ==
  IF side = "LONG" THEN s[k].bid - s[i].ask ELSE s[i].bid - s[k].ask

Excursions(s, i, side, path) ==
  [mfe |-> Max({0} \union {Path(s, i, side, k) : k \in path}),
   mae |-> Max({0} \union {-Path(s, i, side, k) : k \in path})]

\* Fault: the last tick within the tolerance.
FutureLabelsLatest(s, i, horizon) ==
  LET target == s[i].time + horizon
      near == {k \in Extended(s, i, Start) : s[k].time \in target .. target + MaxDelay}
  IN IF near = {} THEN None
     ELSE [market2 |-> Mid2(s[Max(near)]) - Mid2(s[i]),
           executable |-> [side \in Sides |-> Path(s, i, side, Max(near))],
           excursion |-> [side \in Sides |-> Excursions(s, i, side, i + 1 .. Max(near))],
           opportunity2 |-> Abs(Mid2(s[Max(near)]) - Mid2(s[i])),
           adverse2 |-> 0,
           long |-> Mid2(s[Max(near)]) > Mid2(s[i])]

\* _future_labels for one horizon: the first tick at or after it, unless that
\* tick is missing or late.
FutureLabels(s, i, horizon) ==
  LET target == s[i].time + horizon
      later == {k \in Extended(s, i, Start) : s[k].time >= target}
      last == Min(later)
      path == i + 1 .. last
      market2 == Mid2(s[last]) - Mid2(s[i])
      up2 == Max({0} \union {Mid2(s[k]) - Mid2(s[i]) : k \in path})
      down2 == Max({0} \union {Mid2(s[i]) - Mid2(s[k]) : k \in path})
  IN IF later = {} \/ s[last].time - target > MaxDelay THEN None
     ELSE [market2 |-> market2,
           executable |-> [side \in Sides |-> Path(s, i, side, last)],
           excursion |-> [side \in Sides |-> Excursions(s, i, side, path)],
           opportunity2 |-> Max({up2, down2}),
           adverse2 |-> IF market2 >= 0 THEN down2 ELSE up2,
           long |-> market2 > 0]

TargetPoints2(t, c, atr2) == Max({c.target * atr2, 2 * c.minimum * Cost(t, "BASE")})
StopPoints2(c, atr2) == Max({c.stop * atr2, 2})

\* Which barrier a path touches first; a tick that touches both stops.
FirstTouch(targets, stops) ==
  CASE targets # {} /\ (\A k \in stops : Min(targets) < k) -> "TARGET_FIRST"
    [] stops # {} /\ (\A k \in targets : Min(stops) <= k) -> "STOP_FIRST"
    [] targets = {} /\ stops = {} -> "NEITHER"

\* _barrier_side_labels: which barrier the executable price touches first until
\* the timeout, and what the exit there is worth.
BarrierSideLabels(s, i, c, side, atr2) ==
  LET timeout == s[i].time + c.timeout
      terminal == Max({k \in Extended(s, i, 0) : s[k].time <= timeout})
      path == i + 1 .. terminal
      target2 == TargetPoints2(s[i], c, atr2)
      stop2 == StopPoints2(c, atr2)
      targets == {k \in path : 2 * Path(s, i, side, k) >= target2}
      stops == {k \in path : 2 * Path(s, i, side, k) <= -stop2}
      outcome == FirstTouch(targets, stops)
      exit == CASE outcome = "TARGET_FIRST" -> Min(targets)
                [] outcome = "STOP_FIRST" -> Min(stops)
                [] outcome = "NEITHER" -> terminal
      executable == Path(s, i, side, exit)
      move2 == Mid2(s[exit]) - Mid2(s[i])
  IN IF terminal <= i \/ timeout - s[terminal].time > MaxDelay THEN None
     ELSE [outcome |-> outcome, exit |-> s[exit].time, target2 |-> target2, stop2 |-> stop2,
           gross2 |-> IF side = "LONG" THEN move2 ELSE -move2,
           executable |-> executable,
           net |-> [scenario \in Scenarios |->
                      executable - (Cost(s[i], scenario) - Cost(s[i], "OPTIMISTIC"))],
           excursion |-> Excursions(s, i, side, path)]

-----------------------------------------------------------------------------
\* build_research_dataset: the observations of D.8, those left out for which
\* the features cannot be computed.
ResearchDataset(s) ==
  LET row(i) == [at |-> s[i].time,
                 cost |-> [scenario \in Scenarios |-> Cost(s[i], scenario)],
                 bars |-> Snapshot(s, i), ticks |-> StreamingTickFeatures(s, i),
                 label |-> [h \in Horizons |-> FutureLabels(s, i, h)]]
  IN {row(i) : i \in {i \in SampleIndices(s) : Snapshot(s, i) # None}}

\* build_v3_dataset adds causal features and barrier labels to the stored
\* observations of D.8; it raises when one of them is not in the ticks.
V3Possible(rows, s) == \A r \in rows : \E k \in DOMAIN s : s[k].time = r.at

V3Dataset(rows, s) ==
  LET tick(r) == Min({k \in DOMAIN s : s[k].time = r.at})
  IN {[at |-> r.at, cost |-> r.cost, bars |-> r.bars, ticks |-> r.ticks,
       micro |-> CausalMicroFeatures(s, tick(r)),
       barrier |-> [c \in Barriers |-> [side \in Sides |->
                      BarrierSideLabels(s, tick(r), c, side, r.bars.atr2[Minute])]]]
       : r \in rows}
=============================================================================
