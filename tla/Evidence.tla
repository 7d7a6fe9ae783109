------------------------------ MODULE Evidence ------------------------------
(***************************************************************************)
(* What the research engines make of their folds: predictions, the         *)
(* candidates their gates select, the metrics of the candidates and the    *)
(* verdict (research_v2.py, research_v3.py, research_d10.py).              *)
(*                                                                         *)
(* Fitting is scikit-learn's.  Here a fitted model estimates anything by   *)
(* the average of the training rows it cannot tell from the row in         *)
(* question: all of them (PRIOR) or those that moved like it (SPLIT).      *)
(* Probabilities are in percent.                                           *)
(***************************************************************************)
EXTENDS WalkForward

CONSTANTS
  PrimaryHorizon,  \* the horizon whose gate decides D.8
  WeekLength, SessionLength,
  MaxMargin,       \* points that a margin of D.10 is searched up to
  Required         \* the numbers of candidates and weeks that verdicts ask for

ASSUME EvidenceAssumption ==
  /\ PrimaryHorizon \in Horizons
  /\ WeekLength \in Nat \ {0} /\ SessionLength \in Nat \ {0}

Models == {"PRIOR", "SPLIT"}

Alike(model, train, r) ==
  LET moved(q) == <<q.bars.last2 >= 0, q.ticks.ups >= q.ticks.downs>>
      near == {q \in train : moved(q) = moved(r)}
  IN IF model = "SPLIT" /\ near # {} THEN near ELSE train

Frequency(model, train, r, Holds(_)) ==
  LET alike == Alike(model, train, r)
  IN (100 * Cardinality({q \in alike : Holds(q)})) \div Cardinality(alike)

Total(rows, Value(_)) == MapThenSumSet(Value, rows)
Mean(rows, Value(_)) == Total(rows, Value) \div Cardinality(rows)
Average(model, train, r, Value(_)) == Mean(Alike(model, train, r), Value)

\* A classifier is fitted on rows of at least two classes.
Fittable(train, Class(_)) == Cardinality({Class(r) : r \in train}) >= 2

Week(time) == time \div WeekLength
Session(time) == (time % DayLength) \div SessionLength
Extra(r, scenario) == r.cost[scenario] - r.cost["OPTIMISTIC"]

-----------------------------------------------------------------------------
\* Metrics that several verdicts use; a candidate is a record with `at` and `net`.

Share(candidates, Group(_)) ==
  Max({Cardinality({c \in candidates : Group(c.at) = g}) : g \in {Group(c.at) : c \in candidates}})
ActiveWeeks(candidates) == {Week(c.at) : c \in candidates}
WeekNet(candidates, w) == Total({c \in candidates : Week(c.at) = w}, LAMBDA c : c.net["BASE"])
PositiveWeeks(candidates) == {w \in ActiveWeeks(candidates) : WeekNet(candidates, w) > 0}

\* At least `percent` of the active weeks gain, none of the sessions has more
\* than `share` percent of the candidates.
Spread(candidates, percent, share) ==
  /\ 100 * Cardinality(PositiveWeeks(candidates)) >= percent * Cardinality(ActiveWeeks(candidates))
  /\ 100 * Share(candidates, Session) <= share * Cardinality(candidates)

\* The factor of profit is at least n / 10; without losses there is none.
ProfitFactor(candidates, n) ==
  LET base(c) == c.net["BASE"]
      lost == -Total({c \in candidates : base(c) < 0}, base)
  IN lost > 0 /\ 10 * Total({c \in candidates : base(c) > 0}, base) >= n * lost

\* The average precision of a score, in percent.
AveragePrecision(rows, Score(_), Holds(_)) ==
  LET above(r) == {q \in rows : Score(q) >= Score(r)}
      precision(r) == (100 * Cardinality({q \in above(r) : Holds(q)})) \div Cardinality(above(r))
      positive == {r \in rows : Holds(r)}
  IN IF positive = {} THEN 0 ELSE Mean(positive, precision)

-----------------------------------------------------------------------------
\* D.8

Known(rows, h) == {r \in rows : r.label[h] # None}

Opportunity(r, h, halves) == r.label[h].opportunity2 > halves * r.cost["BASE"]

HorizonFittable(folds, h) ==
  \A n \in DOMAIN folds :
    LET train == Known(folds[n].train, h)
    IN /\ Known(folds[n].validation, h) # {}
       /\ Fittable(train, LAMBDA r : r.label[h].long)
       /\ Fittable(train, LAMBDA r : r.label[h].opportunity2 > 2 * r.ticks.spread)
       /\ \A halves \in 2 .. 4 : Fittable(train, LAMBDA r : Opportunity(r, h, halves))

\* _fit_horizon: what the models of each fold say of its validation.
FitHorizon(folds, h, model) ==
  UNION {LET train == Known(folds[n].train, h)
         IN {[row |-> r, role |-> folds[n].role, opens |-> folds[n].opens,
              opportunity |-> Frequency(model, train, r, LAMBDA q : Opportunity(q, h, 2)),
              mfe2 |-> Average(model, train, r, LAMBDA q : q.label[h].opportunity2),
              long |-> Frequency(model, train, r, LAMBDA q : q.label[h].long),
              signed2 |-> Average(model, train, r, LAMBDA q : q.label[h].market2)]
             : r \in Known(folds[n].validation, h)}
         : n \in DOMAIN folds}

\* _gate_result: the predictions that pass the gate, with what became of them.
Gate(p, scenario, halves) ==
  LET cost == p.row.cost[scenario]
      expected2 == IF p.long >= 50 THEN p.signed2 ELSE -p.signed2
  IN /\ p.opportunity >= 50
     /\ Max({p.long, 100 - p.long}) >= 55
     /\ expected2 > 2 * cost
     /\ cost > 0 => p.mfe2 > halves * cost

GateResult(predictions, h, scenario, halves, role) ==
  LET outcome(p) ==
        LET side == IF p.long >= 50 THEN "LONG" ELSE "SHORT"
            label == p.row.label[h]
        IN [at |-> p.row.at, opens |-> p.opens, side |-> side,
            gross2 |-> IF side = "LONG" THEN label.market2 ELSE -label.market2,
            executable |-> label.executable[side],
            net |-> [s \in Scenarios |-> label.executable[side] - (p.row.cost[s] - p.row.ticks.spread)],
            mfe |-> label.excursion[side].mfe, cost |-> p.row.cost[scenario]]
  IN {outcome(p) : p \in {p \in predictions : p.role = role /\ Gate(p, scenario, halves)}}

\* The mean over the candidates with a cost of mfe / cost is at least 1.5.
MovesBeyondCost(selected) ==
  LET priced == {c \in selected : c.cost > 0}
  IN priced # {} /\ Mean(priced, LAMBDA c : (100 * c.mfe) \div c.cost) >= 150

GatePasses(selected, count, weeks, percent, share) ==
  /\ selected # {}
  /\ Cardinality(selected) >= count
  /\ Total(selected, LAMBDA c : c.executable) > 0
  /\ Total(selected, LAMBDA c : c.net["BASE"]) > 0
  /\ Cardinality(ActiveWeeks(selected)) >= weeks
  /\ Spread(selected, percent, share)
  /\ MovesBeyondCost(selected)

V2Conclusion(compared, frozen) ==
  IF /\ GatePasses(compared, Required.compared, Required.comparedWeeks, 60, 60)
     /\ GatePasses(frozen, Required.frozen, Required.frozenWeeks, 50, 75)
  THEN "V2_VALIDATION_CANDIDATE"
  ELSE IF /\ Cardinality(frozen) >= Required.promising
          /\ Total(frozen, LAMBDA c : c.executable) > 0
  THEN "V2_NEEDS_MORE_RESEARCH" ELSE "V2_RESEARCH_REJECTED"

\* ResearchV2Engine.run from its observations on; None when a fit raises.  The
\* gates of the other horizons, scenarios and thresholds are reported and
\* decide nothing.
ResearchV2(rows, model) ==
  LET folds == TemporalFolds(rows)
      predictions == FitHorizon(folds, PrimaryHorizon, model)
      selected(role) == GateResult(predictions, PrimaryHorizon, "BASE", 3, role)
  IN IF \E h \in Horizons : ~HorizonFittable(folds, h) THEN None
     ELSE [evidence |-> selected("MODEL_COMPARISON") \union selected("INTERNAL_FREEZE_CHECK"),
           verdict |-> V2Conclusion(selected("MODEL_COMPARISON"), selected("INTERNAL_FREEZE_CHECK"))]

-----------------------------------------------------------------------------
\* D.9 and D.10 choose a side from a [eligible, value] of each.
Choice(rates) ==
  CASE rates["LONG"].eligible /\ (rates["SHORT"].eligible => rates["LONG"].value >= rates["SHORT"].value) -> "LONG"
    [] rates["SHORT"].eligible /\ ~(rates["LONG"].eligible /\ rates["LONG"].value >= rates["SHORT"].value) -> "SHORT"
    [] OTHER -> None

\* What became of a row when its side was chosen.
Candidate(r, side, opens) ==
  LET label == r.barrier[Primary][side]
  IN [at |-> r.at, opens |-> opens, side |-> side, gross2 |-> label.gross2,
      executable |-> label.executable, net |-> label.net, excursion |-> label.excursion,
      outcome |-> label.outcome, exit |-> label.exit]

Candidates(rows, opens, Rates(_)) ==
  {Candidate(r, Choice(Rates(r)), opens) : r \in {r \in rows : Choice(Rates(r)) # None}}

TargetFirst(r, c, side) == r.barrier[c][side].outcome = "TARGET_FIRST"

\* The rule of V3: the model is sure of the target, and the bet pays for the
\* costs that the quotes do not hold.
MetaGate(train, model, r, c) ==
  [side \in Sides |->
     LET p == Frequency(model, train, r, LAMBDA q : TargetFirst(q, c, side))
         label == r.barrier[c][side]
         net200 == p * label.target2 - (100 - p) * label.stop2 - 200 * Extra(r, "BASE")
     IN [eligible |-> p >= 60 /\ net200 > 0, value |-> net200]]

-----------------------------------------------------------------------------
\* D.9

\* _fit_side trains on the complete rows of a side; both sides complete together.
SideFittable(folds, c) ==
  \A n \in DOMAIN folds, side \in Sides :
    /\ Complete(folds[n].validation, c, side) # {}
    /\ Fittable(Complete(folds[n].train, c, side), LAMBDA r : TargetFirst(r, c, side))

CombinedResult(folds, c, model) ==
  UNION {LET train == BothComplete(folds[n].train, c)
         IN Candidates(BothComplete(folds[n].validation, c), folds[n].opens,
                       LAMBDA r : MetaGate(train, model, r, c)) : n \in DOMAIN folds}

\* How much better than the prior a model orders the validation rows.
Lift(folds, model, side) ==
  LET scored(n, m) ==
        {[row |-> r, score |-> Frequency(m, Complete(folds[n].train, Primary, side), r,
                                         LAMBDA q : TargetFirst(q, Primary, side))]
           : r \in Complete(folds[n].validation, Primary, side)}
      precision(m) == AveragePrecision(UNION {scored(n, m) : n \in DOMAIN folds},
                                       LAMBDA q : q.score, LAMBDA q : TargetFirst(q.row, Primary, side))
  IN precision(model) - precision("PRIOR")

V3Paid(selected) ==
  /\ Cardinality(selected) >= Required.v3
  /\ Total(selected, LAMBDA c : c.executable) > 0
  /\ \A scenario \in {"BASE", "STRESS"} :
       Total(selected, LAMBDA c : c.net[scenario]) >= (IF scenario = "BASE" THEN 1 ELSE 0)

\* Without a losing candidate the factor of profit is None and its comparison
\* raises.
V3Raises(selected) == V3Paid(selected) /\ \A c \in selected : c.net["BASE"] >= 0

V3Conclusion(selected, lifts) ==
  IF /\ selected # {}
     /\ V3Paid(selected)
     /\ ProfitFactor(selected, 11)
     /\ Cardinality(ActiveWeeks(selected)) >= Required.v3Weeks
     /\ Spread(selected, 60, 60)
     /\ \A side \in Sides : lifts[side] >= 2
  THEN "V3_FREEZE_CANDIDATE"
  ELSE IF /\ Cardinality(selected) >= Required.v3Promising
          /\ Total(selected, LAMBDA c : c.net["BASE"]) > 0
  THEN "V3_NEEDS_MORE_RESEARCH" ELSE "V3_RESEARCH_REJECTED"

\* ResearchV3Engine.run from its observations on.
ResearchV3(rows, model) ==
  LET folds == V3TemporalFolds(rows)
      purged(c) == PurgeV3TrainingLabels(folds, c)
      selected == CombinedResult(purged(Primary), Primary, model)
  IN IF (\E c \in Barriers : ~SideFittable(purged(c), c)) \/ V3Raises(selected) THEN None
     ELSE [evidence |-> selected,
           verdict |-> V3Conclusion(selected, [side \in Sides |-> Lift(purged(Primary), model, side)])]

-----------------------------------------------------------------------------
\* D.10

Outcomes == {"TARGET_FIRST", "STOP_FIRST", "NEITHER"}
BaseNet(r, side) == r.barrier[Primary][side].net["BASE"]

\* _payoff_means: what an outcome paid in training, or what all of it paid.
PayoffMeans(train, side) ==
  [o \in Outcomes |->
     LET with == {r \in train : r.barrier[Primary][side].outcome = o}
     IN Mean(IF with = {} THEN train ELSE with, LAMBDA r : BaseNet(r, side))]

\* The expected value of a row, times 100.
PredictedEv100(train, model, r, side) ==
  LET payoff == PayoffMeans(train, side)
      p(o) == Frequency(model, train, r, LAMBDA q : q.barrier[Primary][side].outcome = o)
  IN MapThenSumSet(LAMBDA o : p(o) * payoff[o], Outcomes)

\* 1.645 times the standard error of numbers over days, rounded up to a whole
\* point; the numbers are points times 100.
Margin(f) ==
  LET n == Cardinality(DOMAIN f)
      mean == MapThenSumSet(LAMBDA d : f[d], DOMAIN f) \div n
      squares == MapThenSumSet(LAMBDA d : ((f[d] - mean) \div 100) * ((f[d] - mean) \div 100), DOMAIN f)
  IN IF n = 1 THEN 0
     ELSE 100 * Min({m \in 0 .. MaxMargin : m * m * n * (n - 1) * 10 >= 27 * squares})

\* _daily_safety_buffer: what the nested folds' predictions promised too much,
\* by day, with a margin; times 100.
DailySafetyBuffer100(nested, model, side) ==
  LET residual(n, r) == 100 * BaseNet(r, side) - PredictedEv100(nested[n].train, model, r, side)
      seen == {<<n, r>> : n \in DOMAIN nested, r \in UNION {nested[k].validation : k \in DOMAIN nested}}
      valid == {x \in seen : x[2] \in nested[x[1]].validation}
      daily == [d \in {DayStart(x[2].at) : x \in valid} |->
                  Mean({x \in valid : DayStart(x[2].at) = d}, LAMBDA x : residual(x[1], x[2]))]
      mean == MapThenSumSet(LAMBDA d : daily[d], DOMAIN daily) \div Cardinality(DOMAIN daily)
  IN Max({0, Margin(daily) - mean})

\* A fold raises when one of its training sets is empty or of one class only,
\* or when there is nothing to predict.
D10Fittable(fold, nested) ==
  /\ fold.validation # {}
  /\ \A n \in DOMAIN nested : nested[n].train # {} /\ nested[n].validation # {}
  /\ \A side \in Sides :
       /\ \A train \in {fold.train} \union {nested[n].train : n \in DOMAIN nested} :
            Fittable(train, LAMBDA r : r.barrier[Primary][side].outcome)
       /\ Fittable(fold.train, LAMBDA r : TargetFirst(r, Primary, side))

\* The primary candidates of one fold.
D10Primary(fold, nested, model) ==
  LET primary(buffer) ==
        LET rates(r) == [side \in Sides |->
                           LET value == PredictedEv100(fold.train, model, r, side) - buffer[side]
                           IN [eligible |-> value > 0, value |-> value]]
        IN Candidates(fold.validation, fold.opens, rates)
  IN UNION {primary(buffer) : buffer \in {[side \in Sides |-> DailySafetyBuffer100(nested, model, side)]}}

\* _block_bootstrap resamples days: its lower bound on the expectancy of BASE is
\* positive when no day can make it otherwise, and not positive when every day
\* does.  In between it may be either.
LowerBounds(selected) ==
  LET days == {DayStart(c.at) : c \in selected}
      net(d) == Total({c \in selected : DayStart(c.at) = d}, LAMBDA c : c.net["BASE"])
  IN CASE selected = {} -> {FALSE}
       [] selected # {} /\ (\A d \in days : net(d) > 0) -> {TRUE}
       [] selected # {} /\ (\A d \in days : net(d) <= 0) -> {FALSE}
       [] OTHER -> BOOLEAN

D10Conclusion(selected, lower) ==
  LET enough == /\ Cardinality(selected) >= Required.d10
                /\ Cardinality(ActiveWeeks(selected)) >= Required.d10Weeks
      gains == /\ selected # {}
               /\ Total(selected, LAMBDA c : c.net["BASE"]) > 0
               /\ Total(selected, LAMBDA c : c.net["STRESS"]) >= 0
  IN CASE enough /\ gains /\ lower /\ ProfitFactor(selected, 11) /\ Spread(selected, 60, 60)
            -> "D10_FREEZE_CANDIDATE"
       [] ~enough -> "D10_INSUFFICIENT_EVIDENCE"
       [] enough /\ gains /\ ~(lower /\ ProfitFactor(selected, 11) /\ Spread(selected, 60, 60))
            -> "D10_NEEDS_MORE_RESEARCH"
       [] enough /\ ~gains -> "D10_RESEARCH_REJECTED"

\* ResearchD10Engine.run from its observations on, for a bound of the
\* bootstrap; the development folds and the baselines are reported and decide
\* nothing.
ResearchD10(rows, model) ==
  LET folds == D10TemporalFolds(rows)
      nested == [n \in DOMAIN folds |-> NestedFolds(folds[n])]
      selected(role) == UNION {D10Primary(folds[n], nested[n], model)
                                 : n \in {n \in DOMAIN folds : folds[n].role = role}}
      results(frozen) ==
        {[evidence |-> selected("MODEL_DEVELOPMENT") \union frozen,
          verdict |-> D10Conclusion(frozen, lower)] : lower \in LowerBounds(frozen)}
  IN IF \E n \in DOMAIN folds : ~D10Fittable(folds[n], nested[n]) THEN {None}
     ELSE UNION {results(frozen) : frozen \in {selected("INTERNAL_FREEZE_CHECK")}}
=============================================================================
