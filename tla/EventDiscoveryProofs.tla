------------------------- MODULE EventDiscoveryProofs -------------------------
(***************************************************************************)
(* Proofs about EventDiscovery: the bound of a minute is sound, and the    *)
(* scan that uses it computes the episodes of EpisodeScan.                 *)
(***************************************************************************)
EXTENDS EventDiscovery, TLAPS

-----------------------------------------------------------------------------
\* The components of a score and their ranges.

LEMMA SignTypes ==
  ASSUME NEW n \in Int
  PROVE  Sign(n) \in Signs
BY DEF Sign, Signs

LEMMA PointsTypes ==
  ASSUME NEW n \in Nat, NEW b
  PROVE  Points(n, b) \in {0, n}
BY DEF Points

LEMMA TriggerTypes ==
  ASSUME NEW bars \in Bars, NEW ticks \in Ticks
  PROVE  TriggerDirection(bars, ticks) \in Signs
BY SMT DEF TriggerDirection, Bars, Ticks, Signs, Horizons, Sign

LEMMA BiasTypes ==
  ASSUME NEW bars \in Bars
  PROVE  MarketBias(bars) \in Signs
BY SMT DEF MarketBias, Bars, Signs, Sign

LEMMA FavorableTypes ==
  ASSUME NEW d \in {-1, 1}
  PROVE  Favorable(d) \in Ticks
BY SMT DEF Favorable, Ticks

LEMMA ComponentRanges ==
  ASSUME NEW bars \in Bars, NEW ticks \in Ticks, NEW context \in Contexts, NEW trigger \in Signs
  PROVE  /\ M15Regime(bars) \in 0 .. 15
         /\ M5Alignment(bars) \in 0 .. 15
         /\ M1Momentum(bars, trigger) \in 0 .. 15
         /\ TickConfirmation(ticks, trigger) \in 0 .. 15
         /\ MarketStructure(bars) \in 0 .. 15
         /\ Volatility(bars) \in 0 .. 10
         /\ SpreadQuality(ticks, context) \in 0 .. 10
         /\ SessionNews(context) \in 0 .. 5
<1>1. M15Regime(bars) \in 0 .. 15
  BY SMT DEF M15Regime, Points, Bars
<1>2. M5Alignment(bars) \in 0 .. 15
  BY SMT DEF M5Alignment, Points
<1>3. M1Momentum(bars, trigger) \in 0 .. 15
  BY SMT DEF M1Momentum, Points
<1>4. TickConfirmation(ticks, trigger) \in 0 .. 15
  BY SMT DEF TickConfirmation, Points
<1>5. MarketStructure(bars) \in 0 .. 15
  BY SMT DEF MarketStructure, Points
<1>6. Volatility(bars) \in 0 .. 10
  BY SMT DEF Volatility, Points
<1>7. SpreadQuality(ticks, context) \in 0 .. 10
  BY SMT DEF SpreadQuality, Points
<1>8. SessionNews(context) \in 0 .. 5
  BY SMT DEF SessionNews, Points
<1> QED BY <1>1, <1>2, <1>3, <1>4, <1>5, <1>6, <1>7, <1>8

\* The score that SignalEngine.evaluate gives is one that score_tier takes.
THEOREM ScoreInRange ==
  ASSUME NEW bars \in Bars, NEW ticks \in Ticks, NEW context \in Contexts
  PROVE  Score(bars, ticks, context) \in 0 .. 100
<1> DEFINE trigger == TriggerDirection(bars, ticks)
<1>1. trigger \in Signs
  BY TriggerTypes
<1> HIDE DEF trigger
<1>2. Score(bars, ticks, context)
        = M15Regime(bars) + M5Alignment(bars) + M1Momentum(bars, trigger)
            + TickConfirmation(ticks, trigger) + MarketStructure(bars) + Volatility(bars)
            + SpreadQuality(ticks, context) + SessionNews(context)
  BY DEF Score, trigger
<1> QED BY <1>1, <1>2, ComponentRanges, SMT

-----------------------------------------------------------------------------
\* _minute_score_upper_bounds has a bound that covers any ticks: those that
\* favour their direction, or any when they have none.
LEMMA SomeDirectionCovers ==
  ASSUME NEW bars \in Bars, NEW ticks \in Ticks
  PROVE  \E d \in {-1, 1} :
           /\ TriggerDirection(bars, Favorable(d)) = d
           /\ TriggerDirection(bars, ticks) \in {0, d}
<1> DEFINE m(h) == Sign(bars.m1.momentum[h])
           votes == m(1) + m(3) + m(5)
<1>1. m(1) \in Signs /\ m(3) \in Signs /\ m(5) \in Signs
  BY SignTypes DEF Bars, Horizons
<1>2. TriggerDirection(bars, Favorable(1)) = Sign(votes + 2)
  BY <1>1, SMT DEF TriggerDirection, Favorable, Sign, Signs
<1>3. TriggerDirection(bars, Favorable(-1)) = Sign(votes - 2)
  BY <1>1, SMT DEF TriggerDirection, Favorable, Sign, Signs
<1>4. \E e \in -2 .. 2 : TriggerDirection(bars, ticks) \in {0, Sign(votes + e)}
  <2> DEFINE ratio == IF ticks.up > 55 THEN 1 ELSE IF ticks.down > 55 THEN -1 ELSE 0
             e == Sign(ticks.acceleration) + ratio
  <2>1. Sign(ticks.acceleration) \in Signs /\ ratio \in Signs
    BY SignTypes DEF Ticks, Signs
  <2>2. e \in -2 .. 2
    BY <2>1, SMT DEF Signs
  <2>3. TriggerDirection(bars, ticks) = IF ticks.stale THEN 0 ELSE Sign(m(1) + m(3) + m(5) + Sign(ticks.acceleration) + ratio)
    BY DEF TriggerDirection
  <2>4. m(1) + m(3) + m(5) + Sign(ticks.acceleration) + ratio = votes + e
    BY <1>1, <2>1, SMT DEF Signs
  <2> QED BY <2>2, <2>3, <2>4
<1>5. PICK e \in -2 .. 2 : TriggerDirection(bars, ticks) \in {0, Sign(votes + e)}
  BY <1>4
<1>6. votes \in Int
  BY <1>1, SMT DEF Signs
<1> HIDE DEF votes
<1>7. CASE votes >= -1 /\ Sign(votes + e) # -1
  BY <1>2, <1>5, <1>6, <1>7, SMT DEF Sign
<1>8. CASE votes <= 1 /\ Sign(votes + e) # 1
  BY <1>3, <1>5, <1>6, <1>8, SMT DEF Sign
<1> QED BY <1>5, <1>6, <1>7, <1>8, SMT DEF Sign

\* The bound is sound: when the maximum of a minute's bounds is below n, no
\* ticks give its bars a score of n.
THEOREM BoundIsSound ==
  ASSUME NEW bars \in Bars, NEW ticks \in Ticks, NEW context \in Contexts, NEW n \in Int,
         MaximumScoreBelow(bars, context, n)
  PROVE  Score(bars, ticks, context) < n
<1>1. PICK d \in {-1, 1} : /\ TriggerDirection(bars, Favorable(d)) = d
                           /\ TriggerDirection(bars, ticks) \in {0, d}
  BY SomeDirectionCovers
<1> DEFINE trigger == TriggerDirection(bars, ticks)
           best == Favorable(d)
<1>2. Score(bars, best, context) < n
  BY <1>1 DEF MaximumScoreBelow
<1>3. M1Momentum(bars, trigger) <= M1Momentum(bars, d)
  BY <1>1, SMT DEF M1Momentum, Points, Aligned
<1>4. TickConfirmation(best, d) = 15
  BY SMT DEF TickConfirmation, Favorable, Points, Aligned, Sign
<1>5. SpreadQuality(best, context) = 10
  BY SMT DEF SpreadQuality, Favorable, Points, Contexts
<1>6. d \in Signs /\ trigger \in Signs /\ best \in Ticks
  BY TriggerTypes, FavorableTypes DEF Signs
<1>7. Score(bars, ticks, context)
        = M15Regime(bars) + M5Alignment(bars) + M1Momentum(bars, trigger)
            + TickConfirmation(ticks, trigger) + MarketStructure(bars) + Volatility(bars)
            + SpreadQuality(ticks, context) + SessionNews(context)
  BY DEF Score
<1>8. Score(bars, best, context)
        = M15Regime(bars) + M5Alignment(bars) + M1Momentum(bars, d)
            + TickConfirmation(best, d) + MarketStructure(bars) + Volatility(bars)
            + SpreadQuality(best, context) + SessionNews(context)
  BY <1>1 DEF Score
<1> HIDE DEF trigger, best
<1>9. /\ M15Regime(bars) \in Int /\ M5Alignment(bars) \in Int /\ MarketStructure(bars) \in Int
      /\ Volatility(bars) \in Int /\ SessionNews(context) \in Int
      /\ M1Momentum(bars, trigger) \in Int /\ M1Momentum(bars, d) \in Int
      /\ TickConfirmation(ticks, trigger) \in 0 .. 15 /\ SpreadQuality(ticks, context) \in 0 .. 10
  BY <1>6, ComponentRanges, SMT
<1> QED BY <1>2, <1>3, <1>4, <1>5, <1>7, <1>8, <1>9, SMT

-----------------------------------------------------------------------------
\* The steps of a scan.  ScanStep is Sample with a snapshot.
ScanStep(t) ==
  /\ phase = "scan" /\ t \in 0 .. Horizon /\ t > now /\ now' = t
  /\ Snapshot(t) /\ Scan(t) /\ UNCHANGED phase

QuietStep(t) ==
  /\ phase = "scan" /\ t \in 0 .. Horizon /\ t > now /\ now' = t
  /\ Snapshot(t) /\ NoSnapshot /\ UNCHANGED phase

\* What is known of a decision, evaluated or not.
LEMMA DecisionOfStep ==
  ASSUME TypeOK, NEW t, ScanStep(t)
  PROVE  /\ decision' \in Scanned!Decisions
         /\ base' \in BarFeatures
         /\ \A n \in Int : MaximumScoreBelow(base', Context, n) => decision'.score < n
<1>1. base' \in BarFeatures
  BY DiscoveryAssumption DEF ScanStep, Snapshot, Scan, TypeOK
<1>2. PICK ticks \in TickFeatures : decision' = Evaluate(base', ticks, Context)
  BY DEF ScanStep, Scan
<1>3. base' \in Bars /\ ticks \in Ticks /\ Context \in Contexts
  BY <1>1, DiscoveryAssumption
<1>4. Score(base', ticks, Context) \in 0 .. 100
  BY <1>3, ScoreInRange
<1>5. TriggerDirection(base', ticks) \in {-1, 0, 1}
  BY <1>3, TriggerTypes DEF Signs
<1>6. Blocked(base', ticks, Context) \in BOOLEAN
  BY DEF Blocked
<1>7. decision' \in Scanned!Decisions
  BY <1>2, <1>4, <1>5, <1>6 DEF Evaluate, Scanned!Decisions
<1>8. ASSUME NEW n \in Int, MaximumScoreBelow(base', Context, n)
      PROVE  decision'.score < n
  <2>1. Score(base', ticks, Context) < n
    BY <1>3, <1>8, BoundIsSound
  <2> QED BY <1>2, <2>1 DEF Evaluate
<1> QED BY <1>1, <1>7, <1>8

\* The consequences for a second that the bound spares.
LEMMA SparedDecision ==
  ASSUME TypeOK, NEW t, ScanStep(t), Irrelevant
  PROVE  /\ decision'.score < Activation
         /\ ~Compatible(decision')
         /\ MaximumScoreBelow(base', Context, Rearm) => decision'.score < Rearm
<1>1. Activation \in Int /\ Rearm \in Int
  BY DiscoveryAssumption
<1>2. decision'.score < Activation
  BY <1>1, DecisionOfStep DEF Irrelevant
<1>3. decision'.score \in Int
  BY DecisionOfStep DEF Scanned!Decisions
<1> QED BY <1>1, <1>2, <1>3, DecisionOfStep DEF Compatible

\* What the scan does with a decision is what the abstract scan does.
LEMMA ScanRefines ==
  ASSUME DiscoveryInv, NEW t, ScanStep(t)
  PROVE  Scanned!Evaluated(t, decision')
<1> DEFINE d == decision'
<1> USE DEF DiscoveryInv
<1>1. d \in Scanned!Decisions
  BY DecisionOfStep
<1>2. d.score \in Int /\ d # None
  BY <1>1, NoneAssumption DEF Scanned!Decisions
<1>3. Scanned!Hear(t, d)
  BY DEF ScanStep, Scan, Scanned!Hear, Scanned!Low
<1>4. Scanned!Candidate(d) <=> Compatible(d)
  BY DEF Scanned!Candidate, Compatible
<1>5. CASE Irrelevant
  <2>1. Skip(t)
    BY <1>5 DEF ScanStep, Scan
  <2>2. ~Compatible(d) /\ (MaximumScoreBelow(base', Context, Rearm) => d.score < Rearm)
    BY <1>5, SparedDecision
  <2>3. armed' \in BOOLEAN /\ (armed' <=> armed \/ MaximumScoreBelow(base', Context, Rearm))
    BY <2>1 DEF Skip, TypeOK, MaximumScoreBelow
  <2>4. armed \/ MaximumScoreBelow(base', Context, Rearm)
    BY <1>5 DEF Irrelevant
  <2>5. CASE active # None
    <3>1. ~armed
      BY <2>5 DEF FlagsInv
    <3>2. armed' = Scanned!Low(d)
      BY <2>2, <2>3, <2>4, <3>1 DEF Scanned!Low
    <3>3. Scanned!Close(t, d)
      BY <1>4, <2>1, <2>2, <2>5, <3>2 DEF Skip, Completed, Scanned!Close
    <3> QED BY <1>3, <3>3 DEF Scanned!Evaluated
  <2>6. CASE active = None /\ armed
    <3>1. Scanned!Wait(d)
      BY <1>4, <2>1, <2>2, <2>3, <2>6 DEF Skip, Completed, FlagsInv, TypeOK, Scanned!Wait
    <3> QED BY <1>3, <3>1 DEF Scanned!Evaluated
  <2>7. CASE active = None /\ ~armed
    <3>1. armed' = Scanned!Low(d)
      BY <2>2, <2>3, <2>4, <2>7 DEF Scanned!Low
    <3>2. Scanned!Listen(d)
      BY <2>1, <2>7, <3>1 DEF Skip, Completed, Scanned!Listen
    <3> QED BY <1>3, <3>2 DEF Scanned!Evaluated
  <2> QED BY <2>5, <2>6, <2>7
<1>6. CASE ~Irrelevant
  <2>1. Exact(t, d)
    BY <1>6 DEF ScanStep, Scan
  <2>2. CASE BecomeInitialized(d)
    BY <1>3, <2>2 DEF BecomeInitialized, FlagsInv, Scanned!Listen, Scanned!Low, Scanned!Evaluated
  <2>3. CASE Continue(t, d)
    BY <1>3, <1>4, <2>3 DEF Continue, Scanned!Last, Scanned!Lasting, Scanned!Evaluated
  <2>4. CASE Complete(t, d)
    BY <1>3, <1>4, <2>4 DEF Complete, Completed, Scanned!Close, Scanned!Low, Scanned!Evaluated
  <2>5. CASE RearmScan(d)
    BY <1>3, <2>5 DEF RearmScan, Scanned!Listen, Scanned!Low, Scanned!Evaluated
  <2>6. CASE Activate(t, d)
    <3>1. nextId' - 1 = (nextId - 1) + 1 /\ nextId' - 1 = nextId
      BY <2>6, SMT DEF Activate, TypeOK
    <3>2. decision # None /\ decision.score < Activation
      BY <2>6 DEF Activate, FlagsInv
    <3>3. Scanned!Cross(t, d)
      BY <1>4, <2>6, <3>1, <3>2 DEF Activate, Scanned!Cross, Scanned!Opened
    <3> QED BY <1>3, <3>3 DEF Scanned!Evaluated
  <2>7. CASE Stay(d)
    <3>1. decision # None
      BY <2>7 DEF Stay, FlagsInv
    <3>2. decision.score \in Int
      BY <3>1 DEF TypeOK, Scanned!Decisions
    <3>3. decision.score >= Activation \/ ~Compatible(d)
      BY <2>7, <3>1, <3>2, DiscoveryAssumption, SMT DEF Stay, FlagsInv
    <3>4. Scanned!Wait(d)
      BY <1>4, <2>7, <3>1, <3>3 DEF Stay, Scanned!Wait
    <3> QED BY <1>3, <3>4 DEF Scanned!Evaluated
  <2> QED BY <2>1, <2>2, <2>3, <2>4, <2>5, <2>6, <2>7 DEF Exact
<1> QED BY <1>5, <1>6

-----------------------------------------------------------------------------
\* The inductive invariant.

LEMMA InitInv == Init => DiscoveryInv
<1> SUFFICES ASSUME Init PROVE DiscoveryInv
  OBVIOUS
<1>1. 0 \in 0 .. Horizon /\ 0 \in 0 .. 0 /\ 1 \in Nat \ {0}
  BY DiscoveryAssumption, SMT
<1>2. TypeOK
  BY <1>1 DEF Init, TypeOK
<1>3. FlagsInv /\ OrderInv
  BY DEF Init, FlagsInv, OrderInv, EpisodesAreDisjoint, Scanned!EpisodesAreDisjoint
<1> QED BY <1>2, <1>3 DEF DiscoveryInv

LEMMA SnapshotTypes ==
  ASSUME TypeOK, NEW t \in 0 .. Horizon, Snapshot(t)
  PROVE  /\ base' \in BarFeatures \union {None}
         /\ minute' \in {s \div MinuteLength : s \in 0 .. Horizon}
BY DEF Snapshot, TypeOK

LEMMA QuietInv ==
  ASSUME DiscoveryInv, NEW t, QuietStep(t)
  PROVE  DiscoveryInv'
<1> USE DEF DiscoveryInv, QuietStep, NoSnapshot
<1>1. TypeOK'
  BY SnapshotTypes, SMT DEF TypeOK
<1>2. FlagsInv'
  BY DEF FlagsInv
<1>3. OrderInv'
  BY DEF OrderInv, EpisodesAreDisjoint, Scanned!EpisodesAreDisjoint
<1> QED BY <1>1, <1>2, <1>3

\* What a step does to the episodes: it leaves them, lengthens the open one,
\* completes it, or opens one.
Kept == active' = active /\ rows' = rows /\ nextId' = nextId
Lengthened(t) ==
  /\ active # None /\ active' \in Scanned!Episodes
  /\ active'.first = active.first /\ active'.id = active.id /\ active'.peak \in {active.peak, t}
  /\ rows' = rows /\ nextId' = nextId /\ ~armed'
CompletedAt(t) ==
  /\ active # None /\ active' = None /\ nextId' = nextId
  /\ rows' = rows \union {[episode |-> active, end |-> t]}
OpenedAt(t) ==
  /\ active = None /\ armed /\ ~armed'
  /\ active' \in Scanned!Episodes
  /\ active'.id = nextId /\ active'.first = t /\ active'.peak = t
  /\ rows' = rows /\ nextId' = nextId + 1

\* What a step does to the flags.
Flags(t) ==
  LET d == decision'
  IN /\ initialized' = TRUE
     /\ previousBelow' \in BOOLEAN /\ (previousBelow' <=> d.score < Activation)
     /\ armed' \in BOOLEAN
     /\ armed' => active' = None
     /\ armed' => d.score < Rearm \/ (armed /\ Kept)

LEMMA ScanEffects ==
  ASSUME DiscoveryInv, NEW t, ScanStep(t)
  PROVE  /\ Flags(t)
         /\ Kept \/ Lengthened(t) \/ CompletedAt(t) \/ OpenedAt(t)
<1> DEFINE d == decision'
<1> USE DEF DiscoveryInv
<1>1. d \in Scanned!Decisions /\ d.score \in Int /\ d.score \in Nat
  BY DecisionOfStep DEF Scanned!Decisions
<1>2. t \in 0 .. Horizon
  BY DEF ScanStep
<1>3. CASE Irrelevant
  <2>1. Skip(t)
    BY <1>3 DEF ScanStep, Scan
  <2>2. d.score < Activation /\ (MaximumScoreBelow(base', Context, Rearm) => d.score < Rearm)
    BY <1>3, SparedDecision
  <2>3. armed' \in BOOLEAN /\ (armed' <=> armed \/ MaximumScoreBelow(base', Context, Rearm))
    BY <2>1 DEF Skip, TypeOK, MaximumScoreBelow
  <2>4. armed => active = None
    BY DEF FlagsInv
  <2>5. active = None => Kept
    BY <2>1 DEF Skip, Completed, Kept
  <2>6. active # None => CompletedAt(t)
    BY <2>1 DEF Skip, Completed, CompletedAt
  <2>7. Flags(t)
    BY <2>1, <2>2, <2>3, <2>4, <2>5 DEF Skip, Flags
  <2> QED BY <2>5, <2>6, <2>7
<1>4. CASE ~Irrelevant
  <2>1. Exact(t, d)
    BY <1>4 DEF ScanStep, Scan
  <2>a. (d.score < Activation) \in BOOLEAN /\ (d.score < Rearm) \in BOOLEAN
    BY SMT
  <2>b. previousBelow' = (d.score < Activation)
    BY <2>1 DEF Exact
  <2>2. /\ previousBelow' \in BOOLEAN /\ (previousBelow' <=> d.score < Activation)
        /\ (d.score < Rearm) \in BOOLEAN
    BY <2>a, <2>b, Zenon
  <2>3. CASE BecomeInitialized(d)
    <3>1. active = None
      BY <2>3 DEF BecomeInitialized, FlagsInv
    <3> QED BY <2>2, <2>3, <3>1 DEF BecomeInitialized, Kept, Flags
  <2>4. CASE Continue(t, d)
    <3>1. active \in Scanned!Episodes /\ ~armed /\ ~armed' /\ armed' \in BOOLEAN /\ initialized' = initialized /\ initialized
      BY <2>4 DEF Continue, TypeOK, FlagsInv
    <3> DEFINE peak == IF d.score > active.best THEN t ELSE active.peak
               best == IF d.score > active.best THEN d.score ELSE active.best
    <3>2. active' = [active EXCEPT !.states = active.states + 1, !.peak = peak, !.best = best]
      BY <2>4 DEF Continue
    <3>3. /\ active.states + 1 \in Nat
          /\ peak \in Scanned!Seconds /\ peak \in {active.peak, t} /\ best \in Nat
      BY <1>1, <1>2, <3>1 DEF Scanned!Episodes, Scanned!Seconds
    <3> HIDE DEF peak, best
    <3>4. active' \in Scanned!Episodes /\ active'.id = active.id /\ active'.first = active.first
          /\ active'.peak = peak
      <4> DEFINE s == active.states + 1
      <4>1. s \in Nat /\ active' = [active EXCEPT !.states = s, !.peak = peak, !.best = best]
        BY <3>2, <3>3
      <4> HIDE DEF s
      <4> QED BY <3>1, <3>3, <4>1, Zenon DEF Scanned!Episodes
    <3>5. Lengthened(t)
      BY <2>4, <3>1, <3>3, <3>4 DEF Continue, Lengthened
    <3>6. Flags(t)
      BY <2>2, <3>1 DEF Flags
    <3> QED BY <3>5, <3>6
  <2>5. CASE Complete(t, d)
    BY <2>2, <2>5 DEF Complete, Completed, CompletedAt, Flags
  <2>6. CASE RearmScan(d)
    BY <2>2, <2>6 DEF RearmScan, Kept, Flags
  <2>7. CASE Activate(t, d)
    <3>1. d.trigger \in {-1, 1}
      BY <1>1, <2>7 DEF Activate, Compatible, Scanned!Decisions
    <3>2. active' \in Scanned!Episodes
      BY <1>1, <1>2, <2>7, <3>1 DEF Activate, TypeOK, Scanned!Episodes, Scanned!Seconds
    <3>3. OpenedAt(t)
      BY <2>7, <3>2 DEF Activate, OpenedAt
    <3>4. Flags(t)
      BY <2>2, <2>7 DEF Activate, Flags
    <3> QED BY <3>3, <3>4
  <2>8. CASE Stay(d)
    BY <2>2, <2>8 DEF Stay, Kept, Flags
  <2> QED BY <2>1, <2>3, <2>4, <2>5, <2>6, <2>7, <2>8 DEF Exact
<1> QED BY <1>3, <1>4

LEMMA ScanInv ==
  ASSUME DiscoveryInv, NEW t, ScanStep(t)
  PROVE  DiscoveryInv'
<1> DEFINE d == decision'
<1> USE DEF DiscoveryInv
<1>1. d \in Scanned!Decisions /\ base' \in BarFeatures /\ d # None
  BY DecisionOfStep, NoneAssumption
<1>2. /\ t \in 0 .. Horizon /\ now' = t /\ lastTime' = t /\ phase' = phase
      /\ lastTime \in 0 .. now /\ now < t /\ lastTime < t
      /\ low' = IF d.score < Rearm THEN t ELSE low
  BY SMT DEF ScanStep, Scan, TypeOK
<1>3. minute' \in {s \div MinuteLength : s \in 0 .. Horizon}
  BY SnapshotTypes DEF ScanStep
<1>4. Flags(t) /\ (Kept \/ Lengthened(t) \/ CompletedAt(t) \/ OpenedAt(t))
  BY ScanEffects
<1>5. d.score \in Int /\ Activation \in Int /\ Rearm \in Int
  BY <1>1, DiscoveryAssumption DEF Scanned!Decisions
<1>6. TypeOK'
  <2>1. low' \in 0 .. lastTime' \union {None}
    BY <1>2, SMT DEF TypeOK
  <2>2. active' \in Scanned!Episodes \union {None}
    BY <1>4 DEF Kept, Lengthened, CompletedAt, OpenedAt, TypeOK
  <2>3. rows' \subseteq Scanned!Closed
    BY <1>2, <1>4 DEF Kept, Lengthened, CompletedAt, OpenedAt, TypeOK, Scanned!Closed, Scanned!Seconds
  <2>4. nextId' \in Nat \ {0}
    BY <1>4, SMT DEF Kept, Lengthened, CompletedAt, OpenedAt, TypeOK
  <2>5. previousBelow' \in BOOLEAN /\ initialized' \in BOOLEAN /\ armed' \in BOOLEAN
    BY <1>4 DEF Flags
  <2>6. now' \in 0 .. Horizon /\ lastTime' \in 0 .. now'
    BY <1>2, SMT
  <2> QED BY <1>1, <1>2, <1>3, <2>1, <2>2, <2>3, <2>4, <2>5, <2>6 DEF TypeOK
<1>7. FlagsInv'
  BY <1>1, <1>4 DEF Flags, FlagsInv
<1>8. OrderInv'
  <2>0. /\ \A c \in rows : c \in Scanned!Closed /\ c.end \in Nat /\ c.episode.id \in Nat
                           /\ c.episode.first \in Nat /\ c.episode.peak \in Nat
        /\ active # None => /\ active \in Scanned!Episodes
                            /\ active.first \in Nat /\ active.peak \in Nat /\ active.id \in Nat
        /\ nextId \in Nat
    BY SMT DEF TypeOK, Scanned!Closed, Scanned!Episodes, Scanned!Seconds
  <2>1. armed' => low' # None /\ (d.score < Rearm \/ (armed /\ Kept))
    BY <1>2, <1>4, NoneAssumption DEF Flags, OrderInv
  <2>2. CASE Kept
    <3>1. \A c \in rows : c.end <= t /\ (armed' => c.end <= low')
      BY <1>2, <2>0, <2>1, <2>2, SMT DEF OrderInv, TypeOK
    <3>2. active # None => active.peak <= t
      BY <1>2, <2>0, SMT DEF OrderInv
    <3> QED BY <1>2, <2>1, <2>2, <3>1, <3>2
            DEF Kept, OrderInv, EpisodesAreDisjoint, Scanned!EpisodesAreDisjoint
  <2>3. CASE Lengthened(t)
    <3>1. ~armed' /\ active' # None /\ rows' = rows /\ nextId' = nextId
      BY <2>3, NoneAssumption DEF Lengthened
    <3>2. \A c \in rows : c.end <= t
      BY <1>2, <2>0, SMT DEF OrderInv
    <3>3. active'.first <= active'.peak /\ active'.peak <= t /\ active'.id < nextId
      BY <1>2, <2>0, <2>3, SMT DEF Lengthened, OrderInv
    <3>4. \A c \in rows : /\ c.episode.id < nextId
                          /\ c.end < active'.first /\ c.episode.id < active'.id
      BY <2>3 DEF Lengthened, OrderInv
    <3> QED BY <1>2, <3>1, <3>2, <3>3, <3>4
            DEF OrderInv, EpisodesAreDisjoint, Scanned!EpisodesAreDisjoint
  <2>4. CASE CompletedAt(t)
    <3> DEFINE new == [episode |-> active, end |-> t]
    <3>1. rows' = rows \union {new} /\ active' = None /\ nextId' = nextId /\ active # None
      BY <2>4 DEF CompletedAt
    <3>2. armed' => low' = t
      BY <1>2, <2>1, <3>1 DEF Kept
    <3>3. new.episode = active /\ new.end = t
      OBVIOUS
    <3> HIDE DEF new
    <3>4. /\ active.first <= active.peak /\ active.peak <= t /\ active.id < nextId
      BY <1>2, <2>0, <3>1, SMT DEF OrderInv
    <3>5. \A c \in rows' : c.end <= t /\ c.episode.id < nextId
      BY <1>2, <2>0, <3>1, <3>3, <3>4, SMT DEF OrderInv
    <3>6. \A c \in rows : c.end < new.episode.first /\ c.episode.id < new.episode.id
      BY <3>1, <3>3 DEF OrderInv
    <3>7. EpisodesAreDisjoint'
      BY <3>1, <3>3, <3>4, <3>6 DEF OrderInv, EpisodesAreDisjoint, Scanned!EpisodesAreDisjoint
    <3> QED BY <1>2, <2>1, <3>1, <3>2, <3>5, <3>7 DEF OrderInv
  <2>5. CASE OpenedAt(t)
    <3>1. /\ ~armed' /\ active' # None /\ rows' = rows /\ nextId' = nextId + 1
          /\ active'.id = nextId /\ active'.first = t /\ active'.peak = t
      BY <2>5, NoneAssumption DEF OpenedAt
    <3>2. \A c \in rows : c.end < t /\ c.episode.id < nextId /\ c.episode.id < nextId + 1 /\ c.end <= t
      BY <1>2, <2>0, SMT DEF OrderInv
    <3>3. t <= t /\ nextId < nextId + 1
      BY <1>2, <2>0, SMT
    <3> QED BY <1>2, <3>1, <3>2, <3>3
            DEF OrderInv, EpisodesAreDisjoint, Scanned!EpisodesAreDisjoint
  <2> QED BY <1>4, <2>2, <2>3, <2>4, <2>5
<1> QED BY <1>6, <1>7, <1>8

LEMMA FinishInv ==
  ASSUME DiscoveryInv, Finish
  PROVE  DiscoveryInv'
<1> USE DEF DiscoveryInv
<1>1. CASE active = None
  <2>1. rows' = rows /\ active' = active
    BY <1>1 DEF Finish, Completed
  <2> QED BY <2>1 DEF Finish, TypeOK, FlagsInv, OrderInv, EpisodesAreDisjoint, Scanned!EpisodesAreDisjoint
<1>2. CASE active # None
  <2> DEFINE new == [episode |-> active, end |-> lastTime]
  <2>1. rows' = rows \union {new} /\ active' = None
    BY <1>2 DEF Finish, Completed
  <2>2. new.episode = active /\ new.end = lastTime
    OBVIOUS
  <2>3. new \in Scanned!Closed
    <3>1. active \in Scanned!Episodes
      BY <1>2 DEF TypeOK
    <3>2. lastTime \in Scanned!Seconds
      BY DiscoveryAssumption, SMT DEF TypeOK, Scanned!Seconds
    <3> QED BY <3>1, <3>2 DEF Scanned!Closed
  <2> HIDE DEF new
  <2>4. ~armed
    BY <1>2 DEF FlagsInv
  <2>5. TypeOK'
    BY <2>1, <2>3 DEF Finish, TypeOK
  <2>6. FlagsInv'
    BY <2>1, <2>4 DEF Finish, FlagsInv
  <2>7. EpisodesAreDisjoint'
    BY <1>2, <2>1, <2>2 DEF OrderInv, EpisodesAreDisjoint, Scanned!EpisodesAreDisjoint
  <2>8. lastTime <= lastTime
    BY SMT DEF TypeOK
  <2>9. OrderInv'
    BY <1>2, <2>1, <2>2, <2>4, <2>7, <2>8 DEF Finish, OrderInv
  <2> QED BY <2>5, <2>6, <2>9
<1> QED BY <1>1, <1>2

\* Every step is a second without a snapshot, an evaluated one, or the end.
LEMMA NextCases ==
  ASSUME Next
  PROVE  (\E t : QuietStep(t) \/ ScanStep(t)) \/ Finish
BY DEF Next, Sample, QuietStep, ScanStep

LEMMA NextInv ==
  ASSUME DiscoveryInv, [Next]_vars
  PROVE  DiscoveryInv'
<1>1. CASE UNCHANGED vars
  BY <1>1 DEF vars, DiscoveryInv, TypeOK, FlagsInv, OrderInv,
              EpisodesAreDisjoint, Scanned!EpisodesAreDisjoint
<1>2. CASE Next
  <2>1. ASSUME NEW t, QuietStep(t) \/ ScanStep(t) PROVE DiscoveryInv'
    BY <2>1, QuietInv, ScanInv
  <2>2. CASE Finish
    BY <2>2, FinishInv
  <2> QED BY <1>2, <2>1, <2>2, NextCases
<1> QED BY <1>1, <1>2

THEOREM DiscoveryInvariant == Spec => []DiscoveryInv
<1>1. Init => DiscoveryInv
  BY InitInv
<1>2. DiscoveryInv /\ [Next]_vars => DiscoveryInv'
  BY NextInv
<1> QED BY <1>1, <1>2, PTL DEF Spec

\* The completed episodes are disjoint intervals in the order of their ids.
THEOREM EpisodesStayDisjoint == Spec => []EpisodesAreDisjoint
<1>1. DiscoveryInv => EpisodesAreDisjoint
  BY DEF DiscoveryInv, OrderInv
<1> QED BY <1>1, DiscoveryInvariant, PTL

-----------------------------------------------------------------------------
\* The refinement.

LEMMA InitRefines == Init => Scanned!Init
<1> SUFFICES ASSUME Init PROVE Scanned!Init
  OBVIOUS
<1>1. nextId - 1 = 0
  BY SMT DEF Init
<1>2. ~(phase # "scan")
  BY DEF Init
<1>3. (phase # "scan") = FALSE
  BY <1>2
<1> QED BY <1>1, <1>3 DEF Init, Scanned!Init

LEMMA StepRefines ==
  ASSUME DiscoveryInv, [Next]_vars
  PROVE  [Scanned!Next]_Scanned!vars
<1>1. CASE UNCHANGED vars
  BY <1>1 DEF vars, Scanned!vars
<1>2. ASSUME NEW t, QuietStep(t) PROVE Scanned!Next
  <2>1. t \in now + 1 .. Horizon /\ now' = t
    BY <1>2, SMT DEF QuietStep, DiscoveryInv, TypeOK
  <2>2. Scanned!Quiet(t) /\ ~(phase # "scan")
    BY <1>2 DEF QuietStep, NoSnapshot, Scanned!Quiet
  <2> QED BY <2>1, <2>2 DEF Scanned!Next
<1>3. ASSUME NEW t, ScanStep(t) PROVE Scanned!Next
  <2>1. t \in now + 1 .. Horizon /\ now' = t
    BY <1>3, SMT DEF ScanStep, Scan, DiscoveryInv, TypeOK
  <2>2. Scanned!Evaluated(t, decision')
    BY <1>3, ScanRefines
  <2>3. decision' \in Scanned!Decisions
    BY <1>3, DecisionOfStep DEF DiscoveryInv
  <2>4. ~(phase # "scan")
    BY <1>3 DEF ScanStep
  <2> QED BY <2>1, <2>2, <2>3, <2>4 DEF Scanned!Next
<1>4. CASE Finish
  <2>1. Scanned!End
    BY <1>4 DEF Finish, Completed, Scanned!End
  <2>2. ~(phase # "scan")
    BY <1>4 DEF Finish
  <2> QED BY <2>1, <2>2 DEF Scanned!Next
<1> QED BY <1>1, <1>2, <1>3, <1>4, NextCases

\* The bounded scan computes the episodes of the scan that evaluates every
\* second.
THEOREM DiscoveryImplementsScan == Spec => ImplementsScan
<1>1. Init => Scanned!Init
  BY InitRefines
<1>2. DiscoveryInv /\ [Next]_vars => [Scanned!Next]_Scanned!vars
  BY StepRefines
<1> QED BY <1>1, <1>2, DiscoveryInvariant, PTL DEF Spec, ImplementsScan, Scanned!Spec

\* Between an episode and the next some second's score was below Rearm.
LEMMA CrossingStep ==
  ASSUME DiscoveryInv, [Next]_vars, active = None, active' # None
  PROVE  low # None /\ \A c \in rows : c.end <= low /\ low < active'.first
<1>1. PICK t : ScanStep(t)
  BY NextCases DEF vars, QuietStep, NoSnapshot, Finish
<1>2. OpenedAt(t)
  BY <1>1, ScanEffects DEF Kept, Lengthened, CompletedAt
<1>3. /\ armed /\ active'.first = t /\ now < t /\ now \in Int /\ t \in Int
      /\ lastTime \in 0 .. now
  BY <1>1, <1>2, SMT DEF ScanStep, OpenedAt, DiscoveryInv, TypeOK
<1>4. low # None /\ low \in 0 .. lastTime /\ \A c \in rows : c.end <= low
  BY <1>3 DEF DiscoveryInv, OrderInv, TypeOK
<1>5. low < t
  BY <1>3, <1>4, SMT
<1> QED BY <1>3, <1>4, <1>5

THEOREM CrossingsStayApart == Spec => CrossingsAreApart
<1>1. DiscoveryInv /\ [Next]_vars
        => [active = None /\ active' # None =>
              low # None /\ \A c \in rows : c.end <= low /\ low < active'.first]_Scanned!vars
  BY CrossingStep
<1> QED BY <1>1, DiscoveryInvariant, PTL DEF Spec, CrossingsAreApart, Scanned!CrossingsAreApart
=============================================================================
