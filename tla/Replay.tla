------------------------------- MODULE Replay -------------------------------
(***************************************************************************)
(* The three historical qualifications of Binance Spot: crypto-backtest    *)
(* (V1), binance-v2 and binance-v3.  A command freezes a universe of pairs *)
(* from what the exchange shows, collects their history, replays it bar by *)
(* bar under several configurations and delivers a verdict.                *)
(* (binance/second_delivery, v2_delivery, v3_delivery, qualification and   *)
(* replay_relative_strength of v3_cross_sectional.)                        *)
(*                                                                         *)
(* The round trips of a replay are kept in a ledger, so that the promises  *)
(* of PaperLedger can be asked of the replays too.  The excursions of a    *)
(* position and the texts of the reports are left out.                     *)
(***************************************************************************)
EXTENDS SpotEconomics

CONSTANTS
  Cooldown, DayLength, MaxEntries, Horizon, \* as in Ledger
  Markets,       \* sequence of histories, each one the M1 bars of every symbol
  Views,         \* what the exchange may show
  Plans,         \* configurations that each protocol replays, the primary first
  SpotTrades,    \* trades after which V1 ends a day (6)
  LossStreak,    \* losses in a row after which V1 and V2 end a day (3)
  DailyFraction, \* a day ends at a gain or a loss of 1 / DailyFraction (100)
  HoldLimit,     \* minutes after which V1 and V2 leave (60)
  Validation,    \* first time that V3 replays
  Coverage,      \* [bars, span] a symbol needs for V3 (80 % and 60 days)
  Evidence,      \* [v1, v2, v3, weeks, v3weeks]: trades and weeks of a verdict
  WeekDays,      \* days in a week
  MaxCommands    \* bound: commands started

ASSUME ReplayAssumption ==
  /\ Cooldown \in Nat \ {0}
  /\ DayLength \in Nat \ {0}
  /\ MaxEntries \in Nat
  /\ Horizon \in Nat
  /\ Validation \in Nat
  /\ \A w \in DOMAIN Markets : Markets[w] \in [Symbols -> Seq(Bars)]
  /\ \A v \in Views : IsView(v)
  /\ \A p \in {"V1", "V2", "V3"} :
       /\ Plans[p] \in Seq(Range(Plans[p])) \ {<<>>}
       /\ \A c \in Range(Plans[p]) : c.capital \in Int /\ c.leaders \in Nat
  /\ None \notin Int /\ None \notin [signal : 0 .. Horizon, entry : 0 .. Horizon]

VARIABLES
  now,      \* time of the bar being replayed
  book,     \* the account of the replay
  pc,       \* the point that the command has reached, "idle" without one
  run,      \* the command in progress, None when there is none
  disk,     \* the files of the protocols
  live,     \* what the exchange shows
  market,   \* which history the exchange has
  given,    \* what the histories give, computed once
  reports,  \* the reports delivered
  commands  \* commands started so far

\* V1 knows neither a cool-down nor a budget of entries.
paper == IF pc = "idle" \/ run.protocol = "V1" THEN [open |-> None, done |-> {}, lastExit |-> None,
           entries |-> [d \in {t \div DayLength : t \in 0 .. Horizon} |-> 0]]
         ELSE book.ledger

INSTANCE PaperLedger WITH ledger <- paper

replayVars == <<now, book, pc, run, disk, live, market, given, reports, commands>>

-----------------------------------------------------------------------------
\* What the histories give, computed before a replay begins: their M5 bars, the signals of V1 and, for each cost
\* that the exchange may show, of V2; the sections of each universe of V3.
SymbolsOf(pairs) == Field(pairs, LAMBDA p : p.symbol)

AllReports == {MarketReport(v, UniverseScan(u)) : u, v \in Views}
CostsShown == UNION {Range(Field(r, LAMBDA p : p.cost)) : r \in AllReports}

Eligible(w, pairs, history) ==
  Only(pairs, {p \in Range(pairs) :
    LET m1 == Markets[w][p.symbol]
    IN /\ p.symbol \in history
       /\ 100 * Len(m1) >= 80 * Coverage.bars
       /\ Last(m1).time - Head(m1).time >= Coverage.span})

Universes(w) ==
  {SymbolsOf(Eligible(w, DynamicUniverse(r), history)) : r \in AllReports, history \in SUBSET Symbols}

BarAt(m5, t) ==
  LET at == Only(m5, {b \in Range(m5) : b.time = t}) IN IF at = <<>> THEN None ELSE Head(at)

GivenBy(w, m5) ==
  LET features == [s \in Symbols |-> Features(s, m5[s])]
  IN [bars |-> [s \in Symbols |-> [t \in Times |-> BarAt(m5[s], t)]],
      v1 |-> [s \in Symbols |-> GenerateV1(Markets[w][s])],
      v2 |-> [s \in Symbols |-> [c \in CostsShown |-> GenerateV2(Markets[w][s], (10000 * c) \div D)]],
      sections |-> [u \in Universes(w) |-> CrossSections(u, [s \in Range(u) |-> features[s]])]]

Given ==
  [w \in DOMAIN Markets |->
     GivenBy(w, [s \in Symbols |-> AggregateBars(Markets[w][s], Minutes.m5)])]

BarTimes(w, s) == {t \in Times : given[w].bars[s][t] # None}

\* The signal of a symbol at this time in a history, None when there is none.
SignalAt(w, pair, t) ==
  LET signals == IF run.protocol = "V1" THEN given[w].v1[pair.symbol]
                 ELSE given[w].v2[pair.symbol][pair.cost]
      at == {x \in signals : x.time = t}
  IN IF at = {} THEN None ELSE CHOOSE x \in at : TRUE

-----------------------------------------------------------------------------
\* The account of a replay.
EmptyBook(capital) ==
  [capital |-> capital, equity |-> capital, starts |-> [d \in Days |-> None], position |-> None,
   trades |-> <<>>, ledger |-> EmptyLedger]

Config == Head(run.left)

PairNamed(s) == run.pairs[CHOOSE i \in DOMAIN run.pairs : run.pairs[i].symbol = s]

\* symbol_fee, symbol_slippage_per_side, execution_costs
CostsOf(s) ==
  LET p == PairNamed(s)
  IN Scenario(IF run.protocol = "V1"
              THEN [fee |-> run.fee, half |-> p.half, slip |-> Limits.floor]
              ELSE [fee |-> p.fee, half |-> p.half, slip |-> p.slip], Config.stress)

RulesOf(s) ==
  LET p == IF run.protocol = "V3" THEN run.rules[s] ELSE PairOf(live, s)
  IN [minimum |-> p.minimum, step |-> p.step, notional |-> p.notional, maximum |-> Limits.quantity]

\* close_position of replay_spot, close of replay_relative_strength
CloseAt(b, t, reference, reason) ==
  LET p == b.position
      made == TradeOf(p.quantity, p.entry, reference, p.costs)
      trade == [market |-> made.market, spread |-> made.spread, slippage |-> made.slippage,
                commission |-> made.commission, net |-> made.net,
                symbol |-> p.symbol, from |-> p.time, to |-> t, reason |-> reason,
                budget |-> p.budget]
  IN [b EXCEPT !.equity = @ + trade.net,
               !.position = None,
               !.trades = Append(@, trade),
               !.ledger = Exit(b.ledger, t)]

\* position is not None: its times are in the ledger.
Holds(b) == b.ledger.open # None

OpenWith(b, position) ==
  [b EXCEPT !.position = position, !.ledger = Enter(b.ledger, position.signal, position.time)]

\* A day starts with the equity of its first bar.
DayStarted(b, t) ==
  IF b.starts[Day(t)] # None THEN b ELSE [b EXCEPT !.starts[Day(t)] = b.equity]

TradesOn(b, d) == {i \in DOMAIN b.trades : Day(b.trades[i].to) = d}
ResultOn(b, d) == Total([i \in DOMAIN b.trades |-> IF i \in TradesOn(b, d) THEN b.trades[i].net ELSE 0])
DayLimit(b, d) == (b.starts[d] + DailyFraction - 1) \div DailyFraction
InsideLimits(b, d) == Abs(ResultOn(b, d)) < DayLimit(b, d)

\* DailyPerformanceEngine: whether the day is still ACTIVE.
DayActive(b, d) ==
  LET trades == TradesOn(b, d)
      n == Cardinality(trades)
      latest == {i \in trades : Cardinality({j \in trades : j > i}) < LossStreak}
  IN /\ InsideLimits(b, d)
     /\ ~(n >= LossStreak /\ \A i \in latest : b.trades[i].net <= 0)
     /\ n < (IF run.protocol = "V1" THEN SpotTrades ELSE MaxEntries)

-----------------------------------------------------------------------------
\* replay_spot: the barrier that a bar touches, the stop first.
Barrier(p, bar) ==
  CASE bar.low * (D - p.costs.half) <= p.stop * D -> "STOP"
    [] bar.low * (D - p.costs.half) > p.stop * D
         /\ bar.high * (D - p.costs.half) >= p.target * D -> "TARGET"
    [] OTHER -> "NONE"

AtBarrier(b, t, barrier) ==
  CloseAt(b, t, IF barrier = "STOP" THEN b.position.stop ELSE b.position.target, barrier)

SpotExit(b, t) ==
  LET p == b.position
      bar == given[market].bars[p.symbol][t]
  IN IF ~Holds(b) THEN b
     ELSE CASE bar = None -> b
            [] bar # None /\ Barrier(p, bar) # "NONE" -> AtBarrier(b, t, Barrier(p, bar))
            [] bar # None /\ Barrier(p, bar) = "NONE" /\ t - p.time >= HoldLimit ->
                 CloseAt(b, t, bar.close, "TIMEOUT")
            [] OTHER -> b

\* The signals whose bar opens near their entry; V1 keeps those whose edge
\* exceeds the buffer and prefers the confident ones.
SpotEdge(s, t) ==
  LET signal == SignalAt(market, PairNamed(s), t)
      bar == given[market].bars[s][t]
  IN IF run.protocol = "V1" THEN NetEdge(signal, bar.open, CostsOf(s))
     ELSE NetEdge(signal, signal.entry, CostsOf(s))

SpotCandidates(t) ==
  LET buffer == IF Config.stress THEN 5 ELSE 2
  IN {s \in Range(SymbolsOf(run.pairs)) :
        LET signal == SignalAt(market, PairNamed(s), t)
            bar == given[market].bars[s][t]
        IN /\ s \in disk.history
           /\ signal # None
           /\ bar # None
           /\ 4 * Fine * Abs(bar.open - signal.entry) <= signal.atr
           /\ run.protocol = "V1" => SpotEdge(s, t) > buffer}

SpotScore(s, t) ==
  IF run.protocol = "V1" THEN SpotEdge(s, t) * SignalAt(market, PairNamed(s), t).confidence
  ELSE SpotEdge(s, t)

\* The entry at the open of the bar that follows the signal; the same bar may
\* touch a barrier.
SpotEntry(b, t) ==
  LET candidates == SpotCandidates(t)
      leading == {s \in candidates : \A r \in candidates :
                    \/ SpotScore(s, t) > SpotScore(r, t)
                    \/ /\ SpotScore(s, t) = SpotScore(r, t)
                       /\ Position(Alphabet, s) <= Position(Alphabet, r)}
      best == CHOOSE s \in leading : TRUE
      signal == SignalAt(market, PairNamed(best), t)
      bar == given[market].bars[best][t]
      c == CostsOf(best)
      stop == bar.open - (signal.entry - signal.stop)
      bought == Bought(bar.open, c)
      quantity == SizeOf(b.equity, bought, stop, bought * (D + c.fee), 2 * (c.fee + c.slip),
                         RulesOf(best))
      opened == OpenWith(b, [symbol |-> best, signal |-> t, time |-> t, quantity |-> quantity,
                             entry |-> bar.open, stop |-> stop, costs |-> c,
                             target |-> bar.open + (signal.target - signal.entry),
                             budget |-> b.equity \div RiskFraction])
      barrier == Barrier(opened.position, bar)
  IN IF \/ Holds(b)
        \/ ~DayActive(b, Day(t))
        \/ run.protocol = "V2" /\ ~CooledDown(b.ledger, t)
        \/ leading = {}
     THEN b
     ELSE IF quantity = 0 THEN b
     ELSE IF barrier = "NONE" THEN opened
     ELSE AtBarrier(opened, t, barrier)

-----------------------------------------------------------------------------
\* replay_relative_strength: at each section the bar that confirms it has just
\* closed, at the time of the decision.
Section(t) == given[market].sections[SymbolsOf(run.pairs)][t - Minutes.m5]

Profiles == [s \in Symbols |-> IF s \in Range(SymbolsOf(run.pairs)) THEN PairNamed(s) ELSE None]

RelativeExit(b, t) ==
  LET p == b.position
      bar == given[market].bars[p.symbol][t - Minutes.m5]
      section == Section(t)
      item == SelectSeq(section.ranked, LAMBDA x : x.feature.symbol = p.symbol)
      reason ==
        CASE bar.low <= p.stop -> "STRUCTURAL_STOP"
          [] bar.low > p.stop /\ bar.high >= p.target -> "TARGET"
          [] OTHER ->
             CASE t - p.time >= Config.timeout -> "TIMEOUT"
               [] t - p.time < Config.timeout
                    /\ p.symbol \notin LeaderSymbols(section, Config.leaders) -> "LEADER_LOST"
               [] t - p.time < Config.timeout
                    /\ p.symbol \in LeaderSymbols(section, Config.leaders)
                    /\ Head(item).feature.h1 <= 0 -> "MOMENTUM_REVERSED"
               [] OTHER -> "NONE"
  IN IF ~Holds(b) THEN b
     ELSE IF bar = None \/ reason = "NONE" THEN b
     ELSE CloseAt(b, t, CASE reason = "STRUCTURAL_STOP" -> p.stop
                          [] reason = "TARGET" -> p.target
                          [] OTHER -> bar.open, reason)

RelativeEntry(b, t) ==
  LET bars == [s \in Symbols |-> given[market].bars[s][t - Minutes.m5]]
      decision == Evaluate(Section(t), Profiles, bars, Config.leaders)
      f == decision.candidate.feature
      reference == bars[f.symbol].close
      c == CostsOf(f.symbol)
      distance == Max({3 * f.atr, (6 * Fine * reference) \div 1000}) \div 2
      stop == Ticks(Fine * reference - distance)
      bought == Bought(reference, c)
      quantity == SizeOf(b.equity, bought, stop, bought * D, 2 * (c.fee + c.slip + c.half),
                         RulesOf(f.symbol))
  IN IF \/ Holds(b)
        \/ ~decision.riskOn
        \/ ~InsideLimits(b, Day(t))
        \/ ~CanEnter(b.ledger, t)
        \/ decision.candidate = None
     THEN b
     ELSE IF quantity = 0 THEN b
     ELSE OpenWith(b, [symbol |-> f.symbol, signal |-> t - Minutes.m5, time |-> t,
                       quantity |-> quantity, entry |-> reference, stop |-> stop, costs |-> c,
                       target |-> Ticks(Fine * reference + 2 * distance),
                       budget |-> b.equity \div RiskFraction])

-----------------------------------------------------------------------------
\* _scenario_metrics: what the verdicts read of a replay.
Won(trades) == Total(Field(trades, LAMBDA x : Max({x.net, 0})))
Lost(trades) == Total(Field(trades, LAMBDA x : Max({-x.net, 0})))
ActiveWeeks(trades) == {Day(trades[i].to) \div WeekDays : i \in DOMAIN trades}
WeekTrades(trades, week) == SelectSeq(trades, LAMBDA x : Day(x.to) \div WeekDays = week)
GainOf(trades) == Won(trades) - Lost(trades)
ShareBelow60(part, whole) == IF whole > 0 THEN part <= 60 * (whole \div 100) ELSE FALSE

Metrics(b, capital) ==
  LET trades == b.trades
      weeks == ActiveWeeks(trades)
      gain(w) == GainOf(WeekTrades(trades, w))
      winning == {w \in weeks : gain(w) > 0}
      profit(s) == Won(SelectSeq(trades, LAMBDA x : x.symbol = s))
      curve == [i \in 0 .. Len(trades) |-> capital + GainOf(SubSeq(trades, 1, i))]
  IN [trades |-> Len(trades),
      net |-> b.equity - capital,
      gross |-> Total(Field(trades, LAMBDA x : x.market)),
      costs |-> Total(Field(trades, LAMBDA x : x.spread + x.slippage + x.commission)),
      commission |-> Total(Field(trades, LAMBDA x : x.commission)),
      factor |-> Lost(trades) > 0 /\ 5 * (Won(trades) \div 6) >= Lost(trades),
      covers |-> Lost(trades) > 0 /\ Won(trades) >= Lost(trades),
      drawdown |-> \E i, j \in DOMAIN curve :
                     i < j /\ curve[i] - curve[j] > 10 * (curve[i] \div 100),
      weeks |-> Cardinality(weeks),
      positive |-> 100 * Cardinality(winning) >= 60 * Cardinality(weeks) /\ weeks # {},
      bySymbol |-> ShareBelow60(Max({profit(s) : s \in Symbols}), Won(trades)),
      byWeek |-> ShareBelow60(Max({gain(w) : w \in winning} \union {0}),
                              Total([i \in 1 .. Cardinality(winning) |->
                                       gain(SetToSeq(winning)[i])]))]

\* decide_verdict, of which run_second_delivery keeps the checks only: without
\* historical books the verdict is capped.
VerdictV1 == "INSUFFICIENT_EVIDENCE"
ChecksV1(base, stress) ==
  [expectancy |-> base.net > 0, factor |-> base.factor, trades |-> base.trades >= Evidence.v1,
   weeks |-> base.weeks >= Evidence.weeks, positive |-> base.positive,
   bySymbol |-> base.bySymbol, byWeek |-> base.byWeek,
   stress |-> stress.net > 0 /\ stress.covers]

\* _verdict of V2; the check of the historical books is always FALSE.
VerdictV2(base, stress) ==
  LET enough == base.trades >= Evidence.v2 /\ base.weeks >= Evidence.weeks
      others == /\ base.net > 0
                /\ base.factor
                /\ base.positive
                /\ stress.net > 0
                /\ base.gross > base.costs
  IN IF base.gross <= 0 \/ (enough /\ ~others) THEN "REJECTED" ELSE "INSUFFICIENT_EVIDENCE"

\* The verdict at the end of run_binance_v3.
VerdictV3(base, stress) ==
  LET checks == /\ base.net > 0
                /\ base.factor
                /\ ~base.drawdown
                /\ base.positive
                /\ stress.net >= 0
  IN CASE base.gross <= 0 -> "REJECTED"
       [] base.gross > 0 /\ (base.trades < Evidence.v3 \/ base.weeks < Evidence.v3weeks) ->
            "INSUFFICIENT_EVIDENCE"
       [] OTHER -> IF checks THEN "QUALIFIED_FOR_PAPER" ELSE "REJECTED"

-----------------------------------------------------------------------------
\* A file of pairs: it is absent, or its writing was interrupted, or it is whole.
Absent == [state |-> "absent", pairs |-> <<>>]
Torn == [state |-> "torn", pairs |-> <<>>]
Whole(pairs) == [state |-> "whole", pairs |-> pairs]

\* Fault: the exchange is asked again although a universe was frozen.
FrozenIgnored(file, fresh) == fresh

\* The universe that was frozen, else the one that is chosen now.
Frozen(file, fresh) == IF file.state # "absent" THEN file.pairs ELSE fresh

ReplayInit ==
  /\ now = 0
  /\ book = EmptyBook(0)
  /\ pc = "idle"
  /\ run = None
  /\ disk = [check |-> None, v1 |-> Absent, market |-> Absent, v2 |-> Absent, v3 |-> Absent, history |-> {}]
  /\ live \in Views
  /\ market \in DOMAIN Markets
  /\ given = Given
  /\ reports = {}
  /\ commands = 0

\* The exchange shows something else (bound: from the first command on).
Move == /\ pc = "idle"
        /\ commands \in 1 .. MaxCommands - 1
        /\ live' \in Views \ {live}
        /\ UNCHANGED <<now, book, pc, run, disk, market, given, reports, commands>>

\* binance-check: the scan of the universe, kept with the fees it saw.
BinanceCheck ==
  /\ pc = "idle"
  /\ disk' = [disk EXCEPT !.check = [authenticated |-> live.authenticated /\ live.account # None,
                                     candidates |-> UniverseScan(live)]]
  /\ UNCHANGED <<now, book, pc, run, live, market, given, reports, commands>>

Started(protocol, pairs, collect, fee) ==
  [protocol |-> protocol, pairs |-> pairs, collect |-> collect, fee |-> fee,
   rules |-> <<>>, left |-> Plans[protocol], kept |-> <<>>]

Launch(point, r) ==
  /\ pc = "idle"
  /\ commands < MaxCommands
  /\ commands' = commands + 1
  /\ pc' = point
  /\ run' = r
  /\ UNCHANGED <<now, book, disk, live, market, given, reports>>

TakerFees == {c.fee.taker : c \in {x \in Range(disk.check.candidates) : x.fee.own}}

\* run_second_delivery up to its first write: the frozen candidates, else a scan.
StartV1 ==
  \E collect \in BOOLEAN :
    LET selected == Frozen(disk.v1, Qualified(UniverseScan(live)))
        point == CASE collect -> "freeze"
                   [] ~collect /\ disk.v1.state = "absent" -> "recover"
                   [] OTHER -> "prepare"
    IN /\ disk.check # None /\ disk.check.authenticated
       /\ Cardinality(TakerFees) = 1
       /\ disk.v1.state # "torn"
       /\ selected # <<>>
       /\ Launch(point, Started("V1", selected, collect, CHOOSE f \in TakerFees : TRUE))

\* What the report of the market selects among the pairs that V2 froze.
FrozenSelection ==
  LET selected == Selected(disk.market.pairs)
  IN Only(selected, {p \in Range(selected) : p.symbol \in Range(SymbolsOf(disk.v2.pairs))})

\* run_binance_v2 up to its first write: the report of the market and the freeze
\* are used when both exist and agree.
StartV2 ==
  \E collect \in BOOLEAN :
    /\ disk.check # None /\ disk.check.authenticated
    /\ \A c \in Range(disk.check.candidates) : c.fee.own
    /\ \/ /\ disk.market.state = "whole" /\ disk.v2.state = "whole"
          /\ FrozenSelection # <<>>
          /\ SymbolsOf(FrozenSelection) = SymbolsOf(disk.v2.pairs)
          /\ Launch(IF collect THEN "collect" ELSE "prepare",
                    Started("V2", FrozenSelection, collect, 0))
       \/ /\ disk.market.state = "absent" \/ disk.v2.state = "absent"
          /\ live.authenticated
          /\ disk.check.candidates # <<>>
          /\ Launch("market", Started("V2", <<>>, collect, 0))

\* run_binance_v3 up to its first write: the first universe that was frozen, else
\* the one of the report of the market.
StartV3 ==
  \E collect \in BOOLEAN :
    LET dynamic == DynamicUniverse(disk.market.pairs)
    IN /\ disk.market.state = "whole"
       /\ {Btc, Eth} \subseteq Range(SymbolsOf(dynamic))
       /\ disk.v3.state # "torn"
       /\ Launch(CASE disk.v3.state = "absent" -> "freeze"
                   [] disk.v3.state # "absent" /\ collect -> "collect"
                   [] OTHER -> "prepare", Started("V3", Frozen(disk.v3, dynamic), collect, 0))

\* V2 writes the report of the market; without an attractive pair it stops there.
WriteMarket ==
  LET report == MarketReport(live, disk.check.candidates)
  IN /\ pc = "market"
     /\ disk' = [disk EXCEPT !.market = Whole(report)]
     /\ IF Selected(report) = <<>> THEN pc' = "idle" /\ run' = None
        ELSE pc' = "freeze" /\ run' = [run EXCEPT !.pairs = Selected(report)]
     /\ UNCHANGED <<now, book, live, market, given, reports, commands>>

\* V1 without collection and without a freeze keeps the pairs that have a history.
Recover ==
  /\ pc = "recover"
  /\ disk.history # {}
  /\ pc' = "freeze"
  /\ run' = [run EXCEPT !.pairs = Only(@, {p \in Range(@) : p.symbol \in disk.history})]
  /\ UNCHANGED <<now, book, disk, live, market, given, reports, commands>>

FreezeOf(protocol) ==
  CASE protocol = "V1" -> disk.v1
    [] protocol = "V2" -> disk.v2
    [] protocol = "V3" -> disk.v3

WithFreeze(protocol, content) ==
  CASE protocol = "V1" -> [disk EXCEPT !.v1 = content]
    [] protocol = "V2" -> [disk EXCEPT !.v2 = content]
    [] protocol = "V3" -> [disk EXCEPT !.v3 = content]

\* The freeze is written in place: a death between these two leaves it torn.
BeginFreeze ==
  /\ pc = "freeze"
  /\ disk' = WithFreeze(run.protocol, Torn)
  /\ pc' = "freezing"
  /\ UNCHANGED <<now, book, run, live, market, given, reports, commands>>

EndFreeze ==
  /\ pc = "freezing"
  /\ disk' = WithFreeze(run.protocol, Whole(run.pairs))
  /\ pc' = IF run.collect THEN "collect" ELSE "prepare"
  /\ UNCHANGED <<now, book, run, live, market, given, reports, commands>>

\* collect_historical_m1, whose steps MarketArchive models.
Collect ==
  /\ pc = "collect"
  /\ disk' = [disk EXCEPT !.history = @ \union Range(SymbolsOf(run.pairs))]
  /\ pc' = "prepare"
  /\ UNCHANGED <<now, book, run, live, market, given, reports, commands>>

\* The history and the filters of the exchange, without which the command fails.
\* V3 leaves out the symbols whose history is short.
Prepare ==
  LET pairs == IF run.protocol = "V3" THEN Eligible(market, run.pairs, disk.history) ELSE run.pairs
      names == Range(SymbolsOf(pairs))
      known == [s \in Symbols |->
                  Only(disk.check.candidates, {c \in Range(disk.check.candidates) : c.symbol = s})]
      enough == run.protocol = "V3" =>
                  /\ {Btc, Eth} \subseteq names
                  /\ Len(pairs) >= FewestSymbols
                  /\ \A s \in names : known[s] # <<>>
      ruled == run.protocol # "V3" => \A s \in names : PairOf(live, s) # None
  IN /\ pc = "prepare"
     /\ IF disk.history # {} /\ enough /\ ruled
        THEN /\ pc' = "begin"
             /\ run' = [run EXCEPT !.pairs = pairs,
                                   !.rules = IF run.protocol = "V3" THEN [s \in names |-> Head(known[s])]
                                             ELSE <<>>]
        ELSE pc' = "idle" /\ run' = None
     /\ UNCHANGED <<now, book, disk, live, market, given, reports, commands>>

\* One replay begins.
BeginReplay ==
  /\ pc = "begin"
  /\ now' = 0
  /\ book' = EmptyBook(Config.capital)
  /\ pc' = "bars"
  /\ UNCHANGED <<run, disk, live, market, given, reports, commands>>

\* The times at which the replay decides, and the next one.
Timeline ==
  IF run.protocol = "V3"
  THEN {t \in Times : /\ t - Minutes.m5 \in DOMAIN given[market].sections[SymbolsOf(run.pairs)]
                       /\ t - Minutes.m5 >= Validation}
  ELSE UNION {BarTimes(market, s) :
                s \in Range(SymbolsOf(run.pairs)) \intersect disk.history}

Ahead == {t \in Timeline : t > now \/ (t = 0 /\ now = 0 /\ book.starts[0] = None)}

\* One turn of the loop of replay_spot: the exit, then the entry.
SpotBar ==
  /\ pc = "bars" /\ run.protocol # "V3"
  /\ Ahead # {}
  /\ LET t == Min(Ahead)
     IN /\ now' = t
        /\ book' = SpotEntry(SpotExit(DayStarted(book, t), t), t)
  /\ UNCHANGED <<pc, run, disk, live, market, given, reports, commands>>

\* One turn of the loop of replay_relative_strength.
RelativeBar ==
  /\ pc = "bars" /\ run.protocol = "V3"
  /\ Ahead # {}
  /\ LET t == Min(Ahead)
     IN /\ now' = t
        /\ book' = RelativeEntry(RelativeExit(DayStarted(book, t), t), t)
  /\ UNCHANGED <<pc, run, disk, live, market, given, reports, commands>>

\* END_OF_DATA: the open position is closed at the last close of its symbol; V3
\* does so only when the symbol has a bar at the last section, and leaves the
\* position out of its trades otherwise.
EndOfData(b) ==
  LET p == b.position
      last == Max(BarTimes(market, p.symbol))
      final == given[market].bars[p.symbol][Max(Timeline) - Minutes.m5]
  IN IF ~Holds(b) THEN b
     ELSE CASE run.protocol # "V3" -> CloseAt(b, last, given[market].bars[p.symbol][last].close, "END_OF_DATA")
            [] run.protocol = "V3" /\ final # None ->
                 CloseAt(b, Max(Timeline), final.close, "END_OF_DATA")
            [] OTHER -> b

FinishReplay ==
  LET ended == EndOfData(book)
      primary == Len(Plans[run.protocol]) - Len(run.left) \in {0, 1}
  IN /\ pc = "bars"
     /\ Ahead = {}
     /\ book' = ended
     /\ pc' = IF Len(run.left) = 1 THEN "deliver" ELSE "begin"
     /\ run' = [run EXCEPT !.left = Tail(@),
                           !.kept = IF primary THEN Append(@, Metrics(ended, Config.capital)) ELSE @]
     /\ UNCHANGED <<now, disk, live, market, given, reports, commands>>

\* The command writes its report.
Delivered(verdict, details) ==
  /\ reports' = reports \union
       {[protocol |-> run.protocol, universe |-> run.pairs, details |-> details, verdict |-> verdict]}
  /\ pc' = "idle"
  /\ run' = None
  /\ book' = EmptyBook(0)
  /\ now' = 0
  /\ UNCHANGED <<disk, live, market, given, commands>>

DeliverV1 == /\ pc = "deliver" /\ run.protocol = "V1"
             /\ Delivered(VerdictV1, ChecksV1(run.kept[1], run.kept[2]))

DeliverV2 == /\ pc = "deliver" /\ run.protocol = "V2"
             /\ Delivered(VerdictV2(run.kept[1], run.kept[2]), None)

DeliverV3 == /\ pc = "deliver" /\ run.protocol = "V3"
             /\ LET bar(s, t) == IF t \in Times THEN given[market].bars[s][t] ELSE None
                    sections == given[market].sections[SymbolsOf(run.pairs)]
                IN Delivered(VerdictV3(run.kept[1], run.kept[2]), ShortOracle(sections, bar))

\* The command is killed, or fails while it talks to the exchange.
Kill ==
  /\ pc # "idle"
  /\ pc' = "idle"
  /\ run' = None
  /\ book' = EmptyBook(0)
  /\ now' = 0
  /\ UNCHANGED <<disk, live, market, given, reports, commands>>

ReplayNext ==
  \/ Move
  \/ BinanceCheck
  \/ StartV1
  \/ StartV2
  \/ StartV3
  \/ WriteMarket
  \/ Recover
  \/ BeginFreeze
  \/ EndFreeze
  \/ Collect
  \/ Prepare
  \/ BeginReplay
  \/ SpotBar
  \/ RelativeBar
  \/ FinishReplay
  \/ DeliverV1
  \/ DeliverV2
  \/ DeliverV3
  \/ Kill

ReplaySpec == ReplayInit /\ [][ReplayNext]_replayVars

-----------------------------------------------------------------------------
\* The replay, whose loop is its own code, keeps the promises that the live
\* account keeps: its round trips stay a cool-down apart, whatever the bars, and
\* its daily counter counts them and stays inside the budget.
ReplayObeysLedger == RoundTripsApart /\ EntryBudgetKept

\* The equity of a replay is its capital and what the market gave, less the
\* spread, the slippage and the fees of both sides of every round trip, under the
\* costs of its scenario; and each day began with the equity of its first bar
\* (equity and daily_start of replay_spot and replay_relative_strength).
Explained(trades, I) ==
  Total([i \in DOMAIN trades |->
           IF i \in I THEN trades[i].market - trades[i].spread - trades[i].slippage - trades[i].commission
           ELSE 0])

AccountAddsUp ==
  /\ book.equity = book.capital + Explained(book.trades, DOMAIN book.trades)
  /\ \A d \in {x \in Days : book.starts[x] # None} :
       book.starts[d] = book.capital +
         Explained(book.trades, {i \in DOMAIN book.trades :
                                   /\ Day(book.trades[i].to) < d
                                   /\ book.trades[i].reason # "END_OF_DATA"})

\* A round trip of V3 that ends at its stop loses no more than the share of the
\* equity that the risk engine allowed, costs included.
StopsLoseWithinBudget ==
  \A i \in DOMAIN book.trades :
    LET x == book.trades[i]
    IN pc # "idle" /\ run.protocol = "V3" /\ x.reason = "STRUCTURAL_STOP" => -x.net <= x.budget

\* No decision looks ahead: two histories that agree up to the time of a decision
\* give the same signals, sections and confirmations at that time.
SameBefore(v, w, t) ==
  \A s \in Symbols :
    SelectSeq(Markets[v][s], LAMBDA b : b.time < t) = SelectSeq(Markets[w][s], LAMBDA b : b.time < t)

DecisionOf(w) ==
  IF run.protocol = "V3"
  THEN LET sections == given[w].sections[SymbolsOf(run.pairs)]
           t == now - Minutes.m5
       IN IF t \notin DOMAIN sections THEN None
          ELSE Evaluate(sections[t], Profiles, [s \in Symbols |-> given[w].bars[s][t]], Config.leaders)
  ELSE [i \in DOMAIN run.pairs |-> SignalAt(w, run.pairs[i], now)]

DecisionsAreCausal ==
  pc = "bars" /\ book.starts # [d \in Days |-> None] =>
    \A w \in DOMAIN Markets : SameBefore(w, market, now) => DecisionOf(w) = DecisionOf(market)

\* Every report of a protocol was made with the pairs that the protocol froze
\* once and with what the freeze records of them, the spread and, for V2 and V3,
\* the fees and the slippage: no later look at the exchange changes them.  (The
\* taker fee of V1 and the rules of its symbols are no part of its freeze: each
\* run reads them again.)
UniverseStaysFrozen ==
  \A r \in reports :
    /\ FreezeOf(r.protocol).state = "whole" =>
         Range(r.universe) \subseteq Range(FreezeOf(r.protocol).pairs)
    /\ \A q \in reports : q.protocol = r.protocol =>
         \A x \in Range(r.universe), y \in Range(q.universe) : x.symbol = y.symbol => x = y
=============================================================================
