---------------------------- MODULE PaperEngine ----------------------------
(***************************************************************************)
(* PaperExecutionEngine: the simulated fills of the frozen strategy on one *)
(* ForwardPaperState.  A cycle of the runner calls mark and then           *)
(* process_signal with the same order books and the same decision time;    *)
(* between the two calls the runner writes an execution event, and when    *)
(* that write fails it starts the cycle again on the account that mark has *)
(* already changed (Abandon).                                              *)
(*                                                                         *)
(* Money is counted in price ticks.  A midpoint is the sum bid + ask, that *)
(* is, twice the price; the amounts computed from it carry the suffix 2.   *)
(***************************************************************************)
EXTENDS Ledger, Sums, FiniteSetsExt

CONSTANTS
  Symbols,        \* the frozen universe
  Books,          \* the best quotes a symbol may show: [bid, ask] in ticks
  Sizings,        \* what the risk engine may accept: [distance, quantity], the
                  \* distance of the stop from the midpoint and the quantity
  SlippageRate,   \* slippage, in hundredths of a percent of the price
  FeeRate,        \* taker fee, in hundredths of a percent of the notional
  Capital,        \* equity at the start
  SignalLag,      \* bound: the oldest signal that a decision is taken on
  Timeout         \* longest holding time (2 hours)

ASSUME EngineAssumption ==
  /\ Books \subseteq {b \in [bid : Nat, ask : Nat] : b.bid <= b.ask}
  /\ Sizings \subseteq [distance : Nat \ {0}, quantity : Nat \ {0}]
  /\ SlippageRate \in 0 .. 10000
  /\ FeeRate \in 0 .. 10000
  /\ Capital \in Nat \ {0}
  /\ SignalLag \in Nat
  /\ Timeout \in Nat \ {0}

ASSUME SymbolsAssumption == None \notin Symbols /\ None \notin [Symbols -> Books]

Positions ==
  [signal : Times, entry : Times, symbol : Symbols, quantity : Nat,
   reference2 : Int, fill : Int, spread2 : Int, slippage : Int,
   commission : Int, stop : Int, target : Int, max2 : Int, min2 : Int]

ASSUME PositionsAssumption == None \notin Positions

VARIABLES
  now,         \* decision_time
  phase,       \* "idle", or "marked" between mark and process_signal
  books,       \* the quotes of the cycle under way, None outside a cycle
  position,    \* state.position
  trades,      \* state.trades
  equity,      \* state.equity
  peak,        \* state.peak_equity
  drawdown,    \* state.max_drawdown_pct, in hundredths of a percent, rounded down
  dayStart,    \* state.daily_starting_equity, None for a day without an entry
  dayEntries,  \* state.daily_entries
  lastExit     \* state.last_exit_time

money == <<trades, equity, peak, drawdown, lastExit>>
day == <<dayStart, dayEntries>>
vars == <<now, phase, books, position, money, day>>

-----------------------------------------------------------------------------
\* The profile's slippage and the account's fee, rounded down to a tick.
Slippage(price) == (price * SlippageRate) \div 10000
Commission(notional) == (notional * FeeRate) \div 10000

Mid2(b) == b.bid + b.ask
Greater(a, b) == IF a >= b THEN a ELSE b
Lesser(a, b) == IF a <= b THEN a ELSE b

DrawdownAt(p, e) == IF p > 0 THEN ((p - e) * 10000) \div p ELSE 0

\* What each closed trade has realized on day d.
RealizedOn(d) ==
  [i \in DOMAIN trades |-> IF Day(trades[i].exit) = d THEN trades[i].net ELSE 0]

DailyRealized(d) == Total(RealizedOn(d))

\* Fault: the initial capital stands for the equity of the day.
BaselineIsCapital == [dayStart EXCEPT ![Day(now)] = IF @ = None THEN Capital ELSE @]

\* _daily_enabled records the equity of the day the first time it is asked.
WithBaseline == [dayStart EXCEPT ![Day(now)] = IF @ = None THEN equity ELSE @]

DailyEnabled ==
  LET start == WithBaseline[Day(now)]
      realized == DailyRealized(Day(now))
  IN /\ start > 0 => -start < 100 * realized /\ 100 * realized < start
     /\ dayEntries[Day(now)] < MaxEntries

\* What _close adds to the trades.
TradeOf(pos, book, reason) ==
  LET exitFill == book.bid - Slippage(book.bid)
      commission == pos.commission + Commission(pos.quantity * exitFill)
  IN [signal |-> pos.signal, entry |-> pos.entry, exit |-> now,
      symbol |-> pos.symbol, quantity |-> pos.quantity, reason |-> reason,
      gross2 |-> pos.quantity * (Mid2(book) - pos.reference2),
      spread2 |-> pos.spread2 + pos.quantity * (Mid2(book) - 2 * book.bid),
      slippage |-> pos.slippage + pos.quantity * Slippage(book.bid),
      commission |-> commission,
      net |-> pos.quantity * (exitFill - pos.fill) - commission,
      mfe2 |-> pos.max2 - pos.reference2,
      mae2 |-> pos.min2 - pos.reference2]

\* Fault: the trade reports the commission of its exit only.
CloseForgetsEntryFee(pos, book, reason) ==
  LET trade == TradeOf(pos, book, reason)
  IN /\ trades' = Append(trades, [trade EXCEPT !.commission = @ - pos.commission])
     /\ equity' = equity + trade.net
     /\ peak' = Greater(peak, equity')
     /\ drawdown' = Greater(drawdown, DrawdownAt(peak', equity'))
     /\ position' = None
     /\ lastExit' = now

\* Fault: the peak is taken before the trade is added to the equity.
ClosePeaksBefore(pos, book, reason) ==
  LET trade == TradeOf(pos, book, reason)
  IN /\ trades' = Append(trades, trade)
     /\ equity' = equity + trade.net
     /\ peak' = Greater(peak, equity)
     /\ drawdown' = Greater(drawdown, DrawdownAt(peak', equity'))
     /\ position' = None
     /\ lastExit' = now

\* _close: the account after the position pos is sold into the book.
CloseWith(pos, book, reason) ==
  LET trade == TradeOf(pos, book, reason)
  IN /\ trades' = Append(trades, trade)
     /\ equity' = equity + trade.net
     /\ peak' = Greater(peak, equity')
     /\ drawdown' = Greater(drawdown, DrawdownAt(peak', equity'))
     /\ position' = None
     /\ lastExit' = now

-----------------------------------------------------------------------------
Init ==
  /\ now = 0
  /\ phase = "idle"
  /\ books = None
  /\ position = None
  /\ trades = <<>>
  /\ equity = Capital
  /\ peak = Capital
  /\ drawdown = 0
  /\ dayStart = [d \in Days |-> None]
  /\ dayEntries = [d \in Days |-> 0]
  /\ lastExit = None

\* The runner waits: for the next cycle, or longer when it was stopped.
Tick ==
  /\ phase = "idle"
  /\ now' \in now .. Horizon
  /\ UNCHANGED <<phase, books, position, money, day>>

\* Fault: only the favourable excursion is updated.
MarkedAbove(book) == [position EXCEPT !.max2 = Greater(@, Mid2(book))]

\* mark: the excursions are updated, then stop, target and timeout are tried
\* in that order against the bid.
Marked(book) ==
  [position EXCEPT !.max2 = Greater(@, Mid2(book)),
                   !.min2 = Lesser(@, Mid2(book))]

\* Fault: the timeout is off by one.
ExitReasonLate(book) ==
  IF book.bid <= position.stop THEN "STRUCTURAL_STOP"
  ELSE IF book.bid >= position.target THEN "TARGET"
  ELSE IF now - position.entry > Timeout THEN "TIMEOUT"
  ELSE None

ExitReason(book) ==
  IF book.bid <= position.stop THEN "STRUCTURAL_STOP"
  ELSE IF book.bid >= position.target THEN "TARGET"
  ELSE IF now - position.entry >= Timeout THEN "TIMEOUT"
  ELSE None

MarkPosition(book) ==
  IF ExitReason(book) # None
  THEN CloseWith(Marked(book), book, ExitReason(book))
  ELSE position' = Marked(book) /\ UNCHANGED money

Mark ==
  /\ phase = "idle"
  /\ phase' = "marked"
  /\ books' \in [Symbols -> Books]
  /\ IF position = None
     THEN UNCHANGED <<position, money>>
     ELSE MarkPosition(books'[position.symbol])
  /\ UNCHANGED <<now, day>>

\* The execution event of mark's exit could not be written: the cycle is
\* retried from its beginning.
Abandon ==
  /\ phase = "marked"
  /\ lastExit = now
  /\ phase' = "idle"
  /\ books' = None
  /\ UNCHANGED <<now, position, money, day>>

\* What evaluate_v3_timestamp may return: only one of the leaders whose hourly
\* return is positive (rising) is ever the signal, and only in a risk-on market.
Evaluations ==
  {e \in [riskOn : BOOLEAN, leaders : SUBSET Symbols, rising : SUBSET Symbols,
          signal : Symbols \union {None}] :
     /\ e.rising \subseteq e.leaders
     /\ e.signal # None => e.riskOn /\ e.signal \in e.rising}

EndOfCycle == phase' = "idle" /\ books' = None /\ UNCHANGED now

\* process_signal with a position: it is sold when its symbol is no longer a
\* leader, or no longer rises over an hour; otherwise it blocks the signal.
LeaveOn(e) ==
  /\ position # None
  /\ \/ /\ position.symbol \notin e.leaders
        /\ CloseWith(position, books[position.symbol], "LEADER_LOST")
     \/ /\ position.symbol \in e.leaders \ e.rising
        /\ CloseWith(position, books[position.symbol], "MOMENTUM_REVERSED")
  /\ UNCHANGED day

HoldOn(e) ==
  /\ position # None
  /\ position.symbol \in e.rising
  /\ UNCHANGED <<position, money, day>>

\* Fault: the cool-down is not a gate.
AdmittedAtOnce(e) == DailyEnabled /\ e.signal # None

\* The gates that come before the sizing; the daily gate records the baseline
\* of the day whether or not a later gate refuses.
Admitted(e) ==
  /\ DailyEnabled
  /\ lastExit # None => now >= lastExit + Cooldown
  /\ e.signal # None

\* The closing times of the bars that a decision at t may act on.
Signals(t) == {s \in 0 .. t : t - s <= SignalLag}

PositionAt(s, symbol, book, sizing) ==
  LET fill == book.ask + Slippage(book.ask)
      quantity == sizing.quantity
  IN [signal |-> s, entry |-> now, symbol |-> symbol, quantity |-> quantity,
      reference2 |-> Mid2(book), fill |-> fill,
      spread2 |-> quantity * (2 * book.ask - Mid2(book)),
      slippage |-> quantity * Slippage(book.ask),
      commission |-> Commission(quantity * fill),
      stop |-> (Mid2(book) - 2 * sizing.distance) \div 2,
      target |-> (Mid2(book) + 4 * sizing.distance) \div 2,
      max2 |-> Mid2(book), min2 |-> Mid2(book)]

\* What BinanceRiskEngine.size accepts: a positive stop and no more than the
\* equity.  Its risk budget and the exchange's minimum only shrink the choice.
Affordable(pos) == pos.stop > 0 /\ pos.quantity * pos.fill <= equity

EnterOn(e) ==
  /\ position = None
  /\ e.riskOn
  /\ Admitted(e)
  /\ \E s \in Signals(now), sizing \in Sizings :
       LET pos == PositionAt(s, e.signal, books[e.signal], sizing)
       IN Affordable(pos) /\ position' = pos
  /\ dayStart' = WithBaseline
  /\ dayEntries' = [dayEntries EXCEPT ![Day(now)] = @ + 1]
  /\ UNCHANGED money

\* A refusal by a gate or by the risk engine.
RefuseOn(e) ==
  /\ position = None
  /\ dayStart' = IF e.riskOn THEN WithBaseline ELSE dayStart
  /\ UNCHANGED <<position, money, dayEntries>>

ProcessSignal ==
  /\ phase = "marked"
  /\ \E e \in Evaluations : LeaveOn(e) \/ HoldOn(e) \/ EnterOn(e) \/ RefuseOn(e)
  /\ EndOfCycle

Next == Tick \/ Mark \/ Abandon \/ ProcessSignal

Spec == Init /\ [][Next]_vars

-----------------------------------------------------------------------------
Reasons == {"STRUCTURAL_STOP", "TARGET", "TIMEOUT", "LEADER_LOST", "MOMENTUM_REVERSED"}

ASSUME ReasonsAssumption == None \notin Reasons

Trades ==
  [signal : Times, entry : Times, exit : Times, symbol : Symbols,
   quantity : Nat, reason : Reasons, gross2 : Int, spread2 : Int,
   slippage : Int, commission : Int, net : Int, mfe2 : Int, mae2 : Int]

\* The types of the account.
TypeOK ==
  /\ now \in Times
  /\ phase \in {"idle", "marked"}
  /\ books \in [Symbols -> Books] \union {None}
  /\ books = None <=> phase = "idle"
  /\ position \in Positions \union {None}
  /\ trades \in Seq(Trades)
  /\ equity \in Int
  /\ peak \in Int
  /\ drawdown \in Int
  /\ dayStart \in [Days -> Int \union {None}]
  /\ dayEntries \in [Days -> Nat]
  /\ lastExit \in Times \union {None}

\* Every closed trade explains its own result: what the midpoints earned, less
\* the spread, the slippage and the commission of both sides, of which one
\* half was recorded at the entry and the other at the exit.
PnLDecomposes ==
  \A i \in DOMAIN trades :
    LET t == trades[i]
    IN 2 * t.net = t.gross2 - t.spread2 - 2 * t.slippage - 2 * t.commission

\* The excursions of a trade enclose the midpoint it was closed at, although
\* process_signal closes without looking at them: mark has always seen the
\* same quotes first.
ExcursionsEncloseExit ==
  \A i \in DOMAIN trades :
    LET t == trades[i]
    IN /\ t.quantity * t.mae2 <= t.gross2
       /\ t.gross2 <= t.quantity * t.mfe2

\* The equity after the first n trades, its peak and its drawdown until then.
Nets == [i \in DOMAIN trades |-> trades[i].net]
CurveAt(n) == Capital + PartialSums(Nets)[n]
CurveUpTo(n) == {CurveAt(m) : m \in 0 .. n}
PeakAt(n) == Max(CurveUpTo(n))
Drawdowns == {DrawdownAt(PeakAt(n), CurveAt(n)) : n \in 0 .. Len(trades)}

\* The equity, its peak and the worst drawdown, all three updated trade by
\* trade, are those of the curve that the recorded trades draw.
CurveReplays ==
  /\ equity = CurveAt(Len(trades))
  /\ peak = PeakAt(Len(trades))
  /\ drawdown = Max(Drawdowns)

\* Less than one percent of the baseline of day d was realized on that day by
\* the first n trades.
InsideLimits(d, n) ==
  LET realized == PartialSums(RealizedOn(d))[n]
  IN dayStart[d] > 0 => -dayStart[d] < 100 * realized /\ 100 * realized < dayStart[d]

\* The account had its first n trades, and no other, at some time of day d.
HadOn(d, n) ==
  /\ \A i \in 1 .. n : Day(trades[i].exit) <= d
  /\ \A i \in n + 1 .. Len(trades) : Day(trades[i].exit) >= d

\* Once the result realized on a day has gained or lost one percent of the
\* baseline, no position is opened on that day: at every entry, the exits of
\* the same day that came before it add up to less than one percent.  The
\* baseline is an equity that the account had on that day: every exit of an
\* earlier day is in it, none of a later day is.  (It may hold exits of the day
\* itself: it is taken when the gate is first asked, not at midnight.)
EntriesInsideDailyLimits ==
  /\ position # None => InsideLimits(Day(position.entry), Len(trades))
  /\ \A i \in DOMAIN trades : InsideLimits(Day(trades[i].entry), i - 1)
  /\ \A d \in Days : dayStart[d] # None =>
       \E n \in 0 .. Len(trades) : HadOn(d, n) /\ dayStart[d] = CurveAt(n)

\* A position that survives a whole cycle is inside its stop, its target and
\* its holding time, by the quotes of that cycle; only the position opened in
\* the cycle itself has not been tried against them.
SurvivorsInsideLimits ==
  [][phase = "marked" /\ phase' = "idle" /\ position' # None =>
       LET bid == books[position'.symbol].bid
       IN \/ position'.entry = now
          \/ /\ position'.stop < bid /\ bid < position'.target
             /\ now - position'.entry < Timeout]_vars

-----------------------------------------------------------------------------
(***************************************************************************)
(* What makes PnLDecomposes and ExcursionsEncloseExit inductive: the costs *)
(* recorded at the entry explain the fill, and after mark the excursions   *)
(* of the position enclose the quotes of the cycle.                        *)
(***************************************************************************)
EntryCostsExplainFill ==
  position # None =>
    2 * (position.quantity * position.fill) =
      position.quantity * position.reference2 + position.spread2 + 2 * position.slippage

ExcursionsEncloseQuotes ==
  position # None =>
    /\ position.min2 <= position.reference2 /\ position.reference2 <= position.max2
    /\ phase = "marked" =>
         LET mid2 == Mid2(books[position.symbol])
         IN position.min2 <= mid2 /\ mid2 <= position.max2

\* What makes SurvivorsInsideLimits a consequence: a position that mark leaves
\* open is inside its limits by the quotes of the cycle.
MarkedInsideLimits ==
  phase = "marked" /\ position # None =>
    LET bid == books[position.symbol].bid
    IN /\ position.stop < bid /\ bid < position.target
       /\ now - position.entry < Timeout

\* What makes CurveReplays inductive: the peak and the drawdown are the largest
\* members of the sets they summarize.
Tops(x, S) == S \subseteq Int /\ x \in S /\ \A y \in S : y <= x

CurveInv ==
  /\ equity = CurveAt(Len(trades))
  /\ Tops(peak, CurveUpTo(Len(trades)))
  /\ Tops(drawdown, Drawdowns)

\* What makes EntriesInsideDailyLimits inductive: a day that saw an entry has
\* its baseline, and neither a baseline nor an exit is of the future.
BaselinesInv ==
  /\ position # None => dayStart[Day(position.entry)] # None
  /\ \A i \in DOMAIN trades :
        dayStart[Day(trades[i].entry)] # None /\ trades[i].exit <= now
  /\ \A d \in Days : dayStart[d] # None => d <= Day(now)

EngineInv ==
  /\ TypeOK
  /\ EntryCostsExplainFill
  /\ ExcursionsEncloseQuotes
  /\ PnLDecomposes
  /\ ExcursionsEncloseExit

-----------------------------------------------------------------------------
(***************************************************************************)
(* The account as PaperLedger sees it.                                     *)
(***************************************************************************)
LedgerView ==
  [open |-> IF position = None THEN None
            ELSE [signal |-> position.signal, entry |-> position.entry],
   done |-> {[signal |-> trades[i].signal, entry |-> trades[i].entry,
              exit |-> trades[i].exit] : i \in DOMAIN trades},
   lastExit |-> lastExit,
   entries |-> dayEntries]

Abstract == INSTANCE PaperLedger WITH ledger <- LedgerView

\* The engine with its prices does only what the ledger allows: in particular
\* its round trips stay apart and inside the budget of entries, whichever of
\* the five reasons closes them.
ImplementsLedger == Abstract!Spec
=============================================================================
