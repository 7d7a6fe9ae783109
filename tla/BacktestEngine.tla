--------------------------- MODULE BacktestEngine ---------------------------
(***************************************************************************)
(* The tick-driven backtester of the MT5 half (backtest/engine.py with its *)
(* broker configuration, commissions, slippage and metrics).               *)
(*                                                                         *)
(* A strategy sees one tick at a time and may ask to open or to close; a   *)
(* request is executed on the first tick that is not earlier than its due  *)
(* time.  Stop and target are tried before and after the strategy.  The    *)
(* strategy is any sequence of requests.                                   *)
(*                                                                         *)
(* Prices are integers.  Profit in the quote currency becomes money by a   *)
(* division by the mid of the tick; money is counted in such small units   *)
(* (Scale to one) that the division is exact for every quote.              *)
(***************************************************************************)
EXTENDS Sums, FiniteSetsExt

CONSTANTS
  None,
  Quotes,            \* quotes [bid, ask] that a tick may bring
  Steps,             \* delays between two ticks, 0 included
  Latencies,         \* execution latencies
  Slips,             \* points of slippage that may be drawn, positive is adverse
  Requests,          \* orders [side, volume, stop, target] a strategy may ask for
  VolumeMin, VolumeStep, VolumeMax,
  Capital,
  MarginPerLot,
  CommissionPerLot,
  CommissionMin,
  RiskPercent,       \* max_risk_pct
  Scale,             \* units of money in one unit of the account
  MaxTicks,          \* bound: ticks in the data
  MaxSequence        \* bound: sequence numbers given out

Sides == {"BUY", "SELL"}

ASSUME BacktestAssumption ==
  /\ Quotes \subseteq {q \in [bid : Nat \ {0}, ask : Nat] : q.bid <= q.ask}
  /\ \A q \in Quotes : (2 * Scale) % (q.bid + q.ask) = 0
  /\ Steps \subseteq Nat /\ Latencies \subseteq Nat /\ Slips \subseteq Int
  /\ Requests \subseteq [side : Sides, volume : Int, stop : Int, target : Int \union {None}]
  /\ Capital \in Nat \ {0} /\ Scale \in Nat \ {0}
  /\ MarginPerLot \in Nat /\ CommissionPerLot \in Nat /\ CommissionMin \in Nat

VARIABLES
  engine,   \* the fields of BacktestEngine and of its account
  tick,     \* current_tick, None outside of run
  phase,    \* where run stands: "between" ticks, in the "strategy", "ended"
  curve,    \* _equity_curve
  latency,  \* execution_latency_ms
  asked,    \* history: opening requests that were queued
  refused   \* history: opening requests that were refused at once

vars == <<engine, tick, phase, curve, latency, asked, refused>>

Sign(side) == IF side = "BUY" THEN 1 ELSE -1
EntryPrice(t, side) == IF side = "BUY" THEN t.ask ELSE t.bid
ExitPrice(t, side) == IF side = "BUY" THEN t.bid ELSE t.ask
Mid2(t) == t.bid + t.ask

\* money of an amount that is given doubled, as midpoints are
Money(amount2, t) == (Scale * amount2) \div Mid2(t)

Margin(volume) == MarginPerLot * volume

Greater(a, b) == IF a >= b THEN a ELSE b

Commission(volume) == Greater(CommissionPerLot * volume, CommissionMin)

\* Slippage is adverse in the direction of the fill.
Slipped(price, side, slip, entry) ==
  IF entry THEN price + Sign(side) * slip ELSE price - Sign(side) * slip

WorstSlip == Max(Slips \union {0})

Refuse(e, type, reason) ==
  [e EXCEPT !.sequence = @ + 1,
            !.rejections = Append(@, [sequence |-> e.sequence + 1, type |-> type,
                                      reason |-> reason])]

-----------------------------------------------------------------------------
Init ==
  /\ engine = [balance |-> Capital, equity |-> Capital, used |-> 0, free |-> Capital,
               realized |-> 0, unrealized |-> 0, position |-> None, pending |-> <<>>,
               sequence |-> 0, trades |-> <<>>, rejections |-> <<>>]
  /\ tick = None
  /\ phase = "between"
  /\ curve = <<Capital>>
  /\ latency \in Latencies
  /\ asked = 0
  /\ refused = 0

\* The broker's grid of volumes.
OnGrid(volume) == volume <= VolumeMax /\ (volume - VolumeMin) % VolumeStep = 0

\* Why open_market_position refuses an order at once, None when it does not.
Refusal(e, o, t) ==
  LET price == EntryPrice(t, o.side)
      Gain(p) == Sign(o.side) * (p - price) > 0
      Loss(p) == Sign(o.side) * (p - price) < 0
  IN CASE e.position # None \/ \E i \in DOMAIN e.pending : e.pending[i].type # "CLOSE"
            -> "MAX_OPEN_POSITIONS"
       [] OTHER ->
          CASE o.volume < VolumeMin -> "VOLUME_TOO_SMALL"
            [] o.volume >= VolumeMin /\ ~OnGrid(o.volume) -> "INVALID_VOLUME_STEP"
            [] o.volume >= VolumeMin /\ OnGrid(o.volume)
                 /\ (o.stop <= 0 \/ ~Loss(o.stop) \/ (o.target # None /\ (o.target <= 0 \/ ~Gain(o.target))))
                 -> "RISK_LIMIT"
            [] OTHER -> None

OpenMarketPosition(e, o, t) ==
  IF Refusal(e, o, t) # None THEN Refuse(e, "OPEN", Refusal(e, o, t))
  ELSE [e EXCEPT !.sequence = @ + 1,
                 !.pending = Append(@, [sequence |-> e.sequence + 1, type |-> "OPEN", order |-> o,
                                        requested |-> t.time, due |-> t.time + latency])]

Closing(e) == \E i \in DOMAIN e.pending : e.pending[i].type = "CLOSE"

ClosePosition(e, t) ==
  IF e.position = None \/ Closing(e) THEN e
  ELSE [e EXCEPT !.sequence = @ + 1,
                 !.pending = Append(@, [sequence |-> e.sequence + 1, type |-> "CLOSE", order |-> None,
                                        requested |-> t.time, due |-> t.time + latency])]

MarkToMarket(e, t) ==
  LET p == e.position
      unrealized ==
        IF p = None THEN 0
        ELSE Money(2 * Sign(p.side) * (ExitPrice(t, p.side) - p.price) * p.volume, t)
  IN [e EXCEPT !.unrealized = unrealized,
               !.equity = e.balance + unrealized,
               !.free = e.balance + unrealized - e.used]

\* The loss at the stop with the worst slippage and the commission of both sides.
EstimatedLoss(o, price, t) ==
  LET atStop == Greater(0, -Sign(o.side) * (o.stop - price) * o.volume)
  IN Money(2 * (atStop + WorstSlip * o.volume), t) + 2 * Commission(o.volume)

\* Why _execute_open refuses a request that has come due, None when it does not.
LateRefusal(e, o, price, t) ==
  CASE Sign(o.side) * (o.stop - price) >= 0 -> "RISK_LIMIT"
    [] OTHER ->
       CASE Margin(o.volume) + Commission(o.volume) > e.free -> "INSUFFICIENT_MARGIN"
         [] OTHER ->
            IF 100 * EstimatedLoss(o, price, t) > e.equity * RiskPercent
            THEN "RISK_LIMIT" ELSE None

ExecuteOpen(e, r, t, draw) ==
  LET o == r.order
      price == Slipped(EntryPrice(t, o.side), o.side, draw.entry, TRUE)
      fee == Commission(o.volume)
  IN IF LateRefusal(e, o, price, t) # None THEN Refuse(e, "OPEN", LateRefusal(e, o, price, t))
     ELSE MarkToMarket(
            [e EXCEPT
               !.balance = @ - fee,
               !.used = Margin(o.volume),
               !.position = [sequence |-> r.sequence, side |-> o.side, volume |-> o.volume,
                             stop |-> o.stop, target |-> o.target, requested |-> r.requested,
                             due |-> r.due, executed |-> t.time,
                             quote |-> EntryPrice(t, o.side), price |-> price,
                             mid2 |-> Mid2(t), fee |-> fee, before |-> e.balance]], t)

\* Fault: the commission of the entry is charged again.
SettledTwice(e, money, fee, net) ==
  LET balance == e.balance + net
  IN [e EXCEPT !.balance = balance, !.equity = balance, !.free = balance, !.used = 0,
               !.unrealized = 0, !.realized = @ + net, !.position = None]

\* The account once its position is closed for this money.
Settled(e, money, fee, net) ==
  LET balance == e.balance + money - fee
  IN [e EXCEPT !.balance = balance, !.equity = balance, !.free = balance, !.used = 0,
               !.unrealized = 0, !.realized = @ + net, !.position = None]

\* _close_now: the account, and the trade with its decomposition.
CloseNow(e, t, exit, draw) ==
  LET p == e.position
      sign == Sign(p.side)
      quote == ExitPrice(t, p.side)
      price == Slipped(quote, p.side, draw.exit, FALSE)
      gross == sign * (Mid2(t) - p.mid2) * p.volume
      quoted == 2 * sign * (quote - p.quote) * p.volume
      executed == 2 * sign * (price - p.price) * p.volume
      fee == Commission(p.volume)
      net == Money(executed, t) - p.fee - fee
      account == Settled(e, Money(executed, t), fee, net)
  IN [account EXCEPT
        !.trades = Append(@,
          [entrySequence |-> p.sequence, exitSequence |-> exit.sequence,
           requested |-> p.requested, due |-> p.due, executed |-> p.executed,
           exitRequested |-> exit.requested, exitDue |-> exit.due, exited |-> t.time,
           gross |-> Money(gross, t), spread |-> Money(gross - quoted, t),
           slippage |-> Money(quoted - executed, t), commission |-> p.fee + fee, net |-> net,
           reason |-> exit.reason, before |-> p.before, after |-> account.balance])]

ExecuteClose(e, r, t, draw) ==
  IF e.position = None THEN e
  ELSE CloseNow(e, t, [sequence |-> r.sequence, requested |-> r.requested, due |-> r.due,
                       reason |-> "MANUAL"], draw)

\* The requests of a queue that stand at these places, in their order.
Filtered(queue, places) ==
  LET kept[n \in 0 .. Len(queue)] ==
        IF n = 0 THEN <<>>
        ELSE IF n \in places THEN Append(kept[n - 1], queue[n]) ELSE kept[n - 1]
  IN kept[Len(queue)]

Execute(e, r, t, draw) ==
  IF r.type = "CLOSE" THEN ExecuteClose(e, r, t, draw)
  ELSE IF e.position = None THEN ExecuteOpen(e, r, t, draw)
  ELSE Refuse(e, "OPEN", "MAX_OPEN_POSITIONS")

\* The requests at these places leave the queue and are executed in its order,
\* which is that of their due times: they carry one latency.
Executed(e, places, t, draw) ==
  LET due == Filtered(e.pending, places)
      rest == Filtered(e.pending, DOMAIN e.pending \ places)
      after[n \in 0 .. Len(due)] ==
        IF n = 0 THEN [e EXCEPT !.pending = rest] ELSE Execute(after[n - 1], due[n], t, draw)
  IN after[Len(due)]

\* Fault: a request is left to the tick after the one it is due on.
ExecuteDueLater(e, t, draw) ==
  Executed(e, {i \in DOMAIN e.pending : e.pending[i].due < t.time}, t, draw)

\* Fault: the latency is not waited for.
ExecuteDueEarly(e, t, draw) == Executed(e, DOMAIN e.pending, t, draw)

ExecuteDue(e, t, draw) ==
  Executed(e, {i \in DOMAIN e.pending : e.pending[i].due <= t.time}, t, draw)

StopHit(p, t) == Sign(p.side) * (ExitPrice(t, p.side) - p.stop) <= 0
TargetHit(p, t) == p.target # None /\ Sign(p.side) * (ExitPrice(t, p.side) - p.target) >= 0

\* Fault: a close that was asked for stays in the queue after a stop.
CheckProtectionKeepingClose(e, t, draw) ==
  IF e.position = None \/ ~(StopHit(e.position, t) \/ TargetHit(e.position, t)) THEN e
  ELSE CloseNow([e EXCEPT !.sequence = @ + 1], t,
                [sequence |-> e.sequence + 1, requested |-> t.time, due |-> t.time,
                 reason |-> "STOP_LOSS"], draw)

CheckProtection(e, t, draw) ==
  IF e.position = None \/ ~(StopHit(e.position, t) \/ TargetHit(e.position, t)) THEN e
  ELSE CloseNow([e EXCEPT !.sequence = @ + 1,
                          !.pending = Filtered(@, {i \in DOMAIN @ : @[i].type # "CLOSE"})], t,
                [sequence |-> e.sequence + 1, requested |-> t.time, due |-> t.time,
                 reason |-> IF StopHit(e.position, t) THEN "STOP_LOSS" ELSE "TAKE_PROFIT"], draw)

-----------------------------------------------------------------------------
Draws == [entry : Slips, exit : Slips]

\* A tick comes in: what is due is executed, then stop and target are tried.
NextTick ==
  /\ phase = "between"
  /\ Len(curve) <= MaxTicks
  /\ \E q \in Quotes, step \in Steps, draw \in Draws :
       LET t == [time |-> (IF tick = None THEN 0 ELSE tick.time) + step,
                 bid |-> q.bid, ask |-> q.ask]
       IN /\ tick' = t
          /\ engine' = CheckProtection(ExecuteDue(engine, t, draw), t, draw)
  /\ phase' = "strategy"
  /\ UNCHANGED <<curve, latency, asked, refused>>

\* Strategy.on_tick asks to open.
Open ==
  /\ phase = "strategy"
  /\ engine.sequence < MaxSequence
  /\ \E o \in Requests :
       /\ engine' = OpenMarketPosition(engine, o, tick)
       /\ asked' = asked + Len(engine'.pending) - Len(engine.pending)
       /\ refused' = refused + Len(engine'.rejections) - Len(engine.rejections)
  /\ UNCHANGED <<tick, phase, curve, latency>>

\* Strategy.on_tick asks to close.
Close ==
  /\ phase = "strategy"
  /\ engine.sequence < MaxSequence
  /\ engine' = ClosePosition(engine, tick)
  /\ UNCHANGED <<tick, phase, curve, latency, asked, refused>>

\* The second half of the tick.
EndTick ==
  /\ phase = "strategy"
  /\ \E draw \in Draws :
       engine' = MarkToMarket(CheckProtection(ExecuteDue(engine, tick, draw), tick, draw), tick)
  /\ curve' = Append(curve, engine'.equity)
  /\ phase' = "between"
  /\ UNCHANGED <<tick, latency, asked, refused>>

\* No tick is left for what is pending.
RefuseAll(e) ==
  LET after[n \in 0 .. Len(e.pending)] ==
        IF n = 0 THEN [e EXCEPT !.pending = <<>>]
        ELSE Refuse(after[n - 1], e.pending[n].type, "NO_EXECUTION_TICK")
  IN after[Len(e.pending)]

\* The data end: the open position is closed on the last tick, what is pending
\* is refused.
EndOfData ==
  /\ phase = "between"
  /\ \E draw \in Draws :
       engine' = RefuseAll(
         IF engine.position = None THEN engine
         ELSE CloseNow([engine EXCEPT !.sequence = @ + 1], tick,
                       [sequence |-> engine.sequence + 1, requested |-> tick.time,
                        due |-> tick.time, reason |-> "END_OF_DATA"], draw))
  /\ curve' = IF engine.position = None THEN curve ELSE Append(curve, engine'.equity)
  /\ tick' = None
  /\ phase' = "ended"
  /\ UNCHANGED <<latency, asked, refused>>

Next == NextTick \/ Open \/ Close \/ EndTick \/ EndOfData

Spec == Init /\ [][Next]_vars

-----------------------------------------------------------------------------
\* What the report of a run says (metrics.py).
Gross(trades) == [i \in DOMAIN trades |-> trades[i].gross]
Net(trades) == [i \in DOMAIN trades |-> trades[i].net]
Spread(trades) == [i \in DOMAIN trades |-> trades[i].spread]
SlippageCost(trades) == [i \in DOMAIN trades |-> trades[i].slippage]
Fees(trades) == [i \in DOMAIN trades |-> trades[i].commission]

\* The loop over the curve: the peak so far and the deepest fall from a peak.
Falls == [peak : Int, max : Int]
Fallen(equity) ==
  Scan([peak |-> Capital, max |-> 0],
       [i \in DOMAIN equity |-> [x \in Falls |->
          LET peak == Greater(x.peak, equity[i])
          IN [peak |-> peak, max |-> Greater(x.max, peak - equity[i])]]],
       Len(equity))

\* Fault: a drawdown is taken from the capital, not from the peak.
MaxDrawdownFromStart(equity) == Max({Greater(0, equity[1] - equity[i]) : i \in DOMAIN equity})

MaxDrawdown(equity) == Fallen(equity)[Len(equity)].max

\* The loop over the trades: the losses in a row, and the most of them so far.
Streaks == [streak : Nat, max : Nat]
Losses(trades) ==
  Scan([streak |-> 0, max |-> 0],
       [i \in DOMAIN trades |-> [x \in Streaks |->
          LET streak == IF trades[i].net < 0 THEN x.streak + 1 ELSE 0
          IN [streak |-> streak, max |-> Greater(x.max, streak)]]],
       Len(trades))

MaxConsecutiveLosses(trades) == Losses(trades)[Len(trades)].max

Metrics ==
  [starting |-> Capital, ending |-> engine.equity,
   gross |-> Total(Gross(engine.trades)), net |-> Total(Net(engine.trades)),
   spread |-> Total(Spread(engine.trades)), slippage |-> Total(SlippageCost(engine.trades)),
   commission |-> Total(Fees(engine.trades)),
   wins |-> Cardinality({i \in DOMAIN engine.trades : engine.trades[i].net > 0}),
   losses |-> Cardinality({i \in DOMAIN engine.trades : engine.trades[i].net < 0}),
   drawdown |-> MaxDrawdown(curve),
   streak |-> MaxConsecutiveLosses(engine.trades)]

-----------------------------------------------------------------------------
\* The balance after the first n trades.
After(trades, n) == IF n = 0 THEN Capital ELSE trades[n].after

Flat(e) ==
  e.equity = e.balance /\ e.free = e.balance /\ e.used = 0 /\ e.unrealized = 0

(***************************************************************************)
(* The account is what its trades say at every moment.  The balances of    *)
(* successive trades form a chain from the capital to the present balance, *)
(* whose last link may be the fee of an open position; each net result is  *)
(* the gross one less its spread, slippage and commissions; what is        *)
(* realized is their sum; and an account without a position is flat, so    *)
(* that the margin and risk checks of the next entry see fresh figures     *)
(* (_execute_open, _close_now, _mark_to_market).                           *)
(***************************************************************************)
Explained(e) ==
  /\ \A i \in DOMAIN e.trades :
       LET t == e.trades[i]
       IN /\ t.before = After(e.trades, i - 1)
          /\ t.after = t.before + t.net
          /\ t.net = t.gross - t.spread - t.slippage - t.commission
  /\ e.realized = Total(Net(e.trades))
  /\ e.balance = After(e.trades, Len(e.trades)) - (IF e.position = None THEN 0 ELSE e.position.fee)
  /\ e.position = None => Flat(e)

TradesExplainAccount == Explained(engine)

(***************************************************************************)
(* Trades follow one another: each is asked for, due, entered, asked to    *)
(* end and ended in this order of time and of sequence numbers, and the    *)
(* next is asked for only once it has ended, whatever waits in the queue   *)
(* when a stop is hit (open_market_position, _check_protection).           *)
(***************************************************************************)
Ordered(trades) ==
  /\ \A i \in DOMAIN trades :
       LET t == trades[i]
       IN /\ t.requested <= t.due /\ t.due <= t.executed
          /\ t.executed <= t.exitRequested
          /\ t.exitRequested <= t.exitDue /\ t.exitDue <= t.exited
          /\ t.entrySequence < t.exitSequence
  /\ \A i, j \in DOMAIN trades : i < j =>
       /\ trades[i].exited <= trades[j].requested
       /\ trades[i].exitSequence < trades[j].entrySequence

TradesInOrder == Ordered(engine.trades)

(***************************************************************************)
(* When a tick has been processed nothing that was due still waits, so     *)
(* that a request is executed on the first tick that is late enough, and   *)
(* the position that stays is inside its stop and target at that tick,     *)
(* even one that was opened on it (run, _execute_due, _check_protection).  *)
(***************************************************************************)
Settles(e, t) ==
  /\ \A i \in DOMAIN e.pending : e.pending[i].due > t.time
  /\ e.position # None => ~StopHit(e.position, t) /\ ~TargetHit(e.position, t)

TicksSettle == phase = "between" /\ tick # None => Settles(engine, tick)

(***************************************************************************)
(* Every queued opening becomes a trade, the open position or one          *)
(* rejection, never two of them; what waits fits the position, so that     *)
(* neither a second opening nor an orphan close is ever executed; and no   *)
(* number stands for two things (close_position, _check_protection, run).  *)
(***************************************************************************)
Opens(requests) == Cardinality({i \in DOMAIN requests : requests[i].type = "OPEN"})
Held(e) == IF e.position = None THEN 0 ELSE 1

\* What the sequence numbers stand for: [number, kind, place].
Uses(e) ==
  {<<e.pending[i].sequence, "pending", i>> : i \in DOMAIN e.pending}
  \union {<<e.rejections[i].sequence, "rejection", i>> : i \in DOMAIN e.rejections}
  \union {<<e.trades[i].entrySequence, "entry", i>> : i \in DOMAIN e.trades}
  \union {<<e.trades[i].exitSequence, "exit", i>> : i \in DOMAIN e.trades}
  \union (IF e.position = None THEN {} ELSE {<<e.position.sequence, "position", 0>>})

RequestsAreAnswered ==
  /\ asked + refused = Len(engine.trades) + Held(engine) + Opens(engine.pending)
                         + Opens(engine.rejections)
  /\ Opens(engine.pending) + Held(engine) <= 1
  /\ Closing(engine) => engine.position # None
  /\ \A u, v \in Uses(engine) : u[1] = v[1] => u = v

(***************************************************************************)
(* The report of a finished run agrees with the account: its net result is *)
(* the change of equity; the drawdown found in one pass is the deepest     *)
(* fall between any two points of the curve; the streak is the longest     *)
(* interval of losing trades (calculate_metrics).                          *)
(***************************************************************************)
FallsTo(j) == {curve[i] - curve[j] : i \in 1 .. j}
LosingStreaks ==
  {n \in 1 .. Len(engine.trades) :
     \E i \in 0 .. Len(engine.trades) - n : \A k \in i + 1 .. i + n : engine.trades[k].net < 0}

MetricsDescribeRun ==
  phase = "ended" =>
    /\ Metrics.net = Metrics.ending - Metrics.starting
    /\ Metrics.gross = Metrics.net + Metrics.spread + Metrics.slippage + Metrics.commission
    /\ Metrics.drawdown = Max(UNION {FallsTo(j) : j \in DOMAIN curve})
    /\ Metrics.streak = Max(LosingStreaks \union {0})
    /\ curve[Len(curve)] = Metrics.ending

-----------------------------------------------------------------------------
(***************************************************************************)
(* The types, and what makes these five inductive.                         *)
(***************************************************************************)
Kinds == {"OPEN", "CLOSE"}
ExitReasons == {"STOP_LOSS", "TAKE_PROFIT", "MANUAL", "END_OF_DATA"}

Positions ==
  [sequence : Nat, side : Sides, volume : Int, stop : Int, target : Int \union {None},
   requested : Nat, due : Nat, executed : Nat, quote : Int, price : Int, mid2 : Int,
   fee : Int, before : Int]

Pendings ==
  [sequence : Nat, type : Kinds, order : Requests \union {None}, requested : Nat, due : Nat]

Trades ==
  [entrySequence : Nat, exitSequence : Nat, requested : Nat, due : Nat, executed : Nat,
   exitRequested : Nat, exitDue : Nat, exited : Nat, gross : Int, spread : Int,
   slippage : Int, commission : Int, net : Int, reason : ExitReasons, before : Int, after : Int]

Refusals ==
  {"MAX_OPEN_POSITIONS", "VOLUME_TOO_SMALL", "INVALID_VOLUME_STEP", "RISK_LIMIT",
   "INSUFFICIENT_MARGIN", "NO_EXECUTION_TICK"}

Rejections == [sequence : Nat, type : Kinds, reason : Refusals]

Ticks == [time : Nat, bid : Nat, ask : Nat]

\* None is none of the values it stands in for.
ASSUME NoneAssumption ==
  None \notin Refusals /\ None \notin Positions /\ None \notin Ticks /\ None \notin Int

Engines ==
  [balance : Int, equity : Int, used : Int, free : Int, realized : Int, unrealized : Int,
   position : Positions \union {None}, pending : Seq(Pendings), sequence : Nat,
   trades : Seq(Trades), rejections : Seq(Rejections)]

IsTick(t) ==
  /\ t = [time |-> t.time, bid |-> t.bid, ask |-> t.ask]
  /\ t.time \in Nat /\ [bid |-> t.bid, ask |-> t.ask] \in Quotes

TypeOK ==
  /\ tick # None => IsTick(tick)
  /\ phase \in {"between", "strategy", "ended"}
  /\ curve \in Seq(Int)
  /\ latency \in Latencies
  /\ asked \in Int /\ refused \in Int

\* At most one request waits: an opening while there is no position, a close
\* while there is one.
Queued(e) ==
  /\ Len(e.pending) <= 1
  /\ \A i \in DOMAIN e.pending :
       /\ e.pending[i].type = "OPEN" <=> e.position = None
       /\ e.pending[i].type = "OPEN" => e.pending[i].order \in Requests

\* Trades, position and queue continue each other, in time and in the numbers
\* given out.
Continued(e) ==
  LET p == e.position
  IN /\ Ordered(e.trades)
     /\ \A i \in DOMAIN e.trades : e.trades[i].exitSequence <= e.sequence
     /\ p # None =>
          /\ p.requested <= p.due /\ p.due <= p.executed /\ p.sequence <= e.sequence
          /\ \A i \in DOMAIN e.trades :
               e.trades[i].exited <= p.requested /\ e.trades[i].exitSequence < p.sequence
     /\ \A k \in DOMAIN e.pending :
          LET r == e.pending[k]
          IN /\ r.requested <= r.due /\ r.sequence <= e.sequence
             /\ p # None => p.executed <= r.requested /\ p.sequence < r.sequence
             /\ \A i \in DOMAIN e.trades :
                  e.trades[i].exited <= r.requested /\ e.trades[i].exitSequence < r.sequence

\* Nothing of it is of the future.
Timely(e, now) ==
  /\ \A i \in DOMAIN e.trades : e.trades[i].exited <= now
  /\ e.position # None => e.position.executed <= now
  /\ \A k \in DOMAIN e.pending : e.pending[k].requested <= now

\* The numbers that do not stand for a rejection.
Taken(e) ==
  {e.pending[i].sequence : i \in DOMAIN e.pending}
  \union {e.trades[i].entrySequence : i \in DOMAIN e.trades}
  \union {e.trades[i].exitSequence : i \in DOMAIN e.trades}
  \union (IF e.position = None THEN {} ELSE {e.position.sequence})

\* The numbers of the rejections are new ones.
Numbered(e) ==
  /\ \A i \in DOMAIN e.rejections :
       /\ e.rejections[i].sequence <= e.sequence
       /\ e.rejections[i].sequence \notin Taken(e)
  /\ \A i, j \in DOMAIN e.rejections :
       i < j => e.rejections[i].sequence < e.rejections[j].sequence

\* What the totals of the report will be.
Totalled(e) ==
  /\ After(e.trades, Len(e.trades)) = Capital + e.realized
  /\ Total(Gross(e.trades)) = Total(Net(e.trades)) + Total(Spread(e.trades))
                                + Total(SlippageCost(e.trades)) + Total(Fees(e.trades))
  /\ e.position # None => e.position.before = After(e.trades, Len(e.trades))

Sound(e) ==
  /\ e \in Engines
  /\ Queued(e)
  /\ Continued(e)
  /\ Numbered(e)
  /\ Explained(e)
  /\ Totalled(e)

\* Openings that were asked for and have left a trace.
Answers(e) == Len(e.trades) + Held(e) + Opens(e.pending) + Opens(e.rejections)

EngineInv ==
  /\ TypeOK
  /\ Sound(engine)
  /\ phase # "ended" => Timely(engine, IF tick = None THEN 0 ELSE tick.time)
  /\ asked + refused = Answers(engine)
  /\ phase = "strategy" => tick # None
  /\ phase = "ended" \/ tick = None => engine.position = None /\ engine.pending = <<>>
  /\ Len(curve) > 0 /\ curve[1] = Capital
  /\ phase # "strategy" => curve[Len(curve)] = engine.equity
  /\ TicksSettle
=============================================================================
