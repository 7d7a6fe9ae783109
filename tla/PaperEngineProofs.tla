------------------------- MODULE PaperEngineProofs -------------------------
(***************************************************************************)
(* For every universe, every set of quotes and every rates: the engine     *)
(* keeps its types, each of its trades explains its own result, the        *)
(* account is the curve that its trades draw, no entry lies beyond the     *)
(* daily limits, and its steps are those of PaperLedger.                   *)
(***************************************************************************)
EXTENDS PaperEngine, SumsProofs

\* A fraction of a natural number, rounded down, is an integer.
LEMMA RoundedIsInt ==
  ASSUME NEW x \in Int
  PROVE  Slippage(x) \in Int /\ Commission(x) \in Int
<1>1. SlippageRate \in Int /\ FeeRate \in Int
  BY EngineAssumption
<1>2. x * SlippageRate \in Int /\ x * FeeRate \in Int
  BY <1>1
<1>3. \A y \in Int : y \div 10000 \in Int
  OBVIOUS
<1> QED
  BY <1>2, <1>3 DEF Slippage, Commission

\* An instant of the horizon falls on a day that the counters know.
LEMMA DayOfNow ==
  ASSUME TypeOK
  PROVE  Day(now) \in Days
BY DEF TypeOK, Days

\* A quoted book has an integer bid and an integer ask.
LEMMA BookTypes ==
  ASSUME NEW b \in Books
  PROVE  b.bid \in Int /\ b.ask \in Int /\ b.bid <= b.ask /\ Mid2(b) \in Int
BY EngineAssumption DEF Mid2

\* The arithmetic of a closed trade, the products being atoms: quantity times
\* midpoint, reference, bid, slippage of the exit and fill.
LEMMA DecompositionArithmetic ==
  ASSUME NEW qm \in Int, NEW qr \in Int, NEW qb \in Int, NEW qs \in Int, NEW qf \in Int,
         NEW spread2 \in Int, NEW slippage \in Int, NEW commission \in Int,
         2 * qf = qr + spread2 + 2 * slippage
  PROVE  2 * ((qb - qs - qf) - commission) =
           (qm - qr) - (spread2 + (qm - 2 * qb)) - 2 * (slippage + qs) - 2 * commission
OBVIOUS

\* What a close records is a trade.
LEMMA TradeIsTyped ==
  ASSUME TypeOK, NEW pos \in Positions, NEW book \in Books, NEW reason \in Reasons
  PROVE  TradeOf(pos, book, reason) \in Trades
<1> DEFINE q == pos.quantity
           bid == book.bid
           slip == Slippage(book.bid)
           mid2 == Mid2(book)
           fee == Commission(q * (bid - slip))
<1>1. /\ q \in Nat /\ bid \in Int /\ slip \in Int /\ mid2 \in Int
      /\ pos.reference2 \in Int /\ pos.fill \in Int /\ pos.spread2 \in Int
      /\ pos.slippage \in Int /\ pos.commission \in Int
      /\ pos.max2 \in Int /\ pos.min2 \in Int
      /\ pos.signal \in Times /\ pos.entry \in Times /\ pos.symbol \in Symbols
  BY BookTypes, RoundedIsInt DEF Positions
<1>2. fee \in Int
  <2>1. q * (bid - slip) \in Int
    BY <1>1
  <2> QED BY <2>1, RoundedIsInt
<1>3. now \in Times
  BY DEF TypeOK
<1> QED BY <1>1, <1>2, <1>3 DEF TradeOf, Trades

\* Closing a position whose entry costs explain its fill, and whose excursions
\* enclose the quotes, records a trade that decomposes and that is enclosed.
LEMMA TradeIsSound ==
  ASSUME TypeOK,
         NEW pos \in Positions, NEW book \in Books, NEW reason \in Reasons,
         2 * (pos.quantity * pos.fill) =
           pos.quantity * pos.reference2 + pos.spread2 + 2 * pos.slippage,
         pos.min2 <= Mid2(book), Mid2(book) <= pos.max2
  PROVE  LET t == TradeOf(pos, book, reason)
         IN /\ t \in Trades
            /\ 2 * t.net = t.gross2 - t.spread2 - 2 * t.slippage - 2 * t.commission
            /\ t.quantity * t.mae2 <= t.gross2
            /\ t.gross2 <= t.quantity * t.mfe2
<1> DEFINE q == pos.quantity
           bid == book.bid
           slip == Slippage(book.bid)
           mid2 == Mid2(book)
           fee == Commission(q * (bid - slip))
           t == TradeOf(pos, book, reason)
<1>1. /\ q \in Nat /\ bid \in Int /\ slip \in Int /\ mid2 \in Int
      /\ pos.reference2 \in Int /\ pos.fill \in Int /\ pos.spread2 \in Int
      /\ pos.slippage \in Int /\ pos.commission \in Int
      /\ pos.max2 \in Int /\ pos.min2 \in Int
      /\ pos.signal \in Times /\ pos.entry \in Times /\ pos.symbol \in Symbols
  BY BookTypes, RoundedIsInt DEF Positions
<1>2. fee \in Int
  <2>1. q * (bid - slip) \in Int
    BY <1>1
  <2> QED
    BY <2>1, RoundedIsInt
<1>3. /\ t.gross2 = q * (mid2 - pos.reference2)
      /\ t.spread2 = pos.spread2 + q * (mid2 - 2 * bid)
      /\ t.slippage = pos.slippage + q * slip
      /\ t.commission = pos.commission + fee
      /\ t.net = q * (bid - slip - pos.fill) - (pos.commission + fee)
      /\ t.mfe2 = pos.max2 - pos.reference2
      /\ t.mae2 = pos.min2 - pos.reference2
      /\ t.quantity = q
  BY DEF TradeOf
<1>5. t \in Trades
  BY TradeIsTyped
<1>6. 2 * t.net = t.gross2 - t.spread2 - 2 * t.slippage - 2 * t.commission
  <2> HIDE DEF q, bid, slip, mid2, fee, t
  <2>1. /\ q * (mid2 - pos.reference2) = q * mid2 - q * pos.reference2
        /\ q * (mid2 - 2 * bid) = q * mid2 - 2 * (q * bid)
        /\ q * (bid - slip - pos.fill) = q * bid - q * slip - q * pos.fill
    BY <1>1
  <2>2. 2 * (q * pos.fill) = q * pos.reference2 + pos.spread2 + 2 * pos.slippage
    BY DEF q
  <2>3. /\ q * mid2 \in Int /\ q * pos.reference2 \in Int /\ q * bid \in Int
        /\ q * slip \in Int /\ q * pos.fill \in Int
    BY <1>1
  <2> DEFINE qm == q * mid2
             qr == q * pos.reference2
             qb == q * bid
             qs == q * slip
             qf == q * pos.fill
             c == pos.commission + fee
  <2>4. c \in Int
    BY <1>1, <1>2
  <2>5. 2 * ((qb - qs - qf) - c) =
          (qm - qr) - (pos.spread2 + (qm - 2 * qb)) - 2 * (pos.slippage + qs) - 2 * c
    <3> HIDE DEF c, qm, qr, qb, qs, qf
    <3>1. qm \in Int /\ qr \in Int /\ qb \in Int /\ qs \in Int /\ qf \in Int
      BY <2>3 DEF qm, qr, qb, qs, qf
    <3>2. 2 * qf = qr + pos.spread2 + 2 * pos.slippage
      BY <2>2 DEF qf, qr
    <3> QED
      BY <1>1, <2>4, <3>1, <3>2, DecompositionArithmetic
  <2>6. /\ t.gross2 = qm - qr
        /\ t.spread2 = pos.spread2 + (qm - 2 * qb)
        /\ t.slippage = pos.slippage + qs
        /\ t.commission = c
        /\ t.net = (qb - qs - qf) - c
    BY <1>3, <2>1
  <2> QED
    <3> HIDE DEF c, qm, qr, qb, qs, qf
    <3> QED
      BY <2>5, <2>6
<1>7. q * (pos.min2 - pos.reference2) <= q * (mid2 - pos.reference2)
      /\ q * (mid2 - pos.reference2) <= q * (pos.max2 - pos.reference2)
  <2>1. \A n \in Nat, x, y \in Int : x <= y => n * x <= n * y
    OBVIOUS
  <2>2. /\ pos.min2 - pos.reference2 <= mid2 - pos.reference2
        /\ mid2 - pos.reference2 <= pos.max2 - pos.reference2
    BY <1>1
  <2> HIDE DEF q, mid2
  <2> QED
    BY <1>1, <2>1, <2>2
<1> QED
  BY <1>3, <1>5, <1>6, <1>7

-----------------------------------------------------------------------------
\* The drawdown is an integer.
LEMMA DrawdownIsInt ==
  ASSUME NEW p \in Int, NEW e \in Int
  PROVE  DrawdownAt(p, e) \in Int
<1>1. \A x \in Int, y \in Int : y > 0 => x \div y \in Int
  OBVIOUS
<1>2. (p - e) * 10000 \in Int
  OBVIOUS
<1> QED
  BY <1>1, <1>2 DEF DrawdownAt

\* What a close leaves behind.
LEMMA CloseKeeps ==
  ASSUME EngineInv,
         NEW pos \in Positions, NEW book \in Books, NEW reason \in Reasons,
         2 * (pos.quantity * pos.fill) =
           pos.quantity * pos.reference2 + pos.spread2 + 2 * pos.slippage,
         pos.min2 <= Mid2(book), Mid2(book) <= pos.max2,
         CloseWith(pos, book, reason)
  PROVE  /\ trades' \in Seq(Trades) /\ equity' \in Int /\ peak' \in Int
         /\ drawdown' \in Int /\ position' = None /\ lastExit' = now
         /\ PnLDecomposes' /\ ExcursionsEncloseExit'
<1> USE DEF EngineInv
<1> DEFINE t == TradeOf(pos, book, reason)
<1>1. /\ t \in Trades
      /\ 2 * t.net = t.gross2 - t.spread2 - 2 * t.slippage - 2 * t.commission
      /\ t.quantity * t.mae2 <= t.gross2
      /\ t.gross2 <= t.quantity * t.mfe2
  BY TradeIsSound
<1>2. /\ trades' = Append(trades, t)
      /\ equity' = equity + t.net
      /\ peak' = Greater(peak, equity')
      /\ drawdown' = Greater(drawdown, DrawdownAt(peak', equity'))
      /\ position' = None
      /\ lastExit' = now
  BY DEF CloseWith
<1> HIDE DEF t
<1>3. trades \in Seq(Trades) /\ equity \in Int /\ peak \in Int /\ drawdown \in Int
  BY DEF TypeOK
<1>4. trades' \in Seq(Trades)
  BY <1>1, <1>2, <1>3
<1>5. equity' \in Int /\ peak' \in Int
  BY <1>1, <1>2, <1>3 DEF Trades, Greater
<1>6. drawdown' \in Int
  BY <1>2, <1>3, <1>5, DrawdownIsInt DEF Greater
<1>7. ASSUME NEW i \in DOMAIN trades'
      PROVE  \/ i \in DOMAIN trades /\ trades'[i] = trades[i]
             \/ trades'[i] = t
  BY <1>1, <1>2, <1>3
<1>8. PnLDecomposes'
  BY <1>1, <1>7 DEF PnLDecomposes
<1>9. ExcursionsEncloseExit'
  BY <1>1, <1>7 DEF ExcursionsEncloseExit
<1> QED
  BY <1>2, <1>4, <1>5, <1>6, <1>8, <1>9

\* The account is well formed at the start.
LEMMA EngineInit == Init => EngineInv
<1> SUFFICES ASSUME Init PROVE EngineInv
  OBVIOUS
<1> USE LedgerAssumption, EngineAssumption DEF Init
<1>1. TypeOK
  BY DEF TypeOK, Times
<1> QED
  BY <1>1 DEF EngineInv, EntryCostsExplainFill, ExcursionsEncloseQuotes, PnLDecomposes,
              ExcursionsEncloseExit

\* Only the clock moves.
LEMMA TickKeeps == EngineInv /\ Tick => EngineInv'
<1> SUFFICES ASSUME EngineInv, Tick PROVE EngineInv'
  OBVIOUS
<1>1. TypeOK'
  BY DEF EngineInv, TypeOK, Tick, Times, money, day
<1> QED
  BY <1>1 DEF EngineInv, Tick, money, day, EntryCostsExplainFill, ExcursionsEncloseQuotes,
              PnLDecomposes, ExcursionsEncloseExit

\* mark keeps the entry costs and stretches the excursions to the new quotes
\* before it decides to close.
LEMMA MarkKeeps == EngineInv /\ Mark => EngineInv'
<1> SUFFICES ASSUME EngineInv, Mark PROVE EngineInv'
  OBVIOUS
<1> USE DEF EngineInv
<1>1. /\ phase' = "marked" /\ books' \in [Symbols -> Books] /\ books' # None
      /\ now' = now /\ dayStart' = dayStart /\ dayEntries' = dayEntries
  BY SymbolsAssumption DEF Mark, day
<1>2. CASE position = None
  <2>1. position' = None /\ UNCHANGED money
    BY <1>2 DEF Mark
  <2>2. TypeOK'
    BY <1>1, <2>1 DEF TypeOK, money
  <2> QED
    BY <2>1, <2>2 DEF EntryCostsExplainFill, ExcursionsEncloseQuotes, PnLDecomposes,
                      ExcursionsEncloseExit, money
<1>3. CASE position # None
  <2> DEFINE book == books'[position.symbol]
             pos == Marked(book)
  <2>1. position \in Positions
    BY <1>3 DEF TypeOK
  <2>2. book \in Books
    BY <1>1, <2>1 DEF Positions
  <2>3. MarkPosition(book)
    BY <1>3 DEF Mark
  <2>4. Mid2(book) \in Int
    BY <2>2, BookTypes
  <2>5. /\ pos \in Positions
        /\ pos.symbol = position.symbol /\ pos.quantity = position.quantity
        /\ pos.fill = position.fill /\ pos.reference2 = position.reference2
        /\ pos.spread2 = position.spread2 /\ pos.slippage = position.slippage
        /\ pos.max2 = Greater(position.max2, Mid2(book))
        /\ pos.min2 = Lesser(position.min2, Mid2(book))
    <3> HIDE DEF book
    <3> QED
      BY <2>1, <2>4 DEF Marked, Positions, Greater, Lesser
  <2>6. position.max2 \in Int /\ position.min2 \in Int /\ position.reference2 \in Int
    BY <2>1 DEF Positions
  <2>7. /\ pos.min2 <= Mid2(book) /\ Mid2(book) <= pos.max2
        /\ pos.min2 <= pos.reference2 /\ pos.reference2 <= pos.max2
    <3>1. position.min2 <= position.reference2 /\ position.reference2 <= position.max2
      BY <1>3 DEF ExcursionsEncloseQuotes
    <3> HIDE DEF book, pos
    <3> QED
      BY <2>4, <2>5, <2>6, <3>1 DEF Greater, Lesser
  <2>8. 2 * (pos.quantity * pos.fill) =
          pos.quantity * pos.reference2 + pos.spread2 + 2 * pos.slippage
    BY <1>3, <2>5 DEF EntryCostsExplainFill
  <2>9. CASE ExitReason(book) # None
    <3>1. ExitReason(book) \in Reasons
      BY <2>9 DEF ExitReason, Reasons
    <3>2. CloseWith(pos, book, ExitReason(book))
      BY <2>3, <2>9 DEF MarkPosition
    <3>3. /\ trades' \in Seq(Trades) /\ equity' \in Int /\ peak' \in Int
          /\ drawdown' \in Int /\ position' = None /\ lastExit' = now
          /\ PnLDecomposes' /\ ExcursionsEncloseExit'
      BY <2>2, <2>5, <2>7, <2>8, <3>1, <3>2, CloseKeeps
    <3>4. TypeOK'
      BY <1>1, <3>3 DEF TypeOK
    <3> QED
      BY <3>3, <3>4 DEF EntryCostsExplainFill, ExcursionsEncloseQuotes
  <2>10. CASE ExitReason(book) = None
    <3>1. position' = pos /\ UNCHANGED money
      BY <2>3, <2>10 DEF MarkPosition
    <3>2. TypeOK'
      BY <1>1, <2>5, <3>1 DEF TypeOK, money
    <3>3. ExcursionsEncloseQuotes'
      BY <2>5, <2>7, <3>1 DEF ExcursionsEncloseQuotes
    <3>4. EntryCostsExplainFill'
      BY <2>8, <3>1 DEF EntryCostsExplainFill
    <3> QED
      BY <3>1, <3>2, <3>3, <3>4 DEF PnLDecomposes, ExcursionsEncloseExit, money
  <2> QED
    BY <2>9, <2>10
<1> QED
  BY <1>2, <1>3

\* The abandoned cycle forgets only its quotes.
LEMMA AbandonKeeps == EngineInv /\ Abandon => EngineInv'
<1> SUFFICES ASSUME EngineInv, Abandon PROVE EngineInv'
  OBVIOUS
<1>1. TypeOK'
  BY DEF EngineInv, TypeOK, Abandon, money, day
<1> QED
  BY <1>1 DEF EngineInv, Abandon, money, day, EntryCostsExplainFill, ExcursionsEncloseQuotes,
              PnLDecomposes, ExcursionsEncloseExit

\* The baseline is recorded once, as an integer.
LEMMA BaselineIsInt ==
  ASSUME TypeOK
  PROVE  WithBaseline \in [Days -> Int \union {None}]
BY DEF TypeOK, WithBaseline

\* A new position records costs that explain its fill, and starts its
\* excursions at its own reference.
LEMMA PositionIsSound ==
  ASSUME TypeOK, NEW s \in Times, NEW symbol \in Symbols, NEW book \in Books,
         NEW sizing \in Sizings
  PROVE  LET pos == PositionAt(s, symbol, book, sizing)
         IN /\ pos \in Positions
            /\ pos.min2 <= pos.reference2 /\ pos.reference2 <= pos.max2
            /\ 2 * (pos.quantity * pos.fill) =
                 pos.quantity * pos.reference2 + pos.spread2 + 2 * pos.slippage
            /\ pos.signal = s /\ pos.entry = now /\ pos.symbol = symbol
<1> DEFINE q == sizing.quantity
           slip == Slippage(book.ask)
           ask == book.ask
           mid2 == Mid2(book)
           fill == ask + slip
           pos == PositionAt(s, symbol, book, sizing)
<1>1. /\ q \in Nat /\ sizing.distance \in Int /\ ask \in Int /\ slip \in Int
      /\ mid2 \in Int /\ now \in Times
  <2>1. sizing \in [distance : Nat \ {0}, quantity : Nat \ {0}]
    BY EngineAssumption
  <2>2. ask \in Int /\ mid2 \in Int
    BY BookTypes
  <2>3. slip \in Int
    BY <2>2, RoundedIsInt
  <2> QED
    BY <2>1, <2>2, <2>3 DEF TypeOK
<1>2. /\ pos.quantity = q /\ pos.fill = fill /\ pos.reference2 = mid2
      /\ pos.spread2 = q * (2 * ask - mid2) /\ pos.slippage = q * slip
      /\ pos.max2 = mid2 /\ pos.min2 = mid2
      /\ pos.signal = s /\ pos.entry = now /\ pos.symbol = symbol
  BY DEF PositionAt
<1>3. pos \in Positions
  <2>1. q * fill \in Int /\ q * slip \in Int /\ q * (2 * ask - mid2) \in Int
    BY <1>1
  <2>2. Commission(q * fill) \in Int
    BY <2>1, RoundedIsInt
  <2>3. (mid2 - 2 * sizing.distance) \div 2 \in Int /\ (mid2 + 4 * sizing.distance) \div 2 \in Int
    BY <1>1
  <2> QED
    BY <1>1, <2>1, <2>2, <2>3 DEF PositionAt, Positions
<1>4. 2 * (q * fill) = q * mid2 + q * (2 * ask - mid2) + 2 * (q * slip)
  <2> HIDE DEF q, ask, slip, mid2
  <2>1. /\ q * fill = q * ask + q * slip
        /\ q * (2 * ask - mid2) = 2 * (q * ask) - q * mid2
    BY <1>1
  <2>2. q * ask \in Int /\ q * slip \in Int /\ q * mid2 \in Int
    BY <1>1
  <2>3. \A a, b, c \in Int : 2 * (a + b) = c + (2 * a - c) + 2 * b
    OBVIOUS
  <2> HIDE DEF fill
  <2> QED
    BY <2>1, <2>2, <2>3
<1>5. mid2 <= mid2
  BY <1>1
<1> HIDE DEF q, slip, ask, mid2, fill, pos
<1>6. 2 * (pos.quantity * pos.fill) =
        pos.quantity * pos.reference2 + pos.spread2 + 2 * pos.slippage
  BY <1>2, <1>4
<1>7. pos.min2 <= pos.reference2 /\ pos.reference2 <= pos.max2
  BY <1>2, <1>5
<1> QED
  BY <1>2, <1>3, <1>6, <1>7 DEF pos

\* process_signal closes inside the excursions that mark has stretched, and
\* opens a position whose costs explain its fill.
LEMMA ProcessSignalKeeps == EngineInv /\ ProcessSignal => EngineInv'
<1> SUFFICES ASSUME EngineInv, ProcessSignal PROVE EngineInv'
  OBVIOUS
<1> USE DEF EngineInv
<1>1. PICK e \in Evaluations : LeaveOn(e) \/ HoldOn(e) \/ EnterOn(e) \/ RefuseOn(e)
  BY DEF ProcessSignal
<1>2. phase = "marked" /\ phase' = "idle" /\ books' = None /\ now' = now
  BY DEF ProcessSignal, EndOfCycle
<1>3. books \in [Symbols -> Books]
  BY <1>2 DEF TypeOK
<1>4. CASE LeaveOn(e)
  <2>1. position # None /\ position \in Positions
    BY <1>4 DEF LeaveOn, TypeOK
  <2>2. books[position.symbol] \in Books
    BY <1>3, <2>1 DEF Positions
  <2>3. PICK reason \in Reasons : CloseWith(position, books[position.symbol], reason)
    BY <1>4 DEF LeaveOn, Reasons
  <2>4. /\ 2 * (position.quantity * position.fill) =
             position.quantity * position.reference2 + position.spread2 + 2 * position.slippage
        /\ position.min2 <= Mid2(books[position.symbol])
        /\ Mid2(books[position.symbol]) <= position.max2
    BY <1>2, <2>1 DEF EntryCostsExplainFill, ExcursionsEncloseQuotes
  <2>5. /\ trades' \in Seq(Trades) /\ equity' \in Int /\ peak' \in Int
        /\ drawdown' \in Int /\ position' = None /\ lastExit' = now
        /\ PnLDecomposes' /\ ExcursionsEncloseExit'
    BY <2>1, <2>2, <2>3, <2>4, CloseKeeps
  <2>6. TypeOK'
    BY <1>2, <1>4, <2>5 DEF TypeOK, LeaveOn, day
  <2> QED
    BY <2>5, <2>6 DEF EntryCostsExplainFill, ExcursionsEncloseQuotes
<1>5. CASE HoldOn(e)
  <2>1. TypeOK'
    BY <1>2, <1>5 DEF TypeOK, HoldOn, money, day
  <2> QED
    BY <1>2, <1>5, <2>1 DEF HoldOn, money, EntryCostsExplainFill, ExcursionsEncloseQuotes,
                            PnLDecomposes, ExcursionsEncloseExit
<1>6. CASE EnterOn(e)
  <2>1. e.signal \in Symbols
    BY <1>6 DEF EnterOn, Admitted, Evaluations
  <2>2. PICK s \in Signals(now), sizing \in Sizings :
          position' = PositionAt(s, e.signal, books[e.signal], sizing)
    BY <1>6 DEF EnterOn
  <2>3. s \in Times /\ books[e.signal] \in Books
    BY <1>3, <2>1, LedgerAssumption DEF Signals, TypeOK, Times
  <2>4. /\ position' \in Positions
        /\ position'.min2 <= position'.reference2 /\ position'.reference2 <= position'.max2
        /\ 2 * (position'.quantity * position'.fill) =
             position'.quantity * position'.reference2 + position'.spread2 + 2 * position'.slippage
    BY <2>1, <2>2, <2>3, PositionIsSound
  <2>5. dayStart' \in [Days -> Int \union {None}]
    BY <1>6, BaselineIsInt DEF EnterOn
  <2>6. dayEntries' \in [Days -> Nat]
    BY <1>6, DayOfNow DEF EnterOn, TypeOK
  <2>7. UNCHANGED money
    BY <1>6 DEF EnterOn
  <2>8. TypeOK'
    BY <1>2, <2>4, <2>5, <2>6, <2>7 DEF TypeOK, money
  <2> QED
    BY <1>2, <2>4, <2>7, <2>8 DEF money, EntryCostsExplainFill, ExcursionsEncloseQuotes,
                                  PnLDecomposes, ExcursionsEncloseExit
<1>7. CASE RefuseOn(e)
  <2>1. dayStart' \in [Days -> Int \union {None}]
    BY <1>7, BaselineIsInt DEF RefuseOn, TypeOK
  <2>2. TypeOK'
    BY <1>2, <1>7, <2>1 DEF TypeOK, RefuseOn, money
  <2> QED
    BY <1>2, <1>7, <2>2 DEF RefuseOn, money, EntryCostsExplainFill, ExcursionsEncloseQuotes,
                            PnLDecomposes, ExcursionsEncloseExit
<1> QED
  BY <1>1, <1>4, <1>5, <1>6, <1>7

LEMMA EngineNext == EngineInv /\ [Next]_vars => EngineInv'
<1> SUFFICES ASSUME EngineInv, [Next]_vars PROVE EngineInv'
  OBVIOUS
<1>1. CASE UNCHANGED vars
  BY <1>1 DEF vars, money, day, EngineInv, TypeOK, EntryCostsExplainFill,
              ExcursionsEncloseQuotes, PnLDecomposes, ExcursionsEncloseExit
<1> QED
  BY <1>1, TickKeeps, MarkKeeps, AbandonKeeps, ProcessSignalKeeps DEF Next

\* The inductive invariant of the engine.
THEOREM EngineInvariant == Spec => []EngineInv
BY EngineInit, EngineNext, PTL DEF Spec

\* The account keeps its types.
THEOREM EngineTypes == Spec => []TypeOK
BY EngineInvariant, PTL DEF EngineInv

\* Gross result, spread, slippage and commission of every recorded trade add
\* up to its net result, for every quote, rate, quantity and exit reason.
THEOREM TradesDecompose == Spec => []PnLDecomposes
BY EngineInvariant, PTL DEF EngineInv

\* The recorded excursions of every trade enclose the midpoint it was closed
\* at, by mark or by process_signal.
THEOREM TradesInsideExcursions == Spec => []ExcursionsEncloseExit
BY EngineInvariant, PTL DEF EngineInv

\* A position that mark leaves open is inside its stop, its target and its
\* holding time by the quotes of the cycle (mark, lines 453 to 467).
THEOREM MarkLeavesInside == Spec => []MarkedInsideLimits
<1>1. Init => MarkedInsideLimits
  BY DEF Init, MarkedInsideLimits
<1>2. EngineInv /\ MarkedInsideLimits /\ [Next]_vars => MarkedInsideLimits'
  <2> SUFFICES ASSUME EngineInv, MarkedInsideLimits, [Next]_vars, phase' = "marked", position' # None
               PROVE  LET bid == books'[position'.symbol].bid
                      IN /\ position'.stop < bid /\ bid < position'.target
                         /\ now' - position'.entry < Timeout
    BY DEF MarkedInsideLimits
  <2>1. CASE Mark
    <3> DEFINE book == books'[position.symbol]
    <3>1. position # None /\ MarkPosition(book) /\ now' = now /\ books' \in [Symbols -> Books]
      BY <2>1 DEF Mark
    <3>2. position \in Positions /\ now \in Int
      BY <3>1 DEF EngineInv, TypeOK, Times
    <3>3. book.bid \in Int /\ position.stop \in Int /\ position.target \in Int
      BY <3>1, <3>2, BookTypes DEF Positions
    <3>4. ExitReason(book) = None /\ position' = Marked(book)
      BY <3>1 DEF MarkPosition, CloseWith
    <3>5. /\ position'.symbol = position.symbol /\ position'.entry = position.entry
          /\ position'.stop = position.stop /\ position'.target = position.target
      <4> HIDE DEF book
      <4> QED BY <3>2, <3>4 DEF Marked, Positions
    <3>6. /\ ~ (book.bid <= position.stop) /\ ~ (book.bid >= position.target)
          /\ ~ (now - position.entry >= Timeout)
      BY <3>4, ReasonsAssumption DEF ExitReason, Reasons
    <3>7. position.entry \in Int /\ Timeout \in Int
      BY <3>2, EngineAssumption DEF Positions, Times
    <3> HIDE DEF book
    <3>8. position'.stop < book.bid /\ book.bid < position'.target /\ now' - position'.entry < Timeout
      BY <3>1, <3>2, <3>3, <3>5, <3>6, <3>7
    <3> QED BY <3>5, <3>8 DEF book
  <2>2. CASE UNCHANGED vars
    BY <2>2 DEF MarkedInsideLimits, vars
  <2> QED BY <2>1, <2>2 DEF Next, Tick, Abandon, ProcessSignal, EndOfCycle
<1> QED BY <1>1, <1>2, EngineInvariant, PTL DEF Spec

\* A position that survives a cycle is inside its limits unless the cycle has
\* opened it: process_signal keeps what mark has left, or buys at this instant.
THEOREM SurvivorsStayInside == Spec => SurvivorsInsideLimits
<1>1. ASSUME EngineInv, MarkedInsideLimits, [Next]_vars,
             phase = "marked", phase' = "idle", position' # None
      PROVE  LET bid == books[position'.symbol].bid
             IN \/ position'.entry = now
                \/ /\ position'.stop < bid /\ bid < position'.target
                   /\ now - position'.entry < Timeout
  <2>1. CASE position' = position
    BY <1>1, <2>1 DEF MarkedInsideLimits
  <2>2. CASE ProcessSignal
    <3>1. PICK e \in Evaluations : LeaveOn(e) \/ HoldOn(e) \/ EnterOn(e) \/ RefuseOn(e)
      BY <2>2 DEF ProcessSignal
    <3>2. ~ LeaveOn(e)
      BY <1>1 DEF LeaveOn, CloseWith
    <3>3. CASE HoldOn(e) \/ RefuseOn(e)
      BY <2>1, <3>3 DEF HoldOn, RefuseOn
    <3>4. CASE EnterOn(e)
      <4>1. PICK s \in Signals(now), sizing \in Sizings :
              position' = PositionAt(s, e.signal, books[e.signal], sizing)
        BY <3>4 DEF EnterOn
      <4>2. position'.entry = now
        BY <4>1 DEF PositionAt
      <4> QED BY <4>2
    <3> QED BY <3>1, <3>2, <3>3, <3>4
  <2> QED BY <1>1, <2>1, <2>2 DEF Next, Tick, Mark, Abandon, vars
<1> QED BY <1>1, EngineInvariant, MarkLeavesInside, PTL DEF Spec, SurvivorsInsideLimits

-----------------------------------------------------------------------------
(***************************************************************************)
(* The account is the curve that its trades draw.                          *)
(***************************************************************************)

\* What a close records of the trade t.
Records(t) ==
  /\ trades' = Append(trades, t)
  /\ equity' = equity + t.net
  /\ peak' = Greater(peak, equity')
  /\ drawdown' = Greater(drawdown, DrawdownAt(peak', equity'))
  /\ t.exit = now /\ t.entry = position.entry
  /\ position # None /\ position' = None
  /\ UNCHANGED <<now, day>>

\* The three things a step may do to the account: close its position, open
\* one, or neither; only then may time pass, or the baseline of the day be
\* taken without an entry.
Opens ==
  /\ position = None /\ position' # None /\ position'.entry = now
  /\ DailyEnabled
  /\ dayStart' = WithBaseline
  /\ UNCHANGED <<now, money>>

Carries ==
  /\ UNCHANGED money
  /\ position' = None <=> position = None
  /\ position # None => position'.entry = position.entry
  /\ \/ now' \in now .. Horizon /\ dayStart' = dayStart
     \/ now' = now /\ dayStart' = WithBaseline

\* Closing any position records one trade, of this instant.
LEMMA CloseRecords ==
  ASSUME EngineInv, position # None, UNCHANGED <<now, day>>,
         NEW pos \in Positions, NEW book \in Books, NEW reason \in Reasons,
         pos.entry = position.entry, CloseWith(pos, book, reason)
  PROVE  \E t \in Trades : Records(t)
<1> DEFINE t == TradeOf(pos, book, reason)
<1>1. t \in Trades
  BY TradeIsTyped DEF EngineInv
<1>2. t.exit = now /\ t.entry = position.entry
  BY DEF TradeOf
<1> QED BY <1>1, <1>2 DEF CloseWith, Records

LEMMA StepKinds ==
  ASSUME EngineInv, [Next]_vars
  PROVE  (\E t \in Trades : Records(t)) \/ Opens \/ Carries
<1> USE DEF EngineInv
<1>0. now \in now .. Horizon
  BY LedgerAssumption DEF TypeOK, Times
<1>1. CASE Tick
  BY <1>1 DEF Tick, Carries, day
<1>2. CASE Mark
  <2>1. now' = now /\ UNCHANGED day /\ books' \in [Symbols -> Books]
    BY <1>2 DEF Mark
  <2>2. CASE position = None
    BY <1>0, <1>2, <2>1, <2>2 DEF Mark, Carries, day
  <2>3. CASE position # None
    <3> DEFINE book == books'[position.symbol]
               pos == Marked(book)
    <3>1. position \in Positions /\ book \in Books
      BY <1>2, <2>3 DEF TypeOK, Mark, Positions
    <3>2. Mid2(book) \in Int
      BY <3>1, BookTypes
    <3>3. pos \in Positions /\ pos.entry = position.entry
      <4> HIDE DEF book
      <4> QED BY <3>1, <3>2 DEF Marked, Positions, Greater, Lesser
    <3>4. MarkPosition(book)
      BY <1>2, <2>3 DEF Mark
    <3>5. CASE ExitReason(book) # None
      <4>1. CloseWith(pos, book, ExitReason(book)) /\ ExitReason(book) \in Reasons
        BY <3>4, <3>5 DEF MarkPosition, ExitReason, Reasons
      <4> HIDE DEF pos, book
      <4> QED BY <2>1, <2>3, <3>1, <3>3, <4>1, CloseRecords
    <3>6. CASE ExitReason(book) = None
      <4>1. position' = pos /\ UNCHANGED money
        BY <3>4, <3>6 DEF MarkPosition
      <4>2. position' # None
        BY <3>3, <4>1, PositionsAssumption
      <4> QED BY <1>0, <2>1, <2>3, <3>3, <4>1, <4>2 DEF Carries, day
    <3> QED BY <3>5, <3>6
  <2> QED BY <2>2, <2>3
<1>3. CASE Abandon
  BY <1>0, <1>3 DEF Abandon, Carries, day
<1>4. CASE ProcessSignal
  <2>1. PICK e \in Evaluations : LeaveOn(e) \/ HoldOn(e) \/ EnterOn(e) \/ RefuseOn(e)
    BY <1>4 DEF ProcessSignal
  <2>2. phase = "marked" /\ now' = now
    BY <1>4 DEF ProcessSignal, EndOfCycle
  <2>3. books \in [Symbols -> Books]
    BY <2>2 DEF TypeOK
  <2>4. CASE LeaveOn(e)
    <3>1. position # None /\ position \in Positions /\ UNCHANGED day
      BY <2>4 DEF LeaveOn, TypeOK
    <3>2. PICK reason \in Reasons : CloseWith(position, books[position.symbol], reason)
      BY <2>4 DEF LeaveOn, Reasons
    <3>3. books[position.symbol] \in Books
      BY <2>3, <3>1 DEF Positions
    <3> QED BY <2>2, <3>1, <3>2, <3>3, CloseRecords
  <2>5. CASE HoldOn(e) \/ RefuseOn(e)
    BY <1>0, <2>2, <2>5 DEF HoldOn, RefuseOn, Carries, day
  <2>6. CASE EnterOn(e)
    <3>1. e.signal \in Symbols
      BY <2>6 DEF EnterOn, Admitted, Evaluations
    <3>2. PICK s \in Signals(now), sizing \in Sizings :
            position' = PositionAt(s, e.signal, books[e.signal], sizing)
      BY <2>6 DEF EnterOn
    <3>3. s \in Times /\ books[e.signal] \in Books
      BY <2>3, <3>1, LedgerAssumption DEF Signals, TypeOK, Times
    <3>4. position' \in Positions /\ position'.entry = now
      BY <3>1, <3>2, <3>3, PositionIsSound
    <3>5. position' # None
      BY <3>4, PositionsAssumption
    <3> QED BY <2>2, <2>6, <3>4, <3>5 DEF EnterOn, Admitted, Opens
  <2> QED BY <2>1, <2>4, <2>5, <2>6
<1>5. CASE UNCHANGED vars
  BY <1>0, <1>5 DEF vars, Carries, day
<1> QED BY <1>1, <1>2, <1>3, <1>4, <1>5 DEF Next

\* The largest member of a set is the one that Max chooses.
LEMMA TopsIsMax ==
  ASSUME NEW S, NEW x, Tops(x, S)
  PROVE  Max(S) = x
<1>1. x \in S /\ \A y \in S : x >= y
  BY DEF Tops
<1>2. \A z \in S : (\A y \in S : z >= y) => z = x
  BY <1>1 DEF Tops
<1> QED BY <1>1, <1>2 DEF Max

\* Adding a number to a set, and keeping the greater, keeps the largest.
LEMMA TopsAdd ==
  ASSUME NEW S, NEW x, NEW y \in Int, Tops(x, S)
  PROVE  Tops(Greater(x, y), S \union {y})
BY DEF Tops, Greater

\* A column of the trades grows with the trades.
NetsOf(s) == [i \in DOMAIN s |-> s[i].net]
RealizedBy(t, d) == IF Day(t.exit) = d THEN t.net ELSE 0
RealizedOf(s, d) == [i \in DOMAIN s |-> RealizedBy(s[i], d)]

LEMMA ColumnsAppend ==
  ASSUME NEW s \in Seq(Trades), NEW t \in Trades, NEW d
  PROVE  /\ NetsOf(s) \in Seq(Int) /\ Len(NetsOf(s)) = Len(s)
         /\ NetsOf(Append(s, t)) = Append(NetsOf(s), t.net)
         /\ RealizedOf(s, d) \in Seq(Int) /\ Len(RealizedOf(s, d)) = Len(s)
         /\ RealizedBy(t, d) \in Int
         /\ RealizedOf(Append(s, t), d) = Append(RealizedOf(s, d), RealizedBy(t, d))
<1>1. /\ \A i \in DOMAIN s : s[i].net \in Int
      /\ DOMAIN s = 1 .. Len(s) /\ Len(s) \in Nat /\ t.net \in Int
  <2>1. DOMAIN s = 1 .. Len(s) /\ Len(s) \in Nat /\ \A i \in DOMAIN s : s[i] \in Trades
    OBVIOUS
  <2>2. \A u \in Trades : u.net \in Int
    BY DEF Trades
  <2> QED BY <2>1, <2>2
<1>2. /\ NetsOf(s) \in Seq(Int) /\ Len(NetsOf(s)) = Len(s)
      /\ RealizedOf(s, d) \in Seq(Int) /\ Len(RealizedOf(s, d)) = Len(s)
  <2>1. DOMAIN NetsOf(s) = 1 .. Len(s) /\ DOMAIN RealizedOf(s, d) = 1 .. Len(s)
    BY <1>1 DEF NetsOf, RealizedOf
  <2>2. \A i \in 1 .. Len(s) : NetsOf(s)[i] \in Int /\ RealizedOf(s, d)[i] \in Int
    BY <1>1 DEF NetsOf, RealizedOf, RealizedBy
  <2>3. NetsOf(s) \in [1 .. Len(s) -> Int] /\ RealizedOf(s, d) \in [1 .. Len(s) -> Int]
    BY <2>1, <2>2 DEF NetsOf, RealizedOf
  <2> QED BY <1>1, <2>3
<1>3. /\ DOMAIN Append(s, t) = 1 .. Len(s) + 1 /\ Append(s, t)[Len(s) + 1] = t
      /\ \A i \in 1 .. Len(s) : Append(s, t)[i] = s[i]
  OBVIOUS
<1> DEFINE x == RealizedBy(t, d)
           a == Append(s, t)
<1>4. x \in Int
  BY <1>1 DEF RealizedBy
<1> HIDE DEF a, x
<1>5. NetsOf(a) = Append(NetsOf(s), t.net)
  <2>1. NetsOf(a) = [i \in 1 .. Len(s) + 1 |-> a[i].net]
    BY <1>3 DEF a, NetsOf
  <2>2. Append(NetsOf(s), t.net) =
          [i \in 1 .. Len(s) + 1 |-> IF i = Len(s) + 1 THEN t.net ELSE NetsOf(s)[i]]
    <3>1. t.net \in Int
      BY <1>1
    <3>2. PICK u \in Seq(Int) : u = NetsOf(s) /\ Len(u) = Len(s)
      BY <1>2
    <3>3. Append(u, t.net) = [i \in 1 .. Len(u) + 1 |-> IF i = Len(u) + 1 THEN t.net ELSE u[i]]
      BY ONLY <3>1, AppendIs
    <3> QED BY <3>2, <3>3
  <2>3. \A i \in 1 .. Len(s) + 1 :
          a[i].net = IF i = Len(s) + 1 THEN t.net ELSE NetsOf(s)[i]
    BY <1>1, <1>3 DEF a, NetsOf
  <2> QED BY <2>1, <2>2, <2>3
<1>6. RealizedOf(a, d) = Append(RealizedOf(s, d), x)
  <2>1. RealizedOf(a, d) =
          [i \in 1 .. Len(s) + 1 |-> RealizedBy(a[i], d)]
    BY <1>3 DEF a, RealizedOf
  <2>2. Append(RealizedOf(s, d), x) =
          [i \in 1 .. Len(s) + 1 |-> IF i = Len(s) + 1 THEN x ELSE RealizedOf(s, d)[i]]
    <3>1. PICK u \in Seq(Int) : u = RealizedOf(s, d) /\ Len(u) = Len(s)
      BY <1>2
    <3>2. Append(u, x) = [i \in 1 .. Len(u) + 1 |-> IF i = Len(u) + 1 THEN x ELSE u[i]]
      BY <1>4, AppendIs
    <3> QED BY <3>1, <3>2
  <2>3. \A i \in 1 .. Len(s) + 1 :
          RealizedBy(a[i], d) = IF i = Len(s) + 1 THEN x ELSE RealizedOf(s, d)[i]
    BY <1>1, <1>3 DEF a, x, RealizedOf
  <2> QED BY <2>1, <2>2, <2>3
<1> QED BY <1>2, <1>4, <1>5, <1>6 DEF a, x

\* The curve of a longer account is the old one, and the equity after the new
\* trade.
LEMMA CurveGrows ==
  ASSUME EngineInv, NEW t \in Trades, Records(t), NEW L \in Nat, L = Len(trades),
         equity = CurveAt(L)
  PROVE  /\ Len(trades') = L + 1
         /\ \A n \in 0 .. L : CurveAt(n) \in Int /\ CurveAt(n)' = CurveAt(n)
         /\ equity' \in Int /\ CurveAt(L + 1)' = equity'
<1>1. trades \in Seq(Trades) /\ trades' = Append(trades, t) /\ equity' = equity + t.net
      /\ equity \in Int /\ t.net \in Int
  BY DEF EngineInv, TypeOK, Records, Trades
<1> DEFINE p == PartialSums(Nets)
           q == PartialSums(Nets')
<1>2. /\ Nets \in Seq(Int) /\ Len(Nets) = L
      /\ Nets' = Append(Nets, t.net)
  BY <1>1, ColumnsAppend DEF NetsOf, Nets
<1>3. (\A n \in 0 .. L : q[n] = p[n]) /\ q[L + 1] = p[L] + t.net
  BY <1>1, <1>2, PartialSumsAppend DEF Total
<1>4. p \in [0 .. L -> Int]
  BY <1>2, PartialSumsDefinition
<1>5. /\ \A n \in 0 .. L : CurveAt(n) = Capital + p[n] /\ CurveAt(n)' = Capital + q[n]
      /\ CurveAt(L + 1)' = Capital + q[L + 1]
  BY DEF CurveAt
<1> HIDE DEF p, q
<1>6. Capital \in Int /\ L \in 0 .. L /\ Len(trades') = L + 1
  BY <1>1, EngineAssumption
<1>7. \A n \in 0 .. L : CurveAt(n) \in Int /\ CurveAt(n)' = CurveAt(n)
  <2> SUFFICES ASSUME NEW n \in 0 .. L PROVE CurveAt(n) \in Int /\ CurveAt(n)' = CurveAt(n)
    OBVIOUS
  <2>1. p[n] \in Int /\ q[n] = p[n]
    BY <1>3, <1>4
  <2> QED BY <1>5, <1>6, <2>1
<1>8. CurveAt(L + 1)' = equity'
  <2>1. p[L] \in Int /\ equity = Capital + p[L]
    BY <1>4, <1>5, <1>6
  <2> QED BY <1>1, <1>3, <1>5, <1>6, <2>1
<1> QED BY <1>1, <1>6, <1>7, <1>8

LEMMA CurveInit == Init => CurveInv
<1> SUFFICES ASSUME Init PROVE CurveInv
  OBVIOUS
<1>1. Nets = <<>> /\ Nets \in Seq(Int) /\ Len(Nets) = 0 /\ Len(trades) = 0
  BY DEF Init, Nets
<1>2. CurveAt(0) = Capital /\ Capital \in Int /\ Capital > 0
  <2>1. PartialSums(Nets)[0] = 0
    BY <1>1, PartialSumsDefinition
  <2> QED BY <2>1, EngineAssumption DEF CurveAt
<1>3. CurveUpTo(0) = {Capital}
  BY <1>2 DEF CurveUpTo
<1>4. Tops(Capital, CurveUpTo(0))
  BY <1>2, <1>3 DEF Tops
<1>5. PeakAt(0) = Capital
  BY <1>4, TopsIsMax DEF PeakAt
<1>6. DrawdownAt(Capital, Capital) = 0
  BY <1>2 DEF DrawdownAt
<1>7. Drawdowns = {0}
  BY <1>1, <1>2, <1>5, <1>6 DEF Drawdowns
<1> QED BY <1>1, <1>2, <1>4, <1>7 DEF Init, CurveInv, Tops

LEMMA CurveNext == EngineInv /\ CurveInv /\ [Next]_vars => CurveInv'
<1> SUFFICES ASSUME EngineInv, CurveInv, [Next]_vars PROVE CurveInv'
  OBVIOUS
<1>1. CASE Opens \/ Carries
  <2>1. UNCHANGED <<trades, equity, peak, drawdown>>
    BY <1>1 DEF Opens, Carries, money
  <2> QED BY <2>1 DEF CurveInv, CurveAt, CurveUpTo, PeakAt, Drawdowns, Nets
<1>2. CASE \E t \in Trades : Records(t)
  <2>1. PICK t \in Trades : Records(t)
    BY <1>2
  <2>0. PICK L \in Nat : L = Len(trades)
    BY DEF EngineInv, TypeOK
  <2>2. /\ equity = CurveAt(L) /\ Tops(peak, CurveUpTo(L)) /\ Tops(drawdown, Drawdowns)
    BY <2>0 DEF CurveInv
  <2>3. /\ Len(trades') = L + 1
        /\ \A n \in 0 .. L : CurveAt(n) \in Int /\ CurveAt(n)' = CurveAt(n)
        /\ equity' \in Int /\ CurveAt(L + 1)' = equity'
    BY <2>0, <2>1, <2>2, CurveGrows
  <2>4. peak' = Greater(peak, equity') /\ drawdown' = Greater(drawdown, DrawdownAt(peak', equity'))
    BY <2>1 DEF Records
  <2>5. ASSUME NEW n \in 0 .. L PROVE CurveUpTo(n)' = CurveUpTo(n)
    <3>1. \A m \in 0 .. n : m \in 0 .. L
      BY <2>3
    <3>2. \A m \in 0 .. n : CurveAt(m)' = CurveAt(m)
      BY <2>3, <3>1
    <3>3. CurveUpTo(n)' = {CurveAt(m)' : m \in 0 .. n} /\ CurveUpTo(n) = {CurveAt(m) : m \in 0 .. n}
      BY DEF CurveUpTo
    <3> QED BY <3>2, <3>3
  <2>6. CurveUpTo(L + 1)' = CurveUpTo(L) \union {equity'}
    <3>1. 0 .. L + 1 = (0 .. L) \union {L + 1}
      BY <2>3
    <3>2. CurveUpTo(L + 1)' = {CurveAt(m)' : m \in 0 .. L + 1} /\ CurveUpTo(L) = {CurveAt(m) : m \in 0 .. L}
      BY DEF CurveUpTo
    <3> QED BY <2>3, <3>1, <3>2
  <2>7. Tops(peak', CurveUpTo(L + 1)')
    BY <2>2, <2>3, <2>4, <2>6, TopsAdd
  <2>8. PeakAt(L + 1)' = peak'
    BY <2>7, TopsIsMax DEF PeakAt
  <2>9. \A n \in 0 .. L : PeakAt(n)' = PeakAt(n)
    BY <2>5 DEF PeakAt
  <2>10. Drawdowns' = Drawdowns \union {DrawdownAt(peak', equity')}
    <3>1. 0 .. L + 1 = (0 .. L) \union {L + 1}
      BY <2>3
    <3>2. /\ Drawdowns' = {DrawdownAt(PeakAt(n)', CurveAt(n)') : n \in 0 .. L + 1}
          /\ Drawdowns = {DrawdownAt(PeakAt(n), CurveAt(n)) : n \in 0 .. L}
      BY <2>0, <2>3 DEF Drawdowns, DrawdownAt
    <3>3. \A n \in 0 .. L : DrawdownAt(PeakAt(n)', CurveAt(n)') = DrawdownAt(PeakAt(n), CurveAt(n))
      BY <2>3, <2>9
    <3>4. DrawdownAt(PeakAt(L + 1)', CurveAt(L + 1)') = DrawdownAt(peak', equity')
      BY <2>3, <2>8
    <3> QED BY <3>1, <3>2, <3>3, <3>4
  <2>11. DrawdownAt(peak', equity') \in Int
    <3>1. peak' \in Int
      BY <2>7 DEF Tops
    <3> QED BY <2>3, <3>1, DrawdownIsInt
  <2>12. Tops(drawdown', Drawdowns')
    BY <2>2, <2>4, <2>10, <2>11, TopsAdd
  <2> QED BY <2>3, <2>7, <2>12 DEF CurveInv
<1> QED BY <1>1, <1>2, StepKinds

\* The inductive invariant of the curve.
THEOREM CurveInvariant == Spec => []CurveInv
BY EngineInvariant, CurveInit, CurveNext, PTL DEF Spec

\* For every sequence of trades, the equity, the peak and the worst drawdown
\* that the account keeps (_close, lines 442 to 448) are those of the curve
\* that the trades draw.
THEOREM CurveIsReplayed == Spec => []CurveReplays
<1>1. CurveInv => CurveReplays
  BY TopsIsMax DEF CurveInv, CurveReplays, PeakAt
<1> QED BY <1>1, CurveInvariant, PTL

-----------------------------------------------------------------------------
(***************************************************************************)
(* No position is opened beyond the daily limits.                          *)
(***************************************************************************)

\* Days do not go back.
LEMMA DaysAreOrdered ==
  ASSUME NEW s \in Nat, NEW t \in Nat, s <= t
  PROVE  Day(s) \in Nat /\ Day(s) <= Day(t)
<1>1. \A n \in Nat, k \in Nat \ {0} : (n \div k) \in Nat /\ k * (n \div k) <= n /\ n < k * (n \div k) + k
  BY SMT
<1> DEFINE k == DayLength
           a == s \div k
           b == t \div k
<1>2. /\ a \in Nat /\ b \in Nat /\ k \in Nat \ {0}
      /\ k * a <= s /\ t < k * b + k
  BY <1>1, LedgerAssumption
<1> HIDE DEF k, a, b
<1>3. k * a < k * (b + 1)
  <2>1. k * (b + 1) = k * b + k /\ k * a \in Nat /\ k * b \in Nat
    BY <1>2
  <2> QED BY <1>2, <2>1
<1>4. \A x, y \in Nat : k * x < k * y => x < y
  BY <1>2, SMT
<1>5. a < b + 1
  BY <1>2, <1>3, <1>4
<1> QED BY <1>2, <1>5 DEF a, b, k, Day

\* The first exits of a longer account realize what they did.
LEMMA RealizedGrows ==
  ASSUME EngineInv, NEW t \in Trades, Records(t), NEW L \in Nat, L = Len(trades),
         NEW d, NEW n \in 0 .. L
  PROVE  InsideLimits(d, n)' <=> InsideLimits(d, n)
<1>1. trades \in Seq(Trades) /\ trades' = Append(trades, t) /\ dayStart' = dayStart
  BY DEF EngineInv, TypeOK, Records, day
<1> DEFINE x == RealizedBy(t, d)
<1>2. /\ RealizedOn(d) \in Seq(Int) /\ Len(RealizedOn(d)) = L /\ x \in Int
      /\ RealizedOn(d)' = Append(RealizedOn(d), x)
  <2>1. RealizedOn(d) = RealizedOf(trades, d) /\ RealizedOn(d)' = RealizedOf(trades', d)
    BY DEF RealizedOf, RealizedBy, RealizedOn
  <2>2. /\ RealizedOf(trades, d) \in Seq(Int) /\ Len(RealizedOf(trades, d)) = Len(trades)
        /\ x \in Int
        /\ RealizedOf(Append(trades, t), d) = Append(RealizedOf(trades, d), x)
    BY <1>1, ColumnsAppend
  <2> HIDE DEF x
  <2> QED BY <1>1, <2>1, <2>2
<1> HIDE DEF x
<1>3. PartialSums(RealizedOn(d)')[n] = PartialSums(RealizedOn(d))[n]
  BY <1>2, PartialSumsAppend
<1> QED BY <1>1, <1>3 DEF InsideLimits

\* A baseline, once recorded, stays; a new one is the equity of this instant.
LEMMA BaselineStays ==
  ASSUME EngineInv, NEW d \in Days
  PROVE  /\ dayStart[d] # None => WithBaseline[d] = dayStart[d]
         /\ WithBaseline[d] = dayStart[d] \/ (d = Day(now) /\ WithBaseline[d] = equity)
         /\ WithBaseline[Day(now)] # None
<1>1. Day(now) \in Days /\ dayStart \in [Days -> Int \union {None}] /\ equity \in Int
  BY DayOfNow DEF EngineInv, TypeOK
<1> QED BY <1>1, NoneAssumption DEF WithBaseline

\* The days of a position's and of a trade's entry are days.
LEMMA EntriesOnDays ==
  ASSUME EngineInv
  PROVE  /\ position # None => Day(position.entry) \in Days
         /\ \A i \in DOMAIN trades : trades[i].exit \in Times /\ Day(trades[i].entry) \in Days
         /\ now \in Nat /\ Day(now) \in Days /\ Times \subseteq Nat
<1>1. position # None => position.entry \in Times
  BY DEF EngineInv, TypeOK, Positions
<1>2. \A i \in DOMAIN trades : trades[i] \in Trades
  BY DEF EngineInv, TypeOK
<1>3. \A t \in Trades : t.exit \in Times /\ t.entry \in Times
  BY DEF Trades
<1>4. now \in Times /\ Times \subseteq Nat
  BY DEF EngineInv, TypeOK, Times
<1> QED BY <1>1, <1>2, <1>3, <1>4 DEF Days

\* The baselines after a step that may record one.
LEMMA BaselinesKeep ==
  ASSUME EngineInv, CurveInv, BaselinesInv, EntriesInsideDailyLimits,
         trades' = trades, now \in Nat, now' \in Nat, now <= now',
         \/ dayStart' = dayStart
         \/ now' = now /\ dayStart' = WithBaseline
  PROVE  /\ \A d \in Days : dayStart[d] # None => dayStart'[d] = dayStart[d]
         /\ \A i \in DOMAIN trades' :
               /\ dayStart'[Day(trades'[i].entry)] # None /\ trades'[i].exit <= now'
               /\ InsideLimits(Day(trades[i].entry), i - 1)'
         /\ \A d \in Days : dayStart'[d] # None =>
               d <= Day(now') /\ (\E n \in 0 .. Len(trades) : HadOn(d, n) /\ dayStart[d] = CurveAt(n))'
<1>1. \A d \in Days : dayStart[d] # None => dayStart'[d] = dayStart[d]
  BY BaselineStays
<1>2. ASSUME NEW i \in DOMAIN trades'
      PROVE  /\ dayStart'[Day(trades'[i].entry)] # None /\ trades'[i].exit <= now'
             /\ InsideLimits(Day(trades[i].entry), i - 1)'
  <2>1. /\ dayStart[Day(trades[i].entry)] # None /\ trades[i].exit <= now
        /\ Day(trades[i].entry) \in Days /\ trades[i].exit \in Nat
    BY EntriesOnDays DEF BaselinesInv
  <2>2. dayStart'[Day(trades[i].entry)] = dayStart[Day(trades[i].entry)]
    BY <1>1, <2>1
  <2>3. InsideLimits(Day(trades[i].entry), i - 1)
    BY DEF EntriesInsideDailyLimits
  <2>4. InsideLimits(Day(trades[i].entry), i - 1)'
    BY <2>2, <2>3 DEF InsideLimits, RealizedOn
  <2>5. trades[i].exit <= now'
    BY <2>1
  <2> QED BY <2>1, <2>2, <2>4, <2>5
<1>3. ASSUME NEW d \in Days, dayStart'[d] # None
      PROVE  /\ d <= Day(now')
             /\ (\E n \in 0 .. Len(trades) : HadOn(d, n) /\ dayStart[d] = CurveAt(n))'
  <2>1. PICK n \in 0 .. Len(trades) : HadOn(d, n) /\ dayStart'[d] = CurveAt(n) /\ d <= Day(now)
    <3>1. CASE dayStart[d] # None
      <4>1. PICK n \in 0 .. Len(trades) : HadOn(d, n) /\ dayStart[d] = CurveAt(n)
        BY <3>1 DEF EntriesInsideDailyLimits
      <4> QED BY <1>1, <3>1, <4>1 DEF BaselinesInv
    <3>2. CASE dayStart[d] = None
      <4>1. d = Day(now) /\ dayStart'[d] = equity /\ Day(now) \in Nat
        BY <1>3, <3>2, BaselineStays, DaysAreOrdered
      <4>2. equity = CurveAt(Len(trades)) /\ Len(trades) \in Nat
        BY DEF CurveInv, EngineInv, TypeOK
      <4>3. \A i \in 1 .. Len(trades) : Day(trades[i].exit) <= d
        <5> SUFFICES ASSUME NEW i \in 1 .. Len(trades) PROVE Day(trades[i].exit) <= d
          OBVIOUS
        <5>1. i \in DOMAIN trades
          BY DEF EngineInv, TypeOK
        <5>2. trades[i].exit <= now /\ trades[i].exit \in Nat
          BY <5>1, EntriesOnDays DEF BaselinesInv
        <5> QED BY <4>1, <5>2, DaysAreOrdered
      <4>4. HadOn(d, Len(trades))
        BY <4>2, <4>3 DEF HadOn
      <4> QED BY <4>1, <4>2, <4>4
    <3> QED BY <3>1, <3>2
  <2>2. HadOn(d, n)' /\ CurveAt(n)' = CurveAt(n) /\ n \in 0 .. Len(trades')
    BY <2>1 DEF HadOn, CurveAt, Nets
  <2>3. d \in Nat /\ d <= Day(now')
    <3>1. d \in Nat
      BY LedgerAssumption, DaysAreOrdered DEF Days, Times
    <3>2. Day(now) \in Nat /\ Day(now') \in Nat /\ Day(now) <= Day(now')
      BY DaysAreOrdered
    <3> QED BY <2>1, <3>1, <3>2
  <2> QED BY <2>1, <2>2, <2>3
<1> QED BY <1>1, <1>2, <1>3

EntryInv == BaselinesInv /\ EntriesInsideDailyLimits

LEMMA EntryInit == Init => EntryInv
<1> SUFFICES ASSUME Init PROVE EntryInv
  OBVIOUS
<1>1. DOMAIN trades = {} /\ position = None /\ \A d \in Days : dayStart[d] = None
  BY DEF Init
<1> QED BY <1>1 DEF EntryInv, BaselinesInv, EntriesInsideDailyLimits

LEMMA EntryNext == EngineInv /\ CurveInv /\ EntryInv /\ [Next]_vars => EntryInv'
<1> SUFFICES ASSUME EngineInv, CurveInv, BaselinesInv, EntriesInsideDailyLimits, [Next]_vars
             PROVE  EntryInv'
  BY DEF EntryInv
<1>1. now \in Nat /\ trades \in Seq(Trades)
  BY EntriesOnDays DEF EngineInv, TypeOK
<1>2. CASE Carries
  <2>1. /\ trades' = trades /\ now' \in Nat /\ now <= now'
        /\ (dayStart' = dayStart \/ (now' = now /\ dayStart' = WithBaseline))
    BY <1>1, <1>2, LedgerAssumption DEF Carries, money
  <2>2. /\ \A d \in Days : dayStart[d] # None => dayStart'[d] = dayStart[d]
        /\ \A i \in DOMAIN trades' :
              /\ dayStart'[Day(trades'[i].entry)] # None /\ trades'[i].exit <= now'
              /\ InsideLimits(Day(trades[i].entry), i - 1)'
        /\ \A d \in Days : dayStart'[d] # None =>
              d <= Day(now') /\ (\E n \in 0 .. Len(trades) : HadOn(d, n) /\ dayStart[d] = CurveAt(n))'
    BY <1>1, <2>1, BaselinesKeep
  <2>3. ASSUME position' # None
        PROVE  dayStart'[Day(position'.entry)] # None /\ InsideLimits(Day(position.entry), Len(trades))'
    <3>1. position # None /\ position'.entry = position.entry
      BY <1>2, <2>3 DEF Carries
    <3>2. dayStart[Day(position.entry)] # None /\ Day(position.entry) \in Days
      BY <3>1, EntriesOnDays DEF BaselinesInv
    <3>3. InsideLimits(Day(position.entry), Len(trades))
      BY <3>1 DEF EntriesInsideDailyLimits
    <3> QED BY <2>1, <2>2, <3>1, <3>2, <3>3 DEF InsideLimits, RealizedOn
  <2> QED BY <2>2, <2>3 DEF EntryInv, BaselinesInv, EntriesInsideDailyLimits
<1>3. CASE Opens
  <2>1. trades' = trades /\ now' = now /\ dayStart' = WithBaseline /\ now <= now'
    BY <1>1, <1>3 DEF Opens, money
  <2>2. /\ \A i \in DOMAIN trades' :
              /\ dayStart'[Day(trades'[i].entry)] # None /\ trades'[i].exit <= now'
              /\ InsideLimits(Day(trades[i].entry), i - 1)'
        /\ \A d \in Days : dayStart'[d] # None =>
              d <= Day(now') /\ (\E n \in 0 .. Len(trades) : HadOn(d, n) /\ dayStart[d] = CurveAt(n))'
    BY <1>1, <2>1, BaselinesKeep
  <2>3. dayStart'[Day(position'.entry)] # None /\ InsideLimits(Day(position.entry), Len(trades))'
    <3>1. position'.entry = now /\ DailyEnabled
      BY <1>3 DEF Opens
    <3>2. WithBaseline[Day(now)] # None
      BY BaselineStays, EntriesOnDays
    <3>3. Total(RealizedOn(Day(now))) = PartialSums(RealizedOn(Day(now)))[Len(trades)]
      <4>1. Len(RealizedOn(Day(now))) = Len(trades)
        BY <1>1 DEF RealizedOn
      <4> QED BY <4>1 DEF Total
    <3>4. RealizedOn(Day(now))' = RealizedOn(Day(now))
      BY <2>1 DEF RealizedOn
    <3>5. InsideLimits(Day(position.entry), Len(trades))' <=>
            (WithBaseline[Day(now)] > 0 =>
               LET realized == PartialSums(RealizedOn(Day(now)))[Len(trades)]
               IN -WithBaseline[Day(now)] < 100 * realized /\ 100 * realized < WithBaseline[Day(now)])
      BY <2>1, <3>1, <3>4 DEF InsideLimits, RealizedOn
    <3> QED BY <2>1, <3>1, <3>2, <3>3, <3>5 DEF DailyEnabled, DailyRealized
  <2> QED BY <2>2, <2>3 DEF EntryInv, BaselinesInv, EntriesInsideDailyLimits
<1>4. CASE \E t \in Trades : Records(t)
  <2>1. PICK t \in Trades : Records(t)
    BY <1>4
  <2>2. PICK L \in Nat : L = Len(trades)
    BY <1>1
  <2>3. /\ trades' = Append(trades, t) /\ Len(trades') = L + 1
        /\ dayStart' = dayStart /\ now' = now /\ position' = None /\ position # None
        /\ t.exit = now /\ t.entry = position.entry
    BY <1>1, <2>1, <2>2 DEF Records, day
  <2>4. /\ DOMAIN trades = 1 .. L /\ DOMAIN trades' = 1 .. L + 1
        /\ trades'[L + 1] = t /\ \A i \in 1 .. L : trades'[i] = trades[i]
    BY <1>1, <2>2, <2>3
  <2>5. ASSUME NEW i \in DOMAIN trades'
        PROVE  /\ dayStart'[Day(trades'[i].entry)] # None /\ trades'[i].exit <= now'
               /\ InsideLimits(Day(trades[i].entry), i - 1)'
    <3>1. CASE i \in 1 .. L
      <4>1. /\ dayStart[Day(trades[i].entry)] # None /\ trades[i].exit <= now
            /\ InsideLimits(Day(trades[i].entry), i - 1) /\ trades'[i] = trades[i]
        BY <2>4, <3>1 DEF BaselinesInv, EntriesInsideDailyLimits
      <4>2. PICK d : d = Day(trades[i].entry)
        OBVIOUS
      <4>3. PICK n \in 0 .. L : n = i - 1
        BY <3>1
      <4>4. InsideLimits(d, n)'
        BY <2>1, <2>2, <4>1, <4>2, <4>3, RealizedGrows
      <4>5. InsideLimits(d, n)' <=> InsideLimits(Day(trades[i].entry), i - 1)'
        BY <4>1, <4>2, <4>3
      <4> QED BY <2>3, <4>1, <4>4, <4>5
    <3>2. CASE i = L + 1
      <4>1. /\ dayStart[Day(position.entry)] # None /\ trades'[i] = t
            /\ InsideLimits(Day(position.entry), L)
        BY <2>2, <2>3, <2>4, <3>2 DEF BaselinesInv, EntriesInsideDailyLimits
      <4>2. PICK d : d = Day(position.entry)
        OBVIOUS
      <4>3. InsideLimits(d, L)'
        BY <2>1, <2>2, <4>1, <4>2, RealizedGrows
      <4>4. i - 1 = L /\ Day(trades'[i].entry) = d
        BY <2>3, <3>2, <4>1, <4>2
      <4>5. InsideLimits(d, L)' <=> InsideLimits(Day(trades[i].entry), i - 1)'
        BY <4>4
      <4> QED BY <1>1, <2>3, <4>1, <4>2, <4>3, <4>4, <4>5
    <3> QED BY <2>4, <3>1, <3>2
  <2>6. ASSUME NEW d \in Days, dayStart'[d] # None
        PROVE  /\ d <= Day(now')
               /\ (\E n \in 0 .. Len(trades) : HadOn(d, n) /\ dayStart[d] = CurveAt(n))'
    <3>1. PICK n \in 0 .. L : HadOn(d, n) /\ dayStart[d] = CurveAt(n) /\ d <= Day(now)
      BY <2>2, <2>3, <2>6 DEF EntriesInsideDailyLimits, BaselinesInv
    <3>2. CurveAt(n)' = CurveAt(n) /\ n \in 0 .. Len(trades')
      <4>1. equity = CurveAt(L)
        BY <2>2 DEF CurveInv
      <4> QED BY <2>1, <2>2, <2>3, <4>1, CurveGrows
    <3>3. HadOn(d, n)'
      <4>1. \A i \in 1 .. n : Day(trades'[i].exit) <= d
        BY <2>4, <3>1 DEF HadOn
      <4>2. d \in Nat /\ Day(now) \in Nat
        BY <1>1, LedgerAssumption, DaysAreOrdered DEF Days, Times
      <4>3. \A i \in n + 1 .. L + 1 : Day(trades'[i].exit) >= d
        <5> SUFFICES ASSUME NEW i \in n + 1 .. L + 1 PROVE Day(trades'[i].exit) >= d
          OBVIOUS
        <5>1. CASE i = L + 1
          BY <2>3, <2>4, <3>1, <4>2, <5>1
        <5>2. CASE i \in n + 1 .. L
          <6>1. i \in 1 .. L /\ Day(trades[i].exit) >= d
            BY <2>2, <3>1, <5>2 DEF HadOn
          <6> QED BY <2>4, <6>1
        <5> QED BY <3>1, <5>1, <5>2
      <4> QED BY <2>3, <4>1, <4>3 DEF HadOn
    <3> QED BY <2>3, <3>1, <3>2, <3>3
  <2> QED BY <2>3, <2>5, <2>6 DEF EntryInv, BaselinesInv, EntriesInsideDailyLimits
<1> QED BY <1>2, <1>3, <1>4, StepKinds

\* For every stream of quotes and every sizing: once one percent of the day's
\* baseline has been gained or lost by the exits of that day, _daily_enabled
\* (lines 381 to 388) lets no position open on it, and the baseline is an
\* equity that the account had on that day.
THEOREM EntriesStayInsideLimits == Spec => []EntriesInsideDailyLimits
<1>1. EntryInv => EntriesInsideDailyLimits
  BY DEF EntryInv
<1> QED BY <1>1, EngineInvariant, CurveInvariant, EntryInit, EntryNext, PTL DEF Spec

-----------------------------------------------------------------------------
(***************************************************************************)
(* The engine implements PaperLedger.                                      *)
(***************************************************************************)

\* The closed round trip that a trade stands for.
RoundTrip(t) == [signal |-> t.signal, entry |-> t.entry, exit |-> t.exit]

\* An account whose position, trades, last exit and entries do not change
\* looks the same to the ledger; so does one whose position changes only in
\* its excursions.
LEMMA ViewUnchanged ==
  ASSUME trades' = trades, lastExit' = lastExit, dayEntries' = dayEntries,
         \/ position' = position
         \/ /\ position # None /\ position' # None
            /\ position'.signal = position.signal /\ position'.entry = position.entry
  PROVE  LedgerView' = LedgerView
BY DEF LedgerView

\* Whatever closes the position, the ledger sees an exit at this instant.
LEMMA CloseIsExit ==
  ASSUME EngineInv, position # None,
         NEW pos \in Positions, NEW book, NEW reason,
         pos.signal = position.signal, pos.entry = position.entry,
         CloseWith(pos, book, reason), dayEntries' = dayEntries, now' = now
  PROVE  Abstract!Close
<1> DEFINE t == TradeOf(pos, book, reason)
           trip == RoundTrip(t)
<1>1. trades' = Append(trades, t) /\ position' = None /\ lastExit' = now
  BY DEF CloseWith
<1>2. trades \in Seq(Trades)
  BY DEF EngineInv, TypeOK
<1>3. trip = Abstract!Closed(LedgerView.open, now)
  BY DEF RoundTrip, TradeOf, LedgerView, Abstract!Closed
<1> HIDE DEF t
<1>4. LedgerView'.done = LedgerView.done \union {trip}
  <2>1. DOMAIN trades' = DOMAIN trades \union {Len(trades) + 1}
    BY <1>1, <1>2
  <2>2. \A i \in DOMAIN trades : trades'[i] = trades[i]
    BY <1>1, <1>2
  <2>3. trades'[Len(trades) + 1] = t
    BY <1>1, <1>2
  <2>4. LedgerView'.done = {RoundTrip(trades'[i]) : i \in DOMAIN trades'}
    BY DEF LedgerView, RoundTrip
  <2>5. LedgerView.done = {RoundTrip(trades[i]) : i \in DOMAIN trades}
    BY DEF LedgerView, RoundTrip
  <2> HIDE DEF trip
  <2>6. trip = RoundTrip(t)
    BY DEF trip
  <2> QED
    BY <2>1, <2>2, <2>3, <2>4, <2>5, <2>6
<1> HIDE DEF trip
<1>5. /\ LedgerView'.open = None
      /\ LedgerView'.lastExit = now
      /\ LedgerView'.entries = LedgerView.entries
      /\ LedgerView' = [open |-> LedgerView'.open, done |-> LedgerView'.done,
                        lastExit |-> LedgerView'.lastExit, entries |-> LedgerView'.entries]
  BY <1>1 DEF LedgerView
<1>6. Abstract!Exit(LedgerView, now) =
        [open |-> None, done |-> LedgerView.done \union {trip}, lastExit |-> now,
         entries |-> LedgerView.entries]
  BY <1>3 DEF Abstract!Exit
<1>7. LedgerView.open # None
  <2> DEFINE o == [signal |-> position.signal, entry |-> position.entry]
  <2>1. position.signal \in Times /\ position.entry \in Times
    BY DEF EngineInv, TypeOK, Positions
  <2>2. o \in OpenOrders
    BY <2>1 DEF OpenOrders
  <2>3. LedgerView.open = o
    BY DEF LedgerView
  <2> HIDE DEF o
  <2> QED
    BY <2>2, <2>3, NoneAssumption
<1> QED
  BY <1>4, <1>5, <1>6, <1>7 DEF Abstract!Close

\* An entry of the engine is one the ledger allows.
LEMMA EnterIsOpen ==
  ASSUME EngineInv, phase = "marked", now' = now, NEW e \in Evaluations, EnterOn(e)
  PROVE  Abstract!Open
<1>1. /\ position = None
      /\ dayEntries[Day(now)] < MaxEntries
      /\ lastExit # None => now >= lastExit + Cooldown
      /\ dayEntries' = [dayEntries EXCEPT ![Day(now)] = @ + 1]
      /\ trades' = trades /\ lastExit' = lastExit
  BY DEF EnterOn, Admitted, DailyEnabled, money
<1>2. e.signal \in Symbols /\ books \in [Symbols -> Books] /\ now \in Times
  BY DEF EngineInv, TypeOK, EnterOn, Admitted, Evaluations
<1>3. PICK s \in Signals(now), sizing \in Sizings :
        position' = PositionAt(s, e.signal, books[e.signal], sizing)
  BY DEF EnterOn
<1>4. s \in Times /\ s \in 0 .. now
  BY <1>2, LedgerAssumption DEF Signals, Times
<1>5. position' \in Positions /\ position'.signal = s /\ position'.entry = now
  BY <1>2, <1>3, <1>4, PositionIsSound DEF EngineInv
<1>6. position' # None
  BY <1>5, PositionsAssumption
<1>7. Abstract!CanEnter(LedgerView, now)
  BY <1>1 DEF LedgerView, Abstract!CanEnter, Abstract!CooledDown, Abstract!Day, Day
<1>8. LedgerView' = Abstract!Enter(LedgerView, s, now)
  <2>1. LedgerView' = [open |-> [signal |-> s, entry |-> now], done |-> LedgerView.done,
                       lastExit |-> LedgerView.lastExit, entries |-> dayEntries']
    BY <1>1, <1>5, <1>6 DEF LedgerView
  <2> QED
    BY <1>1, <2>1 DEF Abstract!Enter, Abstract!Day, Day, LedgerView
<1> QED
  BY <1>4, <1>7, <1>8 DEF Abstract!Open

LEMMA EngineInitSimulates == Init => Abstract!Init
<1> SUFFICES ASSUME Init PROVE Abstract!Init
  OBVIOUS
<1> USE DEF Init
<1>1. now \in Abstract!Times
  BY LedgerAssumption DEF Abstract!Times
<1>2. LedgerView = [open |-> None, done |-> {}, lastExit |-> None, entries |-> dayEntries]
  <2>1. DOMAIN trades = {}
    OBVIOUS
  <2>2. LedgerView.done = {}
    BY <2>1 DEF LedgerView
  <2> QED
    BY <2>2 DEF LedgerView
<1>3. dayEntries = [d \in Abstract!Days |-> 0]
  BY DEF Abstract!Days, Abstract!Day, Abstract!Times, Days, Day, Times
<1> QED
  BY <1>1, <1>2, <1>3 DEF Abstract!Init, Abstract!EmptyLedger

\* Waiting is a step of the ledger's clock; mark and process_signal are an
\* exit, an entry, or nothing.
LEMMA EngineStepSimulates ==
  ASSUME EngineInv, [Next]_vars
  PROVE  [Abstract!Next]_(Abstract!vars)
<1> USE DEF EngineInv, Abstract!vars
<1>1. CASE Tick
  <2>1. LedgerView' = LedgerView
    BY <1>1, ViewUnchanged DEF Tick, money, day
  <2> QED
    BY <1>1, <2>1 DEF Tick, Abstract!Next, Abstract!Tick
<1>2. CASE Mark
  <2>1. now' = now /\ dayEntries' = dayEntries
    BY <1>2 DEF Mark, day
  <2>2. CASE position = None
    BY <1>2, <2>1, <2>2, ViewUnchanged DEF Mark, money
  <2>3. CASE position # None
    <3> DEFINE book == books'[position.symbol]
               pos == Marked(book)
    <3>1. position \in Positions /\ book \in Books
      BY <1>2, <2>3 DEF TypeOK, Mark, Positions
    <3>2. Mid2(book) \in Int
      BY <3>1, BookTypes
    <3>3. pos \in Positions /\ pos.signal = position.signal /\ pos.entry = position.entry
      <4> HIDE DEF book
      <4> QED
        BY <3>1, <3>2 DEF Marked, Positions, Greater, Lesser
    <3>4. MarkPosition(book)
      BY <1>2, <2>3 DEF Mark
    <3>5. CASE ExitReason(book) # None
      <4>1. CloseWith(pos, book, ExitReason(book))
        BY <3>4, <3>5 DEF MarkPosition
      <4> QED
        BY <2>1, <2>3, <3>3, <4>1, CloseIsExit DEF Abstract!Next
    <3>6. CASE ExitReason(book) = None
      <4>1. position' = pos /\ UNCHANGED money
        BY <3>4, <3>6 DEF MarkPosition
      <4>2. position' # None
        BY <3>3, <4>1, PositionsAssumption
      <4> QED
        BY <2>1, <2>3, <3>3, <4>1, <4>2, ViewUnchanged DEF money
    <3> QED
      BY <3>5, <3>6
  <2> QED
    BY <2>2, <2>3
<1>3. CASE Abandon
  BY <1>3, ViewUnchanged DEF Abandon, money, day
<1>4. CASE ProcessSignal
  <2>1. PICK e \in Evaluations : LeaveOn(e) \/ HoldOn(e) \/ EnterOn(e) \/ RefuseOn(e)
    BY <1>4 DEF ProcessSignal
  <2>2. phase = "marked" /\ now' = now
    BY <1>4 DEF ProcessSignal, EndOfCycle
  <2>3. CASE LeaveOn(e)
    <3>1. position # None /\ position \in Positions /\ dayEntries' = dayEntries
      BY <2>3 DEF LeaveOn, TypeOK, day
    <3>2. PICK reason : CloseWith(position, books[position.symbol], reason)
      BY <2>3 DEF LeaveOn
    <3> QED
      BY <2>2, <3>1, <3>2, CloseIsExit DEF Abstract!Next
  <2>4. CASE HoldOn(e) \/ RefuseOn(e)
    BY <2>2, <2>4, ViewUnchanged DEF HoldOn, RefuseOn, money, day
  <2>5. CASE EnterOn(e)
    BY <2>2, <2>5, EnterIsOpen DEF Abstract!Next
  <2> QED
    BY <2>1, <2>3, <2>4, <2>5
<1>5. CASE UNCHANGED vars
  BY <1>5, ViewUnchanged DEF vars, money, day
<1> QED
  BY <1>1, <1>2, <1>3, <1>4, <1>5 DEF Next

\* Every behaviour of the engine is one of the ledger: its entries respect the
\* cool-down and the daily budget, and its exits leave nothing open, for every
\* stream of quotes and evaluations.
THEOREM EngineImplementsLedger == Spec => ImplementsLedger
BY EngineInvariant, EngineInitSimulates, EngineStepSimulates, PTL
   DEF Spec, ImplementsLedger, Abstract!Spec
=============================================================================
