--------------------------- MODULE SpotEconomics ---------------------------
(***************************************************************************)
(* What a Spot trade costs and which pairs are worth one: the filters of   *)
(* the exchange, fees, spread and slippage, the scan of the universe, the  *)
(* low-cost market report of V2, the universe of V3 and the size of a      *)
(* position (binance/filters, costs, universe, opportunity, v2_market,     *)
(* risk_engine).                                                           *)
(*                                                                         *)
(* A rate is a number of parts of which D make a whole, rounded down.  An  *)
(* executed price is counted in 1 / D^2 of a tick and an amount of money   *)
(* in 1 / D^3.                                                             *)
(***************************************************************************)
EXTENDS CrossSection

CONSTANTS
  D,
  RiskFraction,  \* a trade risks 1 / RiskFraction of the equity (500)
  Quotes,        \* quote assets the settings accept
  Preferred,     \* base assets the settings prefer
  Stable,        \* base assets V3 leaves out
  Euro,          \* the quote asset of V1
  Limits         \* [pairs, volume, depth, notional, floor, buffer, fallback,
                 \*  ratio, spread, slippage, euroVolume, euroSpread, euroDepth,
                 \*  top, universe] of the settings and of the protocols, and
                 \*  quantity, the largest one modelled

ASSUME SpotAssumption ==
  /\ D \in Nat \ {0} /\ RiskFraction \in Nat \ {0}
  /\ {Limits.pairs, Limits.top, Limits.universe, Limits.notional, Limits.floor,
      Limits.fallback, Limits.quantity} \subseteq Nat

-----------------------------------------------------------------------------
\* A pair as the exchange shows it: its filters, the levels of its book, its
\* volume and the fees of the account.
Levels == [price : Nat \ {0}, quantity : Nat]
Bid(p) == Head(p.bids).price
Ask(p) == Head(p.asks).price

\* A view of the exchange with an account or without one: what the models use of
\* it; a pair is shown once, with a book that is neither empty nor crossed.
IsPair(p) ==
  /\ p.symbol \in Symbols
  /\ p.bids \in Seq(Levels) \ {<<>>}
  /\ p.asks \in Seq(Levels) \ {<<>>}
  /\ Bid(p) <= Ask(p)
  /\ p.spreads \in Seq(Nat)
  /\ p.taker \in Nat
  /\ p.step \in Nat \ {0}

IsView(v) ==
  /\ v.pairs \in Seq(Range(v.pairs))
  /\ \A p \in Range(v.pairs) : IsPair(p)
  /\ \A p, q \in Range(v.pairs) : p.symbol = q.symbol => p = q
  /\ v.account # None => v.account \in Nat

HalfSpread(bid, ask) == (D * (ask - bid)) \div (ask + bid)
Depth(levels) == Total(Field(levels, LAMBDA l : l.price * l.quantity))

\* What is left to trade, and what has been traded of the other asset.
Walks == [left : Int, other : Int]

\* _book_slippage_pct: both sides of the book walked for a notional; what each
\* way loses on its best price, and whether the book fills it.  A quantity is at
\* least one part.
BookSlippage(p, notional) ==
  LET bought == Scan([left |-> notional, other |-> 0], [i \in DOMAIN p.asks |-> [w \in Walks |->
                  LET take == Min({w.left, p.asks[i].price * p.asks[i].quantity})
                  IN [left |-> w.left - take, other |-> w.other + (D * take) \div p.asks[i].price]]],
                  Len(p.asks))[Len(p.asks)]
      wanted == Max({1, (D * notional) \div Bid(p)})
      sold == Scan([left |-> wanted, other |-> 0], [i \in DOMAIN p.bids |-> [w \in Walks |->
                LET take == Min({w.left, D * p.bids[i].quantity})
                IN [left |-> w.left - take, other |-> w.other + take * p.bids[i].price]]],
                Len(p.bids))[Len(p.bids)]
      buyImpact == IF bought.left = 0 THEN (D * D * notional) \div (Max({1, bought.other}) * Ask(p)) - D
                   ELSE (D * Last(p.asks).price) \div Ask(p) - D
      sellImpact == IF sold.left = 0 THEN D - (D * sold.other) \div (wanted * Bid(p))
                    ELSE D - (D * Last(p.bids).price) \div Bid(p)
  IN [impact |-> Max({buyImpact, 0}) + Max({sellImpact, 0}),
      fills |-> bought.left = 0 /\ sold.left = 0]

\* ceil_to_step
CeilTo(value, step) == ((value + step - 1) \div step) * step

\* minimum_order_quantity
MinimumQuantity(p) ==
  CeilTo(Max({p.minimum, (p.notional + Ask(p) - 1) \div Ask(p)}), p.step)

\* BinanceCostModel.estimate: the cost of a round trip that enters as a taker, or
\* rests and leaves as one.
RoundTripCost(fee, half, slippage, taker) ==
  IF taker THEN 2 * half + Max({slippage, 2 * Limits.floor}) + 2 * fee.taker
  ELSE half + Max({slippage \div 2, Limits.floor}) + fee.maker + fee.taker

\* resolve_fee_schedules: the fees of the account for this pair, those of the
\* account as a whole when the endpoint fails, else those of the settings.
FeeOf(view, p) ==
  CASE view.authenticated /\ view.tradeFees -> [maker |-> p.maker, taker |-> p.taker, own |-> TRUE]
    [] view.authenticated /\ ~view.tradeFees /\ view.account # None ->
         [maker |-> view.account, taker |-> view.account, own |-> TRUE]
    [] OTHER -> [maker |-> Limits.fallback, taker |-> Limits.fallback, own |-> FALSE]

-----------------------------------------------------------------------------
\* LowCostCryptoUniverseScanner.scan: the pairs it looks at, those the settings
\* prefer first, then the most traded ones.
Shortlisted(view) ==
  LET shown == Range(view.pairs)
      liquid == Sorted(Only(view.pairs, {p \in shown : p.trading /\ p.quote \in Quotes
                                                         /\ p.volume >= Limits.volume}),
                       [a, b \in shown |-> a.volume > b.volume])
      first == Only(liquid, {p \in shown : p.base \in Preferred})
      others == Only(liquid, {p \in shown : p.base \notin Preferred})
      room == Max({Limits.pairs - Len(first), 0})
  IN first \o SubSeq(others, 1, Min({room, Len(others)}))

\* What the scan keeps of a pair, and the mode in which a trade would pay.
Candidate(view, p) ==
  LET fee == FeeOf(view, p)
      half == HalfSpread(Bid(p), Ask(p))
      slippage == Max({BookSlippage(p, Limits.notional).impact, 2 * Limits.floor})
      affordable == view.account # None => p.balance >= MinimumQuantity(p) * Ask(p)
      pays == p.move - RoundTripCost(fee, half, slippage, TRUE) > Limits.buffer
  IN [symbol |-> p.symbol, base |-> p.base, quote |-> p.quote, fee |-> fee, half |-> half,
      volume |-> p.volume, bids |-> Depth(p.bids), asks |-> Depth(p.asks),
      minimum |-> p.minimum, step |-> p.step, notional |-> p.notional,
      costs |-> <<RoundTripCost(fee, half, slippage, TRUE), RoundTripCost(fee, half, slippage, FALSE)>>,
      allowed |-> affordable /\ pays]

UniverseScan(view) ==
  LET fillable == Only(Shortlisted(view), {p \in Range(view.pairs) :
        /\ Ask(p) >= Bid(p)
        /\ Min({Depth(p.bids), Depth(p.asks)}) >= Limits.depth
        /\ BookSlippage(p, Limits.notional).fills})
      candidates == Listing([i \in DOMAIN fillable |-> Candidate(view, fillable[i])])
      Ranked(yes) == Only(candidates, {c \in Range(candidates) : c.allowed = yes})
  IN Ranked(TRUE) \o Ranked(FALSE)

\* _qualification_candidates of V1
Qualified(candidates) ==
  Only(candidates, {c \in Range(candidates) :
    /\ c.quote = Euro
    /\ c.volume >= Limits.euroVolume
    /\ 2 * c.half <= Limits.euroSpread
    /\ c.bids >= Limits.euroDepth /\ c.asks >= Limits.euroDepth})

\* The pair of this symbol at the exchange, None when it shows none.
PairOf(view, symbol) ==
  LET found == Only(view.pairs, {p \in Range(view.pairs) : p.symbol = symbol})
  IN IF found = <<>> THEN None ELSE Head(found)

\* _category
Category(liquid, spreadOk, slippageOk, ratio) ==
  CASE liquid /\ spreadOk /\ slippageOk /\ ratio >= Limits.ratio -> "ECONOMICALLY_ATTRACTIVE"
    [] liquid /\ ~(spreadOk /\ slippageOk /\ ratio >= Limits.ratio) /\ ratio >= 150 -> "MARGINAL"
    [] OTHER -> "TOO_EXPENSIVE"

\* One profile of the low-cost market report: the median of the spreads that were
\* sampled, the slippage of the largest notional, and how many times (in
\* hundredths) the movement of the best horizon covers the cost.
Profile(view, c) ==
  LET p == PairOf(view, c.symbol)
      spreads == Append(p.spreads, HalfSpread(Bid(p), Ask(p)))
      half == Median2(spreads) \div 2
      slip == BookSlippage(p, Limits.notional)
      cost == 2 * half + slip.impact + 2 * c.fee.taker
      ratio == (100 * Highest(p.moves)) \div Max({cost, 1})
      liquid == /\ c.volume >= Limits.volume
                /\ Depth(p.bids) >= Limits.depth /\ Depth(p.asks) >= Limits.depth
                /\ slip.fills
  IN [symbol |-> c.symbol, base |-> c.base, quote |-> c.quote, volume |-> c.volume,
      fee |-> c.fee.taker, half |-> half, slip |-> (slip.impact + 1) \div 2, cost |-> cost,
      ratio |-> ratio, liquid |-> liquid,
      category |-> Category(liquid, 2 * Highest(spreads) <= Limits.spread,
                            slip.impact <= Limits.slippage, ratio)]

CategoryOrder == <<"ECONOMICALLY_ATTRACTIVE", "MARGINAL", "TOO_EXPENSIVE">>

\* build_low_cost_market_report: the profiles in the order of the report.
MarketReport(view, candidates) ==
  LET known == Only(candidates, {c \in Range(candidates) : PairOf(view, c.symbol) # None})
      profiles == Listing([i \in DOMAIN known |-> Profile(view, known[i])])
      key(p) == <<Position(CategoryOrder, p.category), -p.ratio, -p.volume,
                  Position(Alphabet, p.symbol)>>
      Smaller(a, b) == \E i \in 1 .. 4 : a[i] < b[i] /\ \A j \in 1 .. i - 1 : a[j] = b[j]
  IN Sorted(profiles, [a, b \in Range(profiles) |-> Smaller(key(a), key(b))])

Attractive(report) ==
  Only(report, {p \in Range(report) : p.category = "ECONOMICALLY_ATTRACTIVE"})

\* selected_top10
Selected(report) == SubSeq(Attractive(report), 1, Min({Limits.top, Len(Attractive(report))}))

\* _dynamic_universe of V3: one attractive pair for each base asset, then the
\* benchmarks.
DynamicUniverse(report) ==
  LET attractive == Attractive(report)
      firsts == {p \in Range(attractive) : p.base \notin Stable /\ \A q \in Range(attractive) :
                   q.base = p.base => Position(attractive, p) <= Position(attractive, q)}
      unique == Only(attractive, firsts)
      Add(chosen, symbol) ==
        IF \E i \in DOMAIN chosen : chosen[i].symbol = symbol THEN chosen
        ELSE chosen \o Only(report, {p \in Range(report) : p.symbol = symbol})
  IN Add(Add(SubSeq(unique, 1, Min({Limits.universe, Len(unique)})), Btc), Eth)

-----------------------------------------------------------------------------
\* What one side of a trade costs in a scenario: [fee, half, slip].
Scenario(costs, stress) ==
  IF stress THEN [fee |-> (3 * costs.fee) \div 2, half |-> 2 * costs.half, slip |-> 3 * costs.slip]
  ELSE costs

Bought(reference, c) == reference * (D + c.half) * (D + c.slip)
Sold(reference, c) == reference * (D - c.half) * (D - c.slip)

\* Fault: the costs of the way out are left out of the loss.
SizeWithoutCosts(equity, bought, stop, outlay, rate, rules) ==
  LET loss == (bought - stop * D * D) * D
      fits == {q \in 0 .. rules.maximum :
                 q % rules.step = 0 /\ q * loss <= equity \div RiskFraction /\ q * outlay <= equity}
  IN IF equity <= 0 \/ stop <= 0 \/ stop * D * D >= bought THEN 0 ELSE Max(fits)

\* BinanceRiskEngine.size: the largest quantity whose estimated loss fits the risk
\* budget and whose outlay fits the cash; 0 when the filters refuse it.  As the
\* quantity is rounded down the limit of 0.35 % can never be exceeded.
SizeOf(equity, bought, stop, outlay, rate, rules) ==
  LET loss == (bought - stop * D * D) * D + bought * rate
      fits == {q \in 0 .. rules.maximum :
                 q % rules.step = 0 /\ q * loss <= equity \div RiskFraction /\ q * outlay <= equity}
      quantity == Max(fits)
  IN IF \/ equity <= 0 \/ stop <= 0 \/ stop * D * D >= bought
        \/ quantity < rules.minimum
        \/ quantity * bought < rules.notional * D * D
     THEN 0
     ELSE quantity

\* Fault: the spread is counted once for the two sides.
TradeWithOneSpread(q, entry, exit, c) ==
  LET commission == q * c.fee * (Bought(entry, c) + Sold(exit, c))
  IN [market |-> q * (exit - entry) * D * D * D,
      spread |-> q * entry * c.half * D * D,
      slippage |-> q * (entry * (D + c.half) + exit * (D - c.half)) * c.slip * D,
      commission |-> commission,
      net |-> q * (Sold(exit, c) - Bought(entry, c)) * D - commission]

\* One round trip of a quantity between two reference prices: what the market
\* gave, what each cost took and what is left (CryptoTrade).
TradeOf(q, entry, exit, c) ==
  LET commission == q * c.fee * (Bought(entry, c) + Sold(exit, c))
  IN [market |-> q * (exit - entry) * D * D * D,
      spread |-> q * (entry + exit) * c.half * D * D,
      slippage |-> q * (entry * (D + c.half) + exit * (D - c.half)) * c.slip * D,
      commission |-> commission,
      net |-> q * (Sold(exit, c) - Bought(entry, c)) * D - commission]

\* EconomicTradeFilter.evaluate: the net edge of a signal at this entry, in
\* hundredths of a percent.
NetEdge(signal, entry, c) ==
  (10000 * (signal.target - signal.entry)) \div entry
    - (10000 * 2 * (c.fee + c.half + c.slip)) \div D
=============================================================================
