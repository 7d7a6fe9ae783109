------------------------------ MODULE MCReplay ------------------------------
(***************************************************************************)
(* Three symbols with a dozen bars each.  The M5 bars are two minutes long *)
(* and made from the list of their closes; histories share their beginning *)
(* so that a decision that looks ahead can differ.                         *)
(***************************************************************************)
EXTENDS Replay

\* The M1 bars of a list of closes, with one minute left out when gap is one.
Tape(closes, volumes, gap) ==
  LET n == Len(closes) - 1
      Half(k) == (closes[k] + closes[k + 1]) \div 2
      Bar(t) ==
        LET k == (t \div 2) + 1
            open == IF t % 2 = 0 THEN closes[k] ELSE Half(k)
            close == IF t % 2 = 0 THEN Half(k) ELSE closes[k + 1]
        IN [time |-> t, open |-> open, close |-> close, volume |-> volumes[k],
            high |-> Max({open, close}) + 1, low |-> Min({open, close}) - 1]
  IN SelectSeq([i \in 1 .. 2 * n |-> Bar(i - 1)], LAMBDA b : b.time # gap)

MCMinutes == [m5 |-> 2, m15 |-> 4, h1 |-> 4]
MCSpans == [fast |-> 2, slow |-> 3, range |-> 3]
MCWindows == [median |-> 2, breakout |-> 1, path |-> 2, slope |-> 1, pullback |-> 1]
MCWarm == [v1 |-> 12, v2 |-> 16, first |-> 4, m15 |-> 2, h1 |-> 2,
           fewest |-> [m5 |-> 5, m15 |-> 3, h1 |-> 4]]
MCLags == [h1 |-> 1, h4 |-> 2, d1 |-> 2]
MCAlphabet == <<"B", "E", "X">>
MCLimits ==
  [pairs |-> 3, volume |-> 10, depth |-> 100, notional |-> 60, floor |-> 0, buffer |-> 0,
   fallback |-> 2, ratio |-> 300, spread |-> 4, slippage |-> 2, euroVolume |-> 10,
   euroSpread |-> 4, euroDepth |-> 100, top |-> 2, universe |-> 3, quantity |-> 4]

\* The closes and the volumes of three histories; the last one of each symbol
\* begins like the first one.
B1 == Tape(<<40, 41, 44, 46, 49, 50, 54, 53, 58, 55, 52, 54, 59, 62, 62, 66, 63>>,
           <<2, 1, 2, 1, 3, 3, 2, 1, 2, 2, 1, 3, 2, 3, 1, 2>>, -1)
E1 == Tape(<<40, 43, 45, 46, 50, 51, 52, 47, 47, 42, 45, 47, 46, 47, 50, 53, 54>>,
           <<2, 1, 3, 1, 3, 3, 1, 2, 1, 1, 2, 1, 2, 1, 3, 3>>, -1)
X1 == Tape(<<40, 39, 43, 40, 42, 41, 45, 50, 52, 56, 51, 51, 46, 49, 52, 52, 57>>,
           <<3, 1, 1, 1, 2, 3, 2, 3, 1, 3, 3, 1, 2, 2, 1, 3>>, -1)
B2 == Tape(<<40, 37, 39, 38, 39, 40, 40, 35, 34, 37, 40, 45, 47, 52, 56, 61, 62>>,
           <<1, 1, 2, 2, 2, 2, 2, 3, 1, 3, 1, 1, 1, 1, 1, 2>>, -1)
E2 == Tape(<<40, 45, 50, 52, 57, 62, 61, 65, 68, 73, 75, 77, 79, 83, 82, 85, 89>>,
           <<3, 3, 1, 2, 2, 2, 3, 3, 2, 3, 2, 2, 2, 3, 3, 3>>, -1)
X2 == Tape(<<40, 40, 42, 41, 42, 46, 47, 48, 53, 58, 63, 68, 71, 72, 72, 76, 81>>,
           <<2, 3, 3, 1, 2, 3, 1, 1, 3, 1, 1, 3, 3, 1, 2, 3>>, 20)
B3 == Tape(<<40, 41, 44, 46, 49, 50, 54, 53, 47, 43, 47, 50, 44, 41, 43, 47, 41>>,
           <<2, 1, 2, 1, 3, 3, 2, 1, 2, 2, 1, 3, 2, 3, 1, 2>>, -1)
E3 == Tape(<<40, 43, 45, 46, 50, 51, 52, 47, 47, 42, 40, 44, 49, 51, 50, 52, 56>>,
           <<2, 1, 3, 1, 3, 3, 1, 2, 1, 1, 2, 3, 2, 1, 3, 3>>, 30)
X3 == Tape(<<40, 39, 43, 40, 42, 41, 45, 50, 52, 56, 58, 60, 59, 62, 60, 64, 66>>,
           <<3, 1, 1, 1, 2, 3, 2, 3, 1, 3, 1, 2, 2, 2, 3, 3>>, -1)
Market(b, e, x) == [s \in {"B", "E", "X"} |-> CASE s = "B" -> b [] s = "E" -> e [] s = "X" -> x]
MCMarkets == <<Market(B1, E1, X1), Market(B2, E2, X2), Market(B3, E3, X3)>>

\* A pair whose book is one or two prices deep.
Pair(symbol, bid, ask, volume, move, fee) ==
  [symbol |-> symbol, base |-> symbol, quote |-> "EUR", trading |-> TRUE, volume |-> volume,
   bids |-> <<[price |-> bid, quantity |-> 1], [price |-> bid - 1, quantity |-> 9]>>,
   asks |-> <<[price |-> ask, quantity |-> 9]>>,
   spreads |-> <<1, 1>>, moves |-> <<move, 9>>, move |-> move, maker |-> 1, taker |-> fee,
   step |-> 1, minimum |-> 1, notional |-> 30, balance |-> 200]

View(account, own, pairs) ==
  [authenticated |-> account # None, tradeFees |-> own, account |-> account, pairs |-> pairs]

\* What the exchange may show: pairs worth a trade; others at other prices and
\* lower fees; and, with the flat fee of the account, pairs that move too little.
MCViews ==
  {View(1, TRUE, <<Pair("B", 40, 41, 30, 40, 2), Pair("E", 40, 41, 20, 30, 2), Pair("X", 40, 41, 10, 40, 2)>>),
   View(1, TRUE, <<Pair("B", 40, 42, 30, 30, 1), Pair("E", 40, 41, 20, 40, 1), Pair("X", 40, 43, 5, 40, 1)>>),
   View(2, FALSE, <<Pair("B", 40, 40, 30, 9, 2), Pair("X", 40, 42, 20, 9, 2)>>)}

Plan(stress, leaders, timeout) ==
  [capital |-> 200000000, stress |-> stress, leaders |-> leaders, timeout |-> timeout]
MCPlans ==
  [V1 |-> <<Plan(FALSE, 1, 4), Plan(TRUE, 1, 4)>>,
   V2 |-> <<Plan(FALSE, 1, 4), Plan(TRUE, 1, 4)>>,
   V3 |-> <<Plan(FALSE, 2, 8), Plan(TRUE, 2, 8), Plan(FALSE, 1, 4)>>]
MCCoverage == [bars |-> 24, span |-> 10]
MCEvidence == [v1 |-> 1, v2 |-> 1, v3 |-> 1, weeks |-> 1, v3weeks |-> 1]
=============================================================================
