----------------------------- MODULE MCResearch -----------------------------
(***************************************************************************)
(* An instance of ResearchProgram: twelve short days of four minutes each, *)
(* a tick every fifteen seconds, and markets that agree up to a cut and    *)
(* mirror one another after it.                                            *)
(***************************************************************************)
EXTENDS ResearchProgram

MCBarriers ==
  {[target |-> 1, stop |-> 1, minimum |-> 1, timeout |-> 120],
   [target |-> 1, stop |-> 2, minimum |-> 1, timeout |-> 90]}
MCPrimary == [target |-> 1, stop |-> 1, minimum |-> 1, timeout |-> 120]
MCSlippage == [s \in Scenarios |-> CASE s = "OPTIMISTIC" -> 0 [] s = "BASE" -> 1 [] s = "STRESS" -> 2]
MCCommission == [s \in Scenarios |-> CASE s = "OPTIMISTIC" -> 0 [] s = "BASE" -> 1 [] s = "STRESS" -> 2]
MCRequired ==
  [compared |-> 2, comparedWeeks |-> 1, frozen |-> 1, frozenWeeks |-> 1, promising |-> 1,
   v3 |-> 4, v3Weeks |-> 2, v3Promising |-> 2, d10 |-> 3, d10Weeks |-> 2]

First == 480
LateMinute == 47
GapMinute == 22

\* The instant of tick n: four a minute, late by one second in every twelfth
\* minute; one minute starts late and one has no ticks.
Offset(n) ==
  LET minute == n \div 4
      regular == 15 * (n % 4) + (IF minute % 12 = 7 THEN 1 ELSE 0)
  IN IF minute = LateMinute THEN 28 + 15 * (n % 4) - (IF n % 4 = 3 THEN 14 ELSE 0) ELSE regular

Numbers == {n \in 0 .. 239 : n \div 4 # GapMinute}

\* The price runs in one direction for `length` ticks, then in the other.
Price(length) ==
  LET step(n) == (IF (n \div length) % 2 = 0 THEN 2 ELSE -2) * (((n * n + 3 * n) % 11) + (n % 3))
      price[n \in 0 .. 239] == IF n = 0 THEN 1000 ELSE price[n - 1] + step(n)
  IN price

\* The tape that mirrors the price after a cut.
Tape(length, cut) ==
  LET time(n) == First + 60 * (n \div 4) + Offset(n)
      price == Price(length)
      last == CHOOSE n \in Numbers : time(n) <= cut /\ \A k \in Numbers : time(k) <= cut => k <= n
      quote(n) == IF n <= last THEN price[n] ELSE 2 * price[last] - price[n]
      tick(n) == [time |-> time(n), bid |-> quote(n), ask |-> quote(n) + 3 + (n % 3)]
      number(k) == IF k <= 4 * GapMinute THEN k - 1 ELSE k + 3
  IN [k \in 1 .. 236 |-> tick(number(k))]

\* Uncut, and cut where a fold opens, where the labels of D.8's training end,
\* and at candidates.
MCTapes == {Tape(11, cut) : cut \in {1584, 2448, 2640, 10000}}
             \union {Tape(13, cut) : cut \in {2768, 10000}}
=============================================================================
