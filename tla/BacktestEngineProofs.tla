------------------------ MODULE BacktestEngineProofs ------------------------
(***************************************************************************)
(* Proofs about BacktestEngine.                                            *)
(*                                                                         *)
(* None of the five properties is inductive by itself.  EngineInv adds to  *)
(* them that at most one request waits and that it fits the position       *)
(* (Queued); that queue, position and trades continue each other in time   *)
(* and in sequence numbers (Continued) and are not of the future (Timely); *)
(* that rejections have numbers of their own (Numbered); that the columns  *)
(* of the trades add up (Totalled); and that every opening that was asked  *)
(* for is accounted for.  What speaks of one engine alone is collected in  *)
(* Sound, so that each operation of the engine has one lemma: a sound      *)
(* engine stays sound.  An action composes operations, its proof lemmas.   *)
(*                                                                         *)
(* The queue may be treated as at most one request because Queued says so; *)
(* the loops over it need no induction.  The loops over the equity curve   *)
(* and over the trades do: they are instances of Scan (see SumsProofs).    *)
(***************************************************************************)
EXTENDS BacktestEngine, SumsProofs

\* The largest member of a set of integers.
LEMMA MaxIs ==
  ASSUME NEW S \in SUBSET Int, NEW m \in S, \A x \in S : x <= m
  PROVE  Max(S) = m
<1> DEFINE P(y) == y \in S /\ \A x \in S : y >= x
<1>1. P(m)
  OBVIOUS
<1>2. \A y : P(y) => y = m
  BY SMT
<1>3. Max(S) = CHOOSE y \in S : \A x \in S : y >= x
  BY DEF Max
<1>4. Max(S) = CHOOSE y : P(y)
  BY <1>3
<1> HIDE DEF P
<1> QED BY <1>1, <1>2, <1>4

-----------------------------------------------------------------------------
(***************************************************************************)
(* Money.                                                                  *)
(***************************************************************************)
\* A multiple of the divisor passes through a division.
LEMMA DivideMultiple ==
  ASSUME NEW a \in Int, NEW k \in Int, NEW m \in Nat \ {0}
  PROVE  (a + k * m) \div m = a \div m + k
OBVIOUS

\* A tick has a positive midpoint, by which twice the scale can be divided.
LEMMA TickIs ==
  ASSUME NEW t, IsTick(t)
  PROVE  /\ t.time \in Nat /\ t.bid \in Nat /\ t.ask \in Nat
         /\ Mid2(t) \in Nat \ {0} /\ (2 * Scale) % Mid2(t) = 0
<1>1. [bid |-> t.bid, ask |-> t.ask] \in Quotes /\ t.time \in Nat
  BY DEF IsTick
<1>2. t.bid \in Nat \ {0} /\ t.ask \in Nat /\ (2 * Scale) % (t.bid + t.ask) = 0
  BY <1>1, BacktestAssumption
<1> QED BY <1>1, <1>2 DEF Mid2

\* Money is a whole number.
LEMMA MoneyType ==
  ASSUME NEW t, IsTick(t), NEW a \in Int
  PROVE  Money(a, t) \in Int
<1>1. Scale \in Int /\ Mid2(t) \in Nat \ {0}
  BY BacktestAssumption, TickIs
<1>2. PICK x \in Int : x = Scale * a
  BY <1>1
<1>3. x \div Mid2(t) \in Int
  BY <1>1, <1>2
<1> QED BY <1>2, <1>3 DEF Money

\* An even amount can be taken out of an amount before or after both become
\* money: its own division is exact.
LEMMA MoneySplits ==
  ASSUME NEW t, IsTick(t), NEW a \in Int, NEW c \in Int
  PROVE  Money(a, t) - Money(a - 2 * c, t) = Money(2 * c, t)
<1>1. Scale \in Int /\ Mid2(t) \in Nat \ {0} /\ (2 * Scale) % Mid2(t) = 0
  BY BacktestAssumption, TickIs
<1>2. PICK m \in Nat \ {0} : m = Mid2(t)
  BY <1>1
<1>3. PICK k \in Int : 2 * Scale = k * m
  <2>1. (2 * Scale) % m = 0 /\ 2 * Scale \in Int
    BY <1>1, <1>2
  <2>2. (2 * Scale) \div m \in Int /\ 2 * Scale = ((2 * Scale) \div m) * m
    BY <2>1
  <2> QED BY <2>2
<1>4. PICK j \in Int : j = k * c
  OBVIOUS
<1>5. Scale * (2 * c) = j * m
  <2>1. Scale * (2 * c) = (2 * Scale) * c
    BY <1>1
  <2>2. (k * m) * c = (k * c) * m
    BY SMT
  <2> QED BY <2>1, <2>2, <1>3, <1>4
<1>6. PICK b \in Int : b = Scale * (a - 2 * c)
  BY <1>1
<1>7. Scale * a = b + j * m
  <2>1. Scale * a = Scale * (a - 2 * c) + Scale * (2 * c)
    BY <1>1
  <2> QED BY <2>1, <1>5, <1>6
<1>8. (b + j * m) \div m = b \div m + j
  BY DivideMultiple
<1>9. (0 + j * m) \div m = 0 \div m + j
  BY DivideMultiple
<1>10. 0 \div m = 0 /\ 0 + j * m = j * m /\ b \div m \in Int
  BY SMT
<1> QED BY <1>2, <1>5, <1>6, <1>7, <1>8, <1>9, <1>10 DEF Money

\* The decomposition of a result: what the midpoints gave, less the spread, less
\* the slippage, is what the executed prices gave.
LEMMA Decomposes ==
  ASSUME NEW t, IsTick(t), NEW a \in Int, NEW b \in Int, NEW c \in Int
  PROVE  Money(a, t) - Money(a - 2 * b, t) - Money(2 * b - 2 * c, t) = Money(2 * c, t)
<1>1. 2 * b \in Int /\ 2 * c \in Int /\ a - 2 * b \in Int /\ 2 * b - 2 * c \in Int
  OBVIOUS
<1>2. /\ Money(a, t) \in Int /\ Money(a - 2 * b, t) \in Int
      /\ Money(2 * b - 2 * c, t) \in Int /\ Money(2 * c, t) \in Int
  BY <1>1, MoneyType
<1>3. Money(a, t) - Money(a - 2 * b, t) = Money(2 * b, t)
  BY MoneySplits
<1>4. Money(2 * b, t) - Money(2 * b - 2 * c, t) = Money(2 * c, t)
  BY <1>1, MoneySplits
<1> QED BY <1>2, <1>3, <1>4

-----------------------------------------------------------------------------
(***************************************************************************)
(* The loops over the queue.                                               *)
(***************************************************************************)
\* Filtered, Executed and RefuseAll loop over a queue, which holds one request at
\* most: each is a recursive function, whose value a function shows that obeys its
\* equation.  Nothing is left of an empty queue.
LEMMA FilteredEmpty ==
  ASSUME NEW places PROVE Filtered(<<>>, places) = <<>>
<1> DEFINE Body(h) == [n \in 0 .. Len(<<>>) |->
                         IF n = 0 THEN <<>>
                         ELSE IF n \in places THEN Append(h[n - 1], <<>>[n]) ELSE h[n - 1]]
           P(h) == h = Body(h)
           kept == CHOOSE h : P(h)
           g == [n \in 0 .. 0 |-> <<>>]
<1>1. Len(<<>>) = 0 /\ \A n \in 0 .. 0 : n = 0
  OBVIOUS
<1>2. P(g)
  BY <1>1
<1>3. Filtered(<<>>, places) = kept[Len(<<>>)]
  BY DEF Filtered
<1>4. P(kept)
  <2> HIDE DEF P
  <2> QED BY <1>2
<1> HIDE DEF kept
<1>5. kept[0] = <<>>
  BY <1>1, <1>4
<1> QED BY <1>1, <1>3, <1>5

\* A single request is kept or it is not.
LEMMA FilteredOne ==
  ASSUME NEW r, NEW places
  PROVE  Filtered(<<r>>, places) = IF 1 \in places THEN <<r>> ELSE <<>>
<1> DEFINE Body(h) == [n \in 0 .. Len(<<r>>) |->
                         IF n = 0 THEN <<>>
                         ELSE IF n \in places THEN Append(h[n - 1], <<r>>[n]) ELSE h[n - 1]]
           P(h) == h = Body(h)
           kept == CHOOSE h : P(h)
           g == [n \in 0 .. 1 |-> IF n = 0 THEN <<>>
                                  ELSE IF 1 \in places THEN Append(<<>>, r) ELSE <<>>]
<1>1. Len(<<r>>) = 1 /\ <<r>>[1] = r /\ Append(<<>>, r) = <<r>>
      /\ \A n \in 0 .. 1 : n # 0 => n = 1 /\ n - 1 = 0 /\ n - 1 \in 0 .. 1
  OBVIOUS
<1>2. P(g)
  <2>1. \A n \in 0 .. 1 : g[n] = IF n = 0 THEN <<>>
                                  ELSE IF n \in places THEN Append(g[n - 1], <<r>>[n]) ELSE g[n - 1]
    BY <1>1
  <2>2. g = [n \in 0 .. 1 |-> g[n]]
    OBVIOUS
  <2> QED BY <1>1, <2>1, <2>2
<1>3. Filtered(<<r>>, places) = kept[Len(<<r>>)]
  BY DEF Filtered
<1>4. P(kept)
  <2> HIDE DEF P
  <2> QED BY <1>2
<1> HIDE DEF kept
<1>5. kept[0] = <<>>
  BY <1>1, <1>4
<1>6. kept[1] = IF 1 \in places THEN Append(kept[0], <<r>>[1]) ELSE kept[0]
  BY <1>1, <1>4
<1> QED BY <1>1, <1>3, <1>5, <1>6

\* When nothing is due the loop of _execute_due leaves the engine alone.
LEMMA ExecutedNone ==
  ASSUME NEW e, NEW places, NEW t, NEW draw, NEW start,
         Filtered(e.pending, places) = <<>>,
         start = [e EXCEPT !.pending = Filtered(e.pending, DOMAIN e.pending \ places)]
  PROVE  Executed(e, places, t, draw) = start
<1> DEFINE Body(h) == [n \in 0 .. Len(<<>>) |->
                         IF n = 0 THEN start ELSE Execute(h[n - 1], <<>>[n], t, draw)]
           P(h) == h = Body(h)
           after == CHOOSE h : P(h)
           g == [n \in 0 .. 0 |-> start]
<1>1. Len(<<>>) = 0 /\ \A n \in 0 .. 0 : n = 0
  OBVIOUS
<1>2. P(g)
  BY <1>1
<1>3. Executed(e, places, t, draw) = after[Len(<<>>)]
  BY DEF Executed
<1>4. P(after)
  <2> HIDE DEF P
  <2> QED BY <1>2
<1> HIDE DEF after
<1>5. after[0] = start
  BY <1>1, <1>4
<1> QED BY <1>1, <1>3, <1>5

\* When one request is due the loop of _execute_due executes this one.
LEMMA ExecutedOne ==
  ASSUME NEW e, NEW places, NEW t, NEW draw, NEW start, NEW r,
         Filtered(e.pending, places) = <<r>>,
         start = [e EXCEPT !.pending = Filtered(e.pending, DOMAIN e.pending \ places)]
  PROVE  Executed(e, places, t, draw) = Execute(start, r, t, draw)
<1> DEFINE Body(h) == [n \in 0 .. Len(<<r>>) |->
                         IF n = 0 THEN start ELSE Execute(h[n - 1], <<r>>[n], t, draw)]
           P(h) == h = Body(h)
           after == CHOOSE h : P(h)
           g == [n \in 0 .. 1 |-> IF n = 0 THEN start ELSE Execute(start, r, t, draw)]
<1>1. Len(<<r>>) = 1 /\ <<r>>[1] = r
      /\ \A n \in 0 .. 1 : n # 0 => n = 1 /\ n - 1 = 0 /\ n - 1 \in 0 .. 1
  OBVIOUS
<1>2. Executed(e, places, t, draw) = after[Len(<<r>>)]
  BY DEF Executed
<1>3. P(g)
  <2>1. \A n \in 0 .. 1 : g[n] = IF n = 0 THEN start ELSE Execute(g[n - 1], <<r>>[n], t, draw)
    BY <1>1
  <2>2. g = [n \in 0 .. 1 |-> g[n]]
    OBVIOUS
  <2> QED BY <1>1, <2>1, <2>2
<1>4. P(after)
  <2> HIDE DEF P
  <2> QED BY <1>3
<1> HIDE DEF after
<1>5. after[0] = start
  BY <1>1, <1>4
<1>6. after[1] = Execute(after[0], <<r>>[1], t, draw)
  BY <1>1, <1>4
<1> QED BY <1>1, <1>2, <1>5, <1>6

\* At the end of the data an empty queue refuses nothing (run).
LEMMA RefuseAllNone ==
  ASSUME NEW e, e.pending = <<>>
  PROVE  RefuseAll(e) = [e EXCEPT !.pending = <<>>]
<1> DEFINE start == [e EXCEPT !.pending = <<>>]
           Body(h) == [n \in 0 .. Len(e.pending) |->
                         IF n = 0 THEN start
                         ELSE Refuse(h[n - 1], e.pending[n].type, "NO_EXECUTION_TICK")]
           P(h) == h = Body(h)
           after == CHOOSE h : P(h)
           g == [n \in 0 .. 0 |-> start]
<1>1. Len(e.pending) = 0 /\ \A n \in 0 .. 0 : n = 0
  OBVIOUS
<1>2. RefuseAll(e) = after[Len(e.pending)]
  BY DEF RefuseAll
<1> HIDE DEF start
<1>3. P(g)
  BY <1>1
<1>4. P(after)
  <2> HIDE DEF P
  <2> QED BY <1>3
<1> HIDE DEF after
<1>5. after[0] = start
  BY <1>1, <1>4
<1> QED BY <1>1, <1>2, <1>5 DEF start

\* At the end of the data the request that waits is refused (run).
LEMMA RefuseAllOne ==
  ASSUME NEW e, NEW r, e.pending = <<r>>
  PROVE  RefuseAll(e) = Refuse([e EXCEPT !.pending = <<>>], r.type, "NO_EXECUTION_TICK")
<1> DEFINE start == [e EXCEPT !.pending = <<>>]
           Body(h) == [n \in 0 .. Len(e.pending) |->
                         IF n = 0 THEN start
                         ELSE Refuse(h[n - 1], e.pending[n].type, "NO_EXECUTION_TICK")]
           P(h) == h = Body(h)
           after == CHOOSE h : P(h)
           g == [n \in 0 .. 1 |-> IF n = 0 THEN start ELSE Refuse(start, r.type, "NO_EXECUTION_TICK")]
<1>1. Len(e.pending) = 1 /\ e.pending[1] = r
      /\ \A n \in 0 .. 1 : n # 0 => n = 1 /\ n - 1 = 0 /\ n - 1 \in 0 .. 1
  OBVIOUS
<1>2. RefuseAll(e) = after[Len(e.pending)]
  BY DEF RefuseAll
<1> HIDE DEF start
<1>3. P(g)
  <2>1. \A n \in 0 .. 1 : g[n] = IF n = 0 THEN start
                                  ELSE Refuse(g[n - 1], e.pending[n].type, "NO_EXECUTION_TICK")
    BY <1>1
  <2>2. g = [n \in 0 .. 1 |-> g[n]]
    OBVIOUS
  <2> QED BY <1>1, <2>1, <2>2
<1>4. P(after)
  <2> HIDE DEF P
  <2> QED BY <1>3
<1> HIDE DEF after
<1>5. after[0] = start
  BY <1>1, <1>4
<1>6. after[1] = Refuse(after[0], e.pending[1].type, "NO_EXECUTION_TICK")
  BY <1>1, <1>4
<1> QED BY <1>1, <1>2, <1>5, <1>6 DEF start

-----------------------------------------------------------------------------
(***************************************************************************)
(* The loops of the metrics.                                               *)
(***************************************************************************)
\* The greater of two is one of them and not below either.
LEMMA GreaterIs ==
  ASSUME NEW a \in Int, NEW b \in Int
  PROVE  /\ Greater(a, b) \in {a, b} /\ Greater(a, b) \in Int
         /\ a <= Greater(a, b) /\ b <= Greater(a, b)
BY DEF Greater

\* One round of the loop over the curve.
LEMMA FallenIs ==
  ASSUME NEW c \in Seq(Int)
  PROVE  /\ Fallen(c) \in [0 .. Len(c) -> Falls]
         /\ Fallen(c)[0] = [peak |-> Capital, max |-> 0]
         /\ \A i \in 1 .. Len(c) :
              /\ Fallen(c)[i].peak = Greater(Fallen(c)[i - 1].peak, c[i])
              /\ Fallen(c)[i].max = Greater(Fallen(c)[i - 1].max, Fallen(c)[i].peak - c[i])
<1> DEFINE Round(i, x) ==
             [peak |-> Greater(x.peak, c[i]),
              max |-> Greater(x.max, Greater(x.peak, c[i]) - c[i])]
           step == [i \in DOMAIN c |-> [x \in Falls |-> Round(i, x)]]
           start == [peak |-> Capital, max |-> 0]
           X == Falls
           n == Len(c)
<1>1. Fallen(c) = Scan(start, step, n)
  BY DEF Fallen
<1>2. n \in Nat /\ DOMAIN c = 1 .. n /\ \A i \in 1 .. n : c[i] \in Int
  OBVIOUS
<1>3. start \in X
  BY BacktestAssumption DEF Falls
<1>4. \A i \in 1 .. n : \A x \in X : Round(i, x) \in X
  <2> SUFFICES ASSUME NEW i \in 1 .. n, NEW x \in X PROVE Round(i, x) \in X
    OBVIOUS
  <2>1. x.peak \in Int /\ x.max \in Int /\ c[i] \in Int
    BY <1>2 DEF Falls
  <2>2. Greater(x.peak, c[i]) \in Int
    BY <2>1, GreaterIs
  <2>3. PICK p \in Int : p = Greater(x.peak, c[i]) - c[i]
    BY <2>1, <2>2
  <2>4. Greater(x.max, p) \in Int
    BY <2>1, GreaterIs
  <2> QED BY <2>2, <2>3, <2>4 DEF Falls
<1>5. step \in Rounds(X, n) /\ \A i \in 1 .. n : \A x \in X : step[i][x] = Round(i, x)
  <2> HIDE DEF Round, X
  <2> QED BY <1>2, <1>4 DEF Rounds, X
<1> HIDE DEF step, start, X, n
<1>6. /\ Scan(start, step, n) \in [0 .. n -> X]
      /\ Scan(start, step, n)[0] = start
      /\ \A i \in 1 .. n : Scan(start, step, n)[i] = step[i][Scan(start, step, n)[i - 1]]
  BY ONLY <1>2, <1>3, <1>5, ScanDefinition
<1>7. \A i \in 1 .. n : Fallen(c)[i] = Round(i, Fallen(c)[i - 1])
  BY <1>1, <1>2, <1>5, <1>6
<1>8. ASSUME NEW i \in 1 .. n
      PROVE  /\ Fallen(c)[i].peak = Greater(Fallen(c)[i - 1].peak, c[i])
             /\ Fallen(c)[i].max = Greater(Fallen(c)[i - 1].max, Fallen(c)[i].peak - c[i])
  <2>1. PICK x : x = Fallen(c)[i - 1]
    OBVIOUS
  <2>2. Fallen(c)[i] = Round(i, x)
    BY <1>7, <2>1
  <2>3. Fallen(c)[i].peak = Greater(x.peak, c[i])
    BY <2>2
  <2>4. Fallen(c)[i].max = Greater(x.max, Greater(x.peak, c[i]) - c[i])
    BY <2>2
  <2> QED BY <2>1, <2>3, <2>4, Zenon
<1> QED BY <1>1, <1>6, <1>8 DEF start, X, n

\* The deepest fall that one pass finds is the deepest between any two points.
LEMMA DrawdownIsDeepest ==
  ASSUME curve \in Seq(Int), Len(curve) > 0, curve[1] = Capital
  PROVE  MaxDrawdown(curve) = Max(UNION {FallsTo(j) : j \in DOMAIN curve})
<1> DEFINE n == Len(curve)
           f == Fallen(curve)
           Peak(k) == /\ \E i \in 1 .. k : f[k].peak = curve[i]
                      /\ \A i \in 1 .. k : curve[i] <= f[k].peak
           Fall(k) == /\ \E j \in 1 .. k : \E i \in 1 .. j : f[k].max = curve[i] - curve[j]
                      /\ \A j \in 1 .. k : \A i \in 1 .. j : curve[i] - curve[j] <= f[k].max
           S == {k \in Nat : 1 <= k /\ k <= n => Peak(k) /\ Fall(k)}
           T == UNION {FallsTo(j) : j \in DOMAIN curve}
<1>1. n \in Nat /\ n > 0 /\ DOMAIN curve = 1 .. n /\ \A i \in 1 .. n : curve[i] \in Int
  OBVIOUS
<1>2. /\ \A i \in 0 .. n : f[i].peak \in Int /\ f[i].max \in Int
      /\ f[0].peak = Capital /\ f[0].max = 0
      /\ \A i \in 1 .. n : /\ f[i].peak = Greater(f[i - 1].peak, curve[i])
                           /\ f[i].max = Greater(f[i - 1].max, f[i].peak - curve[i])
  <2>1. /\ f \in [0 .. n -> Falls]
        /\ f[0] = [peak |-> Capital, max |-> 0]
        /\ \A i \in 1 .. n : /\ f[i].peak = Greater(f[i - 1].peak, curve[i])
                             /\ f[i].max = Greater(f[i - 1].max, f[i].peak - curve[i])
    BY FallenIs
  <2>2. f[0].peak = Capital /\ f[0].max = 0
    BY <2>1
  <2> HIDE DEF f, n
  <2>3. \A i \in 0 .. n : f[i] \in Falls
    BY <2>1
  <2>4. \A i \in 0 .. n : f[i].peak \in Int /\ f[i].max \in Int
    BY <2>3 DEF Falls
  <2> QED BY <2>1, <2>2, <2>4
<1> HIDE DEF f, n
<1>3. ASSUME NEW k \in Nat, k \in S PROVE k + 1 \in S
  <2> SUFFICES ASSUME k + 1 <= n PROVE Peak(k + 1) /\ Fall(k + 1)
    OBVIOUS
  <2>1. k + 1 \in 1 .. n /\ k \in 0 .. n /\ (k + 1) - 1 = k /\ curve[k + 1] \in Int
    BY <1>1
  <2>2. PICK p, q, a, b, v :
          p = f[k].peak /\ q = f[k + 1].peak /\ a = f[k].max /\ b = f[k + 1].max /\ v = curve[k + 1]
    OBVIOUS
  <2>3. p \in Int /\ q \in Int /\ a \in Int /\ b \in Int /\ v \in Int
    <3>1. p \in Int /\ a \in Int
      BY <1>2, <2>1, <2>2
    <3>2. k + 1 \in 0 .. n
      BY <2>1, <1>1
    <3>3. q \in Int /\ b \in Int
      BY <1>2, <2>2, <3>2
    <3> QED BY <2>1, <2>2, <3>1, <3>3
  <2>4. q = Greater(p, v) /\ b = Greater(a, q - v)
    BY <1>2, <2>1, <2>2
  <2>5. /\ q \in {p, v} /\ p <= q /\ v <= q
        /\ b \in {a, q - v} /\ a <= b /\ q - v <= b
    BY <2>4, <2>3 DEF Greater
  <2>6. \A i \in 1 .. k + 1 : i \in 1 .. k \/ i = k + 1
    BY SMT
  <2>7. CASE k = 0
    <3>1. v = Capital /\ p = Capital /\ a = 0 /\ q = Capital /\ b = 0
      BY <1>2, <2>2, <2>5, <2>7
    <3>2. Peak(k + 1)
      BY <2>2, <2>7, <3>1
    <3>3. Fall(k + 1)
      BY <2>2, <2>7, <3>1
    <3> QED BY <3>2, <3>3
  <2>8. CASE k # 0
    <3>1. Peak(k) /\ Fall(k)
      BY <1>3, <2>1, <2>8
    <3>2. \A i \in 1 .. k : curve[i] <= p /\ curve[i] \in Int
      <4>1. \A i \in 1 .. k : curve[i] <= p
        BY <2>2, <3>1
      <4>2. \A i \in 1 .. k : i \in 1 .. n
        BY <1>1, <2>1
      <4> QED BY <1>1, <4>1, <4>2
    <3>3. Peak(k + 1)
      <4>1. PICK i \in 1 .. k : curve[i] = p
        BY <2>2, <3>1
      <4>2. i \in 1 .. k + 1 /\ k + 1 \in 1 .. k + 1
        OBVIOUS
      <4>3. \E m \in 1 .. k + 1 : q = curve[m]
        BY <2>2, <2>5, <4>1, <4>2
      <4>4. ASSUME NEW m \in 1 .. k + 1 PROVE curve[m] <= q
        <5>1. CASE m \in 1 .. k
          <6>1. curve[m] <= p /\ curve[m] \in Int
            BY <3>2, <5>1
          <6> QED BY <2>5, <2>3, <6>1
        <5>2. CASE m = k + 1
          BY <2>2, <2>5, <5>2
        <5> QED BY <2>6, <5>1, <5>2
      <4> QED BY <2>2, <4>3, <4>4
    <3>4. Fall(k + 1)
      <4>1. PICK j \in 1 .. k : \E i \in 1 .. j : a = curve[i] - curve[j]
        BY <2>2, <3>1
      <4>2. PICK m \in 1 .. k + 1 : q = curve[m]
        BY <2>2, <3>3
      <4>3. j \in 1 .. k + 1 /\ k + 1 \in 1 .. k + 1
        OBVIOUS
      <4>4. \E l \in 1 .. k + 1 : \E i \in 1 .. l : b = curve[i] - curve[l]
        BY <2>2, <2>5, <4>1, <4>2, <4>3
      <4>5. ASSUME NEW l \in 1 .. k + 1, NEW i \in 1 .. l PROVE curve[i] - curve[l] <= b
        <5>1. CASE l \in 1 .. k
          <6>1. curve[i] - curve[l] <= a
            BY <2>2, <3>1, <5>1
          <6>2. i \in 1 .. k
            BY <5>1
          <6>3. curve[i] \in Int /\ curve[l] \in Int
            BY <3>2, <5>1, <6>2
          <6> QED BY <2>5, <2>3, <6>1, <6>3
        <5>2. CASE l = k + 1
          <6>1. i \in 1 .. k + 1
            BY <5>2
          <6>2. curve[i] <= q
            BY <2>2, <3>3, <6>1
          <6>3. curve[i] \in Int
            BY <2>2, <2>6, <2>3, <3>2, <6>1
          <6>4. curve[l] = v
            BY <2>2, <5>2
          <6> QED BY ONLY <2>5, <2>3, <6>2, <6>3, <6>4
        <5> QED BY <2>6, <5>1, <5>2
      <4> QED BY <2>2, <4>4, <4>5
    <3> QED BY <3>3, <3>4
  <2> QED BY <2>7, <2>8
<1>4. 0 \in S
  OBVIOUS
<1> HIDE DEF S
<1>5. Nat \subseteq S
  BY <1>3, <1>4, SetInduction
<1>6. Fall(n)
  <2>1. n \in S
    BY <1>1, <1>5
  <2> HIDE DEF Peak, Fall
  <2> QED BY <1>1, <2>1 DEF S
<1>7. T \in SUBSET Int /\ \A x \in T : x <= f[n].max
  <2>1. ASSUME NEW x \in T PROVE x \in Int /\ x <= f[n].max
    <3>1. PICK j \in 1 .. n : x \in FallsTo(j)
      BY <1>1
    <3>2. PICK i \in 1 .. j : x = curve[i] - curve[j]
      BY <3>1 DEF FallsTo
    <3>3. i \in 1 .. n
      BY <1>1
    <3> QED BY <1>1, <1>6, <3>2, <3>3
  <2> QED BY <2>1
<1>8. f[n].max \in T
  <2>1. PICK j \in 1 .. n : \E i \in 1 .. j : f[n].max = curve[i] - curve[j]
    BY <1>6
  <2>2. f[n].max \in FallsTo(j)
    BY <2>1 DEF FallsTo
  <2> QED BY <1>1, <2>2
<1> HIDE DEF T
<1>9. Max(T) = f[n].max
  BY ONLY <1>7, <1>8, MaxIs
<1> QED BY <1>9 DEF MaxDrawdown, T, f, n

\* One round of the loop over the trades.
LEMMA LossesIs ==
  ASSUME NEW trades \in Seq(Trades)
  PROVE  /\ Losses(trades) \in [0 .. Len(trades) -> Streaks]
         /\ Losses(trades)[0] = [streak |-> 0, max |-> 0]
         /\ \A i \in 1 .. Len(trades) :
              /\ Losses(trades)[i].streak = IF trades[i].net < 0 THEN Losses(trades)[i - 1].streak + 1 ELSE 0
              /\ Losses(trades)[i].max = Greater(Losses(trades)[i - 1].max, Losses(trades)[i].streak)
<1> DEFINE Run(i, x) == IF trades[i].net < 0 THEN x.streak + 1 ELSE 0
           Round(i, x) == [streak |-> Run(i, x), max |-> Greater(x.max, Run(i, x))]
           step == [i \in DOMAIN trades |-> [x \in Streaks |-> Round(i, x)]]
           start == [streak |-> 0, max |-> 0]
           X == Streaks
           n == Len(trades)
<1>1. Losses(trades) = Scan(start, step, n)
  BY DEF Losses
<1>2. n \in Nat /\ DOMAIN trades = 1 .. n
  OBVIOUS
<1>3. start \in X
  BY DEF Streaks
<1>4. \A i \in 1 .. n : \A x \in X : Round(i, x) \in X
  <2> SUFFICES ASSUME NEW i \in 1 .. n, NEW x \in X PROVE Round(i, x) \in X
    OBVIOUS
  <2>1. x.streak \in Nat /\ x.max \in Nat
    BY DEF Streaks
  <2>2. Run(i, x) \in Nat
    BY <2>1
  <2> HIDE DEF Run
  <2>3. Greater(x.max, Run(i, x)) \in Nat
    BY <2>1, <2>2 DEF Greater
  <2> QED BY <2>2, <2>3 DEF Streaks
<1>5. step \in Rounds(X, n) /\ \A i \in 1 .. n : \A x \in X : step[i][x] = Round(i, x)
  <2> HIDE DEF Round, X
  <2> QED BY <1>2, <1>4 DEF Rounds, X
<1> HIDE DEF step, start, X, n
<1>6. /\ Scan(start, step, n) \in [0 .. n -> X]
      /\ Scan(start, step, n)[0] = start
      /\ \A i \in 1 .. n : Scan(start, step, n)[i] = step[i][Scan(start, step, n)[i - 1]]
  BY ONLY <1>2, <1>3, <1>5, ScanDefinition
<1>7. \A i \in 1 .. n : Losses(trades)[i] = Round(i, Losses(trades)[i - 1])
  BY <1>1, <1>2, <1>5, <1>6
<1>8. ASSUME NEW i \in 1 .. n
      PROVE  /\ Losses(trades)[i].streak = Run(i, Losses(trades)[i - 1])
             /\ Losses(trades)[i].max = Greater(Losses(trades)[i - 1].max, Losses(trades)[i].streak)
  <2> HIDE DEF Run
  <2>1. PICK x : x = Losses(trades)[i - 1]
    OBVIOUS
  <2>2. Losses(trades)[i] = Round(i, x)
    BY <1>7, <2>1
  <2>3. Losses(trades)[i].streak = Run(i, x)
    BY <2>2
  <2>4. Losses(trades)[i].max = Greater(x.max, Run(i, x))
    BY <2>2
  <2> QED BY <2>1, <2>3, <2>4, Zenon
<1> QED BY <1>1, <1>6, <1>8 DEF start, X, n

\* The longest streak that one pass finds is the longest interval of losses.
LEMMA StreakIsLongest ==
  ASSUME engine.trades \in Seq(Trades)
  PROVE  MaxConsecutiveLosses(engine.trades) = Max(LosingStreaks \union {0})
<1> DEFINE n == Len(engine.trades)
           f == Losses(engine.trades)
           Lost(i) == engine.trades[i].net < 0
           Interval(a, l) == \A i \in a + 1 .. a + l : Lost(i)
           Running(k) == /\ f[k].streak <= k
                         /\ Interval(k - f[k].streak, f[k].streak)
                         /\ f[k].streak < k => ~Lost(k - f[k].streak)
           Longest(k) == /\ f[k].max # 0 => /\ f[k].max <= k
                                            /\ \E a \in 0 .. k - f[k].max : Interval(a, f[k].max)
                         /\ \A l \in 1 .. k : \A a \in 0 .. k - l : Interval(a, l) => l <= f[k].max
           S == {k \in Nat : k <= n => Running(k) /\ Longest(k)}
           T == LosingStreaks \union {0}
<1>1. n \in Nat
  OBVIOUS
<1>2. /\ \A i \in 0 .. n : f[i].streak \in Nat /\ f[i].max \in Nat
      /\ f[0].streak = 0 /\ f[0].max = 0
      /\ \A i \in 1 .. n : /\ f[i].streak = IF Lost(i) THEN f[i - 1].streak + 1 ELSE 0
                           /\ f[i].max = Greater(f[i - 1].max, f[i].streak)
  <2>1. /\ f \in [0 .. n -> Streaks]
        /\ f[0] = [streak |-> 0, max |-> 0]
        /\ \A i \in 1 .. n : /\ f[i].streak = IF Lost(i) THEN f[i - 1].streak + 1 ELSE 0
                             /\ f[i].max = Greater(f[i - 1].max, f[i].streak)
    BY LossesIs
  <2>2. f[0].streak = 0 /\ f[0].max = 0
    BY <2>1
  <2> HIDE DEF f, n, Lost
  <2>3. \A i \in 0 .. n : f[i] \in Streaks
    BY <2>1
  <2>4. \A i \in 0 .. n : f[i].streak \in Nat /\ f[i].max \in Nat
    BY <2>3 DEF Streaks
  <2> QED BY <2>1, <2>2, <2>4
<1> HIDE DEF f, n, Lost
<1>3. 0 \in S
  BY <1>2
<1>4. ASSUME NEW k \in Nat, k \in S PROVE k + 1 \in S
  <2> SUFFICES ASSUME k + 1 <= n PROVE Running(k + 1) /\ Longest(k + 1)
    <3> HIDE DEF Running, Longest
    <3> QED OBVIOUS
  <2>1. k + 1 \in 1 .. n /\ k + 1 \in 0 .. n /\ k \in 0 .. n /\ (k + 1) - 1 = k
    BY <1>1
  <2>2. PICK s, z, m, w : s = f[k].streak /\ z = f[k + 1].streak /\ m = f[k].max /\ w = f[k + 1].max
    OBVIOUS
  <2>3. s \in Nat /\ z \in Nat /\ m \in Nat /\ w \in Nat
    BY <1>2, <2>1, <2>2
  <2>4. z = (IF Lost(k + 1) THEN s + 1 ELSE 0) /\ w \in {m, z} /\ m <= w /\ z <= w
    <3>1. z = (IF Lost(k + 1) THEN s + 1 ELSE 0) /\ w = Greater(m, z)
      BY <1>2, <2>1, <2>2
    <3> QED BY <2>3, <3>1 DEF Greater
  <2>5. /\ s <= k /\ (s < k => ~Lost(k - s))
        /\ \A i \in (k - s) + 1 .. (k - s) + s : Lost(i)
    BY <1>4, <2>1, <2>2
  <2>6. /\ m # 0 => m <= k /\ \E a \in 0 .. k - m : Interval(a, m)
        /\ \A l \in 1 .. k : \A a \in 0 .. k - l : Interval(a, l) => l <= m
    BY <1>4, <2>1, <2>2
  <2>7. /\ z <= k + 1 /\ (z < k + 1 => ~Lost((k + 1) - z))
        /\ \A i \in ((k + 1) - z) + 1 .. ((k + 1) - z) + z : Lost(i)
    <3>1. CASE Lost(k + 1)
      <4>1. z = s + 1 /\ (k + 1) - z = k - s
        BY <2>3, <2>4, <3>1
      <4>2. \A i \in (k - s) + 1 .. (k - s) + (s + 1) : i \in (k - s) + 1 .. (k - s) + s \/ i = k + 1
        BY <2>3, <2>5
      <4>3. \A i \in (k - s) + 1 .. (k - s) + (s + 1) : Lost(i)
        BY <2>5, <3>1, <4>2
      <4>4. z <= k + 1 /\ (z < k + 1 => s < k)
        BY <2>3, <2>5, <4>1
      <4> QED BY <2>5, <4>1, <4>3, <4>4
    <3>2. CASE ~Lost(k + 1)
      <4>1. z = 0 /\ (k + 1) - z = k + 1
        BY <2>4, <3>2
      <4>2. \A i \in (k + 1) + 1 .. (k + 1) + 0 : FALSE
        BY SMT
      <4> QED BY <3>2, <4>1, <4>2
    <3> QED BY <3>1, <3>2
  <2>8. w # 0 => w <= k + 1 /\ \E a \in 0 .. (k + 1) - w : Interval(a, w)
    <3>1. CASE w = m
      <4>1. SUFFICES ASSUME m # 0 PROVE m <= k + 1 /\ \E a \in 0 .. (k + 1) - m : Interval(a, m)
        BY <3>1
      <4>2. PICK a \in 0 .. k - m : m <= k /\ Interval(a, m)
        BY <2>6, <4>1
      <4>3. a \in 0 .. (k + 1) - m /\ m <= k + 1
        BY <2>3, <4>2
      <4> HIDE DEF Interval
      <4> QED BY <4>2, <4>3
    <3>2. CASE w = z
      <4>1. (k + 1) - z \in 0 .. (k + 1) - z /\ Interval((k + 1) - z, z)
        BY <2>3, <2>7
      <4> HIDE DEF Interval
      <4> QED BY <2>7, <3>2, <4>1
    <3> QED BY <2>4, <3>1, <3>2
  <2>9. ASSUME NEW l \in 1 .. k + 1, NEW a \in 0 .. (k + 1) - l, Interval(a, l) PROVE l <= w
    <3>1. CASE a + l <= k
      <4>1. l \in 1 .. k /\ a \in 0 .. k - l
        BY <3>1
      <4>2. l <= m
        <5> HIDE DEF Interval
        <5> QED BY <2>6, <2>9, <4>1
      <4> QED BY <2>3, <2>4, <4>2
    <3>2. CASE a + l = k + 1
      <4>1. l <= z
        <5>1. SUFFICES ASSUME z < l PROVE FALSE
          BY <2>3
        <5>2. (k + 1) - z \in a + 1 .. a + l /\ z < k + 1
          BY <2>3, <3>2, <5>1
        <5> QED BY <2>7, <2>9, <5>2
      <4> QED BY <2>3, <2>4, <4>1
    <3> QED BY <3>1, <3>2
  <2>10. Running(k + 1)
    BY <2>2, <2>7
  <2>11. Longest(k + 1)
    <3> HIDE DEF Interval
    <3> QED BY <2>2, <2>8, <2>9
  <2> QED BY <2>10, <2>11
<1> HIDE DEF S
<1>5. Nat \subseteq S
  BY <1>3, <1>4, SetInduction
<1>6. Longest(n)
  <2>1. n \in S
    BY <1>1, <1>5
  <2> HIDE DEF Running, Longest
  <2> QED BY <1>1, <2>1 DEF S
<1>7. f[n].max \in Nat
  BY <1>1, <1>2
<1>8. LosingStreaks = {l \in 1 .. n : \E a \in 0 .. n - l : Interval(a, l)}
  BY DEF LosingStreaks, Lost, n
<1> HIDE DEF Interval
<1>9. T \in SUBSET Int /\ \A x \in T : x <= f[n].max
  BY <1>1, <1>6, <1>7, <1>8
<1>10. f[n].max \in T
  <2>1. CASE f[n].max = 0
    BY <2>1
  <2>2. CASE f[n].max # 0
    BY <1>1, <1>6, <1>7, <1>8, <2>2
  <2> QED BY <2>1, <2>2
<1> HIDE DEF T
<1>11. Max(T) = f[n].max
  BY ONLY <1>9, <1>10, MaxIs
<1> QED BY <1>11 DEF MaxConsecutiveLosses, T, f, n

-----------------------------------------------------------------------------
(***************************************************************************)
(* The engine without a step.                                              *)
(***************************************************************************)
\* What an engine holds.
LEMMA EngineIs ==
  ASSUME NEW e \in Engines
  PROVE  /\ e.balance \in Int /\ e.equity \in Int /\ e.used \in Int /\ e.free \in Int
         /\ e.realized \in Int /\ e.unrealized \in Int
         /\ e.position \in Positions \union {None}
         /\ e.pending \in Seq(Pendings) /\ e.sequence \in Nat /\ e.trades \in Seq(Trades)
         /\ e.rejections \in Seq(Rejections)
BY DEF Engines

\* A position is a record, None is not.
LEMMA PositionIs ==
  ASSUME NEW e \in Engines, e.position # None
  PROVE  /\ e.position \in Positions
         /\ e.position.sequence \in Nat /\ e.position.side \in Sides /\ e.position.volume \in Int
         /\ e.position.requested \in Nat /\ e.position.due \in Nat /\ e.position.executed \in Nat
         /\ e.position.quote \in Int /\ e.position.price \in Int /\ e.position.mid2 \in Int
         /\ e.position.fee \in Int /\ e.position.before \in Int
BY EngineIs DEF Positions

\* What a waiting request holds.
LEMMA PendingIs ==
  ASSUME NEW e \in Engines, NEW i \in DOMAIN e.pending
  PROVE  /\ e.pending[i] \in Pendings /\ e.pending[i].type \in Kinds
         /\ e.pending[i].sequence \in Nat /\ e.pending[i].requested \in Nat
         /\ e.pending[i].due \in Nat
<1>1. e.pending \in Seq(Pendings)
  BY EngineIs
<1>2. e.pending[i] \in Pendings
  BY <1>1
<1> QED BY <1>2 DEF Pendings

\* What a trade holds.
LEMMA TradeIs ==
  ASSUME NEW e \in Engines, NEW i \in DOMAIN e.trades
  PROVE  /\ e.trades[i].entrySequence \in Nat /\ e.trades[i].exitSequence \in Nat
         /\ e.trades[i].requested \in Nat /\ e.trades[i].due \in Nat
         /\ e.trades[i].executed \in Nat /\ e.trades[i].exitRequested \in Nat
         /\ e.trades[i].exitDue \in Nat /\ e.trades[i].exited \in Nat
         /\ e.trades[i].gross \in Int /\ e.trades[i].spread \in Int /\ e.trades[i].slippage \in Int
         /\ e.trades[i].commission \in Int /\ e.trades[i].net \in Int
         /\ e.trades[i].before \in Int /\ e.trades[i].after \in Int
<1>1. e.trades \in Seq(Trades)
  BY EngineIs
<1>2. e.trades[i] \in Trades
  BY <1>1
<1> QED BY <1>2 DEF Trades

\* What a rejection holds.
LEMMA RejectionIs ==
  ASSUME NEW e \in Engines, NEW i \in DOMAIN e.rejections
  PROVE  e.rejections[i].sequence \in Nat
<1>1. e.rejections \in Seq(Rejections)
  BY EngineIs
<1>2. e.rejections[i] \in Rejections
  BY <1>1
<1> QED BY <1>2 DEF Rejections

\* The queue of a sound engine has no or one request.
LEMMA QueueIs ==
  ASSUME NEW e \in Engines, Queued(e)
  PROVE  \/ e.pending = <<>>
         \/ \E r \in Pendings :
              /\ e.pending = <<r>>
              /\ r.type = "OPEN" <=> e.position = None
              /\ r.type = "OPEN" => r.order \in Requests
<1>1. e.pending \in Seq(Pendings) /\ Len(e.pending) <= 1
  BY EngineIs DEF Queued
<1>2. CASE Len(e.pending) = 0
  BY <1>1, <1>2, EmptySeq
<1>3. CASE Len(e.pending) = 1
  <2>1. PICK r : r = e.pending[1]
    OBVIOUS
  <2>2. e.pending = <<r>> /\ r \in Pendings /\ 1 \in DOMAIN e.pending
    BY <1>1, <1>3, <2>1
  <2>3. (r.type = "OPEN" <=> e.position = None) /\ (r.type = "OPEN" => r.order \in Requests)
    BY <2>1, <2>2 DEF Queued
  <2> QED BY <2>2, <2>3
<1>4. Len(e.pending) = 0 \/ Len(e.pending) = 1
  <2>1. PICK n \in Nat : n = Len(e.pending)
    BY <1>1
  <2>2. n <= 1
    BY <1>1, <2>1
  <2>3. n = 0 \/ n = 1
    BY <2>2
  <2> QED BY <2>1, <2>3
<1> QED BY <1>2, <1>3, <1>4, Zenon

\* Openings among requests are counted one by one.
LEMMA OpensAppend ==
  ASSUME NEW X, NEW s \in Seq(X), NEW x
  PROVE  /\ Opens(s) \in Nat
         /\ Opens(Append(s, x)) = Opens(s) + (IF x.type = "OPEN" THEN 1 ELSE 0)
<1> DEFINE A == {i \in DOMAIN s : s[i].type = "OPEN"}
           B == {i \in DOMAIN Append(s, x) : Append(s, x)[i].type = "OPEN"}
           n == Len(s) + 1
<1>1. IsFiniteSet(A)
  <2>1. IsFiniteSet(1 .. Len(s)) /\ DOMAIN s = 1 .. Len(s)
    BY FS_Interval
  <2>2. A \in SUBSET (1 .. Len(s))
    BY <2>1
  <2> QED BY <2>1, <2>2, FS_Subset
<1>2. Cardinality(A) \in Nat
  BY <1>1, FS_CardinalityType
<1>3. /\ DOMAIN Append(s, x) = 1 .. n /\ DOMAIN s = 1 .. Len(s) /\ Len(s) \in Nat
      /\ Append(s, x)[n] = x /\ \A i \in 1 .. Len(s) : Append(s, x)[i] = s[i]
  OBVIOUS
<1>4. n \notin A
  BY <1>3
<1>5. B = IF x.type = "OPEN" THEN A \union {n} ELSE A
  <2>1. \A i : i \in 1 .. n <=> i \in 1 .. Len(s) \/ i = n
    BY <1>3
  <2> QED BY <1>3, <2>1
<1>6. Cardinality(A \union {n}) = Cardinality(A) + 1
  <2> HIDE DEF A, n
  <2> QED BY <1>1, <1>4, FS_AddElement
<1>7. Opens(s) = Cardinality(A) /\ Opens(Append(s, x)) = Cardinality(B)
  BY Zenon DEF Opens
<1>8. Cardinality(B) = Cardinality(A) + (IF x.type = "OPEN" THEN 1 ELSE 0)
  <2> HIDE DEF A, B
  <2>1. CASE x.type = "OPEN"
    BY <1>5, <1>6, <2>1
  <2>2. CASE x.type # "OPEN"
    BY <1>2, <1>5, <2>2
  <2> QED BY <2>1, <2>2
<1> QED BY <1>2, <1>7, <1>8

\* No opening among no requests.
LEMMA OpensEmpty == Opens(<<>>) = 0
<1>1. {i \in DOMAIN <<>> : <<>>[i].type = "OPEN"} = {}
  OBVIOUS
<1> QED BY <1>1, FS_EmptySet DEF Opens

\* The openings among one request.
LEMMA OpensOne ==
  ASSUME NEW r PROVE Opens(<<r>>) = IF r.type = "OPEN" THEN 1 ELSE 0
<1>1. <<>> \in Seq({}) /\ Append(<<>>, r) = <<r>>
  OBVIOUS
<1>2. Opens(Append(<<>>, r)) = Opens(<<>>) + (IF r.type = "OPEN" THEN 1 ELSE 0)
  BY <1>1, OpensAppend
<1> QED BY <1>1, <1>2, OpensEmpty

\* The columns of the trades.
LEMMA ColumnsAre ==
  ASSUME NEW s \in Seq(Trades)
  PROVE  /\ Gross(s) \in Seq(Int) /\ Net(s) \in Seq(Int) /\ Spread(s) \in Seq(Int)
         /\ SlippageCost(s) \in Seq(Int) /\ Fees(s) \in Seq(Int)
         /\ Len(Gross(s)) = Len(s) /\ Len(Net(s)) = Len(s) /\ Len(Spread(s)) = Len(s)
         /\ Len(SlippageCost(s)) = Len(s) /\ Len(Fees(s)) = Len(s)
<1>1. Len(s) \in Nat /\ DOMAIN s = 1 .. Len(s)
  OBVIOUS
<1>2. ASSUME NEW i \in 1 .. Len(s)
      PROVE  /\ s[i].gross \in Int /\ s[i].net \in Int /\ s[i].spread \in Int
             /\ s[i].slippage \in Int /\ s[i].commission \in Int
  <2>1. s[i] \in Trades
    OBVIOUS
  <2> QED BY <2>1 DEF Trades
<1> QED BY <1>1, <1>2 DEF Gross, Net, Spread, SlippageCost, Fees

\* One trade more is one figure more in each column.
LEMMA ColumnsAppend ==
  ASSUME NEW s \in Seq(Trades), NEW x \in Trades
  PROVE  /\ Gross(Append(s, x)) = Append(Gross(s), x.gross)
         /\ Net(Append(s, x)) = Append(Net(s), x.net)
         /\ Spread(Append(s, x)) = Append(Spread(s), x.spread)
         /\ SlippageCost(Append(s, x)) = Append(SlippageCost(s), x.slippage)
         /\ Fees(Append(s, x)) = Append(Fees(s), x.commission)
<1> DEFINE a == Append(s, x)
<1>1. /\ a \in Seq(Trades) /\ Len(a) = Len(s) + 1 /\ Len(s) \in Nat
      /\ a[Len(s) + 1] = x /\ \A i \in 1 .. Len(s) : a[i] = s[i]
  BY AppendProperties
<1>2. /\ x.gross \in Int /\ x.net \in Int /\ x.spread \in Int
      /\ x.slippage \in Int /\ x.commission \in Int
  BY DEF Trades
<1> HIDE DEF a
<1>3. Gross(a) = Append(Gross(s), x.gross)
  <2>1. /\ Gross(a) \in Seq(Int) /\ Gross(s) \in Seq(Int)
        /\ Len(Gross(a)) = Len(Gross(s)) + 1 /\ Len(Gross(s)) = Len(s)
    BY <1>1, ColumnsAre
  <2>2. Gross(a)[Len(s) + 1] = x.gross /\ \A i \in 1 .. Len(s) : Gross(a)[i] = Gross(s)[i]
    BY <1>1 DEF Gross
  <2> QED BY <1>2, <2>1, <2>2, AppendsTo
<1>4. Net(a) = Append(Net(s), x.net)
  <2>1. /\ Net(a) \in Seq(Int) /\ Net(s) \in Seq(Int)
        /\ Len(Net(a)) = Len(Net(s)) + 1 /\ Len(Net(s)) = Len(s)
    BY <1>1, ColumnsAre
  <2>2. Net(a)[Len(s) + 1] = x.net /\ \A i \in 1 .. Len(s) : Net(a)[i] = Net(s)[i]
    BY <1>1 DEF Net
  <2> QED BY <1>2, <2>1, <2>2, AppendsTo
<1>5. Spread(a) = Append(Spread(s), x.spread)
  <2>1. /\ Spread(a) \in Seq(Int) /\ Spread(s) \in Seq(Int)
        /\ Len(Spread(a)) = Len(Spread(s)) + 1 /\ Len(Spread(s)) = Len(s)
    BY <1>1, ColumnsAre
  <2>2. Spread(a)[Len(s) + 1] = x.spread /\ \A i \in 1 .. Len(s) : Spread(a)[i] = Spread(s)[i]
    BY <1>1 DEF Spread
  <2> QED BY <1>2, <2>1, <2>2, AppendsTo
<1>6. SlippageCost(a) = Append(SlippageCost(s), x.slippage)
  <2>1. /\ SlippageCost(a) \in Seq(Int) /\ SlippageCost(s) \in Seq(Int)
        /\ Len(SlippageCost(a)) = Len(SlippageCost(s)) + 1 /\ Len(SlippageCost(s)) = Len(s)
    BY <1>1, ColumnsAre
  <2>2. /\ SlippageCost(a)[Len(s) + 1] = x.slippage
        /\ \A i \in 1 .. Len(s) : SlippageCost(a)[i] = SlippageCost(s)[i]
    BY <1>1 DEF SlippageCost
  <2> QED BY <1>2, <2>1, <2>2, AppendsTo
<1>7. Fees(a) = Append(Fees(s), x.commission)
  <2>1. /\ Fees(a) \in Seq(Int) /\ Fees(s) \in Seq(Int)
        /\ Len(Fees(a)) = Len(Fees(s)) + 1 /\ Len(Fees(s)) = Len(s)
    BY <1>1, ColumnsAre
  <2>2. Fees(a)[Len(s) + 1] = x.commission /\ \A i \in 1 .. Len(s) : Fees(a)[i] = Fees(s)[i]
    BY <1>1 DEF Fees
  <2> QED BY <1>2, <2>1, <2>2, AppendsTo
<1> QED BY <1>3, <1>4, <1>5, <1>6, <1>7 DEF a

\* The totals of one trade more.
LEMMA TotalsAppend ==
  ASSUME NEW s \in Seq(Trades), NEW x \in Trades
  PROVE  /\ Total(Gross(Append(s, x))) = Total(Gross(s)) + x.gross
         /\ Total(Net(Append(s, x))) = Total(Net(s)) + x.net
         /\ Total(Spread(Append(s, x))) = Total(Spread(s)) + x.spread
         /\ Total(SlippageCost(Append(s, x))) = Total(SlippageCost(s)) + x.slippage
         /\ Total(Fees(Append(s, x))) = Total(Fees(s)) + x.commission
         /\ Total(Gross(s)) \in Int /\ Total(Net(s)) \in Int /\ Total(Spread(s)) \in Int
         /\ Total(SlippageCost(s)) \in Int /\ Total(Fees(s)) \in Int
<1>1. /\ x.gross \in Int /\ x.net \in Int /\ x.spread \in Int
      /\ x.slippage \in Int /\ x.commission \in Int
  BY DEF Trades
<1>2. Total(Gross(Append(s, x))) = Total(Gross(s)) + x.gross /\ Total(Gross(s)) \in Int
  BY <1>1, ColumnsAre, ColumnsAppend, TotalAppend, TotalType
<1>3. Total(Net(Append(s, x))) = Total(Net(s)) + x.net /\ Total(Net(s)) \in Int
  BY <1>1, ColumnsAre, ColumnsAppend, TotalAppend, TotalType
<1>4. Total(Spread(Append(s, x))) = Total(Spread(s)) + x.spread /\ Total(Spread(s)) \in Int
  BY <1>1, ColumnsAre, ColumnsAppend, TotalAppend, TotalType
<1>5. /\ Total(SlippageCost(Append(s, x))) = Total(SlippageCost(s)) + x.slippage
      /\ Total(SlippageCost(s)) \in Int
  BY <1>1, ColumnsAre, ColumnsAppend, TotalAppend, TotalType
<1>6. Total(Fees(Append(s, x))) = Total(Fees(s)) + x.commission /\ Total(Fees(s)) \in Int
  BY <1>1, ColumnsAre, ColumnsAppend, TotalAppend, TotalType
<1> QED BY <1>2, <1>3, <1>4, <1>5, <1>6

-----------------------------------------------------------------------------
(***************************************************************************)
(* Steps that leave the trades, the position and the balance alone.        *)
(***************************************************************************)
\* What such a step leaves alone.
Keeps(n, e) ==
  /\ n \in Engines
  /\ n.trades = e.trades /\ n.position = e.position /\ n.pending \in {e.pending, <<>>}
  /\ n.sequence >= e.sequence /\ n.balance = e.balance /\ n.realized = e.realized
  /\ n.position = None => Flat(n)

\* Such a step keeps the engine sound and nothing of it comes to be of the future.
LEMMA KeepsSound ==
  ASSUME NEW e, Sound(e), NEW n, Keeps(n, e), Numbered(n)
  PROVE  /\ Sound(n)
         /\ \A now : Timely(e, now) => Timely(n, now)
<1>1. e \in Engines /\ Queued(e) /\ Continued(e) /\ Explained(e) /\ Totalled(e)
  BY DEF Sound
<1>2. n \in Engines /\ n.sequence \in Nat /\ e.sequence \in Nat /\ n.sequence >= e.sequence
  BY <1>1, EngineIs DEF Keeps
<1>3. n.trades = e.trades /\ n.position = e.position /\ (n.pending = e.pending \/ n.pending = <<>>)
  BY DEF Keeps
<1>4. Queued(n)
  BY <1>1, <1>3 DEF Queued
<1>5. Continued(n)
  <2>1. Ordered(n.trades)
    BY <1>1, <1>3 DEF Continued
  <2>2. ASSUME NEW i \in DOMAIN n.trades PROVE n.trades[i].exitSequence <= n.sequence
    <3>1. e.trades[i].exitSequence <= e.sequence /\ e.trades[i].exitSequence \in Nat
      BY <1>1, <1>3, TradeIs DEF Continued
    <3> QED BY <1>2, <1>3, <3>1
  <2>3. n.position # None =>
          /\ n.position.requested <= n.position.due /\ n.position.due <= n.position.executed
          /\ n.position.sequence <= n.sequence
          /\ \A i \in DOMAIN n.trades :
               /\ n.trades[i].exited <= n.position.requested
               /\ n.trades[i].exitSequence < n.position.sequence
    <3>1. SUFFICES ASSUME e.position # None PROVE e.position.sequence <= n.sequence
      BY <1>1, <1>3 DEF Continued
    <3>2. e.position.sequence <= e.sequence /\ e.position.sequence \in Nat
      BY <1>1, <3>1, PositionIs DEF Continued
    <3> QED BY <1>2, <3>2
  <2>4. ASSUME NEW k \in DOMAIN n.pending
        PROVE  /\ n.pending[k].requested <= n.pending[k].due /\ n.pending[k].sequence <= n.sequence
               /\ n.position # None => /\ n.position.executed <= n.pending[k].requested
                                       /\ n.position.sequence < n.pending[k].sequence
               /\ \A i \in DOMAIN n.trades :
                    /\ n.trades[i].exited <= n.pending[k].requested
                    /\ n.trades[i].exitSequence < n.pending[k].sequence
    <3>1. n.pending = e.pending /\ k \in DOMAIN e.pending
      BY <1>3
    <3>2. e.pending[k].sequence <= e.sequence /\ e.pending[k].sequence \in Nat
      BY <1>1, <3>1, PendingIs DEF Continued
    <3>3. e.pending[k].sequence <= n.sequence
      BY <1>2, <3>2
    <3> QED BY <1>1, <1>3, <3>1, <3>3 DEF Continued
  <2> QED BY <2>1, <2>2, <2>3, <2>4 DEF Continued
<1>6. Explained(n)
  BY <1>1, <1>3 DEF Explained, Keeps
<1>7. Totalled(n)
  BY <1>1, <1>3 DEF Totalled, Keeps
<1>8. \A now : Timely(e, now) => Timely(n, now)
  BY <1>3 DEF Timely
<1> QED BY <1>2, <1>4, <1>5, <1>6, <1>7, <1>8 DEF Sound

\* Numbers stay new when none is taken.
LEMMA NumbersStay ==
  ASSUME NEW e, Sound(e), NEW n, Keeps(n, e), n.rejections = e.rejections
  PROVE  Numbered(n)
<1>1. e \in Engines /\ Numbered(e)
  BY DEF Sound
<1>2. n.sequence \in Nat /\ e.sequence \in Nat /\ n.sequence >= e.sequence
  BY <1>1, EngineIs DEF Keeps
<1>3. Taken(n) \subseteq Taken(e)
  BY DEF Taken, Keeps
<1>4. ASSUME NEW i \in DOMAIN n.rejections
      PROVE  n.rejections[i].sequence <= n.sequence /\ n.rejections[i].sequence \notin Taken(n)
  <2>1. /\ e.rejections[i].sequence <= e.sequence /\ e.rejections[i].sequence \notin Taken(e)
        /\ e.rejections[i].sequence \in Nat
    BY <1>1, RejectionIs DEF Numbered
  <2> QED BY <1>2, <1>3, <2>1
<1>5. \A i, j \in DOMAIN n.rejections :
        i < j => n.rejections[i].sequence < n.rejections[j].sequence
  BY <1>1 DEF Numbered
<1> QED BY <1>4, <1>5 DEF Numbered

\* The numbers taken have been given out.
LEMMA TakenBelow ==
  ASSUME NEW e, Sound(e)
  PROVE  \A x \in Taken(e) : x \in Nat /\ x <= e.sequence
<1>1. e \in Engines /\ Continued(e) /\ e.sequence \in Nat
  BY EngineIs DEF Sound
<1>2. ASSUME NEW i \in DOMAIN e.pending
      PROVE  e.pending[i].sequence \in Nat /\ e.pending[i].sequence <= e.sequence
  BY <1>1, PendingIs DEF Continued
<1>3. ASSUME NEW i \in DOMAIN e.trades
      PROVE  /\ e.trades[i].exitSequence \in Nat /\ e.trades[i].exitSequence <= e.sequence
             /\ e.trades[i].entrySequence \in Nat /\ e.trades[i].entrySequence <= e.sequence
  <2>1. /\ e.trades[i].exitSequence <= e.sequence
        /\ e.trades[i].entrySequence < e.trades[i].exitSequence
    BY <1>1 DEF Continued, Ordered
  <2>2. e.trades[i].exitSequence \in Nat /\ e.trades[i].entrySequence \in Nat
    BY <1>1, TradeIs
  <2> QED BY <1>1, <2>1, <2>2
<1>4. e.position # None => e.position.sequence \in Nat /\ e.position.sequence <= e.sequence
  BY <1>1, PositionIs DEF Continued
<1> QED BY <1>2, <1>3, <1>4 DEF Taken

\* _reject.
LEMMA RefuseSound ==
  ASSUME NEW e, Sound(e), NEW type \in Kinds, NEW reason \in Refusals
  PROVE  /\ Sound(Refuse(e, type, reason))
         /\ \A now : Timely(e, now) => Timely(Refuse(e, type, reason), now)
         /\ Refuse(e, type, reason).pending = e.pending
         /\ Refuse(e, type, reason).position = e.position
         /\ Answers(Refuse(e, type, reason)) = Answers(e) + (IF type = "OPEN" THEN 1 ELSE 0)
<1> DEFINE r == [sequence |-> e.sequence + 1, type |-> type, reason |-> reason]
<1>1. e \in Engines /\ Numbered(e) /\ Explained(e)
  BY DEF Sound
<1>2. e.sequence \in Nat /\ e.rejections \in Seq(Rejections)
  BY <1>1, EngineIs
<1>3. r \in Rejections /\ r.sequence = e.sequence + 1 /\ r.type = type
  BY <1>2 DEF Rejections
<1>4. PICK n : n = Refuse(e, type, reason)
  OBVIOUS
<1>5. n = [e EXCEPT !.sequence = e.sequence + 1, !.rejections = Append(e.rejections, r)]
  BY <1>4 DEF Refuse
<1> HIDE DEF r
<1>6. n \in Engines
  <2>1. Append(e.rejections, r) \in Seq(Rejections) /\ e.sequence + 1 \in Nat
    BY <1>2, <1>3, AppendProperties
  <2> QED BY <1>1, <1>5, <2>1 DEF Engines
<1>7. /\ n.sequence = e.sequence + 1 /\ n.rejections = Append(e.rejections, r)
      /\ n.trades = e.trades /\ n.position = e.position /\ n.pending = e.pending
      /\ n.balance = e.balance /\ n.realized = e.realized /\ n.equity = e.equity
      /\ n.free = e.free /\ n.used = e.used /\ n.unrealized = e.unrealized
  BY <1>1, <1>5 DEF Engines
<1>8. Keeps(n, e)
  <2>1. n.position = None => Flat(n)
    BY <1>1, <1>7 DEF Explained, Flat
  <2> QED BY <1>2, <1>6, <1>7, <2>1 DEF Keeps
<1>9. Numbered(n)
  <2>1. PICK m \in Nat : m = Len(e.rejections)
    BY <1>2
  <2>2. /\ DOMAIN n.rejections = 1 .. m + 1 /\ DOMAIN e.rejections = 1 .. m
        /\ n.rejections[m + 1] = r /\ \A i \in 1 .. m : n.rejections[i] = e.rejections[i]
    BY <1>2, <1>7, <2>1
  <2>3. \A i \in 1 .. m + 1 : i \in 1 .. m \/ i = m + 1
    BY SMT
  <2>4. Taken(n) = Taken(e)
    BY <1>7 DEF Taken
  <2>5. ASSUME NEW i \in 1 .. m
        PROVE  /\ e.rejections[i].sequence \in Nat /\ e.rejections[i].sequence <= e.sequence
               /\ e.rejections[i].sequence \notin Taken(e)
    BY <1>1, <2>2, RejectionIs DEF Numbered
  <2>6. ASSUME NEW i \in 1 .. m + 1
        PROVE  n.rejections[i].sequence <= n.sequence /\ n.rejections[i].sequence \notin Taken(n)
    <3>1. CASE i \in 1 .. m
      <4>1. n.rejections[i] = e.rejections[i]
        BY <2>2, <3>1
      <4> QED BY <1>2, <1>7, <2>4, <2>5, <3>1, <4>1
    <3>2. CASE i = m + 1
      <4>1. e.sequence + 1 \notin Taken(e)
        BY <1>2, TakenBelow
      <4> QED BY <1>2, <1>3, <1>7, <2>2, <2>4, <3>2, <4>1
    <3> QED BY <2>3, <3>1, <3>2
  <2>7. ASSUME NEW i \in 1 .. m + 1, NEW j \in 1 .. m + 1, i < j
        PROVE  n.rejections[i].sequence < n.rejections[j].sequence
    <3>1. i \in 1 .. m
      BY <2>7
    <3>2. CASE j \in 1 .. m
      <4>1. n.rejections[i] = e.rejections[i] /\ n.rejections[j] = e.rejections[j]
        BY <2>2, <3>1, <3>2
      <4>2. e.rejections[i].sequence < e.rejections[j].sequence
        BY <1>1, <2>2, <2>7, <3>1, <3>2 DEF Numbered
      <4> QED BY <4>1, <4>2
    <3>3. CASE j = m + 1
      <4>1. n.rejections[i] = e.rejections[i] /\ n.rejections[j] = r
        BY <2>2, <3>1, <3>3
      <4> QED BY <1>2, <1>3, <2>5, <3>1, <4>1
    <3> QED BY <2>3, <3>2, <3>3
  <2> QED BY <2>2, <2>6, <2>7 DEF Numbered
<1>10. Sound(n) /\ \A now : Timely(e, now) => Timely(n, now)
  BY <1>8, <1>9, KeepsSound
<1>11. Answers(n) = Answers(e) + (IF type = "OPEN" THEN 1 ELSE 0)
  <2>1. Opens(n.rejections) = Opens(e.rejections) + (IF type = "OPEN" THEN 1 ELSE 0)
    BY <1>2, <1>3, <1>7, OpensAppend
  <2>2. Opens(e.rejections) \in Nat /\ Opens(e.pending) \in Nat /\ Len(e.trades) \in Nat
    BY <1>1, EngineIs, OpensAppend
  <2>3. Held(n) = Held(e) /\ Held(e) \in Nat
    BY <1>7 DEF Held
  <2> QED BY <1>7, <2>1, <2>2, <2>3 DEF Answers
<1> QED BY <1>4, <1>7, <1>10, <1>11

-----------------------------------------------------------------------------
(***************************************************************************)
(* A request leaves the queue.                                             *)
(***************************************************************************)
\* The queue is emptied.
Dropped(e) == [e EXCEPT !.pending = <<>>]

\* ... and a number is given out.
Bumped(e) == [e EXCEPT !.sequence = @ + 1, !.pending = <<>>]

\* A request that has left the queue of e: later than what e holds, in time and
\* in numbers.
Served(e, r) ==
  /\ r.sequence \in Nat /\ r.requested \in Nat /\ r.due \in Nat
  /\ r.requested <= r.due /\ r.sequence <= e.sequence
  /\ e.position # None => e.position.executed <= r.requested /\ e.position.sequence < r.sequence
  /\ \A i \in DOMAIN e.trades :
       e.trades[i].exited <= r.requested /\ e.trades[i].exitSequence < r.sequence
  /\ \A i \in DOMAIN e.rejections : e.rejections[i].sequence # r.sequence

\* Emptying the queue changes nothing else.
LEMMA DroppedIs ==
  ASSUME NEW e \in Engines
  PROVE  /\ Dropped(e) \in Engines /\ Dropped(e).pending = <<>>
         /\ Dropped(e).trades = e.trades /\ Dropped(e).position = e.position
         /\ Dropped(e).rejections = e.rejections /\ Dropped(e).sequence = e.sequence
         /\ Dropped(e).balance = e.balance /\ Dropped(e).realized = e.realized
         /\ Dropped(e).equity = e.equity /\ Dropped(e).free = e.free
         /\ Dropped(e).used = e.used /\ Dropped(e).unrealized = e.unrealized
<1>1. <<>> \in Seq(Pendings)
  OBVIOUS
<1> QED BY <1>1 DEF Dropped, Engines

\* Emptying the queue and giving out a number changes nothing else.
LEMMA BumpedIs ==
  ASSUME NEW e \in Engines
  PROVE  /\ Bumped(e) \in Engines /\ Bumped(e).pending = <<>>
         /\ Bumped(e).trades = e.trades /\ Bumped(e).position = e.position
         /\ Bumped(e).rejections = e.rejections /\ Bumped(e).sequence = e.sequence + 1
         /\ Bumped(e).balance = e.balance /\ Bumped(e).realized = e.realized
         /\ Bumped(e).equity = e.equity /\ Bumped(e).free = e.free
         /\ Bumped(e).used = e.used /\ Bumped(e).unrealized = e.unrealized
<1>1. <<>> \in Seq(Pendings) /\ e.sequence + 1 \in Nat
  BY EngineIs
<1> QED BY <1>1 DEF Bumped, Engines

\* An engine whose queue is emptied is sound; what waited is no longer counted.
LEMMA DroppedSound ==
  ASSUME NEW e, Sound(e)
  PROVE  /\ Sound(Dropped(e))
         /\ \A now : Timely(e, now) => Timely(Dropped(e), now)
         /\ Answers(Dropped(e)) = Answers(e) - Opens(e.pending)
<1>1. e \in Engines /\ Explained(e) /\ e.sequence \in Nat
  BY EngineIs DEF Sound
<1>2. Keeps(Dropped(e), e)
  <2>1. Dropped(e).position = None => Flat(Dropped(e))
    BY <1>1, DroppedIs DEF Explained, Flat
  <2> QED BY <1>1, <2>1, DroppedIs DEF Keeps
<1>3. Sound(Dropped(e)) /\ \A now : Timely(e, now) => Timely(Dropped(e), now)
  BY <1>1, <1>2, DroppedIs, NumbersStay, KeepsSound
<1>4. Answers(Dropped(e)) = Answers(e) - Opens(e.pending)
  <2>1. Opens(e.rejections) \in Nat /\ Opens(e.pending) \in Nat /\ Len(e.trades) \in Nat
    BY <1>1, EngineIs, OpensAppend
  <2>2. Held(Dropped(e)) = Held(e) /\ Held(e) \in Nat
    BY <1>1, DroppedIs DEF Held
  <2> QED BY <1>1, <2>1, <2>2, DroppedIs, OpensEmpty DEF Answers
<1> QED BY <1>3, <1>4

\* What leaves the queue is later than what stays.
LEMMA DroppedServed ==
  ASSUME NEW e, Sound(e), NEW r \in Pendings, e.pending = <<r>>
  PROVE  Served(Dropped(e), r)
<1>1. e \in Engines /\ Continued(e) /\ Numbered(e)
  BY DEF Sound
<1>2. 1 \in DOMAIN e.pending /\ e.pending[1] = r
  OBVIOUS
<1>3. r.sequence \in Nat /\ r.requested \in Nat /\ r.due \in Nat
  BY DEF Pendings
<1>4. /\ r.requested <= r.due /\ r.sequence <= e.sequence
      /\ e.position # None => e.position.executed <= r.requested /\ e.position.sequence < r.sequence
      /\ \A i \in DOMAIN e.trades :
           e.trades[i].exited <= r.requested /\ e.trades[i].exitSequence < r.sequence
  BY <1>1, <1>2 DEF Continued
<1>5. \A i \in DOMAIN e.rejections : e.rejections[i].sequence # r.sequence
  <2>1. r.sequence \in Taken(e)
    BY <1>2 DEF Taken
  <2> QED BY <1>1, <2>1 DEF Numbered
<1> QED BY <1>1, <1>3, <1>4, <1>5, DroppedIs DEF Served

\* The same when a number is given out, which _check_protection and run do for
\* the close they ask for themselves.
LEMMA BumpedSound ==
  ASSUME NEW e, Sound(e)
  PROVE  /\ Sound(Bumped(e))
         /\ \A now : Timely(e, now) => Timely(Bumped(e), now)
         /\ Answers(Bumped(e)) = Answers(e) - Opens(e.pending)
<1>1. e \in Engines /\ Explained(e) /\ e.sequence \in Nat
  BY EngineIs DEF Sound
<1>2. Keeps(Bumped(e), e)
  <2>1. Bumped(e).position = None => Flat(Bumped(e))
    BY <1>1, BumpedIs DEF Explained, Flat
  <2> QED BY <1>1, <2>1, BumpedIs DEF Keeps
<1>3. Sound(Bumped(e)) /\ \A now : Timely(e, now) => Timely(Bumped(e), now)
  BY <1>1, <1>2, BumpedIs, NumbersStay, KeepsSound
<1>4. Answers(Bumped(e)) = Answers(e) - Opens(e.pending)
  <2>1. Opens(e.rejections) \in Nat /\ Opens(e.pending) \in Nat /\ Len(e.trades) \in Nat
    BY <1>1, EngineIs, OpensAppend
  <2>2. Held(Bumped(e)) = Held(e) /\ Held(e) \in Nat
    BY <1>1, BumpedIs DEF Held
  <2> QED BY <1>1, <2>1, <2>2, BumpedIs, OpensEmpty DEF Answers
<1> QED BY <1>3, <1>4

\* A close at once is later than everything: its number is new.
LEMMA BumpedServed ==
  ASSUME NEW e, Sound(e), NEW now \in Nat, Timely(e, now), NEW r,
         r.sequence = e.sequence + 1, r.requested = now, r.due = now
  PROVE  Served(Bumped(e), r)
<1>1. e \in Engines /\ Continued(e) /\ Numbered(e) /\ e.sequence \in Nat
  BY EngineIs DEF Sound
<1>2. e.position # None => e.position.executed <= now /\ e.position.sequence < e.sequence + 1
  <2>1. e.position # None => e.position.sequence <= e.sequence /\ e.position.sequence \in Nat
    BY <1>1, PositionIs DEF Continued
  <2> QED BY <1>1, <2>1 DEF Timely
<1>3. ASSUME NEW i \in DOMAIN e.trades
      PROVE  e.trades[i].exited <= now /\ e.trades[i].exitSequence < e.sequence + 1
  <2>1. e.trades[i].exitSequence <= e.sequence /\ e.trades[i].exitSequence \in Nat
    BY <1>1, TradeIs DEF Continued
  <2> QED BY <1>1, <2>1 DEF Timely
<1>4. ASSUME NEW i \in DOMAIN e.rejections PROVE e.rejections[i].sequence # e.sequence + 1
  <2>1. e.rejections[i].sequence <= e.sequence /\ e.rejections[i].sequence \in Nat
    BY <1>1, RejectionIs DEF Numbered
  <2> QED BY <1>1, <2>1
<1> QED BY <1>1, <1>2, <1>3, <1>4, BumpedIs DEF Served

\* _mark_to_market.
LEMMA MarkSound ==
  ASSUME NEW e, Sound(e), NEW t, IsTick(t)
  PROVE  /\ Sound(MarkToMarket(e, t))
         /\ \A now : Timely(e, now) => Timely(MarkToMarket(e, t), now)
         /\ MarkToMarket(e, t).position = e.position
         /\ MarkToMarket(e, t).pending = e.pending
         /\ MarkToMarket(e, t).trades = e.trades
         /\ Answers(MarkToMarket(e, t)) = Answers(e)
<1>1. e \in Engines /\ Explained(e)
  BY DEF Sound
<1>2. PICK u : u = IF e.position = None THEN 0
                   ELSE Money(2 * Sign(e.position.side)
                                * (ExitPrice(t, e.position.side) - e.position.price)
                                * e.position.volume, t)
  OBVIOUS
<1>3. u \in Int
  <2>1. CASE e.position = None
    BY <1>2, <2>1
  <2>2. CASE e.position # None
    <3>1. e.position.price \in Int /\ e.position.volume \in Int
      BY <1>1, <2>2, PositionIs
    <3>2. ExitPrice(t, e.position.side) \in Int /\ Sign(e.position.side) \in Int
      BY TickIs DEF ExitPrice, Sign
    <3>3. 2 * Sign(e.position.side) * (ExitPrice(t, e.position.side) - e.position.price)
            * e.position.volume \in Int
      BY <3>1, <3>2
    <3> QED BY <1>2, <2>2, <3>3, MoneyType
  <2> QED BY <2>1, <2>2
<1>4. PICK n : n = MarkToMarket(e, t)
  OBVIOUS
<1>5. n = [e EXCEPT !.unrealized = u, !.equity = e.balance + u, !.free = e.balance + u - e.used]
  BY <1>2, <1>4 DEF MarkToMarket
<1>6. e.balance \in Int /\ e.used \in Int /\ e.sequence \in Nat
  BY <1>1, EngineIs
<1>7. n \in Engines
  <2>1. e.balance + u \in Int /\ e.balance + u - e.used \in Int
    BY <1>3, <1>6
  <2> QED BY <1>1, <1>3, <1>5, <2>1 DEF Engines
<1>8. /\ n.sequence = e.sequence /\ n.rejections = e.rejections
      /\ n.trades = e.trades /\ n.position = e.position /\ n.pending = e.pending
      /\ n.balance = e.balance /\ n.realized = e.realized /\ n.used = e.used
      /\ n.equity = e.balance + u /\ n.unrealized = u /\ n.free = e.balance + u - e.used
  BY <1>1, <1>5 DEF Engines
<1>9. Keeps(n, e)
  <2>1. e.position = None => u = 0 /\ e.used = 0
    BY <1>1, <1>2 DEF Explained, Flat
  <2>2. n.position = None => Flat(n)
    BY <1>6, <1>8, <2>1 DEF Flat
  <2> QED BY <1>6, <1>7, <1>8, <2>2 DEF Keeps
<1>10. Sound(n) /\ \A now : Timely(e, now) => Timely(n, now)
  BY <1>8, <1>9, NumbersStay, KeepsSound
<1>11. Answers(n) = Answers(e)
  BY <1>8 DEF Answers, Held
<1> QED BY <1>4, <1>8, <1>10, <1>11

-----------------------------------------------------------------------------
(***************************************************************************)
(* A request joins the queue.                                              *)
(***************************************************************************)
\* A request is given a number and waits for the latency.
Enqueued(e, type, order, t) ==
  [e EXCEPT !.sequence = @ + 1,
            !.pending = Append(@, [sequence |-> e.sequence + 1, type |-> type, order |-> order,
                                   requested |-> t.time, due |-> t.time + latency])]

\* A request joins an empty queue.
LEMMA EnqueuedSound ==
  ASSUME NEW e, Sound(e), e.pending = <<>>, NEW t, IsTick(t), Timely(e, t.time), latency \in Nat,
         NEW type \in Kinds, NEW order \in Requests \union {None},
         type = "OPEN" <=> e.position = None, type = "OPEN" => order \in Requests
  PROVE  /\ Sound(Enqueued(e, type, order, t))
         /\ Timely(Enqueued(e, type, order, t), t.time)
         /\ Enqueued(e, type, order, t).position = e.position
         /\ Len(Enqueued(e, type, order, t).pending) = Len(e.pending) + 1
         /\ Enqueued(e, type, order, t).rejections = e.rejections
         /\ Answers(Enqueued(e, type, order, t)) = Answers(e) + (IF type = "OPEN" THEN 1 ELSE 0)
<1> DEFINE r == [sequence |-> e.sequence + 1, type |-> type, order |-> order,
                 requested |-> t.time, due |-> t.time + latency]
<1>1. /\ e \in Engines /\ Continued(e) /\ Numbered(e) /\ Explained(e) /\ Totalled(e)
      /\ e.sequence \in Nat /\ t.time \in Nat
  BY EngineIs, TickIs DEF Sound
<1>2. /\ r \in Pendings /\ r.sequence = e.sequence + 1 /\ r.requested = t.time
      /\ r.due = t.time + latency /\ r.type = type /\ r.order = order
  BY <1>1 DEF Pendings
<1>3. PICK n : n = Enqueued(e, type, order, t)
  OBVIOUS
<1>4. n = [e EXCEPT !.sequence = e.sequence + 1, !.pending = Append(e.pending, r)]
  BY <1>3 DEF Enqueued
<1> HIDE DEF r
<1>5. Append(e.pending, r) = <<r>> /\ <<r>> \in Seq(Pendings)
  BY <1>2
<1>6. n \in Engines
  <2>1. Append(e.pending, r) \in Seq(Pendings) /\ e.sequence + 1 \in Nat
    BY <1>1, <1>5
  <2> QED BY <1>1, <1>4, <2>1 DEF Engines
<1>7. /\ n.sequence = e.sequence + 1 /\ n.rejections = e.rejections
      /\ n.trades = e.trades /\ n.position = e.position /\ n.pending = <<r>>
      /\ n.balance = e.balance /\ n.realized = e.realized /\ n.equity = e.equity
      /\ n.free = e.free /\ n.used = e.used /\ n.unrealized = e.unrealized
  BY <1>1, <1>4, <1>5 DEF Engines
<1>8. DOMAIN n.pending = {1} /\ n.pending[1] = r /\ Len(n.pending) = 1
  BY <1>7
<1>9. Queued(n)
  BY <1>2, <1>7, <1>8 DEF Queued
<1>10. ASSUME NEW i \in DOMAIN e.trades
       PROVE  /\ e.trades[i].exitSequence \in Nat /\ e.trades[i].exitSequence <= e.sequence
              /\ e.trades[i].exited <= t.time
  BY <1>1, TradeIs DEF Continued, Timely
<1>11. e.position # None =>
         /\ e.position.sequence \in Nat /\ e.position.sequence <= e.sequence
         /\ e.position.executed <= t.time
  BY <1>1, PositionIs DEF Continued, Timely
<1>12. Continued(n)
  <2>1. Ordered(n.trades)
    BY <1>1, <1>7 DEF Continued
  <2>2. ASSUME NEW i \in DOMAIN n.trades PROVE n.trades[i].exitSequence <= n.sequence
    BY <1>1, <1>7, <1>10
  <2>3. n.position # None =>
          /\ n.position.requested <= n.position.due /\ n.position.due <= n.position.executed
          /\ n.position.sequence <= n.sequence
          /\ \A i \in DOMAIN n.trades :
               /\ n.trades[i].exited <= n.position.requested
               /\ n.trades[i].exitSequence < n.position.sequence
    <3>1. SUFFICES ASSUME e.position # None PROVE e.position.sequence <= n.sequence
      BY <1>1, <1>7 DEF Continued
    <3> QED BY <1>1, <1>7, <1>11, <3>1
  <2>4. /\ r.requested <= r.due /\ r.sequence <= n.sequence
        /\ e.position # None => e.position.executed <= r.requested /\ e.position.sequence < r.sequence
    BY <1>1, <1>2, <1>7, <1>11
  <2>5. ASSUME NEW i \in DOMAIN e.trades
        PROVE  e.trades[i].exited <= r.requested /\ e.trades[i].exitSequence < r.sequence
    BY <1>1, <1>2, <1>10
  <2> QED BY <1>7, <1>8, <2>1, <2>2, <2>3, <2>4, <2>5 DEF Continued
<1>13. Numbered(n)
  <2>1. Taken(n) \subseteq Taken(e) \union {r.sequence}
    BY <1>7, <1>8 DEF Taken
  <2>2. ASSUME NEW i \in DOMAIN e.rejections
        PROVE  e.rejections[i].sequence <= n.sequence /\ e.rejections[i].sequence \notin Taken(n)
    <3>1. /\ e.rejections[i].sequence \in Nat /\ e.rejections[i].sequence <= e.sequence
          /\ e.rejections[i].sequence \notin Taken(e)
      BY <1>1, RejectionIs DEF Numbered
    <3> QED BY <1>1, <1>2, <1>7, <2>1, <3>1
  <2> QED BY <1>1, <1>7, <2>2 DEF Numbered
<1>14. Explained(n) /\ Totalled(n)
  BY <1>1, <1>7 DEF Explained, Flat, Totalled
<1>15. Timely(n, t.time)
  BY <1>1, <1>2, <1>7, <1>8 DEF Timely
<1>16. Answers(n) = Answers(e) + (IF type = "OPEN" THEN 1 ELSE 0)
  <2>1. Opens(n.pending) = Opens(e.pending) + (IF type = "OPEN" THEN 1 ELSE 0)
    BY <1>2, <1>7, OpensEmpty, OpensOne
  <2>2. Opens(e.rejections) \in Nat /\ Opens(e.pending) \in Nat /\ Len(e.trades) \in Nat
    BY <1>1, EngineIs, OpensAppend
  <2>3. Held(n) = Held(e) /\ Held(e) \in Nat
    BY <1>7 DEF Held
  <2> QED BY <1>7, <2>1, <2>2, <2>3 DEF Answers
<1> QED BY <1>3, <1>6, <1>7, <1>8, <1>9, <1>12, <1>13, <1>14, <1>15, <1>16 DEF Sound

\* The answers are a number, so that they can be added to and compared.
LEMMA AnswersType ==
  ASSUME NEW e \in Engines PROVE Answers(e) \in Nat
<1>1. Opens(e.rejections) \in Nat /\ Opens(e.pending) \in Nat /\ Len(e.trades) \in Nat
  BY EngineIs, OpensAppend
<1>2. Held(e) \in Nat
  BY DEF Held
<1> QED BY <1>1, <1>2 DEF Answers

\* open_market_position: an opening is queued or refused.
LEMMA OpenSound ==
  ASSUME NEW e, Sound(e), NEW t, IsTick(t), Timely(e, t.time), latency \in Nat,
         NEW o \in Requests
  PROVE  /\ Sound(OpenMarketPosition(e, o, t))
         /\ Timely(OpenMarketPosition(e, o, t), t.time)
         /\ Answers(OpenMarketPosition(e, o, t)) = Answers(e) + 1
         /\ (Len(OpenMarketPosition(e, o, t).pending) - Len(e.pending))
              + (Len(OpenMarketPosition(e, o, t).rejections) - Len(e.rejections)) = 1
<1>1. e \in Engines /\ e.rejections \in Seq(Rejections) /\ e.pending \in Seq(Pendings) /\ Queued(e)
  BY EngineIs DEF Sound
<1>2. Refusal(e, o, t) \in Refusals \union {None}
  BY DEF Refusal, Refusals
<1>3. CASE Refusal(e, o, t) # None
  <2>1. PICK reason \in Refusals : reason = Refusal(e, o, t)
    BY <1>2, <1>3
  <2>2. OpenMarketPosition(e, o, t) = Refuse(e, "OPEN", reason)
    BY <1>3, <2>1 DEF OpenMarketPosition
  <2>3. "OPEN" \in Kinds
    BY DEF Kinds
  <2>4. /\ Sound(Refuse(e, "OPEN", reason)) /\ Timely(Refuse(e, "OPEN", reason), t.time)
        /\ Refuse(e, "OPEN", reason).pending = e.pending
        /\ Answers(Refuse(e, "OPEN", reason)) = Answers(e) + 1
    BY <2>3, RefuseSound
  <2>5. Len(Refuse(e, "OPEN", reason).rejections) = Len(e.rejections) + 1
    BY <1>1 DEF Refuse, Engines
  <2>6. Len(e.rejections) \in Nat /\ Len(e.pending) \in Nat
    BY <1>1
  <2>7. PICK n : n = OpenMarketPosition(e, o, t)
    OBVIOUS
  <2>8. (Len(n.pending) - Len(e.pending)) + (Len(n.rejections) - Len(e.rejections)) = 1
    <3>1. PICK a \in Nat, b \in Nat : a = Len(e.pending) /\ b = Len(e.rejections)
      BY <2>6
    <3>2. Len(n.pending) = a /\ Len(n.rejections) = b + 1
      BY <2>2, <2>4, <2>5, <2>7, <3>1
    <3> QED BY <3>1, <3>2
  <2> QED BY <2>2, <2>4, <2>7, <2>8
<1>4. CASE Refusal(e, o, t) = None
  <2>1. e.position = None /\ \A i \in DOMAIN e.pending : e.pending[i].type = "CLOSE"
    BY <1>4, NoneAssumption DEF Refusal, Refusals
  <2>2. e.pending = <<>>
    <3>1. ASSUME NEW r \in Pendings, e.pending = <<r>>, r.type = "OPEN" PROVE FALSE
      <4>1. 1 \in DOMAIN e.pending /\ e.pending[1] = r
        BY <3>1
      <4> QED BY <2>1, <3>1, <4>1
    <3> QED BY <1>1, <2>1, <3>1, QueueIs
  <2>3. OpenMarketPosition(e, o, t) = Enqueued(e, "OPEN", o, t)
    BY <1>4 DEF OpenMarketPosition, Enqueued
  <2>4. "OPEN" \in Kinds
    BY DEF Kinds
  <2>5. /\ Sound(Enqueued(e, "OPEN", o, t)) /\ Timely(Enqueued(e, "OPEN", o, t), t.time)
        /\ Len(Enqueued(e, "OPEN", o, t).pending) = Len(e.pending) + 1
        /\ Enqueued(e, "OPEN", o, t).rejections = e.rejections
        /\ Answers(Enqueued(e, "OPEN", o, t)) = Answers(e) + 1
    <3>1. /\ o \in Requests \union {None}
          /\ "OPEN" = "OPEN" <=> e.position = None
          /\ "OPEN" = "OPEN" => o \in Requests
      BY <2>1
    <3>2. Sound(e) /\ IsTick(t) /\ Timely(e, t.time) /\ latency \in Nat
      OBVIOUS
    <3> QED BY ONLY <2>2, <2>4, <3>1, <3>2, EnqueuedSound
  <2>6. Len(e.rejections) \in Nat /\ Len(e.pending) \in Nat
    BY <1>1
  <2>7. PICK n : n = OpenMarketPosition(e, o, t)
    OBVIOUS
  <2>8. (Len(n.pending) - Len(e.pending)) + (Len(n.rejections) - Len(e.rejections)) = 1
    <3>1. PICK a \in Nat, b \in Nat : a = Len(e.pending) /\ b = Len(e.rejections)
      BY <2>6
    <3>2. Len(n.pending) = a + 1 /\ Len(n.rejections) = b
      BY <2>3, <2>5, <2>7, <3>1
    <3> QED BY <3>1, <3>2
  <2> QED BY <2>3, <2>5, <2>7, <2>8
<1> QED BY <1>3, <1>4

\* close_position: a close is queued once, and only while there is a position.
LEMMA CloseSound ==
  ASSUME NEW e, Sound(e), NEW t, IsTick(t), Timely(e, t.time), latency \in Nat
  PROVE  /\ Sound(ClosePosition(e, t))
         /\ Timely(ClosePosition(e, t), t.time)
         /\ Answers(ClosePosition(e, t)) = Answers(e)
<1>1. e \in Engines /\ Queued(e)
  BY DEF Sound
<1>2. CASE e.position = None \/ Closing(e)
  <2>1. ClosePosition(e, t) = e
    BY <1>2 DEF ClosePosition
  <2> QED BY <2>1
<1>3. CASE ~(e.position = None \/ Closing(e))
  <2>1. e.pending = <<>>
    <3>1. ASSUME NEW r \in Pendings, e.pending = <<r>>, r.type # "OPEN" PROVE FALSE
      <4>1. 1 \in DOMAIN e.pending /\ e.pending[1] = r /\ r.type \in Kinds
        BY <3>1 DEF Pendings
      <4>2. r.type = "CLOSE"
        BY <3>1, <4>1 DEF Kinds
      <4> QED BY <1>3, <4>1, <4>2 DEF Closing
    <3> QED BY <1>1, <1>3, <3>1, QueueIs
  <2>2. ClosePosition(e, t) = Enqueued(e, "CLOSE", None, t)
    BY <1>3 DEF ClosePosition, Enqueued
  <2>3. "CLOSE" \in Kinds
    BY DEF Kinds
  <2>4. /\ Sound(Enqueued(e, "CLOSE", None, t)) /\ Timely(Enqueued(e, "CLOSE", None, t), t.time)
        /\ Answers(Enqueued(e, "CLOSE", None, t)) = Answers(e) + 0
    BY <1>3, <2>1, <2>3, EnqueuedSound
  <2>5. Answers(e) \in Int
    BY <1>1, AnswersType
  <2> QED BY <2>2, <2>4, <2>5
<1> QED BY <1>2, <1>3

-----------------------------------------------------------------------------
(***************************************************************************)
(* A request becomes the position.                                         *)
(***************************************************************************)
\* What a request costs is a number.
LEMMA CostsType ==
  ASSUME NEW volume \in Int
  PROVE  Margin(volume) \in Int /\ Commission(volume) \in Int
<1>1. MarginPerLot * volume \in Int /\ CommissionPerLot * volume \in Int /\ CommissionMin \in Int
  BY BacktestAssumption
<1>2. Greater(CommissionPerLot * volume, CommissionMin) \in Int
  BY <1>1, GreaterIs
<1> QED BY <1>1, <1>2 DEF Margin, Commission

\* Prices are numbers.
LEMMA PricesType ==
  ASSUME NEW t, IsTick(t), NEW side, NEW slip \in Slips
  PROVE  /\ Sign(side) \in Int /\ EntryPrice(t, side) \in Int /\ ExitPrice(t, side) \in Int
         /\ Mid2(t) \in Int
         /\ Slipped(EntryPrice(t, side), side, slip, TRUE) \in Int
         /\ Slipped(ExitPrice(t, side), side, slip, FALSE) \in Int
<1>1. slip \in Int /\ Sign(side) \in Int
  BY BacktestAssumption DEF Sign
<1>2. EntryPrice(t, side) \in Int /\ ExitPrice(t, side) \in Int /\ Mid2(t) \in Int
  BY TickIs DEF EntryPrice, ExitPrice
<1>3. Sign(side) * slip \in Int
  BY <1>1
<1> QED BY <1>1, <1>2, <1>3 DEF Slipped

\* What an order holds.
LEMMA RequestIs ==
  ASSUME NEW o \in Requests
  PROVE  o.side \in Sides /\ o.volume \in Int /\ o.stop \in Int /\ o.target \in Int \union {None}
BY BacktestAssumption

\* _execute_open: the request becomes the position, or it is refused.
LEMMA EnterSound ==
  ASSUME NEW e, Sound(e), e.pending = <<>>, e.position = None, NEW r \in Pendings,
         Served(e, r), r.order \in Requests, NEW t, IsTick(t), r.due <= t.time,
         Timely(e, t.time), NEW draw \in Draws
  PROVE  /\ Sound(ExecuteOpen(e, r, t, draw))
         /\ Timely(ExecuteOpen(e, r, t, draw), t.time)
         /\ ExecuteOpen(e, r, t, draw).pending = <<>>
         /\ Answers(ExecuteOpen(e, r, t, draw)) = Answers(e) + 1
<1> DEFINE o == r.order
           quote == EntryPrice(t, o.side)
           price == Slipped(quote, o.side, draw.entry, TRUE)
           fee == Commission(o.volume)
           refusal == LateRefusal(e, o, price, t)
           p == [sequence |-> r.sequence, side |-> o.side, volume |-> o.volume,
                 stop |-> o.stop, target |-> o.target, requested |-> r.requested,
                 due |-> r.due, executed |-> t.time, quote |-> quote, price |-> price,
                 mid2 |-> Mid2(t), fee |-> fee, before |-> e.balance]
           entered == [e EXCEPT !.balance = @ - fee, !.used = Margin(o.volume), !.position = p]
<1>1. /\ e \in Engines /\ Continued(e) /\ Numbered(e) /\ Explained(e) /\ Totalled(e)
      /\ e.sequence \in Nat /\ e.balance \in Int /\ t.time \in Nat
  BY EngineIs, TickIs DEF Sound
<1>2. CASE refusal # None
  <2>1. refusal \in Refusals \union {None}
    BY DEF LateRefusal, Refusals
  <2>2. PICK reason \in Refusals : reason = refusal
    BY <1>2, <2>1
  <2>3. ExecuteOpen(e, r, t, draw) = Refuse(e, "OPEN", reason)
    BY <1>2, <2>2 DEF ExecuteOpen
  <2>4. "OPEN" \in Kinds
    BY DEF Kinds
  <2> QED BY <2>3, <2>4, RefuseSound
<1>3. CASE refusal = None
  <2>1. ExecuteOpen(e, r, t, draw) = MarkToMarket(entered, t)
    BY <1>3 DEF ExecuteOpen
  <2>2. draw.entry \in Slips
    BY DEF Draws
  <2>3. /\ o.side \in Sides /\ o.volume \in Int /\ o.stop \in Int /\ o.target \in Int \union {None}
        /\ quote \in Int /\ price \in Int /\ Mid2(t) \in Int
        /\ fee \in Int /\ Margin(o.volume) \in Int
    BY <2>2, RequestIs, PricesType, CostsType
  <2>4. /\ r.sequence \in Nat /\ r.requested \in Nat /\ r.due \in Nat
        /\ r.requested <= r.due /\ r.sequence <= e.sequence
        /\ \A i \in DOMAIN e.trades :
             e.trades[i].exited <= r.requested /\ e.trades[i].exitSequence < r.sequence
        /\ \A i \in DOMAIN e.rejections : e.rejections[i].sequence # r.sequence
    BY DEF Served
  <2>5. PICK v : v = fee
    OBVIOUS
  <2> HIDE DEF o, quote, price, fee, refusal
  <2>6. /\ p \in Positions /\ p.sequence = r.sequence /\ p.requested = r.requested
        /\ p.due = r.due /\ p.executed = t.time /\ p.fee = fee /\ p.before = e.balance
    BY <1>1, <2>3, <2>4 DEF Positions
  <2>7. p # None
    BY <2>6, NoneAssumption
  <2> HIDE DEF p
  <2>8. PICK n : n = entered
    OBVIOUS
  <2>9. n \in Engines
    <3>1. e.balance - fee \in Int
      BY <1>1, <2>3
    <3> QED BY <1>1, <2>3, <2>6, <2>8, <3>1 DEF Engines
  <2>10. /\ n.sequence = e.sequence /\ n.rejections = e.rejections /\ n.trades = e.trades
         /\ n.position = p /\ n.pending = <<>> /\ n.balance = e.balance - fee
         /\ n.realized = e.realized
    BY <1>1, <2>8 DEF Engines
  <2>11. Queued(n)
    BY <2>10 DEF Queued
  <2>12. Continued(n)
    <3>1. Ordered(n.trades) /\ \A i \in DOMAIN n.trades : n.trades[i].exitSequence <= n.sequence
      BY <1>1, <2>10 DEF Continued
    <3>2. /\ p.requested <= p.due /\ p.due <= p.executed /\ p.sequence <= n.sequence
          /\ \A i \in DOMAIN n.trades :
               n.trades[i].exited <= p.requested /\ n.trades[i].exitSequence < p.sequence
      BY <2>4, <2>6, <2>10
    <3>3. DOMAIN n.pending = {}
      BY <2>10
    <3> QED BY <2>10, <3>1, <3>2, <3>3 DEF Continued
  <2>13. Numbered(n)
    <3>1. Taken(n) \subseteq Taken(e) \union {r.sequence}
      BY <2>6, <2>10 DEF Taken
    <3>2. ASSUME NEW i \in DOMAIN e.rejections
          PROVE  e.rejections[i].sequence <= n.sequence /\ e.rejections[i].sequence \notin Taken(n)
      BY <1>1, <2>4, <2>10, <3>1 DEF Numbered
    <3> QED BY <1>1, <2>10, <3>2 DEF Numbered
  <2>14. e.balance = After(e.trades, Len(e.trades))
    <3>1. e.balance = After(e.trades, Len(e.trades)) - 0
      BY <1>1 DEF Explained
    <3>2. After(e.trades, Len(e.trades)) = Capital + e.realized /\ e.realized \in Int
      BY <1>1, EngineIs DEF Totalled
    <3> QED BY <3>1, <3>2, BacktestAssumption
  <2>15. Explained(n)
    BY <1>1, <2>6, <2>7, <2>10, <2>14 DEF Explained
  <2>16. Totalled(n)
    BY <1>1, <2>6, <2>10, <2>14 DEF Totalled
  <2>17. Timely(n, t.time)
    BY <1>1, <2>6, <2>10 DEF Timely
  <2>18. Answers(n) = Answers(e) + 1
    <3>1. Opens(e.rejections) \in Nat /\ Opens(e.pending) \in Nat /\ Len(e.trades) \in Nat
      BY <1>1, EngineIs, OpensAppend
    <3>2. Held(n) = 1 /\ Held(e) = 0
      BY <2>7, <2>10 DEF Held
    <3> QED BY <2>10, <3>1, <3>2 DEF Answers
  <2>19. Sound(n)
    BY <2>9, <2>11, <2>12, <2>13, <2>15, <2>16 DEF Sound
  <2>20. /\ Sound(MarkToMarket(n, t)) /\ Timely(MarkToMarket(n, t), t.time)
         /\ MarkToMarket(n, t).pending = n.pending /\ Answers(MarkToMarket(n, t)) = Answers(n)
    BY <2>17, <2>19, MarkSound
  <2> QED BY <2>1, <2>8, <2>10, <2>18, <2>20
<1> QED BY <1>2, <1>3

-----------------------------------------------------------------------------
(***************************************************************************)
(* The position becomes a trade.                                           *)
(***************************************************************************)
\* What _close_now leaves, and the trade it writes.
LEMMA CloseNowIs ==
  ASSUME NEW e \in Engines, e.position # None, NEW t, IsTick(t), NEW exit,
         exit.sequence \in Nat, exit.requested \in Nat, exit.due \in Nat,
         exit.reason \in ExitReasons, NEW draw \in Draws
  PROVE  \E x \in Trades :
           /\ CloseNow(e, t, exit, draw) \in Engines
           /\ CloseNow(e, t, exit, draw).trades = Append(e.trades, x)
           /\ CloseNow(e, t, exit, draw).position = None
           /\ CloseNow(e, t, exit, draw).pending = e.pending
           /\ CloseNow(e, t, exit, draw).sequence = e.sequence
           /\ CloseNow(e, t, exit, draw).rejections = e.rejections
           /\ CloseNow(e, t, exit, draw).balance = x.after
           /\ CloseNow(e, t, exit, draw).realized = e.realized + x.net
           /\ Flat(CloseNow(e, t, exit, draw))
           /\ x.entrySequence = e.position.sequence /\ x.exitSequence = exit.sequence
           /\ x.requested = e.position.requested /\ x.due = e.position.due
           /\ x.executed = e.position.executed /\ x.exitRequested = exit.requested
           /\ x.exitDue = exit.due /\ x.exited = t.time
           /\ x.before = e.position.before
           /\ x.after = e.balance + e.position.fee + x.net
           /\ x.net = x.gross - x.spread - x.slippage - x.commission
<1> DEFINE p == e.position
           sign == Sign(p.side)
           quote == ExitPrice(t, p.side)
           price == Slipped(quote, p.side, draw.exit, FALSE)
           gross == sign * (Mid2(t) - p.mid2) * p.volume
           q == sign * (quote - p.quote) * p.volume
           c == sign * (price - p.price) * p.volume
           quoted == 2 * sign * (quote - p.quote) * p.volume
           executed == 2 * sign * (price - p.price) * p.volume
           fee == Commission(p.volume)
           money == Money(executed, t)
           net == money - p.fee - fee
           balance == e.balance + money - fee
           account == Settled(e, money, fee, net)
           x == [entrySequence |-> p.sequence, exitSequence |-> exit.sequence,
                 requested |-> p.requested, due |-> p.due, executed |-> p.executed,
                 exitRequested |-> exit.requested, exitDue |-> exit.due, exited |-> t.time,
                 gross |-> Money(gross, t), spread |-> Money(gross - quoted, t),
                 slippage |-> Money(quoted - executed, t), commission |-> p.fee + fee, net |-> net,
                 reason |-> exit.reason, before |-> p.before, after |-> account.balance]
<1>1. CloseNow(e, t, exit, draw) = [account EXCEPT !.trades = Append(@, x)]
  BY DEF CloseNow
<1>2. account = [e EXCEPT !.balance = balance, !.equity = balance, !.free = balance, !.used = 0,
                          !.unrealized = 0, !.realized = e.realized + net, !.position = None]
  BY DEF Settled
<1>3. /\ p.sequence \in Nat /\ p.requested \in Nat /\ p.due \in Nat /\ p.executed \in Nat
      /\ p.volume \in Int /\ p.quote \in Int /\ p.price \in Int /\ p.mid2 \in Int
      /\ p.fee \in Int /\ p.before \in Int
  BY PositionIs
<1>4. draw.exit \in Slips
  BY DEF Draws
<1>5. sign \in Int /\ quote \in Int /\ price \in Int /\ Mid2(t) \in Int /\ fee \in Int
  BY <1>3, <1>4, PricesType, CostsType
<1>6. e.balance \in Int /\ e.realized \in Int /\ e.trades \in Seq(Trades) /\ t.time \in Nat
  BY EngineIs, TickIs
<1> HIDE DEF p, sign, quote, price, fee
<1>7. gross \in Int /\ q \in Int /\ c \in Int
  BY <1>3, <1>5
<1>8. quoted = 2 * q /\ executed = 2 * c
  BY <1>3, <1>5
<1> HIDE DEF gross, q, c, quoted, executed
<1>9. /\ Money(gross, t) \in Int /\ Money(gross - quoted, t) \in Int
      /\ Money(quoted - executed, t) \in Int /\ money \in Int
      /\ Money(gross, t) - Money(gross - quoted, t) - Money(quoted - executed, t) = money
  <2>1. Money(gross, t) - Money(gross - 2 * q, t) - Money(2 * q - 2 * c, t) = Money(2 * c, t)
    BY <1>7, Decomposes
  <2>2. gross - quoted \in Int /\ quoted - executed \in Int /\ executed \in Int
    BY <1>7, <1>8
  <2> QED BY <1>7, <1>8, <2>1, <2>2, MoneyType
<1> HIDE DEF money
<1>10. net \in Int /\ balance \in Int /\ balance = e.balance + p.fee + net
  <2>1. PICK a \in Int, b \in Int, d \in Int, f \in Int :
          a = money /\ b = p.fee /\ d = fee /\ f = e.balance
    BY <1>3, <1>5, <1>6, <1>9
  <2>2. net = a - b - d /\ balance = f + a - d
    BY <2>1
  <2> QED BY <2>1, <2>2
<1>11. net = Money(gross, t) - Money(gross - quoted, t) - Money(quoted - executed, t) - (p.fee + fee)
  BY <1>3, <1>5, <1>9
<1> HIDE DEF net, balance, account
<1>12. account \in Engines /\ account.trades = e.trades
  <2>1. e.realized + net \in Int /\ balance \in Int /\ 0 \in Int
    BY <1>6, <1>10
  <2>2. None \in Positions \union {None}
    OBVIOUS
  <2>3. account \in Engines
    BY <1>2, <2>1, <2>2 DEF Engines
  <2>4. account.trades = e.trades
    BY <1>2 DEF Engines
  <2> QED BY <2>3, <2>4
<1>13. account.balance = balance
  BY <1>2 DEF Engines
<1>14. x \in Trades
  BY <1>3, <1>5, <1>6, <1>9, <1>10, <1>13 DEF Trades
<1>15. /\ x.net = net /\ x.after = balance /\ x.gross = Money(gross, t)
       /\ x.spread = Money(gross - quoted, t) /\ x.slippage = Money(quoted - executed, t)
       /\ x.commission = p.fee + fee /\ x.before = p.before
       /\ x.entrySequence = p.sequence /\ x.exitSequence = exit.sequence
       /\ x.requested = p.requested /\ x.due = p.due /\ x.executed = p.executed
       /\ x.exitRequested = exit.requested /\ x.exitDue = exit.due /\ x.exited = t.time
  BY <1>13
<1> HIDE DEF x
<1>16. PICK n : n = CloseNow(e, t, exit, draw)
  OBVIOUS
<1>17. n = [account EXCEPT !.trades = Append(e.trades, x)]
  BY <1>1, <1>12, <1>16
<1>18. n \in Engines
  <2>1. Append(e.trades, x) \in Seq(Trades)
    BY <1>6, <1>14, AppendProperties
  <2> QED BY <1>12, <1>17, <2>1 DEF Engines
<1>19. /\ n.trades = Append(e.trades, x) /\ n.position = None /\ n.pending = e.pending
       /\ n.sequence = e.sequence /\ n.rejections = e.rejections /\ n.balance = balance
       /\ n.realized = e.realized + net /\ n.equity = balance /\ n.free = balance
       /\ n.used = 0 /\ n.unrealized = 0
  BY <1>2, <1>17 DEF Engines
<1>20. Flat(n)
  BY <1>19 DEF Flat
<1>21. x.net = x.gross - x.spread - x.slippage - x.commission
  BY <1>11, <1>15
<1>22. x.after = e.balance + e.position.fee + x.net
  BY <1>10, <1>15 DEF p
<1> QED BY <1>14, <1>15, <1>16, <1>18, <1>19, <1>20, <1>21, <1>22 DEF p

\* _close_now: the position becomes a trade.
LEMMA ExitSound ==
  ASSUME NEW e, Sound(e), e.pending = <<>>, e.position # None, NEW t, IsTick(t), NEW exit,
         Served(e, exit), exit.due <= t.time, exit.reason \in ExitReasons,
         Timely(e, t.time), NEW draw \in Draws
  PROVE  /\ Sound(CloseNow(e, t, exit, draw))
         /\ Timely(CloseNow(e, t, exit, draw), t.time)
         /\ CloseNow(e, t, exit, draw).position = None
         /\ CloseNow(e, t, exit, draw).pending = <<>>
         /\ Answers(CloseNow(e, t, exit, draw)) = Answers(e)
<1>1. /\ e \in Engines /\ Continued(e) /\ Numbered(e) /\ Explained(e) /\ Totalled(e)
      /\ e.sequence \in Nat /\ e.balance \in Int /\ e.realized \in Int /\ t.time \in Nat
      /\ e.trades \in Seq(Trades)
  BY EngineIs, TickIs DEF Sound
<1>2. /\ exit.sequence \in Nat /\ exit.requested \in Nat /\ exit.due \in Nat
      /\ exit.requested <= exit.due /\ exit.sequence <= e.sequence
      /\ e.position.executed <= exit.requested /\ e.position.sequence < exit.sequence
      /\ \A i \in DOMAIN e.trades :
           e.trades[i].exited <= exit.requested /\ e.trades[i].exitSequence < exit.sequence
      /\ \A i \in DOMAIN e.rejections : e.rejections[i].sequence # exit.sequence
  BY DEF Served
<1>3. PICK n : n = CloseNow(e, t, exit, draw)
  OBVIOUS
<1>4. PICK x \in Trades :
        /\ n \in Engines /\ n.trades = Append(e.trades, x) /\ n.position = None
        /\ n.pending = e.pending /\ n.sequence = e.sequence /\ n.rejections = e.rejections
        /\ n.balance = x.after /\ n.realized = e.realized + x.net /\ Flat(n)
        /\ x.entrySequence = e.position.sequence /\ x.exitSequence = exit.sequence
        /\ x.requested = e.position.requested /\ x.due = e.position.due
        /\ x.executed = e.position.executed /\ x.exitRequested = exit.requested
        /\ x.exitDue = exit.due /\ x.exited = t.time /\ x.before = e.position.before
        /\ x.after = e.balance + e.position.fee + x.net
        /\ x.net = x.gross - x.spread - x.slippage - x.commission
  BY <1>1, <1>2, <1>3, CloseNowIs
<1>5. PICK m \in Nat : m = Len(e.trades)
  BY <1>1
<1>6. /\ DOMAIN n.trades = 1 .. m + 1 /\ DOMAIN e.trades = 1 .. m /\ Len(n.trades) = m + 1
      /\ n.trades[m + 1] = x /\ \A i \in 1 .. m : n.trades[i] = e.trades[i]
  BY <1>1, <1>4, <1>5
<1>7. \A i \in 1 .. m + 1 : i \in 1 .. m \/ i = m + 1
  BY SMT
<1>8. /\ e.position.requested \in Nat /\ e.position.due \in Nat /\ e.position.executed \in Nat
      /\ e.position.sequence \in Nat /\ e.position.fee \in Int /\ e.position.before \in Int
  BY <1>1, PositionIs
<1>9. /\ x.net \in Int /\ x.gross \in Int /\ x.spread \in Int /\ x.slippage \in Int
      /\ x.commission \in Int /\ x.after \in Int /\ x.before \in Int
  BY DEF Trades
<1>10. /\ e.position.requested <= e.position.due /\ e.position.due <= e.position.executed
       /\ e.position.sequence <= e.sequence
       /\ \A i \in 1 .. m : /\ e.trades[i].exited <= e.position.requested
                            /\ e.trades[i].exitSequence < e.position.sequence
  BY <1>1, <1>6 DEF Continued
<1>11. Ordered(n.trades)
  <2>1. ASSUME NEW i \in 1 .. m + 1
        PROVE  /\ n.trades[i].requested <= n.trades[i].due
               /\ n.trades[i].due <= n.trades[i].executed
               /\ n.trades[i].executed <= n.trades[i].exitRequested
               /\ n.trades[i].exitRequested <= n.trades[i].exitDue
               /\ n.trades[i].exitDue <= n.trades[i].exited
               /\ n.trades[i].entrySequence < n.trades[i].exitSequence
    <3>1. CASE i \in 1 .. m
      BY <1>1, <1>6, <3>1 DEF Continued, Ordered
    <3>2. CASE i = m + 1
      BY <1>2, <1>4, <1>6, <1>10, <3>2
    <3> QED BY <1>7, <3>1, <3>2
  <2>2. ASSUME NEW i \in 1 .. m + 1, NEW j \in 1 .. m + 1, i < j
        PROVE  /\ n.trades[i].exited <= n.trades[j].requested
               /\ n.trades[i].exitSequence < n.trades[j].entrySequence
    <3>1. i \in 1 .. m
      BY <2>2
    <3>2. CASE j \in 1 .. m
      BY <1>1, <1>6, <2>2, <3>1, <3>2 DEF Continued, Ordered
    <3>3. CASE j = m + 1
      BY <1>4, <1>6, <1>10, <3>1, <3>3
    <3> QED BY <1>7, <3>2, <3>3
  <2> QED BY <1>6, <2>1, <2>2 DEF Ordered
<1>12. Continued(n)
  <2>1. ASSUME NEW i \in 1 .. m + 1 PROVE n.trades[i].exitSequence <= n.sequence
    <3>1. CASE i \in 1 .. m
      BY <1>1, <1>4, <1>6, <3>1 DEF Continued
    <3>2. CASE i = m + 1
      BY <1>2, <1>4, <1>6, <3>2
    <3> QED BY <1>7, <3>1, <3>2
  <2>2. DOMAIN n.pending = {}
    BY <1>4
  <2> QED BY <1>4, <1>6, <1>11, <2>1, <2>2 DEF Continued
<1>13. Queued(n)
  BY <1>4 DEF Queued
<1>14. Numbered(n)
  <2>1. Taken(n) \subseteq Taken(e) \union {exit.sequence}
    <3>1. ASSUME NEW i \in 1 .. m + 1
          PROVE  /\ n.trades[i].entrySequence \in Taken(e)
                 /\ n.trades[i].exitSequence \in Taken(e) \union {exit.sequence}
      <4>1. CASE i \in 1 .. m
        BY <1>6, <4>1 DEF Taken
      <4>2. CASE i = m + 1
        <5>1. e.position.sequence \in Taken(e)
          BY DEF Taken
        <5> QED BY <1>4, <1>6, <4>2, <5>1
      <4> QED BY <1>7, <4>1, <4>2
    <3>2. DOMAIN n.pending = {}
      BY <1>4
    <3>3. Taken(n) = {n.trades[i].entrySequence : i \in 1 .. m + 1}
                       \union {n.trades[i].exitSequence : i \in 1 .. m + 1}
      BY <1>4, <1>6, <3>2 DEF Taken
    <3> QED BY <3>1, <3>3
  <2>2. ASSUME NEW i \in DOMAIN e.rejections
        PROVE  e.rejections[i].sequence <= n.sequence /\ e.rejections[i].sequence \notin Taken(n)
    BY <1>1, <1>2, <1>4, <2>1 DEF Numbered
  <2> QED BY <1>1, <1>4, <2>2 DEF Numbered
<1>15. e.position.before = After(e.trades, m) /\ e.balance = After(e.trades, m) - e.position.fee
  BY <1>1, <1>5 DEF Explained, Totalled
<1>16. /\ \A i \in 0 .. m : After(n.trades, i) = After(e.trades, i)
       /\ After(n.trades, m + 1) = x.after
  BY <1>6 DEF After
<1>17. /\ x.after = x.before + x.net /\ x.before = After(e.trades, m)
  <2>1. e.balance + e.position.fee = e.position.before
    BY <1>1, <1>8, <1>15
  <2> QED BY <1>4, <1>15, <2>1
<1>18. Explained(n)
  <2>1. ASSUME NEW i \in 1 .. m + 1
        PROVE  /\ n.trades[i].before = After(n.trades, i - 1)
               /\ n.trades[i].after = n.trades[i].before + n.trades[i].net
               /\ n.trades[i].net = n.trades[i].gross - n.trades[i].spread
                                      - n.trades[i].slippage - n.trades[i].commission
    <3>1. i - 1 \in 0 .. m
      OBVIOUS
    <3>2. CASE i \in 1 .. m
      BY <1>1, <1>6, <1>16, <3>1, <3>2 DEF Explained
    <3>3. CASE i = m + 1
      <4>1. n.trades[i] = x /\ i - 1 = m
        BY <1>6, <3>3
      <4> QED BY <1>4, <1>16, <1>17, <3>1, <4>1
    <3> QED BY <1>7, <3>2, <3>3
  <2>2. n.realized = Total(Net(n.trades))
    BY <1>1, <1>4, TotalsAppend DEF Explained
  <2>3. n.balance = After(n.trades, Len(n.trades)) - 0
    BY <1>4, <1>6, <1>9, <1>16
  <2> QED BY <1>4, <1>6, <2>1, <2>2, <2>3 DEF Explained
<1>19. Totalled(n)
  <2>1. After(n.trades, Len(n.trades)) = Capital + n.realized
    <3>1. After(e.trades, m) = Capital + e.realized
      BY <1>1, <1>5 DEF Totalled
    <3>2. Capital \in Int
      BY BacktestAssumption
    <3> QED BY <1>1, <1>4, <1>6, <1>9, <1>16, <1>17, <3>1, <3>2
  <2>2. Total(Gross(n.trades)) = Total(Net(n.trades)) + Total(Spread(n.trades))
                                   + Total(SlippageCost(n.trades)) + Total(Fees(n.trades))
    <3> DEFINE g == Total(Gross(e.trades))
               w == Total(Net(e.trades))
               s == Total(Spread(e.trades))
               l == Total(SlippageCost(e.trades))
               f == Total(Fees(e.trades))
    <3>1. g = w + s + l + f
      BY <1>1 DEF Totalled
    <3>2. /\ Total(Gross(n.trades)) = g + x.gross /\ Total(Net(n.trades)) = w + x.net
          /\ Total(Spread(n.trades)) = s + x.spread
          /\ Total(SlippageCost(n.trades)) = l + x.slippage
          /\ Total(Fees(n.trades)) = f + x.commission
          /\ g \in Int /\ w \in Int /\ s \in Int /\ l \in Int /\ f \in Int
      BY <1>1, <1>4, TotalsAppend
    <3> HIDE DEF g, w, s, l, f
    <3>3. x.net = x.gross - x.spread - x.slippage - x.commission
      BY <1>4
    <3>4. g + x.gross = (w + x.net) + (s + x.spread) + (l + x.slippage) + (f + x.commission)
      BY ONLY <1>9, <3>1, <3>2, <3>3
    <3> QED BY <3>2, <3>4
  <2> QED BY <1>4, <2>1, <2>2 DEF Totalled
<1>20. Timely(n, t.time)
  <2>1. ASSUME NEW i \in 1 .. m + 1 PROVE n.trades[i].exited <= t.time
    BY <1>1, <1>4, <1>6, <1>7 DEF Timely
  <2>2. DOMAIN n.pending = {}
    BY <1>4
  <2> QED BY <1>4, <1>6, <2>1, <2>2 DEF Timely
<1>21. Answers(n) = Answers(e)
  <2>1. Opens(e.rejections) \in Nat /\ Opens(e.pending) \in Nat
    BY <1>1, EngineIs, OpensAppend
  <2>2. Held(n) = 0 /\ Held(e) = 1
    BY <1>4 DEF Held
  <2> QED BY <1>4, <1>5, <1>6, <2>1, <2>2 DEF Answers
<1> QED BY <1>3, <1>4, <1>12, <1>13, <1>14, <1>18, <1>19, <1>20, <1>21 DEF Sound

-----------------------------------------------------------------------------
(***************************************************************************)
(* The two halves of a tick.                                               *)
(***************************************************************************)
\* _execute_due: nothing due waits any longer.
LEMMA DueSound ==
  ASSUME NEW e, Sound(e), NEW t, IsTick(t), Timely(e, t.time), NEW draw \in Draws
  PROVE  /\ Sound(ExecuteDue(e, t, draw))
         /\ Timely(ExecuteDue(e, t, draw), t.time)
         /\ Answers(ExecuteDue(e, t, draw)) = Answers(e)
         /\ \A i \in DOMAIN ExecuteDue(e, t, draw).pending :
              ExecuteDue(e, t, draw).pending[i].due > t.time
<1> DEFINE places == {i \in DOMAIN e.pending : e.pending[i].due <= t.time}
           d == Dropped(e)
<1>1. /\ e \in Engines /\ Queued(e) /\ Answers(e) \in Nat /\ t.time \in Nat
  BY AnswersType, TickIs DEF Sound
<1>2. ExecuteDue(e, t, draw) = Executed(e, places, t, draw)
  BY DEF ExecuteDue
<1>3. Sound(d) /\ Timely(d, t.time) /\ Answers(d) = Answers(e) - Opens(e.pending)
      /\ d.pending = <<>> /\ d.position = e.position
  BY <1>1, DroppedSound, DroppedIs
<1>4. CASE e.pending = <<>>
  <2>1. Filtered(e.pending, places) = <<>> /\ Filtered(e.pending, DOMAIN e.pending \ places) = <<>>
    BY <1>4, FilteredEmpty
  <2>2. Executed(e, places, t, draw) = d
    <3> HIDE DEF places
    <3>1. d = [e EXCEPT !.pending = Filtered(e.pending, DOMAIN e.pending \ places)]
      BY <2>1 DEF Dropped
    <3> HIDE DEF d
    <3> QED BY <2>1, <3>1, ExecutedNone
  <2>3. Answers(d) = Answers(e)
    BY <1>1, <1>3, <1>4, OpensEmpty
  <2>4. DOMAIN d.pending = {}
    BY <1>3
  <2> HIDE DEF d
  <2> QED BY <1>2, <1>3, <2>2, <2>3, <2>4
<1>5. ASSUME NEW r \in Pendings, e.pending = <<r>>, r.type = "OPEN" <=> e.position = None,
             r.type = "OPEN" => r.order \in Requests
      PROVE  /\ Sound(ExecuteDue(e, t, draw))
             /\ Timely(ExecuteDue(e, t, draw), t.time)
             /\ Answers(ExecuteDue(e, t, draw)) = Answers(e)
             /\ \A i \in DOMAIN ExecuteDue(e, t, draw).pending :
                  ExecuteDue(e, t, draw).pending[i].due > t.time
  <2>1. /\ DOMAIN e.pending = {1} /\ e.pending[1] = r /\ r.due \in Nat /\ r.type \in Kinds
        /\ r.sequence \in Nat /\ r.requested \in Nat
    BY <1>5 DEF Pendings
  <2>2. Opens(e.pending) = IF r.type = "OPEN" THEN 1 ELSE 0
    BY <1>5, OpensOne
  <2>3. Served(d, r)
    BY <1>5, DroppedServed
  <2>4. CASE r.due > t.time
    <3>1. places = {} /\ DOMAIN e.pending \ places = {1}
      BY <1>1, <2>1, <2>4
    <3>2. Filtered(e.pending, places) = <<>> /\ Filtered(e.pending, DOMAIN e.pending \ places) = <<r>>
      BY <1>5, <3>1, FilteredOne
    <3>3. e = [e EXCEPT !.pending = <<r>>]
      BY <1>1, <1>5 DEF Engines
    <3>4. e = [e EXCEPT !.pending = Filtered(e.pending, DOMAIN e.pending \ places)]
      BY <3>2, <3>3
    <3>5. ExecuteDue(e, t, draw) = e
      <4> HIDE DEF places
      <4> QED BY <1>2, <3>2, <3>4, ExecutedNone
    <3> QED BY <2>1, <2>4, <3>5
  <2>5. CASE r.due <= t.time
    <3>1. places = {1} /\ DOMAIN e.pending \ places = {}
      BY <2>1, <2>5
    <3>2. Filtered(e.pending, places) = <<r>> /\ Filtered(e.pending, DOMAIN e.pending \ places) = <<>>
      BY <1>5, <3>1, FilteredOne
    <3>3. ExecuteDue(e, t, draw) = Execute(d, r, t, draw)
      <4> HIDE DEF places
      <4>1. d = [e EXCEPT !.pending = Filtered(e.pending, DOMAIN e.pending \ places)]
        BY <3>2 DEF Dropped
      <4> HIDE DEF d
      <4>2. Filtered(e.pending, places) = <<r>>
        BY <3>2
      <4>3. Executed(e, places, t, draw) = Execute(d, r, t, draw)
        BY ONLY <4>1, <4>2, ExecutedOne
      <4> QED BY <1>2, <4>3
    <3> HIDE DEF d, places
    <3>4. PICK n : n = Execute(d, r, t, draw)
      OBVIOUS
    <3>5. CASE r.type = "OPEN"
      <4>1. d.position = None /\ r.order \in Requests
        BY <1>3, <1>5, <3>5
      <4>2. n = ExecuteOpen(d, r, t, draw)
        BY <3>4, <3>5, <4>1 DEF Execute
      <4>3. Sound(n) /\ Timely(n, t.time) /\ n.pending = <<>> /\ Answers(n) = Answers(d) + 1
        BY <1>3, <2>3, <2>5, <4>1, <4>2, EnterSound
      <4>4. Answers(n) = Answers(e) /\ DOMAIN n.pending = {}
        BY <1>1, <1>3, <2>2, <3>5, <4>3
      <4> QED BY <3>3, <3>4, <4>3, <4>4
    <3>6. CASE r.type = "CLOSE"
      <4> DEFINE exit == [sequence |-> r.sequence, requested |-> r.requested, due |-> r.due,
                          reason |-> "MANUAL"]
      <4>1. d.position # None
        BY <1>3, <1>5, <3>6
      <4>2. n = CloseNow(d, t, exit, draw)
        BY <3>4, <3>6, <4>1 DEF Execute, ExecuteClose
      <4>3. Served(d, exit) /\ exit.due <= t.time /\ exit.reason \in ExitReasons
        BY <2>3, <2>5 DEF Served, ExitReasons
      <4> HIDE DEF exit
      <4>4. Sound(n) /\ Timely(n, t.time) /\ n.pending = <<>> /\ Answers(n) = Answers(d)
        BY <1>3, <4>1, <4>2, <4>3, ExitSound
      <4>5. Answers(n) = Answers(e) /\ DOMAIN n.pending = {}
        BY <1>1, <1>3, <2>2, <3>6, <4>4
      <4> QED BY <3>3, <3>4, <4>4, <4>5
    <3> QED BY <2>1, <3>5, <3>6 DEF Kinds
  <2> QED BY <1>1, <2>1, <2>4, <2>5
<1> QED BY <1>1, <1>4, <1>5, QueueIs

\* An exit that is asked for at once.
LEMMA ExitNowSound ==
  ASSUME NEW e, Sound(e), e.position # None, NEW t, IsTick(t), Timely(e, t.time),
         NEW reason \in ExitReasons, NEW draw \in Draws, NEW exit,
         exit = [sequence |-> e.sequence + 1, requested |-> t.time, due |-> t.time,
                 reason |-> reason]
  PROVE  /\ Sound(CloseNow(Bumped(e), t, exit, draw))
         /\ Timely(CloseNow(Bumped(e), t, exit, draw), t.time)
         /\ CloseNow(Bumped(e), t, exit, draw).position = None
         /\ CloseNow(Bumped(e), t, exit, draw).pending = <<>>
         /\ Answers(CloseNow(Bumped(e), t, exit, draw)) = Answers(e)
<1>1. e \in Engines /\ Queued(e) /\ Answers(e) \in Nat /\ t.time \in Nat
  BY AnswersType, TickIs DEF Sound
<1>2. /\ Sound(Bumped(e)) /\ Timely(Bumped(e), t.time) /\ Bumped(e).pending = <<>>
      /\ Bumped(e).position = e.position /\ Answers(Bumped(e)) = Answers(e) - Opens(e.pending)
  BY <1>1, BumpedSound, BumpedIs
<1>3. Served(Bumped(e), exit)
  BY <1>1, BumpedServed
<1>4. exit.due <= t.time /\ exit.reason \in ExitReasons
  BY <1>1
<1>5. Opens(e.pending) = 0
  <2>1. CASE e.pending = <<>>
    BY <2>1, OpensEmpty
  <2>2. ASSUME NEW r \in Pendings, e.pending = <<r>>, r.type # "OPEN" PROVE Opens(e.pending) = 0
    BY <2>2, OpensOne
  <2> QED BY <1>1, <2>1, <2>2, QueueIs
<1>6. Answers(Bumped(e)) = Answers(e)
  BY <1>1, <1>2, <1>5
<1> QED BY <1>2, <1>3, <1>4, <1>6, ExitSound

\* _check_protection: what stays is inside its stop and target.
LEMMA ProtectionSound ==
  ASSUME NEW e, Sound(e), NEW t, IsTick(t), Timely(e, t.time), NEW draw \in Draws,
         \A i \in DOMAIN e.pending : e.pending[i].due > t.time
  PROVE  /\ Sound(CheckProtection(e, t, draw))
         /\ Timely(CheckProtection(e, t, draw), t.time)
         /\ Answers(CheckProtection(e, t, draw)) = Answers(e)
         /\ Settles(CheckProtection(e, t, draw), t)
<1> DEFINE hit == StopHit(e.position, t) \/ TargetHit(e.position, t)
           reason == IF StopHit(e.position, t) THEN "STOP_LOSS" ELSE "TAKE_PROFIT"
           exit == [sequence |-> e.sequence + 1, requested |-> t.time, due |-> t.time,
                    reason |-> reason]
<1>1. CASE e.position = None \/ ~hit
  <2>1. CheckProtection(e, t, draw) = e
    BY <1>1 DEF CheckProtection
  <2>2. Settles(e, t)
    BY <1>1 DEF Settles
  <2> QED BY <2>1, <2>2
<1>2. CASE e.position # None /\ hit
  <2>1. e \in Engines /\ Queued(e)
    BY DEF Sound
  <2>2. Filtered(e.pending, {i \in DOMAIN e.pending : e.pending[i].type # "CLOSE"}) = <<>>
    <3>1. CASE e.pending = <<>>
      BY <3>1, FilteredEmpty
    <3>2. ASSUME NEW r \in Pendings, e.pending = <<r>>, r.type # "OPEN"
          PROVE  Filtered(e.pending, {i \in DOMAIN e.pending : e.pending[i].type # "CLOSE"}) = <<>>
      <4>1. r.type = "CLOSE"
        BY <3>2 DEF Pendings, Kinds
      <4>2. {i \in DOMAIN e.pending : e.pending[i].type # "CLOSE"} = {}
        BY <3>2, <4>1
      <4> QED BY <3>2, <4>2, FilteredOne
    <3> QED BY <1>2, <2>1, <3>1, <3>2, QueueIs
  <2>3. CheckProtection(e, t, draw) = CloseNow(Bumped(e), t, exit, draw)
    BY <1>2, <2>2 DEF CheckProtection, Bumped
  <2>4. reason \in ExitReasons
    BY DEF ExitReasons
  <2> HIDE DEF hit, reason
  <2>5. exit = [sequence |-> e.sequence + 1, requested |-> t.time, due |-> t.time,
                reason |-> reason]
    OBVIOUS
  <2> HIDE DEF exit
  <2>6. PICK n : n = CloseNow(Bumped(e), t, exit, draw)
    OBVIOUS
  <2>7. /\ Sound(n) /\ Timely(n, t.time) /\ n.position = None /\ n.pending = <<>>
        /\ Answers(n) = Answers(e)
    BY <1>2, <2>4, <2>5, <2>6, ExitNowSound
  <2>8. DOMAIN n.pending = {}
    BY <2>7
  <2>9. Settles(n, t)
    BY <2>7, <2>8 DEF Settles
  <2> QED BY <2>3, <2>6, <2>7, <2>9
<1> QED BY <1>1, <1>2

\* A close and the queue are apart.
LEMMA CloseNowDrops ==
  ASSUME NEW e \in Engines, NEW t, NEW exit, NEW draw
  PROVE  Dropped(CloseNow(e, t, exit, draw)) = CloseNow(Dropped(e), t, exit, draw)
<1> DEFINE d == Dropped(e)
           Executed2(p) == 2 * Sign(p.side)
                             * (Slipped(ExitPrice(t, p.side), p.side, draw.exit, FALSE) - p.price)
                             * p.volume
           Net1(p) == Money(Executed2(p), t) - p.fee - Commission(p.volume)
           Balance(p, b) == b + Money(Executed2(p), t) - Commission(p.volume)
           Quoted2(p) == 2 * Sign(p.side) * (ExitPrice(t, p.side) - p.quote) * p.volume
           Gross2(p) == Sign(p.side) * (Mid2(t) - p.mid2) * p.volume
           Trade(p, b) ==
             [entrySequence |-> p.sequence, exitSequence |-> exit.sequence,
              requested |-> p.requested, due |-> p.due, executed |-> p.executed,
              exitRequested |-> exit.requested, exitDue |-> exit.due, exited |-> t.time,
              gross |-> Money(Gross2(p), t), spread |-> Money(Gross2(p) - Quoted2(p), t),
              slippage |-> Money(Quoted2(p) - Executed2(p), t),
              commission |-> p.fee + Commission(p.volume), net |-> Net1(p),
              reason |-> exit.reason, before |-> p.before, after |-> b]
           Account(f) == Settled(f, Money(Executed2(f.position), t), Commission(f.position.volume),
                                 Net1(f.position))
<1>1. ASSUME NEW f \in Engines
      PROVE  CloseNow(f, t, exit, draw) =
               [f EXCEPT !.balance = Balance(f.position, f.balance),
                         !.equity = Balance(f.position, f.balance),
                         !.free = Balance(f.position, f.balance), !.used = 0, !.unrealized = 0,
                         !.realized = f.realized + Net1(f.position), !.position = None,
                         !.trades = Append(f.trades, Trade(f.position, Balance(f.position, f.balance)))]
  <2>1. CloseNow(f, t, exit, draw) =
          [Account(f) EXCEPT !.trades = Append(@, Trade(f.position, Account(f).balance))]
    BY DEF CloseNow
  <2>2. Account(f) =
          [f EXCEPT !.balance = Balance(f.position, f.balance),
                    !.equity = Balance(f.position, f.balance),
                    !.free = Balance(f.position, f.balance), !.used = 0, !.unrealized = 0,
                    !.realized = f.realized + Net1(f.position), !.position = None]
    BY DEF Settled
  <2> HIDE DEF Account, Balance, Net1, Trade
  <2>3. Account(f).balance = Balance(f.position, f.balance) /\ Account(f).trades = f.trades
    BY <2>2 DEF Engines
  <2> QED BY <2>1, <2>2, <2>3 DEF Engines
<1>2. /\ d.position = e.position /\ d.balance = e.balance /\ d \in Engines
      /\ d.realized = e.realized /\ d.trades = e.trades
  BY DroppedIs
<1> DEFINE b == Balance(e.position, e.balance)
           r == e.realized + Net1(e.position)
           s == Append(e.trades, Trade(e.position, b))
<1> HIDE DEF Balance, Net1, Trade, d
<1>3. /\ CloseNow(e, t, exit, draw) =
           [e EXCEPT !.balance = b, !.equity = b, !.free = b, !.used = 0, !.unrealized = 0,
                     !.realized = r, !.position = None, !.trades = s]
      /\ CloseNow(d, t, exit, draw) =
           [d EXCEPT !.balance = b, !.equity = b, !.free = b, !.used = 0, !.unrealized = 0,
                     !.realized = r, !.position = None, !.trades = s]
  BY <1>1, <1>2
<1> HIDE DEF b, r, s
<1> QED BY <1>3 DEF d, Dropped, Engines

\* The end of the data: whatever waits is refused, and nothing is left open.
LEMMA EndSound ==
  ASSUME NEW e, Sound(e), NEW t, e.position # None => IsTick(t) /\ Timely(e, t.time),
         NEW draw \in Draws, NEW exit,
         exit = [sequence |-> e.sequence + 1, requested |-> t.time, due |-> t.time,
                 reason |-> "END_OF_DATA"],
         NEW n,
         n = RefuseAll(IF e.position = None THEN e
                       ELSE CloseNow([e EXCEPT !.sequence = @ + 1], t, exit, draw))
  PROVE  /\ Sound(n) /\ n.position = None /\ n.pending = <<>> /\ Answers(n) = Answers(e)
         /\ e.position = None => n.equity = e.equity
<1>1. e \in Engines /\ Queued(e) /\ Answers(e) \in Nat /\ Explained(e)
  BY AnswersType DEF Sound
<1> DEFINE d == Dropped(e)
<1>2. /\ d \in Engines /\ Sound(d) /\ Answers(d) = Answers(e) - Opens(e.pending)
      /\ d.pending = <<>> /\ d.position = e.position /\ d.equity = e.equity
  BY <1>1, DroppedSound, DroppedIs
<1>3. CASE e.position = None
  <2>1. n = RefuseAll(e)
    BY <1>3
  <2>2. CASE e.pending = <<>>
    <3>1. n = d
      BY <2>1, <2>2, RefuseAllNone DEF Dropped
    <3> HIDE DEF d
    <3> QED BY <1>1, <1>2, <1>3, <2>2, <3>1, OpensEmpty
  <2>3. ASSUME NEW r \in Pendings, e.pending = <<r>>, r.type = "OPEN"
        PROVE  /\ Sound(n) /\ n.position = None /\ n.pending = <<>> /\ Answers(n) = Answers(e)
               /\ n.equity = e.equity
    <3>1. n = Refuse(d, "OPEN", "NO_EXECUTION_TICK")
      BY <2>1, <2>3, RefuseAllOne DEF Dropped
    <3> HIDE DEF d
    <3>2. "OPEN" \in Kinds /\ "NO_EXECUTION_TICK" \in Refusals
      BY DEF Kinds, Refusals
    <3>3. /\ Sound(n) /\ n.pending = d.pending /\ n.position = d.position
          /\ Answers(n) = Answers(d) + 1
      BY <1>2, <3>1, <3>2, RefuseSound
    <3>4. Opens(e.pending) = 1
      BY <2>3, OpensOne
    <3>5. n.equity = d.equity
      BY <1>2, <3>1 DEF Refuse, Engines
    <3> QED BY <1>1, <1>2, <1>3, <3>3, <3>4, <3>5
  <2> QED BY <1>1, <1>3, <2>2, <2>3, QueueIs
<1>4. CASE e.position # None
  <2> DEFINE u == [e EXCEPT !.sequence = @ + 1]
             c == CloseNow(u, t, exit, draw)
             x == CloseNow(Bumped(e), t, exit, draw)
  <2>1. n = RefuseAll(c)
    BY <1>4
  <2>2. u \in Engines /\ u.pending = e.pending /\ u.position = e.position
    <3>1. e.sequence + 1 \in Nat
      BY <1>1, EngineIs
    <3> QED BY <1>1, <3>1 DEF Engines
  <2>3. Dropped(u) = Bumped(e)
    BY <1>1 DEF Dropped, Bumped, Engines
  <2>4. Dropped(c) = x
    <3> HIDE DEF u
    <3> QED BY <2>2, <2>3, CloseNowDrops
  <2>5. c.pending = e.pending
    <3>1. exit.sequence \in Nat /\ exit.requested \in Nat /\ exit.due \in Nat
          /\ exit.reason \in ExitReasons
      BY <1>1, <1>4, EngineIs, TickIs DEF ExitReasons
    <3> HIDE DEF u
    <3> QED BY <1>4, <2>2, <3>1, CloseNowIs
  <2>6. Sound(x) /\ x.position = None /\ x.pending = <<>> /\ Answers(x) = Answers(e)
    <3>1. "END_OF_DATA" \in ExitReasons
      BY DEF ExitReasons
    <3> QED BY <1>1, <1>4, <3>1, ExitNowSound
  <2> HIDE DEF c, x
  <2>7. CASE e.pending = <<>>
    <3>1. n = x
      BY <2>1, <2>4, <2>5, <2>7, RefuseAllNone DEF Dropped
    <3> QED BY <1>4, <2>6, <3>1
  <2>8. ASSUME NEW r \in Pendings, e.pending = <<r>>, r.type # "OPEN"
        PROVE  Sound(n) /\ n.position = None /\ n.pending = <<>> /\ Answers(n) = Answers(e)
    <3>1. c.pending = <<r>>
      BY <2>5, <2>8
    <3>2. n = Refuse(x, r.type, "NO_EXECUTION_TICK")
      BY <2>1, <2>4, <3>1, RefuseAllOne DEF Dropped
    <3>3. r.type \in Kinds /\ "NO_EXECUTION_TICK" \in Refusals
      BY DEF Pendings, Refusals
    <3>4. Sound(n) /\ n.pending = x.pending /\ n.position = x.position /\ Answers(n) = Answers(x) + 0
      BY <2>6, <2>8, <3>2, <3>3, RefuseSound
    <3> QED BY <1>1, <2>6, <3>4
  <2> QED BY <1>1, <1>4, <2>7, <2>8, QueueIs
<1> QED BY <1>3, <1>4

-----------------------------------------------------------------------------
(***************************************************************************)
(* The inductive invariant.                                                *)
(***************************************************************************)
\* An engine that has just been made is sound (__init__).
LEMMA EngineInit == Init => EngineInv
<1> SUFFICES ASSUME Init PROVE EngineInv
  OBVIOUS
<1>1. /\ engine = [balance |-> Capital, equity |-> Capital, used |-> 0, free |-> Capital,
                   realized |-> 0, unrealized |-> 0, position |-> None, pending |-> <<>>,
                   sequence |-> 0, trades |-> <<>>, rejections |-> <<>>]
      /\ tick = None /\ phase = "between" /\ curve = <<Capital>> /\ latency \in Latencies
      /\ asked = 0 /\ refused = 0
  BY DEF Init
<1>2. Capital \in Int
  BY BacktestAssumption
<1>3. /\ engine.balance = Capital /\ engine.equity = Capital /\ engine.used = 0
      /\ engine.free = Capital /\ engine.realized = 0 /\ engine.unrealized = 0
      /\ engine.position = None /\ engine.pending = <<>> /\ engine.sequence = 0
      /\ engine.trades = <<>> /\ engine.rejections = <<>>
  BY <1>1
<1>4. engine \in Engines
  <2>1. <<>> \in Seq(Pendings) /\ <<>> \in Seq(Trades) /\ <<>> \in Seq(Rejections)
    OBVIOUS
  <2> QED BY <1>1, <1>2, <2>1 DEF Engines
<1>5. DOMAIN engine.trades = {} /\ DOMAIN engine.pending = {} /\ DOMAIN engine.rejections = {}
      /\ Len(engine.trades) = 0 /\ Len(engine.pending) = 0
  BY <1>3
<1>6. Queued(engine) /\ Continued(engine) /\ Numbered(engine)
  BY <1>3, <1>5 DEF Queued, Continued, Numbered, Ordered
<1>7. /\ Total(Net(engine.trades)) = 0 /\ Total(Gross(engine.trades)) = 0
      /\ Total(Spread(engine.trades)) = 0 /\ Total(SlippageCost(engine.trades)) = 0
      /\ Total(Fees(engine.trades)) = 0
  <2>1. /\ Net(engine.trades) = <<>> /\ Gross(engine.trades) = <<>> /\ Spread(engine.trades) = <<>>
        /\ SlippageCost(engine.trades) = <<>> /\ Fees(engine.trades) = <<>>
    BY <1>3 DEF Net, Gross, Spread, SlippageCost, Fees
  <2> QED BY <2>1, TotalEmpty
<1>8. After(engine.trades, 0) = Capital
  BY DEF After
<1>9. Explained(engine) /\ Totalled(engine)
  BY <1>2, <1>3, <1>5, <1>7, <1>8 DEF Explained, Totalled, Flat
<1>10. Answers(engine) = 0
  BY <1>3, <1>5, OpensEmpty DEF Answers, Held
<1>11. Timely(engine, 0)
  BY <1>3, <1>5 DEF Timely
<1>12. TypeOK
  BY <1>1, <1>2 DEF TypeOK
<1>13. Len(curve) = 1 /\ curve[1] = Capital
  BY <1>1
<1> QED BY <1>1, <1>3, <1>4, <1>6, <1>9, <1>10, <1>11, <1>12, <1>13 DEF EngineInv, Sound, TicksSettle

\* Every action keeps the invariant: a tick, a request of the strategy, the second
\* half of a tick, the end of the data.
LEMMA EngineNext == EngineInv /\ [Next]_vars => EngineInv'
<1> SUFFICES ASSUME EngineInv, [Next]_vars PROVE EngineInv'
  OBVIOUS
<1>1. /\ TypeOK /\ Sound(engine) /\ asked + refused = Answers(engine)
      /\ (phase = "strategy" => tick # None) /\ Len(curve) > 0 /\ curve[1] = Capital
      /\ (phase # "strategy" => curve[Len(curve)] = engine.equity)
      /\ (phase = "ended" \/ tick = None => engine.position = None /\ engine.pending = <<>>)
  BY DEF EngineInv
<1>2. /\ engine \in Engines /\ latency \in Nat /\ curve \in Seq(Int) /\ asked \in Int /\ refused \in Int
      /\ (tick # None => IsTick(tick)) /\ latency \in Latencies
      /\ phase \in {"between", "strategy", "ended"}
  BY <1>1, BacktestAssumption DEF Sound, TypeOK
<1>3. phase = "strategy" => IsTick(tick) /\ Timely(engine, tick.time)
  BY <1>1, <1>2 DEF EngineInv
<1>4. CASE NextTick
  <2>1. PICK q \in Quotes, step \in Steps, draw \in Draws :
          /\ tick' = [time |-> (IF tick = None THEN 0 ELSE tick.time) + step,
                      bid |-> q.bid, ask |-> q.ask]
          /\ engine' = CheckProtection(ExecuteDue(engine, tick', draw), tick', draw)
    BY <1>4 DEF NextTick
  <2>2. phase = "between" /\ phase' = "strategy" /\ UNCHANGED <<curve, latency, asked, refused>>
    BY <1>4 DEF NextTick
  <2>3. PICK old \in Nat : old = IF tick = None THEN 0 ELSE tick.time
    BY <1>2, TickIs
  <2>4. /\ q = [bid |-> q.bid, ask |-> q.ask] /\ step \in Nat
    BY BacktestAssumption
  <2>5. /\ tick' = [time |-> tick'.time, bid |-> tick'.bid, ask |-> tick'.ask]
        /\ tick'.time = old + step /\ tick'.bid = q.bid /\ tick'.ask = q.ask
    BY <2>1, <2>3
  <2>6. IsTick(tick')
    BY <2>3, <2>4, <2>5 DEF IsTick
  <2>7. Timely(engine, old)
    BY <1>1, <2>2, <2>3 DEF EngineInv
  <2>8. Timely(engine, tick'.time)
    <3>1. tick'.time \in Nat /\ old <= tick'.time
      BY <2>3, <2>4, <2>5
    <3>2. ASSUME NEW i \in DOMAIN engine.trades PROVE engine.trades[i].exited <= tick'.time
      <4>1. engine.trades[i].exited <= old /\ engine.trades[i].exited \in Nat
        BY <1>2, <2>7, TradeIs DEF Timely
      <4> QED BY <2>3, <3>1, <4>1
    <3>3. engine.position # None => engine.position.executed <= tick'.time
      <4>1. SUFFICES ASSUME engine.position # None PROVE engine.position.executed <= tick'.time
        OBVIOUS
      <4>2. engine.position.executed <= old /\ engine.position.executed \in Nat
        BY <1>2, <2>7, <4>1, PositionIs DEF Timely
      <4> QED BY <2>3, <3>1, <4>2
    <3>4. ASSUME NEW k \in DOMAIN engine.pending PROVE engine.pending[k].requested <= tick'.time
      <4>1. engine.pending[k].requested <= old /\ engine.pending[k].requested \in Nat
        BY <1>2, <2>7, PendingIs DEF Timely
      <4> QED BY <2>3, <3>1, <4>1
    <3> QED BY <3>2, <3>3, <3>4 DEF Timely
  <2>9. PICK m : m = ExecuteDue(engine, tick', draw)
    OBVIOUS
  <2>10. /\ Sound(m) /\ Timely(m, tick'.time) /\ Answers(m) = Answers(engine)
         /\ \A i \in DOMAIN m.pending : m.pending[i].due > tick'.time
    BY <1>1, <2>6, <2>8, <2>9, DueSound
  <2>11. Sound(engine') /\ Timely(engine', tick'.time) /\ Answers(engine') = Answers(m)
    BY <2>1, <2>6, <2>9, <2>10, ProtectionSound
  <2>12. tick' # None
    <3>1. tick' \in Ticks
      <4>1. tick'.time \in Nat /\ tick'.bid \in Nat /\ tick'.ask \in Nat
        BY <2>6, TickIs
      <4> QED BY <2>5, <4>1 DEF Ticks
    <3> QED BY <3>1, NoneAssumption
  <2>13. TypeOK'
    BY <1>1, <1>2, <2>2, <2>6 DEF TypeOK
  <2> QED BY <1>1, <1>2, <2>2, <2>10, <2>11, <2>12, <2>13 DEF EngineInv, TicksSettle
<1>5. CASE Open
  <2>1. PICK o \in Requests :
          /\ engine' = OpenMarketPosition(engine, o, tick)
          /\ asked' = asked + Len(engine'.pending) - Len(engine.pending)
          /\ refused' = refused + Len(engine'.rejections) - Len(engine.rejections)
    BY <1>5 DEF Open
  <2>2. phase = "strategy" /\ UNCHANGED <<curve, latency, tick, phase>>
    BY <1>5 DEF Open
  <2>3. /\ Sound(engine') /\ Timely(engine', tick.time) /\ Answers(engine') = Answers(engine) + 1
        /\ (Len(engine'.pending) - Len(engine.pending))
             + (Len(engine'.rejections) - Len(engine.rejections)) = 1
    BY <1>1, <1>2, <1>3, <2>1, <2>2, OpenSound
  <2>4. asked' + refused' = Answers(engine') /\ asked' \in Int /\ refused' \in Int
    <3>1. PICK a \in Nat, b \in Nat, c \in Nat, d \in Nat :
            /\ a = Len(engine.pending) /\ b = Len(engine'.pending)
            /\ c = Len(engine.rejections) /\ d = Len(engine'.rejections)
      <4>1. engine' \in Engines
        BY <2>3 DEF Sound
      <4>2. /\ engine.pending \in Seq(Pendings) /\ engine'.pending \in Seq(Pendings)
            /\ engine.rejections \in Seq(Rejections) /\ engine'.rejections \in Seq(Rejections)
        BY <1>2, <4>1, EngineIs
      <4> QED BY <4>2
    <3>2. /\ asked' = asked + b - a /\ refused' = refused + d - c
          /\ (b - a) + (d - c) = 1
      BY <2>1, <2>3, <3>1
    <3>3. PICK k \in Nat : k = Answers(engine)
      BY <1>2, AnswersType
    <3>4. asked + refused = k /\ Answers(engine') = k + 1
      BY <1>1, <2>3, <3>3
    <3> QED BY <1>2, <3>2, <3>4
  <2>5. TypeOK'
    BY <1>1, <1>2, <2>2, <2>4 DEF TypeOK
  <2> QED BY <1>1, <1>2, <2>2, <2>3, <2>4, <2>5 DEF EngineInv, TicksSettle
<1>6. CASE Close
  <2>1. /\ engine' = ClosePosition(engine, tick) /\ phase = "strategy"
        /\ UNCHANGED <<tick, phase, curve, latency, asked, refused>>
    BY <1>6 DEF Close
  <2>2. Sound(engine') /\ Timely(engine', tick.time) /\ Answers(engine') = Answers(engine)
    BY <1>1, <1>2, <1>3, <2>1, CloseSound
  <2>3. TypeOK'
    BY <1>1, <1>2, <2>1 DEF TypeOK
  <2> QED BY <1>1, <1>2, <2>1, <2>2, <2>3 DEF EngineInv, TicksSettle
<1>7. CASE EndTick
  <2>1. PICK draw \in Draws :
          engine' = MarkToMarket(CheckProtection(ExecuteDue(engine, tick, draw), tick, draw), tick)
    BY <1>7 DEF EndTick
  <2>2. /\ phase = "strategy" /\ phase' = "between" /\ curve' = Append(curve, engine'.equity)
        /\ UNCHANGED <<tick, latency, asked, refused>>
    BY <1>7 DEF EndTick
  <2>3. PICK m : m = ExecuteDue(engine, tick, draw)
    OBVIOUS
  <2>4. /\ Sound(m) /\ Timely(m, tick.time) /\ Answers(m) = Answers(engine)
        /\ \A i \in DOMAIN m.pending : m.pending[i].due > tick.time
    BY <1>1, <1>3, <2>2, <2>3, DueSound
  <2>5. PICK p : p = CheckProtection(m, tick, draw)
    OBVIOUS
  <2>6. Sound(p) /\ Timely(p, tick.time) /\ Answers(p) = Answers(m) /\ Settles(p, tick)
    BY <1>3, <2>2, <2>4, <2>5, ProtectionSound
  <2>7. /\ Sound(engine') /\ Timely(engine', tick.time) /\ Answers(engine') = Answers(p)
        /\ engine'.position = p.position /\ engine'.pending = p.pending
    BY <1>3, <2>1, <2>2, <2>3, <2>5, <2>6, MarkSound
  <2>8. Settles(engine', tick')
    BY <2>2, <2>6, <2>7 DEF Settles
  <2>9. engine'.equity \in Int
    BY <2>7, EngineIs DEF Sound
  <2>10. /\ curve' \in Seq(Int) /\ Len(curve') > 0 /\ curve'[1] = Capital
         /\ curve'[Len(curve')] = engine'.equity
    BY <1>1, <1>2, <2>2, <2>9
  <2>11. TypeOK'
    BY <1>1, <1>2, <2>2, <2>10 DEF TypeOK
  <2> QED BY <1>1, <1>2, <2>2, <2>4, <2>6, <2>7, <2>8, <2>10, <2>11 DEF EngineInv, TicksSettle
<1>8. CASE EndOfData
  <2>1. phase = "between" /\ tick' = None /\ phase' = "ended" /\ UNCHANGED <<latency, asked, refused>>
        /\ curve' = IF engine.position = None THEN curve ELSE Append(curve, engine'.equity)
    BY <1>8 DEF EndOfData
  <2>2. PICK draw \in Draws :
          engine' = RefuseAll(
            IF engine.position = None THEN engine
            ELSE CloseNow([engine EXCEPT !.sequence = @ + 1], tick,
                          [sequence |-> engine.sequence + 1, requested |-> tick.time,
                           due |-> tick.time, reason |-> "END_OF_DATA"], draw))
    BY <1>8 DEF EndOfData
  <2>3. engine.position # None => IsTick(tick) /\ Timely(engine, tick.time)
    BY <1>1, <1>2, <2>1 DEF EngineInv
  <2>4. PICK exit : exit = [sequence |-> engine.sequence + 1, requested |-> tick.time,
                            due |-> tick.time, reason |-> "END_OF_DATA"]
    OBVIOUS
  <2>5. engine' = RefuseAll(IF engine.position = None THEN engine
                            ELSE CloseNow([engine EXCEPT !.sequence = @ + 1], tick, exit, draw))
    BY <2>2, <2>4
  <2>6. /\ Sound(engine') /\ engine'.position = None /\ engine'.pending = <<>>
        /\ Answers(engine') = Answers(engine)
        /\ engine.position = None => engine'.equity = engine.equity
    BY <1>1, <2>3, <2>4, <2>5, EndSound
  <2>7. engine'.equity \in Int
    BY <2>6, EngineIs DEF Sound
  <2>8. /\ curve' \in Seq(Int) /\ Len(curve') > 0 /\ curve'[1] = Capital
        /\ curve'[Len(curve')] = engine'.equity
    BY <1>1, <1>2, <2>1, <2>6, <2>7
  <2>9. TypeOK'
    BY <1>1, <1>2, <2>1, <2>8 DEF TypeOK
  <2> QED BY <1>1, <2>1, <2>6, <2>8, <2>9 DEF EngineInv, TicksSettle
<1>9. CASE UNCHANGED vars
  BY <1>9 DEF EngineInv, vars, TypeOK, TicksSettle
<1> QED BY <1>4, <1>5, <1>6, <1>7, <1>8, <1>9 DEF Next

-----------------------------------------------------------------------------
(***************************************************************************)
(* The theorems.                                                           *)
(***************************************************************************)
\* The engine is sound in every reachable state, for every choice of quotes,
\* latencies, slippages and orders.  The other theorems are drawn from this one.
THEOREM EngineInvariant == Spec => []EngineInv
<1> QED BY EngineInit, EngineNext, PTL DEF Spec

\* The account is what its trades say at every moment: balances form a chain from
\* the capital, each net result is the gross one less spread, slippage and
\* commissions, what is realized is their sum and an account without a position is
\* flat (_execute_open, _close_now, _mark_to_market).
THEOREM AccountIsExplained == Spec => []TradesExplainAccount
<1>1. EngineInv => TradesExplainAccount
  BY DEF EngineInv, Sound, TradesExplainAccount
<1> QED BY <1>1, EngineInvariant, PTL

\* Trades follow one another in time and in sequence numbers, whatever waits in the
\* queue when a stop is hit (open_market_position, _check_protection).
THEOREM TradesAreOrdered == Spec => []TradesInOrder
<1>1. EngineInv => TradesInOrder
  BY DEF EngineInv, Sound, Continued, TradesInOrder
<1> QED BY <1>1, EngineInvariant, PTL

\* After a tick nothing that was due still waits and a position that stays is inside
\* its stop and target (run, _execute_due, _check_protection).
THEOREM TicksAreSettled == Spec => []TicksSettle
<1>1. EngineInv => TicksSettle
  BY DEF EngineInv
<1> QED BY <1>1, EngineInvariant, PTL

\* No number stands for two things: entries and exits alternate in the order of
\* their numbers, what is open or waits is later than all of them, and rejections
\* have numbers of their own (_next_sequence).
LEMMA NumbersAreUnique ==
  ASSUME NEW e, Sound(e)
  PROVE  \A u, v \in Uses(e) : u[1] = v[1] => u = v
<1>1. /\ e \in Engines /\ Continued(e) /\ Numbered(e) /\ Len(e.pending) <= 1
      /\ e.pending \in Seq(Pendings) /\ e.trades \in Seq(Trades)
      /\ e.rejections \in Seq(Rejections)
  BY EngineIs DEF Sound, Queued
<1> DEFINE D == DOMAIN e.trades
           R == DOMAIN e.rejections
           Q == DOMAIN e.pending
           entry(i) == e.trades[i].entrySequence
           exit(i) == e.trades[i].exitSequence
           refusal(i) == e.rejections[i].sequence
           request(i) == e.pending[i].sequence
           held == e.position.sequence
<1>2. D \subseteq Nat /\ R \subseteq Nat /\ Q \subseteq Nat /\ \A i, j \in Q : i = j
  BY <1>1
<1>3. /\ \A i \in D : entry(i) \in Nat /\ exit(i) \in Nat /\ entry(i) < exit(i)
      /\ \A i, j \in D : i < j => exit(i) < entry(j)
  BY <1>1, TradeIs DEF Continued, Ordered
<1>4. \A i, j \in D : /\ entry(i) = entry(j) => i = j
                      /\ exit(i) = exit(j) => i = j
                      /\ entry(i) # exit(j)
  <2> HIDE DEF entry, exit, D
  <2> SUFFICES ASSUME NEW i \in D, NEW j \in D
               PROVE  /\ entry(i) = entry(j) => i = j
                      /\ exit(i) = exit(j) => i = j
                      /\ entry(i) # exit(j)
    OBVIOUS
  <2>1. i \in Nat /\ j \in Nat
    BY <1>2
  <2>2. /\ entry(i) \in Nat /\ exit(i) \in Nat /\ entry(i) < exit(i)
        /\ entry(j) \in Nat /\ exit(j) \in Nat /\ entry(j) < exit(j)
    BY <1>3
  <2>3. (i < j => exit(i) < entry(j)) /\ (j < i => exit(j) < entry(i))
    BY <1>3
  <2> QED BY <2>1, <2>2, <2>3
<1>5. e.position # None =>
        held \in Nat /\ \A i \in D : held # entry(i) /\ held # exit(i)
  <2>1. e.position # None => held \in Nat /\ \A i \in D : exit(i) < held
    BY <1>1, PositionIs DEF Continued
  <2> HIDE DEF entry, exit, D, held
  <2> QED BY <1>3, <2>1
<1>6. ASSUME NEW k \in Q
      PROVE  /\ request(k) \in Nat
             /\ \A i \in D : request(k) # entry(i) /\ request(k) # exit(i)
             /\ e.position # None => request(k) # held
  <2>1. /\ request(k) \in Nat /\ \A i \in D : exit(i) < request(k)
        /\ e.position # None => held < request(k)
    BY <1>1, PendingIs DEF Continued
  <2> HIDE DEF entry, exit, request, D, held
  <2> QED BY <1>3, <1>5, <2>1
<1>7. \A i \in R : /\ refusal(i) \in Nat
                   /\ \A k \in Q : refusal(i) # request(k)
                   /\ \A k \in D : refusal(i) # entry(k) /\ refusal(i) # exit(k)
                   /\ e.position # None => refusal(i) # held
  BY <1>1, RejectionIs DEF Numbered, Taken
<1>8. \A i, j \in R : refusal(i) = refusal(j) => i = j
  <2>1. \A i, j \in R : i < j => refusal(i) < refusal(j)
    BY <1>1 DEF Numbered
  <2> HIDE DEF refusal, R
  <2> SUFFICES ASSUME NEW i \in R, NEW j \in R, refusal(i) = refusal(j) PROVE i = j
    OBVIOUS
  <2>2. i \in Nat /\ j \in Nat /\ refusal(i) \in Nat /\ refusal(j) \in Nat
    BY <1>2, <1>7
  <2>3. (i < j => refusal(i) < refusal(j)) /\ (j < i => refusal(j) < refusal(i))
    BY <2>1
  <2> QED BY <2>2, <2>3
<1> DEFINE IsUse(u) ==
             \/ \E i \in Q : u[1] = request(i) /\ u = <<u[1], "pending", i>>
             \/ \E i \in R : u[1] = refusal(i) /\ u = <<u[1], "rejection", i>>
             \/ \E i \in D : u[1] = entry(i) /\ u = <<u[1], "entry", i>>
             \/ \E i \in D : u[1] = exit(i) /\ u = <<u[1], "exit", i>>
             \/ e.position # None /\ u[1] = held /\ u = <<u[1], "position", 0>>
<1>9. \A u \in Uses(e) : IsUse(u)
  <2> SUFFICES ASSUME NEW u \in Uses(e) PROVE IsUse(u)
    OBVIOUS
  <2>1. CASE \E i \in Q : u = <<request(i), "pending", i>>
    BY <2>1
  <2>2. CASE \E i \in R : u = <<refusal(i), "rejection", i>>
    BY <2>2
  <2>3. CASE \E i \in D : u = <<entry(i), "entry", i>>
    BY <2>3
  <2>4. CASE \E i \in D : u = <<exit(i), "exit", i>>
    BY <2>4
  <2>5. CASE e.position # None /\ u = <<held, "position", 0>>
    BY <2>5
  <2> HIDE DEF IsUse
  <2> QED BY <2>1, <2>2, <2>3, <2>4, <2>5 DEF Uses
<1> HIDE DEF entry, exit, refusal, request, held, D, R, Q
<1>10. ASSUME NEW u, NEW v, IsUse(u), IsUse(v), u[1] = v[1] PROVE u = v
  <2>1. ASSUME NEW i \in Q, u[1] = request(i), u = <<u[1], "pending", i>> PROVE u = v
    <3>1. /\ \A j \in Q : u[1] = request(j) => i = j
          /\ \A j \in R : u[1] # refusal(j)
          /\ \A j \in D : u[1] # entry(j)
          /\ \A j \in D : u[1] # exit(j)
          /\ e.position # None => u[1] # held
      BY <1>2, <1>6, <1>7, <2>1
    <3> QED BY <1>10, <2>1, <3>1, Zenon
  <2>2. ASSUME NEW i \in R, u[1] = refusal(i), u = <<u[1], "rejection", i>> PROVE u = v
    <3>1. /\ \A j \in Q : u[1] # request(j)
          /\ \A j \in R : u[1] = refusal(j) => i = j
          /\ \A j \in D : u[1] # entry(j)
          /\ \A j \in D : u[1] # exit(j)
          /\ e.position # None => u[1] # held
      BY <1>7, <1>8, <2>2
    <3> QED BY <1>10, <2>2, <3>1, Zenon
  <2>3. ASSUME NEW i \in D, u[1] = entry(i), u = <<u[1], "entry", i>> PROVE u = v
    <3>1. /\ \A j \in Q : u[1] # request(j)
          /\ \A j \in R : u[1] # refusal(j)
          /\ \A j \in D : u[1] = entry(j) => i = j
          /\ \A j \in D : u[1] # exit(j)
          /\ e.position # None => u[1] # held
      BY <1>4, <1>5, <1>6, <1>7, <2>3
    <3> QED BY <1>10, <2>3, <3>1, Zenon
  <2>4. ASSUME NEW i \in D, u[1] = exit(i), u = <<u[1], "exit", i>> PROVE u = v
    <3>1. /\ \A j \in Q : u[1] # request(j)
          /\ \A j \in R : u[1] # refusal(j)
          /\ \A j \in D : u[1] # entry(j)
          /\ \A j \in D : u[1] = exit(j) => i = j
          /\ e.position # None => u[1] # held
      BY <1>4, <1>5, <1>6, <1>7, <2>4
    <3> QED BY <1>10, <2>4, <3>1, Zenon
  <2>5. ASSUME e.position # None, u[1] = held, u = <<u[1], "position", 0>> PROVE u = v
    <3>1. /\ \A j \in Q : u[1] # request(j)
          /\ \A j \in R : u[1] # refusal(j)
          /\ \A j \in D : u[1] # entry(j) /\ u[1] # exit(j)
      BY <1>5, <1>6, <1>7, <2>5
    <3> QED BY <1>10, <2>5, <3>1, Zenon
  <2> QED BY <1>10, <2>1, <2>2, <2>3, <2>4, <2>5, Zenon
<1> HIDE DEF IsUse
<1> QED BY <1>9, <1>10

\* Every opening that was asked for is one trade, one position, one waiting request
\* or one rejection, and what waits fits the position (open_market_position,
\* close_position, _check_protection, run).
THEOREM RequestsAnswered == Spec => []RequestsAreAnswered
<1>1. EngineInv => RequestsAreAnswered
  <2> SUFFICES ASSUME EngineInv PROVE RequestsAreAnswered
    OBVIOUS
  <2>1. Sound(engine) /\ engine \in Engines /\ Queued(engine) /\ asked + refused = Answers(engine)
    BY DEF EngineInv, Sound
  <2>2. Opens(engine.pending) + Held(engine) <= 1 /\ (Closing(engine) => engine.position # None)
    <3>1. CASE engine.pending = <<>>
      BY <3>1, OpensEmpty DEF Held, Closing
    <3>2. ASSUME NEW r \in Pendings, engine.pending = <<r>>,
                 r.type = "OPEN" <=> engine.position = None
          PROVE  /\ Opens(engine.pending) + Held(engine) <= 1
                 /\ Closing(engine) => engine.position # None
      <4>1. Opens(engine.pending) = IF r.type = "OPEN" THEN 1 ELSE 0
        BY <3>2, OpensOne
      <4>2. Closing(engine) => r.type = "CLOSE"
        BY <3>2 DEF Closing
      <4> QED BY <3>2, <4>1, <4>2 DEF Held
    <3> QED BY <2>1, <3>1, <3>2, QueueIs
  <2>3. \A u, v \in Uses(engine) : u[1] = v[1] => u = v
    BY <2>1, NumbersAreUnique
  <2> QED BY <2>1, <2>2, <2>3 DEF RequestsAreAnswered, Answers
<1> QED BY <1>1, EngineInvariant, PTL

\* The report of a finished run is what the account says: net is the change of
\* equity, the drawdown the deepest fall between any two points of the curve, the
\* streak the longest interval of losing trades (calculate_metrics).
THEOREM MetricsAgree == Spec => []MetricsDescribeRun
<1>1. EngineInv => MetricsDescribeRun
  <2> SUFFICES ASSUME EngineInv, phase = "ended" PROVE MetricsDescribeRun
    BY DEF MetricsDescribeRun
  <2>1. /\ engine \in Engines /\ Explained(engine) /\ Totalled(engine)
        /\ engine.position = None /\ curve \in Seq(Int) /\ Len(curve) > 0 /\ curve[1] = Capital
        /\ curve[Len(curve)] = engine.equity
    BY DEF EngineInv, Sound, TypeOK
  <2>2. /\ Metrics.starting = Capital /\ Metrics.ending = engine.equity
        /\ Metrics.gross = Total(Gross(engine.trades)) /\ Metrics.net = Total(Net(engine.trades))
        /\ Metrics.spread = Total(Spread(engine.trades))
        /\ Metrics.slippage = Total(SlippageCost(engine.trades))
        /\ Metrics.commission = Total(Fees(engine.trades))
        /\ Metrics.drawdown = MaxDrawdown(curve)
        /\ Metrics.streak = MaxConsecutiveLosses(engine.trades)
    BY DEF Metrics
  <2>3. Metrics.net = Metrics.ending - Metrics.starting
    <3>1. /\ engine.equity = engine.balance /\ engine.realized = Total(Net(engine.trades))
          /\ engine.balance = After(engine.trades, Len(engine.trades)) - 0
      BY <2>1 DEF Explained, Flat
    <3>2. /\ After(engine.trades, Len(engine.trades)) = Capital + engine.realized
          /\ engine.realized \in Int /\ Capital \in Int
      BY <2>1, EngineIs, BacktestAssumption DEF Totalled
    <3> QED BY <2>2, <3>1, <3>2
  <2>4. Metrics.gross = Metrics.net + Metrics.spread + Metrics.slippage + Metrics.commission
    BY <2>1, <2>2 DEF Totalled
  <2>5. Metrics.drawdown = Max(UNION {FallsTo(j) : j \in DOMAIN curve})
    BY <2>1, <2>2, DrawdownIsDeepest
  <2>6. Metrics.streak = Max(LosingStreaks \union {0})
    BY <2>1, <2>2, EngineIs, StreakIsLongest
  <2> QED BY <2>1, <2>2, <2>3, <2>4, <2>5, <2>6 DEF MetricsDescribeRun
<1> QED BY <1>1, EngineInvariant, PTL
=============================================================================
